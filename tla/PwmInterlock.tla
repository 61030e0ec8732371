---------------------------- MODULE PwmInterlock ----------------------------
(***************************************************************************)
(* What the "safety critical" functions of MotorControl/low_level.cpp      *)
(* promise to the rest of the firmware, without saying how:                *)
(*                                                                         *)
(*   - a motor's phases are energized only after the motor was unlocked    *)
(*     (armed) in an earlier step, and only while the brake resistor is    *)
(*     armed;                                                              *)
(*   - any set of motors may be floated at any time, which also locks      *)
(*     them again;                                                         *)
(*   - disarming the brake resistor floats every motor in the same step    *)
(*     and is permanent until the board is restarted.                      *)
(*                                                                         *)
(* MotorArming implements this specification.                              *)
(***************************************************************************)
CONSTANT Motor          \* the axes of the board

VARIABLES
    unlocked,           \* motors the control loop may energize
    energized,          \* motors whose PWM outputs are enabled
    brake               \* the brake resistor is armed

vars == <<unlocked, energized, brake>>

Init ==
    /\ unlocked = {}
    /\ energized = {}
    /\ brake = TRUE

\* safety_critical_arm_motor_pwm
Unlock(m) ==
    /\ brake
    /\ m \notin unlocked
    /\ unlocked' = unlocked \cup {m}
    /\ UNCHANGED <<energized, brake>>

\* the second set of timings reached the timer: the outputs go live
Energize(m) ==
    /\ m \in unlocked
    /\ energized' = energized \cup {m}
    /\ UNCHANGED <<unlocked, brake>>

\* safety_critical_disarm_motor_pwm
Float(m) ==
    /\ unlocked' = unlocked \ {m}
    /\ energized' = energized \ {m}
    /\ UNCHANGED brake

\* safety_critical_disarm_brake_resistor, alone or after low_level_fault's loop
Trip ==
    /\ unlocked' = {}
    /\ energized' = {}
    /\ brake' = FALSE

Next ==
    \/ \E m \in Motor : Unlock(m) \/ Energize(m) \/ Float(m)
    \/ Trip

Spec == Init /\ [][Next]_vars

-----------------------------------------------------------------------------

TypeOK ==
    /\ unlocked \subseteq Motor
    /\ energized \subseteq unlocked
    /\ brake \in BOOLEAN

\* The guarantee the rest of the firmware relies on: a live output implies an
\* armed brake resistor, so regenerated current always has somewhere to go.
Interlock == unlocked # {} => brake

=============================================================================
