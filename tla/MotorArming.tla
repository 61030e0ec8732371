----------------------------- MODULE MotorArming -----------------------------
(***************************************************************************)
(* How PWM outputs are armed, driven and floated: the "safety critical"    *)
(* half of MotorControl/low_level.cpp, Motor::arm and the skeleton of      *)
(* Axis::run_control_loop that calls them.                                 *)
(*                                                                         *)
(* Three kinds of actors share the state:                                  *)
(*   - one control thread per axis, cut at every point where an interrupt  *)
(*     or another thread can run between two accesses to shared state;     *)
(*   - the ADC and timer interrupts, which preempt every thread and run to *)
(*     completion, so one interrupt is one action;                         *)
(*   - the environment: the ADC may stop converting, a thread may overrun  *)
(*     its stack, the DC bus may go out of range.                          *)
(* A section between cpu_enter_critical and cpu_exit_critical is part of   *)
(* one action.  Thread priorities are not modelled: every interleaving of  *)
(* the threads is allowed, a superset of what the scheduler does.          *)
(***************************************************************************)
EXTENDS Integers

CONSTANTS
    AxisCount,      \* AXIS_COUNT
    Words,          \* words of next_timings_ written one by one (3 in the code;
                    \* 0 leaves their contents out)
    ArmIsPrompt     \* TRUE: between the signal that ends Motor::arm's wait and
                    \* the unlocking, no interrupt of that axis intervenes

ASSUME AxisCountAssumption == AxisCount \in Nat \ {0}
ASSUME WordsAssumption == Words \in Nat
ASSUME ArmIsPromptAssumption == ArmIsPrompt \in BOOLEAN

Axis == 0 .. AxisCount - 1
Word == 1 .. Words

\* Motor::ArmedState
ArmedState == {"DISARMED", "WAITING_FOR_TIMINGS", "WAITING_FOR_UPDATE", "ARMED"}

VARIABLES
    armed_state,            \* motor_.armed_state_
    moe,                    \* main output enable of the motor's timer
    next_timings,           \* motor_.next_timings_: one tag per word
    next_timings_valid,     \* motor_.next_timings_valid_
    ccr,                    \* the compare registers, with the tags they hold
    sampled,                \* the current was sampled since the last load
    done,                   \* axis.thread_id_done, a completion: one flag
    pc,                     \* where the axis' thread is
    ret,                    \* where update_brake_current returns to
    idx,                    \* words written, or motors already disarmed
    brake_resistor_armed,
    brake_on,               \* the low side compare register (CCR3) is not 0
    adc_alive,              \* the current sense interrupts still fire
    halted,                 \* the scheduler hook caught a stack overflow
    fresh                   \* history: timings enqueued since the last load
                            \* and since the motor was unlocked

pwm == <<armed_state, moe, brake_resistor_armed, brake_on>>
timings == <<next_timings, next_timings_valid, ccr, fresh>>
thread == <<pc, ret, idx>>
hw == <<sampled, done>>
env == <<adc_alive, halted>>
vars == <<armed_state, moe, brake_resistor_armed, brake_on, next_timings,
          next_timings_valid, ccr, fresh, pc, ret, idx, sampled, done,
          adc_alive, halted>>

PC == {"new", "arm", "clear", "unlock", "run", "enqueue", "wait", "float",
       "idle", "brake", "fault"}

\* start_adc_pwm has run: motors disarmed, brake resistor armed
Init ==
    /\ armed_state = [m \in Axis |-> "DISARMED"]
    /\ moe = [m \in Axis |-> FALSE]
    /\ next_timings = [m \in Axis |-> [w \in Word |-> FALSE]]
    /\ next_timings_valid = [m \in Axis |-> FALSE]
    /\ ccr = [m \in Axis |-> [w \in Word |-> FALSE]]
    /\ sampled = [m \in Axis |-> FALSE]
    /\ done = [m \in Axis |-> FALSE]
    /\ pc = [m \in Axis |-> "new"]
    /\ ret = [m \in Axis |-> "idle"]
    /\ idx = [m \in Axis |-> 0]
    /\ brake_resistor_armed = TRUE
    /\ brake_on = FALSE
    /\ adc_alive = TRUE
    /\ halted = FALSE
    /\ fresh = [m \in Axis |-> FALSE]

-----------------------------------------------------------------------------
(* The safety critical functions, each one critical section.               *)

goto(m, l) == pc' = [pc EXCEPT ![m] = l]

safety_critical_disarm_motor_pwm(m) ==
    /\ armed_state' = [armed_state EXCEPT ![m] = "DISARMED"]
    /\ moe' = [moe EXCEPT ![m] = FALSE]

\* mutant: the brake resistor is not asked
ArmUnconditionally(m) ==
    armed_state' = [armed_state EXCEPT ![m] = "WAITING_FOR_TIMINGS"]

safety_critical_arm_motor_pwm(m) ==
    armed_state' = IF brake_resistor_armed
                   THEN [armed_state EXCEPT ![m] = "WAITING_FOR_TIMINGS"]
                   ELSE armed_state

\* mutant: low_level_fault's own loop has disarmed the motors already
DisarmBrakeOnly ==
    /\ brake_resistor_armed' = FALSE
    /\ brake_on' = FALSE
    /\ UNCHANGED <<armed_state, moe>>

\* also a whole low_level_fault when nothing can come between its steps
safety_critical_disarm_brake_resistor ==
    /\ brake_resistor_armed' = FALSE
    /\ brake_on' = FALSE
    /\ armed_state' = [m \in Axis |-> "DISARMED"]
    /\ moe' = [m \in Axis |-> FALSE]

\* the duty cycle is any, but it is only written to an armed brake resistor
safety_critical_apply_brake_resistor_timings ==
    \E on \in BOOLEAN :
        brake_on' = IF brake_resistor_armed THEN on ELSE brake_on

\* The first load fills the buffered registers, the second finds them in
\* effect and enables the outputs.
AfterLoad(state) ==
    CASE state = "WAITING_FOR_TIMINGS" -> "WAITING_FOR_UPDATE"
      [] state = "WAITING_FOR_UPDATE"  -> "ARMED"
      [] state = "ARMED"               -> "ARMED"
      [] OTHER                         -> "DISARMED"

safety_critical_apply_motor_pwm_timings(m) ==
    LET state == AfterLoad(IF brake_resistor_armed THEN armed_state[m] ELSE "DISARMED")
    IN  /\ armed_state' = [armed_state EXCEPT ![m] = state]
        /\ moe' = [moe EXCEPT ![m] = CASE state = "DISARMED" -> FALSE
                                       [] armed_state[m] = "WAITING_FOR_UPDATE" -> TRUE
                                       [] OTHER -> moe[m]]

-----------------------------------------------------------------------------
(* Interrupts.                                                             *)

\* Motor::arm resumes at once when its wait ends and unlocks the motor before
\* the next interrupt of its axis (only assumed when ArmIsPrompt).
InterruptAllowed(m) ==
    ArmIsPrompt => /\ pc[m] \notin {"clear", "unlock"}
                   /\ ~(pc[m] = "arm" /\ done[m])

\* pwm_trig_adc_cb for ADC3 counting up: both currents of m are stored and the
\* control thread is signalled, if it exists.
signal_current_meas(m) ==
    /\ adc_alive /\ ~sampled[m] /\ InterruptAllowed(m)
    /\ sampled' = [sampled EXCEPT ![m] = TRUE]
    /\ done' = [done EXCEPT ![m] = pc[m] # "new"]
    /\ UNCHANGED <<pwm, timings, thread, env>>

\* mutant: the flag is left set
TakeTimingsAgain(m) ==
    /\ fresh' = [fresh EXCEPT ![m] = FALSE]
    /\ ccr' = IF next_timings_valid[m]
              THEN [ccr EXCEPT ![m] = next_timings[m]]
              ELSE ccr
    /\ UNCHANGED <<next_timings, next_timings_valid>>

\* What pwm_trig_adc_cb does with the timings of the motor it is not sampling
TakeTimings(m) ==
    /\ next_timings_valid' = [next_timings_valid EXCEPT ![m] = FALSE]
    /\ fresh' = [fresh EXCEPT ![m] = FALSE]
    /\ ccr' = IF next_timings_valid[m]
              THEN [ccr EXCEPT ![m] = next_timings[m]]
              ELSE ccr
    /\ UNCHANGED next_timings

\* pwm_trig_adc_cb for ADC2 of the other axis: load the timings of m, or float
\* m if its control loop delivered none, then update_brake_current.
LoadTimings(m) ==
    /\ adc_alive /\ sampled[m] /\ InterruptAllowed(m)
    /\ sampled' = [sampled EXCEPT ![m] = FALSE]
    /\ TakeTimings(m)
    /\ \/ /\ IF next_timings_valid[m]
             THEN safety_critical_apply_motor_pwm_timings(m)
             ELSE safety_critical_disarm_motor_pwm(m)
          /\ safety_critical_apply_brake_resistor_timings
          /\ UNCHANGED brake_resistor_armed
       \/ safety_critical_disarm_brake_resistor
    /\ UNCHANGED <<done, thread, env>>

\* low_level_fault in an interrupt: unexpected ADC or timer callback
InterruptFault ==
    /\ safety_critical_disarm_brake_resistor
    /\ UNCHANGED <<timings, thread, hw, env>>

-----------------------------------------------------------------------------
(* The control thread of axis m.                                           *)

\* Axis::start_thread; the state machine calls Motor::arm first
start_thread(m) ==
    /\ pc[m] = "new"
    /\ done' = [done EXCEPT ![m] = FALSE]
    /\ goto(m, "arm")
    /\ UNCHANGED <<pwm, timings, ret, idx, sampled, env>>

\* the rt_completion flag is consumed by the wait that sees it
Consume(m) == done[m] /\ done' = [done EXCEPT ![m] = FALSE]

\* Motor::arm: the wait
ArmWait(m) ==
    /\ pc[m] = "arm"
    /\ Consume(m)
    /\ goto(m, "clear")
    /\ UNCHANGED <<pwm, timings, ret, idx, sampled, env>>

\* Motor::arm: timings left over from before must not be loaded
ArmClear(m) ==
    /\ pc[m] = "clear"
    /\ next_timings_valid' = [next_timings_valid EXCEPT ![m] = FALSE]
    /\ goto(m, "unlock")
    /\ UNCHANGED <<pwm, next_timings, ccr, fresh, ret, idx, hw, env>>

ArmUnlock(m) ==
    /\ pc[m] = "unlock"
    /\ safety_critical_arm_motor_pwm(m)
    /\ fresh' = [fresh EXCEPT ![m] = FALSE]
    /\ goto(m, "run")
    /\ UNCHANGED <<moe, brake_resistor_armed, brake_on, next_timings,
                   next_timings_valid, ccr, ret, idx, sampled, done, env>>

\* Motor::arm gives up: the state machine falls back to idle
ArmTimeout(m) ==
    /\ pc[m] = "arm" /\ ~done[m] /\ ~adc_alive
    /\ goto(m, "float")
    /\ UNCHANGED <<pwm, timings, ret, idx, sampled, done, env>>

\* mutant: the timings are declared valid before they are written
ValidateThenEnqueue(m) ==
    /\ pc[m] = "run" /\ armed_state[m] # "DISARMED"
    /\ idx' = [idx EXCEPT ![m] = 0]
    /\ next_timings_valid' = [next_timings_valid EXCEPT ![m] = TRUE]
    /\ goto(m, "enqueue")
    /\ UNCHANGED <<pwm, next_timings, ccr, fresh, ret, hw, env>>

\* An iteration of run_control_loop passes its checks (an armed motor is one)
\* and its handler reaches enqueue_modulation_timings.
StartEnqueue(m) ==
    /\ pc[m] = "run" /\ armed_state[m] # "DISARMED"
    /\ idx' = [idx EXCEPT ![m] = 0]
    /\ goto(m, "enqueue")
    /\ UNCHANGED <<pwm, timings, ret, hw, env>>

\* enqueue_modulation_timings stores one word: its tag flips
WriteTiming(m) ==
    /\ pc[m] = "enqueue" /\ idx[m] < Words
    /\ next_timings' = [next_timings EXCEPT ![m][idx[m] + 1] = ~@]
    /\ idx' = [idx EXCEPT ![m] = @ + 1]
    /\ UNCHANGED <<pwm, next_timings_valid, ccr, fresh, pc, ret, hw, env>>

FinishEnqueue(m) ==
    /\ pc[m] = "enqueue" /\ idx[m] = Words
    /\ next_timings_valid' = [next_timings_valid EXCEPT ![m] = TRUE]
    /\ fresh' = [fresh EXCEPT ![m] = TRUE]
    /\ idx' = [idx EXCEPT ![m] = 0]
    /\ goto(m, "wait")
    /\ UNCHANGED <<pwm, next_timings, ccr, ret, hw, env>>

\* the handler returns false before it enqueues: the loop quits after its wait
SkipEnqueue(m) ==
    /\ pc[m] = "run" /\ armed_state[m] # "DISARMED"
    /\ goto(m, "wait")
    /\ UNCHANGED <<pwm, timings, ret, idx, hw, env>>

\* run_control_loop: the measurement arrived; next iteration, next loop or exit
LoopWait(m) ==
    /\ pc[m] = "wait"
    /\ Consume(m)
    /\ goto(m, "run")
    /\ UNCHANGED <<pwm, timings, ret, idx, sampled, env>>

\* the task fails or is done: the state machine goes idle
LeaveLoop(m) ==
    /\ pc[m] = "run"
    /\ goto(m, "float")
    /\ UNCHANGED <<pwm, timings, ret, idx, hw, env>>

\* mutant: idling relies on the missed deadline to float the motor
IdleWithoutFloat(m) ==
    /\ pc[m] = "float"
    /\ goto(m, "idle")
    /\ UNCHANGED <<pwm, timings, ret, idx, hw, env>>

\* run_idle_loop: float the motor before anything else
IdleFloat(m) ==
    /\ pc[m] = "float"
    /\ safety_critical_disarm_motor_pwm(m)
    /\ goto(m, "idle")
    /\ UNCHANGED <<brake_resistor_armed, brake_on, timings, ret, idx, hw, env>>

\* run_idle_loop: keep idling, or a request came and the motor is armed again
IdleWait(m) ==
    /\ pc[m] = "idle"
    /\ Consume(m)
    /\ \E l \in {"idle", "arm"} : goto(m, l)
    /\ UNCHANGED <<pwm, timings, ret, idx, sampled, env>>

\* mutant: the wait has no timeout
WaitForever(m) == FALSE /\ UNCHANGED vars

\* run_control_loop: no measurement for 2 ms, float the motor and leave
LoopTimeout(m) ==
    /\ pc[m] \in {"idle", "wait"} /\ ~done[m] /\ ~adc_alive
    /\ safety_critical_disarm_motor_pwm(m)
    /\ ret' = [ret EXCEPT ![m] = IF pc[m] = "idle" THEN "arm" ELSE "float"]
    /\ goto(m, "brake")
    /\ UNCHANGED <<brake_resistor_armed, brake_on, timings, idx, hw, env>>

\* Motor::set_error, called by the checks or by the handler
set_error(m) ==
    /\ pc[m] \in {"idle", "run"}
    /\ safety_critical_disarm_motor_pwm(m)
    /\ \E l \in (IF pc[m] = "idle" THEN {"idle"} ELSE {"wait", "float"}) :
           ret' = [ret EXCEPT ![m] = l]
    /\ goto(m, "brake")
    /\ UNCHANGED <<brake_resistor_armed, brake_on, timings, idx, hw, env>>

\* update_brake_current in the thread: a duty cycle in range is applied
UpdateBrake(m) ==
    /\ pc[m] = "brake"
    /\ safety_critical_apply_brake_resistor_timings
    /\ goto(m, ret[m])
    /\ UNCHANGED <<armed_state, moe, brake_resistor_armed, timings, ret, idx, hw, env>>

\* update_brake_current in the thread: out of range, low_level_fault follows.
\* Outside an interrupt it is a sequence of critical sections.
BrakeFault(m) ==
    /\ pc[m] = "brake"
    /\ idx' = [idx EXCEPT ![m] = 0]
    /\ goto(m, "fault")
    /\ UNCHANGED <<pwm, timings, ret, hw, env>>

\* mutant: the loop over the motors runs once too often
FaultMotorTooFar(m) ==
    /\ pc[m] = "fault" /\ idx[m] <= AxisCount
    /\ safety_critical_disarm_motor_pwm(idx[m])
    /\ idx' = [idx EXCEPT ![m] = @ + 1]
    /\ UNCHANGED <<brake_resistor_armed, brake_on, timings, pc, ret, hw, env>>

FaultMotor(m) ==
    /\ pc[m] = "fault" /\ idx[m] < AxisCount
    /\ safety_critical_disarm_motor_pwm(idx[m])
    /\ idx' = [idx EXCEPT ![m] = @ + 1]
    /\ UNCHANGED <<brake_resistor_armed, brake_on, timings, pc, ret, hw, env>>

FaultBrake(m) ==
    /\ pc[m] = "fault" /\ idx[m] = AxisCount
    /\ safety_critical_disarm_brake_resistor
    /\ idx' = [idx EXCEPT ![m] = 0]
    /\ goto(m, ret[m])
    /\ UNCHANGED <<timings, ret, hw, env>>

-----------------------------------------------------------------------------
(* The environment.                                                        *)

\* the conversions stop and with them every interrupt of this module
AdcFails ==
    /\ adc_alive
    /\ adc_alive' = FALSE
    /\ UNCHANGED <<pwm, timings, thread, hw, halted>>

\* usr_contex_scheduler_hook: float everything and hang with interrupts off
StackOverflow ==
    /\ safety_critical_disarm_brake_resistor
    /\ halted' = TRUE
    /\ UNCHANGED <<timings, thread, hw, adc_alive>>

Interrupt(m) == signal_current_meas(m) \/ LoadTimings(m)

Arm(m) == ArmWait(m) \/ ArmClear(m) \/ ArmUnlock(m) \/ ArmTimeout(m)

Loop(m) == \/ StartEnqueue(m) \/ WriteTiming(m) \/ FinishEnqueue(m)
           \/ SkipEnqueue(m) \/ LoopWait(m) \/ LeaveLoop(m) \/ LoopTimeout(m)

Idle(m) == IdleFloat(m) \/ IdleWait(m)

Brake(m) == UpdateBrake(m) \/ BrakeFault(m) \/ FaultMotor(m) \/ FaultBrake(m)

Thread(m) == start_thread(m) \/ Arm(m) \/ Loop(m) \/ Idle(m) \/ set_error(m) \/ Brake(m)

Next ==
    /\ ~halted
    /\ \/ \E m \in Axis : Interrupt(m) \/ Thread(m)
       \/ InterruptFault
       \/ AdcFails
       \/ StackOverflow

Spec == Init /\ [][Next]_vars

\* The interrupts come from free running timers: each of them fires again as
\* long as the ADC converts.  Nothing is assumed of the threads.
FairSpec ==
    Spec /\ \A m \in Axis : WF_vars(signal_current_meas(m)) /\ WF_vars(LoadTimings(m))

-----------------------------------------------------------------------------
(* Properties.                                                             *)

TypeOK ==
    /\ armed_state \in [Axis -> ArmedState]
    /\ moe \in [Axis -> BOOLEAN]
    /\ next_timings \in [Axis -> [Word -> BOOLEAN]]
    /\ next_timings_valid \in [Axis -> BOOLEAN]
    /\ ccr \in [Axis -> [Word -> BOOLEAN]]
    /\ sampled \in [Axis -> BOOLEAN]
    /\ done \in [Axis -> BOOLEAN]
    /\ pc \in [Axis -> PC]
    /\ ret \in [Axis -> {"idle", "arm", "wait", "float"}]
    /\ idx \in [Axis -> 0 .. AxisCount + Words]
    /\ brake_resistor_armed \in BOOLEAN
    /\ brake_on \in BOOLEAN
    /\ adc_alive \in BOOLEAN
    /\ halted \in BOOLEAN
    /\ fresh \in [Axis -> BOOLEAN]

\* No motor is armed, not even half way, without the brake resistor, in any
\* interleaving of a low_level_fault that runs in one thread with an arming in
\* another: the low_level.cpp functions re-check and disarm again.  A disarmed
\* brake resistor is not driven, and exactly the armed motors have live outputs.
BrakeInterlock ==
    /\ ~brake_resistor_armed => ~brake_on /\ \A m \in Axis : armed_state[m] = "DISARMED"
    /\ \A m \in Axis : moe[m] <=> armed_state[m] = "ARMED"

\* Motor::arm is only ever reached with the phases floating, so a motor is
\* never unlocked with a stale state of the arming sequence.  run_idle_loop
\* and the timeout path of run_control_loop are what guarantees it.
ArmStartsFloating ==
    \A m \in Axis : pc[m] \in {"new", "idle", "arm", "clear", "unlock"}
                        => armed_state[m] = "DISARMED"

\* "If the control loop fails to do so, the next interrupt handler floats the
\* phases" (motor.cpp:30): an interrupt that finds no timings enqueued since
\* the previous one, and since the motor was unlocked, leaves it disarmed.
DeadlineEnforced ==
    [][\A m \in Axis : sampled[m] /\ ~sampled'[m] /\ ~fresh[m]
           => armed_state'[m] = "DISARMED" /\ ~moe'[m]]_vars

Uniform(words) == \A v, w \in Word : words[v] = words[w]

\* A live output never carries a mix of two sets of timings, although
\* enqueue_modulation_timings writes them one by one without a critical
\* section.  Needs ArmIsPrompt: an axis that unlocks late runs a whole period
\* ahead of the interrupt and overwrites timings about to be loaded.
NoTornTimings == \A m \in Axis : moe[m] => Uniform(ccr[m])

\* The arming sequence implements the promise stated in PwmInterlock.
Promise == INSTANCE PwmInterlock WITH
    Motor     <- Axis,
    unlocked  <- {m \in Axis : armed_state[m] # "DISARMED"},
    energized <- {m \in Axis : moe[m]},
    brake     <- brake_resistor_armed

InterlockSpec == Promise!Spec

\* The dead man's switch: phases stay energized again and again only if the
\* control thread keeps delivering timings and the interrupts keep taking them.
\* A thread that hangs anywhere is caught by the next interrupt.
DeadManSwitch ==
    \A m \in Axis : []<>moe[m] => []<><<FinishEnqueue(m)>>_vars \/ <>[]~adc_alive

\* The other half: when the interrupts have died, a control thread that keeps
\* running (it is the highest priority thread of its axis) floats its motor for
\* good, because its wait for the next measurement times out.
LostInterruptFloats ==
    (\A m \in Axis : WF_vars(Thread(m)))
        => (<>~adc_alive => \A m \in Axis : <>[]~moe[m])
=============================================================================
