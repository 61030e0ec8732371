----------------------------- MODULE Controller -----------------------------
(***************************************************************************)
(* The position input of an axis: MotorControl/controller.cpp and the      *)
(* parts of axis.cpp that write its variables, in position control.        *)
(*                                                                         *)
(* Actors:                                                                 *)
(*   - the axis' thread, which calls Controller::update once per period.   *)
(*     It has the highest priority of all threads: they run while it waits *)
(*     (pc \in Waiting);                                                   *)
(*   - one host thread (USB, UART or CAN), which writes input_pos_ and     *)
(*     then the flag, and may be preempted between the two;                *)
(*   - the step interrupt, which adds to input_pos_ between any two        *)
(*     accesses of the threads.                                            *)
(*                                                                         *)
(* Positions are whole numbers, a trajectory moves one of them per period, *)
(* and a speed is its direction.  Torques and the modes that integrate or  *)
(* mirror (VEL_RAMP, TORQUE_RAMP, POS_FILTER, MIRROR) are left out, as are *)
(* homing, sensorless control and a cogging map restored from the          *)
(* configuration.                                                          *)
(***************************************************************************)
EXTENDS Integers

CONSTANTS
    Limit,          \* bound: positions are commanded within -Limit .. Limit
    CircularRange,  \* config_.circular_setpoint_range
    MapSize,        \* entries of the cogging map (3600)
    FeedForward,    \* speeds the host may set as input_vel_
    MaxInputs       \* bound: inputs by the host and the step interrupt

ASSUME LimitAssumption == Limit \in Nat
ASSUME CircularRangeAssumption == CircularRange \in Nat \ {0}
ASSUME MapSizeAssumption == MapSize \in Nat \ {0}
ASSUME FeedForwardAssumption == FeedForward \subseteq {-1, 0, 1}
ASSUME MaxInputsAssumption == MaxInputs \in Nat

VARIABLES
    pc,                 \* where the axis' thread is
    latched,            \* input_pos_ as it has just read it
    input_pos, input_pos_updated, input_vel, input_mode,
    pos_setpoint, vel_setpoint,
    trajectory,         \* trap_traj_: Xi_, Vi_, Xf_ and t_
    trajectory_done,
    host, value,        \* where the host thread is, and what it will write
    config,             \* circular_setpoints, step_dir_always_on
    calib_anticogging, index, measured, anticogging_valid,
    inputs,             \* counts the inputs, for MaxInputs
    start,              \* history: the estimate closed loop control began at
    from_rest,          \* history: it began with no speed left or commanded
    moved               \* history: there was an input since

input == <<input_pos, input_pos_updated>>
commands == <<input_mode, input_vel>>
setpoint == <<pos_setpoint, vel_setpoint, trajectory, trajectory_done>>
hosts == <<host, value>>
anticogging == <<calib_anticogging, index, measured, anticogging_valid>>
entry == <<start, from_rest>>
history == <<start, from_rest, moved>>
vars == <<pc, latched, input_pos, input_pos_updated, input_vel, input_mode,
          pos_setpoint, vel_setpoint, trajectory, trajectory_done, host, value,
          config, calib_anticogging, index, measured, anticogging_valid, inputs,
          start, from_rest, moved>>

Pos == -Limit .. Limit
Speed == {-1, 0, 1}
InputMode == {"INACTIVE", "PASSTHROUGH", "TRAP_TRAJ"}
Waiting == {"idle", "arm", "armed", "wait"}
Updating == {"update", "calibrated", "wrap", "wrapped", "mode", "clear", "follow", "leave"}
InLoop == {"wait"} \cup Updating

\* fmodf_pos
Wrapped(x) == x % CircularRange

\* what the encoder may report when closed loop control begins
Estimate == IF config.circular THEN 0 .. CircularRange - 1 ELSE Pos

Distance(a, b) == IF a < b THEN b - a ELSE a - b

Init ==
    /\ pc = "idle" /\ latched = 0
    /\ input_pos = 0 /\ input_pos_updated = FALSE /\ input_vel = 0
    /\ input_mode = "PASSTHROUGH"
    /\ pos_setpoint = 0 /\ vel_setpoint = 0
    /\ trajectory = [Xi |-> 0, Vi |-> 0, Xf |-> 0, t |-> 0] /\ trajectory_done = TRUE
    /\ host = "none" /\ value = 0
    /\ config \in [circular : BOOLEAN, always_on : BOOLEAN]
    /\ calib_anticogging = FALSE /\ index = 0
    /\ measured = {} /\ anticogging_valid = FALSE
    /\ inputs = 0
    /\ start = 0 /\ from_rest = TRUE /\ moved = FALSE

-----------------------------------------------------------------------------
(* Motor::arm, the tasks around it and Axis::run_closed_loop_control_loop. *)

\* controller_.reset(), then arm waits for a measurement
Arm ==
    /\ pc = "idle"
    /\ pos_setpoint' = 0 /\ vel_setpoint' = 0
    /\ pc' = "arm"
    /\ UNCHANGED <<latched, input, commands, trajectory, trajectory_done, hosts,
                   config, anticogging, inputs, history>>

\* idle again: the arming failed
GiveUpArming ==
    /\ pc = "arm"
    /\ pc' = "idle"
    /\ UNCHANGED <<latched, input, commands, setpoint, hosts, config,
                   anticogging, inputs, history>>

\* the next task begins, with the motor armed
EndArming ==
    /\ pc = "arm"
    /\ pc' = "armed"
    /\ UNCHANGED <<latched, input, commands, setpoint, hosts, config,
                   anticogging, inputs, history>>

\* The closed loop control task, whichever task was before: nothing but Motor::arm
\* resets the speed.  "To avoid any transient on startup": the setpoint,
EnterSetpoint ==
    /\ pc = "armed"
    /\ \E estimate \in Estimate : pos_setpoint' = estimate /\ start' = estimate
    /\ from_rest' = (vel_setpoint = 0 /\ input_vel = 0)
    /\ moved' = FALSE
    /\ pc' = "input"
    /\ UNCHANGED <<latched, input, commands, vel_setpoint, trajectory,
                   trajectory_done, hosts, config, anticogging, inputs>>

\* the input,
EnterInput ==
    /\ pc = "input"
    /\ input_pos' = start
    /\ pc' = "flag"
    /\ UNCHANGED <<latched, input_pos_updated, commands, setpoint, hosts, config,
                   anticogging, inputs, history>>

\* mutant: a trajectory of an earlier run is taken up again
EnterUnflagged ==
    /\ pc = "flag"
    /\ pc' = "update"
    /\ UNCHANGED <<latched, input, commands, setpoint, hosts, config,
                   anticogging, inputs, history>>

\* and the flag
EnterFlag ==
    /\ pc = "flag"
    /\ input_pos_updated' = TRUE
    /\ pc' = "update"
    /\ UNCHANGED <<latched, input_pos, commands, setpoint, hosts, config,
                   anticogging, inputs, history>>

\* wait_for_current_meas, then the next iteration or the end of the task
NextPeriod ==
    /\ pc = "wait"
    /\ pc' = "update"
    /\ UNCHANGED <<latched, input, commands, setpoint, hosts, config,
                   anticogging, inputs, history>>

\* a request ends the loop without an error: the motor stays armed, for the task
\* that was asked for (this one again, or another one before it)
EndTask ==
    /\ pc = "wait"
    /\ pc' = "armed"
    /\ UNCHANGED <<latched, input, commands, setpoint, hosts, config,
                   anticogging, inputs, history>>

\* an error or the request to idle ends it, or a later task
Idle ==
    /\ pc \in {"wait", "armed"}
    /\ pc' = "idle"
    /\ UNCHANGED <<latched, input, commands, setpoint, hosts, config,
                   anticogging, inputs, history>>

-----------------------------------------------------------------------------
(* Controller::update.                                                     *)

NoCalibration ==
    /\ pc = "update" /\ ~calib_anticogging
    /\ pc' = IF config.circular THEN "wrap" ELSE "mode"
    /\ UNCHANGED <<latched, input, commands, setpoint, hosts, config,
                   anticogging, inputs, history>>

\* mutant: every call advances
CalibrateHastily ==
    /\ pc = "update" /\ calib_anticogging
    /\ \E at_rest \in BOOLEAN :
           LET next == index + 1
               done == next >= MapSize
           IN  /\ measured' = IF at_rest THEN measured \cup {index} ELSE measured
               /\ index' = IF done THEN 0 ELSE next
               /\ input_pos' = IF done THEN 0 ELSE next
               /\ anticogging_valid' = (done \/ anticogging_valid)
               /\ calib_anticogging' = ~done
    /\ input_vel' = 0 /\ moved' = TRUE
    /\ pc' = "calibrated"
    /\ UNCHANGED <<latched, input_pos_updated, input_mode, setpoint, hosts, config,
                   inputs, entry>>

\* mutant: the index is not taken back to 0
CalibrateOnce ==
    /\ pc = "update" /\ calib_anticogging
    /\ \E at_rest \in BOOLEAN :
           LET next == IF at_rest THEN index + 1 ELSE index
               done == next >= MapSize
           IN  /\ measured' = IF at_rest THEN measured \cup {index} ELSE measured
               /\ index' = next
               /\ input_pos' = IF done THEN 0 ELSE next
               /\ anticogging_valid' = (done \/ anticogging_valid)
               /\ calib_anticogging' = ~done
    /\ input_vel' = 0 /\ moved' = TRUE
    /\ pc' = "calibrated"
    /\ UNCHANGED <<latched, input_pos_updated, input_mode, setpoint, hosts, config,
                   inputs, entry>>

\* anticogging_calibration: with the motor at rest at the input the entry is
\* measured; then the input is set to the entry's position, or to 0 at the end
Calibrate ==
    /\ pc = "update" /\ calib_anticogging
    /\ \E at_rest \in BOOLEAN :
           LET next == IF at_rest THEN index + 1 ELSE index
               done == next >= MapSize
           IN  /\ measured' = IF at_rest THEN measured \cup {index} ELSE measured
               /\ index' = IF done THEN 0 ELSE next
               /\ input_pos' = IF done THEN 0 ELSE next
               /\ anticogging_valid' = (done \/ anticogging_valid)
               /\ calib_anticogging' = ~done
    /\ input_vel' = 0 /\ moved' = TRUE
    /\ pc' = "calibrated"
    /\ UNCHANGED <<latched, input_pos_updated, input_mode, setpoint, hosts, config,
                   inputs, entry>>

FlagCalibration ==
    /\ pc = "calibrated"
    /\ input_pos_updated' = TRUE
    /\ pc' = IF config.circular THEN "wrap" ELSE "mode"
    /\ UNCHANGED <<latched, input_pos, commands, setpoint, hosts, config,
                   anticogging, inputs, history>>

\* "keep pos setpoint from drifting": input_pos_ is read,
WrapInput ==
    /\ pc = "wrap"
    /\ latched' = Wrapped(input_pos)
    /\ pc' = "wrapped"
    /\ UNCHANGED <<input, commands, setpoint, hosts, config, anticogging,
                   inputs, history>>

\* and written back
StoreInput ==
    /\ pc = "wrapped"
    /\ input_pos' = latched
    /\ pc' = "mode"
    /\ UNCHANGED <<latched, input_pos_updated, commands, setpoint, hosts, config,
                   anticogging, inputs, history>>

Inactive ==
    /\ pc = "mode" /\ input_mode = "INACTIVE"
    /\ pc' = "leave"
    /\ UNCHANGED <<latched, input, commands, setpoint, hosts, config,
                   anticogging, inputs, history>>

Passthrough ==
    /\ pc = "mode" /\ input_mode = "PASSTHROUGH"
    /\ pos_setpoint' = input_pos /\ vel_setpoint' = input_vel
    /\ pc' = "leave"
    /\ UNCHANGED <<latched, input, commands, trajectory, trajectory_done, hosts,
                   config, anticogging, inputs, history>>

\* if (input_pos_updated_) move_to_pos(input_pos_), from the speed of now,
Plan ==
    /\ pc = "mode" /\ input_mode = "TRAP_TRAJ" /\ input_pos_updated
    /\ trajectory' =
           [Xi |-> pos_setpoint, Vi |-> vel_setpoint, Xf |-> input_pos, t |-> 0]
    /\ trajectory_done' = FALSE
    /\ pc' = "clear"
    /\ UNCHANGED <<latched, input, commands, pos_setpoint, vel_setpoint, hosts,
                   config, anticogging, inputs, history>>

\* and then the flag is cleared
ClearFlag ==
    /\ pc = "clear"
    /\ input_pos_updated' = FALSE
    /\ pc' = "follow"
    /\ UNCHANGED <<latched, input_pos, commands, setpoint, hosts, config,
                   anticogging, inputs, history>>

KeepPlan ==
    /\ pc = "mode" /\ input_mode = "TRAP_TRAJ" /\ ~input_pos_updated
    /\ pc' = "follow"
    /\ UNCHANGED <<latched, input, commands, setpoint, hosts, config,
                   anticogging, inputs, history>>

\* planTrapezoidal: stopping takes one position.  A goal that is not that far
\* ahead is passed, and the trajectory turns back to it.
Turn ==
    LET Xi == trajectory.Xi  Vi == trajectory.Vi
    IN  IF (trajectory.Xf - Xi) * Vi >= 1 THEN Xi ELSE Xi + Vi

Ta == Distance(trajectory.Xi, Turn)
Tf == Ta + Distance(Turn, trajectory.Xf)

\* from a to b, one position per period
Towards(a, b, n) == IF a < b THEN a + n ELSE a - n

\* eval(t).Y, for t <= Tf
Eval(t) ==
    IF t < Ta THEN Towards(trajectory.Xi, Turn, t) ELSE Towards(Turn, trajectory.Xf, t - Ta)

\* eval(t).Yd
EvalSpeed(t) ==
    CASE t = 0 -> trajectory.Vi
      [] t # 0 /\ t \in {Ta, Tf} -> 0
      [] t # 0 /\ t \notin {Ta, Tf} -> IF Turn < trajectory.Xf THEN 1 ELSE -1

\* mutant: the trajectory ends where it was planned to
FinishAtGoal ==
    /\ pc = "follow" /\ ~trajectory_done /\ trajectory.t > Tf
    /\ pos_setpoint' = trajectory.Xf /\ vel_setpoint' = 0
    /\ trajectory_done' = TRUE
    /\ pc' = "leave"
    /\ UNCHANGED <<latched, input, commands, trajectory, hosts, config,
                   anticogging, inputs, history>>

\* its end: the setpoint is the input of now, not the one planned for
Finish ==
    /\ pc = "follow" /\ ~trajectory_done /\ trajectory.t > Tf
    /\ pos_setpoint' = input_pos /\ vel_setpoint' = 0
    /\ trajectory_done' = TRUE
    /\ pc' = "leave"
    /\ UNCHANGED <<latched, input, commands, trajectory, hosts, config,
                   anticogging, inputs, history>>

Follow ==
    /\ pc = "follow" /\ ~trajectory_done /\ trajectory.t <= Tf
    /\ pos_setpoint' = Eval(trajectory.t) /\ vel_setpoint' = EvalSpeed(trajectory.t)
    /\ trajectory' = [trajectory EXCEPT !.t = @ + 1]
    /\ pc' = "leave"
    /\ UNCHANGED <<latched, input, commands, trajectory_done, hosts, config,
                   anticogging, inputs, history>>

Stay ==
    /\ pc = "follow" /\ trajectory_done
    /\ pc' = "leave"
    /\ UNCHANGED <<latched, input, commands, setpoint, hosts, config,
                   anticogging, inputs, history>>

\* position control wraps the setpoint too; then the thread waits
WrapSetpoint ==
    /\ pc = "leave"
    /\ pos_setpoint' = IF config.circular THEN Wrapped(pos_setpoint) ELSE pos_setpoint
    /\ pc' = "wait"
    /\ UNCHANGED <<latched, input, commands, vel_setpoint, trajectory,
                   trajectory_done, hosts, config, anticogging, inputs, history>>

-----------------------------------------------------------------------------
(* The step interrupt.                                                     *)

\* set_step_dir_active: in closed loop control, elsewhere only if configured
StepDirActive == config.always_on \/ pc \in InLoop

\* mutant: the step is not announced
StepUnflagged(d) ==
    /\ StepDirActive /\ inputs < MaxInputs
    /\ input_pos + d \in Pos
    /\ input_pos' = input_pos + d
    /\ inputs' = inputs + 1 /\ moved' = TRUE
    /\ UNCHANGED <<pc, latched, input_pos_updated, commands, setpoint, hosts,
                   config, anticogging, entry>>

Step(d) ==
    /\ StepDirActive /\ inputs < MaxInputs
    /\ input_pos + d \in Pos
    /\ input_pos' = input_pos + d
    /\ input_pos_updated' = TRUE
    /\ inputs' = inputs + 1 /\ moved' = TRUE
    /\ UNCHANGED <<pc, latched, commands, setpoint, hosts, config, anticogging,
                   entry>>

-----------------------------------------------------------------------------
(* The host.                                                               *)

\* set_input_pos, the CAN command, and the ASCII commands p, q and t (of which
\* t sets the mode first)
SetInputPos(v) ==
    /\ pc \in Waiting /\ host = "none" /\ inputs < MaxInputs
    /\ input_pos' = v
    /\ host' = "flag"
    /\ inputs' = inputs + 1 /\ moved' = TRUE
    /\ UNCHANGED <<pc, latched, input_pos_updated, commands, setpoint, value,
                   config, anticogging, entry>>

\* its feed-forward, before the flag, or the command that sets only input_vel_
SetInputVel(u) ==
    /\ pc \in Waiting /\ host \in {"none", "flag"} /\ inputs < MaxInputs
    /\ u # input_vel /\ input_vel' = u
    /\ inputs' = inputs + 1 /\ moved' = TRUE
    /\ UNCHANGED <<pc, latched, input, input_mode, setpoint, hosts, config,
                   anticogging, entry>>

\* move_incremental reads,
MoveIncremental(d, from_input_pos) ==
    /\ pc \in Waiting /\ host = "none" /\ inputs < MaxInputs
    /\ value' = (IF from_input_pos THEN input_pos ELSE pos_setpoint) + d
    /\ value' \in Pos
    /\ host' = "store"
    /\ inputs' = inputs + 1
    /\ UNCHANGED <<pc, latched, input, commands, setpoint, config, anticogging,
                   history>>

\* writes
StoreIncremented ==
    /\ pc \in Waiting /\ host = "store"
    /\ input_pos' = value
    /\ host' = "flag"
    /\ moved' = TRUE
    /\ UNCHANGED <<pc, latched, input_pos_updated, commands, setpoint, value,
                   config, anticogging, inputs, entry>>

\* and announces; so do the others
SetFlag ==
    /\ pc \in Waiting /\ host = "flag"
    /\ input_pos_updated' = TRUE
    /\ host' = "none"
    /\ UNCHANGED <<pc, latched, input_pos, commands, setpoint, value, config,
                   anticogging, inputs, history>>

SetInputMode(m) ==
    /\ pc \in Waiting /\ host = "none" /\ m # input_mode
    /\ input_mode' = m
    /\ UNCHANGED <<pc, latched, input, input_vel, setpoint, hosts, config, anticogging,
                   inputs, history>>

\* the index is where an earlier calibration stopped
StartAnticogging ==
    /\ pc \in Waiting /\ host = "none" /\ inputs < MaxInputs
    /\ calib_anticogging' = TRUE
    /\ inputs' = inputs + 1
    /\ UNCHANGED <<pc, latched, input, commands, setpoint, hosts, config, index,
                   measured, anticogging_valid, history>>

-----------------------------------------------------------------------------
Update ==
    \/ NoCalibration \/ Calibrate \/ FlagCalibration \/ WrapInput \/ StoreInput
    \/ Inactive \/ Passthrough \/ Plan \/ ClearFlag \/ KeepPlan
    \/ Finish \/ Follow \/ Stay \/ WrapSetpoint

Enter == EnterInput \/ EnterFlag

Thread == Update \/ Enter \/ NextPeriod

HostWrites == StoreIncremented \/ SetFlag

Next ==
    \/ Thread
    \/ Arm \/ GiveUpArming \/ EndArming \/ EnterSetpoint \/ EndTask \/ Idle
    \/ \E d \in {-1, 1} : Step(d)
    \/ \E v \in Pos : SetInputPos(v)
    \/ \E u \in FeedForward : SetInputVel(u)
    \/ \E d \in {-1, 1}, b \in BOOLEAN : MoveIncremental(d, b)
    \/ HostWrites
    \/ \E m \in InputMode : SetInputMode(m)
    \/ StartAnticogging

Spec == Init /\ [][Next]_vars

\* The thread runs every period.  A host thread runs while it waits, which it
\* does again and again, so what the host has begun it ends.
FairSpec == Spec /\ WF_vars(Thread) /\ SF_vars(HostWrites)

-----------------------------------------------------------------------------
TypeOK ==
    /\ pc \in Waiting \cup {"input", "flag"} \cup Updating
    /\ latched \in Int
    /\ input_pos \in Int /\ input_pos_updated \in BOOLEAN
    /\ input_mode \in InputMode /\ input_vel \in Speed
    /\ pos_setpoint \in Int /\ vel_setpoint \in Speed
    /\ trajectory \in [Xi : Int, Vi : Speed, Xf : Int, t : Nat] /\ trajectory_done \in BOOLEAN
    /\ host \in {"none", "store", "flag"} /\ value \in Int
    /\ config \in [circular : BOOLEAN, always_on : BOOLEAN]
    /\ calib_anticogging \in BOOLEAN /\ anticogging_valid \in BOOLEAN
    /\ index \in 0 .. MapSize - 1
    /\ measured \subseteq 0 .. MapSize - 1
    /\ inputs \in 0 .. MaxInputs
    /\ start \in Int /\ from_rest \in BOOLEAN /\ moved \in BOOLEAN

\* "To avoid any transient on startup, we intialize the setpoint to be the
\* current position" (axis.cpp:324): entered with no speed left and no feed-forward
\* commanded, closed loop control keeps the setpoint at the estimate, without
\* speed, until somebody gives an input: whatever trajectory an earlier run left
\* unfinished (axis.cpp:343 has it planned anew), whichever modes are chosen,
\* whatever the host had begun before, and however often it is entered.  It is
\* false without from_rest: a request for closed loop control during a trajectory
\* enters it again without Motor::arm, so the trajectory planned on entry
\* (controller.cpp:46) begins with the speed of the other one, and the setpoint
\* leaves the position without any input.
NoTransientFromRest ==
    pc \in {"flag"} \cup InLoop /\ from_rest /\ ~moved =>
        pos_setpoint = start /\ vel_setpoint = 0

\* The only place where nothing will move the setpoint any more is the input:
\* a flag that update clears after the step interrupt has set it again
\* (controller.cpp:190) costs no input, because the trajectory ends at the
\* input of its last moment.
SettledAtInput ==
    pc = "wait" /\ input_mode = "TRAP_TRAJ" /\ trajectory_done
      /\ ~input_pos_updated /\ host # "flag"
        => pos_setpoint = input_pos

\* The compensation is switched on by a calibration only when every entry of
\* the map has been measured, also if closed loop control was left and entered
\* again in between (controller.cpp:83).
MapComplete == anticogging_valid => measured = 0 .. MapSize - 1

\* Inputs that come to an end are reached: in an axis that stays in closed loop
\* control with a trajectory the setpoint ends up at the input, unless it enters
\* again and again, or the calibration goes on (it plans anew in every period and
\* never moves).
SetpointFollows ==
    <>[](pc \in InLoop /\ input_mode = "TRAP_TRAJ" /\ ~calib_anticogging)
        => <>[](pos_setpoint = input_pos)
=============================================================================
