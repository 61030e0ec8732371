-------------------------- MODULE AxisStateMachine --------------------------
(***************************************************************************)
(* Axis::run_state_machine_loop (MotorControl/axis.cpp), the tasks it runs *)
(* and Axis::run_control_loop, in which every task spends its time.        *)
(*                                                                         *)
(* Actors:                                                                 *)
(*   - the axis' thread.  It has the highest priority of all threads and   *)
(*     lets them run only while it waits for a current measurement         *)
(*     (pc \in Waiting);                                                   *)
(*   - the host, through the threads of USB, UART and CAN: it writes       *)
(*     requested_state, clears errors, stops and feeds the watchdog.  Its  *)
(*     actions need pc \in Waiting;                                        *)
(*   - interrupts, which run between any two steps: a missed deadline or a *)
(*     fault floats the motor (MotorArming says how), the index pin fires. *)
(*                                                                         *)
(* The motor is a high current motor, the encoder an incremental one.      *)
(* Each task is a sequence of run_control_loop calls ("phase"); what its   *)
(* update handler computes is left open, but not whether it ran to its end.*)
(***************************************************************************)
EXTENDS Integers, Sequences

CONSTANTS
    Configs,        \* the configurations an axis may boot with
    Requests,       \* what the host writes to requested_state
    WatchdogReset   \* get_watchdog_reset(), in iterations; 0: not enabled

ASSUME ConfigsAssumption ==
    \A c \in Configs : /\ DOMAIN c = {"startup", "pre_calibrated", "find_idx_on_lockin_only",
                                      "idx_search_unidirectional", "endstop_enabled"}
                       /\ \A f \in DOMAIN c \ {"startup"} : c[f] \in BOOLEAN
ASSUME WatchdogAssumption == WatchdogReset \in Nat

Task == {"MOTOR_CALIBRATION", "ENCODER_INDEX_SEARCH", "ENCODER_DIR_FIND", "HOMING",
         "ENCODER_OFFSET_CALIBRATION", "LOCKIN_SPIN", "SENSORLESS_CONTROL",
         "CLOSED_LOOP_CONTROL", "IDLE"}

\* Axis::AxisState; OTHER is a number that names no state
AxisState == Task \cup {"UNDEFINED", "STARTUP_SEQUENCE", "FULL_CALIBRATION_SEQUENCE", "OTHER"}

ASSUME RequestsAssumption == Requests \subseteq AxisState

ChainSize == 10     \* of task_chain_

VARIABLES
    requested_state,
    task_chain,         \* its first element is current_state_
    pc,                 \* where the thread is
    phase,              \* which run_control_loop call of the task
    ran,                \* how far that call's handler came: none, part, all
    main_continue,      \* what the handler returned
    error,              \* axis.error_, the flags the code tells apart
    armed,              \* the motor's armed state is not DISARMED
    brake_resistor_armed,
    is_calibrated,      \* motor_
    direction,          \* motor_.config_.direction is not 0
    is_ready, index_found, use_index, subscribed,    \* encoder_ and its index pin
    is_homed,
    watchdog,           \* watchdog_current_value_
    config,
    asked,              \* history: tasks of the last request, until one fails
    whole               \* history: every loop of the task so far ran to its end

request == <<requested_state, task_chain, asked>>
loop == <<phase, ran, main_continue, whole>>
motor == <<armed, brake_resistor_armed, is_calibrated, direction>>
encoder == <<is_ready, index_found, use_index, subscribed>>
rest == <<is_homed, watchdog, config>>
vars == <<requested_state, task_chain, asked, pc, phase, ran, main_continue, whole,
          error, armed, brake_resistor_armed, is_calibrated, direction, is_ready,
          index_found, use_index, subscribed, is_homed, watchdog, config>>

current_state == task_chain[1]

Waiting == {"boot", "armwait", "wait"}
PC == Waiting \cup {"top", "dispatch", "subscribe", "spin", "loop", "leave"}
Phase == {"idle", "R", "L", "lock", "forward", "backward", "ramp", "accelerate",
          "const_vel", "seek", "return", "control"}
Flag == {"INVALID_STATE", "MOTOR_DISARMED", "MIN_ENDSTOP_PRESSED", "FAULT"}

Init ==
    /\ requested_state = "STARTUP_SEQUENCE"
    /\ task_chain = [i \in 1 .. ChainSize |-> "UNDEFINED"]
    /\ asked = {}
    /\ pc = "boot"
    /\ phase = "idle" /\ ran = "none" /\ main_continue = TRUE /\ whole = TRUE
    /\ error = {}
    /\ armed = FALSE /\ brake_resistor_armed = TRUE
    /\ is_calibrated \in BOOLEAN /\ direction \in BOOLEAN
    /\ config \in Configs
    /\ use_index \in BOOLEAN
    /\ subscribed = (use_index /\ ~config.find_idx_on_lockin_only)
    /\ is_ready = FALSE /\ index_found = FALSE
    /\ is_homed = FALSE
    /\ watchdog = WatchdogReset

-----------------------------------------------------------------------------
(* How a task ends.                                                        *)

\* the locals of a task end with it
Forget ==
    /\ phase' = "idle" /\ ran' = "none" /\ main_continue' = TRUE /\ whole' = TRUE
    /\ pc' = "top"

\* mutant: the chain is kept when a task fails
FailAndAdvance ==
    /\ task_chain' = [i \in 1 .. ChainSize |->
                          IF i < ChainSize THEN task_chain[i + 1] ELSE "UNDEFINED"]
    /\ asked' = {}
    /\ Forget
    /\ UNCHANGED requested_state

\* the state failed: go to idle, whatever was still in the chain
Fail ==
    /\ task_chain' = [i \in 1 .. ChainSize |-> IF i = 1 THEN "IDLE" ELSE "UNDEFINED"]
    /\ asked' = {}
    /\ Forget
    /\ UNCHANGED requested_state

\* advance the task chain
Succeed ==
    /\ task_chain' = [i \in 1 .. ChainSize |->
                          IF i < ChainSize THEN task_chain[i + 1] ELSE "UNDEFINED"]
    /\ Forget
    /\ UNCHANGED <<requested_state, asked>>

\* the next run_control_loop call of the task
Enter(p) ==
    /\ phase' = p /\ ran' = "none"
    /\ whole' = (ran = "all" /\ whole)
    /\ pc' = "loop"
    /\ UNCHANGED <<main_continue, request>>

\* the first one
Begin(p) ==
    /\ phase' = p /\ ran' = "none" /\ whole' = TRUE
    /\ pc' = "loop"
    /\ UNCHANGED <<main_continue, request>>

\* return check_for_errors()
Return == IF error = {} THEN Succeed ELSE Fail

\* Motor::set_error, Encoder::set_error, or the axis' own flag: only the
\* motor's floats the motor
Raise == error' = error \cup {"FAULT"}

-----------------------------------------------------------------------------
(* The state machine.                                                      *)

When(b, s) == IF b THEN <<s>> ELSE <<>>

\* the tasks a request stands for
Chain(r) ==
    LET has(s) == s \in config.startup
    IN  CASE r = "STARTUP_SEQUENCE" ->
                 When(has("MOTOR_CALIBRATION"), "MOTOR_CALIBRATION")
              \o When(has("ENCODER_INDEX_SEARCH") /\ use_index, "ENCODER_INDEX_SEARCH")
              \o When(has("ENCODER_OFFSET_CALIBRATION"), "ENCODER_OFFSET_CALIBRATION")
              \o When(has("HOMING"), "HOMING")
              \o (IF has("CLOSED_LOOP_CONTROL") THEN <<"CLOSED_LOOP_CONTROL">>
                  ELSE When(has("SENSORLESS_CONTROL"), "SENSORLESS_CONTROL"))
              \o <<"IDLE">>
          [] r = "FULL_CALIBRATION_SEQUENCE" ->
                 <<"MOTOR_CALIBRATION">>
              \o When(use_index, "ENCODER_INDEX_SEARCH")
              \o <<"ENCODER_OFFSET_CALIBRATION", "IDLE">>
          [] OTHER -> <<r, "IDLE">>

\* mutant: the request stays pending
LoadAgain ==
    /\ pc = "top" /\ requested_state # "UNDEFINED"
    /\ LET tasks == Chain(requested_state) IN
           /\ task_chain' = [i \in 1 .. ChainSize |->
                                IF i <= Len(tasks) THEN tasks[i]
                                ELSE IF i = Len(tasks) + 1 THEN "UNDEFINED"
                                ELSE task_chain[i]]
           /\ asked' = {tasks[i] : i \in DOMAIN tasks}
    /\ error' = error \ {"INVALID_STATE"}
    /\ pc' = "dispatch"
    /\ UNCHANGED <<requested_state, loop, motor, encoder, rest>>

\* Load the task chain if a request is pending.  What was in the array behind
\* the terminator stays there.
LoadChain ==
    /\ pc = "top" /\ requested_state # "UNDEFINED"
    /\ LET tasks == Chain(requested_state) IN
           /\ task_chain' = [i \in 1 .. ChainSize |->
                                IF i <= Len(tasks) THEN tasks[i]
                                ELSE IF i = Len(tasks) + 1 THEN "UNDEFINED"
                                ELSE task_chain[i]]
           /\ asked' = {tasks[i] : i \in DOMAIN tasks}
    /\ requested_state' = "UNDEFINED"
    /\ error' = error \ {"INVALID_STATE"}
    /\ pc' = "dispatch"
    /\ UNCHANGED <<loop, motor, encoder, rest>>

KeepChain ==
    /\ pc = "top" /\ requested_state = "UNDEFINED"
    /\ pc' = "dispatch"
    /\ UNCHANGED <<request, loop, error, motor, encoder, rest>>

\* invalid_state_label: the conditions of a task are not met, or it is no task
MayRun(s) ==
    CASE s \in {"MOTOR_CALIBRATION", "HOMING", "IDLE"} -> TRUE
      [] s = "ENCODER_INDEX_SEARCH" ->
             is_calibrated /\ ~(config.idx_search_unidirectional /\ ~direction)
      [] s \in {"ENCODER_DIR_FIND", "ENCODER_OFFSET_CALIBRATION"} -> is_calibrated
      [] s \in {"LOCKIN_SPIN", "SENSORLESS_CONTROL"} -> is_calibrated /\ direction
      [] s = "CLOSED_LOOP_CONTROL" -> is_calibrated /\ direction /\ is_ready
      [] OTHER -> FALSE

InvalidState ==
    /\ pc = "dispatch" /\ ~MayRun(current_state)
    /\ error' = error \cup {"INVALID_STATE"}
    /\ Fail
    /\ UNCHANGED <<motor, encoder, rest>>

Dispatch(s) == pc = "dispatch" /\ current_state = s /\ MayRun(s)

run_idle_loop ==
    /\ Dispatch("IDLE")
    /\ armed' = FALSE
    /\ Begin("idle")
    /\ UNCHANGED <<error, brake_resistor_armed, is_calibrated, direction, encoder, rest>>

run_calibration ==
    /\ Dispatch("MOTOR_CALIBRATION")
    /\ Begin("R")
    /\ UNCHANGED <<error, motor, encoder, rest>>

\* run_lockin_spin, called by its own state or before sensorless control
run_lockin_spin ==
    /\ Dispatch("LOCKIN_SPIN") \/ Dispatch("SENSORLESS_CONTROL")
    /\ Begin("ramp")
    /\ UNCHANGED <<error, motor, encoder, rest>>

run_direction_find ==
    /\ Dispatch("ENCODER_DIR_FIND")
    /\ direction' = TRUE
    /\ Begin("ramp")
    /\ UNCHANGED <<error, armed, brake_resistor_armed, is_calibrated, encoder, rest>>

\* the search starts over, but a calibration made before stays valid until the
\* index pin fires
run_index_search ==
    /\ Dispatch("ENCODER_INDEX_SEARCH")
    /\ use_index' = TRUE
    /\ index_found' = FALSE
    /\ direction' = (direction \/ ~config.idx_search_unidirectional)
    /\ phase' = "ramp" /\ ran' = "none" /\ whole' = TRUE
    /\ pc' = "subscribe"
    /\ UNCHANGED <<request, main_continue, error, armed, brake_resistor_armed,
                   is_calibrated, is_ready, subscribed, rest>>

run_offset_calibration ==
    /\ Dispatch("ENCODER_OFFSET_CALIBRATION")
    /\ IF use_index /\ ~index_found
       THEN Raise /\ Fail
       ELSE Begin("lock") /\ UNCHANGED error
    /\ UNCHANGED <<motor, encoder, rest>>

\* the select_encoder calls of the two position controlled tasks may fail
run_homing ==
    /\ Dispatch("HOMING")
    /\ \/ Raise /\ Fail
       \/ config.endstop_enabled /\ Begin("seek") /\ UNCHANGED error
    /\ is_homed' = (is_homed /\ ~config.endstop_enabled)
    /\ UNCHANGED <<motor, encoder, watchdog, config>>

run_closed_loop_control_loop ==
    /\ Dispatch("CLOSED_LOOP_CONTROL")
    /\ watchdog' = WatchdogReset
    /\ \/ Begin("control") /\ UNCHANGED error
       \/ Raise /\ Fail
    /\ UNCHANGED <<motor, encoder, is_homed, config>>

-----------------------------------------------------------------------------
(* run_control_loop                                                        *)

\* a request ends every loop, before anything is checked
LeaveOnRequest ==
    /\ pc = "loop" /\ requested_state # "UNDEFINED"
    /\ pc' = "leave"
    /\ UNCHANGED <<request, loop, error, motor, encoder, rest>>

\* mutant: nobody looks whether the motor got disarmed
OnlyBrakeFlags == IF brake_resistor_armed THEN {} ELSE {"FAULT"}

\* the errors do_checks finds in the state of the axis itself
AxisFlags ==
    (IF brake_resistor_armed THEN {} ELSE {"FAULT"})
        \cup (IF current_state # "IDLE" /\ ~armed THEN {"MOTOR_DISARMED"} ELSE {})

\* mutant: no check that the watchdog is 0 already
watchdog_underflow == watchdog' = watchdog - 1

\* mutant: the axis feeds its own watchdog
watchdog_self_feed == watchdog' = WatchdogReset

watchdog_check == watchdog' = IF watchdog > 0 THEN watchdog - 1 ELSE 0

watchdog_expired == WatchdogReset > 0 /\ watchdog = 0

\* do_checks, do_updates and watchdog_check; a gate driver fault also floats
\* the motor
Check(floated) ==
    /\ \E found \in SUBSET {"FAULT", "MIN_ENDSTOP_PRESSED"} :
        /\ "MIN_ENDSTOP_PRESSED" \in found
               => config.endstop_enabled /\ current_state # "HOMING"
        /\ floated \/ watchdog_expired => "FAULT" \in found
        /\ error' = error \cup found \cup AxisFlags
    /\ watchdog_check

\* errors end the loop, except in idle
CheckFails ==
    /\ pc = "loop" /\ requested_state = "UNDEFINED"
    /\ \E floated \in BOOLEAN : Check(floated) /\ armed' = (armed /\ ~floated)
    /\ error' # {} /\ current_state # "IDLE"
    /\ pc' = "leave"
    /\ UNCHANGED <<request, loop, brake_resistor_armed, is_calibrated, direction,
                   encoder, is_homed, config>>

IdleIteration ==
    /\ pc = "loop" /\ requested_state = "UNDEFINED"
    /\ current_state = "IDLE"
    /\ \E floated \in BOOLEAN : Check(floated) /\ armed' = (armed /\ ~floated)
    /\ main_continue' = TRUE
    /\ pc' = "wait"
    /\ UNCHANGED <<request, phase, ran, whole, brake_resistor_armed, is_calibrated,
                   direction, encoder, is_homed, config>>

\* The checks pass and the update handler runs: it goes on, it is done, or it
\* fails, and then the motor may be floated.  The control loops are never done.
HandlerContinues ==
    /\ pc = "loop" /\ requested_state = "UNDEFINED" /\ current_state # "IDLE"
    /\ Check(FALSE) /\ error' = {}
    /\ \E done \in BOOLEAN :
           /\ done => phase # "control"
           /\ ran' = IF done THEN "all" ELSE "part"
           /\ main_continue' = ~done
    /\ pc' = "wait"
    /\ UNCHANGED <<request, phase, whole, motor, encoder, is_homed, config>>

HandlerFails ==
    /\ pc = "loop" /\ requested_state = "UNDEFINED" /\ current_state # "IDLE"
    /\ error \cup AxisFlags = {} /\ ~watchdog_expired
    /\ Raise
    /\ armed' \in BOOLEAN
    /\ watchdog_check
    /\ ran' = "part" /\ main_continue' = FALSE
    /\ pc' = "wait"
    /\ UNCHANGED <<request, phase, whole, brake_resistor_armed, is_calibrated,
                   direction, encoder, is_homed, config>>

Measured ==
    /\ pc = "wait"
    /\ pc' = IF main_continue THEN "loop" ELSE "leave"
    /\ UNCHANGED <<request, loop, error, motor, encoder, rest>>

MeasurementTimeout ==
    /\ pc = "wait"
    /\ armed' = FALSE
    /\ Raise
    /\ pc' = "leave"
    /\ UNCHANGED <<request, loop, brake_resistor_armed, is_calibrated, direction,
                   encoder, rest>>

-----------------------------------------------------------------------------
(* What the tasks do after each of their loops.                            *)

Leave(p) == pc = "leave" /\ phase = p

\* idle is left: arm() resets the controllers and waits for a measurement
LeaveIdle ==
    /\ Leave("idle")
    /\ pc' = "armwait"
    /\ UNCHANGED <<request, loop, error, motor, encoder, rest>>

\* arm does not tell whether the brake resistor let it
Armed ==
    /\ pc \in {"armwait", "boot"}
    /\ armed' = (armed \/ brake_resistor_armed)
    /\ IF pc = "armwait"
       THEN Succeed
       ELSE pc' = "top" /\ UNCHANGED <<request, loop>>
    /\ UNCHANGED <<error, brake_resistor_armed, is_calibrated, direction, encoder, rest>>

ArmTimeout ==
    /\ pc \in {"armwait", "boot"}
    /\ Raise
    /\ IF pc = "armwait"
       THEN Fail
       ELSE pc' = "top" /\ UNCHANGED <<request, loop>>
    /\ UNCHANGED <<motor, encoder, rest>>

measure_phase_resistance ==
    /\ Leave("R")
    /\ IF error # {} THEN Fail ELSE Enter("L")
    /\ UNCHANGED <<error, motor, encoder, rest>>

\* Without a single cycle the inductance comes out infinite; after some it may
\* or may not be in range.
measure_phase_inductance ==
    /\ Leave("L")
    /\ \/ error # {} /\ Fail /\ UNCHANGED <<error, armed, is_calibrated>>
       \/ error = {} /\ Fail /\ Raise /\ armed' = FALSE /\ UNCHANGED is_calibrated
       \/ /\ error = {} /\ ran # "none"
          /\ Succeed
          /\ is_calibrated' = TRUE
          /\ UNCHANGED <<error, armed>>
    /\ UNCHANGED <<brake_resistor_armed, direction, encoder, rest>>

LeaveRamp ==
    /\ Leave("ramp")
    /\ Enter("accelerate")
    /\ UNCHANGED <<error, motor, encoder, rest>>

LeaveAccelerate ==
    /\ Leave("accelerate")
    /\ pc' = IF index_found THEN "spin" ELSE "subscribe"
    /\ UNCHANGED <<request, loop, error, motor, encoder, rest>>

\* set_idx_subscribe, with override_enable in a lockin spin
set_idx_subscribe ==
    /\ pc = "subscribe"
    /\ subscribed' = (use_index /\ (phase = "accelerate" \/ ~config.find_idx_on_lockin_only))
    /\ pc' = IF phase = "accelerate" THEN "spin" ELSE "loop"
    /\ UNCHANGED <<request, loop, error, motor, is_ready, index_found, use_index, rest>>

\* the spin has reached its target already, or goes on at constant speed
ConstantSpeed ==
    /\ pc = "spin"
    /\ \/ Enter("const_vel")
       \/ phase' = "const_vel" /\ pc' = "leave" /\ UNCHANGED <<request, ran, main_continue, whole>>
    /\ UNCHANGED <<error, motor, encoder, rest>>

\* the end of run_lockin_spin, in each of the tasks that call it
LeaveLockin ==
    /\ Leave("const_vel")
    /\ IF current_state = "SENSORLESS_CONTROL" /\ error = {} THEN Enter("control") ELSE Return
    /\ IF current_state = "ENCODER_DIR_FIND" /\ error = {}
       THEN direction' \in BOOLEAN
       ELSE UNCHANGED direction
    /\ UNCHANGED <<error, armed, brake_resistor_armed, is_calibrated, encoder, rest>>

LeaveLock ==
    /\ Leave("lock")
    /\ IF error # {} THEN Fail ELSE Enter("forward")
    /\ UNCHANGED <<error, motor, encoder, rest>>

\* the encoder did not move, moved by the wrong amount, or as expected
LeaveForward ==
    /\ Leave("forward")
    /\ \/ error # {} /\ Fail /\ UNCHANGED <<error, direction>>
       \/ error = {} /\ Fail /\ Raise /\ direction' \in {direction, ran # "none" \/ direction}
       \/ error = {} /\ ran # "none" /\ Enter("backward") /\ direction' = TRUE /\ UNCHANGED error
    /\ UNCHANGED <<armed, brake_resistor_armed, is_calibrated, encoder, rest>>

LeaveBackward ==
    /\ Leave("backward")
    /\ Return
    /\ is_ready' = (is_ready \/ error = {})
    /\ UNCHANGED <<error, motor, index_found, use_index, subscribed, rest>>

\* the position is set to the endstop's, and the axis moves to 0
LeaveSeek ==
    /\ Leave("seek")
    /\ error' = error \ {"MIN_ENDSTOP_PRESSED"}
    /\ Enter("return")
    /\ UNCHANGED <<motor, encoder, rest>>

LeaveReturn ==
    /\ Leave("return")
    /\ is_homed' = TRUE
    /\ Return
    /\ UNCHANGED <<error, motor, encoder, watchdog, config>>

\* the closed loop and the sensorless control loop
LeaveControl ==
    /\ Leave("control")
    /\ Return
    /\ UNCHANGED <<error, motor, encoder, rest>>

-----------------------------------------------------------------------------
(* The host and the interrupts.                                            *)

HostRequests ==
    /\ pc \in Waiting
    /\ requested_state' \in Requests
    /\ UNCHANGED <<task_chain, asked, pc, loop, error, motor, encoder, rest>>

clear_errors ==
    /\ pc \in Waiting
    /\ error' = {}
    /\ UNCHANGED <<request, pc, loop, motor, encoder, rest>>

estop ==
    /\ pc \in Waiting
    /\ Raise
    /\ UNCHANGED <<request, pc, loop, motor, encoder, rest>>

watchdog_feed ==
    /\ pc \in Waiting
    /\ watchdog' = WatchdogReset
    /\ UNCHANGED <<request, pc, loop, error, motor, encoder, is_homed, config>>

\* a missed deadline floats the motor, a fault also disarms the brake resistor
InterruptFloats ==
    /\ armed' = FALSE
    /\ brake_resistor_armed' \in {FALSE, brake_resistor_armed}
    /\ UNCHANGED <<request, pc, loop, error, is_calibrated, direction, encoder, rest>>

enc_index_cb ==
    /\ subscribed
    /\ IF use_index
       THEN is_ready' = config.pre_calibrated /\ index_found' = TRUE
       ELSE UNCHANGED <<is_ready, index_found>>
    /\ subscribed' = FALSE
    /\ UNCHANGED <<request, pc, loop, error, motor, use_index, rest>>

Host == HostRequests \/ clear_errors \/ estop \/ watchdog_feed

Start == \/ run_idle_loop \/ run_calibration \/ run_lockin_spin \/ run_direction_find
         \/ run_index_search \/ run_offset_calibration \/ run_homing
         \/ run_closed_loop_control_loop

run_control_loop == \/ LeaveOnRequest \/ CheckFails \/ IdleIteration
                    \/ HandlerContinues \/ HandlerFails \/ Measured \/ MeasurementTimeout

Finish == \/ LeaveIdle \/ Armed \/ ArmTimeout
          \/ measure_phase_resistance \/ measure_phase_inductance
          \/ LeaveRamp \/ LeaveAccelerate \/ set_idx_subscribe \/ ConstantSpeed \/ LeaveLockin
          \/ LeaveLock \/ LeaveForward \/ LeaveBackward
          \/ LeaveSeek \/ LeaveReturn \/ LeaveControl

Thread == LoadChain \/ KeepChain \/ InvalidState \/ Start \/ run_control_loop \/ Finish

Next == Thread \/ Host \/ InterruptFloats \/ enc_index_cb

Spec == Init /\ [][Next]_vars

\* The thread has the highest priority, and its waits end with a measurement
\* or with their timeout.
FairSpec == Spec /\ WF_vars(Thread)

-----------------------------------------------------------------------------
(* Properties.                                                             *)

TypeOK ==
    /\ requested_state \in AxisState
    /\ task_chain \in [1 .. ChainSize -> AxisState]
    /\ asked \subseteq AxisState
    /\ pc \in PC
    /\ phase \in Phase
    /\ ran \in {"none", "part", "all"}
    /\ main_continue \in BOOLEAN /\ whole \in BOOLEAN
    /\ error \subseteq Flag
    /\ armed \in BOOLEAN /\ brake_resistor_armed \in BOOLEAN
    /\ is_calibrated \in BOOLEAN /\ direction \in BOOLEAN
    /\ is_ready \in BOOLEAN /\ index_found \in BOOLEAN
    /\ use_index \in BOOLEAN /\ subscribed \in BOOLEAN
    /\ is_homed \in BOOLEAN
    /\ watchdog \in 0 .. WatchdogReset
    /\ config \in Configs

\* A task only runs if the latest request named it and no task of that request
\* has failed since.  What earlier requests left in task_chain_ is never
\* reached, and a startup that fails to calibrate never ends in closed loop.
OnlyAskedTasks == pc \notin {"boot", "top"} => current_state \in asked \cup {"IDLE", "UNDEFINED"}

\* A float that the thread was not told of (the interrupt only sets an error
\* of the motor) is noticed, and the axis goes idle, even if requests or
\* cleared errors come in between.
FloatNoticed ==
    pc \in {"loop", "wait"} /\ phase # "idle" /\ ~armed ~> current_state = "IDLE"

\* A request is taken within one measurement of any task, whatever it was doing.
RequestServed == requested_state # "UNDEFINED" ~> requested_state = "UNDEFINED"

\* With the watchdog enabled a silent host leaves the axis idle for good, from
\* any task and in the middle of any sequence of tasks.
HostSilenceIdles ==
    WatchdogReset > 0 /\ <>[][~Host]_vars => <>[](current_state \in {"IDLE", "UNDEFINED"})

\* "Turn the motor in one direction for a few seconds and then back to measure
\* the offset" (odrive-interface.yaml:882): a calibration that makes the
\* encoder ready has run all of its scans.
OffsetIsMeasured ==
    [][~is_ready /\ is_ready' /\ phase = "backward" => whole /\ ran = "all"]_vars

\* "until the min endstop is pressed.  When pressed, set the linear count to
\* the offset" (axis.cpp:366): homing only takes a position for that of the
\* endstop when the endstop ended its search.
HomedAtEndstop ==
    [][phase = "seek" /\ phase' = "return" => ran = "all"]_vars
=============================================================================
