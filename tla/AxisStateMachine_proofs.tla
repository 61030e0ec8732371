----------------------- MODULE AxisStateMachine_proofs -----------------------
(***************************************************************************)
(* Proofs about AxisStateMachine, for every set of configurations and of   *)
(* requests and every watchdog time.                                       *)
(***************************************************************************)
EXTENDS AxisStateMachine, SequenceTheorems, TLAPS

-----------------------------------------------------------------------------
(* The inductive invariant.                                                *)

\* where the thread is inside a task
InTask == pc \notin {"boot", "top", "dispatch"}

\* The terminator of the chain, before which there is nothing but tasks of the
\* last request and idle.  Behind it lies what earlier requests left.
Terminated ==
    \E k \in 1 .. ChainSize :
        /\ task_chain[k] = "UNDEFINED"
        /\ \A i \in 1 .. k - 1 : task_chain[i] \in asked \cup {"IDLE"}

\* Only a task can end, so that the chain never advances past its terminator.
TaskRuns == InTask => current_state # "UNDEFINED"

IInv == TypeOK /\ Terminated /\ TaskRuns

\* What a step may do to the chain: leave it alone, and start a task of it at
\* most; advance it from a task; drop it; load it.
ChainKept ==
    /\ UNCHANGED <<task_chain, asked>>
    /\ InTask' => InTask \/ current_state # "UNDEFINED"

ChainAdvanced ==
    /\ InTask /\ ~InTask'
    /\ task_chain' = [i \in 1 .. ChainSize |->
                          IF i < ChainSize THEN task_chain[i + 1] ELSE "UNDEFINED"]
    /\ asked' = asked

ChainDropped ==
    /\ ~InTask'
    /\ task_chain' = [i \in 1 .. ChainSize |-> IF i = 1 THEN "IDLE" ELSE "UNDEFINED"]
    /\ asked' = {}

ChainLoaded == LoadChain

ChainStep == ChainKept \/ ChainAdvanced \/ ChainDropped \/ ChainLoaded

-----------------------------------------------------------------------------
(* The chain of a request.                                                 *)

\* a task that is asked for under a condition is at most one
LEMMA WhenType ==
    ASSUME NEW S, NEW s \in S, NEW b
    PROVE  When(b, s) \in Seq(S) /\ Len(When(b, s)) <= 1
BY DEF When

\* Every request stands for 1 to 6 tasks, none of them UNDEFINED: with their
\* terminator they fit into task_chain_, which "TODO: bounds checking"
\* (axis.cpp:508) leaves open.
THEOREM ChainFits ==
    ASSUME NEW r \in AxisState \ {"UNDEFINED"}
    PROVE  /\ Chain(r) \in Seq(AxisState \ {"UNDEFINED"})
           /\ Len(Chain(r)) \in 1 .. 6
           /\ Len(Chain(r)) + 1 <= ChainSize
<1> DEFINE S == AxisState \ {"UNDEFINED"}
           has(s) == s \in config.startup
           a == When(has("MOTOR_CALIBRATION"), "MOTOR_CALIBRATION")
           b == When(has("ENCODER_INDEX_SEARCH") /\ use_index, "ENCODER_INDEX_SEARCH")
           c == When(has("ENCODER_OFFSET_CALIBRATION"), "ENCODER_OFFSET_CALIBRATION")
           d == When(has("HOMING"), "HOMING")
           e == IF has("CLOSED_LOOP_CONTROL") THEN <<"CLOSED_LOOP_CONTROL">>
                ELSE When(has("SENSORLESS_CONTROL"), "SENSORLESS_CONTROL")
           f == When(use_index, "ENCODER_INDEX_SEARCH")
           Upto(n, s) == s \in Seq(S) /\ Len(s) <= n
<1>0. \A s, t : \A m, n \in Nat : Upto(m, s) /\ Upto(n, t) => Upto(m + n, s \o t)
  <2> SUFFICES ASSUME NEW s, NEW t, NEW m \in Nat, NEW n \in Nat, Upto(m, s), Upto(n, t)
               PROVE  Upto(m + n, s \o t)
    OBVIOUS
  <2> HIDE DEF S
  <2>1. s \o t \in Seq(S) /\ Len(s \o t) = Len(s) + Len(t)
    BY ConcatProperties
  <2> QED
    BY <2>1, LenProperties
<1>1. /\ "IDLE" \in S /\ "MOTOR_CALIBRATION" \in S /\ "ENCODER_INDEX_SEARCH" \in S
      /\ "ENCODER_OFFSET_CALIBRATION" \in S /\ "HOMING" \in S
      /\ "CLOSED_LOOP_CONTROL" \in S /\ "SENSORLESS_CONTROL" \in S
  BY DEF AxisState, Task
<1> HIDE DEF S
<1>2. Upto(1, a) /\ Upto(1, b) /\ Upto(1, c) /\ Upto(1, d) /\ Upto(1, f)
  BY <1>1, WhenType
<1>3. Upto(1, e)
  <2>1. Upto(1, When(has("SENSORLESS_CONTROL"), "SENSORLESS_CONTROL"))
    BY <1>1, WhenType
  <2>2. Upto(1, <<"CLOSED_LOOP_CONTROL">>)
    BY <1>1
  <2> QED
    BY <2>1, <2>2
<1>4. Upto(1, <<"IDLE">>) /\ Upto(1, <<"MOTOR_CALIBRATION">>)
      /\ Upto(2, <<"ENCODER_OFFSET_CALIBRATION", "IDLE">>)
  BY <1>1
<1>5. CASE r = "STARTUP_SEQUENCE"
  <2>1. Chain(r) = a \o b \o c \o d \o e \o <<"IDLE">>
    BY <1>5 DEF Chain
  <2> HIDE DEF a, b, c, d, e, Upto
  <2>2. Upto(2, a \o b)
    BY <1>0, <1>2
  <2>3. Upto(3, a \o b \o c)
    BY <1>0, <1>2, <2>2
  <2>4. Upto(4, a \o b \o c \o d)
    BY <1>0, <1>2, <2>3
  <2>5. Upto(5, a \o b \o c \o d \o e)
    BY <1>0, <1>3, <2>4
  <2>6. Upto(6, Chain(r))
    BY <1>0, <1>4, <2>1, <2>5
  <2> DEFINE g == a \o b \o c \o d \o e
  <2>7. g \in Seq(S) /\ <<"IDLE">> \in Seq(S) /\ Len(<<"IDLE">>) = 1
    BY <1>1, <2>5 DEF Upto
  <2>8. Chain(r) = g \o <<"IDLE">>
    BY <2>1
  <2> HIDE DEF g
  <2>9. Len(Chain(r)) = Len(g) + 1
    BY <2>7, <2>8, ConcatProperties
  <2> QED
    BY <2>6, <2>7, <2>9, LenProperties DEF S, Upto, ChainSize
<1>6. CASE r = "FULL_CALIBRATION_SEQUENCE"
  <2>1. Chain(r) = <<"MOTOR_CALIBRATION">> \o f \o <<"ENCODER_OFFSET_CALIBRATION", "IDLE">>
    BY <1>6 DEF Chain
  <2> HIDE DEF f, Upto
  <2>2. Upto(2, <<"MOTOR_CALIBRATION">> \o f)
    BY <1>0, <1>2, <1>4
  <2>3. Upto(4, Chain(r))
    BY <1>0, <1>4, <2>1, <2>2
  <2> DEFINE g == <<"MOTOR_CALIBRATION">> \o f
             h == <<"ENCODER_OFFSET_CALIBRATION", "IDLE">>
  <2>4. g \in Seq(S) /\ h \in Seq(S) /\ Len(h) = 2
    BY <1>1, <2>2 DEF Upto
  <2>5. Chain(r) = g \o h
    BY <2>1
  <2> HIDE DEF g, h
  <2>6. Len(Chain(r)) = Len(g) + 2
    <3>1. Len(g \o h) = Len(g) + Len(h)
      BY <2>4, ConcatProperties
    <3> QED
      BY <2>4, <2>5, <3>1
  <2> QED
    BY <2>3, <2>4, <2>6, LenProperties DEF S, Upto, ChainSize
<1>7. CASE r \notin {"STARTUP_SEQUENCE", "FULL_CALIBRATION_SEQUENCE"}
  <2>1. Chain(r) = <<r, "IDLE">>
    BY <1>7 DEF Chain
  <2>2. r \in S
    BY DEF S
  <2> QED
    BY <1>1, <2>1, <2>2 DEF S, ChainSize
<1> QED
  BY <1>5, <1>6, <1>7

-----------------------------------------------------------------------------
(* How a task begins, goes on and ends.                                    *)

\* the part of TypeOK about the chain and the loops of a task
ThreadTypes ==
    /\ requested_state \in AxisState
    /\ task_chain \in [1 .. ChainSize -> AxisState]
    /\ asked \subseteq AxisState
    /\ pc \in PC
    /\ phase \in Phase
    /\ ran \in {"none", "part", "all"}
    /\ main_continue \in BOOLEAN /\ whole \in BOOLEAN

\* the part of TypeOK about the motor, the encoder and the rest of the axis
AxisTypes ==
    /\ error \subseteq Flag
    /\ armed \in BOOLEAN /\ brake_resistor_armed \in BOOLEAN
    /\ is_calibrated \in BOOLEAN /\ direction \in BOOLEAN
    /\ is_ready \in BOOLEAN /\ index_found \in BOOLEAN
    /\ use_index \in BOOLEAN /\ subscribed \in BOOLEAN
    /\ is_homed \in BOOLEAN
    /\ watchdog \in 0 .. WatchdogReset
    /\ config \in Configs

LEMMA TypeParts == TypeOK <=> ThreadTypes /\ AxisTypes
BY DEF TypeOK, ThreadTypes, AxisTypes

\* a failed task drops the chain
LEMMA FailDrops ==
    ASSUME ThreadTypes, Fail
    PROVE  ThreadTypes' /\ ChainStep
<1>1. ChainDropped
  BY DEF Fail, Forget, ChainDropped, InTask
<1>2. task_chain' \in [1 .. ChainSize -> AxisState]
  BY DEF Fail, AxisState, Task
<1> QED
  BY <1>1, <1>2 DEF Fail, Forget, ThreadTypes, PC, Phase, ChainStep

\* a task that has succeeded advances it
LEMMA SucceedAdvances ==
    ASSUME ThreadTypes, InTask, Succeed
    PROVE  ThreadTypes' /\ ChainStep
<1>1. ChainAdvanced
  BY DEF Succeed, Forget, ChainAdvanced, InTask
<1>2. task_chain' \in [1 .. ChainSize -> AxisState]
  BY DEF Succeed, ThreadTypes, AxisState, Task, ChainSize
<1> QED
  BY <1>1, <1>2 DEF Succeed, Forget, ThreadTypes, PC, Phase, ChainStep

LEMMA ReturnEnds ==
    ASSUME ThreadTypes, InTask, Return
    PROVE  ThreadTypes' /\ ChainStep
BY FailDrops, SucceedAdvances DEF Return

\* a task goes on with its next loop
LEMMA EnterKeeps ==
    ASSUME ThreadTypes, InTask, NEW p \in Phase, Enter(p)
    PROVE  ThreadTypes' /\ ChainStep
BY DEF Enter, ThreadTypes, ChainStep, ChainKept, InTask, PC, request

\* and begins with its first one
LEMMA BeginKeeps ==
    ASSUME ThreadTypes, NEW s \in Task, Dispatch(s), NEW p \in Phase, Begin(p)
    PROVE  ThreadTypes' /\ ChainStep
BY DEF Begin, Dispatch, Task, ThreadTypes, ChainStep, ChainKept, InTask, PC, request

\* a step that only moves within the task, or within its wait for the boot
LEMMA StayKeeps ==
    ASSUME ThreadTypes, UNCHANGED request, UNCHANGED loop, pc' \in PC, InTask \/ ~InTask'
    PROVE  ThreadTypes' /\ ChainStep
BY DEF ThreadTypes, ChainStep, ChainKept, request, loop

-----------------------------------------------------------------------------
(* The steps.                                                              *)

\* The state machine itself: a request is loaded whole, with its terminator.
LEMMA LoadKeepsTypes ==
    ASSUME ThreadTypes, AxisTypes, LoadChain
    PROVE  ThreadTypes' /\ AxisTypes' /\ ChainStep
<1> DEFINE tasks == Chain(requested_state)
<1>1. tasks \in Seq(AxisState \ {"UNDEFINED"})
  BY ChainFits DEF ThreadTypes, AxisTypes, LoadChain
<1> HIDE DEF tasks
<1>2. \A i \in 1 .. Len(tasks) : tasks[i] \in AxisState
  BY <1>1
<1>3. /\ task_chain' = [i \in 1 .. ChainSize |->
                            IF i <= Len(tasks) THEN tasks[i]
                            ELSE IF i = Len(tasks) + 1 THEN "UNDEFINED"
                            ELSE task_chain[i]]
      /\ asked' = {tasks[i] : i \in DOMAIN tasks}
  BY DEF LoadChain, tasks
<1>4. task_chain' \in [1 .. ChainSize -> AxisState] /\ asked' \subseteq AxisState
  BY <1>1, <1>2, <1>3, LenProperties DEF ThreadTypes, AxisTypes, AxisState, ChainSize
<1> QED
  BY <1>4 DEF LoadChain, ThreadTypes, AxisTypes, ChainStep, ChainLoaded, AxisState, PC,
              loop, motor, encoder, rest

LEMMA StateMachineSteps ==
    ASSUME ThreadTypes, AxisTypes, KeepChain \/ InvalidState
    PROVE  ThreadTypes' /\ AxisTypes' /\ ChainStep
<1>1. CASE KeepChain
  BY <1>1 DEF KeepChain, ThreadTypes, AxisTypes, ChainStep, ChainKept, InTask, PC,
              request, loop, motor, encoder, rest
<1>2. CASE InvalidState
  <2>1. AxisTypes'
    BY <1>2 DEF InvalidState, AxisTypes, Flag, motor, encoder, rest
  <2> QED
    BY <1>2, <2>1, FailDrops DEF InvalidState
<1> QED
  BY <1>1, <1>2

\* The first step of every task: it begins its first loop or fails at once.
LEMMA StartSteps ==
    ASSUME ThreadTypes, AxisTypes, Start
    PROVE  ThreadTypes' /\ AxisTypes' /\ ChainStep
<1>1. CASE run_idle_loop
  <2>1. AxisTypes'
    BY <1>1 DEF run_idle_loop, AxisTypes, encoder, rest
  <2>2. ThreadTypes' /\ ChainStep
    BY <1>1, BeginKeeps DEF run_idle_loop, Task, Phase
  <2> QED
    BY <2>1, <2>2
<1>2. CASE run_calibration
  <2>1. AxisTypes'
    BY <1>2 DEF run_calibration, AxisTypes, motor, encoder, rest
  <2>2. ThreadTypes' /\ ChainStep
    BY <1>2, BeginKeeps DEF run_calibration, Task, Phase
  <2> QED
    BY <2>1, <2>2
<1>3. CASE run_lockin_spin
  <2>1. AxisTypes'
    BY <1>3 DEF run_lockin_spin, AxisTypes, motor, encoder, rest
  <2>2. ThreadTypes' /\ ChainStep
    BY <1>3, BeginKeeps DEF run_lockin_spin, Task, Phase
  <2> QED
    BY <2>1, <2>2
<1>4. CASE run_direction_find
  <2>1. AxisTypes'
    BY <1>4 DEF run_direction_find, AxisTypes, encoder, rest
  <2>2. ThreadTypes' /\ ChainStep
    BY <1>4, BeginKeeps DEF run_direction_find, Task, Phase
  <2> QED
    BY <2>1, <2>2
<1>5. CASE run_index_search
  <2>1. AxisTypes'
    BY <1>5 DEF run_index_search, AxisTypes, rest
  <2>2. ThreadTypes'
    BY <1>5 DEF run_index_search, ThreadTypes, Phase, PC, request
  <2>3. ChainStep
    BY <1>5 DEF run_index_search, Dispatch, ChainStep, ChainKept, request
  <2> QED
    BY <2>1, <2>2, <2>3
<1>6. CASE run_offset_calibration
  <2>1. AxisTypes'
    BY <1>6 DEF run_offset_calibration, Raise, AxisTypes, Flag, motor, encoder, rest
  <2>2. ThreadTypes' /\ ChainStep
    BY <1>6, BeginKeeps, FailDrops DEF run_offset_calibration, Task, Phase
  <2> QED
    BY <2>1, <2>2
<1>7. CASE run_homing
  <2>1. is_homed' \in BOOLEAN
    BY <1>7 DEF run_homing
  <2>2. AxisTypes'
    BY <1>7, <2>1 DEF run_homing, Raise, AxisTypes, Flag, motor, encoder
  <2>3. ThreadTypes' /\ ChainStep
    BY <1>7, BeginKeeps, FailDrops DEF run_homing, Task, Phase
  <2> QED
    BY <2>2, <2>3
<1>8. CASE run_closed_loop_control_loop
  <2>1. watchdog' \in 0 .. WatchdogReset
    BY <1>8, WatchdogAssumption DEF run_closed_loop_control_loop
  <2>2. AxisTypes'
    BY <1>8, <2>1 DEF run_closed_loop_control_loop, Raise, AxisTypes, Flag, motor, encoder
  <2>3. ThreadTypes' /\ ChainStep
    BY <1>8, BeginKeeps, FailDrops DEF run_closed_loop_control_loop, Task, Phase
  <2> QED
    BY <2>2, <2>3
<1> QED
  BY <1>1, <1>2, <1>3, <1>4, <1>5, <1>6, <1>7, <1>8 DEF Start

\* the checks of an iteration keep the types, the watchdog stays at 0
LEMMA CheckTypes ==
    ASSUME AxisTypes, NEW floated, Check(floated)
    PROVE  error' \subseteq Flag /\ watchdog' \in 0 .. WatchdogReset
<1>1. watchdog' \in 0 .. WatchdogReset
  BY WatchdogAssumption DEF Check, watchdog_check, AxisTypes
<1>2. error' \subseteq Flag
  BY DEF Check, AxisFlags, AxisTypes, Flag
<1> QED
  BY <1>1, <1>2

\* Every step of run_control_loop stays in the task.
LEMMA LoopSteps ==
    ASSUME ThreadTypes, AxisTypes, run_control_loop
    PROVE  ThreadTypes' /\ AxisTypes' /\ ChainStep
<1>1. CASE LeaveOnRequest
  <2>1. AxisTypes'
    BY <1>1 DEF LeaveOnRequest, AxisTypes, motor, encoder, rest
  <2>2. ThreadTypes' /\ ChainStep
    BY <1>1, StayKeeps DEF LeaveOnRequest, InTask, PC
  <2> QED
    BY <2>1, <2>2
<1>2. CASE CheckFails
  <2>1. PICK floated \in BOOLEAN : Check(floated) /\ armed' = (armed /\ ~floated)
    BY <1>2 DEF CheckFails
  <2>2. armed' \in BOOLEAN
    BY <2>1 DEF AxisTypes
  <2>3. AxisTypes'
    BY <1>2, <2>1, <2>2, CheckTypes DEF CheckFails, AxisTypes, encoder
  <2>4. ThreadTypes' /\ ChainStep
    BY <1>2, StayKeeps DEF CheckFails, InTask, PC
  <2> QED
    BY <2>3, <2>4
<1>3. CASE IdleIteration
  <2>1. PICK floated \in BOOLEAN : Check(floated) /\ armed' = (armed /\ ~floated)
    BY <1>3 DEF IdleIteration
  <2>2. armed' \in BOOLEAN
    BY <2>1 DEF AxisTypes
  <2>3. AxisTypes'
    BY <1>3, <2>1, <2>2, CheckTypes DEF IdleIteration, AxisTypes, encoder
  <2>4. ThreadTypes' /\ ChainStep
    BY <1>3 DEF IdleIteration, ThreadTypes, ChainStep, ChainKept, InTask, PC, Waiting, request
  <2> QED
    BY <2>3, <2>4
<1>4. CASE HandlerContinues
  <2>1. AxisTypes'
    BY <1>4, CheckTypes DEF HandlerContinues, AxisTypes, motor, encoder
  <2>2. main_continue' \in BOOLEAN /\ ran' \in {"none", "part", "all"}
    BY <1>4 DEF HandlerContinues
  <2>3. ThreadTypes' /\ ChainStep
    BY <1>4, <2>2 DEF HandlerContinues, ThreadTypes, ChainStep, ChainKept, InTask, PC, Waiting, request
  <2> QED
    BY <2>1, <2>3
<1>5. CASE HandlerFails
  <2>1. watchdog' \in 0 .. WatchdogReset
    BY <1>5, WatchdogAssumption DEF HandlerFails, watchdog_check, AxisTypes
  <2>2. AxisTypes'
    BY <1>5, <2>1 DEF HandlerFails, Raise, AxisTypes, Flag, encoder
  <2>3. ThreadTypes' /\ ChainStep
    BY <1>5 DEF HandlerFails, ThreadTypes, ChainStep, ChainKept, InTask, PC, Waiting, request
  <2> QED
    BY <2>2, <2>3
<1>6. CASE Measured
  <2>1. AxisTypes'
    BY <1>6 DEF Measured, AxisTypes, motor, encoder, rest
  <2>2. ThreadTypes' /\ ChainStep
    BY <1>6, StayKeeps DEF Measured, InTask, PC
  <2> QED
    BY <2>1, <2>2
<1>7. CASE MeasurementTimeout
  <2>1. AxisTypes'
    BY <1>7 DEF MeasurementTimeout, AxisTypes, Raise, Flag, encoder, rest
  <2>2. ThreadTypes' /\ ChainStep
    BY <1>7, StayKeeps DEF MeasurementTimeout, InTask, PC
  <2> QED
    BY <2>1, <2>2
<1> QED
  BY <1>1, <1>2, <1>3, <1>4, <1>5, <1>6, <1>7 DEF run_control_loop

\* What arm() and the calibrations do after their loops.
LEMMA CalibrationSteps ==
    ASSUME ThreadTypes, AxisTypes,
           \/ LeaveIdle \/ Armed \/ ArmTimeout
           \/ measure_phase_resistance \/ measure_phase_inductance
           \/ LeaveLock \/ LeaveForward \/ LeaveBackward
    PROVE  ThreadTypes' /\ AxisTypes' /\ ChainStep
<1>1. CASE LeaveIdle
  <2>1. AxisTypes'
    BY <1>1 DEF LeaveIdle, AxisTypes, motor, encoder, rest
  <2>2. ThreadTypes' /\ ChainStep
    BY <1>1, StayKeeps DEF LeaveIdle, Leave, Waiting, InTask, PC
  <2> QED
    BY <2>1, <2>2
<1>2. CASE Armed
  <2>1. AxisTypes'
    BY <1>2 DEF Armed, AxisTypes, encoder, rest
  <2>2. ThreadTypes' /\ ChainStep
    BY <1>2, SucceedAdvances, StayKeeps DEF Armed, InTask, PC
  <2> QED
    BY <2>1, <2>2
<1>3. CASE ArmTimeout
  <2>1. AxisTypes'
    BY <1>3 DEF ArmTimeout, AxisTypes, Raise, Flag, motor, encoder, rest
  <2>2. ThreadTypes' /\ ChainStep
    BY <1>3, FailDrops, StayKeeps DEF ArmTimeout, InTask, PC
  <2> QED
    BY <2>1, <2>2
<1>4. CASE measure_phase_resistance
  <2>1. AxisTypes'
    BY <1>4 DEF measure_phase_resistance, AxisTypes, motor, encoder, rest
  <2>2. ThreadTypes' /\ ChainStep
    BY <1>4, FailDrops, EnterKeeps DEF measure_phase_resistance, Leave, InTask, Phase
  <2> QED
    BY <2>1, <2>2
<1>5. CASE measure_phase_inductance
  <2>1. AxisTypes'
    BY <1>5 DEF measure_phase_inductance, AxisTypes, Raise, Flag, encoder, rest
  <2>2. ThreadTypes' /\ ChainStep
    BY <1>5, FailDrops, SucceedAdvances DEF measure_phase_inductance, Leave, InTask, Phase
  <2> QED
    BY <2>1, <2>2
<1>6. CASE LeaveLock
  <2>1. AxisTypes'
    BY <1>6 DEF LeaveLock, AxisTypes, motor, encoder, rest
  <2>2. ThreadTypes' /\ ChainStep
    BY <1>6, FailDrops, EnterKeeps DEF LeaveLock, Leave, InTask, Phase
  <2> QED
    BY <2>1, <2>2
<1>7. CASE LeaveForward
  <2>1. AxisTypes'
    BY <1>7 DEF LeaveForward, AxisTypes, Raise, Flag, encoder, rest
  <2>2. ThreadTypes' /\ ChainStep
    BY <1>7, FailDrops, EnterKeeps DEF LeaveForward, Leave, InTask, Phase
  <2> QED
    BY <2>1, <2>2
<1>8. CASE LeaveBackward
  <2>1. AxisTypes'
    BY <1>8 DEF LeaveBackward, AxisTypes, motor, rest
  <2>2. ThreadTypes' /\ ChainStep
    BY <1>8, ReturnEnds DEF LeaveBackward, Leave, InTask, Phase
  <2> QED
    BY <2>1, <2>2
<1> QED
  BY <1>1, <1>2, <1>3, <1>4, <1>5, <1>6, <1>7, <1>8

\* What the lockin spin, homing and the control loops do after their loops.
LEMMA MotionSteps ==
    ASSUME ThreadTypes, AxisTypes,
           \/ LeaveRamp \/ LeaveAccelerate \/ set_idx_subscribe \/ ConstantSpeed
           \/ LeaveLockin \/ LeaveSeek \/ LeaveReturn \/ LeaveControl
    PROVE  ThreadTypes' /\ AxisTypes' /\ ChainStep
<1>1. CASE LeaveRamp
  <2>1. AxisTypes'
    BY <1>1 DEF LeaveRamp, AxisTypes, motor, encoder, rest
  <2>2. ThreadTypes' /\ ChainStep
    BY <1>1, EnterKeeps DEF LeaveRamp, Leave, InTask, Phase
  <2> QED
    BY <2>1, <2>2
<1>2. CASE LeaveAccelerate
  <2>1. AxisTypes'
    BY <1>2 DEF LeaveAccelerate, AxisTypes, motor, encoder, rest
  <2>2. ThreadTypes' /\ ChainStep
    BY <1>2, StayKeeps DEF LeaveAccelerate, Leave, InTask, PC
  <2> QED
    BY <2>1, <2>2
<1>3. CASE set_idx_subscribe
  <2>1. AxisTypes'
    BY <1>3 DEF set_idx_subscribe, AxisTypes, motor, rest
  <2>2. ThreadTypes' /\ ChainStep
    BY <1>3, StayKeeps DEF set_idx_subscribe, InTask, PC
  <2> QED
    BY <2>1, <2>2
<1>4. CASE ConstantSpeed
  <2>1. AxisTypes'
    BY <1>4 DEF ConstantSpeed, AxisTypes, motor, encoder, rest
  <2>2. CASE Enter("const_vel")
    BY <1>4, <2>1, <2>2, EnterKeeps DEF ConstantSpeed, InTask, Phase
  <2>3. CASE /\ phase' = "const_vel" /\ pc' = "leave"
             /\ UNCHANGED <<request, ran, main_continue, whole>>
    BY <1>4, <2>1, <2>3
    DEF ConstantSpeed, ThreadTypes, ChainStep, ChainKept, InTask, PC, Phase, request
  <2> QED
    BY <1>4, <2>2, <2>3 DEF ConstantSpeed
<1>5. CASE LeaveLockin
  <2>1. AxisTypes'
    BY <1>5 DEF LeaveLockin, AxisTypes, encoder, rest
  <2>2. ThreadTypes' /\ ChainStep
    BY <1>5, ReturnEnds, EnterKeeps DEF LeaveLockin, Leave, InTask, Phase
  <2> QED
    BY <2>1, <2>2
<1>6. CASE LeaveSeek
  <2>1. AxisTypes'
    BY <1>6 DEF LeaveSeek, AxisTypes, motor, encoder, rest
  <2>2. ThreadTypes' /\ ChainStep
    BY <1>6, EnterKeeps DEF LeaveSeek, Leave, InTask, Phase
  <2> QED
    BY <2>1, <2>2
<1>7. CASE LeaveReturn
  <2>1. AxisTypes'
    BY <1>7 DEF LeaveReturn, AxisTypes, motor, encoder
  <2>2. ThreadTypes' /\ ChainStep
    BY <1>7, ReturnEnds DEF LeaveReturn, Leave, InTask, Phase
  <2> QED
    BY <2>1, <2>2
<1>8. CASE LeaveControl
  <2>1. AxisTypes'
    BY <1>8 DEF LeaveControl, AxisTypes, motor, encoder, rest
  <2>2. ThreadTypes' /\ ChainStep
    BY <1>8, ReturnEnds DEF LeaveControl, Leave, InTask, Phase
  <2> QED
    BY <2>1, <2>2
<1> QED
  BY <1>1, <1>2, <1>3, <1>4, <1>5, <1>6, <1>7, <1>8

\* The host and the interrupts never touch the chain.
LEMMA OtherSteps ==
    ASSUME ThreadTypes, AxisTypes, Host \/ InterruptFloats \/ enc_index_cb
    PROVE  ThreadTypes' /\ AxisTypes' /\ ChainStep
<1>1. CASE HostRequests
  <2>1. AxisTypes'
    BY <1>1 DEF HostRequests, AxisTypes, motor, encoder, rest
  <2>2. ThreadTypes' /\ ChainStep
    BY <1>1, RequestsAssumption
    DEF HostRequests, ThreadTypes, ChainStep, ChainKept, InTask, loop
  <2> QED
    BY <2>1, <2>2
<1>2. CASE clear_errors
  <2>1. AxisTypes'
    BY <1>2 DEF clear_errors, AxisTypes, motor, encoder, rest
  <2>2. ThreadTypes' /\ ChainStep
    BY <1>2, StayKeeps DEF clear_errors, ThreadTypes, InTask
  <2> QED
    BY <2>1, <2>2
<1>3. CASE estop
  <2>1. AxisTypes'
    BY <1>3 DEF estop, AxisTypes, Raise, Flag, motor, encoder, rest
  <2>2. ThreadTypes' /\ ChainStep
    BY <1>3, StayKeeps DEF estop, ThreadTypes, InTask
  <2> QED
    BY <2>1, <2>2
<1>4. CASE watchdog_feed
  <2>1. AxisTypes'
    BY <1>4, WatchdogAssumption DEF watchdog_feed, AxisTypes, motor, encoder
  <2>2. ThreadTypes' /\ ChainStep
    BY <1>4, StayKeeps DEF watchdog_feed, ThreadTypes, InTask
  <2> QED
    BY <2>1, <2>2
<1>5. CASE InterruptFloats
  <2>1. AxisTypes'
    BY <1>5 DEF InterruptFloats, AxisTypes, encoder, rest
  <2>2. ThreadTypes' /\ ChainStep
    BY <1>5, StayKeeps DEF InterruptFloats, ThreadTypes, InTask
  <2> QED
    BY <2>1, <2>2
<1>6. CASE enc_index_cb
  <2>1. config.pre_calibrated \in BOOLEAN
    BY ConfigsAssumption DEF AxisTypes
  <2>2. AxisTypes'
    BY <1>6, <2>1 DEF enc_index_cb, AxisTypes, motor, rest
  <2>3. ThreadTypes' /\ ChainStep
    BY <1>6, StayKeeps DEF enc_index_cb, ThreadTypes, InTask
  <2> QED
    BY <2>2, <2>3
<1> QED
  BY <1>1, <1>2, <1>3, <1>4, <1>5, <1>6 DEF Host

-----------------------------------------------------------------------------
(* The chain.                                                              *)

\* a chain that is advanced keeps its terminator, one place further on
LEMMA AdvancedTerminated ==
    ASSUME Terminated, TaskRuns, ChainAdvanced
    PROVE  Terminated'
<1>1. PICK k \in 1 .. ChainSize :
          /\ task_chain[k] = "UNDEFINED"
          /\ \A i \in 1 .. k - 1 : task_chain[i] \in asked \cup {"IDLE"}
  BY DEF Terminated
<1>2. k # 1
  BY <1>1 DEF TaskRuns, ChainAdvanced, current_state
<1>3. k - 1 \in 1 .. ChainSize /\ k - 1 < ChainSize
  BY <1>2 DEF ChainSize
<1>4. task_chain'[k - 1] = "UNDEFINED"
  BY <1>1, <1>3 DEF ChainAdvanced
<1>5. \A i \in 1 .. (k - 1) - 1 : task_chain'[i] \in asked' \cup {"IDLE"}
  <2> SUFFICES ASSUME NEW i \in 1 .. (k - 1) - 1
               PROVE  task_chain'[i] \in asked' \cup {"IDLE"}
    OBVIOUS
  <2>1. i + 1 \in 1 .. k - 1 /\ i \in 1 .. ChainSize /\ i < ChainSize
    BY DEF ChainSize
  <2>2. task_chain'[i] = task_chain[i + 1]
    BY <2>1 DEF ChainAdvanced
  <2> QED
    BY <1>1, <2>1, <2>2 DEF ChainAdvanced
<1> QED
  BY <1>3, <1>4, <1>5 DEF Terminated

\* a chain that is dropped is just idle
LEMMA DroppedTerminated ==
    ASSUME ChainDropped
    PROVE  Terminated'
<1>1. task_chain'[2] = "UNDEFINED" /\ task_chain'[1] = "IDLE"
  BY DEF ChainDropped, ChainSize
<1> QED
  BY <1>1 DEF Terminated, ChainSize

\* A chain that is loaded ends with its own terminator, whatever the array held
\* before: the loop that copies it (axis.cpp:508) always has room for it.
LEMMA LoadedTerminated ==
    ASSUME TypeOK, LoadChain
    PROVE  Terminated' /\ task_chain'[1] # "UNDEFINED"
<1> DEFINE tasks == Chain(requested_state)
           n == Len(tasks)
<1>1. tasks \in Seq(AxisState \ {"UNDEFINED"}) /\ n \in 1 .. 6
  BY ChainFits DEF TypeOK, LoadChain
<1>2. /\ task_chain' = [i \in 1 .. ChainSize |->
                            IF i <= n THEN tasks[i]
                            ELSE IF i = n + 1 THEN "UNDEFINED"
                            ELSE task_chain[i]]
      /\ asked' = {tasks[i] : i \in DOMAIN tasks}
  BY DEF LoadChain
<1> HIDE DEF tasks
<1>3. DOMAIN tasks = 1 .. n
  BY <1>1, LenProperties
<1> HIDE DEF n
<1>4. \A i \in 1 .. n : task_chain'[i] = tasks[i]
  <2> SUFFICES ASSUME NEW i \in 1 .. n PROVE task_chain'[i] = tasks[i]
    OBVIOUS
  <2>1. i \in 1 .. ChainSize /\ i <= n
    BY <1>1 DEF ChainSize
  <2> QED
    BY <1>2, <2>1
<1>5. n + 1 \in 1 .. ChainSize /\ task_chain'[n + 1] = "UNDEFINED"
  BY <1>1, <1>2 DEF ChainSize
<1>6. \A i \in 1 .. (n + 1) - 1 : task_chain'[i] \in asked' \cup {"IDLE"}
  BY <1>1, <1>2, <1>3, <1>4
<1>7. task_chain'[1] # "UNDEFINED"
  BY <1>1, <1>3, <1>4, ElementOfSeq
<1> QED
  BY <1>5, <1>6, <1>7 DEF Terminated

-----------------------------------------------------------------------------
(* The theorems.                                                           *)

\* the array is full of terminators when the thread starts
THEOREM InvInitially == Init => IInv
<1> SUFFICES ASSUME Init PROVE IInv
  OBVIOUS
<1>1. task_chain \in [1 .. ChainSize -> AxisState] /\ task_chain[1] = "UNDEFINED"
  BY DEF Init, AxisState, ChainSize
<1>2. config.find_idx_on_lockin_only \in BOOLEAN /\ subscribed \in BOOLEAN
  BY ConfigsAssumption DEF Init
<1>3. ThreadTypes
  BY <1>1 DEF Init, ThreadTypes, AxisState, PC, Waiting, Phase
<1>4. AxisTypes
  <2>1. watchdog \in 0 .. WatchdogReset
    BY WatchdogAssumption DEF Init
  <2>2. error \subseteq Flag
    BY DEF Init
  <2>3. /\ armed \in BOOLEAN /\ brake_resistor_armed \in BOOLEAN
        /\ is_ready \in BOOLEAN /\ index_found \in BOOLEAN /\ is_homed \in BOOLEAN
    BY DEF Init
  <2> QED
    BY <1>2, <2>1, <2>2, <2>3, Zenon DEF Init, AxisTypes
<1>5. Terminated
  BY <1>1 DEF Terminated, ChainSize
<1> QED
  BY <1>3, <1>4, <1>5, TypeParts DEF IInv, TaskRuns, InTask, Init

\* every step of the thread, the host and the interrupts keeps the invariant
THEOREM InvStep == IInv /\ [Next]_vars => IInv'
<1> SUFFICES ASSUME IInv, [Next]_vars PROVE IInv'
  OBVIOUS
<1>0. ThreadTypes /\ AxisTypes
  BY TypeParts DEF IInv
<1>1. CASE UNCHANGED vars
  BY <1>1 DEF IInv, TypeOK, Terminated, TaskRuns, InTask, current_state, vars
<1>2. CASE Next
  <2>1. ThreadTypes' /\ AxisTypes' /\ ChainStep
    BY <1>0, <1>2, LoadKeepsTypes, StateMachineSteps, StartSteps, LoopSteps,
       CalibrationSteps, MotionSteps, OtherSteps
    DEF Next, Thread, Finish
  <2>2. TypeOK'
    BY <2>1 DEF TypeOK, ThreadTypes, AxisTypes
  <2>3. CASE ChainKept
    BY <2>2, <2>3 DEF IInv, ChainKept, Terminated, TaskRuns, current_state
  <2>4. CASE ChainAdvanced
    BY <2>2, <2>4, AdvancedTerminated DEF IInv, ChainAdvanced, TaskRuns
  <2>5. CASE ChainDropped
    BY <2>2, <2>5, DroppedTerminated DEF IInv, ChainDropped, TaskRuns
  <2>6. CASE ChainLoaded
    BY <2>2, <2>6, LoadedTerminated DEF IInv, ChainLoaded, TaskRuns, current_state
  <2> QED
    BY <2>1, <2>3, <2>4, <2>5, <2>6 DEF ChainStep
<1> QED
  BY <1>1, <1>2

\* Every reachable state is well typed: the watchdog never counts below 0, the
\* chain never holds anything but states of the axis.
THEOREM TypeCorrect == Spec => []TypeOK
<1>1. IInv => TypeOK
  BY DEF IInv
<1> QED
  BY InvInitially, InvStep, <1>1, PTL DEF Spec

\* No task runs but those of the latest request, in any configuration and
\* whatever the host asks for and when: what earlier requests left behind the
\* terminator of task_chain_ is never reached, and nothing follows a task that
\* has failed but idle (axis.cpp:475-599).
THEOREM OnlyAskedTasksHolds == Spec => []OnlyAskedTasks
<1>1. IInv => OnlyAskedTasks
  <2> SUFFICES ASSUME IInv PROVE OnlyAskedTasks
    OBVIOUS
  <2>1. PICK k \in 1 .. ChainSize :
            /\ task_chain[k] = "UNDEFINED"
            /\ \A i \in 1 .. k - 1 : task_chain[i] \in asked \cup {"IDLE"}
    BY DEF IInv, Terminated
  <2>2. CASE k = 1
    BY <2>1, <2>2 DEF OnlyAskedTasks, current_state
  <2>3. CASE k # 1
    <3>1. 1 \in 1 .. k - 1
      BY <2>3
    <3> QED
      BY <2>1, <3>1 DEF OnlyAskedTasks, current_state
  <2> QED
    BY <2>2, <2>3
<1> QED
  BY InvInitially, InvStep, <1>1, PTL DEF Spec
=============================================================================
