-------------------------- MODULE Controller_proofs --------------------------
(***************************************************************************)
(* Proofs about Controller, for every range of positions, every size of    *)
(* the cogging map and any number of inputs.                               *)
(***************************************************************************)
EXTENDS Controller, TLAPS

-----------------------------------------------------------------------------
(* fmodf_pos.                                                              *)

\* what fmodf_pos returns lies in the circular range (utils.hpp:88)
LEMMA WrappedInRange ==
    ASSUME NEW x \in Int
    PROVE  Wrapped(x) \in 0 .. CircularRange - 1
BY CircularRangeAssumption DEF Wrapped

\* and it leaves alone what is in the range already
LEMMA WrappedIdentity ==
    ASSUME NEW x \in 0 .. CircularRange - 1
    PROVE  Wrapped(x) = x
BY CircularRangeAssumption DEF Wrapped

-----------------------------------------------------------------------------
(* The trajectory.                                                         *)

Trajectory == [Xi : Int, Vi : Speed, Xf : Int, t : Nat]

\* a trajectory turns at a position, and takes as long as its two parts
LEMMA PlanTypes ==
    ASSUME trajectory \in Trajectory
    PROVE  Turn \in Int /\ Ta \in Nat /\ Tf \in Nat /\ Ta <= Tf
<1>1. trajectory.Xi \in Int /\ trajectory.Vi \in Int /\ trajectory.Xf \in Int
  BY DEF Trajectory, Speed
<1>2. Turn \in Int
  BY <1>1 DEF Turn
<1>3. ASSUME NEW a \in Int, NEW b \in Int PROVE Distance(a, b) \in Nat
  BY DEF Distance
<1>4. Ta \in Nat /\ Distance(Turn, trajectory.Xf) \in Nat
  BY <1>1, <1>2, <1>3 DEF Ta
<1> QED
  BY <1>2, <1>4 DEF Tf

\* what eval returns
LEMMA EvalTypes ==
    ASSUME trajectory \in Trajectory
    PROVE  Eval(trajectory.t) \in Int /\ EvalSpeed(trajectory.t) \in Speed
<1>1. /\ trajectory.Xi \in Int /\ trajectory.Vi \in Speed /\ trajectory.Xf \in Int
      /\ trajectory.t \in Nat
  BY DEF Trajectory
<1>2. Eval(trajectory.t) \in Int
  BY <1>1, PlanTypes DEF Eval, Towards
<1>3. EvalSpeed(trajectory.t) \in Speed
  BY <1>1 DEF EvalSpeed, Speed
<1> QED
  BY <1>2, <1>3

\* a trajectory from rest to where it begins is over at once
LEMMA RestStays ==
    ASSUME trajectory \in Trajectory, trajectory.Vi = 0, trajectory.Xf = trajectory.Xi
    PROVE  Tf = 0 /\ Eval(0) = trajectory.Xi /\ EvalSpeed(0) = 0
<1>1. trajectory.Xi \in Int
  BY DEF Trajectory
<1>2. Turn = trajectory.Xi
  BY <1>1 DEF Turn
<1> QED
  BY <1>1, <1>2 DEF Ta, Tf, Distance, Eval, Towards, EvalSpeed

-----------------------------------------------------------------------------
(* Types.                                                                  *)

\* the initial state is well typed
THEOREM TypeInitially == Init => TypeOK
<1> SUFFICES ASSUME Init PROVE TypeOK
  OBVIOUS
<1>1. trajectory \in Trajectory
  BY DEF Init, Trajectory, Speed
<1>2. /\ index \in 0 .. MapSize - 1
      /\ measured \subseteq 0 .. MapSize - 1
      /\ inputs \in 0 .. MaxInputs
  BY MapSizeAssumption, MaxInputsAssumption DEF Init
<1> QED
  BY <1>1, <1>2 DEF Init, TypeOK, InputMode, Waiting, Speed, Trajectory

\* The steps of Controller::update keep the types; the index of the cogging map
\* stays below its size because the end of a calibration takes it back to 0.
LEMMA UpdateKeepsTypes == TypeOK /\ Update => TypeOK'
<1> SUFFICES ASSUME TypeOK, Update PROVE TypeOK'
  OBVIOUS
<1> USE DEF TypeOK, Waiting, Updating, input, commands, setpoint, hosts, anticogging,
            entry, history
<1>1. CASE NoCalibration
  BY <1>1 DEF NoCalibration
<1>2. CASE Calibrate
  BY <1>2, MapSizeAssumption DEF Calibrate, Speed
<1>3. CASE FlagCalibration
  BY <1>3 DEF FlagCalibration
<1>4. CASE WrapInput
  <2>1. Wrapped(input_pos) \in Int
    BY WrappedInRange
  <2> QED
    BY <1>4, <2>1 DEF WrapInput
<1>5. CASE StoreInput
  BY <1>5 DEF StoreInput
<1>6. CASE Inactive \/ Passthrough
  BY <1>6 DEF Inactive, Passthrough
<1>7. CASE Plan
  BY <1>7 DEF Plan
<1>8. CASE ClearFlag \/ KeepPlan
  BY <1>8 DEF ClearFlag, KeepPlan
<1>9. CASE Finish \/ Stay
  BY <1>9 DEF Finish, Stay, Speed
<1>10. CASE Follow
  <2>1. Eval(trajectory.t) \in Int /\ EvalSpeed(trajectory.t) \in Speed
    BY EvalTypes DEF Trajectory
  <2> QED
    BY <1>10, <2>1 DEF Follow
<1>11. CASE WrapSetpoint
  <2>1. Wrapped(pos_setpoint) \in Int
    BY WrappedInRange
  <2> QED
    BY <1>11, <2>1 DEF WrapSetpoint
<1> QED
  BY <1>1, <1>2, <1>3, <1>4, <1>5, <1>6, <1>7, <1>8, <1>9, <1>10, <1>11 DEF Update

\* entering and leaving closed loop control
LEMMA LoopKeepsTypes ==
    ASSUME TypeOK,
           \/ Enter \/ NextPeriod
           \/ Arm \/ GiveUpArming \/ EndArming \/ EnterSetpoint \/ EndTask \/ Idle
    PROVE  TypeOK'
<1> USE DEF TypeOK, Waiting, Updating, input, commands, setpoint, hosts, anticogging,
            entry, history
<1>1. CASE Enter \/ NextPeriod
  BY <1>1 DEF Enter, EnterInput, EnterFlag, NextPeriod
<1>2. CASE Arm
  BY <1>2 DEF Arm, Speed
<1>3. CASE GiveUpArming \/ EndArming \/ EndTask \/ Idle
  BY <1>3 DEF GiveUpArming, EndArming, EndTask, Idle
<1>4. CASE EnterSetpoint
  <2>1. Estimate \subseteq Int
    BY LimitAssumption, CircularRangeAssumption DEF Estimate, Pos
  <2> QED
    BY <1>4, <2>1 DEF EnterSetpoint
<1> QED
  BY <1>1, <1>2, <1>3, <1>4

\* the inputs
LEMMA InputKeepsTypes ==
    ASSUME TypeOK,
           \/ \E d \in {-1, 1} : Step(d)
           \/ \E v \in Pos : SetInputPos(v)
           \/ \E u \in FeedForward : SetInputVel(u)
           \/ \E d \in {-1, 1}, b \in BOOLEAN : MoveIncremental(d, b)
           \/ HostWrites
           \/ \E m \in InputMode : SetInputMode(m)
           \/ StartAnticogging
    PROVE  TypeOK'
<1> USE DEF TypeOK, Waiting, Updating, input, commands, setpoint, hosts, anticogging,
            entry, history
<1>1. ASSUME NEW d \in {-1, 1}, Step(d) PROVE TypeOK'
  BY <1>1, MaxInputsAssumption DEF Step, Pos
<1>2. ASSUME NEW v \in Pos, SetInputPos(v) PROVE TypeOK'
  BY <1>2, LimitAssumption, MaxInputsAssumption DEF SetInputPos, Pos
<1>3. ASSUME NEW d \in {-1, 1}, NEW b \in BOOLEAN, MoveIncremental(d, b) PROVE TypeOK'
  BY <1>3, LimitAssumption, MaxInputsAssumption DEF MoveIncremental, Pos
<1>4. CASE HostWrites
  BY <1>4 DEF HostWrites, StoreIncremented, SetFlag
<1>5. ASSUME NEW m \in InputMode, SetInputMode(m) PROVE TypeOK'
  BY <1>5 DEF SetInputMode
<1>6. CASE StartAnticogging
  BY <1>6, MaxInputsAssumption DEF StartAnticogging
<1>7. ASSUME NEW u \in FeedForward, SetInputVel(u) PROVE TypeOK'
  BY <1>7, FeedForwardAssumption, MaxInputsAssumption DEF SetInputVel, Speed
<1> QED
  BY <1>1, <1>2, <1>3, <1>4, <1>5, <1>6, <1>7

\* Every reachable state is well typed: in particular the map is only written
\* below its size (controller.cpp:83).
THEOREM TypeCorrect == Spec => []TypeOK
<1>1. TypeOK /\ [Next]_vars => TypeOK'
  <2> SUFFICES ASSUME TypeOK, [Next]_vars PROVE TypeOK'
    OBVIOUS
  <2>1. CASE Update
    BY <2>1, UpdateKeepsTypes
  <2>2. CASE \/ Enter \/ NextPeriod
             \/ Arm \/ GiveUpArming \/ EndArming \/ EnterSetpoint \/ EndTask \/ Idle
    BY <2>2, LoopKeepsTypes
  <2>3. CASE \/ \E d \in {-1, 1} : Step(d)
             \/ \E v \in Pos : SetInputPos(v)
             \/ \E u \in FeedForward : SetInputVel(u)
             \/ \E d \in {-1, 1}, b \in BOOLEAN : MoveIncremental(d, b)
             \/ HostWrites
             \/ \E m \in InputMode : SetInputMode(m)
             \/ StartAnticogging
    BY <2>3, InputKeepsTypes
  <2>4. CASE UNCHANGED vars
    BY <2>4 DEF vars, TypeOK
  <2> QED
    BY <2>1, <2>2, <2>3, <2>4 DEF Next, Thread
<1> QED
  BY <1>1, TypeInitially, PTL DEF Spec

-----------------------------------------------------------------------------
(* No transient when closed loop control begins.                           *)

AtStart == trajectory.Xi = start /\ trajectory.Vi = 0 /\ trajectory.Xf = start

\* entered from rest, and no input since
Resting == from_rest /\ ~moved

\* Entered from rest, until the first input both the setpoint and the input are
\* where closed loop control began, and there is no speed; a trajectory that update
\* would follow is either about to be planned anew or does not lead anywhere else.
StartInv ==
    /\ config.circular => start \in 0 .. CircularRange - 1
    /\ pc \in {"wrap", "wrapped"} => config.circular
    /\ Resting /\ pc = "input" => pos_setpoint = start
    /\ Resting /\ pc \in {"input", "flag"} \cup InLoop => vel_setpoint = 0 /\ input_vel = 0
    /\ Resting /\ pc \in {"flag"} \cup InLoop => pos_setpoint = start /\ input_pos = start
    /\ Resting /\ pc \in InLoop =>
           /\ pc # "calibrated"
           /\ pc = "wrapped" => latched = start
           /\ pc = "clear" => AtStart
           /\ pc = "follow" => trajectory_done \/ AtStart
           /\ input_pos_updated \/ trajectory_done \/ AtStart

\* update and the wait keep it: this is where an old trajectory would show
LEMMA UpdateKeepsStart == TypeOK /\ StartInv /\ (Update \/ NextPeriod) => StartInv'
<1> SUFFICES ASSUME TypeOK, StartInv, Update \/ NextPeriod PROVE StartInv'
  OBVIOUS
<1> USE DEF StartInv, AtStart, Resting, InLoop, Updating, input, commands, setpoint,
            hosts, anticogging, entry, history
<1>1. CASE NoCalibration \/ NextPeriod
  BY <1>1 DEF NoCalibration, NextPeriod
<1>2. CASE Calibrate \/ FlagCalibration
  BY <1>2 DEF Calibrate, FlagCalibration
<1>3. CASE WrapInput
  <2>1. Resting /\ config.circular => Wrapped(input_pos) = start
    BY <1>3, WrappedIdentity DEF WrapInput
  <2> QED
    BY <1>3, <2>1 DEF WrapInput
<1>4. CASE StoreInput
  BY <1>4 DEF StoreInput
<1>5. CASE Inactive \/ Passthrough
  BY <1>5 DEF Inactive, Passthrough
<1>6. CASE Plan
  BY <1>6 DEF Plan, TypeOK
<1>7. CASE ClearFlag \/ KeepPlan
  BY <1>7 DEF ClearFlag, KeepPlan
<1>8. CASE Finish \/ Stay
  BY <1>8 DEF Finish, Stay
<1>9. CASE Follow
  <2>1. ~trajectory_done /\ Resting => trajectory.t = 0 /\ Eval(0) = start /\ EvalSpeed(0) = 0
    BY <1>9, RestStays DEF Follow, TypeOK, Trajectory
  <2> QED
    BY <1>9, <2>1 DEF Follow, TypeOK
<1>10. CASE WrapSetpoint
  <2>1. Resting /\ config.circular => Wrapped(pos_setpoint) = start
    BY <1>10, WrappedIdentity DEF WrapSetpoint
  <2> QED
    BY <1>10, <2>1 DEF WrapSetpoint
<1> QED
  BY <1>1, <1>2, <1>3, <1>4, <1>5, <1>6, <1>7, <1>8, <1>9, <1>10 DEF Update

\* entering and leaving: EnterFlag is what makes an unfinished trajectory harmless
LEMMA LoopKeepsStart ==
    ASSUME TypeOK, StartInv,
           Enter \/ Arm \/ GiveUpArming \/ EndArming \/ EnterSetpoint \/ EndTask \/ Idle
    PROVE  StartInv'
<1> USE DEF StartInv, AtStart, Resting, InLoop, Updating, input, commands, setpoint,
            hosts, anticogging, entry, history
<1>1. CASE Enter
  BY <1>1 DEF Enter, EnterInput, EnterFlag
<1>2. CASE Arm \/ GiveUpArming \/ EndArming \/ EndTask \/ Idle
  BY <1>2 DEF Arm, GiveUpArming, EndArming, EndTask, Idle
<1>3. CASE EnterSetpoint
  BY <1>3 DEF EnterSetpoint, Estimate
<1> QED
  BY <1>1, <1>2, <1>3

\* an input sets moved; a host that only announces or prepares one leaves the
\* input alone, and the flag makes update plan to where it is
LEMMA InputKeepsStart ==
    ASSUME TypeOK, StartInv,
           \/ \E d \in {-1, 1} : Step(d)
           \/ \E v \in Pos : SetInputPos(v)
           \/ \E u \in FeedForward : SetInputVel(u)
           \/ \E d \in {-1, 1}, b \in BOOLEAN : MoveIncremental(d, b)
           \/ HostWrites
           \/ \E m \in InputMode : SetInputMode(m)
           \/ StartAnticogging
           \/ UNCHANGED vars
    PROVE  StartInv'
<1> USE DEF StartInv, AtStart, Resting, InLoop, Updating, input, commands, setpoint,
            hosts, anticogging, entry, history
<1>1. ASSUME NEW d \in {-1, 1}, Step(d) PROVE StartInv'
  BY <1>1 DEF Step
<1>2. ASSUME NEW v \in Pos, SetInputPos(v) PROVE StartInv'
  BY <1>2 DEF SetInputPos
<1>3. ASSUME NEW d \in {-1, 1}, NEW b \in BOOLEAN, MoveIncremental(d, b) PROVE StartInv'
  BY <1>3 DEF MoveIncremental
<1>4. CASE HostWrites
  BY <1>4 DEF HostWrites, StoreIncremented, SetFlag, Waiting
<1>5. ASSUME NEW m \in InputMode, SetInputMode(m) PROVE StartInv'
  BY <1>5 DEF SetInputMode
<1>6. CASE StartAnticogging
  BY <1>6 DEF StartAnticogging
<1>7. CASE UNCHANGED vars
  BY <1>7 DEF vars
<1>8. ASSUME NEW u \in FeedForward, SetInputVel(u) PROVE StartInv'
  BY <1>8 DEF SetInputVel
<1> QED
  BY <1>1, <1>2, <1>3, <1>4, <1>5, <1>6, <1>7, <1>8

\* Closed loop control that begins from rest begins without a transient
\* (axis.cpp:324), whatever trajectory an earlier run, the host and the modes left
\* behind, whether the motor was armed in between or not.
THEOREM NoTransientFromRestHolds == Spec => []NoTransientFromRest
<1>1. Init => StartInv
  BY CircularRangeAssumption DEF Init, StartInv, InLoop, Updating
<1>2. TypeOK /\ StartInv /\ [Next]_vars => StartInv'
  BY UpdateKeepsStart, LoopKeepsStart, InputKeepsStart DEF Next, Thread
<1>3. StartInv => NoTransientFromRest
  BY DEF StartInv, Resting, NoTransientFromRest
<1> QED
  BY <1>1, <1>2, <1>3, TypeCorrect, PTL DEF Spec

-----------------------------------------------------------------------------
(* The cogging map.                                                        *)

\* the entries below the index have been measured, and stay so when closed loop
\* control is left and the calibration goes on later
MapInv ==
    /\ 0 .. index - 1 \subseteq measured
    /\ MapComplete

\* A calibration switches the compensation on with a complete map
\* (controller.cpp:93).
THEOREM MapCompleteHolds == Spec => []MapComplete
<1>1. Init => MapInv
  BY DEF Init, MapInv, MapComplete
<1>2. TypeOK /\ MapInv /\ [Next]_vars => MapInv'
  <2> SUFFICES ASSUME TypeOK, MapInv, [Next]_vars PROVE MapInv'
    OBVIOUS
  <2>1. CASE Calibrate
    <3>1. PICK at_rest \in BOOLEAN :
             LET next == IF at_rest THEN index + 1 ELSE index
                 done == next >= MapSize
             IN  /\ measured' = IF at_rest THEN measured \cup {index} ELSE measured
                 /\ index' = IF done THEN 0 ELSE next
                 /\ anticogging_valid' = (done \/ anticogging_valid)
      BY <2>1 DEF Calibrate
    <3>2. CASE at_rest /\ index + 1 >= MapSize
      <4>1. index' = 0 /\ measured' = measured \cup {index} /\ index = MapSize - 1
        BY <3>1, <3>2, MapSizeAssumption DEF TypeOK
      <4>2. ASSUME NEW i \in 0 .. MapSize - 1 PROVE i \in measured'
        BY <4>1, MapSizeAssumption DEF MapInv, TypeOK
      <4>3. measured' \subseteq 0 .. MapSize - 1
        BY <4>1, MapSizeAssumption DEF TypeOK
      <4> QED
        BY <4>1, <4>2, <4>3 DEF MapInv, MapComplete
    <3>3. CASE at_rest /\ ~(index + 1 >= MapSize)
      <4>1. /\ index' = index + 1 /\ measured' = measured \cup {index}
            /\ anticogging_valid' = anticogging_valid
        BY <3>1, <3>3, MapSizeAssumption DEF TypeOK
      <4> QED
        BY <4>1, MapSizeAssumption DEF MapInv, MapComplete, TypeOK
    <3>4. CASE ~at_rest
      <4>1. index' = index /\ measured' = measured /\ anticogging_valid' = anticogging_valid
        BY <3>1, <3>4, MapSizeAssumption DEF TypeOK
      <4> QED
        BY <4>1 DEF MapInv, MapComplete
    <3> QED
      BY <3>2, <3>3, <3>4
  <2>2. CASE ~Calibrate
    <3>1. UNCHANGED <<index, measured, anticogging_valid>>
      BY <2>2 DEF Next, Thread, Update, Enter, HostWrites, NoCalibration, FlagCalibration,
            WrapInput, StoreInput, Inactive, Passthrough, Plan, ClearFlag, KeepPlan,
            Finish, Follow, Stay, WrapSetpoint, EnterInput, EnterFlag, NextPeriod, Arm,
            GiveUpArming, EndArming, EnterSetpoint, EndTask, Idle, Step, SetInputPos,
            SetInputVel, MoveIncremental, StoreIncremented, SetFlag, SetInputMode,
            StartAnticogging, anticogging, vars
    <3> QED
      BY <3>1 DEF MapInv, MapComplete
  <2> QED
    BY <2>1, <2>2
<1>3. MapInv => MapComplete
  BY DEF MapInv
<1> QED
  BY <1>1, <1>2, <1>3, TypeCorrect, PTL DEF Spec

-----------------------------------------------------------------------------
(* Where the setpoint comes to rest.                                       *)

InRange == input_pos \in 0 .. CircularRange - 1

\* nothing is about to move the setpoint
Quiet == trajectory_done /\ ~input_pos_updated /\ host # "flag"

\* Within the loop a quiet setpoint is at the input, in every mode.  The wrapping
\* of input_pos_ must not separate them, so what is read is what is there unless
\* a step has set the flag; and a trajectory that ends has an input in the range,
\* because it began in an earlier call of update.
SettledInv ==
    /\ pc \in {"wrap", "wrapped"} => config.circular
    /\ pc \in InLoop \ {"calibrated"} /\ Quiet =>
           pos_setpoint = input_pos /\ (config.circular => InRange)
    /\ pc = "wrapped" =>
           /\ latched \in 0 .. CircularRange - 1
           /\ ~input_pos_updated => latched = Wrapped(input_pos)
    /\ pc = "mode" => (config.circular => InRange \/ input_pos_updated)
    /\ pc = "clear" => ~trajectory_done /\ trajectory.t = 0
    /\ pc = "follow" =>
           (config.circular => InRange \/ input_pos_updated \/ trajectory.t = 0)

LEMMA UpdateKeepsSettled == TypeOK /\ SettledInv /\ (Update \/ NextPeriod) => SettledInv'
<1> SUFFICES ASSUME TypeOK, SettledInv, Update \/ NextPeriod PROVE SettledInv'
  OBVIOUS
<1> USE DEF SettledInv, Quiet, InRange, InLoop, Updating, input, commands, setpoint,
            hosts, anticogging, entry, history
<1>1. CASE NoCalibration \/ NextPeriod
  BY <1>1 DEF NoCalibration, NextPeriod
<1>2. CASE Calibrate \/ FlagCalibration
  BY <1>2 DEF Calibrate, FlagCalibration
<1>3. CASE WrapInput
  <2>1. Wrapped(input_pos) \in 0 .. CircularRange - 1
    BY WrappedInRange DEF TypeOK
  <2> QED
    BY <1>3, <2>1 DEF WrapInput, Wrapped
<1>4. CASE StoreInput
  <2>1. Quiet => Wrapped(input_pos) = input_pos
    BY <1>4, WrappedIdentity DEF StoreInput
  <2> QED
    BY <1>4, <2>1 DEF StoreInput
<1>5. CASE Inactive \/ Passthrough
  BY <1>5 DEF Inactive, Passthrough
<1>6. CASE Plan
  BY <1>6 DEF Plan, TypeOK
<1>7. CASE ClearFlag \/ KeepPlan
  BY <1>7 DEF ClearFlag, KeepPlan
<1>8. CASE Finish
  <2>1. trajectory.t # 0
    BY <1>8, PlanTypes DEF Finish, TypeOK, Trajectory
  <2> QED
    BY <1>8, <2>1 DEF Finish
<1>9. CASE Follow \/ Stay
  BY <1>9 DEF Follow, Stay
<1>10. CASE WrapSetpoint
  <2>1. Quiet /\ config.circular => Wrapped(pos_setpoint) = pos_setpoint
    BY <1>10, WrappedIdentity DEF WrapSetpoint
  <2> QED
    BY <1>10, <2>1 DEF WrapSetpoint
<1> QED
  BY <1>1, <1>2, <1>3, <1>4, <1>5, <1>6, <1>7, <1>8, <1>9, <1>10 DEF Update

\* closed loop control begins with the flag set
LEMMA LoopKeepsSettled ==
    ASSUME TypeOK, SettledInv,
           Enter \/ Arm \/ GiveUpArming \/ EndArming \/ EnterSetpoint \/ EndTask \/ Idle
    PROVE  SettledInv'
<1> USE DEF SettledInv, Quiet, InRange, InLoop, Updating, input, commands, setpoint,
            hosts, anticogging, entry, history
<1>1. CASE Enter
  BY <1>1 DEF Enter, EnterInput, EnterFlag
<1>2. CASE Arm \/ GiveUpArming \/ EndArming \/ EndTask \/ Idle
  BY <1>2 DEF Arm, GiveUpArming, EndArming, EndTask, Idle
<1>3. CASE EnterSetpoint
  BY <1>3 DEF EnterSetpoint
<1> QED
  BY <1>1, <1>2, <1>3

\* whoever writes input_pos_ has set the flag, or will
LEMMA InputKeepsSettled ==
    ASSUME TypeOK, SettledInv,
           \/ \E d \in {-1, 1} : Step(d)
           \/ \E v \in Pos : SetInputPos(v)
           \/ \E u \in FeedForward : SetInputVel(u)
           \/ \E d \in {-1, 1}, b \in BOOLEAN : MoveIncremental(d, b)
           \/ HostWrites
           \/ \E m \in InputMode : SetInputMode(m)
           \/ StartAnticogging
           \/ UNCHANGED vars
    PROVE  SettledInv'
<1> USE DEF SettledInv, Quiet, InRange, InLoop, Updating, input, commands, setpoint,
            hosts, anticogging, entry, history
<1>1. ASSUME NEW d \in {-1, 1}, Step(d) PROVE SettledInv'
  BY <1>1 DEF Step
<1>2. ASSUME NEW v \in Pos, SetInputPos(v) PROVE SettledInv'
  BY <1>2 DEF SetInputPos, Waiting
<1>3. ASSUME NEW d \in {-1, 1}, NEW b \in BOOLEAN, MoveIncremental(d, b) PROVE SettledInv'
  BY <1>3 DEF MoveIncremental, Waiting
<1>4. CASE HostWrites
  BY <1>4 DEF HostWrites, StoreIncremented, SetFlag, Waiting
<1>5. ASSUME NEW m \in InputMode, SetInputMode(m) PROVE SettledInv'
  BY <1>5 DEF SetInputMode, Waiting
<1>6. CASE StartAnticogging
  BY <1>6 DEF StartAnticogging, Waiting
<1>7. CASE UNCHANGED vars
  BY <1>7 DEF vars, Wrapped
<1>8. ASSUME NEW u \in FeedForward, SetInputVel(u) PROVE SettledInv'
  BY <1>8 DEF SetInputVel, Waiting
<1> QED
  BY <1>1, <1>2, <1>3, <1>4, <1>5, <1>6, <1>7, <1>8

\* The setpoint of a finished trajectory is at the input unless the flag says
\* otherwise (controller.cpp:200): no interleaving of the step interrupt, the
\* host and update leaves it elsewhere for good.
THEOREM SettledAtInputHolds == Spec => []SettledAtInput
<1>1. Init => SettledInv
  BY DEF Init, SettledInv, InLoop, Updating
<1>2. TypeOK /\ SettledInv /\ [Next]_vars => SettledInv'
  BY UpdateKeepsSettled, LoopKeepsSettled, InputKeepsSettled DEF Next, Thread
<1>3. SettledInv => SettledAtInput
  BY DEF SettledInv, SettledAtInput, InLoop, Quiet
<1> QED
  BY <1>1, <1>2, <1>3, TypeCorrect, PTL DEF Spec
=============================================================================
