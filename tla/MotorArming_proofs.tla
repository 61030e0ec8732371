-------------------------- MODULE MotorArming_proofs --------------------------
(***************************************************************************)
(* Theorems about MotorArming, for every number of axes and of timing      *)
(* words.  The invariant is built in layers, each inductive relative to    *)
(* the layers below it:                                                    *)
(*   TypeOK, then Armed (the interlock and where a motor must float), then *)
(*   Fresh (the valid flag never outlives its timings), then Prompt (where *)
(*   the thread and the interrupt of an axis are relative to each other).  *)
(***************************************************************************)
EXTENDS MotorArming, TLAPS

Floating == {"new", "idle", "arm", "clear", "unlock", "brake", "fault"}

\* BrakeInterlock and ArmStartsFloating; update_brake_current is only entered
\* by a thread that has just floated its motor.
Armed ==
    /\ BrakeInterlock
    /\ \A m \in Axis : pc[m] \in Floating => armed_state[m] = "DISARMED"

\* next_timings_valid_ implies that its timings are recent.
Fresh ==
    \A m \in Axis : /\ next_timings_valid[m] => fresh[m]
                    /\ pc[m] = "unlock" => ~next_timings_valid[m]

\* enqueue_modulation_timings flips the tags of next_timings_ from the front.
Whole(m) ==
    /\ pc[m] # "enqueue" => Uniform(next_timings[m])
    /\ pc[m] = "enqueue" => \A v, w \in Word :
           (next_timings[m][v] = next_timings[m][w]) <=> (v <= idx[m] <=> w <= idx[m])

\* An armed motor's thread computes while its window is open: it writes no
\* timings that are valid, and waits for the signal that opens the next window.
Paced(m) ==
    armed_state[m] # "DISARMED" =>
        /\ pc[m] \in {"run", "enqueue"} => ~next_timings_valid[m] /\ sampled[m] /\ ~done[m]
        /\ pc[m] = "wait" /\ done[m] => sampled[m] /\ ~next_timings_valid[m]
        /\ pc[m] = "wait" /\ next_timings_valid[m] => sampled[m] /\ ~done[m]

\* How Motor::arm gets into that pace.
Entering(m) ==
    /\ pc[m] = "arm" /\ done[m] => sampled[m]
    /\ pc[m] \in {"clear", "unlock"} => sampled[m] /\ ~done[m]
    /\ pc[m] = "unlock" => ~next_timings_valid[m]
    /\ pc[m] \in {"brake", "fault"} /\ ret[m] = "arm" => ~done[m] /\ ~adc_alive

Driven(m) == armed_state[m] \in {"WAITING_FOR_UPDATE", "ARMED"} => Uniform(ccr[m])

Prompt == \A m \in Axis : Whole(m) /\ Paced(m) /\ Entering(m) /\ Driven(m)

-----------------------------------------------------------------------------

\* The state keeps its types; in particular low_level_fault's loop over the
\* motors and the loop over the timing words stay inside their arrays.
THEOREM TypeCorrect == Spec => []TypeOK
<1> USE AxisCountAssumption, WordsAssumption
<1>1. Init => TypeOK
  <2> SUFFICES ASSUME Init PROVE TypeOK
    OBVIOUS
  <2> USE DEF Init
  <2>1. armed_state \in [Axis -> ArmedState]
    BY DEF Axis, ArmedState
  <2>2. next_timings \in [Axis -> [Word -> BOOLEAN]] /\ ccr \in [Axis -> [Word -> BOOLEAN]]
    BY DEF Axis, Word
  <2>3. idx \in [Axis -> 0 .. AxisCount + Words]
    BY DEF Axis
  <2>4. pc \in [Axis -> PC]
    BY DEF PC
  <2>5. ret \in [Axis -> {"idle", "arm", "wait", "float"}]
    OBVIOUS
  <2> QED
    BY <2>1, <2>2, <2>3, <2>4, <2>5 DEF TypeOK
<1>2. TypeOK /\ [Next]_vars => TypeOK'
  <2> SUFFICES ASSUME TypeOK, [Next]_vars PROVE TypeOK'
    OBVIOUS
  <2> DEFINE Ret == {"idle", "arm", "wait", "float"}
  <2>s. "DISARMED" \in ArmedState /\ "WAITING_FOR_TIMINGS" \in ArmedState
        /\ "WAITING_FOR_UPDATE" \in ArmedState /\ "ARMED" \in ArmedState
    BY DEF ArmedState
  <2>p. /\ Ret \subseteq PC
        /\ \A l \in {"arm", "clear", "unlock", "run", "enqueue", "wait", "float",
                     "idle", "brake", "fault"} : l \in PC
    BY DEF PC
  <2> USE DEF TypeOK, pwm, timings, thread, hw, env, goto, Consume,
              safety_critical_disarm_motor_pwm, safety_critical_arm_motor_pwm,
              safety_critical_disarm_brake_resistor,
              safety_critical_apply_brake_resistor_timings
  <2>1. CASE UNCHANGED vars
    BY <2>1 DEF vars
  <2>2. ASSUME NEW m \in Axis, signal_current_meas(m) PROVE TypeOK'
    BY <2>2 DEF signal_current_meas
  <2>3. ASSUME NEW m \in Axis, LoadTimings(m) PROVE TypeOK'
    <3>1. /\ next_timings_valid' \in [Axis -> BOOLEAN]
          /\ fresh' \in [Axis -> BOOLEAN]
          /\ ccr' \in [Axis -> [Word -> BOOLEAN]]
          /\ next_timings' \in [Axis -> [Word -> BOOLEAN]]
      BY <2>3 DEF LoadTimings, TakeTimings
    <3>2. \A state : AfterLoad(state) \in ArmedState
      BY <2>s DEF AfterLoad
    <3>3. armed_state' \in [Axis -> ArmedState] /\ moe' \in [Axis -> BOOLEAN]
      <4>1. CASE safety_critical_disarm_brake_resistor
        BY <4>1, <2>s
      <4>2. CASE safety_critical_disarm_motor_pwm(m)
        BY <4>2, <2>s
      <4>3. CASE safety_critical_apply_motor_pwm_timings(m)
        BY <4>3, <3>2 DEF safety_critical_apply_motor_pwm_timings
      <4> QED
        BY <2>3, <4>1, <4>2, <4>3 DEF LoadTimings
    <3>4. brake_resistor_armed' \in BOOLEAN /\ brake_on' \in BOOLEAN
      BY <2>3 DEF LoadTimings
    <3> QED
      BY <2>3, <3>1, <3>3, <3>4 DEF LoadTimings
  <2>4. ASSUME NEW m \in Axis, start_thread(m) PROVE TypeOK'
    BY <2>4, <2>p DEF start_thread
  <2>5. ASSUME NEW m \in Axis, Arm(m) PROVE TypeOK'
    <3>1. CASE ArmWait(m)
      BY <3>1, <2>p DEF ArmWait
    <3>2. CASE ArmClear(m)
      BY <3>2, <2>p DEF ArmClear
    <3>3. CASE ArmUnlock(m)
      BY <3>3, <2>s, <2>p DEF ArmUnlock
    <3>4. CASE ArmTimeout(m)
      BY <3>4, <2>p DEF ArmTimeout
    <3> QED
      BY <2>5, <3>1, <3>2, <3>3, <3>4 DEF Arm
  <2>6. ASSUME NEW m \in Axis, Loop(m) PROVE TypeOK'
    <3>1. CASE WriteTiming(m)
      <4>1. /\ idx[m] + 1 \in Word
            /\ idx[m] + 1 \in 0 .. AxisCount + Words
        BY <3>1 DEF WriteTiming, Word
      <4> QED
        BY <3>1, <4>1 DEF WriteTiming
    <3>2. CASE LoopTimeout(m)
      BY <3>2, <2>s, <2>p DEF LoopTimeout
    <3>3. CASE StartEnqueue(m)
      <4>1. 0 \in 0 .. AxisCount + Words
        OBVIOUS
      <4> QED
        BY <3>3, <4>1, <2>p DEF StartEnqueue
    <3>4. CASE FinishEnqueue(m)
      <4>1. 0 \in 0 .. AxisCount + Words
        OBVIOUS
      <4> QED
        BY <3>4, <4>1, <2>p DEF FinishEnqueue
    <3>5. CASE SkipEnqueue(m)
      BY <3>5, <2>p DEF SkipEnqueue
    <3>6. CASE LoopWait(m)
      BY <3>6, <2>p DEF LoopWait
    <3>7. CASE LeaveLoop(m)
      BY <3>7, <2>p DEF LeaveLoop
    <3> QED
      BY <2>6, <3>1, <3>2, <3>3, <3>4, <3>5, <3>6, <3>7 DEF Loop
  <2>7. ASSUME NEW m \in Axis, Idle(m) PROVE TypeOK'
    <3>1. CASE IdleFloat(m)
      BY <3>1, <2>s, <2>p DEF IdleFloat
    <3>2. CASE IdleWait(m)
      BY <3>2, <2>p DEF IdleWait
    <3> QED
      BY <2>7, <3>1, <3>2 DEF Idle
  <2>8. ASSUME NEW m \in Axis, set_error(m) PROVE TypeOK'
    <3>1. ret' \in [Axis -> Ret]
      BY <2>8 DEF set_error
    <3> QED
      BY <2>8, <2>s, <2>p, <3>1 DEF set_error
  <2>9. ASSUME NEW m \in Axis, Brake(m) PROVE TypeOK'
    <3>1. 0 \in 0 .. AxisCount + Words
      OBVIOUS
    <3>2. ret[m] \in PC
      BY <2>p
    <3>3. CASE UpdateBrake(m)
      BY <3>2, <3>3 DEF UpdateBrake
    <3>4. CASE BrakeFault(m)
      BY <3>1, <3>4, <2>p DEF BrakeFault
    <3>5. CASE FaultMotor(m)
      <4>1. idx[m] + 1 \in 0 .. AxisCount + Words
        BY <3>5 DEF FaultMotor
      <4> QED
        BY <3>5, <4>1, <2>s DEF FaultMotor
    <3>6. CASE FaultBrake(m)
      BY <3>1, <3>2, <3>6, <2>s DEF FaultBrake
    <3> QED
      BY <2>9, <3>3, <3>4, <3>5, <3>6 DEF Brake
  <2>10. CASE InterruptFault
    BY <2>10, <2>s DEF InterruptFault
  <2>11. CASE AdcFails
    BY <2>11 DEF AdcFails
  <2>12. CASE StackOverflow
    BY <2>12, <2>s DEF StackOverflow
  <2> QED
    BY <2>1, <2>2, <2>3, <2>4, <2>5, <2>6, <2>7, <2>8, <2>9, <2>10, <2>11, <2>12
       DEF Next, Interrupt, Thread
<1> QED
  BY <1>1, <1>2, PTL DEF Spec

-----------------------------------------------------------------------------

\* AfterLoad never brings a disarmed motor up.
LEMMA AfterLoadDisarmed == AfterLoad("DISARMED") = "DISARMED"
BY DEF AfterLoad

LEMMA ArmedInit == Init => Armed
BY DEF Init, Armed, BrakeInterlock

LEMMA ArmedStep == TypeOK /\ Armed /\ [Next]_vars => Armed'
<1> SUFFICES ASSUME TypeOK, Armed, [Next]_vars PROVE Armed'
  OBVIOUS
<1> USE DEF TypeOK, Armed, BrakeInterlock, Floating, pwm, timings, thread, hw, env, goto,
            Consume, safety_critical_disarm_motor_pwm,
            safety_critical_disarm_brake_resistor,
            safety_critical_apply_brake_resistor_timings
<1>1. CASE UNCHANGED vars
  BY <1>1 DEF vars
<1>2. ASSUME NEW m \in Axis, signal_current_meas(m) PROVE Armed'
  BY <1>2 DEF signal_current_meas
<1>3. ASSUME NEW m \in Axis, LoadTimings(m) PROVE Armed'
  <2>1. CASE safety_critical_disarm_brake_resistor
    BY <1>3, <2>1 DEF LoadTimings
  <2>2. CASE safety_critical_disarm_motor_pwm(m) /\ UNCHANGED brake_resistor_armed
    BY <1>3, <2>2 DEF LoadTimings
  <2>3. CASE safety_critical_apply_motor_pwm_timings(m) /\ UNCHANGED brake_resistor_armed
    <3>1. CASE ~brake_resistor_armed \/ armed_state[m] = "DISARMED"
      <4>1. armed_state' = [armed_state EXCEPT ![m] = "DISARMED"]
            /\ moe' = [moe EXCEPT ![m] = FALSE]
        BY <2>3, <3>1, AfterLoadDisarmed DEF safety_critical_apply_motor_pwm_timings
      <4> QED
        BY <1>3, <2>3, <4>1 DEF LoadTimings
    <3>2. CASE brake_resistor_armed /\ armed_state[m] # "DISARMED"
      <4>1. moe'[m] <=> armed_state'[m] = "ARMED"
        BY <2>3, <3>2 DEF safety_critical_apply_motor_pwm_timings, AfterLoad, ArmedState
      <4>2. \A k \in Axis \ {m} : armed_state'[k] = armed_state[k] /\ moe'[k] = moe[k]
        BY <2>3 DEF safety_critical_apply_motor_pwm_timings
      <4> QED
        BY <1>3, <2>3, <3>2, <4>1, <4>2 DEF LoadTimings
    <3> QED
      BY <3>1, <3>2
  <2> QED
    BY <1>3, <2>1, <2>2, <2>3 DEF LoadTimings
<1>4. ASSUME NEW m \in Axis, start_thread(m) PROVE Armed'
  BY <1>4 DEF start_thread
<1>5. ASSUME NEW m \in Axis, Arm(m) PROVE Armed'
  <2>1. CASE ArmWait(m) \/ ArmClear(m) \/ ArmTimeout(m)
    BY <2>1 DEF ArmWait, ArmClear, ArmTimeout
  <2>2. CASE ArmUnlock(m)
    BY <2>2 DEF ArmUnlock, safety_critical_arm_motor_pwm
  <2> QED
    BY <1>5, <2>1, <2>2 DEF Arm
<1>6. ASSUME NEW m \in Axis, Loop(m) PROVE Armed'
  <2>1. CASE LoopTimeout(m)
    BY <2>1 DEF LoopTimeout
  <2>2. CASE WriteTiming(m) \/ StartEnqueue(m) \/ FinishEnqueue(m)
    BY <2>2 DEF WriteTiming, StartEnqueue, FinishEnqueue
  <2>3. CASE SkipEnqueue(m) \/ LoopWait(m) \/ LeaveLoop(m)
    BY <2>3 DEF SkipEnqueue, LoopWait, LeaveLoop
  <2> QED
    BY <1>6, <2>1, <2>2, <2>3 DEF Loop
<1>7. ASSUME NEW m \in Axis, Idle(m) PROVE Armed'
  <2>1. CASE IdleFloat(m)
    BY <2>1 DEF IdleFloat
  <2>2. CASE IdleWait(m)
    BY <2>2 DEF IdleWait
  <2> QED
    BY <1>7, <2>1, <2>2 DEF Idle
<1>8. ASSUME NEW m \in Axis, set_error(m) PROVE Armed'
  BY <1>8 DEF set_error
<1>9. ASSUME NEW m \in Axis, Brake(m) PROVE Armed'
  <2>1. CASE UpdateBrake(m)
    BY <2>1 DEF UpdateBrake
  <2>2. CASE BrakeFault(m)
    BY <2>2 DEF BrakeFault
  <2>3. CASE FaultMotor(m)
    <3>1. idx[m] \in Axis
      BY <2>3, AxisCountAssumption DEF FaultMotor, Axis
    <3> QED
      BY <2>3, <3>1 DEF FaultMotor
  <2>4. CASE FaultBrake(m)
    BY <2>4 DEF FaultBrake
  <2> QED
    BY <1>9, <2>1, <2>2, <2>3, <2>4 DEF Brake
<1>10. CASE InterruptFault \/ AdcFails \/ StackOverflow
  BY <1>10 DEF InterruptFault, AdcFails, StackOverflow
<1> QED
  BY <1>1, <1>2, <1>3, <1>4, <1>5, <1>6, <1>7, <1>8, <1>9, <1>10 DEF Next, Interrupt, Thread

LEMMA ArmedInvariant == Spec => []Armed
<1>1. TypeOK /\ Armed /\ [Next]_vars => Armed'
  BY ArmedStep
<1> QED
  BY <1>1, ArmedInit, TypeCorrect, PTL DEF Spec

\* No motor is armed without the brake resistor, whatever the interleaving of
\* low_level_fault and Motor::arm over any number of axes.
THEOREM BrakeInterlockHolds == Spec => []BrakeInterlock
<1>1. Armed => BrakeInterlock
  BY DEF Armed
<1> QED
  BY <1>1, ArmedInvariant, PTL

\* Motor::arm always starts from floating phases.
THEOREM ArmStartsFloatingHolds == Spec => []ArmStartsFloating
<1>1. Armed => ArmStartsFloating
  BY DEF Armed, ArmStartsFloating, Floating
<1> QED
  BY <1>1, ArmedInvariant, PTL

-----------------------------------------------------------------------------

LEMMA FreshInit == Init => Fresh
BY DEF Init, Fresh

LEMMA FreshStep == TypeOK /\ Fresh /\ [Next]_vars => Fresh'
<1> SUFFICES ASSUME TypeOK, Fresh, [Next]_vars PROVE Fresh'
  OBVIOUS
<1> USE DEF TypeOK, Fresh, pwm, timings, thread, hw, env, goto, Consume
<1>1. CASE UNCHANGED vars
  BY <1>1 DEF vars
<1>2. ASSUME NEW m \in Axis, signal_current_meas(m) PROVE Fresh'
  BY <1>2 DEF signal_current_meas
<1>3. ASSUME NEW m \in Axis, LoadTimings(m) PROVE Fresh'
  BY <1>3 DEF LoadTimings, TakeTimings
<1>4. ASSUME NEW m \in Axis, start_thread(m) PROVE Fresh'
  BY <1>4 DEF start_thread
<1>5. ASSUME NEW m \in Axis, Arm(m) PROVE Fresh'
  <2>1. CASE ArmWait(m) \/ ArmTimeout(m)
    BY <2>1 DEF ArmWait, ArmTimeout
  <2>2. CASE ArmClear(m)
    BY <2>2 DEF ArmClear
  <2>3. CASE ArmUnlock(m)
    BY <2>3 DEF ArmUnlock
  <2> QED
    BY <1>5, <2>1, <2>2, <2>3 DEF Arm
<1>6. ASSUME NEW m \in Axis, Loop(m) PROVE Fresh'
  <2>1. CASE LoopTimeout(m)
    BY <2>1 DEF LoopTimeout
  <2>2. CASE WriteTiming(m) \/ StartEnqueue(m)
    BY <2>2 DEF WriteTiming, StartEnqueue
  <2>3. CASE FinishEnqueue(m)
    BY <2>3 DEF FinishEnqueue
  <2>4. CASE SkipEnqueue(m) \/ LoopWait(m) \/ LeaveLoop(m)
    BY <2>4 DEF SkipEnqueue, LoopWait, LeaveLoop
  <2> QED
    BY <1>6, <2>1, <2>2, <2>3, <2>4 DEF Loop
<1>7. ASSUME NEW m \in Axis, Idle(m) PROVE Fresh'
  BY <1>7 DEF Idle, IdleFloat, IdleWait
<1>8. ASSUME NEW m \in Axis, set_error(m) PROVE Fresh'
  BY <1>8 DEF set_error
<1>9. ASSUME NEW m \in Axis, Brake(m) PROVE Fresh'
  BY <1>9 DEF Brake, UpdateBrake, BrakeFault, FaultMotor, FaultBrake
<1>10. CASE InterruptFault \/ AdcFails \/ StackOverflow
  BY <1>10 DEF InterruptFault, AdcFails, StackOverflow
<1> QED
  BY <1>1, <1>2, <1>3, <1>4, <1>5, <1>6, <1>7, <1>8, <1>9, <1>10 DEF Next, Interrupt, Thread

LEMMA FreshInvariant == Spec => []Fresh
<1>1. TypeOK /\ Fresh /\ [Next]_vars => Fresh'
  BY FreshStep
<1> QED
  BY <1>1, FreshInit, TypeCorrect, PTL DEF Spec

\* Only the load of an axis' own timings ends its sampling window.
LEMMA WindowEnds ==
    ASSUME TypeOK, [Next]_vars, NEW m \in Axis, sampled[m], ~sampled'[m]
    PROVE  LoadTimings(m)
<1> USE DEF TypeOK, pwm, timings, thread, hw, env
<1>1. ASSUME NEW k \in Axis, Interrupt(k) PROVE LoadTimings(m)
  <2>1. CASE signal_current_meas(k)
    BY <2>1 DEF signal_current_meas
  <2>2. CASE LoadTimings(k)
    <3>1. k = m
      BY <2>2 DEF LoadTimings
    <3> QED
      BY <2>2, <3>1
  <2> QED
    BY <1>1, <2>1, <2>2 DEF Interrupt
<1>2. ASSUME NEW k \in Axis, Thread(k) PROVE sampled' = sampled
  <2>1. CASE start_thread(k) \/ Arm(k)
    BY <2>1 DEF start_thread, Arm, ArmWait, ArmClear, ArmUnlock, ArmTimeout
  <2>2. CASE Loop(k)
    BY <2>2 DEF Loop, StartEnqueue, WriteTiming, FinishEnqueue, SkipEnqueue, LoopWait,
                LeaveLoop, LoopTimeout
  <2>3. CASE Idle(k) \/ set_error(k) \/ Brake(k)
    BY <2>3 DEF Idle, IdleFloat, IdleWait, set_error, Brake, UpdateBrake, BrakeFault,
                FaultMotor, FaultBrake
  <2> QED
    BY <1>2, <2>1, <2>2, <2>3 DEF Thread
<1>3. InterruptFault \/ AdcFails \/ StackOverflow => sampled' = sampled
  BY DEF InterruptFault, AdcFails, StackOverflow
<1>4. UNCHANGED vars => sampled' = sampled
  BY DEF vars
<1> QED
  BY <1>1, <1>2, <1>3, <1>4 DEF Next

\* The interrupt that finds no fresh timings floats the phases, whatever was
\* left in next_timings_ by earlier iterations or earlier armings.
THEOREM DeadlineHolds == Spec => DeadlineEnforced
<1>1. ASSUME TypeOK, Armed, Fresh, [Next]_vars,
             NEW m \in Axis, sampled[m], ~sampled'[m], ~fresh[m]
      PROVE  armed_state'[m] = "DISARMED" /\ ~moe'[m]
  <2>1. LoadTimings(m)
    BY <1>1, WindowEnds
  <2>2. ~next_timings_valid[m]
    BY <1>1 DEF Fresh
  <2> QED
    BY <1>1, <2>1, <2>2
       DEF LoadTimings, TypeOK, safety_critical_disarm_motor_pwm,
           safety_critical_disarm_brake_resistor
<1>2. TypeOK /\ Armed /\ Fresh /\ [Next]_vars
        => [\A m \in Axis : sampled[m] /\ ~sampled'[m] /\ ~fresh[m]
                => armed_state'[m] = "DISARMED" /\ ~moe'[m]]_vars
  BY <1>1
<1> QED
  BY <1>2, TypeCorrect, ArmedInvariant, FreshInvariant, PTL DEF Spec, DeadlineEnforced

-----------------------------------------------------------------------------

\* A step that leaves the outputs and the brake resistor alone is a stutter of
\* the abstract specification.
LEMMA PromiseStutters ==
    ASSUME UNCHANGED <<armed_state, moe, brake_resistor_armed>>
    PROVE  UNCHANGED Promise!vars
BY DEF Promise!vars

LEMMA PromiseFloats ==
    ASSUME TypeOK, NEW m \in Axis, safety_critical_disarm_motor_pwm(m),
           UNCHANGED brake_resistor_armed
    PROVE  Promise!Next
<1>1. {k \in Axis : armed_state'[k] # "DISARMED"}
        = {k \in Axis : armed_state[k] # "DISARMED"} \ {m}
  BY DEF TypeOK, safety_critical_disarm_motor_pwm
<1>2. {k \in Axis : moe'[k]} = {k \in Axis : moe[k]} \ {m}
  BY DEF TypeOK, safety_critical_disarm_motor_pwm
<1>3. Promise!Float(m)
  BY <1>1, <1>2 DEF Promise!Float
<1> QED
  BY <1>3 DEF Promise!Next

LEMMA PromiseTrips ==
    ASSUME safety_critical_disarm_brake_resistor
    PROVE  Promise!Next
<1>1. {k \in Axis : armed_state'[k] # "DISARMED"} = {} /\ {k \in Axis : moe'[k]} = {}
  BY DEF safety_critical_disarm_brake_resistor
<1>2. Promise!Trip
  BY <1>1 DEF Promise!Trip, safety_critical_disarm_brake_resistor
<1> QED
  BY <1>2 DEF Promise!Next

\* The load of a motor's timings: float, energize or stutter.
LEMMA PromiseLoads ==
    ASSUME TypeOK, Armed, NEW m \in Axis, safety_critical_apply_motor_pwm_timings(m),
           UNCHANGED brake_resistor_armed
    PROVE  Promise!Next \/ UNCHANGED Promise!vars
<1> USE DEF TypeOK, Armed, BrakeInterlock
<1>1. CASE ~brake_resistor_armed \/ armed_state[m] = "DISARMED"
  <2>1. safety_critical_disarm_motor_pwm(m)
    BY <1>1, AfterLoadDisarmed
       DEF safety_critical_apply_motor_pwm_timings, safety_critical_disarm_motor_pwm
  <2> QED
    BY <2>1, PromiseFloats
<1>2. CASE brake_resistor_armed /\ armed_state[m] # "DISARMED"
  <2>1. armed_state' = [armed_state EXCEPT ![m] = AfterLoad(armed_state[m])]
    BY <1>2 DEF safety_critical_apply_motor_pwm_timings
  <2>2. AfterLoad(armed_state[m]) # "DISARMED"
    BY <1>2 DEF AfterLoad, ArmedState
  <2>3. {k \in Axis : armed_state'[k] # "DISARMED"} = {k \in Axis : armed_state[k] # "DISARMED"}
    BY <1>2, <2>1, <2>2
  <2>4. CASE armed_state[m] = "WAITING_FOR_UPDATE"
    <3>1. moe' = [moe EXCEPT ![m] = TRUE]
      BY <1>2, <2>2, <2>4 DEF safety_critical_apply_motor_pwm_timings
    <3>2. {k \in Axis : moe'[k]} = {k \in Axis : moe[k]} \cup {m}
      BY <3>1
    <3>3. Promise!Energize(m)
      BY <1>2, <2>3, <3>2 DEF Promise!Energize
    <3> QED
      BY <3>3 DEF Promise!Next
  <2>5. CASE armed_state[m] # "WAITING_FOR_UPDATE"
    <3>1. moe' = [moe EXCEPT ![m] = moe[m]]
      BY <1>2, <2>2, <2>5 DEF safety_critical_apply_motor_pwm_timings
    <3>2. moe' = moe
      BY <3>1
    <3> QED
      BY <2>3, <3>2 DEF Promise!vars
  <2> QED
    BY <2>4, <2>5
<1> QED
  BY <1>1, <1>2

LEMMA PromiseStep == TypeOK /\ Armed /\ [Next]_vars => [Promise!Next]_(Promise!vars)
<1> SUFFICES ASSUME TypeOK, Armed, [Next]_vars
             PROVE  Promise!Next \/ UNCHANGED Promise!vars
  OBVIOUS
<1> USE DEF pwm, timings, thread, hw, env
<1>1. CASE UNCHANGED vars
  BY <1>1, PromiseStutters DEF vars
<1>2. ASSUME NEW m \in Axis, Interrupt(m) PROVE Promise!Next \/ UNCHANGED Promise!vars
  <2>1. CASE signal_current_meas(m)
    BY <2>1, PromiseStutters DEF signal_current_meas
  <2>2. CASE LoadTimings(m)
    BY <2>2, PromiseLoads, PromiseFloats, PromiseTrips DEF LoadTimings
  <2> QED
    BY <1>2, <2>1, <2>2 DEF Interrupt
<1>3. ASSUME NEW m \in Axis, Thread(m) PROVE Promise!Next \/ UNCHANGED Promise!vars
  <2>1. CASE ArmUnlock(m)
    <3>1. CASE ~brake_resistor_armed
      BY <2>1, <3>1, PromiseStutters DEF ArmUnlock, safety_critical_arm_motor_pwm
    <3>2. CASE brake_resistor_armed
      <4>1. armed_state[m] = "DISARMED"
        BY <2>1 DEF Armed, Floating, ArmUnlock
      <4>2. {k \in Axis : armed_state'[k] # "DISARMED"}
              = {k \in Axis : armed_state[k] # "DISARMED"} \cup {m}
        BY <2>1, <3>2 DEF ArmUnlock, safety_critical_arm_motor_pwm, TypeOK
      <4>3. Promise!Unlock(m)
        BY <2>1, <3>2, <4>1, <4>2 DEF Promise!Unlock, ArmUnlock
      <4> QED
        BY <4>3 DEF Promise!Next
    <3> QED
      BY <3>1, <3>2
  <2>2. CASE IdleFloat(m) \/ LoopTimeout(m) \/ set_error(m)
    BY <2>2, PromiseFloats DEF IdleFloat, LoopTimeout, set_error
  <2>3. CASE FaultMotor(m)
    <3>1. idx[m] \in Axis
      BY <2>3, AxisCountAssumption DEF FaultMotor, Axis, TypeOK
    <3> QED
      BY <2>3, <3>1, PromiseFloats DEF FaultMotor
  <2>4. CASE FaultBrake(m)
    BY <2>4, PromiseTrips DEF FaultBrake
  <2>5. CASE start_thread(m) \/ ArmWait(m) \/ ArmClear(m) \/ ArmTimeout(m) \/ IdleWait(m)
    BY <2>5, PromiseStutters DEF start_thread, ArmWait, ArmClear, ArmTimeout, IdleWait
  <2>6. CASE StartEnqueue(m) \/ WriteTiming(m) \/ FinishEnqueue(m) \/ SkipEnqueue(m)
    BY <2>6, PromiseStutters DEF StartEnqueue, WriteTiming, FinishEnqueue, SkipEnqueue
  <2>7. CASE LoopWait(m) \/ LeaveLoop(m) \/ UpdateBrake(m) \/ BrakeFault(m)
    BY <2>7, PromiseStutters DEF LoopWait, LeaveLoop, UpdateBrake, BrakeFault
  <2> QED
    BY <1>3, <2>1, <2>2, <2>3, <2>4, <2>5, <2>6, <2>7 DEF Thread, Arm, Loop, Idle, Brake
<1>4. CASE InterruptFault \/ StackOverflow
  BY <1>4, PromiseTrips DEF InterruptFault, StackOverflow
<1>5. CASE AdcFails
  BY <1>5, PromiseStutters DEF AdcFails
<1> QED
  BY <1>1, <1>2, <1>3, <1>4, <1>5 DEF Next

\* The whole arming sequence, with its interrupts, timeouts and faults, is an
\* implementation of PwmInterlock, for every number of axes.
THEOREM ImplementsInterlock == Spec => InterlockSpec
<1>1. Init => Promise!Init
  BY DEF Init, Promise!Init
<1>2. TypeOK /\ Armed /\ [Next]_vars => [Promise!Next]_(Promise!vars)
  BY PromiseStep
<1> QED
  BY <1>1, <1>2, TypeCorrect, ArmedInvariant, PTL DEF Spec, InterlockSpec, Promise!Spec

-----------------------------------------------------------------------------

LEMMA PromptInit == Init => Prompt
BY DEF Init, Prompt, Whole, Paced, Entering, Driven, Uniform

\* The loads: what reaches the compare registers of an armed motor is whole.
LEMMA PromptLoads ==
    ASSUME ArmIsPrompt, TypeOK, Prompt, NEW m \in Axis, LoadTimings(m)
    PROVE  Prompt'
<1> USE DEF TypeOK, thread, env
<1>1. /\ UNCHANGED <<next_timings, pc, ret, idx, done, adc_alive>>
      /\ sampled' = [sampled EXCEPT ![m] = FALSE]
      /\ next_timings_valid' = [next_timings_valid EXCEPT ![m] = FALSE]
      /\ ccr' = IF next_timings_valid[m] THEN [ccr EXCEPT ![m] = next_timings[m]] ELSE ccr
  BY DEF LoadTimings, TakeTimings
<1>2. pc[m] \notin {"clear", "unlock"} /\ ~(pc[m] = "arm" /\ done[m])
  BY DEF LoadTimings, InterruptAllowed
<1>3. ASSUME NEW k \in Axis PROVE armed_state'[k] # "DISARMED"
          => armed_state[k] # "DISARMED" /\ (k # m => armed_state'[k] = armed_state[k])
                                         /\ (k = m => next_timings_valid[m])
  <2>1. CASE safety_critical_disarm_brake_resistor
    BY <2>1 DEF safety_critical_disarm_brake_resistor
  <2>2. CASE safety_critical_disarm_motor_pwm(m)
    BY <2>2 DEF safety_critical_disarm_motor_pwm
  <2>3. CASE next_timings_valid[m] /\ safety_critical_apply_motor_pwm_timings(m)
    BY <2>3, AfterLoadDisarmed DEF safety_critical_apply_motor_pwm_timings
  <2> QED
    BY <2>1, <2>2, <2>3 DEF LoadTimings
<1>4. ASSUME NEW k \in Axis PROVE Whole(k)' /\ Entering(k)'
  BY <1>1, <1>2 DEF Prompt, Whole, Entering, Uniform
<1>5. ASSUME NEW k \in Axis PROVE Paced(k)'
  <2>1. Paced(k)
    BY DEF Prompt
  <2>2. CASE k # m
    BY <1>1, <1>3, <2>1, <2>2 DEF Paced
  <2>3. CASE k = m
    BY <1>1, <1>3, <2>1, <2>3 DEF Paced
  <2> QED
    BY <2>2, <2>3
<1>6. ASSUME NEW k \in Axis PROVE Driven(k)'
  <2>1. Driven(k) /\ Paced(k) /\ Whole(k)
    BY DEF Prompt
  <2>2. SUFFICES ASSUME armed_state'[k] \in {"WAITING_FOR_UPDATE", "ARMED"}
                 PROVE  Uniform(ccr[k])'
    BY DEF Driven
  <2>3. CASE k # m
    <3>1. ccr'[k] = ccr[k] /\ armed_state'[k] = armed_state[k]
      BY <1>1, <1>3, <2>2, <2>3
    <3> QED
      BY <2>1, <2>2, <3>1 DEF Driven, Uniform
  <2>4. CASE k = m
    <3>1. next_timings_valid[m] /\ armed_state[m] # "DISARMED"
      BY <1>3, <2>2, <2>4
    <3>2. Uniform(next_timings[m])
      BY <2>1, <2>4, <3>1 DEF Paced, Whole
    <3>3. ccr'[k] = next_timings[m]
      BY <1>1, <2>4, <3>1
    <3> QED
      BY <3>2, <3>3 DEF Uniform
  <2> QED
    BY <2>3, <2>4
<1> QED
  BY <1>4, <1>5, <1>6 DEF Prompt

LEMMA PromptStep ==
    ASSUME ArmIsPrompt, TypeOK, Armed, Prompt, [Next]_vars
    PROVE  Prompt'
<1> USE DEF TypeOK, Prompt, Whole, Paced, Entering, Driven, Uniform,
            pwm, timings, thread, hw, env, goto, Consume
<1>1. CASE UNCHANGED vars
  BY <1>1 DEF vars
<1>2. ASSUME NEW m \in Axis, signal_current_meas(m) PROVE Prompt'
  BY <1>2 DEF signal_current_meas, InterruptAllowed
<1>3. ASSUME NEW m \in Axis, LoadTimings(m) PROVE Prompt'
  BY <1>3, PromptLoads
<1>4. ASSUME NEW m \in Axis, start_thread(m) PROVE Prompt'
  BY <1>4 DEF start_thread
<1>5. ASSUME NEW m \in Axis, Arm(m) PROVE Prompt'
  <2>1. CASE ArmWait(m) \/ ArmTimeout(m)
    BY <2>1 DEF ArmWait, ArmTimeout, Armed, Floating
  <2>2. CASE ArmClear(m)
    BY <2>2 DEF ArmClear
  <2>3. CASE ArmUnlock(m)
    BY <2>3 DEF ArmUnlock, safety_critical_arm_motor_pwm, Armed, Floating
  <2> QED
    BY <1>5, <2>1, <2>2, <2>3 DEF Arm
<1>6. ASSUME NEW m \in Axis, Loop(m) PROVE Prompt'
  <2>1. CASE LoopTimeout(m)
    BY <2>1 DEF LoopTimeout, safety_critical_disarm_motor_pwm
  <2>2. CASE StartEnqueue(m)
    BY <2>2 DEF StartEnqueue, Word
  <2>3. CASE WriteTiming(m)
    <3>1. /\ idx[m] \in Nat /\ idx[m] + 1 \in Word
          /\ \A v \in Word : v \in Nat
      BY <2>3, WordsAssumption, AxisCountAssumption DEF WriteTiming, Word
    <3>2. ASSUME NEW v \in Word
          PROVE  next_timings'[m][v] = (IF v = idx[m] + 1 THEN ~next_timings[m][v]
                                                          ELSE next_timings[m][v])
      BY <2>3, <3>1 DEF WriteTiming
    <3>3. ASSUME NEW v \in Word
          PROVE  v <= idx'[m] <=> v <= idx[m] \/ v = idx[m] + 1
      BY <2>3, <3>1 DEF WriteTiming
    <3>4. ASSUME NEW v \in Word, NEW w \in Word
          PROVE  (next_timings'[m][v] = next_timings'[m][w])
                     <=> (v <= idx'[m] <=> w <= idx'[m])
      <4>1. (next_timings[m][v] = next_timings[m][w]) <=> (v <= idx[m] <=> w <= idx[m])
        BY <2>3 DEF WriteTiming
      <4>2. ~(idx[m] + 1 <= idx[m])
        BY <3>1
      <4>3. next_timings[m][v] \in BOOLEAN /\ next_timings[m][w] \in BOOLEAN
        OBVIOUS
      <4> QED
        BY <3>1, <3>2, <3>3, <4>1, <4>2, <4>3
    <3>5. ASSUME NEW k \in Axis PROVE Whole(k)'
      <4>1. CASE k = m
        BY <2>3, <3>4, <4>1 DEF WriteTiming
      <4>2. CASE k # m
        BY <2>3, <4>2 DEF WriteTiming
      <4> QED
        BY <4>1, <4>2
    <3>6. ASSUME NEW k \in Axis PROVE Paced(k)' /\ Entering(k)' /\ Driven(k)'
      BY <2>3 DEF WriteTiming
    <3> QED
      BY <3>5, <3>6
  <2>4. CASE FinishEnqueue(m)
    BY <2>4, WordsAssumption DEF FinishEnqueue, Word
  <2>5. CASE SkipEnqueue(m) \/ LeaveLoop(m)
    BY <2>5 DEF SkipEnqueue, LeaveLoop
  <2>6. CASE LoopWait(m)
    BY <2>6 DEF LoopWait
  <2> QED
    BY <1>6, <2>1, <2>2, <2>3, <2>4, <2>5, <2>6 DEF Loop
<1>7. ASSUME NEW m \in Axis, Idle(m) PROVE Prompt'
  <2>1. CASE IdleFloat(m)
    BY <2>1 DEF IdleFloat, safety_critical_disarm_motor_pwm
  <2>2. CASE IdleWait(m)
    <3>1. PICK l \in {"idle", "arm"} : goto(m, l)
      BY <2>2 DEF IdleWait
    <3>2. CASE l = "idle"
      BY <2>2, <3>1, <3>2 DEF IdleWait
    <3>3. CASE l = "arm"
      BY <2>2, <3>1, <3>3 DEF IdleWait
    <3> QED
      BY <3>1, <3>2, <3>3
  <2> QED
    BY <1>7, <2>1, <2>2 DEF Idle
<1>8. ASSUME NEW m \in Axis, set_error(m) PROVE Prompt'
  BY <1>8 DEF set_error, safety_critical_disarm_motor_pwm
<1>9. ASSUME NEW m \in Axis, Brake(m) PROVE Prompt'
  <2> DEFINE Returns == {"idle", "arm", "wait", "float"}
  <2>r. ret[m] \in Returns
    OBVIOUS
  <2>1. CASE UpdateBrake(m)
    <3>1. armed_state[m] = "DISARMED" /\ UNCHANGED armed_state
      BY <2>1 DEF UpdateBrake, Armed, Floating
    <3>2. /\ pc[m] = "brake" /\ pc' = [pc EXCEPT ![m] = ret[m]]
          /\ UNCHANGED <<timings, ret, idx, hw, env>>
      BY <2>1 DEF UpdateBrake
    <3> QED
      BY <2>r, <3>1, <3>2
  <2>2. CASE BrakeFault(m)
    BY <2>2 DEF BrakeFault
  <2>3. CASE FaultMotor(m)
    BY <2>3 DEF FaultMotor, safety_critical_disarm_motor_pwm
  <2>4. CASE FaultBrake(m)
    <3>1. armed_state' = [k \in Axis |-> "DISARMED"]
      BY <2>4 DEF FaultBrake, safety_critical_disarm_brake_resistor
    <3>2. /\ pc[m] = "fault" /\ pc' = [pc EXCEPT ![m] = ret[m]]
          /\ idx' = [idx EXCEPT ![m] = 0]
          /\ UNCHANGED <<timings, ret, hw, env>>
      BY <2>4 DEF FaultBrake
    <3> QED
      BY <2>r, <3>1, <3>2
  <2> QED
    BY <1>9, <2>1, <2>2, <2>3, <2>4 DEF Brake
<1>10. CASE InterruptFault \/ AdcFails \/ StackOverflow
  BY <1>10 DEF InterruptFault, AdcFails, StackOverflow, safety_critical_disarm_brake_resistor
<1> QED
  BY <1>1, <1>2, <1>3, <1>4, <1>5, <1>6, <1>7, <1>8, <1>9, <1>10 DEF Next, Interrupt, Thread

\* A live output carries timings of one enqueue_modulation_timings call, for
\* every number of words, provided Motor::arm resumes promptly.
THEOREM NoTornTimingsHolds == ArmIsPrompt => (Spec => []NoTornTimings)
<1> SUFFICES ASSUME ArmIsPrompt PROVE Spec => []NoTornTimings
  OBVIOUS
<1>1. TypeOK /\ Armed /\ Prompt /\ [Next]_vars => Prompt'
  BY PromptStep
<1>2. Armed /\ Prompt => NoTornTimings
  BY DEF Armed, BrakeInterlock, Prompt, Driven, NoTornTimings
<1> QED
  BY <1>1, <1>2, PromptInit, TypeCorrect, ArmedInvariant, PTL DEF Spec
=============================================================================
