# A verification project for the WODrive firmware

WODrive is a port of the ODrive motor controller firmware to RT-Thread: two
motor axes on an STM32F405, each with a control thread that runs in lock step
with current measurements at 8 kHz, configured and commanded over USB, UART,
I2C and CAN. This directory holds TLA+ models of the parts of it in which
threads, interrupts, resets and failures interact, the TLC configurations that
check them on small instances, and TLAPS proofs about them for every instance.

Paths below are relative to `src/firmware/src/`.

## The system: inventory

| Component | State it keeps | Operations | Hard behaviour | What makes it correct |
|---|---|---|---|---|
| PWM arming, `MotorControl/low_level.cpp` | per motor `armed_state_`, main output enable and compare registers of its timer; `brake_resistor_armed` | arm, disarm, apply timings, brake resistor duty, `low_level_fault`; called from threads and from interrupts | control threads, ADC interrupts and faults interleave; loaded timings are buffered for one period | no live phase without the brake resistor; a missed deadline floats the phases; nothing rearms on its own |
| Motor, `motor.cpp` | `next_timings_` and its valid flag, calibration results, errors | `arm`, `set_error`, enqueue, R and L calibration | written by the thread while the interrupt reads | no torn set of timings reaches a live output |
| Axis, `axis.cpp`, `axis.hpp` | `requested_state_`, `task_chain_`, `error_`, watchdog, homing | nine tasks, each a sequence of `run_control_loop` calls | requests, cleared errors, floats and faults between any two steps of a task | only requested tasks run, every request is served, a fault or a silent host ends in idle, an aborted calibration does not count |
| Encoder, `encoder.cpp` | counts, `is_ready_`, `index_found_`, index interrupt subscription, SPI transaction | index search, direction find, offset calibration, update | index and SPI interrupts | ready only with a calibrated offset |
| Configuration store, `nvm.c`, `nvm_config.hpp` | two flash sectors with allocation tables, indices in RAM | start write, write, commit, read, erase | resets and failures between flash operations; sectors fill up | atomic and durable saves |
| Controller and planner, `controller.cpp`, `trapTraj.cpp` | setpoints, `input_pos_` and its flag, trajectory, anticogging map | update, move, anticogging steps, reset when arming | `input_pos_` is written by step interrupts, host threads and the control thread itself; closed loop control may be entered again without arming | entered from rest, closed loop control moves nothing by itself; the setpoint ends at the input; only a complete map is used |
| Endstops, `endstop.cpp` | pin state, debounce timer | update | bouncing input (the timer's timeout stays 0, so nothing is debounced) | a press is seen |
| CAN, `interface_can.cpp`, `can_simple.cpp` | driver state and error code, transmit mailboxes, receive FIFO, node ids | server thread, `write` from several threads, heartbeats, baud rate changes | mailboxes are shared without a lock; errors are latched; the driver may time out | frames carry what their id says; received messages are handled; the bus does not fall silent |
| fibre, `fibre/` | sequence numbers, expected acknowledgements, responses | remote operations with retries, receiver thread, request handler | loss, repetition, several host threads | an answer belongs to its request, a call ends if the transport's writes do, an old write does not come after a new one |
| Transports and ASCII protocol, `communication/` | buffers | receive, parse, reply | DMA wrap-around | I/O, mostly out of scope |
| Boot, `main.cpp` | loaded configuration | load, start the threads, stack overflow hook | order of start-up | |
| Estimator, thermistors, DRV8301, HMI, numeric helpers | filters, registers, a display | | arithmetic and I/O | |
| RT-Thread, HAL, CMSIS | | | | third party; assumptions only |

How they interact: the timers trigger the ADCs; the ADC interrupt
(`pwm_trig_adc_cb`) stores the currents of one axis, loads the timings of the
other, floats that other motor if it finds none, updates the brake resistor and
completes `thread_id_done` of the measured axis. The axis' thread wakes in
`wait_for_current_meas`, checks for errors, updates the estimators and the
watchdog, runs the update handler of its task, which enqueues the next timings,
and waits again. Host threads of lower priority write `requested_state_`, clear
errors, feed the watchdog and save the configuration.

`PROJECT.json` lists the hazards of this code with the line where each bites and
the property, if any, that watches it.

## Modules

### PwmInterlock: what the safety critical functions promise

Abstract specification with three variables: the motors that are unlocked,
those that are energized, and whether the brake resistor is armed. A motor is
energized only after it was unlocked in an earlier step, any motor can be
floated at any time, and disarming the brake resistor floats all of them in the
same step, for good.

### MotorArming: how PWM outputs are armed, driven and floated

`low_level.cpp`, `Motor::arm`, `Motor::enqueue_modulation_timings`,
`Motor::set_error` and the skeleton of `Axis::run_control_loop`.

* A critical section is one operator named like the function; an interrupt is
  one action (`signal_current_meas`, `LoadTimings`, `InterruptFault`), since it
  preempts threads and runs to completion.
* The control thread of an axis has a program counter, `pc`, with a step for
  every access to shared state: the wait, the clearing of the valid flag and the
  unlocking in `Motor::arm`; each word and the flag in
  `enqueue_modulation_timings`; the brake update; and each critical section of
  `low_level_fault` when it runs in a thread.
* `done` is the RT-Thread completion: one flag, set again while nobody waits,
  consumed by the next wait.
* `sampled` orders the two interrupts of an axis as the timers do.
* The arithmetic of `update_brake_current` is its outcome: any duty cycle, or a
  fault. The environment may stop the ADC (`AdcFails`) or overflow a stack
  (`StackOverflow`, `usr_contex_scheduler_hook`).
* Thread priorities are left out: all interleavings, a superset.
* `next_timings` and `ccr` hold one Boolean tag per word, which every enqueue
  flips, so two consecutive sets differ in every word.

### AxisStateMachine: the tasks of an axis

`Axis::run_state_machine_loop`, all its tasks, `run_control_loop`, `do_checks`,
the watchdog, and the parts of `motor.cpp` and `encoder.cpp` that the tasks are.

* `task_chain` is the array of ten, with what earlier requests left in it;
  `current_state` is its first element, as in the code.
* `pc` and `phase` say where the thread is: at the top of the state machine, in
  the dispatch, in a loop, waiting for a measurement, or leaving a loop.
  `phase` names the `run_control_loop` call (ramp, lock, forward, seek, ...).
* What an update handler computes is open: it goes on, is done, or fails.
  `ran` and `whole` record whether the loops ran to their end; properties
  use them, the code has no such state.
* The host acts only while the thread waits, because the thread has the highest
  priority; interrupts act any time. Errors are four flags: the two that the
  code clears or that are tested by name here, and `MOTOR_DISARMED`; the others
  are `FAULT`.
* Restrictions: a high current motor and an incremental encoder; the
  configuration does not change after boot (except `use_index` and the
  motor's direction, which tasks write).
* `AxisStateMachine_MC` holds two boot configurations.

### Nvm: saving the configuration

`nvm.c` with the order of calls of `nvm_config.hpp` and of `save_configuration`
and `erase_configuration`.

* A sector is an allocation table and data, field by field. `Lower` is what
  programming can do to a state, `Overwrite` what it does to data.
* Each field that is programmed is a step, and so is each change of the RAM
  indices between two flash operations, so a reset may come anywhere and reads
  back what it finds (`NVM_init`, then the CRC check of `safe_load_config`). The
  HAL programs four states of the table with one byte; the model's step is
  finer.
* A configuration is the number of its save; the CRC accepts a block exactly if
  all its fields belong to one save.
* `latest` is the history of what was committed. A reset that cuts a save
  between the first VALID mark and the end of the commit may make it happen or
  not, and `latest` follows.
* One thread saves at a time.
* The branch of `NVM_commit` that erases the old sector cannot be reached: the
  range check of `set_allocation_state` never lets a commit fill a sector
  (theorem `NeverFull`).

### Controller: the position input of an axis

`Controller::update`, `move_incremental`, `set_input_pos`, the anticogging
calibration, the entry of `run_closed_loop_control_loop` and `Axis::step_cb`, in
position control.

* `pc` has a step for every access of the control thread to `input_pos_` and
  `input_pos_updated_`, because the step interrupt comes between any two: reading
  and storing the wrapped input, planning and clearing the flag.
* A host thread writes the input and then the flag (`host` says where it is);
  it runs only while the control thread waits.
* Closed loop control is entered from `armed`: after `Motor::arm`, which resets
  the setpoints (`Arm`, `EndArming`), or after a task that a request ended
  (`EndTask`), closed loop control itself included. Then the motor is still
  armed, `arm` does not run, and `vel_setpoint` is what the last period left.
* Positions are whole numbers and a speed is a direction: a trajectory moves one
  position per period and takes one position to stop. `Plan` is given the
  setpoint, its speed and the input, as `move_to_pos` is. A goal that is not
  ahead by the stopping distance is passed: `Turn` is where the trajectory
  stops, `Ta` and `Tf` when it is there and at the goal, and `Eval` and
  `EvalSpeed` are position and speed in between. The profile's acceleration and
  cruise phases are not told apart.
* `start`, `from_rest` and `moved` are history variables: the estimate at which
  closed loop control was entered, whether it was with no speed left in the
  setpoint and no feed-forward commanded, and whether there was an input since.
* Left out: torques, the input modes that filter, integrate or mirror, homing and
  sensorless control, and a cogging map restored from the configuration.

### CanBus: mailboxes, server thread and driver errors

`interface_can.cpp`, the dispatch of `can_simple.cpp` and the functions of the
HAL's CAN driver that they call.

* A writer is a thread in `write()`: the server or an axis sending a heartbeat,
  numbered by priority. It tests the error code, counts the free mailboxes,
  chooses one, and writes id, data and the request, each a step (`step`, `box`).
  It runs only while no writer of higher priority is in `write()`.
* `txid` and `txdata` say whose id and data are in a mailbox; its registers
  cannot be written while a transmission is requested.
* `state` and `ErrorCode` are the driver's. Leaving and entering initialization
  may time out. The interrupts of the peripheral are not enabled in the
  interrupt controller, so its error and receive callbacks never run.
* The receive FIFO keeps its oldest messages; a message that finds it full
  replaces the newest.
* `handle_can_message` finds the addressed axis (none when ids are duplicate),
  sets node ids and answers remote requests.

### RemoteCall and FibreChannel: remote operations

`RemoteCall` says what a call of `remote_endpoint_operation` means to the thread
that makes it: its operation may be executed any number of times, also after
the call has failed, but never again once a later one of the same thread was;
a call that returns an answer was executed and nothing later was.

`FibreChannel` is the code: the sequence number with its hardwired bit, the
dictionaries `_expected_acks` and `_responses`, retries, the receiver thread in
two steps (finding the event, delivering the response), and the device's
`process_packet`, which executes whatever it gets. A thread takes the channel's
lock (`Lock`, or at once for an operation without answer) and holds it while it
writes (`Locked`: somebody that expects an answer is in `write`). `Write` is the
return of the transport's write, which may succeed, fail, or find the channel
broken; it may also never come, because `usbbulk_transport.py` writes without a
timeout. The link keeps packets in order and may lose any of them; a write may
fail after the packet has left.
`RemoteCalls` is the refinement mapping: `number`, `status` and `executed` are
history variables of the same names.

## Runs

| Run | Instance and bounds | Shows |
|---|---|---|
| `ArmingInterlock` | 2 axes, no timing words, free interrupts, 1.2 million states | `TypeOK`, `BrakeInterlock`, `ArmStartsFloating`, `DeadlineEnforced`, and the refinement `InterlockSpec` |
| `ArmingOneAxis` | 1 axis, 3 words, prompt `arm`, fair, 4,208 states | `NoTornTimings`, `DeadManSwitch`, `LostInterruptFloats` |
| `AxisTasks` | 2 boot configurations, 4 requests, watchdog of 1 iteration, fair thread, deadlock checked | `TypeOK`, `OnlyAskedTasks`, `FloatNoticed`, `RequestServed`, `HostSilenceIdles` |
| `NvmSave` | sectors of 6 fields, blocks of 2, 4 saves or erases, 2 resets, 1 failing operation | `TypeOK`, `WholeBlocks`, `SettledReadsLatest`, `ReadSideUntouched` |
| `ControllerInput` | positions -1..1, circular range 2, map of 2 entries, feed-forward of 0 or 1, 2 inputs, fair, deadlock checked, 2.4 million states | `TypeOK`, `NoTransientFromRest`, `SettledAtInput`, `MapComplete`, `SetpointFollows` |
| `CanBus` | server and 2 axes, 1 mailbox, FIFO of 1, 2 node ids, 1 baud rate change, fair, deadlock checked, 286 thousand states | `TypeOK`, `IdOutranksData`, `DuplicatesStay`, `HighestNeverLatches`, `MessagesRead` |
| `FibreChannel` | 2 threads with 2 calls, 2 attempts, 4 numbers in use, links of 2 packets, fair, 1.0 million states | `TypeOK`, `AnswersMatch`, `EveryCallEnds`, and the refinement `RemoteCallSpec` |
| `AbortedScan` | as `AxisTasks` | an offset calibration aborted in its last scan makes the encoder ready |
| `HomingAborted` | as `AxisTasks` | homing takes any end of its search for the endstop |
| `NvmStaleBlock` | sectors of 8 fields, 3 saves, 2 resets | an older block than the last committed one is read |
| `CanFrames` | server and 1 axis, 3 mailboxes | a heartbeat goes out with the server's data |
| `FibreAnswers` | as `FibreChannel`, 2 numbers in a row | a call returns the answer to another one |

The last five are expected violations: each checks one sentence of the
repository's own text; the counterexample is the finding listed in
`PROJECT.json`.

One more sentence of the code is not true in general, "To avoid any transient on
startup, we intialize the setpoint to be the current position" (`axis.cpp:324`). A
request for closed loop control during a trajectory ends the loop and enters it
again without `Motor::arm`, so `vel_setpoint_` is still the trajectory's; the one
that `move_to_pos` plans on entry begins with it and leads away from the position
without an input. The model has these steps; `NoTransientFromRest` states what
remains true, for entries from rest, and TLC finds this trace without `from_rest`.

Why the bounds are enough. Two axes are all the board has, and the thread level
`low_level_fault` needs the second one to show a motor being armed half way
through it. Three words are what the code writes; `ArmIsPrompt` removes only
interrupts that find the motor disarmed, so it hides nothing from the liveness
properties checked with it. One iteration of watchdog suffices because the
handlers' durations are open. `FULL_CALIBRATION_SEQUENCE`,
`ENCODER_DIR_FIND`, `CLOSED_LOOP_CONTROL` and no request, with the two startup
sequences, reach every task except the lock-in spin as a state of its own, which
shares all of its code with the direction find. Six fields hold two blocks and
one retired field, so saves append, fill a sector, hit its last field and erase
it; four saves with two resets reach every order of those. Two inputs are one
that starts a trajectory or a calibration and one that comes while it is
planned, wrapped or finished, with any number of re-armings and re-entries in
between (and the invariants are proved for every number); the three positions
allow a move of two, which has a speed half way, and a circular range of two
makes some of them need wrapping. One
mailbox makes every writer collide with every other, and the violation run shows
that three mailboxes do not help. Two calls of two threads are an operation
that is still repeated while its thread makes the next one and another thread
uses the numbers in between; four numbers are enough that none is used twice,
and two that one is. In the code the numbers repeat after 128 operations. The two
threads contend for the lock, and the second attempt comes back to it.

The models stop where a bound says so: `CHECK_DEADLOCK FALSE` in the `Nvm` runs
(all saves made), in the fibre runs (all calls made) and in the `MotorArming`
runs (`halted`: the stack overflow hook hangs with interrupts disabled, as the
code does).

## Fairness

* `MotorArming!FairSpec`: weak fairness of the two interrupts of each axis while
  the ADC converts; free running timers trigger them. Nothing is assumed of the
  threads; `LostInterruptFloats` assumes, in its own statement, that a thread that
  can run does, because it states what a healthy thread does about dead
  interrupts.
* `AxisStateMachine!FairSpec`: weak fairness of the thread as a whole. It has
  the highest priority (`odrive_main.h`), and each of its waits ends with a
  measurement or with the timeout of `wait_for_current_meas`. A single handler
  may run for ever; no property needs it to end.
* `Controller!FairSpec`: weak fairness of the control thread, as above, and
  strong fairness of the host's second write: it runs only while the control
  thread waits, which happens in every period. Nothing makes the host begin.
* `CanBus!FairSpec`: strong fairness of the server and of an axis inside
  `write()`. Threads of higher priority wait for a measurement in every period, so
  the others run again and again. Bus, host and heartbeats owe nothing.
* `FibreChannel!FairSpec`: weak fairness of each host thread inside a call, except
  in the transport's write (`Proceed`). Waiting for an answer has a timeout.
  Waiting for the lock has none, but there are finitely many calls and attempts,
  so the lock is free for good once the others have ended, if writes return.
  That they do is the hypothesis of `EveryCallEnds`, not an assumption of the
  specification: the code does not guarantee it. The receiver thread, the link and
  the device owe nothing.

## Proofs

`MotorArming_proofs` proves, for every number of axes and of timing words
(assumptions `AxisCountAssumption`, `WordsAssumption`, `ArmIsPromptAssumption`):

* `TypeCorrect`: `Spec => []TypeOK`. Inductive as it stands.
* `BrakeInterlockHolds`: inductive together with the type invariant. It holds
  although `low_level_fault` is not atomic in a thread, because disarming the
  brake resistor disarms all motors again in one critical section.
* `ArmStartsFloatingHolds`: needs a stronger invariant (`Armed`), because
  `update_brake_current` is called with a saved return point: what `idle` and
  `arm` find depends on the thread that comes back from `brake` or `fault`. The
  invariant adds these two to the points where the motor must be disarmed.
* `DeadlineHolds`: an action property. Its invariant (`Fresh`) says that timings
  marked valid are `fresh`, and that none are valid when the motor is unlocked,
  since `Motor::arm` cleared the mark before.
* `ImplementsInterlock`: every step of `Spec` is a step of `PwmInterlock` or
  leaves its variables alone, under `BrakeInterlock` and the type invariant.
* `NoTornTimingsHolds`: `ArmIsPrompt => (Spec => []NoTornTimings)`. The
  inductive invariant, `Prompt`, says that timings marked valid are whole, that
  a thread that writes them has consumed the measurement of the current period,
  so the interrupt that loads them is still ahead (pacing), and how the thread
  is synchronized when it enters and while it drives. Without `ArmIsPrompt` it
  is false, and TLC shows it: an unlocking delayed past the next interrupt leaves
  a completion behind, and the thread then runs a period ahead.

`CanBus_proofs` proves, for every number of axes, mailboxes, FIFO entries and
node ids (assumptions `AxisCountAssumption`, `MailboxAssumption`,
`FifoAssumption`, `NodeIdAssumption`, `ReinitAssumption`):

* `TypeCorrect`, from a type invariant in four parts (writers, driver, queue,
  rest), so that each action disturbs few of them.
* `IdOutranksDataHolds`. The invariant, `FrameInv`, follows a writer through its
  mailbox: from its id on, the id there belongs to it or to a thread of higher
  priority; when it is about to request transmission, the data does not outrank
  the id, unless a thread that has preempted it is between its own id and data.
* `HighestNeverLatchesHolds`. The invariant, `FreeInv`: between counting and
  choosing, the highest writer has a free mailbox and a running driver, because
  no other thread runs and the bus only frees mailboxes.
* `DuplicatesStayHolds`, from the type invariant: the only assignment to a node
  id needs an axis addressed alone.

`Controller_proofs` proves, for every range of positions, circular range, map
size, number of inputs and set of feed-forward speeds (the five assumptions of
`Controller`):

* `TypeCorrect`: inductive as it stands.
* `NoTransientFromRestHolds`. The invariant, `StartInv`: after an entry from rest
  and until there is an input, setpoint, input and what was latched of it are the
  estimate, both speeds are zero, the estimate is within the circular range, and a
  trajectory that is not done is either about to be replaced (the flag is set) or
  goes from the estimate to itself without speed. The lemma `RestStays` says that
  such a trajectory stays where it is. Without `from_rest` the statement is false:
  only `Motor::arm` resets the speed, and a request that comes during closed loop
  control enters it without arming.
* `MapCompleteHolds`. `MapInv`: the entries below the index are measured.
* `SettledAtInputHolds`. `SettledInv`: while nobody has announced an input and no
  trajectory runs, setpoint and input agree at every step of `update`, with the
  range of circular setpoints, which makes wrapping them again the identity.

`AxisStateMachine_proofs` proves, for every set of boot configurations, every set
of requests and every watchdog time (assumptions `ConfigsAssumption`,
`RequestsAssumption`, `WatchdogAssumption`):

* `ChainFits`: a request stands for at most six tasks, whatever the configuration,
  so its chain and terminator fit into `task_chain_`; the code says "TODO: bounds
  checking" there.
* `TypeCorrect`: inductive as it stands; loading a request needs `ChainFits`.
* `OnlyAskedTasksHolds`. The invariant says where the chain ends: before its first
  terminator there are only tasks of the last request and idle (`Terminated`),
  while the array behind it may hold anything. Advancing keeps this only from a
  task, never from the terminator itself, so the second part (`TaskRuns`) says
  that the thread is inside a task only when the chain begins with one. Every
  action keeps, advances, drops or loads the chain (`ChainStep`), and the
  invariant is shown once for each of the four.

`FibreChannel_proofs` proves, for every set of host threads, number of calls and
attempts, range of sequence numbers and capacity of the link (assumptions
`CallsAssumption`, `AttemptsAssumption`, `SeqAssumption`, `CapacityAssumption`):

* `TypeCorrect`: needs the types of the packets under way (`LinkTypes`), and that
  the hardwired bit leaves a sequence number (`SeqAssumption`: the numbers are
  whole pairs of blocks of `HardBit`).
* `ExecutedInOrder`: what is executed, what is under way and what is asked for of
  one thread are in the order of its calls (`InOrder`), and there are responses
  only to what was executed (`Answered`). It holds for any number of calls.
* `OneCallPerNumber`, `AnswersMatchHolds` and `ImplementsRemoteCall` have the
  hypothesis `FewCalls`: there are at most `HardBit` calls in all. After
  that many the hardwired bit makes two calls share a number, and nothing in
  `protocol.py` tells a late response to the first from one to the second;
  without the hypothesis a call may return the answer to another one, as the run
  `FibreAnswers` shows, and `RemoteCallSpec` is false on the same instance. The
  invariant `OneUser`: the counter is the number of
  calls begun, every number in use, of an open call, of a packet or of a response
  that is left, is the tag of one of them, and no two calls use the same. The
  tags of the first `HardBit` calls differ (`TagInjective`). An answer is then
  to the call that takes it, and was executed (`Answered`), but nothing later
  (`InOrder`): the three conditions of `RemoteCall`.

`Nvm_proofs` proves, for every size of a sector and of a configuration and any
number of saves, erases, resets and failures (assumptions `SizeAssumption`,
`BoundAssumption`):

* `TypeCorrect`: with what the variables in RAM say of each other (`Ranges`):
  during a save its block fits behind the write sector's index.
* `ReadSideHolds`, an action property: a save works on the write sector only.
* `WholeBlocksHolds`, from two invariants. `Table`: behind the index of a sector
  nothing is programmed but the block of one save, which is begun again at the
  same place; this survives a reset because `NVM_init` finds the index by
  scanning down from the end. `Contents`, as long as no save failed after it had
  begun to write: every run of valid fields begins with a whole block, and the
  block that is being saved is complete before its first field is marked. So a
  reset in the middle of the marking leaves a run that ends before an invalid
  field, which the scan does not take for the latest block.
* `SettledReadsLatestHolds`, from the invariant `Settled`, which holds as long as
  every commit has also retired the old block: the read sector ends with the
  latest block, and in the other one every valid field has an invalid one behind
  it (`Quiet`), so `NVM_init` cannot take it for the sector to read. Without
  that condition reading the latest block is false, as `NvmStaleBlock` shows.
  During an erase of everything the flash holds the configuration or nothing
  (`SettledFlash`), and a reset finds one of the two (`BootSettled`).
* `NeverFull`: the last field of a sector is never programmed, since
  `set_allocation_state` refuses a block that ends with it. So the branch of
  `NVM_commit` that erases a full sector is never taken.

`NVM_init` scans for the last field in another state; in the model this is a
minimum, and that it exists for any sector is the well-foundedness of the
numbers (`Least`), not an induction over data.

The properties, and the inductive invariants they are proved with, were checked
with TLC before they were proved.

Only model-checked: the liveness properties `FloatNoticed`, `RequestServed`,
`HostSilenceIdles`, `DeadManSwitch`, `LostInterruptFloats`, `MessagesRead`,
`EveryCallEnds` (if writes return) and `SetpointFollows`. They rest on fairness, which means
`ENABLED`, out of reach of the prover. Every invariant and every other action
property of the passing runs is a theorem.

## Not modelled

* Arithmetic: control laws, input filters, estimators, modulation, brake current,
  thermistors, and the encoder's observer. What they decide is an open choice of
  the models.
* The absolute encoder's SPI transaction: start and completion are interrupts and
  its reader a thread, but what a missed or stale position leads to is an error
  rate filter in floating point.
* Endstop debouncing: the timer's timeout is never set, so the state is the pin's.
  `AxisStateMachine` lets it change at any time.
* fibre framing and checksums: their effect is the loss of packets. One framing
  case is not a loss and is listed as a hazard (a packet of 127 bytes).
* Two threads that save the configuration at once: what happens depends on the
  HAL's lock and the flash controller.
* The comment at `MotorControl/motor.cpp:41` says that arming waits for two
  interrupts; the code waits once, and `MotorArming` does as the code.
* Peripheral set-up, display, gate driver registers, transports and the ASCII
  parser: I/O.
* The vendored RTOS, HAL (except for the CAN driver's functions above), CMSIS and
  DSP libraries, which are most of the lines of the repository. Their priorities,
  critical sections and completions are the assumptions stated above.

## Plan

Done: `PwmInterlock`, `MotorArming`, `AxisStateMachine`, `CanBus`, `Controller`,
`Nvm`, `RemoteCall` and `FibreChannel`, with the proofs of their safety
properties and of both refinements. Next, in order of importance:

1. The safety parts of the liveness arguments, as invariants with proofs: what a
   thread that waits is waiting for.
2. `AbsoluteEncoder`: the SPI transaction with its error rate as a counter.
3. Brake current: duty, dead time and clamping as operators over bounded inputs.
