------------------------------- MODULE CanBus -------------------------------
(***************************************************************************)
(* The CAN interface: communication/interface_can.cpp, can_simple.cpp and  *)
(* the functions of the HAL's CAN driver they call.                        *)
(*                                                                         *)
(* Actors:                                                                 *)
(*   - the CAN server thread polls the receive FIFO and answers requests;  *)
(*   - each axis' thread sends heartbeats from its control loop.  Threads  *)
(*     share the transmit mailboxes without a lock; a thread runs only     *)
(*     while no thread of higher priority is inside write().  The writers  *)
(*     are numbered by priority: 0 is the server, the axes follow;         *)
(*   - a host thread calls set_baud_rate, at the priority of the server,   *)
(*     so their steps interleave;                                          *)
(*   - the bus empties mailboxes and fills the FIFO between any two steps. *)
(*                                                                         *)
(* No board file enables the CAN interrupts in the interrupt controller:   *)
(* the semaphore of the receive callback is never released and the error   *)
(* callback never called.  When a heartbeat is due (a comparison of ticks) *)
(* is left open.                                                           *)
(***************************************************************************)
EXTENDS Integers, Sequences, FiniteSets

CONSTANTS
    AxisCount,
    MailboxCount,   \* transmit mailboxes of the peripheral
    FifoDepth,      \* messages the receive FIFO holds
    NodeId,         \* ids an axis may be given
    MaxReinit       \* bound: calls of set_baud_rate in a behaviour

ASSUME AxisCountAssumption == AxisCount \in Nat \ {0}
ASSUME MailboxAssumption == MailboxCount \in Nat \ {0}
ASSUME FifoAssumption == FifoDepth \in Nat \ {0}
ASSUME NodeIdAssumption == 0 .. AxisCount - 1 \subseteq NodeId
ASSUME ReinitAssumption == MaxReinit \in Nat

Axis == 1 .. AxisCount
Server == 0
Writer == 0 .. AxisCount
Mailbox == 0 .. MailboxCount - 1

\* What the server tells apart: remote requests, which it answers, the command
\* that changes a node id, and all others.
Message ==
    [to : NodeId, cmd : {"get", "other"}]
        \cup [to : NodeId, cmd : {"set_node_id"}, arg : NodeId]

VARIABLES
    state,          \* hcan->State
    ErrorCode,      \* hcan->ErrorCode, as the set of its bits
    txid, txdata,   \* mailbox registers: whose id, whose data
    txrq,           \* mailboxes with a transmission request
    step, box,      \* where a writer is in write(), the mailbox it chose
    fifo,           \* received, unread messages
    pc,             \* of the server thread
    node_id,        \* axes[i]->config_.can_node_id
    reinit, calls   \* where set_baud_rate is, how often it was called

hal == <<state, ErrorCode>>
mailboxes == <<txid, txdata, txrq>>
writers == <<step, box>>
vars == <<state, ErrorCode, txid, txdata, txrq, step, box, fifo, pc, node_id,
          reinit, calls>>

Step == {"out", "level", "choose", "id", "data", "request"}
PC == {"error", "take", "available", "read", "answer", "send", "activate", "reset", "start"}
Code == {"PARAM", "TIMEOUT", "NOT_READY", "NOT_STARTED", "NOT_INITIALIZED"}

\* the state in which start_can_server leaves the driver
Init ==
    /\ \/ state = "LISTENING" /\ ErrorCode = {}
       \/ state = "ERROR" /\ ErrorCode = {"TIMEOUT"}
    /\ txid = [m \in Mailbox |-> Server] /\ txdata = [m \in Mailbox |-> Server]
    /\ txrq = {}
    /\ step = [w \in Writer |-> "out"] /\ box = [w \in Writer |-> 0]
    /\ fifo = <<>>
    /\ pc = "error"
    /\ node_id = [a \in Axis |-> a - 1]
    /\ reinit = "no" /\ calls = 0

-----------------------------------------------------------------------------
(* The HAL's driver.                                                       *)

Running == state \in {"READY", "LISTENING"}

Latch(code) == ErrorCode' = ErrorCode \cup {code}

HAL_CAN_ResetError ==
    /\ IF Running THEN ErrorCode' = {} ELSE Latch("NOT_INITIALIZED")
    /\ UNCHANGED state

\* a transition that waits for the peripheral's acknowledge may time out
HAL_CAN_Start ==
    IF state = "READY"
    THEN \/ state' = "LISTENING" /\ ErrorCode' = {}
         \/ state' = "ERROR" /\ Latch("TIMEOUT")
    ELSE UNCHANGED state /\ Latch("NOT_READY")

HAL_CAN_Stop ==
    IF state = "LISTENING"
    THEN \/ state' = "READY" /\ UNCHANGED ErrorCode
         \/ state' = "ERROR" /\ Latch("TIMEOUT")
    ELSE UNCHANGED state /\ Latch("NOT_STARTED")

HAL_CAN_Init ==
    \/ state' = "READY" /\ ErrorCode' = {}
    \/ state' = "ERROR" /\ Latch("TIMEOUT")

HAL_CAN_ActivateNotification ==
    /\ IF Running THEN UNCHANGED ErrorCode ELSE Latch("NOT_INITIALIZED")
    /\ UNCHANGED state

HAL_CAN_GetRxFifoFillLevel == IF Running THEN Len(fifo) ELSE 0

HAL_CAN_GetTxMailboxesFreeLevel == IF Running THEN Cardinality(Mailbox \ txrq) ELSE 0

-----------------------------------------------------------------------------
(* ODriveCAN::write, step by step: the registers of a mailbox whose        *)
(* transmission is requested cannot be written.                            *)

Writing(w) == step[w] # "out"
Runs(w) == \A v \in Writer : v > w => ~Writing(v)

Goto(w, s) == step' = [step EXCEPT ![w] = s]

\* HAL_CAN_GetError
CheckError(w) ==
    /\ Runs(w) /\ step[w] = "out"
    /\ ErrorCode = {}
    /\ Goto(w, "level")
    /\ UNCHANGED <<hal, mailboxes, box>>

\* mutant: 0 free mailboxes are enough
CheckLevelOffByOne(w) ==
    /\ Runs(w) /\ step[w] = "level"
    /\ Goto(w, IF HAL_CAN_GetTxMailboxesFreeLevel >= 0 THEN "choose" ELSE "out")
    /\ UNCHANGED <<hal, mailboxes, box>>

CheckLevel(w) ==
    /\ Runs(w) /\ step[w] = "level"
    /\ Goto(w, IF HAL_CAN_GetTxMailboxesFreeLevel > 0 THEN "choose" ELSE "out")
    /\ UNCHANGED <<hal, mailboxes, box>>

\* the first read of the status register in HAL_CAN_AddTxMessage
ChooseMailbox(w) ==
    /\ Runs(w) /\ step[w] = "choose"
    /\ \/ /\ Running
          /\ \E m \in Mailbox \ txrq :
                /\ \A n \in Mailbox \ txrq : m <= n
                /\ box' = [box EXCEPT ![w] = m]
          /\ Goto(w, "id")
          /\ UNCHANGED hal
       \/ /\ Running /\ Mailbox \subseteq txrq
          /\ Latch("PARAM")
          /\ Goto(w, "out")
          /\ UNCHANGED <<state, box>>
       \/ /\ ~Running
          /\ Latch("NOT_INITIALIZED")
          /\ Goto(w, "out")
          /\ UNCHANGED <<state, box>>
    /\ UNCHANGED mailboxes

\* mutant: the transmission is requested together with the id
RequestWithId(w) ==
    /\ Runs(w) /\ step[w] = "id"
    /\ txid' = IF box[w] \in txrq THEN txid ELSE [txid EXCEPT ![box[w]] = w]
    /\ txrq' = txrq \cup {box[w]}
    /\ Goto(w, "data")
    /\ UNCHANGED <<hal, txdata, box>>

WriteId(w) ==
    /\ Runs(w) /\ step[w] = "id"
    /\ txid' = IF box[w] \in txrq THEN txid ELSE [txid EXCEPT ![box[w]] = w]
    /\ Goto(w, "data")
    /\ UNCHANGED <<hal, txdata, txrq, box>>

WriteData(w) ==
    /\ Runs(w) /\ step[w] = "data"
    /\ txdata' = IF box[w] \in txrq THEN txdata ELSE [txdata EXCEPT ![box[w]] = w]
    /\ Goto(w, "request")
    /\ UNCHANGED <<hal, txid, txrq, box>>

RequestTransmission(w) ==
    /\ Runs(w) /\ step[w] = "request"
    /\ txrq' = txrq \cup {box[w]}
    /\ box' = [box EXCEPT ![w] = 0]
    /\ Goto(w, "out")
    /\ UNCHANGED <<hal, txid, txdata>>

Continue(w) ==
    \/ CheckLevel(w) \/ ChooseMailbox(w)
    \/ WriteId(w) \/ WriteData(w) \/ RequestTransmission(w)

\* a heartbeat is due, in the control loop of an axis
send_heartbeat(a) ==
    /\ CheckError(a)
    /\ UNCHANGED <<fifo, pc, node_id, reinit, calls>>

SendOn(a) ==
    /\ Continue(a)
    /\ UNCHANGED <<fifo, pc, node_id, reinit, calls>>

-----------------------------------------------------------------------------
(* CANSimple::handle_can_message and the server thread.                    *)

\* mutant: the last axis that matches gets the message
AddressLast(msg) ==
    {a \in Axis : node_id[a] = msg.to /\ \A b \in Axis : b > a => node_id[b] # msg.to}

\* the axes a message is for
Addressed(msg) == {a \in Axis : node_id[a] = msg.to}

\* Duplicate ids: the message is for nobody.  The other commands act on the
\* axis; AxisStateMachine has those that matter to it.
handle_can_message(msg) ==
    \/ \E axis \in Axis :
           /\ Addressed(msg) = {axis}
           /\ node_id' = IF msg.cmd = "set_node_id" THEN [node_id EXCEPT ![axis] = msg.arg]
                         ELSE node_id
           /\ pc' = IF msg.cmd = "get" THEN "answer" ELSE "available"
    \/ /\ \A axis \in Axis : Addressed(msg) # {axis}
       /\ pc' = "available"
       /\ UNCHANGED node_id

ServerAt(p) == Runs(Server) /\ pc = p

\* The top of the loop, with the status it acts on.  Any other error: try again,
\* at once.
CheckStatus ==
    /\ ServerAt("error")
    /\ pc' = CASE ErrorCode = {} -> "take"
               [] ErrorCode = {"TIMEOUT"} -> "reset"
               [] OTHER -> "error"
    /\ UNCHANGED <<hal, fifo, node_id>>

\* mutant: the wait for the semaphore has no timeout
TakeForever == FALSE /\ UNCHANGED <<pc, hal, fifo, node_id>>

\* rt_sem_take ends by its timeout of 10 ms
TakeTimeout ==
    /\ ServerAt("take")
    /\ pc' = "available"
    /\ UNCHANGED <<hal, fifo, node_id>>

available ==
    /\ ServerAt("available")
    /\ pc' = IF HAL_CAN_GetRxFifoFillLevel > 0 THEN "read" ELSE "activate"
    /\ UNCHANGED <<hal, fifo, node_id>>

\* Nobody looks at what read() returns: if the driver was stopped since the
\* server saw the message, it handles an uninitialized one.
read ==
    /\ ServerAt("read")
    /\ IF HAL_CAN_GetRxFifoFillLevel > 0
       THEN fifo' = Tail(fifo) /\ handle_can_message(Head(fifo))
       ELSE UNCHANGED fifo /\ \E msg \in Message : handle_can_message(msg)
    /\ UNCHANGED hal

Activate ==
    /\ ServerAt("activate")
    /\ HAL_CAN_ActivateNotification
    /\ pc' = "error"
    /\ UNCHANGED <<fifo, node_id>>

Reset ==
    /\ ServerAt("reset")
    /\ HAL_CAN_ResetError
    /\ pc' = "start"
    /\ UNCHANGED <<fifo, node_id>>

Restart ==
    /\ ServerAt("start")
    /\ HAL_CAN_Start
    /\ pc' = IF ErrorCode' = {} THEN "activate" ELSE "error"
    /\ UNCHANGED <<fifo, node_id>>

\* an answer is dropped when an error is latched
Answer ==
    /\ ServerAt("answer")
    /\ \/ CheckError(Server) /\ pc' = "send"
       \/ ErrorCode # {} /\ pc' = "available" /\ UNCHANGED <<hal, mailboxes, writers>>
    /\ UNCHANGED <<fifo, node_id>>

Send ==
    /\ ServerAt("send")
    /\ Continue(Server)
    /\ pc' = IF step'[Server] = "out" THEN "available" ELSE "send"
    /\ UNCHANGED <<fifo, node_id>>

can_server_thread ==
    /\ \/ /\ CheckStatus \/ TakeTimeout \/ available \/ read
             \/ Activate \/ Reset \/ Restart
          /\ UNCHANGED <<mailboxes, writers>>
       \/ Answer
       \/ Send
    /\ UNCHANGED <<reinit, calls>>

-----------------------------------------------------------------------------
(* set_baud_rate, and the bus.                                             *)

set_baud_rate ==
    /\ Runs(Server) /\ reinit = "no" /\ calls < MaxReinit
    /\ reinit' = "stop" /\ calls' = calls + 1
    /\ UNCHANGED <<hal, mailboxes, writers, fifo, pc, node_id>>

\* the results of the four calls are not looked at, but for the third's
reinit_can ==
    /\ Runs(Server)
    /\ \/ reinit = "stop" /\ HAL_CAN_Stop /\ reinit' = "init"
       \/ reinit = "init" /\ HAL_CAN_Init /\ reinit' = "start"
       \/ /\ reinit = "start" /\ HAL_CAN_Start
          /\ reinit' = IF ErrorCode' = {} THEN "activate" ELSE "no"
       \/ reinit = "activate" /\ HAL_CAN_ActivateNotification /\ reinit' = "no"
    /\ UNCHANGED <<mailboxes, writers, fifo, pc, node_id, calls>>

\* The bus is off in initialization mode.  A frame is sent once, whether it gets
\* through or not.
Transmit(m) ==
    /\ state # "READY" /\ m \in txrq
    /\ txrq' = txrq \ {m}
    /\ UNCHANGED <<hal, txid, txdata, writers, fifo, pc, node_id, reinit, calls>>

\* mutant: the FIFO has no end
ReceiveMore(msg) ==
    /\ state # "READY"
    /\ fifo' = Append(fifo, msg)
    /\ UNCHANGED <<hal, mailboxes, writers, pc, node_id, reinit, calls>>

\* a full FIFO loses its newest message to the next one
Receive(msg) ==
    /\ state # "READY"
    /\ fifo' = IF Len(fifo) < FifoDepth THEN Append(fifo, msg)
               ELSE [fifo EXCEPT ![FifoDepth] = msg]
    /\ UNCHANGED <<hal, mailboxes, writers, pc, node_id, reinit, calls>>

Next ==
    \/ \E a \in Axis : send_heartbeat(a) \/ SendOn(a)
    \/ can_server_thread
    \/ set_baud_rate \/ reinit_can
    \/ \E m \in Mailbox : Transmit(m)
    \/ \E msg \in Message : Receive(msg)

Spec == Init /\ [][Next]_vars

\* The axes' threads wait for a measurement in every period, so a thread of lower
\* priority gets the processor again and again; one inside write() goes on.
FairSpec ==
    /\ Spec
    /\ SF_vars(can_server_thread)
    /\ \A a \in Axis : SF_vars(SendOn(a))

-----------------------------------------------------------------------------
(* Properties.                                                             *)

TypeOK ==
    /\ state \in {"READY", "LISTENING", "ERROR"}
    /\ ErrorCode \subseteq Code
    /\ txid \in [Mailbox -> Writer] /\ txdata \in [Mailbox -> Writer]
    /\ txrq \subseteq Mailbox
    /\ step \in [Writer -> Step] /\ box \in [Writer -> Mailbox]
    /\ fifo \in Seq(Message) /\ Len(fifo) <= FifoDepth
    /\ pc \in PC
    /\ node_id \in [Axis -> NodeId]
    /\ reinit \in {"no", "stop", "init", "start", "activate"}
    /\ calls \in 0 .. MaxReinit

\* Writers race for a mailbox without a lock and may lose or repeat a frame, but
\* a frame never goes out with the data of a thread of higher priority than its
\* id's: an answer never carries a heartbeat's data.
IdOutranksData == \A m \in txrq : txdata[m] <= txid[m]

\* a frame goes out with the data of the thread whose id it has
FramesIntact == \A m \in txrq : txdata[m] = txid[m]

\* Duplicate ids silence their axes for good: no message can separate them
\* again, whatever else happens on the bus.
DuplicatesStay ==
    [][\A a, b \in Axis : a # b /\ node_id[a] = node_id[b]
                              => node_id'[a] = node_id[a] /\ node_id'[b] = node_id[b]]_vars

\* Finding a free mailbox and taking it are two steps; only a thread that can be
\* preempted in between may find all of them taken and latch the error that
\* silences the bus.
HighestNeverLatches ==
    [][step[AxisCount] = "choose" /\ step'[AxisCount] # "choose"
           => ("PARAM" \in ErrorCode' <=> "PARAM" \in ErrorCode)]_vars

\* what was received is read, unless an error is latched
MessagesRead == fifo # <<>> ~> fifo = <<>> \/ ErrorCode # {}

=============================================================================
