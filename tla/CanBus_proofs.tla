--------------------------- MODULE CanBus_proofs ---------------------------
(***************************************************************************)
(* Proofs about CanBus, for any number of axes, mailboxes and node ids and *)
(* any depth of the receive FIFO.                                          *)
(***************************************************************************)
EXTENDS CanBus, FiniteSetTheorems, SequenceTheorems, TLAPS

-----------------------------------------------------------------------------
(* Types.                                                                  *)

\* the five variables the transmit path works on
WriteType ==
    /\ txid \in [Mailbox -> Writer] /\ txdata \in [Mailbox -> Writer]
    /\ txrq \subseteq Mailbox
    /\ step \in [Writer -> Step] /\ box \in [Writer -> Mailbox]

DriverType ==
    /\ state \in {"READY", "LISTENING", "ERROR"}
    /\ ErrorCode \subseteq Code

QueueType == fifo \in Seq(Message) /\ Len(fifo) <= FifoDepth

RestType ==
    /\ pc \in PC
    /\ node_id \in [Axis -> NodeId]
    /\ reinit \in {"no", "stop", "init", "start", "activate"}
    /\ calls \in 0 .. MaxReinit

LEMMA WriterFacts == /\ Axis \subseteq Writer /\ Server \in Writer /\ 0 \in Mailbox
                     /\ AxisCount \in Writer /\ Writer \subseteq Nat
BY AxisCountAssumption, MailboxAssumption DEF Axis, Writer, Server, Mailbox

\* one step inside write(), by whichever thread
LEMMA WriteKeepsTypes ==
    ASSUME WriteType, DriverType, NEW w \in Writer, CheckError(w) \/ Continue(w)
    PROVE  WriteType' /\ DriverType'
<1> USE DEF WriteType, DriverType, hal, mailboxes
<1>1. CASE CheckError(w)
  BY <1>1 DEF CheckError, Goto, Step
<1>2. CASE CheckLevel(w)
  BY <1>2 DEF CheckLevel, Goto, Step
<1>3. CASE ChooseMailbox(w)
  <2>1. step' \in [Writer -> Step] /\ UNCHANGED <<txid, txdata, txrq, state>>
    BY <1>3 DEF ChooseMailbox, Goto, Step
  <2>2. box' \in [Writer -> Mailbox]
    BY <1>3 DEF ChooseMailbox
  <2>3. ErrorCode' \subseteq Code
    BY <1>3 DEF ChooseMailbox, Latch, Code
  <2> QED
    BY <2>1, <2>2, <2>3
<1>4. CASE WriteId(w)
  BY <1>4 DEF WriteId, Goto, Step
<1>5. CASE WriteData(w)
  BY <1>5 DEF WriteData, Goto, Step
<1>6. CASE RequestTransmission(w)
  BY <1>6, WriterFacts DEF RequestTransmission, Goto, Step
<1> QED
  BY <1>1, <1>2, <1>3, <1>4, <1>5, <1>6 DEF Continue

\* the driver's calls
LEMMA DriverKeepsTypes ==
    ASSUME DriverType,
           \/ HAL_CAN_ResetError \/ HAL_CAN_Start \/ HAL_CAN_Stop
           \/ HAL_CAN_Init \/ HAL_CAN_ActivateNotification
    PROVE  DriverType'
BY DEF DriverType, HAL_CAN_ResetError, HAL_CAN_Start, HAL_CAN_Stop, HAL_CAN_Init,
       HAL_CAN_ActivateNotification, Latch, Code

\* the receive FIFO: losing the newest message keeps the length
LEMMA ReceiveKeepsTypes ==
    ASSUME QueueType, NEW msg \in Message, Receive(msg)
    PROVE  QueueType'
<1>1. CASE Len(fifo) < FifoDepth
  BY <1>1, FifoAssumption DEF QueueType, Receive
<1>2. CASE ~(Len(fifo) < FifoDepth)
  <2>1. fifo' = [fifo EXCEPT ![FifoDepth] = msg]
    BY <1>2 DEF Receive
  <2>2. fifo \in Seq(Message) /\ FifoDepth \in 1 .. Len(fifo) /\ Len(fifo) = FifoDepth
    BY <1>2, FifoAssumption DEF QueueType
  <2>3. fifo' \in Seq(Message) /\ Len(fifo') = Len(fifo)
    BY <2>1, <2>2, ExceptSeq
  <2> QED
    BY <2>2, <2>3, FifoAssumption DEF QueueType
<1> QED
  BY <1>1, <1>2

\* taking a message
LEMMA TakeKeepsTypes ==
    ASSUME QueueType, RestType, NEW msg \in Message, handle_can_message(msg)
    PROVE  pc' \in PC /\ node_id' \in [Axis -> NodeId]
<1>1. msg.cmd = "set_node_id" => msg.arg \in NodeId
  <2>1. CASE msg \in [to : NodeId, cmd : {"get", "other"}]
    <3>1. msg.cmd \in {"get", "other"}
      BY <2>1
    <3> QED
      BY <3>1
  <2>2. CASE msg \in [to : NodeId, cmd : {"set_node_id"}, arg : NodeId]
    BY <2>2
  <2> QED
    BY <2>1, <2>2 DEF Message
<1>2. CASE \E axis \in Axis :
             /\ Addressed(msg) = {axis}
             /\ node_id' = IF msg.cmd = "set_node_id"
                           THEN [node_id EXCEPT ![axis] = msg.arg] ELSE node_id
             /\ pc' = IF msg.cmd = "get" THEN "answer" ELSE "available"
  BY <1>1, <1>2 DEF RestType, PC
<1>3. CASE pc' = "available" /\ UNCHANGED node_id
  BY <1>3 DEF RestType, PC
<1> QED
  BY <1>2, <1>3 DEF handle_can_message

\* the server's loop, where it does not write
LEMMA ServerKeepsTypes ==
    ASSUME DriverType, QueueType, RestType,
           \/ CheckStatus \/ TakeTimeout \/ available \/ read
           \/ Activate \/ Reset \/ Restart
    PROVE  DriverType' /\ QueueType' /\ pc' \in PC /\ node_id' \in [Axis -> NodeId]
<1> USE DEF hal
<1>1. CASE CheckStatus \/ TakeTimeout \/ available
  BY <1>1 DEF CheckStatus, TakeTimeout, available, DriverType, QueueType, RestType, PC
<1>2. CASE read
  <2>1. CASE HAL_CAN_GetRxFifoFillLevel > 0
    <3>1. fifo # <<>>
      BY <2>1 DEF HAL_CAN_GetRxFifoFillLevel, QueueType
    <3>2. Head(fifo) \in Message /\ fifo' \in Seq(Message) /\ Len(fifo') <= FifoDepth
      BY <1>2, <2>1, <3>1, FifoAssumption DEF read, QueueType
    <3> QED
      BY <1>2, <2>1, <3>2, TakeKeepsTypes DEF read, DriverType, QueueType
  <2>2. CASE ~(HAL_CAN_GetRxFifoFillLevel > 0)
    BY <1>2, <2>2, TakeKeepsTypes DEF read, DriverType, QueueType
  <2> QED
    BY <2>1, <2>2
<1>3. CASE Activate \/ Reset \/ Restart
  <2>1. DriverType'
    BY <1>3, DriverKeepsTypes DEF Activate, Reset, Restart
  <2> QED
    BY <1>3, <2>1 DEF Activate, Reset, Restart, QueueType, RestType, PC
<1> QED
  BY <1>1, <1>2, <1>3

\* Every reachable state is well typed, so the FIFO never exceeds its depth
\* (stm32f4xx_hal_can.c:1606) and only mailboxes that exist are requested.
THEOREM TypeCorrect == Spec => []TypeOK
<1> DEFINE T == WriteType /\ DriverType /\ QueueType /\ RestType
<1>1. Init => T
  BY WriterFacts, NodeIdAssumption, FifoAssumption, ReinitAssumption
     DEF Init, WriteType, DriverType, QueueType, RestType, Step, Code, PC, Axis
<1>2. T /\ [Next]_vars => T'
  <2> SUFFICES ASSUME WriteType, DriverType, QueueType, RestType, [Next]_vars
               PROVE  T'
    OBVIOUS
  <2>1. ASSUME NEW a \in Axis, send_heartbeat(a) \/ SendOn(a) PROVE T'
    <3>1. a \in Writer /\ (CheckError(a) \/ Continue(a))
      BY <2>1, WriterFacts DEF send_heartbeat, SendOn
    <3> QED
      BY <2>1, <3>1, WriteKeepsTypes DEF send_heartbeat, SendOn, QueueType, RestType
  <2>2. CASE can_server_thread
    <3>1. CASE /\ CheckStatus \/ TakeTimeout \/ available \/ read
                  \/ Activate \/ Reset \/ Restart
               /\ UNCHANGED <<mailboxes, writers>>
      BY <2>2, <3>1, ServerKeepsTypes
         DEF can_server_thread, RestType, WriteType, mailboxes, writers
    <3>2. CASE Answer
      <4>1. CASE CheckError(Server)
        BY <2>2, <3>2, <4>1, WriteKeepsTypes, WriterFacts
           DEF can_server_thread, Answer, QueueType, RestType, PC
      <4>2. CASE ~CheckError(Server)
        BY <2>2, <3>2, <4>2 DEF can_server_thread, Answer, QueueType, RestType, PC,
                                WriteType, DriverType, hal, mailboxes, writers
      <4> QED
        BY <4>1, <4>2
    <3>3. CASE Send
      BY <2>2, <3>3, WriteKeepsTypes, WriterFacts
         DEF can_server_thread, Send, QueueType, RestType, PC
    <3> QED
      BY <2>2, <3>1, <3>2, <3>3 DEF can_server_thread
  <2>3. CASE set_baud_rate
    BY <2>3, ReinitAssumption DEF set_baud_rate, hal, mailboxes, writers, WriteType,
             DriverType, QueueType, RestType
  <2>4. CASE reinit_can
    <3>1. DriverType'
      BY <2>4, DriverKeepsTypes DEF reinit_can
    <3> QED
      BY <2>4, <3>1 DEF reinit_can, mailboxes, writers, WriteType, QueueType, RestType
  <2>5. ASSUME NEW m \in Mailbox, Transmit(m) PROVE T'
    BY <2>5 DEF Transmit, hal, writers, WriteType, DriverType, QueueType, RestType
  <2>6. ASSUME NEW msg \in Message, Receive(msg) PROVE T'
    BY <2>6, ReceiveKeepsTypes DEF Receive, hal, mailboxes, writers, WriteType,
             DriverType, RestType
  <2>7. CASE UNCHANGED vars
    BY <2>7 DEF vars, WriteType, DriverType, QueueType, RestType
  <2> QED
    BY <2>1, <2>2, <2>3, <2>4, <2>5, <2>6, <2>7 DEF Next
<1>3. T => TypeOK
  BY DEF TypeOK, WriteType, DriverType, QueueType, RestType
<1> QED
  BY <1>1, <1>2, <1>3, PTL DEF Spec

-----------------------------------------------------------------------------
(* Whose data a frame carries.                                             *)

\* A writer is overtaken only by writers of higher priority, so the id in its
\* mailbox is its own or one of theirs; what it has yet to write may find the
\* mailbox requested already.
IdInv(w) ==
    /\ step[w] = "id" /\ box[w] \in txrq => txid[box[w]] >= w
    /\ step[w] \in {"data", "request"} => txid[box[w]] >= w

\* the data in a mailbox about to be requested, unless somebody who has
\* preempted the writer is between its id and its data
DataInv(w) ==
    step[w] = "request" =>
        \/ txdata[box[w]] <= txid[box[w]]
        \/ \E v \in Writer : v > w /\ step[v] = "data" /\ box[v] = box[w]

FrameInv ==
    /\ \A w \in Writer : IdInv(w) /\ DataInv(w)
    /\ IdOutranksData

\* choosing a mailbox that is free, which also happens with the id unwritten
LEMMA ChooseKeepsFrames ==
    ASSUME WriteType, FrameInv, NEW w \in Writer,
           CheckError(w) \/ CheckLevel(w) \/ ChooseMailbox(w)
    PROVE  FrameInv'
<1>1. UNCHANGED <<txid, txdata, txrq>>
  BY DEF CheckError, CheckLevel, ChooseMailbox, mailboxes
<1>2. \A v \in Writer : v # w => step'[v] = step[v] /\ box'[v] = box[v]
  BY DEF CheckError, CheckLevel, ChooseMailbox, Goto, WriteType
<1>3. /\ step[w] \in {"out", "level", "choose"} /\ step'[w] \in {"out", "level", "choose", "id"}
      /\ step'[w] = "id" => box'[w] \notin txrq
  <2>1. CASE CheckError(w) \/ CheckLevel(w)
    BY <2>1 DEF CheckError, CheckLevel, Goto, WriteType
  <2>2. CASE ChooseMailbox(w)
    BY <2>2 DEF ChooseMailbox, Goto, WriteType
  <2> QED
    BY <2>1, <2>2
<1>4. ASSUME NEW v \in Writer PROVE IdInv(v)' /\ DataInv(v)'
  <2>1. CASE v = w
    BY <1>1, <1>3, <2>1 DEF IdInv, DataInv
  <2>2. CASE v # w
    <3>1. IdInv(v)'
      BY <1>1, <1>2, <2>2 DEF FrameInv, IdInv
    <3>2. DataInv(v)'
      BY <1>1, <1>2, <1>3, <2>2 DEF FrameInv, DataInv
    <3> QED
      BY <3>1, <3>2
  <2> QED
    BY <2>1, <2>2
<1> QED
  BY <1>1, <1>4 DEF FrameInv, IdOutranksData

\* the registers of a requested mailbox are protected
LEMMA WriteIdKeepsFrames ==
    ASSUME WriteType, FrameInv, NEW w \in Writer, WriteId(w)
    PROVE  FrameInv'
<1>1. UNCHANGED <<txdata, txrq, box>> /\ step' = [step EXCEPT ![w] = "data"]
  BY DEF WriteId, Goto
<1>2. \A v \in Writer : v > w => step[v] = "out"
  BY DEF WriteId, Runs, Writing
<1>3. txid' = IF box[w] \in txrq THEN txid ELSE [txid EXCEPT ![box[w]] = w]
  BY DEF WriteId
<1>4. step[w] = "id"
  BY DEF WriteId
<1>5. ASSUME NEW v \in Writer PROVE IdInv(v)'
  <2>1. v > w => step'[v] = "out"
    BY <1>1, <1>2, WriterFacts DEF WriteType
  <2>2. CASE v = w
    BY <1>1, <1>3, <1>4, <2>2, WriterFacts DEF WriteType, FrameInv, IdInv
  <2>3. CASE v < w
    BY <1>1, <1>3, <2>3, WriterFacts DEF WriteType, FrameInv, IdInv
  <2> QED
    BY <2>1, <2>2, <2>3, WriterFacts DEF IdInv
<1>6. ASSUME NEW v \in Writer PROVE DataInv(v)'
  <2>1. CASE v >= w
    BY <1>1, <1>2, <2>1, WriterFacts DEF WriteType, DataInv
  <2>2. CASE v < w /\ box[v] = box[w]
    BY <1>1, <2>2, WriterFacts DEF WriteType, DataInv
  <2>3. CASE v < w /\ box[v] # box[w]
    <3>1. txid'[box[v]] = txid[box[v]] /\ step'[v] = step[v]
      BY <1>1, <1>3, <2>3, WriterFacts DEF WriteType
    <3>2. \A u \in Writer : step[u] = "data" => step'[u] = "data"
      BY <1>1, <1>4 DEF WriteType
    <3> QED
      BY <1>1, <3>1, <3>2 DEF FrameInv, DataInv
  <2> QED
    BY <2>1, <2>2, <2>3, WriterFacts
<1>7. IdOutranksData'
  BY <1>1, <1>3 DEF WriteType, FrameInv, IdOutranksData
<1> QED
  BY <1>5, <1>6, <1>7 DEF FrameInv

LEMMA WriteDataKeepsFrames ==
    ASSUME WriteType, FrameInv, NEW w \in Writer, WriteData(w)
    PROVE  FrameInv'
<1>1. UNCHANGED <<txid, txrq, box>> /\ step' = [step EXCEPT ![w] = "request"]
  BY DEF WriteData, Goto
<1>2. \A v \in Writer : v > w => step[v] = "out"
  BY DEF WriteData, Runs, Writing
<1>3. txdata' = IF box[w] \in txrq THEN txdata ELSE [txdata EXCEPT ![box[w]] = w]
  BY DEF WriteData
<1>4. step[w] = "data" /\ txid[box[w]] >= w
  BY DEF WriteData, FrameInv, IdInv
<1>5. ASSUME NEW v \in Writer PROVE IdInv(v)'
  BY <1>1, <1>4 DEF WriteType, FrameInv, IdInv
<1>6. txdata'[box[w]] <= txid'[box[w]]
  BY <1>1, <1>3, <1>4, WriterFacts DEF WriteType, FrameInv, IdOutranksData
<1>7. ASSUME NEW v \in Writer PROVE DataInv(v)'
  <2>1. CASE v > w
    BY <1>1, <1>2, <2>1, WriterFacts DEF WriteType, DataInv
  <2>2. CASE box[v] = box[w]
    BY <1>1, <1>6, <2>2 DEF DataInv
  <2>3. CASE v < w /\ box[v] # box[w]
    <3>1. txdata'[box[v]] = txdata[box[v]] /\ step'[v] = step[v]
      BY <1>1, <1>3, <2>3, WriterFacts DEF WriteType
    <3>2. \A u \in Writer : step[u] = "data" /\ box[u] = box[v] => step'[u] = "data"
      BY <1>1, <2>3 DEF WriteType
    <3> QED
      BY <1>1, <3>1, <3>2 DEF FrameInv, DataInv
  <2> QED
    BY <2>1, <2>2, <2>3, WriterFacts
<1>8. IdOutranksData'
  BY <1>1, <1>3 DEF WriteType, FrameInv, IdOutranksData
<1> QED
  BY <1>5, <1>7, <1>8 DEF FrameInv

\* nobody above a writer that requests its transmission is inside write()
LEMMA RequestKeepsFrames ==
    ASSUME WriteType, FrameInv, NEW w \in Writer, RequestTransmission(w)
    PROVE  FrameInv'
<1>1. /\ UNCHANGED <<txid, txdata>> /\ step' = [step EXCEPT ![w] = "out"]
      /\ txrq' = txrq \cup {box[w]} /\ box' = [box EXCEPT ![w] = 0]
  BY DEF RequestTransmission, Goto
<1>2. \A v \in Writer : v > w => step[v] = "out"
  BY DEF RequestTransmission, Runs, Writing
<1>3. step[w] = "request" /\ txid[box[w]] >= w
  BY DEF RequestTransmission, FrameInv, IdInv
<1>4. txdata[box[w]] <= txid[box[w]]
  BY <1>2, <1>3 DEF FrameInv, DataInv
<1>5. \A v \in Writer : v # w => step'[v] = step[v] /\ box'[v] = box[v]
  BY <1>1 DEF WriteType
<1>6. step'[w] = "out"
  BY <1>1 DEF WriteType
<1>7. ASSUME NEW v \in Writer PROVE IdInv(v)'
  <2>1. CASE v >= w
    BY <1>1, <1>2, <1>5, <1>6, <2>1, WriterFacts DEF IdInv
  <2>2. CASE v < w
    <3>0. txid[box[w]] \in Nat /\ v \in Nat /\ w \in Nat
      BY WriterFacts DEF WriteType
    <3>1. txid[box[w]] >= v
      BY <1>3, <2>2, <3>0
    <3> QED
      BY <1>1, <1>5, <2>2, <3>1, WriterFacts DEF FrameInv, IdInv
  <2> QED
    BY <2>1, <2>2, WriterFacts
<1>8. ASSUME NEW v \in Writer PROVE DataInv(v)'
  <2>1. CASE v = w
    BY <1>6, <2>1 DEF DataInv
  <2>2. CASE v # w
    BY <1>1, <1>3, <1>5, <2>2 DEF FrameInv, DataInv
  <2> QED
    BY <2>1, <2>2
<1>9. IdOutranksData'
  BY <1>1, <1>4 DEF FrameInv, IdOutranksData
<1> QED
  BY <1>7, <1>8, <1>9 DEF FrameInv

\* The bus never sees a frame whose data is of a higher priority than its id: in
\* the race for a mailbox (interface_can.cpp:96) only heartbeats can carry an
\* answer's data, never the other way round.
THEOREM IdOutranksDataHolds == Spec => []IdOutranksData
<1>1. Init => FrameInv
  BY DEF Init, FrameInv, IdInv, DataInv, IdOutranksData
<1>2. TypeOK /\ FrameInv /\ [Next]_vars => FrameInv'
  <2> SUFFICES ASSUME TypeOK, FrameInv, [Next]_vars PROVE FrameInv'
    OBVIOUS
  <2>1. WriteType
    BY DEF TypeOK, WriteType
  <2>2. ASSUME NEW w \in Writer, CheckError(w) \/ Continue(w) PROVE FrameInv'
    BY <2>1, <2>2, ChooseKeepsFrames, WriteIdKeepsFrames, WriteDataKeepsFrames,
       RequestKeepsFrames DEF Continue
  <2>3. CASE UNCHANGED <<mailboxes, writers>>
    BY <2>3 DEF mailboxes, writers, FrameInv, IdInv, DataInv, IdOutranksData
  <2>4. ASSUME NEW m \in Mailbox, Transmit(m) PROVE FrameInv'
    BY <2>4 DEF Transmit, writers, FrameInv, IdInv, DataInv, IdOutranksData
  <2>5. CASE can_server_thread
    BY <2>2, <2>3, <2>5, WriterFacts DEF can_server_thread, Answer, Send
  <2>6. CASE \E a \in Axis : send_heartbeat(a) \/ SendOn(a)
    BY <2>2, <2>6, WriterFacts DEF send_heartbeat, SendOn
  <2>7. CASE \/ set_baud_rate \/ reinit_can \/ \E msg \in Message : Receive(msg)
             \/ UNCHANGED vars
    BY <2>3, <2>7 DEF set_baud_rate, reinit_can, Receive, vars, mailboxes, writers
  <2> QED
    BY <2>4, <2>5, <2>6, <2>7 DEF Next
<1>3. FrameInv => IdOutranksData
  BY DEF FrameInv
<1> QED
  BY <1>1, <1>2, <1>3, TypeCorrect, PTL DEF Spec

-----------------------------------------------------------------------------
(* The thread of the highest priority never finds its mailbox taken.       *)

Highest == AxisCount

\* between its look at the free level and its choice nothing else requests
FreeInv == step[Highest] = "choose" => Running /\ Mailbox \ txrq # {}

\* while the highest is inside write() nobody else who could interfere runs
LEMMA HighestRunsAlone ==
    ASSUME WriteType, step[Highest] # "out", NEW w \in Writer, Runs(w)
    PROVE  w = Highest
<1>1. w <= Highest /\ Highest \in Writer
  BY AxisCountAssumption DEF Writer, Highest
<1>2. ~(Highest > w)
  BY <1>1 DEF Runs, Writing
<1> QED
  BY <1>1, <1>2, WriterFacts

\* the steps of the others, of the driver and of the bus
LEMMA OthersKeepFree ==
    ASSUME WriteType, FreeInv, step[Highest] = "choose",
           can_server_thread \/ set_baud_rate \/ reinit_can
    PROVE  FALSE
<1>1. Runs(Server)
  BY DEF can_server_thread, set_baud_rate, reinit_can, CheckStatus, TakeTimeout, available,
         read, Activate, Reset, Restart, Answer, Send, ServerAt
<1>2. Server # Highest
  BY AxisCountAssumption DEF Server, Highest
<1> QED
  BY <1>1, <1>2, HighestRunsAlone, WriterFacts

\* its own steps: the level is read and the mailbox chosen without a change
LEMMA WriteKeepsFree ==
    ASSUME WriteType, FreeInv, NEW w \in Writer, CheckError(w) \/ Continue(w)
    PROVE  FreeInv'
<1> USE DEF FreeInv
<1>1. Runs(w)
  BY DEF CheckError, Continue, CheckLevel, ChooseMailbox, WriteId, WriteData,
         RequestTransmission
<1>2. CASE w = Highest
  <2>1. CASE CheckLevel(w)
    <3>1. /\ step'[w] = IF HAL_CAN_GetTxMailboxesFreeLevel > 0 THEN "choose" ELSE "out"
          /\ UNCHANGED <<state, txrq>>
      BY <2>1 DEF CheckLevel, Goto, WriteType, hal, mailboxes
    <3>2. HAL_CAN_GetTxMailboxesFreeLevel > 0 => Running /\ Mailbox \ txrq # {}
      BY FS_EmptySet DEF HAL_CAN_GetTxMailboxesFreeLevel
    <3> QED
      BY <1>2, <3>1, <3>2 DEF Running
  <2>2. CASE ~CheckLevel(w)
    <3>1. step'[w] # "choose"
      BY <2>2 DEF CheckError, Continue, ChooseMailbox, WriteId, WriteData,
                  RequestTransmission, Goto, WriteType
    <3> QED
      BY <1>2, <3>1
  <2> QED
    BY <2>1, <2>2
<1>3. CASE w # Highest
  <2>1. step[Highest] = "out"
    BY <1>1, <1>3, HighestRunsAlone
  <2>2. step'[Highest] = step[Highest]
    BY <1>3, WriterFacts DEF CheckError, Continue, CheckLevel, ChooseMailbox, WriteId,
             WriteData, RequestTransmission, Goto, WriteType, Highest
  <2> QED
    BY <2>1, <2>2
<1> QED
  BY <1>2, <1>3

\* Only a thread that can be preempted between finding a free mailbox and taking
\* it (interface_can.cpp:100) latches the error that silences the bus.
THEOREM HighestNeverLatchesHolds == Spec => HighestNeverLatches
<1>1. Init => FreeInv
  BY WriterFacts DEF Init, FreeInv, Highest
<1>2. TypeOK /\ FreeInv /\ [Next]_vars => FreeInv'
  <2> SUFFICES ASSUME TypeOK, FreeInv, [Next]_vars PROVE FreeInv'
    OBVIOUS
  <2>1. WriteType
    BY DEF TypeOK, WriteType
  <2>2. ASSUME NEW a \in Axis, send_heartbeat(a) \/ SendOn(a) PROVE FreeInv'
    BY <2>1, <2>2, WriteKeepsFree, WriterFacts DEF send_heartbeat, SendOn
  <2>3. CASE can_server_thread \/ set_baud_rate \/ reinit_can
    <3>1. step[Highest] # "choose"
      BY <2>1, <2>3, OthersKeepFree
    <3>2. step'[Highest] # "choose"
      <4>1. CASE CheckError(Server) \/ Continue(Server)
        <5>1. Server # Highest
          BY AxisCountAssumption DEF Server, Highest
        <5> QED
          BY <2>1, <3>1, <4>1, <5>1, WriterFacts DEF CheckError, Continue, CheckLevel,
             ChooseMailbox, WriteId, WriteData, RequestTransmission, Goto, WriteType,
             Highest
      <4>2. CASE UNCHANGED step
        BY <3>1, <4>2
      <4> QED
        BY <2>3, <4>1, <4>2 DEF can_server_thread, Answer, Send, set_baud_rate,
           reinit_can, writers
    <3> QED
      BY <3>2 DEF FreeInv
  <2>4. ASSUME NEW m \in Mailbox, Transmit(m) PROVE FreeInv'
    BY <2>4 DEF Transmit, FreeInv, Running, hal, writers
  <2>5. CASE (\E msg \in Message : Receive(msg)) \/ UNCHANGED vars
    BY <2>5 DEF Receive, vars, FreeInv, Running, hal, mailboxes, writers
  <2> QED
    BY <2>2, <2>3, <2>4, <2>5 DEF Next
<1>3. TypeOK /\ FreeInv /\ [Next]_vars =>
        [step[AxisCount] = "choose" /\ step'[AxisCount] # "choose"
           => ("PARAM" \in ErrorCode' <=> "PARAM" \in ErrorCode)]_vars
  <2> SUFFICES ASSUME TypeOK, FreeInv, Next,
                      step[Highest] = "choose", step'[Highest] # "choose"
               PROVE  "PARAM" \in ErrorCode' <=> "PARAM" \in ErrorCode
    BY DEF Highest
  <2>1. WriteType
    BY DEF TypeOK, WriteType
  <2>2. ~(can_server_thread \/ set_baud_rate \/ reinit_can)
    BY <2>1, OthersKeepFree
  <2>3. ASSUME NEW a \in Axis, send_heartbeat(a) \/ SendOn(a)
        PROVE  "PARAM" \in ErrorCode' <=> "PARAM" \in ErrorCode
    <3>1. Runs(a) /\ a \in Writer
      BY <2>3, WriterFacts DEF send_heartbeat, SendOn, CheckError, Continue, CheckLevel,
         ChooseMailbox, WriteId, WriteData, RequestTransmission
    <3>2. a = Highest
      BY <2>1, <3>1, HighestRunsAlone
    <3>3. ChooseMailbox(a)
      BY <2>3, <3>2 DEF send_heartbeat, SendOn, CheckError, Continue, CheckLevel,
         WriteId, WriteData, RequestTransmission
    <3>4. Running /\ ~(Mailbox \subseteq txrq)
      BY DEF FreeInv
    <3> QED
      BY <3>3, <3>4 DEF ChooseMailbox, hal
  <2>4. CASE (\E m \in Mailbox : Transmit(m)) \/ (\E msg \in Message : Receive(msg))
    BY <2>4 DEF Transmit, Receive, hal
  <2> QED
    BY <2>2, <2>3, <2>4 DEF Next
<1> QED
  BY <1>1, <1>2, <1>3, TypeCorrect, PTL DEF Spec, HighestNeverLatches

-----------------------------------------------------------------------------
(* Node ids.                                                               *)

\* a message to two axes at once changes neither
LEMMA MessageKeepsDuplicates ==
    ASSUME node_id \in [Axis -> NodeId],
           NEW msg \in Message, handle_can_message(msg),
           NEW a \in Axis, NEW b \in Axis, a # b, node_id[a] = node_id[b]
    PROVE  node_id'[a] = node_id[a]
<1>1. CASE UNCHANGED node_id
  BY <1>1
<1>2. ASSUME NEW axis \in Axis, Addressed(msg) = {axis},
             node_id' = [node_id EXCEPT ![axis] = msg.arg]
      PROVE  node_id'[a] = node_id[a]
  <2>1. axis # a
    <3>1. SUFFICES ASSUME axis = a PROVE FALSE
      OBVIOUS
    <3>2. a \in Addressed(msg)
      BY <1>2, <3>1
    <3>3. b \in Addressed(msg)
      BY <3>2 DEF Addressed
    <3> QED
      BY <1>2, <3>1, <3>3
  <2> QED
    BY <1>2, <2>1
<1> QED
  BY <1>1, <1>2 DEF handle_can_message

\* Two axes with one id keep it whatever is received (can_simple.cpp:10): only
\* another interface can separate them.
THEOREM DuplicatesStayHolds == Spec => DuplicatesStay
<1>1. TypeOK /\ [Next]_vars =>
        [\A a, b \in Axis : a # b /\ node_id[a] = node_id[b]
                              => node_id'[a] = node_id[a] /\ node_id'[b] = node_id[b]]_vars
  <2> SUFFICES ASSUME TypeOK, Next,
                      NEW a \in Axis, NEW b \in Axis, a # b, node_id[a] = node_id[b]
               PROVE  node_id'[a] = node_id[a] /\ node_id'[b] = node_id[b]
    OBVIOUS
  <2>1. CASE UNCHANGED node_id
    BY <2>1
  <2>2. CASE read
    <3>1. PICK msg \in Message : handle_can_message(msg)
      <4>1. CASE HAL_CAN_GetRxFifoFillLevel > 0
        <5>1. fifo # <<>> /\ fifo \in Seq(Message)
          BY <4>1 DEF HAL_CAN_GetRxFifoFillLevel, TypeOK
        <5> QED
          BY <2>2, <4>1, <5>1 DEF read
      <4>2. CASE ~(HAL_CAN_GetRxFifoFillLevel > 0)
        BY <2>2, <4>2 DEF read
      <4> QED
        BY <4>1, <4>2
    <3> QED
      BY <3>1, MessageKeepsDuplicates DEF TypeOK
  <2>3. CASE can_server_thread /\ ~read
    <3>1. UNCHANGED node_id
      BY <2>3 DEF can_server_thread, CheckStatus, TakeTimeout, available, Activate, Reset,
         Restart, Answer, Send
    <3> QED
      BY <3>1
  <2>4. CASE ~can_server_thread
    <3>1. UNCHANGED node_id
      BY <2>4 DEF Next, send_heartbeat, SendOn, set_baud_rate, reinit_can, Transmit, Receive
    <3> QED
      BY <3>1
  <2> QED
    BY <2>1, <2>2, <2>3, <2>4
<1> QED
  BY <1>1, TypeCorrect, PTL DEF Spec, DuplicatesStay
=============================================================================
