------------------------- MODULE FibreChannel_proofs -------------------------
(***************************************************************************)
(* Proofs about FibreChannel, for every set of host threads and every      *)
(* number of calls, attempts and sequence numbers.                         *)
(***************************************************************************)
EXTENDS FibreChannel, FiniteSetTheorems, SequenceTheorems, TLAPS

-----------------------------------------------------------------------------
(* The inductive invariants.                                               *)

Request == [seq_no : SeqNo, call : Call, expect_ack : BOOLEAN]
Response == [seq_no : SeqNo, call : Call]
Receipt == [event : Call, seq_no : SeqNo, call : Call]

\* the host: what TypeOK says, and what is so from the start of a call on
HostTypes ==
    /\ outbound_seq_no \in SeqNo
    /\ expected_acks \in [SeqNo -> Call \cup {None}]
    /\ responses \in [SeqNo -> Call \cup {None}]
    /\ set \subseteq Call /\ channel_broken \in BOOLEAN
    /\ pc \in [Thread -> PC] /\ number \in [Thread -> 0 .. Calls]
    /\ seq_no \in [Thread -> SeqNo] /\ expect_ack \in [Thread -> BOOLEAN]
    /\ attempt \in [Thread -> 0 .. Attempts]
    /\ \A t \in Thread : pc[t] # "idle" => attempt[t] < Attempts /\ number[t] \in Number
    /\ status \in [Thread -> {"none", "open", "answered", "ended"}]
    /\ \A t \in Thread : pc[t] # "idle" <=> status[t] = "open"

\* what is under way
LinkTypes ==
    /\ down \in Seq(Request) /\ Len(down) <= Capacity
    /\ up \in Seq(Response) /\ Len(up) <= Capacity
    /\ received = None \/ received \in Receipt
    /\ executed \in [Thread -> 0 .. Calls]

Types == HostTypes /\ LinkTypes

\* The requests of a thread reach the device in the order of its calls.
InOrder ==
    /\ \A t \in Thread : executed[t] <= number[t]
    /\ \A i \in 1 .. Len(down) :
           LET c == down[i].call IN executed[c[1]] <= c[2] /\ c[2] <= number[c[1]]
    /\ \A i, j \in 1 .. Len(down) :
           i < j /\ down[i].call[1] = down[j].call[1] => down[i].call[2] <= down[j].call[2]

\* Only the device answers: the call of a response has been executed.
WasExecuted(c, last) == c[2] <= last[c[1]]

Answered ==
    /\ \A i \in 1 .. Len(up) : WasExecuted(up[i].call, executed)
    /\ received # None => WasExecuted(received.call, executed)
    /\ \A s \in SeqNo : responses[s] # None => WasExecuted(responses[s], executed)

\* There are not more calls in all than tags: the sequence numbers of a channel
\* repeat after HardBit calls.
FewCalls == IsFiniteSet(Call) /\ Cardinality(Call) <= HardBit

\* the calls begun so far
Begun == {c \in Call : c[2] <= number[c[1]]}

\* call c uses sequence number s: it is open, or a packet or a response is left
Used(s, c) ==
    \/ \E t \in Thread : pc[t] # "idle" /\ s = seq_no[t] /\ c = Current(t)
    \/ \E i \in 1 .. Len(down) : s = down[i].seq_no /\ c = down[i].call
    \/ \E i \in 1 .. Len(up) : s = up[i].seq_no /\ c = up[i].call
    \/ received # None /\ s = received.seq_no /\ c = received.call
    \/ s \in SeqNo /\ responses[s] # None /\ c = responses[s]

\* No two calls use the same sequence number, and none uses one that is still
\* to come.
OneUser ==
    /\ outbound_seq_no = Cardinality(Begun)
    /\ \A s, c : Used(s, c) => \E n \in 1 .. outbound_seq_no : s = Tag(n)
    /\ \A s, c, d : Used(s, c) /\ Used(s, d) => c = d
-----------------------------------------------------------------------------
(* Sequence numbers.                                                       *)

\* an even number of HardBit blocks makes up the sequence numbers
LEMMA Blocks ==
    \E k \in Nat \ {0} : SeqCount = k * (2 * HardBit)
<1> DEFINE w == 2 * HardBit
           k == SeqCount \div w
<1>1. w \in Nat \ {0} /\ SeqCount \in Nat \ {0} /\ SeqCount % w = 0
  BY SeqAssumption
<1> HIDE DEF w
<1>2. k \in Nat /\ SeqCount = w * k
  BY <1>1
<1>3. k # 0
  BY <1>1, <1>2
<1>4. w * k = k * w
  BY <1>1, <1>2
<1> HIDE DEF k
<1>5. SeqCount = k * (2 * HardBit)
  BY <1>2, <1>4 DEF w
<1> QED
  BY <1>2, <1>3, <1>5

\* Tag stays in the range of the sequence numbers.
LEMMA TagInRange ==
    ASSUME NEW n \in SeqNo
    PROVE  Tag(n) \in SeqNo
<1>1. PICK k \in Nat \ {0} : SeqCount = k * (2 * HardBit)
  BY Blocks
<1>2. CASE (n \div HardBit) % 2 = 1
  BY <1>2 DEF Tag
<1>3. CASE (n \div HardBit) % 2 # 1
  <2> DEFINE h == HardBit
             q == n \div h
             r == n % h
  <2>1. h \in Nat \ {0} /\ n \in Nat /\ n < SeqCount
    BY SeqAssumption DEF SeqNo
  <2>2. q \in Nat /\ r \in 0 .. h - 1 /\ n = h * q + r
    BY <2>1
  <2>3. PICK p \in Nat : q = 2 * p
    <3>1. q % 2 = 0
      BY <1>3, <2>2
    <3> QED
      BY <2>2, <3>1
  <2> HIDE DEF q, r
  <2>4. n = (2 * h) * p + r
    BY <2>1, <2>2, <2>3
  <2>5. p < k
    <3> SUFFICES ASSUME p >= k PROVE FALSE
      BY <2>3
    <3>1. (2 * h) * p >= (2 * h) * k
      BY <2>1, <2>3
    <3> QED
      BY <1>1, <2>1, <2>2, <2>4, <3>1
  <2>6. (2 * h) * p <= (2 * h) * k - 2 * h
    <3>1. p <= k - 1
      BY <2>3, <2>5
    <3>2. (2 * h) * p <= (2 * h) * (k - 1)
      BY <2>1, <2>3, <3>1
    <3> QED
      BY <2>1, <3>2
  <2>7. n + h < SeqCount
    BY <1>1, <2>1, <2>2, <2>4, <2>6
  <2>8. Tag(n) = n + h
    BY <1>3 DEF Tag
  <2> HIDE DEF h
  <2>9. n + h \in 0 .. SeqCount - 1
    BY <2>1, <2>7, SeqAssumption
  <2> QED
    BY <2>8, <2>9 DEF SeqNo
<1> QED
  BY <1>2, <1>3

\* the number of the next operation stays in range as well
LEMMA NextInRange ==
    ASSUME NEW n \in SeqNo
    PROVE  (n + 1) % SeqCount \in SeqNo
BY SeqAssumption DEF SeqNo

\* The first HardBit operations have different tags: the last one is HardBit
\* itself, the others have the bit added.
LEMMA TagInjective ==
    ASSUME NEW m \in 1 .. HardBit, NEW n \in 1 .. HardBit, Tag(m) = Tag(n)
    PROVE  m = n
<1>1. HardBit \in Nat \ {0}
  BY SeqAssumption
<1>2. ASSUME NEW i \in 1 .. HardBit
      PROVE  Tag(i) = IF i = HardBit THEN HardBit ELSE i + HardBit
  <2>1. CASE i = HardBit
    <3>1. i \div HardBit = 1
      BY <1>1, <2>1
    <3> QED
      BY <2>1, <3>1 DEF Tag
  <2>2. CASE i # HardBit
    <3>1. i \div HardBit = 0
      BY <1>1, <2>2
    <3> QED
      BY <2>2, <3>1 DEF Tag
  <2> QED
    BY <2>1, <2>2
<1> QED
  BY <1>1, <1>2
-----------------------------------------------------------------------------
(* The steps of a call.                                                    *)

\* What a step of an operation leaves alone, sends, forgets and returns.
OperationStep(t) ==
    /\ pc[t] # "idle"
    /\ UNCHANGED <<outbound_seq_no, number, up, received, executed>>
    /\ down' = down \/ down' = Append(down, Packet(t))
    /\ \A u \in Thread : pc'[u] # "idle" => pc[u] # "idle" /\ seq_no'[u] = seq_no[u]
    /\ \A s \in SeqNo : responses'[s] \in {responses[s], None}
    /\ \/ UNCHANGED status
       \/ status' = [status EXCEPT ![t] = "ended"]
       \/ /\ pc[t] = "return" /\ responses[seq_no[t]] # None
          /\ status' = [status EXCEPT ![t] = "answered"]

\* the part of it that End and GoOn decide
CallStep(t, result) ==
    /\ UNCHANGED number
    /\ \A u \in Thread : pc'[u] # "idle" => pc[u] # "idle" /\ seq_no'[u] = seq_no[u]
    /\ \A s \in SeqNo : responses'[s] \in {responses[s], None}
    /\ \/ UNCHANGED status
       \/ status' = [status EXCEPT ![t] = "ended"]
       \/ status' = [status EXCEPT ![t] = result]

\* a call that ends is idle, and its entries are gone
LEMMA EndStep ==
    ASSUME HostTypes, UNCHANGED <<outbound_seq_no, channel_broken>>,
           NEW t \in Thread, NEW result \in {"answered", "ended"}, End(t, result)
    PROVE  HostTypes' /\ CallStep(t, result)
<1>1. /\ pc' = [pc EXCEPT ![t] = "idle"]
      /\ status' = [status EXCEPT ![t] = "ended"] \/ status' = [status EXCEPT ![t] = result]
      /\ seq_no' = [seq_no EXCEPT ![t] = 0]
      /\ expect_ack' = [expect_ack EXCEPT ![t] = FALSE]
      /\ attempt' = [attempt EXCEPT ![t] = 0]
      /\ set' \subseteq set
      /\ UNCHANGED number
  BY DEF End, Goto
<1>2. /\ expected_acks' \in [SeqNo -> Call \cup {None}]
      /\ responses' \in [SeqNo -> Call \cup {None}]
      /\ \A s \in SeqNo : responses'[s] \in {responses[s], None}
  BY DEF End, HostTypes
<1>3. 0 \in SeqNo /\ 0 \in 0 .. Attempts /\ "idle" \in PC
  BY SeqAssumption, AttemptsAssumption DEF SeqNo, PC
<1>4. HostTypes'
  BY <1>1, <1>2, <1>3 DEF HostTypes
<1> QED
  BY <1>1, <1>2, <1>4 DEF CallStep, HostTypes

\* a call that goes on keeps its number and its entries
LEMMA GoOnStep ==
    ASSUME HostTypes, UNCHANGED <<outbound_seq_no, channel_broken>>,
           NEW t \in Thread, pc[t] # "idle", NEW p \in {"send", "wait", "return"}, GoOn(t, p),
           \/ UNCHANGED attempt
           \/ attempt[t] + 1 < Attempts /\ attempt' = [attempt EXCEPT ![t] = @ + 1]
    PROVE  HostTypes' /\ CallStep(t, "ended")
<1>1. /\ pc' = [pc EXCEPT ![t] = p]
      /\ UNCHANGED <<expected_acks, responses, set, number, seq_no, expect_ack, status>>
  BY DEF GoOn, Goto, dictionaries
<1>2. attempt' \in [Thread -> 0 .. Attempts] /\ attempt'[t] < Attempts
      /\ \A u \in Thread \ {t} : attempt'[u] = attempt[u]
  BY AttemptsAssumption DEF HostTypes
<1>3. p \in PC /\ p # "idle"
  BY DEF PC
<1>4. HostTypes'
  BY <1>1, <1>2, <1>3 DEF HostTypes
<1> QED
  BY <1>1, <1>4 DEF CallStep, HostTypes

\* the next attempt, or the end of the last one
LEMMA RetryStep ==
    ASSUME HostTypes, UNCHANGED <<outbound_seq_no, channel_broken>>,
           NEW t \in Thread, pc[t] # "idle", Retry(t)
    PROVE  HostTypes' /\ CallStep(t, "ended")
<1>1. CASE attempt[t] + 1 < Attempts
  BY <1>1, GoOnStep DEF Retry
<1>2. CASE ~(attempt[t] + 1 < Attempts)
  BY <1>2, EndStep DEF Retry
<1> QED
  BY <1>1, <1>2

\* a packet that is sent
LEMMA PacketSent ==
    ASSUME Types, NEW t \in Thread, pc[t] # "idle", Len(down) < Capacity,
           down' = Append(down, Packet(t))
    PROVE  down' \in Seq(Request) /\ Len(down') <= Capacity
<1>1. Packet(t) \in Request
  BY DEF Types, HostTypes, Packet, Request, Current, Call
<1>2. down' \in Seq(Request) /\ Len(down') = Len(down) + 1
  BY <1>1, AppendProperties DEF Types, LinkTypes
<1> QED
  BY <1>2, CapacityAssumption, LenProperties DEF Types, LinkTypes

\* Every step of remote_endpoint_operation is such a step.
LEMMA OperationSteps ==
    ASSUME Types, NEW t \in Thread, Operation(t)
    PROVE  Types' /\ OperationStep(t)
<1> USE DEF Types
<1>1. CASE Register(t)
  <2>1. /\ pc[t] # "idle" /\ pc' = [pc EXCEPT ![t] = "send"]
        /\ expected_acks' = [expected_acks EXCEPT ![seq_no[t]] = Current(t)]
        /\ UNCHANGED <<outbound_seq_no, responses, set, channel_broken, number, seq_no,
                       expect_ack, attempt, received, status, down, up, executed>>
    BY <1>1 DEF Register, Goto, locals, device
  <2>2. Current(t) \in Call
    BY <2>1 DEF HostTypes, Current, Call
  <2>3. HostTypes'
    BY <2>1, <2>2 DEF HostTypes, PC
  <2>4. LinkTypes'
    BY <2>1 DEF LinkTypes
  <2> QED
    BY <2>1, <2>3, <2>4 DEF OperationStep, HostTypes
<1>2. CASE Send(t)
  <2>1. /\ pc[t] # "idle" /\ Len(down) < Capacity /\ down' = Append(down, Packet(t))
        /\ UNCHANGED <<outbound_seq_no, channel_broken, up, received, executed>>
    BY <1>2 DEF Send
  <2>2. HostTypes' /\ CallStep(t, "ended")
    BY <1>2, <2>1, EndStep, GoOnStep DEF Send
  <2>3. LinkTypes'
    BY <2>1, PacketSent DEF LinkTypes
  <2> QED
    BY <2>1, <2>2, <2>3 DEF OperationStep, CallStep
<1>3. CASE SendFails(t)
  <2>1. /\ pc[t] # "idle"
        /\ \/ down' = down
           \/ Len(down) < Capacity /\ down' = Append(down, Packet(t))
        /\ UNCHANGED <<outbound_seq_no, channel_broken, up, received, executed>>
    BY <1>3 DEF SendFails
  <2>2. HostTypes' /\ CallStep(t, "ended")
    BY <1>3, <2>1, EndStep, RetryStep DEF SendFails
  <2>3. LinkTypes'
    BY <2>1, PacketSent DEF LinkTypes
  <2> QED
    BY <2>1, <2>2, <2>3 DEF OperationStep, CallStep
<1>4. CASE Wait(t)
  <2>1. pc[t] # "idle" /\ UNCHANGED <<outbound_seq_no, channel_broken, received, down, up, executed>>
    BY <1>4 DEF Wait, device
  <2>2. HostTypes' /\ CallStep(t, "ended")
    BY <1>4, <2>1, EndStep, GoOnStep, RetryStep DEF Wait
  <2>3. LinkTypes'
    BY <2>1 DEF LinkTypes
  <2> QED
    BY <2>1, <2>2, <2>3 DEF OperationStep, CallStep
<1>5. CASE Return(t)
  <2> DEFINE result == IF responses[seq_no[t]] = None THEN "ended" ELSE "answered"
  <2>1. /\ pc[t] = "return" /\ End(t, result)
        /\ UNCHANGED <<outbound_seq_no, channel_broken, received, down, up, executed>>
    BY <1>5 DEF Return, device
  <2>2. result \in {"answered", "ended"} /\ (result = "answered" => responses[seq_no[t]] # None)
    OBVIOUS
  <2> HIDE DEF result
  <2>3. HostTypes' /\ CallStep(t, result)
    BY <2>1, <2>2, EndStep
  <2>4. LinkTypes'
    BY <2>1 DEF LinkTypes
  <2> QED
    BY <2>1, <2>2, <2>3, <2>4 DEF OperationStep, CallStep
<1>6. CASE Lock(t)
  <2>1. /\ pc[t] # "idle" /\ pc' = [pc EXCEPT ![t] = "write"]
        /\ UNCHANGED <<outbound_seq_no, expected_acks, responses, set, channel_broken,
                       number, seq_no, expect_ack, attempt, received, status, down, up,
                       executed>>
    BY <1>6 DEF Lock, Goto, dictionaries, locals, device
  <2>2. HostTypes'
    BY <2>1 DEF HostTypes, PC
  <2>3. LinkTypes'
    BY <2>1 DEF LinkTypes
  <2> QED
    BY <2>1, <2>2, <2>3 DEF OperationStep, HostTypes
<1> QED
  BY <1>1, <1>2, <1>3, <1>4, <1>5, <1>6 DEF Operation, Proceed, Write
\* A call begins with a number of its own and the next sequence number.
LEMMA BeginSteps ==
    ASSUME Types, NEW t \in Thread, NextSeqNo(t)
    PROVE  Types'
<1>1. PICK ack \in BOOLEAN :
          /\ expect_ack' = [expect_ack EXCEPT ![t] = ack]
          /\ pc' = [pc EXCEPT ![t] = IF ack THEN "register" ELSE "write"]
  BY DEF NextSeqNo, Goto
<1>2. /\ number[t] < Calls /\ number' = [number EXCEPT ![t] = @ + 1]
      /\ outbound_seq_no' = (outbound_seq_no + 1) % SeqCount
      /\ seq_no' = [seq_no EXCEPT ![t] = Tag(outbound_seq_no')]
      /\ attempt' = [attempt EXCEPT ![t] = 0]
      /\ status' = [status EXCEPT ![t] = "open"]
      /\ UNCHANGED <<expected_acks, responses, set, channel_broken, received, down, up, executed>>
  BY DEF NextSeqNo, dictionaries, device
<1>3. outbound_seq_no' \in SeqNo /\ Tag(outbound_seq_no') \in SeqNo
  BY <1>2, NextInRange, TagInRange DEF Types, HostTypes
<1>4. number[t] + 1 \in Number /\ 0 \in 0 .. Attempts /\ 0 < Attempts
  BY <1>2, CallsAssumption, AttemptsAssumption DEF Types, HostTypes, Number
<1>5. number' \in [Thread -> 0 .. Calls] /\ number'[t] \in Number
  BY <1>2, <1>4 DEF Types, HostTypes, Number
<1>6. pc' \in [Thread -> PC] /\ pc'[t] # "idle"
  BY <1>1 DEF Types, HostTypes, PC
<1>7. HostTypes'
  BY <1>1, <1>2, <1>3, <1>4, <1>5, <1>6 DEF Types, HostTypes
<1>8. LinkTypes'
  BY <1>2 DEF Types, LinkTypes
<1> QED
  BY <1>7, <1>8 DEF Types

\* The receiver thread, the device and the link.
LEMMA LinkSteps ==
    ASSUME Types, Receive \/ Deliver \/ Break \/ process_packet \/ Lose
    PROVE  Types'
<1> USE DEF Types
<1>1. CASE Receive
  <2>1. Head(up) \in Response /\ up' \in Seq(Response) /\ Len(up') <= Capacity
    BY <1>1, HeadTailProperties, LenProperties, CapacityAssumption DEF Receive, LinkTypes
  <2>2. received' = None \/ received' \in Receipt
    BY <1>1, <2>1 DEF Receive, Response, Receipt, HostTypes
  <2>3. HostTypes'
    BY <1>1 DEF Receive, HostTypes, dictionaries, locals
  <2>4. LinkTypes'
    BY <1>1, <2>1, <2>2 DEF Receive, LinkTypes
  <2> QED
    BY <2>3, <2>4
<1>2. CASE Deliver
  <2>1. received \in Receipt
    BY <1>2 DEF Deliver, LinkTypes
  <2>2. responses' \in [SeqNo -> Call \cup {None}] /\ set' \subseteq Call
    BY <1>2, <2>1 DEF Deliver, Receipt, HostTypes
  <2>3. HostTypes'
    BY <1>2, <2>2 DEF Deliver, HostTypes, locals
  <2>4. LinkTypes'
    BY <1>2 DEF Deliver, LinkTypes, device
  <2> QED
    BY <2>3, <2>4
<1>3. CASE Break
  BY <1>3 DEF Break, HostTypes, LinkTypes, dictionaries, locals, device
<1>4. CASE process_packet
  <2>1. Head(down) \in Request /\ down' \in Seq(Request) /\ Len(down') <= Capacity
    BY <1>4, HeadTailProperties, LenProperties, CapacityAssumption DEF process_packet, LinkTypes
  <2> DEFINE m == Head(down)
  <2>2. executed' = [executed EXCEPT ![m.call[1]] = m.call[2]]
    BY <1>4 DEF process_packet
  <2>3. m.call[1] \in Thread /\ m.call[2] \in 0 .. Calls
    BY <2>1, CallsAssumption DEF Request, Call, Number
  <2>4. executed' \in [Thread -> 0 .. Calls]
    BY <2>2, <2>3 DEF LinkTypes
  <2>5. up' \in Seq(Response) /\ Len(up') <= Capacity
    <3>1. CASE UNCHANGED up
      BY <3>1 DEF LinkTypes
    <3>2. CASE Len(up) < Capacity /\ up' = Append(up, [seq_no |-> m.seq_no, call |-> m.call])
      <4>1. [seq_no |-> m.seq_no, call |-> m.call] \in Response
        BY <2>1 DEF Request, Response
      <4>2. up' \in Seq(Response) /\ Len(up') = Len(up) + 1
        BY <3>2, <4>1, AppendProperties DEF LinkTypes
      <4> QED
        BY <3>2, <4>2, CapacityAssumption, LenProperties DEF LinkTypes
    <3> QED
      BY <1>4, <3>1, <3>2 DEF process_packet
  <2>6. HostTypes'
    BY <1>4 DEF process_packet, HostTypes, dictionaries, locals
  <2>7. LinkTypes'
    BY <1>4, <2>1, <2>4, <2>5 DEF process_packet, LinkTypes
  <2> QED
    BY <2>6, <2>7
<1>5. CASE Lose
  <2>1. down' \in Seq(Request) /\ Len(down') <= Capacity
    BY <1>5, HeadTailProperties, LenProperties, CapacityAssumption DEF Lose, LinkTypes
  <2> QED
    BY <1>5, <2>1 DEF Lose, HostTypes, LinkTypes, dictionaries, locals
<1> QED
  BY <1>1, <1>2, <1>3, <1>4, <1>5

LEMMA TypesInit == Init => Types
<1> SUFFICES ASSUME Init PROVE Types
  OBVIOUS
<1>1. 0 \in SeqNo /\ 0 \in 0 .. Calls /\ 0 \in 0 .. Attempts
  BY SeqAssumption, CallsAssumption, AttemptsAssumption DEF SeqNo
<1>2. HostTypes
  BY <1>1 DEF Init, HostTypes, PC
<1>3. down \in Seq(Request) /\ Len(down) = 0 /\ up \in Seq(Response) /\ Len(up) = 0
  BY EmptySeq DEF Init
<1>4. LinkTypes
  BY <1>1, <1>3, CapacityAssumption DEF Init, LinkTypes
<1> QED
  BY <1>2, <1>4 DEF Types

LEMMA TypesStep == Types /\ [Next]_vars => Types'
<1> SUFFICES ASSUME Types, [Next]_vars PROVE Types'
  OBVIOUS
<1>1. CASE UNCHANGED vars
  BY <1>1 DEF Types, HostTypes, LinkTypes, vars
<1>2. CASE Next
  BY <1>2, BeginSteps, OperationSteps, LinkSteps DEF Next
<1> QED
  BY <1>1, <1>2

THEOREM TypesInvariant == Spec => []Types
BY TypesInit, TypesStep, PTL DEF Spec

\* Every reachable state is well typed, for any number of threads, calls and
\* attempts: a sequence number with its hardwired bit is still one, and a call
\* never has more attempts than _send_attempts.
THEOREM TypeCorrect == Spec => []TypeOK
<1>1. Types => TypeOK
  BY DEF Types, HostTypes, LinkTypes, TypeOK
<1> QED
  BY <1>1, TypesInvariant, PTL
-----------------------------------------------------------------------------
(* The order of the requests.                                              *)

\* the oldest packet leaves: what is left was there, one place further on
LEMMA TailKeeps ==
    ASSUME NEW S, NEW q \in Seq(S), q # <<>>
    PROVE  /\ Head(q) = q[1] /\ Len(q) \in Nat /\ 1 \in 1 .. Len(q)
           /\ Len(Tail(q)) = Len(q) - 1
           /\ \A i \in 1 .. Len(Tail(q)) : i + 1 \in 1 .. Len(q) /\ Tail(q)[i] = q[i + 1]
<1>1. Len(q) \in Nat \ {0}
  BY EmptySeq, LenProperties
<1>2. /\ Len(Tail(q)) = Len(q) - 1
      /\ \A i \in 1 .. Len(Tail(q)) : Tail(q)[i] = q[i + 1]
  BY HeadTailProperties
<1>3. Head(q) = q[1]
  BY <1>1
<1> QED
  BY <1>1, <1>2, <1>3

\* a new packet goes behind the others
LEMMA AppendKeeps ==
    ASSUME NEW S, NEW q \in Seq(S), NEW e \in S
    PROVE  /\ Len(q) \in Nat /\ Len(Append(q, e)) = Len(q) + 1
           /\ \A i \in 1 .. Len(q) : Append(q, e)[i] = q[i]
           /\ Append(q, e)[Len(q) + 1] = e
BY AppendProperties, LenProperties

\* the call of a packet is a pair of a thread and a number
LEMMA CallParts ==
    ASSUME NEW c \in Call
    PROVE  c[1] \in Thread /\ c[2] \in Nat /\ c[2] <= Calls /\ c = <<c[1], c[2]>>
BY CallsAssumption DEF Call, Number

LEMMA DownCalls ==
    ASSUME LinkTypes
    PROVE  \A i \in 1 .. Len(down) : down[i] \in Request /\ down[i].call \in Call
<1>1. down \in Seq(Request)
  BY DEF LinkTypes
<1>2. \A i \in 1 .. Len(down) : down[i] \in Request
  BY <1>1, ElementOfSeq
<1> QED
  BY <1>2 DEF Request

LEMMA UpCalls ==
    ASSUME LinkTypes
    PROVE  \A i \in 1 .. Len(up) : up[i] \in Response /\ up[i].call \in Call
<1>1. up \in Seq(Response)
  BY DEF LinkTypes
<1>2. \A i \in 1 .. Len(up) : up[i] \in Response
  BY <1>1, ElementOfSeq
<1> QED
  BY <1>2 DEF Response

\* fewer requests under way, and later calls, disturb nothing
LEMMA InOrderKept ==
    ASSUME Types, InOrder, UNCHANGED <<executed, down>>,
           number' \in [Thread -> 0 .. Calls], \A t \in Thread : number'[t] >= number[t]
    PROVE  InOrder'
<1>1. \A t \in Thread : executed'[t] <= number'[t]
  BY DEF InOrder, Types, HostTypes, LinkTypes
<1>2. ASSUME NEW i \in 1 .. Len(down)
      PROVE  LET c == down[i].call IN executed[c[1]] <= c[2] /\ c[2] <= number'[c[1]]
  <2>1. down[i].call \in Call
    BY DownCalls DEF Types
  <2> QED
    BY <2>1, CallParts DEF InOrder, Types, HostTypes, LinkTypes
<1> QED
  BY <1>1, <1>2 DEF InOrder

LEMMA InOrderSent ==
    ASSUME Types, InOrder, UNCHANGED <<executed, number>>,
           NEW t \in Thread, pc[t] # "idle", down' = Append(down, Packet(t))
    PROVE  InOrder'
<1>1. Packet(t) \in Request /\ Packet(t).call = <<t, number[t]>>
  BY DEF Types, HostTypes, Packet, Request, Current, Call
<1>2. /\ Len(down) \in Nat /\ Len(down') = Len(down) + 1
      /\ \A i \in 1 .. Len(down) : down'[i] = down[i]
      /\ down'[Len(down) + 1] = Packet(t)
  BY <1>1, AppendKeeps DEF Types, LinkTypes
<1>3. \A i \in 1 .. Len(down') : i \in 1 .. Len(down) \/ i = Len(down) + 1
  BY <1>2
<1>4. ASSUME NEW i \in 1 .. Len(down')
      PROVE  LET c == down'[i].call IN executed[c[1]] <= c[2] /\ c[2] <= number[c[1]]
  <2>1. CASE i \in 1 .. Len(down)
    BY <1>2, <2>1 DEF InOrder
  <2>2. CASE i = Len(down) + 1
    BY <1>1, <1>2, <2>2 DEF InOrder, Types, HostTypes
  <2> QED
    BY <1>3, <2>1, <2>2
<1>5. ASSUME NEW i \in 1 .. Len(down'), NEW j \in 1 .. Len(down'), i < j,
             down'[i].call[1] = down'[j].call[1]
      PROVE  down'[i].call[2] <= down'[j].call[2]
  <2>1. i \in 1 .. Len(down)
    BY <1>2, <1>5
  <2>2. CASE j \in 1 .. Len(down)
    BY <1>2, <1>5, <2>1, <2>2 DEF InOrder
  <2>3. CASE j = Len(down) + 1
    BY <1>1, <1>2, <1>5, <2>1, <2>3 DEF InOrder
  <2> QED
    BY <1>3, <2>2, <2>3
<1> QED
  BY <1>4, <1>5 DEF InOrder

\* the device takes the oldest request and may execute it
LEMMA InOrderTaken ==
    ASSUME Types, InOrder, UNCHANGED number, down # <<>>, down' = Tail(down),
           \/ UNCHANGED executed
           \/ executed' = [executed EXCEPT ![Head(down).call[1]] = Head(down).call[2]]
    PROVE  InOrder' /\ \A t \in Thread : executed[t] <= executed'[t]
<1> DEFINE m == down[1]
<1>1. /\ Head(down) = m /\ Len(down) \in Nat /\ 1 \in 1 .. Len(down)
      /\ Len(down') = Len(down) - 1
      /\ \A i \in 1 .. Len(down') : i + 1 \in 1 .. Len(down) /\ down'[i] = down[i + 1]
  BY TailKeeps DEF Types, LinkTypes
<1>2. /\ m.call[1] \in Thread /\ m.call[2] \in Nat
      /\ executed[m.call[1]] <= m.call[2] /\ m.call[2] <= number[m.call[1]]
  BY <1>1, DownCalls, CallParts DEF Types, InOrder
<1>3. \A t \in Thread : executed[t] \in Nat /\ executed'[t] \in {executed[t], m.call[2]}
                        /\ (t # m.call[1] => executed'[t] = executed[t])
  BY <1>1, <1>2 DEF Types, LinkTypes
<1>4. \A t \in Thread : executed[t] <= executed'[t] /\ executed'[t] <= number'[t]
  BY <1>2, <1>3 DEF InOrder
<1>5. ASSUME NEW i \in 1 .. Len(down')
      PROVE  LET c == down'[i].call IN executed'[c[1]] <= c[2] /\ c[2] <= number'[c[1]]
  <2> DEFINE c == down[i + 1].call
  <2>1. down'[i] = down[i + 1] /\ i + 1 \in 1 .. Len(down) /\ 1 < i + 1
    BY <1>1
  <2>2. /\ c[1] \in Thread /\ c[2] \in Nat
        /\ executed[c[1]] <= c[2] /\ c[2] <= number[c[1]]
    BY <2>1, DownCalls, CallParts DEF Types, InOrder
  <2>3. m.call[1] = c[1] => m.call[2] <= c[2]
    BY <1>1, <2>1 DEF InOrder
  <2> HIDE DEF c, m
  <2>4. executed'[c[1]] <= c[2]
    BY <1>3, <2>2, <2>3
  <2> QED
    BY <2>1, <2>2, <2>4 DEF c
<1>6. ASSUME NEW i \in 1 .. Len(down'), NEW j \in 1 .. Len(down'), i < j,
             down'[i].call[1] = down'[j].call[1]
      PROVE  down'[i].call[2] <= down'[j].call[2]
  <2>1. /\ down'[i] = down[i + 1] /\ i + 1 \in 1 .. Len(down)
        /\ down'[j] = down[j + 1] /\ j + 1 \in 1 .. Len(down)
        /\ i + 1 < j + 1
    BY <1>1, <1>6
  <2> QED
    BY <1>6, <2>1 DEF InOrder
<1> QED
  BY <1>4, <1>5, <1>6 DEF InOrder

LEMMA InOrderStep == Types /\ InOrder /\ [Next]_vars
                         => InOrder' /\ \A t \in Thread : executed[t] <= executed'[t]
<1> SUFFICES ASSUME Types, InOrder, [Next]_vars
             PROVE  InOrder' /\ \A t \in Thread : executed[t] <= executed'[t]
  OBVIOUS
<1>0. \A t \in Thread : executed[t] <= executed[t]
  BY DEF Types, LinkTypes
<1>1. CASE UNCHANGED vars
  BY <1>0, <1>1 DEF InOrder, vars
<1>2. ASSUME NEW t \in Thread, NextSeqNo(t)
      PROVE  InOrder' /\ UNCHANGED executed
  <2>1. UNCHANGED <<executed, down>> /\ number' = [number EXCEPT ![t] = @ + 1]
    BY <1>2 DEF NextSeqNo, device
  <2>2. number' \in [Thread -> 0 .. Calls]
    BY <1>2, BeginSteps DEF Types, HostTypes
  <2>3. \A u \in Thread : number'[u] >= number[u]
    BY <2>1 DEF Types, HostTypes
  <2> QED
    BY <2>1, <2>2, <2>3, InOrderKept
<1>3. ASSUME NEW t \in Thread, Operation(t)
      PROVE  InOrder' /\ UNCHANGED executed
  <2>1. OperationStep(t)
    BY <1>3, OperationSteps
  <2>2. CASE UNCHANGED down
    BY <2>1, <2>2 DEF OperationStep, InOrder
  <2>3. CASE down' = Append(down, Packet(t))
    BY <2>1, <2>3, InOrderSent DEF OperationStep
  <2> QED
    BY <2>1, <2>2, <2>3 DEF OperationStep
<1>4. CASE Receive \/ Deliver \/ Break
  BY <1>0, <1>4 DEF Receive, Deliver, Break, device, InOrder
<1>5. CASE process_packet \/ Lose
  <2>1. UNCHANGED number /\ down # <<>> /\ down' = Tail(down)
    BY <1>5 DEF process_packet, Lose
  <2>2. \/ UNCHANGED executed
        \/ executed' = [executed EXCEPT ![Head(down).call[1]] = Head(down).call[2]]
    BY <1>5 DEF process_packet, Lose
  <2> QED
    BY <2>1, <2>2, InOrderTaken
<1> QED
  BY <1>0, <1>1, <1>2, <1>3, <1>4, <1>5 DEF Next
-----------------------------------------------------------------------------
(* The answers.                                                            *)

\* a call that has been executed stays so
LEMMA ExecutedForGood ==
    ASSUME Types, \A t \in Thread : executed'[t] \in Nat /\ executed[t] <= executed'[t],
           NEW c \in Call, WasExecuted(c, executed)
    PROVE  WasExecuted(c, executed')
<1>1. c[1] \in Thread /\ c[2] \in Nat /\ executed[c[1]] \in Nat
  BY CallParts DEF Types, LinkTypes
<1> QED
  BY <1>1 DEF WasExecuted

\* responses that are dropped or taken, or stay, have been executed
LEMMA AnsweredKept ==
    ASSUME Types, Answered, UNCHANGED up, received' \in {received, None},
           \A s \in SeqNo : responses'[s] \in {responses[s], None},
           \A t \in Thread : executed'[t] \in Nat /\ executed[t] <= executed'[t]
    PROVE  Answered'
<1>2. \A i \in 1 .. Len(up) : WasExecuted(up[i].call, executed')
  BY ExecutedForGood, UpCalls DEF Types, Answered
<1>3. received' # None => WasExecuted(received'.call, executed')
  BY ExecutedForGood DEF Types, LinkTypes, Receipt, Answered
<1>4. ASSUME NEW s \in SeqNo, responses'[s] # None
      PROVE  WasExecuted(responses'[s], executed')
  BY <1>4, ExecutedForGood DEF Types, HostTypes, Answered
<1> QED
  BY <1>2, <1>3, <1>4 DEF Answered

LEMMA AnsweredStep == Types /\ InOrder /\ Answered /\ [Next]_vars => Answered'
<1> SUFFICES ASSUME Types, InOrder, Answered, [Next]_vars PROVE Answered'
  OBVIOUS
<1>0. \A t \in Thread : /\ executed[t] \in Nat /\ executed'[t] \in Nat
                        /\ executed[t] <= executed'[t]
  BY InOrderStep, TypesStep DEF Types, LinkTypes
<1>1. CASE UNCHANGED vars
  BY <1>1 DEF Answered, WasExecuted, vars
<1>2. ASSUME NEW t \in Thread, NextSeqNo(t) PROVE Answered'
  BY <1>0, <1>2, AnsweredKept DEF NextSeqNo, dictionaries, device
<1>3. ASSUME NEW t \in Thread, Operation(t) PROVE Answered'
  <2>1. OperationStep(t)
    BY <1>3, OperationSteps
  <2> QED
    BY <1>0, <2>1, AnsweredKept DEF OperationStep
<1>4. CASE Receive
  <2> DEFINE m == up[1]
  <2>1. /\ Head(up) = m /\ 1 \in 1 .. Len(up)
        /\ \A i \in 1 .. Len(Tail(up)) : i + 1 \in 1 .. Len(up) /\ Tail(up)[i] = up[i + 1]
    BY <1>4, TailKeeps DEF Receive, Types, LinkTypes
  <2>2. received' = None \/ received'.call = m.call
    BY <1>4, <2>1 DEF Receive
  <2>3. up' = Tail(up) /\ UNCHANGED <<responses, executed>>
    BY <1>4 DEF Receive, dictionaries
  <2> HIDE DEF m
  <2> QED
    BY <2>1, <2>2, <2>3 DEF Answered, WasExecuted, m
<1>5. CASE Deliver
  <2>1. received \in Receipt /\ WasExecuted(received.call, executed)
    BY <1>5 DEF Deliver, Types, LinkTypes, Answered
  <2>2. /\ responses' = [responses EXCEPT ![received.seq_no] = received.call]
        /\ received' = None /\ UNCHANGED <<up, executed>>
    BY <1>5 DEF Deliver, device
  <2>3. \A s \in SeqNo : responses'[s] \in {responses[s], received.call}
    BY <2>1, <2>2 DEF Types, HostTypes
  <2> QED
    BY <2>1, <2>2, <2>3 DEF Answered, WasExecuted
<1>6. CASE Break \/ Lose
  BY <1>6 DEF Break, Lose, Answered, WasExecuted, dictionaries, device
<1>7. CASE process_packet
  <2> DEFINE m == Head(down)
  <2>1. m \in Request
    BY <1>7, HeadTailProperties DEF process_packet, Types, LinkTypes
  <2>2. m.call \in Call /\ m.call[1] \in Thread /\ m.call[2] \in Nat
    BY <2>1, CallParts DEF Request
  <2>3. executed' = [executed EXCEPT ![m.call[1]] = m.call[2]] /\ UNCHANGED <<received, responses>>
    BY <1>7 DEF process_packet, dictionaries
  <2>4. WasExecuted(m.call, executed')
    BY <2>2, <2>3 DEF Types, LinkTypes, WasExecuted
  <2>5. CASE UNCHANGED up
    BY <1>0, <2>3, <2>5, AnsweredKept
  <2>6. CASE up' = Append(up, [seq_no |-> m.seq_no, call |-> m.call])
    <3> DEFINE e == [seq_no |-> m.seq_no, call |-> m.call]
    <3>1. e \in Response /\ e.call = m.call
      BY <2>1 DEF Request, Response
    <3>2. /\ Len(up) \in Nat /\ Len(up') = Len(up) + 1
          /\ \A i \in 1 .. Len(up) : up'[i] = up[i]
          /\ up'[Len(up) + 1] = e
      BY <2>6, <3>1, AppendKeeps DEF Types, LinkTypes
    <3>3. ASSUME NEW i \in 1 .. Len(up') PROVE WasExecuted(up'[i].call, executed')
      <4>1. CASE i \in 1 .. Len(up)
        BY <1>0, <3>2, <4>1, UpCalls, ExecutedForGood DEF Types, Answered
      <4>2. CASE i = Len(up) + 1
        BY <2>4, <3>1, <3>2, <4>2
      <4> QED
        BY <3>2, <4>1, <4>2
    <3>4. received' # None => WasExecuted(received'.call, executed')
      BY <1>0, <2>3, ExecutedForGood DEF Types, LinkTypes, Receipt, Answered
    <3>5. \A s \in SeqNo : responses'[s] # None => WasExecuted(responses'[s], executed')
      BY <1>0, <2>3, ExecutedForGood DEF Types, HostTypes, Answered
    <3> QED
      BY <3>3, <3>4, <3>5 DEF Answered
  <2> QED
    BY <1>7, <2>5, <2>6 DEF process_packet
<1> QED
  BY <1>1, <1>2, <1>3, <1>4, <1>5, <1>6, <1>7 DEF Next
-----------------------------------------------------------------------------
(* The users of a sequence number.                                         *)

\* the calls begun so far are few
LEMMA BegunFew ==
    ASSUME FewCalls
    PROVE  /\ IsFiniteSet(Begun) /\ Cardinality(Begun) \in Nat /\ Cardinality(Begun) <= HardBit
           /\ HardBit < SeqCount
<1>1. Begun \in SUBSET Call
  BY DEF Begun
<1>2. IsFiniteSet(Begun) /\ Cardinality(Begun) <= Cardinality(Call) /\ Cardinality(Begun) \in Nat
  BY <1>1, FS_Subset, FS_CardinalityType DEF FewCalls
<1>3. Cardinality(Call) \in Nat
  BY FS_CardinalityType DEF FewCalls
<1>4. PICK k \in Nat \ {0} : SeqCount = k * (2 * HardBit)
  BY Blocks
<1>5. k * (2 * HardBit) >= 2 * HardBit
  BY SeqAssumption
<1> QED
  BY <1>2, <1>3, <1>4, <1>5, SeqAssumption DEF FewCalls

\* a step that begins no call and makes none a user keeps everything
LEMMA OneUserKept ==
    ASSUME OneUser, UNCHANGED <<outbound_seq_no, number>>,
           \A s, c : Used(s, c)' => Used(s, c)
    PROVE  OneUser'
<1>1. Begun' = Begun
  BY DEF Begun
<1> QED
  BY <1>1 DEF OneUser

LEMMA OneUserInit == FewCalls /\ Init => OneUser
<1> SUFFICES ASSUME FewCalls, Init PROVE OneUser
  OBVIOUS
<1>1. Begun = {}
  BY CallsAssumption DEF Init, Begun, Call, Number
<1>2. ASSUME NEW s, NEW c, Used(s, c) PROVE FALSE
  <2>1. Len(down) = 0 /\ Len(up) = 0
    BY EmptySeq DEF Init
  <2> QED
    BY <1>2, <2>1 DEF Init, Used
<1> QED
  BY <1>1, <1>2, FS_EmptySet DEF OneUser, Init

\* A call that begins takes a tag that no other has had.
LEMMA OneUserBegins ==
    ASSUME FewCalls, Types, OneUser, NEW t \in Thread, NextSeqNo(t)
    PROVE  OneUser'
<1> DEFINE n == outbound_seq_no
           new == <<t, number[t] + 1>>
<1>1. /\ pc[t] = "idle" /\ number[t] < Calls /\ number' = [number EXCEPT ![t] = @ + 1]
      /\ outbound_seq_no' = (n + 1) % SeqCount
      /\ seq_no' = [seq_no EXCEPT ![t] = Tag(outbound_seq_no')]
      /\ \A u \in Thread \ {t} : pc'[u] = pc[u]
      /\ UNCHANGED <<responses, received, down, up>>
  BY DEF NextSeqNo, Goto, Types, HostTypes, dictionaries, device
<1>2. new \in Call /\ new \notin Begun /\ Begun' = Begun \cup {new}
  <2>1. number[t] \in Nat /\ new \in Call
    BY <1>1, CallsAssumption DEF Types, HostTypes, Call, Number
  <2>2. new \notin Begun
    BY <2>1 DEF Begun
  <2>3. ASSUME NEW c \in Call PROVE c \in Begun' <=> c \in Begun \/ c = new
    <3>1. c[1] \in Thread /\ c[2] \in Nat /\ c = <<c[1], c[2]>>
      BY CallParts
    <3>2. number'[c[1]] = IF c[1] = t THEN number[t] + 1 ELSE number[c[1]]
      BY <1>1, <3>1 DEF Types, HostTypes
    <3>3. c = new <=> c[1] = t /\ c[2] = number[t] + 1
      BY <3>1
    <3>4. number[c[1]] \in Nat
      BY <3>1 DEF Types, HostTypes
    <3> QED
      BY <2>1, <3>1, <3>2, <3>3, <3>4 DEF Begun
  <2> QED
    BY <2>1, <2>2, <2>3 DEF Begun
<1>3. n = Cardinality(Begun) /\ n \in Nat /\ Cardinality(Begun') = n + 1 /\ n + 1 <= HardBit
  <2>1. Cardinality(Begun \cup {new}) = Cardinality(Begun) + 1
    BY <1>2, BegunFew, FS_AddElement
  <2>2. Begun' \in SUBSET Call
    BY DEF Begun
  <2>3. Cardinality(Begun') <= Cardinality(Call) /\ Cardinality(Call) \in Nat
    BY <2>2, FS_Subset, FS_CardinalityType DEF FewCalls
  <2> QED
    BY <1>2, <2>1, <2>3, BegunFew, SeqAssumption DEF OneUser, FewCalls
<1>4. outbound_seq_no' = n + 1
  <2>1. n + 1 \in Nat /\ n + 1 < SeqCount /\ SeqCount \in Nat \ {0}
    BY <1>3, BegunFew, SeqAssumption
  <2> QED
    BY <1>1, <2>1
<1>5. ASSUME NEW s, NEW c, Used(s, c)' PROVE Used(s, c) \/ (s = Tag(n + 1) /\ c = new)
  <2>1. CASE \E u \in Thread : pc'[u] # "idle" /\ s = seq_no'[u] /\ c = <<u, number'[u]>>
    <3>1. PICK u \in Thread : pc'[u] # "idle" /\ s = seq_no'[u] /\ c = <<u, number'[u]>>
      BY <2>1
    <3>2. CASE u = t
      BY <1>1, <1>4, <3>1, <3>2 DEF Types, HostTypes
    <3>3. CASE u # t
      BY <1>1, <3>1, <3>3 DEF Types, HostTypes, Used, Current
    <3> QED
      BY <3>2, <3>3
  <2>2. CASE ~\E u \in Thread : pc'[u] # "idle" /\ s = seq_no'[u] /\ c = <<u, number'[u]>>
    BY <1>1, <1>5, <2>2 DEF Used, Current
  <2> QED
    BY <2>1, <2>2
<1>6. ASSUME NEW s, NEW c, Used(s, c) PROVE \E i \in 1 .. n : s = Tag(i)
  BY <1>6 DEF OneUser
<1>7. ASSUME NEW c PROVE ~Used(Tag(n + 1), c)
  <2> SUFFICES ASSUME Used(Tag(n + 1), c) PROVE FALSE
    OBVIOUS
  <2>1. PICK i \in 1 .. n : Tag(n + 1) = Tag(i)
    BY <1>6
  <2>2. i \in 1 .. HardBit /\ n + 1 \in 1 .. HardBit /\ i # n + 1
    BY <1>3, SeqAssumption
  <2> QED
    BY <2>1, <2>2, TagInjective
<1>8. ASSUME NEW s, NEW c, Used(s, c)' PROVE \E i \in 1 .. n + 1 : s = Tag(i)
  BY <1>3, <1>5, <1>6, <1>8
<1>9. ASSUME NEW s, NEW c, NEW d, Used(s, c)', Used(s, d)' PROVE c = d
  <2>1. (Used(s, c) \/ (s = Tag(n + 1) /\ c = new)) /\ (Used(s, d) \/ (s = Tag(n + 1) /\ d = new))
    BY <1>5, <1>9
  <2> QED
    BY <1>7, <2>1 DEF OneUser
<1> QED
  BY <1>3, <1>4, <1>8, <1>9 DEF OneUser

\* A step of an operation only sends what its own call uses.
LEMMA OneUserOperates ==
    ASSUME Types, OneUser, NEW t \in Thread, OperationStep(t)
    PROVE  OneUser'
<1>1. ASSUME NEW s, NEW c, Used(s, c)' PROVE Used(s, c)
  <2>1. CASE \E u \in Thread : pc'[u] # "idle" /\ s = seq_no'[u] /\ c = <<u, number'[u]>>
    BY <2>1 DEF OperationStep, Used, Current
  <2>2. CASE \E i \in 1 .. Len(down') : s = down'[i].seq_no /\ c = down'[i].call
    <3>1. CASE down' = down
      BY <2>2, <3>1 DEF Used
    <3>2. CASE down' = Append(down, Packet(t))
      <4>1. pc[t] # "idle"
        BY DEF OperationStep
      <4>2. Packet(t) \in Request /\ Packet(t).seq_no = seq_no[t] /\ Packet(t).call = Current(t)
        BY <4>1 DEF Types, HostTypes, Packet, Request, Current, Call
      <4>3. /\ Len(down) \in Nat /\ Len(down') = Len(down) + 1
            /\ \A i \in 1 .. Len(down) : down'[i] = down[i]
            /\ down'[Len(down) + 1] = Packet(t)
        BY <3>2, <4>2, AppendKeeps DEF Types, LinkTypes
      <4>4. PICK i \in 1 .. Len(down') : s = down'[i].seq_no /\ c = down'[i].call
        BY <2>2
      <4>5. i \in 1 .. Len(down) \/ i = Len(down) + 1
        BY <4>3
      <4> QED
        BY <4>1, <4>2, <4>3, <4>4, <4>5 DEF Used
    <3> QED
      BY <3>1, <3>2 DEF OperationStep
  <2>3. CASE \/ \E i \in 1 .. Len(up') : s = up'[i].seq_no /\ c = up'[i].call
             \/ received' # None /\ s = received'.seq_no /\ c = received'.call
             \/ s \in SeqNo /\ responses'[s] # None /\ c = responses'[s]
    BY <2>3 DEF OperationStep, Used
  <2> QED
    BY <1>1, <2>1, <2>2, <2>3 DEF Used, Current
<1> QED
  BY <1>1, OneUserKept DEF OperationStep

\* The link and the device hand on what is used already.
LEMMA OneUserReceives ==
    ASSUME Types, OneUser, Receive \/ Deliver \/ Break \/ process_packet \/ Lose
    PROVE  OneUser'
<1>1. UNCHANGED <<outbound_seq_no, number, pc, seq_no>>
  BY DEF Receive, Deliver, Break, process_packet, Lose, locals
<1>2. ASSUME NEW s, NEW c, Used(s, c)' PROVE Used(s, c)
  <2>1. CASE Receive
    <3>1. /\ Head(up) = up[1] /\ 1 \in 1 .. Len(up) /\ up' = Tail(up)
          /\ \A i \in 1 .. Len(up') : i + 1 \in 1 .. Len(up) /\ up'[i] = up[i + 1]
      BY <2>1, TailKeeps DEF Receive, Types, LinkTypes
    <3>2. received' = None \/ (received'.seq_no = up[1].seq_no /\ received'.call = up[1].call)
      BY <2>1, <3>1 DEF Receive
    <3>3. UNCHANGED <<down, responses>>
      BY <2>1 DEF Receive, dictionaries
    <3> QED
      BY <1>1, <1>2, <3>1, <3>2, <3>3 DEF Used, Current
  <2>2. CASE Deliver
    <3>1. received \in Receipt /\ received # None /\ received.seq_no \in SeqNo
      BY <2>2 DEF Deliver, Types, LinkTypes, Receipt
    <3>2. /\ responses' = [responses EXCEPT ![received.seq_no] = received.call]
          /\ received' = None /\ UNCHANGED <<up, down>>
      BY <2>2 DEF Deliver, device
    <3>3. \A r \in SeqNo : responses'[r] = IF r = received.seq_no THEN received.call ELSE responses[r]
      BY <3>1, <3>2 DEF Types, HostTypes
    <3> QED
      BY <1>1, <1>2, <3>1, <3>2, <3>3 DEF Used, Current
  <2>3. CASE Break
    BY <1>1, <1>2, <2>3 DEF Break, dictionaries, device, Used, Current
  <2>4. CASE process_packet \/ Lose
    <3>1. /\ Head(down) = down[1] /\ 1 \in 1 .. Len(down) /\ down' = Tail(down)
          /\ \A i \in 1 .. Len(down') : i + 1 \in 1 .. Len(down) /\ down'[i] = down[i + 1]
      BY <2>4, TailKeeps DEF process_packet, Lose, Types, LinkTypes
    <3>2. UNCHANGED <<received, responses>>
      BY <2>4 DEF process_packet, Lose, dictionaries
    <3>3. CASE UNCHANGED up
      BY <1>1, <1>2, <3>1, <3>2, <3>3 DEF Used, Current
    <3>4. CASE up' = Append(up, [seq_no |-> down[1].seq_no, call |-> down[1].call])
      <4> DEFINE e == [seq_no |-> down[1].seq_no, call |-> down[1].call]
      <4>1. e \in Response /\ e.seq_no = down[1].seq_no /\ e.call = down[1].call
        BY <3>1, DownCalls DEF Types, Request, Response
      <4> HIDE DEF e
      <4>2. /\ Len(up) \in Nat /\ Len(up') = Len(up) + 1
            /\ \A i \in 1 .. Len(up) : up'[i] = up[i]
            /\ up'[Len(up) + 1] = e
        BY <3>4, <4>1, AppendKeeps DEF Types, LinkTypes, e
      <4>3. \A i \in 1 .. Len(up') : i \in 1 .. Len(up) \/ i = Len(up) + 1
        BY <4>2
      <4> QED
        BY <1>1, <1>2, <3>1, <3>2, <4>1, <4>2, <4>3 DEF Used, Current
    <3> QED
      BY <2>4, <3>1, <3>3, <3>4 DEF process_packet, Lose
  <2> QED
    BY <2>1, <2>2, <2>3, <2>4
<1> QED
  BY <1>1, <1>2, OneUserKept
LEMMA OneUserStep == FewCalls /\ Types /\ OneUser /\ [Next]_vars => OneUser'
<1> SUFFICES ASSUME FewCalls, Types, OneUser, [Next]_vars PROVE OneUser'
  OBVIOUS
<1>1. CASE UNCHANGED vars
  <2>1. ASSUME NEW s, NEW c, Used(s, c)' PROVE Used(s, c)
    BY <1>1, <2>1 DEF vars, Used, Current
  <2> QED
    BY <1>1, <2>1, OneUserKept DEF vars
<1>2. CASE Next
  BY <1>2, OneUserBegins, OperationSteps, OneUserOperates, OneUserReceives DEF Next
<1> QED
  BY <1>1, <1>2
-----------------------------------------------------------------------------
(* What the channel promises.                                              *)

LEMMA OrderInit == Init => InOrder /\ Answered
<1> SUFFICES ASSUME Init PROVE InOrder /\ Answered
  OBVIOUS
<1>1. Len(down) = 0 /\ Len(up) = 0
  BY EmptySeq DEF Init
<1> QED
  BY <1>1 DEF Init, InOrder, Answered

\* Requests of a thread are executed in the order of its calls, and a response
\* is only ever to a call that was executed, whatever is lost or repeated: the
\* link keeps the order, and a thread waits for one call at a time.
THEOREM ExecutedInOrder == Spec => [](InOrder /\ Answered)
<1>1. Types /\ InOrder /\ Answered /\ [Next]_vars => (InOrder /\ Answered)'
  BY InOrderStep, AnsweredStep
<1> QED
  BY <1>1, OrderInit, TypesInvariant, PTL DEF Spec

\* A sequence number stands for one call, as long as there are not more calls
\* than HardBit: the tags the hardwired bit leaves do not repeat before that.
THEOREM OneCallPerNumber == FewCalls => (Spec => []OneUser)
<1> SUFFICES ASSUME FewCalls PROVE Spec => []OneUser
  OBVIOUS
<1>1. Init => OneUser
  BY OneUserInit
<1>2. Types /\ OneUser /\ [Next]_vars => OneUser'
  BY OneUserStep
<1> QED
  BY <1>1, <1>2, TypesInvariant, PTL DEF Spec

\* the response that a call finds under its number is the one to this call
LEMMA OwnAnswer ==
    ASSUME Types, OneUser, NEW t \in Thread, pc[t] # "idle", responses[seq_no[t]] # None
    PROVE  responses[seq_no[t]] = Current(t)
<1>1. seq_no[t] \in SeqNo
  BY DEF Types, HostTypes
<1>2. Used(seq_no[t], Current(t)) /\ Used(seq_no[t], responses[seq_no[t]])
  BY <1>1 DEF Used
<1> QED
  BY <1>2 DEF OneUser

\* a call that is answered returns from Return, with a response
LEMMA AnsweredByReturn ==
    ASSUME Types, [Next]_vars, NEW t \in Thread, status[t] = "open", status'[t] = "answered"
    PROVE  Operation(t) /\ responses[seq_no[t]] # None
<1>1. PICK u \in Thread : NextSeqNo(u) \/ Operation(u)
  BY DEF Next, vars, Receive, Deliver, Break, process_packet, Lose
<1>2. ~NextSeqNo(u)
  BY DEF NextSeqNo, Types, HostTypes
<1>3. Operation(u) /\ OperationStep(u)
  BY <1>1, <1>2, OperationSteps
<1>4. status'[t] # status[t]
  OBVIOUS
<1>5. u = t /\ responses[seq_no[u]] # None
  BY <1>3, <1>4 DEF OperationStep, Types, HostTypes
<1> QED
  BY <1>3, <1>5

LEMMA AnswersMatchStep ==
    ASSUME Types, OneUser, [Next]_vars
    PROVE  [\A t \in Thread :
                pc[t] = "return" /\ status'[t] = "answered"
                    => responses[seq_no[t]] = Current(t)]_vars
<1> SUFFICES ASSUME NEW t \in Thread, pc[t] = "return", status'[t] = "answered"
             PROVE  responses[seq_no[t]] = Current(t)
  OBVIOUS
<1>1. pc[t] # "idle" /\ status[t] = "open"
  BY DEF Types, HostTypes
<1>2. responses[seq_no[t]] # None
  BY <1>1, AnsweredByReturn
<1> QED
  BY <1>1, <1>2, OwnAnswer

\* A call returns the answer to its own request, whatever is lost, repeated or
\* late, in a session of at most HardBit calls.
THEOREM AnswersMatchHolds == FewCalls => (Spec => AnswersMatch)
<1> SUFFICES ASSUME FewCalls PROVE Spec => AnswersMatch
  OBVIOUS
<1>1. Spec => []OneUser
  BY OneCallPerNumber
<1>2. Types /\ OneUser /\ [Next]_vars
          => [\A t \in Thread :
                  pc[t] = "return" /\ status'[t] = "answered"
                      => responses[seq_no[t]] = Current(t)]_vars
  BY AnswersMatchStep
<1> QED
  BY <1>1, <1>2, TypesInvariant, PTL DEF Spec, AnswersMatch
\* A begun call, and the end of a call, are steps of RemoteCall, or stutter.
LEMMA BeginsRemotely ==
    ASSUME Types, NEW t \in Thread, NextSeqNo(t)
    PROVE  RemoteCalls!Begin(t)
<1>1. pc[t] = "idle" /\ number[t] < Calls /\ status[t] # "open"
  BY DEF NextSeqNo, Types, HostTypes
<1> QED
  BY <1>1 DEF NextSeqNo, device, RemoteCalls!Begin

LEMMA OperatesRemotely ==
    ASSUME Types, InOrder, Answered, OneUser, NEW t \in Thread, OperationStep(t)
    PROVE  RemoteCalls!Answer(t) \/ RemoteCalls!GiveUp(t) \/ UNCHANGED <<number, status, executed>>
<1>1. pc[t] # "idle" /\ status[t] = "open" /\ UNCHANGED <<number, executed>>
  BY DEF OperationStep, Types, HostTypes
<1>2. CASE UNCHANGED status
  BY <1>1, <1>2
<1>3. CASE status' = [status EXCEPT ![t] = "ended"]
  BY <1>1, <1>3 DEF RemoteCalls!GiveUp
<1>4. CASE responses[seq_no[t]] # None /\ status' = [status EXCEPT ![t] = "answered"]
  <2>1. responses[seq_no[t]] = Current(t) /\ seq_no[t] \in SeqNo
    BY <1>1, <1>4, OwnAnswer DEF Types, HostTypes
  <2>2. WasExecuted(Current(t), executed)
    BY <1>4, <2>1 DEF Answered
  <2>3. number[t] <= executed[t] /\ executed[t] <= number[t]
    BY <2>2 DEF WasExecuted, Current, InOrder
  <2>4. executed[t] = number[t]
    BY <2>3 DEF Types, HostTypes, LinkTypes
  <2> QED
    BY <1>1, <1>4, <2>4 DEF RemoteCalls!Answer
<1> QED
  BY <1>2, <1>3, <1>4 DEF OperationStep

LEMMA ExecutesRemotely ==
    ASSUME Types, InOrder, process_packet
    PROVE  \E t \in Thread : RemoteCalls!Execute(t)
<1> DEFINE c == down[1].call
<1>1. Head(down) = down[1] /\ 1 \in 1 .. Len(down)
  BY TailKeeps DEF process_packet, Types, LinkTypes
<1>2. /\ c[1] \in Thread /\ c[2] \in Nat
      /\ executed[c[1]] <= c[2] /\ c[2] <= number[c[1]]
  BY <1>1, DownCalls, CallParts DEF Types, InOrder
<1>3. executed' = [executed EXCEPT ![c[1]] = c[2]] /\ UNCHANGED <<number, status>>
  BY <1>1 DEF process_packet
<1> HIDE DEF c
<1>4. c[2] \in executed[c[1]] .. number[c[1]]
  BY <1>2 DEF Types, HostTypes, LinkTypes
<1> QED
  BY <1>2, <1>3, <1>4 DEF RemoteCalls!Execute

LEMMA RemoteStep == Types /\ InOrder /\ Answered /\ OneUser /\ [Next]_vars
                        => [RemoteCalls!Next]_(RemoteCalls!vars)
<1> SUFFICES ASSUME Types, InOrder, Answered, OneUser, [Next]_vars
             PROVE  RemoteCalls!Next \/ UNCHANGED <<number, status, executed>>
  BY DEF RemoteCalls!vars
<1>1. CASE UNCHANGED vars
  BY <1>1 DEF vars
<1>2. ASSUME NEW t \in Thread, NextSeqNo(t) PROVE RemoteCalls!Next
  BY <1>2, BeginsRemotely DEF RemoteCalls!Next
<1>3. ASSUME NEW t \in Thread, Operation(t)
      PROVE  RemoteCalls!Next \/ UNCHANGED <<number, status, executed>>
  BY <1>3, OperationSteps, OperatesRemotely DEF RemoteCalls!Next
<1>4. CASE Receive \/ Deliver \/ Break \/ Lose
  BY <1>4 DEF Receive, Deliver, Break, Lose, device
<1>5. CASE process_packet
  BY <1>5, ExecutesRemotely DEF RemoteCalls!Next
<1> QED
  BY <1>1, <1>2, <1>3, <1>4, <1>5 DEF Next

\* The channel, with its retries, lost packets and late responses, implements
\* RemoteCall, for every number of host threads, in a session of at most
\* HardBit calls.
THEOREM ImplementsRemoteCall == FewCalls => (Spec => RemoteCallSpec)
<1> SUFFICES ASSUME FewCalls PROVE Spec => RemoteCallSpec
  OBVIOUS
<1>1. Init => RemoteCalls!Init
  BY DEF Init, RemoteCalls!Init
<1>2. Types /\ InOrder /\ Answered /\ OneUser /\ [Next]_vars
          => [RemoteCalls!Next]_(RemoteCalls!vars)
  BY RemoteStep
<1>3. Spec => []OneUser
  BY OneCallPerNumber
<1> QED
  BY <1>1, <1>2, <1>3, TypesInvariant, ExecutedInOrder, PTL
     DEF Spec, RemoteCallSpec, RemoteCalls!Spec
=============================================================================
