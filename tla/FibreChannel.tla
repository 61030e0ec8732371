---------------------------- MODULE FibreChannel ----------------------------
(***************************************************************************)
(* The fibre protocol between host and board: Channel in                   *)
(* fibre/python/fibre/protocol.py, over USB bulk endpoints                 *)
(* (usbbulk_transport.py), and BidirectionalPacketBasedChannel in          *)
(* fibre/cpp/protocol.cpp.                                                 *)
(*                                                                         *)
(* Actors: host threads that call remote_endpoint_operation, the host's    *)
(* receiver thread, the device.  A packet is one message of a FIFO link;   *)
(* the segmenters and their checksums turn damage into loss, of the packet *)
(* and of the ones behind it, so a link may lose its oldest packet at any  *)
(* time.  An operation is known by the call that asked for it.             *)
(*                                                                         *)
(* The 5 s of the resend timeout may pass at any point of a wait.  Writing *)
(* to the endpoint has no timeout: it may take for ever, with the lock of  *)
(* the channel held.                                                       *)
(***************************************************************************)
EXTENDS Naturals, Sequences

CONSTANTS
    Thread,         \* host threads that share the channel
    Calls,          \* bound: calls each of them makes
    Attempts,       \* _send_attempts
    SeqCount,       \* sequence numbers, 0x8000
    HardBit,        \* the bit of a sequence number that is always set, 0x80
    Capacity        \* bound: packets under way in one direction

ASSUME CallsAssumption == Calls \in Nat \ {0}
ASSUME AttemptsAssumption == Attempts \in Nat \ {0}
ASSUME SeqAssumption ==
    /\ HardBit \in Nat \ {0} /\ SeqCount \in Nat \ {0}
    /\ SeqCount % (2 * HardBit) = 0
ASSUME CapacityAssumption == Capacity \in Nat \ {0}

Number == 1 .. Calls
Call == Thread \X Number
None == <<>>
SeqNo == 0 .. SeqCount - 1

VARIABLES
    outbound_seq_no,
    expected_acks,  \* for each sequence number the call whose event is there
    responses,      \* for each sequence number the call that was answered
    set,            \* open calls whose event is set
    channel_broken,
    pc, number, seq_no, expect_ack, attempt,    \* of the host threads
    down, up,       \* packets on their way to the device and back
    received,       \* the response the receiver thread has in hand
    status,         \* history: what became of each thread's last call
    executed        \* history: the call of each thread that was executed last

dictionaries == <<expected_acks, responses, set>>
locals == <<seq_no, expect_ack, attempt>>
device == <<down, up, executed>>
vars == <<outbound_seq_no, expected_acks, responses, set, channel_broken, pc, number,
          seq_no, expect_ack, attempt, down, up, received, status, executed>>

PC == {"idle", "register", "send", "write", "wait", "return"}

Init ==
    /\ outbound_seq_no = 0
    /\ expected_acks = [s \in SeqNo |-> None] /\ responses = [s \in SeqNo |-> None]
    /\ set = {} /\ channel_broken = FALSE
    /\ pc = [t \in Thread |-> "idle"] /\ number = [t \in Thread |-> 0]
    /\ seq_no = [t \in Thread |-> 0] /\ expect_ack = [t \in Thread |-> FALSE]
    /\ attempt = [t \in Thread |-> 0]
    /\ down = <<>> /\ up = <<>> /\ received = None
    /\ status = [t \in Thread |-> "none"]
    /\ executed = [t \in Thread |-> 0]

-----------------------------------------------------------------------------
(* remote_endpoint_operation                                               *)

\* mutant: the number is cut to its lowest bit
TagTooNarrow(n) == HardBit + (n % 2)

\* "we hardwire one bit of the seq-no to 1"
Tag(n) == IF (n \div HardBit) % 2 = 1 THEN n ELSE n + HardBit

Current(t) == <<t, number[t]>>
Goto(t, p) == pc' = [pc EXCEPT ![t] = p]

\* _my_lock is held for the write of an operation with an answer; one without is
\* written unlocked
Locked == \E t \in Thread : pc[t] = "write" /\ expect_ack[t]

\* the locked increment; the packet is built from locals
NextSeqNo(t) ==
    /\ pc[t] = "idle" /\ number[t] < Calls /\ ~Locked
    /\ number' = [number EXCEPT ![t] = @ + 1]
    /\ outbound_seq_no' = (outbound_seq_no + 1) % SeqCount
    /\ seq_no' = [seq_no EXCEPT ![t] = Tag(outbound_seq_no')]
    /\ \E ack \in BOOLEAN :
           /\ expect_ack' = [expect_ack EXCEPT ![t] = ack]
           /\ Goto(t, IF ack THEN "register" ELSE "write")
    /\ attempt' = [attempt EXCEPT ![t] = 0]
    /\ status' = [status EXCEPT ![t] = "open"]
    /\ UNCHANGED <<dictionaries, channel_broken, received, device>>

Register(t) ==
    /\ pc[t] = "register"
    /\ expected_acks' = [expected_acks EXCEPT ![seq_no[t]] = Current(t)]
    /\ Goto(t, "send")
    /\ UNCHANGED <<outbound_seq_no, responses, set, channel_broken, number, locals,
                   received, status, device>>

\* self._my_lock.acquire(), then the endpoint is written to
Lock(t) ==
    /\ pc[t] = "send" /\ ~Locked
    /\ Goto(t, "write")
    /\ UNCHANGED <<outbound_seq_no, dictionaries, channel_broken, number, locals,
                   received, status, device>>

\* The end of a call.  The finally block drops both entries of its number; a
\* missing event is an exception then, in place of what was to be returned, and
\* leaves a response that has not been taken.
End(t, result) ==
    /\ Goto(t, "idle")
    /\ status' = [status EXCEPT ![t] =
                      IF expect_ack[t] /\ expected_acks[seq_no[t]] = None THEN "ended"
                      ELSE result]
    /\ IF expect_ack[t] /\ (expected_acks[seq_no[t]] # None \/ result = "answered")
       THEN /\ expected_acks' = [expected_acks EXCEPT ![seq_no[t]] = None]
            /\ responses' = [responses EXCEPT ![seq_no[t]] = None]
       ELSE UNCHANGED <<expected_acks, responses>>
    /\ set' = set \ {Current(t)}
    /\ seq_no' = [seq_no EXCEPT ![t] = 0]
    /\ expect_ack' = [expect_ack EXCEPT ![t] = FALSE]
    /\ attempt' = [attempt EXCEPT ![t] = 0]
    /\ UNCHANGED number

GoOn(t, p) ==
    /\ Goto(t, p)
    /\ UNCHANGED <<dictionaries, number, seq_no, expect_ack, status>>

\* mutant: one attempt too many
RetryOnceMore(t) ==
    IF attempt[t] < Attempts
    THEN GoOn(t, "send") /\ attempt' = [attempt EXCEPT ![t] = @ + 1]
    ELSE End(t, "ended")

\* attempt += 1; continue.  After the last attempt the call has failed.
Retry(t) ==
    IF attempt[t] + 1 < Attempts
    THEN GoOn(t, "send") /\ attempt' = [attempt EXCEPT ![t] = @ + 1]
    ELSE End(t, "ended")

Packet(t) == [seq_no |-> seq_no[t], call |-> Current(t), expect_ack |-> expect_ack[t]]

\* the write returns, and unlocks
Send(t) ==
    /\ pc[t] = "write"
    /\ Len(down) < Capacity /\ down' = Append(down, Packet(t))
    /\ IF expect_ack[t] THEN GoOn(t, "wait") /\ UNCHANGED attempt ELSE End(t, "ended")
    /\ UNCHANGED <<outbound_seq_no, channel_broken, up, received, executed>>

\* mutant: a failed send is not counted as an attempt
SendFailsUncounted(t) ==
    /\ pc[t] = "write"
    /\ IF expect_ack[t] THEN GoOn(t, "send") /\ UNCHANGED attempt ELSE End(t, "ended")
    /\ UNCHANGED <<outbound_seq_no, channel_broken, received, device>>

\* The write raises an exception, and the packet may have left all the same:
\* ChannelDamagedException or TimeoutError are answered with another attempt,
\* ChannelBrokenException is not.
SendFails(t) ==
    /\ pc[t] = "write"
    /\ \/ UNCHANGED down
       \/ Len(down) < Capacity /\ down' = Append(down, Packet(t))
    /\ \/ expect_ack[t] /\ Retry(t)
       \/ End(t, "ended")
    /\ UNCHANGED <<outbound_seq_no, channel_broken, up, received, executed>>

\* wait_any looks at the events again after it timed out
Wait(t) ==
    /\ pc[t] = "wait"
    /\ \/ Current(t) \in set /\ GoOn(t, "return") /\ UNCHANGED attempt
       \/ Current(t) \notin set /\ channel_broken /\ End(t, "ended")
       \/ Current(t) \notin set /\ ~channel_broken /\ Retry(t)
    /\ UNCHANGED <<outbound_seq_no, channel_broken, received, device>>

\* return self._responses.pop(seq_no)
Return(t) ==
    /\ pc[t] = "return"
    /\ End(t, IF responses[seq_no[t]] = None THEN "ended" ELSE "answered")
    /\ UNCHANGED <<outbound_seq_no, channel_broken, received, device>>

-----------------------------------------------------------------------------
(* The receiver thread, the device and the link.                           *)

\* mutant: whoever waits gets the response
ReceiveForAnybody ==
    /\ up # <<>> /\ received = None /\ ~channel_broken
    /\ up' = Tail(up)
    /\ \E s \in SeqNo :
           /\ expected_acks[s] # None
           /\ received' = [event |-> expected_acks[s], seq_no |-> s, call |-> Head(up).call]
    /\ UNCHANGED <<outbound_seq_no, dictionaries, channel_broken, pc, number, locals, down,
                   status, executed>>

\* Channel.process_packet finds the event of the response; an unexpected ACK is
\* dropped.
Receive ==
    /\ up # <<>> /\ received = None /\ ~channel_broken
    /\ up' = Tail(up)
    /\ LET m == Head(up) IN
           received' = IF expected_acks[m.seq_no] = None THEN None
                       ELSE [event |-> expected_acks[m.seq_no], seq_no |-> m.seq_no,
                             call |-> m.call]
    /\ UNCHANGED <<outbound_seq_no, dictionaries, channel_broken, pc, number, locals, down,
                   status, executed>>

Deliver ==
    /\ received # None
    /\ responses' = [responses EXCEPT ![received.seq_no] = received.call]
    /\ set' = IF \E t \in Thread : pc[t] # "idle" /\ received.event = Current(t)
              THEN set \cup {received.event} ELSE set
    /\ received' = None
    /\ UNCHANGED <<outbound_seq_no, expected_acks, channel_broken, pc, number, locals,
                   status, device>>

\* the receiver thread ends after too many damaged packets, or an exception
Break ==
    /\ ~channel_broken /\ received = None
    /\ channel_broken' = TRUE
    /\ UNCHANGED <<outbound_seq_no, dictionaries, pc, number, locals, received, status,
                   device>>

\* BidirectionalPacketBasedChannel::process_packet does not look whether it has
\* seen the request before.  The response may be lost.
process_packet ==
    /\ down # <<>>
    /\ down' = Tail(down)
    /\ LET m == Head(down) IN
           /\ executed' = [executed EXCEPT ![m.call[1]] = m.call[2]]
           /\ \/ /\ m.expect_ack /\ Len(up) < Capacity
                 /\ up' = Append(up, [seq_no |-> m.seq_no, call |-> m.call])
              \/ UNCHANGED up
    /\ UNCHANGED <<outbound_seq_no, dictionaries, channel_broken, pc, number, locals,
                   received, status>>

\* a request is damaged on its way
Lose ==
    /\ down # <<>>
    /\ down' = Tail(down)
    /\ UNCHANGED <<outbound_seq_no, dictionaries, channel_broken, pc, number, locals, up,
                   received, status, executed>>

\* what the host does of its own, and what it leaves to the transport
Proceed(t) == Register(t) \/ Lock(t) \/ Wait(t) \/ Return(t)
Write(t) == Send(t) \/ SendFails(t)
Operation(t) == Proceed(t) \/ Write(t)

Next ==
    \/ \E t \in Thread : NextSeqNo(t) \/ Operation(t)
    \/ Receive \/ Deliver \/ Break
    \/ process_packet \/ Lose

Spec == Init /\ [][Next]_vars

\* The threads of the host run.  The transport, the link and the device owe nothing;
\* in particular a write need not return.
FairSpec ==
    /\ Spec
    /\ \A t \in Thread : WF_vars(Proceed(t))

-----------------------------------------------------------------------------
(* Properties.                                                             *)

TypeOK ==
    /\ outbound_seq_no \in SeqNo
    /\ expected_acks \in [SeqNo -> Call \cup {None}]
    /\ responses \in [SeqNo -> Call \cup {None}]
    /\ set \subseteq Call /\ channel_broken \in BOOLEAN
    /\ pc \in [Thread -> PC] /\ number \in [Thread -> 0 .. Calls]
    /\ seq_no \in [Thread -> SeqNo] /\ expect_ack \in [Thread -> BOOLEAN]
    /\ attempt \in [Thread -> 0 .. Attempts]
    /\ \A t \in Thread : pc[t] \in {"send", "write", "wait", "return"} => attempt[t] < Attempts
    /\ Len(down) <= Capacity /\ Len(up) <= Capacity
    /\ status \in [Thread -> {"none", "open", "answered", "ended"}]
    /\ executed \in [Thread -> 0 .. Calls]

\* The sequence number associates a response with its request: a call returns the
\* answer to its own request, whatever is lost, repeated or late.
AnswersMatch ==
    [][\A t \in Thread :
           pc[t] = "return" /\ status'[t] = "answered"
               => responses[seq_no[t]] = Current(t)]_vars

\* The channel keeps the promises of RemoteCall.
RemoteCalls == INSTANCE RemoteCall
RemoteCallSpec == RemoteCalls!Spec

\* A call ends, whatever is lost, damaged or broken, provided that writes return,
\* with or without success (usbbulk_transport.py:98 gives them no timeout: one that
\* does not return keeps the lock, and every other call waits with it).  Attempts are
\* counted however they fail, and who waits for an answer or for the lock does not
\* wait for ever.
EveryCallEnds ==
    (\A t \in Thread : []<>(pc[t] # "write")) => \A t \in Thread : []<>(pc[t] = "idle")

=============================================================================
