----------------------------- MODULE RemoteCall -----------------------------
(***************************************************************************)
(* What calls of remote_endpoint_operation (fibre/protocol.py) mean to the *)
(* thread that makes them, one after the other:                            *)
(*                                                                         *)
(*   - the device may execute an operation any number of times, also after *)
(*     its call was given up;                                              *)
(*   - a call that returns an answer was executed, and nothing later;      *)
(*   - once an operation of a thread was executed, no earlier one of the   *)
(*     same thread is any more: what the last one wrote stays.             *)
(*                                                                         *)
(* FibreChannel implements this specification.                             *)
(***************************************************************************)
EXTENDS Naturals

CONSTANTS
    Thread,
    Calls           \* calls each thread makes

VARIABLES
    number,         \* of each thread's last call
    status,         \* what became of it
    executed        \* the call of each thread the device executed last; 0: none

vars == <<number, status, executed>>

Init ==
    /\ number = [t \in Thread |-> 0]
    /\ status = [t \in Thread |-> "none"]
    /\ executed = [t \in Thread |-> 0]

Begin(t) ==
    /\ status[t] # "open" /\ number[t] < Calls
    /\ number' = [number EXCEPT ![t] = @ + 1]
    /\ status' = [status EXCEPT ![t] = "open"]
    /\ UNCHANGED executed

Execute(t) ==
    /\ \E i \in executed[t] .. number[t] : executed' = [executed EXCEPT ![t] = i]
    /\ UNCHANGED <<number, status>>

Answer(t) ==
    /\ status[t] = "open" /\ executed[t] = number[t]
    /\ status' = [status EXCEPT ![t] = "answered"]
    /\ UNCHANGED <<number, executed>>

\* the call failed, or did not ask for an answer
GiveUp(t) ==
    /\ status[t] = "open"
    /\ status' = [status EXCEPT ![t] = "ended"]
    /\ UNCHANGED <<number, executed>>

Next == \E t \in Thread : Begin(t) \/ Execute(t) \/ Answer(t) \/ GiveUp(t)

Spec == Init /\ [][Next]_vars

=============================================================================
