----------------------------- MODULE BoundedFifo -----------------------------
(***************************************************************************)
(* What a bounded queue between one producing and one consuming thread     *)
(* promises: a push that returns true appends, a push returns false only   *)
(* when the queue really holds Capacity elements, a pop that returns true  *)
(* hands out the oldest element, a pop returns false only when the queue   *)
(* really is empty.  Each call takes effect in one step.                   *)
(***************************************************************************)
EXTENDS Naturals, Sequences

CONSTANTS Capacity,   \* elements the queue holds at most
          Data        \* elements that may be queued

VARIABLES q,          \* the queued elements, oldest first
          pushResult, \* what the last finished push returned
          popResult   \* what the last finished pop returned: <<ok, element>>

fifoVars == <<q, pushResult, popResult>>

FifoInit ==
    /\ q = <<>>
    /\ pushResult = TRUE
    /\ popResult = <<FALSE>>

Push(v) ==
    /\ Len(q) < Capacity
    /\ q' = Append(q, v)
    /\ pushResult' = TRUE
    /\ UNCHANGED popResult

PushFull ==
    /\ Len(q) = Capacity
    /\ pushResult' = FALSE
    /\ UNCHANGED <<q, popResult>>

Pop ==
    /\ q # <<>>
    /\ q' = Tail(q)
    /\ popResult' = <<TRUE, Head(q)>>
    /\ UNCHANGED pushResult

PopEmpty ==
    /\ q = <<>>
    /\ popResult' = <<FALSE>>
    /\ UNCHANGED <<q, pushResult>>

FifoNext == (\E v \in Data : Push(v)) \/ PushFull \/ Pop \/ PopEmpty

FifoSpec == FifoInit /\ [][FifoNext]_fifoVars
==============================================================================
