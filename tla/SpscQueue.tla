------------------------------ MODULE SpscQueue ------------------------------
(***************************************************************************)
(* SpscQueue<T, Capacity>, the lock-free queue that carries packets from   *)
(* the UDP receive thread to the audio callback (128 slots) and to the     *)
(* main loop (256 slots).  try_push and try_pop are split at every access  *)
(* to memory the other thread also touches: a load of the other side's     *)
(* cursor, the slot, the store of the own cursor.  The loads are acquire   *)
(* and the stores release, so the interleaving of these steps is what the  *)
(* code can do.                                                            *)
(*                                                                         *)
(* The cursors are size_t: they count modulo Wrap (2^64 in the build) and  *)
(* are masked with Capacity - 1, a remainder because Capacity is a power   *)
(* of two and therefore divides Wrap.                                      *)
(***************************************************************************)
EXTENDS Integers, Sequences

CONSTANTS Capacity,   \* template parameter
          Wrap,       \* number of values of size_t
          Data,       \* packets
          Nothing     \* a default-constructed element

\* static_assert(Capacity >= 2) and the power-of-two one: both powers of two,
\* so Capacity divides Wrap, strictly.
ASSUME SizesAssumption ==
    /\ Capacity \in Nat /\ Capacity >= 2
    /\ Wrap \in Nat
    /\ \E k \in 2 .. Wrap : Wrap = k * Capacity
    /\ Nothing \notin Data

VARIABLES
    samples,    \* slot -> element
    head, tail, \* the atomic cursors
    prod,       \* the pushing thread: where it is in try_push, the value it pushes
    cons,       \* the popping thread: where it is in try_pop, the value it moved out
    pushResult, popResult

vars == <<samples, head, tail, prod, cons, pushResult, popResult>>

Slots == 0 .. Capacity - 1
Cursors == 0 .. Wrap - 1

\* Wrong variant: "% (Capacity - 1)" written for "& (Capacity - 1)".
ModuloMask(c) == c % (Capacity - 1)

\* unsigned arithmetic on size_t
Inc(c) == (c + 1) % Wrap
Minus(a, b) == (a - b) % Wrap

\* cursor & (Capacity - 1)
Slot(c) == c % Capacity

TypeOK ==
    /\ samples \in [Slots -> Data \cup {Nothing}]
    /\ head \in Cursors /\ tail \in Cursors
    /\ prod \in [pc : {"idle", "loaded", "written"}, value : Data \cup {Nothing}]
    /\ cons \in [pc : {"idle", "loaded", "taken"}, value : Data \cup {Nothing}]
    /\ pushResult \in BOOLEAN
    /\ popResult \in {<<FALSE>>} \cup ({TRUE} \X Data)

Init ==
    /\ samples = [i \in Slots |-> Nothing]
    /\ head = 0 /\ tail = 0
    /\ prod = [pc |-> "idle", value |-> Nothing]
    /\ cons = [pc |-> "idle", value |-> Nothing]
    /\ pushResult = TRUE
    /\ popResult = <<FALSE>>

-----------------------------------------------------------------------------
\* try_push.  tail is the producer's own cursor: loading it together with head
\* loses nothing.  head may move before the slot is written: the space test is
\* made on the copy loaded here.

\* Wrong variant: "> Capacity" as the test for a full queue.
PushLoadOffByOne(v) ==
    /\ prod.pc = "idle"
    /\ Minus(tail, head) <= Capacity
    /\ prod' = [pc |-> "loaded", value |-> v]
    /\ UNCHANGED <<samples, head, tail, cons, pushResult, popResult>>

PushLoad(v) ==
    /\ prod.pc = "idle"
    /\ Minus(tail, head) < Capacity
    /\ prod' = [pc |-> "loaded", value |-> v]
    /\ UNCHANGED <<samples, head, tail, cons, pushResult, popResult>>

PushReturnsFull ==
    /\ prod.pc = "idle"
    /\ Minus(tail, head) >= Capacity
    /\ pushResult' = FALSE
    /\ UNCHANGED <<samples, head, tail, prod, cons, popResult>>

PushWrite ==
    /\ prod.pc = "loaded"
    /\ samples' = [samples EXCEPT ![Slot(tail)] = prod.value]
    /\ prod' = [prod EXCEPT !.pc = "written"]
    /\ UNCHANGED <<head, tail, cons, pushResult, popResult>>

PushPublish ==
    /\ prod.pc = "written"
    /\ tail' = Inc(tail)
    /\ prod' = [pc |-> "idle", value |-> Nothing]
    /\ pushResult' = TRUE
    /\ UNCHANGED <<samples, head, cons, popResult>>

\* try_pop, likewise.

PopLoad ==
    /\ cons.pc = "idle"
    /\ head # tail
    /\ cons' = [cons EXCEPT !.pc = "loaded"]
    /\ UNCHANGED <<samples, head, tail, prod, pushResult, popResult>>

PopReturnsEmpty ==
    /\ cons.pc = "idle"
    /\ head = tail
    /\ popResult' = <<FALSE>>
    /\ UNCHANGED <<samples, head, tail, prod, cons, pushResult>>

\* Wrong variant: head not stored.
PopPublishNothing ==
    /\ cons.pc = "taken"
    /\ cons' = [pc |-> "idle", value |-> Nothing]
    /\ popResult' = <<TRUE, cons.value>>
    /\ UNCHANGED <<samples, head, tail, prod, pushResult>>

PopTake ==
    /\ cons.pc = "loaded"
    /\ cons' = [pc |-> "taken", value |-> samples[Slot(head)]]
    /\ UNCHANGED <<samples, head, tail, prod, pushResult, popResult>>

PopPublish ==
    /\ cons.pc = "taken"
    /\ head' = Inc(head)
    /\ cons' = [pc |-> "idle", value |-> Nothing]
    /\ popResult' = <<TRUE, cons.value>>
    /\ UNCHANGED <<samples, tail, prod, pushResult>>

-----------------------------------------------------------------------------
Producer == (\E v \in Data : PushLoad(v)) \/ PushReturnsFull \/ PushWrite \/ PushPublish
Consumer == PopLoad \/ PopReturnsEmpty \/ PopTake \/ PopPublish

Next == Producer \/ Consumer

Spec == Init /\ [][Next]_vars

\* The audio callback and the main loop poll try_pop forever; a thread inside
\* the call keeps running.  Nothing obliges packets to arrive, but a producer
\* inside try_push finishes the call.
FairSpec == Spec /\ WF_vars(Consumer) /\ WF_vars(PushWrite \/ PushPublish)

-----------------------------------------------------------------------------
\* The queue as the two cursors delimit it.
InFlight == Minus(tail, head)
Pos(h, i) == (h + i - 1) % Wrap
Window(s, h, t) == [i \in 1 .. Minus(t, h) |-> s[Slot(Pos(h, i))]]
Queued == Window(samples, head, tail)

Fifo == INSTANCE BoundedFifo WITH q <- Queued

(* Each try_push and try_pop of SpscQueue.hh acts in one step on a bounded *)
(* FIFO: no element is lost, duplicated, torn or reordered, and "full" and *)
(* "empty" are only returned when they are true at some point of the call. *)
Linearizable == Fifo!FifoSpec

(* The producer writes a slot the consumer is reading in no state: while   *)
(* both are between their load and their cursor store, the slots differ.   *)
NoSlotRace ==
    prod.pc = "loaded" /\ cons.pc = "loaded" => Slot(tail) # Slot(head)

(* The slot written, or the value moved out, before the cursor store is    *)
(* what the store publishes: nobody overwrites it in between.              *)
PublishedIntact ==
    /\ prod.pc # "idle" => prod.value \in Data
    /\ prod.pc = "written" => samples[Slot(tail)] = prod.value
    /\ cons.pc = "taken" => cons.value = samples[Slot(head)] /\ cons.value \in Data

(* The cursors never drift further apart than the storage, across their    *)
(* wraparound.                                                             *)
WithinCapacity ==
    /\ InFlight <= Capacity
    /\ prod.pc # "idle" => InFlight < Capacity
    /\ cons.pc # "idle" => InFlight > 0

(* Every slot between the cursors holds a packet some push stored.         *)
QueuedData == \A i \in 1 .. InFlight : samples[Slot(Pos(head, i))] \in Data

IndInv == TypeOK /\ WithinCapacity /\ QueuedData /\ PublishedIntact

(* A packet that is queued is handed out, given a consumer that polls:     *)
(* whatever the producer does, the head element does not stay for ever.    *)
HeadDelivered ==
    \A c \in Cursors : (head = c /\ InFlight > 0) ~> (head # c)
==============================================================================
