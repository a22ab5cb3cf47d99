--------------------------- MODULE SpscQueueProofs ---------------------------
(***************************************************************************)
(* Proofs about SpscQueue for every capacity, cursor width and data set,   *)
(* and about its use: module MediaThreads keeps the precondition that each *)
(* queue has one producer.                                                 *)
(***************************************************************************)
EXTENDS SpscQueue, MediaThreads, SequenceTheorems, TLAPS

(* Unsigned subtraction of two size_t cursors, as a case distinction. *)
LEMMA MinusLinear ==
    ASSUME NEW a \in Cursors, NEW b \in Cursors
    PROVE  Minus(a, b) = IF a >= b THEN a - b ELSE a - b + Wrap
BY SizesAssumption DEF Cursors, Minus

(* The increment of a size_t cursor, as a case distinction. *)
LEMMA IncLinear ==
    ASSUME NEW c \in Cursors
    PROVE  Inc(c) = IF c + 1 = Wrap THEN 0 ELSE c + 1
BY SizesAssumption DEF Cursors, Inc

(* Capacity is smaller than the number of cursor values. *)
LEMMA CapacityBelowWrap == Capacity < Wrap /\ Wrap > 0
<1>1. PICK k \in 2 .. Wrap : Wrap = k * Capacity
  BY SizesAssumption
<1>2. k * Capacity >= 2 * Capacity
  BY <1>1, SizesAssumption
<1>3. QED
  BY <1>1, <1>2, SizesAssumption

(* The mask yields a slot of the array. *)
LEMMA SlotType ==
    ASSUME NEW c \in Cursors
    PROVE  Slot(c) \in Slots
BY SizesAssumption DEF Cursors, Slots, Slot

(* Two numbers with the same remainder that differ by less than the divisor are equal. *)
LEMMA SameRemainder ==
    ASSUME NEW n \in Nat, n > 0, NEW x \in Nat, NEW y \in Nat, x % n = y % n, NEW k \in Int, x - y + k * n > -n,
           x - y + k * n < n
    PROVE  x - y + k * n = 0
<1>1. x = n * (x \div n) + (x % n)
  OBVIOUS
<1>2. y = n * (y \div n) + (y % n)
  OBVIOUS
<1> DEFINE m == (x \div n) - (y \div n) + k
<1>3. m \in Int
  OBVIOUS
<1>4. x - y + k * n = n * m
  BY <1>1, <1>2
<1> HIDE DEF m
<1>5. m = 0
  BY <1>3, <1>4
<1>6. QED
  BY <1>4, <1>5

(* Cursors that are less than Capacity apart are masked to different slots, *)
(* across the wraparound too.                                               *)
LEMMA SlotDistinct ==
    ASSUME NEW a \in Cursors, NEW b \in Cursors, Minus(a, b) > 0, Minus(a, b) < Capacity
    PROVE  Slot(a) # Slot(b)
<1> SUFFICES ASSUME a % Capacity = b % Capacity
             PROVE  FALSE
  BY DEF Slot
<1>1. Minus(a, b) = IF a >= b THEN a - b ELSE a - b + Wrap
  BY MinusLinear
<1>2. PICK k \in 2 .. Wrap : Wrap = k * Capacity
  BY SizesAssumption
<1>3. CASE a >= b
  <2>1. a - b + 0 * Capacity = 0
    BY <1>1, <1>3, SizesAssumption, SameRemainder, 0 \in Int DEF Cursors
  <2>2. QED
    BY <2>1, <1>1, <1>3, SizesAssumption DEF Cursors
<1>4. CASE a < b
  <2>1. a - b + k * Capacity = 0
    BY <1>1, <1>2, <1>4, SizesAssumption, SameRemainder DEF Cursors
  <2>2. QED
    BY <2>1, <1>1, <1>2, <1>4, SizesAssumption DEF Cursors
<1>5. QED
  BY <1>3, <1>4 DEF Cursors

-----------------------------------------------------------------------------
(* The i-th queued cursor, counted from h, without the remainder. *)
LEMMA PosLinear ==
    ASSUME NEW h \in Cursors, NEW i \in 1 .. Capacity + 1
    PROVE  /\ Pos(h, i) \in Cursors
           /\ Pos(h, i) = IF h + i - 1 >= Wrap THEN h + i - 1 - Wrap ELSE h + i - 1
<1>1. h + i - 1 \in Nat /\ h + i - 1 < 2 * Wrap
  BY CapacityBelowWrap, SizesAssumption DEF Cursors
<1>2. CASE h + i - 1 < Wrap
  BY <1>1, <1>2, CapacityBelowWrap, SizesAssumption DEF Cursors, Pos
<1>3. CASE h + i - 1 >= Wrap
  BY <1>1, <1>3, CapacityBelowWrap, SizesAssumption DEF Cursors, Pos
<1>4. QED
  BY <1>1, <1>2, <1>3, SizesAssumption DEF Cursors

(* No queued cursor shares its slot with the cursor the producer writes to, *)
(* as long as there is room.                                                *)
LEMMA QueuedNotTail ==
    ASSUME NEW h \in Cursors, NEW t \in Cursors, Minus(t, h) < Capacity, NEW i \in 1 .. Minus(t, h)
    PROVE  Slot(Pos(h, i)) # Slot(t)
<1>1. i \in 1 .. Capacity + 1
  BY MinusLinear, SizesAssumption DEF Cursors
<1>2. /\ Pos(h, i) \in Cursors
      /\ Pos(h, i) = IF h + i - 1 >= Wrap THEN h + i - 1 - Wrap ELSE h + i - 1
  BY <1>1, PosLinear
<1>3. Minus(t, h) = IF t >= h THEN t - h ELSE t - h + Wrap
  BY MinusLinear
<1>4. Minus(t, Pos(h, i)) = IF t >= Pos(h, i) THEN t - Pos(h, i) ELSE t - Pos(h, i) + Wrap
  BY <1>2, MinusLinear
<1>5. Minus(t, Pos(h, i)) > 0 /\ Minus(t, Pos(h, i)) < Capacity
  BY <1>1, <1>2, <1>3, <1>4, CapacityBelowWrap, SizesAssumption DEF Cursors
<1>6. QED
  BY <1>2, <1>5, SlotDistinct

(* One past the queued cursors is the producer's; the first is the consumer's; *)
(* advancing either cursor moves the window by one.                            *)
LEMMA WindowMoves ==
    ASSUME NEW h \in Cursors, NEW t \in Cursors, Minus(t, h) <= Capacity
    PROVE  /\ Minus(t, h) \in Nat
           /\ Inc(h) \in Cursors /\ Inc(t) \in Cursors
           /\ Pos(h, 1) = h
           /\ Pos(h, Minus(t, h) + 1) = t
           /\ Minus(t, h) < Capacity => Minus(Inc(t), h) = Minus(t, h) + 1
           /\ Minus(t, h) > 0 => /\ Minus(t, Inc(h)) = Minus(t, h) - 1
                                 /\ \A i \in 1 .. Minus(t, h) - 1 : Pos(Inc(h), i) = Pos(h, i + 1)
<1>1. /\ Inc(h) = IF h + 1 = Wrap THEN 0 ELSE h + 1
      /\ Inc(t) = IF t + 1 = Wrap THEN 0 ELSE t + 1
  BY IncLinear
<1>2. Inc(h) \in Cursors /\ Inc(t) \in Cursors
  BY <1>1, CapacityBelowWrap, SizesAssumption DEF Cursors
<1>3. /\ Minus(t, h) = IF t >= h THEN t - h ELSE t - h + Wrap
      /\ Minus(Inc(t), h) = IF Inc(t) >= h THEN Inc(t) - h ELSE Inc(t) - h + Wrap
      /\ Minus(t, Inc(h)) = IF t >= Inc(h) THEN t - Inc(h) ELSE t - Inc(h) + Wrap
  BY <1>2, MinusLinear
<1>4. Minus(t, h) \in Nat /\ Minus(t, h) + 1 \in 1 .. Capacity + 1 /\ 1 \in 1 .. Capacity + 1
  BY <1>3, SizesAssumption DEF Cursors
<1>5. Pos(h, 1) = h
  BY <1>4, PosLinear, SizesAssumption DEF Cursors
<1>6. Pos(h, Minus(t, h) + 1) = t
  <2> DEFINE n == Minus(t, h) + 1
  <2>1. Pos(h, n) = IF h + n - 1 >= Wrap THEN h + n - 1 - Wrap ELSE h + n - 1
    BY <1>4, PosLinear
  <2>2. QED
    BY <1>3, <2>1, CapacityBelowWrap, SizesAssumption DEF Cursors
<1>7. Minus(t, h) < Capacity => Minus(Inc(t), h) = Minus(t, h) + 1
  BY <1>1, <1>3, CapacityBelowWrap, SizesAssumption DEF Cursors
<1>8. Minus(t, h) > 0 => Minus(t, Inc(h)) = Minus(t, h) - 1
  BY <1>1, <1>3, CapacityBelowWrap, SizesAssumption DEF Cursors
<1>9. ASSUME Minus(t, h) > 0, NEW i \in 1 .. Minus(t, h) - 1
      PROVE  Pos(Inc(h), i) = Pos(h, i + 1)
  <2>1. i \in 1 .. Capacity + 1 /\ i + 1 \in 1 .. Capacity + 1
    BY <1>4, SizesAssumption
  <2>2. /\ Pos(Inc(h), i) = IF Inc(h) + i - 1 >= Wrap THEN Inc(h) + i - 1 - Wrap ELSE Inc(h) + i - 1
        /\ Pos(h, i + 1) = IF h + (i + 1) - 1 >= Wrap THEN h + (i + 1) - 1 - Wrap ELSE h + (i + 1) - 1
    BY <1>2, <2>1, PosLinear
  <2>3. QED
    BY <1>1, <2>1, <2>2, CapacityBelowWrap, SizesAssumption DEF Cursors
<1>10. QED
  BY <1>2, <1>4, <1>5, <1>6, <1>7, <1>8, <1>9

-----------------------------------------------------------------------------
(* Type correctness, the capacity bound, the contents of the queued slots   *)
(* and of the slot in flight hold of the empty queue.                       *)
LEMMA InvInit == Init => IndInv
<1> SUFFICES ASSUME Init PROVE IndInv
  OBVIOUS
<1>1. 0 \in Cursors /\ Minus(0, 0) = 0
  BY CapacityBelowWrap, MinusLinear, SizesAssumption DEF Cursors
<1>2. TypeOK
  BY <1>1 DEF Init, TypeOK
<1>3. WithinCapacity /\ QueuedData /\ PublishedIntact
  BY <1>1, SizesAssumption DEF Init, WithinCapacity, QueuedData, PublishedIntact, InFlight
<1>4. QED
  BY <1>2, <1>3 DEF IndInv

(* Every step of either thread preserves the invariant.                     *)
LEMMA InvNext == IndInv /\ [Next]_vars => IndInv'
<1> SUFFICES ASSUME IndInv, [Next]_vars
             PROVE  IndInv'
  OBVIOUS
<1> USE DEF IndInv
<1> DEFINE n == Minus(tail, head)
<1>a. head \in Cursors /\ tail \in Cursors /\ n <= Capacity /\ Slot(head) \in Slots /\ Slot(tail) \in Slots
  BY SlotType DEF TypeOK, WithinCapacity, InFlight
<1>b. /\ n \in Nat
      /\ Inc(head) \in Cursors /\ Inc(tail) \in Cursors
      /\ Pos(head, 1) = head
      /\ Pos(head, n + 1) = tail
      /\ n < Capacity => Minus(Inc(tail), head) = n + 1
      /\ n > 0 => /\ Minus(tail, Inc(head)) = n - 1
                  /\ \A i \in 1 .. n - 1 : Pos(Inc(head), i) = Pos(head, i + 1)
  BY <1>a, WindowMoves
<1>c. \A i \in 1 .. n : samples[Slot(Pos(head, i))] \in Data
  BY DEF QueuedData, InFlight
<1>1. ASSUME NEW v \in Data, PushLoad(v)
      PROVE  IndInv'
  BY <1>1 DEF PushLoad, TypeOK, WithinCapacity, QueuedData, PublishedIntact, InFlight
<1>2. CASE PushReturnsFull
  BY <1>2 DEF PushReturnsFull, TypeOK, WithinCapacity, QueuedData, PublishedIntact, InFlight
<1>3. CASE PushWrite
  <2>1. n < Capacity
    BY <1>3 DEF PushWrite, WithinCapacity, InFlight
  <2>2. \A i \in 1 .. n : Slot(Pos(head, i)) # Slot(tail)
    BY <1>a, <2>1, QueuedNotTail
  <2>3. TypeOK'
    BY <1>3, <1>a DEF PushWrite, TypeOK, PublishedIntact
  <2>4. WithinCapacity'
    BY <1>3 DEF PushWrite, WithinCapacity, InFlight
  <2>5. \A i \in 1 .. n : samples'[Slot(Pos(head, i))] \in Data
    BY <1>3, <1>a, <1>c, <2>2 DEF PushWrite, TypeOK
  <2>6. QueuedData'
    BY <1>3, <2>5 DEF PushWrite, QueuedData, InFlight
  <2>7. cons.pc = "taken" => Slot(head) # Slot(tail)
    BY <1>b, <2>2 DEF WithinCapacity, InFlight
  <2>8. PublishedIntact'
    BY <1>3, <1>a, <2>7 DEF PushWrite, PublishedIntact, TypeOK
  <2>9. QED
    BY <2>3, <2>4, <2>6, <2>8
<1>4. CASE PushPublish
  <2>1. n < Capacity /\ Minus(tail', head') = n + 1 /\ head' = head /\ samples' = samples
    BY <1>4, <1>b DEF PushPublish, WithinCapacity, InFlight
  <2>2. TypeOK'
    BY <1>4, <1>b DEF PushPublish, TypeOK
  <2>3. WithinCapacity'
    BY <1>4, <1>a, <1>b, <2>1, SizesAssumption DEF PushPublish, WithinCapacity, InFlight
  <2>4. samples[Slot(Pos(head, n + 1))] \in Data
    BY <1>4, <1>b DEF PushPublish, PublishedIntact
  <2>5. \A i \in 1 .. n + 1 : samples[Slot(Pos(head, i))] \in Data
    BY <1>b, <1>c, <2>4
  <2>6. QueuedData'
    BY <2>1, <2>5 DEF QueuedData, InFlight
  <2>7. PublishedIntact'
    BY <1>4, <2>1 DEF PushPublish, PublishedIntact
  <2>8. QED
    BY <2>2, <2>3, <2>6, <2>7
<1>5. CASE PopLoad
  <2>1. n > 0
    <3>1. n = IF tail >= head THEN tail - head ELSE tail - head + Wrap
      BY <1>a, MinusLinear
    <3>2. head # tail
      BY <1>5 DEF PopLoad
    <3>3. QED
      BY <3>1, <3>2, <1>a, SizesAssumption DEF Cursors
  <2>2. QED
    BY <1>5, <2>1 DEF PopLoad, TypeOK, WithinCapacity, QueuedData, PublishedIntact, InFlight
<1>6. CASE PopReturnsEmpty
  BY <1>6 DEF PopReturnsEmpty, TypeOK, WithinCapacity, QueuedData, PublishedIntact, InFlight
<1>7. CASE PopTake
  <2>1. n > 0
    BY <1>7 DEF PopTake, WithinCapacity, InFlight
  <2>2. samples[Slot(head)] \in Data
    BY <2>1, <1>b, <1>c
  <2>3. QED
    BY <1>7, <1>a, <2>1, <2>2 DEF PopTake, TypeOK, WithinCapacity, QueuedData, PublishedIntact, InFlight
<1>8. CASE PopPublish
  <2>1. n > 0 /\ Minus(tail', head') = n - 1 /\ head' = Inc(head) /\ samples' = samples /\ tail' = tail
    BY <1>8, <1>b DEF PopPublish, WithinCapacity, InFlight
  <2>2. TypeOK'
    BY <1>8, <1>b DEF PopPublish, TypeOK, PublishedIntact
  <2>3. WithinCapacity'
    BY <1>8, <1>a, <1>b, <2>1, SizesAssumption DEF PopPublish, WithinCapacity, InFlight
  <2>4. \A i \in 1 .. n - 1 : samples[Slot(Pos(Inc(head), i))] \in Data
    BY <1>b, <1>c, <2>1
  <2>5. QueuedData'
    BY <2>1, <2>4 DEF QueuedData, InFlight
  <2>6. PublishedIntact'
    BY <1>8, <2>1 DEF PopPublish, PublishedIntact
  <2>7. QED
    BY <2>2, <2>3, <2>5, <2>6
<1>9. CASE UNCHANGED vars
  BY <1>9 DEF vars, TypeOK, WithinCapacity, QueuedData, PublishedIntact, InFlight
<1>10. QED
  BY <1>1, <1>2, <1>3, <1>4, <1>5, <1>6, <1>7, <1>8, <1>9 DEF Next, Producer, Consumer

(* The queue's inductive invariant holds of every behaviour of the two      *)
(* threads.                                                                 *)
THEOREM QueueInvariant == Spec => []IndInv
BY InvInit, InvNext, PTL DEF Spec

(* SpscQueue.hh: "one thread calls try_push, one (different) thread calls   *)
(* try_pop": the two never touch the same slot at the same time.            *)
THEOREM SlotRaceFreedom == Spec => []NoSlotRace
<1>1. IndInv => NoSlotRace
  <2> SUFFICES ASSUME IndInv, prod.pc = "loaded", cons.pc = "loaded"
               PROVE  Slot(tail) # Slot(head)
    BY DEF NoSlotRace
  <2>1. Minus(tail, head) < Capacity /\ Minus(tail, head) > 0
    BY DEF IndInv, WithinCapacity, InFlight
  <2>2. QED
    BY <2>1, SlotDistinct DEF IndInv, TypeOK
<1>2. QED
  BY <1>1, QueueInvariant, PTL

(* What a push stored is what it publishes, and what a pop moved out is     *)
(* what it returns, in every behaviour.                                     *)
THEOREM PublishedIntactAlways == Spec => []PublishedIntact
<1>1. IndInv => PublishedIntact
  BY DEF IndInv
<1>2. QED
  BY <1>1, QueueInvariant, PTL

-----------------------------------------------------------------------------
(* The elements between two cursors form a sequence of packets. *)
LEMMA WindowSeq ==
    ASSUME NEW s, NEW h \in Cursors, NEW t \in Cursors, Minus(t, h) <= Capacity,
           \A i \in 1 .. Minus(t, h) : s[Slot(Pos(h, i))] \in Data
    PROVE  /\ Window(s, h, t) \in Seq(Data)
           /\ Len(Window(s, h, t)) = Minus(t, h)
           /\ \A i \in 1 .. Minus(t, h) : Window(s, h, t)[i] = s[Slot(Pos(h, i))]
<1> DEFINE w == Window(s, h, t)
<1>1. Minus(t, h) \in Nat
  BY WindowMoves
<1>2. w \in [1 .. Minus(t, h) -> Data] /\ \A i \in 1 .. Minus(t, h) : w[i] = s[Slot(Pos(h, i))]
  BY DEF Window
<1> HIDE DEF w
<1>3. w \in Seq(Data)
  BY <1>1, <1>2
<1>4. Len(w) = Minus(t, h)
  BY <1>1, <1>2, <1>3, LenProperties
<1>5. QED
  BY <1>2, <1>3, <1>4 DEF w

(* The initial state maps to the empty FIFO. *)
LEMMA RefineInit == Init => Fifo!FifoInit
<1> SUFFICES ASSUME Init PROVE Fifo!FifoInit
  OBVIOUS
<1>1. IndInv
  BY InvInit
<1>2. Queued \in Seq(Data) /\ Len(Queued) = Minus(tail, head)
  BY <1>1, WindowSeq DEF IndInv, TypeOK, WithinCapacity, QueuedData, InFlight, Queued
<1>3. Minus(tail, head) = 0
  BY MinusLinear, CapacityBelowWrap, SizesAssumption DEF Init, Cursors
<1>4. Queued = <<>>
  BY <1>2, <1>3, EmptySeq
<1>5. QED
  BY <1>4 DEF Init, Fifo!FifoInit

(* Every step of the two threads maps to a step of the FIFO or to none. *)
LEMMA RefineNext == IndInv /\ IndInv' /\ [Next]_vars => [Fifo!FifoNext]_(Fifo!fifoVars)
<1> SUFFICES ASSUME IndInv, IndInv', [Next]_vars
             PROVE  [Fifo!FifoNext]_(Fifo!fifoVars)
  OBVIOUS
<1> DEFINE n == Minus(tail, head)
           n2 == Minus(tail', head')
<1>a. /\ head \in Cursors /\ tail \in Cursors /\ n <= Capacity
      /\ \A i \in 1 .. n : samples[Slot(Pos(head, i))] \in Data
  BY DEF IndInv, TypeOK, WithinCapacity, QueuedData, InFlight
<1>b. /\ head' \in Cursors /\ tail' \in Cursors /\ n2 <= Capacity
      /\ \A i \in 1 .. n2 : samples'[Slot(Pos(head', i))] \in Data
  BY DEF IndInv, TypeOK, WithinCapacity, QueuedData, InFlight
<1>c. /\ Queued \in Seq(Data) /\ Len(Queued) = n
      /\ \A i \in 1 .. n : Queued[i] = samples[Slot(Pos(head, i))]
  BY <1>a, WindowSeq DEF Queued
<1>d. /\ Queued' \in Seq(Data) /\ Len(Queued') = n2
      /\ \A i \in 1 .. n2 : Queued'[i] = samples'[Slot(Pos(head', i))]
  BY <1>b, WindowSeq DEF Queued
<1>e. /\ n \in Nat
      /\ Pos(head, 1) = head
      /\ Pos(head, n + 1) = tail
      /\ n < Capacity => Minus(Inc(tail), head) = n + 1
      /\ n > 0 => /\ Minus(tail, Inc(head)) = n - 1
                  /\ \A i \in 1 .. n - 1 : Pos(Inc(head), i) = Pos(head, i + 1)
  BY <1>a, WindowMoves
<1>f. (Queued = <<>>) <=> n = 0
  BY <1>c, <1>e, EmptySeq
<1>g. ASSUME UNCHANGED <<samples, head, tail>>
      PROVE  Queued' = Queued
  BY <1>g DEF Queued
<1> HIDE DEF n, n2
<1> USE DEF Fifo!fifoVars
<1>1. ASSUME NEW v \in Data, PushLoad(v)
      PROVE  UNCHANGED Fifo!fifoVars
  BY <1>1, <1>g DEF PushLoad
<1>2. CASE PushReturnsFull
  <2>1. n = Capacity
    BY <1>2, <1>a, <1>e, SizesAssumption DEF PushReturnsFull, n
  <2>2. Fifo!PushFull
    BY <1>2, <1>c, <1>g, <2>1 DEF PushReturnsFull, Fifo!PushFull
  <2>3. QED
    BY <2>2 DEF Fifo!FifoNext
<1>3. CASE PushWrite
  <2>1. n < Capacity /\ n2 = n
    BY <1>3 DEF PushWrite, IndInv, WithinCapacity, InFlight, n, n2
  <2>2. \A i \in 1 .. n : Slot(Pos(head, i)) # Slot(tail)
    BY <1>a, <2>1, QueuedNotTail DEF n
  <2>3. \A i \in 1 .. n : samples'[Slot(Pos(head, i))] = samples[Slot(Pos(head, i))]
    BY <1>3, <1>a, <2>2 DEF PushWrite, IndInv, TypeOK
  <2>4. \A i \in 1 .. n : Queued'[i] = Queued[i]
    BY <1>3, <1>c, <1>d, <2>1, <2>3 DEF PushWrite
  <2>5. Queued' = Queued
    BY <1>c, <1>d, <2>1, <2>4, SeqEqual
  <2>6. QED
    BY <1>3, <2>5 DEF PushWrite
<1>4. CASE PushPublish
  <2>1. n < Capacity /\ n2 = n + 1 /\ prod.value \in Data /\ samples[Slot(tail)] = prod.value
    BY <1>4, <1>e DEF PushPublish, IndInv, WithinCapacity, PublishedIntact, InFlight, n, n2
  <2> DEFINE a == Append(Queued, prod.value)
  <2>2. /\ a \in Seq(Data) /\ Len(a) = n + 1
        /\ \A i \in 1 .. n : a[i] = Queued[i]
        /\ a[n + 1] = prod.value
    BY <1>c, <2>1, AppendProperties
  <2> HIDE DEF a
  <2>3. \A i \in 1 .. n : Queued'[i] = a[i]
    BY <1>4, <1>c, <1>d, <1>e, <2>1, <2>2 DEF PushPublish
  <2>4. Queued'[n + 1] = a[n + 1]
    BY <1>4, <1>d, <1>e, <2>1, <2>2 DEF PushPublish
  <2>5. Queued' = a
    <3>1. \A i \in 1 .. n + 1 : Queued'[i] = a[i]
      BY <1>e, <2>3, <2>4
    <3>2. QED
      BY <3>1, <1>d, <2>1, <2>2, SeqEqual
  <2>6. Fifo!Push(prod.value)
    BY <1>4, <1>c, <2>1, <2>5 DEF PushPublish, Fifo!Push, a
  <2>7. QED
    BY <2>1, <2>6 DEF Fifo!FifoNext
<1>5. CASE PopLoad
  BY <1>5, <1>g DEF PopLoad
<1>6. CASE PopReturnsEmpty
  <2>1. n = 0
    <3>1. head = tail
      BY <1>6 DEF PopReturnsEmpty
    <3>2. n = IF tail >= head THEN tail - head ELSE tail - head + Wrap
      BY <1>a, MinusLinear DEF n
    <3>3. QED
      BY <3>1, <3>2, <1>a, SizesAssumption DEF Cursors
  <2>2. Fifo!PopEmpty
    BY <1>6, <1>f, <1>g, <2>1 DEF PopReturnsEmpty, Fifo!PopEmpty
  <2>3. QED
    BY <2>2 DEF Fifo!FifoNext
<1>7. CASE PopTake
  BY <1>7, <1>g DEF PopTake
<1>8. CASE PopPublish
  <2>1. n > 0 /\ n2 = n - 1 /\ cons.value = samples[Slot(head)]
    BY <1>8, <1>e DEF PopPublish, IndInv, WithinCapacity, PublishedIntact, InFlight, n, n2
  <2>2. Queued # <<>> /\ Head(Queued) = cons.value
    BY <1>c, <1>e, <1>f, <2>1
  <2> DEFINE r == Tail(Queued)
  <2>3. r \in Seq(Data) /\ Len(r) = n - 1 /\ \A i \in 1 .. n - 1 : r[i] = Queued[i + 1]
    BY <1>c, <2>2, HeadTailProperties
  <2> HIDE DEF r
  <2>4. \A i \in 1 .. n - 1 : Queued[i + 1] = samples[Slot(Pos(head, i + 1))]
    BY <1>c, <1>e
  <2>5. \A i \in 1 .. n - 1 : Queued'[i] = samples[Slot(Pos(head, i + 1))]
    BY <1>8, <1>d, <1>e, <2>1 DEF PopPublish
  <2>6. Queued' = r
    BY <1>d, <2>1, <2>3, <2>4, <2>5, SeqEqual
  <2>7. Fifo!Pop
    BY <1>8, <2>2, <2>6 DEF PopPublish, Fifo!Pop, r
  <2>8. QED
    BY <2>7 DEF Fifo!FifoNext
<1>9. CASE UNCHANGED vars
  BY <1>9, <1>g DEF vars
<1>10. QED
  BY <1>1, <1>2, <1>3, <1>4, <1>5, <1>6, <1>7, <1>8, <1>9 DEF Next, Producer, Consumer

(* SpscQueue implements the bounded FIFO, for every capacity and cursor width: *)
(* the calls of try_push and try_pop linearize at their cursor stores, and a   *)
(* refusal at the load that saw the queue full or empty.                       *)
THEOREM QueueLinearizable == Spec => Linearizable
<1>1. Spec => []IndInv
  BY QueueInvariant
<1>2. QED
  BY <1>1, RefineInit, RefineNext, PTL DEF Spec, Linearizable, Fifo!FifoSpec

-----------------------------------------------------------------------------
(***************************************************************************)
(* Why the SPSC queues of a network process never have two producers: the  *)
(* relay's receive thread is only started when the ICE lane has not been   *)
(* taken, and then the negotiation has joined the loop thread.             *)
(***************************************************************************)

\* Where main is before it has chosen a lane.
Undecided == Negotiating \cup {"lane"}

(* The loop thread of a negotiation that failed is gone once main has left *)
(* the negotiation, and there is none before init.                         *)
LoopJoined ==
    /\ main = "init" => loop = "none"
    /\ ~ice_active /\ main \notin Negotiating => loop = "none"

(* The receive thread exists only on the relay lane, and only once that    *)
(* has been chosen.                                                        *)
RelayOnly == rx # "none" => ~ice_active /\ main \notin Undecided

(* The ICE lane is never active while it is being negotiated.              *)
NotYetActive == main \in Negotiating => ~ice_active

ProducerInv == LoopJoined /\ RelayOnly /\ NotYetActive

LEMMA InitProducer == MediaInit => ProducerInv
BY DEF MediaInit, ProducerInv, LoopJoined, RelayOnly, NotYetActive, Undecided, Negotiating

\* A step of main during the negotiation, and its end.
LEMMA MainProducer == ProducerInv /\ Main => ProducerInv'
<1> SUFFICES ASSUME ProducerInv, Main PROVE ProducerInv'
    OBVIOUS
<1> USE DEF ProducerInv, LoopJoined, RelayOnly, NotYetActive, Undecided, Negotiating
<1>1. CASE IceInit BY <1>1 DEF IceInit
<1>2. CASE IceOff BY <1>2 DEF IceOff, iceVars
<1>3. CASE WaitGathered BY <1>3 DEF WaitGathered, iceVars
<1>4. CASE AwaitSdp BY <1>4 DEF AwaitSdp, iceVars
<1>5. CASE WaitReady BY <1>5 DEF WaitReady
<1>6. CASE Unwind BY <1>6 DEF Unwind, StopLoop, ReleaseAgent
<1>7. CASE TakeLane BY <1>7 DEF TakeLane, iceVars
<1>8. CASE Pass BY <1>8 DEF Pass, iceVars
<1>9. CASE NotifyOne BY <1>9 DEF NotifyOne, iceVars
<1>10. CASE LeaveLoop BY <1>10 DEF LeaveLoop, iceVars
<1>11. CASE JoinRx BY <1>11 DEF JoinRx, iceVars
<1>12. CASE CloseIce BY <1>12 DEF CloseIce, StopLoop, ReleaseAgent
<1>13. CASE ClearFlag BY <1>13 DEF ClearFlag, iceVars
<1>14. CASE NotifyAll BY <1>14 DEF NotifyAll, iceVars
<1>15. CASE JoinWorker BY <1>15 DEF JoinWorker, iceVars
<1> QED
    BY <1>1, <1>2, <1>3, <1>4, <1>5, <1>6, <1>7, <1>8, <1>9, <1>10, <1>11, <1>12,
       <1>13, <1>14, <1>15 DEF Main

\* The worker and the clock touch nothing the invariant speaks of.
LEMMA WorkerUntouched == Worker => UNCHANGED <<main, ice_active, loop, rx>>
<1> SUFFICES ASSUME Worker PROVE UNCHANGED <<main, ice_active, loop, rx>>
    OBVIOUS
<1>1. \E from, to : WorkerMoves(from, to)
    BY DEF Worker, WorkerTop, WorkerLock, WorkerTests, WorkerBlocks, WorkerWoken,
           WorkerSleeps, WorkerWakes, WorkerTakes, WorkerSends, WorkerDrains
<1> QED BY <1>1 DEF WorkerMoves, iceVars

LEMMA StepProducer == ProducerInv /\ [MediaNext]_mediaVars => ProducerInv'
<1> SUFFICES ASSUME ProducerInv, [MediaNext]_mediaVars PROVE ProducerInv'
    OBVIOUS
<1> USE DEF ProducerInv, LoopJoined, RelayOnly, NotYetActive, Undecided, Negotiating
<1>1. CASE Main BY <1>1, MainProducer
<1>2. CASE Worker BY <1>2, WorkerUntouched
<1>3. CASE Submit BY <1>3 DEF Submit, iceVars
<1>4. CASE ReceiveThreadEnds BY <1>4 DEF ReceiveThreadEnds, iceVars
<1>5. CASE OnSignal BY <1>5 DEF OnSignal, iceVars
<1>6. CASE SdpArrives BY <1>6 DEF SdpArrives
<1>7. CASE Callbacks
    BY <1>7 DEF Callbacks, OnGatheringDone, OnStateChanged, OnData
<1>8. CASE LoopEnds BY <1>8 DEF LoopEnds
<1>9. CASE \E p \in Packets : DeadlinePasses(p)
    BY <1>9 DEF DeadlinePasses, iceVars
<1>10. CASE UNCHANGED mediaVars BY <1>10 DEF mediaVars, iceVars
<1> QED
    BY <1>1, <1>2, <1>3, <1>4, <1>5, <1>6, <1>7, <1>8, <1>9, <1>10 DEF MediaNext

(* "The relay rx thread and the ICE recv callback are alternative sole     *)
(* producers for the SPSC rings, never both": however a negotiation fails, *)
(* and for any number of packets, receive_thread does not run while        *)
(* IceTransport's loop thread exists.                                      *)
THEOREM OneProducer == MediaSpec => []SingleProducer
<1>1. ProducerInv => SingleProducer
    BY DEF ProducerInv, LoopJoined, RelayOnly, Undecided, Negotiating, SingleProducer
<1> QED
    BY <1>1, InitProducer, StepProducer, PTL DEF MediaSpec
==============================================================================
