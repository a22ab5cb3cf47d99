------------------------- MODULE JitterBufferProofs -------------------------
(***************************************************************************)
(* As long as the sequence numbers do not wrap, playout is in order and    *)
(* no packet is stranded, for every capacity, threshold, skip distance and *)
(* any reordering and loss.  (With wrapping they do fail: run jitter_wrap.) *)
(* The second part is about the video lane above it: what the router finds *)
(* out about lost frames is exact, and the reassembler glues no two.       *)
(***************************************************************************)
EXTENDS VideoLane, FiniteSetTheorems, WellFoundedInduction, TLAPS

(* A packet's sequence number is its own number.                           *)
LEMMA WireIsNumber ==
  ASSUME NoWrap, NEW n \in 0 .. MaxSent
  PROVE  Wire(n) = n
<1>1. n < SeqMod /\ n \in Nat /\ SeqMod \in Nat
  BY SizesAssumption DEF NoWrap
<1>2. QED
  BY <1>1 DEF Wire

(* packet_sequence_less_than finds every packet before b to be before b.   *)
LEMMA LessIsLess ==
  ASSUME NoWrap, NEW a \in 0 .. MaxSent, NEW b \in 0 .. MaxSent, a < b
  PROVE  Less(a, b)
<1>1. (a - b) % SeqMod = SeqMod + (a - b)
  BY SizesAssumption DEF NoWrap
<1>2. SeqMod + (a - b) >= SeqMod \div 2
  BY SizesAssumption DEF NoWrap
<1>3. QED
  BY <1>1, <1>2 DEF Less

(* The buffer is finite.                                                   *)
LEMMA BufferFinite ==
  ASSUME JitterTypeOK
  PROVE  IsFiniteSet(buffer) /\ Cardinality(buffer) \in Nat
<1>1. 0 \in Int /\ sent - 1 \in Int /\ buffer \in SUBSET (0 .. sent - 1)
  BY DEF JitterTypeOK
<1>2. IsFiniteSet(0 .. sent - 1)
  BY <1>1, FS_Interval
<1>3. IsFiniteSet(buffer)
  BY <1>1, <1>2, FS_Subset
<1>4. QED
  BY <1>3, FS_CardinalityType

(* What push does to the buffer keeps its bound.                           *)
LEMMA PushBound ==
  ASSUME NEW n \in Nat, JitterTypeOK, Push(n)
  PROVE  buffer' \subseteq 0 .. sent - 1 /\ Cardinality(buffer') <= Capacity
<1>1. IsFiniteSet(buffer) /\ Cardinality(buffer) \in Nat
  BY BufferFinite
<1>2. CASE buffer' = buffer
  BY <1>2 DEF JitterTypeOK
<1>3. CASE buffer' = buffer \cup {n}
  <2>1. Cardinality(buffer \cup {n}) = IF n \in buffer THEN Cardinality(buffer) ELSE Cardinality(buffer) + 1
    BY <1>1, FS_AddElement
  <2>2. n < sent /\ Cardinality(buffer) < Capacity /\ sent \in Int /\ buffer \subseteq 0 .. sent - 1
    BY DEF Push, JitterTypeOK
  <2>3. Cardinality(buffer') <= Capacity
    BY <1>1, <1>3, <2>1, <2>2, SizesAssumption
  <2>4. QED
    BY <1>3, <2>2, <2>3
<1>4. QED
  BY <1>2, <1>3 DEF Push

(* What pop does to the buffer keeps its bound.                            *)
LEMMA PopBound ==
  ASSUME JitterTypeOK, NEW m \in buffer
  PROVE  Cardinality(buffer \ {m}) <= Capacity
<1>1. IsFiniteSet(buffer) /\ Cardinality(buffer) \in Nat /\ Cardinality(buffer) <= Capacity
  BY BufferFinite DEF JitterTypeOK
<1>2. Cardinality(buffer \ {m}) = Cardinality(buffer) - 1
  BY <1>1, FS_RemoveElement
<1>3. QED
  BY <1>1, <1>2, SizesAssumption

(* The types, whether or not sequence numbers wrap.                        *)
LEMMA TypeNext == JitterTypeOK /\ [Next]_vars => JitterTypeOK'
<1> SUFFICES ASSUME JitterTypeOK, [Next]_vars PROVE JitterTypeOK'
  OBVIOUS
<1>0. /\ sent \in 0 .. MaxSent /\ last \in -1 .. sent - 1
      /\ MaxSent \in Nat /\ SeqMod \in Nat /\ SeqMod > 1
  BY SizesAssumption DEF JitterTypeOK
<1>1. CASE Transmit
  BY <1>0, <1>1 DEF Transmit, JitterTypeOK
<1>2. ASSUME NEW n \in 0 .. MaxSent - 1, Push(n) PROVE JitterTypeOK'
  <2>1. n \in Nat
    BY <1>0
  <2>2. buffer' \subseteq 0 .. sent - 1 /\ Cardinality(buffer') <= Capacity
    BY <1>0, <1>2, <2>1, PushBound
  <2>3. QED
    BY <1>0, <1>2, <2>2 DEF Push, JitterTypeOK
<1>3. CASE Pop
  <2>1. PICK seq \in 0 .. SeqMod - 1, m \in buffer :
           /\ playing' = TRUE /\ buffer' = buffer \ {m}
           /\ next_sequence' = (Wire(m) + 1) % SeqMod
           /\ last' = m /\ Adapt /\ sent' = sent
    BY <1>3 DEF Pop
  <2>2. m \in 0 .. sent - 1 /\ Wire(m) \in Nat
    BY <1>0 DEF JitterTypeOK, Wire
  <2>3. Cardinality(buffer') <= Capacity /\ buffer' \subseteq 0 .. sent - 1
    BY <1>0, <2>1, PopBound DEF JitterTypeOK
  <2>4. threshold' \in MinThreshold .. MaxThreshold /\ pops' \in 0 .. AdaptEvery - 1
    BY <1>0, <2>1, SizesAssumption DEF Adapt, JitterTypeOK
  <2>5. next_sequence' \in 0 .. SeqMod - 1
    BY <1>0, <2>1, <2>2
  <2>6. QED
    BY <1>0, <2>1, <2>2, <2>3, <2>4, <2>5 DEF JitterTypeOK
<1>4. CASE UNCHANGED vars
  BY <1>4 DEF vars, JitterTypeOK
<1>5. QED
  BY <1>1, <1>2, <1>3, <1>4 DEF Next

(* The packet pop hands out is the first one of the buffer, in the order   *)
(* of sending.                                                             *)
LEMMA PopTakesFirst ==
  ASSUME NoWrap, IndInv, NEW seq \in 0 .. SeqMod - 1, NEW m \in buffer, Expected(seq), HandsOut(seq, m)
  PROVE  \A k \in buffer : m <= k
<1>1. \A k \in buffer : Wire(k) = k /\ k \in Nat
  BY WireIsNumber, SizesAssumption DEF IndInv, JitterTypeOK
<1>2. \A b \in buffer : IsBegin(b) => \A k \in buffer : b <= k
  BY <1>1 DEF IsBegin
<1>3. CASE m \in Find(seq) /\ playing
  <2>1. last \in 0 .. MaxSent - 1 /\ last + 1 \in 0 .. MaxSent
    BY <1>3, SizesAssumption DEF IndInv, JitterTypeOK, ExpectsNext
  <2>2. m = last + 1
    BY <1>1, <1>3, <2>1, WireIsNumber DEF Find, Expected, IndInv, ExpectsNext
  <2>3. QED
    BY <1>1, <1>3, <2>1, <2>2 DEF IndInv, NothingStuck
<1>4. CASE m \in Find(seq) /\ ~playing
  <2>1. \E b \in buffer : IsBegin(b) /\ Wire(b) = seq
    BY <1>4 DEF Expected
  <2>2. QED
    BY <1>1, <1>2, <1>4, <2>1 DEF Find
<1>5. CASE IsBegin(m)
  BY <1>2, <1>5
<1>6. QED
  BY <1>3, <1>4, <1>5 DEF HandsOut

(* The invariant holds at first.                                           *)
LEMMA InvInit == Init => IndInv
<1> SUFFICES ASSUME Init PROVE IndInv
  OBVIOUS
<1>1. buffer = {} /\ Cardinality({}) = 0
  BY FS_EmptySet DEF Init
<1>2. buffer \subseteq 0 .. sent - 1 /\ Cardinality(buffer) <= Capacity
  <2>1. Cardinality(buffer) = 0
    BY <1>1, Zenon
  <2>2. QED
    BY <1>1, <2>1, SizesAssumption
<1>3. threshold \in MinThreshold .. MaxThreshold /\ pops \in 0 .. AdaptEvery - 1 /\ next_sequence \in 0 .. SeqMod - 1
  BY SizesAssumption DEF Init
<1>4. JitterTypeOK
  <2>1. sent \in 0 .. MaxSent /\ last \in -1 .. sent - 1
    BY SizesAssumption DEF Init
  <2>2. playing \in BOOLEAN
    BY DEF Init
  <2>3. QED
    BY <1>2, <1>3, <2>1, <2>2 DEF JitterTypeOK
<1>5. NothingStuck /\ ExpectsNext
  BY DEF Init, NothingStuck, ExpectsNext
<1>6. QED
  BY <1>4, <1>5 DEF IndInv

(* Every step preserves it, as long as sequence numbers do not wrap.       *)
LEMMA InvNext == NoWrap /\ IndInv /\ [Next]_vars => IndInv'
<1> SUFFICES ASSUME NoWrap, IndInv, [Next]_vars PROVE IndInv'
  OBVIOUS
<1>0. /\ JitterTypeOK /\ NothingStuck /\ ExpectsNext
      /\ sent \in 0 .. MaxSent /\ last \in -1 .. sent - 1
      /\ MaxSent \in Nat /\ SeqMod \in Nat /\ SeqMod > 1
  BY SizesAssumption DEF IndInv, JitterTypeOK
<1>t. JitterTypeOK'
  BY <1>0, TypeNext
<1>1. CASE Transmit
  BY <1>0, <1>1 DEF Transmit, IndInv, JitterTypeOK, NothingStuck, ExpectsNext, Wire
<1>2. ASSUME NEW n \in 0 .. MaxSent - 1, Push(n) PROVE IndInv'
  <2>2. NothingStuck'
    <3>1. ASSUME playing PROVE n > last
      <4>1. last + 1 \in 0 .. MaxSent /\ n \in 0 .. MaxSent /\ next_sequence = last + 1 /\ Wire(n) = n
        BY <1>0, <3>1, WireIsNumber DEF ExpectsNext
      <4>2. ~Less(n, last + 1)
        BY <1>2, <3>1, <4>1 DEF Push
      <4>3. QED
        BY <1>0, <4>1, <4>2, LessIsLess
    <3>2. QED
      BY <1>0, <1>2, <3>1 DEF Push, NothingStuck
  <2>3. ExpectsNext'
    BY <1>0, <1>2 DEF Push, ExpectsNext, Wire
  <2>4. QED
    BY <1>t, <2>2, <2>3 DEF IndInv
<1>3. CASE Pop
  <2>1. PICK seq \in 0 .. SeqMod - 1, m \in buffer :
           /\ Expected(seq) /\ HandsOut(seq, m)
           /\ playing' = TRUE /\ buffer' = buffer \ {m}
           /\ next_sequence' = (Wire(m) + 1) % SeqMod
           /\ last' = m /\ Adapt /\ sent' = sent
    BY <1>3 DEF Pop
  <2>2. m \in 0 .. sent - 1 /\ Wire(m) = m /\ m \in Nat
    BY <1>0, WireIsNumber DEF JitterTypeOK
  <2>4. NothingStuck'
    <3>1. \A k \in buffer : m <= k /\ k \in Int
      BY <2>1, PopTakesFirst, <1>0 DEF JitterTypeOK
    <3>2. QED
      BY <2>1, <2>2, <3>1 DEF NothingStuck
  <2>5. ExpectsNext'
    BY <2>1, <2>2 DEF ExpectsNext, Wire
  <2>6. QED
    BY <1>t, <2>4, <2>5 DEF IndInv
<1>4. CASE UNCHANGED vars
  BY <1>4 DEF vars, IndInv, JitterTypeOK, NothingStuck, ExpectsNext, Wire
<1>5. QED
  BY <1>1, <1>2, <1>3, <1>4 DEF Next

(* No packet of the buffer is ever behind the playout position, where pop  *)
(* would not look for it.                                                  *)
THEOREM NothingStuckAlways == ASSUME NoWrap PROVE Spec => []NothingStuck
<1>1. IndInv /\ [Next]_vars => IndInv'
  BY InvNext
<1>2. IndInv => NothingStuck
  BY DEF IndInv
<1>3. QED
  BY <1>1, <1>2, InvInit, PTL DEF Spec

(* The buffer never holds more than its capacity, and the threshold stays  *)
(* between its bounds.                                                     *)
THEOREM JitterTypes == Spec => []JitterTypeOK
<1>1. Init => JitterTypeOK
  BY InvInit DEF IndInv
<1>2. QED
  BY <1>1, TypeNext, PTL DEF Spec

(* pop hands packets out in the order they were sent, each at most once,   *)
(* whatever was lost, reordered, duplicated or skipped.                    *)
THEOREM PlayedInOrderAlways == ASSUME NoWrap PROVE Spec => PlayedInOrder
<1>1. IndInv /\ [Next]_vars => IndInv'
  BY InvNext
<1>2. IndInv /\ [Next]_vars => [last' # last => last' > last]_vars
  <2> SUFFICES ASSUME IndInv, Next, last' # last PROVE last' > last
    BY DEF vars
  <2>1. Pop
    BY DEF Next, Transmit, Push
  <2>2. PICK m \in buffer : last' = m
    BY <2>1 DEF Pop
  <2>3. QED
    BY <2>2 DEF IndInv, JitterTypeOK, NothingStuck, ExpectsNext
<1>3. QED
  BY <1>1, <1>2, InvInit, PTL DEF Spec, PlayedInOrder

-----------------------------------------------------------------------------
(* Every set of numbers has a least one: of the finite sets 0 .. k with k  *)
(* in S, ordered by inclusion, one is minimal.                             *)
LEMMA LeastNumber ==
  ASSUME NEW S \in SUBSET Nat, S # {}
  PROVE  \E m \in S : \A k \in S : m <= k
<1>1. PICK b \in S : TRUE
  OBVIOUS
<1> DEFINE B == 0 .. b
           R == StrictSubsetOrdering(B)
           T == {0 .. k : k \in S \cap B}
<1>2. IsWellFoundedOn(R, FiniteSubsetsOf(B))
  BY FS_StrictSubsetOrderingWellFounded
<1>3. T \subseteq FiniteSubsetsOf(B)
  <2> SUFFICES ASSUME NEW k \in S \cap B PROVE 0 .. k \in FiniteSubsetsOf(B)
    OBVIOUS
  <2>1. IsFiniteSet(0 .. k) /\ 0 .. k \subseteq B
    BY <1>1, FS_Interval
  <2> QED BY <2>1 DEF FiniteSubsetsOf
<1>4. T # {}
  BY <1>1
<1> HIDE DEF R
<1>5. PICK X \in T : \A Y \in T : ~(<<Y, X>> \in R)
  BY <1>2, <1>3, <1>4, WFMin
<1>6. PICK m \in S \cap B : X = 0 .. m
  BY <1>5
<1>7. ASSUME NEW k \in S, k < m PROVE FALSE
  <2>1. 0 .. k \in T /\ 0 .. k \subseteq B /\ 0 .. m \subseteq B
    BY <1>6, <1>7
  <2>2. 0 .. k \subseteq 0 .. m /\ m \notin 0 .. k /\ m \in 0 .. m
    BY <1>6, <1>7
  <2>3. <<0 .. k, 0 .. m>> \in R
    BY <2>1, <2>2 DEF R, StrictSubsetOrdering
  <2> QED BY <1>5, <1>6, <2>1, <2>3
<1> QED BY <1>6, <1>7

(* A buffer that is not empty has a first packet in the order of the map.  *)
LEMMA HasBegin ==
  ASSUME JitterTypeOK, buffer # {}
  PROVE  \E m \in buffer : IsBegin(m)
<1> DEFINE W == {Wire(k) : k \in buffer}
<1>1. W \in SUBSET Nat /\ W # {}
  <2>1. \A k \in buffer : Wire(k) \in Nat
    <3>1. buffer \subseteq Int /\ SeqMod \in Nat /\ SeqMod > 0
      BY SizesAssumption DEF JitterTypeOK
    <3> QED BY <3>1 DEF Wire
  <2> HIDE DEF JitterTypeOK
  <2> QED BY <2>1
<1>2. PICK w \in W : \A v \in W : w <= v
  BY <1>1, LeastNumber
<1>3. PICK m \in buffer : Wire(m) = w
  BY <1>2
<1> QED BY <1>2, <1>3 DEF IsBegin

(* If there is room for the largest threshold and the pile-up margin, a    *)
(* full buffer always plays: a full buffer that waits for a lost packet    *)
(* skips, and none that has not begun to play is below its threshold.      *)
(* Sequence numbers may wrap here.                                         *)
THEOREM FullPlaysAlways == ASSUME PileUpFits PROVE Spec => []FullPlays
<1>1. JitterTypeOK => FullPlays
  <2> SUFFICES ASSUME JitterTypeOK, Cardinality(buffer) = Capacity
               PROVE  \E seq \in 0 .. SeqMod - 1, m \in buffer : Expected(seq) /\ HandsOut(seq, m)
    BY DEF FullPlays
  <2>1. Cardinality(buffer) >= threshold /\ Cardinality(buffer) >= threshold + PileUp /\ threshold >= 1
    BY SizesAssumption DEF JitterTypeOK, PileUpFits
  <2>2. buffer # {}
    <3>1. Cardinality({}) = 0
      BY FS_EmptySet
    <3>2. Cardinality(buffer) # 0
      BY <2>1, SizesAssumption DEF JitterTypeOK
    <3> QED BY <3>1, <3>2
  <2>3. PICK b \in buffer : IsBegin(b)
    BY <2>2, HasBegin
  <2>4. CASE playing
    <3>1. next_sequence \in 0 .. SeqMod - 1 /\ Expected(next_sequence)
      BY <2>4 DEF JitterTypeOK, Expected
    <3>2. \E m \in buffer : HandsOut(next_sequence, m)
      BY <2>1, <2>3 DEF HandsOut, Find, Skips
    <3> QED BY <3>1, <3>2
  <2>5. CASE ~playing
    <3>1. Wire(b) \in 0 .. SeqMod - 1
      BY SizesAssumption DEF JitterTypeOK, Wire
    <3>2. Expected(Wire(b)) /\ HandsOut(Wire(b), b)
      BY <2>1, <2>3, <2>5 DEF Expected, HandsOut, Find
    <3> QED BY <3>1, <3>2
  <2> QED BY <2>4, <2>5
<1> QED BY <1>1, JitterTypes, PTL
-----------------------------------------------------------------------------
(* One video stream *)

\* The frames of one stream have fewer packets than half the sequence numbers,
\* and what arrives late is not later than that.
Span == MaxFrames * MaxChunks
HalfWindow == 2 * Span <= SeqMod /\ 2 * Reorder <= SeqMod
\* Its timestamps do not wrap.
StampsFit == TsStep * MaxFrames <= TsMod

\* The first packet of the stream, its frames, and how many frames came before.
Base == SeqMod * stream
Own == {f \in DOMAIN frames : frames[f].stream = stream}
Before == Len(frames) - Cardinality(Own)

Frames == [first : Nat, final : Nat, ts : Nat, stream : Nat]

FramesInv ==
    /\ sent \in Nat /\ stream \in Nat
    /\ frames \in Seq(Frames) /\ Len(frames) <= MaxFrames
    /\ \A f \in DOMAIN frames :
          /\ frames[f].first <= frames[f].final /\ frames[f].final < sent
          /\ frames[f].stream <= stream
          /\ \A g \in DOMAIN frames : f < g => frames[f].final < frames[g].first

\* The frames of the stream follow on each other; those before are too old to
\* arrive.
StreamInv ==
    /\ Cardinality(Own) \in Nat /\ Before \in Nat /\ Own = Before + 1 .. Len(frames)
    /\ sent - Base \in 0 .. MaxChunks * Cardinality(Own)
    /\ \A f \in Own :
          /\ frames[f].ts = TsStep * (f - 1 - Before) /\ Base <= frames[f].first
          /\ frames[f].final + 1 = IF f = Len(frames) THEN sent ELSE frames[f + 1].first
    /\ \A f \in DOMAIN frames \ Own : frames[f].final + Reorder < Base

\* Where the last packet of the frame handed out last is behind.
HandedBelow(n) == handed # << >> => handed[Len(handed)] < n

IsSource(s) ==
    /\ DOMAIN s = DOMAIN NewSource(0) /\ s.live = TRUE
    /\ s.born \in Nat /\ s.frame_buffer \in Seq(Nat)

\* Packets held and handed out were sent, and those of a source that has gone
\* idle before it did; nothing is left when the source is gone.
HeldInv ==
    /\ floor \in 0 .. sent /\ quiet \in BOOLEAN /\ pumping \in BOOLEAN
    /\ buffer \subseteq Nat /\ \A n \in buffer : IsPacket(n) /\ (quiet => n < floor)
    /\ handed \in Seq(Nat) /\ HandedBelow(sent) /\ (quiet => HandedBelow(floor))
    /\ source = NoSource \/ (IsSource(source) /\ source.born <= stream)
    /\ ~source.live => buffer = {} /\ playing = FALSE /\ last = -1 /\ ~pumping /\ HandedBelow(floor)

\* The frame buffer has packets of frame f, in order, n last.
PartOf(q, f, n) ==
    /\ Len(q) > 0 /\ q[Len(q)] = n
    /\ \A i \in DOMAIN q : frames[f].first <= q[i]
    /\ \A i, j \in DOMAIN q : i < j => q[i] < q[j]

\* Playout stands at packet n.
PlayoutAt(n) ==
    /\ n \in Nat /\ IsPacket(n) /\ FrameOf(n) \in Own
    /\ next_sequence = Wire(n + 1) /\ HandedBelow(n + 1)
    /\ \A k \in buffer : n < k

\* What the router knows of a stream that has come as far as packet n.
KnowsAt(n) ==
    /\ source.last_sequence = Wire(n) /\ source.ts = Timestamp(n) /\ source.frame = FrameOf(n)
    /\ source.frame_completed = Marker(n) /\ source.frame_ready = Marker(n)
    /\ source.timestamp_step \in {0, TsStep}
    /\ PartOf(source.frame_buffer, FrameOf(n), n)
    /\ ~Marker(n) => HandedBelow(source.frame_buffer[1])

\* FramesAccounted, and that every picture stands for a frame handed out or lost.
CountsAt(n) ==
    /\ source.first \in Own /\ source.first <= source.frame
    /\ source.given \in Nat /\ source.frames_dropped \in Nat /\ source.frames_missed \in Nat
    /\ source.unseen \in Nat /\ source.shown \in Nat /\ source.streak \in 0 .. MaxStreak
    /\ source.given + (IF Marker(n) THEN 0 ELSE 1) + source.frames_dropped + source.frames_missed
          + source.unseen = source.frame - source.first + 1
    /\ source.shown <= source.given + source.frames_dropped + source.frames_missed

SourceInv ==
    source.live /\ ~Spliced =>
        /\ \A k \in buffer : FrameOf(k) \in Own
        /\ playing \in BOOLEAN
        /\ playing => PlayoutAt(last) /\ KnowsAt(last) /\ CountsAt(last)
        /\ ~playing =>
              /\ source = NewSource(stream) /\ HandedBelow(floor)
              /\ \A k \in buffer : HandedBelow(k)

VideoInv == FramesInv /\ StreamInv /\ HeldInv /\ SourceInv

-----------------------------------------------------------------------------
(* Arithmetic *)

\* Products with a natural number grow with the other factor.
LEMMA TimesGrows ==
  ASSUME NEW c \in Nat, NEW a \in Nat, NEW b \in Nat, a <= b
  PROVE  c * a \in Nat /\ c * b \in Nat /\ c * a <= c * b
<1>1. c * b = c * a + c * (b - a) /\ c * (b - a) \in Nat
  OBVIOUS
<1> QED BY <1>1

\* One more factor of c.
LEMMA TimesOne == ASSUME NEW c \in Nat, NEW a \in Nat PROVE c * (a + 1) = c * a + c
  OBVIOUS

\* They differ where the other factor does.
LEMMA TimesApart ==
  ASSUME NEW c \in Nat \ {0}, NEW a \in Nat, NEW b \in Nat, a < b
  PROVE  c * a < c * b
<1>1. c * (a + 1) <= c * b
  BY TimesGrows
<1>2. c * (a + 1) = c * a + c /\ c * a \in Nat /\ c * b \in Nat
  BY TimesOne
<1> QED BY <1>1, <1>2

\* The remainder of a number that is less than c above a multiple of c.
LEMMA RemainderIs ==
  ASSUME NEW c \in Nat \ {0}, NEW a \in Nat, NEW r \in 0 .. c - 1
  PROVE  (c * a + r) % c = r
<1> DEFINE x == c * a + r
           q == x \div c
<1>1. x \in Nat /\ q \in Nat /\ x = c * q + (x % c) /\ x % c \in 0 .. c - 1
  OBVIOUS
<1>2. ASSUME q < a PROVE FALSE
  <2>1. c * (q + 1) <= c * a
    BY <1>1, <1>2, TimesGrows
  <2>2. c * (q + 1) = c * q + c /\ c * q \in Nat /\ c * a \in Nat
    BY <1>1, TimesOne
  <2> QED BY <1>1, <2>1, <2>2
<1>3. ASSUME a < q PROVE FALSE
  <2>1. c * (a + 1) <= c * q
    BY <1>1, <1>3, TimesGrows
  <2>2. c * (a + 1) = c * a + c /\ c * q \in Nat /\ c * a \in Nat
    BY <1>1, TimesOne
  <2> QED BY <1>1, <2>1, <2>2
<1>4. q = a
  BY <1>1, <1>2, <1>3
<1> QED BY <1>1, <1>4

\* Division without remainder.
LEMMA QuotientIs ==
  ASSUME NEW c \in Nat \ {0}, NEW a \in Nat
  PROVE  (c * a) \div c = a
<1> DEFINE x == c * a
           q == x \div c
<1>1. x \in Nat /\ q \in Nat /\ x = c * q + (x % c) /\ x % c \in 0 .. c - 1
  OBVIOUS
<1>2. x % c = 0
  <2>1. (c * a + 0) % c = 0
    BY RemainderIs
  <2> QED BY <2>1
<1>3. c * q = c * a
  BY <1>1, <1>2
<1>4. ~(q < a) /\ ~(a < q)
  <2> HIDE DEF q
  <2> QED BY <1>1, <1>3, TimesApart
<1> QED BY <1>1, <1>4

-----------------------------------------------------------------------------
(* The stream's packets and frames *)

\* The first packet of a stream has a number.
LEMMA BaseType == stream \in Nat => Base \in Nat
  BY SizesAssumption DEF Base

\* All packets of the stream are in half of the sequence numbers.
LEMMA StreamFits ==
  ASSUME HalfWindow, FramesInv, StreamInv
  PROVE  /\ Base \in Nat /\ sent \in Nat /\ Base <= sent /\ sent <= Base + Span
         /\ Span \in Nat /\ 2 * Span <= SeqMod /\ 2 * Reorder <= SeqMod
         /\ Cardinality(Own) <= Len(frames)
<1>1. /\ stream \in Nat /\ sent \in Nat /\ Len(frames) \in Nat /\ Len(frames) <= MaxFrames
      /\ Cardinality(Own) \in Nat /\ Len(frames) - Cardinality(Own) \in Nat
      /\ sent - Base \in 0 .. MaxChunks * Cardinality(Own)
  BY DEF FramesInv, StreamInv, Before
<1>2. Base \in Nat
  BY <1>1, BaseType
<1>3. MaxChunks * Cardinality(Own) <= MaxChunks * MaxFrames /\ MaxChunks * MaxFrames \in Nat
  BY <1>1, TimesGrows, VideoAssumption
<1>4. MaxFrames * MaxChunks = MaxChunks * MaxFrames
  BY VideoAssumption
<1>5. MaxChunks * Cardinality(Own) \in Nat
  BY <1>1, VideoAssumption
<1> QED BY <1>1, <1>2, <1>3, <1>4, <1>5 DEF HalfWindow, Span

\* A packet's sequence number is its place in its stream.
LEMMA StreamWire ==
  ASSUME stream \in Nat, NEW n \in Int, Base <= n, n < Base + SeqMod
  PROVE  Wire(n) = n - Base
<1>1. n - Base \in 0 .. SeqMod - 1 /\ SeqMod \in Nat \ {0}
  BY SizesAssumption, BaseType
<1>2. (SeqMod * stream + (n - Base)) % SeqMod = n - Base
  BY <1>1, RemainderIs
<1>3. SeqMod * stream + (n - Base) = n
  BY <1>1, SizesAssumption DEF Base
<1> QED BY <1>2, <1>3 DEF Wire

\* In that half packet_sequence_less_than is the order of sending.
LEMMA StreamLess ==
  ASSUME HalfWindow, FramesInv, StreamInv, NEW n \in Nat, NEW m \in Nat,
         Base <= n, n <= Base + Span, Base <= m, m <= Base + Span
  PROVE  /\ Wire(n) = n - Base /\ Wire(m) = m - Base
         /\ n < m => Less(Wire(n), Wire(m))
         /\ m <= n /\ (m = n \/ m > Base) => ~Less(Wire(n), Wire(m))
<1>1. Base \in Nat /\ Span \in Nat /\ 2 * Span <= SeqMod /\ SeqMod \in Nat /\ SeqMod > 1 /\ stream \in Nat
  BY StreamFits, SizesAssumption DEF FramesInv
<1>2. Wire(n) = n - Base /\ Wire(m) = m - Base
  BY <1>1, StreamWire
<1>3. ASSUME n < m PROVE Less(Wire(n), Wire(m))
  <2>1. (n - m) % SeqMod = SeqMod + (n - m)
    BY <1>1, <1>3
  <2>2. (n - Base) - (m - Base) = n - m
    BY <1>1
  <2>3. SeqMod + (n - m) >= SeqMod \div 2
    BY <1>1, <1>3
  <2> QED BY <1>2, <2>1, <2>2, <2>3 DEF Less
<1>4. ASSUME m <= n, m = n \/ m > Base PROVE ~Less(Wire(n), Wire(m))
  <2>1. (n - m) % SeqMod = n - m
    BY <1>1, <1>4
  <2>2. (n - Base) - (m - Base) = n - m
    BY <1>1
  <2>3. ~(n - m >= SeqMod \div 2)
    BY <1>1, <1>4
  <2> QED BY <1>2, <2>1, <2>2, <2>3 DEF Less
<1> QED BY <1>2, <1>3, <1>4

\* Frames do not overlap, so that a packet has one.
LEMMA FrameApart ==
  ASSUME FramesInv, NEW f \in DOMAIN frames, NEW g \in DOMAIN frames, NEW n \in Int, NEW m \in Int,
         frames[f].first <= n, n <= frames[f].final, frames[g].first <= m, m <= frames[g].final
  PROVE  /\ f \in 1 .. Len(frames) /\ g \in 1 .. Len(frames)
         /\ n <= m => f <= g
         /\ n = m => f = g
<1>1. /\ f \in 1 .. Len(frames) /\ g \in 1 .. Len(frames) /\ Len(frames) \in Nat
      /\ frames[f] \in Frames /\ frames[g] \in Frames
  BY DEF FramesInv
<1>2. /\ frames[f].first \in Nat /\ frames[f].final \in Nat /\ frames[g].first \in Nat /\ frames[g].final \in Nat
      /\ f < g => frames[f].final < frames[g].first
      /\ g < f => frames[g].final < frames[f].first
  BY <1>1 DEF FramesInv, Frames
<1> QED BY <1>1, <1>2

\* FrameOf is the frame in whose range a packet lies.
LEMMA FrameIs ==
  ASSUME FramesInv, NEW f \in DOMAIN frames, NEW n \in Int, frames[f].first <= n, n <= frames[f].final
  PROVE  IsPacket(n) /\ FrameOf(n) = f
<1>1. \A g \in DOMAIN frames : frames[g].first <= n /\ n <= frames[g].final <=> g = f
  BY FrameApart
<1>2. FrameOf(n) = CHOOSE g \in DOMAIN frames : frames[g].first <= n /\ n <= frames[g].final
  BY DEF FrameOf
<1>3. FrameOf(n) = f
  BY <1>1, <1>2
<1> QED BY <1>3 DEF IsPacket

\* A packet lies in the range of its frame, and has been sent.
LEMMA PacketFrame ==
  ASSUME FramesInv, NEW n \in Int, IsPacket(n)
  PROVE  /\ FrameOf(n) \in DOMAIN frames /\ FrameOf(n) \in 1 .. Len(frames) /\ Len(frames) \in Nat
         /\ frames[FrameOf(n)] \in Frames
         /\ frames[FrameOf(n)].first <= n /\ n <= frames[FrameOf(n)].final /\ n < sent
<1>1. PICK f \in DOMAIN frames : frames[f].first <= n /\ n <= frames[f].final
  BY DEF IsPacket
<1>2. FrameOf(n) = f
  BY <1>1, FrameIs
<1>3. f \in 1 .. Len(frames) /\ Len(frames) \in Nat /\ frames[f] \in Frames /\ frames[f].final < sent /\ sent \in Nat
  BY DEF FramesInv
<1> QED BY <1>1, <1>2, <1>3 DEF Frames

\* A packet that is not too late is the stream's own.
LEMMA PacketOwn ==
  ASSUME FramesInv, StreamInv, NEW n \in Nat, IsPacket(n), sent - n <= Reorder
  PROVE  FrameOf(n) \in Own
<1> SUFFICES ASSUME FrameOf(n) \notin Own PROVE FALSE
  OBVIOUS
<1>1. /\ FrameOf(n) \in DOMAIN frames /\ frames[FrameOf(n)].final \in Nat /\ n <= frames[FrameOf(n)].final
  BY PacketFrame DEF Frames
<1>2. frames[FrameOf(n)].final + Reorder < Base /\ Base \in Nat /\ sent - Base >= 0 /\ sent \in Nat
  <2>1. Cardinality(Own) \in Nat /\ MaxChunks \in Nat
    BY VideoAssumption DEF StreamInv
  <2> QED BY <1>1, <2>1, BaseType DEF StreamInv, FramesInv
<1> QED BY <1>1, <1>2, SizesAssumption

\* Where a packet of the stream lies.
LEMMA OwnPacket ==
  ASSUME HalfWindow, FramesInv, StreamInv, NEW n \in Nat, IsPacket(n), FrameOf(n) \in Own
  PROVE  /\ Base <= n /\ n < sent /\ n < Base + Span /\ Wire(n) = n - Base
         /\ Wire(n + 1) = n + 1 - Base
         /\ frames[FrameOf(n)].stream = stream
<1>1. Base <= n /\ n < sent
  <2>1. frames[FrameOf(n)].first \in Nat /\ frames[FrameOf(n)].first <= n /\ n < sent
    BY PacketFrame DEF Frames
  <2>2. Base <= frames[FrameOf(n)].first /\ Base \in Nat
    BY StreamFits DEF StreamInv
  <2> QED BY <2>1, <2>2
<1>2. Base \in Nat /\ sent \in Nat /\ sent <= Base + Span /\ Span \in Nat
  BY StreamFits
<1>3. Wire(n) = n - Base /\ Wire(n + 1) = n + 1 - Base
  BY <1>1, <1>2, StreamLess
<1> QED BY <1>1, <1>2, <1>3 DEF Own

\* Of two packets of the stream the frames are in order, and follow on each
\* other if the packets do.
LEMMA OwnOrder ==
  ASSUME FramesInv, StreamInv, NEW n \in Nat, NEW m \in Nat, IsPacket(n), IsPacket(m),
         FrameOf(n) \in Own, FrameOf(m) \in Own, n < m
  PROVE  /\ FrameOf(n) \in Int /\ FrameOf(m) \in Int /\ FrameOf(n) <= FrameOf(m)
         /\ m = n + 1 => FrameOf(m) <= FrameOf(n) + 1
         /\ FrameOf(m) = FrameOf(n) => ~Marker(n)
<1> DEFINE f == FrameOf(n)
           g == FrameOf(m)
<1>1. /\ f \in 1 .. Len(frames) /\ g \in 1 .. Len(frames) /\ Len(frames) \in Nat
      /\ f \in DOMAIN frames /\ g \in DOMAIN frames
      /\ frames[f].first <= n /\ n <= frames[f].final /\ frames[g].first <= m /\ m <= frames[g].final
      /\ frames[f] \in Frames /\ frames[g] \in Frames /\ m < sent
  BY PacketFrame
<1>2. f <= g
  BY <1>1, FrameApart
<1>3. ASSUME m = n + 1, f + 1 < g PROVE FALSE
  <2>1. f + 1 \in DOMAIN frames /\ f + 1 < g /\ f + 1 \in 1 .. Len(frames) /\ f # Len(frames)
    BY <1>1, <1>3 DEF FramesInv
  <2>2. frames[f + 1].first \in Nat /\ frames[f + 1].final \in Nat /\ frames[f + 1].first <= frames[f + 1].final
    <3>1. frames[f + 1] \in Frames /\ frames[f + 1].first <= frames[f + 1].final
      BY <2>1 DEF FramesInv
    <3> QED BY <3>1 DEF Frames
  <2>3. frames[f].final + 1 = frames[f + 1].first
    BY <2>1 DEF StreamInv
  <2>4. frames[f + 1].final < frames[g].first
    BY <1>1, <2>1 DEF FramesInv
  <2> QED BY <1>1, <1>3, <2>2, <2>3, <2>4 DEF Frames
<1>4. ASSUME g = f, Marker(n) PROVE FALSE
  BY <1>1, <1>4 DEF Marker, Frames
<1> QED BY <1>1, <1>2, <1>3, <1>4

\* The timestamps of two frames of the stream are as many steps apart as they
\* are.
LEMMA OwnStamps ==
  ASSUME HalfWindow, StampsFit, FramesInv, StreamInv, NEW f \in Own, NEW g \in Own, f <= g
  PROVE  /\ g - f \in Nat
         /\ (frames[g].ts - frames[f].ts) % TsMod = TsStep * (g - f)
         /\ (TsStep * (g - f)) \div TsStep = g - f
         /\ frames[g].ts = frames[f].ts <=> g = f
         /\ frames[f].ts \in Nat
<1>1. /\ f \in Before + 1 .. Len(frames) /\ g \in Before + 1 .. Len(frames) /\ Before \in Nat /\ Len(frames) \in Nat
      /\ Len(frames) <= MaxFrames
      /\ frames[f].ts = TsStep * (f - 1 - Before) /\ frames[g].ts = TsStep * (g - 1 - Before)
  BY DEF StreamInv, FramesInv
<1> DEFINE a == f - 1 - Before
           d == g - f
<1>2. a \in Nat /\ d \in Nat /\ a + d \in Nat /\ a + d < MaxFrames /\ g - 1 - Before = a + d
  BY <1>1, VideoAssumption
<1> HIDE DEF a, d
<1>3. TsStep * (a + d) = TsStep * a + TsStep * d /\ TsStep * a \in Nat /\ TsStep * d \in Nat
  BY <1>2, VideoAssumption
<1>4. TsStep * d < TsStep * MaxFrames
  BY <1>2, TimesApart, VideoAssumption
<1>5. TsStep * d < TsMod
  BY <1>2, <1>3, <1>4, VideoAssumption DEF StampsFit
<1>6. frames[g].ts - frames[f].ts = TsStep * d
  BY <1>1, <1>2, <1>3 DEF a
<1>7. (TsStep * d) % TsMod = TsStep * d
  BY <1>3, <1>5, VideoAssumption
<1>8. (TsStep * d) \div TsStep = d
  BY <1>2, QuotientIs, VideoAssumption
<1>9. d # 0 => TsStep * d > 0
  BY <1>2, VideoAssumption
<1>10. d = 0 => TsStep * d = 0
  BY VideoAssumption
<1> QED
  <2>1. frames[g].ts \in Int /\ frames[f].ts \in Nat
    BY <1>1, <1>3, <1>2 DEF a
  <2>2. d = 0 <=> g = f
    BY <1>1 DEF d
  <2>3. frames[g].ts = frames[f].ts <=> g = f
    BY <2>1, <2>2, <1>3, <1>6, <1>9, <1>10
  <2> QED BY <1>2, <1>6, <1>7, <1>8, <2>1, <2>3 DEF d

-----------------------------------------------------------------------------
(* The sender *)

\* Packets keep their frames when another frame is sent.
FramesKept ==
    \A n \in Nat : IsPacket(n) =>
        /\ IsPacket(n)' /\ FrameOf(n)' = FrameOf(n)
        /\ Timestamp(n)' = Timestamp(n) /\ Marker(n)' = Marker(n)
        /\ frames'[FrameOf(n)] = frames[FrameOf(n)]

\* CHOOSE has no choice when only one will do.
LEMMA Chosen ==
  ASSUME NEW fs, NEW f \in DOMAIN fs, NEW n,
         \A g \in DOMAIN fs : fs[g].first <= n /\ n <= fs[g].final <=> g = f
  PROVE  (CHOOSE g \in DOMAIN fs : fs[g].first <= n /\ n <= fs[g].final) = f
  OBVIOUS

\* A new frame begins behind all packets, and takes none of them.
LEMMA FramesGrow ==
  ASSUME FramesInv, NEW e \in Frames, e.first = sent, frames' = Append(frames, e)
  PROVE  /\ FramesKept
         /\ DOMAIN frames' = DOMAIN frames \cup {Len(frames) + 1} /\ Len(frames') = Len(frames) + 1
         /\ frames'[Len(frames) + 1] = e /\ \A f \in DOMAIN frames : frames'[f] = frames[f]
<1>1. frames \in Seq(Frames) /\ DOMAIN frames = 1 .. Len(frames) /\ Len(frames) \in Nat /\ sent \in Nat
  BY DEF FramesInv
<1>2. /\ DOMAIN frames' = DOMAIN frames \cup {Len(frames) + 1} /\ Len(frames') = Len(frames) + 1
      /\ frames'[Len(frames) + 1] = e /\ \A f \in DOMAIN frames : frames'[f] = frames[f]
  BY <1>1
<1>3. ASSUME NEW n \in Nat, IsPacket(n)
      PROVE  IsPacket(n)' /\ FrameOf(n)' = FrameOf(n) /\ frames'[FrameOf(n)] = frames[FrameOf(n)]
  <2> DEFINE f == FrameOf(n)
  <2>1. f \in DOMAIN frames /\ frames[f].first <= n /\ n <= frames[f].final /\ n < sent
    BY <1>3, PacketFrame
  <2>2. \A g \in DOMAIN frames' : frames'[g].first <= n /\ n <= frames'[g].final <=> g = f
    <3> SUFFICES ASSUME NEW g \in DOMAIN frames'
                 PROVE  frames'[g].first <= n /\ n <= frames'[g].final <=> g = f
      OBVIOUS
    <3>1. CASE g \in DOMAIN frames
      <4>1. frames'[g] = frames[g]
        BY <1>2, <3>1
      <4>2. frames[g].first <= n /\ n <= frames[g].final => g = f
        BY <2>1, <3>1, FrameApart
      <4> QED BY <2>1, <4>1, <4>2
    <3>2. CASE g = Len(frames) + 1
      <4>1. frames'[g].first = sent /\ g # f
        BY <1>1, <1>2, <2>1, <3>2
      <4> QED BY <1>1, <2>1, <4>1
    <3> QED BY <1>2, <3>1, <3>2
  <2>3. f \in DOMAIN frames' /\ frames'[f] = frames[f]
    BY <1>2, <2>1
  <2>4. FrameOf(n)' = f
    <3> HIDE DEF f
    <3> QED BY <2>2, <2>3, Chosen DEF FrameOf
  <2>5. IsPacket(n)'
    BY <2>1, <2>3 DEF IsPacket
  <2> QED BY <2>3, <2>4, <2>5
<1>4. FramesKept
  BY <1>3 DEF FramesKept, Timestamp, Marker
<1> QED BY <1>2, <1>4

\* packetize_frame continues the stream: next packets, next timestamp.
LEMMA PacketizeStream ==
  ASSUME HalfWindow, StampsFit, FramesInv, StreamInv, NEW k \in 1 .. MaxChunks, PacketizeFrame(k)
  PROVE  FramesInv' /\ StreamInv' /\ FramesKept /\ Own \subseteq Own' /\ sent <= sent'
<1> DEFINE e == [first |-> sent, final |-> sent + k - 1, stream |-> stream,
                 ts |-> (TsStep * Cardinality({f \in DOMAIN frames : frames[f].stream = stream})) % TsMod]
           L == Len(frames)
           C == Cardinality(Own)
<1>1. /\ frames \in Seq(Frames) /\ DOMAIN frames = 1 .. L /\ L \in Nat /\ L < MaxFrames /\ MaxFrames \in Nat
      /\ sent \in Nat /\ stream \in Nat /\ MaxChunks \in Nat /\ C \in Nat /\ Own = Before + 1 .. L
      /\ Before = L - C /\ Before \in Nat
  BY VideoAssumption DEF FramesInv, StreamInv, PacketizeFrame, Before
<1>2. k \in Nat /\ k > 0 /\ sent' = sent + k /\ stream' = stream /\ frames' = Append(frames, e)
  BY <1>1 DEF PacketizeFrame
<1>3. Base \in Nat /\ Base <= sent /\ C <= L /\ Base' = Base
  BY <1>2, StreamFits DEF Base
<1>4. e.ts = TsStep * C /\ TsStep * C \in Nat
  <2>1. TsStep * C < TsStep * MaxFrames /\ TsStep * C \in Nat
    BY <1>1, <1>3, TimesApart, VideoAssumption
  <2>2. (TsStep * C) % TsMod = TsStep * C
    BY <1>1, <2>1, VideoAssumption DEF StampsFit
  <2> QED BY <2>1, <2>2 DEF Own
<1>5. e \in Frames /\ e.first = sent /\ e.final = sent + k - 1 /\ e.stream = stream
  BY <1>1, <1>2, <1>4 DEF Frames
<1> HIDE DEF e
<1>6. /\ FramesKept
      /\ DOMAIN frames' = DOMAIN frames \cup {L + 1} /\ Len(frames') = L + 1
      /\ frames'[L + 1] = e /\ \A f \in DOMAIN frames : frames'[f] = frames[f]
  BY <1>2, <1>5, FramesGrow
<1>7. FramesInv'
  <2>1. frames' \in Seq(Frames) /\ Len(frames') <= MaxFrames
    BY <1>1, <1>2, <1>5, <1>6
  <2>2. ASSUME NEW f \in DOMAIN frames'
        PROVE  /\ frames'[f].first <= frames'[f].final /\ frames'[f].final < sent'
               /\ frames'[f].stream <= stream'
               /\ \A g \in DOMAIN frames' : f < g => frames'[f].final < frames'[g].first
    <3>1. CASE f \in DOMAIN frames
      <4>1. frames[f] \in Frames /\ frames'[f] = frames[f] /\ frames[f].first <= frames[f].final
            /\ frames[f].final < sent /\ frames[f].stream <= stream
        BY <1>1, <1>6, <3>1 DEF FramesInv
      <4>2. \A g \in DOMAIN frames : f < g => frames[f].final < frames[g].first
        BY <3>1 DEF FramesInv
      <4>3. frames[f].final \in Nat /\ frames[f].stream \in Nat
        BY <4>1 DEF Frames
      <4>4. frames'[f].final < sent' /\ frames'[f].stream <= stream'
        BY <1>1, <1>2, <4>1, <4>3
      <4>5. ASSUME NEW g \in DOMAIN frames', f < g PROVE frames'[f].final < frames'[g].first
        <5>1. CASE g \in DOMAIN frames
          BY <1>6, <4>1, <4>2, <4>5, <5>1
        <5>2. CASE g = L + 1
          BY <1>5, <1>6, <4>1, <5>2
        <5> QED BY <1>6, <5>1, <5>2
      <4> QED BY <4>1, <4>4, <4>5
    <3>2. CASE f = L + 1
      <4>1. \A g \in DOMAIN frames' : ~(f < g)
        BY <1>1, <1>6, <3>2
      <4> QED BY <1>1, <1>2, <1>5, <1>6, <3>2, <4>1
    <3> QED BY <1>6, <3>1, <3>2
  <2> QED BY <1>1, <1>2, <2>1, <2>2 DEF FramesInv
<1>8. Own' = Own \cup {L + 1} /\ L + 1 \notin Own
  BY <1>1, <1>2, <1>5, <1>6 DEF Own
<1>9. Cardinality(Own') = C + 1
  <2>1. IsFiniteSet(Own)
    <3>1. Before + 1 \in Int /\ L \in Int
      BY <1>1
    <3>2. IsFiniteSet(Before + 1 .. L)
      BY <3>1, FS_Interval
    <3> QED BY <1>1, <3>2
  <2> QED BY <1>8, <2>1, FS_AddElement
<1>10. Before' = Before
  BY <1>1, <1>6, <1>9 DEF Before
<1>11. StreamInv'
  <2>1. Own' = Before' + 1 .. Len(frames')
    <3>1. Before + 1 .. L + 1 = (Before + 1 .. L) \cup {L + 1}
      <4>1. Before <= L
        BY <1>1
      <4> HIDE DEF L
      <4> QED BY <1>1, <4>1
    <3> QED BY <1>1, <1>6, <1>8, <1>10, <3>1
  <2>2. sent' - Base' \in 0 .. MaxChunks * Cardinality(Own')
    <3> DEFINE p == MaxChunks * C
    <3>1. sent - Base \in 0 .. p
      BY DEF StreamInv
    <3>3. p \in Nat
      BY <1>1, TimesGrows
    <3>2. MaxChunks * (C + 1) = MaxChunks * C + MaxChunks
      BY <1>1, TimesOne
    <3>4. MaxChunks * Cardinality(Own') = p + MaxChunks
      BY <1>9, <3>2
    <3> HIDE DEF p
    <3> QED BY <1>1, <1>2, <1>3, <3>1, <3>3, <3>4
  <2>3. ASSUME NEW f \in Own'
        PROVE  /\ frames'[f].ts = TsStep * (f - 1 - Before') /\ Base' <= frames'[f].first
               /\ frames'[f].final + 1 = IF f = Len(frames') THEN sent' ELSE frames'[f + 1].first
    <3>1. CASE f \in Own
      <4>1. f \in DOMAIN frames /\ f \in 1 .. L /\ frames'[f] = frames[f]
        BY <1>6, <3>1, <1>1 DEF Own
      <4>2. /\ frames[f].ts = TsStep * (f - 1 - Before) /\ Base <= frames[f].first
            /\ frames[f].final + 1 = IF f = L THEN sent ELSE frames[f + 1].first
        BY <3>1 DEF StreamInv
      <4>3. f # L => f + 1 \in DOMAIN frames /\ frames'[f + 1] = frames[f + 1]
        BY <1>1, <1>6, <4>1
      <4>4. f = L => frames'[f + 1] = e /\ e.first = sent
        BY <1>5, <1>6
      <4>5. f # Len(frames')
        BY <1>6, <4>1, <1>1
      <4> QED BY <1>3, <1>10, <4>1, <4>2, <4>3, <4>4, <4>5
    <3>2. CASE f = L + 1
      <4>1. f - 1 - Before' = C
        BY <1>1, <1>10, <3>2
      <4> QED BY <1>1, <1>2, <1>3, <1>4, <1>5, <1>6, <3>2, <4>1
    <3> QED BY <1>8, <3>1, <3>2
  <2>4. \A f \in DOMAIN frames' \ Own' : frames'[f].final + Reorder < Base'
    BY <1>3, <1>6, <1>8 DEF StreamInv
  <2>5. Cardinality(Own') \in Nat /\ Before' \in Nat
    <3>1. C + 1 \in Nat
      <4>1. C \in Nat
        BY <1>1
      <4> HIDE DEF C
      <4> QED BY <4>1
    <3> QED BY <1>1, <1>9, <1>10, <3>1, Zenon
  <2> HIDE DEF L, C
  <2> QED BY <2>1, <2>2, <2>3, <2>4, <2>5, Zenon DEF StreamInv
<1>12. sent <= sent'
  BY <1>1, <1>2
<1> QED BY <1>6, <1>7, <1>8, <1>11, <1>12

\* The next stream begins at the next multiple of SeqMod, and the old one is
\* far behind.
LEMMA InitStream ==
  ASSUME HalfWindow, FramesInv, StreamInv, InitPacketizer
  PROVE  FramesInv' /\ StreamInv' /\ sent <= sent'
<1>1. /\ stream' = stream + 1 /\ sent' = SeqMod * (stream + 1) /\ frames' = frames
      /\ stream \in Nat /\ sent \in Nat /\ frames \in Seq(Frames) /\ Len(frames) \in Nat
      /\ SeqMod \in Nat /\ Reorder \in Nat
  BY SizesAssumption DEF InitPacketizer, FramesInv
<1>2. Base \in Nat /\ sent <= Base + Span /\ Span \in Nat /\ 2 * Span <= SeqMod /\ 2 * Reorder <= SeqMod
  BY StreamFits
<1>3. Base' = Base + SeqMod /\ sent' = Base + SeqMod
  <2>1. SeqMod * (stream + 1) = SeqMod * stream + SeqMod
    BY <1>1, TimesOne
  <2> QED BY <1>1, <2>1 DEF Base
<1>4. \A f \in DOMAIN frames : frames[f] \in Frames /\ frames[f].final < sent /\ frames[f].stream <= stream
  BY <1>1 DEF FramesInv
<1>5. FramesInv'
  <2>1. sent' \in Nat /\ stream' \in Nat /\ sent <= sent' /\ stream <= stream'
    BY <1>1, <1>2, <1>3
  <2>2. \A f \in DOMAIN frames : frames[f].final < sent' /\ frames[f].stream <= stream'
    BY <1>1, <1>4, <2>1 DEF Frames
  <2> QED BY <1>1, <2>1, <2>2 DEF FramesInv
<1>6. Own' = {}
  BY <1>1, <1>4 DEF Own, Frames
<1>7. Cardinality(Own') = 0 /\ Before' = Len(frames)
  <2>1. Cardinality(Own') = 0
    BY <1>6, FS_EmptySet
  <2> QED BY <1>1, <2>1 DEF Before
<1>8. \A f \in DOMAIN frames : frames[f].final + Reorder < Base'
  BY <1>1, <1>2, <1>3, <1>4 DEF Frames
<1>9. Own' = Before' + 1 .. Len(frames')
  BY <1>1, <1>6, <1>7
<1>10. sent' - Base' \in 0 .. MaxChunks * Cardinality(Own')
  BY <1>2, <1>3, <1>7, VideoAssumption, SizesAssumption
<1>11. StreamInv'
  BY <1>1, <1>6, <1>7, <1>8, <1>9, <1>10 DEF StreamInv
<1> QED BY <1>1, <1>2, <1>3, <1>5, <1>11

-----------------------------------------------------------------------------
(* The receiver *)

\* Steps of the receiver leave the stream as it is.
LEMMA SameStream ==
  ASSUME FramesInv, StreamInv, UNCHANGED <<sent, frames, stream>>
  PROVE  FramesInv' /\ StreamInv' /\ FramesKept /\ Own' = Own
<1>1. Own' = Own /\ Base' = Base
  BY DEF Own, Base
<1>2. Before' = Before
  BY <1>1 DEF Before
<1>3. FramesInv'
  BY DEF FramesInv
<1>4. StreamInv'
  BY <1>1, <1>2 DEF StreamInv
<1>5. FramesKept
  BY DEF FramesKept, IsPacket, FrameOf, Timestamp, Marker
<1> QED BY <1>1, <1>3, <1>4, <1>5

\* A source that is there is a record of a stream begun before.
LEMMA LiveSource ==
  ASSUME HeldInv, source.live
  PROVE  IsSource(source) /\ source.born \in Nat /\ source.born <= stream
<1>1. ~NoSource.live
  BY DEF NoSource
<1>2. source # NoSource
  BY <1>1
<1>3. IsSource(source) /\ source.born <= stream
  BY <1>2, Zenon DEF HeldInv
<1> QED BY <1>3 DEF IsSource

\* The source's part of the invariant does not mind more frames, nor a higher
\* floor.
LEMMA SourceKept ==
  ASSUME FramesInv, HeldInv, SourceInv, FramesKept, Own \subseteq Own', stream' = stream,
         UNCHANGED <<buffer, next_sequence, playing, last, handed, source>>,
         floor' \in Nat, floor <= floor'
  PROVE  SourceInv'
<1> SUFFICES ASSUME source.live, source.born = stream
             PROVE  /\ \A k \in buffer : FrameOf(k)' \in Own'
                    /\ playing \in BOOLEAN
                    /\ playing => PlayoutAt(last)' /\ KnowsAt(last)' /\ CountsAt(last)'
                    /\ ~playing =>
                          /\ source = NewSource(stream) /\ HandedBelow(floor)'
                          /\ \A k \in buffer : HandedBelow(k)'
  BY DEF SourceInv, Spliced
<1>1. /\ \A k \in buffer : FrameOf(k) \in Own
      /\ playing \in BOOLEAN
      /\ playing => PlayoutAt(last) /\ KnowsAt(last) /\ CountsAt(last)
      /\ ~playing =>
            /\ source = NewSource(stream) /\ HandedBelow(floor)
            /\ \A k \in buffer : HandedBelow(k)
  BY DEF SourceInv, Spliced
<1>2. \A k \in buffer : k \in Nat /\ IsPacket(k)
  BY DEF HeldInv
<1>3. \A k \in buffer : FrameOf(k)' \in Own'
  BY <1>1, <1>2 DEF FramesKept
<1>4. ASSUME playing PROVE PlayoutAt(last)' /\ KnowsAt(last)' /\ CountsAt(last)'
  <2>1. /\ last \in Nat /\ IsPacket(last) /\ FrameOf(last) \in Own
    BY <1>1, <1>4 DEF PlayoutAt
  <2>2. /\ IsPacket(last)' /\ FrameOf(last)' = FrameOf(last) /\ Timestamp(last)' = Timestamp(last)
        /\ Marker(last)' = Marker(last) /\ frames'[FrameOf(last)] = frames[FrameOf(last)]
    BY <2>1 DEF FramesKept
  <2>3. PlayoutAt(last)'
    BY <1>1, <1>4, <2>1, <2>2 DEF PlayoutAt, HandedBelow, Wire
  <2>4. KnowsAt(last)'
    BY <1>1, <1>4, <2>2 DEF KnowsAt, PartOf, Wire, HandedBelow
  <2>5. CountsAt(last)'
    BY <1>1, <1>4, <2>2 DEF CountsAt
  <2> QED BY <2>3, <2>4, <2>5
<1>5. ASSUME ~playing PROVE HandedBelow(floor)' /\ \A k \in buffer : HandedBelow(k)'
  <2>1. handed # << >> => handed[Len(handed)] \in Nat
    BY DEF HeldInv
  <2>2. floor \in Nat
    BY DEF HeldInv, FramesInv
  <2> QED BY <1>1, <1>5, <2>1, <2>2 DEF HandedBelow
<1> QED BY <1>1, <1>3, <1>4, <1>5

\* Sending a frame.
LEMMA PacketizeKeeps ==
  ASSUME HalfWindow, StampsFit, VideoInv, NEW k \in 1 .. MaxChunks, PacketizeFrame(k)
  PROVE  VideoInv'
<1>1. FramesInv /\ StreamInv /\ HeldInv /\ SourceInv
  BY DEF VideoInv
<1>2. FramesInv' /\ StreamInv' /\ FramesKept /\ Own \subseteq Own' /\ sent <= sent'
  BY <1>1, PacketizeStream
<1>3. UNCHANGED <<buffer, next_sequence, playing, last, stream, floor, quiet, pumping, source, handed>>
  BY DEF PacketizeFrame, jitter
<1>4. sent \in Nat /\ sent' \in Nat /\ floor \in 0 .. sent
  BY <1>1, <1>2 DEF FramesInv, HeldInv
<1>5. HandedBelow(sent)'
  BY <1>1, <1>2, <1>3, <1>4 DEF HeldInv, HandedBelow
<1>6. \A n \in buffer : IsPacket(n)'
  BY <1>1, <1>2 DEF HeldInv, FramesKept
<1>7. HeldInv'
  BY <1>1, <1>2, <1>3, <1>4, <1>5, <1>6 DEF HeldInv, HandedBelow
<1>8. SourceInv'
  BY <1>1, <1>2, <1>3, <1>4, SourceKept
<1> QED BY <1>2, <1>7, <1>8 DEF VideoInv

\* A new stream, by which a source that is there becomes a spliced one.
LEMMA InitKeeps ==
  ASSUME HalfWindow, VideoInv, InitPacketizer
  PROVE  VideoInv'
<1>1. FramesInv /\ StreamInv /\ HeldInv /\ SourceInv
  BY DEF VideoInv
<1>2. FramesInv' /\ StreamInv' /\ sent <= sent'
  BY <1>1, InitStream
<1>3. /\ UNCHANGED <<buffer, next_sequence, playing, last, frames, floor, quiet, pumping, source, handed>>
      /\ stream' = stream + 1 /\ stream \in Nat
  BY <1>1 DEF InitPacketizer, jitter, FramesInv
<1>4. sent \in Nat /\ sent' \in Nat /\ floor \in 0 .. sent
  BY <1>1, <1>2 DEF FramesInv, HeldInv
<1>5. HandedBelow(sent)'
  BY <1>1, <1>2, <1>3, <1>4 DEF HeldInv, HandedBelow
<1>6. \A n \in buffer : IsPacket(n)'
  BY <1>1, <1>3 DEF HeldInv, IsPacket
<1>7. source.live => source.born <= stream /\ source.born \in Nat
  BY <1>1, LiveSource
<1>8. source.live => source.born <= stream' /\ source.born # stream'
  BY <1>3, <1>7
<1>9. HeldInv'
  <2>1. source.live => source.born <= stream'
    BY <1>8
  <2>2. source = NoSource \/ (IsSource(source) /\ source.live)
    BY <1>1 DEF HeldInv, IsSource
  <2>3. (source = NoSource \/ (IsSource(source) /\ source.born <= stream))'
    BY <1>3, <2>1, <2>2 DEF IsSource
  <2> QED BY <1>1, <1>2, <1>3, <1>4, <1>5, <1>6, <2>3 DEF HeldInv, HandedBelow
<1>10. SourceInv'
  BY <1>3, <1>8 DEF SourceInv, Spliced
<1> QED BY <1>2, <1>9, <1>10 DEF VideoInv

\* Whatever is held or was handed out is below the new floor.
LEMMA SilenceKeeps ==
  ASSUME HalfWindow, VideoInv, Silence
  PROVE  VideoInv'
<1>1. FramesInv /\ StreamInv /\ HeldInv /\ SourceInv
  BY DEF VideoInv
<1>2. /\ UNCHANGED <<sent, buffer, next_sequence, playing, last, frames, stream, pumping, source, handed>>
      /\ quiet' = TRUE /\ floor' = sent /\ source.live
  BY DEF Silence, vars
<1>3. FramesInv' /\ StreamInv' /\ FramesKept /\ Own' = Own
  BY <1>1, <1>2, SameStream
<1>4. sent \in Nat /\ floor \in 0 .. sent
  BY <1>1 DEF FramesInv, HeldInv
<1>5. \A n \in buffer : n \in Nat /\ IsPacket(n) /\ IsPacket(n)' /\ n < sent
  BY <1>1, <1>3, PacketFrame DEF HeldInv, FramesKept
<1>6. HeldInv'
  BY <1>1, <1>2, <1>4, <1>5 DEF HeldInv, HandedBelow
<1>7. SourceInv'
  BY <1>1, <1>2, <1>3, <1>4, SourceKept
<1> QED BY <1>3, <1>6, <1>7 DEF VideoInv

\* Steps of pump that move no packet.
LEMMA PumpTurnKeeps ==
  ASSUME VideoInv, UNCHANGED <<vars, frames, stream, floor, quiet, source, handed>>,
         pumping' \in BOOLEAN, pumping' => source.live
  PROVE  VideoInv'
<1>1. FramesInv /\ StreamInv /\ HeldInv /\ SourceInv
  BY DEF VideoInv
<1>2. UNCHANGED <<sent, buffer, next_sequence, playing, last, frames, stream, floor, quiet, source, handed>>
  BY DEF vars
<1>3. FramesInv' /\ StreamInv' /\ FramesKept /\ Own' = Own
  BY <1>1, <1>2, SameStream
<1>4. sent \in Nat /\ floor \in 0 .. sent
  BY <1>1 DEF FramesInv, HeldInv
<1>5. \A n \in buffer : IsPacket(n)'
  BY <1>1, <1>3 DEF HeldInv, FramesKept
<1>6. HeldInv'
  BY <1>1, <1>2, <1>4, <1>5 DEF HeldInv, HandedBelow
<1>7. SourceInv'
  BY <1>1, <1>2, <1>3, <1>4, SourceKept
<1> QED BY <1>3, <1>6, <1>7 DEF VideoInv

\* A reaped source leaves nothing but what is below the floor.
LEMMA ReapKeeps ==
  ASSUME VideoInv, ReapIdle
  PROVE  VideoInv'
<1>1. FramesInv /\ StreamInv /\ HeldInv /\ SourceInv
  BY DEF VideoInv
<1>2. /\ UNCHANGED <<sent, frames, stream, floor, quiet, pumping, handed>>
      /\ source' = NoSource /\ buffer' = {} /\ playing' = FALSE /\ last' = -1 /\ quiet /\ ~pumping
  BY DEF ReapIdle, lane
<1>3. FramesInv' /\ StreamInv'
  BY <1>1, <1>2, SameStream
<1>4. ~source'.live
  BY <1>2 DEF NoSource
<1>5. HeldInv'
  BY <1>1, <1>2, <1>4 DEF HeldInv, HandedBelow
<1>6. SourceInv'
  BY <1>4 DEF SourceInv
<1> QED BY <1>3, <1>5, <1>6 DEF VideoInv

\* A packet that push takes lies behind the playout position.
LEMMA RouteKeeps ==
  ASSUME HalfWindow, VideoInv, NEW n \in Nat, Route(n)
  PROVE  VideoInv'
<1>1. FramesInv /\ StreamInv /\ HeldInv /\ SourceInv
  BY DEF VideoInv
<1>2. /\ UNCHANGED <<sent, next_sequence, playing, last, frames, stream, floor, pumping, handed>>
      /\ quiet' = FALSE /\ ~pumping
      /\ source' = IF source.live THEN source ELSE NewSource(frames[FrameOf(n)].stream)
      /\ IsPacket(n) /\ n >= floor /\ sent - n <= Reorder
      /\ buffer' = buffer \/ (buffer' = buffer \cup {n} /\ ~(playing /\ Less(Wire(n), next_sequence)))
  BY DEF Route, Push, vars
<1>3. FramesInv' /\ StreamInv' /\ FramesKept /\ Own' = Own
  BY <1>1, <1>2, SameStream
<1>4. FrameOf(n) \in Own /\ frames[FrameOf(n)].stream = stream /\ stream \in Nat /\ sent \in Nat
      /\ Base <= n /\ n < sent /\ n < Base + Span
  BY <1>1, <1>2, PacketOwn, OwnPacket DEF FramesInv
<1>5. floor \in 0 .. sent /\ handed \in Seq(Nat) /\ (handed # << >> => handed[Len(handed)] \in Nat)
  BY <1>1 DEF HeldInv
<1>6. ~source.live => source' = NewSource(stream)
  BY <1>2, <1>4
<1>7. IsSource(NewSource(stream)) /\ NewSource(stream).live /\ NewSource(stream).born = stream
  BY <1>4 DEF NewSource, IsSource
<1>8. source'.live /\ IsSource(source)' /\ source'.born <= stream
  <2>1. CASE source.live
    BY <1>1, <1>2, <2>1, LiveSource
  <2>2. CASE ~source.live
    BY <1>4, <1>6, <1>7, <2>2
  <2> QED BY <2>1, <2>2
<1>9. \A k \in buffer' : k \in Nat /\ IsPacket(k)'
  BY <1>1, <1>2, <1>3 DEF HeldInv, FramesKept
<1>10. HeldInv'
  BY <1>1, <1>2, <1>5, <1>8, <1>9 DEF HeldInv, HandedBelow
<1>11. SourceInv'
  <2> SUFFICES ASSUME source'.born = stream
               PROVE  /\ \A k \in buffer' : FrameOf(k)' \in Own'
                      /\ playing \in BOOLEAN
                      /\ playing => PlayoutAt(last)' /\ KnowsAt(last)' /\ CountsAt(last)'
                      /\ ~playing =>
                            /\ source' = NewSource(stream) /\ HandedBelow(floor)'
                            /\ \A k \in buffer' : HandedBelow(k)'
    BY <1>2 DEF SourceInv, Spliced
  <2>1. FrameOf(n)' = FrameOf(n) /\ \A k \in buffer : FrameOf(k)' = FrameOf(k)
    BY <1>1, <1>2 , <1>3 DEF HeldInv, FramesKept
  <2>2. CASE ~source.live
    <3>1. buffer = {} /\ playing = FALSE /\ last = -1 /\ HandedBelow(floor)
      BY <1>1, <2>2 DEF HeldInv
    <3>2. HandedBelow(floor)' /\ HandedBelow(n)'
      BY <1>2, <1>5, <3>1 DEF HandedBelow
    <3> QED BY <1>2, <1>3, <1>4, <1>6, <2>1, <2>2, <3>1, <3>2
  <2>3. CASE source.live
    <3>1. source.born = stream /\ source' = source
      BY <1>2, <2>3
    <3>2. /\ \A k \in buffer : FrameOf(k) \in Own
          /\ playing \in BOOLEAN
          /\ playing => PlayoutAt(last) /\ KnowsAt(last) /\ CountsAt(last)
          /\ ~playing =>
                /\ source = NewSource(stream) /\ HandedBelow(floor)
                /\ \A k \in buffer : HandedBelow(k)
      BY <1>1, <2>3, <3>1 DEF SourceInv, Spliced
    <3>3. \A k \in buffer' : FrameOf(k)' \in Own'
      BY <1>2, <1>3, <1>4, <2>1, <3>2
    <3>4. ASSUME playing PROVE PlayoutAt(last)' /\ KnowsAt(last)' /\ CountsAt(last)'
      <4>1. last \in Nat /\ IsPacket(last) /\ FrameOf(last) \in Own /\ next_sequence = Wire(last + 1)
        BY <3>2, <3>4 DEF PlayoutAt
      <4>2. /\ IsPacket(last)' /\ FrameOf(last)' = FrameOf(last) /\ Timestamp(last)' = Timestamp(last)
            /\ Marker(last)' = Marker(last) /\ frames'[FrameOf(last)] = frames[FrameOf(last)]
        BY <1>2, <1>3, <4>1 DEF FramesKept
      <4>3. buffer' = buffer \/ (buffer' = buffer \cup {n} /\ last < n)
        <5> SUFFICES ASSUME ~Less(Wire(n), next_sequence), n <= last PROVE FALSE
          BY <1>2, <1>4, <3>4, <4>1 DEF FramesInv
        <5>1. Base <= last /\ last < sent /\ Base \in Nat /\ sent <= Base + Span /\ Span \in Nat
          BY <1>1, <4>1, OwnPacket, StreamFits
        <5>2. last + 1 \in Nat /\ Base <= last + 1 /\ last + 1 <= Base + Span /\ n < last + 1 /\ n <= Base + Span
          BY <1>4, <4>1, <5>1
        <5> QED BY <1>1, <1>4, <4>1, <5>2, StreamLess
      <4>4. \A k \in buffer' : last < k
        BY <3>2, <3>4, <4>3 DEF PlayoutAt
      <4>5. PlayoutAt(last)'
        BY <1>2, <1>3, <3>2, <3>4, <4>1, <4>2, <4>4 DEF PlayoutAt, HandedBelow, Wire
      <4>6. KnowsAt(last)'
        BY <1>2, <3>1, <3>2, <3>4, <4>2 DEF KnowsAt, PartOf, Wire, HandedBelow
      <4>7. CountsAt(last)'
        BY <1>2, <1>3, <3>1, <3>2, <3>4, <4>2 DEF CountsAt
      <4> QED BY <4>5, <4>6, <4>7
    <3>5. ASSUME ~playing PROVE HandedBelow(floor)' /\ \A k \in buffer' : HandedBelow(k)'
      <4>1. HandedBelow(n)
        BY <1>2, <1>5, <3>2, <3>5 DEF HandedBelow
      <4> QED BY <1>2, <3>2, <3>5, <4>1 DEF HandedBelow
    <3> QED BY <3>1, <3>2, <3>3, <3>4, <3>5
  <2> QED BY <2>2, <2>3
<1> QED BY <1>3, <1>10, <1>11 DEF VideoInv

\* What pump makes of the source, field by field.
LEMMA PumpedFields ==
  ASSUME IsSource(source), NEW m, NEW ok \in BOOLEAN, PumpPacket(m, ok)
  PROVE  /\ DOMAIN source' = DOMAIN source /\ source'.live = TRUE /\ source'.born = source.born
         /\ source'.last_sequence = Wire(m) /\ source'.ts = Timestamp(m) /\ source'.frame = FrameOf(m)
         /\ source'.timestamp_step = IF Changed(m) /\ Contiguous(m) THEN Delta(m) ELSE source.timestamp_step
         /\ source'.frame_completed = (Marker(m) \/ (source.frame_completed /\ ~Changed(m) /\ source.ts # -1))
         /\ source'.frame_ready = Marker(m) /\ source'.frame_buffer = Feed(m)
         /\ source'.first = IF source.ts = -1 THEN FrameOf(m) ELSE source.first
         /\ source'.given = IF Marker(m) THEN source.given + 1 ELSE source.given
         /\ source'.frames_dropped = source.frames_dropped + Dropped(m)
         /\ source'.frames_missed = source.frames_missed + Missed(m)
         /\ source'.unseen = source.unseen + Unseen(m)
         /\ LET substitutes == Concealed(Dropped(m) + Missed(m))
            IN  /\ source'.streak = IF ok THEN 0 ELSE source.streak + substitutes
                /\ source'.shown = source.shown + substitutes + (IF ok THEN 1 ELSE 0)
                /\ source'.decoded = (source.decoded \/ ok)
<1>1. DOMAIN source = {"live", "last_sequence", "ts", "frame_completed", "timestamp_step", "frame_buffer",
                       "frame_ready", "frames_dropped", "frames_missed", "decoded", "streak", "born", "frame",
                       "first", "given", "unseen", "shown"} /\ source.live = TRUE
  BY DEF IsSource, NewSource
<1> QED BY <1>1 DEF PumpPacket

\* What goes into the frame buffer, spliced or not.
LEMMA FedIs ==
  ASSUME NEW m \in Nat, IsSource(source)
  PROVE  Feed(m) \in Seq(Nat) /\ Feed(m) # << >> /\ Feed(m)[Len(Feed(m))] = m
<1>1. source.frame_buffer \in Seq(Nat)
  BY DEF IsSource
<1>2. <<m>> \in Seq(Nat) /\ <<m>> # << >> /\ <<m>>[Len(<<m>>)] = m
  OBVIOUS
<1>3. LET q == Append(source.frame_buffer, m) IN q \in Seq(Nat) /\ q # << >> /\ q[Len(q)] = m
  BY <1>1
<1> QED BY <1>2, <1>3 DEF Feed

\* pop hands out the first packet held, and none before the playout position.
LEMMA PumpTakesFirst ==
  ASSUME HalfWindow, FramesInv, StreamInv, HeldInv, SourceInv, source.live, ~Spliced,
         NEW seq \in 0 .. SeqMod - 1, NEW m \in buffer, Expected(seq), HandsOut(seq, m)
  PROVE  \A k \in buffer : m <= k
<1>1. \A k \in buffer : k \in Nat /\ IsPacket(k) /\ FrameOf(k) \in Own
  BY DEF HeldInv, SourceInv
<1>2. \A k \in buffer : k \in Nat /\ Wire(k) = k - Base
  BY <1>1, OwnPacket
<1>3. Base \in Nat
  BY StreamFits
<1>4. \A b \in buffer : IsBegin(b) => \A k \in buffer : b <= k
  BY <1>2, <1>3 DEF IsBegin
<1>5. CASE m \in Find(seq) /\ playing
  <2>1. last \in Nat /\ IsPacket(last) /\ FrameOf(last) \in Own /\ next_sequence = Wire(last + 1)
        /\ \A k \in buffer : last < k
    BY <1>5 DEF SourceInv, PlayoutAt
  <2>2. Wire(last + 1) = last + 1 - Base
    BY <2>1, OwnPacket
  <2>3. m = last + 1
    BY <1>2, <1>3, <1>5, <2>1, <2>2 DEF Find, Expected
  <2> QED BY <1>2, <2>1, <2>3
<1>6. CASE m \in Find(seq) /\ ~playing
  <2>1. PICK b \in buffer : IsBegin(b) /\ Wire(b) = seq
    BY <1>6 DEF Expected
  <2>2. m = b
    BY <1>2, <1>3, <1>6, <2>1 DEF Find
  <2> QED BY <1>4, <2>1, <2>2
<1>7. CASE IsBegin(m)
  BY <1>4, <1>7
<1> QED BY <1>5, <1>6, <1>7 DEF HandsOut

\* How many frames lie between packet n and the next one, m, is known once the
\* step is: none if they are neighbours.
LEMMA GapIs ==
  ASSUME HalfWindow, StampsFit, FramesInv, StreamInv, NEW n \in Nat, NEW m \in Nat, n < m,
         IsPacket(n), IsPacket(m), FrameOf(n) \in Own, FrameOf(m) \in Own, KnowsAt(n)
  PROVE  LET g == FrameOf(m) - FrameOf(n)
         IN  /\ g \in Nat /\ (Changed(m) <=> g # 0)
             /\ Changed(m) /\ Contiguous(m) => g = 1 /\ Delta(m) = TsStep
             /\ g # 0 => Missed(m) + Unseen(m) = g - 1 /\ Missed(m) \in Nat /\ Unseen(m) \in Nat
             /\ g = 0 => Missed(m) = 0 /\ Unseen(m) = 0
             /\ g = 0 => ~Marker(n)
<1> DEFINE f == FrameOf(n)
           h == FrameOf(m)
           g == h - f
<1>1. f \in Own /\ h \in Own /\ f \in Int /\ h \in Int /\ f <= h /\ (m = n + 1 => h <= f + 1) /\ (h = f => ~Marker(n))
  BY OwnOrder
<1>2. /\ g \in Nat /\ (frames[h].ts - frames[f].ts) % TsMod = TsStep * g
      /\ (TsStep * g) \div TsStep = g
      /\ frames[h].ts = frames[f].ts <=> h = f
      /\ frames[f].ts \in Nat
  BY <1>1, OwnStamps
<1>3. source.ts = frames[f].ts /\ source.frame = f /\ source.last_sequence = Wire(n)
      /\ source.timestamp_step \in {0, TsStep}
  BY DEF KnowsAt, Timestamp
<1>4. Changed(m) <=> g # 0
  <2>1. source.ts # -1
    BY <1>2, <1>3
  <2>2. g # 0 <=> h # f
    BY <1>1
  <2> QED BY <1>2, <1>3, <2>1, <2>2 DEF Changed, Timestamp
<1>5. Delta(m) = TsStep * g
  BY <1>2, <1>3 DEF Delta, Timestamp
<1>6. Contiguous(m) => m = n + 1
  <2>1. Base \in Nat /\ Span \in Nat /\ 2 * Span <= SeqMod
    BY StreamFits
  <2>2. Wire(n) = n - Base /\ Wire(m) = m - Base /\ Base <= n /\ n < Base + Span /\ m < Base + Span
    BY OwnPacket
  <2>3. (Wire(n) + 1) % SeqMod = n - Base + 1
    BY <2>1, <2>2, SizesAssumption
  <2> QED BY <1>3, <2>1, <2>2, <2>3 DEF Contiguous
<1>7. Changed(m) /\ Contiguous(m) => g = 1 /\ Delta(m) = TsStep
  BY <1>1, <1>2, <1>4, <1>5, <1>6, VideoAssumption
<1>8. g # 0 => Missed(m) + Unseen(m) = g - 1 /\ Missed(m) \in Nat /\ Unseen(m) \in Nat
  <2> SUFFICES ASSUME g # 0
               PROVE  Missed(m) + Unseen(m) = g - 1 /\ Missed(m) \in Nat /\ Unseen(m) \in Nat
    OBVIOUS
  <2>1. Changed(m) /\ FrameOf(m) - source.frame = g
    BY <1>3, <1>4
  <2> HIDE DEF g
  <2>2. CASE Contiguous(m)
    BY <1>2, <1>7, <2>1, <2>2 DEF Missed, Unseen
  <2>3. CASE ~Contiguous(m) /\ source.timestamp_step = 0
    BY <1>2, <2>1, <2>3 DEF Missed, Unseen
  <2>4. CASE ~Contiguous(m) /\ source.timestamp_step # 0
    <3>1. Delta(m) \div source.timestamp_step = g
      BY <1>2, <1>3, <1>5, <2>4
    <3>2. Missed(m) = IF g > 1 /\ g <= MaxMissed THEN g - 1 ELSE 0
      BY <2>1, <2>4, <3>1 DEF Missed
    <3>3. Unseen(m) = IF g > MaxMissed THEN g - 1 ELSE 0
      BY <2>1, <2>4 DEF Unseen
    <3> QED BY <1>2, <3>2, <3>3, VideoAssumption
  <2> QED BY <2>2, <2>3, <2>4
<1>9. g = 0 => Missed(m) = 0 /\ Unseen(m) = 0
  BY <1>4 DEF Missed, Unseen
<1>10. g = 0 => ~Marker(n)
  BY <1>1
<1> QED BY <1>2, <1>4, <1>7, <1>8, <1>9, <1>10

\* Concealment makes no more pictures than asked for.
LEMMA ConcealedIs ==
  ASSUME source.streak \in 0 .. MaxStreak, NEW k \in Nat
  PROVE  Concealed(k) \in 0 .. k /\ source.streak + Concealed(k) \in 0 .. MaxStreak
BY VideoAssumption DEF Concealed

\* The frame buffer grows by packets of one frame, in order.
LEMMA FeedParts ==
  ASSUME FramesInv, NEW m \in Nat, IsPacket(m),
         source.frame_buffer \in Seq(Nat),
         \/ source.frame_ready \/ Changed(m) \/ source.frame_buffer = << >>
         \/ \E n \in Nat : n < m /\ PartOf(source.frame_buffer, FrameOf(m), n)
  PROVE  PartOf(Feed(m), FrameOf(m), m)
<1>1. frames[FrameOf(m)].first <= m /\ frames[FrameOf(m)].first \in Nat
  BY PacketFrame DEF Frames
<1>2. PartOf(<<m>>, FrameOf(m), m)
  BY <1>1 DEF PartOf
<1>3. CASE Feed(m) = <<m>>
  BY <1>2, <1>3
<1>4. CASE Feed(m) # <<m>>
  <2> DEFINE q == source.frame_buffer
             f == FrameOf(m)
  <2>1. Feed(m) = Append(q, m) /\ ~source.frame_ready /\ ~Changed(m)
    BY <1>4 DEF Feed
  <2>2. q # << >>
    <3>1. Append(<< >>, m) = <<m>>
      OBVIOUS
    <3>2. q = << >> => Append(q, m) = Append(<< >>, m)
      OBVIOUS
    <3> QED BY <1>4, <2>1, <3>1, <3>2, Zenon
  <2>3. PICK n \in Nat : n < m /\ PartOf(q, f, n)
    BY <2>1, <2>2
  <2>4. /\ Len(q) \in Nat /\ Len(q) > 0 /\ q[Len(q)] = n /\ DOMAIN q = 1 .. Len(q)
        /\ \A i \in 1 .. Len(q) : q[i] \in Nat /\ frames[f].first <= q[i]
        /\ \A i, j \in 1 .. Len(q) : i < j => q[i] < q[j]
    BY <2>3 DEF PartOf
  <2>5. \A i \in 1 .. Len(q) : q[i] < m
    <3> SUFFICES ASSUME NEW i \in 1 .. Len(q) PROVE q[i] < m
      OBVIOUS
    <3>1. CASE i = Len(q)
      BY <2>3, <2>4, <3>1
    <3>2. CASE i < Len(q)
      <4>1. Len(q) \in 1 .. Len(q)
        BY <2>4
      <4>2. q[i] < q[Len(q)] /\ q[i] \in Nat
        BY <2>4, <3>2, <4>1
      <4> QED BY <2>3, <2>4, <4>2
    <3> QED BY <2>4, <3>1, <3>2
  <2> DEFINE r == Append(q, m)
  <2>6. /\ r \in Seq(Nat) /\ DOMAIN r = 1 .. Len(q) + 1 /\ Len(r) = Len(q) + 1 /\ r[Len(q) + 1] = m
        /\ \A i \in 1 .. Len(q) : r[i] = q[i]
    OBVIOUS
  <2> HIDE DEF r, q
  <2>7. \A i \in DOMAIN r : frames[f].first <= r[i]
    BY <1>1, <2>4, <2>6
  <2>8. \A i, j \in DOMAIN r : i < j => r[i] < r[j]
    <3> SUFFICES ASSUME NEW i \in 1 .. Len(q) + 1, NEW j \in 1 .. Len(q) + 1, i < j PROVE r[i] < r[j]
      BY <2>6
    <3>1. i \in 1 .. Len(q)
      BY <2>4
    <3>2. CASE j = Len(q) + 1
      BY <2>5, <2>6, <3>1, <3>2
    <3>3. CASE j \in 1 .. Len(q)
      BY <2>4, <2>6, <3>1, <3>3
    <3> QED BY <2>4, <3>2, <3>3
  <2> QED BY <2>1, <2>4, <2>6, <2>7, <2>8 DEF PartOf, r
<1> QED BY <1>3, <1>4

\* The frame of the first packet counts, and nothing before it.
LEMMA FirstCounts ==
  ASSUME FramesInv, NEW m \in Nat, IsPacket(m), FrameOf(m) \in Own, NEW ok \in BOOLEAN, ok => Marker(m),
         source = NewSource(stream), stream \in Nat, PumpPacket(m, ok)
  PROVE  /\ source'.first = FrameOf(m) /\ source'.frame = FrameOf(m)
         /\ source'.given = (IF Marker(m) THEN 1 ELSE 0)
         /\ source'.frames_dropped = 0 /\ source'.frames_missed = 0 /\ source'.unseen = 0
         /\ source'.streak = 0 /\ source'.shown = (IF ok THEN 1 ELSE 0)
         /\ source'.frame_completed = Marker(m) /\ source'.timestamp_step = 0
<1>1. IsSource(source) /\ source.ts = -1 /\ source.frame_completed = TRUE /\ source.timestamp_step = 0
      /\ source.frames_dropped = 0 /\ source.frames_missed = 0 /\ source.decoded = FALSE /\ source.streak = 0
      /\ source.given = 0 /\ source.unseen = 0 /\ source.shown = 0
  BY DEF NewSource, IsSource
<1>2. ~Changed(m)
  BY <1>1 DEF Changed
<1>3. Dropped(m) = 0 /\ Missed(m) = 0 /\ Unseen(m) = 0
  BY <1>2 DEF Dropped, Missed, Unseen
<1>4. Concealed(Dropped(m) + Missed(m)) = 0
  BY <1>1 DEF Concealed
<1>5. /\ source'.first = FrameOf(m) /\ source'.frame = FrameOf(m)
      /\ source'.given = IF Marker(m) THEN source.given + 1 ELSE source.given
      /\ source'.frames_dropped = source.frames_dropped + Dropped(m)
      /\ source'.frames_missed = source.frames_missed + Missed(m)
      /\ source'.unseen = source.unseen + Unseen(m)
      /\ source'.streak = IF ok THEN 0 ELSE source.streak + Concealed(Dropped(m) + Missed(m))
      /\ source'.shown = source.shown + Concealed(Dropped(m) + Missed(m)) + (IF ok THEN 1 ELSE 0)
  BY <1>1, PumpedFields
<1>6. source'.given = (IF Marker(m) THEN 1 ELSE 0) /\ source'.streak = 0 /\ source'.shown = (IF ok THEN 1 ELSE 0)
  BY <1>1, <1>4, <1>5
<1>7. source'.frames_dropped = 0 /\ source'.frames_missed = 0 /\ source'.unseen = 0
  BY <1>1, <1>3, <1>5
<1>8. source'.frame_completed = (Marker(m) \/ (source.frame_completed /\ ~Changed(m) /\ source.ts # -1))
      /\ source'.timestamp_step = IF Changed(m) /\ Contiguous(m) THEN Delta(m) ELSE source.timestamp_step
  BY <1>1, PumpedFields
<1>9. source'.frame_completed = Marker(m)
  BY <1>1, <1>8 DEF Marker
<1> QED BY <1>1, <1>2, <1>5, <1>6, <1>7, <1>8, <1>9

\* A later packet's: each frame passed is handed out, dropped, missed or not seen.
LEMMA NextCounts ==
  ASSUME HalfWindow, StampsFit, FramesInv, StreamInv, IsSource(source),
         NEW n \in Nat, NEW m \in Nat, n < m, IsPacket(n), IsPacket(m), FrameOf(n) \in Own, FrameOf(m) \in Own,
         KnowsAt(n), CountsAt(n), NEW ok \in BOOLEAN, ok => Marker(m), PumpPacket(m, ok)
  PROVE  /\ source'.first \in Own /\ source'.first <= source'.frame
         /\ source'.given \in Nat /\ source'.frames_dropped \in Nat /\ source'.frames_missed \in Nat
         /\ source'.unseen \in Nat /\ source'.shown \in Nat /\ source'.streak \in 0 .. MaxStreak
         /\ source'.given + (IF Marker(m) THEN 0 ELSE 1) + source'.frames_dropped + source'.frames_missed
               + source'.unseen = source'.frame - source'.first + 1
         /\ source'.shown <= source'.given + source'.frames_dropped + source'.frames_missed
<1> DEFINE g == FrameOf(m) - FrameOf(n)
           d == Dropped(m)
           l == Missed(m)
           u == Unseen(m)
           c == Concealed(d + l)
<1>1. /\ g \in Nat /\ (Changed(m) <=> g # 0)
      /\ g # 0 => l + u = g - 1 /\ l \in Nat /\ u \in Nat
      /\ g = 0 => l = 0 /\ u = 0
      /\ g = 0 => ~Marker(n)
  BY GapIs
<1>2. d = IF g # 0 /\ ~Marker(n) THEN 1 ELSE 0
  BY <1>1 DEF Dropped, KnowsAt
<1>3. c \in 0 .. d + l /\ source.streak + c \in 0 .. MaxStreak
  BY <1>1, <1>2, ConcealedIs DEF CountsAt
<1>4. FrameOf(n) \in Nat /\ FrameOf(m) \in Nat /\ source.frame = FrameOf(n) /\ source.ts = Timestamp(n)
  BY PacketFrame DEF KnowsAt
<1>5. source.ts # -1
  <2>1. frames[FrameOf(n)].ts \in Nat
    BY PacketFrame DEF Frames
  <2> QED BY <1>4, <2>1 DEF Timestamp
<1>6. /\ source'.frame = FrameOf(m) /\ source'.first = source.first
      /\ source'.given = IF Marker(m) THEN source.given + 1 ELSE source.given
      /\ source'.frames_dropped = source.frames_dropped + d
      /\ source'.frames_missed = source.frames_missed + l
      /\ source'.unseen = source.unseen + u
      /\ source'.streak = IF ok THEN 0 ELSE source.streak + c
      /\ source'.shown = source.shown + c + (IF ok THEN 1 ELSE 0)
  BY <1>5, PumpedFields
<1>7. /\ source.first \in Own /\ source.first \in Int /\ source.first <= source.frame
      /\ source.given \in Nat /\ source.frames_dropped \in Nat /\ source.frames_missed \in Nat
      /\ source.unseen \in Nat /\ source.shown \in Nat
      /\ source.given + (IF Marker(n) THEN 0 ELSE 1) + source.frames_dropped + source.frames_missed
            + source.unseen = source.frame - source.first + 1
      /\ source.shown <= source.given + source.frames_dropped + source.frames_missed
  BY DEF CountsAt, StreamInv
<1> HIDE DEF d, l, u, c
<1>8. d \in Nat /\ l \in Nat /\ u \in Nat /\ c \in Nat /\ c <= d + l
      /\ (g # 0 => d = IF Marker(n) THEN 0 ELSE 1) /\ (g = 0 => d = 0 /\ ~Marker(n))
  BY <1>1, <1>2, <1>3
<1>9. FrameOf(m) = FrameOf(n) + g
  BY <1>4
<1> HIDE DEF g
<1>10. source'.given \in Nat /\ source'.frames_dropped \in Nat /\ source'.frames_missed \in Nat
       /\ source'.unseen \in Nat /\ source'.shown \in Nat
  BY <1>6, <1>7, <1>8
<1>11. source'.streak \in 0 .. MaxStreak
  BY <1>3, <1>6, VideoAssumption
<1>12. source'.shown <= source'.given + source'.frames_dropped + source'.frames_missed
  BY <1>6, <1>7, <1>8
<1>13. source'.first <= source'.frame
  BY <1>1, <1>4, <1>6, <1>7, <1>9
<1>14. source'.given + (IF Marker(m) THEN 0 ELSE 1) + source'.frames_dropped + source'.frames_missed
          + source'.unseen = source'.frame - source'.first + 1
  <2>1. CASE g = 0
    BY <1>1, <1>4, <1>6, <1>7, <1>8, <1>9, <2>1
  <2>2. CASE g # 0
    <3>1. source'.given + (IF Marker(m) THEN 0 ELSE 1) = source.given + 1
      BY <1>6, <1>7
    <3>2. d = (IF Marker(n) THEN 0 ELSE 1) /\ l + u = g - 1
      BY <1>1, <1>8, <2>2
    <3>3. source'.given + (IF Marker(m) THEN 0 ELSE 1) + source'.frames_dropped + source'.frames_missed
             + source'.unseen = (source.given + d + source.frames_dropped + source.frames_missed + source.unseen)
                                + 1 + (l + u)
      BY <1>6, <1>7, <1>8, <3>1
    <3>4. source.given + d + source.frames_dropped + source.frames_missed + source.unseen
             = source.frame - source.first + 1
      BY <1>7, <3>2
    <3> QED BY <1>1, <1>4, <1>6, <1>7, <1>9, <3>2, <3>3, <3>4
  <2> QED BY <2>1, <2>2
<1> QED BY <1>6, <1>7, <1>10, <1>11, <1>12, <1>13, <1>14

\* What a packet handed out leaves behind, for a stream that is not spliced.
LEMMA PumpAdvances ==
  ASSUME HalfWindow, StampsFit, FramesInv, StreamInv, HeldInv, SourceInv, source.live, ~Spliced,
         NEW m \in buffer, NEW ok \in BOOLEAN, ok => Marker(m), PumpPacket(m, ok),
         \A k \in buffer : m <= k
  PROVE  /\ HandedBelow(m) /\ (playing => last < m) /\ HandedBelow(Feed(m)[1])
         /\ source'.frame_completed = Marker(m) /\ source'.timestamp_step \in {0, TsStep}
         /\ PartOf(Feed(m), FrameOf(m), m)
         /\ source'.first \in Own /\ source'.first <= source'.frame
         /\ source'.given \in Nat /\ source'.frames_dropped \in Nat /\ source'.frames_missed \in Nat
         /\ source'.unseen \in Nat /\ source'.shown \in Nat /\ source'.streak \in 0 .. MaxStreak
         /\ source'.given + (IF Marker(m) THEN 0 ELSE 1) + source'.frames_dropped + source'.frames_missed
               + source'.unseen = source'.frame - source'.first + 1
         /\ source'.shown <= source'.given + source'.frames_dropped + source'.frames_missed
<1>1. m \in Nat /\ IsPacket(m) /\ FrameOf(m) \in Own /\ FrameOf(m) \in Nat
  <2>1. m \in Nat /\ IsPacket(m) /\ FrameOf(m) \in Own
    BY DEF HeldInv, SourceInv
  <2> QED BY <2>1, PacketFrame
<1>2. IsSource(source) /\ stream \in Nat /\ handed \in Seq(Nat)
  BY LiveSource DEF FramesInv, HeldInv
<1>3. CASE playing
  <2>1. PlayoutAt(last) /\ KnowsAt(last) /\ CountsAt(last)
    BY <1>3 DEF SourceInv
  <2>2. last \in Nat /\ IsPacket(last) /\ FrameOf(last) \in Own /\ last < m /\ HandedBelow(last + 1)
    BY <2>1 DEF PlayoutAt
  <2>3. HandedBelow(m)
    BY <1>1, <1>2, <2>2 DEF HandedBelow
  <2>4. /\ Changed(m) <=> FrameOf(m) - FrameOf(last) # 0
        /\ Changed(m) /\ Contiguous(m) => Delta(m) = TsStep
        /\ FrameOf(m) - FrameOf(last) = 0 => ~Marker(last)
    BY <1>1, <2>1, <2>2, GapIs
  <2>5. source.frame_completed = Marker(last) /\ source.timestamp_step \in {0, TsStep}
        /\ source.frame_buffer \in Seq(Nat) /\ PartOf(source.frame_buffer, FrameOf(last), last)
    BY <1>2, <2>1 DEF KnowsAt, IsSource
  <2>6. source'.frame_completed = Marker(m) /\ source'.timestamp_step \in {0, TsStep}
    <3>1. source'.frame_completed = (Marker(m) \/ (source.frame_completed /\ ~Changed(m) /\ source.ts # -1))
          /\ source'.timestamp_step = IF Changed(m) /\ Contiguous(m) THEN Delta(m) ELSE source.timestamp_step
      BY <1>2, PumpedFields
    <3>2. ~(source.frame_completed /\ ~Changed(m) /\ source.ts # -1)
      BY <2>4, <2>5
    <3>3. source'.frame_completed = Marker(m)
      BY <3>1, <3>2 DEF Marker
    <3> QED BY <2>4, <2>5, <3>1, <3>3
  <2>7. PartOf(Feed(m), FrameOf(m), m)
    <3>1. ~Changed(m) => FrameOf(m) = FrameOf(last)
      <4>1. FrameOf(last) \in Nat
        BY <2>2, PacketFrame
      <4> QED BY <1>1, <2>4, <4>1
    <3> QED BY <1>1, <2>2, <2>5, <3>1, FeedParts
  <2>8. HandedBelow(Feed(m)[1])
    <3>1. CASE source.frame_ready \/ Changed(m)
      <4>1. Feed(m) = <<m>>
        BY <3>1 DEF Feed
      <4> QED BY <2>3, <4>1
    <3>2. CASE ~source.frame_ready /\ ~Changed(m)
      <4> DEFINE q == source.frame_buffer
      <4>1. Feed(m) = Append(q, m)
        BY <3>2 DEF Feed
      <4>2. HandedBelow(q[1]) /\ Len(q) > 0 /\ q \in Seq(Nat)
        BY <2>1, <2>5, <3>2 DEF KnowsAt, PartOf
      <4>3. Append(q, m)[1] = q[1]
        <5> HIDE DEF q
        <5> QED BY <4>2
      <4> QED BY <4>1, <4>2, <4>3
    <3> QED BY <3>1, <3>2
  <2> QED BY <1>1, <1>2, <1>3, <2>1, <2>2, <2>3, <2>6, <2>7, <2>8, NextCounts
<1>4. CASE ~playing
  <2>1. source = NewSource(stream) /\ HandedBelow(m)
    BY <1>4 DEF SourceInv
  <2>2. /\ source'.first = FrameOf(m) /\ source'.frame = FrameOf(m)
        /\ source'.given = (IF Marker(m) THEN 1 ELSE 0)
        /\ source'.frames_dropped = 0 /\ source'.frames_missed = 0 /\ source'.unseen = 0
        /\ source'.streak = 0 /\ source'.shown = (IF ok THEN 1 ELSE 0)
        /\ source'.frame_completed = Marker(m) /\ source'.timestamp_step = 0
    BY <1>1, <1>2, <2>1, FirstCounts
  <2>3. source.frame_buffer = << >> /\ source.frame_buffer \in Seq(Nat)
    BY <2>1 DEF NewSource
  <2>4. PartOf(Feed(m), FrameOf(m), m)
    BY <1>1, <2>3, FeedParts
  <2>5. HandedBelow(Feed(m)[1])
    <3>1. Append(<< >>, m) = <<m>> /\ <<m>>[1] = m
      OBVIOUS
    <3>2. Feed(m) = <<m>>
      BY <2>3, <3>1 DEF Feed
    <3> QED BY <2>1, <3>1, <3>2
  <2> QED BY <1>1, <1>4, <2>1, <2>2, <2>4, <2>5, VideoAssumption
<1> QED BY <1>3, <1>4 DEF SourceInv

\* One turn of pump, spliced or not.
LEMMA PumpPacketKeeps ==
  ASSUME HalfWindow, StampsFit, VideoInv, NEW m \in buffer, NEW ok \in BOOLEAN, PumpPacket(m, ok)
  PROVE  VideoInv'
<1>1. FramesInv /\ StreamInv /\ HeldInv /\ SourceInv
  BY DEF VideoInv
<1>2. /\ UNCHANGED <<sent, frames, stream, floor, quiet, pumping>> /\ pumping /\ (ok => Marker(m))
      /\ handed' = IF Marker(m) THEN Feed(m) ELSE handed
  BY DEF PumpPacket, Pop
<1>3. PICK seq \in 0 .. SeqMod - 1 :
         /\ Expected(seq) /\ HandsOut(seq, m)
         /\ playing' = TRUE /\ buffer' = buffer \ {m} /\ next_sequence' = (Wire(m) + 1) % SeqMod /\ last' = m
  BY DEF PumpPacket, Pop
<1>4. FramesInv' /\ StreamInv' /\ FramesKept /\ Own' = Own
  BY <1>1, <1>2, SameStream
<1>5. source.live /\ IsSource(source) /\ source.born \in Nat /\ source.born <= stream
  <2>1. source.live
    BY <1>1, <1>2 DEF HeldInv
  <2> QED BY <1>1, <2>1, LiveSource
<1>6. /\ sent \in Nat /\ floor \in 0 .. sent /\ handed \in Seq(Nat)
      /\ m \in Nat /\ IsPacket(m) /\ m < sent /\ (quiet => m < floor)
  BY <1>1, PacketFrame DEF FramesInv, HeldInv
<1>7. Feed(m) \in Seq(Nat) /\ Feed(m) # << >> /\ Feed(m)[Len(Feed(m))] = m
  BY <1>5, <1>6, FedIs
<1>8. /\ source'.live = TRUE /\ source'.born = source.born /\ DOMAIN source' = DOMAIN source
      /\ source'.frame_buffer = Feed(m) /\ source'.frame_ready = Marker(m)
      /\ source'.last_sequence = Wire(m) /\ source'.ts = Timestamp(m) /\ source'.frame = FrameOf(m)
  BY <1>5, PumpedFields
<1>9. IsSource(source)' /\ source'.born <= stream'
  BY <1>2, <1>5, <1>7, <1>8 DEF IsSource
<1>10. handed' \in Seq(Nat) /\ HandedBelow(sent)' /\ (quiet => HandedBelow(floor)')
  <2>1. CASE Marker(m)
    <3>1. handed' = Feed(m)
      BY <1>2, <2>1
    <3> QED BY <1>2, <1>6, <1>7, <3>1 DEF HandedBelow
  <2>2. CASE ~Marker(m)
    BY <1>1, <1>2, <2>2 DEF HeldInv, HandedBelow
  <2> QED BY <2>1, <2>2
<1>11. HeldInv'
  <2>1. \A k \in buffer' : k \in Nat /\ IsPacket(k)' /\ (quiet' => k < floor')
    BY <1>1, <1>2, <1>3, <1>4 DEF HeldInv, FramesKept
  <2>2. buffer' \subseteq Nat
    BY <2>1
  <2>3. (floor \in 0 .. sent /\ quiet \in BOOLEAN /\ pumping \in BOOLEAN)'
    BY <1>1, <1>2 DEF HeldInv
  <2> QED BY <1>2, <1>8, <1>9, <1>10, <2>1, <2>2, <2>3 DEF HeldInv
<1>12. SourceInv'
  <2> SUFFICES ASSUME source.born = stream
               PROVE  /\ \A k \in buffer' : FrameOf(k)' \in Own'
                      /\ PlayoutAt(m)' /\ KnowsAt(m)' /\ CountsAt(m)'
    BY <1>2, <1>3, <1>8 DEF SourceInv, Spliced
  <2>1. \A k \in buffer : k \in Nat /\ m <= k /\ FrameOf(k) \in Own /\ IsPacket(k)
    BY <1>1, <1>3, <1>5, PumpTakesFirst DEF SourceInv, Spliced, HeldInv
  <2>2. /\ HandedBelow(m) /\ (playing => last < m) /\ HandedBelow(Feed(m)[1])
        /\ source'.frame_completed = Marker(m) /\ source'.timestamp_step \in {0, TsStep}
        /\ PartOf(Feed(m), FrameOf(m), m)
        /\ source'.first \in Own /\ source'.first <= source'.frame
        /\ source'.given \in Nat /\ source'.frames_dropped \in Nat /\ source'.frames_missed \in Nat
        /\ source'.unseen \in Nat /\ source'.shown \in Nat /\ source'.streak \in 0 .. MaxStreak
        /\ source'.given + (IF Marker(m) THEN 0 ELSE 1) + source'.frames_dropped + source'.frames_missed
              + source'.unseen = source'.frame - source'.first + 1
        /\ source'.shown <= source'.given + source'.frames_dropped + source'.frames_missed
    BY <1>1, <1>2, <1>5, <2>1, PumpAdvances DEF Spliced
  <2>3. /\ IsPacket(m)' /\ FrameOf(m)' = FrameOf(m) /\ Timestamp(m)' = Timestamp(m)
        /\ Marker(m)' = Marker(m) /\ frames'[FrameOf(m)] = frames[FrameOf(m)]
    BY <1>4, <1>6 DEF FramesKept
  <2>4. \A k \in buffer' : FrameOf(k)' \in Own'
    BY <1>3, <1>4, <2>1 DEF FramesKept
  <2>5. next_sequence' = Wire(m + 1)
    <3>1. Base \in Nat /\ Span \in Nat /\ 2 * Span <= SeqMod
      BY <1>1, StreamFits
    <3>2. Wire(m) = m - Base /\ Wire(m + 1) = m + 1 - Base /\ Base <= m /\ m < Base + Span
      BY <1>1, <1>6, <2>1, OwnPacket
    <3>3. (m - Base + 1) % SeqMod = m - Base + 1
      BY <1>6, <3>1, <3>2, SizesAssumption
    <3> QED BY <1>3, <1>6, <3>1, <3>2, <3>3
  <2>6. HandedBelow(m + 1)'
    <3>1. CASE Marker(m)
      <4>1. handed' = Feed(m)
        BY <1>2, <3>1
      <4> QED BY <1>3, <1>6, <1>7, <4>1 DEF HandedBelow
    <3>2. CASE ~Marker(m)
      <4>1. handed' = handed /\ (handed # << >> => handed[Len(handed)] \in Nat)
        BY <1>2, <1>6, <3>2
      <4> QED BY <1>3, <1>6, <2>2, <4>1 DEF HandedBelow
    <3> QED BY <3>1, <3>2
  <2>7. \A k \in buffer' : m < k
    BY <1>3, <1>6, <2>1
  <2>8. PlayoutAt(m)'
    BY <1>4, <1>6, <2>1, <2>3, <2>5, <2>6, <2>7 DEF PlayoutAt, Wire
  <2>9. KnowsAt(m)'
    <3>1. ~Marker(m) => handed' = handed
      BY <1>2
    <3> QED BY <1>8, <2>2, <2>3, <3>1 DEF KnowsAt, PartOf, Wire, HandedBelow
  <2>10. CountsAt(m)'
    BY <1>4, <2>2, <2>3 DEF CountsAt
  <2> QED BY <2>4, <2>8, <2>9, <2>10
<1> QED BY <1>4, <1>11, <1>12 DEF VideoInv

\* The invariant holds at first.
LEMMA VideoInitially == VideoInit => VideoInv
<1> SUFFICES ASSUME VideoInit PROVE VideoInv
  OBVIOUS
<1>1. /\ sent = 0 /\ frames = << >> /\ stream = 0 /\ floor = 0 /\ quiet = FALSE /\ pumping = FALSE
      /\ source = NoSource /\ handed = << >> /\ buffer = {} /\ playing = FALSE /\ last = -1
  BY DEF VideoInit, Init
<1>2. FramesInv
  BY <1>1, VideoAssumption DEF FramesInv
<1>3. Own = {}
  BY <1>1 DEF Own
<1>4. Cardinality(Own) = 0 /\ Before = 0 /\ Base = 0 /\ Len(frames) = 0
  <2>1. Cardinality(Own) = 0
    BY <1>3, FS_EmptySet
  <2>2. Base = 0
    BY <1>1, SizesAssumption DEF Base
  <2> QED BY <1>1, <2>1, <2>2 DEF Before
<1>5. sent - Base \in 0 .. MaxChunks * Cardinality(Own)
  BY <1>1, <1>4, VideoAssumption
<1>6. StreamInv
  BY <1>1, <1>3, <1>4, <1>5 DEF StreamInv
<1>7. ~source.live
  BY <1>1 DEF NoSource
<1>8. HeldInv
  <2>1. ~quiet /\ quiet \in BOOLEAN /\ pumping \in BOOLEAN
    BY <1>1, Zenon
  <2>3. floor \in 0 .. sent
    <3>1. 0 \in 0 .. 0
      OBVIOUS
    <3> QED BY <1>1, <3>1, Zenon
  <2>2. handed \in Seq(Nat)
    <3>1. << >> \in Seq(Nat)
      OBVIOUS
    <3> QED BY <1>1, <3>1, Zenon
  <2> QED BY <1>1, <1>7, <2>1, <2>2, <2>3 DEF HeldInv, HandedBelow
<1> QED BY <1>2, <1>6, <1>7, <1>8 DEF VideoInv, SourceInv

\* Every step preserves it.
LEMMA VideoStep == HalfWindow /\ StampsFit /\ VideoInv /\ [VideoNext]_videoVars => VideoInv'
<1> SUFFICES ASSUME HalfWindow, StampsFit, VideoInv, [VideoNext]_videoVars PROVE VideoInv'
  OBVIOUS
<1>1. ASSUME NEW k \in 1 .. MaxChunks, PacketizeFrame(k) PROVE VideoInv'
  BY <1>1, PacketizeKeeps
<1>2. CASE InitPacketizer
  BY <1>2, InitKeeps
<1>3. CASE Silence
  BY <1>3, SilenceKeeps
<1>4. ASSUME NEW n \in 0 .. MaxSent - 1, Route(n) PROVE VideoInv'
  BY <1>4, RouteKeeps, SizesAssumption
<1>5. CASE PumpBegins
  BY <1>5, PumpTurnKeeps DEF PumpBegins
<1>6. ASSUME NEW m \in buffer, NEW ok \in BOOLEAN, PumpPacket(m, ok) PROVE VideoInv'
  BY <1>6, PumpPacketKeeps
<1>7. CASE PumpEnds
  BY <1>7, PumpTurnKeeps DEF PumpEnds
<1>8. CASE ReapIdle
  BY <1>8, ReapKeeps
<1>9. CASE UNCHANGED videoVars
  <2>1. UNCHANGED <<vars, frames, stream, floor, quiet, source, handed>> /\ pumping' = pumping
    BY <1>9 DEF videoVars
  <2>2. pumping \in BOOLEAN /\ (pumping => source.live)
    BY DEF VideoInv, HeldInv
  <2> QED BY <2>1, <2>2, PumpTurnKeeps
<1> QED BY <1>1, <1>2, <1>3, <1>4, <1>5, <1>6, <1>7, <1>8, <1>9 DEF VideoNext

-----------------------------------------------------------------------------
(* The results *)

(* The next packet sent is never behind the playout position, whatever was *)
(* lost, refused, skipped or reaped before.                                *)
THEOREM SenderAheadAlways == ASSUME HalfWindow, StampsFit PROVE VideoSpec => []SenderAhead
<1>1. VideoInv => SenderAhead
  <2> SUFFICES ASSUME VideoInv, source.live, playing, ~Spliced
               PROVE  ~Less(Wire(sent), next_sequence)
    BY DEF SenderAhead
  <2>1. FramesInv /\ StreamInv /\ last \in Nat /\ IsPacket(last) /\ FrameOf(last) \in Own
        /\ next_sequence = Wire(last + 1)
    BY DEF VideoInv, SourceInv, PlayoutAt
  <2>2. Base <= last /\ last < sent
    BY <2>1, OwnPacket
  <2>3. Base \in Nat /\ sent \in Nat /\ Span \in Nat /\ sent <= Base + Span
    BY <2>1, StreamFits
  <2>4. last + 1 \in Nat /\ Base <= last + 1 /\ last + 1 <= sent /\ last + 1 > Base /\ Base <= sent
    BY <2>1, <2>2, <2>3
  <2>5. last + 1 <= Base + Span
    BY <2>3, <2>4
  <2> QED BY <2>1, <2>3, <2>4, <2>5, StreamLess
<1> QED BY <1>1, VideoInitially, VideoStep, PTL DEF VideoSpec

(* Every frame since the source's first is handed to the decoder or counted *)
(* once, and has at most one picture: however packets are lost, repeated    *)
(* and reordered, the counters account for the whole stream.                *)
THEOREM FramesAccountedAlways == ASSUME HalfWindow, StampsFit PROVE VideoSpec => []FramesAccounted
<1>1. VideoInv => FramesAccounted
  <2> SUFFICES ASSUME VideoInv, source.live, source.ts # -1, ~Spliced
               PROVE  LET passed == source.frame - source.first + 1
                          open   == IF source.frame_completed THEN 0 ELSE 1
                      IN  /\ source.given + open + source.frames_dropped + source.frames_missed
                                + source.unseen = passed
                          /\ source.shown <= passed
    BY DEF FramesAccounted
  <2>1. playing
    BY DEF VideoInv, SourceInv, NewSource
  <2>2. KnowsAt(last) /\ CountsAt(last) /\ StreamInv
    BY <2>1 DEF VideoInv, SourceInv
  <2>3. source.frame_completed = Marker(last)
    BY <2>2 DEF KnowsAt
  <2>4. /\ source.given + (IF source.frame_completed THEN 0 ELSE 1) + source.frames_dropped
              + source.frames_missed + source.unseen = source.frame - source.first + 1
        /\ source.given \in Nat /\ source.frames_dropped \in Nat /\ source.frames_missed \in Nat
        /\ source.unseen \in Nat /\ source.shown \in Nat
        /\ source.shown <= source.given + source.frames_dropped + source.frames_missed
    BY <2>2, <2>3 DEF CountsAt
  <2> QED BY <2>4
<1> QED BY <1>1, VideoInitially, VideoStep, PTL DEF VideoSpec

(* What the decoder gets is part of one frame, in order and up to its      *)
(* marker, and newer than what it got before: no two frames are glued.     *)
THEOREM FramesInOrderAlways == ASSUME HalfWindow, StampsFit PROVE VideoSpec => FramesInOrder
<1> DEFINE InOrder ==
      handed' # handed /\ ~Spliced =>
        /\ handed # << >> => handed'[1] > handed[Len(handed)]
        /\ \E f \in DOMAIN frames :
            /\ handed'[Len(handed')] = frames[f].final
            /\ \A i \in DOMAIN handed' : handed'[i] >= frames[f].first
            /\ \A i, j \in DOMAIN handed' : i < j => handed'[i] < handed'[j]
<1>1. HalfWindow /\ StampsFit /\ VideoInv /\ [VideoNext]_videoVars => [InOrder]_videoVars
  <2> SUFFICES ASSUME HalfWindow, StampsFit, VideoInv, VideoNext, handed' # handed, ~Spliced
               PROVE  /\ handed # << >> => handed'[1] > handed[Len(handed)]
                      /\ \E f \in DOMAIN frames :
                          /\ handed'[Len(handed')] = frames[f].final
                          /\ \A i \in DOMAIN handed' : handed'[i] >= frames[f].first
                          /\ \A i, j \in DOMAIN handed' : i < j => handed'[i] < handed'[j]
    BY DEF videoVars
  <2>1. PICK m \in buffer, ok \in BOOLEAN : PumpPacket(m, ok)
    BY DEF VideoNext, PacketizeFrame, InitPacketizer, Silence, Route, PumpBegins, PumpEnds, ReapIdle
  <2>2. FramesInv /\ StreamInv /\ HeldInv /\ SourceInv
    BY DEF VideoInv
  <2>3. pumping /\ (ok => Marker(m)) /\ Marker(m) /\ handed' = Feed(m)
    BY <2>1 DEF PumpPacket
  <2>4. source.live /\ IsSource(source) /\ m \in Nat /\ IsPacket(m) /\ handed \in Seq(Nat)
    BY <2>2, <2>3, LiveSource DEF HeldInv
  <2>5. \A k \in buffer : m <= k
    <3>1. PICK seq \in 0 .. SeqMod - 1 : Expected(seq) /\ HandsOut(seq, m)
      BY <2>1 DEF PumpPacket, Pop
    <3> QED BY <2>2, <2>4, <3>1, PumpTakesFirst
  <2>6. HandedBelow(Feed(m)[1]) /\ PartOf(Feed(m), FrameOf(m), m)
    BY <2>1, <2>2, <2>3, <2>4, <2>5, PumpAdvances
  <2>7. Feed(m) \in Seq(Nat) /\ Feed(m) # << >>
    BY <2>4, FedIs
  <2>8. FrameOf(m) \in DOMAIN frames /\ frames[FrameOf(m)].final = m /\ frames[FrameOf(m)].first \in Nat
    BY <2>2, <2>3, <2>4, PacketFrame DEF Marker, Frames
  <2>9. handed # << >> => handed'[1] > handed[Len(handed)]
    BY <2>3, <2>4, <2>6, <2>7 DEF HandedBelow
  <2>10. /\ handed'[Len(handed')] = frames[FrameOf(m)].final
         /\ \A i \in DOMAIN handed' : handed'[i] >= frames[FrameOf(m)].first
         /\ \A i, j \in DOMAIN handed' : i < j => handed'[i] < handed'[j]
    BY <2>3, <2>6, <2>7, <2>8 DEF PartOf
  <2> QED BY <2>8, <2>9, <2>10
<1> QED BY <1>1, VideoInitially, VideoStep, PTL DEF VideoSpec, FramesInOrder
=============================================================================
