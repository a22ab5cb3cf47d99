----------------------------- MODULE JitterBuffer -----------------------------
(***************************************************************************)
(* PacketJitterBuffer: packets of one source arrive late, reordered, twice *)
(* or never, and the audio callback asks for the next one every 10 ms.     *)
(* push and pop hold the buffer's mutex, so each is one step.              *)
(*                                                                         *)
(* Packets are known here by the number n under which they were sent; on   *)
(* the wire they carry n modulo SeqMod (2^16 in the build).  The buffer is *)
(* an std::map keyed, and iterated, by that sequence number: a set of      *)
(* packets of which no two have the same key.                              *)
(***************************************************************************)
EXTENDS Integers, FiniteSets

CONSTANTS SeqMod,       \* number of sequence numbers
          Capacity,     \* packets held at most (50)
          MinThreshold, MaxThreshold,   \* bounds of the playout threshold (1, 20)
          PileUp,       \* pile_up_skip margin over the threshold (3)
          Burst,        \* burst_skip distance (5)
          AdaptEvery,   \* m_pops_between_adapt (50)
          MaxSent,      \* bound: packets the source sends
          Reorder       \* bound: how much later than its successors one arrives

ASSUME SizesAssumption ==
    /\ SeqMod \in Nat /\ SeqMod > 1
    /\ Capacity \in Nat /\ PileUp \in Nat /\ Burst \in Nat /\ AdaptEvery \in Nat \ {0}
    /\ MinThreshold \in Nat \ {0} /\ MaxThreshold \in Nat /\ 2 \in MinThreshold .. MaxThreshold
    /\ MaxSent \in Nat /\ Reorder \in Nat

VARIABLES
    sent,           \* packets sent so far: 0 .. sent - 1
    buffer,         \* the packets held
    next_sequence,
    playing,
    threshold,      \* playout_threshold
    pops,           \* m_pops_since_adapt
    last            \* the packet played last, -1 at first

vars == <<sent, buffer, next_sequence, playing, threshold, pops, last>>

\* header.sequence
Wire(n) == n % SeqMod

\* packet_sequence_less_than: the difference, as a signed number, is negative.
Less(a, b) == (a - b) % SeqMod >= SeqMod \div 2

JitterTypeOK ==
    /\ sent \in 0 .. MaxSent
    /\ buffer \subseteq 0 .. sent - 1 /\ Cardinality(buffer) <= Capacity
    /\ next_sequence \in 0 .. SeqMod - 1
    /\ playing \in BOOLEAN
    /\ threshold \in MinThreshold .. MaxThreshold
    /\ pops \in 0 .. AdaptEvery - 1
    /\ last \in -1 .. sent - 1

\* The threshold starts at 2; nobody calls set_adaptive_bounds, so its bounds
\* are the defaults on either side of that.
Init ==
    /\ sent = 0 /\ buffer = {} /\ next_sequence = 0 /\ playing = FALSE
    /\ threshold = 2 /\ pops = 0 /\ last = -1

-----------------------------------------------------------------------------
\* The source, and the network: a packet arrives any number of times, also
\* none, as long as it is at most Reorder packets behind the newest.
Transmit ==
    /\ sent < MaxSent
    /\ sent' = sent + 1
    /\ UNCHANGED <<buffer, next_sequence, playing, threshold, pops, last>>

\* Wrong variant: no test for a late packet.
PushLate(n) ==
    /\ n < sent /\ sent - n <= Reorder
    /\ Cardinality(buffer) < Capacity
    /\ buffer' = IF \E k \in buffer : Wire(k) = Wire(n) THEN buffer ELSE buffer \cup {n}
    /\ UNCHANGED <<sent, next_sequence, playing, threshold, pops, last>>

\* push: too late or no room, and the packet is discarded; std::map::emplace
\* keeps the old packet where the key is taken.
Push(n) ==
    /\ n < sent /\ sent - n <= Reorder
    /\ ~(playing /\ Less(Wire(n), next_sequence))
    /\ Cardinality(buffer) < Capacity
    /\ buffer' = IF \E k \in buffer : Wire(k) = Wire(n) THEN buffer ELSE buffer \cup {n}
    /\ UNCHANGED <<sent, next_sequence, playing, threshold, pops, last>>

-----------------------------------------------------------------------------
\* pop.

\* buffer.begin(), buffer.find(seq)
IsBegin(m) == m \in buffer /\ \A k \in buffer : Wire(m) <= Wire(k)
Find(seq) == {m \in buffer : Wire(m) = seq}

\* The expected sequence number: the first one held when playout starts.
Expected(seq) ==
    IF playing THEN seq = next_sequence
    ELSE Cardinality(buffer) >= threshold /\ \E m \in buffer : IsBegin(m) /\ Wire(m) = seq

\* Wrong variant: only a long run of lost packets is skipped.
BurstOnly(seq) == \E m \in buffer : IsBegin(m) /\ Less((seq + Burst) % SeqMod, Wire(m))

\* pile_up_skip or burst_skip
Skips(seq) ==
    \/ Cardinality(buffer) >= threshold + PileUp
    \/ \E m \in buffer : IsBegin(m) /\ Less((seq + Burst) % SeqMod, Wire(m))

\* The packet pop hands out when it expects seq.
HandsOut(seq, m) ==
    \/ m \in Find(seq)
    \/ Find(seq) = {} /\ Skips(seq) /\ IsBegin(m)

\* Every AdaptEvery pops the threshold moves one step towards a target that
\* depends on the measured jitter: any value between the bounds.
Adapt ==
    IF pops + 1 < AdaptEvery
    THEN pops' = pops + 1 /\ UNCHANGED threshold
    ELSE /\ pops' = 0
         /\ threshold' \in {threshold - 1, threshold, threshold + 1} \cap (MinThreshold .. MaxThreshold)

\* pop returning a packet; when it returns false it changes nothing.
Pop ==
    \E seq \in 0 .. SeqMod - 1, m \in buffer :
        /\ Expected(seq) /\ HandsOut(seq, m)
        /\ playing' = TRUE
        /\ buffer' = buffer \ {m}
        /\ next_sequence' = (Wire(m) + 1) % SeqMod
        /\ last' = m
        /\ Adapt
        /\ UNCHANGED sent

Next == Transmit \/ (\E n \in 0 .. MaxSent - 1 : Push(n)) \/ Pop

Spec == Init /\ [][Next]_vars

-----------------------------------------------------------------------------
(* "returns the next packet in order if ready": whatever the network does, *)
(* a packet is played after all that were played before it were sent; in   *)
(* particular none is played twice.                                        *)
PlayedInOrder == [][last' # last => last' > last]_vars

(* Nothing in the buffer is behind the playout position: no packet stays   *)
(* in the map where no pop will look for it.                               *)
NothingStuck == playing => \A n \in buffer : n > last

(* A full buffer never wedges playback: with no room for another packet,   *)
(* pop finds one to play, so that pushes are taken again.                  *)
FullPlays ==
    Cardinality(buffer) = Capacity =>
        \E seq \in 0 .. SeqMod - 1, m \in buffer : Expected(seq) /\ HandsOut(seq, m)

-----------------------------------------------------------------------------
\* What makes NothingStuck inductive as long as sequence numbers do not wrap:
\* what pop expects is the packet after the one played last.
ExpectsNext ==
    IF playing THEN last >= 0 /\ next_sequence = Wire(last + 1) ELSE last = -1

\* Fewer packets than half the sequence numbers: packet_sequence_less_than and
\* the order of the map agree with the order of sending.
NoWrap == 2 * MaxSent <= SeqMod

IndInv == JitterTypeOK /\ NothingStuck /\ ExpectsNext

\* pile_up_skip applies before the buffer is full, whatever the threshold has
\* become: 20 + 3 of 50 packets in the build.
PileUpFits == MaxThreshold + PileUp <= Capacity
==============================================================================
