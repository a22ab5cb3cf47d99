------------------------------ MODULE VideoLane ------------------------------
(***************************************************************************)
(* One video stream from the sender's packetizer to the receiver's         *)
(* decoder: VideoPacketizer cuts each encoded frame into packets, the      *)
(* network (and LossSim) loses, repeats and reorders them, and             *)
(* PeerVideoRouter sorts them in the source's jitter buffer (module        *)
(* JitterBuffer), reassembles frames and conceals the ones it finds lost.  *)
(*                                                                         *)
(* Packets are numbered by n as in JitterBuffer.  The packetizer starts    *)
(* over, with sequence number and timestamp 0 and the same ssrc, when the  *)
(* screen grab is picked again after a pick that failed: here n jumps to   *)
(* the next multiple of SeqMod, whose sequence number is 0.                *)
(*                                                                         *)
(* The router and its reassembler both keep the timestamp of the packet    *)
(* fed last; it is one variable here.  Pictures are known by their frame:  *)
(* encoding, decoding and concealing as such are libraries' work.          *)
(***************************************************************************)
EXTENDS JitterBuffer, Sequences

CONSTANTS MaxChunks,    \* bound: packets per frame
          MaxFrames,    \* bound: frames sent
          MaxRestarts,  \* bound: times the packetizer starts over
          RestartBy,    \* bound: frames sent before it does
          TsStep,       \* timestamp_step of the sender
          TsMod,        \* number of timestamps (2^32)
          MaxMissed,    \* maximum_missed_frame_steps (30)
          MaxStreak     \* m_max_consecutive_concealments (5)

ASSUME VideoAssumption ==
    /\ MaxChunks \in Nat \ {0} /\ MaxFrames \in Nat
    /\ MaxRestarts \in Nat /\ RestartBy \in Nat
    /\ TsStep \in Nat \ {0} /\ TsMod \in Nat \ {0}
    /\ MaxMissed \in Nat /\ MaxStreak \in Nat

VARIABLES
    frames,     \* the frames sent: [first, final, ts, stream], packets first .. final
    stream,     \* how often the packetizer has started over
    floor,      \* packets below it do not arrive any more
    quiet,      \* no packet has come for the idle time of reap_idle
    pumping,    \* the main loop is in pump()
    source,     \* the router's Source, NoSource if there is none
    handed      \* what decode_packet got last: the packets in the frame buffer

lane == <<sent, frames, stream>>
jitter == <<buffer, next_sequence, playing, threshold, pops, last>>
videoVars == <<vars, frames, stream, floor, quiet, pumping, source, handed>>

NoSource == [live |-> FALSE]

\* A Source as route() makes it.  Of these fields, born, frame, first, given,
\* unseen and shown are history: the stream that made it, the frame of the last
\* packet, the first frame, the frames handed to the decoder, the frames lost
\* in gaps too early or too long to be counted, and the pictures presented.
NewSource(b) ==
    [live |-> TRUE, last_sequence |-> -1, ts |-> -1, frame_completed |-> TRUE,
     timestamp_step |-> 0, frame_buffer |-> << >>, frame_ready |-> FALSE,
     frames_dropped |-> 0, frames_missed |-> 0, decoded |-> FALSE, streak |-> 0,
     born |-> b, frame |-> 0, first |-> 0, given |-> 0, unseen |-> 0, shown |-> 0]

\* The frame of packet n, by its position in frames.
FrameOf(n) == CHOOSE f \in DOMAIN frames : frames[f].first <= n /\ n <= frames[f].final
IsPacket(n) == \E f \in DOMAIN frames : frames[f].first <= n /\ n <= frames[f].final
Timestamp(n) == frames[FrameOf(n)].ts
Marker(n) == n = frames[FrameOf(n)].final

VideoInit ==
    /\ Init
    /\ frames = << >> /\ stream = 0 /\ floor = 0 /\ quiet = FALSE
    /\ pumping = FALSE /\ source = NoSource /\ handed = << >>

-----------------------------------------------------------------------------
\* The sender.

\* packetize_frame: k packets of one timestamp, the last with the marker; the
\* next frame's timestamp is one step on.
PacketizeFrame(k) ==
    /\ Len(frames) < MaxFrames /\ sent + k <= MaxSent
    /\ sent' = sent + k
    /\ frames' = Append(frames, [first |-> sent, final |-> sent + k - 1, stream |-> stream,
            ts |-> (TsStep * Cardinality({f \in DOMAIN frames : frames[f].stream = stream})) % TsMod])
    /\ UNCHANGED <<jitter, stream, floor, quiet, pumping, source, handed>>

\* The device switch after a failed one: screen_send is false again, so the
\* encode lane is built anew, and init() resets sequence and timestamp.
InitPacketizer ==
    /\ stream < MaxRestarts /\ Len(frames) \in 1 .. RestartBy
    /\ stream' = stream + 1
    /\ sent' = SeqMod * (stream + 1)
    /\ UNCHANGED <<jitter, frames, floor, quiet, pumping, source, handed>>

\* Ten seconds without a packet of the source: what was under way is lost.
Silence ==
    /\ source.live /\ ~quiet /\ ~pumping
    /\ quiet' = TRUE /\ floor' = sent
    /\ UNCHANGED <<vars, frames, stream, pumping, source, handed>>

-----------------------------------------------------------------------------
\* The receiver's main loop: route() for every packet in the queue, then pump().

\* PacketJitterBuffer::push discards.
Refused(n) == (playing /\ Less(Wire(n), next_sequence)) \/ Cardinality(buffer) >= Capacity

\* route: a packet comes in, makes the source if there is none, and renews
\* last_packet whether the jitter buffer takes it or not.
Route(n) ==
    /\ ~pumping
    /\ IsPacket(n) /\ n >= floor /\ sent - n <= Reorder
    /\ Push(n) \/ (Refused(n) /\ UNCHANGED vars)
    /\ source' = IF source.live THEN source ELSE NewSource(frames[FrameOf(n)].stream)
    /\ quiet' = FALSE
    /\ UNCHANGED <<frames, stream, floor, pumping, handed>>

\* pump begins, and ends when pop returns false.
Pops(m) == \E seq \in 0 .. SeqMod - 1 : Expected(seq) /\ HandsOut(seq, m)

PumpBegins ==
    /\ ~pumping /\ source.live /\ \E m \in buffer : Pops(m)
    /\ pumping' = TRUE
    /\ UNCHANGED <<vars, frames, stream, floor, quiet, source, handed>>

PumpEnds ==
    /\ pumping /\ \A m \in buffer : ~Pops(m)
    /\ pumping' = FALSE
    /\ UNCHANGED <<vars, frames, stream, floor, quiet, source, handed>>

\* timestamp_changed, seq_contiguous
Changed(m) == source.ts # -1 /\ Timestamp(m) # source.ts
Contiguous(m) == source.last_sequence # -1 /\ Wire(m) = (source.last_sequence + 1) % SeqMod

Delta(m) == (Timestamp(m) - source.ts) % TsMod

\* Wrong variant: the frame that did arrive counts as lost too.
MissedInclusive(m) ==
    IF Changed(m) /\ ~Contiguous(m) /\ source.timestamp_step # 0
    THEN LET steps == Delta(m) \div source.timestamp_step
         IN  IF steps > 1 /\ steps <= MaxMissed THEN steps ELSE 0
    ELSE 0

\* The frames that vanished whole between the last packet's and m's.
Missed(m) ==
    IF Changed(m) /\ ~Contiguous(m) /\ source.timestamp_step # 0
    THEN LET steps == Delta(m) \div source.timestamp_step
         IN  IF steps > 1 /\ steps <= MaxMissed THEN steps - 1 ELSE 0
    ELSE 0

\* The frame that is abandoned without its marker.
Dropped(m) == IF Changed(m) /\ ~source.frame_completed THEN 1 ELSE 0

\* conceal_one, k times: nothing before the first picture, and no more than
\* MaxStreak in a row.
Concealed(k) ==
    IF ~source.decoded THEN 0
    ELSE IF source.streak + k <= MaxStreak THEN k ELSE MaxStreak - source.streak

\* Wrong variant: a new timestamp does not clear the partial frame.
FeedKeepsPartial(m) ==
    IF source.frame_ready THEN <<m>> ELSE Append(source.frame_buffer, m)

\* VideoReassembler::feed
Feed(m) ==
    IF source.frame_ready \/ Changed(m) THEN <<m>> ELSE Append(source.frame_buffer, m)

\* History: frames in a gap that came before the step was known, or was longer
\* than MaxMissed steps.
Unseen(m) ==
    LET gap == FrameOf(m) - source.frame
    IN  IF Changed(m) /\ ~Contiguous(m) /\ (source.timestamp_step = 0 \/ gap > MaxMissed)
        THEN gap - 1 ELSE 0

\* One turn of pump's loop: pop hands out m.  A complete frame goes to the
\* decoder, which may have no picture yet (ok is what decode_packet returns).
PumpPacket(m, ok) ==
    /\ pumping /\ Pop /\ last' = m /\ (ok => Marker(m))
    /\ LET substitutes == Concealed(Dropped(m) + Missed(m))
       IN  source' = [source EXCEPT
            !.last_sequence = Wire(m),
            !.ts = Timestamp(m),
            !.timestamp_step = IF Changed(m) /\ Contiguous(m) THEN Delta(m) ELSE @,
            !.frames_dropped = @ + Dropped(m),
            !.frames_missed = @ + Missed(m),
            !.frame_completed = Marker(m) \/ (@ /\ ~Changed(m) /\ source.ts # -1),
            !.frame_buffer = Feed(m),
            !.frame_ready = Marker(m),
            !.decoded = @ \/ ok,
            !.streak = IF ok THEN 0 ELSE @ + substitutes,
            !.frame = FrameOf(m),
            !.first = IF source.ts = -1 THEN FrameOf(m) ELSE @,
            !.given = IF Marker(m) THEN @ + 1 ELSE @,
            !.unseen = @ + Unseen(m),
            !.shown = @ + substitutes + (IF ok THEN 1 ELSE 0)]
    /\ handed' = IF Marker(m) THEN Feed(m) ELSE handed
    /\ UNCHANGED <<frames, stream, floor, quiet, pumping>>

\* Wrong variant: the source is emptied rather than dropped.
ReapKeepsPosition ==
    /\ ~pumping /\ quiet /\ source.live
    /\ source' = NoSource /\ buffer' = {} /\ threshold' = 2 /\ pops' = 0
    /\ UNCHANGED <<lane, floor, quiet, pumping, handed, next_sequence, playing, last>>

\* reap_idle: the source goes with its jitter buffer.
ReapIdle ==
    /\ ~pumping /\ quiet /\ source.live
    /\ source' = NoSource
    /\ buffer' = {} /\ next_sequence' = 0 /\ playing' = FALSE
    /\ threshold' = 2 /\ pops' = 0 /\ last' = -1
    /\ UNCHANGED <<lane, floor, quiet, pumping, handed>>

VideoNext ==
    \/ \E k \in 1 .. MaxChunks : PacketizeFrame(k)
    \/ InitPacketizer
    \/ Silence
    \/ \E n \in 0 .. MaxSent - 1 : Route(n)
    \/ PumpBegins
    \/ \E m \in buffer, ok \in BOOLEAN : PumpPacket(m, ok)
    \/ PumpEnds
    \/ ReapIdle

VideoSpec == VideoInit /\ [][VideoNext]_videoVars

-----------------------------------------------------------------------------
\* The packetizer has started over while the receiver kept the source.
Spliced == source.live /\ source.born # stream

(* What goes to the decoder is part of one frame only, in order and up to  *)
(* its marker, and never a frame that is not newer than the one before:    *)
(* whatever is lost or reordered, the reassembler glues no two frames.     *)
FramesInOrder ==
    [][handed' # handed /\ ~Spliced =>
        /\ handed # << >> => handed'[1] > handed[Len(handed)]
        /\ \E f \in DOMAIN frames :
            /\ handed'[Len(handed')] = frames[f].final
            /\ \A i \in DOMAIN handed' : handed'[i] >= frames[f].first
            /\ \A i, j \in DOMAIN handed' : i < j => handed'[i] < handed'[j]]_videoVars

(* Every frame sent since the source's first is either handed to the       *)
(* decoder or counted once as dropped or missed, and has at most one       *)
(* picture, real or substitute: timestamps and markers tell the router     *)
(* exactly which frames were lost, once it has learned the step.           *)
FramesAccounted ==
    source.live /\ source.ts # -1 /\ ~Spliced =>
        LET passed == source.frame - source.first + 1
            open   == IF source.frame_completed THEN 0 ELSE 1
        IN  /\ source.given + open + source.frames_dropped + source.frames_missed + source.unseen = passed
            /\ source.shown <= passed

(* What the sender sends next is never too late for the receiver: the      *)
(* playout position does not run ahead of the stream, and a source that    *)
(* went idle leaves nothing behind for the next stream of the same ssrc.   *)
SenderAhead == source.live /\ playing /\ ~Spliced => ~Less(Wire(sent), next_sequence)
==============================================================================
