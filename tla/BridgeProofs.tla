----------------------------- MODULE BridgeProofs -----------------------------
(***************************************************************************)
(* Frames of different senders are never mixed: to the GUI not at all, to  *)
(* the gateway only where a pong takes part.  A step that writes a piece   *)
(* is safe if a header written last belongs to the thread that writes      *)
(* next; that is the invariant, together with the exclusion of the mutexes *)
(* and with which threads exist in which phase of main.                    *)
(***************************************************************************)
EXTENDS Bridge, TLAPS

Counters == [events : Nat, pings : Nat, self : Nat, requests : Nat, ticks : Nat]

\* Which threads there are.
Threads ==
    /\ main \in {"hello", "join", "start", "bridge", "replay", "replaying", "startIpc"}
          => ipc_reader = "none"
    /\ main \in {"close", "joinReader", "ended"} => ipc_reader \in {"none", "done"}
    /\ main \in {"hello", "join", "start", "bridge"} => ipc = "none"
    /\ main \in {"hello", "join", "start"} => reader = "none"
    /\ main \in {"hello", "join"} => wire.part = "body"

\* m_write_mu, and whose header was written to the GUI last.
PipeInv ==
    /\ main \in {"replaying", "reporting"} => reader # "forwarding"
    /\ ipc = "none" => pipe.part = "body"
    /\ pipe.part = "head" /\ gui /\ ipc = "open" /\ main # "ended" =>
          \/ main = "replaying" /\ pipe.frame = Frame("ready", 0)
          \/ main = "reporting" /\ pipe.frame = Frame("stats", used.ticks)
          \/ reader = "forwarding" /\ pipe.frame = item

\* m_send_mu, and whose header was written to the gateway last.
WireInv ==
    /\ main = "beating" => ipc_reader # "sending"
    /\ wire.part = "head" /\ ~IsPong(wire) /\ ws /\ ~closed /\ main # "ended" =>
          \/ main = "beating" /\ wire.frame = Frame("beat", used.ticks)
          \/ ipc_reader = "sending" /\ wire.frame = Frame("request", ask)

BridgeInv == used \in Counters /\ Threads /\ PipeInv /\ WireInv

LEMMA InitBridge == Init => BridgeInv
BY DEF Init, BridgeInv, Counters, Threads, PipeInv, WireInv, NoPiece, Piece, Frame, IsPong

\* No counter but its own changes when a bounded step is counted.
LEMMA Counted ==
    ASSUME used \in Counters
    PROVE  /\ Count("events") => used' \in Counters /\ used'.ticks = used.ticks
           /\ Count("pings") => used' \in Counters /\ used'.ticks = used.ticks
           /\ Count("self") => used' \in Counters /\ used'.ticks = used.ticks
           /\ Count("requests") => used' \in Counters /\ used'.ticks = used.ticks
           /\ Count("ticks") => used' \in Counters
BY DEF Counters, Count

\* The gateway, the GUI and signals write nothing.
LEMMA OthersKeep ==
    ASSUME BridgeInv,
           GatewaySends \/ GatewayAdmits \/ GatewayPings \/ GatewayCloses
               \/ GuiAsks \/ GuiQuits \/ OnSignal
    PROVE  BridgeInv' /\ UNCHANGED <<wire, pipe>>
<1>1. /\ used' \in Counters /\ used'.ticks = used.ticks
      /\ UNCHANGED <<main, ws, readerVars, ipc, ipcVars, wire, pipe>>
      /\ gui' => gui
      /\ closed => closed'
  BY Counted DEF BridgeInv, GatewaySends, GatewayAdmits, GatewayPings, GatewayCloses,
        GuiAsks, GuiQuits, OnSignal, netVars, guiVars, readerVars, ipcVars
<1> QED
  BY <1>1 DEF BridgeInv, Threads, PipeInv, WireInv, IsPong, readerVars, ipcVars

\* What a step must show of the two streams.
Unmixed ==
    /\ ~Cuts(pipe', pipe)
    /\ Cuts(wire', wire) => IsPong(wire) \/ IsPong(wire')

\* The handshake, and the phases in which main builds and takes down.
LEMMA PhasesKeep ==
    ASSUME BridgeInv,
           Hello \/ JoinVoice \/ JoinFails \/ StartEventReader \/ SetEnvelopeHandler
               \/ StartIpcReader \/ LeaveLoop \/ StopIpc \/ JoinIpc \/ CloseWs \/ JoinReader
    PROVE  BridgeInv' /\ Unmixed
<1>1. CASE JoinVoice
  BY <1>1 DEF BridgeInv, Threads, PipeInv, WireInv, Unmixed, Cuts, JoinVoice, WriteWs, IsPong,
        Piece, Frame, readerVars, ipcVars, guiVars, netVars
<1>2. CASE Hello \/ JoinFails \/ StartEventReader \/ SetEnvelopeHandler \/ StartIpcReader
  BY <1>2 DEF BridgeInv, Threads, PipeInv, WireInv, Unmixed, Cuts, Hello, JoinFails, StartEventReader,
        SetEnvelopeHandler, StartIpcReader, IsPong, readerVars, ipcVars, guiVars, netVars
<1>3. CASE LeaveLoop \/ StopIpc \/ JoinIpc \/ CloseWs \/ JoinReader
  BY <1>3 DEF BridgeInv, Threads, PipeInv, WireInv, Unmixed, Cuts, LeaveLoop, StopIpc, JoinIpc,
        CloseWs, JoinReader, IsPong, readerVars, ipcVars, guiVars, netVars
<1> QED BY <1>1, <1>2, <1>3

\* main writes to the GUI under m_write_mu ...
LEMMA ReportsKeep ==
    ASSUME BridgeInv, ReplayReady \/ SendStats
    PROVE  BridgeInv' /\ Unmixed
<1>1. CASE ReplayReady
  BY <1>1 DEF BridgeInv, Threads, PipeInv, WireInv, Unmixed, Cuts, ReplayReady, MainReports, WriteIpc,
        WriteMuFree, Piece, IsPong, readerVars, ipcVars, guiVars, netVars
<1>2. CASE SendStats
  <2>1. used' \in Counters /\ (used' = used \/ main = "reporting")
    BY <1>2, Counted DEF BridgeInv, SendStats
  <2> QED
    BY <1>2, <2>1 DEF BridgeInv, Threads, PipeInv, WireInv, Unmixed, Cuts, SendStats, MainReports, WriteIpc,
        WriteMuFree, Piece, IsPong, readerVars, ipcVars, guiVars, netVars
<1> QED BY <1>1, <1>2

\* ... and to the gateway under m_send_mu.
LEMMA HeartbeatKeeps ==
    ASSUME BridgeInv, SendHeartbeat
    PROVE  BridgeInv' /\ Unmixed
<1>1. used' \in Counters /\ (used' = used \/ main = "beating")
  BY Counted DEF BridgeInv, SendHeartbeat
<1> QED
  BY <1>1 DEF BridgeInv, Threads, PipeInv, WireInv, Unmixed, Cuts, SendHeartbeat, WriteWs,
      SendMuFree, Piece, Frame, IsPong, readerVars, ipcVars, guiVars, netVars

LEMMA ReaderKeeps ==
    ASSUME BridgeInv, Reader
    PROVE  BridgeInv' /\ Unmixed
<1>1. CASE ReaderLoops \/ ReaderReceives
  BY <1>1 DEF BridgeInv, Threads, PipeInv, WireInv, Unmixed, Cuts, ReaderLoops, ReaderReceives,
        IsPong, ipcVars, guiVars, netVars
<1>2. CASE ReaderPongs
  BY <1>2 DEF BridgeInv, Threads, PipeInv, WireInv, Unmixed, Cuts, ReaderPongs, WriteWs, Piece, Frame,
        IsPong, ipcVars, guiVars, netVars
<1>3. CASE ReaderForwards
  BY <1>3 DEF BridgeInv, Threads, PipeInv, WireInv, Unmixed, Cuts, ReaderForwards, WriteIpc, WriteMuFree,
        Piece, IsPong, ipcVars, guiVars, netVars
<1> QED BY <1>1, <1>2, <1>3 DEF Reader

LEMMA IpcReaderKeeps ==
    ASSUME BridgeInv, IpcReader
    PROVE  BridgeInv' /\ Unmixed
<1>1. CASE IpcReads \/ IpcEnds
  BY <1>1 DEF BridgeInv, Threads, PipeInv, WireInv, Unmixed, Cuts, IpcReads, IpcEnds,
        IsPong, readerVars, guiVars, netVars
<1>2. CASE IpcSends
  BY <1>2 DEF BridgeInv, Threads, PipeInv, WireInv, Unmixed, Cuts, IpcSends, WriteWs, SendMuFree,
        Piece, Frame, IsPong, readerVars, guiVars, netVars
<1> QED BY <1>1, <1>2 DEF IpcReader

LEMMA StepBridge == BridgeInv /\ [Next]_vars => BridgeInv' /\ Unmixed
<1> SUFFICES ASSUME BridgeInv, [Next]_vars PROVE BridgeInv' /\ Unmixed
  OBVIOUS
<1>1. CASE Main
  BY <1>1, PhasesKeep, ReportsKeep, HeartbeatKeeps DEF Main
<1>2. CASE SigPipe
  BY <1>2 DEF BridgeInv, Threads, PipeInv, WireInv, Unmixed, Cuts, SigPipe, IsPong, guiVars, netVars
<1>3. CASE UNCHANGED vars
  BY <1>3 DEF BridgeInv, Threads, PipeInv, WireInv, Unmixed, Cuts, IsPong, vars, readerVars, ipcVars,
        guiVars, netVars
<1>4. CASE GatewaySends \/ GatewayAdmits \/ GatewayPings \/ GatewayCloses
               \/ GuiAsks \/ GuiQuits \/ OnSignal
  BY <1>4, OthersKeep DEF Unmixed, Cuts
<1> QED BY <1>1, <1>2, <1>3, <1>4, ReaderKeeps, IpcReaderKeeps DEF Next

\* Whatever main and the signaling reader write to the GUI, and however their
\* calls of send_envelope interleave, no envelope is cut by another.
THEOREM GuiFramesWholeAlways == Spec => GuiFramesWhole
<1>1. BridgeInv /\ [Next]_vars => [~Cuts(pipe', pipe)]_vars
  BY StepBridge DEF Unmixed
<1> QED BY <1>1, InitBridge, StepBridge, PTL DEF Spec, GuiFramesWhole

\* Heartbeats, chat of the ICE negotiation and the GUI's requests are never
\* mixed on the WebSocket: only a pong can cut a frame, or be cut.
THEOREM OnlyPongsTearAlways == Spec => OnlyPongsTear
<1>1. BridgeInv /\ [Next]_vars => [Cuts(wire', wire) => IsPong(wire) \/ IsPong(wire')]_vars
  BY StepBridge DEF Unmixed
<1> QED BY <1>1, InitBridge, StepBridge, PTL DEF Spec, OnlyPongsTear

-----------------------------------------------------------------------------
(* No event is skipped *)

Frames == [kind : {"none", "event", "self", "ping", "close"}, n : Nat]

IsEvent(q, i) == q[i].kind = "event"

\* What is on its way from the gateway: exactly the events after the one taken
\* last, in the order in which they were sent.
DownInv ==
    /\ \A i, j \in DOMAIN down : IsEvent(down, i) /\ IsEvent(down, j) /\ i < j => down[i].n < down[j].n
    /\ \A i \in DOMAIN down : IsEvent(down, i) => down[i].n \in taken + 1 .. used.events
    /\ \A n \in taken + 1 .. used.events : \E i \in DOMAIN down : IsEvent(down, i) /\ down[i].n = n

\* Which ends are open in which phase of main.
PhaseInv ==
    /\ main = "hello" => ~ws /\ down = << >> /\ taken = 0 /\ used.events = 0
    /\ main \in {"join", "start", "bridge"} => ws
    /\ ipc = "none" => shown = 0
    /\ ipc = "open" => ws /\ handler
    /\ main \in {"joinIpc", "close", "joinReader"} => ipc = "closed"

\* The bridge's own state: before CloseWs nothing is read and thrown away.
EventInv ==
    /\ BridgeInv
    /\ down \in Seq(Frames) /\ taken \in Nat /\ shown \in Nat /\ item \in Frames
    /\ PhaseInv
    /\ taken <= used.events
    /\ ws => DownInv
    /\ reader = "got" => item.n = taken
    /\ NoEventSkipped

LEMMA InitEvent == Init => EventInv
<1> SUFFICES ASSUME Init PROVE EventInv
  OBVIOUS
<1>1. BridgeInv
  BY InitBridge
<1>2. down = << >> /\ taken = 0 /\ shown = 0 /\ item = Frame("none", 0) /\ used.events = 0
  BY DEF Init
<1>3. << >> \in Seq(Frames) /\ Frame("none", 0) \in Frames
  BY DEF Frame, Frames
<1>4. main = "hello" /\ ws = FALSE /\ ipc = "none" /\ reader = "none"
  BY DEF Init
<1> QED BY <1>1, <1>2, <1>3, <1>4 DEF EventInv, PhaseInv, NoEventSkipped

\* A frame that is sent comes after all the others.
LEMMA AppendsDown ==
    ASSUME EventInv, NEW f \in Frames, down' = Append(down, f), taken' = taken,
           used' \in Counters,
           \/ f.kind = "event" /\ f.n = used.events + 1 /\ used'.events = used.events + 1
           \/ f.kind # "event" /\ used'.events = used.events
    PROVE  down' \in Seq(Frames) /\ (DownInv => DownInv')
<1> DEFINE N == Len(down)
<1>1. /\ down \in Seq(Frames) /\ N \in Nat /\ taken \in Nat /\ used.events \in Nat
      /\ taken <= used.events
  BY DEF EventInv, BridgeInv, Counters
<1>2. /\ down' \in Seq(Frames) /\ Len(down') = N + 1 /\ DOMAIN down' = 1 .. N + 1
      /\ DOMAIN down = 1 .. N
      /\ \A i \in 1 .. N : down'[i] = down[i]
      /\ down'[N + 1] = f
  BY <1>1
<1>3. ASSUME DownInv PROVE DownInv'
  <2>1. \A i \in 1 .. N : IsEvent(down', i) <=> IsEvent(down, i)
    BY <1>2 DEF IsEvent
  <2>2. IsEvent(down', N + 1) <=> f.kind = "event"
    BY <1>2 DEF IsEvent
  <2>3. ASSUME NEW i \in 1 .. N + 1, IsEvent(down', i)
        PROVE  /\ down'[i].n \in taken + 1 .. used'.events
               /\ \A j \in 1 .. N + 1 : IsEvent(down', j) /\ i < j => down'[i].n < down'[j].n
    <3> HIDE DEF IsEvent
    <3>1. CASE i = N + 1
      BY <1>1, <1>2, <2>2, <2>3, <3>1
    <3>2. CASE i \in 1 .. N
      <4>1. down[i].n \in taken + 1 .. used.events /\ down[i] = down'[i]
        BY <1>2, <1>3, <2>1, <2>3, <3>2 DEF DownInv
      <4>2. ASSUME NEW j \in 1 .. N, IsEvent(down', j), i < j PROVE down'[i].n < down'[j].n
        BY <1>2, <1>3, <2>1, <2>3, <3>2, <4>2 DEF DownInv
      <4>3. IsEvent(down', N + 1) => down'[i].n < down'[N + 1].n
        BY <1>1, <1>2, <2>2, <4>1
      <4> QED BY <1>1, <1>2, <4>1, <4>2, <4>3
    <3> QED BY <1>1, <3>1, <3>2
  <2>4. ASSUME NEW n \in taken + 1 .. used'.events
        PROVE  \E i \in 1 .. N + 1 : IsEvent(down', i) /\ down'[i].n = n
    <3>1. CASE n \in taken + 1 .. used.events
      <4>1. PICK i \in 1 .. N : IsEvent(down, i) /\ down[i].n = n
        BY <1>2, <1>3, <3>1 DEF DownInv
      <4> QED BY <1>1, <1>2, <2>1, <4>1
    <3>2. CASE n = used.events + 1 /\ f.kind = "event"
      BY <1>1, <1>2, <2>2, <3>2
    <3> QED BY <1>1, <2>4, <3>1, <3>2
  <2> QED BY <1>2, <2>3, <2>4 DEF DownInv
<1> QED BY <1>2, <1>3

\* The frame that is read is the first, and if it is an event, the next one.
LEMMA TakesDown ==
    ASSUME EventInv, down # << >>, down' = Tail(down), used' = used,
           taken' = IF Head(down).kind = "event" THEN Head(down).n ELSE taken
    PROVE  /\ down' \in Seq(Frames) /\ Head(down) \in Frames
           /\ DownInv => DownInv' /\ taken' \in Nat /\ taken' <= used.events
           /\ DownInv /\ Head(down).kind = "event" => taken' = taken + 1
<1> DEFINE N == Len(down)
<1>1. /\ down \in Seq(Frames) /\ N \in Nat \ {0} /\ taken \in Nat /\ used.events \in Nat
      /\ taken <= used.events
  BY DEF EventInv, BridgeInv, Counters
<1>2. /\ down' \in Seq(Frames) /\ Len(down') = N - 1 /\ DOMAIN down' = 1 .. N - 1
      /\ DOMAIN down = 1 .. N
      /\ \A i \in 1 .. N - 1 : down'[i] = down[i + 1]
      /\ Head(down) = down[1] /\ down[1] \in Frames
  BY <1>1
<1>3. \A i \in 1 .. N - 1 : IsEvent(down', i) <=> IsEvent(down, i + 1)
  BY <1>2 DEF IsEvent
<1>4. IsEvent(down, 1) <=> Head(down).kind = "event"
  BY <1>2 DEF IsEvent
<1> HIDE DEF IsEvent
<1>5. ASSUME DownInv PROVE \A i \in 1 .. N : IsEvent(down, i) /\ i # 1 /\ IsEvent(down, 1) => down[1].n < down[i].n
  BY <1>1, <1>2, <1>5 DEF DownInv
<1>6. ASSUME DownInv, IsEvent(down, 1) PROVE down[1].n = taken + 1
  <2>1. down[1].n \in taken + 1 .. used.events
    BY <1>1, <1>2, <1>6 DEF DownInv
  <2>2. PICK i \in 1 .. N : IsEvent(down, i) /\ down[i].n = taken + 1
    BY <1>1, <1>2, <1>6, <2>1 DEF DownInv
  <2> QED BY <1>1, <1>5, <1>6, <2>1, <2>2
<1>7. ASSUME DownInv PROVE DownInv'
  <2>1. taken' = IF IsEvent(down, 1) THEN taken + 1 ELSE taken
    BY <1>2, <1>4, <1>6, <1>7
  <2>2. ASSUME NEW i \in 1 .. N - 1, IsEvent(down', i)
        PROVE  /\ down'[i].n \in taken' + 1 .. used.events
               /\ \A j \in 1 .. N - 1 : IsEvent(down', j) /\ i < j => down'[i].n < down'[j].n
    <3>1. i + 1 \in 1 .. N /\ IsEvent(down, i + 1) /\ down'[i] = down[i + 1]
      BY <1>1, <1>2, <1>3, <2>2
    <3>2. down[i + 1].n \in taken + 1 .. used.events
      BY <1>2, <1>7, <3>1 DEF DownInv
    <3>3. IsEvent(down, 1) => taken + 1 < down[i + 1].n
      BY <1>1, <1>5, <1>6, <1>7, <3>1
    <3>4. ASSUME NEW j \in 1 .. N - 1, IsEvent(down', j), i < j PROVE down'[i].n < down'[j].n
      <4>1. j + 1 \in 1 .. N /\ IsEvent(down, j + 1) /\ down'[j] = down[j + 1] /\ i + 1 < j + 1
        BY <1>1, <1>2, <1>3, <3>4
      <4> QED BY <1>2, <1>7, <3>1, <4>1 DEF DownInv
    <3> QED BY <1>1, <2>1, <3>1, <3>2, <3>3, <3>4
  <2>3. ASSUME NEW n \in taken' + 1 .. used.events
        PROVE  \E i \in 1 .. N - 1 : IsEvent(down', i) /\ down'[i].n = n
    <3>1. n \in taken + 1 .. used.events /\ (IsEvent(down, 1) => n # taken + 1)
      BY <1>1, <2>1, <2>3
    <3>2. PICK i \in 1 .. N : IsEvent(down, i) /\ down[i].n = n
      BY <1>2, <1>7, <3>1 DEF DownInv
    <3>3. i # 1
      BY <1>6, <1>7, <3>1, <3>2
    <3>4. i - 1 \in 1 .. N - 1 /\ (i - 1) + 1 = i
      BY <1>1, <3>3
    <3> QED BY <1>2, <1>3, <3>2, <3>4
  <2> QED BY <1>2, <2>2, <2>3 DEF DownInv
<1>8. ASSUME DownInv PROVE taken' \in Nat /\ taken' <= used.events
  BY <1>1, <1>2, <1>4, <1>8 DEF DownInv
<1> QED BY <1>2, <1>4, <1>6, <1>7, <1>8

\* The gateway's frames; everything else of the environment leaves the events alone.
LEMMA GatewayEvents ==
    ASSUME EventInv, BridgeInv', GatewaySends \/ GatewayAdmits \/ GatewayPings \/ GatewayCloses
    PROVE  EventInv'
<1>1. PICK f \in Frames :
        /\ down' = Append(down, f)
        /\ \/ f.kind = "event" /\ f.n = used.events + 1 /\ used'.events = used.events + 1
           \/ f.kind # "event" /\ used'.events = used.events
  <2>1. used \in Counters /\ used' \in Counters
    BY DEF EventInv, BridgeInv
  <2>2. CASE GatewaySends
    <3>1. used'.events = used.events + 1 /\ Frame("event", used.events + 1) \in Frames
      BY <2>1, <2>2 DEF GatewaySends, Count, Counters, Frame, Frames
    <3> QED BY <2>2, <3>1 DEF GatewaySends, Frame
  <2>3. CASE GatewayAdmits
    <3>1. used'.events = used.events /\ Frame("self", 0) \in Frames
      BY <2>1, <2>3 DEF GatewayAdmits, Count, Counters, Frame, Frames
    <3> QED BY <2>3, <3>1 DEF GatewayAdmits, Frame
  <2>4. CASE GatewayPings
    <3>1. used'.events = used.events /\ Frame("ping", used.pings + 1) \in Frames
      BY <2>1, <2>4 DEF GatewayPings, Count, Counters, Frame, Frames
    <3> QED BY <2>4, <3>1 DEF GatewayPings, Frame
  <2>5. CASE GatewayCloses
    <3>1. used'.events = used.events /\ Frame("close", 0) \in Frames
      BY <2>5 DEF GatewayCloses, Frame, Frames
    <3> QED BY <2>5, <3>1 DEF GatewayCloses, Frame
  <2> QED BY <2>2, <2>3, <2>4, <2>5
<1>2. main # "hello" /\ UNCHANGED <<main, ws, handler, reader, item, ipc, taken, shown>>
  BY DEF GatewaySends, GatewayAdmits, GatewayPings, GatewayCloses, readerVars, seen
<1>3. used' \in Counters /\ used.events \in Nat
  BY DEF EventInv, BridgeInv, Counters
<1>4. down' \in Seq(Frames) /\ (DownInv => DownInv')
  BY <1>1, <1>2, <1>3, AppendsDown
<1> QED
  BY <1>1, <1>2, <1>3, <1>4 DEF EventInv, PhaseInv, NoEventSkipped, InHand

LEMMA SameEvents ==
    ASSUME EventInv, BridgeInv', UNCHANGED <<down, item, taken>>, used'.events = used.events
    PROVE  /\ down' \in Seq(Frames) /\ taken' \in Nat /\ item' \in Frames /\ taken' <= used'.events
           /\ DownInv => DownInv'
BY DEF EventInv, DownInv, IsEvent

\* Steps that move no event and take none.
LEMMA OtherEvents ==
    ASSUME EventInv, BridgeInv',
           \/ Hello \/ JoinFails \/ StartEventReader \/ SetEnvelopeHandler \/ ReplayReady
           \/ StartIpcReader \/ SendStats \/ SendHeartbeat \/ LeaveLoop \/ StopIpc \/ JoinIpc
           \/ CloseWs \/ JoinReader \/ ReaderPongs \/ IpcReader \/ SigPipe
           \/ GuiAsks \/ GuiQuits \/ OnSignal
    PROVE  EventInv'
<1>1. /\ UNCHANGED <<down, item, taken, shown>> /\ used'.events = used.events
  <2>1. used \in Counters
    BY DEF EventInv, BridgeInv
  <2>2. UNCHANGED <<down, item, taken, shown>>
    BY DEF Hello, JoinFails, StartEventReader, SetEnvelopeHandler, ReplayReady, MainReports,
        StartIpcReader, SendStats, SendHeartbeat, LeaveLoop, StopIpc, JoinIpc, CloseWs, JoinReader,
        ReaderPongs, IpcReader, IpcReads, IpcSends, IpcEnds, SigPipe, GuiAsks, GuiQuits, OnSignal,
        readerVars, netVars, seen
  <2>3. used' = used \/ Count("requests") \/ Count("ticks")
    <3>1. CASE ReplayReady \/ SendStats \/ SendHeartbeat \/ GuiAsks
      BY <3>1 DEF ReplayReady, SendStats, SendHeartbeat, GuiAsks
    <3>2. CASE Hello \/ JoinFails \/ StartEventReader \/ SetEnvelopeHandler \/ StartIpcReader \/ LeaveLoop
      BY <3>2 DEF Hello, JoinFails, StartEventReader, SetEnvelopeHandler, StartIpcReader, LeaveLoop
    <3>3. CASE StopIpc \/ JoinIpc \/ CloseWs \/ JoinReader \/ SigPipe
      BY <3>3 DEF StopIpc, JoinIpc, CloseWs, JoinReader, SigPipe
    <3>4. CASE ReaderPongs \/ IpcReader \/ GuiQuits \/ OnSignal
      BY <3>4 DEF ReaderPongs, IpcReader, IpcReads, IpcSends, IpcEnds, GuiQuits, OnSignal
    <3> QED BY <3>1, <3>2, <3>3, <3>4
  <2>4. used'.events = used.events
    BY <2>1, <2>3 DEF Count, Counters
  <2> QED BY <2>2, <2>4
<1>2. /\ down' \in Seq(Frames) /\ taken' \in Nat /\ item' \in Frames /\ taken' <= used'.events
      /\ DownInv => DownInv' /\ shown' \in Nat
  BY <1>1, SameEvents DEF EventInv
<1>3. CASE Hello
  <2>1. ws' => DownInv'
    BY <1>1, <1>3 DEF EventInv, PhaseInv, Hello, DownInv
  <2>2. /\ main = "hello" /\ main' \in {"join", "ended"} /\ (main' = "join" => ws') /\ ipc # "open"
        /\ UNCHANGED <<ipc, handler, reader>>
    BY <1>3 DEF EventInv, PhaseInv, Hello, readerVars
  <2>3. PhaseInv' /\ NoEventSkipped'
    BY <1>1, <2>2 DEF EventInv, PhaseInv, NoEventSkipped
  <2> QED
    BY <1>1, <1>2, <2>1, <2>2, <2>3 DEF EventInv
<1>4. ASSUME ReplayReady \/ StartIpcReader \/ SendStats \/ SendHeartbeat \/ LeaveLoop \/ JoinFails
      PROVE  EventInv'
  <2>1. /\ main' \notin {"hello", "join", "start", "bridge", "joinIpc", "close", "joinReader"}
        /\ main # "ended"
        /\ UNCHANGED <<ws, handler, ipc, reader>>
    BY <1>4 DEF ReplayReady, MainReports, StartIpcReader, SendStats, SendHeartbeat, LeaveLoop, JoinFails,
        readerVars
  <2> QED BY <1>1, <1>2, <2>1 DEF EventInv, PhaseInv, NoEventSkipped, InHand
<1>7. ASSUME StartEventReader \/ SetEnvelopeHandler PROVE EventInv'
  <2>1. /\ main' \in {"bridge", "replay"} /\ main # "ended" /\ ws /\ ws' = ws /\ reader' \in {"top", reader}
        /\ \/ UNCHANGED <<ipc, handler>>
           \/ ipc' = "open" /\ handler'
        /\ shown = 0
    BY <1>7 DEF EventInv, BridgeInv, Threads, PhaseInv, StartEventReader, SetEnvelopeHandler, readerVars
  <2> QED BY <1>1, <1>2, <2>1 DEF EventInv, PhaseInv, NoEventSkipped, InHand
<1>5. CASE StopIpc \/ JoinIpc \/ CloseWs \/ JoinReader \/ SigPipe
  BY <1>1, <1>2, <1>5 DEF EventInv, PhaseInv, NoEventSkipped, InHand, StopIpc, JoinIpc, CloseWs,
      JoinReader, SigPipe, readerVars
<1>6. CASE ReaderPongs \/ IpcReader \/ GuiAsks \/ GuiQuits \/ OnSignal
  BY <1>1, <1>2, <1>6 DEF EventInv, PhaseInv, NoEventSkipped, InHand, ReaderPongs, IpcReader, IpcReads,
      IpcSends, IpcEnds, GuiAsks, GuiQuits, OnSignal, readerVars
<1> QED BY <1>3, <1>4, <1>5, <1>6, <1>7

\* join_voice takes events before the bridge is there.
LEMMA JoinEvents ==
    ASSUME EventInv, BridgeInv', JoinVoice
    PROVE  EventInv'
<1>1. /\ main = "join" /\ ws /\ reader = "none" /\ ipc = "none" /\ shown = 0 /\ DownInv
      /\ down # << >> /\ down' = Tail(down) /\ used' = used
      /\ UNCHANGED <<ws, handler, reader, item, ipc, shown>>
      /\ taken' = IF Head(down).kind = "event" THEN Head(down).n ELSE taken
      /\ main' \in {"join", "start", "ended"}
  BY DEF EventInv, BridgeInv, Threads, PhaseInv, JoinVoice, readerVars
<1>2. down' \in Seq(Frames) /\ DownInv' /\ taken' \in Nat /\ taken' <= used.events
  BY <1>1, TakesDown
<1> QED
  BY <1>1, <1>2 DEF EventInv, PhaseInv, NoEventSkipped, InHand

\* The reader passes on what it has taken before it takes the next.
LEMMA ReaderEvents ==
    ASSUME EventInv, BridgeInv', ReaderLoops \/ ReaderReceives \/ ReaderForwards
    PROVE  EventInv'
<1>1. CASE ReaderLoops
  <2>1. Frame("none", 0) \in Frames
    BY DEF Frame, Frames
  <2>2. /\ UNCHANGED <<main, ws, handler, ipc, down, taken, shown, used>>
        /\ item' = Frame("none", 0) /\ reader # "got" /\ reader' # "got"
    BY <1>1 DEF ReaderLoops, netVars, seen
  <2>3. DownInv => DownInv'
    BY <2>2 DEF DownInv, IsEvent
  <2> QED BY <2>1, <2>2, <2>3 DEF EventInv, PhaseInv, NoEventSkipped, InHand
<1>2. CASE ReaderReceives
  <2>1. /\ down # << >> /\ down' = Tail(down) /\ item' = Head(down) /\ reader = "recv"
        /\ UNCHANGED <<main, ws, handler, ipc, shown, used>>
        /\ taken' = IF ws /\ Head(down).kind = "event" THEN Head(down).n ELSE taken
        /\ reader' = "got" <=> ws /\ Head(down).kind = "event"
    BY <1>2 DEF ReaderReceives
  <2>2. CASE ws
    <3>1. DownInv
      BY <2>2 DEF EventInv
    <3>2. /\ down' \in Seq(Frames) /\ item' \in Frames /\ DownInv' /\ taken' \in Nat
          /\ taken' <= used.events /\ (Head(down).kind = "event" => taken' = taken + 1)
      BY <2>1, <2>2, <3>1, TakesDown
    <3>3. main # "hello"
      BY <2>2 DEF EventInv, PhaseInv
    <3> QED BY <2>1, <2>2, <3>2, <3>3 DEF EventInv, PhaseInv, NoEventSkipped, InHand
  <2>3. CASE ~ws
    <3>1. down' \in Seq(Frames) /\ item' \in Frames
      BY <2>1 DEF EventInv
    <3>2. main # "hello"
      BY <2>1 DEF EventInv, PhaseInv
    <3> QED BY <2>1, <2>3, <3>1, <3>2 DEF EventInv, PhaseInv, NoEventSkipped, InHand
  <2> QED BY <2>2, <2>3
<1>3. CASE ReaderForwards
  <2>1. /\ UNCHANGED <<main, ws, handler, ipc, down, item, taken, used>> /\ reader' # "got"
        /\ \/ reader = "got" /\ ~(handler /\ ipc = "open") /\ UNCHANGED shown
           \/ reader = "got" /\ handler /\ ipc = "open" /\ shown' = item.n
           \/ reader = "forwarding" /\ UNCHANGED shown
    BY <1>3 DEF ReaderForwards, netVars
  <2>2. /\ down' \in Seq(Frames) /\ taken' \in Nat /\ item' \in Frames /\ taken' <= used'.events
        /\ DownInv => DownInv'
    BY <2>1, SameEvents
  <2> QED BY <2>1, <2>2 DEF EventInv, PhaseInv, NoEventSkipped, InHand
<1> QED BY <1>1, <1>2, <1>3

LEMMA StepEvent == EventInv /\ [Next]_vars => EventInv'
<1> SUFFICES ASSUME EventInv, [Next]_vars PROVE EventInv'
  OBVIOUS
<1>1. BridgeInv'
  BY StepBridge DEF EventInv
<1>2. CASE UNCHANGED vars
  <2>1. UNCHANGED <<main, ws, handler, reader, item, ipc, down, taken, shown, used>>
    BY <1>2 DEF vars, readerVars, netVars, seen
  <2> QED BY <1>1, <2>1, SameEvents DEF EventInv, PhaseInv, NoEventSkipped, InHand
<1> QED
  BY <1>1, <1>2, GatewayEvents, OtherEvents, JoinEvents, ReaderEvents DEF Next, Main, Reader

\* While the bridge stands, the GUI is shown every event that the signaling
\* reader takes, once and in order, whatever main and the IPC reader do at the
\* same time and however many events there are.
THEOREM NoEventSkippedAlways == Spec => []NoEventSkipped
<1>1. EventInv => NoEventSkipped
  BY DEF EventInv
<1> QED BY <1>1, InitEvent, StepEvent, PTL DEF Spec
==============================================================================
