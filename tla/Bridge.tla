-------------------------------- MODULE Bridge --------------------------------
(***************************************************************************)
(* The network process between the gateway and the GUI: its WebSocket      *)
(* (WebSocketClient, SignalingClient), its end of the socketpair           *)
(* (Ipc::Channel), and the life of the three threads that use them: main,  *)
(* which shakes hands, builds the bridge, sends heartbeats and statistics  *)
(* and takes everything down; the signaling reader; and the IPC reader.    *)
(*                                                                         *)
(* A frame is written in two pieces at least, header and payload, each by  *)
(* a call of its own; wire and pipe are the pieces written last, so that a *)
(* step shows which piece follows which.  Frames of the gateway, and the   *)
(* GUI's, are read whole.  Requests that stay in the process               *)
(* (SelectDevices) are left out, and what the reader does to m_peers is in *)
(* VoiceSession.                                                           *)
(***************************************************************************)
EXTENDS Naturals, Sequences

CONSTANTS MaxEvents,    \* bound: envelopes the gateway sends
          MaxPings,     \* bound: WebSocket pings it sends
          MaxRequests,  \* bound: envelopes the GUI sends
          MaxTicks      \* bound: heartbeats and statistics of main, together

ASSUME BridgeAssumption ==
    MaxEvents \in Nat /\ MaxPings \in Nat /\ MaxRequests \in Nat /\ MaxTicks \in Nat

VARIABLES
    main,        \* where main is
    running,     \* the flag the signal handlers clear
    ws,          \* WebSocketClient::m_fd is open, and m_running of its reader set
    handler,     \* m_on_envelope is set
    reader,      \* where the signaling reader is
    item,        \* the frame it has read last
    ipc,         \* gui_ipc: "none", "open", "closed"
    ipc_reader,  \* where the IPC reader is
    ask,         \* the request it has read last
    gui,         \* the GUI's end of the socketpair is open
    asks,        \* requests in the socketpair
    down,        \* frames from the gateway
    closed,      \* the gateway has closed its end
    wire,        \* the piece written to the WebSocket last
    pipe,        \* the piece written to the GUI last
    taken,       \* history: the event read from the WebSocket last
    shown,       \* history: the event written to the GUI last
    used         \* what the bounds count

netVars == <<down, closed>>
guiVars == <<gui, asks>>
readerVars == <<reader, item>>
ipcVars == <<ipc_reader, ask>>
seen == <<taken, shown>>
vars == <<main, running, ws, handler, readerVars, ipc, ipcVars, guiVars, netVars, wire, pipe, seen, used>>

Frame(kind, n) == [kind |-> kind, n |-> n]
Piece(f, part) == [frame |-> f, part |-> part]
NoPiece == Piece(Frame("none", 0), "body")

Init ==
    /\ main = "hello" /\ running = TRUE /\ ws = FALSE /\ handler = FALSE
    /\ reader = "none" /\ item = Frame("none", 0)
    /\ ipc = "none" /\ ipc_reader = "none" /\ ask = 0
    /\ gui = TRUE /\ asks = << >> /\ down = << >> /\ closed = FALSE
    /\ wire = NoPiece /\ pipe = NoPiece /\ taken = 0 /\ shown = 0
    /\ used = [events |-> 0, pings |-> 0, self |-> 0, requests |-> 0, ticks |-> 0]

Count(field) == used' = [used EXCEPT ![field] = @ + 1]

\* write_all: nothing reaches a gateway that has closed, and a closed fd fails.
WriteWs(f, part) == wire' = IF ws /\ ~closed THEN Piece(f, part) ELSE wire

\* write_full, likewise.
WriteIpc(f, part) == pipe' = IF gui /\ ipc = "open" THEN Piece(f, part) ELSE pipe

\* Wrong variants: no mutex; a mutex the first heartbeat never gives back.
MutexIgnored == TRUE
SendMuKept == main # "beating" /\ ipc_reader # "sending" /\ used.ticks = 0

\* m_send_mu and m_write_mu are held between a frame's first and last piece.
SendMuFree == main # "beating" /\ ipc_reader # "sending"
WriteMuFree == main \notin {"replaying", "reporting"} /\ reader # "forwarding"
-----------------------------------------------------------------------------
(* The gateway and the GUI *)

\* An envelope: after Hello the gateway knows the session.
GatewaySends ==
    /\ main # "hello" /\ ~closed /\ used.events < MaxEvents
    /\ down' = Append(down, Frame("event", used.events + 1)) /\ Count("events")
    /\ UNCHANGED <<main, running, ws, handler, readerVars, ipc, ipcVars, guiVars, closed, wire, pipe, seen>>

\* The answer to JoinVoice, with our own entry.
GatewayAdmits ==
    /\ main = "join" /\ ~closed /\ used.self = 0
    /\ down' = Append(down, Frame("self", 0)) /\ Count("self")
    /\ UNCHANGED <<main, running, ws, handler, readerVars, ipc, ipcVars, guiVars, closed, wire, pipe, seen>>

GatewayPings ==
    /\ main # "hello" /\ ~closed /\ used.pings < MaxPings
    /\ down' = Append(down, Frame("ping", used.pings + 1)) /\ Count("pings")
    /\ UNCHANGED <<main, running, ws, handler, readerVars, ipc, ipcVars, guiVars, closed, wire, pipe, seen>>

GatewayCloses ==
    /\ main # "hello" /\ ~closed
    /\ closed' = TRUE /\ down' = Append(down, Frame("close", 0))
    /\ UNCHANGED <<main, running, ws, handler, readerVars, ipc, ipcVars, guiVars, wire, pipe, seen, used>>

\* idleTimeout = 120: without heartbeats the gateway gives the client up.
IdleTimeout == main = "joinReader" /\ GatewayCloses

GuiAsks ==
    /\ gui /\ used.requests < MaxRequests
    /\ asks' = Append(asks, used.requests + 1) /\ Count("requests")
    /\ UNCHANGED <<main, running, ws, handler, readerVars, ipc, ipcVars, gui, netVars, wire, pipe, seen>>

\* The GUI's ipc.stop(); SIGTERM follows.
GuiQuits ==
    /\ gui /\ gui' = FALSE
    /\ UNCHANGED <<main, running, ws, handler, readerVars, ipc, ipcVars, asks, netVars, wire, pipe, seen, used>>

OnSignal ==
    /\ running /\ running' = FALSE
    /\ UNCHANGED <<main, ws, handler, readerVars, ipc, ipcVars, guiVars, netVars, wire, pipe, seen, used>>
-----------------------------------------------------------------------------
(* main: the handshake *)

\* connect_and_hello: Ready comes, or anything else ends the process.
Hello ==
    /\ main = "hello"
    /\ \/ main' = "join" /\ ws' = TRUE
       \/ main' = "ended" /\ UNCHANGED ws
    /\ UNCHANGED <<running, handler, readerVars, ipc, ipcVars, guiVars, netVars, wire, pipe, seen, used>>

\* join_voice reads until it finds its own entry; of the rest only
\* VoicePeerJoined is kept, and that for m_peers only.
JoinVoice ==
    /\ main = "join" /\ down # << >>
    /\ down' = Tail(down)
    /\ LET f == Head(down) IN
           \/ f.kind = "event" /\ taken' = f.n /\ UNCHANGED <<main, wire>>
           \/ /\ f.kind = "ping"
              /\ WriteWs(Frame("pong", f.n), "body")
              /\ UNCHANGED <<main, taken>>
           \/ f.kind = "self" /\ main' = "start" /\ UNCHANGED <<wire, taken>>
           \/ f.kind = "close" /\ main' = "ended" /\ UNCHANGED <<wire, taken>>
    /\ UNCHANGED <<running, ws, handler, readerVars, ipc, ipcVars, guiVars, closed, pipe, shown, used>>

\* 10 s without a frame, an Error, or 32 frames without the own entry.
JoinFails ==
    /\ main = "join" /\ main' = "ended"
    /\ UNCHANGED <<running, ws, handler, readerVars, ipc, ipcVars, guiVars, netVars, wire, pipe, seen, used>>
-----------------------------------------------------------------------------
(* main: the bridge *)

StartEventReader ==
    /\ main = "start" /\ main' = "bridge"
    /\ reader' = "top"
    /\ UNCHANGED <<running, ws, handler, item, ipc, ipcVars, guiVars, netVars, wire, pipe, seen, used>>

\* attach, set_envelope_handler
SetEnvelopeHandler ==
    /\ main = "bridge" /\ main' = "replay"
    /\ ipc' = "open" /\ handler' = TRUE
    /\ UNCHANGED <<running, ws, readerVars, ipcVars, guiVars, netVars, wire, pipe, seen, used>>

\* gui_ipc.send_envelope by main: of Ready, and of the statistics in the loop.
MainReports(from, at, to, f) ==
    /\ \/ main = from /\ WriteMuFree /\ main' = at /\ WriteIpc(f, "head")
       \/ main = at /\ main' = to /\ WriteIpc(f, "body")
    /\ UNCHANGED <<running, ws, handler, readerVars, ipc, ipcVars, guiVars, netVars, wire, seen>>

ReplayReady == MainReports("replay", "replaying", "startIpc", Frame("ready", 0)) /\ UNCHANGED used

\* start_reader; what is set up after it may fail and end the process.
StartIpcReader ==
    /\ main = "startIpc" /\ main' \in {"loop", "stop"}
    /\ ipc_reader' = "read"
    /\ UNCHANGED <<running, ws, handler, readerVars, ipc, ask, guiVars, netVars, wire, pipe, seen, used>>
-----------------------------------------------------------------------------
(* main: the loop and its end *)

SendStats ==
    /\ main = "loop" => running /\ used.ticks < MaxTicks
    /\ MainReports("loop", "reporting", "loop", Frame("stats", used.ticks))
    /\ IF main = "reporting" THEN Count("ticks") ELSE UNCHANGED used

\* send_heartbeat, and send_chat of the ICE negotiation.
SendHeartbeat ==
    /\ \/ /\ main = "loop" /\ running /\ used.ticks < MaxTicks
          /\ SendMuFree /\ main' = "beating"
          /\ WriteWs(Frame("beat", used.ticks), "head") /\ UNCHANGED used
       \/ /\ main = "beating" /\ main' = "loop"
          /\ WriteWs(Frame("beat", used.ticks), "body") /\ Count("ticks")
    /\ UNCHANGED <<running, ws, handler, readerVars, ipc, ipcVars, guiVars, netVars, pipe, seen>>

LeaveLoop ==
    /\ main = "loop" /\ ~running /\ main' = "stop"
    /\ UNCHANGED <<running, ws, handler, readerVars, ipc, ipcVars, guiVars, netVars, wire, pipe, seen, used>>

\* ~Channel: the fd is shut down and closed, the reader joined.
StopIpc ==
    /\ main = "stop" /\ main' = "joinIpc"
    /\ ipc' = "closed"
    /\ UNCHANGED <<running, ws, handler, readerVars, ipcVars, guiVars, netVars, wire, pipe, seen, used>>

JoinIpc ==
    /\ main = "joinIpc" /\ ipc_reader = "done" /\ main' = "close"
    /\ UNCHANGED <<running, ws, handler, readerVars, ipc, ipcVars, guiVars, netVars, wire, pipe, seen, used>>

\* ~SignalingClient: the flag is cleared, the fd closed, the reader joined.
CloseWs ==
    /\ main = "close" /\ main' = "joinReader"
    /\ ws' = FALSE
    /\ UNCHANGED <<running, handler, readerVars, ipc, ipcVars, guiVars, netVars, wire, pipe, seen, used>>

JoinReader ==
    /\ main = "joinReader" /\ reader = "done" /\ main' = "ended"
    /\ UNCHANGED <<running, ws, handler, readerVars, ipc, ipcVars, guiVars, netVars, wire, pipe, seen, used>>

\* The default action of SIGPIPE, which nobody changes: a write to a socket
\* whose other end is closed may end the process.
SigPipe ==
    /\ \/ closed /\ (~SendMuFree \/ reader = "ponging")
       \/ ~gui /\ ~WriteMuFree
    /\ main' = "ended" /\ reader' = "done" /\ ipc_reader' = "done"
    /\ UNCHANGED <<running, ws, handler, item, ipc, ask, guiVars, netVars, wire, pipe, seen, used>>
-----------------------------------------------------------------------------
(* SignalingClient::run_reader *)

\* The loop's test and m_fd; then the thread is in recv.
ReaderLoops ==
    /\ reader = "top" /\ main # "ended"
    /\ reader' = IF ws THEN "recv" ELSE "done"
    /\ item' = Frame("none", 0)
    /\ UNCHANGED <<main, running, ws, handler, ipc, ipcVars, guiVars, netVars, wire, pipe, seen, used>>

\* recv_binary: closing the fd does not wake a thread that is in recv; what it
\* then gets is a header whose payload can no more be read.
ReaderReceives ==
    /\ reader = "recv" /\ main # "ended" /\ down # << >>
    /\ down' = Tail(down) /\ item' = Head(down)
    /\ taken' = IF ws /\ item'.kind = "event" THEN item'.n ELSE taken
    /\ reader' = IF ws /\ item'.kind = "event" THEN "got"
                 ELSE IF ws /\ item'.kind = "ping" THEN "pong"
                 ELSE "done"
    /\ UNCHANGED <<main, running, ws, handler, ipc, ipcVars, guiVars, closed, wire, pipe, shown, used>>

\* The pong is written by this thread without m_send_mu.
ReaderPongs ==
    /\ main # "ended"
    /\ \/ reader = "pong" /\ reader' = (IF ws THEN "ponging" ELSE "done")
          /\ WriteWs(Frame("pong", item.n), "head")
       \/ reader = "ponging" /\ reader' = "top" /\ WriteWs(Frame("pong", item.n), "body")
    /\ UNCHANGED <<main, running, ws, handler, item, ipc, ipcVars, guiVars, netVars, pipe, seen, used>>

\* Wrong variant: the envelope is dropped while another thread writes.
ForwardsOrDrops ==
    /\ main # "ended"
    /\ \/ /\ reader = "got" /\ ~(handler /\ ipc = "open" /\ WriteMuFree)
          /\ reader' = "top" /\ UNCHANGED <<pipe, shown>>
       \/ /\ reader = "got" /\ handler /\ ipc = "open" /\ WriteMuFree
          /\ reader' = "forwarding" /\ WriteIpc(item, "head") /\ shown' = item.n
       \/ reader = "forwarding" /\ reader' = "top" /\ WriteIpc(item, "body") /\ UNCHANGED shown
    /\ UNCHANGED <<main, running, ws, handler, item, ipc, ipcVars, guiVars, netVars, wire, taken, used>>

\* m_on_envelope, if it is set, and gui_ipc.send_envelope, if it is open.
ReaderForwards ==
    /\ main # "ended"
    /\ \/ /\ reader = "got" /\ ~(handler /\ ipc = "open")
          /\ reader' = "top" /\ UNCHANGED <<pipe, shown>>
       \/ /\ reader = "got" /\ handler /\ ipc = "open" /\ WriteMuFree
          /\ reader' = "forwarding" /\ WriteIpc(item, "head") /\ shown' = item.n
       \/ reader = "forwarding" /\ reader' = "top" /\ WriteIpc(item, "body") /\ UNCHANGED shown
    /\ UNCHANGED <<main, running, ws, handler, item, ipc, ipcVars, guiVars, netVars, wire, taken, used>>
-----------------------------------------------------------------------------
(* Channel::run_reader of gui_ipc *)

IpcReads ==
    /\ ipc_reader = "read" /\ ipc = "open" /\ asks # << >>
    /\ ask' = Head(asks) /\ asks' = Tail(asks) /\ ipc_reader' = "send"
    /\ UNCHANGED <<main, running, ws, handler, readerVars, ipc, gui, netVars, wire, pipe, seen, used>>

\* The handler: signaling.send_envelope.
IpcSends ==
    /\ \/ /\ ipc_reader = "send" /\ SendMuFree /\ ipc_reader' = "sending"
          /\ WriteWs(Frame("request", ask), "head") /\ UNCHANGED ask
       \/ /\ ipc_reader = "sending" /\ ipc_reader' = "read"
          /\ WriteWs(Frame("request", ask), "body") /\ ask' = 0
    /\ UNCHANGED <<main, running, ws, handler, readerVars, ipc, guiVars, netVars, pipe, seen, used>>

\* Wrong variant: the fd is closed and not shut down.
IpcEndsAtEof ==
    /\ ipc_reader = "read" /\ ~gui /\ asks = << >>
    /\ ipc_reader' = "done"
    /\ UNCHANGED <<main, running, ws, handler, readerVars, ipc, ask, guiVars, netVars, wire, pipe, seen, used>>

\* The end of the socketpair, or stop(), whose shutdown wakes the thread.
IpcEnds ==
    /\ ipc_reader = "read" /\ (ipc = "closed" \/ (~gui /\ asks = << >>))
    /\ ipc_reader' = "done"
    /\ UNCHANGED <<main, running, ws, handler, readerVars, ipc, ask, guiVars, netVars, wire, pipe, seen, used>>
-----------------------------------------------------------------------------
Main ==
    \/ Hello \/ JoinVoice \/ JoinFails \/ StartEventReader \/ SetEnvelopeHandler
    \/ ReplayReady \/ StartIpcReader \/ SendStats \/ SendHeartbeat \/ LeaveLoop
    \/ StopIpc \/ JoinIpc \/ CloseWs \/ JoinReader

Reader == ReaderLoops \/ ReaderReceives \/ ReaderPongs \/ ReaderForwards
IpcReader == IpcReads \/ IpcSends \/ IpcEnds

Next ==
    \/ Main \/ Reader \/ IpcReader \/ SigPipe
    \/ GatewaySends \/ GatewayAdmits \/ GatewayPings \/ GatewayCloses
    \/ GuiAsks \/ GuiQuits \/ OnSignal

Spec == Init /\ [][Next]_vars

\* The process's threads run, and the gateway's idle timer ends a connection
\* without heartbeats.
FairSpec ==
    Spec /\ WF_vars(Main) /\ WF_vars(Reader) /\ WF_vars(IpcReader) /\ WF_vars(IdleTimeout)
-----------------------------------------------------------------------------
(* Properties *)

\* The piece q follows p, a header, and is not its payload.
Cuts(q, p) == q # p /\ p.part = "head" /\ q # Piece(p.frame, "body")

\* "m_write_mu serialises framed writes across threads": the GUI finds every
\* length prefix followed by its envelope, whatever main and the signaling
\* reader send at the same time.
GuiFramesWhole == [][~Cuts(pipe', pipe)]_vars

IsPong(p) == p.frame.kind = "pong"

\* m_send_mu keeps apart what main and the IPC reader send: no frame to the
\* gateway is cut by another one.  The exception, a frame cut by a pong or a
\* pong by a frame, does happen: the reader writes pongs without the mutex.
OnlyPongsTear == [][Cuts(wire', wire) => IsPong(wire) \/ IsPong(wire')]_vars

\* The event the reader has taken and not yet passed on, if any.
InHand == IF reader = "got" THEN 1 ELSE 0

\* From the first event that reaches the GUI on, no event that the reader has
\* taken is skipped, repeated or overtaken, as long as the bridge stands.  What
\* join_voice, or the reader before set_envelope_handler, has taken is lost.
NoEventSkipped ==
    shown # 0 /\ ipc = "open" /\ main # "ended" => taken = shown + InHand

\* The requests of the GUI that are on their way.
Waiting ==
    {asks[i] : i \in DOMAIN asks} \cup (IF ipc_reader \in {"send", "sending"} THEN {ask} ELSE {})

\* A request of the GUI reaches the gateway, whichever threads hold the
\* mutexes on its way, unless the process, the GUI or the connection ends.
RequestsForwarded ==
    \A n \in 1 .. MaxRequests :
        n \in Waiting ~>
            \/ wire = Piece(Frame("request", n), "body")
            \/ closed \/ ~gui \/ main \in {"stop", "joinIpc", "close", "joinReader", "ended"}

\* After a signal the process ends: every thread that main joins comes to its
\* end.  The one in recv is not woken by close() and may need the gateway's
\* idle timeout.
ProcessEnds == ~running ~> main = "ended"
==============================================================================
