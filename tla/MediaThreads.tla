---------------------------- MODULE MediaThreads ----------------------------
(***************************************************************************)
(* The threads that move media in one network process, from its start to   *)
(* its end: main (network/src/main.cc), which negotiates an ICE lane or    *)
(* falls back to the relay, sends, and takes everything down again;        *)
(* IceTransport's loop thread, on which libnice calls back; the relay's    *)
(* receive_thread; and the worker of LossSim, which holds packets back.    *)
(*                                                                         *)
(* The peer, libnice and the clock are the environment: an SDP arrives or  *)
(* does not, candidates are gathered and checks succeed or fail at any     *)
(* time, and every wait with a timeout may end by it.                      *)
(***************************************************************************)
EXTENDS Naturals, Sequences, FiniteSets

CONSTANTS MaxPackets    \* bound: packets submitted to LossSim

ASSUME PacketsAssumption == MaxPackets \in Nat

Packets == 1 .. MaxPackets

VARIABLES
    main,           \* where main is: the steps of its actions
    running,        \* the global flag the signal handlers clear
    ice_enabled,    \* OSN_ICE and a signaling host
    ice_active,     \* the lane that won
    agent,          \* IceTransport::agent is set
    loop_running,
    loop,           \* the loop thread: "none", "idle", or "pushing" in on_data
    gathered,
    state,          \* the component's state: "disconnected", "connected" or "failed"
    mailbox,        \* ice_remote_sdp is not empty
    rx,             \* receive_thread: "none", "running", "done"
    sim,            \* LossSim's knobs: "off", "inline" (drop, ooo), "jitter"
    submitted,      \* packets submitted so far
    held,           \* m_held: at most one packet
    out,            \* the packets submit() still has to pass on
    queue,          \* m_queue
    due,            \* those of them whose deadline has passed
    m_running,
    worker,         \* where the worker is in worker_loop
    sending,        \* the packet the worker has taken out: at most one
    forwarded,      \* how often send_fn was called for each packet
    missed          \* history: the worker blocked after the last notify_all

iceVars == <<ice_active, agent, loop_running, loop, gathered, state, mailbox>>
simVars == <<submitted, held, out, queue, due, m_running, worker, sending, forwarded, missed>>
mediaVars == <<main, running, ice_enabled, iceVars, rx, sim, simVars>>

Negotiating == {"init", "gather", "await", "checks", "unwind", "unwinding"}

MediaInit ==
    /\ main = "init" /\ running = TRUE /\ ice_enabled \in BOOLEAN /\ ice_active = FALSE
    /\ agent = FALSE /\ loop_running = FALSE /\ loop = "none" /\ gathered = FALSE /\ state = "disconnected" /\ mailbox = FALSE
    /\ rx = "none" /\ sim \in {"off", "inline", "jitter"}
    /\ submitted = 0 /\ held = {} /\ out = << >> /\ queue = {} /\ due = {}
    /\ m_running = FALSE /\ worker = "none" /\ sending = {} /\ missed = FALSE
    /\ forwarded = [p \in Packets |-> 0]

-----------------------------------------------------------------------------
\* ICE: main negotiates, the loop thread calls back.

\* init: the agent, the loop thread and the gathering are set up; where that
\* fails, init itself undoes it.
IceInit ==
    /\ main = "init" /\ ice_enabled
    /\ \/ agent' = TRUE /\ loop_running' = TRUE /\ loop' = "idle" /\ main' = "gather"
       \/ main' = "unwind" /\ UNCHANGED <<agent, loop_running, loop>>
    /\ UNCHANGED <<running, ice_enabled, ice_active, gathered, state, mailbox, rx, sim, simVars>>

IceOff ==
    /\ main = "init" /\ ~ice_enabled
    /\ main' = "lane"
    /\ UNCHANGED <<running, ice_enabled, iceVars, rx, sim, simVars>>

\* wait_gathered: 10 s.
WaitGathered ==
    /\ main = "gather"
    /\ main' = IF gathered THEN "await" ELSE "unwind"
    /\ UNCHANGED <<running, ice_enabled, iceVars, rx, sim, simVars>>

\* Wrong variant: the loop ends with the SDP or the process only.
AwaitSdpForever ==
    /\ main = "await"
    /\ mailbox \/ ~running
    /\ main' \in (IF mailbox THEN {"checks", "unwind"} ELSE {"unwind"})
    /\ UNCHANGED <<running, ice_enabled, iceVars, rx, sim, simVars>>

\* The loop for the remote SDP, 60 s: it ends when the SDP is there, which
\* start_checks takes or rejects, when the time is over or with the process.
AwaitSdp ==
    /\ main = "await"
    /\ main' \in (IF mailbox THEN {"checks", "unwind"} ELSE {"unwind"})
    /\ UNCHANGED <<running, ice_enabled, iceVars, rx, sim, simVars>>

\* wait_ready: 15 s, then what connected() says.
WaitReady ==
    /\ main = "checks"
    /\ ice_active' = (state = "connected")
    /\ main' = IF ice_active' THEN "lane" ELSE "unwind"
    /\ UNCHANGED <<running, ice_enabled, agent, loop_running, loop, gathered, state, mailbox, rx, sim, simVars>>

\* shutdown: tell the loop thread to stop and wake it up ...
StopLoop(from, to) ==
    /\ main = from /\ main' = to
    /\ loop_running' = FALSE
    /\ UNCHANGED <<running, ice_enabled, ice_active, agent, loop, gathered, state, mailbox, rx, sim, simVars>>

\* Wrong variant: the loop thread is not joined.
ReleaseAgentUnjoined(from, to) ==
    /\ main = from /\ main' = to
    /\ agent' = FALSE /\ gathered' = FALSE /\ state' = "disconnected"
    /\ UNCHANGED <<running, ice_enabled, ice_active, loop_running, loop, mailbox, rx, sim, simVars>>

\* ... join it, and release the agent.
ReleaseAgent(from, to) ==
    /\ main = from /\ main' = to
    /\ loop = "none"
    /\ agent' = FALSE /\ gathered' = FALSE /\ state' = "disconnected"
    /\ UNCHANGED <<running, ice_enabled, ice_active, loop_running, loop, mailbox, rx, sim, simVars>>

\* "if (!ice_active) ice.shutdown()"
Unwind == StopLoop("unwind", "unwinding") \/ ReleaseAgent("unwinding", "lane")

\* The loop thread ends between two iterations.
LoopEnds ==
    /\ loop = "idle" /\ ~loop_running
    /\ loop' = "none"
    /\ UNCHANGED <<main, running, ice_enabled, ice_active, agent, loop_running, gathered, state, mailbox, rx, sim, simVars>>

\* The signaling reader: the chat handler puts the peer's SDP into the mailbox.
SdpArrives ==
    /\ ice_enabled /\ ~mailbox /\ main # "ended"
    /\ mailbox' = TRUE
    /\ UNCHANGED <<main, running, ice_enabled, ice_active, agent, loop_running, loop, gathered, state, rx, sim, simVars>>

\* on_gathering_done, on_state_changed
OnGatheringDone ==
    /\ loop = "idle" /\ loop_running /\ ~gathered
    /\ gathered' = TRUE
    /\ UNCHANGED <<main, running, ice_enabled, ice_active, agent, loop_running, loop, state, mailbox, rx, sim, simVars>>

OnStateChanged ==
    /\ loop = "idle" /\ loop_running /\ main \notin {"gather", "await"}
    /\ state' \in {"connected", "failed"} \ {state}
    /\ UNCHANGED <<main, running, ice_enabled, ice_active, agent, loop_running, loop, gathered, mailbox, rx, sim, simVars>>

\* on_data: ice_recv pushes the packet onto an SPSC queue.
OnData ==
    /\ \/ loop = "idle" /\ loop_running /\ state = "connected" /\ loop' = "pushing"
       \/ loop = "pushing" /\ loop' = "idle"
    /\ UNCHANGED <<main, running, ice_enabled, ice_active, agent, loop_running, gathered, state, mailbox, rx, sim, simVars>>

-----------------------------------------------------------------------------
\* Main takes its lane: LossSim is built, and the relay's receive thread is
\* started unless the ICE lane won.
TakeLane ==
    /\ main = "lane"
    /\ m_running' = (sim = "jitter")
    /\ worker' = IF sim = "jitter" THEN "top" ELSE "none"
    /\ rx' = IF ice_active THEN "none" ELSE "running"
    /\ main' = "loop"
    /\ UNCHANGED <<running, ice_enabled, iceVars, sim, submitted, held, out, queue, due, sending, forwarded, missed>>

\* receive_thread's loop ends with running.
ReceiveThreadEnds ==
    /\ rx = "running" /\ ~running
    /\ rx' = "done"
    /\ UNCHANGED <<main, running, ice_enabled, iceVars, sim, simVars>>

\* A signal: the handler clears running.
OnSignal ==
    /\ running
    /\ running' = FALSE
    /\ UNCHANGED <<main, ice_enabled, iceVars, rx, sim, simVars>>

-----------------------------------------------------------------------------
\* LossSim.  m_q_mutex is held by the worker where it is "locked" or "blocking";
\* main holds it for the one push only.
MutexFree == worker \notin {"locked", "blocking"}

SendFn(p) == forwarded' = [forwarded EXCEPT ![p] = @ + 1]

\* submit: the packet is dropped, sent with the one held back after it, held
\* back itself, or passed on.
Submit ==
    /\ main = "loop" /\ running /\ out = << >> /\ submitted < MaxPackets
    /\ submitted' = submitted + 1
    /\ LET p == submitted + 1
       IN  \/ sim # "off" /\ UNCHANGED <<held, out>>
           \/ \E h \in held : out' = <<p, h>> /\ held' = {}
           \/ sim # "off" /\ held = {} /\ held' = {p} /\ UNCHANGED out
           \/ held = {} /\ out' = <<p>> /\ UNCHANGED held
    /\ UNCHANGED <<main, running, ice_enabled, iceVars, rx, sim, queue, due, m_running, worker, sending, forwarded, missed>>

\* enqueue_or_send_inline, and its notify_one after the unlock.
Pass ==
    /\ main = "loop" /\ out # << >>
    /\ out' = Tail(out)
    /\ \/ /\ sim # "jitter" /\ SendFn(Head(out))
          /\ UNCHANGED <<main, queue>>
       \/ /\ sim = "jitter" /\ MutexFree
          /\ queue' = queue \cup {Head(out)} /\ main' = "notify"
          /\ UNCHANGED forwarded
    /\ UNCHANGED <<running, ice_enabled, iceVars, rx, sim, submitted, held, due, m_running, worker, sending, missed>>

\* A notification reaches a worker that waits; it comes back with the mutex.
Notified == CASE worker = "waiting" -> "woken" [] worker = "sleeping" -> "top" [] OTHER -> worker

\* Wrong variant: a push notifies nobody.
NotifyNone ==
    /\ main = "notify" /\ main' = "loop"
    /\ UNCHANGED <<running, ice_enabled, iceVars, rx, sim, simVars>>

NotifyOne ==
    /\ main = "notify" /\ main' = "loop"
    /\ worker' = Notified
    /\ UNCHANGED <<running, ice_enabled, iceVars, rx, sim, submitted, held, out, queue, due, m_running, sending, forwarded, missed>>

\* The clock: the deadline of a packet passes.
DeadlinePasses(p) ==
    /\ p \in queue \ due
    /\ due' = due \cup {p}
    /\ UNCHANGED <<main, running, ice_enabled, iceVars, rx, sim, submitted, held, out, queue, m_running, worker, sending, forwarded, missed>>

-----------------------------------------------------------------------------
\* worker_loop.
WorkerMoves(from, to) ==
    /\ worker = from /\ worker' = to
    /\ UNCHANGED <<main, running, ice_enabled, iceVars, rx, sim, submitted, held, out, m_running>>

WorkerTop ==
    /\ WorkerMoves("top", IF m_running THEN "lock" ELSE "drain")
    /\ UNCHANGED <<queue, due, sending, forwarded, missed>>

WorkerLock ==
    /\ WorkerMoves("lock", "locked")
    /\ UNCHANGED <<queue, due, sending, forwarded, missed>>

\* m_q_cv.wait tests its predicate under the mutex ...
WorkerTests ==
    /\ queue = {}
    /\ WorkerMoves("locked", IF m_running THEN "blocking" ELSE "top")
    /\ UNCHANGED <<queue, due, sending, forwarded, missed>>

\* ... and then gives the mutex back and blocks, in one step.
WorkerBlocks ==
    /\ WorkerMoves("blocking", "waiting")
    /\ missed' = (main = "simJoin")
    /\ UNCHANGED <<queue, due, sending, forwarded>>

WorkerWoken ==
    /\ WorkerMoves("woken", IF queue # {} \/ ~m_running THEN "top" ELSE "blocking")
    /\ UNCHANGED <<queue, due, sending, forwarded, missed>>

\* wait_until the next deadline.
WorkerSleeps ==
    /\ queue # {} /\ due = {}
    /\ WorkerMoves("locked", "sleeping")
    /\ UNCHANGED <<queue, due, sending, forwarded, missed>>

WorkerWakes ==
    /\ due # {}
    /\ WorkerMoves("sleeping", "top")
    /\ UNCHANGED <<queue, due, sending, forwarded, missed>>

\* One due packet is taken out under the mutex and sent without it.
WorkerTakes ==
    /\ \E p \in due : queue' = queue \ {p} /\ due' = due \ {p} /\ sending' = {p}
    /\ WorkerMoves("locked", "sending")
    /\ UNCHANGED <<forwarded, missed>>

WorkerSends ==
    /\ \E p \in sending : SendFn(p)
    /\ sending' = {}
    /\ WorkerMoves("sending", "top")
    /\ UNCHANGED <<queue, due, missed>>

\* After the loop: what is due is sent, the rest is dropped.
WorkerDrains ==
    /\ WorkerMoves("drain", "done")
    /\ forwarded' = [p \in Packets |-> IF p \in due THEN forwarded[p] + 1 ELSE forwarded[p]]
    /\ queue' = {} /\ due' = {}
    /\ UNCHANGED <<sending, missed>>

Worker ==
    \/ WorkerTop \/ WorkerLock \/ WorkerTests \/ WorkerBlocks \/ WorkerWoken
    \/ WorkerSleeps \/ WorkerWakes \/ WorkerTakes \/ WorkerSends \/ WorkerDrains

-----------------------------------------------------------------------------
\* The end of main.

LeaveLoop ==
    /\ main = "loop" /\ ~running /\ out = << >>
    /\ main' = "stopped"
    /\ UNCHANGED <<running, ice_enabled, iceVars, rx, sim, simVars>>

\* 200 ms of sleep, twice the time receive_thread takes to see the flag; then
\* the join.
JoinRx ==
    /\ main = "stopped" /\ rx # "running"
    /\ main' = "joined"
    /\ UNCHANGED <<running, ice_enabled, iceVars, rx, sim, simVars>>

CloseIce == StopLoop("joined", "iceClosing") \/ ReleaseAgent("iceClosing", "simFlag")

\* ~LossSim, after ice.shutdown(): the flag, notify_all without the mutex, and
\* the join.
ClearFlag ==
    /\ main = "simFlag"
    /\ main' = IF m_running THEN "simNotify" ELSE "ended"
    /\ m_running' = FALSE
    /\ UNCHANGED <<running, ice_enabled, iceVars, rx, sim, submitted, held, out, queue, due, worker, sending, forwarded, missed>>

\* Wrong variant: the destructor notifies nobody.
NotifyAllNone ==
    /\ main = "simNotify" /\ main' = "simJoin"
    /\ UNCHANGED <<running, ice_enabled, iceVars, rx, sim, simVars>>

NotifyAll ==
    /\ main = "simNotify" /\ main' = "simJoin"
    /\ worker' = Notified
    /\ UNCHANGED <<running, ice_enabled, iceVars, rx, sim, submitted, held, out, queue, due, m_running, sending, forwarded, missed>>

JoinWorker ==
    /\ main = "simJoin" /\ worker = "done"
    /\ main' = "ended"
    /\ UNCHANGED <<running, ice_enabled, iceVars, rx, sim, simVars>>

\* What main does whenever it can; Submit waits for a captured frame.
Main ==
    \/ IceInit \/ IceOff \/ WaitGathered \/ AwaitSdp \/ WaitReady \/ Unwind \/ TakeLane
    \/ Pass \/ NotifyOne
    \/ LeaveLoop \/ JoinRx \/ CloseIce \/ ClearFlag \/ NotifyAll \/ JoinWorker

Callbacks == OnGatheringDone \/ OnStateChanged \/ OnData

MediaNext ==
    \/ Main \/ Submit \/ Worker \/ ReceiveThreadEnds \/ OnSignal
    \/ SdpArrives \/ Callbacks \/ LoopEnds \/ \E p \in Packets : DeadlinePasses(p)

MediaSpec == MediaInit /\ [][MediaNext]_mediaVars

\* Every thread runs: no frame has to be captured and no signal to come, but
\* deadlines pass and a callback that has begun returns.
MediaFairSpec ==
    /\ MediaSpec
    /\ WF_mediaVars(Main) /\ WF_mediaVars(Worker) /\ WF_mediaVars(ReceiveThreadEnds)
    /\ WF_mediaVars(loop = "pushing" /\ OnData) /\ WF_mediaVars(LoopEnds)
    /\ \A p \in Packets : WF_mediaVars(DeadlinePasses(p))

-----------------------------------------------------------------------------
(* "The relay rx thread and the ICE recv callback are alternative sole     *)
(* producers for the SPSC rings, never both": module SpscQueue's one       *)
(* producer, through every way a negotiation can fail.                     *)
SingleProducer == ~(rx = "running" /\ loop # "none")

(* However the peer and libnice behave, the negotiation ends and media has *)
(* a lane: "any failure falls back to the relay path".                     *)
Settles == main \in Negotiating ~> main \notin Negotiating

(* A packet LossSim holds back is sent while the process runs: no push is  *)
(* lost on a worker that is about to wait, and none is passed over.        *)
DelayedSent ==
    \A p \in Packets : p \in queue ~> (forwarded[p] = 1 \/ ~running)

(* After a signal the process ends, whatever phase it is in, except in one *)
(* case: the worker tested its predicate before the destructor cleared     *)
(* m_running, and blocked after notify_all.                                *)
Exits == ~running ~> (main = "ended" \/ missed)
==============================================================================
