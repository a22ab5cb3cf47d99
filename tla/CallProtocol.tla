----------------------------- MODULE CallProtocol -----------------------------
(***************************************************************************)
(* Ringing, answering and ending a call between two friends: the call flow *)
(* of the native client, with its two threads (the IPC reader thread and   *)
(* the GUI loop) split where the GUI loop releases the state's mutex, and  *)
(* the gateway's relaying of CallInvite, CallAccept, CallDecline, CallEnd. *)
(*                                                                         *)
(* A call lives in the direct-message channel of two friends: the channel  *)
(* is the set of the two, {} is the empty channel id.  The other party     *)
(* (outgoing_call_user, call_peer_user_id, from_user_id) is the channel's  *)
(* other member.  Elapsed time is not counted: a ring timer may be over at *)
(* any pass through the loop.  The mute button of the call bar is left     *)
(* out: it only turns mic off and on during a call.                        *)
(***************************************************************************)
EXTENDS Integers, Sequences, FiniteSets

CONSTANTS Users,
          MaxRings      \* bound: how often one user presses Call

ASSUME CallAssumption == MaxRings \in Nat

VARIABLES
    \* AppState, guarded by its mutex
    outgoing,       \* user -> outgoing_call_channel
    incoming,       \* user -> incoming_call's channel, {} when not active
    active,         \* user -> active_voice_channel
    accepted,       \* user -> call_accepted_flag
    ended,          \* user -> call_ended_flag
    \* the GUI thread
    pc,             \* user -> where its loop is
    local,          \* user -> the channel a section of the loop works on
    mic,            \* user -> audio_enabled
    rings,          \* user -> number of rings so far
    \* the rest of the world
    alive,          \* user -> its network process runs and is connected
    room,           \* user -> the call channel the gateway has it in as a voice
                    \* room; {} for its idle room or none
    msgs            \* <<from, to>> -> call envelopes on their way, in order

stateVars == <<outgoing, incoming, active, accepted, ended>>
guiVars == <<pc, local, mic, rings>>
vars == <<stateVars, guiVars, alive, room, msgs>>

Pairs == {p \in Users \X Users : p[1] # p[2]}
DMs == {{p[1], p[2]} : p \in Pairs}
None == {}
Channels == DMs \cup {None}

Peer(u, c) == CHOOSE v \in c : v # u

\* The sections of the loop; the other values of pc ("starting", "torn", ...)
\* are points inside them where the mutex is free and something remains to be
\* done.
Sections == {"accepted", "ended", "rings", "frame"}

Init ==
    /\ outgoing = [u \in Users |-> None] /\ incoming = [u \in Users |-> None]
    /\ active = [u \in Users |-> None]
    /\ accepted = [u \in Users |-> FALSE] /\ ended = [u \in Users |-> FALSE]
    /\ pc = [u \in Users |-> "accepted"] /\ local = [u \in Users |-> None]
    /\ mic = [u \in Users |-> FALSE] /\ rings = [u \in Users |-> 0]
    /\ alive = [u \in Users |-> TRUE] /\ room = [u \in Users |-> None]
    /\ msgs = [p \in Pairs |-> <<>>]

-----------------------------------------------------------------------------
\* on_call_*: the gateway passes the envelope on to the other party; to a user
\* who is not connected it vanishes, and so does all a dead child should send.
Send(u, c, kind) ==
    LET v == Peer(u, c) IN
    msgs' = IF alive[u] /\ alive[v] THEN [msgs EXCEPT ![<<u, v>>] = Append(@, kind)] ELSE msgs

\* The voice room after JoinVoice and LeaveVoice, which the child forwards.
VoiceRoom(u, c) == room' = [room EXCEPT ![u] = IF alive[u] THEN c ELSE @]

Goto(u, p, c) == pc' = [pc EXCEPT ![u] = p] /\ local' = [local EXCEPT ![u] = c]

-----------------------------------------------------------------------------
\* The reader thread handles one envelope with the mutex held.
Receive(u, v, kind) ==
    /\ alive[u] /\ msgs[<<v, u>>] # <<>> /\ Head(msgs[<<v, u>>]) = kind
    /\ msgs' = [msgs EXCEPT ![<<v, u>>] = Tail(@)]
    /\ UNCHANGED <<guiVars, alive, room>>

ReadInvite(u, v) ==
    /\ Receive(u, v, "invite")
    /\ incoming' = [incoming EXCEPT ![u] = {u, v}]
    /\ UNCHANGED <<outgoing, active, accepted, ended>>

ReadAccept(u, v) ==
    /\ Receive(u, v, "accept")
    /\ accepted' = [accepted EXCEPT ![u] = @ \/ outgoing[u] = {u, v}]
    /\ UNCHANGED <<outgoing, incoming, active, ended>>

ReadDecline(u, v) ==
    /\ Receive(u, v, "decline")
    /\ outgoing' = [outgoing EXCEPT ![u] = IF @ = {u, v} THEN None ELSE @]
    /\ UNCHANGED <<incoming, active, accepted, ended>>

\* Wrong variant: a CallEnd only stops a ring.
ReadEndRingOnly(u, v) ==
    /\ Receive(u, v, "end")
    /\ incoming' = [incoming EXCEPT ![u] = IF @ = {u, v} THEN None ELSE @]
    /\ outgoing' = [outgoing EXCEPT ![u] = IF @ = {u, v} THEN None ELSE @]
    /\ UNCHANGED <<active, accepted, ended>>

ReadEnd(u, v) ==
    /\ Receive(u, v, "end")
    /\ incoming' = [incoming EXCEPT ![u] = IF @ = {u, v} THEN None ELSE @]
    /\ ended' = [ended EXCEPT ![u] = @ \/ active[u] = {u, v}]
    /\ outgoing' = [outgoing EXCEPT ![u] = IF @ = {u, v} THEN None ELSE @]
    /\ UNCHANGED <<active, accepted>>

-----------------------------------------------------------------------------
\* The GUI loop.  start_call_media sends JoinVoice and opens the microphone.
StartCallMedia(u, c) ==
    /\ VoiceRoom(u, c)
    /\ mic' = [mic EXCEPT ![u] = @ \/ alive[u]]

\* Section 1: the ring was accepted.
TakeAccepted(u) ==
    /\ pc[u] = "accepted"
    /\ IF accepted[u]
       THEN /\ Goto(u, "starting", outgoing[u])
            /\ accepted' = [accepted EXCEPT ![u] = FALSE]
            /\ outgoing' = [outgoing EXCEPT ![u] = None]
            /\ StartCallMedia(u, outgoing[u])
       ELSE /\ Goto(u, "ended", None)
            /\ UNCHANGED <<accepted, outgoing, room, mic>>
    /\ UNCHANGED <<incoming, active, ended, rings, alive, msgs>>

CallStarted(u) ==
    /\ pc[u] = "starting"
    /\ active' = [active EXCEPT ![u] = local[u]]
    /\ Goto(u, "ended", None)
    /\ UNCHANGED <<outgoing, incoming, accepted, ended, mic, rings, alive, room, msgs>>

\* Wrong variant: the room is not left.
StopCallMediaStays(u) ==
    /\ active' = [active EXCEPT ![u] = None]
    /\ mic' = [mic EXCEPT ![u] = FALSE]
    /\ UNCHANGED room

\* stop_call_media: LeaveVoice for the active channel, if any, microphone off.
StopCallMedia(u) ==
    /\ active' = [active EXCEPT ![u] = None]
    /\ IF active[u] = None THEN UNCHANGED room ELSE VoiceRoom(u, None)
    /\ mic' = [mic EXCEPT ![u] = @ /\ ~alive[u]]

\* Section 2: the other party hung up.
TakeEnded(u) ==
    /\ pc[u] = "ended"
    /\ ended' = [ended EXCEPT ![u] = FALSE]
    /\ Goto(u, IF ended[u] THEN "torn" ELSE "rings", None)
    /\ UNCHANGED <<outgoing, incoming, active, accepted, mic, rings, alive, room, msgs>>

TearDown(u) ==
    /\ pc[u] = "torn"
    /\ StopCallMedia(u)
    /\ Goto(u, "rings", None)
    /\ UNCHANGED <<outgoing, incoming, accepted, ended, rings, alive, msgs>>

\* Section 3: ring timeouts, 30 s for our ring and 45 s for theirs; both may
\* be over in the same pass.
NoTimeout(u) ==
    /\ pc[u] = "rings"
    /\ Goto(u, "frame", None)
    /\ UNCHANGED <<stateVars, mic, rings, alive, room, msgs>>

\* Wrong variant: the timeout sends CallEnd and forgets to stop ringing.
OutgoingTimeoutKeeps(u) ==
    /\ pc[u] = "rings" /\ outgoing[u] # None
    /\ Send(u, outgoing[u], "end")
    /\ Goto(u, "frame", None)
    /\ UNCHANGED <<stateVars, mic, rings, alive, room>>

OutgoingTimeout(u) ==
    /\ pc[u] = "rings" /\ outgoing[u] # None
    /\ outgoing' = [outgoing EXCEPT ![u] = None]
    /\ incoming' \in {incoming, [incoming EXCEPT ![u] = None]}
    /\ Send(u, outgoing[u], "end")
    /\ Goto(u, "frame", None)
    /\ UNCHANGED <<active, accepted, ended, mic, rings, alive, room>>

IncomingTimeout(u) ==
    /\ pc[u] = "rings" /\ incoming[u] # None
    /\ incoming' = [incoming EXCEPT ![u] = None]
    /\ Goto(u, "frame", None)
    /\ UNCHANGED <<outgoing, active, accepted, ended, mic, rings, alive, room, msgs>>

-----------------------------------------------------------------------------
\* Section 4: the frame, with at most one click.
NoClick(u) ==
    /\ pc[u] = "frame"
    /\ Goto(u, "accepted", None)
    /\ UNCHANGED <<stateVars, mic, rings, alive, room, msgs>>

\* A friend's row offers Hang Up in a call, else Cancel while ringing, else Call.
ClickCall(u, v) ==
    /\ pc[u] = "frame" /\ active[u] # {u, v} /\ outgoing[u] # {u, v}
    /\ rings[u] < MaxRings
    /\ rings' = [rings EXCEPT ![u] = @ + 1]
    /\ Send(u, {u, v}, "invite")
    /\ Goto(u, "calling", {u, v})
    /\ UNCHANGED <<stateVars, mic, alive, room>>

Ringing(u) ==
    /\ pc[u] = "calling"
    /\ outgoing' = [outgoing EXCEPT ![u] = local[u]]
    /\ Goto(u, "accepted", None)
    /\ UNCHANGED <<incoming, active, accepted, ended, mic, rings, alive, room, msgs>>

ClickCancel(u) ==
    /\ pc[u] = "frame" /\ outgoing[u] # None /\ active[u] # outgoing[u]
    /\ Send(u, outgoing[u], "end")
    /\ Goto(u, "cancelling", None)
    /\ UNCHANGED <<stateVars, mic, rings, alive, room>>

RingCancelled(u) ==
    /\ pc[u] = "cancelling"
    /\ outgoing' = [outgoing EXCEPT ![u] = None]
    /\ Goto(u, "accepted", None)
    /\ UNCHANGED <<incoming, active, accepted, ended, mic, rings, alive, room, msgs>>

\* Hang Up, in the row and in the call bar
ClickHangUp(u) ==
    /\ pc[u] = "frame" /\ active[u] # None
    /\ Send(u, active[u], "end")
    /\ Goto(u, "hanging", None)
    /\ UNCHANGED <<stateVars, mic, rings, alive, room>>

HungUp(u) ==
    /\ pc[u] = "hanging"
    /\ StopCallMedia(u)
    /\ Goto(u, "accepted", None)
    /\ UNCHANGED <<outgoing, incoming, accepted, ended, rings, alive, msgs>>

\* The incoming-call window: Join and Decline
ClickJoin(u) ==
    /\ pc[u] = "frame" /\ incoming[u] # None
    /\ Send(u, incoming[u], "accept")
    /\ StartCallMedia(u, incoming[u])
    /\ Goto(u, "joining", incoming[u])
    /\ UNCHANGED <<stateVars, rings, alive>>

CallJoined(u) ==
    /\ pc[u] = "joining"
    /\ active' = [active EXCEPT ![u] = local[u]]
    /\ incoming' = [incoming EXCEPT ![u] = None]
    /\ Goto(u, "accepted", None)
    /\ UNCHANGED <<outgoing, accepted, ended, mic, rings, alive, room, msgs>>

ClickDecline(u) ==
    /\ pc[u] = "frame" /\ incoming[u] # None
    /\ Send(u, incoming[u], "decline")
    /\ Goto(u, "declining", None)
    /\ UNCHANGED <<stateVars, mic, rings, alive, room>>

CallDeclined(u) ==
    /\ pc[u] = "declining"
    /\ incoming' = [incoming EXCEPT ![u] = None]
    /\ Goto(u, "accepted", None)
    /\ UNCHANGED <<outgoing, active, accepted, ended, mic, rings, alive, room, msgs>>

\* The network process exits or loses the gateway: the gateway takes the user
\* out of its voice room, and nothing reaches the GUI any more.
ChildExit(u) ==
    /\ \A v \in Users : alive[v]      \* bound: one process exits
    /\ alive' = [alive EXCEPT ![u] = FALSE]
    /\ room' = [room EXCEPT ![u] = None]
    /\ msgs' = [p \in Pairs |-> IF p[2] = u THEN <<>> ELSE msgs[p]]
    /\ UNCHANGED <<stateVars, guiVars>>

-----------------------------------------------------------------------------
Reader(u, v) == ReadInvite(u, v) \/ ReadAccept(u, v) \/ ReadDecline(u, v) \/ ReadEnd(u, v)

\* The steps of the loop that need no click and no timer
Loop(u) ==
    \/ TakeAccepted(u) \/ CallStarted(u) \/ TakeEnded(u) \/ TearDown(u) \/ NoTimeout(u)
    \/ NoClick(u) \/ Ringing(u) \/ RingCancelled(u) \/ HungUp(u) \/ CallJoined(u) \/ CallDeclined(u)

Clicks(u) ==
    \/ ClickCancel(u) \/ ClickHangUp(u) \/ ClickJoin(u) \/ ClickDecline(u)
    \/ \E v \in Users \ {u} : ClickCall(u, v)

Next ==
    \E u \in Users :
        \/ Loop(u) \/ Clicks(u) \/ OutgoingTimeout(u) \/ IncomingTimeout(u) \/ ChildExit(u)
        \/ \E v \in Users \ {u} : Reader(u, v)

Spec == Init /\ [][Next]_vars

\* The loop runs, the reader thread takes what arrives, and time passes: a ring
\* that is looked at again and again is one day too old.
FairSpec ==
    /\ Spec
    /\ \A u \in Users : /\ WF_vars(Loop(u))
                        /\ SF_vars(OutgoingTimeout(u)) /\ SF_vars(IncomingTimeout(u))
    /\ \A p \in Pairs : WF_vars(Reader(p[1], p[2]))

-----------------------------------------------------------------------------
(* The voice room the gateway has the user in is the GUI's active channel  *)
(* whenever the loop is between two sections, whatever the order of        *)
(* accepted rings, hangups and answers: JoinVoice and LeaveVoice never get *)
(* out of step with active_voice_channel.                                  *)
RoomMatchesCall ==
    \A u \in Users : alive[u] /\ pc[u] \notin {"starting", "joining"} => room[u] = active[u]

(* No ring stays for ever on either side, even if the CallAccept, the      *)
(* CallDecline or the CallEnd was lost with the other party's connection.  *)
RingsEnd ==
    \A u \in Users : /\ outgoing[u] # None ~> outgoing[u] = None
                     /\ incoming[u] # None ~> incoming[u] = None

(* A CallEnd that is under way to somebody in that call ends the call, or  *)
(* the call ends before.                                                   *)
HangUpReaches ==
    \A p \in Pairs :
        (alive[p[2]] /\ active[p[2]] = {p[1], p[2]} /\ "end" \in {msgs[p][i] : i \in 1 .. Len(msgs[p])})
        ~> (~alive[p[2]] \/ active[p[2]] # {p[1], p[2]})

(* start_call_media is "called only once a call is actually established":  *)
(* the microphone of a running network process is open only in a call.     *)
MicOnlyInCall ==
    \A u \in Users : alive[u] /\ mic[u] /\ pc[u] \in Sections => active[u] # None
==============================================================================
