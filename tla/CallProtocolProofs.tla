-------------------------- MODULE CallProtocolProofs --------------------------
(***************************************************************************)
(* The gateway's voice room follows the GUI's call state, for any number   *)
(* of users and rings.  JoinVoice is sent before active_voice_channel is   *)
(* set, with the mutex released in between: what ties the two together     *)
(* there is the channel the loop keeps in a local variable.                *)
(***************************************************************************)
EXTENDS CallProtocol, TLAPS

\* The functions the argument is about, over the users.
Shape ==
    /\ DOMAIN pc = Users /\ DOMAIN local = Users /\ DOMAIN active = Users /\ DOMAIN room = Users
    /\ pc = [u \in Users |-> pc[u]] /\ local = [u \in Users |-> local[u]]
    /\ active = [u \in Users |-> active[u]] /\ room = [u \in Users |-> room[u]]
    /\ alive = [u \in Users |-> alive[u]] /\ DOMAIN alive = Users

Between == {"starting", "joining"}

(* While JoinVoice has been sent and the channel not yet recorded, the     *)
(* room is the one the loop is about to record.                            *)
RoomIsLocal == \A u \in Users : alive[u] /\ pc[u] \in Between => room[u] = local[u]

CallInv == Shape /\ RoomMatchesCall /\ RoomIsLocal

\* What a step leaves the invariant: one user's place, and a room that goes
\* with it.
Follows(u) ==
    alive'[u] => room'[u] = IF pc'[u] \in Between THEN local'[u] ELSE active'[u]

\* A step of one user's GUI loop moves only that user's part.
Only(u) ==
    /\ UNCHANGED alive
    /\ \A v \in Users \ {u} : /\ pc'[v] = pc[v] /\ local'[v] = local[v]
                              /\ active'[v] = active[v] /\ room'[v] = room[v]

LEMMA OnlyKeeps ==
    ASSUME CallInv, NEW u \in Users, Shape', Only(u), Follows(u)
    PROVE  CallInv'
BY DEF CallInv, Only, Follows, RoomMatchesCall, RoomIsLocal, Between

\* Steps that touch none of the five.
LEMMA UntouchedKeeps ==
    ASSUME CallInv, UNCHANGED <<pc, local, active, room, alive>>
    PROVE  CallInv'
BY DEF CallInv, Shape, RoomMatchesCall, RoomIsLocal, Between

LEMMA InitCall == Init => CallInv
BY DEF Init, CallInv, Shape, RoomMatchesCall, RoomIsLocal, Between

LEMMA LoopKeeps == ASSUME CallInv, NEW u \in Users, Loop(u) PROVE CallInv'
<1> USE DEF CallInv, Shape, Goto, Only, Follows, Between
<1>1. CASE TakeAccepted(u)
  <2>1. Shape' /\ Only(u) BY <1>1 DEF TakeAccepted, StartCallMedia, VoiceRoom
  <2>2. Follows(u) BY <1>1 DEF TakeAccepted, StartCallMedia, VoiceRoom, RoomMatchesCall
  <2> QED BY <2>1, <2>2, OnlyKeeps
<1>2. CASE CallStarted(u)
  <2>1. Shape' /\ Only(u) BY <1>2 DEF CallStarted
  <2>2. Follows(u) BY <1>2 DEF CallStarted, RoomIsLocal
  <2> QED BY <2>1, <2>2, OnlyKeeps
<1>3. CASE TakeEnded(u)
  <2>1. Shape' /\ Only(u) BY <1>3 DEF TakeEnded
  <2>2. Follows(u) BY <1>3 DEF TakeEnded, RoomMatchesCall
  <2> QED BY <2>1, <2>2, OnlyKeeps
<1>4. CASE TearDown(u)
  <2>1. Shape' /\ Only(u) BY <1>4 DEF TearDown, StopCallMedia, VoiceRoom
  <2>2. Follows(u) BY <1>4 DEF TearDown, StopCallMedia, VoiceRoom, RoomMatchesCall
  <2> QED BY <2>1, <2>2, OnlyKeeps
<1>5. CASE NoTimeout(u) \/ NoClick(u)
  <2>1. Shape' /\ Only(u) BY <1>5 DEF NoTimeout, NoClick, stateVars
  <2>2. Follows(u) BY <1>5 DEF NoTimeout, NoClick, stateVars, RoomMatchesCall
  <2> QED BY <2>1, <2>2, OnlyKeeps
<1>6. CASE Ringing(u) \/ RingCancelled(u) \/ CallDeclined(u)
  <2>1. Shape' /\ Only(u) BY <1>6 DEF Ringing, RingCancelled, CallDeclined
  <2>2. Follows(u) BY <1>6 DEF Ringing, RingCancelled, CallDeclined, RoomMatchesCall
  <2> QED BY <2>1, <2>2, OnlyKeeps
<1>7. CASE HungUp(u)
  <2>1. Shape' /\ Only(u) BY <1>7 DEF HungUp, StopCallMedia, VoiceRoom
  <2>2. Follows(u) BY <1>7 DEF HungUp, StopCallMedia, VoiceRoom, RoomMatchesCall
  <2> QED BY <2>1, <2>2, OnlyKeeps
<1>8. CASE CallJoined(u)
  <2>1. Shape' /\ Only(u) BY <1>8 DEF CallJoined
  <2>2. Follows(u) BY <1>8 DEF CallJoined, RoomIsLocal
  <2> QED BY <2>1, <2>2, OnlyKeeps
<1> QED BY <1>1, <1>2, <1>3, <1>4, <1>5, <1>6, <1>7, <1>8 DEF Loop

LEMMA ClicksKeep == ASSUME CallInv, NEW u \in Users, Clicks(u) PROVE CallInv'
<1> USE DEF CallInv, Shape, Goto, Only, Follows, Between
<1>1. CASE ClickCancel(u) \/ ClickHangUp(u) \/ ClickDecline(u)
  <2>1. Shape' /\ Only(u) BY <1>1 DEF ClickCancel, ClickHangUp, ClickDecline, stateVars
  <2>2. Follows(u) BY <1>1 DEF ClickCancel, ClickHangUp, ClickDecline, stateVars, RoomMatchesCall
  <2> QED BY <2>1, <2>2, OnlyKeeps
<1>2. CASE ClickJoin(u)
  <2>1. Shape' /\ Only(u) BY <1>2 DEF ClickJoin, StartCallMedia, VoiceRoom, stateVars
  <2>2. Follows(u) BY <1>2 DEF ClickJoin, StartCallMedia, VoiceRoom, stateVars
  <2> QED BY <2>1, <2>2, OnlyKeeps
<1>3. ASSUME NEW v \in Users \ {u}, ClickCall(u, v) PROVE CallInv'
  <2>1. Shape' /\ Only(u) BY <1>3 DEF ClickCall, stateVars
  <2>2. Follows(u) BY <1>3 DEF ClickCall, stateVars, RoomMatchesCall
  <2> QED BY <2>1, <2>2, OnlyKeeps
<1> QED BY <1>1, <1>2, <1>3 DEF Clicks

LEMMA TimeoutsKeep ==
    ASSUME CallInv, NEW u \in Users, OutgoingTimeout(u) \/ IncomingTimeout(u) PROVE CallInv'
<1> USE DEF CallInv, Shape, Goto, Only, Follows, Between
<1>1. Shape' /\ Only(u) BY DEF OutgoingTimeout, IncomingTimeout
<1>2. Follows(u) BY DEF OutgoingTimeout, IncomingTimeout, RoomMatchesCall
<1> QED BY <1>1, <1>2, OnlyKeeps

\* The reader thread changes rings and flags only.
LEMMA ReaderKeeps ==
    ASSUME CallInv, NEW u \in Users, NEW v \in Users, Reader(u, v) PROVE CallInv'
<1>1. UNCHANGED <<pc, local, active, room, alive>>
    BY DEF Reader, ReadInvite, ReadAccept, ReadDecline, ReadEnd, Receive, guiVars
<1> QED BY <1>1, UntouchedKeeps

LEMMA ExitKeeps == ASSUME CallInv, NEW u \in Users, ChildExit(u) PROVE CallInv'
<1>1. Shape' BY DEF CallInv, Shape, ChildExit, stateVars, guiVars
<1>2. \A v \in Users : alive'[v] => /\ alive[v] /\ room'[v] = room[v]
                                    /\ UNCHANGED <<pc, local, active>>
    BY DEF CallInv, Shape, ChildExit, stateVars, guiVars
<1> QED BY <1>1, <1>2 DEF CallInv, RoomMatchesCall, RoomIsLocal, Between

LEMMA StepCall == CallInv /\ [Next]_vars => CallInv'
<1> SUFFICES ASSUME CallInv, [Next]_vars PROVE CallInv'
    OBVIOUS
<1>1. CASE Next
    BY <1>1, LoopKeeps, ClicksKeep, TimeoutsKeep, ReaderKeeps, ExitKeeps DEF Next
<1>2. CASE UNCHANGED vars
    BY <1>2, UntouchedKeeps DEF vars, stateVars, guiVars
<1> QED BY <1>1, <1>2

(* For any number of users, whatever the readers, timers, clicks and       *)
(* exiting processes interleave: between two sections of the GUI loop the  *)
(* gateway has a user with a running network process in the voice room of  *)
(* active_voice_channel, and in none when that is empty.                   *)
THEOREM RoomMatchesCallAlways == Spec => []RoomMatchesCall
<1>1. CallInv => RoomMatchesCall BY DEF CallInv
<1> QED BY <1>1, InitCall, StepCall, PTL DEF Spec
==============================================================================
