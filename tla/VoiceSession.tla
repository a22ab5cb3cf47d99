----------------------------- MODULE VoiceSession -----------------------------
(***************************************************************************)
(* The gateway together with its clients: each socket is one network       *)
(* process, whose SignalingClient says Hello, joins OSN_ROOM and waits for *)
(* its own VoicePeerJoined (join_voice), then lets a reader thread keep    *)
(* m_peers current (run_reader).  Once that runs, the GUI may send further *)
(* JoinVoice and LeaveVoice requests through the IPC bridge; the reader    *)
(* thread is not told of them.                                             *)
(***************************************************************************)
EXTENDS VoiceRooms

CONSTANTS StartRoom,  \* the channel a client joins at startup, OSN_ROOM
          WithGui     \* sockets of clients with a GUI (OSN_IPC_FD is set)

ASSUME ClientAssumption == StartRoom \in Rooms /\ WithGui \subseteq Sockets

VARIABLES
    phase,      \* socket -> what its client does: "start", "joining", "reading"
    peers,      \* socket -> m_peers
    switched    \* sockets whose GUI has left the first room (history variable)

clientVars == <<phase, peers, switched>>
vars == <<serverVars, clientVars>>

SessionInit ==
    /\ Init
    /\ phase = [s \in Sockets |-> "start"]
    /\ peers = [s \in Sockets |-> {}]
    /\ switched = {}

-----------------------------------------------------------------------------
\* connect_and_hello
Hello(s) == OnHello(s) /\ UNCHANGED clientVars

\* join_voice sends the request ...
JoinVoice(s) ==
    /\ phase[s] = "start"
    /\ OnJoinVoice(s, StartRoom)
    /\ phase' = [phase EXCEPT ![s] = "joining"]
    /\ UNCHANGED <<peers, switched>>

\* Peers that come with one VoicePeerJoined message, by run_reader's rule: not
\* the client's own user, and of two entries of one user the later one.
Others(s, ps) ==
    {p \in ps : p.user # UserOf[s] /\ \A q \in ps : q.user = p.user => q.ssrc <= p.ssrc}

\* ... and reads until its own entry arrives; the others it met are m_peers.
ReadSelf(s) ==
    /\ phase[s] = "joining"
    /\ Deliver(s)
    /\ LET m == Head(inbox[s]) IN
       /\ m.kind = "joined"
       /\ phase' = [phase EXCEPT ![s] = IF \E p \in m.peers : p.user = UserOf[s]
                                        THEN "reading" ELSE @]
       /\ peers' = [peers EXCEPT ![s] = @ \cup Others(s, m.peers)]
    /\ UNCHANGED switched

\* run_reader, kVoicePeerJoined: replace by user_id
ReadJoined(s) ==
    /\ phase[s] = "reading"
    /\ Deliver(s)
    /\ Head(inbox[s]).kind = "joined"
    /\ LET new == Others(s, Head(inbox[s]).peers)
           old == {p \in peers[s] : \A q \in new : q.user # p.user}
       IN  peers' = [peers EXCEPT ![s] = old \cup new]
    /\ UNCHANGED <<phase, switched>>

\* run_reader, kVoicePeerLeft: erase by user_id, whatever the channel
ReadLeft(s) ==
    /\ phase[s] = "reading"
    /\ Deliver(s)
    /\ Head(inbox[s]).kind = "left"
    /\ peers' = [peers EXCEPT ![s] = {p \in @ : p.user # Head(inbox[s]).user}]
    /\ UNCHANGED <<phase, switched>>

\* The IPC bridge forwards the GUI's JoinVoice and LeaveVoice.
GuiJoinVoice(s, c) ==
    /\ s \in WithGui /\ phase[s] = "reading"
    /\ OnJoinVoice(s, c)
    /\ switched' = switched \cup {s}
    /\ UNCHANGED <<phase, peers>>

GuiLeaveVoice(s) ==
    /\ s \in WithGui /\ phase[s] = "reading"
    /\ sess[s].room # NoRoom
    /\ OnLeaveVoice(s, sess[s].room)
    /\ switched' = switched \cup {s}
    /\ UNCHANGED <<phase, peers>>

\* The process ends, the network drops it, or the gateway rejects its Hello.
Disconnect(s) == OnClose(s) /\ UNCHANGED clientVars

SessionNext ==
    \E s \in Sockets :
        \/ Hello(s) \/ JoinVoice(s) \/ Disconnect(s)
        \/ ReadSelf(s) \/ ReadJoined(s) \/ ReadLeft(s)
        \/ GuiLeaveVoice(s)
        \/ \E c \in Rooms : GuiJoinVoice(s, c)

SessionSpec == SessionInit /\ [][SessionNext]_vars

-----------------------------------------------------------------------------
\* A user on one device only: m_peers is kept by user_id, so that with two
\* devices the departure of one hides the other.
OneDevice(u) == \A s, t \in Sockets : UserOf[s] = u /\ UserOf[t] = u => s = t

InRoomOf(s) == {e \in voice_rooms[sess[s].room] : OneDevice(UserOf[e.sid]) /\ e.sid # s}
UpToDate(s) == conn[s] = "open" /\ phase[s] = "reading" /\ inbox[s] = <<>>

(* Once a client has read its envelopes it knows everybody in its room, by *)
(* the SSRC of the room table: no interleaving of joins, leaves, room      *)
(* switches and disconnects makes m_peers miss someone or keep an SSRC of  *)
(* an earlier join.                                                        *)
NoMissingPeer ==
    \A s \in Sockets : UpToDate(s) =>
        \A e \in InRoomOf(s) :
            UserOf[e.sid] # UserOf[s] => {p \in peers[s] : p.user = UserOf[e.sid]} = {Peer(e)}

(* A client that has stayed in the room it started in lists nobody else:   *)
(* every peer it shows is in the room.                                     *)
NoStalePeer ==
    \A s \in Sockets \ switched : UpToDate(s) =>
        \A p \in peers[s] : OneDevice(p.user) =>
            \E e \in voice_rooms[sess[s].room] : Peer(e) = p

==============================================================================
