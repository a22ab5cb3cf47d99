------------------------------ MODULE VoiceRooms ------------------------------
(***************************************************************************)
(* The gateway's sessions, voice rooms and chat subscriptions: on_hello,   *)
(* on_join_voice, on_leave_voice, on_join_channel and the WebSocket close  *)
(* handler.  All of them run on the one uWebSockets loop thread, so each   *)
(* handler is one step; the requests of different sockets interleave.      *)
(*                                                                         *)
(* A request is handled when it arrives: the requests of one socket arrive *)
(* in order, and nothing but a socket's own requests and its close changes *)
(* its session, so the time a request spends in flight is not observable.  *)
(* Envelopes the gateway sends are queued per socket, in order, in inbox.  *)
(***************************************************************************)
EXTENDS Integers, Sequences

CONSTANTS Sockets,      \* WebSocket connections, one per client process
          Users,        \* user ids
          UserOf,       \* socket -> the user its client authenticates as
          Rooms,        \* channel ids used as voice rooms
          Members,      \* user -> its channel ids in the membership table at first
          NoRoom,       \* the empty channel id
          MaxSsrc       \* bound on next_ssrc (2^32 - 1 in the build)

ASSUME ConstantsAssumption ==
    /\ UserOf \in [Sockets -> Users]
    /\ NoRoom \notin Rooms
    /\ Members \in [Users -> SUBSET Rooms]
    /\ MaxSsrc \in Nat

VARIABLES
    conn,           \* socket -> "open" (.open only logs) or "closed"
    sess,           \* socket -> Session: authenticated, current_voice_room_id
    registry,       \* SessionRegistry: the session ids registered
    voice_rooms,    \* channel id -> the room's VoiceRoomPeers
    next_ssrc,      \* the SSRC issuer
    user_channels,  \* the membership table: user -> channel ids
    topics,         \* socket -> channel ids whose chat it is subscribed to
    inbox           \* socket -> voice envelopes sent to it and not yet read

serverVars == <<conn, sess, registry, voice_rooms, next_ssrc, user_channels,
                topics, inbox>>

Channels == Rooms \cup {NoRoom}
Ssrcs == 1 .. MaxSsrc

\* One VoiceRoomPeer.  make_session_id draws 64 random bits once per socket, so
\* the socket stands for its session id.  A room lists its peers in the order
\* they joined, which is the order of their SSRCs: the set determines the list.
Entries == [sid : Sockets, ssrc : Ssrcs]
Peers == [user : Users, ssrc : Ssrcs]

Peer(e) == [user |-> UserOf[e.sid], ssrc |-> e.ssrc]

\* VoicePeerJoined and VoicePeerLeft.  Joined frames sent back to back (the
\* replay of a roster) are one message: nothing else arrives between them.
Joined(c, es) == [kind |-> "joined", channel |-> c, peers |-> {Peer(e) : e \in es}]
Left(c, s) == [kind |-> "left", channel |-> c, user |-> UserOf[s]]

Messages == [kind : {"joined"}, channel : Channels, peers : SUBSET Peers]
            \cup [kind : {"left"}, channel : Channels, user : Users]

TypeOK ==
    /\ conn \in [Sockets -> {"open", "closed"}]
    /\ sess \in [Sockets -> [authenticated : BOOLEAN, room : Channels]]
    /\ registry \in SUBSET Sockets
    /\ voice_rooms \in [Channels -> SUBSET Entries]
    /\ next_ssrc \in 1 .. MaxSsrc + 1
    /\ user_channels \in [Users -> SUBSET Rooms]
    /\ topics \in [Sockets -> SUBSET Rooms]
    /\ inbox \in [Sockets -> Seq(Messages)]

Init ==
    /\ conn = [s \in Sockets |-> "open"]
    /\ sess = [s \in Sockets |-> [authenticated |-> FALSE, room |-> NoRoom]]
    /\ registry = {}
    /\ voice_rooms = [c \in Channels |-> {}]
    /\ next_ssrc = 1
    /\ user_channels = Members
    /\ topics = [s \in Sockets |-> {}]
    /\ inbox = [s \in Sockets |-> <<>>]

-----------------------------------------------------------------------------
\* Helpers of the handlers.

\* Wrong variants of the helpers below, to see the properties fail: lookups
\* that find nobody, a leave that removes nothing or tells nobody, and a room
\* switch that unsubscribes from the old topic last.
LookupNobody(es) == {}
RemoveNobody(s, c) == voice_rooms
NotifyNobody(s, c, named) == inbox
UnsubscribeLast(s, old, new) == (topics[s] \cup {new}) \ {old}

\* SessionRegistry::lookup of each peer of a list: the sockets still there.
Lookup(es) == {e.sid : e \in es} \cap registry

\* send_voice_peer_joined / send_voice_peer_left to each of a set of sockets
Send(box, to, m) == [t \in Sockets |-> IF t \in to THEN Append(box[t], m) ELSE box[t]]

\* remove_from_voice_room.  Channel NoRoom has no peers, so that leaving it is
\* the early return of leave_voice_room.
RemoveFromVoiceRoom(s, c) == [voice_rooms EXCEPT ![c] = {e \in @ : e.sid # s}]

\* The VoicePeerLeft a leave of c sends.  The callers that leave the session's
\* current room pass current_voice_room_id itself by reference and it is
\* cleared before the sends: those name no channel.
NotifyLeft(s, c, named) == Send(inbox, Lookup(RemoveFromVoiceRoom(s, c)[c]), Left(named, s))

\* The chat topics after on_join_voice: leave unsubscribes, then join subscribes.
Resubscribed(s, old, new) == (topics[s] \ {old}) \cup {new}

-----------------------------------------------------------------------------
\* Wrong variant: the session is marked authenticated and not registered.
OnHelloUnregistered(s) ==
    /\ conn[s] = "open" /\ ~sess[s].authenticated
    /\ sess' = [sess EXCEPT ![s].authenticated = TRUE]
    /\ topics' = [topics EXCEPT ![s] = user_channels[UserOf[s]]]
    /\ UNCHANGED <<conn, registry, voice_rooms, next_ssrc, user_channels, inbox>>

\* on_hello.  A client says Hello once.  A failed query of the memberships
\* yields the empty list and the session goes on without it.  A rejected Hello
\* closes the socket: OnClose.
OnHello(s) ==
    /\ conn[s] = "open" /\ ~sess[s].authenticated
    /\ sess' = [sess EXCEPT ![s].authenticated = TRUE]
    /\ registry' = registry \cup {s}
    /\ \E chans \in {user_channels[UserOf[s]], {}} :
           topics' = [topics EXCEPT ![s] = @ \cup chans]
    /\ UNCHANGED <<conn, voice_rooms, next_ssrc, user_channels, inbox>>

\* on_join_voice: leave the current room, if any; subscribe to the chat topic;
\* take an SSRC; snapshot the room and enter it; send self to the joiner, the
\* snapshot to the joiner, and self to every peer of the snapshot.
OnJoinVoice(s, c) ==
    LET left == RemoveFromVoiceRoom(s, sess[s].room)
        told == NotifyLeft(s, sess[s].room, NoRoom)
        existing == left[c]
        self == [sid |-> s, ssrc |-> next_ssrc]
        replayed == Send(Send(told, {s}, Joined(c, {self})),
                         IF existing = {} THEN {} ELSE {s}, Joined(c, existing))
    IN  /\ conn[s] = "open" /\ sess[s].authenticated
        /\ next_ssrc <= MaxSsrc
        /\ topics' = [topics EXCEPT ![s] = Resubscribed(s, sess[s].room, c)]
        /\ sess' = [sess EXCEPT ![s].room = c]
        /\ next_ssrc' = next_ssrc + 1
        /\ voice_rooms' = [left EXCEPT ![c] = existing \cup {self}]
        /\ inbox' = Send(replayed, Lookup(existing), Joined(c, {self}))
        /\ UNCHANGED <<conn, registry, user_channels>>

\* on_leave_voice
OnLeaveVoice(s, c) ==
    /\ conn[s] = "open"
    /\ topics' = [topics EXCEPT ![s] = @ \ {c}]
    /\ voice_rooms' = RemoveFromVoiceRoom(s, c)
    /\ sess' = [sess EXCEPT ![s].room = NoRoom]
    /\ inbox' = NotifyLeft(s, c, c)
    /\ UNCHANGED <<conn, registry, next_ssrc, user_channels>>

\* .close, on a disconnect, an idle timeout or a rejected Hello: the room is
\* left first, then the session is unregistered; uWS drops the subscriptions
\* and whatever was still queued for the socket.
OnClose(s) ==
    /\ conn[s] = "open"
    /\ conn' = [conn EXCEPT ![s] = "closed"]
    /\ voice_rooms' = RemoveFromVoiceRoom(s, sess[s].room)
    /\ sess' = [sess EXCEPT ![s].room = NoRoom]
    /\ registry' = registry \ {s}
    /\ topics' = [topics EXCEPT ![s] = {}]
    /\ inbox' = [NotifyLeft(s, sess[s].room, NoRoom) EXCEPT ![s] = <<>>]
    /\ UNCHANGED <<next_ssrc, user_channels>>

\* on_join_channel.  Two inserts: if the second one reports an error, the row
\* may or may not be there, and the socket is not subscribed.
OnJoinChannel(s, c) ==
    /\ conn[s] = "open" /\ sess[s].authenticated
    /\ \/ /\ user_channels' = [user_channels EXCEPT ![UserOf[s]] = @ \cup {c}]
          /\ topics' \in {[topics EXCEPT ![s] = @ \cup {c}], topics}
       \/ UNCHANGED <<user_channels, topics>>
    /\ UNCHANGED <<conn, sess, registry, voice_rooms, next_ssrc, inbox>>

\* The client reads the oldest envelope.
Deliver(s) ==
    /\ inbox[s] # <<>>
    /\ inbox' = [inbox EXCEPT ![s] = Tail(@)]
    /\ UNCHANGED <<conn, sess, registry, voice_rooms, next_ssrc, user_channels, topics>>

\* A client leaves the room it is in: it names the channel it joined last.
Next ==
    \E s \in Sockets :
        \/ OnHello(s) \/ OnClose(s) \/ Deliver(s)
        \/ \E c \in Rooms : OnJoinVoice(s, c) \/ OnJoinChannel(s, c)
        \/ sess[s].room # NoRoom /\ OnLeaveVoice(s, sess[s].room)

Spec == Init /\ [][Next]_serverVars

-----------------------------------------------------------------------------
(* A session id resolves to a socket exactly while that socket is open and *)
(* authenticated: lookup() never hands out a closed WebSocket*.            *)
RegistryLive == registry = {s \in Sockets : conn[s] = "open" /\ sess[s].authenticated}

(* The room table and the sessions agree: every entry of a room belongs to *)
(* a live session that is in that room (no ghost after a disconnect or a   *)
(* switch), and every session in a room has exactly one entry there.       *)
NoGhosts ==
    \A c \in Channels : \A e \in voice_rooms[c] :
        c # NoRoom /\ sess[e.sid].room = c /\ e.sid \in registry

InRoomListed ==
    \A s \in Sockets : sess[s].room # NoRoom =>
        \E e \in voice_rooms[sess[s].room] : e.sid = s

ListedOnce ==
    \A c, d \in Channels : \A e \in voice_rooms[c], f \in voice_rooms[d] :
        e.sid = f.sid \/ e.ssrc = f.ssrc => e = f

RoomsMatchSessions == NoGhosts /\ InRoomListed /\ ListedOnce

(* No SSRC is issued twice: those in the rooms are all in the past.        *)
SsrcIssued == \A c \in Channels : \A e \in voice_rooms[c] : e.ssrc < next_ssrc

(* Whoever is in a voice room receives that channel's chat, which carries  *)
(* the ICE session descriptions, whatever was joined and left before.      *)
InRoomHearsChat ==
    \A s \in Sockets : sess[s].room # NoRoom => s \in registry /\ sess[s].room \in topics[s]

IndInv == TypeOK /\ RegistryLive /\ RoomsMatchSessions /\ SsrcIssued /\ InRoomHearsChat
==============================================================================
