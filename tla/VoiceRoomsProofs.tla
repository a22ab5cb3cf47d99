--------------------------- MODULE VoiceRoomsProofs ---------------------------
(***************************************************************************)
(* Proofs about the gateway's rooms and about the composed specification.  *)
(* IndInv is inductive: RoomsMatchSessions alone is not, because a new     *)
(* SSRC is distinct from those in the rooms only if they are all below     *)
(* next_ssrc, and the sids in the rooms are registered only if the         *)
(* registry follows the sessions.  PeerInv, about the clients' peer lists, *)
(* speaks of what a client will show once it has read its inbox.           *)
(***************************************************************************)
EXTENDS VoiceSession, SequenceTheorems, TLAPS

USE DEF Channels

(* What send_envelope puts into an inbox is a message, so sending keeps    *)
(* the inboxes well formed.                                                *)
LEMMA SendType ==
    ASSUME NEW box \in [Sockets -> Seq(Messages)], NEW to, NEW m \in Messages
    PROVE  Send(box, to, m) \in [Sockets -> Seq(Messages)]
  <1>1. ASSUME NEW t \in Sockets PROVE Append(box[t], m) \in Seq(Messages)
    BY AppendProperties
  <1> QED BY <1>1 DEF Send

(* The two envelopes the gateway builds are messages.                      *)
LEMMA EnvelopeType ==
    ASSUME ConstantsAssumption, NEW c \in Channels
    PROVE  /\ \A es \in SUBSET Entries : Joined(c, es) \in Messages
           /\ \A s \in Sockets : Left(c, s) \in Messages
  <1>1. ASSUME NEW es \in SUBSET Entries PROVE Joined(c, es) \in Messages
    <2>1. ASSUME NEW e \in es PROVE Peer(e) \in Peers
      BY DEF Peer, Peers, Entries, ConstantsAssumption
    <2>2. {Peer(e) : e \in es} \in SUBSET Peers
      BY <2>1
    <2> QED BY <2>2 DEF Joined, Messages
  <1>2. ASSUME NEW s \in Sockets PROVE Left(c, s) \in Messages
    BY DEF Left, Messages, ConstantsAssumption
  <1> QED BY <1>1, <1>2

(* remove_from_voice_room keeps the table well formed, and the inboxes     *)
(* remain so when the remaining peers are told.                            *)
LEMMA LeaveType ==
    ASSUME ConstantsAssumption, TypeOK, NEW s \in Sockets, NEW c \in Channels, NEW n \in Channels
    PROVE  /\ RemoveFromVoiceRoom(s, c) \in [Channels -> SUBSET Entries]
           /\ NotifyLeft(s, c, n) \in [Sockets -> Seq(Messages)]
  <1>1. RemoveFromVoiceRoom(s, c) \in [Channels -> SUBSET Entries]
    BY DEF TypeOK, RemoveFromVoiceRoom
  <1>2. Left(n, s) \in Messages
    BY EnvelopeType
  <1>3. NotifyLeft(s, c, n) \in [Sockets -> Seq(Messages)]
    BY <1>2, SendType DEF NotifyLeft, TypeOK
  <1> QED BY <1>1, <1>3

(* The initial state satisfies the inductive invariant.                    *)
LEMMA InvInit == ConstantsAssumption /\ Init => IndInv
  <1> SUFFICES ASSUME ConstantsAssumption, Init PROVE IndInv
    OBVIOUS
  <1>1. TypeOK
    BY DEF Init, TypeOK, ConstantsAssumption
  <1>2. RegistryLive /\ RoomsMatchSessions /\ SsrcIssued /\ InRoomHearsChat
    BY DEF Init, RegistryLive, RoomsMatchSessions, NoGhosts, InRoomListed, ListedOnce,
           SsrcIssued, InRoomHearsChat
  <1> QED BY <1>1, <1>2 DEF IndInv

(* on_join_voice preserves it: the joiner's only entry is the new one.     *)
LEMMA InvJoinVoice ==
    ASSUME ConstantsAssumption, IndInv, NEW s \in Sockets, NEW c \in Rooms, OnJoinVoice(s, c)
    PROVE  IndInv'
  <1> USE DEF IndInv
  <1> DEFINE old == sess[s].room
             left == RemoveFromVoiceRoom(s, old)
             self == [sid |-> s, ssrc |-> next_ssrc]
  <1>1. old \in Channels /\ c # NoRoom /\ self \in Entries /\ next_ssrc \in Ssrcs
    BY DEF TypeOK, OnJoinVoice, Entries, Ssrcs, ConstantsAssumption
  <1>2. left \in [Channels -> SUBSET Entries] /\ NotifyLeft(s, old, NoRoom) \in [Sockets -> Seq(Messages)]
    BY <1>1, LeaveType
  <1>3. Joined(c, {self}) \in Messages /\ Joined(c, left[c]) \in Messages
    BY <1>1, <1>2, EnvelopeType
  <1>4. inbox' \in [Sockets -> Seq(Messages)]
    BY <1>2, <1>3, SendType DEF OnJoinVoice
  <1>5. voice_rooms' = [left EXCEPT ![c] = left[c] \cup {self}]
    BY DEF OnJoinVoice
  <1>6. voice_rooms' \in [Channels -> SUBSET Entries]
    BY <1>1, <1>2, <1>5
  <1>7. TypeOK'
    <2>1. topics' \in [Sockets -> SUBSET Rooms]
      BY DEF OnJoinVoice, TypeOK, Resubscribed
    <2>2. sess' \in [Sockets -> [authenticated : BOOLEAN, room : Channels]]
      BY DEF OnJoinVoice, TypeOK
    <2>3. next_ssrc' \in 1 .. MaxSsrc + 1
      BY DEF OnJoinVoice, TypeOK, ConstantsAssumption
    <2>4. UNCHANGED <<conn, registry, user_channels>>
      BY DEF OnJoinVoice
    <2> QED BY <1>4, <1>6, <2>1, <2>2, <2>3, <2>4 DEF TypeOK
  <1>8. \A d \in Channels : \A e \in left[d] : e \in voice_rooms[d] /\ e.sid # s
    \* the entries of s were all in its old room
    BY <1>1 DEF TypeOK, RemoveFromVoiceRoom, RoomsMatchSessions, NoGhosts
  <1>9. \A d \in Channels : \A e \in voice_rooms'[d] : e \in left[d] \/ (d = c /\ e = self)
    BY <1>1, <1>2, <1>5
  <1>10. \A d \in Channels : \A e \in left[d] : e \in voice_rooms'[d]
    BY <1>1, <1>2, <1>5
  <1>11. \A t \in Sockets : sess'[t].room = (IF t = s THEN c ELSE sess[t].room)
                            /\ sess'[t].authenticated = sess[t].authenticated
    BY DEF OnJoinVoice, TypeOK
  <1>12. RegistryLive'
    BY <1>11 DEF RegistryLive, OnJoinVoice
  <1>13. s \in registry
    BY DEF RegistryLive, OnJoinVoice
  <1>14. NoGhosts'
    <2> SUFFICES ASSUME NEW d \in Channels, NEW e \in voice_rooms'[d]
                 PROVE  d # NoRoom /\ sess'[e.sid].room = d /\ e.sid \in registry'
      BY DEF NoGhosts
    <2>1. CASE e \in left[d]
      <3>1. e \in voice_rooms[d] /\ e.sid # s /\ e.sid \in Sockets
        BY <2>1, <1>8 DEF TypeOK, Entries
      <3> QED BY <3>1, <1>11 DEF RoomsMatchSessions, NoGhosts, OnJoinVoice
    <2>2. CASE d = c /\ e = self
      BY <2>2, <1>1, <1>11, <1>13 DEF OnJoinVoice
    <2> QED BY <2>1, <2>2, <1>9
  <1>15. InRoomListed'
    <2> SUFFICES ASSUME NEW t \in Sockets, sess'[t].room # NoRoom
                 PROVE  \E e \in voice_rooms'[sess'[t].room] : e.sid = t
      BY DEF InRoomListed
    <2>1. CASE t = s
      <3>1. self \in voice_rooms'[c] /\ self.sid = s
        BY <1>1, <1>2, <1>5
      <3> QED BY <2>1, <3>1, <1>11
    <2>2. CASE t # s
      <3>1. PICK e \in voice_rooms[sess[t].room] : e.sid = t
        BY <2>2, <1>11 DEF RoomsMatchSessions, InRoomListed
      <3>2. sess[t].room \in Channels
        BY DEF TypeOK
      <3>3. e \in left[sess[t].room]
        BY <3>1, <3>2, <2>2, <1>1 DEF TypeOK, RemoveFromVoiceRoom
      <3> QED BY <3>1, <3>2, <3>3, <2>2, <1>10, <1>11
    <2> QED BY <2>1, <2>2
  <1>16. SsrcIssued'
    <2>1. next_ssrc' = next_ssrc + 1 /\ next_ssrc \in Nat
      BY DEF OnJoinVoice, TypeOK
    <2>2. \A d \in Channels : \A e \in voice_rooms[d] : e.ssrc \in Nat
      BY DEF TypeOK, Entries, Ssrcs
    <2> QED BY <2>1, <2>2, <1>8, <1>9 DEF SsrcIssued
  <1>17. ListedOnce'
    <2>1. \A d \in Channels : \A e \in left[d] : e.sid # self.sid /\ e.ssrc # self.ssrc
      <3>1. \A d \in Channels : \A e \in voice_rooms[d] : e.ssrc < next_ssrc /\ e.ssrc \in Nat
        BY DEF SsrcIssued, TypeOK, Entries, Ssrcs
      <3>2. next_ssrc \in Nat
        BY DEF TypeOK
      <3> QED BY <3>1, <3>2, <1>8
    <2> QED BY <2>1, <1>8, <1>9 DEF ListedOnce, RoomsMatchSessions
  <1>18. InRoomHearsChat'
    <2> SUFFICES ASSUME NEW t \in Sockets, sess'[t].room # NoRoom
                 PROVE  t \in registry' /\ sess'[t].room \in topics'[t]
      BY DEF InRoomHearsChat
    <2>1. CASE t = s
      BY <2>1, <1>11, <1>13 DEF OnJoinVoice, TypeOK, Resubscribed
    <2>2. CASE t # s
      BY <2>2, <1>11 DEF OnJoinVoice, TypeOK, InRoomHearsChat
    <2> QED BY <2>1, <2>2
  <1> QED BY <1>7, <1>12, <1>14, <1>15, <1>16, <1>17, <1>18 DEF RoomsMatchSessions

(* A session leaving its room takes its only entry along, whether it asks  *)
(* to leave or its connection drops.                                       *)
LEMMA InvLeave ==
    ASSUME ConstantsAssumption, IndInv, NEW s \in Sockets,
           \/ sess[s].room # NoRoom /\ OnLeaveVoice(s, sess[s].room)
           \/ OnClose(s)
    PROVE  IndInv'
  <1> USE DEF IndInv
  <1> DEFINE old == sess[s].room
             left == RemoveFromVoiceRoom(s, old)
  <1>1. old \in Channels /\ NoRoom \in Channels
    BY DEF TypeOK
  <1>2. left \in [Channels -> SUBSET Entries]
        /\ NotifyLeft(s, old, NoRoom) \in [Sockets -> Seq(Messages)]
        /\ NotifyLeft(s, old, old) \in [Sockets -> Seq(Messages)]
    BY <1>1, LeaveType
  <1>3. voice_rooms' = left /\ next_ssrc' = next_ssrc /\ user_channels' = user_channels
    BY DEF OnLeaveVoice, OnClose
  <1>4. inbox' \in [Sockets -> Seq(Messages)]
    <2>1. <<>> \in Seq(Messages)
      BY EmptySeq
    <2> QED BY <2>1, <1>2 DEF OnLeaveVoice, OnClose
  <1>5. \A t \in Sockets : sess'[t].room = (IF t = s THEN NoRoom ELSE sess[t].room)
                           /\ sess'[t].authenticated = sess[t].authenticated
    BY DEF OnLeaveVoice, OnClose, TypeOK
  <1>6. TypeOK'
    <2>1. sess' \in [Sockets -> [authenticated : BOOLEAN, room : Channels]]
      <3>1. sess' = [sess EXCEPT ![s].room = NoRoom]
        BY DEF OnLeaveVoice, OnClose
      <3> QED BY <3>1, <1>1 DEF TypeOK
    <2>2. topics' \in [Sockets -> SUBSET Rooms]
      <3>1. PICK T \in SUBSET Rooms : topics' = [topics EXCEPT ![s] = T]
        <4>1. topics[s] \ {old} \in SUBSET Rooms /\ {} \in SUBSET Rooms
          BY DEF TypeOK
        <4> QED BY <4>1 DEF OnLeaveVoice, OnClose
      <3> QED BY <3>1 DEF TypeOK
    <2>3. conn' \in [Sockets -> {"open", "closed"}] /\ registry' \in SUBSET Sockets
      BY DEF OnLeaveVoice, OnClose, TypeOK
    <2> QED BY <1>2, <1>3, <1>4, <2>1, <2>2, <2>3 DEF TypeOK
  <1>7. \A d \in Channels : \A e \in left[d] : e \in voice_rooms[d] /\ e.sid # s
    BY <1>1 DEF TypeOK, RemoveFromVoiceRoom, RoomsMatchSessions, NoGhosts
  <1>8. \A t \in registry : t # s => t \in registry'
    BY DEF OnLeaveVoice, OnClose
  <1>9. RegistryLive'
    BY <1>5 DEF RegistryLive, OnLeaveVoice, OnClose, TypeOK
  <1>10. NoGhosts'
    <2> SUFFICES ASSUME NEW d \in Channels, NEW e \in left[d]
                 PROVE  d # NoRoom /\ sess'[e.sid].room = d /\ e.sid \in registry'
      BY <1>3 DEF NoGhosts
    <2>1. e \in voice_rooms[d] /\ e.sid # s /\ e.sid \in Sockets
      BY <1>7 DEF TypeOK, Entries
    <2> QED BY <2>1, <1>5, <1>8 DEF RoomsMatchSessions, NoGhosts
  <1>11. InRoomListed'
    <2> SUFFICES ASSUME NEW t \in Sockets, sess'[t].room # NoRoom
                 PROVE  \E e \in left[sess'[t].room] : e.sid = t
      BY <1>3 DEF InRoomListed
    <2>1. t # s /\ sess[t].room \in Channels /\ sess'[t].room = sess[t].room
      BY <1>5 DEF TypeOK
    <2>2. PICK e \in voice_rooms[sess[t].room] : e.sid = t
      BY <2>1 DEF RoomsMatchSessions, InRoomListed
    <2>3. e \in left[sess[t].room]
      BY <2>1, <2>2, <1>1 DEF TypeOK, RemoveFromVoiceRoom
    <2> QED BY <2>1, <2>2, <2>3
  <1>12. ListedOnce' /\ SsrcIssued'
    BY <1>3, <1>7 DEF ListedOnce, SsrcIssued, RoomsMatchSessions
  <1>13. InRoomHearsChat'
    <2> SUFFICES ASSUME NEW t \in Sockets, sess'[t].room # NoRoom
                 PROVE  t \in registry' /\ sess'[t].room \in topics'[t]
      BY DEF InRoomHearsChat
    <2>1. t # s /\ sess'[t].room = sess[t].room
      BY <1>5
    <2>2. topics'[t] = topics[t]
      BY <2>1 DEF OnLeaveVoice, OnClose, TypeOK
    <2> QED BY <2>1, <2>2, <1>8 DEF InRoomHearsChat
  <1> QED BY <1>6, <1>9, <1>10, <1>11, <1>12, <1>13 DEF RoomsMatchSessions

(* Every step of the gateway preserves the inductive invariant.            *)
LEMMA InvNext == ConstantsAssumption /\ IndInv /\ [Next]_serverVars => IndInv'
  <1> SUFFICES ASSUME ConstantsAssumption, IndInv, [Next]_serverVars PROVE IndInv'
    OBVIOUS
  <1> USE DEF IndInv
  <1>1. ASSUME NEW s \in Sockets, OnHello(s) PROVE IndInv'
    <2>1. /\ \A t \in Sockets : sess'[t].room = sess[t].room
          /\ \A t \in Sockets \ {s} : sess'[t] = sess[t]
          /\ sess'[s].authenticated
      BY <1>1 DEF OnHello, TypeOK
    <2>2. PICK chans \in {user_channels[UserOf[s]], {}} : topics' = [topics EXCEPT ![s] = @ \cup chans]
      BY <1>1 DEF OnHello
    <2>3. chans \in SUBSET Rooms
      BY <2>2 DEF TypeOK, ConstantsAssumption
    <2>4. TypeOK'
      BY <1>1, <2>2, <2>3 DEF OnHello, TypeOK
    <2>5. \A t \in Sockets : topics[t] \subseteq topics'[t]
      BY <2>2 DEF TypeOK
    <2>6. RegistryLive'
      BY <1>1, <2>1 DEF OnHello, RegistryLive
    <2>7. voice_rooms' = voice_rooms /\ next_ssrc' = next_ssrc /\ registry \subseteq registry'
      BY <1>1 DEF OnHello
    <2>8. \A d \in Channels : \A e \in voice_rooms[d] : e.sid \in Sockets
      BY DEF TypeOK, Entries
    <2>9. RoomsMatchSessions'
      BY <2>1, <2>7, <2>8 DEF RoomsMatchSessions, NoGhosts, InRoomListed, ListedOnce
    <2>10. SsrcIssued' /\ InRoomHearsChat'
      BY <2>1, <2>5, <2>7 DEF SsrcIssued, InRoomHearsChat
    <2> QED BY <2>4, <2>6, <2>9, <2>10
  <1>2. ASSUME NEW s \in Sockets, NEW c \in Rooms, OnJoinChannel(s, c) PROVE IndInv'
    <2>1. TypeOK'
      <3>1. topics' = topics \/ topics' = [topics EXCEPT ![s] = @ \cup {c}]
        BY <1>2 DEF OnJoinChannel
      <3>2. topics' \in [Sockets -> SUBSET Rooms]
        <4>1. topics[s] \cup {c} \in SUBSET Rooms /\ topics \in [Sockets -> SUBSET Rooms]
          BY DEF TypeOK
        <4> QED BY <3>1, <4>1
      <3>3. \/ user_channels' = user_channels
            \/ user_channels' = [user_channels EXCEPT ![UserOf[s]] = @ \cup {c}]
        BY <1>2 DEF OnJoinChannel
      <3>4. user_channels' \in [Users -> SUBSET Rooms]
        <4>1. UserOf[s] \in Users
          BY DEF ConstantsAssumption
        <4>2. user_channels[UserOf[s]] \cup {c} \in SUBSET Rooms /\ user_channels \in [Users -> SUBSET Rooms]
          BY <4>1 DEF TypeOK
        <4> QED BY <4>1, <4>2, <3>3
      <3>5. UNCHANGED <<conn, sess, registry, voice_rooms, next_ssrc, inbox>>
        BY <1>2 DEF OnJoinChannel
      <3> QED BY <3>2, <3>4, <3>5 DEF TypeOK
    <2>2. \A t \in Sockets : topics[t] \subseteq topics'[t]
      <3>1. topics' = topics \/ topics' = [topics EXCEPT ![s] = @ \cup {c}]
        BY <1>2 DEF OnJoinChannel
      <3> QED BY <3>1 DEF TypeOK
    <2>3. UNCHANGED <<conn, sess, registry, voice_rooms, next_ssrc>>
      BY <1>2 DEF OnJoinChannel
    <2>4. RegistryLive' /\ RoomsMatchSessions' /\ SsrcIssued'
      BY <2>3 DEF RegistryLive, RoomsMatchSessions, NoGhosts, InRoomListed, ListedOnce, SsrcIssued
    <2>5. InRoomHearsChat'
      BY <2>2, <2>3 DEF InRoomHearsChat
    <2> QED BY <2>1, <2>4, <2>5
  <1>3. ASSUME NEW s \in Sockets, Deliver(s) PROVE IndInv'
    <2>1. inbox[s] \in Seq(Messages) /\ inbox[s] # <<>>
      BY <1>3 DEF Deliver, TypeOK
    <2>2. Tail(inbox[s]) \in Seq(Messages)
      BY <2>1, HeadTailProperties
    <2>3. TypeOK'
      BY <1>3, <2>2 DEF Deliver, TypeOK
    <2>4. RegistryLive' /\ RoomsMatchSessions' /\ SsrcIssued' /\ InRoomHearsChat'
      BY <1>3 DEF Deliver, RegistryLive, RoomsMatchSessions, NoGhosts, InRoomListed,
                  ListedOnce, SsrcIssued, InRoomHearsChat
    <2> QED BY <2>3, <2>4
  <1>4. CASE UNCHANGED serverVars
    <2>1. TypeOK'
      BY <1>4 DEF serverVars, TypeOK
    <2>2. RegistryLive' /\ RoomsMatchSessions' /\ SsrcIssued' /\ InRoomHearsChat'
      BY <1>4 DEF serverVars, RegistryLive, RoomsMatchSessions, NoGhosts, InRoomListed,
                  ListedOnce, SsrcIssued, InRoomHearsChat
    <2> QED BY <2>1, <2>2
  <1>5. CASE Next
    BY <1>5, <1>1, <1>2, <1>3, InvJoinVoice, InvLeave DEF Next
  <1> QED BY <1>4, <1>5

(* The inductive invariant holds in every state of the gateway.            *)
THEOREM RoomsInvariant == Spec => []IndInv
  <1>1. Init => IndInv
    BY ConstantsAssumption, InvInit
  <1>2. IndInv /\ [Next]_serverVars => IndInv'
    BY ConstantsAssumption, InvNext
  <1> QED BY <1>1, <1>2, PTL DEF Spec

(* The gateway with SignalingClient and GUI on the other side implements   *)
(* the gateway alone: its clients only send what Next allows, and reading  *)
(* an envelope is a delivery.                                              *)
THEOREM SessionImplementsRooms == SessionSpec => Spec
  <1>1. SessionInit => Init
    BY DEF SessionInit
  <1>2. ASSUME SessionNext PROVE Next
    <2>1. PICK s \in Sockets :
              \/ Hello(s) \/ JoinVoice(s) \/ Disconnect(s)
              \/ ReadSelf(s) \/ ReadJoined(s) \/ ReadLeft(s)
              \/ GuiLeaveVoice(s)
              \/ \E c \in Rooms : GuiJoinVoice(s, c)
      BY <1>2 DEF SessionNext
    <2>2. CASE Hello(s) \/ Disconnect(s) \/ GuiLeaveVoice(s)
      BY <2>2 DEF Hello, Disconnect, GuiLeaveVoice, Next
    <2>3. CASE JoinVoice(s)
      BY <2>3, ClientAssumption DEF JoinVoice, Next
    <2>4. CASE ReadSelf(s) \/ ReadJoined(s) \/ ReadLeft(s)
      BY <2>4 DEF ReadSelf, ReadJoined, ReadLeft, Next
    <2>5. CASE \E c \in Rooms : GuiJoinVoice(s, c)
      BY <2>5 DEF GuiJoinVoice, Next
    <2> QED BY <2>1, <2>2, <2>3, <2>4, <2>5
  <1>3. [SessionNext]_vars => [Next]_serverVars
    BY <1>2 DEF vars
  <1> QED BY <1>1, <1>3, PTL DEF Spec, SessionSpec

(* The room table and the sessions agree in every state, for any number of *)
(* clients, users and rooms: nobody haunts a room after a disconnect or a  *)
(* switch, and nobody is in two rooms.                                     *)
THEOREM RoomsMatchSessionsAlways == SessionSpec => []RoomsMatchSessions
  <1>1. IndInv => RoomsMatchSessions
    BY DEF IndInv
  <1> QED BY <1>1, RoomsInvariant, SessionImplementsRooms, PTL

(* lookup() never hands out a socket that has been closed.                 *)
THEOREM RegistryLiveAlways == SessionSpec => []RegistryLive
  <1>1. IndInv => RegistryLive
    BY DEF IndInv
  <1> QED BY <1>1, RoomsInvariant, SessionImplementsRooms, PTL

(* Whoever is in a voice room is subscribed to the channel's chat.         *)
THEOREM InRoomHearsChatAlways == SessionSpec => []InRoomHearsChat
  <1>1. IndInv => InRoomHearsChat
    BY DEF IndInv
  <1> QED BY <1>1, RoomsInvariant, SessionImplementsRooms, PTL
-----------------------------------------------------------------------------
(* The peer lists of the clients *)

(* Envelope m says something about user u.                                 *)
Mentions(m, u) ==
    \/ m.kind = "joined" /\ \E p \in m.peers : p.user = u
    \/ m.kind = "left" /\ m.user = u

(* A client that lists ps and has q still to read will show p.             *)
Shows(q, ps, p) ==
    \/ p \in ps /\ \A i \in DOMAIN q : ~Mentions(q[i], p.user)
    \/ \E i \in DOMAIN q :
          /\ q[i].kind = "joined" /\ p \in q[i].peers
          /\ \A j \in DOMAIN q : i < j => ~Mentions(q[j], p.user)

WillShow(s, p) == Shows(inbox[s], peers[s], p)

(* The room of s holds p.                                                  *)
Present(s, p) == \E e \in voice_rooms[sess[s].room] : Peer(e) = p

(* Before its own entry arrives a client has heard of nobody; a closed     *)
(* socket has nothing left to read.                                        *)
PhaseInv ==
    \A s \in Sockets :
        /\ conn[s] # "open" => inbox[s] = <<>>
        /\ phase[s] = "start" => inbox[s] = <<>> /\ peers[s] = {} /\ sess[s].room = NoRoom
        /\ phase[s] = "joining" /\ conn[s] = "open" =>
              /\ peers[s] = {} /\ inbox[s] # <<>>
              /\ Head(inbox[s]).kind = "joined" /\ Head(inbox[s]).peers # {}
              /\ \A p \in Head(inbox[s]).peers : p.user = UserOf[s]

(* An envelope names a user on one device once.                            *)
NamedOnce(m) ==
    m.kind = "joined" =>
        \A p, q \in m.peers : p.user = q.user /\ OneDevice(p.user) => p = q

InboxInv == \A s \in Sockets : \A i \in DOMAIN inbox[s] : NamedOnce(inbox[s][i])

(* NoMissingPeer and NoStalePeer, said of what a client will show.         *)
MissesNobody ==
    \A s \in Sockets : \A e \in InRoomOf(s) : UserOf[e.sid] # UserOf[s] =>
        \A p \in Peers : p.user = UserOf[e.sid] => (WillShow(s, p) <=> p = Peer(e))

ShowsNobodyElse ==
    \A s \in Sockets \ switched : conn[s] = "open" =>
        \A p \in Peers : WillShow(s, p) /\ OneDevice(p.user) /\ p.user # UserOf[s] => Present(s, p)

PeerTypes ==
    /\ phase \in [Sockets -> {"start", "joining", "reading"}]
    /\ peers \in [Sockets -> SUBSET Peers]
    /\ \A s \in Sockets : \A p \in peers[s] : p.user # UserOf[s]

PeerInv == PeerTypes /\ PhaseInv /\ InboxInv /\ MissesNobody /\ ShowsNobodyElse

-----------------------------------------------------------------------------
(* What reaches the inboxes *)

(* t is in the room that s is in.                                          *)
Beside(s, t) == t # s /\ sess[s].room # NoRoom /\ sess[t].room = sess[s].room

NewEntry(s) == [sid |-> s, ssrc |-> next_ssrc]
Found(s, c) == RemoveFromVoiceRoom(s, sess[s].room)[c]

(* The inbox of t once s has left its room.                                *)
AfterLeave(s, t, n) == IF Beside(s, t) THEN Append(inbox[t], Left(n, s)) ELSE inbox[t]

(* Of a room that s has left, everybody in it can be told.                 *)
LEMMA LookupIs ==
    ASSUME ConstantsAssumption, IndInv, NEW s \in Sockets, NEW t \in Sockets, NEW d \in Channels
    PROVE  t \in Lookup(Found(s, d)) <=> t # s /\ d # NoRoom /\ sess[t].room = d
  <1>1. /\ \A e \in voice_rooms[d] : d # NoRoom /\ sess[e.sid].room = d /\ e.sid \in registry
        /\ sess[t].room # NoRoom => \E e \in voice_rooms[sess[t].room] : e.sid = t
        /\ sess[s].room \in Channels /\ voice_rooms \in [Channels -> SUBSET Entries]
    BY DEF IndInv, TypeOK, RoomsMatchSessions, NoGhosts, InRoomListed
  <1>2. Found(s, d) = {e \in voice_rooms[d] : d = sess[s].room => e.sid # s}
    BY <1>1 DEF Found, RemoveFromVoiceRoom
  <1>3. \A e \in Found(s, d) : e \in voice_rooms[d] /\ e.sid # s
    BY <1>1, <1>2
  <1>4. ASSUME t # s, d # NoRoom, sess[t].room = d PROVE t \in Lookup(Found(s, d))
    <2>1. PICK e \in voice_rooms[d] : e.sid = t
      BY <1>1, <1>4
    <2>2. e \in Found(s, d) /\ t \in registry
      BY <2>1, <1>1, <1>2, <1>4
    <2> QED BY <2>1, <2>2 DEF Lookup
  <1>5. ASSUME t \in Lookup(Found(s, d)) PROVE t # s /\ d # NoRoom /\ sess[t].room = d
    <2>1. PICK e \in Found(s, d) : e.sid = t
      BY <1>5 DEF Lookup
    <2> QED BY <2>1, <1>1, <1>3
  <1> QED BY <1>4, <1>5

(* A leave tells everybody in the room and nobody else.                    *)
LEMMA LeaveInbox ==
    ASSUME ConstantsAssumption, IndInv, NEW s \in Sockets, NEW t \in Sockets, NEW n
    PROVE  NotifyLeft(s, sess[s].room, n)[t] = AfterLeave(s, t, n)
  <1>1. sess[s].room \in Channels
    BY DEF IndInv, TypeOK
  <1>2. t \in Lookup(Found(s, sess[s].room)) <=> Beside(s, t)
    BY <1>1, LookupIs DEF Beside
  <1> QED BY <1>2 DEF NotifyLeft, Found, Send, AfterLeave

(* A join tells the old room of the leave and the new one of the entry;    *)
(* the joiner gets its entry and those it found.                           *)
LEMMA JoinInbox ==
    ASSUME ConstantsAssumption, IndInv, NEW s \in Sockets, NEW c \in Rooms, OnJoinVoice(s, c),
           NEW t \in Sockets
    PROVE  LET told == AfterLeave(s, t, NoRoom)
               self == Joined(c, {NewEntry(s)})
           IN  /\ t = s /\ Found(s, c) = {} => inbox'[t] = Append(inbox[t], self)
               /\ t = s /\ Found(s, c) # {} =>
                     inbox'[t] = Append(Append(inbox[t], self), Joined(c, Found(s, c)))
               /\ t # s /\ sess[t].room = c => inbox'[t] = Append(told, self)
               /\ t # s /\ sess[t].room # c => inbox'[t] = told
  <1> DEFINE told == AfterLeave(s, t, NoRoom)
             self == Joined(c, {NewEntry(s)})
             all == NotifyLeft(s, sess[s].room, NoRoom)
             mine == Send(all, {s}, self)
             replayed == Send(mine, IF Found(s, c) = {} THEN {} ELSE {s}, Joined(c, Found(s, c)))
  <1>1. inbox' = Send(replayed, Lookup(Found(s, c)), self)
    BY DEF OnJoinVoice, NewEntry, Found
  <1>2. c \in Channels /\ c # NoRoom
    BY DEF Channels, ConstantsAssumption
  <1>3. t \in Lookup(Found(s, c)) <=> t # s /\ sess[t].room = c
    BY <1>2, LookupIs
  <1>4. all[t] = told
    BY LeaveInbox
  <1>5. mine[t] = IF t = s THEN Append(told, self) ELSE told
    BY <1>4 DEF Send
  <1>6. replayed[t] = IF t = s /\ Found(s, c) # {} THEN Append(mine[t], Joined(c, Found(s, c))) ELSE mine[t]
    <2> HIDE DEF mine
    <2> QED BY DEF Send
  <1>7. inbox'[t] = IF t # s /\ sess[t].room = c THEN Append(replayed[t], self) ELSE replayed[t]
    <2> HIDE DEF replayed
    <2> QED BY <1>1, <1>3 DEF Send
  <1>8. t = s => told = inbox[t]
    BY DEF AfterLeave, Beside
  <1> HIDE DEF told, self, all, mine, replayed
  <1>9. /\ t = s /\ Found(s, c) = {} => inbox'[t] = Append(inbox[t], self)
        /\ t = s /\ Found(s, c) # {} => inbox'[t] = Append(Append(inbox[t], self), Joined(c, Found(s, c)))
        /\ t # s /\ sess[t].room = c => inbox'[t] = Append(told, self)
        /\ t # s /\ sess[t].room # c => inbox'[t] = told
    BY <1>5, <1>6, <1>7, <1>8
  <1> QED BY <1>9 DEF told, self

-----------------------------------------------------------------------------
(* Reading *)

(* One more envelope has the last word on those it mentions.               *)
LEMMA AppendShows ==
    ASSUME NEW q \in Seq(Messages), NEW m \in Messages, NEW ps, NEW p
    PROVE  Shows(Append(q, m), ps, p) <=>
              \/ m.kind = "joined" /\ p \in m.peers
              \/ ~Mentions(m, p.user) /\ Shows(q, ps, p)
  <1> DEFINE r == Append(q, m)
             n == Len(q) + 1
  <1>1. /\ n \in Nat \ {0} /\ DOMAIN q = 1 .. n - 1 /\ DOMAIN r = 1 .. n
        /\ r[n] = m /\ \A i \in 1 .. n - 1 : r[i] = q[i]
    OBVIOUS
  <1> HIDE DEF r, n
  <1>2. m.kind = "joined" /\ p \in m.peers => Mentions(m, p.user)
    BY DEF Mentions
  <1>3. ASSUME Shows(r, ps, p), ~(m.kind = "joined" /\ p \in m.peers)
        PROVE  ~Mentions(m, p.user) /\ Shows(q, ps, p)
    <2>1. CASE p \in ps /\ \A i \in DOMAIN r : ~Mentions(r[i], p.user)
      <3>1. \A i \in DOMAIN q : ~Mentions(q[i], p.user)
        BY <1>1, <2>1
      <3>2. ~Mentions(m, p.user)
        BY <1>1, <2>1
      <3> QED BY <2>1, <3>1, <3>2 DEF Shows
    <2>2. CASE \E i \in DOMAIN r : /\ r[i].kind = "joined" /\ p \in r[i].peers
                                   /\ \A j \in DOMAIN r : i < j => ~Mentions(r[j], p.user)
      <3>1. PICK i \in DOMAIN r : /\ r[i].kind = "joined" /\ p \in r[i].peers
                                  /\ \A j \in DOMAIN r : i < j => ~Mentions(r[j], p.user)
        BY <2>2
      <3>2. i # n
        BY <3>1, <1>1, <1>3
      <3>3. i \in DOMAIN q /\ r[i] = q[i] /\ i < n
        BY <3>2, <1>1
      <3>4. ~Mentions(m, p.user)
        BY <3>1, <3>3, <1>1
      <3>5. \A j \in DOMAIN q : i < j => ~Mentions(q[j], p.user)
        BY <3>1, <1>1
      <3> QED BY <3>1, <3>3, <3>4, <3>5 DEF Shows
    <2> QED BY <1>3, <2>1, <2>2 DEF Shows
  <1>4. ASSUME m.kind = "joined", p \in m.peers PROVE Shows(r, ps, p)
    <2>1. n \in DOMAIN r /\ r[n].kind = "joined" /\ p \in r[n].peers
      BY <1>1, <1>4
    <2>2. \A j \in DOMAIN r : ~(n < j)
      BY <1>1
    <2> QED BY <2>1, <2>2 DEF Shows
  <1>5. ASSUME ~Mentions(m, p.user), Shows(q, ps, p) PROVE Shows(r, ps, p)
    <2>1. CASE p \in ps /\ \A i \in DOMAIN q : ~Mentions(q[i], p.user)
      <3>1. ASSUME NEW i \in DOMAIN r PROVE ~Mentions(r[i], p.user)
        <4>1. CASE i = n
          BY <4>1, <1>1, <1>5
        <4>2. CASE i # n
          <5>1. i \in DOMAIN q /\ r[i] = q[i]
            BY <4>2, <1>1
          <5> QED BY <5>1, <2>1
        <4> QED BY <4>1, <4>2
      <3> QED BY <2>1, <3>1 DEF Shows
    <2>2. CASE \E i \in DOMAIN q : /\ q[i].kind = "joined" /\ p \in q[i].peers
                                   /\ \A j \in DOMAIN q : i < j => ~Mentions(q[j], p.user)
      <3>1. PICK i \in DOMAIN q : /\ q[i].kind = "joined" /\ p \in q[i].peers
                                  /\ \A j \in DOMAIN q : i < j => ~Mentions(q[j], p.user)
        BY <2>2
      <3>2. ASSUME NEW j \in DOMAIN r, i < j PROVE ~Mentions(r[j], p.user)
        <4>1. CASE j = n
          BY <4>1, <1>1, <1>5
        <4>2. CASE j # n
          <5>1. j \in DOMAIN q /\ r[j] = q[j]
            BY <4>2, <1>1
          <5> QED BY <5>1, <3>1, <3>2
        <4> QED BY <4>1, <4>2
      <3>3. i \in DOMAIN r /\ r[i] = q[i]
        BY <1>1
      <3> QED BY <3>1, <3>2, <3>3 DEF Shows
    <2> QED BY <1>5, <2>1, <2>2 DEF Shows
  <1> QED BY <1>2, <1>3, <1>4, <1>5 DEF r

(* Reading the oldest envelope, qs being what it makes of ps, leaves what  *)
(* will be shown as it is.                                                 *)
LEMMA ReadShows ==
    ASSUME NEW q \in Seq(Messages), q # <<>>, NEW ps, NEW qs, NEW p,
           p \in qs <=> \/ Head(q).kind = "joined" /\ p \in Head(q).peers
                        \/ ~Mentions(Head(q), p.user) /\ p \in ps
    PROVE  Shows(Tail(q), qs, p) <=> Shows(q, ps, p)
  <1> DEFINE r == Tail(q)
             n == Len(q)
  <1>1. /\ n \in Nat \ {0} /\ DOMAIN q = 1 .. n /\ DOMAIN r = 1 .. n - 1
        /\ \A i \in 1 .. n - 1 : r[i] = q[i + 1]
        /\ Head(q) = q[1]
    OBVIOUS
  <1> HIDE DEF r, n
  <1>2. ASSUME NEW k \in Nat
        PROVE  (\A j \in DOMAIN r : k < j => ~Mentions(r[j], p.user))
               <=> (\A j \in DOMAIN q : k + 1 < j => ~Mentions(q[j], p.user))
    <2>1. ASSUME \A j \in DOMAIN r : k < j => ~Mentions(r[j], p.user), NEW j \in DOMAIN q, k + 1 < j
          PROVE  ~Mentions(q[j], p.user)
      <3>1. j - 1 \in DOMAIN r /\ k < j - 1 /\ r[j - 1] = q[j]
        BY <2>1, <1>1
      <3> QED BY <3>1, <2>1
    <2>2. ASSUME \A j \in DOMAIN q : k + 1 < j => ~Mentions(q[j], p.user), NEW j \in DOMAIN r, k < j
          PROVE  ~Mentions(r[j], p.user)
      <3>1. j + 1 \in DOMAIN q /\ k + 1 < j + 1 /\ r[j] = q[j + 1]
        BY <2>2, <1>1
      <3> QED BY <3>1, <2>2
    <2> QED BY <2>1, <2>2
  <1> DEFINE Last(s, i) == /\ s[i].kind = "joined" /\ p \in s[i].peers
                           /\ \A j \in DOMAIN s : i < j => ~Mentions(s[j], p.user)
             Silent(s, k) == \A j \in DOMAIN s : k < j => ~Mentions(s[j], p.user)
  <1>3. Shows(q, ps, p) <=> (p \in ps /\ Silent(q, 0)) \/ \E i \in DOMAIN q : Last(q, i)
    BY <1>1 DEF Shows
  <1>4. Shows(r, qs, p) <=> (p \in qs /\ Silent(r, 0)) \/ \E i \in DOMAIN r : Last(r, i)
    BY <1>1 DEF Shows
  <1>5. (\E i \in DOMAIN q : Last(q, i)) <=> Last(q, 1) \/ \E i \in DOMAIN r : Last(r, i)
    <2>1. ASSUME NEW i \in DOMAIN r PROVE Last(r, i) <=> Last(q, i + 1)
      <3>1. i \in Nat /\ r[i] = q[i + 1]
        BY <1>1
      <3> QED BY <3>1, <1>2
    <2>2. \A i \in DOMAIN q : i = 1 \/ (i - 1 \in DOMAIN r /\ i = (i - 1) + 1)
      BY <1>1
    <2>3. 1 \in DOMAIN q /\ \A i \in DOMAIN r : i + 1 \in DOMAIN q
      BY <1>1
    <2> HIDE DEF Last
    <2> QED BY <2>1, <2>2, <2>3
  <1>6. Silent(r, 0) <=> Silent(q, 1)
    BY <1>2
  <1>7. Silent(q, 0) <=> Silent(q, 1) /\ ~Mentions(q[1], p.user)
    BY <1>1
  <1>8. Last(q, 1) <=> q[1].kind = "joined" /\ p \in q[1].peers /\ Silent(q, 1)
    OBVIOUS
  <1> HIDE DEF Last, Silent
  <1> QED BY <1>1, <1>3, <1>4, <1>5, <1>6, <1>7, <1>8 DEF r

-----------------------------------------------------------------------------
(* What a join or a leave makes the others show *)

(* Every inbox holds messages, and those the gateway is about to send are. *)
LEMMA EnvelopesSent ==
    ASSUME ConstantsAssumption, IndInv, NEW s \in Sockets, NEW c \in Channels, next_ssrc \in Ssrcs
    PROVE  /\ \A t \in Sockets : inbox[t] \in Seq(Messages)
           /\ NewEntry(s) \in Entries /\ Found(s, c) \in SUBSET Entries
           /\ Joined(c, {NewEntry(s)}) \in Messages /\ Joined(c, Found(s, c)) \in Messages
  <1>1. sess[s].room \in Channels /\ \A t \in Sockets : inbox[t] \in Seq(Messages)
    BY DEF IndInv, TypeOK
  <1>2. Found(s, c) \in SUBSET Entries
    BY <1>1, LeaveType DEF Found, IndInv
  <1>3. NewEntry(s) \in Entries
    BY DEF NewEntry, Entries
  <1> QED BY <1>1, <1>2, <1>3, EnvelopeType

(* To those who stay behind, who leaves is gone; nothing else changes.     *)
LEMMA LeaveShows ==
    ASSUME ConstantsAssumption, IndInv, NEW s \in Sockets, NEW t \in Sockets, NEW n \in Channels,
           NEW ps, NEW p
    PROVE  /\ AfterLeave(s, t, n) \in Seq(Messages)
           /\ p.user # UserOf[s] \/ ~Beside(s, t) =>
                 (Shows(AfterLeave(s, t, n), ps, p) <=> Shows(inbox[t], ps, p))
           /\ p.user = UserOf[s] /\ Beside(s, t) => ~Shows(AfterLeave(s, t, n), ps, p)
  <1>1. inbox[t] \in Seq(Messages) /\ Left(n, s) \in Messages
    BY EnvelopeType DEF IndInv, TypeOK
  <1>2. Left(n, s).kind # "joined" /\ (Mentions(Left(n, s), p.user) <=> p.user = UserOf[s])
    BY DEF Left, Mentions
  <1>3. Append(inbox[t], Left(n, s)) \in Seq(Messages)
    BY <1>1
  <1>4. Shows(Append(inbox[t], Left(n, s)), ps, p) <=> p.user # UserOf[s] /\ Shows(inbox[t], ps, p)
    BY <1>1, <1>2, AppendShows
  <1> QED BY <1>1, <1>3, <1>4 DEF AfterLeave

(* Who joins is shown to everybody in the room by its new entry, and gone  *)
(* from the room it left; nothing else changes.                            *)
LEMMA JoinShows ==
    ASSUME ConstantsAssumption, IndInv, NEW s \in Sockets, NEW c \in Rooms, OnJoinVoice(s, c),
           NEW t \in Sockets, t # s, NEW ps, NEW p \in Peers
    PROVE  /\ p.user # UserOf[s] => (Shows(inbox'[t], ps, p) <=> Shows(inbox[t], ps, p))
           /\ p.user = UserOf[s] /\ sess[t].room = c =>
                 (Shows(inbox'[t], ps, p) <=> p = Peer(NewEntry(s)))
           /\ p.user = UserOf[s] /\ sess[t].room # c =>
                 (Shows(inbox'[t], ps, p) <=> ~Beside(s, t) /\ Shows(inbox[t], ps, p))
  <1> DEFINE told == AfterLeave(s, t, NoRoom)
             self == Joined(c, {NewEntry(s)})
  <1>1. c \in Channels /\ NoRoom \in Channels /\ next_ssrc \in Ssrcs
    BY DEF Channels, OnJoinVoice, IndInv, TypeOK, Ssrcs
  <1>2. self \in Messages /\ told \in Seq(Messages)
    BY <1>1, EnvelopesSent, LeaveShows
  <1>3. /\ self.kind = "joined" /\ self.peers = {Peer(NewEntry(s))}
        /\ Peer(NewEntry(s)).user = UserOf[s]
    BY DEF Joined, Peer, NewEntry
  <1>4. Mentions(self, p.user) <=> p.user = UserOf[s]
    BY <1>3 DEF Mentions
  <1>5. Shows(Append(told, self), ps, p) <=>
            p = Peer(NewEntry(s)) \/ (p.user # UserOf[s] /\ Shows(told, ps, p))
    <2> HIDE DEF told, self
    <2> QED BY <1>2, <1>3, <1>4, AppendShows
  <1>6. /\ p.user # UserOf[s] \/ ~Beside(s, t) => (Shows(told, ps, p) <=> Shows(inbox[t], ps, p))
        /\ p.user = UserOf[s] /\ Beside(s, t) => ~Shows(told, ps, p)
    BY <1>1, LeaveShows
  <1>7. inbox'[t] = IF sess[t].room = c THEN Append(told, self) ELSE told
    BY JoinInbox
  <1> HIDE DEF told, self
  <1> QED BY <1>3, <1>5, <1>6, <1>7

(* The joiner shows those it found in the room, and of users not there     *)
(* what it showed before.                                                  *)
LEMMA JoinerShows ==
    ASSUME ConstantsAssumption, IndInv, NEW s \in Sockets, NEW c \in Rooms, OnJoinVoice(s, c),
           NEW ps, NEW p \in Peers, p.user # UserOf[s]
    PROVE  Shows(inbox'[s], ps, p) <=>
              \/ \E e \in Found(s, c) : Peer(e) = p
              \/ (\A e \in Found(s, c) : UserOf[e.sid] # p.user) /\ Shows(inbox[s], ps, p)
  <1> DEFINE self == Joined(c, {NewEntry(s)})
             found == Joined(c, Found(s, c))
             first == Append(inbox[s], self)
  <1>1. c \in Channels /\ next_ssrc \in Ssrcs
    BY DEF Channels, OnJoinVoice, IndInv, TypeOK, Ssrcs
  <1>2. self \in Messages /\ found \in Messages /\ inbox[s] \in Seq(Messages)
    BY <1>1, EnvelopesSent
  <1>3. first \in Seq(Messages)
    BY <1>2
  <1>4. /\ self.kind = "joined" /\ self.peers = {Peer(NewEntry(s))}
        /\ Peer(NewEntry(s)).user = UserOf[s]
        /\ found.kind = "joined" /\ found.peers = {Peer(e) : e \in Found(s, c)}
        /\ \A e : Peer(e).user = UserOf[e.sid]
    BY DEF Joined, Peer, NewEntry
  <1>5. /\ ~Mentions(self, p.user) /\ p \notin self.peers
        /\ p \in found.peers <=> \E e \in Found(s, c) : Peer(e) = p
        /\ Mentions(found, p.user) <=> \E e \in Found(s, c) : UserOf[e.sid] = p.user
    BY <1>4 DEF Mentions
  <1>6. inbox'[s] = IF Found(s, c) = {} THEN first ELSE Append(first, found)
    BY JoinInbox
  <1> HIDE DEF self, found
  <1>7. Shows(first, ps, p) <=> Shows(inbox[s], ps, p)
    BY <1>2, <1>5, AppendShows
  <1> HIDE DEF first
  <1>8. Shows(Append(first, found), ps, p) <=>
            p \in found.peers \/ (~Mentions(found, p.user) /\ Shows(first, ps, p))
    BY <1>2, <1>3, <1>4, AppendShows
  <1> QED BY <1>5, <1>6, <1>7, <1>8

-----------------------------------------------------------------------------
(* The rooms after a join or a leave *)

(* What is left of a room once s has left its room.                        *)
LEMMA RemovedIs ==
    ASSUME ConstantsAssumption, IndInv, NEW s \in Sockets, NEW d \in Channels
    PROVE  Found(s, d) = {e \in voice_rooms[d] : e.sid # s}
  <1>1. /\ \A e \in voice_rooms[d] : sess[e.sid].room = d
        /\ sess[s].room \in Channels /\ voice_rooms \in [Channels -> SUBSET Entries]
    BY DEF IndInv, TypeOK, RoomsMatchSessions, NoGhosts
  <1>2. Found(s, d) = {e \in voice_rooms[d] : d = sess[s].room => e.sid # s}
    BY <1>1 DEF Found, RemoveFromVoiceRoom
  <1> QED BY <1>1, <1>2

(* A join moves the entry of the joiner and touches no other.              *)
LEMMA JoinRooms ==
    ASSUME ConstantsAssumption, IndInv, NEW s \in Sockets, NEW c \in Rooms, OnJoinVoice(s, c)
    PROVE  /\ conn' = conn
           /\ sess'[s].room = c /\ \A t \in Sockets : t # s => sess'[t].room = sess[t].room
           /\ \A d \in Channels : \A e : e \in voice_rooms'[d] <=>
                 (e \in voice_rooms[d] /\ e.sid # s) \/ (d = c /\ e = NewEntry(s))
  <1>1. conn' = conn /\ sess'[s].room = c /\ \A t \in Sockets : t # s => sess'[t].room = sess[t].room
    BY DEF OnJoinVoice, IndInv, TypeOK
  <1>2. RemoveFromVoiceRoom(s, sess[s].room) \in [Channels -> SUBSET Entries]
    BY LeaveType DEF IndInv, TypeOK
  <1>3. voice_rooms' = [RemoveFromVoiceRoom(s, sess[s].room) EXCEPT ![c] = Found(s, c) \cup {NewEntry(s)}]
    BY DEF OnJoinVoice, Found, NewEntry
  <1>4. c \in Channels
    BY DEF Channels
  <1>5. \A d \in Channels : voice_rooms'[d] = IF d = c THEN Found(s, c) \cup {NewEntry(s)} ELSE Found(s, d)
    BY <1>2, <1>3, <1>4 DEF Found
  <1>6. \A d \in Channels : Found(s, d) = {e \in voice_rooms[d] : e.sid # s}
    BY RemovedIs
  <1> QED BY <1>1, <1>4, <1>5, <1>6

LeavesRoom(s) == OnClose(s) \/ (sess[s].room # NoRoom /\ OnLeaveVoice(s, sess[s].room))

(* A leave or a close takes the entry away and touches no other.           *)
LEMMA LeaveRooms ==
    ASSUME ConstantsAssumption, IndInv, NEW s \in Sockets, LeavesRoom(s)
    PROVE  /\ \A t \in Sockets : t # s => conn'[t] = conn[t] /\ sess'[t].room = sess[t].room
           /\ sess'[s].room = NoRoom
           /\ \A d \in Channels : \A e : e \in voice_rooms'[d] <=> e \in voice_rooms[d] /\ e.sid # s
           /\ \E n \in Channels : \A t \in Sockets : t # s => inbox'[t] = AfterLeave(s, t, n)
           /\ conn'[s] = "open" => inbox'[s] = inbox[s]
  <1>1. /\ \A t \in Sockets : t # s => conn'[t] = conn[t] /\ sess'[t].room = sess[t].room
        /\ sess'[s].room = NoRoom
    BY DEF LeavesRoom, OnClose, OnLeaveVoice, IndInv, TypeOK
  <1>2. voice_rooms' = RemoveFromVoiceRoom(s, sess[s].room)
    BY DEF LeavesRoom, OnClose, OnLeaveVoice
  <1>3. \A d \in Channels : voice_rooms'[d] = {e \in voice_rooms[d] : e.sid # s}
    BY <1>2, RemovedIs DEF Found
  <1>4. CASE OnClose(s)
    <2>1. conn'[s] = "closed" /\ NoRoom \in Channels
      BY <1>4 DEF OnClose, IndInv, TypeOK, Channels
    <2>2. \A t \in Sockets : t # s => inbox'[t] = NotifyLeft(s, sess[s].room, NoRoom)[t]
      BY <1>4 DEF OnClose, NotifyLeft, Send
    <2>3. \A t \in Sockets : t # s => inbox'[t] = AfterLeave(s, t, NoRoom)
      BY <2>2, LeaveInbox
    <2> QED BY <1>1, <1>3, <2>1, <2>3
  <1>5. CASE sess[s].room # NoRoom /\ OnLeaveVoice(s, sess[s].room)
    <2>1. inbox' = NotifyLeft(s, sess[s].room, sess[s].room) /\ sess[s].room \in Channels
      BY <1>5 DEF OnLeaveVoice, IndInv, TypeOK
    <2>2. \A t \in Sockets : inbox'[t] = AfterLeave(s, t, sess[s].room)
      BY <2>1, LeaveInbox
    <2>3. inbox'[s] = inbox[s]
      BY <2>2 DEF AfterLeave, Beside
    <2> QED BY <1>1, <1>3, <2>1, <2>2, <2>3
  <1> QED BY <1>4, <1>5 DEF LeavesRoom

-----------------------------------------------------------------------------
(* The steps of the composed specification *)

Joins(s, c) ==
    /\ OnJoinVoice(s, c)
    /\ \/ phase[s] = "start" /\ c = StartRoom /\ phase' = [phase EXCEPT ![s] = "joining"]
          /\ switched' = switched
       \/ phase[s] = "reading" /\ phase' = phase /\ switched' = switched \cup {s}
    /\ peers' = peers

Leaves(s) ==
    /\ LeavesRoom(s)
    /\ conn'[s] = "open" => s \in switched'
    /\ switched \subseteq switched'
    /\ phase' = phase /\ peers' = peers

Reads(s) == ReadSelf(s) \/ ReadJoined(s) \/ ReadLeft(s)

Rests == inbox' = inbox /\ voice_rooms' = voice_rooms /\ conn' = conn /\ UNCHANGED clientVars
         /\ \A t \in Sockets : sess'[t].room = sess[t].room

(* Each step joins, leaves, reads, or changes nothing that matters here.   *)
LEMMA Steps ==
    ASSUME ConstantsAssumption, IndInv, [SessionNext]_vars
    PROVE  \/ Rests
           \/ \E s \in Sockets : Leaves(s) \/ Reads(s) \/ \E c \in Rooms : Joins(s, c)
  <1>1. CASE UNCHANGED vars
    BY <1>1 DEF vars, serverVars, clientVars, Rests
  <1>2. ASSUME NEW s \in Sockets, Hello(s) PROVE Rests
    BY <1>2 DEF Hello, OnHello, Rests, IndInv, TypeOK
  <1>3. ASSUME NEW s \in Sockets, JoinVoice(s) PROVE Joins(s, StartRoom) /\ StartRoom \in Rooms
    BY <1>3, ClientAssumption DEF JoinVoice, Joins
  <1>4. ASSUME NEW s \in Sockets, Disconnect(s) PROVE Leaves(s)
    <2>1. conn'[s] = "closed"
      BY <1>4 DEF Disconnect, OnClose, IndInv, TypeOK
    <2> QED BY <1>4, <2>1 DEF Disconnect, Leaves, LeavesRoom, clientVars
  <1>5. ASSUME NEW s \in Sockets, GuiLeaveVoice(s) PROVE Leaves(s)
    BY <1>5 DEF GuiLeaveVoice, Leaves, LeavesRoom
  <1>6. ASSUME NEW s \in Sockets, NEW c \in Rooms, GuiJoinVoice(s, c) PROVE Joins(s, c)
    BY <1>6 DEF GuiJoinVoice, Joins
  <1>7. CASE SessionNext
    BY <1>2, <1>3, <1>4, <1>5, <1>6, <1>7 DEF SessionNext, Reads
  <1> QED BY <1>1, <1>7

(* A client takes what it reads for granted.                               *)
LEMMA ReadFacts ==
    ASSUME ConstantsAssumption, IndInv, PeerInv, NEW s \in Sockets, Reads(s)
    PROVE  /\ inbox[s] \in Seq(Messages) /\ inbox[s] # <<>>
           /\ inbox' = [inbox EXCEPT ![s] = Tail(inbox[s])]
           /\ voice_rooms' = voice_rooms /\ conn' = conn /\ sess' = sess /\ switched' = switched
           /\ phase' \in [Sockets -> {"start", "joining", "reading"}]
           /\ phase'[s] = "reading" /\ \A t \in Sockets : t # s => phase'[t] = phase[t]
           /\ peers' \in [Sockets -> SUBSET Peers]
           /\ \A t \in Sockets : t # s => peers'[t] = peers[t]
           /\ \A p \in peers'[s] : p.user # UserOf[s]
           /\ \A p \in Peers : p.user # UserOf[s] /\ OneDevice(p.user) =>
                 (p \in peers'[s] <=> \/ Head(inbox[s]).kind = "joined" /\ p \in Head(inbox[s]).peers
                                      \/ ~Mentions(Head(inbox[s]), p.user) /\ p \in peers[s])
  <1> DEFINE m == Head(inbox[s])
  <1>1. /\ inbox[s] \in Seq(Messages) /\ inbox[s] # <<>>
        /\ inbox' = [inbox EXCEPT ![s] = Tail(inbox[s])]
        /\ voice_rooms' = voice_rooms /\ conn' = conn /\ sess' = sess
    BY DEF Reads, ReadSelf, ReadJoined, ReadLeft, Deliver, IndInv, TypeOK
  <1>2. m \in Messages /\ m = inbox[s][1] /\ 1 \in DOMAIN inbox[s]
    BY <1>1
  <1>3. m.kind = "joined" => m.peers \in SUBSET Peers
    BY <1>2 DEF Messages
  <1>4. NamedOnce(m)
    BY <1>2 DEF PeerInv, InboxInv
  <1>5. /\ phase \in [Sockets -> {"start", "joining", "reading"}]
        /\ peers \in [Sockets -> SUBSET Peers]
        /\ \A p \in peers[s] : p.user # UserOf[s]
    BY DEF PeerInv, PeerTypes
  <1>6. /\ m.kind = "joined" => Others(s, m.peers) \in SUBSET Peers
        /\ \A p \in Others(s, m.peers) : p \in m.peers /\ p.user # UserOf[s]
    BY <1>3 DEF Others
  <1>7. ASSUME m.kind = "joined", NEW p \in Peers, p.user # UserOf[s], OneDevice(p.user)
        PROVE  p \in Others(s, m.peers) <=> p \in m.peers
    <2>1. ASSUME p \in m.peers, NEW q \in m.peers, q.user = p.user PROVE q.ssrc <= p.ssrc
      <3>1. q = p
        BY <1>4, <1>7, <2>1 DEF NamedOnce
      <3>2. p.ssrc \in Nat
        BY DEF Peers, Ssrcs
      <3> QED BY <3>1, <3>2
    <2> QED BY <1>7, <2>1 DEF Others
  <1>8. CASE ReadSelf(s)
    <2>1. phase[s] = "joining" /\ m.kind = "joined" /\ switched' = switched /\ m.peers \in SUBSET Peers
      BY <1>3, <1>8 DEF ReadSelf
    <2>2. /\ peers[s] = {} /\ \A p \in m.peers : p.user = UserOf[s]
          /\ \E p \in m.peers : p.user = UserOf[s]
      BY <1>1, <2>1 DEF PeerInv, PhaseInv
    <2>3. phase' = [phase EXCEPT ![s] = "reading"]
      BY <1>8, <2>2 DEF ReadSelf
    <2>4. peers' = [peers EXCEPT ![s] = {} \cup Others(s, m.peers)]
      BY <1>8, <2>2 DEF ReadSelf
    <2>5. peers'[s] = {} /\ peers' \in [Sockets -> SUBSET Peers]
      BY <1>5, <1>6, <2>2, <2>4
    <2>6. \A p \in Peers : p.user # UserOf[s] => p \notin m.peers /\ p \notin peers[s]
      BY <2>2
    <2>7. /\ phase'[s] = "reading" /\ \A t \in Sockets : t # s => phase'[t] = phase[t] /\ peers'[t] = peers[t]
          /\ phase' \in [Sockets -> {"start", "joining", "reading"}]
      BY <1>5, <2>3, <2>4
    <2> QED BY <1>1, <2>1, <2>5, <2>6, <2>7
  <1>9. CASE ReadJoined(s)
    <2> DEFINE new == Others(s, m.peers)
               old == {p \in peers[s] : \A q \in new : q.user # p.user}
    <2>1. /\ m.kind = "joined" /\ phase[s] = "reading" /\ phase' = phase /\ switched' = switched
          /\ peers' = [peers EXCEPT ![s] = old \cup new]
      BY <1>9 DEF ReadJoined
    <2>2. peers'[s] = old \cup new /\ peers' \in [Sockets -> SUBSET Peers]
      BY <1>5, <1>6, <2>1
    <2>3. \A p \in peers'[s] : p.user # UserOf[s]
      BY <1>5, <1>6, <2>2
    <2>4. ASSUME NEW p \in Peers, p.user # UserOf[s], OneDevice(p.user)
          PROVE  p \in peers'[s] <=> p \in m.peers \/ (~Mentions(m, p.user) /\ p \in peers[s])
      <3>1. p \in new <=> p \in m.peers
        BY <1>7, <2>1, <2>4
      <3>2. ASSUME NEW q \in m.peers, q.user = p.user PROVE q \in new
        <4>1. q \in Peers
          BY <1>3, <2>1
        <4> QED BY <1>7, <2>1, <2>4, <3>2, <4>1
      <3>3. Mentions(m, p.user) <=> \E q \in new : q.user = p.user
        BY <1>6, <2>1, <3>2 DEF Mentions
      <3> QED BY <2>2, <3>1, <3>3
    <2>5. \A t \in Sockets : t # s => peers'[t] = peers[t]
      BY <1>5, <2>1
    <2> QED BY <1>1, <1>5, <2>1, <2>2, <2>3, <2>4, <2>5
  <1>10. CASE ReadLeft(s)
    <2>1. /\ m.kind = "left" /\ phase[s] = "reading" /\ phase' = phase /\ switched' = switched
          /\ peers' = [peers EXCEPT ![s] = {p \in peers[s] : p.user # m.user}]
      BY <1>10 DEF ReadLeft
    <2>2. \A u : Mentions(m, u) <=> u = m.user
      BY <2>1 DEF Mentions
    <2>3. peers'[s] = {p \in peers[s] : p.user # m.user} /\ peers' \in [Sockets -> SUBSET Peers]
      BY <1>5, <2>1
    <2>4. \A t \in Sockets : t # s => peers'[t] = peers[t]
      BY <1>5, <2>1
    <2> QED BY <1>1, <1>5, <2>1, <2>2, <2>3, <2>4
  <1> QED BY <1>8, <1>9, <1>10 DEF Reads

-----------------------------------------------------------------------------
(* The invariant *)

(* One more envelope that names users once.                                *)
LEMMA AppendNamed ==
    ASSUME NEW q \in Seq(Messages), NEW m, NamedOnce(m), \A i \in DOMAIN q : NamedOnce(q[i])
    PROVE  \A i \in DOMAIN Append(q, m) : NamedOnce(Append(q, m)[i])
  <1> SUFFICES ASSUME NEW i \in DOMAIN Append(q, m) PROVE NamedOnce(Append(q, m)[i])
    OBVIOUS
  <1>1. Append(q, m)[i] = m \/ (i \in DOMAIN q /\ Append(q, m)[i] = q[i])
    OBVIOUS
  <1> QED BY <1>1

(* What the gateway sends names a user on one device once.                 *)
LEMMA InboxNext ==
    ASSUME ConstantsAssumption, IndInv, PeerInv, [SessionNext]_vars
    PROVE  InboxInv'
  <1> DEFINE Named(q) == \A i \in DOMAIN q : NamedOnce(q[i])
  <1> SUFFICES ASSUME NEW t \in Sockets PROVE Named(inbox'[t])
    BY DEF InboxInv, NamedOnce, OneDevice
  <1>1. inbox[t] \in Seq(Messages) /\ Named(inbox[t]) /\ Named(<<>>)
    BY DEF PeerInv, InboxInv, IndInv, TypeOK
  <1>2. \A n, s : NamedOnce(Left(n, s))
    BY DEF NamedOnce, Left
  <1>3. ASSUME NEW s \in Sockets, NEW n \in Channels
        PROVE  Named(AfterLeave(s, t, n)) /\ AfterLeave(s, t, n) \in Seq(Messages)
    <2>1. AfterLeave(s, t, n) \in Seq(Messages)
      BY <1>3, LeaveShows
    <2>2. Named(Append(inbox[t], Left(n, s)))
      BY <1>1, <1>2, AppendNamed
    <2> QED BY <1>1, <2>1, <2>2 DEF AfterLeave
  <1>4. CASE Rests
    BY <1>1, <1>4 DEF Rests
  <1>5. ASSUME NEW s \in Sockets, Leaves(s) PROVE Named(inbox'[t])
    <2>1. CASE t # s
      BY <1>3, <1>5, <2>1, LeaveRooms DEF Leaves
    <2>2. CASE t = s
      <3>1. inbox'[s] = inbox[s] \/ inbox'[s] = <<>>
        <4>1. CASE OnClose(s)
          <5>1. NotifyLeft(s, sess[s].room, NoRoom) = [x \in Sockets |-> NotifyLeft(s, sess[s].room, NoRoom)[x]]
            BY DEF NotifyLeft, Send
          <5> QED BY <4>1, <5>1 DEF OnClose
        <4>2. CASE ~OnClose(s)
          <5>1. inbox' = NotifyLeft(s, sess[s].room, sess[s].room)
            BY <1>5, <4>2 DEF Leaves, LeavesRoom, OnLeaveVoice
          <5>2. inbox'[s] = AfterLeave(s, s, sess[s].room)
            BY <5>1, LeaveInbox
          <5> QED BY <5>2 DEF AfterLeave, Beside
        <4> QED BY <4>1, <4>2
      <3> QED BY <1>1, <2>2, <3>1
    <2> QED BY <2>1, <2>2
  <1>6. ASSUME NEW s \in Sockets, Reads(s) PROVE Named(inbox'[t])
    <2>1. inbox'[t] = inbox[t] \/ (inbox[t] # <<>> /\ inbox'[t] = Tail(inbox[t]))
      BY <1>6, ReadFacts DEF IndInv, TypeOK
    <2>2. inbox[t] # <<>> => \A i \in DOMAIN Tail(inbox[t]) : i + 1 \in DOMAIN inbox[t] /\ Tail(inbox[t])[i] = inbox[t][i + 1]
      BY <1>1
    <2> QED BY <1>1, <2>1, <2>2
  <1>7. ASSUME NEW s \in Sockets, NEW c \in Rooms, Joins(s, c) PROVE Named(inbox'[t])
    <2> DEFINE self == Joined(c, {NewEntry(s)})
               found == Joined(c, Found(s, c))
               told == AfterLeave(s, t, NoRoom)
    <2>1. OnJoinVoice(s, c) /\ c \in Channels /\ NoRoom \in Channels /\ next_ssrc \in Ssrcs
      BY <1>7 DEF Joins, Channels, OnJoinVoice, IndInv, TypeOK, Ssrcs
    <2>2. self \in Messages /\ found \in Messages /\ Found(s, c) \in SUBSET Entries
      BY <2>1, EnvelopesSent
    <2>3. NamedOnce(self)
      BY DEF NamedOnce, Joined
    <2>4. NamedOnce(found)
      <3> SUFFICES ASSUME NEW e \in Found(s, c), NEW f \in Found(s, c), UserOf[e.sid] = UserOf[f.sid],
                          OneDevice(UserOf[e.sid])
                   PROVE  e = f
        BY DEF NamedOnce, Joined, Peer
      <3>1. e \in voice_rooms[c] /\ f \in voice_rooms[c] /\ e.sid \in Sockets /\ f.sid \in Sockets
        BY <2>1, <2>2, RemovedIs DEF Entries
      <3>2. e.sid = f.sid
        BY <3>1 DEF OneDevice
      <3> QED BY <2>1, <3>1, <3>2 DEF IndInv, RoomsMatchSessions, ListedOnce
    <2>5. told \in Seq(Messages) /\ Named(told)
      BY <1>3, <2>1
    <2>6. Append(inbox[t], self) \in Seq(Messages)
      BY <1>1, <2>2
    <2>7. \/ inbox'[t] = Append(inbox[t], self) \/ inbox'[t] = Append(Append(inbox[t], self), found)
          \/ inbox'[t] = Append(told, self) \/ inbox'[t] = told
      BY <2>1, JoinInbox
    <2> HIDE DEF self, found, told
    <2>8. Named(Append(inbox[t], self)) /\ Named(Append(told, self))
      BY <1>1, <2>3, <2>5, AppendNamed
    <2>9. Named(Append(Append(inbox[t], self), found))
      BY <2>4, <2>6, <2>8, AppendNamed
    <2> HIDE DEF Named
    <2> QED BY <2>5, <2>7, <2>8, <2>9
  <1> QED BY <1>4, <1>5, <1>6, <1>7, Steps

(* The peer lists keep their type and never list the client itself.        *)
LEMMA TypesNext ==
    ASSUME ConstantsAssumption, IndInv, PeerInv, [SessionNext]_vars
    PROVE  PeerTypes'
  <1>1. PeerTypes
    BY DEF PeerInv
  <1>2. CASE Rests
    BY <1>1, <1>2 DEF PeerTypes, Rests, clientVars, Peers, Ssrcs
  <1>3. ASSUME NEW s \in Sockets, Leaves(s) PROVE PeerTypes'
    BY <1>1, <1>3 DEF PeerTypes, Leaves
  <1>4. ASSUME NEW s \in Sockets, NEW c \in Rooms, Joins(s, c) PROVE PeerTypes'
    BY <1>1, <1>4 DEF PeerTypes, Joins
  <1>5. ASSUME NEW s \in Sockets, Reads(s) PROVE PeerTypes'
    BY <1>1, <1>5, ReadFacts DEF PeerTypes
  <1> QED BY <1>2, <1>3, <1>4, <1>5, Steps

(* Until its own entry is read a client has heard of nobody.               *)
LEMMA PhaseNext ==
    ASSUME ConstantsAssumption, IndInv, PeerInv, [SessionNext]_vars
    PROVE  PhaseInv'
  <1> DEFINE Waits(q, ps, u) ==
                 /\ ps = {} /\ q # <<>>
                 /\ Head(q).kind = "joined" /\ Head(q).peers # {}
                 /\ \A p \in Head(q).peers : p.user = u
             Ok(t, q, ps, ph, co, ro) ==
                 /\ co # "open" => q = <<>>
                 /\ ph = "start" => q = <<>> /\ ps = {} /\ ro = NoRoom
                 /\ ph = "joining" /\ co = "open" => Waits(q, ps, UserOf[t])
  <1> SUFFICES ASSUME NEW t \in Sockets
               PROVE  Ok(t, inbox'[t], peers'[t], phase'[t], conn'[t], sess'[t].room)
    BY DEF PhaseInv
  <1>1. /\ Ok(t, inbox[t], peers[t], phase[t], conn[t], sess[t].room)
        /\ inbox[t] \in Seq(Messages)
        /\ phase \in [Sockets -> {"start", "joining", "reading"}]
        /\ sess[t].room # NoRoom => conn[t] = "open"
    BY DEF PeerInv, PeerTypes, PhaseInv, IndInv, TypeOK, RegistryLive, InRoomHearsChat
  <1>2. ASSUME NEW m \in Messages, NEW u, Waits(inbox[t], peers[t], u)
        PROVE  Waits(Append(inbox[t], m), peers[t], u)
    <2>1. Head(Append(inbox[t], m)) = Head(inbox[t]) /\ Append(inbox[t], m) # <<>>
      BY <1>1, <1>2
    <2> QED BY <1>2, <2>1
  <1>3. ASSUME NEW s \in Sockets, NEW n \in Channels
        PROVE  /\ Left(n, s) \in Messages
               /\ \/ AfterLeave(s, t, n) = inbox[t]
                  \/ sess[t].room # NoRoom /\ AfterLeave(s, t, n) = Append(inbox[t], Left(n, s))
    BY EnvelopeType DEF AfterLeave, Beside
  <1>4. CASE Rests
    BY <1>1, <1>4 DEF Rests, clientVars
  <1>5. ASSUME NEW s \in Sockets, Leaves(s)
        PROVE  Ok(t, inbox'[t], peers'[t], phase'[t], conn'[t], sess'[t].room)
    <2>1. phase' = phase /\ peers' = peers
      BY <1>5 DEF Leaves
    <2>2. CASE t # s
      <3>1. PICK n \in Channels : inbox'[t] = AfterLeave(s, t, n)
        BY <1>5, <2>2, LeaveRooms DEF Leaves
      <3>2. conn'[t] = conn[t] /\ sess'[t].room = sess[t].room
        BY <1>5, <2>2, LeaveRooms DEF Leaves
      <3>3. CASE inbox'[t] = inbox[t]
        BY <1>1, <2>1, <3>2, <3>3
      <3>4. CASE inbox'[t] # inbox[t]
        <4>1. /\ sess[t].room # NoRoom /\ conn[t] = "open" /\ phase[t] # "start"
              /\ inbox'[t] = Append(inbox[t], Left(n, s)) /\ Left(n, s) \in Messages
          BY <1>1, <1>3, <3>1, <3>4
        <4>2. phase[t] = "joining" => Waits(inbox'[t], peers[t], UserOf[t])
          BY <1>1, <1>2, <4>1
        <4> HIDE DEF Waits
        <4> QED BY <2>1, <3>2, <4>1, <4>2
      <3> QED BY <3>3, <3>4
    <2>3. CASE t = s
      <3>1. sess'[s].room = NoRoom /\ (conn'[s] = "open" => inbox'[s] = inbox[s])
        BY <1>5, LeaveRooms DEF Leaves
      <3>2. \/ conn'[s] = "closed" /\ inbox'[s] = <<>>
            \/ conn'[s] = conn[s] /\ conn[s] = "open"
        <4>1. NotifyLeft(s, sess[s].room, NoRoom) = [x \in Sockets |-> NotifyLeft(s, sess[s].room, NoRoom)[x]]
          BY DEF NotifyLeft, Send
        <4>2. OnClose(s) => conn'[s] = "closed" /\ inbox'[s] = <<>>
          BY <4>1 DEF OnClose, IndInv, TypeOK
        <4> QED BY <1>5, <4>2 DEF Leaves, LeavesRoom, OnLeaveVoice
      <3> HIDE DEF Waits
      <3> QED BY <1>1, <2>1, <2>3, <3>1, <3>2
    <2> QED BY <2>2, <2>3
  <1>6. ASSUME NEW s \in Sockets, Reads(s)
        PROVE  Ok(t, inbox'[t], peers'[t], phase'[t], conn'[t], sess'[t].room)
    <2>1. CASE t # s
      BY <1>1, <1>6, <2>1, ReadFacts DEF IndInv, TypeOK
    <2>2. CASE t = s
      <3>1. phase'[s] = "reading" /\ conn' = conn /\ inbox[s] # <<>>
        BY <1>6, ReadFacts
      <3> QED BY <1>1, <2>2, <3>1
    <2> QED BY <2>1, <2>2
  <1>7. ASSUME NEW s \in Sockets, NEW c \in Rooms, Joins(s, c)
        PROVE  Ok(t, inbox'[t], peers'[t], phase'[t], conn'[t], sess'[t].room)
    <2> DEFINE self == Joined(c, {NewEntry(s)})
               found == Joined(c, Found(s, c))
               told == AfterLeave(s, t, NoRoom)
    <2>1. OnJoinVoice(s, c) /\ peers' = peers /\ NoRoom \in Channels /\ conn[s] = "open" /\ c # NoRoom
      BY <1>7 DEF Joins, Channels, OnJoinVoice, ConstantsAssumption
    <2>2. conn' = conn /\ sess'[s].room = c /\ (t # s => sess'[t].room = sess[t].room)
      BY <2>1, JoinRooms
    <2>3. CASE t # s
      <3>1. inbox'[t] = told \/ (sess[t].room = c /\ inbox'[t] = Append(told, self))
        BY <2>1, <2>3, JoinInbox
      <3>2. phase'[t] = phase[t]
        BY <1>1, <1>7, <2>3 DEF Joins
      <3>3. told = inbox[t] \/ (sess[t].room # NoRoom /\ told = Append(inbox[t], Left(NoRoom, s)))
        BY <1>3, <2>1
      <3>4. Left(NoRoom, s) \in Messages
        BY <2>1, EnvelopeType
      <3>5. Append(inbox[t], Left(NoRoom, s)) \in Seq(Messages)
        BY <1>1, <3>4
      <3>6. \A u : Waits(inbox[t], peers[t], u) => Waits(told, peers[t], u)
        <4> HIDE DEF Waits
        <4> QED BY <1>2, <3>3, <3>4
      <3>7. told \in Seq(Messages)
        BY <1>1, <3>3, <3>5
      <3> HIDE DEF self, told
      <3>8. \A u : Waits(told, peers[t], u) => Waits(Append(told, self), peers[t], u)
        BY <3>7
      <3> HIDE DEF Waits
      <3> QED BY <1>1, <2>1, <2>2, <2>3, <3>1, <3>2, <3>3, <3>6, <3>8
    <2>4. CASE t = s
      <3>1. inbox'[t] = Append(inbox[t], self) \/ inbox'[t] = Append(Append(inbox[t], self), found)
        BY <2>1, <2>4, JoinInbox
      <3>2. \/ phase[s] = "start" /\ phase'[s] = "joining"
            \/ phase[s] = "reading" /\ phase'[s] = "reading"
        BY <1>1, <1>7 DEF Joins
      <3>3. self.kind = "joined" /\ self.peers = {Peer(NewEntry(s))} /\ Peer(NewEntry(s)).user = UserOf[s]
        BY DEF Joined, Peer, NewEntry
      <3>4. ASSUME phase[s] = "start" PROVE Waits(inbox'[t], peers'[t], UserOf[t])
        <4>1. inbox[t] = <<>> /\ peers[t] = {}
          BY <1>1, <2>4, <3>4
        <4> HIDE DEF self, found
        <4>2. Head(Append(<<>>, self)) = self /\ Head(Append(Append(<<>>, self), found)) = self
              /\ Append(<<>>, self) # <<>> /\ Append(Append(<<>>, self), found) # <<>>
          OBVIOUS
        <4>3. Head(inbox'[t]) = self /\ inbox'[t] # <<>>
          BY <3>1, <4>1, <4>2
        <4> QED BY <2>1, <2>4, <3>3, <4>1, <4>3
      <3> HIDE DEF Waits
      <3> QED BY <1>1, <2>1, <2>2, <2>4, <3>2, <3>4
    <2> QED BY <2>3, <2>4
  <1> QED BY <1>4, <1>5, <1>6, <1>7, Steps

(* The entries of a room are sockets, and that of a user on one device is  *)
(* its socket's.                                                           *)
LEMMA EntryFacts ==
    ASSUME ConstantsAssumption, IndInv
    PROVE  /\ \A t \in Sockets : sess[t].room \in Channels /\ inbox[t] \in Seq(Messages)
           /\ \A d \in Channels : \A e \in voice_rooms[d] :
                 /\ d # NoRoom /\ e.sid \in Sockets /\ sess[e.sid].room = d
                 /\ Peer(e) \in Peers /\ Peer(e).user = UserOf[e.sid]
           /\ \A d \in Channels : \A e, f \in voice_rooms[d] : e.sid = f.sid => e = f
  <1>1. \A t \in Sockets : sess[t].room \in Channels /\ inbox[t] \in Seq(Messages)
    BY DEF IndInv, TypeOK
  <1>2. \A d \in Channels : voice_rooms[d] \in SUBSET Entries
    BY DEF IndInv, TypeOK
  <1>3. \A e \in Entries : e.sid \in Sockets /\ Peer(e) \in Peers /\ Peer(e).user = UserOf[e.sid]
    BY DEF Entries, Peer, Peers, ConstantsAssumption
  <1>4. \A d \in Channels : \A e \in voice_rooms[d] : d # NoRoom /\ sess[e.sid].room = d
    BY DEF IndInv, RoomsMatchSessions, NoGhosts
  <1>5. \A d \in Channels : \A e, f \in voice_rooms[d] : e.sid = f.sid => e = f
    BY DEF IndInv, RoomsMatchSessions, ListedOnce
  <1> QED BY <1>1, <1>2, <1>3, <1>4, <1>5

(* A read changes nothing of what will be shown.                           *)
LEMMA ReadKeeps ==
    ASSUME ConstantsAssumption, IndInv, PeerInv, NEW s \in Sockets, Reads(s),
           NEW t \in Sockets, NEW p \in Peers, p.user # UserOf[t], OneDevice(p.user)
    PROVE  Shows(inbox'[t], peers'[t], p) <=> WillShow(t, p)
  <1>1. inbox \in [Sockets -> Seq(Messages)]
    BY DEF IndInv, TypeOK
  <1>2. CASE t # s
    BY <1>1, <1>2, ReadFacts DEF WillShow
  <1>3. CASE t = s
    <2>1. inbox'[s] = Tail(inbox[s]) /\ inbox[s] # <<>> /\ inbox[s] \in Seq(Messages)
      BY <1>1, ReadFacts
    <2>2. p \in peers'[s] <=> \/ Head(inbox[s]).kind = "joined" /\ p \in Head(inbox[s]).peers
                              \/ ~Mentions(Head(inbox[s]), p.user) /\ p \in peers[s]
      BY <1>3, ReadFacts
    <2>3. Shows(Tail(inbox[s]), peers'[s], p) <=> Shows(inbox[s], peers[s], p)
      BY <2>1, <2>2, ReadShows
    <2> QED BY <1>3, <2>1, <2>3 DEF WillShow
  <1> QED BY <1>2, <1>3

(* No step makes a client miss somebody in its room.                       *)
LEMMA MissesNext ==
    ASSUME ConstantsAssumption, IndInv, PeerInv, [SessionNext]_vars
    PROVE  MissesNobody'
  <1> DEFINE After(t, p) == Shows(inbox'[t], peers'[t], p)
  <1> SUFFICES ASSUME NEW t \in Sockets, NEW e \in voice_rooms'[sess'[t].room],
                      OneDevice(UserOf[e.sid]), e.sid # t, UserOf[e.sid] # UserOf[t],
                      NEW p \in Peers, p.user = UserOf[e.sid]
               PROVE  After(t, p) <=> p = Peer(e)
    BY DEF MissesNobody, InRoomOf, WillShow, OneDevice, Peers, Ssrcs, Peer
  <1>1. e \in voice_rooms[sess[t].room] => (WillShow(t, p) <=> p = Peer(e))
    BY DEF PeerInv, MissesNobody, InRoomOf
  <1>2. CASE Rests
    BY <1>1, <1>2 DEF Rests, WillShow, clientVars
  <1>3. ASSUME NEW s \in Sockets, Reads(s) PROVE After(t, p) <=> p = Peer(e)
    BY <1>1, <1>3, ReadFacts, ReadKeeps
  <1>4. ASSUME NEW s \in Sockets, Leaves(s) PROVE After(t, p) <=> p = Peer(e)
    <2>1. LeavesRoom(s) /\ peers' = peers
      BY <1>4 DEF Leaves
    <2>2. CASE t # s
      <3>1. sess'[t].room = sess[t].room /\ e \in voice_rooms[sess[t].room] /\ e.sid # s
        BY <2>1, <2>2, LeaveRooms, EntryFacts
      <3>2. PICK n \in Channels : inbox'[t] = AfterLeave(s, t, n)
        BY <2>1, <2>2, LeaveRooms
      <3>3. p.user # UserOf[s]
        BY <3>1, EntryFacts DEF OneDevice
      <3>4. After(t, p) <=> WillShow(t, p)
        BY <2>1, <3>2, <3>3, LeaveShows DEF WillShow
      <3> QED BY <1>1, <3>1, <3>4
    <2>3. CASE t = s
      <3>1. sess'[s].room = NoRoom /\ NoRoom \in Channels
        BY <2>1, LeaveRooms DEF Channels
      <3>2. e \in voice_rooms[NoRoom]
        BY <2>1, <2>3, <3>1, LeaveRooms
      <3> QED BY <3>1, <3>2, EntryFacts
    <2> QED BY <2>2, <2>3
  <1>5. ASSUME NEW s \in Sockets, NEW c \in Rooms, Joins(s, c) PROVE After(t, p) <=> p = Peer(e)
    <2>1. OnJoinVoice(s, c) /\ peers' = peers /\ c \in Channels
      BY <1>5 DEF Joins, Channels
    <2>2. CASE t # s
      <3>1. /\ sess'[t].room = sess[t].room /\ sess[t].room \in Channels
            /\ \/ e \in voice_rooms[sess[t].room] /\ e.sid # s
               \/ sess[t].room = c /\ e = NewEntry(s)
        BY <2>1, <2>2, JoinRooms, EntryFacts
      <3>2. CASE e \in voice_rooms[sess[t].room] /\ e.sid # s
        <4>1. p.user # UserOf[s]
          BY <3>1, <3>2, EntryFacts DEF OneDevice
        <4>2. After(t, p) <=> WillShow(t, p)
          BY <2>1, <2>2, <4>1, JoinShows DEF WillShow
        <4> QED BY <1>1, <3>2, <4>2
      <3>3. CASE sess[t].room = c /\ e = NewEntry(s)
        <4>1. p.user = UserOf[s]
          BY <3>3 DEF NewEntry
        <4> QED BY <2>1, <2>2, <3>3, <4>1, JoinShows
      <3> QED BY <3>1, <3>2, <3>3
    <2>3. CASE t = s
      <3>1. sess'[s].room = c /\ e \in voice_rooms[c] /\ e.sid # s
        BY <2>1, <2>3, JoinRooms DEF NewEntry
      <3>2. Found(s, c) = {f \in voice_rooms[c] : f.sid # s}
        BY <2>1, RemovedIs
      <3>3. e \in Found(s, c) /\ e.sid \in Sockets
        BY <2>1, <3>1, <3>2, EntryFacts
      <3>4. \A f \in Found(s, c) : Peer(f) = p => f = e
        <4> SUFFICES ASSUME NEW f \in Found(s, c), Peer(f) = p PROVE f = e
          OBVIOUS
        <4>1. f \in voice_rooms[c] /\ f.sid \in Sockets /\ UserOf[f.sid] = UserOf[e.sid]
          BY <2>1, <3>2, EntryFacts
        <4>2. f.sid = e.sid
          BY <3>3, <4>1 DEF OneDevice
        <4> QED BY <2>1, <3>1, <4>1, <4>2, EntryFacts
      <3>5. After(s, p) <=> \/ \E f \in Found(s, c) : Peer(f) = p
                            \/ (\A f \in Found(s, c) : UserOf[f.sid] # p.user) /\ Shows(inbox[s], peers'[s], p)
        BY <2>1, <2>3, JoinerShows
      <3> QED BY <2>3, <3>3, <3>4, <3>5
    <2> QED BY <2>2, <2>3
  <1> QED BY <1>2, <1>3, <1>4, <1>5, Steps

(* No step makes a client in its first room show somebody who is not there.*)
LEMMA ElseNext ==
    ASSUME ConstantsAssumption, IndInv, PeerInv, [SessionNext]_vars
    PROVE  ShowsNobodyElse'
  <1> DEFINE After(t, p) == Shows(inbox'[t], peers'[t], p)
  <1> SUFFICES ASSUME NEW t \in Sockets, t \notin switched', conn'[t] = "open",
                      NEW p \in Peers, After(t, p), OneDevice(p.user), p.user # UserOf[t]
               PROVE  \E e \in voice_rooms'[sess'[t].room] : Peer(e) = p
    BY DEF ShowsNobodyElse, WillShow, Present, OneDevice, Peers, Ssrcs, Peer
  <1>1. ASSUME t \notin switched, conn[t] = "open", WillShow(t, p)
        PROVE  \E e \in voice_rooms[sess[t].room] : Peer(e) = p
    BY <1>1 DEF PeerInv, ShowsNobodyElse, Present
  <1>2. CASE Rests
    BY <1>1, <1>2 DEF Rests, WillShow, clientVars
  <1>3. ASSUME NEW s \in Sockets, Reads(s) PROVE \E e \in voice_rooms'[sess'[t].room] : Peer(e) = p
    <2>1. /\ voice_rooms' = voice_rooms /\ conn' = conn /\ sess' = sess /\ switched' = switched
          /\ WillShow(t, p)
      BY <1>3, ReadFacts, ReadKeeps
    <2> QED BY <1>1, <2>1
  <1>4. ASSUME NEW s \in Sockets, Leaves(s) PROVE \E e \in voice_rooms'[sess'[t].room] : Peer(e) = p
    <2>1. LeavesRoom(s) /\ peers' = peers /\ t \notin switched /\ t # s
      BY <1>4 DEF Leaves
    <2>2. /\ sess'[t].room = sess[t].room /\ conn[t] = "open" /\ sess[t].room \in Channels
          /\ \A d \in Channels : \A e : e \in voice_rooms'[d] <=> e \in voice_rooms[d] /\ e.sid # s
      BY <2>1, LeaveRooms, EntryFacts
    <2>3. PICK n \in Channels : inbox'[t] = AfterLeave(s, t, n)
      BY <2>1, LeaveRooms
    <2>4. WillShow(t, p) /\ (p.user # UserOf[s] \/ ~Beside(s, t))
      BY <2>1, <2>3, LeaveShows DEF WillShow
    <2>5. PICK e \in voice_rooms[sess[t].room] : Peer(e) = p
      BY <1>1, <2>1, <2>2, <2>4
    <2>6. e.sid \in Sockets /\ sess[e.sid].room = sess[t].room /\ sess[t].room # NoRoom /\ UserOf[e.sid] = p.user
      BY <2>2, <2>5, EntryFacts
    <2>7. e.sid # s
      BY <2>1, <2>4, <2>6 DEF Beside
    <2> QED BY <2>2, <2>5, <2>7
  <1>5. ASSUME NEW s \in Sockets, NEW c \in Rooms, Joins(s, c)
        PROVE  \E e \in voice_rooms'[sess'[t].room] : Peer(e) = p
    <2>1. OnJoinVoice(s, c) /\ peers' = peers /\ c \in Channels /\ t \notin switched /\ conn[t] = "open"
      BY <1>5, JoinRooms DEF Joins, Channels
    <2>2. \A d \in Channels : \A e : e \in voice_rooms'[d] <=>
              (e \in voice_rooms[d] /\ e.sid # s) \/ (d = c /\ e = NewEntry(s))
      BY <2>1, JoinRooms
    <2>3. CASE t # s
      <3>1. sess'[t].room = sess[t].room /\ sess[t].room \in Channels
        BY <2>1, <2>3, JoinRooms, EntryFacts
      <3>2. CASE p.user = UserOf[s] /\ sess[t].room = c
        <4>1. p = Peer(NewEntry(s))
          BY <2>1, <2>3, <3>2, JoinShows
        <4> QED BY <2>1, <2>2, <3>1, <3>2, <4>1
      <3>3. CASE ~(p.user = UserOf[s] /\ sess[t].room = c)
        <4>1. WillShow(t, p) /\ (p.user = UserOf[s] => ~Beside(s, t))
          BY <2>1, <2>3, <3>3, JoinShows DEF WillShow
        <4>2. PICK e \in voice_rooms[sess[t].room] : Peer(e) = p
          BY <1>1, <2>1, <4>1
        <4>3. /\ e.sid \in Sockets /\ sess[e.sid].room = sess[t].room /\ sess[t].room # NoRoom
              /\ UserOf[e.sid] = p.user
          BY <3>1, <4>2, EntryFacts
        <4>4. e.sid # s
          BY <2>3, <4>1, <4>3 DEF Beside
        <4> QED BY <2>2, <3>1, <4>2, <4>4
      <3> QED BY <3>2, <3>3
    <2>4. CASE t = s
      <3>1. phase[s] = "start"
        BY <1>5, <2>4 DEF Joins
      <3>2. inbox[s] = <<>> /\ peers[s] = {}
        BY <3>1 DEF PeerInv, PhaseInv
      <3>3. ~Shows(inbox[s], peers'[s], p)
        BY <2>1, <3>2 DEF Shows
      <3>4. PICK e \in Found(s, c) : Peer(e) = p
        BY <2>1, <2>4, <3>3, JoinerShows
      <3>5. e \in voice_rooms[c] /\ e.sid # s
        BY <2>1, <3>4, RemovedIs
      <3>6. sess'[s].room = c
        BY <2>1, JoinRooms
      <3> QED BY <2>1, <2>2, <2>4, <3>4, <3>5, <3>6
    <2> QED BY <2>3, <2>4
  <1> QED BY <1>2, <1>3, <1>4, <1>5, Steps

(* At first nobody shows anybody.                                          *)
LEMMA PeerInit == ConstantsAssumption /\ SessionInit => PeerInv
  <1> SUFFICES ASSUME ConstantsAssumption, SessionInit PROVE PeerInv
    OBVIOUS
  <1>1. /\ \A s \in Sockets : inbox[s] = <<>> /\ peers[s] = {} /\ sess[s].room = NoRoom /\ phase[s] = "start"
        /\ voice_rooms[NoRoom] = {}
        /\ phase \in [Sockets -> {"start", "joining", "reading"}] /\ peers \in [Sockets -> SUBSET Peers]
    BY DEF SessionInit, Init, Channels
  <1>2. \A s \in Sockets : \A p : ~WillShow(s, p)
    BY <1>1 DEF WillShow, Shows
  <1> QED BY <1>1, <1>2 DEF PeerInv, PeerTypes, PhaseInv, InboxInv, MissesNobody, ShowsNobodyElse, InRoomOf

(* What the clients list and have not read yet always adds up to the room. *)
THEOREM PeersInvariant == SessionSpec => []PeerInv
  <1>1. SessionInit => PeerInv
    BY ConstantsAssumption, PeerInit
  <1>2. IndInv /\ PeerInv /\ [SessionNext]_vars => PeerInv'
    BY ConstantsAssumption, InboxNext, TypesNext, PhaseNext, MissesNext, ElseNext DEF PeerInv
  <1>3. SessionSpec => []IndInv
    BY RoomsInvariant, SessionImplementsRooms, PTL
  <1> QED BY <1>1, <1>2, <1>3, PTL DEF SessionSpec

(* A client that has read its envelopes will show just what it lists.      *)
LEMMA ReadAll ==
    ASSUME NEW s \in Sockets, inbox[s] = <<>>, NEW p
    PROVE  WillShow(s, p) <=> p \in peers[s]
  BY DEF WillShow, Shows

(* m_peers misses nobody in the room, under the SSRC of the room table,    *)
(* for any number of clients and whatever interleaving of joins, leaves,   *)
(* switches and disconnects.                                               *)
THEOREM NoMissingPeerAlways == SessionSpec => []NoMissingPeer
  <1>1. IndInv /\ PeerInv => NoMissingPeer
    <2> SUFFICES ASSUME IndInv, PeerInv, NEW s \in Sockets, UpToDate(s), NEW e \in InRoomOf(s),
                        UserOf[e.sid] # UserOf[s]
                 PROVE  {p \in peers[s] : p.user = UserOf[e.sid]} = {Peer(e)}
      BY DEF NoMissingPeer
    <2>1. inbox[s] = <<>> /\ peers[s] \in SUBSET Peers
      BY DEF UpToDate, PeerInv, PeerTypes
    <2>2. Peer(e) \in Peers /\ Peer(e).user = UserOf[e.sid]
      BY ConstantsAssumption, EntryFacts DEF InRoomOf
    <2>3. \A p \in Peers : p.user = UserOf[e.sid] => (p \in peers[s] <=> p = Peer(e))
      BY <2>1, ReadAll DEF PeerInv, MissesNobody
    <2> QED BY <2>1, <2>2, <2>3
  <1> QED BY <1>1, RoomsInvariant, SessionImplementsRooms, PeersInvariant, PTL

(* A client that stays in its first room shows nobody who is not there.    *)
THEOREM NoStalePeerAlways == SessionSpec => []NoStalePeer
  <1>1. PeerInv => NoStalePeer
    <2> SUFFICES ASSUME PeerInv, NEW s \in Sockets \ switched, UpToDate(s), NEW p \in peers[s],
                        OneDevice(p.user)
                 PROVE  \E e \in voice_rooms[sess[s].room] : Peer(e) = p
      BY DEF NoStalePeer
    <2>1. inbox[s] = <<>> /\ conn[s] = "open" /\ p \in Peers /\ p.user # UserOf[s]
      BY DEF UpToDate, PeerInv, PeerTypes
    <2>2. WillShow(s, p)
      BY <2>1, ReadAll
    <2> QED BY <2>1, <2>2 DEF PeerInv, ShowsNobodyElse, Present
  <1> QED BY <1>1, PeersInvariant, PTL
==============================================================================
