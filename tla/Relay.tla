------------------------------- MODULE Relay -------------------------------
(***************************************************************************)
(* The UDP relay and the network processes that send media through it: the *)
(* relay's RoomTable and receive loop, the clients' room switches, pings   *)
(* and pongs, and datagrams that are lost, delayed and overtaken.          *)
(*                                                                         *)
(* The relay is one thread: a pass through its loop is one step.  Time is  *)
(* counted in ticks, and kept as ages: an entry's age is now - last_seen,  *)
(* since_reap is now - last_reap.  A datagram the relay drops (short, or   *)
(* of another protocol version) is a pass without a packet.  Audio, video  *)
(* and keepalives do to the table what the ping does that each client      *)
(* sends every second, and nobody answers them: they are left out.         *)
(***************************************************************************)
EXTENDS Integers, FiniteSets

CONSTANTS Clients,      \* network processes on the relay path
          PeerIds, PeerOf,      \* peer_id: the hash of the client's user name
          Rooms,        \* room_id values
          Visits,       \* client -> the rooms it ever takes
          NoRoom,       \* the process does not run
          Mappings,     \* client -> the public ports its NAT gives it
          TTL, ReapEvery        \* 30 s and 5 s, in ticks

ASSUME RelayAssumption ==
    /\ PeerOf \in [Clients -> PeerIds] /\ Visits \in [Clients -> SUBSET Rooms]
    /\ NoRoom \notin Rooms /\ DOMAIN Mappings = Clients
    /\ TTL \in Nat /\ ReapEvery \in Nat

VARIABLES
    m_rooms,        \* room -> peer_id -> [addr, age]; partial functions
    since_reap,
    room,           \* client -> the room it stamps on its packets
    nat,            \* client -> its current mapping
    up,             \* datagrams on their way to the relay
    down            \* datagrams on their way from it

clientVars == <<room, nat>>
vars == <<m_rooms, since_reap, clientVars, up, down>>

Endpoints == UNION {{c} \X Mappings[c] : c \in Clients}
Kinds == {"ping", "pong"}
Packets == [kind : Kinds, room : Rooms, from : Endpoints]
Entries == [addr : Endpoints, age : Nat]

RelayTypeOK ==
    /\ DOMAIN m_rooms \subseteq Rooms
    /\ \A r \in DOMAIN m_rooms :
          /\ DOMAIN m_rooms[r] \subseteq PeerIds
          /\ m_rooms[r] \in [DOMAIN m_rooms[r] -> Entries]
    /\ since_reap \in 0 .. ReapEvery + 1
    /\ room \in [Clients -> Rooms \cup {NoRoom}] /\ (\A c \in Clients : <<c, nat[c]>> \in Endpoints)
    /\ up \subseteq Packets
    /\ down \subseteq [to : Endpoints, packet : Packets]

Init ==
    /\ m_rooms = [r \in {} |-> {}] /\ since_reap = 0
    /\ room = [c \in Clients |-> NoRoom] /\ nat \in {f \in [Clients -> UNION {Mappings[c] : c \in Clients}] : \A c \in Clients : f[c] \in Mappings[c]}
    /\ up = {} /\ down = {}

-----------------------------------------------------------------------------
\* RoomTable.

PeersIn(r) == IF r \in DOMAIN m_rooms THEN DOMAIN m_rooms[r] ELSE {}

\* Wrong variant: the first address a peer was seen at is kept.
StoredOnce(r, p, src) ==
    [q \in DOMAIN m_rooms \cup {r} |->
        IF q # r THEN m_rooms[q]
        ELSE [k \in PeersIn(r) \cup {p} |->
                 IF k \in PeersIn(r) THEN [m_rooms[r][k] EXCEPT !.age = IF k = p THEN 0 ELSE @]
                 ELSE [addr |-> src, age |-> 0]]]

\* on_packet: the sender's entry is inserted or overwritten.
Stored(r, p, src) ==
    [q \in DOMAIN m_rooms \cup {r} |->
        IF q # r THEN m_rooms[q]
        ELSE [k \in PeersIn(r) \cup {p} |->
                 IF k = p THEN [addr |-> src, age |-> 0] ELSE m_rooms[r][k]]]

\* Wrong variant: whoever is known to the relay gets the packet.
RecipientsAnywhere(r, p) ==
    UNION {{m_rooms[q][k].addr : k \in DOMAIN m_rooms[q] \ {p}} : q \in DOMAIN m_rooms}

\* on_packet: everybody else in the room.
Recipients(r, p) == {m_rooms[r][k].addr : k \in PeersIn(r) \ {p}}

\* Wrong variants: emptied rooms stay; an entry is dropped one tick late.
ReapPeersOnly(table) ==
    [r \in DOMAIN table |-> [p \in {k \in DOMAIN table[r] : table[r][k].age <= TTL} |-> table[r][p]]]

ReapLate(table) ==
    LET Kept(r) == {p \in DOMAIN table[r] : table[r][p].age <= TTL + 1} IN
    [r \in {q \in DOMAIN table : Kept(q) # {}} |-> [p \in Kept(r) |-> table[r][p]]]

\* reap: peers not heard of for longer than TTL, then the rooms left empty.
Reap(table) ==
    LET Kept(r) == {p \in DOMAIN table[r] : table[r][p].age <= TTL} IN
    [r \in {q \in DOMAIN table : Kept(q) # {}} |-> [p \in Kept(r) |-> table[r][p]]]

-----------------------------------------------------------------------------
\* The relay's loop: recvfrom gives a packet or times out, then the reaping
\* that is due is done.
Pass(table) ==
    IF since_reap > ReapEvery
    THEN m_rooms' = Reap(table) /\ since_reap' = 0
    ELSE m_rooms' = table /\ UNCHANGED since_reap

RecvTimeout == Pass(m_rooms) /\ UNCHANGED <<clientVars, up, down>>

\* The packet is stored and sent on.  Bound: what the relay sent on before and
\* nobody has received yet is lost.
OnPacket(pkt) ==
    LET p == PeerOf[pkt.from[1]] IN
    /\ pkt \in up
    /\ up' = up \ {pkt}
    /\ down' = {[to |-> a, packet |-> pkt] : a \in Recipients(pkt.room, p)}
    /\ Pass(Stored(pkt.room, p, pkt.from))
    /\ UNCHANGED clientVars

\* The relay is started again, with an empty table.
Restart ==
    /\ m_rooms' = [r \in {} |-> {}] /\ since_reap' = 0
    /\ UNCHANGED <<clientVars, up, down>>

\* Time passes; the loop makes five passes a second, so a reaping that is due
\* does not wait for another tick.
Tick ==
    /\ since_reap <= ReapEvery
    /\ since_reap' = since_reap + 1
    /\ m_rooms' = [r \in DOMAIN m_rooms |->
                      [p \in DOMAIN m_rooms[r] |-> [m_rooms[r][p] EXCEPT !.age = @ + 1]]]
    /\ UNCHANGED <<clientVars, up, down>>

-----------------------------------------------------------------------------
\* The network process.

\* It starts in OSN_ROOM; a JoinVoice or LeaveVoice of the GUI makes its main
\* loop stamp another room (sender.set_room_id).
TakeRoom(c, r) ==
    /\ r \in Visits[c] \ {room[c]}
    /\ room' = [room EXCEPT ![c] = r]
    /\ UNCHANGED <<m_rooms, since_reap, nat, up, down>>

Exit(c) ==
    /\ room[c] # NoRoom
    /\ room' = [room EXCEPT ![c] = NoRoom]
    /\ UNCHANGED <<m_rooms, since_reap, nat, up, down>>

\* The NAT gives the client another public port.
Rebind(c) ==
    /\ \E m \in Mappings[c] \ {nat[c]} : nat' = [nat EXCEPT ![c] = m]
    /\ UNCHANGED <<m_rooms, since_reap, room, up, down>>

\* One datagram leaves the client.  Bound: at most one of a kind and client is
\* on its way, an older one is lost; those of different kinds overtake.
Sent(c, kind, r) ==
    up' = {pkt \in up : pkt.from[1] # c \/ pkt.kind # kind}
              \cup {[kind |-> kind, room |-> r, from |-> <<c, nat[c]>>]}

\* The ping of every second.
SendPing(c) ==
    /\ room[c] # NoRoom
    /\ Sent(c, "ping", room[c])
    /\ UNCHANGED <<m_rooms, since_reap, clientVars, down>>

\* receive_thread answers a ping inline (build_pong: in the room of the ping);
\* a pong only feeds the round-trip statistics.
ClientReceive(c) ==
    \E d \in down :
        /\ room[c] # NoRoom /\ d.to = <<c, nat[c]>>
        /\ down' = down \ {d}
        /\ IF d.packet.kind = "ping" THEN Sent(c, "pong", d.packet.room) ELSE UNCHANGED up
        /\ UNCHANGED <<m_rooms, since_reap, clientVars>>

-----------------------------------------------------------------------------
Next ==
    \/ RecvTimeout \/ Tick \/ Restart
    \/ \E pkt \in up : OnPacket(pkt)
    \/ \E c \in Clients :
          \/ \E r \in Rooms : TakeRoom(c, r)
          \/ Exit(c) \/ Rebind(c) \/ SendPing(c) \/ ClientReceive(c)

Spec == Init /\ [][Next]_vars

\* A ping of c that is on its way reaches the relay.
PingArrives(c) == \E pkt \in up : pkt.from[1] = c /\ pkt.kind = "ping" /\ OnPacket(pkt)

\* The clock advances and the relay's loop turns; a client pings every second,
\* and not all its pings are lost.
FairSpec ==
    /\ Spec /\ WF_vars(Tick) /\ WF_vars(RecvTimeout)
    /\ \A c \in Clients : WF_vars(SendPing(c)) /\ WF_vars(PingArrives(c))

-----------------------------------------------------------------------------
(* Room isolation: a datagram of a room goes only to the addresses of      *)
(* clients that take this room, and never back to the peer it came from,   *)
(* whatever packets are late, however clients move and ports change.       *)
Isolation ==
    \A d \in down :
        /\ d.packet.room \in Visits[d.to[1]]
        /\ PeerOf[d.to[1]] # PeerOf[d.packet.from[1]]

(* The table tracks reality: no entry outlives its TTL by more than the    *)
(* reaping interval, and there is no room without a peer.                  *)
TableTracksReality ==
    \A r \in DOMAIN m_rooms :
        /\ DOMAIN m_rooms[r] # {}
        /\ \A p \in DOMAIN m_rooms[r] : m_rooms[r][p].age <= TTL + ReapEvery + 1

(* A client that stays in a room behind one port is reachable there: after *)
(* a restart of the relay, a room switch or a new mapping, the table comes *)
(* to hold its current address, unless the client moves on again.          *)
Reachable(c, r) ==
    /\ r \in DOMAIN m_rooms /\ PeerOf[c] \in DOMAIN m_rooms[r]
    /\ m_rooms[r][PeerOf[c]].addr = <<c, nat[c]>>

BecomesReachable ==
    \A c \in Clients : \A r \in Visits[c], m \in Mappings[c] :
        room[c] = r /\ nat[c] = m ~> Reachable(c, r) \/ room[c] # r \/ nat[c] # m

(* A room that everybody has left is erased: the pongs that answer the     *)
(* last pings do not keep it.                                              *)
AbandonedRoomErased ==
    \A r \in Rooms :
        (\A c \in Clients : room[c] # r) ~> r \notin DOMAIN m_rooms \/ \E c \in Clients : room[c] = r

-----------------------------------------------------------------------------
\* What makes the above inductive: an address is stored under the peer it
\* belongs to, in a room its client takes; a reaped table ages with the clock.
AddressesFit ==
    \A r \in DOMAIN m_rooms : \A p \in DOMAIN m_rooms[r] :
        /\ PeerOf[m_rooms[r][p].addr[1]] = p
        /\ r \in Visits[m_rooms[r][p].addr[1]]
        /\ m_rooms[r][p].age <= TTL + since_reap

StampsFit ==
    /\ \A c \in Clients : room[c] \in Visits[c] \cup {NoRoom}
    /\ \A pkt \in up : pkt.room \in Visits[pkt.from[1]]

RoomsInhabited == \A r \in DOMAIN m_rooms : DOMAIN m_rooms[r] # {}

IndInv == RelayTypeOK /\ AddressesFit /\ StampsFit /\ RoomsInhabited /\ Isolation
=============================================================================
