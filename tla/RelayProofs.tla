---------------------------- MODULE RelayProofs ----------------------------
(***************************************************************************)
(* Room isolation and the reaping bound of the relay, for any number of    *)
(* clients, rooms, ports, and any TTL and reaping interval.                *)
(***************************************************************************)
EXTENDS Relay, TLAPS

(* The part of the invariant that is about the table alone, for a table t  *)
(* when s ticks have passed since the last reaping.                        *)
TableOK(t, s) ==
    /\ DOMAIN t \subseteq Rooms
    /\ \A r \in DOMAIN t :
          /\ DOMAIN t[r] # {} /\ DOMAIN t[r] \subseteq PeerIds
          /\ t[r] \in [DOMAIN t[r] -> Entries]
          /\ \A p \in DOMAIN t[r] :
                PeerOf[t[r][p].addr[1]] = p /\ r \in Visits[t[r][p].addr[1]] /\ t[r][p].age <= TTL + s

(* The invariant without the table.                                        *)
RestOK ==
    /\ since_reap \in 0 .. ReapEvery + 1
    /\ room \in [Clients -> Rooms \cup {NoRoom}] /\ (\A c \in Clients : <<c, nat[c]>> \in Endpoints)
    /\ up \subseteq Packets
    /\ down \subseteq [to : Endpoints, packet : Packets]
    /\ StampsFit /\ Isolation

(* IndInv is the conjunction of the two.                                   *)
LEMMA Split == IndInv <=> TableOK(m_rooms, since_reap) /\ RestOK
  BY DEF IndInv, TableOK, RestOK, RelayTypeOK, AddressesFit, RoomsInhabited

(* The same in the next state.                                             *)
LEMMA SplitPrime == TableOK(m_rooms', since_reap') /\ RestOK' => IndInv'
  BY DEF IndInv, TableOK, RestOK, RelayTypeOK, AddressesFit, RoomsInhabited

(* The first component of an endpoint is a client, the second a port of it. *)
LEMMA EndpointParts ==
  ASSUME NEW a \in Endpoints
  PROVE  a[1] \in Clients /\ a = <<a[1], a[2]>>
  BY DEF Endpoints

(* reap leaves a table that is good right after a reaping: nothing in it   *)
(* is older than the TTL, and no room is empty.                            *)
LEMMA ReapOK ==
  ASSUME NEW t, NEW s \in Nat, TableOK(t, s)
  PROVE  TableOK(Reap(t), 0)
<1> DEFINE Kept(r) == {p \in DOMAIN t[r] : t[r][p].age <= TTL}
<1>1. /\ DOMAIN Reap(t) = {q \in DOMAIN t : Kept(q) # {}}
      /\ \A r \in DOMAIN Reap(t) : Reap(t)[r] = [p \in Kept(r) |-> t[r][p]]
  BY DEF Reap
<1> DEFINE u == Reap(t)
<1> HIDE DEF u
<1>2. ASSUME NEW r \in DOMAIN u
      PROVE  /\ r \in DOMAIN t /\ DOMAIN u[r] = Kept(r) /\ Kept(r) # {} /\ u[r] = [p \in Kept(r) |-> t[r][p]]
             /\ Kept(r) \subseteq PeerIds
  BY <1>1 DEF TableOK, u
<1>3. ASSUME NEW r \in DOMAIN u, NEW p \in DOMAIN u[r]
      PROVE  /\ u[r][p] = t[r][p] /\ t[r][p] \in Entries /\ t[r][p].age <= TTL + 0
             /\ PeerOf[t[r][p].addr[1]] = p /\ r \in Visits[t[r][p].addr[1]]
  <2>1. r \in DOMAIN t /\ p \in DOMAIN t[r] /\ t[r][p].age <= TTL /\ u[r][p] = t[r][p]
    BY <1>2
  <2>2. QED
    BY <2>1, RelayAssumption DEF TableOK
<1>4. \A r \in DOMAIN u : u[r] \in [DOMAIN u[r] -> Entries]
  BY <1>2, <1>3
<1>5. DOMAIN u \subseteq Rooms
  BY <1>2 DEF TableOK
<1>6. \A r \in DOMAIN u : DOMAIN u[r] # {} /\ DOMAIN u[r] \subseteq PeerIds
  BY <1>2
<1>7. \A r \in DOMAIN u : \A p \in DOMAIN u[r] :
         PeerOf[u[r][p].addr[1]] = p /\ r \in Visits[u[r][p].addr[1]] /\ u[r][p].age <= TTL + 0
  BY <1>3
<1> HIDE DEF Kept
<1>8. TableOK(u, 0)
  BY <1>4, <1>5, <1>6, <1>7 DEF TableOK
<1>9. QED
  BY <1>8 DEF u

(* on_packet stores the sender's endpoint, with age 0, in a room its       *)
(* client takes.                                                           *)
LEMMA StoredOK ==
  ASSUME NEW s \in Nat, TableOK(m_rooms, s),
         NEW r \in Rooms, NEW a \in Endpoints, r \in Visits[a[1]]
  PROVE  TableOK(Stored(r, PeerOf[a[1]], a), s)
<1> DEFINE p == PeerOf[a[1]]
<1> DEFINE t == Stored(r, p, a)
<1>0. p \in PeerIds /\ [addr |-> a, age |-> 0] \in Entries /\ TTL \in Nat
  BY EndpointParts, RelayAssumption DEF Entries
<1>1. DOMAIN t = DOMAIN m_rooms \cup {r} /\ \A q \in DOMAIN m_rooms \ {r} : t[q] = m_rooms[q]
  BY DEF Stored
<1>2. /\ DOMAIN t[r] = PeersIn(r) \cup {p} /\ t[r][p] = [addr |-> a, age |-> 0]
      /\ \A k \in PeersIn(r) \ {p} : t[r][k] = m_rooms[r][k]
      /\ t[r] = [k \in DOMAIN t[r] |-> t[r][k]]
  BY DEF Stored
<1>3. PeersIn(r) \subseteq PeerIds /\ \A k \in PeersIn(r) : r \in DOMAIN m_rooms /\ k \in DOMAIN m_rooms[r]
  BY DEF PeersIn, TableOK
<1>4. \A k \in DOMAIN t[r] :
         t[r][k] \in Entries /\ PeerOf[t[r][k].addr[1]] = k /\ r \in Visits[t[r][k].addr[1]] /\ t[r][k].age <= TTL + s
  BY <1>0, <1>2, <1>3 DEF TableOK
<1>5. t[r] \in [DOMAIN t[r] -> Entries]
  BY <1>2, <1>4
<1> HIDE DEF t, p
<1>6. QED
  BY <1>0, <1>1, <1>2, <1>3, <1>4, <1>5 DEF TableOK, p, t

(* A pass through the loop, whatever table on_packet has left.             *)
LEMMA PassOK ==
  ASSUME NEW t, since_reap \in 0 .. ReapEvery + 1, TableOK(t, since_reap), Pass(t)
  PROVE  TableOK(m_rooms', since_reap') /\ since_reap' \in 0 .. ReapEvery + 1
  BY ReapOK, RelayAssumption DEF Pass

(* A tick makes every entry, and the last reaping, one tick older.         *)
LEMMA TickOK ==
  ASSUME IndInv, Tick
  PROVE  TableOK(m_rooms', since_reap')
<1>1. TableOK(m_rooms, since_reap) /\ since_reap \in Nat /\ TTL \in Nat
  BY Split, RelayAssumption DEF RestOK
<1>2. since_reap' = since_reap + 1 /\ DOMAIN m_rooms' = DOMAIN m_rooms
  BY DEF Tick
<1>3. ASSUME NEW r \in DOMAIN m_rooms
      PROVE  /\ m_rooms'[r] = [p \in DOMAIN m_rooms[r] |-> [m_rooms[r][p] EXCEPT !.age = @ + 1]]
             /\ DOMAIN m_rooms'[r] = DOMAIN m_rooms[r]
  BY DEF Tick
<1>4. ASSUME NEW r \in DOMAIN m_rooms, NEW p \in DOMAIN m_rooms[r]
      PROVE  /\ m_rooms'[r][p] \in Entries
             /\ m_rooms'[r][p].addr = m_rooms[r][p].addr /\ m_rooms'[r][p].age = m_rooms[r][p].age + 1
             /\ m_rooms[r][p].age \in Nat /\ m_rooms[r][p].age <= TTL + since_reap
             /\ PeerOf[m_rooms[r][p].addr[1]] = p /\ r \in Visits[m_rooms[r][p].addr[1]]
  <2>1. m_rooms[r][p] \in Entries
    BY <1>1 DEF TableOK
  <2>2. m_rooms'[r][p] = [m_rooms[r][p] EXCEPT !.age = @ + 1]
    BY <1>3
  <2>3. /\ m_rooms'[r][p] \in Entries /\ m_rooms[r][p].age \in Nat
        /\ m_rooms'[r][p].addr = m_rooms[r][p].addr /\ m_rooms'[r][p].age = m_rooms[r][p].age + 1
    BY <2>1, <2>2 DEF Entries
  <2>4. QED
    BY <1>1, <2>3 DEF TableOK
<1>5. \A r \in DOMAIN m_rooms : m_rooms'[r] \in [DOMAIN m_rooms'[r] -> Entries]
  BY <1>3, <1>4
<1>6. QED
  BY <1>1, <1>2, <1>3, <1>4, <1>5 DEF TableOK

(* Everything on_packet sends on goes to another peer that takes the room. *)
LEMMA OnPacketOK ==
  ASSUME IndInv, NEW pkt \in up, OnPacket(pkt)
  PROVE  IndInv'
<1> DEFINE p == PeerOf[pkt.from[1]]
<1>1. TableOK(m_rooms, since_reap) /\ RestOK /\ since_reap \in Nat
  BY Split, RelayAssumption DEF RestOK
<1>2. pkt \in Packets /\ pkt.room \in Rooms /\ pkt.from \in Endpoints /\ pkt.room \in Visits[pkt.from[1]]
  BY <1>1 DEF RestOK, StampsFit, Packets
<1>3. TableOK(m_rooms', since_reap') /\ since_reap' \in 0 .. ReapEvery + 1
  BY <1>1, <1>2, StoredOK, PassOK DEF OnPacket, RestOK
<1>4. \A a \in Recipients(pkt.room, p) :
         a \in Endpoints /\ pkt.room \in Visits[a[1]] /\ PeerOf[a[1]] # p
  <2>1. \A k \in PeersIn(pkt.room) : pkt.room \in DOMAIN m_rooms /\ k \in DOMAIN m_rooms[pkt.room]
    BY DEF PeersIn
  <2>2. QED
    BY <1>1, <2>1 DEF Recipients, TableOK, Entries
<1>5. down' \subseteq [to : Endpoints, packet : Packets] /\ Isolation'
  BY <1>2, <1>4 DEF OnPacket, Isolation
<1>6. RestOK'
  BY <1>1, <1>3, <1>5 DEF OnPacket, RestOK, StampsFit, clientVars
<1>7. QED
  BY <1>3, <1>6, SplitPrime

(* A datagram a client sends is stamped with a room it takes.              *)
LEMMA SentOK ==
  ASSUME RestOK, NEW c \in Clients, NEW kind \in Kinds, NEW r \in Rooms, r \in Visits[c], Sent(c, kind, r)
  PROVE  up' \subseteq Packets /\ \A pkt \in up' : pkt.room \in Visits[pkt.from[1]]
<1> DEFINE new == [kind |-> kind, room |-> r, from |-> <<c, nat[c]>>]
<1>1. new \in Packets /\ new.from[1] = c /\ new.room = r
  BY DEF RestOK, Packets
<1>2. \A pkt \in up' : pkt \in up \/ pkt = new
  BY DEF Sent
<1>3. QED
  BY <1>1, <1>2 DEF RestOK, StampsFit

(* The invariant holds at first.                                           *)
LEMMA InvInit == Init => IndInv
<1> SUFFICES ASSUME Init PROVE IndInv
  OBVIOUS
<1>1. DOMAIN m_rooms = {} /\ TableOK(m_rooms, since_reap)
  BY DEF Init, TableOK
<1>2. RestOK
  BY RelayAssumption DEF Init, RestOK, StampsFit, Isolation, Endpoints
<1>3. QED
  BY <1>1, <1>2, Split

(* Every step preserves the invariant.                                     *)
LEMMA InvNext == IndInv /\ [Next]_vars => IndInv'
<1> SUFFICES ASSUME IndInv, [Next]_vars PROVE IndInv'
  OBVIOUS
<1>0. TableOK(m_rooms, since_reap) /\ RestOK
  BY Split
<1>1. CASE RecvTimeout
  <2>1. TableOK(m_rooms', since_reap') /\ since_reap' \in 0 .. ReapEvery + 1
    BY <1>0, <1>1, PassOK DEF RecvTimeout, RestOK
  <2>2. RestOK'
    BY <1>0, <1>1, <2>1 DEF RecvTimeout, RestOK, StampsFit, Isolation, clientVars
  <2>3. QED
    BY <2>1, <2>2, SplitPrime
<1>2. CASE Tick
  <2>1. TableOK(m_rooms', since_reap')
    BY <1>2, TickOK
  <2>2. RestOK'
    BY <1>0, <1>2, RelayAssumption DEF Tick, RestOK, StampsFit, Isolation, clientVars
  <2>3. QED
    BY <2>1, <2>2, SplitPrime
<1>3. CASE Restart
  <2>1. TableOK(m_rooms', since_reap')
    BY <1>3 DEF Restart, TableOK
  <2>2. RestOK'
    BY <1>0, <1>3, RelayAssumption DEF Restart, RestOK, StampsFit, Isolation, clientVars
  <2>3. QED
    BY <2>1, <2>2, SplitPrime
<1>4. CASE \E pkt \in up : OnPacket(pkt)
  BY <1>4, OnPacketOK
<1>5. ASSUME NEW c \in Clients,
             \/ \E r \in Rooms : TakeRoom(c, r)
             \/ Exit(c) \/ Rebind(c) \/ SendPing(c) \/ ClientReceive(c)
      PROVE  IndInv'
  <2>1. m_rooms' = m_rooms /\ since_reap' = since_reap
    BY <1>5 DEF TakeRoom, Exit, Rebind, SendPing, ClientReceive
  <2>2. RestOK'
    <3>1. CASE (\E r \in Rooms : TakeRoom(c, r)) \/ Exit(c)
      BY <1>0, <3>1 DEF TakeRoom, Exit, RestOK, StampsFit, Isolation
    <3>2. CASE Rebind(c)
      BY <1>0, <3>2 DEF Rebind, RestOK, StampsFit, Isolation, Endpoints
    <3>3. CASE SendPing(c)
      <4>1. room[c] \in Rooms /\ room[c] \in Visits[c] /\ "ping" \in Kinds
        BY <1>0, <3>3 DEF SendPing, RestOK, StampsFit, Kinds
      <4>2. up' \subseteq Packets /\ \A pkt \in up' : pkt.room \in Visits[pkt.from[1]]
        BY <1>0, <3>3, <4>1, SentOK DEF SendPing
      <4>3. QED
        BY <1>0, <3>3, <4>2 DEF SendPing, RestOK, StampsFit, Isolation, clientVars
    <3>4. CASE ClientReceive(c)
      <4>1. PICK d \in down :
               /\ d.to = <<c, nat[c]>> /\ down' = down \ {d}
               /\ Sent(c, "pong", d.packet.room) \/ UNCHANGED up
               /\ UNCHANGED clientVars
        BY <3>4 DEF ClientReceive
      <4>2. d.packet.room \in Rooms /\ d.packet.room \in Visits[c] /\ "pong" \in Kinds
        BY <1>0, <4>1 DEF RestOK, Isolation, Packets, Kinds
      <4>3. up' \subseteq Packets /\ \A pkt \in up' : pkt.room \in Visits[pkt.from[1]]
        BY <1>0, <4>1, <4>2, SentOK DEF RestOK, StampsFit
      <4>4. QED
        BY <1>0, <2>1, <4>1, <4>3 DEF RestOK, StampsFit, Isolation, clientVars
    <3>5. QED
      BY <1>5, <3>1, <3>2, <3>3, <3>4
  <2>3. QED
    BY <1>0, <2>1, <2>2, SplitPrime
<1>6. CASE UNCHANGED vars
  BY <1>6 DEF vars, clientVars, IndInv, RelayTypeOK, AddressesFit, StampsFit, RoomsInhabited, Isolation
<1>7. QED
  BY <1>1, <1>2, <1>3, <1>4, <1>5, <1>6 DEF Next

(* The table and the datagrams in flight keep their shape, every address   *)
(* is filed under its own peer in a room its client takes, and no entry    *)
(* is older than the TTL and the time since the last reaping.              *)
THEOREM RelayInvariant == Spec => []IndInv
  BY InvInit, InvNext, PTL DEF Spec

(* The relay never sends a packet of a room to a client that does not take *)
(* this room, nor back to the peer it came from, though on_packet believes *)
(* the header of whatever arrives.                                         *)
THEOREM IsolationAlways == Spec => []Isolation
<1>1. IndInv => Isolation
  BY DEF IndInv
<1>2. QED
  BY <1>1, RelayInvariant, PTL

(* RoomTable::reap's promise: no entry outlives the TTL by more than one   *)
(* reaping interval, and no empty room is kept.                            *)
THEOREM TableTracksRealityAlways == Spec => []TableTracksReality
<1>1. IndInv => TableTracksReality
  <2> SUFFICES ASSUME IndInv, NEW r \in DOMAIN m_rooms, NEW p \in DOMAIN m_rooms[r]
               PROVE  m_rooms[r][p].age <= TTL + ReapEvery + 1
    BY DEF IndInv, RoomsInhabited, TableTracksReality
  <2>1. m_rooms[r][p] \in Entries /\ since_reap \in 0 .. ReapEvery + 1 /\ m_rooms[r][p].age <= TTL + since_reap
    BY DEF IndInv, RelayTypeOK, AddressesFit
  <2>2. QED
    BY <2>1, RelayAssumption DEF Entries
<1>2. QED
  BY <1>1, RelayInvariant, PTL
=============================================================================
