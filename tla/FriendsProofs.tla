---------------------------- MODULE FriendsProofs ----------------------------
(***************************************************************************)
(* What the order of the gateway's writes guarantees for any number of     *)
(* users, sessions and failing queries: no friendship without its channel, *)
(* no request lost by an accept that failed, friends who hear their DM     *)
(* channel, and GUIs whose lists the pushed events keep in step with the   *)
(* store.                                                                  *)
(***************************************************************************)
EXTENDS Friends, TLAPS

\* What a friendship rests on.
ChannelRows(u, f) == {Channel(u, f)} \cup Membership(u, f) \cup Membership(f, u)

LEMMA DmSymmetric == ASSUME NEW u, NEW f PROVE Dm(u, f) = Dm(f, u)
BY DEF Dm

LEMMA ChannelRowsSymmetric == ASSUME NEW u, NEW f PROVE ChannelRows(u, f) = ChannelRows(f, u)
BY DmSymmetric DEF ChannelRows, Channel

\* Rows of different tables, and of different users, are different rows.
LEMMA RequestInjective ==
    ASSUME NEW u, NEW f, NEW x, NEW y, Request(u, f) = Request(x, y)
    PROVE  u = x /\ f = y
BY DEF Request

LEMMA FriendshipInjective ==
    ASSUME NEW u, NEW f, NEW x, NEW y, Friendship(u, f) = Friendship(x, y)
    PROVE  u = x /\ f = y
BY DEF Friendship

LEMMA FriendshipApart ==
    ASSUME NEW u, NEW f, NEW x, NEW y
    PROVE  Friendship(u, f) # Request(x, y) /\ Friendship(u, f) \notin ChannelRows(x, y)
BY DEF Friendship, Request, ChannelRows, Channel, Membership

LEMMA ChannelRowsApart ==
    ASSUME NEW u, NEW f, NEW x, NEW y
    PROVE  Request(u, f) \notin ChannelRows(x, y)
BY DEF Request, ChannelRows, Channel, Membership

\* What is written before and with each stage of an accept.
LEMMA StagesWritten ==
    ASSUME NEW u, NEW f
    PROVE  /\ DOMAIN Stages(u, f) = 1 .. 4
           /\ StagesUpTo(u, f, 3) = ChannelRows(u, f)
           /\ StagesUpTo(u, f, 4) = ChannelRows(u, f) \cup {Friendship(u, f), Friendship(f, u)}
           /\ \A k \in 1 .. 4 : StagesUpTo(u, f, k - 1) \subseteq ChannelRows(u, f)
           /\ \A k \in 1 .. 3 : Stages(u, f)[k] \subseteq ChannelRows(u, f)
           /\ Stages(u, f)[4] = {Friendship(u, f), Friendship(f, u)}
<1> DEFINE S == Stages(u, f)
<1>1. /\ DOMAIN S = 1 .. 4 /\ S[1] = {Channel(u, f)} /\ S[2] = Membership(u, f)
      /\ S[3] = Membership(f, u) /\ S[4] = {Friendship(u, f), Friendship(f, u)}
    BY DEF Stages
<1> HIDE DEF S
<1>2. \A k \in 1 .. 3 : S[k] \subseteq ChannelRows(u, f)
    BY <1>1 DEF ChannelRows
<1>3. UNION {S[i] : i \in 1 .. 3} = ChannelRows(u, f)
  <2>1. 1 .. 3 = {1, 2, 3} OBVIOUS
  <2> QED BY <1>1, <2>1 DEF ChannelRows
<1>4. UNION {S[i] : i \in 1 .. 4} = ChannelRows(u, f) \cup {Friendship(u, f), Friendship(f, u)}
  <2>1. 1 .. 4 = {1, 2, 3, 4} OBVIOUS
  <2> QED BY <1>1, <2>1 DEF ChannelRows
<1>5. \A k \in 1 .. 4 : UNION {S[i] : i \in 1 .. (k - 1)} \subseteq ChannelRows(u, f)
  <2> SUFFICES ASSUME NEW k \in 1 .. 4, NEW i \in 1 .. (k - 1)
               PROVE  S[i] \subseteq ChannelRows(u, f)
      OBVIOUS
  <2> QED BY <1>2
<1> QED BY <1>1, <1>2, <1>3, <1>4, <1>5 DEF StagesUpTo, S

-----------------------------------------------------------------------------
\* FriendshipHasChannel with the rows it asks for under one name.
LEMMA HasChannelRows ==
    FriendshipHasChannel <=> \A u, f \in Users : Friendship(u, f) \in rows => ChannelRows(u, f) \subseteq rows
BY DEF FriendshipHasChannel, ChannelRows

\* A step that adds no friendship and removes requests only.
LEMMA KeepsChannels ==
    ASSUME FriendshipHasChannel,
           \A u, f \in Users : Friendship(u, f) \in rows' => Friendship(u, f) \in rows,
           \A r \in rows \ rows' : \E u, f \in Users : r = Request(u, f)
    PROVE  FriendshipHasChannel'
<1> SUFFICES ASSUME NEW u \in Users, NEW f \in Users, Friendship(u, f) \in rows'
             PROVE  ChannelRows(u, f) \subseteq rows'
    BY DEF FriendshipHasChannel, ChannelRows, Friendship, Channel, Membership
<1>1. ChannelRows(u, f) \subseteq rows BY HasChannelRows
<1> QED BY <1>1, ChannelRowsApart

\* The writes of an accept, whole or cut off at any write.
LEMMA AcceptKeepsChannels ==
    ASSUME FriendshipHasChannel, NEW u \in Users, NEW f \in Users, OnAcceptRequest(u, f)
    PROVE  FriendshipHasChannel'
<1> SUFFICES ASSUME NEW x \in Users, NEW y \in Users, Friendship(x, y) \in rows'
             PROVE  ChannelRows(x, y) \subseteq rows'
    BY DEF FriendshipHasChannel, ChannelRows, Friendship, Channel, Membership
<1>1. Friendship(x, y) \in rows => ChannelRows(x, y) \subseteq rows
    BY HasChannelRows
<1>2. Friendship(x, y) \in {Friendship(u, f), Friendship(f, u)} => ChannelRows(x, y) = ChannelRows(u, f)
    BY FriendshipInjective, ChannelRowsSymmetric
<1>3. CASE AcceptFails(u, f)
  <2>1. PICK k \in 1 .. 4 : \E part \in SUBSET Stages(u, f)[k] :
            rows' = rows \cup StagesUpTo(u, f, k - 1) \cup part
      BY <1>3, StagesWritten DEF AcceptFails
  <2>2. PICK part \in SUBSET Stages(u, f)[k] : rows' = rows \cup StagesUpTo(u, f, k - 1) \cup part
      BY <2>1
  <2>3. CASE Friendship(x, y) \in rows BY <2>2, <2>3, <1>1
  <2>4. CASE Friendship(x, y) \notin rows
    <3>1. Friendship(x, y) \notin StagesUpTo(u, f, k - 1)
        BY StagesWritten, FriendshipApart
    <3>2. Friendship(x, y) \in part BY <2>2, <2>4, <3>1
    <3>3. k = 4 BY <3>2, StagesWritten, FriendshipApart
    <3>4. Friendship(x, y) \in {Friendship(u, f), Friendship(f, u)}
        BY <3>2, <3>3, StagesWritten
    <3>5. StagesUpTo(u, f, k - 1) = ChannelRows(u, f) BY <3>3, StagesWritten
    <3> QED BY <2>2, <3>4, <3>5, <1>2
  <2> QED BY <2>3, <2>4
<1>4. CASE AcceptWorks(u, f)
  <2>1. rows' \in {(rows \cup StagesUpTo(u, f, 4)) \ {Request(u, f)}, rows \cup StagesUpTo(u, f, 4)}
      BY <1>4 DEF AcceptWorks
  <2>2. rows' \in {(rows \cup ChannelRows(u, f) \cup {Friendship(u, f), Friendship(f, u)}) \ {Request(u, f)},
                   rows \cup ChannelRows(u, f) \cup {Friendship(u, f), Friendship(f, u)}}
      BY <2>1, StagesWritten
  <2>3. ChannelRows(x, y) \subseteq rows \cup ChannelRows(u, f)
      BY <2>2, <1>1, <1>2, FriendshipApart
  <2> QED BY <2>2, <2>3, ChannelRowsApart
<1> QED BY <1>3, <1>4 DEF OnAcceptRequest

LEMMA StepKeepsChannels == FriendshipHasChannel /\ [Next]_vars => FriendshipHasChannel'
<1> SUFFICES ASSUME FriendshipHasChannel, [Next]_vars PROVE FriendshipHasChannel'
    OBVIOUS
<1>1. CASE UNCHANGED rows
    BY <1>1 DEF FriendshipHasChannel, Friendship, Channel, Membership
<1>2. ASSUME NEW u \in Users, SendRequest(u) PROVE FriendshipHasChannel'
  <2>1. rows' \in {rows, rows \cup {Request(last_lookup[u], u)}}
      BY <1>2 DEF SendRequest, OnSendRequest
  <2> QED BY <2>1, KeepsChannels, FriendshipApart
<1>3. ASSUME NEW u \in Users, NEW f \in Users, Accept(u, f) PROVE FriendshipHasChannel'
    BY <1>3, AcceptKeepsChannels DEF Accept
<1>4. ASSUME NEW u \in Users, NEW f \in Users, Reject(u, f) PROVE FriendshipHasChannel'
  <2>1. rows' \in {rows, rows \ {Request(u, f)}} BY <1>4 DEF Reject
  <2> QED BY <2>1, KeepsChannels
<1>5. CASE Next
  <2>1. PICK u \in Users :
            \/ Hello(u) \/ Close(u) \/ OnFetchFriends(u) \/ OpenDialog(u) \/ SendRequest(u) \/ Read(u)
            \/ \E t \in Users : Search(u, t) \/ Accept(u, t) \/ Reject(u, t)
      BY <1>5 DEF Next
  <2>2. CASE Hello(u) \/ Close(u) \/ OnFetchFriends(u) \/ OpenDialog(u) \/ Read(u)
      BY <2>2, <1>1 DEF Hello, Close, OnFetchFriends, OpenDialog, Read
  <2>3. CASE \E t \in Users : Search(u, t)
      BY <2>3, <1>1 DEF Search
  <2> QED BY <2>1, <2>2, <2>3, <1>2, <1>3, <1>4
<1> QED BY <1>1, <1>5 DEF vars

(* Wherever an accept is cut off, in any interleaving with other users'    *)
(* requests, a friendship in the store has its channel row and both        *)
(* membership rows of both friends.                                        *)
THEOREM FriendshipHasChannelAlways == Spec => []FriendshipHasChannel
<1>1. Init => FriendshipHasChannel
    BY DEF Init, FriendshipHasChannel
<1> QED BY <1>1, StepKeepsChannels, PTL DEF Spec

-----------------------------------------------------------------------------
\* The action that RequestKept speaks of.
Kept ==
    \A u, f \in Users : Request(u, f) \in rows \ rows' =>
        \/ {Friendship(u, f), Friendship(f, u)} \subseteq rows'
        \/ rows' = rows \ {Request(u, f)}

LEMMA AcceptKeepsRequests ==
    ASSUME NEW u \in Users, NEW f \in Users, OnAcceptRequest(u, f) PROVE Kept
<1> SUFFICES ASSUME NEW x \in Users, NEW y \in Users, Request(x, y) \in rows, Request(x, y) \notin rows'
             PROVE  {Friendship(x, y), Friendship(y, x)} \subseteq rows'
    BY DEF Kept
<1>1. rows' = (rows \cup StagesUpTo(u, f, 4)) \ {Request(u, f)}
    BY DEF OnAcceptRequest, AcceptFails, AcceptWorks
<1>2. x = u /\ y = f BY <1>1, RequestInjective
<1> QED BY <1>1, <1>2, StagesWritten, FriendshipApart

LEMMA StepKeepsRequests == [Next]_vars => [Kept]_vars
<1> SUFFICES ASSUME Next PROVE Kept
    OBVIOUS
<1>1. ASSUME rows \subseteq rows' PROVE Kept
    BY <1>1 DEF Kept
<1>2. ASSUME NEW u \in Users, SendRequest(u) PROVE Kept
    BY <1>2, <1>1 DEF SendRequest, OnSendRequest
<1>3. ASSUME NEW u \in Users, NEW f \in Users, Accept(u, f) PROVE Kept
    BY <1>3, AcceptKeepsRequests DEF Accept
<1>4. ASSUME NEW u \in Users, NEW f \in Users, Reject(u, f) PROVE Kept
  <2>1. CASE rows' = rows BY <2>1, <1>1
  <2>2. CASE rows' = rows \ {Request(u, f)}
    <3> SUFFICES ASSUME NEW x \in Users, NEW y \in Users, Request(x, y) \in rows, Request(x, y) \notin rows'
                 PROVE  rows' = rows \ {Request(x, y)}
        BY DEF Kept
    <3> QED BY <2>2, RequestInjective
  <2> QED BY <1>4, <2>1, <2>2 DEF Reject
<1>5. PICK u \in Users :
          \/ Hello(u) \/ Close(u) \/ OnFetchFriends(u) \/ OpenDialog(u) \/ SendRequest(u) \/ Read(u)
          \/ \E t \in Users : Search(u, t) \/ Accept(u, t) \/ Reject(u, t)
    BY DEF Next
<1>6. CASE Hello(u) \/ Close(u) \/ OnFetchFriends(u) \/ OpenDialog(u) \/ Read(u)
    BY <1>6, <1>1 DEF Hello, Close, OnFetchFriends, OpenDialog, Read
<1>7. CASE \E t \in Users : Search(u, t)
    BY <1>7, <1>1 DEF Search
<1> QED BY <1>2, <1>3, <1>4, <1>5, <1>6, <1>7

(* A friend request leaves the store only together with both rows of the   *)
(* friendship, or by a rejection that touches no other row: an accept that *)
(* failed can be repeated, at whichever of its writes it failed.           *)
THEOREM RequestKeptAlways == Spec => RequestKept
<1>1. [Next]_vars => [Kept]_vars BY StepKeepsRequests
<1>2. RequestKept <=> [][Kept]_vars BY PTL DEF RequestKept, Kept
<1> QED BY <1>1, <1>2, PTL DEF Spec

-----------------------------------------------------------------------------
(* Who hears a DM channel *)

\* FriendsHearDm without the set of friends.
Hear ==
    \A u \in online \ deaf : \A f \in Users : Friendship(u, f) \in rows => Dm(u, f) \in topics[u]

LEMMA HearIs == Hear <=> FriendsHearDm
BY DEF Hear, FriendsHearDm, FriendsOf

HearInv ==
    /\ online \subseteq Users
    /\ topics \in [Users -> SUBSET SUBSET Users]
    /\ FriendshipHasChannel
    /\ Hear

\* Steps that make no friendship and leave sockets and their subscriptions be.
LEMMA KeepsHearing ==
    ASSUME HearInv, UNCHANGED <<online, topics, deaf>>,
           \A u, f \in Users : Friendship(u, f) \in rows' => Friendship(u, f) \in rows
    PROVE  online' \subseteq Users /\ topics' \in [Users -> SUBSET SUBSET Users] /\ Hear'
<1>1. ASSUME NEW x \in online \ deaf, NEW f \in Users, Friendship(x, f) \in rows'
      PROVE  Dm(x, f) \in topics[x]
  BY <1>1 DEF HearInv, Hear
<1> QED BY <1>1 DEF HearInv, Hear, Friendship, Dm

\* A login subscribes to the channel of every friendship in the store.
LEMMA HelloHears ==
    ASSUME HearInv, NEW u \in Users, Hello(u)
    PROVE  online' \subseteq Users /\ topics' \in [Users -> SUBSET SUBSET Users] /\ Hear'
<1>1. ChannelsOf(u) \in SUBSET SUBSET Users
  BY DEF ChannelsOf, Dm
<1>2. online' \subseteq Users /\ topics' \in [Users -> SUBSET SUBSET Users]
  BY <1>1 DEF HearInv, Hello
<1>3. ASSUME NEW x \in online' \ deaf', NEW f \in Users, Friendship(x, f) \in rows
      PROVE  Dm(x, f) \in topics'[x]
  <2>1. CASE x = u
    <3>1. topics' = [topics EXCEPT ![u] = ChannelsOf(u)]
      BY <1>3, <2>1 DEF Hello
    <3>2. <<"user_channels", u, Dm(u, f)>> \in rows
      BY <1>3, <2>1 DEF HearInv, FriendshipHasChannel, Membership
    <3> QED BY <2>1, <3>1, <3>2 DEF HearInv, ChannelsOf
  <2>2. CASE x # u
    <3>1. x \in online \ deaf /\ topics'[x] = topics[x]
      BY <1>3, <2>2 DEF Hello, HearInv
    <3> QED BY <1>3, <3>1 DEF HearInv, Hear
  <2> QED BY <2>1, <2>2
<1>4. UNCHANGED rows
  BY DEF Hello
<1> QED BY <1>2, <1>3, <1>4 DEF Hear, Friendship, Dm

\* A logout ends the subscriptions of one user.
LEMMA CloseHears ==
    ASSUME HearInv, NEW u \in Users, Close(u)
    PROVE  online' \subseteq Users /\ topics' \in [Users -> SUBSET SUBSET Users] /\ Hear'
<1>1. online' \subseteq Users /\ topics' \in [Users -> SUBSET SUBSET Users]
  BY DEF HearInv, Close
<1>2. ASSUME NEW x \in online' \ deaf', NEW f \in Users, Friendship(x, f) \in rows
      PROVE  Dm(x, f) \in topics'[x]
  <2>1. x \in online \ deaf /\ topics'[x] = topics[x]
    BY DEF Close, HearInv
  <2> QED BY <1>2, <2>1 DEF HearInv, Hear
<1>3. UNCHANGED rows
  BY DEF Close
<1> QED BY <1>1, <1>2, <1>3 DEF Hear, Friendship, Dm

\* An accept that works subscribes both; one that fails may leave both deaf.
LEMMA AcceptHears ==
    ASSUME HearInv, NEW u \in Users, NEW f \in Users, Accept(u, f)
    PROVE  online' \subseteq Users /\ topics' \in [Users -> SUBSET SUBSET Users] /\ Hear'
<1>1. online' = online
  BY DEF Accept
<1>2. CASE AcceptFails(u, f)
  <2>1. PICK k \in 1 .. 4 : \E part \in SUBSET Stages(u, f)[k] :
            rows' = rows \cup StagesUpTo(u, f, k - 1) \cup part
    BY <1>2, StagesWritten DEF AcceptFails
  <2>2. rows' \subseteq rows \cup ChannelRows(u, f) \cup {Friendship(u, f), Friendship(f, u)}
    <3>1. k \in 1 .. 3 \/ k = 4
      OBVIOUS
    <3>2. Stages(u, f)[k] \subseteq ChannelRows(u, f) \cup {Friendship(u, f), Friendship(f, u)}
      BY <3>1, StagesWritten
    <3>3. StagesUpTo(u, f, k - 1) \subseteq ChannelRows(u, f)
      BY StagesWritten
    <3> QED BY <2>1, <3>2, <3>3
  <2>3. ASSUME NEW x \in online' \ deaf', NEW y \in Users, Friendship(x, y) \in rows'
        PROVE  Dm(x, y) \in topics[x]
    <3>1. x \in online \ deaf /\ x # u /\ x # f
      BY <1>1, <1>2 DEF AcceptFails
    <3>2. Friendship(x, y) \in rows
      BY <2>2, <2>3, <3>1, FriendshipApart, FriendshipInjective
    <3> QED BY <3>1, <3>2 DEF HearInv, Hear
  <2>4. UNCHANGED topics
    BY <1>2 DEF AcceptFails
  <2> QED BY <1>1, <2>3, <2>4 DEF HearInv, Hear, Friendship, Dm
<1>3. CASE AcceptWorks(u, f)
  <2>1. /\ topics' = [topics EXCEPT ![u] = @ \cup {Dm(u, f)},
                                    ![f] = IF f \in online THEN @ \cup {Dm(u, f)} ELSE @]
        /\ deaf' = deaf
        /\ rows' \subseteq rows \cup ChannelRows(u, f) \cup {Friendship(u, f), Friendship(f, u)}
    BY <1>3, StagesWritten DEF AcceptWorks, NotifyAccepted
  <2>2. topics' \in [Users -> SUBSET SUBSET Users] /\ Dm(u, f) \in topics'[u]
        /\ (f \in online => Dm(u, f) \in topics'[f])
        /\ \A x \in Users : topics[x] \subseteq topics'[x]
    <3>1. Dm(u, f) \in SUBSET Users
      BY DEF Dm
    <3> QED BY <2>1, <3>1 DEF HearInv
  <2>3. ASSUME NEW x \in online' \ deaf', NEW y \in Users, Friendship(x, y) \in rows'
        PROVE  Dm(x, y) \in topics'[x]
    <3>1. x \in online \ deaf /\ x \in Users
      BY <1>1, <2>1 DEF HearInv
    <3>2. CASE Friendship(x, y) \in rows
      BY <2>2, <3>1, <3>2 DEF HearInv, Hear
    <3>3. CASE Friendship(x, y) \notin rows
      <4>1. (x = u /\ y = f) \/ (x = f /\ y = u)
        BY <2>1, <2>3, <3>3, FriendshipApart, FriendshipInjective
      <4> QED BY <2>2, <3>1, <4>1, DmSymmetric
    <3> QED BY <3>2, <3>3
  <2> QED BY <1>1, <2>2, <2>3 DEF HearInv, Hear, Friendship, Dm
<1> QED BY <1>2, <1>3 DEF Accept, OnAcceptRequest

LEMMA StepHears == HearInv /\ [Next]_vars => HearInv'
<1> SUFFICES ASSUME HearInv, [Next]_vars
             PROVE  online' \subseteq Users /\ topics' \in [Users -> SUBSET SUBSET Users] /\ Hear'
  BY StepKeepsChannels DEF HearInv
<1>1. CASE UNCHANGED <<online, topics, deaf, rows>>
  BY <1>1, KeepsHearing
<1>2. ASSUME NEW u \in Users, SendRequest(u)
      PROVE  UNCHANGED <<online, topics, deaf>> /\ rows' \subseteq rows \cup {Request(last_lookup[u], u)}
  BY <1>2 DEF SendRequest, OnSendRequest, gateVars
<1>3. ASSUME NEW u \in Users, NEW f \in Users, Reject(u, f)
      PROVE  UNCHANGED <<online, topics, deaf>> /\ rows' \subseteq rows
  BY <1>3 DEF Reject, gateVars
<1>4. CASE Next
  <2>1. PICK u \in Users :
            \/ Hello(u) \/ Close(u) \/ OnFetchFriends(u) \/ OpenDialog(u) \/ SendRequest(u) \/ Read(u)
            \/ \E t \in Users : Search(u, t) \/ Accept(u, t) \/ Reject(u, t)
    BY <1>4 DEF Next
  <2>2. CASE OnFetchFriends(u) \/ OpenDialog(u) \/ Read(u) \/ \E t \in Users : Search(u, t)
    BY <2>2, <1>1 DEF OnFetchFriends, OpenDialog, Read, Search, gateVars
  <2>3. CASE SendRequest(u)
    <3>1. ASSUME NEW x \in Users, NEW y \in Users, Friendship(x, y) \in rows'
          PROVE  Friendship(x, y) \in rows
      <4>1. Friendship(x, y) # Request(last_lookup[u], u)
        BY FriendshipApart
      <4>2. rows' \subseteq rows \cup {Request(last_lookup[u], u)}
        BY <2>3, <1>2
      <4> QED BY <3>1, <4>1, <4>2
    <3> QED BY <2>3, <3>1, <1>2, KeepsHearing
  <2>4. CASE \E t \in Users : Reject(u, t)
    BY <2>4, <1>3, KeepsHearing
  <2> QED BY <2>1, <2>2, <2>3, <2>4, HelloHears, CloseHears, AcceptHears
<1> QED BY <1>1, <1>4 DEF vars, gateVars

\* Whoever was online when a friendship was made, and at whichever logins the
\* subscriptions were taken up, both friends hear their DM channel; only after
\* a failed query, and until the next login, may one of them miss it.
THEOREM FriendsHearDmAlways == Spec => []FriendsHearDm
<1>1. Init => HearInv
  BY DEF Init, HearInv, Hear, FriendshipHasChannel
<1>2. HearInv => FriendsHearDm
  BY HearIs DEF HearInv
<1> QED BY <1>1, <1>2, StepHears, PTL DEF Spec
-----------------------------------------------------------------------------
(* The GUIs' lists *)

Envelopes ==
    [kind : {"list"}, friends : SUBSET Users, incoming : SUBSET Users]
    \cup [kind : {"match", "request", "accepted"}, user : Users]

\* k is "accepted" for what concerns friends_, "request" for pending.  Of f, an
\* envelope says that it is in the list, that it is not, or nothing.
Adds(e, k, f) ==
    \/ e.kind = "list" /\ f \in (IF k = "accepted" THEN e.friends ELSE e.incoming)
    \/ e.kind = k /\ e.user = f

Settles(e, k, f) == e.kind = "list" \/ (e.kind = k /\ e.user = f)

\* A list that is fs will hold f once q has been read.
Holds(q, k, fs, f) ==
    \/ f \in fs /\ \A i \in DOMAIN q : ~Settles(q[i], k, f)
    \/ \E i \in DOMAIN q :
          Adds(q[i], k, f) /\ \A j \in DOMAIN q : i < j => ~Settles(q[j], k, f)

\* What the lists of u will be is what the store has.
InStep(u) ==
    \A f \in Users :
        /\ Holds(down[u], "accepted", friends[u], f) <=> Friendship(u, f) \in rows
        /\ Request(u, f) \in rows => Holds(down[u], "request", pending[u], f)

Counters == [searches : [Users -> Nat], sessions : Nat, faults : Nat]

\* Who is offline has no lists; whoever else is not about to fetch them, and
\* has lost nothing to a failed query, is in step.
ListInv ==
    /\ online \subseteq Users /\ refresh \subseteq online /\ known \subseteq online
    /\ down \in [Users -> Seq(Envelopes)]
    /\ friends \in [Users -> SUBSET Users] /\ pending \in [Users -> SUBSET Users]
    /\ last_lookup \in [Users -> Users \cup {None}]
    /\ used \in Counters
    /\ \A u \in Users \ online : down[u] = <<>> /\ pending[u] = {}
    /\ \A u \in online \ (stale \cup refresh) : InStep(u)

\* One more envelope has the last word.
LEMMA AppendHolds ==
    ASSUME NEW q \in Seq(Envelopes), NEW m \in Envelopes, NEW k, NEW fs, NEW f
    PROVE  Holds(Append(q, m), k, fs, f) <=>
              \/ Adds(m, k, f)
              \/ ~Settles(m, k, f) /\ Holds(q, k, fs, f)
  <1> DEFINE r == Append(q, m)
             n == Len(q) + 1
  <1>1. /\ n \in Nat \ {0} /\ DOMAIN q = 1 .. n - 1 /\ DOMAIN r = 1 .. n
        /\ r[n] = m /\ \A i \in 1 .. n - 1 : r[i] = q[i]
    OBVIOUS
  <1> HIDE DEF r, n
  <1>2. Adds(m, k, f) => Settles(m, k, f)
    BY DEF Adds, Settles
  <1>3. ASSUME Holds(r, k, fs, f), ~Adds(m, k, f)
        PROVE  ~Settles(m, k, f) /\ Holds(q, k, fs, f)
    <2>1. CASE f \in fs /\ \A i \in DOMAIN r : ~Settles(r[i], k, f)
      <3>1. \A i \in DOMAIN q : ~Settles(q[i], k, f)
        BY <1>1, <2>1
      <3>2. ~Settles(m, k, f)
        BY <1>1, <2>1
      <3> QED BY <2>1, <3>1, <3>2 DEF Holds
    <2>2. CASE \E i \in DOMAIN r : /\ Adds(r[i], k, f)
                                   /\ \A j \in DOMAIN r : i < j => ~Settles(r[j], k, f)
      <3>1. PICK i \in DOMAIN r : /\ Adds(r[i], k, f)
                                  /\ \A j \in DOMAIN r : i < j => ~Settles(r[j], k, f)
        BY <2>2
      <3>2. i # n
        BY <3>1, <1>1, <1>3
      <3>3. i \in DOMAIN q /\ r[i] = q[i] /\ i < n
        BY <3>2, <1>1
      <3>4. ~Settles(m, k, f)
        BY <3>1, <3>3, <1>1
      <3>5. \A j \in DOMAIN q : i < j => ~Settles(q[j], k, f)
        BY <3>1, <1>1
      <3> QED BY <3>1, <3>3, <3>4, <3>5 DEF Holds
    <2> QED BY <1>3, <2>1, <2>2 DEF Holds
  <1>4. ASSUME Adds(m, k, f) PROVE Holds(r, k, fs, f)
    <2>1. n \in DOMAIN r /\ Adds(r[n], k, f)
      BY <1>1, <1>4
    <2>2. \A j \in DOMAIN r : ~(n < j)
      BY <1>1
    <2> QED BY <2>1, <2>2 DEF Holds
  <1>5. ASSUME ~Settles(m, k, f), Holds(q, k, fs, f) PROVE Holds(r, k, fs, f)
    <2>1. CASE f \in fs /\ \A i \in DOMAIN q : ~Settles(q[i], k, f)
      <3>1. ASSUME NEW i \in DOMAIN r PROVE ~Settles(r[i], k, f)
        <4>1. CASE i = n
          BY <4>1, <1>1, <1>5
        <4>2. CASE i # n
          <5>1. i \in DOMAIN q /\ r[i] = q[i]
            BY <4>2, <1>1
          <5> QED BY <5>1, <2>1
        <4> QED BY <4>1, <4>2
      <3> QED BY <2>1, <3>1 DEF Holds
    <2>2. CASE \E i \in DOMAIN q : /\ Adds(q[i], k, f)
                                   /\ \A j \in DOMAIN q : i < j => ~Settles(q[j], k, f)
      <3>1. PICK i \in DOMAIN q : /\ Adds(q[i], k, f)
                                  /\ \A j \in DOMAIN q : i < j => ~Settles(q[j], k, f)
        BY <2>2
      <3>2. ASSUME NEW j \in DOMAIN r, i < j PROVE ~Settles(r[j], k, f)
        <4>1. CASE j = n
          BY <4>1, <1>1, <1>5
        <4>2. CASE j # n
          <5>1. j \in DOMAIN q /\ r[j] = q[j]
            BY <4>2, <1>1
          <5> QED BY <5>1, <3>1, <3>2
        <4> QED BY <4>1, <4>2
      <3>3. i \in DOMAIN r /\ r[i] = q[i]
        BY <1>1
      <3> QED BY <3>1, <3>2, <3>3 DEF Holds
    <2> QED BY <1>5, <2>1, <2>2 DEF Holds
  <1> QED BY <1>2, <1>3, <1>4, <1>5 DEF r

\* Reading the oldest envelope, which makes gs of fs, changes nothing of what
\* the list will hold.
LEMMA ReadHolds ==
    ASSUME NEW q \in Seq(Envelopes), q # <<>>, NEW k, NEW fs, NEW gs, NEW f,
           f \in gs <=> \/ Adds(Head(q), k, f)
                        \/ ~Settles(Head(q), k, f) /\ f \in fs
    PROVE  Holds(Tail(q), k, gs, f) <=> Holds(q, k, fs, f)
  <1> DEFINE r == Tail(q)
             n == Len(q)
  <1>1. /\ n \in Nat \ {0} /\ DOMAIN q = 1 .. n /\ DOMAIN r = 1 .. n - 1
        /\ \A i \in 1 .. n - 1 : r[i] = q[i + 1]
        /\ Head(q) = q[1]
    OBVIOUS
  <1> HIDE DEF r, n
  <1>2. ASSUME NEW b \in Nat
        PROVE  (\A j \in DOMAIN r : b < j => ~Settles(r[j], k, f))
               <=> (\A j \in DOMAIN q : b + 1 < j => ~Settles(q[j], k, f))
    <2>1. ASSUME \A j \in DOMAIN r : b < j => ~Settles(r[j], k, f), NEW j \in DOMAIN q, b + 1 < j
          PROVE  ~Settles(q[j], k, f)
      <3>1. j - 1 \in DOMAIN r /\ b < j - 1 /\ r[j - 1] = q[j]
        BY <2>1, <1>1
      <3> QED BY <3>1, <2>1
    <2>2. ASSUME \A j \in DOMAIN q : b + 1 < j => ~Settles(q[j], k, f), NEW j \in DOMAIN r, b < j
          PROVE  ~Settles(r[j], k, f)
      <3>1. j + 1 \in DOMAIN q /\ b + 1 < j + 1 /\ r[j] = q[j + 1]
        BY <2>2, <1>1
      <3> QED BY <3>1, <2>2
    <2> QED BY <2>1, <2>2
  <1> DEFINE Last(s, i) == /\ Adds(s[i], k, f)
                           /\ \A j \in DOMAIN s : i < j => ~Settles(s[j], k, f)
             Silent(s, b) == \A j \in DOMAIN s : b < j => ~Settles(s[j], k, f)
  <1>3. Holds(q, k, fs, f) <=> (f \in fs /\ Silent(q, 0)) \/ \E i \in DOMAIN q : Last(q, i)
    BY <1>1 DEF Holds
  <1>4. Holds(r, k, gs, f) <=> (f \in gs /\ Silent(r, 0)) \/ \E i \in DOMAIN r : Last(r, i)
    BY <1>1 DEF Holds
  <1>5. (\E i \in DOMAIN q : Last(q, i)) <=> Last(q, 1) \/ \E i \in DOMAIN r : Last(r, i)
    <2>1. ASSUME NEW i \in DOMAIN r PROVE Last(r, i) <=> Last(q, i + 1)
      <3>1. i \in Nat /\ r[i] = q[i + 1]
        BY <1>1
      <3> QED BY <3>1, <1>2
    <2>2. \A i \in DOMAIN q : i = 1 \/ (i - 1 \in DOMAIN r /\ i = (i - 1) + 1)
      BY <1>1
    <2>3. 1 \in DOMAIN q /\ \A i \in DOMAIN r : i + 1 \in DOMAIN q
      BY <1>1
    <2> HIDE DEF Last
    <2> QED BY <2>1, <2>2, <2>3
  <1>6. Silent(r, 0) <=> Silent(q, 1)
    BY <1>2
  <1>7. Silent(q, 0) <=> Silent(q, 1) /\ ~Settles(q[1], k, f)
    BY <1>1
  <1>8. Last(q, 1) <=> Adds(q[1], k, f) /\ Silent(q, 1)
    OBVIOUS
  <1> HIDE DEF Last, Silent
  <1> QED BY <1>1, <1>3, <1>4, <1>5, <1>6, <1>7, <1>8 DEF r

\* Envelopes of other kinds say nothing.
LEMMA KindSays ==
    ASSUME NEW e, NEW k, NEW f, e.kind # "list", e.kind # k
    PROVE  ~Adds(e, k, f) /\ ~Settles(e, k, f)
  BY DEF Adds, Settles

\* What is pushed to t, if t is online, comes last in its queue.
LEMMA PushIs ==
    ASSUME ListInv, NEW t \in Users, NEW e \in Envelopes
    PROVE  /\ Push(t, e) \in [Users -> Seq(Envelopes)]
           /\ t \in online => Push(t, e)[t] = Append(down[t], e)
           /\ \A x \in Users : x # t \/ t \notin online => Push(t, e)[x] = down[x]
  <1>1. down \in [Users -> Seq(Envelopes)]
    BY DEF ListInv
  <1>2. Append(down[t], e) \in Seq(Envelopes)
    BY <1>1
  <1> QED BY <1>1, <1>2 DEF Push

\* What InStep asks for f.
InStepWith(q, fs, ps, rs, u, f) ==
    /\ Holds(q, "accepted", fs, f) <=> Friendship(u, f) \in rs
    /\ Request(u, f) \in rs => Holds(q, "request", ps, f)

\* The claim for one user, spelled out for its queue and lists.
LEMMA InStepIs ==
    ASSUME NEW u
    PROVE  InStep(u) <=> \A f \in Users : InStepWith(down[u], friends[u], pending[u], rows, u, f)
  BY DEF InStep, InStepWith

\* The shape of ListInv without the lists' contents.
ListTypes ==
    /\ online \subseteq Users /\ refresh \subseteq online /\ known \subseteq online
    /\ down \in [Users -> Seq(Envelopes)]
    /\ friends \in [Users -> SUBSET Users] /\ pending \in [Users -> SUBSET Users]
    /\ last_lookup \in [Users -> Users \cup {None}]
    /\ used \in Counters
    /\ \A u \in Users \ online : down[u] = <<>> /\ pending[u] = {}

\* The invariant by its parts.
LEMMA ListInvIs ==
    ListInv <=> ListTypes /\ \A x \in online \ (stale \cup refresh) : InStep(x)
  BY DEF ListInv, ListTypes

\* A step for whom nothing of this changes.
LEMMA SameInStep ==
    ASSUME ListInv, NEW x \in online \ (stale \cup refresh), NEW f \in Users,
           down'[x] = down[x], friends'[x] = friends[x], pending'[x] = pending[x],
           Friendship(x, f) \in rows' <=> Friendship(x, f) \in rows,
           Request(x, f) \in rows' => Request(x, f) \in rows
    PROVE  InStepWith(down'[x], friends'[x], pending'[x], rows', x, f)
  BY InStepIs DEF ListInv, InStepWith

\* One more envelope is on its way to x.
LEMMA MoreInStep ==
    ASSUME ListInv, NEW x \in online, NEW f \in Users, NEW e \in Envelopes,
           down'[x] = Append(down[x], e), friends' = friends, pending' = pending,
           Friendship(x, f) \in rows' <=>
               Adds(e, "accepted", f) \/ (~Settles(e, "accepted", f) /\ Friendship(x, f) \in rows),
           Request(x, f) \in rows' =>
               Adds(e, "request", f) \/ (~Settles(e, "request", f) /\ Request(x, f) \in rows),
           x \in stale \cup refresh => e.kind = "list"
    PROVE  InStepWith(down'[x], friends'[x], pending'[x], rows', x, f)
  <1>1. down[x] \in Seq(Envelopes)
    BY DEF ListInv
  <1>2. \A k, fs : Holds(down'[x], k, fs, f) <=>
            Adds(e, k, f) \/ (~Settles(e, k, f) /\ Holds(down[x], k, fs, f))
    BY <1>1, AppendHolds
  <1>3. CASE e.kind = "list"
    <2>1. \A k : Settles(e, k, f)
      BY <1>3 DEF Settles
    <2> QED BY <1>2, <2>1 DEF InStepWith
  <1>4. CASE e.kind # "list"
    <2>1. InStepWith(down[x], friends[x], pending[x], rows, x, f)
      BY <1>4, InStepIs DEF ListInv
    <2> QED BY <1>2, <2>1 DEF InStepWith
  <1> QED BY <1>3, <1>4

-----------------------------------------------------------------------------
(* One lemma per action *)

\* The counters keep their type when one of them is set, and a fault shows.
LEMMA CounterSet ==
    ASSUME NEW c \in Counters, NEW n \in Nat
    PROVE  /\ [c EXCEPT !.faults = n] \in Counters
           /\ [c EXCEPT !.sessions = n] \in Counters
           /\ c.faults + 1 \in Nat /\ c.sessions + 1 \in Nat
           /\ [c EXCEPT !.faults = c.faults + 1] # c
  <1>1. PICK s \in [Users -> Nat], i \in Nat, k \in Nat :
            c = [searches |-> s, sessions |-> i, faults |-> k]
    BY DEF Counters
  <1>2. [c EXCEPT !.faults = n] = [searches |-> s, sessions |-> i, faults |-> n]
    BY <1>1
  <1>3. [c EXCEPT !.sessions = n] = [searches |-> s, sessions |-> n, faults |-> k]
    BY <1>1
  <1>4. \A x \in [Users -> Nat], l, j \in Nat : [searches |-> x, sessions |-> l, faults |-> j] \in Counters
    BY DEF Counters
  <1>5. c.faults = k /\ c.sessions = i /\ k + 1 # k
    BY <1>1
  <1>6. [c EXCEPT !.faults = c.faults + 1].faults = k + 1
    BY <1>1
  <1>7. [c EXCEPT !.faults = c.faults + 1] # c
    BY <1>5, <1>6
  <1> QED BY <1>2, <1>3, <1>4, <1>5, <1>7

LEMMA CountersGrow ==
    ASSUME used \in Counters
    PROVE  /\ [used EXCEPT !.faults = @ + 1] \in Counters
           /\ [used EXCEPT !.sessions = @ + 1] \in Counters
           /\ [used EXCEPT !.sessions = @ + 1, !.faults = @ + 1] \in Counters
           /\ \A u \in Users : [used EXCEPT !.searches[u] = @ + 1] \in Counters
           /\ [used EXCEPT !.faults = @ + 1] # used
  <1>1. [used EXCEPT !.faults = @ + 1] \in Counters /\ [used EXCEPT !.faults = @ + 1] # used
    BY CounterSet
  <1>2. [used EXCEPT !.sessions = @ + 1] \in Counters
    BY CounterSet
  <1>3. [used EXCEPT !.sessions = @ + 1, !.faults = @ + 1] \in Counters
    <2> DEFINE d == [used EXCEPT !.sessions = @ + 1]
    <2>1. d \in Counters /\ used.faults + 1 \in Nat
      BY <1>2, CounterSet
    <2> HIDE DEF d
    <2>2. [d EXCEPT !.faults = used.faults + 1] \in Counters
      BY <2>1, CounterSet
    <2> QED BY <2>2, Zenon DEF d
  <1>4. ASSUME NEW u \in Users PROVE [used EXCEPT !.searches[u] = @ + 1] \in Counters
    BY DEF Counters
  <1> QED BY <1>1, <1>2, <1>3, <1>4, Zenon

\* A session that has just said Hello has not asked for its lists: the claim starts later.
LEMMA HelloLists ==
    ASSUME ListInv, NEW u \in Users, Hello(u)
    PROVE  ListTypes' /\ \A x \in online' \ (stale' \cup refresh'), f \in Users :
              InStepWith(down'[x], friends'[x], pending'[x], rows', x, f)
  <1>1. /\ online' = online \cup {u} /\ refresh' = refresh \cup {u} /\ stale' = stale
        /\ UNCHANGED <<rows, down, friends, pending, known, last_lookup>>
    BY DEF Hello, listVars, dialogVars
  <1>2. used' \in Counters
    BY CountersGrow DEF Hello, ListInv
  <1>3. ListTypes'
    BY <1>1, <1>2 DEF ListInv, ListTypes
  <1>4. \A x \in online' \ (stale' \cup refresh') : x \in online \ (stale \cup refresh)
    BY <1>1
  <1> QED BY <1>1, <1>3, <1>4, SameInStep

\* Whoever is gone has no lists to compare.
LEMMA CloseLists ==
    ASSUME ListInv, NEW u \in Users, Close(u)
    PROVE  ListTypes' /\ \A x \in online' \ (stale' \cup refresh'), f \in Users :
              InStepWith(down'[x], friends'[x], pending'[x], rows', x, f)
  <1>1. /\ online' = online \ {u} /\ refresh' = refresh \ {u} /\ known' = known \ {u}
        /\ down' = [down EXCEPT ![u] = <<>>]
        /\ friends' = [friends EXCEPT ![u] = {}] /\ pending' = [pending EXCEPT ![u] = {}]
        /\ last_lookup' = [last_lookup EXCEPT ![u] = None]
        /\ rows' = rows /\ stale' = stale /\ used' = used
    BY DEF Close
  <1>2. <<>> \in Seq(Envelopes)
    OBVIOUS
  <1>3. ListTypes'
    BY <1>1, <1>2 DEF ListInv, ListTypes
  <1>4. \A x \in online' \ (stale' \cup refresh') :
            /\ x \in online \ (stale \cup refresh)
            /\ down'[x] = down[x] /\ friends'[x] = friends[x] /\ pending'[x] = pending[x]
    BY <1>1 DEF ListInv
  <1> QED BY <1>1, <1>3, <1>4, SameInStep

\* A whole answer puts the lists of its session in step, a failed query makes it stale.
LEMMA FetchLists ==
    ASSUME ListInv, NEW u \in Users, OnFetchFriends(u)
    PROVE  ListTypes' /\ \A x \in online' \ (stale' \cup refresh'), f \in Users :
              InStepWith(down'[x], friends'[x], pending'[x], rows', x, f)
  <1>1. PICK f \in {FriendsOf(u), {}}, p \in {RequestsTo(u), {}} :
            /\ down' = Push(u, [kind |-> "list", friends |-> f, incoming |-> p])
            /\ IF <<f, p>> = <<FriendsOf(u), RequestsTo(u)>> THEN stale' = stale \ {u} /\ UNCHANGED used
               ELSE MayFail /\ Fault /\ stale' = stale \cup {u}
    BY DEF OnFetchFriends
  <1> DEFINE e == [kind |-> "list", friends |-> f, incoming |-> p]
  <1>2. e \in Envelopes /\ e.kind = "list" /\ e.friends = f /\ e.incoming = p
    BY DEF Envelopes, FriendsOf, RequestsTo
  <1> HIDE DEF e
  <1>3. /\ refresh' = refresh \ {u} /\ u \in online /\ down' = Push(u, e)
        /\ UNCHANGED <<rows, online, friends, pending, known, last_lookup>>
    BY <1>1 DEF OnFetchFriends, listVars, dialogVars, ListInv, e
  <1>4. used' \in Counters
    BY <1>1, CountersGrow DEF Fault, ListInv
  <1>5. ListTypes'
    <2>1. down' \in [Users -> Seq(Envelopes)] /\ \A x \in Users \ online : down'[x] = down[x]
      BY <1>2, <1>3, PushIs
    <2> QED BY <1>3, <1>4, <2>1 DEF ListInv, ListTypes
  <1>6. ASSUME NEW x \in online' \ (stale' \cup refresh'), NEW g \in Users
        PROVE  InStepWith(down'[x], friends'[x], pending'[x], rows', x, g)
    <2>1. CASE x = u
      <3>1. f = FriendsOf(u) /\ p = RequestsTo(u)
        BY <1>1, <1>6, <2>1
      <3>2. /\ Adds(e, "accepted", g) <=> Friendship(u, g) \in rows
            /\ Adds(e, "request", g) <=> Request(u, g) \in rows
        BY <1>2, <3>1 DEF Adds, FriendsOf, RequestsTo
      <3>3. Settles(e, "accepted", g) /\ Settles(e, "request", g)
        BY <1>2 DEF Settles
      <3>4. down'[u] = Append(down[u], e)
        BY <1>2, <1>3, PushIs
      <3> QED BY <1>2, <1>3, <2>1, <3>2, <3>3, <3>4, MoreInStep
    <2>2. CASE x # u
      <3>1. x \in online \ (stale \cup refresh) /\ x \in Users
        BY <1>1, <1>3, <1>6, <2>2 DEF ListInv
      <3>2. down'[x] = down[x]
        BY <1>2, <1>3, <2>2, <3>1, PushIs
      <3> QED BY <1>3, <3>1, <3>2, SameInStep
    <2> QED BY <2>1, <2>2
  <1> QED BY <1>5, <1>6

\* A search changes no row, and its answer says nothing of the lists.
LEMMA SearchLists ==
    ASSUME ListInv, NEW u \in Users, NEW t \in Users, Search(u, t)
    PROVE  ListTypes' /\ \A x \in online' \ (stale' \cup refresh'), f \in Users :
              InStepWith(down'[x], friends'[x], pending'[x], rows', x, f)
  <1> DEFINE e == [kind |-> "match", user |-> t]
  <1>1. e \in Envelopes /\ e.kind = "match"
    BY DEF Envelopes
  <1>2. /\ down' = Push(u, e) /\ u \in online
        /\ last_lookup' = [last_lookup EXCEPT ![u] = None]
        /\ UNCHANGED <<rows, online, refresh, friends, pending, known, stale>>
    BY DEF Search, gateVars, listVars
  <1>3. used' \in Counters
    BY CountersGrow DEF Search, ListInv
  <1> HIDE DEF e
  <1>4. ListTypes'
    <2>1. down' \in [Users -> Seq(Envelopes)] /\ \A x \in Users \ online : down'[x] = down[x]
      BY <1>1, <1>2, PushIs
    <2> QED BY <1>2, <1>3, <2>1 DEF ListInv, ListTypes
  <1>5. ASSUME NEW x \in online' \ (stale' \cup refresh'), NEW f \in Users
        PROVE  InStepWith(down'[x], friends'[x], pending'[x], rows', x, f)
    <2>1. x \in online \ (stale \cup refresh) /\ x \in Users
      BY <1>2, <1>5 DEF ListInv
    <2>2. CASE x = u
      <3>1. ~Settles(e, "accepted", f) /\ ~Settles(e, "request", f)
            /\ ~Adds(e, "accepted", f) /\ ~Adds(e, "request", f)
        BY <1>1, KindSays
      <3>2. down'[x] = Append(down[x], e)
        BY <1>1, <1>2, <2>2, PushIs
      <3> QED BY <1>1, <1>2, <2>1, <3>1, <3>2, MoreInStep
    <2>3. CASE x # u
      BY <1>1, <1>2, <2>1, <2>3, PushIs, SameInStep
    <2> QED BY <2>2, <2>3
  <1> QED BY <1>4, <1>5

\* A stored request is pushed to the recipient; a lost one changes nothing.
LEMMA SendLists ==
    ASSUME ListInv, NEW u \in Users, SendRequest(u)
    PROVE  ListTypes' /\ \A x \in online' \ (stale' \cup refresh'), f \in Users :
              InStepWith(down'[x], friends'[x], pending'[x], rows', x, f)
  <1> DEFINE t == last_lookup[u]
             e == [kind |-> "request", user |-> u]
  <1>1. t \in Users /\ e \in Envelopes /\ e.kind = "request" /\ e.user = u
    BY DEF SendRequest, ListInv, Envelopes
  <1>2. /\ OnSendRequest(u, t)
        /\ stale' = IF used' = used THEN stale ELSE stale \cup {t}
        /\ last_lookup' = [last_lookup EXCEPT ![u] = None]
        /\ UNCHANGED <<online, refresh, friends, pending, known>>
    BY DEF SendRequest, gateVars, listVars
  <1> HIDE DEF t, e
  <1>3. /\ rows' = rows \/ rows' = rows \cup {Request(t, u)}
        /\ \/ down' = down /\ rows' = rows /\ used' = used
           \/ down' = down /\ used' = [used EXCEPT !.faults = @ + 1]
           \/ down' = Push(t, e) /\ used' = used
    BY <1>2 DEF OnSendRequest, Fault, e
  <1>4. used' \in Counters /\ (used' = [used EXCEPT !.faults = @ + 1] => used' # used)
    BY <1>3, CountersGrow DEF ListInv
  <1>5. /\ Push(t, e) \in [Users -> Seq(Envelopes)]
        /\ t \in online => Push(t, e)[t] = Append(down[t], e)
        /\ \A x \in Users : x # t \/ t \notin online => Push(t, e)[x] = down[x]
    BY <1>1, PushIs
  <1>6. ListTypes'
    <2>1. down' \in [Users -> Seq(Envelopes)] /\ \A x \in Users \ online : down'[x] = down[x]
      BY <1>3, <1>5 DEF ListInv
    <2> QED BY <1>2, <1>4, <2>1 DEF ListInv, ListTypes
  <1>7. ASSUME NEW x \in online' \ (stale' \cup refresh'), NEW f \in Users
        PROVE  InStepWith(down'[x], friends'[x], pending'[x], rows', x, f)
    <2>1. x \in online \ (stale \cup refresh) /\ x \in Users
      BY <1>2, <1>7 DEF ListInv
    <2>2. Friendship(x, f) \in rows' <=> Friendship(x, f) \in rows
      BY <1>3, FriendshipApart
    <2>3. Request(x, f) \in rows' => Request(x, f) \in rows \/ (x = t /\ f = u)
      BY <1>3, RequestInjective
    <2>4. CASE x = t /\ down' = Push(t, e)
      <3>1. down'[x] = Append(down[x], e)
        BY <1>5, <2>1, <2>4
      <3>2. ~Adds(e, "accepted", f) /\ ~Settles(e, "accepted", f)
        BY <1>1, KindSays
      <3>3. (Adds(e, "request", f) <=> f = u) /\ (Settles(e, "request", f) <=> f = u)
        BY <1>1 DEF Adds, Settles
      <3> QED BY <1>1, <1>2, <2>1, <2>2, <2>3, <3>1, <3>2, <3>3, MoreInStep
    <2>5. CASE x = t /\ down' # Push(t, e)
      <3>1. rows' = rows /\ down' = down
        BY <1>2, <1>3, <1>4, <1>7, <2>5
      <3> QED BY <1>2, <2>1, <3>1, SameInStep
    <2>6. CASE x # t
      <3>1. down'[x] = down[x]
        BY <1>3, <1>5, <2>1, <2>6
      <3> QED BY <1>2, <2>1, <2>2, <2>3, <2>6, <3>1, SameInStep
    <2> QED BY <2>4, <2>5, <2>6
  <1> QED BY <1>6, <1>7

\* A rejection takes the row and the GUI's own entry in one section.
LEMMA RejectLists ==
    ASSUME ListInv, NEW u \in Users, NEW g \in Users, Reject(u, g)
    PROVE  ListTypes' /\ \A x \in online' \ (stale' \cup refresh'), f \in Users :
              InStepWith(down'[x], friends'[x], pending'[x], rows', x, f)
  <1>1. /\ \/ rows' = rows \ {Request(u, g)} /\ used' = used /\ stale' = stale
           \/ rows' = rows /\ used' = [used EXCEPT !.faults = @ + 1] /\ stale' = stale \cup {u}
        /\ pending' = [pending EXCEPT ![u] = @ \ {g}]
        /\ UNCHANGED <<online, refresh, down, friends, known, last_lookup>>
    BY DEF Reject, Erased, Fault, gateVars, dialogVars
  <1>2. used' \in Counters
    BY <1>1, CountersGrow DEF ListInv
  <1>3. /\ pending' \in [Users -> SUBSET Users] /\ pending'[u] = pending[u] \ {g}
        /\ \A x \in Users : x # u => pending'[x] = pending[x]
    BY <1>1 DEF ListInv
  <1>4. ListTypes'
    <2>1. \A x \in Users \ online : pending'[x] = {}
      BY <1>3 DEF ListInv
    <2> QED BY <1>1, <1>2, <1>3, <2>1 DEF ListInv, ListTypes
  <1>5. ASSUME NEW x \in online' \ (stale' \cup refresh'), NEW f \in Users
        PROVE  InStepWith(down'[x], friends'[x], pending'[x], rows', x, f)
    <2>1. x \in online \ (stale \cup refresh) /\ x \in Users
      BY <1>1, <1>5 DEF ListInv
    <2>2. Friendship(x, f) \in rows' <=> Friendship(x, f) \in rows
      BY <1>1, FriendshipApart
    <2>3. CASE x = u
      <3>1. rows' = rows \ {Request(u, g)}
        BY <1>1, <1>5, <2>3
      <3>2. Request(u, f) \in rows' => f # g /\ Request(u, f) \in rows
        BY <3>1
      <3>3. f # g => (Holds(down[u], "request", pending'[u], f) <=> Holds(down[u], "request", pending[u], f))
        BY <1>3 DEF Holds
      <3>4. InStepWith(down[u], friends[u], pending[u], rows, u, f)
        BY <2>1, <2>3, InStepIs DEF ListInv
      <3> QED BY <1>1, <2>2, <2>3, <3>2, <3>3, <3>4 DEF InStepWith
    <2>4. CASE x # u
      BY <1>1, <1>3, <2>1, <2>2, <2>4, SameInStep
    <2> QED BY <2>3, <2>4
  <1> QED BY <1>4, <1>5

\* A friendship is told to the requester, and the acceptor refetches.
LEMMA AcceptLists ==
    ASSUME ListInv, NEW u \in Users, NEW g \in Users, Accept(u, g)
    PROVE  ListTypes' /\ \A x \in online' \ (stale' \cup refresh'), f \in Users :
              InStepWith(down'[x], friends'[x], pending'[x], rows', x, f)
  <1> DEFINE e == [kind |-> "accepted", user |-> u]
             pair == {Friendship(u, g), Friendship(g, u)}
  <1>1. e \in Envelopes /\ e.kind = "accepted" /\ e.user = u
    BY DEF Envelopes
  <1>2. /\ refresh' = refresh \cup {u} /\ pending' = [pending EXCEPT ![u] = @ \ {g}]
        /\ UNCHANGED <<online, friends, known, last_lookup>> /\ g \in pending[u]
        /\ AcceptFails(u, g) \/ AcceptWorks(u, g)
    BY DEF Accept, OnAcceptRequest, Erased, dialogVars
  <1>3. /\ AcceptFails(u, g) => /\ down' = down /\ stale' = stale \cup {u, g}
                                /\ used' = [used EXCEPT !.faults = @ + 1]
        /\ AcceptWorks(u, g) => /\ down' = Push(g, e) /\ stale' = stale
                                /\ used' = used \/ used' = [used EXCEPT !.faults = @ + 1]
    BY DEF AcceptFails, AcceptWorks, NotifyAccepted, Fault
  <1>4. /\ rows' \subseteq rows \cup ChannelRows(u, g) \cup pair
        /\ \A r \in rows : r # Request(u, g) => r \in rows'
        /\ AcceptWorks(u, g) => pair \subseteq rows'
    <2>1. CASE AcceptFails(u, g)
      <3>1. PICK k \in 1 .. 4 : \E part \in SUBSET Stages(u, g)[k] :
                rows' = rows \cup StagesUpTo(u, g, k - 1) \cup part
        BY <2>1, StagesWritten DEF AcceptFails
      <3>2. Stages(u, g)[k] \subseteq ChannelRows(u, g) \cup pair
        <4>1. k \in 1 .. 3 \/ k = 4
          OBVIOUS
        <4> QED BY <4>1, StagesWritten
      <3>3. StagesUpTo(u, g, k - 1) \subseteq ChannelRows(u, g)
        BY StagesWritten
      <3>4. AcceptWorks(u, g) => pair \subseteq rows'
        BY StagesWritten, FriendshipApart DEF AcceptWorks
      <3> HIDE DEF pair
      <3> QED BY <3>1, <3>2, <3>3, <3>4
    <2>2. CASE AcceptWorks(u, g)
      <3>1. rows' \in {(rows \cup StagesUpTo(u, g, 4)) \ {Request(u, g)}, rows \cup StagesUpTo(u, g, 4)}
        BY <2>2 DEF AcceptWorks
      <3> QED BY <3>1, StagesWritten, FriendshipApart
    <2> QED BY <1>2, <2>1, <2>2
  <1> HIDE DEF e, pair
  <1>5. used' \in Counters /\ u \in online
    BY <1>2, <1>3, CountersGrow DEF ListInv
  <1>6. /\ Push(g, e) \in [Users -> Seq(Envelopes)]
        /\ g \in online => Push(g, e)[g] = Append(down[g], e)
        /\ \A x \in Users : x # g \/ g \notin online => Push(g, e)[x] = down[x]
    BY <1>1, PushIs
  <1>7. /\ pending' \in [Users -> SUBSET Users]
        /\ \A x \in Users : x # u => pending'[x] = pending[x]
    BY <1>2 DEF ListInv
  <1>8. ListTypes'
    <2>1. down' \in [Users -> Seq(Envelopes)] /\ \A x \in Users \ online : down'[x] = down[x]
      BY <1>2, <1>3, <1>6 DEF ListInv
    <2>2. \A x \in Users \ online : pending'[x] = {}
      BY <1>5, <1>7 DEF ListInv
    <2> QED BY <1>2, <1>5, <1>7, <2>1, <2>2 DEF ListInv, ListTypes
  <1>9. ASSUME NEW x \in online' \ (stale' \cup refresh'), NEW f \in Users
        PROVE  InStepWith(down'[x], friends'[x], pending'[x], rows', x, f)
    <2>1. x \in online \ (stale \cup refresh) /\ x \in Users /\ x # u /\ pending'[x] = pending[x]
      BY <1>2, <1>3, <1>7, <1>9 DEF ListInv
    <2>2. /\ Friendship(x, f) \in rows' => Friendship(x, f) \in rows \/ (x = g /\ f = u)
          /\ Friendship(x, f) \in rows => Friendship(x, f) \in rows'
      BY <1>4, <2>1, FriendshipApart, FriendshipInjective DEF pair
    <2>3. Request(x, f) \in rows' => Request(x, f) \in rows
      BY <1>4, ChannelRowsApart, FriendshipApart DEF pair
    <2>4. CASE x = g
      <3>1. AcceptWorks(u, g) /\ down' = Push(g, e)
        BY <1>2, <1>3, <1>9, <2>4
      <3>2. down'[x] = Append(down[x], e)
        BY <1>6, <2>1, <2>4, <3>1
      <3>3. (Adds(e, "accepted", f) <=> f = u) /\ (Settles(e, "accepted", f) <=> f = u)
        BY <1>1 DEF Adds, Settles
      <3>4. ~Adds(e, "request", f) /\ ~Settles(e, "request", f)
        BY <1>1, KindSays
      <3>5. f = u => Friendship(x, f) \in rows'
        BY <1>4, <2>4, <3>1 DEF pair
      <3>6. InStepWith(down[x], friends[x], pending[x], rows, x, f)
        BY <2>1, InStepIs DEF ListInv
      <3>7. down[x] \in Seq(Envelopes)
        BY <2>1 DEF ListInv
      <3>8. \A k, fs : Holds(down'[x], k, fs, f) <=>
                Adds(e, k, f) \/ (~Settles(e, k, f) /\ Holds(down[x], k, fs, f))
        BY <1>1, <3>2, <3>7, AppendHolds
      <3> QED BY <1>2, <2>1, <2>2, <2>3, <3>3, <3>4, <3>5, <3>6, <3>8 DEF InStepWith
    <2>5. CASE x # g
      <3>1. down'[x] = down[x]
        BY <1>2, <1>3, <1>6, <2>1, <2>5
      <3> QED BY <1>2, <2>1, <2>2, <2>3, <2>5, <3>1, SameInStep
    <2> QED BY <2>4, <2>5
  <1> QED BY <1>8, <1>9

\* What is read leaves the queue and enters the lists.
LEMMA ReadLists ==
    ASSUME ListInv, NEW u \in Users, Read(u)
    PROVE  ListTypes' /\ \A x \in online' \ (stale' \cup refresh'), f \in Users :
              InStepWith(down'[x], friends'[x], pending'[x], rows', x, f)
  <1> DEFINE e == Head(down[u])
  <1>1. /\ down[u] # <<>> /\ down[u] \in Seq(Envelopes) /\ u \in online
        /\ down' = [down EXCEPT ![u] = Tail(down[u])]
        /\ UNCHANGED <<rows, online, refresh, stale, used>>
    BY DEF Read, gateVars, ListInv
  <1>2. e \in Envelopes /\ Tail(down[u]) \in Seq(Envelopes)
    BY <1>1
  <1>3. \/ e.kind = "list" /\ ReadList(u, e)
        \/ e.kind = "request" /\ ReadRequest(u, e)
        \/ e.kind = "accepted" /\ ReadAccepted(u, e)
        \/ e.kind = "match" /\ ReadMatch(u, e)
    BY DEF Read
  <1> HIDE DEF e
  <1>4. /\ e.kind = "list" => e.friends \in SUBSET Users /\ e.incoming \in SUBSET Users
        /\ e.kind \in {"request", "accepted", "match"} => e.user \in Users
    BY <1>2 DEF Envelopes
  <1>5. /\ friends' \in [Users -> SUBSET Users] /\ pending' \in [Users -> SUBSET Users]
        /\ last_lookup' \in [Users -> Users \cup {None}]
        /\ known' \subseteq online
        /\ \A x \in Users : x # u => friends'[x] = friends[x] /\ pending'[x] = pending[x]
        /\ \A f : f \in friends'[u] <=>
              Adds(e, "accepted", f) \/ (~Settles(e, "accepted", f) /\ f \in friends[u])
        /\ \A f : f \in pending'[u] <=>
              Adds(e, "request", f) \/ (~Settles(e, "request", f) /\ f \in pending[u])
    <2>1. CASE e.kind = "list" /\ ReadList(u, e)
      BY <1>1, <1>4, <2>1 DEF ReadList, ListInv, Adds, Settles
    <2>2. CASE e.kind = "request" /\ ReadRequest(u, e)
      BY <1>1, <1>4, <2>2 DEF ReadRequest, ListInv, Adds, Settles
    <2>3. CASE e.kind = "accepted" /\ ReadAccepted(u, e)
      BY <1>1, <1>4, <2>3 DEF ReadAccepted, ListInv, Adds, Settles
    <2>4. CASE e.kind = "match" /\ ReadMatch(u, e)
      BY <1>1, <1>4, <2>4 DEF ReadMatch, listVars, ListInv, Adds, Settles
    <2> QED BY <1>3, <2>1, <2>2, <2>3, <2>4
  <1>6. /\ down' \in [Users -> Seq(Envelopes)] /\ down'[u] = Tail(down[u])
        /\ \A x \in Users : x # u => down'[x] = down[x]
    BY <1>1, <1>2 DEF ListInv
  <1>7. ListTypes'
    <2>1. \A x \in Users \ online : down'[x] = <<>> /\ pending'[x] = {}
      BY <1>1, <1>5, <1>6 DEF ListInv
    <2> QED BY <1>1, <1>5, <1>6, <2>1 DEF ListInv, ListTypes
  <1>8. ASSUME NEW x \in online' \ (stale' \cup refresh'), NEW f \in Users
        PROVE  InStepWith(down'[x], friends'[x], pending'[x], rows', x, f)
    <2>1. x \in online \ (stale \cup refresh) /\ x \in Users
      BY <1>1, <1>8 DEF ListInv
    <2>2. CASE x = u
      <3>1. InStepWith(down[u], friends[u], pending[u], rows, u, f)
        BY <2>1, <2>2, InStepIs DEF ListInv
      <3>2. Holds(down'[u], "accepted", friends'[u], f) <=> Holds(down[u], "accepted", friends[u], f)
        BY <1>1, <1>5, <1>6, ReadHolds DEF e
      <3>3. Holds(down'[u], "request", pending'[u], f) <=> Holds(down[u], "request", pending[u], f)
        BY <1>1, <1>5, <1>6, ReadHolds DEF e
      <3> QED BY <1>1, <2>2, <3>1, <3>2, <3>3 DEF InStepWith
    <2>3. CASE x # u
      BY <1>1, <1>5, <1>6, <2>1, <2>3, SameInStep
    <2> QED BY <2>2, <2>3
  <1> QED BY <1>7, <1>8

\* Steps that touch neither rows nor lists.
LEMMA QuietLists ==
    ASSUME ListInv,
           UNCHANGED <<rows, online, refresh, down, friends, pending, known, stale, used>>,
           last_lookup' \in [Users -> Users \cup {None}]
    PROVE  ListTypes' /\ \A x \in online' \ (stale' \cup refresh'), f \in Users :
              InStepWith(down'[x], friends'[x], pending'[x], rows', x, f)
  <1>1. ListTypes'
    BY DEF ListInv, ListTypes
  <1> QED BY <1>1, SameInStep

\* The claim is inductive.
LEMMA StepLists == ListInv /\ [Next]_vars => ListInv'
  <1> SUFFICES ASSUME ListInv, [Next]_vars
               PROVE  ListTypes' /\ \A x \in online' \ (stale' \cup refresh'), f \in Users :
                         InStepWith(down'[x], friends'[x], pending'[x], rows', x, f)
    BY DEF ListInv, ListTypes, InStep, InStepWith, Friendship, Request
  <1>1. CASE UNCHANGED vars
    BY <1>1, QuietLists DEF vars, gateVars, listVars, dialogVars, ListInv
  <1>2. ASSUME NEW u \in Users, OpenDialog(u)
        PROVE  /\ UNCHANGED <<rows, online, refresh, down, friends, pending, known, stale, used>>
               /\ last_lookup' \in [Users -> Users \cup {None}]
    BY <1>2 DEF OpenDialog, gateVars, listVars, ListInv
  <1>3. CASE Next
    <2>1. PICK u \in Users :
              \/ Hello(u) \/ Close(u) \/ OnFetchFriends(u) \/ OpenDialog(u) \/ SendRequest(u) \/ Read(u)
              \/ \E t \in Users : Search(u, t) \/ Accept(u, t) \/ Reject(u, t)
      BY <1>3 DEF Next
    <2>2. CASE OpenDialog(u)
      BY <1>2, <2>2, QuietLists
    <2> QED BY <2>1, <2>2, HelloLists, CloseLists, FetchLists, SendLists, ReadLists, SearchLists,
               AcceptLists, RejectLists
  <1> QED BY <1>1, <1>3

\* The lists of every GUI are those of the store once it has read what was sent
\* to it and fetched what it was about to, for any number of users: through
\* events for the requester, through the refetch for the acceptor.
THEOREM ListsMatchStoreAlways == Spec => []ListsMatchStore
  <1>1. Init => ListInv
    <2> SUFFICES ASSUME Init PROVE ListInv
      OBVIOUS
    <2>1. <<>> \in Seq(Envelopes) /\ [u \in Users |-> 0] \in [Users -> Nat]
      OBVIOUS
    <2>2. used \in Counters
      BY <2>1 DEF Init, Counters
    <2> QED BY <2>1, <2>2 DEF Init, ListInv
  <1>2. ListInv => ListsMatchStore
    <2> SUFFICES ASSUME ListInv, NEW u \in known \ stale, down[u] = <<>>, u \notin refresh
                 PROVE  friends[u] = FriendsOf(u) /\ RequestsTo(u) \subseteq pending[u]
      BY DEF ListsMatchStore
    <2>1. u \in online \ (stale \cup refresh) /\ friends[u] \in SUBSET Users
      BY DEF ListInv
    <2>2. \A k, fs, f : Holds(<<>>, k, fs, f) <=> f \in fs
      BY DEF Holds
    <2>3. \A f \in Users : InStepWith(down[u], friends[u], pending[u], rows, u, f)
      BY <2>1, InStepIs DEF ListInv
    <2> QED BY <2>1, <2>2, <2>3 DEF InStepWith, FriendsOf, RequestsTo
  <1> QED BY <1>1, <1>2, StepLists, PTL DEF Spec
==============================================================================
