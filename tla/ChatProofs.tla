----------------------------- MODULE ChatProofs -----------------------------
(***************************************************************************)
(* Chat for any number of clients, messages, sessions and restarts: what a *)
(* GUI is shown has been stored, answers reach the session that asked,     *)
(* live messages come in the order of the topic, and between a history     *)
(* page and live delivery nothing is lost.                                 *)
(***************************************************************************)
EXTENDS Chat, FiniteSetTheorems, SequenceTheorems, WellFoundedInduction, TLAPS

\* Messages and session ids.
Msgs == Clients \X Nat
Ids == 1 .. used.sessions

\* What a GUI may be sent, the answers by the session that asked.
Events == [kind : {"event"}, msg : rows]
Histories(S) == [kind : {"history"}, session : S, page : Seq(rows)]
Errors(S) == [kind : {"error"}, session : S]
Envelopes(S) == Events \cup Histories(S) \cup Errors(S)

\* A line of a pane: of somebody else, or the user's own.
Lines == [msg : rows, via : {"live", "history"}] \cup [msg : Msgs, via : {"echo"}]

\* What the gateway and its driver hold.
InsertCtxs == [session : Ids, msg : Msgs]
HistoryCtxs == [session : Ids, n : Nat, read : BOOLEAN, page : Seq(rows)]
InsertDone == [kind : {"insert"}, session : Ids, msg : rows]
Deferreds == InsertDone \cup Histories(Ids) \cup Errors(Ids)

UsedOK == used \in [sent : [Clients -> Nat], fetched : [Clients -> Nat], sessions : Nat]

StoreOK ==
    /\ rows \subseteq Msgs /\ uuids \in Seq(Msgs)
    /\ topic \in Seq(rows) /\ offset \in 0 .. Len(topic)
    /\ inserts \subseteq InsertCtxs /\ selects \subseteq HistoryCtxs
    /\ deferred \in Seq(Deferreds)

\* Ids are never given twice.
SessionsOK ==
    /\ session \in [Clients -> 0 .. used.sessions]
    /\ \A c, d \in Clients : session[c] = session[d] /\ session[c] # 0 => c = d
    /\ open \subseteq listed /\ listed = subscribed
    /\ subscribed \cup loaded \subseteq {c \in Clients : session[c] # 0}

GuiOK ==
    /\ down = [c \in Clients |-> down[c]]
    /\ \A c \in Clients : down[c] \in Seq(Envelopes({session[c]}))
    /\ \A c \in Clients : session[c] = 0 => down[c] = << >>
    /\ pane \in [Clients -> Seq(Lines)]
    /\ \A c \in Clients : Len(pane[c]) <= Cap

ChatTypeOK == UsedOK /\ StoreOK /\ SessionsOK /\ GuiOK

-----------------------------------------------------------------------------
(* Order *)

\* A message's sender is the client in whose session it came.
OwnInv ==
    /\ \A x \in inserts : \A c \in Clients : session[c] = x.session => c = x.msg[1]
    /\ \A i \in DOMAIN deferred : deferred[i].kind = "insert" =>
          \A c \in Clients : session[c] = deferred[i].session => c = deferred[i].msg[1]

\* p is a pane, q what is on its way to it, t the topic of which o are taken.
IsLive(p, i) == p[i].via = "live"
IsEvent(q, i) == q[i].kind = "event"
Taken(t, o, m) == \E k \in 1 .. o : t[k] = m
InTopic(t, a, b) == \E k, l \in DOMAIN t : k < l /\ t[k] = a /\ t[l] = b

InOrder(p, q, t, o) ==
    /\ \A i \in DOMAIN p : IsLive(p, i) => Taken(t, o, p[i].msg)
    /\ \A i \in DOMAIN q : IsEvent(q, i) => Taken(t, o, q[i].msg)
    /\ \A i, j \in DOMAIN p :
          i < j /\ IsLive(p, i) /\ IsLive(p, j) => InTopic(t, p[i].msg, p[j].msg)
    /\ \A i, j \in DOMAIN q :
          i < j /\ IsEvent(q, i) /\ IsEvent(q, j) => InTopic(t, q[i].msg, q[j].msg)
    /\ \A i \in DOMAIN p, j \in DOMAIN q :
          IsLive(p, i) /\ IsEvent(q, j) => InTopic(t, p[i].msg, q[j].msg)

\* Everything live, on the pane or on its way, is in the order of the topic.
OrderInv == \A c \in Clients : InOrder(pane[c], down[c], topic, offset)

-----------------------------------------------------------------------------
(* Gaps *)

\* TimeUUIDs are drawn once per message.
UuidInv ==
    /\ \A i \in DOMAIN uuids : uuids[i][2] <= used.sent[uuids[i][1]]
    /\ \A i, j \in DOMAIN uuids : uuids[i] = uuids[j] => i = j
    /\ \A m \in rows \cup {x.msg : x \in inserts} : \E i \in DOMAIN uuids : uuids[i] = m

\* With pane p and q on its way to it, m is not missing.
Held(p, q, m) ==
    \/ \E i \in DOMAIN p : p[i].msg = m
    \/ \E k \in DOMAIN q : q[k].kind = "event" /\ q[k].msg = m
    \/ Len(p) = Cap

Covered(c, m) ==
    \/ Sender(m) = UserOf[c]
    \/ Held(pane[c], down[c], m)
    \/ Cardinality(Newer(m)) >= Limit

\* The history pages on their way to session s, wherever they are.
OnTheWay(s, S, D, q) ==
    {x.page : x \in {y \in S : y.read /\ y.session = s}}
    \cup {D[i].page : i \in {j \in DOMAIN D : D[j].kind = "history" /\ D[j].session = s}}
    \cup {q[i].page : i \in {j \in DOMAIN q : q[j].kind = "history"}}

PagesFor(c) == OnTheWay(session[c], selects, deferred, down[c])

\* Who has asked for a page is subscribed.
AskedInv ==
    /\ loaded \subseteq subscribed
    /\ \A c \in Clients :
          /\ \A x \in selects : x.session = session[c] => c \in subscribed
          /\ PagesFor(c) # {} => c \in subscribed

\* What a page that is on its way does not bring is covered already.
PageInv ==
    \A c \in subscribed : \A p \in PagesFor(c) : \A i \in 1 .. offset :
        Covered(c, topic[i]) \/ \E k \in DOMAIN p : p[k] = topic[i]

ChatInv == ChatTypeOK /\ OwnInv /\ OrderInv /\ UuidInv /\ AskedInv /\ PageInv /\ NoGap

-----------------------------------------------------------------------------
(* Lemmas about the operators of the model *)


\* What was well typed stays so when rows are added and sessions opened.
LEMMA TypesGrow ==
    ASSUME used.sessions \in Nat, used'.sessions \in Nat, used.sessions <= used'.sessions,
           rows \subseteq rows'
    PROVE  /\ Ids \subseteq Ids' /\ Seq(rows) \subseteq Seq(rows)'
           /\ InsertCtxs \subseteq InsertCtxs' /\ HistoryCtxs \subseteq HistoryCtxs'
           /\ Seq(Deferreds) \subseteq Seq(Deferreds)' /\ Seq(Lines) \subseteq Seq(Lines)'
           /\ \A S : Seq(Envelopes(S)) \subseteq Seq(Envelopes(S)')
<1>1. Ids \subseteq Ids'
  BY DEF Ids
<1>2. \A s \in Seq(rows) : s \in Seq(rows')
  BY SeqMonotonic
<1>3. InsertCtxs \subseteq InsertCtxs' /\ HistoryCtxs \subseteq HistoryCtxs'
  BY <1>1, <1>2 DEF InsertCtxs, HistoryCtxs
<1>4. InsertDone \subseteq InsertDone' /\ Lines \subseteq Lines' /\ Events \subseteq Events'
  BY <1>1 DEF InsertDone, Lines, Events, Msgs
<1>5. \A S, T : S \subseteq T => Histories(S) \subseteq Histories(T)' /\ Errors(S) \subseteq Errors(T)
  BY <1>2 DEF Histories, Errors
<1>6. Deferreds \subseteq Deferreds'
  BY <1>1, <1>4, <1>5 DEF Deferreds, Errors
<1>7. \A S : Envelopes(S) \subseteq Envelopes(S)'
  BY <1>4, <1>5 DEF Envelopes, Errors
<1> QED
  BY <1>1, <1>2, <1>3, <1>4, <1>6, <1>7, SeqMonotonic

\* q is p with a line more at the end, and maybe one less at the front.
Pushed(p, q) ==
    \E d \in {0, 1} :
        /\ Len(p) = Len(q) - 1 + d /\ (d = 1 => Len(q) = Cap)
        /\ \A i \in 1 .. Len(q) - 1 : q[i] = p[i + d]

\* push_chat: the line comes last, and one line may go at the front.
LEMMA PushChatIs ==
    ASSUME NEW S, NEW p \in Seq(S), NEW line \in S, Len(p) <= Cap
    PROVE  LET q == PushChat(p, line) IN
           /\ q \in Seq(S) /\ Len(q) \in 1 .. Cap /\ q[Len(q)] = line
           /\ Pushed(p, q)
<1> DEFINE r == IF Len(p) >= Cap THEN Tail(p) ELSE p
           d == IF Len(p) >= Cap THEN 1 ELSE 0
<1>1. Cap \in Nat \ {0} /\ Len(p) \in Nat
  BY ChatAssumption
<1>2. r \in Seq(S) /\ Len(r) = Len(p) - d /\ \A i \in 1 .. Len(r) : r[i] = p[i + d]
  <2>1. CASE Len(p) >= Cap
    <3>1. p # << >>
      BY <1>1, <2>1
    <3> QED BY <1>1, <2>1, <3>1, HeadTailProperties
  <2>2. CASE ~(Len(p) >= Cap)
    BY <1>1, <2>2
  <2> QED BY <2>1, <2>2
<1> HIDE DEF r
<1>3. PushChat(p, line) = Append(r, line)
  BY DEF PushChat, r
<1>4. /\ Append(r, line) \in Seq(S) /\ Len(Append(r, line)) = Len(r) + 1
      /\ Append(r, line)[Len(r) + 1] = line
      /\ \A i \in 1 .. Len(r) : Append(r, line)[i] = r[i]
  BY <1>2, AppendProperties
<1>5. /\ d \in {0, 1} /\ Len(p) = Len(Append(r, line)) - 1 + d
      /\ d = 1 => Len(Append(r, line)) = Cap
      /\ Len(Append(r, line)) \in 1 .. Cap
      /\ \A i \in 1 .. Len(Append(r, line)) - 1 : Append(r, line)[i] = p[i + d]
  BY <1>1, <1>2, <1>4
<1>6. Pushed(p, Append(r, line))
  BY <1>5 DEF Pushed
<1> QED BY <1>1, <1>2, <1>3, <1>4, <1>5, <1>6

\* A set of numbers that is finite and not empty has a least one.
LEMMA FirstOf ==
    ASSUME NEW S \in SUBSET Nat, IsFiniteSet(S), S # {}
    PROVE  \E m \in S : \A k \in S : m <= k
<1> DEFINE R == StrictSubsetOrdering(S)
           B(k) == {j \in S : j < k}
           T == {B(k) : k \in S}
<1>1. IsWellFoundedOn(R, FiniteSubsetsOf(S))
  BY FS_StrictSubsetOrderingWellFounded
<1>2. T \subseteq FiniteSubsetsOf(S) /\ T # {}
  <2> SUFFICES ASSUME NEW k \in S PROVE B(k) \in FiniteSubsetsOf(S)
    OBVIOUS
  <2>1. B(k) \subseteq S
    OBVIOUS
  <2> QED BY <2>1, FS_Subset DEF FiniteSubsetsOf
<1> HIDE DEF R
<1>3. PICK X \in T : \A Y \in T : ~(<<Y, X>> \in R)
  BY <1>1, <1>2, WFMin
<1>4. PICK m \in S : X = B(m)
  BY <1>3
<1>5. ASSUME NEW k \in S, k < m PROVE FALSE
  <2>1. B(k) \subseteq B(m) /\ B(k) # B(m) /\ B(m) \subseteq S
    <3>1. k \in B(m) /\ k \notin B(k)
      BY <1>5
    <3>2. ASSUME NEW j \in B(k) PROVE j \in B(m)
      BY <1>5
    <3> QED BY <3>1, <3>2
  <2>2. <<B(k), B(m)>> \in R
    BY <2>1 DEF R, StrictSubsetOrdering
  <2> QED BY <1>3, <1>4, <2>2
<1> QED BY <1>5, <1>4

\* Counted from the top, there is a member at every place of a finite set.
LEMMA AtPlace ==
    ASSUME NEW S \in SUBSET Nat, IsFiniteSet(S), NEW k \in 1 .. Cardinality(S)
    PROVE  \E i \in S : Cardinality({j \in S : j >= i}) = k
<1> DEFINE U(i) == {j \in S : j >= i}
           R == StrictSubsetOrdering(S)
           T == {U(i) : i \in {j \in S : Cardinality(U(j)) >= k}}
<1>1. \A i \in S : U(i) \subseteq S /\ IsFiniteSet(U(i)) /\ Cardinality(U(i)) \in Nat
  <2> SUFFICES ASSUME NEW i \in S PROVE IsFiniteSet(U(i)) /\ Cardinality(U(i)) \in Nat
    OBVIOUS
  <2>1. U(i) \subseteq S
    OBVIOUS
  <2> QED BY <2>1, FS_Subset, FS_CardinalityType
<1>2. IsWellFoundedOn(R, FiniteSubsetsOf(S)) /\ T \subseteq FiniteSubsetsOf(S)
  <2>1. T \subseteq FiniteSubsetsOf(S)
    BY <1>1 DEF FiniteSubsetsOf
  <2> QED BY <2>1, FS_StrictSubsetOrderingWellFounded
<1>3. T # {}
  <2>1. S # {}
    BY FS_EmptySet
  <2>2. PICK b \in S : \A j \in S : b <= j
    BY <2>1, FirstOf
  <2>3. U(b) = S
    BY <2>2
  <2>4. Cardinality(U(b)) >= k
    BY <2>3
  <2> QED BY <2>4
<1> HIDE DEF R
<1>4. PICK X \in T : \A Y \in T : ~(<<Y, X>> \in R)
  BY <1>2, <1>3, WFMin
<1>5. PICK m \in S : X = U(m) /\ Cardinality(U(m)) >= k
  BY <1>4
<1>6. ASSUME Cardinality(U(m)) > k PROVE FALSE
  <2> DEFINE V == U(m) \ {m}
  <2>1. IsFiniteSet(V) /\ Cardinality(V) = Cardinality(U(m)) - 1
    <3>1. m \in U(m)
      OBVIOUS
    <3> QED BY <1>1, <3>1, FS_RemoveElement
  <2>2. V # {}
    BY <1>1, <1>6, <2>1, FS_EmptySet
  <2>3. PICK n \in V : \A j \in V : n <= j
    BY <2>1, <2>2, FirstOf
  <2>4. U(n) = V /\ n \in S
    <3>1. n \in S /\ n > m
      BY <2>3
    <3>2. ASSUME NEW j \in S PROVE j >= n <=> j \in V
      BY <2>3, <3>1
    <3> QED BY <3>1, <3>2
  <2>5. U(n) \in T /\ <<U(n), U(m)>> \in R
    <3>1. Cardinality(U(n)) >= k
      BY <1>1, <1>6, <2>1, <2>4
    <3>2. U(n) \subseteq U(m) /\ U(n) # U(m) /\ U(m) \subseteq S
      <4>1. m \in U(m) /\ m \notin U(n)
        BY <2>4
      <4> QED BY <2>4, <4>1
    <3> QED BY <2>4, <3>1, <3>2 DEF R, StrictSubsetOrdering
  <2> QED BY <1>4, <1>5, <2>5
<1> QED BY <1>1, <1>5, <1>6

\* The page is a sequence of rows.
LEMMA PageIs ==
    ASSUME StoreOK
    PROVE  /\ Stored \in SUBSET Nat /\ IsFiniteSet(Stored) /\ Page \in Seq(rows)
           /\ \A k \in 1 .. Cardinality(Stored) : k <= Limit => k \in DOMAIN Page
           /\ \A k \in DOMAIN Page :
                 \E i \in Stored : Place(i) = k /\ Page[k] = uuids[i]
<1>1. Stored \subseteq 1 .. Len(uuids) /\ Len(uuids) \in Nat
  BY DEF StoreOK, Stored
<1>2. Stored \in SUBSET Nat /\ IsFiniteSet(Stored)
  <2>1. IsFiniteSet(1 .. Len(uuids))
    BY <1>1, FS_Interval
  <2>2. IsFiniteSet(Stored)
    BY <1>1, <2>1, FS_Subset
  <2> QED BY <1>1, <2>2
<1> DEFINE n == Cardinality(Stored)
           l == IF n < Limit THEN n ELSE Limit
           at(k) == CHOOSE i \in Stored : Place(i) = k
<1>3. n \in Nat /\ l \in Nat
  BY <1>2, FS_CardinalityType, ChatAssumption
<1>4. ASSUME NEW k \in 1 .. l PROVE at(k) \in Stored /\ Place(at(k)) = k
  <2>1. k \in 1 .. n
    BY <1>3, ChatAssumption
  <2>2. \E i \in Stored : Place(i) = k
    BY <1>2, <2>1, AtPlace DEF Place
  <2> QED BY <2>2
<1>5. \A k \in 1 .. l : uuids[at(k)] \in rows
  BY <1>4 DEF Stored
<1>6. Page = [k \in 1 .. l |-> uuids[at(k)]]
  BY DEF Page
<1> HIDE DEF at, l
<1>7. DOMAIN Page = 1 .. l /\ \A k \in 1 .. l : Page[k] = uuids[at(k)]
  BY <1>6
<1>8. Page \in Seq(rows)
  BY <1>3, <1>5, <1>6
<1>9. \A k \in 1 .. n : k <= Limit => k \in 1 .. l
  BY <1>3, ChatAssumption DEF l
<1> QED BY <1>2, <1>4, <1>7, <1>8, <1>9

\* There are no more newer rows than TimeUUIDs.
LEMMA NewerFinite ==
    ASSUME StoreOK, NEW m
    PROVE  IsFiniteSet(Newer(m)) /\ Cardinality(Newer(m)) \in Nat
<1> DEFINE R == {uuids[j] : j \in DOMAIN uuids}
<1>1. IsFiniteSet(DOMAIN uuids)
  <2>1. DOMAIN uuids = 1 .. Len(uuids) /\ Len(uuids) \in Nat
    BY DEF StoreOK
  <2> QED BY <2>1, FS_Interval
<1>2. IsFiniteSet(R)
  <2> DEFINE f == [j \in DOMAIN uuids |-> uuids[j]]
  <2>1. f \in Surjection(DOMAIN uuids, R)
    BY DEF Surjection
  <2> QED BY <1>1, <2>1, FS_Surjection
<1>3. Newer(m) \subseteq R
  BY DEF Newer
<1> QED BY <1>2, <1>3, FS_Subset, FS_CardinalityType

\* A row that the page lacks has a full page of newer ones.
LEMMA PageHas ==
    ASSUME StoreOK, UuidInv, NEW m \in rows
    PROVE  (\E k \in DOMAIN Page : Page[k] = m) \/ Cardinality(Newer(m)) >= Limit
<1>1. PICK i \in DOMAIN uuids : uuids[i] = m
  BY DEF UuidInv
<1>2. i \in Stored /\ Stored \in SUBSET Nat /\ IsFiniteSet(Stored)
  BY <1>1, PageIs DEF Stored
<1> DEFINE U(x) == {j \in Stored : j >= x}
<1>3. \A x : IsFiniteSet(U(x)) /\ Cardinality(U(x)) \in Nat /\ U(x) \subseteq Stored
  <2> SUFFICES ASSUME NEW x PROVE IsFiniteSet(U(x)) /\ Cardinality(U(x)) \in Nat
    OBVIOUS
  <2>1. U(x) \subseteq Stored
    OBVIOUS
  <2> QED BY <1>2, <2>1, FS_Subset, FS_CardinalityType
<1>4. i \in U(i)
  BY <1>2
<1>5. CASE Place(i) <= Limit
  <2>1. Place(i) \in 1 .. Cardinality(Stored)
    <3>1. Cardinality(U(i)) # 0
      BY <1>3, <1>4, FS_EmptySet
    <3>2. Cardinality(U(i)) <= Cardinality(Stored) /\ Cardinality(Stored) \in Nat
      BY <1>2, <1>3, FS_Subset, FS_CardinalityType
    <3> QED BY <1>3, <3>1, <3>2 DEF Place
  <2>2. Place(i) \in DOMAIN Page
    BY <1>5, <2>1, PageIs
  <2>3. PICK x \in Stored : Place(x) = Place(i) /\ Page[Place(i)] = uuids[x]
    BY <2>2, PageIs
  <2>4. U(x) \subseteq U(i) \/ U(i) \subseteq U(x)
    <3>1. x \in Nat /\ i \in Nat
      BY <1>2
    <3>2. CASE x <= i
      <4>1. \A j \in U(i) : j \in U(x)
        BY <1>2, <3>1, <3>2
      <4> QED BY <4>1
    <3>3. CASE i <= x
      <4>1. \A j \in U(x) : j \in U(i)
        BY <1>2, <3>1, <3>3
      <4> QED BY <4>1
    <3> QED BY <3>1, <3>2, <3>3
  <2>5. U(x) = U(i)
    <3>1. Cardinality(U(x)) = Cardinality(U(i))
      BY <2>3 DEF Place
    <3> QED BY <1>3, <2>4, <3>1, FS_Subset
  <2>6. x = i
    <3>1. x \in U(x)
      BY <1>2
    <3>2. x \in U(i) /\ i \in U(x)
      BY <1>4, <2>5, <3>1
    <3> QED BY <1>2, <3>2
  <2> QED BY <1>1, <2>2, <2>3, <2>6
<1>6. CASE Place(i) > Limit
  <2> DEFINE V == U(i) \ {i}
             f == [j \in V |-> uuids[j]]
  <2>1. IsFiniteSet(V) /\ Cardinality(V) = Place(i) - 1
    BY <1>3, <1>4, FS_RemoveElement DEF Place
  <2>2. \A j \in V : uuids[j] \in Newer(m)
    BY <1>1, <1>2 DEF Newer, Stored
  <2>3. f \in Injection(V, Newer(m))
    <3>1. \A j, k \in V : uuids[j] = uuids[k] => j = k
      BY <1>2 DEF UuidInv, Stored
    <3> QED BY <2>2, <3>1 DEF Injection, IsInjective
  <2>4. IsFiniteSet(Newer(m))
    BY NewerFinite
  <2>5. Cardinality(V) <= Cardinality(Newer(m)) /\ Cardinality(Newer(m)) \in Nat
    BY <2>1, <2>3, <2>4, FS_Injection, FS_CardinalityType
  <2>6. Place(i) \in Nat
    BY <1>3 DEF Place
  <2> HIDE DEF V
  <2>7. Cardinality(Newer(m)) >= Limit
    BY <1>6, <2>1, <2>5, <2>6, ChatAssumption
  <2> QED BY <2>7
<1> QED BY <1>3, <1>5, <1>6, ChatAssumption DEF Place

\* An envelope is queued for those it is sent to, and for nobody else.
LEMMA SendToIs ==
    ASSUME GuiOK, NEW S, NEW e, SendTo(S, e), \A c \in S : e \in Envelopes({session[c]})
    PROVE  /\ down' = [c \in Clients |-> down'[c]]
           /\ \A c \in Clients : down'[c] \in Seq(Envelopes({session[c]}))
           /\ \A c \in Clients : c \notin S => down'[c] = down[c]
           /\ \A c \in Clients : c \in S => down'[c] = Append(down[c], e)
<1>1. /\ \A c \in Clients : c \notin S => down'[c] = down[c]
      /\ \A c \in Clients : c \in S => down'[c] = Append(down[c], e)
      /\ down' = [c \in Clients |-> down'[c]]
  BY DEF SendTo
<1>2. ASSUME NEW c \in Clients PROVE down'[c] \in Seq(Envelopes({session[c]}))
  <2>1. down[c] \in Seq(Envelopes({session[c]}))
    BY DEF GuiOK
  <2>2. CASE c \in S
    BY <1>1, <2>1, <2>2, AppendProperties
  <2>3. CASE c \notin S
    BY <1>1, <2>1, <2>3
  <2> QED BY <2>2, <2>3
<1> QED BY <1>1, <1>2

\* The first envelope, and what is left of them.
LEMMA HeadIs ==
    ASSUME GuiOK, NEW c \in Clients, down[c] # << >>
    PROVE  /\ down[c] \in Seq(Envelopes({session[c]})) /\ Len(down[c]) \in Nat \ {0}
           /\ Head(down[c]) \in Envelopes({session[c]}) /\ Head(down[c]) = down[c][1]
           /\ Tail(down[c]) \in Seq(Envelopes({session[c]}))
           /\ Len(Tail(down[c])) = Len(down[c]) - 1
           /\ \A i \in 1 .. Len(down[c]) - 1 : Tail(down[c])[i] = down[c][i + 1]
<1>1. down[c] \in Seq(Envelopes({session[c]}))
  BY DEF GuiOK
<1>2. Len(down[c]) \in Nat \ {0}
  BY <1>1, EmptySeq
<1>3. Head(down[c]) = down[c][1]
  BY <1>1, <1>2
<1> QED BY <1>1, <1>2, <1>3, HeadTailProperties

\* A page goes to the front of a pane as far as there is room for it.
LEMMA HistoryIs ==
    ASSUME GuiOK, NEW c \in Clients, NEW page \in Seq(rows), ReadHistory(c, page)
    PROVE  LET q == pane'[c] IN
           /\ pane' \in [Clients -> Seq(Lines)] /\ Len(q) <= Cap
           /\ \A d \in Clients \ {c} : pane'[d] = pane[d]
           /\ \E k \in 0 .. Len(page) :
                 /\ Len(q) = k + Len(pane[c]) /\ (k < Len(page) => Len(q) = Cap)
                 /\ \A i \in 1 .. k : q[i].via = "history" /\ q[i].msg = page[Len(page) - k + i]
                 /\ \A i \in 1 .. Len(pane[c]) : q[k + i] = pane[c][i]
<1> DEFINE n == Len(page)
           room == IF Len(pane[c]) >= Cap THEN 0 ELSE Cap - Len(pane[c])
           k == IF n < room THEN n ELSE room
           h == [i \in 1 .. k |-> [msg |-> page[n - k + i], via |-> "history"]]
           q == h \o pane[c]
<1>1. /\ pane[c] \in Seq(Lines) /\ Len(pane[c]) <= Cap /\ Cap \in Nat
      /\ pane \in [Clients -> Seq(Lines)]
  BY ChatAssumption DEF GuiOK
<1>2. n \in Nat /\ Len(pane[c]) \in Nat
  BY <1>1
<1>3. k \in 0 .. n /\ k + Len(pane[c]) <= Cap /\ (k < n => k + Len(pane[c]) = Cap)
  BY <1>1, <1>2
<1> HIDE DEF k, n
<1>4. \A i \in 1 .. k : n - k + i \in 1 .. n
  BY <1>2, <1>3
<1>5. \A i \in 1 .. k : page[n - k + i] \in rows
  BY <1>4, ElementOfSeq DEF n
<1>6. \A i \in 1 .. k : [msg |-> page[n - k + i], via |-> "history"] \in Lines
  BY <1>5 DEF Lines
<1>7. h \in Seq(Lines) /\ Len(h) = k
  <2>1. k \in Nat
    BY <1>2, <1>3
  <2>2. h \in [1 .. k -> Lines]
    BY <1>6, Zenon
  <2> HIDE DEF h
  <2> QED BY <2>1, <2>2
<1>8. \A i \in 1 .. k : h[i].via = "history" /\ h[i].msg = page[n - k + i]
  OBVIOUS
<1> HIDE DEF h
<1>9. /\ q \in Seq(Lines) /\ Len(q) = k + Len(pane[c])
      /\ \A i \in 1 .. k : q[i] = h[i]
      /\ \A i \in 1 .. Len(pane[c]) : q[k + i] = pane[c][i]
  <2>1. /\ q \in Seq(Lines) /\ Len(q) = k + Len(pane[c])
        /\ \A i \in 1 .. k + Len(pane[c]) : q[i] = IF i <= k THEN h[i] ELSE pane[c][i - k]
    BY <1>1, <1>7, ConcatProperties
  <2>2. \A i \in 1 .. k : q[i] = h[i]
    BY <1>2, <1>3, <2>1
  <2>3. ASSUME NEW i \in 1 .. Len(pane[c]) PROVE q[k + i] = pane[c][i]
    <3>1. k + i \in 1 .. k + Len(pane[c]) /\ ~(k + i <= k) /\ (k + i) - k = i
      BY <1>2, <1>3
    <3> QED BY <2>1, <3>1
  <2> QED BY <2>1, <2>2, <2>3
<1>10. pane' = [pane EXCEPT ![c] = q]
  BY DEF ReadHistory, h, k, n
<1> HIDE DEF q
<1>11. pane'[c] = q /\ pane' \in [Clients -> Seq(Lines)] /\ \A d \in Clients \ {c} : pane'[d] = pane[d]
  BY <1>1, <1>9, <1>10
<1>12. pane'[c] \in Seq(Lines) /\ Len(pane'[c]) <= Cap
  BY <1>3, <1>9, <1>11
<1>13. /\ k \in 0 .. Len(page)
       /\ Len(pane'[c]) = k + Len(pane[c]) /\ (k < Len(page) => Len(pane'[c]) = Cap)
       /\ \A i \in 1 .. k :
             pane'[c][i].via = "history" /\ pane'[c][i].msg = page[Len(page) - k + i]
       /\ \A i \in 1 .. Len(pane[c]) : pane'[c][k + i] = pane[c][i]
  BY <1>3, <1>8, <1>9, <1>11 DEF n
<1> QED BY <1>11, <1>12, <1>13

-----------------------------------------------------------------------------
(* Types *)

LEMMA ChatStarts == Init => ChatInv
<1> SUFFICES ASSUME Init PROVE ChatInv
  OBVIOUS
<1>1. \A c \in Clients : session[c] = 0 /\ down[c] = << >> /\ pane[c] = << >>
  BY DEF Init
<1>2. ChatTypeOK
  <2>1. UsedOK
    BY DEF Init, UsedOK
  <2>2. StoreOK
    BY DEF Init, StoreOK
  <2>3. SessionsOK
    BY <1>1, <2>1 DEF Init, SessionsOK, UsedOK
  <2>4. GuiOK
    BY <1>1, ChatAssumption DEF Init, GuiOK
  <2> QED BY <2>1, <2>2, <2>3, <2>4 DEF ChatTypeOK
<1>3. OwnInv /\ OrderInv
  BY <1>1 DEF Init, OwnInv, OrderInv, InOrder
<1>4. UuidInv /\ AskedInv
  BY <1>1 DEF Init, UuidInv, AskedInv, PagesFor, OnTheWay
<1>5. PageInv /\ NoGap
  BY DEF Init, PageInv, NoGap
<1> QED BY <1>2, <1>3, <1>4, <1>5 DEF ChatInv

\* Sessions that nothing changes stay as they were.
LEMMA SessionsStay ==
    ASSUME ChatTypeOK, UNCHANGED <<session, subscribed, listed>>,
           used'.sessions = used.sessions,
           open' \subseteq listed, loaded' \subseteq {c \in Clients : session[c] # 0}
    PROVE  SessionsOK'
BY DEF ChatTypeOK, SessionsOK

LEMMA SendChatTypes ==
    ASSUME ChatTypeOK, NEW c \in Clients, SendChat(c) PROVE ChatTypeOK'
<1> DEFINE m == <<c, used.sent[c] + 1>>
           line == [msg |-> m, via |-> "echo"]
<1>1. session[c] \in Ids /\ m \in Msgs /\ line \in Lines
  BY DEF SendChat, ChatTypeOK, SessionsOK, UsedOK, Ids, Msgs, Lines
<1>2. UsedOK' /\ used'.sessions = used.sessions
  BY DEF SendChat, ChatTypeOK, UsedOK
<1> HIDE DEF m, line
<1>3. Ids' = Ids /\ rows' = rows /\ InsertCtxs' = InsertCtxs
  BY <1>2 DEF SendChat, Ids, InsertCtxs, Msgs
<1>4. StoreOK'
  <2>1. uuids' \in Seq(Msgs)
    BY <1>1, AppendProperties DEF ChatTypeOK, StoreOK, SendChat, OnSendMessage, m
  <2>2. inserts' \subseteq InsertCtxs'
    <3>1. inserts' = inserts \cup {[session |-> session[c], msg |-> m]}
      BY DEF SendChat, OnSendMessage, m
    <3> QED BY <1>1, <1>3, <3>1 DEF ChatTypeOK, StoreOK, InsertCtxs
  <2>3. selects' \subseteq HistoryCtxs' /\ deferred' \in Seq(Deferreds')
    BY <1>3 DEF ChatTypeOK, StoreOK, SendChat, HistoryCtxs, Deferreds, InsertDone, Histories, Errors
  <2>4. rows' \subseteq Msgs /\ topic' \in Seq(rows') /\ offset' \in 0 .. Len(topic')
    BY DEF ChatTypeOK, StoreOK, SendChat, kafkaVars
  <2> QED BY <2>1, <2>2, <2>3, <2>4 DEF StoreOK
<1>5. SessionsOK'
  BY <1>2, SessionsStay DEF SendChat, ChatTypeOK, SessionsOK
<1>6. GuiOK'
  <2>1. pane[c] \in Seq(Lines) /\ Len(pane[c]) <= Cap
    BY DEF ChatTypeOK, GuiOK
  <2>2. PushChat(pane[c], line) \in Seq(Lines) /\ Len(PushChat(pane[c], line)) <= Cap
    <3>1. PushChat(pane[c], line) \in Seq(Lines) /\ Len(PushChat(pane[c], line)) \in 1 .. Cap
      BY <1>1, <2>1, PushChatIs
    <3> QED BY <3>1, ChatAssumption
  <2>3. Lines' = Lines /\ \A S : Envelopes(S)' = Envelopes(S)
    BY <1>3 DEF Lines, Envelopes, Events, Histories, Errors
  <2>4. pane' = [pane EXCEPT ![c] = PushChat(pane[c], line)]
    BY DEF SendChat, m, line
  <2> QED BY <2>2, <2>3, <2>4 DEF ChatTypeOK, GuiOK, SendChat
<1> QED BY <1>2, <1>4, <1>5, <1>6 DEF ChatTypeOK

\* Steps that add a row, an answer, a session or nothing.
LEMMA RowTypes ==
    ASSUME ChatTypeOK, NEW x \in inserts, Store(x) PROVE ChatTypeOK'
<1>1. x.msg \in Msgs /\ rows \subseteq rows' /\ used' = used
  BY DEF Store, ChatTypeOK, StoreOK, InsertCtxs
<1>2. UsedOK' /\ used.sessions \in Nat
  BY <1>1 DEF ChatTypeOK, UsedOK
<1>3. /\ Seq(rows) \subseteq Seq(rows)' /\ InsertCtxs \subseteq InsertCtxs'
      /\ HistoryCtxs \subseteq HistoryCtxs'
      /\ Seq(Deferreds) \subseteq Seq(Deferreds)' /\ Seq(Lines) \subseteq Seq(Lines)'
      /\ \A S : Seq(Envelopes(S)) \subseteq Seq(Envelopes(S)')
  BY <1>1, <1>2, TypesGrow
<1>4. StoreOK'
  BY <1>1, <1>3 DEF Store, ChatTypeOK, StoreOK, kafkaVars
<1>5. SessionsOK'
  BY <1>1, SessionsStay DEF Store, ChatTypeOK, SessionsOK, guiVars
<1>6. GuiOK'
  BY <1>3 DEF Store, ChatTypeOK, GuiOK, guiVars
<1> QED BY <1>2, <1>4, <1>5, <1>6 DEF ChatTypeOK

\* The types depend on the rows and the sessions alone.
LEMMA TypesStay ==
    ASSUME rows' = rows, used'.sessions = used.sessions
    PROVE  /\ Ids' = Ids /\ Lines' = Lines /\ InsertCtxs' = InsertCtxs
           /\ HistoryCtxs' = HistoryCtxs /\ Deferreds' = Deferreds
           /\ \A S : Envelopes(S)' = Envelopes(S)
<1>1. Ids' = Ids
  BY DEF Ids
<1>2. /\ Events' = Events /\ InsertDone' = InsertDone
      /\ \A S : Histories(S)' = Histories(S) /\ Errors(S)' = Errors(S)
  BY <1>1 DEF Events, InsertDone, Histories, Errors
<1>3. Lines' = Lines /\ InsertCtxs' = InsertCtxs /\ HistoryCtxs' = HistoryCtxs
  BY <1>1 DEF Lines, Msgs, InsertCtxs, HistoryCtxs
<1> QED BY <1>1, <1>2, <1>3 DEF Deferreds, Envelopes, Histories, Errors

LEMMA ReadTypes ==
    ASSUME ChatTypeOK, NEW c \in Clients, Read(c) PROVE ChatTypeOK'
<1> DEFINE e == Head(down[c])
<1>1. GuiOK /\ rows' = rows /\ used' = used
  BY DEF ChatTypeOK, Read, dbVars
<1>2. /\ Ids' = Ids /\ Lines' = Lines /\ InsertCtxs' = InsertCtxs
      /\ HistoryCtxs' = HistoryCtxs /\ Deferreds' = Deferreds
      /\ \A S : Envelopes(S)' = Envelopes(S)
  BY <1>1, TypesStay
<1>3. UsedOK'
  BY <1>1 DEF ChatTypeOK, UsedOK
<1>4. StoreOK'
  BY <1>1, <1>2 DEF Read, ChatTypeOK, StoreOK, dbVars, kafkaVars
<1>5. down[c] # << >> /\ e \in Envelopes({session[c]}) /\ session[c] # 0
  <2>1. down[c] # << >>
    BY DEF Read
  <2> QED BY <1>1, <2>1, HeadIs DEF GuiOK
<1>6. pane[c] \in Seq(Lines) /\ Len(pane[c]) <= Cap /\ pane \in [Clients -> Seq(Lines)]
  BY DEF ChatTypeOK, GuiOK
<1>7. /\ pane' \in [Clients -> Seq(Lines)] /\ \A d \in Clients : Len(pane'[d]) <= Cap
      /\ loaded' \subseteq loaded \cup {c}
  <2>1. CASE e.kind = "event" /\ ReadEvent(c, e.msg)
    <3> DEFINE line == [msg |-> e.msg, via |-> "live"]
    <3>1. e.msg \in rows
      BY <1>5, <2>1 DEF Envelopes, Events, Histories, Errors
    <3>2. line \in Lines
      BY <3>1 DEF Lines
    <3>3. PushChat(pane[c], line) \in Seq(Lines) /\ Len(PushChat(pane[c], line)) <= Cap
      <4> HIDE DEF line
      <4>1. PushChat(pane[c], line) \in Seq(Lines) /\ Len(PushChat(pane[c], line)) \in 1 .. Cap
        BY <1>6, <3>2, PushChatIs
      <4> QED BY <4>1, ChatAssumption
    <3>4. pane' = [pane EXCEPT ![c] = PushChat(pane[c], line)] /\ loaded' = loaded
      BY <2>1 DEF ReadEvent
    <3> QED BY <1>1, <1>6, <3>3, <3>4 DEF GuiOK
  <2>2. CASE e.kind = "history" /\ ReadHistory(c, e.page)
    <3>1. e.page \in Seq(rows)
      BY <1>5, <2>2 DEF Envelopes, Events, Histories, Errors
    <3>2. /\ pane' \in [Clients -> Seq(Lines)] /\ Len(pane'[c]) <= Cap
          /\ \A d \in Clients \ {c} : pane'[d] = pane[d]
      BY <1>1, <2>2, <3>1, HistoryIs
    <3>3. loaded' = loaded \cup {c}
      BY <2>2 DEF ReadHistory
    <3> QED BY <1>1, <3>2, <3>3 DEF GuiOK
  <2>3. CASE e.kind = "error" /\ UNCHANGED <<pane, loaded>>
    BY <1>1, <2>3 DEF GuiOK
  <2> QED BY <2>1, <2>2, <2>3 DEF Read
<1>8. SessionsOK'
  BY <1>1, <1>5, <1>7, SessionsStay DEF Read, ChatTypeOK, SessionsOK
<1>9. GuiOK'
  <2>1. down' = [down EXCEPT ![c] = Tail(@)] /\ session' = session
    BY DEF Read
  <2>2. Tail(down[c]) \in Seq(Envelopes({session[c]}))
    BY <1>1, <1>5, HeadIs
  <2>3. /\ down' = [d \in Clients |-> down'[d]]
        /\ \A d \in Clients : down'[d] = IF d = c THEN Tail(down[c]) ELSE down[d]
    BY <1>1, <2>1 DEF GuiOK
  <2>4. \A d \in Clients : down'[d] \in Seq(Envelopes({session[d]}))
    BY <1>1, <1>2, <2>1, <2>2, <2>3 DEF GuiOK
  <2> QED BY <1>1, <1>2, <1>5, <1>7, <2>1, <2>3, <2>4 DEF GuiOK
<1> QED BY <1>3, <1>4, <1>8, <1>9 DEF ChatTypeOK

LEMMA OpenTypes ==
    ASSUME ChatTypeOK, NEW c \in Clients, OpenChannel(c) PROVE ChatTypeOK'
<1> DEFINE n == used.fetched[c] + 1
           x == [session |-> session[c], n |-> n, read |-> FALSE, page |-> << >>]
<1>1. rows' = rows /\ UsedOK' /\ used'.sessions = used.sessions
  BY DEF OpenChannel, ChatTypeOK, UsedOK
<1>2. /\ Ids' = Ids /\ Lines' = Lines /\ InsertCtxs' = InsertCtxs
      /\ HistoryCtxs' = HistoryCtxs /\ Deferreds' = Deferreds
      /\ \A S : Envelopes(S)' = Envelopes(S)
  BY <1>1, TypesStay
<1>3. session[c] \in Ids /\ n \in Nat
  BY DEF OpenChannel, ChatTypeOK, SessionsOK, UsedOK, Ids
<1> HIDE DEF n
<1>4. x \in HistoryCtxs
  <2>1. << >> \in Seq(rows)
    OBVIOUS
  <2> QED BY <1>3, <2>1 DEF HistoryCtxs
<1>5. selects' = selects \cup {x}
  BY DEF OpenChannel, OnFetchHistory, n
<1> HIDE DEF x
<1>6. StoreOK'
  BY <1>1, <1>2, <1>4, <1>5 DEF OpenChannel, ChatTypeOK, StoreOK, kafkaVars
<1>7. SessionsOK'
  BY <1>1 DEF OpenChannel, ChatTypeOK, SessionsOK
<1>8. GuiOK'
  BY <1>2 DEF OpenChannel, ChatTypeOK, GuiOK
<1> QED BY <1>1, <1>6, <1>7, <1>8 DEF ChatTypeOK

LEMMA HelloTypes ==
    ASSUME ChatTypeOK, NEW c \in Clients, Hello(c) PROVE ChatTypeOK'
<1>1. /\ rows' = rows /\ UsedOK' /\ used'.sessions = used.sessions + 1
      /\ used.sessions \in Nat
  BY DEF Hello, ChatTypeOK, UsedOK, dbVars
<1>2. /\ Seq(rows) \subseteq Seq(rows)' /\ InsertCtxs \subseteq InsertCtxs'
      /\ HistoryCtxs \subseteq HistoryCtxs'
      /\ Seq(Deferreds) \subseteq Seq(Deferreds)' /\ Seq(Lines) \subseteq Seq(Lines)'
      /\ \A S : Seq(Envelopes(S)) \subseteq Seq(Envelopes(S)')
  BY <1>1, TypesGrow
<1>3. StoreOK'
  BY <1>2 DEF Hello, ChatTypeOK, StoreOK, dbVars, kafkaVars
<1>4. /\ session' \in [Clients -> 0 .. used'.sessions]
      /\ session'[c] = used.sessions + 1 /\ session[c] = 0
      /\ \A d \in Clients \ {c} : session'[d] = session[d] /\ session'[d] # session'[c]
  BY <1>1 DEF Hello, ChatTypeOK, SessionsOK
<1>5. SessionsOK'
  <2>1. \A a, b \in Clients : session'[a] = session'[b] /\ session'[a] # 0 => a = b
    BY <1>4 DEF ChatTypeOK, SessionsOK
  <2>2. open' \subseteq listed' /\ listed' = subscribed' /\ subscribed' \subseteq subscribed \cup {c}
        /\ loaded' = loaded
    BY DEF Hello, ChatTypeOK, SessionsOK
  <2>3. subscribed' \cup loaded' \subseteq {d \in Clients : session'[d] # 0}
    BY <1>1, <1>4, <2>2 DEF ChatTypeOK, SessionsOK
  <2> QED BY <1>4, <2>1, <2>2, <2>3 DEF SessionsOK
<1>6. GuiOK'
  <2>1. down' = down /\ pane' = pane
    BY DEF Hello
  <2>2. ASSUME NEW d \in Clients PROVE down[d] \in Seq(Envelopes({session[d]})')
    <3>1. CASE d = c
      <4>1. down[d] = << >>
        BY <1>4, <3>1 DEF ChatTypeOK, GuiOK
      <4> QED BY <4>1
    <3>2. CASE d # c
      <4>1. down[d] \in Seq(Envelopes({session[d]})) /\ session'[d] = session[d]
        BY <1>4, <3>2 DEF ChatTypeOK, GuiOK
      <4> QED BY <1>2, <4>1
    <3> QED BY <3>1, <3>2
  <2>3. \A d \in Clients : session'[d] = 0 => down[d] = << >>
    BY <1>1, <1>4 DEF ChatTypeOK, GuiOK
  <2> QED BY <1>2, <2>1, <2>2, <2>3 DEF ChatTypeOK, GuiOK
<1> QED BY <1>1, <1>3, <1>5, <1>6 DEF ChatTypeOK

\* Of the sockets of S nothing is left but what they had caused.
LEMMA GoneTypes ==
    ASSUME ChatTypeOK, NEW S \in SUBSET Clients, Gone(S), UNCHANGED <<rows, used>>
    PROVE  UsedOK' /\ SessionsOK' /\ GuiOK'
<1>1. /\ \A c \in S : session'[c] = 0 /\ down'[c] = << >> /\ pane'[c] = << >>
      /\ \A c \in Clients \ S :
            session'[c] = session[c] /\ down'[c] = down[c] /\ pane'[c] = pane[c]
      /\ down' = [c \in Clients |-> down'[c]] /\ pane' = [c \in Clients |-> pane'[c]]
      /\ session' = [c \in Clients |-> session'[c]]
  BY DEF Gone
<1>2. UsedOK' /\ used.sessions \in Nat
  BY DEF ChatTypeOK, UsedOK
<1>3. Lines' = Lines /\ \A T : Envelopes(T)' = Envelopes(T)
  BY TypesStay
<1>4. SessionsOK'
  <2>1. session' \in [Clients -> 0 .. used'.sessions]
    BY <1>1, <1>2 DEF ChatTypeOK, SessionsOK
  <2>2. \A a, b \in Clients : session'[a] = session'[b] /\ session'[a] # 0 => a = b
    BY <1>1 DEF ChatTypeOK, SessionsOK
  <2>3. /\ open' \subseteq listed' /\ listed' = subscribed'
        /\ subscribed' \cup loaded' \subseteq {c \in Clients : session'[c] # 0}
    BY <1>1 DEF ChatTypeOK, SessionsOK, Gone
  <2> QED BY <2>1, <2>2, <2>3 DEF SessionsOK
<1>5. GuiOK'
  <2>1. ASSUME NEW c \in Clients
        PROVE  down'[c] \in Seq(Envelopes({session'[c]})) /\ pane'[c] \in Seq(Lines) /\ Len(pane'[c]) <= Cap
    <3>1. CASE c \in S
      <4>1. down'[c] = << >> /\ pane'[c] = << >>
        BY <1>1, <3>1
      <4>2. 0 <= Cap
        BY ChatAssumption
      <4> QED BY <4>1, <4>2, EmptySeq
    <3>2. CASE c \notin S
      BY <1>1, <3>2 DEF ChatTypeOK, GuiOK
    <3> QED BY <3>1, <3>2
  <2>2. \A c \in Clients : session'[c] = 0 => down'[c] = << >>
    BY <1>1 DEF ChatTypeOK, GuiOK
  <2> QED BY <1>1, <1>3, <2>1, <2>2 DEF GuiOK
<1> QED BY <1>2, <1>4, <1>5

LEMMA CloseTypes ==
    ASSUME ChatTypeOK, NEW c \in Clients, Close(c) PROVE ChatTypeOK'
<1>1. UsedOK' /\ SessionsOK' /\ GuiOK'
  BY GoneTypes DEF Close, dbVars
<1>2. StoreOK'
  <2>1. Ids' = Ids /\ InsertCtxs' = InsertCtxs /\ HistoryCtxs' = HistoryCtxs /\ Deferreds' = Deferreds
    BY TypesStay DEF Close, dbVars
  <2> QED BY <2>1 DEF Close, ChatTypeOK, StoreOK, dbVars, kafkaVars
<1> QED BY <1>1, <1>2 DEF ChatTypeOK

LEMMA RestartTypes == ASSUME ChatTypeOK, Restart PROVE ChatTypeOK'
<1>1. UsedOK' /\ SessionsOK' /\ GuiOK'
  BY GoneTypes DEF Restart
<1>2. StoreOK'
  <2>1. Len(topic) \in Nat
    BY DEF ChatTypeOK, StoreOK
  <2> QED BY <2>1 DEF Restart, ChatTypeOK, StoreOK
<1> QED BY <1>1, <1>2 DEF ChatTypeOK

LEMMA InsertDoneTypes ==
    ASSUME ChatTypeOK, NEW x \in inserts, OnInsertComplete(x) PROVE ChatTypeOK'
<1>1. UNCHANGED <<session, subscribed, down, uuids, rows, selects, kafkaVars, guiVars, used>>
  BY DEF OnInsertComplete
<1>2. /\ Ids' = Ids /\ Lines' = Lines /\ InsertCtxs' = InsertCtxs
      /\ HistoryCtxs' = HistoryCtxs /\ Deferreds' = Deferreds
      /\ \A S : Envelopes(S)' = Envelopes(S)
  BY <1>1, TypesStay
<1>3. deferred' \in Seq(Deferreds) /\ inserts' \subseteq InsertCtxs
  <2>1. x \in InsertCtxs /\ deferred \in Seq(Deferreds) /\ inserts' \subseteq InsertCtxs
    BY DEF ChatTypeOK, StoreOK, OnInsertComplete
  <2>2. CASE UNCHANGED deferred
    BY <2>1, <2>2
  <2>3. CASE /\ x.msg \in rows
             /\ deferred' = Append(deferred, [kind |-> "insert", session |-> x.session, msg |-> x.msg])
    <3>1. [kind |-> "insert", session |-> x.session, msg |-> x.msg] \in Deferreds
      BY <2>1, <2>3 DEF InsertCtxs, Deferreds, InsertDone
    <3> QED BY <2>1, <2>3, <3>1, AppendProperties
  <2> QED BY <2>1, <2>2, <2>3 DEF OnInsertComplete
<1>4. UsedOK' /\ StoreOK'
  BY <1>1, <1>2, <1>3 DEF ChatTypeOK, UsedOK, StoreOK, kafkaVars
<1>5. SessionsOK' /\ GuiOK'
  BY <1>1, <1>2 DEF ChatTypeOK, SessionsOK, GuiOK, guiVars
<1> QED BY <1>4, <1>5 DEF ChatTypeOK

LEMMA SelectTypes ==
    ASSUME ChatTypeOK, NEW x \in selects, Select(x) PROVE ChatTypeOK'
<1>1. UNCHANGED <<session, subscribed, down, uuids, rows, inserts, deferred, kafkaVars, guiVars, used>>
  BY DEF Select
<1>2. /\ Ids' = Ids /\ Lines' = Lines /\ InsertCtxs' = InsertCtxs
      /\ HistoryCtxs' = HistoryCtxs /\ Deferreds' = Deferreds
      /\ \A S : Envelopes(S)' = Envelopes(S)
  BY <1>1, TypesStay
<1>3. selects' \subseteq HistoryCtxs
  <2>1. x \in HistoryCtxs /\ Page \in Seq(rows)
    BY PageIs DEF ChatTypeOK, StoreOK
  <2>2. [x EXCEPT !.read = TRUE, !.page = Page] \in HistoryCtxs
    BY <2>1 DEF HistoryCtxs
  <2> QED BY <2>2 DEF ChatTypeOK, StoreOK, Select
<1>4. UsedOK' /\ StoreOK'
  BY <1>1, <1>2, <1>3 DEF ChatTypeOK, UsedOK, StoreOK, kafkaVars
<1>5. SessionsOK' /\ GuiOK'
  BY <1>1, <1>2 DEF ChatTypeOK, SessionsOK, GuiOK, guiVars
<1> QED BY <1>4, <1>5 DEF ChatTypeOK

LEMMA HistoryDoneTypes ==
    ASSUME ChatTypeOK, NEW x \in selects, OnHistoryComplete(x) PROVE ChatTypeOK'
<1>1. UNCHANGED <<session, subscribed, down, uuids, rows, inserts, kafkaVars, guiVars, used>>
  BY DEF OnHistoryComplete
<1>2. /\ Ids' = Ids /\ Lines' = Lines /\ InsertCtxs' = InsertCtxs
      /\ HistoryCtxs' = HistoryCtxs /\ Deferreds' = Deferreds
      /\ \A S : Envelopes(S)' = Envelopes(S)
  BY <1>1, TypesStay
<1>3. deferred' \in Seq(Deferreds) /\ selects' \subseteq HistoryCtxs
  <2>1. x \in HistoryCtxs /\ deferred \in Seq(Deferreds) /\ selects' \subseteq HistoryCtxs
    BY DEF ChatTypeOK, StoreOK, OnHistoryComplete
  <2>2. /\ [kind |-> "history", session |-> x.session, page |-> x.page] \in Deferreds
        /\ [kind |-> "error", session |-> x.session] \in Deferreds
    BY <2>1 DEF HistoryCtxs, Deferreds, Histories, Errors
  <2>3. \E e \in Deferreds : deferred' = Append(deferred, e)
    BY <2>2 DEF OnHistoryComplete
  <2> QED BY <2>1, <2>3, AppendProperties
<1>4. UsedOK' /\ StoreOK'
  BY <1>1, <1>2, <1>3 DEF ChatTypeOK, UsedOK, StoreOK, kafkaVars
<1>5. SessionsOK' /\ GuiOK'
  BY <1>1, <1>2 DEF ChatTypeOK, SessionsOK, GuiOK, guiVars
<1> QED BY <1>4, <1>5 DEF ChatTypeOK

\* What the loop has queued first.
LEMMA DeferredIs ==
    ASSUME StoreOK, deferred # << >>
    PROVE  /\ Head(deferred) \in Deferreds /\ Head(deferred) = deferred[1]
           /\ 1 \in DOMAIN deferred
           /\ Tail(deferred) \in Seq(Deferreds) /\ Len(Tail(deferred)) = Len(deferred) - 1
           /\ \A i \in DOMAIN Tail(deferred) :
                 i + 1 \in DOMAIN deferred /\ Tail(deferred)[i] = deferred[i + 1]
<1>1. deferred \in Seq(Deferreds)
  BY DEF StoreOK
<1>2. Len(deferred) \in Nat \ {0}
  BY <1>1, EmptySeq
<1>3. /\ Head(deferred) \in Deferreds /\ Tail(deferred) \in Seq(Deferreds)
      /\ Len(Tail(deferred)) = Len(deferred) - 1
      /\ \A i \in 1 .. Len(Tail(deferred)) : Tail(deferred)[i] = deferred[i + 1]
  BY <1>1, HeadTailProperties
<1>4. DOMAIN deferred = 1 .. Len(deferred) /\ DOMAIN Tail(deferred) = 1 .. Len(Tail(deferred))
  BY <1>1, <1>3
<1>5. Head(deferred) = deferred[1]
  BY <1>1, <1>2
<1> QED BY <1>2, <1>3, <1>4, <1>5

LEMMA RunTypes == ASSUME ChatTypeOK, RunDeferred PROVE ChatTypeOK'
<1> DEFINE k == Head(deferred)
<1>1. UNCHANGED <<session, subscribed, dbVars, offset, guiVars, used>>
  BY DEF RunDeferred
<1>2. /\ Ids' = Ids /\ Lines' = Lines /\ InsertCtxs' = InsertCtxs
      /\ HistoryCtxs' = HistoryCtxs /\ Deferreds' = Deferreds
      /\ \A S : Envelopes(S)' = Envelopes(S)
  BY <1>1, TypesStay DEF dbVars
<1>3. k \in Deferreds /\ deferred' \in Seq(Deferreds)
  BY DeferredIs DEF RunDeferred, ChatTypeOK
<1>4. /\ topic' \in Seq(rows) /\ Len(topic') \in Nat /\ Len(topic) <= Len(topic')
      /\ down' = [c \in Clients |-> down'[c]]
      /\ \A c \in Clients : down'[c] \in Seq(Envelopes({session[c]}))
      /\ \A c \in Clients : session[c] = 0 => down'[c] = down[c]
  <2>1. topic \in Seq(rows) /\ Len(topic) \in Nat /\ k.session \in Ids /\ GuiOK
    BY <1>3 DEF ChatTypeOK, StoreOK, Deferreds, InsertDone, Histories, Errors
  <2>2. CASE /\ k.kind = "insert"
             /\ SendTo({c \in Lookup(k.session) : Heeds(c, k.msg)}, [kind |-> "event", msg |-> k.msg])
             /\ Produce(k.msg)
    <3> DEFINE S == {c \in Lookup(k.session) : Heeds(c, k.msg)}
               e == [kind |-> "event", msg |-> k.msg]
    <3>1. k.msg \in rows
      BY <1>3, <2>2 DEF Deferreds, InsertDone, Histories, Errors
    <3>2. topic' \in Seq(rows) /\ Len(topic') \in Nat /\ Len(topic) <= Len(topic')
      BY <2>1, <2>2, <3>1, AppendProperties DEF Produce
    <3>3. \A T : e \in Envelopes(T)
      BY <3>1 DEF Envelopes, Events
    <3>4. \A c \in S : session[c] # 0
      BY <2>1 DEF Lookup, Ids
    <3>5. SendTo(S, e)
      BY <2>2
    <3> HIDE DEF S, e
    <3> QED BY <2>1, <3>2, <3>3, <3>4, <3>5, SendToIs
  <2>3. CASE k.kind \in {"history", "error"} /\ SendTo(Lookup(k.session), k) /\ UNCHANGED topic
    <3> DEFINE S == Lookup(k.session)
    <3>1. \A c \in S : session[c] # 0 /\ k \in Envelopes({session[c]})
      BY <1>3, <2>1, <2>3 DEF Lookup, Ids, Deferreds, InsertDone, Histories, Errors, Envelopes
    <3>2. SendTo(S, k) /\ topic' = topic
      BY <2>3
    <3> HIDE DEF S, k
    <3>3. /\ down' = [c \in Clients |-> down'[c]]
          /\ \A c \in Clients : down'[c] \in Seq(Envelopes({session[c]}))
          /\ \A c \in Clients : c \notin S => down'[c] = down[c]
      BY <2>1, <3>1, <3>2, SendToIs
    <3>4. topic' \in Seq(rows) /\ Len(topic') \in Nat /\ Len(topic) <= Len(topic')
      BY <2>1, <3>2
    <3>5. \A c \in Clients : session[c] = 0 => down'[c] = down[c]
      BY <3>1, <3>3
    <3> QED BY <3>3, <3>4, <3>5
  <2> QED BY <2>2, <2>3 DEF RunDeferred
<1>5. UsedOK' /\ StoreOK'
  BY <1>1, <1>2, <1>3, <1>4 DEF ChatTypeOK, UsedOK, StoreOK, dbVars
<1>6. SessionsOK'
  BY <1>1 DEF ChatTypeOK, SessionsOK, guiVars
<1>7. GuiOK'
  BY <1>1, <1>2, <1>4 DEF ChatTypeOK, GuiOK, guiVars
<1> QED BY <1>5, <1>6, <1>7 DEF ChatTypeOK

LEMMA PublishTypes == ASSUME ChatTypeOK, Publish PROVE ChatTypeOK'
<1> DEFINE m == topic[offset + 1]
           e == [kind |-> "event", msg |-> m]
           S == {c \in subscribed : Heeds(c, m)}
<1>1. UNCHANGED <<session, subscribed, dbVars, deferred, topic, guiVars, used>>
  BY DEF Publish
<1>2. /\ Ids' = Ids /\ Lines' = Lines /\ InsertCtxs' = InsertCtxs
      /\ HistoryCtxs' = HistoryCtxs /\ Deferreds' = Deferreds
      /\ \A T : Envelopes(T)' = Envelopes(T)
  BY <1>1, TypesStay DEF dbVars
<1>3. offset' \in 0 .. Len(topic) /\ m \in rows
  <2>1. topic \in Seq(rows) /\ offset \in 0 .. Len(topic) /\ Len(topic) \in Nat /\ offset < Len(topic)
    BY DEF ChatTypeOK, StoreOK, Publish
  <2>2. offset + 1 \in 1 .. Len(topic)
    BY <2>1
  <2> QED BY <2>1, <2>2, ElementOfSeq DEF Publish
<1>4. SendTo(S, e) /\ \A c \in S : session[c] # 0 /\ e \in Envelopes({session[c]})
  BY <1>3 DEF Publish, ChatTypeOK, SessionsOK, Envelopes, Events
<1> HIDE DEF S, e
<1>5. /\ down' = [c \in Clients |-> down'[c]]
      /\ \A c \in Clients : down'[c] \in Seq(Envelopes({session[c]}))
      /\ \A c \in Clients : session[c] = 0 => down'[c] = down[c]
  BY <1>4, SendToIs DEF ChatTypeOK
<1>6. UsedOK' /\ StoreOK'
  BY <1>1, <1>2, <1>3 DEF ChatTypeOK, UsedOK, StoreOK, dbVars
<1>7. SessionsOK' /\ GuiOK'
  BY <1>1, <1>2, <1>5 DEF ChatTypeOK, SessionsOK, GuiOK, guiVars
<1> QED BY <1>6, <1>7 DEF ChatTypeOK

LEMMA TypesNext == ASSUME ChatTypeOK, [Next]_vars PROVE ChatTypeOK'
<1>1. CASE UNCHANGED vars
  <2>1. /\ Ids' = Ids /\ Lines' = Lines /\ InsertCtxs' = InsertCtxs
        /\ HistoryCtxs' = HistoryCtxs /\ Deferreds' = Deferreds
        /\ \A S : Envelopes(S)' = Envelopes(S)
    BY <1>1, TypesStay DEF vars, dbVars
  <2>2. UsedOK' /\ StoreOK'
    BY <1>1, <2>1 DEF vars, dbVars, kafkaVars, ChatTypeOK, UsedOK, StoreOK
  <2>3. SessionsOK' /\ GuiOK'
    BY <1>1, <2>1 DEF vars, guiVars, ChatTypeOK, SessionsOK, GuiOK
  <2> QED BY <2>2, <2>3 DEF ChatTypeOK
<1>2. CASE Next
  BY <1>2, SendChatTypes, OpenTypes, ReadTypes, HelloTypes, CloseTypes, RowTypes,
     InsertDoneTypes, SelectTypes, HistoryDoneTypes, RunTypes, PublishTypes, RestartTypes
  DEF Next
<1> QED BY <1>1, <1>2

THEOREM ChatTypes == Spec => []ChatTypeOK
<1>1. Init => ChatTypeOK
  BY ChatStarts DEF ChatInv
<1>2. ChatTypeOK /\ [Next]_vars => ChatTypeOK'
  BY TypesNext
<1> QED BY <1>1, <1>2, PTL DEF Spec

\* "Don't fan out a message we didn't persist", whatever becomes of an INSERT
\* and its continuation, and however often gateway and clients start again.
THEOREM OnlyStoredShownAlways == Spec => []OnlyStoredShown
<1>1. ChatTypeOK => OnlyStoredShown
  <2> SUFFICES ASSUME ChatTypeOK, NEW c \in Clients
               PROVE  /\ \A i \in DOMAIN pane[c] : pane[c][i].via # "echo" => pane[c][i].msg \in rows
                      /\ \A i \in DOMAIN down[c] : down[c][i].kind = "event" => down[c][i].msg \in rows
    BY DEF OnlyStoredShown
  <2>1. \A i \in DOMAIN pane[c] : pane[c][i] \in Lines
    BY DEF ChatTypeOK, GuiOK
  <2>2. \A i \in DOMAIN down[c] : down[c][i] \in Envelopes({session[c]})
    BY DEF ChatTypeOK, GuiOK
  <2> QED BY <2>1, <2>2 DEF Lines, Envelopes, Events, Histories, Errors
<1> QED BY <1>1, ChatTypes, PTL

\* An answer to a history request reaches the session that asked or nobody: a
\* client that connects again never gets what it asked for before.
THEOREM AnswersOwnSessionAlways == Spec => []AnswersOwnSession
<1>1. ChatTypeOK => AnswersOwnSession
  <2> SUFFICES ASSUME ChatTypeOK, NEW c \in Clients, NEW i \in DOMAIN down[c],
                      down[c][i].kind \in {"history", "error"}
               PROVE  down[c][i].session = session[c]
    BY DEF AnswersOwnSession
  <2>1. down[c][i] \in Envelopes({session[c]})
    BY DEF ChatTypeOK, GuiOK
  <2> QED BY <2>1 DEF Envelopes, Events, Histories, Errors
<1> QED BY <1>1, ChatTypes, PTL

-----------------------------------------------------------------------------
(* Own messages *)

\* A session that was open before is whose it was: new ones have new ids.
LEMMA SessionsOld ==
    ASSUME ChatTypeOK, [Next]_vars
    PROVE  /\ \A c \in Clients, s \in Ids : session'[c] = s => session[c] = s
           /\ Ids \subseteq Ids'
<1>1. used.sessions \in Nat /\ session \in [Clients -> 0 .. used.sessions]
  BY DEF ChatTypeOK, UsedOK, SessionsOK
<1>2. CASE UNCHANGED session /\ used'.sessions = used.sessions
  BY <1>2 DEF Ids
<1>3. ASSUME NEW c \in Clients, Hello(c)
      PROVE  /\ \A d \in Clients, s \in Ids : session'[d] = s => session[d] = s
             /\ used'.sessions = used.sessions + 1
  BY <1>1, <1>3 DEF Hello, Ids, ChatTypeOK, UsedOK
<1>4. ASSUME NEW S, Gone(S), UNCHANGED used
      PROVE  \A d \in Clients, s \in Ids : session'[d] = s => session[d] = s
  BY <1>4 DEF Gone, Ids
<1>5. ASSUME NEW c \in Clients, SendChat(c) \/ OpenChannel(c) \/ Read(c)
      PROVE  UNCHANGED session /\ used'.sessions = used.sessions
  BY <1>5 DEF SendChat, OpenChannel, Read, ChatTypeOK, UsedOK
<1>6. ASSUME NEW x, Store(x) \/ OnInsertComplete(x) \/ Select(x) \/ OnHistoryComplete(x)
      PROVE  UNCHANGED session /\ used'.sessions = used.sessions
  BY <1>6 DEF Store, OnInsertComplete, Select, OnHistoryComplete
<1>7. RunDeferred \/ Publish \/ UNCHANGED vars => UNCHANGED session /\ used'.sessions = used.sessions
  BY DEF RunDeferred, Publish, vars
<1>8. CASE \E c \in Clients : Hello(c)
  BY <1>1, <1>3, <1>8 DEF Ids
<1>9. CASE (\E c \in Clients : Close(c)) \/ Restart
  BY <1>4, <1>9 DEF Close, Restart, Ids
<1> QED BY <1>2, <1>5, <1>6, <1>7, <1>8, <1>9 DEF Next

\* What is in flight for an INSERT came from there.
LEMMA OwnNext == ASSUME ChatTypeOK, OwnInv, [Next]_vars PROVE OwnInv'
<1> DEFINE Own(s, m) == \A c \in Clients : session[c] = s => c = m[1]
           Asked(s, m) == s \in Ids /\ Own(s, m)
<1>1. \A s, m : Asked(s, m) => \A c \in Clients : session'[c] = s => c = m[1]
  BY SessionsOld
<1>2. /\ \A x \in inserts : Asked(x.session, x.msg)
      /\ \A i \in DOMAIN deferred : deferred[i].kind = "insert" => Asked(deferred[i].session, deferred[i].msg)
  <2>1. \A x \in inserts : x.session \in Ids
    BY DEF ChatTypeOK, StoreOK, InsertCtxs
  <2>2. \A i \in DOMAIN deferred : deferred[i].session \in Ids
    <3>1. \A i \in DOMAIN deferred : deferred[i] \in Deferreds
      BY DEF ChatTypeOK, StoreOK
    <3> QED BY <3>1 DEF Deferreds, InsertDone, Histories, Errors
  <2> QED BY <2>1, <2>2 DEF OwnInv
<1> HIDE DEF Asked
<1>3. \A x \in inserts' : Asked(x.session, x.msg)
  <2>1. CASE inserts' \subseteq inserts
    BY <1>2, <2>1
  <2>2. ASSUME NEW c \in Clients, SendChat(c) PROVE \A x \in inserts' : Asked(x.session, x.msg)
    <3> DEFINE m == <<c, used.sent[c] + 1>>
    <3>1. inserts' = inserts \cup {[session |-> session[c], msg |-> m]}
      BY <2>2 DEF SendChat, OnSendMessage
    <3>2. Asked(session[c], m)
      BY <2>2 DEF SendChat, ChatTypeOK, SessionsOK, UsedOK, Asked, Ids
    <3> HIDE DEF m
    <3> QED BY <1>2, <3>1, <3>2
  <2>3. [Next]_vars => inserts' \subseteq inserts \/ \E c \in Clients : SendChat(c)
    BY DEF Next, vars, dbVars, OpenChannel, Read, Hello, Close, Store, OnInsertComplete, Select,
           OnHistoryComplete, RunDeferred, Publish, Restart
  <2> QED BY <2>1, <2>2, <2>3
<1>4. \A i \in DOMAIN deferred' : deferred'[i].kind = "insert" => Asked(deferred'[i].session, deferred'[i].msg)
  <2> DEFINE Good(q) == \A i \in DOMAIN q : q[i].kind = "insert" => Asked(q[i].session, q[i].msg)
  <2>1. ASSUME NEW e \in Deferreds, e.kind = "insert" => Asked(e.session, e.msg), deferred' = Append(deferred, e)
        PROVE  Good(deferred')
    <3>1. deferred \in Seq(Deferreds) /\ DOMAIN deferred = 1 .. Len(deferred) /\ Len(deferred) \in Nat
      BY DEF ChatTypeOK, StoreOK
    <3>2. /\ deferred' \in Seq(Deferreds) /\ Len(deferred') = Len(deferred) + 1
          /\ \A i \in 1 .. Len(deferred) : deferred'[i] = deferred[i]
          /\ deferred'[Len(deferred) + 1] = e
      BY <2>1, <3>1, AppendProperties
    <3>3. DOMAIN deferred' = 1 .. Len(deferred) + 1
      BY <3>2
    <3>4. ASSUME NEW i \in DOMAIN deferred', deferred'[i].kind = "insert"
          PROVE  Asked(deferred'[i].session, deferred'[i].msg)
      <4>1. CASE i = Len(deferred) + 1
        BY <2>1, <3>2, <3>4, <4>1
      <4>2. CASE i \in DOMAIN deferred
        BY <1>2, <3>1, <3>2, <3>4, <4>2
      <4> QED BY <3>1, <3>3, <4>1, <4>2
    <3> QED BY <3>4
  <2>2. ASSUME UNCHANGED deferred \/ deferred' = << >> PROVE Good(deferred')
    BY <1>2, <2>2
  <2>3. ASSUME deferred # << >>, deferred' = Tail(deferred) PROVE Good(deferred')
    BY <1>2, <2>3, DeferredIs DEF ChatTypeOK
  <2>4. ASSUME NEW x \in inserts, OnInsertComplete(x) PROVE Good(deferred')
    <3> DEFINE e == [kind |-> "insert", session |-> x.session, msg |-> x.msg]
    <3>1. CASE UNCHANGED deferred
      BY <2>2, <3>1
    <3>2. CASE x.msg \in rows /\ deferred' = Append(deferred, e)
      <4>1. e \in Deferreds /\ Asked(e.session, e.msg)
        BY <1>2, <3>2 DEF ChatTypeOK, StoreOK, InsertCtxs, Deferreds, InsertDone
      <4> HIDE DEF e
      <4> QED BY <2>1, <3>2, <4>1
    <3> QED BY <2>4, <3>1, <3>2 DEF OnInsertComplete
  <2>5. ASSUME NEW x \in selects, OnHistoryComplete(x) PROVE Good(deferred')
    <3>1. \E e \in Deferreds : e.kind # "insert" /\ deferred' = Append(deferred, e)
      BY <2>5 DEF OnHistoryComplete, ChatTypeOK, StoreOK, HistoryCtxs, Deferreds, Histories, Errors
    <3> QED BY <2>1, <3>1
  <2> HIDE DEF Good
  <2>6. \/ UNCHANGED deferred
        \/ deferred' = << >>
        \/ deferred # << >> /\ deferred' = Tail(deferred)
        \/ \E x \in inserts : OnInsertComplete(x)
        \/ \E x \in selects : OnHistoryComplete(x)
    <3>1. ASSUME NEW c \in Clients, SendChat(c) \/ OpenChannel(c) \/ Read(c) \/ Hello(c) \/ Close(c)
          PROVE  UNCHANGED deferred
      BY <3>1 DEF SendChat, OpenChannel, Read, Hello, Close
    <3>2. ASSUME NEW x, Store(x) \/ Select(x) PROVE UNCHANGED deferred
      BY <3>2 DEF Store, Select
    <3>3. UNCHANGED vars \/ Publish => UNCHANGED deferred
      BY DEF vars, Publish
    <3>4. RunDeferred => deferred # << >> /\ deferred' = Tail(deferred)
      BY DEF RunDeferred
    <3>5. Restart => deferred' = << >>
      BY DEF Restart
    <3> QED BY <3>1, <3>2, <3>3, <3>4, <3>5 DEF Next
  <2>7. Good(deferred')
    BY <2>2, <2>3, <2>4, <2>5, <2>6
  <2> QED BY <2>7 DEF Good
<1> QED BY <1>1, <1>3, <1>4 DEF OwnInv

-----------------------------------------------------------------------------
(* What a step does to one client *)

Prepended(p, page, q) ==
    \E k \in 0 .. Len(page) :
        /\ Len(q) = k + Len(p) /\ (k < Len(page) => Len(q) = Cap)
        /\ \A i \in 1 .. k : q[i].via = "history" /\ q[i].msg = page[Len(page) - k + i]
        /\ \A i \in 1 .. Len(p) : q[k + i] = p[i]

Stays(c) == pane'[c] = pane[c] /\ down'[c] = down[c]
Ends(c) == pane'[c] = << >> /\ down'[c] = << >> /\ c \notin subscribed' \cup loaded'
Echoes(c) ==
    /\ down'[c] = down[c]
    /\ \E x \in Lines : x.via = "echo" /\ pane'[c] = PushChat(pane[c], x)
Shows(c) ==
    /\ down[c] # << >> /\ down'[c] = Tail(down[c])
    /\ LET e == Head(down[c]) IN
           \/ /\ e.kind = "event" /\ e.msg \in rows
              /\ pane'[c] = PushChat(pane[c], [msg |-> e.msg, via |-> "live"])
           \/ e.kind = "history" /\ Prepended(pane[c], e.page, pane'[c])
           \/ e.kind = "error" /\ pane'[c] = pane[c]
    /\ offset' = offset
Gets(c) ==
    /\ pane'[c] = pane[c]
    /\ \E e \in Envelopes({session[c]}) :
          /\ down'[c] = Append(down[c], e)
          /\ e.kind = "event" =>
                /\ offset < Len(topic) /\ e.msg = topic[offset + 1]
                /\ offset' = offset + 1 /\ topic' = topic
          /\ e.kind # "event" => 1 \in DOMAIN deferred /\ e = deferred[1]

LEMMA StepAt ==
    ASSUME ChatTypeOK, OwnInv, [Next]_vars, NEW c \in Clients
    PROVE  Stays(c) \/ Ends(c) \/ Echoes(c) \/ Shows(c) \/ Gets(c)
<1>1. GuiOK /\ StoreOK /\ down = [d \in Clients |-> down[d]] /\ pane \in [Clients -> Seq(Lines)]
  BY DEF ChatTypeOK, GuiOK
<1>2. ASSUME NEW d \in Clients, SendChat(d) PROVE Stays(c) \/ Echoes(c)
  <2> DEFINE m == <<d, used.sent[d] + 1>>
             line == [msg |-> m, via |-> "echo"]
  <2>1. line \in Lines
    BY DEF ChatTypeOK, UsedOK, Lines, Msgs
  <2>2. line.via = "echo"
    OBVIOUS
  <2>3. pane' = [pane EXCEPT ![d] = PushChat(@, line)] /\ down' = down
    BY <1>2 DEF SendChat
  <2> HIDE DEF line
  <2>4. CASE d = c
    BY <1>1, <2>1, <2>2, <2>3, <2>4 DEF Echoes
  <2>5. CASE d # c
    BY <1>1, <2>3, <2>5 DEF Stays
  <2> QED BY <2>4, <2>5
<1>3. ASSUME NEW d \in Clients, OpenChannel(d) \/ Hello(d) PROVE Stays(c)
  BY <1>3 DEF OpenChannel, Hello, Stays
<1>4. ASSUME NEW d \in Clients, Read(d) PROVE Stays(c) \/ Shows(c)
  <2> DEFINE e == Head(down[d])
  <2>1. down[d] # << >> /\ down' = [down EXCEPT ![d] = Tail(@)] /\ offset' = offset
    BY <1>4 DEF Read, kafkaVars
  <2>2. e \in Envelopes({session[d]})
    BY <1>1, <2>1, HeadIs
  <2>3. down'[d] = Tail(down[d]) /\ (c # d => down'[c] = down[c])
    BY <1>1, <2>1
  <2>4. CASE e.kind = "event" /\ ReadEvent(d, e.msg)
    <3>1. pane'[d] = PushChat(pane[d], [msg |-> e.msg, via |-> "live"]) /\ (c # d => pane'[c] = pane[c])
      BY <1>1, <2>4 DEF ReadEvent
    <3>2. e.msg \in rows
      BY <2>2, <2>4 DEF Envelopes, Events, Histories, Errors
    <3> QED BY <2>1, <2>3, <2>4, <3>1, <3>2 DEF Stays, Shows
  <2>5. CASE e.kind = "history" /\ ReadHistory(d, e.page)
    <3>1. e.page \in Seq(rows)
      BY <2>2, <2>5 DEF Envelopes, Events, Histories, Errors
    <3>2. Prepended(pane[d], e.page, pane'[d]) /\ (c # d => pane'[c] = pane[c])
      <4> HIDE DEF e
      <4> QED BY <1>1, <2>5, <3>1, HistoryIs DEF Prepended
    <3> QED BY <2>1, <2>3, <2>5, <3>2 DEF Stays, Shows
  <2>6. CASE e.kind = "error" /\ UNCHANGED <<pane, loaded>>
    BY <2>1, <2>3, <2>6 DEF Stays, Shows
  <2> QED BY <1>4, <2>4, <2>5, <2>6 DEF Read
<1>5. ASSUME NEW S, Gone(S) PROVE Stays(c) \/ Ends(c)
  BY <1>5 DEF Gone, Stays, Ends
<1>6. ASSUME NEW x, Store(x) \/ OnInsertComplete(x) \/ Select(x) \/ OnHistoryComplete(x) PROVE Stays(c)
  BY <1>6 DEF Store, OnInsertComplete, Select, OnHistoryComplete, guiVars, Stays
<1>7. CASE RunDeferred
  <2> DEFINE k == Head(deferred)
  <2>1. k \in Deferreds /\ k = deferred[1] /\ 1 \in DOMAIN deferred /\ pane' = pane
    BY <1>1, <1>7, DeferredIs DEF RunDeferred, guiVars
  <2>2. CASE k.kind = "insert" /\ SendTo({d \in Lookup(k.session) : Heeds(d, k.msg)}, [kind |-> "event", msg |-> k.msg])
    <3>1. ~(session[c] = k.session /\ Heeds(c, k.msg))
      BY <2>1, <2>2 DEF OwnInv, Heeds, Sender
    <3>2. down'[c] = down[c]
      BY <2>2, <3>1 DEF SendTo, Lookup
    <3> QED BY <2>1, <3>2 DEF Stays
  <2>3. CASE k.kind \in {"history", "error"} /\ SendTo(Lookup(k.session), k)
    <3>1. CASE session[c] = k.session
      <4>1. k \in Envelopes({session[c]})
        BY <2>1, <2>3, <3>1 DEF Deferreds, InsertDone, Histories, Errors, Envelopes
      <4>2. down'[c] = Append(down[c], k)
        BY <2>3, <3>1 DEF SendTo, Lookup
      <4> QED BY <2>1, <2>3, <4>1, <4>2 DEF Gets
    <3>2. CASE session[c] # k.session
      BY <2>1, <2>3, <3>2 DEF SendTo, Lookup, Stays
    <3> QED BY <3>1, <3>2
  <2> QED BY <1>7, <2>2, <2>3 DEF RunDeferred
<1>8. CASE Publish
  <2> DEFINE m == topic[offset + 1]
             e == [kind |-> "event", msg |-> m]
             S == {d \in subscribed : Heeds(d, m)}
  <2>1. /\ pane' = pane /\ topic' = topic /\ offset' = offset + 1 /\ offset < Len(topic)
        /\ SendTo(S, e)
    BY <1>8 DEF Publish, guiVars
  <2>2. e \in Envelopes({session[c]})
    <3>1. offset + 1 \in 1 .. Len(topic) /\ topic \in Seq(rows)
      BY <1>1, <2>1 DEF StoreOK
    <3>2. m \in rows
      BY <3>1, ElementOfSeq
    <3> QED BY <3>2 DEF Envelopes, Events
  <2>3. e.kind = "event" /\ e.msg = m
    OBVIOUS
  <2> HIDE DEF e, S
  <2>4. CASE c \in S
    <3>1. down'[c] = Append(down[c], e)
      BY <2>1, <2>4 DEF SendTo
    <3> QED BY <2>1, <2>2, <2>3, <3>1 DEF Gets
  <2>5. CASE c \notin S
    BY <2>1, <2>5 DEF SendTo, Stays
  <2> QED BY <2>4, <2>5
<1>9. UNCHANGED vars => Stays(c)
  BY DEF vars, guiVars, Stays
<1> QED BY <1>2, <1>3, <1>4, <1>5, <1>6, <1>7, <1>8, <1>9 DEF Next, Close, Restart

-----------------------------------------------------------------------------
(* Order *)

\* What is live in p2 is the like of p, moved or less at the front.
LiveFrom(p, p2) ==
    /\ DOMAIN p2 \subseteq Nat
    /\ \E a \in Int : \A i \in DOMAIN p2 :
          IsLive(p2, i) => i + a \in DOMAIN p /\ p2[i] = p[i + a]
EventsFrom(q, q2) ==
    /\ DOMAIN q2 \subseteq Nat
    /\ \E b \in Int : \A i \in DOMAIN q2 :
          IsEvent(q2, i) => i + b \in DOMAIN q /\ q2[i] = q[i + b]

LEMMA OrderShift ==
    ASSUME NEW p, NEW q, NEW p2, NEW q2, NEW t, NEW o, InOrder(p, q, t, o),
           LiveFrom(p, p2), EventsFrom(q, q2)
    PROVE  InOrder(p2, q2, t, o)
<1>a. PICK a \in Int : \A i \in DOMAIN p2 :
         IsLive(p2, i) => i + a \in DOMAIN p /\ p2[i] = p[i + a]
  BY DEF LiveFrom
<1>b. PICK b \in Int : \A i \in DOMAIN q2 :
         IsEvent(q2, i) => i + b \in DOMAIN q /\ q2[i] = q[i + b]
  BY DEF EventsFrom
<1>1. \A i \in DOMAIN p2 : IsLive(p2, i) => IsLive(p, i + a)
  BY <1>a DEF IsLive
<1>2. \A i \in DOMAIN q2 : IsEvent(q2, i) => IsEvent(q, i + b)
  BY <1>b DEF IsEvent
<1>3. /\ \A i, j \in DOMAIN p2 : i < j => i + a < j + a
      /\ \A i, j \in DOMAIN q2 : i < j => i + b < j + b
  BY <1>a, <1>b DEF LiveFrom, EventsFrom
<1>4. \A i, j \in DOMAIN p2 :
         i < j /\ IsLive(p2, i) /\ IsLive(p2, j) => InTopic(t, p2[i].msg, p2[j].msg)
  BY <1>a, <1>1, <1>3 DEF InOrder
<1>5. \A i, j \in DOMAIN q2 :
         i < j /\ IsEvent(q2, i) /\ IsEvent(q2, j) => InTopic(t, q2[i].msg, q2[j].msg)
  BY <1>b, <1>2, <1>3 DEF InOrder
<1>6. \A i \in DOMAIN p2, j \in DOMAIN q2 :
         IsLive(p2, i) /\ IsEvent(q2, j) => InTopic(t, p2[i].msg, q2[j].msg)
  BY <1>a, <1>b, <1>1, <1>2 DEF InOrder
<1>7. /\ \A i \in DOMAIN p2 : IsLive(p2, i) => Taken(t, o, p2[i].msg)
      /\ \A i \in DOMAIN q2 : IsEvent(q2, i) => Taken(t, o, q2[i].msg)
  BY <1>a, <1>b, <1>1, <1>2 DEF InOrder
<1> QED BY <1>4, <1>5, <1>6, <1>7 DEF InOrder

\* The topic only grows at its end.
LEMMA OrderGrows ==
    ASSUME NEW p, NEW q, NEW t, NEW u, NEW n \in Nat, NEW o \in Nat, n <= o,
           DOMAIN t \subseteq DOMAIN u, 1 .. n \subseteq DOMAIN t,
           \A k \in DOMAIN t : u[k] = t[k], InOrder(p, q, t, n)
    PROVE  InOrder(p, q, u, o)
<1>1. \A m : Taken(t, n, m) => Taken(u, o, m)
  <2> SUFFICES ASSUME NEW m, NEW k \in 1 .. n, t[k] = m PROVE Taken(u, o, m)
    BY DEF Taken
  <2>1. k \in 1 .. o /\ u[k] = m
    OBVIOUS
  <2> QED BY <2>1 DEF Taken
<1>2. \A x, y : InTopic(t, x, y) => InTopic(u, x, y)
  BY DEF InTopic
<1> QED BY <1>1, <1>2 DEF InOrder

\* The first event on its way becomes the last line of the pane.
LEMMA OrderShown ==
    ASSUME NEW S, NEW p \in Seq(S), NEW R, NEW q \in Seq(R), NEW t, NEW o, InOrder(p, q, t, o),
           q # << >>, Head(q).kind = "event", Len(p) <= Cap,
           [msg |-> Head(q).msg, via |-> "live"] \in S
    PROVE  InOrder(PushChat(p, [msg |-> Head(q).msg, via |-> "live"]), Tail(q), t, o)
<1> DEFINE x == [msg |-> Head(q).msg, via |-> "live"]
           p2 == PushChat(p, x)
           q2 == Tail(q)
<1>1. /\ Len(q) \in Nat \ {0} /\ DOMAIN q = 1 .. Len(q) /\ Head(q) = q[1]
      /\ DOMAIN q2 = 1 .. Len(q) - 1 /\ \A i \in DOMAIN q2 : q2[i] = q[i + 1]
  BY EmptySeq, HeadTailProperties
<1>2. p2 \in Seq(S) /\ Len(p2) \in 1 .. Cap /\ p2[Len(p2)] = x
  BY PushChatIs
<1> HIDE DEF x
<1>3. PICK d \in {0, 1} : Len(p) = Len(p2) - 1 + d /\ \A i \in 1 .. Len(p2) - 1 : p2[i] = p[i + d]
  <2>1. Pushed(p, p2)
    BY PushChatIs DEF x
  <2> QED BY <2>1 DEF Pushed
<1>4. DOMAIN p = 1 .. Len(p) /\ DOMAIN p2 = 1 .. Len(p2) /\ Len(p2) \in Nat \ {0}
  BY <1>2
<1>5. x.msg = q[1].msg /\ IsEvent(q, 1) /\ 1 \in DOMAIN q
  BY <1>1 DEF IsEvent, x
<1> HIDE DEF p2, q2
<1>6. \A i \in 1 .. Len(p2) - 1 : i + d \in DOMAIN p /\ (IsLive(p2, i) => IsLive(p, i + d))
  BY <1>3, <1>4 DEF IsLive
<1>7. \A i \in DOMAIN q2 : i + 1 \in DOMAIN q /\ (IsEvent(q2, i) => IsEvent(q, i + 1))
  BY <1>1 DEF IsEvent
<1>8. \A i \in DOMAIN p2 : i = Len(p2) \/ i \in 1 .. Len(p2) - 1
  BY <1>4
<1>9. \A i \in DOMAIN p2 : IsLive(p2, i) => Taken(t, o, p2[i].msg)
  BY <1>2, <1>3, <1>5, <1>6, <1>8 DEF InOrder
<1>10. \A i \in DOMAIN q2 : IsEvent(q2, i) => Taken(t, o, q2[i].msg)
  BY <1>1, <1>7 DEF InOrder
<1>11. ASSUME NEW i \in DOMAIN p2, NEW j \in DOMAIN p2, i < j, IsLive(p2, i), IsLive(p2, j)
       PROVE  InTopic(t, p2[i].msg, p2[j].msg)
  <2>1. i \in 1 .. Len(p2) - 1 /\ i + d < j + d
    BY <1>3, <1>4, <1>11
  <2>2. i + d \in DOMAIN p /\ IsLive(p, i + d) /\ p2[i] = p[i + d]
    BY <1>3, <1>6, <1>11, <2>1
  <2>3. CASE j = Len(p2)
    BY <1>2, <1>5, <2>2, <2>3 DEF InOrder
  <2>4. CASE j \in 1 .. Len(p2) - 1
    <3>1. j + d \in DOMAIN p /\ IsLive(p, j + d) /\ p2[j] = p[j + d]
      BY <1>3, <1>6, <1>11, <2>4
    <3> QED BY <2>1, <2>2, <3>1 DEF InOrder
  <2> QED BY <1>8, <2>3, <2>4
<1>12. ASSUME NEW i \in DOMAIN q2, NEW j \in DOMAIN q2, i < j, IsEvent(q2, i), IsEvent(q2, j)
       PROVE  InTopic(t, q2[i].msg, q2[j].msg)
  <2>1. i + 1 < j + 1
    BY <1>1, <1>12
  <2> QED BY <1>1, <1>7, <1>12, <2>1 DEF InOrder
<1>13. ASSUME NEW i \in DOMAIN p2, NEW j \in DOMAIN q2, IsLive(p2, i), IsEvent(q2, j)
       PROVE  InTopic(t, p2[i].msg, q2[j].msg)
  <2>1. j + 1 \in DOMAIN q /\ IsEvent(q, j + 1) /\ q2[j] = q[j + 1]
    BY <1>1, <1>7, <1>13
  <2>2. CASE i = Len(p2)
    <3>1. 1 < j + 1
      BY <1>1
    <3> QED BY <1>2, <1>5, <2>1, <2>2, <3>1 DEF InOrder
  <2>3. CASE i \in 1 .. Len(p2) - 1
    <3>1. i + d \in DOMAIN p /\ IsLive(p, i + d) /\ p2[i] = p[i + d]
      BY <1>3, <1>6, <1>13, <2>3
    <3> QED BY <2>1, <3>1 DEF InOrder
  <2> QED BY <1>8, <2>2, <2>3
<1>14. InOrder(p2, q2, t, o)
  BY <1>9, <1>10, <1>11, <1>12, <1>13 DEF InOrder
<1> QED BY <1>14 DEF p2, q2, x

\* What the consumer takes next comes after everything it has taken.
LEMMA OrderSent ==
    ASSUME NEW R, NEW p, NEW q \in Seq(R), NEW t, NEW o \in Nat, NEW e \in R,
           InOrder(p, q, t, o), 1 .. o + 1 \subseteq DOMAIN t, e.msg = t[o + 1]
    PROVE  InOrder(p, Append(q, e), t, o + 1)
<1> DEFINE q2 == Append(q, e)
<1>1. /\ Len(q) \in Nat /\ DOMAIN q = 1 .. Len(q) /\ DOMAIN q2 = 1 .. Len(q) + 1
      /\ \A i \in DOMAIN q : q2[i] = q[i] /\ (IsEvent(q2, i) <=> IsEvent(q, i))
      /\ q2[Len(q) + 1] = e
  BY AppendProperties DEF IsEvent
<1>2. \A i \in DOMAIN q2 : i \in DOMAIN q \/ i = Len(q) + 1
  BY <1>1
<1> HIDE DEF q2
<1>3. \A m : Taken(t, o, m) => Taken(t, o + 1, m) /\ InTopic(t, m, t[o + 1])
  <2> SUFFICES ASSUME NEW m, NEW k \in 1 .. o, t[k] = m
               PROVE  Taken(t, o + 1, m) /\ InTopic(t, m, t[o + 1])
    BY DEF Taken
  <2>1. k \in 1 .. o + 1 /\ k < o + 1 /\ k \in DOMAIN t /\ o + 1 \in DOMAIN t
    OBVIOUS
  <2> QED BY <2>1 DEF Taken, InTopic
<1>4. Taken(t, o + 1, e.msg)
  BY DEF Taken
<1>5. \A i \in DOMAIN p : IsLive(p, i) => Taken(t, o + 1, p[i].msg)
  BY <1>3 DEF InOrder
<1>6. \A i \in DOMAIN q2 : IsEvent(q2, i) => Taken(t, o + 1, q2[i].msg)
  BY <1>1, <1>2, <1>3, <1>4 DEF InOrder
<1>7. ASSUME NEW i \in DOMAIN q2, NEW j \in DOMAIN q2, i < j, IsEvent(q2, i), IsEvent(q2, j)
      PROVE  InTopic(t, q2[i].msg, q2[j].msg)
  <2>1. i \in DOMAIN q
    BY <1>1, <1>7
  <2> QED BY <1>1, <1>2, <1>3, <1>7, <2>1 DEF InOrder
<1>8. \A i \in DOMAIN p, j \in DOMAIN q2 :
         IsLive(p, i) /\ IsEvent(q2, j) => InTopic(t, p[i].msg, q2[j].msg)
  BY <1>1, <1>2, <1>3 DEF InOrder
<1>9. InOrder(p, q2, t, o + 1)
  BY <1>5, <1>6, <1>7, <1>8 DEF InOrder
<1> QED BY <1>9 DEF q2

LEMMA TopicGrows ==
    ASSUME ChatTypeOK, [Next]_vars
    PROVE  /\ offset \in Nat /\ offset' \in Nat /\ offset <= offset'
           /\ 1 .. offset \subseteq DOMAIN topic /\ DOMAIN topic \subseteq DOMAIN topic'
           /\ \A k \in DOMAIN topic : topic'[k] = topic[k]
<1>1. /\ topic \in Seq(rows) /\ Len(topic) \in Nat /\ offset \in 0 .. Len(topic)
      /\ DOMAIN topic = 1 .. Len(topic) /\ offset' \in Nat
  BY TypesNext DEF ChatTypeOK, StoreOK
<1>2. CASE UNCHANGED <<topic, offset>>
  BY <1>1, <1>2
<1>3. ASSUME NEW m \in rows, Produce(m), UNCHANGED offset
      PROVE  /\ offset <= offset' /\ DOMAIN topic \subseteq DOMAIN topic'
             /\ \A k \in DOMAIN topic : topic'[k] = topic[k]
  <2>1. CASE topic' = topic
    BY <1>1, <1>3, <2>1
  <2>2. CASE topic' = Append(topic, m)
    <3>1. Len(topic') = Len(topic) + 1 /\ topic' \in Seq(rows) /\ \A k \in DOMAIN topic : topic'[k] = topic[k]
      BY <1>1, <2>2, AppendProperties
    <3> QED BY <1>1, <1>3, <3>1
  <2> QED BY <1>3, <2>1, <2>2 DEF Produce
<1>4. CASE RunDeferred
  <2>1. Head(deferred) \in Deferreds /\ offset' = offset
    BY <1>4, DeferredIs DEF RunDeferred, ChatTypeOK
  <2>2. \/ topic' = topic
        \/ Produce(Head(deferred).msg) /\ Head(deferred).msg \in rows
    BY <1>4, <2>1 DEF RunDeferred, Deferreds, InsertDone, Histories, Errors
  <2> QED BY <1>1, <1>2, <1>3, <2>1, <2>2
<1>5. CASE Publish \/ Restart
  BY <1>1, <1>5 DEF Publish, Restart
<1>6. UNCHANGED <<topic, offset>> \/ RunDeferred \/ Publish \/ Restart
  <2>1. ASSUME NEW c, SendChat(c) \/ OpenChannel(c) \/ Read(c) \/ Hello(c) \/ Close(c)
        PROVE  UNCHANGED kafkaVars
    BY <2>1 DEF SendChat, OpenChannel, Read, Hello, Close
  <2>2. ASSUME NEW x, Store(x) \/ OnInsertComplete(x) \/ Select(x) \/ OnHistoryComplete(x)
        PROVE  UNCHANGED kafkaVars
    BY <2>2 DEF Store, OnInsertComplete, Select, OnHistoryComplete
  <2>3. UNCHANGED vars => UNCHANGED kafkaVars
    BY DEF vars
  <2>4. UNCHANGED kafkaVars => UNCHANGED <<topic, offset>>
    BY DEF kafkaVars
  <2> QED BY <2>1, <2>2, <2>3, <2>4 DEF Next
<1> QED BY <1>1, <1>2, <1>4, <1>5, <1>6

LEMMA OrderNext ==
    ASSUME ChatTypeOK, OwnInv, OrderInv, [Next]_vars
    PROVE  OrderInv'
<1> SUFFICES ASSUME NEW c \in Clients PROVE InOrder(pane'[c], down'[c], topic', offset')
  BY DEF OrderInv
<1> DEFINE p == pane[c]
           q == down[c]
<1>1. /\ p \in Seq(Lines) /\ Len(p) <= Cap /\ q \in Seq(Envelopes({session[c]}))
      /\ InOrder(p, q, topic, offset)
  BY DEF ChatTypeOK, GuiOK, OrderInv
<1>2. /\ DOMAIN p = 1 .. Len(p) /\ Len(p) \in Nat
      /\ DOMAIN q = 1 .. Len(q) /\ Len(q) \in Nat
  BY <1>1
<1>3. \A x, y : InOrder(x, y, topic, offset) => InOrder(x, y, topic', offset')
  BY TopicGrows, OrderGrows
<1>4. CASE Stays(c)
  BY <1>1, <1>3, <1>4 DEF Stays
<1>5. CASE Ends(c)
  <2>1. InOrder(<< >>, << >>, topic', offset')
    BY DEF InOrder
  <2> QED BY <1>5, <2>1 DEF Ends
<1>6. CASE Echoes(c)
  <2>1. PICK x \in Lines : x.via = "echo" /\ pane'[c] = PushChat(p, x) /\ down'[c] = q
    BY <1>6 DEF Echoes
  <2> DEFINE p2 == PushChat(p, x)
  <2>2. p2 \in Seq(Lines) /\ Len(p2) \in 1 .. Cap /\ p2[Len(p2)] = x /\ Pushed(p, p2)
    BY <1>1, PushChatIs
  <2> HIDE DEF p2
  <2>3. PICK d \in {0, 1} : Len(p) = Len(p2) - 1 + d /\ \A i \in 1 .. Len(p2) - 1 : p2[i] = p[i + d]
    BY <2>2 DEF Pushed
  <2>4. DOMAIN p2 = 1 .. Len(p2) /\ Len(p2) \in Nat
    BY <2>2
  <2>5. \A i \in DOMAIN p2 : IsLive(p2, i) => i + d \in DOMAIN p /\ p2[i] = p[i + d]
    <3>1. \A i \in DOMAIN p2 : IsLive(p2, i) => i # Len(p2)
      BY <2>1, <2>2 DEF IsLive
    <3>2. \A i \in 1 .. Len(p2) - 1 : i + d \in 1 .. Len(p)
      BY <1>2, <2>3, <2>4
    <3> QED BY <1>2, <2>3, <2>4, <3>1, <3>2
  <2>6. \A i \in DOMAIN q : i + 0 \in DOMAIN q /\ q[i] = q[i + 0]
    BY <1>2
  <2>7. InOrder(p2, q, topic, offset)
    <3>1. d \in Int /\ 0 \in Int /\ DOMAIN p2 \subseteq Nat /\ DOMAIN q \subseteq Nat
      BY <1>2, <2>4
    <3> HIDE DEF p, q
    <3>2. LiveFrom(p, p2) /\ EventsFrom(q, q)
      BY <2>5, <2>6, <3>1 DEF LiveFrom, EventsFrom
    <3> QED BY <1>1, <3>2, OrderShift
  <2> QED BY <1>3, <2>1, <2>7 DEF p2
<1>7. CASE Shows(c)
  <2> DEFINE e == Head(q)
             q2 == Tail(q)
  <2>1. q # << >> /\ down'[c] = q2
    BY <1>7 DEF Shows
  <2>2. DOMAIN q2 = 1 .. Len(q) - 1 /\ \A i \in DOMAIN q2 : i + 1 \in DOMAIN q /\ q2[i] = q[i + 1]
    BY <1>1, <1>2, <2>1, HeadTailProperties
  <2>3. CASE e.kind = "event" /\ e.msg \in rows /\ pane'[c] = PushChat(p, [msg |-> e.msg, via |-> "live"])
    <3>1. [msg |-> Head(q).msg, via |-> "live"] \in Lines
      BY <2>3 DEF Lines
    <3>2. InOrder(PushChat(p, [msg |-> Head(q).msg, via |-> "live"]), Tail(q), topic, offset)
      <4> HIDE DEF p, q
      <4> QED BY <1>1, <2>1, <2>3, <3>1, OrderShown
    <3> QED BY <1>3, <2>1, <2>3, <3>2
  <2>4. CASE e.kind = "history" /\ Prepended(p, e.page, pane'[c])
    <3>1. PICK k \in 0 .. Len(e.page) :
             /\ Len(pane'[c]) = k + Len(p)
             /\ \A i \in 1 .. k : pane'[c][i].via = "history"
             /\ \A i \in 1 .. Len(p) : pane'[c][k + i] = p[i]
      BY <2>4 DEF Prepended
    <3>2. pane'[c] \in Seq(Lines)' /\ k \in Int /\ -k \in Int /\ k >= 0
      <4>1. ChatTypeOK'
        BY TypesNext
      <4>2. pane'[c] \in Seq(Lines)'
        BY <4>1 DEF ChatTypeOK, GuiOK
      <4> QED BY <4>2
    <3>3. DOMAIN pane'[c] = 1 .. Len(pane'[c]) /\ DOMAIN pane'[c] \subseteq Nat
      BY <3>2
    <3>4. ASSUME NEW i \in DOMAIN pane'[c], IsLive(pane'[c], i)
          PROVE  i + (-k) \in DOMAIN p /\ pane'[c][i] = p[i + (-k)]
      <4>1. ~(i <= k)
        BY <3>1, <3>3, <3>4 DEF IsLive
      <4>2. i + (-k) \in 1 .. Len(p) /\ k + (i + (-k)) = i
        BY <1>2, <3>1, <3>2, <3>3, <4>1
      <4> QED BY <1>2, <3>1, <4>2
    <3>5. InOrder(pane'[c], q2, topic, offset)
      <4>1. DOMAIN q2 \subseteq Nat
        BY <1>2, <2>2
      <4> HIDE DEF p, q, q2
      <4>2. LiveFrom(p, pane'[c])
        BY <3>2, <3>3, <3>4 DEF LiveFrom
      <4>3. EventsFrom(q, q2)
        BY <2>2, <4>1 DEF EventsFrom
      <4> QED BY <1>1, <4>2, <4>3, OrderShift
    <3> QED BY <1>3, <2>1, <3>5
  <2>5. CASE e.kind = "error" /\ pane'[c] = p
    <3>1. \A i \in DOMAIN p : i + 0 \in DOMAIN p /\ p[i] = p[i + 0]
      BY <1>2
    <3>2. InOrder(p, q2, topic, offset)
      <4>1. DOMAIN p \subseteq Nat /\ DOMAIN q2 \subseteq Nat
        BY <1>2, <2>2
      <4> HIDE DEF p, q, q2
      <4>2. LiveFrom(p, p) /\ EventsFrom(q, q2)
        BY <2>2, <3>1, <4>1 DEF LiveFrom, EventsFrom
      <4> QED BY <1>1, <4>2, OrderShift
    <3> QED BY <1>3, <2>1, <2>5, <3>2
  <2> QED BY <1>7, <2>3, <2>4, <2>5 DEF Shows
<1>8. CASE Gets(c)
  <2>1. PICK e \in Envelopes({session[c]}) :
           /\ down'[c] = Append(q, e)
           /\ e.kind = "event" =>
                /\ offset < Len(topic) /\ e.msg = topic[offset + 1]
                /\ offset' = offset + 1 /\ topic' = topic
    BY <1>8 DEF Gets
  <2>2. CASE e.kind = "event"
    <3>1. 1 .. offset + 1 \subseteq DOMAIN topic /\ offset \in Nat
      BY <2>1, <2>2 DEF ChatTypeOK, StoreOK
    <3>2. InOrder(p, Append(q, e), topic, offset + 1)
      <4> HIDE DEF p, q
      <4> QED BY <1>1, <2>1, <2>2, <3>1, OrderSent
    <3> QED BY <1>8, <2>1, <2>2, <3>2 DEF Gets
  <2>3. CASE e.kind # "event"
    <3> DEFINE q2 == Append(q, e)
    <3>1. DOMAIN q2 = 1 .. Len(q) + 1 /\ (\A i \in DOMAIN q : q2[i] = q[i]) /\ q2[Len(q) + 1] = e
      BY <1>1, <1>2, AppendProperties
    <3> HIDE DEF q2
    <3>2. \A i \in DOMAIN q2 : IsEvent(q2, i) => i + 0 \in DOMAIN q /\ q2[i] = q[i + 0]
      <4>1. \A i \in DOMAIN q2 : IsEvent(q2, i) => i # Len(q) + 1
        BY <2>3, <3>1 DEF IsEvent
      <4> QED BY <1>2, <3>1, <4>1
    <3>3. \A i \in DOMAIN p : i + 0 \in DOMAIN p /\ p[i] = p[i + 0]
      BY <1>2
    <3>4. InOrder(p, q2, topic, offset)
      <4>1. DOMAIN p \subseteq Nat /\ DOMAIN q2 \subseteq Nat
        BY <1>2, <3>1
      <4> HIDE DEF p, q
      <4>2. LiveFrom(p, p) /\ EventsFrom(q, q2)
        BY <3>2, <3>3, <4>1 DEF LiveFrom, EventsFrom
      <4> QED BY <1>1, <4>2, OrderShift
    <3> QED BY <1>3, <1>8, <2>1, <3>4 DEF Gets, q2
  <2> QED BY <2>2, <2>3
<1> QED BY <1>4, <1>5, <1>6, <1>7, <1>8, StepAt

\* However INSERTs, echoes and the fan-out overtake each other, what a pane
\* shows of others came in the order of the topic, each message once.
THEOREM LiveInOrderAlways == Spec => []LiveInOrder
<1>1. Init => ChatTypeOK /\ OwnInv /\ OrderInv
  BY ChatStarts DEF ChatInv
<1>2. (ChatTypeOK /\ OwnInv /\ OrderInv) /\ [Next]_vars => (ChatTypeOK /\ OwnInv /\ OrderInv)'
  BY TypesNext, OwnNext, OrderNext
<1>3. OrderInv => LiveInOrder
  BY DEF OrderInv, InOrder, IsLive, InTopic, LiveInOrder, Before
<1> QED BY <1>1, <1>2, <1>3, PTL DEF Spec

-----------------------------------------------------------------------------
(* Gaps *)

LEMMA UuidNext == ASSUME ChatTypeOK, UuidInv, [Next]_vars PROVE UuidInv'
<1> DEFINE Known(r, I) == r \cup {x.msg : x \in I}
<1>1. uuids \in Seq(Msgs) /\ Len(uuids) \in Nat /\ DOMAIN uuids = 1 .. Len(uuids)
  BY DEF ChatTypeOK, StoreOK
<1>2. ASSUME UNCHANGED uuids, used'.sent = used.sent, Known(rows', inserts') \subseteq Known(rows, inserts)
      PROVE  UuidInv'
  BY <1>2 DEF UuidInv
<1>3. ASSUME NEW c \in Clients, SendChat(c) PROVE UuidInv'
  <2> DEFINE m == <<c, used.sent[c] + 1>>
  <2>1. /\ uuids' = Append(uuids, m) /\ m \in Msgs /\ rows' = rows
        /\ inserts' = inserts \cup {[session |-> session[c], msg |-> m]}
    BY <1>3 DEF SendChat, OnSendMessage, ChatTypeOK, UsedOK, Msgs
  <2>2. used.sent \in [Clients -> Nat] /\ used'.sent = [used.sent EXCEPT ![c] = @ + 1]
    BY <1>3 DEF SendChat, ChatTypeOK, UsedOK
  <2>3. m[1] = c /\ m[2] = used.sent[c] + 1
    OBVIOUS
  <2>4. \A i \in DOMAIN uuids : uuids[i] # m
    BY <2>2, <2>3 DEF UuidInv
  <2> HIDE DEF m
  <2>5. /\ Len(uuids') = Len(uuids) + 1 /\ uuids' \in Seq(Msgs)
        /\ \A i \in DOMAIN uuids : uuids'[i] = uuids[i]
        /\ uuids'[Len(uuids) + 1] = m
    BY <1>1, <2>1, AppendProperties
  <2>6. DOMAIN uuids' = 1 .. Len(uuids) + 1
    BY <2>5
  <2>7. \A i \in DOMAIN uuids' : i \in DOMAIN uuids \/ i = Len(uuids) + 1
    BY <1>1, <2>6
  <2>8. \A i \in DOMAIN uuids' : uuids'[i][2] <= used'.sent[uuids'[i][1]]
    <3>1. \A i \in DOMAIN uuids : uuids[i][1] \in Clients /\ uuids[i][2] \in Nat
      BY <1>1 DEF Msgs
    <3>2. \A d \in Clients : used.sent[d] <= used'.sent[d] /\ used'.sent[d] \in Nat /\ used.sent[d] \in Nat
      BY <2>2
    <3>3. \A i \in DOMAIN uuids : uuids[i][2] <= used'.sent[uuids[i][1]]
      BY <3>1, <3>2 DEF UuidInv
    <3>4. m[2] <= used'.sent[m[1]]
      BY <2>2, <2>3
    <3> QED BY <2>5, <2>7, <3>3, <3>4
  <2>9. \A i, j \in DOMAIN uuids' : uuids'[i] = uuids'[j] => i = j
    BY <2>4, <2>5, <2>7 DEF UuidInv
  <2>10. ASSUME NEW k \in rows' \cup {x.msg : x \in inserts'}
         PROVE  \E i \in DOMAIN uuids' : uuids'[i] = k
    <3>1. k = m \/ k \in Known(rows, inserts)
      BY <2>1
    <3>2. CASE k = m
      BY <1>1, <2>5, <2>6, <3>2
    <3>3. CASE k \in Known(rows, inserts)
      <4>1. PICK i \in DOMAIN uuids : uuids[i] = k
        BY <3>3 DEF UuidInv
      <4>2. i \in DOMAIN uuids'
        BY <1>1, <2>6
      <4> QED BY <2>5, <4>1, <4>2
    <3> QED BY <3>1, <3>2, <3>3
  <2> QED BY <2>8, <2>9, <2>10 DEF UuidInv
<1>4. ASSUME NEW c \in Clients, OpenChannel(c) \/ Read(c) \/ Hello(c) \/ Close(c)
      PROVE  UNCHANGED <<uuids, rows, inserts>> /\ used'.sent = used.sent
  BY <1>4 DEF OpenChannel, Read, Hello, Close, dbVars, ChatTypeOK, UsedOK
<1>5. ASSUME NEW x \in inserts, Store(x)
      PROVE  UNCHANGED <<uuids, used>> /\ Known(rows', inserts') \subseteq Known(rows, inserts)
  BY <1>5 DEF Store
<1>6. ASSUME NEW x \in inserts, OnInsertComplete(x)
      PROVE  UNCHANGED <<uuids, used>> /\ Known(rows', inserts') \subseteq Known(rows, inserts)
  BY <1>6 DEF OnInsertComplete
<1>7. ASSUME NEW x \in selects, Select(x) \/ OnHistoryComplete(x)
      PROVE  UNCHANGED <<uuids, rows, inserts, used>>
  BY <1>7 DEF Select, OnHistoryComplete
<1>8. ASSUME RunDeferred \/ Publish \/ UNCHANGED vars
      PROVE  UNCHANGED <<uuids, rows, inserts, used>>
  BY <1>8 DEF RunDeferred, Publish, vars, dbVars
<1>9. ASSUME Restart
      PROVE  UNCHANGED <<uuids, used>> /\ Known(rows', inserts') \subseteq Known(rows, inserts)
  BY <1>9 DEF Restart
<1> HIDE DEF Known
<1>10. ASSUME UNCHANGED <<rows, inserts>> PROVE Known(rows', inserts') \subseteq Known(rows, inserts)
  BY <1>10
<1> QED BY <1>2, <1>3, <1>4, <1>5, <1>6, <1>7, <1>8, <1>9, <1>10 DEF Next

\* Nothing that was held is lost but by a pane at its cap, as long as the
\* client is there.
LEMMA HeldStays ==
    ASSUME ChatTypeOK, OwnInv, [Next]_vars, NEW c \in Clients, ~Ends(c), NEW m,
           Held(pane[c], down[c], m)
    PROVE  Held(pane'[c], down'[c], m)
<1> DEFINE p == pane[c]
           q == down[c]
           p2 == pane'[c]
           q2 == down'[c]
<1>1. /\ p \in Seq(Lines) /\ Len(p) <= Cap /\ q \in Seq(Envelopes({session[c]}))
      /\ DOMAIN p = 1 .. Len(p) /\ Len(p) \in Nat /\ DOMAIN q = 1 .. Len(q) /\ Len(q) \in Nat
      /\ Cap \in Nat
  BY ChatAssumption DEF ChatTypeOK, GuiOK
<1>2. CASE Stays(c)
  BY <1>2 DEF Stays
<1>3. ASSUME NEW x \in Lines, p2 = PushChat(p, x)
      PROVE  /\ \A i \in DOMAIN p : (\E j \in DOMAIN p2 : p2[j] = p[i]) \/ Len(p2) = Cap
             /\ \E j \in DOMAIN p2 : p2[j] = x
             /\ Len(p) = Cap => Len(p2) = Cap
  <2>1. p2 \in Seq(Lines) /\ Len(p2) \in 1 .. Cap /\ p2[Len(p2)] = x /\ Pushed(p, p2)
    <3> DEFINE r == PushChat(p, x)
    <3>1. r \in Seq(Lines) /\ Len(r) \in 1 .. Cap /\ r[Len(r)] = x /\ Pushed(p, r)
      <4> HIDE DEF p
      <4> QED BY <1>1, PushChatIs
    <3> QED BY <1>3, <3>1
  <2> HIDE DEF p, p2
  <2>2. PICK d \in {0, 1} :
           /\ Len(p) = Len(p2) - 1 + d /\ (d = 1 => Len(p2) = Cap)
           /\ \A i \in 1 .. Len(p2) - 1 : p2[i] = p[i + d]
    BY <2>1 DEF Pushed
  <2>3. DOMAIN p2 = 1 .. Len(p2)
    BY <2>1
  <2>4. ASSUME d = 0, NEW i \in DOMAIN p PROVE i \in DOMAIN p2 /\ p2[i] = p[i]
    BY <1>1, <2>2, <2>3, <2>4
  <2>5. Len(p) = Cap => Len(p2) = Cap
    BY <1>1, <2>1, <2>2
  <2> QED BY <2>1, <2>2, <2>3, <2>4, <2>5
<1>4. CASE Echoes(c)
  <2>1. PICK x \in Lines : p2 = PushChat(p, x) /\ q2 = q
    BY <1>4 DEF Echoes
  <2> HIDE DEF p, q, p2, q2
  <2>2. Held(p, q, m) => Held(p2, q2, m)
    BY <1>3, <2>1 DEF Held
  <2> QED BY <2>2 DEF p, q, p2, q2
<1>5. CASE Shows(c)
  <2> DEFINE e == Head(q)
  <2>1. q # << >> /\ q2 = Tail(q)
    BY <1>5 DEF Shows
  <2>2. e = q[1] /\ DOMAIN q2 = 1 .. Len(q) - 1 /\ \A i \in 1 .. Len(q) - 1 : q2[i] = q[i + 1]
    <3> HIDE DEF q, q2
    <3>1. Len(q) # 0
      BY <1>1, <2>1, EmptySeq
    <3>2. Tail(q) \in Seq(Envelopes({session[c]})) /\ Len(Tail(q)) = Len(q) - 1
      BY <1>1, <2>1, HeadTailProperties
    <3>3. \A i \in 1 .. Len(q) - 1 : Tail(q)[i] = q[i + 1]
      BY <1>1, <2>1, <3>2, HeadTailProperties
    <3>4. DOMAIN Tail(q) = 1 .. Len(q) - 1
      BY <3>2
    <3> QED BY <1>1, <2>1, <3>1, <3>3, <3>4
  <2>3. ASSUME NEW k \in DOMAIN q PROVE q[k] = e \/ \E j \in DOMAIN q2 : q2[j] = q[k]
    <3>1. CASE k = 1
      BY <2>2, <3>1
    <3>2. CASE k # 1
      <4>1. k - 1 \in 1 .. Len(q) - 1 /\ (k - 1) + 1 = k
        BY <1>1, <3>2
      <4> QED BY <2>2, <4>1
    <3> QED BY <3>1, <3>2
  <2>4. CASE e.kind = "event" /\ e.msg \in rows /\ p2 = PushChat(p, [msg |-> e.msg, via |-> "live"])
    <3> DEFINE x == [msg |-> e.msg, via |-> "live"]
    <3>1. x \in Lines /\ x.msg = e.msg
      BY <2>4 DEF Lines
    <3>2. p2 = PushChat(p, x)
      BY <2>4
    <3> HIDE DEF p, q, p2, q2, e, x
    <3>3. Held(p, q, m) => Held(p2, q2, m)
      BY <1>3, <2>3, <3>1, <3>2 DEF Held
    <3> QED BY <3>3 DEF p, q, p2, q2
  <2>5. CASE e.kind = "history" /\ Prepended(p, e.page, p2)
    <3> HIDE DEF p, q, p2, q2, e
    <3>1. PICK k \in 0 .. Len(e.page) :
             Len(p2) = k + Len(p) /\ \A i \in 1 .. Len(p) : p2[k + i] = p[i]
      BY <2>5 DEF Prepended
    <3>2. DOMAIN p2 = 1 .. Len(p2) /\ Len(p2) <= Cap /\ k \in Nat
      <4>1. ChatTypeOK'
        BY TypesNext
      <4>2. p2 \in Seq(Lines)' /\ Len(p2) <= Cap
        BY <4>1 DEF ChatTypeOK, GuiOK, p2
      <4> QED BY <4>2
    <3>3. \A i \in DOMAIN p : k + i \in DOMAIN p2 /\ p2[k + i] = p[i]
      BY <1>1, <3>1, <3>2
    <3>4. Len(p) = Cap => Len(p2) = Cap
      BY <1>1, <3>1, <3>2
    <3>5. Held(p, q, m) => Held(p2, q2, m)
      BY <2>3, <2>5, <3>3, <3>4 DEF Held
    <3> QED BY <3>5 DEF p, q, p2, q2
  <2>6. CASE e.kind = "error" /\ p2 = p
    <3> HIDE DEF p, q, p2, q2, e
    <3>1. Held(p, q, m) => Held(p2, q2, m)
      BY <2>3, <2>6 DEF Held
    <3> QED BY <3>1 DEF p, q, p2, q2
  <2> QED BY <1>5, <2>4, <2>5, <2>6 DEF Shows
<1>6. CASE Gets(c)
  <2>1. PICK e \in Envelopes({session[c]}) : p2 = p /\ q2 = Append(q, e)
    BY <1>6 DEF Gets
  <2>2. \A k \in DOMAIN q : k \in DOMAIN q2 /\ q2[k] = q[k]
    BY <1>1, <2>1, AppendProperties
  <2> HIDE DEF p, q, p2, q2
  <2>3. Held(p, q, m) => Held(p2, q2, m)
    BY <2>1, <2>2 DEF Held
  <2> QED BY <2>3 DEF p, q, p2, q2
<1> QED BY <1>2, <1>4, <1>5, <1>6, StepAt

\* A page that is read leaves nothing of it out, as long as there is room.
LEMMA PageShown ==
    ASSUME ChatTypeOK, NEW c \in Clients, NEW page \in Seq(rows),
           Prepended(pane[c], page, pane'[c]), Len(pane'[c]) \in Nat,
           DOMAIN pane'[c] = 1 .. Len(pane'[c]), NEW k \in DOMAIN page, NEW q
    PROVE  Held(pane'[c], q, page[k])
<1>1. PICK n \in 0 .. Len(page) :
         /\ Len(pane'[c]) = n + Len(pane[c]) /\ (n < Len(page) => Len(pane'[c]) = Cap)
         /\ \A i \in 1 .. n : pane'[c][i].via = "history" /\ pane'[c][i].msg = page[Len(page) - n + i]
  BY DEF Prepended
<1>2. Len(page) \in Nat /\ DOMAIN page = 1 .. Len(page) /\ Len(pane[c]) \in Nat
  BY DEF ChatTypeOK, GuiOK
<1>3. CASE n < Len(page)
  BY <1>1, <1>3 DEF Held
<1>4. CASE n = Len(page)
  <2>1. k \in 1 .. n /\ k \in DOMAIN pane'[c] /\ Len(page) - n + k = k
    BY <1>1, <1>2, <1>4
  <2>2. pane'[c][k].msg = page[Len(page) - n + k]
    BY <1>1, <2>1
  <2>3. pane'[c][k].msg = page[k]
    BY <2>1, <2>2
  <2> QED BY <2>1, <2>3 DEF Held
<1>5. n < Len(page) \/ n = Len(page)
  <2>1. Len(page) \in Int /\ n \in Int /\ n <= Len(page)
    BY <1>2
  <2>2. \A a, b \in Int : a <= b => a < b \/ a = b
    OBVIOUS
  <2> QED BY <2>1, <2>2
<1> QED BY <1>3, <1>4, <1>5

\* Newer rows only become more.
LEMMA NewerGrows ==
    ASSUME ChatTypeOK, [Next]_vars, NEW m, Cardinality(Newer(m)) >= Limit
    PROVE  Cardinality({n \in rows' : \E i, j \in DOMAIN uuids' : uuids'[i] = m /\ uuids'[j] = n /\ i < j}) >= Limit
<1> DEFINE N == {n \in rows' : \E i, j \in DOMAIN uuids' : uuids'[i] = m /\ uuids'[j] = n /\ i < j}
           R == {uuids'[j] : j \in DOMAIN uuids'}
<1>1. uuids' \in Seq(Msgs) /\ Len(uuids') \in Nat /\ DOMAIN uuids' = 1 .. Len(uuids')
  <2>1. ChatTypeOK'
    BY TypesNext
  <2> QED BY <2>1 DEF ChatTypeOK, StoreOK, Msgs
<1>2. IsFiniteSet(N)
  <2> DEFINE f == [j \in DOMAIN uuids' |-> uuids'[j]]
  <2>1. IsFiniteSet(DOMAIN uuids')
    BY <1>1, FS_Interval
  <2>2. f \in Surjection(DOMAIN uuids', R)
    BY DEF Surjection
  <2>3. IsFiniteSet(R)
    BY <2>1, <2>2, FS_Surjection
  <2>4. N \subseteq R
    OBVIOUS
  <2> QED BY <2>3, <2>4, FS_Subset
<1>3. rows \subseteq rows' /\ \A i \in DOMAIN uuids : i \in DOMAIN uuids' /\ uuids'[i] = uuids[i]
  <2>1. ASSUME NEW c \in Clients, SendChat(c) PROVE rows' = rows /\ \A i \in DOMAIN uuids : i \in DOMAIN uuids' /\ uuids'[i] = uuids[i]
    <3>1. \E x \in Msgs : uuids' = Append(uuids, x)
      BY <2>1 DEF SendChat, OnSendMessage, ChatTypeOK, UsedOK, Msgs
    <3>2. uuids \in Seq(Msgs)
      BY DEF ChatTypeOK, StoreOK
    <3> QED BY <2>1, <3>1, <3>2, AppendProperties DEF SendChat
  <2>2. ASSUME NEW c \in Clients, OpenChannel(c) \/ Read(c) \/ Hello(c) \/ Close(c) PROVE UNCHANGED <<uuids, rows>>
    BY <2>2 DEF OpenChannel, Read, Hello, Close, dbVars
  <2>3. ASSUME NEW x, Store(x) \/ OnInsertComplete(x) \/ Select(x) \/ OnHistoryComplete(x)
        PROVE  uuids' = uuids /\ rows \subseteq rows'
    BY <2>3 DEF Store, OnInsertComplete, Select, OnHistoryComplete
  <2>4. RunDeferred \/ Publish \/ Restart \/ UNCHANGED vars => UNCHANGED <<uuids, rows>>
    BY DEF RunDeferred, Publish, Restart, vars, dbVars
  <2> QED BY <2>1, <2>2, <2>3, <2>4 DEF Next
<1>4. Newer(m) \subseteq N
  BY <1>3 DEF Newer
<1>5. Cardinality(Newer(m)) <= Cardinality(N) /\ Cardinality(N) \in Nat /\ Cardinality(Newer(m)) \in Nat
  <2> HIDE DEF N
  <2>1. Cardinality(N) \in Nat /\ Cardinality(Newer(m)) <= Cardinality(N) /\ IsFiniteSet(Newer(m))
    BY <1>2, <1>4, FS_Subset, FS_CardinalityType
  <2> QED BY <2>1, FS_CardinalityType
<1> HIDE DEF N
<1>6. Cardinality(N) >= Limit
  BY <1>5, ChatAssumption
<1> QED BY <1>6 DEF N

LEMMA CoveredStays ==
    ASSUME ChatTypeOK, OwnInv, [Next]_vars, NEW c \in Clients, ~Ends(c), NEW m, Covered(c, m)
    PROVE  Covered(c, m)'
<1>1. CASE Sender(m) = UserOf[c]
  BY <1>1 DEF Covered, Sender
<1>2. CASE Held(pane[c], down[c], m)
  <2>1. Held(pane'[c], down'[c], m)
    BY <1>2, HeldStays
  <2> QED BY <2>1 DEF Covered, Held
<1>3. CASE Cardinality(Newer(m)) >= Limit
  <2>1. (Cardinality(Newer(m)) >= Limit)'
    BY <1>3, NewerGrows DEF Newer
  <2> QED BY <2>1 DEF Covered
<1> QED BY <1>1, <1>2, <1>3 DEF Covered

\* Where the pages come from: a SELECT, its continuation, the socket.
LEMMA SelectsSteps ==
    ASSUME [Next]_vars
    PROVE  \/ selects' \subseteq selects
           \/ \E c \in Clients : OpenChannel(c)
           \/ \E y \in selects : Select(y)
<1>1. ASSUME NEW c, SendChat(c) \/ Read(c) \/ Hello(c) \/ Close(c) PROVE selects' \subseteq selects
  BY <1>1 DEF SendChat, Read, Hello, Close, dbVars
<1>2. ASSUME NEW y, Store(y) \/ OnInsertComplete(y) \/ OnHistoryComplete(y) PROVE selects' \subseteq selects
  BY <1>2 DEF Store, OnInsertComplete, OnHistoryComplete
<1>3. RunDeferred \/ Publish \/ Restart \/ UNCHANGED vars => selects' \subseteq selects
  BY DEF RunDeferred, Publish, Restart, vars, dbVars
<1> QED BY <1>1, <1>2, <1>3 DEF Next

LEMMA SelectsFrom ==
    ASSUME ChatTypeOK, [Next]_vars, NEW x \in selects', x.read
    PROVE  x \in selects \/ (x.page = Page /\ \E y \in selects : y.session = x.session)
<1>1. CASE selects' \subseteq selects
  BY <1>1
<1>2. ASSUME NEW c \in Clients, OpenChannel(c) PROVE x \in selects
  <2>1. PICK y : y.read = FALSE /\ selects' = selects \cup {y}
    BY <1>2 DEF OpenChannel, OnFetchHistory
  <2> QED BY <2>1
<1>3. ASSUME NEW y \in selects, Select(y) PROVE x \in selects \/ (x.page = Page /\ y.session = x.session)
  <2> DEFINE z == [y EXCEPT !.read = TRUE, !.page = Page]
  <2>1. y \in HistoryCtxs
    BY DEF ChatTypeOK, StoreOK
  <2>2. z.page = Page /\ z.session = y.session
    BY <2>1 DEF HistoryCtxs
  <2>3. selects' \subseteq selects \cup {z}
    BY <1>3 DEF Select
  <2> HIDE DEF z
  <2> QED BY <2>2, <2>3
<1>4. \/ selects' \subseteq selects
      \/ \E c \in Clients : OpenChannel(c)
      \/ \E y \in selects : Select(y)
  BY SelectsSteps
<1> QED BY <1>1, <1>2, <1>3, <1>4

LEMMA SelectsAsk ==
    ASSUME ChatTypeOK, [Next]_vars, NEW x \in selects'
    PROVE  \/ \E y \in selects : y.session = x.session
           \/ \E d \in Clients : OpenChannel(d) /\ x.session = session[d]
<1>1. CASE selects' \subseteq selects
  BY <1>1
<1>2. ASSUME NEW d \in Clients, OpenChannel(d) PROVE x \in selects \/ x.session = session[d]
  <2> DEFINE z == [session |-> session[d], n |-> used.fetched[d] + 1, read |-> FALSE, page |-> << >>]
  <2>1. selects' = selects \cup {z}
    BY <1>2 DEF OpenChannel, OnFetchHistory
  <2> QED BY <2>1
<1>3. ASSUME NEW y \in selects, Select(y) PROVE x \in selects \/ x.session = y.session
  <2> DEFINE z == [y EXCEPT !.read = TRUE, !.page = Page]
  <2>1. y \in HistoryCtxs
    BY DEF ChatTypeOK, StoreOK
  <2>2. z.session = y.session
    BY <2>1 DEF HistoryCtxs
  <2>3. selects' \subseteq selects \cup {z}
    BY <1>3 DEF Select
  <2> HIDE DEF z
  <2> QED BY <2>2, <2>3
<1>4. \/ selects' \subseteq selects
      \/ \E c \in Clients : OpenChannel(c)
      \/ \E y \in selects : Select(y)
  BY SelectsSteps
<1> QED BY <1>1, <1>2, <1>3, <1>4

LEMMA DeferredFrom ==
    ASSUME ChatTypeOK, [Next]_vars, NEW i \in DOMAIN deferred', deferred'[i].kind = "history"
    PROVE  \/ \E j \in DOMAIN deferred : deferred[j] = deferred'[i]
           \/ \E x \in selects : x.read /\ x.session = deferred'[i].session /\ x.page = deferred'[i].page
<1>1. CASE UNCHANGED deferred \/ deferred' = << >>
  BY <1>1
<1>2. CASE RunDeferred
  BY <1>2, DeferredIs DEF RunDeferred, ChatTypeOK
<1>3. ASSUME NEW e \in Deferreds, deferred' = Append(deferred, e)
      PROVE  deferred'[i] = e \/ \E j \in DOMAIN deferred : deferred[j] = deferred'[i]
  <2>1. deferred \in Seq(Deferreds) /\ DOMAIN deferred = 1 .. Len(deferred) /\ Len(deferred) \in Nat
    BY DEF ChatTypeOK, StoreOK
  <2>2. /\ Len(deferred') = Len(deferred) + 1 /\ deferred' \in Seq(Deferreds)
        /\ \A j \in DOMAIN deferred : deferred'[j] = deferred[j]
        /\ deferred'[Len(deferred) + 1] = e
    BY <1>3, <2>1, AppendProperties
  <2>3. i \in DOMAIN deferred \/ i = Len(deferred) + 1
    BY <2>1, <2>2
  <2> QED BY <2>2, <2>3
<1>4. ASSUME NEW x \in inserts, OnInsertComplete(x), ~ UNCHANGED deferred
      PROVE  \E e \in Deferreds : e.kind = "insert" /\ deferred' = Append(deferred, e)
  BY <1>4 DEF OnInsertComplete, ChatTypeOK, StoreOK, InsertCtxs, Deferreds, InsertDone
<1>5. ASSUME NEW x \in selects, OnHistoryComplete(x)
      PROVE  \E e \in Deferreds :
                /\ deferred' = Append(deferred, e)
                /\ e.kind = "history" => x.read /\ x.session = e.session /\ x.page = e.page
  <2>1. x \in HistoryCtxs
    BY DEF ChatTypeOK, StoreOK
  <2>2. CASE x.read /\ deferred' = Append(deferred, [kind |-> "history", session |-> x.session, page |-> x.page])
    <3> DEFINE e == [kind |-> "history", session |-> x.session, page |-> x.page]
    <3>1. e \in Deferreds /\ e.session = x.session /\ e.page = x.page
      BY <2>1 DEF HistoryCtxs, Deferreds, Histories
    <3> HIDE DEF e
    <3> QED BY <2>2, <3>1 DEF e
  <2>3. CASE deferred' = Append(deferred, [kind |-> "error", session |-> x.session])
    <3> DEFINE e == [kind |-> "error", session |-> x.session]
    <3>1. e \in Deferreds /\ e.kind = "error"
      BY <2>1 DEF HistoryCtxs, Deferreds, Errors
    <3> HIDE DEF e
    <3> QED BY <2>3, <3>1 DEF e
  <2> QED BY <1>5, <2>2, <2>3 DEF OnHistoryComplete
<1>6. \/ UNCHANGED deferred \/ deferred' = << >> \/ RunDeferred
      \/ \E x \in inserts : OnInsertComplete(x)
      \/ \E x \in selects : OnHistoryComplete(x)
  <2>1. ASSUME NEW c, SendChat(c) \/ OpenChannel(c) \/ Read(c) \/ Hello(c) \/ Close(c) PROVE UNCHANGED deferred
    BY <2>1 DEF SendChat, OpenChannel, Read, Hello, Close
  <2>2. ASSUME NEW y, Store(y) \/ Select(y) PROVE UNCHANGED deferred
    BY <2>2 DEF Store, Select
  <2>3. Publish \/ UNCHANGED vars => UNCHANGED deferred
    BY DEF Publish, vars
  <2>4. Restart => deferred' = << >>
    BY DEF Restart
  <2> QED BY <2>1, <2>2, <2>3, <2>4 DEF Next
<1>7. ASSUME NEW x \in inserts, OnInsertComplete(x) PROVE \E j \in DOMAIN deferred : deferred[j] = deferred'[i]
  BY <1>1, <1>3, <1>4, <1>7
<1>8. ASSUME NEW x \in selects, OnHistoryComplete(x)
      PROVE  \/ \E j \in DOMAIN deferred : deferred[j] = deferred'[i]
             \/ x.read /\ x.session = deferred'[i].session /\ x.page = deferred'[i].page
  BY <1>3, <1>5, <1>8
<1> QED BY <1>1, <1>2, <1>6, <1>7, <1>8

LEMMA DownFrom ==
    ASSUME ChatTypeOK, OwnInv, [Next]_vars, NEW c \in Clients,
           NEW i \in DOMAIN down'[c], down'[c][i].kind = "history"
    PROVE  \/ \E j \in DOMAIN down[c] : down[c][j] = down'[c][i]
           \/ \E j \in DOMAIN deferred :
                 deferred[j] = down'[c][i] /\ deferred[j].session = session[c]
<1>1. /\ down[c] \in Seq(Envelopes({session[c]})) /\ DOMAIN down[c] = 1 .. Len(down[c])
      /\ Len(down[c]) \in Nat /\ GuiOK
  BY DEF ChatTypeOK, GuiOK
<1>2. CASE Stays(c) \/ Ends(c) \/ Echoes(c)
  BY <1>2 DEF Stays, Ends, Echoes
<1>3. CASE Shows(c)
  <2>1. down[c] # << >> /\ down'[c] = Tail(down[c])
    BY <1>3 DEF Shows
  <2>2. Tail(down[c]) \in Seq(Envelopes({session[c]})) /\ Len(Tail(down[c])) = Len(down[c]) - 1
    BY <1>1, <2>1, HeadIs
  <2>3. i \in 1 .. Len(down[c]) - 1 /\ i + 1 \in DOMAIN down[c]
    BY <1>1, <2>1, <2>2
  <2>4. down'[c][i] = down[c][i + 1]
    BY <1>1, <2>1, <2>3, HeadIs
  <2> QED BY <2>3, <2>4
<1>4. CASE Gets(c)
  <2>1. PICK e \in Envelopes({session[c]}) :
           /\ down'[c] = Append(down[c], e)
           /\ e.kind # "event" => 1 \in DOMAIN deferred /\ e = deferred[1]
    BY <1>4 DEF Gets
  <2>2. /\ DOMAIN down'[c] = 1 .. Len(down[c]) + 1 /\ down'[c][Len(down[c]) + 1] = e
        /\ \A j \in DOMAIN down[c] : down'[c][j] = down[c][j]
    BY <1>1, <2>1, AppendProperties
  <2>3. CASE i \in DOMAIN down[c]
    BY <2>2, <2>3
  <2>4. CASE i = Len(down[c]) + 1
    <3>1. e.kind = "history" /\ e.session = session[c]
      BY <2>2, <2>4 DEF Envelopes, Events, Histories, Errors
    <3> QED BY <2>1, <2>2, <2>4, <3>1
  <2> QED BY <1>1, <2>2, <2>3, <2>4
<1> QED BY <1>2, <1>3, <1>4, StepAt

\* A page that is on its way was before, or has just been read.
LEMMA PagesFrom ==
    ASSUME ChatTypeOK, OwnInv, [Next]_vars, NEW c \in Clients, session'[c] = session[c],
           NEW p \in PagesFor(c)'
    PROVE  p \in PagesFor(c) \/ (p = Page /\ \E x \in selects : x.session = session[c])
<1> DEFINE s == session[c]
           Q(S, D, q) == OnTheWay(s, S, D, q)
           Pages == Q(selects, deferred, down[c])
<1>1. p \in Q(selects', deferred', down'[c])
  BY DEF PagesFor
<1> SUFFICES p \in Pages \/ (p = Page /\ \E x \in selects : x.session = s)
  BY DEF PagesFor
<1>2. /\ StoreOK /\ GuiOK /\ deferred \in Seq(Deferreds) /\ DOMAIN deferred = 1 .. Len(deferred)
      /\ Len(deferred) \in Nat
      /\ down[c] \in Seq(Envelopes({s})) /\ DOMAIN down[c] = 1 .. Len(down[c]) /\ Len(down[c]) \in Nat
  BY DEF ChatTypeOK, StoreOK, GuiOK
<1> HIDE DEF s
<1>3. \/ \E x \in selects' : x.read /\ x.session = s /\ x.page = p
      \/ \E i \in DOMAIN deferred' : deferred'[i].kind = "history" /\ deferred'[i].session = s /\ deferred'[i].page = p
      \/ \E i \in DOMAIN down'[c] : down'[c][i].kind = "history" /\ down'[c][i].page = p
  BY <1>1 DEF OnTheWay
<1>4. /\ \A x \in selects : x.read /\ x.session = s => x.page \in Pages
      /\ \A i \in DOMAIN deferred : deferred[i].kind = "history" /\ deferred[i].session = s => deferred[i].page \in Pages
      /\ \A i \in DOMAIN down[c] : down[c][i].kind = "history" => down[c][i].page \in Pages
  BY DEF OnTheWay
<1> HIDE DEF Pages
<1>5. CASE \E x \in selects' : x.read /\ x.session = s /\ x.page = p
  BY <1>4, <1>5, SelectsFrom
<1>6. CASE \E i \in DOMAIN deferred' :
              deferred'[i].kind = "history" /\ deferred'[i].session = s /\ deferred'[i].page = p
  <2>1. PICK i \in DOMAIN deferred' :
           deferred'[i].kind = "history" /\ deferred'[i].session = s /\ deferred'[i].page = p
    BY <1>6
  <2>2. \/ \E j \in DOMAIN deferred : deferred[j] = deferred'[i]
        \/ \E x \in selects : x.read /\ x.session = s /\ x.page = p
    BY <2>1, DeferredFrom
  <2> QED BY <1>4, <2>1, <2>2
<1>7. CASE \E i \in DOMAIN down'[c] : down'[c][i].kind = "history" /\ down'[c][i].page = p
  <2>1. PICK i \in DOMAIN down'[c] : down'[c][i].kind = "history" /\ down'[c][i].page = p
    BY <1>7
  <2>2. \/ \E j \in DOMAIN down[c] : down[c][j] = down'[c][i]
        \/ \E j \in DOMAIN deferred : deferred[j] = down'[c][i] /\ deferred[j].session = s
    BY <2>1, DownFrom DEF s
  <2> QED BY <1>4, <2>1, <2>2
<1> QED BY <1>3, <1>5, <1>6, <1>7

\* A client's session goes on, ends, or begins.
LEMMA SessionStep ==
    ASSUME [Next]_vars, NEW c \in Clients
    PROVE  \/ session'[c] = session[c] /\ (c \in subscribed' <=> c \in subscribed)
           \/ session'[c] = 0 /\ c \notin subscribed'
           \/ Hello(c)
<1>1. CASE UNCHANGED <<session, subscribed>>
  BY <1>1
<1>2. ASSUME NEW S, Gone(S)
      PROVE  \/ session'[c] = session[c] /\ (c \in subscribed' <=> c \in subscribed)
             \/ session'[c] = 0 /\ c \notin subscribed'
  BY <1>2 DEF Gone
<1>3. ASSUME NEW d \in Clients, Hello(d), d # c
      PROVE  session'[c] = session[c] /\ (c \in subscribed' <=> c \in subscribed)
  BY <1>3 DEF Hello
<1>4. \/ UNCHANGED <<session, subscribed>>
      \/ \E d \in Clients : Hello(d) \/ Close(d)
      \/ Restart
  <2>1. ASSUME NEW d, SendChat(d) \/ OpenChannel(d) \/ Read(d) PROVE UNCHANGED <<session, subscribed>>
    BY <2>1 DEF SendChat, OpenChannel, Read
  <2>2. ASSUME NEW x, Store(x) \/ OnInsertComplete(x) \/ Select(x) \/ OnHistoryComplete(x)
        PROVE  UNCHANGED <<session, subscribed>>
    BY <2>2 DEF Store, OnInsertComplete, Select, OnHistoryComplete
  <2>3. RunDeferred \/ Publish \/ UNCHANGED vars => UNCHANGED <<session, subscribed>>
    BY DEF RunDeferred, Publish, vars
  <2> QED BY <2>1, <2>2, <2>3 DEF Next
<1> QED BY <1>1, <1>2, <1>3, <1>4 DEF Close, Restart

\* Without a session, or with a new one, there is nothing that was asked for.
LEMMA NothingAsked ==
    ASSUME ChatTypeOK, [Next]_vars, NEW c \in Clients, session'[c] = 0 \/ Hello(c)
    PROVE  PagesFor(c)' = {} /\ \A x \in selects' : x.session # session'[c]
<1>1. ChatTypeOK'
  BY TypesNext
<1>2. /\ down'[c] = << >>
      /\ \A x \in selects' : x.session # session'[c]
      /\ \A i \in DOMAIN deferred' : deferred'[i].session # session'[c]
  <2>1. CASE session'[c] = 0
    <3>1. down'[c] = << >>
      BY <1>1, <2>1 DEF ChatTypeOK, GuiOK
    <3>2. (\A x \in selects : x.session \in Ids)'
      BY <1>1 DEF ChatTypeOK, StoreOK, HistoryCtxs
    <3>3. (\A i \in DOMAIN deferred : deferred[i] \in Deferreds)'
      BY <1>1 DEF ChatTypeOK, StoreOK
    <3>4. (\A i \in DOMAIN deferred : deferred[i].session \in Ids)'
      BY <3>3 DEF Deferreds, InsertDone, Histories, Errors
    <3>5. 0 \notin Ids'
      BY DEF Ids
    <3> QED BY <2>1, <3>1, <3>2, <3>4, <3>5
  <2>2. CASE Hello(c)
    <3>1. session[c] = 0 /\ UNCHANGED <<down, selects, deferred>> /\ session'[c] = used.sessions + 1
      BY <2>2 DEF Hello, dbVars, ChatTypeOK, SessionsOK
    <3>2. down'[c] = << >>
      BY <3>1 DEF ChatTypeOK, GuiOK
    <3>3. \A x \in selects : x.session \in Ids
      BY DEF ChatTypeOK, StoreOK, HistoryCtxs
    <3>4. \A i \in DOMAIN deferred : deferred[i] \in Deferreds
      BY DEF ChatTypeOK, StoreOK
    <3>5. \A i \in DOMAIN deferred : deferred[i].session \in Ids
      BY <3>4 DEF Deferreds, InsertDone, Histories, Errors
    <3>6. used.sessions + 1 \notin Ids
      BY DEF Ids, ChatTypeOK, UsedOK
    <3> QED BY <3>1, <3>2, <3>3, <3>5, <3>6
  <2> QED BY <2>1, <2>2
<1>3. OnTheWay(session'[c], selects', deferred', down'[c]) = {}
  BY <1>2 DEF OnTheWay
<1> QED BY <1>2, <1>3 DEF PagesFor

\* A GUI that has a page now and had none before has just read it.
LEMMA JustLoaded ==
    ASSUME ChatTypeOK, [Next]_vars, NEW c \in loaded' \ loaded
    PROVE  /\ c \in Clients /\ down[c] # << >> /\ Head(down[c]).kind = "history"
           /\ Head(down[c]).page \in Seq(rows) /\ Head(down[c]).page \in PagesFor(c)
           /\ Prepended(pane[c], Head(down[c]).page, pane'[c])
           /\ UNCHANGED <<offset, topic, subscribed>>
<1>1. PICK d \in Clients : Read(d)
  <2>1. ASSUME NEW S, Gone(S) PROVE FALSE
    BY <2>1 DEF Gone
  <2>2. ASSUME NEW d, SendChat(d) \/ OpenChannel(d) \/ Hello(d) PROVE UNCHANGED loaded
    BY <2>2 DEF SendChat, OpenChannel, Hello
  <2>3. ASSUME NEW x, Store(x) \/ OnInsertComplete(x) \/ Select(x) \/ OnHistoryComplete(x)
        PROVE  UNCHANGED loaded
    BY <2>3 DEF Store, OnInsertComplete, Select, OnHistoryComplete, guiVars
  <2>4. RunDeferred \/ Publish \/ UNCHANGED vars => UNCHANGED loaded
    BY DEF RunDeferred, Publish, vars, guiVars
  <2> QED BY <2>1, <2>2, <2>3, <2>4 DEF Next, Close, Restart
<1> DEFINE e == Head(down[d])
<1>2. e.kind = "history" /\ ReadHistory(d, e.page) /\ d = c
  BY <1>1 DEF Read, ReadEvent, ReadHistory
<1>3. GuiOK /\ down[d] # << >> /\ UNCHANGED <<offset, topic, subscribed>>
  BY <1>1 DEF ChatTypeOK, Read, kafkaVars
<1>4. e \in Envelopes({session[d]}) /\ e = down[d][1] /\ 1 \in DOMAIN down[d]
  <2>1. e \in Envelopes({session[d]}) /\ e = down[d][1] /\ Len(down[d]) \in Nat \ {0} /\ down[d] \in Seq(Envelopes({session[d]}))
    BY <1>3, HeadIs
  <2> QED BY <2>1
<1>5. e.page \in Seq(rows)
  BY <1>2, <1>4 DEF Envelopes, Events, Histories, Errors
<1>6. Prepended(pane[d], e.page, pane'[d])
  <2> HIDE DEF e
  <2> QED BY <1>2, <1>3, <1>5, HistoryIs DEF Prepended
<1>7. e.page \in PagesFor(d)
  BY <1>2, <1>4 DEF PagesFor, OnTheWay
<1> QED BY <1>2, <1>3, <1>5, <1>6, <1>7

LEMMA AskedNext ==
    ASSUME ChatTypeOK, OwnInv, AskedInv, [Next]_vars
    PROVE  AskedInv'
<1>1. ASSUME NEW c \in loaded' PROVE c \in subscribed'
  <2>1. c \in subscribed
    BY <1>1, JustLoaded DEF AskedInv
  <2>2. c \in Clients
    BY <2>1 DEF ChatTypeOK, SessionsOK
  <2>3. session'[c] # 0
    <3>1. ChatTypeOK'
      BY TypesNext
    <3> QED BY <1>1, <3>1 DEF ChatTypeOK, SessionsOK
  <2>4. ~Hello(c)
    BY <2>1 DEF Hello, ChatTypeOK, SessionsOK
  <2> QED BY <2>1, <2>2, <2>3, <2>4, SessionStep
<1>2. ASSUME NEW c \in Clients, NEW x \in selects', x.session = session'[c] PROVE c \in subscribed'
  <2>1. session'[c] # 0 /\ ~Hello(c)
    BY <1>2, NothingAsked
  <2>2. session'[c] = session[c] /\ (c \in subscribed' <=> c \in subscribed)
    BY <2>1, SessionStep
  <2>3. \/ \E y \in selects : y.session = x.session
        \/ \E d \in Clients : OpenChannel(d) /\ x.session = session[d]
    BY SelectsAsk
  <2>4. CASE \E d \in Clients : OpenChannel(d) /\ x.session = session[d]
    BY <1>2, <2>1, <2>2, <2>4 DEF OpenChannel, ChatTypeOK, SessionsOK
  <2> QED BY <1>2, <2>2, <2>3, <2>4 DEF AskedInv
<1>3. ASSUME NEW c \in Clients, PagesFor(c)' # {} PROVE c \in subscribed'
  <2>1. session'[c] # 0 /\ ~Hello(c)
    BY <1>3, NothingAsked
  <2>2. session'[c] = session[c] /\ (c \in subscribed' <=> c \in subscribed)
    BY <2>1, SessionStep
  <2>3. PICK p \in PagesFor(c)' : TRUE
    BY <1>3
  <2>4. p \in PagesFor(c) \/ \E x \in selects : x.session = session[c]
    BY <2>2, PagesFrom
  <2> QED BY <2>2, <2>4 DEF AskedInv
<1> QED BY <1>1, <1>2, <1>3 DEF AskedInv

-----------------------------------------------------------------------------

\* What the consumer takes is queued for every subscriber but its sender.
LEMMA TakenCovered ==
    ASSUME ChatTypeOK, [Next]_vars, NEW c \in subscribed', NEW i \in 1 .. offset', i > offset
    PROVE  c \in Clients /\ \A m : m = topic'[i] => Covered(c, m)'
<1>1. Publish
  <2>1. ASSUME NEW d, SendChat(d) \/ OpenChannel(d) \/ Read(d) \/ Hello(d) \/ Close(d) PROVE UNCHANGED offset
    BY <2>1 DEF SendChat, OpenChannel, Read, Hello, Close, kafkaVars
  <2>2. ASSUME NEW x, Store(x) \/ OnInsertComplete(x) \/ Select(x) \/ OnHistoryComplete(x) PROVE UNCHANGED offset
    BY <2>2 DEF Store, OnInsertComplete, Select, OnHistoryComplete, kafkaVars
  <2>3. RunDeferred \/ UNCHANGED vars => UNCHANGED offset
    BY DEF RunDeferred, vars, kafkaVars
  <2>4. Restart => subscribed' = subscribed \ Clients
    BY DEF Restart, Gone
  <2>5. c \in Clients
    <3>1. ChatTypeOK'
      BY TypesNext
    <3> QED BY <3>1 DEF ChatTypeOK, SessionsOK
  <2> QED BY <2>1, <2>2, <2>3, <2>4, <2>5, TopicGrows DEF Next
<1> DEFINE m == topic[offset + 1]
           S == {d \in subscribed : Heeds(d, m)}
           e == [kind |-> "event", msg |-> m]
<1>2. /\ offset' = offset + 1 /\ topic' = topic /\ subscribed' = subscribed /\ pane' = pane
      /\ SendTo(S, e) /\ offset \in Nat
  BY <1>1, TopicGrows DEF Publish, guiVars
<1>3. c \in Clients /\ down[c] \in Seq(Envelopes({session[c]})) /\ topic'[i] = m
  <2>1. i = offset + 1
    BY <1>2
  <2> QED BY <1>2, <2>1 DEF ChatTypeOK, SessionsOK, GuiOK
<1>4. CASE Sender(m) = UserOf[c]
  BY <1>3, <1>4 DEF Covered, Sender
<1>5. CASE Sender(m) # UserOf[c]
  <2>1. c \in S
    BY <1>2, <1>5 DEF Heeds
  <2>2. e \in Envelopes({session[c]}) /\ e.kind = "event" /\ e.msg = m
    <3>1. offset + 1 \in 1 .. Len(topic) /\ topic \in Seq(rows)
      BY <1>1 DEF Publish, ChatTypeOK, StoreOK
    <3>2. m \in rows
      BY <3>1, ElementOfSeq
    <3> QED BY <3>2 DEF Envelopes, Events
  <2> HIDE DEF S, e
  <2>3. down'[c] = Append(down[c], e)
    BY <1>2, <1>3, <2>1 DEF SendTo
  <2>4. Len(down[c]) + 1 \in DOMAIN down'[c] /\ down'[c][Len(down[c]) + 1] = e
    BY <1>3, <2>2, <2>3, AppendProperties
  <2>5. Held(pane'[c], down'[c], m)
    BY <2>2, <2>4 DEF Held
  <2> QED BY <1>3, <2>5 DEF Covered, Held
<1> QED BY <1>3, <1>4, <1>5

\* What was covered stays so, what the consumer takes now is, and of what a
\* new page lacks there is a full page that is newer.
LEMMA PageNext ==
    ASSUME ChatTypeOK, OwnInv, UuidInv, AskedInv, PageInv, [Next]_vars
    PROVE  PageInv'
<1> SUFFICES ASSUME NEW c \in subscribed', NEW p \in PagesFor(c)', NEW i \in 1 .. offset', NEW m,
                    m = topic'[i]
             PROVE  Covered(c, m)' \/ \E k \in DOMAIN p : p[k] = m
  BY DEF PageInv
<1>1. c \in Clients /\ ~Ends(c)
  <2>1. ChatTypeOK'
    BY TypesNext
  <2> QED BY <2>1 DEF Ends, ChatTypeOK, SessionsOK
<1>2. session'[c] = session[c] /\ c \in subscribed
  <2>1. session'[c] # 0 /\ ~Hello(c)
    BY <1>1, NothingAsked
  <2> QED BY <1>1, <2>1, SessionStep
<1>3. CASE i > offset
  BY <1>3, TakenCovered
<1>4. CASE i \in 1 .. offset
  <2>1. topic[i] = m /\ m \in rows
    BY <1>4, TopicGrows, ElementOfSeq DEF ChatTypeOK, StoreOK
  <2>2. Covered(c, m) => Covered(c, m)'
    BY <1>1, CoveredStays
  <2>3. CASE p \in PagesFor(c)
    <3>1. Covered(c, m) \/ \E k \in DOMAIN p : p[k] = m
      BY <1>2, <1>4, <2>1, <2>3 DEF PageInv
    <3> QED BY <2>2, <3>1
  <2>4. CASE p = Page
    <3>1. Covered(c, m) \/ \E k \in DOMAIN p : p[k] = m
      BY <2>1, <2>4, PageHas DEF Covered, ChatTypeOK
    <3> QED BY <2>2, <3>1
  <2> QED BY <1>1, <1>2, <2>3, <2>4, PagesFrom
<1> QED BY <1>3, <1>4, TopicGrows

LEMMA GapNext ==
    ASSUME ChatTypeOK, OwnInv, UuidInv, AskedInv, PageInv, NoGap, [Next]_vars
    PROVE  NoGap'
<1>1. ChatTypeOK' /\ AskedInv'
  BY TypesNext, AskedNext
<1>2. ASSUME NEW c \in loaded', NEW i \in 1 .. offset', NEW m, m = topic'[i]
      PROVE  Covered(c, m)'
  <2>1. c \in subscribed' /\ c \in Clients /\ ~Ends(c)
    BY <1>1, <1>2 DEF AskedInv, ChatTypeOK, SessionsOK, Ends
  <2>2. CASE i > offset
    BY <1>2, <2>1, <2>2, TakenCovered
  <2>3. CASE i \in 1 .. offset /\ c \in loaded
    <3>1. topic[i] = m
      BY <1>2, <2>3, TopicGrows
    <3>2. Covered(c, m)
      BY <2>3, <3>1 DEF NoGap, Covered, Held, MsgsOn
    <3> QED BY <2>1, <3>2, CoveredStays
  <2>4. CASE i \in 1 .. offset /\ c \notin loaded
    <3> DEFINE page == Head(down[c]).page
    <3>1. /\ page \in Seq(rows) /\ page \in PagesFor(c) /\ Prepended(pane[c], page, pane'[c])
          /\ UNCHANGED <<offset, topic, subscribed>>
      BY <1>2, <2>4, JustLoaded
    <3>2. Covered(c, m) \/ \E k \in DOMAIN page : page[k] = m
      BY <1>2, <2>1, <2>4, <3>1 DEF PageInv
    <3>3. CASE Covered(c, m)
      BY <2>1, <3>3, CoveredStays
    <3>4. ASSUME NEW k \in DOMAIN page, page[k] = m PROVE Covered(c, m)'
      <4>1. Len(pane'[c]) \in Nat /\ DOMAIN pane'[c] = 1 .. Len(pane'[c])
        <5>1. pane'[c] \in Seq(Lines)'
          BY <1>1, <2>1 DEF ChatTypeOK, GuiOK
        <5> QED BY <5>1
      <4> HIDE DEF page
      <4>2. Held(pane'[c], down'[c], page[k])
        BY <2>1, <3>1, <3>4, <4>1, PageShown
      <4> QED BY <3>4, <4>2 DEF Covered, Held
    <3> QED BY <3>2, <3>3, <3>4
  <2> QED BY <2>2, <2>3, <2>4, TopicGrows
<1>3. ASSUME NEW c \in loaded', NEW i \in 1 .. offset', NEW m, m = topic'[i], Covered(c, m)'
      PROVE  \/ Sender(m) = UserOf[c]
             \/ m \in MsgsOn(c)'
             \/ \E k \in DOMAIN down'[c] : down'[c][k].kind = "event" /\ down'[c][k].msg = m
             \/ (Cardinality(Newer(m)) >= Limit)'
             \/ Len(pane'[c]) = Cap
  BY <1>3 DEF Covered, Held, MsgsOn, Sender
<1> QED BY <1>2, <1>3 DEF NoGap, Sender

\* The whole invariant.
LEMMA ChatNext == ASSUME ChatInv, [Next]_vars PROVE ChatInv'
BY TypesNext, OwnNext, OrderNext, UuidNext, AskedNext, PageNext, GapNext DEF ChatInv

\* No gap between history and live delivery: once a GUI has a page, every
\* message the consumer has taken is on its pane or on its way, is the user's
\* own, or gave way to a full page of newer rows or to the pane's cap.
THEOREM NoGapAlways == Spec => []NoGap
<1>1. ChatInv /\ [Next]_vars => ChatInv'
  BY ChatNext
<1>2. ChatInv => NoGap
  BY DEF ChatInv
<1> QED BY <1>1, <1>2, ChatStarts, PTL DEF Spec
=============================================================================
