------------------------------- MODULE Friends --------------------------------
(***************************************************************************)
(* Friend requests: the dialogs of the GUI, the gateway's handlers and the *)
(* rows they write one statement at a time, and the notifications by which *)
(* two GUIs keep their lists in step with the store.                       *)
(*                                                                         *)
(* A handler runs to its end on the loop thread, waiting for each query.   *)
(* Any write may fail; one that reports a failure may have taken effect    *)
(* all the same.  As in Chat a request is handled when it is made, and a   *)
(* GUI that lost its connection is over.  The one exception is the         *)
(* FetchFriends sent right behind an accept: others may come in between.   *)
(*                                                                         *)
(* The GUI's lists may name a user twice, since events are appended; they  *)
(* are sets here, as every removal takes all entries of a user.            *)
(***************************************************************************)
EXTENDS Naturals, Sequences

CONSTANTS Users,        \* user ids, one running application each
          None,         \* no lookup result
          MaxSearches,  \* user -> bound on the searches it makes
          MaxSessions,  \* bound on the sessions opened
          MaxFaults     \* bound on the queries that fail

ASSUME FriendsAssumption ==
    /\ None \notin Users
    /\ MaxSearches \in [Users -> Nat] /\ MaxSessions \in Nat /\ MaxFaults \in Nat

VARIABLES
    rows,        \* the rows in the store, tagged with their table
    online,      \* users whose application has a session
    topics,      \* user -> DM channels its socket is subscribed to
    down,        \* user -> envelopes on their way to its GUI
    refresh,     \* users whose FetchFriends has not reached the gateway
    friends,     \* user -> friends_ of its GUI, as user ids
    pending,     \* user -> pending of its GUI
    searched,    \* user -> whom the open dialog has searched for, or None
    last_lookup, \* user -> the match the dialog shows, or None
    known,       \* users whose GUI has read a friend list in this session
    stale,       \* users whose lists a failed query has left behind
    deaf,        \* users whose subscriptions a failed query has left behind
    used         \* what the bounds count: searches, sessions, faults

gateVars == <<online, topics, refresh>>
listVars == <<friends, pending, known>>
dialogVars == <<searched, last_lookup>>
vars == <<rows, gateVars, down, listVars, dialogVars, stale, deaf, used>>

\* dm_channel_id_for: the same for both sides.
Dm(u, f) == {u, f}

Request(to, from) == <<"friend_requests", to, from>>
Friendship(u, f) == <<"friendships", u, f>>
Channel(u, f) == <<"channels", Dm(u, f)>>
Membership(u, f) == {<<"channel_members", Dm(u, f), u>>, <<"user_channels", u, Dm(u, f)>>}

FriendsOf(u) == {f \in Users : Friendship(u, f) \in rows}
RequestsTo(u) == {f \in Users : Request(u, f) \in rows}
ChannelsOf(u) == {d \in {Dm(u, f) : f \in Users} : <<"user_channels", u, d>> \in rows}

Init ==
    /\ rows = {} /\ online = {} /\ refresh = {} /\ known = {} /\ stale = {} /\ deaf = {}
    /\ topics = [u \in Users |-> {}] /\ down = [u \in Users |-> <<>>]
    /\ friends = [u \in Users |-> {}] /\ pending = [u \in Users |-> {}]
    /\ searched = [u \in Users |-> None] /\ last_lookup = [u \in Users |-> None]
    /\ used = [searches |-> [u \in Users |-> 0], sessions |-> 0, faults |-> 0]

MayFail == used.faults < MaxFaults
Fault == used' = [used EXCEPT !.faults = @ + 1]

\* Sent to a user who has no session, an envelope is dropped.
Push(u, e) == IF u \in online THEN [down EXCEPT ![u] = Append(@, e)] ELSE down
-----------------------------------------------------------------------------
(* Sessions *)

\* on_hello: a subscription for each row of user_channels, none if the query
\* fails.  The GUI asks for its friend list a moment later (bootstrap_thread).
Hello(u) ==
    /\ u \notin online
    /\ used.sessions < MaxSessions
    /\ online' = online \cup {u}
    /\ refresh' = refresh \cup {u}
    /\ \/ /\ topics' = [topics EXCEPT ![u] = ChannelsOf(u)]
          /\ deaf' = deaf \ {u}
          /\ used' = [used EXCEPT !.sessions = @ + 1]
       \/ /\ MayFail
          /\ deaf' = deaf \cup {u}
          /\ used' = [used EXCEPT !.sessions = @ + 1, !.faults = @ + 1]
          /\ UNCHANGED topics
    /\ UNCHANGED <<rows, down, listVars, dialogVars, stale>>

Close(u) ==
    /\ u \in online
    /\ online' = online \ {u} /\ refresh' = refresh \ {u} /\ known' = known \ {u}
    /\ topics' = [topics EXCEPT ![u] = {}] /\ down' = [down EXCEPT ![u] = <<>>]
    /\ friends' = [friends EXCEPT ![u] = {}] /\ pending' = [pending EXCEPT ![u] = {}]
    /\ searched' = [searched EXCEPT ![u] = None] /\ last_lookup' = [last_lookup EXCEPT ![u] = None]
    /\ UNCHANGED <<rows, stale, deaf, used>>

\* on_fetch_friends: two queries, each of which counts as empty when it fails.
OnFetchFriends(u) ==
    /\ u \in refresh
    /\ refresh' = refresh \ {u}
    /\ \E f \in {FriendsOf(u), {}}, p \in {RequestsTo(u), {}} :
          /\ down' = Push(u, [kind |-> "list", friends |-> f, incoming |-> p])
          /\ IF <<f, p>> = <<FriendsOf(u), RequestsTo(u)>> THEN stale' = stale \ {u} /\ UNCHANGED used
             ELSE MayFail /\ Fault /\ stale' = stale \cup {u}
    /\ UNCHANGED <<rows, online, topics, listVars, dialogVars, deaf>>
-----------------------------------------------------------------------------
(* The "Add Friend" dialog *)

\* The dialog is opened, again or for the first time: the last match goes.
OpenDialog(u) ==
    /\ u \in online
    /\ <<searched[u], last_lookup[u]>> # <<None, None>>
    /\ searched' = [searched EXCEPT ![u] = None]
    /\ last_lookup' = [last_lookup EXCEPT ![u] = None]
    /\ UNCHANGED <<rows, gateVars, down, listVars, stale, deaf, used>>

\* Search, and on_lookup_user: the answer names the match.
Search(u, t) ==
    /\ u \in online
    /\ used.searches[u] < MaxSearches[u]
    /\ searched' = [searched EXCEPT ![u] = t]
    /\ last_lookup' = [last_lookup EXCEPT ![u] = None]
    /\ down' = Push(u, [kind |-> "match", user |-> t])
    /\ used' = [used EXCEPT !.searches[u] = @ + 1]
    /\ UNCHANGED <<rows, gateVars, listVars, stale, deaf>>

\* on_send_friend_request: the row, then the live notification.
OnSendRequest(u, t) ==
    \/ t = u /\ UNCHANGED <<rows, down, used>>
    \/ /\ t # u
       /\ rows' = rows \cup {Request(t, u)}
       /\ down' = Push(t, [kind |-> "request", user |-> u])
       /\ UNCHANGED used
    \/ /\ t # u /\ MayFail /\ Fault
       /\ rows' \in {rows, rows \cup {Request(t, u)}}
       /\ UNCHANGED down

\* "Send Friend Request": the dialog closes.
SendRequest(u) ==
    /\ last_lookup[u] # None
    /\ OnSendRequest(u, last_lookup[u])
    /\ stale' = IF used' = used THEN stale ELSE stale \cup {last_lookup[u]}
    /\ searched' = [searched EXCEPT ![u] = None]
    /\ last_lookup' = [last_lookup EXCEPT ![u] = None]
    /\ UNCHANGED <<gateVars, listVars, deaf>>
-----------------------------------------------------------------------------
(* The "Friend Requests" dialog *)

\* Wrong variant: the friendship is written before the channel it names.
StagesFriendshipFirst(u, f) ==
    << {Friendship(u, f), Friendship(f, u)}, {Channel(u, f)}, Membership(u, f), Membership(f, u) >>

\* The writes of on_accept_friend_request, in order: ensure_channel,
\* add_user_to_channel for each side, insert_friendship_pair.  The two writes
\* of one function are both made, whatever becomes of the first.
Stages(u, f) ==
    << {Channel(u, f)}, Membership(u, f), Membership(f, u), {Friendship(u, f), Friendship(f, u)} >>

StagesUpTo(u, f, k) == UNION {Stages(u, f)[i] : i \in 1 .. k}

\* Wrong variant: a write that fails loses the request with it.
AcceptFailsDropping(u, f) ==
    /\ MayFail /\ Fault
    /\ \E k \in DOMAIN Stages(u, f) : \E part \in SUBSET Stages(u, f)[k] :
          rows' = (rows \cup StagesUpTo(u, f, k - 1) \cup part) \ {Request(u, f)}
    /\ stale' = stale \cup {u, f} /\ deaf' = deaf \cup {u, f}
    /\ UNCHANGED <<topics, down>>

\* A write of stage k fails: those of earlier stages are done, those of later
\* ones never tried; the gateway answers with an error the GUI ignores.
AcceptFails(u, f) ==
    /\ MayFail /\ Fault
    /\ \E k \in DOMAIN Stages(u, f) : \E part \in SUBSET Stages(u, f)[k] :
          rows' = rows \cup StagesUpTo(u, f, k - 1) \cup part
    /\ stale' = stale \cup {u, f} /\ deaf' = deaf \cup {u, f}
    /\ UNCHANGED <<topics, down>>

\* Wrong variant: only the acceptor's socket follows the new channel.
NotifyAcceptedUnsubscribed(u, f) ==
    /\ topics' = [topics EXCEPT ![u] = @ \cup {Dm(u, f)}]
    /\ down' = Push(f, [kind |-> "accepted", user |-> u])

\* The requester, if online, is told and subscribed as the acceptor is.
NotifyAccepted(u, f) ==
    /\ topics' = [topics EXCEPT ![u] = @ \cup {Dm(u, f)},
                                ![f] = IF f \in online THEN @ \cup {Dm(u, f)} ELSE @]
    /\ down' = Push(f, [kind |-> "accepted", user |-> u])

\* All rows written, the request is deleted; whether that worked is not
\* looked at.
AcceptWorks(u, f) ==
    /\ NotifyAccepted(u, f)
    /\ \/ /\ rows' = (rows \cup StagesUpTo(u, f, 4)) \ {Request(u, f)}
          /\ UNCHANGED used
       \/ /\ MayFail /\ Fault
          /\ rows' = rows \cup StagesUpTo(u, f, 4)
    /\ UNCHANGED <<stale, deaf>>

OnAcceptRequest(u, f) == AcceptFails(u, f) \/ AcceptWorks(u, f)

Erased(u, f) == pending' = [pending EXCEPT ![u] = @ \ {f}]

\* Wrong variant: the acceptor waits for an event that is only sent to the
\* requester.
AcceptNoRefresh(u, f) ==
    /\ f \in pending[u]
    /\ OnAcceptRequest(u, f)
    /\ Erased(u, f)
    /\ UNCHANGED <<online, refresh, friends, known, dialogVars>>

\* Accept: the request, a FetchFriends behind it, and the entry goes at once.
Accept(u, f) ==
    /\ f \in pending[u]
    /\ OnAcceptRequest(u, f)
    /\ refresh' = refresh \cup {u}
    /\ Erased(u, f)
    /\ UNCHANGED <<online, friends, known, dialogVars>>

\* Reject, and on_reject_friend_request, which does not look at the result.
Reject(u, f) ==
    /\ f \in pending[u]
    /\ \/ rows' = rows \ {Request(u, f)} /\ UNCHANGED <<used, stale>>
       \/ MayFail /\ Fault /\ stale' = stale \cup {u} /\ UNCHANGED rows
    /\ Erased(u, f)
    /\ UNCHANGED <<gateVars, down, friends, known, dialogVars, deaf>>
-----------------------------------------------------------------------------
(* The GUI's reader thread *)

\* kFriendListResponse: both lists are replaced.
ReadList(u, e) ==
    /\ friends' = [friends EXCEPT ![u] = e.friends]
    /\ pending' = [pending EXCEPT ![u] = e.incoming]
    /\ known' = known \cup {u}
    /\ UNCHANGED last_lookup

\* kFriendRequestEvent and kFriendRequestAcceptedEvent.
ReadRequest(u, e) ==
    /\ pending' = [pending EXCEPT ![u] = @ \cup {e.user}]
    /\ UNCHANGED <<friends, known, last_lookup>>

ReadAccepted(u, e) ==
    /\ friends' = [friends EXCEPT ![u] = @ \cup {e.user}]
    /\ UNCHANGED <<pending, known, last_lookup>>

\* kLookupUserResponse: request_id is not compared.
ReadMatch(u, e) ==
    /\ last_lookup' = [last_lookup EXCEPT ![u] = e.user]
    /\ UNCHANGED listVars

Read(u) ==
    /\ down[u] # <<>>
    /\ down' = [down EXCEPT ![u] = Tail(@)]
    /\ LET e == Head(down[u]) IN
           \/ e.kind = "list" /\ ReadList(u, e)
           \/ e.kind = "request" /\ ReadRequest(u, e)
           \/ e.kind = "accepted" /\ ReadAccepted(u, e)
           \/ e.kind = "match" /\ ReadMatch(u, e)
    /\ UNCHANGED <<rows, gateVars, searched, stale, deaf, used>>

Next ==
    \E u \in Users :
        \/ Hello(u) \/ Close(u) \/ OnFetchFriends(u)
        \/ OpenDialog(u) \/ SendRequest(u) \/ Read(u)
        \/ \E t \in Users : Search(u, t) \/ Accept(u, t) \/ Reject(u, t)

Spec == Init /\ [][Next]_vars

\* The gateway's loop and the GUIs' reader threads keep running.
FairSpec == Spec /\ \A u \in Users : WF_vars(OnFetchFriends(u)) /\ WF_vars(Read(u))
-----------------------------------------------------------------------------
(* Properties *)

\* Wherever an accept fails, a friendship in the store has its DM channel, with
\* both friends in both membership tables: a friend list never offers a channel
\* that one of the two would not be subscribed to at the next login.
FriendshipHasChannel ==
    \A u, f \in Users : Friendship(u, f) \in rows =>
        {Channel(u, f)} \cup Membership(u, f) \cup Membership(f, u) \subseteq rows

\* An accept that fails can be repeated: the request goes only together with
\* the last row of the friendship, or by a rejection, which changes no other row.
RequestKept ==
    [][\A u, f \in Users : Request(u, f) \in rows \ rows' =>
          \/ {Friendship(u, f), Friendship(f, u)} \subseteq rows'
          \/ rows' = rows \ {Request(u, f)}]_vars

\* The GUIs' lists are those of the store once everything sent has been read:
\* through events for the requester, through the refetch for the acceptor, and
\* whatever crossed on the way.  Failed queries are excepted until the next
\* complete list.  A list read after a rejection it does not know of brings the
\* rejected request back, so pending may hold more than the store.
ListsMatchStore ==
    \A u \in known \ stale : down[u] = <<>> /\ u \notin refresh =>
        friends[u] = FriendsOf(u) /\ RequestsTo(u) \subseteq pending[u]

\* Who has a friend in the store hears the DM channel, whichever of the two was
\* online when the friendship was made.
FriendsHearDm ==
    \A u \in online \ deaf : \A f \in FriendsOf(u) : Dm(u, f) \in topics[u]

\* A friendship shows up in the GUI of each side that stays online.
FriendshipShown ==
    \A u \in Users : \A f \in Users \ {u} :
        Friendship(u, f) \in rows /\ u \in online \ stale
            ~> f \in friends[u] \/ u \notin online \/ u \in stale
==============================================================================
