--------------------------------- MODULE Chat ---------------------------------
(***************************************************************************)
(* Chat in one channel, from the sender's GUI to the panes of the others:  *)
(* SendMessage, the asynchronous INSERT and its continuation, the Kafka    *)
(* topic and the consumer thread that publishes to the subscribed sockets, *)
(* and the history fetch that races with all of it.                        *)
(*                                                                         *)
(* Three threads of the gateway take steps: the uWebSockets loop (handlers *)
(* and deferred continuations), the Scylla driver's I/O thread (completion *)
(* callbacks) and the Kafka consumer.  A client is its GUI together with   *)
(* the network child, which forwards envelopes in order both ways and does *)
(* not reconnect: a new session is a newly started application, and of a   *)
(* GUI that lost its connection, which keeps its pane and receives nothing *)
(* more, nothing is kept.                                                  *)
(***************************************************************************)
EXTENDS Naturals, Sequences, FiniteSets

CONSTANTS Clients,      \* running applications
          UserOf,       \* client -> the user it is signed in as
          MaxSends,     \* client -> bound on the messages its user types
          MaxSessions,  \* bound on the sessions opened, all clients together
          MaxFetches,   \* client -> bound on its history fetches
          Limit,        \* rows of a history page (50 in the GUI)
          Cap           \* chat_history_cap: lines a pane keeps (1000)

ASSUME ChatAssumption ==
    /\ MaxSends \in [Clients -> Nat] /\ MaxFetches \in [Clients -> Nat]
    /\ MaxSessions \in Nat
    /\ Limit \in Nat \ {0} /\ Cap \in Nat \ {0}

VARIABLES
    session,     \* client -> its session id, 0 while it has none
    subscribed,  \* clients whose socket is subscribed to the channel's topic
    down,        \* client -> envelopes on their way to its GUI
    uuids,       \* messages in the order of their TimeUUIDs
    rows,        \* messages stored in the messages table
    inserts,     \* InsertCtxs whose INSERT has not completed
    selects,     \* HistoryCtxs whose SELECT has not completed
    deferred,    \* continuations queued on the loop
    topic,       \* messages in the Kafka topic
    offset,      \* how many of them the consumer has taken
    listed,      \* clients whose GUI lists the channel
    open,        \* clients whose user has selected the channel
    loaded,      \* clients whose GUI has read a history page of this session
    pane,        \* client -> chat_history of the channel
    used         \* what the bounds count: sent, fetched, sessions

dbVars == <<uuids, rows, inserts, selects>>
kafkaVars == <<topic, offset>>
guiVars == <<listed, open, loaded, pane>>
vars == <<session, subscribed, down, dbVars, deferred, kafkaVars, guiVars, used>>

Sender(m) == UserOf[m[1]]
MsgsOn(c) == {pane[c][i].msg : i \in DOMAIN pane[c]}

Init ==
    /\ session = [c \in Clients |-> 0] /\ subscribed = {}
    /\ down = [c \in Clients |-> <<>>]
    /\ uuids = <<>> /\ rows = {} /\ inserts = {} /\ selects = {}
    /\ deferred = <<>> /\ topic = <<>> /\ offset = 0
    /\ listed = {} /\ open = {} /\ loaded = {}
    /\ pane = [c \in Clients |-> <<>>]
    /\ used = [sent |-> [c \in Clients |-> 0], fetched |-> [c \in Clients |-> 0],
               sessions |-> 0]
-----------------------------------------------------------------------------
(* Requests.  A request is handled when it is made: nothing but a socket's  *)
(* close comes between, and what that loses is as if never sent.            *)

\* on_send_message: the TimeUUID is drawn and the INSERT handed to the driver.
OnSendMessage(c, m) ==
    /\ uuids' = Append(uuids, m)
    /\ inserts' = inserts \cup {[session |-> session[c], msg |-> m]}

\* on_fetch_history: likewise for the SELECT.  n tells two fetches apart.
OnFetchHistory(c, n) ==
    selects' = selects \cup {[session |-> session[c], n |-> n, read |-> FALSE, page |-> <<>>]}
-----------------------------------------------------------------------------
(* The GUI *)

\* push_chat: at the cap the oldest line gives way.
PushChat(p, line) == Append(IF Len(p) >= Cap THEN Tail(p) ELSE p, line)

\* send_chat_now: the message leaves, and is shown at once.
SendChat(c) ==
    LET m == <<c, used.sent[c] + 1>> IN
    /\ c \in open
    /\ used.sent[c] < MaxSends[c]
    /\ OnSendMessage(c, m)
    /\ pane' = [pane EXCEPT ![c] = PushChat(@, [msg |-> m, via |-> "echo"])]
    /\ used' = [used EXCEPT !.sent[c] = @ + 1]
    /\ UNCHANGED <<session, subscribed, down, rows, selects, deferred, kafkaVars, listed, open, loaded>>

\* The user selects the channel, for the first time or back from another one:
\* last_history_channel differs, so one page is requested, without a cursor.
\* Being elsewhere in between changes nothing here: the pane keeps collecting.
OpenChannel(c) ==
    /\ c \in listed
    /\ used.fetched[c] < MaxFetches[c]
    /\ open' = open \cup {c}
    /\ OnFetchHistory(c, used.fetched[c] + 1)
    /\ used' = [used EXCEPT !.fetched[c] = @ + 1]
    /\ UNCHANGED <<session, subscribed, down, uuids, rows, inserts, deferred, kafkaVars, listed, loaded, pane>>

\* kChatMessageEvent.
ReadEvent(c, m) ==
    /\ pane' = [pane EXCEPT ![c] = PushChat(@, [msg |-> m, via |-> "live"])]
    /\ UNCHANGED loaded

\* kHistoryResponse: from the last row of the page to its first, each to the
\* front, as long as the pane is below its cap.  Rows come newest first, so
\* the page ends up with its newest row at the top.
ReadHistory(c, page) ==
    LET n == Len(page)
        room == IF Len(pane[c]) >= Cap THEN 0 ELSE Cap - Len(pane[c])
        k == IF n < room THEN n ELSE room
    IN /\ pane' = [pane EXCEPT ![c] =
                      [i \in 1 .. k |-> [msg |-> page[n - k + i], via |-> "history"]] \o @]
       /\ loaded' = loaded \cup {c}

\* One envelope at the GUI; an error is logged by the child and ignored.
Read(c) ==
    /\ down[c] # <<>>
    /\ down' = [down EXCEPT ![c] = Tail(@)]
    /\ LET e == Head(down[c]) IN
           \/ e.kind = "event" /\ ReadEvent(c, e.msg)
           \/ e.kind = "history" /\ ReadHistory(c, e.page)
           \/ e.kind = "error" /\ UNCHANGED <<pane, loaded>>
    /\ UNCHANGED <<session, subscribed, dbVars, deferred, kafkaVars, listed, open, used>>
-----------------------------------------------------------------------------
(* The gateway's loop thread: connections *)

\* Wrong variant: Ready lists the channel, the socket is not subscribed to it.
HelloListsOnly(c) ==
    /\ session[c] = 0 /\ used.sessions < MaxSessions
    /\ session' = [session EXCEPT ![c] = used.sessions + 1]
    /\ \E ok \in BOOLEAN : listed' = IF ok THEN listed \cup {c} ELSE listed
    /\ used' = [used EXCEPT !.sessions = @ + 1]
    /\ UNCHANGED <<subscribed, down, dbVars, deferred, kafkaVars, open, loaded, pane>>

\* A client starts and says Hello: it gets a fresh session, and for each row of
\* user_channels a subscription and an entry in Ready.  If that query fails
\* there are neither, and no error.
Hello(c) ==
    /\ session[c] = 0
    /\ used.sessions < MaxSessions
    /\ session' = [session EXCEPT ![c] = used.sessions + 1]
    /\ \E ok \in BOOLEAN :
          /\ subscribed' = IF ok THEN subscribed \cup {c} ELSE subscribed
          /\ listed' = IF ok THEN listed \cup {c} ELSE listed
    /\ used' = [used EXCEPT !.sessions = @ + 1]
    /\ UNCHANGED <<down, dbVars, deferred, kafkaVars, open, loaded, pane>>

\* The sockets of S close: the sessions leave the registry, uWebSockets drops
\* their subscriptions, and what the GUIs were showing is over.
Gone(S) ==
    /\ session' = [c \in Clients |-> IF c \in S THEN 0 ELSE session[c]]
    /\ subscribed' = subscribed \ S
    /\ down' = [c \in Clients |-> IF c \in S THEN <<>> ELSE down[c]]
    /\ listed' = listed \ S /\ open' = open \ S /\ loaded' = loaded \ S
    /\ pane' = [c \in Clients |-> IF c \in S THEN <<>> ELSE pane[c]]

\* .close
Close(c) ==
    /\ session[c] # 0
    /\ Gone({c})
    /\ UNCHANGED <<dbVars, deferred, kafkaVars, used>>
-----------------------------------------------------------------------------
(* Scylla, and the driver's I/O thread *)

\* The row is written; the completion is still on its way to the driver.
Store(x) ==
    /\ x.msg \notin rows
    /\ rows' = rows \cup {x.msg}
    /\ UNCHANGED <<session, subscribed, down, uuids, inserts, selects, deferred, kafkaVars, guiVars, used>>

\* Wrong variant: the continuation runs whatever became of the INSERT.
InsertUnchecked(x) ==
    /\ inserts' = inserts \ {x}
    /\ deferred' = Append(deferred, [kind |-> "insert", session |-> x.session, msg |-> x.msg])
    /\ UNCHANGED <<session, subscribed, down, uuids, rows, selects, kafkaVars, guiVars, used>>

\* on_insert_complete: after a success the rest runs on the loop; after an
\* error, which may be a timeout of a write that took place, nothing runs.
OnInsertComplete(x) ==
    /\ inserts' = inserts \ {x}
    /\ \/ /\ x.msg \in rows
          /\ deferred' = Append(deferred, [kind |-> "insert", session |-> x.session, msg |-> x.msg])
       \/ UNCHANGED deferred
    /\ UNCHANGED <<session, subscribed, down, uuids, rows, selects, kafkaVars, guiVars, used>>

\* The rows as places in uuids, which is ascending, and the place of one of
\* them in the table (CLUSTERING ORDER BY message_id DESC).
Stored == {i \in DOMAIN uuids : uuids[i] \in rows}
Place(i) == Cardinality({j \in Stored : j >= i})

\* The page of the newest rows, newest first (LIMIT).
Page ==
    LET n == Cardinality(Stored)
    IN [k \in 1 .. (IF n < Limit THEN n ELSE Limit) |-> uuids[CHOOSE i \in Stored : Place(i) = k]]

Select(x) ==
    /\ ~x.read
    /\ selects' = (selects \ {x}) \cup {[x EXCEPT !.read = TRUE, !.page = Page]}
    /\ UNCHANGED <<session, subscribed, down, uuids, rows, inserts, deferred, kafkaVars, guiVars, used>>

\* on_history_complete: success or error, the answer is made on the loop.
OnHistoryComplete(x) ==
    /\ selects' = selects \ {x}
    /\ \/ /\ x.read
          /\ deferred' = Append(deferred, [kind |-> "history", session |-> x.session, page |-> x.page])
       \/ deferred' = Append(deferred, [kind |-> "error", session |-> x.session])
    /\ UNCHANGED <<session, subscribed, down, uuids, rows, inserts, kafkaVars, guiVars, used>>
-----------------------------------------------------------------------------
(* The loop's deferred continuations, Kafka, and a restart of the gateway *)

\* Wrong variant: the socket that asked, whoever is connected there now.
LookupReused(s) == {c \in Clients : session[c] # 0 /\ session[c] >= s}

\* SessionRegistry::lookup.
Lookup(s) == {c \in Clients : session[c] = s}

\* Wrong variant: the user's own messages are shown when they come back.
HeedsAll(c, m) == TRUE

\* Who acts on the event: a GUI takes every message of its own user for the
\* reflection of its local echo and drops it, so those are not queued.
Heeds(c, m) == Sender(m) # UserOf[c]

SendTo(S, e) == down' = [c \in Clients |-> IF c \in S THEN Append(down[c], e) ELSE down[c]]

\* produce, keyed by channel; its result is ignored, so that a message the
\* producer's queue has no room for reaches nobody.
Produce(m) ==
    \/ topic' = Append(topic, m)
    \/ UNCHANGED topic

RunDeferred ==
    /\ deferred # <<>>
    /\ deferred' = Tail(deferred)
    /\ LET k == Head(deferred) IN
           \/ /\ k.kind = "insert"
              /\ SendTo({c \in Lookup(k.session) : Heeds(c, k.msg)}, [kind |-> "event", msg |-> k.msg])
              /\ Produce(k.msg)
           \/ /\ k.kind \in {"history", "error"}
              /\ SendTo(Lookup(k.session), k)
              /\ UNCHANGED topic
    /\ UNCHANGED <<session, subscribed, dbVars, offset, guiVars, used>>

\* Wrong variant: published under a name no socket is subscribed to.
PublishElsewhere ==
    /\ offset < Len(topic)
    /\ offset' = offset + 1
    /\ UNCHANGED <<session, subscribed, down, dbVars, deferred, topic, guiVars, used>>

\* consumer_loop: the next message goes to every socket subscribed by then.
Publish ==
    /\ offset < Len(topic)
    /\ offset' = offset + 1
    /\ SendTo({c \in subscribed : Heeds(c, topic[offset + 1])},
              [kind |-> "event", msg |-> topic[offset + 1]])
    /\ UNCHANGED <<session, subscribed, dbVars, deferred, topic, guiVars, used>>

\* The gateway dies and is started again.  Sockets and continuations are gone,
\* and the consumer's new group starts at the end of the topic ("latest").
Restart ==
    /\ Gone(Clients)
    /\ inserts' = {} /\ selects' = {} /\ deferred' = <<>>
    /\ offset' = Len(topic)
    /\ UNCHANGED <<uuids, rows, topic, used>>

Next ==
    \/ \E c \in Clients : \/ SendChat(c) \/ OpenChannel(c) \/ Read(c)
                          \/ Hello(c) \/ Close(c)
    \/ \E x \in inserts : Store(x) \/ OnInsertComplete(x)
    \/ \E x \in selects : Select(x) \/ OnHistoryComplete(x)
    \/ RunDeferred \/ Publish \/ Restart

Spec == Init /\ [][Next]_vars

\* The three gateway threads and the GUI's reader keep running; users, faults
\* and the outcome of a query are free.
FairSpec ==
    /\ Spec
    /\ WF_vars(RunDeferred) /\ WF_vars(Publish)
    /\ \A c \in Clients : WF_vars(Read(c))
    /\ WF_vars(\E x \in inserts : OnInsertComplete(x))
    /\ WF_vars(\E x \in selects : OnHistoryComplete(x))
-----------------------------------------------------------------------------
(* Properties *)

\* "Don't fan out a message we didn't persist": whatever another client's pane
\* shows, or is about to, can be read back from the table.
OnlyStoredShown ==
    \A c \in Clients :
        /\ \A i \in DOMAIN pane[c] : pane[c][i].via # "echo" => pane[c][i].msg \in rows
        /\ \A i \in DOMAIN down[c] : down[c][i].kind = "event" => down[c][i].msg \in rows

\* a is in the topic before b.
Before(a, b) == \E k, l \in DOMAIN topic : k < l /\ topic[k] = a /\ topic[l] = b

\* Every pane shows the messages of others in the order of the topic and each
\* at most once, however INSERTs, echoes and fan-out overtake each other; two
\* panes therefore never disagree on the order of what both saw live.
LiveInOrder ==
    \A c \in Clients : \A i, j \in DOMAIN pane[c] :
        i < j /\ pane[c][i].via = "live" /\ pane[c][j].via = "live" =>
            Before(pane[c][i].msg, pane[c][j].msg)

\* An answer goes to the session that asked.  A client that reconnects while
\* its query is in flight gets nothing of the old session's.
AnswersOwnSession ==
    \A c \in Clients : \A i \in DOMAIN down[c] :
        down[c][i].kind \in {"history", "error"} /\ session[c] # 0 =>
            down[c][i].session = session[c]

Newer(m) == {n \in rows : \E i, j \in DOMAIN uuids : uuids[i] = m /\ uuids[j] = n /\ i < j}

\* No gap between history and live delivery.  Once a GUI has a history page,
\* every published message of another user is on its pane or on its way,
\* unless a full page of newer rows displaced it or the pane reached its cap.
NoGap ==
    \A c \in loaded : \A i \in 1 .. offset :
        LET m == topic[i] IN
        \/ Sender(m) = UserOf[c]
        \/ m \in MsgsOn(c)
        \/ \E k \in DOMAIN down[c] : down[c][k].kind = "event" /\ down[c][k].msg = m
        \/ Cardinality(Newer(m)) >= Limit
        \/ Len(pane[c]) = Cap

\* A message that is in the topic reaches every subscribed client of another
\* user, or that client loses its connection first.
FanOutReaches ==
    \A c \in Clients : \A d \in Clients \ {c} : \A n \in 1 .. MaxSends[d] :
        UserOf[d] # UserOf[c] =>
            (/\ c \in subscribed
             /\ \E i \in offset + 1 .. Len(topic) : topic[i] = <<d, n>>)
              ~> (<<d, n>> \in MsgsOn(c) \/ c \notin subscribed)
==============================================================================
