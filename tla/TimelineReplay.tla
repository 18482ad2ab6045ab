--------------------------- MODULE TimelineReplay ---------------------------
(***************************************************************************)
(* How the timeline and the operation of one Project reach the desktop     *)
(* clients: tasks of the Spoke append items and update the operation under *)
(* the store's lock and send the event after it, one connection carries    *)
(* the events to the Hub, the Hub caches and dispatches them one by one to *)
(* whoever asked or subscribed, and a client merges events and snapshots   *)
(* and subscribes again, from the cursor it remembers, when it reconnects. *)
(* A client shows the owner's messages as pending until the timeline does. *)
(*                                                                         *)
(* An item is its cursor, an operation the number of its last update.      *)
(*                                                                         *)
(* Simplified: a connection and what the Hub keeps for it end in one step; *)
(* every connection of a client has a fresh identity, so that the end of   *)
(* an old one never disturbs a new one.  A timeline is never cut short, so *)
(* that no snapshot has a gap.                                             *)
(***************************************************************************)
EXTENDS Integers, Sequences, FiniteSetsExt

CONSTANTS
    Clients,
    Opened,         \* the clients that opened the Project before, and follow it
    Tasks,          \* tasks of the Spoke that work for the Project
    Handler,        \* the Spoke's connection, serving one request after another
    MaxItems,       \* bound: items of the timeline
    MaxUpdates,     \* bound: updates of the operation
    MaxIntents,     \* bound: owner's messages
    MaxSelects,     \* bound: selections of the Project by clients
    MaxClientDrops, \* bound: connections of clients that are lost
    MaxSpokeDrops   \* bound: connections of the Spoke that are lost

ASSUME ActorsAssumption == Opened \subseteq Clients /\ Handler \notin Tasks
ASSUME BoundsAssumption ==
    /\ {MaxUpdates, MaxIntents, MaxSelects, MaxClientDrops, MaxSpokeDrops} \subseteq Nat
    /\ MaxItems \in Nat \ {0}

VARIABLES
    items,       \* the Spoke's timeline: the cursors 1 .. items
    author,      \* history: the message each item represents, if it does
    op,          \* the Spoke's operation
    hand,        \* what each task or the handler has yet to send
    orphan,      \* tasks whose channel belongs to a lost connection
    spokeUp,     \* the Spoke's connection to the Hub
    toSpoke,     \* requests on it
    wire,        \* events on it
    cache,       \* the Hub's cached snapshot
    current,     \* the event the Hub has cached and not yet dispatched
    pending,     \* identifiers of the requests the Hub passed on
    subs,        \* clients subscribed to the Project
    routing,     \* the request the Hub is routing for each client
    clientUp,    \* connected clients
    fromClient,  \* requests on each client's connection
    toClient,    \* events on it
    view,        \* each client's snapshot of the Project
    cursor,      \* the cursor each client's actor remembers
    messages,    \* the messages each client shows as pending
    followed,    \* history: items appended while a client followed
    count        \* bounds: messages, selections, drops; requests, for identifiers

spokeVars == <<items, author, op, hand, orphan>>
linkVars == <<spokeUp, toSpoke, wire>>
hubVars == <<cache, current, pending, subs, routing>>
clientVars == <<clientUp, fromClient, toClient, view, cursor, messages>>
historyVars == <<followed, count>>
vars == <<spokeVars, linkVars, hubVars, clientVars, historyVars>>

Producers == Tasks \cup {Handler}
NoCursor == -1
NoId == <<>>
Ids == Clients \X Nat

Items == 1 .. MaxItems
Event == [kind : {"none", "item", "op", "snapshot", "answer"}, n : 0 .. MaxItems + MaxUpdates,
          items : SUBSET Items, id : Ids \cup {NoId}]
Request == [kind : {"none", "subscribe", "intent"}, id : Ids \cup {NoId},
            cursor : NoCursor .. MaxItems]
Snapshot == [has : BOOLEAN, items : SUBSET Items, op : 0 .. MaxUpdates]

NoEvent == [kind |-> "none", n |-> 0, items |-> {}, id |-> NoId]
ItemEvent(n) == [NoEvent EXCEPT !.kind = "item", !.n = n]
OpEvent(n) == [NoEvent EXCEPT !.kind = "op", !.n = n]
SnapshotEvent(S, n, id) == [kind |-> "snapshot", n |-> n, items |-> S, id |-> id]
\* What concerns no view: an acceptance or an error.
Answer(id) == [NoEvent EXCEPT !.kind = "answer", !.id = id]
NoRequest == [kind |-> "none", id |-> NoId, cursor |-> NoCursor]
Subscription(id, from) == [kind |-> "subscribe", id |-> id, cursor |-> from]
Message(id) == [NoRequest EXCEPT !.kind = "intent", !.id = id]

TypeOK ==
    /\ items \in Items /\ op \in 0 .. MaxUpdates
    /\ author \in [1 .. items -> Ids \cup {NoId}]
    /\ hand \in [Producers -> Event] /\ orphan \subseteq Tasks
    /\ spokeUp \in BOOLEAN /\ toSpoke \in Seq(Request) /\ wire \in Seq(Event)
    /\ cache \in Snapshot /\ current \in Event
    /\ pending \subseteq Ids /\ subs \subseteq clientUp
    /\ routing \in [Clients -> Request]
    /\ clientUp \subseteq Clients
    /\ fromClient \in [Clients -> Seq(Request)] /\ toClient \in [Clients -> Seq(Event)]
    /\ view \in [Clients -> Snapshot]
    /\ cursor \in [Clients -> NoCursor .. MaxItems]
    /\ messages \in [Clients -> SUBSET Ids]
    /\ followed \in [Clients -> SUBSET Items]
    /\ count \in [intents : 0 .. MaxIntents, selects : 0 .. MaxSelects,
                  drops : 0 .. MaxClientDrops, requests : [Clients -> Nat], spokeDrops : 0 .. MaxSpokeDrops]

NoView == [has |-> FALSE, items |-> {}, op |-> 0]
FirstView == [has |-> TRUE, items |-> {1}, op |-> 0]

\* The Project has its first item, which project.initialize wrote.
Init ==
    /\ items = 1 /\ author = <<NoId>> /\ op = 0
    /\ hand = [p \in Producers |-> NoEvent] /\ orphan = {}
    /\ spokeUp = TRUE /\ toSpoke = <<>> /\ wire = <<>>
    /\ cache = IF Opened = {} THEN NoView ELSE FirstView
    /\ current = NoEvent /\ pending = {} /\ subs = Opened
    /\ routing = [c \in Clients |-> NoRequest]
    /\ clientUp = Clients
    /\ fromClient = [c \in Clients |-> <<>>] /\ toClient = [c \in Clients |-> <<>>]
    /\ view = [c \in Clients |-> IF c \in Opened THEN FirstView ELSE NoView]
    /\ cursor = [c \in Clients |-> IF c \in Opened THEN 0 ELSE NoCursor]
    /\ messages = [c \in Clients |-> {}] /\ followed = [c \in Clients |-> {}]
    /\ count = [intents |-> 0, selects |-> 0,
                drops |-> 0, requests |-> [c \in Clients |-> 0], spokeDrops |-> 0]

-----------------------------------------------------------------------------
(* The Spoke *)

\* Clients that have a view, are subscribed and get what is sent from now on.
Following == IF spokeUp THEN {c \in subs : view[c].has} ELSE {}

Follow(n) == followed' = [c \in Clients |-> IF c \in Following THEN followed[c] \cup {n}
                                                              ELSE followed[c]]

Idle(p) == hand[p].kind = "none"

\* append_item_locked.
NewItem(message) ==
    /\ items' = items + 1
    /\ author' = Append(author, message)

\* append_item: the cursor is taken, and the timeline saved, under the lock. A
\* task is started by a connection, and outlives it.
AppendItem(t) ==
    /\ Idle(t) /\ items < MaxItems /\ (spokeUp \/ t \in orphan)
    /\ NewItem(NoId)
    /\ hand' = [hand EXCEPT ![t] = ItemEvent(items + 1)]
    /\ IF t \in orphan THEN UNCHANGED followed ELSE Follow(items + 1)
    /\ UNCHANGED <<op, orphan, linkVars, hubVars, clientVars, count>>

\* update_operation, of a task or, for a cancellation, of the handler.
Update(p) ==
    /\ Idle(p) /\ op < MaxUpdates /\ (spokeUp \/ p \in orphan)
    /\ op' = op + 1
    /\ hand' = [hand EXCEPT ![p] = OpEvent(op + 1)]
    /\ UNCHANGED <<items, author, orphan, linkVars, hubVars, clientVars, historyVars>>

\* The event goes to the connection the task was started on; when that is gone
\* the task fails, and a later connection may start another.
Send(p) ==
    /\ ~Idle(p)
    /\ hand' = [hand EXCEPT ![p] = NoEvent]
    /\ orphan' = orphan \ {p}
    /\ wire' = IF p \in orphan THEN wire ELSE Append(wire, hand[p])
    /\ UNCHANGED <<items, author, op, spokeUp, toSpoke, hubVars, clientVars, historyVars>>

\* The connection serves one request after another.
Serving(kind) == spokeUp /\ Idle(Handler) /\ toSpoke # <<>> /\ Head(toSpoke).kind = kind

\* An owner's message: accept_intent appends its item and sends it before it
\* unlocks the store; then it answers.
AcceptIntent ==
    /\ Serving("intent") /\ items < MaxItems
    /\ NewItem(Head(toSpoke).id)
    /\ wire' = Append(wire, ItemEvent(items + 1))
    /\ toSpoke' = Tail(toSpoke)
    /\ hand' = [hand EXCEPT ![Handler] = Answer(Head(toSpoke).id)]
    /\ Follow(items + 1)
    /\ UNCHANGED <<op, orphan, spokeUp, hubVars, clientVars, count>>

\* A message that expects another revision is refused.
RefuseIntent ==
    /\ Serving("intent")
    /\ toSpoke' = Tail(toSpoke)
    /\ hand' = [hand EXCEPT ![Handler] = Answer(Head(toSpoke).id)]
    /\ UNCHANGED <<items, author, op, orphan, spokeUp, wire, hubVars, clientVars, historyVars>>

\* Mutant: the replay starts one item late.
ReplayedLate(c) == {n \in 1 .. items : n > c + 1}

\* The items after a cursor.
Replayed(c) == {n \in 1 .. items : n > c}

\* intent.subscribe: the snapshot is taken under the lock and sent after it.
TakeSnapshot ==
    /\ Serving("subscribe")
    /\ LET request == Head(toSpoke) IN
       hand' = [hand EXCEPT ![Handler] =
                    SnapshotEvent(Replayed(request.cursor), op, request.id)]
    /\ toSpoke' = Tail(toSpoke)
    /\ UNCHANGED <<items, author, op, orphan, spokeUp, wire, hubVars, clientVars, historyVars>>

\* The connection between Spoke and Hub is lost with what is on it; the tasks
\* keep its dead channel.
SpokeDrops ==
    /\ spokeUp /\ count.spokeDrops < MaxSpokeDrops
    /\ count' = [count EXCEPT !.spokeDrops = @ + 1]
    /\ spokeUp' = FALSE /\ toSpoke' = <<>> /\ wire' = <<>>
    /\ hand' = [hand EXCEPT ![Handler] = NoEvent]
    /\ orphan' = Tasks
    /\ followed' = [c \in Clients |-> {}]
    /\ UNCHANGED <<items, author, op, hubVars, clientVars>>

SpokeConnects ==
    /\ ~spokeUp /\ spokeUp' = TRUE
    /\ UNCHANGED <<spokeVars, toSpoke, wire, hubVars, clientVars, historyVars>>

-----------------------------------------------------------------------------
(* The Hub *)

\* Mutant: a snapshot replaces the cached one, items and all.
MergedReplacing(old, e) == [has |-> TRUE, items |-> e.items, op |-> e.n]

\* A snapshot adds its items and replaces the operation.
Merged(old, e) == [has |-> TRUE, items |-> old.items \cup e.items, op |-> e.n]

\* The effect of an event on a snapshot, in the Hub's cache as in a client.
Applied(old, e) ==
    CASE e.kind = "snapshot"        -> Merged(old, e)
      [] e.kind = "item" /\ old.has -> [old EXCEPT !.items = @ \cup {e.n}]
      [] e.kind = "op" /\ old.has   -> [old EXCEPT !.op = e.n]
      [] OTHER                      -> old

\* cache_event, the first half of deliver.
CacheEvent ==
    /\ current.kind = "none" /\ wire # <<>>
    /\ current' = Head(wire) /\ wire' = Tail(wire)
    /\ cache' = Applied(cache, Head(wire))
    /\ UNCHANGED <<spokeVars, spokeUp, toSpoke, pending, subs, routing, clientVars, historyVars>>

ToClients(S, e) == toClient' = [c \in Clients |-> IF c \in S THEN Append(toClient[c], e)
                                                            ELSE toClient[c]]

\* A snapshot goes to the client that asked for it, which is subscribed by it;
\* all else, a snapshot nobody waits for any more included, to the subscribers.
\* Any other answer is not followed further: it changes nothing a client shows.
Dispatch ==
    /\ current.kind # "none"
    /\ current' = NoEvent
    /\ pending' = pending \ {current.id}
    /\ \/ current.kind = "answer" /\ UNCHANGED <<subs, toClient>>
       \/ /\ current.kind # "answer" /\ current.id \in pending
          /\ subs' = subs \cup {current.id[1]}
          /\ ToClients({current.id[1]}, current)
       \/ /\ current.kind # "answer" /\ current.id \notin pending
          /\ ToClients(subs, current)
          /\ UNCHANGED subs
    /\ UNCHANGED <<spokeVars, linkVars, cache, routing, clientUp, fromClient, view, cursor,
                   messages, historyVars>>

\* route_client: the client is subscribed before its request is passed on.
Subscribe(c) ==
    /\ fromClient[c] # <<>> /\ routing[c] = NoRequest
    /\ routing' = [routing EXCEPT ![c] = Head(fromClient[c])]
    /\ fromClient' = [fromClient EXCEPT ![c] = Tail(@)]
    /\ subs' = subs \cup {c}
    /\ UNCHANGED <<spokeVars, linkVars, cache, current, pending, clientUp, toClient, view, cursor,
                   messages, historyVars>>

\* ... to the Spoke if there is a channel; otherwise the cache answers a
\* subscription, if it can, and an error all else.
Forward(c) ==
    /\ routing[c] # NoRequest
    /\ routing' = [routing EXCEPT ![c] = NoRequest]
    /\ \/ /\ spokeUp
          /\ pending' = pending \cup {routing[c].id}
          /\ toSpoke' = Append(toSpoke, routing[c])
          /\ UNCHANGED toClient
       \/ /\ ~spokeUp
          /\ ToClients(IF routing[c].kind = "subscribe" /\ cache.has THEN {c} ELSE {},
                       SnapshotEvent(cache.items, cache.op, routing[c].id))
          /\ UNCHANGED <<pending, toSpoke>>
    /\ UNCHANGED <<spokeVars, spokeUp, wire, cache, current, subs, clientUp, fromClient, view,
                   cursor, messages, historyVars>>

-----------------------------------------------------------------------------
(* The clients *)

Requested(c) == {id \in pending : id[1] = c}
NextId(c) == <<c, count.requests[c] + 1>>

\* select_project asks for what is after the items it has, and the actor
\* remembers the same cursor.
Select(c) ==
    LET from == IF view[c].items = {} THEN NoCursor ELSE Max(view[c].items) IN
    /\ c \in clientUp /\ count.selects < MaxSelects
    /\ count' = [count EXCEPT !.selects = @ + 1, !.requests[c] = @ + 1]
    /\ fromClient' = [fromClient EXCEPT ![c] = Append(@, Subscription(NextId(c), from))]
    /\ cursor' = [cursor EXCEPT ![c] = IF from = NoCursor THEN 0 ELSE from]
    /\ UNCHANGED <<spokeVars, linkVars, hubVars, clientUp, toClient, view, messages, followed>>

\* send_intent: the message is shown as pending and sent.  (A message written
\* without a connection waits for the next one.)
Compose(c) ==
    /\ c \in clientUp /\ view[c].has /\ count.intents < MaxIntents
    /\ count' = [count EXCEPT !.intents = @ + 1, !.requests[c] = @ + 1]
    /\ messages' = [messages EXCEPT ![c] = @ \cup {NextId(c)}]
    /\ fromClient' = [fromClient EXCEPT ![c] = Append(@, Message(NextId(c)))]
    /\ UNCHANGED <<spokeVars, linkVars, hubVars, clientUp, toClient, view, cursor, followed>>

\* Mutant: an item that is not newer than what is shown is taken for a repeat.
ReceivedInOrder(old, e) ==
    IF e.kind = "item" /\ (\E n \in old.items : n >= e.n) THEN old ELSE Applied(old, e)

\* apply: items are compared by identity, whatever order they come in.
Received(old, e) == Applied(old, e)

\* The actor remembers the cursor of the last item, and hands the event on.  Any
\* item and any snapshot of the Project ends all its pending messages.
Receive(c) ==
    LET e == Head(toClient[c]) IN
    /\ toClient[c] # <<>>
    /\ toClient' = [toClient EXCEPT ![c] = Tail(@)]
    /\ view' = [view EXCEPT ![c] = Received(@, e)]
    /\ cursor' = [cursor EXCEPT ![c] = IF e.kind = "item" THEN e.n ELSE @]
    /\ messages' = [messages EXCEPT ![c] = IF e.kind \in {"item", "snapshot"} THEN {} ELSE @]
    /\ UNCHANGED <<spokeVars, linkVars, hubVars, clientUp, fromClient, followed, count>>

\* Mutant: the Hub keeps the subscription of a client that is gone.
ClientDropsSubscribed(c) ==
    /\ c \in clientUp /\ count.drops < MaxClientDrops
    /\ clientUp' = clientUp \ {c}
    /\ count' = [count EXCEPT !.drops = @ + 1]
    /\ fromClient' = [fromClient EXCEPT ![c] = <<>>]
    /\ toClient' = [toClient EXCEPT ![c] = <<>>]
    /\ routing' = [routing EXCEPT ![c] = NoRequest]
    /\ pending' = pending \ Requested(c)
    /\ followed' = [followed EXCEPT ![c] = {}]
    /\ UNCHANGED <<spokeVars, linkVars, cache, current, subs, view, cursor, messages>>

\* A client's connection is lost, and with it all the Hub keeps for it.
ClientDrops(c) ==
    /\ c \in clientUp /\ count.drops < MaxClientDrops
    /\ clientUp' = clientUp \ {c}
    /\ count' = [count EXCEPT !.drops = @ + 1]
    /\ fromClient' = [fromClient EXCEPT ![c] = <<>>]
    /\ toClient' = [toClient EXCEPT ![c] = <<>>]
    /\ routing' = [routing EXCEPT ![c] = NoRequest]
    /\ subs' = subs \ {c}
    /\ pending' = pending \ Requested(c)
    /\ followed' = [followed EXCEPT ![c] = {}]
    /\ UNCHANGED <<spokeVars, linkVars, cache, current, view, cursor, messages>>

\* Mutant: a client that connects again starts from an empty view.
ClientConnectsAfresh(c) ==
    /\ c \notin clientUp
    /\ clientUp' = clientUp \cup {c}
    /\ view' = [view EXCEPT ![c] = NoView]
    /\ \/ cursor[c] = NoCursor /\ UNCHANGED <<fromClient, count>>
       \/ /\ cursor[c] # NoCursor
          /\ fromClient' = [fromClient EXCEPT ![c] = <<Subscription(NextId(c), cursor[c])>>]
          /\ count' = [count EXCEPT !.requests[c] = @ + 1]
    /\ UNCHANGED <<spokeVars, linkVars, hubVars, toClient, cursor, messages, followed>>

\* The actor subscribes again, from the cursor it remembers.
ClientConnects(c) ==
    /\ c \notin clientUp
    /\ clientUp' = clientUp \cup {c}
    /\ \/ cursor[c] = NoCursor /\ UNCHANGED <<fromClient, count>>
       \/ /\ cursor[c] # NoCursor
          /\ fromClient' = [fromClient EXCEPT ![c] = <<Subscription(NextId(c), cursor[c])>>]
          /\ count' = [count EXCEPT !.requests[c] = @ + 1]
    /\ UNCHANGED <<spokeVars, linkVars, hubVars, toClient, view, cursor, messages, followed>>

-----------------------------------------------------------------------------
HubStep == CacheEvent \/ Dispatch \/ \E c \in Clients : Subscribe(c) \/ Forward(c)

Next ==
    \/ \E t \in Tasks : AppendItem(t)
    \/ \E p \in Producers : Update(p) \/ Send(p)
    \/ AcceptIntent \/ RefuseIntent \/ TakeSnapshot \/ SpokeDrops \/ SpokeConnects
    \/ HubStep
    \/ \E c \in Clients : Select(c) \/ Compose(c) \/ Receive(c) \/ ClientDrops(c) \/ ClientConnects(c)

Spec == Init /\ [][Next]_vars

\* What is under way goes on, and clients connect again. Nobody has to act.
Fairness ==
    /\ \A p \in Producers : WF_vars(Send(p))
    /\ WF_vars(AcceptIntent \/ RefuseIntent \/ TakeSnapshot) /\ WF_vars(CacheEvent) /\ WF_vars(Dispatch)
    /\ \A c \in Clients : /\ WF_vars(Subscribe(c)) /\ WF_vars(Forward(c))
                          /\ WF_vars(Receive(c)) /\ WF_vars(ClientConnects(c))

FairSpec == Spec /\ Fairness

-----------------------------------------------------------------------------
(* Properties *)

ItemsIn(q) == {q[i].n : i \in {j \in 1 .. Len(q) : q[j].kind = "item"}}

\* Items on their way to a subscribed client.
Travelling(c) ==
    ItemsIn(toClient[c]) \cup ItemsIn(<<current>> \o wire)
        \cup {hand[t].n : t \in {u \in Tasks \ orphan : hand[u].kind = "item"}}

\* A client that shows the Project and stays connected misses no item, however
\* the tasks' sends overtake each other: each item appended since is shown or on
\* its way.
FollowedItemsArrive ==
    \A c \in Clients : followed[c] \subseteq view[c].items \cup Travelling(c)

\* When the Spoke is away, the Hub's cache answers with no less than what any
\* client shows.
CacheCoversViews == \A c \in Clients : view[c].items \subseteq cache.items

\* What the Hub's cache and the clients show, as followers of the Spoke's log.
Log == INSTANCE FollowedLog

\* Spoke, Hub and clients implement the promise of FollowedLog: snapshots from any
\* cursor, items sent out of order and answers from the Hub's cache add to a
\* client's view what the timeline has and the cache has too, take nothing away,
\* and forget no item a client is owed while the connections live.
ImplementsLog == Log!Spec

\* A client that followed the Project and whose connection comes and goes ends
\* up with the whole timeline.
ViewsConverge == \A c \in Opened : <>[](view[c].items = 1 .. items)

\* A message the owner has sent stays visible until its own item of the timeline
\* is shown: neither another message nor a task's item nor a snapshot erases it
\* (apply, of every item and snapshot).
MessageShownUntilRepresented ==
    [][\A c \in Clients : \A m \in messages[c] \ messages'[c] :
          \E n \in view'[c].items : author[n] = m]_vars
=============================================================================
