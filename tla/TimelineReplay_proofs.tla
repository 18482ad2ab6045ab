----------------------- MODULE TimelineReplay_proofs -----------------------
(***************************************************************************)
(* Proofs about TimelineReplay, for every set of clients and tasks and all *)
(* bounds: its state is typed, the Hub's cache holds every item a client   *)
(* shows, a client that stays connected misses no item, and the whole      *)
(* implements FollowedLog.                                                 *)
(***************************************************************************)
EXTENDS TimelineReplay, WellFoundedInduction, TLAPS

-----------------------------------------------------------------------------
(* What is sent *)

\* An event on its way: an item or an update within the bounds, and only a
\* snapshot or an answer is for somebody.
Sent == {e \in Event :
            /\ e.kind = "item" => e.n \in Items /\ e.id = NoId
            /\ e.kind \in {"op", "snapshot"} => e.n \in 0 .. MaxUpdates}

\* The requests of a client name it.
RequestOf(c) == {r \in Request : r.kind # "none" /\ r.id \in Ids /\ r.id[1] = c}

\* The types that steps keep, one part per group of variables.
SpokeTypes ==
    /\ items \in Items /\ op \in 0 .. MaxUpdates
    /\ author \in Seq(Ids \cup {NoId}) /\ Len(author) = items
    /\ hand \in [Producers -> Sent] /\ orphan \subseteq Tasks

LinkTypes == spokeUp \in BOOLEAN /\ toSpoke \in Seq(Request) /\ wire \in Seq(Sent)

HubTypes ==
    /\ cache \in Snapshot /\ current \in Sent /\ pending \subseteq Ids
    /\ routing \in [Clients -> Request]
    /\ \A c \in Clients : routing[c] \in RequestOf(c) \cup {NoRequest}

ClientTypes ==
    /\ clientUp \subseteq Clients
    /\ fromClient \in [Clients -> Seq(Request)] /\ toClient \in [Clients -> Seq(Sent)]
    /\ \A c \in Clients : fromClient[c] \in Seq(RequestOf(c))
    /\ view \in [Clients -> Snapshot]
    /\ cursor \in [Clients -> NoCursor .. MaxItems]
    /\ messages \in [Clients -> SUBSET Ids]

HistoryTypes ==
    /\ followed \in [Clients -> SUBSET Items]
    /\ count \in [intents : 0 .. MaxIntents, selects : 0 .. MaxSelects,
                  drops : 0 .. MaxClientDrops, requests : [Clients -> Nat],
                  spokeDrops : 0 .. MaxSpokeDrops]

\* Nothing of a client that is not connected is under way or waited for.
ConnectedInv ==
    /\ subs \subseteq clientUp
    /\ \A id \in pending : id[1] \in clientUp
    /\ \A c \in Clients \ clientUp :
          fromClient[c] = <<>> /\ toClient[c] = <<>> /\ routing[c] = NoRequest

Typed == SpokeTypes /\ LinkTypes /\ HubTypes /\ ClientTypes /\ HistoryTypes /\ ConnectedInv

-----------------------------------------------------------------------------
(* Invariants *)

\* Whoever is owed an item is still subscribed and shows a snapshot, so that the
\* Hub hands the item on and the client adds it.
FollowInv == \A c \in Clients : followed[c] # {} => c \in subs /\ view[c].has

\* Where an item a client is owed may be: shown, on the client's connection, at
\* the Hub, on the Spoke's connection, or with a task that will send it there.
OneItem(e) == IF e.kind = "item" THEN {e.n} ELSE {}
Shown(c, n) == n \in view[c].items
OnConnection(c, n) == n \in ItemsIn(toClient[c])
OnWire(n) == n \in OneItem(current) \cup ItemsIn(wire)
InHand(n) == \E t \in Tasks \ orphan : n \in OneItem(hand[t])
ArriveInv ==
    \A c \in Clients : \A n \in followed[c] :
        Shown(c, n) \/ OnConnection(c, n) \/ OnWire(n) \/ InHand(n)

\* A snapshot a client gets has no item the cache lacks.  An item the cache
\* lacks passed the Hub before its first snapshot; the client drops it, because it
\* comes before that client's first snapshot.
CacheInv ==
    /\ CacheCoversViews
    /\ \A c \in Clients : view[c].has => cache.has
    /\ \A c \in Clients : \A j \in 1 .. Len(toClient[c]) :
          LET e == toClient[c][j]
          IN  /\ e.kind = "snapshot" => cache.has /\ e.items \subseteq cache.items
              /\ e.kind = "item" =>
                    \/ e.n \in cache.items
                    \/ /\ ~ view[c].has
                       /\ \A i \in 1 .. j - 1 : toClient[c][i].kind # "snapshot"
    /\ current.kind = "snapshot" => cache.has /\ current.items \subseteq cache.items
    /\ current.kind = "item" => current.n \in cache.items \/ ~ cache.has
-----------------------------------------------------------------------------
(* Data *)

LEMMA Numbers ==
    /\ MaxItems \in Nat /\ MaxItems >= 1 /\ MaxUpdates \in Nat /\ MaxIntents \in Nat
    /\ MaxSelects \in Nat /\ MaxClientDrops \in Nat /\ MaxSpokeDrops \in Nat
BY BoundsAssumption

\* Max, which is a CHOOSE, is a maximum of items.
LEMMA MaxOfItems ==
    ASSUME NEW S \in SUBSET Items, S # {}
    PROVE  Max(S) \in S
<1> DEFINE T == {MaxItems - y : y \in S}
<1>1. T \subseteq Nat /\ T # {}
    <2>1. \A y \in S : MaxItems - y \in Nat
        BY Numbers DEF Items
    <2> QED
        BY <2>1
<1>2. PICK x \in T : \A y \in T : ~ (<<y, x>> \in OpToRel(<, Nat))
    BY <1>1, NatLessThanWellFounded, WFMin
<1>3. \A y \in T : ~ (y < x)
    BY <1>1, <1>2 DEF OpToRel
<1>4. PICK m \in S : x = MaxItems - m
    OBVIOUS
<1>5. \A y \in S : m >= y
    <2> TAKE y \in S
    <2>1. ~ (MaxItems - y < MaxItems - m)
        BY <1>3, <1>4
    <2> QED
        BY <2>1, Numbers DEF Items
<1> QED
    BY <1>5 DEF Max

LEMMA EventTypes ==
    /\ NoEvent \in Sent
    /\ \A n \in Items : ItemEvent(n) \in Sent
    /\ \A n \in 0 .. MaxUpdates : OpEvent(n) \in Sent
    /\ \A id \in Ids \cup {NoId} : Answer(id) \in Sent
    /\ \A S \in SUBSET Items, n \in 0 .. MaxUpdates, id \in Ids \cup {NoId} :
           SnapshotEvent(S, n, id) \in Sent
<1> Items \subseteq 0 .. MaxItems + MaxUpdates /\ 0 .. MaxUpdates \subseteq 0 .. MaxItems + MaxUpdates
    BY Numbers DEF Items
<1> 0 \in 0 .. MaxUpdates
    BY Numbers
<1>1. NoEvent \in Sent
    BY DEF NoEvent, Sent, Event
<1>2. ASSUME NEW n \in Items PROVE ItemEvent(n) \in Sent
    BY DEF ItemEvent, NoEvent, Sent, Event
<1>3. ASSUME NEW n \in 0 .. MaxUpdates PROVE OpEvent(n) \in Sent
    BY DEF OpEvent, NoEvent, Sent, Event
<1>4. ASSUME NEW id \in Ids \cup {NoId} PROVE Answer(id) \in Sent
    BY DEF Answer, NoEvent, Sent, Event
<1>5. ASSUME NEW S \in SUBSET Items, NEW n \in 0 .. MaxUpdates, NEW id \in Ids \cup {NoId}
      PROVE  SnapshotEvent(S, n, id) \in Sent
    BY DEF SnapshotEvent, Sent, Event
<1> QED
    BY <1>1, <1>2, <1>3, <1>4, <1>5

LEMMA SentIsEvent == Sent \subseteq Event
BY DEF Sent

LEMMA RequestTypes ==
    ASSUME NEW c \in Clients
    PROVE  /\ NoRequest \in Request
           /\ NoRequest \notin RequestOf(c)
           /\ RequestOf(c) \subseteq Request
           /\ \A n \in Nat, from \in NoCursor .. MaxItems :
                  Subscription(<<c, n>>, from) \in RequestOf(c)
           /\ \A n \in Nat : Message(<<c, n>>) \in RequestOf(c)
<1>1. NoRequest \in Request /\ NoRequest.kind = "none"
    BY Numbers DEF NoRequest, Request, NoCursor
<1>2. ASSUME NEW n \in Nat
      PROVE  <<c, n>> \in Ids /\ <<c, n>>[1] = c
    BY DEF Ids
<1>3. ASSUME NEW n \in Nat, NEW from \in NoCursor .. MaxItems
      PROVE  Subscription(<<c, n>>, from) \in RequestOf(c)
    BY <1>2 DEF Subscription, RequestOf, Request
<1>4. ASSUME NEW n \in Nat
      PROVE  Message(<<c, n>>) \in RequestOf(c)
    BY <1>1, <1>2 DEF Message, NoRequest, RequestOf, Request
<1> QED
    BY <1>1, <1>3, <1>4 DEF RequestOf

LEMMA AppliedType ==
    ASSUME NEW old \in Snapshot, NEW e \in Sent
    PROVE  Applied(old, e) \in Snapshot
<1>1. CASE e.kind = "snapshot"
    BY <1>1 DEF Applied, Merged, Snapshot, Sent, Event
<1>2. CASE e.kind = "item" /\ old.has
    BY <1>2 DEF Applied, Snapshot, Sent, Event
<1>3. CASE e.kind = "op" /\ old.has
    BY <1>3 DEF Applied, Snapshot, Sent, Event
<1>4. CASE e.kind # "snapshot" /\ ~ (e.kind \in {"item", "op"} /\ old.has)
    BY <1>4 DEF Applied
<1> QED
    BY <1>1, <1>2, <1>3, <1>4

\* A function stays in its space when one of its values is replaced.
LEMMA UpdateType ==
    ASSUME NEW S, NEW T, NEW f \in [S -> T], NEW x, NEW v \in T
    PROVE  [f EXCEPT ![x] = v] \in [S -> T]
OBVIOUS

LEMMA AppendType ==
    ASSUME NEW S, NEW s \in Seq(S), NEW e \in S
    PROVE  Append(s, e) \in Seq(S) /\ Len(Append(s, e)) = Len(s) + 1
OBVIOUS

LEMMA EmptySequence == \A S : <<>> \in Seq(S)
OBVIOUS

LEMMA SuffixType ==
    ASSUME NEW S, NEW s \in Seq(S), s # <<>>
    PROVE  Head(s) \in S /\ Tail(s) \in Seq(S)
OBVIOUS

\* author is a sequence as long as the timeline.
LEMMA SequenceType ==
    ASSUME NEW S, NEW n \in Nat
    PROVE  \A s : s \in [1 .. n -> S] <=> s \in Seq(S) /\ Len(s) = n
OBVIOUS

-----------------------------------------------------------------------------
(* Types *)

LEMMA TypedIsTypeOK == Typed => TypeOK
<1> SUFFICES ASSUME Typed PROVE TypeOK
    OBVIOUS
<1> items \in Nat
    BY DEF Typed, SpokeTypes, Items
<1>1. author \in [1 .. items -> Ids \cup {NoId}]
    BY SequenceType DEF Typed, SpokeTypes
<1>2. hand \in [Producers -> Event] /\ current \in Event
    BY SentIsEvent DEF Typed, SpokeTypes, HubTypes
<1>3. wire \in Seq(Event) /\ toClient \in [Clients -> Seq(Event)]
    BY SentIsEvent DEF Typed, LinkTypes, ClientTypes
<1> QED
    BY <1>1, <1>2, <1>3 DEF Typed, TypeOK, SpokeTypes, LinkTypes, HubTypes, ClientTypes,
                            HistoryTypes, ConnectedInv

LEMMA InitTyped == Init => Typed
<1> SUFFICES ASSUME Init PROVE Typed
    OBVIOUS
<1> 1 \in Items /\ 0 \in 0 .. MaxUpdates /\ 0 \in NoCursor .. MaxItems /\ NoCursor \in NoCursor .. MaxItems
    BY Numbers DEF Items, NoCursor
<1> NoView \in Snapshot /\ FirstView \in Snapshot
    BY DEF NoView, FirstView, Snapshot
<1>1. SpokeTypes
    BY EventTypes DEF Init, SpokeTypes
<1>2. LinkTypes
    BY DEF Init, LinkTypes
<1>3. HubTypes
    BY EventTypes, RequestTypes DEF Init, HubTypes
<1>4. ClientTypes
    BY DEF Init, ClientTypes
<1>5. HistoryTypes
    BY Numbers DEF Init, HistoryTypes
<1>6. ConnectedInv
    BY ActorsAssumption DEF Init, ConnectedInv
<1> QED
    BY <1>1, <1>2, <1>3, <1>4, <1>5, <1>6 DEF Typed
\* An event or an answer put into a hand, an item appended to the timeline.
LEMMA HandType ==
    ASSUME SpokeTypes, NEW p, NEW e \in Sent, hand' = [hand EXCEPT ![p] = e]
    PROVE  hand' \in [Producers -> Sent]
BY UpdateType DEF SpokeTypes

LEMMA NewItemType ==
    ASSUME SpokeTypes, items < MaxItems, NEW m \in Ids \cup {NoId}, NewItem(m)
    PROVE  /\ items' \in Items /\ items' = items + 1
           /\ author' \in Seq(Ids \cup {NoId}) /\ Len(author') = items'
BY Numbers, AppendType DEF SpokeTypes, NewItem, Items

LEMMA FollowType ==
    ASSUME HistoryTypes, NEW n \in Items, Follow(n)
    PROVE  followed' \in [Clients -> SUBSET Items]
<1> \A c \in Clients : followed[c] \cup {n} \in SUBSET Items
    BY DEF HistoryTypes
<1> QED
    BY DEF HistoryTypes, Follow

\* A snapshot taken on the Spoke.
LEMMA ReplayedType ==
    ASSUME SpokeTypes, NEW from \in NoCursor .. MaxItems
    PROVE  Replayed(from) \in SUBSET Items
BY Numbers DEF SpokeTypes, Replayed, Items

LEMMA ServedType ==
    ASSUME LinkTypes, NEW kind, Serving(kind)
    PROVE  Head(toSpoke) \in Request /\ Tail(toSpoke) \in Seq(Request)
BY SuffixType DEF LinkTypes, Serving

LEMMA AppendItemTyped ==
    ASSUME Typed, NEW t \in Tasks, AppendItem(t)
    PROVE  Typed'
<1> USE DEF Typed
<1>1. items' \in Items /\ author' \in Seq(Ids \cup {NoId}) /\ Len(author') = items'
    BY NewItemType DEF AppendItem
<1>2. items + 1 \in Items
    BY <1>1, NewItemType DEF AppendItem
<1>3. hand' \in [Producers -> Sent]
    BY <1>2, EventTypes, HandType DEF AppendItem
<1>4. followed' \in [Clients -> SUBSET Items]
    BY <1>2, FollowType DEF AppendItem, HistoryTypes
<1>5. SpokeTypes'
    BY <1>1, <1>3 DEF AppendItem, SpokeTypes
<1>6. HistoryTypes'
    BY <1>4 DEF AppendItem, HistoryTypes
<1> QED
    BY <1>5, <1>6 DEF AppendItem, linkVars, hubVars, clientVars, LinkTypes, HubTypes,
                      ClientTypes, ConnectedInv

LEMMA UpdateTyped ==
    ASSUME Typed, NEW p \in Producers, Update(p)
    PROVE  Typed'
<1> USE DEF Typed
<1>1. op + 1 \in 0 .. MaxUpdates
    BY Numbers DEF SpokeTypes, Update
<1>2. hand' \in [Producers -> Sent]
    BY <1>1, EventTypes, HandType DEF Update
<1>3. SpokeTypes'
    BY <1>1, <1>2 DEF Update, SpokeTypes
<1> QED
    BY <1>3 DEF Update, linkVars, hubVars, clientVars, historyVars, LinkTypes, HubTypes,
                ClientTypes, HistoryTypes, ConnectedInv

LEMMA SendTyped ==
    ASSUME Typed, NEW p \in Producers, Send(p)
    PROVE  Typed'
<1> USE DEF Typed
<1>1. hand' \in [Producers -> Sent]
    BY EventTypes, HandType DEF Send
<1>2. wire' \in Seq(Sent)
    BY AppendType DEF Send, SpokeTypes, LinkTypes
<1>3. SpokeTypes'
    BY <1>1 DEF Send, SpokeTypes
<1>4. LinkTypes'
    BY <1>2 DEF Send, LinkTypes
<1> QED
    BY <1>3, <1>4 DEF Send, hubVars, clientVars, historyVars, HubTypes, ClientTypes,
                      HistoryTypes, ConnectedInv

LEMMA AcceptIntentTyped ==
    ASSUME Typed, AcceptIntent
    PROVE  Typed'
<1> USE DEF Typed
<1>1. Head(toSpoke) \in Request /\ toSpoke' \in Seq(Request)
    BY ServedType DEF AcceptIntent
<1>2. Head(toSpoke).id \in Ids \cup {NoId}
    BY <1>1 DEF Request
<1>3. items' \in Items /\ items' = items + 1 /\ author' \in Seq(Ids \cup {NoId}) /\ Len(author') = items'
    BY <1>2, NewItemType DEF AcceptIntent
<1>4. hand' \in [Producers -> Sent]
    BY <1>2, EventTypes, HandType DEF AcceptIntent
<1>5. wire' \in Seq(Sent)
    BY <1>3, EventTypes, AppendType DEF AcceptIntent, LinkTypes
<1>6. followed' \in [Clients -> SUBSET Items]
    BY <1>3, FollowType DEF AcceptIntent
<1>7. SpokeTypes'
    BY <1>3, <1>4 DEF AcceptIntent, SpokeTypes
<1>8. LinkTypes'
    BY <1>1, <1>5 DEF AcceptIntent, LinkTypes
<1>9. HistoryTypes'
    BY <1>6 DEF AcceptIntent, HistoryTypes
<1> QED
    BY <1>7, <1>8, <1>9 DEF AcceptIntent, hubVars, clientVars, HubTypes, ClientTypes,
                            ConnectedInv

\* The two requests that only put an answer into the handler's hand.
LEMMA AnswerTyped ==
    ASSUME Typed, RefuseIntent \/ TakeSnapshot
    PROVE  Typed'
<1> USE DEF Typed
<1>1. Head(toSpoke) \in Request /\ toSpoke' \in Seq(Request)
    BY ServedType DEF RefuseIntent, TakeSnapshot
<1>2. hand' \in [Producers -> Sent]
    <2>1. CASE RefuseIntent
        BY <1>1, <2>1, EventTypes, HandType DEF RefuseIntent, Request
    <2>2. CASE TakeSnapshot
        <3>1. Replayed(Head(toSpoke).cursor) \in SUBSET Items
            BY <1>1, ReplayedType DEF Request
        <3>2. SnapshotEvent(Replayed(Head(toSpoke).cursor), op, Head(toSpoke).id) \in Sent
            BY <1>1, <3>1, EventTypes DEF Request, SpokeTypes
        <3> QED
            BY <2>2, <3>2, HandType DEF TakeSnapshot
    <2> QED
        BY <2>1, <2>2
<1>3. SpokeTypes'
    BY <1>2 DEF RefuseIntent, TakeSnapshot, SpokeTypes
<1>4. LinkTypes'
    BY <1>1 DEF RefuseIntent, TakeSnapshot, LinkTypes
<1> QED
    BY <1>3, <1>4 DEF RefuseIntent, TakeSnapshot, hubVars, clientVars, historyVars, HubTypes,
                      ClientTypes, HistoryTypes, ConnectedInv

LEMMA SpokeDropsTyped ==
    ASSUME Typed, SpokeDrops
    PROVE  Typed'
<1> USE DEF Typed
<1>1. hand' \in [Producers -> Sent]
    BY EventTypes, HandType DEF SpokeDrops
<1>2. SpokeTypes'
    BY <1>1 DEF SpokeDrops, SpokeTypes
<1>3. LinkTypes'
    BY EmptySequence DEF SpokeDrops, LinkTypes
<1>4. count.spokeDrops + 1 \in 0 .. MaxSpokeDrops
    BY Numbers DEF SpokeDrops, HistoryTypes
<1>5. HistoryTypes'
    BY <1>4 DEF SpokeDrops, HistoryTypes
<1> QED
    BY <1>2, <1>3, <1>5 DEF SpokeDrops, hubVars, clientVars, HubTypes, ClientTypes, ConnectedInv

LEMMA SpokeConnectsTyped ==
    ASSUME Typed, SpokeConnects
    PROVE  Typed'
BY DEF Typed, SpokeConnects, spokeVars, hubVars, clientVars, historyVars, SpokeTypes, LinkTypes,
       HubTypes, ClientTypes, HistoryTypes, ConnectedInv
LEMMA CacheEventTyped ==
    ASSUME Typed, CacheEvent
    PROVE  Typed'
<1> USE DEF Typed
<1>1. Head(wire) \in Sent /\ Tail(wire) \in Seq(Sent)
    BY SuffixType DEF CacheEvent, LinkTypes
<1>2. cache' \in Snapshot
    BY <1>1, AppliedType DEF CacheEvent, HubTypes
<1>3. LinkTypes'
    BY <1>1 DEF CacheEvent, LinkTypes
<1>4. HubTypes'
    BY <1>1, <1>2 DEF CacheEvent, HubTypes
<1> QED
    BY <1>3, <1>4 DEF CacheEvent, spokeVars, clientVars, historyVars, SpokeTypes, ClientTypes,
                      HistoryTypes, ConnectedInv

\* An event put on the connections of clients; to others nothing is sent.
LEMMA ToClientsType ==
    ASSUME ClientTypes, NEW S, NEW e \in Sent, ToClients(S, e)
    PROVE  /\ toClient' \in [Clients -> Seq(Sent)]
           /\ \A c \in Clients \ S : toClient'[c] = toClient[c]
<1> \A c \in Clients : Append(toClient[c], e) \in Seq(Sent)
    BY AppendType DEF ClientTypes
<1> QED
    BY DEF ToClients, ClientTypes

LEMMA DispatchTyped ==
    ASSUME Typed, Dispatch
    PROVE  Typed'
<1> USE DEF Typed
<1>1. current \in Sent /\ current' \in Sent
    BY EventTypes DEF Dispatch, HubTypes
<1>2. current.id \in pending => current.id[1] \in clientUp
    BY DEF ConnectedInv
<1>3. /\ subs' \subseteq clientUp
      /\ toClient' \in [Clients -> Seq(Sent)]
      /\ \A c \in Clients \ clientUp : toClient'[c] = toClient[c]
    <2>1. CASE current.kind = "answer" /\ UNCHANGED <<subs, toClient>>
        BY <2>1 DEF ConnectedInv, ClientTypes
    <2>2. CASE /\ current.id \in pending
               /\ subs' = subs \cup {current.id[1]}
               /\ ToClients({current.id[1]}, current)
        BY <1>1, <1>2, <2>2, ToClientsType DEF ConnectedInv
    <2>3. CASE ToClients(subs, current) /\ UNCHANGED subs
        BY <1>1, <2>3, ToClientsType DEF ConnectedInv
    <2> QED
        BY <2>1, <2>2, <2>3 DEF Dispatch
<1>4. HubTypes'
    BY <1>1 DEF Dispatch, HubTypes
<1>5. ClientTypes'
    BY <1>3 DEF Dispatch, ClientTypes
<1>6. ConnectedInv'
    BY <1>3 DEF Dispatch, ConnectedInv
<1> QED
    BY <1>4, <1>5, <1>6 DEF Dispatch, spokeVars, linkVars, historyVars, SpokeTypes, LinkTypes,
                            HistoryTypes

LEMMA SubscribeTyped ==
    ASSUME Typed, NEW c \in Clients, Subscribe(c)
    PROVE  Typed'
<1> USE DEF Typed
<1>1. /\ Head(fromClient[c]) \in RequestOf(c) /\ Head(fromClient[c]) \in Request
      /\ Tail(fromClient[c]) \in Seq(RequestOf(c)) /\ Tail(fromClient[c]) \in Seq(Request)
    BY SuffixType DEF Subscribe, ClientTypes
<1>2. c \in clientUp
    BY DEF Subscribe, ConnectedInv
<1>3. HubTypes'
    BY <1>1 DEF Subscribe, HubTypes
<1>4. ClientTypes'
    BY <1>1 DEF Subscribe, ClientTypes
<1>5. ConnectedInv'
    BY <1>2 DEF Subscribe, ConnectedInv, ClientTypes, HubTypes
<1> QED
    BY <1>3, <1>4, <1>5 DEF Subscribe, spokeVars, linkVars, historyVars, SpokeTypes, LinkTypes,
                            HistoryTypes

LEMMA ForwardTyped ==
    ASSUME Typed, NEW c \in Clients, Forward(c)
    PROVE  Typed'
<1> USE DEF Typed
<1>1. routing[c] \in RequestOf(c) /\ routing[c] \in Request
    BY DEF Forward, HubTypes
<1>2. c \in clientUp
    BY DEF Forward, ConnectedInv
<1>3. routing[c].id \in Ids /\ routing[c].id[1] = c
    BY <1>1 DEF RequestOf
<1>4. /\ pending' \subseteq Ids /\ \A id \in pending' : id[1] \in clientUp
      /\ toSpoke' \in Seq(Request)
      /\ toClient' \in [Clients -> Seq(Sent)]
      /\ \A d \in Clients \ clientUp : toClient'[d] = toClient[d]
    <2>1. CASE /\ pending' = pending \cup {routing[c].id}
               /\ toSpoke' = Append(toSpoke, routing[c])
               /\ UNCHANGED toClient
        BY <1>1, <1>2, <1>3, <2>1, AppendType DEF HubTypes, LinkTypes, ClientTypes, ConnectedInv
    <2>2. CASE /\ ToClients(IF routing[c].kind = "subscribe" /\ cache.has THEN {c} ELSE {},
                            SnapshotEvent(cache.items, cache.op, routing[c].id))
               /\ UNCHANGED <<pending, toSpoke>>
        <3>1. SnapshotEvent(cache.items, cache.op, routing[c].id) \in Sent
            BY <1>3, EventTypes DEF HubTypes, Snapshot
        <3> QED
            BY <1>2, <2>2, <3>1, ToClientsType DEF HubTypes, LinkTypes, ConnectedInv
    <2> QED
        BY <2>1, <2>2 DEF Forward
<1>5. HubTypes'
    BY <1>4, RequestTypes DEF Forward, HubTypes
<1>6. LinkTypes'
    BY <1>4 DEF Forward, LinkTypes
<1>7. ClientTypes'
    BY <1>4 DEF Forward, ClientTypes
<1>8. ConnectedInv'
    BY <1>4 DEF Forward, ConnectedInv, HubTypes
<1> QED
    BY <1>5, <1>6, <1>7, <1>8 DEF Forward, spokeVars, historyVars, SpokeTypes, HistoryTypes

\* A client takes its next identifier and sends a request with it.
LEMMA NextIdType ==
    ASSUME HistoryTypes, NEW c \in Clients
    PROVE  NextId(c) \in Ids /\ \E n \in Nat : NextId(c) = <<c, n>>
<1> count.requests[c] + 1 \in Nat
    BY DEF HistoryTypes
<1> QED
    BY DEF NextId, Ids

LEMMA FromClientType ==
    ASSUME ClientTypes, NEW c \in Clients, NEW r \in RequestOf(c), r \in Request,
           fromClient' = [fromClient EXCEPT ![c] = Append(@, r)]
    PROVE  /\ fromClient' \in [Clients -> Seq(Request)]
           /\ \A d \in Clients : fromClient'[d] \in Seq(RequestOf(d))
           /\ \A d \in Clients \ {c} : fromClient'[d] = fromClient[d]
<1> Append(fromClient[c], r) \in Seq(Request) /\ Append(fromClient[c], r) \in Seq(RequestOf(c))
    BY AppendType DEF ClientTypes
<1> QED
    BY DEF ClientTypes

LEMMA SelectTyped ==
    ASSUME Typed, NEW c \in Clients, Select(c)
    PROVE  Typed'
<1> USE DEF Typed
<1> DEFINE from == IF view[c].items = {} THEN NoCursor ELSE Max(view[c].items)
           r == Subscription(NextId(c), from)
<1>1. view[c].items \in SUBSET Items
    BY DEF ClientTypes, Snapshot
<1>2. from \in NoCursor .. MaxItems
    BY <1>1, MaxOfItems, Numbers DEF Items, NoCursor
<1>3. r \in RequestOf(c) /\ r \in Request
    BY <1>2, NextIdType, RequestTypes
<1>4. fromClient' = [fromClient EXCEPT ![c] = Append(@, r)]
    BY DEF Select
<1>5. /\ fromClient' \in [Clients -> Seq(Request)]
      /\ \A d \in Clients : fromClient'[d] \in Seq(RequestOf(d))
      /\ \A d \in Clients \ {c} : fromClient'[d] = fromClient[d]
    <2> HIDE DEF r
    <2> QED
        BY <1>3, <1>4, FromClientType
<1>6. cursor' \in [Clients -> NoCursor .. MaxItems]
    <2>1. cursor' = [cursor EXCEPT ![c] = IF from = NoCursor THEN 0 ELSE from]
        BY DEF Select
    <2>2. (IF from = NoCursor THEN 0 ELSE from) \in NoCursor .. MaxItems
        BY <1>2, Numbers DEF NoCursor
    <2> HIDE DEF from
    <2> QED
        BY <2>1, <2>2, UpdateType DEF ClientTypes
<1>7. ClientTypes'
    BY <1>5, <1>6 DEF Select, ClientTypes
<1>8. count.selects + 1 \in 0 .. MaxSelects /\ count.requests[c] + 1 \in Nat
    BY Numbers DEF Select, HistoryTypes
<1>9. HistoryTypes'
    BY <1>8 DEF Select, HistoryTypes
<1>10. ConnectedInv'
    BY <1>5 DEF Select, hubVars, ConnectedInv
<1> QED
    BY <1>7, <1>9, <1>10 DEF Select, spokeVars, linkVars, hubVars, SpokeTypes, LinkTypes, HubTypes

LEMMA ComposeTyped ==
    ASSUME Typed, NEW c \in Clients, Compose(c)
    PROVE  Typed'
<1> USE DEF Typed
<1>1. Message(NextId(c)) \in RequestOf(c) /\ Message(NextId(c)) \in Request
    BY NextIdType, RequestTypes
<1>2. /\ fromClient' \in [Clients -> Seq(Request)]
      /\ \A d \in Clients : fromClient'[d] \in Seq(RequestOf(d))
      /\ \A d \in Clients \ {c} : fromClient'[d] = fromClient[d]
    BY <1>1, FromClientType DEF Compose
<1>3. messages' \in [Clients -> SUBSET Ids]
    BY NextIdType DEF Compose, ClientTypes
<1>4. ClientTypes'
    BY <1>2, <1>3 DEF Compose, ClientTypes
<1>5. count.intents + 1 \in 0 .. MaxIntents /\ count.requests[c] + 1 \in Nat
    BY Numbers DEF Compose, HistoryTypes
<1>6. HistoryTypes'
    BY <1>5 DEF Compose, HistoryTypes
<1>7. ConnectedInv'
    BY <1>2 DEF Compose, hubVars, ConnectedInv
<1> QED
    BY <1>4, <1>6, <1>7 DEF Compose, spokeVars, linkVars, hubVars, SpokeTypes, LinkTypes, HubTypes

LEMMA ReceiveTyped ==
    ASSUME Typed, NEW c \in Clients, Receive(c)
    PROVE  Typed'
<1> USE DEF Typed
<1> DEFINE e == Head(toClient[c])
<1>1. e \in Sent /\ Tail(toClient[c]) \in Seq(Sent)
    BY SuffixType DEF Receive, ClientTypes
<1>2. c \in clientUp
    BY DEF Receive, ConnectedInv
<1>3. toClient' \in [Clients -> Seq(Sent)]
    BY <1>1 DEF Receive, ClientTypes
<1>4. view' \in [Clients -> Snapshot]
    <2>1. Received(view[c], e) \in Snapshot
        BY <1>1, AppliedType DEF Received, ClientTypes
    <2> QED
        BY <2>1 DEF Receive, ClientTypes
<1>5. cursor' \in [Clients -> NoCursor .. MaxItems]
    <2>1. e.kind = "item" => e.n \in NoCursor .. MaxItems
        BY <1>1, Numbers DEF Sent, Items, NoCursor
    <2> QED
        BY <2>1 DEF Receive, ClientTypes
<1>6. messages' \in [Clients -> SUBSET Ids]
    BY DEF Receive, ClientTypes
<1>7. ClientTypes'
    BY <1>3, <1>4, <1>5, <1>6 DEF Receive, ClientTypes
<1>8. ConnectedInv'
    BY <1>2 DEF Receive, hubVars, ConnectedInv, ClientTypes
<1> QED
    BY <1>7, <1>8 DEF Receive, spokeVars, linkVars, hubVars, SpokeTypes, LinkTypes, HubTypes,
                      HistoryTypes

LEMMA ClientDropsTyped ==
    ASSUME Typed, NEW c \in Clients, ClientDrops(c)
    PROVE  Typed'
<1> USE DEF Typed
<1>1. HubTypes'
    BY RequestTypes DEF ClientDrops, HubTypes
<1>2. fromClient' \in [Clients -> Seq(Request)] /\ toClient' \in [Clients -> Seq(Sent)]
    BY UpdateType, EmptySequence DEF ClientDrops, ClientTypes
<1>3. ClientTypes'
    BY <1>2, EmptySequence DEF ClientDrops, ClientTypes
<1>4. count.drops + 1 \in 0 .. MaxClientDrops
    BY Numbers DEF ClientDrops, HistoryTypes
<1>5. HistoryTypes'
    BY <1>4 DEF ClientDrops, HistoryTypes
<1>6. \A id \in pending' : id[1] \in clientUp'
    BY DEF ClientDrops, Requested, ConnectedInv
<1>7. ConnectedInv'
    BY <1>6 DEF ClientDrops, ConnectedInv, ClientTypes, HubTypes
<1> QED
    BY <1>1, <1>3, <1>5, <1>7 DEF ClientDrops, spokeVars, linkVars, SpokeTypes, LinkTypes

LEMMA ClientConnectsTyped ==
    ASSUME Typed, NEW c \in Clients, ClientConnects(c)
    PROVE  Typed'
<1> USE DEF Typed
<1> DEFINE r == Subscription(NextId(c), cursor[c])
<1>1. r \in RequestOf(c) /\ r \in Request
    BY NextIdType, RequestTypes DEF ClientTypes
<1>2. <<r>> \in Seq(RequestOf(c)) /\ <<r>> \in Seq(Request)
    BY <1>1
<1>3. /\ fromClient' \in [Clients -> Seq(Request)]
      /\ \A d \in Clients : fromClient'[d] \in Seq(RequestOf(d))
      /\ \A d \in Clients \ {c} : fromClient'[d] = fromClient[d]
    <2>1. fromClient' = fromClient \/ fromClient' = [fromClient EXCEPT ![c] = <<r>>]
        BY DEF ClientConnects
    <2> HIDE DEF r
    <2> QED
        BY <1>2, <2>1 DEF ClientTypes
<1>4. ClientTypes'
    BY <1>3 DEF ClientConnects, ClientTypes
<1>5. count.requests[c] + 1 \in Nat
    BY DEF HistoryTypes
<1>6. HistoryTypes'
    BY <1>5 DEF ClientConnects, HistoryTypes
<1>7. ConnectedInv'
    BY <1>3 DEF ClientConnects, hubVars, ConnectedInv
<1> QED
    BY <1>4, <1>6, <1>7 DEF ClientConnects, spokeVars, linkVars, hubVars, SpokeTypes, LinkTypes,
                            HubTypes

LEMMA NextTyped == Typed /\ [Next]_vars => Typed'
<1> SUFFICES ASSUME Typed, [Next]_vars PROVE Typed'
    OBVIOUS
<1>1. CASE Next
    BY <1>1, AppendItemTyped, UpdateTyped, SendTyped, AcceptIntentTyped, AnswerTyped,
       SpokeDropsTyped, SpokeConnectsTyped, CacheEventTyped, DispatchTyped, SubscribeTyped,
       ForwardTyped, SelectTyped, ComposeTyped, ReceiveTyped, ClientDropsTyped,
       ClientConnectsTyped DEF Next, HubStep
<1>2. CASE UNCHANGED vars
    BY <1>2 DEF vars, spokeVars, linkVars, hubVars, clientVars, historyVars, Typed, SpokeTypes,
                LinkTypes, HubTypes, ClientTypes, HistoryTypes, ConnectedInv
<1> QED
    BY <1>1, <1>2

LEMMA AlwaysTyped == Spec => []Typed
BY InitTyped, NextTyped, PTL DEF Spec

\* The Spoke's timeline, what is on the connections, the Hub's maps and the
\* clients' views have their types (all of main.rs and gui.rs that is modelled here).
THEOREM TypeCorrect == Spec => []TypeOK
BY AlwaysTyped, TypedIsTypeOK, PTL
-----------------------------------------------------------------------------
(* The cache *)

LEMMA AppendIndex ==
    ASSUME NEW S, NEW s \in Seq(S), NEW e \in S
    PROVE  /\ Len(Append(s, e)) = Len(s) + 1 /\ Len(s) \in Nat
           /\ \A j \in 1 .. Len(s) : Append(s, e)[j] = s[j]
           /\ Append(s, e)[Len(s) + 1] = e
OBVIOUS

LEMMA TailIndex ==
    ASSUME NEW S, NEW s \in Seq(S), s # <<>>
    PROVE  /\ Len(Tail(s)) = Len(s) - 1 /\ Len(s) \in Nat \ {0}
           /\ \A j \in 1 .. Len(Tail(s)) : Tail(s)[j] = s[j + 1]
           /\ Head(s) = s[1]
OBVIOUS

LEMMA AppliedGrows ==
    ASSUME NEW old \in Snapshot, NEW e \in Sent
    PROVE  /\ old.items \subseteq Applied(old, e).items
           /\ old.has => Applied(old, e).has
<1>1. CASE e.kind = "snapshot"
    BY <1>1 DEF Applied, Merged
<1>2. CASE e.kind = "item" /\ old.has
    BY <1>2 DEF Applied, Snapshot
<1>3. CASE e.kind = "op" /\ old.has
    BY <1>3 DEF Applied, Snapshot
<1>4. CASE e.kind # "snapshot" /\ ~ (e.kind \in {"item", "op"} /\ old.has)
    BY <1>4 DEF Applied
<1> QED
    BY <1>1, <1>2, <1>3, <1>4

\* What an event adds, and when a snapshot is there after it.
LEMMA AppliedAdds ==
    ASSUME NEW old \in Snapshot, NEW e \in Sent, NEW x, x \in Applied(old, e).items
    PROVE  \/ x \in old.items
           \/ e.kind = "snapshot" /\ x \in e.items
           \/ e.kind = "item" /\ old.has /\ x = e.n
<1>1. CASE e.kind = "snapshot"
    BY <1>1 DEF Applied, Merged
<1>2. CASE e.kind = "item" /\ old.has
    BY <1>2 DEF Applied, Snapshot
<1>3. CASE e.kind = "op" /\ old.has
    BY <1>3 DEF Applied, Snapshot
<1>4. CASE e.kind # "snapshot" /\ ~ (e.kind \in {"item", "op"} /\ old.has)
    BY <1>4 DEF Applied
<1> QED
    BY <1>1, <1>2, <1>3, <1>4

LEMMA AppliedHas ==
    ASSUME NEW old \in Snapshot, NEW e \in Sent
    PROVE  Applied(old, e).has <=> old.has \/ e.kind = "snapshot"
<1>1. CASE e.kind = "snapshot"
    BY <1>1 DEF Applied, Merged
<1>2. CASE e.kind = "item" /\ old.has
    BY <1>2 DEF Applied, Snapshot
<1>3. CASE e.kind = "op" /\ old.has
    BY <1>3 DEF Applied, Snapshot
<1>4. CASE e.kind # "snapshot" /\ ~ (e.kind \in {"item", "op"} /\ old.has)
    BY <1>4 DEF Applied
<1> QED
    BY <1>1, <1>2, <1>3, <1>4

LEMMA AppliedSnapshot ==
    ASSUME NEW old, NEW e, e.kind = "snapshot"
    PROVE  e.items \subseteq Applied(old, e).items
BY DEF Applied, Merged

LEMMA AppliedItem ==
    ASSUME NEW old \in Snapshot, NEW e, e.kind = "item", old.has
    PROVE  e.n \in Applied(old, e).items
BY DEF Applied, Snapshot

LEMMA InitCached == Init => CacheInv
<1> SUFFICES ASSUME Init PROVE CacheInv
    OBVIOUS
<1>1. \A c \in Clients : toClient[c] = <<>>
    BY DEF Init
<1>2. current.kind = "none"
    BY DEF Init, NoEvent
<1>3. \A c \in Clients : view[c] = NoView \/ (view[c] = FirstView /\ cache = FirstView)
    BY DEF Init
<1> QED
    BY <1>1, <1>2, <1>3 DEF CacheInv, CacheCoversViews, NoView, FirstView

LEMMA CacheEventCached ==
    ASSUME Typed, CacheInv, CacheEvent
    PROVE  CacheInv'
<1> DEFINE e == Head(wire)
<1>1. e \in Sent /\ cache \in Snapshot
    BY SuffixType DEF CacheEvent, Typed, LinkTypes, HubTypes
<1>2. /\ cache' = Applied(cache, e) /\ current' = e
      /\ UNCHANGED <<view, toClient>>
    BY DEF CacheEvent, clientVars
<1> HIDE DEF e
<1>3. cache.items \subseteq cache'.items /\ (cache.has => cache'.has)
    BY <1>1, <1>2, AppliedGrows
<1>4. ASSUME e.kind = "snapshot" PROVE cache'.has /\ e.items \subseteq cache'.items
    BY <1>1, <1>2, <1>4, AppliedHas, AppliedSnapshot
<1>5. ASSUME e.kind = "item", cache'.has PROVE e.n \in cache'.items
    <2>1. cache.has
        BY <1>1, <1>2, <1>5, AppliedHas
    <2> QED
        BY <1>1, <1>2, <1>5, <2>1, AppliedItem
<1>6. \A c \in Clients : \A j \in 1 .. Len(toClient'[c]) :
          LET f == toClient'[c][j]
          IN  /\ f.kind = "snapshot" => cache'.has /\ f.items \subseteq cache'.items
              /\ f.kind = "item" =>
                    \/ f.n \in cache'.items
                    \/ /\ ~ view'[c].has
                       /\ \A i \in 1 .. j - 1 : toClient'[c][i].kind # "snapshot"
    BY <1>2, <1>3 DEF CacheInv
<1>7. CacheCoversViews' /\ \A c \in Clients : view'[c].has => cache'.has
    BY <1>2, <1>3 DEF CacheInv, CacheCoversViews
<1> QED
    BY <1>2, <1>4, <1>5, <1>6, <1>7 DEF CacheInv

\* An event may be put on a client's connection when the cache has what it
\* carries, or when nobody has a snapshot.
LEMMA ToClientsCached ==
    ASSUME Typed, CacheInv, NEW S, NEW e \in Sent, ToClients(S, e),
           e.kind = "snapshot" => cache.has /\ e.items \subseteq cache.items,
           e.kind = "item" => e.n \in cache.items \/ ~ cache.has,
           UNCHANGED <<view, cache>>,
           \/ UNCHANGED current
           \/ current' = NoEvent
    PROVE  CacheInv'
<1>1. current'.kind = "none" \/ current' = current
    BY DEF NoEvent
<1> SUFFICES ASSUME NEW c \in Clients, NEW j \in 1 .. Len(toClient'[c])
             PROVE  LET f == toClient'[c][j]
                    IN  /\ f.kind = "snapshot" => cache.has /\ f.items \subseteq cache.items
                        /\ f.kind = "item" =>
                              \/ f.n \in cache.items
                              \/ /\ ~ view[c].has
                                 /\ \A i \in 1 .. j - 1 : toClient'[c][i].kind # "snapshot"
    BY <1>1 DEF CacheInv, CacheCoversViews
<1>2. toClient[c] \in Seq(Sent)
    BY DEF Typed, ClientTypes
<1>3. CASE toClient'[c] = toClient[c]
    BY <1>3 DEF CacheInv
<1>4. CASE toClient'[c] = Append(toClient[c], e)
    <2>1. /\ Len(toClient'[c]) = Len(toClient[c]) + 1 /\ Len(toClient[c]) \in Nat
          /\ \A i \in 1 .. Len(toClient[c]) : toClient'[c][i] = toClient[c][i]
          /\ toClient'[c][Len(toClient[c]) + 1] = e
        BY <1>2, <1>4, AppendIndex
    <2>2. CASE j \in 1 .. Len(toClient[c])
        <3>1. \A i \in 1 .. j : toClient'[c][i] = toClient[c][i]
            BY <2>1, <2>2
        <3> QED
            BY <2>2, <3>1 DEF CacheInv
    <2>3. CASE j = Len(toClient[c]) + 1
        <3>1. toClient'[c][j] = e /\ \A i \in 1 .. j - 1 : i \in 1 .. Len(toClient[c])
            BY <2>1, <2>3
        <3>2. ~ cache.has => \A i \in 1 .. j - 1 : toClient'[c][i].kind # "snapshot"
            BY <2>1, <3>1 DEF CacheInv
        <3>3. ~ cache.has => ~ view[c].has
            BY DEF CacheInv
        <3> QED
            BY <3>1, <3>2, <3>3
    <2> QED
        BY <2>1, <2>2, <2>3
<1> QED
    BY <1>3, <1>4 DEF ToClients, Typed, ClientTypes

LEMMA DispatchCached ==
    ASSUME Typed, CacheInv, Dispatch
    PROVE  CacheInv'
<1>1. /\ current' = NoEvent /\ UNCHANGED <<view, cache>>
      /\ current \in Sent
    BY DEF Dispatch, Typed, HubTypes
<1>2. CASE UNCHANGED toClient
    BY <1>1, <1>2 DEF CacheInv, CacheCoversViews, NoEvent
<1>3. CASE ToClients({current.id[1]}, current) \/ ToClients(subs, current)
    BY <1>1, <1>3, ToClientsCached DEF CacheInv
<1> QED
    BY <1>2, <1>3 DEF Dispatch

LEMMA ForwardCached ==
    ASSUME Typed, CacheInv, NEW c \in Clients, Forward(c)
    PROVE  CacheInv'
<1> DEFINE e == SnapshotEvent(cache.items, cache.op, routing[c].id)
           S == IF routing[c].kind = "subscribe" /\ cache.has THEN {c} ELSE {}
<1>1. UNCHANGED <<view, cache, current>>
    BY DEF Forward
<1>2. CASE UNCHANGED toClient
    BY <1>1, <1>2 DEF CacheInv, CacheCoversViews
<1>3. CASE ToClients(S, e)
    <2>1. e \in Sent /\ e.items = cache.items /\ e.kind = "snapshot"
        BY EventTypes DEF Forward, SnapshotEvent, Typed, HubTypes, Snapshot, RequestOf
    <2>2. CASE cache.has
        BY <1>1, <1>3, <2>1, <2>2, ToClientsCached
    <2>3. CASE ~ cache.has
        BY <1>1, <1>2, <1>3, <2>3 DEF ToClients, Typed, ClientTypes
    <2> QED
        BY <2>2, <2>3
<1> QED
    BY <1>2, <1>3 DEF Forward

LEMMA ReceiveCached ==
    ASSUME Typed, CacheInv, NEW c \in Clients, Receive(c)
    PROVE  CacheInv'
<1> DEFINE e == Head(toClient[c])
<1>1. /\ toClient[c] \in Seq(Sent) /\ toClient[c] # <<>> /\ e \in Sent
      /\ view[c] \in Snapshot
    BY SuffixType DEF Receive, Typed, ClientTypes
<1>2. /\ toClient'[c] = Tail(toClient[c])
      /\ view'[c] = Applied(view[c], e)
      /\ \A d \in Clients \ {c} : toClient'[d] = toClient[d] /\ view'[d] = view[d]
      /\ UNCHANGED <<cache, current>>
    BY DEF Receive, Received, hubVars, Typed, ClientTypes
<1>3. /\ Len(toClient'[c]) = Len(toClient[c]) - 1 /\ Len(toClient[c]) \in Nat \ {0}
      /\ \A j \in 1 .. Len(toClient'[c]) : toClient'[c][j] = toClient[c][j + 1]
      /\ e = toClient[c][1]
    BY <1>1, <1>2, TailIndex
<1>4. /\ e.kind = "snapshot" => cache.has /\ e.items \subseteq cache.items
      /\ e.kind = "item" => e.n \in cache.items \/ ~ view[c].has
    BY <1>3 DEF CacheInv
<1> HIDE DEF e
<1>5. ASSUME NEW x \in view'[c].items PROVE x \in cache.items
    <2>1. \/ x \in view[c].items
          \/ e.kind = "snapshot" /\ x \in e.items
          \/ e.kind = "item" /\ view[c].has /\ x = e.n
        BY <1>1, <1>2, <1>5, AppliedAdds
    <2> QED
        BY <1>4, <2>1 DEF CacheInv, CacheCoversViews
<1>6. view'[c].has <=> view[c].has \/ e.kind = "snapshot"
    BY <1>1, <1>2, AppliedHas
<1>7. view'[c].has => cache.has
    BY <1>4, <1>6 DEF CacheInv
<1>8. ASSUME NEW j \in 1 .. Len(toClient'[c])
      PROVE  LET f == toClient'[c][j]
             IN  /\ f.kind = "snapshot" => cache.has /\ f.items \subseteq cache.items
                 /\ f.kind = "item" =>
                       \/ f.n \in cache.items
                       \/ /\ ~ view'[c].has
                          /\ \A i \in 1 .. j - 1 : toClient'[c][i].kind # "snapshot"
    <2>1. j + 1 \in 1 .. Len(toClient[c]) /\ toClient'[c][j] = toClient[c][j + 1]
        BY <1>3
    <2>2. ASSUME \A i \in 1 .. j : toClient[c][i].kind # "snapshot"
          PROVE  /\ e.kind # "snapshot"
                 /\ \A i \in 1 .. j - 1 : toClient'[c][i].kind # "snapshot"
        <3>1. e.kind # "snapshot"
            BY <1>3, <2>2
        <3>2. \A i \in 1 .. j - 1 : i \in 1 .. Len(toClient'[c]) /\ i + 1 \in 1 .. j
            BY <1>3
        <3> QED
            BY <1>3, <2>2, <3>1, <3>2
    <2>3. 1 .. (j + 1) - 1 = 1 .. j
        OBVIOUS
    <2> QED
        BY <1>6, <2>1, <2>2, <2>3 DEF CacheInv
<1>9. CacheCoversViews' /\ \A d \in Clients : view'[d].has => cache'.has
    BY <1>2, <1>5, <1>7 DEF CacheInv, CacheCoversViews
<1>10. \A d \in Clients \ {c} : \A j \in 1 .. Len(toClient'[d]) :
          LET f == toClient'[d][j]
          IN  /\ f.kind = "snapshot" => cache.has /\ f.items \subseteq cache.items
              /\ f.kind = "item" =>
                    \/ f.n \in cache.items
                    \/ /\ ~ view'[d].has
                       /\ \A i \in 1 .. j - 1 : toClient'[d][i].kind # "snapshot"
    BY <1>2 DEF CacheInv
<1> QED
    BY <1>2, <1>8, <1>9, <1>10 DEF CacheInv

LEMMA ClientDropsCached ==
    ASSUME Typed, CacheInv, NEW c \in Clients, ClientDrops(c)
    PROVE  CacheInv'
<1>1. /\ toClient'[c] = <<>>
      /\ \A d \in Clients \ {c} : toClient'[d] = toClient[d]
      /\ UNCHANGED <<view, cache, current>>
    BY DEF ClientDrops, Typed, ClientTypes
<1> QED
    BY <1>1 DEF CacheInv, CacheCoversViews

LEMMA NextCached == Typed /\ CacheInv /\ [Next]_vars => CacheInv'
<1> SUFFICES ASSUME Typed, CacheInv, [Next]_vars PROVE CacheInv'
    OBVIOUS
<1> DEFINE Idles == UNCHANGED <<view, cache, toClient, current>>
<1>1. CASE Idles
    BY <1>1 DEF CacheInv, CacheCoversViews
<1>2. ASSUME NEW p \in Producers, Update(p) \/ Send(p) \/ AppendItem(p) PROVE Idles
    BY <1>2 DEF Update, Send, AppendItem, hubVars, clientVars
<1>3. AcceptIntent \/ RefuseIntent \/ TakeSnapshot \/ SpokeDrops \/ SpokeConnects => Idles
    BY DEF AcceptIntent, RefuseIntent, TakeSnapshot, SpokeDrops, SpokeConnects, hubVars,
           clientVars
<1>4. ASSUME NEW c \in Clients, Subscribe(c) \/ Select(c) \/ Compose(c) \/ ClientConnects(c)
      PROVE  Idles
    BY <1>4 DEF Subscribe, Select, Compose, ClientConnects, hubVars
<1>5. UNCHANGED vars => Idles
    BY DEF vars, hubVars, clientVars
<1> HIDE DEF Idles
<1> QED
    BY <1>1, <1>2, <1>3, <1>4, <1>5, CacheEventCached, DispatchCached, ForwardCached,
       ReceiveCached, ClientDropsCached DEF Next, HubStep, Producers

\* However subscriptions, snapshots from different cursors and items overtake
\* each other, the Hub's cache never has less than a client shows (cache_event,
\* hub/src/main.rs; merge_snapshot, gui.rs).
THEOREM CacheIsEnough == Spec => []CacheCoversViews
<1>1. CacheInv => CacheCoversViews
    BY DEF CacheInv
<1> QED
    BY <1>1, AlwaysTyped, InitCached, NextCached, PTL DEF Spec

-----------------------------------------------------------------------------
(* Items on their way *)

LEMMA ItemsOfAppend ==
    ASSUME NEW q \in Seq(Sent), NEW e \in Sent
    PROVE  ItemsIn(q) \cup OneItem(e) \subseteq ItemsIn(Append(q, e))
<1>1. \A j \in 1 .. Len(q) : j \in 1 .. Len(Append(q, e)) /\ Append(q, e)[j] = q[j]
    BY AppendIndex
<1>2. Len(q) + 1 \in 1 .. Len(Append(q, e)) /\ Append(q, e)[Len(q) + 1] = e
    BY AppendIndex
<1> QED
    BY <1>1, <1>2 DEF ItemsIn, OneItem

LEMMA ItemsOfTail ==
    ASSUME NEW q \in Seq(Sent), q # <<>>
    PROVE  ItemsIn(q) \subseteq OneItem(Head(q)) \cup ItemsIn(Tail(q))
<1> SUFFICES ASSUME NEW j \in 1 .. Len(q), q[j].kind = "item"
             PROVE  q[j].n \in OneItem(Head(q)) \cup ItemsIn(Tail(q))
    BY DEF ItemsIn
<1>1. CASE j = 1
    BY <1>1, TailIndex DEF OneItem
<1>2. CASE j # 1
    <2>1. j - 1 \in 1 .. Len(Tail(q)) /\ Tail(q)[j - 1] = q[(j - 1) + 1] /\ (j - 1) + 1 = j
        BY <1>2, TailIndex
    <2> QED
        BY <2>1 DEF ItemsIn
<1> QED
    BY <1>1, <1>2

LEMMA ItemsOfCons ==
    ASSUME NEW q \in Seq(Sent), NEW e \in Sent
    PROVE  OneItem(e) \cup ItemsIn(q) \subseteq ItemsIn(<<e>> \o q)
<1> DEFINE r == <<e>> \o q
<1>1. 1 \in 1 .. Len(r) /\ r[1] = e
    OBVIOUS
<1>2. \A j \in 1 .. Len(q) : j + 1 \in 1 .. Len(r) /\ r[j + 1] = q[j]
    OBVIOUS
<1> HIDE DEF r
<1>3. OneItem(e) \subseteq ItemsIn(r)
    BY <1>1 DEF ItemsIn, OneItem
<1>4. ItemsIn(q) \subseteq ItemsIn(r)
    BY <1>2 DEF ItemsIn
<1> QED
    BY <1>3, <1>4 DEF r

LEMMA ArriveImplies == Typed /\ ArriveInv => FollowedItemsArrive
<1> SUFFICES ASSUME Typed, ArriveInv, NEW c \in Clients, NEW n \in followed[c]
             PROVE  n \in view[c].items \cup Travelling(c)
    BY DEF FollowedItemsArrive
<1>1. wire \in Seq(Sent) /\ current \in Sent
    BY DEF Typed, LinkTypes, HubTypes
<1>2. OnWire(n) => n \in ItemsIn(<<current>> \o wire)
    BY <1>1, ItemsOfCons DEF OnWire
<1>3. InHand(n) => n \in {hand[t].n : t \in {u \in Tasks \ orphan : hand[u].kind = "item"}}
    BY DEF InHand, OneItem
<1> QED
    BY <1>2, <1>3 DEF ArriveInv, Travelling, Shown, OnConnection

LEMMA InitArrives == Init => FollowInv /\ ArriveInv
BY DEF Init, FollowInv, ArriveInv

\* An item enters the set of those who follow at that moment.
LEMMA FollowKeeps ==
    ASSUME Typed, FollowInv, NEW n, Follow(n), UNCHANGED <<subs, view>>
    PROVE  /\ FollowInv'
           /\ \A c \in Clients : followed'[c] \subseteq followed[c] \cup {n}
<1>1. \A c \in Clients : \/ followed'[c] = followed[c]
                         \/ c \in Following /\ followed'[c] = followed[c] \cup {n}
    BY DEF Follow, Typed, HistoryTypes
<1> QED
    BY <1>1 DEF FollowInv, Following

LEMMA AppendItemArrives ==
    ASSUME Typed, FollowInv, ArriveInv, NEW t \in Tasks, AppendItem(t)
    PROVE  FollowInv' /\ ArriveInv'
<1>1. /\ UNCHANGED <<orphan, wire, current, subs, toClient, view>>
      /\ OneItem(hand[t]) = {} /\ hand'[t] = ItemEvent(items + 1)
      /\ \A u \in Tasks \ {t} : hand'[u] = hand[u]
    BY DEF AppendItem, linkVars, hubVars, clientVars, Idle, OneItem, Typed, SpokeTypes, Producers
<1>2. OneItem(hand'[t]) = {items + 1}
    BY <1>1 DEF OneItem, ItemEvent, NoEvent
<1>3. \A n : InHand(n) => InHand(n)'
    BY <1>1 DEF InHand, OneItem
<1>4. \A c \in Clients : \A n : /\ Shown(c, n)' <=> Shown(c, n)
                                /\ OnConnection(c, n)' <=> OnConnection(c, n)
                                /\ OnWire(n)' <=> OnWire(n)
    BY <1>1 DEF Shown, OnConnection, OnWire, OneItem, ItemsIn
<1>5. CASE t \in orphan
    BY <1>1, <1>3, <1>4, <1>5 DEF AppendItem, FollowInv, ArriveInv
<1>6. CASE t \notin orphan
    <2>1. \A n \in {items + 1} : InHand(n)'
        BY <1>1, <1>2, <1>6 DEF InHand
    <2>2. /\ FollowInv'
          /\ \A c \in Clients : followed'[c] \subseteq followed[c] \cup {items + 1}
        BY <1>1, <1>6, FollowKeeps DEF AppendItem
    <2> QED
        BY <1>3, <1>4, <2>1, <2>2 DEF ArriveInv
<1> QED
    BY <1>5, <1>6

LEMMA SendArrives ==
    ASSUME Typed, FollowInv, ArriveInv, NEW p \in Producers, Send(p)
    PROVE  FollowInv' /\ ArriveInv'
<1>1. /\ UNCHANGED <<current, subs, toClient, view, followed>>
      /\ orphan' = orphan \ {p}
      /\ \A u \in Tasks \ {p} : hand'[u] = hand[u]
      /\ wire \in Seq(Sent) /\ hand[p] \in Sent
    BY DEF Send, hubVars, clientVars, historyVars, Typed, SpokeTypes, LinkTypes, Producers
<1>2. ItemsIn(wire) \subseteq ItemsIn(wire') /\ (p \notin orphan => OneItem(hand[p]) \subseteq ItemsIn(wire'))
    BY <1>1, ItemsOfAppend DEF Send
<1>3. \A n : /\ OnWire(n) => OnWire(n)'
             /\ InHand(n) => InHand(n)' \/ OnWire(n)'
    BY <1>1, <1>2 DEF OnWire, InHand, OneItem
<1>4. \A c \in Clients : \A n : /\ Shown(c, n)' <=> Shown(c, n)
                                /\ OnConnection(c, n)' <=> OnConnection(c, n)
    BY <1>1 DEF Shown, OnConnection, ItemsIn
<1> QED
    BY <1>1, <1>3, <1>4 DEF FollowInv, ArriveInv

LEMMA AcceptIntentArrives ==
    ASSUME Typed, FollowInv, ArriveInv, AcceptIntent
    PROVE  FollowInv' /\ ArriveInv'
<1> DEFINE e == ItemEvent(items + 1)
<1>1. /\ UNCHANGED <<orphan, current, subs, toClient, view>>
      /\ wire' = Append(wire, e) /\ wire \in Seq(Sent)
      /\ \A u \in Tasks : hand'[u] = hand[u]
    BY ActorsAssumption DEF AcceptIntent, hubVars, clientVars, Typed, SpokeTypes, LinkTypes, Producers
<1>2. items + 1 \in Items /\ e \in Sent /\ OneItem(e) = {items + 1}
    <2>1. items + 1 \in Items
        BY Numbers DEF AcceptIntent, Typed, SpokeTypes, Items
    <2> QED
        BY <2>1, EventTypes DEF OneItem, ItemEvent, NoEvent
<1> HIDE DEF e
<1>3. /\ \A n \in {items + 1} : OnWire(n)'
      /\ \A n : OnWire(n) => OnWire(n)'
    <2>1. ItemsIn(wire) \cup OneItem(e) \subseteq ItemsIn(wire')
        BY <1>1, <1>2, ItemsOfAppend
    <2>2. OneItem(current)' = OneItem(current) /\ ItemsIn(wire)' = ItemsIn(wire')
        BY <1>1 DEF OneItem, ItemsIn
    <2> QED
        BY <1>2, <2>1, <2>2 DEF OnWire
<1>4. \A c \in Clients : \A n : /\ Shown(c, n)' <=> Shown(c, n)
                                /\ OnConnection(c, n)' <=> OnConnection(c, n)
                                /\ InHand(n)' <=> InHand(n)
    BY <1>1 DEF Shown, OnConnection, InHand, OneItem, ItemsIn
<1>5. /\ FollowInv'
      /\ \A c \in Clients : followed'[c] \subseteq followed[c] \cup {items + 1}
    BY <1>1, FollowKeeps DEF AcceptIntent
<1> QED
    BY <1>3, <1>4, <1>5 DEF ArriveInv

LEMMA CacheEventArrives ==
    ASSUME Typed, FollowInv, ArriveInv, CacheEvent
    PROVE  FollowInv' /\ ArriveInv'
<1>1. /\ UNCHANGED <<orphan, hand, subs, toClient, view, followed>>
      /\ OneItem(current) = {} /\ current' = Head(wire) /\ wire' = Tail(wire)
      /\ wire \in Seq(Sent) /\ wire # <<>>
    BY DEF CacheEvent, spokeVars, clientVars, historyVars, OneItem, Typed, LinkTypes
<1>2. \A n : OnWire(n) => OnWire(n)'
    <2>1. ItemsIn(wire) \subseteq OneItem(Head(wire)) \cup ItemsIn(Tail(wire))
        BY <1>1, ItemsOfTail
    <2>2. OneItem(current)' = OneItem(Head(wire)) /\ ItemsIn(wire)' = ItemsIn(Tail(wire))
        BY <1>1 DEF OneItem, ItemsIn
    <2> QED
        BY <1>1, <2>1, <2>2 DEF OnWire
<1>3. \A c \in Clients : \A n : /\ Shown(c, n)' <=> Shown(c, n)
                                /\ OnConnection(c, n)' <=> OnConnection(c, n)
                                /\ InHand(n)' <=> InHand(n)
    BY <1>1 DEF Shown, OnConnection, InHand, OneItem, ItemsIn
<1> QED
    BY <1>1, <1>2, <1>3 DEF FollowInv, ArriveInv

\* What was on a client's connection is still on it when events were added.
LEMMA ToClientsKeeps ==
    ASSUME Typed, NEW S, NEW e \in Sent, ToClients(S, e)
    PROVE  \A c \in Clients : /\ ItemsIn(toClient[c]) \subseteq ItemsIn(toClient'[c])
                              /\ c \in S => OneItem(e) \subseteq ItemsIn(toClient'[c])
<1> SUFFICES ASSUME NEW c \in Clients
             PROVE  /\ ItemsIn(toClient[c]) \subseteq ItemsIn(toClient'[c])
                    /\ c \in S => OneItem(e) \subseteq ItemsIn(toClient'[c])
    OBVIOUS
<1>1. toClient[c] \in Seq(Sent)
    BY DEF Typed, ClientTypes
<1>2. toClient'[c] = IF c \in S THEN Append(toClient[c], e) ELSE toClient[c]
    BY DEF ToClients
<1> QED
    BY <1>1, <1>2, ItemsOfAppend

LEMMA DispatchArrives ==
    ASSUME Typed, FollowInv, ArriveInv, Dispatch
    PROVE  FollowInv' /\ ArriveInv'
<1>1. /\ UNCHANGED <<orphan, hand, wire, view, followed>>
      /\ subs \subseteq subs' /\ current' = NoEvent /\ current \in Sent
    BY DEF Dispatch, spokeVars, linkVars, historyVars, Typed, HubTypes
<1>2. current.kind = "item" => current.id \notin pending
    BY <1>1 DEF Sent, Typed, HubTypes, Ids, NoId
<1>3. \A c \in Clients : ItemsIn(toClient[c]) \subseteq ItemsIn(toClient'[c])
    BY <1>1, ToClientsKeeps DEF Dispatch
<1>4. \A c \in subs : OneItem(current) \subseteq ItemsIn(toClient'[c])
    <2>1. CASE current.kind = "item"
        <3>1. ToClients(subs, current) /\ subs \subseteq Clients
            BY <1>2, <2>1 DEF Dispatch, Typed, ConnectedInv, ClientTypes
        <3> QED
            BY <1>1, <3>1, ToClientsKeeps
    <2> QED
        BY <2>1 DEF OneItem
<1>5. FollowInv'
    BY <1>1 DEF FollowInv
<1>6. \A n : /\ OnWire(n) => OnWire(n)' \/ n \in OneItem(current)
             /\ InHand(n) => InHand(n)'
    BY <1>1 DEF OnWire, InHand, OneItem, ItemsIn
<1>7. \A c \in Clients : \A n : /\ Shown(c, n) => Shown(c, n)'
                                /\ OnConnection(c, n) => OnConnection(c, n)'
                                /\ c \in subs /\ n \in OneItem(current) => OnConnection(c, n)'
    BY <1>1, <1>3, <1>4 DEF Shown, OnConnection, ItemsIn
<1> QED
    BY <1>1, <1>5, <1>6, <1>7 DEF FollowInv, ArriveInv

LEMMA ForwardArrives ==
    ASSUME Typed, FollowInv, ArriveInv, NEW c \in Clients, Forward(c)
    PROVE  FollowInv' /\ ArriveInv'
<1> DEFINE e == SnapshotEvent(cache.items, cache.op, routing[c].id)
           S == IF routing[c].kind = "subscribe" /\ cache.has THEN {c} ELSE {}
<1>1. /\ UNCHANGED <<orphan, hand, wire, current, subs, view, followed>>
      /\ UNCHANGED toClient \/ ToClients(S, e)
    BY DEF Forward, spokeVars, historyVars
<1>2. e \in Sent
    BY EventTypes DEF Forward, Typed, HubTypes, Snapshot, RequestOf
<1> HIDE DEF e, S
<1>3. \A d \in Clients : ItemsIn(toClient[d]) \subseteq ItemsIn(toClient'[d])
    BY <1>1, <1>2, ToClientsKeeps
<1>4. \A d \in Clients : \A n : /\ Shown(d, n) => Shown(d, n)'
                                /\ OnConnection(d, n) => OnConnection(d, n)'
                                /\ OnWire(n) => OnWire(n)'
                                /\ InHand(n) => InHand(n)'
    BY <1>1, <1>3 DEF Shown, OnConnection, OnWire, InHand, OneItem, ItemsIn
<1> QED
    BY <1>1, <1>4 DEF FollowInv, ArriveInv

LEMMA ReceiveArrives ==
    ASSUME Typed, FollowInv, ArriveInv, NEW c \in Clients, Receive(c)
    PROVE  FollowInv' /\ ArriveInv'
<1> DEFINE e == Head(toClient[c])
<1>1. /\ toClient[c] \in Seq(Sent) /\ toClient[c] # <<>> /\ e \in Sent
      /\ view[c] \in Snapshot
    BY SuffixType DEF Receive, Typed, ClientTypes
<1>2. /\ toClient'[c] = Tail(toClient[c])
      /\ view'[c] = Applied(view[c], e)
      /\ \A d \in Clients \ {c} : toClient'[d] = toClient[d] /\ view'[d] = view[d]
      /\ UNCHANGED <<orphan, hand, wire, current, subs, followed>>
    BY DEF Receive, Received, spokeVars, linkVars, hubVars, Typed, ClientTypes
<1>3. ItemsIn(toClient[c]) \subseteq OneItem(e) \cup ItemsIn(toClient'[c])
    BY <1>1, <1>2, ItemsOfTail
<1> HIDE DEF e
<1>4. view[c].items \subseteq view'[c].items /\ (view[c].has => view'[c].has)
    BY <1>1, <1>2, AppliedGrows
<1>5. view[c].has => OneItem(e) \subseteq view'[c].items
    BY <1>1, <1>2, AppliedItem DEF OneItem
<1>6. FollowInv'
    BY <1>2, <1>4 DEF FollowInv
<1>7. \A n : /\ Shown(c, n) => Shown(c, n)'
             /\ OnConnection(c, n) /\ view[c].has => OnConnection(c, n)' \/ Shown(c, n)'
    BY <1>3, <1>4, <1>5 DEF Shown, OnConnection, ItemsIn
<1>8. \A d \in Clients \ {c} : \A n : /\ Shown(d, n) => Shown(d, n)'
                                      /\ OnConnection(d, n) => OnConnection(d, n)'
    BY <1>2 DEF Shown, OnConnection, ItemsIn
<1>9. \A n : (OnWire(n) => OnWire(n)') /\ (InHand(n) => InHand(n)')
    BY <1>2 DEF OnWire, InHand, OneItem, ItemsIn
<1> QED
    BY <1>2, <1>6, <1>7, <1>8, <1>9 DEF FollowInv, ArriveInv

LEMMA ClientDropsArrives ==
    ASSUME Typed, FollowInv, ArriveInv, NEW c \in Clients, ClientDrops(c)
    PROVE  FollowInv' /\ ArriveInv'
<1>1. /\ followed'[c] = {} /\ \A d \in Clients \ {c} : followed'[d] = followed[d]
      /\ \A d \in Clients \ {c} : toClient'[d] = toClient[d]
      /\ UNCHANGED <<view, current, wire, hand, orphan>> /\ subs' = subs \ {c}
    BY DEF ClientDrops, spokeVars, linkVars, Typed, ClientTypes, HistoryTypes
<1>2. FollowInv'
    BY <1>1 DEF FollowInv
<1>3. \A d \in Clients \ {c} : \A n : /\ Shown(d, n) => Shown(d, n)'
                                      /\ OnConnection(d, n) => OnConnection(d, n)'
                                      /\ OnWire(n) => OnWire(n)'
                                      /\ InHand(n) => InHand(n)'
    BY <1>1 DEF Shown, OnConnection, OnWire, InHand, OneItem, ItemsIn
<1> QED
    BY <1>1, <1>2, <1>3 DEF ArriveInv

\* Steps that leave alone what has items, and take no subscription away.
LEMMA OthersArrive ==
    ASSUME FollowInv, ArriveInv, subs \subseteq subs', \A t \in Tasks : OneItem(hand[t]) = OneItem(hand'[t]),
           UNCHANGED <<orphan, wire, current, toClient, view, followed>>
    PROVE  FollowInv' /\ ArriveInv'
<1>1. \A d \in Clients : \A n : /\ Shown(d, n) => Shown(d, n)'
                                /\ OnConnection(d, n) => OnConnection(d, n)'
                                /\ OnWire(n) => OnWire(n)'
    BY DEF Shown, OnConnection, OnWire, OneItem, ItemsIn
<1>2. \A n : InHand(n) => InHand(n)'
    BY DEF InHand, OneItem
<1> QED
    BY <1>1, <1>2 DEF FollowInv, ArriveInv

LEMMA NextArrives ==
    Typed /\ FollowInv /\ ArriveInv /\ [Next]_vars => FollowInv' /\ ArriveInv'
<1> SUFFICES ASSUME Typed, FollowInv, ArriveInv, [Next]_vars PROVE FollowInv' /\ ArriveInv'
    OBVIOUS
<1>1. ASSUME NEW p \in Producers, Update(p) PROVE FollowInv' /\ ArriveInv'
    <2>1. \A t \in Tasks : OneItem(hand[t]) = OneItem(hand'[t])
        BY <1>1 DEF Update, Idle, OneItem, OpEvent, NoEvent, Typed, SpokeTypes, Producers
    <2> QED
        BY <1>1, <2>1, OthersArrive DEF Update, linkVars, hubVars, clientVars, historyVars
<1>2. ASSUME RefuseIntent \/ TakeSnapshot \/ SpokeConnects PROVE FollowInv' /\ ArriveInv'
    <2>1. \A t \in Tasks : hand'[t] = hand[t]
        BY <1>2, ActorsAssumption
           DEF RefuseIntent, TakeSnapshot, SpokeConnects, spokeVars, Typed, SpokeTypes, Producers
    <2>2. \A t \in Tasks : OneItem(hand[t]) = OneItem(hand'[t])
        BY <2>1 DEF OneItem
    <2> QED
        BY <1>2, <2>2, OthersArrive
           DEF RefuseIntent, TakeSnapshot, SpokeConnects, spokeVars, hubVars, clientVars,
               historyVars
<1>3. ASSUME SpokeDrops PROVE FollowInv' /\ ArriveInv'
    BY <1>3 DEF SpokeDrops, FollowInv, ArriveInv
<1>4. ASSUME NEW c \in Clients, Subscribe(c) \/ Select(c) \/ Compose(c) \/ ClientConnects(c)
      PROVE  FollowInv' /\ ArriveInv'
    <2>1. UNCHANGED <<hand, orphan, wire, current, toClient, view, followed>> /\ subs \subseteq subs'
        BY <1>4 DEF Subscribe, Select, Compose, ClientConnects, spokeVars, linkVars, hubVars,
                    historyVars
    <2> QED
        BY <2>1, OthersArrive
<1>5. ASSUME UNCHANGED vars PROVE FollowInv' /\ ArriveInv'
    BY <1>5, OthersArrive DEF vars, spokeVars, linkVars, hubVars, clientVars, historyVars
<1> QED
    BY <1>1, <1>2, <1>3, <1>4, <1>5, AppendItemArrives, SendArrives, AcceptIntentArrives,
       CacheEventArrives, DispatchArrives, ForwardArrives, ReceiveArrives, ClientDropsArrives
       DEF Next, HubStep

\* However the tasks' sends overtake each other, whichever snapshot from whichever
\* cursor comes between them: no item appended while a client follows the Project
\* is dropped on the way to it (append_item and accept_intent, spoke/src/main.rs;
\* deliver, hub/src/main.rs; apply, gui.rs).
THEOREM FollowersMissNothing == Spec => []FollowedItemsArrive
BY AlwaysTyped, InitArrives, NextArrives, ArriveImplies, PTL DEF Spec
-----------------------------------------------------------------------------
(* The refinement *)

\* e tells of the first n items and the first u updates only, and so does v.
Genuine(e, n, u) ==
    /\ e.kind = "item" => e.n \in 1 .. n
    /\ e.kind = "snapshot" => e.items \subseteq 1 .. n
    /\ e.kind \in {"op", "snapshot"} => e.n \in 0 .. u

GenuineOn(q, n, u) == \A j \in 1 .. Len(q) : Genuine(q[j], n, u)
GenuineView(v, n, u) == v.items \subseteq 1 .. n /\ v.op \in 0 .. u

\* Nothing is told or shown that the Spoke does not have.
GenuineInv ==
    /\ \A p \in Producers : Genuine(hand[p], items, op)
    /\ GenuineOn(wire, items, op) /\ Genuine(current, items, op)
    /\ GenuineView(cache, items, op)
    /\ \A c \in Clients : GenuineOn(toClient[c], items, op) /\ GenuineView(view[c], items, op)

\* The same of the state before a step, for the timeline after it.
StillGenuine ==
    /\ \A p \in Producers : Genuine(hand[p], items', op')
    /\ GenuineOn(wire, items', op') /\ Genuine(current, items', op')
    /\ GenuineView(cache, items', op')
    /\ \A c \in Clients : GenuineOn(toClient[c], items', op') /\ GenuineView(view[c], items', op')

LEMMA GenuineEvents ==
    ASSUME NEW n \in Nat, NEW u \in Nat
    PROVE  /\ Genuine(NoEvent, n, u)
           /\ n >= 1 => Genuine(ItemEvent(n), n, u)
           /\ Genuine(OpEvent(u), n, u)
           /\ \A id : Genuine(Answer(id), n, u)
           /\ \A id : \A S \in SUBSET (1 .. n), m \in 0 .. u : Genuine(SnapshotEvent(S, m, id), n, u)
<1>1. Genuine(NoEvent, n, u) /\ (n >= 1 => Genuine(ItemEvent(n), n, u)) /\ Genuine(OpEvent(u), n, u)
    BY DEF Genuine, NoEvent, ItemEvent, OpEvent
<1>2. \A id : Genuine(Answer(id), n, u)
    BY DEF Genuine, NoEvent, Answer
<1>3. \A id : \A S \in SUBSET (1 .. n), m \in 0 .. u : Genuine(SnapshotEvent(S, m, id), n, u)
    BY DEF Genuine, SnapshotEvent
<1> QED
    BY <1>1, <1>2, <1>3

LEMMA GenuineSequences ==
    ASSUME NEW q \in Seq(Sent), NEW n, NEW u, GenuineOn(q, n, u)
    PROVE  /\ \A e \in Sent : Genuine(e, n, u) => GenuineOn(Append(q, e), n, u)
           /\ q # <<>> => Genuine(Head(q), n, u) /\ GenuineOn(Tail(q), n, u)
<1>1. ASSUME NEW e \in Sent, Genuine(e, n, u), NEW j \in 1 .. Len(Append(q, e))
      PROVE  Genuine(Append(q, e)[j], n, u)
    <2>1. j \in 1 .. Len(q) \/ j = Len(q) + 1
        BY AppendIndex
    <2> QED
        BY <1>1, <2>1, AppendIndex DEF GenuineOn
<1>2. ASSUME q # <<>> PROVE Genuine(Head(q), n, u) /\ GenuineOn(Tail(q), n, u)
    <2>1. /\ Len(Tail(q)) = Len(q) - 1 /\ Len(q) \in Nat \ {0}
          /\ \A j \in 1 .. Len(Tail(q)) : Tail(q)[j] = q[j + 1]
          /\ Head(q) = q[1]
        BY <1>2, TailIndex
    <2>2. \A j \in 1 .. Len(Tail(q)) : j + 1 \in 1 .. Len(q)
        BY <2>1
    <2> QED
        BY <2>1, <2>2 DEF GenuineOn
<1> QED
    BY <1>1, <1>2 DEF GenuineOn

LEMMA GenuineApplied ==
    ASSUME NEW old \in Snapshot, NEW e \in Sent, NEW n, NEW u,
           GenuineView(old, n, u), Genuine(e, n, u)
    PROVE  GenuineView(Applied(old, e), n, u)
<1>1. CASE e.kind = "snapshot"
    BY <1>1 DEF Applied, Merged, GenuineView, Genuine
<1>2. CASE e.kind = "item" /\ old.has
    BY <1>2 DEF Applied, Snapshot, GenuineView, Genuine
<1>3. CASE e.kind = "op" /\ old.has
    BY <1>3 DEF Applied, Snapshot, GenuineView, Genuine
<1>4. CASE e.kind # "snapshot" /\ ~ (e.kind \in {"item", "op"} /\ old.has)
    BY <1>4 DEF Applied
<1> QED
    BY <1>1, <1>2, <1>3, <1>4

\* What was genuine is genuine of a longer timeline.
LEMMA GenuineLater ==
    ASSUME Typed, GenuineInv, items' \in {items, items + 1}, op' \in {op, op + 1}
    PROVE  StillGenuine
<1>1. items \in Nat /\ op \in Nat
    BY DEF Typed, SpokeTypes, Items
<1>2. 1 .. items \subseteq 1 .. items' /\ 0 .. op \subseteq 0 .. op'
    BY <1>1
<1>3. \A e : Genuine(e, items, op) => Genuine(e, items', op')
    BY <1>2 DEF Genuine
<1>4. \A v : GenuineView(v, items, op) => GenuineView(v, items', op')
    BY <1>2 DEF GenuineView
<1> QED
    BY <1>3, <1>4 DEF GenuineInv, StillGenuine, GenuineOn

LEMMA InitGenuine == Init => GenuineInv
<1> SUFFICES ASSUME Init PROVE GenuineInv
    OBVIOUS
<1>1. items = 1 /\ op = 0
    BY DEF Init
<1>2. Genuine(NoEvent, items, op)
    BY <1>1, GenuineEvents
<1>3. (\A p \in Producers : hand[p] = NoEvent) /\ current = NoEvent
    BY DEF Init
<1>4. wire = <<>> /\ \A c \in Clients : toClient[c] = <<>>
    BY DEF Init
<1>5. GenuineView(NoView, items, op) /\ GenuineView(FirstView, items, op)
    BY <1>1 DEF GenuineView, NoView, FirstView
<1>6. cache \in {NoView, FirstView} /\ \A c \in Clients : view[c] \in {NoView, FirstView}
    BY DEF Init
<1> QED
    BY <1>2, <1>3, <1>4, <1>5, <1>6 DEF GenuineInv, GenuineOn

\* A step of the Spoke, which tells nobody but through hand and wire.
LEMMA SpokeGenuine ==
    ASSUME Typed, GenuineInv, items' \in {items, items + 1}, op' \in {op, op + 1},
           UNCHANGED <<cache, current, toClient, view>>,
           \A p \in Producers : hand'[p] = hand[p] \/ Genuine(hand'[p], items', op'),
           \/ wire' = wire
           \/ wire' = <<>>
           \/ \E e \in Sent : wire' = Append(wire, e) /\ Genuine(e, items', op')
    PROVE  GenuineInv'
<1>1. StillGenuine
    BY GenuineLater
<1>2. GenuineOn(wire', items', op')
    <2>1. wire \in Seq(Sent)
        BY DEF Typed, LinkTypes
    <2>2. GenuineOn(<<>>, items', op')
        BY DEF GenuineOn
    <2> QED
        BY <1>1, <2>1, <2>2, GenuineSequences DEF StillGenuine
<1> QED
    BY <1>1, <1>2 DEF GenuineInv, StillGenuine

LEMMA AppendItemGenuine ==
    ASSUME Typed, GenuineInv, NEW t \in Tasks, AppendItem(t)
    PROVE  GenuineInv'
<1>1. items \in Nat /\ op \in Nat
    BY DEF Typed, SpokeTypes, Items
<1>2. items' = items + 1 /\ op' = op
    BY DEF AppendItem, NewItem
<1>3. Genuine(ItemEvent(items + 1), items', op')
    BY <1>1, <1>2, GenuineEvents
<1>4. \A p \in Producers : hand'[p] = hand[p] \/ hand'[p] = ItemEvent(items + 1)
    BY DEF AppendItem, Typed, SpokeTypes
<1> QED
    BY <1>2, <1>3, <1>4, SpokeGenuine DEF AppendItem, linkVars, hubVars, clientVars

LEMMA UpdateGenuine ==
    ASSUME Typed, GenuineInv, NEW q \in Producers, Update(q)
    PROVE  GenuineInv'
<1>1. items \in Nat /\ op \in Nat
    BY DEF Typed, SpokeTypes, Items
<1>2. items' = items /\ op' = op + 1
    BY DEF Update
<1>3. Genuine(OpEvent(op + 1), items', op')
    BY <1>1, <1>2, GenuineEvents
<1>4. \A p \in Producers : hand'[p] = hand[p] \/ hand'[p] = OpEvent(op + 1)
    BY DEF Update, Typed, SpokeTypes
<1> QED
    BY <1>2, <1>3, <1>4, SpokeGenuine DEF Update, linkVars, hubVars, clientVars

LEMMA SendGenuine ==
    ASSUME Typed, GenuineInv, NEW q \in Producers, Send(q)
    PROVE  GenuineInv'
<1>1. items \in Nat /\ op \in Nat
    BY DEF Typed, SpokeTypes, Items
<1>2. items' = items /\ op' = op
    BY DEF Send
<1>3. Genuine(NoEvent, items', op')
    BY <1>1, <1>2, GenuineEvents
<1>4. \A p \in Producers : hand'[p] = hand[p] \/ hand'[p] = NoEvent
    BY DEF Send, Typed, SpokeTypes
<1>5. hand[q] \in Sent /\ Genuine(hand[q], items', op')
    BY <1>2 DEF GenuineInv, Typed, SpokeTypes
<1>6. wire' = wire \/ wire' = Append(wire, hand[q])
    BY DEF Send
<1> QED
    BY <1>2, <1>3, <1>4, <1>5, <1>6, SpokeGenuine DEF Send, hubVars, clientVars

LEMMA AcceptIntentGenuine ==
    ASSUME Typed, GenuineInv, AcceptIntent
    PROVE  GenuineInv'
<1>1. items \in Nat /\ op \in Nat
    BY DEF Typed, SpokeTypes, Items
<1>2. items' = items + 1 /\ op' = op /\ items + 1 \in Items
    BY <1>1, Numbers DEF AcceptIntent, NewItem, Items
<1>3. ItemEvent(items + 1) \in Sent /\ Genuine(ItemEvent(items + 1), items', op')
    BY <1>1, <1>2, EventTypes, GenuineEvents
<1>4. Genuine(Answer(Head(toSpoke).id), items', op')
    BY <1>1, <1>2, GenuineEvents
<1>5. \A p \in Producers : hand'[p] = hand[p] \/ hand'[p] = Answer(Head(toSpoke).id)
    BY DEF AcceptIntent, Typed, SpokeTypes
<1>6. wire' = Append(wire, ItemEvent(items + 1)) /\ UNCHANGED <<cache, current, toClient, view>>
    BY DEF AcceptIntent, hubVars, clientVars
<1> QED
    BY <1>2, <1>3, <1>4, <1>5, <1>6, SpokeGenuine

LEMMA AnswerGenuine ==
    ASSUME Typed, GenuineInv, RefuseIntent \/ TakeSnapshot
    PROVE  GenuineInv'
<1>1. items \in Nat /\ op \in Nat
    BY DEF Typed, SpokeTypes, Items
<1>2. items' = items /\ op' = op
    BY DEF RefuseIntent, TakeSnapshot
<1> DEFINE id == Head(toSpoke).id
           S == Replayed(Head(toSpoke).cursor)
<1>3. Genuine(Answer(id), items', op')
    BY <1>1, <1>2, GenuineEvents
<1>4. Genuine(SnapshotEvent(S, op, id), items', op')
    <2>1. S \in SUBSET (1 .. items) /\ op \in 0 .. op
        BY <1>1 DEF Replayed
    <2> QED
        BY <1>1, <1>2, <2>1, GenuineEvents
<1>5. \A p \in Producers : \/ hand'[p] = hand[p] \/ hand'[p] = Answer(id)
                           \/ hand'[p] = SnapshotEvent(S, op, id)
    BY DEF RefuseIntent, TakeSnapshot, Typed, SpokeTypes
<1>6. wire' = wire /\ UNCHANGED <<cache, current, toClient, view>>
    BY DEF RefuseIntent, TakeSnapshot, hubVars, clientVars
<1> QED
    BY <1>2, <1>3, <1>4, <1>5, <1>6, SpokeGenuine

LEMMA SpokeDropsGenuine ==
    ASSUME Typed, GenuineInv, SpokeDrops
    PROVE  GenuineInv'
<1>1. items \in Nat /\ op \in Nat /\ items' = items /\ op' = op
    BY DEF Typed, SpokeTypes, Items, SpokeDrops
<1>2. Genuine(NoEvent, items', op')
    BY <1>1, GenuineEvents
<1>3. \A p \in Producers : hand'[p] = hand[p] \/ hand'[p] = NoEvent
    BY DEF SpokeDrops, Typed, SpokeTypes
<1> QED
    BY <1>1, <1>2, <1>3, SpokeGenuine DEF SpokeDrops, hubVars, clientVars

LEMMA CacheEventGenuine ==
    ASSUME Typed, GenuineInv, CacheEvent
    PROVE  GenuineInv'
<1>1. wire \in Seq(Sent) /\ Head(wire) \in Sent /\ cache \in Snapshot
    BY SuffixType DEF CacheEvent, Typed, LinkTypes, HubTypes
<1>2. Genuine(Head(wire), items, op) /\ GenuineOn(Tail(wire), items, op)
    BY <1>1, GenuineSequences DEF CacheEvent, GenuineInv
<1>3. GenuineView(Applied(cache, Head(wire)), items, op)
    BY <1>1, <1>2, GenuineApplied DEF GenuineInv
<1> QED
    BY <1>2, <1>3 DEF CacheEvent, GenuineInv, spokeVars, clientVars

LEMMA ToClientsGenuine ==
    ASSUME Typed, GenuineInv, NEW S, NEW e \in Sent, Genuine(e, items, op), ToClients(S, e),
           UNCHANGED <<items, op, hand, wire, cache, view>>, current' \in {current, NoEvent}
    PROVE  GenuineInv'
<1>1. \A c \in Clients : GenuineOn(toClient'[c], items, op)
    <2> SUFFICES ASSUME NEW c \in Clients PROVE GenuineOn(toClient'[c], items, op)
        OBVIOUS
    <2>1. toClient[c] \in Seq(Sent) /\ GenuineOn(toClient[c], items, op)
        BY DEF Typed, ClientTypes, GenuineInv
    <2>2. toClient'[c] = toClient[c] \/ toClient'[c] = Append(toClient[c], e)
        BY DEF ToClients
    <2> QED
        BY <2>1, <2>2, GenuineSequences
<1>2. Genuine(current', items, op)
    BY GenuineEvents DEF Typed, SpokeTypes, Items, GenuineInv
<1> QED
    BY <1>1, <1>2 DEF GenuineInv

LEMMA DispatchGenuine ==
    ASSUME Typed, GenuineInv, Dispatch
    PROVE  GenuineInv'
<1>1. /\ current' = NoEvent /\ UNCHANGED <<items, op, hand, wire, cache, view>>
      /\ current \in Sent /\ Genuine(current, items, op)
    BY DEF Dispatch, Typed, HubTypes, GenuineInv, spokeVars, linkVars
<1>2. CASE UNCHANGED toClient
    <2>1. Genuine(NoEvent, items, op)
        BY GenuineEvents DEF Typed, SpokeTypes, Items
    <2> QED
        BY <1>1, <1>2, <2>1 DEF GenuineInv
<1>3. CASE ToClients({current.id[1]}, current) \/ ToClients(subs, current)
    BY <1>1, <1>3, ToClientsGenuine
<1> QED
    BY <1>2, <1>3 DEF Dispatch

LEMMA ForwardGenuine ==
    ASSUME Typed, GenuineInv, NEW c \in Clients, Forward(c)
    PROVE  GenuineInv'
<1> DEFINE e == SnapshotEvent(cache.items, cache.op, routing[c].id)
           S == IF routing[c].kind = "subscribe" /\ cache.has THEN {c} ELSE {}
<1>1. UNCHANGED <<items, op, hand, wire, cache, view, current>>
    BY DEF Forward, spokeVars
<1>2. CASE UNCHANGED toClient
    BY <1>1, <1>2 DEF GenuineInv
<1>3. CASE ToClients(S, e)
    <2>1. e \in Sent
        BY EventTypes DEF Forward, Typed, HubTypes, Snapshot, RequestOf
    <2>2. Genuine(e, items, op)
        BY GenuineEvents DEF Typed, SpokeTypes, Items, GenuineInv, GenuineView
    <2> QED
        BY <1>1, <1>3, <2>1, <2>2, ToClientsGenuine
<1> QED
    BY <1>2, <1>3 DEF Forward

LEMMA ReceiveGenuine ==
    ASSUME Typed, GenuineInv, NEW c \in Clients, Receive(c)
    PROVE  GenuineInv'
<1> DEFINE e == Head(toClient[c])
<1>1. toClient[c] \in Seq(Sent) /\ e \in Sent /\ view[c] \in Snapshot
    BY SuffixType DEF Receive, Typed, ClientTypes
<1>2. Genuine(e, items, op) /\ GenuineOn(Tail(toClient[c]), items, op)
    BY <1>1, GenuineSequences DEF Receive, GenuineInv
<1>3. GenuineView(Applied(view[c], e), items, op)
    BY <1>1, <1>2, GenuineApplied DEF GenuineInv
<1>4. /\ toClient'[c] = Tail(toClient[c]) /\ view'[c] = Applied(view[c], e)
      /\ \A d \in Clients \ {c} : toClient'[d] = toClient[d] /\ view'[d] = view[d]
    BY DEF Receive, Received, Typed, ClientTypes
<1> QED
    BY <1>2, <1>3, <1>4 DEF Receive, GenuineInv, spokeVars, linkVars, hubVars

LEMMA ClientDropsGenuine ==
    ASSUME Typed, GenuineInv, NEW c \in Clients, ClientDrops(c)
    PROVE  GenuineInv'
<1>1. toClient'[c] = <<>> /\ \A d \in Clients \ {c} : toClient'[d] = toClient[d]
    BY DEF ClientDrops, Typed, ClientTypes
<1>2. GenuineOn(<<>>, items, op)
    BY DEF GenuineOn
<1> QED
    BY <1>1, <1>2 DEF ClientDrops, GenuineInv, spokeVars, linkVars

LEMMA NextGenuine == Typed /\ GenuineInv /\ [Next]_vars => GenuineInv'
<1> SUFFICES ASSUME Typed, GenuineInv, [Next]_vars PROVE GenuineInv'
    OBVIOUS
<1>1. CASE UNCHANGED <<items, op, hand, wire, current, cache, toClient, view>>
    BY <1>1 DEF GenuineInv
<1>2. ASSUME NEW c \in Clients, Subscribe(c) \/ Select(c) \/ Compose(c) \/ ClientConnects(c)
      PROVE  GenuineInv'
    BY <1>1, <1>2 DEF Subscribe, Select, Compose, ClientConnects, spokeVars, linkVars, hubVars
<1>3. CASE SpokeConnects
    BY <1>1, <1>3 DEF SpokeConnects, spokeVars, hubVars, clientVars
<1>4. CASE UNCHANGED vars
    BY <1>1, <1>4 DEF vars, spokeVars, linkVars, hubVars, clientVars
<1> QED
    BY <1>2, <1>3, <1>4, AppendItemGenuine, UpdateGenuine, SendGenuine, AcceptIntentGenuine,
       AnswerGenuine, SpokeDropsGenuine, CacheEventGenuine, DispatchGenuine, ForwardGenuine,
       ReceiveGenuine, ClientDropsGenuine DEF Next, HubStep

LEMMA AlwaysGenuine == Spec => []GenuineInv
BY AlwaysTyped, InitGenuine, NextGenuine, PTL DEF Spec

\* A step of the log, or none.
LogKept == [Log!Next]_(Log!log)

LEMMA AppliedExtends ==
    ASSUME NEW old \in Snapshot, NEW e \in Sent, NEW there,
           GenuineView(Applied(old, e), items, op), Applied(old, e).items \subseteq there
    PROVE  Applied(old, e) = old \/ Log!Extends(Applied(old, e), old, there)
<1>1. CASE old.has \/ e.kind = "snapshot"
    <2>1. Applied(old, e).has /\ old.items \subseteq Applied(old, e).items
        BY <1>1, AppliedHas, AppliedGrows
    <2> QED
        BY <2>1 DEF Log!Extends, GenuineView
<1>2. CASE ~ old.has /\ e.kind # "snapshot"
    BY <1>2 DEF Applied
<1> QED
    BY <1>1, <1>2

LEMMA FollowIsAppend ==
    ASSUME Follow(items + 1), items' = items + 1, UNCHANGED <<op, cache, view>>
    PROVE  Log!Append
<1> DEFINE F == {c \in Following : c \in Clients}
<1>1. F \in SUBSET {c \in Clients : view[c].has}
    BY DEF Following
<1>2. followed' = [c \in Clients |-> IF c \in F THEN followed[c] \cup {items'} ELSE followed[c]]
    BY DEF Follow
<1> QED
    BY <1>1, <1>2 DEF Log!Append

LEMMA AppendItemRefines ==
    ASSUME Typed, NEW t \in Tasks, AppendItem(t)
    PROVE  Log!Append
<1>1. items' = items + 1 /\ UNCHANGED <<op, cache, view>>
    BY DEF AppendItem, NewItem, hubVars, clientVars
<1>2. CASE t \in orphan
    <2>1. followed' = [c \in Clients |-> IF c \in {} THEN followed[c] \cup {items'}
                                                    ELSE followed[c]]
        BY <1>2 DEF AppendItem, Typed, HistoryTypes
    <2>2. {} \in SUBSET {c \in Clients : view[c].has}
        OBVIOUS
    <2> QED
        BY <1>1, <2>1, <2>2 DEF Log!Append
<1>3. CASE t \notin orphan
    BY <1>1, <1>3, FollowIsAppend DEF AppendItem
<1> QED
    BY <1>2, <1>3

LEMMA AcceptIntentRefines ==
    ASSUME AcceptIntent
    PROVE  Log!Append
<1>1. items' = items + 1 /\ UNCHANGED <<op, cache, view>>
    BY DEF AcceptIntent, NewItem, hubVars, clientVars
<1> QED
    BY <1>1, FollowIsAppend DEF AcceptIntent

LEMMA CacheEventRefines ==
    ASSUME Typed, GenuineInv, CacheEvent
    PROVE  LogKept
<1> DEFINE e == Head(wire)
<1>1. wire \in Seq(Sent) /\ e \in Sent /\ cache \in Snapshot
    BY SuffixType DEF CacheEvent, Typed, LinkTypes, HubTypes
<1>2. Genuine(e, items, op)
    BY <1>1, GenuineSequences DEF CacheEvent, GenuineInv
<1>3. GenuineView(Applied(cache, e), items, op)
    BY <1>1, <1>2, GenuineApplied DEF GenuineInv
<1>4. cache' = cache \/ Log!Extends(cache', cache, 1 .. items)
    BY <1>1, <1>3, AppliedExtends DEF CacheEvent, GenuineView
<1>5. UNCHANGED <<items, op, view, followed>>
    BY DEF CacheEvent, spokeVars, clientVars, historyVars
<1> QED
    BY <1>4, <1>5 DEF LogKept, Log!Next, Log!Mirror, Log!log

LEMMA ReceiveRefines ==
    ASSUME Typed, GenuineInv, CacheInv, CacheInv', NEW c \in Clients, Receive(c)
    PROVE  LogKept
<1> DEFINE e == Head(toClient[c])
<1>1. toClient[c] \in Seq(Sent) /\ e \in Sent /\ view[c] \in Snapshot
    BY SuffixType DEF Receive, Typed, ClientTypes
<1>2. Genuine(e, items, op)
    BY <1>1, GenuineSequences DEF Receive, GenuineInv
<1>3. GenuineView(Applied(view[c], e), items, op)
    BY <1>1, <1>2, GenuineApplied DEF GenuineInv
<1>4. /\ view' = [view EXCEPT ![c] = Applied(view[c], e)]
      /\ UNCHANGED <<items, op, cache, followed>>
    BY DEF Receive, Received, spokeVars, hubVars
<1>5. /\ view'[c] = Applied(view[c], e)
      /\ \A d \in Clients \ {c} : view'[d] = view[d]
    BY <1>4 DEF Typed, ClientTypes
<1>6. view'[c].items \subseteq cache.items /\ (view'[c].has => cache.has)
    BY <1>4 DEF CacheInv, CacheCoversViews
<1>7. view'[c] = view[c] \/ Log!Extends(view'[c], view[c], cache.items)
    BY <1>1, <1>3, <1>5, <1>6, AppliedExtends
<1>8. CASE view'[c] = view[c]
    <2>1. view' = view
        BY <1>4, <1>5, <1>8 DEF Typed, ClientTypes
    <2> QED
        BY <1>4, <2>1 DEF LogKept, Log!log
<1>9. CASE Log!Extends(view'[c], view[c], cache.items)
    <2>1. Log!Show(c)
        BY <1>4, <1>5, <1>6, <1>9 DEF Log!Show, Log!Extends
    <2> QED
        BY <2>1 DEF LogKept, Log!Next
<1> QED
    BY <1>7, <1>8, <1>9

LEMMA DropsRefine ==
    ASSUME Typed, SpokeDrops \/ \E c \in Clients : ClientDrops(c)
    PROVE  Log!Lose
<1>1. UNCHANGED <<items, op, cache, view>>
    BY DEF SpokeDrops, ClientDrops, spokeVars, hubVars, clientVars
<1>2. \E L \in SUBSET Clients : followed' = [c \in Clients |-> IF c \in L THEN {} ELSE followed[c]]
    <2>1. CASE SpokeDrops
        <3>1. followed' = [c \in Clients |-> IF c \in Clients THEN {} ELSE followed[c]]
            BY <2>1 DEF SpokeDrops
        <3> QED
            BY <3>1
    <2>2. ASSUME NEW c \in Clients, ClientDrops(c)
          PROVE  \E L \in SUBSET Clients :
                     followed' = [d \in Clients |-> IF d \in L THEN {} ELSE followed[d]]
        <3>1. followed' = [d \in Clients |-> IF d \in {c} THEN {} ELSE followed[d]]
            BY <2>2 DEF ClientDrops, Typed, HistoryTypes
        <3>2. {c} \in SUBSET Clients
            OBVIOUS
        <3> QED
            BY <3>1, <3>2
    <2> QED
        BY <2>1, <2>2
<1> QED
    BY <1>1, <1>2 DEF Log!Lose

LEMMA NextRefines ==
    Typed /\ GenuineInv /\ CacheInv /\ CacheInv' /\ [Next]_vars => LogKept
<1> SUFFICES ASSUME Typed, GenuineInv, CacheInv, CacheInv', [Next]_vars PROVE LogKept
    OBVIOUS
<1>1. CASE UNCHANGED <<items, op, cache, view, followed>>
    BY <1>1 DEF LogKept, Log!log
<1>2. ASSUME NEW t \in Tasks, AppendItem(t) PROVE LogKept
    BY <1>2, AppendItemRefines DEF LogKept, Log!Next
<1>3. CASE AcceptIntent
    BY <1>3, AcceptIntentRefines DEF LogKept, Log!Next
<1>4. ASSUME NEW p \in Producers, Update(p) PROVE LogKept
    <2>1. Log!Update
        BY <1>4 DEF Update, Log!Update, hubVars, clientVars, historyVars
    <2> QED
        BY <2>1 DEF LogKept, Log!Next
<1>5. ASSUME NEW p \in Producers, Send(p) PROVE LogKept
    BY <1>1, <1>5 DEF Send, hubVars, clientVars, historyVars
<1>6. CASE RefuseIntent \/ TakeSnapshot \/ SpokeConnects
    BY <1>1, <1>6 DEF RefuseIntent, TakeSnapshot, SpokeConnects, spokeVars, hubVars, clientVars,
                      historyVars
<1>7. CASE SpokeDrops \/ \E c \in Clients : ClientDrops(c)
    BY <1>7, DropsRefine DEF LogKept, Log!Next
<1>8. CASE Dispatch
    BY <1>1, <1>8 DEF Dispatch, spokeVars, historyVars
<1>9. ASSUME NEW c \in Clients,
             Subscribe(c) \/ Forward(c) \/ Select(c) \/ Compose(c) \/ ClientConnects(c)
      PROVE  LogKept
    BY <1>1, <1>9 DEF Subscribe, Forward, Select, Compose, ClientConnects, spokeVars, hubVars,
                      historyVars
<1>10. CASE UNCHANGED vars
    BY <1>1, <1>10 DEF vars, spokeVars, hubVars, clientVars, historyVars
<1> QED
    BY <1>2, <1>3, <1>4, <1>5, <1>6, <1>7, <1>8, <1>9, <1>10, CacheEventRefines, ReceiveRefines
       DEF Next, HubStep

\* Whatever overtakes what, Spoke, Hub and clients keep the promise of FollowedLog:
\* every step is a step of the log, its mirror or a follower, or changes nothing
\* they show (append_item, snapshot, deliver, apply, and the losses of connections).
THEOREM Refinement == Spec => ImplementsLog
<1>1. Init => Log!Init
    BY DEF Init, Log!Init, NoView, FirstView, Log!Nothing, Log!Beginning
<1>2. Typed /\ GenuineInv /\ CacheInv /\ CacheInv' /\ [Next]_vars => [Log!Next]_(Log!log)
    BY NextRefines DEF LogKept
<1>3. Spec => []CacheInv
    BY AlwaysTyped, InitCached, NextCached, PTL DEF Spec
<1> QED
    BY <1>1, <1>2, <1>3, AlwaysTyped, AlwaysGenuine, PTL DEF Spec, ImplementsLog, Log!Spec
=============================================================================
