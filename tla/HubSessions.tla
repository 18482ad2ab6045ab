---------------------------- MODULE HubSessions ----------------------------
(***************************************************************************)
(* The Hub's side of one enrolled Spoke: the sessions its sockets get, the *)
(* channel requests are routed to, the Spoke's record in memory and in the *)
(* Hub's file, and the administrator's command line, a process of its own  *)
(* that edits the same file while the Hub runs.                            *)
(*                                                                         *)
(* An action is a critical section of the store's or of the channel map's  *)
(* mutex, a read or a write of the file, or a frame on a socket: between   *)
(* two of them every other task, and the command line, may run.            *)
(*                                                                         *)
(* Simplified: one Spoke; a frame with another protocol version and a      *)
(* failing disk do not occur; the temporary file of a save is not seen;    *)
(* the Hub's start reads and writes its file in one step.                  *)
(***************************************************************************)
EXTENDS Integers, FiniteSets

CONSTANTS
    Sockets,      \* the connections the Spoke opens
    NoSocket,     \* no channel is registered
    Requests,     \* requests of clients and enrolments, served concurrently
    MaxKeys,      \* bound: setup keys the command line issues, the first included
    MaxAdmin,     \* bound: commands of the command line
    MaxRestarts   \* bound: restarts of the Hub

ASSUME NoSocketAssumption == NoSocket \notin Sockets
ASSUME BoundsAssumption == {MaxKeys, MaxAdmin, MaxRestarts} \subseteq Nat /\ MaxKeys > 0

VARIABLES
    live,      \* the Spoke's record in the Hub's memory
    disk,      \* and in hub-v3.json
    channel,   \* whose sender App.spokes holds for the Spoke
    session,   \* the task of each socket
    up,        \* sockets whose far end, the Spoke's, still exists
    closing,   \* sockets a Close frame was sent to
    shown,     \* the status the clients were last sent
    request,   \* the requests in progress
    admin,     \* the command line
    issued,    \* history: setup keys issued
    enrolled,  \* history: enrolments, as pairs of a key and a request
    ordered,   \* history: the command line has saved a disable or a revoke
    restarts

storeVars == <<live, disk>>
sessionVars == <<channel, session, up, closing, shown>>
historyVars == <<issued, enrolled, ordered, restarts>>
vars == <<storeVars, sessionVars, request, admin, historyVars>>

Barred == {"disabled", "revoked"}
Status == {"offline", "online"} \cup Barred
Keys == 0 .. MaxKeys
NoKey == 0
Record == [status : Status, key : Keys, enrolled : BOOLEAN]

SessionPcs == {"new", "auth", "announce", "register", "greet", "greetSend",
               "serve", "remove", "offline", "farewell", "farewellSend", "ended"}
\* Between the two critical sections that put a session's sender into the map
\* of channels and take it out.
Registered == {"greet", "greetSend", "serve", "remove"}
RequestPcs == {"new", "load", "merge", "disconnect", "act", "done"}
Commands == {"disable", "revoke", "issue"}
Session == [pc : SessionPcs, seen : Status]
Request == [pc : RequestPcs, kind : {"route", "enrol"}, copy : Record, late : BOOLEAN,
            to : Sockets \cup {NoSocket}]
Admin == [pc : {"idle", "save"}, command : Commands, copy : Record, left : 0 .. MaxAdmin]

TypeOK ==
    /\ live \in Record /\ disk \in Record
    /\ channel \in Sockets \cup {NoSocket}
    /\ session \in [Sockets -> Session]
    /\ up \subseteq Sockets /\ closing \subseteq Sockets
    /\ shown \in Status
    /\ request \in [Requests -> Request]
    /\ admin \in Admin
    /\ issued \in Keys /\ restarts \in 0 .. MaxRestarts
    /\ enrolled \subseteq (Keys \X Requests)
    /\ ordered \in BOOLEAN

\* The command line created the Spoke, with its first key, before the Hub ran;
\* it may be enrolled already.
Created == [status |-> "offline", key |-> 1, enrolled |-> FALSE]
EnrolledBefore == [status |-> "offline", key |-> NoKey, enrolled |-> TRUE]

Init ==
    /\ live \in {Created, EnrolledBefore} /\ disk = live
    /\ channel = NoSocket
    /\ session = [s \in Sockets |-> [pc |-> "new", seen |-> "offline"]]
    /\ up = {} /\ closing = {}
    /\ shown = "offline"
    /\ request = [r \in Requests |-> [pc |-> "new", kind |-> "route", copy |-> Created,
                                      late |-> FALSE, to |-> NoSocket]]
    /\ admin = [pc |-> "idle", command |-> "issue", copy |-> Created, left |-> MaxAdmin]
    /\ issued = 1 /\ enrolled = {} /\ ordered = FALSE /\ restarts = 0

-----------------------------------------------------------------------------
(* Helpers *)

\* The Hub changes the record in memory and saves its whole store.
Save(record) == live' = record /\ disk' = record

At(s, pc) == session[s].pc = pc
Goto(s, pc) == session' = [session EXCEPT ![s].pc = pc]

-----------------------------------------------------------------------------
(* The session of a socket *)

\* Mutant: a session also opens the gate to a barred Spoke.
AuthenticateBarred(s) ==
    /\ At(s, "auth") /\ live.enrolled
    /\ Save([live EXCEPT !.status = "online"])
    /\ Goto(s, "announce")
    /\ UNCHANGED <<channel, up, closing, shown, request, admin, historyVars>>

\* Mutant: only a session that finds its Spoke online cleans up.
UnregisterOnline(s) ==
    /\ At(s, "remove")
    /\ channel' = IF live.status = "online" THEN NoSocket ELSE channel
    /\ Goto(s, "offline")
    /\ UNCHANGED <<storeVars, up, closing, shown, request, admin, historyVars>>

\* Mutant: the end of a session is noticed only after an orderly close.
StreamEndsOrderly(s) ==
    /\ At(s, "serve") /\ s \notin up /\ s \in closing
    /\ Goto(s, "remove")
    /\ UNCHANGED <<storeVars, channel, up, closing, shown, request, admin, historyVars>>

\* The Spoke keeps one connection, and opens a new one when its end is lost;
\* its hello is read and the challenge sent.
Connect(s) ==
    /\ At(s, "new") /\ up = {}
    /\ up' = {s}
    /\ Goto(s, "auth")
    /\ UNCHANGED <<storeVars, channel, closing, shown, request, admin, historyVars>>

Authenticate(s) ==
    /\ At(s, "auth") /\ live.enrolled /\ live.status \notin Barred
    /\ Save([live EXCEPT !.status = "online"])
    /\ Goto(s, "announce")
    /\ UNCHANGED <<channel, up, closing, shown, request, admin, historyVars>>

\* An unknown, barred or silent Spoke: the session ends with an error.
Reject(s) ==
    /\ At(s, "auth")
    /\ ~live.enrolled \/ live.status \in Barred \/ s \notin up
    /\ Goto(s, "ended") /\ up' = up \ {s}
    /\ UNCHANGED <<storeVars, channel, closing, shown, request, admin, historyVars>>

\* The frame spoke_authenticated; sending to a lost socket may succeed, or end
\* the session with an error.
Announce(s) ==
    /\ At(s, "announce")
    /\ \/ Goto(s, "register")
       \/ s \notin up /\ Goto(s, "ended")
    /\ UNCHANGED <<storeVars, channel, up, closing, shown, request, admin, historyVars>>

\* The sender of an earlier session is replaced.
Register(s) ==
    /\ At(s, "register")
    /\ channel' = s
    /\ Goto(s, "greet")
    /\ UNCHANGED <<storeVars, up, closing, shown, request, admin, historyVars>>

\* broadcast_spoke reads the record under the lock and sends it after it.
ReadStatus(s) ==
    /\ session[s].pc \in {"greet", "farewell"}
    /\ session' = [session EXCEPT ![s].seen = live.status,
                       ![s].pc = IF @ = "greet" THEN "greetSend" ELSE "farewellSend"]
    /\ UNCHANGED <<storeVars, channel, up, closing, shown, request, admin, historyVars>>

ShowStatus(s) ==
    /\ session[s].pc \in {"greetSend", "farewellSend"}
    /\ shown' = session[s].seen
    /\ session' = [session EXCEPT ![s].pc = IF @ = "greetSend" THEN "serve" ELSE "ended"]
    /\ UNCHANGED <<storeVars, channel, up, closing, request, admin, historyVars>>

\* An inventory, or an event to be cached: the store is saved as it is.
Frame(s) ==
    /\ At(s, "serve")
    /\ Save(live)
    /\ UNCHANGED <<sessionVars, request, admin, historyVars>>

StreamEnds(s) ==
    /\ At(s, "serve") /\ s \notin up
    /\ Goto(s, "remove")
    /\ UNCHANGED <<storeVars, channel, up, closing, shown, request, admin, historyVars>>

\* Whichever session's sender the map holds now, it is removed.
Unregister(s) ==
    /\ At(s, "remove")
    /\ channel' = NoSocket
    /\ Goto(s, "offline")
    /\ UNCHANGED <<storeVars, up, closing, shown, request, admin, historyVars>>

MarkOffline(s) ==
    /\ At(s, "offline")
    /\ Save(IF live.status = "online" THEN [live EXCEPT !.status = "offline"] ELSE live)
    /\ Goto(s, "farewell")
    /\ UNCHANGED <<channel, up, closing, shown, request, admin, historyVars>>

\* The Spoke's end of a socket is lost; the Hub learns of it later.
SocketBreaks(s) ==
    /\ s \in up
    /\ up' = up \ {s}
    /\ UNCHANGED <<storeVars, channel, session, closing, shown, request, admin, historyVars>>

\* A Close frame is no text frame: the Spoke gives the connection up.
SpokeCloses(s) == s \in closing /\ SocketBreaks(s)

-----------------------------------------------------------------------------
(* Requests: the record is first refreshed from the file *)

\* Mutant: a file that says offline un-bars the Spoke.
RefreshedBoth(record, copy) == [record EXCEPT !.status = copy.status, !.key = copy.key]

\* What refresh_admin_state takes over from the file: a bar, and the key.
Refreshed(record, copy) ==
    [record EXCEPT !.status = IF copy.status \in Barred THEN copy.status ELSE @,
                   !.key = copy.key]

\* late: it came after the command line had barred the Spoke.
Arrive(r) ==
    /\ request[r].pc = "new"
    /\ \E kind \in {"route", "enrol"} :
           request' = [request EXCEPT ![r].pc = "load", ![r].kind = kind, ![r].late = ordered]
    /\ UNCHANGED <<storeVars, sessionVars, admin, historyVars>>

LoadFile(r) ==
    /\ request[r].pc = "load"
    /\ request' = [request EXCEPT ![r].pc = "merge", ![r].copy = disk]
    /\ UNCHANGED <<storeVars, sessionVars, admin, historyVars>>

Merge(r) ==
    LET new == Refreshed(live, request[r].copy) IN
    /\ request[r].pc = "merge"
    /\ Save(new)
    /\ request' = [request EXCEPT ![r].pc = IF new.status # live.status THEN "disconnect"
                                                                       ELSE "act"]
    /\ UNCHANGED <<sessionVars, admin, historyVars>>

\* Mutant: what the map has, a sender or none, is told to close.
DisconnectBlindly(r) ==
    /\ request[r].pc = "disconnect"
    /\ channel' = NoSocket
    /\ closing' = closing \cup {channel}
    /\ request' = [request EXCEPT ![r].pc = "act"]
    /\ UNCHANGED <<storeVars, session, up, shown, admin, historyVars>>

Disconnect(r) ==
    /\ request[r].pc = "disconnect"
    /\ channel' = NoSocket
    /\ closing' = closing \cup ({channel} \ {NoSocket})
    /\ request' = [request EXCEPT ![r].pc = "act"]
    /\ UNCHANGED <<storeVars, session, up, shown, admin, historyVars>>

\* The command goes into the channel, if there is one.
Route(r) ==
    /\ request[r].pc = "act" /\ request[r].kind = "route"
    /\ request' = [request EXCEPT ![r].pc = "done", ![r].to = channel]
    /\ UNCHANGED <<storeVars, sessionVars, admin, historyVars>>

\* The key is right and not expired, or the enrolment is refused; the store is
\* saved either way.
Enrol(r) ==
    /\ request[r].pc = "act" /\ request[r].kind = "enrol"
    /\ request' = [request EXCEPT ![r].pc = "done"]
    /\ \/ /\ live.key # NoKey
          /\ Save([live EXCEPT !.key = NoKey, !.enrolled = TRUE])
          /\ enrolled' = enrolled \cup {<<live.key, r>>}
       \/ Save(live) /\ UNCHANGED enrolled
    /\ UNCHANGED <<sessionVars, admin, issued, ordered, restarts>>

-----------------------------------------------------------------------------
(* The command line, and a restart of the Hub *)

AdminLoads(command) ==
    /\ admin.pc = "idle" /\ admin.left > 0
    /\ admin' = [pc |-> "save", command |-> command, copy |-> disk, left |-> admin.left - 1]
    /\ \/ command = "issue" /\ issued < MaxKeys /\ issued' = issued + 1
       \/ command # "issue" /\ UNCHANGED issued
    /\ UNCHANGED <<storeVars, sessionVars, request, enrolled, ordered, restarts>>

AdminSaves ==
    /\ admin.pc = "save"
    /\ admin' = [admin EXCEPT !.pc = "idle"]
    /\ disk' = CASE admin.command = "issue"   -> [admin.copy EXCEPT !.key = issued]
                 [] admin.command = "disable" -> [admin.copy EXCEPT !.status = "disabled"]
                 [] admin.command = "revoke"  -> [admin.copy EXCEPT !.status = "revoked"]
    /\ ordered' = (ordered \/ admin.command # "issue")
    /\ UNCHANGED <<live, sessionVars, request, issued, enrolled, restarts>>

\* The Hub dies with its tasks and starts from its file; no session is left, so
\* an online Spoke is offline. Clients reconnect and ask for the list.
Restart ==
    /\ restarts < MaxRestarts
    /\ restarts' = restarts + 1
    /\ Save(IF disk.status = "online" THEN [disk EXCEPT !.status = "offline"] ELSE disk)
    /\ shown' = live'.status
    /\ channel' = NoSocket /\ up' = {} /\ closing' = {}
    /\ session' = [s \in Sockets |-> IF At(s, "new") THEN session[s]
                                     ELSE [session[s] EXCEPT !.pc = "ended"]]
    /\ request' = [r \in Requests |-> IF request[r].pc = "new" THEN request[r]
                                      ELSE [request[r] EXCEPT !.pc = "done"]]
    /\ UNCHANGED <<admin, issued, enrolled, ordered>>

-----------------------------------------------------------------------------
SessionStep(s) ==
    \/ Authenticate(s) \/ Reject(s) \/ Announce(s) \/ Register(s)
    \/ ReadStatus(s) \/ ShowStatus(s) \/ StreamEnds(s) \/ Unregister(s) \/ MarkOffline(s)

RequestStep(r) == LoadFile(r) \/ Merge(r) \/ Disconnect(r) \/ Route(r) \/ Enrol(r)

Next ==
    \/ \E s \in Sockets : Connect(s) \/ SessionStep(s) \/ Frame(s) \/ SocketBreaks(s)
    \/ \E r \in Requests : Arrive(r) \/ RequestStep(r)
    \/ \E command \in Commands : AdminLoads(command)
    \/ AdminSaves
    \/ Restart

Spec == Init /\ [][Next]_vars

\* The Hub's tasks go on, and a Spoke that is told to close does so. Nothing
\* makes sockets break, clients ask or the administrator act.
Fairness ==
    /\ \A s \in Sockets : WF_vars(SessionStep(s)) /\ WF_vars(SpokeCloses(s))
    /\ \A r \in Requests : WF_vars(RequestStep(r))

FairSpec == Spec /\ Fairness

-----------------------------------------------------------------------------
(* Properties *)

\* No request is put into the channel of a session that is over: whichever
\* sessions overlap, the map names one that has registered and not yet removed
\* its sender.
ChannelHasReader == channel # NoSocket => session[channel].pc \in Registered

\* As long as the Hub runs, no session, cleanup, enrolment or refresh makes a
\* Spoke that memory knows to be barred one that may connect again.
BarredStaysBarred == [][live.status \in Barred /\ restarts' = restarts
                            => live'.status \in Barred]_vars

\* When the socket of a registered session is lost, the session notices and its
\* sender leaves the map of channels, so that nothing is routed to it for ever.
LostChannelIsForgotten ==
    \A s \in Sockets : (session[s].pc \in Registered /\ s \notin up) ~> channel # s

\* A Spoke with a session in service, no other session or request under way,
\* is online and the requests go to that session.
Settled(s) ==
    /\ At(s, "serve") /\ s \in up
    /\ \A t \in Sockets \ {s} : session[t].pc \in {"new", "ended"}
    /\ \A r \in Requests : request[r].pc \in {"new", "done"}
ServedIsReachable ==
    \A s \in Sockets : Settled(s) /\ live.status \notin Barred =>
        live.status = "online" /\ channel = s

\* A Spoke that is online, with a session in service and nothing else under way,
\* is what the clients were last told.
OnlineIsShown ==
    \A s \in Sockets : Settled(s) /\ live.status = "online" => shown = "online"

\* Once every session is over, the Spoke is not shown online.
DisconnectedIsOffline ==
    (\A s \in Sockets : session[s].pc \in {"new", "ended"}) => live.status # "online"

\* When the Hub knows that a Spoke is barred and no request is still about to
\* disconnect it, requests are not routed to it.
BarredIsCutOff ==
    live.status \in Barred /\ (\A r \in Requests : request[r].pc # "disconnect")
        => channel = NoSocket

\* What the command line ordered is known to the Hub or still in the file.
OrderIsKept == ordered => live.status \in Barred \/ disk.status \in Barred

\* A setup key enrols one request.
KeyEnrolsOnce ==
    \A e, f \in enrolled : e[1] = f[1] => e = f
=============================================================================
