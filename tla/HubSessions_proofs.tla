------------------------- MODULE HubSessions_proofs -------------------------
(***************************************************************************)
(* Proofs about HubSessions, for every number of sockets and requests: its *)
(* state is typed, the map of channels never names a session that is over, *)
(* and a running Hub does not forget that a Spoke is barred.               *)
(***************************************************************************)
EXTENDS HubSessions, TLAPS

\* A session's step to another place of its code keeps the type of the map.
LEMMA GotoType ==
    ASSUME TypeOK, NEW s \in Sockets, NEW pc \in SessionPcs, Goto(s, pc)
    PROVE  session' \in [Sockets -> Session]
BY DEF TypeOK, Goto, Session

\* The store is saved with a record that is typed.
LEMMA SaveType ==
    ASSUME NEW r \in Record, Save(r)
    PROVE  live' \in Record /\ disk' \in Record
BY DEF Save

LEMMA RefreshedType ==
    ASSUME NEW r \in Record, NEW c \in Record
    PROVE  Refreshed(r, c) \in Record
BY DEF Refreshed, Record, Barred, Status

\* A function stays in its space when one of its values is replaced.
LEMMA UpdateType ==
    ASSUME NEW S, NEW T, NEW f \in [S -> T], NEW x \in S, NEW v \in T
    PROVE  [f EXCEPT ![x] = v] \in [S -> T]
OBVIOUS

\* A request moves on.
LEMMA RequestMoves ==
    ASSUME NEW q \in Request, NEW pc \in RequestPcs
    PROVE  /\ [q EXCEPT !.pc = pc] \in Request
           /\ \A c \in Record : [q EXCEPT !.pc = pc, !.copy = c] \in Request
           /\ \A c \in Sockets \cup {NoSocket} : [q EXCEPT !.pc = pc, !.to = c] \in Request
           /\ \A kind \in {"route", "enrol"}, late \in BOOLEAN :
                  [q EXCEPT !.pc = pc, !.kind = kind, !.late = late] \in Request
           /\ q.copy \in Record
BY DEF Request

\* The command line's copy with the change of the command.
LEMMA AdminCopy ==
    ASSUME NEW c \in Record
    PROVE  /\ \A k \in Keys : [c EXCEPT !.key = k] \in Record
           /\ \A st \in Status : [c EXCEPT !.status = st] \in Record
           /\ [c EXCEPT !.key = NoKey, !.enrolled = TRUE] \in Record
<1> NoKey \in Keys
    BY BoundsAssumption DEF Keys, NoKey
<1> QED
    BY DEF Record

USE BoundsAssumption, NoSocketAssumption DEF Keys, NoKey

\* Every action keeps the variables in their types.
LEMMA TypeStep == TypeOK /\ [Next]_vars => TypeOK'
<1> SUFFICES ASSUME TypeOK, [Next]_vars PROVE TypeOK'
    OBVIOUS
<1> USE DEF SessionPcs, RequestPcs
<1>1. ASSUME NEW s \in Sockets, Connect(s) PROVE TypeOK'
    BY <1>1, GotoType DEF Connect, TypeOK, storeVars, historyVars
<1>2. ASSUME NEW s \in Sockets, Authenticate(s) PROVE TypeOK'
    <2>1. [live EXCEPT !.status = "online"] \in Record
        BY DEF TypeOK, Record, Status
    <2>2. live' \in Record /\ disk' \in Record
        BY <1>2, <2>1, SaveType DEF Authenticate
    <2>3. QED
        BY <1>2, <2>2, GotoType DEF Authenticate, TypeOK, historyVars
<1>3. ASSUME NEW s \in Sockets, Reject(s) PROVE TypeOK'
    BY <1>3, GotoType DEF Reject, TypeOK, storeVars, historyVars
<1>4. ASSUME NEW s \in Sockets, Announce(s) PROVE TypeOK'
    BY <1>4, GotoType DEF Announce, TypeOK, storeVars, historyVars
<1>5. ASSUME NEW s \in Sockets, Register(s) PROVE TypeOK'
    BY <1>5, GotoType DEF Register, TypeOK, storeVars, historyVars
<1>6. ASSUME NEW s \in Sockets, ReadStatus(s) PROVE TypeOK'
    <2>1. session' \in [Sockets -> Session]
        BY <1>6 DEF ReadStatus, TypeOK, Record, Session
    <2>2. QED
        BY <1>6, <2>1 DEF ReadStatus, TypeOK, storeVars, historyVars
<1>7. ASSUME NEW s \in Sockets, ShowStatus(s) PROVE TypeOK'
    <2>1. session' \in [Sockets -> Session]
        BY <1>7 DEF ShowStatus, TypeOK, Session
    <2>2. QED
        BY <1>7, <2>1 DEF ShowStatus, TypeOK, Session, storeVars, historyVars
<1>8. ASSUME NEW s \in Sockets, Frame(s) PROVE TypeOK'
    BY <1>8, SaveType DEF Frame, TypeOK, sessionVars, historyVars
<1>9. ASSUME NEW s \in Sockets, StreamEnds(s) PROVE TypeOK'
    BY <1>9, GotoType DEF StreamEnds, TypeOK, storeVars, historyVars
<1>10. ASSUME NEW s \in Sockets, Unregister(s) PROVE TypeOK'
    BY <1>10, GotoType DEF Unregister, TypeOK, storeVars, historyVars
<1>11. ASSUME NEW s \in Sockets, MarkOffline(s) PROVE TypeOK'
    <2>1. (IF live.status = "online" THEN [live EXCEPT !.status = "offline"] ELSE live)
              \in Record
        BY DEF TypeOK, Record, Status
    <2>2. live' \in Record /\ disk' \in Record
        BY <1>11, <2>1, SaveType DEF MarkOffline
    <2>3. QED
        BY <1>11, <2>2, GotoType DEF MarkOffline, TypeOK, historyVars
<1>12. ASSUME NEW s \in Sockets, SocketBreaks(s) PROVE TypeOK'
    BY <1>12 DEF SocketBreaks, TypeOK, storeVars, historyVars
<1>13. ASSUME NEW r \in Requests, Arrive(r) PROVE TypeOK'
    <2>1. PICK kind \in {"route", "enrol"} :
              request' = [request EXCEPT ![r].pc = "load", ![r].kind = kind, ![r].late = ordered]
        BY <1>13 DEF Arrive
    <2>2. request' = [request EXCEPT ![r] = [request[r] EXCEPT !.pc = "load", !.kind = kind,
                                                               !.late = ordered]]
        BY <2>1 DEF TypeOK
    <2>3. request' \in [Requests -> Request]
        <3>1. [request[r] EXCEPT !.pc = "load", !.kind = kind, !.late = ordered] \in Request
            BY RequestMoves DEF TypeOK
        <3>2. QED
            BY <2>2, <3>1, UpdateType DEF TypeOK
    <2>4. QED
        BY <1>13, <2>3 DEF Arrive, TypeOK, storeVars, sessionVars, historyVars
<1>14. ASSUME NEW r \in Requests, LoadFile(r) PROVE TypeOK'
    <2>1. request' = [request EXCEPT ![r] = [request[r] EXCEPT !.pc = "merge", !.copy = disk]]
        BY <1>14 DEF LoadFile, TypeOK
    <2>2. request' \in [Requests -> Request]
        <3>1. [request[r] EXCEPT !.pc = "merge", !.copy = disk] \in Request
            BY RequestMoves DEF TypeOK
        <3>2. QED
            BY <2>1, <3>1, UpdateType DEF TypeOK
    <2>3. QED
        BY <1>14, <2>2 DEF LoadFile, TypeOK, storeVars, sessionVars, historyVars
<1>15. ASSUME NEW r \in Requests, Merge(r) PROVE TypeOK'
    <2>1. Refreshed(live, request[r].copy) \in Record
        BY RefreshedType, RequestMoves DEF TypeOK
    <2>2. live' \in Record /\ disk' \in Record
        BY <1>15, <2>1, SaveType DEF Merge
    <2>3. request' \in [Requests -> Request]
        BY <1>15, RequestMoves, UpdateType DEF Merge, TypeOK
    <2>4. QED
        BY <1>15, <2>2, <2>3 DEF Merge, TypeOK, sessionVars, historyVars
<1>16. ASSUME NEW r \in Requests, Disconnect(r) PROVE TypeOK'
    <2>1. request' \in [Requests -> Request]
        BY <1>16, RequestMoves, UpdateType DEF Disconnect, TypeOK
    <2>2. QED
        BY <1>16, <2>1 DEF Disconnect, TypeOK, storeVars, historyVars
<1>17. ASSUME NEW r \in Requests, Route(r) PROVE TypeOK'
    <2>1. request' = [request EXCEPT ![r] = [request[r] EXCEPT !.pc = "done", !.to = channel]]
        BY <1>17 DEF Route, TypeOK
    <2>2. request' \in [Requests -> Request]
        <3>1. [request[r] EXCEPT !.pc = "done", !.to = channel] \in Request
            BY RequestMoves DEF TypeOK
        <3>2. QED
            BY <2>1, <3>1, UpdateType DEF TypeOK
    <2>3. QED
        BY <1>17, <2>2 DEF Route, TypeOK, storeVars, sessionVars, historyVars
<1>18. ASSUME NEW r \in Requests, Enrol(r) PROVE TypeOK'
    <2>1. [live EXCEPT !.key = NoKey, !.enrolled = TRUE] \in Record
        BY AdminCopy DEF TypeOK
    <2>2. live' \in Record /\ disk' \in Record
        BY <1>18, <2>1, SaveType DEF Enrol, TypeOK
    <2>3. enrolled' \subseteq (Keys \X Requests)
        BY <1>18 DEF Enrol, TypeOK, Record
    <2>4. request' \in [Requests -> Request]
        BY <1>18, RequestMoves, UpdateType DEF Enrol, TypeOK
    <2>5. QED
        BY <1>18, <2>2, <2>3, <2>4 DEF Enrol, TypeOK, sessionVars
<1>19. ASSUME NEW command \in Commands, AdminLoads(command) PROVE TypeOK'
    BY <1>19 DEF AdminLoads, TypeOK, Admin, storeVars, sessionVars, historyVars
<1>20. CASE AdminSaves
    <2>1. admin' \in Admin /\ admin.copy \in Record /\ admin.command \in Commands
        BY <1>20 DEF AdminSaves, TypeOK, Admin
    <2>2. disk' \in Record
        BY <1>20, <2>1, AdminCopy DEF AdminSaves, TypeOK, Status, Barred, Commands
    <2>3. QED
        BY <1>20, <2>1, <2>2 DEF AdminSaves, TypeOK, sessionVars
<1>21. CASE Restart
    <2>1. (IF disk.status = "online" THEN [disk EXCEPT !.status = "offline"] ELSE disk)
              \in Record
        BY DEF TypeOK, Record, Status
    <2>2. live' \in Record /\ disk' \in Record /\ shown' \in Status
        BY <1>21, <2>1, SaveType DEF Restart, Record
    <2>3. session' \in [Sockets -> Session]
        BY <1>21 DEF Restart, TypeOK, At, Session
    <2>4. request' \in [Requests -> Request]
        BY <1>21, RequestMoves DEF Restart, TypeOK
    <2>5. QED
        BY <1>21, <2>2, <2>3, <2>4 DEF Restart, TypeOK
<1>22. CASE UNCHANGED vars
    BY <1>22 DEF vars, storeVars, sessionVars, historyVars, TypeOK
<1>23. QED
    BY <1>1, <1>2, <1>3, <1>4, <1>5, <1>6, <1>7, <1>8, <1>9, <1>10, <1>11, <1>12, <1>13,
       <1>14, <1>15, <1>16, <1>17, <1>18, <1>19, <1>20, <1>21, <1>22
       DEF Next, SessionStep, RequestStep

\* The state of the Hub's side of a Spoke is typed.
THEOREM TypeCorrect == Spec => []TypeOK
<1>1. Init => TypeOK
    <2> SUFFICES ASSUME Init PROVE TypeOK
        OBVIOUS
    <2>1. Created \in Record /\ EnrolledBefore \in Record
        BY DEF Created, EnrolledBefore, Record, Status
    <2>2. session \in [Sockets -> Session]
        BY DEF Init, Session, SessionPcs, Status
    <2>3. request \in [Requests -> Request]
        BY <2>1 DEF Init, Request, RequestPcs
    <2>4. admin \in Admin
        BY <2>1 DEF Init, Admin, Commands
    <2>5. live \in Record /\ disk \in Record
        BY <2>1 DEF Init
    <2>6. issued \in Keys /\ restarts \in 0 .. MaxRestarts
        BY DEF Init
    <2>7. enrolled \subseteq (Keys \X Requests) /\ up \subseteq Sockets /\ closing \subseteq Sockets
        BY DEF Init
    <2>8. QED
        BY <2>2, <2>3, <2>4, <2>5, <2>6, <2>7 DEF Init, TypeOK, Status
<1>2. QED
    BY <1>1, TypeStep, PTL DEF Spec

-----------------------------------------------------------------------------
(* The map of channels *)

\* A session's step between two places at which its sender is in the map, or at
\* neither, and that leaves the map alone.
LEMMA SessionMoves ==
    ASSUME TypeOK, ChannelHasReader, NEW s \in Sockets, UNCHANGED channel,
           \A t \in Sockets \ {s} : session'[t] = session[t],
           session[s].pc \in Registered => session'[s].pc \in Registered
    PROVE  ChannelHasReader'
BY DEF TypeOK, ChannelHasReader

LEMMA ReaderStep == TypeOK /\ ChannelHasReader /\ [Next]_vars => ChannelHasReader'
<1> SUFFICES ASSUME TypeOK, ChannelHasReader, [Next]_vars PROVE ChannelHasReader'
    OBVIOUS
<1>1. ASSUME NEW s \in Sockets,
             Connect(s) \/ Authenticate(s) \/ Reject(s) \/ Announce(s) \/ MarkOffline(s)
      PROVE  ChannelHasReader'
    <2>1. session[s].pc \notin Registered /\ UNCHANGED channel
        BY <1>1 DEF Connect, Authenticate, Reject, Announce, MarkOffline, At, Registered
    <2>2. \A t \in Sockets \ {s} : session'[t] = session[t]
        BY <1>1 DEF Connect, Authenticate, Reject, Announce, MarkOffline, Goto, TypeOK
    <2>3. QED
        BY <2>1, <2>2, SessionMoves
\* The one action that puts a sender into the map.
<1>2. ASSUME NEW s \in Sockets, Register(s) PROVE ChannelHasReader'
    BY <1>2 DEF Register, Goto, ChannelHasReader, Registered, TypeOK, Session
<1>3. ASSUME NEW s \in Sockets, ReadStatus(s) \/ ShowStatus(s) \/ StreamEnds(s)
      PROVE  ChannelHasReader'
    <2>1. session[s].pc \in Registered => session'[s].pc \in Registered
        BY <1>3 DEF ReadStatus, ShowStatus, StreamEnds, At, Goto, Registered, TypeOK, Session
    <2>2. UNCHANGED channel /\ \A t \in Sockets \ {s} : session'[t] = session[t]
        BY <1>3 DEF ReadStatus, ShowStatus, StreamEnds, Goto, TypeOK
    <2>3. QED
        BY <2>1, <2>2, SessionMoves
\* The actions that empty it.
<1>4. ASSUME NEW s \in Sockets, Unregister(s) PROVE ChannelHasReader'
    BY <1>4 DEF Unregister, ChannelHasReader
<1>5. ASSUME NEW r \in Requests, Disconnect(r) PROVE ChannelHasReader'
    BY <1>5 DEF Disconnect, ChannelHasReader
<1>6. CASE Restart
    BY <1>6 DEF Restart, ChannelHasReader
\* The others touch neither the map nor a session.
<1>7. ASSUME UNCHANGED <<channel, session>> PROVE ChannelHasReader'
    BY <1>7 DEF ChannelHasReader
<1>8. ASSUME NEW s \in Sockets, Frame(s) \/ SocketBreaks(s) PROVE UNCHANGED <<channel, session>>
    BY <1>8 DEF Frame, SocketBreaks, sessionVars
<1>9. ASSUME NEW r \in Requests, Arrive(r) \/ LoadFile(r) \/ Merge(r) \/ Route(r) \/ Enrol(r)
      PROVE  UNCHANGED <<channel, session>>
    BY <1>9 DEF Arrive, LoadFile, Merge, Route, Enrol, sessionVars
<1>10. ASSUME NEW command \in Commands, AdminLoads(command) \/ AdminSaves
       PROVE  UNCHANGED <<channel, session>>
    BY <1>10 DEF AdminLoads, AdminSaves, sessionVars
<1>11. CASE UNCHANGED vars
    BY <1>7, <1>11 DEF vars, sessionVars
<1>12. QED
    BY <1>1, <1>2, <1>3, <1>4, <1>5, <1>6, <1>7, <1>8, <1>9, <1>10, <1>11
       DEF Next, SessionStep, RequestStep, Commands

\* No request is put into the channel of a session that is over, however many
\* sessions of a Spoke overlap and whatever disconnects them.
THEOREM RoutesToLiveSession == Spec => []ChannelHasReader
<1>1. Init => ChannelHasReader
    BY DEF Init, ChannelHasReader
<1>2. QED
    BY <1>1, ReaderStep, TypeCorrect, PTL DEF Spec

-----------------------------------------------------------------------------
(* Barred Spokes *)

\* While the Hub runs, a Spoke it knows to be barred stays barred: no session,
\* cleanup, enrolment or refresh from an older copy of the file lets it in again.
THEOREM BarIsFinal == Spec => BarredStaysBarred
<1> DEFINE Kept == live.status \in Barred /\ restarts' = restarts => live'.status \in Barred
<1>1. TypeOK /\ [Next]_vars => Kept
    <2> SUFFICES ASSUME TypeOK, [Next]_vars, live.status \in Barred, restarts' = restarts
                 PROVE  live'.status \in Barred
        OBVIOUS
    <2>1. ASSUME NEW s \in Sockets, Authenticate(s) PROVE FALSE
        BY <2>1 DEF Authenticate
    <2>2. ASSUME NEW s \in Sockets, MarkOffline(s) PROVE live' = live
        BY <2>2 DEF MarkOffline, Save, Barred
    <2>3. ASSUME NEW s \in Sockets, Frame(s) PROVE live' = live
        BY <2>3 DEF Frame, Save
    <2>4. ASSUME NEW s \in Sockets,
                 \/ Connect(s) \/ Reject(s) \/ Announce(s) \/ Register(s) \/ ReadStatus(s)
                 \/ ShowStatus(s) \/ StreamEnds(s) \/ Unregister(s) \/ SocketBreaks(s)
          PROVE  live' = live
        BY <2>4 DEF Connect, Reject, Announce, Register, ReadStatus, ShowStatus, StreamEnds,
                    Unregister, SocketBreaks, storeVars
    <2>5. ASSUME NEW r \in Requests, Merge(r) PROVE live'.status \in Barred
        BY <2>5 DEF Merge, Save, Refreshed, TypeOK, Record
    <2>6. ASSUME NEW r \in Requests, Enrol(r) PROVE live'.status \in Barred
        BY <2>6 DEF Enrol, Save, TypeOK, Record
    <2>7. ASSUME NEW r \in Requests, Arrive(r) \/ LoadFile(r) \/ Disconnect(r) \/ Route(r)
          PROVE  live' = live
        BY <2>7 DEF Arrive, LoadFile, Disconnect, Route, storeVars
    <2>8. ASSUME NEW command \in Commands, AdminLoads(command) \/ AdminSaves
          PROVE  live' = live
        BY <2>8 DEF AdminLoads, AdminSaves, storeVars
    <2>9. CASE Restart
        BY <2>9 DEF Restart, TypeOK
    <2>10. CASE UNCHANGED vars
        BY <2>10 DEF vars, storeVars
    <2>11. QED
        BY <2>1, <2>2, <2>3, <2>4, <2>5, <2>6, <2>7, <2>8, <2>9, <2>10
           DEF Next, SessionStep, RequestStep, Commands
<1>2. TypeOK /\ [Next]_vars => [Kept]_vars
    BY <1>1
<1>3. QED
    BY <1>2, TypeCorrect, PTL DEF Spec, BarredStaysBarred
=============================================================================
