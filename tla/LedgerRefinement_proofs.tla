----------------------- MODULE LedgerRefinement_proofs -----------------------
(***************************************************************************)
(* The operations of a Spoke implement RealizationLedger, for any number   *)
(* of operations and any bounds.  Beyond the invariants of promotion this  *)
(* needs the history of the commits: no checkpoint is lost, and the        *)
(* identity of the next commit is new to every checkout.                   *)
(*                                                                         *)
(* On the way: an iteration starts at the checkpoint, after recovery too   *)
(* (StartsAtCheckpoint), and an operation that completed with a workspace  *)
(* was merged (CompletesWhenPromoted).                                     *)
(***************************************************************************)
EXTENDS PromotionSafety_proofs

\* From a prepared workspace to the end of the realization.
Prepared == RealPcs \ {"prepare"}

\* A worktree is never behind its checkpoint, and knows no future commit.
HistoryAt(op) ==
    /\ ws[op].ckpt \subseteq worktree[op].head
    /\ ~ws[op].exists => ws[op].ckpt = {}
    /\ task[op].pc \in Prepared => ws[op].exists
    /\ \A n \in worktree[op].head : n < changes

History == (\A op \in Ops : HistoryAt(op)) /\ \A n \in primary : n < changes

\* A step that leaves the workspace alone and the worktree's history too, or
\* rolls it back to the checkpoint.
LEMMA HistoryKept ==
    ASSUME TypeOK, NEW op \in Ops, HistoryAt(op),
           ws'[op].exists = ws[op].exists, ws'[op].ckpt = ws[op].ckpt,
           worktree'[op].head \in {worktree[op].head, ws[op].ckpt},
           changes' \in {changes, changes + 1},
           task'[op].pc \in Prepared => task[op].pc \in Prepared
    PROVE  HistoryAt(op)' /\ ws[op].ckpt \subseteq ws'[op].ckpt
<1>1. \A n \in worktree[op].head : n \in Nat
    BY DEF TypeOK, GitTypes, Worktree, Commit
<1>2. changes \in Nat
    BY DEF TypeOK, GitTypes
<1> QED
    BY <1>1, <1>2 DEF HistoryAt

LEMMA RealizationStepHistory ==
    ASSUME TypeOK, Lanes, History, NEW op \in Ops, RealizationStep(op)
    PROVE  HistoryAt(op)' /\ ws[op].ckpt \subseteq ws'[op].ckpt
<1> USE DEF Prepared, RealPcs, ReviewPcs, PromotePcs, storeVars, gitVars
<1>0. HistoryAt(op)
    BY DEF History
<1>1. CASE TakeRealizationLane(op) \/ StartMachine(op) \/ Assess(op)
    BY <1>0, <1>1, GotoFrame, HistoryKept DEF TakeRealizationLane, StartMachine, Assess
<1>2. CASE Prepare(op)
    <2>1. task'[op].pc = "machine" /\ changes' = changes /\ UNCHANGED primary
        BY <1>2, GotoFrame DEF Prepare
    <2>2. CASE ws[op].exists
        BY <1>0, <1>2, <2>1, <2>2 DEF Prepare, HistoryAt
    <2>3. CASE ~ws[op].exists
        <3>1. ws'[op].exists /\ ws'[op].ckpt = primary /\ worktree'[op].head = primary
            BY <1>2, <2>3 DEF Prepare, TypeOK, StoreTypes, GitTypes
        <3> QED
            BY <1>0, <2>1, <2>3, <3>1 DEF History, HistoryAt
    <2> QED
        BY <2>2, <2>3
<1>3. CASE LoopHead(op) \/ PromoteCheck(op) \/ Merge(op)
    <2>1. /\ UNCHANGED <<ws, worktree, changes>> /\ task[op].pc \in Prepared
        BY <1>3 DEF LoopHead, PromoteCheck, Merge
    <2> QED
        BY <1>0, <2>1, HistoryKept
<1>4. CASE Reconcile(op)
    <2>1. /\ UNCHANGED <<ws, changes>> /\ task[op].pc \in Prepared
          /\ worktree'[op].head = worktree[op].head
        BY <1>4 DEF Reconcile, TypeOK, GitTypes, Worktree
    <2> QED
        BY <1>0, <2>1, HistoryKept
<1>5. CASE PersistWork(op)
    <2>1. /\ task[op].pc \in Prepared /\ UNCHANGED <<worktree, changes>>
          /\ ws'[op].ckpt = worktree[op].head /\ ws'[op].exists = ws[op].exists
        BY <1>5 DEF PersistWork, TypeOK, StoreTypes, Workspace
    <2> QED
        BY <1>0, <2>1 DEF HistoryAt
<1>6. CASE PersistPhase(op) \/ ReviewCompleted(op) \/ Satisfy(op)
    <2>1. UNCHANGED <<ws, worktree, changes>> /\ task[op].pc \in Prepared
        BY <1>6 DEF PersistPhase, ReviewCompleted, Satisfy
    <2> QED
        BY <1>0, <2>1, HistoryKept
<1>7. CASE PersistPromoted(op)
    <2>1. /\ UNCHANGED <<worktree, changes>> /\ task[op].pc \in Prepared
          /\ ws'[op].ckpt = ws[op].ckpt /\ ws'[op].exists = ws[op].exists
        BY <1>7 DEF PersistPromoted, TypeOK, StoreTypes, Workspace
    <2> QED
        BY <1>0, <2>1, HistoryKept
<1> QED
    BY <1>1, <1>2, <1>3, <1>4, <1>5, <1>6, <1>7 DEF RealizationStep

LEMMA RunStepHistory ==
    ASSUME TypeOK, History, NEW op \in Ops, AgentStep(op) \/ RunCancelled(op) \/ ResumeRun(op)
    PROVE  HistoryAt(op)' /\ ws[op].ckpt \subseteq ws'[op].ckpt
<1> USE DEF Prepared, RealPcs, ReviewPcs, PromotePcs, storeVars, gitVars
<1>0. HistoryAt(op)
    BY DEF History
<1>1. ASSUME Fail(op, task) \/ (\E a \in {"no", "waiting"} : task' = [task EXCEPT ![op].ask = a]),
             UNCHANGED <<ws, changes>>,
             Rollback(op) \/ UNCHANGED worktree
      PROVE  HistoryAt(op)' /\ ws[op].ckpt \subseteq ws'[op].ckpt
    <2>1. task'[op].pc \in {"err", task[op].pc}
        BY <1>1, SameTask, FailFrame DEF TypeOK, ProcessTypes, Task
    <2>2. worktree'[op].head \in {worktree[op].head, ws[op].ckpt}
        BY <1>1 DEF Rollback, TypeOK, GitTypes
    <2> QED
        BY <1>0, <1>1, <2>1, <2>2, HistoryKept
<1>2. CASE Ask(op) \/ ResumeRun(op)
    BY <1>1, <1>2 DEF Ask, ResumeRun
<1>3. CASE RunCancelled(op) \/ WorkFails(op)
    BY <1>1, <1>3 DEF RunCancelled, WorkFails
<1>4. ASSUME NEW q \in BOOLEAN, NEW p \in BOOLEAN, KeepIntent(op, q, p)
      PROVE  HistoryAt(op)' /\ ws[op].ckpt \subseteq ws'[op].ckpt
    <2>1. task'[op].pc = "reply"
        BY <1>4 DEF KeepIntent, TypeOK, ProcessTypes, Task
    <2> QED
        BY <1>0, <1>4, <2>1, HistoryKept DEF KeepIntent
<1>5. ASSUME NEW a \in BOOLEAN, NEW q \in BOOLEAN, NEW p \in BOOLEAN,
             CommitIntent(op, a, q, p)
      PROVE  HistoryAt(op)' /\ ws[op].ckpt \subseteq ws'[op].ckpt
    <2>1. UNCHANGED <<ws, worktree, changes>>
        BY <1>5 DEF CommitIntent
    <2>2. task'[op].pc \in {"supersede", "err"}
        <3> DEFINE S == {o \in Ops \ {op} : status[o] \in {"accepted", "running"}}
        <3>1. \/ Fail(op, task)
              \/ task' = [task EXCEPT ![op].pc = "supersede", ![op].rev = source.rev + 1,
                              ![op].active = a, ![op].sup = S, ![op].next = After(q, p, a)]
            BY <1>5 DEF CommitIntent
        <3> HIDE DEF S
        <3>2. CASE Fail(op, task)
            BY <3>2, SameTask, FailFrame DEF TypeOK, ProcessTypes
        <3> QED
            BY <3>1, <3>2 DEF TypeOK, ProcessTypes, Task
    <2> QED
        BY <1>0, <2>1, <2>2, HistoryKept
<1>6. ASSUME NEW q \in BOOLEAN, NEW c \in BOOLEAN, Implemented(op, q, c)
      PROVE  HistoryAt(op)' /\ ws[op].ckpt \subseteq ws'[op].ckpt
    <2>1. /\ UNCHANGED ws /\ task[op].pc \in Prepared
          /\ \/ changes' = changes /\ worktree'[op].head = worktree[op].head
             \/ changes' = changes + 1
                    /\ worktree'[op].head = worktree[op].head \cup {changes}
        BY <1>6 DEF Implemented, Working, TypeOK, GitTypes
    <2>2. changes \in Nat /\ \A n \in worktree[op].head : n \in Nat
        BY DEF TypeOK, GitTypes, Worktree, Commit
    <2> QED
        BY <1>0, <2>1, <2>2 DEF HistoryAt
<1>7. ASSUME NEW a \in BOOLEAN, Reviewed(op, a) \/ ColdReviewed(op, a)
      PROVE  HistoryAt(op)' /\ ws[op].ckpt \subseteq ws'[op].ckpt
    <2>1. UNCHANGED <<ws, worktree, changes>> /\ task[op].pc \in Prepared
        BY <1>7 DEF Reviewed, ColdReviewed, Working, Judged
    <2> QED
        BY <1>0, <2>1, HistoryKept
<1> QED
    BY <1>2, <1>3, <1>4, <1>5, <1>6, <1>7 DEF AgentStep

LEMMA OpStepHistory ==
    ASSUME TypeOK, Lanes, History, NEW op \in Ops, OpStep(op)
    PROVE  HistoryAt(op)' /\ ws[op].ckpt \subseteq ws'[op].ckpt
<1> USE DEF storeVars, gitVars
<1>0. HistoryAt(op)
    BY DEF History
<1>1. CASE IntentStep(op)
    <2>1. UNCHANGED <<ws, worktree, changes>>
        BY <1>1 DEF IntentStep, Start, TakeIntentLane, ProposeResume, SignalSuperseded, Reply,
                    AskOwner, Block, Pause, PauseSignal, Complete
    <2> QED
        BY <1>0, <1>1, <2>1, IntentStepStage, HistoryKept DEF Prepared
<1>2. CASE ErrorStep(op)
    <2>1. UNCHANGED <<ws, worktree, changes>>
        BY <1>2 DEF ErrorStep, ErrorCheck, ErrorBlock, ErrorFail
    <2>2. task'[op].pc \notin Prepared
        BY <1>2, GotoFrame, FinishFrame
           DEF ErrorStep, ErrorCheck, ErrorBlock, ErrorFail, Prepared, RealPcs, ReviewPcs,
               PromotePcs
    <2> QED
        BY <1>0, <2>1, <2>2, HistoryKept
<1> QED
    BY <1>1, <1>2, RealizationStepHistory, RunStepHistory DEF OpStep, TaskStep

\* The number of commits only grows, by one, and the primary checkout takes in
\* a checkpoint or the newest commit.
LEMMA ChangeSteps ==
    ASSUME TypeOK, [Next]_vars
    PROVE  /\ changes' \in {changes, changes + 1}
           /\ \/ primary' = primary
              \/ \E op \in Ops : primary' = ws[op].ckpt
              \/ primary' = primary \cup {changes} /\ changes' = changes + 1
<1> USE DEF storeVars, gitVars
<1>1. ASSUME NEW op \in Ops, OpStep(op)
      PROVE  /\ changes' \in {changes, changes + 1}
             /\ primary' = primary \/ primary' = ws[op].ckpt
    <2>1. CASE IntentStep(op)
        BY <2>1 DEF IntentStep, Start, TakeIntentLane, ProposeResume, SignalSuperseded, Reply,
                    AskOwner, Block, Pause, PauseSignal, Complete
    <2>2. CASE RealizationStep(op)
        BY <2>2 DEF RealizationStep, TakeRealizationLane, Prepare, StartMachine, LoopHead,
                    Reconcile, PersistWork, PersistPhase, Assess, ReviewCompleted, PromoteCheck,
                    Merge, PersistPromoted, Satisfy
    <2>3. CASE ErrorStep(op)
        BY <2>3 DEF ErrorStep, ErrorCheck, ErrorBlock, ErrorFail
    <2>4. CASE RunCancelled(op) \/ ResumeRun(op)
        BY <2>4 DEF RunCancelled, ResumeRun
    <2>5. CASE AgentStep(op)
        BY <2>5 DEF AgentStep, KeepIntent, CommitIntent, Implemented, Reviewed, ColdReviewed,
                    Judged, Ask, WorkFails
    <2> QED
        BY <1>1, <2>1, <2>2, <2>3, <2>4, <2>5 DEF OpStep, TaskStep
<1>2. CASE ConnStep
    BY <1>2 DEF ConnStep, Connect, Recover, Recovered, SpawnTask, CancelStore, CancelProject,
                Respawn
<1>3. CASE Environment
    BY <1>3 DEF Environment, AcceptIntent, CancelIntent, Answer, RespawnFails, WireBreaks,
                Disconnect, DetachedWriterStops, Restart, OwnerCommits
<1>4. CASE UNCHANGED vars
    BY <1>4 DEF vars
<1> QED
    BY <1>1, <1>2, <1>3, <1>4 DEF Next, OpStep

LEMMA NextHistory ==
    ASSUME TypeOK, Exclusion, History, [Next]_vars
    PROVE  History' /\ \A o \in Ops : ws[o].ckpt \subseteq ws'[o].ckpt
<1> USE DEF storeVars, gitVars
<1>1. changes' \in {changes, changes + 1}
    BY ChangeSteps
<1>2. \A n \in primary' : n < changes'
    <2>1. /\ changes \in Nat /\ \A n \in primary : n \in Nat
          /\ \A o \in Ops : \A n \in ws[o].ckpt : n \in Nat /\ n < changes
        BY DEF History, HistoryAt, TypeOK, GitTypes, StoreTypes, Workspace, Commit
    <2> QED
        BY <1>1, <2>1, ChangeSteps DEF History
<1>3. ASSUME NEW o \in Ops, ws'[o] = ws[o],
             worktree'[o].head \in {worktree[o].head, ws[o].ckpt},
             task'[o].pc \in Prepared => task[o].pc \in Prepared
      PROVE  HistoryAt(o)' /\ ws[o].ckpt \subseteq ws'[o].ckpt
    BY <1>1, <1>3, HistoryKept DEF History
<1>4. ASSUME NEW op \in Ops, OpStep(op), NEW o \in Ops
      PROVE  HistoryAt(o)' /\ ws[o].ckpt \subseteq ws'[o].ckpt
    <2>1. CASE o = op
        BY <1>4, <2>1, OpStepHistory DEF Exclusion
    <2>2. CASE o # op
        BY <1>3, <1>4, <2>2, OpStepWork, OpStepLanes DEF Exclusion, WorkKept, TaskFrame, SameControl
    <2> QED
        BY <2>1, <2>2
<1>5. ASSUME QuietStep, NEW o \in Ops
      PROVE  HistoryAt(o)' /\ ws[o].ckpt \subseteq ws'[o].ckpt
    <2>1. UNCHANGED <<worktree, ws>>
        BY <1>5 DEF QuietStep, Connect, Recover, Recovered, CancelStore, CancelProject,
                    AcceptIntent, CancelIntent, Answer, RespawnFails, WireBreaks, Disconnect,
                    DetachedWriterStops, OwnerCommits
    <2> QED
        BY <1>3, <1>5, <2>1, QuietFrame DEF SameControl
<1>6. ASSUME NEW op \in Ops, NEW r \in BOOLEAN, Spawned(op, r), UNCHANGED ws,
             worktree' = worktree \/ Rollback(op), NEW o \in Ops
      PROVE  HistoryAt(o)' /\ ws[o].ckpt \subseteq ws'[o].ckpt
    <2>1. task'[o].pc \in {task[o].pc, "start"}
        BY <1>6 DEF Spawned, NoTask, TypeOK, ProcessTypes
    <2>2. worktree'[o].head \in {worktree[o].head, ws[o].ckpt}
        BY <1>6 DEF Rollback, TypeOK, GitTypes
    <2>3. "start" \notin Prepared
        BY DEF Prepared, RealPcs, ReviewPcs, PromotePcs
    <2> QED
        BY <1>3, <1>6, <2>1, <2>2, <2>3
<1>7. ASSUME (\E op \in Ops : Respawn(op)) \/ SpawnTask \/ Restart \/ UNCHANGED vars,
             NEW o \in Ops
      PROVE  HistoryAt(o)' /\ ws[o].ckpt \subseteq ws'[o].ckpt
    <2>1. CASE \E op \in Ops : Respawn(op)
        BY <1>6, <2>1 DEF Respawn
    <2>2. CASE SpawnTask /\ wire
        BY <1>6, <2>2 DEF SpawnTask, TypeOK, ProcessTypes, Connection
    <2>3. CASE (SpawnTask /\ ~wire) \/ UNCHANGED vars
        BY <1>3, <2>3 DEF SpawnTask, vars
    <2>4. CASE Restart
        <3>1. task'[o].pc = "none" /\ UNCHANGED <<ws, worktree>>
            BY <2>4 DEF Restart, NoTask
        <3> QED
            BY <1>3, <3>1 DEF Prepared, RealPcs, ReviewPcs, PromotePcs
    <2> QED
        BY <1>7, <2>1, <2>2, <2>3, <2>4
<1> QED
    BY <1>2, <1>4, <1>5, <1>7 DEF Next, OpStep, QuietStep, ConnStep, Environment, History

LEMMA AlwaysHistory == Spec => [](TypeOK /\ Exclusion /\ Promotion /\ History)
<1>1. TypeOK /\ Exclusion /\ History /\ [Next]_vars => History'
    BY NextHistory
<1>2. Init => History
    BY DEF Init, NoTask, NoWorkspace, History, HistoryAt, Prepared, RealPcs, ReviewPcs, PromotePcs
<1> QED
    BY <1>1, <1>2, AlwaysExclusion, AlwaysPromotion, PTL DEF Spec

\* No step, recovery and rollback included, replaces a checkpoint by one that
\* lacks part of it (checkpoint and rollback, workspace.rs).
THEOREM CheckpointOnlyGrows == Spec => CheckpointNeverLost
<1>1. TypeOK /\ Exclusion /\ History /\ [Next]_vars
          => [\A op \in Ops : ws[op].ckpt \subseteq ws'[op].ckpt]_vars
    BY NextHistory
<1> QED
    BY <1>1, AlwaysHistory, PTL DEF Spec, CheckpointNeverLost

-----------------------------------------------------------------------------
(* Iterations *)

\* A task that is about to start an iteration, its first one or the next.
Fresh == IntentPcs \cup {"start", "lane", "wait", "prepare", "machine", "loop", "reconcile"}

AtCheckpoint(o) == worktree[o] = [head |-> ws[o].ckpt, dirty |-> FALSE]

\* Known to nobody, or waiting for a task.
Awaiting(o) == status[o] \in {"none", "queued"} \/ HandedOver(o)

\* New: no task of it has prepared a workspace yet.
NewOperation(o) == status[o] = "none" \/ (conn.pc = "spawn" /\ conn.op = o)

\* What a task of op finds and leaves.
IterationAt(op) ==
    /\ ws[op].base \subseteq ws[op].ckpt
    /\ task[op].pc \in Fresh =>
           machine[op].phase = "implementing" /\ (ws[op].exists => AtCheckpoint(op))
    /\ task[op].pc \in Prepared \ {"machine"} => machine[op].exists

\* What the next task of o will find.
AwaitedAt(o) ==
    /\ Awaiting(o) => machine[o].phase = "implementing"
    /\ NewOperation(o) => ~ws[o].exists

Iteration == \A o \in Ops : IterationAt(o) /\ AwaitedAt(o)

LEMMA IterationKept ==
    ASSUME NEW op \in Ops, IterationAt(op),
           ws'[op].base = ws[op].base, ws'[op].ckpt = ws[op].ckpt,
           ws'[op].exists = ws[op].exists, machine'[op].exists = machine[op].exists,
           task'[op].pc \in Fresh => /\ task[op].pc \in Fresh
                                     /\ machine'[op].phase = machine[op].phase
                                     /\ worktree'[op] = worktree[op],
           task'[op].pc \in Prepared \ {"machine"} => task[op].pc \in Prepared \ {"machine"}
    PROVE  IterationAt(op)'
BY DEF IterationAt, AtCheckpoint

LEMMA IntentStepIteration ==
    ASSUME TypeOK, Lanes, Iteration, NEW op \in Ops, IntentStep(op)
    PROVE  IterationAt(op)'
<1> USE DEF Fresh, IntentPcs, storeVars, gitVars
<1>1. IterationAt(op) /\ UNCHANGED <<ws, worktree, machine>>
    BY DEF Iteration, IntentStep, Start, TakeIntentLane, ProposeResume, SignalSuperseded, Reply,
           AskOwner, Block, Pause, PauseSignal, Complete
<1>2. task'[op].pc \notin RealPcs
    BY IntentStepStage
<1>3. task'[op].pc \in Fresh => task[op].pc \in Fresh
    <2>1. CASE Start(op) \/ TakeIntentLane(op) \/ ProposeResume(op) \/ SignalSuperseded(op) \/ Reply(op)
        BY <2>1 DEF Start, TakeIntentLane, ProposeResume, SignalSuperseded, Reply
    <2>2. CASE AskOwner(op)
        BY <2>2, GotoFrame DEF AskOwner
    <2>3. CASE Block(op) \/ Complete(op)
        BY <2>3, SameTask, FinishFrame, FailFrame DEF Block, Complete, TypeOK, ProcessTypes
    <2>4. CASE Pause(op)
        BY <2>4 DEF Pause, TypeOK, ProcessTypes, Task
    <2>5. CASE PauseSignal(op)
        <3> DEFINE t == Signal(task[op].sup)
        <3>1. t \in [Ops -> Task]
            BY SignalTypes DEF TypeOK, ProcessTypes, TaskTypes
        <3>2. task' = [t EXCEPT ![op] = [t[op] EXCEPT !.pc = "complete", !.sup = {}]]
            BY <2>5 DEF PauseSignal
        <3> HIDE DEF t
        <3> QED
            BY <3>1, <3>2 DEF Task
    <2> QED
        BY <2>1, <2>2, <2>3, <2>4, <2>5 DEF IntentStep
<1> QED
    BY <1>1, <1>2, <1>3, IterationKept DEF Prepared

LEMMA RealizationStepIteration ==
    ASSUME TypeOK, Lanes, Promotion, History, Iteration, NEW op \in Ops, RealizationStep(op)
    PROVE  IterationAt(op)'
<1> USE DEF Prepared, RealPcs, ReviewPcs, PromotePcs, storeVars, gitVars
<1>0. IterationAt(op) /\ HistoryAt(op)
    BY DEF Iteration, History
<1>1. ASSUME UNCHANGED <<ws, machine>>, task[op].pc \in Prepared \ {"machine"},
             task'[op].pc \notin Fresh
      PROVE  IterationAt(op)'
    BY <1>0, <1>1, IterationKept
<1>2. CASE Fail(op, task) /\ UNCHANGED <<ws, machine>>
    BY <1>0, <1>2, SameTask, FailFrame, IterationKept
       DEF TypeOK, ProcessTypes, Fresh, IntentPcs
<1>3. CASE TakeRealizationLane(op)
    <2>1. task[op].pc = "wait" /\ task'[op].pc = "prepare" /\ UNCHANGED <<ws, machine, worktree>>
        BY <1>3, GotoFrame DEF TakeRealizationLane
    <2> QED
        BY <1>0, <2>1, IterationKept DEF Fresh
<1>4. CASE Prepare(op)
    <2>1. task[op].pc = "prepare" /\ task'[op].pc = "machine" /\ UNCHANGED machine
        BY <1>4, GotoFrame DEF Prepare
    <2>2. CASE ws[op].exists
        BY <1>0, <1>4, <2>1, <2>2, IterationKept DEF Prepare, Fresh
    <2>3. CASE ~ws[op].exists
        <3>1. /\ ws'[op].ckpt = primary /\ ws'[op].base = primary
              /\ worktree'[op] = [head |-> primary, dirty |-> FALSE]
            BY <1>4, <2>3 DEF Prepare, TypeOK, StoreTypes, GitTypes
        <3> QED
            BY <1>0, <2>1, <3>1 DEF IterationAt, AtCheckpoint, Fresh
    <2> QED
        BY <2>2, <2>3
<1>5. CASE StartMachine(op)
    <2>1. /\ task[op].pc = "machine" /\ task'[op].pc = "loop" /\ UNCHANGED <<ws, worktree>>
        BY <1>5, GotoFrame DEF StartMachine
    <2>2. machine[op].phase = "implementing"
        BY <1>0, <2>1 DEF IterationAt, Fresh
    <2>3. machine'[op].phase = "implementing" /\ machine'[op].exists
        BY <1>5, <2>2 DEF StartMachine, TypeOK, StoreTypes
    <2> QED
        BY <1>0, <2>1, <2>3 DEF IterationAt, AtCheckpoint, Fresh
<1>6. CASE LoopHead(op)
    <2>1. CASE Goto(op, "reconcile")
        <3>1. task'[op].pc = "reconcile" /\ task[op].pc = "loop" /\ UNCHANGED <<ws, machine, worktree>>
            BY <1>6, <2>1, GotoFrame DEF LoopHead
        <3> QED
            BY <1>0, <3>1, IterationKept DEF Fresh
    <2> QED
        BY <1>2, <1>6, <2>1 DEF LoopHead
<1>7. CASE Reconcile(op) \/ Satisfy(op)
    <2>1. /\ task[op].pc \in {"reconcile", "satisfy"} /\ UNCHANGED <<ws, machine>>
          /\ SendThen(op, "impl") \/ SendThen(op, "complete")
        BY <1>7 DEF Reconcile, Satisfy
    <2> QED
        BY <1>1, <2>1, SendThenFrame DEF Fresh, IntentPcs
<1>8. CASE PersistWork(op)
    <2>1. /\ task[op].pc = "persistWork" /\ task'[op].pc = "persistPhase" /\ UNCHANGED machine
          /\ ws'[op].ckpt = worktree[op].head /\ ws'[op].base = ws[op].base
        BY <1>8, GotoFrame DEF PersistWork, TypeOK, StoreTypes, Workspace
    <2> QED
        BY <1>0, <2>1 DEF IterationAt, HistoryAt, Fresh, IntentPcs
<1>9. CASE PersistPhase(op)
    <2>1. /\ task[op].pc = "persistPhase" /\ UNCHANGED ws /\ task[op].next \in {"askOwner", "assess"}
          /\ machine'[op].exists = machine[op].exists
        BY <1>9 DEF PersistPhase, Lanes, LaneAt, TypeOK, StoreTypes, Machine
    <2>2. task'[op].pc \in {"askOwner", "assess", "err"}
        BY <1>9, <2>1 DEF PersistPhase, Fail, TypeOK, ProcessTypes, Task
    <2> QED
        BY <1>0, <2>1, <2>2, IterationKept DEF Fresh, IntentPcs
<1>10. CASE Assess(op)
    BY <1>1, <1>10, GotoFrame DEF Assess, Fresh, IntentPcs
<1>11. CASE ReviewCompleted(op)
    <2>1. /\ task[op].pc \in {"approved", "findings"} /\ UNCHANGED <<ws, worktree>>
          /\ machine'[op].exists = machine[op].exists
          /\ task[op].pc = "approved" => Goto(op, "promote")
          /\ task[op].pc = "findings" => SendThen(op, "loop") /\ machine'[op].phase = "implementing"
        BY <1>11 DEF ReviewCompleted, TypeOK, StoreTypes, Machine
    <2>2. AtCheckpoint(op)
        BY <2>1 DEF Promotion, ReviewedAt, Judging, AtCheckpoint
    <2>3. \/ task'[op].pc \in {"promote", "err"}
          \/ task[op].pc = "findings" /\ task'[op].pc = "loop"
        <3>1. CASE task[op].pc = "approved"
            BY <2>1, <3>1, GotoFrame
        <3>2. CASE task[op].pc = "findings"
            BY <2>1, <3>2, SendThenFrame
        <3> QED
            BY <2>1, <3>1, <3>2
    <2> QED
        BY <1>0, <2>1, <2>2, <2>3 DEF IterationAt, AtCheckpoint, Fresh, IntentPcs
<1>12. CASE PromoteCheck(op) \/ Merge(op)
    <2>1. ASSUME NEW l \in {"merge", "persistPromoted"}, Goto(op, l) PROVE IterationAt(op)'
        BY <1>1, <1>12, <2>1, GotoFrame DEF PromoteCheck, Merge, Fresh, IntentPcs
    <2> QED
        BY <1>2, <1>12, <2>1 DEF PromoteCheck, Merge
<1>13. CASE PersistPromoted(op)
    <2>1. /\ task[op].pc = "persistPromoted" /\ task'[op].pc = "satisfy" /\ UNCHANGED machine
          /\ ws'[op].base = ws[op].base /\ ws'[op].ckpt = ws[op].ckpt
          /\ ws'[op].exists = ws[op].exists
        BY <1>13, GotoFrame DEF PersistPromoted, TypeOK, StoreTypes, Workspace
    <2> QED
        BY <1>0, <2>1, IterationKept DEF Fresh, IntentPcs
<1> QED
    BY <1>3, <1>4, <1>5, <1>6, <1>7, <1>8, <1>9, <1>10, <1>11, <1>12, <1>13 DEF RealizationStep

LEMMA RunStepIteration ==
    ASSUME TypeOK, Iteration, NEW op \in Ops, AgentStep(op) \/ RunCancelled(op) \/ ResumeRun(op)
    PROVE  IterationAt(op)'
<1> USE DEF storeVars, gitVars
<1>0. IterationAt(op)
    BY DEF Iteration
<1>1. CASE Fail(op, task) /\ UNCHANGED <<ws, machine>>
    BY <1>0, <1>1, SameTask, FailFrame, IterationKept
       DEF TypeOK, ProcessTypes, Fresh, IntentPcs, Prepared, RealPcs, ReviewPcs, PromotePcs
<1>2. ASSUME NEW a \in {"no", "waiting"}, task' = [task EXCEPT ![op].ask = a],
             UNCHANGED <<ws, machine, worktree>>
      PROVE  IterationAt(op)'
    <2>1. task'[op].pc = task[op].pc
        BY <1>2 DEF TypeOK, ProcessTypes, Task
    <2> QED
        BY <1>0, <1>2, <2>1, IterationKept
<1>3. CASE Ask(op) \/ ResumeRun(op)
    BY <1>1, <1>2, <1>3 DEF Ask, ResumeRun
<1>4. CASE RunCancelled(op) \/ WorkFails(op)
    BY <1>1, <1>4 DEF RunCancelled, WorkFails
<1>5. ASSUME NEW q \in BOOLEAN, NEW p \in BOOLEAN, KeepIntent(op, q, p)
      PROVE  IterationAt(op)'
    <2>1. /\ task[op].pc = "intent" /\ task'[op].pc = "reply"
          /\ UNCHANGED <<ws, machine, worktree>>
        BY <1>5 DEF KeepIntent, Working, TypeOK, ProcessTypes, Task
    <2> QED
        BY <1>0, <2>1, IterationKept
           DEF Fresh, IntentPcs, Prepared, RealPcs, ReviewPcs, PromotePcs
<1>6. ASSUME NEW a \in BOOLEAN, NEW q \in BOOLEAN, NEW p \in BOOLEAN,
             CommitIntent(op, a, q, p)
      PROVE  IterationAt(op)'
    <2> DEFINE S == {o \in Ops \ {op} : status[o] \in {"accepted", "running"}}
    <2>1. /\ task[op].pc = "intent" /\ UNCHANGED <<ws, machine, worktree>>
          /\ \/ Fail(op, task)
             \/ task' = [task EXCEPT ![op].pc = "supersede", ![op].rev = source.rev + 1,
                             ![op].active = a, ![op].sup = S, ![op].next = After(q, p, a)]
        BY <1>6 DEF CommitIntent, Working
    <2> HIDE DEF S
    <2>2. CASE task'[op].pc = "supersede"
        BY <1>0, <2>1, <2>2, IterationKept
           DEF Fresh, IntentPcs, Prepared, RealPcs, ReviewPcs, PromotePcs
    <2> QED
        BY <1>1, <2>1, <2>2 DEF TypeOK, ProcessTypes, Task
<1>7. ASSUME NEW q \in BOOLEAN, NEW c \in BOOLEAN, Implemented(op, q, c)
      PROVE  IterationAt(op)'
    <2>1. /\ task[op].pc = "impl" /\ task'[op].pc = "persistWork" /\ UNCHANGED <<ws, machine>>
        BY <1>7 DEF Implemented, Working, TypeOK, ProcessTypes, Task
    <2> QED
        BY <1>0, <2>1, IterationKept
           DEF Fresh, IntentPcs, Prepared, RealPcs, ReviewPcs, PromotePcs
<1>8. ASSUME NEW a \in BOOLEAN, Reviewed(op, a) \/ ColdReviewed(op, a)
      PROVE  IterationAt(op)'
    <2>1. /\ task[op].pc \in {"review", "cold"} /\ UNCHANGED <<ws, machine>>
          /\ Fail(op, task) \/ \E l \in {"cold", "approved", "findings"} : Goto(op, l)
        BY <1>8 DEF Reviewed, ColdReviewed, Working, Judged
    <2>2. task'[op].pc \in {"cold", "approved", "findings", "err"}
        BY <2>1, SameTask, FailFrame, GotoFrame DEF TypeOK, ProcessTypes
    <2> QED
        BY <1>0, <2>1, <2>2, IterationKept
           DEF Fresh, IntentPcs, Prepared, RealPcs, ReviewPcs, PromotePcs
<1> QED
    BY <1>3, <1>4, <1>5, <1>6, <1>7, <1>8 DEF AgentStep

LEMMA OpStepIteration ==
    ASSUME TypeOK, Exclusion, Promotion, History, Iteration, NEW op \in Ops, OpStep(op)
    PROVE  Iteration'
<1> USE DEF Exclusion
<1>1. IterationAt(op)'
    <2>1. CASE ErrorStep(op)
        <3>1. task'[op].pc \in {"none", "errBlock", "errFail"} /\ UNCHANGED <<ws, machine>>
            BY <2>1, GotoFrame, FinishFrame
               DEF ErrorStep, ErrorCheck, ErrorBlock, ErrorFail, storeVars
        <3> QED
            BY <3>1, IterationKept
               DEF Iteration, Fresh, IntentPcs, Prepared, RealPcs, ReviewPcs, PromotePcs
    <2> QED
        BY <2>1, IntentStepIteration, RealizationStepIteration, RunStepIteration
           DEF OpStep, TaskStep
<1>2. task[op].pc # "none" /\ conn' = conn
      /\ \A o \in Ops : status'[o] = status[o] \/ status'[o] \notin {"none", "queued"}
    BY OpStepStatus
<1>3. AwaitedAt(op)'
    BY <1>2, OneTaskDef DEF AwaitedAt, Awaiting, NewOperation, OneTaskAt, HandedOver
<1>4. ASSUME NEW o \in Ops \ {op} PROVE IterationAt(o)' /\ AwaitedAt(o)'
    <2>1. WorkKept(o) /\ task'[o].pc = task[o].pc
        BY <1>4, OpStepWork, OpStepLanes DEF TaskFrame, SameControl
    <2>2. IterationAt(o)'
        BY <2>1, IterationKept DEF WorkKept, Iteration
    <2> QED
        BY <1>2, <2>1, <2>2 DEF WorkKept, Iteration, AwaitedAt, Awaiting, NewOperation, HandedOver
<1> QED
    BY <1>1, <1>3, <1>4 DEF Iteration

\* What the connection loop and the owner make of an operation that waits.
LEMMA QuietHands ==
    ASSUME TypeOK, QuietStep, NEW o \in Ops
    PROVE  /\ Awaiting(o)' => Awaiting(o)
           /\ NewOperation(o)' => NewOperation(o)
           /\ status'[o] = "completed" => status[o] = "completed"
           /\ HandedOver(o)' => HandedOver(o) \/ status'[o] = "accepted"
<1> USE DEF Awaiting, NewOperation, HandedOver, storeVars, connVars, Serve, Idle
<1>1. CASE Connect \/ Recovered \/ CancelProject
    BY <1>1 DEF Connect, Recovered, CancelProject
<1>2. CASE Recover
    <2> DEFINE S == {i \in Ops : Recoverable(i)}
    <2>1. /\ conn' = [pc |-> "respawn", op |-> NoOp, todo |-> S]
          /\ status' = [i \in Ops |-> IF i \in S THEN "accepted" ELSE status[i]]
        BY <1>2 DEF Recover
    <2>2. o \in S => status[o] = "queued"
        BY DEF Recoverable
    <2> HIDE DEF S
    <2> QED
        BY <2>1, <2>2
<1>3. CASE CancelStore
    <2>1. conn'.todo = {} /\ conn'.pc # "spawn"
        BY <1>3 DEF CancelStore
    <2>2. status'[o] \in {status[o], "cancelled"}
        BY <1>3 DEF CancelStore, TypeOK, StoreTypes
    <2> QED
        BY <2>1, <2>2
<1>4. ASSUME NEW op \in Ops, AcceptIntent(op)
      PROVE  /\ Awaiting(o)' => Awaiting(o)
             /\ NewOperation(o)' => NewOperation(o)
             /\ status'[o] = "completed" => status[o] = "completed"
             /\ HandedOver(o)' => HandedOver(o) \/ status'[o] = "accepted"
    <2>1. /\ conn.pc = "idle" /\ status[op] = "none"
          /\ status' = [status EXCEPT ![op] = "accepted"]
          /\ conn' = conn \/ conn' = [pc |-> "spawn", op |-> op, todo |-> {}]
        BY <1>4 DEF AcceptIntent
    <2> QED
        BY <2>1 DEF TypeOK, StoreTypes
<1>5. ASSUME NEW op \in Ops, CancelIntent(op) \/ Answer(op) \/ RespawnFails(op)
      PROVE  /\ Awaiting(o)' => Awaiting(o)
             /\ NewOperation(o)' => NewOperation(o)
             /\ status' = status
             /\ HandedOver(o)' => HandedOver(o)
    BY <1>5 DEF CancelIntent, Answer, RespawnFails
<1>6. CASE WireBreaks \/ Disconnect \/ DetachedWriterStops \/ OwnerCommits
    BY <1>6 DEF WireBreaks, Disconnect, DetachedWriterStops, OwnerCommits
<1> QED
    BY <1>1, <1>2, <1>3, <1>4, <1>5, <1>6 DEF QuietStep

LEMMA QuietIteration ==
    ASSUME TypeOK, Iteration, QuietStep
    PROVE  Iteration'
<1>1. UNCHANGED <<worktree, ws, machine>>
    BY DEF QuietStep, Connect, Recover, Recovered, CancelStore, CancelProject, AcceptIntent,
           CancelIntent, Answer, RespawnFails, WireBreaks, Disconnect, DetachedWriterStops,
           OwnerCommits, storeVars, gitVars
<1> SUFFICES ASSUME NEW o \in Ops PROVE IterationAt(o)' /\ AwaitedAt(o)'
    BY DEF Iteration
<1>2. task'[o].pc = task[o].pc
    BY QuietFrame DEF SameControl
<1>3. IterationAt(o)'
    BY <1>1, <1>2, IterationKept DEF Iteration
<1>4. AwaitedAt(o)'
    BY <1>1, QuietHands DEF Iteration, AwaitedAt
<1> QED
    BY <1>3, <1>4

\* A task finds its worktree at the checkpoint: a recovered operation's is rolled
\* back, a new one has none.
LEMMA SpawnIteration ==
    ASSUME TypeOK, Iteration, NEW op \in Ops, SpawnStep(op),
           UNCHANGED <<ws, machine>>, conn'.pc # "spawn",
           \/ ws[op].exists /\ Rollback(op)
           \/ ~ws[op].exists /\ worktree' = worktree
    PROVE  Iteration'
<1>1. /\ task'[op].pc = "start" /\ \A o \in Ops \ {op} : task'[o] = task[o]
      /\ \A o \in Ops : HandedOver(o)' => HandedOver(o) /\ o # op
      /\ HandedOver(op) /\ status' = status
    BY DEF SpawnStep, Spawned, NoTask, TypeOK, ProcessTypes
<1>2. /\ ws[op].exists => AtCheckpoint(op)'
      /\ \A o \in Ops \ {op} : worktree'[o] = worktree[o]
    BY DEF Rollback, AtCheckpoint, TypeOK, GitTypes
<1>3. IterationAt(op)'
    BY <1>1, <1>2
       DEF Iteration, IterationAt, AwaitedAt, Awaiting, Fresh, IntentPcs, Prepared, RealPcs,
           ReviewPcs, PromotePcs
<1>4. \A o \in Ops \ {op} : IterationAt(o)'
    BY <1>1, <1>2, IterationKept DEF Iteration
<1>5. ASSUME NEW o \in Ops PROVE AwaitedAt(o)'
    <2>1. Awaiting(o)' => Awaiting(o)
        BY <1>1 DEF Awaiting
    <2>2. NewOperation(o)' => NewOperation(o)
        BY <1>1 DEF NewOperation
    <2> QED
        BY <1>1, <2>1, <2>2 DEF Iteration, AwaitedAt
<1> QED
    BY <1>3, <1>4, <1>5 DEF Iteration

LEMMA NextIteration ==
    ASSUME TypeOK, Exclusion, Promotion, History, Iteration, [Next]_vars
    PROVE  Iteration'
<1> USE DEF storeVars, gitVars
<1>1. ASSUME NEW op \in Ops, OpStep(op) PROVE Iteration'
    BY <1>1, OpStepIteration
<1>2. CASE QuietStep
    BY <1>2, QuietIteration
<1>3. ASSUME NEW op \in Ops, Respawn(op) PROVE Iteration'
    <2>1. SpawnStep(op) /\ conn'.pc # "spawn"
        BY <1>3 DEF Respawn, SpawnStep, HandedOver, Serve
    <2> QED
        BY <1>3, <2>1, SpawnIteration DEF Respawn
<1>4. CASE SpawnTask
    <2>1. conn.op \in Ops /\ conn.pc = "spawn" /\ conn' = [pc |-> "idle", op |-> NoOp, todo |-> {}]
        BY <1>4 DEF SpawnTask, Idle, Serve, TypeOK, ProcessTypes, Connection
    <2>2. CASE wire
        <3>1. SpawnStep(conn.op)
            BY <1>4, <2>1, <2>2 DEF SpawnTask, SpawnStep, HandedOver
        <3>2. ~ws[conn.op].exists
            BY <2>1 DEF Iteration, AwaitedAt, NewOperation
        <3> QED
            BY <1>4, <2>1, <3>1, <3>2, SpawnIteration DEF SpawnTask
    <2>3. CASE ~wire
        <3>1. UNCHANGED <<task, ws, machine, worktree, status>>
            BY <1>4, <2>3 DEF SpawnTask
        <3>2. \A o \in Ops : IterationAt(o)'
            BY <3>1, IterationKept DEF Iteration
        <3> QED
            BY <2>1, <3>1, <3>2
               DEF Iteration, AwaitedAt, Awaiting, NewOperation, HandedOver
    <2> QED
        BY <2>2, <2>3
<1>5. CASE Restart
    <2> SUFFICES ASSUME NEW o \in Ops PROVE IterationAt(o)' /\ AwaitedAt(o)'
        BY DEF Iteration
    <2>1. /\ task'[o].pc = "none" /\ UNCHANGED <<ws, worktree>>
          /\ conn' = [pc |-> "down", op |-> NoOp, todo |-> {}]
        BY <1>5 DEF Restart, NoTask, Serve
    <2>2. IterationAt(o)'
        BY <2>1 DEF Iteration, IterationAt, Fresh, IntentPcs, Prepared, RealPcs, ReviewPcs, PromotePcs
    <2>3. \/ status'[o] = status[o] /\ machine'[o] = machine[o]
          \/ status'[o] = "queued" /\ machine'[o].phase = "implementing"
          \/ status'[o] = "failed"
        <3> DEFINE S == {i \in Ops : status[i] \in {"accepted", "running"}}
        <3>1. /\ status'[o] = IF o \notin S THEN status[o]
                             ELSE IF Resumable(o) THEN "queued" ELSE "failed"
              /\ machine'[o] = IF o \in S /\ Resumable(o)
                              THEN [machine[o] EXCEPT !.phase = "implementing"]
                              ELSE machine[o]
            BY <1>5 DEF Restart
        <3> HIDE DEF S
        <3> QED
            BY <3>1 DEF TypeOK, StoreTypes, Machine
    <2> QED
        BY <2>1, <2>2, <2>3 DEF Iteration, AwaitedAt, Awaiting, NewOperation, HandedOver
<1>6. CASE UNCHANGED vars
    <2>1. UNCHANGED <<task, ws, machine, worktree, status, conn>>
        BY <1>6 DEF vars, connVars
    <2>2. \A o \in Ops : IterationAt(o)'
        BY <2>1, IterationKept DEF Iteration
    <2> QED
        BY <2>1, <2>2 DEF Iteration, AwaitedAt, Awaiting, NewOperation, HandedOver
<1> QED
    BY <1>1, <1>2, <1>3, <1>4, <1>5, <1>6
       DEF Next, OpStep, QuietStep, ConnStep, Environment

LEMMA AlwaysIteration == Spec => []Iteration
<1>1. Init => Iteration
    BY DEF Init, NoTask, NoWorkspace, NoMachine, Iteration, IterationAt, AwaitedAt, Fresh,
           IntentPcs, Prepared, RealPcs, ReviewPcs, PromotePcs
<1>2. TypeOK /\ Exclusion /\ Promotion /\ History /\ Iteration /\ [Next]_vars => Iteration'
    BY NextIteration
<1> QED
    BY <1>1, <1>2, AlwaysHistory, PTL DEF Spec

\* Every iteration, a recovered operation's first one included, starts from a
\* clean worktree at the persisted checkpoint, with a machine that expects an
\* implementation (reconcile_interrupted, schedule_recovery, run_operation).
THEOREM StartsAtCheckpoint == Spec => []IterationStartsAtCheckpoint
<1>1. History /\ Iteration => IterationStartsAtCheckpoint
    <2> SUFFICES ASSUME History, Iteration, NEW op \in Ops, task[op].pc \in {"loop", "reconcile"}
                 PROVE  /\ AtCheckpoint(op) /\ ws[op].base \subseteq ws[op].ckpt
                        /\ machine[op].exists /\ machine[op].phase = "implementing"
        BY DEF IterationStartsAtCheckpoint, AtCheckpoint
    <2>1. HistoryAt(op) /\ IterationAt(op)
        BY DEF History, Iteration
    <2> QED
        BY <2>1 DEF HistoryAt, IterationAt, Fresh, Prepared, RealPcs
<1> QED
    BY <1>1, AlwaysHistory, AlwaysIteration, PTL

-----------------------------------------------------------------------------
(* Completion *)

\* The checkpoint of o is in the primary checkout, and recorded as promoted.
Promoted(o) == ws[o].promoted /\ ws[o].ckpt \subseteq primary

\* Where a task may be whose operation has completed.
Ended == {"none", "err", "errBlock", "errFail"}

\* Where completion comes from.  A pause completes without a workspace: only the
\* Intent agent decides on one, and it does not run for a recovered operation.
OutcomeAt(op) ==
    /\ task[op].pc \in {"start", "lane", "intent"} => task[op].resume \/ ~ws[op].exists
    /\ task[op].pc = "intent" => ~task[op].resume
    /\ task[op].pc \in {"supersede", "reply"} /\ task[op].next = "pause" => ~ws[op].exists
    /\ task[op].pc \in {"pause", "pauseSignal"} => ~ws[op].exists
    /\ task[op].pc = "persistPromoted" => ws[op].ckpt \subseteq primary
    /\ task[op].pc = "satisfy" => Promoted(op)
    /\ task[op].pc = "complete" => (ws[op].exists => Promoted(op))

CompletedAt(o) ==
    status[o] = "completed" =>
        (ws[o].exists => Promoted(o)) /\ task[o].pc \in Ended /\ ~HandedOver(o)

Completion == \A o \in Ops : OutcomeAt(o) /\ CompletedAt(o)

\* The pcs OutcomeAt speaks of.
Outcomes == {"start", "lane", "intent", "supersede", "reply", "pause", "pauseSignal",
             "persistPromoted", "satisfy", "complete"}

LEMMA OutcomeAway ==
    ASSUME NEW op \in Ops, task'[op].pc \notin Outcomes
    PROVE  OutcomeAt(op)'
BY DEF OutcomeAt, Outcomes

LEMMA OutcomeKept ==
    ASSUME NEW o \in Ops, OutcomeAt(o), ws'[o] = ws[o], primary \subseteq primary',
           task'[o].pc = task[o].pc, task'[o].next = task[o].next,
           task'[o].resume = task[o].resume
    PROVE  OutcomeAt(o)'
BY DEF OutcomeAt, Promoted

LEMMA CompletedKept ==
    ASSUME NEW o \in Ops, CompletedAt(o), ws'[o] = ws[o], primary \subseteq primary',
           status'[o] = "completed" => status[o] = "completed",
           task[o].pc \in Ended => task'[o].pc \in Ended,
           HandedOver(o)' => HandedOver(o) \/ status'[o] = "accepted"
    PROVE  CompletedAt(o)'
BY DEF CompletedAt, Promoted

LEMMA IntentStepOutcome ==
    ASSUME TypeOK, Lanes, Completion, NEW op \in Ops, IntentStep(op)
    PROVE  OutcomeAt(op)'
<1> USE DEF Outcomes, storeVars, gitVars
<1>0. OutcomeAt(op) /\ UNCHANGED <<ws, primary>>
    BY DEF Completion, IntentStep, Start, TakeIntentLane, ProposeResume, SignalSuperseded, Reply,
           AskOwner, Block, Pause, PauseSignal, Complete
<1>1. CASE Start(op)
    <2>1. \/ task'[op].pc = "lane" /\ task'[op].resume = task[op].resume
          \/ task'[op].pc = "err"
        BY <1>1, SendThenFrame DEF Start
    <2>2. task[op].pc = "start"
        BY <1>1 DEF Start
    <2> QED
        BY <1>0, <2>1, <2>2, OutcomeAway DEF OutcomeAt
<1>2. CASE TakeIntentLane(op)
    <2>1. /\ task[op].pc = "lane"
          /\ task'[op].pc = IF task[op].resume THEN "resumed" ELSE "intent"
          /\ task'[op].resume = task[op].resume
        BY <1>2 DEF TakeIntentLane, TypeOK, ProcessTypes, Task
    <2> QED
        BY <1>0, <2>1, OutcomeAway DEF OutcomeAt
<1>3. CASE ProposeResume(op)
    <2>1. task'[op].pc = "reply" /\ task'[op].next # "pause"
        BY <1>3 DEF ProposeResume, After, TypeOK, ProcessTypes, Task
    <2> QED
        BY <2>1 DEF OutcomeAt
<1>4. CASE SignalSuperseded(op)
    <2> DEFINE t == Signal(task[op].sup)
    <2>1. t \in [Ops -> Task] /\ \A o \in Ops : SameControl(o, t)
        BY SignalTypes, SignalFrame DEF TypeOK, ProcessTypes, TaskTypes
    <2>2. /\ task[op].pc = "supersede"
          /\ \/ task' = [t EXCEPT ![op] = [t[op] EXCEPT !.pc = "reply", !.sup = {}]]
             \/ Fail(op, t)
        BY <1>4 DEF SignalSuperseded
    <2> HIDE DEF t
    <2>3. CASE Fail(op, t)
        BY <2>1, <2>3, FailFrame, OutcomeAway
    <2>4. CASE task' = [t EXCEPT ![op] = [t[op] EXCEPT !.pc = "reply", !.sup = {}]]
        <3>1. task'[op].pc = "reply" /\ task'[op].next = task[op].next
            BY <2>1, <2>4 DEF Task, SameControl
        <3> QED
            BY <1>0, <2>2, <3>1 DEF OutcomeAt
    <2> QED
        BY <2>2, <2>3, <2>4
<1>5. CASE Reply(op)
    <2>1. task[op].pc = "reply" /\ task[op].next \in {"askOwner", "block", "pause", "wait"}
        BY <1>5 DEF Reply, Lanes, LaneAt
    <2>2. task'[op].pc \in {task[op].next, "err"}
        BY <1>5 DEF Reply, Fail, TypeOK, ProcessTypes, Task
    <2> QED
        BY <1>0, <2>1, <2>2 DEF OutcomeAt
<1>6. CASE AskOwner(op)
    BY <1>6, GotoFrame, OutcomeAway DEF AskOwner
<1>7. CASE Block(op) \/ Complete(op)
    BY <1>7, SameTask, FinishFrame, FailFrame, OutcomeAway
       DEF Block, Complete, TypeOK, ProcessTypes
<1>8. CASE Pause(op)
    <2>1. task[op].pc = "pause" /\ task'[op].pc = "pauseSignal"
        BY <1>8 DEF Pause, TypeOK, ProcessTypes, Task
    <2> QED
        BY <1>0, <2>1 DEF OutcomeAt
<1>9. CASE PauseSignal(op)
    <2> DEFINE t == Signal(task[op].sup)
    <2>1. t \in [Ops -> Task]
        BY SignalTypes DEF TypeOK, ProcessTypes, TaskTypes
    <2>2. /\ task[op].pc = "pauseSignal"
          /\ task' = [t EXCEPT ![op] = [t[op] EXCEPT !.pc = "complete", !.sup = {}]]
        BY <1>9 DEF PauseSignal
    <2> HIDE DEF t
    <2>3. task'[op].pc = "complete"
        BY <2>1, <2>2 DEF Task
    <2> QED
        BY <1>0, <2>2, <2>3 DEF OutcomeAt
<1> QED
    BY <1>1, <1>2, <1>3, <1>4, <1>5, <1>6, <1>7, <1>8, <1>9 DEF IntentStep

LEMMA RealizationStepOutcome ==
    ASSUME TypeOK, Lanes, Completion, NEW op \in Ops, RealizationStep(op)
    PROVE  OutcomeAt(op)'
<1> USE DEF Outcomes, storeVars, gitVars
<1>0. OutcomeAt(op)
    BY DEF Completion
<1>1. CASE Fail(op, task)
    BY <1>1, SameTask, FailFrame, OutcomeAway DEF TypeOK, ProcessTypes
<1>2. CASE \/ TakeRealizationLane(op) \/ Prepare(op) \/ StartMachine(op) \/ PersistWork(op)
           \/ Assess(op)
    BY <1>2, GotoFrame, OutcomeAway
       DEF TakeRealizationLane, Prepare, StartMachine, PersistWork, Assess
<1>3. CASE LoopHead(op) \/ PromoteCheck(op)
    BY <1>1, <1>3, GotoFrame, OutcomeAway DEF LoopHead, PromoteCheck
<1>4. CASE Reconcile(op)
    BY <1>4, SendThenFrame, OutcomeAway DEF Reconcile
<1>5. CASE PersistPhase(op)
    <2>1. task[op].next \in {"askOwner", "assess"}
        BY <1>5 DEF PersistPhase, Lanes, LaneAt
    <2>2. task'[op].pc \in {"askOwner", "assess", "err"}
        BY <1>5, <2>1 DEF PersistPhase, Fail, TypeOK, ProcessTypes, Task
    <2> QED
        BY <2>2, OutcomeAway
<1>6. CASE ReviewCompleted(op)
    <2>1. Goto(op, "promote") \/ SendThen(op, "loop")
        BY <1>6 DEF ReviewCompleted
    <2> QED
        BY <2>1, GotoFrame, SendThenFrame, OutcomeAway
<1>7. CASE Merge(op) /\ Goto(op, "persistPromoted")
    <2>1. task[op].pc = "merge" /\ task'[op].pc = "persistPromoted" /\ UNCHANGED ws
        BY <1>7, GotoFrame DEF Merge
    <2>2. ws[op].ckpt \subseteq primary'
        <3>1. ~Fail(op, task)
            BY <2>1, SameTask, FailFrame DEF TypeOK, ProcessTypes
        <3> QED
            BY <1>7, <3>1 DEF Merge
    <2> QED
        BY <2>1, <2>2 DEF OutcomeAt
<1>8. CASE PersistPromoted(op)
    <2>1. /\ task[op].pc = "persistPromoted" /\ task'[op].pc = "satisfy" /\ UNCHANGED primary
          /\ ws'[op].promoted /\ ws'[op].ckpt = ws[op].ckpt
        BY <1>8, GotoFrame DEF PersistPromoted, TypeOK, StoreTypes, Workspace
    <2> QED
        BY <1>0, <2>1 DEF OutcomeAt, Promoted
<1>9. CASE Satisfy(op)
    <2>1. task[op].pc = "satisfy" /\ task'[op].pc \in {"complete", "err"} /\ UNCHANGED <<ws, primary>>
        BY <1>9, SendThenFrame DEF Satisfy
    <2> QED
        BY <1>0, <2>1 DEF OutcomeAt, Promoted
<1> QED
    BY <1>1, <1>2, <1>3, <1>4, <1>5, <1>6, <1>7, <1>8, <1>9 DEF RealizationStep, Merge

LEMMA RunStepOutcome ==
    ASSUME TypeOK, Completion, NEW op \in Ops, AgentStep(op) \/ RunCancelled(op) \/ ResumeRun(op)
    PROVE  OutcomeAt(op)'
<1> USE DEF Outcomes, storeVars, gitVars
<1>0. OutcomeAt(op)
    BY DEF Completion
<1>1. CASE Fail(op, task)
    BY <1>1, SameTask, FailFrame, OutcomeAway DEF TypeOK, ProcessTypes
<1>2. ASSUME NEW a \in {"no", "waiting"}, task' = [task EXCEPT ![op].ask = a],
             UNCHANGED <<ws, primary>>
      PROVE  OutcomeAt(op)'
    <2>1. /\ task'[op].pc = task[op].pc /\ task'[op].next = task[op].next
          /\ task'[op].resume = task[op].resume
        BY <1>2 DEF TypeOK, ProcessTypes, Task
    <2> QED
        BY <1>0, <1>2, <2>1, OutcomeKept
<1>3. CASE Ask(op) \/ ResumeRun(op) \/ RunCancelled(op) \/ WorkFails(op)
    BY <1>1, <1>2, <1>3 DEF Ask, ResumeRun, RunCancelled, WorkFails
<1>4. ASSUME NEW q \in BOOLEAN, NEW p \in BOOLEAN, KeepIntent(op, q, p)
      PROVE  OutcomeAt(op)'
    <2>1. task[op].pc = "intent" /\ task'[op].pc = "reply" /\ UNCHANGED ws
        BY <1>4 DEF KeepIntent, Working, TypeOK, ProcessTypes, Task
    <2> QED
        BY <1>0, <2>1 DEF OutcomeAt
<1>5. ASSUME NEW a \in BOOLEAN, NEW q \in BOOLEAN, NEW p \in BOOLEAN,
             CommitIntent(op, a, q, p)
      PROVE  OutcomeAt(op)'
    <2> DEFINE S == {o \in Ops \ {op} : status[o] \in {"accepted", "running"}}
    <2>1. /\ task[op].pc = "intent" /\ UNCHANGED ws
          /\ \/ Fail(op, task)
             \/ task' = [task EXCEPT ![op].pc = "supersede", ![op].rev = source.rev + 1,
                             ![op].active = a, ![op].sup = S, ![op].next = After(q, p, a)]
        BY <1>5 DEF CommitIntent, Working
    <2> HIDE DEF S
    <2>2. Fail(op, task) \/ task'[op].pc = "supersede"
        BY <2>1 DEF TypeOK, ProcessTypes, Task
    <2> QED
        BY <1>0, <1>1, <2>1, <2>2 DEF OutcomeAt
<1>6. ASSUME NEW q \in BOOLEAN, NEW c \in BOOLEAN, Implemented(op, q, c)
      PROVE  OutcomeAt(op)'
    <2>1. task'[op].pc = "persistWork"
        BY <1>6 DEF Implemented, TypeOK, ProcessTypes, Task
    <2> QED
        BY <2>1, OutcomeAway
<1>7. ASSUME NEW a \in BOOLEAN, Reviewed(op, a) \/ ColdReviewed(op, a)
      PROVE  OutcomeAt(op)'
    <2>1. Fail(op, task) \/ \E l \in {"cold", "approved", "findings"} : Goto(op, l)
        BY <1>7 DEF Reviewed, ColdReviewed, Judged
    <2> QED
        BY <1>1, <2>1, GotoFrame, OutcomeAway
<1> QED
    BY <1>3, <1>4, <1>5, <1>6, <1>7 DEF AgentStep

\* Only Complete completes, and what has completed is only handled as an error.
LEMMA OpStepCompleted ==
    ASSUME TypeOK, Exclusion, Completion, NEW op \in Ops, OpStep(op)
    PROVE  CompletedAt(op)'
<1> USE DEF storeVars, gitVars, Ended
<1>0. CompletedAt(op) /\ OutcomeAt(op)
    BY DEF Completion
<1>1. ~HandedOver(op)'
    BY OpStepStatus, OneTaskDef DEF Exclusion, OneTaskAt, HandedOver
<1>2. CASE Complete(op)
    <2>1. /\ task[op].pc = "complete" /\ UNCHANGED <<ws, primary>>
          /\ task'[op].pc \in {"none", "err"}
        BY <1>2, SameTask, FinishFrame, FailFrame DEF Complete, TypeOK, ProcessTypes
    <2> QED
        BY <1>0, <1>1, <2>1 DEF OutcomeAt, CompletedAt, Promoted
<1>3. CASE ErrorStep(op)
    <2>1. /\ UNCHANGED <<ws, primary>> /\ task'[op].pc \in Ended
          /\ status'[op] \in {status[op], "failed"}
        BY <1>3, GotoFrame, FinishFrame
           DEF ErrorStep, ErrorCheck, ErrorBlock, ErrorFail, TypeOK, StoreTypes
    <2> QED
        BY <1>0, <1>1, <2>1, CompletedKept
<1>4. ASSUME task[op].pc \notin Ended,
             status'[op] \in {status[op], "running", "blocked"}
      PROVE  CompletedAt(op)'
    BY <1>0, <1>4 DEF CompletedAt
<1>5. CASE IntentStep(op) /\ ~Complete(op)
    <2>1. task[op].pc \notin Ended
        BY <1>5 DEF IntentStep, Start, TakeIntentLane, ProposeResume, SignalSuperseded, Reply,
                    AskOwner, Block, Pause, PauseSignal
    <2>2. status'[op] \in {status[op], "running", "blocked"}
        BY <1>5 DEF IntentStep, Start, TakeIntentLane, ProposeResume, SignalSuperseded, Reply,
                    AskOwner, Block, Pause, PauseSignal, TypeOK, StoreTypes
    <2> QED
        BY <1>4, <2>1, <2>2
<1>6. CASE RealizationStep(op)
    <2>1. task[op].pc \notin Ended /\ status' = status
        BY <1>6 DEF RealizationStep, TakeRealizationLane, Prepare, StartMachine, LoopHead,
                    Reconcile, PersistWork, PersistPhase, Assess, ReviewCompleted, PromoteCheck,
                    Merge, PersistPromoted, Satisfy
    <2> QED
        BY <1>4, <2>1
<1>7. CASE Ask(op) \/ ResumeRun(op) \/ RunCancelled(op) \/ WorkFails(op)
    BY <1>4, <1>7 DEF Ask, ResumeRun, RunCancelled, WorkFails, RunPcs, TypeOK, StoreTypes
<1>8. ASSUME NEW q \in BOOLEAN, NEW p \in BOOLEAN,
             \/ KeepIntent(op, q, p) \/ Implemented(op, q, p) \/ Reviewed(op, q)
             \/ ColdReviewed(op, q)
      PROVE  CompletedAt(op)'
    BY <1>4, <1>8 DEF KeepIntent, Implemented, Reviewed, ColdReviewed, Judged, Working
<1>9. ASSUME NEW a \in BOOLEAN, NEW q \in BOOLEAN, NEW p \in BOOLEAN,
             CommitIntent(op, a, q, p)
      PROVE  CompletedAt(op)'
    BY <1>4, <1>9 DEF CommitIntent, Working
<1> QED
    BY <1>2, <1>3, <1>5, <1>6, <1>7, <1>8, <1>9 DEF OpStep, TaskStep, AgentStep

LEMMA NextCompletion ==
    ASSUME TypeOK, Exclusion, Iteration, Completion, [Next]_vars
    PROVE  Completion'
<1> USE DEF storeVars, gitVars, connVars
<1>0. primary \subseteq primary'
    BY PrimarySteps
<1>1. ASSUME NEW op \in Ops, OpStep(op), NEW o \in Ops PROVE OutcomeAt(o)' /\ CompletedAt(o)'
    <2>1. CASE o = op
        <3>1. CASE ErrorStep(op)
            BY <2>1, <3>1, GotoFrame, FinishFrame, OutcomeAway, <1>1, OpStepCompleted
               DEF ErrorStep, ErrorCheck, ErrorBlock, ErrorFail, Outcomes
        <3> QED
            BY <1>1, <2>1, <3>1, IntentStepOutcome, RealizationStepOutcome, RunStepOutcome,
               OpStepCompleted DEF OpStep, TaskStep, Exclusion
    <2>2. CASE o # op
        <3>1. WorkKept(o) /\ SameControl(o, task')
            BY <1>1, <2>2, OpStepWork, OpStepLanes DEF Exclusion, TaskFrame
        <3>2. conn' = conn /\ status'[o] \in {status[o], "cancelled"}
            BY <1>1, <2>2, OpStepEnds DEF Exclusion
        <3> QED
            BY <1>0, <3>1, <3>2, OutcomeKept, CompletedKept
               DEF Completion, WorkKept, SameControl, HandedOver
    <2> QED
        BY <2>1, <2>2
<1>2. ASSUME QuietStep, NEW o \in Ops PROVE OutcomeAt(o)' /\ CompletedAt(o)'
    <2>1. ws' = ws
        BY <1>2 DEF QuietStep, Connect, Recover, Recovered, CancelStore, CancelProject,
                    AcceptIntent, CancelIntent, Answer, RespawnFails, WireBreaks, Disconnect,
                    DetachedWriterStops, OwnerCommits
    <2>2. SameControl(o, task')
        BY <1>2, QuietFrame
    <2>3. /\ status'[o] = "completed" => status[o] = "completed"
          /\ HandedOver(o)' => HandedOver(o) \/ status'[o] = "accepted"
        BY <1>2, QuietHands
    <2> QED
        BY <1>0, <2>1, <2>2, <2>3, OutcomeKept, CompletedKept DEF Completion, SameControl
<1>3. ASSUME NEW op \in Ops, NEW r \in BOOLEAN, Spawned(op, r), UNCHANGED <<ws, status>>,
             HandedOver(op), r \/ ~ws[op].exists,
             \A o \in Ops : HandedOver(o)' => HandedOver(o),
             NEW o \in Ops
      PROVE  OutcomeAt(o)' /\ CompletedAt(o)'
    <2>1. /\ task'[op].pc = "start" /\ task'[op].resume = r
          /\ \A i \in Ops \ {op} : task'[i] = task[i]
        BY <1>3 DEF Spawned, NoTask, TypeOK, ProcessTypes
    <2>2. CASE o = op
        <3>1. OutcomeAt(op)'
            BY <1>3, <2>1 DEF OutcomeAt
        <3>2. status[op] # "completed"
            BY <1>3 DEF Completion, CompletedAt
        <3> QED
            BY <1>3, <2>2, <3>1, <3>2 DEF CompletedAt
    <2>3. CASE o # op
        BY <1>0, <1>3, <2>1, <2>3, OutcomeKept, CompletedKept DEF Completion
    <2> QED
        BY <2>2, <2>3
<1>4. ASSUME NEW op \in Ops, Respawn(op), NEW o \in Ops PROVE OutcomeAt(o)' /\ CompletedAt(o)'
    BY <1>3, <1>4 DEF Respawn, Serve, HandedOver
<1>5. ASSUME SpawnTask, NEW o \in Ops PROVE OutcomeAt(o)' /\ CompletedAt(o)'
    <2>1. conn.op \in Ops /\ conn.pc = "spawn" /\ conn' = [pc |-> "idle", op |-> NoOp, todo |-> {}]
        BY <1>5 DEF SpawnTask, Idle, Serve, TypeOK, ProcessTypes, Connection
    <2>2. HandedOver(conn.op) /\ ~ws[conn.op].exists /\ ~HandedOver(o)'
        BY <2>1 DEF HandedOver, Iteration, AwaitedAt, NewOperation
    <2>3. CASE wire
        BY <1>3, <1>5, <2>1, <2>2, <2>3 DEF SpawnTask, HandedOver
    <2>4. CASE ~wire
        <3>1. UNCHANGED <<task, ws, status>>
            BY <1>5, <2>4 DEF SpawnTask
        <3> QED
            BY <1>0, <2>2, <3>1, OutcomeKept, CompletedKept DEF Completion
    <2> QED
        BY <2>3, <2>4
<1>6. ASSUME Restart, NEW o \in Ops PROVE OutcomeAt(o)' /\ CompletedAt(o)'
    <2>1. /\ task'[o].pc = "none" /\ UNCHANGED <<ws, primary>>
          /\ conn' = [pc |-> "down", op |-> NoOp, todo |-> {}]
        BY <1>6 DEF Restart, NoTask, Serve
    <2>2. status'[o] \in {status[o], "queued", "failed"}
        BY <1>6 DEF Restart
    <2> QED
        BY <1>0, <2>1, <2>2, OutcomeAway, CompletedKept DEF Completion, Outcomes, Ended, HandedOver
<1>7. ASSUME UNCHANGED vars, NEW o \in Ops PROVE OutcomeAt(o)' /\ CompletedAt(o)'
    BY <1>0, <1>7, OutcomeKept, CompletedKept DEF vars, Completion, HandedOver
<1> QED
    BY <1>1, <1>2, <1>4, <1>5, <1>6, <1>7
       DEF Next, OpStep, QuietStep, ConnStep, Environment, Completion

\* On every path to completion, of recovered and of paused operations, in spite
\* of what others and the owner commit meanwhile: an operation with a workspace
\* completes only when its checkpoint is in the primary checkout and recorded
\* (run_operation, promote).
THEOREM CompletesWhenPromoted == Spec => []CompletedIsPromoted
<1>1. Init => Completion
    BY DEF Init, NoTask, Completion, OutcomeAt, CompletedAt
<1>2. TypeOK /\ Exclusion /\ Iteration /\ Completion /\ [Next]_vars => Completion'
    BY NextCompletion
<1>3. Completion => CompletedIsPromoted
    BY DEF Completion, CompletedAt, Promoted, CompletedIsPromoted
<1> QED
    BY <1>1, <1>2, <1>3, AlwaysHistory, AlwaysIteration, PTL DEF Spec

-----------------------------------------------------------------------------
(* The refinement *)

\* What the ledger sees does not change.
LedgerKept == UNCHANGED <<source, approvals, primary, ownerWork>>

LEMMA AgentStepRefines ==
    ASSUME TypeOK, NEW op \in Ops, AgentStep(op)
    PROVE  Ledger!Next \/ LedgerKept
<1> USE DEF LedgerKept, storeVars, gitVars
<1>1. ASSUME NEW a \in BOOLEAN, NEW q \in BOOLEAN, NEW p \in BOOLEAN,
             CommitIntent(op, a, q, p)
      PROVE  Ledger!Next \/ LedgerKept
    <2>1. /\ source' = source \/ source' = [rev |-> source.rev + 1, active |-> a]
          /\ UNCHANGED <<approvals, primary, ownerWork>>
        BY <1>1 DEF CommitIntent
    <2> QED
        BY <2>1 DEF Ledger!Next, Ledger!CommitIntent
<1>2. ASSUME NEW role \in {"review", "approval"}, NEW a \in BOOLEAN, NEW l,
             Judged(op, role, a, l)
      PROVE  Ledger!Next \/ LedgerKept
    <2> DEFINE r == Approval(op, role)
    <2>1. UNCHANGED <<source, primary, ownerWork>>
        BY <1>2 DEF Judged
    <2>2. approvals' = approvals \/ (approvals' = approvals \cup {r} /\ Current(op))
        BY <1>2 DEF Judged
    <2>3. r.op = op /\ r.role = role /\ (Current(op) => r.rev = source.rev /\ source.active)
        BY DEF Approval, Current
    <2> HIDE DEF r
    <2>4. CASE approvals' = approvals
        BY <2>1, <2>4
    <2>5. CASE approvals' = approvals \cup {r} /\ Current(op)
        <3>1. Ledger!Approve
            BY <2>1, <2>3, <2>5 DEF Ledger!Approve
        <3> QED
            BY <3>1 DEF Ledger!Next
    <2> QED
        BY <2>2, <2>4, <2>5
<1>3. ASSUME NEW q \in BOOLEAN, NEW p \in BOOLEAN,
             KeepIntent(op, q, p) \/ Implemented(op, q, p)
      PROVE  LedgerKept
    BY <1>3 DEF KeepIntent, Implemented
<1>4. CASE Ask(op) \/ WorkFails(op)
    BY <1>4 DEF Ask, WorkFails
<1>5. ASSUME NEW a \in BOOLEAN, Reviewed(op, a) \/ ColdReviewed(op, a)
      PROVE  Ledger!Next \/ LedgerKept
    BY <1>2, <1>5 DEF Reviewed, ColdReviewed
<1> QED
    BY <1>1, <1>3, <1>4, <1>5 DEF AgentStep

LEMMA MergeRefines ==
    ASSUME TypeOK, Promotion, NEW op \in Ops, Merge(op)
    PROVE  Ledger!Next \/ LedgerKept
<1>1. UNCHANGED <<source, approvals, ownerWork>>
    BY DEF Merge, storeVars
<1>2. CASE primary' = primary
    BY <1>1, <1>2 DEF LedgerKept
<1>3. CASE primary \subseteq ws[op].ckpt /\ primary' = ws[op].ckpt
    <2> DEFINE a == [op |-> op, rev |-> machine[op].rev, commit |-> ws[op].ckpt,
                     role |-> "review"]
    <2>1. \A role \in {"review", "approval"} : [a EXCEPT !.role = role] \in approvals
        <3>1. ApprovedBy(op, machine[op].rev, ws[op].ckpt)
            BY DEF Merge, Promotion, ReviewedAt
        <3>2. \A role : [a EXCEPT !.role = role] =
                  [op |-> op, rev |-> machine[op].rev, commit |-> ws[op].ckpt, role |-> role]
            OBVIOUS
        <3> QED
            BY <3>1, <3>2 DEF ApprovedBy
    <2>2. a \in approvals
        BY DEF Merge, Promotion, ReviewedAt, ApprovedBy
    <2>3. a.commit = ws[op].ckpt
        OBVIOUS
    <2> HIDE DEF a
    <2>4. Ledger!Promote
        BY <1>1, <1>3, <2>1, <2>2, <2>3 DEF Ledger!Promote
    <2> QED
        BY <2>4 DEF Ledger!Next
<1> QED
    BY <1>2, <1>3 DEF Merge

LEMMA OwnerCommitsRefines ==
    ASSUME TypeOK, History, OwnerCommits
    PROVE  Ledger!Next
<1>1. changes \in Nat /\ changes \notin primary
    BY DEF History, TypeOK, GitTypes
<1>2. Ledger!OwnerCommit
    BY <1>1 DEF OwnerCommits, Ledger!OwnerCommit, storeVars
<1> QED
    BY <1>2 DEF Ledger!Next

LEMMA NextRefines ==
    ASSUME TypeOK, Promotion, History, [Next]_vars
    PROVE  Ledger!Next \/ LedgerKept
<1> USE DEF LedgerKept, storeVars, gitVars
<1>1. ASSUME NEW op \in Ops, TaskStep(op) \/ RunCancelled(op)
      PROVE  Ledger!Next \/ LedgerKept
    <2>1. CASE IntentStep(op)
        BY <2>1 DEF IntentStep, Start, TakeIntentLane, ProposeResume, SignalSuperseded, Reply,
                    AskOwner, Block, Pause, PauseSignal, Complete
    <2>2. CASE RealizationStep(op) /\ ~Merge(op)
        BY <2>2 DEF RealizationStep, TakeRealizationLane, Prepare, StartMachine, LoopHead,
                    Reconcile, PersistWork, PersistPhase, Assess, ReviewCompleted, PromoteCheck,
                    PersistPromoted, Satisfy
    <2>3. CASE Merge(op)
        BY <2>3, MergeRefines
    <2>4. CASE ErrorStep(op)
        BY <2>4 DEF ErrorStep, ErrorCheck, ErrorBlock, ErrorFail
    <2>5. CASE RunCancelled(op) \/ ResumeRun(op)
        BY <2>5 DEF RunCancelled, ResumeRun
    <2> QED
        BY <1>1, <2>1, <2>2, <2>3, <2>4, <2>5 DEF TaskStep
<1>2. ASSUME NEW op \in Ops, AgentStep(op)
      PROVE  Ledger!Next \/ LedgerKept
    BY <1>2, AgentStepRefines
<1>3. CASE ConnStep
    BY <1>3 DEF ConnStep, Connect, Recover, Recovered, SpawnTask, CancelStore, CancelProject,
                Respawn
<1>4. CASE Environment /\ ~OwnerCommits
    BY <1>4 DEF Environment, AcceptIntent, CancelIntent, Answer, RespawnFails, WireBreaks,
                Disconnect, DetachedWriterStops, Restart
<1>5. CASE OwnerCommits
    BY <1>5, OwnerCommitsRefines
<1>6. CASE UNCHANGED vars
    BY <1>6 DEF vars
<1> QED
    BY <1>1, <1>2, <1>3, <1>4, <1>5, <1>6 DEF Next, Environment

\* The whole Spoke, with its lanes, crashes, recoveries and lost connections,
\* keeps the promise of RealizationLedger: every step is a step of the ledger
\* or changes nothing it shows.
THEOREM Refinement == Spec => ImplementsLedger
<1>1. Init => Ledger!Init
    BY DEF Init, Ledger!Init
<1>2. TypeOK /\ Promotion /\ History /\ [Next]_vars => [Ledger!Next]_(Ledger!ledger)
    BY NextRefines DEF LedgerKept, Ledger!ledger
<1> QED
    BY <1>1, <1>2, AlwaysHistory, PTL DEF Spec, ImplementsLedger, Ledger!Spec
=============================================================================
