----------------------- MODULE PromotionSafety_proofs -----------------------
(***************************************************************************)
(* What reaches the primary checkout, for any number of operations and any *)
(* bounds.  The inductive invariant says of each task what its worktree,   *)
(* its workspace and the stored approvals are at each stage between the    *)
(* commit of an iteration and its merge; it needs the lanes only to know   *)
(* where a reply and an outcome lead.                                      *)
(***************************************************************************)
EXTENDS SpokeSafety_proofs

\* From the commit of an iteration to its merge.
Judging == ReviewPcs \cup {"persistPhase", "promote", "merge"}

ReviewedAt(op) ==
    /\ task[op].pc = "persistWork" => ~worktree[op].dirty
    /\ task[op].pc \in Judging => worktree[op] = [head |-> ws[op].ckpt, dirty |-> FALSE]
    /\ task[op].pc = "cold" =>
           [op |-> op, rev |-> machine[op].rev, commit |-> ws[op].ckpt, role |-> "review"]
               \in approvals
    /\ task[op].pc \in {"approved", "promote", "merge"} =>
           ApprovedBy(op, machine[op].rev, ws[op].ckpt)

Promotion == \A op \in Ops : ReviewedAt(op)

\* The worktree, the workspace and the machine of o stay as they are.
WorkKept(o) ==
    worktree'[o] = worktree[o] /\ ws'[o] = ws[o] /\ machine'[o] = machine[o]

\* A task that is not between commit and merge owes nothing.
LEMMA ReviewedAway ==
    ASSUME NEW op \in Ops, task'[op].pc \notin Judging \cup {"persistWork"}
    PROVE  ReviewedAt(op)'
BY DEF ReviewedAt, Judging, ReviewPcs

\* A step that leaves the stage and the work of o alone, and drops no approval.
LEMMA ReviewedKept ==
    ASSUME NEW o \in Ops, ReviewedAt(o), task'[o].pc = task[o].pc, WorkKept(o),
           approvals \subseteq approvals'
    PROVE  ReviewedAt(o)'
BY DEF ReviewedAt, WorkKept, ApprovedBy

\* A step of one operation's task touches the work of no other, and no step of
\* a task drops an approval.
LEMMA OpStepWork ==
    ASSUME TypeOK, NEW op \in Ops, OpStep(op)
    PROVE  (\A o \in Ops \ {op} : WorkKept(o)) /\ approvals \subseteq approvals'
<1> USE DEF TypeOK, StoreTypes, GitTypes, storeVars, gitVars, WorkKept, Rollback
<1>1. CASE IntentStep(op)
    BY <1>1 DEF IntentStep, Start, TakeIntentLane, ProposeResume, SignalSuperseded, Reply,
                AskOwner, Block, Pause, PauseSignal, Complete
<1>2. CASE RealizationStep(op)
    BY <1>2 DEF RealizationStep, TakeRealizationLane, Prepare, StartMachine, LoopHead, Reconcile,
                PersistWork, PersistPhase, Assess, ReviewCompleted, PromoteCheck, Merge,
                PersistPromoted, Satisfy
<1>3. CASE ErrorStep(op)
    BY <1>3 DEF ErrorStep, ErrorCheck, ErrorBlock, ErrorFail
<1>4. CASE Ask(op) \/ ResumeRun(op) \/ RunCancelled(op) \/ WorkFails(op)
    BY <1>4 DEF Ask, ResumeRun, RunCancelled, WorkFails
<1>5. ASSUME NEW q \in BOOLEAN, NEW p \in BOOLEAN,
             KeepIntent(op, q, p) \/ Implemented(op, q, p)
      PROVE  (\A o \in Ops \ {op} : WorkKept(o)) /\ approvals \subseteq approvals'
    BY <1>5 DEF KeepIntent, Implemented
<1>6. ASSUME NEW a \in BOOLEAN, NEW q \in BOOLEAN, NEW p \in BOOLEAN,
             CommitIntent(op, a, q, p)
      PROVE  (\A o \in Ops \ {op} : WorkKept(o)) /\ approvals \subseteq approvals'
    BY <1>6 DEF CommitIntent
<1>7. ASSUME NEW a \in BOOLEAN, Reviewed(op, a) \/ ColdReviewed(op, a)
      PROVE  (\A o \in Ops \ {op} : WorkKept(o)) /\ approvals \subseteq approvals'
    BY <1>7 DEF Reviewed, ColdReviewed, Judged
<1> QED
    BY <1>1, <1>2, <1>3, <1>4, <1>5, <1>6, <1>7 DEF OpStep, TaskStep, AgentStep

\* The intent half of a task leads out of the realization.
LEMMA IntentStepStage ==
    ASSUME TypeOK, Lanes, NEW op \in Ops, IntentStep(op)
    PROVE  task'[op].pc \notin RealPcs
<1> USE DEF RealPcs, ReviewPcs, PromotePcs
<1>1. CASE Start(op)
    BY <1>1, SendThenFrame DEF Start
<1>2. CASE TakeIntentLane(op)
    BY <1>2 DEF TakeIntentLane, TypeOK, ProcessTypes, Task
<1>3. CASE ProposeResume(op)
    BY <1>3 DEF ProposeResume, TypeOK, ProcessTypes, Task
<1>4. CASE SignalSuperseded(op)
    <2> DEFINE t == Signal(task[op].sup)
    <2>1. t \in [Ops -> Task] /\ \A o \in Ops : SameControl(o, t)
        BY SignalTypes, SignalFrame DEF TypeOK, ProcessTypes, TaskTypes
    <2>2. \/ task' = [t EXCEPT ![op] = [t[op] EXCEPT !.pc = "reply", !.sup = {}]]
          \/ Fail(op, t)
        BY <1>4 DEF SignalSuperseded
    <2> HIDE DEF t
    <2>3. CASE task' = [t EXCEPT ![op] = [t[op] EXCEPT !.pc = "reply", !.sup = {}]]
        BY <2>1, <2>3 DEF Task
    <2>4. CASE Fail(op, t)
        BY <2>1, <2>4, FailFrame
    <2> QED
        BY <2>2, <2>3, <2>4
<1>5. CASE Reply(op)
    <2>1. task[op].next \in {"askOwner", "block", "pause", "wait"}
        BY <1>5 DEF Reply, Lanes, LaneAt
    <2>2. task'[op].pc \in {"askOwner", "block", "pause", "wait", "err"}
        BY <1>5, <2>1 DEF Reply, Fail, TypeOK, ProcessTypes, Task
    <2> QED
        BY <2>2
<1>6. CASE AskOwner(op)
    BY <1>6, GotoFrame DEF AskOwner
<1>7. CASE Block(op) \/ Complete(op)
    BY <1>7, SameTask, FinishFrame, FailFrame
       DEF Block, Complete, TypeOK, ProcessTypes
<1>8. CASE Pause(op)
    BY <1>8 DEF Pause, TypeOK, ProcessTypes, Task
<1>9. CASE PauseSignal(op)
    <2> DEFINE t == Signal(task[op].sup)
    <2>1. t \in [Ops -> Task]
        BY SignalTypes DEF TypeOK, ProcessTypes, TaskTypes
    <2>2. task' = [t EXCEPT ![op] = [t[op] EXCEPT !.pc = "complete", !.sup = {}]]
        BY <1>9 DEF PauseSignal
    <2> HIDE DEF t
    <2> QED
        BY <2>1, <2>2 DEF Task
<1> QED
    BY <1>1, <1>2, <1>3, <1>4, <1>5, <1>6, <1>7, <1>8, <1>9 DEF IntentStep

\* The stages of the realization.
LEMMA RealizationStepReviewed ==
    ASSUME TypeOK, Lanes, NEW op \in Ops, ReviewedAt(op), RealizationStep(op)
    PROVE  ReviewedAt(op)'
<1> USE DEF Judging, ReviewPcs, storeVars, gitVars
<1>1. CASE TakeRealizationLane(op) \/ Prepare(op) \/ StartMachine(op)
               \/ PersistPromoted(op)
    BY <1>1, GotoFrame, ReviewedAway
       DEF TakeRealizationLane, Prepare, StartMachine, PersistPromoted
<1>2. CASE LoopHead(op)
    BY <1>2, SameTask, FailFrame, GotoFrame, ReviewedAway DEF LoopHead, TypeOK, ProcessTypes
<1>3. CASE Reconcile(op) \/ Satisfy(op)
    BY <1>3, SendThenFrame, ReviewedAway DEF Reconcile, Satisfy
<1>4. CASE PersistWork(op)
    <2>1. /\ task[op].pc = "persistWork" /\ task'[op].pc = "persistPhase"
          /\ worktree' = worktree /\ ws'[op].ckpt = worktree[op].head
        BY <1>4, GotoFrame DEF PersistWork, TypeOK, StoreTypes, Workspace
    <2> QED
        BY <2>1 DEF ReviewedAt, TypeOK, GitTypes, Worktree
<1>5. CASE PersistPhase(op)
    <2>1. /\ task[op].pc = "persistPhase" /\ UNCHANGED <<worktree, ws>>
          /\ task[op].next \in {"askOwner", "assess"}
        BY <1>5 DEF PersistPhase, Lanes, LaneAt
    <2>2. task'[op].pc \in {"askOwner", "assess", "err"}
        BY <1>5, <2>1 DEF PersistPhase, Fail, TypeOK, ProcessTypes, Task
    <2> QED
        BY <2>1, <2>2 DEF ReviewedAt
<1>6. CASE Assess(op)
    <2>1. /\ task[op].pc = "assess" /\ task'[op].pc = "review"
          /\ UNCHANGED <<worktree, ws>>
        BY <1>6, GotoFrame DEF Assess
    <2> QED
        BY <2>1 DEF ReviewedAt
<1>7. CASE ReviewCompleted(op)
    <2>1. CASE task[op].pc = "approved"
        <3>1. /\ task'[op].pc = "promote" /\ UNCHANGED <<worktree, ws, approvals>>
              /\ machine'[op].rev = machine[op].rev
            BY <1>7, <2>1, GotoFrame DEF ReviewCompleted, TypeOK, StoreTypes, Machine
        <3> QED
            BY <2>1, <3>1 DEF ReviewedAt, ApprovedBy
    <2>2. CASE task[op].pc # "approved"
        BY <1>7, <2>2, SendThenFrame, ReviewedAway DEF ReviewCompleted
    <2> QED
        BY <2>1, <2>2
<1>8. CASE PromoteCheck(op)
    <2>1. CASE Fail(op, task)
        BY <2>1, SameTask, FailFrame, ReviewedAway DEF TypeOK, ProcessTypes
    <2>2. CASE Goto(op, "merge")
        <3>1. /\ task[op].pc = "promote" /\ task'[op].pc = "merge"
              /\ UNCHANGED <<worktree, ws, machine, approvals>>
            BY <1>8, <2>2, GotoFrame DEF PromoteCheck
        <3> QED
            BY <3>1 DEF ReviewedAt, ApprovedBy
    <2> QED
        BY <1>8, <2>1, <2>2 DEF PromoteCheck
<1>9. CASE Merge(op)
    BY <1>9, SameTask, FailFrame, GotoFrame, ReviewedAway DEF Merge, TypeOK, ProcessTypes
<1> QED
    BY <1>1, <1>2, <1>3, <1>4, <1>5, <1>6, <1>7, <1>8, <1>9 DEF RealizationStep

\* A verdict on the checkpoint: the record it leaves names that checkpoint.
LEMMA JudgedReviewed ==
    ASSUME TypeOK, NEW op \in Ops, ReviewedAt(op), NEW a \in BOOLEAN,
           Reviewed(op, a) \/ ColdReviewed(op, a)
    PROVE  ReviewedAt(op)'
<1> USE DEF Judging, ReviewPcs
<1>1. /\ task[op].pc \in {"review", "cold"}
      /\ worktree[op].head = ws[op].ckpt
      /\ UNCHANGED <<worktree, ws, machine>>
    BY DEF Reviewed, ColdReviewed, Working, Judged, ReviewedAt, gitVars
<1>2. CASE Fail(op, task)
    BY <1>2, SameTask, FailFrame, ReviewedAway DEF TypeOK, ProcessTypes
<1>3. CASE Reviewed(op, a) /\ ~Fail(op, task)
    <2>1. /\ task'[op].pc \in {"cold", "findings"}
          /\ task'[op].pc = "cold" => Approval(op, "review") \in approvals'
        BY <1>3, GotoFrame DEF Reviewed, Judged
    <2> QED
        BY <1>1, <2>1 DEF ReviewedAt, Approval
<1>4. CASE ColdReviewed(op, a) /\ ~Fail(op, task)
    <2>1. /\ task[op].pc = "cold" /\ task'[op].pc \in {"approved", "findings"}
          /\ task'[op].pc = "approved" => Approval(op, "approval") \in approvals'
          /\ approvals \subseteq approvals'
        BY <1>4, GotoFrame DEF ColdReviewed, Working, Judged
    <2> QED
        BY <1>1, <2>1 DEF ReviewedAt, Approval, ApprovedBy
<1> QED
    BY <1>2, <1>3, <1>4

\* The runs: what an agent reports, and how a run ends.
LEMMA RunStepReviewed ==
    ASSUME TypeOK, NEW op \in Ops, ReviewedAt(op),
           AgentStep(op) \/ RunCancelled(op) \/ ResumeRun(op)
    PROVE  ReviewedAt(op)'
<1> USE DEF Judging, ReviewPcs, storeVars, gitVars
<1>1. CASE Fail(op, task)
    BY <1>1, SameTask, FailFrame, ReviewedAway DEF TypeOK, ProcessTypes
<1>2. ASSUME NEW a \in {"no", "waiting"}, task' = [task EXCEPT ![op].ask = a],
             UNCHANGED <<worktree, ws, machine, approvals>>
      PROVE  ReviewedAt(op)'
    BY <1>2, ReviewedKept DEF WorkKept, TypeOK, ProcessTypes, Task
<1>3. CASE Ask(op) \/ ResumeRun(op)
    BY <1>1, <1>2, <1>3 DEF Ask, ResumeRun
<1>4. CASE RunCancelled(op) \/ WorkFails(op)
    BY <1>1, <1>4 DEF RunCancelled, WorkFails
<1>5. ASSUME NEW q \in BOOLEAN, NEW p \in BOOLEAN, KeepIntent(op, q, p)
      PROVE  ReviewedAt(op)'
    BY <1>5, ReviewedAway DEF KeepIntent, TypeOK, ProcessTypes, Task
<1>6. ASSUME NEW a \in BOOLEAN, NEW q \in BOOLEAN, NEW p \in BOOLEAN,
             CommitIntent(op, a, q, p)
      PROVE  ReviewedAt(op)'
    <2>1. CASE source.rev # task[op].rev
        BY <1>1, <1>6, <2>1 DEF CommitIntent
    <2>2. CASE source.rev = task[op].rev
        <3> DEFINE S == {o \in Ops \ {op} : status[o] \in {"accepted", "running"}}
        <3>1. task' = [task EXCEPT ![op].pc = "supersede", ![op].rev = source.rev + 1,
                           ![op].active = a, ![op].sup = S, ![op].next = After(q, p, a)]
            BY <1>6, <2>2 DEF CommitIntent
        <3> HIDE DEF S
        <3> QED
            BY <3>1, ReviewedAway DEF TypeOK, ProcessTypes, Task
    <2> QED
        BY <2>1, <2>2
<1>7. ASSUME NEW q \in BOOLEAN, NEW c \in BOOLEAN, Implemented(op, q, c)
      PROVE  ReviewedAt(op)'
    <2>1. task'[op].pc = "persistWork" /\ ~worktree'[op].dirty
        BY <1>7 DEF Implemented, TypeOK, ProcessTypes, Task, GitTypes
    <2> QED
        BY <2>1 DEF ReviewedAt
<1>8. ASSUME NEW a \in BOOLEAN, Reviewed(op, a) \/ ColdReviewed(op, a)
      PROVE  ReviewedAt(op)'
    BY <1>8, JudgedReviewed
<1> QED
    BY <1>3, <1>4, <1>5, <1>6, <1>7, <1>8 DEF AgentStep

LEMMA OpStepPromotion ==
    ASSUME TypeOK, Lanes, Promotion, NEW op \in Ops, OpStep(op)
    PROVE  Promotion'
<1>1. ReviewedAt(op)'
    <2>1. ReviewedAt(op)
        BY DEF Promotion
    <2>2. CASE ErrorStep(op)
        BY <2>2, GotoFrame, FinishFrame, ReviewedAway
           DEF ErrorStep, ErrorCheck, ErrorBlock, ErrorFail, Judging, ReviewPcs
    <2>3. CASE IntentStep(op)
        BY <2>3, IntentStepStage, ReviewedAway DEF Judging, RealPcs, PromotePcs
    <2> QED
        BY <2>1, <2>2, <2>3, RealizationStepReviewed, RunStepReviewed DEF OpStep, TaskStep
<1>2. ASSUME NEW o \in Ops \ {op} PROVE ReviewedAt(o)'
    BY <1>2, OpStepLanes, OpStepWork, ReviewedKept DEF TaskFrame, SameControl, Promotion
<1> QED
    BY <1>1, <1>2 DEF Promotion

\* The connection loop, the owner and the network leave stages and work alone.
LEMMA QuietPromotion ==
    ASSUME TypeOK, Promotion, QuietStep
    PROVE  Promotion'
<1>1. UNCHANGED <<worktree, ws, machine, approvals>>
    BY DEF QuietStep, Connect, Recover, Recovered, CancelStore, CancelProject, AcceptIntent,
           CancelIntent, Answer, RespawnFails, WireBreaks, Disconnect, DetachedWriterStops,
           OwnerCommits, storeVars, gitVars
<1>2. \A o \in Ops : task'[o].pc = task[o].pc
    BY QuietFrame DEF SameControl
<1> QED
    BY <1>1, <1>2, ReviewedKept DEF WorkKept, Promotion

\* A recovered operation's worktree is rolled back while it has no task.
LEMMA SpawnPromotion ==
    ASSUME TypeOK, Promotion, (\E op \in Ops : Respawn(op)) \/ SpawnTask
    PROVE  Promotion'
<1>1. ASSUME NEW op \in Ops, NEW r \in BOOLEAN, Spawned(op, r),
             UNCHANGED <<ws, machine, approvals>>,
             \A o \in Ops \ {op} : worktree'[o] = worktree[o]
      PROVE  Promotion'
    <2>1. task'[op].pc = "start" /\ \A o \in Ops \ {op} : task'[o].pc = task[o].pc
        BY <1>1 DEF Spawned, NoTask, TypeOK, ProcessTypes
    <2>2. ReviewedAt(op)'
        BY <2>1, ReviewedAway DEF Judging, ReviewPcs
    <2>3. ASSUME NEW o \in Ops \ {op} PROVE ReviewedAt(o)'
        BY <1>1, <2>1, <2>3, ReviewedKept DEF WorkKept, Promotion
    <2> QED
        BY <2>2, <2>3 DEF Promotion
<1>2. ASSUME NEW op \in Ops, Respawn(op) PROVE Promotion'
    BY <1>1, <1>2 DEF Respawn, Rollback, storeVars, TypeOK, GitTypes
<1>3. CASE SpawnTask
    <2>1. CASE wire
        BY <1>1, <1>3, <2>1
           DEF SpawnTask, storeVars, gitVars, TypeOK, ProcessTypes, Connection
    <2>2. CASE ~wire
        BY <1>3, <2>2, ReviewedKept DEF SpawnTask, storeVars, gitVars, WorkKept, Promotion
    <2> QED
        BY <2>1, <2>2
<1> QED
    BY <1>2, <1>3

LEMMA NoTasksPromotion == (\A o \in Ops : task[o].pc = "none") => Promotion
BY DEF Promotion, ReviewedAt, Judging, ReviewPcs

LEMMA NextPromotion ==
    ASSUME TypeOK, Lanes, Promotion, [Next]_vars
    PROVE  Promotion'
<1>1. ASSUME NEW op \in Ops, OpStep(op) PROVE Promotion'
    BY <1>1, OpStepPromotion
<1>2. CASE QuietStep
    BY <1>2, QuietPromotion
<1>3. CASE (\E op \in Ops : Respawn(op)) \/ SpawnTask
    BY <1>3, SpawnPromotion
<1>4. CASE Restart
    <2>1. \A o \in Ops : task'[o].pc = "none"
        BY <1>4 DEF Restart, NoTask
    <2> QED
        BY <2>1 DEF Promotion, ReviewedAt, Judging, ReviewPcs
<1>5. CASE UNCHANGED vars
    BY <1>5 DEF vars, storeVars, gitVars, Promotion, ReviewedAt, ApprovedBy
<1> QED
    BY <1>1, <1>2, <1>3, <1>4, <1>5 DEF Next, OpStep, QuietStep, ConnStep, Environment

LEMMA AlwaysPromotion == Spec => [](TypeOK /\ Promotion)
<1>1. TypeOK /\ Exclusion /\ Promotion /\ [Next]_vars => Promotion'
    BY NextPromotion DEF Exclusion
<1>2. Init => Promotion
    BY NoTasksPromotion DEF Init, NoTask
<1> QED
    BY <1>1, <1>2, AlwaysExclusion, PTL DEF Spec

\* Reviewers judge, and promotion merges, exactly the persisted checkpoint, and
\* what goes to promotion has both approvals of that commit for its revision
\* (run_operation, persist_review).
THEOREM ReviewedIsMerged == Spec => []MergesWhatWasReviewed
<1>1. Promotion => MergesWhatWasReviewed
    BY DEF Promotion, ReviewedAt, Judging, MergesWhatWasReviewed
<1> QED
    BY <1>1, AlwaysPromotion, PTL

-----------------------------------------------------------------------------
(* The primary checkout *)

\* Only a merge, to the merging operation's checkpoint, and the owner change
\* the primary checkout.
LEMMA PrimarySteps ==
    ASSUME TypeOK, [Next]_vars
    PROVE  /\ approvals \subseteq approvals'
           /\ ownerWork \subseteq ownerWork'
           /\ \/ primary' = primary
              \/ \E op \in Ops : task[op].pc = "merge" /\ primary' = ws[op].ckpt
              \/ primary' \subseteq primary \cup ownerWork'
           /\ primary \subseteq primary'
<1> USE DEF storeVars, gitVars
<1>1. ASSUME NEW op \in Ops, OpStep(op)
      PROVE  /\ ownerWork' = ownerWork
             /\ primary' = primary \/ (task[op].pc = "merge" /\ primary' = ws[op].ckpt)
             /\ primary \subseteq primary'
    <2>1. CASE IntentStep(op)
        BY <2>1 DEF IntentStep, Start, TakeIntentLane, ProposeResume, SignalSuperseded, Reply,
                    AskOwner, Block, Pause, PauseSignal, Complete
    <2>2. CASE RealizationStep(op)
        BY <2>2 DEF RealizationStep, TakeRealizationLane, Prepare, StartMachine, LoopHead,
                    Reconcile, PersistWork, PersistPhase, Assess, ReviewCompleted, PromoteCheck,
                    Merge, PersistPromoted, Satisfy
    <2>3. CASE ErrorStep(op)
        BY <2>3 DEF ErrorStep, ErrorCheck, ErrorBlock, ErrorFail
    <2>4. CASE RunCancelled(op) \/ ResumeRun(op)
        BY <2>4 DEF RunCancelled, ResumeRun
    <2>5. CASE AgentStep(op)
        BY <2>5 DEF AgentStep, KeepIntent, CommitIntent, Implemented, Reviewed, ColdReviewed,
                    Judged, Ask, WorkFails
    <2> QED
        BY <1>1, <2>1, <2>2, <2>3, <2>4, <2>5 DEF OpStep, TaskStep
<1>2. CASE ConnStep
    BY <1>2 DEF ConnStep, Connect, Recover, Recovered, SpawnTask, CancelStore, CancelProject,
                Respawn
<1>3. CASE Environment
    BY <1>3 DEF Environment, AcceptIntent, CancelIntent, Answer, RespawnFails, WireBreaks,
                Disconnect, DetachedWriterStops, Restart, OwnerCommits
<1>4. CASE UNCHANGED vars
    BY <1>4 DEF vars
<1> QED
    BY <1>1, <1>2, <1>3, <1>4, OpStepWork DEF Next, OpStep

LEMMA NextPrimary ==
    ASSUME TypeOK, Promotion, PrimaryHoldsOnlyApprovedWork, [Next]_vars
    PROVE  PrimaryHoldsOnlyApprovedWork'
<1> SUFFICES ASSUME NEW c \in primary' \ ownerWork'
             PROVE  \E a \in approvals' : c \in a.commit /\ ApprovedBy(a.op, a.rev, a.commit)'
    BY DEF PrimaryHoldsOnlyApprovedWork
<1>1. approvals \subseteq approvals' /\ ownerWork \subseteq ownerWork'
    BY PrimarySteps
<1>2. CASE c \in primary
    BY <1>1, <1>2 DEF PrimaryHoldsOnlyApprovedWork, ApprovedBy
<1>3. ASSUME NEW op \in Ops, task[op].pc = "merge", primary' = ws[op].ckpt
      PROVE  \E a \in approvals' : c \in a.commit /\ ApprovedBy(a.op, a.rev, a.commit)'
    <2>1. PICK r, k : r = machine[op].rev /\ k = ws[op].ckpt
        OBVIOUS
    <2>2. \A role \in {"review", "approval"} :
              [op |-> op, rev |-> r, commit |-> k, role |-> role] \in approvals'
        BY <1>1, <1>3, <2>1 DEF Promotion, ReviewedAt, ApprovedBy
    <2>3. c \in k
        BY <1>3, <2>1
    <2> DEFINE a == [op |-> op, rev |-> r, commit |-> k, role |-> "review"]
    <2>4. a \in approvals' /\ c \in a.commit /\ ApprovedBy(a.op, a.rev, a.commit)'
        BY <2>2, <2>3 DEF ApprovedBy
    <2> QED
        BY <2>4
<1> QED
    BY <1>2, <1>3, PrimarySteps

\* Across crashes, recoveries, cancellations and concurrent operations, the
\* primary checkout holds nothing but the owner's commits and doubly approved
\* work (run_operation, promote).
THEOREM PrimaryIsApproved == Spec => []PrimaryHoldsOnlyApprovedWork
<1>1. Init => PrimaryHoldsOnlyApprovedWork
    BY DEF Init, PrimaryHoldsOnlyApprovedWork
<1>2. TypeOK /\ Promotion /\ PrimaryHoldsOnlyApprovedWork /\ [Next]_vars
          => PrimaryHoldsOnlyApprovedWork'
    BY NextPrimary
<1> QED
    BY <1>1, <1>2, AlwaysPromotion, PTL DEF Spec

\* Whatever the owner commits between a promotion's check and its merge, no
\* step takes a commit out of the primary checkout (promote, workspace.rs).
THEOREM PrimaryOnlyGrows == Spec => PrimaryNeverLosesWork
<1>1. TypeOK /\ [Next]_vars => primary \subseteq primary'
    BY PrimarySteps
<1> QED
    BY <1>1, TypeCorrect, PTL DEF Spec, PrimaryNeverLosesWork

=============================================================================
