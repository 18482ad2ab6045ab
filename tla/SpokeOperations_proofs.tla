----------------------- MODULE SpokeOperations_proofs -----------------------
(***************************************************************************)
(* Proofs about SpokeOperations.                                           *)
(***************************************************************************)
EXTENDS SpokeOperations, TLAPS

-----------------------------------------------------------------------------
(* Updates of a task *)

\* A function stays in its space when one of its values is replaced.
LEMMA UpdateType ==
    ASSUME NEW S, NEW T, NEW f \in [S -> T], NEW x \in S, NEW v \in T
    PROVE  [f EXCEPT ![x] = v] \in [S -> T]
OBVIOUS

LEMMA NoTaskType == NoTask \in Task
BY DEF NoTask, Task, Pcs, NextPcs

\* The fields of a task.
LEMMA TaskFields ==
    ASSUME NEW t \in Task
    PROVE  /\ t.pc \in Pcs /\ t.next \in NextPcs /\ t.next \in Pcs
           /\ t.rev \in Nat /\ t.active \in BOOLEAN /\ t.sup \in SUBSET Ops
BY DEF Task, NextPcs, Pcs, RealPcs, ReviewPcs

\* A task that moves to another label.
LEMMA TaskMoves ==
    ASSUME NEW t \in Task, NEW l \in Pcs
    PROVE  /\ [t EXCEPT !.pc = l] \in Task
           /\ \A n \in NextPcs : [t EXCEPT !.pc = l, !.next = n] \in Task
           /\ \A S \in SUBSET Ops : [t EXCEPT !.pc = l, !.sup = S] \in Task
           /\ \A r \in Nat, a \in BOOLEAN :
                  [t EXCEPT !.pc = l, !.rev = r, !.active = a] \in Task
           /\ \A r \in Nat, a \in BOOLEAN, S \in SUBSET Ops, n \in NextPcs :
                  [t EXCEPT !.pc = l, !.rev = r, !.active = a, !.sup = S, !.next = n] \in Task
BY DEF Task

\* A task that stays at its label.
LEMMA TaskStays ==
    ASSUME NEW t \in Task
    PROVE  /\ [t EXCEPT !.cancel = TRUE] \in Task
           /\ \A a \in {"no", "waiting", "answered"} : [t EXCEPT !.ask = a] \in Task
           /\ \A c \in {"live", "detached", "dead"} : [t EXCEPT !.tx = c] \in Task
BY DEF Task

LEMMA TaskFails ==
    ASSUME NEW t \in Task
    PROVE  [t EXCEPT !.pc = "err", !.ask = "no", !.sup = {}, !.next = "none"] \in Task
BY DEF Task, Pcs, NextPcs

\* Updates of the other records.
LEMMA WorkspaceUpdates ==
    ASSUME NEW w \in Workspace, NEW c \in Commit
    PROVE  /\ [w EXCEPT !.ckpt = c] \in Workspace
           /\ [w EXCEPT !.promoted = TRUE] \in Workspace
           /\ w.base \in Commit /\ w.ckpt \in Commit
           /\ [exists |-> TRUE, base |-> c, ckpt |-> c, promoted |-> FALSE] \in Workspace
BY DEF Workspace

LEMMA MachineUpdates ==
    ASSUME NEW m \in Machine, NEW p \in Phase
    PROVE  [m EXCEPT !.phase = p] \in Machine /\ m.rev \in Nat
BY DEF Machine

LEMMA WorktreeUpdates ==
    ASSUME NEW w \in Worktree, NEW c \in Commit, NEW d \in BOOLEAN
    PROVE  /\ [head |-> c, dirty |-> d] \in Worktree
           /\ [w EXCEPT !.dirty = d] \in Worktree
           /\ w.head \in Commit
BY DEF Worktree

-----------------------------------------------------------------------------
(* What the helpers do to the tasks and the lanes *)

TaskTypes == task \in [Ops -> Task]
LaneTypes == intentLane \in Ops \cup {NoOp} /\ realLane \in Ops \cup {NoOp}
ConnTypes == conn \in Connection /\ wire \in BOOLEAN /\ abandoned \subseteq Ops

\* The tasks after a step to the label l.
LEMMA GotoTypes ==
    ASSUME TaskTypes, NEW op \in Ops, NEW l \in Pcs, Goto(op, l)
    PROVE  TaskTypes'
<1>1. [task[op] EXCEPT !.pc = l] \in Task
    BY TaskMoves DEF TaskTypes
<1> QED
    BY <1>1 DEF TaskTypes, Goto

\* The tasks and the lanes after a failure.
LEMMA FailTypes ==
    ASSUME LaneTypes, NEW op \in Ops, NEW t \in [Ops -> Task], Fail(op, t)
    PROVE  TaskTypes' /\ LaneTypes'
<1>1. [t[op] EXCEPT !.pc = "err", !.ask = "no", !.sup = {}, !.next = "none"] \in Task
    BY TaskFails
<1>2. task' = [t EXCEPT ![op] = [t[op] EXCEPT !.pc = "err", !.ask = "no",
                                              !.sup = {}, !.next = "none"]]
    BY DEF Fail
<1>3. TaskTypes'
    BY <1>1, <1>2 DEF TaskTypes
<1>4. LaneTypes'
    BY DEF Fail, ReleaseLanes, LaneTypes
<1> QED
    BY <1>3, <1>4

\* The tasks and the lanes after the end of a task.
LEMMA FinishTypes ==
    ASSUME TaskTypes, LaneTypes, NEW op \in Ops, Finish(op)
    PROVE  TaskTypes' /\ LaneTypes'
BY NoTaskType DEF TaskTypes, Finish, ReleaseLanes, LaneTypes

\* The tasks after cancellations are signalled.
LEMMA SignalTypes ==
    ASSUME TaskTypes, NEW S
    PROVE  Signal(S) \in [Ops -> Task]
<1>1. ASSUME NEW o \in Ops
      PROVE  (IF o \in S /\ task[o].pc # "none"
              THEN [task[o] EXCEPT !.cancel = TRUE] ELSE task[o]) \in Task
    <2>1. task[o] \in Task
        BY DEF TaskTypes
    <2>2. [task[o] EXCEPT !.cancel = TRUE] \in Task
        BY <2>1, TaskStays
    <2> QED
        BY <2>1, <2>2
<1> QED
    BY <1>1 DEF Signal

\* The tasks and the lanes after a step that ends by sending an event.
LEMMA SendThenTypes ==
    ASSUME TaskTypes, LaneTypes, NEW op \in Ops, NEW l \in Pcs, SendThen(op, l)
    PROVE  TaskTypes' /\ LaneTypes'
<1>1. CASE Sent(op)
    BY <1>1, GotoTypes DEF SendThen, laneVars, LaneTypes
<1>2. CASE ~Sent(op)
    BY <1>2, FailTypes DEF SendThen, TaskTypes
<1> QED
    BY <1>1, <1>2

-----------------------------------------------------------------------------
(* Types: the intent half of run_operation *)

LEMMA IntentStepTypes ==
    ASSUME TypeOK, NEW op \in Ops, IntentStep(op)
    PROVE  TypeOK'
<1> USE DEF TypeOK, ProcessTypes, TaskTypes, LaneTypes
<1> USE DEF storeVars, gitVars, laneVars, connVars, boundVars
<1>1. CASE Start(op)
    <2>1. TaskTypes' /\ LaneTypes'
        BY <1>1, SendThenTypes DEF Start, Pcs
    <2>2. StoreTypes'
        BY <1>1 DEF Start, StoreTypes, OperationStatus
    <2> QED
        BY <1>1, <2>1, <2>2 DEF Start, GitTypes, BoundTypes
<1>2. CASE TakeIntentLane(op)
    <2> DEFINE l == IF task[op].resume THEN "resumed" ELSE "intent"
    <2>1. l \in Pcs
        BY DEF Pcs, IntentPcs
    <2> HIDE DEF l
    <2>2. [task[op] EXCEPT !.pc = l, !.rev = source.rev, !.active = source.active] \in Task
        BY <2>1, TaskMoves DEF StoreTypes
    <2>3. TaskTypes'
        BY <1>2, <2>2, UpdateType DEF TakeIntentLane, l
    <2> QED
        BY <1>2, <2>3 DEF TakeIntentLane, StoreTypes, GitTypes, BoundTypes
<1>3. CASE ProposeResume(op)
    <2> DEFINE n == After(FALSE, FALSE, task[op].active)
    <2>1. "reply" \in Pcs /\ n \in NextPcs
        BY DEF Pcs, IntentPcs, NextPcs, After
    <2> HIDE DEF n
    <2>2. [task[op] EXCEPT !.pc = "reply", !.next = n] \in Task
        BY <2>1, TaskMoves
    <2>3. TaskTypes'
        BY <1>3, <2>2, UpdateType DEF ProposeResume, n
    <2> QED
        BY <1>3, <2>3 DEF ProposeResume, StoreTypes, GitTypes, BoundTypes
<1>4. CASE SignalSuperseded(op)
    <2> DEFINE t == Signal(task[op].sup)
    <2>1. t \in [Ops -> Task]
        BY SignalTypes
    <2> HIDE DEF t
    <2>2. ASSUME Sent(op) PROVE TaskTypes' /\ LaneTypes'
        <3>1. [t[op] EXCEPT !.pc = "reply", !.sup = {}] \in Task
            BY <2>1, TaskMoves DEF Pcs, IntentPcs
        <3> QED
            BY <1>4, <2>1, <2>2, <3>1, UpdateType DEF SignalSuperseded, t
    <2>3. ASSUME ~Sent(op) PROVE TaskTypes' /\ LaneTypes'
        BY <1>4, <2>1, <2>3, FailTypes DEF SignalSuperseded, t
    <2> QED
        BY <1>4, <2>2, <2>3 DEF SignalSuperseded, StoreTypes, GitTypes, BoundTypes
<1>5. CASE Reply(op)
    <2>1. ASSUME Sent(op) PROVE TaskTypes' /\ LaneTypes'
        <3>1. "none" \in NextPcs /\ task[op].next \in Pcs
            BY TaskFields DEF NextPcs
        <3>2. [task[op] EXCEPT !.pc = task[op].next, !.next = "none"] \in Task
            BY <3>1, TaskMoves
        <3> QED
            BY <1>5, <2>1, <3>2, UpdateType DEF Reply
    <2>2. ASSUME ~Sent(op) PROVE TaskTypes' /\ LaneTypes'
        BY <1>5, <2>2, FailTypes DEF Reply
    <2> QED
        BY <1>5, <2>1, <2>2 DEF Reply, StoreTypes, GitTypes, BoundTypes
<1>6. CASE AskOwner(op)
    <2>1. TaskTypes'
        BY <1>6, GotoTypes DEF AskOwner, Pcs
    <2> QED
        BY <1>6, <2>1 DEF AskOwner, StoreTypes, RealizationStatus, GitTypes, BoundTypes
<1>7. CASE Block(op)
    <2>1. TaskTypes' /\ LaneTypes'
        BY <1>7, FinishTypes, FailTypes DEF Block
    <2>2. StoreTypes'
        BY <1>7 DEF Block, StoreTypes, OperationStatus
    <2> QED
        BY <1>7, <2>1, <2>2 DEF Block, GitTypes, BoundTypes
<1>8. CASE Pause(op)
    <2> DEFINE S == {o \in Ops \ {op} : status[o] \in {"accepted", "running", "blocked"}}
    <2> HIDE DEF S
    <2>1. S \in SUBSET Ops /\ "pauseSignal" \in Pcs
        BY DEF S, Pcs
    <2>2. [task[op] EXCEPT !.pc = "pauseSignal", !.sup = S] \in Task
        BY <2>1, TaskMoves
    <2>3. TaskTypes'
        BY <1>8, <2>2, UpdateType DEF Pause, S
    <2>4. StoreTypes'
        BY <1>8 DEF Pause, StoreTypes, OperationStatus
    <2> QED
        BY <1>8, <2>3, <2>4 DEF Pause, GitTypes, BoundTypes
<1>9. CASE PauseSignal(op)
    <2> DEFINE t == Signal(task[op].sup)
    <2>1. t \in [Ops -> Task]
        BY SignalTypes
    <2> HIDE DEF t
    <2>2. [t[op] EXCEPT !.pc = "complete", !.sup = {}] \in Task
        BY <2>1, TaskMoves DEF Pcs
    <2>3. task' = [t EXCEPT ![op] = [t[op] EXCEPT !.pc = "complete", !.sup = {}]]
        BY <1>9 DEF PauseSignal, t
    <2>4. TaskTypes'
        BY <2>1, <2>2, <2>3, UpdateType
    <2> QED
        BY <1>9, <2>4 DEF PauseSignal, StoreTypes, RealizationStatus, GitTypes, BoundTypes
<1>10. CASE Complete(op)
    <2>1. TaskTypes' /\ LaneTypes'
        BY <1>10, FinishTypes, FailTypes DEF Complete
    <2>2. StoreTypes'
        BY <1>10 DEF Complete, StoreTypes, OperationStatus
    <2> QED
        BY <1>10, <2>1, <2>2 DEF Complete, GitTypes, BoundTypes
<1> QED
    BY <1>1, <1>2, <1>3, <1>4, <1>5, <1>6, <1>7, <1>8, <1>9, <1>10 DEF IntentStep

\* The worktrees after a rollback.
LEMMA RollbackTypes ==
    ASSUME StoreTypes, GitTypes, NEW op \in Ops, Rollback(op)
    PROVE  worktree' \in [Ops -> Worktree]
<1>1. [head |-> ws[op].ckpt, dirty |-> FALSE] \in Worktree
    BY WorkspaceUpdates, WorktreeUpdates DEF StoreTypes, GitTypes
<1> QED
    BY <1>1, UpdateType DEF Rollback, GitTypes

-----------------------------------------------------------------------------
(* Types: the realization half of run_operation *)

LEMMA RealizationStepTypes ==
    ASSUME TypeOK, NEW op \in Ops, RealizationStep(op)
    PROVE  TypeOK'
<1> USE DEF TypeOK, ProcessTypes, TaskTypes, LaneTypes
<1> USE DEF storeVars, gitVars, laneVars, connVars, boundVars
<1>1. CASE TakeRealizationLane(op)
    <2>1. TaskTypes'
        BY <1>1, GotoTypes DEF TakeRealizationLane, Pcs, RealPcs
    <2> QED
        BY <1>1, <2>1 DEF TakeRealizationLane, StoreTypes, GitTypes, BoundTypes
<1>2. CASE Prepare(op)
    <2>1. TaskTypes'
        BY <1>2, GotoTypes DEF Prepare, Pcs, RealPcs
    <2> DEFINE w == [exists |-> TRUE, base |-> primary, ckpt |-> primary, promoted |-> FALSE]
    <2> DEFINE h == [head |-> primary, dirty |-> FALSE]
    <2>2. w \in Workspace /\ h \in Worktree
        BY DEF GitTypes, Workspace, Worktree
    <2>3. \/ ws' = ws /\ worktree' = worktree
          \/ ws' = [ws EXCEPT ![op] = w] /\ worktree' = [worktree EXCEPT ![op] = h]
        BY <1>2 DEF Prepare
    <2> HIDE DEF w, h
    <2>4. ws' \in [Ops -> Workspace] /\ worktree' \in [Ops -> Worktree]
        BY <2>2, <2>3, UpdateType DEF StoreTypes, GitTypes
    <2> QED
        BY <1>2, <2>1, <2>4 DEF Prepare, StoreTypes, GitTypes, BoundTypes
<1>3. CASE StartMachine(op)
    <2>1. TaskTypes'
        BY <1>3, GotoTypes DEF StartMachine, Pcs, RealPcs
    <2> DEFINE m == [exists |-> TRUE, rev |-> task[op].rev, phase |-> "implementing"]
    <2>2. m \in Machine
        BY TaskFields DEF Machine, Phase
    <2>3. machine' = machine \/ machine' = [machine EXCEPT ![op] = m]
        BY <1>3 DEF StartMachine
    <2> HIDE DEF m
    <2>4. machine' \in [Ops -> Machine]
        BY <2>2, <2>3, UpdateType DEF StoreTypes
    <2> QED
        BY <1>3, <2>1, <2>4 DEF StartMachine, StoreTypes, GitTypes, BoundTypes
<1>4. CASE LoopHead(op)
    <2>1. TaskTypes' /\ LaneTypes'
        BY <1>4, GotoTypes, FailTypes DEF LoopHead, Pcs, RealPcs
    <2> QED
        BY <1>4, <2>1 DEF LoopHead, StoreTypes, GitTypes, BoundTypes
<1>5. CASE Reconcile(op)
    <2>1. TaskTypes' /\ LaneTypes'
        BY <1>5, SendThenTypes DEF Reconcile, Pcs, RealPcs
    <2>2. worktree' \in [Ops -> Worktree]
        BY <1>5 DEF Reconcile, GitTypes, Worktree, Sent
    <2> QED
        BY <1>5, <2>1, <2>2 DEF Reconcile, StoreTypes, RealizationStatus, GitTypes, BoundTypes
<1>6. CASE PersistWork(op)
    <2>1. TaskTypes'
        BY <1>6, GotoTypes DEF PersistWork, Pcs, RealPcs
    <2>2. [ws[op] EXCEPT !.ckpt = worktree[op].head] \in Workspace
        BY WorkspaceUpdates, WorktreeUpdates DEF StoreTypes, GitTypes
    <2>3. ws' \in [Ops -> Workspace]
        BY <1>6, <2>2, UpdateType DEF PersistWork, StoreTypes
    <2> QED
        BY <1>6, <2>1, <2>3 DEF PersistWork, StoreTypes, GitTypes, BoundTypes
<1>7. CASE PersistPhase(op)
    <2>1. ASSUME Sent(op) PROVE TaskTypes' /\ LaneTypes'
        <3>1. "none" \in NextPcs /\ task[op].next \in Pcs
            BY TaskFields DEF NextPcs
        <3>2. [task[op] EXCEPT !.pc = task[op].next, !.next = "none"] \in Task
            BY <3>1, TaskMoves
        <3> QED
            BY <1>7, <2>1, <3>2, UpdateType DEF PersistPhase
    <2>2. ASSUME ~Sent(op) PROVE TaskTypes' /\ LaneTypes'
        BY <1>7, <2>2, FailTypes DEF PersistPhase
    <2> DEFINE p == IF task[op].next = "askOwner" THEN "waiting" ELSE "reviewing"
    <2>3. p \in Phase
        BY DEF Phase
    <2> HIDE DEF p
    <2>4. machine' \in [Ops -> Machine]
        BY <1>7, <2>3, MachineUpdates, UpdateType DEF PersistPhase, StoreTypes, p
    <2> QED
        BY <1>7, <2>1, <2>2, <2>4 DEF PersistPhase, StoreTypes, GitTypes, BoundTypes
<1>8. CASE Assess(op)
    <2>1. TaskTypes'
        BY <1>8, GotoTypes DEF Assess, Pcs, RealPcs, ReviewPcs
    <2> QED
        BY <1>8, <2>1 DEF Assess, StoreTypes, RealizationStatus, GitTypes, BoundTypes
<1>9. CASE ReviewCompleted(op)
    <2>1. TaskTypes' /\ LaneTypes'
        BY <1>9, GotoTypes, SendThenTypes DEF ReviewCompleted, Pcs, RealPcs, PromotePcs
    <2>2. PICK p \in Phase : machine' = [machine EXCEPT ![op] = [machine[op] EXCEPT !.phase = p]]
        BY <1>9 DEF ReviewCompleted, Phase
    <2>3. machine' \in [Ops -> Machine]
        BY <2>2, MachineUpdates, UpdateType DEF StoreTypes
    <2> QED
        BY <1>9, <2>1, <2>3 DEF ReviewCompleted, StoreTypes, GitTypes, BoundTypes
<1>10. CASE PromoteCheck(op)
    <2>1. TaskTypes' /\ LaneTypes'
        BY <1>10, GotoTypes, FailTypes DEF PromoteCheck, Pcs, RealPcs, PromotePcs
    <2> QED
        BY <1>10, <2>1 DEF PromoteCheck, StoreTypes, GitTypes, BoundTypes
<1>11. CASE Merge(op)
    <2>1. TaskTypes' /\ LaneTypes'
        BY <1>11, GotoTypes, FailTypes DEF Merge, Pcs, RealPcs, PromotePcs
    <2>2. primary' \in Commit
        BY <1>11, WorkspaceUpdates DEF Merge, StoreTypes, GitTypes
    <2> QED
        BY <1>11, <2>1, <2>2 DEF Merge, StoreTypes, GitTypes, BoundTypes
<1>12. CASE PersistPromoted(op)
    <2>1. TaskTypes'
        BY <1>12, GotoTypes DEF PersistPromoted, Pcs, RealPcs, PromotePcs
    <2>2. [ws[op] EXCEPT !.promoted = TRUE] \in Workspace
        BY WorkspaceUpdates DEF StoreTypes, GitTypes
    <2>3. ws' \in [Ops -> Workspace]
        BY <1>12, <2>2, UpdateType DEF PersistPromoted, StoreTypes
    <2> QED
        BY <1>12, <2>1, <2>3 DEF PersistPromoted, StoreTypes, GitTypes, BoundTypes
<1>13. CASE Satisfy(op)
    <2>1. TaskTypes' /\ LaneTypes'
        BY <1>13, SendThenTypes DEF Satisfy, Pcs
    <2> QED
        BY <1>13, <2>1 DEF Satisfy, StoreTypes, RealizationStatus, GitTypes, BoundTypes
<1> QED
    BY <1>1, <1>2, <1>3, <1>4, <1>5, <1>6, <1>7, <1>8, <1>9, <1>10, <1>11, <1>12, <1>13
       DEF RealizationStep

-----------------------------------------------------------------------------
(* Types: the runs, cancellation and errors *)

LEMMA ErrorStepTypes ==
    ASSUME TypeOK, NEW op \in Ops, ErrorStep(op)
    PROVE  TypeOK'
<1> USE DEF TypeOK, ProcessTypes, TaskTypes, LaneTypes
<1> USE DEF storeVars, gitVars, laneVars, connVars, boundVars
<1>1. CASE ErrorCheck(op)
    <2>1. TaskTypes' /\ LaneTypes'
        BY <1>1, GotoTypes, FinishTypes DEF ErrorCheck, Pcs
    <2> QED
        BY <1>1, <2>1 DEF ErrorCheck, StoreTypes, GitTypes, BoundTypes
<1>2. CASE ErrorBlock(op)
    <2>1. TaskTypes'
        BY <1>2, GotoTypes DEF ErrorBlock, Pcs
    <2> QED
        BY <1>2, <2>1 DEF ErrorBlock, StoreTypes, RealizationStatus, GitTypes, BoundTypes
<1>3. CASE ErrorFail(op)
    <2>1. TaskTypes' /\ LaneTypes'
        BY <1>3, FinishTypes DEF ErrorFail
    <2>2. StoreTypes'
        BY <1>3 DEF ErrorFail, StoreTypes, OperationStatus
    <2> QED
        BY <1>3, <2>1, <2>2 DEF ErrorFail, GitTypes, BoundTypes
<1> QED
    BY <1>1, <1>2, <1>3 DEF ErrorStep

LEMMA RunStepTypes ==
    ASSUME TypeOK, NEW op \in Ops,
           ResumeRun(op) \/ Ask(op) \/ RunCancelled(op) \/ WorkFails(op)
    PROVE  TypeOK'
<1> USE DEF TypeOK, ProcessTypes, TaskTypes, LaneTypes
<1> USE DEF storeVars, gitVars, laneVars, connVars, boundVars
<1>1. ASSUME NEW a \in {"no", "waiting", "answered"}
      PROVE  [task EXCEPT ![op].ask = a] \in [Ops -> Task]
    BY TaskStays, UpdateType
<1>2. CASE ResumeRun(op)
    <2>1. TaskTypes' /\ LaneTypes'
        BY <1>2, <1>1, FailTypes DEF ResumeRun
    <2>2. worktree' \in [Ops -> Worktree]
        BY <1>2, RollbackTypes DEF ResumeRun, GitTypes
    <2>3. StoreTypes'
        BY <1>2 DEF ResumeRun, StoreTypes, OperationStatus
    <2> QED
        BY <1>2, <2>1, <2>2, <2>3 DEF ResumeRun, GitTypes, BoundTypes
<1>3. CASE Ask(op)
    <2>1. TaskTypes' /\ LaneTypes'
        BY <1>3, <1>1, FailTypes DEF Ask
    <2>2. worktree' \in [Ops -> Worktree]
        BY <1>3, RollbackTypes DEF Ask, GitTypes
    <2>3. StoreTypes'
        BY <1>3 DEF Ask, StoreTypes, OperationStatus
    <2> QED
        BY <1>3, <2>1, <2>2, <2>3 DEF Ask, GitTypes, BoundTypes
<1>4. CASE RunCancelled(op)
    <2>1. TaskTypes' /\ LaneTypes'
        BY <1>4, FailTypes DEF RunCancelled
    <2>2. worktree' \in [Ops -> Worktree]
        BY <1>4, RollbackTypes DEF RunCancelled, GitTypes
    <2> QED
        BY <1>4, <2>1, <2>2 DEF RunCancelled, StoreTypes, GitTypes, BoundTypes
<1>5. CASE WorkFails(op)
    <2>1. TaskTypes' /\ LaneTypes'
        BY <1>5, FailTypes DEF WorkFails
    <2>2. worktree' \in [Ops -> Worktree]
        BY <1>5, RollbackTypes DEF WorkFails, GitTypes
    <2> QED
        BY <1>5, <2>1, <2>2 DEF WorkFails, StoreTypes, GitTypes, BoundTypes
<1> QED
    BY <1>2, <1>3, <1>4, <1>5

LEMMA CommitIntentTypes ==
    ASSUME TypeOK, NEW op \in Ops, NEW activate \in BOOLEAN, NEW question \in BOOLEAN,
           NEW paused \in BOOLEAN, CommitIntent(op, activate, question, paused)
    PROVE  TypeOK'
<1> USE DEF TypeOK, ProcessTypes, TaskTypes, LaneTypes
<1> USE DEF storeVars, gitVars, laneVars, connVars, boundVars
<1>1. CASE source.rev # task[op].rev
    <2>1. TaskTypes' /\ LaneTypes' /\ UNCHANGED storeVars
        BY <1>1, FailTypes DEF CommitIntent
    <2> QED
        BY <2>1 DEF CommitIntent, StoreTypes, GitTypes, BoundTypes
<1>2. CASE source.rev = task[op].rev
    <2> DEFINE S == {o \in Ops \ {op} : status[o] \in {"accepted", "running"}}
               n == After(question, paused, activate)
               r == source.rev + 1
    <2>1. S \in SUBSET Ops /\ n \in NextPcs /\ r \in Nat
        BY DEF After, NextPcs, StoreTypes
    <2>2. /\ task' = [task EXCEPT ![op] = [task[op] EXCEPT !.pc = "supersede", !.rev = r,
                                 !.active = activate, !.sup = S, !.next = n]]
          /\ source' = [rev |-> r, active |-> activate]
          /\ status' = [o \in Ops |-> IF o \in S THEN "cancelled" ELSE status[o]]
          /\ proj' = IF activate THEN "reconciling" ELSE "inactive"
        BY <1>2 DEF CommitIntent
    <2> HIDE DEF S, n, r
    <2>3. [task[op] EXCEPT !.pc = "supersede", !.rev = r,
                                 !.active = activate, !.sup = S, !.next = n] \in Task
        BY <2>1, TaskMoves DEF Pcs, IntentPcs
    <2>4. TaskTypes'
        BY <2>2, <2>3, UpdateType
    <2>5. StoreTypes'
        BY <2>1, <2>2 DEF CommitIntent, StoreTypes, OperationStatus, RealizationStatus
    <2> QED
        BY <1>2, <2>4, <2>5 DEF CommitIntent, GitTypes, BoundTypes
<1> QED
    BY <1>1, <1>2

LEMMA JudgedTypes ==
    ASSUME TypeOK, NEW op \in Ops, NEW role \in {"review", "approval"},
           NEW approved \in BOOLEAN, NEW next \in {"cold", "approved"},
           Judged(op, role, approved, next)
    PROVE  TypeOK'
<1> USE DEF TypeOK, ProcessTypes, TaskTypes, LaneTypes
<1> USE DEF storeVars, gitVars, laneVars, connVars, boundVars
<1>1. next \in Pcs /\ "findings" \in Pcs
    BY DEF Pcs, RealPcs, ReviewPcs
<1>2. TaskTypes' /\ LaneTypes'
    BY <1>1, GotoTypes, FailTypes DEF Judged
<1>3. Approval(op, role) \in Review
    BY WorktreeUpdates DEF Approval, Review, StoreTypes, GitTypes, Machine
<1>4. approvals' \subseteq Review
    BY <1>3 DEF Judged, StoreTypes
<1> QED
    BY <1>2, <1>4 DEF Judged, StoreTypes, GitTypes, BoundTypes

LEMMA AgentStepTypes ==
    ASSUME TypeOK, NEW op \in Ops, AgentStep(op)
    PROVE  TypeOK'
<1>1. ASSUME NEW q \in BOOLEAN, NEW p \in BOOLEAN, KeepIntent(op, q, p)
      PROVE  TypeOK'
    <2> DEFINE n == After(q, p, task[op].active)
    <2>1. "reply" \in Pcs /\ n \in NextPcs
        BY DEF Pcs, IntentPcs, NextPcs, After
    <2> HIDE DEF n
    <2>2. [task[op] EXCEPT !.pc = "reply", !.next = n] \in Task
        BY <2>1, TaskMoves DEF TypeOK, ProcessTypes
    <2>3. TaskTypes'
        BY <1>1, <2>2, UpdateType DEF KeepIntent, n, TypeOK, ProcessTypes, TaskTypes
    <2> QED
        BY <1>1, <2>3 DEF KeepIntent, TypeOK, ProcessTypes, TaskTypes, StoreTypes, GitTypes,
            BoundTypes, storeVars, gitVars, laneVars, connVars, boundVars
<1>2. ASSUME NEW a \in BOOLEAN, NEW q \in BOOLEAN, NEW p \in BOOLEAN,
             CommitIntent(op, a, q, p)
      PROVE  TypeOK'
    BY <1>2, CommitIntentTypes
<1>3. ASSUME NEW q \in BOOLEAN, NEW c \in BOOLEAN, Implemented(op, q, c)
      PROVE  TypeOK'
    <2> DEFINE n == IF q THEN "askOwner" ELSE "assess"
               h == IF c THEN worktree[op].head \cup {changes} ELSE worktree[op].head
    <2>1. "persistWork" \in Pcs /\ n \in NextPcs
        BY DEF Pcs, RealPcs, NextPcs
    <2>2. [head |-> h, dirty |-> FALSE] \in Worktree
        BY WorktreeUpdates DEF TypeOK, GitTypes, Commit, Worktree
    <2>3. worktree' = [worktree EXCEPT ![op] = [head |-> h, dirty |-> FALSE]]
        BY <1>3 DEF Implemented
    <2> HIDE DEF n, h
    <2>4. [task[op] EXCEPT !.pc = "persistWork", !.next = n] \in Task
        BY <2>1, TaskMoves DEF TypeOK, ProcessTypes
    <2>5. TaskTypes'
        BY <1>3, <2>4, UpdateType DEF Implemented, n, TypeOK, ProcessTypes, TaskTypes
    <2>6. worktree' \in [Ops -> Worktree]
        BY <2>2, <2>3, UpdateType DEF TypeOK, GitTypes
    <2>7. changes' \in Nat
        BY <1>3 DEF Implemented, TypeOK, GitTypes
    <2> QED
        BY <1>3, <2>5, <2>6, <2>7 DEF Implemented, TypeOK, ProcessTypes, TaskTypes,
            StoreTypes, GitTypes, BoundTypes, storeVars, laneVars, connVars, boundVars
<1>4. ASSUME NEW a \in BOOLEAN, Reviewed(op, a) PROVE TypeOK'
    BY <1>4, JudgedTypes DEF Reviewed
<1>5. ASSUME NEW a \in BOOLEAN, ColdReviewed(op, a) PROVE TypeOK'
    BY <1>5, JudgedTypes DEF ColdReviewed
<1> QED
    BY <1>1, <1>2, <1>3, <1>4, <1>5, RunStepTypes DEF AgentStep

-----------------------------------------------------------------------------
(* Types: the connection loop and the environment *)

\* The connection's channel is gone for every task.
LEMMA WireLossTypes ==
    ASSUME TaskTypes, NEW fate \in {"dead", "detached"}, NEW from,
           task' = [o \in Ops |-> [task[o] EXCEPT !.tx = IF @ = from THEN fate ELSE @]]
    PROVE  TaskTypes'
<1>1. ASSUME NEW o \in Ops
      PROVE  [task[o] EXCEPT !.tx = IF @ = from THEN fate ELSE @] \in Task
    <2>1. task[o] \in Task
        BY DEF TaskTypes
    <2>2. (IF task[o].tx = from THEN fate ELSE task[o].tx) \in {"live", "detached", "dead"}
        BY <2>1 DEF Task
    <2> QED
        BY <2>1, <2>2, TaskStays
<1> QED
    BY <1>1 DEF TaskTypes

LEMMA DetachTypes ==
    ASSUME TaskTypes, Detach
    PROVE  TaskTypes'
BY WireLossTypes DEF Detach

LEMMA SpawnedTypes ==
    ASSUME TaskTypes, NEW op, NEW resume \in BOOLEAN, Spawned(op, resume)
    PROVE  TaskTypes'
<1> DEFINE t == [NoTask EXCEPT !.pc = "start", !.resume = resume,
                               !.tx = IF wire THEN "live" ELSE "dead"]
<1>1. t \in Task
    BY NoTaskType DEF Task, Pcs
<1>2. task' = [task EXCEPT ![op] = t]
    BY DEF Spawned
<1> HIDE DEF t
<1> QED
    BY <1>1, <1>2 DEF TaskTypes

\* The connection loop after a step to label l.
LEMMA ServeTypes ==
    ASSUME NEW l \in ConnPcs, NEW op \in Ops \cup {NoOp}, NEW todo \in SUBSET Ops,
           l = "spawn" => op # NoOp, Serve(l, op, todo)
    PROVE  conn' \in Connection
BY DEF Serve, Connection

LEMMA IdleTypes == ASSUME Idle PROVE conn' \in Connection
BY ServeTypes DEF Idle, ConnPcs

LEMMA ConnStepTypes ==
    ASSUME TypeOK, ConnStep
    PROVE  TypeOK'
<1> USE DEF TypeOK, ProcessTypes, TaskTypes
<1> USE DEF storeVars, gitVars, laneVars, connVars, boundVars
<1>1. /\ conn.op \in Ops \cup {NoOp} /\ conn.todo \in SUBSET Ops
      /\ conn.pc = "spawn" => conn.op \in Ops
    BY DEF Connection
<1>2. CASE Connect
    <2>1. conn' \in Connection
        BY <1>2, ServeTypes DEF Connect, ConnPcs
    <2> QED
        BY <1>2, <2>1 DEF Connect, StoreTypes, GitTypes, BoundTypes
<1>3. CASE Recover
    <2> DEFINE S == {o \in Ops : Recoverable(o)}
    <2>1. S \in SUBSET Ops
        OBVIOUS
    <2>2. /\ Serve("respawn", NoOp, S)
          /\ status' = [o \in Ops |-> IF o \in S THEN "accepted" ELSE status[o]]
        BY <1>3 DEF Recover
    <2> HIDE DEF S
    <2>3. conn' \in Connection
        BY <2>1, <2>2, ServeTypes DEF ConnPcs
    <2>4. status' \in [Ops -> OperationStatus]
        BY <2>2 DEF StoreTypes, OperationStatus
    <2> QED
        BY <1>3, <2>3, <2>4 DEF Recover, StoreTypes, GitTypes, BoundTypes
<1>4. CASE Recovered
    BY <1>4, IdleTypes DEF Recovered, StoreTypes, GitTypes, BoundTypes
<1>5. CASE SpawnTask
    <2>1. TaskTypes'
        BY <1>5, SpawnedTypes DEF SpawnTask
    <2>2. abandoned' \subseteq Ops
        <3>1. CASE wire
            BY <1>5, <3>1 DEF SpawnTask
        <3>2. CASE ~wire
            <4>1. abandoned' = abandoned \cup {conn.op} /\ conn.op \in Ops
                BY <1>1, <1>5, <3>2 DEF SpawnTask
            <4> QED
                BY <4>1
        <3> QED
            BY <3>1, <3>2
    <2> QED
        BY <1>5, <2>1, <2>2, IdleTypes DEF SpawnTask, StoreTypes, GitTypes, BoundTypes
<1>6. CASE CancelStore
    <2>1. conn' \in Connection
        BY <1>6, <1>1, ServeTypes, IdleTypes DEF CancelStore, ConnPcs
    <2>2. status' \in [Ops -> OperationStatus]
        BY <1>6 DEF CancelStore, StoreTypes, OperationStatus
    <2> QED
        BY <1>6, <2>1, <2>2 DEF CancelStore, StoreTypes, GitTypes, BoundTypes
<1>7. CASE CancelProject
    BY <1>7, IdleTypes
       DEF CancelProject, StoreTypes, RealizationStatus, GitTypes, BoundTypes
<1>8. ASSUME NEW op \in Ops, Respawn(op) PROVE TypeOK'
    <2>1. TaskTypes'
        BY <1>8, SpawnedTypes DEF Respawn
    <2>2. conn.todo \ {op} \in SUBSET Ops
        BY <1>1
    <2>3. conn' \in Connection
        BY <1>8, <2>2, ServeTypes DEF Respawn, ConnPcs
    <2>4. worktree' \in [Ops -> Worktree]
        BY <1>8, RollbackTypes DEF Respawn, GitTypes
    <2> QED
        BY <1>8, <2>1, <2>3, <2>4 DEF Respawn, StoreTypes, GitTypes, BoundTypes
<1> QED
    BY <1>2, <1>3, <1>4, <1>5, <1>6, <1>7, <1>8 DEF ConnStep

\* What owners and networks do.
LEMMA RequestTypes ==
    ASSUME TypeOK, NEW op \in Ops,
           AcceptIntent(op) \/ CancelIntent(op) \/ Answer(op) \/ RespawnFails(op)
    PROVE  TypeOK'
<1> USE DEF TypeOK, ProcessTypes, TaskTypes
<1> USE DEF storeVars, gitVars, laneVars, connVars, boundVars
<1>1. conn.todo \in SUBSET Ops
    BY DEF Connection
<1>2. CASE AcceptIntent(op)
    <2>1. conn' \in Connection
        BY <1>2, OpsAssumption, ServeTypes DEF AcceptIntent, ConnPcs
    <2>2. status' \in [Ops -> OperationStatus]
        BY <1>2 DEF AcceptIntent, StoreTypes, OperationStatus
    <2> QED
        BY <1>2, <2>1, <2>2 DEF AcceptIntent, StoreTypes, GitTypes, BoundTypes
<1>3. CASE CancelIntent(op)
    <2>1. conn' \in Connection
        BY <1>3, ServeTypes DEF CancelIntent, ConnPcs
    <2>2. TaskTypes'
        BY <1>3, SignalTypes DEF CancelIntent
    <2>3. BoundTypes'
        BY <1>3 DEF CancelIntent, BoundTypes
    <2> QED
        BY <1>3, <2>1, <2>2, <2>3 DEF CancelIntent, StoreTypes, GitTypes
<1>4. CASE Answer(op)
    <2>1. [task[op] EXCEPT !.ask = "answered"] \in Task
        BY TaskStays
    <2>2. TaskTypes'
        BY <1>4, <2>1, UpdateType DEF Answer
    <2> QED
        BY <1>4, <2>2 DEF Answer, StoreTypes, GitTypes, BoundTypes
<1>5. CASE RespawnFails(op)
    <2>1. conn' \in Connection
        BY <1>5, ServeTypes DEF RespawnFails, ConnPcs
    <2>2. TaskTypes'
        BY <1>5, DetachTypes DEF RespawnFails
    <2>3. BoundTypes'
        BY <1>5 DEF RespawnFails, BoundTypes
    <2> QED
        BY <1>1, <1>5, <2>1, <2>2, <2>3 DEF RespawnFails, StoreTypes, GitTypes
<1> QED
    BY <1>2, <1>3, <1>4, <1>5

LEMMA RestartTypes ==
    ASSUME TypeOK, Restart
    PROVE  TypeOK'
<1> USE DEF TypeOK, ProcessTypes
<1> DEFINE A == {o \in Ops : status[o] \in {"accepted", "running"}}
<1>1. A \in SUBSET Ops
    OBVIOUS
<1>2. /\ status' = [o \in Ops |-> IF o \notin A THEN status[o]
                                  ELSE IF Resumable(o) THEN "queued" ELSE "failed"]
      /\ machine' = [o \in Ops |-> IF o \in A /\ Resumable(o)
                                   THEN [machine[o] EXCEPT !.phase = "implementing"]
                                   ELSE machine[o]]
      /\ proj' \in {proj, "reconciling", "blocked"}
    BY DEF Restart
<1> HIDE DEF A
<1>3. status' \in [Ops -> OperationStatus]
    BY <1>2 DEF StoreTypes, OperationStatus
<1>4. machine' \in [Ops -> Machine]
    <2>1. ASSUME NEW o \in Ops
          PROVE  (IF o \in A /\ Resumable(o)
                  THEN [machine[o] EXCEPT !.phase = "implementing"] ELSE machine[o]) \in Machine
        BY MachineUpdates DEF StoreTypes, Phase
    <2> QED
        BY <1>2, <2>1
<1>5. StoreTypes'
    BY <1>2, <1>3, <1>4 DEF Restart, StoreTypes, RealizationStatus
<1>6. conn' \in Connection
    BY ServeTypes DEF Restart, ConnPcs
<1>7. task' \in [Ops -> Task]
    BY NoTaskType DEF Restart
<1>8. BoundTypes'
    BY DEF Restart, BoundTypes
<1>9. intentLane' \in Ops \cup {NoOp} /\ realLane' \in Ops \cup {NoOp}
    BY DEF Restart
<1> QED
    BY <1>5, <1>6, <1>7, <1>8, <1>9 DEF Restart, GitTypes, gitVars

LEMMA EnvironmentTypes ==
    ASSUME TypeOK, Environment
    PROVE  TypeOK'
<1> USE DEF TypeOK, ProcessTypes, TaskTypes
<1> USE DEF storeVars, gitVars, laneVars, connVars, boundVars
<1>1. ASSUME NEW op \in Ops,
             AcceptIntent(op) \/ CancelIntent(op) \/ Answer(op) \/ RespawnFails(op)
      PROVE  TypeOK'
    BY <1>1, RequestTypes
<1>2. CASE WireBreaks
    <2>1. TaskTypes'
        BY <1>2, WireLossTypes DEF WireBreaks
    <2>3. BoundTypes'
        BY <1>2 DEF WireBreaks, BoundTypes
    <2> QED
        BY <1>2, <2>1, <2>3 DEF WireBreaks, StoreTypes, GitTypes
<1>3. CASE Disconnect
    <2>1. conn' \in Connection
        BY <1>3, ServeTypes DEF Disconnect, ConnPcs
    <2>2. TaskTypes'
        BY <1>3, DetachTypes DEF Disconnect
    <2>3. BoundTypes'
        BY <1>3 DEF Disconnect, BoundTypes
    <2> QED
        BY <1>3, <2>1, <2>2, <2>3 DEF Disconnect, StoreTypes, GitTypes
<1>4. CASE DetachedWriterStops
    <2>1. TaskTypes'
        BY <1>4, WireLossTypes DEF DetachedWriterStops
    <2> QED
        BY <1>4, <2>1 DEF DetachedWriterStops, StoreTypes, GitTypes, BoundTypes
<1>5. CASE Restart
    BY <1>5, RestartTypes
<1>6. CASE OwnerCommits
    BY <1>6 DEF OwnerCommits, StoreTypes, GitTypes, Commit, BoundTypes
<1> QED
    BY <1>1, <1>2, <1>3, <1>4, <1>5, <1>6 DEF Environment

-----------------------------------------------------------------------------

LEMMA InitTypes == Init => TypeOK
<1> SUFFICES ASSUME Init PROVE TypeOK
    OBVIOUS
<1> USE DEF Init
<1>1. StoreTypes
    BY DEF StoreTypes, RealizationStatus, OperationStatus, Workspace, NoWorkspace,
           Commit, Machine, NoMachine, Phase
<1>2. GitTypes
    BY DEF GitTypes, Worktree, Commit
<1>3. ProcessTypes
    BY NoTaskType DEF ProcessTypes, Connection, ConnPcs
<1> QED
    BY <1>1, <1>2, <1>3 DEF TypeOK, BoundTypes

LEMMA NextTypes == TypeOK /\ [Next]_vars => TypeOK'
<1> SUFFICES ASSUME TypeOK, [Next]_vars PROVE TypeOK'
    OBVIOUS
<1>1. ASSUME NEW op \in Ops, TaskStep(op) PROVE TypeOK'
    BY <1>1, IntentStepTypes, RealizationStepTypes, ErrorStepTypes, RunStepTypes DEF TaskStep
<1>2. ASSUME NEW op \in Ops, RunCancelled(op) PROVE TypeOK'
    BY <1>2, RunStepTypes
<1>3. ASSUME NEW op \in Ops, AgentStep(op) PROVE TypeOK'
    BY <1>3, AgentStepTypes
<1>4. CASE ConnStep
    BY <1>4, ConnStepTypes
<1>5. CASE Environment
    BY <1>5, EnvironmentTypes
<1>6. CASE UNCHANGED vars
    BY <1>6 DEF TypeOK, StoreTypes, GitTypes, ProcessTypes, BoundTypes, vars, storeVars,
                gitVars, laneVars, connVars, boundVars
<1> QED
    BY <1>1, <1>2, <1>3, <1>4, <1>5, <1>6 DEF Next

\* Every variable keeps its type, for any number of operations and any bounds.
THEOREM TypeCorrect == Spec => []TypeOK
BY InitTypes, NextTypes, PTL DEF Spec
=============================================================================
