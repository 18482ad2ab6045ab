-------------------------- MODULE SpokeOperations --------------------------
(***************************************************************************)
(* The lifecycle of the operations of one Project on a Spoke               *)
(* (spoke/src/main.rs, orchestrator.rs, workspace.rs): the owner's turns   *)
(* arrive on the Hub connection, each becomes an operation with a task of  *)
(* its own, the task runs the Intent agent under the Project's intent      *)
(* lane, commits Source of Intent revisions, and then, under the           *)
(* realization lane, iterates implementation and review in an isolated     *)
(* git worktree until an approved checkpoint is merged into the primary    *)
(* checkout.  The Spoke may crash and restart at any step, the Hub         *)
(* connection may be lost at any step, and the owner may cancel, answer    *)
(* and commit to the primary checkout at any time.                         *)
(*                                                                         *)
(* One step is one critical section on the store mutex (or one git         *)
(* command) together with the event sent after it.  Every critical section *)
(* that changes the store saves it before it unlocks, so the store         *)
(* variables are also what a restart reads back.                           *)
(*                                                                         *)
(* Abstracted: the timeline, the Intent Chat's own status, the sessions,   *)
(* the divergence ledger, the document bundle (a check of it may fail,     *)
(* WorkFails), the texts the agents produce (their typed outcome is a      *)
(* choice) and the iteration number.  A failure of save_store is not       *)
(* modelled.                                                               *)
(***************************************************************************)
EXTENDS Integers, FiniteSets

CONSTANTS Ops,             \* operations the owner may start
          NoOp,            \* "no operation": a free lane, an idle handler
          MaxRevision,     \* bound on Source of Intent revisions
          MaxChanges,      \* bound on commits (agents' and owner's together)
          MaxOwnerCommits, \* bound on the owner's own commits to the primary
          MaxAsks,         \* bound on interactions of the agents
          MaxCancels,      \* bound on the owner's cancellations
          MaxCrashes,      \* bound on Spoke restarts
          MaxDrops         \* bound on lost Hub connections

ASSUME OpsAssumption == NoOp \notin Ops
ASSUME BoundsAssumption ==
    /\ MaxRevision \in Nat /\ MaxChanges \in Nat /\ MaxOwnerCommits \in Nat
    /\ MaxAsks \in Nat /\ MaxCancels \in Nat
    /\ MaxCrashes \in Nat /\ MaxDrops \in Nat

VARIABLES
    \* ---- the store (store-v3.json), durable
    source,      \* the Source of Intent: its revision and whether it is active
    proj,        \* ProjectRecord.realization_status
    status,      \* OperationRecord.status; "none" before the operation exists
    ws,          \* WorkspaceRecord of each operation
    machine,     \* RealizationMachine of each operation
    approvals,   \* the approving ReviewRecords
    \* ---- git, durable
    worktree,    \* HEAD of each operation's worktree, and whether it is dirty
    primary,     \* HEAD of the primary checkout
    changes,     \* number of commits made so far: the next commit's identity
    ownerWork,   \* commits the owner made on the primary checkout
    \* ---- the process, lost by a crash
    task,        \* the tokio task of each operation
    intentLane,  \* holder of the Project's intent lane
    realLane,    \* holder of the Project's realization lane
    conn,        \* the connection loop and the request it is handling
    wire,        \* whether the connection's outgoing channel is open
    abandoned,   \* operations whose hand-over to a task was cut short
    \* ---- the bounds
    asks, cancels, crashes, drops

storeVars == <<source, proj, status, ws, machine, approvals>>
gitVars   == <<worktree, primary, changes, ownerWork>>
laneVars  == <<intentLane, realLane>>
connVars  == <<conn, wire, abandoned>>
boundVars == <<asks, cancels, crashes, drops>>
vars == <<storeVars, gitVars, task, laneVars, connVars, boundVars>>

-----------------------------------------------------------------------------
(* Types *)

OperationStatus == {"none", "accepted", "queued", "running", "blocked",
                    "completed", "failed", "cancelled"}
RealizationStatus == {"inactive", "reconciling", "reviewing", "waiting",
                      "blocked", "paused", "satisfied"}
Phase == {"implementing", "reviewing", "waiting", "satisfied"}

\* A commit is the set of changes in its history.
Commit == SUBSET Nat

Workspace == [exists : BOOLEAN, base : Commit, ckpt : Commit, promoted : BOOLEAN]
NoWorkspace == [exists |-> FALSE, base |-> {}, ckpt |-> {}, promoted |-> FALSE]
Machine == [exists : BOOLEAN, rev : Nat, phase : Phase]
Review == [op : Ops, rev : Nat, commit : Commit, role : {"review", "approval"}]
Worktree == [head : Commit, dirty : BOOLEAN]
NoMachine == [exists |-> FALSE, rev |-> 0, phase |-> "implementing"]

\* The runs of the Pi agent a task can be inside of.
RunPcs == {"intent", "impl", "review", "cold"}

\* Where a task holds the intent lane, and where the realization lane.
IntentPcs == {"intent", "resumed", "supersede", "reply"}
ReviewPcs == {"assess", "review", "cold", "approved", "findings"}
PromotePcs == {"promote", "merge", "persistPromoted", "satisfy"}
RealPcs == {"prepare", "machine", "loop", "reconcile", "impl", "persistWork",
            "persistPhase"} \cup ReviewPcs \cup PromotePcs
Pcs == {"none", "start", "lane", "askOwner", "block", "pause", "pauseSignal",
        "complete", "wait", "err", "errBlock", "errFail"}
           \cup IntentPcs \cup RealPcs

\* Where a task goes once its reply, or its outcome, is sent.
NextPcs == {"none", "askOwner", "block", "pause", "wait", "assess"}

\* cancel: the operation's watch channel carries true.  ask: an interaction of
\* the agent.  tx: the channel captured from the connection that spawned the
\* task.  next: where the task goes when its reply is sent.  sup: operations
\* whose cancellation it has stored but not signalled yet.
Task == [pc : Pcs, cancel : BOOLEAN, ask : {"no", "waiting", "answered"},
         tx : {"live", "detached", "dead"}, resume : BOOLEAN,
         rev : Nat, active : BOOLEAN,
         next : NextPcs,
         sup : SUBSET Ops]
NoTask == [pc |-> "none", cancel |-> FALSE, ask |-> "no", tx |-> "dead",
           resume |-> FALSE, rev |-> 0, active |-> FALSE, next |-> "none",
           sup |-> {}]

ConnPcs == {"down", "recover", "respawn", "idle", "spawn", "cancelStore",
            "cancelProject"}
Connection ==
    {c \in [pc : ConnPcs, op : Ops \cup {NoOp}, todo : SUBSET Ops] :
        c.pc = "spawn" => c.op # NoOp}

StoreTypes ==
    /\ source \in [rev : Nat, active : BOOLEAN]
    /\ proj \in RealizationStatus
    /\ status \in [Ops -> OperationStatus]
    /\ ws \in [Ops -> Workspace]
    /\ machine \in [Ops -> Machine]
    /\ approvals \subseteq Review
GitTypes ==
    /\ worktree \in [Ops -> Worktree]
    /\ primary \in Commit /\ ownerWork \in Commit
    /\ changes \in Nat
ProcessTypes ==
    /\ task \in [Ops -> Task]
    /\ intentLane \in Ops \cup {NoOp} /\ realLane \in Ops \cup {NoOp}
    /\ conn \in Connection
    /\ wire \in BOOLEAN
    /\ abandoned \subseteq Ops
BoundTypes == asks \in Nat /\ cancels \in Nat /\ crashes \in Nat /\ drops \in Nat

TypeOK == StoreTypes /\ GitTypes /\ ProcessTypes /\ BoundTypes

-----------------------------------------------------------------------------
(* Helpers *)

\* The events of a task go to the connection that spawned it; an unbounded
\* channel accepts them until its receiver is gone.
Sent(op) == task[op].tx # "dead"

\* The source is still the revision the realization works on, and active.
Current(op) == source.active /\ source.rev = machine[op].rev

\* A restarted operation can be resumed from its checkpoint.
Resumable(op) == machine[op].exists /\ ws[op].exists /\ source.active

\* The cancellation senders of the operations S get true; an operation whose
\* sender is not registered (no task, or not spawned yet) misses the signal.
Signal(S) == [o \in Ops |-> IF o \in S /\ task[o].pc # "none"
                            THEN [task[o] EXCEPT !.cancel = TRUE] ELSE task[o]]

RollbackToBase(op) ==
    worktree' = [worktree EXCEPT ![op] = [head |-> ws[op].base, dirty |-> FALSE]]
RollbackWithoutClean(op) == worktree' = [worktree EXCEPT ![op].head = ws[op].ckpt]

\* git reset --hard ckpt; git clean -fd
Rollback(op) ==
    worktree' = [worktree EXCEPT ![op] = [head |-> ws[op].ckpt, dirty |-> FALSE]]

ReleaseAnyLane(op) ==
    /\ intentLane' = NoOp
    /\ realLane' = IF realLane = op THEN NoOp ELSE realLane

\* Guards of the lanes are dropped when run_operation returns.
ReleaseLanes(op) ==
    /\ intentLane' = IF intentLane = op THEN NoOp ELSE intentLane
    /\ realLane' = IF realLane = op THEN NoOp ELSE realLane

Goto(op, l) == task' = [task EXCEPT ![op].pc = l]

\* run_operation returns Err: its guards are dropped and the spawned task goes
\* on to its error handler.  t is task after the step's other effects.
Fail(op, t) ==
    /\ task' = [t EXCEPT ![op].pc = "err", ![op].ask = "no", ![op].sup = {},
                         ![op].next = "none"]
    /\ ReleaseLanes(op)

\* The task ends: its cancellation sender is removed from the map.
Finish(op) ==
    /\ task' = [task EXCEPT ![op] = NoTask]
    /\ ReleaseLanes(op)

\* A step that ends by sending an event: on to l, or to the error handler when
\* the channel is closed.
SendThen(op, l) ==
    IF Sent(op) THEN Goto(op, l) /\ UNCHANGED laneVars ELSE Fail(op, task)

\* The agent of the task's current run is at work, and not waiting for the owner.
Working(op, l) == task[op].pc = l /\ task[op].ask = "no"

Init ==
    /\ source = [rev |-> 0, active |-> FALSE]
    /\ proj = "inactive"
    /\ status = [o \in Ops |-> "none"]
    /\ ws = [o \in Ops |-> NoWorkspace]
    /\ machine = [o \in Ops |-> NoMachine]
    /\ approvals = {}
    /\ worktree = [o \in Ops |-> [head |-> {}, dirty |-> FALSE]]
    /\ primary = {0}
    /\ changes = 1
    /\ ownerWork = {0}
    /\ task = [o \in Ops |-> NoTask]
    /\ intentLane = NoOp
    /\ realLane = NoOp
    /\ conn = [pc |-> "down", op |-> NoOp, todo |-> {}]
    /\ wire = FALSE
    /\ abandoned = {}
    /\ asks = 0 /\ cancels = 0 /\ crashes = 0 /\ drops = 0

-----------------------------------------------------------------------------
(* The intent half of run_operation *)

\* update_operation(Running), whatever the status has become since the task
\* was spawned.
Start(op) ==
    /\ task[op].pc = "start"
    /\ status' = [status EXCEPT ![op] = "running"]
    /\ SendThen(op, "lane")
    /\ UNCHANGED <<source, proj, ws, machine, approvals, gitVars, connVars, boundVars>>

\* The intent lane, then the snapshot of project and source.  A recovered
\* operation does not run the Intent agent: its proposal is Resume.
TakeIntentLane(op) ==
    /\ task[op].pc = "lane"
    /\ intentLane = NoOp
    /\ intentLane' = op
    /\ task' = [task EXCEPT ![op].pc = IF task[op].resume THEN "resumed" ELSE "intent",
                            ![op].rev = source.rev, ![op].active = source.active]
    /\ UNCHANGED <<storeVars, gitVars, realLane, connVars, boundVars>>

AfterSkipsLane(question, paused, active) ==
    IF question THEN "askOwner" ELSE IF active THEN "prepare" ELSE "block"

\* Where a proposal leads: a question wins over a pause or cancel act, and
\* only active intent is realized.
After(question, paused, active) ==
    IF question THEN "askOwner"
    ELSE IF paused THEN "pause"
    ELSE IF active THEN "wait" ELSE "block"

\* A recovered operation's proposal: Resume, without a source update.
ProposeResume(op) ==
    /\ task[op].pc = "resumed"
    /\ task' = [task EXCEPT ![op].pc = "reply",
                            ![op].next = After(FALSE, FALSE, task[op].active)]
    /\ UNCHANGED <<storeVars, gitVars, laneVars, connVars, boundVars>>

\* The agent's accepted proposal without a source update.
KeepIntent(op, question, paused) ==
    /\ Working(op, "intent")
    /\ task' = [task EXCEPT ![op].pc = "reply",
                            ![op].next = After(question, paused, task[op].active)]
    /\ UNCHANGED <<storeVars, gitVars, laneVars, connVars, boundVars>>

\* An accepted proposal with a source update: one critical section commits the
\* next revision and cancels every other accepted or running operation.
CommitIntent(op, activate, question, paused) ==
    /\ Working(op, "intent")
    /\ ~(activate /\ question)
    /\ source.rev < MaxRevision
    /\ IF source.rev # task[op].rev
       THEN Fail(op, task) /\ UNCHANGED <<source, proj, status>>
       ELSE LET superseded == {o \in Ops \ {op} : status[o] \in {"accepted", "running"}}
            IN /\ source' = [rev |-> source.rev + 1, active |-> activate]
               /\ proj' = IF activate THEN "reconciling" ELSE "inactive"
               /\ status' = [o \in Ops |-> IF o \in superseded THEN "cancelled" ELSE status[o]]
               /\ task' = [task EXCEPT ![op].pc = "supersede",
                                       ![op].rev = source.rev + 1,
                                       ![op].active = activate,
                                       ![op].sup = superseded,
                                       ![op].next = After(question, paused, activate)]
               /\ UNCHANGED laneVars
    /\ UNCHANGED <<ws, machine, approvals, gitVars, connVars, boundVars>>

\* Outside the store lock: the superseded operations' watch channels, then the
\* timeline event.
SignalSuperseded(op) ==
    /\ task[op].pc = "supersede"
    /\ LET signalled == Signal(task[op].sup)
       IN IF Sent(op)
          THEN /\ task' = [signalled EXCEPT ![op].pc = "reply", ![op].sup = {}]
               /\ UNCHANGED laneVars
          ELSE Fail(op, signalled)
    /\ UNCHANGED <<storeVars, gitVars, connVars, boundVars>>

\* The question or projection is appended and sent, and the intent lane
\* released.
Reply(op) ==
    /\ task[op].pc = "reply"
    /\ IF Sent(op)
       THEN /\ task' = [task EXCEPT ![op].pc = task[op].next, ![op].next = "none"]
            /\ intentLane' = NoOp
            /\ UNCHANGED realLane
       ELSE Fail(op, task)
    /\ UNCHANGED <<storeVars, gitVars, connVars, boundVars>>

\* A question of the Intent agent or of an implementation run.
AskOwner(op) ==
    /\ task[op].pc = "askOwner"
    /\ proj' = "waiting"
    /\ Goto(op, "block")
    /\ UNCHANGED <<source, status, ws, machine, approvals, gitVars, laneVars,
                   connVars, boundVars>>

\* The operation ends blocked: on a question, or on intent that is not active.
Block(op) ==
    /\ task[op].pc = "block"
    /\ status' = [status EXCEPT ![op] = "blocked"]
    /\ IF Sent(op) THEN Finish(op) ELSE Fail(op, task)
    /\ UNCHANGED <<source, proj, ws, machine, approvals, gitVars, connVars, boundVars>>

\* cancel_project_operations, its critical section.
Pause(op) ==
    /\ task[op].pc = "pause"
    /\ LET others == {o \in Ops \ {op} : status[o] \in {"accepted", "running", "blocked"}}
       IN /\ status' = [o \in Ops |-> IF o \in others THEN "cancelled" ELSE status[o]]
          /\ task' = [task EXCEPT ![op].pc = "pauseSignal", ![op].sup = others]
    /\ UNCHANGED <<source, proj, ws, machine, approvals, gitVars, laneVars,
                   connVars, boundVars>>

\* Its signals, and the Project's status.
PauseSignal(op) ==
    /\ task[op].pc = "pauseSignal"
    /\ proj' = "paused"
    /\ task' = [Signal(task[op].sup) EXCEPT ![op].pc = "complete", ![op].sup = {}]
    /\ UNCHANGED <<source, status, ws, machine, approvals, gitVars, laneVars,
                   connVars, boundVars>>

\* update_operation(Completed): the last step of a pause and of a promotion.
Complete(op) ==
    /\ task[op].pc = "complete"
    /\ status' = [status EXCEPT ![op] = "completed"]
    /\ IF Sent(op) THEN Finish(op) ELSE Fail(op, task)
    /\ UNCHANGED <<source, proj, ws, machine, approvals, gitVars, connVars, boundVars>>

-----------------------------------------------------------------------------
(* The realization half of run_operation *)

TakeRealizationLane(op) ==
    /\ task[op].pc = "wait"
    /\ realLane = NoOp
    /\ realLane' = op
    /\ Goto(op, "prepare")
    /\ UNCHANGED <<storeVars, gitVars, intentLane, connVars, boundVars>>

\* A new operation gets a worktree at the primary's HEAD; a recovered one keeps
\* the workspace it had.
Prepare(op) ==
    /\ task[op].pc = "prepare"
    /\ IF ws[op].exists
       THEN UNCHANGED <<ws, worktree>>
       ELSE /\ ws' = [ws EXCEPT ![op] = [exists |-> TRUE, base |-> primary,
                                         ckpt |-> primary, promoted |-> FALSE]]
            /\ worktree' = [worktree EXCEPT ![op] = [head |-> primary, dirty |-> FALSE]]
    /\ Goto(op, "machine")
    /\ UNCHANGED <<source, proj, status, machine, approvals, primary, changes,
                   ownerWork, laneVars, connVars, boundVars>>

\* The persisted machine if it is for this revision, else a new one.
StartMachine(op) ==
    /\ task[op].pc = "machine"
    /\ machine' = IF machine[op].exists /\ machine[op].rev = task[op].rev
                  THEN machine
                  ELSE [machine EXCEPT ![op] = [exists |-> TRUE, rev |-> task[op].rev,
                                                phase |-> "implementing"]]
    /\ Goto(op, "loop")
    /\ UNCHANGED <<source, proj, status, ws, approvals, gitVars, laneVars,
                   connVars, boundVars>>

\* The head of the loop: stop when cancelled or when the revision is stale.
LoopHead(op) ==
    /\ task[op].pc = "loop"
    /\ IF task[op].cancel \/ ~Current(op)
       THEN Fail(op, task)
       ELSE Goto(op, "reconcile") /\ UNCHANGED laneVars
    /\ UNCHANGED <<storeVars, gitVars, connVars, boundVars>>

\* From here to the checkpoint the implementation run may write its worktree.
Reconcile(op) ==
    /\ task[op].pc = "reconcile"
    /\ proj' = "reconciling"
    /\ SendThen(op, "impl")
    /\ worktree' = [worktree EXCEPT ![op].dirty = Sent(op)]
    /\ UNCHANGED <<source, status, ws, machine, approvals, primary, changes,
                   ownerWork, connVars, boundVars>>

\* An implementation result is accepted, with or without a question, and the
\* worktree is committed, if it changed.
Implemented(op, question, changed) ==
    /\ Working(op, "impl")
    /\ machine[op].phase = "implementing"
    /\ changed => changes < MaxChanges
    /\ worktree' = [worktree EXCEPT
           ![op] = [head |-> IF changed THEN @.head \cup {changes} ELSE @.head,
                    dirty |-> FALSE]]
    /\ changes' = IF changed THEN changes + 1 ELSE changes
    /\ task' = [task EXCEPT ![op].pc = "persistWork",
                            ![op].next = IF question THEN "askOwner" ELSE "assess"]
    /\ UNCHANGED <<storeVars, primary, ownerWork, laneVars, connVars, boundVars>>

PersistWorkEarly(op) ==
    /\ task[op].pc = "persistWork"
    /\ Goto(op, "persistPhase")
    /\ UNCHANGED <<storeVars, gitVars, laneVars, connVars, boundVars>>

PersistWork(op) ==
    /\ task[op].pc = "persistWork"
    /\ ws' = [ws EXCEPT ![op].ckpt = worktree[op].head]
    /\ Goto(op, "persistPhase")
    /\ UNCHANGED <<source, proj, status, machine, approvals, gitVars, laneVars,
                   connVars, boundVars>>

PersistPhase(op) ==
    /\ task[op].pc = "persistPhase"
    /\ machine' = [machine EXCEPT ![op].phase =
                      IF task[op].next = "askOwner" THEN "waiting" ELSE "reviewing"]
    /\ IF Sent(op)
       THEN /\ task' = [task EXCEPT ![op].pc = task[op].next, ![op].next = "none"]
            /\ UNCHANGED laneVars
       ELSE Fail(op, task)
    /\ UNCHANGED <<source, proj, status, ws, approvals, gitVars, connVars, boundVars>>

Assess(op) ==
    /\ task[op].pc = "assess"
    /\ proj' = "reviewing"
    /\ Goto(op, "review")
    /\ UNCHANGED <<source, status, ws, machine, approvals, gitVars, laneVars,
                   connVars, boundVars>>

Approval(op, role) ==
    [op |-> op, rev |-> machine[op].rev, commit |-> worktree[op].head, role |-> role]

\* persist_review: a verdict on another revision than the source's is refused.
Judged(op, role, approved, next) ==
    /\ IF ~Current(op)
       THEN Fail(op, task) /\ UNCHANGED approvals
       ELSE /\ approvals' = IF approved THEN approvals \cup {Approval(op, role)}
                            ELSE approvals
            /\ Goto(op, IF approved THEN next ELSE "findings")
            /\ UNCHANGED laneVars
    /\ UNCHANGED <<source, proj, status, ws, machine, gitVars, connVars, boundVars>>

ReviewedDecides(op, approved) ==
    Working(op, "review") /\ Judged(op, "review", approved, "approved")

\* The warm reviewer; its approval only opens a cold review.
Reviewed(op, approved) ==
    Working(op, "review") /\ Judged(op, "review", approved, "cold")

ColdReviewed(op, approved) ==
    Working(op, "cold") /\ Judged(op, "approval", approved, "approved")

\* review_completed and its persisted phase; findings start another iteration.
ReviewCompleted(op) ==
    /\ task[op].pc \in {"approved", "findings"}
    /\ machine[op].phase = "reviewing"
    /\ IF task[op].pc = "approved"
       THEN /\ machine' = [machine EXCEPT ![op].phase = "satisfied"]
            /\ Goto(op, "promote")
            /\ UNCHANGED laneVars
       ELSE /\ machine' = [machine EXCEPT ![op].phase = "implementing"]
            /\ SendThen(op, "loop")
    /\ UNCHANGED <<source, proj, status, ws, approvals, gitVars, connVars, boundVars>>

PromoteCheckSkips(op) ==
    /\ task[op].pc = "promote"
    /\ Goto(op, IF primary = ws[op].base THEN "merge" ELSE "satisfy")
    /\ UNCHANGED <<storeVars, gitVars, laneVars, connVars, boundVars>>

\* promote: the primary must still be where the worktree started.
PromoteCheck(op) ==
    /\ task[op].pc = "promote"
    /\ IF primary = ws[op].base
       THEN Goto(op, "merge") /\ UNCHANGED laneVars
       ELSE Fail(op, task)
    /\ UNCHANGED <<storeVars, gitVars, connVars, boundVars>>

MergeResets(op) ==
    /\ task[op].pc = "merge"
    /\ primary' = ws[op].ckpt
    /\ Goto(op, "persistPromoted")
    /\ UNCHANGED <<storeVars, worktree, changes, ownerWork, laneVars, connVars, boundVars>>

\* git merge --ff-only: moves the primary forward, or finds nothing to do, or
\* refuses.
Merge(op) ==
    /\ task[op].pc = "merge"
    /\ \/ /\ primary \subseteq ws[op].ckpt
          /\ primary' = ws[op].ckpt
          /\ Goto(op, "persistPromoted") /\ UNCHANGED laneVars
       \/ /\ ~(primary \subseteq ws[op].ckpt)
          /\ ws[op].ckpt \subseteq primary
          /\ Goto(op, "persistPromoted") /\ UNCHANGED <<primary, laneVars>>
       \/ /\ ~(primary \subseteq ws[op].ckpt)
          /\ ~(ws[op].ckpt \subseteq primary)
          /\ Fail(op, task) /\ UNCHANGED primary
    /\ UNCHANGED <<storeVars, worktree, changes, ownerWork, connVars, boundVars>>

PersistPromoted(op) ==
    /\ task[op].pc = "persistPromoted"
    /\ ws' = [ws EXCEPT ![op].promoted = TRUE]
    /\ Goto(op, "satisfy")
    /\ UNCHANGED <<source, proj, status, machine, approvals, gitVars, laneVars,
                   connVars, boundVars>>

Satisfy(op) ==
    /\ task[op].pc = "satisfy"
    /\ proj' = "satisfied"
    /\ SendThen(op, "complete")
    /\ UNCHANGED <<source, status, ws, machine, approvals, gitVars, connVars, boundVars>>

-----------------------------------------------------------------------------
(* The Pi runs: interactions, cancellation, failure *)

\* A blocking extension request: the operation is blocked until the owner
\* answers.
Ask(op) ==
    /\ task[op].pc \in RunPcs /\ task[op].ask = "no"
    /\ asks < MaxAsks
    /\ asks' = asks + 1
    /\ status' = [status EXCEPT ![op] = "blocked"]
    /\ IF Sent(op)
       THEN task' = [task EXCEPT ![op].ask = "waiting"] /\ UNCHANGED <<laneVars, worktree>>
       ELSE /\ Fail(op, task)
            /\ IF task[op].pc = "impl" THEN Rollback(op) ELSE UNCHANGED worktree
    /\ UNCHANGED <<source, proj, ws, machine, approvals, primary, changes,
                   ownerWork, connVars, cancels, crashes, drops>>

\* The answer reaches the agent: update_operation(Running), whatever the
\* status has become meanwhile.
ResumeRun(op) ==
    /\ task[op].pc \in RunPcs /\ task[op].ask = "answered"
    /\ status' = [status EXCEPT ![op] = "running"]
    /\ IF Sent(op)
       THEN task' = [task EXCEPT ![op].ask = "no"] /\ UNCHANGED <<laneVars, worktree>>
       ELSE /\ Fail(op, task)
            /\ IF task[op].pc = "impl" THEN Rollback(op) ELSE UNCHANGED worktree
    /\ UNCHANGED <<source, proj, ws, machine, approvals, primary, changes,
                   ownerWork, connVars, boundVars>>

RunCancelledUnlessAsking(op) ==
    /\ task[op].pc \in RunPcs
    /\ task[op].cancel /\ task[op].ask # "waiting"
    /\ Fail(op, task)
    /\ IF task[op].pc = "impl" THEN Rollback(op) ELSE UNCHANGED worktree
    /\ UNCHANGED <<storeVars, primary, changes, ownerWork, connVars, boundVars>>

\* run_pi sees the cancellation, also while it waits for the owner.
RunCancelled(op) ==
    /\ task[op].pc \in RunPcs
    /\ task[op].cancel
    /\ Fail(op, task)
    /\ IF task[op].pc = "impl" THEN Rollback(op) ELSE UNCHANGED worktree
    /\ UNCHANGED <<storeVars, primary, changes, ownerWork, connVars, boundVars>>

\* Any other error of a step that can fail: the agent, its typed result, the
\* document bundle, a fingerprint, a git command.  A failed implementation run
\* is rolled back; a failed checkpoint, or rollback, leaves the worktree dirty.
WorkFails(op) ==
    /\ \/ task[op].pc \in RunPcs /\ task[op].ask # "waiting"
       \/ task[op].pc \in {"resumed", "prepare", "loop", "promote", "merge"}
    /\ Fail(op, task)
    /\ \/ task[op].pc = "impl" /\ Rollback(op)
       \/ UNCHANGED worktree
    /\ UNCHANGED <<storeVars, primary, changes, ownerWork, connVars, boundVars>>

-----------------------------------------------------------------------------
(* The error handler of a spawned task *)

\* An operation cancelled meanwhile keeps its status.
ErrorCheck(op) ==
    /\ task[op].pc = "err"
    /\ IF status[op] = "cancelled"
       THEN Finish(op)
       ELSE Goto(op, "errBlock") /\ UNCHANGED laneVars
    /\ UNCHANGED <<storeVars, gitVars, connVars, boundVars>>

ErrorBlock(op) ==
    /\ task[op].pc = "errBlock"
    /\ proj' = "blocked"
    /\ Goto(op, "errFail")
    /\ UNCHANGED <<source, status, ws, machine, approvals, gitVars, laneVars,
                   connVars, boundVars>>

ErrorFailKeepsStatus(op) ==
    /\ task[op].pc = "errFail"
    /\ Finish(op)
    /\ UNCHANGED <<storeVars, gitVars, connVars, boundVars>>

ErrorFail(op) ==
    /\ task[op].pc = "errFail"
    /\ status' = [status EXCEPT ![op] = "failed"]
    /\ Finish(op)
    /\ UNCHANGED <<source, proj, ws, machine, approvals, gitVars, connVars, boundVars>>

-----------------------------------------------------------------------------
(* The connection loop: one request at a time, in the order received *)

Serve(pc, op, todo) == conn' = [pc |-> pc, op |-> op, todo |-> todo]
Idle == Serve("idle", NoOp, {})

\* Authenticated, inventory sent.
Connect ==
    /\ conn.pc = "down"
    /\ Serve("recover", NoOp, {})
    /\ wire' = TRUE
    /\ UNCHANGED <<storeVars, gitVars, task, laneVars, abandoned, boundVars>>

RecoverableInReview(op) ==
    /\ status[op] = "queued"
    /\ machine[op].exists /\ machine[op].phase = "reviewing" /\ source.active

RecoverableAccepted(op) ==
    status[op] \in {"accepted", "queued"} /\ machine[op].exists /\ source.active

\* What schedule_recovery selects: queued, a realization, active intent.
Recoverable(op) == status[op] = "queued" /\ machine[op].exists /\ source.active

\* schedule_recovery, its critical section: the recoverable operations are
\* accepted again.
Recover ==
    /\ conn.pc = "recover"
    /\ LET pending == {o \in Ops : Recoverable(o)}
       IN /\ status' = [o \in Ops |-> IF o \in pending THEN "accepted" ELSE status[o]]
          /\ Serve("respawn", NoOp, pending)
    /\ UNCHANGED <<source, proj, ws, machine, approvals, gitVars, task, laneVars,
                   wire, abandoned, boundVars>>

\* A task for an operation, with the connection's channel and a new
\* cancellation sender.
Spawned(op, resume) ==
    task' = [task EXCEPT ![op] = [NoTask EXCEPT !.pc = "start", !.resume = resume,
                                                !.tx = IF wire THEN "live" ELSE "dead"]]

Respawn(op) ==
    /\ conn.pc = "respawn"
    /\ op \in conn.todo
    /\ IF ws[op].exists THEN Rollback(op) ELSE UNCHANGED worktree
    /\ Spawned(op, TRUE)
    /\ Serve("respawn", NoOp, conn.todo \ {op})
    /\ UNCHANGED <<storeVars, primary, changes, ownerWork, laneVars, wire,
                   abandoned, boundVars>>

Recovered ==
    /\ conn.pc = "respawn"
    /\ conn.todo = {}
    /\ Idle
    /\ UNCHANGED <<storeVars, gitVars, task, laneVars, wire, abandoned, boundVars>>

\* The connection ends and its channel closes, or, when it ends on an error,
\* is left with a writer that outlives it.
Detach ==
    \E fate \in {"dead", "detached"} :
        task' = [o \in Ops |-> [task[o] EXCEPT
                     !.tx = IF @ = "live" THEN fate ELSE @]]

\* A rollback that fails ends the connection: the operations still to be
\* respawned stay accepted and get no task.
RespawnFails(op) ==
    /\ conn.pc = "respawn"
    /\ op \in conn.todo
    /\ drops < MaxDrops
    /\ drops' = drops + 1
    /\ abandoned' = abandoned \cup conn.todo
    /\ Serve("down", NoOp, {})
    /\ wire' = FALSE
    /\ Detach
    /\ UNCHANGED <<storeVars, gitVars, laneVars, asks, cancels, crashes>>

\* accept_intent, its critical section.  The owner's expected revision is the
\* current one, or is not given; any other is refused without effect.  Closed
\* channel: the handler returns before it spawns the task.
AcceptIntent(op) ==
    /\ conn.pc = "idle"
    /\ status[op] = "none"
    /\ status' = [status EXCEPT ![op] = "accepted"]
    /\ IF wire
       THEN Serve("spawn", op, {}) /\ UNCHANGED abandoned
       ELSE UNCHANGED conn /\ abandoned' = abandoned \cup {op}
    /\ UNCHANGED <<source, proj, ws, machine, approvals, gitVars, task, laneVars,
                   wire, boundVars>>

\* The second event of accept_intent, the cancellation sender, the task.
SpawnTask ==
    /\ conn.pc = "spawn"
    /\ IF wire
       THEN Spawned(conn.op, FALSE) /\ UNCHANGED abandoned
       ELSE UNCHANGED task /\ abandoned' = abandoned \cup {conn.op}
    /\ Idle
    /\ UNCHANGED <<storeVars, gitVars, laneVars, wire, boundVars>>

\* intent.cancel of any known operation: the watch channel first,
CancelIntent(op) ==
    /\ conn.pc = "idle"
    /\ status[op] # "none"
    /\ cancels < MaxCancels
    /\ cancels' = cancels + 1
    /\ task' = Signal({op})
    /\ Serve("cancelStore", op, {})
    /\ UNCHANGED <<storeVars, gitVars, laneVars, wire, abandoned, asks, crashes, drops>>

\* then update_operation(Cancelled), whatever the status is,
CancelStore ==
    /\ conn.pc = "cancelStore"
    /\ status' = [status EXCEPT ![conn.op] = "cancelled"]
    /\ IF wire THEN Serve("cancelProject", conn.op, {}) ELSE Idle
    /\ UNCHANGED <<source, proj, ws, machine, approvals, gitVars, task, laneVars,
                   wire, abandoned, boundVars>>

\* then the Project's status.
CancelProject ==
    /\ conn.pc = "cancelProject"
    /\ proj' = "paused"
    /\ Idle
    /\ UNCHANGED <<source, status, ws, machine, approvals, gitVars, task, laneVars,
                   wire, abandoned, boundVars>>

\* intent.answer: the first answer takes the waiting sender out of the map.
Answer(op) ==
    /\ conn.pc = "idle"
    /\ task[op].ask = "waiting"
    /\ task' = [task EXCEPT ![op].ask = "answered"]
    /\ UNCHANGED <<storeVars, gitVars, laneVars, connVars, boundVars>>

\* The writer stops on a write error while commands are still read.
WireBreaks ==
    /\ wire /\ drops < MaxDrops
    /\ drops' = drops + 1
    /\ wire' = FALSE
    /\ task' = [o \in Ops |-> [task[o] EXCEPT !.tx = IF @ = "live" THEN "dead" ELSE @]]
    /\ UNCHANGED <<storeVars, gitVars, laneVars, conn, abandoned, asks, cancels, crashes>>

\* The connection loop ends; a broken wire ends it through the heartbeat.
Disconnect ==
    /\ conn.pc = "idle"
    /\ wire => drops < MaxDrops
    /\ drops' = IF wire THEN drops + 1 ELSE drops
    /\ Serve("down", NoOp, {})
    /\ wire' = FALSE
    /\ Detach
    /\ UNCHANGED <<storeVars, gitVars, laneVars, abandoned, asks, cancels, crashes>>

\* A writer left behind by a connection stops.
DetachedWriterStops ==
    /\ \E o \in Ops : task[o].tx = "detached"
    /\ task' = [o \in Ops |-> [task[o] EXCEPT !.tx = IF @ = "detached" THEN "dead" ELSE @]]
    /\ UNCHANGED <<storeVars, gitVars, laneVars, connVars, boundVars>>

-----------------------------------------------------------------------------
(* Restart and the owner's own work *)

\* The process dies between two steps and is started again: everything
\* volatile is gone, and reconcile_interrupted decides for each interrupted
\* operation, in no particular order, before the first connection.
Restart ==
    /\ crashes < MaxCrashes
    /\ crashes' = crashes + 1
    /\ LET affected == {o \in Ops : status[o] \in {"accepted", "running"}}
       IN /\ status' = [o \in Ops |-> IF o \notin affected THEN status[o]
                                      ELSE IF Resumable(o) THEN "queued" ELSE "failed"]
          /\ machine' = [o \in Ops |-> IF o \in affected /\ Resumable(o)
                                       THEN [machine[o] EXCEPT !.phase = "implementing"]
                                       ELSE machine[o]]
          /\ \/ affected = {} /\ UNCHANGED proj
             \/ \E o \in affected :
                    proj' = IF Resumable(o) THEN "reconciling" ELSE "blocked"
    /\ task' = [o \in Ops |-> NoTask]
    /\ intentLane' = NoOp /\ realLane' = NoOp
    /\ Serve("down", NoOp, {})
    /\ wire' = FALSE
    /\ abandoned' = {}
    /\ UNCHANGED <<source, ws, approvals, gitVars, asks, cancels, drops>>

\* The owner commits to the primary checkout.
OwnerCommits ==
    /\ changes < MaxChanges
    /\ Cardinality(ownerWork) =< MaxOwnerCommits
    /\ primary' = primary \cup {changes}
    /\ ownerWork' = ownerWork \cup {changes}
    /\ changes' = changes + 1
    /\ UNCHANGED <<storeVars, worktree, task, laneVars, connVars, boundVars>>

-----------------------------------------------------------------------------
IntentStep(op) ==
    \/ Start(op) \/ TakeIntentLane(op) \/ ProposeResume(op)
    \/ SignalSuperseded(op) \/ Reply(op) \/ AskOwner(op) \/ Block(op)
    \/ Pause(op) \/ PauseSignal(op) \/ Complete(op)

RealizationStep(op) ==
    \/ TakeRealizationLane(op) \/ Prepare(op) \/ StartMachine(op)
    \/ LoopHead(op) \/ Reconcile(op) \/ PersistWork(op) \/ PersistPhase(op)
    \/ Assess(op) \/ ReviewCompleted(op) \/ PromoteCheck(op) \/ Merge(op)
    \/ PersistPromoted(op) \/ Satisfy(op)

ErrorStep(op) == ErrorCheck(op) \/ ErrorBlock(op) \/ ErrorFail(op)

\* What the program does by itself for the task of op.
TaskStep(op) ==
    IntentStep(op) \/ RealizationStep(op) \/ ErrorStep(op) \/ ResumeRun(op)

\* What depends on the agent of the task's current run, or on a failure.
AgentStep(op) ==
    \/ \E q, p \in BOOLEAN : KeepIntent(op, q, p)
    \/ \E a, q, p \in BOOLEAN : CommitIntent(op, a, q, p)
    \/ \E q, c \in BOOLEAN : Implemented(op, q, c)
    \/ \E a \in BOOLEAN : Reviewed(op, a) \/ ColdReviewed(op, a)
    \/ Ask(op) \/ WorkFails(op)

\* What the connection loop does by itself.
ConnStep ==
    Connect \/ Recover \/ Recovered \/ SpawnTask \/ CancelStore \/ CancelProject
        \/ \E op \in Ops : Respawn(op)

\* What owners, networks and crashes do.
Environment ==
    \/ \E op \in Ops : AcceptIntent(op) \/ CancelIntent(op) \/ Answer(op)
                           \/ RespawnFails(op)
    \/ WireBreaks \/ Disconnect \/ DetachedWriterStops \/ Restart \/ OwnerCommits

Next ==
    \/ \E op \in Ops : TaskStep(op) \/ RunCancelled(op) \/ AgentStep(op)
    \/ ConnStep
    \/ Environment

Spec == Init /\ [][Next]_vars

\* The scheduler runs every task and the connection loop (which reconnects by
\* itself), and a run's select is not deaf to its cancellation.  Nothing is
\* assumed of agents, owners and networks: a run may never end by itself.
Fairness ==
    /\ \A op \in Ops : WF_vars(TaskStep(op)) /\ WF_vars(RunCancelled(op))
    /\ WF_vars(ConnStep)

FairSpec == Spec /\ Fairness

-----------------------------------------------------------------------------
(* Safety *)

\* The commit c was approved by both reviewers for one revision of the source.
ApprovedBy(op, rev, c) ==
    \A role \in {"review", "approval"} :
        [op |-> op, rev |-> rev, commit |-> c, role |-> role] \in approvals

\* The primary checkout holds nothing but the owner's commits and changes of a
\* commit that the warm and the cold reviewer both approved, for one operation
\* and one revision (promotion, main.rs; fast-forward, workspace.rs), across
\* crashes, recoveries and concurrent operations.
PrimaryHoldsOnlyApprovedWork ==
    \A c \in primary \ ownerWork :
        \E a \in approvals : c \in a.commit /\ ApprovedBy(a.op, a.rev, a.commit)

\* The lanes exclude: a task is between the acquisition and the release of a
\* lane only while it holds it, and holds it nowhere else, on every error path
\* too (a realization ends with the lane still held); and while it holds
\* the intent lane its snapshot of the source cannot go stale, so the revision
\* check of the commit never refuses a proposal.
LaneHolderIsCurrent ==
    \A op \in Ops :
        /\ task[op].pc \in IntentPcs <=> intentLane = op
        /\ task[op].pc \in RealPcs => realLane = op
        /\ realLane = op => task[op].pc \in RealPcs \cup {"askOwner", "block", "complete"}
        /\ intentLane = op => /\ task[op].rev = source.rev
                              /\ task[op].active = source.active

\* Every iteration, a recovered operation's first one included, starts from a
\* clean worktree at the last persisted checkpoint, with a machine that expects
\* an implementation: nothing uncommitted survives into it, and no iteration
\* starts from a commit the store does not know.
IterationStartsAtCheckpoint ==
    \A op \in Ops : task[op].pc \in {"loop", "reconcile"} =>
        /\ worktree[op] = [head |-> ws[op].ckpt, dirty |-> FALSE]
        /\ ws[op].base \subseteq ws[op].ckpt
        /\ machine[op].exists /\ machine[op].phase = "implementing"

\* What the reviewers judge and what is merged is the persisted checkpoint, and
\* an operation that goes to promotion carries both approvals of exactly that
\* commit for its machine's revision.
MergesWhatWasReviewed ==
    \A op \in Ops :
        /\ task[op].pc \in ReviewPcs \cup {"promote", "merge"} =>
               worktree[op] = [head |-> ws[op].ckpt, dirty |-> FALSE]
        /\ task[op].pc \in {"approved", "promote", "merge"} =>
               ApprovedBy(op, machine[op].rev, ws[op].ckpt)

\* An operation never gets a second task: while one works for it, it is neither
\* unknown nor queued for recovery, and the connection loop is not about to
\* spawn it, however reconnections, restarts and tasks interleave.
OneTaskPerOperation ==
    \A op \in Ops :
        LET handedOver == op \in conn.todo \/ (conn.pc = "spawn" /\ conn.op = op)
        IN /\ task[op].pc # "none" => ~handedOver
           /\ handedOver \/ task[op].pc # "none" => status[op] \notin {"none", "queued"}

\* An operation shown as accepted or running has a task working on it, is being
\* handed over by the connection loop, or had its hand-over cut short by a lost
\* connection: no error path and no restart leaves one behind.
InFlightHasTask ==
    \A op \in Ops : status[op] \in {"accepted", "running"} =>
        \/ task[op].pc # "none"
        \/ op \in abandoned \cup conn.todo
        \/ conn.pc = "spawn" /\ conn.op = op

\* An operation that got a workspace completes only when its checkpoint is in
\* the primary checkout and recorded as promoted.
CompletedIsPromoted ==
    \A op \in Ops : status[op] = "completed" /\ ws[op].exists =>
        ws[op].promoted /\ ws[op].ckpt \subseteq primary

\* No step, whatever the owner commits between a promotion's check and its
\* merge, takes a commit out of the primary checkout.
PrimaryNeverLosesWork == [][primary \subseteq primary']_vars

\* No step, recovery and rollback included, replaces a checkpoint by one that
\* lacks part of it.
CheckpointNeverLost == [][\A op \in Ops : ws[op].ckpt \subseteq ws'[op].ckpt]_vars

-----------------------------------------------------------------------------
(* Refinement *)

Ledger == INSTANCE RealizationLedger
              WITH Ops <- Ops, source <- source, approvals <- approvals,
                   primary <- primary, ownerWork <- ownerWork

\* The operations implement the promise of RealizationLedger: only persisted
\* reviews of the current revision approve, only a doubly approved commit is
\* promoted, and only forward (persist_review, main.rs; promote, workspace.rs).
ImplementsLedger == Ledger!Spec

-----------------------------------------------------------------------------
(* Liveness, under FairSpec *)

\* An operation that a restart queued for recovery is handed to a task again
\* (schedule_recovery after the next connection).
QueuedIsResumed == \A op \in Ops : status[op] = "queued" ~> status[op] # "queued"

\* A signalled realization lets go of the lane, whatever its agent does, also
\* when it waits for an answer the owner never gives.
CancelledReleasesLane ==
    \A op \in Ops : realLane = op /\ task[op].cancel ~> realLane # op

-----------------------------------------------------------------------------
(* What the design says and the code does not do *)

\* op's merge moves the primary checkout.
Promotes(op) ==
    task[op].pc = "merge" /\ task'[op].pc = "persistPromoted" /\ primary' # primary

\* docs/design/16-intent-orchestration.md: results of an older revision are not
\* promoted.
StaleNeverPromoted == [][\A op \in Ops : Promotes(op) => Current(op)]_vars

\* docs/design/16-intent-orchestration.md: a cancelled operation does not touch
\* the primary checkout.
CancelledNeverTouchesPrimary ==
    [][\A op \in Ops : Promotes(op) => status[op] # "cancelled"]_vars

\* docs/design/18-slice-standalone.md: losing the Hub does not stop an accepted
\* operation; in particular one whose work is already promoted does not fail.
PromotedDoesNotFail == \A op \in Ops : ws[op].promoted => status[op] # "failed"

\* docs/design/16-intent-orchestration.md: a restart does not repeat changes; in
\* particular it does not implement again what was approved and merged.
MergedIsNotRepeated ==
    \A op \in Ops : task[op].pc = "impl" =>
        ~(/\ ws[op].base # ws[op].ckpt /\ ws[op].ckpt \subseteq primary
          /\ ApprovedBy(op, source.rev, ws[op].ckpt))

\* docs/design/16-intent-orchestration.md: when intent changes, pending work on
\* an older revision is cancelled: once a commit's signals are out, each
\* realization of another revision has its cancellation.
OlderWorkIsSuperseded ==
    \A op \in Ops : task[op].pc \in RunPcs \cap RealPcs /\ ~Current(op) =>
        task[op].cancel \/ \E other \in Ops : task[other].pc = "supersede"

=============================================================================
