-------------------------- MODULE SpokeSafety_proofs --------------------------
(***************************************************************************)
(* The safety invariants of SpokeOperations hold for any number of         *)
(* operations and any bounds.  Three inductive invariants: an operation    *)
(* has one task (OneTaskPerOperation), the lanes exclude (Lanes), and no   *)
(* operation in flight is left without a task (Accounted).                 *)
(***************************************************************************)
EXTENDS SpokeOperations_proofs

-----------------------------------------------------------------------------
(* The frame of a task's step *)

\* What every task of an operation does by itself or through its agent.
OpStep(op) == TaskStep(op) \/ RunCancelled(op) \/ AgentStep(op)

\* t leaves the control of the task of o alone (not its cancellation).
SameControl(o, t) ==
    /\ t[o].pc = task[o].pc /\ t[o].next = task[o].next
    /\ t[o].rev = task[o].rev /\ t[o].active = task[o].active
    /\ t[o].resume = task[o].resume

\* The task and the lanes of the other operations stay as they are.
TaskFrame(op) ==
    \A o \in Ops \ {op} :
        /\ SameControl(o, task')
        /\ intentLane' = o <=> intentLane = o
        /\ realLane' = o <=> realLane = o

\* The task of op has let go of everything.
Released(op) == intentLane' # op /\ realLane' # op

LEMMA GotoFrame ==
    ASSUME TypeOK, NEW op \in Ops, NEW l, Goto(op, l)
    PROVE  /\ task'[op].pc = l /\ task'[op].next = task[op].next
           /\ task'[op].rev = task[op].rev /\ task'[op].active = task[op].active
           /\ task'[op].resume = task[op].resume
           /\ \A o \in Ops \ {op} : SameControl(o, task')
BY DEF TypeOK, ProcessTypes, Task, Goto, SameControl

LEMMA FailFrame ==
    ASSUME TypeOK, NEW op \in Ops, NEW t \in [Ops -> Task],
           \A o \in Ops : SameControl(o, t), Fail(op, t)
    PROVE  TaskFrame(op) /\ task'[op].pc = "err" /\ Released(op)
<1>1. task'[op].pc = "err" /\ \A o \in Ops \ {op} : SameControl(o, task')
    BY DEF Fail, Task, SameControl
<1>2. /\ intentLane' = IF intentLane = op THEN NoOp ELSE intentLane
      /\ realLane' = IF realLane = op THEN NoOp ELSE realLane
    BY DEF Fail, ReleaseLanes
<1> QED
    BY <1>1, <1>2, OpsAssumption DEF TaskFrame, Released

LEMMA SameTask == \A o \in Ops : SameControl(o, task)
BY DEF SameControl

LEMMA SignalFrame ==
    ASSUME TypeOK, NEW S
    PROVE  \A o \in Ops : SameControl(o, Signal(S))
BY DEF TypeOK, ProcessTypes, Task, Signal, SameControl

LEMMA FinishFrame ==
    ASSUME TypeOK, NEW op \in Ops, Finish(op)
    PROVE  TaskFrame(op) /\ task'[op].pc = "none" /\ Released(op)
<1>1. task'[op].pc = "none" /\ \A o \in Ops \ {op} : SameControl(o, task')
    BY DEF TypeOK, ProcessTypes, Finish, NoTask, SameControl
<1>2. /\ intentLane' = IF intentLane = op THEN NoOp ELSE intentLane
      /\ realLane' = IF realLane = op THEN NoOp ELSE realLane
    BY DEF Finish, ReleaseLanes
<1> QED
    BY <1>1, <1>2, OpsAssumption DEF TaskFrame, Released

LEMMA SendThenFrame ==
    ASSUME TypeOK, NEW op \in Ops, NEW l, SendThen(op, l)
    PROVE  /\ TaskFrame(op)
           /\ \/ /\ task'[op].pc = l /\ task'[op].next = task[op].next
                 /\ task'[op].resume = task[op].resume /\ UNCHANGED laneVars
              \/ task'[op].pc = "err" /\ Released(op)
<1>1. CASE Sent(op)
    BY <1>1, GotoFrame DEF SendThen, laneVars, TaskFrame
<1>2. CASE ~Sent(op)
    BY <1>2, SameTask, FailFrame DEF SendThen, TypeOK, ProcessTypes
<1> QED
    BY <1>1, <1>2

-----------------------------------------------------------------------------
(* The lanes *)

\* Where a realization that ends still holds its lane.
EndPcs == {"askOwner", "block", "complete"}

\* LaneHolderIsCurrent for one operation, with where its task goes when it
\* leaves a reply (not into a lane) and an outcome.
LaneAt(op) ==
    /\ task[op].pc \in IntentPcs <=> intentLane = op
    /\ task[op].pc \in RealPcs => realLane = op
    /\ realLane = op => task[op].pc \in RealPcs \cup EndPcs
    /\ intentLane = op => task[op].rev = source.rev /\ task[op].active = source.active
    /\ task[op].pc \in {"supersede", "reply"} =>
           task[op].next \in {"askOwner", "block", "pause", "wait"}
    /\ task[op].pc \in {"persistWork", "persistPhase"} =>
           task[op].next \in {"askOwner", "assess"}

Lanes == \A op \in Ops : LaneAt(op)

\* A step that fails or ends, whatever else it does, leaves op outside.
LEMMA ReleasedLane ==
    ASSUME NEW op \in Ops, task'[op].pc \in {"none", "err"}, Released(op)
    PROVE  LaneAt(op)'
BY DEF Released, LaneAt, IntentPcs, RealPcs, ReviewPcs, PromotePcs

\* A step of op's task within the realization, or outside the lanes, that
\* leaves the lanes, the source and the rest of the task alone.
LEMMA MovedLane ==
    ASSUME NEW op \in Ops, LaneAt(op),
           task[op].pc \notin IntentPcs, task'[op].pc \notin IntentPcs,
           UNCHANGED laneVars,
           task'[op].pc \in RealPcs => realLane = op,
           realLane = op => task'[op].pc \in RealPcs \cup EndPcs,
           task'[op].pc \in {"persistWork", "persistPhase"} =>
               task'[op].next \in {"askOwner", "assess"}
    PROVE  LaneAt(op)'
BY DEF LaneAt, laneVars, IntentPcs

LEMMA IntentStepLanes ==
    ASSUME TypeOK, Lanes, NEW op \in Ops, IntentStep(op)
    PROVE  TaskFrame(op) /\ LaneAt(op)'
<1> USE DEF storeVars, laneVars
<1>1. CASE Start(op)
    BY <1>1, SendThenFrame, ReleasedLane, MovedLane
       DEF Start, Lanes, LaneAt, IntentPcs, RealPcs, ReviewPcs, PromotePcs, EndPcs
<1>2. CASE TakeIntentLane(op)
    <2>1. /\ task'[op].pc \in {"intent", "resumed"}
          /\ task'[op].rev = source.rev /\ task'[op].active = source.active
          /\ \A o \in Ops \ {op} : SameControl(o, task')
        BY <1>2 DEF TakeIntentLane, SameControl, TypeOK, ProcessTypes, Task
    <2>2. TaskFrame(op)
        BY <1>2, <2>1, OpsAssumption DEF TakeIntentLane, TaskFrame
    <2>3. LaneAt(op)'
        BY <1>2, <2>1
           DEF TakeIntentLane, Lanes, LaneAt, IntentPcs, RealPcs, ReviewPcs, PromotePcs, EndPcs
    <2> QED
        BY <2>2, <2>3
<1>3. CASE ProposeResume(op)
    <2>1. /\ task'[op].pc = "reply" /\ task'[op].next \in {"askOwner", "block", "pause", "wait"}
          /\ task'[op].rev = task[op].rev /\ task'[op].active = task[op].active
          /\ \A o \in Ops \ {op} : SameControl(o, task')
        BY <1>3 DEF ProposeResume, After, SameControl, TypeOK, ProcessTypes, Task
    <2> QED
        BY <1>3, <2>1 DEF ProposeResume, TaskFrame, Lanes, LaneAt, IntentPcs, RealPcs,
                          ReviewPcs, PromotePcs, EndPcs
<1>4. CASE SignalSuperseded(op)
    <2> DEFINE t == Signal(task[op].sup)
    <2>1. t \in [Ops -> Task] /\ \A o \in Ops : SameControl(o, t)
        BY SignalTypes, SignalFrame DEF TypeOK, ProcessTypes, TaskTypes
    <2> HIDE DEF t
    <2>2. CASE Sent(op)
        <3>1. task' = [t EXCEPT ![op] = [t[op] EXCEPT !.pc = "reply", !.sup = {}]]
            BY <1>4, <2>2 DEF SignalSuperseded, t
        <3>2. /\ task'[op].pc = "reply" /\ task'[op].next = task[op].next
              /\ task'[op].rev = task[op].rev /\ task'[op].active = task[op].active
              /\ \A o \in Ops \ {op} : SameControl(o, task')
            BY <2>1, <3>1 DEF SameControl, Task
        <3>3. UNCHANGED <<intentLane, realLane, source>> /\ task[op].pc = "supersede"
            BY <1>4, <2>2 DEF SignalSuperseded
        <3> QED
            BY <3>2, <3>3 DEF TaskFrame, Lanes, LaneAt, IntentPcs, RealPcs,
                              ReviewPcs, PromotePcs, EndPcs
    <2>3. CASE ~Sent(op)
        <3>1. Fail(op, t)
            BY <1>4, <2>3 DEF SignalSuperseded, t
        <3> QED
            BY <2>1, <3>1, FailFrame, ReleasedLane
    <2> QED
        BY <2>2, <2>3
<1>5. CASE Reply(op)
    <2>1. CASE Sent(op)
        <3>1. /\ task'[op].pc = task[op].next
              /\ \A o \in Ops \ {op} : SameControl(o, task')
              /\ task[op].pc = "reply" /\ intentLane' = NoOp /\ realLane' = realLane
            BY <1>5, <2>1 DEF Reply, SameControl, TypeOK, ProcessTypes, Task
        <3>2. intentLane = op /\ realLane # op /\ task'[op].pc \in {"askOwner", "block", "pause", "wait"}
            BY <3>1 DEF Lanes, LaneAt, IntentPcs, RealPcs, ReviewPcs, PromotePcs, EndPcs
        <3>3. TaskFrame(op)
            BY <3>1, <3>2, OpsAssumption DEF TaskFrame
        <3>4. LaneAt(op)'
            BY <3>1, <3>2, OpsAssumption
               DEF LaneAt, IntentPcs, RealPcs, ReviewPcs, PromotePcs, EndPcs
        <3> QED
            BY <3>3, <3>4
    <2>2. CASE ~Sent(op)
        BY <1>5, <2>2, SameTask, FailFrame, ReleasedLane DEF Reply, TypeOK, ProcessTypes
    <2> QED
        BY <2>1, <2>2
<1>6. CASE AskOwner(op)
    <2>1. task[op].pc = "askOwner" /\ task'[op].pc = "block" /\ UNCHANGED laneVars
          /\ TaskFrame(op)
        BY <1>6, GotoFrame DEF AskOwner, TaskFrame
    <2> QED
        BY <2>1, MovedLane DEF Lanes, IntentPcs, RealPcs, ReviewPcs, PromotePcs, EndPcs
<1>7. CASE Block(op)
    BY <1>7, SameTask, FinishFrame, FailFrame, ReleasedLane DEF Block, TypeOK, ProcessTypes
<1>8. CASE Pause(op)
    <2>1. /\ task[op].pc = "pause" /\ task'[op].pc = "pauseSignal" /\ UNCHANGED laneVars
          /\ \A o \in Ops \ {op} : SameControl(o, task')
        BY <1>8 DEF Pause, SameControl, TypeOK, ProcessTypes, Task
    <2>2. realLane # op
        BY <2>1 DEF Lanes, LaneAt, RealPcs, ReviewPcs, PromotePcs, EndPcs
    <2> QED
        BY <2>1, <2>2, MovedLane
           DEF TaskFrame, Lanes, IntentPcs, RealPcs, ReviewPcs, PromotePcs, EndPcs
<1>9. CASE PauseSignal(op)
    <2> DEFINE t == Signal(task[op].sup)
    <2>1. t \in [Ops -> Task] /\ \A o \in Ops : SameControl(o, t)
        BY SignalTypes, SignalFrame DEF TypeOK, ProcessTypes, TaskTypes
    <2>2. task' = [t EXCEPT ![op] = [t[op] EXCEPT !.pc = "complete", !.sup = {}]]
        BY <1>9 DEF PauseSignal
    <2>3. task[op].pc = "pauseSignal" /\ UNCHANGED laneVars
        BY <1>9 DEF PauseSignal
    <2> HIDE DEF t
    <2>4. task'[op].pc = "complete" /\ \A o \in Ops \ {op} : SameControl(o, task')
        BY <2>1, <2>2 DEF SameControl, Task
    <2> QED
        BY <2>3, <2>4, MovedLane
           DEF TaskFrame, Lanes, IntentPcs, RealPcs, ReviewPcs, PromotePcs, EndPcs
<1>10. CASE Complete(op)
    BY <1>10, SameTask, FinishFrame, FailFrame, ReleasedLane DEF Complete, TypeOK, ProcessTypes
<1> QED
    BY <1>1, <1>2, <1>3, <1>4, <1>5, <1>6, <1>7, <1>8, <1>9, <1>10 DEF IntentStep

LEMMA RealizationStepLanes ==
    ASSUME TypeOK, Lanes, NEW op \in Ops, RealizationStep(op)
    PROVE  TaskFrame(op) /\ LaneAt(op)'
<1> USE DEF storeVars, laneVars
<1> USE DEF Lanes, TaskFrame, IntentPcs, RealPcs, ReviewPcs, PromotePcs, EndPcs
<1>1. CASE TakeRealizationLane(op)
    <2>1. /\ task[op].pc = "wait" /\ task'[op].pc = "prepare"
          /\ realLane = NoOp /\ realLane' = op /\ UNCHANGED <<intentLane, source>>
          /\ \A o \in Ops \ {op} : SameControl(o, task')
        BY <1>1, GotoFrame DEF TakeRealizationLane
    <2>2. TaskFrame(op)
        BY <2>1, OpsAssumption
    <2> QED
        BY <2>1, <2>2, OpsAssumption DEF LaneAt
<1>2. CASE Prepare(op)
    BY <1>2, GotoFrame, MovedLane DEF Prepare, LaneAt
<1>3. CASE StartMachine(op)
    BY <1>3, GotoFrame, MovedLane DEF StartMachine, LaneAt
<1>4. CASE LoopHead(op)
    <2>1. CASE Fail(op, task)
        BY <2>1, SameTask, FailFrame, ReleasedLane DEF TypeOK, ProcessTypes
    <2>2. CASE Goto(op, "reconcile") /\ UNCHANGED laneVars
        BY <1>4, <2>2, GotoFrame, MovedLane DEF LoopHead, LaneAt
    <2> QED
        BY <1>4, <2>1, <2>2 DEF LoopHead
<1>5. CASE Reconcile(op)
    BY <1>5, SendThenFrame, ReleasedLane, MovedLane DEF Reconcile, LaneAt
<1>6. CASE PersistWork(op)
    BY <1>6, GotoFrame, MovedLane DEF PersistWork, LaneAt
<1>7. CASE PersistPhase(op)
    <2>1. CASE Sent(op)
        <3>1. /\ task'[op].pc = task[op].next /\ UNCHANGED laneVars
              /\ \A o \in Ops \ {op} : SameControl(o, task')
              /\ task[op].pc = "persistPhase"
            BY <1>7, <2>1 DEF PersistPhase, SameControl, TypeOK, ProcessTypes, Task
        <3> QED
            BY <3>1, MovedLane DEF LaneAt
    <2>2. CASE ~Sent(op)
        BY <1>7, <2>2, SameTask, FailFrame, ReleasedLane DEF PersistPhase, TypeOK, ProcessTypes
    <2> QED
        BY <2>1, <2>2
<1>8. CASE Assess(op)
    BY <1>8, GotoFrame, MovedLane DEF Assess, LaneAt
<1>9. CASE ReviewCompleted(op)
    <2>1. CASE Goto(op, "promote") /\ UNCHANGED laneVars
        BY <1>9, <2>1, GotoFrame, MovedLane DEF ReviewCompleted, LaneAt
    <2>2. CASE SendThen(op, "loop")
        BY <1>9, <2>2, SendThenFrame, ReleasedLane, MovedLane DEF ReviewCompleted, LaneAt
    <2> QED
        BY <1>9, <2>1, <2>2 DEF ReviewCompleted
<1>10. CASE PromoteCheck(op)
    <2>1. CASE Fail(op, task)
        BY <2>1, SameTask, FailFrame, ReleasedLane DEF TypeOK, ProcessTypes
    <2>2. CASE Goto(op, "merge") /\ UNCHANGED laneVars
        BY <1>10, <2>2, GotoFrame, MovedLane DEF PromoteCheck, LaneAt
    <2> QED
        BY <1>10, <2>1, <2>2 DEF PromoteCheck
<1>11. CASE Merge(op)
    <2>1. CASE Fail(op, task)
        BY <2>1, SameTask, FailFrame, ReleasedLane DEF TypeOK, ProcessTypes
    <2>2. CASE Goto(op, "persistPromoted") /\ UNCHANGED laneVars
        BY <1>11, <2>2, GotoFrame, MovedLane DEF Merge, LaneAt
    <2> QED
        BY <1>11, <2>1, <2>2 DEF Merge
<1>12. CASE PersistPromoted(op)
    BY <1>12, GotoFrame, MovedLane DEF PersistPromoted, LaneAt
<1>13. CASE Satisfy(op)
    BY <1>13, SendThenFrame, ReleasedLane, MovedLane DEF Satisfy, LaneAt
<1> QED
    BY <1>1, <1>2, <1>3, <1>4, <1>5, <1>6, <1>7, <1>8, <1>9, <1>10, <1>11, <1>12, <1>13
       DEF RealizationStep

LEMMA ErrorStepLanes ==
    ASSUME TypeOK, Lanes, NEW op \in Ops, ErrorStep(op)
    PROVE  TaskFrame(op) /\ LaneAt(op)'
<1> USE DEF laneVars
<1>1. CASE ErrorCheck(op)
    <2>1. CASE Finish(op)
        BY <2>1, FinishFrame, ReleasedLane
    <2>2. CASE Goto(op, "errBlock") /\ UNCHANGED laneVars
        BY <1>1, <2>2, GotoFrame, MovedLane
           DEF ErrorCheck, Lanes, LaneAt, TaskFrame, IntentPcs, RealPcs, ReviewPcs,
               PromotePcs, EndPcs
    <2> QED
        BY <1>1, <2>1, <2>2 DEF ErrorCheck
<1>2. CASE ErrorBlock(op)
    BY <1>2, GotoFrame, MovedLane
       DEF ErrorBlock, Lanes, LaneAt, TaskFrame, IntentPcs, RealPcs, ReviewPcs,
           PromotePcs, EndPcs
<1>3. CASE ErrorFail(op)
    BY <1>3, FinishFrame, ReleasedLane DEF ErrorFail
<1> QED
    BY <1>1, <1>2, <1>3 DEF ErrorStep

LEMMA RunStepLanes ==
    ASSUME TypeOK, Lanes, NEW op \in Ops,
           ResumeRun(op) \/ Ask(op) \/ RunCancelled(op) \/ WorkFails(op)
    PROVE  TaskFrame(op) /\ LaneAt(op)'
<1>1. CASE Fail(op, task)
    BY <1>1, SameTask, FailFrame, ReleasedLane DEF TypeOK, ProcessTypes
<1>2. ASSUME NEW a \in {"no", "waiting"}, task' = [task EXCEPT ![op].ask = a],
             UNCHANGED laneVars, UNCHANGED source
      PROVE  TaskFrame(op) /\ LaneAt(op)'
    <2>1. \A o \in Ops : SameControl(o, task')
        BY <1>2 DEF SameControl, TypeOK, ProcessTypes, Task
    <2> QED
        BY <1>2, <2>1 DEF SameControl, TaskFrame, Lanes, LaneAt, laneVars
<1>3. CASE ResumeRun(op)
    BY <1>1, <1>2, <1>3 DEF ResumeRun
<1>4. CASE Ask(op)
    BY <1>1, <1>2, <1>4 DEF Ask
<1> QED
    BY <1>1, <1>3, <1>4 DEF RunCancelled, WorkFails

LEMMA AgentStepLanes ==
    ASSUME TypeOK, Lanes, NEW op \in Ops, AgentStep(op)
    PROVE  /\ TaskFrame(op) /\ LaneAt(op)'
           /\ source' = source \/ intentLane = op
<1> USE DEF storeVars, laneVars
<1>1. ASSUME NEW q \in BOOLEAN, NEW p \in BOOLEAN, KeepIntent(op, q, p)
      PROVE  TaskFrame(op) /\ LaneAt(op)' /\ source' = source
    <2>1. /\ task'[op].pc = "reply" /\ task'[op].next \in {"askOwner", "block", "pause", "wait"}
          /\ task'[op].rev = task[op].rev /\ task'[op].active = task[op].active
          /\ \A o \in Ops \ {op} : SameControl(o, task')
        BY <1>1 DEF KeepIntent, After, SameControl, TypeOK, ProcessTypes, Task
    <2> QED
        BY <1>1, <2>1 DEF KeepIntent, Working, TaskFrame, Lanes, LaneAt, IntentPcs, RealPcs,
                          ReviewPcs, PromotePcs, EndPcs
<1>2. ASSUME NEW a \in BOOLEAN, NEW q \in BOOLEAN, NEW p \in BOOLEAN,
             CommitIntent(op, a, q, p)
      PROVE  TaskFrame(op) /\ LaneAt(op)' /\ intentLane = op
    <2>1. intentLane = op /\ realLane # op
        BY <1>2 DEF CommitIntent, Working, Lanes, LaneAt, IntentPcs, RealPcs,
                    ReviewPcs, PromotePcs, EndPcs
    <2>2. CASE Fail(op, task)
        BY <2>1, <2>2, SameTask, FailFrame, ReleasedLane DEF TypeOK, ProcessTypes
    <2>3. CASE source.rev = task[op].rev
        <3> DEFINE S == {o \in Ops \ {op} : status[o] \in {"accepted", "running"}}
        <3>1. /\ task' = [task EXCEPT ![op].pc = "supersede", ![op].rev = source.rev + 1,
                              ![op].active = a, ![op].sup = S, ![op].next = After(q, p, a)]
              /\ source' = [rev |-> source.rev + 1, active |-> a]
              /\ UNCHANGED laneVars
            BY <1>2, <2>3 DEF CommitIntent
        <3> HIDE DEF S
        <3>2. /\ task'[op].pc = "supersede"
              /\ task'[op].next \in {"askOwner", "block", "pause", "wait"}
              /\ task'[op].rev = source'.rev /\ task'[op].active = source'.active
              /\ \A o \in Ops \ {op} : SameControl(o, task')
            BY <3>1 DEF After, SameControl, TypeOK, ProcessTypes, Task
        <3> QED
            BY <2>1, <3>1, <3>2 DEF TaskFrame, LaneAt, IntentPcs, RealPcs, ReviewPcs,
                                    PromotePcs, EndPcs
    <2> QED
        BY <1>2, <2>1, <2>2, <2>3 DEF CommitIntent
<1>3. ASSUME NEW q \in BOOLEAN, NEW c \in BOOLEAN, Implemented(op, q, c)
      PROVE  TaskFrame(op) /\ LaneAt(op)' /\ source' = source
    <2>1. /\ task'[op].pc = "persistWork" /\ task'[op].next \in {"askOwner", "assess"}
          /\ \A o \in Ops \ {op} : SameControl(o, task')
          /\ task[op].pc = "impl" /\ UNCHANGED laneVars /\ UNCHANGED source
        BY <1>3 DEF Implemented, Working, SameControl, TypeOK, ProcessTypes, Task
    <2> QED
        BY <2>1, MovedLane DEF TaskFrame, Lanes, LaneAt, IntentPcs, RealPcs, ReviewPcs,
                               PromotePcs, EndPcs
<1>4. ASSUME NEW role, NEW a \in BOOLEAN, NEW l \in {"cold", "approved"},
             task[op].pc \in {"review", "cold"}, Judged(op, role, a, l)
      PROVE  TaskFrame(op) /\ LaneAt(op)' /\ source' = source
    <2>1. CASE Fail(op, task)
        BY <1>4, <2>1, SameTask, FailFrame, ReleasedLane DEF Judged, TypeOK, ProcessTypes
    <2>2. ASSUME NEW m \in {l, "findings"}, Goto(op, m), UNCHANGED laneVars
          PROVE  TaskFrame(op) /\ LaneAt(op)'
        BY <1>4, <2>2, GotoFrame, MovedLane
           DEF TaskFrame, Lanes, LaneAt, IntentPcs, RealPcs, ReviewPcs, PromotePcs, EndPcs
    <2> QED
        BY <1>4, <2>1, <2>2 DEF Judged
<1>5. ASSUME NEW a \in BOOLEAN, Reviewed(op, a) \/ ColdReviewed(op, a)
      PROVE  TaskFrame(op) /\ LaneAt(op)' /\ source' = source
    BY <1>4, <1>5 DEF Reviewed, ColdReviewed, Working
<1>6. CASE Ask(op) \/ WorkFails(op)
    BY <1>6, RunStepLanes DEF Ask, WorkFails
<1> QED
    BY <1>1, <1>2, <1>3, <1>5, <1>6 DEF AgentStep

\* What a step of op's task means for the lanes and for the other operations.
LEMMA OpStepLanes ==
    ASSUME TypeOK, Lanes, NEW op \in Ops, OpStep(op)
    PROVE  /\ TaskFrame(op) /\ LaneAt(op)'
           /\ source' = source \/ intentLane = op
<1>1. CASE IntentStep(op)
    BY <1>1, IntentStepLanes
       DEF IntentStep, Start, TakeIntentLane, ProposeResume, SignalSuperseded, Reply, AskOwner,
           Block, Pause, PauseSignal, Complete, storeVars
<1>2. CASE RealizationStep(op)
    BY <1>2, RealizationStepLanes
       DEF RealizationStep, TakeRealizationLane, Prepare, StartMachine, LoopHead, Reconcile,
           PersistWork, PersistPhase, Assess, ReviewCompleted, PromoteCheck, Merge,
           PersistPromoted, Satisfy, storeVars
<1>3. CASE ErrorStep(op)
    BY <1>3, ErrorStepLanes DEF ErrorStep, ErrorCheck, ErrorBlock, ErrorFail, storeVars
<1>4. CASE ResumeRun(op) \/ RunCancelled(op)
    BY <1>4, RunStepLanes DEF ResumeRun, RunCancelled, storeVars
<1>5. CASE AgentStep(op)
    BY <1>5, AgentStepLanes
<1> QED
    BY <1>1, <1>2, <1>3, <1>4, <1>5 DEF OpStep, TaskStep

LEMMA OpStepKeepsLanes ==
    ASSUME TypeOK, Lanes, NEW op \in Ops, OpStep(op)
    PROVE  Lanes'
<1>1. ASSUME NEW o \in Ops \ {op} PROVE LaneAt(o)'
    BY <1>1, OpStepLanes DEF TaskFrame, SameControl, Lanes, LaneAt
<1> QED
    BY <1>1, OpStepLanes DEF Lanes

-----------------------------------------------------------------------------
(* One task per operation *)

\* A step of op's task is one of an existing task; it hands nothing over, and
\* makes no operation unknown or queued.
LEMMA OpStepStatus ==
    ASSUME TypeOK, NEW op \in Ops, OpStep(op)
    PROVE  /\ task[op].pc # "none" /\ conn' = conn
           /\ \A o \in Ops : \/ status'[o] = status[o]
                             \/ status'[o] \notin {"none", "queued"}
<1> USE DEF TypeOK, StoreTypes, storeVars, connVars, Working, IntentPcs, RealPcs, ReviewPcs,
            PromotePcs, RunPcs
<1>1. CASE IntentStep(op)
    BY <1>1 DEF IntentStep, Start, TakeIntentLane, ProposeResume, SignalSuperseded, Reply,
                AskOwner, Block, Pause, PauseSignal, Complete
<1>2. CASE RealizationStep(op)
    BY <1>2 DEF RealizationStep, TakeRealizationLane, Prepare, StartMachine, LoopHead, Reconcile,
                PersistWork, PersistPhase, Assess, ReviewCompleted, PromoteCheck, Merge,
                PersistPromoted, Satisfy
<1>3. CASE ErrorStep(op)
    BY <1>3 DEF ErrorStep, ErrorCheck, ErrorBlock, ErrorFail
<1>4. CASE Ask(op)
    BY <1>4 DEF Ask
<1>5. CASE ResumeRun(op)
    BY <1>5 DEF ResumeRun
<1>6. CASE RunCancelled(op) \/ WorkFails(op)
    BY <1>6 DEF RunCancelled, WorkFails
<1>7. ASSUME NEW q \in BOOLEAN, NEW p \in BOOLEAN, KeepIntent(op, q, p)
      PROVE  task[op].pc # "none" /\ conn' = conn /\ status' = status
    BY <1>7 DEF KeepIntent
<1>8. ASSUME NEW a \in BOOLEAN, NEW q \in BOOLEAN, NEW p \in BOOLEAN,
             CommitIntent(op, a, q, p)
      PROVE  /\ task[op].pc # "none" /\ conn' = conn
             /\ \A o \in Ops : status'[o] = status[o] \/ status'[o] = "cancelled"
    BY <1>8 DEF CommitIntent
<1>9. ASSUME NEW q \in BOOLEAN, NEW c \in BOOLEAN, Implemented(op, q, c)
      PROVE  task[op].pc # "none" /\ conn' = conn /\ status' = status
    BY <1>9 DEF Implemented
<1>10. ASSUME NEW a \in BOOLEAN, Reviewed(op, a) \/ ColdReviewed(op, a)
      PROVE  task[op].pc # "none" /\ conn' = conn /\ status' = status
    BY <1>10 DEF Reviewed, ColdReviewed, Judged
<1> QED
    BY <1>1, <1>2, <1>3, <1>4, <1>5, <1>6, <1>7, <1>8, <1>9, <1>10
       DEF OpStep, TaskStep, AgentStep

\* The connection loop is about to spawn a task for o.
HandedOver(o) == o \in conn.todo \/ (conn.pc = "spawn" /\ conn.op = o)

OneTaskAt(o) ==
    /\ task[o].pc # "none" => ~HandedOver(o)
    /\ HandedOver(o) \/ task[o].pc # "none" => status[o] \notin {"none", "queued"}

LEMMA OneTaskDef == OneTaskPerOperation <=> \A o \in Ops : OneTaskAt(o)
BY DEF OneTaskPerOperation, OneTaskAt, HandedOver

LEMMA OpStepOneTask ==
    ASSUME TypeOK, Lanes, OneTaskPerOperation, NEW op \in Ops, OpStep(op)
    PROVE  OneTaskPerOperation'
<1>1. ASSUME NEW o \in Ops PROVE OneTaskAt(o)'
    <2>1. OneTaskAt(o) /\ OneTaskAt(op)
        BY OneTaskDef
    <2>2. conn' = conn /\ task[op].pc # "none"
          /\ (status'[o] = status[o] \/ status'[o] \notin {"none", "queued"})
        BY OpStepStatus
    <2>3. o # op => task'[o].pc = task[o].pc
        BY OpStepLanes DEF TaskFrame, SameControl
    <2> QED
        BY <2>1, <2>2, <2>3 DEF OneTaskAt, HandedOver
<1> QED
    BY <1>1 DEF OneTaskPerOperation, OneTaskAt, HandedOver

\* Steps of the connection loop and of the environment that spawn no task.
QuietStep ==
    \/ Connect \/ Recover \/ Recovered \/ CancelStore \/ CancelProject
    \/ \E op \in Ops : AcceptIntent(op) \/ CancelIntent(op) \/ Answer(op) \/ RespawnFails(op)
    \/ WireBreaks \/ Disconnect \/ DetachedWriterStops \/ OwnerCommits

\* Losing the connection changes nothing but the channels of the tasks.
LEMMA WireLossFrame ==
    ASSUME TypeOK, WireBreaks \/ DetachedWriterStops \/ Detach
    PROVE  \A o \in Ops : SameControl(o, task')
BY DEF TypeOK, ProcessTypes, Task, SameControl, WireBreaks, DetachedWriterStops, Detach

LEMMA QuietFrame ==
    ASSUME TypeOK, QuietStep
    PROVE  /\ \A o \in Ops : SameControl(o, task')
           /\ UNCHANGED <<source, laneVars>>
<1> USE DEF storeVars
<1>1. CASE Connect \/ Recover \/ Recovered \/ CancelStore \/ CancelProject \/ OwnerCommits
    <2>1. task' = task /\ UNCHANGED <<source, laneVars>>
        BY <1>1 DEF Connect, Recover, Recovered, CancelStore, CancelProject, OwnerCommits
    <2> QED
        BY <2>1 DEF SameControl
<1>2. ASSUME NEW op \in Ops, AcceptIntent(op)
      PROVE  (\A o \in Ops : SameControl(o, task')) /\ UNCHANGED <<source, laneVars>>
    BY <1>2 DEF AcceptIntent, SameControl
<1>3. ASSUME NEW op \in Ops, CancelIntent(op)
      PROVE  (\A o \in Ops : SameControl(o, task')) /\ UNCHANGED <<source, laneVars>>
    BY <1>3, SignalFrame DEF CancelIntent, SameControl
<1>4. ASSUME NEW op \in Ops, Answer(op)
      PROVE  (\A o \in Ops : SameControl(o, task')) /\ UNCHANGED <<source, laneVars>>
    BY <1>4 DEF Answer, SameControl, TypeOK, ProcessTypes, Task
<1>5. ASSUME NEW op \in Ops, RespawnFails(op)
      PROVE  (\A o \in Ops : SameControl(o, task')) /\ UNCHANGED <<source, laneVars>>
    BY <1>5, WireLossFrame DEF RespawnFails, laneVars
<1>6. CASE WireBreaks \/ Disconnect \/ DetachedWriterStops
    BY <1>6, WireLossFrame DEF WireBreaks, Disconnect, DetachedWriterStops, laneVars
<1> QED
    BY <1>1, <1>2, <1>3, <1>4, <1>5, <1>6 DEF QuietStep

LEMMA QuietLanes ==
    ASSUME TypeOK, Lanes, QuietStep
    PROVE  Lanes'
BY QuietFrame DEF SameControl, Lanes, LaneAt, laneVars

LEMMA QuietOneTask ==
    ASSUME TypeOK, OneTaskPerOperation, QuietStep
    PROVE  OneTaskPerOperation'
<1>1. ASSUME NEW o \in Ops PROVE OneTaskAt(o)'
    <2> USE DEF OneTaskAt, HandedOver, Serve, Idle, Connection
    <2>1. OneTaskAt(o) /\ task'[o].pc = task[o].pc
        BY OneTaskDef, QuietFrame DEF SameControl
    <2>2. CASE Connect
        BY <2>1, <2>2 DEF Connect, storeVars
    <2>3. CASE Recover
        <3> DEFINE S == {i \in Ops : Recoverable(i)}
        <3>1. /\ conn' = [pc |-> "respawn", op |-> NoOp, todo |-> S]
              /\ conn.pc = "recover"
              /\ status' = [i \in Ops |-> IF i \in S THEN "accepted" ELSE status[i]]
            BY <2>3 DEF Recover
        <3>2. o \in S => status[o] = "queued"
            BY DEF Recoverable
        <3> HIDE DEF S
        <3> QED
            BY <2>1, <3>1, <3>2
    <2>4. CASE Recovered \/ CancelProject
        BY <2>1, <2>4 DEF Recovered, CancelProject, storeVars
    <2>5. CASE CancelStore
        <3>1. conn'.todo = {} /\ conn'.pc # "spawn"
            BY <2>5 DEF CancelStore
        <3>2. status'[o] \in {status[o], "cancelled"}
            BY <2>5 DEF CancelStore, TypeOK, StoreTypes
        <3> QED
            BY <2>1, <3>1, <3>2
    <2>6. ASSUME NEW op \in Ops, AcceptIntent(op) PROVE OneTaskAt(o)'
        <3>1. /\ conn.pc = "idle" /\ status[op] = "none"
              /\ status' = [status EXCEPT ![op] = "accepted"]
              /\ conn' = conn \/ conn' = [pc |-> "spawn", op |-> op, todo |-> {}]
            BY <2>6 DEF AcceptIntent
        <3>2. task[op].pc = "none"
            BY <3>1, OneTaskDef
        <3> QED
            BY <2>1, <3>1, <3>2 DEF TypeOK, StoreTypes
    <2>7. ASSUME NEW op \in Ops, CancelIntent(op) PROVE OneTaskAt(o)'
        BY <2>1, <2>7 DEF CancelIntent, storeVars
    <2>8. ASSUME NEW op \in Ops, Answer(op) PROVE OneTaskAt(o)'
        BY <2>1, <2>8 DEF Answer, storeVars, connVars
    <2>9. ASSUME NEW op \in Ops, RespawnFails(op) PROVE OneTaskAt(o)'
        BY <2>1, <2>9 DEF RespawnFails, storeVars
    <2>10. CASE WireBreaks \/ Disconnect \/ DetachedWriterStops \/ OwnerCommits
        BY <2>1, <2>10
           DEF WireBreaks, Disconnect, DetachedWriterStops, OwnerCommits, storeVars, connVars
    <2> QED
        BY QuietStep, <2>2, <2>3, <2>4, <2>5, <2>6, <2>7, <2>8, <2>9, <2>10 DEF QuietStep
<1> QED
    BY <1>1 DEF OneTaskPerOperation, OneTaskAt, HandedOver

\* A task is spawned for an operation without one: it takes no lane, and the
\* operation is no longer handed over.
SpawnStep(op) ==
    /\ op \in Ops /\ HandedOver(op)
    /\ \E resume \in BOOLEAN : Spawned(op, resume)
    /\ UNCHANGED <<source, status, laneVars>>
    /\ \A o \in Ops : HandedOver(o)' => HandedOver(o) /\ o # op

LEMMA SpawnLanes ==
    ASSUME TypeOK, Lanes, OneTaskPerOperation, NEW op, SpawnStep(op)
    PROVE  Lanes'
<1>1. task[op].pc = "none"
    BY OneTaskDef DEF SpawnStep, OneTaskAt
<1>2. /\ task'[op].pc = "start"
      /\ \A o \in Ops \ {op} : SameControl(o, task')
    BY DEF SpawnStep, Spawned, NoTask, SameControl, TypeOK, ProcessTypes
<1>3. ASSUME NEW o \in Ops PROVE LaneAt(o)'
    BY <1>1, <1>2, <1>3 DEF SpawnStep, laneVars, SameControl, Lanes, LaneAt, IntentPcs, RealPcs,
                            ReviewPcs, PromotePcs, EndPcs
<1> QED
    BY <1>3 DEF Lanes

LEMMA SpawnOneTask ==
    ASSUME TypeOK, OneTaskPerOperation, NEW op, SpawnStep(op)
    PROVE  OneTaskPerOperation'
<1>1. \A o \in Ops \ {op} : SameControl(o, task')
    BY DEF SpawnStep, Spawned, SameControl, TypeOK, ProcessTypes
<1>2. ASSUME NEW o \in Ops PROVE OneTaskAt(o)'
    BY <1>1, <1>2, OneTaskDef DEF SpawnStep, SameControl, OneTaskAt
<1> QED
    BY <1>2 DEF OneTaskPerOperation, OneTaskAt, HandedOver

-----------------------------------------------------------------------------
(* The theorems *)

Exclusion == Lanes /\ OneTaskPerOperation

\* With no task at all, nothing is held and nothing is handed over.
NoTasks ==
    /\ task = [o \in Ops |-> NoTask] /\ intentLane = NoOp /\ realLane = NoOp
    /\ conn = [pc |-> "down", op |-> NoOp, todo |-> {}]

LEMMA NoTasksExclusion == NoTasks => Exclusion
BY OpsAssumption
   DEF NoTasks, Exclusion, Lanes, LaneAt, OneTaskPerOperation, NoTask, IntentPcs, RealPcs,
       ReviewPcs, PromotePcs, EndPcs

LEMMA NextExclusion ==
    ASSUME TypeOK, Exclusion, [Next]_vars
    PROVE  Exclusion'
<1> USE DEF Exclusion
<1>1. ASSUME NEW op \in Ops, OpStep(op) PROVE Exclusion'
    BY <1>1, OpStepKeepsLanes, OpStepOneTask
<1>2. CASE QuietStep
    BY <1>2, QuietLanes, QuietOneTask
<1>3. ASSUME NEW op \in Ops, Respawn(op) PROVE Exclusion'
    <2>1. SpawnStep(op)
        BY <1>3 DEF Respawn, SpawnStep, HandedOver, Serve, storeVars
    <2> QED
        BY <2>1, SpawnLanes, SpawnOneTask
<1>4. CASE SpawnTask
    <2>1. CASE wire
        <3>1. conn.op \in Ops
            BY <1>4 DEF SpawnTask, TypeOK, ProcessTypes, Connection
        <3>2. SpawnStep(conn.op)
            BY <1>4, <2>1, <3>1 DEF SpawnTask, SpawnStep, HandedOver, Serve, Idle, storeVars
        <3> QED
            BY <3>2, SpawnLanes, SpawnOneTask
    <2>2. CASE ~wire
        <3>1. /\ UNCHANGED <<task, source, status, intentLane, realLane>>
              /\ conn' = [pc |-> "idle", op |-> NoOp, todo |-> {}]
            BY <1>4, <2>2 DEF SpawnTask, Idle, Serve, storeVars, laneVars
        <3> QED
            BY <3>1 DEF Lanes, LaneAt, OneTaskPerOperation
    <2> QED
        BY <2>1, <2>2
<1>5. CASE Restart
    <2>1. NoTasks'
        BY <1>5 DEF Restart, NoTasks, Serve
    <2> QED
        BY <2>1, NoTasksExclusion, PTL
<1>6. CASE UNCHANGED vars
    BY <1>6 DEF vars, storeVars, gitVars, laneVars, connVars, boundVars, Lanes, LaneAt,
                OneTaskPerOperation
<1> QED
    BY <1>1, <1>2, <1>3, <1>4, <1>5, <1>6
       DEF Next, OpStep, QuietStep, ConnStep, Environment

LEMMA AlwaysExclusion == Spec => [](TypeOK /\ Exclusion)
<1>1. TypeOK /\ Exclusion /\ [Next]_vars => Exclusion'
    BY NextExclusion
<1>2. Init => Exclusion
    BY NoTasksExclusion DEF Init, NoTasks
<1> QED
    BY <1>1, <1>2, TypeCorrect, PTL DEF Spec

\* Whatever reconnections, restarts and tasks interleave, an operation never
\* has two tasks (accept_intent, schedule_recovery).
THEOREM OneTask == Spec => []OneTaskPerOperation
BY AlwaysExclusion, PTL DEF Exclusion

\* On every path, errors included, a task is inside a lane's section only
\* while it holds that lane, and its snapshot of the source is current while it
\* holds the intent lane (run_operation).
THEOREM LaneExclusion == Spec => []LaneHolderIsCurrent
<1>1. Lanes => LaneHolderIsCurrent
    BY DEF Lanes, LaneAt, LaneHolderIsCurrent, EndPcs
<1> QED
    BY <1>1, AlwaysExclusion, PTL DEF Exclusion

-----------------------------------------------------------------------------
(* Operations in flight *)

InFlight == {"accepted", "running"}

\* Somebody works for o, is about to, or was cut short.
Accounted(o) == task[o].pc # "none" \/ o \in abandoned \/ HandedOver(o)

AllAccounted ==
    /\ conn.todo # {} => conn.pc = "respawn"
    /\ \A o \in Ops : status[o] \in InFlight => Accounted(o)

\* A task leaves only once its operation is no longer in flight, and brings no
\* other operation into flight.
LEMMA OpStepEnds ==
    ASSUME TypeOK, Lanes, NEW op \in Ops, OpStep(op)
    PROVE  /\ UNCHANGED connVars
           /\ \A o \in Ops \ {op} : status'[o] \in {status[o], "cancelled"}
           /\ task'[op].pc = "none" => status'[op] \notin InFlight
<1> USE DEF InFlight, storeVars
<1> DEFINE Others == \A o \in Ops \ {op} : status'[o] \in {status[o], "cancelled"}
           Ends == task'[op].pc = "none" => status'[op] \notin InFlight
<1>1. CASE IntentStep(op)
    <2>1. UNCHANGED connVars /\ Others
        BY <1>1 DEF IntentStep, Start, TakeIntentLane, ProposeResume, SignalSuperseded, Reply,
                    AskOwner, Block, Pause, PauseSignal, Complete, TypeOK, StoreTypes
    <2>2. CASE Start(op)
        BY <2>2, SendThenFrame DEF Start
    <2>3. CASE TakeIntentLane(op) \/ ProposeResume(op) \/ Pause(op)
        <3>1. TakeIntentLane(op) => task'[op].pc \in {"resumed", "intent"}
            BY DEF TakeIntentLane, TypeOK, ProcessTypes, Task
        <3>2. ProposeResume(op) => task'[op].pc = "reply"
            BY DEF ProposeResume, TypeOK, ProcessTypes, Task
        <3>3. Pause(op) => task'[op].pc = "pauseSignal"
            BY DEF Pause, TypeOK, ProcessTypes, Task
        <3> QED
            BY <2>1, <2>3, <3>1, <3>2, <3>3
    <2>4. CASE SignalSuperseded(op) \/ PauseSignal(op)
        <3> DEFINE t == Signal(task[op].sup)
        <3>1. t \in [Ops -> Task] /\ \A o \in Ops : SameControl(o, t)
            BY SignalTypes, SignalFrame DEF TypeOK, ProcessTypes, TaskTypes
        <3>2. \/ \E l \in {"reply", "complete"} :
                    task' = [t EXCEPT ![op] = [t[op] EXCEPT !.pc = l, !.sup = {}]]
              \/ Fail(op, t)
            BY <2>4 DEF SignalSuperseded, PauseSignal
        <3> HIDE DEF t
        <3>3. CASE Fail(op, t)
            BY <2>1, <3>1, <3>3, FailFrame
        <3> QED
            BY <2>1, <3>1, <3>2, <3>3 DEF Task
    <2>5. CASE Reply(op)
        <3>1. task[op].next \in {"askOwner", "block", "pause", "wait"}
            BY <2>5 DEF Reply, Lanes, LaneAt
        <3> QED
            BY <2>5, <3>1 DEF Reply, Fail, TypeOK, ProcessTypes, Task
    <2>6. CASE AskOwner(op)
        BY <2>6, GotoFrame DEF AskOwner
    <2>7. CASE Block(op) \/ Complete(op)
        BY <2>7 DEF Block, Complete, TypeOK, StoreTypes
    <2> QED
        BY <1>1, <2>1, <2>2, <2>3, <2>4, <2>5, <2>6, <2>7 DEF IntentStep
<1>2. CASE RealizationStep(op)
    <2>1. UNCHANGED connVars /\ Others
        BY <1>2 DEF RealizationStep, TakeRealizationLane, Prepare, StartMachine, LoopHead,
                    Reconcile, PersistWork, PersistPhase, Assess, ReviewCompleted, PromoteCheck,
                    Merge, PersistPromoted, Satisfy
    <2>2. CASE Fail(op, task)
        BY <2>1, <2>2, SameTask, FailFrame DEF TypeOK, ProcessTypes
    <2>3. CASE PersistPhase(op)
        <3>1. task[op].next \in {"askOwner", "assess"}
            BY <2>3 DEF PersistPhase, Lanes, LaneAt
        <3> QED
            BY <2>1, <2>2, <2>3, <3>1 DEF PersistPhase, TypeOK, ProcessTypes, Task
    <2>4. ASSUME NEW l \in RealPcs \cup {"complete"}, Goto(op, l) PROVE Ends
        BY <2>4, GotoFrame DEF RealPcs, ReviewPcs, PromotePcs
    <2>5. ASSUME NEW l \in RealPcs \cup {"complete"}, SendThen(op, l) PROVE Ends
        BY <2>5, SendThenFrame DEF RealPcs, ReviewPcs, PromotePcs
    <2> QED
        BY <1>2, <2>1, <2>2, <2>3, <2>4, <2>5
           DEF RealizationStep, TakeRealizationLane, Prepare, StartMachine, LoopHead, Reconcile,
               PersistWork, Assess, ReviewCompleted, PromoteCheck, Merge, PersistPromoted,
               Satisfy, RealPcs, ReviewPcs, PromotePcs
<1>3. CASE ErrorStep(op)
    <2>1. CASE (ErrorCheck(op) /\ status[op] # "cancelled") \/ ErrorBlock(op)
        BY <2>1, GotoFrame DEF ErrorCheck, ErrorBlock
    <2>2. CASE ErrorCheck(op) /\ status[op] = "cancelled"
        BY <2>2 DEF ErrorCheck
    <2>3. CASE ErrorFail(op)
        BY <2>3 DEF ErrorFail, TypeOK, StoreTypes
    <2> QED
        BY <1>3, <2>1, <2>2, <2>3 DEF ErrorStep, ErrorCheck, ErrorBlock
<1>4. CASE Ask(op) \/ ResumeRun(op) \/ RunCancelled(op) \/ WorkFails(op)
    <2>1. UNCHANGED connVars /\ Others
        BY <1>4 DEF Ask, ResumeRun, RunCancelled, WorkFails, TypeOK, StoreTypes
    <2>2. task'[op].pc # "none"
        <3>1. CASE Fail(op, task)
            BY <3>1, SameTask, FailFrame DEF TypeOK, ProcessTypes
        <3>2. ASSUME NEW a \in {"no", "waiting"}, task' = [task EXCEPT ![op].ask = a],
                     task[op].pc \in RunPcs
              PROVE  task'[op].pc # "none"
            BY <3>2 DEF RunPcs, TypeOK, ProcessTypes, Task
        <3> QED
            BY <1>4, <3>1, <3>2 DEF Ask, ResumeRun, RunCancelled, WorkFails
    <2> QED
        BY <2>1, <2>2
<1>5. ASSUME NEW q \in BOOLEAN, NEW p \in BOOLEAN,
             KeepIntent(op, q, p) \/ Implemented(op, q, p)
      PROVE  UNCHANGED connVars /\ Others /\ Ends
    BY <1>5 DEF KeepIntent, Implemented, TypeOK, ProcessTypes, Task
<1>6. ASSUME NEW a \in BOOLEAN, NEW q \in BOOLEAN, NEW p \in BOOLEAN,
             CommitIntent(op, a, q, p)
      PROVE  UNCHANGED connVars /\ Others /\ Ends
    <2> DEFINE S == {o \in Ops \ {op} : status[o] \in {"accepted", "running"}}
    <2>1. /\ UNCHANGED connVars
          /\ \/ status' = status
             \/ status' = [o \in Ops |-> IF o \in S THEN "cancelled" ELSE status[o]]
        BY <1>6 DEF CommitIntent
    <2>2. \/ Fail(op, task)
          \/ task' = [task EXCEPT ![op].pc = "supersede", ![op].rev = source.rev + 1,
                          ![op].active = a, ![op].sup = S, ![op].next = After(q, p, a)]
        BY <1>6 DEF CommitIntent
    <2> HIDE DEF S
    <2>3. Others
        BY <2>1
    <2>4. task'[op].pc # "none"
        <3>1. CASE Fail(op, task)
            BY <3>1, SameTask, FailFrame DEF TypeOK, ProcessTypes
        <3> QED
            BY <2>2, <3>1 DEF TypeOK, ProcessTypes, Task
    <2> QED
        BY <2>1, <2>3, <2>4
<1>7. ASSUME NEW a \in BOOLEAN, Reviewed(op, a) \/ ColdReviewed(op, a)
      PROVE  UNCHANGED connVars /\ Others /\ Ends
    <2>1. UNCHANGED connVars /\ Others
        BY <1>7 DEF Reviewed, ColdReviewed, Judged
    <2>2. CASE Fail(op, task)
        BY <2>1, <2>2, SameTask, FailFrame DEF TypeOK, ProcessTypes
    <2>3. ASSUME NEW l \in {"cold", "approved", "findings"}, Goto(op, l) PROVE Ends
        BY <2>3, GotoFrame
    <2> QED
        BY <1>7, <2>1, <2>2, <2>3 DEF Reviewed, ColdReviewed, Judged
<1> QED
    BY <1>1, <1>2, <1>3, <1>4, <1>5, <1>6, <1>7 DEF OpStep, TaskStep, AgentStep

LEMMA OpStepAccounted ==
    ASSUME TypeOK, Lanes, AllAccounted, NEW op \in Ops, OpStep(op)
    PROVE  AllAccounted'
<1>1. conn' = conn /\ abandoned' = abandoned
    BY OpStepEnds DEF connVars
<1>2. ASSUME NEW o \in Ops \ {op}, status'[o] \in InFlight PROVE Accounted(o)'
    <2>1. task'[o].pc = task[o].pc /\ status[o] \in InFlight
        BY <1>2, OpStepLanes, OpStepEnds DEF TaskFrame, SameControl, InFlight
    <2> QED
        BY <1>1, <2>1 DEF AllAccounted, Accounted, HandedOver
<1>3. status'[op] \in InFlight => Accounted(op)'
    BY OpStepEnds DEF Accounted
<1> QED
    BY <1>1, <1>2, <1>3 DEF AllAccounted

\* The loop hands over what it accepts, or gives it up.
LEMMA QuietAccounted ==
    ASSUME TypeOK, AllAccounted, QuietStep
    PROVE  AllAccounted'
<1> USE DEF storeVars, connVars, Serve, Idle
<1>1. \A o \in Ops : task'[o].pc = task[o].pc
    BY QuietFrame DEF SameControl
<1>2. ASSUME conn'.todo # {} => conn'.pc = "respawn",
             \A o \in Ops : status'[o] \in InFlight =>
                 \/ o \in abandoned' \/ HandedOver(o)'
                 \/ status[o] \in InFlight /\ (HandedOver(o) => HandedOver(o)' \/ o \in abandoned')
                        /\ abandoned \subseteq abandoned'
      PROVE  AllAccounted'
    BY <1>1, <1>2 DEF AllAccounted, Accounted
<1>3. CASE Connect \/ Recovered \/ CancelProject
    BY <1>2, <1>3 DEF Connect, Recovered, CancelProject, HandedOver, AllAccounted
<1>4. CASE Recover
    <2> DEFINE S == {o \in Ops : Recoverable(o)}
    <2>1. /\ conn.pc = "recover" /\ UNCHANGED abandoned
          /\ status' = [o \in Ops |-> IF o \in S THEN "accepted" ELSE status[o]]
          /\ conn' = [pc |-> "respawn", op |-> NoOp, todo |-> S]
        BY <1>4 DEF Recover
    <2> HIDE DEF S
    <2> QED
        BY <1>2, <2>1 DEF HandedOver, AllAccounted
<1>5. CASE CancelStore
    <2>1. status' = [status EXCEPT ![conn.op] = "cancelled"]
        BY <1>5 DEF CancelStore
    <2>2. \A o \in Ops : status'[o] \in InFlight => status[o] \in InFlight
        BY <2>1 DEF InFlight, TypeOK, StoreTypes
    <2> QED
        BY <1>2, <1>5, <2>2 DEF CancelStore, HandedOver, AllAccounted
<1>6. ASSUME NEW op \in Ops, AcceptIntent(op) PROVE AllAccounted'
    <2>1. /\ status' = [status EXCEPT ![op] = "accepted"] /\ conn.pc = "idle"
          /\ \/ conn' = [pc |-> "spawn", op |-> op, todo |-> {}] /\ abandoned' = abandoned
             \/ conn' = conn /\ abandoned' = abandoned \cup {op}
        BY <1>6 DEF AcceptIntent
    <2>2. \A o \in Ops \ {op} : status'[o] = status[o]
        BY <2>1 DEF TypeOK, StoreTypes
    <2> QED
        BY <1>2, <2>1, <2>2 DEF HandedOver, AllAccounted
<1>7. ASSUME NEW op \in Ops, CancelIntent(op) \/ Answer(op) PROVE AllAccounted'
    BY <1>2, <1>7 DEF CancelIntent, Answer, HandedOver, AllAccounted
<1>8. ASSUME NEW op \in Ops, RespawnFails(op) PROVE AllAccounted'
    BY <1>2, <1>8 DEF RespawnFails, HandedOver
<1>9. CASE WireBreaks \/ Disconnect \/ DetachedWriterStops \/ OwnerCommits
    BY <1>2, <1>9 DEF WireBreaks, Disconnect, DetachedWriterStops, OwnerCommits, HandedOver,
                      AllAccounted
<1> QED
    BY <1>3, <1>4, <1>5, <1>6, <1>7, <1>8, <1>9 DEF QuietStep

LEMMA NextAccounted ==
    ASSUME TypeOK, Lanes, AllAccounted, [Next]_vars
    PROVE  AllAccounted'
<1> USE DEF storeVars
<1>1. ASSUME NEW op \in Ops, OpStep(op) PROVE AllAccounted'
    BY <1>1, OpStepAccounted
<1>2. CASE QuietStep
    BY <1>2, QuietAccounted
<1>3. ASSUME NEW op \in Ops, NEW r \in BOOLEAN, Spawned(op, r), UNCHANGED <<status, abandoned>>,
             conn'.todo # {} => conn'.pc = "respawn",
             \A o \in Ops \ {op} : HandedOver(o) => HandedOver(o)'
      PROVE  AllAccounted'
    <2>1. task'[op].pc = "start" /\ \A o \in Ops \ {op} : task'[o] = task[o]
        BY <1>3 DEF Spawned, NoTask, TypeOK, ProcessTypes
    <2> QED
        BY <1>3, <2>1 DEF AllAccounted, Accounted
<1>4. ASSUME NEW op \in Ops, Respawn(op) PROVE AllAccounted'
    BY <1>3, <1>4 DEF Respawn, Serve, HandedOver
<1>5. CASE SpawnTask
    <2>1. conn.op \in Ops /\ conn.pc = "spawn" /\ conn' = [pc |-> "idle", op |-> NoOp, todo |-> {}]
        BY <1>5 DEF SpawnTask, Idle, Serve, TypeOK, ProcessTypes, Connection
    <2>2. CASE wire
        BY <1>3, <1>5, <2>1, <2>2 DEF SpawnTask, HandedOver, AllAccounted
    <2>3. CASE ~wire
        BY <1>5, <2>1, <2>3 DEF SpawnTask, HandedOver, AllAccounted, Accounted
    <2> QED
        BY <2>2, <2>3
<1>6. CASE Restart
    <2> DEFINE S == {o \in Ops : status[o] \in {"accepted", "running"}}
    <2>1. /\ status' = [o \in Ops |-> IF o \notin S THEN status[o]
                                      ELSE IF Resumable(o) THEN "queued" ELSE "failed"]
          /\ conn'.todo = {}
        BY <1>6 DEF Restart, Serve
    <2>2. \A o \in Ops : o \notin S => status[o] \notin InFlight
        BY DEF InFlight
    <2> HIDE DEF S
    <2>3. \A o \in Ops : status'[o] \notin InFlight
        BY <2>1, <2>2 DEF InFlight
    <2> QED
        BY <2>1, <2>3 DEF AllAccounted
<1>7. CASE UNCHANGED vars
    BY <1>7 DEF vars, connVars, AllAccounted, Accounted, HandedOver
<1> QED
    BY <1>1, <1>2, <1>4, <1>5, <1>6, <1>7
       DEF Next, OpStep, QuietStep, ConnStep, Environment

\* No error path, cancellation, restart or recovery leaves an operation that is
\* shown as accepted or running without a task, unless a lost connection cut its
\* hand-over short (the spawned task's handler, schedule_recovery,
\* reconcile_interrupted).
THEOREM InFlightIsWorkedFor == Spec => []InFlightHasTask
<1>1. Init => AllAccounted
    BY DEF Init, AllAccounted, InFlight
<1>2. TypeOK /\ Exclusion /\ AllAccounted /\ [Next]_vars => AllAccounted'
    BY NextAccounted DEF Exclusion
<1>3. AllAccounted => InFlightHasTask
    BY DEF AllAccounted, Accounted, InFlight, HandedOver, InFlightHasTask
<1> QED
    BY <1>1, <1>2, <1>3, AlwaysExclusion, PTL DEF Spec
=============================================================================
