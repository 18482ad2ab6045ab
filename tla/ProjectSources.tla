--------------------------- MODULE ProjectSources ---------------------------
(***************************************************************************)
(* What happens to the authoritative documents on their way from the       *)
(* owner's checkout through intent turns and isolated worktrees back into  *)
(* the checkout, and what the life of a Project does to its tasks          *)
(* (spoke/src/main.rs: initialize, project.remove, run_operation;          *)
(* workspace.rs).  Several Projects may be initialized on one checkout:    *)
(* nothing in the code refuses it, and each has lanes of its own.          *)
(*                                                                         *)
(* Unlike SpokeOperations, which has the control of a task in full, this   *)
(* module has its files: the checkout's working tree and HEAD, and each    *)
(* worktree.  Abstracted: cancellation, restarts and the connection (see   *)
(* there); the failure of a run is one that leaves files behind; whether a *)
(* text proposal is well formed, complete in its coverage, a question or a *)
(* pause is a choice between going on and stopping.                        *)
(***************************************************************************)
EXTENDS SourceBundle

CONSTANTS
    Projects,    \* the identities initialize gives out
    Operations,  \* the identities accept_intent gives out
    Nobody,      \* the Project of an operation that does not exist
    Checkouts,   \* the trees the owner's checkout may begin with
    MaxEdits,    \* bound: the owner's edits
    MaxRevision  \* bound: revisions of a source

ASSUME ProjectsAssumption == Nobody \notin Projects
ASSUME CheckoutsAssumption == Checkouts \subseteq Tree
ASSUME BoundsAssumption == {MaxEdits, MaxRevision} \subseteq Nat

VARIABLES
    primary,   \* the owner's checkout
    work,      \* each operation's worktree
    source,    \* each Project's source of intent
    task,      \* each operation's task
    edits      \* the owner's edits so far

vars == <<primary, work, source, task, edits>>

-----------------------------------------------------------------------------
(* Types *)

\* commit counts the commits in HEAD's history: it identifies HEAD, whose
\* history only grows.
Checkout == [files : Tree, head : Tree, commit : Nat]

\* checkpoint: the tree of its HEAD, which is all there is in it whenever no run
\* is at work; ahead: the checkpoint is a commit of the worktree's own.
Worktree == [checkpoint : Tree, base : Nat, ahead : BOOLEAN]

Source == [known : BOOLEAN, removed : BOOLEAN, rev : Nat, active : BOOLEAN,
           bundle : Bundles]

Turn == {"accepted", "import", "intent", "commit"}
Realization == {"loop", "implement", "review", "approval", "promote"}
Phase == {"new", "lane", "done"} \cup Turn \cup Realization

\* bundle: of the source the task works from, then the one it proposes;
\* seen: the bundle of the checkout; before: the tree whose fingerprint was taken.
Task == [phase : Phase, project : Projects \cup {Nobody}, rev : Nat,
         bundle : Bundles, seen : Bundles, before : Tree]

TypeOK ==
    /\ primary \in Checkout
    /\ work \in [Operations -> Worktree]
    /\ source \in [Projects -> Source]
    /\ task \in [Operations -> Task]
    /\ edits \in Nat

EmptyTree == [p \in Paths |-> Absent]
NoTask == [phase |-> "new", project |-> Nobody, rev |-> 0, bundle |-> NoBundle,
           seen |-> NoBundle, before |-> EmptyTree]
NoWorktree == [checkpoint |-> EmptyTree, base |-> 0, ahead |-> FALSE]

Init ==
    /\ \E t \in Checkouts : primary = [files |-> t, head |-> t, commit |-> 0]
    /\ work = [o \in Operations |-> NoWorktree]
    /\ source = [p \in Projects |-> [known |-> FALSE, removed |-> FALSE, rev |-> 0,
                                     active |-> FALSE, bundle |-> NoBundle]]
    /\ task = [o \in Operations |-> NoTask]
    /\ edits = 0

-----------------------------------------------------------------------------
(* Helpers *)

SourceOf(o) == source[task[o].project]

\* The source of a task's realization: still there, still its revision, active.
Current(o) ==
    /\ SourceOf(o).known /\ SourceOf(o).active
    /\ SourceOf(o).rev = task[o].rev

Siblings(o) == {q \in Operations \ {o} : task[q].project = task[o].project}

Clean == primary.files = primary.head

Goto(o, phase) == task' = [task EXCEPT ![o].phase = phase] /\ UNCHANGED work

\* The task ends, with an answer, an error or a panic: its lanes are dropped.
\* What it knew is gone; its worktree, rolled back or not, stays on disk but is
\* not read again, and is forgotten here.
Stop(o) ==
    /\ task' = [task EXCEPT ![o] = [NoTask EXCEPT !.phase = "done"]]
    /\ work' = [work EXCEPT ![o] = NoWorktree]

\* What a run may make of a tree.  Bound: it changes one file at most; another
\* run may change the next.
Written(t) == {t} \cup {[t EXCEPT ![p] = c] : p \in Paths, c \in Contents \cup {Absent}}

-----------------------------------------------------------------------------
(* The owner *)

\* The owner saves a file.
Edit(p, c) ==
    /\ edits < MaxEdits
    /\ edits' = edits + 1
    /\ primary' = [primary EXCEPT !.files[p] = c]
    /\ UNCHANGED <<work, source, task>>

OwnerCommits ==
    /\ ~ Clean
    /\ primary' = [primary EXCEPT !.head = primary.files, !.commit = @ + 1]
    /\ UNCHANGED <<work, source, task, edits>>

\* project.initialize: documents that do not import are an error.
Initialize(p) ==
    /\ ~ source[p].known /\ ~ source[p].removed
    /\ Imports(primary.files)
    /\ source' = [source EXCEPT ![p].known = TRUE,
                                ![p].bundle = Import(primary.files)]
    /\ UNCHANGED <<primary, work, task, edits>>

\* project.remove forgets the records.  Tasks and worktrees stay; an identity
\* does not come back.
Remove(p) ==
    /\ source[p].known
    /\ source' = [source EXCEPT ![p].known = FALSE, ![p].removed = TRUE]
    /\ UNCHANGED <<primary, work, task, edits>>

AcceptIntent(o, p) ==
    /\ task[o].phase = "new" /\ source[p].known
    /\ task' = [task EXCEPT ![o].phase = "accepted", ![o].project = p]
    /\ UNCHANGED <<primary, work, source, edits>>

-----------------------------------------------------------------------------
(* The intent turn, under the Project's intent lane *)

\* Mutant: the lane is kept until the task ends.
HeldByRealization(o) == task[o].phase \in {"import", "intent", "commit", "lane"} \cup Realization

HoldsIntentLane(o) == task[o].phase \in {"import", "intent", "commit"}

\* The lane is taken, the source is read and the checkout's documents imported.
TakeIntentLane(o) ==
    /\ task[o].phase = "accepted"
    /\ \A q \in Siblings(o) : ~ HoldsIntentLane(q)
    /\ IF SourceOf(o).known /\ Imports(primary.files)
       THEN /\ task' = [task EXCEPT ![o].phase = "import",
                                    ![o].rev = SourceOf(o).rev,
                                    ![o].bundle = SourceOf(o).bundle,
                                    ![o].seen = Import(primary.files)]
            /\ UNCHANGED work
       ELSE Stop(o)
    /\ UNCHANGED <<primary, source, edits>>

\* Then the fingerprint of the checkout is taken and the intent agent starts.
Fingerprint(o) ==
    /\ task[o].phase = "import"
    /\ task' = [task EXCEPT ![o].phase = "intent", ![o].before = primary.files]
    /\ UNCHANGED <<primary, work, source, edits>>

\* The checkout is not what it was: the agent's proposal is refused, and the
\* documents are written back as they were seen (a failure of restore changes no
\* more).
RefuseProposal(o) ==
    /\ task[o].phase = "intent" /\ primary.files # task[o].before
    /\ primary' = [primary EXCEPT !.files = Restored(@, task[o].seen)]
    /\ Stop(o)
    /\ UNCHANGED <<source, edits>>

\* The task has its source and waits for the realization lane.
ToLane(o, rev) ==
    /\ task' = [task EXCEPT ![o] =
           [NoTask EXCEPT !.phase = "lane", !.project = task[o].project,
                          !.rev = rev, !.bundle = task[o].bundle]]
    /\ UNCHANGED work

\* A proposal with an update.  One that adopts the checkout's documents may
\* differ from the source's; any other must find them unchanged.
ProposeUpdate(o, adopts) ==
    /\ task[o].phase = "intent" /\ primary.files = task[o].before
    /\ task[o].rev < MaxRevision
    /\ IF adopts \/ task[o].seen = task[o].bundle
       THEN /\ task' = [task EXCEPT ![o].phase = "commit", ![o].bundle = task[o].seen]
            /\ UNCHANGED work
       ELSE Stop(o)
    /\ UNCHANGED <<primary, source, edits>>

\* A proposal without one: the task goes on with an active source as it is.
ProposeNothing(o) ==
    /\ task[o].phase = "intent" /\ primary.files = task[o].before
    /\ IF task[o].seen = task[o].bundle /\ Current(o)
       THEN ToLane(o, task[o].rev)
       ELSE Stop(o)
    /\ UNCHANGED <<primary, source, edits>>

\* The next revision; one that is not active leaves the task nothing to realize.
CommitIntent(o, active) ==
    /\ task[o].phase = "commit"
    /\ IF SourceOf(o).known
       THEN /\ source' = [source EXCEPT ![task[o].project] =
                  [@ EXCEPT !.rev = task[o].rev + 1, !.active = active,
                            !.bundle = task[o].bundle]]
            /\ IF active THEN ToLane(o, task[o].rev + 1) ELSE Stop(o)
       ELSE UNCHANGED source /\ Stop(o)
    /\ UNCHANGED <<primary, edits>>

-----------------------------------------------------------------------------
(* The realization, under the Project's realization lane *)

HoldsRealizationLane(o) == task[o].phase \in Realization

\* workspace::prepare: a worktree of a clean checkout's HEAD.
Prepare(o) ==
    /\ task[o].phase = "lane"
    /\ \A q \in Siblings(o) : ~ HoldsRealizationLane(q)
    /\ IF Clean
       THEN /\ work' = [work EXCEPT ![o] = [checkpoint |-> primary.head,
                                            base |-> primary.commit, ahead |-> FALSE]]
            /\ task' = [task EXCEPT ![o].phase = "loop"]
       ELSE Stop(o)
    /\ UNCHANGED <<primary, source, edits>>

\* The source is read again; the worktree's documents must be its documents.
LoopHead(o) ==
    /\ task[o].phase = "loop"
    /\ IF /\ Current(o)
          /\ \/ SourceOf(o).bundle = NoBundle
             \/ Verifies(work[o].checkpoint, SourceOf(o).bundle)
       THEN /\ task' = [task EXCEPT ![o].phase = "implement",
                                    ![o].bundle = SourceOf(o).bundle]
            /\ UNCHANGED work
       ELSE Stop(o)
    /\ UNCHANGED <<primary, source, edits>>

DocumentsKept(o, t) == task[o].bundle = NoBundle \/ Verifies(t, task[o].bundle)

\* Tree t becomes the checkpoint and its fingerprint is taken.  The outcome for
\* the timeline panics when the Project is gone.
Checkpoint(o, t) ==
    IF SourceOf(o).known
    THEN /\ work' = [work EXCEPT ![o].checkpoint = t,
                                 ![o].ahead = @ \/ t # work[o].checkpoint]
         /\ task' = [task EXCEPT ![o].phase = "review", ![o].before = t]
    ELSE Stop(o)

\* Mutant: documents are left to the review.
ImplementedUnverified(o, t) ==
    /\ task[o].phase = "implement"
    /\ Checkpoint(o, t)
    /\ UNCHANGED <<primary, source, edits>>

\* The implementer leaves tree t.
Implemented(o, t) ==
    /\ task[o].phase = "implement"
    /\ IF DocumentsKept(o, t) THEN Checkpoint(o, t) ELSE Stop(o)
    /\ UNCHANGED <<primary, source, edits>>

\* The validation commands leave tree t, and the warm reviewer reports on it.
\* persist_review takes a report on the current revision only.
Reviewed(o, t, approved) ==
    /\ task[o].phase = "review"
    /\ IF DocumentsKept(o, t) /\ t = task[o].before /\ Current(o)
       THEN Goto(o, IF approved THEN "approval" ELSE "loop")
       ELSE Stop(o)
    /\ UNCHANGED <<primary, source, edits>>

\* The cold reviewer's report, which decides.
ColdReviewed(o, approved) ==
    /\ task[o].phase = "approval"
    /\ IF Current(o)
       THEN Goto(o, IF approved THEN "promote" ELSE "loop")
       ELSE Stop(o)
    /\ UNCHANGED <<primary, source, edits>>

\* Mutant: the checkout is set to the checkpoint wherever it is.
PromoteByReset(o) ==
    /\ task[o].phase = "promote"
    /\ IF Clean
       THEN primary' = [files |-> work[o].checkpoint, head |-> work[o].checkpoint,
                        commit |-> primary.commit + 1]
       ELSE UNCHANGED primary
    /\ Stop(o)
    /\ UNCHANGED <<source, edits>>

\* promote: a fast-forward of a clean checkout that is still at the base.  The
\* Project is not looked up again.
Promote(o) ==
    /\ task[o].phase = "promote"
    /\ IF Clean /\ primary.commit = work[o].base
       THEN primary' = [files |-> work[o].checkpoint, head |-> work[o].checkpoint,
                        commit |-> IF work[o].ahead THEN primary.commit + 1
                                   ELSE primary.commit]
       ELSE UNCHANGED primary
    /\ Stop(o)
    /\ UNCHANGED <<source, edits>>

\* A run of an agent fails or is cancelled.
RunFails(o) ==
    /\ task[o].phase \in {"intent", "implement", "review", "approval"}
    /\ Stop(o)
    /\ UNCHANGED <<primary, source, edits>>

-----------------------------------------------------------------------------

\* What the Spoke does for an operation, the runs of agents included.
TurnStep(o) ==
    \/ TakeIntentLane(o) \/ Fingerprint(o) \/ RefuseProposal(o)
    \/ \E b \in BOOLEAN : ProposeUpdate(o, b) \/ CommitIntent(o, b)
    \/ ProposeNothing(o)
RealizationStep(o) ==
    \/ Prepare(o) \/ LoopHead(o)
    \/ \E t \in Written(work[o].checkpoint) :
          Implemented(o, t) \/ \E b \in BOOLEAN : Reviewed(o, t, b)
    \/ \E b \in BOOLEAN : ColdReviewed(o, b)
    \/ Promote(o)

Step(o) == TurnStep(o) \/ RealizationStep(o) \/ RunFails(o)

Owner ==
    \/ \E p \in Paths, c \in Contents \cup {Absent} : Edit(p, c)
    \/ OwnerCommits
    \/ \E p \in Projects : Initialize(p) \/ Remove(p)
    \/ \E o \in Operations, p \in Projects : AcceptIntent(o, p)

Next == Owner \/ \E o \in Operations : Step(o)

Spec == Init /\ [][Next]_vars

\* The intent lane is a fair queue and an intent agent's run ends.  Nothing is
\* owed by the owner, nor by a realization: it may take for ever.
FairSpec == Spec /\ \A o \in Operations : WF_vars(TurnStep(o))

-----------------------------------------------------------------------------
(* Properties *)

Documents == {FirstManifest, SecondManifest} \cup DesignDocs

\* A tree has a bundle's documents and no other where documents live.
Holds(t, bundle) ==
    /\ \A d \in DOMAIN bundle : t[d] = bundle[d]
    /\ \A d \in Documents \ DOMAIN bundle : t[d] = Absent

\* What a realization has checkpointed never differs in a document from the
\* revision it works for: nothing changed, nothing removed, nothing slipped into
\* docs/design or ahead of the manifest (the verifications around the runs).
CheckpointKeepsDocuments ==
    \A o \in Operations :
        task[o].phase \in Realization \ {"loop"} /\ task[o].bundle # NoBundle
            => Holds(work[o].checkpoint, task[o].bundle)

\* A promotion leaves every document in the owner's checkout as the owner
\* committed it, whatever was edited, committed, adopted, removed or promoted for
\* another Project on the checkout since the worktree was made (promote).
PromotionKeepsDocuments ==
    [][\A o \in Operations :
          /\ task[o].phase = "promote" /\ task[o].bundle # NoBundle
          /\ primary'.head # primary.head /\ task'[o].phase = "done"
          => /\ Holds(primary'.head, task[o].bundle)
             /\ \A d \in Documents : primary'.head[d] = primary.head[d]]_vars

\* Every accepted turn gets through its intent half, even while a realization of
\* the Project goes on for ever without an approval (the intent lane is released
\* before the realization lane is taken).
TurnsAreAnswered ==
    \A o \in Operations : task[o].phase = "accepted" ~> task[o].phase \notin Turn
=============================================================================
