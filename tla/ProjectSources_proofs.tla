----------------------- MODULE ProjectSources_proofs -----------------------
(***************************************************************************)
(* Proofs about ProjectSources, for every set of paths, contents and       *)
(* links, every number of Projects on the checkout and of operations: its  *)
(* state is typed, a checkpoint has its revision's documents, and a        *)
(* promotion leaves the owner's documents alone.                           *)
(***************************************************************************)
EXTENDS ProjectSources, TLAPS

-----------------------------------------------------------------------------
(* Bundles *)

LEMMA NoBundleType == NoBundle \in Bundles
<1> NoBundle \in [{} -> Contents]
    BY DEF NoBundle
<1> QED
    BY DEF Bundles

LEMMA EmptyTreeType == EmptyTree \in Tree
BY DEF EmptyTree, Tree

LEMMA ReachedIn ==
    ASSUME NEW t \in Tree
    PROVE  /\ Reached[t] \in SUBSET Paths
           /\ Manifest(t) \in Reached[t]
<1> Manifest(t) \in Paths
    BY PathsAssumption DEF Manifest
<1> Reached[t] = {p \in Paths : \A D \in SUBSET Paths :
                     Manifest(t) \in D /\ ClosedUnderLinks(t, D) => p \in D}
    BY DEF Reached
<1> QED
    OBVIOUS

LEMMA ImportType ==
    ASSUME NEW t \in Tree, Imports(t)
    PROVE  Import(t) \in Bundles
<1>1. CASE ~ HasManifest(t)
    BY <1>1, NoBundleType DEF Import
<1>2. CASE HasManifest(t)
    <2>1. Reached[t] \subseteq Present(t) /\ Reached[t] \in SUBSET Paths
        BY <1>2, ReachedIn DEF Imports
    <2>2. \A d \in Reached[t] : t[d] \in Contents
        BY <2>1 DEF Present, Tree
    <2>3. [d \in Reached[t] |-> t[d]] \in [Reached[t] -> Contents]
        BY <2>2
    <2> QED
        BY <1>2, <2>1, <2>3 DEF Import, Bundles
<1> QED
    BY <1>1, <1>2

LEMMA RestoredType ==
    ASSUME NEW t \in Tree, NEW bundle \in Bundles
    PROVE  Restored(t, bundle) \in Tree
<1> PICK D \in SUBSET Paths : bundle \in [D -> Contents]
    BY DEF Bundles
<1> QED
    BY DEF Restored, Tree

\* Nothing but the bundle's documents is where documents live, when import finds
\* the bundle in the tree.
LEMMA VerifiedHolds ==
    ASSUME NEW t \in Tree, NEW bundle, Verifies(t, bundle)
    PROVE  Holds(t, bundle)
<1>1. bundle = [d \in Reached[t] |-> t[d]]
    BY DEF Verifies, Import
<1>2. \A d \in DesignDocs \ Reached[t] : t[d] = Absent
    BY PathsAssumption DEF Verifies, Imports, Present
<1>3. FirstManifest \notin Reached[t] => t[FirstManifest] = Absent
    BY ReachedIn, PathsAssumption DEF Manifest, Present
<1> QED
    BY <1>1, <1>2, <1>3, PathsAssumption DEF Holds, Documents

\* Two trees that hold the same bundle have the same documents.
LEMMA HoldersAgree ==
    ASSUME NEW s, NEW t, NEW bundle, Holds(s, bundle), Holds(t, bundle)
    PROVE  \A d \in Documents : s[d] = t[d]
BY DEF Holds

LEMMA AgreeingHolds ==
    ASSUME NEW s, NEW t, NEW bundle,
           Holds(s, bundle), \A d \in Documents \cup DOMAIN bundle : s[d] = t[d]
    PROVE  Holds(t, bundle)
BY DEF Holds

\* Reached is a closed set with the manifest, and the least one: what import's
\* queue visits.
LEMMA ReachedIsLeast ==
    ASSUME NEW t \in Tree
    PROVE  /\ ClosedUnderLinks(t, Reached[t])
           /\ \A D \in SUBSET Paths :
                  Manifest(t) \in D /\ ClosedUnderLinks(t, D) => Reached[t] \subseteq D
<1>1. Reached[t] = {p \in Paths : \A D \in SUBSET Paths :
                        Manifest(t) \in D /\ ClosedUnderLinks(t, D) => p \in D}
    BY DEF Reached
<1>2. \A d \in Present(t) : Links[d, t[d]] \in SUBSET Paths
    BY PathsAssumption DEF Present, Tree
<1>3. ASSUME NEW d \in Reached[t] \cap Present(t), NEW p \in Links[d, t[d]]
      PROVE  p \in Reached[t]
    <2>1. p \in Paths
        BY <1>2
    <2>2. \A D \in SUBSET Paths : Manifest(t) \in D /\ ClosedUnderLinks(t, D) => p \in D
        BY <1>1 DEF ClosedUnderLinks
    <2> QED
        BY <1>1, <2>1, <2>2
<1> QED
    BY <1>1, <1>3 DEF ClosedUnderLinks

\* A tree with the documents another one reaches, all of them there, reaches the
\* same.
LEMMA SameReached ==
    ASSUME NEW s \in Tree, NEW t \in Tree, Manifest(s) = Manifest(t),
           Reached[t] \subseteq Present(t), \A d \in Reached[t] : s[d] = t[d]
    PROVE  Reached[s] = Reached[t]
<1>1. Reached[s] \in SUBSET Paths /\ Reached[t] \in SUBSET Paths
    BY ReachedIn
<1>2. Reached[s] \subseteq Reached[t]
    <2>1. ClosedUnderLinks(s, Reached[t])
        BY ReachedIsLeast DEF ClosedUnderLinks
    <2> QED
        BY <1>1, <2>1, ReachedIn, ReachedIsLeast
<1>3. Reached[t] \subseteq Reached[s]
    <2>1. \A d \in Reached[s] : s[d] = t[d] /\ d \in Present(s)
        BY <1>1, <1>2 DEF Present
    <2>2. ClosedUnderLinks(t, Reached[s])
        BY <2>1, ReachedIsLeast DEF ClosedUnderLinks
    <2> QED
        BY <1>1, <2>2, ReachedIn, ReachedIsLeast
<1> QED
    BY <1>2, <1>3

\* verify_on_disk, which imports the tree again and compares, accepts exactly the
\* trees that have the bundle's documents and no others: a document that appears
\* where documents live, or a manifest before the bundle's, is refused, and so is
\* nothing else (source_bundle.rs, import and verify_on_disk).
THEOREM VerifyIsExact ==
    ASSUME NEW t \in Tree, HasManifest(t), Imports(t), NEW s \in Tree
    PROVE  Verifies(s, Import(t)) <=> Holds(s, Import(t))
<1>1. SUFFICES ASSUME Holds(s, Import(t)) PROVE Verifies(s, Import(t))
    BY VerifiedHolds
<1>2. Import(t) = [d \in Reached[t] |-> t[d]]
    BY DEF Import
<1>3. /\ \A d \in Reached[t] : s[d] = t[d]
      /\ \A d \in Documents \ Reached[t] : s[d] = Absent
    BY <1>1, <1>2 DEF Holds
<1>4. /\ Reached[t] \subseteq Present(t)
      /\ Reached[t] \subseteq Present(s)
      /\ Reached[t] \in SUBSET Paths
    BY <1>3, ReachedIn DEF Imports, Present
<1>5. Manifest(s) = Manifest(t) /\ HasManifest(s)
    <2>1. CASE FirstManifest \in Present(t)
        <3>1. Manifest(t) = FirstManifest /\ FirstManifest \in Present(s)
            BY <1>4, <2>1, ReachedIn DEF Manifest
        <3> QED
            BY <3>1 DEF Manifest, HasManifest
    <2>2. CASE FirstManifest \notin Present(t)
        <3>1. Manifest(t) = SecondManifest /\ SecondManifest \in Present(s)
            BY <1>4, <2>2, ReachedIn DEF Manifest
        <3>2. FirstManifest \notin Present(s)
            BY <1>3, <1>4, <2>2 DEF Documents, Present
        <3> QED
            BY <3>1, <3>2 DEF Manifest, HasManifest
    <2> QED
        BY <2>1, <2>2
<1>6. Reached[s] = Reached[t]
    BY <1>3, <1>4, <1>5, SameReached
<1>7. DesignDocs \cap Present(s) \subseteq Reached[s]
    BY <1>3, <1>6 DEF Documents, Present
<1>8. [d \in Reached[s] |-> s[d]] = [d \in Reached[t] |-> t[d]]
    BY <1>3, <1>6
<1> QED
    BY <1>2, <1>4, <1>5, <1>6, <1>7, <1>8 DEF Verifies, Imports, Import

\* restore, which writes the bundle's documents over whatever an agent left and
\* verifies, succeeds exactly when the agent has added no document: it repairs
\* every change and every deletion, and deletes nothing (source_bundle.rs,
\* restore).
THEOREM RestoreRepairs ==
    ASSUME NEW t \in Tree, HasManifest(t), Imports(t), NEW s \in Tree
    PROVE  Verifies(Restored(s, Import(t)), Import(t))
               <=> \A d \in Documents \ DOMAIN Import(t) : s[d] = Absent
<1>1. Restored(s, Import(t)) \in Tree
    BY ImportType, RestoredType
<1>2. DOMAIN Import(t) \subseteq Paths
    BY ReachedIn DEF Import
<1>3. Holds(Restored(s, Import(t)), Import(t))
          <=> \A d \in Documents \ DOMAIN Import(t) : s[d] = Absent
    BY <1>2, PathsAssumption DEF Holds, Restored, Documents
<1> QED
    BY <1>1, <1>3, VerifyIsExact

-----------------------------------------------------------------------------
(* Types *)

LEMMA NoTaskType == NoTask \in Task /\ NoWorktree \in Worktree
BY NoBundleType, EmptyTreeType
   DEF NoTask, Task, Phase, Turn, Realization, NoWorktree, Worktree

LEMMA StopType ==
    ASSUME TypeOK, NEW o \in Operations, Stop(o)
    PROVE  task' \in [Operations -> Task] /\ work' \in [Operations -> Worktree]
<1> [NoTask EXCEPT !.phase = "done"] \in Task
    BY NoTaskType DEF Task, Phase
<1> QED
    BY NoTaskType DEF TypeOK, Stop

LEMMA GotoType ==
    ASSUME TypeOK, NEW o \in Operations, NEW phase \in Phase, Goto(o, phase)
    PROVE  task' \in [Operations -> Task] /\ work' \in [Operations -> Worktree]
<1> [task[o] EXCEPT !.phase = phase] \in Task
    BY DEF TypeOK, Task
<1> QED
    BY DEF TypeOK, Goto

LEMMA WrittenType ==
    ASSUME NEW t \in Tree, NEW s \in Written(t)
    PROVE  s \in Tree
<1> \A p \in Paths, c \in Contents \cup {Absent} : [t EXCEPT ![p] = c] \in Tree
    BY DEF Tree
<1> QED
    BY DEF Written

\* A task under way is one of a Project that was initialized.
ExistInv ==
    \A o \in Operations : task[o].phase \notin {"new", "done"} =>
        /\ task[o].project \in Projects
        /\ SourceOf(o).known \/ SourceOf(o).removed

LEMMA TaskFacts ==
    ASSUME TypeOK, ExistInv, NEW o \in Operations, task[o].phase \notin {"new", "done"}
    PROVE  /\ task[o] \in Task /\ work[o] \in Worktree
           /\ task[o].project \in Projects
           /\ SourceOf(o) \in Source
           /\ primary \in Checkout
BY DEF TypeOK, SourceOf, ExistInv

LEMMA CheckpointType ==
    ASSUME TypeOK, ExistInv, NEW o \in Operations, NEW t \in Tree,
           task[o].phase = "implement", Checkpoint(o, t)
    PROVE  task' \in [Operations -> Task] /\ work' \in [Operations -> Worktree]
<1>1. CASE ~ SourceOf(o).known
    BY <1>1, StopType DEF Checkpoint
<1>2. CASE SourceOf(o).known
    <2>1. [work[o] EXCEPT !.checkpoint = t,
                          !.ahead = work[o].ahead \/ t # work[o].checkpoint] \in Worktree
        BY TaskFacts DEF Worktree
    <2>2. [task[o] EXCEPT !.phase = "review", !.before = t] \in Task
        BY TaskFacts DEF Task, Phase, Realization
    <2>3. /\ work' = [work EXCEPT ![o] = [work[o] EXCEPT !.checkpoint = t,
                          !.ahead = work[o].ahead \/ t # work[o].checkpoint]]
          /\ task' = [task EXCEPT ![o] = [task[o] EXCEPT !.phase = "review", !.before = t]]
        BY <1>2 DEF Checkpoint, TypeOK, Worktree, Task
    <2> QED
        BY <2>1, <2>2, <2>3 DEF TypeOK
<1> QED
    BY <1>1, <1>2

LEMMA ToLaneType ==
    ASSUME TypeOK, ExistInv, NEW o \in Operations, NEW rev \in Nat,
           task[o].phase \notin {"new", "done"}, ToLane(o, rev)
    PROVE  task' \in [Operations -> Task] /\ work' \in [Operations -> Worktree]
<1> [NoTask EXCEPT !.phase = "lane", !.project = task[o].project,
                   !.rev = rev, !.bundle = task[o].bundle] \in Task
    BY TaskFacts, NoTaskType DEF Task, Phase
<1> QED
    BY DEF TypeOK, ToLane

LEMMA OwnerType ==
    ASSUME TypeOK, Owner
    PROVE  TypeOK'
<1> USE DEF TypeOK
<1>1. ASSUME NEW p \in Paths, NEW c \in Contents \cup {Absent}, Edit(p, c) PROVE TypeOK'
    <2> [primary.files EXCEPT ![p] = c] \in Tree
        BY DEF Checkout, Tree
    <2> primary' \in Checkout
        BY <1>1 DEF Edit, Checkout
    <2> QED
        BY <1>1 DEF Edit
<1>2. CASE OwnerCommits
    <2>1. primary.files \in Tree /\ primary.commit + 1 \in Nat
        BY DEF Checkout
    <2>2. [primary EXCEPT !.head = primary.files, !.commit = primary.commit + 1] \in Checkout
        BY <2>1 DEF Checkout
    <2>3. primary' = [primary EXCEPT !.head = primary.files, !.commit = primary.commit + 1]
        BY <1>2 DEF OwnerCommits, Checkout
    <2> QED
        BY <1>2, <2>2, <2>3 DEF OwnerCommits
<1>3. ASSUME NEW p \in Projects, Initialize(p) PROVE TypeOK'
    <2>1. Import(primary.files) \in Bundles
        BY <1>3, ImportType DEF Initialize, Checkout
    <2>2. [source[p] EXCEPT !.known = TRUE, !.bundle = Import(primary.files)] \in Source
        BY <2>1 DEF Source
    <2> QED
        BY <1>3, <2>2 DEF Initialize
<1>4. ASSUME NEW p \in Projects, Remove(p) PROVE TypeOK'
    <2> [source[p] EXCEPT !.known = FALSE, !.removed = TRUE] \in Source
        BY DEF Source
    <2> QED
        BY <1>4 DEF Remove
<1>5. ASSUME NEW o \in Operations, NEW p \in Projects, AcceptIntent(o, p) PROVE TypeOK'
    <2> [task[o] EXCEPT !.phase = "accepted", !.project = p] \in Task
        BY DEF Task, Phase, Turn
    <2> QED
        BY <1>5 DEF AcceptIntent
<1> QED
    BY <1>1, <1>2, <1>3, <1>4, <1>5 DEF Owner

LEMMA TurnType ==
    ASSUME TypeOK, ExistInv, NEW o \in Operations, TurnStep(o)
    PROVE  TypeOK'
<1>1. CASE TakeIntentLane(o)
    <2>1. CASE SourceOf(o).known /\ Imports(primary.files)
        <3>1. task[o].phase = "accepted"
            BY <1>1 DEF TakeIntentLane
        <3>2. Import(primary.files) \in Bundles
            BY <2>1, <3>1, TaskFacts, ImportType DEF Checkout
        <3>3. [task[o] EXCEPT !.phase = "import", !.rev = SourceOf(o).rev,
                              !.bundle = SourceOf(o).bundle,
                              !.seen = Import(primary.files)] \in Task
            BY <3>1, <3>2, TaskFacts DEF Task, Phase, Turn, Source
        <3> QED
            BY <1>1, <2>1, <3>3 DEF TakeIntentLane, TypeOK
    <2>2. CASE ~ (SourceOf(o).known /\ Imports(primary.files))
        BY <1>1, <2>2, StopType DEF TakeIntentLane, TypeOK
    <2> QED
        BY <2>1, <2>2
<1>2. CASE Fingerprint(o)
    <2> [task[o] EXCEPT !.phase = "intent", !.before = primary.files] \in Task
        BY DEF TypeOK, Task, Phase, Turn, Checkout
    <2> QED
        BY <1>2 DEF Fingerprint, TypeOK
<1>3. CASE RefuseProposal(o)
    <2>1. Restored(primary.files, task[o].seen) \in Tree
        BY RestoredType DEF TypeOK, Checkout, Task
    <2>2. primary' \in Checkout
        BY <1>3, <2>1 DEF RefuseProposal, Checkout, TypeOK
    <2> QED
        BY <1>3, <2>2, StopType DEF RefuseProposal, TypeOK
<1>4. ASSUME NEW b \in BOOLEAN, ProposeUpdate(o, b) PROVE TypeOK'
    <2> [task[o] EXCEPT !.phase = "commit", !.bundle = task[o].seen] \in Task
        BY DEF TypeOK, Task, Phase, Turn
    <2> QED
        BY <1>4, StopType DEF ProposeUpdate, TypeOK
<1>5. ASSUME NEW b \in BOOLEAN, CommitIntent(o, b) PROVE TypeOK'
    <2>1. task[o].phase = "commit"
        BY <1>5 DEF CommitIntent
    <2>2. task[o].rev \in Nat /\ task[o].bundle \in Bundles /\ task[o].project \in Projects
        BY <2>1, TaskFacts DEF Task
    <2>3. [source[task[o].project] EXCEPT !.rev = task[o].rev + 1, !.active = b,
                                          !.bundle = task[o].bundle] \in Source
        <3>1. source[task[o].project] \in Source /\ task[o].rev + 1 \in Nat
            BY <2>2 DEF TypeOK
        <3> QED
            BY <2>2, <3>1 DEF Source
    <2>4. source' \in [Projects -> Source]
        BY <1>5, <2>2, <2>3 DEF CommitIntent, TypeOK
    <2>5. Stop(o) \/ ToLane(o, task[o].rev + 1)
        BY <1>5 DEF CommitIntent
    <2>6. task' \in [Operations -> Task] /\ work' \in [Operations -> Worktree]
        BY <2>1, <2>2, <2>5, StopType, ToLaneType
    <2> QED
        BY <1>5, <2>4, <2>6 DEF CommitIntent, TypeOK
<1>6. CASE ProposeNothing(o)
    <2>1. task[o].phase = "intent" /\ (Stop(o) \/ ToLane(o, task[o].rev))
        BY <1>6 DEF ProposeNothing
    <2>2. task[o].rev \in Nat
        BY <2>1, TaskFacts DEF Task
    <2> QED
        BY <1>6, <2>1, <2>2, StopType, ToLaneType DEF ProposeNothing, TypeOK
<1> QED
    BY <1>1, <1>2, <1>3, <1>4, <1>5, <1>6 DEF TurnStep

LEMMA RealizationType ==
    ASSUME TypeOK, ExistInv, NEW o \in Operations, RealizationStep(o)
    PROVE  TypeOK'
<1>1. CASE Prepare(o)
    <2>1. [checkpoint |-> primary.head, base |-> primary.commit, ahead |-> FALSE] \in Worktree
        BY DEF TypeOK, Checkout, Worktree
    <2>2. [task[o] EXCEPT !.phase = "loop"] \in Task
        BY DEF TypeOK, Task, Phase, Realization
    <2> QED
        BY <1>1, <2>1, <2>2, StopType DEF Prepare, TypeOK
<1>2. CASE LoopHead(o)
    <2>1. task[o].phase = "loop"
        BY <1>2 DEF LoopHead
    <2>2. [task[o] EXCEPT !.phase = "implement", !.bundle = SourceOf(o).bundle] \in Task
        BY <2>1, TaskFacts DEF Task, Phase, Realization, Source
    <2> QED
        BY <1>2, <2>2, StopType DEF LoopHead, TypeOK
<1>3. ASSUME NEW t \in Written(work[o].checkpoint), Implemented(o, t) PROVE TypeOK'
    <2>1. task[o].phase = "implement"
        BY <1>3 DEF Implemented
    <2>2. t \in Tree
        BY <2>1, TaskFacts, WrittenType DEF Worktree
    <2> QED
        BY <1>3, <2>1, <2>2, StopType, CheckpointType DEF Implemented, TypeOK
<1>4. ASSUME NEW t \in Written(work[o].checkpoint), NEW b \in BOOLEAN, Reviewed(o, t, b)
      PROVE TypeOK'
    <2>1. Stop(o) \/ Goto(o, "approval") \/ Goto(o, "loop")
        BY <1>4 DEF Reviewed
    <2>2. {"approval", "loop"} \subseteq Phase
        BY DEF Phase, Realization
    <2> QED
        BY <1>4, <2>1, <2>2, StopType, GotoType DEF Reviewed, TypeOK
<1>5. ASSUME NEW b \in BOOLEAN, ColdReviewed(o, b) PROVE TypeOK'
    <2>1. Stop(o) \/ Goto(o, "promote") \/ Goto(o, "loop")
        BY <1>5 DEF ColdReviewed
    <2>2. {"promote", "loop"} \subseteq Phase
        BY DEF Phase, Realization
    <2> QED
        BY <1>5, <2>1, <2>2, StopType, GotoType DEF ColdReviewed, TypeOK
<1>6. CASE Promote(o)
    <2>1. primary' \in Checkout
        <3> /\ primary.commit \in Nat /\ primary.commit + 1 \in Nat
            /\ work[o].checkpoint \in Tree
            BY DEF TypeOK, Checkout, Worktree
        <3> QED
            BY <1>6 DEF Promote, TypeOK, Checkout
    <2> QED
        BY <1>6, <2>1, StopType DEF Promote, TypeOK
<1> QED
    BY <1>1, <1>2, <1>3, <1>4, <1>5, <1>6 DEF RealizationStep

LEMMA TypeStep ==
    ASSUME TypeOK, ExistInv, [Next]_vars
    PROVE  TypeOK'
<1>1. CASE UNCHANGED vars
    BY <1>1 DEF TypeOK, vars
<1>2. ASSUME NEW o \in Operations, RunFails(o) PROVE TypeOK'
    BY <1>2, StopType DEF RunFails, TypeOK
<1> QED
    BY <1>1, <1>2, OwnerType, TurnType, RealizationType DEF Next, Step

-----------------------------------------------------------------------------
(* The invariant *)

\* The intent lane: one task of a Project has it, and what that task read of the
\* source is still what the source is.
LaneInv ==
    \A o \in Operations : HoldsIntentLane(o) =>
        /\ \A q \in Siblings(o) : ~ HoldsIntentLane(q)
        /\ SourceOf(o).known =>
              /\ task[o].rev = SourceOf(o).rev
              /\ task[o].phase # "commit" => task[o].bundle = SourceOf(o).bundle

\* A revision's bundle is never another's: a task whose revision is still the
\* source's has the source's bundle.
RevInv ==
    \A o \in Operations : task[o].phase \in {"lane"} \cup Realization /\ SourceOf(o).known =>
        /\ task[o].rev <= SourceOf(o).rev
        /\ task[o].rev = SourceOf(o).rev => task[o].bundle = SourceOf(o).bundle

\* While HEAD is where the worktree began, the worktree has HEAD's documents, and
\* all of HEAD's files when it has no commit of its own.
WorkInv ==
    \A o \in Operations : task[o].phase \in Realization =>
        /\ work[o].base <= primary.commit
        /\ work[o].base = primary.commit =>
              /\ ~ work[o].ahead => work[o].checkpoint = primary.head
              /\ task[o].bundle # NoBundle =>
                    \A d \in Documents : work[o].checkpoint[d] = primary.head[d]

IInv == TypeOK /\ ExistInv /\ LaneInv /\ RevInv /\ WorkInv /\ CheckpointKeepsDocuments

-----------------------------------------------------------------------------
(* Steps of one task that leave the sources alone *)

\* What task o becomes, when it does not end.
LEMMA TaskBecomes ==
    ASSUME IInv, NEW o \in Operations, Stop(o)
    PROVE  /\ \A q \in Operations \ {o} : task'[q] = task[q] /\ work'[q] = work[q]
           /\ task'[o].phase = "done"
<1> NoTask \in Task
    BY NoTaskType
<1> [NoTask EXCEPT !.phase = "done"].phase = "done"
    BY DEF NoTask
<1> QED
    BY DEF IInv, TypeOK, Stop

LEMMA LaneBecomes ==
    ASSUME IInv, NEW o \in Operations, NEW rev, ToLane(o, rev)
    PROVE  /\ \A q \in Operations \ {o} : task'[q] = task[q] /\ work'[q] = work[q]
           /\ task'[o].phase = "lane" /\ task'[o].project = task[o].project
           /\ task'[o].rev = rev /\ task'[o].bundle = task[o].bundle
<1> NoTask \in Task
    BY NoTaskType
<1> QED
    BY DEF IInv, TypeOK, ToLane, Task

LEMMA ExistFrame ==
    ASSUME IInv, NEW o \in Operations, UNCHANGED source,
           \A q \in Operations \ {o} : task'[q] = task[q],
           task'[o].phase \notin {"new", "done"} =>
               task[o].phase \notin {"new", "done"} /\ task'[o].project = task[o].project
    PROVE  ExistInv'
BY DEF IInv, ExistInv, SourceOf

LEMMA LaneFrame ==
    ASSUME IInv, NEW o \in Operations, UNCHANGED source,
           \A q \in Operations \ {o} : task'[q] = task[q],
           HoldsIntentLane(o)' =>
               /\ task'[o].project = task[o].project
               /\ \A q \in Siblings(o) : ~ HoldsIntentLane(q)
               /\ SourceOf(o).known =>
                     /\ task'[o].rev = SourceOf(o).rev
                     /\ task'[o].phase # "commit" => task'[o].bundle = SourceOf(o).bundle
    PROVE  LaneInv'
<1> SUFFICES ASSUME NEW q \in Operations, HoldsIntentLane(q)'
             PROVE  /\ \A r \in Siblings(q)' : ~ HoldsIntentLane(r)'
                    /\ SourceOf(q)'.known =>
                          /\ task'[q].rev = SourceOf(q)'.rev
                          /\ task'[q].phase # "commit" => task'[q].bundle = SourceOf(q)'.bundle
    BY DEF LaneInv
<1>1. CASE q = o
    <2>1. \A r \in Siblings(o)' : r \in Siblings(o) /\ ~ HoldsIntentLane(r)'
        BY <1>1 DEF Siblings, HoldsIntentLane
    <2> QED
        BY <1>1, <2>1 DEF SourceOf
<1>2. CASE q # o
    <2>1. HoldsIntentLane(q)
        BY <1>2 DEF HoldsIntentLane
    <2>2. ASSUME NEW r \in Siblings(q)', HoldsIntentLane(r)' PROVE FALSE
        <3>1. CASE r = o
            <4>1. q \in Siblings(o)
                BY <1>2, <2>2, <3>1 DEF Siblings
            <4> QED
                BY <2>1, <2>2, <3>1, <4>1
        <3>2. CASE r # o
            <4>1. r \in Siblings(q) /\ HoldsIntentLane(r)
                BY <1>2, <2>2, <3>2 DEF Siblings, HoldsIntentLane
            <4> QED
                BY <2>1, <4>1 DEF IInv, LaneInv
        <3> QED
            BY <3>1, <3>2
    <2>3. SourceOf(q)' = SourceOf(q)
        BY <1>2 DEF SourceOf
    <2> QED
        BY <1>2, <2>1, <2>2, <2>3 DEF IInv, LaneInv
<1> QED
    BY <1>1, <1>2

LEMMA RevFrame ==
    ASSUME IInv, NEW o \in Operations, UNCHANGED source,
           \A q \in Operations \ {o} : task'[q] = task[q],
           task'[o].phase \in {"lane"} \cup Realization =>
               /\ task'[o].project = task[o].project
               /\ SourceOf(o).known =>
                     /\ task'[o].rev <= SourceOf(o).rev
                     /\ task'[o].rev = SourceOf(o).rev => task'[o].bundle = SourceOf(o).bundle
    PROVE  RevInv'
BY DEF IInv, RevInv, SourceOf

\* The checkout's HEAD stays.
LEMMA WorkFrame ==
    ASSUME IInv, NEW o \in Operations,
           primary'.head = primary.head, primary'.commit = primary.commit,
           \A q \in Operations \ {o} : task'[q] = task[q] /\ work'[q] = work[q],
           task'[o].phase \in Realization =>
               /\ work'[o].base <= primary.commit
               /\ work'[o].base = primary.commit =>
                     /\ ~ work'[o].ahead => work'[o].checkpoint = primary.head
                     /\ task'[o].bundle # NoBundle =>
                           \A d \in Documents : work'[o].checkpoint[d] = primary.head[d]
    PROVE  WorkInv'
BY DEF IInv, WorkInv

LEMMA KeepsFrame ==
    ASSUME IInv, NEW o \in Operations,
           \A q \in Operations \ {o} : task'[q] = task[q] /\ work'[q] = work[q],
           task'[o].phase \in Realization \ {"loop"} /\ task'[o].bundle # NoBundle
               => Holds(work'[o].checkpoint, task'[o].bundle)
    PROVE  CheckpointKeepsDocuments'
BY DEF IInv, CheckpointKeepsDocuments

\* A task that ends leaves the invariant to the others.
LEMMA StopKeeps ==
    ASSUME IInv, NEW o \in Operations, Stop(o), UNCHANGED source,
           primary'.head = primary.head, primary'.commit = primary.commit
    PROVE  ExistInv' /\ LaneInv' /\ RevInv' /\ WorkInv' /\ CheckpointKeepsDocuments'
<1>1. /\ \A q \in Operations \ {o} : task'[q] = task[q] /\ work'[q] = work[q]
      /\ task'[o].phase = "done"
    BY TaskBecomes
<1>2. ExistInv' /\ RevInv'
    BY <1>1, ExistFrame, RevFrame DEF Realization
<1>3. LaneInv'
    BY <1>1, LaneFrame DEF HoldsIntentLane
<1>4. WorkInv' /\ CheckpointKeepsDocuments'
    BY <1>1, WorkFrame, KeepsFrame DEF Realization
<1> QED
    BY <1>2, <1>3, <1>4

-----------------------------------------------------------------------------
(* The invariant is inductive *)

LEMMA OwnerKeeps ==
    ASSUME IInv, Owner
    PROVE  ExistInv' /\ LaneInv' /\ RevInv' /\ WorkInv' /\ CheckpointKeepsDocuments'
<1> USE DEF IInv
<1>1. ASSUME NEW p \in Paths, NEW c \in Contents \cup {Absent}, Edit(p, c)
      PROVE  ExistInv' /\ LaneInv' /\ RevInv' /\ WorkInv' /\ CheckpointKeepsDocuments'
    <2>1. /\ primary'.head = primary.head /\ primary'.commit = primary.commit
          /\ UNCHANGED <<work, source, task>>
        BY <1>1 DEF Edit, TypeOK, Checkout
    <2>2. ExistInv' /\ RevInv' /\ CheckpointKeepsDocuments'
        BY <2>1 DEF ExistInv, RevInv, CheckpointKeepsDocuments, SourceOf
    <2>3. LaneInv' /\ WorkInv'
        BY <2>1 DEF LaneInv, WorkInv, HoldsIntentLane, Siblings, SourceOf
    <2> QED
        BY <2>2, <2>3
<1>2. CASE OwnerCommits
    <2>1. /\ primary'.commit = primary.commit + 1 /\ primary.commit \in Nat
          /\ UNCHANGED <<work, source, task>>
        BY <1>2 DEF OwnerCommits, TypeOK, Checkout
    <2>2. ExistInv' /\ RevInv' /\ CheckpointKeepsDocuments'
        BY <2>1 DEF ExistInv, RevInv, CheckpointKeepsDocuments, SourceOf
    <2>3. LaneInv'
        BY <2>1 DEF LaneInv, HoldsIntentLane, Siblings, SourceOf
    <2>4. \A o \in Operations : work[o].base \in Nat
        BY DEF TypeOK, Worktree
    <2>5. WorkInv'
        BY <2>1, <2>4 DEF WorkInv
    <2> QED
        BY <2>2, <2>3, <2>5
<1>3. ASSUME NEW p \in Projects, Initialize(p) \/ Remove(p)
      PROVE  ExistInv' /\ LaneInv' /\ RevInv' /\ WorkInv' /\ CheckpointKeepsDocuments'
    <2>1. UNCHANGED <<primary, work, task>> /\ source[p] \in Source
        BY <1>3 DEF Initialize, Remove, TypeOK
    <2>2. \A r \in Projects \ {p} : source'[r] = source[r]
        BY <1>3 DEF Initialize, Remove, TypeOK
    <2>3. \/ ~ source[p].known /\ ~ source[p].removed
          \/ ~ source'[p].known /\ source'[p].removed
        BY <1>3 DEF Initialize, Remove, TypeOK, Source
    <2>4. ExistInv'
        BY <2>1, <2>2, <2>3 DEF ExistInv, SourceOf
    <2>5. LaneInv'
        <3> SUFFICES ASSUME NEW o \in Operations, HoldsIntentLane(o)'
                     PROVE  /\ \A q \in Siblings(o)' : ~ HoldsIntentLane(q)'
                            /\ SourceOf(o)'.known =>
                                  /\ task'[o].rev = SourceOf(o)'.rev
                                  /\ task'[o].phase # "commit" =>
                                        task'[o].bundle = SourceOf(o)'.bundle
            BY DEF LaneInv
        <3>1. HoldsIntentLane(o) /\ \A q \in Siblings(o)' : ~ HoldsIntentLane(q)'
            BY <2>1 DEF HoldsIntentLane, Siblings, LaneInv
        <3>2. task[o].phase \notin {"new", "done"}
            BY <3>1 DEF HoldsIntentLane
        <3>3. SourceOf(o)' = SourceOf(o) \/ ~ SourceOf(o)'.known
            BY <2>1, <2>2, <2>3, <3>2 DEF ExistInv, SourceOf
        <3> QED
            BY <2>1, <3>1, <3>3 DEF LaneInv
    <2>6. RevInv'
        <3> SUFFICES ASSUME NEW o \in Operations, SourceOf(o)'.known,
                            task[o].phase \in {"lane"} \cup Realization
                     PROVE  /\ task[o].rev <= SourceOf(o)'.rev
                            /\ task[o].rev = SourceOf(o)'.rev =>
                                  task[o].bundle = SourceOf(o)'.bundle
            BY <2>1 DEF RevInv
        <3>1. task[o].phase \notin {"new", "done"}
            BY DEF Realization
        <3>2. SourceOf(o)' = SourceOf(o)
            BY <2>1, <2>2, <2>3, <3>1 DEF ExistInv, SourceOf
        <3> QED
            BY <3>2 DEF RevInv
    <2>7. WorkInv' /\ CheckpointKeepsDocuments'
        BY <2>1 DEF WorkInv, CheckpointKeepsDocuments
    <2> QED
        BY <2>4, <2>5, <2>6, <2>7
<1>4. ASSUME NEW o \in Operations, NEW p \in Projects, AcceptIntent(o, p)
      PROVE  ExistInv' /\ LaneInv' /\ RevInv' /\ WorkInv' /\ CheckpointKeepsDocuments'
    <2>1. /\ \A q \in Operations \ {o} : task'[q] = task[q]
          /\ task'[o].phase = "accepted" /\ task'[o].project = p /\ source[p].known
          /\ UNCHANGED <<primary, work, source>>
        BY <1>4 DEF AcceptIntent, TypeOK, Task
    <2>2. ExistInv'
        BY <2>1 DEF ExistInv, SourceOf
    <2>3. LaneInv' /\ RevInv'
        BY <2>1, LaneFrame, RevFrame DEF HoldsIntentLane, Realization
    <2>4. WorkInv' /\ CheckpointKeepsDocuments'
        BY <2>1, WorkFrame, KeepsFrame DEF Realization
    <2> QED
        BY <2>2, <2>3, <2>4
<1> QED
    BY <1>1, <1>2, <1>3, <1>4 DEF Owner

\* A step of an intent turn that reads, and leaves worktree and sources alone.
LEMMA TurnFrame ==
    ASSUME IInv, NEW o \in Operations, UNCHANGED <<primary, work, source>>,
           task[o].phase \in Turn,
           \A q \in Operations \ {o} : task'[q] = task[q],
           task'[o].project = task[o].project,
           task'[o].phase \in {"import", "intent", "commit", "lane"},
           HoldsIntentLane(o)' => \A q \in Siblings(o) : ~ HoldsIntentLane(q),
           SourceOf(o).known =>
               /\ task'[o].rev = SourceOf(o).rev
               /\ task'[o].phase # "commit" => task'[o].bundle = SourceOf(o).bundle
    PROVE  ExistInv' /\ LaneInv' /\ RevInv' /\ WorkInv' /\ CheckpointKeepsDocuments'
<1>1. task[o].phase \notin {"new", "done"} /\ task'[o].phase \notin Realization
    BY DEF Turn, Realization
<1>2. SourceOf(o).rev \in Nat
    BY <1>1, TaskFacts DEF IInv, Source
<1>3. ExistInv'
    BY <1>1, ExistFrame
<1>4. LaneInv'
    BY LaneFrame
<1>5. RevInv'
    BY <1>1, <1>2, RevFrame
<1>6. WorkInv' /\ CheckpointKeepsDocuments'
    BY <1>1, WorkFrame, KeepsFrame
<1> QED
    BY <1>3, <1>4, <1>5, <1>6

LEMMA TurnKeeps ==
    ASSUME IInv, NEW o \in Operations, TurnStep(o)
    PROVE  ExistInv' /\ LaneInv' /\ RevInv' /\ WorkInv' /\ CheckpointKeepsDocuments'
<1> USE DEF IInv
<1> DEFINE Keeps == ExistInv' /\ LaneInv' /\ RevInv' /\ WorkInv' /\ CheckpointKeepsDocuments'
<1>1. CASE TakeIntentLane(o)
    <2>1. CASE SourceOf(o).known /\ Imports(primary.files)
        <3>1. /\ task[o].phase = "accepted" /\ task'[o].phase = "import"
              /\ task'[o].project = task[o].project
              /\ task'[o].rev = SourceOf(o).rev /\ task'[o].bundle = SourceOf(o).bundle
              /\ \A q \in Operations \ {o} : task'[q] = task[q]
              /\ UNCHANGED <<primary, work, source>>
            BY <1>1, <2>1 DEF TakeIntentLane, TypeOK, Task
        <3>2. \A q \in Siblings(o) : ~ HoldsIntentLane(q)
            BY <1>1 DEF TakeIntentLane
        <3> QED
            BY <3>1, <3>2, TurnFrame DEF Turn
    <2>2. CASE ~ (SourceOf(o).known /\ Imports(primary.files))
        BY <1>1, <2>2, StopKeeps DEF TakeIntentLane
    <2> QED
        BY <2>1, <2>2
<1>2. CASE Fingerprint(o)
    <2>1. /\ task[o].phase = "import" /\ task'[o].phase = "intent"
          /\ task'[o].project = task[o].project
          /\ task'[o].rev = task[o].rev /\ task'[o].bundle = task[o].bundle
          /\ \A q \in Operations \ {o} : task'[q] = task[q]
          /\ UNCHANGED <<primary, work, source>>
        BY <1>2 DEF Fingerprint, TypeOK, Task
    <2> QED
        BY <2>1, TurnFrame DEF Turn, HoldsIntentLane, LaneInv
<1>3. CASE RefuseProposal(o)
    <2> Stop(o) /\ UNCHANGED source
        /\ primary'.head = primary.head /\ primary'.commit = primary.commit
        BY <1>3 DEF RefuseProposal, TypeOK, Checkout
    <2> QED
        BY StopKeeps
<1>4. ASSUME NEW b \in BOOLEAN, ProposeUpdate(o, b) PROVE Keeps
    <2>1. CASE b \/ task[o].seen = task[o].bundle
        <3>1. /\ task[o].phase = "intent" /\ task'[o].phase = "commit"
              /\ task'[o].project = task[o].project /\ task'[o].rev = task[o].rev
              /\ \A q \in Operations \ {o} : task'[q] = task[q]
              /\ UNCHANGED <<primary, work, source>>
            BY <1>4, <2>1 DEF ProposeUpdate, TypeOK, Task
        <3> QED
            BY <3>1, TurnFrame DEF Turn, HoldsIntentLane, LaneInv
    <2>2. CASE ~ (b \/ task[o].seen = task[o].bundle)
        BY <1>4, <2>2, StopKeeps DEF ProposeUpdate
    <2> QED
        BY <2>1, <2>2
<1>5. CASE ProposeNothing(o)
    <2>1. task[o].phase = "intent" /\ UNCHANGED <<primary, source>>
        BY <1>5 DEF ProposeNothing
    <2>2. CASE task[o].seen = task[o].bundle /\ Current(o)
        <3>1. /\ task'[o].phase = "lane" /\ task'[o].project = task[o].project
              /\ task'[o].rev = task[o].rev /\ task'[o].bundle = task[o].bundle
              /\ \A q \in Operations \ {o} : task'[q] = task[q]
              /\ UNCHANGED work
            BY <1>5, <2>2, NoTaskType DEF ProposeNothing, ToLane, TypeOK, Task
        <3> QED
            BY <2>1, <3>1, TurnFrame DEF Turn, HoldsIntentLane, LaneInv
    <2>3. CASE ~ (task[o].seen = task[o].bundle /\ Current(o))
        BY <1>5, <2>1, <2>3, StopKeeps DEF ProposeNothing
    <2> QED
        BY <2>2, <2>3
<1>6. ASSUME NEW b \in BOOLEAN, CommitIntent(o, b) PROVE Keeps
    <2>1. task[o].phase = "commit" /\ UNCHANGED primary
        BY <1>6 DEF CommitIntent
    <2>2. CASE ~ SourceOf(o).known
        BY <1>6, <2>1, <2>2, StopKeeps DEF CommitIntent
    <2>3. CASE SourceOf(o).known
        <3> DEFINE p == task[o].project
        <3>1. /\ p \in Projects /\ SourceOf(o) \in Source /\ task[o].rev = SourceOf(o).rev
              /\ \A q \in Siblings(o) : ~ HoldsIntentLane(q)
            BY <2>1, <2>3, TaskFacts DEF LaneInv, HoldsIntentLane
        <3>2. source'[p] = [source[p] EXCEPT !.rev = task[o].rev + 1, !.active = b,
                                             !.bundle = task[o].bundle]
            BY <1>6, <2>3, <3>1 DEF CommitIntent, TypeOK
        <3>3. /\ source'[p].known /\ source'[p].rev = source[p].rev + 1
              /\ source'[p].bundle = task[o].bundle
              /\ source[p].rev \in Nat
            BY <2>3, <3>1, <3>2 DEF SourceOf, Source
        <3>4. \A r \in Projects \ {p} : source'[r] = source[r]
            BY <1>6, <2>3 DEF CommitIntent, TypeOK
        <3>5. /\ \A q \in Operations \ {o} : task'[q] = task[q] /\ work'[q] = work[q]
              /\ \/ task'[o].phase = "done"
                 \/ /\ task'[o].phase = "lane" /\ task'[o].project = p
                    /\ task'[o].rev = task[o].rev + 1 /\ task'[o].bundle = task[o].bundle
            <4>1. CASE b
                <5>1. ToLane(o, task[o].rev + 1)
                    BY <1>6, <2>3, <4>1 DEF CommitIntent
                <5> QED
                    BY <5>1, LaneBecomes
            <4>2. CASE ~ b
                BY <1>6, <2>3, <4>2, TaskBecomes DEF CommitIntent
            <4> QED
                BY <4>1, <4>2
        <3>6. ExistInv'
            BY <2>1, <2>3, <3>1, <3>3, <3>4, <3>5 DEF ExistInv, SourceOf
        <3>7. LaneInv'
            <4> SUFFICES ASSUME NEW q \in Operations, HoldsIntentLane(q)'
                         PROVE  /\ \A r \in Siblings(q)' : ~ HoldsIntentLane(r)'
                                /\ SourceOf(q)'.known =>
                                      /\ task'[q].rev = SourceOf(q)'.rev
                                      /\ task'[q].phase # "commit" =>
                                            task'[q].bundle = SourceOf(q)'.bundle
                BY DEF LaneInv
            <4>1. q # o /\ task'[q] = task[q] /\ HoldsIntentLane(q)
                BY <3>5 DEF HoldsIntentLane
            <4>2. task[q].project # p /\ task[q].project \in Projects
                BY <3>1, <4>1, TaskFacts DEF Siblings, HoldsIntentLane
            <4>3. SourceOf(q)' = SourceOf(q)
                BY <3>4, <4>1, <4>2 DEF SourceOf
            <4>4. ASSUME NEW r \in Siblings(q)', HoldsIntentLane(r)' PROVE FALSE
                <5>1. r # o /\ task'[r] = task[r]
                    BY <3>5, <4>4 DEF HoldsIntentLane, Siblings
                <5> QED
                    BY <4>1, <4>4, <5>1 DEF Siblings, HoldsIntentLane, LaneInv
            <4> QED
                BY <4>1, <4>3, <4>4 DEF LaneInv
        <3>8. RevInv'
            <4> SUFFICES ASSUME NEW q \in Operations, SourceOf(q)'.known,
                                task'[q].phase \in {"lane"} \cup Realization
                         PROVE  /\ task'[q].rev <= SourceOf(q)'.rev
                                /\ task'[q].rev = SourceOf(q)'.rev =>
                                      task'[q].bundle = SourceOf(q)'.bundle
                BY DEF RevInv
            <4>1. CASE q = o
                BY <3>1, <3>3, <3>5, <4>1 DEF SourceOf, Realization
            <4>2. CASE q # o
                <5>1. /\ task'[q] = task[q] /\ task[q].project \in Projects
                      /\ task[q].rev \in Nat
                    BY <3>5, <4>2, TaskFacts DEF Realization, Task
                <5>2. CASE task[q].project = p
                    BY <2>3, <3>3, <5>1, <5>2 DEF RevInv, SourceOf
                <5>3. CASE task[q].project # p
                    BY <3>4, <5>1, <5>3 DEF RevInv, SourceOf
                <5> QED
                    BY <5>2, <5>3
            <4> QED
                BY <4>1, <4>2
        <3>9. WorkInv' /\ CheckpointKeepsDocuments'
            BY <2>1, <3>5, WorkFrame, KeepsFrame DEF Realization
        <3> QED
            BY <3>6, <3>7, <3>8, <3>9
    <2> QED
        BY <2>2, <2>3
<1> QED
    BY <1>1, <1>2, <1>3, <1>4, <1>5, <1>6 DEF TurnStep

\* A step of a realization that stays in the worktree: what WorkInv and
\* CheckpointKeepsDocuments need of the task that takes it.
LEMMA RealizationFrame ==
    ASSUME IInv, NEW o \in Operations, UNCHANGED <<primary, source>>,
           task[o].phase \in {"lane"} \cup Realization,
           \A q \in Operations \ {o} : task'[q] = task[q] /\ work'[q] = work[q],
           task'[o].phase \in Realization,
           task'[o].project = task[o].project,
           task'[o].rev = task[o].rev, task'[o].bundle = task[o].bundle,
           work'[o].base <= primary.commit,
           work'[o].base = primary.commit =>
               /\ ~ work'[o].ahead => work'[o].checkpoint = primary.head
               /\ task'[o].bundle # NoBundle =>
                     \A d \in Documents : work'[o].checkpoint[d] = primary.head[d],
           task'[o].phase # "loop" /\ task'[o].bundle # NoBundle
               => Holds(work'[o].checkpoint, task'[o].bundle)
    PROVE  ExistInv' /\ LaneInv' /\ RevInv' /\ WorkInv' /\ CheckpointKeepsDocuments'
<1>1. task[o].phase \notin {"new", "done"}
    BY DEF Realization
<1>2. ExistInv'
    BY <1>1, ExistFrame
<1>3. LaneInv'
    BY LaneFrame DEF HoldsIntentLane, Realization
<1>4. RevInv'
    BY RevFrame DEF IInv, RevInv
<1>5. WorkInv'
    BY WorkFrame
<1>6. CheckpointKeepsDocuments'
    BY KeepsFrame
<1> QED
    BY <1>2, <1>3, <1>4, <1>5, <1>6

\* A tree with the revision's documents becomes the checkpoint.
LEMMA CheckpointKeeps ==
    ASSUME IInv, NEW o \in Operations, NEW t \in Tree, task[o].phase = "implement",
           DocumentsKept(o, t), Checkpoint(o, t), UNCHANGED <<primary, source>>
    PROVE  ExistInv' /\ LaneInv' /\ RevInv' /\ WorkInv' /\ CheckpointKeepsDocuments'
<1> USE DEF IInv
<1>1. CASE ~ SourceOf(o).known
    BY <1>1, StopKeeps DEF Checkpoint
<1>2. CASE SourceOf(o).known
    <2>1. /\ \A q \in Operations \ {o} : task'[q] = task[q] /\ work'[q] = work[q]
          /\ task'[o].phase = "review" /\ task'[o].project = task[o].project
          /\ task'[o].rev = task[o].rev /\ task'[o].bundle = task[o].bundle
          /\ work'[o].base = work[o].base
          /\ work'[o].checkpoint = t
        BY <1>2 DEF Checkpoint, TypeOK, Task, Worktree
    <2>2. work'[o].ahead = (work[o].ahead \/ t # work[o].checkpoint)
        BY <1>2 DEF Checkpoint, TypeOK, Worktree
    <2>3. ~ work'[o].ahead => ~ work[o].ahead /\ t = work[o].checkpoint
        BY <2>2
    <2>4. task[o].bundle # NoBundle => Holds(t, task[o].bundle)
        BY VerifiedHolds DEF DocumentsKept
    <2>5. task[o].bundle # NoBundle => Holds(work[o].checkpoint, task[o].bundle)
        BY DEF CheckpointKeepsDocuments, Realization
    <2>6. task[o].bundle # NoBundle =>
              \A d \in Documents : t[d] = work[o].checkpoint[d]
        BY <2>4, <2>5, HoldersAgree
    <2>7. /\ work[o].base <= primary.commit
          /\ work[o].base = primary.commit =>
                /\ ~ work[o].ahead => work[o].checkpoint = primary.head
                /\ task[o].bundle # NoBundle =>
                      \A d \in Documents : work[o].checkpoint[d] = primary.head[d]
        BY DEF WorkInv, Realization
    <2>8. task'[o].bundle # NoBundle => Holds(work'[o].checkpoint, task'[o].bundle)
        BY <2>1, <2>4
    <2>9. /\ work'[o].base <= primary.commit
          /\ work'[o].base = primary.commit =>
                /\ ~ work'[o].ahead => work'[o].checkpoint = primary.head
                /\ task'[o].bundle # NoBundle =>
                      \A d \in Documents : work'[o].checkpoint[d] = primary.head[d]
        BY <2>1, <2>3, <2>6, <2>7
    <2>10. task[o].phase \in Realization /\ task'[o].phase \in Realization
        BY <2>1 DEF Realization
    <2> QED
        BY <2>1, <2>8, <2>9, <2>10, RealizationFrame
<1> QED
    BY <1>1, <1>2

\* From one phase of a realization to another.
LEMMA GotoKeeps ==
    ASSUME IInv, NEW o \in Operations, NEW phase \in Realization, Goto(o, phase),
           task[o].phase \in Realization \ {"loop"}, UNCHANGED <<primary, source>>
    PROVE  ExistInv' /\ LaneInv' /\ RevInv' /\ WorkInv' /\ CheckpointKeepsDocuments'
<1>1. /\ \A q \in Operations \ {o} : task'[q] = task[q]
      /\ work' = work
      /\ task'[o].phase = phase /\ task'[o].project = task[o].project
      /\ task'[o].rev = task[o].rev /\ task'[o].bundle = task[o].bundle
    BY DEF Goto, IInv, TypeOK, Task
<1>2. task[o].bundle # NoBundle => Holds(work[o].checkpoint, task[o].bundle)
    BY DEF IInv, CheckpointKeepsDocuments
<1>3. /\ work[o].base <= primary.commit
      /\ work[o].base = primary.commit =>
            /\ ~ work[o].ahead => work[o].checkpoint = primary.head
            /\ task[o].bundle # NoBundle =>
                  \A d \in Documents : work[o].checkpoint[d] = primary.head[d]
    BY DEF IInv, WorkInv
<1> QED
    BY <1>1, <1>2, <1>3, RealizationFrame

LEMMA RealizationKeeps ==
    ASSUME IInv, NEW o \in Operations, RealizationStep(o)
    PROVE  ExistInv' /\ LaneInv' /\ RevInv' /\ WorkInv' /\ CheckpointKeepsDocuments'
<1> USE DEF IInv
<1> DEFINE Keeps == ExistInv' /\ LaneInv' /\ RevInv' /\ WorkInv' /\ CheckpointKeepsDocuments'
<1>1. CASE Prepare(o)
    <2>1. CASE Clean
        <3>1. /\ \A q \in Operations \ {o} : task'[q] = task[q] /\ work'[q] = work[q]
              /\ task[o].phase = "lane" /\ task'[o].phase = "loop"
              /\ task'[o].project = task[o].project
              /\ task'[o].rev = task[o].rev /\ task'[o].bundle = task[o].bundle
              /\ work'[o].base = primary.commit /\ work'[o].checkpoint = primary.head
              /\ UNCHANGED <<primary, source>>
            BY <1>1, <2>1 DEF Prepare, TypeOK, Task
        <3>2. primary.commit <= primary.commit
            BY DEF TypeOK, Checkout
        <3>3. task'[o].phase \in Realization
            BY <3>1 DEF Realization
        <3> QED
            BY <3>1, <3>2, <3>3, RealizationFrame
    <2>2. CASE ~ Clean
        BY <1>1, <2>2, StopKeeps DEF Prepare
    <2> QED
        BY <2>1, <2>2
<1>2. CASE LoopHead(o)
    <2> DEFINE ok == /\ Current(o)
                     /\ \/ SourceOf(o).bundle = NoBundle
                        \/ Verifies(work[o].checkpoint, SourceOf(o).bundle)
    <2>1. CASE ok
        <3>1. /\ \A q \in Operations \ {o} : task'[q] = task[q]
              /\ task[o].phase = "loop" /\ task'[o].phase = "implement"
              /\ task'[o].project = task[o].project /\ task'[o].rev = task[o].rev
              /\ task'[o].bundle = SourceOf(o).bundle
              /\ UNCHANGED <<primary, source, work>>
            BY <1>2, <2>1 DEF LoopHead, TypeOK, Task
        <3>2. task[o].bundle = SourceOf(o).bundle
            BY <2>1, <3>1 DEF RevInv, Current, Realization
        <3>3. task'[o].bundle # NoBundle => Holds(work'[o].checkpoint, task'[o].bundle)
            <4> work[o].checkpoint \in Tree
                BY DEF TypeOK, Worktree
            <4> QED
                BY <2>1, <3>1, VerifiedHolds
        <3>4. /\ work'[o].base <= primary.commit
              /\ work'[o].base = primary.commit =>
                    /\ ~ work'[o].ahead => work'[o].checkpoint = primary.head
                    /\ task'[o].bundle # NoBundle =>
                          \A d \in Documents : work'[o].checkpoint[d] = primary.head[d]
            BY <3>1, <3>2 DEF WorkInv, Realization
        <3>5. task[o].phase \in Realization /\ task'[o].phase \in Realization
            BY <3>1 DEF Realization
        <3> QED
            BY <3>1, <3>2, <3>3, <3>4, <3>5, RealizationFrame
    <2>2. CASE ~ ok
        BY <1>2, <2>2, StopKeeps DEF LoopHead
    <2> QED
        BY <2>1, <2>2
<1>3. ASSUME NEW t \in Written(work[o].checkpoint), Implemented(o, t) PROVE Keeps
    <2>1. t \in Tree
        BY WrittenType DEF TypeOK, Worktree
    <2> QED
        BY <1>3, <2>1, StopKeeps, CheckpointKeeps DEF Implemented
<1>4. ASSUME NEW t \in Written(work[o].checkpoint), NEW b \in BOOLEAN, Reviewed(o, t, b)
      PROVE  Keeps
    <2>1. task[o].phase = "review" /\ UNCHANGED <<primary, source>>
        BY <1>4 DEF Reviewed
    <2>2. Stop(o) \/ Goto(o, "approval") \/ Goto(o, "loop")
        BY <1>4 DEF Reviewed
    <2>3. {"review", "approval", "loop"} \subseteq Realization
        BY DEF Realization
    <2> QED
        BY <2>1, <2>2, <2>3, StopKeeps, GotoKeeps
<1>5. ASSUME NEW b \in BOOLEAN, ColdReviewed(o, b) PROVE Keeps
    <2>1. task[o].phase = "approval" /\ UNCHANGED <<primary, source>>
        BY <1>5 DEF ColdReviewed
    <2>2. Stop(o) \/ Goto(o, "promote") \/ Goto(o, "loop")
        BY <1>5 DEF ColdReviewed
    <2>3. {"approval", "promote", "loop"} \subseteq Realization
        BY DEF Realization
    <2> QED
        BY <2>1, <2>2, <2>3, StopKeeps, GotoKeeps
<1>6. CASE Promote(o)
    <2>1. task[o].phase = "promote" /\ Stop(o) /\ UNCHANGED source
        BY <1>6 DEF Promote
    <2>2. CASE ~ (Clean /\ primary.commit = work[o].base)
        BY <1>6, <2>1, <2>2, StopKeeps DEF Promote
    <2>3. CASE /\ Clean /\ primary.commit = work[o].base
               /\ ~ work[o].ahead
        <3>1. primary'.commit = primary.commit /\ primary'.head = work[o].checkpoint
            BY <1>6, <2>3 DEF Promote
        <3>2. work[o].checkpoint = primary.head
            BY <2>1, <2>3 DEF WorkInv, Realization
        <3> QED
            BY <2>1, <3>1, <3>2, StopKeeps
    <2>4. CASE /\ Clean /\ primary.commit = work[o].base
               /\ work[o].ahead
        <3>1. primary'.commit = primary.commit + 1 /\ primary.commit \in Nat
            BY <1>6, <2>4 DEF Promote, TypeOK, Checkout
        <3>2. /\ \A q \in Operations \ {o} : task'[q] = task[q] /\ work'[q] = work[q]
              /\ task'[o].phase = "done"
            BY <2>1, TaskBecomes
        <3>3. ExistInv' /\ RevInv' /\ LaneInv'
            BY <2>1, <3>2, ExistFrame, RevFrame, LaneFrame DEF Realization, HoldsIntentLane
        <3>4. CheckpointKeepsDocuments'
            BY <3>2, KeepsFrame DEF Realization
        <3>5. ASSUME NEW q \in Operations, task'[q].phase \in Realization
              PROVE  work'[q].base < primary'.commit /\ work'[q].base \in Nat
            <4>1. q # o /\ work'[q] = work[q] /\ task'[q] = task[q]
                BY <3>2, <3>5 DEF Realization
            <4>2. work[q].base <= primary.commit /\ work[q].base \in Nat
                BY <3>5, <4>1 DEF WorkInv, TypeOK, Worktree
            <4> QED
                BY <3>1, <4>1, <4>2
        <3>6. primary'.commit \in Nat
            BY <3>1
        <3>7. WorkInv'
            BY <3>5, <3>6 DEF WorkInv
        <3> QED
            BY <3>3, <3>4, <3>7
    <2> QED
        BY <2>2, <2>3, <2>4
<1> QED
    BY <1>1, <1>2, <1>3, <1>4, <1>5, <1>6 DEF RealizationStep

LEMMA InvInit == Init => IInv
<1> SUFFICES ASSUME Init PROVE IInv
    OBVIOUS
<1>1. TypeOK
    <2>1. primary \in Checkout /\ edits \in Nat
        BY CheckoutsAssumption DEF Init, Checkout
    <2>2. \A p \in Projects : [known |-> FALSE, removed |-> FALSE, rev |-> 0,
                               active |-> FALSE, bundle |-> NoBundle] \in Source
        BY NoBundleType DEF Source
    <2> QED
        BY <2>1, <2>2, NoTaskType DEF Init, TypeOK
<1>2. \A o \in Operations : task[o].phase = "new"
    BY DEF Init, NoTask
<1> QED
    BY <1>1, <1>2 DEF IInv, ExistInv, LaneInv, RevInv, WorkInv, CheckpointKeepsDocuments,
                      HoldsIntentLane, Realization

LEMMA InvStep == IInv /\ [Next]_vars => IInv'
<1> SUFFICES ASSUME IInv, [Next]_vars PROVE IInv'
    OBVIOUS
<1>1. TypeOK'
    BY TypeStep DEF IInv
<1>2. ASSUME NEW o \in Operations, RunFails(o)
      PROVE  ExistInv' /\ LaneInv' /\ RevInv' /\ WorkInv' /\ CheckpointKeepsDocuments'
    BY <1>2, StopKeeps DEF RunFails
<1>3. CASE UNCHANGED vars
    BY <1>1, <1>3 DEF vars, IInv, ExistInv, LaneInv, RevInv, WorkInv,
        CheckpointKeepsDocuments, HoldsIntentLane, Siblings, SourceOf
<1>4. CASE Next
    BY <1>1, <1>2, <1>4, OwnerKeeps, TurnKeeps, RealizationKeeps DEF Next, Step, IInv
<1> QED
    BY <1>3, <1>4

LEMMA Invariance == Spec => []IInv
BY InvInit, InvStep, PTL DEF Spec

-----------------------------------------------------------------------------
(* What is proved *)

\* The state of the Projects, their tasks, worktrees and checkout is typed,
\* whatever is edited, adopted and removed in between.
THEOREM TypeCorrect == Spec => []TypeOK
<1>1. IInv => TypeOK
    BY DEF IInv
<1> QED
    BY <1>1, Invariance, PTL

\* No checkpoint of a realization differs in a document from its revision
\* (verify_on_disk around every run), for every set of documents and links.
THEOREM CheckpointsKeepDocuments == Spec => []CheckpointKeepsDocuments
<1>1. IInv => CheckpointKeepsDocuments
    BY DEF IInv
<1> QED
    BY <1>1, Invariance, PTL

\* The only step that moves HEAD and ends a task that has its promotion before it
\* is that promotion.
LEMMA PromotionStep ==
    ASSUME IInv, [Next]_vars, NEW o \in Operations, task[o].phase = "promote",
           primary'.head # primary.head, task'[o].phase = "done"
    PROVE  Promote(o)
<1> USE DEF IInv
<1>1. task \in [Operations -> Task]
    BY DEF TypeOK
<1>2. ~ UNCHANGED vars
    BY DEF vars
<1>3. ~ Owner
    <2>1. \A p \in Paths, c \in Contents \cup {Absent} : ~ Edit(p, c)
        BY DEF Edit
    <2>2. ~ OwnerCommits
        BY DEF OwnerCommits
    <2>3. \A p \in Projects : ~ Initialize(p) /\ ~ Remove(p)
        BY DEF Initialize, Remove
    <2>4. \A q \in Operations, p \in Projects : ~ AcceptIntent(q, p)
        BY DEF AcceptIntent
    <2> QED
        BY <2>1, <2>2, <2>3, <2>4 DEF Owner
<1>4. PICK q \in Operations : Step(q)
    BY <1>2, <1>3 DEF Next
<1>5. ~ TurnStep(q)
    <2>1. ~ RefuseProposal(q)
        BY DEF RefuseProposal, TypeOK, Checkout
    <2>2. ~ TakeIntentLane(q) /\ ~ Fingerprint(q) /\ ~ ProposeNothing(q)
        BY DEF TakeIntentLane, Fingerprint, ProposeNothing
    <2>3. \A b \in BOOLEAN : ~ ProposeUpdate(q, b) /\ ~ CommitIntent(q, b)
        BY DEF ProposeUpdate, CommitIntent
    <2> QED
        BY <2>1, <2>2, <2>3 DEF TurnStep
<1>6. Promote(q)
    BY <1>4, <1>5 DEF Step, RunFails, RealizationStep, Prepare, LoopHead, Implemented,
                      Reviewed, ColdReviewed
<1>7. q = o
    BY <1>6, TaskBecomes DEF Promote
<1> QED
    BY <1>6, <1>7

\* A promotion changes no document of the owner's checkout and leaves it with the
\* documents of the revision (promote, for any number of Projects on the
\* checkout).
THEOREM PromotionsKeepDocuments == Spec => PromotionKeepsDocuments
<1>1. ASSUME IInv, [Next]_vars, NEW o \in Operations,
             task[o].phase = "promote", task[o].bundle # NoBundle,
             primary'.head # primary.head, task'[o].phase = "done"
      PROVE  /\ Holds(primary'.head, task[o].bundle)
             /\ \A d \in Documents : primary'.head[d] = primary.head[d]
    <2>1. Promote(o)
        BY <1>1, PromotionStep
    <2>2. primary.commit = work[o].base /\ primary'.head = work[o].checkpoint
        BY <1>1, <2>1 DEF Promote
    <2>3. Holds(work[o].checkpoint, task[o].bundle)
        BY <1>1 DEF IInv, CheckpointKeepsDocuments, Realization
    <2>4. \A d \in Documents : work[o].checkpoint[d] = primary.head[d]
        BY <1>1, <2>2 DEF IInv, WorkInv, Realization
    <2> QED
        BY <2>2, <2>3, <2>4
<1>2. IInv /\ [Next]_vars =>
        [\A o \in Operations :
          /\ task[o].phase = "promote" /\ task[o].bundle # NoBundle
          /\ primary'.head # primary.head /\ task'[o].phase = "done"
          => /\ Holds(primary'.head, task[o].bundle)
             /\ \A d \in Documents : primary'.head[d] = primary.head[d]]_vars
    BY <1>1
<1> QED
    BY <1>2, Invariance, PTL DEF Spec, PromotionKeepsDocuments

=============================================================================
