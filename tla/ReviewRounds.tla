---------------------------- MODULE ReviewRounds ----------------------------
(***************************************************************************)
(* The review rounds of the Projects of one Spoke and the two things they  *)
(* share through its store: the divergence ledger and the evidence of past *)
(* reviews (spoke/src/main.rs, run_operation from its iteration's head to  *)
(* promotion, persist_review; convergence.rs, reconcile; orchestrator.rs,  *)
(* review_completed).                                                      *)
(*                                                                         *)
(* A Project has at most one realization at a time (SpokeOperations shows  *)
(* it); while it runs the owner may commit new revisions of the source.    *)
(* A step is a critical section on the store's mutex or a run of an agent; *)
(* reconcile, one critical section, takes a step per finding and holds the *)
(* mutex meanwhile, so that no other section gets in between.              *)
(*                                                                         *)
(* Abstracted: what an implementer or a reviewer writes is a choice; the   *)
(* validation commands are one; authoritative documents are ordinary files *)
(* here (ProjectSources has them); the index of requirements is the same   *)
(* at every revision, as for a bundle no revision changes; cancellation    *)
(* and every failure of a run end the round (Fail).                        *)
(***************************************************************************)
EXTENDS Convergence

CONSTANTS
    Projects,     \* the Projects of the Spoke
    NoProject,    \* the store's mutex is free
    Files,        \* the files of a worktree
    Contents,     \* what a file may hold
    Reports,      \* the lists of findings reviewers may report
    Index,        \* the requirement index
    MaxRevision,  \* bound: revisions of a source
    MaxReports    \* bound: reports of reviewers, of all Projects together

ASSUME ProjectsAssumption == NoProject \notin Projects
ASSUME ContentsAssumption == Contents # {}
ASSUME ReportsAssumption ==
    /\ Reports \subseteq Seq(Finding)
    /\ DOMAIN Index \subseteq Nat /\ Index \in [DOMAIN Index -> Text]
ASSUME BoundsAssumption == {MaxRevision, MaxReports} \subseteq Nat

VARIABLES
    source,    \* each Project's source of intent
    task,      \* each Project's realization
    ledger,    \* the divergences, by identity
    evidence,  \* the reads kept with the persisted reviews
    pass,      \* the reconciliation that holds the store's mutex
    draft,     \* the ledger as that reconciliation has changed it
    reports    \* reports made so far

vars == <<source, task, ledger, evidence, pass, draft, reports>>

-----------------------------------------------------------------------------
(* Types *)

Reality == [Files -> Contents]

\* A captured complete read of a file.
Read == [subject : Files, content : Contents]

Phase == {"idle", "loop", "implement", "validate", "review", "reconcile",
          "promote"}
Verdict == {"none", "approved", "findings"}
Summary == [opened : Nat, still : Nat, reopened : Nat]
NoSummary == [opened |-> 0, still |-> 0, reopened |-> 0]

\* before: the reality whose fingerprint was taken when the obligations were
\* issued; given: the evidence put before the reviewer; read: the reviewer's own.
Task == [phase : Phase, rev : Nat, role : {"review", "approval"},
         before : Reality, work : Reality, validated : BOOLEAN,
         given : SUBSET Read, read : SUBSET Read,
         verdict : Verdict, findings : Seq(Finding)]

State == {"open", "verified", "reopened", "superseded"}
Divergence == [project : Projects, rev : Nat, bound : Requirements,
               requirement : Text, fault : Text, state : State,
               attempts : Nat, reopens : Nat]
IsLedger(l) == DOMAIN l \subseteq Identities /\ l \in [DOMAIN l -> Divergence]
NoLedger == [d \in {} |-> d]

Pass == [by : Projects \cup {NoProject}, todo : Seq(Finding),
         matched : SUBSET Identities, summary : Summary]
NoPass == [by |-> NoProject, todo |-> <<>>, matched |-> {}, summary |-> NoSummary]

TypeOK ==
    /\ source \in [Projects -> [rev : Nat, active : BOOLEAN]]
    /\ task \in [Projects -> Task]
    /\ IsLedger(ledger) /\ IsLedger(draft)
    /\ evidence \subseteq Read
    /\ pass \in Pass
    /\ reports \in Nat

SomeReality == CHOOSE r \in Reality : TRUE
NoTask == [phase |-> "idle", rev |-> 0, role |-> "review", before |-> SomeReality,
           work |-> SomeReality, validated |-> FALSE, given |-> {}, read |-> {},
           verdict |-> "none", findings |-> <<>>]

\* Each Project's first turn has made its first revision active.
Init ==
    /\ source = [p \in Projects |-> [rev |-> 1, active |-> TRUE]]
    /\ task = [p \in Projects |-> NoTask]
    /\ ledger = NoLedger
    /\ evidence = {}
    /\ pass = NoPass /\ draft = NoLedger
    /\ reports = 0

-----------------------------------------------------------------------------
(* Helpers *)

\* No reconciliation holds the store's mutex.
Free == pass.by = NoProject

Current(p) == source[p] = [rev |-> task[p].rev, active |-> TRUE]

\* The divergences of a Project at a revision, and the open ones among them.
Of(l, p, rev) == {d \in DOMAIN l : l[d].project = p /\ l[d].rev = rev}
OpenOf(l, p, rev) == {d \in Of(l, p, rev) : l[d].state \in {"open", "reopened"}}

Goto(p, phase) == task' = [task EXCEPT ![p].phase = phase]
Stop(p) == task' = [task EXCEPT ![p] = NoTask]

-----------------------------------------------------------------------------
(* The owner *)

\* The intent agent's proposal becomes the next revision; what the ledger has of
\* the Project is of an older one from now on.
CommitIntent(p, active) ==
    /\ Free /\ source[p].rev < MaxRevision
    /\ source' = [source EXCEPT ![p] = [rev |-> source[p].rev + 1, active |-> active]]
    /\ ledger' = [d \in DOMAIN ledger |->
                     IF ledger[d].project = p /\ ledger[d].rev # source[p].rev + 1
                     THEN [ledger[d] EXCEPT !.state = "superseded"]
                     ELSE ledger[d]]
    /\ UNCHANGED <<task, evidence, pass, draft, reports>>

\* An operation of the Project gets its realization lane.
Begin(p) ==
    /\ Free /\ task[p].phase = "idle"
    /\ source[p].active
    /\ task' = [task EXCEPT ![p].phase = "loop", ![p].rev = source[p].rev]
    /\ UNCHANGED <<source, ledger, evidence, pass, draft, reports>>

-----------------------------------------------------------------------------
(* One iteration *)

\* The head of an iteration refuses a stale revision; then the implementer is
\* told what is open (open_for_prompt).
LoopHead(p) ==
    /\ Free /\ task[p].phase = "loop"
    /\ IF Current(p) THEN Goto(p, "implement") ELSE Stop(p)
    /\ UNCHANGED <<source, ledger, evidence, pass, draft, reports>>

\* The implementer's work is checkpointed, its fingerprint is taken and the
\* obligations are issued: to read every file as it is now, and to validate.
Implemented(p, reality) ==
    /\ task[p].phase = "implement"
    /\ task' = [task EXCEPT ![p].phase = "validate",
                            ![p].work = reality, ![p].before = reality]
    /\ UNCHANGED <<source, ledger, evidence, pass, draft, reports>>

\* The validation commands run in the worktree, where they may write.  Then the
\* warm reviewer is given their result and, of the reads the store keeps, those
\* that meet an obligation (reusable_review_file_evidence).
Validated(p, ok, reality) ==
    /\ Free /\ task[p].phase = "validate"
    /\ task' = [task EXCEPT
           ![p].phase = "review", ![p].validated = ok, ![p].work = reality,
           ![p].given = {r \in evidence : r.content = task[p].before[r.subject]}]
    /\ UNCHANGED <<source, ledger, evidence, pass, draft, reports>>

\* corroborate_approval: the validation passed, and for every file there is an
\* observation of a read with the content of the obligation.
Corroborated(t) ==
    /\ t.validated
    /\ \A f \in Files :
           [subject |-> f, content |-> t.before[f]] \in t.given \cup t.read

\* persist_review takes a report on the reality the obligations were issued for
\* and on the current revision, an approval only if it is corroborated.
Acceptable(p, t) ==
    /\ t.work = t.before
    /\ source[p] = [rev |-> t.rev, active |-> TRUE]
    /\ t.verdict = "approved" => Corroborated(t)

\* The task after a report with findings: they are for the ledger.
ToLedger(t) == [NoTask EXCEPT !.phase = "reconcile", !.rev = t.rev,
                              !.verdict = t.verdict, !.findings = t.findings]

\* Mutant: the cold reviewer is given the evidence of the warm one.
AcceptedWithEvidence(t) ==
    IF t.verdict = "findings" THEN ToLedger(t)
    ELSE IF t.role = "review"
    THEN [t EXCEPT !.role = "approval", !.read = {}, !.verdict = "none"]
    ELSE [t EXCEPT !.phase = "reconcile"]

\* What an accepted report leads to: an approval of the warm reviewer to a cold
\* review that is given nothing but the validation, any other to the ledger.
Accepted(t) ==
    IF t.verdict = "findings" THEN ToLedger(t)
    ELSE IF t.role = "review"
    THEN [t EXCEPT !.role = "approval", !.given = {}, !.read = {}, !.verdict = "none"]
    ELSE [t EXCEPT !.phase = "reconcile"]

\* The reviewer, warm or cold, reads some files (the Project is mounted read-only
\* for it) and reports; ReviewRunResult::validate refuses an approval with
\* findings and a rejection without.  The report is judged and persisted.
Reviewed(p, reads, findings) ==
    /\ Free /\ task[p].phase = "review" /\ reports < MaxReports
    /\ LET t == [task[p] EXCEPT
                   !.read = {[subject |-> f, content |-> task[p].work[f]] : f \in reads},
                   !.verdict = IF findings = <<>> THEN "approved" ELSE "findings",
                   !.findings = findings]
       IN  IF Acceptable(p, t)
           THEN /\ task' = [task EXCEPT ![p] = Accepted(t)]
                /\ evidence' = evidence \cup t.given \cup t.read
           ELSE Stop(p) /\ UNCHANGED evidence
    /\ reports' = reports + 1
    /\ UNCHANGED <<source, ledger, pass, draft>>

-----------------------------------------------------------------------------
(* reconcile *)

StartReconcile(p) ==
    /\ Free /\ task[p].phase = "reconcile"
    /\ pass' = [NoPass EXCEPT !.by = p, !.todo = task[p].findings]
    /\ draft' = ledger
    /\ UNCHANGED <<source, task, ledger, evidence, reports>>

\* Mutant: an earlier finding of the review may have matched them.
CandidatesAgain(finding, bound) ==
    {d \in Of(draft, pass.by, task[pass.by].rev) : Matches(finding, bound, draft[d])}

\* The divergences the next finding may be, by its requirements: of the same
\* Project and revision and not matched by an earlier finding of this review.
Candidates(finding, bound) ==
    {d \in Of(draft, pass.by, task[pass.by].rev) \ pass.matched :
        Matches(finding, bound, draft[d])}

\* Mutant: a known divergence keeps its first words.
AgainInFirstWords(known, finding, bound) ==
    [known EXCEPT !.bound = bound, !.attempts = @ + 1,
                  !.state = IF @ = "verified" THEN "reopened" ELSE "open",
                  !.reopens = IF known.state = "verified" THEN @ + 1 ELSE @]

\* Mutant: a divergence that comes back has the state of a finding of its own.
AgainRegressed(known, finding, bound) ==
    [known EXCEPT !.bound = bound, !.requirement = finding.requirement,
                  !.fault = finding.fault, !.attempts = @ + 1,
                  !.state = IF @ = "verified" THEN "regressed" ELSE "open",
                  !.reopens = IF known.state = "verified" THEN @ + 1 ELSE @]

\* A known divergence is seen again and takes the words of the finding.
Again(known, finding, bound) ==
    [known EXCEPT !.bound = bound, !.requirement = finding.requirement,
                  !.fault = finding.fault, !.attempts = @ + 1,
                  !.state = IF @ = "verified" THEN "reopened" ELSE "open",
                  !.reopens = IF known.state = "verified" THEN @ + 1 ELSE @]

New(finding, bound) ==
    [project |-> pass.by, rev |-> task[pass.by].rev, bound |-> bound,
     requirement |-> finding.requirement, fault |-> finding.fault,
     state |-> "open", attempts |-> 1, reopens |-> 0]

\* BTreeMap::insert: it may replace another record of that identity.
Put(d, record) ==
    draft' = [e \in DOMAIN draft \cup {d} |-> IF e = d THEN record ELSE draft[e]]

Counted(summary, state) ==
    IF state = "verified" THEN [summary EXCEPT !.reopened = @ + 1]
    ELSE [summary EXCEPT !.still = @ + 1]

SeenAgain(finding, bound) ==
    \E d \in Candidates(finding, bound) :
        /\ \A e \in Candidates(finding, bound) :
               NoCloser(draft[e].fault, draft[d].fault, finding.fault)
        /\ pass' = [pass EXCEPT
               !.todo = Tail(@), !.matched = @ \cup {d},
               !.summary = Counted(@, draft[d].state)]
        /\ Put(d, Again(draft[d], finding, bound))

\* No candidate: a new divergence, unless its identity is matched already.
SeenFirst(finding, bound) ==
    LET d == Identity(finding, bound)
    IN  /\ Candidates(finding, bound) = {}
        /\ IF d \in pass.matched
           THEN pass' = [pass EXCEPT !.todo = Tail(@)] /\ UNCHANGED draft
           ELSE /\ pass' = [pass EXCEPT !.todo = Tail(@), !.matched = @ \cup {d},
                                        !.summary.opened = @ + 1]
                /\ Put(d, New(finding, bound))

ReconcileFinding ==
    /\ ~Free /\ pass.todo # <<>>
    /\ LET finding == Head(pass.todo)
           bound == Bound(finding, Index)
       IN  SeenAgain(finding, bound) \/ SeenFirst(finding, bound)
    /\ UNCHANGED <<source, task, ledger, evidence, reports>>

\* Mutant: only a review with findings settles the others.
UnmatchedByFindings ==
    IF task[pass.by].findings = <<>> THEN {}
    ELSE OpenOf(draft, pass.by, task[pass.by].rev) \ pass.matched

\* What is left open and was not matched counts as verified.
Unmatched == OpenOf(draft, pass.by, task[pass.by].rev) \ pass.matched

\* The ledger is saved and the mutex freed; the machine takes the report
\* (review_completed): an approval is promoted, findings start an iteration.
ReconcileRest ==
    /\ ~Free /\ pass.todo = <<>>
    /\ ledger' = [d \in DOMAIN draft |->
                     IF d \in Unmatched
                     THEN [draft[d] EXCEPT !.state = "verified"]
                     ELSE draft[d]]
    /\ Goto(pass.by, IF task[pass.by].verdict = "approved" THEN "promote" ELSE "loop")
    /\ pass' = NoPass /\ draft' = NoLedger
    /\ UNCHANGED <<source, evidence, reports>>

-----------------------------------------------------------------------------
(* The end of a realization *)

\* The checkpoint is merged and the operation completes, or its promotion fails.
Promote(p) ==
    /\ task[p].phase = "promote"
    /\ Stop(p)
    /\ UNCHANGED <<source, ledger, evidence, pass, draft, reports>>

\* A run fails or breaks its contract, or the operation is cancelled.
Fail(p) ==
    /\ task[p].phase \in {"implement", "validate", "review"}
    /\ Stop(p)
    /\ UNCHANGED <<source, ledger, evidence, pass, draft, reports>>

\* The Spoke restarts: what was not saved is lost.
Crash ==
    /\ task' = [p \in Projects |-> NoTask]
    /\ pass' = NoPass /\ draft' = NoLedger
    /\ UNCHANGED <<source, ledger, evidence, reports>>

Next ==
    \/ \E p \in Projects :
          \/ \E active \in BOOLEAN : CommitIntent(p, active)
          \/ Begin(p) \/ LoopHead(p) \/ StartReconcile(p)
          \/ Promote(p) \/ Fail(p)
          \/ \E reality \in Reality : Implemented(p, reality)
          \/ \E ok \in BOOLEAN, reality \in Reality : Validated(p, ok, reality)
          \/ \E reads \in SUBSET Files, findings \in Reports :
                 Reviewed(p, reads, findings)
    \/ ReconcileFinding \/ ReconcileRest \/ Crash

Spec == Init /\ [][Next]_vars

-----------------------------------------------------------------------------
(* Properties *)

\* What is about to be promoted is what the cold reviewer read itself, whole and
\* file by file, after it was validated: no reused evidence and no change
\* made between the obligations and the approval gets into the primary checkout
\* (corroborate_approval, main.rs; "evidence freshness" of the approval review).
ApprovedIsFreshlyRead ==
    \A p \in Projects : task[p].phase = "promote" =>
        /\ task[p].validated /\ task[p].role = "approval"
        /\ \A f \in Files :
               [subject |-> f, content |-> task[p].work[f]] \in task[p].read

\* While an approved checkpoint waits for its promotion nothing is open against
\* its revision, whatever other Projects and later revisions do to the ledger
\* (reconcile, convergence.rs: an approval has no findings).
ApprovalClosesLedger ==
    \A p \in Projects : task[p].phase = "promote" =>
        OpenOf(ledger, p, task[p].rev) = {}

\* What the implementer of the next iteration is told is open is what the last
\* review found, in that review's words, and nothing from an earlier one
\* (open_for_prompt, convergence.rs).
LedgerIsLastReview ==
    \A p \in Projects : task[p].phase \in {"loop", "implement"} /\ task[p].findings # <<>> =>
        \A d \in OpenOf(ledger, p, task[p].rev) :
            \E i \in DOMAIN task[p].findings :
                /\ task[p].findings[i].requirement = ledger[d].requirement
                /\ task[p].findings[i].fault = ledger[d].fault

\* The counts a reconciliation reports add up to what is then open: no finding
\* is counted for two divergences and no divergence for two findings (reconcile,
\* convergence.rs: the set of matched identities).
SummaryIsTheLedger ==
    [][ReconcileRest =>
          pass.summary.opened + pass.summary.still + pass.summary.reopened
              = Cardinality(OpenOf(ledger', pass.by, task[pass.by].rev))]_vars

-----------------------------------------------------------------------------
(* What the design says and the code does not do *)

\* docs/design/16-intent-orchestration.md: the ledger retains history, and the
\* wording or the order of findings must not erase it.
HistoryIsKept ==
    [][\A d \in DOMAIN ledger :
          /\ d \in DOMAIN ledger'
          /\ ledger'[d].project = ledger[d].project
          /\ ledger'[d].attempts >= ledger[d].attempts]_vars
=============================================================================
