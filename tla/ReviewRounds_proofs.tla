------------------------ MODULE ReviewRounds_proofs ------------------------
(***************************************************************************)
(* Proofs about ReviewRounds, for every number of Projects, files and      *)
(* contents and every list of findings: its state is typed, an approval    *)
(* rests on the cold reviewer's own reads and leaves nothing open, and     *)
(* what is open is what the last review found and counted.  Of Convergence *)
(* itself: which requirements a finding is bound to, and that a finding in *)
(* a divergence's own words is recognised.                                 *)
(***************************************************************************)
EXTENDS ReviewRounds, FiniteSetTheorems, WellFoundedInduction, TLAPS

-----------------------------------------------------------------------------
(* How findings are bound and recognised *)

LEMMA Scale ==
    ASSUME NEW a \in Nat, NEW b \in Nat, NEW k \in Nat
    PROVE  /\ a <= b => a * k <= b * k
           /\ k > 0 /\ a * k <= b * k => a <= b
OBVIOUS

LEMMA Products ==
    ASSUME NEW a \in Nat, NEW b \in Nat, NEW c \in Nat
    PROVE  a * b \in Nat /\ a * b = b * a /\ (a * b) * c = (a * c) * b /\ (a * b) * c = a * (b * c)
OBVIOUS

\* a/b <= c/d <= e/f, and what follows when the outer two are equal.
LEMMA SharesTransitive ==
    ASSUME NEW a \in Nat, NEW b \in Nat \ {0}, NEW c \in Nat, NEW d \in Nat \ {0},
           NEW e \in Nat, NEW f \in Nat \ {0},
           a * d <= c * b, c * f <= e * d
    PROVE  /\ a * f <= e * b
           /\ e * b <= a * f => c * b <= a * d /\ e * d <= c * f
<1>1. (a * d) * f <= (c * b) * f /\ (c * f) * b <= (e * d) * b
    BY Products, Scale
<1>2. (a * f) * d = (a * d) * f /\ (c * b) * f = (c * f) * b /\ (e * d) * b = (e * b) * d
    BY Products
<1> DEFINE p == a * d
           q == c * b
           r == c * f
           s == e * d
           x == a * f
           y == e * b
<1>3. p \in Nat /\ q \in Nat /\ r \in Nat /\ s \in Nat /\ x \in Nat /\ y \in Nat
    BY Products
<1>4. p * f <= q * f /\ r * b <= s * b /\ x * d = p * f /\ q * f = r * b /\ s * b = y * d
    BY <1>1, <1>2
<1> HIDE DEF p, q, r, s, x, y
<1>5. p * f \in Nat /\ q * f \in Nat /\ r * b \in Nat /\ s * b \in Nat /\ x * d \in Nat /\ y * d \in Nat
    BY <1>3, Products
<1>6. x <= y
    <2>1. x * d <= y * d
        BY <1>4, <1>5
    <2> QED
        BY <1>3, <2>1, Scale
<1>7. ASSUME y <= x PROVE q <= p /\ s <= r
    <2>1. y * d <= x * d
        BY <1>3, <1>7, Scale
    <2>2. q * f <= p * f /\ s * b <= r * b
        BY <1>4, <1>5, <2>1
    <2> QED
        BY <1>3, <2>2, Scale
<1> QED
    BY <1>6, <1>7 DEF p, q, r, s, x, y

\* In a strict total order, given by the members ahead of each, those that fewer
\* than three are ahead of are the first three.
LEMMA FirstThree ==
    ASSUME NEW S, IsFiniteSet(S), NEW ahead \in [S -> SUBSET S],
           \A x \in S : x \notin ahead[x],
           \A x, y \in S : x = y \/ x \in ahead[y] \/ y \in ahead[x],
           \A y \in S : \A x \in ahead[y] : ahead[x] \subseteq ahead[y]
    PROVE  LET First == {x \in S : Cardinality(ahead[x]) < 3}
           IN  /\ Cardinality(First) <= 3
               /\ First = S \/ Cardinality(First) = 3
               /\ \A x \in First, y \in S \ First : x \in ahead[y]
<1> DEFINE First == {x \in S : Cardinality(ahead[x]) < 3}
           rank == [x \in S |-> Cardinality(ahead[x])]
<1>1. \A x \in S : /\ ahead[x] \in SUBSET S /\ IsFiniteSet(ahead[x])
                   /\ rank[x] = Cardinality(ahead[x]) /\ rank[x] \in Nat
    <2>1. \A x \in S : ahead[x] \in SUBSET S
        OBVIOUS
    <2> QED
        BY <2>1, FS_Subset, FS_CardinalityType
<1>2. First \in SUBSET S /\ \A x \in S : x \in First <=> rank[x] < 3
    BY <1>1
<1> HIDE DEF rank, First
<1>3. IsFiniteSet(First) /\ Cardinality(First) \in Nat
    BY <1>2, FS_Subset, FS_CardinalityType
\* Who is ahead is so with all that are ahead of him.
<1>4. ASSUME NEW y \in S, NEW x \in ahead[y] PROVE rank[x] < rank[y]
    <2>1. x \in S /\ x \notin ahead[x] /\ ahead[x] \cup {x} \in SUBSET ahead[y]
        BY <1>1, <1>4
    <2>2. Cardinality(ahead[x] \cup {x}) = rank[x] + 1
        <3>1. IsFiniteSet(ahead[x]) /\ rank[x] = Cardinality(ahead[x])
            BY <1>1, <2>1
        <3>2. Cardinality(ahead[x] \cup {x}) = Cardinality(ahead[x]) + 1
            BY <2>1, <3>1, FS_AddElement
        <3> QED
            BY <3>1, <3>2
    <2>3. Cardinality(ahead[x] \cup {x}) <= Cardinality(ahead[y])
        BY <1>1, <2>1, FS_Subset
    <2> QED
        BY <1>1, <2>1, <2>2, <2>3
\* The last of the first: the others of them are ahead of it, two at most.
<1>5. Cardinality(First) <= 3
    <2>1. CASE First = {}
        <3>1. Cardinality(First) = 0
            BY <2>1, FS_EmptySet
        <3> QED
            BY <3>1
    <2>2. CASE First # {}
        <3>1. \E m \in First : \A x \in First : rank[x] <= rank[m]
            <4>1. \A x \in First : rank[x] = 0 \/ rank[x] = 1 \/ rank[x] = 2
                BY <1>1, <1>2
            <4>2. CASE \E x \in First : rank[x] = 2
                BY <4>1, <4>2
            <4>3. CASE (\A x \in First : rank[x] # 2) /\ \E x \in First : rank[x] = 1
                BY <4>1, <4>3
            <4>4. CASE \A x \in First : rank[x] = 0
                BY <2>2, <4>4
            <4> QED
                BY <4>1, <4>2, <4>3, <4>4
        <3>2. PICK m \in First : \A x \in First : rank[x] <= rank[m]
            BY <3>1
        <3>3. First \ {m} \in SUBSET ahead[m]
            <4> SUFFICES ASSUME NEW x \in First \ {m}, x \notin ahead[m] PROVE FALSE
                OBVIOUS
            <4>1. rank[m] < rank[x]
                BY <1>2, <1>4
            <4> QED
                BY <1>1, <1>2, <3>2, <4>1
        <3>4. Cardinality(First \ {m}) <= Cardinality(ahead[m])
            BY <1>1, <1>2, <3>3, FS_Subset
        <3>5. Cardinality(First \ {m}) = Cardinality(First) - 1
            BY <1>3, FS_RemoveElement
        <3> QED
            BY <1>1, <1>2, <1>3, <3>4, <3>5
    <2> QED
        BY <2>1, <2>2
\* The first of the others: only the first are ahead of it, three at least.
<1>6. First = S \/ Cardinality(First) = 3
    <2> SUFFICES ASSUME First # S PROVE Cardinality(First) >= 3
        BY <1>3, <1>5
    <2> DEFINE Ranks == {rank[x] : x \in S \ First}
    <2>1. Ranks \subseteq Nat
        BY <1>1
    <2>2. Ranks # {}
        BY <1>2
    <2>3. PICK least \in Ranks : \A n \in Ranks : ~ (<<n, least>> \in OpToRel(<, Nat))
        BY <2>1, <2>2, NatLessThanWellFounded, WFMin
    <2>4. PICK m \in S \ First : rank[m] = least
        BY <2>3
    <2>5. \A n \in Ranks : ~ (n < least)
        BY <2>1, <2>3 DEF OpToRel
    <2>6. \A x \in S \ First : ~ (rank[x] < rank[m])
        BY <2>4, <2>5
    <2>7. ahead[m] \in SUBSET First
        BY <1>1, <1>4, <2>6
    <2>8. Cardinality(ahead[m]) <= Cardinality(First)
        BY <1>3, <2>7, FS_Subset
    <2> QED
        BY <1>1, <1>2, <1>3, <2>8
<1>7. ASSUME NEW x \in First, NEW y \in S \ First, x \notin ahead[y] PROVE FALSE
    <2>1. rank[y] < rank[x]
        BY <1>2, <1>4, <1>7
    <2> QED
        BY <1>1, <1>2, <2>1
<1> QED
    BY <1>5, <1>6, <1>7 DEF First

\* An index with finitely many requirements of finitely many tokens.
IsIndex(index) ==
    /\ DOMAIN index \subseteq Nat /\ IsFiniteSet(DOMAIN index)
    /\ \A r \in DOMAIN index : IsFiniteSet(index[r])

\* The requirements bind_requirements scores high enough, and its sort of them.
Scored(text, index) == {r \in DOMAIN index : Similar(text, index[r], 12)}
SortedBefore(text, index, s, r) ==
    /\ NoCloser(index[r], index[s], text)
    /\ NoCloser(index[s], index[r], text) => s < r

\* When a reviewer names no requirement its finding is bound to the first three of
\* the similar ones, or to all of them when these are fewer: none that is left out
\* comes before one that is taken (convergence.rs, bind_requirements).
THEOREM BoundIsFirstThree ==
    ASSUME NEW finding, finding.proposed = {}, IsFiniteSet(finding.requirement),
           NEW index, IsIndex(index)
    PROVE  LET scored == Scored(finding.requirement, index)
               bound == Bound(finding, index)
           IN  /\ bound \subseteq scored /\ Cardinality(bound) <= 3
               /\ bound = scored \/ Cardinality(bound) = 3
               /\ \A r \in bound, s \in scored \ bound :
                      SortedBefore(finding.requirement, index, r, s)
<1> DEFINE text == finding.requirement
           S == Scored(text, index)
           ahead == [r \in S |-> {s \in S : SortedBefore(text, index, s, r)}]
           common == [r \in S |-> Cardinality(index[r] \cap text)]
           all == [r \in S |-> Cardinality(index[r] \cup text)]
<1>1. IsFiniteSet(S)
    BY FS_Subset DEF Scored, IsIndex
<1>2. \A r \in S : r \in Nat /\ common[r] \in Nat /\ all[r] \in Nat \ {0}
    <2> TAKE r \in S
    <2>1. r \in DOMAIN index /\ IsFiniteSet(index[r]) /\ text # {} /\ r \in Nat
        BY DEF Scored, Similar, IsIndex
    <2>2. IsFiniteSet(index[r] \cap text) /\ IsFiniteSet(index[r] \cup text)
        BY <2>1, FS_Subset, FS_Union
    <2>3. Cardinality(index[r] \cap text) \in Nat /\ Cardinality(index[r] \cup text) \in Nat
        BY <2>2, FS_CardinalityType
    <2>4. Cardinality(index[r] \cup text) # 0
        BY <2>1, <2>2, FS_EmptySet
    <2> QED
        BY <2>1, <2>3, <2>4
<1>3. \A r, s \in S : SortedBefore(text, index, s, r) <=>
          /\ common[r] * all[s] <= common[s] * all[r]
          /\ common[s] * all[r] <= common[r] * all[s] => s < r
    BY DEF SortedBefore, NoCloser
<1>4. Bound(finding, index) = {r \in S : Cardinality(ahead[r]) < 3}
    <2>1. Bound(finding, index) =
              {r \in S : Cardinality({s \in S : SortedBefore(text, index, s, r)}) < 3}
        BY DEF Bound, Scored, SortedBefore
    <2> QED
        BY <2>1
<1>5. /\ ahead \in [S -> SUBSET S]
      /\ \A r, s \in S : s \in ahead[r] <=> SortedBefore(text, index, s, r)
    OBVIOUS
<1> HIDE DEF text, S, ahead, common, all
<1>6. \A r \in S : r \notin ahead[r]
    <2> SUFFICES ASSUME NEW r \in S, r \in ahead[r] PROVE FALSE
        OBVIOUS
    <2>1. common[r] * all[r] <= common[r] * all[r] => r < r
        BY <1>3, <1>5
    <2>2. common[r] * all[r] \in Nat
        BY <1>2, Products
    <2> QED
        BY <1>2, <2>1, <2>2
<1>7. \A r, s \in S : r = s \/ r \in ahead[s] \/ s \in ahead[r]
    <2> SUFFICES ASSUME NEW r \in S, NEW s \in S, r # s PROVE r \in ahead[s] \/ s \in ahead[r]
        OBVIOUS
    <2> DEFINE x == common[r] * all[s]
               y == common[s] * all[r]
    <2>1. x \in Nat /\ y \in Nat /\ r \in Nat /\ s \in Nat
        BY <1>2, Products
    <2>2. /\ s \in ahead[r] <=> x <= y /\ (y <= x => s < r)
          /\ r \in ahead[s] <=> y <= x /\ (x <= y => r < s)
        BY <1>3, <1>5
    <2> HIDE DEF x, y
    <2> QED
        BY <2>1, <2>2
<1>8. \A r \in S : \A s \in ahead[r] : ahead[s] \subseteq ahead[r]
    <2> SUFFICES ASSUME NEW r \in S, NEW s \in S, s \in ahead[r], NEW q \in S, q \in ahead[s]
                 PROVE  q \in ahead[r]
        BY <1>5
    <2>1. /\ common[r] * all[s] <= common[s] * all[r]
          /\ common[s] * all[r] <= common[r] * all[s] => s < r
          /\ common[s] * all[q] <= common[q] * all[s]
          /\ common[q] * all[s] <= common[s] * all[q] => q < s
        BY <1>3, <1>5
    <2>2. /\ common[r] * all[q] <= common[q] * all[r]
          /\ common[q] * all[r] <= common[r] * all[q] =>
                common[s] * all[r] <= common[r] * all[s] /\ common[q] * all[s] <= common[s] * all[q]
        <3>1. /\ common[r] \in Nat /\ common[s] \in Nat /\ common[q] \in Nat
              /\ all[r] \in Nat \ {0} /\ all[s] \in Nat \ {0} /\ all[q] \in Nat \ {0}
            BY <1>2
        <3> QED
            BY ONLY <2>1, <3>1, SharesTransitive, Zenon
    <2>3. common[q] * all[r] <= common[r] * all[q] => q < r
        BY <1>2, <2>1, <2>2
    <2> QED
        BY <1>3, <1>5, <2>2, <2>3
<1>9. /\ Cardinality(Bound(finding, index)) <= 3
      /\ Bound(finding, index) = S \/ Cardinality(Bound(finding, index)) = 3
      /\ \A r \in Bound(finding, index), s \in S \ Bound(finding, index) : r \in ahead[s]
    BY <1>1, <1>4, <1>5, <1>6, <1>7, <1>8, FirstThree
<1>10. Bound(finding, index) \subseteq S
    BY <1>4
<1> QED
    BY <1>5, <1>9, <1>10 DEF S, text

\* A finding in the words of a divergence is recognised, whatever it is bound to,
\* unless one of its texts is empty: it takes other words to make a second record
\* of a known fault (convergence.rs, matches_existing).
THEOREM SameWordsMatch ==
    ASSUME NEW finding, NEW bound, NEW known,
           finding.requirement = known.requirement, finding.fault = known.fault,
           IsFiniteSet(known.requirement), known.requirement # {},
           IsFiniteSet(known.fault), known.fault # {}
    PROVE  Matches(finding, bound, known)
<1>1. ASSUME NEW words, IsFiniteSet(words), words # {}, NEW percent \in 0 .. 100
      PROVE  Similar(words, words, percent)
    <2>1. Cardinality(words) \in Nat /\ words \cap words = words /\ words \cup words = words
        BY <1>1, FS_CardinalityType
    <2>2. 100 * Cardinality(words) >= percent * Cardinality(words)
        BY <2>1, Scale
    <2> QED
        BY <1>1, <2>1, <2>2 DEF Similar
<1>2. Similar(known.requirement, known.requirement, 55) /\ Similar(known.fault, known.fault, 45)
    BY <1>1
<1> QED
    BY <1>2 DEF Matches

-----------------------------------------------------------------------------
(* Types *)

LEMMA SomeRealityType == SomeReality \in Reality
<1> PICK c \in Contents : TRUE
    BY ContentsAssumption
<1> [f \in Files |-> c] \in Reality
    BY DEF Reality
<1> QED
    BY DEF SomeReality

LEMMA NoTaskType == NoTask \in Task
BY SomeRealityType DEF NoTask, Task, Phase, Verdict

LEMMA NoLedgerType == IsLedger(NoLedger) /\ DOMAIN NoLedger = {}
BY DEF IsLedger, NoLedger

LEMMA NoPassType == NoPass \in Pass
BY DEF NoPass, Pass, NoSummary, Summary

\* A function stays in its space when one of its values is replaced.
LEMMA UpdateType ==
    ASSUME NEW S, NEW T, NEW f \in [S -> T], NEW x \in S, NEW v \in T
    PROVE  [f EXCEPT ![x] = v] \in [S -> T]
OBVIOUS

LEMMA BoundType ==
    ASSUME NEW f \in Finding
    PROVE  Bound(f, Index) \in Requirements
<1> DOMAIN Index \subseteq Nat
    BY ReportsAssumption
<1> f.proposed \in Requirements
    BY DEF Finding
<1> QED
    BY DEF Bound, Requirements

LEMMA SuffixType ==
    ASSUME NEW S, NEW s \in Seq(S), s # <<>>
    PROVE  Head(s) \in S /\ Tail(s) \in Seq(S)
OBVIOUS

\* A task's step within its record.
LEMMA StopType ==
    ASSUME TypeOK, NEW p \in Projects, Stop(p)
    PROVE  task' \in [Projects -> Task]
BY NoTaskType DEF TypeOK, Stop

LEMMA GotoType ==
    ASSUME TypeOK, NEW p \in Projects, NEW phase \in Phase, Goto(p, phase)
    PROVE  task' \in [Projects -> Task]
<1> [task[p] EXCEPT !.phase = phase] \in Task
    BY DEF TypeOK, Task
<1> QED
    BY DEF TypeOK, Goto

\* What a review makes of the task.
LEMMA AcceptedType ==
    ASSUME NEW t \in Task
    PROVE  Accepted(t) \in Task
<1>1. CASE t.verdict = "findings"
    BY <1>1, NoTaskType DEF Accepted, ToLedger, Task, Phase, Verdict
<1>2. CASE t.verdict # "findings" /\ t.role = "review"
    BY <1>2 DEF Accepted, Task, Verdict
<1>3. CASE t.verdict # "findings" /\ t.role # "review"
    BY <1>3 DEF Accepted, Task, Phase
<1> QED
    BY <1>1, <1>2, <1>3

\* The task with the reviewer's report.
WithReport(t, reads, findings) ==
    [t EXCEPT !.read = {[subject |-> f, content |-> t.work[f]] : f \in reads},
              !.verdict = IF findings = <<>> THEN "approved" ELSE "findings",
              !.findings = findings]

LEMMA ReportType ==
    ASSUME NEW t \in Task, NEW reads \in SUBSET Files, NEW findings \in Reports
    PROVE  WithReport(t, reads, findings) \in Task
<1> {[subject |-> f, content |-> t.work[f]] : f \in reads} \in SUBSET Read
    BY DEF Task, Reality, Read
<1> findings \in Seq(Finding)
    BY ReportsAssumption
<1> QED
    BY DEF WithReport, Task, Verdict

\* A reconciliation's changes to the draft.
LEMMA PutType ==
    ASSUME IsLedger(draft), NEW d \in Identities, NEW r \in Divergence, Put(d, r)
    PROVE  IsLedger(draft')
BY DEF IsLedger, Put

LEMMA AgainType ==
    ASSUME NEW k \in Divergence, NEW f \in Finding, NEW b \in Requirements
    PROVE  Again(k, f, b) \in Divergence
<1> DEFINE state == IF k.state = "verified" THEN "reopened" ELSE "open"
           reopens == IF k.state = "verified" THEN k.reopens + 1 ELSE k.reopens
<1>1. state \in State /\ reopens \in Nat /\ k.attempts + 1 \in Nat
    BY DEF State, Divergence
<1>2. f.requirement \in Text /\ f.fault \in Text
    BY DEF Finding
<1>3. Again(k, f, b) = [k EXCEPT !.bound = b, !.requirement = f.requirement,
                                 !.fault = f.fault, !.attempts = k.attempts + 1,
                                 !.state = state, !.reopens = reopens]
    BY DEF Again, Divergence
<1> HIDE DEF state, reopens
<1> QED
    BY <1>1, <1>2, <1>3 DEF Divergence

LEMMA IdentityType ==
    ASSUME NEW f \in Finding, NEW b \in Requirements
    PROVE  Identity(f, b) \in Identities
BY DEF Identity, Identities, Finding, Text

LEMMA CountedType ==
    ASSUME NEW s \in Summary, NEW state
    PROVE  Counted(s, state) \in Summary
<1>1. CASE state = "verified"
    BY <1>1 DEF Counted, Summary
<1>2. CASE state # "verified"
    BY <1>2 DEF Counted, Summary
<1> QED
    BY <1>1, <1>2

LEMMA SeenAgainType ==
    ASSUME TypeOK, ~Free, pass.todo # <<>>, NEW f \in Finding, NEW b \in Requirements,
           SeenAgain(f, b)
    PROVE  pass' \in Pass /\ IsLedger(draft')
<1>1. PICK d \in Candidates(f, b) :
          /\ pass' = [pass EXCEPT
                        !.todo = Tail(@), !.matched = @ \cup {d},
                        !.summary = Counted(@, draft[d].state)]
          /\ Put(d, Again(draft[d], f, b))
    BY DEF SeenAgain
<1>2. d \in DOMAIN draft /\ d \in Identities /\ draft[d] \in Divergence
    BY DEF Candidates, Of, TypeOK, IsLedger
<1>3. Tail(pass.todo) \in Seq(Finding)
    BY SuffixType DEF TypeOK, Pass
<1>4. pass' \in Pass
    <2>1. Counted(pass.summary, draft[d].state) \in Summary
        BY CountedType DEF TypeOK, Pass
    <2> QED
        BY <1>1, <1>2, <1>3, <2>1 DEF TypeOK, Pass
<1> QED
    BY <1>1, <1>2, <1>4, AgainType, PutType DEF TypeOK

LEMMA SeenFirstType ==
    ASSUME TypeOK, ~Free, pass.todo # <<>>, NEW f \in Finding, NEW b \in Requirements,
           SeenFirst(f, b)
    PROVE  pass' \in Pass /\ IsLedger(draft')
<1>1. Identity(f, b) \in Identities
    BY IdentityType
<1>2. New(f, b) \in Divergence
    BY DEF New, Divergence, Finding, State, TypeOK, Pass, Task, Free
<1>3. Tail(pass.todo) \in Seq(Finding)
    BY SuffixType DEF TypeOK, Pass
<1>4. CASE Identity(f, b) \in pass.matched
    BY <1>3, <1>4 DEF SeenFirst, TypeOK, Pass
<1>5. CASE Identity(f, b) \notin pass.matched
    <2>1. pass' \in Pass
        <3>1. [pass.summary EXCEPT !.opened = @ + 1] \in Summary
            BY DEF TypeOK, Pass, Summary
        <3>2. pass' = [pass EXCEPT !.todo = Tail(@), !.matched = @ \cup {Identity(f, b)},
                                   !.summary = [pass.summary EXCEPT !.opened = @ + 1]]
            BY <1>5 DEF SeenFirst, TypeOK, Pass
        <3> QED
            BY <1>1, <1>3, <3>1, <3>2 DEF TypeOK, Pass
    <2> QED
        BY <1>1, <1>2, <1>5, <2>1, PutType DEF SeenFirst, TypeOK
<1> QED
    BY <1>4, <1>5

\* Every action keeps the variables in their types.
LEMMA TypeStep == TypeOK /\ [Next]_vars => TypeOK'
<1> SUFFICES ASSUME TypeOK, [Next]_vars PROVE TypeOK'
    OBVIOUS
<1>1. ASSUME NEW p \in Projects, NEW active \in BOOLEAN, CommitIntent(p, active)
      PROVE  TypeOK'
    <2>1. source' \in [Projects -> [rev : Nat, active : BOOLEAN]]
        BY <1>1, BoundsAssumption DEF CommitIntent, TypeOK
    <2>2. IsLedger(ledger')
        <3>1. \A r \in Divergence : [r EXCEPT !.state = "superseded"] \in Divergence
            BY DEF Divergence, State
        <3> QED
            BY <1>1, <3>1 DEF CommitIntent, TypeOK, IsLedger
    <2> QED
        BY <1>1, <2>1, <2>2 DEF CommitIntent, TypeOK
<1>2. ASSUME NEW p \in Projects, Begin(p)
      PROVE  TypeOK'
    <2>1. [task[p] EXCEPT !.phase = "loop", !.rev = source[p].rev] \in Task
        BY DEF TypeOK, Task, Phase
    <2> QED
        BY <1>2, <2>1 DEF Begin, TypeOK
<1>3. ASSUME NEW p \in Projects, LoopHead(p)
      PROVE  TypeOK'
    <2> "implement" \in Phase
        BY DEF Phase
    <2> QED
        BY <1>3, StopType, GotoType DEF LoopHead, TypeOK
<1>4. ASSUME NEW p \in Projects, NEW reality \in Reality, Implemented(p, reality)
      PROVE  TypeOK'
    <2>1. [task[p] EXCEPT !.phase = "validate", !.work = reality, !.before = reality] \in Task
        BY DEF TypeOK, Task, Phase
    <2> QED
        BY <1>4, <2>1 DEF Implemented, TypeOK
<1>5. ASSUME NEW p \in Projects, NEW ok \in BOOLEAN, NEW reality \in Reality,
             Validated(p, ok, reality)
      PROVE  TypeOK'
    <2> DEFINE G == {r \in evidence : r.content = task[p].before[r.subject]}
    <2>1. [task[p] EXCEPT !.phase = "review", !.validated = ok, !.work = reality, !.given = G]
              \in Task
        BY DEF TypeOK, Task, Phase
    <2> QED
        BY <1>5, <2>1 DEF Validated, TypeOK
<1>6. ASSUME NEW p \in Projects, NEW reads \in SUBSET Files, NEW findings \in Reports,
             Reviewed(p, reads, findings)
      PROVE  TypeOK'
    <2> DEFINE t == WithReport(task[p], reads, findings)
    <2>1. t \in Task /\ Accepted(t) \in Task
        BY ReportType, AcceptedType DEF TypeOK
    <2>2. CASE Acceptable(p, t)
        <3>1. task' = [task EXCEPT ![p] = Accepted(t)] /\ evidence' = evidence \cup t.given \cup t.read
            BY <1>6, <2>2 DEF Reviewed, WithReport
        <3>2. t.given \subseteq Read /\ t.read \subseteq Read
            BY <2>1 DEF Task
        <3> QED
            BY <1>6, <2>1, <3>1, <3>2 DEF Reviewed, TypeOK
    <2>3. CASE ~Acceptable(p, t)
        <3>1. Stop(p) /\ UNCHANGED evidence
            BY <1>6, <2>3 DEF Reviewed, WithReport
        <3> QED
            BY <1>6, <3>1, StopType DEF Reviewed, TypeOK
    <2> QED
        BY <2>2, <2>3
<1>7. ASSUME NEW p \in Projects, StartReconcile(p)
      PROVE  TypeOK'
    <2>1. [NoPass EXCEPT !.by = p, !.todo = task[p].findings] \in Pass
        BY NoPassType DEF Pass, TypeOK, Task
    <2> QED
        BY <1>7, <2>1 DEF StartReconcile, TypeOK
<1>8. ASSUME ReconcileFinding
      PROVE  TypeOK'
    <2>1. Head(pass.todo) \in Finding
        BY <1>8, SuffixType DEF ReconcileFinding, TypeOK, Pass
    <2> QED
        BY <1>8, <2>1, BoundType, SeenAgainType, SeenFirstType DEF ReconcileFinding, TypeOK
<1>9. ASSUME ReconcileRest
      PROVE  TypeOK'
    <2>1. IsLedger(ledger')
        <3>1. \A r \in Divergence : [r EXCEPT !.state = "verified"] \in Divergence
            BY DEF Divergence, State
        <3> QED
            BY <1>9, <3>1 DEF ReconcileRest, TypeOK, IsLedger
    <2>2. task' \in [Projects -> Task]
        <3> {"promote", "loop"} \subseteq Phase /\ pass.by \in Projects
            BY <1>9 DEF Phase, ReconcileRest, Free, TypeOK, Pass
        <3> QED
            BY <1>9, GotoType DEF ReconcileRest
    <2> QED
        BY <1>9, <2>1, <2>2, NoPassType, NoLedgerType DEF ReconcileRest, TypeOK
<1>10. ASSUME NEW p \in Projects, Promote(p) \/ Fail(p)
       PROVE  TypeOK'
    BY <1>10, StopType DEF Promote, Fail, TypeOK
<1>11. CASE Crash
    BY <1>11, NoTaskType, NoPassType, NoLedgerType DEF Crash, TypeOK
<1>12. CASE UNCHANGED vars
    BY <1>12 DEF vars, TypeOK
<1> QED
    BY <1>1, <1>2, <1>3, <1>4, <1>5, <1>6, <1>7, <1>8, <1>9, <1>10, <1>11, <1>12 DEF Next

\* The state is typed, for every number of Projects and every list of findings.
THEOREM TypeCorrect == Spec => []TypeOK
<1>1. Init => TypeOK
    BY NoTaskType, NoPassType, NoLedgerType DEF Init, TypeOK
<1> QED
    BY <1>1, TypeStep, PTL DEF Spec

-----------------------------------------------------------------------------
(* The inductive invariant *)

\* A record carries the words of one of the findings.
Words(record, findings) ==
    \E i \in DOMAIN findings :
        findings[i].requirement = record.requirement /\ findings[i].fault = record.fault

\* What a realization knows of itself: the roles follow each other, the cold
\* reviewer is given nothing, and an approval on its way to the ledger or to
\* promotion has no findings and is the cold reviewer's, corroborated by reads
\* of its own.
RoundOf(t) ==
    /\ t.phase = "idle" => t.findings = <<>>
    /\ t.phase \in {"idle", "loop", "implement", "validate"} => t.role = "review"
    /\ t.phase = "review" /\ t.role = "approval" => t.given = {}
    /\ t.phase = "promote" => t.verdict = "approved"
    /\ t.phase = "reconcile" /\ t.verdict # "approved" => t.role = "review"
    /\ t.phase \in {"reconcile", "promote"} /\ t.verdict = "approved" =>
           /\ t.findings = <<>>
           /\ t.validated /\ t.role = "approval"
           /\ \A f \in Files : [subject |-> f, content |-> t.work[f]] \in t.read

RoundInv == \A p \in Projects : RoundOf(task[p])

\* What a reconciliation has done so far: it works for the realization that
\* waits for it, what it matched is open in that finding's words and counted
\* once, and it left the other Projects' records alone.
PassInv ==
    ~Free =>
        LET t == task[pass.by]
        IN  /\ t.phase = "reconcile"
            /\ pass.matched \subseteq OpenOf(draft, pass.by, t.rev)
            /\ IsFiniteSet(pass.matched)
            /\ Cardinality(pass.matched) =
                   pass.summary.opened + pass.summary.still + pass.summary.reopened
            /\ \A d \in pass.matched : Words(draft[d], t.findings)
            /\ \A i \in DOMAIN pass.todo :
                   \E j \in DOMAIN t.findings : t.findings[j] = pass.todo[i]
            /\ t.verdict = "approved" => pass.todo = <<>> /\ pass.matched = {}
            /\ \A d \in DOMAIN draft : draft[d].project # pass.by =>
                   d \in DOMAIN ledger /\ ledger[d] = draft[d]

LedgerInv == ApprovalClosesLedger /\ LedgerIsLastReview

Inv == TypeOK /\ RoundInv /\ PassInv /\ LedgerInv

LEMMA NoTaskRound == RoundOf(NoTask)
BY DEF NoTask, RoundOf

LEMMA AcceptedRound ==
    ASSUME NEW t \in Task, RoundOf(t), t.phase = "review",
           NEW reads \in SUBSET Files, NEW findings \in Reports,
           NEW p, Acceptable(p, WithReport(t, reads, findings))
    PROVE  /\ RoundOf(Accepted(WithReport(t, reads, findings)))
           /\ Accepted(WithReport(t, reads, findings)).phase \notin {"promote", "loop", "implement"}
<1> DEFINE u == WithReport(t, reads, findings)
<1>1. /\ u \in Task /\ u.phase = "review" /\ u.role = t.role /\ u.given = t.given
      /\ u.verdict = IF findings = <<>> THEN "approved" ELSE "findings"
      /\ u.findings = findings
    <2>1. u \in Task
        BY ReportType
    <2>2. u.phase = "review" /\ u.role = t.role /\ u.given = t.given
        BY DEF WithReport, Task
    <2>3. /\ u.verdict = IF findings = <<>> THEN "approved" ELSE "findings"
          /\ u.findings = findings
        BY DEF WithReport, Task
    <2> QED
        BY <2>1, <2>2, <2>3
<1>2. u.verdict = "approved" => Corroborated(u) /\ u.work = u.before
    BY DEF Acceptable
<1> HIDE DEF u
<1> DEFINE R == RoundOf(Accepted(u)) /\ Accepted(u).phase \notin {"promote", "loop", "implement"}
<1>3. ASSUME u.verdict = "findings" PROVE R
    <2>1. Accepted(u) = ToLedger(u)
        BY <1>3 DEF Accepted
    <2>2. /\ ToLedger(u).phase = "reconcile" /\ ToLedger(u).verdict = "findings"
          /\ ToLedger(u).role = "review"
        BY <1>3, NoTaskType DEF ToLedger, NoTask
    <2> QED
        BY <2>1, <2>2 DEF RoundOf
<1>4. ASSUME u.verdict = "approved", u.role = "review" PROVE R
    <2>1. Accepted(u) = [u EXCEPT !.role = "approval", !.given = {}, !.read = {},
                                  !.verdict = "none"]
        BY <1>4 DEF Accepted
    <2>2. Accepted(u).phase = "review" /\ Accepted(u).given = {}
        BY <1>1, <2>1 DEF Task
    <2> QED
        BY <2>2 DEF RoundOf
<1>5. ASSUME u.verdict = "approved", u.role # "review" PROVE R
    <2>1. u.role = "approval" /\ u.given = {}
        BY <1>1, <1>5 DEF Task, RoundOf
    <2>2. \A f \in Files : [subject |-> f, content |-> u.work[f]] \in u.read
        BY <1>2, <1>5, <2>1 DEF Corroborated
    <2>3. Accepted(u) = [u EXCEPT !.phase = "reconcile"]
        BY <1>5 DEF Accepted
    <2>4. findings = <<>> /\ u.validated
        BY <1>1, <1>2, <1>5 DEF Corroborated
    <2>5. /\ Accepted(u).phase = "reconcile" /\ Accepted(u).verdict = "approved"
          /\ Accepted(u).findings = <<>> /\ Accepted(u).validated
          /\ Accepted(u).role = "approval"
          /\ Accepted(u).work = u.work /\ Accepted(u).read = u.read
        BY <1>1, <1>5, <2>1, <2>3, <2>4 DEF Task
    <2> QED
        BY <2>2, <2>5 DEF RoundOf
<1>6. R
    BY <1>1, <1>3, <1>4, <1>5
<1> QED
    BY <1>6 DEF u

LEMMA RoundStep == Inv /\ [Next]_vars => RoundInv'
<1> SUFFICES ASSUME Inv, [Next]_vars PROVE RoundInv'
    OBVIOUS
<1> USE DEF Inv, RoundInv
<1>0. ASSUME NEW p \in Projects, NEW u, RoundOf(u), task' = [task EXCEPT ![p] = u]
      PROVE  RoundInv'
    BY <1>0 DEF TypeOK
<1>1. ASSUME NEW p \in Projects, Stop(p)
      PROVE  RoundInv'
    BY <1>0, <1>1, NoTaskRound DEF Stop
<1>2. ASSUME NEW p \in Projects, Begin(p)
      PROVE  RoundInv'
    <2>1. RoundOf([task[p] EXCEPT !.phase = "loop", !.rev = source[p].rev])
        BY <1>2 DEF Begin, RoundOf, TypeOK, Task
    <2> QED
        BY <1>2, <1>0, <2>1 DEF Begin
<1>3. ASSUME NEW p \in Projects, LoopHead(p)
      PROVE  RoundInv'
    <2>1. RoundOf([task[p] EXCEPT !.phase = "implement"])
        BY <1>3 DEF LoopHead, RoundOf, TypeOK, Task
    <2> QED
        BY <1>3, <1>0, <1>1, <2>1 DEF LoopHead, Goto
<1>4. ASSUME NEW p \in Projects, NEW reality \in Reality, Implemented(p, reality)
      PROVE  RoundInv'
    <2>1. RoundOf([task[p] EXCEPT !.phase = "validate", !.work = reality, !.before = reality])
        BY <1>4 DEF Implemented, RoundOf, TypeOK, Task
    <2> QED
        BY <1>4, <1>0, <2>1 DEF Implemented
<1>5. ASSUME NEW p \in Projects, NEW ok \in BOOLEAN, NEW reality \in Reality,
             Validated(p, ok, reality)
      PROVE  RoundInv'
    <2> DEFINE G == {r \in evidence : r.content = task[p].before[r.subject]}
               u == [task[p] EXCEPT !.phase = "review", !.validated = ok,
                                    !.work = reality, !.given = G]
    <2>1. RoundOf(u)
        BY <1>5 DEF Validated, RoundOf, TypeOK, Task
    <2>2. task' = [task EXCEPT ![p] = u]
        BY <1>5 DEF Validated, TypeOK
    <2> QED
        BY <1>0, <2>1, <2>2
<1>6. ASSUME NEW p \in Projects, NEW reads \in SUBSET Files, NEW findings \in Reports,
             Reviewed(p, reads, findings)
      PROVE  RoundInv'
    <2> DEFINE u == WithReport(task[p], reads, findings)
    <2>1. CASE Acceptable(p, u)
        <3>1. RoundOf(Accepted(u))
            BY <1>6, <2>1, AcceptedRound DEF Reviewed, TypeOK
        <3>2. task' = [task EXCEPT ![p] = Accepted(u)]
            BY <1>6, <2>1 DEF Reviewed, WithReport
        <3> QED
            BY <1>0, <3>1, <3>2
    <2>2. CASE ~Acceptable(p, u)
        BY <1>6, <1>1, <2>2 DEF Reviewed, WithReport
    <2> QED
        BY <2>1, <2>2
<1>7. ASSUME NEW p \in Projects, NEW active \in BOOLEAN,
             CommitIntent(p, active) \/ StartReconcile(p)
      PROVE  RoundInv'
    BY <1>7 DEF CommitIntent, StartReconcile
<1>8. CASE ReconcileFinding
    BY <1>8 DEF ReconcileFinding
<1>9. CASE ReconcileRest
    <2> DEFINE p == pass.by
               phase == IF task[p].verdict = "approved" THEN "promote" ELSE "loop"
    <2>1. p \in Projects /\ task[p].phase = "reconcile"
        BY <1>9 DEF ReconcileRest, Free, PassInv, TypeOK, Pass
    <2>2. RoundOf([task[p] EXCEPT !.phase = phase])
        BY <2>1 DEF RoundOf, TypeOK, Task
    <2> QED
        BY <1>9, <1>0, <2>1, <2>2 DEF ReconcileRest, Goto
<1>10. ASSUME NEW p \in Projects, Promote(p) \/ Fail(p)
       PROVE  RoundInv'
    BY <1>10, <1>1 DEF Promote, Fail
<1>11. CASE Crash
    BY <1>11, NoTaskRound DEF Crash
<1>12. CASE UNCHANGED vars
    BY <1>12 DEF vars
<1> QED
    BY <1>2, <1>3, <1>4, <1>5, <1>6, <1>7, <1>8, <1>9, <1>10, <1>11, <1>12 DEF Next

\* The step of a reconciliation that puts a record for the finding into the draft
\* and counts it.
LEMMA PutKeepsPass ==
    ASSUME Inv, ~Free, pass.todo # <<>>, NEW d, d \notin pass.matched, NEW r,
           r.project = pass.by, r.rev = task[pass.by].rev, r.state \in {"open", "reopened"},
           r.requirement = Head(pass.todo).requirement, r.fault = Head(pass.todo).fault,
           Put(d, r), UNCHANGED <<task, ledger>>,
           pass'.by = pass.by, pass'.todo = Tail(pass.todo), pass'.matched = pass.matched \cup {d},
           pass'.summary.opened + pass'.summary.still + pass'.summary.reopened
               = pass.summary.opened + pass.summary.still + pass.summary.reopened + 1
    PROVE  PassInv'
<1> DEFINE t == task[pass.by]
<1>1. /\ t.phase = "reconcile" /\ pass.matched \subseteq OpenOf(draft, pass.by, t.rev)
      /\ IsFiniteSet(pass.matched)
      /\ Cardinality(pass.matched) =
             pass.summary.opened + pass.summary.still + pass.summary.reopened
      /\ \A e \in pass.matched : Words(draft[e], t.findings)
      /\ \A i \in DOMAIN pass.todo : \E j \in DOMAIN t.findings : t.findings[j] = pass.todo[i]
      /\ t.verdict # "approved"
      /\ \A e \in DOMAIN draft : draft[e].project # pass.by =>
             e \in DOMAIN ledger /\ ledger[e] = draft[e]
    BY DEF Inv, PassInv
<1>2. pass.todo \in Seq(Finding)
    BY DEF Inv, TypeOK, Pass
<1>3. /\ DOMAIN draft' = DOMAIN draft \cup {d} /\ draft'[d] = r
      /\ \A e \in DOMAIN draft : e # d => draft'[e] = draft[e]
    BY DEF Put
<1>4. pass'.matched \subseteq OpenOf(draft', pass.by, t.rev)
    BY <1>1, <1>3 DEF OpenOf, Of
<1>5. /\ IsFiniteSet(pass'.matched)
      /\ Cardinality(pass'.matched) = Cardinality(pass.matched) + 1
    BY <1>1, FS_AddElement
<1>6. Words(r, t.findings)
    <2>1. 1 \in DOMAIN pass.todo /\ Head(pass.todo) = pass.todo[1]
        BY <1>2
    <2> QED
        BY <1>1, <2>1 DEF Words
<1>7. \A e \in pass'.matched : Words(draft'[e], t.findings)
    <2> SUFFICES ASSUME NEW e \in pass.matched PROVE e # d /\ draft'[e] = draft[e]
        BY <1>1, <1>3, <1>6
    <2> QED
        BY <1>1, <1>3 DEF OpenOf, Of
<1>8. \A i \in DOMAIN pass'.todo : \E j \in DOMAIN t.findings : t.findings[j] = pass'.todo[i]
    <2> SUFFICES ASSUME NEW i \in DOMAIN pass'.todo
                 PROVE  i + 1 \in DOMAIN pass.todo /\ pass'.todo[i] = pass.todo[i + 1]
        BY <1>1
    <2> QED
        BY <1>2
<1>9. \A e \in DOMAIN draft' : draft'[e].project # pass.by =>
          e \in DOMAIN ledger /\ ledger[e] = draft'[e]
    BY <1>1, <1>3
<1> QED
    BY <1>1, <1>4, <1>5, <1>7, <1>8, <1>9 DEF PassInv, Free

LEMMA SeenAgainPass ==
    ASSUME Inv, ReconcileFinding, NEW b, SeenAgain(Head(pass.todo), b)
    PROVE  PassInv'
<1> DEFINE f == Head(pass.todo)
<1>1. PICK d \in Candidates(f, b) :
          /\ pass' = [pass EXCEPT
                        !.todo = Tail(@), !.matched = @ \cup {d},
                        !.summary = Counted(@, draft[d].state)]
          /\ Put(d, Again(draft[d], f, b))
    BY DEF SeenAgain
<1>2. /\ d \in DOMAIN draft /\ d \notin pass.matched /\ draft[d] \in Divergence
      /\ draft[d].project = pass.by /\ draft[d].rev = task[pass.by].rev
    BY DEF Candidates, Of, Inv, TypeOK, IsLedger
<1>3. LET r == Again(draft[d], f, b)
      IN  /\ r.project = pass.by /\ r.rev = task[pass.by].rev
          /\ r.state \in {"open", "reopened"}
          /\ r.requirement = f.requirement /\ r.fault = f.fault
    BY <1>2 DEF Again, Divergence
<1>4. /\ pass'.by = pass.by /\ pass'.todo = Tail(pass.todo)
      /\ pass'.matched = pass.matched \cup {d}
      /\ pass'.summary = Counted(pass.summary, draft[d].state)
    BY <1>1 DEF Inv, TypeOK, Pass
<1>5. pass'.summary.opened + pass'.summary.still + pass'.summary.reopened
          = pass.summary.opened + pass.summary.still + pass.summary.reopened + 1
    <2>1. pass.summary \in Summary
        BY DEF Inv, TypeOK, Pass
    <2>2. CASE draft[d].state = "verified"
        BY <1>4, <2>1, <2>2 DEF Counted, Summary
    <2>3. CASE draft[d].state # "verified"
        BY <1>4, <2>1, <2>3 DEF Counted, Summary
    <2> QED
        BY <2>2, <2>3
<1> QED
    BY <1>1, <1>2, <1>3, <1>4, <1>5, PutKeepsPass DEF ReconcileFinding

LEMMA SeenFirstPass ==
    ASSUME Inv, ReconcileFinding, NEW b, SeenFirst(Head(pass.todo), b)
    PROVE  PassInv'
<1> DEFINE f == Head(pass.todo)
           d == Identity(f, b)
<1>1. CASE d \in pass.matched
    <2>1. /\ pass'.by = pass.by /\ pass'.todo = Tail(pass.todo)
          /\ pass'.matched = pass.matched /\ pass'.summary = pass.summary
          /\ UNCHANGED <<draft, task, ledger>>
        BY <1>1 DEF SeenFirst, ReconcileFinding, Inv, TypeOK, Pass
    <2>2. pass.todo \in Seq(Finding) /\ pass.todo # <<>>
        BY DEF Inv, TypeOK, Pass, ReconcileFinding
    <2>3. \A i \in DOMAIN pass'.todo : i + 1 \in DOMAIN pass.todo /\ pass'.todo[i] = pass.todo[i + 1]
        BY <2>1, <2>2
    <2>4. PassInv /\ ~Free
        BY DEF Inv, ReconcileFinding
    <2> QED
        BY <2>1, <2>2, <2>3, <2>4 DEF PassInv, Free
<1>2. CASE d \notin pass.matched
    <2>1. /\ pass' = [pass EXCEPT !.todo = Tail(@), !.matched = @ \cup {d},
                                  !.summary.opened = @ + 1]
          /\ Put(d, New(f, b))
        BY <1>2 DEF SeenFirst
    <2>2. /\ pass'.by = pass.by /\ pass'.todo = Tail(pass.todo)
          /\ pass'.matched = pass.matched \cup {d}
          /\ pass'.summary = [pass.summary EXCEPT !.opened = @ + 1]
        BY <2>1 DEF Inv, TypeOK, Pass
    <2>3. pass.summary \in Summary
        BY DEF Inv, TypeOK, Pass
    <2>4. pass'.summary.opened + pass'.summary.still + pass'.summary.reopened
              = pass.summary.opened + pass.summary.still + pass.summary.reopened + 1
        BY <2>2, <2>3 DEF Summary
    <2>5. LET r == New(f, b)
          IN  /\ r.project = pass.by /\ r.rev = task[pass.by].rev /\ r.state = "open"
              /\ r.requirement = f.requirement /\ r.fault = f.fault
        BY DEF New
    <2> QED
        BY <1>2, <2>1, <2>2, <2>4, <2>5, PutKeepsPass DEF ReconcileFinding
<1> QED
    BY <1>1, <1>2

LEMMA PassStep == Inv /\ [Next]_vars => PassInv'
<1> SUFFICES ASSUME Inv, [Next]_vars PROVE PassInv'
    OBVIOUS
<1>1. ASSUME Free, UNCHANGED pass PROVE PassInv'
    BY <1>1 DEF Free, PassInv
<1>2. ASSUME NEW p \in Projects, task[p].phase # "reconcile", UNCHANGED <<pass, draft, ledger>>,
             NEW u, task' = [task EXCEPT ![p] = u]
      PROVE  PassInv'
    <2>1. CASE Free
        BY <1>1, <1>2, <2>1
    <2>2. CASE ~Free
        <3>1. pass.by # p /\ task'[pass.by] = task[pass.by]
            BY <1>2, <2>2 DEF Inv, PassInv, TypeOK, Pass, Free
        <3> QED
            BY <1>2, <2>2, <3>1 DEF Inv, PassInv, Free
    <2> QED
        BY <2>1, <2>2
<1>3. ASSUME NEW p \in Projects,
             \/ \E active \in BOOLEAN : CommitIntent(p, active)
             \/ Begin(p) \/ LoopHead(p)
             \/ \E ok \in BOOLEAN, reality \in Reality : Validated(p, ok, reality)
             \/ \E reads \in SUBSET Files, findings \in Reports : Reviewed(p, reads, findings)
      PROVE  PassInv'
    BY <1>1, <1>3 DEF CommitIntent, Begin, LoopHead, Validated, Reviewed
<1>4. ASSUME NEW p \in Projects, NEW reality \in Reality, Implemented(p, reality)
      PROVE  PassInv'
    <2>1. task' = [task EXCEPT ![p] = [task[p] EXCEPT !.phase = "validate", !.work = reality,
                                                     !.before = reality]]
        BY <1>4 DEF Implemented, Inv, TypeOK
    <2> QED
        BY <1>2, <1>4, <2>1 DEF Implemented
<1>5. ASSUME NEW p \in Projects, Promote(p) \/ Fail(p)
      PROVE  PassInv'
    BY <1>2, <1>5 DEF Promote, Fail, Stop
<1>6. ASSUME NEW p \in Projects, StartReconcile(p)
      PROVE  PassInv'
    <2>1. /\ pass'.by = p /\ pass'.todo = task[p].findings /\ pass'.matched = {}
          /\ pass'.summary = NoSummary
          /\ draft' = ledger /\ UNCHANGED <<task, ledger>> /\ task[p].phase = "reconcile"
        BY <1>6 DEF StartReconcile, NoPass
    <2>2. IsFiniteSet({}) /\ Cardinality({}) = 0
        BY FS_EmptySet
    <2>3. task[p].verdict = "approved" => task[p].findings = <<>>
        BY <2>1 DEF Inv, RoundInv, RoundOf
    <2>4. \A i \in DOMAIN pass'.todo :
              \E j \in DOMAIN task[p].findings : task[p].findings[j] = pass'.todo[i]
        BY <2>1
    <2> QED
        BY <2>1, <2>2, <2>3, <2>4 DEF PassInv, NoSummary
<1>7. CASE ReconcileFinding
    BY <1>7, SeenAgainPass, SeenFirstPass DEF ReconcileFinding
<1>8. CASE ReconcileRest \/ Crash
    BY <1>8 DEF ReconcileRest, Crash, NoPass, PassInv, Free
<1>9. CASE UNCHANGED vars
    BY <1>9 DEF vars, Inv, PassInv, Free
<1> QED
    BY <1>3, <1>4, <1>5, <1>6, <1>7, <1>8, <1>9 DEF Next

\* At its end a reconciliation leaves open exactly what it matched.
LEMMA OpenIsMatched ==
    ASSUME Inv, ReconcileRest
    PROVE  /\ OpenOf(ledger', pass.by, task[pass.by].rev) = pass.matched
           /\ \A d \in pass.matched : ledger'[d] = draft[d]
<1> DEFINE rev == task[pass.by].rev
           Closed(d) == [draft[d] EXCEPT !.state = "verified"]
<1>1. pass.matched \subseteq OpenOf(draft, pass.by, rev)
    BY DEF Inv, PassInv, ReconcileRest
<1>2. /\ DOMAIN ledger' = DOMAIN draft
      /\ \A d \in DOMAIN draft :
             ledger'[d] = IF d \in Unmatched THEN Closed(d) ELSE draft[d]
    BY DEF ReconcileRest
<1>3. \A d \in DOMAIN draft :
          /\ Closed(d).state = "verified"
          /\ Closed(d).project = draft[d].project /\ Closed(d).rev = draft[d].rev
    BY DEF Inv, TypeOK, IsLedger, Divergence
<1> HIDE DEF Closed
<1>4. \A d \in DOMAIN draft : d \in Unmatched <=>
          d \in OpenOf(draft, pass.by, rev) /\ d \notin pass.matched
    BY DEF Unmatched
<1>5. ASSUME NEW d \in OpenOf(ledger', pass.by, rev) PROVE d \in pass.matched
    <2>1. d \in DOMAIN draft /\ d \notin Unmatched /\ ledger'[d] = draft[d]
        BY <1>2, <1>3, <1>5 DEF OpenOf, Of
    <2>2. d \in OpenOf(draft, pass.by, rev)
        BY <1>5, <2>1 DEF OpenOf, Of
    <2> QED
        BY <1>4, <2>1, <2>2
<1>6. ASSUME NEW d \in pass.matched
      PROVE  d \in OpenOf(ledger', pass.by, rev) /\ ledger'[d] = draft[d]
    BY <1>1, <1>2, <1>4, <1>6 DEF OpenOf, Of
<1> QED
    BY <1>5, <1>6

LEMMA LedgerStep == Inv /\ [Next]_vars => LedgerInv'
<1> SUFFICES ASSUME Inv, [Next]_vars PROVE LedgerInv'
    OBVIOUS
\* A task's own step, with the ledger as it is.
<1>1. ASSUME NEW p \in Projects, UNCHANGED ledger, NEW u, task' = [task EXCEPT ![p] = u],
             \/ u.phase \notin {"promote", "loop", "implement"}
             \/ u.phase # "promote" /\ u.findings = <<>>
             \/ /\ u.phase = "implement" /\ task[p].phase = "loop"
                /\ u.findings = task[p].findings /\ u.rev = task[p].rev
      PROVE  LedgerInv'
    <2>1. task'[p] = u /\ \A q \in Projects : q # p => task'[q] = task[q]
        BY <1>1 DEF Inv, TypeOK
    <2>2. ApprovalClosesLedger'
        BY <1>1, <2>1 DEF Inv, LedgerInv, ApprovalClosesLedger
    <2>3. LedgerIsLastReview'
        <3> SUFFICES ASSUME NEW q \in Projects, task'[q].phase \in {"loop", "implement"},
                            task'[q].findings # <<>>,
                            NEW d \in OpenOf(ledger', q, task'[q].rev)
                     PROVE  Words(ledger'[d], task'[q].findings)
            BY DEF LedgerIsLastReview, Words
        <3>1. /\ task[q].phase \in {"loop", "implement"} /\ task[q].findings # <<>>
              /\ task'[q].findings = task[q].findings /\ task'[q].rev = task[q].rev
            BY <1>1, <2>1
        <3>2. d \in OpenOf(ledger, q, task[q].rev) /\ ledger' = ledger
            BY <1>1, <3>1
        <3> QED
            BY <3>1, <3>2 DEF Inv, LedgerInv, LedgerIsLastReview, Words
    <2> QED
        BY <2>2, <2>3 DEF LedgerInv
<1>2. ASSUME NEW p \in Projects, Stop(p), UNCHANGED ledger
      PROVE  LedgerInv'
    BY <1>1, <1>2 DEF Stop, NoTask
<1>3. ASSUME NEW p \in Projects, NEW active \in BOOLEAN, CommitIntent(p, active)
      PROVE  LedgerInv'
    <2>1. ASSUME NEW q, NEW rev, NEW d \in OpenOf(ledger', q, rev)
          PROVE  d \in OpenOf(ledger, q, rev) /\ ledger'[d] = ledger[d]
        <3>1. d \in DOMAIN ledger /\ ledger[d] \in Divergence
            BY <1>3, <2>1 DEF CommitIntent, OpenOf, Of, Inv, TypeOK, IsLedger
        <3>2. [ledger[d] EXCEPT !.state = "superseded"].state = "superseded"
            BY <3>1 DEF Divergence
        <3>3. ledger'[d].state \in {"open", "reopened"}
            BY <2>1 DEF OpenOf
        <3>4. ledger'[d] = ledger[d]
            BY <1>3, <3>1, <3>2, <3>3 DEF CommitIntent
        <3> QED
            BY <2>1, <3>1, <3>4 DEF OpenOf, Of
    <2>2. task' = task
        BY <1>3 DEF CommitIntent
    <2> QED
        BY <2>1, <2>2 DEF Inv, LedgerInv, ApprovalClosesLedger, LedgerIsLastReview
<1>4. ASSUME NEW p \in Projects, Begin(p)
      PROVE  LedgerInv'
    <2> DEFINE u == [task[p] EXCEPT !.phase = "loop", !.rev = source[p].rev]
    <2>1. u.phase = "loop" /\ u.findings = <<>>
        BY <1>4 DEF Begin, Inv, RoundInv, RoundOf, TypeOK, Task
    <2>2. task' = [task EXCEPT ![p] = u]
        BY <1>4 DEF Begin, Inv, TypeOK
    <2> HIDE DEF u
    <2> QED
        BY <1>1, <1>4, <2>1, <2>2 DEF Begin
<1>5. ASSUME NEW p \in Projects, LoopHead(p)
      PROVE  LedgerInv'
    <2> DEFINE u == [task[p] EXCEPT !.phase = "implement"]
    <2>1. u.phase = "implement" /\ u.findings = task[p].findings /\ u.rev = task[p].rev
        BY DEF Inv, TypeOK, Task
    <2> HIDE DEF u
    <2>2. CASE task' = [task EXCEPT ![p] = u]
        BY <1>1, <1>5, <2>1, <2>2 DEF LoopHead
    <2> QED
        BY <1>2, <1>5, <2>2 DEF LoopHead, Goto, u, Inv, TypeOK
<1>6. ASSUME NEW p \in Projects, NEW reality \in Reality, Implemented(p, reality)
      PROVE  LedgerInv'
    <2> DEFINE u == [task[p] EXCEPT !.phase = "validate", !.work = reality, !.before = reality]
    <2>1. u.phase = "validate"
        BY DEF Inv, TypeOK, Task
    <2>2. task' = [task EXCEPT ![p] = u]
        BY <1>6 DEF Implemented, Inv, TypeOK
    <2> HIDE DEF u
    <2> QED
        BY <1>1, <1>6, <2>1, <2>2 DEF Implemented
<1>7. ASSUME NEW p \in Projects, NEW ok \in BOOLEAN, NEW reality \in Reality,
             Validated(p, ok, reality)
      PROVE  LedgerInv'
    <2> DEFINE G == {r \in evidence : r.content = task[p].before[r.subject]}
               u == [task[p] EXCEPT !.phase = "review", !.validated = ok,
                                    !.work = reality, !.given = G]
    <2>1. u.phase = "review"
        BY DEF Inv, TypeOK, Task
    <2>2. task' = [task EXCEPT ![p] = u]
        BY <1>7 DEF Validated, Inv, TypeOK
    <2> HIDE DEF u
    <2> QED
        BY <1>1, <1>7, <2>1, <2>2 DEF Validated
<1>8. ASSUME NEW p \in Projects, NEW reads \in SUBSET Files, NEW findings \in Reports,
             Reviewed(p, reads, findings)
      PROVE  LedgerInv'
    <2> DEFINE u == WithReport(task[p], reads, findings)
    <2>1. CASE Acceptable(p, u)
        <3>1. Accepted(u).phase \notin {"promote", "loop", "implement"}
            BY <1>8, <2>1, AcceptedRound DEF Reviewed, Inv, RoundInv, TypeOK
        <3>2. task' = [task EXCEPT ![p] = Accepted(u)]
            BY <1>8, <2>1 DEF Reviewed, WithReport
        <3> HIDE DEF u
        <3> QED
            BY <1>1, <1>8, <3>1, <3>2 DEF Reviewed
    <2>2. CASE ~Acceptable(p, u)
        BY <1>2, <1>8, <2>2 DEF Reviewed, WithReport
    <2> QED
        BY <2>1, <2>2
<1>9. ASSUME NEW p \in Projects, Promote(p) \/ Fail(p)
      PROVE  LedgerInv'
    BY <1>2, <1>9 DEF Promote, Fail
<1>10. CASE ReconcileRest
    <2> DEFINE p == pass.by
    <2>1. /\ p \in Projects
          /\ task[p].verdict = "approved" => pass.matched = {}
          /\ \A d \in pass.matched : Words(draft[d], task[p].findings)
          /\ \A d \in DOMAIN draft : draft[d].project # p =>
                 d \in DOMAIN ledger /\ ledger[d] = draft[d]
        BY <1>10 DEF ReconcileRest, Inv, PassInv, TypeOK, Pass, Free
    <2>2. /\ task'[p].phase = IF task[p].verdict = "approved" THEN "promote" ELSE "loop"
          /\ task'[p].findings = task[p].findings /\ task'[p].rev = task[p].rev
          /\ \A q \in Projects : q # p => task'[q] = task[q]
        BY <1>10, <2>1 DEF ReconcileRest, Goto, Inv, TypeOK, Task
    <2>3. ASSUME NEW q \in Projects, q # p, NEW rev, NEW d \in OpenOf(ledger', q, rev)
          PROVE  d \in OpenOf(ledger, q, rev) /\ ledger'[d] = ledger[d]
        <3>1. d \in DOMAIN draft /\ ledger'[d].project = q
            BY <1>10, <2>3 DEF ReconcileRest, OpenOf, Of
        <3>2. [draft[d] EXCEPT !.state = "verified"].project = draft[d].project
            BY <3>1 DEF Inv, TypeOK, IsLedger, Divergence
        <3>3. draft[d].project = q
            BY <1>10, <3>1, <3>2 DEF ReconcileRest
        <3>4. d \notin Unmatched
            BY <2>3, <3>3 DEF Unmatched, OpenOf, Of
        <3>5. ledger'[d] = draft[d]
            BY <1>10, <3>1, <3>4 DEF ReconcileRest
        <3>6. d \in DOMAIN ledger /\ ledger[d] = draft[d]
            BY <2>1, <2>3, <3>1, <3>3
        <3> QED
            BY <2>3, <3>5, <3>6 DEF OpenOf, Of
    <2>4. ApprovalClosesLedger'
        <3> SUFFICES ASSUME NEW q \in Projects, task'[q].phase = "promote"
                     PROVE  OpenOf(ledger', q, task'[q].rev) = {}
            BY DEF ApprovalClosesLedger
        <3>1. CASE q = p
            BY <1>10, <2>1, <2>2, <3>1, OpenIsMatched
        <3>2. CASE q # p
            BY <2>2, <2>3, <3>2 DEF Inv, LedgerInv, ApprovalClosesLedger
        <3> QED
            BY <3>1, <3>2
    <2>5. LedgerIsLastReview'
        <3> SUFFICES ASSUME NEW q \in Projects, task'[q].phase \in {"loop", "implement"},
                            task'[q].findings # <<>>,
                            NEW d \in OpenOf(ledger', q, task'[q].rev)
                     PROVE  Words(ledger'[d], task'[q].findings)
            BY DEF LedgerIsLastReview, Words
        <3>1. CASE q = p
            BY <1>10, <2>1, <2>2, <3>1, OpenIsMatched
        <3>2. CASE q # p
            BY <2>2, <2>3, <3>2 DEF Inv, LedgerInv, LedgerIsLastReview, Words
        <3> QED
            BY <3>1, <3>2
    <2> QED
        BY <2>4, <2>5 DEF LedgerInv
<1>11. ASSUME UNCHANGED <<task, ledger>> PROVE LedgerInv'
    BY <1>11 DEF Inv, LedgerInv, ApprovalClosesLedger, LedgerIsLastReview
<1>12. CASE Crash
    BY <1>12 DEF Crash, NoTask, LedgerInv, ApprovalClosesLedger, LedgerIsLastReview
<1>13. CASE UNCHANGED vars
    BY <1>11, <1>13 DEF vars
<1>14. CASE ReconcileFinding \/ (\E p \in Projects : StartReconcile(p))
    BY <1>11, <1>14 DEF ReconcileFinding, StartReconcile
<1> QED
    BY <1>14, <1>3, <1>4, <1>5, <1>6, <1>7, <1>8, <1>9, <1>10, <1>11, <1>12, <1>13 DEF Next

LEMMA Invariance == Spec => []Inv
<1>1. Init => Inv
    <2> SUFFICES ASSUME Init PROVE Inv
        OBVIOUS
    <2>1. TypeOK
        BY NoTaskType, NoPassType, NoLedgerType DEF Init, TypeOK
    <2>2. RoundInv
        BY NoTaskRound DEF Init, RoundInv
    <2>3. PassInv /\ LedgerInv
        BY DEF Init, NoTask, NoPass, PassInv, Free, LedgerInv, ApprovalClosesLedger,
               LedgerIsLastReview
    <2> QED
        BY <2>1, <2>2, <2>3 DEF Inv
<1>2. Inv /\ [Next]_vars => Inv'
    BY TypeStep, RoundStep, PassStep, LedgerStep DEF Inv
<1> QED
    BY <1>1, <1>2, PTL DEF Spec

-----------------------------------------------------------------------------
(* The theorems *)

\* What is promoted was validated and read by the cold reviewer itself, file by
\* file, with the contents that are promoted.
THEOREM FreshApproval == Spec => []ApprovedIsFreshlyRead
<1>1. Inv => ApprovedIsFreshlyRead
    BY DEF Inv, RoundInv, RoundOf, ApprovedIsFreshlyRead
<1> QED
    BY <1>1, Invariance, PTL

\* Nothing is open against the revision of an approved checkpoint, with any
\* number of Projects in the same ledger.
THEOREM ClosedApproval == Spec => []ApprovalClosesLedger
<1>1. Inv => ApprovalClosesLedger
    BY DEF Inv, LedgerInv
<1> QED
    BY <1>1, Invariance, PTL

\* The implementer is told the last review's findings and nothing older.
THEOREM LastReviewOnly == Spec => []LedgerIsLastReview
<1>1. Inv => LedgerIsLastReview
    BY DEF Inv, LedgerInv
<1> QED
    BY <1>1, Invariance, PTL

\* The counts of a reconciliation add up to what it leaves open.
THEOREM CountsAddUp == Spec => SummaryIsTheLedger
<1> DEFINE Adds == ReconcileRest =>
              pass.summary.opened + pass.summary.still + pass.summary.reopened
                  = Cardinality(OpenOf(ledger', pass.by, task[pass.by].rev))
<1>1. Inv /\ [Next]_vars => [Adds]_vars
    BY OpenIsMatched DEF Inv, PassInv, ReconcileRest
<1> QED
    BY <1>1, Invariance, PTL DEF Spec, SummaryIsTheLedger
=============================================================================
