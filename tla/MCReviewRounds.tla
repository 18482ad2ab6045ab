--------------------------- MODULE MCReviewRounds ---------------------------
(* Instances of ReviewRounds for model checking. *)
EXTENDS ReviewRounds, TLC

\* One requirement, in the words an agent gave it.
OneRequirement == 1 :> {1, 2, 3}

\* A fault as it drifts from review to review: each wording is recognised in the
\* next one, the first is not recognised in the third.  The second names the
\* requirement instead of describing it.
Wording(i) ==
    [proposed |-> IF i = 2 THEN {1} ELSE {},
     requirement |-> IF i = 2 THEN {4} ELSE {1, 2},
     fault |-> (10 + i) .. (12 + i)]
DriftingReports == {<<Wording(i)>> : i \in 1 .. 3}

\* An approval, one finding, and two findings that may be one divergence or two,
\* depending on what the ledger holds.
MixedReports == {<<>>, <<Wording(1)>>, <<Wording(2), Wording(3)>>}

ProjectSymmetry == Permutations(Projects)
=============================================================================
