---------------------------- MODULE Convergence ----------------------------
(***************************************************************************)
(* How the Spoke recognises a finding it has seen before                   *)
(* (spoke/src/convergence.rs): the pure part of the divergence ledger.  A  *)
(* text is the set of its normalised tokens; a requirement index maps each *)
(* requirement's id to the tokens of its heading and text; a divergence's  *)
(* identity is what the code hashes into it (no two contents collide),     *)
(* except that the order in which a reviewer lists requirements is not     *)
(* told apart.                                                             *)
(***************************************************************************)
EXTENDS Integers, Sequences, FiniteSets

Text == SUBSET Nat
Requirements == SUBSET Nat
Finding == [proposed : Requirements, requirement : Text, fault : Text]
Identities == [requirements : Requirements, tokens : Text]

\* similarity(a, b) >= percent / 100: the share of common tokens.
Similar(a, b, percent) ==
    /\ a # {} /\ b # {}
    /\ 100 * Cardinality(a \cap b) >= percent * Cardinality(a \cup b)

\* similarity(a, c) <= similarity(b, c), compared without dividing.
NoCloser(a, b, c) ==
    Cardinality(a \cap c) * Cardinality(b \cup c)
        <= Cardinality(b \cap c) * Cardinality(a \cup c)

\* The requirements a finding is about: those the reviewer proposes, as far as
\* they exist, and only when it proposes none the three most similar ones, the
\* smaller id first among equals.
Bound(finding, index) ==
    LET similar == {r \in DOMAIN index : Similar(finding.requirement, index[r], 12)}
        Before(s, r) ==
            /\ NoCloser(index[r], index[s], finding.requirement)
            /\ NoCloser(index[s], index[r], finding.requirement) => s < r
    IN  IF finding.proposed # {}
        THEN finding.proposed \cap DOMAIN index
        ELSE {r \in similar : Cardinality({s \in similar : Before(s, r)}) < 3}

\* A new divergence's identity: neither its Project nor its revision is in it.
Identity(finding, bound) ==
    [requirements |-> bound, tokens |-> finding.requirement \cup finding.fault]

\* A finding is a known divergence seen again.
Matches(finding, bound, known) ==
    \/ bound \cap known.bound # {} /\ Similar(finding.fault, known.fault, 35)
    \/ /\ Similar(finding.requirement, known.requirement, 55)
       /\ Similar(finding.fault, known.fault, 45)
=============================================================================
