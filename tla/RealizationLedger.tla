-------------------------- MODULE RealizationLedger --------------------------
(***************************************************************************)
(* What realization promises the owner of a Project, whatever operations,  *)
(* agents, connections and crashes do: intent only moves to its next       *)
(* revision, an approval is given only to a revision that is current and   *)
(* active at that moment, and the primary checkout only moves forward, by  *)
(* the owner's own commits or by a commit that carries both approvals of   *)
(* one operation for one revision.                                         *)
(*                                                                         *)
(* Not promised, because the code does not: that the revision is still     *)
(* current when its approved commit reaches the primary checkout.          *)
(***************************************************************************)
EXTENDS Integers

CONSTANT Ops

VARIABLES source,     \* revision of the Source of Intent, and whether active
          approvals,  \* approving reviews [op, rev, commit, role]
          primary,    \* the primary checkout, as the set of its changes
          ownerWork   \* the owner's commits among them

ledger == <<source, approvals, primary, ownerWork>>

Init ==
    /\ source = [rev |-> 0, active |-> FALSE]
    /\ approvals = {}
    /\ primary = {0} /\ ownerWork = {0}

CommitIntent ==
    /\ \E active \in BOOLEAN : source' = [rev |-> source.rev + 1, active |-> active]
    /\ UNCHANGED <<approvals, primary, ownerWork>>

Approve ==
    /\ source.active
    /\ \E a \in approvals' :
           /\ a.op \in Ops /\ a.rev = source.rev /\ a.role \in {"review", "approval"}
           /\ approvals' = approvals \cup {a}
    /\ UNCHANGED <<source, primary, ownerWork>>

\* The commit of some approval, when both roles approved it.
Promote ==
    /\ \E a \in approvals :
           /\ \A role \in {"review", "approval"} : [a EXCEPT !.role = role] \in approvals
           /\ primary \subseteq a.commit
           /\ primary' = a.commit
    /\ UNCHANGED <<source, approvals, ownerWork>>

OwnerCommit ==
    /\ \E c \in primary' \ primary :
           primary' = primary \cup {c} /\ ownerWork' = ownerWork \cup {c}
    /\ UNCHANGED <<source, approvals>>

Next == CommitIntent \/ Approve \/ Promote \/ OwnerCommit

Spec == Init /\ [][Next]_ledger
=============================================================================
