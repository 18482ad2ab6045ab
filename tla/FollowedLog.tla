---------------------------- MODULE FollowedLog -----------------------------
(***************************************************************************)
(* What a Project's timeline promises its clients, whatever overtakes      *)
(* what on the way: a log that only grows, a mirror of it at the Hub, and  *)
(* followers.  A mirror or a follower never loses an item it had, never    *)
(* has one the log has not, and no follower has one the mirror has not.    *)
(* An item is owed to the clients that followed when it was appended, and  *)
(* only the loss of a connection cancels the debt.                         *)
(*                                                                         *)
(* Not promised, because the code does not: that what a follower shows of  *)
(* the operation is not older than what it showed before.                  *)
(***************************************************************************)
EXTENDS Integers

CONSTANTS Clients, Opened

VARIABLES items,    \* length of the log
          op,       \* number of the operation's last update
          cache,    \* the mirror
          view,     \* what each client shows
          followed  \* items owed to each client, or shown to it since

log == <<items, op, cache, view, followed>>

Nothing == [has |-> FALSE, items |-> {}, op |-> 0]
Beginning == [has |-> TRUE, items |-> {1}, op |-> 0]

Init ==
    /\ items = 1 /\ op = 0
    /\ cache = IF Opened = {} THEN Nothing ELSE Beginning
    /\ view = [c \in Clients |-> IF c \in Opened THEN Beginning ELSE Nothing]
    /\ followed = [c \in Clients |-> {}]

\* Some of the clients that show the log follow it now.
Append ==
    /\ items' = items + 1
    /\ \E F \in SUBSET {c \in Clients : view[c].has} :
           followed' = [c \in Clients |-> IF c \in F THEN followed[c] \cup {items'}
                                                     ELSE followed[c]]
    /\ UNCHANGED <<op, cache, view>>

Update ==
    /\ op' = op + 1
    /\ UNCHANGED <<items, cache, view, followed>>

\* new shows what old did, more of the items that are there, and some update.
Extends(new, old, there) ==
    /\ new.has
    /\ old.items \subseteq new.items /\ new.items \subseteq there
    /\ new.op \in 0 .. op

Mirror ==
    /\ Extends(cache', cache, 1 .. items)
    /\ UNCHANGED <<items, op, view, followed>>

Show(c) ==
    /\ cache.has /\ Extends(view'[c], view[c], cache.items)
    /\ \A d \in Clients \ {c} : view'[d] = view[d]
    /\ UNCHANGED <<items, op, cache, followed>>

\* Connections are lost: nothing is owed to these clients any more.
Lose ==
    /\ \E L \in SUBSET Clients :
           followed' = [c \in Clients |-> IF c \in L THEN {} ELSE followed[c]]
    /\ UNCHANGED <<items, op, cache, view>>

Next == Append \/ Update \/ Mirror \/ (\E c \in Clients : Show(c)) \/ Lose

Spec == Init /\ [][Next]_log
=============================================================================
