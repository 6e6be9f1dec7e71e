--------------------------- MODULE WorkspaceLeases ---------------------------
(***************************************************************************)
(* What the desktop's scheduler promises its callers, apart from how it    *)
(* keeps its queue: tasks hold leases of workspaces, leases that conflict  *)
(* are never held together, no more than Capacity are held, and of two     *)
(* tasks that conflict the one that asked first is served first.           *)
(***************************************************************************)
EXTENDS Queues

CONSTANTS
  Tasks,      \* whatever asks for a lease
  Conflicts,  \* the pairs of tasks whose leases exclude each other
  Capacity    \* how many leases may be held

VARIABLES
  waiting,    \* the tasks that asked, in the order they did
  held        \* the tasks that hold their lease

Excludes(t, S) == \E u \in S : <<t, u>> \in Conflicts

(* The tasks that asked before the i-th of w.                              *)
Before(w, i) == {w[j] : j \in 1 .. i - 1}

(* Out of those waiting in w, some are granted: none against a holder, nor *)
(* against one that asked earlier, whether that one is granted or not.     *)
Granting(w, h) ==
  \E S \in SUBSET Members(w) :
    /\ S # {} => Cardinality(h \cup S) <= Capacity
    /\ \A i \in DOMAIN w : w[i] \in S => ~Excludes(w[i], h \cup Before(w, i))
    /\ held' = h \cup S
    /\ waiting' = Without(w, S)

Init ==
  /\ waiting = <<>>
  /\ held = {}

Ask(t) ==
  /\ t \notin held \cup Members(waiting)
  /\ Granting(Append(waiting, t), held)

Withdraw(t) ==
  /\ t \in Members(waiting)
  /\ Granting(Without(waiting, {t}), held)

Return(t) ==
  /\ t \in held
  /\ Granting(waiting, held \ {t})

Next == \E t \in Tasks : Ask(t) \/ Withdraw(t) \/ Return(t)

Spec == Init /\ [][Next]_<<waiting, held>>

(* No two holders conflict, and there are at most Capacity of them.        *)
Exclusive ==
  /\ \A t, u \in held : t # u => <<t, u>> \notin Conflicts
  /\ Cardinality(held) <= Capacity
=============================================================================
