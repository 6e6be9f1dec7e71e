--------------------------- MODULE MCOwnerConsole ---------------------------
(***************************************************************************)
(* Small instances of OwnerConsole for TLC: owners and two users who share *)
(* an invited address.                                                     *)
(***************************************************************************)
EXTENDS OwnerConsole, TLC

CONSTANTS o1, o2, u1, u2, c1, ownerMail, userMail, r1, r2, low, high

MCEmailOf == [a \in Accounts |-> IF a \in Owners THEN ownerMail ELSE userMail]

Symmetry == Permutations(Requests)

=============================================================================
