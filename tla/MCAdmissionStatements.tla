----------------------- MODULE MCAdmissionStatements -----------------------
(***************************************************************************)
(* A small instance of AdmissionStatements for TLC: two requests of one    *)
(* account, which has one slot, and one of another.  Two of the three fit  *)
(* the platform's slots; its budget holds any two of them, not all three.  *)
(***************************************************************************)
EXTENDS AdmissionStatements, TLC

CONSTANTS r1, r2, r3, alice, bob, s1, s2

AliceAndBob == [r \in Requests |-> IF r = r3 THEN bob ELSE alice]

HoldByRequest == [r \in Requests |-> IF r = r3 THEN 2 ELSE 1]
CostByRequest == [r \in Requests |-> {1}]

OneSlot     == [u \in Users |-> 1]
UserBudget  == [u \in Users |-> [w \in Windows |-> 2]]
TotalBudget == [w \in Windows |-> 3]

StatementSymmetry == Permutations({r1, r2}) \cup Permutations({s1, s2})

=============================================================================
