------------------------- MODULE MCRouterAdmission -------------------------
(***************************************************************************)
(* Small instances of RouterAdmission for TLC.                             *)
(***************************************************************************)
EXTENDS RouterAdmission, TLC

CONSTANTS r1, r2, alice, p1, p2

OnlyAlice == [r \in Requests |-> alice]

(* Amounts in microdollars.                                                *)
HoldTwo  == [r \in Requests |-> 2]
TheHold  == [r \in Requests |-> {2}]

(* Slots and budgets admit both requests.                                  *)
TwoSlots    == [u \in Users |-> 2]
UserBudget  == [u \in Users |-> [w \in Windows |-> 4]]
TotalBudget == [w \in Windows |-> 4]

RouterSymmetry == Permutations({p1, p2})

=============================================================================
