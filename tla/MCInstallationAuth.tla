------------------------- MODULE MCInstallationAuth -------------------------
(***************************************************************************)
(* Small instances of InstallationAuth for TLC.                            *)
(***************************************************************************)
EXTENDS InstallationAuth, TLC

CONSTANTS old, new, u, v, s1, s2

RequestSymmetry == Permutations(Slots) \cup Permutations(Users)
=============================================================================
