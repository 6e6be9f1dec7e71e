------------------------- MODULE MCRuntimeScheduler -------------------------
(***************************************************************************)
(* Instances of RuntimeScheduler for TLC.                                  *)
(***************************************************************************)
EXTENDS RuntimeScheduler, TLC

CONSTANTS t1, t2, t3, t4, wa, wb, g

(* Two worktrees of one repository and a folder without Git.               *)
WorkspaceOf == (t1 :> wa) @@ (t2 :> wb) @@ (t3 :> wa) @@ (t4 :> "other")
GitOf == (t1 :> g) @@ (t2 :> g) @@ (t3 :> g) @@ (t4 :> NoGit)
=============================================================================
