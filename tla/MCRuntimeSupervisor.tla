------------------------ MODULE MCRuntimeSupervisor ------------------------
(***************************************************************************)
(* Small instances of RuntimeSupervisor for TLC.                           *)
(***************************************************************************)
EXTENDS RuntimeSupervisor, TLC

CONSTANTS t1, t2, t3, ha, hb, wa

(* Two turns of one chat and one of another, in one project.               *)
TwoChats == (t1 :> ha) @@ (t2 :> ha) @@ (t3 :> hb)
OneWorkspace == [t \in Tasks |-> wa]
NoRepository == [t \in Tasks |-> NoGit]
ChatOfTurn == [t \in Tasks |-> TwoChats[t]]
=============================================================================
