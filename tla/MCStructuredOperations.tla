----------------------- MODULE MCStructuredOperations -----------------------
(***************************************************************************)
(* Small instances of StructuredOperations for TLC.                        *)
(***************************************************************************)
EXTENDS StructuredOperations, TLC

CONSTANTS t1, t3, ha, wa, apply, git, move

OneChat == [t \in Tasks |-> ha]
OneWorkspace == [t \in Tasks |-> wa]
NoRepository == [t \in Tasks |-> NoGit]

(* A dependency.apply and a Git operation of one turn, a file.move of the  *)
(* other.                                                                  *)
Owners == (apply :> t1) @@ (git :> t1) @@ (move :> t3)
OwnerOf == [o \in Ops |-> Owners[o]]
=============================================================================
