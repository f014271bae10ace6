----------------------------- MODULE MCBloxtree -----------------------------
(***************************************************************************)
(* Instances of the engine for TLC: which process makes which calls.       *)
(***************************************************************************)
EXTENDS BloxtreeRefinement, TLC

CONSTANTS p1, p2, x1, x2

\* The first process makes every call, the second only adds and reads.
AllAndAdds == (p1 :> OpName) @@ (p2 :> {"add", "get"})

AllCalls == [p \in Proc |-> OpName]
Removals == [p \in Proc |-> {"remove", "remove_version", "remove_folder", "trim"}]
AddAndRemove == [p \in Proc |-> {"add", "remove"}]
TrimOnly == [p \in Proc |-> {"trim"}]

OneFolder == {Path}
TwoFolders == {{x1}, Path}

\* Sound where Folders treats the paths alike.
DataSymmetry == Permutations(Hash) \cup Permutations(Path)
=============================================================================
