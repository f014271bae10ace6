--------------------------- MODULE MCBloxtreeFuse ---------------------------
(***************************************************************************)
(* Instances of the FUSE driver for TLC: which handlers the clients use,   *)
(* and which paths exist when it is mounted.                               *)
(***************************************************************************)
EXTENDS BloxtreeFuse, TLC

CONSTANT a

Top(n) == <<n>>
PlainName(b) == [under |-> 0, base |-> b]
TopFiles == {Top(PlainName(b)) : b \in Base}
PlainPaths == {x \in NamePath : \A i \in DOMAIN x : x[i].under = 0}
OneFile == {Top(PlainName(a))}
NoPaths == {}

Handles == {"lookup", "create", "open", "write", "release"}
Everything == Handles \cup {"readdir", "mkdir", "rmdir", "unlink", "rename",
                             "truncate", "other_add"}
Naming == {"unlink", "mkdir", "rmdir", "other_add", "other_remove"}
Renaming == {"lookup", "rename"}
MovedWhileOpen == {"lookup", "open", "write", "release", "rename"}
Overwriting == {"lookup", "open", "write", "release"}

BaseSymmetry == Permutations(Base)
FuseSymmetry == Permutations(Base) \cup Permutations(Slot)
=============================================================================
