---------------------------- MODULE FolderListing ----------------------------
(***************************************************************************)
(* Paths as sequences of names, and the listing of one level of a folder   *)
(* that `list_folder` (lib.rs) computes from the rows of the index.        *)
(*                                                                         *)
(* A name is a base preceded by some underscores, because the file system  *)
(* gives leading underscores a meaning; bases sort after the underscore.   *)
(* No name is empty and none contains a slash, so the byte range           *)
(* [d/, d0) of `prefix_range` holds exactly the paths below d, and the     *)
(* range of the empty prefix every path.                                   *)
(***************************************************************************)
EXTENDS Integers, FiniteSets, SequencesExt

CONSTANTS
  Base,      \* what a name may be without its leading underscores
  MaxUnder,  \* bound: leading underscores of a name
  MaxDepth   \* bound: names in a path

\* A name may have underscores or none, a path one name or more.
ASSUME NameAssumption == MaxUnder \in Nat /\ MaxDepth \in Nat

Name == [under : 0..MaxUnder, base : Base]
NamePath == UNION {[1..n -> Name] : n \in 1..MaxDepth}
Root == <<>>
Dir  == NamePath \cup {Root}

Child(d, n) == Append(d, n)
Children(d) == IF Len(d) < MaxDepth THEN {Child(d, n) : n \in Name} ELSE {}

\* For each directory, the paths below it.
Below == [d \in Dir |-> {y \in NamePath : IsStrictPrefix(d, y)}]

\* The rows of path x and of the paths below it, in a table that holds the
\* versions history[y] of each path y.
RowsUnder(history, x) == UNION {{y} \X DOMAIN history[y] : y \in Below[x] \cup {x}}

Prefix(x) == [path |-> x, kind |-> "prefix"]
Leaf(x)   == [path |-> x, kind |-> "path"]

\* Fault: a component is a folder only when another row lies below it.
ListByRows(history, d) ==
  {Leaf(x) : x \in {y \in Children(d) : history[y] # <<>>}}
    \cup {Prefix(x) : x \in {y \in Children(d) :
                               history[y] = <<>> /\ Cardinality(RowsUnder(history, y)) > 1}}

\* list_folder: one entry for each component that has a row; a component with
\* more than one row, or whose only row lies below it, is a common prefix.
ListFolder(history, d) ==
  {IF Cardinality(RowsUnder(history, x)) = 1 /\ history[x] # <<>> THEN Leaf(x) ELSE Prefix(x) :
     x \in {y \in Children(d) : RowsUnder(history, y) # {}}}

\* Whether list_folder returns anything.
HasChildren(history, x) == \E y \in Below[x] : history[y] # <<>>
=============================================================================
