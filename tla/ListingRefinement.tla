-------------------------- MODULE ListingRefinement --------------------------
(***************************************************************************)
(* The listing over bytes that the command line prints, against the one    *)
(* over names that FolderListing defines and the file system is modelled   *)
(* with.                                                                   *)
(***************************************************************************)
EXTENDS BloxtreeCli

CONSTANTS
  Names,  \* names without a slash, each a string of bytes
  Depth   \* bound: names in a path

ASSUME NamesAssumption ==
  /\ \A n \in Names : n \in Seq(Byte) /\ n # <<>> /\ Slash \notin Range(n)
  /\ Slash \in Byte /\ Depth \in Nat

Folder == INSTANCE FolderListing WITH Base <- Names, MaxUnder <- 0, MaxDepth <- Depth

\* A path of names, with the slashes between them.
Join(x) ==
  IF x = <<>> THEN <<>> ELSE Tail(FlattenSeq([i \in DOMAIN x |-> <<Slash>> \o x[i].base]))

\* The versions of each path of names.
Versions == [x \in Folder!NamePath |-> [i \in 1..Cardinality(RowsOf(Join(x))) |-> 0]]

\* What list prints for a folder is what FolderListing says of the names: the
\* range of bytes holds the paths below the folder and no others, also those
\* whose next byte sorts right beside the slash, and each is cut at the right
\* slash.  The paths are those that have names without slashes between them.
ListIsFolderListing ==
  cmd.op = "list" /\ cmd.exit = 0 =>
    \A d \in Folder!Dir :
      ListFolder(rows, Join(d)) =
        {Line(Join(e.path), e.kind) : e \in Folder!ListFolder(Versions, d)}
=============================================================================
