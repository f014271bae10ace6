---------------------------- MODULE MCBloxtreeCli ----------------------------
(***************************************************************************)
(* An instance of the command line for TLC.  The paths are a, a/a, and a   *)
(* followed by the bytes right before and right after the slash; /a is not *)
(* valid.                                                                  *)
(***************************************************************************)
EXTENDS ListingRefinement

CONSTANTS b1, b2

Bytes == {46, 47, 48, 97}
A == <<97>>
Args == {A, A \o <<47>> \o A, A \o <<46>>, A \o <<48>>, <<47>> \o A}
NamesUsed == {A, A \o <<46>>, A \o <<48>>}

Contents == {<<b1>>, <<b1, b2>>}
\* The paths are names with single slashes between them: the hypothesis under
\* which the listing is proved to be the one over names.
ASSUME PathsAreNames == \A x \in Path : \E y \in Folder!NamePath : x = Join(y)

AllCommands == {"add", "remove", "trim", "list", "get", "info"}

CONSTANTS cli, peer

\* The commands make these calls; another process adds and removes.
CliOps == (cli :> {"add", "remove", "remove_version", "trim"}) @@ (peer :> {"add", "remove"})
ValidArgs == {x \in Args : Valid(x)}
OnlyA == {A}
=============================================================================
