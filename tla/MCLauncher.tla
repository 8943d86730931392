----------------------------- MODULE MCLauncher -----------------------------
(***************************************************************************)
(* A release, another content under its name without a line in             *)
(* SHA256SUMS.txt, and an empty directory.  A mismatch comes of a          *)
(* replacement between the two downloads.                                  *)
(***************************************************************************)
EXTENDS Launcher, TLC

CONSTANTS good, other

Line(asset, sum) == [asset |-> asset, sum |-> sum]

Directories == {Line(good, good), Line(other, Absent), Line(Absent, Absent)}

Symmetry == Permutations(Launchers) \union Permutations(Configs) \union Permutations(Versions)
=============================================================================
