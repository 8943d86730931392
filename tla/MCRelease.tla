------------------------------ MODULE MCRelease ------------------------------
(***************************************************************************)
(* Instances of Release: the version numbers a cut may ask for.            *)
(***************************************************************************)
EXTENDS Release

CONSTANTS c1, c2, p, q

\* Patch, minor and major steps from v0.1.0, and a pre-release of the major.
Line  == {<<0, 1, 0, 1, 0>>, <<0, 1, 1, 1, 0>>, <<0, 2, 0, 1, 0>>, <<1, 0, 0, 1, 0>>}
Short == {<<0, 1, 0, 1, 0>>, <<0, 1, 1, 1, 0>>, <<1, 0, 0, 1, 0>>}
Patches == {<<1, 0, 0, 1, 0>>, <<1, 0, 1, 1, 0>>, <<1, 0, 2, 1, 0>>}
Two   == {<<0, 1, 0, 1, 0>>, <<0, 1, 1, 1, 0>>}

Majors == {<<1, 0, 0, 1, 0>>}

=============================================================================
