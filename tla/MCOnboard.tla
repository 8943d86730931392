------------------------------ MODULE MCOnboard ------------------------------
(***************************************************************************)
(* An instance of Onboard: two slices and two releases.                    *)
(***************************************************************************)
EXTENDS Onboard

CONSTANTS docs, lint, gate

Line == {<<1, 0, 0, 1, 0>>, <<1, 1, 0, 1, 0>>}

=============================================================================
