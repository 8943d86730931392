------------------------------ MODULE MCWatch ------------------------------
(***************************************************************************)
(* Instances of Watch: a canary slice beside a stable one, and a single    *)
(* slice for the liveness properties.                                      *)
(***************************************************************************)
EXTENDS Watch, TLC

CONSTANTS a, b, c1, c2, r1, r2

V1  == <<1, 0, 0, 1, 0>>
RC2 == <<1, 1, 0, 0, 1>>
V2  == <<1, 1, 0, 1, 0>>

One    == <<a>>
Both   == <<a, b>>
Line   == {V1, V2}
Canary == {V1, RC2}

Alone == [s \in {a} |-> "stable"]
Mixed == [s \in {a, b} |-> IF s = a THEN "rc" ELSE "stable"]

\* c2's declaration retracts nothing, the newest release, or every release.
Clean     == [c \in Commits |-> {}]
Retracted == [c \in Commits |-> IF c = c2 THEN {V2} ELSE {}]
Withdrawn == [c \in Commits |-> IF c = c2 THEN Releases ELSE {}]

\* Runs are interchangeable.
Symmetry == Permutations(Runs)

=============================================================================
