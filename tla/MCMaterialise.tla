--------------------------- MODULE MCMaterialise ---------------------------
(***************************************************************************)
(* Instances of Materialise: two slices whose releases move, reclass and   *)
(* retire paths, at disjoint consumer paths; and two slices that claim the *)
(* same consumer path.                                                     *)
(***************************************************************************)
EXTENDS Refinement

CONSTANTS r1, r2, r3, p, q, l1, l2, l3, x, y, torn, dx, dy, dtorn

MCDigest == [f \in Files |-> CASE f = x -> dx [] f = y -> dy [] f = torn -> dtorn]

Exp(cp, f)  == [class |-> "exported", cpath |-> cp, file |-> f]
Seed(cp, f) == [class |-> "seeded", cpath |-> cp, file |-> f]
None(cp)    == [class |-> "none", cpath |-> cp, file |-> x]

Rel(ip, iq) == [n \in {p, q} |-> IF n = p THEN ip ELSE iq]

\* Slice 1: p takes the place of the seed q, which retires, and turns into a
\* template elsewhere while q's template changes.  Slice 2 shares the tree, at a
\* place of its own; its q is outside the profile's scope.
Both ==
    [s \in {1, 2} |->
       [r \in {r1, r2, r3} |->
          IF s = 1
          THEN CASE r = r1 -> Rel(Exp(l1, x), Seed(l2, x))
                 [] r = r2 -> Rel(Exp(l2, y), None(l1))
                 [] r = r3 -> Rel(Seed(l1, y), Seed(l2, y))
          ELSE CASE r = r1 -> Rel(Exp(l3, x), None(l3))
                 [] r = r2 -> Rel(None(l3), None(l3))
                 [] r = r3 -> Rel(None(l3), Exp(l3, x))]]

BothScope == [s \in {1, 2} |-> IF s = 1 THEN {p, q} ELSE {p}]

\* Slice 2 vendors at l2 what slice 1 seeds there.
Overlapping ==
    [s \in {1, 2} |->
       [r \in {r1, r2} |->
          IF s = 1
          THEN IF r = r1 THEN Rel(Exp(l1, x), Seed(l2, x)) ELSE Rel(Exp(l1, y), Seed(l2, y))
          ELSE IF r = r1 THEN Rel(Exp(l2, y), None(l3)) ELSE Rel(None(l2), Exp(l3, y))]]

TwoScopes == [s \in {1, 2} |-> {p, q}]

=============================================================================
