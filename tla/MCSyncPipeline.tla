--------------------------- MODULE MCSyncPipeline ---------------------------
(***************************************************************************)
(* Instances of SyncPipeline: one slice of two files, and what its         *)
(* releases hold.                                                          *)
(***************************************************************************)
EXTENDS SyncPipeline, TLC

CONSTANTS n1, n2, p, q, l1, l2, x, y, torn

MCDigest == [f \in Files |-> f]

V1 == <<1, 4, 1, 1, 0>>
V2 == <<1, 5, 0, 1, 0>>
V3 == <<2, 0, 0, 1, 0>>

\* v1.4.10, whose name begins with v1.4.1.
V110 == <<1, 4, 10, 1, 0>>

Two   == {V1, V2}
Three == {V1, V2, V3}
Ten   == {V1, V110, V3}
Skipped == {V110}

\* The last release gives p its first content back and drops q.
Rel(atP, atQ) ==
    [n \in {p, q} |->
        [class |-> IF (IF n = p THEN atP ELSE atQ) = NoFile THEN "none" ELSE "exported",
         cpath |-> IF n = p THEN l1 ELSE l2,
         file  |-> LET f == IF n = p THEN atP ELSE atQ IN IF f = NoFile THEN x ELSE f]]

Changes == [s \in {1} |-> [r \in Releases |->
              CASE r = V1 -> Rel(x, x)
                [] r = V3 -> Rel(x, NoFile)
                [] OTHER  -> Rel(y, x)]]

\* The second release changes p; the last gives it its first content back and
\* adds q, which is all a consumer of the first release sees of it.
Grows == [s \in {1} |-> [r \in Releases |->
            CASE r = V1 -> Rel(x, NoFile)
              [] r = V3 -> Rel(x, x)
              [] OTHER  -> Rel(y, NoFile)]]

\* The newer release only adds q.
Additions == [s \in {1} |-> [r \in Releases |-> IF r = V1 THEN Rel(x, NoFile) ELSE Rel(x, x)]]

\* The second release changes p; the last gives it its first content back and changes q.
Returns == [s \in {1} |-> [r \in Releases |->
              CASE r = V1 -> Rel(x, x)
                [] r = V3 -> Rel(x, y)
                [] OTHER  -> Rel(y, x)]]

\* Runs are interchangeable.
Symmetry == Permutations(Runs)

Scope == [s \in {1} |-> {p, q}]

=============================================================================
