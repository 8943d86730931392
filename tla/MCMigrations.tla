---------------------------- MODULE MCMigrations ----------------------------
(***************************************************************************)
(* Three releases (one a release candidate) after onboarding; entries that *)
(* contradict each other, meet at a window's edge, or oblige one profile.  *)
(***************************************************************************)
EXTENDS Migrations, TLC

CONSTANTS f, g, p

v1 == <<1, 0, 0, 1, 0>>
v2rc == <<2, 0, 0, 0, 1>>
v2 == <<2, 0, 0, 1, 0>>
v3 == <<2, 1, 0, 1, 0>>

Entry(from, kind, profiles, absent, present, checks) ==
    [from |-> from, kind |-> kind, profiles |-> profiles, absent |-> absent,
     present |-> present, checks |-> checks]

Check(kind, path, needs) == [kind |-> kind, path |-> path, needs |-> needs]

RetireF  == Entry(v2rc, "structural", {Every}, {{f}}, {}, {})
MoveToG  == Entry(v2, "convention", {}, {}, {{g}}, {Check("file-absent", {f}, {})})
LintF    == Entry(v3, "convention", {p}, {}, {{f}, {g}}, {Check("tool", {g}, {f})})
Additive == Entry(v3, "additive", {Every}, {}, {{f}}, {})

Tags == {v1, v2rc, v2, v3}

Payloads ==
    (v1 :> {}) @@ (v2rc :> {RetireF}) @@ (v2 :> {RetireF, MoveToG})
        @@ (v3 :> {RetireF, MoveToG, LintF, Additive})

\* A glob written as a bare number, in an entry of its own.
Numeric == Entry(v2rc, "structural", {Every}, {NotText}, {}, {})

PayloadsNumeric == [v \in Tags |-> Payloads[v] \union (IF v = v1 THEN {} ELSE {Numeric})]

\* An entry written only after the release it applies from.
PayloadsLate == [v \in Tags |-> IF v = v2 THEN {RetireF} ELSE Payloads[v]]
=============================================================================
