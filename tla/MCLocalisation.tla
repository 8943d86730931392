---------------------------- MODULE MCLocalisation ----------------------------
(***************************************************************************)
(* Two exported rules and a seed over three globs: catalogues that own,    *)
(* share and orphan them, name a profile nobody declared, or match twice.  *)
(***************************************************************************)
EXTENDS Localisation

CONSTANTS r1, r2, s, g1, g2, g3, web, api, lab

Files == {r1, r2, s}

Texts == {(r1 :> <<g1, g2>>) @@ (r2 :> <<g1>>)  @@ (s :> <<g3>>),
          (r1 :> <<g2, g1>>) @@ (r2 :> NoField) @@ (s :> <<>>),
          (r1 :> <<g3, g1>>) @@ (s :> <<g2>>)}

Adapter(files, catalogue) == [match |-> files, catalogue |-> catalogue]
Adapters == {<<Adapter(Files, (web :> {g1, g3}) @@ (api :> {g2}))>>,
             <<Adapter({r1, s}, (web :> {g1}) @@ (api :> {g1, g2}) @@ (lab :> {g2}))>>,
             <<Adapter({r1}, web :> {g1}), Adapter({r1, r2}, api :> {g2})>>}

Scopes == {(web :> Files) @@ (api :> {r1}), (web :> {r1, s}) @@ (lab :> Files)}

Trees == {[profiles |-> p, adapters |-> k, rules |-> t, seeds |-> {s}] :
             p \in Scopes, k \in Adapters, t \in Texts}

ByHand == {<<g1>>, <<>>}
=============================================================================
