----------------------------- MODULE Localisation -----------------------------
(***************************************************************************)
(* Rules carry a union of globs; a consumer receives those its profile     *)
(* owns and those nobody owns.  A publisher verifies what each profile     *)
(* receives against a file of expectations that people review, either by   *)
(* localising its own tree or by reading a consumer that has synced.       *)
(*                                                                         *)
(* The rules, the catalogue, the profiles, the expectations and the        *)
(* consumer are edited by different people at different times.             *)
(***************************************************************************)
EXTENDS Integers, Sequences, FiniteSets, SequencesExt, FiniteSetsExt, Functions

CONSTANTS
    Publishers,     \* the publisher trees: profiles, adapters, rules and seeds
    Profiles,       \* names a profile, a catalogue key or an expectation may use
    Lists,          \* glob lists people write by hand
    Unbound,        \* a consumer without a profile
    NoField,        \* a file whose front matter lacks the field
    NoAdvice,       \* nobody has asked since the last edit
    MaxHand         \* bound: edits of expectations and of vendored copies

Names == Profiles \union {Unbound}

\* Trees are records, adapters have an order, a rule carries a list of globs.
ASSUME LocalisationConstants ==
    /\ MaxHand \in Nat /\ Unbound \notin Profiles
    /\ \A t \in Publishers :
          /\ DOMAIN t = {"profiles", "adapters", "rules", "seeds"}
          /\ DOMAIN t.profiles \subseteq Profiles
          /\ t.adapters \in Seq(ToSet(t.adapters))
          /\ \A a \in ToSet(t.adapters) : DOMAIN a = {"match", "catalogue"}
          /\ \A rel \in DOMAIN t.rules :
                t.rules[rel] = NoField \/ t.rules[rel] \in Seq(ToSet(t.rules[rel]))

VARIABLES
    pub,        \* the publisher's tree
    expected,   \* profile -> path -> the list people approved
    profile,    \* the consumer's profile
    copies,     \* the consumer's vendored copies: path -> list or NoField
    hand,       \* edits by hand so far (bounded)
    advice,     \* what generate --check said of this tree, or NoAdvice
    written,    \* history: nothing changed since the last --write
    synced      \* history: nothing changed since the consumer's last sync

lvars == <<pub, expected, profile, copies, hand, advice, written, synced>>

-----------------------------------------------------------------------------
(* The adapter.                                                              *)
Exported(t) == DOMAIN t.rules \ t.seeds

ProfileInScope(t, p, rel) == p \notin DOMAIN t.profiles \/ rel \in t.profiles[p]

Owners(a, g) == {p \in DOMAIN a.catalogue : g \in a.catalogue[p]}

\* The globs at some places of a list, in their order.
Kept(list, at) ==
    [k \in 1..Cardinality(at) |-> list[CHOOSE n \in at : Cardinality({m \in at : m <= n}) = k]]

Localise(a, list, p) ==
    IF p = Unbound \/ list = NoField THEN list
    ELSE Kept(list, {n \in DOMAIN list : Owners(a, list[n]) = {} \/ p \in Owners(a, list[n])})

AdaptersFor(t, rel) == {i \in DOMAIN t.adapters : rel \in t.adapters[i].match}

\* Two adapters that match one path are refused by whoever localises it.
Clash(t, rels) == \E rel \in rels : Cardinality(AdaptersFor(t, rel)) > 1

\* What one file arrives as.
Arrives(t, rel, p) ==
    LET hits == AdaptersFor(t, rel)
    IN  IF hits = {} THEN t.rules[rel]
        ELSE Localise(t.adapters[CHOOSE i \in hits : TRUE], t.rules[rel], p)

-----------------------------------------------------------------------------
(* generate --check: what is wrong with the declaration.                     *)

\* Mutant: seeds, which flow through adapters too, are not looked at.
MatchedExported(t, a) == {rel \in Exported(t) \intersect a.match : t.rules[rel] # NoField}

Matched(t, a) == {rel \in DOMAIN t.rules \intersect a.match : t.rules[rel] # NoField}

Catalogued(a) == UNION Range(a.catalogue)
Carried(t, a) == UNION {ToSet(t.rules[rel]) : rel \in Matched(t, a)}

Unknown(t, a)      == DOMAIN a.catalogue \ DOMAIN t.profiles
Uncatalogued(t, a) == Carried(t, a) \ Catalogued(a)
Orphans(t, a)      == Catalogued(a) \ Carried(t, a)
Empty(t, a) ==
    {at \in Matched(t, a) \X (DOMAIN t.profiles \union DOMAIN a.catalogue) :
        /\ t.rules[at[1]] # <<>>
        /\ ProfileInScope(t, at[2], at[1])
        /\ Localise(a, t.rules[at[1]], at[2]) = <<>>}

Advice(t, a) == [unknown |-> Unknown(t, a), uncatalogued |-> Uncatalogued(t, a),
                 orphans |-> Orphans(t, a), empty |-> Empty(t, a)]

-----------------------------------------------------------------------------
(* verify-localisation: what arrives against what people approved.           *)
Rules(t) == {rel \in Exported(t) : AdaptersFor(t, rel) # {}}

Actual(t, p) ==
    LET in == {rel \in Rules(t) : ProfileInScope(t, p, rel) /\ Arrives(t, rel, p) # NoField}
    IN  [rel \in in |-> Arrives(t, rel, p)]

ConsumerActual(t, p) ==
    LET in == {rel \in Rules(t) \intersect DOMAIN copies :
                  ProfileInScope(t, p, rel) /\ copies[rel] # NoField}
    IN  [rel \in in |-> copies[rel]]

Finding(rule, p, rel) == [rule |-> rule, profile |-> p, path |-> rel]

Compare(p, actual) ==
    LET want == IF p \in DOMAIN expected THEN expected[p] ELSE << >>
        a == DOMAIN actual  w == DOMAIN want
    IN  {Finding("mismatch", p, rel) : rel \in {r \in a \intersect w : actual[r] # want[r]}}
        \union {Finding("rule-absent", p, rel) : rel \in w \ a}
        \union {Finding("expectation-stale", p, rel) : rel \in a \ w}

\* Of the publisher's tree for some profiles, by default every profile that is
\* declared or expected; of a consumer for the profile it is bound to.
Every == DOMAIN pub.profiles \union DOMAIN expected
VerifyPublisher(ps) == UNION {Compare(p, Actual(pub, p)) : p \in ps}
VerifyConsumer == Compare(profile, ConsumerActual(pub, profile))

\* Mutant: --write forgets that profiles have a scope.
WrittenUnscoped(t) ==
    [p \in DOMAIN t.profiles |->
        [rel \in {r \in Rules(t) : t.rules[r] # NoField} |-> Arrives(t, rel, p)]]

Written(t) == [p \in DOMAIN t.profiles |-> Actual(t, p)]

-----------------------------------------------------------------------------
LInit ==
    /\ pub \in Publishers
    /\ expected = << >>
    /\ profile = Unbound
    /\ copies = << >>
    /\ hand = 0
    /\ advice = NoAdvice
    /\ written = FALSE
    /\ synced = FALSE

\* Rules, catalogue or profiles are edited.
Edit ==
    /\ pub' \in Publishers \ {pub}
    /\ advice' = NoAdvice /\ written' = FALSE /\ synced' = FALSE
    /\ UNCHANGED <<expected, profile, copies, hand>>

\* generate --check, which refuses nothing and reads only the publisher's tree.
Generate ==
    /\ advice' = [i \in DOMAIN pub.adapters |-> Advice(pub, pub.adapters[i])]
    /\ UNCHANGED <<pub, expected, profile, copies, hand, written, synced>>

\* verify-localisation --write
WriteExpected ==
    /\ DOMAIN pub.profiles # {}
    /\ ~Clash(pub, Exported(pub))
    /\ expected' = Written(pub)
    /\ written' = TRUE
    /\ UNCHANGED <<pub, profile, copies, hand, advice, synced>>

\* A reviewer corrects, adds or drops one expectation.
Author ==
    /\ hand < MaxHand
    /\ \E p \in Profiles, rel \in UNION {DOMAIN t.rules : t \in Publishers} :
          LET old == IF p \in DOMAIN expected THEN expected[p] ELSE << >>
              set(new) == expected' = (p :> new) @@ expected
          IN  \/ \E list \in Lists : set((rel :> list) @@ old)
              \/ rel \in DOMAIN old /\ set(Restrict(old, DOMAIN old \ {rel}))
    /\ hand' = hand + 1
    /\ written' = FALSE
    /\ UNCHANGED <<pub, profile, copies, advice, synced>>

Bind ==
    /\ profile' \in Names \ {profile}
    /\ synced' = FALSE
    /\ UNCHANGED <<pub, expected, copies, hand, advice, written>>

(* sync --apply with the profile's scope: what is offered or was vendored    *)
(* before is localised from the union; what the publisher dropped, or the    *)
(* profile no longer covers, stays on disk.                                  *)
Sync ==
    /\ ~Clash(pub, DOMAIN pub.rules)
    /\ LET offered == {rel \in Exported(pub) : ProfileInScope(pub, profile, rel)}
           visited == offered \union (DOMAIN copies \intersect Exported(pub))
       IN  copies' = [rel \in visited \union DOMAIN copies |->
                         IF rel \in visited THEN Arrives(pub, rel, profile) ELSE copies[rel]]
    /\ synced' = TRUE
    /\ UNCHANGED <<pub, expected, profile, hand, advice, written>>

\* The consumer edits or deletes a vendored copy.
Touch ==
    /\ hand < MaxHand
    /\ \E rel \in DOMAIN copies :
          \/ \E list \in Lists \ {copies[rel]} : copies' = [copies EXCEPT ![rel] = list]
          \/ copies' = Restrict(copies, DOMAIN copies \ {rel})
    /\ hand' = hand + 1
    /\ synced' = FALSE
    /\ UNCHANGED <<pub, expected, profile, advice, written>>

LNext == Edit \/ Generate \/ WriteExpected \/ Author \/ Bind \/ Sync \/ Touch

LSpec == LInit /\ [][LNext]_lvars

-----------------------------------------------------------------------------
\* The tree with one glob taken out of one catalogue.
Without(t, i, g) ==
    [t EXCEPT !.adapters[i].catalogue = [p \in DOMAIN @ |-> @[p] \ {g}]]

(* The two ends of the oracle agree: verifying a consumer that has just      *)
(* synced finds what verifying the publisher finds for its profile, through  *)
(* rebinding, dropped rules and copies that left the scope; and after        *)
(* --write there is nothing to find, for any profile declared or expected    *)
(* (localisation.go:331, :435).                                              *)
OracleAgrees ==
    LET clear == ~Clash(pub, Exported(pub))
    IN  /\ clear /\ synced /\ profile # Unbound => VerifyConsumer = VerifyPublisher({profile})
        /\ clear /\ written => VerifyPublisher(Every) = {}

(* The advisories mean what they say of what consumers receive: an orphan    *)
(* may be dropped from the catalogue and no file of any profile changes; an  *)
(* uncatalogued glob reaches every profile in scope; the rules reported      *)
(* empty are exactly those with globs that arrive without any                *)
(* (localisation.go:75).                                                     *)
AdvisoriesSound ==
    advice # NoAdvice /\ ~Clash(pub, DOMAIN pub.rules) =>
        \A i \in DOMAIN pub.adapters :
            LET a == pub.adapters[i]
                known == DOMAIN pub.profiles \union DOMAIN a.catalogue
                reached == {rel \in DOMAIN pub.rules : i \in AdaptersFor(pub, rel)}
            IN  /\ \A g \in advice[i].orphans, rel \in DOMAIN pub.rules, p \in Names :
                      Arrives(Without(pub, i, g), rel, p) = Arrives(pub, rel, p)
                /\ \A rel \in reached, p \in Names :
                      pub.rules[rel] # NoField =>
                        \A g \in advice[i].uncatalogued \intersect ToSet(pub.rules[rel]) :
                            g \in ToSet(Arrives(pub, rel, p))
                /\ \A rel \in reached, p \in known :
                      <<rel, p>> \in advice[i].empty <=>
                        /\ pub.rules[rel] \notin {NoField, <<>>}
                        /\ ProfileInScope(pub, p, rel)
                        /\ Arrives(pub, rel, p) = <<>>

=============================================================================
