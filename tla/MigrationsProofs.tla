--------------------------- MODULE MigrationsProofs ---------------------------
(***************************************************************************)
(* What migrations promise, for all entries and releases: what jumps and   *)
(* hops present is the same, and what is owed has held when it was merged. *)
(***************************************************************************)
EXTENDS Migrations, TLAPS

-----------------------------------------------------------------------------
(* The order of versions and its windows, for all of them.                   *)
\* The order, written out by component.
LEMMA LessUnfold ==
    ASSUME NEW k \in VersionKey, NEW o \in VersionKey
    PROVE  Less(k, o) <=>
             \/ k[1] < o[1]
             \/ k[1] = o[1] /\ k[2] < o[2]
             \/ k[1] = o[1] /\ k[2] = o[2] /\ k[3] < o[3]
             \/ k[1] = o[1] /\ k[2] = o[2] /\ k[3] = o[3] /\ k[4] < o[4]
             \/ k[1] = o[1] /\ k[2] = o[2] /\ k[3] = o[3] /\ k[4] = o[4] /\ k[5] < o[5]
<1>1. 1..5 = {1, 2, 3, 4, 5}
  OBVIOUS
<1>2. /\ 1..(1 - 1) = {}
      /\ 1..(2 - 1) = {1}
      /\ 1..(3 - 1) = {1, 2}
      /\ 1..(4 - 1) = {1, 2, 3}
      /\ 1..(5 - 1) = {1, 2, 3, 4}
  OBVIOUS
<1> QED
  BY <1>1, <1>2 DEF Less

\* The components of a version key are numbers.
LEMMA KeyFields ==
    ASSUME NEW k \in VersionKey
    PROVE  /\ k[1] \in Nat /\ k[2] \in Nat /\ k[3] \in Nat /\ k[4] \in {0, 1} /\ k[5] \in Nat
           /\ k = <<k[1], k[2], k[3], k[4], k[5]>>
BY DEF VersionKey

\* `Less` never holds both ways, and it is transitive.
LEMMA LessStrictOrder ==
    ASSUME NEW k \in VersionKey, NEW m \in VersionKey, NEW o \in VersionKey
    PROVE  /\ ~Less(k, k)
           /\ Less(k, m) => ~Less(m, k)
           /\ Less(k, m) /\ Less(m, o) => Less(k, o)
BY LessUnfold, KeyFields

\* Any two different versions compare: `Latest` has one greatest version.
THEOREM LessTotal ==
    ASSUME NEW k \in VersionKey, NEW o \in VersionKey
    PROVE  Less(k, o) \/ Less(o, k) \/ k = o
<1>1. k = o <=> k[1] = o[1] /\ k[2] = o[2] /\ k[3] = o[3] /\ k[4] = o[4] /\ k[5] = o[5]
  BY KeyFields
<1> QED
  BY <1>1, LessUnfold, KeyFields

\* A migration lies in the window of a jump exactly when it lies in the window
\* of one of the hops it replaces, and never in both: no chain of sync PRs
\* skips a migration or lists it twice.
THEOREM WindowSplits ==
    ASSUME NEW p \in VersionKey, NEW m \in VersionKey, NEW t \in VersionKey,
           NEW a \in VersionKey, Less(p, m), Less(m, t)
    PROVE  /\ InWindow(p, a, t) <=> InWindow(p, a, m) \/ InWindow(m, a, t)
           /\ ~(InWindow(p, a, m) /\ InWindow(m, a, t))
<1>1. Less(a, m) \/ Less(m, a) \/ a = m
  BY LessTotal
<1> QED
  BY <1>1, LessStrictOrder DEF InWindow

-----------------------------------------------------------------------------
\* What a green check said of the head it looked at.
GreenInv ==
    \A u \in DOMAIN prs :
        prs[u].green =>
            Verifies(Aggregated(Applicable(u[1], u[2])), prs[u].head, prs[u].head \union prs[u].litter)

IInv == TypeOK /\ GreenInv /\ NothingOwedIsForgotten

\* Entries that are kept are the same in every later release.
LEMMA KeptShips ==
    ASSUME Kept, NEW e \in Entries, NEW p \in Releases, NEW t \in Releases, InWindow(p, e.from, t)
    PROVE  e \in Shipped[t]
BY DEF Kept, InWindow

(* A jump resolves exactly the entries of the hops it replaces, each of them *)
(* in one hop only, for the consumer's profile (migrations.go:73).           *)
THEOREM JumpsResolveTheirHops ==
    ASSUME MigrationConstants, Kept,
           NEW p \in Releases, NEW m \in Releases, NEW t \in Releases, Less(p, m), Less(m, t)
    PROVE  /\ Applicable(p, t) = Applicable(p, m) \union Applicable(m, t)
           /\ Applicable(p, m) \intersect Applicable(m, t) = {}
<1>1. /\ p \in VersionKey /\ m \in VersionKey /\ t \in VersionKey
      /\ \A e \in Entries : e.from \in VersionKey
  BY DEF MigrationConstants
<1>2. \A v \in Releases : Shipped[v] \subseteq Entries
  BY DEF Entries
<1>3. \A e \in Entries :
         /\ InWindow(p, e.from, t) <=> InWindow(p, e.from, m) \/ InWindow(m, e.from, t)
         /\ ~(InWindow(p, e.from, m) /\ InWindow(m, e.from, t))
  BY <1>1, WindowSplits
<1>4. \A e \in Entries :
         /\ InWindow(p, e.from, m) => e \in Shipped[m]
         /\ InWindow(p, e.from, t) \/ InWindow(m, e.from, t) => e \in Shipped[t]
  BY KeptShips
<1> QED
  BY <1>2, <1>3, <1>4 DEF Applicable

\* A green aggregate means that each entry in it holds.
LEMMA GreenMeansEach ==
    ASSUME Textual, NEW es, es \subseteq Entries, NEW tracked, NEW disk,
           Verifies(Aggregated(es), tracked, disk), NEW e \in es
    PROVE  Holds(e, tracked, disk)
<1> DEFINE ob == Aggregated(es)
<1>1. /\ ob.absent = UNION {x.absent : x \in es}
      /\ ob.present = UNION {x.present : x \in es}
      /\ ob.checks = UNION {x.checks : x \in es}
  BY DEF Aggregated
<1>2. NotText \notin ob.absent /\ NotText \notin ob.present
  BY <1>1 DEF Textual
<1>3. Strings(ob.absent) = ob.absent /\ Strings(ob.present) = ob.present
  BY <1>2 DEF Strings
<1>4. e.absent \subseteq ob.absent /\ e.present \subseteq ob.present /\ e.checks \subseteq ob.checks
  BY <1>1
<1>5. /\ \A g \in ob.absent : g \intersect tracked = {}
      /\ \A g \in ob.present : g \intersect tracked # {}
      /\ \A c \in ob.checks : ~CheckFails(c, disk)
  BY <1>3 DEF Verifies
<1> QED
  BY <1>4, <1>5 DEF Holds

\* Nothing is owed and nothing is open at first.
LEMMA InitInv == ASSUME MigrationConstants, Init PROVE IInv
<1>1. TypeOK /\ GreenInv
  BY DEF MigrationConstants, Init, TypeOK, GreenInv
<1>2. \A e \in Entries : ~InWindow(Onboarded, e.from, Onboarded)
  BY LessStrictOrder DEF MigrationConstants, InWindow
<1>3. NothingOwedIsForgotten
  BY <1>2 DEF Init, NothingOwedIsForgotten, Owed
<1> QED
  BY <1>1, <1>3 DEF IInv

\* What is applicable and owed depends on the pin and the profile only.
LEMMA SamePin ==
    ASSUME UNCHANGED <<pin, profile>>
    PROVE  /\ \A p, t : Applicable(p, t)' = Applicable(p, t)
           /\ Owed' = Owed
BY DEF Applicable, Owed, ForProfile

-----------------------------------------------------------------------------
(* Types, whatever the publisher ships.                                      *)
\* A PR that is opened is an upgrade of the pin.
LEMMA ProposeTypes ==
    ASSUME MigrationConstants, TypeOK, NEW v \in Releases, Propose(v)
    PROVE  TypeOK'
<1> DEFINE u == <<pin, v>>
           new == [base |-> main, head |-> main, green |-> FALSE, litter |-> {}]
<1>1. /\ UNCHANGED <<pin, main, profile, commits, met>>
      /\ Less(pin, v)
      /\ prs' = [w \in DOMAIN prs \union {u} |-> IF w = u THEN new ELSE prs[w]]
  BY DEF Propose, IsNewer, Opened
<1>2. u \in Upgrades /\ new \in PullRequest
  BY <1>1 DEF TypeOK, Upgrades, PullRequest
<1> QED
  BY <1>1, <1>2 DEF TypeOK

\* A commit replaces the head of a PR, or main.
LEMMA WorkTypes ==
    ASSUME MigrationConstants, TypeOK, Commit \/ \E u \in DOMAIN prs : Work(u)
    PROVE  TypeOK'
<1>1. CASE Commit
  BY <1>1 DEF Commit, TypeOK, MigrationConstants
<1>2. ASSUME NEW u \in DOMAIN prs, Work(u) PROVE TypeOK'
  <2>1. PICK head \in SUBSET Files :
           prs' = [prs EXCEPT ![u] = [@ EXCEPT !.head = head, !.green = FALSE, !.litter = {}]]
    BY <1>2 DEF Work
  <2>2. UNCHANGED <<pin, main, profile, met>> /\ commits < MaxCommits /\ commits' = commits + 1
    BY <1>2 DEF Work
  <2>3. DOMAIN prs' = DOMAIN prs /\ \A w \in DOMAIN prs \ {u} : prs'[w] = prs[w]
    BY <2>1
  <2>4. prs'[u] \in PullRequest
    BY <2>1 DEF TypeOK, PullRequest
  <2>5. commits' \in 0..MaxCommits
    BY <2>2 DEF TypeOK, MigrationConstants
  <2> QED
    BY <2>2, <2>3, <2>4, <2>5 DEF TypeOK
<1> QED
  BY <1>1, <1>2

\* The verdict of the check is a Boolean.
LEMMA VerifyTypes ==
    ASSUME MigrationConstants, TypeOK, NEW u \in DOMAIN prs, Verify(u)
    PROVE  TypeOK'
<1>1. PICK litter \in SUBSET Litter, green \in BOOLEAN :
         prs' = [prs EXCEPT ![u] = [@ EXCEPT !.litter = litter, !.green = green]]
  BY DEF Verify, Verifies
<1>2. UNCHANGED <<pin, main, profile, commits, met>>
  BY DEF Verify
<1>3. DOMAIN prs' = DOMAIN prs /\ \A w \in DOMAIN prs \ {u} : prs'[w] = prs[w]
  BY <1>1
<1>4. prs[u] \in PullRequest
  BY DEF TypeOK
<1>5. prs'[u] = [base |-> prs[u].base, head |-> prs[u].head, green |-> green, litter |-> litter]
  BY <1>1, <1>4 DEF PullRequest
<1> QED
  BY <1>2, <1>3, <1>4, <1>5 DEF TypeOK, PullRequest

\* A merge moves the pin forward, for the PRs are upgrades.
LEMMA MergeTypes ==
    ASSUME MigrationConstants, TypeOK, NEW u \in DOMAIN prs, Merge(u)
    PROVE  TypeOK'
<1>1. /\ u \in Upgrades /\ u[1] = pin /\ pin \in Releases /\ u[2] \in Releases /\ Less(pin, u[2])
      /\ prs[u] \in PullRequest
  BY DEF Merge, TypeOK, Upgrades
<1>2. /\ pin' = u[2]
      /\ UNCHANGED <<profile, commits>>
      /\ prs' = [w \in DOMAIN prs \ {u} |-> prs[w]]
      /\ met' = met \union {e \in Entries : Holds(e, prs[u].head, prs[u].head \union prs[u].litter)}
      /\ main' = (main \ (prs[u].base \ prs[u].head)) \union (prs[u].head \ prs[u].base)
  BY DEF Merge, Restrict
<1>3. pin \in VersionKey /\ u[2] \in VersionKey /\ Onboarded \in VersionKey
  BY <1>1 DEF MigrationConstants
<1>4. pin' \in Releases /\ Less(Onboarded, pin')
  BY <1>1, <1>2, <1>3, LessStrictOrder DEF TypeOK
<1> QED
  BY <1>1, <1>2, <1>4 DEF TypeOK, PullRequest

\* No step of anybody breaks the types.
LEMMA StepTypes == ASSUME MigrationConstants, TypeOK, [Next]_vars PROVE TypeOK'
<1>1. CASE UNCHANGED vars
  BY <1>1 DEF vars, TypeOK
<1> QED
  BY <1>1, ProposeTypes, WorkTypes, VerifyTypes, MergeTypes DEF Next

(* Whatever the publisher ships and people commit, every open PR is an       *)
(* upgrade and the pin never precedes the release it was onboarded at:       *)
(* a merge moves it from its PR's base, which is the pin, to a newer one.    *)
THEOREM TypesHold == Spec => []TypeOK
<1> USE MigrationConstants
<1>1. Init => TypeOK
  BY DEF MigrationConstants, Init, TypeOK
<1>2. TypeOK /\ [Next]_vars => TypeOK'
  BY StepTypes
<1> QED
  BY <1>1, <1>2, PTL DEF Spec

-----------------------------------------------------------------------------
(* What is owed.                                                             *)
\* A PR that is opened is not green.
LEMMA ProposeInv ==
    ASSUME MigrationConstants, IInv, NEW v \in Releases, Propose(v)
    PROVE  IInv'
<1> DEFINE u == <<pin, v>>
           new == [base |-> main, head |-> main, green |-> FALSE, litter |-> {}]
<1>1. /\ UNCHANGED <<pin, main, profile, commits, met>>
      /\ Less(pin, v)
      /\ prs' = [w \in DOMAIN prs \union {u} |-> IF w = u THEN new ELSE prs[w]]
  BY DEF Propose, IsNewer, Opened
<1>3. TypeOK'
  BY ProposeTypes DEF IInv
<1>4. GreenInv'
  BY <1>1, SamePin DEF IInv, GreenInv
<1>5. NothingOwedIsForgotten'
  BY <1>1, SamePin DEF IInv, NothingOwedIsForgotten
<1> QED
  BY <1>3, <1>4, <1>5 DEF IInv

\* A commit to a PR takes its green away; a commit to main touches no PR.
LEMMA WorkInv ==
    ASSUME MigrationConstants, IInv, Commit \/ \E u \in DOMAIN prs : Work(u)
    PROVE  IInv'
<1>1. TypeOK'
  BY WorkTypes DEF IInv
<1>2. CASE Commit
  <2>1. UNCHANGED <<pin, profile, prs, met>>
    BY <1>2 DEF Commit
  <2> QED
    BY <1>1, <2>1, SamePin DEF IInv, GreenInv, NothingOwedIsForgotten
<1>3. ASSUME NEW u \in DOMAIN prs, Work(u) PROVE IInv'
  <2>1. PICK head \in SUBSET Files :
           prs' = [prs EXCEPT ![u] = [@ EXCEPT !.head = head, !.green = FALSE, !.litter = {}]]
    BY <1>3 DEF Work
  <2>2. UNCHANGED <<pin, main, profile, met>>
    BY <1>3 DEF Work
  <2>3. DOMAIN prs' = DOMAIN prs /\ \A w \in DOMAIN prs \ {u} : prs'[w] = prs[w]
    BY <2>1
  <2>4. ~prs'[u].green
    BY <2>1 DEF IInv, TypeOK, PullRequest
  <2> QED
    BY <1>1, <2>2, <2>3, <2>4, SamePin DEF IInv, GreenInv, NothingOwedIsForgotten
<1> QED
  BY <1>2, <1>3

\* The check records what it found of the head.
LEMMA VerifyInv ==
    ASSUME MigrationConstants, IInv, NEW u \in DOMAIN prs, Verify(u)
    PROVE  IInv'
<1> DEFINE ok(litter) == Verifies(Aggregated(Applicable(u[1], u[2])), prs[u].head,
                                  prs[u].head \union litter)
<1>1. PICK litter \in SUBSET Litter :
         prs' = [prs EXCEPT ![u] = [@ EXCEPT !.litter = litter, !.green = ok(litter)]]
  BY DEF Verify
<1>2. UNCHANGED <<pin, main, profile, commits, met>>
  BY DEF Verify
<1>3. DOMAIN prs' = DOMAIN prs /\ \A w \in DOMAIN prs \ {u} : prs'[w] = prs[w]
  BY <1>1
<1>4. prs[u] \in PullRequest
  BY DEF IInv, TypeOK
<1>5. ok(litter) \in BOOLEAN
  BY DEF Verifies
<1>6. prs'[u] = [prs[u] EXCEPT !.litter = litter, !.green = ok(litter)]
  BY <1>1
<1>7. prs'[u] = [base |-> prs[u].base, head |-> prs[u].head, green |-> ok(litter), litter |-> litter]
  BY <1>4, <1>6 DEF PullRequest
<1>8. TypeOK'
  BY VerifyTypes DEF IInv
<1>9. GreenInv'
  <2>1. prs'[u].head = prs[u].head /\ prs'[u].litter = litter /\ prs'[u].green = ok(litter)
    BY <1>7
  <2>2. \A p, t : Applicable(p, t)' = Applicable(p, t)
    BY <1>2, SamePin
  <2>3. SUFFICES ASSUME NEW w \in DOMAIN prs', prs'[w].green
                 PROVE  Verifies(Aggregated(Applicable(w[1], w[2])), prs'[w].head,
                                 prs'[w].head \union prs'[w].litter)
    BY <2>2 DEF GreenInv
  <2>4. CASE w = u
    BY <2>1, <2>3, <2>4
  <2>5. CASE w # u
    BY <1>3, <2>3, <2>5 DEF IInv, GreenInv
  <2> QED BY <2>4, <2>5
<1>10. NothingOwedIsForgotten'
  BY <1>2, SamePin DEF IInv, NothingOwedIsForgotten
<1> QED
  BY <1>8, <1>9, <1>10 DEF IInv

\* A merge adds to what is owed the window of its hop, which was verified.
LEMMA MergeInv ==
    ASSUME MigrationConstants, Kept, Textual, IInv, NEW u \in DOMAIN prs, Merge(u)
    PROVE  IInv'
<1>1. /\ u \in Upgrades /\ u[1] = pin /\ pin \in Releases /\ u[2] \in Releases /\ Less(pin, u[2])
      /\ prs[u] \in PullRequest
  BY DEF Merge, IInv, TypeOK, Upgrades
<1>2. /\ pin' = u[2]
      /\ UNCHANGED <<profile, commits>>
      /\ prs' = [w \in DOMAIN prs \ {u} |-> prs[w]]
      /\ met' = met \union {e \in Entries : Holds(e, prs[u].head, prs[u].head \union prs[u].litter)}
      /\ main' = (main \ (prs[u].base \ prs[u].head)) \union (prs[u].head \ prs[u].base)
  BY DEF Merge, Restrict
<1>3. /\ pin \in VersionKey /\ u[2] \in VersionKey /\ Onboarded \in VersionKey
      /\ \A e \in Entries : e.from \in VersionKey
      /\ Onboarded \in Releases
  BY <1>1 DEF MigrationConstants
<1>5. TypeOK'
  BY MergeTypes DEF IInv
<1>6. GreenInv'
  <2>1. \A p, t : Applicable(p, t)' = Applicable(p, t)
    BY <1>2 DEF Applicable, ForProfile
  <2> QED
    BY <1>2, <2>1 DEF IInv, GreenInv
<1>7. \A e \in Owed' : e \in Owed \/ InWindow(pin, e.from, u[2])
  <2>1. \A e \in Owed' : e \in Entries /\ InWindow(Onboarded, e.from, u[2]) /\ ForProfile(e)
                         /\ e.kind \in JudgmentKinds
    BY <1>2 DEF Owed, ForProfile
  <2>2. CASE pin = Onboarded
    BY <2>1, <2>2
  <2>3. CASE Less(Onboarded, pin)
    BY <1>1, <1>3, <2>1, <2>3, WindowSplits DEF Owed
  <2> QED BY <2>2, <2>3 DEF IInv, TypeOK
<1>8. \A e \in Owed' : InWindow(pin, e.from, u[2]) => e \in Applicable(u[1], u[2])
  <2>1. \A e \in Owed' : e \in Entries /\ ForProfile(e) /\ e.kind \in JudgmentKinds
    BY <1>2 DEF Owed, ForProfile
  <2> QED BY <1>1, <2>1, KeptShips DEF Applicable
<1>9. \A e \in Applicable(u[1], u[2]) : Holds(e, prs[u].head, prs[u].head \union prs[u].litter)
  <2>1. Verifies(Aggregated(Applicable(u[1], u[2])), prs[u].head, prs[u].head \union prs[u].litter)
    BY DEF Merge, IInv, GreenInv
  <2>2. Applicable(u[1], u[2]) \subseteq Entries
    BY <1>1 DEF Applicable, Entries
  <2> QED BY <2>1, <2>2, GreenMeansEach
<1>10. Owed' \subseteq Entries
  BY DEF Owed
<1>11. NothingOwedIsForgotten'
  <2>1. Owed \subseteq met
    BY DEF IInv, NothingOwedIsForgotten
  <2>2. \A e \in Owed' : e \in met'
    BY <1>2, <1>7, <1>8, <1>9, <1>10, <2>1
  <2> QED BY <2>2 DEF NothingOwedIsForgotten
<1> QED
  BY <1>5, <1>6, <1>11 DEF IInv

\* Every step keeps the inductive invariant.
LEMMA StepInv ==
    ASSUME MigrationConstants, Kept, Textual, IInv, [Next]_vars
    PROVE  IInv'
<1>1. CASE UNCHANGED vars
  <2>1. UNCHANGED <<pin, profile>>
    BY <1>1 DEF vars
  <2> QED BY <1>1, <2>1, SamePin DEF vars, IInv, TypeOK, GreenInv, NothingOwedIsForgotten
<1> QED
  BY <1>1, ProposeInv, WorkInv, VerifyInv, MergeInv DEF Next

(* Where the publisher keeps its entries and writes lists of strings, every  *)
(* entry owed between onboarding and the pin has held on a merged head, for  *)
(* any releases, entries, checks and interleaving of PRs (migrations.go:73). *)
THEOREM OwedIsMet ==
    ASSUME Kept, Textual
    PROVE  Spec => []NothingOwedIsForgotten
<1> USE MigrationConstants
<1>1. Init => IInv
  BY InitInv
<1>2. IInv /\ [Next]_vars => IInv'
  BY StepInv
<1>3. IInv => NothingOwedIsForgotten
  BY DEF IInv
<1> QED
  BY <1>1, <1>2, <1>3, PTL DEF Spec

=============================================================================
