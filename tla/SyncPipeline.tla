---------------------------- MODULE SyncPipeline ----------------------------
(***************************************************************************)
(* The sync lane of one slice: scheduled runs (and a human's               *)
(* `vendkit update`) that turn a newer release into a reviewed PR.         *)
(*                                                                         *)
(* A run checks the consumer's main branch out, probes and applies the     *)
(* target release in that checkout with the materialise core (module       *)
(* Materialise, used here as operators on the checkout), force-pushes a    *)
(* branch named by the upgrade and hands the PR to its handler.  Main      *)
(* moves only by merges and by the consumer's own commits, so several      *)
(* runs, reviewers and the publisher interleave between those steps.       *)
(*                                                                         *)
(* A snapshot of the consumer repository is the tree, the manifests, the   *)
(* content pin (the publisher ref in the sync pipeline), the other pin     *)
(* lines (the engine ref there and in the gate lane) and, of the engine    *)
(* pin in the slice config, the version and the checksums.  Each of these  *)
(* is one hunk to a git merge: the slice config has nine lines between the *)
(* engine's version and its checksums.                                     *)
(***************************************************************************)
EXTENDS Versions

CONSTANTS
    Slices, Releases, Paths, CPaths, Files, Torn, Digest, Surface, InScope,
    NoFile, Untracked, NoRelease, NoJob,    \* as in Materialise
    Slice,          \* the slice this lane syncs
    Onboarded,      \* the release the consumer was onboarded at
    Runs,           \* lane runs that may be in flight together
    Retractable,    \* bound: the releases a later one may retract
    MaxEdits,       \* bound: edits the consumer commits to main
    MaxBumps,       \* bound: content pins moved by hand
    MaxUpdates,     \* bound: `vendkit update` commands
    MaxReviews,     \* bound: commits that refill checksums or follow up on a sync PR
    EngineCached,   \* TRUE: the lane's cache step saves the engine a run fetched
    Mangled, Blank, NoRun, NoBranch, NoEngine

ASSUME SyncConstants ==
    /\ Releases \subseteq VersionKey
    /\ Slice \in Slices
    /\ Onboarded \in Releases
    /\ Retractable \subseteq Releases
    /\ {MaxEdits, MaxBumps, MaxUpdates, MaxReviews} \subseteq Nat
    /\ EngineCached \in BOOLEAN
    /\ NoRelease \notin Releases
    /\ Mangled \notin Releases /\ Blank \notin Releases /\ NoEngine \notin Releases

VARIABLES
    published,  \* the releases the publisher's remote has tags for
    retracts,   \* the retracted: list of each release's declaration
    main,       \* the consumer's main branch
    runs,       \* lane runs in flight
    branches,   \* sync branches, by <<pinned, target>>
    cached,     \* the engine the CI cache restores, or NoEngine
    count,      \* edits, bumps, updates and reviews made (bounded)
    authored    \* history: the contents the consumer and its reviewers committed at each place

vars == <<published, retracts, main, runs, branches, cached, count, authored>>

\* The materialise core on the tree and the manifests of a snapshot.
On(snapshot) == INSTANCE Materialise
    WITH tree <- snapshot.tree, manifest <- snapshot.manifest, unreadable <- {}, job <- NoJob, todo <- {},
         report <- <<>>, forecast <- <<>>, dirty <- {}

Bare == [tree     |-> [c \in CPaths |-> NoFile],
         manifest |-> [s \in Slices |-> [source  |-> NoRelease,
                                         entries |-> [p \in Paths |-> Untracked]]],
         own |-> Onboarded, other |-> Onboarded,
         version |-> Onboarded, sha |-> Blank]

\* As ConstantsOK and NoCollisionInSlice of Materialise say it.
ASSUME Surfaces ==
    /\ Slices \subseteq Nat
    /\ DOMAIN Digest = Files
    /\ Surface \in [Slices -> [Releases -> [Paths -> On(Bare)!Item]]]
    /\ NoFile \notin Files
    /\ Untracked \notin On(Bare)!Entry
    /\ \A r \in Releases : \A p, q \in Paths :
        /\ Surface[Slice][r][p].class # "none"
        /\ Surface[Slice][r][q].class # "none"
        /\ Surface[Slice][r][p].cpath = Surface[Slice][r][q].cpath
        => p = q

Job(target, reconcile) == [slice |-> Slice, target |-> target, reconcile |-> reconcile]

Pins == Releases \union {Mangled}

Upgrades == Releases \X Releases

\* PINNED is what the manifest's provenance says, before the first sync what
\* the content pin says.
Pinned(snapshot) == LET source == snapshot.manifest[Slice].source
                    IN  IF source = NoRelease THEN snapshot.own ELSE source

-----------------------------------------------------------------------------
\* "refs/tags/<o>" is a proper prefix of "refs/tags/<k>": v1.4.1 begins
\* v1.4.10 and v1.4.1-rc.2, v1.0.0-rc.1 begins v1.0.0-rc.10.
TextPrefix(o, k) ==
    LET grows(m, n) == m > 0 /\ \E z \in 1..3 : n \div 10^z = m
    IN  /\ \A i \in {1, 2} : o[i] = k[i]
        /\ IF Stable(o) THEN grows(o[3], k[3]) \/ (o[3] = k[3] /\ ~Stable(k))
           ELSE o[3] = k[3] /\ ~Stable(k) /\ grows(o[5], k[5])

\* Mutant: the version is taken out and nothing put in.
AdvanceToNothing(pin, old, new) == IF pin = old THEN NoVersion ELSE pin

\* The pin line after ReplaceAll(old, new): where old is only the beginning of
\* the text, the rest of it stays behind the new version.
Advance(pin, old, new) ==
    IF pin = old THEN new
    ELSE IF pin # Mangled /\ TextPrefix(old, pin) THEN Mangled
    ELSE pin

\* Mutants: only the content pin's line is advanced; the manifest is rewritten
\* without the files.
AdoptOwnPinOnly(snapshot, job, version, sha) ==
    [tree     |-> On(snapshot)!AppliedTree(job),
     manifest |-> [snapshot.manifest EXCEPT ![Slice] = On(snapshot)!Projection(job)],
     own      |-> Advance(snapshot.own, Pinned(snapshot), job.target),
     other    |-> snapshot.other,
     version  |-> version,
     sha      |-> sha]

AdoptManifestOnly(snapshot, job, version, sha) ==
    LET pinned == Pinned(snapshot)
    IN  [tree     |-> IF snapshot.manifest[Slice].source = NoRelease
                      THEN On(snapshot)!AppliedTree(job) ELSE snapshot.tree,
         manifest |-> [snapshot.manifest EXCEPT ![Slice] = On(snapshot)!Projection(job)],
         own      |-> Advance(snapshot.own, pinned, job.target),
         other    |-> Advance(snapshot.other, pinned, job.target),
         version  |-> version,
         sha      |-> sha]

\* The snapshot a materialise of target leaves, pins advanced and engine version
\* and checksums as given.
Adopt(snapshot, job, version, sha) ==
    LET pinned == Pinned(snapshot)
    IN  [tree     |-> On(snapshot)!AppliedTree(job),
         manifest |-> [snapshot.manifest EXCEPT ![Slice] = On(snapshot)!Projection(job)],
         own      |-> Advance(snapshot.own, pinned, job.target),
         other    |-> Advance(snapshot.other, pinned, job.target),
         version  |-> version,
         sha      |-> sha]

\* Mutant: the checksum of the previous engine stays.
SyncedKeepsSha(base, target) ==
    Adopt(base, Job(target, TRUE), target, base.sha)

\* What a run commits on its branch: AdvanceEnginePin blanks the checksums.
Synced(base, target) == Adopt(base, Job(target, TRUE), target, Blank)

\* Retractions: the target's own list and, when the remote answers, the list
\* of the newest release.
Retracted(target, seen) ==
    retracts[target] \union (IF seen THEN retracts[Latest(published, "rc", {})] ELSE {})

\* The engine a scheduled run executes.  The cache is keyed by the release the
\* lane was scaffolded at, and no sync advances that key.
Engine == IF cached = NoEngine THEN main.other ELSE cached

\* self-verify holds the running engine against the recorded checksum, and never
\* looks at the version.
SelfVerified == main.sha \in {Blank, Engine}

-----------------------------------------------------------------------------
\* A git merge takes, per hunk, the side that changed since the base; it
\* conflicts where both changed differently.
Hunk(base, ours, theirs) == IF ours = base THEN theirs ELSE ours

Agree(base, ours, theirs) == ours = base \/ theirs = base \/ ours = theirs

Hunks(base, ours, theirs, op(_, _, _)) ==
    [tree     |-> [c \in CPaths |-> op(base.tree[c], ours.tree[c], theirs.tree[c])],
     manifest |-> [s \in Slices |-> op(base.manifest[s], ours.manifest[s], theirs.manifest[s])],
     own      |-> op(base.own, ours.own, theirs.own),
     other    |-> op(base.other, ours.other, theirs.other),
     version  |-> op(base.version, ours.version, theirs.version),
     sha      |-> op(base.sha, ours.sha, theirs.sha)]

Merged(base, ours, theirs) == Hunks(base, ours, theirs, Hunk)

Mergeable(base, ours, theirs) ==
    LET clean == Hunks(base, ours, theirs, Agree)
    IN  /\ \A c \in CPaths : clean.tree[c]
        /\ \A s \in Slices : clean.manifest[s]
        /\ clean.own /\ clean.other /\ clean.version /\ clean.sha

-----------------------------------------------------------------------------
\* Onboarding applied its release to a bare tree.
Init ==
    /\ published = {Onboarded}
    /\ retracts = [r \in Releases |-> {}]
    /\ main = Adopt(Bare, Job(Onboarded, TRUE), Bare.version, Bare.sha)
    /\ runs = [n \in Runs |-> NoRun]
    /\ branches = [u \in Upgrades |-> NoBranch]
    /\ cached = NoEngine
    /\ count = [edits |-> 0, bumps |-> 0, updates |-> 0, reviews |-> 0]
    /\ authored = [c \in CPaths |-> {}]

\* The publisher cuts a release; its declaration may retract earlier ones.
Publish(r) ==
    /\ \A v \in published : Less(v, r)
    /\ published' = published \union {r}
    /\ \E bad \in SUBSET (Retractable \intersect published) :
          retracts' = [retracts EXCEPT ![r] = bad]
    /\ UNCHANGED <<main, runs, branches, cached, count, authored>>

\* The consumer commits an edit of a file to main,
ConsumerEdit(c, f) ==
    /\ count.edits < MaxEdits
    /\ f # main.tree[c]
    /\ main' = [main EXCEPT !.tree[c] = f]
    /\ authored' = [authored EXCEPT ![c] = @ \union {f}]
    /\ count' = [count EXCEPT !.edits = @ + 1]
    /\ UNCHANGED <<published, retracts, runs, branches, cached>>

\* moves the content pin by hand,
BumpPin(r) ==
    /\ count.bumps < MaxBumps
    /\ r \in published \ {main.own}
    /\ main' = [main EXCEPT !.own = r]
    /\ count' = [count EXCEPT !.bumps = @ + 1]
    /\ UNCHANGED <<published, retracts, runs, branches, cached, authored>>

\* records the checksums of the engine version main has, as onboarding asks,
Refill ==
    /\ count.reviews < MaxReviews
    /\ main.sha # main.version
    /\ main' = [main EXCEPT !.sha = main.version]
    /\ count' = [count EXCEPT !.reviews = @ + 1]
    /\ UNCHANGED <<published, retracts, runs, branches, cached, authored>>

\* or commits a `vendkit update --local`, which leaves the engine pin alone.
UpdateLocal(r, seen) ==
    /\ count.updates < MaxUpdates
    /\ r \in published
    /\ IsNewer(Pinned(main), r, Retracted(r, seen))
    /\ main' = Adopt(main, Job(r, TRUE), main.version, main.sha)
    /\ count' = [count EXCEPT !.updates = @ + 1]
    /\ UNCHANGED <<published, retracts, runs, branches, cached, authored>>

-----------------------------------------------------------------------------
Start(n, target) ==
    /\ runs[n] = NoRun
    /\ runs' = [runs EXCEPT ![n] = [pc |-> "resolve", base |-> main, target |-> target]]
    /\ UNCHANGED <<published, retracts, main, branches, authored>>

\* A scheduled run checks out main and the publisher at the content pin, takes
\* the engine from the cache or fetches it at its ref, and starts only if
\* self-verify accepts it.  An engine it fetched is saved when the job ends
\* well; that is told here, for nothing else of the run depends on it.
Schedule(n) ==
    /\ main.own \in published
    /\ Engine \in published
    /\ SelfVerified
    /\ Start(n, main.own)
    /\ cached' \in (IF EngineCached THEN {cached, Engine} ELSE {cached})
    /\ UNCHANGED count

\* The CI drops the saved engine.
Evict ==
    /\ cached # NoEngine
    /\ cached' = NoEngine
    /\ UNCHANGED <<published, retracts, main, runs, branches, count, authored>>

\* `vendkit update --pr` runs the same lane against a release of its choice.
UpdatePR(n, r) ==
    /\ count.updates < MaxUpdates
    /\ r \in published
    /\ r # Pinned(main)
    /\ Start(n, r)
    /\ count' = [count EXCEPT !.updates = @ + 1]
    /\ UNCHANGED cached

\* Compare, then probe; the apply that follows touches the checkout only.
Resolve(n, seen) ==
    LET run == runs[n]
    IN  /\ run # NoRun
        /\ run.pc = "resolve"
        /\ runs' = [runs EXCEPT ![n] =
              IF /\ IsNewer(Pinned(run.base), run.target, Retracted(run.target, seen))
                 /\ On(run.base)!Changed(Job(run.target, FALSE))
              THEN [run EXCEPT !.pc = "push"] ELSE NoRun]
        /\ UNCHANGED <<published, retracts, main, branches, cached, count, authored>>

\* `checkout -B`, commit and `push --force`: whatever the branch held is gone,
\* an open PR stays attached to it.
Push(n) ==
    LET run == runs[n]
        u   == <<Pinned(run.base), run.target>>
    IN  /\ run # NoRun
        /\ run.pc = "push"
        /\ branches' = [branches EXCEPT ![u] =
              [base |-> run.base, head |-> Synced(run.base, run.target),
               open |-> @ # NoBranch /\ @.open, reviews |-> 0]]
        /\ runs' = [runs EXCEPT ![n].pc = "deliver"]
        /\ UNCHANGED <<published, retracts, main, cached, count, authored>>

\* The PR handler opens a PR for the branch, or updates the one that is open.
Deliver(n) ==
    LET run == runs[n]
        u   == <<Pinned(run.base), run.target>>
    IN  /\ run # NoRun
        /\ run.pc = "deliver"
        /\ branches[u] # NoBranch
        /\ branches' = [branches EXCEPT ![u].open = TRUE]
        /\ runs' = [runs EXCEPT ![n] = NoRun]
        /\ UNCHANGED <<published, retracts, main, cached, count, authored>>

\* Any step may fail, and the runner may die: the checkout is lost, the branch
\* and the PR stay as they are.
Stop(n) ==
    /\ runs[n] # NoRun
    /\ runs' = [runs EXCEPT ![n] = NoRun]
    /\ UNCHANGED <<published, retracts, main, branches, cached, count, authored>>

-----------------------------------------------------------------------------
\* The report's removed-upstream files: left on disk for the reviewer.
RemovedUpstream(u) ==
    LET before == branches[u].base
    IN  {before.manifest[Slice].entries[p].cpath :
            p \in {q \in On(before)!Tracked(Slice) :
                      On(before)!Outcome(Job(u[2], TRUE), q) = "removed"}}

\* A reviewer refills the engine checksums, or deletes a removed-upstream file.
Review(u) ==
    /\ branches[u] # NoBranch
    /\ branches[u].open
    /\ count.reviews < MaxReviews
    /\ \/ /\ branches[u].head.sha = Blank
          /\ branches' = [branches EXCEPT ![u].head.sha = u[2], ![u].reviews = @ + 1]
          /\ UNCHANGED authored
       \/ \E c \in RemovedUpstream(u) :
             /\ branches[u].head.tree[c] # NoFile
             /\ branches' = [branches EXCEPT ![u].head.tree[c] = NoFile, ![u].reviews = @ + 1]
             /\ authored' = [authored EXCEPT ![c] = @ \union {NoFile}]
    /\ count' = [count EXCEPT !.reviews = @ + 1]
    /\ UNCHANGED <<published, retracts, main, runs, cached>>

\* A human merges the PR when it has no conflict; the branch is deleted.
Merge(u) ==
    LET b == branches[u]
    IN  /\ b # NoBranch
        /\ b.open
        /\ Mergeable(b.base, main, b.head)
        /\ main' = Merged(b.base, main, b.head)
        /\ branches' = [branches EXCEPT ![u] = NoBranch]
        /\ UNCHANGED <<published, retracts, runs, cached, count, authored>>

Next ==
    \/ \E r \in Releases : Publish(r) \/ BumpPin(r)
    \/ \E r \in Releases, seen \in BOOLEAN : UpdateLocal(r, seen)
    \/ \E c \in CPaths, f \in Files \union {NoFile} : ConsumerEdit(c, f)
    \/ \E n \in Runs : Schedule(n) \/ Push(n) \/ Deliver(n) \/ Stop(n)
    \/ \E n \in Runs, r \in Releases : UpdatePR(n, r)
    \/ \E n \in Runs, seen \in BOOLEAN : Resolve(n, seen)
    \/ \E u \in Upgrades : Review(u) \/ Merge(u)
    \/ Refill \/ Evict

Spec == Init /\ [][Next]_vars

\* The schedule keeps firing, every run ends, and a step that keeps being tried
\* succeeds in the end; reviewers merge what stays mergeable.  Nothing makes the publisher or
\* the consumer act.
Fairness ==
    /\ \A n \in Runs : /\ WF_vars(Schedule(n))
                       /\ SF_vars(Resolve(n, TRUE))
                       /\ SF_vars(Push(n))
                       /\ SF_vars(Deliver(n))
                       /\ WF_vars(Stop(n))
    /\ \A u \in Upgrades : SF_vars(Merge(u))

FairSpec == Spec /\ Fairness

-----------------------------------------------------------------------------
Snapshot == [tree     : [CPaths -> Files \union {NoFile}],
             manifest : [Slices -> [source  : Releases \union {NoRelease},
                                    entries : [Paths -> On(Bare)!Entry \union {Untracked}]]],
             own : Pins, other : Pins,
             version : Releases, sha : Releases \union {Blank}]

\* Types: in particular no run, merge or advanced pin line leaves a version that is none.
TypeOK ==
    /\ published \subseteq Releases
    /\ retracts \in [Releases -> SUBSET Releases]
    /\ main \in Snapshot
    /\ runs \in [Runs -> [pc : {"resolve", "push", "deliver"}, base : Snapshot,
                          target : Releases] \union {NoRun}]
    /\ branches \in [Upgrades -> [base : Snapshot, head : Snapshot, open : BOOLEAN,
                                  reviews : 0..MaxReviews] \union {NoBranch}]
    /\ cached \in Releases \union {NoEngine}
    /\ count \in [edits : 0..MaxEdits, bumps : 0..MaxBumps, updates : 0..MaxUpdates,
                  reviews : 0..MaxReviews]
    /\ authored \in [CPaths -> SUBSET (Files \union {NoFile})]

\* Composition across merges (INV-1, sync.md 5): main's gate is red on a path
\* only where people changed the file.  No merge of a stale, refreshed or
\* concurrent sync PR by itself mixes two releases.
RedOnlyByEdit ==
    \A p \in On(main)!Tracked(Slice) :
        On(main)!Verdict(Slice, p) # "clean" =>
            authored[main.manifest[Slice].entries[p].cpath] # {}

\* INV-6: the engine ref the lanes fetch is the vendored release, whatever PRs
\* race each other, pins moved by hand and local updates.
PinsInLockstep == main.other = Pinned(main)

\* What enginepin.go says of the pair, "one reviewed change, no skew window": the
\* checksum on main is that of the engine version beside it, or blank.
EnginePinWhole == main.sha \in {Blank, main.version}

\* The checksum on main stops being that of the engine version in one way only:
\* a PR is merged over a checksum recorded after its run had checked main out.
\* What stays is then of an older release, never of one main has not come to.
ChecksumFollowsVersion ==
    [][EnginePinWhole /\ ~EnginePinWhole' =>
          /\ Less(main'.sha, main'.version)
          /\ \E u \in Upgrades :
                /\ branches[u] # NoBranch /\ branches'[u] = NoBranch
                /\ main.sha \notin {Blank, branches[u].base.sha}]_vars

\* The content pin stops naming a release that exists, and with it the lane, only
\* where the text of the release it is advanced from, by an update of main or by
\* the PR that is merged, begins the text it has.
PinLostToPrefix ==
    [][main.own \in published /\ main'.own \notin published =>
          \/ TextPrefix(Pinned(main), main.own)
          \/ \E u \in Upgrades :
                /\ branches[u] # NoBranch /\ branches'[u] = NoBranch
                /\ TextPrefix(u[1], main.own)]_vars

\* The vendored release never goes back, although stale PRs for smaller
\* upgrades stay open and mergeable in any order.
NeverBackwards == [][~Less(Pinned(main)', Pinned(main))]_vars

\* Once the consumer stops moving a content pin that names a release, the
\* vendored release catches up with it, unless it was retracted, or probe, which
\* looks at tracked paths only, sees nothing to change (a release that only
\* adds), or self-verify goes on refusing the engine the lane gets.
CatchesUp ==
    <>[](main.own \in published /\ Less(Pinned(main), main.own) =>
            \/ main.own \in Retracted(main.own, TRUE)
            \/ ~On(main)!Changed(Job(main.own, FALSE))
            \/ ~SelfVerified)

-----------------------------------------------------------------------------
\* Claims of the documentation that the code does not keep, each checked by a
\* configuration of its own.

\* "An anchored string substitution": the content pin always names a release
\* that exists.
PinResolves == main.own \in published

\* "Additions are never silent": the lane always catches up with a standing content
\* pin, a retraction and an engine that self-verify refuses apart.
AdditionsAreTold ==
    <>[](main.own \in published /\ Less(Pinned(main), main.own) =>
            main.own \in Retracted(main.own, TRUE) \/ ~SelfVerified)

\* "Worst case is a no-op update, never corruption": a red path holds bytes that
\* people put there, never those of another release.
RedInOwnBytes ==
    \A p \in On(main)!Tracked(Slice) :
        On(main)!Verdict(Slice, p) # "clean" =>
            LET c == main.manifest[Slice].entries[p].cpath IN main.tree[c] \in authored[c]

\* A concurrent run's "second force-push wins with identical content ... worst
\* case is a no-op update": an open PR keeps what its reviewers committed.
ReviewsSurvive ==
    [][\A u \in Upgrades :
          LET b == branches[u]
              a == branches'[u]
          IN  b # NoBranch /\ b.open /\ a # NoBranch => a.reviews >= b.reviews]_vars

=============================================================================
