# A TLA+ verification of VendKit

VendKit vendors files from a *publisher* repository into *consumer* repositories. A publisher declares an export
surface, cuts tagged releases and ships a manifest with each; a consumer pins one release per *slice*, applies it with
`vendkit sync --apply`, is gated by `vendkit gate verify`, receives later releases as reviewed PRs from a scheduled
*sync* lane, and hears about new releases and moved tags from a scheduled *watch* lane. These modules model that
machinery as it is written in `src/`: every definition is listed in `PROJECT.json` ("map") with the lines it stands for.

To check a run: `tlc -workers 2 -config MCMaterialise.cfg MCMaterialise`; to check the proofs: `tlapm
MaterialiseProofs.tla`.

## Inventory

| Component | State | Operations | Who it meets | What is hard about it |
|---|---|---|---|---|
| **Materialise core** `internal/core/materialise.go` | consumer tree, one manifest per slice | check, apply (emit each path, manifest last), preview, seeding | the gate reads its manifest; the sync lane probes and applies with it; slices share a tree | crash between or inside writes, that of the manifest too; a classification that reads a tree the same apply is rewriting; paths that move between vendored, seeded and absent; slices that overlap |
| **Manifests and gate** `manifest.go`, `treeglob.go`, `canonjson.go` | committed manifests | build the publisher's manifest, discover the consumer's, verify each entry | every other component | two manifests that claim one path; a manifest that is self-consistent and mixes releases |
| **Export declaration, adapters** `declaration.go`, `adapters.go` | the declaration file | which paths a release exports and seeds, consumer path, rewritten content | materialise, generate | pure functions of a file |
| **Versions** `versions.go` | none | order, channel, latest, bump class, bump, migration window | release, watch, sync | numeric edges, pre-releases, retracted versions |
| **Release cut** `release.go`, `cmds.go` `cmdGenerate`, `cmdRelease` | remote tags, and per clone local tags, HEAD and working tree | generate, fetch, cut (freshness, baseline, gates, tag, push) | consumers jump over its releases | one cut reads three views of the repository; cuts race; a cut dies between tag and push |
| **Sync lane** `cmds.go` `syncPipeline`, `human.go` `cmdUpdate`, `enginepin.go`, `selfverify.go`, `scaffold/github-actions/sync.yml.tmpl` | main, sync branches and PRs, pins, engine pin, runs in flight | schedule, resolve and probe, push by force, deliver, update, review, merge | materialise core, handlers, CI cache, people | stale checkouts, PRs of smaller upgrades that stay mergeable, hunks merged apart, pins advanced by text substitution, an engine that upgrades itself |
| **Watch and handoff** `watch.go`, `upstream.go`, `cmds.go` `cmdWatch`, `handler.go` `githubHandoff` | publisher tags, pins, recorded provenance, work items | list, compare, deliver: search then comment or create | the same pins and manifests as sync | two requests that see two states of a remote; a search and a create with nothing between, and a schedule and a manual trigger with nothing that keeps their runs apart; early returns that hide findings; a failure that ends the run |
| **Other handlers, push hints** `handler.go`, `handlers.go`, `pushhint.go`, `subscribers.go` | PRs, subscriber file | PR delivery, fact verification, dispatch of hints | sync, watch | retries of deliveries |
| **Migrations** `migrations.go` | migration entries beside each release, obligations of an open PR | load, select by window, aggregate, verify | sync opens the PRs whose merge ends a window; release gates ask for entries | windows that share edges over hops and jumps; obligations of several hops verified together; tracked files and files on disk; people working on a PR while main moves |
| **Onboarding** `onboard.go`, `sliceconfig.go` | slice configs, manifests, lanes and launcher of a consumer | `vendkit init`: config, empty manifest, files, lanes, launcher | sync advances its lanes; gate and watch read its configs | five writes in place that may end between or inside any two; a second onboarding over what is left; lanes shared by slices |
| **Localisation** `localisation.go`, `adapters.go` | the expectations file | `generate --check` advisories, `verify-localisation` at both ends, `--write` | adapters and scopes of the declaration, the copies a sync wrote | four files with four editors; leftovers of an earlier profile on disk; seeds that are localised and not expected |
| **Conformance** `conformance.go`, `cmds.go` `cmdConformance`, `handler.go` fact-verify | the audit in progress, the documents written | load rules, evaluate, ask the platform for each attested fact, report | the consumer's tree and slice config, platform settings, fleet | two rules that look for a pipeline separately, in its text; answers given later than the tree was read, by requests that see a part of what a platform enforces; refusals that must refute nothing; waivers |
| **Fleet and human tier** `fleet.go`, `human.go` | none of its own | status, diff, explain, fleet | reads everything | a report ordered by one number and counted by another |
| **Engine wrapper** `scaffold/vendkitw` | cached engines | resolve a version, look, download twice, verify, install, run | every lane starts with it | no lock on a shared cache; kills; a mirror written to between two downloads |
| **CLI, CI surface, parsing, docs generator** `main.go`, `internal/ci`, `yamlutil.go`, `difflib.go`, `docsgen` | none | parse, format | | no state machine |

What makes each of them correct:

* *Materialise and gate.* After an apply the gate is green (INV-1 of `docs/standards/invariants.md`); red means somebody
  touched that file; check predicts apply (INV-3); a second check finds nothing; entries are those of one release;
  consumers own their seeds; an apply adds and removes only what was asked for (INV-4).
* *Release.* Tags never move (INV-5); a tag never ships a stale manifest; a bump covers what the release removes, over
  jumps too.
* *Sync.* No merge of stale PRs mixes two releases; pins move together (INV-6); the content pin and the
  engine's checksum go wrong in the ways the properties name and in no other; vendored releases never go back and catch
  up in the end.
* *Onboarding.* However onboardings end, lanes and engine pins of a slice that began over nothing name the release that
  is vendored (INV-6); slices keep to themselves; an onboarding that ends has written what the lanes start from.
* *Migrations.* Whatever hops and jumps led to the pin, every judgment-bearing entry of the way was met once on a PR
  that was merged.
* *Localisation.* Verifying the publisher and verifying a consumer that has just synced give one answer; advisories
  mean what they say of the files consumers receive.
* *Conformance.* A verdict is what the platform enforces, but for a closed list of cases; where both gate rules pass, one
  pinned pipeline runs the gate on every pull request that touches a vendored path, but for what no rule reads; the
  fleet report puts no consumer with a gap behind one without.
* *Engine wrapper.* What runs as a version matched a checksum listed for it.
* *Watch.* No more open items per key than there are runs that overlap; every standing finding reaches an open item; no
  false alarm; the integrity item is written before an update item that mentions it.

## Modules

| Module | What it models |
|---|---|
| `Materialise` | One consumer tree, its slices' manifests, `sync --check`/`--apply` path by path, crashes, consumer edits, the gate's verdict. |
| `AtomicSync` | What an apply promises: files and manifest go to the release in one step, or it died and wrote only what it was to write, at worst everything but the manifest. No order, report or outcome. |
| `Refinement` (EXTENDS `Materialise`) | `Materialise` with a history variable, and the claim that it implements `AtomicSync`. |
| `MaterialiseProofs` (EXTENDS `Refinement`) | The theorems of both. |
| `Versions` | The version algebra as operators on keys `<<major, minor, patch, stable, rc>>`. |
| `Release` (EXTENDS `Versions`) | Several clones of one publisher: edit, generate, commit, fetch, cut. |
| `ReleaseProofs` | Its theorems, and those about bumps and bump classes of `Versions`. |
| `SyncPipeline` (EXTENDS `Versions`, INSTANCEs `Materialise` on a snapshot) | Main, runs, branches and PRs of one slice's lane. |
| `SyncPipelineProofs` | Its theorems. |
| `Watch` (EXTENDS `Versions`) | Publishers' tags, pins, provenance, runs and work items of all slices. |
| `WatchProofs` | Its theorems. |
| `Onboard` (EXTENDS `Versions`) | Onboarding, syncing and removing the slices of one consumer; who renders a lane and which release it names. |
| `OnboardProofs` | Its theorems. |
| `Migrations` (EXTENDS `Versions`) | Entries, the windows of open sync PRs, work on them, verification and merges of one consumer. |
| `MigrationsProofs` | Its theorems, and those about the order and the windows of `Versions`. |
| `Localisation` | A publisher's rules, catalogues and scopes, the expectations, one consumer's copies and profile. |
| `Conformance` | Audits of several consumers, the reference fact-verify handlers and the fleet report. |
| `AuditProofs` (EXTENDS `Conformance`, `Localisation`) | The theorems of both, which share no state: `Localisation`'s specification is `LSpec`, on `lvars`. |
| `Launcher` | Launchers of one machine, their cache and the mirror. |
| `LauncherProofs` | Its theorems. |
| `MC*` | Instances for TLC: releases, paths, versions as small definitions. |

How state and actions correspond to the code:

* **Materialise.** `tree` is the working tree (content and exec bit as one value), `manifest[s]` the slice's
  `*.vendored.json` (`source.release` and `files[]`), `job`/`todo`/`report` are the locals of `Materialise`
  (`materialise.go:90`): the loop over paths is one `Emit` per path in *any* order, which is more than the code's sorted
  order and lets `ResumesWhereItDied` say that the order is immaterial. `Begin` is the set-up, `WriteManifest` the final
  write, `Crash`, `CrashInWrite` and `CrashInManifest` the ends a process can meet. `os.WriteFile` truncates first: in a
  file that leaves `Torn`, in the manifest one that nobody can read (`unreadable`). The next apply then refuses
  (`materialise.go:94`, `manifest.go:161`), and the gate ends with an error for every slice, until the consumer takes
  the committed manifest back (`Restore`, which brings back what the last whole apply left: the consumer is taken to
  have committed it). `Check` is the apply with `apply=false`; `vendkit diff`'s `Preview` is not modelled, and differs
  from it: it compares contents and is silent about a changed executable bit. `Surface[s][r][p]` is what
  `ExportedFiles`/`SeededFiles`/`ConsumerPath` and the adapters answer for a release. `dirty`, `forecast` are history
  variables and guard nothing.
* **Release.** `work`/`head`/`local` are a clone, `remote` the publisher's tags. `Baseline` (freshness of the *working
  tree*, newest *remote* tag), `Gates` (a second listing, the delta against the *local* tag, override), `TagHead`
  (tag on *HEAD*), `Push` are the places where another clone can interleave in `Cut` (`release.go:101`). `Stop` is every
  refusal, error and crash.
* **SyncPipeline.** A snapshot is the consumer repository: tree, manifests, `own` (publisher ref in the sync workflow),
  `other` (every other pin line), and of the slice config the engine's `version` and its checksums (`sha`). Each is a
  hunk of its own to a merge (`Hunks`): the config has nine lines between version and checksums (`onboard.go:380-395`).
  `Refill` is the commit that records checksums on main, as `onboard.go:288` asks. `cached` is the engine the CI cache
  restores, by a key no sync advances; `Schedule` takes the engine from there or at its ref, runs self-verify and saves
  what it fetched, `Evict` is the cache dropping it. `PinsInLockstep` compares the pin lines of the lanes; `version` it
  leaves out, since `vendkit update --local` does not advance it (below). `Resolve`, `Push`, `Deliver` are the three
  parts of `syncPipeline` (`cmds.go:363`) that other actors can come between; `On(snapshot)!...` runs the Materialise
  operators on the run's checkout, so the probe and the apply are the ones proved about. `Merge` is git's three-way
  merge by hunks.
* **Watch.** A run reads pins and manifests once (`Begin`), then per slice `Unreadable` or `List` and `Compare`
  (`watch.go:84-162`), then per finding `Skip` or `Find` and `Answer` (`handler.go:283-323`). Several runs may be in
  flight: `watch.yml.tmpl:5-8` has a schedule and a manual trigger and no concurrency group. `meant` is history.
* **Onboard.** `config[s]` is `.vendkit/consumer/<slice>.yml` (mode, `pin.files`, `engine.version`), `lane[f]` a
  scaffolded pipeline with the slice that rendered it and the release its pin lines name, `job` the locals of `Onboard`
  (`onboard.go:124`). `Begin`, `Seed`, `Vendor`, one `Scaffold` per lane and `Launch` are its writes in order (lanes in
  any order); `Stop` is an error or a kill between two of them, `StopInWrite` a kill inside one. `Sync` is a merged sync
  PR, in one step; `Reset` is the removal without which `onboard.go:170` refuses to onboard again: of the config, and
  perhaps of the manifest or of the lanes the slice rendered. Where the manifest stays, the next onboarding writes its
  config and is then refused (`Seed`, `materialise.go:372`). `owner` and `mode` are history where the files do not say
  them; so is `over`, the slices that were onboarded over a manifest or lanes that were there, or share a lane with one
  onboarded later.
* **Migrations.** `Shipped[v]` is what `LoadMigrationEntries` reads in the publisher checkout of a release, `prs[u]` the
  sync PR of the upgrade `u = <<pinned, target>>`: the main it was cut from, its head, the files its last check left
  untracked and whether that check was green. A glob is the set of files it matches. `Propose` is `syncPipeline`, which
  recreates the branch from main and resolves the window; `Verify` is `vendkit migrations` followed by
  `migrations-verify`, which no scaffold wires and the consumer's workflow runs on the PR; `Merge` needs it green, and
  a PR cut from another pin conflicts on the provenance lines. `met` is history: what held, read entry by entry, on the
  head that was merged.
* **Localisation.** `pub` is a publisher tree (profiles with their scopes, adapters with match and catalogue, rules as
  lists of globs, seeds), `expected` the file `verify-localisation` reads, `copies` the vendored rules of one consumer.
  `Localise` is the front-matter filter of `adapters.go:38`; `Sync` writes what `Materialise` writes and leaves on disk what
  fell out of scope. `Advice` is `CheckLocalisation`, `Compare` the findings of `VerifyLocalisation`.
* **Conformance.** `job` is the locals of `cmdConformance`: the report, evaluated in one step on the clone read in
  `Audit`, and the index of the next attested result. `Ask` is one handler run: the answer of the platform *as it is
  now*, or `unknown`. `HandlerFails` ends the audit without a document. `Aggregate` is `vendkit fleet` over the documents.
  The handlers see what they ask for: of GitHub the classic protection of a branch, with 404 where there is none and for a
  repository the token cannot see; of Azure DevOps the policies of the whole project with their types' display names, in
  which a word is looked for (`Words`). The platform has more: rulesets, the repository and pipeline of a policy, path
  filters; and a pipeline's text (`mentions`) is told from what it `runs`, its trigger has `ignores` and `branches`. What is
  really in force is said from these (`Meant`, `InForce`, `Verifies`), apart from the handlers' definitions. `by` is history: the
  controls at the moment an answer was given.
* **Launcher.** One `pc` per launcher, one place per command that another process can come between: version, `[ -x ]`,
  two downloads, checksum, `mv`, `exec`. `across` says whether `mktemp -d` and the cache are on two filesystems, where `mv`
  is a copy into an executable file. An engine still open for writing cannot be executed, so `Exec` waits or
  fails; that is Linux's rule (ETXTBSY), and on a system without it a launcher may start an engine that another is still
  copying. One mirror stands for every `base_url`: the cache is keyed by version alone.

Deliberate abstractions: contents are model values and `Digest` maps them to hashes (two contents may share one, as
line endings do); versions are keys, never text, except where `TextPrefix` models the text substitution of pin lines;
PR and issue bodies are the set of findings they tell. Mutants (definitions whose comment starts with *Mutant*) stand
beside the definition they break and are used by no specification.

## Runs

| Run | Bounds | What it shows |
|---|---|---|
| `materialise` | 2 slices, 3 releases, 2 paths each, 3 places, 2 contents and a torn one | Nine properties of applies, crashes, torn manifests, edits and re-seeds, `AtomicSync` (`AppliesAtOnce`) among them. Each path meets each transition between vendored, seeded and absent, one path takes another's place, one slice has a path out of its scope. |
| `release_serial` | 1 clone, 1 path, 4 versions, 3 edits | Bump classes along every sequence of cuts of patch, minor and major. Three edits add, remove and reclass a path, and write an entry. |
| `release_race` | 2 clones, which may be behind the remote, 2 versions, 2 edits | No tag moves and no stale manifest ships, whatever the interleaving and crashes. |
| `onboard` | 2 slices, either or both primary, 1 shared lane, 2 releases, 2 removals (each with or without manifest and lanes), 1 edit | Four properties of onboardings that end anywhere. Two removals allow a second slice to be onboarded over what a first left, twice; two releases let syncs and onboardings differ. |
| `sync` | 3 releases (v1.4.1, v1.4.10, v2.0.0), 2 runs, 1 each of edits, hand-moved pins, updates, and refills or reviews, no cache | Safety of merges, pins and the engine pin. Two runs and an update are three writers for at most three upgrades, which is enough for every pair of stale and fresh PRs; one file changes and gets its first content back, the other is dropped; one release's name begins another's. |
| `sync_live` | the same releases, one of which may be retracted, 1 run, 2 hand-moved pins, 1 refill or review, with a cache | The vendored release catches up with the pin, through an upgrade that only adds and an engine that is refused for a while. |
| `watch` | 2 slices (one stable without a handler, one canary), 2 releases, 2 commits, 2 runs, one each of moved tag, closed item, fault | Items of runs that race, integrity first. |
| `watch_live` | 1 slice, 1 run, otherwise the same and one edited pin | No false alarm; findings that stand reach an open item. |
| `conformance` | 2 consumers (GitHub, Azure), 9 trees, 10 platform settings, with and without a base branch, 7 core rules, 3 publisher rule sets, 1 change | Verdicts, the gate's two rules and the fleet report. The trees hold every detector's outcomes, filters, unpinned, nightly and commented-out gate pipelines, `paths-ignore` and `branches`, waivers, no attestations; the settings a branch under rulesets, an invisible repository, a required check and a build that are not the gate's, a sibling repository, another branch, a minimum of reviewers; one change can come before any question. |
| `localisation` | 2 rules and a seed, 3 globs, 3 profiles, 18 publisher trees, 1 edit by hand | Both ends agree, advisories are sound. Catalogues own, share and orphan globs, name an undeclared profile and match twice; scopes shrink under a bound consumer. |
| `migrations` | 4 releases (one a candidate), 4 entries, 2 files, 2 PRs at once, 3 commits | No entry owed is forgotten. Three upgrades allow every mixture of hops and jumps; the entries sit on both edges of windows, one obliges one profile and one contradicts another. |
| `launcher` | 2 launchers, 2 configs, 2 versions, 2 contents, both kinds of filesystem | What runs was verified. Two launchers show every pair of places; a third adds no new kind of overlap on one cache entry. |

Every property of a passing run has a mutant of a mapped definition that breaks it under the run's own bounds.
`CHECK_DEADLOCK FALSE` stands only where the system may stop: when every bound of `SyncPipeline` is used up and main
has caught up there is nothing left to do, when the commits of `Migrations` are used up only a red or conflicting PR may
be left, and a fleet job of `Conformance` ends.

The bounds (`MaxEdits`, `MaxBumps`, `MaxUpdates`, `MaxReviews`, `MaxMoves`, `MaxPins`, `MaxCloses`, `MaxFaults`, `MaxChanges`,
`MaxHand`, `MaxOpen`, `MaxCommits`) stand in
guards and limit what people and failures do, never what the engine does.

### Fairness

* `SyncPipeline!FairSpec`. The cron trigger (`sync.yml.tmpl:6`) gives `WF(Schedule)`. A step that fails is tried again by
  the next run, so `Resolve` with an answering remote, `Push` and `Deliver` get `SF`: they are enabled again and again and
  are assumed to succeed once in a while, not each time. A started run ends (`WF(Stop)`, the runner's time limit). `SF(Merge)`
  says reviewers merge a PR that keeps being mergeable. Nothing makes a publisher publish or a consumer edit.
* `Watch!FairSpec`. `WF` on a run's next step: the cron trigger and a runner that goes on. Failures need no fairness
  because they are bounded: the claim is that after the last failure every standing finding is reported.

## Proofs

Each proof module proves its component for every value of the constants, from the assumptions its component names and
the hypotheses its theorems state. Every safety and action property of every run is a theorem. A hypothesis that the code
does not enforce is said with its theorem; for nearly all of them a divergence below shows what happens without it.

`MaterialiseProofs` holds for every set of slices, releases, paths, places and contents, from `ConstantsOK` (types,
and that the model's null values are none of them) and `NoCollisionInSlice` (`BuildPublisherManifest` refuses a release
that maps two paths to one place, `manifest.go:110`).

* `TypeCorrect`: types.
* `ProjectionHolds`: every tracked entry is the one of the recorded release.
* `Prediction`: INV-3. Alone this is not inductive: the report of a path reads the tree that the apply is rewriting.
  `IInv == TypeOK /\ ManifestIsProjection /\ JobInv` is: `JobInv` says that while a job runs, a path still to do
  has the outcome the forecast gave it, a path done has it in the report, and a vendored path done holds the target's
  content. It survives `Emit(p)` because a write reaches only the place of `p` and, by `NoCollisionInSlice`, no other
  path of the target lives there.
* `Composition`: INV-1 at every moment, under the hypothesis `DisjointSlices` (INV-7). Its invariant `CleanInv` adds
  that a vendored place outside `dirty` holds what its manifest entry promises. That no operation enforces the
  hypothesis is what `MCOverlap.cfg` shows (below).
* `GreenByConstruction`: INV-1 as worded, the step that writes the manifest ends green, from the same invariant, while
  no manifest is torn (the gate answers for all slices or, with one it cannot read, for none).
* `CheckIsFixedPoint`, `ConsumerKeepsSeeds`, `NothingUnasked`: a check after an apply finds nothing, seeds stay the
  consumer's, INV-4. They add `DoneInv` (what the apply has passed it will not write again) and `DropInv` (what the
  release no longer holds was forecast to be dropped).
* `PureApply`: in whatever order an apply takes its paths and wherever it dies, what an apply makes of the tree stays
  what it was, a template torn by the kill excepted; the one death after which no apply takes up is that inside the
  manifest's own write, and every file is in place then.
* `AppliesAsOne`: `Materialise` implements `AtomicSync`. The abstract apply takes place when the manifest is written;
  the tree an observer saw until then is `before`, a history variable of `Refinement`, since by then the files are
  rewritten. A death is the abstract `Interrupted`, inside the manifest `LeftUnreadable`. `BeforeInv` is what the two
  steps need: while an apply is under way each place is as it began or as promised, and the promise made of the tree of
  now is the one made when it began (`GivenTwice`: a promise kept is not changed by being made again). The promise tells
  each place from what is there and the release alone, so `AppliedIsResult` has to show that the code's outcomes, which
  depend on the manifest, hash and report, come to the same. `NothingUnasked` is a consequence, which is why no run
  checks it by itself. `SyncPipeline` takes an apply as one step, which this justifies; a run that dies inside one dies
  with its checkout.

`OnboardProofs` holds for every set of slices, shared lanes and releases under `OnboardConstants`, with no hypothesis about
who is primary or what a removal leaves. `Lockstep` is INV-6 of the slices not in `over`; it says nothing of a slice without
a release, so it is not inductive: a lane left over from an interrupted onboarding would be caught up with by the next
one. `IInv` adds `ConfigInv` (a config lists shared lanes and its slice's own), `LaneInv` (a lane that a slice outside `over` lists
is its own and at its release, or names none), `ShareInv` (slices that list one lane are in `over`) and `JobInv` (the
onboarding in progress is that of the config it wrote). `Sync` needs `ShareInv`: a lane it lists that another slice rendered
would be shared. `NeighboursUntouched` (`SlicesApart`) follows from `IInv` step by step; `EndsReady` (`CompleteIsReady`) adds
that the lanes no longer to be scaffolded are in place.

`MigrationsProofs` holds for every set of releases, entries, files and profiles. `TypesHold` has no hypothesis. `OwedIsMet`
(`NothingOwedIsForgotten`) has two about the publisher that the engine does not check: `Kept` (an entry ships with the
release it applies from and with every later one) and `Textual` (its lists are lists of strings). `JumpsResolveTheirHops` rests
on `WindowSplits`: a jump's window is the disjoint union of its hops', by `LessTotal`. `OwedIsMet` is not inductive alone: a
merge must know what the green of its PR meant. `IInv` adds `GreenInv`, that a green PR's head satisfies the aggregate of
its own window; `GreenMeansEach` takes the aggregate apart again, and `MergeInv` splits the owed entries at the pin that
the merge leaves.

`LauncherProofs` holds for every set of launchers, configs, versions, contents and mirrors under `LauncherConstants`,
with no further hypothesis. `IInv` adds `HeldInv` (a launcher past its checksum holds a content that was vouched for its
version), `CacheInv` (a cache entry nobody is writing is vouched for, or torn by a killed copy of that version), `CopyInv`
(copying happens across filesystems only) and `TmpInv` (what is being checked was downloaded).

`ReleaseProofs` holds for every set of clones, paths and version numbers under `ReleaseConstants`, and rests on the version
algebra: the order is strict (`LessStrictOrder`), a jump's class is at least each hop's (`JumpCoversHops`), a bump is newer
and of the class asked for (`BumpIsNewer`). `TypesHold` and `TagsImmutable` (INV-5, with any number of clones racing) follow from
types and `ActiveInv` (a cut that is about to push has tagged its target). `ShipsFresh` needs `CleanTree`; `FreshInv` adds
that every local tag is fresh and that a cut in progress stands on a fresh HEAD. `BumpsCoverDeltas`, `JumpsTellRemovals` and
`NewestLast` need one clone and `CleanTree`, which the divergences below show are needed; `ShownInv` says that such a clone
holds the tags of the remote. None of them is
inductive: `SerialInv` adds that the baseline of a cut is the newest release and stays so until it
pushes, that the clone shows it as the remote does, and that past the gate the class of the bump covers the change between
the two. A jump is then taken apart at its last hop: a path that was vendored there goes with that hop, one that was not
went earlier, and `JumpCoversHops` lifts either class to the whole jump.

`SyncPipelineProofs` holds for every set of releases, paths, places, contents and lane runs under `SyncConstants` and
`Surfaces` (as in `MaterialiseProofs`). Main alone is not inductive: what a merge does depends on a checkout taken long
ago. `LaneInv` therefore says `Locked` of main, of every checkout in flight and of both ends of every branch, and that
past its compare a run goes up; from it come types, `PinsStayInLockstep` and `MovesForward`, since a merge either finds
main at the base's release and takes the head's, or finds it at the head's already (`MergeLocked`). `MergesMixNothing`
adds `ContentInv`: each of these snapshots is `Faithful` to its manifest where nobody edited, a head differs from its
base where the apply wrote (`Written`), and main has either left the release of a checkout for good or differs from it
by people's edits and by files it gained (`Since`). `AdoptContent` carries the apply of `Materialise` into it. The two
ways a pin goes wrong need `PinInv`: main and every checkout are `Dated` (the engine's version is at most the vendored
release, its checksum at most its version), targets are published, and a head's checksum is of its target or blank, its
content pin the base's advanced. `ChecksumsComeApart` then splits a merge by who changed which of the two hunks;
`PinsLostToPrefixes` holds for all release names, those that begin each other included.

`WatchProofs` holds for every list of slices and every set of releases, commits and runs under `WatchConstants`.
`BaseInv` refines the types: a run has not sent before its last slice, and what its search met is an item of the key it is
about to answer. On it stand three invariants of their own. `MeantInv` (for `AlarmsAreTrue`) says that whatever is tagged,
recorded, checked out or listed was once pointed at: the tags go on moving after a run has read them, so the alarm is
judged against the history `meant`. `FirstInv` (for `IntegrityLeads`) says that a run's findings come slice by slice with
a moved tag first, and that what a run has sent some item of its key tells; it needs `Configs` to list a slice once.
`SpreadInv` (for `AnItemPerRun`) counts a run whose search met nothing as an item: open items and such runs together
are no more than there are runs.

`AuditProofs` holds for every set of consumers, trees, platform settings and rules under `ConformanceConstants`, and for every
publisher tree of `Localisation`. `AuditInv` says that the results of an audit in progress, and of every document, are
those of the rules on a tree this consumer had, where only a verdict has replaced what was attested (`ResultOf`).

* `VerdictsHold`: a wrong verdict is one of the list `VerdictsTrue` gives, with no hypothesis about hosts, branches or
  projects. `TrueInv` carries it through documents; `AnswerTrue` compares a handler's answer with the platform, `PolicyAnswer`
  that of Azure.
* `GateVouched`: needs `GateRules`, the two rules as `core-rules.yml:15` and `:89` ship them. The rules look for their
  pipeline separately; `OnePipeline` shows that what the one finds the other speaks of, the first pipeline that mentions the
  gate, whatever rules the publisher adds.
* `WorstFirst`: no consumer with a gap stands behind one without, for every set of documents, though the report is sorted
  by worst status and gaps are counted separately: `RowRank` shows that the worst status is that of a gap exactly where
  there is one. The sort is stated by its outcome (`Ranked`).
* `OracleHonest`, `AdvisoriesMean`: verifying publisher and consumer give one answer, and an advisory is true of what arrives.
  `OracleInv` ties copies, expectations and advice to the tree they were made from. For the advisories `Position` and
  `KeptHas` say which globs `Localise` keeps, and `OneAdapter` that the first adapter that matches decides.

Only model-checked: `CatchesUp`, `BehindReported`, `MovedTagReported` and `RotReported`, since liveness under fairness is out of
the prover's reach. Nothing here is proved by induction over data: where the code folds or sorts, the model states the
outcome (`Ranked`, `Kept`) or uses a set, and the runs compare on small inputs.

## Where code and documentation part

Divergences met while modelling. Those of the first list are reproduced by a configuration of their own, which TLC
refutes; of the second some are by changing a constant of a listed run, as said with each, others are in the model or in
the exceptions a property names.

* `materialise.go:94`: an apply reads its own slice's manifest only and claims a path another slice tracks; the gate then
  reports a collision. `docs/standards/invariants.md:40-42` promises "zero findings" after any apply
  (`tlc -config MCOverlap.cfg MCMaterialise`: `ApplyEndsGreen`).
* `cmds.go:506`: each run of an upgrade recreates its branch and pushes by force, so a reviewer's commit, such as the
  checksums `enginepin.go:5-6` asks to refill, is lost. `docs/specs/sync.md:128-130` says "the second force-push wins with
  identical content" (`tlc -config MCSyncForce.cfg MCSyncPipeline`: `ReviewsSurvive`).
* `cmds.go:506`: a run that started before the PR of its upgrade was merged recreates that PR. Merged in its turn, it puts
  its release's file back over an edit; a newer PR, whose base held the edit as its own release's content, then merges without a
  conflict and main's manifest names one release where a file is of another. People touched that place
  (`RedOnlyByEdit` holds), yet not with these bytes. `docs/specs/sync.md:128-130` says "worst case is a no-op update, never
  corruption" (`tlc -config MCSyncReturns.cfg MCSyncPipeline`: `RedInOwnBytes`).
* `cmds.go:430`: the probe does not look at untracked paths, so a release that only adds is never proposed. `README.md:28-29`
  says "Adds, updates, removals — never silent." (`tlc -config MCSyncAdditions.cfg MCSyncPipeline`: `AdditionsAreTold`; `CatchesUp` excepts it).
* `cmds.go:418`: a sync never resolves the pinned tag. `docs/specs/releases-and-versioning.md:112-114` says "fail loudly
  (`refused=tag-moved`)" (`tlc -config MCWatchSync.cfg MCWatch`: `SyncRefusesMoved`).
* `handler.go:295`: two watch runs that search before either creates leave two open items, which later runs comment on
  one by one. `docs/specs/release-watch.md:90` and `docs/specs/handler-protocol.md` say that a dedup key does not
  duplicate (`tlc -config MCWatchRace.cfg MCWatch`: `OneOpenItem`; `ItemPerRun` is what holds).
* `onboard.go:170`, `:187`, `:228`: a slice that is onboarded over lanes that were left or that another slice has rendered
  keeps them at their release while its config lists them as pin files, and no sync advances them; two slices onboarded
  as primary (the default mode) list the same pin files, and a sync of one moves what the other rendered.
  `docs/standards/invariants.md` has all references move together, INV-6 (`tlc -config MCOnboardOver.cfg MCOnboard`:
  `ReferencesMoveTogether`; `LanesInLockstep` excepts these slices).
* `handler.go:412`, `:711`: a branch that is protected by rulesets alone, which `core-rules.yml:27` and
  `docs/specs/conformance.md:101` recommend, answers 404 and is refuted, and so is a repository the token cannot see;
  any required check verifies that the gate's is required, since `check` is never sent; on Azure "Minimum number of
  reviewers" contains `reviewer` and verifies required reviewers, a policy of a sibling repository or of any other build
  verifies this one's, and without `--base-branch` one of any branch does (`tlc -config MCVerdicts.cfg MCConformance`:
  `VerdictsExact`; `VerdictsTrue` is what holds).
* `conformance.go:213`, `:514`: a pipeline that has the gate's command in a comment counts as wired, and `paths-ignore` and
  `branches` are read by no rule; on Azure `pull_request` answers `attested` before `required_check` is looked at
  (`conformance.go:470`), so a build policy that does not block verifies the gate. `core-rules.yml:16` says "wired, pinned,
  required on PRs" (`tlc -config MCGateRequired.cfg MCConformance`: `GateRequired`; `GateVouchedFor` is what holds).

* `release.go:61`: a clone that lacks the newest remote tag computes no delta, and a removal ships as a patch
  (two clones in `MCReleaseSerial`, one of which has not fetched: `BumpCoversDelta`).
* `release.go:224`: freshness is that of the working tree, the tag goes on HEAD (`CleanTree = FALSE`: `FreshManifests`).
* `release.go:227`: the older of two racing cuts can be pushed last (two clones in `MCReleaseSerial`: `NewestIsLast`).
* `release.go:86`: a path vendored, then seeded, then gone leaves by two patches; only vendored paths count as removed.
* `manifest.go:175`: an apply that is killed inside the write of its manifest leaves one that every later command refuses,
  although all files are in place; nothing but the consumer's own history brings it back (`CrashInManifest`, `Restore`).
* `cmds.go:454`: `strings.ReplaceAll` of `refs/tags/v1.4.1` reaches into `refs/tags/v1.4.10`: a pin that stood at the longer
  name then names no release and the lane stops (`PinResolves` as an invariant of `MCSync` is refuted; `PinLostToPrefix` says
  that nothing else has this effect).
* `enginepin.go:14`, `onboard.go:380`: version and checksums of the engine are far enough apart for git to take each from
  another side. A PR cut before a checksum was recorded on main, merged after, leaves the new version with the checksum
  of an older one, and self-verify refuses the lane's engine (`EnginePinWhole` as an invariant of `MCSync` is refuted;
  `ChecksumFollowsVersion` says that this is the only way).
* `sync.yml.tmpl:31`: the engine cache key names the onboarded version, and no sync advances it; a checksum recorded for a
  later engine refuses the cached one until the cache is dropped (`CatchesUp` excepts a lane whose engine self-verify
  refuses).
* `human.go:520`: `vendkit update` without `--pr` advances pin lines and leaves the engine pin of the slice config.
* `sync.yml.tmpl:24`: the lane targets the content pin, so a new release waits until somebody moves it.
* `cmds.go:435`: when main already holds the target's bytes the probe reports no change, and the manifest (and a red
  gate) stays as it was.
* `watch.go:115`, `watch.go:132`: with no qualifying release, or with the pinned tag deleted, a broken provenance is not
  reported.
* `onboard.go:170`: a slice that has a config is refused, so an onboarding that failed half-way is completed only by
  removing what it wrote. `docs/specs/onboarding.md:151-152` says "Additive onboarding must be idempotent: re-running
  detects the existing slice and repairs rather than duplicates."
* `materialise.go:372`: where only the config was removed, as the error at `onboard.go:170` suggests, the next onboarding
  writes a config for its own release and is refused at the manifest; config and manifest then name two releases. `over`
  takes such a slice out of `LanesInLockstep`.
* `onboard.go:249`: a launcher or shared lane left empty by a killed write is taken for one that exists.
* `materialise.go:372`: an onboarding that dies between the empty manifest and the release leaves a slice whose sync
  finds nothing tracked and stops green.
* `migrations.go:85`: an entry that is written after the release it applies from, or for a profile a consumer binds to
  later, is presented to nobody who is past it (`Shipped <- PayloadsLate` in `MCMigrations`: `NothingOwedIsForgotten`).
* `migrations.go:152`, `yamlutil.go:94`: a list with one element that YAML does not read as a string reads as no list, and
  takes the whole window's `must_be_absent` or `must_be_present` with it (`Shipped <- PayloadsNumeric`: the same).
* `migrations.go:198`: `file-absent`, `file-present` and `tool` look at the disk, where the comment at `migrations.go:134` and
  `docs/specs/migrations.md` speak of tracked files only; an untracked file changes the verdict.
* `migrations.go:107`: obligations of a jump are verified together, so two hops that contradict each other (one retires a
  file, a later one asks for it back) leave a PR that can never be green, where the hops one by one could.
* `migrations.go:27`: one malformed entry stops every sync to its release; no scaffolded workflow runs
  `migrations-verify`, so the green that `Merge` waits for exists only where the consumer wires it.
* `vendkitw:195`: the header says "verifies it … BEFORE anything is installed or executed"; where `mktemp -d` and the cache
  are on two filesystems a killed `mv` leaves an executable beginning of an engine, which is started ever after
  (`VerifiedBeforeExec` names exactly this case). The cache key names no `base_url`.
* `handler.go:371`: the handlers answer `unknown` to `branch_protection_enabled` and `sync_credential_provisioned`, which stay
  attested for ever.
* `conformance.go:452`: the first pipeline that mentions the gate decides, a comment included: an unpinned or nightly one
  in front masks a good one behind it (a gap too many, never one too few: `GateVouchedFor`).
* `conformance.go:296`: a waiver on an advisory rule fails with the words for mandatory ones.
* `materialise.go:63`: `os.WriteFile` truncates before it writes, and a template that is there is the consumer's
  (`materialise.go:175`): one that a kill left torn is kept by every later apply, and its manifest entry then vouches for
  a file nobody wrote. `ResumesWhereItDied` allows exactly this case; a torn vendored file is written again.
* Materialise: a seed the consumer deleted comes back when the publisher renames its template's source path, since the
  new path is untracked. `SeedsBelongToConsumer` allows exactly this case.

## Not modelled

Parsing, canonical JSON, diffs, rendering, the CLI and the documentation generator have no state a model would add to.
Of an onboarding the CODEOWNERS stanza, the text of the templates and the manual checklist are left out; of the human
tier `status`, `diff` and `explain`, which read and print; of the handlers push hints, which send one request per
subscriber and keep nothing. The front-matter surgery of `adapters.go` appears as what it does to a list of globs.
Network failures appear as refused or failed steps. Of a pipeline's trigger `types:`, and of its jobs `if:` and
`continue-on-error:`, are left out: no rule reads them either.

## Plan

1. A persistent checkout in `SyncPipeline`, as `vendkit update --pr` has it (`cmds.go:439`), where a run may die inside an
   apply or after it; a died apply is then `AtomicSync!Interrupted`.
