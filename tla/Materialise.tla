---------------------------- MODULE Materialise ----------------------------
(***************************************************************************)
(* The materialise core and the consumer gate: `vendkit sync --apply`      *)
(* writes a release's files into a consumer tree one by one and rewrites   *)
(* the slice's manifest last; `vendkit gate verify` compares the tree with *)
(* every manifest.  Between two applies the consumer edits files, and an   *)
(* apply may die between any two of its writes, or inside one: a file, or  *)
(* the manifest itself, is then left truncated.                            *)
(*                                                                         *)
(* A file value stands for bytes together with the exec bit; Digest maps   *)
(* it to what the manifest records, so two files that differ only in line  *)
(* endings share a digest.  Surface is what a release holds after the      *)
(* content adapters ran for the bound profile.                             *)
(***************************************************************************)
EXTENDS Naturals

CONSTANTS
    Slices,     \* slice names, as numbers in the sort order of their manifests
    Releases,   \* release tags
    Paths,      \* publisher-side paths (`path` of an entry)
    CPaths,     \* consumer-side paths (`consumer_path`)
    Files,      \* file contents with their exec bit
    Torn,       \* the content a write that died half way leaves behind
    Digest,     \* Digest[f]: the recorded (normalised) hash of f
    Surface,    \* Surface[s][r][p]: class, cpath and file of p in release r of s
    InScope,    \* InScope[s]: the paths in the bound profile's export slice
    NoFile, Untracked, NoRelease, NoJob

Digests == {Digest[f] : f \in Files}
Classes == {"none", "exported", "seeded"}
Item    == [class : Classes, cpath : CPaths, file : Files]
Entry   == [cpath : CPaths, sha : Digests, seed : BOOLEAN]
Jobs    == [slice : Slices, target : Releases, reconcile : BOOLEAN]

Outcomes == {"quiet", "updated", "added", "seeded", "template", "retired", "removed"}

ASSUME ConstantsOK ==
    /\ Slices \subseteq Nat
    /\ Torn \in Files
    /\ DOMAIN Digest = Files
    /\ Surface \in [Slices -> [Releases -> [Paths -> Item]]]
    /\ InScope \in [Slices -> SUBSET Paths]
    /\ NoFile \notin Files
    /\ Untracked \notin Entry
    /\ NoRelease \notin Releases
    /\ NoJob \notin Jobs

\* A release maps no two of its paths to one consumer path: generate refuses it.
ASSUME NoCollisionInSlice ==
    \A s \in Slices, r \in Releases : \A p, q \in Paths :
        /\ Surface[s][r][p].class # "none"
        /\ Surface[s][r][q].class # "none"
        /\ Surface[s][r][p].cpath = Surface[s][r][q].cpath
        => p = q

VARIABLES
    tree,      \* the consumer's working tree
    manifest,  \* per slice, the consumer manifest last written whole
    unreadable, \* the slices whose manifest on disk a kill has truncated
    job,       \* the apply in flight, or NoJob
    todo,      \* the paths the apply has not come to yet
    report,    \* the report the apply has built so far
    forecast,  \* history: what --check reported when the apply began
    dirty      \* history: consumer paths touched since their slice was last applied

vars == <<tree, manifest, unreadable, job, todo, report, forecast, dirty>>

-----------------------------------------------------------------------------
At(s, r, p) == Surface[s][r][p]

Exported(s, r) == {p \in Paths : At(s, r, p).class = "exported"}
Seeded(s, r)   == {p \in Paths : At(s, r, p).class = "seeded"}
Offered(s, r)  == Exported(s, r) \union Seeded(s, r)

Tracked(s) == {p \in Paths : manifest[s].entries[p] # Untracked}

\* Mutant: reconciliation that forgets the profile's scope.
CandidatesUnscoped(j) == IF j.reconcile
                         THEN Offered(j.slice, j.target) \ Tracked(j.slice) ELSE {}

\* Reconciliation offers what the release holds, is untracked and is in scope.
Candidates(j) == IF j.reconcile
                 THEN (Offered(j.slice, j.target) \ Tracked(j.slice)) \intersect InScope[j.slice]
                 ELSE {}

Visited(j) == Tracked(j.slice) \union Candidates(j)
Kept(j)    == Visited(j) \intersect Offered(j.slice, j.target)

\* Mutant: the raw bytes recorded instead of their normalised hash.
NewEntryRaw(s, r, p) == [cpath |-> At(s, r, p).cpath,
                         sha   |-> At(s, r, p).file,
                         seed  |-> At(s, r, p).class = "seeded"]

NewEntry(s, r, p) == [cpath |-> At(s, r, p).cpath,
                      sha   |-> Digest[At(s, r, p).file],
                      seed  |-> At(s, r, p).class = "seeded"]

\* Mutant: a vendored file classified by the recorded hash, not by the tree.
OutcomeByRecord(j, p) ==
    LET item  == At(j.slice, j.target, p)
        prior == manifest[j.slice].entries[p]
    IN  CASE item.class = "seeded" ->
               IF prior = Untracked THEN "seeded"
               ELSE IF prior.sha # Digest[item.file] THEN "template" ELSE "quiet"
          [] item.class = "exported" ->
               IF prior = Untracked THEN "added"
               ELSE IF prior.sha = Digest[item.file] THEN "quiet" ELSE "updated"
          [] item.class = "none" ->
               IF prior.seed THEN "retired" ELSE "removed"

\* The report class of one path against the working tree (emitEntry, emitSeed
\* and the switch that calls them).
Outcome(j, p) ==
    LET item  == At(j.slice, j.target, p)
        prior == manifest[j.slice].entries[p]
    IN  CASE item.class = "seeded" ->
               IF prior = Untracked THEN "seeded"
               ELSE IF prior.sha # Digest[item.file] /\ tree[item.cpath] # NoFile
                    THEN "template" ELSE "quiet"
          [] item.class = "exported" ->
               IF tree[item.cpath] = item.file THEN "quiet"
               ELSE IF prior = Untracked THEN "added" ELSE "updated"
          [] item.class = "none" ->
               IF prior.seed THEN "retired" ELSE "removed"

\* Mutant: a check that looks at the tracked paths only.
CheckTracked(j) == [p \in Paths |-> IF p \in Tracked(j.slice) THEN Outcome(j, p) ELSE "quiet"]

\* What --check prints: the same classification, nothing written.
Check(j) == [p \in Paths |-> IF p \in Visited(j) THEN Outcome(j, p) ELSE "quiet"]

Changed(j) == \E p \in Paths : Check(j)[p] \notin {"quiet", "template"}

\* Mutant: a template that changed upstream is written over the consumer's copy.
WritesTemplate(j, p) == \/ Outcome(j, p) \in {"updated", "added", "template"}
                        \/ /\ Outcome(j, p) = "seeded"
                           /\ tree[At(j.slice, j.target, p).cpath] = NoFile

\* A tracked seed is never written; an untracked one only where nothing is.
Writes(j, p) == \/ Outcome(j, p) \in {"updated", "added"}
                \/ /\ Outcome(j, p) = "seeded"
                   /\ tree[At(j.slice, j.target, p).cpath] = NoFile

\* What an apply that is not interrupted makes of the tree and of the slice's
\* manifest.
AppliedTree(j) ==
    [c \in CPaths |->
        LET writing == {p \in Visited(j) : Writes(j, p) /\ At(j.slice, j.target, p).cpath = c}
        IN  IF writing = {} THEN tree[c]
            ELSE At(j.slice, j.target, CHOOSE p \in writing : TRUE).file]

\* Mutants: a manifest whose tracked entries stay as they were; one that forgets
\* what reconciliation added.
ProjectionMerged(j) ==
    [source  |-> j.target,
     entries |-> [p \in Paths |->
                    IF p \notin Kept(j) THEN Untracked
                    ELSE IF p \in Tracked(j.slice) THEN manifest[j.slice].entries[p]
                    ELSE NewEntry(j.slice, j.target, p)]]

ProjectionForgetful(j) ==
    [source  |-> j.target,
     entries |-> [p \in Paths |-> IF p \in Kept(j) \intersect Tracked(j.slice)
                                  THEN NewEntry(j.slice, j.target, p) ELSE Untracked]]

Projection(j) ==
    [source  |-> j.target,
     entries |-> [p \in Paths |-> IF p \in Kept(j) THEN NewEntry(j.slice, j.target, p)
                                  ELSE Untracked]]

-----------------------------------------------------------------------------
Idle == job = NoJob

Quiet == [p \in Paths |-> "quiet"]

Init ==
    /\ tree = [c \in CPaths |-> NoFile]
    /\ manifest = [s \in Slices |-> [source  |-> NoRelease,
                                     entries |-> [p \in Paths |-> Untracked]]]
    /\ unreadable = {}
    /\ job = NoJob
    /\ todo = {}
    /\ report = Quiet
    /\ forecast = Quiet
    /\ dirty = {}

\* `sync --apply` from the checkout of any release: the lane itself compares
\* no versions, so a downgrade is as possible as an upgrade.  A manifest that
\* does not parse is refused before anything is looked at; no other slice's
\* manifest is read.
Begin(j) ==
    /\ Idle
    /\ j.slice \notin unreadable
    /\ job' = j
    /\ todo' = Visited(j)
    /\ report' = Quiet
    /\ forecast' = Check(j)
    /\ UNCHANGED <<tree, manifest, unreadable, dirty>>

\* One path of the apply: classify it, write it if it is to be written.
Emit(p) ==
    /\ ~Idle
    /\ p \in todo
    /\ todo' = todo \ {p}
    /\ report' = [report EXCEPT ![p] = Outcome(job, p)]
    /\ LET item == At(job.slice, job.target, p)
       IN  IF Writes(job, p)
           THEN /\ tree' = [tree EXCEPT ![item.cpath] = item.file]
                /\ dirty' = dirty \union {item.cpath}
           ELSE UNCHANGED <<tree, dirty>>
    /\ UNCHANGED <<manifest, unreadable, job, forecast>>

\* The manifest is rewritten last, from the target's surface.
WriteManifest ==
    /\ ~Idle
    /\ todo = {}
    /\ manifest' = [manifest EXCEPT ![job.slice] = Projection(job)]
    /\ dirty' = dirty \ {At(job.slice, job.target, p).cpath :
                           p \in Kept(job) \intersect Exported(job.slice, job.target)}
    /\ job' = NoJob
    /\ report' = Quiet
    /\ forecast' = Quiet
    /\ UNCHANGED <<tree, unreadable, todo>>

\* The process dies between two writes ...
Crash ==
    /\ ~Idle
    /\ job' = NoJob
    /\ todo' = {}
    /\ report' = Quiet
    /\ forecast' = Quiet
    /\ UNCHANGED <<tree, manifest, unreadable, dirty>>

\* ... or inside one, for os.WriteFile truncates before it writes: a file ...
CrashInWrite(p) ==
    /\ ~Idle
    /\ p \in todo
    /\ Writes(job, p)
    /\ LET c == At(job.slice, job.target, p).cpath
       IN  /\ tree' = [tree EXCEPT ![c] = Torn]
           /\ dirty' = dirty \union {c}
    /\ job' = NoJob
    /\ todo' = {}
    /\ report' = Quiet
    /\ forecast' = Quiet
    /\ UNCHANGED <<manifest, unreadable>>

\* Mutant: the manifest is written before the files are.
CrashInManifestFirst ==
    /\ ~Idle
    /\ unreadable' = unreadable \union {job.slice}
    /\ job' = NoJob
    /\ todo' = {}
    /\ report' = Quiet
    /\ forecast' = Quiet
    /\ UNCHANGED <<tree, manifest, dirty>>

\* ... or, with every file in place, the manifest, which no longer parses.
CrashInManifest ==
    /\ ~Idle
    /\ todo = {}
    /\ unreadable' = unreadable \union {job.slice}
    /\ job' = NoJob
    /\ report' = Quiet
    /\ forecast' = Quiet
    /\ UNCHANGED <<tree, manifest, todo, dirty>>

\* The way out of it: the consumer takes the manifest back from their repository
\* (what the last apply left, taken to be committed; its files are edits).
Restore(s) ==
    /\ Idle
    /\ s \in unreadable
    /\ unreadable' = unreadable \ {s}
    /\ UNCHANGED <<tree, manifest, job, todo, report, forecast, dirty>>

\* The consumer edits, adds or deletes a file.
ConsumerEdit(c, f) ==
    /\ Idle
    /\ tree' = [tree EXCEPT ![c] = f]
    /\ dirty' = dirty \union {c}
    /\ UNCHANGED <<manifest, unreadable, job, todo, report, forecast>>

\* The re-seed hatch: the consumer deletes an entry from the manifest.
DropEntry(s, p) ==
    /\ Idle
    /\ s \notin unreadable
    /\ p \in Tracked(s)
    /\ manifest' = [manifest EXCEPT ![s].entries[p] = Untracked]
    /\ UNCHANGED <<tree, unreadable, job, todo, report, forecast, dirty>>

Next ==
    \/ \E j \in Jobs : Begin(j)
    \/ \E p \in Paths : Emit(p)
    \/ WriteManifest
    \/ Crash
    \/ \E p \in Paths : CrashInWrite(p)
    \/ CrashInManifest
    \/ \E s \in Slices : Restore(s)
    \/ \E c \in CPaths, f \in Files \union {NoFile} : ConsumerEdit(c, f)
    \/ \E s \in Slices, p \in Paths : DropEntry(s, p)

Spec == Init /\ [][Next]_vars

-----------------------------------------------------------------------------
\* The gate.  Manifests are read in name order and the first claimant of a
\* consumer path keeps it, seed or not; seeds are not hashed.  These are the
\* verdicts of a run that gets through: one manifest that does not parse ends
\* it for every slice.
Claimed(s, p) == \E z \in Slices, q \in Paths :
                    /\ z < s
                    /\ q \in Tracked(z)
                    /\ manifest[z].entries[q].cpath = manifest[s].entries[p].cpath

Verdict(s, p) ==
    LET e == manifest[s].entries[p]
    IN  IF Claimed(s, p) THEN "collision"
        ELSE IF e.seed THEN "clean"
        ELSE IF tree[e.cpath] = NoFile THEN "removed"
        ELSE IF Digest[tree[e.cpath]] # e.sha THEN "changed" ELSE "clean"

GateGreen(s) ==
    /\ unreadable = {}
    /\ \A p \in Tracked(s) : Verdict(s, p) = "clean"

-----------------------------------------------------------------------------
\* Types: whatever is interrupted or edited, manifests record digests of offered content only.
TypeOK ==
    /\ tree \in [CPaths -> Files \union {NoFile}]
    /\ manifest \in [Slices -> [source  : Releases \union {NoRelease},
                                entries : [Paths -> Entry \union {Untracked}]]]
    /\ unreadable \subseteq Slices
    /\ job \in Jobs \union {NoJob}
    /\ todo \subseteq Paths
    /\ report \in [Paths -> Outcomes]
    /\ forecast \in [Paths -> Outcomes]
    /\ dirty \subseteq CPaths

\* Composition (INV-1) at every moment: the gate is red on a tracked path only
\* because somebody touched that file since its slice was applied - the
\* consumer, or an apply that has not reached its manifest write.
RedOnlyWhereTouched ==
    \A s \in Slices : \A p \in Tracked(s) :
        Verdict(s, p) # "clean" => manifest[s].entries[p].cpath \in dirty

\* INV-1 as the standard words it: the step that ends an apply leaves the
\* slice green, whatever the consumer or earlier crashes did to the tree, once
\* no other slice's manifest keeps the gate from giving a verdict.
ApplyEndsGreen ==
    [][\A s \in Slices : WriteManifest /\ job.slice = s /\ unreadable = {} => GateGreen(s)']_vars

\* Every entry is the one its recorded release gives that path, so a green
\* gate means the release's content and not merely a self-consistent pair.
ManifestIsProjection ==
    \A s \in Slices : \A p \in Tracked(s) :
        /\ manifest[s].source \in Releases
        /\ p \in Offered(s, manifest[s].source)
        /\ manifest[s].entries[p] = NewEntry(s, manifest[s].source, p)

\* Prediction (INV-3): although apply classifies each path against a tree it
\* has already partly rewritten, its report is the one check printed.
CheckPredictsApply == (~Idle /\ todo = {}) => report = forecast

\* Apply is pure: in whatever order it takes the paths, no step of it changes
\* what the apply makes of the tree, and it ends there.  One that dies leaves a
\* tree of which the next makes the same, except for a template torn by the
\* kill, which is taken for the consumer's.  A slice is shut to further applies
\* only by a kill in the manifest's own write, and then every file is in place:
\* the manifest restored, an apply of the same release writes no file.
ResumesWhereItDied ==
    [][\A j \in Jobs : job = j =>
          LET due   == AppliedTree(j)
              later == AppliedTree(j)'
          IN  /\ ~WriteManifest => \A c \in CPaths :
                    \/ later[c] = due[c]
                    \/ /\ tree[c] = NoFile /\ tree'[c] = Torn
                       /\ \E p \in Seeded(j.slice, j.target) \ Tracked(j.slice) :
                             At(j.slice, j.target, p).cpath = c
              /\ WriteManifest \/ j.slice \in unreadable' => tree' = due]_vars

\* Two slices never offer the same consumer path (INV-7).  No operation below
\* enforces it: an apply reads its own slice's manifest only.
DisjointSlices ==
    \A s, z \in Slices : s # z =>
        \A r, u \in Releases, p, q \in Paths :
            p \in Offered(s, r) /\ q \in Offered(z, u) => At(s, r, p).cpath # At(z, u, q).cpath

\* Check is a fixed point: right after an apply, check of the same release
\* with the same scope has nothing left to change.
ApplySettles == [][\A j \in Jobs : WriteManifest /\ job = j => ~Changed(j)']_vars

\* Scaffold-once (DR-0013): a file some manifest tracks as a seed is rewritten
\* only by a release that vendors that very path, and once deleted comes back
\* only for a template offered under another source path; the report says which.
SeedsBelongToConsumer ==
    [][~Idle => \A s \in Slices : \A p \in Tracked(s) :
          LET e == manifest[s].entries[p]
          IN  e.seed /\ tree'[e.cpath] # tree[e.cpath] =>
                \E q \in Offered(job.slice, job.target) :
                    /\ At(job.slice, job.target, q).cpath = e.cpath
                    /\ \/ /\ q \in Exported(job.slice, job.target)
                          /\ forecast[q] \in {"updated", "added"}
                       \/ /\ q \notin Tracked(job.slice)
                          /\ tree[e.cpath] = NoFile
                          /\ forecast[q] = "seeded"]_vars

\* Refresh by default (INV-4): an apply drops exactly what the release no
\* longer holds, adds only what reconciliation asked for inside the profile's
\* scope, and takes no file off the disk.
ScopeOnlyAsAsked ==
    [][\A j \in Jobs : WriteManifest /\ job = j =>
          LET before == Tracked(j.slice)
              after  == Tracked(j.slice)'
          IN  /\ before \ after = before \ Offered(j.slice, j.target)
              /\ after \ before \subseteq (IF j.reconcile THEN InScope[j.slice] ELSE {})
              /\ \A p \in before \ after : forecast[p] \in {"retired", "removed"}]_vars

=============================================================================
