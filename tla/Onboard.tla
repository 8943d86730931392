------------------------------- MODULE Onboard -------------------------------
(***************************************************************************)
(* Onboarding slices into one consumer repository, and what their later    *)
(* syncs do to the lanes it scaffolds.                                     *)
(*                                                                         *)
(* `vendkit init` writes the slice config, an empty manifest, the vendored *)
(* files, the lanes and the launcher, one after the other and in place, so *)
(* it may end between any two of them.  A slice that has a config cannot   *)
(* be onboarded again before somebody removes that, and the onboarding is  *)
(* refused a second time, with the new config written, while the manifest  *)
(* is still there.  The primary slice renders the shared lanes (gate,      *)
(* watch, conformance, fetch), every slice its sync lane; the config lists *)
(* the lanes whose pin lines a sync advances, whoever rendered them.       *)
(***************************************************************************)
EXTENDS Versions

CONSTANTS
    Slices,
    Releases,       \* every publisher's releases
    Shared,         \* the lanes scaffolded for the primary slice only
    MaxResets,      \* bound: slices removed by hand
    MaxEdits,       \* bound: lanes and launchers written or deleted by hand
    Torn, Blank, NoFile, NoJob, NoSlice

\* A slice's sync lane goes by the slice's name.
Lanes == Shared \union Slices

Modes    == {"primary", "additive"}
Configs  == [mode : Modes, pins : SUBSET Lanes, engine : Releases \union {Blank}]
Rendered == [owner : Slices \union {NoSlice}, ref : Releases \union {Blank}]
Jobs     == [slice : Slices, mode : Modes, ci : BOOLEAN, version : Releases,
             pc : {"seed", "vendor", "scaffold"}, todo : SUBSET Lanes]

ASSUME OnboardConstants ==
    /\ Releases \subseteq VersionKey
    /\ Shared \intersect Slices = {}
    /\ MaxResets \in Nat /\ MaxEdits \in Nat
    /\ {Torn, Blank, NoFile} \intersect Releases = {}
    /\ NoFile \notin {Blank, "released", "own", "torn"} /\ NoSlice \notin Slices
    /\ {NoFile, Torn} \intersect Configs = {}
    /\ NoFile \notin Rendered /\ NoJob \notin Jobs

VARIABLES
    config,    \* slice configs under .vendkit/consumer
    manifest,  \* the release each slice's manifest records
    lane,      \* who rendered a lane, and the release its pin lines name
    launcher,  \* vendkitw
    job,       \* the onboarding in progress
    count,     \* resets and edits so far (bounded)
    over       \* history: slices onboarded over what was there before

vars == <<config, manifest, lane, launcher, job, count, over>>

\* The lanes of one onboarding, which are also its pin files; under ci: none there are none.
Outputs(s, mode, ci) == IF ~ci THEN {} ELSE IF mode = "primary" THEN Shared \union {s} ELSE {s}

\* The slices whose config lists one of these lanes.
Listing(outputs) == {z \in Slices : config[z] \in Configs /\ config[z].pins \intersect outputs # {}}

\* What an onboarding of s finds there: its manifest, lanes that name a release,
\* lanes that another slice lists.
Remains(s, outputs) ==
    \/ manifest[s] # NoFile
    \/ \E f \in outputs : lane[f] # NoFile /\ lane[f].ref # Blank
    \/ Listing(outputs) # {}

\* Every command loads every slice config, and refuses them all if one is broken.
Readable == \A s \in Slices : config[s] # Torn

Init ==
    /\ config = [s \in Slices |-> NoFile]
    /\ manifest = [s \in Slices |-> NoFile]
    /\ lane = [f \in Lanes |-> NoFile]
    /\ launcher = NoFile
    /\ job = NoJob
    /\ count = [resets |-> 0, edits |-> 0]
    /\ over = {}

-----------------------------------------------------------------------------
\* The slice config comes first; a write that dies leaves it empty.
Begin(s, mode, ci, v) ==
    /\ job = NoJob
    /\ config[s] = NoFile
    /\ \/ /\ config' = [config EXCEPT ![s] =
                          [mode |-> mode, pins |-> Outputs(s, mode, ci),
                           engine |-> IF ci THEN v ELSE Blank]]
          /\ job' = [slice |-> s, mode |-> mode, ci |-> ci, version |-> v, pc |-> "seed",
                     todo |-> Outputs(s, mode, ci)]
          /\ over' = (over \ {s}) \union Listing(Outputs(s, mode, ci))
                        \union (IF Remains(s, Outputs(s, mode, ci)) THEN {s} ELSE {})
       \/ /\ config' = [config EXCEPT ![s] = Torn]
          /\ UNCHANGED <<job, over>>
    /\ UNCHANGED <<manifest, lane, launcher, count>>

\* An empty manifest; one that is there ends the onboarding with the config written.
Seed ==
    /\ job # NoJob
    /\ job.pc = "seed"
    /\ manifest[job.slice] = NoFile
    /\ manifest' = [manifest EXCEPT ![job.slice] = Blank]
    /\ job' = [job EXCEPT !.pc = "vendor"]
    /\ UNCHANGED <<config, lane, launcher, count, over>>

\* Materialise the release; the manifest records it at the end.
Vendor ==
    /\ job # NoJob
    /\ job.pc = "vendor"
    /\ Readable
    /\ manifest' = [manifest EXCEPT ![job.slice] = job.version]
    /\ job' = [job EXCEPT !.pc = "scaffold"]
    /\ UNCHANGED <<config, lane, launcher, count, over>>

\* Mutant: the placeholder of the version is left in.
FreshRaw == [owner |-> job.slice, ref |-> Torn]

Fresh == [owner |-> job.slice, ref |-> job.version]

\* Mutants: a shared lane that exists is rendered again; an existing sync lane is kept.
ScaffoldOver(f) ==
    /\ job # NoJob
    /\ job.pc = "scaffold"
    /\ f \in job.todo
    /\ lane' = [lane EXCEPT ![f] = Fresh]
    /\ job' = [job EXCEPT !.todo = @ \ {f}]
    /\ UNCHANGED <<config, manifest, launcher, count, over>>

ScaffoldMissing(f) ==
    /\ job # NoJob
    /\ job.pc = "scaffold"
    /\ f \in job.todo
    /\ lane' = IF lane[f] # NoFile THEN lane ELSE [lane EXCEPT ![f] = Fresh]
    /\ job' = [job EXCEPT !.todo = @ \ {f}]
    /\ UNCHANGED <<config, manifest, launcher, count, over>>

\* A lane: an existing shared one stays as it is, an existing sync lane does not.
Scaffold(f) ==
    /\ job # NoJob
    /\ job.pc = "scaffold"
    /\ f \in job.todo
    /\ lane' = IF f \in Shared /\ lane[f] # NoFile THEN lane ELSE [lane EXCEPT ![f] = Fresh]
    /\ job' = [job EXCEPT !.todo = @ \ {f}]
    /\ UNCHANGED <<config, manifest, launcher, count, over>>

\* The launcher, written where there is none, ends the onboarding (the stanza
\* in CODEOWNERS, appended where it is missing, is left out).
Launch ==
    /\ job # NoJob
    /\ job.pc = "scaffold"
    /\ job.todo = {}
    /\ launcher' = IF launcher = NoFile THEN "released" ELSE launcher
    /\ job' = NoJob
    /\ UNCHANGED <<config, manifest, lane, count, over>>

\* Any step may fail; what was written stays.
Stop ==
    /\ job # NoJob
    /\ job' = NoJob
    /\ UNCHANGED <<config, manifest, lane, launcher, count, over>>

\* A file that a write left empty, or one of the consumer's own: it names no release.
Foreign == [owner |-> NoSlice, ref |-> Blank]

\* A write that dies leaves its file empty.
StopInWrite ==
    /\ job # NoJob
    /\ job' = NoJob
    /\ \/ /\ job.pc = "vendor" \/ (job.pc = "seed" /\ manifest[job.slice] = NoFile)
          /\ manifest' = [manifest EXCEPT ![job.slice] = Torn]
          /\ UNCHANGED <<lane, launcher>>
       \/ /\ job.pc = "scaffold"
          /\ \E f \in job.todo :
                /\ f \in Shared => lane[f] = NoFile
                /\ lane' = [lane EXCEPT ![f] = Foreign]
          /\ UNCHANGED <<manifest, launcher>>
       \/ /\ job.pc = "scaffold" /\ job.todo = {} /\ launcher = NoFile
          /\ launcher' = "torn"
          /\ UNCHANGED <<manifest, lane>>
    /\ UNCHANGED <<config, count, over>>

-----------------------------------------------------------------------------
\* What the lane runs against: the manifest's release, or for an empty manifest
\* the pin; but then the probe finds nothing tracked and the run ends.
Pinned(s) == manifest[s]

\* Mutant: only the sync lane's pin line is advanced.
AdvancedOwn(s, target) ==
    [f \in Lanes |-> IF f = s /\ lane[f] # NoFile /\ lane[f].ref = Pinned(s)
                     THEN [lane[f] EXCEPT !.ref = target] ELSE lane[f]]

\* The pin lines of the listed lanes that name the pinned release, whoever
\* rendered them.
Advanced(s, target) ==
    [f \in Lanes |-> IF f \in config[s].pins /\ lane[f] # NoFile /\ lane[f].ref = Pinned(s)
                     THEN [lane[f] EXCEPT !.ref = target] ELSE lane[f]]

\* A merged sync PR.
Sync(s, target) ==
    /\ job = NoJob
    /\ Readable
    /\ config[s] \in Configs
    /\ manifest[s] \in Releases
    /\ Less(Pinned(s), target)
    /\ manifest' = [manifest EXCEPT ![s] = target]
    /\ lane' = Advanced(s, target)
    /\ config' = IF config[s].engine = Blank THEN config
                 ELSE [config EXCEPT ![s].engine = target]
    /\ UNCHANGED <<launcher, job, count, over>>

-----------------------------------------------------------------------------
\* Somebody removes a slice, to onboard it again or for good: its config, and
\* perhaps its manifest and the lanes it rendered.
Reset(s) ==
    /\ job = NoJob
    /\ config[s] # NoFile
    /\ count.resets < MaxResets
    /\ count' = [count EXCEPT !.resets = @ + 1]
    /\ config' = [config EXCEPT ![s] = NoFile]
    /\ manifest' \in {manifest, [manifest EXCEPT ![s] = NoFile]}
    /\ lane' \in {lane, [f \in Lanes |-> IF lane[f] # NoFile /\ lane[f].owner = s
                                         THEN NoFile ELSE lane[f]]}
    /\ UNCHANGED <<launcher, job, over>>

\* The consumer deletes a lane, or writes one of its own; likewise the launcher.
EditLane(f) ==
    /\ job = NoJob
    /\ count.edits < MaxEdits
    /\ count' = [count EXCEPT !.edits = @ + 1]
    /\ lane' = [lane EXCEPT ![f] = IF @ = NoFile THEN Foreign ELSE NoFile]
    /\ UNCHANGED <<config, manifest, launcher, job, over>>

EditLauncher ==
    /\ job = NoJob
    /\ count.edits < MaxEdits
    /\ count' = [count EXCEPT !.edits = @ + 1]
    /\ launcher' = IF launcher = NoFile THEN "own" ELSE NoFile
    /\ UNCHANGED <<config, manifest, lane, job, over>>

Next ==
    \/ \E s \in Slices, m \in Modes, ci \in BOOLEAN, v \in Releases :
          Begin(s, m, ci, v)
    \/ Seed
    \/ Vendor
    \/ \E f \in Lanes : Scaffold(f)
    \/ Launch
    \/ Stop
    \/ StopInWrite
    \/ \E s \in Slices, v \in Releases : Sync(s, v)
    \/ \E s \in Slices : Reset(s)
    \/ \E f \in Lanes : EditLane(f)
    \/ EditLauncher

Spec == Init /\ [][Next]_vars

-----------------------------------------------------------------------------
\* Types, with the bounds: no interruption leaves a config or manifest of a third kind.
TypeOK ==
    /\ config \in [Slices -> Configs \union {NoFile, Torn}]
    /\ manifest \in [Slices -> Releases \union {NoFile, Blank, Torn}]
    /\ lane \in [Lanes -> Rendered \union {NoFile}]
    /\ launcher \in {NoFile, "released", "own", "torn"}
    /\ job \in Jobs \union {NoJob}
    /\ count \in [resets : 0..MaxResets, edits : 0..MaxEdits]
    /\ over \subseteq Slices

InLockstep(s) ==
    config[s] \in Configs /\ manifest[s] \in Releases =>
        /\ config[s].engine \in {Blank, manifest[s]}
        /\ \A f \in config[s].pins : lane[f] # NoFile => lane[f].ref \in {Blank, manifest[s]}

\* INV-6 over a consumer's life, whatever is interrupted, removed, onboarded again,
\* shared and synced: the engine pin of a slice, and every lane its config lists
\* that names a release (one torn by a kill or written by the consumer names none),
\* name the manifest's.  The slices it is not true of began over a manifest or lanes
\* that were there, or share a lane with one that began later.
LanesInLockstep == \A s \in Slices \ over : InLockstep(s)

\* A slice keeps to itself: its onboarding, syncs and removal leave the other
\* slices' configs and manifests alone, its onboarding the lanes of others that it
\* finds, and so do its syncs unless it began over what was there or shares a lane.
SlicesApart ==
    [][\A s, z \in Slices :
          s # z /\ (manifest'[s] # manifest[s] \/ (job # NoJob /\ job.slice = s)) =>
              /\ manifest'[z] = manifest[z]
              /\ config'[z] = config[z]
              /\ \A f \in Lanes \ {s} :
                    lane[f] # NoFile /\ lane[f].owner # s /\ (job = NoJob => s \notin over)
                        => lane'[f] = lane[f]]_vars

\* An onboarding that gets to its end leaves what the lanes start from: every
\* lane listed as a pin file exists, the authoritative one and the engine pin name
\* the release the manifest records, and the launcher is there.
CompleteIsReady ==
    [][Launch =>
          /\ manifest'[job.slice] = job.version
          /\ \A f \in config'[job.slice].pins : lane'[f] # NoFile
          /\ job.ci => /\ job.slice \in config'[job.slice].pins
                       /\ lane'[job.slice] = [owner |-> job.slice, ref |-> job.version]
                       /\ config'[job.slice].engine = job.version
          /\ launcher' # NoFile]_vars

-----------------------------------------------------------------------------
\* What the documentation says, and the code does not do.

\* All committed references to the publisher move together (INV-6).
ReferencesMoveTogether == \A s \in Slices : InLockstep(s)

=============================================================================
