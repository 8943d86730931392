---------------------------- MODULE OnboardProofs ----------------------------
(***************************************************************************)
(* Onboard for every set of slices, releases and shared lanes, whatever is *)
(* interrupted, removed in part and onboarded again: types, lockstep,      *)
(* independence of the slices and what a whole onboarding leaves.          *)
(***************************************************************************)
EXTENDS Onboard, TLAPS

\* A config lists shared lanes and its slice's own.
ConfigInv == \A s \in Slices : config[s] \in Configs => config[s].pins \subseteq Shared \union {s}

\* A listed lane of a slice that began afresh is that slice's own and at its
\* release, or names none, as long as none is vendored; the engine is at the release.
LaneInv ==
    \A s \in Slices \ over : config[s] \in Configs =>
        /\ manifest[s] \in Releases => config[s].engine \in {Blank, manifest[s]}
        /\ \A f \in config[s].pins : lane[f] # NoFile /\ lane[f].ref # Blank =>
              manifest[s] \in Releases /\ lane[f] = [owner |-> s, ref |-> manifest[s]]

\* Slices that list the same lane count as sharing it.
ShareInv ==
    \A s, z \in Slices :
        /\ s # z /\ config[s] \in Configs /\ config[z] \in Configs
        /\ config[s].pins \intersect config[z].pins # {}
        => s \in over /\ z \in over

\* The onboarding in progress is that of the config it wrote.
JobInv ==
    job # NoJob =>
        /\ config[job.slice] \in Configs
        /\ job.todo \subseteq config[job.slice].pins
        /\ config[job.slice].engine = IF job.ci THEN job.version ELSE Blank
        /\ job.pc = "seed" /\ job.slice \notin over => manifest[job.slice] = NoFile
        /\ job.pc = "vendor" => manifest[job.slice] = Blank
        /\ job.pc = "scaffold" => manifest[job.slice] = job.version

IInv == TypeOK /\ ConfigInv /\ LaneInv /\ ShareInv /\ JobInv

-----------------------------------------------------------------------------
\* No order of onboardings, failures, syncs, removals and edits leaves a file of
\* another kind.
LEMMA TypeStep == TypeOK /\ [Next]_vars => TypeOK'
<1> SUFFICES ASSUME TypeOK, [Next]_vars PROVE TypeOK'
  OBVIOUS
<1> USE OnboardConstants
<1>1. CASE UNCHANGED vars
  BY <1>1 DEF vars, TypeOK
<1>2. ASSUME NEW s \in Slices, NEW m \in Modes, NEW ci \in BOOLEAN, NEW v \in Releases,
             Begin(s, m, ci, v)
      PROVE  TypeOK'
  <2>1. CASE config' = [config EXCEPT ![s] = Torn] /\ UNCHANGED <<job, over>>
    BY <1>2, <2>1 DEF Begin, TypeOK
  <2>2. CASE /\ config' = [config EXCEPT ![s] = [mode |-> m, pins |-> Outputs(s, m, ci),
                                               engine |-> IF ci THEN v ELSE Blank]]
             /\ job' = [slice |-> s, mode |-> m, ci |-> ci, version |-> v, pc |-> "seed",
                        todo |-> Outputs(s, m, ci)]
    <3>1. Outputs(s, m, ci) \subseteq Lanes
      BY DEF Outputs, Lanes
    <3>2. /\ [mode |-> m, pins |-> Outputs(s, m, ci), engine |-> IF ci THEN v ELSE Blank] \in Configs
          /\ [slice |-> s, mode |-> m, ci |-> ci, version |-> v, pc |-> "seed",
              todo |-> Outputs(s, m, ci)] \in Jobs
      BY <3>1 DEF Configs, Jobs
    <3>3. over' \subseteq Slices
      BY <1>2 DEF Begin, TypeOK, Listing
    <3> QED BY <1>2, <2>2, <3>2, <3>3 DEF Begin, TypeOK
  <2> QED BY <1>2, <2>1, <2>2 DEF Begin, TypeOK
<1>3. CASE Seed \/ Vendor
  BY <1>3 DEF Seed, Vendor, TypeOK, Jobs
<1>4. ASSUME NEW f \in Lanes, Scaffold(f) PROVE TypeOK'
  <2>1. job \in Jobs
    BY <1>4 DEF Scaffold, TypeOK
  <2>2. Fresh \in Rendered
    BY <2>1 DEF Fresh, Rendered, Jobs
  <2> QED BY <1>4, <2>1, <2>2 DEF Scaffold, TypeOK, Jobs
<1>5. CASE Launch \/ Stop
  BY <1>5 DEF Launch, Stop, TypeOK
<1>6. CASE StopInWrite
  <2>1. job \in Jobs /\ Foreign \in Rendered
    BY <1>6 DEF StopInWrite, TypeOK, Foreign, Rendered
  <2>2. /\ UNCHANGED <<config, count, over>> /\ job' = NoJob
        /\ \/ manifest' = [manifest EXCEPT ![job.slice] = Torn] /\ UNCHANGED <<lane, launcher>>
           \/ (\E f : lane' = [lane EXCEPT ![f] = Foreign]) /\ UNCHANGED <<manifest, launcher>>
           \/ launcher' = "torn" /\ UNCHANGED <<manifest, lane>>
    BY <1>6 DEF StopInWrite
  <2> QED BY <2>1, <2>2 DEF TypeOK, Jobs
<1>7. ASSUME NEW s \in Slices, NEW v \in Releases, Sync(s, v) PROVE TypeOK'
  <2>1. config' \in [Slices -> Configs \union {NoFile, Torn}]
    <3>1. config[s] \in Configs
      BY <1>7 DEF Sync
    <3>2. [config[s] EXCEPT !.engine = v] \in Configs
      BY <3>1 DEF Configs
    <3>3. config' = config \/ config' = [config EXCEPT ![s] = [config[s] EXCEPT !.engine = v]]
      BY <1>7 DEF Sync
    <3> QED BY <3>2, <3>3 DEF TypeOK
  <2>2. ASSUME NEW f \in Lanes PROVE Advanced(s, v)[f] \in Rendered \union {NoFile}
    BY DEF Advanced, TypeOK, Rendered
  <2>3. Advanced(s, v) \in [Lanes -> Rendered \union {NoFile}]
    BY <2>2 DEF Advanced
  <2> QED BY <1>7, <2>1, <2>3 DEF Sync, TypeOK
<1>8. ASSUME NEW s \in Slices, Reset(s) PROVE TypeOK'
  BY <1>8 DEF Reset, TypeOK
<1>9. CASE EditLauncher \/ \E f \in Lanes : EditLane(f)
  <2>1. Foreign \in Rendered
    BY DEF Foreign, Rendered
  <2> QED BY <1>9, <2>1 DEF EditLauncher, EditLane, TypeOK
<1> QED BY <1>1, <1>2, <1>3, <1>4, <1>5, <1>6, <1>7, <1>8, <1>9 DEF Next

\* Config, manifest and lanes keep their kinds (the conjuncts of TypeOK) in every
\* state, whatever is interrupted, removed in part and onboarded again.
THEOREM TypesHold == Spec => []TypeOK
<1>1. Init => TypeOK
  BY OnboardConstants DEF Init, TypeOK
<1> QED BY <1>1, TypeStep, PTL DEF Spec

-----------------------------------------------------------------------------
\* Nothing is installed at first.
LEMMA InitInv == Init => IInv
<1> SUFFICES ASSUME Init PROVE IInv
  OBVIOUS
<1> USE OnboardConstants DEF Init
<1>1. TypeOK
  BY DEF TypeOK
<1>2. ConfigInv /\ LaneInv /\ ShareInv /\ JobInv
  BY DEF ConfigInv, LaneInv, ShareInv, JobInv
<1> QED BY <1>1, <1>2 DEF IInv

\* A new config, whole or torn, is written where there was none; an onboarding
\* that finds nothing of the slice starts afresh.
LEMMA BeginInv ==
    ASSUME IInv, TypeOK',
           NEW s \in Slices, NEW mode \in Modes, NEW ci \in BOOLEAN, NEW v \in Releases,
           Begin(s, mode, ci, v)
    PROVE  IInv'
<1> USE OnboardConstants DEF IInv
<1>1. /\ job = NoJob /\ config[s] = NoFile
      /\ UNCHANGED <<manifest, lane>>
      /\ \A z \in Slices \ {s} : config'[z] = config[z]
  BY DEF Begin, TypeOK
<1>2. CASE config' = [config EXCEPT ![s] = Torn] /\ UNCHANGED <<job, over>>
  <2>1. config'[s] \notin Configs
    BY <1>2 DEF TypeOK
  <2>2. ConfigInv' /\ LaneInv' /\ ShareInv'
    BY <1>1, <1>2, <2>1 DEF ConfigInv, LaneInv, ShareInv
  <2>3. JobInv'
    BY <1>1, <1>2 DEF JobInv
  <2> QED BY <2>2, <2>3
<1> DEFINE outputs == Outputs(s, mode, ci)
<1>3. CASE /\ config' = [config EXCEPT ![s] = [mode |-> mode, pins |-> outputs,
                                             engine |-> IF ci THEN v ELSE Blank]]
           /\ job' = [slice |-> s, mode |-> mode, ci |-> ci, version |-> v, pc |-> "seed",
                      todo |-> outputs]
           /\ over' = (over \ {s}) \union Listing(outputs)
                         \union (IF Remains(s, outputs) THEN {s} ELSE {})
  <2>1. /\ config'[s] = [mode |-> mode, pins |-> outputs, engine |-> IF ci THEN v ELSE Blank]
        /\ outputs \subseteq Shared \union {s} /\ outputs \subseteq Lanes
        /\ config'[s] \in Configs
    BY <1>3 DEF TypeOK, Configs, Outputs, Lanes
  <2>2. ConfigInv'
    BY <1>1, <2>1 DEF ConfigInv
  <2> HIDE DEF outputs
  <2>3. \A z \in Slices \ {s} : z \notin over' => z \notin over
    BY <1>3
  <2>4. s \notin over' => /\ manifest[s] = NoFile
                         /\ \A f \in outputs : lane[f] = NoFile \/ lane[f].ref = Blank
    BY <1>3 DEF Remains
  <2>5. LaneInv'
    <3> SUFFICES ASSUME NEW z \in Slices, z \notin over', config'[z] \in Configs
                 PROVE  /\ manifest'[z] \in Releases => config'[z].engine \in {Blank, manifest'[z]}
                        /\ \A f \in config'[z].pins : lane'[f] # NoFile /\ lane'[f].ref # Blank =>
                              /\ manifest'[z] \in Releases
                              /\ lane'[f] = [owner |-> z, ref |-> manifest'[z]]
      BY DEF LaneInv
    <3>1. CASE z = s
      BY <1>1, <2>1, <2>4, <3>1
    <3>2. CASE z # s
      BY <1>1, <2>3, <3>2 DEF LaneInv
    <3> QED BY <3>1, <3>2
  <2>6. ShareInv'
    <3> SUFFICES ASSUME NEW y \in Slices, NEW z \in Slices, y # z,
                        config'[y] \in Configs, config'[z] \in Configs,
                        config'[y].pins \intersect config'[z].pins # {}
                 PROVE  y \in over' /\ z \in over'
      BY DEF ShareInv
    <3>1. ASSUME NEW x \in Slices \ {s}, config[x] \in Configs,
                 config[x].pins \intersect outputs # {}
          PROVE  x \in over' /\ s \in over'
      <4>1. x \in Listing(outputs)
        BY <3>1 DEF Listing
      <4>2. Remains(s, outputs)
        BY <4>1 DEF Remains
      <4> QED BY <1>3, <4>1, <4>2
    <3>2. CASE y = s
      BY <1>1, <2>1, <3>1, <3>2
    <3>3. CASE z = s
      BY <1>1, <2>1, <3>1, <3>3
    <3>4. CASE y # s /\ z # s
      BY <1>1, <1>3, <3>4 DEF ShareInv
    <3> QED BY <3>2, <3>3, <3>4
  <2>7. JobInv'
    BY <1>1, <1>3, <2>1, <2>4 DEF JobInv
  <2> QED BY <2>2, <2>5, <2>6, <2>7
<1> QED BY <1>2, <1>3 DEF Begin

\* Until the onboarding has vendored, no lane that a fresh slice lists names a
\* release, and a manifest that is there ends it.
LEMMA SeedVendorInv == ASSUME IInv, TypeOK', Seed \/ Vendor PROVE IInv'
<1> USE OnboardConstants DEF IInv
<1> DEFINE s == job.slice
<1>1. /\ job # NoJob /\ job \in Jobs /\ s \in Slices /\ job.version \in Releases
      /\ config[s] \in Configs
      /\ manifest[s] \notin Releases
      /\ UNCHANGED <<config, lane, over>>
      /\ \A z \in Slices \ {s} : manifest'[z] = manifest[z]
  BY DEF Seed, Vendor, TypeOK, JobInv, Jobs
<1>2. ConfigInv' /\ ShareInv'
  BY <1>1 DEF ConfigInv, ShareInv
<1>3. /\ manifest'[s] \in Releases => manifest'[s] = job.version
      /\ config[s].engine \in {Blank, job.version}
  BY <1>1 DEF Seed, Vendor, TypeOK, JobInv
<1>4. LaneInv'
  <2> SUFFICES ASSUME NEW z \in Slices, z \notin over, config[z] \in Configs
               PROVE  /\ manifest'[z] \in Releases => config[z].engine \in {Blank, manifest'[z]}
                      /\ \A f \in config[z].pins : lane[f] # NoFile /\ lane[f].ref # Blank =>
                            /\ manifest'[z] \in Releases
                            /\ lane[f] = [owner |-> z, ref |-> manifest'[z]]
    BY <1>1 DEF LaneInv
  <2>1. CASE z = s
    BY <1>1, <1>3, <2>1 DEF LaneInv
  <2>2. CASE z # s
    BY <1>1, <2>2 DEF LaneInv
  <2> QED BY <2>1, <2>2
<1>5. JobInv'
  BY <1>1 DEF JobInv, Seed, Vendor, TypeOK, Jobs
<1> QED BY <1>2, <1>4, <1>5

\* A lane is rendered at the release just vendored; no fresh slice but the
\* onboarded one lists it.
LEMMA ScaffoldInv == ASSUME IInv, TypeOK', NEW f \in Lanes, Scaffold(f) PROVE IInv'
<1> USE OnboardConstants DEF IInv
<1> DEFINE s == job.slice
<1>1. /\ job # NoJob /\ job \in Jobs /\ s \in Slices /\ job.version \in Releases
      /\ f \in config[s].pins /\ config[s] \in Configs
      /\ manifest[s] = job.version
      /\ UNCHANGED <<config, manifest, over>>
  BY DEF Scaffold, TypeOK, JobInv, Jobs
<1>2. \A g \in Lanes : lane'[g] = lane[g] \/ (g = f /\ lane'[g] = Fresh)
  BY DEF Scaffold, TypeOK
<1>3. ConfigInv' /\ ShareInv'
  BY <1>1 DEF ConfigInv, ShareInv
<1>4. LaneInv'
  <2> SUFFICES ASSUME NEW z \in Slices, z \notin over, config[z] \in Configs,
                      NEW g \in config[z].pins, lane'[g] # NoFile, lane'[g].ref # Blank
               PROVE  manifest[z] \in Releases /\ lane'[g] = [owner |-> z, ref |-> manifest[z]]
    BY <1>1 DEF LaneInv
  <2>1. g \in Lanes
    BY DEF Configs
  <2>2. CASE lane'[g] = lane[g]
    BY <2>2 DEF LaneInv
  <2>3. CASE g = f /\ lane'[g] = Fresh
    <3>1. z = s
      BY <1>1, <2>3 DEF ShareInv
    <3> QED BY <1>1, <2>3, <3>1 DEF Fresh
  <2> QED BY <1>2, <2>1, <2>2, <2>3
<1>5. JobInv'
  BY <1>1 DEF Scaffold, JobInv, Jobs
<1> QED BY <1>3, <1>4, <1>5

\* An onboarding may end anywhere.
LEMMA EndInv == ASSUME IInv, TypeOK', Launch \/ Stop PROVE IInv'
<1>1. UNCHANGED <<config, manifest, lane, over>> /\ job' = NoJob
  BY DEF Launch, Stop
<1>2. ConfigInv' /\ LaneInv' /\ ShareInv' /\ JobInv'
  BY <1>1 DEF IInv, ConfigInv, LaneInv, ShareInv, JobInv
<1> QED BY <1>2 DEF IInv

\* What a write leaves when it dies names no release: an empty manifest, lane or launcher.
LEMMA StopInWriteInv == ASSUME IInv, TypeOK', StopInWrite PROVE IInv'
<1> USE OnboardConstants DEF IInv
<1> DEFINE s == job.slice
<1>1. /\ job # NoJob /\ job \in Jobs /\ s \in Slices /\ job' = NoJob
      /\ UNCHANGED <<config, over>> /\ job.todo \subseteq Lanes
  BY DEF StopInWrite, TypeOK, Jobs
<1>2. ConfigInv' /\ ShareInv' /\ JobInv'
  BY <1>1 DEF ConfigInv, ShareInv, JobInv
<1>3. CASE /\ job.pc = "vendor" \/ (job.pc = "seed" /\ manifest[s] = NoFile)
           /\ manifest' = [manifest EXCEPT ![s] = Torn]
           /\ UNCHANGED <<lane, launcher>>
  <2>1. /\ manifest[s] \notin Releases /\ manifest'[s] \notin Releases
        /\ \A z \in Slices \ {s} : manifest'[z] = manifest[z]
    BY <1>1, <1>3 DEF TypeOK, JobInv
  <2>2. LaneInv'
    <3> SUFFICES ASSUME NEW z \in Slices, z \notin over, config[z] \in Configs
                 PROVE  /\ manifest'[z] \in Releases => config[z].engine \in {Blank, manifest'[z]}
                        /\ \A f \in config[z].pins : lane[f] # NoFile /\ lane[f].ref # Blank =>
                              /\ manifest'[z] \in Releases
                              /\ lane[f] = [owner |-> z, ref |-> manifest'[z]]
      BY <1>1, <1>3 DEF LaneInv
    <3>1. CASE z = s
      BY <2>1, <3>1 DEF LaneInv
    <3>2. CASE z # s
      BY <2>1, <3>2 DEF LaneInv
    <3> QED BY <3>1, <3>2
  <2> QED BY <1>2, <2>2
<1>4. ASSUME NEW f \in Lanes, lane' = [lane EXCEPT ![f] = Foreign],
             UNCHANGED <<manifest, launcher>>
      PROVE  IInv'
  <2>1. \A g \in Lanes : lane'[g] = lane[g] \/ lane'[g].ref = Blank
    BY <1>4 DEF TypeOK, Foreign
  <2>2. \A z \in Slices : config[z] \in Configs => config[z].pins \subseteq Lanes
    BY DEF Configs
  <2>3. LaneInv'
    BY <1>1, <1>4, <2>1, <2>2 DEF LaneInv
  <2> QED BY <1>2, <2>3
<1>5. CASE launcher' = "torn" /\ UNCHANGED <<manifest, lane>>
  <2>1. LaneInv'
    BY <1>1, <1>5 DEF LaneInv
  <2> QED BY <1>2, <2>1
<1> QED BY <1>1, <1>3, <1>4, <1>5 DEF StopInWrite

\* The lanes after a sync: those it lists at its release follow it, the others stay.
LEMMA SyncLanes ==
    ASSUME IInv, NEW s \in Slices, NEW v \in Releases, Sync(s, v), NEW f \in Lanes
    PROVE  \/ lane'[f] = lane[f] /\ (f \in config[s].pins /\ lane[f] # NoFile => lane[f].ref # manifest[s])
           \/ /\ f \in config[s].pins /\ lane[f] # NoFile /\ lane[f].ref = manifest[s]
              /\ lane'[f] = [owner |-> lane[f].owner, ref |-> v]
<1>1. /\ lane'[f] = IF f \in config[s].pins /\ lane[f] # NoFile /\ lane[f].ref = manifest[s]
                    THEN [lane[f] EXCEPT !.ref = v] ELSE lane[f]
      /\ lane[f] \in Rendered \union {NoFile}
  BY DEF Sync, Pinned, Advanced, IInv, TypeOK
<1> QED BY <1>1 DEF Rendered

\* A sync keeps lanes, config and manifest of a fresh slice together, and moves
\* no lane that another fresh slice lists.
LEMMA SyncInv == ASSUME IInv, TypeOK', NEW s \in Slices, NEW v \in Releases, Sync(s, v) PROVE IInv'
<1> USE OnboardConstants DEF IInv
<1>1. /\ config[s] \in Configs /\ manifest[s] \in Releases
      /\ job = NoJob /\ job' = NoJob /\ over' = over
      /\ manifest'[s] = v /\ \A z \in Slices \ {s} : manifest'[z] = manifest[z]
  BY DEF Sync, TypeOK
<1>2. /\ config'[s] \in Configs /\ config'[s].pins = config[s].pins
      /\ config'[s].engine \in {Blank, v}
      /\ \A z \in Slices \ {s} : config'[z] = config[z]
  BY <1>1 DEF Sync, TypeOK, Configs
<1>3. ConfigInv' /\ ShareInv' /\ JobInv'
  BY <1>1, <1>2 DEF ConfigInv, ShareInv, JobInv
<1>4. LaneInv'
  <2> SUFFICES ASSUME NEW z \in Slices, z \notin over, config'[z] \in Configs
               PROVE  /\ manifest'[z] \in Releases => config'[z].engine \in {Blank, manifest'[z]}
                      /\ \A f \in config'[z].pins : lane'[f] # NoFile /\ lane'[f].ref # Blank =>
                            /\ manifest'[z] \in Releases
                            /\ lane'[f] = [owner |-> z, ref |-> manifest'[z]]
    BY <1>1 DEF LaneInv
  <2>1. config[z] \in Configs /\ config'[z].pins = config[z].pins /\ config[z].pins \subseteq Lanes
    BY <1>1, <1>2 DEF Configs
  <2>2. CASE z = s
    <3>1. ASSUME NEW f \in config[s].pins, lane'[f] # NoFile, lane'[f].ref # Blank
          PROVE  lane'[f] = [owner |-> s, ref |-> v]
      <4>1. CASE lane'[f] = lane[f] /\ (f \in config[s].pins /\ lane[f] # NoFile => lane[f].ref # manifest[s])
        <5>1. lane[f] = [owner |-> s, ref |-> manifest[s]]
          BY <2>1, <2>2, <3>1, <4>1 DEF LaneInv
        <5>2. lane[f].ref = manifest[s]
          BY <5>1
        <5> QED BY <3>1, <4>1, <5>2
      <4>2. CASE /\ lane[f] # NoFile /\ lane[f].ref = manifest[s]
                 /\ lane'[f] = [owner |-> lane[f].owner, ref |-> v]
        <5>1. lane[f] = [owner |-> s, ref |-> manifest[s]]
          BY <1>1, <2>1, <2>2, <4>2 DEF LaneInv
        <5>2. lane[f].owner = s
          BY <5>1
        <5> QED BY <4>2, <5>2
      <4> QED BY <2>1, <2>2, <4>1, <4>2, SyncLanes
    <3> QED BY <1>1, <1>2, <2>1, <2>2, <3>1
  <2>3. CASE z # s
    <3>1. \A f \in config[z].pins : lane'[f] = lane[f]
      <4> SUFFICES ASSUME NEW f \in config[z].pins PROVE lane'[f] = lane[f]
        OBVIOUS
      <4>1. f \notin config[s].pins
        BY <1>1, <2>1, <2>3 DEF ShareInv
      <4> QED BY <2>1, <4>1, SyncLanes
    <3> QED BY <1>1, <1>2, <2>1, <2>3, <3>1 DEF LaneInv
  <2> QED BY <2>2, <2>3
<1> QED BY <1>3, <1>4

\* A removal, complete or not, ends what is claimed of the slice; to the others
\* it takes nothing but lanes.
LEMMA ResetInv == ASSUME IInv, TypeOK', NEW s \in Slices, Reset(s) PROVE IInv'
<1> USE OnboardConstants DEF IInv
<1>1. /\ config'[s] = NoFile /\ job = NoJob /\ job' = NoJob /\ over' = over
      /\ \A z \in Slices \ {s} : config'[z] = config[z] /\ manifest'[z] = manifest[z]
  BY DEF Reset, TypeOK
<1>2. \A f \in Lanes : lane'[f] # NoFile => lane'[f] = lane[f]
  BY DEF Reset
<1>3. ConfigInv' /\ ShareInv' /\ JobInv'
  BY <1>1 DEF ConfigInv, ShareInv, JobInv
<1>4. \A z \in Slices : config[z] \in Configs => config[z].pins \subseteq Lanes
  BY DEF Configs
<1>5. LaneInv'
  BY <1>1, <1>2, <1>4 DEF LaneInv
<1> QED BY <1>3, <1>5

\* What the consumer writes itself names no release of ours.
LEMMA EditInv == ASSUME IInv, TypeOK', (\E f \in Lanes : EditLane(f)) \/ EditLauncher PROVE IInv'
<1> USE OnboardConstants DEF IInv
<1>1. UNCHANGED <<config, manifest, job, over>>
  BY DEF EditLane, EditLauncher
<1>2. \A g \in Lanes : lane'[g] = lane[g] \/ lane'[g] = NoFile \/ lane'[g].ref = Blank
  BY DEF EditLane, EditLauncher, TypeOK, Foreign
<1>3. ConfigInv' /\ ShareInv' /\ JobInv'
  BY <1>1 DEF ConfigInv, ShareInv, JobInv
<1>4. \A z \in Slices : config[z] \in Configs => config[z].pins \subseteq Lanes
  BY DEF Configs
<1>5. LaneInv'
  BY <1>1, <1>2, <1>4 DEF LaneInv
<1> QED BY <1>3, <1>5

\* Every step preserves the invariant.
LEMMA NextInv == IInv /\ [Next]_vars => IInv'
<1> SUFFICES ASSUME IInv, [Next]_vars PROVE IInv'
  OBVIOUS
<1>1. TypeOK'
  BY TypeStep DEF IInv
<1>2. CASE UNCHANGED vars
  BY <1>1, <1>2 DEF vars, IInv, ConfigInv, LaneInv, ShareInv, JobInv
<1>3. CASE Next
  BY <1>1, <1>3, BeginInv, SeedVendorInv, ScaffoldInv, EndInv, StopInWriteInv, SyncInv, ResetInv,
     EditInv DEF Next
<1> QED BY <1>2, <1>3

-----------------------------------------------------------------------------
\* Types and the strengthening hold in every state of Onboard.
THEOREM Invariance == Spec => []IInv
<1>1. Init => IInv
  BY InitInv
<1>2. IInv /\ [Next]_vars => IInv'
  BY NextInv
<1> QED BY <1>1, <1>2, PTL DEF Spec

\* INV-6 for every set of slices and releases, whatever onboardings are
\* interrupted, refused, repeated, shared and synced and whatever a removal leaves:
\* the engine pin and the listed lanes of a slice that began with nothing of its
\* own there, and shares no lane, name the release that is vendored or none.
THEOREM Lockstep == Spec => []LanesInLockstep
<1>1. IInv => LanesInLockstep
  <2> SUFFICES ASSUME IInv, NEW s \in Slices \ over, config[s] \in Configs, manifest[s] \in Releases
               PROVE  /\ config[s].engine \in {Blank, manifest[s]}
                      /\ \A f \in config[s].pins : lane[f] # NoFile => lane[f].ref \in {Blank, manifest[s]}
    BY DEF LanesInLockstep, InLockstep
  <2>1. config[s].engine \in {Blank, manifest[s]}
    BY DEF IInv, LaneInv
  <2>2. ASSUME NEW f \in config[s].pins, lane[f] # NoFile, lane[f].ref # Blank
        PROVE  lane[f].ref = manifest[s]
    <3>1. lane[f] = [owner |-> s, ref |-> manifest[s]]
      BY <2>2 DEF IInv, LaneInv
    <3> QED BY <3>1
  <2> QED BY <2>1, <2>2
<1>2. Spec => []IInv
  BY Invariance
<1> QED BY <1>1, <1>2, PTL

-----------------------------------------------------------------------------
\* An onboarding writes its own lane and the shared ones that are missing, a
\* removal takes the lanes its slice rendered, and a sync of a fresh slice moves
\* no others.
LEMMA StepApart ==
    ASSUME IInv, Next, NEW s \in Slices, NEW z \in Slices, s # z,
           manifest'[s] # manifest[s] \/ (job # NoJob /\ job.slice = s)
    PROVE  /\ manifest'[z] = manifest[z]
           /\ config'[z] = config[z]
           /\ \A f \in Lanes \ {s} :
                 lane[f] # NoFile /\ lane[f].owner # s /\ (job = NoJob => s \notin over)
                     => lane'[f] = lane[f]
<1> USE OnboardConstants
<1>1. CASE job # NoJob
  <2>1. /\ job \in Jobs /\ job.slice = s
        /\ config[s] \in Configs /\ job.todo \subseteq Shared \union {s}
    <3>1. \/ Seed \/ Vendor \/ Launch \/ Stop \/ StopInWrite
          \/ \E f \in Lanes : Scaffold(f)
      BY <1>1 DEF Next, Begin, Sync, Reset, EditLane, EditLauncher
    <3>2. UNCHANGED config /\ \A y \in Slices \ {job.slice} : manifest'[y] = manifest[y]
      BY <3>1 DEF Seed, Vendor, Launch, Stop, StopInWrite, Scaffold, IInv, TypeOK
    <3>3. job \in Jobs /\ job.slice \in Slices /\ config[job.slice] \in Configs
      BY <1>1 DEF IInv, TypeOK, JobInv, Jobs
    <3>4. job.slice = s
      BY <3>2, <3>3
    <3>5. job.todo \subseteq Shared \union {s}
      BY <1>1, <3>3, <3>4 DEF IInv, JobInv, ConfigInv
    <3> QED BY <3>3, <3>4, <3>5
  <2>2. CASE Seed \/ Vendor
    BY <2>1, <2>2 DEF Seed, Vendor, IInv, TypeOK
  <2>3. CASE Launch \/ Stop
    BY <2>3 DEF Launch, Stop
  <2>4. ASSUME NEW g \in Lanes, Scaffold(g)
        PROVE  /\ UNCHANGED <<config, manifest>>
               /\ \A f \in Lanes \ {s} : lane[f] # NoFile => lane'[f] = lane[f]
    <3>1. g \in Shared \/ g = s
      BY <2>1, <2>4 DEF Scaffold
    <3> QED BY <2>4, <3>1 DEF Scaffold, IInv, TypeOK
  <2>5. CASE StopInWrite
    <3>1. UNCHANGED config
      BY <2>5 DEF StopInWrite
    <3>2. manifest'[z] = manifest[z]
      BY <2>1, <2>5 DEF StopInWrite, IInv, TypeOK
    <3>3. ASSUME NEW f \in Lanes \ {s}, lane[f] # NoFile PROVE lane'[f] = lane[f]
      <4>1. CASE UNCHANGED lane
        BY <4>1
      <4>2. CASE \E g \in job.todo : /\ g \in Shared => lane[g] = NoFile
                                     /\ lane' = [lane EXCEPT ![g] = Foreign]
        BY <2>1, <3>3, <4>2 DEF IInv, TypeOK
      <4> QED BY <2>5, <4>1, <4>2 DEF StopInWrite
    <3> QED BY <3>1, <3>2, <3>3
  <2> QED
    BY <1>1, <2>2, <2>3, <2>4, <2>5 DEF Next, Begin, Sync, Reset, EditLane, EditLauncher
<1>2. CASE job = NoJob
  <2>1. PICK y \in Slices : Reset(y) \/ \E v \in Releases : Sync(y, v)
    BY <1>2 DEF Next, Begin, Seed, Vendor, Scaffold, Launch, Stop, StopInWrite, EditLane, EditLauncher
  <2>2. /\ y = s
        /\ manifest'[z] = manifest[z]
        /\ config'[z] = config[z]
    BY <1>2, <2>1 DEF Reset, Sync, IInv, TypeOK
  <2>3. CASE Reset(s)
    BY <2>2, <2>3 DEF Reset
  <2>4. ASSUME NEW v \in Releases, Sync(s, v), NEW f \in Lanes,
               lane[f] # NoFile, lane[f].owner # s, s \notin over
        PROVE  lane'[f] = lane[f]
    <3>1. config[s] \in Configs /\ manifest[s] \in Releases /\ manifest[s] # Blank
      BY <2>4, OnboardConstants DEF Sync
    <3>2. ASSUME f \in config[s].pins, lane[f].ref = manifest[s] PROVE lane[f].owner = s
      <4>1. lane[f] = [owner |-> s, ref |-> manifest[s]]
        BY <2>4, <3>1, <3>2 DEF IInv, LaneInv
      <4> QED BY <4>1
    <3> QED BY <2>4, <3>2, SyncLanes
  <2> QED BY <1>2, <2>1, <2>2, <2>3, <2>4
<1> QED BY <1>1, <1>2

\* For every set of slices, primary or not: no onboarding, sync or removal of one
\* slice, finished or not, changes another's config or manifest, nor its lanes, but
\* for a sync that lists them because it began over them or shares them.
THEOREM NeighboursUntouched == Spec => SlicesApart
<1>1. IInv /\ [Next]_vars =>
        [\A s, z \in Slices :
            s # z /\ (manifest'[s] # manifest[s] \/ (job # NoJob /\ job.slice = s)) =>
              /\ manifest'[z] = manifest[z]
              /\ config'[z] = config[z]
              /\ \A f \in Lanes \ {s} :
                    lane[f] # NoFile /\ lane[f].owner # s /\ (job = NoJob => s \notin over)
                        => lane'[f] = lane[f]]_vars
  BY StepApart
<1>2. Spec => []IInv
  BY Invariance
<1> QED BY <1>1, <1>2, PTL DEF Spec, SlicesApart

-----------------------------------------------------------------------------
\* The lanes that are no longer to be scaffolded are in place, the slice's own
\* as the release renders it.
PlacedInv ==
    job # NoJob =>
        LET s == job.slice
            placed == config[s].pins \ job.todo
        IN  /\ job.ci => s \in config[s].pins
            /\ job.pc # "scaffold" => placed = {}
            /\ \A f \in placed : lane[f] # NoFile
            /\ s \in placed => lane[s] = Fresh

\* Nothing deletes a lane while an onboarding runs.
LEMMA PlacedStep == ASSUME IInv, PlacedInv, [Next]_vars PROVE PlacedInv'
<1> USE OnboardConstants
<1>1. CASE job = NoJob /\ job' # NoJob
  <2>1. PICK s \in Slices, m \in Modes, ci \in BOOLEAN, v \in Releases : Begin(s, m, ci, v)
    BY <1>1 DEF Next, vars, Seed, Vendor, Scaffold, Launch, Stop, StopInWrite, Sync, Reset,
                EditLane, EditLauncher
  <2>2. /\ config'[s].pins = Outputs(s, m, ci)
        /\ job'.slice = s /\ job'.ci = ci /\ job'.todo = Outputs(s, m, ci)
    BY <1>1, <2>1 DEF Begin, IInv, TypeOK
  <2> QED BY <2>2 DEF PlacedInv, Outputs
<1>2. CASE job' = NoJob
  BY <1>2 DEF PlacedInv
<1>3. CASE job # NoJob /\ job' # NoJob
  <2>1. Seed \/ Vendor \/ (\E f \in Lanes : Scaffold(f)) \/ UNCHANGED vars
    BY <1>3 DEF Next, Begin, Launch, Stop, StopInWrite, Sync, Reset, EditLane, EditLauncher
  <2>2. job \in Jobs /\ job.slice \in Slices /\ config[job.slice] \in Configs
    BY <1>3 DEF IInv, TypeOK, JobInv, Jobs
  <2>3. CASE UNCHANGED vars
    BY <2>3 DEF vars, PlacedInv, Fresh
  <2>4. CASE Seed \/ Vendor
    <3>1. /\ job'.slice = job.slice /\ job'.ci = job.ci /\ job'.todo = job.todo
          /\ UNCHANGED <<config, lane>> /\ job.pc # "scaffold"
      BY <2>2, <2>4 DEF Seed, Vendor, Jobs
    <3>2. /\ job.ci => job.slice \in config[job.slice].pins
          /\ config[job.slice].pins \ job.todo = {}
      BY <1>3, <3>1 DEF PlacedInv
    <3> QED BY <3>1, <3>2 DEF PlacedInv
  <2>5. ASSUME NEW f \in Lanes, Scaffold(f) PROVE PlacedInv'
    <3>1. /\ job'.slice = job.slice /\ job'.ci = job.ci /\ job'.todo = job.todo \ {f}
          /\ job'.pc = "scaffold" /\ job'.version = job.version
          /\ UNCHANGED config
      BY <2>2, <2>5 DEF Scaffold, Jobs
    <3>2. /\ lane'[f] # NoFile
          /\ f = job.slice => lane'[f] = Fresh
          /\ \A g \in Lanes \ {f} : lane'[g] = lane[g]
      BY <2>2, <2>5 DEF Scaffold, IInv, TypeOK, Fresh, Rendered, Jobs
    <3>3. config[job.slice].pins \subseteq Lanes /\ Fresh' = Fresh
      BY <2>2, <3>1 DEF Configs, Fresh
    <3> QED BY <1>3, <3>1, <3>2, <3>3 DEF PlacedInv
  <2> QED BY <2>1, <2>3, <2>4, <2>5
<1> QED BY <1>1, <1>2, <1>3

\* An onboarding that reaches its end leaves every lane its config lists, its own
\* at the release the manifest records, and a launcher, whatever it found.
THEOREM EndsReady == Spec => CompleteIsReady
<1> DEFINE Ready ==
      /\ manifest'[job.slice] = job.version
      /\ \A f \in config'[job.slice].pins : lane'[f] # NoFile
      /\ job.ci => /\ job.slice \in config'[job.slice].pins
                   /\ lane'[job.slice] = [owner |-> job.slice, ref |-> job.version]
                   /\ config'[job.slice].engine = job.version
      /\ launcher' # NoFile
<1>1. IInv /\ PlacedInv /\ [Next]_vars => [Launch => Ready]_vars
  <2> SUFFICES ASSUME IInv, PlacedInv, Launch PROVE Ready
    OBVIOUS
  <2>1. /\ UNCHANGED <<config, manifest, lane>> /\ job # NoJob /\ job.pc = "scaffold"
        /\ job.todo = {}
        /\ launcher' # NoFile
    BY OnboardConstants DEF Launch
  <2> QED BY <2>1 DEF IInv, JobInv, PlacedInv, Fresh
<1>2. Spec => []IInv
  BY Invariance
<1>3. Init => PlacedInv
  BY DEF Init, PlacedInv
<1>4. IInv /\ PlacedInv /\ [Next]_vars => PlacedInv'
  BY PlacedStep
<1> QED BY <1>1, <1>2, <1>3, <1>4, PTL DEF Spec, CompleteIsReady

=============================================================================
