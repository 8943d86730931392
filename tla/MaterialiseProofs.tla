------------------------- MODULE MaterialiseProofs -------------------------
(***************************************************************************)
(* Invariance proofs for Materialise, for every set of slices, releases,   *)
(* paths and files.                                                        *)
(***************************************************************************)
EXTENDS Refinement, TLAPS

\* An apply in flight: what it has passed is reported as forecast and, where
\* vendored, on disk; what it has not come to still classifies as forecast.
JobInv ==
    ~Idle =>
        /\ todo \subseteq Visited(job)
        /\ job.slice \notin unreadable
        /\ \A p \in todo : Outcome(job, p) = forecast[p]
        /\ \A p \in Paths \ todo : report[p] = forecast[p]
        /\ \A p \in (Visited(job) \ todo) \intersect Exported(job.slice, job.target) :
              tree[At(job.slice, job.target, p).cpath] = At(job.slice, job.target, p).file

\* A vendored entry whose file nobody touched hashes to what it records.
CleanInv ==
    \A s \in Slices : \A p \in Tracked(s) :
        LET e == manifest[s].entries[p]
        IN  \/ e.seed
            \/ e.cpath \in dirty
            \/ /\ tree[e.cpath] # NoFile
               /\ Digest[tree[e.cpath]] = e.sha

IInv == TypeOK /\ ManifestIsProjection /\ JobInv

-----------------------------------------------------------------------------
\* What a release says of a path is well-typed (a consequence of ConstantsOK).
LEMMA AtType ==
    ASSUME NEW s \in Slices, NEW r \in Releases, NEW p \in Paths
    PROVE  /\ At(s, r, p) \in Item
           /\ At(s, r, p).class \in Classes
           /\ At(s, r, p).cpath \in CPaths
           /\ At(s, r, p).file \in Files
           /\ NewEntry(s, r, p) \in Entry
           /\ NewEntry(s, r, p) # Untracked
<1>1. At(s, r, p) \in Item
  BY ConstantsOK DEF At
<1>2. /\ At(s, r, p).class \in Classes
      /\ At(s, r, p).cpath \in CPaths
      /\ At(s, r, p).file \in Files
  BY <1>1 DEF Item
<1>3. NewEntry(s, r, p) \in Entry
  BY <1>2 DEF NewEntry, Entry, Digests
<1> QED
  BY <1>1, <1>2, <1>3, ConstantsOK

\* The entry an emit records holds the offered file's place and digests.
LEMMA NewEntryFields ==
    ASSUME NEW s, NEW r, NEW p
    PROVE  /\ NewEntry(s, r, p).cpath = At(s, r, p).cpath
           /\ NewEntry(s, r, p).sha = Digest[At(s, r, p).file]
           /\ NewEntry(s, r, p).seed <=> At(s, r, p).class = "seeded"
BY DEF NewEntry

\* Every path of an apply gets one of the outcomes the report knows.
LEMMA OutcomeType ==
    ASSUME NEW j \in Jobs, NEW p \in Paths
    PROVE  Outcome(j, p) \in Outcomes
<1>1. At(j.slice, j.target, p).class \in Classes
  BY AtType DEF Jobs
<1> QED
  BY <1>1 DEF Outcome, Outcomes, Classes

\* Only a path the target release offers has its file written.
LEMMA WritesOffered ==
    ASSUME NEW j \in Jobs, NEW p \in Paths, Writes(j, p)
    PROVE  p \in Offered(j.slice, j.target)
<1>1. At(j.slice, j.target, p).class \in Classes
  BY AtType DEF Jobs
<1> QED
  BY <1>1 DEF Writes, Outcome, Classes, Offered, Exported, Seeded

\* Writing one path's file leaves the classification of every other path as
\* it was, because a release maps no two of its paths to one place.
LEMMA OutcomeStable ==
    ASSUME NEW p \in Paths, NEW q \in Paths, p # q,
           job \in Jobs, TypeOK,
           p \in Offered(job.slice, job.target),
           NEW f,
           tree' = [tree EXCEPT ![At(job.slice, job.target, p).cpath] = f],
           UNCHANGED <<job, manifest>>
    PROVE  Outcome(job, q)' = Outcome(job, q)
<1> DEFINE c == At(job.slice, job.target, p).cpath
           item == At(job.slice, job.target, q)
<1>1. /\ item.class \in Classes
      /\ item.cpath \in CPaths
  BY AtType DEF Jobs
<1>2. item.class # "none" => item.cpath # c
  BY NoCollisionInSlice DEF At, Offered, Exported, Seeded, Jobs
<1>3. item.class # "none" => tree'[item.cpath] = tree[item.cpath]
  BY <1>1, <1>2 DEF TypeOK
<1>4. At(job.slice, job.target, q)' = item
  BY DEF At
<1> QED
  BY <1>1, <1>3, <1>4 DEF Outcome, Classes

-----------------------------------------------------------------------------
\* The empty repository satisfies the invariant.
LEMMA InitInv == Init => IInv
<1> SUFFICES ASSUME Init PROVE IInv
  OBVIOUS
<1>1. TypeOK
  BY DEF Init, TypeOK, Quiet, Outcomes
<1>2. ManifestIsProjection
  BY DEF Init, ManifestIsProjection, Tracked
<1>3. JobInv
  BY DEF Init, JobInv, Idle
<1> QED
  BY <1>1, <1>2, <1>3 DEF IInv

\* Opening an apply fixes its forecast and its agenda, and disturbs nothing else.
LEMMA BeginInv == ASSUME IInv, NEW j \in Jobs, Begin(j) PROVE IInv'
<1> USE DEF IInv
<1>1. \A p \in Paths : Check(j)[p] \in Outcomes
  BY OutcomeType DEF Check, Outcomes
<1>2. TypeOK'
  <2>1. Check(j) \in [Paths -> Outcomes]
    BY <1>1 DEF Check
  <2>2. Visited(j) \subseteq Paths
    BY DEF Visited, Tracked, Candidates, Offered, Exported, Seeded
  <2>3. Quiet \in [Paths -> Outcomes]
    BY DEF Quiet, Outcomes
  <2> QED
    BY <2>1, <2>2, <2>3 DEF Begin, TypeOK
<1>3. ManifestIsProjection'
  BY DEF Begin, ManifestIsProjection, Tracked
<1>4. JobInv'
  <2>1. job' = j /\ todo' = Visited(j) /\ forecast' = Check(j) /\ report' = Quiet
    BY DEF Begin
  <2>2. Visited(job)' = Visited(j)
    BY <2>1 DEF Begin, Visited, Tracked, Candidates
  <2>3. \A p \in todo' : Outcome(job, p)' = forecast'[p]
    <3> SUFFICES ASSUME NEW p \in todo' PROVE Outcome(job, p)' = forecast'[p]
      OBVIOUS
    <3>1. Outcome(job, p)' = Outcome(j, p)
      BY DEF Begin, Outcome, At
    <3>2. p \in Visited(j) /\ p \in Paths
      BY <2>1, <1>2 DEF TypeOK
    <3> QED
      BY <2>1, <3>1, <3>2 DEF Check
  <2>4. \A p \in Paths \ todo' : report'[p] = forecast'[p]
    BY <2>1 DEF Quiet, Check
  <2> QED
    BY <2>1, <2>2, <2>3, <2>4 DEF JobInv, Begin
<1> QED
  BY <1>2, <1>3, <1>4

\* Emitting one path keeps report, forecast and agenda in step: the one place
\* where a write could have changed what a later path gets.
LEMMA EmitInv == ASSUME IInv, NEW p \in Paths, Emit(p) PROVE IInv'
<1> USE DEF IInv
<1> DEFINE item == At(job.slice, job.target, p)
<1>1. job \in Jobs /\ ~Idle /\ p \in todo
  BY DEF Emit, TypeOK, Idle
<1>2. item.cpath \in CPaths /\ item.file \in Files /\ Outcome(job, p) \in Outcomes
  BY <1>1, AtType, OutcomeType DEF Jobs
<1>3. UNCHANGED <<manifest, unreadable, job, forecast>> /\ todo' = todo \ {p}
      /\ report' = [report EXCEPT ![p] = Outcome(job, p)]
  BY DEF Emit
<1>4. \/ /\ Writes(job, p)
         /\ tree' = [tree EXCEPT ![item.cpath] = item.file]
         /\ dirty' = dirty \union {item.cpath}
      \/ /\ ~Writes(job, p)
         /\ UNCHANGED <<tree, dirty>>
  BY DEF Emit
<1>5. TypeOK'
  BY <1>2, <1>3, <1>4 DEF TypeOK
<1>6. ManifestIsProjection'
  BY <1>3 DEF ManifestIsProjection, Tracked
<1>7. \A q \in Paths \ {p} : Outcome(job, q)' = Outcome(job, q)
  <2> SUFFICES ASSUME NEW q \in Paths \ {p} PROVE Outcome(job, q)' = Outcome(job, q)
    OBVIOUS
  <2>1. CASE Writes(job, p)
    <3>1. p \in Offered(job.slice, job.target)
      BY <2>1, <1>1, WritesOffered
    <3>2. tree' = [tree EXCEPT ![At(job.slice, job.target, p).cpath] = item.file]
      BY <2>1, <1>4
    <3> QED
      BY <3>1, <3>2, <1>1, <1>3, OutcomeStable
  <2>2. CASE ~Writes(job, p)
    BY <2>2, <1>3, <1>4 DEF Outcome, At
  <2> QED
    BY <2>1, <2>2
<1>8. JobInv'
  <2>1. Visited(job)' = Visited(job)
    BY <1>3 DEF Visited, Tracked, Candidates
  <2>2. \A q \in todo' : Outcome(job, q)' = forecast'[q]
    BY <1>1, <1>3, <1>7 DEF JobInv, TypeOK
  <2>3. \A q \in Paths \ todo' : report'[q] = forecast'[q]
    BY <1>1, <1>3 DEF JobInv, TypeOK
  <2>4. \A q \in (Visited(job)' \ todo') \intersect Exported(job.slice, job.target) :
           tree'[At(job.slice, job.target, q).cpath] = At(job.slice, job.target, q).file
    <3> SUFFICES ASSUME NEW q \in (Visited(job) \ todo') \intersect Exported(job.slice, job.target)
                 PROVE tree'[At(job.slice, job.target, q).cpath] = At(job.slice, job.target, q).file
      BY <2>1
    <3>1. q \in Paths /\ At(job.slice, job.target, q).class = "exported"
          /\ At(job.slice, job.target, q).cpath \in CPaths
      BY <1>1, AtType DEF Exported, Jobs
    <3>2. CASE q = p
      BY <3>1, <3>2, <1>2, <1>4 DEF Writes, Outcome, TypeOK
    <3>3. CASE q # p
      <4>1. tree[At(job.slice, job.target, q).cpath] = At(job.slice, job.target, q).file
        BY <3>3, <1>1, <1>3 DEF JobInv
      <4>2. Writes(job, p) => At(job.slice, job.target, q).cpath # item.cpath
        BY <3>1, <3>3, <1>1, WritesOffered, NoCollisionInSlice
        DEF Offered, Exported, Seeded, At, Jobs
      <4> QED
        BY <4>1, <4>2, <3>1, <1>2, <1>4 DEF TypeOK
    <3> QED
      BY <3>2, <3>3
  <2> QED
    BY <1>1, <1>3, <2>1, <2>2, <2>3, <2>4 DEF JobInv
<1> QED
  BY <1>5, <1>6, <1>8

\* The rewritten manifest projects the target release again, pruned or not.
LEMMA WriteManifestInv == ASSUME IInv, WriteManifest PROVE IInv'
<1> USE DEF IInv
<1> DEFINE s == job.slice
           r == job.target
           new == [p \in Paths |-> IF p \in Kept(job) THEN NewEntry(s, r, p) ELSE Untracked]
<1>1. job \in Jobs /\ s \in Slices /\ r \in Releases
  BY DEF WriteManifest, Projection, TypeOK, Idle, Jobs
<1>2. manifest' = [manifest EXCEPT ![s] = [source |-> r, entries |-> new]]
  BY DEF WriteManifest, Projection
<1>3. new \in [Paths -> Entry \union {Untracked}]
  BY <1>1, AtType
<1>4. TypeOK'
  <2>1. dirty' \subseteq CPaths /\ job' = NoJob /\ UNCHANGED <<tree, unreadable, todo>>
        /\ report' = Quiet /\ forecast' = Quiet
    BY DEF WriteManifest, Projection, TypeOK
  <2>2. Quiet \in [Paths -> Outcomes]
    BY DEF Quiet, Outcomes
  <2>3. manifest' \in [Slices -> [source : Releases \union {NoRelease},
                                  entries : [Paths -> Entry \union {Untracked}]]]
    BY <1>1, <1>2, <1>3 DEF TypeOK
  <2> QED
    BY <2>1, <2>2, <2>3 DEF TypeOK
<1>5. ManifestIsProjection'
  <2> SUFFICES ASSUME NEW z \in Slices, NEW p \in Tracked(z)'
               PROVE (/\ manifest[z].source \in Releases
                      /\ p \in Offered(z, manifest[z].source)
                      /\ manifest[z].entries[p] = NewEntry(z, manifest[z].source, p))'
    BY DEF ManifestIsProjection
  <2>1. p \in Paths /\ manifest'[z].entries[p] # Untracked
    BY DEF Tracked
  <2>2. CASE z = s
    <3>1. manifest'[z].source = r /\ manifest'[z].entries = new
      BY <2>2, <1>1, <1>2 DEF TypeOK
    <3>2. p \in Kept(job)
      BY <2>1, <3>1
    <3>3. p \in Offered(s, r)
      BY <3>2 DEF Kept
    <3>4. new[p] = NewEntry(s, r, p)
      BY <2>1, <3>2
    <3> QED
      BY <1>1, <2>2, <3>1, <3>3, <3>4 DEF Offered, Exported, Seeded, At, NewEntry
  <2>3. CASE z # s
    <3>1. manifest'[z] = manifest[z]
      BY <2>3, <1>1, <1>2 DEF TypeOK
    <3>2. p \in Tracked(z)
      BY <2>1, <3>1 DEF Tracked
    <3> QED
      BY <3>1, <3>2 DEF ManifestIsProjection, Offered, Exported, Seeded, At, NewEntry
  <2> QED
    BY <2>2, <2>3
<1>6. JobInv'
  BY DEF WriteManifest, Projection, JobInv, Idle
<1> QED
  BY <1>4, <1>5, <1>6

\* An apply that dies leaves the manifest it found, or one nobody can read.
LEMMA CrashInv ==
    ASSUME IInv, Crash \/ CrashInManifest \/ \E p \in Paths : CrashInWrite(p)
    PROVE  IInv'
<1> USE DEF IInv
<1>0. Quiet \in [Paths -> Outcomes]
  BY DEF Quiet, Outcomes
<1>1. CASE Crash
  BY <1>0, <1>1 DEF Crash, TypeOK, ManifestIsProjection, Tracked, JobInv, Idle
<1>2. CASE \E p \in Paths : CrashInWrite(p)
  <2> PICK p \in Paths : CrashInWrite(p)
    BY <1>2
  <2>1. At(job.slice, job.target, p).cpath \in CPaths
    BY AtType DEF CrashInWrite, TypeOK, Idle, Jobs
  <2>2. TypeOK'
    BY <1>0, <2>1, ConstantsOK DEF CrashInWrite, TypeOK
  <2>3. ManifestIsProjection'
    BY DEF CrashInWrite, ManifestIsProjection, Tracked
  <2>4. JobInv'
    BY DEF CrashInWrite, JobInv, Idle
  <2> QED
    BY <2>2, <2>3, <2>4
<1>3. CASE CrashInManifest
  <2>1. job.slice \in Slices
    BY <1>3 DEF CrashInManifest, TypeOK, Idle, Jobs
  <2> QED
    BY <1>0, <1>3, <2>1 DEF CrashInManifest, TypeOK, ManifestIsProjection, Tracked, JobInv, Idle
<1> QED
  BY <1>1, <1>2, <1>3

\* A consumer's edit, a dropped entry or a restored manifest happens between
\* applies only.
LEMMA ConsumerInv ==
    ASSUME IInv,
           \/ \E c \in CPaths, f \in Files \union {NoFile} : ConsumerEdit(c, f)
           \/ \E s \in Slices, p \in Paths : DropEntry(s, p)
           \/ \E s \in Slices : Restore(s)
    PROVE  IInv'
<1> USE DEF IInv
<1>1. CASE \E c \in CPaths, f \in Files \union {NoFile} : ConsumerEdit(c, f)
  <2> PICK c \in CPaths, f \in Files \union {NoFile} : ConsumerEdit(c, f)
    BY <1>1
  <2>1. TypeOK'
    BY DEF ConsumerEdit, TypeOK
  <2>2. ManifestIsProjection' /\ JobInv'
    BY DEF ConsumerEdit, ManifestIsProjection, Tracked, JobInv, Idle
  <2> QED
    BY <2>1, <2>2
<1>2. CASE \E s \in Slices, p \in Paths : DropEntry(s, p)
  <2> PICK s \in Slices, p \in Paths : DropEntry(s, p)
    BY <1>2
  <2>1. manifest' = [manifest EXCEPT ![s].entries[p] = Untracked]
    BY DEF DropEntry
  <2>2. TypeOK'
    BY <2>1 DEF DropEntry, TypeOK
  <2>3. ManifestIsProjection'
    BY <2>1 DEF TypeOK, ManifestIsProjection, Tracked
  <2>4. JobInv'
    BY DEF DropEntry, JobInv, Idle
  <2> QED
    BY <2>2, <2>3, <2>4
<1>3. CASE \E s \in Slices : Restore(s)
  BY <1>3 DEF Restore, TypeOK, ManifestIsProjection, Tracked, JobInv, Idle
<1> QED
  BY <1>1, <1>2, <1>3

\* Every step keeps the invariant.
LEMMA NextInv == IInv /\ [Next]_vars => IInv'
<1> SUFFICES ASSUME IInv, [Next]_vars PROVE IInv'
  OBVIOUS
<1>1. ASSUME NEW j \in Jobs, Begin(j) PROVE IInv'
  BY <1>1, BeginInv
<1>2. ASSUME NEW p \in Paths, Emit(p) PROVE IInv'
  BY <1>2, EmitInv
<1>3. CASE WriteManifest
  BY <1>3, WriteManifestInv
<1>4. CASE Crash \/ CrashInManifest \/ \E p \in Paths : CrashInWrite(p)
  BY <1>4, CrashInv
<1>5. CASE \/ \E c \in CPaths, f \in Files \union {NoFile} : ConsumerEdit(c, f)
           \/ \E s \in Slices, p \in Paths : DropEntry(s, p)
           \/ \E s \in Slices : Restore(s)
  BY <1>5, ConsumerInv
<1>6. CASE UNCHANGED vars
  BY <1>6 DEF vars, IInv, TypeOK, ManifestIsProjection, Tracked, JobInv, Idle, Visited,
              Candidates, Outcome, Exported
<1> QED
  BY <1>1, <1>2, <1>3, <1>4, <1>5, <1>6 DEF Next

\* The inductive invariant the results below are read from.
THEOREM Invariance == Spec => []IInv
BY InitInv, NextInv, PTL DEF Spec

-----------------------------------------------------------------------------
\* The state keeps its types (the conjuncts of TypeOK), whatever the releases
\* hold and wherever an apply dies.
THEOREM TypeCorrect == Spec => []TypeOK
BY Invariance, PTL DEF IInv

\* Every manifest entry is the projection of the recorded release onto its
\* path: no crash, downgrade, dropped entry or profile leaves a manifest that
\* mixes two releases (Materialise step 4 rewrites every entry it keeps).
THEOREM ProjectionHolds == Spec => []ManifestIsProjection
BY Invariance, PTL DEF IInv

\* The report apply gives is the one check printed from the same state (INV-3),
\* for any surface: apply's own writes never change how a later path classifies.
THEOREM Prediction == Spec => []CheckPredictsApply
<1>1. IInv => CheckPredictsApply
  <2> SUFFICES ASSUME IInv, ~Idle, todo = {} PROVE report = forecast
    BY DEF CheckPredictsApply
  <2>1. \A p \in Paths : report[p] = forecast[p]
    BY DEF IInv, JobInv
  <2> QED
    BY <2>1 DEF IInv, TypeOK
<1> QED
  BY <1>1, Invariance, PTL

-----------------------------------------------------------------------------
\* Nothing is tracked at first, so nothing is red.
LEMMA CleanInit == Init => CleanInv
BY DEF Init, CleanInv, Tracked

\* Writing any one file marks its path, so every other entry stays clean.
LEMMA CleanWrite ==
    ASSUME TypeOK, CleanInv, NEW c \in CPaths, NEW f,
           tree' = [tree EXCEPT ![c] = f],
           dirty' = dirty \union {c},
           UNCHANGED manifest
    PROVE  CleanInv'
<1> SUFFICES ASSUME NEW s \in Slices, NEW p \in Tracked(s)
             PROVE LET e == manifest[s].entries[p]
                   IN  \/ e.seed
                       \/ e.cpath \in dirty'
                       \/ /\ tree'[e.cpath] # NoFile
                          /\ Digest[tree'[e.cpath]] = e.sha
  BY DEF CleanInv, Tracked
<1> DEFINE e == manifest[s].entries[p]
<1>1. e.cpath \in CPaths
  BY DEF TypeOK, Tracked, Entry
<1>2. e.cpath # c => tree'[e.cpath] = tree[e.cpath]
  BY <1>1 DEF TypeOK
<1>3. e.seed \/ e.cpath \in dirty \/ (tree[e.cpath] # NoFile /\ Digest[tree[e.cpath]] = e.sha)
  BY DEF CleanInv
<1> QED
  BY <1>2, <1>3

\* Every step keeps untouched entries clean, and finishes an apply green.
LEMMA CleanNext ==
    ASSUME DisjointSlices, IInv, IInv', CleanInv, [Next]_vars
    PROVE  CleanInv'
<1> USE DEF IInv
<1>1. ASSUME NEW j \in Jobs, Begin(j) PROVE CleanInv'
  BY <1>1 DEF Begin, CleanInv, Tracked
<1>2. ASSUME NEW p \in Paths, Emit(p) PROVE CleanInv'
  <2>1. At(job.slice, job.target, p).cpath \in CPaths
    BY <1>2, AtType DEF Emit, TypeOK, Idle, Jobs
  <2> QED
    BY <1>2, <2>1, CleanWrite DEF Emit, CleanInv, Tracked
<1>3. CASE WriteManifest
  <2> DEFINE s == job.slice
             r == job.target
  <2>1. job \in Jobs /\ s \in Slices /\ r \in Releases /\ ~Idle /\ todo = {}
    BY <1>3 DEF WriteManifest, Projection, TypeOK, Idle, Jobs
  <2>2. UNCHANGED tree
    BY <1>3 DEF WriteManifest, Projection
  <2> SUFFICES ASSUME NEW z \in Slices, NEW p \in Tracked(z)'
               PROVE LET e == manifest'[z].entries[p]
                     IN  \/ e.seed
                         \/ e.cpath \in dirty'
                         \/ /\ tree[e.cpath] # NoFile
                            /\ Digest[tree[e.cpath]] = e.sha
    BY <2>2 DEF CleanInv
  <2>3. p \in Paths /\ manifest'[z].entries[p] # Untracked
    BY DEF Tracked
  <2>4. CASE z = s
    <3>1. p \in Kept(job) /\ manifest'[z].entries[p] = NewEntry(s, r, p)
      BY <1>3, <2>1, <2>3, <2>4 DEF WriteManifest, Projection, TypeOK
    <3>2. At(s, r, p).class \in {"exported", "seeded"}
      BY <3>1, <2>3 DEF Kept, Offered, Exported, Seeded
    <3>3. At(s, r, p).class = "exported" => tree[At(s, r, p).cpath] = At(s, r, p).file
      BY <2>1, <2>3, <3>1 DEF JobInv, Kept, Exported
    <3>4. At(s, r, p).file \in Files
      BY <2>1, <2>3, AtType
    <3> QED
      BY <3>1, <3>2, <3>3, <3>4, NewEntryFields, ConstantsOK
  <2>5. CASE z # s
    <3>1. manifest'[z] = manifest[z]
      BY <1>3, <2>1, <2>5 DEF WriteManifest, Projection, TypeOK
    <3>2. p \in Tracked(z)
      BY <2>3, <3>1 DEF Tracked
    <3>3. /\ p \in Offered(z, manifest[z].source)
          /\ manifest[z].source \in Releases
          /\ manifest[z].entries[p].cpath = At(z, manifest[z].source, p).cpath
      BY <3>2, NewEntryFields DEF ManifestIsProjection
    <3>4. \A q \in Paths : q \in Exported(s, r) =>
             At(s, r, q).cpath # manifest[z].entries[p].cpath
      BY <2>1, <2>3, <2>5, <3>3 DEF DisjointSlices, Offered
    <3>5. manifest[z].entries[p].cpath \in dirty => manifest[z].entries[p].cpath \in dirty'
      BY <1>3, <3>4 DEF WriteManifest, Projection, Exported
    <3> QED
      BY <3>1, <3>2, <3>5 DEF CleanInv
  <2> QED
    BY <2>4, <2>5
<1>4. CASE Crash \/ CrashInManifest \/ \E s \in Slices : Restore(s)
  BY <1>4 DEF Crash, CrashInManifest, Restore, CleanInv, Tracked
<1>5. ASSUME NEW p \in Paths, CrashInWrite(p) PROVE CleanInv'
  <2>1. At(job.slice, job.target, p).cpath \in CPaths
    BY <1>5, AtType DEF CrashInWrite, TypeOK, Idle, Jobs
  <2> QED
    BY <1>5, <2>1, CleanWrite DEF CrashInWrite
<1>6. ASSUME NEW c \in CPaths, NEW f \in Files \union {NoFile}, ConsumerEdit(c, f) PROVE CleanInv'
  BY <1>6, CleanWrite DEF ConsumerEdit
<1>7. ASSUME NEW s \in Slices, NEW p \in Paths, DropEntry(s, p) PROVE CleanInv'
  BY <1>7 DEF DropEntry, CleanInv, Tracked, TypeOK
<1>8. CASE UNCHANGED vars
  BY <1>8 DEF vars, CleanInv, Tracked
<1> QED
  BY <1>1, <1>2, <1>3, <1>4, <1>5, <1>6, <1>7, <1>8 DEF Next

\* Where slices are disjoint, no entry is claimed by an earlier manifest.
LEMMA NothingClaimed ==
    ASSUME DisjointSlices, ManifestIsProjection,
           NEW s \in Slices, NEW p \in Tracked(s)
    PROVE  ~Claimed(s, p)
<1> SUFFICES ASSUME NEW z \in Slices, NEW q \in Tracked(z), z < s,
                    manifest[z].entries[q].cpath = manifest[s].entries[p].cpath
             PROVE FALSE
  BY DEF Claimed
<1>1. /\ manifest[s].entries[p].cpath = At(s, manifest[s].source, p).cpath
      /\ manifest[z].entries[q].cpath = At(z, manifest[z].source, q).cpath
      /\ p \in Offered(s, manifest[s].source) /\ q \in Offered(z, manifest[z].source)
      /\ manifest[s].source \in Releases /\ manifest[z].source \in Releases
  BY NewEntryFields DEF ManifestIsProjection
<1>2. p \in Paths /\ q \in Paths /\ z # s
  BY ConstantsOK DEF Tracked
<1> QED
  BY <1>1, <1>2 DEF DisjointSlices

\* Both invariants together hold throughout, for disjoint slices.
LEMMA CleanAlways == ASSUME DisjointSlices PROVE Spec => [](IInv /\ CleanInv)
<1>1. Init => IInv /\ CleanInv
  BY InitInv, CleanInit
<1>2. IInv /\ CleanInv /\ [Next]_vars => (IInv /\ CleanInv)'
  BY NextInv, CleanNext, DisjointSlices
<1> QED
  BY <1>1, <1>2, PTL DEF Spec

\* Composition (INV-1) for every set of disjoint slices: at every moment, the
\* gate is red on a path only if that file was touched since its slice was
\* applied, by the consumer or by an apply that died.
THEOREM Composition == ASSUME DisjointSlices PROVE Spec => []RedOnlyWhereTouched
<1>1. IInv /\ CleanInv => RedOnlyWhereTouched
  <2> SUFFICES ASSUME IInv, CleanInv, NEW s \in Slices, NEW p \in Tracked(s),
                      Verdict(s, p) # "clean"
               PROVE manifest[s].entries[p].cpath \in dirty
    BY DEF RedOnlyWhereTouched
  <2>1. ~Claimed(s, p)
    BY NothingClaimed, DisjointSlices DEF IInv
  <2> QED
    BY <2>1 DEF Verdict, CleanInv
<1> QED
  BY <1>1, CleanAlways, DisjointSlices, PTL

\* INV-1 as worded: the step that rewrites a slice's manifest ends with that
\* slice green, from any tree the consumer and earlier crashes left.
THEOREM GreenByConstruction == ASSUME DisjointSlices PROVE Spec => ApplyEndsGreen
<1>1. IInv /\ IInv' /\ [Next]_vars =>
        [\A s \in Slices : WriteManifest /\ job.slice = s /\ unreadable = {} => GateGreen(s)']_vars
  <2> SUFFICES ASSUME IInv, IInv', NEW s \in Slices, WriteManifest, job.slice = s,
                      unreadable = {}, NEW p \in Tracked(s)'
               PROVE Verdict(s, p)' = "clean"
    BY DEF GateGreen, WriteManifest
  <2> DEFINE r == job.target
  <2>1. job \in Jobs /\ r \in Releases /\ ~Idle /\ todo = {} /\ UNCHANGED tree
    BY DEF WriteManifest, Projection, IInv, TypeOK, Idle, Jobs
  <2>2. p \in Paths /\ manifest'[s].entries[p] # Untracked
    BY DEF Tracked
  <2>3. p \in Kept(job) /\ manifest'[s].entries[p] = NewEntry(s, r, p)
    BY <2>1, <2>2 DEF WriteManifest, Projection, IInv, TypeOK
  <2>4. At(s, r, p).class \in {"exported", "seeded"}
    BY <2>2, <2>3 DEF Kept, Offered, Exported, Seeded
  <2>5. At(s, r, p).class = "exported" => tree'[At(s, r, p).cpath] = At(s, r, p).file
    BY <2>1, <2>2, <2>3 DEF IInv, JobInv, Kept, Exported
  <2>6. At(s, r, p).file \in Files
    BY <2>1, <2>2, AtType
  <2>7. ~Claimed(s, p)'
    <3> SUFFICES ASSUME NEW z \in Slices, NEW q \in Tracked(z)', z < s,
                        manifest'[z].entries[q].cpath = manifest'[s].entries[p].cpath
                 PROVE FALSE
      BY DEF Claimed
    <3>1. /\ manifest'[s].entries[p].cpath = At(s, manifest'[s].source, p).cpath
          /\ manifest'[z].entries[q].cpath = At(z, manifest'[z].source, q).cpath
          /\ p \in Offered(s, manifest'[s].source) /\ q \in Offered(z, manifest'[z].source)
          /\ manifest'[s].source \in Releases /\ manifest'[z].source \in Releases
      BY NewEntryFields DEF IInv, ManifestIsProjection, Offered, Exported, Seeded, At
    <3>2. q \in Paths /\ z # s
      BY ConstantsOK DEF Tracked
    <3> QED
      BY <2>2, <3>1, <3>2, DisjointSlices DEF DisjointSlices
  <2> QED
    BY <2>3, <2>4, <2>5, <2>6, <2>7, NewEntryFields, ConstantsOK DEF Verdict
<1> QED
  BY <1>1, Invariance, PTL DEF Spec, ApplyEndsGreen

-----------------------------------------------------------------------------
(* How an apply proceeds and where it ends.                                  *)

\* What the apply has passed it will not write again ...
DoneInv == ~Idle => \A p \in Visited(job) \ todo : ~Writes(job, p)

\* ... and what the release no longer holds is forecast to be dropped.
DropInv ==
    ~Idle => \A p \in Visited(job) :
        At(job.slice, job.target, p).class = "none" => forecast[p] \in {"retired", "removed"}

\* Writing one path's file changes no other path's turn to be written.
LEMMA WritesStable ==
    ASSUME NEW p \in Paths, NEW q \in Paths, p # q,
           job \in Jobs, TypeOK,
           p \in Offered(job.slice, job.target),
           NEW f,
           tree' = [tree EXCEPT ![At(job.slice, job.target, p).cpath] = f],
           UNCHANGED <<job, manifest>>
    PROVE  Writes(job, q)' <=> Writes(job, q)
<1> DEFINE c == At(job.slice, job.target, p).cpath
           item == At(job.slice, job.target, q)
<1>1. Outcome(job, q)' = Outcome(job, q)
  BY OutcomeStable
<1>2. item.class \in Classes /\ item.cpath \in CPaths
  BY AtType DEF Jobs
<1>3. item.class # "none" => item.cpath # c
  BY NoCollisionInSlice DEF At, Offered, Exported, Seeded, Jobs
<1>4. item.class # "none" => tree'[item.cpath] = tree[item.cpath]
  BY <1>2, <1>3 DEF TypeOK
<1>5. At(job.slice, job.target, q)' = item
  BY DEF At
<1>6. item.class = "none" => Outcome(job, q) \notin {"updated", "added", "seeded"}
  BY DEF Outcome
<1>7. (Outcome(job, q) = "seeded" /\ tree'[item.cpath] = NoFile)
        <=> (Outcome(job, q) = "seeded" /\ tree[item.cpath] = NoFile)
  BY <1>4, <1>6
<1>8. Writes(job, q)' <=> \/ Outcome(job, q)' \in {"updated", "added"}
                          \/ /\ Outcome(job, q)' = "seeded"
                             /\ tree'[At(job.slice, job.target, q)'.cpath] = NoFile
  BY DEF Writes
<1>9. Writes(job, q)' <=> \/ Outcome(job, q) \in {"updated", "added"}
                          \/ Outcome(job, q) = "seeded" /\ tree'[item.cpath] = NoFile
  BY <1>1, <1>5, <1>8
<1> QED
  BY <1>7, <1>9 DEF Writes

\* What was just written is not written a second time.
LEMMA WrittenOnce ==
    ASSUME NEW p \in Paths, job \in Jobs, TypeOK, Writes(job, p),
           tree' = [tree EXCEPT ![At(job.slice, job.target, p).cpath] =
                                  At(job.slice, job.target, p).file],
           UNCHANGED <<job, manifest>>
    PROVE  ~Writes(job, p)'
<1> DEFINE item == At(job.slice, job.target, p)
<1>1. item.class \in Classes /\ item.cpath \in CPaths /\ item.file \in Files
  BY AtType DEF Jobs
<1>2. tree'[item.cpath] = item.file /\ item.file # NoFile
  BY <1>1, ConstantsOK DEF TypeOK
<1>3. At(job.slice, job.target, p)' = item
  BY DEF At
<1>4. item.class \in {"exported", "seeded"}
  BY <1>1 DEF Writes, Outcome, Classes
<1>5. CASE item.class = "exported"
  BY <1>2, <1>3, <1>5 DEF Writes, Outcome
<1>6. CASE item.class = "seeded"
  BY <1>2, <1>3, <1>6 DEF Writes, Outcome
<1> QED
  BY <1>4, <1>5, <1>6

\* Of a job in flight, an emit keeps agenda and release.
LEMMA EmitFacts ==
    ASSUME IInv, NEW p \in Paths, Emit(p)
    PROVE  /\ job \in Jobs /\ ~Idle /\ p \in todo
           /\ UNCHANGED <<manifest, job, forecast>> /\ todo' = todo \ {p}
           /\ Visited(job)' = Visited(job)
           /\ IF Writes(job, p)
              THEN /\ p \in Offered(job.slice, job.target)
                   /\ tree' = [tree EXCEPT ![At(job.slice, job.target, p).cpath] =
                                             At(job.slice, job.target, p).file]
              ELSE UNCHANGED tree
<1>1. job \in Jobs /\ ~Idle /\ p \in todo
  BY DEF Emit, IInv, TypeOK, Idle
<1>2. UNCHANGED <<manifest, job, forecast>> /\ todo' = todo \ {p}
  BY DEF Emit
<1>3. Visited(job)' = Visited(job)
  BY <1>2 DEF Visited, Tracked, Candidates
<1> QED
  BY <1>1, <1>2, <1>3, WritesOffered DEF Emit

\* Every step keeps both.
LEMMA SettleStep ==
    ASSUME IInv, DoneInv, DropInv, [Next]_vars
    PROVE  DoneInv' /\ DropInv'
<1>1. ASSUME NEW j \in Jobs, Begin(j) PROVE DoneInv' /\ DropInv'
  <2>1. job' = j /\ todo' = Visited(j) /\ forecast' = Check(j) /\ UNCHANGED <<tree, manifest>>
    BY <1>1 DEF Begin
  <2>2. Visited(job)' = Visited(j)
    BY <2>1 DEF Visited, Tracked, Candidates
  <2>3. DoneInv'
    BY <2>1, <2>2 DEF DoneInv
  <2>4. ASSUME NEW p \in Visited(j), At(j.slice, j.target, p).class = "none"
        PROVE  forecast'[p] \in {"retired", "removed"}
    <3>1. p \in Paths
      BY DEF Visited, Tracked, Candidates, Offered, Exported, Seeded
    <3>2. forecast'[p] = Outcome(j, p)
      BY <2>1, <3>1 DEF Check
    <3> QED BY <2>4, <3>2 DEF Outcome
  <2>5. DropInv'
    BY <2>1, <2>2, <2>4 DEF DropInv, At
  <2> QED BY <2>3, <2>5
<1>2. ASSUME NEW p \in Paths, Emit(p) PROVE DoneInv' /\ DropInv'
  <2>1. /\ job \in Jobs /\ ~Idle /\ p \in todo
        /\ UNCHANGED <<manifest, job, forecast>> /\ todo' = todo \ {p}
        /\ Visited(job)' = Visited(job)
    BY <1>2, EmitFacts
  <2>2. TypeOK
    BY DEF IInv
  <2>3. ASSUME NEW q \in Visited(job) \ todo' PROVE ~Writes(job, q)'
    <3>1. q \in Paths
      BY DEF Visited, Tracked, Candidates, Offered, Exported, Seeded
    <3>2. q # p => ~Writes(job, q)
      BY <2>1, <2>3 DEF DoneInv
    <3>3. CASE Writes(job, p)
      <4>1. /\ p \in Offered(job.slice, job.target)
            /\ tree' = [tree EXCEPT ![At(job.slice, job.target, p).cpath] =
                                      At(job.slice, job.target, p).file]
        BY <1>2, <3>3, EmitFacts
      <4>2. CASE q = p
        BY <2>1, <2>2, <3>3, <4>1, <4>2, WrittenOnce
      <4>3. CASE q # p
        BY <2>1, <2>2, <3>1, <3>2, <4>1, <4>3, WritesStable
      <4> QED BY <4>2, <4>3
    <3>4. CASE ~Writes(job, p)
      <4>1. UNCHANGED tree
        BY <1>2, <3>4, EmitFacts
      <4>2. Writes(job, q)' <=> Writes(job, q)
        BY <2>1, <4>1 DEF Writes, Outcome, At
      <4> QED BY <3>2, <3>4, <4>2
    <3> QED BY <3>3, <3>4
  <2>4. DoneInv'
    BY <2>1, <2>3 DEF DoneInv
  <2>5. DropInv'
    BY <2>1 DEF DropInv, At, Idle
  <2> QED BY <2>4, <2>5
<1>3. CASE WriteManifest \/ Crash \/ CrashInManifest \/ \E p \in Paths : CrashInWrite(p)
  BY <1>3 DEF WriteManifest, Projection, Crash, CrashInManifest, CrashInWrite, DoneInv, DropInv, Idle
<1>4. CASE \/ \E c \in CPaths, f \in Files \union {NoFile} : ConsumerEdit(c, f)
           \/ \E s \in Slices, p \in Paths : DropEntry(s, p)
           \/ \E s \in Slices : Restore(s)
  BY <1>4 DEF ConsumerEdit, DropEntry, Restore, DoneInv, DropInv, Idle
<1>5. CASE UNCHANGED vars
  <2>1. /\ Visited(job)' = Visited(job) /\ (Idle' <=> Idle) /\ todo' = todo
        /\ job' = job /\ forecast' = forecast
    BY <1>5 DEF vars, Idle, Visited, Tracked, Candidates
  <2>2. \A q : Writes(job, q)' <=> Writes(job, q)
    BY <1>5 DEF vars, Writes, Outcome, At
  <2>3. DoneInv'
    BY <2>1, <2>2 DEF DoneInv
  <2>4. DropInv'
    BY <2>1 DEF DropInv, At
  <2> QED BY <2>3, <2>4
<1> QED
  BY <1>1, <1>2, <1>3, <1>4, <1>5 DEF Next

\* In every state of an apply, both hold beside the invariant.
LEMMA Settling == Spec => [](IInv /\ DoneInv /\ DropInv)
<1>1. Init => IInv /\ DoneInv /\ DropInv
  BY InitInv DEF Init, DoneInv, DropInv, Idle
<1>2. IInv /\ DoneInv /\ DropInv /\ [Next]_vars => (IInv /\ DoneInv /\ DropInv)'
  BY NextInv, SettleStep
<1> QED BY <1>1, <1>2, PTL DEF Spec

-----------------------------------------------------------------------------
\* Of the paths an apply still writes, at most one has a given place, and that
\* one's file is what the apply makes of it.
LEMMA AppliedAt ==
    ASSUME NEW j \in Jobs, NEW c \in CPaths
    PROVE  /\ \A p \in Visited(j) : Writes(j, p) /\ At(j.slice, j.target, p).cpath = c
                => AppliedTree(j)[c] = At(j.slice, j.target, p).file
           /\ (\A p \in Visited(j) : Writes(j, p) => At(j.slice, j.target, p).cpath # c)
                => AppliedTree(j)[c] = tree[c]
<1> DEFINE writing == {p \in Visited(j) : Writes(j, p) /\ At(j.slice, j.target, p).cpath = c}
           pick == CHOOSE p \in writing : TRUE
<1>1. AppliedTree(j)[c] = IF writing = {} THEN tree[c] ELSE At(j.slice, j.target, pick).file
  BY DEF AppliedTree
<1>2. writing # {} => pick \in writing
  OBVIOUS
<1>3. \A p, q \in writing : p = q
  <2> SUFFICES ASSUME NEW p \in writing, NEW q \in writing PROVE p = q
    OBVIOUS
  <2>1. p \in Paths /\ q \in Paths
    BY DEF Visited, Tracked, Candidates, Offered, Exported, Seeded
  <2>2. p \in Offered(j.slice, j.target) /\ q \in Offered(j.slice, j.target)
    BY <2>1, WritesOffered
  <2> QED BY <2>1, <2>2, NoCollisionInSlice DEF Offered, Exported, Seeded, At, Jobs
<1> QED
  BY <1>1, <1>2, <1>3

\* What the promise says a slice holds is what the apply keeps.
LEMMA HeldIsKept == \A j \in Jobs : Promise!Held(j) = Kept(j) /\ Promise!Tracked(j.slice) = Tracked(j.slice)
<1> SUFFICES ASSUME NEW j \in Jobs
             PROVE  Promise!Held(j) = Kept(j) /\ Promise!Tracked(j.slice) = Tracked(j.slice)
  OBVIOUS
<1>1. Promise!Tracked(j.slice) = Tracked(j.slice)
  BY DEF Promise!Tracked, Tracked
<1>2. \A p \in Paths : At(j.slice, j.target, p).class \in Classes
  BY AtType DEF Jobs
<1>3. Offered(j.slice, j.target) = {p \in Paths : Surface[j.slice][j.target][p].class # "none"}
  BY <1>2 DEF Offered, Exported, Seeded, At, Classes
<1>4. Tracked(j.slice) \subseteq Paths
  BY DEF Tracked
<1> QED
  BY <1>1, <1>3, <1>4 DEF Promise!Held, Kept, Visited, Candidates

\* At one place a release has one path, and its class decides what is given.
LEMMA GivenAt ==
    ASSUME NEW j \in Jobs, NEW c \in CPaths, NEW there
    PROVE  /\ \A p \in Kept(j) :
                 /\ At(j.slice, j.target, p).cpath = c
                 => Promise!Given(there, j, c)
                      = IF \/ p \in Exported(j.slice, j.target)
                           \/ p \notin Tracked(j.slice) /\ there = NoFile
                        THEN At(j.slice, j.target, p).file ELSE there
           /\ (\A p \in Kept(j) : At(j.slice, j.target, p).cpath # c) => Promise!Given(there, j, c) = there
<1> DEFINE bound(class) == {p \in Kept(j) : /\ At(j.slice, j.target, p).class = class
                                            /\ At(j.slice, j.target, p).cpath = c}
           fileOf(paths) == At(j.slice, j.target, CHOOSE p \in paths : TRUE).file
<1>1. Promise!Given(there, j, c) =
        IF bound("exported") # {} THEN fileOf(bound("exported"))
        ELSE IF there = NoFile /\ bound("seeded") \ Tracked(j.slice) # {}
             THEN fileOf(bound("seeded") \ Tracked(j.slice)) ELSE there
  <2>1. Promise!Held(j) = Kept(j) /\ Promise!Tracked(j.slice) = Tracked(j.slice)
    BY HeldIsKept
  <2>2. \A class : Promise!Bound(j, c, class) = bound(class)
    BY <2>1 DEF Promise!Bound, At
  <2>3. \A paths : Promise!FileOf(j, paths) = fileOf(paths)
    BY DEF Promise!FileOf, At
  <2> HIDE DEF bound, fileOf
  <2> QED BY <2>1, <2>2, <2>3 DEF Promise!Given
<1>2. ASSUME NEW p \in Kept(j), At(j.slice, j.target, p).cpath = c
      PROVE  Promise!Given(there, j, c)
                = IF \/ p \in Exported(j.slice, j.target)
                     \/ p \notin Tracked(j.slice) /\ there = NoFile
                  THEN At(j.slice, j.target, p).file ELSE there
  <2>1. p \in Paths /\ At(j.slice, j.target, p).class \in {"exported", "seeded"}
    BY DEF Kept, Offered, Exported, Seeded
  <2>2. \A q \in Kept(j) : At(j.slice, j.target, q).cpath = c => q = p
    BY <1>2, <2>1, NoCollisionInSlice DEF Kept, Offered, Exported, Seeded, At, Jobs
  <2>3. CASE At(j.slice, j.target, p).class = "exported"
    <3>1. bound("exported") = {p}
      BY <1>2, <2>2, <2>3
    <3>2. p \in Exported(j.slice, j.target) /\ fileOf({p}) = At(j.slice, j.target, p).file
      BY <2>1, <2>3 DEF Exported
    <3> HIDE DEF bound, fileOf
    <3> QED BY <1>1, <3>1, <3>2
  <2>4. CASE At(j.slice, j.target, p).class = "seeded"
    <3>1. bound("exported") = {} /\ bound("seeded") = {p}
      BY <1>2, <2>2, <2>4
    <3>2. p \notin Exported(j.slice, j.target) /\ fileOf({p}) = At(j.slice, j.target, p).file
      BY <2>4 DEF Exported
    <3>3. {p} \ Tracked(j.slice) = IF p \in Tracked(j.slice) THEN {} ELSE {p}
      OBVIOUS
    <3> HIDE DEF bound, fileOf
    <3> QED BY <1>1, <3>1, <3>2, <3>3
  <2> QED BY <2>1, <2>3, <2>4
<1>3. ASSUME \A p \in Kept(j) : At(j.slice, j.target, p).cpath # c
      PROVE  Promise!Given(there, j, c) = there
  <2>1. bound("exported") = {} /\ bound("seeded") = {}
    BY <1>3
  <2> HIDE DEF bound, fileOf
  <2> QED BY <1>1, <2>1
<1> QED BY <1>2, <1>3

\* What is given a second time is the same.
LEMMA GivenTwice ==
    ASSUME NEW j, NEW c, NEW there
    PROVE  Promise!Given(Promise!Given(there, j, c), j, c) = Promise!Given(there, j, c)
BY DEF Promise!Given

\* The apply of the code, path by path, makes of any tree what is promised.
LEMMA AppliedIsResult == TypeOK => \A j \in Jobs : AppliedTree(j) = Promise!Result(tree, j)
<1>0. \A j \in Jobs : AppliedTree(j) = [c \in CPaths |-> AppliedTree(j)[c]]
  BY DEF AppliedTree
<1> SUFFICES ASSUME TypeOK, NEW j \in Jobs, NEW c \in CPaths
             PROVE  AppliedTree(j)[c] = Promise!Given(tree[c], j, c)
  BY <1>0 DEF Promise!Result
<1> DEFINE item(p) == At(j.slice, j.target, p)
<1>1. ASSUME NEW q \in Visited(j), Writes(j, q), item(q).cpath = c
      PROVE  q \in Kept(j) /\ q \in Paths
  <2>1. q \in Paths
    BY DEF Visited, Tracked, Candidates, Offered, Exported, Seeded
  <2> QED BY <1>1, <2>1, WritesOffered DEF Kept
<1>2. CASE \E p \in Kept(j) : item(p).cpath = c
  <2>1. PICK p \in Kept(j) : item(p).cpath = c
    BY <1>2
  <2>2. p \in Visited(j) /\ p \in Paths /\ item(p).class \in {"exported", "seeded"} /\ item(p).file \in Files
    BY AtType DEF Kept, Offered, Exported, Seeded, Jobs
  <2>3. \A q \in Kept(j) : item(q).cpath = c => q = p
    BY <2>1, <2>2, NoCollisionInSlice DEF Kept, Offered, Exported, Seeded, At, Jobs
  <2>4. AppliedTree(j)[c] = IF Writes(j, p) THEN item(p).file ELSE tree[c]
    BY <1>1, <2>1, <2>2, <2>3, AppliedAt
  <2>5. Promise!Given(tree[c], j, c)
           = IF \/ p \in Exported(j.slice, j.target)
                \/ p \notin Tracked(j.slice) /\ tree[c] = NoFile
             THEN item(p).file ELSE tree[c]
    BY <2>1, GivenAt
  <2>6. CASE item(p).class = "exported"
    BY <2>1, <2>2, <2>4, <2>5, <2>6 DEF Writes, Outcome, Exported
  <2>7. CASE item(p).class = "seeded"
    <3>1. Writes(j, p) <=> p \notin Tracked(j.slice) /\ tree[c] = NoFile
      BY <2>1, <2>2, <2>7 DEF Writes, Outcome, Tracked
    <3> QED BY <2>4, <2>5, <2>7, <3>1 DEF Exported
  <2> QED BY <2>2, <2>6, <2>7
<1>3. CASE \A p \in Kept(j) : item(p).cpath # c
  <2>1. AppliedTree(j)[c] = tree[c]
    BY <1>1, <1>3, AppliedAt
  <2> QED BY <1>3, <2>1, GivenAt
<1> QED BY <1>2, <1>3

\* What is promised of a place depends on the manifests alone.
LEMMA GivenStays ==
    ASSUME UNCHANGED manifest, NEW j, NEW c
    PROVE  \A x : Promise!Given(x, j, c)' = Promise!Given(x, j, c)
BY DEF Promise!Given, Promise!Bound, Promise!Held, Promise!Tracked, Promise!FileOf

\* What an apply is to write at a place is what is promised of it, and is not there yet.
LEMMA WriteIsDue ==
    ASSUME TypeOK, NEW j \in Jobs, NEW p \in Visited(j), Writes(j, p),
           NEW c, c = At(j.slice, j.target, p).cpath
    PROVE  /\ c \in CPaths /\ p \in Kept(j)
           /\ Promise!Given(tree[c], j, c) = At(j.slice, j.target, p).file
           /\ tree[c] # Promise!Given(tree[c], j, c)
           /\ p \notin Exported(j.slice, j.target) =>
                 p \in Seeded(j.slice, j.target) \ Tracked(j.slice) /\ tree[c] = NoFile
<1> DEFINE item == At(j.slice, j.target, p)
<1>1. p \in Paths
  BY DEF Visited, Tracked, Candidates, Offered, Exported, Seeded
<1>2. p \in Kept(j)
  BY <1>1, WritesOffered DEF Kept
<1>3. c \in CPaths /\ item.class \in {"exported", "seeded"} /\ item.file # NoFile
  <2>1. item.cpath \in CPaths /\ item.file \in Files
    BY <1>1, AtType DEF Jobs
  <2>2. item.class \in {"exported", "seeded"}
    BY <1>2 DEF Kept, Offered, Exported, Seeded
  <2> QED BY <2>1, <2>2, ConstantsOK
<1>4. Promise!Given(tree[c], j, c)
        = IF \/ p \in Exported(j.slice, j.target)
             \/ p \notin Tracked(j.slice) /\ tree[c] = NoFile
          THEN item.file ELSE tree[c]
  BY <1>2, <1>3, GivenAt
<1>5. CASE item.class = "exported"
  <2>1. tree[c] # item.file /\ p \in Exported(j.slice, j.target)
    BY <1>1, <1>5 DEF Writes, Outcome, Exported
  <2> QED BY <1>2, <1>3, <1>4, <2>1
<1>6. CASE item.class = "seeded"
  <2>1. tree[c] = NoFile /\ p \in Seeded(j.slice, j.target) \ Tracked(j.slice)
    BY <1>1, <1>6 DEF Writes, Outcome, Seeded, Tracked
  <2> QED BY <1>2, <1>3, <1>4, <2>1
<1> QED BY <1>3, <1>5, <1>6

\* A step of an apply that does not end it well writes at most one place: to
\* what is promised of it, or tearing the file and ending the apply.
LEMMA FlightStep ==
    ASSUME IInv, job \in Jobs, Next, ~WriteManifest
    PROVE  /\ UNCHANGED manifest
           /\ CrashInManifest \/ UNCHANGED unreadable
           /\ \/ UNCHANGED tree
              \/ \E p \in Visited(job) :
                    LET c == At(job.slice, job.target, p).cpath
                    IN  /\ Writes(job, p)
                        /\ \/ job' = job /\ tree' = [tree EXCEPT ![c] = At(job.slice, job.target, p).file]
                           \/ job' = NoJob /\ tree' = [tree EXCEPT ![c] = Torn]
<1>1. ~Idle /\ todo \subseteq Visited(job)
  BY ConstantsOK DEF Idle, IInv, JobInv
<1>2. Crash \/ CrashInManifest \/ \E p \in Paths : Emit(p) \/ CrashInWrite(p)
  BY <1>1 DEF Next, Begin, ConsumerEdit, DropEntry, Restore
<1>3. CASE Crash \/ CrashInManifest
  BY <1>3 DEF Crash, CrashInManifest
<1>4. ASSUME NEW p \in Paths, Emit(p) \/ CrashInWrite(p)
      PROVE  /\ UNCHANGED <<manifest, unreadable>>
             /\ \/ UNCHANGED tree
                \/ LET c == At(job.slice, job.target, p).cpath
                   IN  /\ p \in Visited(job) /\ Writes(job, p)
                       /\ \/ job' = job /\ tree' = [tree EXCEPT ![c] = At(job.slice, job.target, p).file]
                          \/ job' = NoJob /\ tree' = [tree EXCEPT ![c] = Torn]
  BY <1>1, <1>4 DEF Emit, CrashInWrite
<1> QED BY <1>2, <1>3, <1>4

\* Materialise is pure, for any surface and any order of the paths: no write of
\* an apply changes what the apply makes of the tree and it ends exactly there;
\* where it dies, the next one makes the same of the tree, a torn template
\* excepted, and is refused only after a kill in the manifest's own write
\* (manifest.go:175), which comes when every file is in place.
THEOREM PureApply == Spec => ResumesWhereItDied
<1>1. (TypeOK => \A j \in Jobs : AppliedTree(j) = Promise!Result(tree, j))'
  BY AppliedIsResult, PTL
<1>2. IInv /\ IInv' /\ DoneInv /\ [Next]_vars =>
        [\A j \in Jobs : job = j =>
          LET due   == AppliedTree(j)
              later == AppliedTree(j)'
          IN  /\ ~WriteManifest => \A c \in CPaths :
                    \/ later[c] = due[c]
                    \/ /\ tree[c] = NoFile /\ tree'[c] = Torn
                       /\ \E p \in Seeded(j.slice, j.target) \ Tracked(j.slice) :
                             At(j.slice, j.target, p).cpath = c
              /\ WriteManifest \/ j.slice \in unreadable' => tree' = due]_vars
  <2> SUFFICES ASSUME IInv, IInv', DoneInv, Next, NEW j \in Jobs, job = j
               PROVE  /\ ~WriteManifest => \A c \in CPaths :
                            \/ AppliedTree(j)'[c] = AppliedTree(j)[c]
                            \/ /\ tree[c] = NoFile /\ tree'[c] = Torn
                               /\ \E p \in Seeded(j.slice, j.target) \ Tracked(j.slice) :
                                     At(j.slice, j.target, p).cpath = c
                      /\ WriteManifest \/ j.slice \in unreadable' => tree' = AppliedTree(j)
    OBVIOUS
  <2>1. ASSUME ~WriteManifest, NEW c \in CPaths
        PROVE  \/ AppliedTree(j)'[c] = AppliedTree(j)[c]
               \/ /\ tree[c] = NoFile /\ tree'[c] = Torn
                  /\ \E p \in Seeded(j.slice, j.target) \ Tracked(j.slice) :
                        At(j.slice, j.target, p).cpath = c
    <3>1. AppliedTree(j)[c] = Promise!Given(tree[c], j, c)
      BY AppliedIsResult DEF IInv, Promise!Result
    <3>2. UNCHANGED manifest
      BY <2>1, FlightStep
    <3>3. AppliedTree(j)'[c] = Promise!Given(tree'[c], j, c)
      <4>1. AppliedTree(j)' = Promise!Result(tree, j)'
        BY <1>1 DEF IInv
      <4>2. Promise!Result(tree, j)' = [d \in CPaths |-> Promise!Given(tree'[d], j, d)]
        BY <3>2, GivenStays DEF Promise!Result
      <4> QED BY <4>1, <4>2
    <3>4. CASE tree'[c] = tree[c]
      BY <3>1, <3>3, <3>4
    <3>5. CASE tree'[c] # tree[c]
      <4>1. PICK p \in Visited(j) :
              /\ c = At(j.slice, j.target, p).cpath /\ Writes(j, p)
              /\ tree'[c] \in {At(j.slice, j.target, p).file, Torn}
        BY <2>1, <3>5, FlightStep DEF IInv, TypeOK
      <4>2. /\ p \in Kept(j)
            /\ Promise!Given(tree[c], j, c) = At(j.slice, j.target, p).file
            /\ p \notin Exported(j.slice, j.target) =>
                  p \in Seeded(j.slice, j.target) \ Tracked(j.slice) /\ tree[c] = NoFile
        BY <4>1, WriteIsDue DEF IInv
      <4>3. CASE tree'[c] = At(j.slice, j.target, p).file
        <5>1. Promise!Given(tree'[c], j, c) = Promise!Given(tree[c], j, c)
          BY <4>2, <4>3, GivenTwice
        <5> QED BY <3>1, <3>3, <5>1
      <4>4. CASE tree'[c] = Torn /\ p \in Exported(j.slice, j.target)
        <5>1. Promise!Given(Torn, j, c) = At(j.slice, j.target, p).file
          BY <4>1, <4>2, <4>4, GivenAt
        <5> QED BY <3>1, <3>3, <4>2, <4>4, <5>1
      <4>5. CASE tree'[c] = Torn /\ p \notin Exported(j.slice, j.target)
        BY <4>1, <4>2, <4>5
      <4> QED BY <4>1, <4>3, <4>4, <4>5
    <3> QED BY <3>4, <3>5
  <2>2. ASSUME WriteManifest \/ j.slice \in unreadable' PROVE tree' = AppliedTree(j)
    <3>0. WriteManifest \/ CrashInManifest
      <4>1. ~Idle
        BY ConstantsOK DEF Idle
      <4> QED BY <2>2, <4>1, FlightStep DEF IInv, JobInv
    <3>1. ~Idle /\ todo = {} /\ tree = [c \in CPaths |-> tree[c]] /\ tree' = tree
      BY <3>0 DEF WriteManifest, CrashInManifest, IInv, TypeOK
    <3>2. \A p \in Visited(j) : ~Writes(j, p)
      BY <3>1 DEF DoneInv
    <3>3. \A c \in CPaths : AppliedTree(j)[c] = tree[c]
      BY <3>2, AppliedAt
    <3>4. AppliedTree(j) = [c \in CPaths |-> AppliedTree(j)[c]]
      BY DEF AppliedTree
    <3> QED BY <3>1, <3>3, <3>4
  <2> QED BY <2>1, <2>2
<1> QED BY <1>2, Settling, PTL DEF Spec, ResumesWhereItDied

\* The manifest an apply leaves holds what was kept, as the release gives it.
LEMMA AppliedManifest ==
    ASSUME TypeOK, NEW j \in Jobs, job = j, WriteManifest
    PROVE  /\ manifest'[j.slice].entries =
                 [p \in Paths |-> IF p \in Kept(j) THEN NewEntry(j.slice, j.target, p)
                                  ELSE Untracked]
           /\ Tracked(j.slice)' = Kept(j)
<1> DEFINE new == [p \in Paths |-> IF p \in Kept(j) THEN NewEntry(j.slice, j.target, p)
                                   ELSE Untracked]
<1>1. j.slice \in Slices /\ j.target \in Releases
  BY DEF Jobs
<1>2. manifest'[j.slice].entries = new
  BY <1>1 DEF WriteManifest, Projection, TypeOK
<1>3. Kept(j) \subseteq Paths
  BY DEF Kept, Offered, Exported, Seeded
<1>4. \A p \in Paths : p \in Kept(j) <=> new[p] # Untracked
  BY <1>1, AtType
<1>5. Tracked(j.slice)' = {p \in Paths : new[p] # Untracked}
  BY <1>2 DEF Tracked
<1> QED BY <1>2, <1>3, <1>4, <1>5

\* The apply that just ended leaves nothing for check of the same release and
\* scope to report as a change, whatever was reclassed, retired or added.
THEOREM CheckIsFixedPoint == Spec => ApplySettles
<1>1. IInv /\ IInv' /\ DoneInv /\ [Next]_vars =>
        [\A j \in Jobs : WriteManifest /\ job = j => ~Changed(j)']_vars
  <2> SUFFICES ASSUME IInv, NEW j \in Jobs, WriteManifest, job = j,
                      NEW p \in Paths
               PROVE  Check(j)'[p] \in {"quiet", "template"}
    BY DEF Changed
  <2>1. UNCHANGED tree /\ ~Idle /\ todo = {} /\ j.slice \in Slices /\ j.target \in Releases
    BY DEF WriteManifest, Projection, Jobs
  <2>2. /\ manifest'[j.slice].entries =
              [q \in Paths |-> IF q \in Kept(j) THEN NewEntry(j.slice, j.target, q) ELSE Untracked]
        /\ Tracked(j.slice)' = Kept(j)
    BY AppliedManifest DEF IInv
  <2>3. Visited(j)' = Kept(j)
    BY <2>2 DEF Visited, Kept, Candidates, Offered, Exported, Seeded, At
  <2>4. Check(j)'[p] = IF p \in Visited(j)' THEN Outcome(j, p)' ELSE "quiet"
    BY DEF Check
  <2>5. ASSUME p \in Kept(j) PROVE Outcome(j, p)' = "quiet"
    <3> DEFINE item == At(j.slice, j.target, p)
               prior == manifest'[j.slice].entries[p]
    <3>1. prior = NewEntry(j.slice, j.target, p) /\ prior # Untracked
      BY <2>1, <2>2, <2>5, AtType
    <3>2. prior.sha = Digest[item.file]
      BY <3>1, NewEntryFields
    <3>3. item.class \in {"exported", "seeded"} /\ At(j.slice, j.target, p)' = item
      BY <2>5 DEF Kept, Offered, Exported, Seeded, At
    <3>4. CASE item.class = "exported"
      <4>1. tree[item.cpath] = item.file
        BY <2>1, <2>5, <3>4 DEF IInv, JobInv, Kept, Exported
      <4> QED BY <2>1, <3>3, <3>4, <4>1 DEF Outcome
    <3>5. CASE item.class = "seeded"
      BY <3>1, <3>2, <3>3, <3>5 DEF Outcome
    <3> QED BY <3>3, <3>4, <3>5
  <2> QED BY <2>3, <2>4, <2>5
<1> QED BY <1>1, Settling, PTL DEF Spec, ApplySettles

\* Scaffold-once (DR-0013) at every step of an apply, one that dies in a write
\* included, and for slices that overlap too: what is tracked as a seed changes
\* only under a release that vendors that place, or to fill it where it is empty.
THEOREM ConsumerKeepsSeeds == Spec => SeedsBelongToConsumer
<1> DEFINE Rewritten(s, p) ==
      LET e == manifest[s].entries[p]
      IN  e.seed /\ tree'[e.cpath] # tree[e.cpath] =>
            \E q \in Offered(job.slice, job.target) :
                /\ At(job.slice, job.target, q).cpath = e.cpath
                /\ \/ /\ q \in Exported(job.slice, job.target)
                      /\ forecast[q] \in {"updated", "added"}
                   \/ /\ q \notin Tracked(job.slice)
                      /\ tree[e.cpath] = NoFile
                      /\ forecast[q] = "seeded"
<1>1. IInv /\ [Next]_vars => [~Idle => \A s \in Slices : \A p \in Tracked(s) : Rewritten(s, p)]_vars
  <2> SUFFICES ASSUME IInv, Next, ~Idle, NEW s \in Slices, NEW p \in Tracked(s),
                      tree'[manifest[s].entries[p].cpath] # tree[manifest[s].entries[p].cpath]
               PROVE  Rewritten(s, p)
    OBVIOUS
  <2> DEFINE place == manifest[s].entries[p].cpath
  <2>0. job \in Jobs /\ place \in CPaths
    BY DEF IInv, TypeOK, Idle, Tracked, Entry
  <2>1. PICK q \in Paths : /\ q \in todo /\ Writes(job, q)
                           /\ \E f : tree' = [tree EXCEPT ![At(job.slice, job.target, q).cpath] = f]
    <3>1. \E q \in Paths : Emit(q) \/ CrashInWrite(q)
      BY DEF Next, Begin, WriteManifest, Crash, CrashInManifest, ConsumerEdit, DropEntry, Restore, Idle
    <3>2. PICK q \in Paths : Emit(q) \/ CrashInWrite(q)
      BY <3>1
    <3> QED BY <3>2 DEF Emit, CrashInWrite
  <2>2. At(job.slice, job.target, q).cpath = place
    BY <2>0, <2>1 DEF IInv, TypeOK
  <2>3. q \in Offered(job.slice, job.target) /\ Outcome(job, q) = forecast[q]
    BY <2>0, <2>1, WritesOffered DEF IInv, JobInv
  <2>4. At(job.slice, job.target, q).class \in Classes
    BY <2>0, AtType DEF Jobs
  <2>5. CASE Outcome(job, q) \in {"updated", "added"}
    <3>1. q \in Exported(job.slice, job.target)
      BY <2>4, <2>5 DEF Outcome, Classes, Exported
    <3> QED BY <2>2, <2>3, <2>5, <3>1
  <2>6. CASE Outcome(job, q) = "seeded" /\ tree[place] = NoFile
    <3>1. q \notin Tracked(job.slice)
      BY <2>4, <2>6 DEF Outcome, Classes, Tracked
    <3> QED BY <2>2, <2>3, <2>6, <3>1
  <2> QED BY <2>1, <2>2, <2>5, <2>6 DEF Writes
<1> QED BY <1>1, Invariance, PTL DEF Spec, SeedsBelongToConsumer

\* INV-4: an apply untracks exactly what the release dropped, which check
\* forecast, and tracks nothing new that reconciliation did not offer in scope.
THEOREM NothingUnasked == Spec => ScopeOnlyAsAsked
<1> DEFINE Asked(j) ==
      LET had == Tracked(j.slice)
          has == Tracked(j.slice)'
      IN  /\ had \ has = had \ Offered(j.slice, j.target)
          /\ has \ had \subseteq (IF j.reconcile THEN InScope[j.slice] ELSE {})
          /\ \A p \in had \ has : forecast[p] \in {"retired", "removed"}
<1>1. IInv /\ DropInv /\ [Next]_vars => [\A j \in Jobs : WriteManifest /\ job = j => Asked(j)]_vars
  <2> SUFFICES ASSUME IInv, DropInv, NEW j \in Jobs, WriteManifest, job = j PROVE Asked(j)
    OBVIOUS
  <2> DEFINE had == Tracked(j.slice)
             has == Tracked(j.slice)'
  <2>1. has = Kept(j)
    BY AppliedManifest DEF IInv
  <2>2. had \ has = had \ Offered(j.slice, j.target)
    BY <2>1 DEF Kept, Visited
  <2>3. has \ had \subseteq (IF j.reconcile THEN InScope[j.slice] ELSE {})
    BY <2>1 DEF Kept, Visited, Candidates
  <2>4. ASSUME NEW p \in had \ has PROVE forecast[p] \in {"retired", "removed"}
    <3>1. p \in Visited(j) /\ p \in Paths /\ p \notin Offered(j.slice, j.target)
      BY <2>2 DEF Visited, Tracked
    <3>2. At(j.slice, j.target, p).class = "none"
      BY <3>1, AtType DEF Offered, Exported, Seeded, Classes, Jobs
    <3> QED BY <3>1, <3>2 DEF DropInv, WriteManifest
  <2> QED BY <2>2, <2>3, <2>4
<1> QED BY <1>1, Settling, PTL DEF Spec, ScopeOnlyAsAsked

-----------------------------------------------------------------------------
(* The refinement.                                                           *)

\* While an apply is under way each place is as it began or as promised, and
\* the promise is the one made when it began.
BeforeInv ==
    /\ before \in [CPaths -> Files \union {NoFile}]
    /\ Idle => before = tree
    /\ ~Idle => \A c \in CPaths :
          LET given == Promise!Given(before[c], job, c)
          IN  /\ Promise!Given(tree[c], job, c) = given
              /\ tree[c] \in {before[c], given}

\* What the promise records is the code's projection of the release.
LEMMA RecordedIsProjection == \A j \in Jobs : Promise!Recorded(j) = Projection(j)
<1> SUFFICES ASSUME NEW j \in Jobs PROVE Promise!Recorded(j) = Projection(j)
  OBVIOUS
<1>1. Promise!Held(j) = Kept(j)
  BY HeldIsKept
<1> QED BY <1>1 DEF Promise!Recorded, Projection, NewEntry, At

\* Every step keeps what is remembered of the tree in line with it.
LEMMA BeforeStep ==
    ASSUME IInv, IInv', BeforeInv, [HNext]_hvars
    PROVE  BeforeInv'
<1>1. CASE UNCHANGED hvars
  <2>1. UNCHANGED <<tree, manifest, job, before>>
    BY <1>1 DEF hvars, vars
  <2>2. \A x : \A c \in CPaths : Promise!Given(x, job, c)' = Promise!Given(x, job, c)
    BY <2>1 DEF Promise!Given, Promise!Bound, Promise!Held, Promise!Tracked, Promise!FileOf
  <2> QED BY <2>1, <2>2 DEF BeforeInv, Idle
<1>2. CASE HNext /\ job' = NoJob
  BY <1>2 DEF HNext, BeforeInv, Idle, IInv, TypeOK
<1>3. CASE HNext /\ job' # NoJob
  <2>1. before' = before /\ Next /\ ~Idle'
    BY <1>3 DEF HNext, Idle
  <2>2. UNCHANGED manifest
    BY <1>3, <2>1 DEF Next, Begin, Emit, WriteManifest, Crash, CrashInWrite, CrashInManifest,
                      ConsumerEdit, DropEntry, Restore, Idle
  <2>3. job' \in Jobs
    BY <1>3 DEF IInv, TypeOK
  <2> SUFFICES ASSUME NEW c \in CPaths
               PROVE  /\ Promise!Given(tree'[c], job', c) = Promise!Given(before[c], job', c)
                      /\ tree'[c] \in {before[c], Promise!Given(before[c], job', c)}
    BY <2>1, <2>2, GivenStays DEF BeforeInv
  <2>4. CASE Idle
    <3>1. tree' = tree /\ before = tree
      BY <1>3, <2>1, <2>4 DEF BeforeInv, Next, Begin, Emit, WriteManifest, Crash, CrashInWrite,
                              CrashInManifest, ConsumerEdit, DropEntry, Restore, Idle
    <3> QED BY <3>1
  <2>5. CASE ~Idle
    <3>1. job \in Jobs /\ job' = job /\ ~WriteManifest
      BY <1>3, <2>1, <2>5 DEF IInv, TypeOK, Next, Begin, Emit, WriteManifest, Crash, CrashInWrite,
                              CrashInManifest, ConsumerEdit, DropEntry, Restore, Idle
    <3> DEFINE given == Promise!Given(before[c], job, c)
    <3>2. Promise!Given(tree[c], job, c) = given /\ tree[c] \in {before[c], given}
      BY <2>5 DEF BeforeInv
    <3>3. CASE tree'[c] = tree[c]
      BY <3>1, <3>2, <3>3
    <3>4. CASE tree'[c] # tree[c]
      <4>1. PICK p \in Visited(job) :
              /\ c = At(job.slice, job.target, p).cpath /\ Writes(job, p)
              /\ tree'[c] = At(job.slice, job.target, p).file
        BY <3>1, <3>4, <2>1, FlightStep, ConstantsOK DEF IInv, TypeOK
      <4>2. Promise!Given(tree[c], job, c) = At(job.slice, job.target, p).file
        BY <3>1, <4>1, WriteIsDue DEF IInv
      <4>3. tree'[c] = given
        BY <3>2, <4>1, <4>2
      <4>4. Promise!Given(given, job, c) = given
        BY GivenTwice
      <4> QED BY <3>1, <4>3, <4>4
    <3> QED BY <3>3, <3>4
  <2> QED BY <2>4, <2>5
<1> QED BY <1>1, <1>2, <1>3 DEF HNext

\* The history variable takes part in nothing: what holds of Spec holds of HSpec.
LEMMA HistoryHolds == HSpec => [](IInv /\ DoneInv /\ BeforeInv)
<1>1. HSpec => Spec
  <2>1. HInit => Init
    BY DEF HInit
  <2>2. [HNext]_hvars => [Next]_vars
    BY DEF HNext, hvars
  <2> QED BY <2>1, <2>2, PTL DEF HSpec, Spec
<1>2. HInit => BeforeInv
  BY DEF HInit, Init, BeforeInv, Idle
<1>3. IInv /\ IInv' /\ BeforeInv /\ [HNext]_hvars => BeforeInv'
  BY BeforeStep
<1> QED BY <1>1, <1>2, <1>3, Settling, PTL DEF HSpec

\* With nothing left to come to, the tree is what is promised of it.
LEMMA DoneAsPromised ==
    ASSUME IInv, DoneInv, BeforeInv, job \in Jobs, ~Idle, todo = {}
    PROVE  tree = Promise!Result(before, job)
<1>1. tree = [c \in CPaths |-> tree[c]]
  BY DEF IInv, TypeOK
<1>2. \A p \in Visited(job) : ~Writes(job, p)
  BY DEF DoneInv
<1>3. AppliedTree(job) = Promise!Result(tree, job)
  BY AppliedIsResult DEF IInv
<1>4. \A c \in CPaths : tree[c] = Promise!Given(before[c], job, c)
  <2> TAKE c \in CPaths
  <2>1. AppliedTree(job)[c] = tree[c]
    BY <1>2, AppliedAt
  <2>2. AppliedTree(job)[c] = Promise!Given(tree[c], job, c)
    BY <1>3 DEF Promise!Result
  <2> QED BY <2>1, <2>2 DEF BeforeInv
<1> QED BY <1>1, <1>4 DEF Promise!Result

\* An apply that ends well took place when it wrote its manifest.
LEMMA EndsAsPromised ==
    ASSUME IInv, DoneInv, BeforeInv, HNext, WriteManifest
    PROVE  Promise!Apply(job)
<1>1. ~Idle /\ todo = {} /\ before' = tree /\ UNCHANGED unreadable
  BY DEF WriteManifest, HNext
<1>2. job \in Jobs /\ job.slice \notin unreadable
  BY <1>1 DEF IInv, TypeOK, JobInv, Idle
<1>3. before' = Promise!Result(before, job)
  BY <1>1, <1>2, DoneAsPromised
<1>4. manifest' = [manifest EXCEPT ![job.slice] = Promise!Recorded(job)]
  BY <1>2, RecordedIsProjection DEF WriteManifest
<1> QED BY <1>1, <1>2, <1>3, <1>4 DEF Promise!Apply

\* One that dies in its manifest has done the files ...
LEMMA LeavesAsPromised ==
    ASSUME IInv, DoneInv, BeforeInv, HNext, CrashInManifest
    PROVE  Promise!LeftUnreadable(job)
<1>1. /\ ~Idle /\ todo = {} /\ before' = tree /\ UNCHANGED manifest
      /\ unreadable' = unreadable \union {job.slice}
  BY DEF CrashInManifest, HNext
<1>2. job \in Jobs /\ job.slice \notin unreadable
  BY <1>1 DEF IInv, TypeOK, JobInv, Idle
<1>3. before' = Promise!Result(before, job)
  BY <1>1, <1>2, DoneAsPromised
<1> QED BY <1>1, <1>2, <1>3 DEF Promise!LeftUnreadable

\* ... and before that leaves some of the places done and one torn at most.
LEMMA DiesAsPromised ==
    ASSUME IInv, BeforeInv, HNext, job \in Jobs, ~WriteManifest, ~CrashInManifest, job' = NoJob
    PROVE  Promise!Interrupted(job)
<1>1. /\ ~Idle /\ before' = tree' /\ UNCHANGED <<manifest, unreadable>>
      /\ job.slice \notin unreadable
  BY FlightStep, ConstantsOK DEF HNext, Idle, IInv, JobInv
<1> DEFINE result == Promise!Result(before, job)
           due    == {c \in CPaths : result[c] # before[c]}
           done   == {c \in due : tree[c] = result[c]}
           partly == [c \in CPaths |-> IF c \in done THEN result[c] ELSE before[c]]
<1>2. \A c \in CPaths : result[c] = Promise!Given(before[c], job, c)
  BY DEF Promise!Result
<1>3. \A c \in CPaths : tree[c] \in {before[c], result[c]}
  BY <1>1, <1>2 DEF BeforeInv
<1>4. tree = [c \in CPaths |-> tree[c]]
  BY DEF IInv, TypeOK
<1>5. tree = partly
  <2> HIDE DEF result
  <2>1. \A c \in CPaths : tree[c] = IF c \in done THEN result[c] ELSE before[c]
    BY <1>3
  <2> QED BY <1>4, <2>1
<1>6. \/ before' = partly
      \/ \E c \in due \ done : before' = [partly EXCEPT ![c] = Torn]
  <2>1. CASE UNCHANGED tree
    BY <1>1, <1>5, <2>1
  <2>2. CASE tree' # tree
    <3>1. PICK p \in Visited(job) :
             /\ Writes(job, p)
             /\ tree' = [tree EXCEPT ![At(job.slice, job.target, p).cpath] = Torn]
      BY <2>2, FlightStep, ConstantsOK DEF HNext
    <3> DEFINE c == At(job.slice, job.target, p).cpath
    <3>2. c \in CPaths /\ tree[c] # Promise!Given(tree[c], job, c)
      BY <3>1, WriteIsDue DEF IInv
    <3>3. Promise!Given(tree[c], job, c) = result[c]
      BY <1>1, <1>2, <3>2 DEF BeforeInv
    <3>4. c \in due \ done
      <4> HIDE DEF result, c
      <4> QED BY <1>3, <3>2, <3>3
    <3>5. before' = [partly EXCEPT ![c] = Torn]
      BY <1>1, <1>5, <3>1
    <3> HIDE DEF due, done, partly, c
    <3> QED BY <3>4, <3>5
  <2> QED BY <2>1, <2>2
<1>7. done \in SUBSET due
  OBVIOUS
<1> HIDE DEF done
<1> QED BY <1>1, <1>6, <1>7 DEF Promise!Interrupted

(* The apply of the code, file by file in any order, killed anywhere and run *)
(* again, implements one that happens at once, or not but for files it was   *)
(* to write, or with its files written and its manifest to be restored: for  *)
(* every surface, slice and scope (materialise.go:90, manifest.go:171).      *)
THEOREM AppliesAsOne == HSpec => AppliesAtOnce
<1>1. HInit => Promise!Init
  BY DEF HInit, Init, Promise!Init
<1>2. IInv /\ DoneInv /\ BeforeInv /\ [HNext]_hvars => [Promise!Next]_(Promise!vars)
  <2> SUFFICES ASSUME IInv, DoneInv, BeforeInv, HNext
               PROVE  Promise!Next \/ UNCHANGED <<before, manifest, unreadable>>
    BY DEF hvars, vars, Promise!vars
  <2>1. Promise!Jobs = Jobs
    BY DEF Promise!Jobs, Jobs
  <2>2. CASE WriteManifest
    <3>1. job \in Jobs
      BY <2>2 DEF WriteManifest, IInv, TypeOK, Idle
    <3> QED BY <2>1, <2>2, <3>1, EndsAsPromised DEF Promise!Next
  <2>3. CASE job \in Jobs /\ CrashInManifest
    BY <2>1, <2>3, LeavesAsPromised DEF Promise!Next
  <2>6. CASE job \in Jobs /\ ~WriteManifest /\ ~CrashInManifest /\ job' = NoJob
    BY <2>1, <2>6, DiesAsPromised DEF Promise!Next
  <2>4. CASE job \in Jobs /\ ~WriteManifest /\ ~CrashInManifest /\ job' # NoJob
    BY <2>4, FlightStep DEF HNext
  <2>5. CASE job = NoJob
    <3>1. before = tree
      BY <2>5 DEF BeforeInv, Idle
    <3>2. ASSUME NEW j \in Jobs, Begin(j) PROVE UNCHANGED <<before, manifest, unreadable>>
      BY <3>2, ConstantsOK DEF Begin, HNext
    <3>3. ASSUME NEW c \in CPaths, NEW f \in Files \union {NoFile}, ConsumerEdit(c, f)
          PROVE  Promise!Edit(c, f)
      BY <2>5, <3>1, <3>3 DEF ConsumerEdit, HNext, Promise!Edit
    <3>4. ASSUME NEW s \in Slices, NEW p \in Paths, DropEntry(s, p) PROVE Promise!Drop(s, p)
      BY <2>5, <3>1, <3>4 DEF DropEntry, HNext, Promise!Drop
    <3>5. ASSUME NEW s \in Slices, Restore(s) PROVE Promise!Restored(s)
      BY <2>5, <3>1, <3>5 DEF Restore, HNext, Promise!Restored
    <3>6. \/ \E j \in Jobs : Begin(j)
          \/ \E c \in CPaths, f \in Files \union {NoFile} : ConsumerEdit(c, f)
          \/ \E s \in Slices, p \in Paths : DropEntry(s, p)
          \/ \E s \in Slices : Restore(s)
      BY <2>5 DEF HNext, Next, Emit, WriteManifest, Crash, CrashInWrite, CrashInManifest, Idle
    <3> QED BY <3>2, <3>3, <3>4, <3>5, <3>6 DEF Promise!Next
  <2> QED BY <2>2, <2>3, <2>4, <2>5, <2>6 DEF IInv, TypeOK
<1> QED BY <1>1, <1>2, HistoryHolds, PTL DEF HSpec, AppliesAtOnce, Promise!Spec

=============================================================================
