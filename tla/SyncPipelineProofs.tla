------------------------- MODULE SyncPipelineProofs -------------------------
(***************************************************************************)
(* Invariance proofs for SyncPipeline, for every set of releases, paths,   *)
(* places, contents and lane runs.                                         *)
(***************************************************************************)
EXTENDS SyncPipeline, TLAPS

-----------------------------------------------------------------------------
(* The order of versions.                                                    *)
\* The order, written out by component.
LEMMA LessUnfold ==
    ASSUME NEW k \in VersionKey, NEW o \in VersionKey
    PROVE  Less(k, o) <=>
             \/ k[1] < o[1]
             \/ k[1] = o[1] /\ k[2] < o[2]
             \/ k[1] = o[1] /\ k[2] = o[2] /\ k[3] < o[3]
             \/ k[1] = o[1] /\ k[2] = o[2] /\ k[3] = o[3] /\ k[4] < o[4]
             \/ k[1] = o[1] /\ k[2] = o[2] /\ k[3] = o[3] /\ k[4] = o[4] /\ k[5] < o[5]
<1>1. 1..5 = {1, 2, 3, 4, 5}
  OBVIOUS
<1>2. /\ 1..(1 - 1) = {}
      /\ 1..(2 - 1) = {1}
      /\ 1..(3 - 1) = {1, 2}
      /\ 1..(4 - 1) = {1, 2, 3}
      /\ 1..(5 - 1) = {1, 2, 3, 4}
  OBVIOUS
<1> QED
  BY <1>1, <1>2 DEF Less

\* The components of a version key are numbers.
LEMMA KeyFields ==
    ASSUME NEW k \in VersionKey
    PROVE  /\ k[1] \in Nat /\ k[2] \in Nat /\ k[3] \in Nat /\ k[4] \in {0, 1} /\ k[5] \in Nat
           /\ k = <<k[1], k[2], k[3], k[4], k[5]>>
BY DEF VersionKey

\* `Less` never holds both ways, and it is transitive.
LEMMA LessStrictOrder ==
    ASSUME NEW k \in VersionKey, NEW m \in VersionKey, NEW o \in VersionKey
    PROVE  /\ ~Less(k, k)
           /\ Less(k, m) => ~Less(m, k)
           /\ Less(k, m) /\ Less(m, o) => Less(k, o)
BY LessUnfold, KeyFields

-----------------------------------------------------------------------------
\* What the config may record as the engine's checksums.
Shas == Releases \union {Blank}

\* A snapshot whose pins agree: the vendored release is one, and the engine ref
\* names it.
Locked(s) ==
    /\ s.manifest[Slice].source \in Releases
    /\ s.other = s.manifest[Slice].source

\* Everywhere a snapshot is kept, its pins agree; a run past its compare and
\* every branch go from a release to a newer one.
LaneInv ==
    /\ Locked(main)
    /\ \A n \in Runs : runs[n] # NoRun =>
          /\ Locked(runs[n].base)
          /\ runs[n].pc # "resolve" => Less(Pinned(runs[n].base), runs[n].target)
    /\ \A u \in Upgrades : branches[u] # NoBranch =>
          /\ Locked(branches[u].base)
          /\ Locked(branches[u].head)
          /\ Pinned(branches[u].base) = u[1]
          /\ Pinned(branches[u].head) = u[2]
          /\ branches[u].head.version = u[2]
          /\ Less(u[1], u[2])
          /\ branches[u].reviews <= count.reviews

IInv == TypeOK /\ LaneInv

-----------------------------------------------------------------------------
\* What a release says of a path is well-typed (a consequence of Surfaces).
LEMMA AtType ==
    ASSUME NEW s, NEW r \in Releases, NEW p \in Paths
    PROVE  /\ On(s)!At(Slice, r, p).class \in {"none", "exported", "seeded"}
           /\ On(s)!At(Slice, r, p).cpath \in CPaths
           /\ On(s)!At(Slice, r, p).file \in Files
           /\ On(s)!NewEntry(Slice, r, p) \in On(Bare)!Entry
<1>1. Surface[Slice][r][p] \in On(Bare)!Item
  <2>1. Surface \in [Slices -> [Releases -> [Paths -> On(Bare)!Item]]]
    BY Surfaces DEF Surfaces
  <2>2. Surface[Slice] \in [Releases -> [Paths -> On(Bare)!Item]]
    BY <2>1, SyncConstants DEF SyncConstants
  <2> QED
    BY <2>2
<1>2. /\ On(s)!At(Slice, r, p).class \in {"none", "exported", "seeded"}
      /\ On(s)!At(Slice, r, p).cpath \in CPaths
      /\ On(s)!At(Slice, r, p).file \in Files
  BY <1>1 DEF On!At, On!Item, On!Classes
<1>3. On(s)!NewEntry(Slice, r, p) \in On(Bare)!Entry
  BY <1>2 DEF On!NewEntry, On!Entry, On!Digests
<1> QED
  BY <1>2, <1>3

\* The snapshot an apply of release r that reconciles leaves.
Adopted(s, r, v, k) == Adopt(s, Job(r, TRUE), v, k)

\* An apply that ran to its end leaves a snapshot of the right types.
LEMMA AdoptType ==
    ASSUME NEW s \in Snapshot, NEW r \in Releases, NEW v \in Releases, NEW k \in Shas,
           Pinned(s) \in Pins
    PROVE  /\ Adopted(s, r, v, k) \in Snapshot
           /\ Adopted(s, r, v, k).manifest[Slice].source = r
           /\ Adopted(s, r, v, k).version = v
           /\ Adopted(s, r, v, k).sha = k
           /\ Adopted(s, r, v, k).other = Advance(s.other, Pinned(s), r)
<1> DEFINE j == Job(r, TRUE)
<1>1. On(s)!AppliedTree(j) \in [CPaths -> Files \union {NoFile}]
  <2> SUFFICES ASSUME NEW c \in CPaths
               PROVE  On(s)!AppliedTree(j)[c] \in Files \union {NoFile}
    BY DEF On!AppliedTree
  <2> DEFINE writing == {p \in On(s)!Visited(j) :
                           /\ On(s)!Writes(j, p)
                           /\ On(s)!At(j.slice, j.target, p).cpath = c}
  <2>1. On(s)!AppliedTree(j)[c] =
           IF writing = {} THEN s.tree[c]
           ELSE On(s)!At(j.slice, j.target, CHOOSE p \in writing : TRUE).file
    BY DEF On!AppliedTree
  <2>2. writing \subseteq Paths
    BY DEF On!Visited, On!Tracked, On!Candidates, On!Offered, On!Exported, On!Seeded
  <2>3. j.slice = Slice /\ j.target = r
    BY DEF Job
  <2>4. CASE writing = {}
    BY <2>1, <2>4 DEF Snapshot
  <2>5. CASE writing # {}
    <3> DEFINE q == CHOOSE p \in writing : TRUE
    <3>1. q \in Paths
      BY <2>2, <2>5
    <3>2. On(s)!AppliedTree(j)[c] = On(s)!At(Slice, r, q).file
      BY <2>1, <2>3, <2>5
    <3> HIDE DEF q
    <3> QED
      BY <3>1, <3>2, AtType
  <2> QED
    BY <2>4, <2>5
<1>2. On(s)!Projection(j) \in [source  : Releases \union {NoRelease},
                               entries : [Paths -> On(Bare)!Entry \union {Untracked}]]
  BY AtType DEF On!Projection, Job
<1>3. On(s)!Projection(j).source = r
  BY DEF On!Projection, Job
<1>4. \A pin \in Pins : Advance(pin, Pinned(s), r) \in Pins
  BY DEF Advance, Pins
<1>5. /\ s.manifest \in [Slices -> [source  : Releases \union {NoRelease},
                                    entries : [Paths -> On(Bare)!Entry \union {Untracked}]]]
      /\ s.own \in Pins /\ s.other \in Pins
  BY DEF Snapshot
<1>6. j.target = r
  BY DEF Job
<1>7. Slice \in Slices
  BY SyncConstants DEF SyncConstants
<1> HIDE DEF j
<1> QED
  BY <1>1, <1>2, <1>3, <1>4, <1>5, <1>6, <1>7 DEF Adopted, Adopt, Snapshot, Shas, j

\* The content pin of a snapshot with a release plays no part in what is pinned.
LEMMA LockedPinned ==
    ASSUME NEW s, Locked(s)
    PROVE  Pinned(s) = s.manifest[Slice].source /\ Pinned(s) \in Releases /\ s.other = Pinned(s)
BY SyncConstants DEF Locked, Pinned, SyncConstants

\* Adopting a release leaves the pins in step with it, when they were before.
LEMMA AdoptLocked ==
    ASSUME NEW s \in Snapshot, NEW r \in Releases, NEW v \in Releases, NEW k \in Shas,
           Locked(s)
    PROVE  /\ Adopted(s, r, v, k) \in Snapshot
           /\ Locked(Adopted(s, r, v, k))
           /\ Pinned(Adopted(s, r, v, k)) = r
           /\ Adopted(s, r, v, k).version = v
           /\ Adopted(s, r, v, k).sha = k
<1> DEFINE a == Adopted(s, r, v, k)
<1>1. Pinned(s) \in Releases /\ s.other = Pinned(s)
  BY LockedPinned
<1>2. Pinned(s) \in Pins
  BY <1>1 DEF Pins
<1>3. /\ a \in Snapshot
      /\ a.manifest[Slice].source = r
      /\ a.version = v /\ a.sha = k
      /\ a.other = Advance(s.other, Pinned(s), r)
  BY <1>2, AdoptType
<1>4. a.other = r
  BY <1>1, <1>3 DEF Advance
<1> HIDE DEF a
<1>5. Locked(a)
  BY <1>3, <1>4 DEF Locked
<1>6. Pinned(a) = r
  BY <1>3, <1>5, LockedPinned
<1> QED
  BY <1>3, <1>5, <1>6 DEF a

\* What a run commits is in step too.
LEMMA SyncedLocked ==
    ASSUME NEW s \in Snapshot, Locked(s), NEW r \in Releases
    PROVE  /\ Synced(s, r) \in Snapshot
           /\ Locked(Synced(s, r))
           /\ Pinned(Synced(s, r)) = r
           /\ Synced(s, r).version = r
           /\ Synced(s, r).sha = Blank
<1>1. Blank \in Shas /\ Synced(s, r) = Adopted(s, r, r, Blank)
  BY DEF Shas, Synced, Adopted
<1> QED
  BY <1>1, AdoptLocked

\* What a merge leaves is of the right types, hunk by hunk.
LEMMA MergeType ==
    ASSUME NEW b \in Snapshot, NEW m \in Snapshot, NEW h \in Snapshot
    PROVE  /\ Merged(b, m, h) \in Snapshot
           /\ \A c \in CPaths : Merged(b, m, h).tree[c] = Hunk(b.tree[c], m.tree[c], h.tree[c])
           /\ \A s \in Slices : Merged(b, m, h).manifest[s]
                                  = Hunk(b.manifest[s], m.manifest[s], h.manifest[s])
           /\ Merged(b, m, h).own = Hunk(b.own, m.own, h.own)
           /\ Merged(b, m, h).other = Hunk(b.other, m.other, h.other)
           /\ Merged(b, m, h).version = Hunk(b.version, m.version, h.version)
           /\ Merged(b, m, h).sha = Hunk(b.sha, m.sha, h.sha)
BY DEF Merged, Hunks, Hunk, Snapshot

\* What a merge without conflicts knows, hunk by hunk.
LEMMA MergeAgrees ==
    ASSUME NEW b, NEW m, NEW h, Mergeable(b, m, h)
    PROVE  /\ \A c \in CPaths : Agree(b.tree[c], m.tree[c], h.tree[c])
           /\ Agree(b.manifest[Slice], m.manifest[Slice], h.manifest[Slice])
           /\ Agree(b.own, m.own, h.own)
           /\ Agree(b.other, m.other, h.other)
           /\ Agree(b.version, m.version, h.version)
           /\ Agree(b.sha, m.sha, h.sha)
BY SyncConstants DEF Mergeable, Hunks, SyncConstants

\* A merge moves the manifest and the pins together: either main stood where the
\* branch began and takes its release, or it already is at that release.
LEMMA MergeLocked ==
    ASSUME NEW b \in Snapshot, NEW m \in Snapshot, NEW h \in Snapshot,
           Mergeable(b, m, h), Locked(b), Locked(m), Locked(h),
           Pinned(b) # Pinned(h)
    PROVE  LET g == Merged(b, m, h)
           IN  /\ g \in Snapshot
               /\ Locked(g)
               /\ \/ /\ m.manifest[Slice] = b.manifest[Slice]
                     /\ g.manifest[Slice] = h.manifest[Slice]
                  \/ /\ m.manifest[Slice] = h.manifest[Slice]
                     /\ g.manifest[Slice] = m.manifest[Slice]
<1> DEFINE g == Merged(b, m, h)
<1>1. /\ g \in Snapshot
      /\ g.manifest[Slice] = Hunk(b.manifest[Slice], m.manifest[Slice], h.manifest[Slice])
      /\ g.other = Hunk(b.other, m.other, h.other)
  <2>1. Slice \in Slices
    BY SyncConstants DEF SyncConstants
  <2> QED
    BY <2>1, MergeType
<1>2. /\ Agree(b.manifest[Slice], m.manifest[Slice], h.manifest[Slice])
      /\ b.manifest[Slice] # h.manifest[Slice]
  BY MergeAgrees, LockedPinned
<1> HIDE DEF g
<1>4. CASE m.manifest[Slice] = b.manifest[Slice]
  <2>1. g.manifest[Slice] = h.manifest[Slice] /\ g.other = h.other
    BY <1>1, <1>4 DEF Hunk, Locked
  <2> QED
    BY <1>1, <1>4, <2>1 DEF Locked, g
<1>5. CASE m.manifest[Slice] # b.manifest[Slice]
  <2>1. m.manifest[Slice] = h.manifest[Slice]
    BY <1>2, <1>5 DEF Agree
  <2>2. g.manifest[Slice] = m.manifest[Slice] /\ g.other = m.other
    BY <1>1, <1>5, <2>1 DEF Hunk, Locked
  <2> QED
    BY <1>1, <2>1, <2>2 DEF Locked, g
<1> QED
  BY <1>4, <1>5

-----------------------------------------------------------------------------
\* Onboarding leaves main with its pins in step.
LEMMA InitInv == Init => IInv
<1> SUFFICES ASSUME Init PROVE IInv
  OBVIOUS
<1>1. Bare \in Snapshot /\ Pinned(Bare) = Onboarded
  <2>1. Onboarded \in Releases /\ Slice \in Slices
    BY SyncConstants DEF SyncConstants
  <2> QED
    BY <2>1 DEF Bare, Snapshot, Pins, Pinned
<1>2. /\ Onboarded \in Releases /\ Onboarded \in Pins
      /\ Bare.version \in Releases /\ Bare.sha \in Shas
      /\ main = Adopted(Bare, Onboarded, Bare.version, Bare.sha)
  BY SyncConstants DEF SyncConstants, Pins, Bare, Shas, Adopted, Init
<1>3. /\ main \in Snapshot
      /\ main.manifest[Slice].source = Onboarded
      /\ main.other = Advance(Bare.other, Onboarded, Onboarded)
  BY <1>1, <1>2, AdoptType
<1>4. main.other = Onboarded
  BY <1>3 DEF Advance, Bare
<1>5. Locked(main)
  BY <1>2, <1>3, <1>4 DEF Locked
<1>6. LaneInv
  BY <1>5 DEF LaneInv, Init
<1>7. TypeOK
  <2>1. /\ MaxEdits \in Nat /\ MaxBumps \in Nat /\ MaxUpdates \in Nat /\ MaxReviews \in Nat
    BY SyncConstants DEF SyncConstants
  <2>2. count \in [edits : 0..MaxEdits, bumps : 0..MaxBumps, updates : 0..MaxUpdates,
                   reviews : 0..MaxReviews]
    BY <2>1 DEF Init
  <2> QED
    BY <1>2, <1>3, <2>2 DEF TypeOK, Init
<1> QED
  BY <1>6, <1>7 DEF IInv

-----------------------------------------------------------------------------
\* What every step keeps, and how it moves the vendored release: not at all, or up.
Forward == \/ main'.manifest[Slice] = main.manifest[Slice]
           \/ Less(Pinned(main), Pinned(main'))

LEMMA PublishInv == ASSUME IInv, NEW r \in Releases, Publish(r) PROVE IInv' /\ Forward
<1> USE DEF IInv, Publish
<1>1. published' \subseteq Releases /\ retracts' \in [Releases -> SUBSET Releases]
  BY DEF TypeOK
<1>2. TypeOK'
  BY <1>1 DEF TypeOK
<1>3. LaneInv' /\ Forward
  BY DEF LaneInv, Forward
<1> QED
  BY <1>2, <1>3

LEMMA ConsumerEditInv ==
    ASSUME IInv, NEW c \in CPaths, NEW f \in Files \union {NoFile}, ConsumerEdit(c, f)
    PROVE  IInv' /\ Forward
<1> USE DEF IInv, ConsumerEdit
<1>1. /\ main' \in Snapshot
      /\ main'.manifest = main.manifest /\ main'.other = main.other
  BY DEF TypeOK, Snapshot
<1>2. TypeOK'
  <2>1. count' \in [edits : 0..MaxEdits, bumps : 0..MaxBumps, updates : 0..MaxUpdates,
                    reviews : 0..MaxReviews]
    BY SyncConstants DEF TypeOK, SyncConstants
  <2>2. authored' \in [CPaths -> SUBSET (Files \union {NoFile})]
    BY DEF TypeOK
  <2> QED
    BY <1>1, <2>1, <2>2 DEF TypeOK
<1>3. Locked(main')
  BY <1>1 DEF LaneInv, Locked
<1>4. count'.reviews = count.reviews
  BY DEF TypeOK
<1>5. LaneInv' /\ Forward
  BY <1>1, <1>3, <1>4 DEF LaneInv, Forward
<1> QED
  BY <1>2, <1>5

LEMMA BumpPinInv == ASSUME IInv, NEW r \in Releases, BumpPin(r) PROVE IInv' /\ Forward
<1> USE DEF IInv, BumpPin
<1>1. /\ main' \in Snapshot
      /\ main'.manifest = main.manifest /\ main'.other = main.other
  BY DEF TypeOK, Snapshot, Pins
<1>2. TypeOK'
  <2>1. count' \in [edits : 0..MaxEdits, bumps : 0..MaxBumps, updates : 0..MaxUpdates,
                    reviews : 0..MaxReviews]
    BY SyncConstants DEF TypeOK, SyncConstants
  <2> QED
    BY <1>1, <2>1 DEF TypeOK
<1>3. Locked(main')
  BY <1>1 DEF LaneInv, Locked
<1>4. count'.reviews = count.reviews
  BY DEF TypeOK
<1>5. LaneInv' /\ Forward
  BY <1>1, <1>3, <1>4 DEF LaneInv, Forward
<1> QED
  BY <1>2, <1>5

LEMMA UpdateLocalInv ==
    ASSUME IInv, NEW r \in Releases, NEW seen \in BOOLEAN, UpdateLocal(r, seen)
    PROVE  IInv' /\ Forward
<1> USE DEF IInv
<1>1. /\ main \in Snapshot /\ Locked(main)
      /\ main.version \in Releases /\ main.sha \in Shas
      /\ main' = Adopted(main, r, main.version, main.sha)
      /\ r \in published /\ published \subseteq Releases /\ Less(Pinned(main), r)
      /\ count.updates < MaxUpdates /\ count' = [count EXCEPT !.updates = @ + 1]
      /\ UNCHANGED <<published, retracts, runs, branches, cached, authored>>
  BY DEF UpdateLocal, IsNewer, TypeOK, LaneInv, Snapshot, Shas, Adopted
<1>2. main' \in Snapshot /\ Locked(main') /\ Pinned(main') = r
  BY <1>1, AdoptLocked
<1>3. Less(Pinned(main), Pinned(main'))
  BY <1>1, <1>2
<1>4. TypeOK'
  <2>1. count' \in [edits : 0..MaxEdits, bumps : 0..MaxBumps, updates : 0..MaxUpdates,
                    reviews : 0..MaxReviews]
    BY <1>1, SyncConstants DEF TypeOK, SyncConstants
  <2> QED
    BY <1>1, <1>2, <2>1 DEF TypeOK
<1>5. count'.reviews = count.reviews
  BY <1>1 DEF TypeOK
<1>6. LaneInv' /\ Forward
  BY <1>1, <1>2, <1>3, <1>5 DEF LaneInv, Forward
<1> QED
  BY <1>4, <1>6

\* A run starts with main as its checkout.
LEMMA StartInv ==
    ASSUME IInv, NEW n \in Runs, NEW t \in Releases, Start(n, t),
           cached' \in Releases \union {NoEngine},
           \/ UNCHANGED count
           \/ /\ count.updates < MaxUpdates
              /\ count' = [count EXCEPT !.updates = @ + 1]
    PROVE  IInv' /\ Forward
<1> USE DEF IInv, Start
<1>1. /\ count' \in [edits : 0..MaxEdits, bumps : 0..MaxBumps, updates : 0..MaxUpdates,
                     reviews : 0..MaxReviews]
      /\ count'.reviews = count.reviews
  BY SyncConstants DEF TypeOK, SyncConstants
<1>2. TypeOK'
  BY <1>1 DEF TypeOK
<1>3. \A k \in Runs : runs'[k] # NoRun =>
         /\ Locked(runs'[k].base)
         /\ runs'[k].pc # "resolve" => Less(Pinned(runs'[k].base), runs'[k].target)
  <2> SUFFICES ASSUME NEW k \in Runs, runs'[k] # NoRun
               PROVE  /\ Locked(runs'[k].base)
                      /\ runs'[k].pc # "resolve" => Less(Pinned(runs'[k].base), runs'[k].target)
    OBVIOUS
  <2>1. CASE k = n
    BY <2>1 DEF TypeOK, LaneInv
  <2>2. CASE k # n
    <3>1. runs'[k] = runs[k]
      BY <2>2 DEF TypeOK
    <3> QED
      BY <3>1 DEF LaneInv
  <2> QED
    BY <2>1, <2>2
<1>4. LaneInv' /\ Forward
  BY <1>1, <1>3 DEF LaneInv, Forward
<1> QED
  BY <1>2, <1>4

LEMMA ScheduleInv == ASSUME IInv, NEW n \in Runs, Schedule(n) PROVE IInv' /\ Forward
<1>1. main.own \in Releases /\ cached' \in Releases \union {NoEngine}
  BY DEF Schedule, IInv, TypeOK
<1> QED
  BY <1>1, StartInv DEF Schedule

LEMMA UpdatePRInv ==
    ASSUME IInv, NEW n \in Runs, NEW r \in Releases, UpdatePR(n, r) PROVE IInv' /\ Forward
<1>1. cached' \in Releases \union {NoEngine}
  BY DEF UpdatePR, IInv, TypeOK
<1> QED
  BY <1>1, StartInv DEF UpdatePR

LEMMA EvictInv == ASSUME IInv, Evict PROVE IInv' /\ Forward
BY DEF Evict, IInv, TypeOK, LaneInv, Forward

LEMMA RefillInv == ASSUME IInv, Refill PROVE IInv' /\ Forward
<1> USE DEF IInv, Refill
<1>1. main' \in Snapshot /\ main'.manifest = main.manifest /\ main'.other = main.other
  BY DEF TypeOK, Snapshot
<1>2. /\ count' \in [edits : 0..MaxEdits, bumps : 0..MaxBumps, updates : 0..MaxUpdates,
                     reviews : 0..MaxReviews]
      /\ count.reviews \in Nat /\ count'.reviews = count.reviews + 1
  BY SyncConstants DEF TypeOK, SyncConstants
<1>3. TypeOK'
  BY <1>1, <1>2 DEF TypeOK
<1>4. Locked(main')
  BY <1>1 DEF LaneInv, Locked
<1>5. \A u \in Upgrades : branches[u] # NoBranch => branches[u].reviews <= count'.reviews
  <2> SUFFICES ASSUME NEW u \in Upgrades, branches[u] # NoBranch
               PROVE  branches[u].reviews <= count'.reviews
    OBVIOUS
  <2>1. branches[u].reviews \in Nat
    BY SyncConstants DEF TypeOK, SyncConstants
  <2> QED
    BY <1>2, <2>1 DEF LaneInv
<1>6. LaneInv' /\ Forward
  BY <1>1, <1>4, <1>5 DEF LaneInv, Forward
<1> QED
  BY <1>3, <1>6

\* A run that goes on from its compare goes to a newer release.
LEMMA ResolveInv ==
    ASSUME IInv, NEW n \in Runs, NEW seen \in BOOLEAN, Resolve(n, seen)
    PROVE  IInv' /\ Forward
<1> USE DEF IInv
<1> DEFINE run == runs[n]
           goes == /\ IsNewer(Pinned(run.base), run.target, Retracted(run.target, seen))
                   /\ On(run.base)!Changed(Job(run.target, FALSE))
<1>1. /\ run # NoRun
      /\ runs' = [runs EXCEPT ![n] = IF goes THEN [run EXCEPT !.pc = "push"] ELSE NoRun]
      /\ UNCHANGED <<published, retracts, main, branches, cached, count, authored>>
      /\ goes => Less(Pinned(run.base), run.target)
  BY DEF Resolve, IsNewer
<1> HIDE DEF goes
<1>2. run \in [pc : {"resolve", "push", "deliver"}, base : Snapshot, target : Releases]
  BY <1>1 DEF TypeOK
<1>3. TypeOK'
  BY <1>1, <1>2 DEF TypeOK
<1>4. \A k \in Runs : runs'[k] # NoRun =>
         /\ Locked(runs'[k].base)
         /\ runs'[k].pc # "resolve" => Less(Pinned(runs'[k].base), runs'[k].target)
  <2> SUFFICES ASSUME NEW k \in Runs, runs'[k] # NoRun
               PROVE  /\ Locked(runs'[k].base)
                      /\ runs'[k].pc # "resolve" => Less(Pinned(runs'[k].base), runs'[k].target)
    OBVIOUS
  <2>1. CASE k = n
    <3>1. goes /\ runs'[k].base = run.base /\ runs'[k].target = run.target
      BY <1>1, <1>2, <2>1 DEF TypeOK
    <3> QED
      BY <1>1, <2>1, <3>1 DEF LaneInv
  <2>2. CASE k # n
    <3>1. runs'[k] = runs[k]
      BY <1>1, <2>2 DEF TypeOK
    <3> QED
      BY <3>1 DEF LaneInv
  <2> QED
    BY <2>1, <2>2
<1>5. LaneInv' /\ Forward
  BY <1>1, <1>4 DEF LaneInv, Forward
<1> QED
  BY <1>3, <1>5

\* A push replaces the branch of its upgrade by one between the same two releases.
LEMMA PushInv == ASSUME IInv, NEW n \in Runs, Push(n) PROVE IInv' /\ Forward
<1> USE DEF IInv
<1> DEFINE run == runs[n]
           u == <<Pinned(run.base), run.target>>
           head == Synced(run.base, run.target)
           new == [base |-> run.base, head |-> head,
                   open |-> branches[u] # NoBranch /\ branches[u].open, reviews |-> 0]
<1>1. /\ run \in [pc : {"resolve", "push", "deliver"}, base : Snapshot, target : Releases]
      /\ run.pc = "push" /\ run # NoRun
      /\ Locked(run.base) /\ Less(Pinned(run.base), run.target)
  BY DEF Push, TypeOK, LaneInv
<1>2. /\ branches' = [branches EXCEPT ![u] = new]
      /\ runs' = [runs EXCEPT ![n].pc = "deliver"]
      /\ UNCHANGED <<published, retracts, main, cached, count, authored>>
  BY DEF Push
<1>3. Pinned(run.base) \in Releases /\ u \in Upgrades
  BY <1>1, LockedPinned DEF Upgrades
<1>4. /\ head \in Snapshot /\ Locked(head) /\ Pinned(head) = run.target
      /\ head.version = run.target
  BY <1>1, SyncedLocked
<1> HIDE DEF head
<1>5. /\ new.base = run.base /\ new.head = head /\ new.reviews = 0
      /\ new \in [base : Snapshot, head : Snapshot, open : BOOLEAN, reviews : 0..MaxReviews]
  BY <1>1, <1>4, SyncConstants DEF SyncConstants
<1> HIDE DEF new
<1>6. TypeOK'
  <2>1. branches' \in [Upgrades -> [base : Snapshot, head : Snapshot, open : BOOLEAN,
                                    reviews : 0..MaxReviews] \union {NoBranch}]
    BY <1>2, <1>3, <1>5 DEF TypeOK
  <2>2. runs' \in [Runs -> [pc : {"resolve", "push", "deliver"}, base : Snapshot,
                            target : Releases] \union {NoRun}]
    BY <1>1, <1>2 DEF TypeOK
  <2> QED
    BY <1>2, <2>1, <2>2 DEF TypeOK
<1>7. \A k \in Runs : runs'[k] # NoRun =>
         /\ Locked(runs'[k].base)
         /\ runs'[k].pc # "resolve" => Less(Pinned(runs'[k].base), runs'[k].target)
  <2> SUFFICES ASSUME NEW k \in Runs, runs'[k] # NoRun
               PROVE  /\ Locked(runs'[k].base)
                      /\ runs'[k].pc # "resolve" => Less(Pinned(runs'[k].base), runs'[k].target)
    OBVIOUS
  <2>1. CASE k = n
    BY <1>1, <1>2, <2>1 DEF TypeOK
  <2>2. CASE k # n
    <3>1. runs'[k] = runs[k]
      BY <1>2, <2>2 DEF TypeOK
    <3> QED
      BY <3>1 DEF LaneInv
  <2> QED
    BY <2>1, <2>2
<1>8. \A v \in Upgrades : branches'[v] # NoBranch =>
          /\ Locked(branches'[v].base)
          /\ Locked(branches'[v].head)
          /\ Pinned(branches'[v].base) = v[1]
          /\ Pinned(branches'[v].head) = v[2]
          /\ branches'[v].head.version = v[2]
          /\ Less(v[1], v[2])
          /\ branches'[v].reviews <= count'.reviews
  <2> SUFFICES ASSUME NEW v \in Upgrades, branches'[v] # NoBranch
               PROVE  /\ Locked(branches'[v].base)
                      /\ Locked(branches'[v].head)
                      /\ Pinned(branches'[v].base) = v[1]
                      /\ Pinned(branches'[v].head) = v[2]
                      /\ branches'[v].head.version = v[2]
                      /\ Less(v[1], v[2])
                      /\ branches'[v].reviews <= count'.reviews
    OBVIOUS
  <2>1. CASE v = u
    <3>1. branches'[v] = new
      BY <1>2, <2>1 DEF TypeOK
    <3>2. v[1] = Pinned(run.base) /\ v[2] = run.target
      BY <2>1
    <3>3. 0 <= count'.reviews
      BY <1>2, SyncConstants DEF TypeOK, SyncConstants
    <3> QED
      BY <1>1, <1>4, <1>5, <3>1, <3>2, <3>3
  <2>2. CASE v # u
    <3>1. branches'[v] = branches[v] /\ count' = count
      BY <1>2, <2>2 DEF TypeOK
    <3> QED
      BY <3>1 DEF LaneInv
  <2> QED
    BY <2>1, <2>2
<1>9. Locked(main') /\ Forward
  BY <1>2 DEF LaneInv, Forward
<1> QED
  BY <1>6, <1>7, <1>8, <1>9 DEF LaneInv

LEMMA DeliverInv == ASSUME IInv, NEW n \in Runs, Deliver(n) PROVE IInv' /\ Forward
<1> USE DEF IInv
<1> DEFINE u == <<Pinned(runs[n].base), runs[n].target>>
<1>1. /\ runs[n] # NoRun /\ branches[u] # NoBranch
      /\ branches' = [branches EXCEPT ![u].open = TRUE]
      /\ runs' = [runs EXCEPT ![n] = NoRun]
      /\ UNCHANGED <<published, retracts, main, cached, count, authored>>
  BY DEF Deliver
<1>2. u \in Upgrades
  <2>1. Locked(runs[n].base) /\ runs[n].target \in Releases
    BY <1>1 DEF TypeOK, LaneInv
  <2> QED
    BY <2>1, LockedPinned DEF Upgrades
<1> HIDE DEF u
<1>3. TypeOK'
  BY <1>1, <1>2 DEF TypeOK
<1>4. \A v \in Upgrades : branches'[v] # NoBranch =>
         /\ branches[v] # NoBranch
         /\ branches'[v].base = branches[v].base /\ branches'[v].head = branches[v].head
         /\ branches'[v].reviews = branches[v].reviews
  BY <1>1, <1>2 DEF TypeOK
<1>5. \A k \in Runs : runs'[k] # NoRun => runs'[k] = runs[k]
  BY <1>1 DEF TypeOK
<1>6. LaneInv' /\ Forward
  BY <1>1, <1>4, <1>5 DEF LaneInv, Forward
<1> QED
  BY <1>3, <1>6

LEMMA StopInv == ASSUME IInv, NEW n \in Runs, Stop(n) PROVE IInv' /\ Forward
<1> USE DEF IInv, Stop
<1>1. TypeOK'
  BY DEF TypeOK
<1>2. \A k \in Runs : runs'[k] # NoRun => runs'[k] = runs[k]
  BY DEF TypeOK
<1>3. LaneInv' /\ Forward
  BY <1>2 DEF LaneInv, Forward
<1> QED
  BY <1>1, <1>3

\* A reviewer touches the head's files or its engine checksum, not its pins.
LEMMA ReviewInv == ASSUME IInv, NEW u \in Upgrades, Review(u) PROVE IInv' /\ Forward
<1> USE DEF IInv
<1>1. /\ branches[u] # NoBranch
      /\ branches[u] \in [base : Snapshot, head : Snapshot, open : BOOLEAN,
                          reviews : 0..MaxReviews]
      /\ branches[u].reviews <= count.reviews /\ count.reviews < MaxReviews
      /\ count' = [count EXCEPT !.reviews = @ + 1]
      /\ UNCHANGED <<published, retracts, main, runs, cached>>
  BY DEF Review, TypeOK, LaneInv
<1>2. /\ branches[u].reviews \in Nat /\ count.reviews \in Nat /\ MaxReviews \in Nat
      /\ count \in [edits : 0..MaxEdits, bumps : 0..MaxBumps, updates : 0..MaxUpdates,
                    reviews : 0..MaxReviews]
  BY <1>1, SyncConstants DEF SyncConstants, TypeOK
<1>3. /\ count' \in [edits : 0..MaxEdits, bumps : 0..MaxBumps, updates : 0..MaxUpdates,
                     reviews : 0..MaxReviews]
      /\ count'.reviews = count.reviews + 1
  BY <1>1, <1>2
<1> DEFINE refilled == [branches EXCEPT ![u].head.sha = u[2], ![u].reviews = @ + 1]
           pruned(c) == [branches EXCEPT ![u].head.tree[c] = NoFile, ![u].reviews = @ + 1]
<1>4. ASSUME NEW new, branches' = [branches EXCEPT ![u] = new],
             new \in [base : Snapshot, head : Snapshot, open : BOOLEAN, reviews : 0..MaxReviews],
             new.base = branches[u].base, new.head.manifest = branches[u].head.manifest,
             new.head.other = branches[u].head.other,
             new.head.version = branches[u].head.version,
             new.head.sha \in {branches[u].head.sha, u[2]},
             new.reviews = branches[u].reviews + 1,
             authored' \in [CPaths -> SUBSET (Files \union {NoFile})]
      PROVE  IInv' /\ Forward
  <2>1. TypeOK'
    BY <1>1, <1>3, <1>4 DEF TypeOK
  <2>2. /\ Locked(branches[u].base) /\ Locked(branches[u].head)
        /\ Pinned(branches[u].base) = u[1] /\ Pinned(branches[u].head) = u[2]
        /\ branches[u].head.version = u[2] /\ Less(u[1], u[2])
    BY <1>1 DEF LaneInv
  <2>3. Locked(new.head)
    BY <1>4, <2>2 DEF Locked
  <2>4. Pinned(new.head) = u[2]
    <3>1. Pinned(new.head) = new.head.manifest[Slice].source
      BY <2>3, LockedPinned
    <3>2. Pinned(branches[u].head) = branches[u].head.manifest[Slice].source
      BY <2>2, LockedPinned
    <3> QED
      BY <1>4, <2>2, <3>1, <3>2
  <2>5. new.reviews <= count'.reviews
    BY <1>1, <1>2, <1>3, <1>4
  <2>6. branches'[u] = new /\ \A v \in Upgrades \ {u} : branches'[v] = branches[v]
    BY <1>4 DEF TypeOK
  <2>7. \A v \in Upgrades : branches'[v] # NoBranch =>
          /\ Locked(branches'[v].base)
          /\ Locked(branches'[v].head)
          /\ Pinned(branches'[v].base) = v[1]
          /\ Pinned(branches'[v].head) = v[2]
          /\ branches'[v].head.version = v[2]
          /\ Less(v[1], v[2])
          /\ branches'[v].reviews <= count'.reviews
    <3> SUFFICES ASSUME NEW v \in Upgrades, branches'[v] # NoBranch
                 PROVE  /\ Locked(branches'[v].base)
                        /\ Locked(branches'[v].head)
                        /\ Pinned(branches'[v].base) = v[1]
                        /\ Pinned(branches'[v].head) = v[2]
                        /\ branches'[v].head.version = v[2]
                        /\ Less(v[1], v[2])
                        /\ branches'[v].reviews <= count'.reviews
      OBVIOUS
    <3>1. CASE v = u
      BY <1>4, <2>2, <2>3, <2>4, <2>5, <2>6, <3>1
    <3>2. CASE v # u
      <4>1. branches'[v] = branches[v] /\ branches[v].reviews \in Nat
        BY <2>6, <3>2, SyncConstants DEF TypeOK, SyncConstants
      <4>2. branches[v].reviews <= count'.reviews
        BY <1>2, <1>3, <4>1 DEF LaneInv
      <4> QED
        BY <4>1, <4>2 DEF LaneInv
    <3> QED
      BY <3>1, <3>2
  <2> QED
    BY <1>1, <2>1, <2>7 DEF LaneInv, Forward
<1>5. CASE branches' = refilled /\ UNCHANGED authored
  <2> DEFINE hd == [branches[u].head EXCEPT !.sha = u[2]]
             new == [branches[u] EXCEPT !.head = hd, !.reviews = @ + 1]
  <2>1. branches' = [branches EXCEPT ![u] = new]
    BY <1>5, <1>1 DEF TypeOK
  <2>2. u[2] \in Releases
    BY DEF Upgrades
  <2>3. /\ new \in [base : Snapshot, head : Snapshot, open : BOOLEAN, reviews : 0..MaxReviews]
        /\ new.base = branches[u].base /\ new.head.manifest = branches[u].head.manifest
        /\ new.head.other = branches[u].head.other
        /\ new.head.version = branches[u].head.version
        /\ new.head.sha = u[2]
        /\ new.reviews = branches[u].reviews + 1
    <3>1. branches[u].head \in Snapshot
      BY <1>1
    <3>2. /\ hd \in Snapshot /\ hd.manifest = branches[u].head.manifest
          /\ hd.other = branches[u].head.other
          /\ hd.version = branches[u].head.version
          /\ hd.sha = u[2]
      BY <2>2, <3>1 DEF Snapshot
    <3> HIDE DEF hd
    <3>3. branches[u].reviews + 1 \in 0..MaxReviews
      BY <1>1, <1>2
    <3> QED
      BY <1>1, <3>2, <3>3
  <2> HIDE DEF new
  <2> QED
    BY <1>4, <1>5, <2>1, <2>3 DEF TypeOK
<1>6. ASSUME NEW c \in CPaths, branches' = pruned(c),
             authored' = [authored EXCEPT ![c] = @ \union {NoFile}]
      PROVE  IInv' /\ Forward
  <2> DEFINE hd == [branches[u].head EXCEPT !.tree[c] = NoFile]
             new == [branches[u] EXCEPT !.head = hd, !.reviews = @ + 1]
  <2>1. branches' = [branches EXCEPT ![u] = new]
    BY <1>6, <1>1 DEF TypeOK
  <2>2. /\ new \in [base : Snapshot, head : Snapshot, open : BOOLEAN, reviews : 0..MaxReviews]
        /\ new.base = branches[u].base /\ new.head.manifest = branches[u].head.manifest
        /\ new.head.other = branches[u].head.other
        /\ new.head.version = branches[u].head.version /\ new.head.sha = branches[u].head.sha
        /\ new.reviews = branches[u].reviews + 1
    <3>1. branches[u].head \in Snapshot
      BY <1>1
    <3>2. /\ hd \in Snapshot /\ hd.manifest = branches[u].head.manifest
          /\ hd.other = branches[u].head.other
          /\ hd.version = branches[u].head.version /\ hd.sha = branches[u].head.sha
      BY <3>1 DEF Snapshot
    <3> HIDE DEF hd
    <3>3. branches[u].reviews + 1 \in 0..MaxReviews
      BY <1>1, <1>2
    <3> QED
      BY <1>1, <3>2, <3>3
  <2>3. authored' \in [CPaths -> SUBSET (Files \union {NoFile})]
    BY <1>6 DEF TypeOK
  <2> HIDE DEF new
  <2> QED
    BY <1>4, <2>1, <2>2, <2>3
<1>7. \A c \in RemovedUpstream(u) : c \in CPaths
  <2> SUFFICES ASSUME NEW p \in Paths,
                      branches[u].base.manifest[Slice].entries[p] # Untracked
               PROVE  branches[u].base.manifest[Slice].entries[p].cpath \in CPaths
    BY DEF RemovedUpstream, On!Tracked
  <2>1. branches[u].base.manifest[Slice].entries[p] \in On(Bare)!Entry
    BY <1>1, SyncConstants DEF Snapshot, SyncConstants
  <2> QED
    BY <2>1 DEF On!Entry
<1> QED
  BY <1>5, <1>6, <1>7 DEF Review

\* A merge moves main to the branch's release or leaves it where it is.
LEMMA MergeInv == ASSUME IInv, NEW u \in Upgrades, Merge(u) PROVE IInv' /\ Forward
<1> USE DEF IInv
<1> DEFINE b == branches[u].base
           h == branches[u].head
<1>1. /\ branches[u] # NoBranch /\ Mergeable(b, main, h) /\ main' = Merged(b, main, h)
      /\ branches' = [branches EXCEPT ![u] = NoBranch]
      /\ UNCHANGED <<published, retracts, runs, cached, count, authored>>
  BY DEF Merge
<1>2. /\ b \in Snapshot /\ main \in Snapshot /\ h \in Snapshot
      /\ Locked(b) /\ Locked(main) /\ Locked(h)
      /\ Pinned(b) = u[1] /\ Pinned(h) = u[2] /\ Less(u[1], u[2])
  BY <1>1 DEF TypeOK, LaneInv
<1>3. Pinned(b) # Pinned(h)
  <2>1. u[1] \in VersionKey /\ u[2] \in VersionKey
    BY SyncConstants DEF Upgrades, SyncConstants
  <2> QED
    BY <1>2, <2>1, LessStrictOrder
<1> HIDE DEF b, h
<1>4. /\ main' \in Snapshot /\ Locked(main')
      /\ \/ /\ main.manifest[Slice] = b.manifest[Slice]
            /\ main'.manifest[Slice] = h.manifest[Slice]
         \/ /\ main.manifest[Slice] = h.manifest[Slice]
            /\ main'.manifest[Slice] = main.manifest[Slice]
  BY <1>1, <1>2, <1>3, MergeLocked
<1>5. Forward
  <2>1. CASE main.manifest[Slice] = b.manifest[Slice] /\ main'.manifest[Slice] = h.manifest[Slice]
    <3>1. Pinned(main) = u[1] /\ Pinned(main') = u[2]
      BY <1>2, <1>4, <2>1, LockedPinned
    <3> QED
      BY <1>2, <3>1 DEF Forward
  <2> QED
    BY <1>4, <2>1 DEF Forward
<1>6. TypeOK'
  BY <1>1, <1>4 DEF TypeOK
<1>7. \A v \in Upgrades : branches'[v] # NoBranch => branches'[v] = branches[v]
  BY <1>1 DEF TypeOK
<1>8. LaneInv'
  BY <1>1, <1>4, <1>7 DEF LaneInv
<1> QED
  BY <1>5, <1>6, <1>8

LEMMA NextInv == ASSUME IInv, [Next]_vars PROVE IInv' /\ Forward
<1>1. CASE UNCHANGED vars
  BY <1>1 DEF vars, IInv, TypeOK, LaneInv, Forward
<1>2. CASE Next
  BY <1>2, PublishInv, BumpPinInv, UpdateLocalInv, ConsumerEditInv, ScheduleInv, UpdatePRInv,
     ResolveInv, PushInv, DeliverInv, StopInv, ReviewInv, MergeInv, RefillInv, EvictInv DEF Next
<1> QED
  BY <1>1, <1>2

LEMMA SpecInv == Spec => []IInv
<1>1. Init => IInv
  BY InitInv
<1>2. IInv /\ [Next]_vars => IInv'
  BY NextInv
<1> QED
  BY <1>1, <1>2, PTL DEF Spec

\* No run, merge or advanced pin line leaves a version that is none.
THEOREM TypesHold == Spec => []TypeOK
<1>1. IInv => TypeOK
  BY DEF IInv
<1> QED
  BY <1>1, SpecInv, PTL

\* INV-6: the engine ref the lanes fetch is the vendored release, for any number of
\* runs, branches, reviewers and hands racing each other.
THEOREM PinsStayInLockstep == Spec => []PinsInLockstep
<1>1. IInv => PinsInLockstep
  BY LockedPinned DEF IInv, LaneInv, PinsInLockstep
<1> QED
  BY <1>1, SpecInv, PTL

\* The vendored release never goes back, in whatever order stale PRs are merged.
THEOREM MovesForward == Spec => NeverBackwards
<1>1. IInv /\ IInv' /\ [Next]_vars => [~Less(Pinned(main)', Pinned(main))]_vars
  <2> SUFFICES ASSUME IInv, IInv', [Next]_vars PROVE ~Less(Pinned(main'), Pinned(main))
    OBVIOUS
  <2>1. /\ Pinned(main) \in VersionKey /\ Pinned(main') \in VersionKey
        /\ Pinned(main) = main.manifest[Slice].source
        /\ Pinned(main') = main'.manifest[Slice].source
    BY LockedPinned, SyncConstants DEF IInv, LaneInv, SyncConstants
  <2>2. CASE main'.manifest[Slice] = main.manifest[Slice]
    BY <2>1, <2>2, LessStrictOrder
  <2>3. CASE Less(Pinned(main), Pinned(main'))
    BY <2>1, <2>3, LessStrictOrder
  <2> QED
    BY <2>2, <2>3, NextInv DEF Forward
<1> QED
  BY <1>1, SpecInv, PTL DEF Spec, NeverBackwards

-----------------------------------------------------------------------------
\* The content of main across merges.  `a` stands for `authored`, given apart from
\* the snapshots because each of them was taken at its own time.

\* What the manifest of a snapshot tracks is the recorded release's, and what is
\* vendored is on disk unless people changed it.
Faithful(s, a) ==
    /\ \A z \in Slices \ {Slice} : \A p \in Paths : s.manifest[z].entries[p] = Untracked
    /\ \A p \in Paths : s.manifest[Slice].entries[p] # Untracked =>
          LET item == Surface[Slice][s.manifest[Slice].source][p]
          IN  /\ item.class # "none"
              /\ s.manifest[Slice].entries[p] = [cpath |-> item.cpath,
                                                 sha   |-> Digest[item.file],
                                                 seed  |-> item.class = "seeded"]
              /\ \/ item.class = "seeded"
                 \/ s.tree[item.cpath] = item.file
                 \/ a[item.cpath] # {}

\* Main m has gone on to a newer release since b was checked out, or stands where b
\* does: then people apart, main only gained files.
Since(b, m, a) ==
    \/ Less(Pinned(b), Pinned(m))
    \/ /\ b.manifest[Slice] = m.manifest[Slice]
       /\ \A c \in CPaths : a[c] = {} => m.tree[c] = b.tree[c] \/ b.tree[c] = NoFile

\* A head differs from its base, people apart, where it vendors a file or hands out
\* a seed nobody had.
Written(b, h, a) ==
    \A c \in CPaths : a[c] = {} /\ h.tree[c] # b.tree[c] =>
        \E p \in Paths :
            /\ h.manifest[Slice].entries[p] # Untracked
            /\ Surface[Slice][h.manifest[Slice].source][p].cpath = c
            /\ \/ Surface[Slice][h.manifest[Slice].source][p].class = "exported"
               \/ b.tree[c] = NoFile

Sound(branch, m, a) ==
    /\ Faithful(branch.base, a)
    /\ Faithful(branch.head, a)
    /\ Since(branch.base, m, a)
    /\ Written(branch.base, branch.head, a)

ContentInv ==
    /\ Faithful(main, authored)
    /\ \A n \in Runs : runs[n] # NoRun =>
          Faithful(runs[n].base, authored) /\ Since(runs[n].base, main, authored)
    /\ \A u \in Upgrades : branches[u] # NoBranch => Sound(branches[u], main, authored)

\* What an apply that ran to its end does to the files.
LEMMA AdoptContent ==
    ASSUME NEW s \in Snapshot, NEW r \in Releases, NEW v, NEW k, Pinned(s) \in Releases,
           \A z \in Slices \ {Slice} : \A p \in Paths : s.manifest[z].entries[p] = Untracked,
           NEW a
    PROVE  /\ Faithful(Adopted(s, r, v, k), a)
           /\ Written(s, Adopted(s, r, v, k), a)
<1> DEFINE j == Job(r, TRUE)
           g == Adopted(s, r, v, k)
           item(p) == Surface[Slice][r][p]
           writing(c) == {p \in On(s)!Visited(j) :
                            /\ On(s)!Writes(j, p)
                            /\ On(s)!At(j.slice, j.target, p).cpath = c}
<1>1. j.slice = Slice /\ j.target = r /\ Slice \in Slices
  BY SyncConstants DEF Job, SyncConstants
<1>2. /\ g.tree = On(s)!AppliedTree(j)
      /\ g.manifest = [s.manifest EXCEPT ![Slice] = On(s)!Projection(j)]
  BY DEF Adopted, Adopt
<1> HIDE DEF g
<1>3. /\ g.manifest[Slice] = On(s)!Projection(j)
      /\ \A z \in Slices \ {Slice} : g.manifest[z] = s.manifest[z]
  <2>1. s.manifest = [z \in Slices |-> s.manifest[z]]
    BY DEF Snapshot
  <2> HIDE DEF j
  <2> QED
    BY <1>1, <1>2, <2>1
<1>4. On(s)!Projection(j) =
          [source  |-> r,
           entries |-> [p \in Paths |-> IF p \in On(s)!Kept(j) THEN On(s)!NewEntry(Slice, r, p)
                                        ELSE Untracked]]
  BY <1>1 DEF On!Projection
<1>5. /\ g.manifest[Slice].source = r
      /\ g.manifest[Slice].entries =
            [p \in Paths |-> IF p \in On(s)!Kept(j) THEN On(s)!NewEntry(Slice, r, p)
                             ELSE Untracked]
  <2> HIDE DEF j
  <2> QED
    BY <1>3, <1>4
<1>6. Untracked \notin On(Bare)!Entry
  BY Surfaces DEF Surfaces
<1>7. \A p, q \in Paths : item(p).class # "none" /\ item(q).class # "none"
                           /\ item(p).cpath = item(q).cpath => p = q
  BY Surfaces DEF Surfaces
<1>8. \A p \in Paths : /\ item(p).class \in {"none", "exported", "seeded"}
                       /\ item(p).cpath \in CPaths /\ item(p).file \in Files
                       /\ On(s)!NewEntry(Slice, r, p) \in On(Bare)!Entry
  <2> TAKE p \in Paths
  <2> QED
    BY AtType DEF On!At
<1>9. \A p \in Paths : On(s)!Writes(j, p) =>
         \/ item(p).class = "exported"
         \/ item(p).class = "seeded" /\ s.tree[item(p).cpath] = NoFile
  BY <1>1, <1>8 DEF On!Writes, On!Outcome, On!At
<1>10. \A p \in Paths : item(p).class = "exported" /\ ~On(s)!Writes(j, p) =>
         s.tree[item(p).cpath] = item(p).file
  BY <1>1, <1>8 DEF On!Writes, On!Outcome, On!At
<1>11. On(s)!Visited(j) \subseteq Paths
  BY DEF On!Visited, On!Tracked, On!Candidates, On!Offered, On!Exported, On!Seeded
<1>12. \A p \in Paths : g.manifest[Slice].entries[p] =
         IF p \in On(s)!Kept(j) THEN On(s)!NewEntry(Slice, r, p) ELSE Untracked
  BY <1>5
<1>13. \A p \in Paths : p \in On(s)!Kept(j) <=>
         p \in On(s)!Visited(j) /\ item(p).class \in {"exported", "seeded"}
  BY <1>1 DEF On!Kept, On!Offered, On!Exported, On!Seeded, On!At
<1>14. \A p \in Paths : g.manifest[Slice].entries[p] # Untracked <=> p \in On(s)!Kept(j)
  <2> TAKE p \in Paths
  <2>1. On(s)!NewEntry(Slice, r, p) # Untracked
    BY <1>8, <1>6
  <2> QED
    BY <1>12, <2>1
<1>15. g.manifest[Slice].source = r
  BY <1>5
<1>16. \A c \in CPaths : \A p \in writing(c) :
          /\ p \in Paths /\ p \in On(s)!Kept(j) /\ item(p).cpath = c
          /\ item(p).class = "exported" \/ s.tree[c] = NoFile
  BY <1>1, <1>9, <1>11, <1>13 DEF On!At
<1>17. \A c \in CPaths : \A p, q \in writing(c) : p = q
  <2> TAKE c \in CPaths
  <2> TAKE p, q \in writing(c)
  <2>1. /\ p \in Paths /\ item(p).class # "none" /\ item(p).cpath = c
        /\ q \in Paths /\ item(q).class # "none" /\ item(q).cpath = c
    BY <1>13, <1>16
  <2> QED
    BY <1>7, <2>1
<1>18. \A c \in CPaths : g.tree[c] = IF writing(c) = {} THEN s.tree[c]
                                    ELSE item(CHOOSE p \in writing(c) : TRUE).file
  <2> TAKE c \in CPaths
  <2>1. g.tree[c] = IF writing(c) = {} THEN s.tree[c]
                    ELSE On(s)!At(j.slice, j.target, CHOOSE p \in writing(c) : TRUE).file
    BY <1>2 DEF On!AppliedTree
  <2> HIDE DEF writing, j
  <2> QED
    BY <1>1, <2>1 DEF On!At
<1> HIDE DEF writing, j
<1>19. \A p \in Paths : p \in On(s)!Kept(j) /\ item(p).class = "exported" =>
          g.tree[item(p).cpath] = item(p).file
  <2> SUFFICES ASSUME NEW p \in Paths, p \in On(s)!Kept(j), item(p).class = "exported"
               PROVE  g.tree[item(p).cpath] = item(p).file
    OBVIOUS
  <2> DEFINE c == item(p).cpath
  <2>1. c \in CPaths
    BY <1>8
  <2>2. CASE On(s)!Writes(j, p)
    <3>1. p \in writing(c)
      BY <1>1, <1>13, <2>2 DEF writing, On!At
    <3>2. (CHOOSE q \in writing(c) : TRUE) = p
      BY <1>17, <2>1, <3>1
    <3> QED
      BY <1>18, <2>1, <3>1, <3>2
  <2>3. CASE ~On(s)!Writes(j, p)
    <3>1. writing(c) = {}
      <4> SUFFICES ASSUME NEW q \in writing(c) PROVE FALSE
        OBVIOUS
      <4>1. q \in Paths /\ q \in On(s)!Kept(j) /\ item(q).cpath = c
        BY <1>16, <2>1
      <4>2. q = p
        BY <1>13, <1>7, <4>1
      <4> QED
        BY <2>3, <4>2 DEF writing
    <3> QED
      BY <1>10, <1>18, <2>1, <2>3, <3>1
  <2> QED
    BY <2>2, <2>3
<1>20. Faithful(g, a)
  <2>1. \A p \in Paths : p \in On(s)!Kept(j) =>
          g.manifest[Slice].entries[p] = [cpath |-> item(p).cpath, sha |-> Digest[item(p).file],
                                          seed |-> item(p).class = "seeded"]
    BY <1>12 DEF On!NewEntry, On!At
  <2> QED
    BY <1>13, <1>14, <1>15, <1>19, <1>3, <2>1 DEF Faithful
<1>21. Written(s, g, a)
  <2> SUFFICES ASSUME NEW c \in CPaths, g.tree[c] # s.tree[c]
               PROVE  \E p \in Paths :
                         /\ g.manifest[Slice].entries[p] # Untracked
                         /\ item(p).cpath = c
                         /\ item(p).class = "exported" \/ s.tree[c] = NoFile
    BY <1>15 DEF Written
  <2>1. PICK p \in writing(c) : TRUE
    BY <1>18
  <2> QED
    BY <1>14, <1>16, <2>1
<1> QED
  BY <1>20, <1>21 DEF g, j

\* What people changed stays changed.
Wider(a, w) == \A c \in CPaths : w[c] = {} => a[c] = {}

LEMMA FaithfulStays ==
    ASSUME NEW s, NEW g, NEW a, NEW w, Locked(s), Faithful(s, a), g.manifest = s.manifest,
           \A c \in CPaths : w[c] = {} => a[c] = {} /\ g.tree[c] = s.tree[c]
    PROVE  Faithful(g, w)
<1>1. s.manifest[Slice].source \in Releases
  BY DEF Locked
<1>2. ASSUME NEW p \in Paths, g.manifest[Slice].entries[p] # Untracked
      PROVE  LET item == Surface[Slice][s.manifest[Slice].source][p]
             IN  /\ item.class # "none"
                 /\ g.manifest[Slice].entries[p] = [cpath |-> item.cpath,
                                                    sha   |-> Digest[item.file],
                                                    seed  |-> item.class = "seeded"]
                 /\ \/ item.class = "seeded"
                    \/ g.tree[item.cpath] = item.file
                    \/ w[item.cpath] # {}
  <2> DEFINE item == Surface[Slice][s.manifest[Slice].source][p]
  <2>1. item.cpath \in CPaths
    BY <1>1, AtType DEF On!At
  <2> QED
    BY <1>2, <2>1 DEF Faithful
<1>3. \A z \in Slices \ {Slice} : \A p \in Paths : g.manifest[z].entries[p] = Untracked
  BY DEF Faithful
<1>4. s.manifest[Slice].source = g.manifest[Slice].source
  OBVIOUS
<1> QED
  BY <1>2, <1>3, <1>4 DEF Faithful

LEMMA FaithfulKept ==
    ASSUME NEW s \in Snapshot, Locked(s), NEW a, NEW w, Faithful(s, a), Wider(a, w)
    PROVE  Faithful(s, w)
BY FaithfulStays DEF Wider

\* How main may move, seen from a checkout of it.
Moves(m, g, a) ==
    \/ Less(Pinned(m), Pinned(g))
    \/ /\ g.manifest[Slice] = m.manifest[Slice]
       /\ \A c \in CPaths : a[c] = {} => g.tree[c] = m.tree[c] \/ m.tree[c] = NoFile

LEMMA SinceKept ==
    ASSUME NEW b, NEW m, NEW g, NEW a, NEW w, Locked(b), Locked(m), Locked(g),
           Since(b, m, a), Wider(a, w), Moves(m, g, w)
    PROVE  Since(b, g, w)
<1>1. /\ Pinned(b) \in VersionKey /\ Pinned(m) \in VersionKey /\ Pinned(g) \in VersionKey
      /\ Pinned(b) = b.manifest[Slice].source
      /\ Pinned(m) = m.manifest[Slice].source
      /\ Pinned(g) = g.manifest[Slice].source
  BY LockedPinned, SyncConstants DEF SyncConstants
<1>2. CASE Less(Pinned(b), Pinned(m))
  BY <1>1, <1>2, LessStrictOrder DEF Moves, Since
<1>3. CASE b.manifest[Slice] = m.manifest[Slice] /\ Less(Pinned(m), Pinned(g))
  BY <1>1, <1>3 DEF Since
<1>4. CASE /\ b.manifest[Slice] = m.manifest[Slice]
           /\ \A c \in CPaths : a[c] = {} => m.tree[c] = b.tree[c] \/ b.tree[c] = NoFile
           /\ g.manifest[Slice] = m.manifest[Slice]
           /\ \A c \in CPaths : w[c] = {} => g.tree[c] = m.tree[c] \/ m.tree[c] = NoFile
  <2>1. \A c \in CPaths : w[c] = {} => g.tree[c] = b.tree[c] \/ b.tree[c] = NoFile
    BY <1>4 DEF Wider
  <2> QED
    BY <1>4, <2>1 DEF Since
<1> QED
  BY <1>2, <1>3, <1>4 DEF Moves, Since

\* Main moves, the lanes keep their checkouts, and what is new among the branches is sound.
LEMMA MainMoves ==
    ASSUME IInv, IInv', ContentInv, Wider(authored, authored'),
           Moves(main, main', authored'), Faithful(main', authored'), UNCHANGED runs,
           \A u \in Upgrades : branches'[u] # NoBranch =>
              branches'[u] = branches[u] \/ Sound(branches'[u], main', authored')
    PROVE  ContentInv'
<1>1. Locked(main) /\ Locked(main')
  BY DEF IInv, LaneInv
<1>2. ASSUME NEW n \in Runs, runs'[n] # NoRun
      PROVE  Faithful(runs'[n].base, authored') /\ Since(runs'[n].base, main', authored')
  <2> DEFINE b == runs[n].base
  <2>1. /\ runs'[n] = runs[n] /\ b \in Snapshot /\ Locked(b)
        /\ Faithful(b, authored) /\ Since(b, main, authored)
    BY <1>2 DEF IInv, TypeOK, LaneInv, ContentInv
  <2> HIDE DEF b
  <2>2. Faithful(b, authored') /\ Since(b, main', authored')
    BY <1>1, <2>1, FaithfulKept, SinceKept
  <2> QED
    BY <2>1, <2>2 DEF b
<1>3. ASSUME NEW u \in Upgrades, branches'[u] # NoBranch, branches'[u] = branches[u]
      PROVE  Sound(branches'[u], main', authored')
  <2> DEFINE b == branches[u].base
             h == branches[u].head
  <2>1. /\ branches'[u] = branches[u] /\ b \in Snapshot /\ h \in Snapshot
        /\ Locked(b) /\ Locked(h)
        /\ Faithful(b, authored) /\ Faithful(h, authored) /\ Since(b, main, authored)
        /\ Written(b, h, authored)
    BY <1>3 DEF IInv, TypeOK, LaneInv, ContentInv, Sound
  <2> HIDE DEF b, h
  <2>2. Faithful(b, authored') /\ Faithful(h, authored') /\ Since(b, main', authored')
    BY <1>1, <2>1, FaithfulKept, SinceKept
  <2>3. Written(b, h, authored')
    BY <2>1 DEF Written, Wider
  <2> QED
    BY <2>1, <2>2, <2>3 DEF b, h, Sound
<1> QED
  BY <1>2, <1>3 DEF ContentInv

LEMMA ContentInit == Init => ContentInv
<1> SUFFICES ASSUME Init PROVE ContentInv
  OBVIOUS
<1>1. Bare \in Snapshot /\ Pinned(Bare) = Onboarded /\ Onboarded \in Releases
  <2>1. Onboarded \in Releases /\ Slice \in Slices
    BY SyncConstants DEF SyncConstants
  <2> QED
    BY <2>1 DEF Bare, Snapshot, Pins, Pinned
<1>2. \A z \in Slices \ {Slice} : \A p \in Paths : Bare.manifest[z].entries[p] = Untracked
  BY DEF Bare
<1>3. main = Adopted(Bare, Onboarded, Bare.version, Bare.sha)
  BY DEF Init, Adopted
<1>4. Faithful(main, authored)
  BY <1>1, <1>2, <1>3, AdoptContent
<1> QED
  BY <1>4 DEF ContentInv, Init

LEMMA PublishContent ==
    ASSUME IInv, IInv', ContentInv, NEW r \in Releases, Publish(r) PROVE ContentInv'
<1>1. Wider(authored, authored') /\ Moves(main, main', authored')
  BY DEF Publish, Wider, Moves
<1> QED
  BY <1>1, MainMoves DEF Publish, ContentInv

LEMMA ConsumerEditContent ==
    ASSUME IInv, IInv', ContentInv, NEW c \in CPaths, NEW f \in Files \union {NoFile},
           ConsumerEdit(c, f)
    PROVE  ContentInv'
<1>1. /\ main' = [main EXCEPT !.tree[c] = f]
      /\ authored' = [authored EXCEPT ![c] = @ \union {f}]
      /\ UNCHANGED <<runs, branches>>
      /\ main \in Snapshot /\ authored \in [CPaths -> SUBSET (Files \union {NoFile})]
      /\ Locked(main) /\ Faithful(main, authored)
  BY DEF ConsumerEdit, IInv, TypeOK, LaneInv, ContentInv
<1>2. /\ main'.manifest = main.manifest
      /\ \A d \in CPaths \ {c} : main'.tree[d] = main.tree[d] /\ authored'[d] = authored[d]
      /\ f \in authored'[c]
  BY <1>1 DEF Snapshot
<1>3. Wider(authored, authored')
  BY <1>1, <1>2 DEF Wider
<1>4. Moves(main, main', authored')
  BY <1>2 DEF Moves
<1>5. Faithful(main', authored')
  <2>1. \A d \in CPaths : authored'[d] = {} => authored[d] = {} /\ main'.tree[d] = main.tree[d]
    BY <1>2
  <2>2. Locked(main) /\ Faithful(main, authored) /\ main'.manifest = main.manifest
    BY <1>1, <1>2
  <2> QED
    BY <2>1, <2>2, FaithfulStays
<1> QED
  BY <1>1, <1>3, <1>4, <1>5, MainMoves

LEMMA BumpPinContent ==
    ASSUME IInv, IInv', ContentInv, NEW r \in Releases, BumpPin(r) PROVE ContentInv'
<1>1. /\ main'.manifest = main.manifest /\ main'.tree = main.tree
      /\ UNCHANGED <<runs, branches, authored>>
  BY DEF BumpPin, IInv, TypeOK, Snapshot
<1>2. Wider(authored, authored') /\ Moves(main, main', authored')
  BY <1>1 DEF Wider, Moves
<1>3. Faithful(main', authored')
  <2>1. Locked(main) /\ Faithful(main, authored)
    BY DEF IInv, LaneInv, ContentInv
  <2> QED
    BY <1>1, <2>1, FaithfulStays
<1> QED
  BY <1>1, <1>2, <1>3, MainMoves

\* A refill touches no file and no manifest, an eviction nothing of main.
LEMMA RefillContent == ASSUME IInv, IInv', ContentInv, Refill PROVE ContentInv'
<1>1. /\ main'.manifest = main.manifest /\ main'.tree = main.tree
      /\ UNCHANGED <<runs, branches, authored>>
  BY DEF Refill, IInv, TypeOK, Snapshot
<1>2. Wider(authored, authored') /\ Moves(main, main', authored')
  BY <1>1 DEF Wider, Moves
<1>3. Faithful(main', authored')
  <2>1. Locked(main) /\ Faithful(main, authored)
    BY DEF IInv, LaneInv, ContentInv
  <2> QED
    BY <1>1, <2>1, FaithfulStays
<1> QED
  BY <1>1, <1>2, <1>3, MainMoves

LEMMA EvictContent == ASSUME ContentInv, Evict PROVE ContentInv'
BY DEF Evict, ContentInv

LEMMA UpdateLocalContent ==
    ASSUME IInv, IInv', ContentInv, NEW r \in Releases, NEW seen \in BOOLEAN,
           UpdateLocal(r, seen)
    PROVE  ContentInv'
<1>1. /\ main \in Snapshot /\ Locked(main)
      /\ main.version \in Releases /\ main.sha \in Shas
      /\ Less(Pinned(main), r)
      /\ main' = Adopted(main, r, main.version, main.sha)
      /\ UNCHANGED <<runs, branches, authored>>
  BY DEF IInv, TypeOK, LaneInv, Snapshot, UpdateLocal, IsNewer, Shas, Adopted
<1>2. Pinned(main) \in Releases /\ Pinned(main') = r
  BY <1>1, AdoptLocked, LockedPinned
<1>3. \A z \in Slices \ {Slice} : \A p \in Paths : main.manifest[z].entries[p] = Untracked
  BY DEF ContentInv, Faithful
<1>4. Faithful(main', authored')
  BY <1>1, <1>2, <1>3, AdoptContent
<1>5. Wider(authored, authored') /\ Moves(main, main', authored')
  BY <1>1, <1>2 DEF Wider, Moves
<1> QED
  BY <1>1, <1>4, <1>5, MainMoves

\* A checkout of main is faithful because main is.
LEMMA StartContent ==
    ASSUME IInv, ContentInv, NEW n \in Runs, NEW t \in Releases, Start(n, t)
    PROVE  ContentInv'
<1>1. /\ runs' = [runs EXCEPT ![n] = [pc |-> "resolve", base |-> main, target |-> t]]
      /\ UNCHANGED <<main, branches, authored>>
  BY DEF Start
<1>2. ASSUME NEW k \in Runs, runs'[k] # NoRun
      PROVE  Faithful(runs'[k].base, authored) /\ Since(runs'[k].base, main, authored)
  <2>1. CASE k = n
    <3>1. runs'[k].base = main
      BY <1>1, <2>1 DEF IInv, TypeOK
    <3> QED
      BY <3>1 DEF ContentInv, Since
  <2>2. CASE k # n
    <3>1. runs'[k] = runs[k]
      BY <1>1, <2>2 DEF IInv, TypeOK
    <3> QED
      BY <1>2, <3>1 DEF ContentInv
  <2> QED
    BY <2>1, <2>2
<1> QED
  BY <1>1, <1>2 DEF ContentInv

\* A run that goes on, or stops, keeps its checkout.
LEMMA RunsContent ==
    ASSUME IInv, ContentInv, UNCHANGED <<main, branches, authored>>,
           \A n \in Runs : runs'[n] # NoRun => runs[n] # NoRun /\ runs'[n].base = runs[n].base
    PROVE  ContentInv'
BY DEF ContentInv

LEMMA ResolveContent ==
    ASSUME IInv, ContentInv, NEW n \in Runs, NEW seen \in BOOLEAN, Resolve(n, seen)
    PROVE  ContentInv'
<1> DEFINE run == runs[n]
           goes == /\ IsNewer(Pinned(run.base), run.target, Retracted(run.target, seen))
                   /\ On(run.base)!Changed(Job(run.target, FALSE))
<1>1. /\ run # NoRun
      /\ runs' = [runs EXCEPT ![n] = IF goes THEN [run EXCEPT !.pc = "push"] ELSE NoRun]
      /\ UNCHANGED <<main, branches, authored>>
  BY DEF Resolve
<1> HIDE DEF goes
<1>2. \A k \in Runs : runs'[k] # NoRun => runs[k] # NoRun /\ runs'[k].base = runs[k].base
  BY <1>1 DEF IInv, TypeOK
<1> QED
  BY <1>1, <1>2, RunsContent

LEMMA StopContent == ASSUME IInv, ContentInv, NEW n \in Runs, Stop(n) PROVE ContentInv'
<1>1. \A k \in Runs : runs'[k] # NoRun => runs[k] # NoRun /\ runs'[k].base = runs[k].base
  BY DEF Stop, IInv, TypeOK
<1> QED
  BY <1>1, RunsContent DEF Stop

LEMMA DeliverContent == ASSUME IInv, ContentInv, NEW n \in Runs, Deliver(n) PROVE ContentInv'
<1> DEFINE u == <<Pinned(runs[n].base), runs[n].target>>
<1>1. /\ runs[n] # NoRun /\ branches[u] # NoBranch
      /\ branches' = [branches EXCEPT ![u].open = TRUE]
      /\ runs' = [runs EXCEPT ![n] = NoRun]
      /\ UNCHANGED <<main, authored>>
  BY DEF Deliver
<1>2. u \in Upgrades
  <2>1. Locked(runs[n].base) /\ runs[n].target \in Releases
    BY <1>1 DEF IInv, TypeOK, LaneInv
  <2> QED
    BY <2>1, LockedPinned DEF Upgrades
<1> HIDE DEF u
<1>3. \A v \in Upgrades : branches'[v] # NoBranch =>
         /\ branches[v] # NoBranch
         /\ branches'[v].base = branches[v].base /\ branches'[v].head = branches[v].head
  BY <1>1, <1>2 DEF IInv, TypeOK
<1>4. \A k \in Runs : runs'[k] # NoRun => runs'[k] = runs[k]
  BY <1>1 DEF IInv, TypeOK
<1> QED
  BY <1>1, <1>3, <1>4 DEF ContentInv, Sound

\* What a run pushes is faithful to its target and differs from its checkout where
\* the apply wrote.
LEMMA PushContent == ASSUME IInv, ContentInv, NEW n \in Runs, Push(n) PROVE ContentInv'
<1> DEFINE run == runs[n]
           b == run.base
           t == run.target
           u == <<Pinned(b), t>>
           head == Synced(b, t)
           new == [base |-> b, head |-> head,
                   open |-> branches[u] # NoBranch /\ branches[u].open, reviews |-> 0]
<1>1. /\ run # NoRun /\ b \in Snapshot /\ t \in Releases /\ Locked(b)
      /\ Faithful(b, authored) /\ Since(b, main, authored)
  BY DEF Push, IInv, TypeOK, LaneInv, ContentInv
<1>2. /\ branches' = [branches EXCEPT ![u] = new]
      /\ runs' = [runs EXCEPT ![n].pc = "deliver"]
      /\ UNCHANGED <<main, authored>>
  BY DEF Push
<1>3. new.base = b /\ new.head = head
  OBVIOUS
<1> HIDE DEF new, run, b, t
<1>4. Pinned(b) \in Releases /\ u \in Upgrades
  BY <1>1, LockedPinned DEF Upgrades
<1>5. Faithful(head, authored) /\ Written(b, head, authored)
  <2>1. \A z \in Slices \ {Slice} : \A p \in Paths : b.manifest[z].entries[p] = Untracked
    BY <1>1 DEF Faithful
  <2>2. head = Adopted(b, t, t, Blank)
    BY DEF head, Synced, Adopted
  <2> QED
    BY <1>1, <1>4, <2>1, <2>2, AdoptContent
<1> HIDE DEF head, u
<1>6. \A k \in Runs : runs'[k] # NoRun => runs[k] # NoRun /\ runs'[k].base = runs[k].base
  BY <1>1, <1>2 DEF IInv, TypeOK, run
<1>7. /\ branches'[u] = new
      /\ \A v \in Upgrades \ {u} : branches'[v] = branches[v]
  BY <1>2, <1>4 DEF IInv, TypeOK
<1> QED
  BY <1>1, <1>2, <1>3, <1>5, <1>6, <1>7 DEF ContentInv, Sound

\* A reviewer's deletion is a change people made.
LEMMA ReviewContent ==
    ASSUME IInv, IInv', ContentInv, NEW u \in Upgrades, Review(u) PROVE ContentInv'
<1> DEFINE b == branches[u].base
           h == branches[u].head
           k == branches'[u].head
<1>1. /\ branches[u] # NoBranch /\ b \in Snapshot /\ h \in Snapshot /\ Locked(b) /\ Locked(h)
      /\ Faithful(b, authored) /\ Faithful(h, authored) /\ Since(b, main, authored)
      /\ Written(b, h, authored) /\ Faithful(main, authored)
      /\ branches[u] \in [base : Snapshot, head : Snapshot, open : BOOLEAN,
                          reviews : 0..MaxReviews]
      /\ UNCHANGED <<main, runs>>
  BY DEF Review, IInv, TypeOK, LaneInv, ContentInv, Sound
<1> DEFINE result ==
              /\ branches'[u].base = b
              /\ \A v \in Upgrades \ {u} : branches'[v] = branches[v]
              /\ k.manifest = h.manifest
              /\ \A c \in CPaths : authored'[c] = {} => authored[c] = {} /\ k.tree[c] = h.tree[c]
<1>2. result
  <2>1. ASSUME branches' = [branches EXCEPT ![u].head.sha = u[2], ![u].reviews = @ + 1],
               authored' = authored
        PROVE  result
    <3>1. branches'[u] = [branches[u] EXCEPT !.head.sha = u[2], !.reviews = @ + 1]
      BY <2>1 DEF IInv, TypeOK
    <3>2. branches'[u].head = [branches[u].head EXCEPT !.sha = u[2]]
          /\ branches'[u].base = branches[u].base
      BY <1>1, <3>1
    <3>3. k.manifest = h.manifest /\ k.tree = h.tree
      BY <1>1, <3>2 DEF Snapshot
    <3>4. \A v \in Upgrades \ {u} : branches'[v] = branches[v]
      BY <2>1 DEF IInv, TypeOK
    <3> QED
      BY <2>1, <3>2, <3>3, <3>4
  <2>2. ASSUME NEW c \in RemovedUpstream(u),
               branches' = [branches EXCEPT ![u].head.tree[c] = NoFile, ![u].reviews = @ + 1],
               authored' = [authored EXCEPT ![c] = @ \union {NoFile}]
        PROVE  result
    <3>1. branches'[u] = [branches[u] EXCEPT !.head.tree[c] = NoFile, !.reviews = @ + 1]
      BY <2>2 DEF IInv, TypeOK
    <3>2. branches'[u].head = [branches[u].head EXCEPT !.tree[c] = NoFile]
          /\ branches'[u].base = branches[u].base
      BY <1>1, <3>1
    <3>3. k.manifest = h.manifest /\ \A d \in CPaths \ {c} : k.tree[d] = h.tree[d]
      BY <1>1, <3>2 DEF Snapshot
    <3>4. \A d \in CPaths : /\ d = c => authored'[d] # {}
                            /\ d # c => authored'[d] = authored[d]
      BY <2>2 DEF IInv, TypeOK
    <3>5. \A v \in Upgrades \ {u} : branches'[v] = branches[v]
      BY <2>2 DEF IInv, TypeOK
    <3> QED
      BY <3>2, <3>3, <3>4, <3>5
  <2> QED
    BY <2>1, <2>2 DEF Review
<1> HIDE DEF b, h, k
<1>3. Wider(authored, authored')
  BY <1>2 DEF Wider
<1>4. Faithful(k, authored') /\ Faithful(b, authored')
  BY <1>1, <1>2, <1>3, FaithfulStays, FaithfulKept
<1>5. Written(b, k, authored')
  BY <1>1, <1>2 DEF Written
<1>6. Moves(main, main', authored') /\ Locked(main) /\ main \in Snapshot /\ main' = main
  BY <1>1 DEF Moves, IInv, LaneInv, TypeOK
<1>7. Since(b, main', authored') /\ Faithful(main', authored')
  BY <1>1, <1>3, <1>6, SinceKept, FaithfulKept
<1>8. Sound(branches'[u], main', authored')
  BY <1>2, <1>4, <1>5, <1>7 DEF Sound, k
<1>9. UNCHANGED runs /\ \A v \in Upgrades : branches'[v] # NoBranch =>
         branches'[v] = branches[v] \/ Sound(branches'[v], main', authored')
  BY <1>1, <1>2, <1>8
<1> QED
  BY <1>3, <1>6, <1>7, <1>9, MainMoves

\* A merge mixes no two releases.  Where main still stood at the base's release, a
\* place that it does not take from the head was changed by people; where main was
\* at the head's release already, both sides hold the same files.
LEMMA MergeFaithful ==
    ASSUME NEW b \in Snapshot, NEW m \in Snapshot, NEW h \in Snapshot, NEW a,
           Mergeable(b, m, h), Locked(b), Locked(m), Locked(h), Less(Pinned(b), Pinned(h)),
           Faithful(b, a), Faithful(m, a), Faithful(h, a), Since(b, m, a), Written(b, h, a)
    PROVE  Faithful(Merged(b, m, h), a) /\ Moves(m, Merged(b, m, h), a)
<1> DEFINE g == Merged(b, m, h)
<1>1. /\ Pinned(b) \in VersionKey /\ Pinned(h) \in VersionKey /\ Pinned(m) \in VersionKey
      /\ Pinned(b) = b.manifest[Slice].source /\ Pinned(h) = h.manifest[Slice].source
      /\ Pinned(m) = m.manifest[Slice].source
      /\ m.manifest[Slice].source \in Releases /\ h.manifest[Slice].source \in Releases
  BY LockedPinned, SyncConstants DEF SyncConstants
<1>2. Pinned(b) # Pinned(h)
  BY <1>1, LessStrictOrder
<1>3. /\ g \in Snapshot /\ Locked(g)
      /\ \/ /\ m.manifest[Slice] = b.manifest[Slice]
            /\ g.manifest[Slice] = h.manifest[Slice]
         \/ /\ m.manifest[Slice] = h.manifest[Slice]
            /\ g.manifest[Slice] = m.manifest[Slice]
  BY <1>2, MergeLocked
<1>4. /\ \A c \in CPaths : g.tree[c] = Hunk(b.tree[c], m.tree[c], h.tree[c])
      /\ \A z \in Slices : g.manifest[z] = Hunk(b.manifest[z], m.manifest[z], h.manifest[z])
  BY MergeType
<1>5. \A c \in CPaths : Agree(b.tree[c], m.tree[c], h.tree[c])
  BY MergeAgrees
<1> HIDE DEF g
<1>6. \A z \in Slices \ {Slice} : \A p \in Paths : g.manifest[z].entries[p] = Untracked
  <2> TAKE z \in Slices \ {Slice}
  <2> TAKE p \in Paths
  <2>1. m.manifest[z].entries[p] = Untracked /\ h.manifest[z].entries[p] = Untracked
    BY DEF Faithful
  <2>2. g.manifest[z] = m.manifest[z] \/ g.manifest[z] = h.manifest[z]
    BY <1>4 DEF Hunk
  <2> QED
    BY <2>1, <2>2
<1>7. CASE m.manifest[Slice] = b.manifest[Slice] /\ g.manifest[Slice] = h.manifest[Slice]
  <2>1. Moves(m, g, a)
    <3>1. Pinned(g) = g.manifest[Slice].source
      BY <1>3, LockedPinned
    <3> QED
      BY <1>1, <1>7, <3>1 DEF Moves
  <2>2. \A c \in CPaths : a[c] = {} => m.tree[c] = b.tree[c] \/ b.tree[c] = NoFile
    <3>1. ~Less(Pinned(b), Pinned(m))
      BY <1>1, <1>7, LessStrictOrder
    <3> QED
      BY <3>1 DEF Since
  <2> DEFINE item(p) == Surface[Slice][h.manifest[Slice].source][p]
  <2>3. ASSUME NEW p \in Paths, h.manifest[Slice].entries[p] # Untracked,
               item(p).class # "seeded", a[item(p).cpath] = {}
        PROVE  g.tree[item(p).cpath] = item(p).file
    <3> DEFINE c == item(p).cpath
    <3>1. c \in CPaths /\ item(p).file \in Files
      BY <1>1, AtType DEF On!At
    <3>2. h.tree[c] = item(p).file
      BY <2>3 DEF Faithful
    <3>3. item(p).file # NoFile
      BY <3>1, Surfaces DEF Surfaces
    <3>4. g.tree[c] = Hunk(b.tree[c], m.tree[c], h.tree[c]) /\ Agree(b.tree[c], m.tree[c], h.tree[c])
      BY <1>4, <1>5, <3>1
    <3>5. m.tree[c] = b.tree[c] \/ b.tree[c] = NoFile
      BY <2>2, <2>3, <3>1
    <3> HIDE DEF c, item
    <3>6. g.tree[c] = item(p).file
      BY <3>2, <3>3, <3>4, <3>5 DEF Hunk, Agree
    <3> QED
      BY <3>6 DEF c
  <2>4. Faithful(g, a)
    <3> SUFFICES ASSUME NEW p \in Paths, h.manifest[Slice].entries[p] # Untracked
                 PROVE  /\ item(p).class # "none"
                        /\ h.manifest[Slice].entries[p] = [cpath |-> item(p).cpath,
                                                           sha   |-> Digest[item(p).file],
                                                           seed  |-> item(p).class = "seeded"]
                        /\ \/ item(p).class = "seeded"
                           \/ g.tree[item(p).cpath] = item(p).file
                           \/ a[item(p).cpath] # {}
      BY <1>6, <1>7 DEF Faithful
    <3> QED
      BY <2>3 DEF Faithful
  <2> QED
    BY <2>1, <2>4 DEF g
<1>8. CASE m.manifest[Slice] = h.manifest[Slice] /\ g.manifest[Slice] = m.manifest[Slice]
  <2> DEFINE item(p) == Surface[Slice][m.manifest[Slice].source][p]
  <2>1. ASSUME NEW p \in Paths, m.manifest[Slice].entries[p] # Untracked,
               item(p).class # "seeded", a[item(p).cpath] = {}
        PROVE  /\ m.tree[item(p).cpath] = item(p).file /\ h.tree[item(p).cpath] = item(p).file
               /\ g.tree[item(p).cpath] = item(p).file
    <3> DEFINE c == item(p).cpath
    <3>1. c \in CPaths
      BY <1>1, AtType DEF On!At
    <3>2. m.tree[c] = item(p).file /\ h.tree[c] = item(p).file
      BY <1>8, <2>1 DEF Faithful
    <3>3. g.tree[c] = m.tree[c] \/ g.tree[c] = h.tree[c]
      BY <1>4, <3>1 DEF Hunk
    <3> QED
      BY <3>2, <3>3
  <2>2. Faithful(g, a)
    <3> SUFFICES ASSUME NEW p \in Paths, m.manifest[Slice].entries[p] # Untracked
                 PROVE  /\ item(p).class # "none"
                        /\ m.manifest[Slice].entries[p] = [cpath |-> item(p).cpath,
                                                           sha   |-> Digest[item(p).file],
                                                           seed  |-> item(p).class = "seeded"]
                        /\ \/ item(p).class = "seeded"
                           \/ g.tree[item(p).cpath] = item(p).file
                           \/ a[item(p).cpath] # {}
      BY <1>6, <1>8 DEF Faithful
    <3> QED
      BY <2>1 DEF Faithful
  <2>3. ASSUME NEW c \in CPaths, a[c] = {}
        PROVE  g.tree[c] = m.tree[c] \/ m.tree[c] = NoFile
    <3> SUFFICES ASSUME g.tree[c] # m.tree[c] PROVE m.tree[c] = NoFile
      OBVIOUS
    <3>1. m.tree[c] = b.tree[c] /\ h.tree[c] # b.tree[c] /\ g.tree[c] = h.tree[c]
      BY <1>4 DEF Hunk
    <3>2. PICK p \in Paths : /\ m.manifest[Slice].entries[p] # Untracked
                             /\ item(p).cpath = c
                             /\ item(p).class = "exported" \/ b.tree[c] = NoFile
      BY <1>8, <2>3, <3>1 DEF Written
    <3>3. item(p).class # "exported"
      BY <2>1, <2>3, <3>1, <3>2
    <3> QED
      BY <3>1, <3>2, <3>3
  <2>4. Moves(m, g, a)
    BY <1>8, <2>3 DEF Moves
  <2> QED
    BY <2>2, <2>4 DEF g
<1> QED
  BY <1>3, <1>7, <1>8

LEMMA MergeContent ==
    ASSUME IInv, IInv', ContentInv, NEW u \in Upgrades, Merge(u) PROVE ContentInv'
<1> DEFINE b == branches[u].base
           h == branches[u].head
<1>1. /\ Mergeable(b, main, h) /\ main' = Merged(b, main, h)
      /\ branches' = [branches EXCEPT ![u] = NoBranch]
      /\ UNCHANGED <<runs, authored>>
  BY DEF Merge
<1>2. /\ b \in Snapshot /\ main \in Snapshot /\ h \in Snapshot
      /\ Locked(b) /\ Locked(main) /\ Locked(h) /\ Less(Pinned(b), Pinned(h))
      /\ Faithful(b, authored) /\ Faithful(main, authored) /\ Faithful(h, authored)
      /\ Since(b, main, authored) /\ Written(b, h, authored)
  BY DEF Merge, IInv, TypeOK, LaneInv, ContentInv, Sound
<1> HIDE DEF b, h
<1>3. Faithful(main', authored') /\ Moves(main, main', authored')
  BY <1>1, <1>2, MergeFaithful
<1>4. Wider(authored, authored')
  BY <1>1 DEF Wider
<1>5. \A v \in Upgrades : branches'[v] # NoBranch => branches'[v] = branches[v]
  BY <1>1 DEF IInv, TypeOK
<1> QED
  BY <1>1, <1>3, <1>4, <1>5, MainMoves

LEMMA ContentNext ==
    ASSUME IInv, IInv', ContentInv, [Next]_vars PROVE ContentInv'
<1>1. CASE UNCHANGED vars
  BY <1>1 DEF vars, ContentInv
<1>2. CASE Next
  <2>1. ASSUME NEW n \in Runs, Schedule(n) PROVE ContentInv'
    <3>1. main.own \in Releases
      BY <2>1 DEF Schedule, IInv, TypeOK
    <3> QED
      BY <2>1, <3>1, StartContent DEF Schedule
  <2>2. ASSUME NEW n \in Runs, NEW r \in Releases, UpdatePR(n, r) PROVE ContentInv'
    BY <2>2, StartContent DEF UpdatePR
  <2> QED
    BY <1>2, <2>1, <2>2, PublishContent, BumpPinContent, UpdateLocalContent, ConsumerEditContent,
       ResolveContent, PushContent, DeliverContent, StopContent, ReviewContent, MergeContent,
       RefillContent, EvictContent
    DEF Next
<1> QED
  BY <1>1, <1>2

\* INV-1 across merges: main's gate is red on a path only where people changed the
\* file, for any number of runs, stale branches and merges in any order.
THEOREM MergesMixNothing == Spec => []RedOnlyByEdit
<1>1. IInv /\ ContentInv => RedOnlyByEdit
  <2> SUFFICES ASSUME IInv, ContentInv, NEW p \in On(main)!Tracked(Slice),
                      authored[main.manifest[Slice].entries[p].cpath] = {}
               PROVE  On(main)!Verdict(Slice, p) = "clean"
    BY DEF RedOnlyByEdit
  <2> DEFINE e == main.manifest[Slice].entries[p]
             item == Surface[Slice][main.manifest[Slice].source][p]
  <2>1. p \in Paths /\ e # Untracked
    BY DEF On!Tracked
  <2>2. Faithful(main, authored)
    BY DEF ContentInv
  <2>3. /\ e.cpath = item.cpath
        /\ e.sha = Digest[item.file]
        /\ e.seed <=> item.class = "seeded"
        /\ \/ item.class = "seeded"
           \/ main.tree[item.cpath] = item.file
           \/ authored[item.cpath] # {}
    <3>1. e = [cpath |-> item.cpath, sha |-> Digest[item.file], seed |-> item.class = "seeded"]
      BY <2>1, <2>2 DEF Faithful
    <3>2. \/ item.class = "seeded"
          \/ main.tree[item.cpath] = item.file
          \/ authored[item.cpath] # {}
      BY <2>1, <2>2 DEF Faithful
    <3> HIDE DEF e, item
    <3>3. e.cpath = item.cpath /\ e.sha = Digest[item.file]
      BY <3>1
    <3>4. e.seed <=> item.class = "seeded"
      BY <3>1
    <3> QED
      BY <3>2, <3>3, <3>4
  <2>4. item.file # NoFile
    <3>1. main.manifest[Slice].source \in Releases
      BY DEF IInv, LaneInv, Locked
    <3>2. item.file \in Files
      BY <2>1, <3>1, AtType DEF On!At
    <3> QED
      BY <3>2, Surfaces DEF Surfaces
  <2>5. ~On(main)!Claimed(Slice, p)
    <3>1. Slices \subseteq Nat /\ Slice \in Slices
      BY Surfaces, SyncConstants DEF Surfaces, SyncConstants
    <3>2. \A z \in Slices : z < Slice => z \in Slices \ {Slice}
      BY <3>1
    <3>3. \A z \in Slices \ {Slice} : On(main)!Tracked(z) = {}
      BY <2>2 DEF On!Tracked, Faithful
    <3> QED
      BY <3>2, <3>3 DEF On!Claimed
  <2>6. authored[e.cpath] = {}
    OBVIOUS
  <2> HIDE DEF e, item
  <2>7. e.seed \/ (main.tree[e.cpath] # NoFile /\ Digest[main.tree[e.cpath]] = e.sha)
    BY <2>3, <2>4, <2>6
  <2>8. CASE e.seed
    BY <2>5, <2>8 DEF On!Verdict, e
  <2>9. CASE main.tree[e.cpath] # NoFile /\ Digest[main.tree[e.cpath]] = e.sha
    BY <2>5, <2>9 DEF On!Verdict, e
  <2> QED
    BY <2>7, <2>8, <2>9
<1> QED
  <2>1. IInv /\ IInv' /\ ContentInv /\ [Next]_vars => ContentInv'
    BY ContentNext
  <2> QED
    BY <1>1, <2>1, ContentInit, SpecInv, PTL DEF Spec

-----------------------------------------------------------------------------
(* The engine pin and the content pin.                                       *)
\* The order of versions is total.
LEMMA LessTotal ==
    ASSUME NEW k \in VersionKey, NEW o \in VersionKey
    PROVE  Less(k, o) \/ k = o \/ Less(o, k)
BY LessUnfold, KeyFields

\* A kept snapshot's engine is at most the vendored release, and its checksum, when
\* there is one, at most its engine's.
Dated(s) ==
    /\ ~Less(Pinned(s), s.version)
    /\ s.sha # Blank => ~Less(s.version, s.sha)

\* What a release and a snapshot's versions are to the order.
LEMMA DatedKeys ==
    ASSUME NEW s \in Snapshot, Locked(s)
    PROVE  /\ Pinned(s) \in Releases /\ s.version \in Releases
           /\ s.sha # Blank => s.sha \in Releases
           /\ Releases \subseteq VersionKey
BY LockedPinned, SyncConstants DEF Snapshot, SyncConstants

\* Main's pins and those of every checkout are dated; a head's are of its target, its
\* content pin the base's advanced; targets are published.
PinInv ==
    /\ Dated(main)
    /\ \A n \in Runs : runs[n] # NoRun =>
          /\ Dated(runs[n].base)
          /\ runs[n].target \in published
    /\ \A u \in Upgrades : branches[u] # NoBranch =>
          /\ Dated(branches[u].base)
          /\ branches[u].head.sha \in {Blank, u[2]}
          /\ branches[u].head.own = Advance(branches[u].base.own, u[1], u[2])
          /\ u[2] \in published

\* How a step moves the content pin: to what is published, by an advance of main's
\* own or of the merged branch's, or not at all.
PinStep ==
    \/ main'.own = main.own
    \/ main'.own \in published'
    \/ TextPrefix(Pinned(main), main.own)
    \/ \E u \in Upgrades : /\ branches[u] # NoBranch /\ branches'[u] = NoBranch
                           /\ TextPrefix(u[1], main.own)

\* How a step can leave a checksum beside another engine version.
ShaStep ==
    EnginePinWhole /\ ~EnginePinWhole' =>
        /\ Less(main'.sha, main'.version)
        /\ \E u \in Upgrades : /\ branches[u] # NoBranch /\ branches'[u] = NoBranch
                               /\ main.sha \notin {Blank, branches[u].base.sha}

Good == PinInv' /\ PinStep /\ ShaStep

\* Steps that leave main's pins, the runs and the branches alone.
LEMMA QuietPins ==
    ASSUME PinInv, UNCHANGED <<runs, branches>>, published \subseteq published',
           Dated(main'), main'.own = main.own \/ main'.own \in published',
           EnginePinWhole => EnginePinWhole'
    PROVE  Good
BY DEF Good, PinInv, PinStep, ShaStep

\* Steps of the runs: main stands still.
LEMMA RunPins ==
    ASSUME PinInv, UNCHANGED <<main, published>>,
           \A n \in Runs : runs'[n] # NoRun =>
              Dated(runs'[n].base) /\ runs'[n].target \in published,
           \A u \in Upgrades : branches'[u] # NoBranch =>
              /\ Dated(branches'[u].base)
              /\ branches'[u].head.sha \in {Blank, u[2]}
              /\ branches'[u].head.own = Advance(branches'[u].base.own, u[1], u[2])
              /\ u[2] \in published
    PROVE  Good
<1>1. PinStep
  BY DEF PinStep
<1>2. EnginePinWhole' = EnginePinWhole
  BY DEF EnginePinWhole
<1>3. ShaStep
  BY <1>2 DEF ShaStep
<1>4. PinInv'
  BY DEF PinInv
<1> QED
  BY <1>1, <1>3, <1>4 DEF Good

LEMMA PinInit == Init => PinInv
<1> SUFFICES ASSUME Init PROVE PinInv
  OBVIOUS
<1>1. Onboarded \in VersionKey /\ Slice \in Slices /\ Onboarded \in Releases
  BY SyncConstants DEF SyncConstants
<1>2. /\ Bare \in Snapshot /\ Pinned(Bare) = Onboarded /\ Pinned(Bare) \in Pins
      /\ Bare.version = Onboarded /\ Bare.sha = Blank /\ Blank \in Shas
  BY <1>1 DEF Bare, Snapshot, Pins, Pinned, Shas
<1>3. main = Adopted(Bare, Onboarded, Onboarded, Blank)
  BY <1>2 DEF Init, Adopted
<1>4. main.version = Onboarded /\ main.sha = Blank /\ main.manifest[Slice].source = Onboarded
  BY <1>1, <1>2, <1>3, AdoptType
<1>5. Pinned(main) = Onboarded
  BY <1>1, <1>4, SyncConstants DEF Pinned, SyncConstants
<1>6. Dated(main)
  BY <1>1, <1>4, <1>5, LessStrictOrder DEF Dated
<1> QED
  BY <1>6 DEF PinInv, Init

LEMMA UpdateLocalPins ==
    ASSUME IInv, PinInv, NEW r \in Releases, NEW seen \in BOOLEAN, UpdateLocal(r, seen)
    PROVE  Good
<1>1. /\ main \in Snapshot /\ Locked(main) /\ Dated(main)
      /\ main.version \in Releases /\ main.sha \in Shas
      /\ main' = Adopted(main, r, main.version, main.sha)
      /\ r \in published /\ Less(Pinned(main), r)
      /\ UNCHANGED <<published, runs, branches>>
  BY DEF IInv, TypeOK, LaneInv, PinInv, Snapshot, UpdateLocal, IsNewer, Shas, Adopted
<1>2. /\ Pinned(main') = r /\ main'.version = main.version /\ main'.sha = main.sha
  BY <1>1, AdoptLocked
<1>3. /\ Pinned(main) \in VersionKey /\ main.version \in VersionKey /\ r \in VersionKey
  BY <1>1, DatedKeys
<1>4. Dated(main')
  BY <1>1, <1>2, <1>3, LessStrictOrder DEF Dated
<1>5. main'.own = Advance(main.own, Pinned(main), r)
  BY DEF UpdateLocal, Adopt, Job
<1>6. PinStep
  BY <1>1, <1>5 DEF PinStep, Advance
<1>7. ShaStep
  BY <1>2 DEF ShaStep, EnginePinWhole
<1>8. PinInv'
  BY <1>1, <1>4 DEF PinInv
<1> QED
  BY <1>6, <1>7, <1>8 DEF Good

LEMMA StartPins ==
    ASSUME IInv, PinInv, NEW n \in Runs, NEW t \in published, Start(n, t)
    PROVE  Good
<1>1. /\ runs' = [runs EXCEPT ![n] = [pc |-> "resolve", base |-> main, target |-> t]]
      /\ UNCHANGED <<published, main, branches>>
  BY DEF Start
<1>2. \A k \in Runs : runs'[k] = IF k = n THEN [pc |-> "resolve", base |-> main, target |-> t]
                                  ELSE runs[k]
  BY <1>1 DEF IInv, TypeOK
<1>3. \A k \in Runs : runs'[k] # NoRun =>
         Dated(runs'[k].base) /\ runs'[k].target \in published
  BY <1>2 DEF PinInv
<1> QED
  BY <1>1, <1>3, RunPins DEF PinInv

LEMMA ResolvePins ==
    ASSUME IInv, PinInv, NEW n \in Runs, NEW seen \in BOOLEAN, Resolve(n, seen)
    PROVE  Good
<1> DEFINE goes == /\ IsNewer(Pinned(runs[n].base), runs[n].target, Retracted(runs[n].target, seen))
                   /\ On(runs[n].base)!Changed(Job(runs[n].target, FALSE))
<1>1. /\ runs[n] # NoRun
      /\ runs' = [runs EXCEPT ![n] = IF goes THEN [runs[n] EXCEPT !.pc = "push"] ELSE NoRun]
      /\ UNCHANGED <<published, main, branches>>
  BY DEF Resolve
<1> HIDE DEF goes
<1>2. \A k \in Runs : runs'[k] # NoRun =>
         /\ runs[k] # NoRun /\ runs'[k].base = runs[k].base /\ runs'[k].target = runs[k].target
  BY <1>1 DEF IInv, TypeOK
<1> QED
  BY <1>1, <1>2, RunPins DEF PinInv

LEMMA PushPins == ASSUME IInv, PinInv, NEW n \in Runs, Push(n) PROVE Good
<1> DEFINE b == runs[n].base
           t == runs[n].target
           u == <<Pinned(b), t>>
           new == [base |-> b, head |-> Synced(b, t),
                   open |-> branches[u] # NoBranch /\ branches[u].open, reviews |-> 0]
<1>1. /\ runs[n] # NoRun /\ Locked(b) /\ b \in Snapshot /\ t \in Releases
      /\ Dated(b) /\ t \in published
  BY DEF Push, IInv, TypeOK, LaneInv, PinInv
<1>2. /\ branches' = [branches EXCEPT ![u] = new]
      /\ runs' = [runs EXCEPT ![n].pc = "deliver"]
      /\ UNCHANGED <<published, main>>
  BY DEF Push
<1>3. new.base = b /\ new.head = Synced(b, t)
  OBVIOUS
<1>4. Synced(b, t).sha = Blank
  BY <1>1, SyncedLocked
<1>5. Synced(b, t).own = Advance(b.own, Pinned(b), t)
  BY DEF Synced, Adopt, Job
<1> HIDE DEF new
<1>6. \A v \in Upgrades : branches'[v] = IF v = u THEN new ELSE branches[v]
  BY <1>2 DEF IInv, TypeOK
<1>7. u[1] = Pinned(b) /\ u[2] = t
  OBVIOUS
<1> HIDE DEF u, b, t
<1>8. \A v \in Upgrades : branches'[v] # NoBranch =>
         /\ Dated(branches'[v].base)
         /\ branches'[v].head.sha \in {Blank, v[2]}
         /\ branches'[v].head.own = Advance(branches'[v].base.own, v[1], v[2])
         /\ v[2] \in published
  <2> SUFFICES ASSUME NEW v \in Upgrades, branches'[v] # NoBranch
               PROVE  /\ Dated(branches'[v].base)
                      /\ branches'[v].head.sha \in {Blank, v[2]}
                      /\ branches'[v].head.own = Advance(branches'[v].base.own, v[1], v[2])
                      /\ v[2] \in published
    OBVIOUS
  <2>1. CASE v = u
    BY <1>1, <1>3, <1>4, <1>5, <1>6, <1>7, <2>1
  <2>2. CASE v # u
    <3>1. branches'[v] = branches[v]
      BY <1>6, <2>2
    <3> QED
      BY <3>1 DEF PinInv
  <2> QED
    BY <2>1, <2>2
<1>9. \A k \in Runs : runs'[k] # NoRun =>
         /\ runs[k] # NoRun /\ runs'[k].base = runs[k].base /\ runs'[k].target = runs[k].target
  BY <1>1, <1>2 DEF IInv, TypeOK
<1> QED
  BY <1>2, <1>8, <1>9, RunPins DEF PinInv

LEMMA DeliverPins == ASSUME IInv, PinInv, NEW n \in Runs, Deliver(n) PROVE Good
<1> DEFINE u == <<Pinned(runs[n].base), runs[n].target>>
<1>1. /\ branches[u] # NoBranch
      /\ branches' = [branches EXCEPT ![u].open = TRUE]
      /\ runs' = [runs EXCEPT ![n] = NoRun]
      /\ UNCHANGED <<published, main>>
  BY DEF Deliver
<1> HIDE DEF u
<1>2. \A v \in Upgrades : branches'[v] # NoBranch =>
         /\ branches[v] # NoBranch
         /\ branches'[v].base = branches[v].base /\ branches'[v].head = branches[v].head
  BY <1>1 DEF IInv, TypeOK
<1>3. \A k \in Runs : runs'[k] # NoRun => runs'[k] = runs[k]
  BY <1>1 DEF IInv, TypeOK
<1> QED
  BY <1>1, <1>2, <1>3, RunPins DEF PinInv

\* A reviewer leaves the head's content pin, and blank checksums or the target's.
LEMMA ReviewPins == ASSUME IInv, PinInv, NEW u \in Upgrades, Review(u) PROVE Good
<1>1. /\ branches[u] # NoBranch /\ branches[u].head \in Snapshot
      /\ branches[u] \in [base : Snapshot, head : Snapshot, open : BOOLEAN,
                          reviews : 0..MaxReviews]
      /\ UNCHANGED <<published, main, runs>>
  BY DEF Review, IInv, TypeOK
<1> DEFINE refilled == [branches EXCEPT ![u].head.sha = u[2], ![u].reviews = @ + 1]
           pruned(c) == [branches EXCEPT ![u].head.tree[c] = NoFile, ![u].reviews = @ + 1]
           kept == /\ branches'[u].base = branches[u].base
                   /\ branches'[u].head.own = branches[u].head.own
                   /\ branches'[u].head.sha \in {branches[u].head.sha, u[2]}
                   /\ \A v \in Upgrades \ {u} : branches'[v] = branches[v]
<1>2. ASSUME branches' = refilled PROVE kept
  <2>1. branches'[u] = [branches[u] EXCEPT !.head.sha = u[2], !.reviews = @ + 1]
        /\ \A v \in Upgrades \ {u} : branches'[v] = branches[v]
    BY <1>2 DEF IInv, TypeOK
  <2>2. branches'[u].head = [branches[u].head EXCEPT !.sha = u[2]]
        /\ branches'[u].base = branches[u].base
    BY <1>1, <2>1
  <2>3. branches'[u].head.own = branches[u].head.own /\ branches'[u].head.sha = u[2]
    BY <1>1, <2>2 DEF Snapshot
  <2> QED
    BY <2>1, <2>2, <2>3
<1>3. ASSUME NEW c, branches' = pruned(c) PROVE kept
  <2>1. branches'[u] = [branches[u] EXCEPT !.head.tree[c] = NoFile, !.reviews = @ + 1]
        /\ \A v \in Upgrades \ {u} : branches'[v] = branches[v]
    BY <1>3 DEF IInv, TypeOK
  <2>2. branches'[u].head = [branches[u].head EXCEPT !.tree[c] = NoFile]
        /\ branches'[u].base = branches[u].base
    BY <1>1, <2>1
  <2>3. branches'[u].head.own = branches[u].head.own
        /\ branches'[u].head.sha = branches[u].head.sha
    BY <1>1, <2>2 DEF Snapshot
  <2> QED
    BY <2>1, <2>2, <2>3
<1>4. kept
  <2> HIDE DEF kept
  <2> QED
    BY <1>2, <1>3 DEF Review
<1>5. \A v \in Upgrades : branches'[v] # NoBranch =>
         /\ Dated(branches'[v].base)
         /\ branches'[v].head.sha \in {Blank, v[2]}
         /\ branches'[v].head.own = Advance(branches'[v].base.own, v[1], v[2])
         /\ v[2] \in published
  BY <1>1, <1>4 DEF PinInv
<1> QED
  BY <1>1, <1>5, RunPins DEF PinInv

\* A merge takes the target's engine version; a checksum it does not take from the
\* head is one that main came to have after the run began, and not a newer one.
LEMMA MergePins == ASSUME IInv, PinInv, NEW u \in Upgrades, Merge(u) PROVE Good
<1> DEFINE b == branches[u].base
           h == branches[u].head
<1>1. /\ branches[u] # NoBranch /\ Mergeable(b, main, h) /\ main' = Merged(b, main, h)
      /\ branches' = [branches EXCEPT ![u] = NoBranch]
      /\ UNCHANGED <<published, runs>>
  BY DEF Merge
<1>2. /\ b \in Snapshot /\ main \in Snapshot /\ h \in Snapshot
      /\ Locked(b) /\ Locked(main) /\ Locked(h)
      /\ Pinned(b) = u[1] /\ Pinned(h) = u[2] /\ h.version = u[2] /\ Less(u[1], u[2])
      /\ Dated(b) /\ Dated(main) /\ h.sha \in {Blank, u[2]}
      /\ h.own = Advance(b.own, u[1], u[2]) /\ u[2] \in published
  BY <1>1 DEF IInv, TypeOK, LaneInv, PinInv
<1> HIDE DEF b, h
<1>3. /\ u[1] \in VersionKey /\ u[2] \in VersionKey
      /\ b.version \in VersionKey /\ main.version \in VersionKey
      /\ b.sha # Blank => b.sha \in VersionKey
      /\ main.sha # Blank => main.sha \in VersionKey
      /\ Blank \notin Releases /\ u[2] \in Releases
  <2>1. Releases \subseteq VersionKey /\ Blank \notin Releases
    BY SyncConstants DEF SyncConstants
  <2> QED
    BY <1>2, <2>1, DatedKeys DEF Upgrades
<1>4. Pinned(b) # Pinned(h)
  BY <1>2, <1>3, LessStrictOrder
<1>5. /\ main' \in Snapshot /\ Locked(main')
      /\ \/ main'.manifest[Slice] = h.manifest[Slice]
         \/ main.manifest[Slice] = h.manifest[Slice] /\ main'.manifest[Slice] = main.manifest[Slice]
  BY <1>1, <1>2, <1>4, MergeLocked
<1>6. Pinned(main') = u[2]
  BY <1>2, <1>5, LockedPinned
<1>7. /\ main'.own = Hunk(b.own, main.own, h.own)
      /\ main'.version = Hunk(b.version, main.version, h.version)
      /\ main'.sha = Hunk(b.sha, main.sha, h.sha)
      /\ Agree(b.version, main.version, h.version) /\ Agree(b.sha, main.sha, h.sha)
  BY <1>1, <1>2, MergeType, MergeAgrees
<1>8. Less(b.version, u[2])
  <2>1. Less(b.version, u[1]) \/ b.version = u[1]
    BY <1>2, <1>3, LessTotal DEF Dated
  <2> QED
    BY <1>2, <1>3, <2>1, LessStrictOrder
<1>9. main'.version = u[2]
  <2>1. b.version # u[2]
    BY <1>3, <1>8, LessStrictOrder
  <2> QED
    BY <1>2, <1>7, <2>1 DEF Hunk, Agree
<1>10. b.sha # u[2]
  <2> SUFFICES ASSUME b.sha = u[2] PROVE FALSE
    OBVIOUS
  <2>1. ~Less(b.version, b.sha)
    BY <1>2, <1>3 DEF Dated
  <2> QED
    BY <1>8, <2>1
<1>11. \/ main'.sha \in {Blank, u[2]}
       \/ /\ main'.sha = main.sha /\ main.sha \notin {Blank, b.sha, u[2]}
          /\ main.version \in {b.version, u[2]}
  <2>1. CASE main.sha = b.sha
    BY <1>2, <1>7, <2>1 DEF Hunk
  <2>2. CASE main.sha # b.sha
    <3>1. main'.sha = main.sha
      BY <1>7, <2>2 DEF Hunk
    <3>2. main.version = b.version \/ main.version = u[2]
      BY <1>2, <1>3, <1>7, <1>8, LessStrictOrder DEF Agree
    <3> QED
      BY <1>2, <2>2, <3>1, <3>2
  <2> QED
    BY <2>1, <2>2
<1>12. main'.sha \notin {Blank, u[2]} => Less(main'.sha, u[2])
  <2> SUFFICES ASSUME main'.sha \notin {Blank, u[2]} PROVE Less(main'.sha, u[2])
    OBVIOUS
  <2>1. /\ main'.sha = main.sha /\ main.sha \in VersionKey
        /\ ~Less(main.version, main.sha)
        /\ main.version \in {b.version, u[2]}
    BY <1>2, <1>3, <1>11 DEF Dated
  <2>2. Less(main.sha, main.version) \/ main.sha = main.version
    BY <1>3, <2>1, LessTotal
  <2> QED
    BY <1>3, <1>8, <2>1, <2>2, LessStrictOrder
<1>13. Dated(main')
  <2>1. ~Less(u[2], u[2])
    BY <1>3, LessStrictOrder
  <2>2. main'.sha # Blank => ~Less(u[2], main'.sha)
    BY <1>3, <1>11, <1>12, <2>1, LessStrictOrder
  <2> QED
    BY <1>6, <1>9, <2>1, <2>2 DEF Dated
<1>14. branches'[u] = NoBranch /\ \A v \in Upgrades : branches'[v] # NoBranch => branches'[v] = branches[v]
  BY <1>1 DEF IInv, TypeOK
<1>15. ShaStep
  <2> SUFFICES ASSUME ~EnginePinWhole'
               PROVE  Less(main'.sha, main'.version) /\ main.sha \notin {Blank, b.sha}
    BY <1>1, <1>14 DEF ShaStep, b
  <2>1. main'.sha \notin {Blank, u[2]}
    BY <1>9 DEF EnginePinWhole
  <2> QED
    BY <1>9, <1>11, <1>12, <2>1
<1>16. PinStep
  <2>1. CASE main.own = b.own
    <3>1. main'.own = Advance(main.own, u[1], u[2])
      BY <1>2, <1>7, <2>1 DEF Hunk
    <3> QED
      BY <1>1, <1>2, <1>14, <3>1 DEF PinStep, Advance
  <2>2. CASE main.own # b.own
    BY <1>7, <2>2 DEF Hunk, PinStep
  <2> QED
    BY <2>1, <2>2
<1>17. PinInv'
  BY <1>1, <1>13, <1>14 DEF PinInv
<1> QED
  BY <1>15, <1>16, <1>17 DEF Good

LEMMA PinNext == ASSUME IInv, PinInv, [Next]_vars PROVE Good
<1>0. main \in Snapshot /\ Locked(main) /\ Dated(main)
  BY DEF IInv, TypeOK, LaneInv, PinInv
<1>1. CASE UNCHANGED vars
  BY <1>1 DEF vars, Good, PinInv, PinStep, ShaStep, EnginePinWhole, Dated
<1>2. ASSUME NEW r \in Releases, Publish(r) PROVE Good
  <2>1. /\ published \subseteq published' /\ UNCHANGED <<main, runs, branches>>
        /\ EnginePinWhole' = EnginePinWhole
    BY <1>2 DEF Publish, EnginePinWhole
  <2> QED
    BY <1>0, <2>1, QuietPins
<1>3. ASSUME NEW r \in Releases, BumpPin(r) PROVE Good
  <2>1. /\ main'.own = r /\ r \in published /\ main'.version = main.version
        /\ main'.sha = main.sha /\ main'.manifest = main.manifest
        /\ UNCHANGED <<published, runs, branches>>
    BY <1>0, <1>3 DEF BumpPin, Snapshot
  <2>2. Dated(main')
    <3>1. Pinned(main') = Pinned(main)
      BY <1>0, <2>1, SyncConstants DEF Pinned, Locked, SyncConstants
    <3> QED
      BY <1>0, <2>1, <3>1 DEF Dated
  <2>3. EnginePinWhole => EnginePinWhole'
    BY <2>1 DEF EnginePinWhole
  <2> QED
    BY <2>1, <2>2, <2>3, QuietPins
<1>4. ASSUME NEW c \in CPaths, NEW f \in Files \union {NoFile}, ConsumerEdit(c, f) PROVE Good
  <2>1. /\ main'.own = main.own /\ main'.version = main.version
        /\ main'.sha = main.sha /\ main'.manifest = main.manifest
        /\ UNCHANGED <<published, runs, branches>>
    BY <1>0, <1>4 DEF ConsumerEdit, Snapshot
  <2>2. Dated(main')
    BY <1>0, <2>1 DEF Dated, Pinned
  <2>3. EnginePinWhole => EnginePinWhole'
    BY <2>1 DEF EnginePinWhole
  <2> QED
    BY <2>1, <2>2, <2>3, QuietPins
<1>5. ASSUME Refill PROVE Good
  <2>1. /\ main'.own = main.own /\ main'.version = main.version
        /\ main'.sha = main.version /\ main'.manifest = main.manifest
        /\ UNCHANGED <<published, runs, branches>>
    BY <1>0, <1>5 DEF Refill, Snapshot
  <2>2. Dated(main')
    <3>1. ~Less(main.version, main.version)
      BY <1>0, DatedKeys, LessStrictOrder
    <3> QED
      BY <1>0, <2>1, <3>1 DEF Dated, Pinned
  <2>3. EnginePinWhole'
    BY <2>1 DEF EnginePinWhole
  <2> QED
    BY <2>1, <2>2, <2>3, QuietPins
<1>6. ASSUME Evict PROVE Good
  <2>1. UNCHANGED <<main, published, runs, branches>>
    BY <1>6 DEF Evict
  <2> QED
    BY <2>1, RunPins DEF PinInv
<1>7. ASSUME NEW n \in Runs, Schedule(n) PROVE Good
  BY <1>7, StartPins DEF Schedule
<1>8. ASSUME NEW n \in Runs, NEW r \in Releases, UpdatePR(n, r) PROVE Good
  BY <1>8, StartPins DEF UpdatePR
<1>9. ASSUME NEW n \in Runs, Stop(n) PROVE Good
  <2>1. UNCHANGED <<main, published, branches>> /\ \A k \in Runs : runs'[k] # NoRun => runs'[k] = runs[k]
    BY <1>9 DEF Stop, IInv, TypeOK
  <2> QED
    BY <2>1, RunPins DEF PinInv
<1> QED
  BY <1>1, <1>2, <1>3, <1>4, <1>5, <1>6, <1>7, <1>8, <1>9, UpdateLocalPins, ResolvePins,
     PushPins, DeliverPins, ReviewPins, MergePins DEF Next

LEMMA SpecPins == Spec => [](IInv /\ PinInv)
<1>1. IInv /\ PinInv /\ [Next]_vars => PinInv'
  BY PinNext DEF Good
<1> QED
  BY <1>1, PinInit, SpecInv, PTL DEF Spec

\* The engine checksum on main comes apart from the engine version only where a PR is
\* merged over a checksum recorded since its run checked main out, and is then older.
THEOREM ChecksumsComeApart == Spec => ChecksumFollowsVersion
<1>1. IInv /\ PinInv /\ [Next]_vars =>
        [EnginePinWhole /\ ~EnginePinWhole' =>
          /\ Less(main'.sha, main'.version)
          /\ \E u \in Upgrades :
                /\ branches[u] # NoBranch /\ branches'[u] = NoBranch
                /\ main.sha \notin {Blank, branches[u].base.sha}]_vars
  BY PinNext DEF Good, ShaStep
<1> QED
  BY <1>1, SpecPins, PTL DEF Spec, ChecksumFollowsVersion

\* The content pin comes to name no release only where the text of a release that is
\* replaced begins it, for any releases and any hands that move the pin.
THEOREM PinsLostToPrefixes == Spec => PinLostToPrefix
<1>1. IInv /\ PinInv /\ [Next]_vars =>
        [main.own \in published /\ main'.own \notin published =>
          \/ TextPrefix(Pinned(main), main.own)
          \/ \E u \in Upgrades :
                /\ branches[u] # NoBranch /\ branches'[u] = NoBranch
                /\ TextPrefix(u[1], main.own)]_vars
  <2> SUFFICES ASSUME IInv, PinInv, [Next]_vars, main.own \in published,
                      main'.own \notin published, main' # main
               PROVE  \/ TextPrefix(Pinned(main), main.own)
                      \/ \E u \in Upgrades :
                            /\ branches[u] # NoBranch /\ branches'[u] = NoBranch
                            /\ TextPrefix(u[1], main.own)
    BY DEF vars
  <2>1. published' = published
    BY DEF Next, vars, Publish, BumpPin, UpdateLocal, ConsumerEdit, Schedule, Push, Deliver, Stop,
       UpdatePR, Resolve, Review, Merge, Refill, Evict, Start
  <2> QED
    BY <2>1, PinNext DEF Good, PinStep
<1> QED
  BY <1>1, SpecPins, PTL DEF Spec, PinLostToPrefix

=============================================================================
