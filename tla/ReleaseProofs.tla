---------------------------- MODULE ReleaseProofs ----------------------------
(***************************************************************************)
(* What cutting promises: tags never move, whoever cuts; manifests ship    *)
(* fresh from clean trees; and where one clone cuts with every tag fetched *)
(* the bump classes tell consumers what a jump may take from them.         *)
(***************************************************************************)
EXTENDS Release, TLAPS

-----------------------------------------------------------------------------
(* The order of versions, for all of them.                                   *)
\* The order, written out by component.
LEMMA LessUnfold ==
    ASSUME NEW k \in VersionKey, NEW o \in VersionKey
    PROVE  Less(k, o) <=>
             \/ k[1] < o[1]
             \/ k[1] = o[1] /\ k[2] < o[2]
             \/ k[1] = o[1] /\ k[2] = o[2] /\ k[3] < o[3]
             \/ k[1] = o[1] /\ k[2] = o[2] /\ k[3] = o[3] /\ k[4] < o[4]
             \/ k[1] = o[1] /\ k[2] = o[2] /\ k[3] = o[3] /\ k[4] = o[4] /\ k[5] < o[5]
<1>1. 1..5 = {1, 2, 3, 4, 5}
  OBVIOUS
<1>2. /\ 1..(1 - 1) = {}
      /\ 1..(2 - 1) = {1}
      /\ 1..(3 - 1) = {1, 2}
      /\ 1..(4 - 1) = {1, 2, 3}
      /\ 1..(5 - 1) = {1, 2, 3, 4}
  OBVIOUS
<1> QED
  BY <1>1, <1>2 DEF Less

\* The components of a version key are numbers.
LEMMA KeyFields ==
    ASSUME NEW k \in VersionKey
    PROVE  /\ k[1] \in Nat /\ k[2] \in Nat /\ k[3] \in Nat /\ k[4] \in {0, 1} /\ k[5] \in Nat
           /\ k = <<k[1], k[2], k[3], k[4], k[5]>>
BY DEF VersionKey

\* `Less` never holds both ways, and it is transitive.
THEOREM LessStrictOrder ==
    ASSUME NEW k \in VersionKey, NEW m \in VersionKey, NEW o \in VersionKey
    PROVE  /\ ~Less(k, k)
           /\ Less(k, m) => ~Less(m, k)
           /\ Less(k, m) /\ Less(m, o) => Less(k, o)
BY LessUnfold, KeyFields

\* A jump is classified at least as high as each hop in it, so a gate on
\* consecutive releases bounds what any multi-version update may contain.
THEOREM JumpCoversHops ==
    ASSUME NEW p \in VersionKey, NEW m \in VersionKey, NEW t \in VersionKey,
           Less(p, m), Less(m, t)
    PROVE  /\ Rank(ClassifyBump(p, m)) <= Rank(ClassifyBump(p, t))
           /\ Rank(ClassifyBump(m, t)) <= Rank(ClassifyBump(p, t))
<1>1. /\ p[1] <= m[1] /\ (p[1] = m[1] => p[2] <= m[2])
      /\ m[1] <= t[1] /\ (m[1] = t[1] => m[2] <= t[2])
  BY LessUnfold, KeyFields
<1>2. /\ Rank("patch") = 0 /\ Rank("minor") = 1 /\ Rank("major") = 2
  BY DEF Rank
<1> QED
  BY <1>1, <1>2, KeyFields DEF ClassifyBump

\* A bump of a stable version is a newer version and of the class asked for.
THEOREM BumpIsNewer ==
    ASSUME NEW k \in VersionKey, Stable(k), NEW b \in Bumps
    PROVE  /\ BumpVersion(k, b) \in VersionKey
           /\ Less(k, BumpVersion(k, b))
           /\ ClassifyBump(k, BumpVersion(k, b)) = b
<1> DEFINE n == BumpVersion(k, b)
<1>1. CASE b = "major"
  <2>1. n = <<k[1] + 1, 0, 0, 1, 0>>
    BY <1>1 DEF BumpVersion
  <2>2. n \in VersionKey
    BY <2>1, KeyFields DEF VersionKey
  <2> QED
    BY <1>1, <2>1, <2>2, KeyFields, LessUnfold DEF ClassifyBump
<1>2. CASE b = "minor"
  <2>1. n = <<k[1], k[2] + 1, 0, 1, 0>>
    BY <1>2 DEF BumpVersion
  <2>2. n \in VersionKey
    BY <2>1, KeyFields DEF VersionKey
  <2> QED
    BY <1>2, <2>1, <2>2, KeyFields, LessUnfold DEF ClassifyBump
<1>3. CASE b = "patch"
  <2>1. n = <<k[1], k[2], k[3] + 1, 1, 0>>
    BY <1>3 DEF BumpVersion
  <2>2. n \in VersionKey
    BY <2>1, KeyFields DEF VersionKey
  <2> QED
    BY <1>3, <2>1, <2>2, KeyFields, LessUnfold DEF ClassifyBump
<1> QED
  BY <1>1, <1>2, <1>3 DEF Bumps

-----------------------------------------------------------------------------
\* A cut in progress has a target, and has tagged it before it pushes.
ActiveInv ==
    \A c \in Cutters : cut[c] # Idle =>
        /\ cut[c].pc # "idle" /\ cut[c].target \in Targets
        /\ cut[c].pc = "push" => local[c][cut[c].target] # NoTag

BaseInv == TypeOK /\ ActiveInv

-----------------------------------------------------------------------------
(* Types, and what every step leaves alone.                                  *)
LEMMA IdleIsCut == Idle \in Cut /\ Idle.pc = "idle"
BY DEF Idle, Cut

LEMMA InitBase == ASSUME ReleaseConstants, Init PROVE BaseInv
<1>1. Empty \in Commit
  BY DEF Empty, Commit, Classes
<1>2. TypeOK
  BY <1>1, IdleIsCut DEF ReleaseConstants, Init, TypeOK
<1>3. ActiveInv
  BY DEF Init, ActiveInv
<1> QED BY <1>2, <1>3 DEF BaseInv

\* Work in a clone: nothing that is tagged or being cut changes.
Works(c) == Edit(c) \/ Generate(c) \/ CommitWork(c)

LEMMA WorkBase ==
    ASSUME ReleaseConstants, BaseInv, NEW c \in Cutters, Works(c)
    PROVE  /\ BaseInv'
           /\ UNCHANGED <<remote, local, cut>>
           /\ cut[c] = Idle
           /\ \A d \in Cutters \ {c} : head'[d] = head[d] /\ work'[d] = work[d]
<1>1. UNCHANGED <<remote, local, cut>> /\ cut[c] = Idle
  BY DEF Works, Edit, Generate, CommitWork
<1>2. edits' \in 0..MaxEdits
  BY DEF Works, Edit, Generate, CommitWork, BaseInv, TypeOK, ReleaseConstants
<1>3. head' \in [Cutters -> Commit] /\ \A d \in Cutters \ {c} : head'[d] = head[d]
  BY DEF Works, Edit, Generate, CommitWork, BaseInv, TypeOK
<1>4. work' \in [Cutters -> Commit] /\ \A d \in Cutters \ {c} : work'[d] = work[d]
  <2>1. CASE Edit(c)
    <3>1. work[c] \in Commit
      BY DEF BaseInv, TypeOK
    <3>2. CASE \E p \in Paths, k \in Classes : work' = [work EXCEPT ![c].surface[p] = k]
      <4>1. PICK p \in Paths, k \in Classes : work' = [work EXCEPT ![c].surface[p] = k]
        BY <3>2
      <4>2. [work[c] EXCEPT !.surface[p] = k] \in Commit
        BY <3>1 DEF Commit
      <4> QED BY <4>1, <4>2 DEF BaseInv, TypeOK
    <3>3. CASE \E v \in Migrated : work' = [work EXCEPT ![c].migrations = @ \union {v}]
      <4>1. PICK v \in Migrated : work' = [work EXCEPT ![c].migrations = @ \union {v}]
        BY <3>3
      <4>2. [work[c] EXCEPT !.migrations = @ \union {v}] \in Commit
        BY <3>1 DEF Commit
      <4> QED BY <4>1, <4>2 DEF BaseInv, TypeOK
    <3> QED BY <2>1, <3>2, <3>3 DEF Edit
  <2>2. CASE Generate(c)
    <3>1. work[c] \in Commit
      BY DEF BaseInv, TypeOK
    <3>2. [work[c] EXCEPT !.manifest = work[c].surface] \in Commit
      BY <3>1 DEF Commit
    <3> QED BY <2>2, <3>2 DEF Generate, BaseInv, TypeOK
  <2>3. CASE CommitWork(c)
    BY <2>3 DEF CommitWork, BaseInv, TypeOK
  <2> QED BY <2>1, <2>2, <2>3 DEF Works
<1>5. TypeOK' /\ ActiveInv'
  BY <1>1, <1>2, <1>3, <1>4 DEF BaseInv, TypeOK, ActiveInv
<1> QED BY <1>1, <1>3, <1>4, <1>5 DEF BaseInv

LEMMA FetchBase ==
    ASSUME ReleaseConstants, BaseInv, NEW c \in Cutters, FetchTags(c)
    PROVE  /\ BaseInv'
           /\ UNCHANGED <<remote, head, work, cut>>
           /\ cut[c] = Idle
           /\ \A v \in Targets : local'[c][v] = IF local[c][v] = NoTag THEN remote[v] ELSE local[c][v]
           /\ \A d \in Cutters \ {c} : local'[d] = local[d]
<1>1. /\ UNCHANGED <<remote, head, work, cut, edits>>
      /\ cut[c] = Idle
  BY DEF FetchTags
<1>2. /\ \A v \in Targets : local'[c][v] = IF local[c][v] = NoTag THEN remote[v] ELSE local[c][v]
      /\ \A d \in Cutters \ {c} : local'[d] = local[d]
      /\ local' \in [Cutters -> [Targets -> Tag \union {NoTag}]]
  BY DEF FetchTags, BaseInv, TypeOK
<1>3. TypeOK' /\ ActiveInv'
  BY <1>1, <1>2 DEF BaseInv, TypeOK, ActiveInv
<1> QED BY <1>1, <1>2, <1>3 DEF BaseInv

\* The steps of a cut change the cut, the clone's own new tag, or the remote's.
LEMMA BaselineBase ==
    ASSUME ReleaseConstants, BaseInv, NEW c \in Cutters, NEW v \in Targets, Baseline(c, v)
    PROVE  /\ BaseInv'
           /\ UNCHANGED <<remote, local, head, work>>
           /\ cut'[c] = [pc |-> "gate", latest |-> Latest(Released, "rc", {}), target |-> v,
                         override |-> FALSE]
           /\ \A d \in Cutters \ {c} : cut'[d] = cut[d]
<1> DEFINE latest == Latest(Released, "rc", {})
           new == [pc |-> "gate", latest |-> latest, target |-> v, override |-> FALSE]
<1>1. cut' = [cut EXCEPT ![c] = new] /\ UNCHANGED <<remote, local, head, work, edits>>
  BY DEF Baseline
<1>2. latest \in Targets \union {NoVersion}
  BY DEF Latest, Released
<1>3. new \in Cut
  BY <1>2 DEF Cut
<1>4. /\ cut'[c] = new
      /\ \A d \in Cutters \ {c} : cut'[d] = cut[d]
      /\ cut' \in [Cutters -> Cut]
  BY <1>1, <1>3 DEF BaseInv, TypeOK
<1>5. TypeOK' /\ ActiveInv'
  BY <1>1, <1>4 DEF BaseInv, TypeOK, ActiveInv
<1> QED BY <1>1, <1>4, <1>5 DEF BaseInv

LEMMA GatesBase ==
    ASSUME ReleaseConstants, BaseInv, NEW c \in Cutters, NEW o \in BOOLEAN, Gates(c, o)
    PROVE  /\ BaseInv'
           /\ UNCHANGED <<remote, local, head, work>>
           /\ cut[c].pc = "gate" /\ cut'[c].pc = "tag"
           /\ cut'[c].latest = cut[c].latest /\ cut'[c].target = cut[c].target
           /\ \A d \in Cutters \ {c} : cut'[d] = cut[d]
<1>1. /\ cut' = [cut EXCEPT ![c].pc = "tag", ![c].override = o]
      /\ UNCHANGED <<remote, local, head, work, edits>>
      /\ cut[c].pc = "gate"
  BY DEF Gates
<1>2. cut[c] \in Cut
  BY DEF BaseInv, TypeOK
<1>3. /\ cut'[c] = [cut[c] EXCEPT !.pc = "tag", !.override = o]
      /\ \A d \in Cutters \ {c} : cut'[d] = cut[d]
      /\ cut' \in [Cutters -> Cut]
  BY <1>1, <1>2 DEF BaseInv, TypeOK, Cut
<1>4. /\ cut'[c].pc = "tag"
      /\ cut'[c].latest = cut[c].latest /\ cut'[c].target = cut[c].target
  BY <1>2, <1>3 DEF Cut
<1>5. cut[c] # Idle
  BY <1>1 DEF Idle
<1>6. TypeOK' /\ ActiveInv'
  BY <1>1, <1>3, <1>4, <1>5 DEF BaseInv, TypeOK, ActiveInv
<1> QED BY <1>1, <1>3, <1>4, <1>6 DEF BaseInv

LEMMA TagBase ==
    ASSUME ReleaseConstants, BaseInv, NEW c \in Cutters, TagHead(c)
    PROVE  /\ BaseInv'
           /\ UNCHANGED <<remote, head, work>>
           /\ cut[c].pc = "tag" /\ cut'[c].pc = "push"
           /\ cut'[c].latest = cut[c].latest /\ cut'[c].target = cut[c].target
           /\ \A d \in Cutters \ {c} : cut'[d] = cut[d] /\ local'[d] = local[d]
           /\ cut[c].target \in Targets
           /\ local'[c][cut[c].target] = [commit |-> head[c], override |-> cut[c].override]
           /\ \A v \in Targets \ {cut[c].target} : local'[c][v] = local[c][v]
<1> DEFINE target == cut[c].target
           tag == [commit |-> head[c], override |-> cut[c].override]
<1>1. /\ cut' = [cut EXCEPT ![c].pc = "push"]
      /\ local' = [local EXCEPT ![c][target] = tag]
      /\ UNCHANGED <<remote, head, work, edits>>
      /\ cut[c].pc = "tag"
  BY DEF TagHead
<1>2. cut[c] \in Cut /\ head[c] \in Commit
  BY DEF BaseInv, TypeOK
<1>3. cut[c] # Idle /\ target \in Targets
  BY <1>1 DEF Idle, BaseInv, ActiveInv
<1>4. tag \in Tag /\ tag # NoTag
  BY <1>2 DEF Cut, Tag, ReleaseConstants
<1>5. /\ cut'[c] = [cut[c] EXCEPT !.pc = "push"]
      /\ \A d \in Cutters \ {c} : cut'[d] = cut[d]
      /\ cut' \in [Cutters -> Cut]
  BY <1>1, <1>2 DEF BaseInv, TypeOK, Cut
<1>6. /\ cut'[c].pc = "push"
      /\ cut'[c].latest = cut[c].latest /\ cut'[c].target = target
  BY <1>2, <1>5 DEF Cut
<1>7. /\ local' \in [Cutters -> [Targets -> Tag \union {NoTag}]]
      /\ local'[c][target] = tag
      /\ \A v \in Targets \ {target} : local'[c][v] = local[c][v]
      /\ \A d \in Cutters \ {c} : local'[d] = local[d]
  BY <1>1, <1>3, <1>4 DEF BaseInv, TypeOK
<1>8. TypeOK'
  BY <1>1, <1>5, <1>7 DEF BaseInv, TypeOK
<1>9. ActiveInv'
  BY <1>3, <1>4, <1>5, <1>6, <1>7 DEF BaseInv, ActiveInv
<1> QED BY <1>1, <1>3, <1>5, <1>6, <1>7, <1>8, <1>9 DEF BaseInv

LEMMA PushBase ==
    ASSUME ReleaseConstants, BaseInv, NEW c \in Cutters, Push(c)
    PROVE  /\ BaseInv'
           /\ UNCHANGED <<local, head, work>>
           /\ cut[c] # Idle /\ cut[c].pc = "push" /\ cut'[c] = Idle
           /\ \A d \in Cutters \ {c} : cut'[d] = cut[d]
           /\ cut[c].target \in Targets \ Released
           /\ remote'[cut[c].target] = local[c][cut[c].target]
           /\ \A v \in Targets \ {cut[c].target} : remote'[v] = remote[v]
           /\ Released' = Released \union {cut[c].target}
<1> DEFINE target == cut[c].target
<1>1. /\ cut' = [cut EXCEPT ![c] = Idle]
      /\ remote' = [remote EXCEPT ![target] = local[c][target]]
      /\ UNCHANGED <<local, head, work, edits>>
      /\ cut[c].pc = "push" /\ remote[target] = NoTag
  BY DEF Push
<1>2. cut[c] # Idle
  BY <1>1 DEF Idle
<1>3. target \in Targets /\ local[c][target] # NoTag
  BY <1>1, <1>2 DEF BaseInv, ActiveInv
<1>4. /\ cut'[c] = Idle
      /\ \A d \in Cutters \ {c} : cut'[d] = cut[d]
      /\ cut' \in [Cutters -> Cut]
  BY <1>1, IdleIsCut DEF BaseInv, TypeOK
<1>5. /\ remote' \in [Targets -> Tag \union {NoTag}]
      /\ remote'[target] = local[c][target]
      /\ \A v \in Targets \ {target} : remote'[v] = remote[v]
  BY <1>1, <1>3 DEF BaseInv, TypeOK
<1>6. Released' = Released \union {target} /\ target \notin Released
  BY <1>1, <1>3, <1>5 DEF Released
<1>7. TypeOK' /\ ActiveInv'
  BY <1>1, <1>4, <1>5 DEF BaseInv, TypeOK, ActiveInv
<1> QED BY <1>1, <1>2, <1>3, <1>4, <1>5, <1>6, <1>7 DEF BaseInv

LEMMA StopBase ==
    ASSUME ReleaseConstants, BaseInv, NEW c \in Cutters, Stop(c)
    PROVE  /\ BaseInv'
           /\ UNCHANGED <<remote, local, head, work>>
           /\ cut'[c] = Idle
           /\ \A d \in Cutters \ {c} : cut'[d] = cut[d]
<1>1. cut' = [cut EXCEPT ![c] = Idle] /\ UNCHANGED <<remote, local, head, work, edits>>
  BY DEF Stop
<1>2. /\ cut'[c] = Idle
      /\ \A d \in Cutters \ {c} : cut'[d] = cut[d]
      /\ cut' \in [Cutters -> Cut]
  BY <1>1, IdleIsCut DEF BaseInv, TypeOK
<1>3. TypeOK' /\ ActiveInv'
  BY <1>1, <1>2 DEF BaseInv, TypeOK, ActiveInv
<1> QED BY <1>1, <1>2, <1>3 DEF BaseInv

LEMMA StepBase ==
    ASSUME ReleaseConstants, BaseInv, [Next]_vars
    PROVE  BaseInv'
<1>1. CASE UNCHANGED vars
  BY <1>1 DEF vars, BaseInv, TypeOK, ActiveInv
<1>2. CASE Next
  <2>1. PICK c \in Cutters :
           \/ Works(c) \/ FetchTags(c) \/ \E v \in Targets : Baseline(c, v)
           \/ \E o \in BOOLEAN : Gates(c, o)
           \/ TagHead(c) \/ Push(c) \/ Stop(c)
    BY <1>2 DEF Next, Works
  <2> QED
    BY <2>1, WorkBase, FetchBase, BaselineBase, GatesBase, TagBase, PushBase, StopBase
<1> QED BY <1>1, <1>2

-----------------------------------------------------------------------------
(* The types hold with any number of clones at any point of their cuts.      *)
THEOREM TypesHold == Spec => []TypeOK
<1> USE ReleaseConstants
<1>1. Init => BaseInv
  BY InitBase
<1>2. BaseInv /\ [Next]_vars => BaseInv'
  BY StepBase
<1>3. BaseInv => TypeOK
  BY DEF BaseInv
<1> QED BY <1>1, <1>2, <1>3, PTL DEF Spec

(* INV-5, for any number of clones that race, crash and retry: a tag of the  *)
(* remote keeps what it was first pushed with (release.go:227).              *)
THEOREM TagsImmutable == Spec => TagsNeverMove
<1> USE ReleaseConstants
<1>1. Init => BaseInv
  BY InitBase
<1>2. BaseInv /\ [Next]_vars => BaseInv'
  BY StepBase
<1>3. BaseInv /\ [Next]_vars => [\A v \in Released : remote'[v] = remote[v]]_vars
  <2> SUFFICES ASSUME BaseInv, Next, NEW v \in Released
               PROVE  remote'[v] = remote[v]
    OBVIOUS
  <2>1. PICK c \in Cutters :
           \/ Works(c) \/ FetchTags(c) \/ \E w \in Targets : Baseline(c, w)
           \/ \E o \in BOOLEAN : Gates(c, o)
           \/ TagHead(c) \/ Push(c) \/ Stop(c)
    BY DEF Next, Works
  <2>2. CASE Push(c)
    BY <2>2, PushBase DEF Released
  <2>3. CASE ~Push(c)
    BY <2>1, <2>3 DEF Works, Edit, Generate, CommitWork, FetchTags, Baseline, Gates, TagHead, Stop
  <2> QED BY <2>2, <2>3
<1> QED BY <1>1, <1>2, <1>3, PTL DEF Spec, TagsNeverMove

-----------------------------------------------------------------------------
(* Manifests ship fresh where cuts start from clean trees.                   *)
Fresh(commit) == commit.manifest = commit.surface

\* What is tagged, here or there, is fresh; so is what a cut is about to tag.
FreshInv ==
    /\ \A v \in Released : Fresh(remote[v].commit)
    /\ \A c \in Cutters, v \in Targets : local[c][v] # NoTag => Fresh(local[c][v].commit)
    /\ \A c \in Cutters : cut[c] # Idle => Fresh(head[c]) /\ head[c] = work[c]

LEMMA FreshStep ==
    ASSUME ReleaseConstants, CleanTree, BaseInv, FreshInv, Next
    PROVE  FreshInv'
<1>1. PICK c \in Cutters :
         \/ Works(c) \/ FetchTags(c) \/ \E v \in Targets : Baseline(c, v)
         \/ \E o \in BOOLEAN : Gates(c, o)
         \/ TagHead(c) \/ Push(c) \/ Stop(c)
  BY DEF Next, Works
<1>2. CASE Works(c)
  BY <1>2, WorkBase DEF FreshInv, Released, Fresh
<1>3. CASE FetchTags(c)
  <2>1. \A d \in Cutters, v \in Targets : local'[d][v] # NoTag => Fresh(local'[d][v].commit)
    BY <1>3, FetchBase DEF FreshInv, Released
  <2> QED BY <1>3, <2>1, FetchBase DEF FreshInv, Released, Fresh
<1>4. CASE \E v \in Targets : Baseline(c, v)
  <2>1. Fresh(work[c]) /\ work[c] = head[c]
    BY <1>4 DEF Baseline, Fresh
  <2>2. /\ UNCHANGED <<remote, local, head, work>>
        /\ \A d \in Cutters \ {c} : cut'[d] = cut[d]
    BY <1>4, BaselineBase
  <2>3. \A d \in Cutters : cut'[d] # Idle => Fresh(head[d]) /\ head[d] = work[d]
    BY <2>1, <2>2 DEF FreshInv
  <2> QED BY <2>2, <2>3 DEF FreshInv, Released, Fresh
<1>5. CASE \E o \in BOOLEAN : Gates(c, o)
  <2>1. cut[c] # Idle
    BY <1>5 DEF Gates, Idle
  <2> QED BY <1>5, <2>1, GatesBase DEF FreshInv, Released, Fresh
<1>6. CASE TagHead(c)
  <2>1. cut[c] # Idle
    BY <1>6 DEF TagHead, Idle
  <2>2. Fresh(local'[c][cut[c].target].commit)
    <3>1. local'[c][cut[c].target] = [commit |-> head[c], override |-> cut[c].override]
      BY <1>6, TagBase
    <3>2. Fresh(head[c])
      BY <2>1 DEF FreshInv
    <3>3. local'[c][cut[c].target].commit = head[c]
      BY <3>1
    <3> QED BY <3>2, <3>3
  <2>3. /\ UNCHANGED <<remote, head, work>>
        /\ \A d \in Cutters \ {c} : cut'[d] = cut[d] /\ local'[d] = local[d]
        /\ \A v \in Targets \ {cut[c].target} : local'[c][v] = local[c][v]
    BY <1>6, TagBase
  <2>4. \A d \in Cutters, v \in Targets : local'[d][v] # NoTag => Fresh(local'[d][v].commit)
    BY <2>2, <2>3 DEF FreshInv
  <2>5. \A d \in Cutters : cut'[d] # Idle => Fresh(head[d]) /\ head[d] = work[d]
    BY <2>1, <2>3 DEF FreshInv
  <2> QED BY <2>3, <2>4, <2>5 DEF FreshInv, Released, Fresh
<1>7. CASE Push(c)
  <2>1. Fresh(local[c][cut[c].target].commit)
    BY <1>7, PushBase DEF FreshInv, BaseInv, ActiveInv
  <2>2. \A v \in Released' : Fresh(remote'[v].commit)
    BY <1>7, <2>1, PushBase DEF FreshInv, Released
  <2> QED BY <1>7, <2>2, PushBase DEF FreshInv, Fresh
<1>8. CASE Stop(c)
  BY <1>8, StopBase DEF FreshInv, Released, Fresh
<1> QED BY <1>1, <1>2, <1>3, <1>4, <1>5, <1>6, <1>7, <1>8

(* A release never ships a stale manifest, whatever clones race, crash and   *)
(* retry, as long as each cut starts from a tree without local changes: the  *)
(* code checks the working tree and tags HEAD (release.go:103, :224).        *)
THEOREM ShipsFresh == ASSUME CleanTree PROVE Spec => []FreshManifests
<1> USE ReleaseConstants
<1>1. Init => BaseInv /\ FreshInv
  <2>1. Init => FreshInv
    BY DEF Init, FreshInv, Released, Fresh
  <2> QED BY <2>1, InitBase
<1>2. BaseInv /\ FreshInv /\ [Next]_vars => (BaseInv /\ FreshInv)'
  <2>1. BaseInv /\ FreshInv /\ UNCHANGED vars => FreshInv'
    BY DEF vars, FreshInv, Released, Fresh
  <2> QED BY <2>1, StepBase, FreshStep
<1>3. FreshInv => FreshManifests
  BY DEF FreshInv, FreshManifests, Fresh
<1> QED BY <1>1, <1>2, <1>3, PTL DEF Spec

-----------------------------------------------------------------------------
(* One publisher cutting from full clones: the classes of the bumps.         *)
Newest(k) == k \in Released /\ \A o \in Released : o = k \/ Less(o, k)

\* What the class of a bump must be for the change of surface it releases.
Covers(old, new, bump) ==
    \A p \in Paths : /\ old[p] = "exported" /\ new[p] = "none" => bump = "major"
                     /\ old[p] = "none" /\ new[p] # "none" => bump # "patch"

\* A cut that has a baseline compares with the newest release, which stays the
\* newest until the cut pushes ...
CutInv(c) ==
    LET latest == cut[c].latest
        target == cut[c].target
    IN  cut[c] # Idle =>
          /\ Released = {} => latest = NoVersion
          /\ Released # {} =>
                /\ Newest(latest) /\ Less(latest, target)
                /\ local[c][latest] = remote[latest]
                /\ cut[c].pc # "gate" =>
                      Covers(remote[latest].commit.surface, head[c].surface,
                             ClassifyBump(latest, target))
          /\ cut[c].pc = "push" => local[c][target].commit = head[c]

\* ... and the releases so far have what the gates promise.
SerialInv ==
    /\ Released # {} => \E k \in Released : Newest(k)
    /\ \A c \in Cutters : CutInv(c)
    /\ BumpCoversDelta
    /\ JumpsLoseNothingQuietly

LEMMA NoVersionIsNoKey == NoVersion \notin VersionKey
BY DEF NoVersion, VersionKey

\* The baseline a cut reads is the newest release, NoVersion before the first.
LEMMA LatestIsNewest ==
    ASSUME ReleaseConstants
    PROVE  /\ Released = {} => Latest(Released, "rc", {}) = NoVersion
           /\ \A k : Newest(k) => Latest(Released, "rc", {}) = k
<1> DEFINE qualifying == {k \in Released \ {} : OnChannel(k, "rc")}
<1>1. qualifying = Released
  BY DEF OnChannel
<1>2. Released \subseteq VersionKey
  BY DEF Released, ReleaseConstants
<1>3. Released = {} => Latest(Released, "rc", {}) = NoVersion
  BY <1>1 DEF Latest
<1>4. ASSUME NEW k, Newest(k) PROVE Latest(Released, "rc", {}) = k
  <2> DEFINE greatest == CHOOSE x \in Released : \A o \in Released : ~Less(x, o)
  <2>1. Latest(Released, "rc", {}) = greatest
    BY <1>1, <1>4 DEF Latest, Newest
  <2>2. \A o \in Released : ~Less(k, o)
    BY <1>2, <1>4, LessStrictOrder DEF Newest
  <2>3. greatest \in Released /\ ~Less(greatest, k)
    BY <1>4, <2>2 DEF Newest
  <2>4. greatest = k
    BY <1>4, <2>3 DEF Newest
  <2> QED BY <2>1, <2>4
<1> QED BY <1>3, <1>4

\* What the gate on the implied bump says of the two surfaces.
LEMMA GateCovers ==
    ASSUME ReleaseConstants, BaseInv, FreshInv, NEW c \in Cutters, NEW o \in BOOLEAN,
           Gates(c, o), NEW k \in Released, cut[c].latest = k, local[c][k] = remote[k]
    PROVE  Covers(remote[k].commit.surface, head[c].surface, ClassifyBump(k, cut[c].target))
<1> DEFINE bump == ClassifyBump(k, cut[c].target)
<1>1. k # NoVersion /\ Known(c, k)
  BY NoVersionIsNoKey DEF Known, Released, ReleaseConstants
<1>2. Rank(Implied(Added(c, k), Removed(c, k))) <= Rank(bump)
  BY <1>1 DEF Gates
<1>3. /\ local[c][k].commit.manifest = remote[k].commit.surface
      /\ work[c].surface = head[c].surface
  BY DEF FreshInv, Fresh, Gates, Idle
<1>4. bump \in {"patch", "minor", "major"}
  BY DEF ClassifyBump
<1>5. Rank("patch") = 0 /\ Rank("minor") = 1 /\ Rank("major") = 2
  BY DEF Rank
<1>6. Removed(c, k) # {} => bump = "major"
  BY <1>2, <1>4, <1>5 DEF Implied
<1>7. Added(c, k) # {} => bump # "patch"
  BY <1>2, <1>4, <1>5 DEF Implied
<1> QED BY <1>3, <1>6, <1>7 DEF Covers, Added, Removed

\* A jump with a major hop in it is major.
LEMMA MajorJump ==
    ASSUME NEW k \in VersionKey, NEW m \in VersionKey, NEW o \in VersionKey,
           Less(k, m), Less(m, o),
           ClassifyBump(k, m) = "major" \/ ClassifyBump(m, o) = "major"
    PROVE  ClassifyBump(k, o) = "major"
<1>1. Rank("major") <= Rank(ClassifyBump(k, o))
  BY JumpCoversHops
<1>2. ClassifyBump(k, o) \in {"patch", "minor", "major"}
  BY DEF ClassifyBump
<1> QED BY <1>1, <1>2 DEF Rank

\* Where nothing is pushed only the cut itself can break the invariant.
LEMMA SerialKept ==
    ASSUME SerialInv, UNCHANGED remote, \A c \in Cutters : CutInv(c)'
    PROVE  SerialInv'
<1>1. Released' = Released
  BY DEF Released
<1>2. (Released # {} => \E k \in Released : Newest(k))'
  BY <1>1 DEF SerialInv, Newest
<1>3. BumpCoversDelta'
  BY <1>1 DEF SerialInv, BumpCoversDelta, Follows, Holds
<1>4. JumpsLoseNothingQuietly'
  BY <1>1 DEF SerialInv, JumpsLoseNothingQuietly, Holds
<1> QED BY <1>2, <1>3, <1>4 DEF SerialInv

\* Pushing the newest release: the gate compared it with the one before it,
\* and a longer jump is of at least the class of its last hop and of the rest.
LEMMA PushSerial ==
    ASSUME ReleaseConstants, \A d, e \in Cutters : d = e, BaseInv, SerialInv,
           NEW c \in Cutters, Push(c)
    PROVE  SerialInv'
<1> PICK latest, target : latest = cut[c].latest /\ target = cut[c].target
  OBVIOUS
<1> DEFINE bump == ClassifyBump(latest, target)
<1>1. /\ target \in Targets \ Released
      /\ Released' = Released \union {target}
      /\ \A v \in Released : remote'[v] = remote[v]
      /\ cut'[c] = Idle
      /\ cut[c] # Idle /\ cut[c].pc = "push"
      /\ remote'[target] = local[c][target]
  BY PushBase DEF Released
<1>2. Released \subseteq VersionKey /\ target \in VersionKey
  BY <1>1 DEF ReleaseConstants, Released
<1>3. CutInv(c)
  BY DEF SerialInv
<1>4. remote'[target].commit = head[c]
  BY <1>1, <1>3 DEF CutInv
<1>5. Released # {} => Newest(latest) /\ Less(latest, target)
                       /\ Covers(remote[latest].commit.surface, head[c].surface, bump)
  BY <1>1, <1>3 DEF CutInv
<1>6. \A v \in Released : Less(v, target)
  BY <1>1, <1>2, <1>5, LessStrictOrder DEF Newest
<1>7. \A v \in Released' : ~Less(target, v)
  BY <1>1, <1>2, <1>6, LessStrictOrder
<1>8. \A k : \A v \in Released, p \in Paths : Holds(v, p, k)' <=> Holds(v, p, k)
  BY <1>1 DEF Holds
<1>9. \A k : \A p \in Paths : Holds(target, p, k)' <=> head[c].surface[p] = k
  BY <1>4 DEF Holds
<1>10. Newest(target)'
  BY <1>1, <1>6 DEF Newest
<1>11. \A d \in Cutters : CutInv(d)'
  <2>1. \A d \in Cutters : cut'[d] = Idle
    BY <1>1
  <2> QED BY <2>1 DEF CutInv
<1>12. BumpCoversDelta'
  <2> SUFFICES ASSUME NEW u \in Targets, NEW v \in Targets, Follows(u, v)', NEW p \in Paths
               PROVE  /\ Holds(u, p, "exported")' /\ Holds(v, p, "none")' => ClassifyBump(u, v) = "major"
                      /\ Holds(u, p, "none")' /\ ~Holds(v, p, "none")' => ClassifyBump(u, v) # "patch"
    BY DEF BumpCoversDelta
  <2>1. /\ u \in Released' /\ v \in Released' /\ Less(u, v)
        /\ \A w \in Released' : ~(Less(u, w) /\ Less(w, v))
    BY DEF Follows
  <2>2. u \in Released
    BY <1>1, <1>7, <2>1
  <2>3. CASE v \in Released
    <3>1. Follows(u, v)
      BY <1>1, <2>1, <2>2, <2>3 DEF Follows
    <3> QED BY <1>8, <2>2, <2>3, <3>1 DEF SerialInv, BumpCoversDelta
  <2>4. CASE v = target
    <3>1. u = latest
      BY <1>1, <1>5, <2>1, <2>2, <2>4 DEF Newest
    <3>2. Covers(remote[u].commit.surface, head[c].surface, ClassifyBump(u, v))
      BY <1>5, <2>2, <2>4, <3>1
    <3> QED BY <1>8, <1>9, <2>2, <2>4, <3>2 DEF Covers, Holds
  <2> QED BY <1>1, <2>1, <2>3, <2>4
<1>13. JumpsLoseNothingQuietly'
  <2> SUFFICES ASSUME NEW u \in Released', NEW v \in Released', NEW p \in Paths,
                      Less(u, v), Holds(u, p, "exported")', Holds(v, p, "none")',
                      \A w \in Released' : Less(u, w) /\ Less(w, v) => ~Holds(w, p, "seeded")'
               PROVE  ClassifyBump(u, v) = "major"
    BY DEF JumpsLoseNothingQuietly
  <2>1. u \in Released /\ Holds(u, p, "exported")
    BY <1>1, <1>7, <1>8
  <2>2. \A w \in Released : Less(u, w) /\ Less(w, v) => ~Holds(w, p, "seeded")
    BY <1>1, <1>8
  <2>3. CASE v \in Released
    BY <1>8, <2>1, <2>2, <2>3 DEF SerialInv, JumpsLoseNothingQuietly
  <2>4. CASE v = target
    <3>1. /\ Newest(latest) /\ Less(latest, target) /\ latest \in Released
          /\ Covers(remote[latest].commit.surface, head[c].surface, bump)
      BY <1>5, <2>1 DEF Newest
    <3>2. head[c].surface[p] = "none"
      BY <1>9, <2>4
    <3>3. CASE Holds(latest, p, "exported")
      <4>1. bump = "major"
        BY <3>1, <3>2, <3>3 DEF Covers, Holds
      <4>2. CASE u = latest
        BY <2>4, <4>1, <4>2
      <4>3. CASE Less(u, latest)
        BY <1>2, <2>1, <2>4, <3>1, <4>1, <4>3, MajorJump
      <4> QED BY <2>1, <3>1, <4>2, <4>3 DEF Newest
    <3>4. CASE Holds(latest, p, "none")
      <4>1. Less(u, latest)
        BY <2>1, <3>1, <3>4 DEF Newest, Holds
      <4>2. \A w \in Released : Less(u, w) /\ Less(w, latest) => ~Holds(w, p, "seeded")
        BY <1>2, <2>1, <2>2, <2>4, <3>1, LessStrictOrder
      <4>3. ClassifyBump(u, latest) = "major"
        BY <2>1, <3>1, <3>4, <4>1, <4>2 DEF SerialInv, JumpsLoseNothingQuietly
      <4> QED BY <1>2, <2>1, <2>4, <3>1, <4>1, <4>3, MajorJump
    <3>5. CASE Holds(latest, p, "seeded")
      BY <2>1, <2>2, <2>4, <3>1, <3>5 DEF Newest, Holds
    <3>6. remote[latest].commit.surface[p] \in Classes
      BY <3>1 DEF BaseInv, TypeOK, Released, Tag, Commit
    <3> QED BY <3>3, <3>4, <3>5, <3>6 DEF Classes, Holds
  <2> QED BY <1>1, <2>3, <2>4
<1> QED BY <1>1, <1>10, <1>11, <1>12, <1>13 DEF SerialInv

\* A clone that cuts every release itself holds the tags of the remote.
ShownInv == \A c \in Cutters, v \in Released : local[c][v] = remote[v]

LEMMA ShownStep ==
    ASSUME ReleaseConstants, \A d, e \in Cutters : d = e, BaseInv, ShownInv, Next
    PROVE  ShownInv'
<1>1. PICK c \in Cutters :
         \/ Works(c) \/ FetchTags(c) \/ \E v \in Targets : Baseline(c, v)
         \/ \E o \in BOOLEAN : Gates(c, o)
         \/ TagHead(c) \/ Push(c) \/ Stop(c)
  BY DEF Next, Works
<1>2. \A v \in Released : v \in Targets /\ local[c][v] = remote[v] /\ remote[v] # NoTag
  BY DEF ShownInv, Released
<1> SUFFICES \A v \in Released' : local'[c][v] = remote'[v]
  BY DEF ShownInv
<1>3. ASSUME UNCHANGED <<remote, local>> PROVE \A v \in Released' : local'[c][v] = remote'[v]
  BY <1>2, <1>3 DEF Released
<1>4. CASE Works(c)
  BY <1>3, <1>4, WorkBase
<1>5. CASE FetchTags(c)
  BY <1>2, <1>5, FetchBase DEF Released
<1>6. CASE \E v \in Targets : Baseline(c, v)
  BY <1>3, <1>6, BaselineBase
<1>7. CASE \E o \in BOOLEAN : Gates(c, o)
  BY <1>3, <1>7, GatesBase
<1>8. CASE TagHead(c)
  <2>1. cut[c].target \notin Released
    BY <1>2, <1>8 DEF TagHead
  <2>2. Released' = Released /\ UNCHANGED remote
    BY <1>8, TagBase DEF Released
  <2>3. \A v \in Targets \ {cut[c].target} : local'[c][v] = local[c][v]
    BY <1>8, TagBase
  <2> QED BY <1>2, <2>1, <2>2, <2>3
<1>9. CASE Push(c)
  <2>1. /\ UNCHANGED local
        /\ cut[c].target \in Targets \ Released
        /\ remote'[cut[c].target] = local[c][cut[c].target]
        /\ \A v \in Targets \ {cut[c].target} : remote'[v] = remote[v]
        /\ Released' = Released \union {cut[c].target}
    BY <1>9, PushBase
  <2> QED BY <1>2, <2>1
<1>10. CASE Stop(c)
  BY <1>3, <1>10, StopBase
<1> QED BY <1>1, <1>4, <1>5, <1>6, <1>7, <1>8, <1>9, <1>10

LEMMA SerialStep ==
    ASSUME ReleaseConstants, CleanTree, \A d, e \in Cutters : d = e,
           BaseInv, FreshInv, ShownInv, SerialInv, Next
    PROVE  SerialInv'
<1>1. PICK c \in Cutters :
         \/ Works(c) \/ FetchTags(c) \/ \E v \in Targets : Baseline(c, v)
         \/ \E o \in BOOLEAN : Gates(c, o)
         \/ TagHead(c) \/ Push(c) \/ Stop(c)
  BY DEF Next, Works
<1>2. \A d \in Cutters : d = c
  OBVIOUS
<1>3. CutInv(c)
  BY DEF SerialInv
<1>4. ASSUME UNCHANGED remote, cut'[c] = Idle
      PROVE  SerialInv'
  <2>1. \A d \in Cutters : CutInv(d)'
    BY <1>2, <1>4 DEF CutInv
  <2> QED BY <1>4, <2>1, SerialKept
<1>5. CASE Works(c) \/ FetchTags(c)
  BY <1>4, <1>5, WorkBase, FetchBase
<1>6. CASE \E v \in Targets : Baseline(c, v)
  <2>1. PICK v \in Targets : Baseline(c, v)
    BY <1>6
  <2>2. /\ UNCHANGED <<remote, local, head>>
        /\ cut'[c].pc = "gate" /\ cut'[c].target = v
        /\ cut'[c].latest = Latest(Released, "rc", {})
    <3>1. /\ UNCHANGED <<remote, local, head>>
          /\ cut'[c] = [pc |-> "gate", latest |-> Latest(Released, "rc", {}), target |-> v,
                        override |-> FALSE]
      BY <2>1, BaselineBase
    <3> QED BY <3>1
  <2>3. PICK latest : latest = Latest(Released, "rc", {})
    OBVIOUS
  <2>4. /\ Released = {} => latest = NoVersion
        /\ Released # {} => Newest(latest)
    BY <2>3, LatestIsNewest DEF SerialInv
  <2>5. Released # {} => Less(latest, v) /\ local[c][latest] = remote[latest]
    <3>1. Released # {} => latest \in Released /\ latest # NoVersion
      BY <2>4, NoVersionIsNoKey DEF Newest, Released, ReleaseConstants
    <3> QED BY <2>1, <2>3, <3>1 DEF Baseline, ShownInv
  <2>6. Released' = Released /\ (Newest(latest)' <=> Newest(latest))
    BY <2>2 DEF Newest, Released
  <2>7. CutInv(c)'
    BY <2>2, <2>3, <2>4, <2>5, <2>6 DEF CutInv
  <2> QED BY <1>2, <2>2, <2>7, SerialKept
<1>7. CASE \E o \in BOOLEAN : Gates(c, o)
  <2>1. PICK o \in BOOLEAN : Gates(c, o)
    BY <1>7
  <2>2. /\ UNCHANGED <<remote, local, head>>
        /\ cut[c].pc = "gate" /\ cut'[c].pc = "tag"
        /\ cut'[c].latest = cut[c].latest /\ cut'[c].target = cut[c].target
    BY <2>1, GatesBase
  <2>3. cut[c] # Idle
    BY <2>2 DEF Idle
  <2>4. PICK latest, target : latest = cut[c].latest /\ target = cut[c].target
    OBVIOUS
  <2>5. Released # {} => Covers(remote[latest].commit.surface, head[c].surface,
                                ClassifyBump(latest, target))
    BY <1>3, <2>1, <2>3, <2>4, GateCovers DEF CutInv, Newest
  <2>6. Released' = Released /\ (Newest(latest)' <=> Newest(latest))
    BY <2>2 DEF Newest, Released
  <2>7. CutInv(c)'
    BY <1>3, <2>2, <2>3, <2>4, <2>5, <2>6 DEF CutInv
  <2> QED BY <1>2, <2>2, <2>7, SerialKept
<1>8. CASE TagHead(c)
  <2>1. PICK latest, target : latest = cut[c].latest /\ target = cut[c].target
    OBVIOUS
  <2>2. /\ UNCHANGED <<remote, head>>
        /\ cut[c].pc = "tag" /\ cut'[c].pc = "push"
        /\ cut'[c].latest = latest /\ cut'[c].target = target
        /\ local'[c][target] = [commit |-> head[c], override |-> cut[c].override]
        /\ \A v \in Targets \ {target} : local'[c][v] = local[c][v]
    BY <1>8, <2>1, TagBase
  <2>3. cut[c] # Idle
    BY <2>2 DEF Idle
  <2>4. Released # {} => latest \in Targets /\ latest # target
    BY <1>3, <2>1, <2>3, LessStrictOrder DEF CutInv, Newest, Released, ReleaseConstants
  <2>5. Released' = Released /\ (Newest(latest)' <=> Newest(latest))
    BY <2>2 DEF Newest, Released
  <2>6. local'[c][target].commit = head[c]
    BY <2>2
  <2>7. CutInv(c)'
    BY <1>3, <2>1, <2>2, <2>3, <2>4, <2>5, <2>6 DEF CutInv
  <2> QED BY <1>2, <2>2, <2>7, SerialKept
<1>9. CASE Push(c)
  BY <1>9, PushSerial
<1>10. CASE Stop(c)
  BY <1>4, <1>10, StopBase
<1> QED BY <1>1, <1>5, <1>6, <1>7, <1>8, <1>9, <1>10

\* A release that is pushed is newer than every release there is.
LEMMA PushNewest ==
    ASSUME ReleaseConstants, \A d, e \in Cutters : d = e, BaseInv, SerialInv, Next
    PROVE  \A v \in Released' \ Released : \A u \in Released : Less(u, v)
<1>1. PICK c \in Cutters :
         \/ Works(c) \/ FetchTags(c) \/ \E v \in Targets : Baseline(c, v)
         \/ \E o \in BOOLEAN : Gates(c, o)
         \/ TagHead(c) \/ Push(c) \/ Stop(c)
  BY DEF Next, Works
<1>2. CASE Push(c)
  <2>1. PICK latest, target : latest = cut[c].latest /\ target = cut[c].target
    OBVIOUS
  <2>2. /\ target \in Targets \ Released /\ Released' = Released \union {target}
        /\ cut[c] # Idle
    BY <1>2, <2>1, PushBase
  <2>3. Released # {} => Newest(latest) /\ Less(latest, target)
    BY <2>1, <2>2 DEF SerialInv, CutInv
  <2>4. Released \subseteq VersionKey /\ target \in VersionKey
    BY <2>2 DEF Released, ReleaseConstants
  <2> QED BY <2>2, <2>3, <2>4, LessStrictOrder DEF Newest
<1>3. CASE ~Push(c)
  <2>1. UNCHANGED remote
    BY <1>1, <1>3 DEF Works, Edit, Generate, CommitWork, FetchTags, Baseline, Gates, TagHead, Stop
  <2> QED BY <2>1 DEF Released
<1> QED BY <1>2, <1>3

\* With one clone cutting, the strengthened invariant holds throughout.
LEMMA SerialHolds ==
    ASSUME CleanTree, \A c, d \in Cutters : c = d
    PROVE  Spec => [](BaseInv /\ FreshInv /\ ShownInv /\ SerialInv)
<1> USE ReleaseConstants
<1>1. Init => BaseInv /\ FreshInv /\ ShownInv /\ SerialInv
  <2>1. Init => FreshInv
    BY DEF Init, FreshInv, Released, Fresh
  <2>2. Init => Released = {} /\ \A c \in Cutters : cut[c] = Idle
    BY DEF Init, Released
  <2>3. Init => SerialInv
    BY <2>2 DEF SerialInv, CutInv, BumpCoversDelta, Follows, JumpsLoseNothingQuietly
  <2>4. Init => ShownInv
    BY <2>2 DEF ShownInv
  <2> QED BY <2>1, <2>3, <2>4, InitBase
<1>2. BaseInv /\ FreshInv /\ ShownInv /\ SerialInv /\ [Next]_vars => (BaseInv /\ FreshInv /\ ShownInv /\ SerialInv)'
  <2>1. BaseInv /\ FreshInv /\ UNCHANGED vars => FreshInv'
    BY DEF vars, FreshInv, Released, Fresh
  <2>2. ASSUME SerialInv, UNCHANGED vars PROVE SerialInv'
    <3>1. \A c \in Cutters : CutInv(c)'
      BY <2>2 DEF vars, SerialInv, CutInv, Newest, Released
    <3> QED BY <2>2, <3>1, SerialKept DEF vars
  <2>3. ShownInv /\ UNCHANGED vars => ShownInv'
    BY DEF vars, ShownInv, Released
  <2> QED BY <2>1, <2>2, <2>3, StepBase, FreshStep, ShownStep, SerialStep
<1> QED BY <1>1, <1>2, PTL DEF Spec

(* With one clone cutting and a clean tree at each cut, the class of every   *)
(* release covers its delta against the one before: removals are major,      *)
(* additions at least minor (release.go:163).                                *)
THEOREM BumpsCoverDeltas ==
    ASSUME CleanTree, \A c, d \in Cutters : c = d
    PROVE  Spec => []BumpCoversDelta
<1>1. SerialInv => BumpCoversDelta
  BY DEF SerialInv
<1> QED BY <1>1, SerialHolds, PTL

(* Under the same conditions no jump over any number of releases takes a     *)
(* path from a consumer unless it is major, as long as the path was vendored *)
(* until it went: the class of the jump covers that of every hop in it.      *)
THEOREM JumpsTellRemovals ==
    ASSUME CleanTree, \A c, d \in Cutters : c = d
    PROVE  Spec => []JumpsLoseNothingQuietly
<1>1. SerialInv => JumpsLoseNothingQuietly
  BY DEF SerialInv
<1> QED BY <1>1, SerialHolds, PTL

(* And the newest release, which retractions are read from, is the last one  *)
(* cut.                                                                      *)
THEOREM NewestLast ==
    ASSUME CleanTree, \A c, d \in Cutters : c = d
    PROVE  Spec => NewestIsLast
<1> USE ReleaseConstants
<1>1. BaseInv /\ SerialInv /\ [Next]_vars
        => [\A v \in Released' \ Released : \A u \in Released : Less(u, v)]_vars
  BY PushNewest
<1> QED BY <1>1, SerialHolds, PTL DEF Spec, NewestIsLast

=============================================================================
