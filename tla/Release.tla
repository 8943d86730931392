------------------------------ MODULE Release ------------------------------
(***************************************************************************)
(* Cutting releases.  Every cutter works in a clone of its own: a HEAD     *)
(* commit, a working tree that may be ahead of it, and local tags.  A cut  *)
(* reads the working tree, the local tags and the remote tag listing at    *)
(* different moments, tags HEAD locally and then pushes the tag; it may    *)
(* stop at any of them, and cuts of several clones interleave.             *)
(*                                                                         *)
(* A commit holds the class of every export path, the classes its          *)
(* committed manifest records, and the versions its migrations/ directory  *)
(* has an entry for.                                                       *)
(***************************************************************************)
EXTENDS Versions

CONSTANTS
    Cutters,        \* clones a release may be cut from
    Paths,          \* export paths
    Targets,        \* bound: the versions a cut may ask for
    Migrated,       \* bound: the versions a migration entry may be written for
    MaxEdits,       \* bound: edits the publishers make
    CleanTree,      \* TRUE: a cut starts from a tree without local changes
    NoTag

Classes == {"none", "exported", "seeded"}
Commit  == [surface : [Paths -> Classes], manifest : [Paths -> Classes], migrations : SUBSET Migrated]
Tag     == [commit : Commit, override : BOOLEAN]
Cut     == [pc : {"idle", "gate", "tag", "push"}, latest : Targets \union {NoVersion},
            target : Targets \union {NoVersion}, override : BOOLEAN]

ASSUME ReleaseConstants ==
    /\ Targets \subseteq VersionKey
    /\ Migrated \subseteq Targets
    /\ MaxEdits \in Nat
    /\ CleanTree \in BOOLEAN
    /\ NoTag \notin Tag

VARIABLES
    remote,   \* the publisher repository's tags
    local,    \* each clone's own tags
    head,     \* each clone's HEAD commit
    work,     \* each clone's working tree
    cut,      \* each clone's cut in progress
    edits     \* edits made so far (bounded by MaxEdits)

vars == <<remote, local, head, work, cut, edits>>

Released == {v \in Targets : remote[v] # NoTag}

Idle == [pc |-> "idle", latest |-> NoVersion, target |-> NoVersion, override |-> FALSE]

Empty == [surface    |-> [p \in Paths |-> "none"],
          manifest   |-> [p \in Paths |-> "none"],
          migrations |-> {}]

Init ==
    /\ remote = [v \in Targets |-> NoTag]
    /\ local = [c \in Cutters |-> remote]
    /\ head = [c \in Cutters |-> Empty]
    /\ work = head
    /\ cut = [c \in Cutters |-> Idle]
    /\ edits = 0

-----------------------------------------------------------------------------
\* The publisher reclassifies, adds or removes an export path in its working
\* tree, or adds a migration entry ...
Edit(c) ==
    /\ cut[c] = Idle
    /\ edits < MaxEdits
    /\ edits' = edits + 1
    /\ \/ \E p \in Paths, k \in Classes : work' = [work EXCEPT ![c].surface[p] = k]
       \/ \E v \in Migrated : work' = [work EXCEPT ![c].migrations = @ \union {v}]
    /\ UNCHANGED <<remote, local, head, cut>>

\* ... runs `generate` ...
Generate(c) ==
    /\ cut[c] = Idle
    /\ work' = [work EXCEPT ![c].manifest = work[c].surface]
    /\ UNCHANGED <<remote, local, head, cut, edits>>

\* ... and commits.
CommitWork(c) ==
    /\ cut[c] = Idle
    /\ head' = [head EXCEPT ![c] = work[c]]
    /\ UNCHANGED <<remote, local, work, cut, edits>>

\* `git fetch --tags`: a tag the clone already has is not replaced.
FetchTags(c) ==
    /\ cut[c] = Idle
    /\ local' = [local EXCEPT ![c] = [v \in Targets |->
                    IF local[c][v] = NoTag THEN remote[v] ELSE local[c][v]]]
    /\ UNCHANGED <<remote, head, work, cut, edits>>

-----------------------------------------------------------------------------
\* Added and removed paths against the previous release's manifest, as the
\* local clone holds it; a seed that goes is no removal, and a previous tag
\* the clone cannot show counts as no previous surface at all.
Known(c, previous) == local[c][previous] # NoTag

Added(c, previous) ==
    {p \in Paths : /\ work[c].surface[p] # "none"
                   /\ local[c][previous].commit.manifest[p] = "none"}

Removed(c, previous) ==
    {p \in Paths : /\ work[c].surface[p] = "none"
                   /\ local[c][previous].commit.manifest[p] = "exported"}

\* Mutant: a removal weighed like an addition.
ImpliedMinor(added, removed) == IF added \union removed # {} THEN "minor" ELSE "patch"

Implied(added, removed) == IF removed # {} THEN "major" ELSE IF added # {} THEN "minor" ELSE "patch"

\* Mutant: a cut that skips the freshness check.
BaselineStale(c, target) ==
    /\ cut[c] = Idle
    /\ CleanTree => work[c] = head[c]
    /\ LET latest == Latest(Released, "rc", {})
       IN  /\ latest # NoVersion => Less(latest, target)
           /\ cut' = [cut EXCEPT ![c] = [pc |-> "gate", latest |-> latest, target |-> target,
                                         override |-> FALSE]]
    /\ UNCHANGED <<remote, local, head, work, edits>>

\* 1, 2. Freshness of the working tree's manifest; baseline from the remote.
Baseline(c, target) ==
    /\ cut[c] = Idle
    /\ CleanTree => work[c] = head[c]
    /\ work[c].manifest = work[c].surface
    /\ LET latest == Latest(Released, "rc", {})
       IN  /\ latest # NoVersion => Less(latest, target)
           /\ cut' = [cut EXCEPT ![c] = [pc |-> "gate", latest |-> latest, target |-> target,
                                         override |-> FALSE]]
    /\ UNCHANGED <<remote, local, head, work, edits>>

\* 2, 3, 4. The tag must exist neither locally nor in a second listing of the
\* remote; the bump must cover the delta; removals need a migration entry or
\* the recorded override.
Gates(c, override) ==
    LET latest == cut[c].latest
        target == cut[c].target
    IN  /\ cut[c].pc = "gate"
        /\ local[c][target] = NoTag
        /\ remote[target] = NoTag
        /\ latest # NoVersion /\ Known(c, latest) =>
              /\ Rank(Implied(Added(c, latest), Removed(c, latest)))
                    <= Rank(ClassifyBump(latest, target))
              /\ Removed(c, latest) # {} => override \/ target \in work[c].migrations
        /\ cut' = [cut EXCEPT ![c].pc = "tag", ![c].override = override]
        /\ UNCHANGED <<remote, local, head, work, edits>>

\* 5. `git tag -a` on HEAD ...
TagHead(c) ==
    /\ cut[c].pc = "tag"
    /\ local[c][cut[c].target] = NoTag
    /\ local' = [local EXCEPT ![c][cut[c].target] =
                    [commit |-> head[c], override |-> cut[c].override]]
    /\ cut' = [cut EXCEPT ![c].pc = "push"]
    /\ UNCHANGED <<remote, head, work, edits>>

\* Mutant: `git push --force`.
PushForced(c) ==
    /\ cut[c].pc = "push"
    /\ remote' = [remote EXCEPT ![cut[c].target] = local[c][cut[c].target]]
    /\ cut' = [cut EXCEPT ![c] = Idle]
    /\ UNCHANGED <<local, head, work, edits>>

\* ... and `git push`, which the remote rejects when it has the ref.
Push(c) ==
    LET target == cut[c].target
    IN  /\ cut[c].pc = "push"
        /\ remote[target] = NoTag
        /\ remote' = [remote EXCEPT ![target] = local[c][target]]
        /\ cut' = [cut EXCEPT ![c] = Idle]
        /\ UNCHANGED <<local, head, work, edits>>

\* Mutant: a refused cut that keeps its state.
StopHalfway(c) ==
    /\ cut[c] # Idle
    /\ cut' = [cut EXCEPT ![c].pc = "refused"]
    /\ UNCHANGED <<remote, local, head, work, edits>>

\* A refusal, an error or a crash ends the cut where it stands: what it wrote
\* locally stays.
Stop(c) ==
    /\ cut[c] # Idle
    /\ cut' = [cut EXCEPT ![c] = Idle]
    /\ UNCHANGED <<remote, local, head, work, edits>>

Next == \E c \in Cutters :
    \/ Edit(c)
    \/ Generate(c)
    \/ CommitWork(c)
    \/ FetchTags(c)
    \/ \E v \in Targets : Baseline(c, v)
    \/ \E o \in BOOLEAN : Gates(c, o)
    \/ TagHead(c)
    \/ Push(c)
    \/ Stop(c)

Spec == Init /\ [][Next]_vars

-----------------------------------------------------------------------------
\* Types: a refused or dead cut leaves no half-state, and every pushed tag names a commit.
TypeOK ==
    /\ remote \in [Targets -> Tag \union {NoTag}]
    /\ local \in [Cutters -> [Targets -> Tag \union {NoTag}]]
    /\ head \in [Cutters -> Commit]
    /\ work \in [Cutters -> Commit]
    /\ cut \in [Cutters -> Cut]
    /\ edits \in 0..MaxEdits

Holds(v, p, k) == remote[v].commit.surface[p] = k

\* v is the release right after u.
Follows(u, v) == /\ u \in Released /\ v \in Released /\ Less(u, v)
                 /\ ~\E w \in Released : Less(u, w) /\ Less(w, v)

\* Tag immutability (INV-5): whatever clones race, crash and retry, a released
\* version keeps the commit it was first pushed with.
TagsNeverMove == [][\A v \in Released : remote'[v] = remote[v]]_vars

\* "A release never ships a stale manifest": the manifest committed at a tag,
\* which the next cut diffs and the consumers' hashes come from, is that of the
\* tree at the tag.
FreshManifests ==
    \A v \in Released : remote[v].commit.manifest = remote[v].commit.surface

\* The bump class of every release covers its surface delta against the
\* release before it: removals are major, additions at least minor.
BumpCoversDelta ==
    \A u, v \in Targets : Follows(u, v) =>
        \A p \in Paths :
            /\ Holds(u, p, "exported") /\ Holds(v, p, "none") => ClassifyBump(u, v) = "major"
            /\ Holds(u, p, "none") /\ ~Holds(v, p, "none") => ClassifyBump(u, v) # "patch"

\* A consumer jumping over any number of releases loses a vendored path only
\* across a major bump, as long as the path was vendored until it went.
JumpsLoseNothingQuietly ==
    \A u, v \in Released : \A p \in Paths :
        /\ Less(u, v) /\ Holds(u, p, "exported") /\ Holds(v, p, "none")
        /\ \A w \in Released : Less(u, w) /\ Less(w, v) => ~Holds(w, p, "seeded")
        => ClassifyBump(u, v) = "major"

\* A pushed release is newer than every release the remote has: the newest
\* release, where retractions are read, is the last one cut.
NewestIsLast ==
    [][\A v \in Released' \ Released : \A u \in Released : Less(u, v)]_vars

=============================================================================
