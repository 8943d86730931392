----------------------------- MODULE AtomicSync -----------------------------
(***************************************************************************)
(* What `vendkit sync --apply` promises a repository: it brings files and  *)
(* manifest to a release in one step, or dies and has touched, of the      *)
(* files, some of those it was to write; or dies with all of them written  *)
(* and a manifest that has to be restored before the slice is applied to   *)
(* again.  What it writes is told place by place, with no agenda, order,   *)
(* report or outcome.                                                      *)
(***************************************************************************)
CONSTANTS Slices, Releases, Paths, CPaths, Files, Torn, Digest, Surface, InScope,
          NoFile, Untracked, NoRelease

VARIABLES tree, manifest, unreadable

vars == <<tree, manifest, unreadable>>

Jobs == [slice : Slices, target : Releases, reconcile : BOOLEAN]

Tracked(s) == {p \in Paths : manifest[s].entries[p] # Untracked}

\* What the slice holds once j is done: what it tracked and, on request, what
\* is new in its scope, as far as the release has it.
Held(j) ==
    LET wanted == Tracked(j.slice) \union (IF j.reconcile THEN InScope[j.slice] ELSE {})
    IN  {p \in Paths \intersect wanted : Surface[j.slice][j.target][p].class # "none"}

\* The paths of a class that j has at place c: one at most.
Bound(j, c, class) ==
    {p \in Held(j) : /\ Surface[j.slice][j.target][p].class = class
                     /\ Surface[j.slice][j.target][p].cpath = c}

FileOf(j, paths) == Surface[j.slice][j.target][CHOOSE p \in paths : TRUE].file

\* What j makes of a place, from nothing but what is there: vendored files are
\* the release's, a new template goes where there is nothing.
Given(there, j, c) ==
    LET vendored == Bound(j, c, "exported")
        template == Bound(j, c, "seeded") \ Tracked(j.slice)
    IN  IF vendored # {} THEN FileOf(j, vendored)
        ELSE IF there = NoFile /\ template # {} THEN FileOf(j, template)
        ELSE there

Result(files, j) == [c \in CPaths |-> Given(files[c], j, c)]

Recorded(j) ==
    [source  |-> j.target,
     entries |-> [p \in Paths |->
        IF p \notin Held(j) THEN Untracked
        ELSE LET item == Surface[j.slice][j.target][p]
             IN  [cpath |-> item.cpath, sha |-> Digest[item.file], seed |-> item.class = "seeded"]]]

Init ==
    /\ tree = [c \in CPaths |-> NoFile]
    /\ manifest = [s \in Slices |-> [source |-> NoRelease, entries |-> [p \in Paths |-> Untracked]]]
    /\ unreadable = {}

Apply(j) ==
    /\ j.slice \notin unreadable
    /\ manifest' = [manifest EXCEPT ![j.slice] = Recorded(j)]
    /\ tree' = Result(tree, j)
    /\ UNCHANGED unreadable

\* Some files are done and, if it died in a write, one is torn.
Interrupted(j) ==
    /\ j.slice \notin unreadable
    /\ UNCHANGED <<manifest, unreadable>>
    /\ LET result == Result(tree, j)
           due    == {c \in CPaths : result[c] # tree[c]}
       IN  \E done \in SUBSET due :
              LET partly == [c \in CPaths |-> IF c \in done THEN result[c] ELSE tree[c]]
              IN  \/ tree' = partly
                  \/ \E c \in due \ done : tree' = [partly EXCEPT ![c] = Torn]

\* It died in the manifest: the files are done, what they are recorded by is not.
LeftUnreadable(j) ==
    /\ j.slice \notin unreadable
    /\ unreadable' = unreadable \union {j.slice}
    /\ tree' = Result(tree, j)
    /\ UNCHANGED manifest

Restored(s) == unreadable' = unreadable \ {s} /\ UNCHANGED <<tree, manifest>>

Edit(c, f) == UNCHANGED <<manifest, unreadable>> /\ tree' = [tree EXCEPT ![c] = f]

Drop(s, p) ==
    /\ s \notin unreadable
    /\ manifest' = [manifest EXCEPT ![s].entries[p] = Untracked]
    /\ UNCHANGED <<tree, unreadable>>

Next ==
    \/ \E j \in Jobs : Apply(j) \/ Interrupted(j) \/ LeftUnreadable(j)
    \/ \E s \in Slices : Restored(s)
    \/ \E c \in CPaths, f \in Files \union {NoFile} : Edit(c, f)
    \/ \E s \in Slices, p \in Paths : Drop(s, p)

Spec == Init /\ [][Next]_vars

=============================================================================
