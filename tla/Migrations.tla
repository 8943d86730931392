------------------------------ MODULE Migrations ------------------------------
(***************************************************************************)
(* What a release asks of files the consumer owns.  A publisher ships      *)
(* entries beside each release; a sync resolves those of the window        *)
(* between the pin and the target, people work on its PR, the verifier     *)
(* checks what the entries oblige to, and the merge moves the pin.         *)
(*                                                                         *)
(* A glob is the set of files it matches, the path of a check the set of   *)
(* files at or below it.                                                   *)
(***************************************************************************)
EXTENDS Versions, FiniteSets, Functions

CONSTANTS
    Files,      \* files of the consumer's repository
    Profiles,   \* profile names
    Unbound,    \* a consumer without a profile
    Every,      \* the profile list "*"
    Releases,   \* the publisher's releases
    Shipped,    \* release -> the entries under its migrations/
    Onboarded,  \* the release the consumer was onboarded at
    NotText,    \* a list element that YAML reads as a number, a boolean or a map
    Litter,     \* untracked files a build may leave in a checkout
    MaxOpen,    \* bound: sync PRs open together
    MaxCommits  \* bound: commits by hand, to main and to the PRs

Entries == UNION {Shipped[v] : v \in Releases}

ASSUME MigrationConstants ==
    /\ Releases \subseteq VersionKey
    /\ Onboarded \in Releases
    /\ Litter \subseteq Files
    /\ {MaxOpen, MaxCommits} \subseteq Nat
    /\ DOMAIN Shipped = Releases
    /\ \A e \in Entries : e.from \in VersionKey

VARIABLES
    pin,        \* the release main is pinned to
    main,       \* the files tracked on main
    profile,    \* the profile of the slice config
    prs,        \* open sync PRs by <<pinned, target>>
    commits,    \* commits made by hand (bounded)
    met         \* history: entries that held on the head of a merged PR

vars == <<pin, main, profile, prs, commits, met>>

-----------------------------------------------------------------------------
(* Resolve.                                                                  *)
MigrationKinds == {"mechanical", "additive", "removal", "structural", "convention"}
JudgmentKinds  == {"structural", "convention"}
CheckKinds     == {"file-absent", "file-present", "tool"}

WellFormed(e) ==
    /\ e.kind \in MigrationKinds
    /\ e.absent # {} \/ e.present # {} \/ e.checks # {}
    /\ \A c \in e.checks : c.kind \in CheckKinds

\* One malformed entry fails the load of all of them.
Loads(v) == \A e \in Shipped[v] : WellFormed(e)

ForProfile(e) == e.profiles = {} \/ Every \in e.profiles \/ profile \in e.profiles

\* Mutant: only entries of the target release itself are looked at.
ApplicableAtTarget(pinned, target) ==
    {e \in Shipped[target] : e.kind \in JudgmentKinds /\ e.from = target /\ ForProfile(e)}

Applicable(pinned, target) ==
    {e \in Shipped[target] :
        e.kind \in JudgmentKinds /\ InWindow(pinned, e.from, target) /\ ForProfile(e)}

Aggregated(entries) == [absent  |-> UNION {e.absent : e \in entries},
                        present |-> UNION {e.present : e \in entries},
                        checks  |-> UNION {e.checks : e \in entries}]

-----------------------------------------------------------------------------
(* Verify.                                                                   *)
\* A list with one element that is not a string reads as no list at all.
Strings(list) == IF NotText \in list THEN {} ELSE list

Exists(path, disk) == path \intersect disk # {}

\* A tool passes or not by what it reads.
CheckFails(c, disk) ==
    CASE c.kind = "file-absent"  -> Exists(c.path, disk)
      [] c.kind = "file-present" -> ~Exists(c.path, disk)
      [] c.kind = "tool"         -> ~(Exists(c.path, disk) /\ c.needs \subseteq disk)
      [] OTHER -> TRUE

\* Mutant: must_be_present asks that the listed globs match together.
VerifiesAnyPresent(obligations, tracked, disk) ==
    /\ \A g \in Strings(obligations.absent) : g \intersect tracked = {}
    /\ obligations.present = {} \/ (UNION Strings(obligations.present)) \intersect tracked # {}
    /\ \A c \in obligations.checks : ~CheckFails(c, disk)

\* Globs are matched against tracked files, checks look at the disk.
Verifies(obligations, tracked, disk) ==
    /\ \A g \in Strings(obligations.absent) : g \intersect tracked = {}
    /\ \A g \in Strings(obligations.present) : g \intersect tracked # {}
    /\ \A c \in obligations.checks : ~CheckFails(c, disk)

-----------------------------------------------------------------------------
\* What one entry says of a checkout, read on its own.
Holds(e, tracked, disk) ==
    /\ \A g \in e.absent \ {NotText} : \A f \in g : f \notin tracked
    /\ \A g \in e.present \ {NotText} : \E f \in g : f \in tracked
    /\ \A c \in e.checks : ~CheckFails(c, disk)

Init ==
    /\ pin = Onboarded
    /\ main \in SUBSET Files
    /\ profile \in Profiles \union {Unbound}
    /\ prs = << >>
    /\ commits = 0
    /\ met = {}

\* The branch of an upgrade is recreated from main: work on its PR starts over.
Opened(u) ==
    [w \in DOMAIN prs \union {u} |->
        IF w = u THEN [base |-> main, head |-> main, green |-> FALSE, litter |-> {}]
        ELSE prs[w]]

\* Mutant: whatever is not the pin is proposed, older releases too.
ProposeOther(v) ==
    /\ IsOther(pin, v, {})
    /\ Loads(v)
    /\ Cardinality(DOMAIN prs \union {<<pin, v>>}) <= MaxOpen
    /\ prs' = Opened(<<pin, v>>)
    /\ UNCHANGED <<pin, main, profile, commits, met>>

\* A sync run to a newer release that opens, or reopens, its PR.
Propose(v) ==
    /\ IsNewer(pin, v, {})
    /\ Loads(v)
    /\ Cardinality(DOMAIN prs \union {<<pin, v>>}) <= MaxOpen
    /\ prs' = Opened(<<pin, v>>)
    /\ UNCHANGED <<pin, main, profile, commits, met>>

\* Someone adds or removes a file, on the PR or on main.
Work(u) ==
    /\ commits < MaxCommits
    /\ \E head \in (SUBSET Files) \ {prs[u].head} :
          prs' = [prs EXCEPT ![u] = [@ EXCEPT !.head = head, !.green = FALSE, !.litter = {}]]
    /\ commits' = commits + 1
    /\ UNCHANGED <<pin, main, profile, met>>

Commit ==
    /\ commits < MaxCommits
    /\ main' \in (SUBSET Files) \ {main}
    /\ commits' = commits + 1
    /\ UNCHANGED <<pin, profile, prs, met>>

\* The PR's check: migrations of the window, then migrations-verify.
Verify(u) ==
    /\ \E litter \in SUBSET Litter :
          LET head == prs[u].head
              green == Verifies(Aggregated(Applicable(u[1], u[2])), head, head \union litter)
          IN  prs' = [prs EXCEPT ![u] = [@ EXCEPT !.litter = litter, !.green = green]]
    /\ UNCHANGED <<pin, main, profile, commits, met>>

\* A green PR merges; the provenance lines of a PR from another pin conflict.
Merge(u) ==
    /\ prs[u].green
    /\ u[1] = pin
    /\ LET pr == prs[u]
       IN  /\ main' = (main \ (pr.base \ pr.head)) \union (pr.head \ pr.base)
           /\ met' = met \union {e \in Entries : Holds(e, pr.head, pr.head \union pr.litter)}
    /\ pin' = u[2]
    /\ prs' = Restrict(prs, DOMAIN prs \ {u})
    /\ UNCHANGED <<profile, commits>>

Next ==
    \/ \E v \in Releases : Propose(v)
    \/ \E u \in DOMAIN prs : Work(u) \/ Verify(u) \/ Merge(u)
    \/ Commit

Spec == Init /\ [][Next]_vars

-----------------------------------------------------------------------------
PullRequest == [base : SUBSET Files, head : SUBSET Files, green : BOOLEAN,
                litter : SUBSET Litter]

Upgrades == {u \in Releases \X Releases : Less(u[1], u[2])}

(* Types; every open PR is an upgrade, and the pin never precedes the        *)
(* release the consumer was onboarded at (cmds.go cmdSync, version.go).      *)
TypeOK ==
    /\ pin \in Releases /\ (pin = Onboarded \/ Less(Onboarded, pin))
    /\ main \in SUBSET Files
    /\ profile \in Profiles \union {Unbound}
    /\ DOMAIN prs \subseteq Upgrades
    /\ \A u \in DOMAIN prs : prs[u] \in PullRequest
    /\ commits \in 0..MaxCommits
    /\ met \subseteq Entries

\* Entries the consumer owed on its way from onboarding to the pin.
Owed == {e \in Entries :
            e.kind \in JudgmentKinds /\ InWindow(Onboarded, e.from, pin) /\ ForProfile(e)}

(* Whatever hops and jumps led to the pin, through PRs that were redone,     *)
(* overtaken or worked on while main moved, each judgment-bearing entry of   *)
(* the way held on the head of a PR that was merged: none is skipped at a    *)
(* window's edge and none is lost in the aggregate (migrations.go:73, :141). *)
NothingOwedIsForgotten == Owed \subseteq met

-----------------------------------------------------------------------------
(* What the publisher has to keep to: an entry ships with the release it     *)
(* applies from and with every later one, and its lists are lists of         *)
(* strings.  The engine checks neither.                                      *)
Kept == \A v \in Releases, e \in Entries :
            Less(e.from, v) \/ e.from = v => e \in Shipped[v]

Textual == \A e \in Entries : NotText \notin e.absent /\ NotText \notin e.present

=============================================================================
