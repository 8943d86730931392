----------------------------- MODULE Conformance -----------------------------
(***************************************************************************)
(* The conformance audit and the fleet view over it.                       *)
(*                                                                         *)
(* A scheduled job visits one consumer after the other.  An audit reads    *)
(* the consumer's tree once and gives every rule a status; with            *)
(* --verify-attestations it then asks the platform, one request for each   *)
(* attested fact, while administrators go on changing what the platform    *)
(* enforces and any request may be refused.  The documents of the audits,  *)
(* each of its own time, are folded into one report, worst first.          *)
(***************************************************************************)
EXTENDS Integers, Sequences, FiniteSets, FiniteSetsExt, Functions

CONSTANTS
    Slices,         \* the consumers, in the order of their slice names
    CoreRules,      \* the rules shipped with the engine
    PublisherRules, \* the rule sets a publisher checkout may hold, <<>> for none
    Trees,          \* slice -> the trees its consumer may commit
    Platforms,      \* slice -> the controls its platform may be given
    Project,        \* slice -> its repository, as its platform names it
    Main,           \* everybody's default branch
    BaseBranches,   \* the values --base-branch is given, NoBranch for none
    Unprotected, NoBranch, NoManifest, NoJob, Unasked,
    MaxChanges      \* bound: commits and changes of a platform

Consumers == DOMAIN Slices
Statuses  == {"pass", "waived", "skipped", "attested", "fail", "error"}

\* Rule sets and the pipelines of a tree are sequences.
ASSUME ConformanceConstants ==
    /\ Len(Slices) \in Nat \ {0} /\ DOMAIN Slices = 1..Len(Slices)
    /\ <<>> \in PublisherRules
    /\ LET sets == PublisherRules \union {CoreRules}
       IN  sets \subseteq Seq(UNION {Range(rules) : rules \in sets})
    /\ \A c \in Consumers : \A t \in Trees[Slices[c]] : t.pipelines \in Seq(Range(t.pipelines))
    /\ MaxChanges \in Nat

VARIABLES
    tree,       \* consumer -> what its main branch holds
    platform,   \* consumer -> what its platform enforces now
    turn,       \* the consumer the fleet job is at
    job,        \* the audit in progress, or NoJob
    docs,       \* the documents the job has written: consumer -> document
    fleet,      \* the rows of the fleet report
    changes     \* commits and platform changes so far (bounded)

vars == <<tree, platform, turn, job, docs, fleet, changes>>

-----------------------------------------------------------------------------
(* The rules that apply: core and publisher, refused as a whole when an id   *)
(* repeats or a severity is not one of the three.                            *)
WellFormed(rules) ==
    /\ \A i, j \in DOMAIN rules : i # j => rules[i].id # rules[j].id
    /\ \A i \in DOMAIN rules : rules[i].severity \in {"mandatory", "waivable", "advisory"}

(* What one detector decides: a status, and the fact when it is only         *)
(* attested.                                                                 *)
Is(status)  == [status |-> status, fact |-> "none"]
Decide(ok)  == Is(IF ok THEN "pass" ELSE "fail")
Attested(t, fact) ==
    IF fact \in t.attests THEN [status |-> "attested", fact |-> fact] ELSE Is("fail")

\* The pipelines whose text has a component's command, in a step or in a comment;
\* the first one decides every question.
Hits(t, component) == {k \in DOMAIN t.pipelines : component \in t.pipelines[k].mentions}
Hit(t, component)  == t.pipelines[Min(Hits(t, component))]

\* Azure Repos ignores pr: in a pipeline, so only the platform can tell.
HasEvent(pipeline, event, ci) ==
    CASE ci = "azure-pipelines" /\ event = "pull_request" -> "undecidable"
      [] event \in pipeline.events -> "yes"
      [] OTHER -> "no"

Enforcement(event) ==
    IF event = "pull_request" THEN "pull_request_enforcement" ELSE "schedule_enforcement"

Wired(r, t) ==
    LET hit   == Hit(t, r.component)
        open  == {k \in DOMAIN r.events : HasEvent(hit, r.events[k], t.ci) # "yes"}
        event == r.events[Min(open)]
    IN  IF Hits(t, r.component) = {} \/ (r.pinned /\ ~hit.pinned) THEN Is("fail")
        ELSE IF open # {} THEN IF HasEvent(hit, event, t.ci) = "no" THEN Is("fail")
                               ELSE Attested(t, Enforcement(event))
        ELSE IF r.required THEN Attested(t, "required_check_enforced") ELSE Is("pass")

\* Mutant: the filter of the last pipeline that runs the gate decides.
LockstepLast(r, t) ==
    LET hits == Hits(t, r.component)
        filter == t.pipelines[Max(hits)].filter
    IN  Decide(/\ t.manifest # NoManifest
               /\ hits # {}
               /\ filter = {} \/ {p \in DOMAIN t.manifest : ~t.manifest[p]} \subseteq filter)

\* A path filter, {} for none, must cover every path the gate would verify.
Lockstep(r, t) ==
    LET filter == Hit(t, r.component).filter
    IN  Decide(/\ t.manifest # NoManifest
               /\ Hits(t, r.component) # {}
               /\ filter = {} \/ {p \in DOMAIN t.manifest : ~t.manifest[p]} \subseteq filter)

\* Of the three places of a CODEOWNERS file the first that exists counts.
OwnersCover(t, patterns) == t.owners # <<>> /\ patterns \subseteq Head(t.owners)

Detect(r, t) ==
    CASE r.kind = "file-exists" -> Decide(r.path \in t.files)
      [] r.kind = "manifest-tracked" ->
            Decide(t.manifest # NoManifest /\ r.path \in DOMAIN t.manifest)
      [] r.kind = "profile-bound" -> Decide(t.profile # "")
      [] r.kind = "codeowners-covers" ->
            IF t.scm = "azure-repos" THEN Attested(t, "required_reviewers_policy")
            ELSE Decide(OwnersCover(t, r.patterns))
      [] r.kind = "attest" -> Attested(t, r.attestation)
      [] r.kind = "tool" ->
            IF r.path \notin t.files THEN Is("skipped") ELSE Decide(r.path \in t.succeeds)
      [] r.kind = "pipeline-wired" -> IF t.ci = "none" THEN Is("skipped") ELSE Wired(r, t)
      [] r.kind = "paths-lockstep" -> IF t.ci = "none" THEN Is("skipped") ELSE Lockstep(r, t)
      [] OTHER -> Is("error")

\* A waiver answers a waivable rule and is itself a gap on any other.
Evaluate(t, rules) ==
    [i \in DOMAIN rules |->
        LET r == rules[i]
            found == IF r.id \notin t.waivers THEN Detect(r, t)
                     ELSE Is(IF r.severity = "waivable" THEN "waived" ELSE "fail")
        IN  [id |-> r.id, status |-> found.status, fact |-> found.fact,
             how |-> "tree", by |-> Unasked]]

-----------------------------------------------------------------------------
(* The reference handlers.  Of GitHub they see what the classic protection   *)
(* of a branch requires, and 404 for a branch without one and for a          *)
(* repository the token cannot see; of Azure DevOps the policies of the      *)
(* whole project, each with its type's display name.                         *)
Verdict(ok) == IF ok THEN "true" ELSE "false"

\* The branch a question is about.
Asked(branch) == IF branch = NoBranch THEN Main ELSE branch

GithubVerdict(controls, branch, fact) ==
    IF fact # "required_check_enforced" THEN "unknown"
    ELSE Verdict(controls.visible /\ controls.protection[Asked(branch)] \notin {Unprotected, {}})

\* The words looked for that a display name contains.
Words(name) ==
    CASE name \in {"Required reviewers", "Minimum number of reviewers"} -> {"reviewer"}
      [] name = "Build" -> {"build"}
      [] OTHER -> {}

\* A policy applies to the branches it is scoped to, or to all; without a branch
\* the scope is not looked at.
InScope(policy, branch) == branch = NoBranch \/ policy.branches = {} \/ branch \in policy.branches

\* Mutant: a disabled policy counts.
PolicyEnforcedDisabled(policies, branch, needle, blocking) ==
    \E q \in policies : (blocking => q.blocking) /\ needle \in Words(q.name) /\ InScope(q, branch)

PolicyEnforced(policies, branch, needle, blocking) ==
    \E q \in policies :
        q.enabled /\ (blocking => q.blocking) /\ needle \in Words(q.name) /\ InScope(q, branch)

AdoVerdict(policies, branch, fact) ==
    CASE fact = "required_reviewers_policy" ->
            Verdict(PolicyEnforced(policies, branch, "reviewer", FALSE))
      [] fact = "pull_request_enforcement"  -> Verdict(PolicyEnforced(policies, branch, "build", FALSE))
      [] fact = "required_check_enforced"   -> Verdict(PolicyEnforced(policies, branch, "build", TRUE))
      [] OTHER -> "unknown"

Answer(t, controls, branch, fact) ==
    IF t.scm = "azure-repos" THEN AdoVerdict(controls.policies, branch, fact)
    ELSE GithubVerdict(controls, branch, fact)

Promote(status, verdict) ==
    CASE verdict = "true" -> "pass" [] verdict = "false" -> "fail" [] OTHER -> status

-----------------------------------------------------------------------------
(* The documents and the report.                                             *)
IsGap(status) == status \in {"fail", "error"}

\* Mutant: unverified assertions rank above failures.
StatusRankAttested(status) ==
    CASE status = "error" -> 5 [] status = "fail" -> 3 [] status = "attested" -> 4
      [] status = "skipped" -> 2 [] status = "waived" -> 1 [] OTHER -> 0

StatusRank(status) ==
    CASE status = "error" -> 5 [] status = "fail" -> 4 [] status = "attested" -> 3
      [] status = "skipped" -> 2 [] status = "waived" -> 1 [] OTHER -> 0

Gaps(results) == {i \in DOMAIN results : IsGap(results[i].status)}

WorstStatus(results) ==
    LET ranks == {StatusRank(results[i].status) : i \in DOMAIN results} \union {0}
    IN  CHOOSE s \in Statuses : \A k \in ranks : StatusRank(s) \in ranks /\ k <= StatusRank(s)

Row(c) == [slice |-> c, gaps |-> Cardinality(Gaps(docs[c].results)),
           worst |-> WorstStatus(docs[c].results)]

\* Worst status first, then more gaps, then the slice's name.
Before(a, b) ==
    LET ra == StatusRank(a.worst)  rb == StatusRank(b.worst)
    IN  \/ ra > rb
        \/ ra = rb /\ a.gaps > b.gaps
        \/ ra = rb /\ a.gaps = b.gaps /\ a.slice < b.slice

Ranked(rows) ==
    {order \in Bijection(1..Cardinality(rows), rows) :
        \A i, j \in DOMAIN order : i < j => Before(order[i], order[j])}

-----------------------------------------------------------------------------
Init ==
    /\ tree \in [Consumers -> UNION {Trees[Slices[c]] : c \in Consumers}]
    /\ platform \in [Consumers -> UNION {Platforms[Slices[c]] : c \in Consumers}]
    /\ \A c \in Consumers : tree[c] \in Trees[Slices[c]] /\ platform[c] \in Platforms[Slices[c]]
    /\ turn = 1
    /\ job = NoJob
    /\ docs = << >>
    /\ fleet = << >>
    /\ changes = 0

Commit(c) ==
    /\ changes < MaxChanges
    /\ \E t \in Trees[Slices[c]] \ {tree[c]} : tree' = [tree EXCEPT ![c] = t]
    /\ changes' = changes + 1
    /\ UNCHANGED <<platform, turn, job, docs, fleet>>

Reconfigure(c) ==
    /\ changes < MaxChanges
    /\ \E k \in Platforms[Slices[c]] \ {platform[c]} : platform' = [platform EXCEPT ![c] = k]
    /\ changes' = changes + 1
    /\ UNCHANGED <<tree, turn, job, docs, fleet>>

(* cmdConformance up to the handler: the rules are loaded, or refused, and   *)
(* evaluated on a clone.  A publisher rule file that is not where it is      *)
(* looked for leaves the core rules alone.                                   *)
Audit(c) ==
    /\ job = NoJob /\ c = turn
    /\ \E extra \in PublisherRules, verify \in BOOLEAN :
       \E branch \in (IF verify THEN BaseBranches ELSE {NoBranch}) :
          /\ WellFormed(CoreRules \o extra)
          /\ job' = [slice |-> c, verify |-> verify, branch |-> branch, at |-> 1, seen |-> tree[c],
                     results |-> Evaluate(tree[c], CoreRules \o extra)]
    /\ UNCHANGED <<tree, platform, turn, docs, fleet, changes>>

Pending == IF job.verify THEN {i \in DOMAIN job.results : i >= job.at /\ job.results[i].status = "attested"}
           ELSE {}

(* The next attested fact goes to the handler, which asks the platform as it *)
(* is now, or learns nothing (no token, 401, 403, unreachable).              *)
Ask ==
    /\ job # NoJob
    /\ Pending # {}
    /\ LET i == Min(Pending)
           r == job.results[i]
       IN  \E verdict \in {"unknown", Answer(job.seen, platform[job.slice], job.branch, r.fact)} :
              job' = [job EXCEPT
                        !.at = i + 1,
                        !.results[i] = [r EXCEPT
                            !.status = Promote(r.status, verdict),
                            !.how = CASE verdict = "true" -> "verified"
                                      [] verdict = "false" -> "refuted" [] OTHER -> "tree",
                            !.by = platform[job.slice]]]
    /\ UNCHANGED <<tree, platform, turn, docs, fleet, changes>>

(* A handler that exits nonzero ends the run: no document is written, and    *)
(* the job goes on to the next consumer.                                     *)
HandlerFails ==
    /\ job # NoJob /\ Pending # {}
    /\ job' = NoJob
    /\ turn' = turn + 1
    /\ UNCHANGED <<tree, platform, docs, fleet, changes>>

\* Results printed, the document of the consumer is written.
Report ==
    /\ job # NoJob /\ Pending = {}
    /\ docs' = [c \in DOMAIN docs \union {job.slice} |->
                   IF c = job.slice
                   THEN [seen |-> job.seen, branch |-> job.branch, results |-> job.results]
                   ELSE docs[c]]
    /\ job' = NoJob
    /\ turn' = turn + 1
    /\ UNCHANGED <<tree, platform, fleet, changes>>

\* vendkit fleet over whatever documents there are; without one it refuses.
Aggregate ==
    /\ turn > Len(Slices) /\ fleet = << >>
    /\ DOMAIN docs # {}
    /\ fleet' \in Ranked({Row(c) : c \in DOMAIN docs})
    /\ UNCHANGED <<tree, platform, turn, job, docs, changes>>

Next ==
    \/ \E c \in Consumers : Commit(c) \/ Reconfigure(c) \/ Audit(c)
    \/ Ask \/ HandlerFails \/ Report \/ Aggregate

Spec == Init /\ [][Next]_vars

-----------------------------------------------------------------------------
(* What is really in force, at the platform and in the tree.                 *)

\* The policy that a fact of Azure DevOps speaks of: the gate's own build on every
\* pull request into the branch, or the reviewers required there.
Meant(q, c, branch, fact) ==
    /\ q.repo = Project[Slices[c]] /\ q.paths = {}
    /\ q.branches = {} \/ branch \in q.branches
    /\ IF fact = "required_reviewers_policy" THEN q.name = "Required reviewers"
       ELSE q.name = "Build" /\ q.runs = "gate"

Active(controls, fact) ==
    {q \in controls.policies : q.enabled /\ (fact = "required_check_enforced" => q.blocking)}

Classic(controls, branch) ==
    IF controls.protection[branch] = Unprotected THEN {} ELSE controls.protection[branch]

\* What the fact says is so, on this repository and branch.
InForce(c, t, controls, branch, fact) ==
    IF t.scm = "azure-repos"
    THEN \E q \in Active(controls, fact) : Meant(q, c, branch, fact)
    ELSE "gate" \in Classic(controls, branch) \union controls.rulesets[branch]

\* Something else is in force that a verification may be owed to: another check of
\* the branch; another policy of the project that takes a review or a build, of
\* the same branch if one was asked about.
Lookalike(c, t, controls, branch, fact) ==
    IF t.scm = "azure-repos"
    THEN \E q \in Active(controls, fact) :
            /\ q.name \in (IF fact = "required_reviewers_policy"
                           THEN {"Required reviewers", "Minimum number of reviewers"} ELSE {"Build"})
            /\ branch # NoBranch => q.branches = {} \/ branch \in q.branches
            /\ ~Meant(q, c, Asked(branch), fact)
    ELSE Classic(controls, Asked(branch)) \ {"gate"} # {}

\* A control that a refutation overlooks: a ruleset, or all of a repository that
\* the token cannot see.
Overlooked(t, controls, branch) ==
    t.scm # "azure-repos" /\ (~controls.visible \/ "gate" \in controls.rulesets[branch])

\* A pull request into main that changes the path runs the gate of the pipeline.
\* On Azure the platform's policy starts it (InForce), the file decides nothing.
Verifies(t, pipeline, path) ==
    /\ "gate" \in pipeline.runs
    /\ t.ci = "github-actions" =>
            /\ "pull_request" \in pipeline.events
            /\ pipeline.filter = {} \/ path \in pipeline.filter
            /\ path \notin pipeline.ignores
            /\ pipeline.branches = {} \/ Main \in pipeline.branches

\* What no rule reads of a pipeline: that its command stands in a comment, or its
\* trigger has paths-ignore or branches.
Unread(pipeline, path) ==
    \/ "gate" \notin pipeline.runs
    \/ path \in pipeline.ignores
    \/ pipeline.branches # {} /\ Main \notin pipeline.branches

Vendored(t) == {path \in DOMAIN t.manifest : ~t.manifest[path]}

(* A wrong verdict is one of a closed list.  Where the platform was asked,   *)
(* as it was at that moment, a "(verification refuted)" is of a control that *)
(* was not in force on the branch asked about, or one the request cannot     *)
(* show; a "(verified)" is of a control in force, or there was another that  *)
(* looks the same.  A refused request decides nothing (cmds.go:822).         *)
VerdictsTrue ==
    \A c \in DOMAIN docs :
        LET d == docs[c]
        IN  \A i \in DOMAIN d.results :
                LET r == d.results[i]
                    real == InForce(c, d.seen, r.by, Asked(d.branch), r.fact)
                IN  /\ r.how = "refuted" => ~real \/ Overlooked(d.seen, r.by, Asked(d.branch))
                    /\ r.how = "verified" => real \/ Lookalike(c, d.seen, r.by, d.branch, r.fact)

(* Where the gate's two rules pass, a vendored path can reach main without   *)
(* the gate only by what the audit does not look at: one and the same pinned *)
(* pipeline verifies every pull request that changes one, except for what no *)
(* rule reads of it, and the platform saw to that when it was asked, except  *)
(* for a lookalike.  The rules look for their pipeline separately, and the   *)
(* platform is asked later (conformance.go:446, :495, cmds.go:787).          *)
GateVouchedFor ==
    \A c \in DOMAIN docs :
        LET d == docs[c]  t == d.seen
            Passed(id) == {i \in DOMAIN d.results : d.results[i].id = id /\ d.results[i].status = "pass"}
        IN  Passed("gate-wired") # {} /\ Passed("gate-paths-lockstep") # {} =>
                /\ \A i \in Passed("gate-wired") :
                        LET r == d.results[i]
                        IN  /\ r.how = "verified"
                            /\ \/ InForce(c, t, r.by, Asked(d.branch), r.fact)
                               \/ Lookalike(c, t, r.by, d.branch, r.fact)
                /\ \E k \in DOMAIN t.pipelines :
                        LET p == t.pipelines[k]
                        IN  /\ "gate" \in p.mentions /\ p.pinned
                            /\ \A path \in Vendored(t) : Verifies(t, p, path) \/ Unread(p, path)

(* In the fleet report no consumer with a gap stands behind one without,     *)
(* whatever their documents hold besides: the rows are sorted by status,     *)
(* the gaps are counted separately (fleet.go:38).                            *)
OffendersFirst ==
    \A i, j \in DOMAIN fleet : i < j /\ fleet[j].gaps > 0 => fleet[i].gaps > 0

-----------------------------------------------------------------------------
(* What the documents say, without the exceptions.                           *)

(* conformance.md 4: a verdict is what the platform enforces.  False of the  *)
(* code: rulesets, which core-rules.yml:27 asks for, are refuted, and the    *)
(* lookalikes above are verified.                                            *)
VerdictsExact ==
    \A c \in DOMAIN docs : \A i \in DOMAIN docs[c].results :
        LET d == docs[c]  r == d.results[i]
            real == InForce(c, d.seen, r.by, Asked(d.branch), r.fact)
        IN  (r.how = "refuted" => ~real) /\ (r.how = "verified" => real)

(* core-rules.yml:16: gate-wired is "wired, pinned, required on PRs".  False *)
(* of the code also where no verdict is wrong: the triggers above, and on    *)
(* Azure Repos, where a policy that blocks nothing is enough.                *)
GateRequired ==
    \A c \in DOMAIN docs : \A i \in DOMAIN docs[c].results :
        LET d == docs[c]  r == d.results[i]
        IN  r.id = "gate-wired" /\ r.status = "pass" /\ d.seen.manifest # NoManifest =>
                /\ InForce(c, d.seen, r.by, Asked(d.branch), "required_check_enforced")
                /\ \E k \in DOMAIN d.seen.pipelines :
                        \A path \in Vendored(d.seen) : Verifies(d.seen, d.seen.pipelines[k], path)

=============================================================================
