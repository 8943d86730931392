----------------------------- MODULE AuditProofs -----------------------------
(***************************************************************************)
(* What the two audits may be relied on for.  Of consumers, for any rules, *)
(* trees and platforms: verdicts are true, the gate's two rules vouch for  *)
(* one pipeline, and the fleet report puts offenders first.  Of publishers *)
(* and their profiles, for any rules, adapters and expectations: the two   *)
(* ends of the oracle agree, and advisories mean what they say.            *)
(***************************************************************************)
EXTENDS Conformance, Localisation, FiniteSetTheorems, WellFoundedInduction, TLAPS

\* A set of numbers has a least element.
LEMMA LeastExists ==
    ASSUME NEW S \in SUBSET Nat, S # {}
    PROVE  Min(S) \in S /\ \A k \in S : Min(S) <= k
<1>1. PICK x \in S : \A y \in S : ~ (<<y, x>> \in OpToRel(<, Nat))
  BY WFMin, NatLessThanWellFounded
<1>2. \A y \in S : ~(y < x)
  BY <1>1 DEF OpToRel
<1>3. \A y \in S : x <= y
  BY <1>2
<1> QED
  BY <1>3 DEF Min

-----------------------------------------------------------------------------
(* What a result may be, given the tree and the rules it was found by.       *)

\* A status is what the detector found, or what the platform made of it.
ResultOf(found, result) ==
    /\ result = [id |-> found.id, status |-> result.status, fact |-> found.fact,
                 how |-> result.how, by |-> result.by]
    /\ \/ result.status = found.status /\ result.how = "tree"
       \/ /\ found.status = "attested" /\ result.how \in {"verified", "refuted"}
          /\ result.status = IF result.how = "verified" THEN "pass" ELSE "fail"

RulesIn(extra) == CoreRules \o extra

ResultsOf(t, results) ==
    \E extra \in PublisherRules :
        LET rules == RulesIn(extra)
        IN  /\ WellFormed(rules)
            /\ DOMAIN results = DOMAIN rules
            /\ \A i \in DOMAIN rules : ResultOf(Evaluate(t, rules)[i], results[i])

\* Consumers stay what they are, whatever is committed and reconfigured.
EnvInv ==
    /\ \A c \in Consumers : tree[c] \in Trees[Slices[c]] /\ platform[c] \in Platforms[Slices[c]]
    /\ DOMAIN tree = Consumers /\ DOMAIN platform = Consumers

\* An audit in progress and the documents hold results of a tree.
JobInv ==
    job # NoJob =>
        /\ job = [slice |-> job.slice, verify |-> job.verify, branch |-> job.branch, at |-> job.at,
                  seen |-> job.seen, results |-> job.results]
        /\ job.slice \in Consumers
        /\ job.seen \in Trees[Slices[job.slice]]
        /\ ResultsOf(job.seen, job.results)

DocsInv ==
    \A c \in DOMAIN docs :
        /\ c \in Consumers
        /\ docs[c].seen \in Trees[Slices[c]]
        /\ ResultsOf(docs[c].seen, docs[c].results)

AuditInv == EnvInv /\ JobInv /\ DocsInv

\* Two rule sets make one sequence.
LEMMA RulesSequence ==
    ASSUME ConformanceConstants, NEW extra \in PublisherRules
    PROVE  /\ Len(RulesIn(extra)) \in Nat /\ DOMAIN RulesIn(extra) = 1..Len(RulesIn(extra))
           /\ DOMAIN CoreRules \subseteq DOMAIN RulesIn(extra)
           /\ \A i \in DOMAIN CoreRules : RulesIn(extra)[i] = CoreRules[i]
<1> DEFINE sets == PublisherRules \union {CoreRules}
           S == UNION {Range(rules) : rules \in sets}
<1>1. CoreRules \in Seq(S) /\ extra \in Seq(S)
  BY DEF ConformanceConstants
<1> HIDE DEF S
<1> QED
  BY <1>1 DEF RulesIn

LEMMA EvaluateFields ==
    ASSUME NEW t, NEW rules, NEW i \in DOMAIN rules
    PROVE  LET found == Evaluate(t, rules)[i]
           IN  /\ DOMAIN Evaluate(t, rules) = DOMAIN rules
               /\ found = [id |-> found.id, status |-> found.status, fact |-> found.fact,
                           how |-> "tree", by |-> Unasked]
               /\ found.id = rules[i].id
BY DEF Evaluate

LEMMA AuditStep ==
    ASSUME ConformanceConstants, AuditInv, NEW c \in Consumers, Audit(c)
    PROVE  AuditInv'
<1>1. PICK extra \in PublisherRules, verify \in BOOLEAN :
       \E branch \in (IF verify THEN BaseBranches ELSE {NoBranch}) :
         /\ WellFormed(RulesIn(extra))
         /\ job' = [slice |-> c, verify |-> verify, branch |-> branch, at |-> 1, seen |-> tree[c],
                    results |-> Evaluate(tree[c], RulesIn(extra))]
  BY DEF Audit, RulesIn
<1>2. UNCHANGED <<tree, platform, docs>>
  BY DEF Audit
<1> DEFINE rules == RulesIn(extra)
           found == Evaluate(tree[c], rules)
<1>3. DOMAIN found = DOMAIN rules
  BY DEF Evaluate
<1>4. ASSUME NEW i \in DOMAIN rules PROVE ResultOf(found[i], found[i])
  <2>1. found[i] = [id |-> found[i].id, status |-> found[i].status, fact |-> found[i].fact,
                    how |-> "tree", by |-> Unasked]
    BY EvaluateFields
  <2>2. found[i].how = "tree" /\ found[i].by = Unasked
    BY <2>1
  <2> HIDE DEF found
  <2> QED BY <2>1, <2>2 DEF ResultOf
<1>5. ResultsOf(tree[c], found)
  BY <1>1, <1>3, <1>4 DEF ResultsOf
<1>6. JobInv'
  BY <1>1, <1>2, <1>5 DEF JobInv, AuditInv, EnvInv
<1>7. EnvInv' /\ DocsInv'
  BY <1>2 DEF AuditInv, EnvInv, DocsInv
<1> QED
  BY <1>6, <1>7 DEF AuditInv

\* A result after its fact was asked for.
Answered(r, verdict, by) ==
    [id |-> r.id, status |-> Promote(r.status, verdict), fact |-> r.fact,
     how |-> CASE verdict = "true" -> "verified" [] verdict = "false" -> "refuted" [] OTHER -> "tree",
     by |-> by]

\* A question is about an attested result, and its answer changes no other.
LEMMA AskFacts ==
    ASSUME ConformanceConstants, AuditInv, Ask
    PROVE  \E i \in DOMAIN job.results :
              \E verdict \in {"unknown", Answer(job.seen, platform[job.slice], job.branch, job.results[i].fact)} :
                  /\ job.results[i].status = "attested"
                  /\ job' = [slice |-> job.slice, verify |-> job.verify, branch |-> job.branch,
                             at |-> i + 1, seen |-> job.seen,
                             results |-> [job.results EXCEPT ![i] =
                                 Answered(job.results[i], verdict, platform[job.slice])]]
<1> DEFINE i == Min(Pending)
           r == job.results[i]
           by == platform[job.slice]
           how(verdict) == CASE verdict = "true" -> "verified"
                             [] verdict = "false" -> "refuted" [] OTHER -> "tree"
           new(verdict) == [r EXCEPT !.status = Promote(r.status, verdict), !.how = how(verdict),
                                     !.by = by]
<1>1. PICK verdict \in {"unknown", Answer(job.seen, platform[job.slice], job.branch, r.fact)} :
         job' = [job EXCEPT !.at = i + 1, !.results[i] = new(verdict)]
  BY DEF Ask
<1>2. job # NoJob
  BY DEF Ask
<1>3. PICK extra \in PublisherRules :
         LET rules == RulesIn(extra)
         IN  /\ DOMAIN job.results = DOMAIN rules
             /\ \A k \in DOMAIN rules : ResultOf(Evaluate(job.seen, rules)[k], job.results[k])
  BY <1>2 DEF AuditInv, JobInv, ResultsOf
<1>4. i \in DOMAIN job.results /\ r.status = "attested"
  <2>1. Pending \in SUBSET Nat
    BY <1>3, RulesSequence DEF Pending
  <2>2. i \in Pending
    BY <2>1, LeastExists DEF Ask
  <2> QED BY <2>2 DEF Pending
<1>5. r = [id |-> r.id, status |-> r.status, fact |-> r.fact, how |-> r.how, by |-> r.by]
  <2>1. PICK found : ResultOf(found, r)
    BY <1>3, <1>4
  <2> HIDE DEF r
  <2> QED BY <2>1 DEF ResultOf
<1>6. new(verdict) = Answered(r, verdict, by)
  <2> DEFINE status == Promote(r.status, verdict)
             first  == [r EXCEPT !.status = status]
             second == [first EXCEPT !.how = how(verdict)]
  <2> HIDE DEF status, how, by, r
  <2>1. first = [id |-> r.id, status |-> status, fact |-> r.fact, how |-> r.how, by |-> r.by]
    BY <1>5
  <2> HIDE DEF first
  <2>2. second = [id |-> r.id, status |-> status, fact |-> r.fact, how |-> how(verdict), by |-> r.by]
    BY <2>1
  <2> HIDE DEF second
  <2>3. [second EXCEPT !.by = by]
           = [id |-> r.id, status |-> status, fact |-> r.fact, how |-> how(verdict), by |-> by]
    BY <2>2
  <2> QED BY <2>3 DEF second, first, status, how, Answered
<1>7. job' = [slice |-> job.slice, verify |-> job.verify, branch |-> job.branch, at |-> i + 1, seen |-> job.seen,
              results |-> [job.results EXCEPT ![i] = new(verdict)]]
  <2>1. job = [slice |-> job.slice, verify |-> job.verify, branch |-> job.branch, at |-> job.at, seen |-> job.seen,
               results |-> job.results]
    BY <1>2 DEF AuditInv, JobInv
  <2> HIDE DEF i, new
  <2> QED BY <1>1, <2>1
<1> HIDE DEF new, i
<1> QED BY <1>4, <1>6, <1>7

\* The platform answers for attested facts only, and either way or not at all.
LEMMA AskStep ==
    ASSUME ConformanceConstants, AuditInv, Ask
    PROVE  AuditInv'
<1>1. PICK i \in DOMAIN job.results : \E verdict, by :
         /\ job.results[i].status = "attested"
         /\ job' = [slice |-> job.slice, verify |-> job.verify, branch |-> job.branch, at |-> i + 1, seen |-> job.seen,
                    results |-> [job.results EXCEPT ![i] = Answered(job.results[i], verdict, by)]]
  BY AskFacts
<1>2. PICK verdict, by :
         job' = [slice |-> job.slice, verify |-> job.verify, branch |-> job.branch, at |-> i + 1, seen |-> job.seen,
                 results |-> [job.results EXCEPT ![i] = Answered(job.results[i], verdict, by)]]
  BY <1>1
<1>3. job # NoJob /\ UNCHANGED <<tree, platform, docs>>
  BY DEF Ask
<1>4. PICK extra \in PublisherRules :
         LET rules == RulesIn(extra)
         IN  /\ WellFormed(rules)
             /\ DOMAIN job.results = DOMAIN rules
             /\ \A k \in DOMAIN rules : ResultOf(Evaluate(job.seen, rules)[k], job.results[k])
  BY <1>3 DEF AuditInv, JobInv, ResultsOf
<1> DEFINE rules == RulesIn(extra)
           found(k) == Evaluate(job.seen, rules)[k]
           new == Answered(job.results[i], verdict, by)
           results == [job.results EXCEPT ![i] = new]
<1>5. ResultOf(found(i), new)
  <2> DEFINE r == job.results[i]
  <2>1. ResultOf(found(i), r) /\ r.status = "attested"
    BY <1>1, <1>4
  <2> HIDE DEF found, r
  <2>2. ResultOf(found(i), Answered(r, verdict, by))
    BY <2>1 DEF ResultOf, Answered, Promote
  <2> QED BY <2>2 DEF r
<1>6. ResultsOf(job.seen, results)
  <2>1. DOMAIN results = DOMAIN rules
    BY <1>4
  <2>2. ASSUME NEW k \in DOMAIN rules PROVE ResultOf(found(k), results[k])
    <3> HIDE DEF new
    <3> QED BY <1>1, <1>4, <1>5
  <2> HIDE DEF new, results
  <2> QED BY <1>4, <2>1, <2>2 DEF ResultsOf
<1>7. JobInv'
  <2> HIDE DEF new, results
  <2> QED BY <1>2, <1>3, <1>6 DEF JobInv, AuditInv, new, results
<1>8. EnvInv' /\ DocsInv'
  BY <1>3 DEF AuditInv, EnvInv, DocsInv
<1> QED
  BY <1>7, <1>8 DEF AuditInv

LEMMA StepInv == ASSUME ConformanceConstants, AuditInv, [Next]_vars PROVE AuditInv'
<1>1. CASE UNCHANGED vars
  BY <1>1 DEF vars, AuditInv, EnvInv, JobInv, DocsInv
<1>2. ASSUME NEW c \in Consumers, Commit(c) PROVE AuditInv'
  <2>1. PICK t \in Trees[Slices[c]] : tree' = [tree EXCEPT ![c] = t]
    BY <1>2 DEF Commit
  <2>2. UNCHANGED <<platform, job, docs>>
    BY <1>2 DEF Commit
  <2>3. EnvInv'
    BY <2>1, <2>2 DEF AuditInv, EnvInv
  <2> QED BY <2>2, <2>3 DEF AuditInv, JobInv, DocsInv
<1>3. ASSUME NEW c \in Consumers, Reconfigure(c) PROVE AuditInv'
  <2>1. PICK k \in Platforms[Slices[c]] : platform' = [platform EXCEPT ![c] = k]
    BY <1>3 DEF Reconfigure
  <2>2. UNCHANGED <<tree, job, docs>>
    BY <1>3 DEF Reconfigure
  <2>3. EnvInv'
    BY <2>1, <2>2 DEF AuditInv, EnvInv
  <2> QED BY <2>2, <2>3 DEF AuditInv, JobInv, DocsInv
<1>4. CASE HandlerFails
  BY <1>4 DEF HandlerFails, AuditInv, EnvInv, JobInv, DocsInv
<1>5. CASE Report
  <2>1. /\ docs' = [c \in DOMAIN docs \union {job.slice} |->
                       IF c = job.slice
                       THEN [seen |-> job.seen, branch |-> job.branch, results |-> job.results]
                       ELSE docs[c]]
        /\ job # NoJob /\ job' = NoJob /\ UNCHANGED <<tree, platform>>
    BY <1>5 DEF Report
  <2>2. DocsInv'
    BY <2>1 DEF AuditInv, JobInv, DocsInv
  <2> QED BY <2>1, <2>2 DEF AuditInv, EnvInv, JobInv
<1>6. CASE Aggregate
  BY <1>6 DEF Aggregate, AuditInv, EnvInv, JobInv, DocsInv
<1> QED
  BY <1>1, <1>2, <1>3, <1>4, <1>5, <1>6, AuditStep, AskStep DEF Next

LEMMA AuditHolds == Spec => []AuditInv
<1> USE ConformanceConstants
<1>1. Init => AuditInv
  BY DEF Init, AuditInv, EnvInv, JobInv, DocsInv
<1>2. AuditInv /\ [Next]_vars => AuditInv'
  BY StepInv
<1> QED BY <1>1, <1>2, PTL DEF Spec


-----------------------------------------------------------------------------
(* Verdicts.                                                                 *)
TrueResult(c, t, branch, r) ==
    LET real == InForce(c, t, r.by, Asked(branch), r.fact)
    IN  /\ r.how = "refuted" => ~real \/ Overlooked(t, r.by, Asked(branch))
        /\ r.how = "verified" => real \/ Lookalike(c, t, r.by, branch, r.fact)

TrueResults(c, t, branch, results) == \A i \in DOMAIN results : TrueResult(c, t, branch, results[i])

TrueInv ==
    /\ job # NoJob => TrueResults(job.slice, job.seen, job.branch, job.results)
    /\ \A c \in DOMAIN docs : TrueResults(c, docs[c].seen, docs[c].branch, docs[c].results)

\* What Azure DevOps answers of one word: a policy that has it is the one meant or
\* a lookalike, and the one meant has it.
LEMMA PolicyAnswer ==
    ASSUME NEW c, NEW t, t.scm = "azure-repos", NEW controls, NEW branch, NEW fact, NEW needle,
           NEW blocking,
           \/ fact = "required_reviewers_policy" /\ needle = "reviewer" /\ blocking = FALSE
           \/ fact = "pull_request_enforcement" /\ needle = "build" /\ blocking = FALSE
           \/ fact = "required_check_enforced" /\ needle = "build" /\ blocking = TRUE
    PROVE  LET found == PolicyEnforced(controls.policies, branch, needle, blocking)
               real  == InForce(c, t, controls, Asked(branch), fact)
           IN  /\ found => real \/ Lookalike(c, t, controls, branch, fact)
               /\ real => found
<1> DEFINE real == InForce(c, t, controls, Asked(branch), fact)
           alike == Lookalike(c, t, controls, branch, fact)
<1>1. ASSUME NEW q \in controls.policies, q.enabled, blocking => q.blocking, needle \in Words(q.name),
             InScope(q, branch)
      PROVE  real \/ alike
  <2>1. q \in Active(controls, fact)
    BY <1>1 DEF Active
  <2>2. q.name \in (IF fact = "required_reviewers_policy"
                   THEN {"Required reviewers", "Minimum number of reviewers"} ELSE {"Build"})
    BY <1>1 DEF Words
  <2>3. branch # NoBranch => q.branches = {} \/ branch \in q.branches
    BY <1>1 DEF InScope
  <2>4. CASE Meant(q, c, Asked(branch), fact)
    BY <2>1, <2>4 DEF InForce
  <2>5. CASE ~Meant(q, c, Asked(branch), fact)
    BY <2>1, <2>2, <2>3, <2>5 DEF Lookalike
  <2> QED BY <2>4, <2>5
<1>2. ASSUME real
      PROVE  PolicyEnforced(controls.policies, branch, needle, blocking)
  <2>1. PICK q \in Active(controls, fact) : Meant(q, c, Asked(branch), fact)
    BY <1>2 DEF InForce
  <2>2. q \in controls.policies /\ q.enabled /\ (blocking => q.blocking)
    BY <2>1 DEF Active
  <2>3. needle \in Words(q.name)
    BY <2>1 DEF Meant, Words
  <2>4. InScope(q, branch)
    BY <2>1 DEF Meant, InScope, Asked
  <2> QED BY <2>2, <2>3, <2>4 DEF PolicyEnforced
<1> QED BY <1>1, <1>2 DEF PolicyEnforced

\* So with either platform, whatever it enforces and whichever branch is asked about.
LEMMA AnswerTrue ==
    ASSUME NEW c, NEW t, NEW controls, NEW branch, NEW fact
    PROVE  LET verdict == Answer(t, controls, branch, fact)
               real    == InForce(c, t, controls, Asked(branch), fact)
           IN  /\ verdict = "true" => real \/ Lookalike(c, t, controls, branch, fact)
               /\ verdict = "false" => ~real \/ Overlooked(t, controls, Asked(branch))
<1> DEFINE verdict == Answer(t, controls, branch, fact)
           real    == InForce(c, t, controls, Asked(branch), fact)
           alike   == Lookalike(c, t, controls, branch, fact)
           hidden  == Overlooked(t, controls, Asked(branch))
<1> SUFFICES (verdict = "true" => real \/ alike) /\ (verdict = "false" => ~real \/ hidden)
  OBVIOUS
<1>1. CASE t.scm = "azure-repos"
  <2> DEFINE found(needle, blocking) == PolicyEnforced(controls.policies, branch, needle, blocking)
  <2>1. verdict = AdoVerdict(controls.policies, branch, fact)
    BY <1>1 DEF Answer
  <2>2. \A ok : Verdict(ok) = IF ok THEN "true" ELSE "false"
    BY DEF Verdict
  <2>3. CASE fact = "required_reviewers_policy"
    <3>1. verdict = Verdict(found("reviewer", FALSE))
      BY <2>1, <2>3 DEF AdoVerdict
    <3>2. (found("reviewer", FALSE) => real \/ alike) /\ (real => found("reviewer", FALSE))
      BY <1>1, <2>3, PolicyAnswer
    <3> HIDE DEF verdict, found, real, alike, hidden
    <3> QED BY <2>2, <3>1, <3>2
  <2>4. CASE fact = "pull_request_enforcement"
    <3>1. verdict = Verdict(found("build", FALSE))
      BY <2>1, <2>4 DEF AdoVerdict
    <3>2. (found("build", FALSE) => real \/ alike) /\ (real => found("build", FALSE))
      BY <1>1, <2>4, PolicyAnswer
    <3> HIDE DEF verdict, found, real, alike, hidden
    <3> QED BY <2>2, <3>1, <3>2
  <2>5. CASE fact = "required_check_enforced"
    <3>1. verdict = Verdict(found("build", TRUE))
      BY <2>1, <2>5 DEF AdoVerdict
    <3>2. (found("build", TRUE) => real \/ alike) /\ (real => found("build", TRUE))
      BY <1>1, <2>5, PolicyAnswer
    <3> HIDE DEF verdict, found, real, alike, hidden
    <3> QED BY <2>2, <3>1, <3>2
  <2>6. CASE fact \notin {"required_reviewers_policy", "pull_request_enforcement", "required_check_enforced"}
    BY <2>1, <2>6 DEF AdoVerdict
  <2> QED BY <2>3, <2>4, <2>5, <2>6
<1>2. CASE t.scm # "azure-repos"
  <2> DEFINE classic == controls.protection[Asked(branch)]
  <2>1. verdict = IF fact # "required_check_enforced" THEN "unknown"
                  ELSE IF controls.visible /\ classic \notin {Unprotected, {}} THEN "true" ELSE "false"
    BY <1>2 DEF Answer, GithubVerdict, Verdict
  <2>2. real <=> "gate" \in Classic(controls, Asked(branch)) \union controls.rulesets[Asked(branch)]
    BY <1>2 DEF InForce
  <2>3. alike <=> Classic(controls, Asked(branch)) \ {"gate"} # {}
    BY <1>2 DEF Lookalike
  <2>4. classic = Unprotected => Classic(controls, Asked(branch)) = {}
    BY DEF Classic
  <2>5. classic # Unprotected => Classic(controls, Asked(branch)) = classic
    BY DEF Classic
  <2>6. hidden
           <=> ~controls.visible \/ "gate" \in controls.rulesets[Asked(branch)]
    BY <1>2 DEF Overlooked
  <2> HIDE DEF verdict, real, alike, hidden, classic
  <2> QED BY <2>1, <2>2, <2>3, <2>4, <2>5, <2>6
<1> QED BY <1>1, <1>2

LEMMA TrueStep ==
    ASSUME ConformanceConstants, AuditInv, TrueInv, [Next]_vars
    PROVE  TrueInv'
<1>1. CASE Ask
  <2> DEFINE c == job.slice
             t == job.seen
             branch == job.branch
             controls == platform[job.slice]
  <2>1. PICK i \in DOMAIN job.results :
          \E verdict \in {"unknown", Answer(t, controls, branch, job.results[i].fact)} :
             job' = [slice |-> c, verify |-> job.verify, branch |-> branch, at |-> i + 1, seen |-> t,
                     results |-> [job.results EXCEPT ![i] =
                         Answered(job.results[i], verdict, controls)]]
    BY <1>1, AskFacts
  <2> DEFINE new(verdict) == Answered(job.results[i], verdict, controls)
  <2>2. PICK verdict \in {"unknown", Answer(t, controls, branch, job.results[i].fact)} :
             job' = [slice |-> c, verify |-> job.verify, branch |-> branch, at |-> i + 1, seen |-> t,
                     results |-> [job.results EXCEPT ![i] = new(verdict)]]
    BY <2>1
  <2>3. job # NoJob /\ UNCHANGED docs
    BY <1>1 DEF Ask
  <2>4. TrueResult(c, t, branch, new(verdict))
    <3> DEFINE r == job.results[i]
    <3> HIDE DEF r, c, t, branch, controls
    <3>1. LET real == InForce(c, t, controls, Asked(branch), r.fact)
          IN  /\ verdict = "true" => real \/ Lookalike(c, t, controls, branch, r.fact)
              /\ verdict = "false" => ~real \/ Overlooked(t, controls, Asked(branch))
      BY <2>2, AnswerTrue DEF r
    <3>2. new(verdict).by = controls /\ new(verdict).fact = r.fact
      BY DEF Answered, r
    <3>3. /\ new(verdict).how = "verified" => verdict = "true"
          /\ new(verdict).how = "refuted" => verdict = "false"
      BY DEF Answered
    <3> HIDE DEF new
    <3> QED BY <3>1, <3>2, <3>3 DEF TrueResult
  <2>5. TrueResults(c, t, branch, job.results)
    BY <2>3 DEF TrueInv
  <2> HIDE DEF c, t, branch, controls, new
  <2>6. TrueResults(c, t, branch, [job.results EXCEPT ![i] = new(verdict)])
    BY <2>4, <2>5 DEF TrueResults
  <2>7. /\ job'.slice = c /\ job'.seen = t /\ job'.branch = branch
        /\ job'.results = [job.results EXCEPT ![i] = new(verdict)]
    BY <2>2
  <2> QED BY <2>3, <2>6, <2>7 DEF TrueInv
<1>2. CASE Report
  <2>1. /\ docs' = [c \in DOMAIN docs \union {job.slice} |->
                       IF c = job.slice
                       THEN [seen |-> job.seen, branch |-> job.branch, results |-> job.results]
                       ELSE docs[c]]
        /\ job # NoJob /\ job' = NoJob
    BY <1>2 DEF Report
  <2> QED BY <2>1 DEF TrueInv
<1>3. ASSUME NEW c \in Consumers, Audit(c) PROVE TrueInv'
  <2>1. PICK extra \in PublisherRules, verify \in BOOLEAN :
        \E branch \in (IF verify THEN BaseBranches ELSE {NoBranch}) :
           job' = [slice |-> c, verify |-> verify, branch |-> branch, at |-> 1, seen |-> tree[c],
                   results |-> Evaluate(tree[c], CoreRules \o extra)]
    BY <1>3 DEF Audit
  <2>2. \A i \in DOMAIN Evaluate(tree[c], CoreRules \o extra) :
           Evaluate(tree[c], CoreRules \o extra)[i].how = "tree"
    BY DEF Evaluate
  <2>3. UNCHANGED docs
    BY <1>3 DEF Audit
  <2>4. \A i \in DOMAIN job'.results : job'.results[i].how = "tree"
    BY <2>1, <2>2
  <2> QED BY <2>3, <2>4 DEF TrueInv, TrueResults, TrueResult
<1>4. CASE UNCHANGED <<job, docs>>
  BY <1>4 DEF TrueInv
<1>5. CASE HandlerFails
  BY <1>5 DEF HandlerFails, TrueInv
<1> QED
  BY <1>1, <1>2, <1>3, <1>4, <1>5 DEF Next, vars, Commit, Reconfigure, Aggregate

(* A wrong verdict is one of the closed list: for any rules, trees and       *)
(* platforms, whichever branch is asked about, and whatever administrators   *)
(* change around the questions (cmds.go:822, handler.go:412, :714).          *)
THEOREM VerdictsHold == Spec => []VerdictsTrue
<1> USE ConformanceConstants
<1>1. Init => TrueInv
  BY DEF Init, TrueInv
<1>2. AuditInv /\ TrueInv /\ [Next]_vars => TrueInv'
  BY TrueStep
<1>3. TrueInv => VerdictsTrue
  BY DEF TrueInv, TrueResults, TrueResult, VerdictsTrue
<1> QED BY <1>1, <1>2, <1>3, AuditHolds, PTL DEF Spec

-----------------------------------------------------------------------------
(* The two rules of the gate, as core-rules.yml ships them.                  *)
GateRule(r) ==
    /\ r.id = "gate-wired" /\ r.severity = "mandatory"
    /\ r.kind = "pipeline-wired" /\ r.component = "gate"
    /\ r.pinned /\ r.events = <<"pull_request">> /\ r.required

PathsRule(r) ==
    /\ r.id = "gate-paths-lockstep" /\ r.severity = "mandatory"
    /\ r.kind = "paths-lockstep" /\ r.component = "gate"

GateRules ==
    /\ \E i \in DOMAIN CoreRules : GateRule(CoreRules[i])
    /\ \E i \in DOMAIN CoreRules : PathsRule(CoreRules[i])

\* Wherever a component runs, the pipeline that decides is one that runs it.
LEMMA HitRuns ==
    ASSUME NEW t, t.pipelines \in Seq(Range(t.pipelines)), NEW component, Hits(t, component) # {}
    PROVE  \E k \in DOMAIN t.pipelines :
              component \in t.pipelines[k].mentions /\ Hit(t, component) = t.pipelines[k]
<1> DEFINE S == Range(t.pipelines)
<1>1. t.pipelines \in Seq(S)
  OBVIOUS
<1> HIDE DEF S
<1>2. Hits(t, component) \in SUBSET Nat
  BY <1>1 DEF Hits
<1>3. Min(Hits(t, component)) \in Hits(t, component)
  BY <1>2, LeastExists
<1> QED BY <1>3 DEF Hits, Hit

\* The wiring rule of the gate passes no tree by itself; what it leaves to the
\* platform has a pinned pipeline, for pull requests where the file can tell.
LEMMA GateAttested ==
    ASSUME NEW t, t.pipelines \in Seq(Range(t.pipelines)), NEW r, GateRule(r)
    PROVE  /\ Detect(r, t).status \in {"skipped", "fail", "attested"}
           /\ Detect(r, t).status = "attested" =>
                /\ t.ci # "none"
                /\ Hits(t, "gate") # {} /\ Hit(t, "gate").pinned
                /\ t.ci = "github-actions" => "pull_request" \in Hit(t, "gate").events
<1> DEFINE hit == Hit(t, "gate")
           open == {k \in DOMAIN r.events : HasEvent(hit, r.events[k], t.ci) # "yes"}
<1>1. Detect(r, t) = IF t.ci = "none" THEN Is("skipped") ELSE Wired(r, t)
  BY DEF Detect, GateRule
<1>2. DOMAIN r.events = {1} /\ r.events[1] = "pull_request"
  BY DEF GateRule
<1>3. open # {} => open = {1} /\ Min(open) = 1
  <2>1. open # {} => open = {1}
    BY <1>2
  <2>2. Min({1}) = 1
    BY DEF Min
  <2> QED BY <2>1, <2>2
<1>4. Wired(r, t) =
        IF Hits(t, "gate") = {} \/ ~hit.pinned THEN Is("fail")
        ELSE IF open # {} THEN IF HasEvent(hit, "pull_request", t.ci) = "no" THEN Is("fail")
                               ELSE Attested(t, "pull_request_enforcement")
        ELSE Attested(t, "required_check_enforced")
  BY <1>2, <1>3 DEF Wired, GateRule, Enforcement
<1>5. \A fact : Attested(t, fact).status \in {"attested", "fail"}
  BY DEF Attested, Is
<1>6. t.ci = "github-actions" =>
        HasEvent(hit, "pull_request", t.ci) = IF "pull_request" \in hit.events THEN "yes" ELSE "no"
  BY DEF HasEvent
<1>7. open = {} => HasEvent(hit, "pull_request", t.ci) = "yes"
  BY <1>2
<1>8. Is("fail").status = "fail" /\ Is("skipped").status = "skipped"
  BY DEF Is
<1> HIDE DEF hit, open
<1>9. Detect(r, t).status \in {"skipped", "fail", "attested"}
  BY <1>1, <1>4, <1>5, <1>8
<1>10. ASSUME Detect(r, t).status = "attested"
       PROVE  /\ t.ci # "none" /\ Hits(t, "gate") # {} /\ hit.pinned
              /\ HasEvent(hit, "pull_request", t.ci) # "no"
  BY <1>1, <1>4, <1>7, <1>8, <1>10
<1> QED BY <1>6, <1>9, <1>10 DEF hit

\* A path filter that the other rule passes covers what the gate verifies.
LEMMA PathsCovered ==
    ASSUME NEW t, NEW r, PathsRule(r), Detect(r, t).status \in {"pass", "attested"}
    PROVE  /\ Detect(r, t).status = "pass" /\ Hits(t, "gate") # {}
           /\ \A path \in Vendored(t) : Hit(t, "gate").filter = {} \/ path \in Hit(t, "gate").filter
<1>1. Detect(r, t) = IF t.ci = "none" THEN Is("skipped") ELSE Lockstep(r, t)
  BY DEF Detect, PathsRule
<1> QED BY <1>1 DEF Lockstep, Decide, Is, PathsRule, Vendored

\* A mandatory rule is never waived: its status is what was detected, or fail.
LEMMA MandatoryStatus ==
    ASSUME NEW t, NEW rules, NEW i \in DOMAIN rules, rules[i].severity = "mandatory"
    PROVE  Evaluate(t, rules)[i].status \in {Detect(rules[i], t).status, "fail"}
BY DEF Evaluate, Is

\* The one pipeline that both rules of the gate speak of.
OnePipeline(t) ==
    \E k \in DOMAIN t.pipelines :
        LET p == t.pipelines[k]
        IN  /\ "gate" \in p.mentions /\ p.pinned
            /\ \A path \in Vendored(t) : Verifies(t, p, path) \/ Unread(p, path)

\* What the statuses of an audit say of the tree, by the rules alone.
LEMMA GateFromResults ==
    ASSUME ConformanceConstants, GateRules,
           NEW c, NEW branch,
           NEW t, t.pipelines \in Seq(Range(t.pipelines)),
           NEW results, ResultsOf(t, results), TrueResults(c, t, branch, results),
           NEW i \in DOMAIN results, results[i].id = "gate-wired", results[i].status = "pass",
           NEW j \in DOMAIN results, results[j].id = "gate-paths-lockstep", results[j].status = "pass"
    PROVE  /\ LET r == results[i]
              IN  /\ r.how = "verified"
                  /\ \/ InForce(c, t, r.by, Asked(branch), r.fact)
                     \/ Lookalike(c, t, r.by, branch, r.fact)
           /\ OnePipeline(t)
<1>1. PICK extra \in PublisherRules :
         LET rules == RulesIn(extra)
         IN  /\ WellFormed(rules)
             /\ DOMAIN results = DOMAIN rules
             /\ \A k \in DOMAIN rules : ResultOf(Evaluate(t, rules)[k], results[k])
  BY DEF ResultsOf
<1> DEFINE rules == RulesIn(extra)
           found(k) == Evaluate(t, rules)[k]
<1>2. /\ DOMAIN CoreRules \subseteq DOMAIN rules
      /\ \A k \in DOMAIN CoreRules : rules[k] = CoreRules[k]
  BY RulesSequence
<1>3. \A k, l \in DOMAIN rules : rules[k].id = rules[l].id => k = l
  BY <1>1 DEF WellFormed
<1>4. \A k \in DOMAIN rules : ResultOf(found(k), results[k])
  BY <1>1
<1>5. \A k \in DOMAIN rules : results[k].id = rules[k].id
  <2> SUFFICES ASSUME NEW k \in DOMAIN rules PROVE results[k].id = rules[k].id
    OBVIOUS
  <2>1. found(k).id = rules[k].id
    BY DEF Evaluate
  <2>2. ResultOf(found(k), results[k])
    BY <1>4
  <2> DEFINE f == found(k)
             r == results[k]
  <2> HIDE DEF found, f, r
  <2>3. ResultOf(f, r) => r.id = f.id
    BY DEF ResultOf
  <2> QED BY <2>1, <2>2, <2>3 DEF f, r
<1> HIDE DEF rules
<1>6. GateRule(rules[i])
  BY <1>1, <1>2, <1>3, <1>5 DEF GateRules, GateRule, rules
<1>7. PathsRule(rules[j])
  BY <1>1, <1>2, <1>3, <1>5 DEF GateRules, PathsRule, rules
<1>8. i \in DOMAIN rules /\ j \in DOMAIN rules
  BY <1>1 DEF rules
<1>9. /\ found(i).status \in {Detect(rules[i], t).status, "fail"}
      /\ found(j).status \in {Detect(rules[j], t).status, "fail"}
  BY <1>6, <1>7, <1>8, MandatoryStatus DEF GateRule, PathsRule
<1>10. \A k \in DOMAIN rules :
          results[k].status = "pass" =>
             \/ found(k).status = "pass"
             \/ found(k).status = "attested" /\ results[k].how = "verified"
  <2> HIDE DEF found
  <2> QED BY <1>4 DEF ResultOf
<1> HIDE DEF found
<1>11. Detect(rules[i], t).status \in {"skipped", "fail", "attested"}
  BY <1>6, GateAttested
<1>12. Detect(rules[i], t).status = "attested" /\ results[i].how = "verified"
  BY <1>8, <1>9, <1>10, <1>11
<1>13. /\ t.ci # "none" /\ Hits(t, "gate") # {} /\ Hit(t, "gate").pinned
       /\ t.ci = "github-actions" => "pull_request" \in Hit(t, "gate").events
  BY <1>6, <1>12, GateAttested
<1>14. Detect(rules[j], t).status \in {"pass", "attested"}
  BY <1>8, <1>9, <1>10
<1>15. \A path \in Vendored(t) :
          Hit(t, "gate").filter = {} \/ path \in Hit(t, "gate").filter
  BY <1>7, <1>14, PathsCovered
<1>16. PICK k \in DOMAIN t.pipelines :
          "gate" \in t.pipelines[k].mentions /\ Hit(t, "gate") = t.pipelines[k]
  BY <1>13, HitRuns
<1>17. OnePipeline(t)
  <2> DEFINE p == t.pipelines[k]
  <2>1. p.pinned /\ (t.ci = "github-actions" => "pull_request" \in p.events)
    BY <1>13, <1>16
  <2>2. \A path \in Vendored(t) : p.filter = {} \/ path \in p.filter
    BY <1>15, <1>16
  <2>3. "gate" \in p.mentions
    BY <1>16
  <2> HIDE DEF p
  <2>4. \A path \in Vendored(t) : Verifies(t, p, path) \/ Unread(p, path)
    BY <2>1, <2>2 DEF Verifies, Unread
  <2> QED BY <2>1, <2>3, <2>4 DEF OnePipeline, p
<1>18. TrueResult(c, t, branch, results[i])
  BY DEF TrueResults
<1> QED BY <1>12, <1>17, <1>18 DEF TrueResult

(* Where both rules of the gate pass, a vendored path reaches main without   *)
(* the gate only by what no rule reads of the one pipeline both found, or by *)
(* a control that looks like the gate's: for any rules the publisher adds    *)
(* and any trees and platforms (conformance.go:446, :495, cmds.go:787).      *)
THEOREM GateVouched ==
    ASSUME GateRules
    PROVE  Spec => []GateVouchedFor
<1> USE ConformanceConstants
<1>1. Init => TrueInv
  BY DEF Init, TrueInv
<1>2. AuditInv /\ TrueInv /\ [Next]_vars => TrueInv'
  BY TrueStep
<1>3. AuditInv /\ TrueInv => GateVouchedFor
  <2> SUFFICES ASSUME AuditInv, TrueInv, NEW c \in DOMAIN docs,
                      NEW i \in DOMAIN docs[c].results,
                      docs[c].results[i].id = "gate-wired", docs[c].results[i].status = "pass",
                      NEW j \in DOMAIN docs[c].results,
                      docs[c].results[j].id = "gate-paths-lockstep", docs[c].results[j].status = "pass"
               PROVE  LET d == docs[c]  r == d.results[i]
                      IN  /\ r.how = "verified"
                          /\ \/ InForce(c, d.seen, r.by, Asked(d.branch), r.fact)
                             \/ Lookalike(c, d.seen, r.by, d.branch, r.fact)
                          /\ OnePipeline(d.seen)
    BY DEF GateVouchedFor, OnePipeline
  <2>1. /\ docs[c].seen.pipelines \in Seq(Range(docs[c].seen.pipelines))
        /\ ResultsOf(docs[c].seen, docs[c].results)
        /\ TrueResults(c, docs[c].seen, docs[c].branch, docs[c].results)
    BY DEF AuditInv, DocsInv, TrueInv, ConformanceConstants
  <2> DEFINE t == docs[c].seen
             branch == docs[c].branch
             results == docs[c].results
  <2>2. /\ t.pipelines \in Seq(Range(t.pipelines))
        /\ ResultsOf(t, results) /\ TrueResults(c, t, branch, results)
        /\ i \in DOMAIN results /\ results[i].id = "gate-wired" /\ results[i].status = "pass"
        /\ j \in DOMAIN results /\ results[j].id = "gate-paths-lockstep" /\ results[j].status = "pass"
    BY <2>1
  <2> HIDE DEF t, branch, results
  <2>3. /\ LET r == results[i]
           IN  /\ r.how = "verified"
               /\ \/ InForce(c, t, r.by, Asked(branch), r.fact)
                  \/ Lookalike(c, t, r.by, branch, r.fact)
        /\ OnePipeline(t)
    BY <2>2, GateFromResults
  <2> QED BY <2>3 DEF t, branch, results
<1> QED BY <1>1, <1>2, <1>3, AuditHolds, PTL DEF Spec

-----------------------------------------------------------------------------
(* The fleet report.                                                         *)
\* The worst status of a document is that of a gap exactly where it has one.
LEMMA RowRank ==
    ASSUME ConformanceConstants, DocsInv, NEW c \in DOMAIN docs
    PROVE  /\ Row(c).gaps \in Nat
           /\ Row(c).gaps > 0 <=> StatusRank(Row(c).worst) >= 4
<1> DEFINE results == docs[c].results
           ranks == {StatusRank(results[i].status) : i \in DOMAIN results} \union {0}
           worst == WorstStatus(results)
<1>1. PICK extra \in PublisherRules : DOMAIN results = 1..Len(RulesIn(extra)) /\ Len(RulesIn(extra)) \in Nat
  BY RulesSequence DEF DocsInv, ResultsOf
<1>2. IsFiniteSet(Gaps(results))
  <2>1. IsFiniteSet(DOMAIN results)
    BY <1>1, FS_Interval
  <2>2. Gaps(results) \in SUBSET DOMAIN results
    BY DEF Gaps
  <2> QED BY <2>1, <2>2, FS_Subset
<1>3. Cardinality(Gaps(results)) \in Nat /\ (Cardinality(Gaps(results)) = 0 <=> Gaps(results) = {})
  BY <1>2, FS_CardinalityType, FS_EmptySet
<1> HIDE DEF results
<1>4. \A status : /\ StatusRank(status) \in 0..5
                  /\ StatusRank(status) >= 4 <=> status \in {"fail", "error"}
  BY DEF StatusRank
<1>5. ranks \subseteq 0..5 /\ 0 \in ranks
  BY <1>4
<1>6. \E s \in Statuses : \A k \in ranks : StatusRank(s) \in ranks /\ k <= StatusRank(s)
  <2>1. /\ StatusRank("error") = 5 /\ StatusRank("fail") = 4 /\ StatusRank("attested") = 3
        /\ StatusRank("skipped") = 2 /\ StatusRank("waived") = 1 /\ StatusRank("pass") = 0
    BY DEF StatusRank
  <2> HIDE DEF ranks
  <2>2. \E m \in ranks : \A k \in ranks : k <= m
    <3>1. CASE 5 \in ranks
      BY <1>5, <3>1
    <3>2. CASE 5 \notin ranks /\ 4 \in ranks
      BY <1>5, <3>2
    <3>3. CASE 5 \notin ranks /\ 4 \notin ranks /\ 3 \in ranks
      BY <1>5, <3>3
    <3>4. CASE 5 \notin ranks /\ 4 \notin ranks /\ 3 \notin ranks /\ 2 \in ranks
      BY <1>5, <3>4
    <3>5. CASE 5 \notin ranks /\ 4 \notin ranks /\ 3 \notin ranks /\ 2 \notin ranks
      BY <1>5, <3>5
    <3> QED BY <3>1, <3>2, <3>3, <3>4, <3>5
  <2>3. PICK m \in ranks : \A k \in ranks : k <= m
    BY <2>2
  <2>4. \E s \in Statuses : StatusRank(s) = m
    BY <1>5, <2>1, <2>3 DEF Statuses
  <2> QED BY <2>3, <2>4
<1>7. \A k \in ranks : StatusRank(worst) \in ranks /\ k <= StatusRank(worst)
  <2>1. worst = CHOOSE s \in Statuses : \A k \in ranks : StatusRank(s) \in ranks /\ k <= StatusRank(s)
    BY DEF WorstStatus
  <2> HIDE DEF ranks, worst
  <2> QED BY <1>6, <2>1
<1>8. Gaps(results) # {} <=> StatusRank(worst) >= 4
  <2> HIDE DEF worst
  <2>1. ASSUME NEW i \in DOMAIN results, IsGap(results[i].status) PROVE StatusRank(worst) >= 4
    <3>1. StatusRank(results[i].status) \in ranks /\ StatusRank(results[i].status) >= 4
      BY <1>4, <2>1 DEF IsGap
    <3> HIDE DEF ranks
    <3> QED BY <1>4, <1>5, <1>7, <3>1
  <2>2. ASSUME StatusRank(worst) >= 4 PROVE \E i \in DOMAIN results : IsGap(results[i].status)
    <3>1. PICK i \in DOMAIN results : StatusRank(results[i].status) = StatusRank(worst)
      BY <1>5, <1>7, <2>2
    <3> QED BY <1>4, <2>2, <3>1 DEF IsGap
  <2> QED BY <2>1, <2>2 DEF Gaps
<1>9. Row(c).gaps = Cardinality(Gaps(results)) /\ Row(c).worst = worst
  BY DEF Row, results
<1> QED BY <1>3, <1>8, <1>9

(* No consumer with a gap stands behind one without, for any documents:      *)
(* statuses that rank above the others are those counted as gaps, so sorting *)
(* by the one puts the other first too (fleet.go:38, conformance.go:112).    *)
THEOREM WorstFirst == Spec => []OffendersFirst
<1> USE ConformanceConstants
<1>1. Init => OffendersFirst
  BY DEF Init, OffendersFirst
<1>2. ASSUME AuditInv, OffendersFirst, [Next]_vars PROVE OffendersFirst'
  <2>1. CASE Aggregate
    <3> DEFINE rows == {Row(c) : c \in DOMAIN docs}
    <3>1. fleet' \in Ranked(rows)
      BY <2>1 DEF Aggregate
    <3>2. \A a \in rows : a.gaps \in Nat /\ (a.gaps > 0 <=> StatusRank(a.worst) >= 4)
      BY <1>2, RowRank DEF AuditInv
    <3>3. \A a : StatusRank(a.worst) \in 0..5
      BY DEF StatusRank
    <3> HIDE DEF rows
    <3>4. \A i \in DOMAIN fleet' : fleet'[i] \in rows
      BY <3>1 DEF Ranked, Bijection, Injection
    <3>5. \A i, j \in DOMAIN fleet' : i < j => Before(fleet'[i], fleet'[j])
      BY <3>1 DEF Ranked
    <3>6. \A a, b \in rows : Before(a, b) => StatusRank(a.worst) >= StatusRank(b.worst)
      BY <3>3 DEF Before
    <3>7. \A a, b \in rows : Before(a, b) /\ b.gaps > 0 => a.gaps > 0
      BY <3>2, <3>3, <3>6
    <3> QED BY <3>4, <3>5, <3>7 DEF OffendersFirst
  <2>2. CASE ~Aggregate
    <3>1. UNCHANGED fleet
      BY <1>2, <2>2 DEF Next, vars, Commit, Reconfigure, Audit, Ask, HandlerFails, Report
    <3> QED BY <1>2, <3>1 DEF OffendersFirst
  <2> QED BY <2>1, <2>2
<1>3. AuditInv /\ OffendersFirst /\ [Next]_vars => OffendersFirst'
  BY <1>2
<1> QED BY <1>1, <1>3, AuditHolds, PTL DEF Spec

-----------------------------------------------------------------------------
(* The oracle.                                                               *)
\* After a sync what is exported arrived as the profile of now localises it;
\* what --write wrote is what the tree of now arrives as.
SyncedInv ==
    synced =>
        /\ \A rel \in Exported(pub) : ProfileInScope(pub, profile, rel) => rel \in DOMAIN copies
        /\ \A rel \in Exported(pub) \intersect DOMAIN copies : copies[rel] = Arrives(pub, rel, profile)

WrittenInv == written => expected = Written(pub)

\* What was advised is of the tree of now.
AdvisedInv ==
    advice # NoAdvice => advice = [i \in DOMAIN pub.adapters |-> Advice(pub, pub.adapters[i])]

OracleInv == pub \in Publishers /\ SyncedInv /\ WrittenInv /\ AdvisedInv

LEMMA OracleStep == ASSUME OracleInv, [LNext]_lvars PROVE OracleInv'
<1>1. CASE Edit
  BY <1>1 DEF Edit, OracleInv, SyncedInv, WrittenInv, AdvisedInv
<1>2. CASE Generate
  <2>1. UNCHANGED <<pub, expected, profile, copies, written, synced>>
        /\ advice' = [i \in DOMAIN pub.adapters |-> Advice(pub, pub.adapters[i])]
    BY <1>2 DEF Generate
  <2> QED BY <2>1 DEF OracleInv, SyncedInv, WrittenInv, AdvisedInv
<1>3. CASE WriteExpected
  <2>1. UNCHANGED <<pub, profile, copies, synced, advice>> /\ expected' = Written(pub)
    BY <1>3 DEF WriteExpected
  <2> QED BY <2>1 DEF OracleInv, SyncedInv, WrittenInv, AdvisedInv
<1>4. CASE Author
  <2>1. UNCHANGED <<pub, profile, copies, synced, advice>> /\ ~written'
    BY <1>4 DEF Author
  <2> QED BY <2>1 DEF OracleInv, SyncedInv, WrittenInv, AdvisedInv
<1>5. CASE Bind
  <2>1. UNCHANGED <<pub, expected, written, advice>> /\ ~synced'
    BY <1>5 DEF Bind
  <2> QED BY <2>1 DEF OracleInv, SyncedInv, WrittenInv, AdvisedInv
<1>6. CASE Sync
  <2> DEFINE offered == {rel \in Exported(pub) : ProfileInScope(pub, profile, rel)}
             visited == offered \union (DOMAIN copies \intersect Exported(pub))
  <2>1. /\ UNCHANGED <<pub, expected, profile, written, advice>>
        /\ copies' = [rel \in visited \union DOMAIN copies |->
                        IF rel \in visited THEN Arrives(pub, rel, profile) ELSE copies[rel]]
    BY <1>6 DEF Sync
  <2>2. \A rel \in Exported(pub) :
           /\ ProfileInScope(pub, profile, rel) => rel \in DOMAIN copies'
           /\ rel \in DOMAIN copies' => copies'[rel] = Arrives(pub, rel, profile)
    BY <2>1
  <2>3. SyncedInv'
    BY <2>1, <2>2 DEF SyncedInv
  <2> QED BY <2>1, <2>3 DEF OracleInv, WrittenInv, AdvisedInv
<1>7. CASE Touch
  <2>1. UNCHANGED <<pub, expected, written, advice>> /\ ~synced'
    BY <1>7 DEF Touch
  <2> QED BY <2>1 DEF OracleInv, SyncedInv, WrittenInv, AdvisedInv
<1>8. CASE UNCHANGED lvars
  BY <1>8 DEF lvars, OracleInv, SyncedInv, WrittenInv, AdvisedInv
<1> QED
  BY <1>1, <1>2, <1>3, <1>4, <1>5, <1>6, <1>7, <1>8 DEF LNext

LEMMA OracleHolds == LSpec => []OracleInv
<1>1. LInit => OracleInv
  BY DEF LInit, OracleInv, SyncedInv, WrittenInv, AdvisedInv
<1> QED BY <1>1, OracleStep, PTL DEF LSpec

\* A consumer that has what arrives is read as the publisher reads itself.
LEMMA SameActual ==
    ASSUME OracleInv, synced PROVE ConsumerActual(pub, profile) = Actual(pub, profile)
<1> DEFINE arrived == {rel \in Rules(pub) : ProfileInScope(pub, profile, rel)
                                           /\ Arrives(pub, rel, profile) # NoField}
           read == {rel \in Rules(pub) \intersect DOMAIN copies :
                       ProfileInScope(pub, profile, rel) /\ copies[rel] # NoField}
<1>1. \A rel \in Rules(pub) :
         /\ ProfileInScope(pub, profile, rel) => rel \in DOMAIN copies
         /\ rel \in DOMAIN copies => copies[rel] = Arrives(pub, rel, profile)
  BY DEF OracleInv, SyncedInv, Rules
<1>2. read = arrived
  BY <1>1
<1>3. \A rel \in read : copies[rel] = Arrives(pub, rel, profile)
  BY <1>1
<1>4. /\ ConsumerActual(pub, profile) = [rel \in read |-> copies[rel]]
      /\ Actual(pub, profile) = [rel \in arrived |-> Arrives(pub, rel, profile)]
  BY DEF ConsumerActual, Actual
<1> HIDE DEF read, arrived
<1> QED BY <1>2, <1>3, <1>4

(* Through rebinding, dropped rules and copies that left the scope, a        *)
(* consumer that has just synced is verified as its publisher is for its     *)
(* profile; and after --write there is nothing to find (localisation.go:331, *)
(* :435).  For any trees, profiles and expectations.                         *)
THEOREM OracleHonest == LSpec => []OracleAgrees
<1>1. OracleInv => OracleAgrees
  <2> SUFFICES ASSUME OracleInv PROVE OracleAgrees
    OBVIOUS
  <2>1. ASSUME synced PROVE VerifyConsumer = VerifyPublisher({profile})
    <3>1. VerifyConsumer = Compare(profile, Actual(pub, profile))
      BY <2>1, SameActual DEF VerifyConsumer
    <3> QED BY <3>1 DEF VerifyPublisher
  <2>2. ASSUME written PROVE VerifyPublisher(Every) = {}
    <3>1. expected = [p \in DOMAIN pub.profiles |-> Actual(pub, p)]
      BY <2>2 DEF OracleInv, WrittenInv, Written
    <3>2. \A p \in Every : p \in DOMAIN expected /\ expected[p] = Actual(pub, p)
      BY <3>1 DEF Every
    <3>3. \A p \in Every : Compare(p, Actual(pub, p)) = {}
      BY <3>2 DEF Compare
    <3> QED BY <3>3 DEF VerifyPublisher
  <2> QED BY <2>1, <2>2 DEF OracleAgrees
<1> QED BY <1>1, OracleHolds, PTL

-----------------------------------------------------------------------------
(* The advisories.                                                           *)
\* Where no two adapters match, the one that matches decides what arrives.
LEMMA OneAdapter ==
    ASSUME LocalisationConstants, pub \in Publishers, NEW rel \in DOMAIN pub.rules,
           ~Clash(pub, DOMAIN pub.rules), NEW i \in AdaptersFor(pub, rel), NEW p
    PROVE  Arrives(pub, rel, p) = Localise(pub.adapters[i], pub.rules[rel], p)
<1> DEFINE hits == AdaptersFor(pub, rel)
           S == ToSet(pub.adapters)
<1>1. IsFiniteSet(hits)
  <2>1. pub.adapters \in Seq(S)
    BY DEF LocalisationConstants
  <2> HIDE DEF S
  <2>2. DOMAIN pub.adapters = 1..Len(pub.adapters) /\ Len(pub.adapters) \in Nat
    BY <2>1
  <2>3. hits \in SUBSET DOMAIN pub.adapters
    BY DEF AdaptersFor
  <2> DEFINE n == Len(pub.adapters)
  <2>4. 1 \in Int /\ n \in Int
    BY <2>2
  <2>5. DOMAIN pub.adapters = 1..n
    BY <2>2
  <2> HIDE DEF n
  <2>6. IsFiniteSet(1..n)
    BY <2>4, FS_Interval
  <2>7. IsFiniteSet(DOMAIN pub.adapters)
    BY <2>5, <2>6
  <2> HIDE DEF hits
  <2> QED BY <2>3, <2>7, FS_Subset
<1>2. ~(Cardinality(hits) > 1)
  BY DEF Clash
<1>3. Cardinality(hits) \in Nat /\ Cardinality(hits) # 0
  BY <1>1, FS_CardinalityType, FS_EmptySet
<1>4. Cardinality(hits) = 1
  BY <1>2, <1>3
<1>5. \E x : hits = {x}
  BY <1>1, <1>4, FS_Singleton
<1>6. hits = {i}
  BY <1>5
<1>7. (CHOOSE k \in hits : TRUE) = i
  BY <1>6
<1> QED BY <1>6, <1>7 DEF Arrives

\* The k-th of a set of numbers is the only one with k of them up to it.
LEMMA Position ==
    ASSUME NEW at, IsFiniteSet(at), at \subseteq Nat, NEW n \in at
    PROVE  /\ Cardinality({m \in at : m <= n}) \in 1..Cardinality(at)
           /\ (CHOOSE l \in at : Cardinality({m \in at : m <= l})
                                   = Cardinality({m \in at : m <= n})) = n
<1> DEFINE upto(l) == {m \in at : m <= l}
<1>1. \A l \in at : /\ IsFiniteSet(upto(l)) /\ Cardinality(upto(l)) \in Nat
                    /\ Cardinality(upto(l)) <= Cardinality(at)
  <2> TAKE l \in at
  <2>1. upto(l) \in SUBSET at
    OBVIOUS
  <2> HIDE DEF upto
  <2> QED BY <2>1, FS_Subset, FS_CardinalityType
<1>2. Cardinality(upto(n)) # 0
  <2>1. n \in upto(n)
    OBVIOUS
  <2> HIDE DEF upto
  <2> QED BY <1>1, <2>1, FS_EmptySet
<1>3. \A l \in at : Cardinality(upto(l)) = Cardinality(upto(n)) => l = n
  <2>3. \A m \in at : m \in Nat
    OBVIOUS
  <2> SUFFICES ASSUME NEW l \in at, Cardinality(upto(l)) = Cardinality(upto(n)) PROVE l = n
    OBVIOUS
  <2>1. CASE l < n
    <3>1. \A m \in at : m <= l => m <= n
      BY <2>1, <2>3
    <3>2. upto(l) \in SUBSET upto(n)
      BY <3>1
    <3>3. n \in upto(n) /\ n \notin upto(l)
      BY <2>1, <2>3
    <3> HIDE DEF upto
    <3> QED BY <1>1, <3>2, <3>3, FS_Subset
  <2>2. CASE n < l
    <3>1. \A m \in at : m <= n => m <= l
      BY <2>2, <2>3
    <3>2. upto(n) \in SUBSET upto(l)
      BY <3>1
    <3>3. l \in upto(l) /\ l \notin upto(n)
      BY <2>2, <2>3
    <3> HIDE DEF upto
    <3> QED BY <1>1, <3>2, <3>3, FS_Subset
  <2> QED BY <2>1, <2>2
<1>4. Cardinality(at) \in Nat
  BY FS_CardinalityType
<1>5. (CHOOSE l \in at : Cardinality(upto(l)) = Cardinality(upto(n))) = n
  <2> HIDE DEF upto
  <2> QED BY <1>3
<1>6. Cardinality(upto(n)) \in 1..Cardinality(at)
  <2> HIDE DEF upto
  <2> QED BY <1>1, <1>2, <1>4
<1> QED BY <1>5, <1>6

\* Every glob at a place that is kept is kept.
LEMMA KeptHas ==
    ASSUME NEW S, NEW list \in Seq(S), NEW at \in SUBSET DOMAIN list, NEW n \in at
    PROVE  list[n] \in ToSet(Kept(list, at))
<1>1. IsFiniteSet(DOMAIN list) /\ DOMAIN list \subseteq Nat
  <2>1. DOMAIN list = 1..Len(list) /\ Len(list) \in Nat
    OBVIOUS
  <2> QED BY <2>1, FS_Interval
<1>2. IsFiniteSet(at) /\ at \subseteq Nat
  BY <1>1, FS_Subset
<1> DEFINE k == Cardinality({m \in at : m <= n})
<1>3. k \in 1..Cardinality(at) /\ Kept(list, at)[k] = list[n]
  BY <1>2, Position DEF Kept
<1>4. DOMAIN Kept(list, at) = 1..Cardinality(at)
  BY DEF Kept
<1> HIDE DEF k
<1> QED BY <1>3, <1>4 DEF ToSet

\* The tree with one glob taken out of one catalogue differs in that alone.
LEMMA WithoutFacts ==
    ASSUME LocalisationConstants, NEW t \in Publishers, NEW i \in DOMAIN t.adapters, NEW g
    PROVE  /\ Without(t, i, g).rules = t.rules
           /\ DOMAIN Without(t, i, g).adapters = DOMAIN t.adapters
           /\ \A j \in DOMAIN t.adapters \ {i} : Without(t, i, g).adapters[j] = t.adapters[j]
           /\ Without(t, i, g).adapters[i].match = t.adapters[i].match
           /\ Without(t, i, g).adapters[i].catalogue
                = [q \in DOMAIN t.adapters[i].catalogue |-> t.adapters[i].catalogue[q] \ {g}]
<1> DEFINE a == t.adapters[i]
           less == [q \in DOMAIN a.catalogue |-> a.catalogue[q] \ {g}]
           b == [a EXCEPT !.catalogue = less]
           adapters == [t.adapters EXCEPT ![i] = b]
<1>1. DOMAIN a = {"match", "catalogue"}
  BY DEF LocalisationConstants, ToSet
<1>2. DOMAIN t = {"profiles", "adapters", "rules", "seeds"}
  BY DEF LocalisationConstants
<1>3. Without(t, i, g) = [t EXCEPT !.adapters = adapters]
  BY DEF Without
<1>4. b.match = a.match /\ b.catalogue = less
  <2> HIDE DEF a, less
  <2> QED BY <1>1
<1> HIDE DEF b
<1>5. /\ DOMAIN adapters = DOMAIN t.adapters /\ adapters[i] = b
      /\ \A j \in DOMAIN t.adapters \ {i} : adapters[j] = t.adapters[j]
  OBVIOUS
<1> HIDE DEF adapters
<1>6. Without(t, i, g).adapters = adapters /\ Without(t, i, g).rules = t.rules
  BY <1>2, <1>3
<1> QED BY <1>4, <1>5, <1>6

\* An orphan may be dropped from the catalogue: no file of any profile changes.
LEMMA OrphansIdle ==
    ASSUME LocalisationConstants, NEW t \in Publishers, NEW i \in DOMAIN t.adapters,
           NEW g \in Orphans(t, t.adapters[i]), NEW rel \in DOMAIN t.rules, NEW p
    PROVE  Arrives(Without(t, i, g), rel, p) = Arrives(t, rel, p)
<1> DEFINE w == Without(t, i, g)
           hits == AdaptersFor(t, rel)
           j == CHOOSE k \in hits : TRUE
<1> DEFINE a == t.adapters[i]
           b == w.adapters[i]
<1>5. /\ w.rules = t.rules /\ DOMAIN w.adapters = DOMAIN t.adapters
      /\ \A k \in DOMAIN t.adapters \ {i} : w.adapters[k] = t.adapters[k]
      /\ b.match = a.match
      /\ b.catalogue = [q \in DOMAIN a.catalogue |-> a.catalogue[q] \ {g}]
  BY WithoutFacts
<1> HIDE DEF w
<1>1. AdaptersFor(w, rel) = hits
  BY <1>5 DEF AdaptersFor
<1>2. w.rules[rel] = t.rules[rel]
  BY <1>5
<1>3. CASE hits = {}
  <2>1. Arrives(w, rel, p) = Arrives(t, rel, p)
    BY <1>1, <1>2, <1>3 DEF Arrives
  <2> QED BY <2>1 DEF w
<1>4. CASE hits # {}
  <2>1. j \in hits /\ j \in DOMAIN t.adapters /\ rel \in t.adapters[j].match
    BY <1>4 DEF AdaptersFor
  <2>2. /\ Arrives(w, rel, p) = Localise(w.adapters[j], t.rules[rel], p)
        /\ Arrives(t, rel, p) = Localise(t.adapters[j], t.rules[rel], p)
    BY <1>1, <1>2, <1>4 DEF Arrives
  <2> HIDE DEF j, hits
  <2>3. CASE j # i
    BY <1>5, <2>1, <2>2, <2>3 DEF w
  <2>4. CASE j = i
    <3> DEFINE list == t.rules[rel]
    <3>1. list # NoField => \A n \in DOMAIN list : list[n] # g
      <4> SUFFICES ASSUME list # NoField, NEW n \in DOMAIN list, list[n] = g
                   PROVE  FALSE
        OBVIOUS
      <4>1. rel \in Matched(t, a)
        BY <2>1, <2>4 DEF Matched
      <4>2. g \in Carried(t, a)
        BY <4>1 DEF Carried, ToSet
      <4> QED BY <4>2 DEF Orphans
    <3>2. Localise(b, list, p) = Localise(a, list, p)
      <4> DEFINE kept(d) == {n \in DOMAIN list : Owners(d, list[n]) = {} \/ p \in Owners(d, list[n])}
      <4> HIDE DEF a, b, list
      <4>1. list # NoField => \A n \in DOMAIN list : Owners(b, list[n]) = Owners(a, list[n])
        BY <1>5, <3>1 DEF Owners
      <4>2. list # NoField => kept(b) = kept(a)
        BY <4>1
      <4> QED BY <4>2 DEF Localise
    <3>3. Arrives(w, rel, p) = Localise(b, list, p) /\ Arrives(t, rel, p) = Localise(a, list, p)
      BY <2>2, <2>4
    <3> QED BY <3>2, <3>3 DEF w
  <2> QED BY <2>3, <2>4
<1> QED BY <1>3, <1>4

\* A glob that no catalogue entry names is kept for everybody.
LEMMA UncataloguedReach ==
    ASSUME NEW a, NEW S, NEW list \in Seq(S), NEW g \in ToSet(list), g \notin Catalogued(a), NEW p
    PROVE  g \in ToSet(Localise(a, list, p))
<1> DEFINE at == {n \in DOMAIN list : Owners(a, list[n]) = {} \/ p \in Owners(a, list[n])}
<1>1. Owners(a, g) = {}
  BY DEF Owners, Catalogued, Range
<1>2. PICK n \in DOMAIN list : list[n] = g
  BY DEF ToSet
<1>3. n \in at /\ at \in SUBSET DOMAIN list
  BY <1>1, <1>2
<1>4. Localise(a, list, p) = list \/ Localise(a, list, p) = Kept(list, at)
  BY DEF Localise
<1> HIDE DEF at
<1>5. g \in ToSet(Kept(list, at))
  BY <1>2, <1>3, KeptHas
<1> QED BY <1>4, <1>5

(* The advisories mean what they say of what consumers receive, for any      *)
(* tree of adapters, rules and profiles: an orphan may be dropped, an        *)
(* uncatalogued glob reaches everybody in scope, and the rules reported      *)
(* empty are those whose globs all stay behind (localisation.go:75).         *)
THEOREM AdvisoriesMean == LSpec => []AdvisoriesSound
<1> USE LocalisationConstants
<1>1. OracleInv => AdvisoriesSound
  <2> SUFFICES ASSUME OracleInv, advice # NoAdvice, ~Clash(pub, DOMAIN pub.rules),
                      NEW i \in DOMAIN pub.adapters
               PROVE  LET a == pub.adapters[i]
                          known == DOMAIN pub.profiles \union DOMAIN a.catalogue
                          reached == {rel \in DOMAIN pub.rules : i \in AdaptersFor(pub, rel)}
                      IN  /\ \A g \in advice[i].orphans, rel \in DOMAIN pub.rules, p \in Names :
                                Arrives(Without(pub, i, g), rel, p) = Arrives(pub, rel, p)
                          /\ \A rel \in reached, p \in Names :
                                pub.rules[rel] # NoField =>
                                  \A g \in advice[i].uncatalogued \intersect ToSet(pub.rules[rel]) :
                                      g \in ToSet(Arrives(pub, rel, p))
                          /\ \A rel \in reached, p \in known :
                                <<rel, p>> \in advice[i].empty <=>
                                  /\ pub.rules[rel] \notin {NoField, <<>>}
                                  /\ ProfileInScope(pub, p, rel)
                                  /\ Arrives(pub, rel, p) = <<>>
    BY DEF AdvisoriesSound
  <2> DEFINE a == pub.adapters[i]
             known == DOMAIN pub.profiles \union DOMAIN a.catalogue
  <2>1. /\ advice[i].orphans = Orphans(pub, a)
        /\ advice[i].uncatalogued = Uncatalogued(pub, a)
        /\ advice[i].empty = Empty(pub, a)
    BY DEF OracleInv, AdvisedInv, Advice
  <2>2. pub \in Publishers
    BY DEF OracleInv
  <2>3. \A g \in advice[i].orphans, rel \in DOMAIN pub.rules, p \in Names :
           Arrives(Without(pub, i, g), rel, p) = Arrives(pub, rel, p)
    BY <2>1, <2>2, OrphansIdle
  <2>4. ASSUME NEW rel \in DOMAIN pub.rules, i \in AdaptersFor(pub, rel), NEW p
        PROVE  Arrives(pub, rel, p) = Localise(a, pub.rules[rel], p) /\ rel \in a.match
    BY <2>2, <2>4, OneAdapter DEF AdaptersFor
  <2>5. ASSUME NEW rel \in DOMAIN pub.rules, i \in AdaptersFor(pub, rel), NEW p \in Names,
               pub.rules[rel] # NoField,
               NEW g \in advice[i].uncatalogued \intersect ToSet(pub.rules[rel])
        PROVE  g \in ToSet(Arrives(pub, rel, p))
    <3>1. pub.rules[rel] \in Seq(ToSet(pub.rules[rel]))
      BY <2>2, <2>5 DEF LocalisationConstants
    <3>2. g \in ToSet(pub.rules[rel]) /\ g \notin Catalogued(a)
      BY <2>1, <2>5 DEF Uncatalogued
    <3> DEFINE S == ToSet(pub.rules[rel])
    <3>3. g \in ToSet(Localise(a, pub.rules[rel], p))
      <4>1. pub.rules[rel] \in Seq(S)
        BY <3>1
      <4> HIDE DEF S, a
      <4> QED BY <3>2, <4>1, UncataloguedReach
    <3> QED BY <2>4, <2>5, <3>3
  <2>6. ASSUME NEW rel \in DOMAIN pub.rules, i \in AdaptersFor(pub, rel), NEW p \in known
        PROVE  <<rel, p>> \in advice[i].empty <=>
                  /\ pub.rules[rel] \notin {NoField, <<>>}
                  /\ ProfileInScope(pub, p, rel)
                  /\ Arrives(pub, rel, p) = <<>>
    <3>1. Arrives(pub, rel, p) = Localise(a, pub.rules[rel], p) /\ rel \in a.match
      BY <2>4, <2>6
    <3>2. rel \in Matched(pub, a) <=> pub.rules[rel] # NoField
      BY <3>1 DEF Matched
    <3>3. <<rel, p>> \in Empty(pub, a) <=>
            /\ rel \in Matched(pub, a) /\ p \in known
            /\ pub.rules[rel] # <<>>
            /\ ProfileInScope(pub, p, rel)
            /\ Localise(a, pub.rules[rel], p) = <<>>
      BY DEF Empty
    <3> QED BY <2>1, <3>1, <3>2, <3>3
  <2> QED BY <2>3, <2>5, <2>6
<1> QED BY <1>1, OracleHolds, PTL

=============================================================================
