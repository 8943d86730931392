---------------------------- MODULE MCConformance ----------------------------
(***************************************************************************)
(* One consumer on GitHub and one on Azure DevOps, under the core rules    *)
(* and a publisher's own.                                                  *)
(***************************************************************************)
EXTENDS Conformance, TLC

CONSTANTS own, other, dev

Wiring(id, component, events, required) ==
    [id |-> id, severity |-> "mandatory", kind |-> "pipeline-wired", component |-> component,
     pinned |-> TRUE, events |-> events, required |-> required]

\* conformance/core-rules.yml, one rule of each kind and every rule of the gate.
Rules == <<
    [id |-> "manifest-committed", severity |-> "mandatory", kind |-> "file-exists", path |-> "manifest"],
    Wiring("gate-wired", "gate", <<"pull_request">>, TRUE),
    Wiring("sync-wired", "sync", <<"schedule">>, FALSE),
    [id |-> "control-plane-owned", severity |-> "waivable", kind |-> "codeowners-covers",
     patterns |-> {"control"}],
    [id |-> "branch-protected", severity |-> "mandatory", kind |-> "attest",
     attestation |-> "branch_protection_enabled"],
    [id |-> "gate-paths-lockstep", severity |-> "mandatory", kind |-> "paths-lockstep",
     component |-> "gate"],
    [id |-> "profile-bound", severity |-> "waivable", kind |-> "profile-bound"]>>

\* A publisher's rules: none found, two of its own, one that repeats a core id.
Extra == <<
    [id |-> "style", severity |-> "advisory", kind |-> "tool", path |-> "check"],
    [id |-> "charter", severity |-> "waivable", kind |-> "manifest-tracked", path |-> "p"],
    [id |-> "newer", severity |-> "advisory", kind |-> "from-a-later-release"]>>
Twice == <<[id |-> "gate-wired", severity |-> "waivable", kind |-> "profile-bound"]>>
RuleSets == {<<>>, Extra, Twice}

Pipe(runs, events, filter) ==
    [runs |-> runs, mentions |-> runs, pinned |-> TRUE, events |-> events, filter |-> filter,
     ignores |-> {}, branches |-> {}]
Gate    == Pipe({"gate"}, {"pull_request"}, {})
Sync    == Pipe({"sync"}, {"schedule"}, {})
Nightly == Pipe({"gate"}, {"schedule"}, {})
\* The gate in a comment of another pipeline; on the release branch, for other paths.
Comment == [Pipe({}, {"pull_request"}, {}) EXCEPT !.mentions = {"gate"}]
Partial == [Gate EXCEPT !.ignores = {"p"}, !.branches = {dev}]

Base(ci, scm) ==
    [ci |-> ci, scm |-> scm, profile |-> "web", waivers |-> {}, files |-> {"manifest", "check"},
     succeeds |-> {"check"}, manifest |-> [p |-> FALSE, s |-> TRUE],
     owners |-> <<{"control"}, {}>>, pipelines |-> <<Gate, Sync>>,
     attests |-> {"branch_protection_enabled", "required_check_enforced",
                  "pull_request_enforcement", "required_reviewers_policy"}]

\* Wired as scaffolded; a filtered gate and a nightly one; by hand, with waivers; an
\* unpinned gate first, nothing attested and a torn manifest; two gates that do not
\* run although their rules find them.
Hub == LET b == Base("github-actions", "github")
       IN  {b,
            [b EXCEPT !.pipelines = <<Pipe({"gate"}, {"pull_request"}, {"s"}), Nightly, Sync>>],
            [b EXCEPT !.ci = "none", !.pipelines = <<>>, !.profile = "",
                      !.waivers = {"profile-bound"}, !.files = {"manifest"}, !.owners = <<>>],
            [b EXCEPT !.attests = {}, !.manifest = NoManifest, !.succeeds = {},
                      !.pipelines = <<[Gate EXCEPT !.pinned = FALSE], Gate, Pipe({"sync"}, {}, {})>>,
                      !.waivers = {"branch-protected"}],
            [b EXCEPT !.pipelines = <<Comment, Gate, Sync>>],
            [b EXCEPT !.pipelines = <<Partial, Sync>>]}
Ado == LET b == Base("azure-pipelines", "azure-repos")
       IN  {b,
            [b EXCEPT !.pipelines = <<Pipe({"gate"}, {}, {"p"}), Sync>>],
            [b EXCEPT !.pipelines = <<>>, !.files = {}, !.manifest = NoManifest]}

Check == [name |-> "Build", runs |-> "gate", enabled |-> TRUE, blocking |-> TRUE,
          repo |-> own, branches |-> {Main}, paths |-> {}]
Owners == [Check EXCEPT !.name = "Required reviewers", !.runs = "none"]

\* Classic protection and rulesets of main; the development branch has neither.
HubSide(classic, rulesets, visible) ==
    [protection |-> (Main :> classic) @@ (dev :> Unprotected),
     rulesets |-> (Main :> rulesets) @@ (dev :> {}), visible |-> visible, policies |-> {}]
HubControls == {HubSide(Unprotected, {}, TRUE), HubSide({"gate"}, {}, TRUE), HubSide({"lint"}, {}, TRUE),
                HubSide({}, {"gate"}, TRUE), HubSide({"gate"}, {}, FALSE)}

\* The gate disabled; optional, with owners asked on the other branch; both
\* in force; another pipeline's build and any two reviewers; a sibling repository's.
AdoSide(policies) == [HubSide(Unprotected, {}, TRUE) EXCEPT !.policies = policies]
AdoControls == {AdoSide(q) : q \in
    {{[Check EXCEPT !.enabled = FALSE]},
     {[Check EXCEPT !.blocking = FALSE], [Owners EXCEPT !.branches = {dev}]},
     {Check, Owners},
     {[Check EXCEPT !.runs = "lint"], [Owners EXCEPT !.name = "Minimum number of reviewers"]},
     {[Check EXCEPT !.repo = other]}}}

Pair     == <<"hub", "ado">>
Checkout == [hub |-> Hub, ado |-> Ado]
Admin    == [hub |-> HubControls, ado |-> AdoControls]
Branches == {NoBranch, Main}
Repos    == [hub |-> own, ado |-> own]

=============================================================================
