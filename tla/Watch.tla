-------------------------------- MODULE Watch --------------------------------
(***************************************************************************)
(* The release watch: a scheduled job that compares every slice's pin with *)
(* the tags of its publisher and hands each finding to a handler, which    *)
(* keeps one open work item per key.                                       *)
(*                                                                         *)
(* A run reads the consumer's repository once, at checkout; it then visits *)
(* the slices in the order of their config files, listing a publisher's    *)
(* tags and, in a second request, reading the retractions of the newest    *)
(* one; it delivers findings only after the last slice, each by a search   *)
(* and then a comment or a create.  Tags, pins and items change in between *)
(* and any request may fail, which ends the run.                           *)
(***************************************************************************)
EXTENDS Versions, Sequences, FiniteSets

CONSTANTS
    Configs,        \* the slices, in the order of their config files
    Wired,          \* slices with a handoff handler
    Channel,        \* slice -> "stable" or "rc"
    Releases,       \* versions a publisher may tag
    Commits,        \* commits a tag may point at
    Retracts,       \* commit -> the retracted: list of its declaration
    Onboarded,      \* the release every slice is pinned at first
    Origin,         \* the commit of that release
    Runs,           \* runs that may be in flight together
    MaxMoves,       \* bound: tags moved or deleted
    MaxPins,        \* bound: changes of a pin by hand
    MaxCloses,      \* bound: items closed
    MaxFaults,      \* bound: requests that fail
    NoTag, Broken, NoRun, NoListing, NotAsked

Slices == {Configs[i] : i \in DOMAIN Configs}

ASSUME WatchConstants ==
    /\ Configs \in Seq(Slices)
    /\ \A i, j \in DOMAIN Configs : Configs[i] = Configs[j] => i = j
    /\ Wired \subseteq Slices
    /\ Channel \in [Slices -> {"stable", "rc"}]
    /\ Releases \subseteq VersionKey /\ Onboarded \in Releases /\ Origin \in Commits
    /\ Retracts \in [Commits -> SUBSET Releases]
    /\ {MaxMoves, MaxPins, MaxCloses, MaxFaults} \subseteq Nat
    /\ NoTag \notin Commits /\ Broken \notin Releases /\ NotAsked \notin Nat
    /\ IsFiniteSet(Runs)

VARIABLES
    tags,       \* publisher tags: slice -> release -> commit
    pin,        \* slice -> the release its pin file names, or Broken
    recorded,   \* slice -> source.release and source.commit of its manifest
    items,      \* key -> the work items ever made for it, oldest first
    runs,       \* the runs in flight
    count,      \* moves, pins, closes and faults so far (bounded)
    meant       \* history: every commit a tag ever pointed at

vars == <<tags, pin, recorded, items, runs, count, meant>>

Keys == Slices \X {"update", "integrity"}

\* Findings that become work: about names a tag's new commit or a newer release.
Finding == [slice : Slices, kind : {"pin-unreadable"}, pinned : {Broken}, about : {Broken}]
    \union [slice : Slices, kind : {"tag-moved"}, pinned : Releases, about : Commits]
    \union [slice : Slices, kind : {"update-available"}, pinned : Releases, about : Releases]

\* Integrity findings never share the update item.
Key(f) == <<f.slice, IF f.kind = "update-available" THEN "update" ELSE "integrity">>

Listed(listing) == {v \in Releases : listing[v] # NoTag}

\* The retractions in force: those of the newest tag's own declaration.
RetractedAtNewest(listing) == LET newest == Latest(Listed(listing), "rc", {})
                              IN  IF newest = NoVersion THEN {} ELSE Retracts[listing[newest]]

\* Mutant: any recorded commit is compared, whichever release it was recorded for.
MovedUnguarded(s, pinned, manifest, listing) ==
    IF listing[pinned] \in {NoTag, manifest.commit} THEN <<>>
    ELSE <<[slice |-> s, kind |-> "tag-moved", pinned |-> pinned, about |-> listing[pinned]]>>

\* The provenance check needs a manifest recorded for the pinned release itself.
Moved(s, pinned, manifest, listing) ==
    IF manifest.release # pinned \/ listing[pinned] \in {NoTag, manifest.commit} THEN <<>>
    ELSE <<[slice |-> s, kind |-> "tag-moved", pinned |-> pinned, about |-> listing[pinned]]>>

Update(s, pinned, latest) ==
    IF ~Less(pinned, latest) THEN <<>>
    ELSE <<[slice |-> s, kind |-> "update-available", pinned |-> pinned, about |-> latest]>>

\* Mutants: the update ahead of the moved tag; a moved tag instead of the update;
\* an early return for a pin that is up to date.
UpdateFirst(s, pinned, manifest, listing, retracted) ==
    LET latest == Latest(Listed(listing), Channel[s], retracted)
    IN  IF latest = NoVersion THEN <<>>
        ELSE Update(s, pinned, latest) \o Moved(s, pinned, manifest, listing)

MovedOrUpdate(s, pinned, manifest, listing, retracted) ==
    LET latest == Latest(Listed(listing), Channel[s], retracted)
        moved  == Moved(s, pinned, manifest, listing)
    IN  IF latest = NoVersion THEN <<>> ELSE IF moved # <<>> THEN moved ELSE Update(s, pinned, latest)

OnlyIfBehind(s, pinned, manifest, listing, retracted) ==
    LET latest == Latest(Listed(listing), Channel[s], retracted)
    IN  IF latest = NoVersion \/ ~Less(pinned, latest) THEN <<>>
        ELSE Moved(s, pinned, manifest, listing) \o Update(s, pinned, latest)

\* One slice's findings; with no qualifying release there is nothing to act on.
Findings(s, pinned, manifest, listing, retracted) ==
    LET latest == Latest(Listed(listing), Channel[s], retracted)
    IN  IF latest = NoVersion THEN <<>>
        ELSE Moved(s, pinned, manifest, listing) \o Update(s, pinned, latest)

Init ==
    /\ tags = [s \in Slices |-> [v \in Releases |-> IF v = Onboarded THEN Origin ELSE NoTag]]
    /\ pin = [s \in Slices |-> Onboarded]
    /\ recorded = [s \in Slices |-> [release |-> Onboarded, commit |-> Origin]]
    /\ items = [k \in Keys |-> <<>>]
    /\ runs = [n \in Runs |-> NoRun]
    /\ count = [moves |-> 0, pins |-> 0, closes |-> 0, faults |-> 0]
    /\ meant = [s \in Slices |-> [v \in Releases |-> IF v = Onboarded THEN {Origin} ELSE {}]]

-----------------------------------------------------------------------------
(* Publishers and the consumer's people. *)

Retag(s, v, c) ==
    /\ tags' = [tags EXCEPT ![s][v] = c]
    /\ meant' = IF c = NoTag THEN meant ELSE [meant EXCEPT ![s][v] = @ \union {c}]
    /\ UNCHANGED <<pin, recorded, items, runs>>

Publish(s, v, c) ==
    /\ tags[s][v] = NoTag /\ meant[s][v] = {}
    /\ Retag(s, v, c) /\ UNCHANGED count

\* c = NoTag deletes the tag; a deleted tag may come back somewhere else.
Tamper(s, v, c) ==
    /\ meant[s][v] # {} /\ tags[s][v] # c
    /\ count.moves < MaxMoves /\ count' = [count EXCEPT !.moves = @ + 1]
    /\ Retag(s, v, c)

\* A merged sync PR: the manifest records the release and its commit of the day,
\* and the pin advances with it where it still named the release left behind.
Adopt(s, v) ==
    /\ Less(recorded[s].release, v) /\ tags[s][v] # NoTag
    /\ pin' = IF pin[s] = recorded[s].release THEN [pin EXCEPT ![s] = v] ELSE pin
    /\ recorded' = [recorded EXCEPT ![s] = [release |-> v, commit |-> tags[s][v]]]
    /\ UNCHANGED <<tags, items, runs, count, meant>>

\* A pin edited by hand, to another release or to something unreadable.
EditPin(s, v) ==
    /\ pin[s] # v /\ v \in {Broken} \union Listed(tags[s])
    /\ count.pins < MaxPins /\ count' = [count EXCEPT !.pins = @ + 1]
    /\ pin' = [pin EXCEPT ![s] = v]
    /\ UNCHANGED <<tags, recorded, items, runs, meant>>

Close(k, i) ==
    /\ items[k][i].open
    /\ count.closes < MaxCloses /\ count' = [count EXCEPT !.closes = @ + 1]
    /\ items' = [items EXCEPT ![k][i].open = FALSE]
    /\ UNCHANGED <<tags, pin, recorded, runs, meant>>

-----------------------------------------------------------------------------
(* A run. *)

Begin(n) ==
    /\ runs[n] = NoRun
    /\ runs' = [runs EXCEPT ![n] = [pin |-> pin, recorded |-> recorded, at |-> 1,
                                    listing |-> NoListing, findings |-> <<>>,
                                    sent |-> 0, met |-> NotAsked]]
    /\ UNCHANGED <<tags, pin, recorded, items, count, meant>>

Collecting(n) == runs[n] # NoRun /\ runs[n].at <= Len(Configs)

\* The run has found all it will find of its current slice.
Collected(n, found) ==
    runs' = [runs EXCEPT ![n].at = @ + 1, ![n].listing = NoListing,
                         ![n].findings = @ \o found]

\* An unreadable pin is a finding; the publisher is not asked.
Unreadable(n) ==
    /\ Collecting(n)
    /\ LET s == Configs[runs[n].at]
       IN  /\ runs[n].pin[s] = Broken
           /\ Collected(n, <<[slice |-> s, kind |-> "pin-unreadable",
                              pinned |-> Broken, about |-> Broken]>>)
    /\ UNCHANGED <<tags, pin, recorded, items, count, meant>>

List(n) ==
    /\ Collecting(n) /\ runs[n].listing = NoListing
    /\ LET s == Configs[runs[n].at]
       IN  /\ runs[n].pin[s] # Broken
           /\ runs' = [runs EXCEPT ![n].listing = tags[s]]
    /\ UNCHANGED <<tags, pin, recorded, items, count, meant>>

\* The newest listed tag's declaration is fetched now, as the tag stands now.
Compare(n) ==
    /\ Collecting(n) /\ runs[n].listing # NoListing
    /\ LET s      == Configs[runs[n].at]
           newest == Latest(Listed(runs[n].listing), "rc", {})
           now    == IF newest = NoVersion \/ tags[s][newest] = NoTag THEN {}
                     ELSE Retracts[tags[s][newest]]
           Report(retracted) ==
               Collected(n, Findings(s, runs[n].pin[s], runs[n].recorded[s],
                                     runs[n].listing, retracted))
       IN  \/ Report(now) /\ UNCHANGED count
           \/ \* an unreadable declaration means no retractions, not a failure
              /\ count.faults < MaxFaults /\ count' = [count EXCEPT !.faults = @ + 1]
              /\ Report({})
    /\ UNCHANGED <<tags, pin, recorded, items, meant>>

Delivering(n) == runs[n] # NoRun /\ runs[n].at > Len(Configs) /\ runs[n].sent < Len(runs[n].findings)

Current(n) == runs[n].findings[runs[n].sent + 1]

\* A slice without a handler is reported on the summary only.
Skip(n) ==
    /\ Delivering(n) /\ Current(n).slice \notin Wired
    /\ runs' = [runs EXCEPT ![n].sent = @ + 1]
    /\ UNCHANGED <<tags, pin, recorded, items, count, meant>>

Open(k) == {i \in DOMAIN items[k] : items[k][i].open}

\* Mutant: the search does not ask for open items only.
FindAnyState(n) ==
    /\ Delivering(n) /\ Current(n).slice \in Wired /\ runs[n].met = NotAsked
    /\ runs' = [runs EXCEPT ![n].met = Len(items[Key(Current(n))])]
    /\ UNCHANGED <<tags, pin, recorded, items, count, meant>>

\* The handler searches for an open item; 0 says it found none.
Find(n) ==
    /\ Delivering(n) /\ Current(n).slice \in Wired /\ runs[n].met = NotAsked
    /\ \E i \in IF Open(Key(Current(n))) = {} THEN {0} ELSE Open(Key(Current(n))) :
           runs' = [runs EXCEPT ![n].met = i]
    /\ UNCHANGED <<tags, pin, recorded, items, count, meant>>

\* Mutants: every report opens an item; the body stops short of the current finding.
AnswerCreates(n) ==
    /\ Delivering(n) /\ runs[n].met # NotAsked
    /\ items' = [items EXCEPT ![Key(Current(n))] = Append(@,
                    [open |-> TRUE, told |-> {runs[n].findings[i] : i \in DOMAIN runs[n].findings}])]
    /\ runs' = [runs EXCEPT ![n].met = NotAsked, ![n].sent = @ + 1]
    /\ UNCHANGED <<tags, pin, recorded, count, meant>>

AnswerShort(n) ==
    /\ Delivering(n) /\ runs[n].met # NotAsked
    /\ LET k      == Key(Current(n))
           report == {runs[n].findings[i] : i \in 1..runs[n].sent}
       IN  items' = IF runs[n].met = 0
                    THEN [items EXCEPT ![k] = Append(@, [open |-> TRUE, told |-> report])]
                    ELSE [items EXCEPT ![k][runs[n].met].told = @ \union report]
    /\ runs' = [runs EXCEPT ![n].met = NotAsked, ![n].sent = @ + 1]
    /\ UNCHANGED <<tags, pin, recorded, count, meant>>

\* The whole report goes to the item found, as it is now, or to a new one.
Answer(n) ==
    /\ Delivering(n) /\ runs[n].met # NotAsked
    /\ LET k      == Key(Current(n))
           report == {runs[n].findings[i] : i \in DOMAIN runs[n].findings}
       IN  items' = IF runs[n].met = 0
                    THEN [items EXCEPT ![k] = Append(@, [open |-> TRUE, told |-> report])]
                    ELSE [items EXCEPT ![k][runs[n].met].told = @ \union report]
    /\ runs' = [runs EXCEPT ![n].met = NotAsked, ![n].sent = @ + 1]
    /\ UNCHANGED <<tags, pin, recorded, count, meant>>

Done(n) ==
    /\ runs[n] # NoRun /\ runs[n].at > Len(Configs) /\ ~Delivering(n)
    /\ runs' = [runs EXCEPT ![n] = NoRun]
    /\ UNCHANGED <<tags, pin, recorded, items, count, meant>>

\* A failed listing or handler ends the run; what it did not deliver is lost.
Fail(n) ==
    /\ runs[n] # NoRun /\ ~(Collecting(n) /\ runs[n].listing # NoListing)
    /\ count.faults < MaxFaults /\ count' = [count EXCEPT !.faults = @ + 1]
    /\ runs' = [runs EXCEPT ![n] = NoRun]
    /\ UNCHANGED <<tags, pin, recorded, items, meant>>

Work(n) == \/ Begin(n) \/ Unreadable(n) \/ List(n) \/ Compare(n)
           \/ Skip(n) \/ Find(n) \/ Answer(n) \/ Done(n)

Next ==
    \/ \E s \in Slices, v \in Releases :
          \/ \E c \in Commits : Publish(s, v, c)
          \/ \E c \in Commits \union {NoTag} : Tamper(s, v, c)
          \/ Adopt(s, v)
    \/ \E s \in Slices, v \in Releases \union {Broken} : EditPin(s, v)
    \/ \E k \in Keys : \E i \in DOMAIN items[k] : Close(k, i)
    \/ \E n \in Runs : Work(n) \/ Fail(n)

Spec == Init /\ [][Next]_vars

\* The job is scheduled for ever and every started run goes on; failures are bounded.
FairSpec == Spec /\ \A n \in Runs : WF_vars(Work(n))

-----------------------------------------------------------------------------
\* Types, with the bounds: a work item never loses its report.
TypeOK ==
    /\ tags \in [Slices -> [Releases -> Commits \union {NoTag}]]
    /\ pin \in [Slices -> Releases \union {Broken}]
    /\ recorded \in [Slices -> [release : Releases, commit : Commits]]
    /\ \A k \in Keys : \A i \in DOMAIN items[k] :
          items[k][i].open \in BOOLEAN /\ items[k][i].told \in (SUBSET Finding) \ {{}}
    /\ \A n \in Runs : runs[n] # NoRun =>
          /\ runs[n].at \in 1..(Len(Configs) + 1)
          /\ \A i \in DOMAIN runs[n].findings : runs[n].findings[i] \in Finding
          /\ runs[n].sent \in 0..Len(runs[n].findings)
          /\ runs[n].met = NotAsked \/ runs[n].met \in 0..Len(items[Key(Current(n))])
    /\ count \in [moves : 0..MaxMoves, pins : 0..MaxPins, closes : 0..MaxCloses, faults : 0..MaxFaults]

\* No key has more open work items than there are runs in flight together, whatever
\* fails or is closed between a handler's search and its answer: runs that do not
\* overlap share one item, and the items of runs that raced do not breed others.
ItemPerRun == \A k \in Keys : Cardinality(Open(k)) <= Cardinality(Runs)

\* A moved tag is reported only of a tag that did move: no order of pin edits,
\* adoptions and releases around a run makes the provenance check cry wolf.
NoFalseAlarm ==
    \A k \in Keys : \A i \in DOMAIN items[k] : \A f \in items[k][i].told :
        f.kind = "tag-moved" => meant[f.slice][f.pinned] \ {f.about} # {}

\* Whoever reads of a slice's moved tag in its update item finds it in its
\* integrity item too, even when the run that wrote the one died before the other.
IntegrityFirst ==
    \A s \in Slices : \A i \in DOMAIN items[<<s, "update">>] :
        \A f \in items[<<s, "update">>][i].told :
            (f.kind = "tag-moved" /\ f.slice = s) =>
                \E j \in DOMAIN items[<<s, "integrity">>] : f \in items[<<s, "integrity">>][j].told

Reported(f) == \E i \in Open(Key(f)) : f \in items[Key(f)][i].told

Qualifying(s) == Latest(Listed(tags[s]), Channel[s], RetractedAtNewest(tags[s]))

\* A slice that stays behind its publisher's latest qualifying release ends up
\* with an open update item that names that release.
BehindReported ==
    \A s \in Wired, v \in Releases, w \in Releases :
        Less(v, w) => (pin[s] = v /\ Qualifying(s) = w)
            ~> \/ ~(pin[s] = v /\ Qualifying(s) = w)
               \/ Reported([slice |-> s, kind |-> "update-available", pinned |-> v, about |-> w])

HasMoved(s, v, c) == pin[s] = v /\ recorded[s].release = v /\ recorded[s].commit # c /\ tags[s][v] = c

\* A pinned tag that moved and stays moved ends up in an open integrity item, as
\* long as the publisher offers any qualifying release.
MovedTagReported ==
    \A s \in Wired, v \in Releases, c \in Commits :
        (HasMoved(s, v, c) /\ Qualifying(s) # NoVersion)
            ~> \/ ~(HasMoved(s, v, c) /\ Qualifying(s) # NoVersion)
               \/ Reported([slice |-> s, kind |-> "tag-moved", pinned |-> v, about |-> c])

\* Config rot is loud: an unreadable pin ends up in an open integrity item.
RotReported ==
    \A s \in Wired : pin[s] = Broken ~>
        \/ pin[s] # Broken
        \/ Reported([slice |-> s, kind |-> "pin-unreadable", pinned |-> Broken, about |-> Broken])

-----------------------------------------------------------------------------
\* What the documentation says, and the code does not do.

\* At most one work item is open for a dedup key.
OneOpenItem == \A k \in Keys : Cardinality(Open(k)) <= 1

\* A sync refuses to leave a pinned release whose tag no longer resolves to the
\* commit the manifest recorded for it.
SyncRefusesMoved ==
    [][\A s \in Slices : recorded'[s] # recorded[s] =>
          recorded[s].release # pin[s] \/ tags[s][pin[s]] = recorded[s].commit]_vars

=============================================================================
