----------------------------- MODULE WatchProofs -----------------------------
(***************************************************************************)
(* What the watch promises for any number of slices, releases, commits and *)
(* runs: types, no false alarm, integrity first, and no more open work     *)
(* items of a key than runs that may be in flight together.                *)
(***************************************************************************)
EXTENDS Watch, FiniteSetTheorems, SequenceTheorems, TLAPS

Item     == [open : BOOLEAN, told : SUBSET Finding]
Manifest == [release : Releases, commit : Commits]
Listing  == [Releases -> Commits \union {NoTag}]

Run == [pin : [Slices -> Releases \union {Broken}], recorded : [Slices -> Manifest],
        at : 1..(Len(Configs) + 1), listing : Listing \union {NoListing},
        findings : Seq(Finding), sent : Nat, met : Nat \union {NotAsked}]

Counts == [moves : 0..MaxMoves, pins : 0..MaxPins, closes : 0..MaxCloses, faults : 0..MaxFaults]

\* A run delivers after its last slice, and what its search met is an item of
\* the current finding's key.
RunOK(n) ==
    LET r == runs[n]
    IN  r # NoRun =>
          /\ r.sent <= Len(r.findings)
          /\ r.at <= Len(Configs) =>
                /\ r.sent = 0 /\ r.met = NotAsked
                /\ r.listing # NoListing => r.pin[Configs[r.at]] # Broken
          /\ r.met # NotAsked =>
                /\ r.sent < Len(r.findings)
                /\ Current(n).slice \in Wired
                /\ r.met <= Len(items[Key(Current(n))])

World ==
    /\ tags \in [Slices -> Listing]
    /\ pin \in [Slices -> Releases \union {Broken}]
    /\ recorded \in [Slices -> Manifest]
    /\ meant \in [Slices -> [Releases -> SUBSET Commits]]
    /\ count \in Counts

Told ==
    /\ items \in [Keys -> Seq(Item)]
    /\ \A k \in Keys : \A i \in 1..Len(items[k]) : items[k][i].told # {}

BaseInv ==
    /\ World /\ Told
    /\ runs \in [Runs -> Run \union {NoRun}]
    /\ \A n \in Runs : RunOK(n)

\* What a run delivers has a key.
LEMMA CurrentKey ==
    ASSUME BaseInv, NEW n \in Runs, runs[n] # NoRun, runs[n].sent < Len(runs[n].findings)
    PROVE  /\ Current(n) \in Finding /\ Key(Current(n)) \in Keys
           /\ runs[n].sent + 1 \in 1..Len(runs[n].findings)
<1>1. runs[n].findings \in Seq(Finding) /\ runs[n].sent \in Nat
  BY DEF BaseInv, Run
<1>2. runs[n].sent + 1 \in 1..Len(runs[n].findings)
  BY <1>1
<1>3. Current(n) \in Finding
  BY <1>1, <1>2, ElementOfSeq DEF Current
<1> QED BY <1>2, <1>3 DEF Key, Keys, Finding

LEMMA BaseIsTyped == ASSUME WatchConstants, BaseInv PROVE TypeOK
<1>1. \A k \in Keys : items[k] \in Seq(Item) /\ DOMAIN items[k] = 1..Len(items[k])
  BY DEF BaseInv, Told
<1>2. \A k \in Keys : \A i \in DOMAIN items[k] :
         items[k][i].open \in BOOLEAN /\ items[k][i].told \in (SUBSET Finding) \ {{}}
  <2> SUFFICES ASSUME NEW k \in Keys, NEW i \in DOMAIN items[k]
               PROVE  items[k][i].open \in BOOLEAN /\ items[k][i].told \in (SUBSET Finding) \ {{}}
    OBVIOUS
  <2>1. items[k][i] \in Item
    BY <1>1, ElementOfSeq
  <2> QED BY <1>1, <2>1 DEF Item, BaseInv, Told
<1>3. \A n \in Runs : runs[n] # NoRun =>
          /\ runs[n].at \in 1..(Len(Configs) + 1)
          /\ \A i \in DOMAIN runs[n].findings : runs[n].findings[i] \in Finding
          /\ runs[n].sent \in 0..Len(runs[n].findings)
          /\ runs[n].met = NotAsked \/ runs[n].met \in 0..Len(items[Key(Current(n))])
  <2> SUFFICES ASSUME NEW n \in Runs, runs[n] # NoRun
               PROVE  /\ runs[n].at \in 1..(Len(Configs) + 1)
                      /\ \A i \in DOMAIN runs[n].findings : runs[n].findings[i] \in Finding
                      /\ runs[n].sent \in 0..Len(runs[n].findings)
                      /\ runs[n].met = NotAsked \/ runs[n].met \in 0..Len(items[Key(Current(n))])
    OBVIOUS
  <2>1. runs[n] \in Run /\ RunOK(n)
    BY DEF BaseInv
  <2>2. /\ runs[n].at \in 1..(Len(Configs) + 1) /\ runs[n].findings \in Seq(Finding)
        /\ runs[n].sent \in Nat /\ runs[n].met \in Nat \union {NotAsked}
    BY <2>1 DEF Run
  <2>3. CASE runs[n].met # NotAsked
    <3>1. Current(n) \in Finding
      BY <2>1, <2>2, <2>3, ElementOfSeq DEF RunOK, Current
    <3>2. Key(Current(n)) \in Keys
      BY <3>1 DEF Key, Keys, Finding
    <3>3. Len(items[Key(Current(n))]) \in Nat
      BY <1>1, <3>2
    <3> QED BY <2>1, <2>2, <2>3, <3>3 DEF RunOK
  <2> QED BY <2>1, <2>2, <2>3 DEF RunOK
<1> QED BY <1>2, <1>3 DEF BaseInv, World, TypeOK, Listing, Manifest, Counts

-----------------------------------------------------------------------------
(* What a comparison finds.                                                  *)

\* Of slice s: a moved tag first, then an update.
Sound(found, s, pinned, manifest, listing) ==
    /\ found \in Seq(Finding)
    /\ \A i \in 1..Len(found) :
          /\ found[i].slice = s
          /\ found[i].kind = "tag-moved" =>
                /\ i = 1 /\ found[i].pinned = pinned /\ manifest.release = pinned
                /\ listing[pinned] # NoTag /\ found[i].about = listing[pinned]
                /\ listing[pinned] # manifest.commit

LEMMA FindingsSound ==
    ASSUME WatchConstants, NEW s \in Slices, NEW pinned \in Releases, NEW manifest \in Manifest,
           NEW listing \in Listing, NEW retracted
    PROVE  Sound(Findings(s, pinned, manifest, listing, retracted), s, pinned, manifest, listing)
<1> DEFINE latest == Latest(Listed(listing), Channel[s], retracted)
           moved  == Moved(s, pinned, manifest, listing)
           update == Update(s, pinned, latest)
<1>1. latest = NoVersion \/ latest \in Releases
  BY DEF Latest, Listed
<1>2. <<>> \in Seq(Finding) /\ Len(<<>>) = 0
  BY EmptySeq
<1>3. moved \in Seq(Finding) /\ Sound(moved, s, pinned, manifest, listing)
  <2>1. CASE manifest.release # pinned \/ listing[pinned] \in {NoTag, manifest.commit}
    BY <1>2, <2>1 DEF Moved, Sound
  <2>2. CASE ~(manifest.release # pinned \/ listing[pinned] \in {NoTag, manifest.commit})
    <3> DEFINE f == [slice |-> s, kind |-> "tag-moved", pinned |-> pinned, about |-> listing[pinned]]
    <3>1. listing[pinned] \in Commits
      BY <2>2 DEF Listing
    <3>2. f \in Finding
      BY <3>1 DEF Finding
    <3>3. moved = <<f>>
      BY <2>2 DEF Moved
    <3>4. <<f>> \in Seq(Finding) /\ Len(<<f>>) = 1 /\ <<f>>[1] = f
      BY <3>2
    <3> QED BY <2>2, <3>3, <3>4 DEF Sound
  <2> QED BY <2>1, <2>2 DEF Sound
<1>4. CASE latest = NoVersion
  BY <1>2, <1>4 DEF Findings, Sound
<1>5. CASE latest # NoVersion
  <2>1. latest \in Releases
    BY <1>1, <1>5
  <2>2. update \in Seq(Finding) /\ \A i \in 1..Len(update) : update[i].slice = s
                                        /\ update[i].kind = "update-available"
    <3>1. CASE ~Less(pinned, latest)
      BY <1>2, <3>1 DEF Update
    <3>2. CASE Less(pinned, latest)
      <4> DEFINE f == [slice |-> s, kind |-> "update-available", pinned |-> pinned, about |-> latest]
      <4>1. f \in Finding
        BY <2>1 DEF Finding
      <4>2. update = <<f>>
        BY <3>2 DEF Update
      <4>3. <<f>> \in Seq(Finding) /\ Len(<<f>>) = 1 /\ <<f>>[1] = f
        BY <4>1
      <4> QED BY <4>2, <4>3
    <3> QED BY <3>1, <3>2
  <2>3. Findings(s, pinned, manifest, listing, retracted) = moved \o update
    BY <1>5 DEF Findings
  <2>4. /\ moved \o update \in Seq(Finding)
        /\ Len(moved \o update) = Len(moved) + Len(update)
        /\ \A i \in 1 .. Len(moved) + Len(update) : (moved \o update)[i] =
               IF i <= Len(moved) THEN moved[i] ELSE update[i - Len(moved)]
    BY <1>3, <2>2, ConcatProperties
  <2>5. Len(moved) \in Nat /\ Len(update) \in Nat
    BY <1>3, <2>2
  <2>6. ASSUME NEW i \in 1..Len(moved \o update)
        PROVE  \/ i \in 1..Len(moved) /\ (moved \o update)[i] = moved[i]
               \/ /\ i - Len(moved) \in 1..Len(update)
                  /\ (moved \o update)[i] = update[i - Len(moved)]
    BY <2>4, <2>5
  <2>7. \A i \in 1..Len(moved \o update) :
           /\ (moved \o update)[i].slice = s
           /\ (moved \o update)[i].kind = "tag-moved" =>
                 i \in 1..Len(moved) /\ (moved \o update)[i] = moved[i]
    <3> SUFFICES ASSUME NEW i \in 1..Len(moved \o update)
                 PROVE  /\ (moved \o update)[i].slice = s
                        /\ (moved \o update)[i].kind = "tag-moved" =>
                              i \in 1..Len(moved) /\ (moved \o update)[i] = moved[i]
      OBVIOUS
    <3>1. CASE i \in 1..Len(moved) /\ (moved \o update)[i] = moved[i]
      BY <1>3, <3>1 DEF Sound
    <3>2. CASE /\ i - Len(moved) \in 1..Len(update)
               /\ (moved \o update)[i] = update[i - Len(moved)]
      BY <2>2, <3>2
    <3> QED BY <2>6, <3>1, <3>2
  <2>8. PICK both : both = moved \o update
    OBVIOUS
  <2>9. ASSUME NEW i \in 1..Len(both)
        PROVE  /\ both[i].slice = s
               /\ both[i].kind = "tag-moved" =>
                     /\ i = 1 /\ both[i].pinned = pinned /\ manifest.release = pinned
                     /\ listing[pinned] # NoTag /\ both[i].about = listing[pinned]
                     /\ listing[pinned] # manifest.commit
    <3>1. /\ both[i].slice = s
          /\ both[i].kind = "tag-moved" => i \in 1..Len(moved) /\ both[i] = moved[i]
      BY <2>7, <2>8
    <3> HIDE DEF moved
    <3> QED BY <1>3, <3>1 DEF Sound
  <2>10. both \in Seq(Finding)
    BY <2>4, <2>8
  <2>11. Sound(both, s, pinned, manifest, listing)
    BY <2>9, <2>10 DEF Sound
  <2> QED BY <2>3, <2>8, <2>11
<1> QED BY <1>4, <1>5

-----------------------------------------------------------------------------
(* What every step leaves alone.                                             *)
MeantGrows == \A s \in Slices, v \in Releases : meant[s][v] \subseteq meant'[s][v]

\* Publishers and people: neither items nor runs.
Outside ==
    \/ \E s \in Slices, v \in Releases :
          \/ \E c \in Commits : Publish(s, v, c)
          \/ \E c \in Commits \union {NoTag} : Tamper(s, v, c)
          \/ Adopt(s, v)
    \/ \E s \in Slices, v \in Releases \union {Broken} : EditPin(s, v)

LEMMA CountUp ==
    ASSUME WatchConstants, count \in Counts
    PROVE  /\ count.moves < MaxMoves => [count EXCEPT !.moves = @ + 1] \in Counts
           /\ count.pins < MaxPins => [count EXCEPT !.pins = @ + 1] \in Counts
           /\ count.closes < MaxCloses => [count EXCEPT !.closes = @ + 1] \in Counts
           /\ count.faults < MaxFaults => [count EXCEPT !.faults = @ + 1] \in Counts
<1>1. MaxMoves \in Nat /\ MaxPins \in Nat /\ MaxCloses \in Nat /\ MaxFaults \in Nat
  BY DEF WatchConstants
<1> QED BY <1>1 DEF Counts

LEMMA RetagBase ==
    ASSUME WatchConstants, BaseInv, NEW s \in Slices, NEW v \in Releases,
           NEW c \in Commits \union {NoTag}, Retag(s, v, c)
    PROVE  /\ tags' \in [Slices -> Listing]
           /\ meant' \in [Slices -> [Releases -> SUBSET Commits]]
           /\ MeantGrows
           /\ tags'[s][v] = c /\ (c # NoTag => c \in meant'[s][v])
           /\ \A t \in Slices, w \in Releases : t # s \/ w # v => tags'[t][w] = tags[t][w]
           /\ UNCHANGED <<pin, recorded, items, runs>>
<1>1. tags' = [tags EXCEPT ![s][v] = c] /\ UNCHANGED <<pin, recorded, items, runs>>
  BY DEF Retag
<1>2. tags' \in [Slices -> Listing] /\ tags'[s][v] = c
      /\ \A t \in Slices, w \in Releases : t # s \/ w # v => tags'[t][w] = tags[t][w]
  BY <1>1 DEF BaseInv, World, Listing
<1>3. CASE c = NoTag
  BY <1>1, <1>2, <1>3 DEF Retag, BaseInv, World, MeantGrows
<1>4. CASE c # NoTag
  <2>1. meant' = [meant EXCEPT ![s][v] = @ \union {c}]
    BY <1>4 DEF Retag
  <2>2. /\ meant' \in [Slices -> [Releases -> SUBSET Commits]]
        /\ meant'[s][v] = meant[s][v] \union {c}
        /\ \A t \in Slices, w \in Releases : t # s \/ w # v => meant'[t][w] = meant[t][w]
    BY <1>4, <2>1 DEF BaseInv, World
  <2> QED BY <1>1, <1>2, <2>2 DEF MeantGrows
<1> QED BY <1>3, <1>4

LEMMA OutsideBase ==
    ASSUME WatchConstants, BaseInv, Outside
    PROVE  BaseInv' /\ MeantGrows /\ UNCHANGED <<items, runs>>
<1>1. World' /\ MeantGrows /\ UNCHANGED <<items, runs>>
  <2>1. ASSUME NEW s \in Slices, NEW v \in Releases, NEW c \in Commits, Publish(s, v, c)
        PROVE  World' /\ MeantGrows /\ UNCHANGED <<items, runs>>
    BY <2>1, RetagBase DEF Publish, BaseInv, World
  <2>2. ASSUME NEW s \in Slices, NEW v \in Releases, NEW c \in Commits \union {NoTag},
               Tamper(s, v, c)
        PROVE  World' /\ MeantGrows /\ UNCHANGED <<items, runs>>
    <3>1. count' \in Counts
      BY <2>2, CountUp DEF Tamper, BaseInv, World
    <3> QED BY <2>2, <3>1, RetagBase DEF Tamper, BaseInv, World
  <2>3. ASSUME NEW s \in Slices, NEW v \in Releases, Adopt(s, v)
        PROVE  World' /\ MeantGrows /\ UNCHANGED <<items, runs>>
    <3>1. tags[s][v] \in Commits
      BY <2>3 DEF Adopt, BaseInv, World, Listing
    <3>2. [release |-> v, commit |-> tags[s][v]] \in Manifest
      BY <3>1 DEF Manifest
    <3> QED BY <2>3, <3>2 DEF Adopt, BaseInv, World, MeantGrows
  <2>4. ASSUME NEW s \in Slices, NEW v \in Releases \union {Broken}, EditPin(s, v)
        PROVE  World' /\ MeantGrows /\ UNCHANGED <<items, runs>>
    <3>1. count' \in Counts
      BY <2>4, CountUp DEF EditPin, BaseInv, World
    <3> QED BY <2>4, <3>1 DEF EditPin, BaseInv, World, MeantGrows
  <2> QED BY <2>1, <2>2, <2>3, <2>4 DEF Outside
<1>2. Told' /\ runs' \in [Runs -> Run \union {NoRun}]
  BY <1>1 DEF BaseInv, Told
<1>3. \A n \in Runs : RunOK(n)'
  BY <1>1 DEF BaseInv, RunOK, Current
<1> QED BY <1>1, <1>2, <1>3 DEF BaseInv

LEMMA CloseBase ==
    ASSUME WatchConstants, BaseInv, NEW k \in Keys, NEW i \in DOMAIN items[k], Close(k, i)
    PROVE  /\ BaseInv'
           /\ UNCHANGED <<tags, pin, recorded, runs, meant>>
           /\ \A q \in Keys : /\ Len(items'[q]) = Len(items[q])
                              /\ \A j \in 1..Len(items[q]) :
                                    /\ items'[q][j].told = items[q][j].told
                                    /\ items'[q][j].open => items[q][j].open
<1>1. /\ items' = [items EXCEPT ![k][i].open = FALSE]
      /\ UNCHANGED <<tags, pin, recorded, runs, meant>>
  BY DEF Close
<1>2. items[k] \in Seq(Item) /\ DOMAIN items[k] = 1..Len(items[k]) /\ items[k][i] \in Item
  BY ElementOfSeq DEF BaseInv, Told
<1> DEFINE closed == [items[k] EXCEPT ![i].open = FALSE]
<1>3. /\ closed \in Seq(Item) /\ Len(closed) = Len(items[k])
      /\ \A j \in 1..Len(items[k]) : /\ closed[j].told = items[k][j].told
                                     /\ closed[j].open => items[k][j].open
  <2>1. [items[k][i] EXCEPT !.open = FALSE] \in Item
    BY <1>2 DEF Item
  <2>2. \A j \in 1..Len(items[k]) : items[k][j] \in Item
    BY <1>2, ElementOfSeq
  <2>3. closed = [items[k] EXCEPT ![i] = [items[k][i] EXCEPT !.open = FALSE]]
    OBVIOUS
  <2>4. closed \in Seq(Item) /\ Len(closed) = Len(items[k])
        /\ \A j \in 1..Len(items[k]) :
              closed[j] = IF j = i THEN [items[k][i] EXCEPT !.open = FALSE] ELSE items[k][j]
    BY <1>2, <2>1, <2>3, ExceptSeq
  <2> QED BY <1>2, <2>2, <2>4 DEF Item
<1>4. items' = [items EXCEPT ![k] = closed]
  BY <1>1
<1>5. /\ items' \in [Keys -> Seq(Item)]
      /\ items'[k] = closed /\ \A q \in Keys \ {k} : items'[q] = items[q]
  BY <1>3, <1>4 DEF BaseInv, Told
<1>6. \A q \in Keys : /\ Len(items'[q]) = Len(items[q])
                      /\ \A j \in 1..Len(items[q]) :
                            /\ items'[q][j].told = items[q][j].told
                            /\ items'[q][j].open => items[q][j].open
  BY <1>3, <1>5
<1>7. Told'
  <2>1. \A q \in Keys : \A j \in 1..Len(items'[q]) : items'[q][j].told # {}
    <3> SUFFICES ASSUME NEW q \in Keys, NEW j \in 1..Len(items'[q]) PROVE items'[q][j].told # {}
      OBVIOUS
    <3>1. j \in 1..Len(items[q])
      BY <1>6
    <3>2. items[q][j].told # {}
      BY <3>1 DEF BaseInv, Told
    <3>3. items'[q][j].told = items[q][j].told
      BY <1>6, <3>1
    <3> QED BY <3>2, <3>3
  <2> QED BY <1>5, <2>1 DEF Told
<1>8. World'
  <2>1. count' \in Counts
    BY CountUp DEF Close, BaseInv, World
  <2> QED BY <1>1, <2>1 DEF BaseInv, World
<1>9. \A n \in Runs : RunOK(n)'
  <2> SUFFICES ASSUME NEW n \in Runs PROVE RunOK(n)'
    OBVIOUS
  <2>1. RunOK(n) /\ Current(n)' = Current(n)
    BY <1>1 DEF BaseInv, Current
  <2>2. runs[n] # NoRun /\ runs[n].met # NotAsked => Key(Current(n)) \in Keys
    BY <2>1, CurrentKey DEF RunOK
  <2> QED BY <1>1, <1>6, <2>1, <2>2 DEF RunOK, BaseInv, Current
<1> QED BY <1>1, <1>6, <1>7, <1>8, <1>9 DEF BaseInv

\* A step of run n that writes no item.
LEMMA RunBase ==
    ASSUME WatchConstants, BaseInv, NEW n \in Runs, NEW r \in Run \union {NoRun},
           runs' = [runs EXCEPT ![n] = r], UNCHANGED <<tags, pin, recorded, items, meant>>,
           count' \in Counts, RunOK(n)'
    PROVE  BaseInv' /\ runs'[n] = r /\ \A m \in Runs \ {n} : runs'[m] = runs[m]
<1>1. /\ runs' \in [Runs -> Run \union {NoRun}]
      /\ runs'[n] = r /\ \A m \in Runs \ {n} : runs'[m] = runs[m]
  BY DEF BaseInv
<1>2. ASSUME NEW m \in Runs \ {n} PROVE RunOK(m)'
  BY <1>1 DEF BaseInv, RunOK, Current
<1>3. World' /\ Told'
  BY DEF BaseInv, World, Told
<1> QED BY <1>1, <1>2, <1>3 DEF BaseInv

LEMMA ConfigsAreSlices ==
    ASSUME WatchConstants
    PROVE  /\ Len(Configs) \in Nat /\ DOMAIN Configs = 1..Len(Configs)
           /\ \A i \in 1..Len(Configs) : Configs[i] \in Slices
BY DEF WatchConstants, Slices

LEMMA BeginBase ==
    ASSUME WatchConstants, BaseInv, NEW n \in Runs, Begin(n)
    PROVE  /\ BaseInv' /\ UNCHANGED <<tags, pin, recorded, items, meant>>
           /\ \A m \in Runs \ {n} : runs'[m] = runs[m]
           /\ runs'[n] = [pin |-> pin, recorded |-> recorded, at |-> 1, listing |-> NoListing,
                          findings |-> <<>>, sent |-> 0, met |-> NotAsked]
<1> DEFINE r == [pin |-> pin, recorded |-> recorded, at |-> 1, listing |-> NoListing,
                 findings |-> <<>>, sent |-> 0, met |-> NotAsked]
<1>1. runs' = [runs EXCEPT ![n] = r] /\ UNCHANGED <<tags, pin, recorded, items, count, meant>>
  BY DEF Begin
<1>2. r \in Run
  BY ConfigsAreSlices DEF BaseInv, World, Run
<1>3. runs'[n] = r
  BY <1>1 DEF BaseInv
<1>4. RunOK(n)'
  BY <1>3 DEF RunOK
<1>5. count' \in Counts
  BY <1>1 DEF BaseInv, World
<1> QED BY <1>1, <1>2, <1>4, <1>5, RunBase

LEMMA ListBase ==
    ASSUME WatchConstants, BaseInv, NEW n \in Runs, List(n)
    PROVE  /\ BaseInv' /\ UNCHANGED <<tags, pin, recorded, items, meant>>
           /\ \A m \in Runs \ {n} : runs'[m] = runs[m]
           /\ Collecting(n) /\ runs[n].at \in 1..Len(Configs)
           /\ runs'[n] = [runs[n] EXCEPT !.listing = tags[Configs[runs[n].at]]]
<1> DEFINE s == Configs[runs[n].at]
           r == [runs[n] EXCEPT !.listing = tags[s]]
<1>1. /\ runs[n].pin[s] # Broken /\ Collecting(n)
      /\ runs' = [runs EXCEPT ![n] = r]
      /\ UNCHANGED <<tags, pin, recorded, items, count, meant>>
  BY DEF List
<1>2. runs[n] \in Run /\ RunOK(n) /\ runs[n].at <= Len(Configs)
  BY <1>1 DEF BaseInv, Collecting
<1>3. runs[n].at \in 1..Len(Configs)
  BY <1>2, ConfigsAreSlices DEF Run
<1>4. tags[s] \in Listing
  BY <1>3, ConfigsAreSlices DEF BaseInv, World
<1>5. r \in Run
  BY <1>2, <1>4 DEF Run
<1>6. runs'[n] = r
  BY <1>1 DEF BaseInv
<1>7. /\ r.sent = runs[n].sent /\ r.at = runs[n].at /\ r.met = runs[n].met /\ r.pin = runs[n].pin
      /\ r.findings = runs[n].findings
  BY <1>2 DEF Run
<1>8. RunOK(n)'
  BY <1>1, <1>2, <1>6, <1>7 DEF RunOK, Collecting
<1>9. count' \in Counts
  BY <1>1 DEF BaseInv, World
<1> QED BY <1>1, <1>3, <1>5, <1>6, <1>8, <1>9, RunBase

LEMMA CollectBase ==
    ASSUME WatchConstants, BaseInv, NEW n \in Runs, Unreadable(n) \/ Compare(n)
    PROVE  /\ BaseInv' /\ UNCHANGED <<tags, pin, recorded, items, meant>>
           /\ \A m \in Runs \ {n} : runs'[m] = runs[m]
           /\ Collecting(n) /\ runs[n].at \in 1..Len(Configs)
           /\ \E found \in Seq(Finding) :
                 /\ Sound(found, Configs[runs[n].at], runs[n].pin[Configs[runs[n].at]],
                          runs[n].recorded[Configs[runs[n].at]], runs[n].listing)
                 /\ runs[n].listing = NoListing =>
                       \A i \in 1..Len(found) : found[i].kind # "tag-moved"
                 /\ runs'[n] = [runs[n] EXCEPT !.at = @ + 1, !.listing = NoListing,
                                               !.findings = @ \o found]
<1> DEFINE s == Configs[runs[n].at]
<1>1. Collecting(n) /\ UNCHANGED <<tags, pin, recorded, items, meant>>
  BY DEF Unreadable, Compare
<1>2. runs[n] \in Run /\ RunOK(n) /\ runs[n] # NoRun /\ runs[n].at <= Len(Configs)
  BY <1>1 DEF BaseInv, Collecting
<1>3. runs[n].at \in 1..Len(Configs) /\ s \in Slices
  BY <1>2, ConfigsAreSlices DEF Run
<1>4. \E found \in Seq(Finding) :
         /\ Sound(found, s, runs[n].pin[s], runs[n].recorded[s], runs[n].listing)
         /\ runs[n].listing = NoListing => \A i \in 1..Len(found) : found[i].kind # "tag-moved"
         /\ Collected(n, found)
  <2>1. CASE Unreadable(n)
    <3> DEFINE f == [slice |-> s, kind |-> "pin-unreadable", pinned |-> Broken, about |-> Broken]
    <3>1. f \in Finding
      BY <1>3 DEF Finding
    <3>2. <<f>> \in Seq(Finding) /\ Len(<<f>>) = 1 /\ <<f>>[1] = f
      BY <3>1
    <3>3. Sound(<<f>>, s, runs[n].pin[s], runs[n].recorded[s], runs[n].listing)
      BY <3>2 DEF Sound
    <3>4. Collected(n, <<f>>)
      BY <2>1 DEF Unreadable
    <3>5. \A i \in 1..Len(<<f>>) : <<f>>[i].kind # "tag-moved"
      BY <3>2
    <3> DEFINE found == <<f>>
    <3>6. /\ found \in Seq(Finding) /\ Collected(n, found)
          /\ Sound(found, s, runs[n].pin[s], runs[n].recorded[s], runs[n].listing)
          /\ \A i \in 1..Len(found) : found[i].kind # "tag-moved"
      BY <3>2, <3>3, <3>4, <3>5
    <3> HIDE DEF found
    <3> QED BY <3>6
  <2>2. CASE Compare(n)
    <3>1. /\ runs[n].listing # NoListing
          /\ \E retracted : Collected(n, Findings(s, runs[n].pin[s], runs[n].recorded[s],
                                                  runs[n].listing, retracted))
      BY <2>2 DEF Compare
    <3>2. PICK retracted : Collected(n, Findings(s, runs[n].pin[s], runs[n].recorded[s],
                                                 runs[n].listing, retracted))
      BY <3>1
    <3> DEFINE found == Findings(s, runs[n].pin[s], runs[n].recorded[s], runs[n].listing, retracted)
    <3>3. /\ runs[n].listing \in Listing /\ runs[n].recorded[s] \in Manifest
          /\ runs[n].pin[s] \in Releases
      BY <1>2, <1>3, <3>1 DEF Run, RunOK
    <3>4. Sound(found, s, runs[n].pin[s], runs[n].recorded[s], runs[n].listing)
      BY <1>3, <3>3, FindingsSound
    <3>5. found \in Seq(Finding) /\ Collected(n, found)
      BY <3>2, <3>4 DEF Sound
    <3> HIDE DEF found
    <3> QED BY <3>1, <3>4, <3>5
  <2> QED BY <2>1, <2>2
<1>5. PICK found \in Seq(Finding) :
         /\ Sound(found, s, runs[n].pin[s], runs[n].recorded[s], runs[n].listing)
         /\ runs[n].listing = NoListing => \A i \in 1..Len(found) : found[i].kind # "tag-moved"
         /\ Collected(n, found)
  BY <1>4
<1> DEFINE r == [runs[n] EXCEPT !.at = @ + 1, !.listing = NoListing, !.findings = @ \o found]
<1>6. runs' = [runs EXCEPT ![n] = r]
  BY <1>5 DEF Collected
<1>7. runs[n].findings \in Seq(Finding) /\ runs[n].at + 1 \in 1..(Len(Configs) + 1)
  BY <1>2, <1>3, ConfigsAreSlices DEF Run
<1>8. /\ runs[n].findings \o found \in Seq(Finding)
      /\ Len(runs[n].findings \o found) = Len(runs[n].findings) + Len(found)
  BY <1>7, ConcatProperties
<1>9. r \in Run
  BY <1>2, <1>7, <1>8 DEF Run
<1>10. runs'[n] = r
  BY <1>6 DEF BaseInv
<1>11. /\ r.sent = 0 /\ r.met = NotAsked /\ r.listing = NoListing
       /\ r.findings = runs[n].findings \o found
  BY <1>2 DEF Run, RunOK
<1>12. Len(runs[n].findings \o found) \in Nat
  BY <1>8
<1>13. RunOK(n)'
  BY <1>10, <1>11, <1>12 DEF RunOK
<1>14. count' \in Counts
  BY CountUp DEF Unreadable, Compare, BaseInv, World
<1> HIDE DEF r
<1>15. BaseInv' /\ runs'[n] = r /\ \A m \in Runs \ {n} : runs'[m] = runs[m]
  BY <1>1, <1>6, <1>9, <1>13, <1>14, RunBase
<1> QED BY <1>1, <1>3, <1>5, <1>15 DEF r

LEMMA SkipBase ==
    ASSUME WatchConstants, BaseInv, NEW n \in Runs, Skip(n)
    PROVE  /\ BaseInv' /\ UNCHANGED <<tags, pin, recorded, items, meant>>
           /\ \A m \in Runs \ {n} : runs'[m] = runs[m]
           /\ Delivering(n) /\ Current(n).slice \notin Wired
           /\ runs'[n] = [runs[n] EXCEPT !.sent = @ + 1]
<1> DEFINE r == [runs[n] EXCEPT !.sent = @ + 1]
<1>1. /\ Delivering(n) /\ Current(n).slice \notin Wired
      /\ runs' = [runs EXCEPT ![n] = r]
      /\ UNCHANGED <<tags, pin, recorded, items, count, meant>>
  BY DEF Skip
<1>2. /\ runs[n] \in Run /\ RunOK(n) /\ runs[n] # NoRun
      /\ runs[n].at > Len(Configs) /\ runs[n].sent < Len(runs[n].findings)
  BY <1>1 DEF BaseInv, Delivering
<1>3. /\ runs[n].sent \in Nat /\ Len(runs[n].findings) \in Nat /\ runs[n].at \in Nat
      /\ runs[n].met = NotAsked
  BY <1>1, <1>2, ConfigsAreSlices DEF Run, RunOK
<1>4. r \in Run
  <2>1. runs[n].sent + 1 \in Nat
    BY <1>3
  <2> QED BY <1>2, <2>1 DEF Run
<1>5. runs'[n] = r
  BY <1>1 DEF BaseInv
<1>6. /\ r.sent = runs[n].sent + 1 /\ r.at = runs[n].at /\ r.met = NotAsked
      /\ r.findings = runs[n].findings
  BY <1>2, <1>3 DEF Run
<1>7. RunOK(n)'
  BY <1>2, <1>3, <1>5, <1>6, ConfigsAreSlices DEF RunOK
<1>8. count' \in Counts
  BY <1>1 DEF BaseInv, World
<1> QED BY <1>1, <1>4, <1>5, <1>7, <1>8, RunBase

LEMMA FindBase ==
    ASSUME WatchConstants, BaseInv, NEW n \in Runs, Find(n)
    PROVE  /\ BaseInv' /\ UNCHANGED <<tags, pin, recorded, items, meant>>
           /\ \A m \in Runs \ {n} : runs'[m] = runs[m]
           /\ Delivering(n) /\ runs[n].met = NotAsked /\ Current(n).slice \in Wired
           /\ \E i \in Nat : /\ i = 0 => Open(Key(Current(n))) = {}
                             /\ runs'[n] = [runs[n] EXCEPT !.met = i]
<1>1. /\ Delivering(n) /\ Current(n).slice \in Wired /\ runs[n].met = NotAsked
      /\ UNCHANGED <<tags, pin, recorded, items, count, meant>>
  BY DEF Find
<1>2. /\ runs[n] \in Run /\ RunOK(n) /\ runs[n] # NoRun
      /\ runs[n].at > Len(Configs) /\ runs[n].sent < Len(runs[n].findings)
  BY <1>1 DEF BaseInv, Delivering
<1>3. Key(Current(n)) \in Keys
  BY <1>2, CurrentKey
<1>4. items[Key(Current(n))] \in Seq(Item)
  BY <1>3 DEF BaseInv, Told
<1>5. PICK i \in IF Open(Key(Current(n))) = {} THEN {0} ELSE Open(Key(Current(n))) :
         runs' = [runs EXCEPT ![n].met = i]
  BY DEF Find
<1>6. /\ i \in 0..Len(items[Key(Current(n))])
      /\ i = 0 => Open(Key(Current(n))) = {}
  BY <1>4, <1>5 DEF Open
<1> DEFINE r == [runs[n] EXCEPT !.met = i]
<1>7. i \in Nat /\ Len(items[Key(Current(n))]) \in Nat /\ i <= Len(items[Key(Current(n))])
  BY <1>4, <1>6
<1>8. r \in Run
  BY <1>2, <1>7 DEF Run
<1>9. runs' = [runs EXCEPT ![n] = r]
  BY <1>5
<1>10. runs'[n] = r
  BY <1>9 DEF BaseInv
<1>11. /\ r.sent = runs[n].sent /\ r.at = runs[n].at /\ r.met = i
       /\ r.findings = runs[n].findings
  BY <1>2 DEF Run
<1>12. runs[n].at \in Nat /\ Current(n)' = Current(n) /\ UNCHANGED items
  BY <1>1, <1>2, <1>10, <1>11, ConfigsAreSlices DEF Run, Current
<1>13. RunOK(n)'
  BY <1>1, <1>2, <1>7, <1>10, <1>11, <1>12, ConfigsAreSlices DEF RunOK
<1>14. count' \in Counts
  BY <1>1 DEF BaseInv, World
<1>15. BaseInv' /\ \A m \in Runs \ {n} : runs'[m] = runs[m]
  BY <1>1, <1>8, <1>9, <1>13, <1>14, RunBase
<1> QED BY <1>1, <1>6, <1>7, <1>10, <1>15

LEMMA EndBase ==
    ASSUME WatchConstants, BaseInv, NEW n \in Runs, Done(n) \/ Fail(n)
    PROVE  /\ BaseInv' /\ UNCHANGED <<tags, pin, recorded, items, meant>>
           /\ \A m \in Runs \ {n} : runs'[m] = runs[m]
           /\ runs'[n] = NoRun
<1>1. runs' = [runs EXCEPT ![n] = NoRun] /\ UNCHANGED <<tags, pin, recorded, items, meant>>
  BY DEF Done, Fail
<1>2. runs'[n] = NoRun
  BY <1>1 DEF BaseInv
<1>3. RunOK(n)'
  BY <1>2 DEF RunOK
<1>4. count' \in Counts
  BY CountUp DEF Done, Fail, BaseInv, World
<1> QED BY <1>1, <1>2, <1>3, <1>4, RunBase

\* A report reaches one item of a key, an old one or, when none was met, a new
\* one, and no item loses anything.
Delivered(k, report, met) ==
    /\ \A q \in Keys : Len(items[q]) <= Len(items'[q])
    /\ \A q \in Keys : \A j \in 1..Len(items[q]) :
          /\ items[q][j].told \subseteq items'[q][j].told
          /\ items'[q][j].told \subseteq items[q][j].told \union report
          /\ q # k => items'[q][j].told = items[q][j].told
          /\ items'[q][j].open = items[q][j].open
    /\ \A q \in Keys : \A j \in 1..Len(items'[q]) :
          j > Len(items[q]) => /\ q = k /\ met = 0 /\ j = Len(items[q]) + 1
                               /\ items'[q][j].told = report
    /\ \E j \in 1..Len(items'[k]) : report \subseteq items'[k][j].told

Report(n) == {runs[n].findings[i] : i \in DOMAIN runs[n].findings}

LEMMA AnswerItems ==
    ASSUME WatchConstants, BaseInv, NEW n \in Runs, Answer(n)
    PROVE  Told' /\ Delivered(Key(Current(n)), Report(n), runs[n].met)
<1> DEFINE k      == Key(Current(n))
           report == Report(n)
           met    == runs[n].met
<1>1. /\ Delivering(n) /\ met # NotAsked
      /\ items' = IF met = 0
                  THEN [items EXCEPT ![k] = Append(@, [open |-> TRUE, told |-> report])]
                  ELSE [items EXCEPT ![k][met].told = @ \union report]
  BY DEF Answer, Report
<1>2. runs[n] \in Run /\ RunOK(n) /\ runs[n] # NoRun /\ runs[n].sent < Len(runs[n].findings)
  BY <1>1 DEF BaseInv, Delivering
<1>3. k \in Keys /\ Current(n) \in report
  BY <1>2, CurrentKey DEF Current, Report, Run
<1>4. report \in SUBSET Finding
  <2>1. runs[n].findings \in Seq(Finding) /\ DOMAIN runs[n].findings = 1..Len(runs[n].findings)
    BY <1>2 DEF Run
  <2> QED BY <2>1, ElementOfSeq DEF Report
<1>5. /\ items \in [Keys -> Seq(Item)]
      /\ \A q \in Keys : \A j \in 1..Len(items[q]) : items[q][j].told # {} /\ items[q][j] \in Item
  BY ElementOfSeq DEF BaseInv, Told
<1>6. /\ items[k] \in Seq(Item) /\ Len(items[k]) \in Nat
      /\ \A q \in Keys : Len(items[q]) \in Nat
  <2>1. \A q \in Keys : items[q] \in Seq(Item)
    BY <1>5
  <2>2. \A q \in Keys : Len(items[q]) \in Nat
    BY <2>1, LenProperties
  <2> QED BY <1>3, <2>1, <2>2
<1> HIDE DEF k, report, met
<1>7. CASE met = 0
  <2> DEFINE new    == [open |-> TRUE, told |-> report]
             longer == Append(items[k], new)
  <2>1. new \in Item
    BY <1>4 DEF Item
  <2>2. /\ longer \in Seq(Item) /\ Len(longer) = Len(items[k]) + 1
        /\ \A j \in 1..Len(items[k]) : longer[j] = items[k][j]
        /\ longer[Len(items[k]) + 1] = new
    BY <1>6, <2>1, AppendProperties
  <2>3. items' = [items EXCEPT ![k] = longer]
    BY <1>1, <1>7
  <2> HIDE DEF longer
  <2>4. /\ items' \in [Keys -> Seq(Item)]
        /\ items'[k] = longer /\ \A q \in Keys \ {k} : items'[q] = items[q]
    BY <1>3, <1>5, <2>2, <2>3
  <2>5. \A q \in Keys : Len(items[q]) \in Nat /\ Len(items[q]) <= Len(items'[q])
    <3> SUFFICES ASSUME NEW q \in Keys PROVE Len(items[q]) \in Nat /\ Len(items[q]) <= Len(items'[q])
      OBVIOUS
    <3>1. CASE q = k
      BY <1>6, <2>2, <2>4, <3>1
    <3>2. CASE q # k
      BY <1>6, <2>4, <3>2
    <3> QED BY <3>1, <3>2
  <2>6. ASSUME NEW q \in Keys, NEW j \in 1..Len(items[q])
        PROVE  items'[q][j] = items[q][j]
    BY <2>2, <2>4, <2>6
  <2>7. ASSUME NEW q \in Keys, NEW j \in 1..Len(items'[q]), j > Len(items[q])
        PROVE  q = k /\ j = Len(items[q]) + 1 /\ items'[q][j] = new
    <3>1. q = k
      BY <2>4, <2>5, <2>7
    <3> QED BY <1>6, <2>2, <2>4, <2>7, <3>1
  <2>8. /\ Len(items[k]) + 1 \in 1..Len(items'[k])
        /\ items'[k][Len(items[k]) + 1].told = report
    BY <1>6, <2>2, <2>4
  <2>9. Delivered(k, report, met)
    BY <1>7, <2>5, <2>6, <2>7, <2>8 DEF Delivered
  <2>10. \A q \in Keys : \A j \in 1..Len(items'[q]) : items'[q][j].told # {}
    <3> SUFFICES ASSUME NEW q \in Keys, NEW j \in 1..Len(items'[q]) PROVE items'[q][j].told # {}
      OBVIOUS
    <3>1. CASE j \in 1..Len(items[q])
      BY <1>5, <2>6, <3>1
    <3>2. CASE j > Len(items[q])
      BY <1>3, <2>7, <3>2
    <3> QED BY <2>5, <3>1, <3>2
  <2> QED BY <2>4, <2>9, <2>10 DEF Told, k, report, met
<1>8. CASE met # 0
  <2>1. met \in 1..Len(items[k])
    <3>1. met \in Nat /\ met <= Len(items[k])
      BY <1>1, <1>2 DEF Run, RunOK, met, k
    <3> QED BY <1>6, <1>8, <3>1
  <2> DEFINE new   == [items[k][met] EXCEPT !.told = @ \union report]
             fuller == [items[k] EXCEPT ![met] = new]
  <2>2. /\ new \in Item /\ new.told = items[k][met].told \union report
        /\ new.open = items[k][met].open
    BY <1>3, <1>4, <1>5, <2>1 DEF Item
  <2>3. /\ fuller \in Seq(Item) /\ Len(fuller) = Len(items[k])
        /\ \A j \in 1..Len(items[k]) : fuller[j] = IF j = met THEN new ELSE items[k][j]
    BY <1>6, <2>1, <2>2, ExceptSeq
  <2>4. items' = [items EXCEPT ![k] = fuller]
    BY <1>1, <1>8
  <2> HIDE DEF fuller, new
  <2>5. /\ items' \in [Keys -> Seq(Item)]
        /\ items'[k] = fuller /\ \A q \in Keys \ {k} : items'[q] = items[q]
    BY <1>3, <1>5, <2>3, <2>4
  <2>6. \A q \in Keys : Len(items[q]) \in Nat /\ Len(items[q]) = Len(items'[q])
    BY <1>6, <2>3, <2>5
  <2>7. ASSUME NEW q \in Keys, NEW j \in 1..Len(items[q])
        PROVE  /\ items[q][j].told \subseteq items'[q][j].told
               /\ items'[q][j].told \subseteq items[q][j].told \union report
               /\ q # k => items'[q][j].told = items[q][j].told
               /\ items'[q][j].open = items[q][j].open
    <3>1. CASE q = k /\ j = met
      BY <2>2, <2>3, <2>5, <2>7, <3>1
    <3>2. CASE ~(q = k /\ j = met)
      <4>1. items'[q][j] = items[q][j]
        BY <2>3, <2>5, <2>7, <3>2
      <4> QED BY <4>1
    <3> QED BY <3>1, <3>2
  <2>8. report \subseteq items'[k][met].told /\ met \in 1..Len(items'[k])
    BY <1>3, <2>1, <2>2, <2>3, <2>5
  <2>9. Delivered(k, report, met)
    BY <2>6, <2>7, <2>8 DEF Delivered
  <2>10. \A q \in Keys : \A j \in 1..Len(items'[q]) : items'[q][j].told # {}
    <3> SUFFICES ASSUME NEW q \in Keys, NEW j \in 1..Len(items'[q]) PROVE items'[q][j].told # {}
      OBVIOUS
    <3>1. j \in 1..Len(items[q])
      BY <2>6
    <3>2. items[q][j].told # {}
      BY <1>5, <3>1
    <3>3. items[q][j].told \subseteq items'[q][j].told
      BY <2>7, <3>1
    <3> QED BY <3>2, <3>3
  <2> QED BY <2>5, <2>9, <2>10 DEF Told, k, report, met
<1> QED BY <1>7, <1>8 DEF k, report, met

LEMMA AnswerBase ==
    ASSUME WatchConstants, BaseInv, NEW n \in Runs, Answer(n)
    PROVE  /\ BaseInv' /\ UNCHANGED <<tags, pin, recorded, meant>>
           /\ Delivering(n) /\ runs[n].met # NotAsked /\ Current(n).slice \in Wired
           /\ \A m \in Runs \ {n} : runs'[m] = runs[m]
           /\ runs'[n] = [runs[n] EXCEPT !.met = NotAsked, !.sent = @ + 1]
           /\ Delivered(Key(Current(n)), Report(n), runs[n].met)
<1> DEFINE r == [runs[n] EXCEPT !.met = NotAsked, !.sent = @ + 1]
<1>1. /\ Delivering(n) /\ runs[n].met # NotAsked
      /\ runs' = [runs EXCEPT ![n] = r]
      /\ UNCHANGED <<tags, pin, recorded, count, meant>>
  BY DEF Answer
<1>2. /\ runs[n] \in Run /\ RunOK(n) /\ runs[n] # NoRun
      /\ runs[n].at > Len(Configs) /\ runs[n].sent < Len(runs[n].findings)
  BY <1>1 DEF BaseInv, Delivering
<1>3. /\ runs[n].sent \in Nat /\ Len(runs[n].findings) \in Nat /\ runs[n].at \in Nat
  BY <1>2, ConfigsAreSlices DEF Run
<1>4. r \in Run
  <2>1. runs[n].sent + 1 \in Nat
    BY <1>3
  <2> QED BY <1>2, <2>1 DEF Run
<1>5. /\ runs' \in [Runs -> Run \union {NoRun}]
      /\ runs'[n] = r /\ \A m \in Runs \ {n} : runs'[m] = runs[m]
  BY <1>1, <1>4 DEF BaseInv
<1>6. /\ r.sent = runs[n].sent + 1 /\ r.at = runs[n].at /\ r.met = NotAsked
      /\ r.findings = runs[n].findings
  BY <1>2 DEF Run
<1>7. RunOK(n)'
  BY <1>2, <1>3, <1>5, <1>6, ConfigsAreSlices DEF RunOK
<1>8. Told' /\ Delivered(Key(Current(n)), Report(n), runs[n].met)
  BY AnswerItems
<1>9. ASSUME NEW m \in Runs \ {n} PROVE RunOK(m)'
  <2>1. RunOK(m) /\ runs'[m] = runs[m] /\ Current(m)' = Current(m) /\ runs[m] \in Run \union {NoRun}
    BY <1>5 DEF BaseInv, Current
  <2>2. CASE runs[m] # NoRun /\ runs[m].met # NotAsked
    <3>1. Key(Current(m)) \in Keys /\ runs[m].met \in Nat
      BY <2>1, <2>2, CurrentKey DEF RunOK, Run
    <3>2. /\ Len(items[Key(Current(m))]) <= Len(items'[Key(Current(m))])
          /\ runs[m].met <= Len(items[Key(Current(m))])
      BY <1>8, <2>1, <2>2, <3>1 DEF Delivered, RunOK
    <3>3. Len(items[Key(Current(m))]) \in Nat /\ Len(items'[Key(Current(m))]) \in Nat
      BY <1>8, <3>1, LenProperties DEF BaseInv, Told
    <3>4. runs[m].met <= Len(items'[Key(Current(m))])
      BY <3>1, <3>2, <3>3
    <3> QED BY <2>1, <3>4 DEF RunOK
  <2> QED BY <2>1, <2>2 DEF RunOK
<1>10. World'
  BY <1>1 DEF BaseInv, World
<1> QED BY <1>1, <1>2, <1>5, <1>7, <1>8, <1>9, <1>10 DEF BaseInv, RunOK

\* The steps, by what they disturb.
LEMMA Steps ==
    ASSUME Next
    PROVE  \/ Outside
           \/ \E k \in Keys : \E i \in DOMAIN items[k] : Close(k, i)
           \/ \E n \in Runs : \/ Begin(n) \/ List(n) \/ Unreadable(n) \/ Compare(n)
                              \/ Skip(n) \/ Find(n) \/ Answer(n) \/ Done(n) \/ Fail(n)
BY DEF Next, Outside, Work

LEMMA InitBase == ASSUME WatchConstants, Init PROVE BaseInv
<1>1. World
  <2>1. count \in Counts
    BY DEF Init, Counts, WatchConstants
  <2>2. [release |-> Onboarded, commit |-> Origin] \in Manifest
    BY DEF Manifest, WatchConstants
  <2> QED BY <2>1, <2>2 DEF Init, World, WatchConstants, Listing
<1>2. Told
  BY EmptySeq DEF Init, Told
<1>3. runs \in [Runs -> Run \union {NoRun}] /\ \A n \in Runs : RunOK(n)
  BY DEF Init, RunOK
<1> QED BY <1>1, <1>2, <1>3 DEF BaseInv

LEMMA StepBase == ASSUME WatchConstants, BaseInv, [Next]_vars PROVE BaseInv'
<1>1. CASE UNCHANGED vars
  BY <1>1 DEF vars, BaseInv, World, Told, RunOK, Current
<1>2. CASE Next
  BY <1>2, Steps, OutsideBase, CloseBase, BeginBase, ListBase, CollectBase, SkipBase, FindBase,
     AnswerBase, EndBase
<1> QED BY <1>1, <1>2

(* Types, for every set of slices, releases, commits and runs: a run in any   *)
(* interleaving stays within its report and its items, and no item is empty.  *)
THEOREM TypesHold == Spec => []TypeOK
<1> USE WatchConstants
<1>1. Init => BaseInv
  BY InitBase
<1>2. BaseInv /\ [Next]_vars => BaseInv'
  BY StepBase
<1>3. BaseInv => TypeOK
  BY BaseIsTyped
<1> QED BY <1>1, <1>2, <1>3, PTL DEF Spec

-----------------------------------------------------------------------------
(* No false alarm.                                                           *)

\* A tag that a finding calls moved pointed somewhere else before.
Genuine(f) == f.kind = "tag-moved" => meant[f.slice][f.pinned] \ {f.about} # {}

TagsMeant == \A s \in Slices, v \in Releases : tags[s][v] # NoTag => tags[s][v] \in meant[s][v]

ManifestMeant(m) == \A s \in Slices : m[s].commit \in meant[s][m[s].release]

RunMeant(n) ==
    LET r == runs[n]
    IN  r # NoRun =>
          /\ ManifestMeant(r.recorded)
          /\ r.at <= Len(Configs) /\ r.listing # NoListing =>
                \A v \in Releases : r.listing[v] # NoTag => r.listing[v] \in meant[Configs[r.at]][v]
          /\ \A i \in 1..Len(r.findings) : Genuine(r.findings[i])

\* What was listed, recorded or found was once the truth.
MeantInv ==
    /\ TagsMeant /\ ManifestMeant(recorded)
    /\ \A n \in Runs : RunMeant(n)
    /\ \A k \in Keys : \A i \in 1..Len(items[k]) : \A f \in items[k][i].told : Genuine(f)

LEMMA GenuineStays ==
    ASSUME MeantGrows \/ UNCHANGED meant, NEW f \in Finding, Genuine(f)
    PROVE  Genuine(f)'
<1>1. f.kind = "tag-moved" => f.slice \in Slices /\ f.pinned \in Releases
  BY DEF Finding
<1> QED BY <1>1 DEF Genuine, MeantGrows

LEMMA ItemsFind ==
    ASSUME BaseInv
    PROVE  /\ \A k \in Keys : \A i \in 1..Len(items[k]) : items[k][i].told \subseteq Finding
           /\ \A n \in Runs : runs[n] # NoRun =>
                 \A i \in 1..Len(runs[n].findings) : runs[n].findings[i] \in Finding
<1>1. ASSUME NEW k \in Keys, NEW i \in 1..Len(items[k]) PROVE items[k][i].told \subseteq Finding
  <2>1. items[k] \in Seq(Item)
    BY DEF BaseInv, Told
  <2>2. items[k][i] \in Item
    BY <2>1, ElementOfSeq
  <2> QED BY <2>2 DEF Item
<1>2. ASSUME NEW n \in Runs, runs[n] # NoRun, NEW i \in 1..Len(runs[n].findings)
      PROVE  runs[n].findings[i] \in Finding
  <2>1. runs[n].findings \in Seq(Finding)
    BY <1>2 DEF BaseInv, Run
  <2> QED BY <2>1, ElementOfSeq
<1> QED BY <1>1, <1>2

\* A run that does not move keeps its promise while meant only grows.
LEMMA RunMeantStays ==
    ASSUME WatchConstants, BaseInv, NEW n \in Runs, RunMeant(n), runs'[n] = runs[n],
           MeantGrows \/ UNCHANGED meant
    PROVE  RunMeant(n)'
<1> SUFFICES ASSUME runs[n] # NoRun PROVE RunMeant(n)'
  BY DEF RunMeant
<1>1. runs[n] \in Run
  BY DEF BaseInv
<1>2. ManifestMeant(runs[n].recorded)'
  <2>1. \A s \in Slices : runs[n].recorded[s].release \in Releases
    BY <1>1 DEF Run, Manifest
  <2> QED BY <2>1 DEF RunMeant, ManifestMeant, MeantGrows
<1>3. \A i \in 1..Len(runs[n].findings) : Genuine(runs[n].findings[i])'
  <2> SUFFICES ASSUME NEW i \in 1..Len(runs[n].findings) PROVE Genuine(runs[n].findings[i])'
    OBVIOUS
  <2>1. PICK f : f = runs[n].findings[i]
    OBVIOUS
  <2>2. f \in Finding /\ Genuine(f)
    BY <2>1, ItemsFind DEF RunMeant
  <2>3. Genuine(f)'
    BY <2>2, GenuineStays
  <2> QED BY <2>1, <2>3 DEF Genuine
<1>4. runs[n].at <= Len(Configs) /\ runs[n].listing # NoListing =>
         \A v \in Releases : runs[n].listing[v] # NoTag =>
            runs[n].listing[v] \in meant'[Configs[runs[n].at]][v]
  <2>1. runs[n].at <= Len(Configs) => Configs[runs[n].at] \in Slices
    BY <1>1, ConfigsAreSlices DEF Run
  <2> QED BY <2>1 DEF RunMeant, MeantGrows
<1> QED BY <1>2, <1>3, <1>4 DEF RunMeant, ManifestMeant, Genuine

\* Items that only lose nothing and learn nothing that is not genuine.
LEMMA ItemsMeantStay ==
    ASSUME BaseInv, MeantInv, MeantGrows \/ UNCHANGED meant, UNCHANGED items
    PROVE  \A k \in Keys : \A i \in 1..Len(items'[k]) : \A f \in items'[k][i].told : Genuine(f)'
<1> SUFFICES ASSUME NEW k \in Keys, NEW i \in 1..Len(items[k]), NEW f \in items[k][i].told
             PROVE  Genuine(f)'
  OBVIOUS
<1>1. f \in Finding /\ Genuine(f)
  BY ItemsFind DEF MeantInv
<1> QED BY <1>1, GenuineStays

LEMMA MeantOutside ==
    ASSUME WatchConstants, BaseInv, MeantInv, Outside
    PROVE  MeantInv'
<1>1. BaseInv' /\ MeantGrows /\ UNCHANGED <<items, runs>>
  BY OutsideBase
<1>2. \A n \in Runs : RunMeant(n)'
  BY <1>1, RunMeantStays DEF MeantInv
<1>3. \A k \in Keys : \A i \in 1..Len(items'[k]) : \A f \in items'[k][i].told : Genuine(f)'
  BY <1>1, ItemsMeantStay
<1>4. TagsMeant' /\ ManifestMeant(recorded)'
  <2>1. \A s \in Slices : recorded[s].release \in Releases
    BY DEF BaseInv, World, Manifest
  <2>2. ASSUME NEW s \in Slices, NEW v \in Releases, NEW c \in Commits \union {NoTag}, Retag(s, v, c)
        PROVE  TagsMeant' /\ ManifestMeant(recorded)'
    <3>1. TagsMeant'
      <4> SUFFICES ASSUME NEW t \in Slices, NEW w \in Releases, tags'[t][w] # NoTag
                   PROVE  tags'[t][w] \in meant'[t][w]
        BY DEF TagsMeant
      <4>1. CASE t = s /\ w = v
        BY <2>2, <4>1, RetagBase
      <4>2. CASE t # s \/ w # v
        <5>1. tags'[t][w] = tags[t][w]
          BY <2>2, <4>2, RetagBase
        <5> QED BY <1>1, <5>1 DEF MeantInv, TagsMeant, MeantGrows
      <4> QED BY <4>1, <4>2
    <3>2. ManifestMeant(recorded)'
      BY <1>1, <2>1, <2>2, RetagBase DEF MeantInv, ManifestMeant, MeantGrows
    <3> QED BY <3>1, <3>2
  <2>3. ASSUME NEW s \in Slices, NEW v \in Releases, Adopt(s, v)
        PROVE  TagsMeant' /\ ManifestMeant(recorded)'
    <3>1. /\ recorded' = [recorded EXCEPT ![s] = [release |-> v, commit |-> tags[s][v]]]
          /\ tags[s][v] # NoTag /\ UNCHANGED <<tags, meant>>
      BY <2>3 DEF Adopt
    <3>2. TagsMeant' /\ tags[s][v] \in meant[s][v]
      BY <3>1 DEF MeantInv, TagsMeant
    <3>3. /\ recorded'[s] = [release |-> v, commit |-> tags[s][v]]
          /\ \A t \in Slices \ {s} : recorded'[t] = recorded[t]
      BY <3>1 DEF BaseInv, World
    <3>4. ManifestMeant(recorded)'
      BY <3>1, <3>2, <3>3 DEF MeantInv, ManifestMeant
    <3> QED BY <3>2, <3>4
  <2>4. ASSUME NEW s \in Slices, NEW v \in Releases \union {Broken}, EditPin(s, v)
        PROVE  TagsMeant' /\ ManifestMeant(recorded)'
    BY <2>4 DEF EditPin, MeantInv, TagsMeant, ManifestMeant
  <2> QED BY <2>2, <2>3, <2>4 DEF Outside, Publish, Tamper
<1> QED BY <1>2, <1>3, <1>4 DEF MeantInv

\* A step of run n that writes no item: what it now holds must be meant.
LEMMA MeantRun ==
    ASSUME WatchConstants, BaseInv, MeantInv, NEW n \in Runs,
           UNCHANGED <<tags, pin, recorded, items, meant>>,
           \A m \in Runs \ {n} : runs'[m] = runs[m], RunMeant(n)'
    PROVE  MeantInv'
<1>1. \A m \in Runs : RunMeant(m)'
  BY RunMeantStays DEF MeantInv
<1>2. TagsMeant' /\ ManifestMeant(recorded)'
  BY DEF MeantInv, TagsMeant, ManifestMeant
<1>3. \A k \in Keys : \A i \in 1..Len(items'[k]) : \A f \in items'[k][i].told : Genuine(f)'
  BY ItemsMeantStay
<1> QED BY <1>1, <1>2, <1>3 DEF MeantInv

LEMMA MeantCollect ==
    ASSUME WatchConstants, BaseInv, MeantInv, NEW n \in Runs, Unreadable(n) \/ Compare(n)
    PROVE  RunMeant(n)'
<1> DEFINE s == Configs[runs[n].at]
<1>1. /\ Collecting(n) /\ runs[n].at \in 1..Len(Configs) /\ UNCHANGED meant
      /\ \E found \in Seq(Finding) :
            /\ Sound(found, s, runs[n].pin[s], runs[n].recorded[s], runs[n].listing)
            /\ runs[n].listing = NoListing => \A i \in 1..Len(found) : found[i].kind # "tag-moved"
            /\ runs'[n] = [runs[n] EXCEPT !.at = @ + 1, !.listing = NoListing,
                                          !.findings = @ \o found]
  BY CollectBase
<1>2. PICK found \in Seq(Finding) :
            /\ Sound(found, s, runs[n].pin[s], runs[n].recorded[s], runs[n].listing)
            /\ runs[n].listing = NoListing => \A i \in 1..Len(found) : found[i].kind # "tag-moved"
            /\ runs'[n] = [runs[n] EXCEPT !.at = @ + 1, !.listing = NoListing,
                                          !.findings = @ \o found]
  BY <1>1
<1>3. runs[n] \in Run /\ RunMeant(n) /\ runs[n] # NoRun /\ runs[n].at <= Len(Configs)
  BY <1>1 DEF BaseInv, Collecting, MeantInv
<1>4. s \in Slices /\ runs[n].findings \in Seq(Finding)
  BY <1>1, <1>3, ConfigsAreSlices DEF Run
<1>5. \A i \in 1..Len(found) : Genuine(found[i])
  <2> SUFFICES ASSUME NEW i \in 1..Len(found), found[i].kind = "tag-moved"
               PROVE  meant[found[i].slice][found[i].pinned] \ {found[i].about} # {}
    BY DEF Genuine
  <2>1. /\ found[i].slice = s /\ found[i].pinned = runs[n].pin[s]
        /\ runs[n].recorded[s].release = runs[n].pin[s]
        /\ found[i].about = runs[n].listing[runs[n].pin[s]]
        /\ runs[n].recorded[s].commit # found[i].about
    BY <1>2 DEF Sound
  <2>2. runs[n].recorded[s].commit \in meant[s][runs[n].recorded[s].release]
    BY <1>3, <1>4 DEF RunMeant, ManifestMeant
  <2> QED BY <2>1, <2>2
<1>6. /\ runs'[n].recorded = runs[n].recorded /\ runs'[n].listing = NoListing
      /\ runs'[n].findings = runs[n].findings \o found
  BY <1>2, <1>3 DEF Run
<1>7. ASSUME NEW i \in 1..Len(runs[n].findings \o found) PROVE Genuine((runs[n].findings \o found)[i])
  <2>1. \/ /\ i \in 1..Len(runs[n].findings)
           /\ (runs[n].findings \o found)[i] = runs[n].findings[i]
        \/ /\ i - Len(runs[n].findings) \in 1..Len(found)
           /\ (runs[n].findings \o found)[i] = found[i - Len(runs[n].findings)]
    BY <1>4, ConcatProperties, LenProperties
  <2> QED BY <1>3, <1>5, <2>1 DEF RunMeant
<1>8. ManifestMeant(runs[n].recorded)
  BY <1>3 DEF RunMeant
<1> QED BY <1>1, <1>6, <1>7, <1>8 DEF RunMeant, ManifestMeant, Genuine

LEMMA MeantAnswer ==
    ASSUME WatchConstants, BaseInv, MeantInv, NEW n \in Runs, Answer(n)
    PROVE  MeantInv'
<1>1. /\ UNCHANGED <<tags, pin, recorded, meant>>
      /\ \A m \in Runs \ {n} : runs'[m] = runs[m]
      /\ runs'[n] = [runs[n] EXCEPT !.met = NotAsked, !.sent = @ + 1]
      /\ Delivered(Key(Current(n)), Report(n), runs[n].met)
      /\ runs[n] \in Run /\ runs[n] # NoRun
  BY AnswerBase DEF BaseInv, Delivering
<1>2. RunMeant(n)'
  <2>1. /\ runs'[n].recorded = runs[n].recorded /\ runs'[n].listing = runs[n].listing
        /\ runs'[n].findings = runs[n].findings /\ runs'[n].at = runs[n].at
    BY <1>1 DEF Run
  <2> QED BY <1>1, <2>1 DEF MeantInv, RunMeant, ManifestMeant, Genuine
<1>3. \A m \in Runs : RunMeant(m)'
  BY <1>1, <1>2, RunMeantStays DEF MeantInv
<1>4. TagsMeant' /\ ManifestMeant(recorded)'
  BY <1>1 DEF MeantInv, TagsMeant, ManifestMeant
<1>5. \A f \in Report(n) : Genuine(f)
  <2>1. DOMAIN runs[n].findings = 1..Len(runs[n].findings)
    BY <1>1 DEF Run
  <2> QED BY <1>1, <2>1 DEF MeantInv, RunMeant, Report
<1>6. \A k \in Keys : \A i \in 1..Len(items'[k]) : \A f \in items'[k][i].told : Genuine(f)'
  <2> SUFFICES ASSUME NEW k \in Keys, NEW i \in 1..Len(items'[k]), NEW f \in items'[k][i].told
               PROVE  Genuine(f)
    BY <1>1 DEF Genuine
  <2>1. CASE i \in 1..Len(items[k])
    BY <1>1, <1>5, <2>1 DEF MeantInv, Delivered
  <2>2. CASE i > Len(items[k])
    BY <1>1, <1>5, <2>2 DEF Delivered
  <2>3. Len(items[k]) \in Nat
    BY LenProperties DEF BaseInv, Told
  <2> QED BY <2>1, <2>2, <2>3
<1> QED BY <1>3, <1>4, <1>6 DEF MeantInv

LEMMA MeantStep == ASSUME WatchConstants, BaseInv, MeantInv, Next PROVE MeantInv'
<1>1. CASE Outside
  BY <1>1, MeantOutside
<1>2. ASSUME NEW k \in Keys, NEW i \in DOMAIN items[k], Close(k, i) PROVE MeantInv'
  <2>1. /\ UNCHANGED <<tags, pin, recorded, runs, meant>>
        /\ \A q \in Keys : /\ Len(items'[q]) = Len(items[q])
                           /\ \A j \in 1..Len(items[q]) : items'[q][j].told = items[q][j].told
    BY <1>2, CloseBase
  <2>2. \A n \in Runs : RunMeant(n)'
    BY <2>1, RunMeantStays DEF MeantInv
  <2>3. \A q \in Keys : \A j \in 1..Len(items'[q]) : \A f \in items'[q][j].told : Genuine(f)'
    BY <2>1 DEF MeantInv, Genuine
  <2> QED BY <2>1, <2>2, <2>3 DEF MeantInv, TagsMeant, ManifestMeant
<1>3. ASSUME NEW n \in Runs, Begin(n) PROVE MeantInv'
  <2>1. RunMeant(n)'
    BY <1>3, BeginBase DEF MeantInv, RunMeant, ManifestMeant
  <2> QED BY <1>3, <2>1, BeginBase, MeantRun
<1>4. ASSUME NEW n \in Runs, List(n) PROVE MeantInv'
  <2>1. /\ runs'[n] = [runs[n] EXCEPT !.listing = tags[Configs[runs[n].at]]]
        /\ Collecting(n) /\ runs[n].at \in 1..Len(Configs) /\ UNCHANGED meant
        /\ runs[n] \in Run /\ runs[n] # NoRun
    BY <1>4, ListBase DEF BaseInv, Collecting
  <2>2. /\ runs'[n].listing = tags[Configs[runs[n].at]] /\ runs'[n].at = runs[n].at
        /\ runs'[n].findings = runs[n].findings /\ runs'[n].recorded = runs[n].recorded
    BY <2>1 DEF Run
  <2>3. RunMeant(n)'
    BY <2>1, <2>2, ConfigsAreSlices DEF MeantInv, RunMeant, ManifestMeant, TagsMeant, Genuine
  <2> QED BY <1>4, <2>3, ListBase, MeantRun
<1>5. ASSUME NEW n \in Runs, Unreadable(n) \/ Compare(n) PROVE MeantInv'
  BY <1>5, CollectBase, MeantCollect, MeantRun
<1>6. ASSUME NEW n \in Runs, Skip(n) \/ Find(n) PROVE MeantInv'
  <2>1. /\ runs[n] \in Run /\ runs[n] # NoRun /\ UNCHANGED meant
        /\ \/ runs'[n] = [runs[n] EXCEPT !.sent = @ + 1]
           \/ \E i \in Nat : runs'[n] = [runs[n] EXCEPT !.met = i]
    BY <1>6, SkipBase, FindBase DEF BaseInv, Delivering
  <2>2. /\ runs'[n].listing = runs[n].listing /\ runs'[n].at = runs[n].at
        /\ runs'[n].findings = runs[n].findings /\ runs'[n].recorded = runs[n].recorded
    BY <2>1 DEF Run
  <2>3. RunMeant(n)'
    <3>1. RunMeant(n) /\ UNCHANGED meant
      BY <2>1 DEF MeantInv
    <3>2. ManifestMeant(runs[n].recorded)'
      BY <2>1, <2>2, <3>1 DEF RunMeant, ManifestMeant
    <3>3. (\A i \in 1..Len(runs[n].findings) : Genuine(runs[n].findings[i]))'
      BY <2>1, <2>2, <3>1 DEF RunMeant, Genuine
    <3>4. (runs[n].at <= Len(Configs) /\ runs[n].listing # NoListing =>
             \A v \in Releases : runs[n].listing[v] # NoTag =>
                runs[n].listing[v] \in meant[Configs[runs[n].at]][v])'
      BY <2>1, <2>2, <3>1 DEF RunMeant
    <3> QED BY <3>2, <3>3, <3>4 DEF RunMeant
  <2> QED BY <1>6, <2>3, SkipBase, FindBase, MeantRun
<1>7. ASSUME NEW n \in Runs, Answer(n) PROVE MeantInv'
  BY <1>7, MeantAnswer
<1>8. ASSUME NEW n \in Runs, Done(n) \/ Fail(n) PROVE MeantInv'
  <2>1. RunMeant(n)'
    BY <1>8, EndBase DEF RunMeant
  <2> QED BY <1>8, <2>1, EndBase, MeantRun
<1> QED BY <1>1, <1>2, <1>3, <1>4, <1>5, <1>6, <1>7, <1>8, Steps

(* No false alarm, for any number of runs, slices and releases: a tag that a  *)
(* work item calls moved did point at another commit before, whatever pins    *)
(* and adoptions surround the run (watch.go:132).                             *)
THEOREM AlarmsAreTrue == Spec => []NoFalseAlarm
<1> USE WatchConstants
<1>1. Init => BaseInv /\ MeantInv
  <2>1. ASSUME Init PROVE MeantInv
    BY <2>1, EmptySeq DEF Init, MeantInv, TagsMeant, ManifestMeant, RunMeant, WatchConstants
  <2> QED BY <2>1, InitBase
<1>2. BaseInv /\ MeantInv /\ [Next]_vars => (BaseInv /\ MeantInv)'
  <2>1. BaseInv /\ MeantInv /\ UNCHANGED vars => MeantInv'
    BY DEF vars, MeantInv, TagsMeant, ManifestMeant, RunMeant, Genuine
  <2> QED BY <2>1, StepBase, MeantStep
<1>3. BaseInv /\ MeantInv => NoFalseAlarm
  <2> SUFFICES ASSUME BaseInv, MeantInv PROVE NoFalseAlarm
    OBVIOUS
  <2>1. \A k \in Keys : DOMAIN items[k] = 1..Len(items[k])
    BY DEF BaseInv, Told
  <2> QED BY <2>1 DEF MeantInv, Genuine, NoFalseAlarm
<1> QED BY <1>1, <1>2, <1>3, PTL DEF Spec

-----------------------------------------------------------------------------
(* Integrity first.                                                          *)

\* Some item of its own key tells a finding.
Vouched(f) == \E j \in 1..Len(items[Key(f)]) : f \in items[Key(f)][j].told

\* A run has told what it sent; its findings come slice by slice, a moved tag
\* ahead of whatever else there is about its slice.
OrderOK(n) ==
    LET r == runs[n]
    IN  r # NoRun =>
          /\ \A i \in 1..r.sent : r.findings[i].slice \in Wired => Vouched(r.findings[i])
          /\ \A i, j \in 1..Len(r.findings) :
                r.findings[i].slice = r.findings[j].slice /\ r.findings[i].kind = "tag-moved" => i <= j
          /\ \A i \in 1..Len(r.findings) : \E m \in 1..(r.at - 1) : r.findings[i].slice = Configs[m]

FirstInv == IntegrityFirst /\ \A n \in Runs : OrderOK(n)

\* Nothing that was told is forgotten.
Remembers ==
    \A q \in Keys : /\ Len(items[q]) <= Len(items'[q])
                    /\ \A j \in 1..Len(items[q]) : items[q][j].told \subseteq items'[q][j].told

LEMMA VouchedStays ==
    ASSUME BaseInv, BaseInv', Remembers, NEW f \in Finding, Vouched(f)
    PROVE  Vouched(f)'
<1>1. Key(f) \in Keys
  BY DEF Key, Keys, Finding
<1>2. Len(items[Key(f)]) \in Nat /\ Len(items'[Key(f)]) \in Nat
  BY <1>1, LenProperties DEF BaseInv, Told
<1> QED BY <1>1, <1>2 DEF Vouched, Remembers

LEMMA OrderStays ==
    ASSUME BaseInv, BaseInv', Remembers, NEW n \in Runs, OrderOK(n),
           runs'[n] # NoRun => /\ runs[n] # NoRun
                               /\ runs'[n].findings = runs[n].findings
                               /\ runs'[n].sent = runs[n].sent /\ runs'[n].at = runs[n].at
    PROVE  OrderOK(n)'
<1> SUFFICES ASSUME runs'[n] # NoRun PROVE OrderOK(n)'
  BY DEF OrderOK
<1>1. /\ runs[n].sent \in Nat /\ Len(runs[n].findings) \in Nat
      /\ runs[n].sent <= Len(runs[n].findings)
  BY LenProperties DEF BaseInv, Run, RunOK
<1>2. ASSUME NEW i \in 1..runs[n].sent, runs[n].findings[i].slice \in Wired
      PROVE  Vouched(runs[n].findings[i])'
  <2>1. PICK f : f = runs[n].findings[i]
    OBVIOUS
  <2>2. i \in 1..Len(runs[n].findings)
    BY <1>1
  <2>3. f \in Finding /\ Vouched(f)
    BY <1>2, <2>1, <2>2, ItemsFind DEF OrderOK
  <2>4. Vouched(f)'
    BY <2>3, VouchedStays
  <2> QED BY <2>1, <2>4 DEF Vouched
<1> QED BY <1>2 DEF OrderOK, Vouched

\* A step that tells nothing new about an update.
LEMMA FirstStays ==
    ASSUME BaseInv, BaseInv', IntegrityFirst, Remembers,
           \A q \in Keys : /\ Len(items'[q]) = Len(items[q])
                           /\ \A j \in 1..Len(items[q]) : items'[q][j].told = items[q][j].told
    PROVE  IntegrityFirst'
<1>1. \A q \in Keys : /\ DOMAIN items[q] = 1..Len(items[q])
                      /\ DOMAIN items'[q] = 1..Len(items'[q])
  BY DEF BaseInv, Told
<1>2. \A s \in Slices : <<s, "update">> \in Keys /\ <<s, "integrity">> \in Keys
  BY DEF Keys
<1> SUFFICES ASSUME NEW s \in Slices, NEW i \in DOMAIN items'[<<s, "update">>],
                    NEW f \in items'[<<s, "update">>][i].told, f.kind = "tag-moved", f.slice = s
             PROVE  \E j \in DOMAIN items'[<<s, "integrity">>] : f \in items'[<<s, "integrity">>][j].told
  BY DEF IntegrityFirst
<1>3. i \in DOMAIN items[<<s, "update">>] /\ f \in items[<<s, "update">>][i].told
  BY <1>1, <1>2
<1>4. PICK j \in DOMAIN items[<<s, "integrity">>] : f \in items[<<s, "integrity">>][j].told
  BY <1>3 DEF IntegrityFirst
<1> QED BY <1>1, <1>2, <1>4

\* A step that tells nothing.
LEMMA FirstQuiet ==
    ASSUME WatchConstants, BaseInv, BaseInv', FirstInv, UNCHANGED items, NEW n \in Runs,
           \A m \in Runs \ {n} : runs'[m] = runs[m], OrderOK(n)'
    PROVE  FirstInv'
<1>1. Remembers
  <2>1. \A q \in Keys : Len(items[q]) \in Nat
    BY LenProperties DEF BaseInv, Told
  <2> QED BY <2>1 DEF Remembers
<1>2. \A m \in Runs : OrderOK(m)'
  BY <1>1, OrderStays DEF FirstInv
<1>3. IntegrityFirst'
  BY DEF FirstInv, IntegrityFirst
<1> QED BY <1>2, <1>3 DEF FirstInv

LEMMA OrderCollect ==
    ASSUME WatchConstants, BaseInv, FirstInv, NEW n \in Runs, Unreadable(n) \/ Compare(n)
    PROVE  OrderOK(n)'
<1> DEFINE s == Configs[runs[n].at]
<1>1. /\ Collecting(n) /\ runs[n].at \in 1..Len(Configs) /\ UNCHANGED items
      /\ \E found \in Seq(Finding) :
            /\ Sound(found, s, runs[n].pin[s], runs[n].recorded[s], runs[n].listing)
            /\ runs'[n] = [runs[n] EXCEPT !.at = @ + 1, !.listing = NoListing,
                                          !.findings = @ \o found]
  BY CollectBase
<1>2. PICK found \in Seq(Finding) :
            /\ Sound(found, s, runs[n].pin[s], runs[n].recorded[s], runs[n].listing)
            /\ runs'[n] = [runs[n] EXCEPT !.at = @ + 1, !.listing = NoListing,
                                          !.findings = @ \o found]
  BY <1>1
<1>3. runs[n] \in Run /\ OrderOK(n) /\ RunOK(n) /\ runs[n] # NoRun /\ runs[n].at <= Len(Configs)
  BY <1>1 DEF BaseInv, Collecting, FirstInv
<1>4. PICK old, all, at : /\ old = runs[n].findings /\ all = old \o found /\ at = runs[n].at
  OBVIOUS
<1>5. /\ runs'[n].findings = all /\ runs'[n].sent = 0 /\ runs'[n].at = at + 1
  BY <1>2, <1>3, <1>4 DEF Run, RunOK
<1>6. /\ old \in Seq(Finding) /\ Len(old) \in Nat /\ Len(found) \in Nat
      /\ Len(all) = Len(old) + Len(found) /\ at \in 1..Len(Configs)
      /\ \A i \in 1..Len(all) : all[i] = IF i <= Len(old) THEN old[i] ELSE found[i - Len(old)]
  BY <1>1, <1>3, <1>4, ConcatProperties, LenProperties DEF Run
<1>7. /\ \A i, j \in 1..Len(old) :
            old[i].slice = old[j].slice /\ old[i].kind = "tag-moved" => i <= j
      /\ \A i \in 1..Len(old) : \E m \in 1..(at - 1) : old[i].slice = Configs[m]
  BY <1>3, <1>4 DEF OrderOK
<1>8. \A i \in 1..Len(found) : /\ found[i].slice = Configs[at]
                               /\ found[i].kind = "tag-moved" => i = 1
  BY <1>2, <1>4 DEF Sound
<1>9. ASSUME NEW i \in 1..Len(old) PROVE old[i].slice # Configs[at]
  <2>1. PICK m \in 1..(at - 1) : old[i].slice = Configs[m]
    BY <1>7
  <2>2. m \in 1..Len(Configs) /\ m # at
    BY <1>6, <2>1, ConfigsAreSlices
  <2> QED BY <1>6, <2>1, <2>2, ConfigsAreSlices DEF WatchConstants
<1>10. \A i \in 1..Len(all) : \/ i \in 1..Len(old) /\ all[i] = old[i]
                              \/ /\ i > Len(old) /\ i - Len(old) \in 1..Len(found)
                                 /\ all[i] = found[i - Len(old)]
  BY <1>6
<1>11. ASSUME NEW i \in 1..Len(all), NEW j \in 1..Len(all), all[i].slice = all[j].slice,
              all[i].kind = "tag-moved"
       PROVE  i <= j
  <2>1. CASE i \in 1..Len(old) /\ all[i] = old[i]
    <3>1. CASE j \in 1..Len(old) /\ all[j] = old[j]
      BY <1>7, <1>11, <2>1, <3>1
    <3>2. CASE j > Len(old)
      BY <1>6, <2>1, <3>2
    <3> QED BY <1>10, <3>1, <3>2
  <2>2. CASE i > Len(old) /\ i - Len(old) \in 1..Len(found) /\ all[i] = found[i - Len(old)]
    <3>1. i = Len(old) + 1 /\ all[i].slice = Configs[at]
      BY <1>6, <1>8, <1>11, <2>2
    <3>2. CASE j \in 1..Len(old) /\ all[j] = old[j]
      BY <1>9, <1>11, <3>1, <3>2
    <3>3. CASE j > Len(old)
      BY <1>6, <3>1, <3>3
    <3> QED BY <1>10, <3>2, <3>3
  <2> QED BY <1>10, <2>1, <2>2
<1>12. ASSUME NEW i \in 1..Len(all) PROVE \E m \in 1..at : all[i].slice = Configs[m]
  <2>1. CASE i \in 1..Len(old) /\ all[i] = old[i]
    <3>1. PICK m \in 1..(at - 1) : old[i].slice = Configs[m]
      BY <1>7, <2>1
    <3> QED BY <1>6, <2>1, <3>1
  <2>2. CASE i - Len(old) \in 1..Len(found) /\ all[i] = found[i - Len(old)]
    BY <1>6, <1>8, <2>2
  <2> QED BY <1>10, <2>1, <2>2
<1>13. (at + 1) - 1 = at /\ 1..0 = {}
  BY <1>6
<1>14. /\ \A i \in 1..runs'[n].sent : FALSE
       /\ \A i, j \in 1..Len(all) : all[i].slice = all[j].slice /\ all[i].kind = "tag-moved" => i <= j
       /\ \A i \in 1..Len(all) : \E m \in 1..(runs'[n].at - 1) : all[i].slice = Configs[m]
  BY <1>5, <1>11, <1>12, <1>13
<1> QED BY <1>5, <1>14 DEF OrderOK

LEMMA FirstAnswer ==
    ASSUME WatchConstants, BaseInv, FirstInv, NEW n \in Runs, Answer(n)
    PROVE  FirstInv'
<1>1. /\ BaseInv' /\ \A m \in Runs \ {n} : runs'[m] = runs[m]
      /\ runs'[n] = [runs[n] EXCEPT !.met = NotAsked, !.sent = @ + 1]
      /\ Delivered(Key(Current(n)), Report(n), runs[n].met)
      /\ Current(n).slice \in Wired
      /\ runs[n] \in Run /\ runs[n] # NoRun /\ runs[n].sent < Len(runs[n].findings)
  BY AnswerBase DEF BaseInv, Delivering
<1>2. /\ Current(n) \in Finding /\ Key(Current(n)) \in Keys
      /\ runs[n].sent + 1 \in 1..Len(runs[n].findings)
  BY <1>1, CurrentKey
<1>3. Remembers
  BY <1>1 DEF Remembers, Delivered
<1>4. PICK found, sent : found = runs[n].findings /\ sent = runs[n].sent
  OBVIOUS
<1>5. /\ runs'[n].findings = found /\ runs'[n].sent = sent + 1 /\ runs'[n].at = runs[n].at
      /\ found \in Seq(Finding) /\ sent \in Nat /\ Len(found) \in Nat /\ sent + 1 \in 1..Len(found)
      /\ Current(n) = found[sent + 1]
  BY <1>1, <1>2, <1>4, LenProperties DEF Run, Current
<1>6. \A i \in 1..sent : found[i].slice \in Wired => Vouched(found[i])
  BY <1>1, <1>4 DEF FirstInv, OrderOK
<1>7. ASSUME NEW i \in 1..(sent + 1), found[i].slice \in Wired PROVE Vouched(found[i])'
  <2>1. PICK f : f = found[i]
    OBVIOUS
  <2>2. f \in Finding
    BY <1>5, <2>1, ElementOfSeq
  <2>3. CASE i \in 1..sent
    <3>1. Vouched(f)
      BY <1>6, <1>7, <2>1, <2>3
    <3>2. Vouched(f)'
      BY <1>1, <1>3, <2>2, <3>1, VouchedStays
    <3> QED BY <1>4, <2>1, <3>2 DEF Vouched
  <2>4. CASE i = sent + 1
    <3>1. f = Current(n) /\ f \in Report(n)
      BY <1>4, <1>5, <2>1, <2>4 DEF Report
    <3>2. \E j \in 1..Len(items'[Key(f)]) : f \in items'[Key(f)][j].told
      BY <1>1, <3>1 DEF Delivered
    <3> QED BY <2>1, <3>2 DEF Vouched
  <2> QED BY <1>5, <2>3, <2>4
<1>8. OrderOK(n)'
  BY <1>1, <1>4, <1>5, <1>7 DEF FirstInv, OrderOK, Vouched
<1>9. \A m \in Runs : OrderOK(m)'
  BY <1>1, <1>3, <1>8, OrderStays DEF FirstInv
<1>10. IntegrityFirst'
  <2>1. \A q \in Keys : /\ DOMAIN items[q] = 1..Len(items[q]) /\ Len(items[q]) \in Nat
                        /\ DOMAIN items'[q] = 1..Len(items'[q]) /\ Len(items'[q]) \in Nat
    BY <1>1, LenProperties DEF BaseInv, Told
  <2>2. \A s \in Slices : <<s, "update">> \in Keys /\ <<s, "integrity">> \in Keys
    BY DEF Keys
  <2> SUFFICES ASSUME NEW s \in Slices, NEW i \in DOMAIN items'[<<s, "update">>],
                      NEW f \in items'[<<s, "update">>][i].told, f.kind = "tag-moved", f.slice = s
               PROVE  \E j \in 1..Len(items'[<<s, "integrity">>]) :
                         f \in items'[<<s, "integrity">>][j].told
    BY <2>1, <2>2 DEF IntegrityFirst
  <2>3. CASE i \in 1..Len(items[<<s, "update">>]) /\ f \in items[<<s, "update">>][i].told
    <3>1. PICK j \in 1..Len(items[<<s, "integrity">>]) : f \in items[<<s, "integrity">>][j].told
      BY <2>1, <2>2, <2>3 DEF FirstInv, IntegrityFirst
    <3> QED BY <1>3, <2>1, <2>2, <3>1 DEF Remembers
  <2>4. CASE f \in Report(n) /\ Key(Current(n)) = <<s, "update">>
    <3>1. Current(n).slice = s /\ Current(n).kind = "update-available"
      BY <2>4 DEF Key
    <3>2. PICK m \in 1..Len(found) : f = found[m]
      BY <1>4, <1>5, <2>4 DEF Report
    <3>3. m <= sent + 1 /\ m # sent + 1
      <4>1. \A l, j \in 1..Len(found) :
               found[l].slice = found[j].slice /\ found[l].kind = "tag-moved" => l <= j
        BY <1>1, <1>4 DEF FirstInv, OrderOK
      <4>2. found[m].slice = found[sent + 1].slice /\ found[m].kind = "tag-moved"
        BY <1>5, <3>1, <3>2
      <4>3. found[sent + 1].kind # "tag-moved"
        BY <1>5, <3>1
      <4> QED BY <1>5, <3>2, <4>1, <4>2, <4>3
    <3>4. m \in 1..(sent + 1) /\ found[m].slice \in Wired
      BY <1>1, <1>5, <3>1, <3>2, <3>3
    <3>5. Vouched(found[m])'
      BY <1>7, <3>4
    <3>6. Key(f) = <<s, "integrity">>
      BY DEF Key
    <3> QED BY <3>2, <3>5, <3>6 DEF Vouched
  <2>5. \/ i \in 1..Len(items[<<s, "update">>]) /\ f \in items[<<s, "update">>][i].told
        \/ f \in Report(n) /\ Key(Current(n)) = <<s, "update">>
    <3>1. PICK k : k = <<s, "update">>
      OBVIOUS
    <3>2. k \in Keys /\ i \in 1..Len(items'[k]) /\ f \in items'[k][i].told
      BY <2>1, <2>2, <3>1
    <3>3. CASE i \in 1..Len(items[k])
      BY <1>1, <3>1, <3>2, <3>3 DEF Delivered
    <3>4. CASE i > Len(items[k])
      BY <1>1, <3>1, <3>2, <3>4 DEF Delivered
    <3> QED BY <2>1, <3>2, <3>3, <3>4
  <2> QED BY <2>3, <2>4, <2>5
<1> QED BY <1>9, <1>10 DEF FirstInv

LEMMA FirstStep == ASSUME WatchConstants, BaseInv, FirstInv, Next PROVE FirstInv'
<1>0. BaseInv'
  BY StepBase
<1>1. \A q \in Keys : Len(items[q]) \in Nat
  BY LenProperties DEF BaseInv, Told
<1>2. CASE UNCHANGED <<items, runs>>
  BY <1>2 DEF FirstInv, IntegrityFirst, OrderOK, Vouched
<1>3. ASSUME NEW k \in Keys, NEW i \in DOMAIN items[k], Close(k, i) PROVE FirstInv'
  <2>1. /\ UNCHANGED runs
        /\ \A q \in Keys : /\ Len(items'[q]) = Len(items[q])
                           /\ \A j \in 1..Len(items[q]) : items'[q][j].told = items[q][j].told
    BY <1>3, CloseBase
  <2>2. Remembers
    BY <1>1, <2>1 DEF Remembers
  <2>3. IntegrityFirst'
    BY <1>0, <2>1, <2>2, FirstStays DEF FirstInv
  <2>4. \A n \in Runs : OrderOK(n)'
    BY <1>0, <2>1, <2>2, OrderStays DEF FirstInv
  <2> QED BY <2>3, <2>4 DEF FirstInv
<1>4. ASSUME NEW n \in Runs, Begin(n) PROVE FirstInv'
  <2>1. /\ runs'[n].findings = <<>> /\ runs'[n].sent = 0
        /\ UNCHANGED items /\ \A m \in Runs \ {n} : runs'[m] = runs[m]
    BY <1>4, BeginBase
  <2>2. OrderOK(n)'
    BY <2>1 DEF OrderOK
  <2> QED BY <1>0, <2>1, <2>2, FirstQuiet
<1>5. ASSUME NEW n \in Runs, List(n) \/ Find(n) PROVE FirstInv'
  <2>1. /\ runs[n] \in Run /\ runs[n] # NoRun
        /\ UNCHANGED items /\ \A m \in Runs \ {n} : runs'[m] = runs[m]
        /\ \/ runs'[n] = [runs[n] EXCEPT !.listing = tags[Configs[runs[n].at]]]
           \/ \E i \in Nat : runs'[n] = [runs[n] EXCEPT !.met = i]
    BY <1>5, ListBase, FindBase DEF BaseInv, Collecting, Delivering
  <2>2. /\ runs'[n].findings = runs[n].findings
        /\ runs'[n].sent = runs[n].sent /\ runs'[n].at = runs[n].at
    BY <2>1 DEF Run
  <2>3. Remembers
    BY <1>1, <2>1 DEF Remembers
  <2>4. OrderOK(n)'
    BY <1>0, <2>1, <2>2, <2>3, OrderStays DEF FirstInv
  <2> QED BY <1>0, <2>1, <2>4, FirstQuiet
<1>6. ASSUME NEW n \in Runs, Unreadable(n) \/ Compare(n) PROVE FirstInv'
  BY <1>0, <1>6, CollectBase, OrderCollect, FirstQuiet
<1>7. ASSUME NEW n \in Runs, Skip(n) PROVE FirstInv'
  <2>1. /\ runs[n] \in Run /\ runs[n] # NoRun
        /\ UNCHANGED items /\ \A m \in Runs \ {n} : runs'[m] = runs[m]
        /\ Current(n).slice \notin Wired
        /\ runs'[n] = [runs[n] EXCEPT !.sent = @ + 1]
    BY <1>7, SkipBase DEF BaseInv, Delivering
  <2>2. /\ runs'[n].findings = runs[n].findings
        /\ runs'[n].sent = runs[n].sent + 1 /\ runs'[n].at = runs[n].at /\ runs[n].sent \in Nat
    BY <2>1 DEF Run
  <2>3. \A i \in 1..(runs[n].sent + 1) :
           runs[n].findings[i].slice \in Wired => Vouched(runs[n].findings[i])
    <3> SUFFICES ASSUME NEW i \in 1..(runs[n].sent + 1), runs[n].findings[i].slice \in Wired
                 PROVE  Vouched(runs[n].findings[i])
      OBVIOUS
    <3>1. i # runs[n].sent + 1
      BY <2>1 DEF Current
    <3>2. i \in 1..runs[n].sent
      BY <2>2, <3>1
    <3> QED BY <2>1, <3>2 DEF FirstInv, OrderOK
  <2>4. OrderOK(n)'
    BY <2>1, <2>2, <2>3 DEF FirstInv, OrderOK, Vouched
  <2> QED BY <1>0, <2>1, <2>4, FirstQuiet
<1>8. ASSUME NEW n \in Runs, Answer(n) PROVE FirstInv'
  BY <1>8, FirstAnswer
<1>9. ASSUME NEW n \in Runs, Done(n) \/ Fail(n) PROVE FirstInv'
  <2>1. OrderOK(n)'
    BY <1>9, EndBase DEF OrderOK
  <2> QED BY <1>0, <1>9, <2>1, EndBase, FirstQuiet
<1> QED BY <1>2, <1>3, <1>4, <1>5, <1>6, <1>7, <1>8, <1>9, Steps, OutsideBase

(* Integrity first, for any number of runs that fail anywhere: whoever reads  *)
(* of a slice's moved tag in its update item finds it in its integrity item   *)
(* (watch.go:132 ahead of :150, handed over in that order).                   *)
THEOREM IntegrityLeads == Spec => []IntegrityFirst
<1> USE WatchConstants
<1>1. Init => BaseInv /\ FirstInv
  <2>1. ASSUME Init PROVE FirstInv
    <3>1. \A s \in Slices : items[<<s, "update">>] = <<>>
      BY <2>1 DEF Init, Keys
    <3>2. DOMAIN <<>> = {}
      OBVIOUS
    <3>3. IntegrityFirst
      BY <3>1, <3>2 DEF IntegrityFirst
    <3> QED BY <2>1, <3>3 DEF Init, FirstInv, OrderOK
  <2> QED BY <2>1, InitBase
<1>2. BaseInv /\ FirstInv /\ [Next]_vars => (BaseInv /\ FirstInv)'
  <2>1. BaseInv /\ FirstInv /\ UNCHANGED vars => FirstInv'
    BY DEF vars, FirstInv, IntegrityFirst, OrderOK, Vouched
  <2> QED BY <2>1, StepBase, FirstStep
<1>3. FirstInv => IntegrityFirst
  BY DEF FirstInv
<1> QED BY <1>1, <1>2, <1>3, PTL DEF Spec

-----------------------------------------------------------------------------
(* An open item per run, at most.                                            *)

\* The runs whose search for a key's item met nothing and is not answered yet.
Waiting(k) == {n \in Runs : runs[n] # NoRun /\ runs[n].met = 0 /\ Key(Current(n)) = k}

\* Every such run may still open an item of the key, so it counts as one.
Spread(k) == Cardinality(Open(k)) + Cardinality(Waiting(k)) <= Cardinality(Runs)

SpreadInv == \A k \in Keys : Spread(k)

\* Sets that shrink fit where they fitted.
LEMMA Shrinks ==
    ASSUME NEW O, NEW W, IsFiniteSet(O), IsFiniteSet(W), NEW P \in SUBSET O, NEW V \in SUBSET W,
           NEW N \in Nat, Cardinality(O) + Cardinality(W) <= N
    PROVE  Cardinality(P) + Cardinality(V) <= N
<1>1. /\ Cardinality(O) \in Nat /\ Cardinality(W) \in Nat
      /\ IsFiniteSet(P) /\ Cardinality(P) <= Cardinality(O)
      /\ IsFiniteSet(V) /\ Cardinality(V) <= Cardinality(W)
  BY FS_CardinalityType, FS_Subset
<1>2. Cardinality(P) \in Nat /\ Cardinality(V) \in Nat
  BY <1>1, FS_CardinalityType
<1> QED BY <1>1, <1>2

\* An element that moves from the one set to a new element of the other.
LEMMA Exchange ==
    ASSUME NEW O, NEW W, IsFiniteSet(O), IsFiniteSet(W), NEW n \in W, NEW j, NEW V \in SUBSET (W \ {n}),
           NEW N \in Nat, Cardinality(O) + Cardinality(W) <= N
    PROVE  Cardinality(O \union {j}) + Cardinality(V) <= N
<1>1. Cardinality(O) \in Nat /\ Cardinality(W) \in Nat
  BY FS_CardinalityType
<1>2. IsFiniteSet(O \union {j})
      /\ Cardinality(O \union {j}) = IF j \in O THEN Cardinality(O) ELSE Cardinality(O) + 1
  BY FS_AddElement
<1>3. IsFiniteSet(W \ {n}) /\ Cardinality(W \ {n}) = Cardinality(W) - 1
  BY FS_RemoveElement
<1>4. IsFiniteSet(V) /\ Cardinality(V) <= Cardinality(W \ {n})
  BY <1>3, FS_Subset
<1>5. Cardinality(V) \in Nat
  BY <1>4, FS_CardinalityType
<1> QED BY <1>1, <1>2, <1>3, <1>4, <1>5

LEMMA SetsAreFinite ==
    ASSUME WatchConstants, BaseInv, NEW k \in Keys
    PROVE  /\ IsFiniteSet(Open(k)) /\ IsFiniteSet(Waiting(k)) /\ Cardinality(Runs) \in Nat
           /\ Cardinality(Waiting(k)) <= Cardinality(Runs) /\ Cardinality(Waiting(k)) \in Nat
<1>1. IsFiniteSet(Runs) /\ Waiting(k) \in SUBSET Runs
  BY DEF WatchConstants, Waiting
<1>2. Len(items[k]) \in Nat /\ DOMAIN items[k] = 1..Len(items[k])
  BY LenProperties DEF BaseInv, Told
<1>3. IsFiniteSet(1..Len(items[k]))
  <2>1. 1 \in Int /\ Len(items[k]) \in Int
    BY <1>2
  <2> QED BY <2>1, FS_Interval, Zenon
<1>4. Open(k) \subseteq 1..Len(items[k])
  <2>1. Open(k) \subseteq DOMAIN items[k]
    BY DEF Open
  <2> QED BY <1>2, <2>1
<1>5. IsFiniteSet(Open(k))
  BY <1>3, <1>4, FS_Subset
<1>6. IsFiniteSet(Waiting(k)) /\ Cardinality(Waiting(k)) <= Cardinality(Runs)
  BY <1>1, FS_Subset
<1>7. Cardinality(Runs) \in Nat /\ Cardinality(Waiting(k)) \in Nat
  BY <1>1, <1>6, FS_CardinalityType
<1> QED BY <1>5, <1>6, <1>7

\* A step that opens no item and leaves no search of the key empty-handed.
LEMMA SpreadShrinks ==
    ASSUME WatchConstants, BaseInv, SpreadInv, NEW k \in Keys,
           Open(k)' \subseteq Open(k), Waiting(k)' \subseteq Waiting(k)
    PROVE  Spread(k)'
<1>1. /\ IsFiniteSet(Open(k)) /\ IsFiniteSet(Waiting(k)) /\ Cardinality(Runs) \in Nat
      /\ Cardinality(Open(k)) + Cardinality(Waiting(k)) <= Cardinality(Runs)
  BY SetsAreFinite DEF SpreadInv, Spread
<1>2. Cardinality(Open(k)') + Cardinality(Waiting(k)') <= Cardinality(Runs)
  BY <1>1, Shrinks
<1> QED BY <1>2 DEF Spread

\* A run whose search, after its step, has not met nothing.
LEMMA SpreadQuiet ==
    ASSUME WatchConstants, BaseInv, SpreadInv, UNCHANGED items, NEW n \in Runs,
           \A m \in Runs \ {n} : runs'[m] = runs[m], runs'[n] = NoRun \/ runs'[n].met # 0
    PROVE  SpreadInv'
<1> SUFFICES ASSUME NEW k \in Keys PROVE Spread(k)'
  BY DEF SpreadInv, Keys
<1>1. Open(k)' \subseteq Open(k)
  BY DEF Open
<1>2. Waiting(k)' \subseteq Waiting(k)
  BY DEF Waiting, Current
<1> QED BY <1>1, <1>2, SpreadShrinks

\* A search that meets nothing saw no open item, and there are no more such
\* searches than runs.
LEMMA SpreadFind ==
    ASSUME WatchConstants, BaseInv, SpreadInv, NEW n \in Runs, Find(n)
    PROVE  SpreadInv'
<1>1. /\ runs[n] \in Run /\ runs[n] # NoRun /\ UNCHANGED items /\ BaseInv'
      /\ \A m \in Runs \ {n} : runs'[m] = runs[m]
  BY FindBase DEF BaseInv, Delivering
<1>2. PICK i \in Nat : /\ i = 0 => Open(Key(Current(n))) = {}
                       /\ runs'[n] = [runs[n] EXCEPT !.met = i]
  BY FindBase
<1>3. runs'[n].met = i /\ Current(n)' = Current(n)
  BY <1>1, <1>2 DEF Run, Current
<1>4. CASE i # 0
  BY <1>1, <1>3, <1>4, SpreadQuiet
<1>5. CASE i = 0
  <2> SUFFICES ASSUME NEW k \in Keys PROVE Spread(k)'
    BY DEF SpreadInv, Keys
  <2>1. Open(k)' = Open(k)
    BY <1>1 DEF Open
  <2>2. CASE k = Key(Current(n))
    <3>1. Open(k)' = {}
      BY <1>2, <1>5, <2>1, <2>2
    <3>2. Cardinality(Open(k)') = 0
      BY <3>1, FS_EmptySet
    <3>3. /\ Cardinality(Waiting(k)') \in Nat /\ Cardinality(Runs) \in Nat
          /\ Cardinality(Waiting(k)') <= Cardinality(Runs)
      <4>1. (/\ Cardinality(Waiting(k)) \in Nat /\ Cardinality(Runs) \in Nat
             /\ Cardinality(Waiting(k)) <= Cardinality(Runs))'
        BY <1>1, SetsAreFinite, PTL
      <4> QED BY <4>1
    <3> QED BY <3>2, <3>3 DEF Spread
  <2>3. CASE k # Key(Current(n))
    <3>1. Waiting(k)' \subseteq Waiting(k)
      BY <1>1, <1>3, <2>3 DEF Waiting, Current
    <3> QED BY <2>1, <3>1, SpreadShrinks
  <2> QED BY <2>2, <2>3
<1> QED BY <1>4, <1>5

\* An answer opens an item only in place of the run that waited to open it.
LEMMA SpreadAnswer ==
    ASSUME WatchConstants, BaseInv, SpreadInv, NEW n \in Runs, Answer(n)
    PROVE  SpreadInv'
<1>1. /\ Delivered(Key(Current(n)), Report(n), runs[n].met) /\ BaseInv'
      /\ runs'[n] = [runs[n] EXCEPT !.met = NotAsked, !.sent = @ + 1]
      /\ runs[n] \in Run /\ runs[n] # NoRun
      /\ \A m \in Runs \ {n} : runs'[m] = runs[m]
  BY AnswerBase DEF BaseInv, Delivering
<1>2. runs'[n].met = NotAsked /\ NotAsked # 0
  BY <1>1 DEF Run, WatchConstants
<1> SUFFICES ASSUME NEW k \in Keys PROVE Spread(k)'
  BY DEF SpreadInv, Keys
<1>3. Waiting(k)' \subseteq Waiting(k) \ {n}
  BY <1>1, <1>2 DEF Waiting, Current
<1>4. /\ Len(items[k]) \in Nat /\ DOMAIN items[k] = 1..Len(items[k])
      /\ Len(items'[k]) \in Nat /\ DOMAIN items'[k] = 1..Len(items'[k])
  BY <1>1, LenProperties DEF BaseInv, Told
<1>5. CASE k = Key(Current(n)) /\ runs[n].met = 0
  <2> DEFINE j == Len(items[k]) + 1
  <2>1. Open(k)' \subseteq Open(k) \union {j}
    BY <1>1, <1>4 DEF Delivered, Open
  <2>2. n \in Waiting(k)
    BY <1>1, <1>5 DEF Waiting
  <2>3. /\ IsFiniteSet(Open(k)) /\ IsFiniteSet(Waiting(k)) /\ Cardinality(Runs) \in Nat
        /\ Cardinality(Open(k)) + Cardinality(Waiting(k)) <= Cardinality(Runs)
    BY SetsAreFinite DEF SpreadInv, Spread
  <2> HIDE DEF j
  <2>4. Cardinality(Open(k) \union {j}) + Cardinality(Waiting(k)') <= Cardinality(Runs)
    BY <1>3, <2>2, <2>3, Exchange
  <2>5. IsFiniteSet(Open(k) \union {j}) /\ IsFiniteSet(Waiting(k)')
    BY <1>3, <2>3, FS_AddElement, FS_Subset
  <2>6. Cardinality(Open(k)') + Cardinality(Waiting(k)') <= Cardinality(Runs)
    BY <2>1, <2>3, <2>4, <2>5, Shrinks
  <2> QED BY <2>6 DEF Spread
<1>6. CASE ~(k = Key(Current(n)) /\ runs[n].met = 0)
  <2>1. Open(k)' \subseteq Open(k)
    BY <1>1, <1>4, <1>6 DEF Delivered, Open
  <2> QED BY <1>3, <2>1, SpreadShrinks
<1> QED BY <1>5, <1>6

LEMMA SpreadStep == ASSUME WatchConstants, BaseInv, SpreadInv, Next PROVE SpreadInv'
<1>1. NotAsked # 0
  BY DEF WatchConstants
<1>2. CASE UNCHANGED <<items, runs>>
  BY <1>2 DEF SpreadInv, Spread, Open, Waiting, Current
<1>3. ASSUME NEW q \in Keys, NEW i \in DOMAIN items[q], Close(q, i) PROVE SpreadInv'
  <2>1. /\ UNCHANGED runs
        /\ \A k \in Keys : /\ Len(items'[k]) = Len(items[k])
                           /\ \A j \in 1..Len(items[k]) : items'[k][j].open => items[k][j].open
    BY <1>3, CloseBase
  <2> SUFFICES ASSUME NEW k \in Keys PROVE Spread(k)'
    BY DEF SpreadInv, Keys
  <2>2. DOMAIN items'[k] = 1..Len(items'[k]) /\ DOMAIN items[k] = 1..Len(items[k])
    <3>1. items'[k] \in Seq(Item) /\ items[k] \in Seq(Item)
      BY <1>3, CloseBase DEF BaseInv, Told
    <3> QED BY <3>1, LenProperties
  <2>3. Open(k)' \subseteq Open(k)
    BY <2>1, <2>2 DEF Open
  <2>4. Waiting(k)' \subseteq Waiting(k)
    BY <2>1 DEF Waiting, Current
  <2> QED BY <2>3, <2>4, SpreadShrinks
<1>4. ASSUME NEW n \in Runs, Begin(n) \/ Done(n) \/ Fail(n) PROVE SpreadInv'
  <2>1. /\ UNCHANGED items /\ (runs'[n] = NoRun \/ runs'[n].met = NotAsked)
        /\ \A m \in Runs \ {n} : runs'[m] = runs[m]
    BY <1>4, BeginBase, EndBase
  <2> QED BY <1>1, <2>1, SpreadQuiet
<1>5. ASSUME NEW n \in Runs, List(n) \/ Unreadable(n) \/ Compare(n) \/ Skip(n) PROVE SpreadInv'
  <2>1. /\ UNCHANGED items /\ runs'[n].met = NotAsked
        /\ \A m \in Runs \ {n} : runs'[m] = runs[m]
    <3>1. CASE List(n)
      <4>1. /\ runs'[n] = [runs[n] EXCEPT !.listing = tags[Configs[runs[n].at]]]
            /\ Collecting(n) /\ UNCHANGED items
            /\ \A m \in Runs \ {n} : runs'[m] = runs[m]
        BY <3>1, ListBase
      <4> QED BY <4>1 DEF Collecting, BaseInv, RunOK, Run
    <3>2. CASE Unreadable(n) \/ Compare(n)
      <4>1. PICK found :
               runs'[n] = [runs[n] EXCEPT !.at = @ + 1, !.listing = NoListing, !.findings = @ \o found]
        BY <3>2, CollectBase
      <4>2. Collecting(n) /\ UNCHANGED items /\ \A m \in Runs \ {n} : runs'[m] = runs[m]
        BY <3>2, CollectBase
      <4> QED BY <4>1, <4>2 DEF Collecting, BaseInv, RunOK, Run
    <3>3. CASE Skip(n)
      <4>1. /\ runs'[n] = [runs[n] EXCEPT !.sent = @ + 1]
            /\ Delivering(n) /\ Current(n).slice \notin Wired /\ UNCHANGED items
            /\ \A m \in Runs \ {n} : runs'[m] = runs[m]
        BY <3>3, SkipBase
      <4> QED BY <4>1 DEF Delivering, BaseInv, RunOK, Run
    <3> QED BY <1>5, <3>1, <3>2, <3>3
  <2> QED BY <1>1, <2>1, SpreadQuiet
<1> QED BY <1>2, <1>3, <1>4, <1>5, SpreadFind, SpreadAnswer, Steps, OutsideBase

(* For any number of runs in flight together, whatever fails or is closed     *)
(* between a handler's search and its answer (handler.go:295): no key has     *)
(* more open items than there are runs; with one run at a time, one.          *)
THEOREM AnItemPerRun == Spec => []ItemPerRun
<1> USE WatchConstants
<1>1. Init => BaseInv /\ SpreadInv
  <2> SUFFICES ASSUME Init, NEW k \in Keys PROVE BaseInv /\ Spread(k)
    BY InitBase DEF SpreadInv, Spread, Keys
  <2>1. BaseInv
    BY InitBase
  <2>2. Open(k) = {} /\ Waiting(k) = {}
    BY DEF Init, Open, Waiting
  <2>3. Cardinality(Open(k)) = 0 /\ Cardinality(Waiting(k)) = 0 /\ Cardinality(Runs) \in Nat
    BY <2>1, <2>2, FS_EmptySet, SetsAreFinite
  <2> QED BY <2>1, <2>3 DEF Spread
<1>2. BaseInv /\ SpreadInv /\ [Next]_vars => (BaseInv /\ SpreadInv)'
  <2>1. BaseInv /\ SpreadInv /\ UNCHANGED vars => SpreadInv'
    BY DEF vars, SpreadInv, Spread, Open, Waiting, Current
  <2> QED BY <2>1, StepBase, SpreadStep
<1>3. BaseInv /\ SpreadInv => ItemPerRun
  <2> SUFFICES ASSUME BaseInv, SpreadInv, NEW k \in Keys
               PROVE  Cardinality(Open(k)) <= Cardinality(Runs)
    BY DEF ItemPerRun
  <2>1. /\ Cardinality(Open(k)) \in Nat /\ Cardinality(Waiting(k)) \in Nat /\ Cardinality(Runs) \in Nat
        /\ Cardinality(Open(k)) + Cardinality(Waiting(k)) <= Cardinality(Runs)
    BY SetsAreFinite, FS_CardinalityType DEF SpreadInv, Spread
  <2> QED BY <2>1
<1> QED BY <1>1, <1>2, <1>3, PTL DEF Spec

=============================================================================
