------------------------------ MODULE Versions ------------------------------
(***************************************************************************)
(* Release versions: ordering, channels, bump classes and the migration    *)
(* window.  A version is the key the parser makes of a tag name,           *)
(* <<major, minor, patch, stable, rc>>: stable is 1 and rc is 0 for        *)
(* vX.Y.Z; stable is 0 and rc is N for vX.Y.Z-rc.N.  Tag names outside the *)
(* grammar have no key and are invisible, as they are to the code.         *)
(***************************************************************************)
EXTENDS Naturals

VersionKey == {k \in Nat \X Nat \X Nat \X {0, 1} \X Nat : k[4] = 1 <=> k[5] = 0}

NoVersion == <<>>

Stable(k) == k[4] = 1

\* Lexicographic order: a stable release follows every rc of its triple.
Less(k, o) == \E i \in 1..5 : k[i] < o[i] /\ \A j \in 1..(i - 1) : k[j] = o[j]

OnChannel(k, channel) == channel = "rc" \/ Stable(k)

\* Greatest qualifying version among tag names, NoVersion when none qualifies.
Latest(tags, channel, retracted) ==
    LET qualifying == {k \in tags \ retracted : OnChannel(k, channel)}
    IN  IF qualifying = {} THEN NoVersion
        ELSE CHOOSE k \in qualifying : \A o \in qualifying : ~Less(k, o)

\* Mutants: any other version counts as newer; only the same major does.
IsOther(pinned, target, retracted) == target \notin retracted /\ target # pinned

IsNewerSameMajor(pinned, target, retracted) ==
    target \notin retracted /\ Less(pinned, target) /\ pinned[1] = target[1]

\* Retracted targets are refused before anything is compared.
IsNewer(pinned, target, retracted) == target \notin retracted /\ Less(pinned, target)

Bumps == {"patch", "minor", "major"}

Rank(bump) == CASE bump = "patch" -> 0 [] bump = "minor" -> 1 [] bump = "major" -> 2

ClassifyBump(pinned, target) ==
    IF target[1] # pinned[1] THEN "major"
    ELSE IF target[2] # pinned[2] THEN "minor" ELSE "patch"

\* Only a stable version can be bumped.
BumpVersion(k, bump) ==
    CASE bump = "major" -> <<k[1] + 1, 0, 0, 1, 0>>
      [] bump = "minor" -> <<k[1], k[2] + 1, 0, 1, 0>>
      [] bump = "patch" -> <<k[1], k[2], k[3] + 1, 1, 0>>

\* The migration window: pinned < applies_from <= target.
InWindow(pinned, from, target) == Less(pinned, from) /\ (Less(from, target) \/ from = target)

=============================================================================
