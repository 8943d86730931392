------------------------------- MODULE Launcher -------------------------------
(***************************************************************************)
(* vendkitw, the launcher every lane and every developer starts the engine *)
(* with.  Launchers of one machine share a cache keyed by version, start   *)
(* at any time, and are killed at any time (a cancelled job, a ctrl-C);    *)
(* the mirror they download from is written to meanwhile.                  *)
(***************************************************************************)
CONSTANTS
    Launchers,
    Configs,    \* slice configs of the repository
    Versions,   \* engine versions
    Contents,   \* what an asset may contain; its checksum identifies it
    Torn,       \* the beginning of an asset
    Absent,     \* no file, no line, no version, no launcher
    Mirrors     \* what a version's directory on the mirror may hold

ASSUME LauncherConstants ==
    /\ Torn \notin Contents
    /\ Absent \notin Versions \union Contents \union Launchers \union {Torn}
    /\ Mirrors \subseteq [asset : Contents \union {Absent}, sum : Contents \union {Absent}]

VARIABLES
    across,     \* mktemp's directory and the cache are on different filesystems
    pins,       \* engine.version of each slice config
    mirror,     \* version -> the asset and the line of SHA256SUMS.txt for it
    cache,      \* version -> the file in the cache and who is writing it
    pc,         \* where each launcher is
    version,    \* the version each launcher resolved
    tmp,        \* the asset and the checksum it downloaded
    ran,        \* history: versions and contents that were executed
    vouched,    \* history: versions and contents that matched a checksum
    died        \* history: versions whose copying into the cache was cut short

vars == <<across, pins, mirror, cache, pc, version, tmp, ran, vouched, died>>

NoFile == [content |-> Absent, writer |-> Absent]
NoDownload == [asset |-> Absent, sum |-> Absent]

-----------------------------------------------------------------------------
Init ==
    /\ across \in BOOLEAN
    /\ pins \in [Configs -> Versions \union {Absent}]
    /\ mirror \in [Versions -> Mirrors]
    /\ cache = [v \in Versions |-> NoFile]
    /\ pc = [l \in Launchers |-> "idle"]
    /\ version = [l \in Launchers |-> Absent]
    /\ tmp = [l \in Launchers |-> NoDownload]
    /\ ran = {}
    /\ vouched = {}
    /\ died = {}

\* Someone edits the engine pin of a slice config.
Repin(c) ==
    /\ \E v \in (Versions \union {Absent}) \ {pins[c]} : pins' = [pins EXCEPT ![c] = v]
    /\ UNCHANGED <<across, mirror, cache, pc, version, tmp, ran, vouched, died>>

\* A release is uploaded, replaced or withdrawn.
Upload(v) ==
    /\ \E m \in Mirrors \ {mirror[v]} : mirror' = [mirror EXCEPT ![v] = m]
    /\ UNCHANGED <<across, pins, cache, pc, version, tmp, ran, vouched, died>>

Go(l, at) == pc' = [pc EXCEPT ![l] = at]

\* Every config that carries a pin must agree on it; a launcher that dies of a
\* refusal is idle again.
Resolve(l) ==
    /\ pc[l] = "idle"
    /\ \E v \in Versions :
          /\ \E c \in Configs : pins[c] = v
          /\ \A c \in Configs : pins[c] \in {v, Absent}
          /\ version' = [version EXCEPT ![l] = v]
    /\ Go(l, "look")
    /\ UNCHANGED <<across, pins, mirror, cache, tmp, ran, vouched, died>>

\* VENDKIT_VERSION goes before any config.
Override(l) ==
    /\ pc[l] = "idle"
    /\ \E v \in Versions : version' = [version EXCEPT ![l] = v]
    /\ Go(l, "look")
    /\ UNCHANGED <<across, pins, mirror, cache, tmp, ran, vouched, died>>

\* [ -x "$bin" ]: a file that is still being copied is executable already.
Look(l) ==
    /\ pc[l] = "look"
    /\ Go(l, IF cache[version[l]] = NoFile THEN "fetch" ELSE "exec")
    /\ UNCHANGED <<across, pins, mirror, cache, version, tmp, ran, vouched, died>>

Download(l) ==
    /\ pc[l] = "fetch"
    /\ LET asset == mirror[version[l]].asset
       IN  /\ Go(l, IF asset = Absent THEN "idle" ELSE "sums")
           /\ tmp' = [tmp EXCEPT ![l] = [asset |-> asset, sum |-> Absent]]
    /\ UNCHANGED <<across, pins, mirror, cache, version, ran, vouched, died>>

DownloadSums(l) ==
    /\ pc[l] = "sums"
    /\ Go(l, "verify")
    /\ tmp' = [tmp EXCEPT ![l] = [@ EXCEPT !.sum = mirror[version[l]].sum]]
    /\ UNCHANGED <<across, pins, mirror, cache, version, ran, vouched, died>>

\* Mutant: an asset that is not listed has nothing to be checked against.
TrustedUnlisted(download) == download.sum \in {Absent, download.asset}

\* No checksum for the asset, or another one, is refused.
Trusted(download) == download.sum # Absent /\ download.sum = download.asset

Verify(l) ==
    /\ pc[l] = "verify"
    /\ Go(l, IF Trusted(tmp[l]) THEN "install" ELSE "idle")
    /\ vouched' = vouched \union
          (IF tmp[l].sum = tmp[l].asset THEN {<<version[l], tmp[l].asset>>} ELSE {})
    /\ UNCHANGED <<across, pins, mirror, cache, version, tmp, ran, died>>

\* mv -f within a filesystem is a rename; across filesystems it makes a new
\* file in place of the old one and copies.
Install(l) ==
    /\ pc[l] = "install"
    /\ IF across
       THEN /\ Go(l, "copy")
            /\ cache' = [cache EXCEPT ![version[l]] = [content |-> Torn, writer |-> l]]
       ELSE /\ Go(l, "exec")
            /\ cache' = [cache EXCEPT ![version[l]] =
                            [content |-> tmp[l].asset, writer |-> Absent]]
    /\ UNCHANGED <<across, pins, mirror, version, tmp, ran, vouched, died>>

\* A copy whose file another launcher has replaced goes nowhere.
Copied(l) ==
    /\ pc[l] = "copy"
    /\ Go(l, "exec")
    /\ cache' = IF cache[version[l]].writer # l THEN cache
                ELSE [cache EXCEPT ![version[l]] =
                         [content |-> tmp[l].asset, writer |-> Absent]]
    /\ UNCHANGED <<across, pins, mirror, version, tmp, ran, vouched, died>>

\* A file that is open for writing cannot be executed.
Exec(l) ==
    /\ pc[l] = "exec"
    /\ Go(l, "idle")
    /\ LET file == cache[version[l]]
       IN  ran' = IF file.writer # Absent \/ file = NoFile THEN ran
                  ELSE ran \union {<<version[l], file.content>>}
    /\ UNCHANGED <<across, pins, mirror, cache, version, tmp, vouched, died>>

\* A launcher is killed; a file it was copying stays as far as it got.
Kill(l) ==
    /\ pc[l] # "idle"
    /\ Go(l, "idle")
    /\ IF pc[l] = "copy" /\ cache[version[l]].writer = l
       THEN /\ cache' = [cache EXCEPT ![version[l]] = [@ EXCEPT !.writer = Absent]]
            /\ died' = died \union {version[l]}
       ELSE UNCHANGED <<cache, died>>
    /\ UNCHANGED <<across, pins, mirror, version, tmp, ran, vouched>>

Next ==
    \/ \E c \in Configs : Repin(c)
    \/ \E v \in Versions : Upload(v)
    \/ \E l \in Launchers :
          \/ Resolve(l) \/ Override(l) \/ Look(l) \/ Download(l) \/ DownloadSums(l)
          \/ Verify(l) \/ Install(l) \/ Copied(l) \/ Exec(l) \/ Kill(l)

Spec == Init /\ [][Next]_vars

-----------------------------------------------------------------------------
Places == {"idle", "look", "fetch", "sums", "verify", "install", "copy", "exec"}

TypeOK ==
    /\ across \in BOOLEAN
    /\ pins \in [Configs -> Versions \union {Absent}]
    /\ mirror \in [Versions -> Mirrors]
    /\ cache \in [Versions -> [content : Contents \union {Torn, Absent},
                               writer  : Launchers \union {Absent}]]
    /\ pc \in [Launchers -> Places]
    /\ version \in [Launchers -> Versions \union {Absent}]
    /\ \A l \in Launchers : pc[l] # "idle" => version[l] \in Versions
    /\ tmp \in [Launchers -> [asset : Contents \union {Absent}, sum : Contents \union {Absent}]]
    /\ ran \subseteq Versions \X (Contents \union {Torn})
    /\ vouched \subseteq Versions \X (Contents \union {Absent})
    /\ died \subseteq Versions

(* What runs as a version matched a checksum listed for that version, with   *)
(* launchers racing for one cache entry, a mirror replaced between its two   *)
(* downloads and kills at every step.  There is one exception: across two    *)
(* filesystems mv copies, and what a killed mv leaves behind passes          *)
(* [ -x "$bin" ] and is executed ever after (vendkitw:173, :195).            *)
VerifiedBeforeExec ==
    \A r \in ran \ vouched : across /\ r[2] = Torn /\ r[1] \in died

=============================================================================
