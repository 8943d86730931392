---------------------------- MODULE LauncherProofs ----------------------------
(***************************************************************************)
(* What vendkitw executes, for any launchers, versions and mirrors.        *)
(***************************************************************************)
EXTENDS Launcher, TLAPS

\* A launcher that is past the check holds what it checked.
HeldInv ==
    \A l \in Launchers : pc[l] \in {"install", "copy"} =>
        /\ tmp[l].asset # Absent
        /\ <<version[l], tmp[l].asset>> \in vouched

\* A file nobody is writing was checked, or its copying was cut short.
CacheInv ==
    \A v \in Versions :
        \/ cache[v] = NoFile
        \/ cache[v].content = Torn /\ across /\ cache[v].writer # Absent
        \/ cache[v].content = Torn /\ across /\ v \in died
        \/ cache[v].content # Absent /\ <<v, cache[v].content>> \in vouched

\* Who copies does so across filesystems.
CopyInv == \A l \in Launchers : pc[l] = "copy" => across

\* A download that may be installed is an asset.
TmpInv == \A l \in Launchers : pc[l] \in {"sums", "verify"} => tmp[l].asset # Absent

IInv == TypeOK /\ HeldInv /\ CacheInv /\ CopyInv /\ TmpInv /\ VerifiedBeforeExec

-----------------------------------------------------------------------------
\* An empty cache, and nothing has run.
LEMMA InitInv == ASSUME LauncherConstants, Init PROVE IInv
<1> USE DEF Init
<1>1. TypeOK
  BY DEF TypeOK, Places, NoFile, NoDownload
<1>2. HeldInv /\ CopyInv /\ TmpInv
  BY DEF HeldInv, CopyInv, TmpInv
<1>3. CacheInv /\ VerifiedBeforeExec
  BY DEF CacheInv, VerifiedBeforeExec
<1> QED BY <1>1, <1>2, <1>3 DEF IInv

\* Pins and the mirror are read, never trusted.
LEMMA WorldInv ==
    ASSUME LauncherConstants, IInv,
           (\E c \in Configs : Repin(c)) \/ (\E v \in Versions : Upload(v))
    PROVE  IInv'
<1>1. UNCHANGED <<across, cache, pc, version, tmp, ran, vouched, died>>
  BY DEF Repin, Upload
<1>2. pins' \in [Configs -> Versions \union {Absent}] /\ mirror' \in [Versions -> Mirrors]
  BY DEF Repin, Upload, IInv, TypeOK
<1>3. TypeOK'
  BY <1>1, <1>2 DEF IInv, TypeOK
<1> QED
  BY <1>1, <1>3 DEF IInv, HeldInv, CacheInv, CopyInv, TmpInv, VerifiedBeforeExec

\* A step that leaves the cache and the histories alone.
LEMMA ReadInv ==
    ASSUME LauncherConstants, IInv, NEW l \in Launchers,
           Resolve(l) \/ Override(l) \/ Look(l) \/ Download(l) \/ DownloadSums(l)
    PROVE  IInv'
<1>1. UNCHANGED <<across, pins, mirror, cache, ran, vouched, died>>
  BY DEF Resolve, Override, Look, Download, DownloadSums
<1>2. /\ pc' \in [Launchers -> Places]
      /\ pc'[l] \in {"idle", "look", "fetch", "exec", "sums", "verify"}
      /\ \A k \in Launchers \ {l} : pc'[k] = pc[k]
  BY DEF Resolve, Override, Look, Download, DownloadSums, Go, IInv, TypeOK, Places
<1>3. CASE Resolve(l) \/ Override(l)
  <2>1. /\ version' \in [Launchers -> Versions \union {Absent}]
        /\ version'[l] \in Versions
        /\ \A k \in Launchers \ {l} : version'[k] = version[k]
        /\ tmp' = tmp /\ pc'[l] = "look"
    BY <1>3 DEF Resolve, Override, Go, IInv, TypeOK
  <2> QED
    BY <1>1, <1>2, <2>1 DEF IInv, TypeOK, HeldInv, CacheInv, CopyInv, TmpInv, VerifiedBeforeExec
<1>4. CASE Look(l)
  <2>1. version' = version /\ tmp' = tmp /\ pc[l] # "idle" /\ pc'[l] \in {"fetch", "exec"}
    BY <1>4 DEF Look, Go, IInv, TypeOK
  <2> QED
    BY <1>1, <1>2, <2>1 DEF IInv, TypeOK, HeldInv, CacheInv, CopyInv, TmpInv, VerifiedBeforeExec
<1>5. CASE Download(l) \/ DownloadSums(l)
  <2>1. version' = version /\ pc[l] # "idle" /\ version[l] \in Versions
    BY <1>5 DEF Download, DownloadSums, IInv, TypeOK
  <2>2. mirror[version[l]] \in [asset : Contents \union {Absent}, sum : Contents \union {Absent}]
    BY <2>1 DEF IInv, TypeOK, LauncherConstants
  <2>3. /\ tmp' \in [Launchers -> [asset : Contents \union {Absent}, sum : Contents \union {Absent}]]
        /\ \A k \in Launchers \ {l} : tmp'[k] = tmp[k]
    BY <1>5, <2>2 DEF Download, DownloadSums, IInv, TypeOK
  <2>4. pc'[l] \in {"sums", "verify"} => tmp'[l].asset # Absent
    <3>1. CASE Download(l)
      BY <3>1 DEF Download, Go, IInv, TypeOK
    <3>2. CASE DownloadSums(l)
      BY <3>2 DEF DownloadSums, Go, IInv, TypeOK, TmpInv
    <3> QED BY <1>5, <3>1, <3>2
  <2>5. pc'[l] \in {"idle", "sums", "verify"}
    BY <1>5 DEF Download, DownloadSums, Go, IInv, TypeOK
  <2> QED
    BY <1>1, <1>2, <2>1, <2>3, <2>4, <2>5
    DEF IInv, TypeOK, HeldInv, CacheInv, CopyInv, TmpInv, VerifiedBeforeExec
<1> QED BY <1>3, <1>4, <1>5

\* Only what matches its checksum gets on to be installed.
LEMMA VerifyInv ==
    ASSUME LauncherConstants, IInv, NEW l \in Launchers, Verify(l)
    PROVE  IInv'
<1>1. /\ UNCHANGED <<across, pins, mirror, cache, version, tmp, ran, died>>
      /\ pc[l] = "verify"
      /\ vouched \subseteq vouched'
      /\ version[l] \in Versions /\ tmp[l].asset \in Contents \union {Absent}
  BY DEF Verify, IInv, TypeOK
<1>2. /\ pc' \in [Launchers -> Places]
      /\ \A k \in Launchers \ {l} : pc'[k] = pc[k]
      /\ pc'[l] = IF Trusted(tmp[l]) THEN "install" ELSE "idle"
  BY DEF Verify, Go, IInv, TypeOK, Places
<1>3. vouched' \subseteq Versions \X (Contents \union {Absent})
  BY <1>1 DEF Verify, IInv, TypeOK
<1>4. Trusted(tmp[l]) => <<version[l], tmp[l].asset>> \in vouched'
  BY DEF Verify, Trusted
<1>5. TypeOK'
  BY <1>1, <1>2, <1>3 DEF IInv, TypeOK
<1>6. HeldInv'
  BY <1>1, <1>2, <1>4 DEF IInv, HeldInv, TmpInv
<1>7. CacheInv' /\ CopyInv' /\ TmpInv' /\ VerifiedBeforeExec'
  BY <1>1, <1>2 DEF IInv, CacheInv, CopyInv, TmpInv, VerifiedBeforeExec
<1> QED BY <1>5, <1>6, <1>7 DEF IInv

\* What enters the cache was checked, or is being written.
LEMMA InstallInv ==
    ASSUME LauncherConstants, IInv, NEW l \in Launchers, Install(l) \/ Copied(l)
    PROVE  IInv'
<1>1. /\ UNCHANGED <<across, pins, mirror, version, tmp, ran, vouched, died>>
      /\ pc[l] \in {"install", "copy"}
      /\ version[l] \in Versions
      /\ tmp[l].asset \in Contents
      /\ <<version[l], tmp[l].asset>> \in vouched
  BY DEF Install, Copied, IInv, TypeOK, HeldInv
<1>2. /\ pc' \in [Launchers -> Places]
      /\ \A k \in Launchers \ {l} : pc'[k] = pc[k]
      /\ pc'[l] \in {"copy", "exec"}
      /\ pc'[l] = "copy" => across
  BY DEF Install, Copied, Go, IInv, TypeOK, Places
<1>3. /\ \A v \in Versions \ {version[l]} : cache'[v] = cache[v]
      /\ \/ cache' = cache
         \/ cache'[version[l]] = [content |-> Torn, writer |-> l] /\ across
         \/ cache'[version[l]] = [content |-> tmp[l].asset, writer |-> Absent]
  BY <1>1 DEF Install, Copied, IInv, TypeOK
<1>4. cache' \in [Versions -> [content : Contents \union {Torn, Absent},
                               writer  : Launchers \union {Absent}]]
  BY <1>1 DEF Install, Copied, IInv, TypeOK
<1>5. TypeOK'
  BY <1>1, <1>2, <1>4 DEF IInv, TypeOK
<1>6. CacheInv'
  BY <1>1, <1>3 DEF IInv, CacheInv, LauncherConstants
<1>7. HeldInv' /\ CopyInv' /\ TmpInv' /\ VerifiedBeforeExec'
  BY <1>1, <1>2 DEF IInv, HeldInv, CopyInv, TmpInv, VerifiedBeforeExec, LauncherConstants
<1> QED BY <1>5, <1>6, <1>7 DEF IInv

\* Nothing runs that is still being written.
LEMMA ExecInv ==
    ASSUME LauncherConstants, IInv, NEW l \in Launchers, Exec(l)
    PROVE  IInv'
<1> DEFINE file == cache[version[l]]
<1>1. /\ UNCHANGED <<across, pins, mirror, cache, version, tmp, vouched, died>>
      /\ version[l] \in Versions
      /\ file \in [content : Contents \union {Torn, Absent}, writer : Launchers \union {Absent}]
  BY DEF Exec, IInv, TypeOK
<1>2. /\ pc' \in [Launchers -> Places]
      /\ \A k \in Launchers \ {l} : pc'[k] = pc[k]
      /\ pc'[l] = "idle"
  BY DEF Exec, Go, IInv, TypeOK, Places
<1>3. ran' = ran \/ (file.writer = Absent /\ file # NoFile /\ ran' = ran \union {<<version[l], file.content>>})
  BY DEF Exec
<1>4. file.writer = Absent /\ file # NoFile =>
        \/ file.content = Torn /\ across /\ version[l] \in died
        \/ file.content # Absent /\ <<version[l], file.content>> \in vouched
  BY <1>1 DEF IInv, CacheInv
<1>5. ran' \subseteq Versions \X (Contents \union {Torn})
  BY <1>1, <1>3, <1>4 DEF IInv, TypeOK
<1>6. TypeOK'
  BY <1>1, <1>2, <1>5 DEF IInv, TypeOK
<1>7. VerifiedBeforeExec'
  BY <1>1, <1>3, <1>4 DEF IInv, VerifiedBeforeExec
<1>8. HeldInv' /\ CacheInv' /\ CopyInv' /\ TmpInv'
  BY <1>1, <1>2 DEF IInv, HeldInv, CacheInv, CopyInv, TmpInv
<1> QED BY <1>6, <1>7, <1>8 DEF IInv

\* What a killed copy leaves is marked as such.
LEMMA KillInv ==
    ASSUME LauncherConstants, IInv, NEW l \in Launchers, Kill(l)
    PROVE  IInv'
<1>1. /\ UNCHANGED <<across, pins, mirror, version, tmp, ran, vouched>>
      /\ version[l] \in Versions
      /\ died \subseteq died' /\ died' \subseteq Versions
  BY DEF Kill, IInv, TypeOK
<1>2. /\ pc' \in [Launchers -> Places]
      /\ \A k \in Launchers \ {l} : pc'[k] = pc[k]
      /\ pc'[l] = "idle"
  BY DEF Kill, Go, IInv, TypeOK, Places
<1>3. \/ cache' = cache
      \/ /\ cache' = [cache EXCEPT ![version[l]] = [@ EXCEPT !.writer = Absent]]
         /\ version[l] \in died' /\ across
  BY DEF Kill, IInv, CopyInv
<1>4. \/ cache' = cache
      \/ /\ cache' = [cache EXCEPT ![version[l]] =
                         [content |-> cache[version[l]].content, writer |-> Absent]]
         /\ version[l] \in died' /\ across
  <2>1. cache[version[l]] \in [content : Contents \union {Torn, Absent},
                              writer  : Launchers \union {Absent}]
    BY <1>1 DEF IInv, TypeOK
  <2>2. [cache[version[l]] EXCEPT !.writer = Absent]
           = [content |-> cache[version[l]].content, writer |-> Absent]
    BY <2>1
  <2> QED BY <1>3, <2>2
<1>5. /\ cache' \in [Versions -> [content : Contents \union {Torn, Absent},
                                  writer  : Launchers \union {Absent}]]
      /\ \A v \in Versions \ {version[l]} : cache'[v] = cache[v]
      /\ \/ cache' = cache
         \/ /\ cache'[version[l]] = [content |-> cache[version[l]].content, writer |-> Absent]
            /\ version[l] \in died' /\ across
  BY <1>1, <1>4 DEF IInv, TypeOK
<1>6. TypeOK'
  BY <1>1, <1>2, <1>5 DEF IInv, TypeOK
<1>7. CacheInv'
  <2>1. SUFFICES ASSUME NEW v \in Versions
                 PROVE  \/ cache'[v] = NoFile
                        \/ cache'[v].content = Torn /\ across /\ cache'[v].writer # Absent
                        \/ cache'[v].content = Torn /\ across /\ v \in died'
                        \/ cache'[v].content # Absent /\ <<v, cache'[v].content>> \in vouched
    BY <1>1 DEF CacheInv
  <2>2. CASE cache'[v] = cache[v]
    BY <1>1, <2>2 DEF IInv, CacheInv
  <2>3. CASE v = version[l] /\ cache' # cache
    <3>1. /\ cache'[v] = [content |-> cache[v].content, writer |-> Absent]
          /\ v \in died' /\ across
      BY <1>5, <2>3
    <3>2. cache[v] = NoFile => cache'[v] = NoFile
      BY <3>1 DEF NoFile
    <3> QED BY <1>1, <3>1, <3>2 DEF IInv, CacheInv
  <2> QED BY <1>5, <2>2, <2>3
<1>8. HeldInv' /\ CopyInv' /\ TmpInv' /\ VerifiedBeforeExec'
  BY <1>1, <1>2 DEF IInv, HeldInv, CopyInv, TmpInv, VerifiedBeforeExec
<1> QED BY <1>6, <1>7, <1>8 DEF IInv

\* Every step keeps the inductive invariant.
LEMMA StepInv == ASSUME LauncherConstants, IInv, [Next]_vars PROVE IInv'
<1>1. CASE UNCHANGED vars
  BY <1>1 DEF vars, IInv, TypeOK, HeldInv, CacheInv, CopyInv, TmpInv, VerifiedBeforeExec
<1> QED
  BY <1>1, WorldInv, ReadInv, VerifyInv, InstallInv, ExecInv, KillInv DEF Next

(* Whatever launchers do, and are stopped from doing, all that runs was      *)
(* matched with a checksum of its version, but for a file that a copy across *)
(* filesystems left unfinished (vendkitw:195).                               *)
THEOREM LauncherRunsVerified == Spec => [](TypeOK /\ VerifiedBeforeExec)
<1> USE LauncherConstants
<1>1. Init => IInv
  BY InitInv
<1>2. IInv /\ [Next]_vars => IInv'
  BY StepInv
<1>3. IInv => TypeOK /\ VerifiedBeforeExec
  BY DEF IInv
<1> QED
  BY <1>1, <1>2, <1>3, PTL DEF Spec

=============================================================================
