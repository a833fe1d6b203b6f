--------------------------- MODULE UpdaterProofs ----------------------------
(***************************************************************************)
(* What Updater proves for any number of checks, versions, releases and    *)
(* faults: only signed builds are installed and there is one to start but  *)
(* for a Windows swap cut short, the binary only gets newer unless a check *)
(* runs in a process that is behind, the recorded number only grows unless *)
(* by one that comes too late, and the state file is whole unless checks   *)
(* write it at the same time.                                              *)
(***************************************************************************)
EXTENDS Updater, TLAPS

\* What LoadSeq compared still holds when the number is written and renamed,
\* unless another check moved the mark in between.
MarkIsBehind ==
    /\ \A c \in Check : pc[c] \in {"save", "write"} /\ c \notin raced => releases[got[c]].seq > held
    /\ stateTmp \in Nat /\ ~lateTmp => stateTmp > held

\* As long as no check has opened the .tmp file between another one's open and
\* rename, one check at a time has it, and what that check renames is whole.
OneWriter ==
    /\ Parses(state) \/ shared
    /\ ~shared => \A c \in Check :
         /\ fd[c] \in {"none", "tmp"}
         /\ pc[c] = "write" => stateTmp = Empty
         /\ pc[c] = "rename" => Parses(stateTmp)
         /\ \A d \in Check \ {c} :
              pc[c] \in {"write", "rename"} => pc[d] \notin {"write", "rename"}

UpdaterInv == BinaryIsSound /\ MarkIsBehind /\ OneWriter

-----------------------------------------------------------------------------
(* Versions.                                                               *)

LEMMA PartsType ==
    ASSUME NEW v \in Seq(Nat), NEW i \in 1 .. 3
    PROVE  Parts(v)[i] \in Nat
BY DEF Parts

\* No version is both newer and older than another: what undoes an update is
\* never itself an update.
LEMMA NewerIsAsymmetric ==
    ASSUME NEW a \in Seq(Nat), NEW b \in Seq(Nat), Newer(a, b)
    PROVE  ~ Newer(b, a)
<1>1. SUFFICES ASSUME Newer(b, a) PROVE FALSE
    OBVIOUS
<1>2. PICK i \in 1 .. 3 :
        Parts(a)[i] > Parts(b)[i] /\ \A j \in 1 .. (i - 1) : Parts(a)[j] = Parts(b)[j]
    BY DEF Newer
<1>3. PICK k \in 1 .. 3 :
        Parts(b)[k] > Parts(a)[k] /\ \A j \in 1 .. (k - 1) : Parts(b)[j] = Parts(a)[j]
    BY <1>1 DEF Newer
<1>4. \A j \in 1 .. 3 : Parts(a)[j] \in Nat /\ Parts(b)[j] \in Nat
    BY PartsType
<1> HIDE DEF Parts
<1>5. CASE i < k
  <2>1. i \in 1 .. (k - 1)
      BY <1>5
  <2> QED
      BY <2>1, <1>2, <1>3, <1>4
<1>6. CASE k < i
  <2>1. k \in 1 .. (i - 1)
      BY <1>6
  <2> QED
      BY <2>1, <1>2, <1>3, <1>4
<1>7. CASE i = k
    BY <1>7, <1>2, <1>3, <1>4
<1> QED
    BY <1>5, <1>6, <1>7

LEMMA VersionOfType ==
    ASSUME ManifestsAreSound, NEW b
    PROVE  VersionOf(b) \in Version \union {Installed}
BY DEF ManifestsAreSound, VersionOf

\* A build has the version of every manifest that names it.
LEMMA VersionOfBuild ==
    ASSUME ManifestsAreSound, Len(releases) \in Nat, NEW i \in 1 .. Len(releases)
    PROVE  VersionOf(releases[i].build) = releases[i].version
<1>1. releases[i].build \in 1 .. i /\ releases[i].version = releases[releases[i].build].version
    BY DEF ManifestsAreSound
<1> QED
    BY <1>1 DEF VersionOf
-----------------------------------------------------------------------------
(* The inductive invariant.                                                *)

LEMMA InitSound == Init => UpdaterInv
<1> SUFFICES ASSUME Init PROVE UpdaterInv
    OBVIOUS
<1>1. releases = <<>> /\ Len(releases) = 0
    BY DEF Init
<1>2. TypeOK
    BY <1>1, UpdaterAssumption DEF Init, TypeOK, FilesTypeOK, ChecksTypeOK, Label
<1>3. ManifestsAreSound /\ InstalledIsSigned /\ AlwaysRunnable /\ ImagesAreCurrent /\ MarkIsBehind
      /\ OneWriter
    BY <1>1, UpdaterAssumption
    DEF Init, OneWriter, Parses, ManifestsAreSound, InstalledIsSigned, AlwaysRunnable, ImagesAreCurrent, MarkIsBehind
<1> QED
    BY <1>2, <1>3 DEF UpdaterInv, BinaryIsSound

\* A check that ends leaves nothing behind, and the others where they are.
LEMMA IdleEffect ==
    ASSUME TypeOK, NEW c \in Check, Idle(c), UNCHANGED releases,
           fd' = [fd EXCEPT ![c] = "none"] \/ (pc[c] # "write" /\ fd' = fd)
    PROVE  /\ ChecksTypeOK' /\ fd' \in [Check -> {"none", "tmp", "state", "gone"}]
           /\ fd'[c] = "none" /\ \A d \in Check \ {c} : fd'[d] = fd[d]
           /\ pc'[c] = "idle" /\ got'[c] = None /\ tmpPath'[c] = None /\ image'[c] \in {image[c], None}
           /\ \A d \in Check \ {c} : /\ pc'[d] = pc[d] /\ got'[d] = got[d]
                                      /\ tmpPath'[d] = tmpPath[d] /\ image'[d] = image[d]
<1>1. /\ pc' \in [Check -> Label] /\ image' \in [Check -> Version \union {Installed, None}]
      /\ got' \in [Check -> (1 .. Len(releases)) \union {None}]
      /\ tmpPath' \in [Check -> (1 .. Len(releases)) \union {None}]
    BY DEF TypeOK, ChecksTypeOK, Idle, Label
<1>3. /\ fd' \in [Check -> {"none", "tmp", "state", "gone"}]
      /\ fd'[c] = "none" /\ \A d \in Check \ {c} : fd'[d] = fd[d]
    BY DEF TypeOK, FilesTypeOK, ChecksTypeOK
<1>2. /\ pc'[c] = "idle" /\ got'[c] = None /\ tmpPath'[c] = None /\ image'[c] \in {image[c], None}
      /\ \A d \in Check \ {c} : /\ pc'[d] = pc[d] /\ got'[d] = got[d]
                                 /\ tmpPath'[d] = tmpPath[d] /\ image'[d] = image[d]
    BY DEF TypeOK, ChecksTypeOK, Idle
<1> QED
    BY <1>1, <1>2, <1>3 DEF TypeOK, ChecksTypeOK

\* A check past its first fetch holds a manifest that was signed.
LEMMA GotSound ==
    ASSUME UpdaterInv, NEW c \in Check, pc[c] \notin {"idle", "manifest"}
    PROVE  /\ got[c] \in 1 .. Len(releases) /\ Len(releases) \in 0 .. MaxReleases
           /\ releases[got[c]].seq \in 1 .. MaxReleases
           /\ releases[got[c]].build \in 1 .. Len(releases)
           /\ VersionOf(releases[got[c]].build) = releases[got[c]].version
           /\ held \in Nat
<1> USE DEF UpdaterInv, BinaryIsSound, TypeOK, relayVars, stateVars, binVars, historyVars
<1>1. Len(releases) \in 0 .. MaxReleases /\ held \in Nat /\ MaxReleases \in Nat
    BY UpdaterAssumption DEF FilesTypeOK
<1>2. got[c] \in 1 .. Len(releases)
    BY DEF ChecksTypeOK, Label
<1>3. releases[got[c]].seq \in 1 .. got[c] /\ releases[got[c]].build \in 1 .. got[c]
    BY <1>2 DEF ManifestsAreSound
<1> QED
    BY <1>1, <1>2, <1>3, VersionOfBuild

\* A check that ends before it has put the binary aside.
LEMMA EndKeeps ==
    ASSUME UpdaterInv, NEW c \in Check, pc[c] # "aside", Idle(c),
           fd' = [fd EXCEPT ![c] = "none"] \/ (pc[c] # "write" /\ fd' = fd),
           UNCHANGED <<releases, toCopy, manifest, windows, state, stateTmp, held, shared, binVars, stale,
                       raced, lateTmp, stranded>>,
           lost' \subseteq 1 .. Len(releases)
    PROVE  UpdaterInv'
<1> USE UpdaterAssumption DEF UpdaterInv, BinaryIsSound, TypeOK, stateVars, binVars
<1>2. /\ ChecksTypeOK' /\ pc'[c] = "idle" /\ tmpPath'[c] = None /\ image'[c] \in {image[c], None}
      /\ fd' \in [Check -> {"none", "tmp", "state", "gone"}]
      /\ fd'[c] = "none" /\ \A d \in Check \ {c} : fd'[d] = fd[d]
    BY IdleEffect
<1>1. FilesTypeOK'
    BY <1>2 DEF FilesTypeOK
<1>3. \A d \in Check \ {c} : /\ pc'[d] = pc[d] /\ got'[d] = got[d]
                              /\ tmpPath'[d] = tmpPath[d] /\ image'[d] = image[d]
    BY IdleEffect
<1>4. ManifestsAreSound'
    BY DEF ManifestsAreSound
<1>5. InstalledIsSigned'
    BY <1>2, <1>3 DEF InstalledIsSigned, Signed
<1>6. AlwaysRunnable'
    BY <1>2, <1>3 DEF AlwaysRunnable
<1>7. ImagesAreCurrent'
    BY <1>2, <1>3 DEF ImagesAreCurrent, CheckSelf, Executable, VersionOf
<1>8. MarkIsBehind' /\ OneWriter'
    BY <1>2, <1>3 DEF MarkIsBehind, OneWriter, Parses
<1> QED
    BY <1>1, <1>2, <1>4, <1>5, <1>6, <1>7, <1>8

\* One lemma per step of a check.
LEMMA StartKeeps ==
    ASSUME UpdaterInv, NEW c \in Check, Start(c)
    PROVE  UpdaterInv'
<1> USE UpdaterAssumption
    DEF UpdaterInv, BinaryIsSound, TypeOK, relayVars, stateVars, binVars, historyVars
<1>1. FilesTypeOK'
    BY DEF FilesTypeOK, ChecksTypeOK, ManifestsAreSound, Start, Goto
<1>2. ChecksTypeOK'
  <2>1. VersionOf(bin) \in Version \union {Installed} /\ VersionOf(bin) # None
      BY VersionOfType
  <2>2. /\ pc' \in [Check -> Label] /\ image' \in [Check -> Version \union {Installed, None}]
        /\ image'[c] # None /\ pc'[c] = "manifest"
        /\ \A d \in Check \ {c} : pc'[d] = pc[d] /\ image'[d] = image[d]
      BY SMTT(40), <2>1 DEF ChecksTypeOK, Label, Start, Goto
  <2> QED
      BY <2>2 DEF ChecksTypeOK, Start
<1>3. ManifestsAreSound'
    BY DEF ManifestsAreSound, Start, Goto
<1>4. InstalledIsSigned'
    BY DEF InstalledIsSigned, Signed, ChecksTypeOK, Start, Goto
<1>5. AlwaysRunnable'
    BY DEF AlwaysRunnable, ChecksTypeOK, Start, Goto
<1>6. ImagesAreCurrent'
    BY DEF ImagesAreCurrent, CheckSelf, Executable, VersionOf, ChecksTypeOK, Start, Goto
<1>7. MarkIsBehind'
    BY SMTT(40) DEF MarkIsBehind, FilesTypeOK, ChecksTypeOK, Start, Goto
<1>8. OneWriter'
    BY SMTT(40) DEF OneWriter, Parses, ChecksTypeOK, Start, Goto
<1> QED
    BY <1>1, <1>2, <1>3, <1>4, <1>5, <1>6, <1>7, <1>8

LEMMA FetchManifestKeeps ==
    ASSUME UpdaterInv, NEW c \in Check, FetchManifest(c)
    PROVE  UpdaterInv'
<1> USE UpdaterAssumption
    DEF UpdaterInv, BinaryIsSound, TypeOK, relayVars, stateVars, binVars, historyVars
<1>0. CASE ~keyed \/ manifest = None
  <2>1. pc[c] \notin {"aside", "write"} /\ Idle(c)
      BY <1>0 DEF FetchManifest
  <2>2. UNCHANGED <<releases, toCopy, manifest, windows, stateVars, binVars, stale, raced, lateTmp,
                    stranded>>
      BY <1>0 DEF FetchManifest, Goto
  <2>3. lost' \subseteq 1 .. Len(releases)
      BY <1>0 DEF FetchManifest, FilesTypeOK, ChecksTypeOK
  <2> QED
      BY <2>1, <2>2, <2>3, EndKeeps
<1>a. SUFFICES ASSUME keyed /\ manifest # None PROVE UpdaterInv'
    BY <1>0
<1>p. /\ pc[c] = "manifest" /\ pc'[c] = "sig" /\ \A d \in Check \ {c} : pc'[d] = pc[d]
      /\ pc' \in [Check -> Label]
      /\ got' = [got EXCEPT ![c] = manifest] /\ UNCHANGED <<stateTmp, fd, raced, lateTmp>>
      /\ UNCHANGED <<releases, image, tmpPath, state, held, shared>>
    BY <1>a DEF ChecksTypeOK, Label, FetchManifest, Goto
<1>1. FilesTypeOK'
    BY <1>a DEF FilesTypeOK, ChecksTypeOK, ManifestsAreSound, FetchManifest, Goto
<1>2. ChecksTypeOK'
    BY <1>a, <1>p DEF FilesTypeOK, ChecksTypeOK
<1>3. ManifestsAreSound'
    BY <1>a DEF ManifestsAreSound, FetchManifest, Goto
<1>4. InstalledIsSigned'
    BY <1>a DEF InstalledIsSigned, Signed, ChecksTypeOK, FetchManifest, Goto
<1>5. AlwaysRunnable'
    BY <1>a DEF AlwaysRunnable, ChecksTypeOK, FetchManifest, Goto
<1>6. ImagesAreCurrent'
    BY SMTT(40), <1>a DEF ImagesAreCurrent, CheckSelf, Executable, VersionOf, ChecksTypeOK, FetchManifest, Goto
<1>7. MarkIsBehind'
    BY <1>p DEF MarkIsBehind, ChecksTypeOK
<1>8. OneWriter'
    BY <1>p DEF OneWriter, Parses
<1> QED
    BY <1>1, <1>2, <1>3, <1>4, <1>5, <1>6, <1>7, <1>8

LEMMA FetchSigKeeps ==
    ASSUME UpdaterInv, NEW c \in Check, FetchSig(c)
    PROVE  UpdaterInv'
<1> USE UpdaterAssumption
    DEF UpdaterInv, BinaryIsSound, TypeOK, relayVars, stateVars, binVars, historyVars
<1>0. CASE sig # got[c]
  <2>1. pc[c] \notin {"aside", "write"} /\ Idle(c)
      BY <1>0 DEF FetchSig
  <2>2. UNCHANGED <<releases, toCopy, manifest, windows, stateVars, binVars, stale, raced, lateTmp,
                    stranded>>
      BY <1>0 DEF FetchSig, Goto
  <2>3. lost' \subseteq 1 .. Len(releases)
      BY <1>0 DEF FetchSig, FilesTypeOK, ChecksTypeOK
  <2> QED
      BY <2>1, <2>2, <2>3, EndKeeps
<1>a. SUFFICES ASSUME ~ (sig # got[c]) PROVE UpdaterInv'
    BY <1>0
<1>p. /\ pc[c] = "sig" /\ pc'[c] = "load" /\ \A d \in Check \ {c} : pc'[d] = pc[d]
      /\ pc' \in [Check -> Label]
      /\ UNCHANGED <<got, stateTmp, fd, raced, lateTmp>>
      /\ UNCHANGED <<releases, image, tmpPath, state, held, shared>>
    BY <1>a DEF ChecksTypeOK, Label, FetchSig, Goto
<1>1. FilesTypeOK'
    BY <1>a DEF FilesTypeOK, ChecksTypeOK, ManifestsAreSound, FetchSig, Goto
<1>2. ChecksTypeOK'
    BY <1>p DEF ChecksTypeOK
<1>3. ManifestsAreSound'
    BY <1>a DEF ManifestsAreSound, FetchSig, Goto
<1>4. InstalledIsSigned'
    BY <1>a DEF InstalledIsSigned, Signed, ChecksTypeOK, FetchSig, Goto
<1>5. AlwaysRunnable'
    BY <1>a DEF AlwaysRunnable, ChecksTypeOK, FetchSig, Goto
<1>6. ImagesAreCurrent'
    BY <1>a DEF ImagesAreCurrent, CheckSelf, Executable, VersionOf, ChecksTypeOK, FetchSig, Goto
<1>7. MarkIsBehind'
    BY <1>p DEF MarkIsBehind
<1>8. OneWriter'
    BY <1>p DEF OneWriter, Parses
<1> QED
    BY <1>1, <1>2, <1>3, <1>4, <1>5, <1>6, <1>7, <1>8

LEMMA LoadSeqKeeps ==
    ASSUME UpdaterInv, NEW c \in Check, LoadSeq(c)
    PROVE  UpdaterInv'
<1> USE UpdaterAssumption
    DEF UpdaterInv, BinaryIsSound, TypeOK, relayVars, stateVars, binVars, historyVars
<1>0. CASE ~ (Parses(state) /\ releases[got[c]].seq > state)
  <2>1. pc[c] \notin {"aside", "write"} /\ Idle(c)
      BY <1>0 DEF LoadSeq
  <2>2. UNCHANGED <<releases, toCopy, manifest, windows, stateVars, binVars, stale, raced, lateTmp,
                    stranded>>
      BY <1>0 DEF LoadSeq
  <2>3. lost' \subseteq 1 .. Len(releases)
      BY <1>0 DEF LoadSeq, FilesTypeOK, ChecksTypeOK
  <2> QED
      BY <2>1, <2>2, <2>3, EndKeeps
<1>a. SUFFICES ASSUME Parses(state), releases[got[c]].seq > state PROVE UpdaterInv'
    BY <1>0
<1>b. state = held
    BY <1>a DEF FilesTypeOK, Parses
<1>p. /\ pc[c] = "load" /\ pc'[c] = "save" /\ \A d \in Check \ {c} : pc'[d] = pc[d]
      /\ pc' \in [Check -> Label]
      /\ UNCHANGED <<got, stateTmp, fd, lateTmp>> /\ raced' = raced \ {c}
      /\ UNCHANGED <<releases, image, tmpPath, state, held, shared>>
    BY <1>a DEF ChecksTypeOK, Label, LoadSeq, Goto
<1>1. FilesTypeOK'
    BY <1>a DEF FilesTypeOK, ChecksTypeOK, ManifestsAreSound, LoadSeq, Goto
<1>2. ChecksTypeOK'
    BY <1>p DEF ChecksTypeOK
<1>3. ManifestsAreSound'
    BY <1>a DEF ManifestsAreSound, LoadSeq, Goto
<1>4. InstalledIsSigned'
    BY <1>a DEF InstalledIsSigned, Signed, ChecksTypeOK, LoadSeq, Goto
<1>5. AlwaysRunnable'
    BY <1>a DEF AlwaysRunnable, ChecksTypeOK, LoadSeq, Goto
<1>6. ImagesAreCurrent'
    BY <1>a DEF ImagesAreCurrent, CheckSelf, Executable, VersionOf, ChecksTypeOK, LoadSeq, Goto
<1>7. MarkIsBehind'
    BY <1>p, <1>a, <1>b DEF MarkIsBehind
<1>8. OneWriter'
    BY <1>p DEF OneWriter, Parses
<1> QED
    BY <1>1, <1>2, <1>3, <1>4, <1>5, <1>6, <1>7, <1>8

LEMMA OpenStateKeeps ==
    ASSUME UpdaterInv, NEW c \in Check, OpenState(c)
    PROVE  UpdaterInv'
<1> USE UpdaterAssumption
    DEF UpdaterInv, BinaryIsSound, TypeOK, relayVars, stateVars, binVars, historyVars
<1>p. /\ pc[c] = "save" /\ pc'[c] = "write" /\ \A d \in Check \ {c} : pc'[d] = pc[d]
      /\ pc' \in [Check -> Label]
      /\ UNCHANGED <<releases, image, got, tmpPath, state, held, raced>>
      /\ stateTmp' = Empty /\ lateTmp' = FALSE
      /\ shared' = (shared \/ \E d \in Check \ {c} : pc[d] \in {"write", "rename"})
    BY DEF ChecksTypeOK, Label, OpenState, Goto
<1>f. /\ fd' \in [Check -> {"none", "tmp", "state", "gone"}]
      /\ fd'[c] = "tmp" /\ \A d \in Check \ {c} : fd'[d] = fd[d]
    BY DEF FilesTypeOK, OpenState
<1>1. FilesTypeOK'
    BY <1>p, <1>f DEF FilesTypeOK, OpenState
<1>2. ChecksTypeOK'
  <2>1. ASSUME NEW d \in Check
        PROVE  /\ got[d] # None
                    <=> pc'[d] \in {"sig", "load", "save", "write", "rename", "download", "swap", "aside"}
               /\ fd'[d] # "none" <=> pc'[d] = "write"
               /\ pc'[d] \in {"swap", "aside"} <=> tmpPath[d] # None
               /\ pc'[d] # "idle" => image[d] # None
    <3>1. CASE d = c
        BY <3>1, <1>p, <1>f DEF ChecksTypeOK
    <3>2. CASE d # c
        BY <3>2, <1>p, <1>f DEF ChecksTypeOK
    <3> QED
        BY <3>1, <3>2
  <2> QED
      BY <2>1, <1>p DEF ChecksTypeOK
<1>3. ManifestsAreSound'
    BY DEF ManifestsAreSound, OpenState
<1>4. InstalledIsSigned'
    BY DEF InstalledIsSigned, Signed, ChecksTypeOK, OpenState
<1>5. AlwaysRunnable'
    BY DEF AlwaysRunnable, ChecksTypeOK, OpenState, Goto
<1>6. ImagesAreCurrent'
    BY DEF ImagesAreCurrent, CheckSelf, Executable, VersionOf, ChecksTypeOK, OpenState, Goto
<1>7. MarkIsBehind'
    BY <1>p DEF MarkIsBehind
<1>8. OneWriter'
    BY <1>p, <1>f DEF OneWriter, Parses, ChecksTypeOK
<1> QED
    BY <1>1, <1>2, <1>3, <1>4, <1>5, <1>6, <1>7, <1>8

LEMMA WriteStateKeeps ==
    ASSUME UpdaterInv, NEW c \in Check, WriteState(c)
    PROVE  UpdaterInv'
<1> DEFINE n == releases[got[c]].seq
<1> USE UpdaterAssumption
    DEF UpdaterInv, BinaryIsSound, TypeOK, relayVars, stateVars, binVars, historyVars
<1>a. /\ pc[c] = "write" /\ pc' = [pc EXCEPT ![c] = "rename"] /\ fd' = [fd EXCEPT ![c] = "none"]
      /\ UNCHANGED <<releases, toCopy, manifest, windows, image, got, tmpPath, shared, bin, old, stale,
                     stranded>>
      /\ \/ /\ fd[c] = "tmp"
            /\ stateTmp' \in Overwrite(stateTmp, n) /\ lateTmp' = (c \in raced)
            /\ UNCHANGED <<state, held, raced, lost>>
         \/ /\ fd[c] = "state"
            /\ state' \in Overwrite(state, n) /\ held' = Number(state')
            /\ raced' = raced \union Recording /\ lateTmp' = TRUE
            /\ lost' = lost \union {i \in 1 .. Len(releases) : releases[i].seq = n}
            /\ UNCHANGED stateTmp
         \/ fd[c] = "gone" /\ UNCHANGED <<state, stateTmp, held, raced, lateTmp, lost>>
    BY DEF WriteState, Goto
<1>b. n \in 1 .. MaxReleases /\ n \in Nat /\ held \in Nat
    BY <1>a, GotSound
<1>c. \A x : Overwrite(x, n) \subseteq {n, Torn} /\ Overwrite(Empty, n) = {n}
    BY DEF Overwrite
<1>d. Parses(n) /\ ~Parses(Torn) /\ n \notin {None, Empty, Torn}
    BY <1>b DEF Parses
<1> HIDE DEF n
<1>e. /\ pc'[c] = "rename" /\ fd'[c] = "none"
      /\ \A d \in Check \ {c} : pc'[d] = pc[d] /\ fd'[d] = fd[d]
    BY <1>a DEF FilesTypeOK, ChecksTypeOK
<1>1. FilesTypeOK'
  <2>1. stateTmp' \in (1 .. MaxReleases) \union {None, Empty, Torn}
      BY <1>a, <1>b, <1>c DEF FilesTypeOK
  <2>2. held' \in 0 .. MaxReleases /\ state' \in {held', Empty, Torn}
      BY <1>a, <1>b, <1>c, <1>d DEF FilesTypeOK, Number
  <2>3. raced' \subseteq Check /\ lost' \subseteq 1 .. Len(releases)
      BY <1>a DEF FilesTypeOK, Recording
  <2>4. fd' \in [Check -> {"none", "tmp", "state", "gone"}]
      BY <1>a DEF FilesTypeOK
  <2> QED
      BY <1>a, <2>1, <2>2, <2>3, <2>4 DEF FilesTypeOK
<1>2. ChecksTypeOK'
  <2>1. pc' \in [Check -> Label]
      BY <1>a DEF ChecksTypeOK, Label
  <2> QED
      BY <2>1, <1>a, <1>e DEF ChecksTypeOK
<1>3. ManifestsAreSound'
    BY <1>a DEF ManifestsAreSound
<1>4. InstalledIsSigned'
    BY <1>a DEF InstalledIsSigned, Signed, ChecksTypeOK
<1>5. AlwaysRunnable'
    BY <1>a, <1>e DEF AlwaysRunnable
<1>6. ImagesAreCurrent'
    BY <1>a, <1>e DEF ImagesAreCurrent, CheckSelf, Executable, VersionOf
<1>7. MarkIsBehind'
  <2>1. CASE fd[c] = "tmp"
    <3>1. stateTmp' \in {n, Torn} /\ lateTmp' = (c \in raced) /\ UNCHANGED <<held, raced>>
        BY <2>1, <1>a, <1>c
    <3>2. c \notin raced => n > held
        BY <1>a DEF MarkIsBehind, n
    <3>3. Torn \notin Nat
        BY UpdaterAssumption
    <3> QED
        BY <3>1, <3>2, <3>3, <1>a, <1>e DEF MarkIsBehind
  <2>2. CASE fd[c] = "state"
      BY <2>2, <1>a, <1>e DEF MarkIsBehind, Recording
  <2>3. CASE fd[c] = "gone"
      BY <2>3, <1>a, <1>e DEF MarkIsBehind
  <2> QED
      BY <2>1, <2>2, <2>3, <1>a
<1>8. OneWriter'
  <2>1. CASE shared
      BY <2>1, <1>a DEF OneWriter
  <2>2. CASE ~shared
    <3>1. fd[c] = "tmp" /\ stateTmp = Empty /\ Parses(state)
        BY <2>2, <1>a DEF OneWriter
    <3>2. stateTmp' = n /\ state' = state /\ ~shared'
        BY <3>1, <2>2, <1>a, <1>c
    <3>3. \A d \in Check \ {c} : pc[d] \notin {"write", "rename"} /\ fd[d] \in {"none", "tmp"}
        BY <2>2, <1>a DEF OneWriter
    <3> QED
        BY <3>1, <3>2, <3>3, <1>d, <1>e DEF OneWriter, Parses
  <2> QED
      BY <2>1, <2>2
<1> QED
    BY <1>1, <1>2, <1>3, <1>4, <1>5, <1>6, <1>7, <1>8

LEMMA CheckFailsKeeps ==
    ASSUME UpdaterInv, NEW c \in Check, CheckFails(c)
    PROVE  UpdaterInv'
<1>1. pc[c] # "aside" /\ Idle(c) /\ fd' = [fd EXCEPT ![c] = "none"]
    BY DEF CheckFails
<1>2. UNCHANGED <<releases, toCopy, manifest, windows, state, stateTmp, held, shared, binVars, stale,
                  raced, lateTmp, stranded>>
    BY DEF CheckFails, relayVars, historyVars
<1>3. lost' \subseteq 1 .. Len(releases)
    BY DEF CheckFails, historyVars, UpdaterInv, BinaryIsSound, TypeOK, FilesTypeOK
<1> QED
    BY <1>1, <1>2, <1>3, EndKeeps

LEMMA DownloadAndVerifyKeeps ==
    ASSUME UpdaterInv, NEW c \in Check, NEW body, DownloadAndVerify(c, body)
    PROVE  UpdaterInv'
<1> USE UpdaterAssumption
    DEF UpdaterInv, BinaryIsSound, TypeOK, relayVars, stateVars, binVars, historyVars
<1>0. CASE body # releases[got[c]].build
  <2>1. pc[c] \notin {"aside", "write"} /\ Idle(c)
      BY <1>0 DEF DownloadAndVerify
  <2>2. UNCHANGED <<releases, toCopy, manifest, windows, stateVars, binVars, stale, raced, lateTmp,
                    stranded>>
      BY <1>0 DEF DownloadAndVerify, Goto
  <2>3. lost' \subseteq 1 .. Len(releases)
      BY <1>0, GotSound DEF DownloadAndVerify, FilesTypeOK
  <2> QED
      BY <2>1, <2>2, <2>3, EndKeeps
<1>a. SUFFICES ASSUME ~ (body # releases[got[c]].build) PROVE UpdaterInv'
    BY <1>0
<1>1. FilesTypeOK'
    BY <1>a DEF FilesTypeOK, ChecksTypeOK, ManifestsAreSound, DownloadAndVerify, Goto
<1>2. ChecksTypeOK'
  <2>1. /\ pc[c] = "download" /\ tmpPath' = [tmpPath EXCEPT ![c] = releases[got[c]].build]
        /\ pc' = [pc EXCEPT ![c] = "swap"] /\ UNCHANGED <<image, got, releases, fd>>
      BY <1>a DEF DownloadAndVerify, Goto
  <2>2. releases[got[c]].build \in 1 .. Len(releases) /\ releases[got[c]].build # None
      BY <2>1, GotSound
  <2> QED
      BY <2>1, <2>2 DEF ChecksTypeOK, Label
<1>3. ManifestsAreSound'
    BY <1>a DEF ManifestsAreSound, DownloadAndVerify, Goto
<1>4. InstalledIsSigned'
    BY <1>a DEF InstalledIsSigned, Signed, ChecksTypeOK, DownloadAndVerify, Goto
<1>5. AlwaysRunnable'
    BY <1>a DEF AlwaysRunnable, ChecksTypeOK, DownloadAndVerify, Goto
<1>6. ImagesAreCurrent'
    BY <1>a DEF ImagesAreCurrent, CheckSelf, Executable, VersionOf, ChecksTypeOK, DownloadAndVerify, Goto
<1>7. MarkIsBehind'
    BY SMTT(40), <1>a DEF MarkIsBehind, FilesTypeOK, ChecksTypeOK, DownloadAndVerify, Goto
<1>8. OneWriter'
    BY SMTT(40), <1>a DEF OneWriter, Parses, ChecksTypeOK, DownloadAndVerify, Goto
<1> QED
    BY <1>1, <1>2, <1>3, <1>4, <1>5, <1>6, <1>7, <1>8

LEMMA RenameStateKeeps ==
    ASSUME UpdaterInv, NEW c \in Check, RenameState(c)
    PROVE  UpdaterInv'
<1> USE UpdaterAssumption
    DEF UpdaterInv, BinaryIsSound, TypeOK, relayVars, stateVars, binVars, historyVars
<1>0. CASE stateTmp = None \/ TmpHeld
  <2>1. pc[c] \notin {"aside", "write"} /\ Idle(c)
      BY <1>0 DEF RenameState
  <2>2. UNCHANGED <<releases, toCopy, manifest, windows, stateVars, binVars, stale, raced, lateTmp,
                    stranded>>
      BY <1>0 DEF RenameState, RecordedInVain, Goto
  <2>3. lost' \subseteq 1 .. Len(releases)
      BY <1>0 DEF RenameState, FilesTypeOK, ChecksTypeOK
  <2> QED
      BY <2>1, <2>2, <2>3, EndKeeps
<1>a. SUFFICES ASSUME stateTmp # None, ~TmpHeld PROVE UpdaterInv'
    BY <1>0
<1>b. /\ pc[c] = "rename" /\ state' = stateTmp /\ stateTmp' = None /\ held' = Number(stateTmp)
      /\ fd' = [d \in Check |-> CASE fd[d] = "tmp" -> "state"
                                  [] fd[d] = "state" -> "gone"
                                  [] OTHER -> fd[d]]
      /\ UNCHANGED <<relayVars, windows, shared, binVars, stale, stranded>>
      /\ raced' = raced \union Recording
      /\ lost' = lost \union RecordedInVain(c)
      /\ \/ CheckSelf(c) /\ Goto(c, "download") /\ UNCHANGED <<image, got, tmpPath>>
         \/ ~CheckSelf(c) /\ Idle(c)
    BY <1>a DEF RenameState
<1>e. /\ fd' \in [Check -> {"none", "tmp", "state", "gone"}]
      /\ \A d \in Check : /\ fd'[d] = "none" <=> fd[d] = "none"
                          /\ fd[d] = "none" => fd'[d] = "none"
    BY <1>b DEF FilesTypeOK
<1>f. fd[c] = "none"
    BY <1>b DEF ChecksTypeOK
<1>c. UNCHANGED <<releases, toCopy, manifest, windows, bin, old, stale, stranded>>
    BY <1>b DEF relayVars, binVars
<1>d. /\ ChecksTypeOK'
      /\ tmpPath'[c] = None
      /\ \/ pc'[c] = "idle" /\ image'[c] \in {image[c], None}
         \/ pc'[c] = "download" /\ image'[c] = image[c] /\ got'[c] = got[c] /\ CheckSelf(c)
      /\ \A d \in Check \ {c} : /\ pc'[d] = pc[d] /\ got'[d] = got[d]
                                 /\ tmpPath'[d] = tmpPath[d] /\ image'[d] = image[d]
  <2>1. /\ pc' \in [Check -> Label] /\ image' \in [Check -> Version \union {Installed, None}]
        /\ got' \in [Check -> (1 .. Len(releases)) \union {None}]
        /\ tmpPath' \in [Check -> (1 .. Len(releases)) \union {None}]
      BY <1>b DEF ChecksTypeOK, Label, Goto, Idle
  <2>2. /\ tmpPath'[c] = None
        /\ \/ pc'[c] = "idle" /\ image'[c] \in {image[c], None} /\ got'[c] = None
           \/ pc'[c] = "download" /\ image'[c] = image[c] /\ got'[c] = got[c] /\ CheckSelf(c)
        /\ \A d \in Check \ {c} : /\ pc'[d] = pc[d] /\ got'[d] = got[d]
                                   /\ tmpPath'[d] = tmpPath[d] /\ image'[d] = image[d]
      BY <1>b DEF ChecksTypeOK, Goto, Idle
  <2> QED
      BY <2>1, <2>2, <1>b, <1>c, <1>e, <1>f DEF ChecksTypeOK
<1>1. FilesTypeOK'
  <2>1. held' \in 0 .. MaxReleases /\ state' \in {held', Empty, Torn} /\ stateTmp' = None
      BY <1>a, <1>b DEF FilesTypeOK, Number, Parses
  <2>2. lost' \subseteq 1 .. Len(releases) /\ raced' \subseteq Check
      BY <1>b DEF FilesTypeOK, RecordedInVain, Recording
  <2> QED
      BY <1>c, <1>e, <2>1, <2>2 DEF FilesTypeOK
<1>3. ManifestsAreSound'
    BY <1>c DEF ManifestsAreSound
<1>4. InstalledIsSigned'
    BY <1>c, <1>d DEF InstalledIsSigned, Signed
<1>5. AlwaysRunnable'
    BY SMTT(40), <1>b, <1>c, <1>d DEF AlwaysRunnable
<1>6. ImagesAreCurrent'
    BY <1>c, <1>d DEF ImagesAreCurrent, CheckSelf, Executable, VersionOf
<1>7. MarkIsBehind'
    BY <1>b, <1>d DEF MarkIsBehind, Recording
<1>8. OneWriter'
  <2>1. CASE shared
      BY <2>1, <1>b DEF OneWriter
  <2>2. CASE ~shared
    <3>1. /\ Parses(stateTmp)
          /\ \A d \in Check \ {c} : pc[d] \notin {"write", "rename"}
        BY <2>2, <1>b DEF OneWriter
    <3>2. \A d \in Check : fd'[d] = "none"
        BY <3>1, <1>b, <1>e, <1>f DEF ChecksTypeOK
    <3>3. \A d \in Check : pc'[d] \notin {"write", "rename"}
        BY <3>1, <1>d
    <3> QED
        BY <3>1, <3>2, <3>3, <1>b DEF OneWriter
  <2> QED
      BY <2>1, <2>2
<1> QED
    BY <1>1, <1>d, <1>3, <1>4, <1>5, <1>6, <1>7, <1>8

LEMMA SwapAsideKeeps ==
    ASSUME UpdaterInv, NEW c \in Check, SwapAside(c)
    PROVE  UpdaterInv'
<1> USE UpdaterAssumption
    DEF UpdaterInv, BinaryIsSound, TypeOK, relayVars, stateVars, binVars, historyVars
<1>a. /\ pc[c] = "swap" /\ windows
      /\ UNCHANGED <<releases, toCopy, manifest, windows, stateVars, stale, raced, lateTmp,
                     stranded>>
    BY DEF SwapAside
<1>0. got[c] \in 1 .. Len(releases)
    BY <1>a, GotSound
<1>1. FilesTypeOK'
    BY <1>a, <1>0 DEF FilesTypeOK, SwapAside
<1>2. ManifestsAreSound'
    BY <1>a DEF ManifestsAreSound
<1>3. CASE bin # None /\ ~OldInUse
  <2>1. /\ old' = bin /\ bin' = None
        /\ Goto(c, "aside") /\ UNCHANGED <<image, got, tmpPath, lost>>
      BY <1>3 DEF SwapAside
  <2>2. ChecksTypeOK' /\ pc'[c] = "aside" /\ \A d \in Check \ {c} : pc'[d] = pc[d]
      BY <1>a, <2>1 DEF ChecksTypeOK, Label, Goto
  <2>3. InstalledIsSigned'
      BY <1>a, <2>1, <2>2 DEF InstalledIsSigned, Signed
  <2>4. AlwaysRunnable'
      BY <1>a, <1>3, <2>1, <2>2 DEF AlwaysRunnable, OldInUse
  <2>5. ImagesAreCurrent'
      BY <1>a, <1>3, <2>1, <2>2 DEF ImagesAreCurrent, CheckSelf, Executable, VersionOf
  <2>6. MarkIsBehind' /\ OneWriter'
      BY <1>a, <2>1, <2>2 DEF MarkIsBehind, OneWriter, Parses
  <2> QED
      BY <1>1, <1>2, <2>2, <2>3, <2>4, <2>5, <2>6
<1>4. CASE bin = None \/ OldInUse
  <2>1. /\ old' = (IF OldInUse THEN old ELSE None) /\ Idle(c) /\ bin' = bin
      BY <1>4 DEF SwapAside
  <2>2. /\ ChecksTypeOK' /\ pc'[c] = "idle" /\ tmpPath'[c] = None /\ image'[c] \in {image[c], None}
        /\ \A d \in Check \ {c} : /\ pc'[d] = pc[d] /\ got'[d] = got[d]
                                   /\ tmpPath'[d] = tmpPath[d] /\ image'[d] = image[d]
      BY <1>a, <2>1, IdleEffect
  <2>3. InstalledIsSigned'
      BY <1>a, <2>1, <2>2 DEF InstalledIsSigned, Signed
  <2>4. AlwaysRunnable'
      BY <1>a, <2>1, <2>2 DEF AlwaysRunnable, OldInUse
  <2>5. ImagesAreCurrent'
      BY <1>a, <2>1, <2>2 DEF ImagesAreCurrent, CheckSelf, Executable, VersionOf
  <2>6. MarkIsBehind' /\ OneWriter'
      BY <1>a, <2>1, <2>2 DEF MarkIsBehind, OneWriter, Parses
  <2> QED
      BY <1>1, <1>2, <2>2, <2>3, <2>4, <2>5, <2>6
<1> QED
    BY <1>3, <1>4

LEMMA SwapFailsKeeps ==
    ASSUME UpdaterInv, NEW c \in Check, SwapFails(c)
    PROVE  UpdaterInv'
<1> USE UpdaterAssumption
    DEF UpdaterInv, BinaryIsSound, TypeOK, relayVars, stateVars, binVars, historyVars
<1>0. CASE pc[c] = "swap"
  <2>1. pc[c] \notin {"aside", "write"} /\ Idle(c)
      BY <1>0 DEF SwapFails
  <2>2. UNCHANGED <<releases, toCopy, manifest, windows, stateVars, binVars, stale, raced, lateTmp,
                    stranded>>
      BY <1>0 DEF SwapFails
  <2>3. lost' \subseteq 1 .. Len(releases)
      BY <1>0, GotSound DEF SwapFails, FilesTypeOK
  <2> QED
      BY <2>1, <2>2, <2>3, EndKeeps
<1>a. SUFFICES ASSUME ~ (pc[c] = "swap") PROVE UpdaterInv'
    BY <1>0
<1>b. /\ pc[c] = "aside" /\ Idle(c)
      /\ \/ bin' = old /\ old' = None /\ UNCHANGED stranded
         \/ stranded' = TRUE /\ UNCHANGED <<bin, old>>
      /\ UNCHANGED <<releases, toCopy, manifest, windows, stateVars, stale, raced, lateTmp>>
    BY <1>a DEF SwapFails
<1>c. /\ ChecksTypeOK' /\ pc'[c] = "idle" /\ tmpPath'[c] = None /\ image'[c] \in {image[c], None}
      /\ \A d \in Check \ {c} : /\ pc'[d] = pc[d] /\ got'[d] = got[d]
                                 /\ tmpPath'[d] = tmpPath[d] /\ image'[d] = image[d]
    BY <1>b, IdleEffect
<1>1. FilesTypeOK'
    BY <1>b, GotSound DEF FilesTypeOK, SwapFails
<1>3. ManifestsAreSound'
    BY <1>b DEF ManifestsAreSound
<1>4. InstalledIsSigned'
    BY <1>b, <1>c DEF InstalledIsSigned, Signed
<1>5. AlwaysRunnable'
    BY <1>b, <1>c DEF AlwaysRunnable
<1>6. ImagesAreCurrent'
    BY <1>b, <1>c DEF ImagesAreCurrent, CheckSelf, Executable, VersionOf, AlwaysRunnable
<1>7. MarkIsBehind' /\ OneWriter'
    BY <1>b, <1>c DEF MarkIsBehind, OneWriter, Parses
<1> QED
    BY <1>1, <1>c, <1>3, <1>4, <1>5, <1>6, <1>7

LEMMA KillKeeps ==
    ASSUME UpdaterInv, NEW c \in Check, Kill(c)
    PROVE  UpdaterInv'
<1> USE UpdaterAssumption
    DEF UpdaterInv, BinaryIsSound, TypeOK, relayVars, stateVars, binVars, historyVars
<1>1. FilesTypeOK'
    BY DEF FilesTypeOK, ChecksTypeOK, ManifestsAreSound, Kill
<1>2. ChecksTypeOK'
    BY DEF FilesTypeOK, ChecksTypeOK, Label, Kill
<1>3. ManifestsAreSound'
    BY DEF ManifestsAreSound, Kill
<1>4. InstalledIsSigned'
    BY DEF InstalledIsSigned, Signed, ChecksTypeOK, Kill
<1>5. AlwaysRunnable'
    BY DEF AlwaysRunnable, ChecksTypeOK, Kill
<1>6. ImagesAreCurrent'
    BY DEF ImagesAreCurrent, CheckSelf, Executable, VersionOf, ChecksTypeOK, Kill
<1>7. MarkIsBehind'
    BY SMTT(40) DEF MarkIsBehind, FilesTypeOK, ChecksTypeOK, Kill
<1>8. OneWriter'
    BY SMTT(40) DEF OneWriter, Parses, ChecksTypeOK, Kill
<1> QED
    BY <1>1, <1>2, <1>3, <1>4, <1>5, <1>6, <1>7, <1>8

LEMMA SwapUnixKeeps ==
    ASSUME UpdaterInv, NEW c \in Check, SwapUnix(c)
    PROVE  UpdaterInv'
<1> USE UpdaterAssumption
    DEF UpdaterInv, BinaryIsSound, TypeOK, relayVars, stateVars, binVars, historyVars
<1>1. FilesTypeOK'
  <2>1. tmpPath[c] \in 1 .. Len(releases) /\ Len(releases) \in Nat
      BY GotSound DEF ChecksTypeOK, SwapUnix
  <2>2. bin' \in 0 .. Len(releases)
      BY <2>1 DEF SwapUnix
  <2>3. lost' \subseteq 1 .. Len(releases) /\ stale' \subseteq Check
      BY DEF FilesTypeOK, SwapUnix, Swapped
  <2> QED
      BY <2>2, <2>3 DEF FilesTypeOK, SwapUnix
<1>2. ChecksTypeOK'
  <2>1. VersionOf(tmpPath[c]) \in Version \union {Installed}
      BY VersionOfType
  <2>2. /\ pc[c] \in {"swap", "aside"} /\ pc' = [pc EXCEPT ![c] = "idle"]
        /\ got' = [got EXCEPT ![c] = None] /\ tmpPath' = [tmpPath EXCEPT ![c] = None]
        /\ UNCHANGED <<releases, fd>>
      BY DEF SwapUnix, Swapped
  <2>3. /\ image' \in [Check -> Version \union {Installed, None}]
        /\ \A d \in Check \ {c} : image'[d] = image[d]
      BY <2>1 DEF ChecksTypeOK, SwapUnix, Swapped
  <2> QED
      BY <2>2, <2>3 DEF ChecksTypeOK, Label
<1>3. ManifestsAreSound'
    BY DEF ManifestsAreSound, SwapUnix, Swapped
<1>4. InstalledIsSigned'
    BY DEF InstalledIsSigned, Signed, ChecksTypeOK, SwapUnix, Swapped
<1>5. AlwaysRunnable'
    BY DEF AlwaysRunnable, ChecksTypeOK, SwapUnix, Swapped
<1>6. ImagesAreCurrent'
    BY DEF ImagesAreCurrent, CheckSelf, Executable, VersionOf, ChecksTypeOK, SwapUnix, Swapped
<1>7. MarkIsBehind'
    BY SMTT(40) DEF MarkIsBehind, FilesTypeOK, ChecksTypeOK, SwapUnix, Swapped
<1>8. OneWriter'
    BY SMTT(40) DEF OneWriter, Parses, ChecksTypeOK, SwapUnix, Swapped
<1> QED
    BY <1>1, <1>2, <1>3, <1>4, <1>5, <1>6, <1>7, <1>8

LEMMA SwapInKeeps ==
    ASSUME UpdaterInv, NEW c \in Check, SwapIn(c)
    PROVE  UpdaterInv'
<1> USE UpdaterAssumption
    DEF UpdaterInv, BinaryIsSound, TypeOK, relayVars, stateVars, binVars, historyVars
<1>1. FilesTypeOK'
  <2>1. tmpPath[c] \in 1 .. Len(releases) /\ Len(releases) \in Nat
      BY GotSound DEF ChecksTypeOK, SwapIn
  <2>2. bin' \in 0 .. Len(releases)
      BY <2>1 DEF SwapIn
  <2>3. lost' \subseteq 1 .. Len(releases) /\ stale' \subseteq Check
      BY DEF FilesTypeOK, SwapIn, Swapped
  <2> QED
      BY <2>2, <2>3 DEF FilesTypeOK, SwapIn
<1>2. ChecksTypeOK'
  <2>1. VersionOf(tmpPath[c]) \in Version \union {Installed}
      BY VersionOfType
  <2>2. /\ pc[c] \in {"swap", "aside"} /\ pc' = [pc EXCEPT ![c] = "idle"]
        /\ got' = [got EXCEPT ![c] = None] /\ tmpPath' = [tmpPath EXCEPT ![c] = None]
        /\ UNCHANGED <<releases, fd>>
      BY DEF SwapIn, Swapped
  <2>3. /\ image' \in [Check -> Version \union {Installed, None}]
        /\ \A d \in Check \ {c} : image'[d] = image[d]
      BY <2>1 DEF ChecksTypeOK, SwapIn, Swapped
  <2> QED
      BY <2>2, <2>3 DEF ChecksTypeOK, Label
<1>3. ManifestsAreSound'
    BY DEF ManifestsAreSound, SwapIn, Swapped
<1>4. InstalledIsSigned'
    BY DEF InstalledIsSigned, Signed, ChecksTypeOK, SwapIn, Swapped
<1>5. AlwaysRunnable'
    BY DEF AlwaysRunnable, ChecksTypeOK, SwapIn, Swapped
<1>6. ImagesAreCurrent'
    BY DEF ImagesAreCurrent, CheckSelf, Executable, VersionOf, ChecksTypeOK, SwapIn, Swapped
<1>7. MarkIsBehind'
    BY SMTT(40) DEF MarkIsBehind, FilesTypeOK, ChecksTypeOK, SwapIn, Swapped
<1>8. OneWriter'
    BY SMTT(40) DEF OneWriter, Parses, ChecksTypeOK, SwapIn, Swapped
<1> QED
    BY <1>1, <1>2, <1>3, <1>4, <1>5, <1>6, <1>7, <1>8

\* A release is appended: what was signed stays, and so does what it means.
LEMMA SignKeeps ==
    ASSUME UpdaterInv, NEW prev \in 0 .. Len(releases), Sign(prev)
    PROVE  UpdaterInv'
<1> DEFINE n == Len(releases)
           Release == [seq : 1 .. MaxReleases, version : Version, build : 1 .. MaxReleases]
<1> USE UpdaterAssumption DEF UpdaterInv, BinaryIsSound, TypeOK, stateVars
<1>1. /\ n \in Nat /\ n + 1 \in 1 .. MaxReleases /\ releases \in Seq(Release)
      /\ prev + 1 \in 1 .. (n + 1) /\ prev + 1 \in 1 .. MaxReleases
    BY SMTT(40) DEF FilesTypeOK, Sign
<1>2. UNCHANGED <<manifest, windows, pc, image, got, tmpPath, stateVars, bin, old, stale, raced,
                  lateTmp, lost, stranded>>
    BY DEF Sign, stateVars, binVars, historyVars
<1>3. PICK r \in Release :
        /\ releases' = Append(releases, r) /\ r.seq = prev + 1
        /\ \/ r.build = n + 1
           \/ n >= 1 /\ r.build = releases[n].build /\ r.version = releases[n].version
  <2>1. ASSUME NEW v \in Version,
               releases' = Append(releases, [seq |-> prev + 1, version |-> v, build |-> n + 1])
        PROVE  \E r \in Release : /\ releases' = Append(releases, r) /\ r.seq = prev + 1
                                  /\ r.build = n + 1
    <3>1. [seq |-> prev + 1, version |-> v, build |-> n + 1] \in Release
        BY <1>1
    <3> QED
        BY <2>1, <3>1
  <2>2. ASSUME n > 0,
               releases' = Append(releases, [seq |-> prev + 1, version |-> releases[n].version,
                                             build |-> releases[n].build])
        PROVE  \E r \in Release :
                 /\ releases' = Append(releases, r) /\ r.seq = prev + 1
                 /\ n >= 1 /\ r.build = releases[n].build /\ r.version = releases[n].version
    <3>1. n \in 1 .. n /\ n >= 1
        BY <2>2, <1>1
    <3>2. releases[n] \in Release
      <4> HIDE DEF Release
      <4> QED
          BY <3>1, <1>1
    <3>3. [seq |-> prev + 1, version |-> releases[n].version, build |-> releases[n].build] \in Release
        BY <3>2, <1>1
    <3> QED
        BY <2>2, <3>1, <3>3
  <2>3. \/ \E v \in Version :
             releases' = Append(releases, [seq |-> prev + 1, version |-> v, build |-> n + 1])
        \/ /\ n > 0
           /\ releases' = Append(releases, [seq |-> prev + 1, version |-> releases[n].version,
                                            build |-> releases[n].build])
      BY DEF Sign
  <2> HIDE DEF Release
  <2> QED
      BY <2>1, <2>2, <2>3
<1> HIDE DEF Release
<1>4. /\ releases' \in Seq(Release) /\ Len(releases') = n + 1
      /\ \A i \in 1 .. n : releases'[i] = releases[i]
      /\ releases'[n + 1] = r
    BY <1>1, <1>3
<1>5. \A i \in 1 .. Len(releases') : i \in 1 .. n \/ i = n + 1
    BY <1>1, <1>4
<1>6. 1 .. n \subseteq 1 .. Len(releases') /\ 0 .. n \subseteq 0 .. Len(releases')
    BY <1>1, <1>4
<1>7. FilesTypeOK'
  <2>1. releases' \in Seq([seq : 1 .. MaxReleases, version : Version, build : 1 .. MaxReleases])
      BY <1>4 DEF Release
  <2>2. releases' # <<>> /\ Len(releases') <= MaxReleases
      BY <1>1, <1>4
  <2> QED
      BY <2>1, <2>2, <1>2, <1>6 DEF FilesTypeOK
<1>8. ChecksTypeOK'
    BY <1>2, <1>6 DEF ChecksTypeOK
<1>9. ManifestsAreSound'
  <2> SUFFICES ASSUME NEW i \in 1 .. Len(releases')
               PROVE  /\ releases'[i].seq \in 1 .. i /\ releases'[i].build \in 1 .. i
                      /\ releases'[i].version \in Version
                      /\ releases'[i].version = releases'[releases'[i].build].version
      BY DEF ManifestsAreSound
  <2>0. \A j \in 1 .. n : /\ releases[j].seq \in 1 .. j /\ releases[j].build \in 1 .. j
                           /\ releases[j].build \in 1 .. n
                           /\ releases[j].version \in Version
                           /\ releases[j].version = releases[releases[j].build].version
      BY <1>1 DEF ManifestsAreSound
  <2>1. CASE i \in 1 .. n
      BY <2>1, <2>0, <1>4
  <2>2. CASE i = n + 1 /\ r.build = n + 1
      BY <2>2, <1>1, <1>3, <1>4 DEF Release
  <2>3. CASE i = n + 1 /\ n >= 1 /\ r.build = releases[n].build /\ r.version = releases[n].version
    <3>1. n \in 1 .. n
        BY <2>3, <1>1
    <3>2. releases[n].build \in 1 .. n /\ releases[n].version = releases[releases[n].build].version
        BY <3>1, <2>0
    <3>3. releases'[releases[n].build] = releases[releases[n].build]
        BY <3>2, <1>4
    <3>4. r.seq \in 1 .. (n + 1) /\ r.build \in 1 .. (n + 1) /\ r.version \in Version
        BY SMTT(40), <2>3, <3>2, <1>1, <1>3 DEF Release
    <3> QED
        BY <2>3, <3>2, <3>3, <3>4, <1>4
  <2> QED
      BY <2>1, <2>2, <2>3, <1>3, <1>5
<1>10. InstalledIsSigned'
  <2>1. \A b : Signed(b) => Signed(b)'
      BY <1>4, <1>6 DEF Signed
  <2>2. \A c \in Check : tmpPath[c] # None => got[c] \in 1 .. n
      BY DEF ChecksTypeOK
  <2> QED
      BY <2>1, <2>2, <1>2, <1>4 DEF InstalledIsSigned
<1>11. AlwaysRunnable'
    BY <1>2 DEF AlwaysRunnable
<1>12. ImagesAreCurrent'
  <2>1. Executable' = Executable /\ (Executable # None => Executable \in 0 .. n)
      BY <1>2 DEF Executable, FilesTypeOK
  <2>2. Executable # None => VersionOf(Executable)' = VersionOf(Executable)
    <3> DEFINE e == Executable
    <3> SUFFICES ASSUME e # None PROVE VersionOf(e)' = VersionOf(e)
        OBVIOUS
    <3>1. e' = e /\ (e = 0 \/ e \in 1 .. n)
        BY <2>1, <1>1
    <3>2. 0 \notin 1 .. n /\ 0 \notin 1 .. Len(releases')
        BY <1>1, <1>4
    <3> HIDE DEF e
    <3> QED
        BY <3>1, <3>2, <1>4, <1>6 DEF VersionOf
  <2>3. \A c \in Check : pc[c] \in {"download", "swap", "aside"} => got[c] \in 1 .. n
      BY DEF ChecksTypeOK
  <2> QED
      BY <2>1, <2>2, <2>3, <1>2, <1>4 DEF ImagesAreCurrent, CheckSelf
<1>13. MarkIsBehind' /\ OneWriter'
  <2>1. \A c \in Check : pc[c] \in {"save", "write"} => got[c] \in 1 .. n
      BY DEF ChecksTypeOK
  <2> QED
      BY <2>1, <1>2, <1>4 DEF MarkIsBehind, OneWriter, Parses, stateVars
<1> QED
    BY <1>7, <1>8, <1>9, <1>10, <1>11, <1>12, <1>13

LEMMA RelayKeeps ==
    ASSUME UpdaterInv,
           \/ SignRelease \/ SignWithoutPrev \/ RestoreRelay
           \/ \E file \in {"artifact", "manifest", "sig"} : Copy(file)
    PROVE  UpdaterInv'
<1> USE UpdaterAssumption DEF UpdaterInv, BinaryIsSound, TypeOK, stateVars
<1>0. Len(releases) \in Nat
    BY DEF FilesTypeOK
<1>1. CASE SignRelease
  <2>1. (IF releases = <<>> THEN 0 ELSE releases[Len(releases)].seq) \in 0 .. Len(releases)
    <3>1. CASE releases = <<>>
        BY <3>1, <1>0
    <3>2. CASE releases # <<>>
      <4>1. Len(releases) \in 1 .. Len(releases)
          BY <3>2, <1>0 DEF FilesTypeOK
      <4>2. releases[Len(releases)].seq \in 1 .. Len(releases)
          BY <4>1 DEF ManifestsAreSound
      <4> QED
          BY <3>2, <4>2, <1>0
    <3> QED
        BY <3>1, <3>2
  <2> QED
      BY <2>1, <1>1, SignKeeps DEF SignRelease
<1>2. CASE SignWithoutPrev
    BY <1>2, <1>0, SignKeeps DEF SignWithoutPrev
<1>3. CASE RestoreRelay \/ \E file \in {"artifact", "manifest", "sig"} : Copy(file)
  <2>1. UNCHANGED <<releases, windows, pc, image, got, tmpPath, stateVars, bin, old, stale, raced,
                    lateTmp, lost, stranded>>
      BY <1>3 DEF RestoreRelay, Copy, stateVars, binVars, historyVars
  <2>2. manifest' \in (1 .. Len(releases)) \union {None}
    <3>1. CASE RestoreRelay
        BY <3>1, <1>0 DEF RestoreRelay
    <3>2. ASSUME NEW file, Copy(file), manifest' # manifest PROVE manifest' \in 1 .. Len(releases)
      <4>1. manifest' = Len(releases) /\ Len(releases) # 0
          BY <3>2 DEF Copy, FilesTypeOK
      <4> QED
          BY <4>1, <1>0
    <3> QED
        BY <3>1, <3>2, <1>3 DEF FilesTypeOK
  <2>3. toCopy' \subseteq toCopy
      BY <1>3 DEF RestoreRelay, Copy
  <2>a. FilesTypeOK' /\ ChecksTypeOK'
      BY <2>1, <2>2, <2>3 DEF FilesTypeOK, ChecksTypeOK
  <2>4. ManifestsAreSound' /\ InstalledIsSigned' /\ AlwaysRunnable' /\ MarkIsBehind'
        /\ OneWriter'
      BY <2>1 DEF OneWriter, Parses, ManifestsAreSound, InstalledIsSigned, Signed, AlwaysRunnable, MarkIsBehind
  <2>5. ImagesAreCurrent'
      BY <2>1 DEF ImagesAreCurrent, CheckSelf, Executable, VersionOf
  <2> QED
      BY <2>a, <2>4, <2>5
<1> QED
    BY <1>1, <1>2, <1>3

LEMMA NextSound == UpdaterInv /\ [Next]_vars => UpdaterInv'
<1> SUFFICES ASSUME UpdaterInv, [Next]_vars PROVE UpdaterInv'
    OBVIOUS
<1>1. CASE \/ SignRelease \/ SignWithoutPrev \/ RestoreRelay
           \/ \E file \in {"artifact", "manifest", "sig"} : Copy(file)
    BY <1>1, RelayKeeps
<1>2. ASSUME NEW c \in Check,
             Start(c) \/ Step(c) \/ CheckFails(c) \/ BadDownload(c) \/ SwapFails(c) \/ Kill(c)
      PROVE  UpdaterInv'
  <2>1. CASE Download(c) \/ BadDownload(c)
      BY <2>1, DownloadAndVerifyKeeps DEF Download, BadDownload
  <2> QED
      BY <1>2, <2>1, StartKeeps, FetchManifestKeeps, FetchSigKeeps, LoadSeqKeeps, OpenStateKeeps,
         WriteStateKeeps, CheckFailsKeeps, RenameStateKeeps, SwapUnixKeeps, SwapAsideKeeps, SwapInKeeps, SwapFailsKeeps, KillKeeps
      DEF Step
<1>3. CASE UNCHANGED vars
  <2>1. UNCHANGED <<releases, toCopy, manifest, windows, pc, image, got, tmpPath, stateVars, bin,
                    old, stale, raced, lateTmp, lost, stranded>>
      BY <1>3 DEF vars, relayVars, stateVars, binVars, historyVars
  <2> USE <2>1 DEF UpdaterInv, BinaryIsSound, TypeOK, stateVars
  <2>2. FilesTypeOK' /\ ChecksTypeOK' /\ ManifestsAreSound' /\ InstalledIsSigned'
      BY DEF FilesTypeOK, ChecksTypeOK, ManifestsAreSound, InstalledIsSigned, Signed
  <2>3. AlwaysRunnable' /\ MarkIsBehind' /\ OneWriter' /\ ImagesAreCurrent'
      BY DEF OneWriter, Parses, AlwaysRunnable, MarkIsBehind, ImagesAreCurrent, CheckSelf, Executable, VersionOf
  <2> QED
      BY <2>2, <2>3
<1> QED
    BY <1>1, <1>2, <1>3 DEF Next

LEMMA UpdaterInvariant == Spec => []UpdaterInv
BY InitSound, NextSound, PTL DEF Spec

-----------------------------------------------------------------------------
(* The theorems.                                                           *)

\* Every executable on disk, and every file a check is about to swap in, is a
\* build that a signed manifest names.  On Unix there is one to start at every
\* moment; on Windows not between the two renames of a swap, and from then on
\* not at all when the check is killed there or cannot put the binary back.  A
\* process whose binary nobody has replaced knows the version on disk.
THEOREM BinarySound == Spec => []BinaryIsSound
BY UpdaterInvariant, PTL DEF UpdaterInv

\* A swap by a check whose process is up to date installs a newer version.
LEMMA SwapIsUpdate ==
    ASSUME UpdaterInv, NEW c \in Check, c \notin stale, pc[c] \in {"swap", "aside"}, Executable # None
    PROVE  ~ Newer(VersionOf(Executable), VersionOf(tmpPath[c]))
<1> USE UpdaterAssumption DEF UpdaterInv, BinaryIsSound, TypeOK
<1>1. VersionOf(tmpPath[c]) = releases[got[c]].version
    BY GotSound DEF ChecksTypeOK, InstalledIsSigned
<1>2. image[c] # None
    BY DEF ChecksTypeOK
<1>3. image[c] = VersionOf(Executable) /\ Newer(releases[got[c]].version, image[c])
    BY <1>2 DEF ImagesAreCurrent, CheckSelf
<1>4. VersionOf(tmpPath[c]) \in Seq(Nat) /\ VersionOf(Executable) \in Seq(Nat)
    BY VersionOfType
<1> QED
    BY <1>1, <1>3, <1>4, NewerIsAsymmetric

LEMMA NewerIsIrreflexive ==
    ASSUME NEW a \in Seq(Nat)
    PROVE  ~ Newer(a, a)
BY NewerIsAsymmetric

\* A step that takes the machine back to an older version is taken while a check
\* runs in a process that is behind the binary on disk; without such a check the
\* version only grows.
THEOREM NeverDowngraded == Spec => NoDowngrade
<1>1. ASSUME UpdaterInv, [Next]_vars, Executable' # None,
             Newer(VersionOf(Executable), VersionOf(Executable)')
      PROVE  \E c \in stale : pc[c] # "idle"
  <2> SUFFICES ASSUME \A c \in stale : pc[c] = "idle" PROVE FALSE
      OBVIOUS
  <2> USE UpdaterAssumption DEF UpdaterInv, BinaryIsSound, TypeOK
  <2>1. VersionOf(Executable)' # VersionOf(Executable)
      BY <1>1, VersionOfType, NewerIsIrreflexive
  <2>2. ASSUME NEW c \in Check, SwapUnix(c) \/ SwapIn(c) PROVE FALSE
    <3>1. pc[c] \in {"swap", "aside"} /\ bin' = tmpPath[c] /\ UNCHANGED releases
        BY <2>2 DEF SwapUnix, SwapIn, relayVars
    <3>2. Executable' = tmpPath[c]
        BY <1>1, <3>1 DEF Executable, ChecksTypeOK
    <3>3. VersionOf(Executable)' = VersionOf(tmpPath[c])
        BY <3>1, <3>2 DEF VersionOf
    <3>4. Executable # None
        BY <1>1, <2>2 DEF Executable, AlwaysRunnable, SwapUnix, SwapIn
    <3> QED
        BY <1>1, <3>1, <3>3, <3>4, SwapIsUpdate DEF FilesTypeOK
  <2>3. CASE UNCHANGED <<releases, bin, old>>
      BY <2>3, <2>1 DEF Executable, VersionOf
  <2>4. ASSUME NEW c \in Check, SwapAside(c) \/ SwapFails(c) PROVE FALSE
    <3>1. Executable' = Executable /\ UNCHANGED releases
        BY <2>4, <1>1 DEF SwapAside, SwapFails, relayVars, binVars, Executable, AlwaysRunnable
    <3> QED
        BY <3>1, <2>1 DEF VersionOf
  <2>5. ASSUME NEW prev, Sign(prev) PROVE FALSE
    <3> DEFINE n == Len(releases)
    <3>1. UNCHANGED <<bin, old>>
        BY <2>5 DEF Sign, binVars
    <3>2. Executable' = Executable /\ Executable \in 0 .. n
        BY <1>1, <3>1 DEF Executable, FilesTypeOK
    <3>3. \E r : releases' = Append(releases, r)
        BY <2>5 DEF Sign
    <3>4. Len(releases') = n + 1 /\ n \in Nat /\ \A i \in 1 .. n : releases'[i] = releases[i]
        BY <3>3 DEF FilesTypeOK
    <3>5. VersionOf(Executable)' = VersionOf(Executable)
      <4> DEFINE e == Executable
      <4>1. e' = e /\ (e = 0 \/ (e \in 1 .. n /\ e \in 1 .. Len(releases')))
          BY <3>2, <3>4
      <4>2. 0 \notin 1 .. n /\ 0 \notin 1 .. Len(releases')
          BY <3>4
      <4> HIDE DEF e
      <4>3. VersionOf(e)' = VersionOf(e)
          BY <4>1, <4>2, <3>4 DEF VersionOf
      <4> QED
          BY <4>3 DEF e
    <3> QED
        BY <3>5, <2>1
  <2>6. ASSUME NEW c \in Check, Start(c) \/ Step(c) \/ CheckFails(c) \/ BadDownload(c) \/ Kill(c),
               ~ SwapUnix(c), ~ SwapIn(c), ~ SwapAside(c)
        PROVE  UNCHANGED <<releases, bin, old>>
      BY <2>6 DEF Step, Start, FetchManifest, FetchSig, LoadSeq, OpenState, WriteState, RenameState,
         Download, BadDownload, DownloadAndVerify, CheckFails, Kill, relayVars, binVars
  <2>7. CASE RestoreRelay \/ \E file \in {"artifact", "manifest", "sig"} : Copy(file)
      BY <2>7, <2>3 DEF RestoreRelay, Copy, binVars
  <2>8. CASE UNCHANGED vars
      BY <2>8, <2>3 DEF vars, relayVars, binVars
  <2> QED
      BY <1>1, <2>2, <2>3, <2>4, <2>5, <2>6, <2>7, <2>8 DEF Next, SignRelease, SignWithoutPrev
<1>2. UpdaterInv /\ [Next]_vars =>
        [Executable' # None /\ Newer(VersionOf(Executable), VersionOf(Executable)')
           => \E c \in stale : pc[c] # "idle"]_vars
    BY <1>1
<1> QED
    BY <1>2, UpdaterInvariant, PTL DEF Spec, NoDowngrade

\* The recorded number goes back only while a number is on its way that was
\* compared with the mark before another check moved it: in the .tmp file, or in
\* a check that still has a renamed .tmp file open.  The state file is one that
\* parses unless checks have had the .tmp file at the same time.
THEOREM MarkGrows == Spec => HighWaterMark
<1>1. ASSUME UpdaterInv, [Next]_vars PROVE held' >= held \/ LateNumber
  <2>1. held \in Nat
      BY <1>1, UpdaterAssumption DEF UpdaterInv, BinaryIsSound, TypeOK, FilesTypeOK
  <2>2. ASSUME NEW c \in Check, RenameState(c) PROVE held' >= held \/ lateTmp
    <3>1. held' = held \/ (stateTmp # None /\ held' = Number(stateTmp))
        BY <2>2 DEF RenameState
    <3>2. stateTmp \in Nat \/ stateTmp \in {None, Empty, Torn}
        BY <1>1, UpdaterAssumption DEF UpdaterInv, BinaryIsSound, TypeOK, FilesTypeOK
    <3>3. stateTmp \in Nat /\ ~lateTmp => stateTmp > held
        BY <1>1 DEF UpdaterInv, MarkIsBehind
    <3> QED
        BY <2>1, <3>1, <3>2, <3>3 DEF Number, Parses
  <2>3. CASE UNCHANGED held
      BY <2>1, <2>3
  <2>4. ASSUME NEW c \in Check, WriteState(c) PROVE held' = held \/ fd[c] = "state"
      BY <2>4 DEF WriteState
  <2>5. ASSUME NEW c \in Check,
               Start(c) \/ Step(c) \/ CheckFails(c) \/ BadDownload(c) \/ SwapFails(c) \/ Kill(c),
               ~ RenameState(c), ~ WriteState(c)
        PROVE  UNCHANGED held
      BY <2>5 DEF Step, Start, FetchManifest, FetchSig, LoadSeq, OpenState, Download, BadDownload,
         DownloadAndVerify, SwapUnix, SwapAside, SwapIn, SwapFails, CheckFails, Kill, stateVars
  <2>6. CASE \/ SignRelease \/ SignWithoutPrev \/ RestoreRelay
             \/ \E file \in {"artifact", "manifest", "sig"} : Copy(file)
      BY <2>6, <2>3 DEF SignRelease, SignWithoutPrev, Sign, RestoreRelay, Copy, stateVars
  <2>7. CASE UNCHANGED vars
      BY <2>7, <2>3 DEF vars, stateVars
  <2> QED
      BY <1>1, <2>2, <2>3, <2>4, <2>5, <2>6, <2>7 DEF Next, LateNumber
<1>2. UpdaterInv /\ [Next]_vars => [held' >= held \/ LateNumber]_vars
    BY <1>1
<1>3. UpdaterInv => (Parses(state) \/ shared)
    BY DEF UpdaterInv, OneWriter
<1> QED
    BY <1>2, <1>3, UpdaterInvariant, PTL DEF Spec, HighWaterMark

=============================================================================
