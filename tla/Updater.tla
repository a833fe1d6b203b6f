------------------------------ MODULE Updater -------------------------------
(***************************************************************************)
(* Self-update of the command-line clients.  The admin signs a manifest    *)
(* (lanmsg-signrelease) and copies it, its signature and the artifact to   *)
(* the relay; every check of a client fetches them, records the manifest's *)
(* sequence number, downloads the artifact and swaps it in.                *)
(*                                                                         *)
(* Checks run at the same time: watch starts one at every connect, and     *)
(* one-shot commands run beside it with the same state file and binary.    *)
(* A binary is the release it was built for, 0 for the first install.      *)
(***************************************************************************)
EXTENDS Naturals, Sequences

CONSTANTS
    Check,        \* checks that can run at once
    Watch,        \* those of a watch; the others are of one-shot commands
    Version,      \* versions the admin gives a build: sequences of numbers
    Installed,    \* the version of the first install
    MaxReleases,  \* bound
    MaxFaults,    \* bound: kills, failed requests, corrupt downloads, files that cannot be
                  \* written or renamed, failed re-execs, releases signed without -prev,
                  \* a relay restored to an old release
    Empty, Torn,  \* what a state file holds that does not parse
    None

ASSUME UpdaterAssumption ==
    /\ Watch \subseteq Check
    /\ Version \subseteq Seq(Nat) /\ Installed \in Seq(Nat)
    /\ MaxReleases \in Nat /\ MaxFaults \in Nat
    /\ None \notin Nat /\ None \notin Version \union {Installed}
    /\ Empty \notin Nat /\ Torn \notin Nat /\ None \notin {Empty, Torn} /\ Empty # Torn

VARIABLES
    releases,  \* manifests signed, in order
    toCopy,    \* files of the last release not yet on the relay
    manifest, sig, artifact,   \* the relay's updates directory
    windows,   \* the client's platform
    keyed,     \* its builds have a release public key compiled in
    pc,        \* where each check is
    image,     \* version.Version of the process a check runs in
    got,       \* the manifest a check has fetched
    tmpPath,   \* what it downloaded
    state,     \* Seq in update_state.json
    stateTmp,  \* its .tmp file
    fd,        \* the file a check has open for writing: the .tmp, the state file, or one replaced
    bin, old,  \* the executable, and the .old beside it
    \* history
    stale,     \* checks whose binary another check has replaced since their process started
    raced,     \* checks about to write a number, since whose look at the state another was recorded
    lateTmp,   \* the .tmp file was written by one of these
    held,      \* the last number in the state file
    shared,    \* a check opened the .tmp file before another had renamed it
    lost,      \* releases whose number is recorded and that are not installed
    stranded,  \* a check was killed between the renames of a Windows swap, or could
               \* not put the binary back
    faults

relayVars == <<releases, toCopy, manifest, sig, artifact>>
stateVars == <<state, stateTmp, fd, held, shared>>
binVars == <<bin, old>>
historyVars == <<stale, raced, lateTmp, lost, stranded>>
vars == <<relayVars, windows, keyed, pc, image, got, tmpPath, stateVars, binVars, historyVars, faults>>

Fault == faults < MaxFaults /\ faults' = faults + 1

\* version.go: missing components are 0, components compare left to right.
Parts(v) == [i \in 1 .. 3 |-> IF i <= Len(v) THEN v[i] ELSE 0]
Newer(a, b) ==
    \E i \in 1 .. 3 :
      Parts(a)[i] > Parts(b)[i] /\ \A j \in 1 .. (i - 1) : Parts(a)[j] = Parts(b)[j]

\* What arrives of a broken download: the bytes of no release.
Damaged == MaxReleases + 1

VersionOf(b) == IF b \in 1 .. Len(releases) THEN releases[b].version ELSE Installed

Init ==
    /\ releases = <<>> /\ toCopy = {}
    /\ manifest = None /\ sig = None /\ artifact = [v \in Version |-> None]
    /\ windows \in BOOLEAN /\ keyed \in BOOLEAN
    /\ pc = [c \in Check |-> "idle"] /\ image = [c \in Check |-> None]
    /\ got = [c \in Check |-> None] /\ tmpPath = [c \in Check |-> None]
    /\ state = 0 /\ stateTmp = None /\ fd = [c \in Check |-> "none"]
    /\ held = 0 /\ shared = FALSE
    /\ bin = 0 /\ old = None
    /\ stale = {} /\ raced = {} /\ lateTmp = FALSE /\ lost = {} /\ stranded = FALSE
    /\ faults = 0

-----------------------------------------------------------------------------
(* The admin and the relay.                                                *)

\* cmdSign: the release names this client's target with a version of its own
\* or carries its entry forward; Seq is one more than that of -prev.
Sign(prev) == LET n == Len(releases) IN
    /\ n < MaxReleases /\ toCopy = {}
    /\ \/ \E v \in Version :
            /\ releases' = Append(releases, [seq |-> prev + 1, version |-> v, build |-> n + 1])
            /\ toCopy' = {"artifact", "manifest", "sig"}
       \/ /\ n > 0 /\ prev > 0
          /\ releases' = Append(releases, [seq |-> prev + 1, version |-> releases[n].version,
                                           build |-> releases[n].build])
          /\ toCopy' = {"manifest", "sig"}
    /\ UNCHANGED <<manifest, sig, artifact, windows, keyed, pc, image, got, tmpPath, stateVars, binVars,
                   historyVars>>

SignRelease ==
    /\ Sign(IF releases = <<>> THEN 0 ELSE releases[Len(releases)].seq)
    /\ UNCHANGED faults

SignWithoutPrev == releases # <<>> /\ Fault /\ Sign(0)

\* The admin copies the files one by one, in any order.  An artifact's name
\* holds its version: the same version built again replaces the file.
Copy(file) == LET i == Len(releases) IN
    /\ file \in toCopy
    /\ toCopy' = toCopy \ {file}
    /\ manifest' = IF file = "manifest" THEN i ELSE manifest
    /\ sig' = IF file = "sig" THEN i ELSE sig
    /\ artifact' = IF file = "artifact"
                   THEN [artifact EXCEPT ![releases[i].version] = releases[i].build]
                   ELSE artifact
    /\ UNCHANGED <<releases, windows, keyed, pc, image, got, tmpPath, stateVars, binVars, historyVars,
                   faults>>

\* A relay restored from a backup serves an old manifest, still well signed.
RestoreRelay ==
    /\ toCopy = {} /\ Len(releases) > 1 /\ Fault
    /\ manifest' = Len(releases) - 1 /\ sig' = Len(releases) - 1
    /\ UNCHANGED <<releases, toCopy, artifact, windows, keyed, pc, image, got, tmpPath, stateVars, binVars,
                   historyVars>>

-----------------------------------------------------------------------------
(* A check: applySelfUpdate.                                               *)

\* The check ends, whatever it has reached, and with it a one-shot command.
Idle(c) ==
    /\ pc' = [pc EXCEPT ![c] = "idle"]
    /\ image' = IF c \in Watch THEN image ELSE [image EXCEPT ![c] = None]
    /\ got' = [got EXCEPT ![c] = None]
    /\ tmpPath' = [tmpPath EXCEPT ![c] = None]
Goto(c, at) == pc' = [pc EXCEPT ![c] = at]

\* In a new process, or at a reconnect of a watch that has been running.
Start(c) ==
    /\ pc[c] = "idle"
    /\ Goto(c, "manifest")
    /\ \/ /\ bin # None
          /\ image' = [image EXCEPT ![c] = VersionOf(bin)]
          /\ stale' = stale \ {c}
       \/ /\ c \in Watch /\ image[c] # None
          /\ UNCHANGED <<image, stale>>
    /\ raced' = raced \ {c}
    /\ UNCHANGED <<relayVars, windows, keyed, got, tmpPath, stateVars, binVars, lateTmp, lost, stranded, faults>>

\* Without a release key compiled in a check ends at once.
FetchManifest(c) ==
    /\ pc[c] = "manifest"
    /\ \/ /\ keyed /\ manifest # None
          /\ got' = [got EXCEPT ![c] = manifest]
          /\ Goto(c, "sig") /\ UNCHANGED <<image, tmpPath>>
       \/ (~keyed \/ manifest = None) /\ Idle(c)
    /\ UNCHANGED <<relayVars, windows, keyed, stateVars, binVars, historyVars, faults>>

\* The signature was fetched after the manifest and may be another release's.
FetchSig(c) ==
    /\ pc[c] = "sig"
    /\ \/ sig = got[c] /\ Goto(c, "load") /\ UNCHANGED <<image, got, tmpPath>>
       \/ sig # got[c] /\ Idle(c)
    /\ UNCHANGED <<relayVars, windows, keyed, stateVars, binVars, historyVars, faults>>

\* A bug: the number recorded last is not looked at.
AnySeqMutant(c) ==
    /\ pc[c] = "load"
    /\ Goto(c, "save") /\ raced' = raced \ {c} /\ UNCHANGED <<image, got, tmpPath>>
    /\ UNCHANGED <<relayVars, windows, keyed, stateVars, binVars, stale, lateTmp, lost, stranded, faults>>

Parses(x) == x \notin {Empty, Torn}

\* A bug: off by one.
SkipOneMutant(c) ==
    /\ pc[c] = "load"
    /\ \/ /\ Parses(state) /\ releases[got[c]].seq > state + 1
          /\ Goto(c, "save") /\ raced' = raced \ {c} /\ UNCHANGED <<image, got, tmpPath>>
       \/ /\ ~(Parses(state) /\ releases[got[c]].seq > state + 1)
          /\ Idle(c) /\ UNCHANGED raced
    /\ UNCHANGED <<relayVars, windows, keyed, stateVars, binVars, stale, lateTmp, lost, stranded, faults>>

\* A file that does not parse ends this check and every later one.
LoadSeq(c) ==
    /\ pc[c] = "load"
    /\ \/ /\ Parses(state) /\ releases[got[c]].seq > state
          /\ Goto(c, "save") /\ raced' = raced \ {c} /\ UNCHANGED <<image, got, tmpPath>>
       \/ /\ ~(Parses(state) /\ releases[got[c]].seq > state)
          /\ Idle(c) /\ UNCHANGED raced
    /\ UNCHANGED <<relayVars, windows, keyed, stateVars, binVars, stale, lateTmp, lost, stranded, faults>>

Recording == {c \in Check : pc[c] \in {"save", "write"}}
Number(x) == IF Parses(x) THEN x ELSE held

\* saveSeq, os.WriteFile: the .tmp file that every check shares is opened and
\* emptied, ...
OpenState(c) ==
    /\ pc[c] = "save"
    /\ stateTmp' = Empty /\ lateTmp' = FALSE
    /\ fd' = [fd EXCEPT ![c] = "tmp"]
    /\ shared' = (shared \/ \E d \in Check \ {c} : pc[d] \in {"write", "rename"})
    /\ Goto(c, "write")
    /\ UNCHANGED <<relayVars, windows, keyed, image, got, tmpPath, state, held, binVars, stale, raced,
                   lost, stranded, faults>>

\* A number is written over what the file holds: it may leave the end of a
\* longer one.
Overwrite(x, n) == {n} \union {y \in {Torn} : x # Empty /\ (x = Torn \/ x > n)}

\* ... and written to, whatever its name is by now, ...
WriteState(c) == LET n == releases[got[c]].seq IN
    /\ pc[c] = "write"
    /\ \/ /\ fd[c] = "tmp"
          /\ stateTmp' \in Overwrite(stateTmp, n) /\ lateTmp' = (c \in raced)
          /\ UNCHANGED <<state, held, raced, lost>>
       \/ /\ fd[c] = "state"
          /\ state' \in Overwrite(state, n) /\ held' = Number(state')
          /\ raced' = raced \union Recording /\ lateTmp' = TRUE
          /\ lost' = lost \union {i \in 1 .. Len(releases) : releases[i].seq = n}
          /\ UNCHANGED stateTmp
       \/ fd[c] = "gone" /\ UNCHANGED <<state, stateTmp, held, raced, lateTmp, lost>>
    /\ fd' = [fd EXCEPT ![c] = "none"]
    /\ Goto(c, "rename")
    /\ UNCHANGED <<relayVars, windows, keyed, image, got, tmpPath, shared, binVars, stale, stranded,
                   faults>>

\* A bug: any other version is taken for a newer one.
DifferentMutant(c) == releases[got[c]].version # image[c]

\* CheckSelf compares with the running image, not with the file on disk.
CheckSelf(c) == Newer(releases[got[c]].version, image[c])

\* History: releases this rename records and this check will not install,
\* those of another check's .tmp file among them.
RecordedInVain(c) ==
    {i \in 1 .. Len(releases) :
       releases[i].seq = stateTmp /\ (releases[got[c]].seq # stateTmp \/ ~CheckSelf(c))}

\* Windows does not rename a file that another process has open.
TmpHeld == windows /\ \E d \in Check : fd[d] = "tmp"

\* ... and renamed; who has it open now writes to the state file.  ArtifactFor
\* and CheckSelf follow the rename without a wait between.
RenameState(c) ==
    /\ pc[c] = "rename"
    /\ \/ /\ stateTmp # None /\ ~TmpHeld
          /\ state' = stateTmp /\ stateTmp' = None /\ lateTmp' = FALSE /\ held' = Number(stateTmp)
          /\ fd' = [d \in Check |-> CASE fd[d] = "tmp" -> "state"
                                      [] fd[d] = "state" -> "gone"
                                      [] OTHER -> fd[d]]
          /\ raced' = raced \union Recording
          /\ \/ CheckSelf(c) /\ Goto(c, "download") /\ UNCHANGED <<image, got, tmpPath>>
             \/ ~CheckSelf(c) /\ Idle(c)
          /\ lost' = lost \union RecordedInVain(c)
       \/ /\ stateTmp = None \/ TmpHeld
          /\ Idle(c) /\ UNCHANGED <<state, stateTmp, fd, held, raced, lateTmp, lost>>
    /\ UNCHANGED <<relayVars, windows, keyed, shared, binVars, stale, stranded, faults>>

\* A request fails or times out, or the state file cannot be read or written.
CheckFails(c) ==
    /\ pc[c] \in {"manifest", "sig", "load", "save", "write", "rename"} /\ Fault
    /\ Idle(c) /\ fd' = [fd EXCEPT ![c] = "none"]
    /\ UNCHANGED <<relayVars, windows, keyed, state, stateTmp, held, shared, binVars, historyVars>>

\* A bug: the hash is not compared.
NoHashMutant(c, body) ==
    /\ pc[c] = "download"
    /\ \/ /\ body # None
          /\ tmpPath' = [tmpPath EXCEPT ![c] = body]
          /\ Goto(c, "swap") /\ UNCHANGED <<image, got, lost>>
       \/ /\ body = None
          /\ Idle(c) /\ lost' = lost \union {got[c]}
    /\ UNCHANGED <<relayVars, windows, keyed, stateVars, binVars, stale, raced, lateTmp, stranded>>

\* A bug: a file that does not match is not discarded.
KeepTempMutant(c, body) ==
    /\ pc[c] = "download"
    /\ tmpPath' = [tmpPath EXCEPT ![c] = body]
    /\ IF body = releases[got[c]].build THEN Goto(c, "swap") /\ UNCHANGED lost
                                         ELSE Goto(c, "idle") /\ lost' = lost \union {got[c]}
    /\ UNCHANGED <<relayVars, windows, keyed, image, got, stateVars, binVars, stale, raced, lateTmp, stranded>>

\* DownloadAndVerify, given what arrived: the file is kept when its hash is
\* the manifest's.
DownloadAndVerify(c, body) ==
    /\ pc[c] = "download"
    /\ \/ /\ body = releases[got[c]].build
          /\ tmpPath' = [tmpPath EXCEPT ![c] = body]
          /\ Goto(c, "swap") /\ UNCHANGED <<image, got, lost>>
       \/ /\ body # releases[got[c]].build
          /\ Idle(c) /\ lost' = lost \union {got[c]}
    /\ UNCHANGED <<relayVars, windows, keyed, stateVars, binVars, stale, raced, lateTmp, stranded>>

Download(c) ==
    /\ pc[c] = "download"
    /\ DownloadAndVerify(c, artifact[releases[got[c]].version]) /\ UNCHANGED faults

\* The transfer breaks off, the timeout of the check passes, or bytes change.
BadDownload(c) == Fault /\ DownloadAndVerify(c, Damaged)

\* The check has swapped its binary in: a watch re-execs into it, a one-shot
\* command ends and the next one runs the new binary.  A watch whose re-exec
\* fails goes on with the old image.
Swapped(c) == LET running == {d \in Check : image[d] # None} IN
    /\ pc' = [pc EXCEPT ![c] = "idle"]
    /\ got' = [got EXCEPT ![c] = None]
    /\ tmpPath' = [tmpPath EXCEPT ![c] = None]
    /\ \/ /\ image' = [image EXCEPT ![c] = IF c \in Watch THEN VersionOf(tmpPath[c]) ELSE None]
          /\ stale' = (stale \union running) \ {c}
          /\ UNCHANGED faults
       \/ /\ c \in Watch /\ Fault
          /\ stale' = stale \union running
          /\ UNCHANGED image
    /\ lost' = lost \union
         {i \in 1 .. Len(releases) :
            releases[i].seq <= held /\ Newer(releases[i].version, VersionOf(tmpPath[c]))}

\* swap_unix.go: one rename.
SwapUnix(c) ==
    /\ pc[c] = "swap" /\ ~windows
    /\ bin' = tmpPath[c]
    /\ Swapped(c)
    /\ UNCHANGED <<relayVars, windows, keyed, stateVars, old, raced, lateTmp, stranded>>

\* The file at .old cannot be removed or replaced while a process runs from it:
\* one whose binary was replaced, or a check between the two renames.
OldInUse == \E d \in Check : (d \in stale /\ image[d] # None) \/ pc[d] = "aside"

\* swap_windows.go: .old is removed if it can be, and the binary renamed to it.
SwapAside(c) ==
    /\ pc[c] = "swap" /\ windows
    /\ \/ /\ bin # None /\ ~OldInUse
          /\ old' = bin /\ bin' = None
          /\ Goto(c, "aside") /\ UNCHANGED <<image, got, tmpPath, lost>>
       \/ /\ bin = None \/ OldInUse
          /\ old' = IF OldInUse THEN old ELSE None
          /\ Idle(c) /\ lost' = lost \union {got[c]}
          /\ UNCHANGED bin
    /\ UNCHANGED <<relayVars, windows, keyed, stateVars, stale, raced, lateTmp, stranded, faults>>

SwapIn(c) ==
    /\ pc[c] = "aside"
    /\ bin' = tmpPath[c]
    /\ Swapped(c)
    /\ UNCHANGED <<relayVars, windows, keyed, stateVars, old, raced, lateTmp, stranded>>

\* A rename fails; the Windows swap puts the binary back if it can.
SwapFails(c) ==
    /\ pc[c] \in {"swap", "aside"} /\ Fault
    /\ Idle(c) /\ lost' = lost \union {got[c]}
    /\ \/ pc[c] = "swap" /\ UNCHANGED <<binVars, stranded>>
       \/ pc[c] = "aside" /\ bin' = old /\ old' = None /\ UNCHANGED stranded
       \/ pc[c] = "aside" /\ stranded' = TRUE /\ UNCHANGED binVars
    /\ UNCHANGED <<relayVars, windows, keyed, stateVars, stale, raced, lateTmp>>

Kill(c) ==
    /\ pc[c] # "idle" /\ Fault
    /\ pc' = [pc EXCEPT ![c] = "idle"] /\ image' = [image EXCEPT ![c] = None]
    /\ got' = [got EXCEPT ![c] = None] /\ tmpPath' = [tmpPath EXCEPT ![c] = None]
    /\ lost' = IF pc[c] \in {"download", "swap", "aside"} THEN lost \union {got[c]} ELSE lost
    /\ stranded' = (stranded \/ pc[c] = "aside")
    /\ fd' = [fd EXCEPT ![c] = "none"]
    /\ UNCHANGED <<relayVars, windows, keyed, state, stateTmp, held, shared, binVars, stale, raced, lateTmp>>

-----------------------------------------------------------------------------
Step(c) ==
    \/ FetchManifest(c) \/ FetchSig(c) \/ LoadSeq(c) \/ OpenState(c) \/ WriteState(c)
    \/ RenameState(c) \/ Download(c) \/ SwapUnix(c) \/ SwapAside(c) \/ SwapIn(c)

Next ==
    \/ SignRelease \/ SignWithoutPrev \/ RestoreRelay
    \/ \E file \in {"artifact", "manifest", "sig"} : Copy(file)
    \/ \E c \in Check : \/ Start(c) \/ Step(c)
                        \/ CheckFails(c) \/ BadDownload(c) \/ SwapFails(c) \/ Kill(c)

\* A check that was started goes on; a copy that was begun is finished.
Fairness ==
    /\ \A c \in Check : WF_vars(Step(c))
    /\ WF_vars(\E file \in {"artifact", "manifest", "sig"} : Copy(file))

Spec == Init /\ [][Next]_vars /\ Fairness

-----------------------------------------------------------------------------
(* Properties.                                                             *)

Label == {"idle", "manifest", "sig", "load", "save", "write", "rename", "download", "swap", "aside"}

FilesTypeOK ==
    /\ releases \in Seq([seq : 1 .. MaxReleases, version : Version, build : 1 .. MaxReleases])
    /\ Len(releases) <= MaxReleases /\ (toCopy # {} => releases # <<>>) /\ windows \in BOOLEAN
    /\ manifest \in (1 .. Len(releases)) \union {None}
    /\ held \in 0 .. MaxReleases /\ state \in {held, Empty, Torn}
    /\ stateTmp \in (1 .. MaxReleases) \union {None, Empty, Torn}
    /\ fd \in [Check -> {"none", "tmp", "state", "gone"}]
    /\ bin \in (0 .. Len(releases)) \union {None} /\ old \in (0 .. Len(releases)) \union {None}
    /\ stale \subseteq Check /\ raced \subseteq Check /\ lost \subseteq 1 .. Len(releases)

ChecksTypeOK ==
    /\ pc \in [Check -> Label]
    /\ got \in [Check -> (1 .. Len(releases)) \union {None}]
    /\ tmpPath \in [Check -> (1 .. Len(releases)) \union {None}]
    /\ image \in [Check -> Version \union {Installed, None}]
    /\ \A c \in Check :
         /\ got[c] # None
              <=> pc[c] \in {"sig", "load", "save", "write", "rename", "download", "swap", "aside"}
         /\ fd[c] # "none" <=> pc[c] = "write"
         /\ pc[c] \in {"swap", "aside"} <=> tmpPath[c] # None
         /\ pc[c] # "idle" => image[c] # None

\* Checks are at one of their steps and hold what that step needs.
TypeOK == FilesTypeOK /\ ChecksTypeOK

\* A manifest names a build of its own release or of an earlier one, and the
\* version that build was made for; its number is at most its place.
ManifestsAreSound ==
    \A i \in 1 .. Len(releases) :
      /\ releases[i].seq \in 1 .. i /\ releases[i].build \in 1 .. i
      /\ releases[i].version \in Version
      /\ releases[i].version = releases[releases[i].build].version

Signed(b) == \E i \in 1 .. Len(releases) : releases[i].build = b

\* Only bytes whose hash a signed manifest gives are installed: no partial or
\* damaged download, no file of another build under the same version.
InstalledIsSigned ==
    /\ \A b \in {bin, old} : b \in {0, None} \/ Signed(b)
    /\ \A c \in Check : tmpPath[c] # None => tmpPath[c] = releases[got[c]].build

\* A machine has a client to start: on Unix at every moment; on Windows not
\* between the two renames, and never again when a check was killed there or
\* could not put the binary back.  Only one check is between the renames, and
\* the binary it put aside is still at .old.
AlwaysRunnable ==
    /\ bin = None => windows /\ (stranded \/ \E c \in Check : pc[c] = "aside")
    /\ \A c \in Check : pc[c] = "aside" =>
         bin = None /\ old # None /\ \A d \in Check \ {c} : pc[d] # "aside"

\* The file a user of the client starts, or restores by hand.
Executable == IF bin # None THEN bin ELSE old

\* A process that is not known to be behind runs the version on disk, and what
\* CheckSelf found of it is still so when the check swaps.
ImagesAreCurrent ==
    \A c \in Check :
      /\ Executable # None /\ c \notin stale /\ image[c] # None => image[c] = VersionOf(Executable)
      /\ pc[c] \in {"download", "swap", "aside"} => CheckSelf(c)

\* The executable is whole: there is one to start, it is a signed build, and
\* the running processes know which.
BinaryIsSound ==
    TypeOK /\ ManifestsAreSound /\ InstalledIsSigned /\ AlwaysRunnable /\ ImagesAreCurrent

\* The binary on disk only gets newer while every check under way runs in the
\* version on disk.  CheckSelf looks at the version of its own process, so a
\* check that another one's swap, or its own failed re-exec, has left behind
\* can put an older version in place of a newer one.
NoDowngrade ==
    [][Executable' # None /\ Newer(VersionOf(Executable), VersionOf(Executable)')
         => \E c \in stale : pc[c] # "idle"]_vars

\* A number is on its way into the state file that was compared with the mark
\* before another check moved it: in the .tmp file, whoever renames it, or in a
\* check whose .tmp file another one has renamed into place.
LateNumber == lateTmp \/ \E c \in Check : fd[c] = "state"

\* The high-water mark in update_state.json does not go back, whatever the
\* relay serves, except by a late number; and the file parses unless a check
\* has opened the .tmp file between another one's open and rename.
HighWaterMark == [][held' >= held \/ LateNumber]_vars /\ [](Parses(state) \/ shared)

\* Release i is the last one, and all of it is on the relay.
Served(i) == toCopy = {} /\ Len(releases) = i /\ manifest = i

\* As long as checks are started again and again, a release on the relay
\* reaches the client, unless its number was recorded by a check that then
\* failed or for one that did not come to record it itself, or a check that was
\* behind undid it, or its number is not new, or the state file is torn, or, on
\* Windows, checks kept each other from renaming the .tmp file.
ReleaseArrives ==
    keyed /\ []<>(\E c \in Check : pc[c] = "manifest") =>
      \A i \in 1 .. MaxReleases :
        [](Served(i) => <>(\/ ~Served(i) \/ i \in lost \/ bin = None \/ ~Parses(state)
                           \/ windows /\ shared
                           \/ ~Newer(releases[i].version, VersionOf(bin))
                           \/ \E j \in 1 .. (i - 1) : releases[j].seq >= releases[i].seq))
=============================================================================
