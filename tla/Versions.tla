-------------------------------- MODULE Versions --------------------------------
(***************************************************************************)
(* The binaries of envoy and of the web application firewall: a directory  *)
(* per version below the directory of the store, one file in each.         *)
(* SET_VERSION downloads a version unless its file is there, or all the    *)
(* same when it is forced to: index, download and checksum in a temporary  *)
(* file, a move into place, the mode.  When a step fails the directory of  *)
(* the version is removed.  The two stores have the same code, in          *)
(* operations/envoy and operations/waf.                                    *)
(*                                                                         *)
(* Commands are handled one at a time.  A step may fail, time-outs         *)
(* included; the agent may be killed, and the host lose power, between any *)
(* two; the archive publishes a version again while it is downloaded.      *)
(* Temporary files that a kill leaves behind are left out: nobody looks at *)
(* them again.                                                             *)
(*                                                                         *)
(* FilesProofs extends this module and Reconcile: names that both would    *)
(* have, VersionsInit and others, tell whose they are.                     *)
(***************************************************************************)
EXTENDS Integers

CONSTANTS
    Binaries,     \* [store, version]
    Listable,     \* those whose version begins with "v"
    Data,         \* what an archive may publish
    Torn,         \* any other content
    None, MaxOps, MaxFaults, MaxKills, MaxReleases   \* (bounds)

ASSUME VersionsAssumption ==
    /\ Listable \subseteq Binaries
    /\ Torn \notin Data /\ None \notin Data \cup {Torn} /\ None \notin Binaries
    /\ None \notin [data : Data \cup {Torn}, exec : BOOLEAN, synced : BOOLEAN]
    /\ MaxOps \in Nat /\ MaxFaults \in Nat /\ MaxKills \in Nat /\ MaxReleases \in Nat

VARIABLES
    file,         \* per binary: None, or its data, its mode, and whether the data were synced
    disk,         \* what a loss of power may leave of it: neither names nor modes are synced
    archive,      \* what the archive has of a binary
    step, op,
    want, temp,   \* the checksum of the index; the download
    answer,
    \* history
    published,    \* all the archive ever had of a binary
    promised,     \* answered with success, or listed, and not downloaded again since
    interrupted,  \* binaries left as no operation of the agent leaves them on purpose
    ops, faults, kills, releases

remote == <<archive, published, releases>>
work   == <<step, op, want, temp, answer>>
hist   == <<promised, interrupted>>
stored == <<file, disk>>
versionsVars == <<stored, remote, work, hist, ops, faults, kills>>

File(data, exec, synced) == [data |-> data, exec |-> exec, synced |-> synced]
VersionFiles == [data : Data \cup {Torn}, exec : BOOLEAN, synced : BOOLEAN]
Present(b) == file[b] # None
Usable(b)  == Present(b) /\ file[b].exec /\ file[b].data \in published[b]

VersionsInit ==
    /\ file = [b \in Binaries |-> None] /\ disk = [b \in Binaries |-> {None}]
    /\ archive \in [Binaries -> Data]
    /\ published = [b \in Binaries |-> {archive[b]}]
    /\ step = "idle" /\ op = None /\ want = None /\ temp = None /\ answer = "none"
    /\ promised = {} /\ interrupted = {}
    /\ ops = 0 /\ faults = 0 /\ kills = 0 /\ releases = 0

VersionsTypeOK ==
    /\ file \in [Binaries -> {None} \cup VersionFiles]
    /\ disk \in [Binaries -> SUBSET ({None} \cup VersionFiles)]
    /\ archive \in [Binaries -> Data \cup {None}] /\ published \in [Binaries -> SUBSET Data]
    /\ step \in {"idle", "index", "download", "verify", "move", "copy", "chmod", "cleanup"}
    /\ op \in Binaries \cup {None} /\ (step # "idle" => op # None)
    /\ want \in Data \cup {None} /\ temp \in Data \cup {Torn, None}
    /\ answer \in {"none", "ok", "error"}
    /\ promised \subseteq Binaries /\ interrupted \subseteq Binaries
    /\ ops \in 0..MaxOps /\ faults \in 0..MaxFaults
    /\ kills \in 0..MaxKills /\ releases \in 0..MaxReleases

Fault == faults < MaxFaults /\ faults' = faults + 1
-----------------------------------------------------------------------------
(* The handler. *)
Answer(a) ==
    /\ step' = "idle" /\ answer' = a /\ want' = None /\ temp' = None

Promise(bs) == promised' = promised \cup (bs \ interrupted)

Begin == step = "idle" /\ ops < MaxOps /\ ops' = ops + 1

\* No version is named, or a directory cannot be made.
Refuse ==
    /\ Begin /\ op' = None /\ Answer("error")
    /\ UNCHANGED faults \/ Fault
    /\ UNCHANGED <<stored, remote, hist, kills>>

\* Any error of the look at the file counts as its absence.
SetVersion ==
    /\ Begin
    /\ \E b \in Binaries, force \in BOOLEAN :
         /\ op' = b
         /\ \/ /\ ~force /\ Present(b)
               /\ Answer("ok") /\ Promise({b}) /\ UNCHANGED faults
            \/ /\ \/ (force \/ ~Present(b)) /\ UNCHANGED faults
                  \/ ~force /\ Present(b) /\ Fault
               /\ step' = "index" /\ answer' = "none" /\ promised' = promised \ {b}
               /\ UNCHANGED <<want, temp>>
    /\ UNCHANGED <<stored, remote, interrupted, kills>>

Failed == step' = "cleanup" /\ temp' = None

\* The version and its binary for this architecture may be missing.
GetAvailableVersions ==
    /\ step = "index"
    /\ \/ /\ archive[op] # None /\ step' = "download" /\ want' = archive[op]
          /\ UNCHANGED <<temp, faults>>
       \/ archive[op] = None /\ Failed /\ UNCHANGED <<want, faults>>
       \/ Fault /\ Failed /\ UNCHANGED want
    /\ UNCHANGED <<stored, remote, op, answer, hist, ops, kills>>

\* What arrives need not be what the index announced, nor all of it.
DownloadFile ==
    /\ step = "download"
    /\ \/ /\ archive[op] # None /\ temp' = archive[op] /\ step' = "verify" /\ UNCHANGED faults
       \/ temp' = Torn /\ step' = "verify" /\ Fault
       \/ archive[op] = None /\ Failed /\ UNCHANGED faults
       \/ Fault /\ Failed
    /\ UNCHANGED <<stored, remote, op, want, answer, hist, ops, kills>>

\* Mutant of VerifyChecksum: the result of the comparison is only logged.
VerifyNothing ==
    /\ step = "verify" /\ step' = "move"
    /\ UNCHANGED <<stored, remote, op, want, temp, answer, hist, ops, faults, kills>>

VerifyChecksum ==
    /\ step = "verify"
    /\ \/ temp = want /\ step' = "move" /\ UNCHANGED <<temp, faults>>
       \/ temp # want /\ Failed /\ UNCHANGED faults
       \/ Fault /\ Failed
    /\ UNCHANGED <<stored, remote, op, want, answer, hist, ops, kills>>

\* The file of the operation is now f.  Of one that was not synced the disk may have part.
Becomes(f) ==
    /\ file' = [file EXCEPT ![op] = f]
    /\ disk' = [disk EXCEPT ![op] =
                  @ \cup {f} \cup (IF f = None \/ f.synced THEN {} ELSE {File(Torn, f.exec, FALSE)})]

\* A temporary file is made for its owner only, and a move keeps its mode.
Installed(synced) == Becomes(File(temp, FALSE, synced))

MoveFile ==
    /\ step = "move" /\ Installed(FALSE) /\ step' = "chmod"
    /\ UNCHANGED <<remote, op, want, temp, answer, hist, ops, faults, kills>>

\* The temporary file is on another device.
MoveFails ==
    /\ step = "move" /\ step' = "copy"
    /\ UNCHANGED <<stored, remote, op, want, temp, answer, hist, ops, faults, kills>>

\* The copy is made beside its destination, and reaches the disk before it is renamed.
CopyAndReplace ==
    /\ step = "copy"
    /\ \/ Installed(TRUE) /\ step' = "chmod" /\ UNCHANGED <<temp, faults>>
       \/ Fault /\ Failed /\ UNCHANGED stored
    /\ UNCHANGED <<remote, op, want, answer, hist, ops, kills>>

SetBinaryPermissions ==
    /\ step = "chmod"
    /\ \/ /\ Becomes(File(file[op].data, TRUE, file[op].synced))
          /\ Answer("ok") /\ promised' = promised \cup {op} /\ interrupted' = interrupted \ {op}
          /\ UNCHANGED faults
       \/ Fault /\ Failed /\ UNCHANGED <<stored, want, answer, hist>>
    /\ UNCHANGED <<remote, op, ops, kills>>

\* What an operation cut short leaves: a file that was put in place and not finished.
Unfinished == IF Present(op) /\ ~file[op].exec THEN {op} ELSE {}

\* Mutant of RemoveAll: everything of the store is removed.
RemoveStore ==
    /\ step = "cleanup" /\ Answer("error")
    /\ file' = [b \in Binaries |-> IF b.store = op.store THEN None ELSE file[b]]
    /\ UNCHANGED <<disk, remote, op, hist, ops, faults, kills>>

\* The directory of the version goes, with the file an earlier command may have put there.
RemoveAll ==
    /\ step = "cleanup" /\ Answer("error")
    /\ \/ Becomes(None) /\ interrupted' = interrupted \ {op} /\ UNCHANGED faults
       \/ Fault /\ interrupted' = interrupted \cup Unfinished /\ UNCHANGED stored
    /\ UNCHANGED <<remote, op, promised, ops, kills>>

\* GET_VERSIONS.
Listed(store) == {b \in Listable : b.store = store /\ Present(b)}

GetDownloadedVersions ==
    /\ Begin /\ op' = None
    /\ \/ \E b \in Binaries : Promise(Listed(b.store)) /\ Answer("ok") /\ UNCHANGED faults
       \/ Fault /\ Answer("error") /\ UNCHANGED promised
    /\ UNCHANGED <<stored, remote, interrupted, kills>>
-----------------------------------------------------------------------------
(* The environment. *)
Dies ==
    /\ kills < MaxKills /\ kills' = kills + 1
    /\ Answer("none") /\ op' = None /\ UNCHANGED <<remote, ops, faults>>

Cut == IF step \in {"chmod", "cleanup"} THEN Unfinished ELSE {}

Kill ==
    /\ step # "idle" /\ Dies
    /\ interrupted' = interrupted \cup Cut /\ UNCHANGED <<stored, promised>>

PowerLoss ==
    /\ Dies
    /\ file' \in {left \in [Binaries -> UNION {disk[b] : b \in Binaries}] :
                    \A b \in Binaries : left[b] \in disk[b]}
    /\ disk' = [b \in Binaries |-> {file'[b]}]
    /\ LET lost == {b \in Binaries : file'[b] # file[b]} IN
         /\ interrupted' = interrupted \cup Cut \cup {b \in lost : Present(b)' /\ ~Usable(b)'}
         /\ promised' = promised \ lost

Republish ==
    /\ releases < MaxReleases /\ releases' = releases + 1
    /\ \E b \in Binaries, d \in Data \cup {None} :
         /\ d # archive[b] /\ archive' = [archive EXCEPT ![b] = d]
         /\ published' = [published EXCEPT ![b] = @ \cup ({d} \ {None})]
    /\ UNCHANGED <<stored, work, hist, ops, faults, kills>>

VersionsNext ==
    \/ Refuse \/ SetVersion \/ GetAvailableVersions \/ DownloadFile \/ VerifyChecksum
    \/ MoveFile \/ MoveFails \/ CopyAndReplace \/ SetBinaryPermissions \/ RemoveAll
    \/ GetDownloadedVersions
    \/ Kill \/ PowerLoss \/ Republish

VersionsSpec == VersionsInit /\ [][VersionsNext]_versionsVars
-----------------------------------------------------------------------------
\* At every moment the file of a version is whole and was published for it: a download
\* that is cut, garbled or overtaken by a new release never shows at its path, not even
\* after a kill half-way.  Only a loss of power can tear a file, and only one that was
\* renamed and not copied: the copy reaches the disk before it has the name.
InstalledIsVerified ==
    \A b \in Binaries : Present(b) =>
        \/ file[b].data \in published[b]
        \/ file[b].data = Torn /\ ~file[b].synced /\ b \in interrupted

\* A version that was answered for with success, or listed, can be run from then on,
\* whatever fails or is killed in commands about other versions, until a download of it
\* begins again or a loss of power undoes it: takes its name, its mode or its data, none
\* of which the agent syncs but the data of a copy.  The exception is a file that was
\* in place without its mode, since a command or power was cut off.
SuccessIsUsable == \A b \in promised : Usable(b)
=============================================================================
