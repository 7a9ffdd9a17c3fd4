------------------------------ MODULE FilesProofs ------------------------------
(***************************************************************************)
(* The files the agent puts in place by way of a temporary one: configs    *)
(* (Reconcile) and binaries (Versions).                                    *)
(*                                                                         *)
(* Reconcile, for any configs and bounds: what a goroutine commits is what *)
(* it staged and had validated, because from staging to restart it holds   *)
(* updateMu (MutexInv), so the file at the temporary path is its own       *)
(* (StagedInv).                                                            *)
(***************************************************************************)
EXTENDS Reconcile, Versions, TLAPS

MutexInv == \A p \in Writers : pc[p] \in Inside => updateMu = p

StagedInv ==
    \A p \in Writers :
        /\ pc[p] \in {"validate", "commit"} => staged = hand[p]
        /\ pc[p] = "commit" /\ staged \in (Broken \ Mistaken) => staged \in waved

Inv ==
    /\ TypeOK /\ MutexInv /\ StagedInv
    /\ RejectedNeverLive /\ RestartsOnItsConfig

LEMMA InitInv == Init => Inv
<1> SUFFICES ASSUME Init PROVE Inv
  OBVIOUS
<1>1. /\ unserved \in BOOLEAN /\ unrecorded \in BOOLEAN
      /\ edited \in BOOLEAN /\ validates \in BOOLEAN
  BY Zenon DEF Init
<1>2. TypeOK
  BY <1>1, ReconcileAssumption DEF Init, TypeOK, Files, Stages
<1>3. MutexInv /\ StagedInv /\ RestartsOnItsConfig
  BY DEF Init, MutexInv, StagedInv, RestartsOnItsConfig, Inside
<1>4. RejectedNeverLive
  BY ReconcileAssumption DEF Init, RejectedNeverLive
<1> QED
  BY <1>2, <1>3, <1>4 DEF Inv

(* What each step keeps of the types, before the other invariants. *)
LEMMA NextTypeOK == TypeOK /\ [Next]_vars => TypeOK'
<1> SUFFICES ASSUME TypeOK, [Next]_vars PROVE TypeOK'
  OBVIOUS
<1> USE ReconcileAssumption DEF TypeOK, Goto, Release, Fail, Files, Stages, Inside
<1>1. CASE \E c \in Configs : Request(c)
  BY <1>1 DEF Request, Writers, hostVars
<1>2. CASE Persist \/ PersistFails
  <2>1. CASE Persist
    BY <2>1 DEF Persist, Writers, hostVars, history, bounds
  <2>2. CASE PersistFails
    BY <2>2 DEF PersistFails, Writers, hostVars, history
  <2> QED
    BY <1>2, <2>1, <2>2
<1>3. CASE Load \/ ReadLive
  BY <1>3 DEF Load, ReadLive, Writers, Loop, hostVars, history, bounds
<1>4. CASE \E p \in Writers : Lock(p) \/ DoesNotRender(p)
  BY <1>4 DEF Lock, DoesNotRender, hostVars, history, bounds
<1>5. CASE \E p \in Writers : Stage(p) \/ Validate(p) \/ Rejected(p)
  <2>1. CASE \E p \in Writers : Stage(p) \/ Rejected(p)
    BY <2>1 DEF Stage, Rejected, hostVars, history, bounds
  <2>2. CASE \E p \in Writers : Validate(p)
    <3>1. waved' \subseteq Configs
      BY <2>2 DEF Validate, Valid
    <3>2. QED
      BY <2>2, <3>1 DEF Validate, hostVars, bounds
  <2>3. QED
    BY <1>5, <2>1, <2>2
<1>6. CASE \E p \in Writers : Commit(p)
  BY <1>6 DEF Commit, hostVars, history, bounds
<1>7. CASE \E p \in Writers : StepFails(p)
  BY <1>7 DEF StepFails, hostVars, history, bounds
<1>8. CASE \E p \in Writers : Restart(p) \/ RestartFails(p)
  <2>1. CASE \E p \in Writers : Restart(p)
    BY <2>1 DEF Restart, bounds
  <2>2. CASE \E p \in Writers : RestartFails(p)
    BY <2>2 DEF RestartFails
  <2> QED
    BY <1>8, <2>1, <2>2
<1>9. CASE \E f \in {Foreign, NoConfig} : Edit(f)
  BY <1>9 DEF Edit, hostVars, history, bounds
<1>10. CASE Crash \/ ValidatorChanges
  <2>1. CASE Crash
    BY <2>1 DEF Crash, hostVars, history, bounds
  <2>2. CASE ValidatorChanges
    <3>1. validates' \in BOOLEAN
      BY <2>2, Zenon DEF ValidatorChanges
    <3>2. QED
      BY <2>2, <3>1 DEF ValidatorChanges, history
  <2>3. QED
    BY <1>10, <2>1, <2>2
<1>11. CASE UNCHANGED vars
  BY <1>11 DEF vars, hostVars, history, bounds
<1>12. CASE StartService \/ StopService \/ RestartService \/ ServiceActionFails
  <2>1. /\ Command /\ served' \in {served, live, NoConfig} /\ unserved' \in BOOLEAN
        /\ UNCHANGED failures \/ Fail
    BY <1>12, Zenon DEF StartService, StopService, RestartService, ServiceActionFails
  <2> QED
    BY <2>1 DEF Command
<1> QED
  BY <1>1, <1>2, <1>3, <1>4, <1>5, <1>6, <1>7, <1>8, <1>9, <1>10, <1>11, <1>12 DEF Next

LEMMA NextInv == Inv /\ [Next]_vars => Inv'
<1> SUFFICES ASSUME Inv, [Next]_vars PROVE Inv'
  OBVIOUS
<1>0. TypeOK'
  BY NextTypeOK DEF Inv
<1> USE ReconcileAssumption DEF Inv, TypeOK, MutexInv, StagedInv, RejectedNeverLive,
        RestartsOnItsConfig, Goto, Release, Inside, Valid
<1>1. CASE \E c \in Configs : Request(c)
  BY <1>0, <1>1 DEF Request, Writers, Handler, hostVars
<1>2. CASE Persist \/ PersistFails
  BY <1>0, <1>2 DEF Persist, PersistFails, Writers, Handler, hostVars, history
<1>3. CASE Load \/ ReadLive
  BY <1>0, <1>3 DEF Load, ReadLive, Writers, Loop, hostVars, history
<1>4. CASE \E p \in Writers : Lock(p) \/ DoesNotRender(p)
  BY <1>0, <1>4 DEF Lock, DoesNotRender, Writers, Handler, Loop, Nobody, hostVars, history
<1>5. CASE \E p \in Writers : Stage(p)
  <2>1. PICK p \in Writers : Stage(p)
    BY <1>5
  <2>2. \A q \in Writers \ {p} : pc[q] \notin Inside
    BY <2>1 DEF Stage
  <2> QED
    BY <1>0, <2>1, <2>2 DEF Stage, hostVars, history
<1>6. CASE \E p \in Writers : Validate(p)
  BY <1>0, <1>6 DEF Validate, hostVars, history
<1>7. CASE \E p \in Writers : Rejected(p) \/ StepFails(p)
  <2>1. PICK p \in Writers : Rejected(p) \/ StepFails(p)
    BY <1>7
  <2>2. \A q \in Writers \ {p} : pc[q] \notin Inside
    BY <2>1 DEF Rejected, StepFails
  <2> QED
    BY <1>0, <2>1, <2>2 DEF Rejected, StepFails, hostVars, history
<1>8. CASE \E p \in Writers : Commit(p)
  <2>1. PICK p \in Writers : Commit(p)
    BY <1>8
  <2>2. \A q \in Writers \ {p} : pc[q] \notin Inside
    BY <2>1 DEF Commit
  <2>3. /\ live' = hand[p] /\ UNCHANGED waved
        /\ live' \in (Broken \ Mistaken) => live' \in waved
    BY <2>1 DEF Commit, hostVars
  <2> QED
    BY <1>0, <2>1, <2>2, <2>3 DEF Commit, hostVars, history
<1>9. CASE \E p \in Writers : Restart(p) \/ RestartFails(p)
  <2>1. PICK p \in Writers : Restart(p) \/ RestartFails(p)
    BY <1>9
  <2>2. \A q \in Writers \ {p} : pc[q] \notin Inside
    BY <2>1 DEF Restart, RestartFails
  <2> QED
    BY <1>0, <2>1, <2>2 DEF Restart, RestartFails, hostVars, history
<1>10. CASE \E f \in {Foreign, NoConfig} : Edit(f)
  BY <1>0, <1>10 DEF Edit, hostVars, history
<1>11. CASE Crash \/ ValidatorChanges
  BY <1>0, <1>11 DEF Crash, ValidatorChanges, hostVars, history
<1>12. CASE UNCHANGED vars
  BY <1>0, <1>12 DEF vars, hostVars, history, bounds
<1>13. CASE StartService \/ StopService \/ RestartService \/ ServiceActionFails
  <2>1. Command
    BY <1>13 DEF StartService, StopService, RestartService, ServiceActionFails
  <2> QED
    BY <1>0, <2>1 DEF Command
<1> QED
  BY <1>1, <1>2, <1>3, <1>4, <1>5, <1>6, <1>7, <1>8, <1>9, <1>10, <1>11, <1>12, <1>13 DEF Next

\* The invariant holds throughout.
THEOREM Invariance == Spec => []Inv
<1>1. Init => Inv
  BY InitInv
<1>2. Inv /\ [Next]_vars => Inv'
  BY NextInv
<1> QED
  BY <1>1, <1>2, PTL DEF Spec

(* Type correctness of the config file, its temporary and the goroutines.   *)
THEOREM TypeCorrect == Spec => []TypeOK
<1>1. Inv => TypeOK
  BY DEF Inv
<1> QED
  BY <1>1, Invariance, PTL

(* However the handler and the loop interleave, fail and crash, a config    *)
(* the validator rejects is never the live file.                            *)
THEOREM RejectedStaysOut == Spec => []RejectedNeverLive
<1>1. Inv => RejectedNeverLive
  BY DEF Inv
<1> QED
  BY <1>1, Invariance, PTL

(* A restart loads the config its caller committed, unless an operator      *)
(* edited the file in between.                                              *)
THEOREM RestartLoadsOwn == Spec => []RestartsOnItsConfig
<1>1. Inv => RestartsOnItsConfig
  BY DEF Inv
<1> QED
  BY <1>1, Invariance, PTL

(* ServiceUpToDate needs of the rest only that the restarter holds the lock. *)
LEMMA NextUpToDate ==
    Inv /\ ServiceUpToDate /\ [Next]_vars => ServiceUpToDate'
<1> SUFFICES ASSUME Inv, ServiceUpToDate, [Next]_vars PROVE ServiceUpToDate'
  OBVIOUS
<1> USE DEF Inv, TypeOK, ServiceUpToDate, Goto, Release
<1>1. CASE \E c \in Configs : Request(c)
  BY <1>1 DEF Request, Writers, Handler, hostVars
<1>2. CASE Persist \/ PersistFails
  BY <1>2 DEF Persist, PersistFails, Writers, Handler, hostVars, history
<1>3. CASE Load \/ ReadLive
  BY <1>3 DEF Load, ReadLive, Writers, Loop, hostVars, history
<1>4. CASE \E p \in Writers : Lock(p) \/ DoesNotRender(p)
  BY <1>4 DEF Lock, DoesNotRender, Writers, hostVars, history
<1>5. CASE \E p \in Writers : Stage(p) \/ Validate(p) \/ Rejected(p) \/ StepFails(p)
  BY <1>5 DEF Stage, Validate, Rejected, StepFails, hostVars, history
<1>6. CASE \E p \in Writers : Commit(p)
  BY <1>6 DEF Commit, hostVars, history
<1>7. CASE \E p \in Writers : Restart(p) \/ RestartFails(p)
  BY <1>7 DEF Restart, RestartFails
<1>8. CASE \E f \in {Foreign, NoConfig} : Edit(f)
  BY <1>8 DEF Edit
<1>9. CASE Crash \/ ValidatorChanges
  BY <1>9 DEF Crash, ValidatorChanges, hostVars, history
<1>10. CASE UNCHANGED vars
  BY <1>10 DEF vars, hostVars, history
<1>11. CASE StartService \/ StopService \/ RestartService \/ ServiceActionFails
  <2>1. CASE StartService
    <3>1. served' = live \/ (served' = served /\ (~unserved \/ unserved' \/ served = live))
      BY <2>1, Zenon DEF StartService
    <3> QED
      BY <2>1, <3>1 DEF StartService, Command
  <2>2. CASE StopService \/ RestartService \/ ServiceActionFails
    BY <2>2 DEF StopService, RestartService, ServiceActionFails, Command
  <2> QED
    BY <1>11, <2>1, <2>2
<1> QED
  BY <1>1, <1>2, <1>3, <1>4, <1>5, <1>6, <1>7, <1>8, <1>9, <1>10, <1>11 DEF Next

(* A service that is not on the live file has a restart coming to it, or    *)
(* is out of date for a reason the agent did not cause or has reported.     *)
THEOREM NoForgottenRestart == Spec => []ServiceUpToDate
<1>1. Init => ServiceUpToDate
  BY DEF Init, ServiceUpToDate
<1>2. Inv /\ ServiceUpToDate /\ [Next]_vars => ServiceUpToDate'
  BY NextUpToDate
<1> QED
  BY <1>1, <1>2, Invariance, PTL DEF Spec

-----------------------------------------------------------------------------
(***************************************************************************)
(* Versions, for any binaries, contents, failures, kills and losses of     *)
(* power.  The invariant follows a download to its place: what the index   *)
(* announced was published, what passed the checksum is that, and what     *)
(* waits for its mode is that too.  A file without its mode is the         *)
(* operation's own, or was left by one that was cut off.                   *)
(***************************************************************************)
ArchiveInv == \A b \in Binaries : archive[b] # None => archive[b] \in published[b]

\* A download under way, from the index to the mode.
DownloadInv ==
    /\ step \in {"download", "verify", "move", "copy"} => want \in published[op]
    /\ step \in {"move", "copy"} => temp = want
    /\ step = "chmod" => Present(op) /\ file[op].data \in published[op]
    /\ step # "idle" => op \notin promised

\* Who may not have a mode yet.
ModeInv ==
    \A b \in Binaries : Present(b) /\ b \notin interrupted
                          => file[b].exec \/ (b = op /\ step \in {"chmod", "cleanup"})

\* What power may leave is what was there, but for the data of what was not synced.
DiskInv ==
    \A b \in Binaries : \A f \in disk[b] \ {None} :
        f.data \in published[b] \/ (f.data = Torn /\ ~f.synced)

VersionsInv ==
    /\ VersionsTypeOK /\ ArchiveInv /\ DownloadInv /\ ModeInv /\ DiskInv
    /\ InstalledIsVerified /\ SuccessIsUsable

\* Nothing is installed at first.
LEMMA VersionsStart == VersionsInit => VersionsInv
<1> SUFFICES ASSUME VersionsInit PROVE VersionsInv
  OBVIOUS
<1>1. \A b \in Binaries : archive[b] \in Data /\ published[b] = {archive[b]} /\ ~Present(b)
  BY DEF VersionsInit, Present
<1>2. VersionsTypeOK
  BY VersionsAssumption DEF VersionsInit, VersionsTypeOK
<1>3. ArchiveInv /\ DownloadInv /\ ModeInv /\ DiskInv /\ InstalledIsVerified /\ SuccessIsUsable
  BY <1>1 DEF VersionsInit, ArchiveInv, DownloadInv, ModeInv, DiskInv, InstalledIsVerified, SuccessIsUsable
<1>4. QED
  BY <1>2, <1>3 DEF VersionsInv

-----------------------------------------------------------------------------
(* The types. *)

BinaryFiles == {None} \cup VersionFiles

\* A file is never taken for none.
LEMMA FilesAreThere ==
    \A data \in Data \cup {Torn}, exec, synced \in BOOLEAN :
        /\ File(data, exec, synced) # None /\ File(data, exec, synced) \in VersionFiles
        /\ File(data, exec, synced).data = data /\ File(data, exec, synced).exec = exec
        /\ File(data, exec, synced).synced = synced
BY VersionsAssumption DEF File, VersionFiles

\* The file of the operation changes, and with it what power may leave.
LEMMA BecomesType ==
    ASSUME VersionsTypeOK, op \in Binaries, NEW f \in BinaryFiles, Becomes(f)
    PROVE  /\ file' \in [Binaries -> BinaryFiles] /\ disk' \in [Binaries -> SUBSET BinaryFiles]
           /\ file'[op] = f /\ \A b \in Binaries \ {op} : file'[b] = file[b] /\ disk'[b] = disk[b]
           /\ f \in disk'[op]
           /\ \A g \in disk'[op] :
                \/ g \in disk[op] \cup {f}
                \/ f # None /\ ~f.synced /\ g = File(Torn, f.exec, FALSE)
<1>1. file \in [Binaries -> BinaryFiles] /\ disk \in [Binaries -> SUBSET BinaryFiles]
  BY DEF VersionsTypeOK, BinaryFiles
<1>2. f # None => File(Torn, f.exec, FALSE) \in BinaryFiles
  BY FilesAreThere DEF BinaryFiles, VersionFiles
<1>3. f # None /\ ~f.synced <=> ~(f = None \/ f.synced)
  OBVIOUS
<1>4. DEFINE more == IF f = None \/ f.synced THEN {} ELSE {File(Torn, f.exec, FALSE)}
<1>5. more \subseteq BinaryFiles /\ disk' = [disk EXCEPT ![op] = @ \cup {f} \cup more]
  BY <1>2 DEF Becomes
<1>6. \A g \in more : f # None /\ ~f.synced /\ g = File(Torn, f.exec, FALSE)
  OBVIOUS
<1> HIDE DEF more
<1> QED
  BY <1>1, <1>5, <1>6 DEF Becomes

\* Every step keeps the types; of a move and of the mode, because of where the download is.
LEMMA VersionsTypes ==
    VersionsTypeOK /\ DownloadInv /\ [VersionsNext]_versionsVars => VersionsTypeOK'
<1> SUFFICES ASSUME VersionsTypeOK, DownloadInv, [VersionsNext]_versionsVars
             PROVE  VersionsTypeOK'
  OBVIOUS
<1> USE VersionsAssumption DEF VersionsTypeOK, Fault, stored
<1>1. CASE Refuse
  BY <1>1 DEF Refuse, Begin, Answer, remote, hist
<1>2. CASE SetVersion
  BY <1>2 DEF SetVersion, Begin, Answer, Promise, remote
<1>3. CASE GetAvailableVersions
  BY <1>3 DEF GetAvailableVersions, Failed, remote, hist
<1>4. CASE DownloadFile
  BY <1>4 DEF DownloadFile, Failed, remote, hist
<1>5. CASE VerifyChecksum
  BY <1>5 DEF VerifyChecksum, Failed, remote, hist
<1>6. CASE MoveFile
  <2>1. op \in Binaries /\ temp \in Data
    BY <1>6 DEF MoveFile, DownloadInv
  <2>2. File(temp, FALSE, FALSE) \in BinaryFiles
    BY <2>1, FilesAreThere DEF BinaryFiles
  <2>3. file' \in [Binaries -> BinaryFiles] /\ disk' \in [Binaries -> SUBSET BinaryFiles]
    BY <1>6, <2>1, <2>2, BecomesType DEF MoveFile, Installed
  <2>4. QED
    BY <1>6, <2>1, <2>3 DEF MoveFile, remote, hist, BinaryFiles
<1>7. CASE MoveFails
  BY <1>7 DEF MoveFails, remote, hist
<1>8. CASE CopyAndReplace
  <2>1. op \in Binaries /\ temp \in Data
    BY <1>8 DEF CopyAndReplace, DownloadInv
  <2>2. CASE Installed(TRUE) /\ step' = "chmod" /\ UNCHANGED <<temp, faults>>
    <3>1. File(temp, FALSE, TRUE) \in BinaryFiles
      BY <2>1, FilesAreThere DEF BinaryFiles
    <3>2. file' \in [Binaries -> BinaryFiles] /\ disk' \in [Binaries -> SUBSET BinaryFiles]
      BY <2>1, <2>2, <3>1, BecomesType DEF Installed
    <3>3. QED
      BY <1>8, <2>1, <2>2, <3>2 DEF CopyAndReplace, remote, hist, BinaryFiles
  <2>3. CASE Fault /\ Failed /\ UNCHANGED stored
    BY <1>8, <2>1, <2>3 DEF CopyAndReplace, Failed, remote, hist
  <2>4. QED
    BY <1>8, <2>2, <2>3 DEF CopyAndReplace
<1>9. CASE SetBinaryPermissions
  <2>1. op \in Binaries /\ file[op] \in BinaryFiles \ {None}
    BY <1>9 DEF SetBinaryPermissions, DownloadInv, Present, BinaryFiles
  <2>2. CASE /\ Becomes(File(file[op].data, TRUE, file[op].synced)) /\ Answer("ok")
              /\ promised' = promised \cup {op} /\ interrupted' = interrupted \ {op}
              /\ UNCHANGED faults
    <3>1. File(file[op].data, TRUE, file[op].synced) \in BinaryFiles
      BY <2>1, FilesAreThere DEF BinaryFiles, VersionFiles
    <3>2. file' \in [Binaries -> BinaryFiles] /\ disk' \in [Binaries -> SUBSET BinaryFiles]
      BY <2>1, <2>2, <3>1, BecomesType
    <3>3. UNCHANGED <<archive, published, releases, op, ops, kills>>
      BY <1>9 DEF SetBinaryPermissions, remote
    <3>4. QED
      BY <2>1, <2>2, <3>2, <3>3 DEF Answer, BinaryFiles
  <2>3. CASE Fault /\ Failed /\ UNCHANGED <<stored, want, answer, hist>>
    <3>1. UNCHANGED <<archive, published, releases, op, ops, kills>>
      BY <1>9 DEF SetBinaryPermissions, remote
    <3>2. QED
      BY <2>1, <2>3, <3>1 DEF Failed, hist
  <2>4. QED
    BY <1>9, <2>2, <2>3 DEF SetBinaryPermissions
<1>10. CASE RemoveAll
  <2>1. op \in Binaries
    BY <1>10 DEF RemoveAll
  <2>2. file' \in [Binaries -> BinaryFiles] /\ disk' \in [Binaries -> SUBSET BinaryFiles]
    <3>1. CASE Becomes(None)
      BY <2>1, <3>1, BecomesType DEF BinaryFiles
    <3>2. CASE UNCHANGED stored
      BY <3>2 DEF BinaryFiles
    <3>3. QED
      BY <1>10, <3>1, <3>2 DEF RemoveAll
  <2>3. QED
    BY <1>10, <2>2 DEF RemoveAll, Unfinished, Answer, remote, BinaryFiles
<1>11. CASE GetDownloadedVersions
  <2>1. promised' \subseteq Binaries
    BY <1>11 DEF GetDownloadedVersions, Promise, Listed
  <2>2. QED
    BY <1>11, <2>1 DEF GetDownloadedVersions, Begin, Answer, remote
<1>12. CASE Kill
  BY <1>12 DEF Kill, Dies, Cut, Unfinished, Answer, remote
<1>13. CASE PowerLoss
  <2>2. file' \in [Binaries -> BinaryFiles] /\ disk' \in [Binaries -> SUBSET BinaryFiles]
    <3>1. file' \in [Binaries -> UNION {disk[b] : b \in Binaries}]
      BY <1>13 DEF PowerLoss
    <3>2. disk \in [Binaries -> SUBSET BinaryFiles]
      BY DEF BinaryFiles
    <3>3. file' \in [Binaries -> BinaryFiles]
      BY <3>1, <3>2
    <3>4. QED
      BY <1>13, <3>3 DEF PowerLoss
  <2>3. interrupted' \subseteq Binaries /\ promised' \subseteq Binaries
    BY <1>13 DEF PowerLoss, Cut, Unfinished
  <2>4. /\ kills' \in 0..MaxKills /\ step' = "idle" /\ op' = None /\ answer' = "none"
        /\ want' = None /\ temp' = None
        /\ UNCHANGED <<archive, published, releases, ops, faults>>
    BY <1>13 DEF PowerLoss, Dies, Answer, remote
  <2>5. QED
    BY <2>2, <2>3, <2>4 DEF BinaryFiles
<1>14. CASE Republish
  <2>1. PICK b \in Binaries, d \in Data \cup {None} :
          /\ archive' = [archive EXCEPT ![b] = d]
          /\ published' = [published EXCEPT ![b] = @ \cup ({d} \ {None})]
    BY <1>14 DEF Republish
  <2>2. archive' \in [Binaries -> Data \cup {None}] /\ published' \in [Binaries -> SUBSET Data]
    BY <2>1
  <2>3. releases' \in 0..MaxReleases
    BY <1>14 DEF Republish
  <2>4. QED
    BY <1>14, <2>2, <2>3 DEF Republish, work, hist
<1>15. CASE UNCHANGED versionsVars
  BY <1>15 DEF versionsVars, remote, work, hist
<1>16. QED
  BY <1>1, <1>2, <1>3, <1>4, <1>5, <1>6, <1>7, <1>8, <1>9, <1>10, <1>11, <1>12, <1>13, <1>14,
     <1>15 DEF VersionsNext

-----------------------------------------------------------------------------
(* The steps. *)

\* What comes into place was published, and so is what power may leave.
LEMMA BecomesDisk ==
    ASSUME VersionsTypeOK, DiskInv, op \in Binaries, NEW f \in BinaryFiles, Becomes(f),
           f = None \/ f.data \in published[op], published' = published
    PROVE  DiskInv'
<1>1. ASSUME NEW b \in Binaries, NEW g \in disk'[b] \ {None}
      PROVE  g.data \in published[b] \/ (g.data = Torn /\ ~g.synced)
  <2>1. CASE b # op
    BY <1>1, <2>1, BecomesType DEF DiskInv
  <2>2. CASE b = op /\ g \in disk[op] \cup {f}
    BY <1>1, <2>2 DEF DiskInv
  <2>3. CASE b = op /\ f # None /\ ~f.synced /\ g = File(Torn, f.exec, FALSE)
    <3>1. f.exec \in BOOLEAN
      BY <2>3 DEF BinaryFiles, VersionFiles
    <3>2. QED
      BY <2>3, <3>1, FilesAreThere
  <2>4. QED
    BY <1>1, <2>1, <2>2, <2>3, BecomesType
<1>2. QED
  BY <1>1 DEF DiskInv

\* What was verified takes its place.
LEMMA InPlace ==
    ASSUME VersionsInv, VersionsTypeOK',
           step \in {"move", "copy"}, NEW synced \in BOOLEAN, Installed(synced), step' = "chmod",
           UNCHANGED <<archive, published, op, want, temp, promised, interrupted>>
    PROVE  VersionsInv'
<1>1. op \in Binaries /\ temp \in published[op] /\ temp \in Data /\ op \notin promised
  BY DEF VersionsInv, VersionsTypeOK, DownloadInv
<1>2. /\ file'[op] = File(temp, FALSE, synced)
      /\ \A b \in Binaries \ {op} : file'[b] = file[b]
  BY <1>1, BecomesType, FilesAreThere DEF VersionsInv, BinaryFiles, Installed
<1>3. file'[op] # None /\ file'[op].data = temp
  <2>1. temp \in Data \cup {Torn} /\ synced \in BOOLEAN /\ FALSE \in BOOLEAN
    BY <1>1
  <2>2. File(temp, FALSE, synced) # None
    BY <2>1, FilesAreThere
  <2>3. File(temp, FALSE, synced).data = temp
    BY <2>1, FilesAreThere
  <2>4. QED
    BY <1>2, <2>2, <2>3
<1>4. ArchiveInv' /\ DownloadInv' /\ ModeInv' /\ DiskInv'
  <2>1. ArchiveInv' /\ DownloadInv' /\ ModeInv'
    BY <1>1, <1>2, <1>3 DEF VersionsInv, ArchiveInv, DownloadInv, ModeInv, Present
  <2>2. File(temp, FALSE, synced) \in BinaryFiles /\ File(temp, FALSE, synced).data = temp
    BY <1>1, FilesAreThere DEF BinaryFiles
  <2>3. DiskInv'
    <3>1. PICK f \in BinaryFiles : f = File(temp, FALSE, synced)
      BY <2>2
    <3>2. Becomes(f) /\ f.data \in published[op]
      BY <1>1, <2>2, <3>1 DEF Installed, Becomes
    <3>3. VersionsTypeOK /\ DiskInv /\ op \in Binaries /\ published' = published
      BY <1>1 DEF VersionsInv
    <3>4. QED
      BY <3>1, <3>2, <3>3, BecomesDisk
  <2>4. QED
    BY <2>1, <2>3
<1>5. InstalledIsVerified'
  BY <1>1, <1>2, <1>3 DEF VersionsInv, InstalledIsVerified, Present
<1>6. SuccessIsUsable'
  <2>1. \A b \in promised : b \in Binaries \ {op}
    BY <1>1 DEF VersionsInv, VersionsTypeOK
  <2>2. QED
    BY <1>2, <2>1 DEF VersionsInv, SuccessIsUsable, Present, Usable
<1>7. QED
  BY <1>4, <1>5, <1>6 DEF VersionsInv

\* The mode is given.
LEMMA ModeGiven ==
    ASSUME VersionsInv, VersionsTypeOK', step = "chmod",
           Becomes(File(file[op].data, TRUE, file[op].synced)),
           Answer("ok"), promised' = promised \cup {op}, interrupted' = interrupted \ {op},
           UNCHANGED <<archive, published, op>>
    PROVE  VersionsInv'
<1>1. /\ op \in Binaries /\ file[op] # None /\ file[op].data \in published[op]
      /\ file \in [Binaries -> BinaryFiles]
  BY DEF VersionsInv, VersionsTypeOK, DownloadInv, Present, BinaryFiles
<1>2. file[op] \in VersionFiles /\ File(file[op].data, TRUE, file[op].synced) \in BinaryFiles
  BY <1>1, FilesAreThere DEF BinaryFiles, VersionFiles
<1>3. /\ file'[op] = File(file[op].data, TRUE, file[op].synced)
      /\ \A b \in Binaries \ {op} : file'[b] = file[b]
  BY <1>1, <1>2, BecomesType DEF VersionsInv
<1>4. file'[op] # None /\ file'[op].data = file[op].data /\ file'[op].exec
  <2>1. /\ file[op].data \in Data \cup {Torn} /\ file[op].synced \in BOOLEAN
        /\ TRUE \in BOOLEAN
    BY <1>2 DEF VersionFiles
  <2>2. File(file[op].data, TRUE, file[op].synced) # None
    BY <2>1, FilesAreThere
  <2>3. File(file[op].data, TRUE, file[op].synced).data = file[op].data
    BY <2>1, FilesAreThere
  <2>4. File(file[op].data, TRUE, file[op].synced).exec
    BY <2>1, FilesAreThere
  <2>5. QED
    BY <1>3, <2>2, <2>3, <2>4
<1>5. ArchiveInv' /\ DownloadInv' /\ ModeInv' /\ DiskInv'
  <2>1. ArchiveInv' /\ DownloadInv' /\ ModeInv'
    BY <1>1, <1>3, <1>4 DEF VersionsInv, ArchiveInv, DownloadInv, ModeInv, Present, Answer
  <2>2. DiskInv'
    <3>1. PICK f \in BinaryFiles : f = File(file[op].data, TRUE, file[op].synced)
      BY <1>2
    <3>2. f.data \in published[op]
      BY <1>1, <1>3, <1>4, <3>1
    <3>3. Becomes(f)
      BY <3>1 DEF Becomes
    <3>4. VersionsTypeOK /\ DiskInv /\ op \in Binaries /\ published' = published
      BY <1>1 DEF VersionsInv
    <3>5. QED
      BY <3>1, <3>2, <3>3, <3>4, BecomesDisk
  <2>3. QED
    BY <2>1, <2>2
<1>6. InstalledIsVerified'
  BY <1>1, <1>3, <1>4 DEF VersionsInv, InstalledIsVerified, Present
<1>7. SuccessIsUsable'
  BY <1>1, <1>3, <1>4 DEF VersionsInv, VersionsTypeOK, SuccessIsUsable, Present, Usable
<1>8. QED
  BY <1>5, <1>6, <1>7 DEF VersionsInv

\* The directory is removed.
LEMMA Removed ==
    ASSUME VersionsInv, VersionsTypeOK', step = "cleanup", Becomes(None),
           Answer("error"), interrupted' = interrupted \ {op},
           UNCHANGED <<archive, published, op, promised>>
    PROVE  VersionsInv'
<1>1. op \in Binaries /\ op \notin promised
  BY DEF VersionsInv, VersionsTypeOK, DownloadInv
<1>2. file'[op] = None /\ \A b \in Binaries \ {op} : file'[b] = file[b]
  BY <1>1, BecomesType DEF VersionsInv, BinaryFiles
<1>3. ArchiveInv' /\ DownloadInv' /\ ModeInv'
  BY <1>1, <1>2 DEF VersionsInv, ArchiveInv, DownloadInv, ModeInv, Present, Answer
<1>4. DiskInv'
  BY <1>1, BecomesDisk DEF VersionsInv, BinaryFiles
<1>5. InstalledIsVerified' /\ SuccessIsUsable'
  BY <1>1, <1>2 DEF VersionsInv, VersionsTypeOK, InstalledIsVerified, SuccessIsUsable, Present,
     Usable
<1>6. QED
  BY <1>3, <1>4, <1>5 DEF VersionsInv

\* Every step keeps the invariant.
LEMMA VersionsStep ==
    VersionsInv /\ [VersionsNext]_versionsVars => VersionsInv'
<1> SUFFICES ASSUME VersionsInv, [VersionsNext]_versionsVars PROVE VersionsInv'
  OBVIOUS
<1>0. VersionsTypeOK'
  BY VersionsTypes DEF VersionsInv
<1> USE VersionsAssumption DEF VersionsInv, VersionsTypeOK, ArchiveInv, DownloadInv, ModeInv,
        DiskInv, Present, Usable, InstalledIsVerified, SuccessIsUsable, Fault, stored
<1>1. CASE Refuse
  BY <1>0, <1>1 DEF Refuse, Begin, Answer, remote, hist
<1>2. CASE SetVersion
  BY <1>0, <1>2 DEF SetVersion, Begin, Answer, Promise, remote
<1>3. CASE GetAvailableVersions
  BY <1>0, <1>3 DEF GetAvailableVersions, Failed, remote, hist
<1>4. CASE DownloadFile
  BY <1>0, <1>4 DEF DownloadFile, Failed, remote, hist
<1>5. CASE VerifyChecksum
  BY <1>0, <1>5 DEF VerifyChecksum, Failed, remote, hist
<1>6. CASE MoveFile
  BY <1>0, <1>6, InPlace DEF MoveFile, remote, hist
<1>7. CASE MoveFails
  BY <1>0, <1>7 DEF MoveFails, remote, hist
<1>8. CASE CopyAndReplace
  <2>1. CASE Installed(TRUE) /\ step' = "chmod" /\ UNCHANGED temp
    BY <1>0, <1>8, <2>1, InPlace DEF CopyAndReplace, remote, hist
  <2>2. CASE Failed /\ UNCHANGED stored
    BY <1>0, <1>8, <2>2 DEF CopyAndReplace, Failed, remote, hist
  <2>3. QED
    BY <1>8, <2>1, <2>2 DEF CopyAndReplace
<1>9. CASE SetBinaryPermissions
  <2>1. CASE Failed
    BY <1>0, <1>9, <2>1 DEF SetBinaryPermissions, Failed, Answer, remote, hist
  <2>2. CASE ~Failed
    BY <1>0, <1>9, <2>2, ModeGiven DEF SetBinaryPermissions, remote, hist
  <2>3. QED
    BY <2>1, <2>2
<1>10. CASE RemoveAll
  <2>1. CASE Becomes(None) /\ interrupted' = interrupted \ {op}
    BY <1>0, <1>10, <2>1, Removed DEF RemoveAll, remote
  <2>2. CASE interrupted' = interrupted \cup Unfinished /\ UNCHANGED stored
    BY <1>0, <1>10, <2>2 DEF RemoveAll, Unfinished, Answer, remote
  <2>3. QED
    BY <1>10, <2>1, <2>2 DEF RemoveAll
<1>11. CASE GetDownloadedVersions
  BY <1>0, <1>11 DEF GetDownloadedVersions, Begin, Promise, Listed, Answer, remote
<1>12. CASE Kill
  BY <1>0, <1>12 DEF Kill, Dies, Cut, Unfinished, Answer, remote
<1>13. CASE PowerLoss
  BY <1>0, <1>13 DEF PowerLoss, Dies, Cut, Unfinished, Answer, File, remote
<1>14. CASE Republish
  BY <1>0, <1>14 DEF Republish, work, hist
<1>15. CASE UNCHANGED versionsVars
  BY <1>0, <1>15 DEF versionsVars, remote, work, hist
<1>16. QED
  BY <1>1, <1>2, <1>3, <1>4, <1>5, <1>6, <1>7, <1>8, <1>9, <1>10, <1>11, <1>12, <1>13, <1>14,
     <1>15 DEF VersionsNext

-----------------------------------------------------------------------------
(* Theorems. *)

\* The invariant holds throughout.
LEMMA InvarianceOfVersions == VersionsSpec => []VersionsInv
<1>1. QED
  BY VersionsStart, VersionsStep, PTL DEF VersionsSpec

\* Every variable has its type.
THEOREM VersionsTypeCorrect == VersionsSpec => []VersionsTypeOK
<1>1. VersionsInv => VersionsTypeOK
  BY DEF VersionsInv
<1>2. QED
  BY <1>1, InvarianceOfVersions, PTL

\* What is at the path of a version is whole and was published for it, unless power was
\* lost after a rename.
THEOREM FilesAreVerified == VersionsSpec => []InstalledIsVerified
<1>1. VersionsInv => InstalledIsVerified
  BY DEF VersionsInv
<1>2. QED
  BY <1>1, InvarianceOfVersions, PTL

\* A version answered for with success, or listed, can be run until it is downloaded again
\* or a loss of power undoes it.
THEOREM AnsweredForIsUsable == VersionsSpec => []SuccessIsUsable
<1>1. VersionsInv => SuccessIsUsable
  BY DEF VersionsInv
<1>2. QED
  BY <1>1, InvarianceOfVersions, PTL
=============================================================================
