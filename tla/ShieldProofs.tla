----------------------------- MODULE ShieldProofs -----------------------------
(***************************************************************************)
(* Proofs about Shield.  The first invariant says, for each phase of a     *)
(* push, where the content of each of its files is; the second, what the   *)
(* daemon can have done since the snapshot, as long as that is steady.     *)
(***************************************************************************)
EXTENDS Shield, TLAPS

USE ShieldAssumption

Early == {"prepare", "validate"}
Late  == {"confirm", "poll", "gauge"}

TypeInv ==
    /\ disk \in [Names -> Contents \cup {Absent}] /\ found \in [Names -> Contents \cup {Absent}]
    /\ pc \in PC /\ op \in Bundles \cup {NoBundle} /\ (pc # "idle" => op \in Bundles)

\* What is planned belongs to the bundle, and before the commit nothing is
\* committed and nothing has changed.
PlanInv ==
    /\ pc # "idle" => how = "none"
    /\ pc \notin {"idle", "metrics"} =>
         /\ skipped \subseteq Bundle /\ staged \subseteq Bundle /\ skipped \cap staged = {}
         /\ pc # "prepare" => Planned = Bundle
    /\ committed \subseteq staged
    /\ pc \in {"metrics"} \cup Early => committed = {} /\ ~changed
    /\ pc = "metrics" => skipped = {} /\ staged = {}
    /\ pc \in {"prune"} \cup Late => committed = staged
    /\ ~changed => committed = {}

\* Each planned file is at its place, or staged and not yet committed.
PlaceInv ==
    /\ pc \notin {"idle", "metrics"} =>
         \A p \in Bundle :
            /\ p \in skipped \cup committed => disk[p] = Asked(p)
            /\ p \in staged \ committed => disk[TmpOf[p]] = Asked(p)
    /\ pc \in Late /\ op.full => \A n \in Names \ Bundle : disk[n] = Absent

\* Until a rename only temporaries have changed.
FoundInv ==
    /\ pc = "metrics" => disk = found
    /\ pc # "idle" /\ ~changed =>
         \A n \in Names : \/ disk[n] = found[n]
                          \/ n \in Temps(staged)
                          \/ n \in Temps(Files) \ Files /\ disk[n] = Absent

SyncInv == TypeInv /\ PlanInv /\ PlaceInv /\ FoundInv /\ SyncedIsOnDisk /\ AbortLeavesDirectory

syncVars == <<disk, found, pc, op, skipped, staged, committed, changed, how>>

LEMMA InitSync == Init => SyncInv
BY DEF Init, SyncInv, TypeInv, PlanInv, PlaceInv, FoundInv, SyncedIsOnDisk, AbortLeavesDirectory, PC,
       Early, Late

\* Steps that leave the directory and the plan alone.
LEMMA SyncQuiet ==
    ASSUME SyncInv, UNCHANGED <<disk, found, op, skipped, staged, committed, changed>>,
           \/ UNCHANGED <<pc, how>>
           \/ pc \in Late /\ pc' \in Late /\ UNCHANGED how
           \/ pc' = "idle" /\ how' = "none"
    PROVE  SyncInv'
BY DEF SyncInv, TypeInv, PlanInv, PlaceInv, FoundInv, SyncedIsOnDisk, AbortLeavesDirectory, PC, Early,
       Late, Bundle, Planned, Asked

LEMMA SyncStep ==
    ASSUME NoCollision, SyncInv, Next PROVE SyncInv'
<1> USE DEF SyncInv, TypeInv, PC, Early, Late, Asked
<1>1. ASSUME NEW b \in Bundles, Push(b) PROVE SyncInv'
  BY <1>1 DEF Push, PlanInv, PlaceInv, FoundInv, SyncedIsOnDisk, AbortLeavesDirectory
<1>2. CASE SnapshotFailures
  BY <1>2 DEF SnapshotFailures, planVars, PlanInv, PlaceInv, FoundInv, SyncedIsOnDisk,
              AbortLeavesDirectory, Bundle, Planned
<1>3. ASSUME NEW p \in Files, Skip(p) PROVE SyncInv'
  BY <1>3 DEF Skip, AlreadyThere, PlanInv, PlaceInv, FoundInv, SyncedIsOnDisk, AbortLeavesDirectory,
              Bundle, Planned, history
<1>4. ASSUME NEW p \in Files, Stage(p) PROVE SyncInv'
  BY <1>4 DEF Stage, AlreadyThere, WrongSum, PlanInv, PlaceInv, FoundInv, SyncedIsOnDisk, AbortLeavesDirectory, Bundle, Planned,
              Temps, NoCollision, history
<1>5. CASE PrepareFails
  BY <1>5 DEF PrepareFails, Answer, Without, PlanInv, PlaceInv, FoundInv, SyncedIsOnDisk,
              AbortLeavesDirectory, Bundle, Planned, Temps, NoCollision, planVars
<1>6. CASE Prepared \/ \E looks \in BOOLEAN : Validated(looks)
  BY <1>6 DEF Prepared, Validated, Continue, PlanInv, PlaceInv, FoundInv, SyncedIsOnDisk,
              AbortLeavesDirectory, Bundle, Planned, history, planVars
<1>7. CASE Rejected
  BY <1>7 DEF Rejected, Answer, Without, PlanInv, PlaceInv, FoundInv, SyncedIsOnDisk,
              AbortLeavesDirectory, Bundle, Planned, Temps, NoCollision, planVars
<1>8. ASSUME NEW p \in Files, Rename(p) PROVE SyncInv'
  BY <1>8 DEF Rename, PlanInv, PlaceInv, FoundInv, SyncedIsOnDisk, AbortLeavesDirectory, Bundle, Planned,
              NoCollision, history
<1>9. CASE RenameFails
  BY <1>9 DEF RenameFails, Answer, Without, PlanInv, PlaceInv, FoundInv, SyncedIsOnDisk,
              AbortLeavesDirectory, Bundle, Planned, Temps, NoCollision, planVars
<1>10. CASE Committed
  BY <1>10 DEF Committed, Continue, PlanInv, PlaceInv, FoundInv, SyncedIsOnDisk, AbortLeavesDirectory,
               Bundle, Planned, planVars, history
<1>11. CASE Prune
  BY <1>11 DEF Prune, Removes, Continue, Unmanaged, Without, PlanInv, PlaceInv, FoundInv,
               SyncedIsOnDisk, AbortLeavesDirectory, Bundle, Planned, planVars, history
<1>12. CASE PruneFails
  <2>1. PICK names \in SUBSET Unmanaged : Removes(names)
    BY <1>12 DEF PruneFails
  <2>2. /\ pc = "prune" /\ pc' = "idle" /\ how' = "failed"
        /\ UNCHANGED <<op, found, skipped, staged, committed>>
    BY <1>12, <2>1 DEF PruneFails, Answer, Removes, planVars
  <2>3. ~changed' => ~changed /\ disk' = Without({})
    BY <2>1 DEF Removes
  <2>4. disk' \in [Names -> Contents \cup {Absent}]
    BY <2>1 DEF Removes, Without
  <2>5. ~changed' => \A n \in Names : disk'[n] = disk[n]
    BY <2>3 DEF Without
  <2>6. AbortLeavesDirectory'
    BY <2>2, <2>3, <2>5 DEF AbortLeavesDirectory, PlanInv, FoundInv, Temps
  <2>7. PlanInv'
    BY <2>2, <2>3 DEF PlanInv
  <2> QED
    BY <2>2, <2>4, <2>6, <2>7 DEF PlaceInv, FoundInv, SyncedIsOnDisk
<1>13. CASE AnswerUnchanged \/ ConfirmReload \/ ReadConfigz \/ ReadFailures \/ TimedOut
  BY <1>13 DEF AnswerUnchanged, ConfirmReload, ReadConfigz, ReadFailures, TimedOut, Answer, Continue,
               PlanInv, PlaceInv, FoundInv, SyncedIsOnDisk, AbortLeavesDirectory, Bundle, Planned,
               planVars, history
<1>14. CASE Reload \/ DaemonStops \/ DaemonStarts \/ Crash
  <2>1. CASE Reload \/ DaemonStops \/ DaemonStarts
    BY <2>1, SyncQuiet DEF Reload, DaemonStops, DaemonStarts, handlerVars, planVars, history
  <2>2. CASE Crash
    BY <2>2 DEF Crash, planVars, history, PlanInv, PlaceInv, FoundInv, SyncedIsOnDisk,
                AbortLeavesDirectory, Bundle
  <2> QED
    BY <1>14, <2>1, <2>2
<1> QED
  BY <1>1, <1>2, <1>3, <1>4, <1>5, <1>6, <1>7, <1>8, <1>9, <1>10, <1>11, <1>12, <1>13, <1>14
  DEF Next, HandlerStep

\* Whatever is staged, skipped, renamed or left by an earlier push, a sync that
\* was reported done put the bundle on disk, and in full (manager.go:54-68).
THEOREM SyncPutsBundleOnDisk == ASSUME NoCollision PROVE Spec => []SyncedIsOnDisk
<1>1. SyncInv /\ [Next]_vars => SyncInv'
  <2>1. CASE UNCHANGED vars
    BY <2>1, SyncQuiet DEF vars, handlerVars, planVars, history
  <2> QED
    BY <2>1, SyncStep
<1>2. SyncInv => SyncedIsOnDisk
  BY DEF SyncInv
<1> QED
  BY <1>1, <1>2, InitSync, PTL DEF Spec

\* A push that fails before it renames anything leaves the directory as it
\* found it (manager.go:8-10).
THEOREM AbortChangesNothing == ASSUME NoCollision PROVE Spec => []AbortLeavesDirectory
<1>1. SyncInv /\ [Next]_vars => SyncInv'
  <2>1. CASE UNCHANGED vars
    BY <2>1, SyncQuiet DEF vars, handlerVars, planVars, history
  <2> QED
    BY <2>1, SyncStep
<1>2. SyncInv => AbortLeavesDirectory
  BY DEF SyncInv
<1> QED
  BY <1>1, <1>2, InitSync, PTL DEF Spec
-----------------------------------------------------------------------------
(* What the daemon can have done since the snapshot. *)

DaemonTypeInv ==
    /\ active \in Loadable /\ failures \in Nat /\ pending \in BOOLEAN /\ up \in BOOLEAN
    /\ before \in [version : Configs \cup {Unknown}, failures : Nat] /\ pc \in PC

\* It is as it was when the push began ...
AsBefore == active = before.version /\ failures = before.failures

\* ... or has looked at the directory of now, and took it or refused it.
Took    == ~pending /\ active = LiveConfig /\ failures = 0
Refused == ~pending /\ LiveConfig \notin Loadable /\ active = before.version

SteadyInv ==
    steady =>
        /\ up
        /\ pc = "metrics" => ~pending /\ active = before.version /\ before.failures = 0
        /\ pc \in Early => ~pending /\ AsBefore
        /\ pc \in {"commit", "prune"} => AsBefore
        /\ pc \in Late => AsBefore \/ Took \/ Refused
        /\ pc = "idle" /\ how = "moved" => ~pending /\ active = LiveConfig
        /\ pc = "idle" /\ how = "rejected" => LiveConfig \notin Loadable

DaemonInv == DaemonTypeInv /\ SteadyInv /\ (pc # "idle" => how = "none")

LEMMA InitDaemon == Init => DaemonInv
<1> SUFFICES ASSUME Init PROVE DaemonInv
  OBVIOUS
<1>1. DaemonTypeInv
  BY DEF Init, DaemonTypeInv, PC
<1>2. SteadyInv /\ how = "none"
  BY DEF Init, SteadyInv
<1> QED
  BY <1>1, <1>2 DEF DaemonInv

LEMMA DaemonStep == DaemonInv /\ [Next]_vars => DaemonInv'
<1> SUFFICES ASSUME DaemonInv, [Next]_vars PROVE DaemonInv'
  OBVIOUS
<1> USE DEF DaemonInv, DaemonTypeInv, PC, Early, Late, AsBefore
<1>1. ASSUME NEW b \in Bundles, Push(b) PROVE DaemonInv'
  <2>1. /\ pc' \in {"metrics", "prepare"} /\ how' = "none"
        /\ pc' = "metrics" \/ ~steady'
        /\ steady' => up /\ ~pending /\ before'.version = active /\ before'.failures = 0
    <3>1. CASE pending
      BY <1>1, <3>1 DEF Push
    <3>2. CASE ~pending
      BY <1>1, <3>2 DEF Push
    <3> QED
      BY <3>1, <3>2
  <2>2. before' \in [version : Configs \cup {Unknown}, failures : Nat]
    BY <1>1 DEF Push
  <2>3. UNCHANGED daemonVars
    BY <1>1 DEF Push
  <2> QED
    BY <2>1, <2>2, <2>3 DEF daemonVars, SteadyInv
<1>2. CASE SnapshotFailures
  <2>1. /\ before' \in [version : Configs \cup {Unknown}, failures : Nat]
        /\ before'.version = before.version
        /\ before'.failures = failures \/ before' = before
    BY <1>2 DEF SnapshotFailures
  <2>2. steady' => steady /\ (before'.failures = failures \/ (failures = 0 /\ before' = before))
    <3>1. CASE before' = [before EXCEPT !.failures = failures] /\ steady' = steady
      <4>1. before'.failures = failures
        BY <3>1
      <4> QED
        BY <3>1, <4>1
    <3>2. CASE before' = before /\ steady' = (steady /\ failures = 0)
      BY <3>2, Zenon
    <3> QED
      BY <1>2, <3>1, <3>2 DEF SnapshotFailures
  <2>3. pc = "metrics" /\ pc' = "prepare" /\ UNCHANGED <<daemonVars, how>>
    BY <1>2 DEF SnapshotFailures
  <2> QED
    BY <2>1, <2>2, <2>3 DEF daemonVars, SteadyInv
<1>3. ASSUME NEW p \in Files, Skip(p) \/ Stage(p) PROVE DaemonInv'
  BY <1>3 DEF Skip, Stage, daemonVars, history, SteadyInv
<1>4. ASSUME NEW p \in Files, Rename(p) PROVE DaemonInv'
  BY <1>4 DEF Rename, history, SteadyInv
<1>5. CASE PrepareFails \/ Rejected \/ RenameFails
  BY <1>5 DEF PrepareFails, Rejected, RenameFails, Answer, daemonVars, SteadyInv
<1>6. CASE Prepared \/ Committed \/ \E looks \in BOOLEAN : Validated(looks)
  BY <1>6 DEF Prepared, Validated, Committed, Continue, daemonVars, history, SteadyInv
<1>7. CASE Prune
  BY <1>7 DEF Prune, Removes, Continue, history, SteadyInv
<1>8. CASE PruneFails
  BY <1>8 DEF PruneFails, Removes, Answer, SteadyInv
<1>9. CASE AnswerUnchanged \/ ConfirmReload \/ TimedOut
  BY <1>9 DEF AnswerUnchanged, ConfirmReload, TimedOut, Answer, Continue, daemonVars, history, SteadyInv,
              Took, Refused, LiveConfig
<1>10. CASE ReadConfigz
  <2>1. UNCHANGED <<disk, daemonVars, before, steady>> /\ pc = "poll"
    BY <1>10 DEF ReadConfigz, Answer, Continue, history
  <2>2. CASE pc' = "gauge" /\ how' = how
    BY <2>1, <2>2 DEF daemonVars, SteadyInv, Took, Refused, LiveConfig
  <2>3. CASE pc' = "idle" /\ how' = "moved" /\ Moved
    BY <2>1, <2>3 DEF daemonVars, SteadyInv, Took, Refused, LiveConfig, Moved
  <2> QED
    BY <1>10, <2>2, <2>3 DEF ReadConfigz, Answer, Continue, history
<1>11. CASE ReadFailures
  <2>1. UNCHANGED <<disk, daemonVars, before, steady>> /\ pc = "gauge"
    BY <1>11 DEF ReadFailures, Answer, Continue, history
  <2>2. CASE pc' = "poll" /\ how' = how
    BY <2>1, <2>2 DEF daemonVars, SteadyInv, Took, Refused, LiveConfig
  <2>3. CASE pc' = "idle" /\ how' = "rejected" /\ Advanced
    BY <2>1, <2>3 DEF daemonVars, SteadyInv, Took, Refused, LiveConfig, Advanced
  <2> QED
    BY <1>11, <2>2, <2>3 DEF ReadFailures, Answer, Continue, history
<1>12. CASE Reload
  <2>1. /\ UNCHANGED <<disk, pc, before, how, steady, up>> /\ LiveConfig' = LiveConfig
        /\ pending /\ pending' = FALSE /\ pc \notin {"commit", "prune"}
    BY <1>12 DEF Reload, handlerVars, history, LiveConfig
  <2>2. CASE LiveConfig \in Loadable /\ active' = LiveConfig /\ failures' = 0
    BY <2>1, <2>2 DEF SteadyInv, Took, Refused
  <2>3. CASE LiveConfig \notin Loadable /\ UNCHANGED active /\ failures' = failures + 1
    <3>1. DaemonTypeInv'
      <4>1. failures' \in Nat
        BY <2>3
      <4>2. active' \in Loadable /\ pending' \in BOOLEAN
        BY <2>1, <2>3
      <4> QED
        BY <2>1, <4>1, <4>2
    <3>2. LiveConfig' \notin Loadable
      BY <2>1, <2>3
    <3>3. SteadyInv'
      BY <2>1, <2>3, <3>2 DEF SteadyInv, Took, Refused
    <3> QED
      BY <2>1, <3>1, <3>3
  <2> QED
    BY <1>12, <2>2, <2>3 DEF Reload
<1>13. CASE DaemonStops \/ DaemonStarts \/ Crash
  <2>1. CASE DaemonStops
    BY <2>1 DEF DaemonStops, handlerVars, SteadyInv
  <2>2. CASE DaemonStarts
    <3>1. /\ ~steady /\ UNCHANGED <<pc, before, how, steady>>
          /\ up' = TRUE /\ pending' = FALSE
      BY <2>2 DEF DaemonStarts, handlerVars, history, SteadyInv
    <3>2. active' \in Loadable /\ failures' \in Nat
      BY <2>2 DEF DaemonStarts
    <3> QED
      BY <3>1, <3>2 DEF SteadyInv
  <2>3. CASE Crash
    BY <2>3 DEF Crash, daemonVars, history, SteadyInv
  <2> QED
    BY <1>13, <2>1, <2>2, <2>3
<1>14. CASE UNCHANGED vars
  BY <1>14 DEF vars, daemonVars, handlerVars, history, SteadyInv, Took, Refused, LiveConfig
<1> QED
  BY <1>1, <1>2, <1>3, <1>4, <1>5, <1>6, <1>7, <1>8, <1>9, <1>10, <1>11, <1>12, <1>13, <1>14
  DEF Next, HandlerStep

\* As long as the snapshot holds, a version that moved is the pushed config
\* loaded, and a counter that advanced its rejection (reload.go:83-101).
THEOREM ConfirmationIsTruthful == Spec => []ConfirmedIsReal
<1>1. DaemonInv => ConfirmedIsReal
  BY DEF DaemonInv, SteadyInv, ConfirmedIsReal
<1> QED
  BY <1>1, InitDaemon, DaemonStep, PTL DEF Spec
-----------------------------------------------------------------------------
(* What the validator saw.  It is given what is staged and what is skipped,  *)
(* and these are the bundle's files at two places; after the commit and a    *)
(* full sync they are all there is.  So LoadInv need not mention the disk.   *)

BundleConfig == [f \in ConfigFiles |-> IF f \in Bundle THEN Asked(f) ELSE Absent]

LoadInv ==
    /\ looked
    /\ \/ pc \in {"commit", "prune"} \cup Late
       \/ pc = "idle" /\ how \notin {"none", "failed"}
    => BundleConfig \in Loadable

LEMMA InitLoad == Init => LoadInv
BY DEF Init, LoadInv, Late

\* The validator is shown what the bundle says.
LEMMA CandidateIsBundle ==
    ASSUME SyncInv, pc = "validate" PROVE Candidate = BundleConfig
BY DEF SyncInv, TypeInv, PlanInv, PlaceInv, Early, Planned, Bundle, Candidate, BundleConfig, Asked

LEMMA LoadStep ==
    ASSUME SyncInv, LoadInv, [Next]_vars PROVE LoadInv'
<1> USE DEF LoadInv, Late
<1>0. UNCHANGED op => UNCHANGED BundleConfig
  BY DEF BundleConfig, Bundle, Asked
<1>1. ASSUME NEW b \in Bundles, Push(b) PROVE LoadInv'
  BY <1>1 DEF Push
<1>2. CASE SnapshotFailures
  BY <1>2 DEF SnapshotFailures
<1>3. ASSUME NEW p \in Files, Skip(p) \/ Stage(p) \/ Rename(p) PROVE LoadInv'
  BY <1>0, <1>3 DEF Skip, Stage, Rename, history
<1>4. CASE PrepareFails \/ Rejected \/ RenameFails \/ PruneFails
  BY <1>4 DEF PrepareFails, Rejected, RenameFails, PruneFails, Answer
<1>5. CASE Prepared
  BY <1>5 DEF Prepared, Continue
<1>6. ASSUME NEW looks \in BOOLEAN, Validated(looks) PROVE LoadInv'
  <2>1. pc = "validate" /\ UNCHANGED op /\ (looked' => Candidate \in Loadable)
    BY <1>6 DEF Validated, Continue
  <2> QED
    BY <1>0, <2>1, CandidateIsBundle
<1>7. CASE Committed
  BY <1>0, <1>7 DEF Committed, Continue, planVars
<1>8. CASE Prune
  BY <1>0, <1>8 DEF Prune, Removes, Continue, planVars
<1>9. CASE AnswerUnchanged \/ ConfirmReload \/ ReadConfigz \/ ReadFailures \/ TimedOut
  BY <1>0, <1>9 DEF AnswerUnchanged, ConfirmReload, ReadConfigz, ReadFailures, TimedOut, Answer,
                    Continue, planVars
<1>10. CASE Reload \/ DaemonStops \/ DaemonStarts
  BY <1>0, <1>10 DEF Reload, DaemonStops, DaemonStarts, handlerVars, planVars, history
<1>11. CASE Crash
  BY <1>11 DEF Crash, history, SyncInv, PlanInv
<1>12. CASE UNCHANGED vars
  BY <1>0, <1>12 DEF vars, handlerVars, planVars, history
<1> QED
  BY <1>1, <1>2, <1>3, <1>4, <1>5, <1>6, <1>7, <1>8, <1>9, <1>10, <1>11, <1>12
  DEF Next, HandlerStep

\* A full sync that the validator looked at leaves a directory the daemon loads,
\* however the bundle was split into staged and skipped files and whatever lay
\* there before (validate.go:40-49, manager.go:54-68).
THEOREM ValidatedSyncLoads == ASSUME NoCollision PROVE Spec => []ValidatedLoads
<1>1. Init => SyncInv /\ LoadInv
  BY InitSync, InitLoad
<1>2. SyncInv /\ LoadInv /\ [Next]_vars => (SyncInv /\ LoadInv)'
  <2>1. CASE UNCHANGED vars
    BY <2>1, SyncQuiet, LoadStep DEF vars, handlerVars, planVars, history
  <2> QED
    BY <2>1, SyncStep, LoadStep
<1>3. ASSUME SyncInv, LoadInv, pc = "idle", how \notin {"none", "failed"}, op.full, looked
      PROVE  LiveConfig \in Loadable
  <2>1. /\ \A p \in Bundle : disk[p] = Asked(p)
        /\ \A n \in Names \ Bundle : disk[n] = Absent
    BY <1>3 DEF SyncInv, SyncedIsOnDisk
  <2>2. LiveConfig = BundleConfig
    BY <2>1 DEF LiveConfig, BundleConfig
  <2> QED
    BY <1>3, <2>2 DEF LoadInv
<1>4. SyncInv /\ LoadInv => ValidatedLoads
  BY <1>3 DEF ValidatedLoads
<1> QED
  BY <1>1, <1>2, <1>4, PTL DEF Spec
-----------------------------------------------------------------------------
(* The types; the daemon's are in DaemonTypeInv, the directory's in TypeInv. *)

RestTypeInv ==
    /\ looked \in BOOLEAN
    /\ skipped \subseteq Files /\ staged \subseteq Files /\ committed \subseteq staged
    /\ changed \in BOOLEAN /\ steady \in BOOLEAN /\ last \in Configs \cup {Unknown}
    /\ reply \in {"none", "ok", "error"} /\ how \in How
    /\ pushes \in 0..MaxPushes /\ faults \in 0..MaxFailures
    /\ crashes \in 0..MaxCrashes /\ stops \in 0..MaxStops

LEMMA InitType == Init => TypeInv /\ RestTypeInv
<1> SUFFICES ASSUME Init PROVE TypeInv /\ RestTypeInv
  OBVIOUS
<1>1. looked \in BOOLEAN /\ changed \in BOOLEAN /\ steady \in BOOLEAN
  BY Zenon DEF Init
<1>2. QED
  BY <1>1 DEF Init, TypeInv, RestTypeInv, PC, How
\* The directory and what is pushed, whatever the names of temporaries.
LEMMA DiskTypeStep == TypeInv /\ [Next]_vars => TypeInv'
<1> SUFFICES ASSUME TypeInv, [Next]_vars PROVE TypeInv'
  OBVIOUS
<1> USE DEF TypeInv, PC
<1>1. ASSUME NEW b \in Bundles, Push(b) PROVE TypeInv'
  BY <1>1 DEF Push
<1>2. CASE SnapshotFailures
  BY <1>2 DEF SnapshotFailures
<1>3. ASSUME NEW p \in Files, Skip(p) PROVE TypeInv'
  BY <1>3 DEF Skip, history
<1>4. ASSUME NEW p \in Files, Stage(p) PROVE TypeInv'
  BY <1>4 DEF Stage, Bundle, history
<1>5. CASE PrepareFails \/ Rejected \/ RenameFails
  BY <1>5 DEF PrepareFails, Rejected, RenameFails, Answer, Without
<1>6. CASE Prepared \/ Committed \/ ConfirmReload \/ \E looks \in BOOLEAN : Validated(looks)
  BY <1>6 DEF Prepared, Validated, Committed, ConfirmReload, Continue, history
<1>7. ASSUME NEW p \in Files, Rename(p) PROVE TypeInv'
  BY <1>7 DEF Rename, history
<1>8. CASE Prune \/ PruneFails
  <2>1. disk' \in [Names -> Contents \cup {Absent}]
    BY <1>8 DEF Prune, PruneFails, Removes, Without
  <2>2. QED
    BY <1>8, <2>1 DEF Prune, PruneFails, Continue, Answer, history
<1>9. CASE AnswerUnchanged \/ ReadConfigz \/ ReadFailures \/ TimedOut
  BY <1>9 DEF AnswerUnchanged, ReadConfigz, ReadFailures, TimedOut, Answer, Continue, history
<1>10. CASE Reload \/ DaemonStops \/ DaemonStarts
  BY <1>10 DEF Reload, DaemonStops, DaemonStarts, handlerVars, history
<1>11. CASE Crash
  BY <1>11 DEF Crash, history
<1>12. CASE UNCHANGED vars
  BY <1>12 DEF vars, handlerVars, history
<1>13. QED
  BY <1>1, <1>2, <1>3, <1>4, <1>5, <1>6, <1>7, <1>8, <1>9, <1>10, <1>11, <1>12 DEF Next, HandlerStep

\* The plan, the answers and the bounds.
LEMMA RestTypeStep == TypeInv /\ DaemonTypeInv /\ RestTypeInv /\ [Next]_vars => RestTypeInv'
<1> SUFFICES ASSUME TypeInv, DaemonTypeInv, RestTypeInv, [Next]_vars PROVE RestTypeInv'
  OBVIOUS
<1> USE DEF RestTypeInv, How, daemonVars, planVars, history, bounds
<1>0. /\ Loadable \subseteq Configs /\ faults + 1 \in Nat
      /\ \A b \in Bundles : DOMAIN b.files \subseteq Files
  OBVIOUS
<1>1. ASSUME NEW b \in Bundles, Push(b) PROVE RestTypeInv'
  <2>1. changed' \in BOOLEAN /\ steady' \in BOOLEAN /\ looked' \in BOOLEAN
    BY <1>1, Zenon DEF Push, DaemonTypeInv
  <2>2. QED
    BY <1>1, <2>1 DEF Push
<1>2. CASE SnapshotFailures
  <2>1. steady' \in BOOLEAN
    BY <1>2, Zenon DEF SnapshotFailures
  <2>2. QED
    BY <1>2, <2>1 DEF SnapshotFailures
<1>3. ASSUME NEW p \in Files, Skip(p) \/ Stage(p) PROVE RestTypeInv'
  BY <1>3 DEF Skip, Stage
<1>4. CASE PrepareFails \/ Rejected \/ RenameFails
  BY <1>4 DEF PrepareFails, Rejected, RenameFails, Answer, Fault
<1>5. CASE Prepared \/ Committed \/ ConfirmReload
  BY <1>5 DEF Prepared, Committed, ConfirmReload, Continue
<1>14. ASSUME NEW looks \in BOOLEAN, Validated(looks) PROVE RestTypeInv'
  <2>1. looked' \in BOOLEAN
    BY <1>14, Zenon DEF Validated
  <2>2. QED
    BY <1>14, <2>1 DEF Validated, Continue
<1>6. ASSUME NEW p \in Files, Rename(p) PROVE RestTypeInv'
  BY <1>6 DEF Rename
<1>7. CASE Prune \/ PruneFails
  <2>1. PICK names \in SUBSET Names : Removes(names)
    BY <1>7 DEF Prune, PruneFails, Unmanaged
  <2>2. changed' \in BOOLEAN
    BY <2>1, Zenon DEF Removes
  <2>3. UNCHANGED <<looked, skipped, staged, committed, last>>
    BY <2>1 DEF Removes
  <2>4. QED
    BY <1>7, <2>2, <2>3 DEF Prune, PruneFails, Continue, Answer, Fault
<1>8. CASE AnswerUnchanged \/ ReadConfigz \/ ReadFailures \/ TimedOut
  BY <1>8, <1>0 DEF AnswerUnchanged, ReadConfigz, ReadFailures, TimedOut, Answer, Continue,
     DaemonTypeInv
<1>9. CASE Reload \/ DaemonStarts
  BY <1>9 DEF Reload, DaemonStarts, handlerVars
<1>10. CASE DaemonStops
  <2>1. steady' \in BOOLEAN
    BY <1>10, Zenon DEF DaemonStops
  <2>2. QED
    BY <1>10, <2>1 DEF DaemonStops, handlerVars
<1>11. CASE Crash
  BY <1>11 DEF Crash
<1>12. CASE UNCHANGED vars
  BY <1>12 DEF vars, handlerVars
<1>13. QED
  BY <1>1, <1>2, <1>3, <1>4, <1>5, <1>6, <1>7, <1>8, <1>9, <1>10, <1>11, <1>12, <1>14 DEF Next, HandlerStep

\* Every variable keeps to its values, whatever the names of temporaries are: the daemon
\* serves a config it can load, and what is committed was staged (manager.go:98-160).
THEOREM TypeCorrect == Spec => []TypeOK
<1>1. TypeInv /\ DaemonInv /\ RestTypeInv => TypeOK
  BY DEF TypeOK, TypeInv, DaemonInv, DaemonTypeInv, RestTypeInv
<1>2. DaemonInv => DaemonTypeInv
  BY DEF DaemonInv
<1>3. QED
  BY <1>1, <1>2, InitType, InitDaemon, DiskTypeStep, DaemonStep, RestTypeStep, PTL DEF Spec
===============================================================================
