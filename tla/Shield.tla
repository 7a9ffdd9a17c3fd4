-------------------------------- MODULE Shield --------------------------------
(***************************************************************************)
(* A push of a config bundle to elchi-shield (services/shield.go,          *)
(* operations/shield).  The agent stages every file beside the one it      *)
(* replaces, has the result validated, renames the staged files into       *)
(* place, removes what a full sync does not name, and then watches the     *)
(* daemon's management endpoint to learn whether it took the config.       *)
(*                                                                         *)
(* The daemon is external, as this code relies on it: it watches the       *)
(* directory, reloads once the burst of renames is over, keeps its         *)
(* last-good config when it rejects the new one and counts the rejections. *)
(* Its version is a hash of what it loaded, here the loaded config itself. *)
(*                                                                         *)
(* A bundle's files are a function of its paths; their order is free.      *)
(* Commands are handled one after the other (Session!OneStreamAtATime).    *)
(***************************************************************************)
EXTENDS Integers, FiniteSets

CONSTANTS
    Names,       \* file names under the directory
    Files,       \* those bundles may name
    TmpOf,       \* the sibling a file is staged in
    ConfigFiles, \* the files the daemon's loader reads, which no ".tmp" is
    Contents, Absent,
    Loadable,    \* the configs the daemon and its validator accept
    Bundles,     \* what may be pushed
    Unknown,     \* no version: the daemon was not reached
    MaxPushes, MaxFailures, MaxCrashes, MaxStops   \* (bounds)

Configs  == [ConfigFiles -> Contents \cup {Absent}]
NoConfig == [f \in ConfigFiles |-> Absent]
NoBundle == [files |-> <<>>, full |-> FALSE, sums |-> <<>>, sound |-> FALSE]

ASSUME ShieldAssumption ==
    /\ Files \subseteq Names /\ ConfigFiles \subseteq Files
    /\ TmpOf \in [Files -> Names \ ConfigFiles]
    /\ Absent \notin Contents /\ Unknown \notin Configs
    /\ Loadable \subseteq Configs /\ NoConfig \in Loadable
    /\ \A b \in Bundles :
         /\ DOMAIN b.files \subseteq Files
         /\ \A p \in DOMAIN b.files : b.files[p] \in Contents
         /\ b.full \in BOOLEAN     \* full_sync
         \* the content each file's sha256 is of, Absent without one
         /\ b.sums \in [DOMAIN b.files -> Contents \cup {Absent}]
         /\ b.sound \in BOOLEAN    \* no path twice or unsafe
    /\ MaxPushes \in Nat /\ MaxFailures \in Nat /\ MaxCrashes \in Nat /\ MaxStops \in Nat

VARIABLES
    disk,       \* the directory
    \* the daemon
    up, active, failures,   \* failures: consecutive rejections
    pending,    \* it has yet to look at a change
    \* the handler
    pc, op,
    before,     \* ShieldState, read before the push
    skipped, staged, committed,   \* the paths of plan
    looked,     \* the validator was shown it, and accepted
    changed,
    last,       \* the version last read while polling
    \* history
    reply,      \* of the last push: "none", "ok", "error"
    how,        \* what that rests on
    found,      \* the directory as the push found it
    steady,     \* the snapshot holds what it should, no change was pending when it
                \* was taken, and the daemon did not stop since
    pushes, faults, crashes, stops

daemonVars  == <<up, active, failures, pending>>
planVars    == <<skipped, staged, committed, looked>>
handlerVars == <<pc, op, before, planVars, changed, last>>
history     == <<reply, how, found, steady>>
bounds      == <<pushes, faults, crashes, stops>>
vars == <<disk, daemonVars, handlerVars, history, bounds>>

PC  == {"idle", "metrics", "prepare", "validate", "commit", "prune", "confirm", "poll", "gauge"}
How == {"none", "failed", "moved", "snapshot", "rejected", "timeout", "unconfirmed"}

TypeOK ==
    /\ disk \in [Names -> Contents \cup {Absent}] /\ found \in [Names -> Contents \cup {Absent}]
    /\ up \in BOOLEAN /\ pending \in BOOLEAN /\ looked \in BOOLEAN
    /\ active \in Loadable /\ failures \in Nat
    /\ pc \in PC /\ op \in Bundles \cup {NoBundle} /\ (pc # "idle" => op \in Bundles)
    /\ before \in [version : Configs \cup {Unknown}, failures : Nat]
    /\ skipped \subseteq Files /\ staged \subseteq Files /\ committed \subseteq staged
    /\ changed \in BOOLEAN /\ steady \in BOOLEAN /\ last \in Configs \cup {Unknown}
    /\ reply \in {"none", "ok", "error"} /\ how \in How
    /\ pushes \in 0..MaxPushes /\ faults \in 0..MaxFailures
    /\ crashes \in 0..MaxCrashes /\ stops \in 0..MaxStops

LiveConfig == [f \in ConfigFiles |-> disk[f]]
Bundle     == DOMAIN op.files
Planned    == skipped \cup staged
Without(names) == [n \in Names |-> IF n \in names THEN Absent ELSE disk[n]]
Temps(paths)   == {TmpOf[p] : p \in paths}

Init ==
    /\ disk = [n \in Names |-> Absent] /\ found = disk
    /\ up = TRUE /\ active = NoConfig /\ failures = 0 /\ pending = FALSE
    /\ pc = "idle" /\ op = NoBundle /\ before = [version |-> Unknown, failures |-> 0]
    /\ skipped = {} /\ staged = {} /\ committed = {} /\ looked = FALSE
    /\ changed = FALSE /\ last = Unknown
    /\ reply = "none" /\ how = "none" /\ steady = FALSE
    /\ pushes = 0 /\ faults = 0 /\ crashes = 0 /\ stops = 0

Fault == faults < MaxFailures /\ faults' = faults + 1

Answer(r, reason) ==
    /\ pc' = "idle" /\ reply' = r /\ how' = reason
    /\ UNCHANGED <<op, found, steady, pushes, crashes, stops>>
Continue(next) ==
    /\ pc' = next
    /\ UNCHANGED <<op, history, bounds>>
-----------------------------------------------------------------------------
(* SnapshotState: the version, and if it could be had the failure counter. *)
Push(b) ==
    /\ pc = "idle" /\ pushes < MaxPushes /\ pushes' = pushes + 1
    /\ op' = b /\ found' = disk /\ reply' = "none" /\ how' = "none"
    /\ skipped' = {} /\ staged' = {} /\ committed' = {} /\ looked' = FALSE
    /\ changed' = FALSE /\ last' = Unknown
    /\ \/ /\ up /\ pc' = "metrics" /\ before' = [version |-> active, failures |-> 0]
          /\ steady' = ~pending
       \/ /\ pc' = "prepare" /\ before' = [version |-> Unknown, failures |-> 0]
          /\ steady' = FALSE
    /\ UNCHANGED <<disk, daemonVars, faults, crashes, stops>>

SnapshotFailures ==
    /\ pc = "metrics"
    /\ \/ up /\ before' = [before EXCEPT !.failures = failures] /\ UNCHANGED steady
       \/ UNCHANGED before /\ steady' = (steady /\ failures = 0)
    /\ pc' = "prepare"
    /\ UNCHANGED <<disk, daemonVars, op, planVars, changed, last, reply, how, found, bounds>>
-----------------------------------------------------------------------------
(* PREPARE *)
\* Mutant of AlreadyThere: a file of that name is taken for the file.
AlreadyNamed(p) == op.sums[p] # Absent /\ disk[p] # Absent

\* The sha256 is compared with the file's, whatever content the bundle carries.
AlreadyThere(p) == op.sums[p] # Absent /\ disk[p] = op.sums[p]

WrongSum(p) == op.sums[p] \notin {Absent, op.files[p]}

Skip(p) ==
    /\ pc = "prepare" /\ p \in Bundle \ Planned /\ AlreadyThere(p)
    /\ skipped' = skipped \cup {p}
    /\ UNCHANGED <<disk, daemonVars, pc, op, before, staged, committed, looked, changed, last,
                   history, bounds>>

Stage(p) ==
    /\ pc = "prepare" /\ p \in Bundle \ Planned /\ ~AlreadyThere(p) /\ ~WrongSum(p)
    /\ disk' = [disk EXCEPT ![TmpOf[p]] = op.files[p]]
    /\ staged' = staged \cup {p}
    /\ UNCHANGED <<daemonVars, pc, op, before, skipped, committed, looked, changed, last, history,
                   bounds>>

\* A file cannot be written, fetched or verified, or the bundle is not sound:
\* what was staged is removed, and what that file had written.
PrepareFails ==
    /\ pc = "prepare"
    /\ IF op.sound /\ \A p \in Bundle \ Planned : WrongSum(p) => AlreadyThere(p)
         THEN Fault ELSE UNCHANGED faults
    /\ \E p \in Bundle : disk' \in {Without(Temps(staged)), Without(Temps(staged \cup {p}))}
    /\ Answer("error", "failed")
    /\ UNCHANGED <<daemonVars, before, planVars, changed, last>>

Prepared ==
    /\ pc = "prepare" /\ Planned = Bundle /\ op.sound
    /\ Continue("validate")
    /\ UNCHANGED <<disk, daemonVars, before, planVars, changed, last>>

\* Mutant of Candidate: what is skipped is not shown to the validator.
CandidateStaged ==
    [f \in ConfigFiles |-> IF f \in staged THEN disk[TmpOf[f]] ELSE Absent]

\* The config files among the bundle's, in a directory of their own.
Candidate ==
    [f \in ConfigFiles |-> IF f \in staged THEN disk[TmpOf[f]]
                           ELSE IF f \in skipped THEN disk[f] ELSE Absent]

\* The validator accepts; or does not look, there being nothing for it to look
\* at, no binary, or a step of preparing it that failed.
Validated(looks) ==
    /\ pc = "validate"
    /\ looks => Bundle \cap ConfigFiles # {} /\ Candidate \in Loadable
    /\ looked' = looks
    /\ Continue("commit")
    /\ UNCHANGED <<disk, daemonVars, before, skipped, staged, committed, changed, last>>

\* Mutant of Rejected: the staged files stay.
RejectedLeavesStaged ==
    /\ pc = "validate"
    /\ Bundle \cap ConfigFiles # {}
    /\ IF Candidate \in Loadable THEN Fault ELSE UNCHANGED faults
    /\ Answer("error", "failed")
    /\ UNCHANGED <<disk, daemonVars, before, planVars, changed, last>>

\* It rejects; or it took too long, and that it was killed counts as well.
Rejected ==
    /\ pc = "validate"
    /\ Bundle \cap ConfigFiles # {}
    /\ IF Candidate \in Loadable THEN Fault ELSE UNCHANGED faults
    /\ disk' = Without(Temps(staged))
    /\ Answer("error", "failed")
    /\ UNCHANGED <<daemonVars, before, planVars, changed, last>>
-----------------------------------------------------------------------------
(* COMMIT *)
Rename(p) ==
    /\ pc = "commit" /\ p \in staged \ committed /\ disk[TmpOf[p]] # Absent
    /\ disk' = [disk EXCEPT ![p] = disk[TmpOf[p]], ![TmpOf[p]] = Absent]
    /\ committed' = committed \cup {p}
    /\ changed' = TRUE /\ pending' = TRUE
    /\ UNCHANGED <<up, active, failures, pc, op, before, skipped, staged, looked, last, history,
                   bounds>>

\* A rename fails: what was renamed stays, the rest is removed.
RenameFails ==
    /\ pc = "commit"
    /\ \E p \in staged \ committed : IF disk[TmpOf[p]] # Absent THEN Fault ELSE UNCHANGED faults
    /\ disk' = Without(Temps(staged \ committed))
    /\ Answer("error", "failed")
    /\ UNCHANGED <<daemonVars, before, planVars, changed, last>>

Committed ==
    /\ pc = "commit" /\ committed = staged
    /\ Continue(IF op.full THEN "prune" ELSE "confirm")
    /\ UNCHANGED <<disk, daemonVars, before, planVars, changed, last>>

\* pruneUnmanaged
Unmanaged == {n \in Names : disk[n] # Absent /\ n \notin Bundle}

Removes(names) ==
    /\ disk' = Without(names)
    /\ changed' = (changed \/ names # {}) /\ pending' = (pending \/ names # {})
    /\ UNCHANGED <<up, active, failures, before, planVars, last>>

Prune ==
    /\ pc = "prune"
    /\ Removes(Unmanaged)
    /\ Continue("confirm")

PruneFails ==
    /\ pc = "prune"
    /\ \E left \in SUBSET Unmanaged : left # {} /\ Removes(Unmanaged \ left)
    /\ Fault
    /\ Answer("error", "failed")
-----------------------------------------------------------------------------
(* Nothing changed on disk: the answer is taken from the snapshot.  Or      *)
(* ConfirmReload polls.                                                     *)
FromSnapshot == ~changed /\ before.version \notin {Unknown, NoConfig}

AnswerUnchanged ==
    /\ pc = "confirm" /\ FromSnapshot
    /\ Answer("ok", "snapshot")
    /\ UNCHANGED <<disk, daemonVars, before, planVars, changed, last, faults>>

ConfirmReload ==
    /\ pc = "confirm" /\ ~FromSnapshot
    /\ Continue("poll")
    /\ UNCHANGED <<disk, daemonVars, before, planVars, changed, last>>

\* Mutant of Moved: any version that is read counts.
MovedFromAny == active # NoConfig

Moved == active \notin {NoConfig, before.version}

ReadConfigz ==
    /\ pc = "poll"
    /\ \/ up /\ Moved /\ last' = active /\ Answer("ok", "moved") /\ UNCHANGED faults
       \/ up /\ ~Moved /\ last' = active /\ Continue("gauge")
       \/ UNCHANGED last /\ Continue("gauge")
    /\ UNCHANGED <<disk, daemonVars, before, planVars, changed>>

Advanced == up /\ failures > before.failures

ReadFailures ==
    /\ pc = "gauge"
    /\ \/ Advanced /\ Answer("error", "rejected") /\ UNCHANGED faults
       \/ Continue("poll")
    /\ UNCHANGED <<disk, daemonVars, before, planVars, changed, last>>

\* The deadline has passed, or the context is cancelled.
TimedOut ==
    /\ pc = "gauge"
    /\ \/ last \notin {Unknown, NoConfig} /\ Answer("ok", "timeout")
       \/ Answer("error", "unconfirmed")
    /\ UNCHANGED <<disk, daemonVars, before, planVars, changed, last, faults>>
-----------------------------------------------------------------------------
(* The daemon, and the death of the agent. *)
Reload ==
    /\ up /\ pending /\ pc \notin {"commit", "prune"}
    /\ pending' = FALSE
    /\ IF LiveConfig \in Loadable
         THEN active' = LiveConfig /\ failures' = 0
         ELSE UNCHANGED active /\ failures' = failures + 1
    /\ UNCHANGED <<disk, up, handlerVars, history, bounds>>

DaemonStops ==
    /\ up /\ stops < MaxStops /\ stops' = stops + 1
    /\ up' = FALSE /\ steady' = FALSE
    /\ UNCHANGED <<disk, active, failures, pending, handlerVars, reply, how, found,
                   pushes, faults, crashes>>

DaemonStarts ==
    /\ ~up /\ up' = TRUE /\ pending' = FALSE
    /\ IF LiveConfig \in Loadable
         THEN active' = LiveConfig /\ failures' = 0
         ELSE active' = NoConfig /\ failures' = 1
    /\ UNCHANGED <<disk, handlerVars, history, bounds>>

Crash ==
    /\ pc # "idle" /\ crashes < MaxCrashes /\ crashes' = crashes + 1
    /\ pc' = "idle"
    /\ UNCHANGED <<disk, daemonVars, op, before, planVars, changed, last, history, pushes, faults,
                   stops>>

HandlerStep ==
    \/ SnapshotFailures
    \/ \E p \in Files : Skip(p) \/ Stage(p) \/ Rename(p)
    \/ PrepareFails \/ Prepared \/ Rejected
    \/ \E looks \in BOOLEAN : Validated(looks)
    \/ RenameFails \/ Committed \/ Prune \/ PruneFails
    \/ AnswerUnchanged \/ ConfirmReload \/ ReadConfigz \/ ReadFailures \/ TimedOut

Next == \/ \E b \in Bundles : Push(b)
        \/ HandlerStep
        \/ Reload \/ DaemonStops \/ DaemonStarts
        \/ Crash

Spec == Init /\ [][Next]_vars
-----------------------------------------------------------------------------
(* Properties. *)

\* No bundle names a file that another one is staged in.  The first two
\* properties need it: a file that is called as another's temporary is written
\* before the commit, and may be renamed away (manager.go:118, 143).
NoCollision ==
    \A p \in Files : TmpOf[p] \notin Files /\ \A q \in Files : TmpOf[p] = TmpOf[q] => p = q

\* A push that failed before its first rename, while staging or on the
\* validator's verdict, leaves every file as it was; at most a stray ".tmp" of
\* an earlier crash is gone (manager.go:8-10, 58-60).
AbortLeavesDirectory ==
    pc = "idle" /\ how = "failed" /\ ~changed =>
        \A n \in Names : disk[n] = found[n] \/ (n \in Temps(Files) \ Files /\ disk[n] = Absent)

\* What a bundle asks of a file: what its sha256 is of, which counts more than
\* the content beside it (a file that has it already is not looked at again).
Asked(p) == IF op.sums[p] # Absent THEN op.sums[p] ELSE op.files[p]

\* After a push that is answered with anything but a failed sync, by whichever
\* way through skipping and staging, each file is what the bundle asks, and
\* after a full sync there is nothing else, strays included (manager.go:54-68).
SyncedIsOnDisk ==
    pc = "idle" /\ how \notin {"none", "failed"} =>
        /\ \A p \in Bundle : disk[p] = Asked(p)
        /\ op.full => \A n \in Names \ Bundle : disk[n] = Absent

\* A full sync that the validator looked at leaves a directory the daemon
\* loads: what was validated is what came to be there (validate.go:40-49).
ValidatedLoads ==
    pc = "idle" /\ how \notin {"none", "failed"} /\ op.full /\ looked =>
        LiveConfig \in Loadable

\* What polling saw is so: if the snapshot was read, with nothing left for the
\* daemon to look at, and the daemon stayed up, a version that moved is the
\* pushed config, and a counter that advanced is its rejection
\* (reload.go:83-101).
ConfirmedIsReal ==
    pc = "idle" /\ steady =>
        /\ how = "moved" => active = LiveConfig
        /\ how = "rejected" => LiveConfig \notin Loadable
=============================================================================
