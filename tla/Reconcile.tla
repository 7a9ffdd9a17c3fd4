------------------------------- MODULE Reconcile -------------------------------
(***************************************************************************)
(* A config file the agent manages (rsyslog's 50-elchi.conf; filebeat.yml  *)
(* is the same code again) and the two goroutines that write it: the       *)
(* handler of an update command, and the reconcile loop, which puts back   *)
(* the last desired config when the live file has drifted.                 *)
(*                                                                         *)
(* Both go through UpdateConfig: under updateMu they stage the rendered    *)
(* config at one fixed temporary path, have it validated there, rename it  *)
(* onto the live file and restart the service.  The handler records what   *)
(* is desired before it takes the lock; the loop reads that record and the *)
(* live file before it takes the lock.                                     *)
(*                                                                         *)
(* A config is a member of Configs; a request and what it renders to are   *)
(* not told apart.                                                         *)
(***************************************************************************)
EXTENDS Integers

CONSTANTS
    Configs,     \* what the control plane may ask for
    Renderable,  \* those RenderConfig accepts
    Broken,      \* those the validator rejects when it runs
    Mistaken,    \* those of them whose rejection reads as if it could not run
    Foreign,     \* whatever else is in the live file: an operator's edit
    NoConfig,    \* no such file; for the service: not running on any
    MaxRequests, MaxEdits, MaxFailures, MaxCrashes   \* (bounds)

ASSUME ReconcileAssumption ==
    /\ Renderable \subseteq Configs /\ Broken \subseteq Configs /\ Mistaken \subseteq Broken
    /\ Foreign \notin Configs /\ NoConfig \notin Configs /\ Foreign # NoConfig
    /\ MaxRequests \in Nat /\ MaxEdits \in Nat /\ MaxFailures \in Nat /\ MaxCrashes \in Nat

Handler == "handler"
Loop    == "loop"
Nobody  == "nobody"
Writers == {Handler, Loop}

VARIABLES
    \* on disk
    desired,    \* the state file: the last-known-desired config
    live,       \* the file at ConfigPath
    staged,     \* the file at TempSiblingPath(ConfigPath)
    \* the host
    served,     \* the config the service was last started on
    validates,  \* the validator binary runs on this host
    \* the two goroutines
    pc,
    hand,       \* hand[p]: the config p is applying
    updateMu,   \* who holds it
    \* history
    asked,      \* what the newest update command asked for
    unrecorded, \* ... was not put on record: not yet, or it failed or was cut short
    waved,      \* the configs passed at some time by a validator that did not run
    edited,     \* the live file was edited since the last commit
    unserved,   \* an edit, a stop, or a restart that failed or was cut short, that
                \* no restart has made good since
    requests, edits, failures, crashes

hostVars   == <<served, validates>>
history    == <<asked, unrecorded, waved, edited, unserved>>
bounds     == <<requests, edits, failures, crashes>>
vars == <<desired, live, staged, hostVars, pc, hand, updateMu, history, bounds>>

\* Inside UpdateConfig, with updateMu held.
Inside == {"stage", "validate", "commit", "restart"}
Stages == {"idle", "persist", "read", "lock"} \cup Inside

Files == Configs \cup {Foreign, NoConfig}

TypeOK ==
    /\ desired \in Configs \cup {NoConfig} /\ staged \in Configs \cup {NoConfig}
    /\ live \in Files /\ served \in Files /\ validates \in BOOLEAN
    /\ pc \in [Writers -> Stages] /\ hand \in [Writers -> Configs \cup {NoConfig}]
    /\ updateMu \in Writers \cup {Nobody}
    /\ asked \in Configs \cup {NoConfig} /\ waved \subseteq Configs
    /\ unrecorded \in BOOLEAN /\ edited \in BOOLEAN /\ unserved \in BOOLEAN
    /\ requests \in 0..MaxRequests /\ edits \in 0..MaxEdits
    /\ failures \in 0..MaxFailures /\ crashes \in 0..MaxCrashes

Init ==
    /\ desired = NoConfig /\ staged = NoConfig
    /\ live \in {Foreign, NoConfig} /\ served \in {live, NoConfig}
    /\ validates \in BOOLEAN
    /\ pc = [p \in Writers |-> "idle"] /\ hand = [p \in Writers |-> NoConfig]
    /\ updateMu = Nobody
    /\ asked = NoConfig /\ unrecorded = FALSE /\ waved = {} /\ edited = FALSE
    /\ unserved = (served # live)
    /\ requests = 0 /\ edits = 0 /\ failures = 0 /\ crashes = 0

Goto(p, stage) == pc' = [pc EXCEPT ![p] = stage]
Release(p)     == updateMu' = Nobody /\ Goto(p, "idle")

Fail == failures < MaxFailures /\ failures' = failures + 1
-----------------------------------------------------------------------------
(* The handler, up to UpdateConfig. *)

\* UpdateRsyslogConfig, UpdateFilebeatConfig.
Request(c) ==
    /\ pc[Handler] = "idle" /\ requests < MaxRequests
    /\ requests' = requests + 1
    /\ asked' = c /\ unrecorded' = TRUE
    /\ hand' = [hand EXCEPT ![Handler] = c]
    /\ Goto(Handler, "persist")
    /\ UNCHANGED <<desired, live, staged, hostVars, updateMu, waved, edited, unserved,
                   edits, failures, crashes>>

\* persistDesiredIn renames a complete file into place ...
Persist ==
    /\ pc[Handler] = "persist"
    /\ desired' = hand[Handler] /\ unrecorded' = FALSE
    /\ Goto(Handler, "lock")
    /\ UNCHANGED <<live, staged, hostVars, hand, updateMu, asked, waved, edited, unserved, bounds>>

\* ... or leaves the old one: the handler only logs it and goes on.
PersistFails ==
    /\ pc[Handler] = "persist" /\ Fail
    /\ Goto(Handler, "lock")
    /\ UNCHANGED <<desired, live, staged, hostVars, hand, updateMu, history,
                   requests, edits, crashes>>
-----------------------------------------------------------------------------
(* The start, stop and restart commands.  They do not take updateMu, and so *)
(* run beside whatever the loop is at.                                      *)

Command ==
    /\ pc[Handler] = "idle" /\ requests < MaxRequests /\ requests' = requests + 1
    /\ UNCHANGED <<desired, live, staged, validates, pc, hand, updateMu, asked, unrecorded,
                   waved, edited, edits, crashes>>

\* Starting what runs changes nothing.
StartService ==
    /\ Command
    /\ served' = IF served = NoConfig THEN live ELSE served
    /\ unserved' = (unserved /\ served' # live)
    /\ UNCHANGED failures

StopService == Command /\ served' = NoConfig /\ unserved' = TRUE /\ UNCHANGED failures

RestartService == Command /\ served' = live /\ unserved' = FALSE /\ UNCHANGED failures

ServiceActionFails ==
    /\ Command /\ Fail
    /\ served' \in {served, NoConfig} /\ unserved' = TRUE
-----------------------------------------------------------------------------
(* The reconcile loop, up to UpdateConfig. *)

\* A tick, with something desired that renders; on any other the loop does
\* nothing (or logs).
Load ==
    /\ pc[Loop] = "idle" /\ desired # NoConfig /\ desired \in Renderable
    /\ hand' = [hand EXCEPT ![Loop] = desired]
    /\ Goto(Loop, "read")
    /\ UNCHANGED <<desired, live, staged, hostVars, updateMu, history, bounds>>

\* Mutant of ReadLive: only a missing file is put back.
ReassertMissing ==
    /\ pc[Loop] = "read"
    /\ Goto(Loop, IF live # NoConfig THEN "idle" ELSE "lock")
    /\ UNCHANGED <<desired, live, staged, hostVars, hand, updateMu, history, bounds>>

\* needsReassert
ReadLive ==
    /\ pc[Loop] = "read"
    /\ Goto(Loop, IF live = hand[Loop] THEN "idle" ELSE "lock")
    /\ UNCHANGED <<desired, live, staged, hostVars, hand, updateMu, history, bounds>>
-----------------------------------------------------------------------------
(* UpdateConfig and AtomicReplaceFileWithS, run by either. *)

\* Mutant of Lock: there is no mutex.
LockNot(p) ==
    /\ pc[p] = "lock" /\ hand[p] \in Renderable
    /\ updateMu' = p
    /\ Goto(p, "stage")
    /\ UNCHANGED <<desired, live, staged, hostVars, hand, history, bounds>>

Lock(p) ==
    /\ pc[p] = "lock" /\ updateMu = Nobody /\ hand[p] \in Renderable
    /\ updateMu' = p
    /\ Goto(p, "stage")
    /\ UNCHANGED <<desired, live, staged, hostVars, hand, history, bounds>>

DoesNotRender(p) ==
    /\ pc[p] = "lock" /\ updateMu = Nobody /\ hand[p] \notin Renderable
    /\ Goto(p, "idle")
    /\ UNCHANGED <<desired, live, staged, hostVars, hand, updateMu, history, bounds>>

\* Mutant of Stage: what is staged is the desired config, not the argument.
StageDesired(p) ==
    /\ pc[p] = "stage"
    /\ staged' = desired
    /\ Goto(p, "validate")
    /\ UNCHANGED <<desired, live, hostVars, hand, updateMu, history, bounds>>

\* rm, tee, chmod
Stage(p) ==
    /\ pc[p] = "stage"
    /\ staged' = hand[p]
    /\ Goto(p, "validate")
    /\ UNCHANGED <<desired, live, hostVars, hand, updateMu, history, bounds>>

\* A validator that cannot run passes everything, and so does one whose message
\* has the words of one that cannot ("no such file or directory").
Valid(c) == c # NoConfig /\ ~(validates /\ c \in Broken \ Mistaken)

Validate(p) ==
    /\ pc[p] = "validate" /\ Valid(staged)
    /\ waved' = IF validates THEN waved ELSE waved \cup {staged}
    /\ Goto(p, "commit")
    /\ UNCHANGED <<desired, live, staged, hostVars, hand, updateMu, asked, unrecorded, edited,
                   unserved, bounds>>

Rejected(p) ==
    /\ pc[p] = "validate" /\ ~Valid(staged)
    /\ staged' = NoConfig
    /\ Release(p)
    /\ UNCHANGED <<desired, live, hostVars, hand, history, bounds>>

\* Mutant of Commit: the loop puts the file back and leaves the service alone.
CommitOnly(p) ==
    /\ pc[p] = "commit" /\ staged # NoConfig
    /\ live' = staged /\ staged' = NoConfig
    /\ edited' = FALSE
    /\ IF p = Loop THEN Release(p) ELSE Goto(p, "restart") /\ UNCHANGED updateMu
    /\ UNCHANGED <<desired, hostVars, hand, asked, unrecorded, waved, unserved, bounds>>

\* mv
Commit(p) ==
    /\ pc[p] = "commit" /\ staged # NoConfig
    /\ live' = staged /\ staged' = NoConfig
    /\ edited' = FALSE
    /\ Goto(p, "restart")
    /\ UNCHANGED <<desired, hostVars, hand, updateMu, asked, unrecorded, waved, unserved,
                   bounds>>

\* Any of the commands before the rename is done may fail, or be killed.
StepFails(p) ==
    /\ pc[p] \in {"stage", "validate", "commit"} /\ Fail
    /\ staged' = NoConfig
    /\ Release(p)
    /\ UNCHANGED <<desired, live, hostVars, hand, history, requests, edits, crashes>>

\* RestartService
Restart(p) ==
    /\ pc[p] = "restart"
    /\ served' = live /\ unserved' = FALSE
    /\ Release(p)
    /\ UNCHANGED <<desired, live, staged, validates, hand, asked, unrecorded, waved, edited,
                   bounds>>

\* The service stays as it was, or is down.
RestartFails(p) ==
    /\ pc[p] = "restart" /\ Fail
    /\ served' \in {served, NoConfig} /\ unserved' = TRUE
    /\ Release(p)
    /\ UNCHANGED <<desired, live, staged, validates, hand, asked, unrecorded, waved, edited,
                   requests, edits, crashes>>
-----------------------------------------------------------------------------
(* The host. *)

\* An operator edits or deletes the live file.
Edit(f) ==
    /\ f \in {Foreign, NoConfig} /\ f # live /\ edits < MaxEdits
    /\ edits' = edits + 1
    /\ live' = f /\ edited' = TRUE /\ unserved' = TRUE
    /\ UNCHANGED <<desired, staged, hostVars, pc, hand, updateMu, asked,
                   unrecorded, waved, requests, failures, crashes>>

\* An operator installs the validator, removes it, or lets sudo run it or not.
ValidatorChanges ==
    /\ edits < MaxEdits /\ edits' = edits + 1
    /\ validates' = ~validates
    /\ UNCHANGED <<desired, live, staged, served, pc, hand, updateMu, history, requests,
                   failures, crashes>>

\* The client dies and is started again: the files stay as they are.
Crash ==
    /\ crashes < MaxCrashes
    /\ crashes' = crashes + 1
    /\ pc' = [p \in Writers |-> "idle"] /\ hand' = [p \in Writers |-> NoConfig]
    /\ updateMu' = Nobody
    /\ unserved' = (unserved \/ \E p \in Writers : pc[p] = "restart")
    /\ UNCHANGED <<desired, live, staged, hostVars, asked, unrecorded, waved, edited, requests,
                   edits, failures>>
-----------------------------------------------------------------------------
Next ==
    \/ \E c \in Configs : Request(c)
    \/ Persist
    \/ PersistFails
    \/ StartService
    \/ StopService
    \/ RestartService
    \/ ServiceActionFails
    \/ Load
    \/ ReadLive
    \/ \E p \in Writers : Lock(p)
    \/ \E p \in Writers : DoesNotRender(p)
    \/ \E p \in Writers : Stage(p)
    \/ \E p \in Writers : Validate(p)
    \/ \E p \in Writers : Rejected(p)
    \/ \E p \in Writers : Commit(p)
    \/ \E p \in Writers : StepFails(p)
    \/ \E p \in Writers : Restart(p)
    \/ \E p \in Writers : RestartFails(p)
    \/ \E f \in {Foreign, NoConfig} : Edit(f)
    \/ ValidatorChanges
    \/ Crash

Spec == Init /\ [][Next]_vars

\* A goroutine goes on when it can; the ticker ticks.  Commands, edits,
\* failures and crashes need not happen.
Fairness ==
    /\ WF_vars(Persist) /\ WF_vars(Load) /\ WF_vars(ReadLive)
    /\ \A p \in Writers :
         /\ WF_vars(Lock(p) \/ DoesNotRender(p))
         /\ WF_vars(Stage(p) \/ Validate(p) \/ Rejected(p) \/ Commit(p) \/ Restart(p))

FairSpec == Spec /\ Fairness
-----------------------------------------------------------------------------
(* Properties. *)

(* What the validator rejects as invalid becomes the live file only after   *)
(* it passed once while the validator did not run, although both goroutines *)
(* stage at the same path, the validator may come and go, and either may be *)
(* interrupted.  Mistaken rejections go live (atomic_write.go:46-82).       *)
RejectedNeverLive == live \in Broken \ Mistaken => live \in waved

(* The service is restarted on the config the caller asked for: between     *)
(* staging and restart nobody but an operator replaces it.                  *)
RestartsOnItsConfig == \A p \in Writers : pc[p] = "restart" => live = hand[p] \/ edited

(* The service runs on the live file, except between a commit and its       *)
(* restart, and until the next restart after one that failed or was cut     *)
(* short, or after an edit.                                                 *)
ServiceUpToDate == served = live \/ unserved \/ \E p \in Writers : pc[p] = "restart"

(* Once requests, edits, failures and crashes are over the live file is the *)
(* desired config for good, whatever the order in which the handler and the *)
(* loop got there - if it can be rendered and is not rejected.  That is the *)
(* config of the newest update command, even if the command itself failed,  *)
(* unless it could not be put on record.                                    *)
Fit(c) == c \in Renderable /\ Valid(c)
Converges ==
    <>[](/\ Fit(desired) => live = desired
         /\ Fit(asked) /\ ~unrecorded => live = asked)

(* rsyslog.go:40-44: the loop "always drives the live file TOWARD the       *)
(* newest request and can never momentarily revert a just-applied config".  *)
NeverReverts ==
    [][live = asked /\ live' # live => \E f \in {Foreign, NoConfig} : Edit(f)]_vars
===============================================================================
