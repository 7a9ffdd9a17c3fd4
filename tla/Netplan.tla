-------------------------------- MODULE Netplan --------------------------------
(***************************************************************************)
(* Applying a netplan configuration (operations/network/netplan.go): back  *)
(* up the file, overwrite it, run "netplan apply", and in monitored mode   *)
(* watch whether the controller can still be reached and roll back if not. *)
(*                                                                         *)
(* netplan is external.  "netplan apply" is a process that reads the file  *)
(* at some moment and brings it into effect at a later one; one that a     *)
(* monitored command stopped waiting for runs on, beside the rollback and  *)
(* later commands.  "netplan try" waits for someone to confirm, which the  *)
(* agent does not, and then goes back to what was in effect.               *)
(*                                                                         *)
(* A command's monitor is heard only while that command waits; whatever    *)
(* it does afterwards is left out.  Timers may expire at any time.         *)
(*                                                                         *)
(* NetworkProofs extends this module and Routing: names that both would    *)
(* have, NetplanInit and others, tell whose they are.                      *)
(***************************************************************************)
EXTENDS Integers

CONSTANTS
    Contents,        \* of the configuration file
    Absent,
    Forbidden,       \* not YAML, or with routes in it: refused by the agent
    Broken,          \* what a write that was cut short leaves
    Rejected,        \* netplan cannot read these
    Reaching,        \* the controller is reached with these in effect
    MaxFailedChecks,
    MaxCommands, MaxFails, MaxEdits, MaxKills   \* (bounds)

ASSUME NetplanAssumption ==
    /\ Absent \notin Contents /\ Forbidden \subseteq Contents
    /\ Broken \in Rejected /\ Rejected \subseteq Contents
    /\ Reaching \subseteq Contents \cup {Absent}
    /\ MaxFailedChecks \in Nat \ {0} /\ MaxCommands \in Nat
    /\ MaxFails \in Nat /\ MaxEdits \in Nat /\ MaxKills \in Nat

VARIABLES
    yaml, backup,
    applied,    \* the configuration in effect
    proc,       \* the netplan process of each command, and of its rollback
    \* the handler
    step, mode, asked,
    \* its monitor
    monitor, passed, failed,   \* passed, failed: checks in a row
    watches,    \* whose address it found
    \* history
    how,        \* what the last command was answered; while it rolls back, will be
    undone,     \* its rollback came to its end
    found,      \* the file when it began
    overtaken,  \* another process took effect after its own
    checked,    \* the controller was tried since applied was last set
    commands, fails, edits, kills

yamlVars    == <<yaml, backup>>
handlerVars == <<mode, asked>>
monitorVars == <<monitor, passed, failed, watches>>
answerVars  == <<how, undone>>
effectVars  == <<applied, overtaken, checked>>
bounds      == <<fails, edits, kills>>
netplanVars == <<yamlVars, effectVars, proc, step, handlerVars, monitorVars, answerVars, found,
                commands, bounds>>

Configs  == Contents \cup {Absent}
Modes    == {"direct", "try", "monitored", "rollback"}
Procs    == (1..MaxCommands) \X {"apply", "rollback"}
Idle     == [state |-> "none", config |-> Absent]
PC  == {"idle", "validate", "backup", "write", "start", "await", "try", "select",
        "monitor", "restore", "reapply"}
How == {"none", "ok", "failed", "rolledback"}
Watched == {"controller", "other", "nothing"}

NetplanTypeOK ==
    /\ yaml \in Configs /\ backup \in Configs /\ applied \in Configs
    /\ proc \in [Procs -> [state : {"none", "started", "generated", "trying", "ok", "failed"},
                           config : Configs]]
    /\ step \in PC /\ mode \in Modes /\ asked \in Contents
    /\ monitor \in {"none", "checking", "ok", "failed"}
    /\ passed \in 0..2 /\ failed \in 0..MaxFailedChecks /\ watches \in Watched
    /\ how \in How /\ undone \in BOOLEAN /\ found \in Configs
    /\ overtaken \in BOOLEAN /\ checked \in BOOLEAN
    /\ commands \in 0..MaxCommands /\ fails \in 0..MaxFails
    /\ edits \in 0..MaxEdits /\ kills \in 0..MaxKills

MyApply    == <<commands, "apply">>
MyRollback == <<commands, "rollback">>
Latest(p)  == \/ p = MyRollback
              \/ p = MyApply /\ proc[MyRollback] = Idle
Reachable  == applied \in Reaching

NetplanInit ==
    /\ yaml \in Configs \ Rejected /\ applied = yaml /\ backup = Absent
    /\ proc = [p \in Procs |-> Idle]
    /\ step = "idle" /\ mode = "direct" /\ asked = Broken
    /\ monitor = "none" /\ passed = 0 /\ failed = 0 /\ watches = "nothing"
    /\ how = "none" /\ undone = FALSE /\ found = yaml
    /\ overtaken = FALSE /\ checked = FALSE
    /\ commands = 0 /\ fails = 0 /\ edits = 0 /\ kills = 0

Fails == fails < MaxFails /\ fails' = fails + 1 /\ UNCHANGED <<edits, kills>>

Answer(outcome) == step' = "idle" /\ how' = outcome
StopListening   == monitor' = "none" /\ passed' = 0 /\ failed' = 0 /\ UNCHANGED watches
-----------------------------------------------------------------------------
(* The handler. *)
BeginCommand(m, config) ==
    /\ step = "idle" /\ commands < MaxCommands /\ commands' = commands + 1
    /\ mode' = m /\ asked' = config /\ found' = yaml /\ how' = "none" /\ undone' = FALSE
    /\ UNCHANGED <<yamlVars, effectVars, proc, monitorVars, bounds>>

Apply(config, m) == m # "rollback" /\ BeginCommand(m, config) /\ step' = "validate"

Rollback == BeginCommand("rollback", asked) /\ step' = "restore"

\* "netplan generate" may fail, but what it looks at is not the file.
ValidateConfig ==
    /\ step = "validate"
    /\ \/ asked \notin Forbidden /\ step' = "backup" /\ UNCHANGED <<how, bounds>>
       \/ asked \in Forbidden /\ Answer("failed") /\ UNCHANGED bounds
       \/ Fails /\ Answer("failed")
    /\ UNCHANGED <<yamlVars, effectVars, proc, handlerVars, monitorVars, undone, found, commands>>

\* Mutant of Saved: the first backup is kept.
SavedOnce == IF backup = Absent THEN yaml ELSE backup

Saved == IF yaml = Absent THEN backup ELSE yaml

CreateBackup ==
    /\ step = "backup"
    /\ \/ backup' = Saved /\ step' = "write" /\ UNCHANGED <<how, bounds>>
       \/ yaml # Absent /\ backup' \in {backup, Broken} /\ Fails /\ Answer("failed")
    /\ UNCHANGED <<yaml, effectVars, proc, handlerVars, monitorVars, undone, found, commands>>

WriteConfig ==
    /\ step = "write"
    /\ \/ /\ yaml' = asked /\ step' = IF mode = "try" THEN "try" ELSE "start"
          /\ UNCHANGED <<how, bounds>>
       \/ yaml' \in {yaml, Broken} /\ Fails /\ Answer("failed")
    /\ UNCHANGED <<backup, effectVars, proc, handlerVars, monitorVars, undone, found, commands>>

Start(p) ==
    /\ proc' = [proc EXCEPT ![p] = [state |-> "started", config |-> Absent]]
    /\ UNCHANGED effectVars

\* executeNetplanTry.  What was in effect is kept to go back to.
NetplanTry ==
    /\ step = "try" /\ step' = "await"
    /\ IF yaml \in Rejected
         THEN /\ proc' = [proc EXCEPT ![MyApply] = [state |-> "failed", config |-> Absent]]
              /\ UNCHANGED effectVars
         ELSE /\ proc' = [proc EXCEPT ![MyApply] = [state |-> "trying", config |-> applied]]
              /\ applied' = yaml /\ overtaken' = FALSE /\ checked' = FALSE
    /\ UNCHANGED <<yamlVars, handlerVars, monitorVars, answerVars, found, commands, bounds>>

\* executeNetplanApply; in monitored mode on a goroutine, and another one monitors.
StartApply ==
    /\ step = "start"
    /\ Start(MyApply)
    /\ IF mode = "monitored"
         THEN /\ step' = "select" /\ passed' = 0 /\ failed' = 0 /\ watches' \in Watched
              /\ monitor' = IF watches' = "nothing" THEN "ok" ELSE "checking"
         ELSE step' = "await" /\ UNCHANGED monitorVars
    /\ UNCHANGED <<yamlVars, handlerVars, answerVars, found, commands, bounds>>

ApplyDirectEnds ==
    /\ step = "await"
    /\ \/ proc[MyApply].state = "ok" /\ Answer("ok")
       \/ proc[MyApply].state = "failed" /\ Answer("failed")
    /\ UNCHANGED <<yamlVars, effectVars, proc, handlerVars, monitorVars, undone, found, commands,
                   bounds>>

\* What will be answered when rollback returns, whatever it returns.
RollBack(answer) == step' = "restore" /\ how' = answer /\ StopListening

\* applyWithConnectionMonitoring: the apply, then the monitor, each for a time.
ApplyEnds ==
    /\ step = "select"
    /\ \/ proc[MyApply].state = "ok" /\ step' = "monitor" /\ UNCHANGED <<monitorVars, how>>
       \/ proc[MyApply].state = "failed" /\ RollBack("failed")
       \/ RollBack("rolledback")
    /\ UNCHANGED <<yamlVars, effectVars, proc, handlerVars, undone, found, commands, bounds>>

MonitorEnds ==
    /\ step = "monitor"
    /\ \/ monitor = "ok" /\ Answer("ok") /\ StopListening
       \/ RollBack("rolledback")
    /\ UNCHANGED <<yamlVars, effectVars, proc, handlerVars, undone, found, commands, bounds>>

\* rollback returns.  Only the command of that name looks at its error.
Return(success) ==
    /\ step' = "idle" /\ undone' = success
    /\ how' = IF mode # "rollback" THEN how ELSE IF success THEN "ok" ELSE "failed"

\* Mutant of Restore: the file is put back and not applied.
RestoreFile ==
    /\ step = "restore" /\ backup # Absent /\ yaml' = backup
    /\ Return(TRUE)
    /\ UNCHANGED <<backup, effectVars, proc, handlerVars, monitorVars, found, commands, bounds>>

Restore ==
    /\ step = "restore" /\ backup # Absent
    /\ \/ /\ yaml' = backup /\ Start(MyRollback)
          /\ step' = "reapply" /\ UNCHANGED <<answerVars, bounds>>
       \/ /\ yaml' \in {yaml, Broken} /\ Fails /\ Return(FALSE)
          /\ UNCHANGED <<proc, effectVars>>
    /\ UNCHANGED <<backup, handlerVars, monitorVars, found, commands>>

NothingToRestore ==
    /\ step = "restore" /\ backup = Absent /\ Return(FALSE)
    /\ UNCHANGED <<yamlVars, effectVars, proc, handlerVars, monitorVars, found, commands, bounds>>

RollbackEnds ==
    /\ step = "reapply"
    /\ \/ proc[MyRollback].state = "ok" /\ Return(TRUE)
       \/ proc[MyRollback].state = "failed" /\ Return(FALSE)
    /\ UNCHANGED <<yamlVars, effectVars, proc, handlerVars, monitorVars, found, commands, bounds>>
-----------------------------------------------------------------------------
(* The monitor of the command that waits (MonitorConnectionDuringApply). *)

\* Mutant of CheckFails: earlier successes still count.
CheckFailsKeepsCount == failed' = failed + 1 /\ UNCHANGED passed

CheckFails == failed' = failed + 1 /\ passed' = 0

TooMany(n) == n >= MaxFailedChecks

\* Another host than the controller may be what answers.
Check ==
    /\ monitor = "checking"
    /\ checked' = TRUE
    /\ \/ /\ Reachable \/ watches = "other"
          /\ passed' = passed + 1 /\ failed' = 0 /\ UNCHANGED bounds
          /\ monitor' = IF passed' >= 2 THEN "ok" ELSE monitor
       \/ /\ IF Reachable THEN Fails ELSE UNCHANGED bounds
          /\ CheckFails
          /\ monitor' = IF TooMany(failed') THEN "failed" ELSE monitor
    /\ UNCHANGED <<yamlVars, applied, overtaken, proc, step, handlerVars, watches, answerVars, found,
                   commands>>

MonitorExpires ==
    /\ monitor = "checking"
    /\ monitor' = IF ~TooMany(failed) /\ passed > 0 THEN "ok" ELSE "failed"
    /\ UNCHANGED <<yamlVars, effectVars, proc, step, handlerVars, passed, failed, watches, answerVars,
                   found, commands, bounds>>
-----------------------------------------------------------------------------
(* netplan *)
Generate(p) ==
    /\ proc[p].state = "started"
    /\ proc' = [proc EXCEPT ![p] = IF yaml \in Rejected
                                     THEN [state |-> "failed", config |-> Absent]
                                     ELSE [state |-> "generated", config |-> yaml]]
    /\ UNCHANGED <<yamlVars, effectVars, step, handlerVars, monitorVars, answerVars, found, commands,
                   bounds>>

Ends(p, state) == proc' = [proc EXCEPT ![p] = [state |-> state, config |-> Absent]]

Brings(p) == applied' = proc[p].config /\ checked' = FALSE /\ overtaken' = ~Latest(p)

TakeEffect(p) ==
    /\ proc[p].state = "generated"
    /\ Brings(p) /\ Ends(p, "ok")
    /\ UNCHANGED <<yamlVars, step, handlerVars, monitorVars, answerVars, found, commands, bounds>>

\* Nobody confirms; whether it then calls itself failed depends on its version.
TryReverts(p) ==
    /\ proc[p].state = "trying"
    /\ Brings(p) /\ \E state \in {"ok", "failed"} : Ends(p, state)
    /\ UNCHANGED <<yamlVars, step, handlerVars, monitorVars, answerVars, found, commands, bounds>>

\* It fails or is killed after its time, perhaps when all was done.
ApplyFails(p) ==
    /\ proc[p].state \in {"started", "generated", "trying"} /\ Fails
    /\ Ends(p, "failed")
    /\ \/ UNCHANGED effectVars
       \/ proc[p].state = "generated" /\ Brings(p)
    /\ UNCHANGED <<yamlVars, step, handlerVars, monitorVars, answerVars, found, commands>>

(* The operator of the host, and the death of the agent: a write it was at *)
(* is cut short, netplan runs on.                                          *)
Edit(config) ==
    /\ step = "idle" /\ edits < MaxEdits /\ edits' = edits + 1
    /\ yaml' = config /\ how' = "none" /\ undone' = FALSE
    /\ UNCHANGED <<backup, effectVars, proc, step, handlerVars, monitorVars, found, commands, fails,
                   kills>>

AgentDies ==
    /\ step # "idle" /\ kills < MaxKills /\ kills' = kills + 1
    /\ step' = "idle" /\ how' = "none"
    /\ IF step \in {"write", "restore"} THEN yaml' \in {yaml, Broken} ELSE UNCHANGED yaml
    /\ IF step = "backup" THEN backup' \in {backup, Broken} ELSE UNCHANGED backup
    /\ StopListening
    /\ UNCHANGED <<effectVars, proc, handlerVars, undone, found, commands, fails, edits>>

HandlerStep ==
    \/ ValidateConfig \/ CreateBackup \/ WriteConfig \/ NetplanTry
    \/ StartApply \/ ApplyDirectEnds \/ ApplyEnds \/ MonitorEnds
    \/ Restore \/ NothingToRestore \/ RollbackEnds

NetplanNext ==
    \/ \E c \in Contents, m \in Modes : Apply(c, m)
    \/ Rollback
    \/ HandlerStep
    \/ Check \/ MonitorExpires
    \/ \E p \in Procs : Generate(p) \/ TakeEffect(p) \/ TryReverts(p) \/ ApplyFails(p)
    \/ \E c \in Configs : Edit(c)
    \/ AgentDies

NetplanSpec == NetplanInit /\ [][NetplanNext]_netplanVars
-----------------------------------------------------------------------------
(* Properties. *)

\* After a command that rolled back to the end the file is what that command
\* found, whatever backups earlier commands, failures and crashes have left; if
\* it found none, there was nothing to back up (netplan.go:313-357, 102-140).
RolledBackIsRestored ==
    step = "idle" /\ undone /\ mode # "rollback" /\ found # Absent => yaml = found

\* A configuration that was applied with success, or rolled back to, is in
\* effect and the one in the file, whatever else was being applied meanwhile,
\* unless another netplan came after it (netplan.go:224-262, 342-351).
AnsweredIsInEffect ==
    step = "idle" /\ ~overtaken =>
        /\ undone => applied = yaml
        /\ how = "ok" /\ mode \in {"direct", "monitored"} => applied = yaml /\ yaml = asked

\* A monitored command succeeds with a configuration that cuts the controller
\* off only if the monitor did not look after it came into effect, or looked at
\* another host: the checks before that, however many passed, do not outweigh
\* one after it that failed (monitor.go:62-99).
CutOffOnlyUnseen ==
    step = "idle" /\ how = "ok" /\ mode = "monitored" /\ watches = "controller" /\ checked => Reachable
=============================================================================
