-------------------------------- MODULE Deploy --------------------------------
(***************************************************************************)
(* Deploying, undeploying and upgrading envoy services on one port         *)
(* (services/deploy.go, deployment_checker.go, undeploy.go,                *)
(* operations/upgrade/listener.go).  A deployment is spread over two files *)
(* of its own (bootstrap, unit), a netplan file and a network interface    *)
(* named after the port, systemd's memory of the unit, its enablement and  *)
(* the process; a handler changes them one at a time, and may fail or die  *)
(* between any two.                                                        *)
(*                                                                         *)
(* Commands are handled one after the other (Session!OneStreamAtATime, and *)
(* deploymentLock), so there is one handler.  Undoing (cleanupAndRollback, *)
(* the rollback of an upgrade, undeploy) is best effort, each part whether *)
(* or not the others failed: it is one step, that fails in any of its      *)
(* parts; to die in the middle of it comes to failing in all of the rest.  *)
(*                                                                         *)
(* External: systemd and the kernel, as this code uses them.               *)
(***************************************************************************)
EXTENDS Integers, FiniteSets

CONSTANTS
    Names,      \* the services the port may be given to
    Versions,   \* envoy versions
    Boots,      \* bootstrap contents, the version they mention apart
    Addrs,      \* downstream addresses
    None,       \* absent
    Partial,    \* a file whose writing failed half-way
    Bare,       \* an interface without an address
    MaxOps, MaxFailures, MaxCrashes   \* (bounds)

ASSUME DeployAssumption ==
    /\ MaxOps \in Nat /\ MaxFailures \in Nat /\ MaxCrashes \in Nat
    /\ None \notin Names \cup Versions \cup Addrs
    /\ Partial \notin Versions /\ Partial # None /\ Bare \notin Addrs /\ Bare # None

Configs  == [boot : Boots, version : Versions]
Requests == [kind : {"deploy"}, name : Names, boot : Boots, version : Versions, addr : Addrs]
            \cup [kind : {"undeploy"}, name : Names]
            \cup [kind : {"upgrade"}, name : Names, from : Versions, to : Versions]

VARIABLES
    \* files
    bootstrap,  \* bootstraps/<name>-<port>.yaml
    unit,       \* <name>-<port>.service: the version its binary path names
    netplan,    \* 90-elchi-if-<port>.yaml
    binaries,   \* the envoy versions on disk
    \* kernel and systemd
    iface,      \* elchi-if-<port>: its address
    loaded,     \* the unit in systemd's memory, None when not loaded yet
    enabled,
    running,    \* the config the process was started on
    \* the client
    activeDeployments,   \* who has the port (in memory)
    op,         \* the command being handled, or the last one
    pc,
    done,       \* DeployState: the steps of a fresh deployment that were done
    todo,       \* DeploymentCheckResult: what an update has to change
    before,     \* the deployment as the handler found it
    \* history
    reply,      \* of the last command: "ok", "error" or "none"
    failedAt,   \* the step the last command failed at, or "none"
    clean,      \* ... and all of the undoing that followed succeeded
    ops, failures, crashes

diskVars   == <<bootstrap, unit, netplan>>
systemVars == <<iface, loaded, enabled, running>>
history    == <<reply, failedAt, clean>>
bounds     == <<ops, failures, crashes>>
handlerVars == <<op, done, todo, before>>
vars == <<diskVars, binaries, systemVars, activeDeployments, handlerVars, pc, history, bounds>>

Fresh   == {"boot", "iface", "unit", "reload", "enable", "start", "verify"}
Update  == {"upBoot", "upIface", "upUnit", "upReload", "upRestart"}
Upgrade == {"uUnit", "uBoot", "uReload", "uRestart", "uVerify"}

\* What an inspection looks at.
Parts == {"boot", "iface", "unit", "binary"}

TypeOK ==
    /\ bootstrap \in [Names -> Configs \cup {None, Partial}]
    /\ unit \in [Names -> Versions \cup {None, Partial}]
    /\ netplan \in Addrs \cup {None, Partial} /\ iface \in Addrs \cup {None, Bare}
    /\ binaries \subseteq Versions
    /\ loaded \in [Names -> Versions \cup {None, Partial}]
    /\ enabled \subseteq Names /\ running \in [Names -> Configs \cup {None}]
    /\ activeDeployments \in Names \cup {None}
    /\ op \in Requests \cup {None}
    /\ pc \in {"idle", "rollback", "restore"} \cup Fresh \cup Update \cup Upgrade
    /\ done \subseteq Fresh
    /\ todo \subseteq Parts \cup {"unread"}
    /\ reply \in {"ok", "error", "none"} /\ clean \in BOOLEAN
    /\ failedAt \in {"none", "check"} \cup Fresh \cup Update \cup Upgrade
    /\ ops \in 0..MaxOps /\ failures \in 0..MaxFailures /\ crashes \in 0..MaxCrashes

Found == [bootstrap |-> bootstrap, unit |-> unit, netplan |-> netplan,
          enabled |-> enabled, running |-> running]

Init ==
    /\ bootstrap = [n \in Names |-> None] /\ unit = [n \in Names |-> None]
    /\ netplan = None /\ iface = None /\ binaries \in SUBSET Versions
    /\ loaded = [n \in Names |-> None] /\ enabled = {}
    /\ running = [n \in Names |-> None]
    /\ activeDeployments = None /\ op = None /\ pc = "idle" /\ done = {} /\ todo = {}
    /\ before = Found
    /\ reply = "none" /\ failedAt = "none" /\ clean = TRUE
    /\ ops = 0 /\ failures = 0 /\ crashes = 0

Name   == op.name
Wanted == [boot |-> op.boot, version |-> op.version]

Fail == failures < MaxFailures /\ failures' = failures + 1

Take(request) ==
    /\ pc = "idle" /\ ops < MaxOps
    /\ ops' = ops + 1 /\ op' = request /\ before' = Found /\ done' = {}
    /\ UNCHANGED <<diskVars, binaries, systemVars, failures, crashes>>

Begin(step) == pc' = step /\ reply' = "none" /\ failedAt' = "none" /\ clean' = TRUE

Answer(what) == reply' = what /\ pc' = "idle"

Refuse == Answer("error") /\ failedAt' = "check" /\ clean' = TRUE
-----------------------------------------------------------------------------
(* systemd.  A unit it has not loaded it loads from disk when asked; one it *)
(* has loaded it keeps until daemon-reload, whatever becomes of the file.   *)

UnitOf(n) == IF loaded[n] = None THEN unit[n] ELSE loaded[n]

\* systemctl show -p LoadState
IsLoaded(n) == UnitOf(n) \in Versions

\* ExecStartPre validates the bootstrap with the binary of the unit.
CanStart(n) == UnitOf(n) \in binaries /\ bootstrap[n] \in Configs

StartedOn(n) == [boot |-> bootstrap[n].boot, version |-> UnitOf(n)]
-----------------------------------------------------------------------------
(* DeployService: a command comes in, and the deployment is inspected.      *)

\* Mutant of Changes: the interface is looked at, not its netplan file.
ChangesOfIface(r) ==
    (IF r.version \notin binaries THEN {"binary"} ELSE {})
    \cup (IF bootstrap[r.name] # [boot |-> r.boot, version |-> r.version] THEN {"boot"} ELSE {})
    \cup (IF iface # r.addr THEN {"iface"} ELSE {})
    \cup (IF unit[r.name] # r.version THEN {"unit"} ELSE {})

(* CheckExistingDeployment, with checkBootstrapChanged,                     *)
(* checkInterfaceChanged and checkServiceChanged.                           *)
Changes(r) ==
    (IF r.version \notin binaries THEN {"binary"} ELSE {})
    \cup (IF bootstrap[r.name] # [boot |-> r.boot, version |-> r.version] THEN {"boot"} ELSE {})
    \cup (IF netplan = None \/ iface # r.addr THEN {"iface"} ELSE {})
    \cup (IF unit[r.name] # r.version THEN {"unit"} ELSE {})

\* It exists as asked for ...
DeployUnchanged(r) ==
    /\ Take(r) /\ r.kind = "deploy"
    /\ IsLoaded(r.name) /\ Changes(r) = {}
    /\ activeDeployments' = r.name
    /\ Answer("ok") /\ failedAt' = "none" /\ clean' = TRUE
    /\ todo' = {}

\* ... or otherwise: what differs is updated.
DeployUpdates(r) ==
    /\ Take(r) /\ r.kind = "deploy"
    /\ IsLoaded(r.name) /\ Changes(r) # {}
    /\ todo' = Changes(r)
    /\ Begin("upBoot")
    /\ UNCHANGED activeDeployments

\* A part that cannot be looked at counts as changed.  Of the bootstrap that
\* is all: the restart is asked for only when a difference was seen.
DeployMisreads(r, part) ==
    /\ pc = "idle" /\ ops < MaxOps /\ r.kind = "deploy" /\ IsLoaded(r.name)
    /\ ops' = ops + 1 /\ op' = r /\ before' = Found /\ done' = {}
    /\ Fail
    /\ todo' = Changes(r) \cup {part} \cup (IF part = "boot" THEN {"unread"} ELSE {})
    /\ Begin("upBoot")
    /\ UNCHANGED <<diskVars, binaries, systemVars, activeDeployments, crashes>>

(* validateDeploymentPrerequisites *)
Prerequisites(r) ==
    /\ r.version \in binaries
    /\ activeDeployments = None
    /\ iface = None

\* It does not exist: the port is claimed ...
DeployFresh(r) ==
    /\ Take(r) /\ r.kind = "deploy"
    /\ ~IsLoaded(r.name) /\ Prerequisites(r)
    /\ activeDeployments' = r.name
    /\ Begin("boot") /\ todo' = {}

\* ... or cannot be.
DeployRefused(r) ==
    /\ Take(r) /\ r.kind = "deploy"
    /\ ~IsLoaded(r.name) /\ ~Prerequisites(r)
    /\ Refuse
    /\ UNCHANGED <<activeDeployments, todo>>
-----------------------------------------------------------------------------
(* A fresh deployment, step by step; done is what a rollback will undo. *)

Step(this, next) ==
    /\ pc = this /\ pc' = next /\ done' = done \cup {this}
    /\ UNCHANGED <<binaries, activeDeployments, op, todo, before, history, bounds>>

WriteBootstrap ==
    /\ Step("boot", "iface")
    /\ bootstrap' = [bootstrap EXCEPT ![Name] = Wanted]
    /\ UNCHANGED <<unit, netplan, systemVars>>

\* SetupDummyInterface
SetUpIface ==
    /\ Step("iface", "unit")
    /\ netplan' = op.addr /\ iface' = op.addr
    /\ UNCHANGED <<bootstrap, unit, loaded, enabled, running>>

WriteUnit ==
    /\ Step("unit", "reload")
    /\ unit' = [unit EXCEPT ![Name] = op.version]
    /\ UNCHANGED <<bootstrap, netplan, systemVars>>

DaemonReload ==
    /\ Step("reload", "enable")
    /\ loaded' = unit
    /\ UNCHANGED <<diskVars, iface, enabled, running>>

\* Mutant of Enable: enabled for this boot only.
EnableRuntime ==
    /\ Step("enable", "start")
    /\ UNCHANGED <<diskVars, systemVars>>

Enable ==
    /\ Step("enable", "start")
    /\ enabled' = enabled \cup {Name}
    /\ UNCHANGED <<diskVars, iface, loaded, running>>

Start ==
    /\ Step("start", "verify")
    /\ CanStart(Name)
    /\ running' = [running EXCEPT ![Name] = StartedOn(Name)]
    /\ UNCHANGED <<diskVars, iface, loaded, enabled>>

\* is-active
Verified ==
    /\ pc = "verify" /\ running[Name] # None
    /\ Answer("ok")
    /\ UNCHANGED <<diskVars, binaries, systemVars, activeDeployments, handlerVars,
                   failedAt, clean, bounds>>
-----------------------------------------------------------------------------
(* A step of it fails.  It has done nothing, or half of it, or all of it    *)
(* and only the command was killed before it could say so.                  *)

StepFails ==
    /\ Fail /\ failedAt' = pc /\ pc' = "rollback"
    /\ UNCHANGED <<binaries, loaded, activeDeployments, op, todo, before, reply, clean,
                   ops, crashes>>

\* os.WriteFile leaves the old file or a cut off one.
CutOff(file) == [file EXCEPT ![Name] = Partial]

WriteFails ==
    /\ StepFails
    /\ \/ pc = "boot" /\ bootstrap' \in {bootstrap, CutOff(bootstrap)} /\ UNCHANGED unit
       \/ pc = "unit" /\ unit' \in {unit, CutOff(unit)} /\ UNCHANGED bootstrap
    /\ UNCHANGED <<netplan, iface, enabled, running, done>>

\* Writing the netplan file fails, and leaves what it wrote; or netlink does,
\* and the file is removed; by then the old address may be gone too.
IfaceHalfDone ==
    \/ netplan' \in {netplan, Partial, op.addr} /\ UNCHANGED iface
    \/ netplan' = None /\ iface' \in {iface, IF iface = op.addr THEN iface ELSE Bare}

IfaceFails ==
    /\ pc = "iface" /\ StepFails
    /\ IfaceHalfDone
    \* checkIfInterfaceCreated
    /\ done' = IF iface' = None THEN done ELSE done \cup {"iface"}
    /\ UNCHANGED <<bootstrap, unit, enabled, running>>

SystemctlFails ==
    /\ StepFails
    /\ \/ pc \in {"reload", "verify"} /\ UNCHANGED <<enabled, running>>
       \/ pc = "enable" /\ enabled' \in {enabled, enabled \cup {Name}} /\ UNCHANGED running
       \/ /\ pc = "start" /\ UNCHANGED enabled
          /\ \/ UNCHANGED running
             \/ CanStart(Name) /\ running' = [running EXCEPT ![Name] = StartedOn(Name)]
       \* up, and down again when asked
       \/ pc = "verify" /\ running' = [running EXCEPT ![Name] = None] /\ UNCHANGED enabled
    /\ UNCHANGED <<diskVars, iface, done>>

\* Undoing may fail in any of its parts.
Loses(lost) ==
    /\ clean' = (lost = {})
    /\ IF lost = {} THEN UNCHANGED failures ELSE Fail

CleanupParts == {"stop", "disable", "bootstrap", "netplan", "unit", "iface", "reload"}

\* Mutant of CleanupAndRollback: an interface that was half set up stays.
CleanupCreatedOnly(lost) ==
    LET undoes(part, step) == step \in done /\ failedAt # step /\ part \notin lost IN
    /\ pc = "rollback" /\ Loses(lost)
    /\ running' = IF undoes("stop", "start") /\ IsLoaded(Name)
                  THEN [running EXCEPT ![Name] = None] ELSE running
    /\ enabled' = IF undoes("disable", "enable") /\ IsLoaded(Name)
                  THEN enabled \ {Name} ELSE enabled
    /\ bootstrap' = IF undoes("bootstrap", "boot")
                    THEN [bootstrap EXCEPT ![Name] = None] ELSE bootstrap
    /\ netplan' = IF undoes("netplan", "iface") THEN None ELSE netplan
    /\ unit' = IF undoes("unit", "unit") THEN [unit EXCEPT ![Name] = None] ELSE unit
    /\ iface' = IF undoes("iface", "iface") THEN None ELSE iface
    /\ loaded' = IF done # {} /\ "reload" \notin lost THEN unit' ELSE loaded
    /\ activeDeployments' = IF "start" \in done THEN activeDeployments ELSE None
    /\ Answer("error")
    /\ UNCHANGED <<binaries, handlerVars, failedAt, ops, crashes>>

(* cleanupAndRollback, and the deferred function after it: the port is not  *)
(* given back once the service was started.                                 *)
CleanupAndRollback(lost) ==
    LET undoes(part, step) == step \in done /\ part \notin lost IN
    /\ pc = "rollback" /\ Loses(lost)
    /\ running' = IF undoes("stop", "start") /\ IsLoaded(Name)
                  THEN [running EXCEPT ![Name] = None] ELSE running
    /\ enabled' = IF undoes("disable", "enable") /\ IsLoaded(Name)
                  THEN enabled \ {Name} ELSE enabled
    /\ bootstrap' = IF undoes("bootstrap", "boot")
                    THEN [bootstrap EXCEPT ![Name] = None] ELSE bootstrap
    \* the netplan file is a created file only if all of its step was done
    /\ netplan' = IF undoes("netplan", "iface") /\ failedAt # "iface" THEN None ELSE netplan
    /\ unit' = IF undoes("unit", "unit") THEN [unit EXCEPT ![Name] = None] ELSE unit
    /\ iface' = IF undoes("iface", "iface") THEN None ELSE iface
    /\ loaded' = IF done # {} /\ "reload" \notin lost THEN unit' ELSE loaded
    /\ activeDeployments' = IF "start" \in done THEN activeDeployments ELSE None
    /\ Answer("error")
    /\ UNCHANGED <<binaries, handlerVars, failedAt, ops, crashes>>
-----------------------------------------------------------------------------
(* ApplyDeploymentUpdates: what differs is written in place, and nothing    *)
(* is undone.                                                               *)

\* A part that need not change is passed over.
Pass(this, part, next) ==
    /\ pc = this /\ part \notin todo /\ pc' = next
    /\ UNCHANGED <<diskVars, binaries, systemVars, activeDeployments, handlerVars,
                   history, bounds>>

Apply(this, part, next) ==
    /\ pc = this /\ part \in todo /\ pc' = next
    /\ UNCHANGED <<binaries, activeDeployments, handlerVars, history, bounds>>

UpdateBootstrap ==
    /\ Apply("upBoot", "boot", "upIface")
    /\ bootstrap' = [bootstrap EXCEPT ![Name] = Wanted]
    /\ UNCHANGED <<unit, netplan, systemVars>>

UpdateIface ==
    /\ Apply("upIface", "iface", "upUnit")
    /\ netplan' = op.addr /\ iface' = op.addr
    /\ UNCHANGED <<bootstrap, unit, loaded, enabled, running>>

UpdateUnit ==
    /\ Apply("upUnit", "unit", "upReload")
    /\ unit' = [unit EXCEPT ![Name] = op.version]
    /\ UNCHANGED <<bootstrap, netplan, systemVars>>

UpdateReload ==
    /\ Apply("upReload", "unit", "upRestart")
    /\ loaded' = unit
    /\ UNCHANGED <<diskVars, iface, enabled, running>>

PassOver ==
    \/ Pass("upBoot", "boot", "upIface")
    \/ Pass("upIface", "iface", "upUnit")
    \/ Pass("upUnit", "unit", "upReload")
    \/ Pass("upReload", "unit", "upRestart")

\* DeploymentCheckResult.ServiceNeedsRestart
NeedsRestart ==
    \/ "unit" \in todo \/ "binary" \in todo
    \/ "boot" \in todo /\ "unread" \notin todo

UpdateDone(restarts) ==
    /\ pc = "upRestart" /\ NeedsRestart = restarts
    /\ restarts => "binary" \notin todo /\ CanStart(Name)
    /\ running' = IF restarts THEN [running EXCEPT ![Name] = StartedOn(Name)] ELSE running
    /\ activeDeployments' = Name
    /\ Answer("ok")
    /\ UNCHANGED <<diskVars, binaries, iface, loaded, enabled, handlerVars, failedAt,
                   clean, bounds>>

UpdateError ==
    /\ failedAt' = pc /\ Answer("error")
    /\ UNCHANGED <<binaries, loaded, enabled, activeDeployments, handlerVars, clean,
                   ops, crashes>>

UpdateFails ==
    /\ Fail /\ UpdateError
    /\ \/ /\ pc = "upBoot" /\ "boot" \in todo
          /\ bootstrap' \in {bootstrap, CutOff(bootstrap)}
          /\ UNCHANGED <<unit, netplan, iface, running>>
       \/ /\ pc = "upIface" /\ "iface" \in todo /\ IfaceHalfDone
          /\ UNCHANGED <<bootstrap, unit, running>>
       \/ /\ pc = "upUnit" /\ "unit" \in todo
          /\ unit' \in {unit, CutOff(unit)}
          /\ UNCHANGED <<bootstrap, netplan, iface, running>>
       \/ /\ pc = "upReload" /\ "unit" \in todo
          /\ UNCHANGED <<diskVars, iface, running>>
       \/ /\ pc = "upRestart" /\ NeedsRestart
          /\ running' \in {running, [running EXCEPT ![Name] = None]}
          /\ UNCHANGED <<diskVars, iface>>

\* A restart stops the old process, whatever becomes of the new one;
\* with the binary missing it is not tried.
UpdateCannotRestart ==
    /\ pc = "upRestart" /\ NeedsRestart /\ ("binary" \in todo \/ ~CanStart(Name))
    /\ UpdateError
    /\ running' = IF "binary" \in todo THEN running ELSE [running EXCEPT ![Name] = None]
    /\ UNCHANGED <<diskVars, iface, failures>>
-----------------------------------------------------------------------------
(* UndeployService: best effort, and always a success. *)

Undeploy(r, lost) ==
    LET n == r.name
        exists == loaded[n] # None \/ running[n] # None    \* systemctl list-units --all
        undoes(part) == part \notin lost
    IN
    /\ pc = "idle" /\ ops < MaxOps /\ r.kind = "undeploy"
    /\ ops' = ops + 1 /\ op' = r /\ before' = Found /\ done' = {}
    /\ Loses(lost)
    /\ running' = IF exists /\ undoes("stop") THEN [running EXCEPT ![n] = None] ELSE running
    /\ enabled' = IF exists /\ undoes("disable") THEN enabled \ {n} ELSE enabled
    /\ iface' = IF undoes("iface") THEN None ELSE iface
    /\ bootstrap' = IF undoes("bootstrap") THEN [bootstrap EXCEPT ![n] = None] ELSE bootstrap
    /\ netplan' = IF undoes("netplan") THEN None ELSE netplan
    /\ unit' = IF undoes("unit") THEN [unit EXCEPT ![n] = None] ELSE unit
    /\ loaded' = IF (exists \/ diskVars' # diskVars) /\ undoes("reload") THEN unit' ELSE loaded
    /\ activeDeployments' = None
    /\ Answer("ok") /\ failedAt' = "none"
    /\ UNCHANGED <<binaries, todo, crashes>>
-----------------------------------------------------------------------------
(* UpgradeListener. *)

Reads(r) ==
    /\ IsLoaded(r.name) /\ r.to \in binaries
    /\ unit[r.name] # None /\ bootstrap[r.name] # None

UpgradeBegins(r) ==
    /\ Take(r) /\ r.kind = "upgrade" /\ Reads(r)
    /\ Begin("uUnit")
    /\ UNCHANGED <<activeDeployments, todo>>

UpgradeRefused(r) ==
    /\ Take(r) /\ r.kind = "upgrade" /\ ~Reads(r)
    /\ Refuse
    /\ UNCHANGED <<activeDeployments, todo>>

UpgradeStep(this, next) ==
    /\ pc = this /\ pc' = next
    /\ UNCHANGED <<netplan, binaries, iface, enabled, activeDeployments, handlerVars,
                   history, bounds>>

\* replaceEnvoyVersionPath: a file that names another version stays as it is.
UpgradeUnit ==
    /\ UpgradeStep("uUnit", "uBoot")
    /\ unit' = IF unit[Name] = op.from THEN [unit EXCEPT ![Name] = op.to] ELSE unit
    /\ UNCHANGED <<bootstrap, loaded, running>>

UpgradeBootstrap ==
    /\ UpgradeStep("uBoot", "uReload")
    /\ bootstrap' = IF bootstrap[Name] # Partial /\ bootstrap[Name].version = op.from
                    THEN [bootstrap EXCEPT ![Name].version = op.to] ELSE bootstrap
    /\ UNCHANGED <<unit, loaded, running>>

\* Mutant of UpgradeReload: left to the restart.
UpgradeSkipsReload ==
    /\ UpgradeStep("uReload", "uRestart")
    /\ UNCHANGED <<bootstrap, unit, loaded, running>>

UpgradeReload ==
    /\ UpgradeStep("uReload", "uRestart")
    /\ loaded' = unit
    /\ UNCHANGED <<bootstrap, unit, running>>

UpgradeRestart ==
    /\ UpgradeStep("uRestart", "uVerify")
    /\ CanStart(Name)
    /\ running' = [running EXCEPT ![Name] = StartedOn(Name)]
    /\ UNCHANGED <<bootstrap, unit, loaded>>

UpgradeVerified ==
    /\ pc = "uVerify" /\ running[Name] # None
    /\ Answer("ok")
    /\ UNCHANGED <<diskVars, binaries, systemVars, activeDeployments, handlerVars,
                   failedAt, clean, bounds>>

UpgradeFails ==
    /\ pc \in Upgrade
    /\ \/ Fail
       \/ pc = "uRestart" /\ ~CanStart(Name) /\ UNCHANGED failures
    /\ failedAt' = pc /\ pc' = "restore"
    /\ unit' \in {unit} \cup (IF pc = "uUnit" THEN {CutOff(unit)} ELSE {})
    /\ bootstrap' \in {bootstrap} \cup (IF pc = "uBoot" THEN {CutOff(bootstrap)} ELSE {})
    /\ running' \in {running} \cup (IF pc \in {"uRestart", "uVerify"}
                                    THEN {[running EXCEPT ![Name] = None]} ELSE {})
    /\ UNCHANGED <<netplan, binaries, iface, loaded, enabled, activeDeployments, handlerVars,
                   reply, clean, ops, crashes>>

RestoreParts == {"unit", "bootstrap", "reload", "restart"}

\* Mutant of Restore: the restored unit is not reloaded before the restart.
RestoreWithoutReload(lost) ==
    /\ pc = "restore" /\ Loses(lost)
    /\ UNCHANGED <<netplan, binaries, iface, loaded, enabled, activeDeployments, handlerVars,
                   failedAt, ops, crashes>>
    /\ unit' = IF "unit" \in lost THEN unit ELSE [unit EXCEPT ![Name] = before.unit[Name]]
    /\ bootstrap' = IF "bootstrap" \in lost THEN bootstrap
                    ELSE [bootstrap EXCEPT ![Name] = before.bootstrap[Name]]
    /\ running' = IF CanStart(Name)' /\ "restart" \notin lost
                  THEN [running EXCEPT ![Name] = StartedOn(Name)'] ELSE running
    /\ Answer("error")

(* The rollback of an upgrade restarts only onto a unit that was reloaded.  *)
Restore(lost) ==
    /\ pc = "restore" /\ Loses(lost)
    /\ UNCHANGED <<netplan, binaries, iface, enabled, activeDeployments, handlerVars,
                   failedAt, ops, crashes>>
    /\ unit' = IF "unit" \in lost THEN unit ELSE [unit EXCEPT ![Name] = before.unit[Name]]
    /\ bootstrap' = IF "bootstrap" \in lost THEN bootstrap
                    ELSE [bootstrap EXCEPT ![Name] = before.bootstrap[Name]]
    /\ loaded' = IF "reload" \in lost THEN loaded ELSE unit'
    /\ running' = CASE "reload" \in lost -> running
                    [] "restart" \in lost -> [running EXCEPT ![Name] = None]
                    [] OTHER -> [running EXCEPT ![Name] =
                                   IF CanStart(Name)' THEN StartedOn(Name)' ELSE None]
    /\ Answer("error")
-----------------------------------------------------------------------------
(* The host. *)

\* SET_VERSION brings a binary; a forced download that fails, or an operator,
\* removes one.
BinaryChanges(v) ==
    /\ pc = "idle" /\ ops < MaxOps /\ ops' = ops + 1
    /\ binaries' = IF v \in binaries THEN binaries \ {v} ELSE binaries \cup {v}
    /\ Answer("none") /\ op' = None
    /\ UNCHANGED <<diskVars, systemVars, activeDeployments, done, todo, before, failedAt,
                   clean, failures, crashes>>

\* The client dies and is started again; the host goes on.
Crash ==
    /\ crashes < MaxCrashes /\ crashes' = crashes + 1
    /\ activeDeployments' = None /\ op' = None /\ done' = {} /\ todo' = {}
    /\ Answer("none") /\ failedAt' = "none" /\ clean' = TRUE
    /\ UNCHANGED <<diskVars, binaries, systemVars, before, ops, failures>>

\* The host starts anew: what is enabled is loaded from disk and started, and the interface
\* is what its netplan file says.
Reboot ==
    /\ crashes < MaxCrashes /\ crashes' = crashes + 1
    /\ iface' = IF netplan \in Addrs THEN netplan ELSE None
    /\ loaded' = [n \in Names |-> IF n \in enabled THEN unit[n] ELSE None]
    /\ running' = [n \in Names |->
          IF n \in enabled /\ unit[n] \in binaries /\ bootstrap[n] \in Configs
            THEN [boot |-> bootstrap[n].boot, version |-> unit[n]] ELSE None]
    /\ activeDeployments' = None /\ op' = None /\ done' = {} /\ todo' = {}
    /\ Answer("none") /\ failedAt' = "none" /\ clean' = TRUE
    /\ UNCHANGED <<diskVars, binaries, enabled, before, ops, failures>>
-----------------------------------------------------------------------------
Next ==
    \/ \E r \in Requests : DeployUnchanged(r)
    \/ \E r \in Requests : DeployUpdates(r)
    \/ \E r \in Requests : \E part \in Parts : DeployMisreads(r, part)
    \/ \E r \in Requests : DeployFresh(r)
    \/ \E r \in Requests : DeployRefused(r)
    \/ WriteBootstrap
    \/ SetUpIface
    \/ WriteUnit
    \/ DaemonReload
    \/ Enable
    \/ Start
    \/ Verified
    \/ WriteFails
    \/ IfaceFails
    \/ SystemctlFails
    \/ \E lost \in SUBSET CleanupParts : CleanupAndRollback(lost)
    \/ UpdateBootstrap
    \/ UpdateIface
    \/ UpdateUnit
    \/ UpdateReload
    \/ PassOver
    \/ \E restarts \in BOOLEAN : UpdateDone(restarts)
    \/ UpdateFails
    \/ UpdateCannotRestart
    \/ \E r \in Requests : \E lost \in SUBSET CleanupParts : Undeploy(r, lost)
    \/ \E r \in Requests : UpgradeBegins(r)
    \/ \E r \in Requests : UpgradeRefused(r)
    \/ UpgradeUnit
    \/ UpgradeBootstrap
    \/ UpgradeReload
    \/ UpgradeRestart
    \/ UpgradeVerified
    \/ UpgradeFails
    \/ \E lost \in SUBSET RestoreParts : Restore(lost)
    \/ \E v \in Versions : BinaryChanges(v)
    \/ Crash
    \/ Reboot

Spec == Init /\ [][Next]_vars
-----------------------------------------------------------------------------
(* Properties. *)

Answered(kind, what) == pc = "idle" /\ op # None /\ op.kind = kind /\ reply = what

(* A deploy that reports success left the files, the interface and the      *)
(* claim on the port as asked for, whichever of its three ways it took and  *)
(* whatever was there before.  (Of the netplan file the inspection sees     *)
(* only that it is there.)                                                  *)
SuccessIsOnDisk ==
    Answered("deploy", "ok") =>
        /\ bootstrap[Name] = Wanted /\ unit[Name] = op.version
        /\ netplan # None /\ iface = op.addr
        /\ activeDeployments = Name

(* After a fresh deployment that failed, and whose rollback did what it     *)
(* set out to do, nothing is left but what was there before and what the    *)
(* failing step itself half did (deploy.go: "half-applied deployment ...    *)
(* would be orphaned").                                                     *)
OnlyFailedStepLeaves ==
    Answered("deploy", "error") /\ failedAt \in Fresh /\ clean =>
        /\ bootstrap[Name] \in {None, before.bootstrap[Name]} \/ failedAt = "boot"
        /\ netplan \in {None, before.netplan} \/ failedAt = "iface"
        /\ unit[Name] \in {None, before.unit[Name]} \/ failedAt = "unit"
        /\ iface = None
        /\ Name \in enabled => failedAt = "enable" \/ Name \in before.enabled
        /\ running[Name] # None => failedAt = "start" \/ before.running[Name] # None

(* An upgrade that failed and was rolled back leaves both files, systemd's  *)
(* view of the unit and the process on the old version, at whichever step   *)
(* it failed.                                                               *)
UpgradeRollsBack ==
    Answered("upgrade", "error") /\ failedAt \in Upgrade /\ clean =>
        /\ unit = before.unit /\ loaded[Name] = unit[Name]
        /\ bootstrap = before.bootstrap
        /\ running[Name] = IF CanStart(Name) THEN StartedOn(Name) ELSE None

\* What runs after a deploy that was answered with success.
DeployRuns ==
    LET asked == [boot |-> op.boot, version |-> UnitOf(Name)] IN
    /\ running[Name] \in {asked, before.running[Name]}
    /\ before.unit[Name] # op.version \/ (before.bootstrap[Name] # Wanted /\ "unread" \notin todo)
         => running[Name] = asked
    /\ UnitOf(Name) # op.version => before.unit[Name] = op.version

\* What runs after such an upgrade.
UpgradeRuns ==
    /\ running[Name] = StartedOn(Name) /\ loaded[Name] = unit[Name]
    /\ unit[Name] = IF before.unit[Name] = op.from THEN op.to ELSE before.unit[Name]

(* Success means a process on what was asked for: whatever a deploy had to  *)
(* change is live, and an upgrade runs its target from a unit systemd has   *)
(* reloaded.  The exceptions are shown as they are: a deploy that found      *)
(* nothing to change leaves the process as it found it, running or not; one *)
(* that could not read the bootstrap replaces it and may leave the process  *)
(* on the old one; one that found the unit file right may restart on an     *)
(* older one in systemd's memory; an upgrade from a version the unit does   *)
(* not have restarts the old one.                                           *)
SuccessRuns ==
    /\ Answered("deploy", "ok") => DeployRuns
    /\ Answered("upgrade", "ok") => UpgradeRuns

(* A deployment that was answered with success is there again after a       *)
(* reboot, unless it found another netplan file that it did not compare, or *)
(* a service that was not enabled and that it did not enable.               *)
RebootKeepsDeployment ==
    [][(Reboot /\ Answered("deploy", "ok"))
         => /\ before.netplan \in {None, op.addr} => iface' = op.addr
            /\ done # {} \/ Name \in before.enabled => running'[Name] = Wanted]_vars
===============================================================================
