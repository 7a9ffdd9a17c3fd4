----------------------------- MODULE DeployProofs -----------------------------
(***************************************************************************)
(* Proofs about Deploy for any services, versions, contents and addresses, *)
(* and any failures, crashes and reboots.                                  *)
(*                                                                         *)
(* First that a deploy which reports success left on disk what it was      *)
(* asked for: the invariant says which parts are in place at which step,   *)
(* those the handler wrote and, on the update path, those the inspection   *)
(* found to be right already.  Then what a failed deployment or upgrade    *)
(* leaves, what runs after a success, and what a reboot brings back; their *)
(* invariants relate the host, step by step, to what the command found.    *)
(***************************************************************************)
EXTENDS Deploy, TLAPS

BootDone ==
    \/ pc \in Fresh \ {"boot"}
    \/ pc \in Update /\ (pc # "upBoot" \/ "boot" \notin todo)

IfaceDone ==
    \/ pc \in Fresh \ {"boot", "iface"}
    \/ pc \in Update /\ (pc \notin {"upBoot", "upIface"} \/ "iface" \notin todo)

UnitDone ==
    \/ pc \in Fresh \ {"boot", "iface", "unit"}
    \/ pc \in Update /\ (pc \in {"upReload", "upRestart"} \/ "unit" \notin todo)

OnDisk ==
    /\ BootDone => bootstrap[Name] = Wanted
    /\ IfaceDone => netplan # None /\ iface = op.addr
    /\ UnitDone => unit[Name] = op.version

OpOK ==
    /\ pc \in Fresh \cup Update =>
         op.kind = "deploy" /\ Name \in Names /\ op.addr # None
    /\ pc \in Upgrade \cup {"restore"} => op.kind = "upgrade"
    /\ pc \in Fresh => activeDeployments = Name

FilesOK == DOMAIN bootstrap = Names /\ DOMAIN unit = Names

Inv == FilesOK /\ OpOK /\ OnDisk /\ SuccessIsOnDisk

(* Requests of each kind are told apart by their kind. *)
LEMMA DeployRequest ==
    ASSUME NEW r \in Requests, r.kind = "deploy"
    PROVE  r.name \in Names /\ r.addr # None
  BY DeployAssumption DEF Requests

(* Nothing that matters has changed. *)
LEMMA Stutters ==
    Inv /\ UNCHANGED <<bootstrap, unit, netplan, iface, activeDeployments, op, todo, pc, reply>>
        => Inv'
  BY DEF Inv, FilesOK, OpOK, OnDisk, SuccessIsOnDisk, BootDone, IfaceDone, UnitDone,
         Answered, Name, Wanted

LEMMA InitInv == Init => Inv
  BY DEF Init, Inv, FilesOK, OpOK, OnDisk, SuccessIsOnDisk, BootDone, IfaceDone, UnitDone,
         Answered, Fresh, Update, Upgrade

(* A deploy command comes in. *)
LEMMA TakesDeploy ==
    ASSUME Inv, NEW r \in Requests,
           \/ DeployUnchanged(r) \/ DeployUpdates(r) \/ DeployFresh(r) \/ DeployRefused(r)
           \/ (\E part \in Parts : DeployMisreads(r, part))
    PROVE  Inv'
<1> USE DeployRequest DEF Inv, FilesOK, OpOK, OnDisk, SuccessIsOnDisk, BootDone, IfaceDone,
        UnitDone, Answered, Name, Wanted, Take, Fresh, Update, Upgrade, diskVars, systemVars
<1>1. CASE DeployUnchanged(r)
  BY <1>1 DEF DeployUnchanged, Answer, Changes
<1>2. CASE DeployUpdates(r)
  BY <1>2 DEF DeployUpdates, Begin, Changes
<1>3. CASE DeployFresh(r)
  BY <1>3 DEF DeployFresh, Begin
<1>4. CASE DeployRefused(r)
  BY <1>4 DEF DeployRefused, Refuse, Answer
<1>5. CASE \E part \in Parts : DeployMisreads(r, part)
  BY <1>5 DEF DeployMisreads, Begin, Changes
<1> QED
  BY <1>1, <1>2, <1>3, <1>4, <1>5

(* The steps of a fresh deployment. *)
LEMMA FreshSteps ==
    ASSUME Inv,
           WriteBootstrap \/ SetUpIface \/ WriteUnit \/ DaemonReload \/ Enable \/ Start \/ Verified
    PROVE  Inv'
<1> USE DEF Inv, FilesOK, OpOK, OnDisk, SuccessIsOnDisk, BootDone, IfaceDone,
        UnitDone, Answered, Name, Wanted, Step, Fresh, Update, Upgrade, history, systemVars
<1>1. CASE WriteBootstrap
  BY <1>1 DEF WriteBootstrap
<1>2. CASE SetUpIface
  BY <1>2 DEF SetUpIface
<1>3. CASE WriteUnit
  BY <1>3 DEF WriteUnit
<1>4. CASE DaemonReload \/ Enable \/ Start
  BY <1>4 DEF DaemonReload, Enable, Start, diskVars
<1>5. CASE Verified
  BY <1>5 DEF Verified, Answer, diskVars, handlerVars
<1> QED
  BY <1>1, <1>2, <1>3, <1>4, <1>5

(* Failures of a fresh deployment: nothing is claimed of what they leave. *)
LEMMA FreshFailures ==
    ASSUME Inv,
           \/ WriteFails \/ IfaceFails \/ SystemctlFails
           \/ \E lost \in SUBSET CleanupParts : CleanupAndRollback(lost)
    PROVE  Inv'
<1> USE DEF Inv, FilesOK, OpOK, OnDisk, SuccessIsOnDisk, BootDone, IfaceDone,
        UnitDone, Answered, Fresh, Update, Upgrade
<1>1. CASE WriteFails
  BY <1>1 DEF WriteFails, StepFails, CutOff
<1>2. CASE IfaceFails
  BY <1>2 DEF IfaceFails, StepFails
<1>3. CASE SystemctlFails
  BY <1>3 DEF SystemctlFails, StepFails, diskVars
<1>4. CASE \E lost \in SUBSET CleanupParts : CleanupAndRollback(lost)
  <2>1. PICK lost \in SUBSET CleanupParts : CleanupAndRollback(lost)
    BY <1>4
  <2>2. FilesOK'
    BY <2>1 DEF CleanupAndRollback
  <2> QED
    BY <2>1, <2>2 DEF CleanupAndRollback, Answer
<1> QED
  BY <1>1, <1>2, <1>3, <1>4

(* The update path. *)
LEMMA UpdateSteps ==
    ASSUME Inv,
           \/ UpdateBootstrap \/ UpdateIface \/ UpdateUnit \/ UpdateReload \/ PassOver
           \/ \E restarts \in BOOLEAN : UpdateDone(restarts)
    PROVE  Inv'
<1> USE DEF Inv, FilesOK, OpOK, OnDisk, SuccessIsOnDisk, BootDone, IfaceDone,
        UnitDone, Answered, Name, Wanted, Apply, Fresh, Update, Upgrade, history,
        handlerVars, systemVars
<1>1. CASE UpdateBootstrap
  BY <1>1 DEF UpdateBootstrap
<1>2. CASE UpdateIface
  BY <1>2 DEF UpdateIface
<1>3. CASE UpdateUnit
  BY <1>3 DEF UpdateUnit
<1>4. CASE UpdateReload
  BY <1>4 DEF UpdateReload, diskVars
<1>5. CASE PassOver
  BY <1>5 DEF PassOver, Pass, diskVars
<1>6. CASE \E restarts \in BOOLEAN : UpdateDone(restarts)
  BY <1>6 DEF UpdateDone, Answer, diskVars
<1> QED
  BY <1>1, <1>2, <1>3, <1>4, <1>5, <1>6

LEMMA UpdateFailures ==
    ASSUME Inv, UpdateFails \/ UpdateCannotRestart
    PROVE  Inv'
<1>1. pc' = "idle" /\ reply' = "error"
  BY DEF UpdateFails, UpdateCannotRestart, UpdateError, Answer
<1>2. FilesOK'
  <2>1. CASE UpdateFails
    <3>1. /\ bootstrap' \in {bootstrap, CutOff(bootstrap)}
          /\ unit' \in {unit, CutOff(unit)}
      BY <2>1 DEF UpdateFails, diskVars
    <3> QED
      BY <3>1 DEF CutOff, Inv, FilesOK
  <2>2. CASE UpdateCannotRestart
    BY <2>2 DEF UpdateCannotRestart, diskVars, Inv, FilesOK
  <2> QED
    BY <2>1, <2>2
<1> QED
  BY <1>1, <1>2 DEF Inv, OpOK, OnDisk, SuccessIsOnDisk, BootDone, IfaceDone, UnitDone,
                    Answered, Fresh, Update, Upgrade

(* Undeploying and upgrading claim nothing of a deploy. *)
LEMMA OtherCommands ==
    ASSUME Inv,
           \/ \E r \in Requests : \E lost \in SUBSET CleanupParts : Undeploy(r, lost)
           \/ \E r \in Requests : UpgradeBegins(r) \/ UpgradeRefused(r)
    PROVE  Inv'
<1> USE DEF Inv, FilesOK, OpOK, OnDisk, SuccessIsOnDisk, BootDone, IfaceDone,
        UnitDone, Answered, Fresh, Update, Upgrade
<1>1. CASE \E r \in Requests : \E lost \in SUBSET CleanupParts : Undeploy(r, lost)
  <2>1. PICK r \in Requests, lost \in SUBSET CleanupParts : Undeploy(r, lost)
    BY <1>1
  <2>2. /\ bootstrap' \in {bootstrap, [bootstrap EXCEPT ![r.name] = None]}
        /\ unit' \in {unit, [unit EXCEPT ![r.name] = None]}
    BY <2>1 DEF Undeploy
  <2>3. pc' = "idle" /\ op'.kind = "undeploy"
    BY <2>1 DEF Undeploy, Answer
  <2>4. FilesOK'
    BY <2>2
  <2> QED
    BY <2>3, <2>4
<1>2. CASE \E r \in Requests : UpgradeBegins(r) \/ UpgradeRefused(r)
  BY <1>2 DEF UpgradeBegins, UpgradeRefused, Take, Begin, Refuse, Answer, diskVars
<1> QED
  BY <1>1, <1>2

LEMMA UpgradeSteps ==
    ASSUME Inv,
           \/ UpgradeUnit \/ UpgradeBootstrap \/ UpgradeReload \/ UpgradeRestart
           \/ UpgradeVerified \/ UpgradeFails
           \/ \E lost \in SUBSET RestoreParts : Restore(lost)
    PROVE  Inv'
<1> USE DEF Inv, FilesOK, OpOK, OnDisk, SuccessIsOnDisk, BootDone, IfaceDone,
        UnitDone, Answered, Fresh, Update, Upgrade, handlerVars
<1>1. CASE UpgradeUnit \/ UpgradeBootstrap \/ UpgradeReload \/ UpgradeRestart
  BY <1>1 DEF UpgradeUnit, UpgradeBootstrap, UpgradeReload, UpgradeRestart, UpgradeStep
<1>2. CASE UpgradeVerified
  BY <1>2 DEF UpgradeVerified, Answer, diskVars
<1>3. CASE UpgradeFails
  BY <1>3 DEF UpgradeFails, CutOff
<1>4. CASE \E lost \in SUBSET RestoreParts : Restore(lost)
  BY <1>4 DEF Restore, Answer
<1> QED
  BY <1>1, <1>2, <1>3, <1>4

LEMMA HostSteps ==
    ASSUME Inv, (\E v \in Versions : BinaryChanges(v)) \/ Crash \/ Reboot
    PROVE  Inv'
  BY DEF Inv, FilesOK, OpOK, OnDisk, SuccessIsOnDisk, BootDone, IfaceDone, UnitDone,
         Answered, Fresh, Update, Upgrade, BinaryChanges, Crash, Reboot, Answer,
         diskVars

LEMMA NextInv == Inv /\ [Next]_vars => Inv'
<1> SUFFICES ASSUME Inv, [Next]_vars PROVE Inv'
  OBVIOUS
<1>1. CASE \E r \in Requests :
             \/ DeployUnchanged(r) \/ DeployUpdates(r) \/ DeployFresh(r) \/ DeployRefused(r)
             \/ (\E part \in Parts : DeployMisreads(r, part))
  BY <1>1, TakesDeploy
<1>2. CASE UNCHANGED vars
  BY <1>2, Stutters DEF vars, diskVars, systemVars, handlerVars, history
<1> QED
  BY <1>1, <1>2, FreshSteps, FreshFailures, UpdateSteps, UpdateFailures, OtherCommands,
     UpgradeSteps, HostSteps DEF Next

(* Whatever the deployment was before, a deploy that reports success has    *)
(* left its files, its interface and its claim on the port as asked for.    *)
THEOREM DeploySuccessIsOnDisk == Spec => []SuccessIsOnDisk
<1>1. Init => Inv
  BY InitInv
<1>2. Inv /\ [Next]_vars => Inv'
  BY NextInv
<1>3. Inv => SuccessIsOnDisk
  BY DEF Inv
<1> QED
  BY <1>1, <1>2, <1>3, PTL DEF Spec
-----------------------------------------------------------------------------
(* Types.  A handler keeps the command it is at, and what it found before.   *)

Bootstraps == Configs \cup {None, Partial}
Units      == Versions \cup {None, Partial}

DiskTypeOK ==
    /\ bootstrap \in [Names -> Bootstraps] /\ unit \in [Names -> Units]
    /\ netplan \in Addrs \cup {None, Partial}

SystemTypeOK ==
    /\ iface \in Addrs \cup {None, Bare} /\ loaded \in [Names -> Units]
    /\ enabled \subseteq Names /\ running \in [Names -> Configs \cup {None}]

ControlTypeOK ==
    /\ binaries \subseteq Versions
    /\ activeDeployments \in Names \cup {None}
    /\ op \in Requests \cup {None}
    /\ pc \in {"idle", "rollback", "restore"} \cup Fresh \cup Update \cup Upgrade
    /\ done \subseteq Fresh /\ todo \subseteq Parts \cup {"unread"}

ReplyTypeOK ==
    /\ reply \in {"ok", "error", "none"} /\ clean \in BOOLEAN
    /\ failedAt \in {"none", "check"} \cup Fresh \cup Update \cup Upgrade
    /\ ops \in 0..MaxOps /\ failures \in 0..MaxFailures /\ crashes \in 0..MaxCrashes

LEMMA TypeParts == TypeOK <=> DiskTypeOK /\ SystemTypeOK /\ ControlTypeOK /\ ReplyTypeOK
  BY DEF TypeOK, DiskTypeOK, SystemTypeOK, ControlTypeOK, ReplyTypeOK, Bootstraps, Units

LEMMA TypePartsNext ==
    DiskTypeOK' /\ SystemTypeOK' /\ ControlTypeOK' /\ ReplyTypeOK' => TypeOK'
  BY DEF TypeOK, DiskTypeOK, SystemTypeOK, ControlTypeOK, ReplyTypeOK, Bootstraps, Units

BeforeOK ==
    /\ before = [bootstrap |-> before.bootstrap, unit |-> before.unit, netplan |-> before.netplan,
                 enabled |-> before.enabled, running |-> before.running]
    /\ before.bootstrap \in [Names -> Bootstraps] /\ before.unit \in [Names -> Units]

AtDeploy  == op \in Requests /\ op.kind = "deploy"
AtUpgrade == op \in Requests /\ op.kind = "upgrade"

HandlerOK ==
    /\ pc \in Fresh \cup Update \cup {"rollback"} => AtDeploy
    /\ pc \in Upgrade \cup {"restore"} => AtUpgrade

(* What an upgrade has changed so far, which is nothing beside its service.  *)
UpgradeOK ==
    /\ pc \in Upgrade \cup {"restore"} =>
         /\ before.bootstrap[Name] # None
         /\ \A n \in Names \ {Name} : unit[n] = before.unit[n] /\ bootstrap[n] = before.bootstrap[n]
    /\ pc = "uUnit" => unit[Name] = before.unit[Name]
    /\ pc \in {"uUnit", "uBoot"} => bootstrap[Name] = before.bootstrap[Name]

TypeInv == TypeOK /\ BeforeOK /\ HandlerOK /\ UpgradeOK

LEMMA RequestFields ==
    ASSUME NEW r \in Requests
    PROVE  /\ r.kind \in {"deploy", "undeploy", "upgrade"} /\ r.name \in Names
           /\ r.kind = "deploy" =>
                r.boot \in Boots /\ r.version \in Versions /\ r.addr \in Addrs
           /\ r.kind = "upgrade" => r.from \in Versions /\ r.to \in Versions
  BY DEF Requests

LEMMA InitTypeInv == Init => TypeInv
<1> SUFFICES ASSUME Init PROVE TypeInv
  OBVIOUS
<1> USE DeployAssumption DEF Init
<1>1. DiskTypeOK /\ SystemTypeOK
  BY DEF DiskTypeOK, SystemTypeOK, Bootstraps, Units
<1>2. ControlTypeOK
  BY DEF ControlTypeOK
<1>3. ReplyTypeOK
  BY DEF ReplyTypeOK
<1>4. BeforeOK
  BY DEF BeforeOK, Found, Bootstraps, Units
<1>5. HandlerOK /\ UpgradeOK
  BY DEF HandlerOK, UpgradeOK, Fresh, Update, Upgrade
<1> QED
  BY <1>1, <1>2, <1>3, <1>4, <1>5, TypeParts DEF TypeInv

(* A command that is taken leaves the host alone and fixes what was found.   *)
Taken(r) ==
    /\ ops < MaxOps /\ ops' = ops + 1 /\ op' = r /\ before' = Found /\ done' = {}
    /\ UNCHANGED failures \/ Fail
    /\ UNCHANGED <<diskVars, binaries, systemVars, crashes>>

LEMMA TakeTypes ==
    ASSUME TypeInv, NEW r \in Requests, Taken(r),
           activeDeployments' \in Names \cup {None},
           todo' \in SUBSET (Parts \cup {"unread"}),
           reply' \in {"ok", "error", "none"}, clean', failedAt' \in {"none", "check"},
           \/ pc' = "idle"
           \/ pc' \in {"upBoot", "boot"} /\ r.kind = "deploy"
           \/ pc' = "uUnit" /\ r.kind = "upgrade" /\ bootstrap[r.name] # None
    PROVE  TypeInv'
<1> USE DEF TypeInv, Taken
<1>1. DiskTypeOK' /\ SystemTypeOK'
  BY TypeParts DEF DiskTypeOK, SystemTypeOK, diskVars, systemVars
<1>2. ControlTypeOK'
  BY TypeParts DEF ControlTypeOK, Fresh, Update, Upgrade
<1>3. ReplyTypeOK'
  <2>1. clean' \in BOOLEAN
    BY Zenon
  <2> QED
    BY <2>1, TypeParts, DeployAssumption DEF ReplyTypeOK, Fail
<1>4. BeforeOK'
  BY TypeParts DEF BeforeOK, DiskTypeOK, Found, diskVars
<1>5. HandlerOK' /\ UpgradeOK'
  BY RequestFields DEF HandlerOK, UpgradeOK, AtDeploy, AtUpgrade, Fresh, Update, Upgrade, Found,
     diskVars, Name
<1> QED
  BY <1>1, <1>2, <1>3, <1>4, <1>5, TypePartsNext

LEMMA TakingTypes ==
    ASSUME TypeInv, NEW r \in Requests,
           \/ DeployUnchanged(r) \/ DeployUpdates(r) \/ DeployFresh(r) \/ DeployRefused(r)
           \/ (\E part \in Parts : DeployMisreads(r, part))
           \/ UpgradeBegins(r) \/ UpgradeRefused(r)
    PROVE  TypeInv'
<1>1. activeDeployments \in Names \cup {None} /\ todo \in SUBSET (Parts \cup {"unread"})
  BY DEF TypeInv, TypeOK
<1>2. Changes(r) \in SUBSET Parts /\ r.name \in Names
  BY RequestFields DEF Changes, Parts
<1>3. CASE DeployUnchanged(r)
  BY <1>1, <1>2, <1>3, TakeTypes DEF DeployUnchanged, Answer, Take, Taken
<1>4. CASE DeployUpdates(r)
  BY <1>1, <1>2, <1>4, TakeTypes DEF DeployUpdates, Begin, Take, Taken
<1>5. CASE DeployFresh(r)
  BY <1>1, <1>2, <1>5, TakeTypes DEF DeployFresh, Begin, Take, Taken
<1>6. CASE DeployRefused(r) \/ UpgradeRefused(r)
  BY <1>1, <1>6, TakeTypes DEF DeployRefused, UpgradeRefused, Refuse, Answer, Take, Taken
<1>7. CASE UpgradeBegins(r)
  BY <1>1, <1>7, TakeTypes DEF UpgradeBegins, Begin, Reads, Take, Taken
<1>8. CASE \E part \in Parts : DeployMisreads(r, part)
  BY <1>1, <1>2, <1>8, TakeTypes DEF DeployMisreads, Begin, Taken
<1> QED
  BY <1>3, <1>4, <1>5, <1>6, <1>7, <1>8

(* A step of a handler keeps its command and what it found.                  *)
LEMMA HandlerTypes ==
    ASSUME TypeInv, UNCHANGED <<op, before, todo, binaries>>,
           DiskTypeOK', SystemTypeOK', ReplyTypeOK', UpgradeOK',
           done' \subseteq Fresh, activeDeployments' \in Names \cup {None},
           \/ pc' = "idle"
           \/ /\ pc \in Fresh \cup Update \cup {"rollback"}
              /\ pc' \in Fresh \cup Update \cup {"rollback"}
           \/ pc \in Upgrade \cup {"restore"} /\ pc' \in Upgrade \cup {"restore"}
    PROVE  TypeInv'
<1> USE DEF TypeInv
<1>1. ControlTypeOK'
  BY TypeParts DEF ControlTypeOK
<1>2. BeforeOK'
  BY DEF BeforeOK
<1>3. HandlerOK'
  BY DEF HandlerOK, AtDeploy, AtUpgrade, Fresh, Update, Upgrade
<1> QED
  BY <1>1, <1>2, <1>3, TypePartsNext

(* What the steps of the two ways to deploy write.                           *)
LEMMA DeployFacts ==
    ASSUME TypeInv, pc \in Fresh \cup Update \cup {"rollback"}
    PROVE  /\ Name \in Names /\ op.addr \in Addrs /\ op.version \in Versions
           /\ Wanted \in Configs
  BY RequestFields DEF TypeInv, HandlerOK, AtDeploy, Name, Wanted, Configs

LEMMA Starts ==
    ASSUME TypeInv, Name \in Names, CanStart(Name)
    PROVE  StartedOn(Name) \in Configs
  BY DEF TypeInv, TypeOK, CanStart, StartedOn, Configs

LEMMA FreshTypes ==
    ASSUME TypeInv,
           WriteBootstrap \/ SetUpIface \/ WriteUnit \/ DaemonReload \/ Enable \/ Start \/ Verified
    PROVE  TypeInv'
<1>1. pc \in Fresh /\ (pc' \in Fresh \/ pc' = "idle")
  BY DEF WriteBootstrap, SetUpIface, WriteUnit, DaemonReload, Enable, Start, Verified, Step,
         Answer, Fresh
<1>2. Name \in Names /\ op.addr \in Addrs /\ op.version \in Versions /\ Wanted \in Configs
  BY <1>1, DeployFacts
<1>3. /\ DiskTypeOK /\ SystemTypeOK /\ ControlTypeOK /\ ReplyTypeOK
  BY TypeParts DEF TypeInv
<1>4. DiskTypeOK' /\ SystemTypeOK'
  <2> USE <1>2, <1>3 DEF DiskTypeOK, SystemTypeOK, Bootstraps, Units
  <2>1. CASE WriteBootstrap
    BY <2>1 DEF WriteBootstrap, systemVars
  <2>2. CASE SetUpIface
    BY <2>2 DEF SetUpIface
  <2>3. CASE WriteUnit
    BY <2>3 DEF WriteUnit, systemVars
  <2>4. CASE DaemonReload \/ Enable
    BY <2>4 DEF DaemonReload, Enable, diskVars
  <2>5. CASE Start
    BY <2>5, Starts DEF Start, diskVars
  <2>6. CASE Verified
    BY <2>6 DEF Verified, diskVars, systemVars
  <2> QED
    BY <2>1, <2>2, <2>3, <2>4, <2>5, <2>6
<1>5. /\ UNCHANGED <<op, before, todo, binaries, activeDeployments>>
      /\ UNCHANGED <<failedAt, clean, ops, failures, crashes>>
      /\ reply' \in {reply, "ok"} /\ done' \in {done, done \cup {pc}}
  BY DEF WriteBootstrap, SetUpIface, WriteUnit, DaemonReload, Enable, Start, Verified, Step,
         Answer, handlerVars, history, bounds
<1>6. ReplyTypeOK' /\ done' \subseteq Fresh /\ activeDeployments' \in Names \cup {None}
  BY <1>1, <1>3, <1>5 DEF ReplyTypeOK, ControlTypeOK
<1>7. UpgradeOK'
  BY <1>1 DEF UpgradeOK, Fresh, Upgrade
<1> QED
  BY <1>1, <1>4, <1>5, <1>6, <1>7, HandlerTypes

LEMMA FreshFailureTypes ==
    ASSUME TypeInv,
           \/ WriteFails \/ IfaceFails \/ SystemctlFails
           \/ \E lost \in SUBSET CleanupParts : CleanupAndRollback(lost)
    PROVE  TypeInv'
<1>1. pc \in Fresh \cup {"rollback"} /\ pc' \in {"rollback", "idle"}
  BY DEF WriteFails, IfaceFails, SystemctlFails, StepFails, CleanupAndRollback, Answer, Fresh
<1>2. Name \in Names /\ op.addr \in Addrs
  BY <1>1, DeployFacts
<1>3. /\ DiskTypeOK /\ SystemTypeOK /\ ControlTypeOK /\ ReplyTypeOK
  BY TypeParts DEF TypeInv
<1>4. DiskTypeOK' /\ SystemTypeOK'
  <2> USE <1>2, <1>3 DEF DiskTypeOK, SystemTypeOK, Bootstraps, Units, StepFails
  <2>1. CASE WriteFails
    BY <2>1 DEF WriteFails, CutOff
  <2>2. CASE IfaceFails
    BY <2>2 DEF IfaceFails, IfaceHalfDone
  <2>3. CASE SystemctlFails
    <3>1. running' \in [Names -> Configs \cup {None}]
      BY <2>3, Starts DEF SystemctlFails
    <3>2. enabled' \subseteq Names
      BY <2>3 DEF SystemctlFails
    <3> QED
      BY <2>3, <3>1, <3>2 DEF SystemctlFails, diskVars
  <2>4. CASE \E lost \in SUBSET CleanupParts : CleanupAndRollback(lost)
    <3>1. PICK lost \in SUBSET CleanupParts : CleanupAndRollback(lost)
      BY <2>4
    <3>2. /\ running' \in {running, [running EXCEPT ![Name] = None]}
          /\ enabled' \in {enabled, enabled \ {Name}}
          /\ bootstrap' \in {bootstrap, [bootstrap EXCEPT ![Name] = None]}
          /\ unit' \in {unit, [unit EXCEPT ![Name] = None]}
          /\ loaded' \in {loaded, unit'} /\ netplan' \in {netplan, None}
          /\ iface' \in {iface, None}
      BY <3>1 DEF CleanupAndRollback
    <3> QED
      BY <3>2
  <2> QED
    BY <2>1, <2>2, <2>3, <2>4
<1>5. /\ UNCHANGED <<op, before, todo, binaries, ops, crashes>>
      /\ activeDeployments' \in {activeDeployments, None}
      /\ failedAt' \in {failedAt, pc} /\ (pc = "rollback" => failedAt' = failedAt)
      /\ reply' \in {reply, "error"}
      /\ done' \in {done, done \cup {"iface"}}
      /\ UNCHANGED failures \/ Fail
  BY DEF WriteFails, IfaceFails, SystemctlFails, StepFails, CleanupAndRollback, Answer, Loses,
         handlerVars, Fail
<1>6. clean' \in BOOLEAN
  <2>1. clean \in BOOLEAN
    BY <1>3 DEF ReplyTypeOK
  <2> QED
    BY <2>1, Zenon DEF WriteFails, IfaceFails, SystemctlFails, StepFails, CleanupAndRollback, Loses
<1>7. ReplyTypeOK' /\ done' \subseteq Fresh /\ activeDeployments' \in Names \cup {None}
  BY <1>1, <1>3, <1>5, <1>6, DeployAssumption DEF ReplyTypeOK, ControlTypeOK, Fresh, Fail
<1>8. UpgradeOK'
  BY <1>1 DEF UpgradeOK, Upgrade
<1> QED
  BY <1>1, <1>4, <1>5, <1>7, <1>8, HandlerTypes

LEMMA UpdateTypes ==
    ASSUME TypeInv,
           \/ UpdateBootstrap \/ UpdateIface \/ UpdateUnit \/ UpdateReload \/ PassOver
           \/ \E restarts \in BOOLEAN : UpdateDone(restarts)
           \/ UpdateFails \/ UpdateCannotRestart
    PROVE  TypeInv'
<1>1. pc \in Update /\ (pc' \in Update \/ pc' = "idle")
  BY DEF UpdateBootstrap, UpdateIface, UpdateUnit, UpdateReload, PassOver, Pass, Apply,
         UpdateDone, UpdateFails, UpdateCannotRestart, UpdateError, Answer, Update
<1>2. Name \in Names /\ op.addr \in Addrs /\ op.version \in Versions /\ Wanted \in Configs
  BY <1>1, DeployFacts
<1>3. /\ DiskTypeOK /\ SystemTypeOK /\ ControlTypeOK /\ ReplyTypeOK
  BY TypeParts DEF TypeInv
<1>4. DiskTypeOK' /\ SystemTypeOK'
  <2> USE <1>2, <1>3 DEF DiskTypeOK, SystemTypeOK, Bootstraps, Units, Apply
  <2>1. CASE UpdateBootstrap \/ UpdateIface \/ UpdateUnit \/ UpdateReload
    BY <2>1 DEF UpdateBootstrap, UpdateIface, UpdateUnit, UpdateReload, diskVars, systemVars
  <2>2. CASE PassOver
    BY <2>2 DEF PassOver, Pass, diskVars, systemVars
  <2>3. CASE \E restarts \in BOOLEAN : UpdateDone(restarts)
    BY <2>3, Starts DEF UpdateDone, diskVars
  <2>4. CASE UpdateFails
    <3>1. /\ bootstrap' \in {bootstrap, CutOff(bootstrap)} /\ unit' \in {unit, CutOff(unit)}
          /\ netplan' \in {netplan, Partial, op.addr, None} /\ iface' \in {iface, Bare}
          /\ running' \in {running, [running EXCEPT ![Name] = None]}
      BY <2>4 DEF UpdateFails, IfaceHalfDone, diskVars
    <3> QED
      BY <2>4, <3>1 DEF UpdateFails, UpdateError, CutOff
  <2>5. CASE UpdateCannotRestart
    BY <2>5 DEF UpdateCannotRestart, UpdateError, diskVars
  <2> QED
    BY <2>1, <2>2, <2>3, <2>4, <2>5
<1>5. /\ UNCHANGED <<op, before, todo, done, binaries, clean, ops, crashes>>
      /\ activeDeployments' \in {activeDeployments, Name}
      /\ failedAt' \in {failedAt, pc} /\ reply' \in {reply, "ok", "error"}
      /\ UNCHANGED failures \/ Fail
  BY DEF UpdateBootstrap, UpdateIface, UpdateUnit, UpdateReload, PassOver, Pass, Apply,
         UpdateDone, UpdateFails, UpdateCannotRestart, UpdateError, Answer, handlerVars,
         history, bounds
<1>6. ReplyTypeOK'
  <2>1. clean' \in BOOLEAN
    BY <1>3, <1>5, Zenon DEF ReplyTypeOK
  <2> QED
    BY <1>1, <1>3, <1>5, <2>1, DeployAssumption DEF ReplyTypeOK, Fail
<1>7. UpgradeOK'
  BY <1>1 DEF UpgradeOK, Update, Upgrade
<1> QED
  BY <1>1, <1>2, <1>3, <1>4, <1>5, <1>6, <1>7, HandlerTypes DEF ControlTypeOK

LEMMA UndeployTypes ==
    ASSUME TypeInv, NEW r \in Requests, NEW lost \in SUBSET CleanupParts, Undeploy(r, lost)
    PROVE  TypeInv'
<1>1. /\ DiskTypeOK /\ SystemTypeOK /\ ControlTypeOK /\ ReplyTypeOK
  BY TypeParts DEF TypeInv
<1>2. r.name \in Names
  BY RequestFields
<1>3. /\ running' \in {running, [running EXCEPT ![r.name] = None]}
      /\ enabled' \in {enabled, enabled \ {r.name}} /\ iface' \in {iface, None}
      /\ bootstrap' \in {bootstrap, [bootstrap EXCEPT ![r.name] = None]}
      /\ unit' \in {unit, [unit EXCEPT ![r.name] = None]}
      /\ netplan' \in {netplan, None} /\ loaded' \in {loaded, unit'}
  BY DEF Undeploy
<1>4. DiskTypeOK' /\ SystemTypeOK'
  BY <1>1, <1>2, <1>3 DEF DiskTypeOK, SystemTypeOK, Bootstraps, Units
<1>5. /\ ops' = ops + 1 /\ ops < MaxOps /\ op' = r /\ before' = Found /\ done' = {}
      /\ pc' = "idle" /\ reply' = "ok" /\ failedAt' = "none" /\ activeDeployments' = None
      /\ UNCHANGED <<binaries, todo, crashes>>
      /\ UNCHANGED failures \/ Fail
  BY DEF Undeploy, Answer, Loses, Fail
<1>6. ControlTypeOK'
  BY <1>1, <1>5 DEF ControlTypeOK
<1>7. ReplyTypeOK'
  <2>1. clean' \in BOOLEAN
    BY Zenon DEF Undeploy, Loses
  <2> QED
    BY <1>1, <1>5, <2>1, DeployAssumption DEF ReplyTypeOK, Fail
<1>8. BeforeOK'
  BY <1>1, <1>5 DEF BeforeOK, Found, DiskTypeOK
<1>9. HandlerOK' /\ UpgradeOK'
  BY <1>5 DEF HandlerOK, UpgradeOK, Fresh, Update, Upgrade
<1> QED
  BY <1>4, <1>6, <1>7, <1>8, <1>9, TypePartsNext DEF TypeInv

(* Outside its own service an upgrade changes nothing.                       *)
LEMMA UpgradeTypes ==
    ASSUME TypeInv,
           \/ UpgradeUnit \/ UpgradeBootstrap \/ UpgradeReload \/ UpgradeRestart
           \/ UpgradeVerified \/ UpgradeFails
           \/ \E lost \in SUBSET RestoreParts : Restore(lost)
    PROVE  TypeInv'
<1>1. pc \in Upgrade \cup {"restore"} /\ (pc' \in Upgrade \cup {"restore"} \/ pc' = "idle")
  BY DEF UpgradeUnit, UpgradeBootstrap, UpgradeReload, UpgradeRestart, UpgradeVerified,
         UpgradeFails, Restore, UpgradeStep, Answer, Upgrade
<1>2. Name \in Names /\ op.from \in Versions /\ op.to \in Versions
  BY <1>1, RequestFields DEF TypeInv, HandlerOK, AtUpgrade, Name
<1>3. /\ DiskTypeOK /\ SystemTypeOK /\ ControlTypeOK /\ ReplyTypeOK /\ UpgradeOK /\ BeforeOK
  BY TypeParts DEF TypeInv
<1>4. UNCHANGED <<op, before, todo, done, binaries, activeDeployments, netplan, iface, enabled>>
  BY DEF UpgradeUnit, UpgradeBootstrap, UpgradeReload, UpgradeRestart, UpgradeVerified,
         UpgradeFails, Restore, UpgradeStep, handlerVars, diskVars, systemVars
<1>5. \E b \in Bootstraps, u \in Units :
         /\ bootstrap' \in {bootstrap, [bootstrap EXCEPT ![Name] = b]}
         /\ unit' \in {unit, [unit EXCEPT ![Name] = u]}
         /\ loaded' \in {loaded, unit'}
  <2> USE <1>2, <1>3 DEF DiskTypeOK, Bootstraps, Units
  <2>1. CASE UpgradeUnit
    BY <2>1 DEF UpgradeUnit, UpgradeStep
  <2>2. CASE UpgradeBootstrap
    <3>1. bootstrap[Name] \in Configs \/ bootstrap[Name] = Partial
      BY <1>1, <2>2 DEF UpgradeBootstrap, UpgradeStep, UpgradeOK
    <3> DEFINE b == [bootstrap[Name] EXCEPT !.version = op.to]
    <3>2. bootstrap[Name] \in Configs => b \in Configs
      BY DEF Configs
    <3>3. CASE bootstrap' = bootstrap
      BY <2>2, <3>3 DEF UpgradeBootstrap
    <3>4. CASE bootstrap' # bootstrap
      <4>1. bootstrap' = [bootstrap EXCEPT ![Name] = b] /\ bootstrap[Name] # Partial
        BY <2>2, <3>4 DEF UpgradeBootstrap
      <4> QED
        BY <2>2, <3>1, <3>2, <4>1 DEF UpgradeBootstrap
    <3> QED
      BY <3>3, <3>4
  <2>3. CASE UpgradeReload \/ UpgradeRestart \/ UpgradeVerified
    BY <2>3 DEF UpgradeReload, UpgradeRestart, UpgradeVerified, diskVars, systemVars
  <2>4. CASE UpgradeFails
    BY <2>4 DEF UpgradeFails, CutOff
  <2>5. CASE \E lost \in SUBSET RestoreParts : Restore(lost)
    <3>1. before.bootstrap[Name] \in Bootstraps /\ before.unit[Name] \in Units
      BY DEF BeforeOK
    <3> QED
      BY <2>5, <3>1 DEF Restore
  <2> QED
    BY <2>1, <2>2, <2>3, <2>4, <2>5
<1>6. DiskTypeOK'
  BY <1>2, <1>3, <1>4, <1>5 DEF DiskTypeOK
<1>7. running' \in [Names -> Configs \cup {None}]
  <2> USE <1>2, <1>3 DEF SystemTypeOK
  <2>1. CASE UpgradeUnit \/ UpgradeBootstrap \/ UpgradeReload \/ UpgradeVerified \/ UpgradeFails
    BY <2>1 DEF UpgradeUnit, UpgradeBootstrap, UpgradeReload, UpgradeVerified, UpgradeFails,
                systemVars
  <2>2. CASE UpgradeRestart
    BY <2>2, Starts DEF UpgradeRestart
  <2>3. CASE \E lost \in SUBSET RestoreParts : Restore(lost)
    <3>1. Name' = Name
      BY <1>4 DEF Name
    <3>2. loaded' \in [Names -> Units]
      BY <1>3, <1>5, <1>6 DEF DiskTypeOK
    <3>3. CanStart(Name)' => StartedOn(Name)' \in Configs
      BY <1>3, <1>4, <1>6, <3>1, <3>2 DEF CanStart, StartedOn, UnitOf, Configs, DiskTypeOK,
         ControlTypeOK
    <3>4. running' \in {running, [running EXCEPT ![Name] = None]}
          \/ running' = [running EXCEPT ![Name] =
                            IF CanStart(Name)' THEN StartedOn(Name)' ELSE None]
      BY <2>3 DEF Restore
    <3> QED
      BY <3>3, <3>4
  <2> QED
    BY <2>1, <2>2, <2>3
<1>8. SystemTypeOK'
  BY <1>3, <1>4, <1>5, <1>6, <1>7 DEF SystemTypeOK, DiskTypeOK
<1>9. /\ failedAt' \in {failedAt, pc} /\ (pc = "restore" => failedAt' = failedAt)
      /\ reply' \in {reply, "ok", "error"} /\ UNCHANGED <<ops, crashes>>
      /\ UNCHANGED failures \/ Fail
  <2>1. CASE UpgradeUnit \/ UpgradeBootstrap \/ UpgradeReload \/ UpgradeRestart
    BY <2>1 DEF UpgradeUnit, UpgradeBootstrap, UpgradeReload, UpgradeRestart, UpgradeStep,
                history, bounds
  <2>2. CASE UpgradeVerified
    BY <2>2 DEF UpgradeVerified, Answer, bounds
  <2>3. CASE UpgradeFails
    BY <2>3 DEF UpgradeFails, Upgrade
  <2>4. CASE \E lost \in SUBSET RestoreParts : Restore(lost)
    <3>1. PICK lost \in SUBSET RestoreParts : Restore(lost)
      BY <2>4
    <3>2. UNCHANGED failures \/ Fail
      BY <3>1 DEF Restore, Loses
    <3> QED
      BY <3>1, <3>2 DEF Restore, Answer
  <2> QED
    BY <2>1, <2>2, <2>3, <2>4
<1>10. clean' \in BOOLEAN
  <2>1. clean \in BOOLEAN
    BY <1>3 DEF ReplyTypeOK
  <2> QED
    BY <2>1, Zenon DEF UpgradeUnit, UpgradeBootstrap, UpgradeReload, UpgradeRestart,
         UpgradeVerified, UpgradeFails, Restore, UpgradeStep, Loses, history
<1>11. ReplyTypeOK'
  BY <1>1, <1>3, <1>9, <1>10, DeployAssumption DEF ReplyTypeOK, Fail
<1>12. UpgradeOK'
  <2>1. \A n \in Names \ {Name} : unit'[n] = unit[n] /\ bootstrap'[n] = bootstrap[n]
    BY <1>2, <1>3, <1>5 DEF DiskTypeOK
  <2>2. pc' # "uUnit" /\ (pc' = "uBoot" => pc = "uUnit" /\ bootstrap' = bootstrap)
    <3>1. CASE UpgradeUnit
      BY <3>1 DEF UpgradeUnit, UpgradeStep
    <3>2. CASE UpgradeBootstrap \/ UpgradeReload \/ UpgradeRestart \/ UpgradeVerified
      BY <3>2 DEF UpgradeBootstrap, UpgradeReload, UpgradeRestart, UpgradeVerified,
                  UpgradeStep, Answer
    <3>3. CASE UpgradeFails \/ \E lost \in SUBSET RestoreParts : Restore(lost)
      BY <3>3 DEF UpgradeFails, Restore, Answer
    <3> QED
      BY <3>1, <3>2, <3>3
  <2> QED
    BY <1>1, <1>3, <1>4, <2>1, <2>2 DEF UpgradeOK, Name, Upgrade
<1> QED
  BY <1>1, <1>3, <1>4, <1>6, <1>8, <1>11, <1>12, HandlerTypes DEF ControlTypeOK

(* ... and so do the host and the client's deaths.                           *)
LEMMA HostTypes ==
    ASSUME TypeInv, (\E v \in Versions : BinaryChanges(v)) \/ Crash \/ Reboot \/ UNCHANGED vars
    PROVE  TypeInv'
<1>1. /\ DiskTypeOK /\ SystemTypeOK /\ ControlTypeOK /\ ReplyTypeOK /\ BeforeOK
  BY TypeParts DEF TypeInv
<1>2. CASE UNCHANGED vars
  <2>1. DiskTypeOK' /\ SystemTypeOK' /\ ControlTypeOK' /\ BeforeOK'
    BY <1>1, <1>2 DEF vars, diskVars, systemVars, handlerVars, DiskTypeOK, SystemTypeOK,
       ControlTypeOK, BeforeOK
  <2>2. ReplyTypeOK'
    BY <1>1, <1>2, Zenon DEF vars, history, bounds, ReplyTypeOK
  <2>3. HandlerOK' /\ UpgradeOK'
    BY <1>2 DEF TypeInv, vars, handlerVars, diskVars, HandlerOK, UpgradeOK, AtDeploy, AtUpgrade,
       Name
  <2> QED
    BY <2>1, <2>2, <2>3, TypePartsNext DEF TypeInv
<1>3. ASSUME (\E v \in Versions : BinaryChanges(v)) \/ Crash \/ Reboot
      PROVE  TypeInv'
  <2>1. /\ pc' = "idle" /\ reply' = "none" /\ op' = None /\ UNCHANGED <<diskVars, before>>
        /\ done' \subseteq Fresh /\ todo' \in SUBSET (Parts \cup {"unread"})
        /\ activeDeployments' \in Names \cup {None} /\ binaries' \subseteq Versions
    BY <1>1, <1>3 DEF BinaryChanges, Crash, Reboot, Answer, ControlTypeOK
  <2>2. DiskTypeOK' /\ BeforeOK'
    BY <1>1, <2>1 DEF DiskTypeOK, BeforeOK, diskVars
  <2>3. ControlTypeOK'
    BY <2>1 DEF ControlTypeOK
  <2>4. SystemTypeOK'
    <3>1. CASE (\E v \in Versions : BinaryChanges(v)) \/ Crash
      BY <1>1, <3>1 DEF BinaryChanges, Crash, SystemTypeOK, systemVars
    <3>2. CASE Reboot
      BY <1>1, <3>2 DEF Reboot, SystemTypeOK, DiskTypeOK, ControlTypeOK, Units, Bootstraps, Configs
    <3> QED
      BY <1>3, <3>1, <3>2
  <2>5. ReplyTypeOK'
    <3>1. clean' \in BOOLEAN
      <4>1. clean \in BOOLEAN
        BY <1>1 DEF ReplyTypeOK
      <4> QED
        BY <1>3, <4>1, Zenon DEF BinaryChanges, Crash, Reboot
    <3>2. /\ ops' \in 0..MaxOps /\ UNCHANGED failures /\ crashes' \in 0..MaxCrashes
          /\ failedAt' \in {failedAt, "none"}
      BY <1>1, <1>3, DeployAssumption DEF BinaryChanges, Crash, Reboot, ReplyTypeOK
    <3> QED
      BY <1>1, <2>1, <3>1, <3>2 DEF ReplyTypeOK
  <2>6. HandlerOK' /\ UpgradeOK'
    BY <2>1 DEF HandlerOK, UpgradeOK, Fresh, Update, Upgrade
  <2> QED
    BY <2>2, <2>3, <2>4, <2>5, <2>6, TypePartsNext DEF TypeInv
<1> QED
  BY <1>2, <1>3

LEMMA NextTypeInv == TypeInv /\ [Next]_vars => TypeInv'
<1> SUFFICES ASSUME TypeInv, [Next]_vars PROVE TypeInv'
  OBVIOUS
<1> QED
  BY TakingTypes, FreshTypes, FreshFailureTypes, UpdateTypes, UndeployTypes, UpgradeTypes,
     HostTypes DEF Next

(* Whatever a handler is doing, and wherever it failed or died, each file is *)
(* whole, cut off or absent, and each command is under way on a name of its  *)
(* own: no step reads a part of a record that is not there.                  *)
THEOREM TypeCorrect == Spec => []TypeOK
<1>1. TypeInv => TypeOK
  BY DEF TypeInv
<1> QED
  BY InitTypeInv, NextTypeInv, <1>1, PTL DEF Spec
-----------------------------------------------------------------------------
(* What the process runs on, and what a failure leaves: step by step.        *)

DeployRunsSoFar ==
    /\ pc \in {"enable", "start", "verify"} => loaded[Name] = op.version
    /\ pc = "verify" => running[Name] = Wanted
    /\ pc \in Update =>
         /\ running[Name] = before.running[Name]
         /\ "boot" \notin todo => before.bootstrap[Name] = Wanted
         /\ "unit" \notin todo => before.unit[Name] = op.version
    /\ pc = "upRestart" /\ "unit" \in todo => loaded[Name] = op.version

UpgradeRunsSoFar ==
    /\ pc \in {"uBoot", "uReload", "uRestart", "uVerify"} =>
         unit[Name] = IF before.unit[Name] = op.from THEN op.to ELSE before.unit[Name]
    /\ pc \in {"uRestart", "uVerify"} => loaded[Name] = unit[Name]
    /\ pc = "uVerify" => running[Name] = StartedOn(Name)

FailedIn(step) == pc = "rollback" /\ failedAt = step

(* What is not in done is as it was found, but for the step that failed.     *)
LeavesSoFar ==
    pc \in Fresh \cup {"rollback"} =>
        /\ "boot" \notin done => bootstrap[Name] = before.bootstrap[Name] \/ FailedIn("boot")
        /\ "iface" \notin done =>
             (netplan = before.netplan \/ FailedIn("iface")) /\ iface = None
        /\ "unit" \notin done => unit[Name] = before.unit[Name] \/ FailedIn("unit")
        /\ "enable" \notin done =>
             (Name \in enabled => Name \in before.enabled \/ FailedIn("enable"))
        /\ "start" \notin done =>
             running[Name] \in {None, before.running[Name]} \/ FailedIn("start")
        /\ "enable" \in done \/ "start" \in done => loaded[Name] \in Versions

Outcomes == SuccessRuns /\ OnlyFailedStepLeaves /\ UpgradeRollsBack
SoFar    == DeployRunsSoFar /\ UpgradeRunsSoFar /\ LeavesSoFar
AllInv   == TypeInv /\ Inv /\ SoFar /\ Outcomes

(* A step after which no deploy and no upgrade is answered.                  *)
LEMMA Silent ==
    ASSUME pc' # "idle" \/ op' = None \/ op'.kind \notin {"deploy", "upgrade"}
    PROVE  Outcomes'
  BY DEF Outcomes, SuccessRuns, OnlyFailedStepLeaves, UpgradeRollsBack, Answered

LEMMA Idle == pc' = "idle" => SoFar'
  BY DEF SoFar, DeployRunsSoFar, UpgradeRunsSoFar, LeavesSoFar, Fresh, Update, Upgrade

LEMMA InitAll == Init => SoFar /\ Outcomes
  BY DEF Init, SoFar, DeployRunsSoFar, UpgradeRunsSoFar, LeavesSoFar, Outcomes, SuccessRuns,
     OnlyFailedStepLeaves, UpgradeRollsBack, Answered, Fresh, Update, Upgrade

(* A command comes in.                                                       *)
LEMMA TakingAll ==
    ASSUME AllInv, NEW r \in Requests,
           \/ DeployUnchanged(r) \/ DeployUpdates(r) \/ DeployFresh(r) \/ DeployRefused(r)
           \/ (\E part \in Parts : DeployMisreads(r, part))
           \/ UpgradeBegins(r) \/ UpgradeRefused(r)
    PROVE  SoFar' /\ Outcomes'
<1>1. r.name \in Names
  BY RequestFields
<1>2. CASE DeployUnchanged(r)
  <2>1. /\ pc' = "idle" /\ op' = r /\ reply' = "ok" /\ UNCHANGED <<diskVars, systemVars>>
        /\ before' = Found /\ r.kind = "deploy"
        /\ bootstrap[r.name] = [boot |-> r.boot, version |-> r.version]
        /\ unit[r.name] = r.version
    BY <1>2 DEF DeployUnchanged, Take, Answer, Changes
  <2>2. Outcomes'
    BY <2>1 DEF Outcomes, SuccessRuns, DeployRuns, OnlyFailedStepLeaves, UpgradeRollsBack,
       Answered, Name, Wanted, Found, diskVars, systemVars
  <2> QED
    BY <2>1, <2>2, Idle
<1>3. CASE DeployUpdates(r)
  <2>1. /\ pc' = "upBoot" /\ op' = r /\ UNCHANGED <<diskVars, systemVars>> /\ before' = Found
        /\ todo' = Changes(r)
    BY <1>3 DEF DeployUpdates, Take, Begin
  <2> QED
    BY <2>1, Silent DEF SoFar, DeployRunsSoFar, UpgradeRunsSoFar, LeavesSoFar, Changes, Found,
       Name, Wanted, Fresh, Update, Upgrade, diskVars, systemVars
<1>7. CASE \E part \in Parts : DeployMisreads(r, part)
  <2>1. /\ pc' = "upBoot" /\ op' = r /\ UNCHANGED <<diskVars, systemVars>> /\ before' = Found
        /\ Changes(r) \subseteq todo'
    BY <1>7 DEF DeployMisreads, Begin
  <2> QED
    BY <2>1, Silent DEF SoFar, DeployRunsSoFar, UpgradeRunsSoFar, LeavesSoFar, Changes, Found,
       Name, Wanted, Fresh, Update, Upgrade, diskVars, systemVars
<1>4. CASE DeployFresh(r)
  <2>1. /\ pc' = "boot" /\ op' = r /\ UNCHANGED <<diskVars, systemVars>> /\ before' = Found
        /\ done' = {} /\ iface = None
    BY <1>4 DEF DeployFresh, Take, Begin, Prerequisites
  <2> QED
    BY <2>1, Silent DEF SoFar, DeployRunsSoFar, UpgradeRunsSoFar, LeavesSoFar, Found,
       Name, Update, diskVars, systemVars
<1>5. CASE DeployRefused(r) \/ UpgradeRefused(r)
  <2>1. pc' = "idle" /\ reply' = "error" /\ failedAt' = "check"
    BY <1>5 DEF DeployRefused, UpgradeRefused, Refuse, Answer
  <2> QED
    BY <2>1, Idle DEF Outcomes, SuccessRuns, OnlyFailedStepLeaves, UpgradeRollsBack, Answered,
       Fresh, Upgrade
<1>6. CASE UpgradeBegins(r)
  <2>1. pc' = "uUnit"
    BY <1>6 DEF UpgradeBegins, Begin
  <2> QED
    BY <2>1, Silent DEF SoFar, DeployRunsSoFar, UpgradeRunsSoFar, LeavesSoFar, Fresh, Update
<1> QED
  BY <1>2, <1>3, <1>4, <1>5, <1>6, <1>7

(* The steps of a fresh deployment: each adds itself to done.                *)
LEMMA FreshAll ==
    ASSUME AllInv,
           WriteBootstrap \/ SetUpIface \/ WriteUnit \/ DaemonReload \/ Enable \/ Start \/ Verified
    PROVE  SoFar' /\ Outcomes'
<1>1. pc \in Fresh
  BY DEF WriteBootstrap, SetUpIface, WriteUnit, DaemonReload, Enable, Start, Verified, Step, Fresh
<1>2. /\ Name \in Names /\ op.version \in Versions /\ op.kind = "deploy"
  BY <1>1, DeployFacts DEF AllInv, TypeInv, HandlerOK, AtDeploy
<1>3. /\ bootstrap \in [Names -> Bootstraps] /\ unit \in [Names -> Units]
      /\ loaded \in [Names -> Units] /\ running \in [Names -> Configs \cup {None}]
  BY TypeParts DEF AllInv, TypeInv, DiskTypeOK, SystemTypeOK
<1>4. OnDisk /\ DeployRunsSoFar /\ LeavesSoFar
  BY DEF AllInv, Inv, SoFar
<1>5. CASE Verified
  <2>1. /\ pc = "verify" /\ pc' = "idle" /\ reply' = "ok"
        /\ UNCHANGED <<diskVars, systemVars, op, before>>
    BY <1>5 DEF Verified, Answer, handlerVars
  <2>2. loaded[Name] = op.version /\ loaded[Name] # None /\ running[Name] = Wanted
    BY <1>2, <1>4, <2>1, DeployAssumption DEF DeployRunsSoFar
  <2>3. Outcomes'
    BY <1>2, <2>1, <2>2 DEF Outcomes, SuccessRuns, DeployRuns, OnlyFailedStepLeaves,
       UpgradeRollsBack, Answered, Name, Wanted, UnitOf, diskVars, systemVars
  <2> QED
    BY <2>1, <2>3, Idle
<1>6. ASSUME WriteBootstrap \/ SetUpIface \/ WriteUnit \/ DaemonReload \/ Enable \/ Start
      PROVE  SoFar' /\ Outcomes'
  <2>1. /\ pc' \in Fresh \ {"boot"} /\ done' = done \cup {pc}
        /\ UNCHANGED <<op, before, failedAt>>
        /\ Name' = Name /\ Wanted' = Wanted
    BY <1>6 DEF WriteBootstrap, SetUpIface, WriteUnit, DaemonReload, Enable, Start, Step, Fresh,
       history, Name, Wanted
  <2>2. DeployRunsSoFar'
    <3>1. CASE WriteBootstrap \/ SetUpIface \/ WriteUnit
      BY <2>1, <3>1 DEF WriteBootstrap, SetUpIface, WriteUnit, Step, DeployRunsSoFar, Update
    <3>2. CASE DaemonReload
      BY <1>4, <2>1, <3>2 DEF DaemonReload, Step, DeployRunsSoFar, Update, OnDisk, UnitDone, Fresh
    <3>3. CASE Enable
      BY <1>4, <2>1, <3>3 DEF Enable, Step, DeployRunsSoFar, Update
    <3>4. CASE Start
      <4>1. StartedOn(Name) = Wanted
        BY <1>2, <1>4, <3>4, DeployAssumption DEF Start, Step, StartedOn, Wanted, UnitOf,
           DeployRunsSoFar, OnDisk, BootDone, Fresh
      <4> QED
        BY <1>2, <1>3, <1>4, <2>1, <3>4, <4>1 DEF Start, Step, DeployRunsSoFar, Update
    <3> QED
      BY <1>6, <3>1, <3>2, <3>3, <3>4
  <2>3. UpgradeRunsSoFar'
    BY <2>1 DEF UpgradeRunsSoFar, Fresh
  <2>4. LeavesSoFar'
    <3> USE <1>1, <1>2, <1>3, <1>4, <2>1 DEF LeavesSoFar, FailedIn, Step, Fresh
    <3>1. CASE WriteBootstrap
      BY <3>1 DEF WriteBootstrap, systemVars
    <3>2. CASE SetUpIface
      BY <3>2 DEF SetUpIface
    <3>3. CASE WriteUnit
      BY <3>3 DEF WriteUnit, systemVars
    <3>4. CASE DaemonReload
      BY <3>4 DEF DaemonReload, OnDisk, UnitDone, diskVars
    <3>5. CASE Enable
      BY <3>5 DEF Enable, DeployRunsSoFar, diskVars
    <3>6. CASE Start
      BY <3>6 DEF Start, DeployRunsSoFar, diskVars
    <3> QED
      BY <1>6, <3>1, <3>2, <3>3, <3>4, <3>5, <3>6
  <2> QED
    BY <2>1, <2>2, <2>3, <2>4, Silent DEF SoFar, Fresh
<1> QED
  BY <1>5, <1>6

LEMMA FreshFailureAll ==
    ASSUME AllInv, WriteFails \/ IfaceFails \/ SystemctlFails
    PROVE  SoFar' /\ Outcomes'
<1>1. /\ pc \in Fresh /\ pc' = "rollback" /\ failedAt' = pc /\ UNCHANGED <<op, before, loaded>>
      /\ Name' = Name
  BY DEF WriteFails, IfaceFails, SystemctlFails, StepFails, Fresh, Name
<1>2. Name \in Names
  BY <1>1, DeployFacts DEF AllInv
<1>3. /\ bootstrap \in [Names -> Bootstraps] /\ unit \in [Names -> Units]
      /\ running \in [Names -> Configs \cup {None}]
  BY TypeParts DEF AllInv, TypeInv, DiskTypeOK, SystemTypeOK
<1>4. LeavesSoFar'
  <2> USE <1>1, <1>2, <1>3 DEF AllInv, SoFar, LeavesSoFar, FailedIn, Fresh
  <2>1. CASE WriteFails
    BY <2>1 DEF WriteFails
  <2>2. CASE IfaceFails
    BY <2>2 DEF IfaceFails
  <2>3. CASE SystemctlFails
    BY <2>3 DEF SystemctlFails, diskVars
  <2> QED
    BY <2>1, <2>2, <2>3
<1>5. DeployRunsSoFar' /\ UpgradeRunsSoFar'
  BY <1>1 DEF DeployRunsSoFar, UpgradeRunsSoFar, Update
<1> QED
  BY <1>1, <1>4, <1>5, Silent DEF SoFar

(* What is undone is gone, and what is not in done was as it was found.      *)
LEMMA CleanupAll ==
    ASSUME AllInv, NEW lost \in SUBSET CleanupParts, CleanupAndRollback(lost)
    PROVE  SoFar' /\ Outcomes'
<1>1. /\ pc = "rollback" /\ pc' = "idle" /\ reply' = "error"
      /\ UNCHANGED <<op, before, failedAt, done>> /\ Name' = Name /\ (clean' => lost = {})
  BY DEF CleanupAndRollback, Answer, Loses, handlerVars, Name
<1>2. Name \in Names /\ op.kind = "deploy"
  BY <1>1, DeployFacts DEF AllInv, TypeInv, HandlerOK, AtDeploy
<1>3. /\ bootstrap \in [Names -> Bootstraps] /\ unit \in [Names -> Units]
      /\ running \in [Names -> Configs \cup {None}]
  BY TypeParts DEF AllInv, TypeInv, DiskTypeOK, SystemTypeOK
<1>4. LeavesSoFar
  BY DEF AllInv, SoFar
<1>5. ASSUME lost = {}
      PROVE  OnlyFailedStepLeaves'
  <2>1. bootstrap'[Name] \in {None, before.bootstrap[Name]} \/ failedAt = "boot"
    BY <1>1, <1>2, <1>3, <1>4, <1>5 DEF CleanupAndRollback, LeavesSoFar, FailedIn
  <2>2. netplan' \in {None, before.netplan} \/ failedAt = "iface"
    BY <1>1, <1>4, <1>5 DEF CleanupAndRollback, LeavesSoFar, FailedIn
  <2>3. unit'[Name] \in {None, before.unit[Name]} \/ failedAt = "unit"
    BY <1>1, <1>2, <1>3, <1>4, <1>5 DEF CleanupAndRollback, LeavesSoFar, FailedIn
  <2>4. iface' = None
    BY <1>1, <1>4, <1>5 DEF CleanupAndRollback, LeavesSoFar
  <2>5. "enable" \in done \/ "start" \in done => IsLoaded(Name)
    BY <1>1, <1>4, DeployAssumption DEF LeavesSoFar, IsLoaded, UnitOf
  <2>6. Name \in enabled' => failedAt = "enable" \/ Name \in before.enabled
    BY <1>1, <1>4, <1>5, <2>5 DEF CleanupAndRollback, LeavesSoFar, FailedIn
  <2>7. running'[Name] # None => failedAt = "start" \/ before.running[Name] # None
    BY <1>1, <1>2, <1>3, <1>4, <1>5, <2>5 DEF CleanupAndRollback, LeavesSoFar, FailedIn
  <2> QED
    BY <1>1, <2>1, <2>2, <2>3, <2>4, <2>6, <2>7 DEF OnlyFailedStepLeaves
<1>6. OnlyFailedStepLeaves'
  BY <1>1, <1>5 DEF OnlyFailedStepLeaves
<1>7. SuccessRuns' /\ UpgradeRollsBack'
  BY <1>1, <1>2 DEF SuccessRuns, UpgradeRollsBack, Answered
<1> QED
  BY <1>1, <1>6, <1>7, Idle DEF Outcomes

LEMMA UpdateAll ==
    ASSUME AllInv,
           \/ UpdateBootstrap \/ UpdateIface \/ UpdateUnit \/ UpdateReload \/ PassOver
           \/ \E restarts \in BOOLEAN : UpdateDone(restarts)
           \/ UpdateFails \/ UpdateCannotRestart
    PROVE  SoFar' /\ Outcomes'
<1>1. pc \in Update
  BY DEF UpdateBootstrap, UpdateIface, UpdateUnit, UpdateReload, PassOver, Pass, Apply,
         UpdateDone, UpdateFails, UpdateCannotRestart, Update
<1>2. /\ Name \in Names /\ op.version \in Versions /\ op.kind = "deploy"
  BY <1>1, DeployFacts DEF AllInv, TypeInv, HandlerOK, AtDeploy
<1>3. /\ unit \in [Names -> Units] /\ running \in [Names -> Configs \cup {None}]
  BY TypeParts DEF AllInv, TypeInv, DiskTypeOK, SystemTypeOK
<1>4. OnDisk /\ DeployRunsSoFar
  BY DEF AllInv, Inv, SoFar
<1>5. CASE UpdateFails \/ UpdateCannotRestart
  <2>1. pc' = "idle" /\ reply' = "error" /\ failedAt' = pc /\ op' = op
    BY <1>5 DEF UpdateFails, UpdateCannotRestart, UpdateError, Answer, handlerVars
  <2> QED
    BY <1>1, <1>2, <2>1, Idle DEF Outcomes, SuccessRuns, OnlyFailedStepLeaves, UpgradeRollsBack,
       Answered, Fresh, Update
<1>6. ASSUME NEW restarts \in BOOLEAN, UpdateDone(restarts)
      PROVE  SoFar' /\ Outcomes'
  <2>1. /\ pc = "upRestart" /\ pc' = "idle" /\ reply' = "ok"
        /\ UNCHANGED <<bootstrap, unit, loaded, op, todo, before>>
        /\ UnitOf(Name)' = UnitOf(Name) /\ Name' = Name
        /\ running' \in {running, [running EXCEPT ![Name] = StartedOn(Name)]}
        /\ running' = [running EXCEPT ![Name] = StartedOn(Name)] \/ ~NeedsRestart
    BY <1>6 DEF UpdateDone, Answer, handlerVars, diskVars, UnitOf, Name
  <2>2. StartedOn(Name) = [boot |-> op.boot, version |-> UnitOf(Name)]
    BY <1>4, <2>1 DEF OnDisk, BootDone, Update, StartedOn, Wanted
  <2>3. ~NeedsRestart => /\ before.bootstrap[Name] = Wanted \/ "unread" \in todo
                         /\ before.unit[Name] = op.version
    BY <1>1, <1>4 DEF NeedsRestart, DeployRunsSoFar
  <2>4. UnitOf(Name) # op.version => before.unit[Name] = op.version
    BY <1>1, <1>2, <1>4, <2>1, DeployAssumption DEF UnitOf, DeployRunsSoFar
  <2>5. running'[Name] \in {before.running[Name], StartedOn(Name)}
        /\ (NeedsRestart => running'[Name] = StartedOn(Name))
    BY <1>1, <1>2, <1>3, <1>4, <2>1 DEF DeployRunsSoFar
  <2>6. SuccessRuns'
    BY <1>2, <2>1, <2>2, <2>3, <2>4, <2>5 DEF SuccessRuns, DeployRuns, Answered, Name, Wanted
  <2> QED
    BY <2>1, <2>6, Idle DEF Outcomes, OnlyFailedStepLeaves, UpgradeRollsBack, Answered
<1>7. ASSUME UpdateBootstrap \/ UpdateIface \/ UpdateUnit \/ UpdateReload \/ PassOver
      PROVE  SoFar' /\ Outcomes'
  <2>1. /\ pc' \in Update /\ UNCHANGED <<op, before, todo, running>>
        /\ Name' = Name /\ Wanted' = Wanted
    BY <1>7 DEF UpdateBootstrap, UpdateIface, UpdateUnit, UpdateReload, PassOver, Pass, Apply,
       Update, handlerVars, systemVars, Name, Wanted
  <2>2. pc' = "upRestart" /\ "unit" \in todo => loaded'[Name] = op.version
    BY <1>4, <1>7 DEF UpdateBootstrap, UpdateIface, UpdateUnit, UpdateReload, PassOver, Pass,
       Apply, OnDisk, UnitDone, Update
  <2>3. DeployRunsSoFar'
    BY <1>1, <1>4, <2>1, <2>2 DEF DeployRunsSoFar, Update
  <2>4. UpgradeRunsSoFar' /\ LeavesSoFar'
    BY <2>1 DEF UpgradeRunsSoFar, LeavesSoFar, Fresh, Update
  <2> QED
    BY <2>1, <2>3, <2>4, Silent DEF SoFar, Update
<1> QED
  BY <1>5, <1>6, <1>7

LEMMA UpgradeAll ==
    ASSUME AllInv,
           \/ UpgradeUnit \/ UpgradeBootstrap \/ UpgradeReload \/ UpgradeRestart
           \/ UpgradeVerified \/ UpgradeFails
    PROVE  SoFar' /\ Outcomes'
<1>1. /\ pc \in Upgrade /\ UNCHANGED <<op, before>> /\ Name' = Name
  BY DEF UpgradeUnit, UpgradeBootstrap, UpgradeReload, UpgradeRestart, UpgradeVerified,
         UpgradeFails, UpgradeStep, handlerVars, Upgrade, Name
<1>2. Name \in Names /\ op.kind = "upgrade"
  BY <1>1, RequestFields DEF AllInv, TypeInv, HandlerOK, AtUpgrade, Name
<1>3. /\ unit \in [Names -> Units] /\ running \in [Names -> Configs \cup {None}]
  BY TypeParts DEF AllInv, TypeInv, DiskTypeOK, SystemTypeOK
<1>4. UpgradeRunsSoFar /\ UpgradeOK
  BY DEF AllInv, TypeInv, SoFar
<1>5. CASE UpgradeVerified
  <2>1. /\ pc = "uVerify" /\ pc' = "idle" /\ reply' = "ok"
        /\ UNCHANGED <<diskVars, systemVars, op, before>>
    BY <1>5 DEF UpgradeVerified, Answer, handlerVars
  <2>2. SuccessRuns'
    BY <1>2, <1>4, <2>1 DEF SuccessRuns, UpgradeRuns, UpgradeRunsSoFar, Answered, Name, StartedOn,
       UnitOf, diskVars, systemVars
  <2> QED
    BY <1>2, <2>1, <2>2, Idle DEF Outcomes, OnlyFailedStepLeaves, UpgradeRollsBack, Answered
<1>6. CASE UpgradeFails
  <2>1. pc' = "restore"
    BY <1>6 DEF UpgradeFails
  <2> QED
    BY <2>1, Silent DEF SoFar, DeployRunsSoFar, UpgradeRunsSoFar, LeavesSoFar, Fresh, Update
<1>7. ASSUME UpgradeUnit \/ UpgradeBootstrap \/ UpgradeReload \/ UpgradeRestart
      PROVE  SoFar' /\ Outcomes'
  <2>1. pc' \in Upgrade
    BY <1>7 DEF UpgradeUnit, UpgradeBootstrap, UpgradeReload, UpgradeRestart, UpgradeStep, Upgrade
  <2>2. UpgradeRunsSoFar'
    <3> USE <1>1, <1>2, <1>3, <1>4 DEF UpgradeStep, UpgradeRunsSoFar
    <3>1. CASE UpgradeUnit
      BY <3>1 DEF UpgradeUnit, UpgradeOK
    <3>2. CASE UpgradeBootstrap
      BY <3>2 DEF UpgradeBootstrap
    <3>3. CASE UpgradeReload
      BY <3>3 DEF UpgradeReload
    <3>4. CASE UpgradeRestart
      <4>1. StartedOn(Name)' = StartedOn(Name)
        BY <3>4 DEF UpgradeRestart, StartedOn, UnitOf
      <4> QED
        BY <3>4, <4>1 DEF UpgradeRestart
    <3> QED
      BY <1>7, <3>1, <3>2, <3>3, <3>4
  <2>3. DeployRunsSoFar' /\ LeavesSoFar'
    BY <2>1 DEF DeployRunsSoFar, LeavesSoFar, Fresh, Update, Upgrade
  <2> QED
    BY <2>1, <2>2, <2>3, Silent DEF SoFar, Upgrade
<1> QED
  BY <1>5, <1>6, <1>7

(* Both files are as found: those of the service were written back, and the *)
(* upgrade touched no other.                                                 *)
LEMMA RestoreAll ==
    ASSUME AllInv, NEW lost \in SUBSET RestoreParts, Restore(lost)
    PROVE  SoFar' /\ Outcomes'
<1>1. /\ pc = "restore" /\ pc' = "idle" /\ reply' = "error"
      /\ UNCHANGED <<op, before, failedAt>> /\ Name' = Name /\ (clean' => lost = {})
  BY DEF Restore, Answer, Loses, handlerVars, Name
<1>2. Name \in Names /\ op.kind = "upgrade"
  BY <1>1, RequestFields DEF AllInv, TypeInv, HandlerOK, AtUpgrade, Name
<1>3. /\ bootstrap \in [Names -> Bootstraps] /\ unit \in [Names -> Units]
      /\ running \in [Names -> Configs \cup {None}]
      /\ before.bootstrap \in [Names -> Bootstraps] /\ before.unit \in [Names -> Units]
  BY TypeParts DEF AllInv, TypeInv, DiskTypeOK, SystemTypeOK, BeforeOK
<1>4. \A n \in Names \ {Name} : unit[n] = before.unit[n] /\ bootstrap[n] = before.bootstrap[n]
  BY <1>1 DEF AllInv, TypeInv, UpgradeOK
<1>5. ASSUME lost = {}
      PROVE  UpgradeRollsBack'
  <2>1. /\ unit' = [unit EXCEPT ![Name] = before.unit[Name]]
        /\ bootstrap' = [bootstrap EXCEPT ![Name] = before.bootstrap[Name]]
        /\ loaded' = unit'
        /\ running' = [running EXCEPT ![Name] =
                         IF CanStart(Name)' THEN StartedOn(Name)' ELSE None]
    BY <1>5 DEF Restore
  <2>2. unit' = before.unit
    BY <1>2, <1>3, <1>4, <2>1
  <2>3. bootstrap' = before.bootstrap
    BY <1>2, <1>3, <1>4, <2>1
  <2>4. running'[Name] = IF CanStart(Name)' THEN StartedOn(Name)' ELSE None
    BY <1>2, <1>3, <2>1
  <2> QED
    BY <1>1, <2>1, <2>2, <2>3, <2>4 DEF UpgradeRollsBack
<1>6. UpgradeRollsBack'
  BY <1>1, <1>5 DEF UpgradeRollsBack
<1> QED
  BY <1>1, <1>2, <1>6, Idle DEF Outcomes, SuccessRuns, OnlyFailedStepLeaves, Answered

LEMMA HostAll ==
    ASSUME AllInv,
           \/ \E r \in Requests : \E lost \in SUBSET CleanupParts : Undeploy(r, lost)
           \/ (\E v \in Versions : BinaryChanges(v)) \/ Crash \/ Reboot
    PROVE  SoFar' /\ Outcomes'
<1>1. pc' = "idle" /\ (op' = None \/ op'.kind = "undeploy")
  BY DEF Undeploy, BinaryChanges, Crash, Reboot, Answer
<1> QED
  BY <1>1, Idle, Silent

LEMMA StutterAll ==
    ASSUME AllInv, UNCHANGED vars
    PROVE  SoFar' /\ Outcomes'
<1> USE DEF AllInv, vars, diskVars, systemVars, handlerVars, Name, Wanted, StartedOn, UnitOf,
        CanStart
<1>1. DeployRunsSoFar' /\ UpgradeRunsSoFar' /\ LeavesSoFar'
  BY DEF SoFar, DeployRunsSoFar, UpgradeRunsSoFar, LeavesSoFar, FailedIn, history
<1>2. SuccessRuns'
  BY DEF Outcomes, SuccessRuns, DeployRuns, UpgradeRuns, Answered, history
<1>3. OnlyFailedStepLeaves'
  BY DEF Outcomes, OnlyFailedStepLeaves, Answered, history
<1>4. UpgradeRollsBack'
  BY DEF Outcomes, UpgradeRollsBack, Answered, history
<1> QED
  BY <1>1, <1>2, <1>3, <1>4 DEF SoFar, Outcomes

LEMMA NextAllInv == AllInv /\ [Next]_vars => AllInv'
<1> SUFFICES ASSUME AllInv, [Next]_vars PROVE AllInv'
  OBVIOUS
<1>1. TypeInv' /\ Inv'
  BY NextTypeInv, NextInv DEF AllInv
<1>2. SoFar' /\ Outcomes'
  BY TakingAll, FreshAll, FreshFailureAll, CleanupAll, UpdateAll, UpgradeAll, RestoreAll, HostAll,
     StutterAll DEF Next
<1> QED
  BY <1>1, <1>2 DEF AllInv

LEMMA SpecAllInv == Spec => []AllInv
<1>1. Init => AllInv
  BY InitTypeInv, InitInv, InitAll DEF AllInv
<1> QED
  BY <1>1, NextAllInv, PTL DEF Spec

(* A fresh deployment that failed at any of its steps, and whose undoing    *)
(* went through, leaves of itself only what the failed step half did.        *)
THEOREM DeployOnlyFailedStepLeaves == Spec => []OnlyFailedStepLeaves
<1>1. AllInv => OnlyFailedStepLeaves
  BY DEF AllInv, Outcomes
<1> QED
  BY SpecAllInv, <1>1, PTL

(* A rolled back upgrade leaves the files, systemd and the process on the   *)
(* old version, at whichever step it failed.                                 *)
THEOREM DeployUpgradeRollsBack == Spec => []UpgradeRollsBack
<1>1. AllInv => UpgradeRollsBack
  BY DEF AllInv, Outcomes
<1> QED
  BY SpecAllInv, <1>1, PTL

(* A success means a process on what was asked for, but for the exceptions  *)
(* that SuccessRuns names.                                                   *)
THEOREM DeploySuccessRuns == Spec => []SuccessRuns
<1>1. AllInv => SuccessRuns
  BY DEF AllInv, Outcomes
<1> QED
  BY SpecAllInv, <1>1, PTL
-----------------------------------------------------------------------------
(* What a reboot will find.                                                  *)

NetplanKept  == before.netplan \in {None, op.addr} => netplan = op.addr
EnabledKept  == done # {} \/ Name \in before.enabled => Name \in enabled

KeepsSoFar ==
    /\ pc \in Fresh => op.version \in binaries
    /\ pc \in Fresh \ {"boot", "iface"} => netplan = op.addr
    /\ pc \in {"start", "verify"} => Name \in enabled
    /\ pc \in Update =>
         /\ "binary" \notin todo => op.version \in binaries
         /\ IfaceDone => NetplanKept
         /\ done = {} /\ enabled = before.enabled
    /\ Answered("deploy", "ok") =>
         /\ op \in Requests /\ op.version \in binaries
         /\ NetplanKept /\ EnabledKept

LEMMA NextKeepsSoFar ==
    ASSUME AllInv, KeepsSoFar, [Next]_vars
    PROVE  KeepsSoFar'
<1> USE DEF KeepsSoFar
<1>1. /\ pc \in Fresh \cup Update => op \in Requests
      /\ pc \in Upgrade \cup {"restore"} => op.kind = "upgrade"
  BY DEF AllInv, TypeInv, HandlerOK, AtDeploy, AtUpgrade
<1>2. ASSUME pc' \notin Fresh \cup Update,
             pc' # "idle" \/ op' = None \/ op'.kind # "deploy" \/ reply' # "ok"
      PROVE  KeepsSoFar'
  BY <1>2 DEF Answered, Fresh
<1>3. ASSUME NEW r \in Requests,
             \/ DeployUnchanged(r) \/ DeployUpdates(r) \/ DeployFresh(r) \/ DeployRefused(r)
             \/ (\E part \in Parts : DeployMisreads(r, part))
             \/ UpgradeBegins(r) \/ UpgradeRefused(r)
      PROVE  KeepsSoFar'
  <2> USE DEF Take, Fresh, Update, diskVars, systemVars, Found, Name
  <2>1. CASE DeployUnchanged(r)
    <3>1. /\ pc' = "idle" /\ r.version \in binaries /\ netplan # None /\ done' = {}
      BY <2>1 DEF DeployUnchanged, Answer, Changes
    <3>2. NetplanKept' /\ EnabledKept'
      BY <2>1, <3>1 DEF DeployUnchanged, NetplanKept, EnabledKept
    <3> QED
      BY <2>1, <3>1, <3>2 DEF DeployUnchanged
  <2>2. CASE DeployUpdates(r)
    <3>1. /\ pc' = "upBoot" /\ done' = {} /\ todo' = Changes(r)
      BY <2>2 DEF DeployUpdates, Begin
    <3>2. IfaceDone' => NetplanKept'
      BY <2>2, <3>1 DEF DeployUpdates, IfaceDone, NetplanKept, Changes
    <3>3. ("binary" \notin todo' => op'.version \in binaries') /\ enabled' = before'.enabled
      BY <2>2, <3>1 DEF DeployUpdates, Changes
    <3> QED
      BY <3>1, <3>2, <3>3 DEF Answered
  <2>5. CASE \E part \in Parts : DeployMisreads(r, part)
    <3>1. /\ pc' = "upBoot" /\ done' = {} /\ Changes(r) \subseteq todo'
      BY <2>5 DEF DeployMisreads, Begin
    <3>2. IfaceDone' => NetplanKept'
      BY <2>5, <3>1 DEF DeployMisreads, IfaceDone, NetplanKept, Changes
    <3>3. ("binary" \notin todo' => op'.version \in binaries') /\ enabled' = before'.enabled
      BY <2>5, <3>1 DEF DeployMisreads, Changes
    <3> QED
      BY <3>1, <3>2, <3>3 DEF Answered
  <2>3. CASE DeployFresh(r)
    BY <2>3 DEF DeployFresh, Begin, Prerequisites, Answered
  <2>4. CASE DeployRefused(r) \/ UpgradeRefused(r) \/ UpgradeBegins(r)
    BY <1>2, <2>4 DEF DeployRefused, UpgradeRefused, UpgradeBegins, Refuse, Answer, Begin
  <2> QED
    BY <1>3, <2>1, <2>2, <2>3, <2>4, <2>5
<1>4. CASE WriteBootstrap \/ SetUpIface \/ WriteUnit \/ DaemonReload \/ Enable \/ Start
  <2>1. /\ pc \in Fresh /\ pc' \in Fresh /\ UNCHANGED <<op, binaries, before>>
    BY <1>4 DEF WriteBootstrap, SetUpIface, WriteUnit, DaemonReload, Enable, Start, Step, Fresh
  <2>2. pc' \in Fresh \ {"boot", "iface"} => netplan' = op.addr
    BY <1>4 DEF WriteBootstrap, SetUpIface, WriteUnit, DaemonReload, Enable, Start, Step, Fresh,
       diskVars
  <2>3. pc' \in {"start", "verify"} => Name \in enabled'
    BY <1>4 DEF WriteBootstrap, SetUpIface, WriteUnit, DaemonReload, Enable, Start, Step
  <2> QED
    BY <2>1, <2>2, <2>3 DEF Answered, Fresh, Update, Name
<1>5. CASE Verified
  BY <1>1, <1>5 DEF Verified, Answer, diskVars, systemVars, handlerVars, Fresh, Update, Answered,
     NetplanKept, EnabledKept, Name
<1>6. CASE UpdateBootstrap \/ UpdateIface \/ UpdateUnit \/ UpdateReload \/ PassOver
  <2>1. /\ pc \in Update /\ pc' \in Update /\ UNCHANGED <<op, binaries, before, todo, done, enabled>>
    BY <1>6 DEF UpdateBootstrap, UpdateIface, UpdateUnit, UpdateReload, PassOver, Pass, Apply,
       Update, handlerVars, systemVars
  <2>2. IfaceDone' => NetplanKept'
    <3>1. CASE UpdateIface
      BY <3>1 DEF UpdateIface, Apply, NetplanKept, handlerVars
    <3>2. CASE UpdateBootstrap \/ UpdateUnit \/ UpdateReload \/ PassOver
      BY <2>1, <3>2 DEF UpdateBootstrap, UpdateUnit, UpdateReload, PassOver, Pass, Apply,
         Update, IfaceDone, Fresh, NetplanKept, handlerVars, diskVars
    <3> QED
      BY <1>6, <3>1, <3>2
  <2> QED
    BY <2>1, <2>2 DEF Answered, Fresh, Update
<1>7. CASE \E restarts \in BOOLEAN : UpdateDone(restarts)
  <2>1. PICK restarts \in BOOLEAN : UpdateDone(restarts)
    BY <1>7
  <2>2. /\ pc = "upRestart" /\ pc' = "idle" /\ "binary" \notin todo
        /\ UNCHANGED <<op, before, done, enabled, netplan, binaries>>
    BY <2>1 DEF UpdateDone, Answer, NeedsRestart, handlerVars, diskVars
  <2> QED
    BY <1>1, <2>2 DEF Update, Fresh, Answered, IfaceDone, NetplanKept, EnabledKept, Name
<1>8. CASE UpdateFails \/ UpdateCannotRestart
  BY <1>2, <1>8 DEF UpdateFails, UpdateCannotRestart, UpdateError, Answer, Fresh, Update
<1>9. CASE WriteFails \/ IfaceFails \/ SystemctlFails
  BY <1>2, <1>9 DEF WriteFails, IfaceFails, SystemctlFails, StepFails, Fresh, Update
<1>10. CASE \E lost \in SUBSET CleanupParts : CleanupAndRollback(lost)
  BY <1>2, <1>10 DEF CleanupAndRollback, Answer, Fresh, Update
<1>11. CASE \/ UpgradeUnit \/ UpgradeBootstrap \/ UpgradeReload \/ UpgradeRestart
            \/ UpgradeVerified \/ UpgradeFails
  <2>1. pc \in Upgrade /\ op' = op /\ pc' \notin Fresh \cup Update
    BY <1>11 DEF UpgradeUnit, UpgradeBootstrap, UpgradeReload, UpgradeRestart, UpgradeVerified,
       UpgradeFails, UpgradeStep, Answer, handlerVars, Upgrade, Fresh, Update
  <2> QED
    BY <1>1, <1>2, <2>1
<1>12. CASE \E lost \in SUBSET RestoreParts : Restore(lost)
  BY <1>2, <1>12 DEF Restore, Answer, Fresh, Update
<1>13. CASE \/ \E r \in Requests : \E lost \in SUBSET CleanupParts : Undeploy(r, lost)
            \/ (\E v \in Versions : BinaryChanges(v)) \/ Crash \/ Reboot
  BY <1>2, <1>13 DEF Undeploy, BinaryChanges, Crash, Reboot, Answer, Fresh, Update
<1>14. CASE UNCHANGED vars
  BY <1>14 DEF vars, diskVars, systemVars, handlerVars, history, Answered, IfaceDone,
     NetplanKept, EnabledKept, Name
<1> QED
  BY <1>3, <1>4, <1>5, <1>6, <1>7, <1>8, <1>9, <1>10, <1>11, <1>12, <1>13, <1>14 DEF Next

(* A reboot brings back what was answered with success: the interface of    *)
(* every deployment that found no other netplan file, and the process of     *)
(* every one that enabled its service or found it enabled.                   *)
THEOREM DeployRebootKeeps == Spec => RebootKeepsDeployment
<1>1. ASSUME AllInv, KeepsSoFar, Reboot, Answered("deploy", "ok")
      PROVE  /\ before.netplan \in {None, op.addr} => iface' = op.addr
             /\ done # {} \/ Name \in before.enabled => running'[Name] = Wanted
  <2>1. /\ op.addr \in Addrs /\ Name \in Names /\ Wanted \in Configs /\ op.version \in binaries
        /\ NetplanKept /\ EnabledKept
    BY <1>1, RequestFields DEF KeepsSoFar, Answered, Name, Wanted, Configs
  <2>2. bootstrap[Name] = Wanted /\ unit[Name] = op.version
    BY <1>1 DEF AllInv, Inv, SuccessIsOnDisk
  <2>3. Name \in enabled =>
          running'[Name] = [boot |-> bootstrap[Name].boot, version |-> unit[Name]]
    BY <1>1, <2>1, <2>2 DEF Reboot
  <2>4. [boot |-> bootstrap[Name].boot, version |-> unit[Name]] = Wanted
    BY <2>2 DEF Wanted
  <2> QED
    BY <1>1, <2>1, <2>3, <2>4 DEF Reboot, NetplanKept, EnabledKept
<1>2. AllInv /\ KeepsSoFar /\ [Next]_vars =>
        [(Reboot /\ Answered("deploy", "ok"))
            => /\ before.netplan \in {None, op.addr} => iface' = op.addr
               /\ done # {} \/ Name \in before.enabled => running'[Name] = Wanted]_vars
  BY <1>1
<1>3. Init => KeepsSoFar
  BY DEF Init, KeepsSoFar, Answered, Fresh, Update
<1>4. AllInv /\ KeepsSoFar /\ [Next]_vars => KeepsSoFar'
  BY NextKeepsSoFar
<1> QED
  BY SpecAllInv, <1>2, <1>3, <1>4, PTL DEF Spec, RebootKeepsDeployment
===============================================================================
