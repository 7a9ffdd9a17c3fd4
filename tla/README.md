# A TLA+ development of elchi-client

`elchi-client` is the agent an envoy control plane (elchi) runs on its hosts. It keeps one
registered gRPC session with the controller, takes commands from a stream one at a time,
changes the host as they ask (envoy services, interfaces, routes, log shippers, firewall
rules of elchi-shield, FRR) and answers each. This directory holds TLA+ models of the parts
whose correctness depends on an order of events, the TLC runs that check them, and theorems
about them that TLAPS checks.

Source paths below are relative to the repository; `PROJECT.json` maps every definition to
the lines it translates.

## 1. Inventory

| component | state it keeps | operations | talks to | module |
|---|---|---|---|---|
| session (`cmd/start.go`) | `isConnected`, `sessionToken`, session mutex, per stream: two goroutines, two one-place error channels, a cancel function | connect and register, stream, health check, re-register callback, signal, shutdown | connection (under its mutex), heartbeat (start/stop), handlers | `Session` |
| command dedup and dispatch (`cmd/dedup.go`, `internal/handlers`) | responses by command id with an expiry, in memory | look up, execute with a timeout, remember, send | every service | `Delivery`, `OnceOnly` |
| gRPC connection (`internal/grpc/client.go`) | `c.conn`, monitor's cancel function and flag | connect, close, monitor and reconnect, start/stop monitor | shared by session and (a second instance) heartbeat | `Connection` |
| heartbeat (`internal/services/heartbeat.go`, `pkg/ping`) | running flag, context, ping client, connection of its own | initialise, start, stop, ping, monitor connection | calls back into the session on its own goroutine | `Heartbeat`, `HeartbeatLink` |
| config files and reconcile loop (`services/reconcile.go`, `rsyslog.go`, `filebeat.go`, `operations/{rsyslog,filebeat,common}`) | live file, staging file, desired config on disk, `updateMu` | update command, periodic re-assert | log shipper service | `Reconcile` |
| deploy, undeploy, upgrade (`services/deploy.go`, `deployment_checker.go`, `undeploy.go`, `operations/upgrade`, `files`, `network/dummy.go`) | bootstrap, unit and netplan files, interface, systemd's state, `activeDeployments` | fresh deployment with rollback, in-place update, undeploy, upgrade with rollback | systemd, netlink, envoy binaries | `Deploy` |
| elchi-shield push (`services/shield.go`, `operations/shield`) | watched directory, in-memory snapshot of the daemon's state | stage, validate, commit, prune, confirm reload | shield daemon, by files and its metrics | `Shield`, `MCShield` |
| envoy and WAF binaries (`operations/{envoy,waf}`, `operations/common/{version,download}*`) | a directory per version | set (also forced), list | the archive; Deploy and Upgrade read them | `Versions`, `MCVersions` |
| netplan (`operations/network/netplan.go`, `monitor.go`) | configuration file, its backup, what is in effect | apply directly, by `netplan try`, or monitored with rollback; rollback | netplan, the controller's reachability | `Netplan` |
| routes, policies, tables (`operations/network/{route_new,policy,table}.go`) | kernel routes and rules, a netplan file per interface, `rt_tables.conf` | batches of add, delete, replace; the bulk form of the table command | kernel by netlink, netplan at boot | `Routing`, `MCRouting` |
| FRR and BGP (`services/frr*.go`, `operations/frr`) | FRR's running and startup configuration | prefix lists, community lists, route maps, neighbors and the process, as vtysh sessions followed by `write memory` | FRR | `Bgp`, `MCBgp` |
| service control (`services/systemd.go`) | none of its own | start, stop, restart, status | systemd | in `Reconcile` and `Deploy` |
| logrotate, statistics, logs, proxy, cloud detection, start-up, install scripts | none that others look at | | | not modelled |

What is hard here is not any one function but what happens between two of them:

* **Session.** The main goroutine, the stream's two goroutines, its health monitor, any
  number of re-register callbacks and the signal handler share two flags, a token, a mutex
  and three channels. Correct means: one stream at a time; commands run under the token of
  the latest registration; a torn-down or lost session is registered again; a signal in
  any phase ends the process, with an Unregister if it was registered (which the code keeps only
  while the loop waits in its select).
* **Dedup.** At-least-once delivery over breaking streams, handlers that may run for half an
  hour, a cache that forgets after five minutes. Correct means: not executed again before the cache may
  have forgotten it, nor while it runs, and every delivery answered.
* **Connection, heartbeat.** Monitors that outlive the 5 s their stop waits for them. Correct
  means: no connection or monitor is left behind, a closed client stays closed, pings recover.
* **Reconcile.** Two writers of one file, a validator, a service to restart, crashes between
  any two of those. Correct means: a rejected config never goes live, the service runs what
  is live, the live file comes to what was asked for and is not reverted.
* **Deploy.** Seven pieces of host state changed one at a time, any of which may fail; an undo
  that may fail as well; crashes. Correct means: what success says is so; a failed
  deployment leaves only what could not be undone; a failed upgrade leaves the old service.
* **Shield.** A directory watched by a process that reloads when it likes, a set of files that
  can only be renamed one at a time, and an outcome that has to be inferred from two values
  read apart. Correct means: a refused bundle leaves no trace; a synced one is on disk, whole;
  what the validator saw is what the daemon loads; a confirmation is not a coincidence.
* **Netplan.** A change that may cut off the machine that makes it, watched by a monitor that
  runs beside it, with processes that outlive the command that started them. Correct means: a
  rollback that ends well brings back what the command found; a success says what is in effect;
  what the monitor saw after the change decides.
* **Versions.** A download in six steps beside, or over, a binary that services run from.
  Correct means: what is at the path of a version is whole and was published for it; a version
  answered for can be run.
* **Routing.** Kernel state and the files that are to reproduce it after a reboot, changed one
  after the other, with keys that do not agree on what an entry is. Correct means: after a
  reboot there is what there was; a table is not forgotten with routes in it.
* **BGP.** A session of lines that are accepted or rejected one by one, a save that takes the whole
  running configuration, decisions taken on what FRR prints back. Correct means: what was answered
  for is in force and saved, as far as the request said it; an operation touches its own object
  only; a redelivery does no harm.

## 2. Plan, and where it stands

Most important first: everything runs inside a session; what it does to the host comes next.

1. `Heartbeat`, `Session`: modelled, checked; every safety property and the types proved.
   `Session` extends `Heartbeat` and composes its steps with the callers of Stop, Initialize, Start.
2. `OnceOnly`, `Delivery`: the abstract promise of the dedup cache, and the command loop that
   refines it; refinement, the bound on re-execution and the types are proved.
3. `Connection`: modelled, checked, every safety property and the types proved. `HeartbeatLink`:
   checked.
4. `Reconcile`: commands, loop and service commands; every safety property and the types proved.
5. `Deploy`: with reboots and the rollbacks; all five properties and the types proved.
6. `Shield`: every safety property and the types proved.
7. `Netplan`: all three properties and the types proved.
8. `Routing`: modelled, checked, all three properties and the types proved.
9. `Versions`, `Bgp`: modelled, checked, every property and the types proved.

Each component is a module of its own, because commands are handled one at a time
(`OneStreamAtATime`): what two commands can do to each other is what the first leaves on the host,
and each module has that as its state. The composition that matters is that of `Session` with
`Heartbeat`, of `Delivery` with its abstract promise, and of the log shippers' handler with the
loop that runs beside it.

What could be added: the switch from one bundle to the next as the daemon may see it; the files
logrotate leaves; FRR's read-only commands and the clearing of sessions.

## 3. The modules

### Session and Heartbeat

`main` is the program counter of `mainLoop` followed by `cleanup`; `cmd[r]`, `mgr[r]` and
`health[r]` are those of the stream opened after registration `r` (`handleCommands`,
`StreamCommands`/`handleCommandStream`, `monitorStreamHealth`). A goroutine that reaches a
`select` takes any ready case; if none is ready it parks, and the action that makes a case
ready hands it over, as Go does: that is what decides which of two errors reaches the one
reader of `errChan`. The session mutex is `lock`. Callbacks of the heartbeat are counted
(`pending`); one of them at a time can hold the mutex. `known` is the registration the
controller has, the only thing the controller is. Tokens, streams and channels carry the
number of their registration, so "the wrong one" can be said.

Properties: `OneStreamAtATime`, `CommandsUnderLatestToken`, `NeverConnectedAtTop`,
`GracefulShutdown` (a registration that was live when the signal came is unregistered, or was torn
down by a callback, or, if the loop was not in its select when the signal came, was marked down
because the error of its stream was taken first),
`LoopsAccounted` (more than one ping loop only after a Stop that timed out; marked running only
with a loop that pings),
`ShutdownEndsOrJams`, `TornDownReconnects`.

`ShutdownEndsOrJams` names the one way in which shutdown does not end and shows that there is
no other: the read of the stream and its health monitor both report on the one-place channel
after the last reader has gone. Likewise `dropped` names the one way in which a live registration
is not unregistered: the signal comes while the loop stops or starts the heartbeat, the stream ends
on the cancelled context, and the `select` the loop then comes to takes that error and not the
signal (start.go:244-265). It is one of the findings.

Fairness (`FairSpec`): weak fairness of the main loop, of every stream's goroutines and of a
callback that has begun, because Go schedules runnable goroutines and every call they make
has a deadline. The controller, the network and the signal owe nothing.

### OnceOnly and Delivery

`OnceOnly` is what the cache can promise: begin, end, reply, and a restart that forgets; a command
begins again only when its last execution has ended and is `stale`, and is answered with the
outcome of the last one. `Delivery` has the clock, the stream, the loop's local variables and the
cache with its expiry; `Remember` and `Hit` are `remember` and `get`. `ImplementsOnce` is
refinement, `INSTANCE OnceOnly WITH` the three history variables and `stale` the commands whose
last execution began more than TTL ago.

In the code a handler may take 10 or 30 minutes and the TTL is 5, so `MaxRun` is longer than `TTL`
in the instance, and every property is checked with handlers that outlast it. That a slow command
is executed again when it is redelivered, against the comment on the cache, is a finding.
`OnceWhileQuick` says when it is not: as long as the handlers of this life of the process are
quick, that is, `Window + (Cardinality(Cmds) - 1) * Quick <= TTL` (`QuickAssumption`): the entry of
a command outlives its redeliveries, which may have to wait behind one handler of each other
command. `Quick` restricts no behaviour; `slow` records that a handler took longer.

Fairness: the loop is scheduled and handlers return.

### Connection and HeartbeatLink

Actor 0 is the caller (the session's mutex makes it one), the others are monitor goroutines.
`hand[a]` is a connection only `a`'s local variable holds. `c.mu` protects single reads and writes,
so each of those is a step. `Waited` is the 5 s limit of `stopMonitor`, which may strike while a
monitor is in its backoff. A close that fails leaves `c.conn` set to a connection that is shut:
`Open` is what a leak or a closed client is measured by. `HeartbeatLink` is the instance the
heartbeat owns, its ping client and its own monitor, with `Connection` reduced to what they see of
it.

Fairness: actors are scheduled; a monitor whose context is cancelled reaches its select often
and takes the cancelled case eventually (strong fairness, the select chooses at random).

### Reconcile

Handler and loop are two processes over the file system: `Persist` (handler), `Load` and
`ReadLive` (loop), then both `Lock`, `Stage`, `Validate`, `Commit`, `Restart`. `staged` is one
file for both, which is why `RejectedNeverLive` and `RestartsOnItsConfig` need the mutex.
Foreign edits, a failing step (the saving of the desired config is one) and a crash of the agent
can come anywhere; so can the commands that start, stop and restart the service, which do not
take the mutex. `unserved` records that the service is behind for a reason the code cannot see: a
restart that failed or never came, a stop, or an edit.

The validator may come and go (`ValidatorChanges`). Whether it rejected a config or could not run
is told from words in its output; `Mistaken` are the configs whose rejection has such words.
`RejectedNeverLive` is about the others, of which `waved` has those that passed when no validator
ran; that one of `Mistaken` goes live is a finding.

Fairness: the handler and the loop are scheduled and the mutex is fair to both;
`Converges` assumes no fairness of the environment.

### Deploy

One port, several services (`Names`) that may claim it. The handler's program counter walks
the six steps of a fresh deployment, the five of an update, or an upgrade; `done` is
`DeployState`, `todo` the checker's verdict. `loaded` is systemd's memory of a unit, which
only `daemon-reload` makes equal to the file: the difference is what an upgrade's rollback
must mind. `Loses(lost)` lets any subset of an undo's parts fail. `Crash` may come between any
two steps and forgets the handler and `activeDeployments`; `Reboot` brings back what the files and
the enabled units say. `before` is the host as the command found it: what a rollback, and the
exceptions of a success, are measured by.

`SuccessRuns` and `RebootKeepsDeployment` name their exceptions instead of hiding them: a deploy
that finds nothing to change does not look at the process, one that finds the unit file right
does not look at systemd's memory of it, and the inspection does not read the netplan file.

The checker may fail to read a part (`DeployMisreads`) and then takes it for changed; of a bootstrap
it could not compare it does not ask for the restart ("unread" in `todo`), which `SuccessRuns`
excepts and a finding reports.

An interface has at most one address here: what a second one would do is outside the model.

### Shield

`pc` walks one push: the snapshot of the daemon (`Push`, `SnapshotFailures`), PREPARE (`Skip` or
`Stage` of every file, in any order, which is the order of a Go map or of the request), the
validator, COMMIT (`Rename`), `Prune`, and `ConfirmReload` with its two reads per round
(`ReadConfigz`, `ReadFailures`). `TmpOf` is the name a file is staged under. A bundle may carry
checksums (`sums`): a file that has the one announced is skipped and not looked at, whatever content
came with it, and one that has not fails if its content has another. The validator is shown the
candidate only if every step of preparing it succeeds; `looked` records that it was, and accepted.
The daemon (`Reload`, `DaemonStops`, `DaemonStarts`) is external and modelled as the agent relies on
it: it reloads after the burst of renames, keeps its last-good config and counts rejections. Its
version is a hash of what it loaded, so the model takes the loaded config for it.

`steady` marks the pushes of which a definite outcome may be believed: the snapshot was taken
whole, no earlier change was waiting to be loaded, and the daemon did not stop since.
`NoCollision` (no bundle names a file that another one is staged in) is an assumption of three
theorems and true of the checked instance; what happens without it is one of the findings.

No fairness: a push ends because its poll has a deadline of 8 s, and that is all there is to say
about its end.

### Netplan

The handler's `step` walks `ApplyNetplanConfig`; `proc` holds every netplan process that was
started, one for a command and one for its rollback. A `netplan apply` reads the file in
`Generate` and brings it into effect in `TakeEffect`; nothing ties these to the handler, which may
have given up (`ApplyEnds`, third disjunct) and be restoring the backup. A `netplan try` brings the
file into effect, is confirmed by nobody, and goes back to what was in effect (`TryReverts`). The
monitor counts good and bad checks in a row (`Check`, `MonitorExpires`) against what is in effect at
that moment; `watches` is the host whose address it found at the start: the controller, another one
(the gateway, or whoever listens on port 443), or none, and then it ends with success at once.

`how` is what the command is answered, `undone` whether its rollback came to its end: a monitored
command is answered "rolled back" in either case, a rollback command by its outcome. `overtaken`
records that a netplan process took effect after the command's own, `checked` that a check was made
since the last effect. A rollback that came to its end restores the file
(`RolledBackIsRestored`); what was applied with success, or restored, is in effect unless it was
overtaken (`AnsweredIsInEffect`), other processes running beside it or not; a success against the
monitor needs that it did not look after the change, or at the controller (`CutOffOnlyUnseen`).
What these except are findings: a success
whose monitor had seen enough before anything changed (`checked`), a configuration that was only
tried and is answered as applied, an answer "rolled back" whose rollback failed (`undone`), a
rollback undone by the apply that was not waited for (`overtaken`).

No fairness: every call has a deadline, and no property here says that something will happen.

### Routing

An entry is a route or a rule: `[kind, to, via, table, iface]`. `Key(e)` is what the kernel goes by;
the files go by other fields (`SameEntry`, `Cleared`), which is where the two come apart. An
operation has two steps: one on the kernel (`AddRoute`, ..., `FlushTable`) and one on the file of
its interface (`AddRouteToFile`, ..., `ForgetTable`); a batch stops at the first error, and an entry
that could not be persisted is a warning. A write may fail, or be cut off by the death of the agent
with its `tee`, and leave a part of what it was to write (`CutOff`): some of the entries, or a torn
file, which reads as an empty one (`Listed`). `Reboot` gives the kernel one entry per key the files
have, and none when a file is torn.

Two history variables say what the properties are not about: `doubtful` has the keys whose last
operation failed between its two steps or was cut off, and is emptied of a key by the next operation
on it that ends well; a write that was cut off puts every key of its file in doubt; `apart` has the
keys the agent lets drift without a word (`Strays`, the findings about `route_new.go`). Everything
else must agree.

### Versions

`pc` walks `SetVersion`: index, download, checksum, move or copy, mode, and the removal of the
directory after a failure. `file[b]` holds the content, the mode and whether the content was synced,
which a copy does and a rename does not. `disk[b]` is what a loss of power may leave of it: a
change of the name or of the mode is never synced, so every state since the last `PowerLoss` is a
choice, and content that was not synced may be torn as well (`Becomes`). `archive` may change
under a download (`Republish`). `promised` are the versions a command answered for, or listed; a
download that begins takes its version out again, as does a loss of power.

### Bgp

A request is turned, by what FRR prints back and any of these reads failing (`ok`), into the
lines of one or two sessions (`PrefixPlan`, `CommunityPlan`, `MapPlans`, `NeighborPlan`,
`ConfigPlan`). A session is handed to vtysh (`StartSession`), which takes it line by line
(`RunLine`), applies the lines FRR accepts and goes on past the rejected ones; at its end the
whole output is searched for errors (`EndSession`), or the session is cut off in the middle
(`SessionFails`), as it is by a `Crash`. `WriteMemory` saves the whole running configuration.

A configuration maps objects to the values of their attributes, and attributes are separate where
the code sets or compares them differently: the two timers of a neighbor, its filters, its graceful
restart; the router id, the timers and graceful restart of the process. A request may leave some of
them `Unset`, a zero field of the message: nothing is sent, and what FRR has stays (`TimerChange`,
`Unasked`).

Between the agent and FRR stands text, which is modelled by what it loses. FRR prints some values in
other words than they were sent (`Shown`, `Reworded`: host bits, the order of communities), and a
comparison with what was asked then fails (`Alike`). Searches are for the start of a line or for a
name anywhere (`Seen`, `Named`, `Found`), so that `seq 1` finds `seq 10` and `M` finds `MX`
(`Begins`). A neighbor's line is taken for the first attribute whose name occurs in it
(`ParsedNeighbor`, `Misread`), and a route map's communities and extra sets share a field
(`TagRead`). FRR rejects some values in words that are not among the five the agent looks for
(`Unreported`), so the session goes on to be saved. A prefix list may pass validation and have no
line (`Unbuildable`): that is found out after the entry was removed, or before, depending on the way
taken.

`promised` is what the last answer about each object means; `Drifts` names the plans that may not
lead there: a value rejected unnoticed; a field left unset that FRR has another value for; a route
map added over one, taken for one with a longer name, or with a part that is passed over; a neighbor
added over one, misread, or new and without its graceful restart. Some of the exceptions were found
by the proof and not by TLC. `RepushIsHarmless` excepts the list entries that FRR rewords, which
a re-push removes before it adds them again: a finding.

## 4. Runs

| run | bounds | states | shows |
|---|---|---|---|
| `session` | 2 registrations, 1 callback at a time, 2 retries, 1 forgotten registration | 243,000 | streams, tokens, loops, shutdown and reconnects |
| `delivery` | 2 commands, TTL 2, handlers up to 3, window 1, clock to 6, 1 restart | 457,000 | refinement of `OnceOnly`, answers, the TTL bound, once while quick |
| `connection` | 3 dials, 2 monitors, 2 retries | 110,000 | no leak, monitors accounted for, closed stays closed |
| `heartbeat_link` | 2 retries | 31 | pings that never recover (violation) |
| `reconcile` | 5 configs (two rejected, one of them as if the validator had not run; one unrenderable), 2 requests, 1 edit, 1 failure, 1 crash | 320,000 | what goes live, what is restarted, convergence |
| `reconcile_revert` | 2 requests, nothing fails | | the newest config is reverted (violation) |
| `deploy` | 2 services, 2 versions, 3 commands, 1 failure, 1 crash or reboot | 153,000 | what each answer means on the host, now and after a reboot |
| `shield` | 3 files (2 of them config), 2 contents, 7 bundles, 2 pushes, 1 failure, 1 crash, 1 stop of the daemon | 98,000 | what is on disk after a push, and what its answer is worth |
| `netplan` | 4 configurations (a good one, one that cuts off, two that netplan cannot read, one of these refused by the agent), 2 bad checks, 2 commands, 1 failure, 1 edit, 1 crash | 2,767,000 | rollbacks, answers and the monitor |
| `routing` | 7 entries (a destination by two gateways, one of them with its table spelled out; a table of the agent; rules on two interfaces; a refused one), 2 tables, 4 operations, 1 failure, 1 crash or reboot | 3,176,000 | kernel and files agree; tables are forgotten empty |
| `bgp` | 8 objects of five kinds, 20 requests, FRR empty or configured at first, 2 operations, 2 failures, 1 crash or restart | 238,000 | what an answer is worth, for its object and for the others |
| `versions` | 2 stores, 3 versions, 2 contents, 3 operations, 2 failures, 1 kill or loss of power, 1 new release | 2,978,000 (up to symmetry) | what is at the path of a version, and what an answer means |

Why the bounds are enough: two registrations are the least in which an old stream, token, loop or
callback can meet a new one, and nothing in the code tells a third from a second; two monitors
likewise (the current and a superseded one), with a third dial for the caller. Two commands are
needed for one's cleaning to touch the other's entry; a handler may outlast the TTL, and the clock
runs past the expiry of an entry made late. Two requests, one edit, one failure and one crash give
every pair of them in every order. Three commands by two services let a third find what a failed or
crashed second did to a first. Two pushes let one find what another that failed, crashed or was
rejected has left. Four operations on routes are a table's definition, a route in it, a second one
for the same destination and the deletion. Two operations on BGP are one on each of two objects, or
a command and its redelivery, with the start from a configured FRR standing for the operations
before. Three on binaries are a download, a forced one that fails and a list. The theorems of the
next section hold for all values of these bounds.

`MaxFailedChecks` is 5 in the code; 2 already tells one failed check from too many of them.

The contents in `versions` are symmetric: nothing but equality is asked of them.

Most findings have no run of their own. They are steps of the same modules that a property has to
except: a slow command executed twice (`stale`, `slow`), a rejected config taken for one that could
not be validated (`Mistaken`), the four answers of netplan above (`checked`, `undone`, `overtaken`
and the mode), a registration that is marked down and not unregistered (`dropped`), a nil
dereference of `c.conn` (a step of `Connection`), a bundle that names another file's temporary (what
`NoCollision` excludes), a success on a service that does not run (what `SuccessRuns` excepts), the
keys in `apart`, and the plans in `Drifts`.

Deadlock checking is off where a behaviour ends by design: the process exits, a bound on
commands or on the clock is reached, or the process has panicked. Each .cfg says which.

Every property of a passing run has a mutant in its module, an operator just before the
definition it replaces, that models a plausible bug of that code and violates it. `TypeOK` is in no
run: where it is a theorem it is proved.

## 5. Proofs

For all values of the constants that satisfy the named assumptions, bounds included:

* `SessionProofs`. The invariant joins type correctness with: `RetryInv` (the retry count is
  below its limit except where the loop is about to give up), `TokenInv` (no registration is
  numbered above `reg`), `FreshInv` (the channels and counters of a registration to come are
  untouched), `StreamInv` (only the latest registration's goroutines can be alive, and none
  while the main loop is outside the phases that await them) and `TokInv` (a stream that copied a
  token copied its own number). `OneStreamAtATime` is not inductive: it needs `StreamInv`,
  which ties the goroutines to the phase of `main`. From it: `TypeCorrect`, `StreamsSerial`,
  `LatestToken`, `ConnectsFromScratch`. `GraceInv` follows the registration that the signal
  found live, whatever the loop was doing, until it is unregistered, torn down or dropped, and says
  at which places of the loop it may be dropped: `ShutdownUnregisters`. `LoopInv` adds to
  `LoopsAccounted` that before a Start there are no more loops than Stops that timed out:
  `LoopsDoNotMultiply`.
* `DeliveryProofs`. `OnceWithinTTL`, an action property: the cache entry of a command that was
  executed expires no earlier than TTL after it began (`CacheIInv`), and an execution needs a miss.
  `DeliveryImplementsOnce`, for handlers of any length: every step is a step of `OnceOnly` or leaves
  its three variables alone. An `Execute` is a `Begin` because it needs a miss, and by `CacheIInv`
  a miss means that the last execution is `stale`; `ResultInv` says that what is cached, and what is
  sent, is the outcome of the last execution, and that it has ended when the loop takes the next
  command. `QuickOnce`, under `QuickAssumption`: on one stream a command is sent once (`StreamInv`),
  so what is handled before it are other commands, each once, and at position `i` it is taken at most
  `Window` and `N - i` quick handlers after it was first sent (`SentInv`, `WaitInv`); its entry has
  not expired then. `TypeCorrect` needs `HasAnswer`: what the loop is about to send is an answer.
* `ConnectionProofs`. `NoConnectionLeaks` from the shape of the actors' program counters and
  `HandInv` (a hand is non-empty exactly where the code has a local variable with a connection);
  `OnlyCurrentGoesOn` adds that `live` holds at most of `current`. `AccInv` names the moments at
  which no monitor is beyond the ones that were given up on, with the flag `running` cleared by any
  of them: `MonitorsAreAccounted`, and with `NoLeak`, `HandInv` and `Shut` (what a failed close
  leaves in `c.conn` is not open) also `CloseIsFinal`. `TypeCorrect` needs `CountInv`: a monitor
  that goes on has failed fewer times than its limit.
* `FilesProofs`, about the two components that put files in place by way of a temporary one.
  `Reconcile`: mutual exclusion on the steps under `updateMu`, what `staged` and `hand`
  hold at each, and from it `RejectedStaysOut`, `RestartLoadsOwn`; `NoForgottenRestart`;
  `TypeCorrect`.
  `Versions`: `ArchiveInv` (what the archive offers was published) and `DownloadInv` (from the
  index to the mode, what the operation holds is what the index announced, and that was published;
  its binary is not promised) give `FilesAreVerified`; `ModeInv` (a file without its mode is the
  operation's own or was left by one that was cut off) makes of it `AnsweredForIsUsable`; `DiskInv`
  says of everything a loss of power may bring back that it is torn or was published;
  `VersionsTypeCorrect`. Neither property is inductive alone: the first needs to know what is in
  the temporary file, the second who may be between the move and the mode.
* `DeployProofs`. `DeploySuccessIsOnDisk`: at each step of a handler what it has done is on disk
  and what it has not is in `todo` as equal or to do. `TypeCorrect`. `SoFar` relates the
  host at each step to `before`, the host the command found: which of its parts
  the handler has replaced, which a rollback has put back, what systemd has in memory. From it
  `DeployOnlyFailedStepLeaves`, `DeployUpgradeRollsBack`, `DeploySuccessRuns`, and the action
  property `DeployRebootKeeps`.
* `ShieldProofs`. `SyncInv` says for every phase where the content of each file of the bundle is (in
  place when skipped or renamed, under its temporary name when staged) and that nothing else of the
  directory has changed since the push found it. From it, under `NoCollision`:
  `SyncPutsBundleOnDisk`, `AbortChangesNothing`, and, as what the validator was shown is what the
  bundle says (`CandidateIsBundle`), `ValidatedSyncLoads`. `DaemonInv` says of a steady push that
  the daemon is as before, took what is on disk, or refused it, whichever of these its version and
  counter show; from it `ConfirmationIsTruthful`, which needs no assumption, nor does `TypeCorrect`.
* `NetworkProofs`, about routes and netplan.
  `Routing`, all three properties and `TypeCorrect`. `KernelIsPersisted` says nothing of the
  moment between the two steps of an operation; `OthersAgree` and `KernelIsAhead` do: every key but
  the operation's agrees, and for that one the kernel is what the file is about to be.
  `Netplan`, all three properties. `BackupInv`: from the backup to the answer the backup is
  what the command found, if there was a file. `CheckInv`: while passes are counted against the
  controller, the configuration in effect, if it was checked at all, passed. `EffectInv` follows the
  process the handler waits for: what it has read is the file (`MineInv`), what it did is in effect
  unless another one took effect after it, and so it is when the command is over (`AnsweredInv`).
  `NetplanTypeCorrect` needs that the monitor's counts stay below the limits that end it.
* `BgpProofs`, all three properties and `TypeCorrect`. The invariant says of the lines still to be
  sent where they lead: after all of them, unless one is rejected, the object is as asked (`Leads`)
  or gone (`Clears`). It does so without induction over sequences. Lines on an object come in one
  order: the removal of a process, one that makes or enters the object, ones that set attributes
  (`Reset`, `Open`); every attribute that is not as asked has a line left that sets it (`Due`), or
  one of the lines left will be rejected and noticed, so that the answer is an error (`Doomed`).
  An operation that is not excepted sends no value that is rejected unnoticed (`Accepted`), and the
  attributes a request leaves unset are as asked already (`ChangesCover`). Each of these is
  kept by running one line, so each plan only has to be shown to have that form (`PlanOK`, one
  lemma per plan), from a configuration FRR can have (`Sound`). `Followed` and
  `DropsFirst` say where an update may remove the entry it puts back (the first line of a first
  session, if it is not as asked), `SavedInv` when the saved configuration is the running one. From it
  `SuccessIsKept`; `SiblingsStay` needs only that all lines are on objects of the operation's
  scope; `RepushHarmless`, that the plan for an object that is as asked, could be read and is not shown
  in other words changes nothing about it, at no line.

There are fewer modules with proofs than components: `FilesProofs` and `NetworkProofs` each
extend two component modules that share nothing, and the smaller of the two has its module's
name in the names both would have (`VersionsSpec`, `NetplanSpec`).

The assumptions are those of the modules (`...Assumption`) and one named condition, `NoCollision`.
They ask of the constants what the code takes for granted: a value that stands for absence is not a
value, bounds are natural numbers, names of different kinds differ. `QuickAssumption` defines the
constant `Quick`, of which only `OnceWhileQuick` speaks. `BgpAssumption` also describes the
requests, whose shape the controller's messages give.

Only model-checked: liveness (`ShutdownEndsOrJams`, `TornDownReconnects`, `SentIsAnswered`,
`CancelledMonitorsEnd`, `Converges`), which under fairness is outside the prover's reach.
Every other property of a passing run is a theorem.

## 6. Not modelled

* Lengths of backoffs and intervals: an expiry is something that may happen at any time.
* The circuit breaker, rate limiter and worker pool of the session, which are created and not
  used; the environment switch that turns dedup off; which handler a command type selects.
* Rendering and parsing of configs, but for what `Bgp` and `Routing` say the parsers mistake.
* Service control beyond the start, stop and restart of the log shippers and of listeners: one
  systemctl call and the parsing of its output.
* FRR: clearing of sessions, the read-only state commands, the parsing of their output.
* `logrotate_reconcile.go`: an absent file is written, a present one left alone; what its
  comment says otherwise is among the findings.
* Read-only commands (statistics, logs, envoy admin requests), cloud detection, configuration,
  start-up, process helpers and the installation scripts: they run once, or read and answer, and
  keep no state that another part looks at.
