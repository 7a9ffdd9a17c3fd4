-------------------------------- MODULE Routing --------------------------------
(***************************************************************************)
(* Routes, policy rules and routing tables (operations/network): what a    *)
(* command sets in the kernel through netlink, and what it writes to the   *)
(* netplan files for the next boot.                                        *)
(*                                                                         *)
(* A command is a batch of operations on routes, on rules or on tables,    *)
(* carried out one by one; each one changes the kernel first and then its  *)
(* file, and the two steps fail apart.  Nothing else of the agent runs     *)
(* meanwhile: commands are handled one at a time.                          *)
(*                                                                         *)
(* Routes and rules are entries of one shape.  Of a rule, "to" stands for  *)
(* its selectors and priority, and there is no "via"; of a route, "via"    *)
(* stands for the gateway and the on-link flag.  Metrics are left unset,   *)
(* destinations and gateways given in one spelling, and the files hold one *)
(* interface each, as the agent writes them.                               *)
(***************************************************************************)
EXTENDS Integers, FiniteSets

CONSTANTS
    Entries,       \* routes and rules: [kind, to, via, table, iface]
    Tables,        \* routing table definitions: [id, name]
    Unset, Main,   \* the table of a route that names none, and the one it goes to
    NoIface,
    Managed,       \* ids of tables that are the agent's own
    Refused,       \* requests that validation turns down: a route of a routing
                   \* daemon, a rule out of range, a table with a bad name
    MaxOps, MaxFailures, MaxCrashes   \* (bounds)

ASSUME RoutingAssumption ==
    /\ \A e \in Entries : e.kind \in {"route", "rule"}
    /\ \A e \in Entries : e.kind = "rule" => e.table # Unset /\ e.via = "none"
    /\ Main \notin Managed /\ Unset \notin Managed
    /\ MaxOps \in Nat /\ MaxFailures \in Nat /\ MaxCrashes \in Nat

VARIABLES
    kernel,      \* routes and rules in effect
    file,        \* the entries of the netplan files
    torn,        \* the files a write left unreadable
    defs,        \* the definitions in rt_tables.conf
    pc, op,
    warned,      \* of an operation of this batch that was not persisted
    complete,    \* no route or rule withstood the flush of the table
    \* history
    answer,      \* of the last command
    touched,     \* keys the batch has handled
    doubtful,    \* keys whose last operation failed half-way or was cut off
    apart,       \* keys the agent lets drift apart without a word (see Strays)
    ops, faults, crashes

hostVars == <<kernel, file, torn, defs>>
drift    == <<doubtful, apart>>
vars == <<hostVars, pc, op, warned, complete, answer, touched, drift, ops, faults, crashes>>

Verbs == {"add", "delete", "replace"}
Ops   == [verb : Verbs, on : Entries \cup Tables]
NoOp  == [verb |-> "none"]

Ids(ds)    == {d.id : d \in ds}
OnTable    == op.on \in Tables
KindOf(x)  == IF x \in Tables THEN "table" ELSE x.kind
FileOf(e)  == <<e.kind, e.iface>>
TableOf(e) == IF e.table = Unset THEN Main ELSE e.table
Key(e)     == <<e.kind, e.to, TableOf(e)>>
Keys       == {Key(e) : e \in Entries}

\* An entry as the kernel has it: every table is named, a rule has no interface.
InKernel(e) ==
    [kind |-> e.kind, to |-> e.to, via |-> e.via, table |-> TableOf(e),
     iface |-> IF e.kind = "rule" THEN NoIface ELSE e.iface]

TypeOK ==
    /\ kernel \subseteq {InKernel(e) : e \in Entries}
    /\ file \subseteq Entries /\ torn \subseteq {FileOf(e) : e \in Entries}
    /\ defs \subseteq Tables
    /\ pc \in {"idle", "kernel", "file", "next"}
    /\ op \in Ops \cup {NoOp} /\ (pc # "idle" => op \in Ops)
    /\ warned \in BOOLEAN /\ complete \in BOOLEAN
    /\ answer \in {"none", "ok", "partial", "error"}
    /\ touched \subseteq Keys /\ doubtful \subseteq Keys /\ apart \subseteq Keys
    /\ ops \in 0..MaxOps /\ faults \in 0..MaxFailures /\ crashes \in 0..MaxCrashes

Init ==
    /\ kernel = {} /\ file = {} /\ torn = {}
    /\ defs \in {{}} \cup {{d} : d \in Tables}
    /\ pc = "idle" /\ op = NoOp /\ warned = FALSE /\ complete = FALSE
    /\ answer = "none" /\ touched = {} /\ doubtful = {} /\ apart = {}
    /\ ops = 0 /\ faults = 0 /\ crashes = 0

Fault == faults < MaxFailures /\ faults' = faults + 1

Fail == pc' = "idle" /\ answer' = "error"
-----------------------------------------------------------------------------
(* A command: operations of one kind, one after the other. *)
Begin(verb, x) ==
    /\ ops < MaxOps /\ ops' = ops + 1
    /\ \/ pc = "idle" /\ warned' = FALSE /\ touched' = {}
       \/ pc = "next" /\ KindOf(x) = KindOf(op.on) /\ UNCHANGED <<warned, touched>>
    /\ op' = [verb |-> verb, on |-> x] /\ complete' = FALSE
    /\ UNCHANGED <<hostVars, drift, faults, crashes>>

\* validateRouteDeletion, validatePolicy and the checks of a table definition.
Checked == [route |-> {"delete", "replace"}, rule |-> {"add"}, table |-> {"add", "replace"}]

Validated(verb, x) == ~(x \in Refused /\ verb \in Checked[KindOf(x)])

Request(verb, x) ==
    /\ Begin(verb, x)
    /\ IF Validated(verb, x) THEN pc' = "kernel" /\ answer' = "none" ELSE Fail

\* RouteManage, PolicyManage, TableManage.
Finish ==
    /\ pc = "next" /\ pc' = "idle"
    /\ answer' = IF warned THEN "partial" ELSE "ok"
    /\ UNCHANGED <<hostVars, op, warned, complete, touched, drift, ops, faults, crashes>>
-----------------------------------------------------------------------------
(* The kernel. *)
Known(e) == {n \in kernel : Key(n) = Key(e)}

\* A deletion finds a route by its gateway, and by its interface if one is given.
Matches(n, e) ==
    Key(n) = Key(e) /\ n.via = e.via /\ (e.kind = "route" => e.iface \in {NoIface, n.iface})

\* What else there is for the same destination, or for the same rule.  The files are
\* kept by other keys than the kernel, so that these part: all but the route that a
\* replacement finds on its own interface.
Others(e) ==
    {f \in file : f.kind = e.kind /\ f.to = e.to /\ f # e /\ (e.kind = "rule" => f.table = e.table)}
    \cup {n \in kernel : n.kind = "route" /\ e.kind = "route" /\ n.to = e.to /\ n # InKernel(e)}

Replaced(verb, e) ==
    {o \in Others(e) : verb = "replace" /\ e.kind = "route" /\ Key(o) = Key(e) /\ o.iface = e.iface}

Strays(verb, e) ==
    LET rivals == Others(e) \ Replaced(verb, e)
    IN IF rivals = {} THEN {} ELSE {Key(o) : o \in rivals \cup {e}}

KernelDone(verb, e) ==
    /\ pc' = "file" /\ touched' = touched \cup {Key(e)}
    /\ apart' = apart \cup Strays(verb, e)
    /\ UNCHANGED <<file, torn, defs, op, warned, complete, answer, ops, crashes>>

KernelFails ==
    /\ Fail
    /\ UNCHANGED <<file, torn, defs, op, warned, complete, touched, apart, ops, crashes>>

Doing(kind, verb) == pc = "kernel" /\ KindOf(op.on) = kind /\ op.verb = verb

\* Mutant of AddRoute: a route that is in the kernel is left at that.
AddRouteToKernelOnly ==
    /\ Doing("route", "add")
    /\ IF Known(op.on) = {}
         THEN kernel' = kernel \cup {InKernel(op.on)} /\ KernelDone("add", op.on)
         ELSE /\ pc' = "next" /\ touched' = touched \cup {Key(op.on)}
              /\ UNCHANGED <<kernel, file, torn, defs, op, warned, complete, answer, apart, ops,
                             crashes>>
    /\ UNCHANGED <<doubtful, faults>>

\* EEXIST is taken for this route, whatever gateway the one in the kernel has.
AddRoute ==
    /\ Doing("route", "add")
    /\ \/ /\ kernel' = IF Known(op.on) = {} THEN kernel \cup {InKernel(op.on)} ELSE kernel
          /\ KernelDone("add", op.on) /\ UNCHANGED <<doubtful, faults>>
       \/ Fault /\ KernelFails /\ UNCHANGED <<kernel, doubtful>>

DeleteRoute ==
    /\ Doing("route", "delete")
    /\ LET gone == {n \in kernel : Matches(n, op.on)} IN
       \/ /\ gone # {} /\ kernel' = kernel \ gone
          /\ KernelDone("delete", op.on) /\ UNCHANGED <<doubtful, faults>>
       \/ gone = {} /\ KernelFails /\ UNCHANGED <<kernel, doubtful, faults>>
       \/ Fault /\ KernelFails /\ UNCHANGED <<kernel, doubtful>>

ReplaceRoute ==
    /\ Doing("route", "replace")
    /\ \/ /\ kernel' = (kernel \ Known(op.on)) \cup {InKernel(op.on)}
          /\ KernelDone("replace", op.on) /\ UNCHANGED <<doubtful, faults>>
       \/ Fault /\ KernelFails /\ UNCHANGED <<kernel, doubtful>>

AddPolicy ==
    /\ Doing("rule", "add")
    /\ \/ /\ kernel' = kernel \cup {InKernel(op.on)}
          /\ KernelDone("add", op.on) /\ UNCHANGED <<doubtful, faults>>
       \/ Fault /\ KernelFails /\ UNCHANGED <<kernel, doubtful>>

\* That the rule could not be removed is only logged.
DeletePolicy ==
    /\ Doing("rule", "delete")
    /\ \/ /\ kernel' = kernel \ Known(op.on)
          /\ KernelDone("delete", op.on) /\ UNCHANGED <<doubtful, faults>>
       \/ /\ Fault /\ pc' = "file" /\ touched' = touched \cup {Key(op.on)}
          /\ apart' = apart \cup {Key(op.on)}
          /\ UNCHANGED <<kernel, file, torn, defs, op, warned, complete, answer, doubtful, ops,
                         crashes>>

\* The old rule is gone when the new one cannot be added.
ReplacePolicy ==
    /\ Doing("rule", "replace")
    /\ \/ /\ kernel' = (kernel \ Known(op.on)) \cup {InKernel(op.on)}
          /\ KernelDone("replace", op.on) /\ UNCHANGED <<doubtful, faults>>
       \/ /\ Fault /\ kernel' \in {kernel, kernel \ Known(op.on)} /\ KernelFails
          /\ doubtful' = doubtful \cup {Key(op.on)}
-----------------------------------------------------------------------------
(* The netplan files. *)
\* What can be read of the file of an entry's interface.
Listed(e) == IF FileOf(e) \in torn THEN {} ELSE {f \in file : FileOf(f) = FileOf(e)}

SameEntry(f, e) ==
    f.to = e.to /\ IF e.kind = "route" THEN f.via = e.via ELSE f.table = e.table

Upsert(listed, e) ==
    IF \E f \in listed : SameEntry(f, e) THEN listed ELSE listed \cup {e}

WithoutEntry(listed, e) ==
    {f \in listed : ~(SameEntry(f, e) /\ e.table \in {Unset, f.table})}

Persisted(e) ==
    /\ pc' = "next" /\ doubtful' = doubtful \ {Key(e)}
    /\ UNCHANGED <<kernel, defs, op, warned, complete, answer, touched, apart, ops, crashes>>

\* addPersistWarning: the operation counts as done.
Warn(unsure) ==
    /\ pc' = "next" /\ warned' = TRUE
    /\ doubtful' = doubtful \cup unsure
    /\ UNCHANGED <<kernel, defs, op, complete, answer, touched, apart, ops, crashes>>

\* "sudo tee" truncates the file and writes it; it may stop anywhere.
Elsewhere(e) == {f \in file : FileOf(f) # FileOf(e)}

CutOff(e, content) ==
    \/ \E part \in SUBSET content :
         file' = Elsewhere(e) \cup part /\ torn' = torn \ {FileOf(e)}
    \/ file' = Elsewhere(e) /\ torn' = torn \cup {FileOf(e)}

AtStake(e, content) == {Key(f) : f \in Listed(e) \cup content \cup {e}}

Write(e, content) ==
    \/ /\ file' = Elsewhere(e) \cup content /\ torn' = torn \ {FileOf(e)}
       /\ Persisted(e) /\ UNCHANGED faults
    \/ Fault /\ Warn({Key(e)}) /\ UNCHANGED <<file, torn>>
    \/ Fault /\ Warn(AtStake(e, content)) /\ CutOff(e, content)

LeaveFile(e) == Persisted(e) /\ UNCHANGED <<file, torn, faults>>

CannotPersist(e) == Warn({Key(e)}) /\ UNCHANGED <<file, torn, faults>>

Persisting(kind, verb) == pc = "file" /\ KindOf(op.on) = kind /\ op.verb = verb

\* A file that cannot be read is written anew with this entry alone.
AddEntry(e) ==
    CASE e.iface = NoIface -> CannotPersist(e)
      [] e.iface # NoIface /\ Upsert(Listed(e), e) = Listed(e) -> LeaveFile(e)
      [] OTHER -> Write(e, Upsert(Listed(e), e))

RemoveEntry(e) ==
    CASE e.iface = NoIface \/ FileOf(e) \in torn -> CannotPersist(e)
      [] e.iface # NoIface /\ FileOf(e) \notin torn /\ Listed(e) = {} -> LeaveFile(e)
      [] OTHER -> Write(e, WithoutEntry(Listed(e), e))

AddRouteToFile       == Persisting("route", "add") /\ AddEntry(op.on)
AddPolicyToFile      == Persisting("rule", "add") /\ AddEntry(op.on)
RemoveRouteFromFile  == Persisting("route", "delete") /\ RemoveEntry(op.on)
RemovePolicyFromFile == Persisting("rule", "delete") /\ RemoveEntry(op.on)

\* Mutant of Cleared: the route is taken out as a deletion does it.
ClearedByEntry(listed, e) == WithoutEntry(listed, e)

Cleared(listed, e) == {f \in listed : f.to # e.to}

ReplaceRouteInFile ==
    /\ Persisting("route", "replace")
    /\ LET e == op.on IN
       IF e.iface = NoIface \/ FileOf(e) \in torn
         THEN CannotPersist(e)
         ELSE Write(e, Upsert(Cleared(Listed(e), e), e))

\* The old rule is removed in a write of its own, whose failure is only logged; what
\* that write destroyed is then missing without a warning.
ReplacePolicyInFile ==
    /\ Persisting("rule", "replace")
    /\ LET e     == op.on
           other == WithoutEntry(Listed(e), e)
       IN \/ e.iface = NoIface /\ CannotPersist(e)
          \/ e.iface # NoIface /\ Write(e, other \cup {e})
          \/ /\ e.iface # NoIface /\ other # {} /\ Fault
             /\ \E part \in SUBSET other : file' = (file \ Listed(e)) \cup part \cup {e}
             /\ pc' = "next" /\ doubtful' = doubtful \ {Key(e)}
             /\ apart' = apart \cup {Key(f) : f \in other}
             /\ UNCHANGED <<kernel, torn, defs, op, warned, complete, answer, touched, ops,
                            crashes>>
\* The file as the step that is to come would write it, if it would write it.
ToWrite(verb, e) ==
    CASE verb = "add"                          -> Upsert(Listed(e), e)
      [] verb = "delete"                       -> WithoutEntry(Listed(e), e)
      [] verb = "replace" /\ e.kind = "route"  -> Upsert(Cleared(Listed(e), e), e)
      [] verb = "replace" /\ e.kind = "rule"   -> WithoutEntry(Listed(e), e) \cup {e}

Writes(verb, e) ==
    /\ e.iface # NoIface
    /\ verb = "add" => Upsert(Listed(e), e) # Listed(e)
    /\ verb = "delete" => Listed(e) # {}
    /\ verb = "replace" /\ e.kind = "route" => FileOf(e) \notin torn
-----------------------------------------------------------------------------
(* Routing tables. *)
Named(t) == {d \in defs : d.id = t.id}

TableDone(outcome) ==
    /\ pc' = IF outcome = "ok" THEN "next" ELSE "idle"
    /\ answer' = IF outcome = "ok" THEN answer ELSE "error"
    /\ UNCHANGED <<file, torn, op, warned, touched, doubtful, ops, crashes>>

\* os.WriteFile truncates too; a file cut short, by a failure or by the death of the
\* agent, holds the lines that were written.
WriteTables(content) ==
    /\ \/ defs' = content /\ TableDone("ok") /\ UNCHANGED faults
       \/ /\ Fault /\ defs' \in {defs} \cup SUBSET content /\ TableDone("error")
    /\ UNCHANGED <<kernel, complete, apart>>

AddTable ==
    /\ Doing("table", "add")
    /\ IF \E d \in defs : d.id = op.on.id \/ d.name = op.on.name
         THEN TableDone("error") /\ UNCHANGED <<kernel, defs, complete, apart, faults>>
         ELSE WriteTables(defs \cup {op.on})

\* No check of the name: two tables may come to share one.
ReplaceTable ==
    /\ Doing("table", "replace")
    /\ WriteTables((defs \ Named(op.on)) \cup {op.on})

\* Mutant of Flushed: rules are left.
FlushedRoutes(t) == {n \in kernel : n.table = t.id /\ t.id \in Managed /\ n.kind = "route"}

Flushed(t) == IF t.id \in Managed THEN {n \in kernel : n.table = t.id} ELSE {}

\* The routes and rules of the table leave the kernel as far as possible, and stay in
\* the netplan files.
FlushTable ==
    /\ Doing("table", "delete")
    /\ IF Named(op.on) = {}
         THEN TableDone("ok") /\ UNCHANGED <<kernel, defs, complete, apart, faults>>
         ELSE /\ \/ /\ kernel' = kernel \ Flushed(op.on) /\ complete' = TRUE /\ UNCHANGED faults
                 \/ /\ Fault /\ Flushed(op.on) # {} /\ complete' = FALSE
                    /\ \E part \in SUBSET Flushed(op.on) : kernel' = kernel \ part
              /\ apart' = apart \cup {Key(n) : n \in Flushed(op.on)}
              /\ pc' = "file"
              /\ UNCHANGED <<file, torn, defs, op, warned, answer, touched, doubtful, ops, crashes>>

ForgetTable == pc = "file" /\ OnTable /\ WriteTables(defs \ Named(op.on))

\* ManageRoutingTables, of a netplan command: the list given is the list from now on.
BulkTables(ds) ==
    /\ pc = "idle" /\ ops < MaxOps /\ ops' = ops + 1
    /\ LET own == {d \in ds : d.id \in Managed} IN
       \/ defs' = (IF own = {} THEN defs ELSE own) /\ answer' = "ok" /\ UNCHANGED faults
       \/ Fault /\ defs' \in {defs} \cup SUBSET own /\ answer' = "error"
    /\ touched' = {}
    /\ UNCHANGED <<kernel, file, torn, pc, op, warned, complete, drift, crashes>>
-----------------------------------------------------------------------------
(* Crashes and reboots. *)
\* The agent dies between two steps, with the file step of this operation to do, or in
\* the middle of the write.
Crash ==
    /\ pc # "idle" /\ crashes < MaxCrashes /\ crashes' = crashes + 1
    /\ pc' = "idle" /\ answer' = "none"
    /\ LET persisting == pc = "file" /\ ~OnTable IN
       \/ /\ doubtful' = IF persisting THEN doubtful \cup {Key(op.on)} ELSE doubtful
          /\ UNCHANGED <<file, torn>>
       \/ /\ persisting /\ Writes(op.verb, op.on)
          /\ LET content == ToWrite(op.verb, op.on)
             IN CutOff(op.on, content) /\ doubtful' = doubtful \cup AtStake(op.on, content)
    /\ UNCHANGED <<kernel, defs, op, warned, complete, touched, apart, ops, faults>>

\* netplan sets up what the files hold, and nothing at all if it cannot read one.  Of
\* entries for one route either may come out.
Restorable ==
    IF torn # {} THEN {{}}
    ELSE LET all == {InKernel(f) : f \in file} IN
         {ns \in SUBSET all : /\ {Key(n) : n \in ns} = {Key(n) : n \in all}
                              /\ \A m, n \in ns : Key(m) = Key(n) => m = n}

Reboot ==
    /\ pc = "idle" /\ crashes < MaxCrashes /\ crashes' = crashes + 1
    /\ kernel' \in Restorable
    /\ answer' = "none" /\ touched' = {}
    /\ doubtful' = IF torn = {} THEN doubtful ELSE Keys
    /\ UNCHANGED <<file, torn, defs, pc, op, warned, complete, apart, ops, faults>>

Next ==
    \/ \E verb \in Verbs, x \in Entries \cup Tables : Request(verb, x)
    \/ AddRoute \/ DeleteRoute \/ ReplaceRoute
    \/ AddPolicy \/ DeletePolicy \/ ReplacePolicy
    \/ AddRouteToFile \/ RemoveRouteFromFile \/ ReplaceRouteInFile
    \/ AddPolicyToFile \/ RemovePolicyFromFile \/ ReplacePolicyInFile
    \/ AddTable \/ ReplaceTable \/ FlushTable \/ ForgetTable
    \/ \E ds \in SUBSET Tables : BulkTables(ds)
    \/ Finish
    \/ Crash \/ Reboot

Spec == Init /\ [][Next]_vars
-----------------------------------------------------------------------------
\* The kernel and the files say the same of k: it comes back after a reboot if it is
\* there, and stays away if it is not.
Agree(k) == {n \in kernel : Key(n) = k} = {InKernel(f) : f \in {g \in file : Key(g) = k}}

\* What no operation left half-done is the same in the kernel and in the files, but for
\* the keys the agent is known to let drift.  In particular an addition that finds the
\* route in the kernel makes up for a persist that failed before.
KernelIsPersisted ==
    pc \in {"idle", "next"} => \A k \in Keys \ (doubtful \cup apart) : Agree(k)

\* A batch that is answered with success and without a warning has left every route and
\* rule it was about so that a reboot keeps it, whatever failed in batches before.
SuccessIsPersisted ==
    answer = "ok" => \A k \in touched \ apart : Agree(k)

\* A table is forgotten by a deletion only when no route or rule of it is left in the
\* kernel, unless the flush reported failures.
ForgottenIsEmpty ==
    [][\A t \in defs \ defs' :
         (pc = "file" /\ complete /\ t.id = op.on.id /\ t.id \in Managed)
             => \A n \in kernel' : n.table # t.id]_vars
=============================================================================
