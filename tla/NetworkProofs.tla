----------------------------- MODULE NetworkProofs -----------------------------
(***************************************************************************)
(* The network of the host: routes, rules and tables (Routing), and the    *)
(* netplan configuration (Netplan).                                        *)
(*                                                                         *)
(* That the kernel and the netplan files agree on every route and rule     *)
(* that no operation left half-done and the agent does not let drift, for  *)
(* any entries, tables, failures and crashes.  The invariant says what     *)
(* holds between the two steps of an operation: all other keys agree, and  *)
(* if its own is not one that drifts then the kernel has it already as the *)
(* file is going to, and what the file has for it is this entry or gives   *)
(* way to it.                                                              *)
(***************************************************************************)
EXTENDS Routing, Netplan, TLAPS

InKernelAt(k) == {n \in kernel : Key(n) = k}
InFilesAt(k)  == {f \in file : Key(f) = k}

\* Between the two steps of an operation on a route or rule.
HalfDone == pc = "file" /\ ~OnTable

Settled == doubtful \cup apart \cup (IF HalfDone THEN {Key(op.on)} ELSE {})

OnePerKey == \A m, n \in kernel : Key(m) = Key(n) => m = n

TornIsEmpty == \A f \in file : FileOf(f) \notin torn

OthersAgree == \A k \in Keys \ Settled : Agree(k)

(* What the file step of a route finds for its destination.                  *)
SameDestination ==
    HalfDone /\ op.on.kind = "route" =>
        \A f \in file : f.kind = "route" /\ f.to = op.on.to
                          => f = op.on \/ Key(f) \in apart \cup {Key(op.on)}

Yields(f) ==
    f = op.on \/ (op.verb = "replace" /\ op.on.kind = "route" /\ f.iface = op.on.iface)

KernelIsAhead ==
    HalfDone /\ Key(op.on) \notin apart =>
        /\ InKernelAt(Key(op.on)) = IF op.verb = "delete" THEN {} ELSE {InKernel(op.on)}
        /\ \A f \in file : f.kind = op.on.kind /\ f.to = op.on.to
                             /\ (f.kind = "rule" => f.table = op.on.table) => Yields(f)

\* Without a warning, nothing that the batch has handled is in doubt.
TouchedFirmly ==
    /\ pc # "idle" /\ ~warned =>
         touched \cap doubtful \subseteq (IF HalfDone THEN {Key(op.on)} ELSE {})
    /\ answer = "ok" => pc = "idle" /\ touched \cap doubtful = {}

Inv == TypeOK /\ OnePerKey /\ TornIsEmpty /\ OthersAgree /\ SameDestination /\ KernelIsAhead
       /\ TouchedFirmly

(* The kernel's form of an entry keeps its key.                              *)
LEMMA EntryFields ==
    ASSUME NEW e \in Entries
    PROVE  /\ InKernel(e).kind = e.kind /\ InKernel(e).to = e.to
           /\ InKernel(e).table = TableOf(e) /\ InKernel(e).via = e.via
           /\ InKernel(e).iface = (IF e.kind = "rule" THEN NoIface ELSE e.iface)
           /\ Key(InKernel(e)) = Key(e)
<1>1. TableOf(InKernel(e)) = TableOf(e)
  BY DEF InKernel, TableOf
<1> QED
  BY <1>1 DEF InKernel, Key

LEMMA SameKey ==
    ASSUME NEW a, NEW b
    PROVE  Key(a) = Key(b) <=> a.kind = b.kind /\ a.to = b.to /\ TableOf(a) = TableOf(b)
  BY DEF Key

LEMMA SameFile ==
    ASSUME NEW a, NEW b
    PROVE  FileOf(a) = FileOf(b) <=> a.kind = b.kind /\ a.iface = b.iface
  BY DEF FileOf

LEMMA KeyIn == ASSUME NEW e \in Entries PROVE Key(e) \in Keys
  BY DEF Keys

(* Rules have nothing but their key in the kernel.                           *)
LEMMA RuleIsItsKey ==
    ASSUME NEW a \in Entries, NEW b \in Entries, a.kind = "rule", Key(a) = Key(b)
    PROVE  InKernel(a) = InKernel(b)
<1>1. a.kind = b.kind /\ a.to = b.to /\ TableOf(a) = TableOf(b)
  BY SameKey
<1>2. a.via = b.via
  BY <1>1, RoutingAssumption
<1> QED
  BY <1>1, <1>2 DEF InKernel

LEMMA OpIsEntry ==
    ASSUME TypeOK, pc # "idle", ~OnTable \/ KindOf(op.on) \in {"route", "rule"}
    PROVE  op.on \in Entries /\ ~OnTable /\ KindOf(op.on) = op.on.kind /\ op.verb \in Verbs
<1>1. op.on \in Entries \cup Tables /\ op.verb \in Verbs
  BY DEF TypeOK, Ops
<1>2. ~OnTable
  BY DEF KindOf, OnTable
<1> QED
  BY <1>1, <1>2 DEF KindOf, OnTable
-----------------------------------------------------------------------------
(* Types. *)

HostTypeOK ==
    /\ kernel \subseteq {InKernel(e) : e \in Entries}
    /\ file \subseteq Entries /\ torn \subseteq {FileOf(e) : e \in Entries}
    /\ defs \subseteq Tables

CommandTypeOK ==
    /\ pc \in {"idle", "kernel", "file", "next"}
    /\ op \in Ops \cup {NoOp} /\ (pc # "idle" => op \in Ops)
    /\ answer \in {"none", "ok", "partial", "error"}
    /\ touched \subseteq Keys /\ doubtful \subseteq Keys /\ apart \subseteq Keys
    /\ ops \in 0..MaxOps /\ faults \in 0..MaxFailures /\ crashes \in 0..MaxCrashes

FlagTypeOK == warned \in BOOLEAN /\ complete \in BOOLEAN

LEMMA TypeParts == TypeOK <=> HostTypeOK /\ CommandTypeOK /\ FlagTypeOK
  BY DEF TypeOK, HostTypeOK, CommandTypeOK, FlagTypeOK

LEMMA TypePartsNext == HostTypeOK' /\ CommandTypeOK' /\ FlagTypeOK' => TypeOK'
  BY DEF TypeOK, HostTypeOK, CommandTypeOK, FlagTypeOK

LEMMA InitType == Init => TypeOK
<1> SUFFICES ASSUME Init PROVE TypeOK
  OBVIOUS
<1>1. HostTypeOK
  BY DEF Init, HostTypeOK
<1>2. CommandTypeOK
  BY RoutingAssumption DEF Init, CommandTypeOK
<1>3. FlagTypeOK
  BY Zenon DEF Init, FlagTypeOK
<1> QED
  BY <1>1, <1>2, <1>3, TypeParts

(* The steps of an operation. *)
AtKernel == AddRoute \/ DeleteRoute \/ ReplaceRoute \/ AddPolicy \/ DeletePolicy \/ ReplacePolicy

AtFile == \/ AddRouteToFile \/ RemoveRouteFromFile \/ ReplaceRouteInFile
          \/ AddPolicyToFile \/ RemovePolicyFromFile \/ ReplacePolicyInFile

AtTable == AddTable \/ ReplaceTable \/ FlushTable \/ ForgetTable

(* What the kernel step of a route or a rule does.                           *)
LEMMA KernelStep ==
    ASSUME TypeOK, AtKernel
    PROVE  /\ pc = "kernel" /\ op.on \in Entries /\ ~OnTable /\ op.verb \in Verbs
           /\ UNCHANGED <<file, torn, defs, op, warned, complete, ops, crashes>>
           /\ UNCHANGED faults \/ Fault
           /\ kernel' \subseteq kernel \cup {InKernel(op.on)}
           /\ \/ /\ pc' = "file" /\ touched' = touched \cup {Key(op.on)}
                 /\ UNCHANGED <<doubtful, answer>>
                 /\ apart' \in {apart \cup Strays(op.verb, op.on), apart \cup {Key(op.on)}}
              \/ /\ pc' = "idle" /\ answer' = "error" /\ UNCHANGED <<touched, apart>>
                 /\ doubtful' \in {doubtful, doubtful \cup {Key(op.on)}}
<1>1. pc = "kernel" /\ KindOf(op.on) \in {"route", "rule"}
  BY DEF AtKernel, AddRoute, DeleteRoute, ReplaceRoute, AddPolicy, DeletePolicy, ReplacePolicy,
         Doing
<1>2. op.on \in Entries /\ ~OnTable /\ op.verb \in Verbs
  BY <1>1, OpIsEntry
<1> USE <1>1, <1>2 DEF KernelDone, KernelFails, Fail, Doing
<1>3. CASE AddRoute
  BY <1>3 DEF AddRoute
<1>4. CASE DeleteRoute
  BY <1>4 DEF DeleteRoute
<1>5. CASE ReplaceRoute
  BY <1>5 DEF ReplaceRoute
<1>6. CASE AddPolicy
  BY <1>6 DEF AddPolicy
<1>7. CASE DeletePolicy
  BY <1>7 DEF DeletePolicy
<1>8. CASE ReplacePolicy
  BY <1>8 DEF ReplacePolicy
<1> QED
  BY <1>3, <1>4, <1>5, <1>6, <1>7, <1>8 DEF AtKernel

LEMMA StraysAreKeys ==
    ASSUME TypeOK, NEW verb, NEW e \in Entries
    PROVE  Strays(verb, e) \subseteq Keys
<1>1. Others(e) \subseteq file \cup kernel
  BY DEF Others
<1>2. \A o \in file \cup kernel : Key(o) \in Keys
  BY EntryFields, KeyIn DEF TypeOK
<1> QED
  BY <1>1, <1>2, KeyIn DEF Strays

LEMMA KernelTypes ==
    ASSUME TypeOK, AtKernel
    PROVE  TypeOK'
<1>1. HostTypeOK /\ CommandTypeOK /\ FlagTypeOK
  BY TypeParts
<1>2. HostTypeOK'
  BY <1>1, KernelStep DEF HostTypeOK
<1>3. CommandTypeOK'
  <2>1. Key(op.on) \in Keys /\ Strays(op.verb, op.on) \subseteq Keys /\ op \in Ops
    BY <1>1, KernelStep, StraysAreKeys, KeyIn DEF CommandTypeOK
  <2>2. touched' \subseteq Keys /\ doubtful' \subseteq Keys /\ apart' \subseteq Keys
    BY <1>1, <2>1, KernelStep DEF CommandTypeOK
  <2>3. faults' \in 0..MaxFailures
    BY <1>1, KernelStep, RoutingAssumption DEF CommandTypeOK, Fault
  <2> QED
    BY <1>1, <2>1, <2>2, <2>3, KernelStep DEF CommandTypeOK
<1>4. FlagTypeOK'
  BY <1>1, KernelStep DEF FlagTypeOK
<1> QED
  BY <1>2, <1>3, <1>4, TypePartsNext

FileActions(e) == AddEntry(e) \/ RemoveEntry(e) \/ ReplaceRouteInFile \/ ReplacePolicyInFile

(* What the file step of a route or a rule does.                             *)
LEMMA FileStep ==
    ASSUME TypeOK, AtFile
    PROVE  /\ pc = "file" /\ op.on \in Entries /\ ~OnTable /\ op.verb \in Verbs
           /\ FileActions(op.on)
           /\ op.verb = "add" => AddEntry(op.on)
           /\ op.verb = "delete" => RemoveEntry(op.on)
           /\ op.verb = "replace" => \/ op.on.kind = "route" /\ ReplaceRouteInFile
                                     \/ op.on.kind = "rule" /\ ReplacePolicyInFile
<1>1. pc = "file" /\ KindOf(op.on) \in {"route", "rule"}
  BY DEF AtFile, AddRouteToFile, RemoveRouteFromFile, ReplaceRouteInFile, AddPolicyToFile,
         RemovePolicyFromFile, ReplacePolicyInFile, Persisting
<1>2. op.on \in Entries /\ ~OnTable /\ KindOf(op.on) = op.on.kind /\ op.verb \in Verbs
  BY <1>1, OpIsEntry
<1> QED
  BY <1>1, <1>2 DEF AtFile, AddRouteToFile, RemoveRouteFromFile, ReplaceRouteInFile,
     AddPolicyToFile, RemovePolicyFromFile, ReplacePolicyInFile, Persisting, FileActions

(* The outcomes of a file step: it is done, warned of, or has lost a rule    *)
(* that its command was not about.                                           *)
Outcome(e) ==
    /\ pc' = "next"
    /\ UNCHANGED <<kernel, defs, op, complete, answer, touched, ops, crashes>>
    /\ UNCHANGED faults \/ Fault
    /\ \/ UNCHANGED <<warned, apart>> /\ doubtful' = doubtful \ {Key(e)}
       \/ /\ warned' = TRUE /\ UNCHANGED apart /\ Key(e) \in doubtful'
          /\ \E unsure \in SUBSET Keys : doubtful' = doubtful \cup unsure
       \/ /\ UNCHANGED warned /\ doubtful' = doubtful \ {Key(e)}
          /\ \E lost \in SUBSET Keys : apart' = apart \cup lost

LEMMA CutOffTypes ==
    ASSUME TypeOK, NEW e \in Entries, NEW content \in SUBSET Entries
    PROVE  /\ AtStake(e, content) \subseteq Keys
           /\ CutOff(e, content) =>
                file' \subseteq Entries /\ torn' \subseteq torn \cup {FileOf(e)}
<1>1. Listed(e) \subseteq Entries /\ file \subseteq Entries
  BY DEF Listed, TypeOK
<1> QED
  BY <1>1, KeyIn DEF AtStake, CutOff, Elsewhere

LEMMA WriteOutcome ==
    ASSUME TypeOK, NEW e \in Entries, NEW content \in SUBSET Entries, Write(e, content)
    PROVE  Outcome(e) /\ file' \subseteq Entries
           /\ torn' \subseteq torn \cup {FileOf(e)}
<1>1. Listed(e) \subseteq Entries /\ file \subseteq Entries
  BY DEF Listed, TypeOK
<1>2. {Key(e)} \subseteq Keys
  BY KeyIn
<1>3. CASE /\ file' = {f \in file : FileOf(f) # FileOf(e)} \cup content
           /\ torn' = torn \ {FileOf(e)} /\ Persisted(e) /\ UNCHANGED faults
  BY <1>1, <1>3 DEF Persisted, Outcome
<1>4. CASE Fault /\ Warn({Key(e)}) /\ UNCHANGED <<file, torn>>
  BY <1>1, <1>2, <1>4 DEF Warn, Outcome
<1>5. CASE Fault /\ Warn(AtStake(e, content)) /\ CutOff(e, content)
  <2>1. Key(e) \in AtStake(e, content) /\ AtStake(e, content) \subseteq Keys
    BY CutOffTypes DEF AtStake
  <2>2. Outcome(e)
    BY <1>5, <2>1 DEF Warn, Outcome
  <2> QED
    BY <1>5, <2>2, CutOffTypes
<1> QED
  BY <1>3, <1>4, <1>5 DEF Write, Elsewhere

LEMMA FileOutcome ==
    ASSUME TypeOK, NEW e \in Entries, e = op.on, FileActions(e)
    PROVE  Outcome(e) /\ file' \subseteq Entries
           /\ torn' \subseteq torn \cup {FileOf(e)}
<1>1. Listed(e) \subseteq Entries /\ file \subseteq Entries /\ {Key(e)} \subseteq Keys
  BY KeyIn DEF Listed, TypeOK
<1>2. ASSUME CannotPersist(e) \/ LeaveFile(e)
      PROVE  Outcome(e) /\ UNCHANGED <<file, torn>>
  BY <1>1, <1>2 DEF CannotPersist, LeaveFile, Persisted, Warn, Outcome
<1>3. /\ Upsert(Listed(e), e) \in SUBSET Entries /\ WithoutEntry(Listed(e), e) \in SUBSET Entries
      /\ Upsert(Cleared(Listed(e), e), e) \in SUBSET Entries
      /\ WithoutEntry(Listed(e), e) \cup {e} \in SUBSET Entries
  BY <1>1 DEF Upsert, WithoutEntry, Cleared
<1>4. CASE AddEntry(e)
  BY <1>1, <1>2, <1>3, <1>4, WriteOutcome DEF AddEntry
<1>5. CASE RemoveEntry(e)
  BY <1>1, <1>2, <1>3, <1>5, WriteOutcome DEF RemoveEntry
<1>6. CASE ReplaceRouteInFile
  BY <1>1, <1>2, <1>3, <1>6, WriteOutcome DEF ReplaceRouteInFile
<1>7. CASE ReplacePolicyInFile
  <2>1. CASE CannotPersist(e) \/ Write(e, WithoutEntry(Listed(e), e) \cup {e})
    BY <1>1, <1>2, <1>3, <2>1, WriteOutcome
  <2>2. CASE /\ Fault
             /\ \E part \in SUBSET WithoutEntry(Listed(e), e) :
                  file' = (file \ Listed(e)) \cup part \cup {e}
             /\ pc' = "next" /\ doubtful' = doubtful \ {Key(e)}
             /\ apart' = apart \cup {Key(f) : f \in WithoutEntry(Listed(e), e)}
             /\ UNCHANGED <<kernel, torn, defs, op, warned, complete, answer, touched, ops,
                            crashes>>
    <3>1. {Key(f) : f \in WithoutEntry(Listed(e), e)} \in SUBSET Keys
      BY <1>3, KeyIn
    <3>2. file' \subseteq Entries
      BY <1>1, <1>3, <2>2
    <3> QED
      BY <2>2, <3>1, <3>2 DEF Outcome
  <2> QED
    BY <1>7, <2>1, <2>2 DEF ReplacePolicyInFile
<1> QED
  BY <1>4, <1>5, <1>6, <1>7 DEF FileActions

LEMMA FileTypes ==
    ASSUME TypeOK, AtFile
    PROVE  TypeOK'
<1>1. HostTypeOK /\ CommandTypeOK /\ FlagTypeOK
  BY TypeParts
<1>2. /\ pc = "file" /\ op.on \in Entries /\ Outcome(op.on) /\ file' \subseteq Entries
      /\ torn' \subseteq torn \cup {FileOf(op.on)}
  BY FileStep, FileOutcome
<1>3. HostTypeOK'
  BY <1>1, <1>2 DEF HostTypeOK, Outcome
<1>4. CommandTypeOK'
  <2>1. doubtful' \subseteq Keys /\ apart' \subseteq Keys
    BY <1>1, <1>2 DEF CommandTypeOK, Outcome
  <2>2. faults' \in 0..MaxFailures
    BY <1>1, <1>2, RoutingAssumption DEF CommandTypeOK, Outcome, Fault
  <2> QED
    BY <1>1, <1>2, <2>1, <2>2 DEF CommandTypeOK, Outcome
<1>5. FlagTypeOK'
  <2>1. warned' \in {warned, TRUE} /\ complete' = complete
    BY <1>2 DEF Outcome
  <2> QED
    BY <1>1, <2>1, Zenon DEF FlagTypeOK
<1> QED
  BY <1>3, <1>4, <1>5, TypePartsNext

(* Tables: only a flush changes the kernel, and it says of which keys.       *)
TableOutcome ==
    /\ UNCHANGED <<file, torn, op, warned, touched, doubtful, ops, crashes>>
    /\ UNCHANGED faults \/ Fault
    /\ defs' \subseteq Tables /\ kernel' \subseteq kernel
    /\ \E drifts \in SUBSET Keys :
         apart' = apart \cup drifts /\ \A n \in kernel \ kernel' : Key(n) \in drifts
    /\ pc' \in {"file", "next", "idle"} /\ answer' \in {answer, "error"}
    /\ pc' # "idle" => answer' = answer

LEMMA WriteTablesOutcome ==
    ASSUME NEW content \in SUBSET Tables, defs \subseteq Tables, WriteTables(content)
    PROVE  TableOutcome /\ UNCHANGED complete
<1>1. \E drifts \in SUBSET Keys :
        apart' = apart \cup drifts /\ \A n \in kernel \ kernel' : Key(n) \in drifts
  <2>1. apart' = apart \cup {} /\ \A n \in kernel \ kernel' : Key(n) \in {}
    BY DEF WriteTables
  <2> WITNESS {} \in SUBSET Keys
  <2> QED
    BY <2>1
<1> QED
  BY <1>1 DEF WriteTables, TableDone, TableOutcome

LEMMA TableStep ==
    ASSUME TypeOK, AtTable
    PROVE  pc \in {"kernel", "file"} /\ OnTable /\ TableOutcome /\ complete' \in BOOLEAN
<1>1. HostTypeOK /\ CommandTypeOK /\ complete \in BOOLEAN
  BY TypeParts DEF FlagTypeOK
<1>2. pc \in {"kernel", "file"} /\ OnTable
  BY <1>1, RoutingAssumption DEF AtTable, AddTable, ReplaceTable, FlushTable, ForgetTable, Doing,
     KindOf, OnTable, CommandTypeOK, Ops
<1>3. op.on \in Tables /\ defs \subseteq Tables
  BY <1>1, <1>2 DEF OnTable, HostTypeOK
<1>4. /\ defs \cup {op.on} \in SUBSET Tables /\ defs \ Named(op.on) \in SUBSET Tables
      /\ (defs \ Named(op.on)) \cup {op.on} \in SUBSET Tables
  BY <1>3
<1>5. ASSUME UNCHANGED <<kernel, defs, complete, apart, faults>>,
             TableDone("ok") \/ TableDone("error")
      PROVE  TableOutcome
  <2>1. apart' = apart \cup {} /\ \A n \in kernel \ kernel' : Key(n) \in {}
    BY <1>5
  <2>2. \E drifts \in SUBSET Keys :
          apart' = apart \cup drifts /\ \A n \in kernel \ kernel' : Key(n) \in drifts
    <3> WITNESS {} \in SUBSET Keys
    <3> QED
      BY <2>1
  <2> QED
    BY <1>3, <1>5, <2>2 DEF TableDone, TableOutcome
<1>6. CASE AddTable \/ ReplaceTable \/ ForgetTable
  <2>1. \/ UNCHANGED <<kernel, defs, complete, apart, faults>> /\ TableDone("error")
        \/ \E content \in SUBSET Tables : WriteTables(content)
    BY <1>4, <1>6 DEF AddTable, ReplaceTable, ForgetTable
  <2>2. complete' = complete
    BY <2>1 DEF WriteTables
  <2> QED
    BY <1>1, <1>2, <1>3, <1>5, <2>1, <2>2, WriteTablesOutcome
<1>7. CASE FlushTable
  <2>1. CASE Named(op.on) = {}
    BY <1>1, <1>2, <1>5, <1>7, <2>1 DEF FlushTable
  <2>2. CASE Named(op.on) # {}
    <3>1. /\ UNCHANGED <<file, torn, defs, op, warned, answer, touched, doubtful, ops, crashes>>
          /\ UNCHANGED faults \/ Fault
          /\ pc' = "file" /\ apart' = apart \cup {Key(n) : n \in Flushed(op.on)}
          /\ kernel' \subseteq kernel /\ kernel \ kernel' \subseteq Flushed(op.on)
      BY <1>7, <2>2 DEF FlushTable
    <3>2. complete' \in BOOLEAN
      BY <1>7, <2>2, Zenon DEF FlushTable
    <3>3. {Key(n) : n \in Flushed(op.on)} \in SUBSET Keys
      BY <1>1, EntryFields, KeyIn DEF HostTypeOK, Flushed
    <3> QED
      BY <1>1, <1>2, <3>1, <3>2, <3>3 DEF TableOutcome, HostTypeOK
  <2> QED
    BY <2>1, <2>2
<1> QED
  BY <1>6, <1>7 DEF AtTable

LEMMA TableTypes ==
    ASSUME TypeOK, AtTable
    PROVE  TypeOK'
<1>1. HostTypeOK /\ CommandTypeOK /\ FlagTypeOK
  BY TypeParts
<1>2. HostTypeOK'
  BY <1>1, TableStep DEF HostTypeOK, TableOutcome
<1>3. CommandTypeOK'
  <2>1. apart' \subseteq Keys /\ op \in Ops
    BY <1>1, TableStep DEF CommandTypeOK, TableOutcome
  <2>2. faults' \in 0..MaxFailures
    BY <1>1, TableStep, RoutingAssumption DEF CommandTypeOK, TableOutcome, Fault
  <2> QED
    BY <1>1, <2>1, <2>2, TableStep DEF CommandTypeOK, TableOutcome
<1>4. FlagTypeOK'
  <2>1. warned' = warned
    BY TableStep DEF TableOutcome
  <2> QED
    BY <1>1, <2>1, TableStep, Zenon DEF FlagTypeOK
<1> QED
  BY <1>2, <1>3, <1>4, TypePartsNext

(* Commands begin and end, and the agent and the host die.                   *)
AtHost ==
    \/ \E verb \in Verbs, x \in Entries \cup Tables : Request(verb, x)
    \/ \E ds \in SUBSET Tables : BulkTables(ds)
    \/ Finish \/ Crash \/ Reboot

(* The agent dies beside a write, or in it.                                  *)
LEMMA CrashCases ==
    ASSUME TypeOK, Crash
    PROVE  /\ pc' = "idle" /\ answer' = "none"
           /\ UNCHANGED <<kernel, defs, op, warned, complete, touched, apart, ops, faults>>
           /\ \/ /\ UNCHANGED <<file, torn>>
                 /\ doubtful' = IF HalfDone THEN doubtful \cup {Key(op.on)} ELSE doubtful
              \/ /\ HalfDone /\ op.on \in Entries
                 /\ \E content \in SUBSET Entries :
                      /\ \A f \in content : FileOf(f) = FileOf(op.on)
                      /\ CutOff(op.on, content)
                      /\ doubtful' = doubtful \cup AtStake(op.on, content)
<1>1. HalfDone => op.on \in Entries /\ op.verb \in Verbs /\ op.on.kind \in {"route", "rule"}
  BY OpIsEntry, RoutingAssumption DEF HalfDone
<1>2. HalfDone => /\ ToWrite(op.verb, op.on) \in SUBSET Entries
                  /\ \A f \in ToWrite(op.verb, op.on) : FileOf(f) = FileOf(op.on)
  <2>1. \A f \in Listed(op.on) : f \in Entries /\ FileOf(f) = FileOf(op.on)
    BY DEF Listed, TypeOK
  <2> QED
    BY <1>1, <2>1 DEF ToWrite, Verbs, Upsert, WithoutEntry, Cleared
<1> QED
  BY <1>1, <1>2 DEF Crash, HalfDone

LEMMA HostTypes ==
    ASSUME TypeOK, AtHost
    PROVE  TypeOK'
<1>1. HostTypeOK /\ CommandTypeOK /\ FlagTypeOK
  BY TypeParts
<1> USE <1>1, RoutingAssumption
<1>2. ASSUME NEW verb \in Verbs, NEW x \in Entries \cup Tables, Request(verb, x)
      PROVE  TypeOK'
  <2>1. HostTypeOK'
    BY <1>2 DEF Request, Begin, hostVars, HostTypeOK
  <2>2. op' \in Ops
    BY <1>2 DEF Request, Begin, Ops
  <2>3. CommandTypeOK'
    BY <1>2, <2>2 DEF Request, Begin, Fail, drift, CommandTypeOK
  <2>4. FlagTypeOK'
    <3>1. warned' \in {warned, FALSE} /\ complete' = FALSE
      BY <1>2 DEF Request, Begin
    <3> QED
      BY <3>1, Zenon DEF FlagTypeOK
  <2> QED
    BY <2>1, <2>3, <2>4, TypePartsNext
<1>3. ASSUME NEW ds \in SUBSET Tables, BulkTables(ds)
      PROVE  TypeOK'
  <2>1. HostTypeOK'
    BY <1>3 DEF BulkTables, HostTypeOK
  <2>2. faults' \in 0..MaxFailures
    BY <1>3 DEF BulkTables, CommandTypeOK, Fault
  <2>3. CommandTypeOK'
    BY <1>3, <2>2 DEF BulkTables, drift, CommandTypeOK
  <2>4. FlagTypeOK'
    BY <1>3 DEF BulkTables, FlagTypeOK
  <2> QED
    BY <2>1, <2>3, <2>4, TypePartsNext
<1>4. CASE Finish
  <2>1. answer' \in {"partial", "ok"}
    BY <1>4 DEF Finish
  <2>2. HostTypeOK' /\ CommandTypeOK'
    BY <1>4, <2>1 DEF Finish, hostVars, drift, HostTypeOK, CommandTypeOK
  <2>3. FlagTypeOK'
    BY <1>4 DEF Finish, FlagTypeOK
  <2> QED
    BY <2>2, <2>3, TypePartsNext
<1>5. CASE Crash
  <2>1. /\ doubtful' \subseteq Keys
        /\ file' \subseteq Entries /\ torn' \subseteq {FileOf(e) : e \in Entries}
    BY <1>5, CrashCases, CutOffTypes, OpIsEntry, KeyIn DEF HalfDone, HostTypeOK, CommandTypeOK
  <2>2. HostTypeOK' /\ CommandTypeOK'
    BY <1>5, <2>1 DEF Crash, HostTypeOK, CommandTypeOK
  <2>3. FlagTypeOK'
    BY <1>5 DEF Crash, FlagTypeOK
  <2> QED
    BY <2>2, <2>3, TypePartsNext
<1>6. CASE Reboot
  <2>1. kernel' \subseteq {InKernel(e) : e \in Entries}
    BY <1>6 DEF Reboot, Restorable, HostTypeOK
  <2>2. HostTypeOK' /\ CommandTypeOK'
    BY <1>6, <2>1 DEF Reboot, HostTypeOK, CommandTypeOK
  <2>3. FlagTypeOK'
    BY <1>6 DEF Reboot, FlagTypeOK
  <2> QED
    BY <2>2, <2>3, TypePartsNext
<1> QED
  BY <1>2, <1>3, <1>4, <1>5, <1>6 DEF AtHost

LEMMA StutterTypes ==
    ASSUME TypeOK, UNCHANGED vars
    PROVE  TypeOK'
<1>1. HostTypeOK' /\ CommandTypeOK'
  BY TypeParts DEF HostTypeOK, CommandTypeOK, vars, hostVars, drift
<1>2. FlagTypeOK'
  BY TypeParts, Zenon DEF FlagTypeOK, vars
<1> QED
  BY <1>1, <1>2, TypePartsNext

LEMMA NextCases == Next => AtKernel \/ AtFile \/ AtTable \/ AtHost
  BY DEF Next, AtKernel, AtFile, AtTable, AtHost

LEMMA NextType == TypeOK /\ [Next]_vars => TypeOK'
  BY NextCases, KernelTypes, FileTypes, TableTypes, HostTypes, StutterTypes

(* Whatever fails, is cut short or dies, the files hold entries, the kernel  *)
(* holds them in its own form, and an operation is at one of its steps.      *)
THEOREM TypeCorrect == Spec => []TypeOK
  BY InitType, NextType, PTL DEF Spec
-----------------------------------------------------------------------------
(* The first step, in the kernel.                                            *)

(* A rule's table is never left out, so its key tells it.                    *)
LEMMA RuleKeys ==
    ASSUME NEW a \in Entries, NEW b \in Entries, a.kind = "rule", Key(a) = Key(b)
    PROVE  b.kind = "rule" /\ a.to = b.to /\ a.table = b.table
  BY SameKey, RoutingAssumption DEF TableOf

LEMMA KernelEntries ==
    ASSUME TypeOK, NEW n \in kernel
    PROVE  \E a \in Entries : n = InKernel(a) /\ Key(n) = Key(a) /\ n.kind = a.kind /\ n.to = a.to
  BY EntryFields DEF TypeOK

(* With nothing astray the kernel has at most this entry for its key.        *)
LEMMA NoStrays ==
    ASSUME TypeOK, NEW verb, NEW e \in Entries, Key(e) \notin Strays(verb, e)
    PROVE  Others(e) \subseteq Replaced(verb, e)
  BY DEF Strays

LEMMA KernelAtKey ==
    ASSUME TypeOK, AtKernel, pc' = "file", Key(op.on) \notin apart'
    PROVE  InKernelAt(Key(op.on))' = IF op.verb = "delete" THEN {} ELSE {InKernel(op.on)}
<1> DEFINE e == op.on
           k == Key(e)
<1>1. e \in Entries /\ pc = "kernel" /\ KindOf(e) = e.kind
  BY KernelStep, OpIsEntry DEF KindOf, OnTable
<1>2. InKernel(e).kind = e.kind /\ Key(InKernel(e)) = k
  BY <1>1, EntryFields
<1>3. ASSUME e.kind = "route", op.verb # "replace", Key(e) \notin Strays(op.verb, e)
      PROVE  InKernelAt(k) \subseteq {InKernel(e)}
  <2>1. Others(e) = {}
    BY <1>1, <1>3, NoStrays DEF Replaced
  <2>2. \A n \in kernel : Key(n) = k => n.kind = "route" /\ n.to = e.to
    BY <1>3, SameKey
  <2> QED
    BY <1>3, <2>1, <2>2 DEF InKernelAt, Others
<1>4. ASSUME e.kind = "rule"
      PROVE  InKernelAt(k) \subseteq {InKernel(e)}
  <2>1. \A n \in kernel : Key(n) = k => n = InKernel(e)
    BY <1>1, <1>4, KernelEntries, RuleIsItsKey
  <2> QED
    BY <2>1 DEF InKernelAt
<1> USE DEF KernelDone, KernelFails, Fail, Doing, InKernelAt
<1>5. CASE AddRoute
  BY <1>1, <1>2, <1>3, <1>5 DEF AddRoute, Known
<1>6. CASE DeleteRoute
  <2>1. InKernelAt(k) \subseteq {InKernel(e)}
    BY <1>1, <1>3, <1>6 DEF DeleteRoute
  <2>2. PICK n \in kernel : Matches(n, e)
    BY <1>6 DEF DeleteRoute
  <2>3. n = InKernel(e) /\ \A m \in kernel : Matches(m, e) => Key(m) = k
    BY <2>1, <2>2 DEF Matches
  <2> QED
    BY <1>1, <1>6, <2>1, <2>2, <2>3 DEF DeleteRoute
<1>7. CASE ReplaceRoute
  BY <1>1, <1>2, <1>7 DEF ReplaceRoute, Known
<1>8. CASE AddPolicy
  BY <1>1, <1>2, <1>4, <1>8 DEF AddPolicy
<1>9. CASE DeletePolicy
  BY <1>1, <1>9 DEF DeletePolicy, Known
<1>10. CASE ReplacePolicy
  BY <1>1, <1>2, <1>10 DEF ReplacePolicy, Known
<1> QED
  BY <1>5, <1>6, <1>7, <1>8, <1>9, <1>10 DEF AtKernel

(* At other keys the kernel stays as it is; at its own one entry may come.   *)
LEMMA KernelElsewhere ==
    ASSUME TypeOK, OnePerKey, AtKernel
    PROVE  /\ \A k : k # Key(op.on) => InKernelAt(k)' = InKernelAt(k)
           /\ OnePerKey'
           /\ pc' = "idle" => kernel' = kernel \/ Key(op.on) \in doubtful'
           /\ op.on.kind = "route" => apart' \in {apart, apart \cup Strays(op.verb, op.on)}
           /\ op.on.kind = "route" /\ pc' = "file" => apart' = apart \cup Strays(op.verb, op.on)
<1> DEFINE e == op.on
<1>1. e \in Entries /\ pc = "kernel" /\ KindOf(e) = e.kind
  BY KernelStep, OpIsEntry DEF KindOf, OnTable
<1>2. Key(InKernel(e)) = Key(e)
  BY <1>1, EntryFields
<1>3. kernel' \subseteq kernel \cup {InKernel(e)} /\ kernel \ Known(e) \subseteq kernel'
  <2> USE DEF Known, Doing
  <2>1. CASE AddRoute \/ ReplaceRoute \/ AddPolicy \/ DeletePolicy \/ ReplacePolicy
    BY <2>1 DEF AddRoute, ReplaceRoute, AddPolicy, DeletePolicy, ReplacePolicy
  <2>2. CASE DeleteRoute
    BY <2>2 DEF DeleteRoute, Matches
  <2> QED
    BY <2>1, <2>2 DEF AtKernel
<1>4. \A k : k # Key(e) => InKernelAt(k)' = InKernelAt(k)
  BY <1>2, <1>3 DEF InKernelAt, Known
<1>5. kernel' \subseteq kernel \/ kernel' \subseteq (kernel \ Known(e)) \cup {InKernel(e)}
  <2> USE <1>1, <1>2 DEF Doing
  <2>1. CASE AddRoute \/ ReplaceRoute \/ DeletePolicy \/ ReplacePolicy
    BY <2>1 DEF AddRoute, ReplaceRoute, DeletePolicy, ReplacePolicy
  <2>2. CASE DeleteRoute
    BY <2>2 DEF DeleteRoute
  <2>3. CASE AddPolicy
    <3>1. e.kind = "rule"
      BY <2>3 DEF AddPolicy
    <3>2. Known(e) \subseteq {InKernel(e)}
      BY <3>1, KernelEntries, RuleIsItsKey DEF Known
    <3> QED
      BY <2>3, <3>2 DEF AddPolicy
  <2> QED
    BY <2>1, <2>2, <2>3 DEF AtKernel
<1>6. OnePerKey'
  BY <1>2, <1>5 DEF OnePerKey, Known
<1>7. /\ pc' = "idle" => kernel' = kernel \/ Key(e) \in doubtful'
      /\ e.kind = "route" => apart' \in {apart, apart \cup Strays(op.verb, e)}
      /\ e.kind = "route" /\ pc' = "file" => apart' = apart \cup Strays(op.verb, e)
  <2> USE <1>1 DEF KernelDone, KernelFails, Fail, Doing
  <2>1. CASE AddRoute
    BY <2>1 DEF AddRoute
  <2>2. CASE DeleteRoute
    BY <2>2 DEF DeleteRoute
  <2>3. CASE ReplaceRoute
    BY <2>3 DEF ReplaceRoute
  <2>4. CASE AddPolicy
    BY <2>4 DEF AddPolicy
  <2>5. CASE DeletePolicy
    BY <2>5 DEF DeletePolicy
  <2>6. CASE ReplacePolicy
    BY <2>6 DEF ReplacePolicy
  <2> QED
    BY <2>1, <2>2, <2>3, <2>4, <2>5, <2>6 DEF AtKernel
<1> QED
  BY <1>4, <1>6, <1>7

LEMMA KernelInv ==
    ASSUME Inv, AtKernel
    PROVE  Inv'
<1> DEFINE e == op.on
<1>1. /\ TypeOK /\ OnePerKey /\ TornIsEmpty /\ OthersAgree /\ TouchedFirmly
      /\ pc = "kernel" /\ e \in Entries /\ ~OnTable /\ ~HalfDone
  BY KernelStep DEF Inv, HalfDone
<1>2. TypeOK' /\ OnePerKey'
  BY <1>1, KernelTypes, KernelElsewhere
<1>3. TornIsEmpty'
  BY <1>1, KernelStep DEF TornIsEmpty
<1>4. HalfDone' <=> pc' = "file"
  BY <1>1, KernelStep DEF HalfDone, OnTable
<1>5. OthersAgree'
  <2> SUFFICES ASSUME NEW k \in Keys \ Settled' PROVE Agree(k)'
    BY DEF OthersAgree
  <2>1. k \notin doubtful /\ k \notin apart
    BY KernelStep, <1>1 DEF Settled
  <2>2. Agree(k)
    BY <1>1, <2>1 DEF OthersAgree, Settled
  <2>3. InKernelAt(k)' = InKernelAt(k)
    <3>1. CASE k # Key(e)
      BY <1>1, <3>1, KernelElsewhere
    <3>2. CASE k = Key(e)
      <4>1. pc' = "idle" /\ k \notin doubtful'
        BY <1>1, <1>4, <3>2, KernelStep DEF Settled
      <4> QED
        BY <1>1, <3>2, <4>1, KernelElsewhere DEF InKernelAt
    <3> QED
      BY <3>1, <3>2
  <2>4. file' = file
    BY <1>1, KernelStep
  <2> QED
    BY <2>2, <2>3, <2>4 DEF Agree, InKernelAt
<1>6. SameDestination'
  <2> SUFFICES ASSUME pc' = "file", e.kind = "route",
                      NEW f \in file, f.kind = "route", f.to = e.to, f # e
               PROVE  Key(f) \in apart' \cup {Key(e)}
    BY <1>1, <1>4, KernelStep DEF SameDestination
  <2>1. apart' = apart \cup Strays(op.verb, e)
    BY <1>1, KernelElsewhere
  <2>2. f \in Others(e)
    BY DEF Others
  <2>3. Key(f) # Key(e) => Key(f) \in Strays(op.verb, e)
    BY <2>2 DEF Strays, Replaced
  <2> QED
    BY <2>1, <2>3
<1>7. KernelIsAhead'
  <2> SUFFICES ASSUME pc' = "file", Key(e) \notin apart'
               PROVE  /\ InKernelAt(Key(e))' = IF op.verb = "delete" THEN {} ELSE {InKernel(e)}
                      /\ \A f \in file : f.kind = e.kind /\ f.to = e.to
                           /\ (f.kind = "rule" => f.table = e.table) => Yields(f)
    BY <1>1, <1>4, KernelStep DEF KernelIsAhead, Yields
  <2>1. Key(e) \notin Strays(op.verb, e)
    BY <1>1, KernelStep
  <2>2. Others(e) \subseteq Replaced(op.verb, e)
    BY <1>1, <2>1, NoStrays
  <2>3. \A f \in file : f.kind = e.kind /\ f.to = e.to
                          /\ (f.kind = "rule" => f.table = e.table) => Yields(f)
    BY <2>2 DEF Others, Replaced, Yields
  <2> QED
    BY <1>1, <2>3, KernelAtKey
<1>8. TouchedFirmly'
  BY <1>1, <1>4, KernelStep DEF TouchedFirmly
<1> QED
  BY <1>2, <1>3, <1>5, <1>6, <1>7, <1>8 DEF Inv
-----------------------------------------------------------------------------
(* The second step, in the file.                                             *)

(* What a file step does to the entries of a file: those of other keys stay, *)
(* but for what it says is in doubt or drifts, and unless its own is one of   *)
(* them it is what the kernel has.                                           *)
FileSettles(e) ==
    /\ TornIsEmpty'
    /\ \A k \in Keys \ (doubtful' \cup apart' \cup {Key(e)}) : InFilesAt(k)' = InFilesAt(k)
    /\ Key(e) \notin doubtful' \cup apart' =>
         {f \in file' : Key(f) = Key(e)} = IF op.verb = "delete" THEN {} ELSE {e}

(* The entries of a key that does not drift give way to this one.            *)
LEMMA Yielding ==
    ASSUME Inv, HalfDone, NEW e \in Entries, e = op.on, Key(e) \notin apart
    PROVE  \A f \in InFilesAt(Key(e)) : f \in Entries /\ f.kind = e.kind /\ f.to = e.to /\ Yields(f)
<1> SUFFICES ASSUME NEW f \in file, Key(f) = Key(e)
             PROVE  f \in Entries /\ f.kind = e.kind /\ f.to = e.to /\ Yields(f)
  BY DEF InFilesAt
<1>1. f \in Entries
  BY DEF Inv, TypeOK
<1>2. f.kind = e.kind /\ f.to = e.to
  BY SameKey
<1>3. f.kind = "rule" => f.table = e.table
  BY <1>1, RuleKeys
<1> QED
  BY <1>1, <1>2, <1>3 DEF Inv, KernelIsAhead

(* A write that is cut off disturbs no key but those it says.                *)
LEMMA CutOffElsewhere ==
    ASSUME TornIsEmpty, NEW e, NEW content, CutOff(e, content),
           \A f \in content : FileOf(f) = FileOf(e)
    PROVE  /\ TornIsEmpty'
           /\ \A k : k \notin AtStake(e, content) => InFilesAt(k)' = InFilesAt(k)
<1>1. Listed(e) = {f \in file : FileOf(f) = FileOf(e)}
  BY DEF Listed, TornIsEmpty
<1>2. Elsewhere(e) \subseteq file' /\ file' \subseteq Elsewhere(e) \cup content
  BY DEF CutOff
<1>3. TornIsEmpty'
  BY DEF CutOff, Elsewhere, TornIsEmpty
<1>4. ASSUME NEW k, k \notin AtStake(e, content) PROVE InFilesAt(k)' = InFilesAt(k)
  <2>1. \A f \in Listed(e) \cup content : Key(f) # k
    BY <1>4 DEF AtStake
  <2> QED
    BY <1>1, <1>2, <2>1 DEF InFilesAt, Elsewhere
<1> QED
  BY <1>3, <1>4

(* A write that takes out or puts in no entry but those of this key and of   *)
(* keys that drift.                                                          *)
LEMMA WriteSettles ==
    ASSUME Inv, NEW e \in Entries, NEW content \in SUBSET Entries, Write(e, content),
           \A f \in content : FileOf(f) = FileOf(e),
           \A f \in content : f \notin Listed(e) => Key(f) \in apart \cup {Key(e)},
           \A f \in Listed(e) : f \notin content => Key(f) \in apart \cup {Key(e)},
           Key(e) \notin apart =>
             \A f \in (file \ Listed(e)) \cup content :
                Key(f) = Key(e) => op.verb # "delete" /\ f = e,
           op.verb # "delete" => e \in content
    PROVE  FileSettles(e)
<1> DEFINE others == {f \in file : FileOf(f) # FileOf(e)}
<1>1. TypeOK /\ TornIsEmpty
  BY DEF Inv
<1>2. Listed(e) = {f \in file : FileOf(f) = FileOf(e)} /\ others = file \ Listed(e)
  BY <1>1 DEF Listed, TornIsEmpty
<1>3. CASE /\ file' = others \cup content /\ torn' = torn \ {FileOf(e)}
           /\ Persisted(e) /\ UNCHANGED faults
  <2>1. TornIsEmpty'
    BY <1>1, <1>3 DEF TornIsEmpty
  <2>2. apart' = apart /\ doubtful' = doubtful \ {Key(e)}
    BY <1>3 DEF Persisted
  <2>3. \A k \in Keys \ (doubtful' \cup apart' \cup {Key(e)}) : InFilesAt(k)' = InFilesAt(k)
    BY <1>2, <1>3, <2>2 DEF InFilesAt
  <2>4. Key(e) \notin apart =>
          {f \in file' : Key(f) = Key(e)} = IF op.verb = "delete" THEN {} ELSE {e}
    BY <1>2, <1>3 DEF InFilesAt
  <2> QED
    BY <2>1, <2>2, <2>3, <2>4 DEF FileSettles
<1>4. CASE Fault /\ Warn({Key(e)}) /\ UNCHANGED <<file, torn>>
  BY <1>1, <1>4 DEF Warn, FileSettles, TornIsEmpty, InFilesAt
<1>5. CASE Fault /\ Warn(AtStake(e, content)) /\ CutOff(e, content)
  <2>1. AtStake(e, content) \subseteq doubtful' /\ Key(e) \in doubtful'
    BY <1>5 DEF Warn, AtStake
  <2> QED
    BY <1>1, <1>5, <2>1, CutOffElsewhere DEF FileSettles
<1> QED
  BY <1>3, <1>4, <1>5 DEF Write, Elsewhere

LEMMA CannotPersistSettles ==
    ASSUME Inv, NEW e \in Entries, CannotPersist(e)
    PROVE  FileSettles(e)
  BY DEF Inv, CannotPersist, Warn, FileSettles, TornIsEmpty, InFilesAt

LEMMA LeaveFileSettles ==
    ASSUME Inv, NEW e \in Entries, LeaveFile(e),
           Key(e) \notin apart =>
             InFilesAt(Key(e)) = IF op.verb = "delete" THEN {} ELSE {e}
    PROVE  FileSettles(e)
  BY DEF Inv, LeaveFile, Persisted, FileSettles, TornIsEmpty, InFilesAt

LEMMA AddSettles ==
    ASSUME Inv, HalfDone, NEW e \in Entries, e = op.on, op.verb = "add", AddEntry(e)
    PROVE  FileSettles(e)
<1>1. TypeOK /\ Listed(e) \subseteq file /\ \A f \in Listed(e) : FileOf(f) = FileOf(e)
  BY DEF Inv, Listed
<1>2. Key(e) \notin apart => \A f \in InFilesAt(Key(e)) : f = e
  BY Yielding DEF Yields
<1>3. CASE CannotPersist(e)
  BY <1>3, CannotPersistSettles
<1>4. CASE LeaveFile(e) /\ Upsert(Listed(e), e) = Listed(e)
  <2>1. PICK f \in Listed(e) : f = e \/ SameEntry(f, e)
    BY <1>4 DEF Upsert
  <2>2. f \in file /\ f.kind = e.kind /\ f.to = e.to
    BY <1>1, <2>1, SameFile DEF SameEntry
  <2>3. f.kind = "rule" => f.table = e.table
    BY <2>1, <2>2 DEF SameEntry
  <2>4. Key(e) \notin apart => f = e
    BY <2>2, <2>3 DEF Inv, KernelIsAhead, Yields
  <2>5. Key(e) \notin apart => InFilesAt(Key(e)) = {e}
    BY <1>2, <2>2, <2>4 DEF InFilesAt
  <2> QED
    BY <1>4, <2>5, LeaveFileSettles
<1>5. CASE Write(e, Upsert(Listed(e), e)) /\ Upsert(Listed(e), e) # Listed(e)
  <2> DEFINE content == Listed(e) \cup {e}
  <2>1. Upsert(Listed(e), e) = content
    BY <1>5 DEF Upsert
  <2>2. content \in SUBSET Entries /\ \A f \in content : FileOf(f) = FileOf(e)
    BY <1>1 DEF TypeOK
  <2>3. Key(e) \notin apart => \A f \in (file \ Listed(e)) \cup content : Key(f) = Key(e) => f = e
    BY <1>1, <1>2 DEF InFilesAt
  <2> QED
    BY <1>5, <2>1, <2>2, <2>3, WriteSettles
<1> QED
  BY <1>3, <1>4, <1>5 DEF AddEntry

LEMMA RemoveSettles ==
    ASSUME Inv, HalfDone, NEW e \in Entries, e = op.on, op.verb = "delete", RemoveEntry(e)
    PROVE  FileSettles(e)
<1>1. TypeOK /\ Listed(e) \subseteq file /\ \A f \in Listed(e) : FileOf(f) = FileOf(e)
  BY DEF Inv, Listed
<1>2. Key(e) \notin apart => \A f \in InFilesAt(Key(e)) : f = e
  BY Yielding DEF Yields
<1>3. CASE CannotPersist(e)
  BY <1>3, CannotPersistSettles
<1>4. CASE LeaveFile(e) /\ FileOf(e) \notin torn /\ Listed(e) = {}
  <2>1. e \notin file
    BY <1>4 DEF Listed
  <2>2. Key(e) \notin apart => InFilesAt(Key(e)) = {}
    BY <1>2, <2>1 DEF InFilesAt
  <2> QED
    BY <1>4, <2>2, LeaveFileSettles
<1>5. CASE Write(e, WithoutEntry(Listed(e), e)) /\ FileOf(e) \notin torn
  <2> DEFINE content == WithoutEntry(Listed(e), e)
  <2>1. content \in SUBSET Entries /\ content \subseteq Listed(e)
    BY <1>1 DEF TypeOK, WithoutEntry
  <2>2. \A f \in Listed(e) : f \notin content => Key(f) \in apart \cup {Key(e)}
    <3> SUFFICES ASSUME NEW f \in Listed(e), SameEntry(f, e)
                 PROVE  Key(f) \in apart \cup {Key(e)}
      BY DEF WithoutEntry
    <3>1. f.kind = e.kind /\ f.to = e.to
      BY <1>1, SameFile DEF SameEntry
    <3>2. CASE e.kind = "route"
      BY <1>1, <3>1, <3>2 DEF Inv, SameDestination
    <3>3. CASE e.kind # "route"
      BY <3>1, <3>3, SameKey DEF SameEntry, TableOf
    <3> QED
      BY <3>2, <3>3
  <2>3. e \in file => e \in Listed(e)
    BY <1>5 DEF Listed
  <2>4. e \notin content
    BY DEF WithoutEntry, SameEntry
  <2>5. Key(e) \notin apart => \A f \in (file \ Listed(e)) \cup content : Key(f) # Key(e)
    BY <1>1, <1>2, <2>1, <2>3, <2>4 DEF InFilesAt
  <2> QED
    BY <1>1, <1>5, <2>1, <2>2, <2>5, WriteSettles
<1> QED
  BY <1>3, <1>4, <1>5 DEF RemoveEntry

LEMMA ReplaceRouteSettles ==
    ASSUME Inv, HalfDone, NEW e \in Entries, e = op.on, e.kind = "route", op.verb = "replace",
           ReplaceRouteInFile
    PROVE  FileSettles(e)
<1>1. TypeOK /\ Listed(e) \subseteq file /\ \A f \in Listed(e) : FileOf(f) = FileOf(e)
  BY DEF Inv, Listed
<1>2. CASE CannotPersist(e)
  BY <1>2, CannotPersistSettles
<1>3. CASE Write(e, Upsert(Cleared(Listed(e), e), e)) /\ FileOf(e) \notin torn
  <2> DEFINE content == Cleared(Listed(e), e) \cup {e}
  <2>1. Upsert(Cleared(Listed(e), e), e) = content
    BY DEF Upsert, Cleared, SameEntry
  <2>2. content \in SUBSET Entries /\ \A f \in content : FileOf(f) = FileOf(e)
    BY <1>1 DEF TypeOK, Cleared
  <2>3. \A f \in Listed(e) : f \notin content => Key(f) \in apart \cup {Key(e)}
    <3> SUFFICES ASSUME NEW f \in Listed(e), f.to = e.to
                 PROVE  Key(f) \in apart \cup {Key(e)}
      BY DEF Cleared
    <3>1. f.kind = "route"
      BY <1>1, SameFile
    <3> QED
      BY <1>1, <3>1 DEF Inv, SameDestination
  <2>4. \A f \in content : f \notin Listed(e) => f = e
    BY DEF Cleared
  <2>5. Key(e) \notin apart => \A f \in (file \ Listed(e)) \cup content : Key(f) = Key(e) => f = e
    <3> SUFFICES ASSUME Key(e) \notin apart,
                        NEW f \in (file \ Listed(e)) \cup content, Key(f) = Key(e), f # e
                 PROVE  FALSE
      OBVIOUS
    <3>1. f.to = e.to /\ f.kind = e.kind
      BY SameKey
    <3>2. f \in file \ Listed(e)
      BY <3>1 DEF Cleared
    <3>3. f.iface = e.iface
      BY <3>2, Yielding DEF InFilesAt, Yields
    <3> QED
      BY <1>3, <3>1, <3>2, <3>3, SameFile DEF Listed
  <2> QED
    BY <1>3, <2>1, <2>2, <2>3, <2>4, <2>5, WriteSettles
<1> QED
  BY <1>2, <1>3 DEF ReplaceRouteInFile

LEMMA ReplacePolicySettles ==
    ASSUME Inv, HalfDone, NEW e \in Entries, e = op.on, e.kind = "rule", op.verb = "replace",
           ReplacePolicyInFile
    PROVE  FileSettles(e)
<1> DEFINE other   == WithoutEntry(Listed(e), e)
           content == other \cup {e}
<1>1. /\ TypeOK /\ TornIsEmpty /\ Listed(e) \subseteq file
      /\ \A f \in Listed(e) : FileOf(f) = FileOf(e)
  BY DEF Inv, Listed
<1>2. content \in SUBSET Entries /\ other \subseteq Listed(e)
  BY <1>1 DEF TypeOK, WithoutEntry
<1>3. \A f \in Listed(e) : f \notin other => Key(f) = Key(e)
  <2> SUFFICES ASSUME NEW f \in Listed(e), SameEntry(f, e)
               PROVE  Key(f) = Key(e)
    BY DEF WithoutEntry
  <2>1. f.kind = e.kind
    BY <1>1, SameFile
  <2> QED
    BY <2>1, SameKey DEF SameEntry, TableOf
<1>4. Key(e) \notin apart => \A f \in file \cup {e} : Key(f) = Key(e) => f = e
  BY Yielding DEF InFilesAt, Yields
<1>5. CASE CannotPersist(e)
  BY <1>5, CannotPersistSettles
<1>6. CASE Write(e, content)
  BY <1>1, <1>2, <1>3, <1>4, <1>6, WriteSettles
<1>7. CASE /\ other # {}
           /\ \E part \in SUBSET other : file' = (file \ Listed(e)) \cup part \cup {e}
           /\ doubtful' = doubtful \ {Key(e)}
           /\ apart' = apart \cup {Key(f) : f \in other} /\ torn' = torn
  <2>1. FileOf(e) \notin torn
    BY <1>2, <1>7 DEF Listed
  <2>2. TornIsEmpty'
    BY <1>1, <1>2, <1>7, <2>1 DEF TornIsEmpty
  <2>3. \A k \in Keys \ (doubtful' \cup apart' \cup {Key(e)}) : InFilesAt(k)' = InFilesAt(k)
    BY <1>1, <1>2, <1>3, <1>7 DEF InFilesAt
  <2>4. Key(e) \notin apart => {f \in file' : Key(f) = Key(e)} = {e}
    BY <1>1, <1>2, <1>4, <1>7 DEF InFilesAt
  <2> QED
    BY <1>7, <2>2, <2>3, <2>4 DEF FileSettles
<1> QED
  BY <1>5, <1>6, <1>7 DEF ReplacePolicyInFile

LEMMA FileInv ==
    ASSUME Inv, AtFile
    PROVE  Inv'
<1> DEFINE e == op.on
<1>1. /\ TypeOK /\ OnePerKey /\ OthersAgree /\ KernelIsAhead /\ TouchedFirmly
      /\ pc = "file" /\ e \in Entries /\ ~OnTable /\ HalfDone
  BY FileStep DEF Inv, HalfDone
<1>2. Outcome(e)
  BY <1>1, FileStep, FileOutcome
<1>3. FileSettles(e)
  BY <1>1, FileStep, AddSettles, RemoveSettles, ReplaceRouteSettles, ReplacePolicySettles DEF Verbs
<1>4. ~HalfDone' /\ kernel' = kernel /\ OnePerKey'
  BY <1>1, <1>2 DEF Outcome, HalfDone, OnePerKey
<1>5. OthersAgree'
  <2> SUFFICES ASSUME NEW k \in Keys \ (doubtful' \cup apart') PROVE Agree(k)'
    BY <1>4 DEF OthersAgree, Settled
  <2>1. k \notin apart /\ (k # Key(e) => k \notin doubtful)
    BY <1>2 DEF Outcome
  <2>2. CASE k # Key(e)
    <3>1. Agree(k)
      BY <1>1, <2>1, <2>2 DEF OthersAgree, Settled
    <3>2. InFilesAt(k)' = InFilesAt(k)
      BY <1>3, <2>2 DEF FileSettles
    <3> QED
      BY <1>4, <3>1, <3>2 DEF Agree, InFilesAt
  <2>3. CASE k = Key(e)
    <3>1. {f \in file' : Key(f) = k} = IF op.verb = "delete" THEN {} ELSE {e}
      BY <1>3, <2>3 DEF FileSettles
    <3>2. InKernelAt(k) = IF op.verb = "delete" THEN {} ELSE {InKernel(e)}
      BY <1>1, <2>1, <2>3 DEF KernelIsAhead
    <3> QED
      BY <1>4, <3>1, <3>2 DEF Agree, InFilesAt, InKernelAt
  <2> QED
    BY <2>2, <2>3
<1>6. SameDestination' /\ KernelIsAhead'
  BY <1>4 DEF SameDestination, KernelIsAhead
<1>7. TouchedFirmly'
  <2>1. CASE warned' = TRUE
    BY <1>1, <1>2, <2>1 DEF TouchedFirmly, Outcome
  <2>2. CASE warned' = warned /\ doubtful' = doubtful \ {Key(e)}
    BY <1>1, <1>2, <1>4, <2>2 DEF TouchedFirmly, Outcome
  <2> QED
    BY <1>2, <2>1, <2>2 DEF Outcome
<1> QED
  BY <1>1, <1>3, <1>4, <1>5, <1>6, <1>7, FileTypes DEF Inv, FileSettles
-----------------------------------------------------------------------------
(* Tables, and the rest. *)

LEMMA TableInv ==
    ASSUME Inv, AtTable
    PROVE  Inv'
<1>1. /\ TypeOK /\ OnePerKey /\ TornIsEmpty /\ OthersAgree /\ TouchedFirmly
      /\ pc \in {"kernel", "file"} /\ OnTable /\ TableOutcome
  BY TableStep DEF Inv
<1>2. ~HalfDone /\ ~HalfDone'
  BY <1>1 DEF HalfDone, OnTable, TableOutcome
<1>3. OnePerKey' /\ TornIsEmpty'
  BY <1>1 DEF OnePerKey, TornIsEmpty, TableOutcome
<1>4. OthersAgree'
  <2> SUFFICES ASSUME NEW k \in Keys \ (doubtful' \cup apart') PROVE Agree(k)'
    BY <1>2 DEF OthersAgree, Settled
  <2>1. Agree(k)
    BY <1>1, <1>2 DEF OthersAgree, Settled, TableOutcome
  <2>2. InKernelAt(k)' = InKernelAt(k) /\ file' = file
    BY <1>1 DEF InKernelAt, TableOutcome
  <2> QED
    BY <2>1, <2>2 DEF Agree, InKernelAt
<1>5. SameDestination' /\ KernelIsAhead'
  BY <1>2 DEF SameDestination, KernelIsAhead
<1>6. TouchedFirmly'
  BY <1>1, <1>2 DEF TouchedFirmly, TableOutcome
<1> QED
  BY <1>3, <1>4, <1>5, <1>6, TableTypes DEF Inv

(* After a reboot the kernel has what the files have, one entry to a key.    *)
LEMMA RebootAgrees ==
    ASSUME Inv, Reboot, torn = {}, NEW k, Agree(k)
    PROVE  Agree(k)'
<1> DEFINE all == {InKernel(f) : f \in file}
<1>1. /\ kernel' \subseteq all /\ {Key(n) : n \in kernel'} = {Key(n) : n \in all}
      /\ file' = file
  BY DEF Reboot, Restorable
<1>2. {n \in all : Key(n) = k} = InKernelAt(k)
  BY EntryFields DEF Inv, TypeOK, Agree, InKernelAt
<1>3. \A m, n \in all : Key(m) = k /\ Key(n) = k => m = n
  BY <1>2 DEF Inv, OnePerKey, InKernelAt
<1>4. InKernelAt(k)' = {n \in all : Key(n) = k}
  BY <1>1, <1>3 DEF InKernelAt
<1> QED
  BY <1>1, <1>2, <1>4 DEF Agree, InKernelAt

LEMMA HostInv ==
    ASSUME Inv, AtHost
    PROVE  Inv'
<1>1. /\ TypeOK /\ OnePerKey /\ TornIsEmpty /\ OthersAgree /\ TouchedFirmly
  BY DEF Inv
<1>2. ~HalfDone' /\ apart' = apart /\ (~Crash => file' = file /\ torn' = torn)
  BY <1>1 DEF AtHost, Request, Begin, Fail, BulkTables, Finish, Crash, Reboot, HalfDone, hostVars,
     drift
<1>3. SameDestination' /\ KernelIsAhead'
  BY <1>2 DEF SameDestination, KernelIsAhead
<1>4. CASE Reboot
  <2>0. TornIsEmpty' /\ file' = file /\ torn' = torn
    BY <1>1, <1>4 DEF Reboot, TornIsEmpty
  <2>1. OnePerKey'
    BY <1>4 DEF Reboot, Restorable, OnePerKey
  <2>2. OthersAgree'
    <3> SUFFICES ASSUME NEW k \in Keys \ (doubtful' \cup apart') PROVE Agree(k)'
      BY <1>2 DEF OthersAgree, Settled
    <3>1. torn = {} /\ doubtful' = doubtful /\ ~HalfDone
      BY <1>4 DEF Reboot, HalfDone
    <3>2. Agree(k)
      BY <1>1, <1>2, <3>1 DEF OthersAgree, Settled
    <3> QED
      BY <1>4, <3>1, <3>2, RebootAgrees
  <2>3. TouchedFirmly'
    BY <1>4 DEF Reboot, TouchedFirmly
  <2> QED
    BY <1>1, <1>3, <2>0, <2>1, <2>2, <2>3, HostTypes DEF Inv
<1>5. CASE Crash
  <2>1. OnePerKey' /\ TouchedFirmly'
    BY <1>1, <1>5 DEF Crash, OnePerKey, TouchedFirmly
  <2>2. TornIsEmpty' /\ \A k \in Keys \ Settled' : k \notin Settled /\ InFilesAt(k)' = InFilesAt(k)
    <3>1. CASE /\ UNCHANGED <<file, torn>>
               /\ doubtful' = IF HalfDone THEN doubtful \cup {Key(op.on)} ELSE doubtful
      BY <1>1, <1>2, <3>1 DEF TornIsEmpty, InFilesAt, Settled
    <3>2. CASE /\ HalfDone /\ op.on \in Entries
               /\ \E content \in SUBSET Entries :
                    /\ \A f \in content : FileOf(f) = FileOf(op.on)
                    /\ CutOff(op.on, content)
                    /\ doubtful' = doubtful \cup AtStake(op.on, content)
      <4>1. PICK content \in SUBSET Entries :
                    /\ \A f \in content : FileOf(f) = FileOf(op.on)
                    /\ CutOff(op.on, content)
                    /\ doubtful' = doubtful \cup AtStake(op.on, content)
        BY <3>2
      <4>2. Settled' = doubtful \cup apart \cup AtStake(op.on, content)
        BY <1>2, <4>1 DEF Settled
      <4>3. Key(op.on) \in AtStake(op.on, content)
        BY DEF AtStake
      <4> QED
        BY <1>1, <4>1, <4>2, <4>3, CutOffElsewhere DEF Settled
    <3> QED
      BY <1>1, <1>5, <3>1, <3>2, CrashCases
  <2>3. OthersAgree'
    BY <1>1, <1>5, <2>2 DEF OthersAgree, Agree, InFilesAt, Crash
  <2> QED
    BY <1>1, <1>3, <2>1, <2>2, <2>3, HostTypes DEF Inv
<1>6. ASSUME ~Reboot, ~Crash
      PROVE  Inv'
  <2>0. TornIsEmpty' /\ file' = file
    BY <1>1, <1>2, <1>6 DEF TornIsEmpty
  <2>1. kernel' = kernel
    BY <1>6 DEF AtHost, Request, Begin, BulkTables, Finish, Crash, hostVars
  <2>2. OnePerKey'
    BY <1>1, <2>1 DEF OnePerKey
  <2>3. Settled \subseteq Settled'
    BY <1>2, <1>6 DEF AtHost, Request, Begin, BulkTables, Finish, Settled, HalfDone, drift
  <2>4. OthersAgree'
    BY <1>1, <2>0, <2>1, <2>3 DEF OthersAgree, Agree
  <2>5. TouchedFirmly'
    <3>1. CASE \E verb \in Verbs, x \in Entries \cup Tables : Request(verb, x)
      BY <1>1, <1>2, <3>1 DEF Request, Begin, Fail, drift, TouchedFirmly, HalfDone
    <3>2. CASE \E ds \in SUBSET Tables : BulkTables(ds)
      BY <3>2 DEF BulkTables, drift, TouchedFirmly
    <3>3. CASE Finish
      BY <1>1, <3>3 DEF Finish, drift, TouchedFirmly, HalfDone
    <3> QED
      BY <1>6, <3>1, <3>2, <3>3 DEF AtHost
  <2> QED
    BY <1>1, <1>3, <2>0, <2>2, <2>4, <2>5, HostTypes DEF Inv
<1> QED
  BY <1>5, <1>4, <1>6

LEMMA StutterInv ==
    ASSUME Inv, UNCHANGED vars
    PROVE  Inv'
<1> USE DEF Inv, vars, hostVars, drift
<1>1. OnePerKey' /\ TornIsEmpty'
  BY DEF OnePerKey, TornIsEmpty
<1>2. OthersAgree'
  BY DEF OthersAgree, Settled, HalfDone, OnTable, Agree
<1>3. SameDestination' /\ KernelIsAhead'
  BY DEF SameDestination, KernelIsAhead, HalfDone, OnTable, InKernelAt, Yields
<1>4. TouchedFirmly'
  BY DEF TouchedFirmly, HalfDone, OnTable
<1> QED
  BY <1>1, <1>2, <1>3, <1>4, StutterTypes

LEMMA InitInv == Init => Inv
<1> SUFFICES ASSUME Init PROVE Inv
  OBVIOUS
<1>1. TypeOK
  BY InitType
<1> QED
  BY <1>1 DEF Init, Inv, OnePerKey, TornIsEmpty, OthersAgree, Agree, SameDestination,
     KernelIsAhead, TouchedFirmly, HalfDone

LEMMA NextInv == Inv /\ [Next]_vars => Inv'
  BY NextCases, KernelInv, FileInv, TableInv, HostInv, StutterInv

LEMMA SpecInv == Spec => []Inv
  BY InitInv, NextInv, PTL DEF Spec

(* Between operations, what none left half-done is the same in the kernel   *)
(* and in the files, but for the keys the agent lets drift.                  *)
THEOREM RoutingKernelIsPersisted == Spec => []KernelIsPersisted
<1>1. Inv => KernelIsPersisted
  BY DEF Inv, OthersAgree, Settled, HalfDone, KernelIsPersisted
<1> QED
  BY SpecInv, <1>1, PTL

(* A batch answered with success and without a warning has its routes and   *)
(* rules in the files as they are in the kernel.                             *)
THEOREM RoutingSuccessIsPersisted == Spec => []SuccessIsPersisted
<1>1. Inv => SuccessIsPersisted
  <2> SUFFICES ASSUME Inv, answer = "ok", NEW k \in touched \ apart
               PROVE  Agree(k)
    BY DEF SuccessIsPersisted
  <2>1. k \in Keys /\ k \notin Settled
    BY DEF Inv, TypeOK, TouchedFirmly, Settled, HalfDone
  <2> QED
    BY <2>1 DEF Inv, OthersAgree
<1> QED
  BY SpecInv, <1>1, PTL
-----------------------------------------------------------------------------
(* Deleting a table: the flush comes first, and says if it was complete.     *)

Emptied ==
    /\ pc = "kernel" => ~complete
    /\ pc = "file" /\ complete =>
         OnTable /\ (op.on.id \in Managed => \A n \in kernel : n.table # op.on.id)

LEMMA InitEmptied == Init => Emptied
  BY DEF Init, Emptied

LEMMA NextEmptied ==
    ASSUME TypeOK, Emptied, [Next]_vars
    PROVE  Emptied'
<1>1. CASE AtKernel
  <2>1. pc = "kernel" /\ pc' \in {"file", "idle"} /\ complete' = complete
    BY <1>1, KernelStep
  <2> QED
    BY <2>1 DEF Emptied
<1>2. CASE AtFile
  <2>1. pc' = "next"
    BY <1>2, FileStep, FileOutcome DEF Outcome
  <2> QED
    BY <2>1 DEF Emptied
<1>3. CASE FlushTable
  <2>1. CASE Named(op.on) = {}
    BY <1>3, <2>1 DEF FlushTable, TableDone, Emptied
  <2>2. CASE Named(op.on) # {} /\ kernel' = kernel \ Flushed(op.on)
    BY <1>3, <2>2, TableStep DEF AtTable, FlushTable, Emptied, Flushed, OnTable
  <2>3. CASE Named(op.on) # {} /\ complete' = FALSE
    BY <1>3, <2>3 DEF FlushTable, Emptied
  <2> QED
    BY <1>3, <2>1, <2>2, <2>3 DEF FlushTable
<1>4. CASE AddTable \/ ReplaceTable \/ ForgetTable
  <2>1. pc' \in {"next", "idle"}
    BY <1>4 DEF AddTable, ReplaceTable, ForgetTable, WriteTables, TableDone
  <2> QED
    BY <2>1 DEF Emptied
<1>5. CASE AtHost
  <2>1. \/ pc' = "idle"
        \/ pc' = "kernel" /\ complete' = FALSE
    BY <1>5 DEF AtHost, Request, Begin, Fail, BulkTables, Finish, Crash, Reboot
  <2> QED
    BY <2>1 DEF Emptied
<1>6. CASE UNCHANGED vars
  BY <1>6 DEF vars, hostVars, Emptied, OnTable
<1> QED
  BY <1>1, <1>2, <1>3, <1>4, <1>5, <1>6, NextCases DEF AtTable

(* A table of the agent leaves its definition file, after a flush that was   *)
(* complete, only with nothing of it left in the kernel.                     *)
THEOREM RoutingForgottenIsEmpty == Spec => ForgottenIsEmpty
<1>1. ASSUME TypeOK, Emptied, [Next]_vars,
             NEW t \in defs \ defs', pc = "file", complete, t.id = op.on.id, t.id \in Managed
      PROVE  \A n \in kernel' : n.table # t.id
  <2>1. OnTable /\ \A n \in kernel : n.table # t.id
    BY <1>1 DEF Emptied
  <2>2. kernel' = kernel
    <3>1. CASE AtKernel \/ AtFile
      BY <1>1, <2>1, <3>1, KernelStep, FileStep
    <3>2. CASE AtTable
      BY <1>1, <3>2 DEF AtTable, AddTable, ReplaceTable, FlushTable, ForgetTable, Doing, WriteTables
    <3>3. CASE AtHost
      BY <1>1, <3>3 DEF AtHost, Request, Begin, BulkTables, Finish, Crash, Reboot, hostVars
    <3>4. CASE UNCHANGED vars
      BY <3>4 DEF vars, hostVars
    <3> QED
      BY <1>1, <3>1, <3>2, <3>3, <3>4, NextCases
  <2> QED
    BY <2>1, <2>2
<1>2. TypeOK /\ Emptied /\ [Next]_vars =>
        [\A t \in defs \ defs' :
           (pc = "file" /\ complete /\ t.id = op.on.id /\ t.id \in Managed)
               => \A n \in kernel' : n.table # t.id]_vars
  BY <1>1
<1>3. TypeOK /\ Emptied /\ [Next]_vars => TypeOK' /\ Emptied'
  BY NextType, NextEmptied
<1>4. Init => TypeOK /\ Emptied
  BY InitType, InitEmptied
<1> QED
  BY <1>2, <1>3, <1>4, PTL DEF Spec, ForgottenIsEmpty

-----------------------------------------------------------------------------
(***************************************************************************)
(* Netplan, for every set of configurations and every bound.               *)
(***************************************************************************)
\* What netplan itself does.
NetplanStep(p) == Generate(p) \/ TakeEffect(p) \/ TryReverts(p) \/ ApplyFails(p)

(* What the properties need of the types. *)
TypeInv ==
    /\ proc \in [Procs -> [state : {"none", "started", "generated", "trying", "ok", "failed"},
                           config : Configs]]
    /\ commands \in 0..MaxCommands /\ passed \in Nat
    /\ yaml \in Configs /\ applied \in Configs /\ backup \in Configs
    /\ asked \in Contents

LEMMA TypeInvInductive ==
    /\ NetplanInit => TypeInv
    /\ TypeInv /\ [NetplanNext]_netplanVars => TypeInv'
<1> USE NetplanAssumption DEF Configs
<1>1. NetplanInit => TypeInv
  BY DEF NetplanInit, TypeInv, Idle
<1> SUFFICES ASSUME TypeInv, [NetplanNext]_netplanVars PROVE TypeInv'
  BY <1>1
<1> USE DEF TypeInv, effectVars
<1>2. ASSUME NEW c \in Contents, NEW m \in Modes, Apply(c, m) PROVE TypeInv'
  BY <1>2 DEF Apply, BeginCommand, yamlVars, monitorVars
<1>3. CASE Rollback
  BY <1>3 DEF Rollback, BeginCommand, yamlVars, monitorVars
<1>4. CASE ValidateConfig \/ ApplyDirectEnds \/ NothingToRestore \/ RollbackEnds
  BY <1>4 DEF ValidateConfig, ApplyDirectEnds, NothingToRestore, RollbackEnds,
              yamlVars,
              handlerVars, monitorVars
<1>5. CASE CreateBackup
  BY <1>5 DEF CreateBackup, Saved, handlerVars, monitorVars
<1>6. CASE WriteConfig
  BY <1>6 DEF WriteConfig, handlerVars, monitorVars
<1>7. CASE NetplanTry
  BY <1>7 DEF NetplanTry, yamlVars, handlerVars, monitorVars
<1>8. CASE StartApply
  <2>1. /\ proc' = [proc EXCEPT ![MyApply] = [state |-> "started", config |-> Absent]]
        /\ UNCHANGED <<commands, yaml, applied, backup, asked>>
        /\ passed' \in Nat
    BY <1>8 DEF StartApply, Start, monitorVars, yamlVars, handlerVars
  <2> QED BY <2>1
<1>9. CASE ApplyEnds
  BY <1>9 DEF ApplyEnds, RollBack, StopListening, yamlVars, handlerVars, monitorVars
<1>10. CASE MonitorEnds
  BY <1>10 DEF MonitorEnds, RollBack, StopListening, yamlVars, handlerVars, monitorVars
<1>11. CASE Restore
  <2>1. /\ \/ proc' = [proc EXCEPT ![MyRollback] = [state |-> "started", config |-> Absent]]
           \/ proc' = proc
        /\ UNCHANGED <<commands, applied, backup, asked, passed>>
    BY <1>11 DEF Restore, Start, handlerVars, monitorVars
  <2>2. yaml' \in {yaml, backup, Broken}
    BY <1>11 DEF Restore
  <2> QED BY <2>1, <2>2
<1>12. CASE Check
  <2>1. passed' \in Nat
    BY <1>12 DEF Check, CheckFails
  <2> QED BY <1>12, <2>1 DEF Check, yamlVars, handlerVars
<1>13. CASE MonitorExpires
  BY <1>13 DEF MonitorExpires, yamlVars, handlerVars
<1>14. ASSUME NEW p \in Procs, NetplanStep(p) PROVE TypeInv'
  BY <1>14 DEF NetplanStep, Generate, TakeEffect, TryReverts, ApplyFails, Ends, Brings, yamlVars,
               handlerVars, monitorVars
<1>15. ASSUME NEW c \in Configs, Edit(c) PROVE TypeInv'
  BY <1>15 DEF Edit, handlerVars, monitorVars
<1>16. CASE AgentDies
  BY <1>16 DEF AgentDies, StopListening, handlerVars
<1>17. CASE UNCHANGED netplanVars
  BY <1>17 DEF netplanVars, yamlVars, handlerVars, monitorVars
<1> QED
  BY <1>2, <1>3, <1>4, <1>5, <1>6, <1>7, <1>8, <1>9, <1>10, <1>11, <1>12, <1>13, <1>14, <1>15,
     <1>16, <1>17 DEF NetplanNext, HandlerStep, NetplanStep
-----------------------------------------------------------------------------
(* What the file and its backup hold while a command is at work. *)
BackupInv ==
    /\ step \in {"validate", "backup"} => yaml = found
    /\ step \in {"write", "try", "start", "await", "select", "monitor", "restore", "reapply"} =>
         \/ mode = "rollback"
         \/ found = Absent
         \/ backup = found
    /\ step = "reapply" => yaml = backup
    /\ step # "idle" => ~undone
    /\ RolledBackIsRestored

\* Whatever earlier commands, failures, crashes and edits have left, a command
\* that rolls back puts back the file that it found (netplan.go:313-357).
THEOREM RollbackRestores == NetplanSpec => []RolledBackIsRestored
<1> USE DEF BackupInv, RolledBackIsRestored
<1>1. NetplanInit => BackupInv
  BY DEF NetplanInit
<1>2. BackupInv /\ [NetplanNext]_netplanVars => BackupInv'
  <2> SUFFICES ASSUME BackupInv, [NetplanNext]_netplanVars PROVE BackupInv'
    OBVIOUS
  <2>1. ASSUME NEW c \in Contents, NEW m \in Modes, Apply(c, m) PROVE BackupInv'
    BY <2>1 DEF Apply, BeginCommand, yamlVars
  <2>2. CASE Rollback
    BY <2>2 DEF Rollback, BeginCommand, yamlVars
  <2>3. CASE ValidateConfig \/ ApplyDirectEnds \/ NothingToRestore \/ RollbackEnds
    BY <2>3 DEF ValidateConfig, ApplyDirectEnds, NothingToRestore, RollbackEnds, Answer, Return,
                yamlVars, handlerVars
  <2>4. CASE CreateBackup
    BY <2>4 DEF CreateBackup, Saved, Answer, handlerVars
  <2>5. CASE WriteConfig
    BY <2>5 DEF WriteConfig, Answer, handlerVars
  <2>6. CASE NetplanTry
    BY <2>6 DEF NetplanTry, yamlVars, handlerVars, answerVars
  <2>7. CASE StartApply
    BY <2>7 DEF StartApply, yamlVars, handlerVars, answerVars
  <2>8. CASE ApplyEnds \/ MonitorEnds
    BY <2>8 DEF ApplyEnds, MonitorEnds, RollBack, Answer, yamlVars, handlerVars
  <2>9. CASE Restore
    BY <2>9 DEF Restore, Return, handlerVars, answerVars
  <2>10. CASE Check \/ MonitorExpires
    BY <2>10 DEF Check, MonitorExpires, yamlVars, handlerVars, answerVars
  <2>11. ASSUME NEW p \in Procs, NetplanStep(p) PROVE BackupInv'
    BY <2>11 DEF NetplanStep, Generate, TakeEffect, TryReverts, ApplyFails, yamlVars, handlerVars,
                 answerVars
  <2>12. ASSUME NEW c \in Configs, Edit(c) PROVE BackupInv'
    BY <2>12 DEF Edit, handlerVars
  <2>13. CASE AgentDies
    BY <2>13 DEF AgentDies, handlerVars
  <2>14. CASE UNCHANGED netplanVars
    BY <2>14 DEF netplanVars, yamlVars, handlerVars, answerVars
  <2> QED
    BY <2>1, <2>2, <2>3, <2>4, <2>5, <2>6, <2>7, <2>8, <2>9, <2>10, <2>11, <2>12, <2>13, <2>14
       DEF NetplanNext, HandlerStep, NetplanStep
<1> QED BY <1>1, <1>2, PTL DEF NetplanSpec
-----------------------------------------------------------------------------
(* While passes are counted, the last check of the configuration in effect *)
(* has passed, if there was one and it was the controller that answered.   *)
CheckInv ==
    /\ monitor = "checking" /\ watches = "controller" /\ checked /\ passed > 0 => Reachable
    /\ monitor = "ok" /\ watches = "controller" /\ checked => Reachable
    /\ step \in {"try", "await"} => mode # "monitored"
    /\ step \notin {"select", "monitor"} => monitor = "none"
    /\ step # "idle" => how # "ok"
    /\ CutOffOnlyUnseen

\* A configuration that the monitor saw to cut the controller off is never
\* kept with success (monitor.go:62-99).
THEOREM NoSuccessAgainstMonitor == NetplanSpec => []CutOffOnlyUnseen
<1> USE DEF CheckInv, CutOffOnlyUnseen, Reachable
<1>1. NetplanInit => CheckInv
  BY DEF NetplanInit
<1>2. TypeInv /\ CheckInv /\ [NetplanNext]_netplanVars => CheckInv'
  <2> SUFFICES ASSUME TypeInv, CheckInv, [NetplanNext]_netplanVars PROVE CheckInv'
    OBVIOUS
  <2>1. ASSUME NEW c \in Contents, NEW m \in Modes, Apply(c, m) PROVE CheckInv'
    BY <2>1 DEF Apply, BeginCommand, monitorVars, effectVars
  <2>2. CASE Rollback
    BY <2>2 DEF Rollback, BeginCommand, monitorVars, effectVars
  <2>3. CASE ValidateConfig \/ CreateBackup \/ WriteConfig \/ ApplyDirectEnds
    <3>1. UNCHANGED <<applied, checked, handlerVars, monitorVars>>
      BY <2>3 DEF ValidateConfig, CreateBackup, WriteConfig, ApplyDirectEnds, effectVars
    <3>2. /\ step \notin {"select", "monitor", "idle"}
          /\ step' \notin {"select", "monitor", "await"}
          /\ step' = "try" => mode = "try"
          /\ step' = "idle" /\ how' = "ok" => step = "await"
          /\ step' # "idle" => how' = how
      BY <2>3 DEF ValidateConfig, CreateBackup, WriteConfig, ApplyDirectEnds, Answer
    <3> QED BY <3>1, <3>2 DEF handlerVars, monitorVars
  <2>4. CASE NetplanTry
    <3>1. step' = "await" /\ mode' # "monitored" /\ monitor' = "none" /\ how' # "ok"
      BY <2>4 DEF NetplanTry, handlerVars, monitorVars, answerVars
    <3> QED BY <3>1
  <2>5. CASE StartApply
    <3>1. UNCHANGED <<applied, checked, mode, how>> /\ step = "start"
      BY <2>5 DEF StartApply, Start, handlerVars, effectVars, answerVars
    <3>2. CASE mode = "monitored"
      BY <2>5, <3>1, <3>2 DEF StartApply
    <3>3. CASE mode # "monitored"
      BY <2>5, <3>1, <3>3 DEF StartApply, monitorVars
    <3> QED BY <3>2, <3>3
  <2>6. CASE ApplyEnds
    BY <2>6 DEF ApplyEnds, RollBack, StopListening, handlerVars, monitorVars, effectVars
  <2>7. CASE MonitorEnds
    BY <2>7 DEF MonitorEnds, RollBack, StopListening, Answer, handlerVars, effectVars
  <2>8. CASE Restore \/ NothingToRestore \/ RollbackEnds
    <3>1. /\ step \in {"restore", "reapply"} /\ step' \in {"idle", "reapply"}
          /\ UNCHANGED <<mode, monitorVars, applied, checked>>
          /\ how' = "ok" => how = "ok" \/ (step' = "idle" /\ mode = "rollback")
      BY <2>8 DEF Restore, Start, NothingToRestore, RollbackEnds, Return, handlerVars, effectVars,
                  answerVars
    <3> QED BY <3>1 DEF monitorVars
  <2>9. CASE Check
    <3>1. UNCHANGED <<applied, step, mode, how, watches>> /\ monitor = "checking"
      BY <2>9 DEF Check, handlerVars, answerVars
    <3>2. CASE passed' = passed + 1 /\ (Reachable \/ watches = "other")
      BY <2>9, <3>1, <3>2 DEF Check
    <3>3. CASE CheckFails
      BY <2>9, <3>1, <3>3 DEF Check, CheckFails
    <3> QED BY <2>9, <3>2, <3>3 DEF Check
  <2>10. CASE MonitorExpires
    BY <2>10 DEF MonitorExpires, handlerVars, effectVars, answerVars
  <2>11. ASSUME NEW p \in Procs, NetplanStep(p) PROVE CheckInv'
    <3>1. /\ UNCHANGED <<step, mode, how, monitorVars>>
          /\ UNCHANGED <<applied, checked>> \/ checked' = FALSE
      BY <2>11 DEF NetplanStep, Generate, TakeEffect, TryReverts, ApplyFails, Brings, handlerVars,
                   effectVars, answerVars
    <3> QED BY <3>1 DEF monitorVars
  <2>12. ASSUME NEW c \in Configs, Edit(c) PROVE CheckInv'
    BY <2>12 DEF Edit, handlerVars, monitorVars, effectVars
  <2>13. CASE AgentDies
    BY <2>13 DEF AgentDies, StopListening, handlerVars, effectVars
  <2>14. CASE UNCHANGED netplanVars
    BY <2>14 DEF netplanVars, handlerVars, monitorVars, effectVars, answerVars
  <2> QED
    BY <2>1, <2>2, <2>3, <2>4, <2>5, <2>6, <2>7, <2>8, <2>9, <2>10, <2>11, <2>12, <2>13, <2>14
       DEF NetplanNext, HandlerStep, NetplanStep
<1> QED BY <1>1, <1>2, TypeInvInductive, PTL DEF NetplanSpec
-----------------------------------------------------------------------------
(* The apply that the handler waits for, or that it last waited for, is    *)
(* the one whose effect counts: any other that comes later overtakes it.   *)
Mine    == IF step = "reapply" THEN MyRollback ELSE MyApply
Lasting == mode \in {"direct", "monitored"}
Waiting == (step \in {"await", "select", "monitor"} /\ Lasting) \/ step = "reapply"

ProcsInv ==
    /\ \A p \in Procs : p[1] > commands => proc[p] = Idle
    /\ step # "idle" => commands \in 1..MaxCommands /\ how # "ok" /\ ~undone
    /\ step \notin {"idle", "reapply"} => proc[MyRollback] = Idle
    /\ step \in {"start", "try", "await", "select", "monitor"} => yaml = asked
    /\ step = "try" => mode = "try"
    /\ step = "monitor" => proc[MyApply].state = "ok"

MineInv ==
    Waiting =>
      /\ proc[Mine].state \notin {"none", "trying"}
      /\ proc[Mine].state = "generated" => proc[Mine].config = yaml
      /\ proc[Mine].state = "ok" /\ ~overtaken => applied = yaml

AnsweredInv ==
    /\ step = "idle" /\ how = "ok" /\ Lasting =>
         /\ commands \in 1..MaxCommands
         /\ proc[MyApply].state = "ok" /\ proc[MyRollback] = Idle
    /\ step = "idle" /\ undone => commands \in 1..MaxCommands /\ proc[MyRollback].state = "ok"
    /\ AnsweredIsInEffect

EffectInv == ProcsInv /\ MineInv /\ AnsweredInv

LEMMA MyProcs == ASSUME commands \in 1..MaxCommands
                 PROVE MyApply \in Procs /\ MyRollback \in Procs /\ MyApply # MyRollback
BY DEF MyApply, MyRollback, Procs

\* A command begins: there is no process of it yet.
LEMMA EffectBegins ==
  ASSUME TypeInv, EffectInv, NEW m \in Modes, NEW config, BeginCommand(m, config),
         step' \in {"validate", "restore"}
  PROVE  EffectInv'
<1>1. /\ commands' = commands + 1 /\ commands' \in 1..MaxCommands
      /\ how' = "none" /\ undone' = FALSE /\ UNCHANGED proc
  BY NetplanAssumption DEF BeginCommand, TypeInv
<1>2. \A p \in Procs : p[1] > commands' => p[1] > commands
  BY <1>1, NetplanAssumption DEF Procs, TypeInv
<1>3. MyRollback' \in Procs /\ MyRollback'[1] > commands
  BY <1>1, NetplanAssumption DEF MyRollback, Procs, TypeInv
<1>4. ProcsInv'
  BY <1>1, <1>2, <1>3 DEF EffectInv, ProcsInv
<1> QED BY <1>1, <1>4 DEF EffectInv, MineInv, AnsweredInv, Waiting, AnsweredIsInEffect

\* The steps of the handler.
LEMMA EffectHandler == ASSUME TypeInv, EffectInv, HandlerStep PROVE EffectInv'
<1> USE DEF EffectInv, ProcsInv, MineInv, AnsweredInv, AnsweredIsInEffect, Waiting, Lasting
<1>0. step # "idle" /\ UNCHANGED commands /\ commands \in 1..MaxCommands
  BY DEF HandlerStep, ValidateConfig, CreateBackup, WriteConfig, NetplanTry, StartApply,
         ApplyDirectEnds, ApplyEnds, MonitorEnds, Restore, NothingToRestore, RollbackEnds
<1>m. UNCHANGED <<MyApply, MyRollback>> /\ MyApply \in Procs /\ MyRollback \in Procs
      /\ MyApply # MyRollback
  BY <1>0, MyProcs DEF MyApply, MyRollback
<1>1. CASE ValidateConfig \/ CreateBackup
  <2>1. /\ step' \in {"backup", "write", "idle"} /\ UNCHANGED <<proc, undone>>
        /\ how' \in {how, "failed"}
        /\ step \in {"validate", "backup"}
    BY <1>1 DEF ValidateConfig, CreateBackup, Answer
  <2> QED BY <1>0, <1>m, <2>1
<1>2. CASE WriteConfig
  <2>1. /\ step = "write" /\ step' \in {"try", "start", "idle"} /\ UNCHANGED <<proc, undone>>
        /\ how' \in {how, "failed"}
        /\ step' # "idle" => yaml' = asked'
        /\ step' = "try" => mode' = "try"
    BY <1>2 DEF WriteConfig, Answer, handlerVars
  <2> QED BY <1>0, <1>m, <2>1
<1>3. CASE NetplanTry
  <2>1. /\ step = "try" /\ step' = "await" /\ UNCHANGED <<yaml, asked, how, undone, mode>>
        /\ \A p \in Procs \ {MyApply} : proc'[p] = proc[p]
    BY <1>3, <1>m DEF NetplanTry, TypeInv, yamlVars, handlerVars, answerVars
  <2>2. mode = "try"
    BY <2>1
  <2>3. \A p \in Procs : p[1] > commands => p # MyApply
    BY <1>0, NetplanAssumption DEF MyApply
  <2> QED BY <1>0, <1>m, <2>1, <2>2, <2>3
<1>4. CASE StartApply
  <2>1. /\ step = "start" /\ step' \in {"await", "select"}
        /\ UNCHANGED <<yaml, asked, how, undone, mode>>
        /\ proc' = [proc EXCEPT ![MyApply] = [state |-> "started", config |-> Absent]]
    BY <1>4 DEF StartApply, Start, yamlVars, handlerVars, answerVars
  <2>2. /\ proc'[MyApply].state = "started"
        /\ \A p \in Procs \ {MyApply} : proc'[p] = proc[p]
    BY <2>1, <1>m DEF TypeInv
  <2>3. \A p \in Procs : p[1] > commands => p # MyApply
    BY <1>0, NetplanAssumption DEF MyApply
  <2>4. Mine' = MyApply
    BY <2>1, <1>m DEF Mine
  <2> QED BY <1>0, <1>m, <2>1, <2>2, <2>3, <2>4
<1>5. CASE ApplyDirectEnds
  <2>1. /\ step = "await" /\ step' = "idle"
        /\ UNCHANGED <<yaml, asked, applied, overtaken, proc, mode, undone>>
        /\ how' \in {"ok", "failed"} /\ (how' = "ok" => proc[MyApply].state = "ok")
    BY <1>5 DEF ApplyDirectEnds, Answer, yamlVars, handlerVars, effectVars
  <2>2. Mine = MyApply
    BY <2>1 DEF Mine
  <2> QED BY <1>0, <1>m, <2>1, <2>2
<1>6. CASE ApplyEnds
  <2>1. /\ step = "select" /\ step' \in {"monitor", "restore"}
        /\ UNCHANGED <<yaml, asked, applied, overtaken, proc, mode, undone>>
        /\ how' \in {how, "failed", "rolledback"}
        /\ step' = "monitor" => proc[MyApply].state = "ok"
    BY <1>6 DEF ApplyEnds, RollBack, yamlVars, handlerVars, effectVars
  <2>2. Mine = MyApply /\ Mine' = MyApply
    BY <2>1, <1>m DEF Mine
  <2> QED BY <1>0, <1>m, <2>1, <2>2
<1>7. CASE MonitorEnds
  <2>1. /\ step = "monitor" /\ UNCHANGED <<yaml, asked, applied, overtaken, proc, mode, undone>>
        /\ \/ step' = "idle" /\ how' = "ok"
           \/ step' = "restore" /\ how' = "rolledback"
    BY <1>7 DEF MonitorEnds, RollBack, Answer, yamlVars, handlerVars, effectVars
  <2>2. Mine = MyApply
    BY <2>1 DEF Mine
  <2> QED BY <1>0, <1>m, <2>1, <2>2
<1>8. CASE Restore
  <2>1. step = "restore" /\ mode' = mode /\ UNCHANGED asked
    BY <1>8 DEF Restore, handlerVars
  <2>2. CASE step' = "reapply"
    <3>1. /\ UNCHANGED <<how, undone>>
          /\ proc' = [proc EXCEPT ![MyRollback] = [state |-> "started", config |-> Absent]]
      BY <1>8, <2>2 DEF Restore, Return, Start, answerVars
    <3>2. /\ proc'[MyRollback].state = "started"
          /\ \A p \in Procs \ {MyRollback} : proc'[p] = proc[p]
      BY <3>1, <1>m DEF TypeInv
    <3>3. \A p \in Procs : p[1] > commands => p # MyRollback
      BY <1>0, NetplanAssumption DEF MyRollback
    <3>4. Mine' = MyRollback
      BY <2>2, <1>m DEF Mine
    <3> QED BY <1>0, <1>m, <2>1, <2>2, <3>1, <3>2, <3>3, <3>4
  <2>3. CASE step' # "reapply"
    <3>1. /\ step' = "idle" /\ undone' = FALSE /\ UNCHANGED proc
          /\ how' = "ok" => how = "ok"
      BY <1>8, <2>3 DEF Restore, Return
    <3> QED BY <1>0, <2>1, <3>1
  <2> QED BY <2>2, <2>3
<1>9. CASE NothingToRestore
  <2>1. /\ step = "restore" /\ step' = "idle" /\ undone' = FALSE /\ UNCHANGED proc
        /\ how' = "ok" => how = "ok"
    BY <1>9 DEF NothingToRestore, Return
  <2> QED BY <1>0, <2>1
<1>10. CASE RollbackEnds
  <2>1. /\ step = "reapply" /\ step' = "idle"
        /\ UNCHANGED <<yaml, asked, applied, overtaken, proc, mode>>
        /\ undone' => proc[MyRollback].state = "ok"
        /\ how' = "ok" => how = "ok" \/ mode = "rollback"
    BY <1>10 DEF RollbackEnds, Return, yamlVars, handlerVars, effectVars
  <2>2. Mine = MyRollback
    BY <2>1 DEF Mine
  <2> QED BY <1>0, <1>m, <2>1, <2>2
<1> QED
  BY <1>1, <1>2, <1>3, <1>4, <1>5, <1>6, <1>7, <1>8, <1>9, <1>10 DEF HandlerStep

\* The steps of netplan.  A process that is not the last one overtakes it.
LEMMA EffectNetplan ==
  ASSUME TypeInv, EffectInv, NEW p \in Procs, NetplanStep(p) PROVE EffectInv'
<1> USE DEF EffectInv, ProcsInv
<1>1. /\ UNCHANGED <<yaml, asked, step, mode, how, undone, commands>>
      /\ UNCHANGED <<Mine, MyApply, MyRollback, Waiting, Lasting>>
      /\ \A q \in Procs \ {p} : proc'[q] = proc[q]
      /\ proc[p].state \in {"started", "generated", "trying"}
  BY DEF NetplanStep, Generate, TakeEffect, TryReverts, ApplyFails, Ends, TypeInv, Mine, MyApply,
         MyRollback, Waiting, Lasting, yamlVars, handlerVars, answerVars
<1>2. /\ proc'[p].state \in {"generated", "ok", "failed"}
      /\ proc'[p].state = "generated" => proc[p].state = "started" /\ proc'[p].config = yaml
      /\ proc'[p].state = "ok" => proc[p].state \in {"generated", "trying"} /\ Brings(p)
      /\ UNCHANGED <<applied, overtaken>> \/ Brings(p)
  BY DEF NetplanStep, Generate, TakeEffect, TryReverts, ApplyFails, Ends, TypeInv, effectVars
<1>3. Idle.state = "none"
  BY DEF Idle
<1>4. commands \in 1..MaxCommands => MyApply \in Procs /\ MyRollback \in Procs
  BY MyProcs
<1>5. ProcsInv'
  <2>1. p[1] <= commands
    BY <1>1, <1>3, NetplanAssumption DEF TypeInv, Procs
  <2>2. \A q \in Procs : q[1] > commands => proc'[q] = Idle
    BY <1>1, <2>1, NetplanAssumption DEF TypeInv, Procs
  <2>3. step \notin {"idle", "reapply"} => p # MyRollback
    BY <1>1, <1>3
  <2>4. step = "monitor" => p # MyApply
    BY <1>1
  <2> QED BY <1>1, <1>4, <2>2, <2>3, <2>4
<1>6. MineInv'
  <2> SUFFICES ASSUME Waiting
               PROVE  /\ proc'[Mine].state \notin {"none", "trying"}
                      /\ proc'[Mine].state = "generated" => proc'[Mine].config = yaml
                      /\ proc'[Mine].state = "ok" /\ ~overtaken' => applied' = yaml
    BY <1>1 DEF MineInv
  <2>1. Mine \in Procs /\ commands \in 1..MaxCommands
    BY <1>4 DEF Waiting, Mine
  <2>2. CASE p = Mine
    BY <1>1, <1>2, <2>2 DEF MineInv, Brings
  <2>3. CASE p # Mine
    <3>1. ~Latest(p)
      BY <1>1, <1>3, <2>3 DEF Latest, Mine, MineInv, Waiting
    <3>2. Brings(p) => overtaken'
      BY <3>1, Zenon DEF Brings
    <3> QED BY <1>1, <1>2, <2>1, <2>3, <3>2 DEF MineInv
  <2> QED BY <2>2, <2>3
<1>7. AnsweredInv'
  <2>1. ASSUME step = "idle", how = "ok", Lasting
        PROVE  /\ p \notin {MyApply, MyRollback} /\ ~Latest(p)
    BY <1>1, <1>3, <2>1 DEF AnsweredInv, Latest
  <2>2. ASSUME step = "idle", undone PROVE p # MyRollback /\ ~Latest(p)
    BY <1>1, <1>3, <2>2 DEF AnsweredInv, Latest
  <2>3. ~Latest(p) /\ Brings(p) => overtaken'
    BY Zenon DEF Brings
  <2>4. /\ step = "idle" /\ how = "ok" /\ Lasting =>
             /\ commands \in 1..MaxCommands
             /\ proc'[MyApply].state = "ok" /\ proc'[MyRollback] = Idle
        /\ step = "idle" /\ undone =>
             commands \in 1..MaxCommands /\ proc'[MyRollback].state = "ok"
    BY <1>1, <1>4, <2>1, <2>2 DEF AnsweredInv
  <2>5. step = "idle" /\ ~overtaken' =>
          /\ undone => applied' = yaml
          /\ how = "ok" /\ Lasting => applied' = yaml /\ yaml = asked
    BY <1>2, <2>1, <2>2, <2>3 DEF AnsweredInv, AnsweredIsInEffect, Lasting
  <2> QED BY <1>1, <2>4, <2>5 DEF AnsweredInv, AnsweredIsInEffect, Lasting
<1> QED BY <1>5, <1>6, <1>7

\* Success of an apply, and a rollback that came to its end, say what is in
\* effect on the host, whatever else was under way, until another netplan
\* process takes effect after theirs (netplan.go:224-262, 342-351).
THEOREM AnswersAreInEffect == NetplanSpec => []AnsweredIsInEffect
<1>1. NetplanInit => EffectInv
  BY NetplanAssumption DEF NetplanInit, EffectInv, ProcsInv, MineInv, AnsweredInv, Waiting,
                           AnsweredIsInEffect
<1>2. TypeInv /\ EffectInv /\ [NetplanNext]_netplanVars => EffectInv'
  <2> SUFFICES ASSUME TypeInv, EffectInv, [NetplanNext]_netplanVars PROVE EffectInv'
    OBVIOUS
  <2> USE DEF EffectInv, ProcsInv, MineInv, AnsweredInv, AnsweredIsInEffect, Waiting, Lasting
  <2>1. ASSUME NEW c \in Contents, NEW m \in Modes, Apply(c, m) PROVE EffectInv'
    BY <2>1, EffectBegins DEF Apply
  <2>2. CASE Rollback
    <3>1. "rollback" \in Modes
      BY DEF Modes
    <3> QED BY <2>2, <3>1, EffectBegins DEF Rollback
  <2>3. CASE HandlerStep
    BY <2>3, EffectHandler
  <2>4. CASE (Check \/ MonitorExpires) \/ UNCHANGED netplanVars
    <3>1. UNCHANGED <<yaml, asked, applied, overtaken, proc, step, mode, how, undone, commands>>
      BY <2>4 DEF Check, MonitorExpires, netplanVars, yamlVars, handlerVars, effectVars,
                  answerVars
    <3>2. UNCHANGED <<Mine, MyApply, MyRollback>>
      BY <3>1 DEF Mine, MyApply, MyRollback
    <3> QED BY <3>1, <3>2
  <2>5. ASSUME NEW p \in Procs, NetplanStep(p) PROVE EffectInv'
    BY <2>5, EffectNetplan
  <2>6. ASSUME NEW c \in Configs, Edit(c) PROVE EffectInv'
    <3>1. step' = "idle" /\ how' = "none" /\ undone' = FALSE /\ UNCHANGED <<proc, commands>>
      BY <2>6 DEF Edit
    <3> QED BY <3>1
  <2>7. CASE AgentDies
    <3>1. step # "idle" /\ step' = "idle" /\ how' = "none" /\ UNCHANGED <<undone, proc, commands>>
      BY <2>7 DEF AgentDies
    <3> QED BY <3>1
  <2> QED BY <2>1, <2>2, <2>3, <2>4, <2>5, <2>6, <2>7 DEF NetplanNext, NetplanStep
<1>3. EffectInv => AnsweredIsInEffect
  BY DEF EffectInv, AnsweredInv
<1> QED BY <1>1, <1>2, <1>3, TypeInvInductive, PTL DEF NetplanSpec
-----------------------------------------------------------------------------
(* The types.  The monitor's counts stay within their limits because it    *)
(* ends when one is reached.                                               *)
RestTypeInv ==
    /\ step \in PC /\ mode \in Modes /\ watches \in Watched
    /\ monitor \in {"none", "checking", "ok", "failed"}
    /\ passed \in 0..2 /\ failed \in 0..MaxFailedChecks
    /\ monitor = "checking" => passed < 2 /\ failed < MaxFailedChecks
    /\ how \in How /\ undone \in BOOLEAN /\ found \in Configs
    /\ overtaken \in BOOLEAN /\ checked \in BOOLEAN
    /\ fails \in 0..MaxFails /\ edits \in 0..MaxEdits /\ kills \in 0..MaxKills

LEMMA InitRestType == NetplanInit => RestTypeInv
<1> SUFFICES ASSUME NetplanInit PROVE RestTypeInv
  OBVIOUS
<1>1. undone \in BOOLEAN /\ overtaken \in BOOLEAN /\ checked \in BOOLEAN
  BY Zenon DEF NetplanInit
<1> QED
  BY <1>1, NetplanAssumption DEF NetplanInit, RestTypeInv, PC, Modes, How, Watched, Configs

\* The Boolean ones, apart from the rest.
LEMMA FlagTypes ==
  ASSUME RestTypeInv, [NetplanNext]_netplanVars
  PROVE  undone' \in BOOLEAN /\ overtaken' \in BOOLEAN /\ checked' \in BOOLEAN
<1>1. /\ undone' \in {undone, TRUE, FALSE}
      /\ overtaken' \in {overtaken, TRUE, FALSE}
      /\ checked' \in {checked, TRUE, FALSE}
  <2>1. \A p \in Procs : Latest(p) \in BOOLEAN
    BY Zenon DEF Latest
  <2> QED
    BY <2>1, Zenon
       DEF NetplanNext, HandlerStep, Apply, Rollback, BeginCommand, ValidateConfig, CreateBackup,
           WriteConfig, NetplanTry, StartApply, Start, ApplyDirectEnds, ApplyEnds, MonitorEnds,
           Restore, NothingToRestore, RollbackEnds, Return, Check, MonitorExpires, Generate,
           TakeEffect, TryReverts, ApplyFails, Brings, Edit, AgentDies, effectVars, answerVars,
           netplanVars
<1> QED BY <1>1, Zenon DEF RestTypeInv

LEMMA RestTypeStep == TypeInv /\ RestTypeInv /\ [NetplanNext]_netplanVars => RestTypeInv'
<1> SUFFICES ASSUME TypeInv, RestTypeInv, [NetplanNext]_netplanVars PROVE RestTypeInv'
  OBVIOUS
<1>0. undone' \in BOOLEAN /\ overtaken' \in BOOLEAN /\ checked' \in BOOLEAN
  BY FlagTypes
<1> USE <1>0, NetplanAssumption DEF RestTypeInv, yamlVars, handlerVars, monitorVars, bounds
<1>1. ASSUME NEW c \in Contents, NEW m \in Modes, Apply(c, m) PROVE RestTypeInv'
  BY <1>1 DEF Apply, BeginCommand, TypeInv, PC, How
<1>2. CASE Rollback
  BY <1>2 DEF Rollback, BeginCommand, TypeInv, PC, Modes, How
<1>3. CASE ValidateConfig \/ CreateBackup \/ WriteConfig
  BY <1>3 DEF ValidateConfig, CreateBackup, WriteConfig, Answer, Fails, PC, How
<1>4. CASE NetplanTry
  BY <1>4 DEF NetplanTry, answerVars, PC, How
<1>5. CASE StartApply
  BY <1>5 DEF StartApply, answerVars, PC, How
<1>6. CASE ApplyDirectEnds \/ ApplyEnds \/ MonitorEnds \/ NothingToRestore \/ RollbackEnds
  BY <1>6 DEF ApplyDirectEnds, ApplyEnds, MonitorEnds, NothingToRestore, RollbackEnds, Answer,
              Return, RollBack, StopListening, PC, How
<1>7. CASE Restore
  BY <1>7 DEF Restore, Return, Fails, answerVars, PC, How
<1>8. CASE Check
  <2>1. passed < 2 /\ failed < MaxFailedChecks
    BY <1>8 DEF Check
  <2>2. CASE passed' = passed + 1 /\ failed' = 0
    BY <1>8, <2>1, <2>2 DEF Check, CheckFails, TooMany, Fails, answerVars
  <2>3. CASE CheckFails
    BY <1>8, <2>1, <2>3 DEF Check, CheckFails, TooMany, Fails, answerVars
  <2> QED BY <1>8, <2>2, <2>3 DEF Check
<1>9. CASE MonitorExpires
  BY <1>9 DEF MonitorExpires, answerVars
<1>10. ASSUME NEW p \in Procs, NetplanStep(p) PROVE RestTypeInv'
  BY <1>10 DEF NetplanStep, Generate, TakeEffect, TryReverts, ApplyFails, Fails, answerVars
<1>11. ASSUME NEW c \in Configs, Edit(c) PROVE RestTypeInv'
  BY <1>11 DEF Edit, How
<1>12. CASE AgentDies
  BY <1>12 DEF AgentDies, StopListening, PC, How
<1>13. CASE UNCHANGED netplanVars
  BY <1>13 DEF netplanVars, answerVars
<1> QED
  BY <1>1, <1>2, <1>3, <1>4, <1>5, <1>6, <1>7, <1>8, <1>9, <1>10, <1>11, <1>12, <1>13
  DEF NetplanNext, HandlerStep, NetplanStep

\* Every variable keeps to its values; the monitor counts no further than the two passes,
\* or the failures, that end it (monitor.go:60-100).
THEOREM NetplanTypeCorrect == NetplanSpec => []NetplanTypeOK
<1>1. TypeInv /\ RestTypeInv => NetplanTypeOK
  BY DEF TypeInv, RestTypeInv, NetplanTypeOK
<1> QED
  BY <1>1, InitRestType, RestTypeStep, TypeInvInductive, PTL DEF NetplanSpec
=============================================================================
