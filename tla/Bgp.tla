----------------------------------- MODULE Bgp -----------------------------------
(***************************************************************************)
(* The FRR configuration: prefix lists, community lists, route maps, BGP   *)
(* neighbors and the BGP process itself (operations/frr, services/frr.go). *)
(*                                                                         *)
(* FRR keeps a running configuration, changed by the lines of a vtysh      *)
(* session, and a startup configuration, which "write memory" overwrites   *)
(* with the whole running one.  An operation of the agent reads the        *)
(* running configuration (each read may fail), decides on one or two       *)
(* sessions, and runs them line by line; a line that is rejected does not  *)
(* stop the lines after it, and only rejections in some words are noticed. *)
(* Commands are handled one at a time, and nobody else configures FRR.     *)
(*                                                                         *)
(* The configuration maps objects to the values of their attributes:       *)
(*   prefix, community  "entry": action, prefix and lengths, or values     *)
(*   map                "action"; "match"; "pref"; "tag", the communities  *)
(*                      set; "extra", a weight, an origin or AS numbers    *)
(*                      prepended.  A request has "extra" in its tag.      *)
(*   neighbor           "as"; "plain", all else that is compared before an *)
(*                      add; "keep" and "connect", the timers; "filter",   *)
(*                      route maps and prefix lists; "graceful"            *)
(*   bgp                "as"; "id", the router id; "timers"; "graceful"    *)
(*                      restart and "restart", one of its times; "flags",  *)
(*                      what is always sent                                *)
(* A list has one type, and a request at most one match.  "plain",         *)
(* "filter", "restart" and "flags" stand for attributes that are compared  *)
(* and sent one by one, each like any other.                               *)
(***************************************************************************)
EXTENDS Integers, Sequences, FiniteSets, SequencesExt

CONSTANTS
    Ids,          \* the objects: [kind, name, seq]
    Values,       \* what their attributes may be
    Requests,     \* what may be asked of them: [on, want, as]
    Invalid,      \* those that validation turns down
    Unbuildable,  \* those of prefix lists it lets pass with lengths that no line can have
    Longer,       \* pairs of texts: the second starts with the first
    Extras,       \* tags of a request that stand for an extra attribute
    Unknown,      \* those among them that the addition of a route map passes over
    Unsent,       \* matches of a type that it passes over
    Bad,          \* values that pass validation and that FRR rejects
    Unreported,   \* those it rejects in words the agent does not look for
    Reworded,     \* values FRR shows in another way (host bits, the order of communities)
    Misread,      \* values in a neighbor's lines that are taken for another attribute
    Initial,      \* configurations FRR may start with
    Unset,        \* a field of a request that is left zero
    None, MaxOps, MaxFailures, MaxCrashes   \* (bounds)

Kinds == {"prefix", "community", "map", "neighbor", "bgp"}

Attributes(kind) ==
    CASE kind \in {"prefix", "community"} -> {"entry"}
      [] kind = "map"      -> {"action", "match", "pref", "tag", "extra"}
      [] kind = "neighbor" -> {"as", "plain", "keep", "connect", "filter", "graceful"}
      [] OTHER             -> {"as", "id", "timers", "graceful", "restart", "flags"}

\* What a request may leave unset, for FRR to keep what it has.
Optional == {"keep", "connect", "id", "timers", "graceful", "restart"}

Objects(kind) == [Attributes(kind) -> Values \cup {None}]
Wants(kind)   ==
    [Attributes(kind) \ (IF kind = "map" THEN {"extra"} ELSE {}) -> Values \cup {None, Unset}]

\* There is one BGP process, and no neighbor without it.
ASSUME BgpAssumption ==
    /\ \A i \in Ids : i.kind \in Kinds
    /\ \E i \in Ids : i.kind = "bgp" /\ \A j \in Ids : j.kind = "bgp" => j = i
    /\ None \notin Extras /\ Unknown \subseteq Extras /\ Unset \notin Values \cup {None}
    /\ DOMAIN Reworded \subseteq Values \ (Extras \cup {None})
    /\ \A v \in DOMAIN Reworded : Reworded[v] \in Values \ Extras
    /\ \A r \in Requests : r.on \in Ids /\ r.want \in Wants(r.on.kind)
    /\ \A r \in Requests : \A a \in DOMAIN r.want : r.want[a] = Unset => a \in Optional
    /\ \A r \in Requests : r.on.kind = "neighbor" =>
         /\ r.as \in Values /\ r.want.graceful # Unset
         /\ (r.want.keep = None <=> r.want.connect = None)
    /\ \A r \in Requests : r.on.kind = "bgp" =>
         None \notin {r.want.id, r.want.timers, r.want.restart}
    /\ Invalid \subseteq Requests /\ Unbuildable \subseteq Requests
    /\ \A r \in Unbuildable : r.on.kind = "prefix"
    /\ \A c \in Initial : \A i \in Ids \cap DOMAIN c :
         /\ c[i] \in Objects(i.kind)
         /\ i.kind = "map" => c[i].tag \notin Extras
         /\ i.kind = "neighbor" => \E j \in Ids \cap DOMAIN c : j.kind = "bgp"
    /\ MaxOps \in Nat /\ MaxFailures \in Nat /\ MaxCrashes \in Nat

Global    == CHOOSE i \in Ids : i.kind = "bgp"
Neighbors == {i \in Ids : i.kind = "neighbor"}
SameName(o) == {i \in Ids : i.kind = o.kind /\ i.name = o.name}

Blank(o) == [a \in Attributes(o.kind) |-> None]
Absent   == [exists |-> FALSE]

VARIABLES
    running, startup,
    pc, op,
    todo,        \* the sessions left to run: [as, lines, optional]
    left,        \* the lines left of the one that runs
    rejected,    \* one of its lines was rejected in words that are looked for
    answer,
    \* history
    about,       \* objects the operation may change
    drifts,      \* the operation is one whose success is known not to mean much
    unsaved,     \* a session since the last save ended without one
    promised,    \* how an object was at first, or as the last operation on it was answered
                 \* with success for
    ops, faults, crashes

conf  == <<running, startup>>
vtysh == <<left, rejected>>
hist  == <<about, drifts, promised>>
vars  == <<conf, pc, op, todo, vtysh, answer, hist, unsaved, ops, faults, crashes>>

NoPromise == [promise |-> FALSE]
NoOp      == [verb |-> "none"]

Init ==
    /\ running \in {[i \in Ids |-> IF i \in DOMAIN c THEN c[i] ELSE Absent] : c \in Initial}
    /\ startup = running
    /\ pc = "idle" /\ op = NoOp /\ todo = <<>> /\ answer = "none"
    /\ left = <<>> /\ rejected = FALSE
    /\ about = {} /\ drifts = FALSE /\ unsaved = FALSE
    /\ promised = running
    /\ ops = 0 /\ faults = 0 /\ crashes = 0

TypeOK ==
    /\ \A c \in {running, startup} : c = [i \in Ids |-> c[i]]
    /\ \A i \in Ids : \A c \in {running[i], startup[i]} : c = Absent \/ c \in Objects(i.kind)
    /\ DOMAIN promised = Ids
    /\ pc \in {"idle", "session", "lines", "save"} /\ (pc = "idle" => todo = <<>>)
    /\ (pc # "lines" => left = <<>>) /\ (pc # "lines" => ~rejected)
    /\ rejected \in BOOLEAN
    /\ answer \in {"none", "ok", "error"} /\ about \subseteq Ids
    /\ drifts \in BOOLEAN /\ unsaved \in BOOLEAN
    /\ ops \in 0..MaxOps /\ faults \in 0..MaxFailures /\ crashes \in 0..MaxCrashes

Fault == faults < MaxFailures /\ faults' = faults + 1
-----------------------------------------------------------------------------
(* What becomes of an object. *)
\* How FRR keeps and shows a value that is sent to it; nothing is sent for one left unset.
Shown(v) ==
    CASE v = Unset             -> None
      [] v \in DOMAIN Reworded -> Reworded[v]
      [] OTHER                 -> v

\* What is asked, as FRR would show it.
Content(o, want) ==
    IF o.kind # "map" THEN [a \in Attributes(o.kind) |-> Shown(want[a])]
    ELSE [a \in Attributes("map") |->
            CASE a = "tag"   -> IF want.tag \in Extras THEN None ELSE Shown(want.tag)
              [] a = "extra" -> IF want.tag \in Extras THEN want.tag ELSE None
              [] OTHER       -> Shown(want[a])]

\* What is read is what is asked, which it never is of what FRR words in another way.
Alike(read, want) == read = Shown(want) /\ want \notin DOMAIN Reworded

\* A search for a text finds the texts that start with it.
Begins(text, sought) == text = sought \/ <<sought, text>> \in Longer
-----------------------------------------------------------------------------
(* FRR: what a line does to a configuration. *)
Line(do, o, attr, val) == [do |-> do, on |-> o, attr |-> attr, val |-> val]

Sets(o, attrs, want) ==
    SetToSeq({Line("set", o, a, want[a]) : a \in attrs})

\* A new action for an entry of a route map makes it anew, without its matches and sets.
Enter(cfg, l) ==
    IF cfg[l.on] # Absent /\ cfg[l.on].action = l.val THEN cfg
    ELSE [cfg EXCEPT ![l.on] = [Blank(l.on) EXCEPT !.action = l.val]]

\* A neighbor and the process come into being with their AS.
Put(cfg, l) ==
    CASE cfg[l.on] # Absent -> [cfg EXCEPT ![l.on][l.attr] = l.val]
      [] cfg[l.on] = Absent /\ l.attr \in {"entry", "as"} ->
           [cfg EXCEPT ![l.on] = [Blank(l.on) EXCEPT ![l.attr] = l.val]]
      [] OTHER -> cfg

Without(cfg, gone) == [i \in Ids |-> IF i \in gone THEN Absent ELSE cfg[i]]

\* Rejections that the agent notices.  The lines of a neighbor are known only below the
\* process of the session's AS.
Reported(cfg, s, l) ==
    \/ l.val \in Bad \/ l.do \in {"malformed", "unbuilt"}
    \/ l.on.kind = "neighbor" /\ (cfg[Global] = Absent \/ cfg[Global].as # s.as)

Rejects(cfg, s, l) ==
    Reported(cfg, s, l) \/ (l.do \in {"set", "enter"} /\ l.val \in Unreported)

Applied(cfg, s, l) ==
    CASE Rejects(cfg, s, l)                        -> cfg
      [] ~Rejects(cfg, s, l) /\ l.do = "enter"     -> Enter(cfg, l)
      [] ~Rejects(cfg, s, l) /\ l.do = "set"       -> Put(cfg, l)
      [] ~Rejects(cfg, s, l) /\ l.do = "router"    ->
           IF cfg[Global] = Absent THEN Put(cfg, l) ELSE cfg
      [] ~Rejects(cfg, s, l) /\ l.do = "drop"      -> Without(cfg, {l.on})
      [] ~Rejects(cfg, s, l) /\ l.do = "drop name" -> Without(cfg, SameName(l.on))
      [] OTHER                                     -> Without(cfg, Neighbors \cup {Global})
-----------------------------------------------------------------------------
(* Plans: the sessions of an operation, given which of its reads succeed. *)
Failed(ok) == {i \in DOMAIN ok : ~ok[i]}
Reads(n)   == {ok \in [1..n -> BOOLEAN] : faults + Cardinality(Failed(ok)) <= MaxFailures}

Refuse == [refused |-> TRUE, todo |-> <<>>]
Go(ss) == [refused |-> FALSE, todo |-> ss]

Session(lines)     == [as |-> None, lines |-> lines, optional |-> FALSE]
Try(lines)         == [as |-> None, lines |-> lines, optional |-> TRUE]
RouterSession(as, lines) ==
    [as |-> as, optional |-> FALSE, lines |-> <<Line("router", Global, "as", as)>> \o lines]

Present(o)   == running[o] # Absent
Drop(o)      == <<Line("drop", o, "none", None)>>
DropName(o)  == Session(<<Line("drop name", o, "none", None)>>)

\* An entry of a list is searched for by the start of its line.
Seen(o) == \E i \in SameName(o) : Present(i) /\ Begins(i.seq, o.seq)

\* A name is searched for anywhere in the configuration: it is also found at the start of a
\* longer one, and that of a route map where a neighbor uses it.
Named(o) ==
    \/ \E i \in Ids : i.kind = o.kind /\ Begins(i.name, o.name) /\ Present(i)
    \/ o.kind = "map" /\ \E n \in Neighbors : Present(n) /\ Begins(running[n].filter, o.name)

\* A line that cannot be built is found out only when it is to be sent.
PutEntry(r) ==
    IF r \in Unbuildable THEN Session(<<Line("unbuilt", r.on, "none", None)>>)
    ELSE Session(Sets(r.on, {"entry"}, Content(r.on, r.want)))

\* Mutant of Configured: the action of the entry is rendered by its enum name, and never
\* matches the line FRR shows.
NeverConfigured(r) == FALSE

\* The exact line that would be written is there.
Configured(r) == Present(r.on) /\ Alike(running[r.on].entry, r.want.entry)

\* Mutant of UpdatePrefixList: the whole list is removed for one of its entries.
UpdateWholePrefixList(r, ok) ==
    CASE ~ok[2] \/ r \in Unbuildable                   -> Refuse
      [] ok[2] /\ r \notin Unbuildable /\ Configured(r) -> Go(<<>>)
      [] OTHER -> Go(<<DropName(r.on), PutEntry(r)>>)

UpdatePrefixList(r, ok) ==
    CASE ~ok[2] \/ r \in Unbuildable                   -> Refuse
      [] ok[2] /\ r \notin Unbuildable /\ Configured(r) -> Go(<<>>)
      [] OTHER -> Go(<<Session(Drop(r.on)), PutEntry(r)>>)

\* Reached with an entry in place only if it could not be read at first; its removal may
\* fail, and comes before it is known whether the new line can be built.
AddPrefixList(r, ok) ==
    CASE ~ok[2]                     -> Refuse
      [] ok[2] /\ ~Seen(r.on)       -> Go(<<PutEntry(r)>>)
      [] ok[2] /\ Seen(r.on) /\ ok[3] /\ r \notin Unbuildable /\ Configured(r) -> Go(<<>>)
      [] OTHER                      -> Go(<<Try(Drop(r.on)), PutEntry(r)>>)

PrefixPlan(r, ok) ==
    IF ok[1] /\ Seen(r.on) THEN UpdatePrefixList(r, ok) ELSE AddPrefixList(r, ok)

UpdateCommunityList(r, ok) ==
    CASE ~ok[2]                   -> Refuse
      [] ok[2] /\ Configured(r)   -> Go(<<>>)
      [] OTHER                    -> Go(<<Session(Drop(r.on)), PutEntry(r)>>)

\* Every entry of the name goes when this one is not found.
AddCommunityListWithCleanup(r, ok) ==
    CASE ~ok[2]                   -> Refuse
      [] ok[2] /\ Named(r.on)     -> Go(<<DropName(r.on), PutEntry(r)>>)
      [] OTHER                    -> Go(<<PutEntry(r)>>)

CommunityPlan(r, ok) ==
    IF ok[1] /\ Seen(r.on) THEN UpdateCommunityList(r, ok)
    ELSE AddCommunityListWithCleanup(r, ok)

\* A search for a route map also finds one of the same number under a name that only
\* starts with the one sought.
Lookalikes(o) ==
    {j \in Ids : j.kind = "map" /\ j.seq = o.seq /\ <<o.name, j.name>> \in Longer /\ Present(j)}

Found(o) == {running[i] : i \in Lookalikes(o) \cup {j \in {o} : Present(j)}}

\* Communities and extra attributes share one field, the last line winning.
TagRead(c) ==
    IF c.tag # None /\ c.extra # None THEN {c.tag, c.extra}
    ELSE {IF c.tag = None THEN c.extra ELSE c.tag}

Parsed(c) ==
    {[action |-> c.action, match |-> c.match, pref |-> c.pref, tag |-> t] : t \in TagRead(c)}

SetTag(o, tag) ==
    CASE tag \in Unknown \cup {None}                   -> <<>>
      [] tag \in Extras \ Unknown                      -> <<Line("set", o, "extra", tag)>>
      [] OTHER                                         -> <<Line("set", o, "tag", Shown(tag))>>

AddRouteMap(r) ==
    LET w == r.want
        c == Content(r.on, w)
    IN Session(<<Line("enter", r.on, "action", c.action)>>
               \o (IF w.match \in Unsent \cup {None} THEN <<>> ELSE Sets(r.on, {"match"}, c))
               \o (IF w.pref = None THEN <<>> ELSE Sets(r.on, {"pref"}, c)) \o SetTag(r.on, w.tag))

\* The tag is sent as communities here, whatever it is.
UpdateTag(o, tag) ==
    IF tag \in Extras THEN <<Line("malformed", o, "tag", tag)>>
    ELSE <<Line("set", o, "tag", Shown(tag))>>

UpdateRouteMap(r, seen) ==
    LET w == r.want
        c == Content(r.on, w)
    IN Session(<<Line("enter", r.on, "action", c.action)>>
               \o Sets(r.on, {a \in {"match", "pref"} : ~Alike(seen[a], w[a])}, c)
               \o (IF Alike(seen.tag, w.tag) THEN <<>> ELSE UpdateTag(r.on, w.tag)))

AsAsked(seen, want) == \A a \in DOMAIN want : Alike(seen[a], want[a])

\* Communities are looked at before they are added, and not before an update.
MapPlans(r, ok) ==
    CASE (~ok[1] \/ Found(r.on) = {}) /\ r.want.tag \in Bad \ Extras    -> {Refuse}
      [] (~ok[1] \/ Found(r.on) = {}) /\ r.want.tag \notin Bad \ Extras -> {Go(<<AddRouteMap(r)>>)}
      [] ok[1] /\ Found(r.on) # {} /\ ~ok[2] -> {Refuse}
      [] OTHER -> {IF AsAsked(seen, r.want) THEN Go(<<>>) ELSE Go(<<UpdateRouteMap(r, seen)>>) :
                       seen \in UNION {Parsed(c) : c \in Found(r.on)}}

\* Lists and route maps are removed by their name.
RemovalPlan(o, ok) ==
    CASE ~ok[1]                   -> Refuse
      [] ok[1] /\ Named(o)        -> Go(<<DropName(o)>>)
      [] OTHER                    -> Go(<<>>)

\* A line of a neighbor is taken for the first attribute whose name occurs in it, as that of
\* a route map called "shutdown-all" is, and is then not read as what it is.
ParsedNeighbor(c) ==
    LET wrong == {a \in {"plain", "filter"} : c[a] \in DOMAIN Misread}
        as    == {Misread[c[a]] : a \in wrong}
    IN [a \in DOMAIN c |->
          IF \E m \in as : m.attr = a THEN (CHOOSE m \in as : m.attr = a).val
          ELSE IF a \in wrong THEN None ELSE c[a]]

\* Graceful restart is not part of an addition.
NeighborLines(r) ==
    LET c == Content(r.on, r.want) IN
    Sets(r.on, {"as"}, c)
    \o Sets(r.on, {a \in {"plain", "keep", "connect", "filter"} : r.want[a] \notin {None, Unset}}, c)

PlainChange(now, want)    == {a \in {"plain"} : ~Alike(now[a], want[a])}
FilterChange(now, want)   == {a \in {"filter"} : ~Alike(now[a], want[a])}
GracefulChange(now, want) == {a \in {"graceful"} : ~Alike(now[a], want[a])}

\* A request without timers clears both; one with timers sends those it sets, and the others
\* stay as they are.
TimerChange(now, want) ==
    CASE want.keep = None -> {"keep", "connect"}
      [] want.keep # None /\ \A a \in {"keep", "connect"} : Alike(now[a], want[a]) -> {}
      [] OTHER -> {a \in {"keep", "connect"} : want[a] # Unset}

\* A neighbor in another AS is sent as an addition, over what it has.
NeighborUpdate(r, now) ==
    LET c       == Content(r.on, r.want)
        changed == PlainChange(now, r.want) \cup TimerChange(now, r.want)
                   \cup FilterChange(now, r.want) \cup GracefulChange(now, r.want)
    IN IF now.as # c.as THEN NeighborLines(r) ELSE Sets(r.on, changed, c)

UpdateNeighbor(r, ok) ==
    LET lines == NeighborUpdate(r, ParsedNeighbor(running[r.on]))
    IN CASE ~ok                  -> Refuse
         [] ok /\ lines = <<>>   -> Go(<<>>)
         [] OTHER                -> Go(<<RouterSession(r.as, lines)>>)

NeedsUpdate(r) ==
    \E a \in {"as", "plain"} : ~Alike(ParsedNeighbor(running[r.on])[a], r.want[a])

AddNeighbor(r, ok) ==
    CASE ~ok[2] \/ ~Present(r.on) -> Go(<<RouterSession(r.as, NeighborLines(r))>>)
      [] ok[2] /\ Present(r.on) /\ ~NeedsUpdate(r) -> Go(<<>>)
      [] OTHER -> UpdateNeighbor(r, ok[3])

NeighborPlan(r, ok) ==
    IF ok[1] /\ Present(r.on) THEN UpdateNeighbor(r, ok[2]) ELSE AddNeighbor(r, ok)

NeighborRemovalPlan(o, ok) ==
    CASE ~ok[1] \/ ~ok[2]               -> Refuse
      [] ok[1] /\ ok[2] /\ Present(o)   -> Go(<<RouterSession(running[Global].as, Drop(o))>>)
      [] OTHER                          -> Go(<<>>)

\* The AS of a process cannot be changed: the process is removed with its neighbors.
NewProcess(r) == Present(Global) /\ running[Global].as # Content(Global, r.want).as

\* What an operation leaves to FRR: timers, router id and graceful restart that are not set,
\* and the times of a graceful restart that is not on.
Unasked(r) ==
    {a \in Optional \cap DOMAIN r.want : r.want[a] = Unset}
    \cup (IF r.on.kind = "bgp" /\ r.want.graceful \in {None, Unset} THEN {"restart"} ELSE {})

ConfigPlan(r, ok) ==
    LET c == Content(Global, r.want) IN
    IF ~ok[1] THEN Refuse
    ELSE Go(<<[as |-> c.as, optional |-> FALSE, lines |->
                 (IF NewProcess(r) THEN <<Line("drop process", Global, "none", None)>> ELSE <<>>)
                 \o <<Line("router", Global, "as", c.as)>>
                 \o Sets(Global, Attributes("bgp") \ ({"as"} \cup Unasked(r)), c)]>>)
-----------------------------------------------------------------------------
(* Operations. *)
\* What the agent is asked to change: the object; the entries of its name, for a removal
\* and for a new entry of a community list; the neighbors, for a new AS.
Scope(verb, r, ok) ==
    {r.on}
    \cup (IF verb = "remove" /\ r.on.kind # "neighbor" THEN SameName(r.on) ELSE {})
    \cup (IF verb = "apply" /\ r.on.kind = "community" /\ (~ok[1] \/ ~Seen(r.on))
            THEN SameName(r.on) ELSE {})
    \cup (IF verb = "apply" /\ r.on.kind = "bgp" /\ NewProcess(r) THEN Neighbors ELSE {})
    \cup (IF r.on.kind = "neighbor" /\ ~Present(Global) THEN {Global} ELSE {})

\* What it was before the operation, or is after the removal of the process.
Before(r) ==
    IF Present(r.on) /\ ~(r.on.kind = "bgp" /\ NewProcess(r)) THEN running[r.on] ELSE Blank(r.on)

\* Operations that may succeed without leaving the object as asked: a value is rejected in
\* words the agent does not look for; what the request leaves unset has a value; a route map
\* is added over one, taken for one with a longer name, or has a part that is passed over; a
\* neighbor is added over one, or misread, or new and without its graceful restart.
Drifts(verb, r, ok) ==
    /\ verb = "apply"
    /\ LET o == r.on
           w == r.want
           c == Content(o, w)
       IN \/ \E a \in DOMAIN c : c[a] \in Unreported
          \/ \E a \in Unasked(r) : Before(r)[a] # c[a]
          \/ /\ o.kind = "map"
             /\ \/ /\ Present(o)
                   /\ ~ok[1] \/ running[o].action # c.action \/ running[o].extra # None
                \/ ok[1] /\ Lookalikes(o) # {}
                \/ ~Present(o) /\ (w.match \in Unsent \/ w.tag \in Unknown)
          \/ /\ o.kind = "neighbor"
             /\ \/ /\ Present(o)
                   /\ \/ ~ok[1] \/ running[o].as # c.as
                      \/ ParsedNeighbor(running[o]) # running[o]
                \/ ~Present(o) /\ w.graceful # None

\* Requests that validation turns down.
Validated(verb, r, plan) == IF verb = "apply" /\ r \in Invalid THEN Refuse ELSE plan

Begin(verb, r, planned, ok) ==
    LET plan == Validated(verb, r, planned) IN
    /\ pc = "idle" /\ ops < MaxOps /\ ops' = ops + 1
    /\ op' = [verb |-> verb, on |-> r.on, blind |-> Failed(ok) # {},
              reworded |-> verb = "apply" /\ r.on.kind \in {"prefix", "community"}
                           /\ r.want.entry \in DOMAIN Reworded,
              want |-> IF verb = "remove" THEN Absent ELSE Content(r.on, r.want)]
    /\ todo' = plan.todo
    /\ pc' = (IF plan.refused THEN "idle" ELSE "session")
    /\ answer' = (IF plan.refused THEN "error" ELSE "none")
    /\ about' = Scope(verb, r, ok) /\ drifts' = Drifts(verb, r, ok)
    /\ promised' = [i \in Ids |-> IF i \in about' THEN NoPromise ELSE promised[i]]
    /\ faults' = faults + Cardinality(Failed(ok))
    /\ UNCHANGED <<conf, vtysh, unsaved, crashes>>

Asked(kind)   == {r \in Requests : r.on.kind = kind}
Removals(kind) == {[on |-> i, want |-> Absent] : i \in {j \in Ids : j.kind = kind}}

ApplyPrefixList ==
    \E r \in Asked("prefix"), ok \in Reads(3) : Begin("apply", r, PrefixPlan(r, ok), ok)
ApplyCommunityList ==
    \E r \in Asked("community"), ok \in Reads(2) : Begin("apply", r, CommunityPlan(r, ok), ok)
ApplyRouteMap ==
    \E r \in Asked("map"), ok \in Reads(2) :
       \E plan \in MapPlans(r, ok) : Begin("apply", r, plan, ok)

RemovePrefixList ==
    \E r \in Removals("prefix"), ok \in Reads(1) : Begin("remove", r, RemovalPlan(r.on, ok), ok)
RemoveCommunityList ==
    \E r \in Removals("community"), ok \in Reads(1) : Begin("remove", r, RemovalPlan(r.on, ok), ok)
RemoveRouteMap ==
    \E r \in Removals("map"), ok \in Reads(1) : Begin("remove", r, RemovalPlan(r.on, ok), ok)

HandleBgpNeighbor ==
    \E r \in Asked("neighbor"), ok \in Reads(3) : Begin("apply", r, NeighborPlan(r, ok), ok)
RemoveBgpNeighbor ==
    \E r \in Removals("neighbor"), ok \in Reads(2) :
       Begin("remove", r, NeighborRemovalPlan(r.on, ok), ok)

SetBgpConfig ==
    \E r \in Asked("bgp"), ok \in Reads(1) : Begin("apply", r, ConfigPlan(r, ok), ok)
-----------------------------------------------------------------------------
(* Sessions. *)
StartSession ==
    /\ pc = "session" /\ todo # <<>> /\ Head(Head(todo).lines).do # "unbuilt"
    /\ left' = Head(todo).lines /\ pc' = "lines"
    /\ UNCHANGED <<conf, op, todo, rejected, answer, hist, unsaved, ops, faults, crashes>>

\* No session is run for a line that cannot be built, and the operation ends.
Unbuilt ==
    /\ pc = "session" /\ todo # <<>> /\ Head(Head(todo).lines).do = "unbuilt"
    /\ pc' = "idle" /\ todo' = <<>> /\ answer' = "error"
    /\ UNCHANGED <<conf, op, vtysh, hist, unsaved, ops, faults, crashes>>

\* The line takes effect unless it is rejected, and the next one follows all the same.
RunLine ==
    /\ pc = "lines" /\ left # <<>>
    /\ running' = Applied(running, Head(todo), Head(left))
    /\ rejected' = (rejected \/ Reported(running, Head(todo), Head(left)))
    /\ left' = Tail(left)
    /\ UNCHANGED <<startup, pc, op, todo, answer, hist, unsaved, ops, faults, crashes>>

\* The session ends in an error: so does the operation, unless it can do without.
Broken ==
    /\ unsaved' = TRUE
    /\ IF Head(todo).optional
         THEN pc' = "session" /\ todo' = Tail(todo) /\ UNCHANGED answer
         ELSE pc' = "idle" /\ todo' = <<>> /\ answer' = "error"

Over == left' = <<>> /\ rejected' = FALSE

\* Mutant of EndSession: the output is not searched for rejections.
EndSessionUnscanned ==
    /\ pc = "lines" /\ left = <<>> /\ Over /\ pc' = "save"
    /\ UNCHANGED <<conf, op, todo, answer, hist, unsaved, ops, faults, crashes>>

\* The output is searched for rejections once all lines have run.
EndSession ==
    /\ pc = "lines" /\ left = <<>> /\ Over
    /\ IF rejected THEN Broken ELSE pc' = "save" /\ UNCHANGED <<todo, answer, unsaved>>
    /\ UNCHANGED <<conf, op, hist, ops, faults, crashes>>

\* vtysh fails, or loses FRR, anywhere between the first line and the last.
SessionFails ==
    /\ pc = "lines" /\ Fault /\ Broken /\ Over
    /\ UNCHANGED <<conf, op, hist, ops, crashes>>

\* Everything that runs is saved, the remains of sessions that failed included.
WriteMemory ==
    /\ pc = "save"
    /\ \/ /\ startup' = running /\ unsaved' = FALSE
          /\ pc' = "session" /\ todo' = Tail(todo) /\ UNCHANGED <<answer, faults>>
       \/ Fault /\ Broken /\ UNCHANGED startup
    /\ UNCHANGED <<running, op, vtysh, hist, ops, crashes>>

\* A neighbor is read back for the answer.
Finish ==
    /\ pc = "session" /\ todo = <<>> /\ pc' = "idle"
    /\ \/ answer' = "ok" /\ UNCHANGED faults
          /\ promised' = [i \in Ids |->
                CASE i # op.on /\ (op.verb = "apply" \/ i \notin about) -> promised[i]
                  [] i = op.on /\ ~drifts /\ ~unsaved                  -> op.want
                  [] i # op.on /\ i \in about /\ op.verb = "remove" /\ i.kind = op.on.kind
                     /\ ~unsaved                                       -> Absent
                  [] OTHER                                             -> NoPromise]
       \/ /\ op.verb = "apply" /\ op.on.kind = "neighbor" /\ Fault
          /\ answer' = "error" /\ UNCHANGED promised
    /\ UNCHANGED <<conf, op, todo, vtysh, about, drifts, unsaved, ops, crashes>>
-----------------------------------------------------------------------------
(* Crashes. *)
\* The agent dies, before, between or after the lines of a session, or before its save.
Crash ==
    /\ pc # "idle" /\ crashes < MaxCrashes /\ crashes' = crashes + 1
    /\ pc' = "idle" /\ todo' = <<>> /\ answer' = "none" /\ Over
    /\ unsaved' = (unsaved \/ pc \in {"lines", "save"})
    /\ UNCHANGED <<conf, op, hist, ops, faults>>

\* FRR starts anew, with the host or alone.
Restart ==
    /\ pc = "idle" /\ crashes < MaxCrashes /\ crashes' = crashes + 1
    /\ running' = startup /\ unsaved' = FALSE /\ answer' = "none"
    /\ UNCHANGED <<startup, pc, op, todo, vtysh, hist, ops, faults>>

Next ==
    \/ ApplyPrefixList \/ ApplyCommunityList \/ ApplyRouteMap
    \/ RemovePrefixList \/ RemoveCommunityList \/ RemoveRouteMap
    \/ HandleBgpNeighbor \/ RemoveBgpNeighbor \/ SetBgpConfig
    \/ StartSession \/ Unbuilt \/ RunLine \/ EndSession \/ SessionFails \/ WriteMemory \/ Finish
    \/ Crash \/ Restart

Spec == Init /\ [][Next]_vars
-----------------------------------------------------------------------------
\* What FRR had at first, and what an operation was answered with success for, stays in
\* the running configuration and in the saved one, whatever fails in operations on other
\* objects, and over a restart of FRR, until an operation is about the object again.  The
\* exceptions are those Drifts names, and a success on top of a session that was not saved.
SuccessLasts ==
    \A i \in Ids : promised[i] # NoPromise => running[i] = promised[i] /\ startup[i] = promised[i]

\* No line of an operation changes an object but those it is about, whatever fails:
\* entries of the same list, other route maps and other neighbors stay as they are.
SiblingsUntouched ==
    [][pc # "idle" => \A i \in Ids \ about : running'[i] = running[i]]_vars

\* What already is as asked, and could be read, is never taken away on the way: a command
\* that is delivered twice does not shut a filter off for a moment, not even between two lines
\* of a session.  The exceptions are entries of a list that FRR shows in other words than they
\* were sent: the comparison does not recognize them, and they are removed and added again.
RepushIsHarmless ==
    [][(/\ pc # "idle" /\ op.verb = "apply" /\ running[op.on] = op.want
        /\ ~op.blind /\ ~op.reworded)
         => running'[op.on] = op.want]_vars
=============================================================================
