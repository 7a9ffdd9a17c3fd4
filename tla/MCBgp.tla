---------------------------------- MODULE MCBgp ----------------------------------
(***************************************************************************)
(* An instance of Bgp: two entries of one prefix list, the number of one   *)
(* starting that of the other, and of one community list, two route maps   *)
(* one of whose names starts with the other, a neighbor that uses the      *)
(* longer one, and a process with two AS numbers; FRR starts empty or with *)
(* one of everything.                                                      *)
(***************************************************************************)
EXTENDS Bgp

Id(kind, name, seq) == [kind |-> kind, name |-> name, seq |-> seq]
Entry(v)            == [entry |-> v]
Map(action, match, pref, tag) ==
    [action |-> action, match |-> match, pref |-> pref, tag |-> tag]
Peer(as, plain, keep, connect, filter, graceful) ==
    [as |-> as, plain |-> plain, keep |-> keep, connect |-> connect, filter |-> filter,
     graceful |-> graceful]
Router(as, id, timers, graceful, restart, flags) ==
    [as |-> as, id |-> id, timers |-> timers, graceful |-> graceful, restart |-> restart,
     flags |-> flags]
Ask(o, want, as)    == [on |-> o, want |-> want, as |-> as]

Prefix1  == Id("prefix", "P", "1")
Prefix10 == Id("prefix", "P", "10")
Comm1    == Id("community", "C", "1")
Comm10   == Id("community", "C", "10")
MapM     == Id("map", "M", "1")
MapMX    == Id("map", "MX", "1")
Peer1    == Id("neighbor", "n1", "0")
Process  == Id("bgp", "bgp", "0")

MCValues == {"a", "b", "bits", "masked", "bad", "silent", "junk", "long", "permit", "deny", "m",
             "metric", "p", "c", "w", "odd", "1", "2", "d", "off", "MX", "shut", "k", "t", "g",
             "10", "20", "x", "f", "r"}
MCIds == {Prefix1, Prefix10, Comm1, Comm10, MapM, MapMX, Peer1, Process}
Asked1 == Map("permit", "m", None, "c")
MCInitial ==
    {<<>>,
     Prefix1 :> Entry("a") @@ Prefix10 :> Entry("a") @@ Comm1 :> Entry("a") @@ Comm10 :> Entry("a")
       @@ MapM :> Content(MapM, Asked1) @@ Peer1 :> Peer("1", "d", "k", "t", "MX", None)
       @@ Process :> Router("10", "x", None, "g", "r", None)}
MCInvalid == {Ask(Prefix10, Entry("junk"), None)}
MCUnbuildable == {Ask(Prefix1, Entry("long"), None)}
MCLonger == {<<"M", "MX">>, <<"1", "10">>}
MCReworded == "bits" :> "masked"
\* A route map whose name holds "shutdown".
MCMisread == "shut" :> [attr |-> "plain", val |-> "off"]
MCRequests == MCInvalid \cup MCUnbuildable \cup
    {Ask(Prefix1, Entry("a"), None), Ask(Prefix1, Entry("bits"), None),
     Ask(Prefix1, Entry("bad"), None), Ask(Prefix10, Entry("silent"), None),
     Ask(Comm1, Entry("a"), None), Ask(Comm1, Entry("b"), None), Ask(Comm10, Entry("bits"), None),
     Ask(MapM, Asked1, None), Ask(MapM, Map("permit", None, "p", "w"), None),
     Ask(MapM, Map("deny", "metric", None, None), None),
     Ask(MapMX, Map("permit", "m", None, "odd"), None),
     Ask(Peer1, Peer("1", "d", "k", "t", "MX", None), "10"),
     Ask(Peer1, Peer("1", None, Unset, "t", "shut", "g"), "10"),
     Ask(Peer1, Peer("1", "d", None, None, None, None), "10"),
     Ask(Peer1, Peer("2", "off", "k", "t", None, None), "10"),
     Ask(Peer1, Peer("1", "d", "k", "t", "MX", None), "20"),
     Ask(Process, Router("10", "x", Unset, "g", Unset, None), None),
     Ask(Process, Router("20", Unset, "t", None, "r", "f"), None)}
=============================================================================
