------------------------------ MODULE MCRouting ------------------------------
(***************************************************************************)
(* An instance of Routing: a destination with two gateways, one of them    *)
(* also with its table spelled out, a route in a table of the agent, a     *)
(* rule named on two interfaces and one that is refused and names none.    *)
(***************************************************************************)
EXTENDS Routing

Route(to, via, table, iface) ==
    [kind |-> "route", to |-> to, via |-> via, table |-> table, iface |-> iface]
Rule(to, table, iface) ==
    [kind |-> "rule", to |-> to, via |-> "none", table |-> table, iface |-> iface]

MCEntries ==
    {Route("net", "gw1", Unset, "eth0"), Route("net", "gw2", Unset, "eth0"),
     Route("net", "gw2", Main, "eth0"), Route("lan", "gw1", "t1", "eth0"),
     Rule("prio", "t1", "eth0"), Rule("prio", "t1", "eth1"), Rule("late", Main, NoIface)}
MCTables  == {[id |-> "t1", name |-> "red"], [id |-> Main, name |-> "main"]}
MCManaged == {"t1"}
MCRefused == {Rule("late", Main, NoIface), [id |-> Main, name |-> "main"]}
=============================================================================
