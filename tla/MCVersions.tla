------------------------------ MODULE MCVersions ------------------------------
(***************************************************************************)
(* An instance of Versions: two versions of envoy, one of them not named   *)
(* as the list wants it, and one of the firewall.                          *)
(***************************************************************************)
EXTENDS Versions, TLC

Binary(store, version) == [store |-> store, version |-> version]

MCBinaries == {Binary("envoy", "v1"), Binary("envoy", "1.0"), Binary("waf", "v1")}
DataSymmetry == Permutations(Data)

MCListable == {Binary("envoy", "v1"), Binary("waf", "v1")}
=============================================================================
