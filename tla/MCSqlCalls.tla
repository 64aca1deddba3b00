------------------------------ MODULE MCSqlCalls ------------------------------
(* The instance of SqlCalls that TLC checks: two connections, two hubs one    *)
(* after the other, each on one of two ports; a user who names the first      *)
(* port gives a key as well.                                                 *)
EXTENDS SqlCalls, TLC

CONSTANTS s1, s2

MCSessions == {s1, s2}
MCPorts == {2, 3}
MCGivenJoins == {[control |-> 2, key |-> UserKey]}
MCSymmetry == Permutations(MCSessions)
=============================================================================
