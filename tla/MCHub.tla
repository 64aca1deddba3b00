-------------------------------- MODULE MCHub --------------------------------
(* Two stores, so that a hub may move; three keys, one of which may be lost *)
(* with a failed save while another is acknowledged; one node.              *)
EXTENDS WireboneHub, TLC

CONSTANTS main, lake, k1, k2, k3, n1

MCStores == {main, lake}
MCKeys == {k1, k2, k3}
MCNodes == {n1}

MCSymmetry == Permutations(MCStores) \cup Permutations(MCKeys)
=============================================================================
