------------------------------- MODULE MCBridge -------------------------------
(* A user with a proxy of their own, spelt two ways.                        *)
EXTENDS TailscaleBridge, TLC

CONSTANTS s1, s2

MCOneSession == {s1}
MCSessions == {s1, s2}
MCUserProxies == {[upper |-> "mine", lower |-> "other"]}
MCBoth == BOOLEAN
MCAlways == {TRUE}

MCSymmetry == Permutations(MCSessions)
=============================================================================
