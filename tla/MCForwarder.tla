----------------------------- MODULE MCForwarder -----------------------------
(* Two sessions that forward to one peer each, so that a connection of the  *)
(* one that reaches the peer of the other is seen.                          *)
EXTENDS Forwarder, TLC

CONSTANTS s1, s2, p1, p2

MCCallers == {s1, s2}
MCPeers == {p1, p2}
MCAsks == (s1 :> {p1}) @@ (s2 :> {p2})
=============================================================================
