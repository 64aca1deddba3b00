------------------------------- MODULE MCRelay -------------------------------
(* The instance of Relay that TLC checks: the client's side is TCP, the       *)
(* tailnet's side is one end of a socket pair.                                *)
EXTENDS Relay

MCHangUpSides == {"tailnet"}
=============================================================================
