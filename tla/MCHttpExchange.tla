--------------------------- MODULE MCHttpExchange ---------------------------
(* Two requests on one client: one opens a connection, the next reuses it   *)
(* and sees what the first left behind.                                     *)
EXTENDS HttpExchange

MCMethods == {"GET", "HEAD", "POST"}
=============================================================================
