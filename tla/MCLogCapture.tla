----------------------------- MODULE MCLogCapture -----------------------------
(* The instance of LogCapture that TLC checks.                               *)
EXTENDS LogCapture
=============================================================================
