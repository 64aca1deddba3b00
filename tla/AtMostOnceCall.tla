---------------------------- MODULE AtMostOnceCall ----------------------------
(***************************************************************************)
(* What a round trip of the tailnet HTTP client promises its caller,        *)
(* whatever connections it uses: calls are made one at a time, each ends     *)
(* with an answer or with an error, a call that carries a body is executed   *)
(* by the server at most once and any other at most twice, and an answer     *)
(* proves that the server executed the call.  An error proves nothing: the   *)
(* server may have executed the call, or may still do so.                    *)
(***************************************************************************)
EXTENDS Naturals

CONSTANT Calls      \* the calls made on one client

VARIABLES
    writes,         \* the calls made so far that carry a body (POST, PUT)
    phase,          \* "new", "running", "answered" or "failed"
    executed        \* how often the server executed each call

absVars == <<writes, phase, executed>>

Limit(r) == IF r \in writes THEN 1 ELSE 2

AbsInit ==
    /\ writes = {}
    /\ phase = [r \in Calls |-> "new"]
    /\ executed = [r \in Calls |-> 0]

Start(r) ==
    /\ phase[r] = "new"
    /\ \A q \in Calls : phase[q] # "running"
    /\ phase' = [phase EXCEPT ![r] = "running"]
    /\ writes' \in {writes, writes \cup {r}}
    /\ UNCHANGED executed

Execute(r) ==
    /\ phase[r] # "new"
    /\ executed[r] < Limit(r)
    /\ executed' = [executed EXCEPT ![r] = @ + 1]
    /\ UNCHANGED <<writes, phase>>

Answer(r) ==
    /\ phase[r] = "running"
    /\ executed[r] > 0
    /\ phase' = [phase EXCEPT ![r] = "answered"]
    /\ UNCHANGED <<writes, executed>>

Fail(r) ==
    /\ phase[r] = "running"
    /\ phase' = [phase EXCEPT ![r] = "failed"]
    /\ UNCHANGED <<writes, executed>>

End(r) == Answer(r) \/ Fail(r)

AbsNext == \E r \in Calls : Start(r) \/ Execute(r) \/ End(r)

AbsSpec == AbsInit /\ [][AbsNext]_absVars /\ WF_absVars(\E r \in Calls : End(r))
=============================================================================
