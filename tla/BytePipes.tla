------------------------------ MODULE BytePipes ------------------------------
(***************************************************************************)
(* What a relay between two connections promises the peers at its ends: two  *)
(* pipes, one in each direction.  The units a peer writes are numbered; the  *)
(* other peer reads them in order, each once, none left out, and reads all   *)
(* of them unless something broke that direction.                           *)
(***************************************************************************)
EXTENDS Naturals, Sequences

CONSTANTS
    Ends,           \* the two peers
    Far             \* the one at the other end

VARIABLES
    sent,           \* how many units each peer has written
    got,            \* the units each peer has read
    broken          \* the peers that the pipe may no longer deliver to

pipeVars == <<sent, got, broken>>

PipesInit ==
    /\ sent = [s \in Ends |-> 0]
    /\ got = [s \in Ends |-> <<>>]
    /\ broken = {}

Send(s) ==
    /\ sent' = [sent EXCEPT ![s] = @ + 1]
    /\ UNCHANGED <<got, broken>>

Deliver(s) ==
    /\ Len(got[s]) < sent[Far[s]]
    /\ got' = [got EXCEPT ![s] = Append(@, Len(@) + 1)]
    /\ UNCHANGED <<sent, broken>>

Break ==
    /\ broken' \in {broken \cup b : b \in SUBSET Ends}
    /\ UNCHANGED <<sent, got>>

PipesNext == (\E s \in Ends : Send(s) \/ Deliver(s)) \/ Break

PipesSpec ==
    /\ PipesInit /\ [][PipesNext]_pipeVars
    /\ \A s \in Ends : WF_pipeVars(s \notin broken /\ Deliver(s))
=============================================================================
