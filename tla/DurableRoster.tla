---------------------------- MODULE DurableRoster ----------------------------
(***************************************************************************)
(* What hubs promise for the rosters of preauth keys and nodes they store:   *)
(* once a key was handed out or a node got its address, every roster stored  *)
(* later has it, whatever fails or restarts in between.  Anything else may   *)
(* come and go: a member that was never acknowledged may be stored or lost.  *)
(***************************************************************************)
CONSTANTS Stores, Items

VARIABLES stored, acked

rosterVars == <<stored, acked>>

RosterInit ==
    /\ stored = [s \in Stores |-> {}]
    /\ acked = [s \in Stores |-> {}]

Store(s) ==
    /\ \E items \in SUBSET Items :
         /\ acked[s] \subseteq items
         /\ stored' = [stored EXCEPT ![s] = items]
    /\ UNCHANGED acked

Acknowledge(s) ==
    /\ \E i \in stored[s] : acked' = [acked EXCEPT ![s] = @ \cup {i}]
    /\ UNCHANGED stored

RosterSpec == RosterInit /\ [][\E s \in Stores : Store(s) \/ Acknowledge(s)]_rosterVars
=============================================================================
