-------------------------- MODULE WireboneHub_proofs --------------------------
(* Proofs about WireboneHub for any sets of stores, keys and nodes.         *)
EXTENDS WireboneHub, TLAPS

(* The hub has a roster that it persists: it runs, or Serve has loaded it.  *)
HasRoster == coordinator \/ pc \in {"serve_persist", "start"}

(* Where an operation is says which parts of the bridge are in place.       *)
Control ==
    /\ pc \in {"schema", "load", "serve_persist", "start"} => ~coordinator
    /\ pc \notin {"idle", "schema", "load", "serve_persist", "start"} => coordinator
    /\ pc \notin {"node_persist", "node"} => resume = "idle"
    /\ coordinator \/ pc # "idle" => con \in Stores /\ asked = con
    /\ save # "none" => Persisting

(* What the transaction has written is the roster, as far as it has come.   *)
Transaction ==
    /\ save \in {"tables", "nodes", "commit"} => txn.snapshot = roster
    /\ save = "nodes" => txn.tables \cap Keys = roster \cap Keys
    /\ save = "commit" => txn.tables = roster

(* The roster has what was acknowledged, and nothing from another store.    *)
Roster ==
    HasRoster =>
        /\ con \notin misread => acked[con] \subseteq roster
        /\ roster \subseteq used[con]

(* The key of the bridge's operation, and the node that wirebone admits, are  *)
(* on their way to the caller; an admission leaves the key where it was.      *)
Subject ==
    /\ pc \in {"key_persist", "key"} \/ resume = "key" => subject \in roster \cap Keys
    /\ pc = "key" \/ resume = "key" => subject \in snapshot[con]
    /\ pc \in {"node_persist", "node"} => guest \in roster
    /\ pc = "node" => guest \in snapshot[con]

KeyKnown == coordinator /\ preauth_key # NoKey => preauth_key \in roster

IInv ==
    /\ TypeOK
    /\ Control
    /\ Transaction
    /\ Roster
    /\ Subject
    /\ KeyKnown
    /\ TablesMatchSnapshot
    /\ AckedSurvivesReads
    /\ StoresSeparate

-----------------------------------------------------------------------------
LEMMA Initially == Init => IInv
<1> SUFFICES ASSUME Init PROVE IInv
  OBVIOUS
<1>1. TypeOK
  BY HubAssumption DEF Init, TypeOK, NoTxn, NoItem, Items
<1>2. Control /\ Transaction /\ Roster /\ Subject /\ KeyKnown
  BY HubAssumption DEF Init, Control, Transaction, Roster, HasRoster, Subject, KeyKnown
<1>3. TablesMatchSnapshot /\ AckedSurvivesReads /\ StoresSeparate
  BY DEF Init, TablesMatchSnapshot, AckedSurvivesReads, StoresSeparate
<1> QED
  BY <1>1, <1>2, <1>3 DEF IInv

LEMMA ServePreserves == ASSUME IInv, NEW s \in Stores, Serve(s) PROVE IInv'
BY HubAssumption
   DEF Serve, IInv, TypeOK, Control, Transaction, Roster, HasRoster, Subject, KeyKnown, TablesMatchSnapshot,
       AckedSurvivesReads, StoresSeparate, Persisting, Items, NoItem, NoTxn, admission, saveVars, storeVars, history

LEMMA ServeCreatePreserves == ASSUME IInv, ServeCreate PROVE IInv'
BY HubAssumption
   DEF ServeCreate, IInv, TypeOK, Control, Transaction, Roster, HasRoster, Subject, KeyKnown, TablesMatchSnapshot,
       AckedSurvivesReads, StoresSeparate, Persisting, Items, NoItem, NoTxn, admission, saveVars, storeVars, history

LEMMA LoadSnapshotPreserves == ASSUME IInv, LoadSnapshot PROVE IInv'
BY HubAssumption
   DEF LoadSnapshot, IInv, TypeOK, Control, Transaction, Roster, HasRoster, Subject, KeyKnown, TablesMatchSnapshot,
       AckedSurvivesReads, StoresSeparate, Persisting, Items, NoItem, NoTxn, admission, saveVars, storeVars, history

LEMMA ServeFailsPreserves == ASSUME IInv, ServeFails PROVE IInv'
BY HubAssumption
   DEF ServeFails, IInv, TypeOK, Control, Transaction, Roster, HasRoster, Subject, KeyKnown, TablesMatchSnapshot,
       AckedSurvivesReads, StoresSeparate, Persisting, Items, NoItem, NoTxn, admission, saveVars, storeVars, history

LEMMA ServeStartPreserves == ASSUME IInv, ServeStart PROVE IInv'
BY HubAssumption
   DEF ServeStart, IInv, TypeOK, Control, Transaction, Roster, HasRoster, Subject, KeyKnown, TablesMatchSnapshot,
       AckedSurvivesReads, StoresSeparate, Persisting, Items, NoItem, NoTxn, admission, saveVars, storeVars, history

LEMMA BootstrapKeyPreserves == ASSUME IInv, NEW k \in Keys, BootstrapKey(k) PROVE IInv'
BY HubAssumption
   DEF BootstrapKey, MakeKey, Enroll, Fresh, IInv, TypeOK, Control, Transaction, Roster, HasRoster, Subject, KeyKnown, TablesMatchSnapshot,
       AckedSurvivesReads, StoresSeparate, Persisting, Items, NoItem, NoTxn, processVars, admission, saveVars, storeVars, history

LEMMA CreatePreauthKeyPreserves == ASSUME IInv, NEW k \in Keys, CreatePreauthKey(k) PROVE IInv'
BY HubAssumption
   DEF CreatePreauthKey, MakeKey, Enroll, Fresh, IInv, TypeOK, Control, Transaction, Roster, HasRoster, Subject, KeyKnown, TablesMatchSnapshot,
       AckedSurvivesReads, StoresSeparate, Persisting, Items, NoItem, NoTxn, processVars, admission, saveVars, storeVars, history

LEMMA AdmitNodePreserves == ASSUME IInv, NEW n \in Nodes, AdmitNode(n) PROVE IInv'
BY HubAssumption
   DEF AdmitNode, Enroll, Fresh, IInv, TypeOK, Control, Transaction, Roster, HasRoster, Subject, KeyKnown, TablesMatchSnapshot,
       AckedSurvivesReads, StoresSeparate, Persisting, Items, NoItem, NoTxn, processVars, admission, saveVars, storeVars, history

LEMMA AcknowledgePreserves == ASSUME IInv, Acknowledge PROVE IInv'
BY HubAssumption
   DEF Acknowledge, IInv, TypeOK, Control, Transaction, Roster, HasRoster, Subject, KeyKnown, TablesMatchSnapshot,
       AckedSurvivesReads, StoresSeparate, Persisting, Items, NoItem, NoTxn, processVars, admission, saveVars, storeVars, history

LEMMA WelcomePreserves == ASSUME IInv, Welcome PROVE IInv'
BY HubAssumption
   DEF Welcome, IInv, TypeOK, Control, Transaction, Roster, HasRoster, Subject, KeyKnown, TablesMatchSnapshot,
       AckedSurvivesReads, StoresSeparate, Persisting, Items, NoItem, NoTxn, processVars, admission, saveVars, storeVars, history

LEMMA StopPreserves == ASSUME IInv, Stop PROVE IInv'
BY HubAssumption
   DEF Stop, IInv, TypeOK, Control, Transaction, Roster, HasRoster, Subject, KeyKnown, TablesMatchSnapshot,
       AckedSurvivesReads, StoresSeparate, Persisting, Items, NoItem, NoTxn, processVars, admission, saveVars, storeVars, history

LEMMA StopDestroyPreserves == ASSUME IInv, StopDestroy PROVE IInv'
BY HubAssumption
   DEF StopDestroy, IInv, TypeOK, Control, Transaction, Roster, HasRoster, Subject, KeyKnown, TablesMatchSnapshot,
       AckedSurvivesReads, StoresSeparate, Persisting, Items, NoItem, NoTxn, processVars, admission, saveVars, storeVars, history

LEMMA SaveBeginPreserves == ASSUME IInv, SaveBegin PROVE IInv'
BY HubAssumption
   DEF SaveBegin, IInv, TypeOK, Control, Transaction, Roster, HasRoster, Subject, KeyKnown, TablesMatchSnapshot,
       AckedSurvivesReads, StoresSeparate, Persisting, Items, NoItem, NoTxn, processVars, admission, saveVars, storeVars, history

LEMMA SaveMetaPreserves == ASSUME IInv, SaveMeta PROVE IInv'
BY HubAssumption
   DEF SaveMeta, IInv, TypeOK, Control, Transaction, Roster, HasRoster, Subject, KeyKnown, TablesMatchSnapshot,
       AckedSurvivesReads, StoresSeparate, Persisting, Items, NoItem, NoTxn, processVars, admission, saveVars, storeVars, history

LEMMA SaveKeysPreserves == ASSUME IInv, SaveKeys PROVE IInv'
BY HubAssumption
   DEF SaveKeys, IInv, TypeOK, Control, Transaction, Roster, HasRoster, Subject, KeyKnown, TablesMatchSnapshot,
       AckedSurvivesReads, StoresSeparate, Persisting, Items, NoItem, NoTxn, processVars, admission, saveVars, storeVars, history

LEMMA SaveNodesPreserves == ASSUME IInv, SaveNodes PROVE IInv'
BY HubAssumption
   DEF SaveNodes, IInv, TypeOK, Control, Transaction, Roster, HasRoster, Subject, KeyKnown, TablesMatchSnapshot,
       AckedSurvivesReads, StoresSeparate, Persisting, Items, NoItem, NoTxn, processVars, admission, saveVars, storeVars, history

LEMMA SaveCommitPreserves == ASSUME IInv, SaveCommit PROVE IInv'
BY HubAssumption
   DEF SaveCommit, AfterSave, IInv, TypeOK, Control, Transaction, Roster, HasRoster, Subject, KeyKnown, TablesMatchSnapshot,
       AckedSurvivesReads, StoresSeparate, Persisting, Items, NoItem, NoTxn, processVars, admission, saveVars, storeVars, history

LEMMA SaveFailsPreserves == ASSUME IInv, SaveFails PROVE IInv'
BY HubAssumption
   DEF SaveFails, IInv, TypeOK, Control, Transaction, Roster, HasRoster, Subject, KeyKnown, TablesMatchSnapshot,
       AckedSurvivesReads, StoresSeparate, Persisting, Items, NoItem, NoTxn, processVars, admission, saveVars, storeVars, history

LEMMA CrashPreserves == ASSUME IInv, Crash PROVE IInv'
BY HubAssumption
   DEF Crash, IInv, TypeOK, Control, Transaction, Roster, HasRoster, Subject, KeyKnown, TablesMatchSnapshot,
       AckedSurvivesReads, StoresSeparate, Persisting, Items, NoItem, NoTxn, processVars, admission, saveVars, storeVars, history

LEMMA StutterPreserves == ASSUME IInv, UNCHANGED vars PROVE IInv'
BY DEF vars, IInv, TypeOK, Control, Transaction, Roster, HasRoster, Subject, KeyKnown, TablesMatchSnapshot,
       AckedSurvivesReads, StoresSeparate, Persisting, Items, NoItem, processVars, admission, saveVars, storeVars, history

(* Control, Transaction, Roster, Subject and KeyKnown are what makes the    *)
(* properties inductive.                                                    *)
THEOREM Invariance == Spec => []IInv
<1>1. IInv /\ [Next]_vars => IInv'
  <2> SUFFICES ASSUME IInv, [Next]_vars PROVE IInv'
    OBVIOUS
  <2>1. ASSUME NEW s \in Stores, Serve(s) PROVE IInv'
    BY <2>1, ServePreserves
  <2>2. ASSUME NEW k \in Keys, CreatePreauthKey(k) \/ BootstrapKey(k) PROVE IInv'
    BY <2>2, CreatePreauthKeyPreserves, BootstrapKeyPreserves
  <2>3. ASSUME NEW n \in Nodes, AdmitNode(n) PROVE IInv'
    BY <2>3, AdmitNodePreserves
  <2>4. CASE Stop \/ StopDestroy \/ Acknowledge \/ Welcome \/ Crash
    BY <2>4, StopPreserves, StopDestroyPreserves, AcknowledgePreserves, WelcomePreserves, CrashPreserves
  <2>5. CASE ServeCreate \/ LoadSnapshot \/ ServeFails \/ ServeStart
    BY <2>5, ServeCreatePreserves, LoadSnapshotPreserves, ServeFailsPreserves, ServeStartPreserves
  <2>6. CASE SaveBegin \/ SaveMeta \/ SaveKeys \/ SaveNodes \/ SaveCommit \/ SaveFails
    BY <2>6, SaveBeginPreserves, SaveMetaPreserves, SaveKeysPreserves, SaveNodesPreserves,
       SaveCommitPreserves, SaveFailsPreserves
  <2>7. CASE UNCHANGED vars
    BY <2>7, StutterPreserves
  <2> QED
    BY <2>1, <2>2, <2>3, <2>4, <2>5, <2>6, <2>7 DEF Next, Step
<1> QED
  BY Initially, <1>1, PTL DEF Spec

(* Every variable has its type; a hub that serves has its store open.       *)
THEOREM TypeCorrect == Spec => []TypeOK
<1>1. IInv => TypeOK
  BY DEF IInv
<1> QED
  BY Invariance, <1>1, PTL

(* The snapshot a restart loads and the tables users query never differ,    *)
(* whichever statement of SaveSnapshot fails.                               *)
THEOREM RosterCopiesAgree == Spec => []TablesMatchSnapshot
<1>1. IInv => TablesMatchSnapshot
  BY DEF IInv
<1> QED
  BY Invariance, <1>1, PTL

(* A key handed out is in the stored roster from then on, unless the query   *)
(* of LoadSnapshot failed on it.                                            *)
THEOREM AcknowledgedIsStored == Spec => []AckedSurvivesReads
<1>1. IInv => AckedSurvivesReads
  BY DEF IInv
<1> QED
  BY Invariance, <1>1, PTL

(* The bridge never carries the roster of one store over to another.        *)
THEOREM RostersStaySeparate == Spec => []StoresSeparate
<1>1. IInv => StoresSeparate
  BY DEF IInv
<1> QED
  BY Invariance, <1>1, PTL

(* The key that quackscale_status shows is one the control plane knows.     *)
THEOREM KeyShownIsValid == Spec => []AdvertisedKeyIsKnown
<1>1. IInv => AdvertisedKeyIsKnown
  BY DEF IInv, KeyKnown, AdvertisedKeyIsKnown
<1> QED
  BY Invariance, <1>1, PTL

-----------------------------------------------------------------------------
(* Every step is a step of the durable roster, on the store that the hub     *)
(* serves from, or leaves it alone.                                         *)
Stored == [s \in Stores |-> IF s \in misread THEN Items ELSE snapshot[s]]

LEMMA SameRosters ==
    ASSUME UNCHANGED <<snapshot, misread, acked>>
    PROVE  UNCHANGED <<Stored, acked>>
BY DEF Stored

LEMMA StoreStep ==
    ASSUME IInv, SaveCommit
    PROVE  Rosters!Store(con) \/ UNCHANGED <<Stored, acked>>
<1> DEFINE items == snapshot'[con]
<1>1. con \in Stores /\ snapshot' = [snapshot EXCEPT ![con] = roster] /\ UNCHANGED <<misread, acked>>
  BY DEF SaveCommit, IInv, Control, Transaction, Persisting, history
<1>2. CASE con \in misread
  <2>1. Stored' = Stored
    BY <1>1, <1>2 DEF Stored, IInv, TypeOK
  <2> QED
    BY <2>1, <1>1
<1>3. CASE con \notin misread
  <2>1. acked[con] \subseteq roster /\ roster \in SUBSET Items
    BY <1>3 DEF IInv, Roster, HasRoster, Control, Persisting, SaveCommit, TypeOK
  <2>2. Stored' = [Stored EXCEPT ![con] = roster]
    BY <1>1, <1>3 DEF Stored, IInv, TypeOK
  <2> QED
    BY <2>1, <2>2, <1>1 DEF Rosters!Store, Stored
<1> QED
  BY <1>2, <1>3

LEMMA MisreadStep ==
    ASSUME IInv, LoadSnapshot
    PROVE  Rosters!Store(con) \/ UNCHANGED <<Stored, acked>>
<1>1. con \in Stores /\ UNCHANGED <<snapshot, acked>> /\ misread' \in {misread, misread \cup {con}}
  BY DEF LoadSnapshot, IInv, Control, storeVars
<1>2. CASE misread' = misread
  BY <1>1, <1>2, SameRosters
<1>3. CASE misread' = misread \cup {con}
  <2>1. Stored' = [Stored EXCEPT ![con] = Items]
    BY <1>1, <1>3 DEF Stored, Items
  <2>2. acked[con] \subseteq Items
    BY <1>1 DEF IInv, TypeOK
  <2> QED
    BY <2>1, <2>2, <1>1 DEF Rosters!Store, Stored
<1> QED
  BY <1>1, <1>2, <1>3

LEMMA AcknowledgeStep ==
    ASSUME IInv, Acknowledge \/ Welcome
    PROVE  Rosters!Acknowledge(con)
<1>1. /\ con \in Stores /\ asked = con /\ UNCHANGED <<snapshot, misread>>
      /\ \E i \in snapshot[con] : acked' = [acked EXCEPT ![con] = @ \cup {i}]
  BY DEF Acknowledge, Welcome, IInv, Control, Subject, storeVars
<1>2. PICK i \in snapshot[con] : acked' = [acked EXCEPT ![con] = @ \cup {i}]
  BY <1>1
<1>3. i \in Stored[con]
  BY <1>1, <1>2 DEF Stored, IInv, TypeOK
<1>4. Stored' = Stored
  BY <1>1 DEF Stored
<1> QED
  BY <1>2, <1>3, <1>4 DEF Rosters!Acknowledge, Stored

(* The stores implement the durable roster.                                 *)
THEOREM Refinement == Spec => ImplementsDurableRoster
<1>1. Init => Rosters!RosterInit
  BY DEF Init, Rosters!RosterInit
<1>2. IInv /\ [Next]_vars => [\E s \in Stores : Rosters!Store(s) \/ Rosters!Acknowledge(s)]_Rosters!rosterVars
  <2> SUFFICES ASSUME IInv, [Next]_vars
               PROVE  (\E s \in Stores : Rosters!Store(s) \/ Rosters!Acknowledge(s)) \/ UNCHANGED <<Stored, acked>>
    BY DEF Rosters!rosterVars, Stored
  <2>1. CASE SaveCommit
    <3>1. con \in Stores
      BY <2>1 DEF SaveCommit, IInv, Control, Persisting
    <3>2. Rosters!Store(con) \/ UNCHANGED <<Stored, acked>>
      BY <2>1, StoreStep
    <3>3. CASE Rosters!Store(con)
      BY <3>1, <3>3 DEF Rosters!Store
    <3> QED
      BY <3>2, <3>3
  <2>2. CASE LoadSnapshot
    <3>1. con \in Stores
      BY <2>2 DEF LoadSnapshot, IInv, Control
    <3>2. Rosters!Store(con) \/ UNCHANGED <<Stored, acked>>
      BY <2>2, MisreadStep
    <3>3. CASE Rosters!Store(con)
      BY <3>1, <3>3 DEF Rosters!Store
    <3> QED
      BY <3>2, <3>3
  <2>3. CASE Acknowledge \/ Welcome
    <3>1. con \in Stores
      BY <2>3 DEF Acknowledge, Welcome, IInv, Control
    <3> QED
      BY <2>3, <3>1, AcknowledgeStep
  <2>4. CASE UNCHANGED <<snapshot, misread, acked>>
    BY <2>4, SameRosters
  <2>5. SaveCommit \/ LoadSnapshot \/ Acknowledge \/ Welcome \/ UNCHANGED <<snapshot, misread, acked>>
    BY DEF Next, Step, Serve, ServeCreate, ServeFails, ServeStart, BootstrapKey, CreatePreauthKey, AdmitNode, MakeKey, Enroll,
           Stop, StopDestroy, SaveBegin, SaveMeta, SaveKeys, SaveNodes, SaveFails, Crash,
           vars, processVars, admission, saveVars, storeVars, history
  <2> QED
    BY <2>1, <2>2, <2>3, <2>4, <2>5
<1> QED
  BY <1>1, <1>2, Invariance, PTL DEF Spec, ImplementsDurableRoster, Rosters!RosterSpec

=============================================================================
