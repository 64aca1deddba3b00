----------------------------- MODULE WireboneHub -----------------------------
(***************************************************************************)
(* The hub of a fleet: WireboneBridge, which starts and stops the control    *)
(* plane (wirebone, an external library), and WireboneCatalog, which keeps   *)
(* its roster of preauth keys and nodes in DuckDB: as one JSON snapshot in   *)
(* meta, the copy that a restart reads, and unfolded in the tables           *)
(* preauth_keys and nodes, the copy that users query.                        *)
(*                                                                          *)
(* The bridge's mutex makes its operations exclude each other; it does not   *)
(* keep wirebone's own threads from admitting a node in the middle of one.   *)
(* The control plane hands its roster to PersistToCatalog whenever it        *)
(* changes, and an exception of SaveSnapshot passes through it to whoever    *)
(* asked for the change.  That it makes one change at a time, so that no     *)
(* save begins before the last one ended, is an assumption on wirebone.  The *)
(* process may crash at any moment; a transaction that did not commit leaves *)
(* nothing.                                                                 *)
(***************************************************************************)
EXTENDS Naturals

CONSTANTS
    Stores,         \* databases and attached catalogs a hub may be told to use
    NoStore,        \* con = nullptr
    Keys,           \* preauth keys
    NoKey,          \* the empty string
    Nodes           \* tailnet nodes

ASSUME HubAssumption ==
    /\ NoStore \notin Stores
    /\ NoKey \notin Keys
    /\ Keys \cap Nodes = {}

Items == Keys \cup Nodes

VARIABLES
    coordinator,    \* the bridge has a control plane, which then runs
    con,            \* the store the catalog is connected to
    asked,          \* the store of the WireboneServeConfig of the latest Serve
    roster,         \* the control plane's keys and nodes
    preauth_key,    \* last.preauth_key
    pc,             \* where the operation in progress is; "idle" when there is none
    subject,        \* the key an operation of the bridge adds
    guest,          \* the node that wirebone admits
    resume,         \* where the bridge's operation was when it began to
    save,           \* where SaveSnapshot is
    txn,            \* what its transaction has written: [snapshot, tables]
    snapshot,       \* the committed snapshot of each store
    tables,         \* the committed tables of each store
    acked,          \* keys returned by a call and nodes admitted, per store (history)
    used,           \* keys and nodes ever made, with the store they were made for (history)
    misread         \* stores whose roster LoadSnapshot took for a missing one (history)

admission == <<guest, resume>>
processVars == <<coordinator, con, asked, roster, preauth_key, pc, subject, admission>>
saveVars == <<save, txn>>
storeVars == <<snapshot, tables>>
history == <<acked, used, misread>>
vars == <<processVars, saveVars, storeVars, history>>

NoTxn == [snapshot |-> {}, tables |-> {}]
NoItem == NoKey

Init ==
    /\ coordinator = FALSE
    /\ con = NoStore
    /\ asked = NoStore
    /\ roster = {}
    /\ preauth_key = NoKey
    /\ pc = "idle"
    /\ subject = NoItem /\ guest = NoItem /\ resume = "idle"
    /\ save = "none"
    /\ txn = NoTxn
    /\ snapshot = [s \in Stores |-> {}]
    /\ tables = [s \in Stores |-> {}]
    /\ acked = [s \in Stores |-> {}]
    /\ used = [s \in Stores |-> {}]
    /\ misread = {}

Fresh(i) == \A s \in Stores : i \notin used[s]

-----------------------------------------------------------------------------
(* Mutant: a catalog that is still open is used again.                      *)
ServeOnOpenCatalog(s) ==
    /\ pc = "idle" /\ ~coordinator
    /\ asked' = s
    /\ con' = IF con = NoStore THEN s ELSE con
    /\ pc' = "schema"
    /\ UNCHANGED <<coordinator, roster, preauth_key, subject, admission, saveVars, storeVars, history>>

(* Serve, until the control plane has its roster.                           *)
Serve(s) ==
    /\ pc = "idle" /\ ~coordinator
    /\ asked' = s
    /\ con' = s
    /\ pc' = "schema"
    /\ UNCHANGED <<coordinator, roster, preauth_key, subject, admission, saveVars, storeVars, history>>

(* EnsureSchema throws and leaves the catalog open, wirebone_create closes  *)
(* it; otherwise there is a control plane without a roster.                 *)
ServeCreate ==
    /\ pc = "schema"
    /\ \/ pc' = "idle" /\ UNCHANGED con
       \/ pc' = "idle" /\ con' = NoStore
       \/ pc' = "load" /\ UNCHANGED con
    /\ roster' = {}
    /\ UNCHANGED <<coordinator, asked, preauth_key, subject, admission, saveVars, storeVars, history>>

(* Mutant: the snapshot is not imported.                                    *)
IgnoreSnapshot ==
    /\ pc = "load"
    /\ roster' = {}
    /\ pc' = "serve_persist"
    /\ UNCHANGED <<coordinator, con, asked, preauth_key, subject, admission, saveVars, storeVars, history>>

(* LoadSnapshot; without a snapshot the control plane starts with a new     *)
(* roster, and a query that fails is taken for a missing snapshot.          *)
LoadSnapshot ==
    /\ pc = "load"
    /\ \/ roster' = snapshot[con] /\ UNCHANGED misread
       \/ snapshot[con] # {} /\ roster' = {} /\ misread' = misread \cup {con}
    /\ pc' = "serve_persist"
    /\ UNCHANGED <<coordinator, con, asked, preauth_key, subject, admission, saveVars, storeVars, acked, used>>

(* wirebone_import_state or wirebone_start fails: destroy and Close.        *)
ServeFails ==
    /\ pc \in {"load", "start"}
    /\ roster' = {}
    /\ con' = NoStore
    /\ pc' = "idle"
    /\ UNCHANGED <<coordinator, asked, preauth_key, subject, admission, saveVars, storeVars, history>>

(* Mutant: the key of the hub before stays when there is no bootstrap key.  *)
ServeKeepsKey ==
    /\ pc = "start"
    /\ coordinator' = TRUE
    /\ \/ \E k \in roster \cap Keys : preauth_key' = k /\ pc' = "idle"
       \/ roster \cap Keys = {} /\ UNCHANGED preauth_key /\ pc' = "bootstrap"
    /\ UNCHANGED <<con, asked, roster, subject, admission, saveVars, storeVars, history>>

(* wirebone_start; then the bootstrap key is one of the roster, or it has   *)
(* to be made.                                                              *)
ServeStart ==
    /\ pc = "start"
    /\ coordinator' = TRUE
    /\ \/ \E k \in roster \cap Keys : preauth_key' = k /\ pc' = "idle"
       \/ roster \cap Keys = {} /\ preauth_key' = NoKey /\ pc' = "bootstrap"
    /\ UNCHANGED <<con, asked, roster, subject, admission, saveVars, storeVars, history>>

-----------------------------------------------------------------------------
(* A key or a node enters the roster.                                       *)
Enroll(i) ==
    /\ Fresh(i)
    /\ roster' = roster \cup {i}
    /\ used' = [used EXCEPT ![asked] = @ \cup {i}]
    /\ UNCHANGED <<coordinator, con, asked, preauth_key, saveVars, storeVars, acked, misread>>

(* The control plane makes a key, for Serve or for CreatePreauthKey, and     *)
(* persists its roster.                                                     *)
MakeKey(k) ==
    /\ Enroll(k)
    /\ subject' = k
    /\ pc' = "key_persist"
    /\ UNCHANGED admission

BootstrapKey(k) == pc = "bootstrap" /\ MakeKey(k)
CreatePreauthKey(k) == pc = "idle" /\ coordinator /\ MakeKey(k)

(* The caller has the key.                                                  *)
Acknowledge ==
    /\ pc = "key"
    /\ acked' = [acked EXCEPT ![asked] = @ \cup {subject}]
    /\ preauth_key' = IF preauth_key = NoKey THEN subject ELSE preauth_key
    /\ subject' = NoItem
    /\ pc' = "idle"
    /\ UNCHANGED <<coordinator, con, asked, roster, admission, saveVars, storeVars, used, misread>>

(* A thread of wirebone's admits a node, whatever the bridge does meanwhile,  *)
(* and persists the roster; then the node has its address.                   *)
AdmitNode(n) ==
    /\ coordinator
    /\ pc \in {"idle", "bootstrap", "key", "destroy"}
    /\ Enroll(n)
    /\ guest' = n
    /\ resume' = pc
    /\ pc' = "node_persist"
    /\ UNCHANGED subject

Welcome ==
    /\ pc = "node"
    /\ acked' = [acked EXCEPT ![asked] = @ \cup {guest}]
    /\ guest' = NoItem
    /\ pc' = resume
    /\ resume' = "idle"
    /\ UNCHANGED <<coordinator, con, asked, roster, preauth_key, subject, saveVars, storeVars, used, misread>>

-----------------------------------------------------------------------------
(* Stop: persist, then stop and destroy the control plane, then Close.      *)
Stop ==
    /\ pc = "idle" /\ coordinator
    /\ pc' = "stop_persist"
    /\ UNCHANGED <<coordinator, con, asked, roster, preauth_key, subject, admission, saveVars, storeVars, history>>

StopDestroy ==
    /\ pc = "destroy"
    /\ coordinator' = FALSE
    /\ roster' = {}
    /\ con' = NoStore
    /\ pc' = "idle"
    /\ UNCHANGED <<asked, preauth_key, subject, admission, saveVars, storeVars, history>>

-----------------------------------------------------------------------------
(* SaveSnapshot.                                                            *)
Persisting == pc \in {"serve_persist", "key_persist", "node_persist", "stop_persist"}

SaveBegin ==
    /\ Persisting /\ save = "none"
    /\ save' = "meta"
    /\ txn' = [snapshot |-> snapshot[con], tables |-> tables[con]]
    /\ UNCHANGED <<processVars, storeVars, history>>

(* Mutant: no transaction was begun, each statement commits by itself.      *)
SaveMetaAlone ==
    /\ save = "meta"
    /\ snapshot' = [snapshot EXCEPT ![con] = roster]
    /\ txn' = [txn EXCEPT !.snapshot = roster]
    /\ save' = "tables"
    /\ UNCHANGED <<processVars, tables, history>>

SaveMeta ==
    /\ save = "meta"
    /\ txn' = [txn EXCEPT !.snapshot = roster]
    /\ save' = "tables"
    /\ UNCHANGED <<processVars, storeVars, history>>

(* DELETE and INSERT, first for the keys and then for the nodes.            *)
SaveKeys ==
    /\ save = "tables"
    /\ txn' = [txn EXCEPT !.tables = (roster \cap Keys) \cup (@ \cap Nodes)]
    /\ save' = "nodes"
    /\ UNCHANGED <<processVars, storeVars, history>>

SaveNodes ==
    /\ save = "nodes"
    /\ txn' = [txn EXCEPT !.tables = (roster \cap Nodes) \cup (@ \cap Keys)]
    /\ save' = "commit"
    /\ UNCHANGED <<processVars, storeVars, history>>

AfterSave == [serve_persist |-> "start", key_persist |-> "key", node_persist |-> "node", stop_persist |-> "destroy"]

SaveCommit ==
    /\ save = "commit"
    /\ snapshot' = [snapshot EXCEPT ![con] = txn.snapshot]
    /\ tables' = [tables EXCEPT ![con] = txn.tables]
    /\ save' = "none"
    /\ txn' = NoTxn
    /\ pc' = AfterSave[pc]
    /\ UNCHANGED <<coordinator, con, asked, roster, preauth_key, subject, admission, history>>

(* Mutant: the exception of SaveSnapshot is swallowed on its way out.       *)
SaveFailsSilently ==
    /\ save # "none"
    /\ save' = "none"
    /\ txn' = NoTxn
    /\ pc' = AfterSave[pc]
    /\ UNCHANGED <<coordinator, con, asked, roster, preauth_key, subject, admission, storeVars, history>>

(* A statement fails, for instance because another transaction touched the  *)
(* same rows: ROLLBACK, and the operation that asked for it throws, or the   *)
(* node is not admitted and the bridge's operation goes on.                  *)
SaveFails ==
    /\ save # "none"
    /\ save' = "none"
    /\ txn' = NoTxn
    /\ roster' = IF pc = "serve_persist" THEN {} ELSE roster
    /\ IF pc = "node_persist"
       THEN pc' = resume /\ UNCHANGED subject
       ELSE pc' = "idle" /\ subject' = NoItem
    /\ guest' = NoItem
    /\ resume' = "idle"
    /\ UNCHANGED <<coordinator, con, asked, preauth_key, storeVars, history>>

-----------------------------------------------------------------------------
Crash ==
    /\ coordinator' = FALSE
    /\ con' = NoStore
    /\ asked' = NoStore
    /\ roster' = {}
    /\ preauth_key' = NoKey
    /\ pc' = "idle"
    /\ subject' = NoItem /\ guest' = NoItem /\ resume' = "idle"
    /\ save' = "none"
    /\ txn' = NoTxn
    /\ UNCHANGED <<storeVars, history>>

Step ==
    \/ ServeCreate \/ LoadSnapshot \/ ServeFails \/ ServeStart
    \/ \E k \in Keys : BootstrapKey(k)
    \/ Acknowledge \/ Welcome \/ StopDestroy
    \/ SaveBegin \/ SaveMeta \/ SaveKeys \/ SaveNodes \/ SaveCommit \/ SaveFails

Next ==
    \/ \E s \in Stores : Serve(s)
    \/ \E k \in Keys : CreatePreauthKey(k)
    \/ \E n \in Nodes : AdmitNode(n)
    \/ Stop
    \/ Step
    \/ Crash

Spec == Init /\ [][Next]_vars

-----------------------------------------------------------------------------
TypeOK ==
    /\ coordinator \in BOOLEAN
    /\ {con, asked} \subseteq Stores \cup {NoStore}
    /\ coordinator \/ pc # "idle" => con # NoStore
    /\ roster \subseteq Items
    /\ preauth_key \in Keys \cup {NoKey}
    /\ pc \in {"idle", "schema", "load", "serve_persist", "start", "bootstrap", "key_persist", "key",
               "node_persist", "node", "stop_persist", "destroy"}
    /\ subject \in Keys \cup {NoItem} /\ guest \in Nodes \cup {NoItem}
    /\ resume \in {"idle", "bootstrap", "key", "destroy"}
    /\ save \in {"none", "meta", "tables", "nodes", "commit"}
    /\ txn \in [snapshot : SUBSET Items, tables : SUBSET Items]
    /\ snapshot \in [Stores -> SUBSET Items]
    /\ tables \in [Stores -> SUBSET Items]
    /\ acked \in [Stores -> SUBSET Items]
    /\ used \in [Stores -> SUBSET Items]
    /\ misread \subseteq Stores

(* The two copies of the roster agree whenever somebody can look: the       *)
(* snapshot a restart will load and the tables users query, across failing  *)
(* statements and crashes in the middle of SaveSnapshot.                    *)
TablesMatchSnapshot == \A s \in Stores : tables[s] = snapshot[s]

(* A key handed out and a node admitted are in the stored roster, whatever   *)
(* failed or crashed since -- a failed save, a failed Serve, a restart --    *)
(* as long as LoadSnapshot could always read what was stored.               *)
AckedSurvivesReads == \A s \in Stores \ misread : acked[s] \subseteq snapshot[s]

(* AUTHENTICATION.md: "Preauth keys and node IPs persist".                  *)
AckedSurvives == \A s \in Stores : acked[s] \subseteq snapshot[s]

(* A store holds only what hubs serving from it made: the one catalog of     *)
(* the bridge, reopened for another store after a stop or a failed Serve,    *)
(* never carries a roster over.                                             *)
StoresSeparate == \A s \in Stores : snapshot[s] \cup tables[s] \subseteq used[s]

(* The key that quackscale_status and quackscale_hub show is one that the   *)
(* running control plane knows, not one of a hub stopped before.            *)
AdvertisedKeyIsKnown ==
    coordinator /\ pc = "idle" /\ preauth_key # NoKey => preauth_key \in roster

(* The stores implement the durable roster, up to the moment at which       *)
(* LoadSnapshot takes one for empty; nothing is asked of that one any more.  *)
Rosters == INSTANCE DurableRoster WITH
    stored <- [s \in Stores |-> IF s \in misread THEN Items ELSE snapshot[s]]

ImplementsDurableRoster == Rosters!RosterSpec
=============================================================================
