------------------------------- MODULE Ducklake -------------------------------
(***************************************************************************)
(* attach_ducklake(quack_uri, remote_catalog, alias): asks a remote server   *)
(* for its tables and makes one local view for each, in a schema named       *)
(* alias.  Every statement is a query of its own on a new connection: there  *)
(* is no transaction around them, any of them may fail, and sessions may     *)
(* attach to the same alias at the same time.                               *)
(*                                                                          *)
(* The function keeps its progress in its bind data, which a prepared        *)
(* statement keeps when it is executed again.  The remote catalog is         *)
(* external: its tables come and go.  The listing has the tables of every    *)
(* schema of the remote database, by name: a name may come more than once,   *)
(* and then the same view is made more than once.  Names that differ only in *)
(* case, which name one view, are one table here; their order is left open.  *)
(***************************************************************************)
EXTENDS Naturals, Sequences

CONSTANTS
    Sessions,       \* each executes one prepared statement at a time
    Remotes,        \* what a quack_uri and a remote_catalog lead to
    NoRemote,       \* there is no such view
    Aliases,
    Tables,         \* the names of the tables of the remote catalogs
    OddNames,       \* those that are not identifiers
    MaxListed,      \* bound on the rows of a listing
    VectorSize,     \* STANDARD_VECTOR_SIZE
    MaxRuns         \* bound on the executions of one prepared statement

ASSUME DucklakeAssumption ==
    /\ NoRemote \notin Remotes
    /\ OddNames \subseteq Tables
    /\ MaxListed \in Nat /\ VectorSize \in Nat /\ MaxRuns \in Nat

Listings == UNION {[1 .. n -> Tables] : n \in 0 .. MaxListed}

VARIABLES
    schemas,        \* the aliases that exist as schemas
    views,          \* what each view reads from
    at,             \* where each session is
    uri, alias,     \* the bind data: the arguments
    created_views,  \*            ... what was pushed so far
    finished,       \*            ... the flag
    tables,         \* the listing, kept when the execution is over (history)
    row_count,      \* the rows of the listing that the loop has passed
    rows,           \* the rows the execution returned
    runs,           \* how often the statement was executed
    contested,      \* sessions whose alias another one attached to meanwhile (history)
    overrun         \* rows were written past the end of the chunk

bindVars == <<uri, alias>>
vars == <<schemas, views, at, bindVars, created_views, finished, tables, row_count, rows, runs, contested, overrun>>

Init ==
    /\ schemas = {}
    /\ views = [a \in Aliases |-> [t \in Tables |-> NoRemote]]
    /\ at = [s \in Sessions |-> "idle"]
    /\ uri \in [Sessions -> Remotes]
    /\ alias \in [Sessions -> Aliases]
    /\ created_views = [s \in Sessions |-> <<>>]
    /\ finished = [s \in Sessions |-> FALSE]
    /\ tables = [s \in Sessions |-> <<>>]
    /\ row_count = [s \in Sessions |-> 0]
    /\ rows = [s \in Sessions |-> <<>>]
    /\ runs = [s \in Sessions |-> 0]
    /\ contested = {}
    /\ overrun = FALSE

Running(s) == at[s] # "idle"

-----------------------------------------------------------------------------
(* RemoteLakeAttachBind: a new statement.                                   *)
Bind(s) ==
    /\ ~Running(s)
    /\ \E r \in Remotes : uri' = [uri EXCEPT ![s] = r]
    /\ \E a \in Aliases : alias' = [alias EXCEPT ![s] = a]
    /\ created_views' = [created_views EXCEPT ![s] = <<>>]
    /\ finished' = [finished EXCEPT ![s] = FALSE]
    /\ tables' = [tables EXCEPT ![s] = <<>>]
    /\ rows' = [rows EXCEPT ![s] = <<>>]
    /\ runs' = [runs EXCEPT ![s] = 0]
    /\ UNCHANGED <<schemas, views, at, row_count, contested, overrun>>

(* RemoteLakeAttachFunction: nothing when the statement has finished, and    *)
(* otherwise EnsureQuackLoaded, which may throw.                            *)
Execute(s) ==
    /\ ~Running(s)
    /\ runs[s] < MaxRuns
    /\ runs' = [runs EXCEPT ![s] = @ + 1]
    /\ rows' = [rows EXCEPT ![s] = <<>>]
    /\ tables' = [tables EXCEPT ![s] = <<>>]
    /\ \/ UNCHANGED <<at, contested>>
       \/ /\ ~finished[s]
          /\ at' = [at EXCEPT ![s] = "schema"]
          /\ LET others == {u \in Sessions \ {s} : Running(u) /\ alias[u] = alias[s]}
             IN contested' = contested \cup others \cup (IF others = {} THEN {} ELSE {s})
    /\ UNCHANGED <<schemas, views, bindVars, created_views, finished, row_count, overrun>>

(* CREATE SCHEMA IF NOT EXISTS                                              *)
CreateSchema(s) ==
    /\ at[s] = "schema"
    /\ schemas' = schemas \cup {alias[s]}
    /\ at' = [at EXCEPT ![s] = "list"]
    /\ UNCHANGED <<views, bindVars, created_views, finished, tables, row_count, rows, runs, contested, overrun>>

(* FROM quack_query(...): the names of the remote database's tables.         *)
ListTables(s) ==
    /\ at[s] = "list"
    /\ \E listing \in Listings : tables' = [tables EXCEPT ![s] = listing]
    /\ at' = [at EXCEPT ![s] = "views"]
    /\ UNCHANGED <<schemas, views, bindVars, created_views, finished, row_count, rows, runs, contested, overrun>>

(* Mutant: CREATE VIEW IF NOT EXISTS.                                       *)
CreateMissingView(s, t) ==
    /\ t \notin OddNames
    /\ views' = IF views[alias[s]][t] = NoRemote THEN [views EXCEPT ![alias[s]][t] = uri[s]] ELSE views
    /\ created_views' = [created_views EXCEPT ![s] = Append(@, t)]

(* CREATE OR REPLACE VIEW for the table t.                                  *)
CreateView(s, t) ==
    /\ t \notin OddNames
    /\ views' = [views EXCEPT ![alias[s]][t] = uri[s]]
    /\ created_views' = [created_views EXCEPT ![s] = Append(@, t)]

(* A turn of the loop.                                                      *)
NextTable(s) ==
    /\ at[s] = "views"
    /\ row_count[s] < Len(tables[s])
    /\ CreateView(s, tables[s][row_count[s] + 1])
    /\ row_count' = [row_count EXCEPT ![s] = @ + 1]
    /\ UNCHANGED <<schemas, at, bindVars, finished, tables, rows, runs, contested, overrun>>

(* The function returns or throws: its locals are gone.                     *)
Leave(s) ==
    /\ at' = [at EXCEPT ![s] = "idle"]
    /\ row_count' = [row_count EXCEPT ![s] = 0]
    /\ contested' = contested \ {s}

(* Any statement fails (a lost connection, a conflict with another session's *)
(* transaction, a table that has gone), or ValidateIdentifier refuses a name: *)
(* what was done stays.                                                     *)
StatementFails(s) ==
    /\ at[s] \in {"schema", "list"} \/ (at[s] = "views" /\ row_count[s] < Len(tables[s]))
    /\ Leave(s)
    /\ tables' = [tables EXCEPT ![s] = <<>>]
    /\ UNCHANGED <<schemas, views, bindVars, created_views, finished, rows, runs, overrun>>

NoTables(s) ==
    /\ at[s] = "views" /\ tables[s] = <<>>
    /\ Leave(s)
    /\ UNCHANGED <<schemas, views, bindVars, created_views, finished, tables, rows, runs, overrun>>

(* Mutant: all of created_views is returned.                                *)
EmitAll(s) ==
    /\ at[s] = "views" /\ row_count[s] = Len(tables[s])
    /\ row_count[s] \in 1 .. VectorSize
    /\ rows' = [rows EXCEPT ![s] = created_views[s]]
    /\ finished' = [finished EXCEPT ![s] = TRUE]
    /\ Leave(s)
    /\ UNCHANGED <<schemas, views, bindVars, created_views, tables, runs, overrun>>

(* The rows are the first row_count of created_views, in one chunk.         *)
EmitRows(s) ==
    /\ at[s] = "views" /\ row_count[s] = Len(tables[s])
    /\ row_count[s] \in 1 .. VectorSize
    /\ rows' = [rows EXCEPT ![s] = SubSeq(created_views[s], 1, row_count[s])]
    /\ finished' = [finished EXCEPT ![s] = TRUE]
    /\ Leave(s)
    /\ UNCHANGED <<schemas, views, bindVars, created_views, tables, runs, overrun>>

(* Nothing keeps the rows within the chunk: writing past it is undefined, and *)
(* nothing is said of the process any more.                                 *)
EmitTooMany(s) ==
    /\ at[s] = "views" /\ row_count[s] = Len(tables[s])
    /\ row_count[s] > VectorSize
    /\ overrun' = TRUE
    /\ UNCHANGED <<schemas, views, at, bindVars, created_views, finished, tables, row_count, rows, runs, contested>>

Step(s) ==
    \/ CreateSchema(s) \/ ListTables(s) \/ NextTable(s)
    \/ StatementFails(s) \/ NoTables(s) \/ EmitRows(s) \/ EmitTooMany(s)

Next == ~overrun /\ \E s \in Sessions : Bind(s) \/ Execute(s) \/ Step(s)

Spec == Init /\ [][Next]_vars

-----------------------------------------------------------------------------
TypeOK ==
    /\ schemas \subseteq Aliases
    /\ views \in [Aliases -> [Tables -> Remotes \cup {NoRemote}]]
    /\ at \in [Sessions -> {"idle", "schema", "list", "views"}]
    /\ uri \in [Sessions -> Remotes] /\ alias \in [Sessions -> Aliases]
    /\ created_views \in [Sessions -> Seq(Tables)] /\ rows \in [Sessions -> Seq(Tables)]
    /\ finished \in [Sessions -> BOOLEAN]
    /\ tables \in [Sessions -> Seq(Tables)]
    /\ row_count \in [Sessions -> Nat] /\ runs \in [Sessions -> Nat]
    /\ contested \subseteq Sessions
    /\ overrun \in BOOLEAN

(* When the call is about to return, every table it was told of has a view   *)
(* in its schema that reads from its own remote, also where the schema had   *)
(* views of another remote or of a call that failed half way: only a call    *)
(* that ran on the same alias at the same time can have replaced one.        *)
AttachedIsComplete ==
    \A s \in Sessions \ contested :
        at[s] = "views" =>
            /\ alias[s] \in schemas
            /\ \A i \in 1 .. row_count[s] : views[alias[s]][tables[s][i]] = uri[s]

(* A call that returns rows returns as many as the remote listed tables, and  *)
(* each names a view that is there, whatever earlier executions left in       *)
(* created_views; those of the first execution are the listing itself.       *)
RowsAreTheViews ==
    \A s \in Sessions :
        rows[s] # <<>> =>
            /\ Len(rows[s]) = Len(tables[s])
            /\ \A i \in DOMAIN rows[s] : views[alias[s]][rows[s][i]] # NoRemote
            /\ runs[s] = 1 => rows[s] = tables[s]

(* REFERENCE.md: "Returns one row per created view".                        *)
OneRowPerView ==
    \A s \in Sessions :
        rows[s] # <<>> =>
            \A t \in {tables[s][i] : i \in DOMAIN tables[s]} :
                \E i \in DOMAIN rows[s] : rows[s][i] = t /\ \A j \in DOMAIN rows[s] \ {i} : rows[s][j] # t
=============================================================================
