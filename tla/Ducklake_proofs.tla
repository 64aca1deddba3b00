---------------------------- MODULE Ducklake_proofs ----------------------------
(***************************************************************************)
(* Proofs about Ducklake, for any sessions, remotes, aliases and tables.     *)
(*                                                                          *)
(* The invariant has two parts.  The views': two sessions that run on one    *)
(* alias are both contested, so nobody replaces a view of one that is not.   *)
(* The rows': created_views names views that are there, it holds at least    *)
(* the rows the loop has passed, and in a first execution exactly those.     *)
(***************************************************************************)
EXTENDS Ducklake, SequenceTheorems, TLAPS

ViewInv ==
    /\ \A s, u \in Sessions :
         s # u /\ Running(s) /\ Running(u) /\ alias[s] = alias[u] => s \in contested
    /\ \A s \in Sessions :
         /\ at[s] \in {"list", "views"} => alias[s] \in schemas
         /\ s \notin contested /\ at[s] = "views" =>
              \A i \in 1 .. row_count[s] : views[alias[s]][tables[s][i]] = uri[s]

(* Every name in the sequence has a view in the session's schema.            *)
Exist(s, names) == \A i \in DOMAIN names : views[alias[s]][names[i]] # NoRemote

(* What created_views holds in the loop of a first execution.               *)
HoldsThePassed(s) ==
    /\ Len(created_views[s]) = row_count[s]
    /\ \A i \in 1 .. row_count[s] : created_views[s][i] = tables[s][i]

RowInv(s) ==
    /\ row_count[s] <= Len(created_views[s]) /\ row_count[s] <= Len(tables[s])
    /\ Exist(s, created_views[s]) /\ Exist(s, rows[s])
    /\ runs[s] = 0 => at[s] = "idle" /\ created_views[s] = <<>>
    /\ runs[s] = 1 /\ at[s] \in {"schema", "list"} => created_views[s] = <<>>
    /\ runs[s] = 1 /\ at[s] = "views" => HoldsThePassed(s)
    /\ at[s] # "views" => row_count[s] = 0
    /\ at[s] # "idle" => rows[s] = <<>>
    /\ rows[s] # <<>> => Len(rows[s]) = Len(tables[s])
    /\ runs[s] = 1 /\ rows[s] # <<>> => rows[s] = tables[s]

IInv == TypeOK /\ ViewInv /\ \A s \in Sessions : RowInv(s)

USE DEF bindVars

-----------------------------------------------------------------------------
(* Types.                                                                   *)
LEMMA TypeInit == Init => TypeOK
<1> SUFFICES ASSUME Init PROVE TypeOK
  OBVIOUS
<1>1. views \in [Aliases -> [Tables -> Remotes \cup {NoRemote}]]
  BY DEF Init
<1>2. /\ created_views \in [Sessions -> Seq(Tables)] /\ rows \in [Sessions -> Seq(Tables)]
      /\ tables \in [Sessions -> Seq(Tables)]
  BY EmptySeq DEF Init
<1>3. /\ at \in [Sessions -> {"idle", "schema", "list", "views"}]
      /\ finished \in [Sessions -> BOOLEAN]
      /\ row_count \in [Sessions -> Nat] /\ runs \in [Sessions -> Nat]
  BY DEF Init
<1> QED BY <1>1, <1>2, <1>3 DEF Init, TypeOK

LEMMA ListingTypes == \A listing \in Listings : listing \in Seq(Tables)
<1>1. \A n \in Nat : [1 .. n -> Tables] \subseteq Seq(Tables)
  OBVIOUS
<1> QED BY <1>1, DucklakeAssumption DEF Listings

LEMMA TypeStep ==
    ASSUME TypeOK, \A s \in Sessions : RowInv(s), [Next]_vars
    PROVE  TypeOK'
<1> USE DEF TypeOK
<1>0. <<>> \in Seq(Tables)
  BY EmptySeq
<1>1. ASSUME NEW s \in Sessions, Bind(s) PROVE TypeOK'
  BY <1>0, <1>1 DEF Bind
<1>2. ASSUME NEW s \in Sessions, Execute(s) PROVE TypeOK'
  <2>1. at' \in [Sessions -> {"idle", "schema", "list", "views"}] /\ contested' \subseteq Sessions
    BY <1>2 DEF Execute
  <2>2. UNCHANGED <<schemas, views, bindVars, created_views, finished, row_count, overrun>>
    BY <1>2 DEF Execute
  <2>3. /\ runs' \in [Sessions -> Nat] /\ tables' \in [Sessions -> Seq(Tables)]
        /\ rows' \in [Sessions -> Seq(Tables)]
    BY <1>0, <1>2 DEF Execute
  <2> QED BY <2>1, <2>2, <2>3
<1>3. ASSUME NEW s \in Sessions, CreateSchema(s) PROVE TypeOK'
  BY <1>3 DEF CreateSchema
<1>4. ASSUME NEW s \in Sessions, ListTables(s) PROVE TypeOK'
  BY <1>4, ListingTypes DEF ListTables
<1>5. ASSUME NEW s \in Sessions, NextTable(s) PROVE TypeOK'
  <2> DEFINE t == tables[s][row_count[s] + 1]
  <2>1. t \in Tables
    BY <1>5, ElementOfSeq DEF NextTable
  <2>2. Append(created_views[s], t) \in Seq(Tables)
    BY <2>1, AppendProperties
  <2>3. /\ views' = [views EXCEPT ![alias[s]][t] = uri[s]]
        /\ created_views' = [created_views EXCEPT ![s] = Append(@, t)]
        /\ row_count' = [row_count EXCEPT ![s] = @ + 1]
    BY <1>5 DEF NextTable, CreateView
  <2> HIDE DEF t
  <2>4. views' \in [Aliases -> [Tables -> Remotes \cup {NoRemote}]]
    BY <2>1, <2>3
  <2>5. created_views' \in [Sessions -> Seq(Tables)] /\ row_count' \in [Sessions -> Nat]
    BY <2>2, <2>3
  <2> QED BY <1>5, <2>4, <2>5 DEF NextTable
<1>6. ASSUME NEW s \in Sessions, StatementFails(s) PROVE TypeOK'
  BY <1>0, <1>6 DEF StatementFails, Leave
<1>7. ASSUME NEW s \in Sessions, NoTables(s) PROVE TypeOK'
  BY <1>7 DEF NoTables, Leave
<1>8. ASSUME NEW s \in Sessions, EmitRows(s) PROVE TypeOK'
  <2>1. SubSeq(created_views[s], 1, row_count[s]) \in Seq(Tables)
    <3>1. row_count[s] \in Nat /\ row_count[s] <= Len(created_views[s]) /\ created_views[s] \in Seq(Tables)
      BY DEF RowInv
    <3>2. \A i \in 1 .. row_count[s] : created_views[s][i] \in Tables
      BY <3>1, ElementOfSeq
    <3> QED BY <3>1, <3>2, SubSeqProperties
  <2> QED BY <1>8, <2>1 DEF EmitRows, Leave
<1>9. ASSUME NEW s \in Sessions, EmitTooMany(s) PROVE TypeOK'
  BY <1>9 DEF EmitTooMany
<1>10. CASE UNCHANGED vars
  BY <1>10 DEF vars
<1> QED BY <1>1, <1>2, <1>3, <1>4, <1>5, <1>6, <1>7, <1>8, <1>9, <1>10 DEF Next, Step

-----------------------------------------------------------------------------
(* The views.                                                               *)
LEMMA ViewInit == Init => ViewInv
  BY DEF Init, ViewInv, Running

LEMMA ViewStep ==
    ASSUME TypeOK, \A s \in Sessions : RowInv(s), ViewInv, [Next]_vars
    PROVE  ViewInv'
<1> USE DEF TypeOK, ViewInv, Running
<1>1. ASSUME NEW s \in Sessions, Bind(s) PROVE ViewInv'
  BY <1>1 DEF Bind
<1>2. ASSUME NEW s \in Sessions, Execute(s) PROVE ViewInv'
  <2>0. /\ UNCHANGED <<alias, uri, schemas, views, row_count>>
        /\ ~Running(s) /\ tables' = [tables EXCEPT ![s] = <<>>]
    BY <1>2 DEF Execute
  <2>1. CASE UNCHANGED <<at, contested>>
    BY <2>0, <2>1
  <2>2. CASE at' = [at EXCEPT ![s] = "schema"] /\ ~UNCHANGED <<at, contested>>
    <3> DEFINE others == {u \in Sessions \ {s} : Running(u) /\ alias[u] = alias[s]}
    <3>1. contested' = contested \cup others \cup (IF others = {} THEN {} ELSE {s})
      BY <1>2, <2>2 DEF Execute
    <3>2. /\ others \subseteq contested'
          /\ contested \subseteq contested'
          /\ others # {} => s \in contested'
      BY <3>1
    <3>3. \A p, q \in Sessions :
            p # q /\ Running(p)' /\ Running(q)' /\ alias'[p] = alias'[q] => p \in contested'
      BY <2>0, <2>2, <3>2
    <3>4. \A p \in Sessions : at'[p] \in {"list", "views"} =>
            p # s /\ at'[p] = at[p] /\ tables'[p] = tables[p]
      BY <2>0, <2>2
    <3> QED BY <2>0, <3>2, <3>3, <3>4
  <2> QED BY <1>2, <2>1, <2>2 DEF Execute
<1>3. ASSUME NEW s \in Sessions, CreateSchema(s) PROVE ViewInv'
  BY <1>3 DEF CreateSchema
<1>4. ASSUME NEW s \in Sessions, ListTables(s) PROVE ViewInv'
  <2>1. row_count[s] = 0 /\ UNCHANGED row_count
    BY <1>4 DEF ListTables, RowInv
  <2>2. /\ at'[s] = "views" /\ alias[s] \in schemas /\ UNCHANGED <<schemas, views, uri, alias, contested>>
        /\ \A p \in Sessions \ {s} : at'[p] = at[p] /\ tables'[p] = tables[p]
    BY <1>4 DEF ListTables
  <2>3. \A p \in Sessions : Running(p)' => Running(p)
    BY <1>4, <2>2 DEF ListTables
  <2>4. \A p, q \in Sessions :
          p # q /\ Running(p)' /\ Running(q)' /\ alias'[p] = alias'[q] => p \in contested'
    BY <2>2, <2>3
  <2>5. \A p \in Sessions : at'[p] \in {"list", "views"} => alias'[p] \in schemas'
    BY <2>2
  <2>6. ASSUME NEW p \in Sessions, p \notin contested, at'[p] = "views", NEW i \in 1 .. row_count'[p]
        PROVE  views'[alias'[p]][tables'[p][i]] = uri'[p]
    <3>1. p # s
      BY <2>1, <2>6
    <3> QED BY <2>1, <2>2, <2>6, <3>1
  <2> QED BY <2>2, <2>4, <2>5, <2>6
<1>5. ASSUME NEW s \in Sessions, NextTable(s) PROVE ViewInv'
  <2> DEFINE t == tables[s][row_count[s] + 1]
  <2>1. t \in Tables
    BY <1>5, ElementOfSeq DEF NextTable
  <2>2. /\ at[s] = "views" /\ UNCHANGED <<schemas, at, uri, alias, tables, contested>>
        /\ views' = [views EXCEPT ![alias[s]][t] = uri[s]]
        /\ row_count' = [row_count EXCEPT ![s] = @ + 1]
    BY <1>5 DEF NextTable, CreateView
  <2>3. ASSUME NEW p \in Sessions, p \notin contested, at[p] = "views", NEW i \in 1 .. row_count'[p]
        PROVE  views'[alias[p]][tables[p][i]] = uri[p]
    <3>1. CASE p = s
      <4>1. i = row_count[s] + 1 \/ i \in 1 .. row_count[s]
        BY <2>2, <2>3, <3>1
      <4>2. CASE i = row_count[s] + 1
        <5>1. tables[p][i] = t
          BY <3>1, <4>2
        <5> QED BY <2>1, <2>2, <3>1, <5>1
      <4>3. CASE i \in 1 .. row_count[s]
        <5>1. views[alias[s]][tables[s][i]] = uri[s]
          BY <2>3, <3>1, <4>3
        <5>2. tables[s][i] \in Tables
          BY <4>3, ElementOfSeq DEF RowInv
        <5> HIDE DEF t
        <5> QED BY <2>1, <2>2, <3>1, <5>1, <5>2
      <4> QED BY <4>1, <4>2, <4>3
    <3>2. CASE p # s
      <4>1. alias[p] # alias[s]
        BY <2>2, <2>3, <3>2
      <4>2. row_count'[p] = row_count[p] /\ views'[alias[p]] = views[alias[p]]
        BY <2>2, <3>2, <4>1
      <4> QED BY <2>3, <4>2
    <3> QED BY <3>1, <3>2
  <2> HIDE DEF t
  <2> QED BY <2>2, <2>3
<1>6. ASSUME NEW s \in Sessions, Leave(s), UNCHANGED <<schemas, views, uri, alias>>,
             \A p \in Sessions \ {s} : tables'[p] = tables[p]
      PROVE  ViewInv'
  BY <1>6 DEF Leave
<1>7. ASSUME NEW s \in Sessions, EmitTooMany(s) PROVE ViewInv'
  BY <1>7 DEF EmitTooMany
<1>8. CASE UNCHANGED vars
  BY <1>8 DEF vars
<1> QED
  BY <1>1, <1>2, <1>3, <1>4, <1>5, <1>6, <1>7, <1>8 DEF Next, Step, StatementFails, NoTables, EmitRows

-----------------------------------------------------------------------------
(* The rows.                                                                *)
LEMMA RowInit == Init => \A s \in Sessions : RowInv(s)
<1> SUFFICES ASSUME Init, NEW s \in Sessions PROVE RowInv(s)
  OBVIOUS
<1>1. Len(<<>>) = 0 /\ DOMAIN <<>> = {}
  BY EmptySeq
<1>2. /\ at[s] = "idle" /\ created_views[s] = <<>> /\ rows[s] = <<>> /\ runs[s] = 0
      /\ tables[s] = <<>> /\ row_count[s] = 0
  BY DEF Init
<1> QED BY <1>1, <1>2 DEF RowInv, Exist

(* A view stays a view, as long as the session's schema is the same one.     *)
LEMMA ViewsStay ==
    ASSUME TypeOK, [Next]_vars, NEW p \in Sessions, alias'[p] = alias[p], NEW names \in Seq(Tables), Exist(p, names)
    PROVE  Exist(p, names)'
<1>1. ASSUME NEW s \in Sessions, NextTable(s) PROVE Exist(p, names)'
  <2> DEFINE t == tables[s][row_count[s] + 1]
  <2>1. views' = [views EXCEPT ![alias[s]][t] = uri[s]] /\ uri[s] # NoRemote
    BY <1>1, DucklakeAssumption DEF NextTable, CreateView, TypeOK
  <2>2. \A i \in DOMAIN names : names[i] \in Tables
    OBVIOUS
  <2> HIDE DEF t
  <2> QED BY <2>1, <2>2 DEF Exist, TypeOK
<1>2. CASE UNCHANGED views
  BY <1>2 DEF Exist
<1> QED
  BY <1>1, <1>2 DEF Next, Step, Bind, Execute, CreateSchema, ListTables, StatementFails, NoTables, EmitRows,
                    EmitTooMany, vars

(* What a step of another session leaves alone.                             *)
LEMMA RowFrame ==
    ASSUME TypeOK, [Next]_vars, NEW s \in Sessions, RowInv(s), alias'[s] = alias[s],
           tables'[s] = tables[s], row_count'[s] = row_count[s],
           created_views'[s] = created_views[s], runs'[s] = runs[s],
           at'[s] = at[s], rows'[s] = rows[s]
    PROVE  RowInv(s)'
<1>1. created_views[s] \in Seq(Tables) /\ rows[s] \in Seq(Tables)
  BY DEF TypeOK
<1>2. Exist(s, created_views[s])' /\ Exist(s, rows[s])'
  <2>1. PICK c \in Seq(Tables), r \in Seq(Tables) : c = created_views[s] /\ r = rows[s]
    BY <1>1
  <2>2. Exist(s, c)' /\ Exist(s, r)'
    BY <2>1, ViewsStay DEF RowInv
  <2> QED BY <2>1, <2>2 DEF Exist
<1> QED BY <1>2 DEF RowInv, HoldsThePassed

LEMMA RowStep ==
    ASSUME TypeOK, NEW p \in Sessions, RowInv(p), [Next]_vars
    PROVE  RowInv(p)'
<1> USE DEF TypeOK
<1>0. /\ created_views[p] \in Seq(Tables) /\ Len(created_views[p]) \in Nat
      /\ tables[p] \in Seq(Tables) /\ Len(tables[p]) \in Nat
      /\ Len(<<>>) = 0 /\ DOMAIN <<>> = {}
  BY LenProperties, EmptySeq
<1>1. ASSUME NEW s \in Sessions, Bind(s) PROVE RowInv(p)'
  <2>1. CASE s = p
    BY <1>0, <1>1, <2>1 DEF Bind, Running, RowInv, Exist
  <2>2. CASE s # p
    BY <1>1, <2>2, RowFrame DEF Bind
  <2> QED BY <2>1, <2>2
<1>2. ASSUME NEW s \in Sessions, Execute(s) PROVE RowInv(p)'
  <2>1. CASE s = p
    <3>1. /\ runs'[p] = runs[p] + 1 /\ rows'[p] = <<>> /\ tables'[p] = <<>> /\ at[p] = "idle"
          /\ at'[p] \in {"idle", "schema"}
          /\ UNCHANGED <<created_views, row_count, views, alias>>
      BY <1>2, <2>1 DEF Execute, Running
    <3> QED BY <1>0, <3>1 DEF RowInv, Exist
  <2>2. CASE s # p
    BY <1>2, <2>2, RowFrame DEF Execute
  <2> QED BY <2>1, <2>2
<1>3. ASSUME NEW s \in Sessions, CreateSchema(s) PROVE RowInv(p)'
  <2>1. CASE s = p
    BY <1>3, <2>1 DEF CreateSchema, RowInv, Exist
  <2>2. CASE s # p
    BY <1>3, <2>2, RowFrame DEF CreateSchema
  <2> QED BY <2>1, <2>2
<1>4. ASSUME NEW s \in Sessions, ListTables(s) PROVE RowInv(p)'
  <2>1. CASE s = p
    <3>1. /\ at[p] = "list" /\ at'[p] = "views" /\ tables'[p] \in Seq(Tables)
          /\ UNCHANGED <<created_views, row_count, rows, runs, views, alias>>
      BY <1>4, <2>1, ListingTypes DEF ListTables
    <3>2. row_count[p] = 0 /\ (runs[p] = 1 => created_views[p] = <<>>)
      BY <3>1 DEF RowInv
    <3>3. Len(tables'[p]) \in Nat
      BY <3>1, LenProperties
    <3> QED BY <1>0, <3>1, <3>2, <3>3 DEF RowInv, HoldsThePassed, Exist
  <2>2. CASE s # p
    BY <1>4, <2>2, RowFrame DEF ListTables
  <2> QED BY <2>1, <2>2
<1>5. ASSUME NEW s \in Sessions, NextTable(s) PROVE RowInv(p)'
  <2> DEFINE t == tables[s][row_count[s] + 1]
  <2>1. /\ views' = [views EXCEPT ![alias[s]][t] = uri[s]]
        /\ created_views' = [created_views EXCEPT ![s] = Append(@, t)]
        /\ row_count' = [row_count EXCEPT ![s] = @ + 1]
        /\ UNCHANGED <<at, tables, rows, runs, alias>> /\ at[s] = "views" /\ row_count[s] < Len(tables[s])
    BY <1>5 DEF NextTable, CreateView
  <2>2. t \in Tables
    BY <2>1, ElementOfSeq
  <2> HIDE DEF t
  <2>3. CASE s = p
    <3>1. created_views'[p] = Append(created_views[p], t) /\ row_count'[p] = row_count[p] + 1
      BY <2>1, <2>3
    <3>2. /\ Len(created_views'[p]) = Len(created_views[p]) + 1
          /\ DOMAIN created_views'[p] = 1 .. Len(created_views[p]) + 1
          /\ \A i \in 1 .. Len(created_views[p]) : created_views'[p][i] = created_views[p][i]
          /\ created_views'[p][Len(created_views[p]) + 1] = t
      BY <1>0, <2>2, <3>1, AppendProperties, LenProperties
    <3>3. runs[p] = 1 => HoldsThePassed(p)'
      <4>1. runs[p] = 1 => HoldsThePassed(p)
        BY <2>1, <2>3 DEF RowInv
      <4>2. t = tables[p][row_count[p] + 1]
        BY <2>3 DEF t
      <4> QED BY <2>1, <3>1, <3>2, <4>1, <4>2 DEF HoldsThePassed
    <3>4. Exist(p, created_views[p])'
      <4>1. views'[alias'[p]][t] # NoRemote
        BY <2>1, <2>2, <2>3, DucklakeAssumption
      <4>2. PICK c \in Seq(Tables) : c = created_views[p]
        BY <1>0
      <4>3. Exist(p, c)'
        BY <2>1, <4>2, ViewsStay DEF RowInv
      <4>4. \A i \in 1 .. Len(created_views[p]) : views'[alias'[p]][created_views[p][i]] # NoRemote
        BY <1>0, <4>2, <4>3, LenProperties DEF Exist
      <4>5. ASSUME NEW i \in 1 .. Len(created_views[p]) + 1
            PROVE  views'[alias'[p]][created_views'[p][i]] # NoRemote
        <5>1. CASE i \in 1 .. Len(created_views[p])
          BY <3>2, <4>4, <5>1
        <5>2. CASE i = Len(created_views[p]) + 1
          BY <3>2, <4>1, <5>2
        <5> QED BY <1>0, <5>1, <5>2
      <4> QED BY <3>2, <4>5 DEF Exist
    <3>5. rows'[p] = <<>>
      BY <2>1, <2>3 DEF RowInv
    <3> QED BY <1>0, <2>1, <2>3, <3>1, <3>2, <3>3, <3>4, <3>5 DEF RowInv, Exist
  <2>4. CASE s # p
    BY <2>1, <2>4, RowFrame
  <2> QED BY <2>3, <2>4
<1>6. ASSUME NEW s \in Sessions, StatementFails(s) PROVE RowInv(p)'
  <2>1. CASE s = p
    BY <1>0, <1>6, <2>1 DEF StatementFails, Leave, RowInv, Exist
  <2>2. CASE s # p
    BY <1>6, <2>2, RowFrame DEF StatementFails, Leave
  <2> QED BY <2>1, <2>2
<1>7. ASSUME NEW s \in Sessions, NoTables(s) PROVE RowInv(p)'
  <2>1. CASE s = p
    BY <1>0, <1>7, <2>1 DEF NoTables, Leave, RowInv, Exist
  <2>2. CASE s # p
    BY <1>7, <2>2, RowFrame DEF NoTables, Leave
  <2> QED BY <2>1, <2>2
<1>8. ASSUME NEW s \in Sessions, EmitRows(s) PROVE RowInv(p)'
  <2>1. CASE s = p
    <3>1. /\ at[p] = "views" /\ at'[p] = "idle" /\ row_count[p] = Len(tables[p]) /\ row_count'[p] = 0
          /\ UNCHANGED <<created_views, tables, runs, views, alias>>
          /\ rows'[p] = SubSeq(created_views[p], 1, row_count[p])
      BY <1>8, <2>1 DEF EmitRows, Leave
    <3>2. /\ rows'[p] \in Seq(Tables) /\ Len(rows'[p]) = row_count[p]
          /\ DOMAIN rows'[p] = 1 .. row_count[p]
          /\ \A i \in 1 .. row_count[p] : rows'[p][i] = created_views[p][i]
      <4>1. /\ row_count[p] \in Nat /\ row_count[p] <= Len(created_views[p])
            /\ \A i \in 1 .. row_count[p] : created_views[p][i] \in Tables
        BY <1>0, ElementOfSeq DEF RowInv
      <4> QED BY <3>1, <4>1, SubSeqProperties, LenProperties
    <3>3. runs[p] = 1 => rows'[p] = tables[p]
      <4>1. runs[p] = 1 => \A i \in 1 .. row_count[p] : rows'[p][i] = tables[p][i]
        BY <3>1, <3>2 DEF RowInv, HoldsThePassed
      <4> QED BY <1>0, <3>1, <3>2, <4>1, SeqEqual
    <3>4. Exist(p, rows[p])'
      <4>1. \A i \in 1 .. row_count[p] : i \in DOMAIN created_views[p]
        BY <1>0, LenProperties DEF RowInv
      <4> QED BY <3>1, <3>2, <4>1 DEF RowInv, Exist
    <3> QED BY <1>0, <3>1, <3>2, <3>3, <3>4 DEF RowInv, Exist
  <2>2. CASE s # p
    BY <1>8, <2>2, RowFrame DEF EmitRows, Leave
  <2> QED BY <2>1, <2>2
<1>9. ASSUME NEW s \in Sessions, EmitTooMany(s) PROVE RowInv(p)'
  BY <1>9, RowFrame DEF EmitTooMany
<1>10. CASE UNCHANGED vars
  BY <1>10, RowFrame DEF vars
<1> QED BY <1>1, <1>2, <1>3, <1>4, <1>5, <1>6, <1>7, <1>8, <1>9, <1>10 DEF Next, Step

-----------------------------------------------------------------------------
(* The invariant holds in every reachable state.                            *)
THEOREM Invariance == Spec => []IInv
<1>1. Init => IInv
  BY TypeInit, ViewInit, RowInit DEF IInv
<1>2. IInv /\ [Next]_vars => IInv'
  BY TypeStep, ViewStep, RowStep DEF IInv
<1> QED BY <1>1, <1>2, PTL DEF Spec

(* Every variable of attach_ducklake has its type.                          *)
THEOREM TypeCorrect == Spec => []TypeOK
<1>1. IInv => TypeOK
  BY DEF IInv
<1> QED BY <1>1, Invariance, PTL

(* A call that no other one crossed on its alias has a view of its own       *)
(* remote for every table it has passed.                                    *)
THEOREM AttachedIsCompleteHolds == Spec => []AttachedIsComplete
<1>1. IInv => AttachedIsComplete
  BY DEF IInv, ViewInv, AttachedIsComplete
<1> QED BY <1>1, Invariance, PTL

(* A call returns as many rows as it was told of tables, each of a view that  *)
(* is there; those of a first execution are the listing.                     *)
THEOREM RowsAreTheViewsHolds == Spec => []RowsAreTheViews
<1>1. IInv => RowsAreTheViews
  BY DEF IInv, RowInv, Exist, RowsAreTheViews
<1> QED BY <1>1, Invariance, PTL
=============================================================================
