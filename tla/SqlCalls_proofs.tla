---------------------------- MODULE SqlCalls_proofs ----------------------------
(***************************************************************************)
(* Proofs about SqlCalls, for any sessions, ports and number of hubs.        *)
(*                                                                          *)
(* The invariant has three parts.  The router's: what the HTTP util in use   *)
(* can be, and that a session between its check and its set holds a util     *)
(* that is no router and, unless httpfs was loaded behind its back, is        *)
(* httpfs once that is loaded.  The hub's: until another session disturbs    *)
(* it, a first execution that joins finds the hub it started still running,  *)
(* and has its URL and its key.  The node's: a server that this call started *)
(* first stays in its fleet.                                                *)
(***************************************************************************)
EXTENDS SqlCalls, SequenceTheorems, TLAPS

Installing(s) == at[s] \in {"check", "set"}

RouterInv ==
    /\ util \in {<<"builtin">>, <<"httpfs">>, <<"Tailscale", "builtin">>, <<"Tailscale", "httpfs">>}
    /\ \A s \in Sessions : at[s] = "set" => current[s] \in {<<"builtin">>, <<"httpfs">>}
    /\ routed /\ ~displaced /\ (\A s \in Sessions : ~Installing(s)) =>
         util \in {<<"Tailscale", "builtin">>, <<"Tailscale", "httpfs">>}
    /\ loaded /\ ~raced =>
         /\ util \in {<<"httpfs">>, <<"Tailscale", "httpfs">>}
         /\ \A s \in Sessions : at[s] = "set" => current[s] = <<"httpfs">>

(* A first execution of quackscale_hub that chose no control plane, and what *)
(* it takes as the key.                                                     *)
OnItsOwn(s) == s \notin disturbed /\ stmt[s].kind = "hub" /\ stmt[s].control = NoUrl /\ ~retried[s]
Keyed(s) == stmt[s].key = NoKey => authkey[s] = own[s]

HubInv ==
    /\ hub # NoHub => bound \in Ports
    /\ \A s \in Sessions :
         /\ at[s] \in {"serve", "url"} => stmt[s].kind = "hub"
         /\ OnItsOwn(s) /\ at[s] \in {"serve", "url"} => control_url[s] = NoUrl /\ authkey[s] = stmt[s].key
         /\ OnItsOwn(s) /\ at[s] \in {"url", "up"} => own[s] # NoHub /\ hub = own[s]
         /\ OnItsOwn(s) /\ at[s] = "up" => control_url[s] = bound /\ Keyed(s)
         /\ OnItsOwn(s) /\ at[s] = "status" /\ ~kept[s] => node = "up" /\ fleet = own[s] /\ Keyed(s)

IInv == TypeOK /\ RouterInv /\ HubInv

USE DEF hubVars, nodeVars, utilVars, bindVars, callHistory, routeHistory

-----------------------------------------------------------------------------
(* What a statement is, and where its execution begins.                      *)
LEMMA StatementFacts ==
    ASSUME NEW st \in Statements \cup {NoStatement}
    PROVE  /\ st.control \in Urls \cup {NoUrl}
           /\ st.key \in {NoKey, UserKey}
           /\ st = NoStatement => st.kind = "none"
  BY DEF Statements, NoStatement

LEMMA FirstSteps ==
    ASSUME NEW st \in Statements
    PROVE  /\ FirstStep(st) \in {"serve", "up", "autoload", "login", "stop", "down"}
           /\ FirstStep(st) = "serve" <=> st.kind = "hub"
           /\ FirstStep(st) = "up" <=> st.kind = "up"
  BY DEF Statements, Kinds, FirstStep

-----------------------------------------------------------------------------
(* Types.                                                                   *)
LEMMA UrlTypes ==
    ASSUME TypeOK, NEW url \in Urls \cup {NoUrl}
    PROVE  /\ Applied(url) \in Urls
           /\ \A u \in Urls : Fleet(u) \in {Tailnet, Elsewhere} \cup Hubs
  BY CallsAssumption DEF TypeOK, Applied, Fleet, Urls, Hubs, NoHub, NoUrl, SaaS

LEMMA UtilTypes ==
    /\ <<>> \in Seq(Utils)
    /\ <<"builtin">> \in Seq(Utils) /\ <<"builtin">> # <<>>
    /\ <<"httpfs">> \in Seq(Utils) /\ <<"httpfs">> # <<>>
    /\ \A u \in Seq(Utils) : <<"Tailscale">> \o u \in Seq(Utils) /\ <<"Tailscale">> \o u # <<>>
  BY DEF Utils

LEMMA Wrapped ==
    /\ <<"Tailscale">> \o <<"builtin">> = <<"Tailscale", "builtin">>
    /\ <<"Tailscale">> \o <<"httpfs">> = <<"Tailscale", "httpfs">>
<1>1. ASSUME NEW u \in {"builtin", "httpfs"} PROVE <<"Tailscale">> \o <<u>> = <<"Tailscale", u>>
  <2> DEFINE both == <<"Tailscale">> \o <<u>>
  <2>1. both \in Seq({"Tailscale", u}) /\ <<"Tailscale", u>> \in Seq({"Tailscale", u})
    OBVIOUS
  <2>2. Len(both) = 2 /\ both[1] = "Tailscale" /\ both[2] = u
    OBVIOUS
  <2>3. Len(<<"Tailscale", u>>) = 2 /\ \A i \in 1 .. 2 : both[i] = <<"Tailscale", u>>[i]
    BY <2>2
  <2> HIDE DEF both
  <2>4. both = <<"Tailscale", u>>
    BY <2>1, <2>2, <2>3, SeqEqual
  <2> QED BY <2>4 DEF both
<1> QED BY <1>1

LEMMA InitTypeOK == Init => TypeOK
<1> SUFFICES ASSUME Init PROVE TypeOK
  OBVIOUS
<1>1. hubs \in 0 .. MaxHubs /\ hub \in {NoHub} \cup Hubs /\ control \in Urls
  BY CallsAssumption DEF Init, Urls
<1>2. util \in Seq(Utils) /\ util # <<>> /\ current \in [Sessions -> Seq(Utils)]
  BY UtilTypes DEF Init
<1> QED BY <1>1, <1>2 DEF Init, TypeOK, Locations

(* Where a session's call is, and what it keeps.                             *)
CallTypeOK ==
    /\ at \in [Sessions -> Locations]
    /\ stmt \in [Sessions -> Statements \cup {NoStatement}]
    /\ control_url \in [Sessions -> Urls \cup {NoUrl}]
    /\ authkey \in [Sessions -> {NoKey, UserKey} \cup Hubs]
    /\ own \in [Sessions -> {NoHub} \cup Hubs]
    /\ kept \in [Sessions -> BOOLEAN] /\ retried \in [Sessions -> BOOLEAN]
    /\ disturbed \subseteq Sessions

LEMMA EndTypes ==
    ASSUME TypeOK, NEW s \in Sessions, Throw(s) \/ Row(s)
    PROVE  CallTypeOK'
<1>1. /\ at' \in [Sessions -> Locations]
      /\ own' \in [Sessions -> {NoHub} \cup Hubs]
      /\ kept' \in [Sessions -> BOOLEAN] /\ retried' \in [Sessions -> BOOLEAN]
      /\ disturbed' \subseteq Sessions
  BY DEF Throw, Row, Leave, ForgetHistory, Goto, TypeOK, Locations
<1>2. /\ stmt' \in [Sessions -> Statements \cup {NoStatement}]
      /\ control_url' \in [Sessions -> Urls \cup {NoUrl}]
      /\ authkey' \in [Sessions -> {NoKey, UserKey} \cup Hubs]
  BY DEF Throw, Row, Forget, TypeOK
<1> QED BY <1>1, <1>2 DEF CallTypeOK

LEMMA RouteTypes ==
    ASSUME TypeOK, NEW s \in Sessions, AfterRoute(s)
    PROVE  CallTypeOK'
<1>1. CASE Row(s)
  BY <1>1, EndTypes
<1>2. CASE Goto(s, "login") /\ UNCHANGED <<bindVars, callHistory>>
  BY <1>2 DEF Goto, TypeOK, CallTypeOK, Locations
<1> QED BY <1>1, <1>2 DEF AfterRoute

LEMMA ServeTypes ==
    ASSUME TypeOK, hubs < MaxHubs
    PROVE  hubs + 1 \in 0 .. MaxHubs /\ hubs + 1 \in Hubs
  BY CallsAssumption DEF TypeOK, Hubs

LEMMA NextTypeOK == TypeOK /\ [Next]_vars => TypeOK'
<1> SUFFICES ASSUME TypeOK, [Next]_vars PROVE TypeOK'
  OBVIOUS
<1>a. ASSUME NEW s \in Sessions
      PROVE  /\ stmt[s] \in Statements \cup {NoStatement}
             /\ control_url[s] \in Urls \cup {NoUrl}
             /\ NoUrl \in Urls \cup {NoUrl} /\ SaaS \in Urls
  BY <1>a DEF TypeOK, Urls
<1>1. ASSUME NEW s \in Sessions, Call(s) PROVE TypeOK'
  <2>1. PICK st \in Statements : /\ stmt' = [stmt EXCEPT ![s] = st]
                                 /\ control_url' = [control_url EXCEPT ![s] = st.control]
                                 /\ authkey' = [authkey EXCEPT ![s] = st.key]
                                 /\ Goto(s, FirstStep(st))
    BY <1>1 DEF Call
  <2>2. FirstStep(st) \in Locations /\ st.control \in Urls \cup {NoUrl} /\ st.key \in {NoKey, UserKey}
    BY FirstSteps, StatementFacts DEF Locations
  <2>3. /\ at' \in [Sessions -> Locations]
        /\ stmt' \in [Sessions -> Statements \cup {NoStatement}]
        /\ control_url' \in [Sessions -> Urls \cup {NoUrl}]
        /\ authkey' \in [Sessions -> {NoKey, UserKey} \cup Hubs]
    BY <2>1, <2>2 DEF Goto, TypeOK
  <2> QED BY <1>1, <2>3 DEF Call, TypeOK
<1>2. ASSUME NEW s \in Sessions, CallAgain(s) PROVE TypeOK'
  <2>1. stmt[s] \in Statements
    BY <1>2 DEF CallAgain, TypeOK
  <2>2. FirstStep(stmt[s]) \in Locations
    BY <2>1, FirstSteps DEF Locations
  <2> QED BY <1>2, <2>2 DEF CallAgain, Goto, TypeOK
<1>3. ASSUME NEW s \in Sessions, HubStep(s) PROVE TypeOK'
  <2>1. CASE Serve(s)
    <3>1. hubs' \in 0 .. MaxHubs /\ hub' \in {NoHub} \cup Hubs /\ hubs + 1 \in Hubs /\ bound' \in Ports
      BY <2>1, ServeTypes DEF Serve
    <3>2. CASE Row(s)
      BY <2>1, <3>1, <3>2, EndTypes DEF Serve, TypeOK, CallTypeOK
    <3>3. CASE own' = [own EXCEPT ![s] = hubs + 1] /\ Goto(s, "url") /\ UNCHANGED <<bindVars, kept, retried, disturbed>>
      BY <2>1, <3>1, <3>3 DEF Serve, Goto, TypeOK, Locations
    <3> QED BY <2>1, <3>2, <3>3 DEF Serve
  <2>2. CASE ServeFails(s)
    BY <2>2, EndTypes DEF ServeFails, TypeOK, CallTypeOK
  <2>3. CASE ServeThrows(s)
    <3>1. hubs' \in 0 .. MaxHubs /\ hub' \in {NoHub} \cup Hubs /\ bound' \in Ports
      BY <2>3, ServeTypes DEF ServeThrows
    <3> QED BY <2>3, <3>1, EndTypes DEF ServeThrows, TypeOK, CallTypeOK
  <2>4. CASE LocalControlURL(s)
    <3>1. bound \in Urls \cup {NoUrl} /\ own[s] \in {NoKey, UserKey} \cup Hubs
      BY DEF TypeOK, Urls, NoUrl, NoHub, NoKey
    <3>2. at' \in [Sessions -> Locations]
      BY <2>4 DEF LocalControlURL, Goto, TypeOK, Locations
    <3>3. control_url' \in [Sessions -> Urls \cup {NoUrl}] /\ authkey' \in [Sessions -> {NoKey, UserKey} \cup Hubs]
      BY <2>4, <3>1 DEF LocalControlURL, TakeKey, TypeOK
    <3> QED BY <2>4, <3>2, <3>3 DEF LocalControlURL, TypeOK
  <2>5. CASE Stop(s)
    BY <2>5 DEF Stop, Forget, Goto, TypeOK, Locations, Joining, NoHub
  <2> QED BY <1>3, <2>1, <2>2, <2>3, <2>4, <2>5 DEF HubStep
<1>4. ASSUME NEW s \in Sessions, Joins(s)
      PROVE  /\ control' \in Urls /\ fleet' \in {NoFleet, Tailnet, Elsewhere} \cup Hubs
             /\ node' \in {"none", "made", "started", "up"} /\ running' \in BOOLEAN
  <2>1. control' \in Urls /\ Fleet(control') \in {Tailnet, Elsewhere} \cup Hubs
    BY <1>a, <1>4, UrlTypes DEF Joins
  <2> QED BY <1>4, <2>1 DEF Joins, TypeOK
<1>5. ASSUME NEW s \in Sessions, NodeStep(s) PROVE TypeOK'
  <2>1. CASE Up(s)
    <3>1. /\ control' \in Urls /\ fleet' \in {NoFleet, Tailnet, Elsewhere} \cup Hubs
          /\ node' \in {"none", "made", "started", "up"} /\ running' \in BOOLEAN
      BY <1>4, <2>1 DEF Up
    <3>2. at' \in [Sessions -> Locations] /\ kept' \in [Sessions -> BOOLEAN]
      BY <2>1 DEF Up, Goto, TypeOK, Locations
    <3> QED BY <2>1, <3>1, <3>2 DEF Up, TypeOK
  <2>2. CASE UpThrows(s)
    <3>1. /\ control' \in Urls /\ fleet' \in {NoFleet, Tailnet, Elsewhere} \cup Hubs
          /\ node' \in {"none", "made", "started", "up"} /\ running' \in BOOLEAN
      BY <1>4, <2>2 DEF UpThrows
    <3> QED BY <2>2, <3>1, EndTypes DEF UpThrows, TypeOK, CallTypeOK
  <2>3. CASE UpFails(s)
    <3>1. control' \in Urls /\ node' \in {"none", "made", "started", "up"}
      BY <1>a, <2>3, UrlTypes DEF UpFails, TypeOK
    <3> QED BY <2>3, <3>1, EndTypes DEF UpFails, TypeOK, CallTypeOK
  <2>4. CASE Status(s)
    <3>1. CASE Row(s)
      BY <2>4, <3>1, EndTypes DEF Status, TypeOK, CallTypeOK
    <3>2. CASE running /\ stmt[s].route
      <4>1. CallTypeOK'
        <5>1. /\ Goto(s, "autoload") /\ ForgetHistory(s)
              /\ stmt' = [stmt EXCEPT ![s].control = NoUrl, ![s].key = NoKey]
              /\ control_url' = [control_url EXCEPT ![s] = NoUrl]
              /\ authkey' = [authkey EXCEPT ![s] = NoKey]
          BY <2>4, <3>2 DEF Status
        <5>2. [stmt[s] EXCEPT !.control = NoUrl, !.key = NoKey] \in Statements
          <6>1. stmt[s] \in Statements
            BY <1>a, <3>2 DEF NoStatement
          <6> QED BY <6>1 DEF Statements, NothingGiven
        <5>3. stmt' = [stmt EXCEPT ![s] = [stmt[s] EXCEPT !.control = NoUrl, !.key = NoKey]]
          BY <5>1 DEF TypeOK
        <5> QED BY <5>1, <5>2, <5>3 DEF ForgetHistory, Goto, TypeOK, CallTypeOK, Locations
      <4> QED BY <2>4, <4>1 DEF Status, TypeOK, CallTypeOK
    <3> QED BY <2>4, <3>1, <3>2 DEF Status
  <2>5. CASE BeginLogin(s)
    <3>1. control' \in Urls
      BY <1>a, <2>5, UrlTypes DEF BeginLogin, TypeOK
    <3> QED BY <2>5, <3>1, EndTypes DEF BeginLogin, TypeOK, CallTypeOK
  <2>6. CASE BeginLoginFails(s)
    <3>1. control' \in Urls /\ node' \in {"none", "made", "started", "up"}
      BY <1>a, <2>6, UrlTypes DEF BeginLoginFails, TypeOK
    <3> QED BY <2>6, <3>1, EndTypes DEF BeginLoginFails, TypeOK, CallTypeOK
  <2>7. CASE Shutdown(s)
    BY <1>a, <2>7 DEF Shutdown, Forget, Goto, TypeOK, Locations, Joining
  <2> QED BY <1>5, <2>1, <2>2, <2>3, <2>4, <2>5, <2>6, <2>7 DEF NodeStep
<1>6. ASSUME NEW s \in Sessions, RouteStep(s) PROVE TypeOK'
  <2>1. CASE TryAutoLoad(s)
    <3>1. at' \in [Sessions -> Locations]
      BY <2>1 DEF TryAutoLoad, Goto, TypeOK, Locations
    <3>2. util' \in Seq(Utils) /\ util' # <<>> /\ loaded' \in BOOLEAN /\ raced' \in BOOLEAN
      <4>1. CASE LoadHttpfs
        BY <4>1, UtilTypes DEF LoadHttpfs, TypeOK
      <4>2. CASE UNCHANGED <<utilVars, raced>>
        BY <4>2 DEF TypeOK
      <4> QED BY <2>1, <4>1, <4>2 DEF TryAutoLoad
    <3> QED BY <2>1, <3>1, <3>2 DEF TryAutoLoad, TypeOK
  <2>2. CASE AlreadyWrapped(s)
    BY <2>2, RouteTypes DEF AlreadyWrapped, Reported, TypeOK, CallTypeOK
  <2>3. CASE NotWrapped(s)
    BY <2>3 DEF NotWrapped, Goto, TypeOK, Locations
  <2>4. CASE SetHTTPUtil(s)
    <3>1. util' \in Seq(Utils) /\ util' # <<>> /\ current' \in [Sessions -> Seq(Utils)]
      BY <2>4, UtilTypes DEF SetHTTPUtil, TypeOK
    <3> QED BY <2>4, <3>1, RouteTypes DEF SetHTTPUtil, Reported, TypeOK, CallTypeOK
  <2> QED BY <1>6, <2>1, <2>2, <2>3, <2>4 DEF RouteStep
<1>7. CASE LoginUp
  <2>1. fleet' \in {NoFleet, Tailnet, Elsewhere} \cup Hubs
    BY <1>7, UrlTypes, NoUrl \in Urls \cup {NoUrl} DEF LoginUp, TypeOK
  <2> QED BY <1>7, <2>1 DEF LoginUp, TypeOK
<1>8. CASE LoginUpFails
  BY <1>8 DEF LoginUpFails, TypeOK
<1>9. CASE UserLoadsHttpfs
  BY <1>9, UtilTypes DEF UserLoadsHttpfs, LoadHttpfs, TypeOK
<1>10. CASE UNCHANGED vars
  BY <1>10 DEF vars, TypeOK
<1> QED BY <1>1, <1>2, <1>3, <1>5, <1>6, <1>7, <1>8, <1>9, <1>10 DEF Next
-----------------------------------------------------------------------------
(* The router.  Only its installation, and a user who loads httpfs, change   *)
(* what the router's part of the invariant is about.                        *)
LEMMA RouterFrame ==
    ASSUME RouterInv,
           UNCHANGED <<utilVars, current, routeHistory>>,
           \A u \in Sessions : Installing(u)' <=> Installing(u),
           \A u \in Sessions : at'[u] = "set" => at[u] = "set"
    PROVE  RouterInv'
  BY DEF RouterInv

LEMMA ElsewhereFrame ==
    ASSUME TypeOK, RouterInv,
           UNCHANGED <<utilVars, current, routeHistory>>,
           NEW s \in Sessions, at[s] \notin {"check", "set"},
           NEW there, at' = [at EXCEPT ![s] = there], there \notin {"check", "set"}
    PROVE  RouterInv'
<1>1. \A u \in Sessions : (Installing(u)' <=> Installing(u)) /\ (at'[u] = "set" => at[u] = "set")
  BY DEF TypeOK, Installing
<1> QED BY <1>1, RouterFrame

LEMMA NextRouter == TypeOK /\ RouterInv /\ [Next]_vars => RouterInv'
<1> SUFFICES ASSUME TypeOK, RouterInv, [Next]_vars PROVE RouterInv'
  OBVIOUS
<1>1. ASSUME NEW s \in Sessions, Call(s) PROVE RouterInv'
  <2>1. PICK st \in Statements : Goto(s, FirstStep(st))
    BY <1>1 DEF Call
  <2> QED BY <1>1, <2>1, FirstSteps, ElsewhereFrame DEF Call, Goto
<1>2. ASSUME NEW s \in Sessions, CallAgain(s) PROVE RouterInv'
  <2>1. stmt[s] \in Statements
    BY <1>2 DEF CallAgain, TypeOK
  <2> QED BY <1>2, <2>1, FirstSteps, ElsewhereFrame DEF CallAgain, Goto
<1>3. ASSUME NEW s \in Sessions, Throw(s) \/ Row(s) PROVE Goto(s, "idle")
  BY <1>3 DEF Throw, Row, Leave
<1>4. ASSUME NEW s \in Sessions, HubStep(s) PROVE RouterInv'
  <2>1. CASE Serve(s)
    <3>1. Goto(s, "url") \/ Goto(s, "idle")
      BY <1>3, <2>1 DEF Serve
    <3> QED BY <2>1, <3>1, ElsewhereFrame DEF Serve, Goto
  <2>2. CASE ServeFails(s)
    BY <1>3, <2>2, ElsewhereFrame DEF ServeFails, Goto
  <2>3. CASE ServeThrows(s)
    BY <1>3, <2>3, ElsewhereFrame DEF ServeThrows, Goto
  <2>4. CASE LocalControlURL(s)
    BY <2>4, ElsewhereFrame DEF LocalControlURL, Goto
  <2>5. CASE Stop(s)
    BY <2>5, ElsewhereFrame DEF Stop, Goto
  <2> QED BY <1>4, <2>1, <2>2, <2>3, <2>4, <2>5 DEF HubStep
<1>5. ASSUME NEW s \in Sessions, NodeStep(s) PROVE RouterInv'
  <2>1. CASE Up(s)
    BY <2>1, ElsewhereFrame DEF Up, Goto
  <2>2. CASE UpThrows(s)
    BY <1>3, <2>2, ElsewhereFrame DEF UpThrows, Goto
  <2>3. CASE UpFails(s)
    BY <1>3, <2>3, ElsewhereFrame DEF UpFails, Goto
  <2>4. CASE Status(s)
    <3>1. Goto(s, "autoload") \/ Goto(s, "idle")
      BY <1>3, <2>4 DEF Status
    <3>2. at[s] \notin {"check", "set"} /\ UNCHANGED <<utilVars, current, routeHistory>>
      BY <2>4 DEF Status
    <3>3. CASE Goto(s, "autoload")
      <4>1. at'[s] = "autoload" /\ \A u \in Sessions \ {s} : at'[u] = at[u]
        BY <3>3 DEF Goto, TypeOK
      <4>2. \A u \in Sessions : (Installing(u)' <=> Installing(u)) /\ (at'[u] = "set" => at[u] = "set")
        BY <3>2, <4>1 DEF Installing
      <4> QED BY <3>2, <4>2, RouterFrame
    <3>4. CASE Goto(s, "idle")
      BY <3>2, <3>4, ElsewhereFrame DEF Goto
    <3> QED BY <3>1, <3>3, <3>4
  <2>5. CASE BeginLogin(s)
    BY <1>3, <2>5, ElsewhereFrame DEF BeginLogin, Goto
  <2>6. CASE BeginLoginFails(s)
    BY <1>3, <2>6, ElsewhereFrame DEF BeginLoginFails, Goto
  <2>7. CASE Shutdown(s)
    BY <2>7, ElsewhereFrame DEF Shutdown, Goto
  <2> QED BY <1>5, <2>1, <2>2, <2>3, <2>4, <2>5, <2>6, <2>7 DEF NodeStep
<1>f. ASSUME NEW s \in Sessions, AfterRoute(s)
      PROVE  at'[s] \in {"idle", "login"} /\ \A u \in Sessions \ {s} : at'[u] = at[u]
  BY <1>3, <1>f DEF AfterRoute, Goto, TypeOK
<1>6. ASSUME NEW s \in Sessions, RouteStep(s) PROVE RouterInv'
  <2>1. CASE TryAutoLoad(s)
    <3>1. at'[s] = "check" /\ \A u \in Sessions : at'[u] = "set" <=> at[u] = "set"
      BY <2>1 DEF TryAutoLoad, Goto, TypeOK
    <3>2. CASE LoadHttpfs
      BY <2>1, <3>1, <3>2 DEF TryAutoLoad, LoadHttpfs, RouterInv, Installing
    <3>3. CASE UNCHANGED <<utilVars, raced>>
      BY <2>1, <3>1, <3>3 DEF TryAutoLoad, RouterInv, Installing
    <3> QED BY <2>1, <3>2, <3>3 DEF TryAutoLoad
  <2>2. CASE AlreadyWrapped(s)
    <3>1. util \in {<<"Tailscale", "builtin">>, <<"Tailscale", "httpfs">>}
      BY <2>2 DEF AlreadyWrapped, RouterInv
    <3>2. \A u \in Sessions : at'[u] = "set" => at[u] = "set"
      BY <1>f, <2>2 DEF AlreadyWrapped
    <3> QED BY <2>2, <3>1, <3>2 DEF AlreadyWrapped, RouterInv
  <2>3. CASE NotWrapped(s)
    <3>1. util \in {<<"builtin">>, <<"httpfs">>}
      BY <2>3 DEF NotWrapped, RouterInv
    <3>2. /\ at'[s] = "set" /\ current'[s] = util
          /\ \A u \in Sessions \ {s} : at'[u] = at[u] /\ current'[u] = current[u]
      BY <2>3 DEF NotWrapped, Goto, TypeOK
    <3> QED BY <2>3, <3>1, <3>2 DEF NotWrapped, RouterInv, Installing
  <2>4. CASE SetHTTPUtil(s)
    <3>1. current[s] \in {<<"builtin">>, <<"httpfs">>}
      BY <2>4 DEF SetHTTPUtil, RouterInv
    <3>2. /\ util' \in {<<"Tailscale", "builtin">>, <<"Tailscale", "httpfs">>}
          /\ current[s] = <<"httpfs">> => util' = <<"Tailscale", "httpfs">>
      BY <2>4, <3>1, Wrapped DEF SetHTTPUtil
    <3>3. /\ at'[s] # "set"
          /\ \A u \in Sessions \ {s} : at'[u] = at[u] /\ current'[u] = current[u]
      BY <1>f, <2>4 DEF SetHTTPUtil, TypeOK
    <3> QED BY <2>4, <3>2, <3>3 DEF SetHTTPUtil, RouterInv
  <2> QED BY <1>6, <2>1, <2>2, <2>3, <2>4 DEF RouteStep
<1>7. CASE LoginUp
  BY <1>7, RouterFrame DEF LoginUp, Installing
<1>8. CASE LoginUpFails
  BY <1>8, RouterFrame DEF LoginUpFails, Installing
<1>9. CASE UserLoadsHttpfs
  BY <1>9 DEF UserLoadsHttpfs, LoadHttpfs, RouterInv, TypeOK
<1>10. CASE UNCHANGED vars
  BY <1>10, RouterFrame DEF vars, Installing
<1> QED BY <1>1, <1>2, <1>3, <1>4, <1>5, <1>6, <1>7, <1>8, <1>9, <1>10 DEF Next
-----------------------------------------------------------------------------
(* The hub and the node.                                                    *)
LEMMA HubFrame ==
    ASSUME TypeOK, HubInv,
           UNCHANGED <<hub, bound, node, fleet, bindVars, callHistory>>,
           \A u \in Sessions : at'[u] = at[u] \/ at'[u] \notin {"serve", "url", "up", "status"}
    PROVE  HubInv'
  BY DEF HubInv, OnItsOwn, Keyed

(* What a step of one session leaves alone of the others.                   *)
OthersStay(s) ==
    \A u \in Sessions \ {s} :
        /\ at'[u] = at[u] /\ stmt'[u] = stmt[u] /\ control_url'[u] = control_url[u] /\ authkey'[u] = authkey[u]
        /\ own'[u] = own[u] /\ kept'[u] = kept[u] /\ retried'[u] = retried[u]
        /\ u \in disturbed' <=> u \in disturbed

(* A session's execution ends, or has reported what it joined; a node that is *)
(* up stays where it is.                                                    *)
LEMMA AsideFrame ==
    ASSUME HubInv, NEW s \in Sessions,
           at'[s] \notin {"serve", "url", "up", "status"}, OthersStay(s),
           UNCHANGED <<hub, bound>>, node = "up" => node' = "up" /\ fleet' = fleet
    PROVE  HubInv'
  BY DEF HubInv, OnItsOwn, Keyed, OthersStay

LEMMA Ends ==
    ASSUME TypeOK, NEW s \in Sessions, Throw(s) \/ Row(s)
    PROVE  at'[s] = "idle" /\ OthersStay(s)
<1>1. /\ at'[s] = "idle"
      /\ \A u \in Sessions \ {s} : /\ at'[u] = at[u] /\ own'[u] = own[u] /\ kept'[u] = kept[u]
                                 /\ retried'[u] = retried[u] /\ (u \in disturbed' <=> u \in disturbed)
  BY DEF Throw, Row, Leave, ForgetHistory, Goto, TypeOK
<1>2. \A u \in Sessions \ {s} : /\ stmt'[u] = stmt[u] /\ control_url'[u] = control_url[u]
                              /\ authkey'[u] = authkey[u]
  BY DEF Throw, Row, Forget, TypeOK
<1> QED BY <1>1, <1>2 DEF OthersStay

LEMMA AfterRouteAside ==
    ASSUME TypeOK, NEW s \in Sessions, AfterRoute(s)
    PROVE  at'[s] \in {"idle", "login"} /\ OthersStay(s)
<1>1. CASE Row(s)
  BY <1>1, Ends
<1>2. CASE Goto(s, "login") /\ UNCHANGED <<bindVars, callHistory>>
  BY <1>2 DEF Goto, TypeOK, OthersStay
<1> QED BY <1>1, <1>2 DEF AfterRoute

(* The other calls that rely on a hub have it running.                       *)
LEMMA NewHubFrame ==
    ASSUME HubInv, NEW s \in Sessions, hub = NoHub, hub' # NoHub, bound' \in Ports,
           UNCHANGED <<node, fleet>>, OthersStay(s),
           at'[s] \notin {"serve", "url", "up", "status"}
    PROVE  HubInv'
  BY DEF HubInv, OnItsOwn, Keyed, OthersStay

(* Stopping the hub or the node disturbs the calls that rely on them.        *)
LEMMA DisturbFrame ==
    ASSUME TypeOK, HubInv, NEW s \in Sessions, at[s] \in {"stop", "down"}, Goto(s, "idle"), Forget(s),
           disturbed' = disturbed \cup Joining,
           hub' \in {hub, NoHub}, UNCHANGED <<bound, own, kept, retried>>
    PROVE  HubInv'
<1>1. /\ at'[s] = "idle" /\ \A u \in Sessions \ {s} : at'[u] = at[u]
      /\ \A u \in Sessions \ {s} : /\ stmt'[u] = stmt[u] /\ control_url'[u] = control_url[u]
                                 /\ authkey'[u] = authkey[u]
  BY DEF Goto, Forget, TypeOK
<1>2. \A u \in Sessions : at'[u] \in {"serve", "url", "up", "status"} /\ stmt'[u].kind = "hub" => u \in disturbed'
  BY <1>1 DEF Joining
<1>3. \A u \in Sessions : at'[u] \in {"serve", "url", "up", "status"} => ~OnItsOwn(u)'
  BY <1>2 DEF OnItsOwn
<1> QED BY <1>1, <1>3 DEF HubInv

LEMMA NextHub == TypeOK /\ HubInv /\ [Next]_vars => HubInv'
<1> SUFFICES ASSUME TypeOK, HubInv, [Next]_vars PROVE HubInv'
  OBVIOUS
<1> USE CallsAssumption
<1>1. ASSUME NEW s \in Sessions, Call(s) PROVE HubInv'
  <2>1. PICK st \in Statements : /\ stmt' = [stmt EXCEPT ![s] = st]
                                 /\ control_url' = [control_url EXCEPT ![s] = st.control]
                                 /\ authkey' = [authkey EXCEPT ![s] = st.key]
                                 /\ Goto(s, FirstStep(st))
    BY <1>1 DEF Call
  <2>2. /\ at'[s] = FirstStep(st) /\ stmt'[s] = st /\ control_url'[s] = st.control /\ authkey'[s] = st.key
        /\ \A u \in Sessions \ {s} : /\ at'[u] = at[u] /\ stmt'[u] = stmt[u] /\ control_url'[u] = control_url[u]
                                   /\ authkey'[u] = authkey[u]
    BY <2>1 DEF Goto, TypeOK
  <2>3. /\ FirstStep(st) \notin {"url", "status"}
        /\ FirstStep(st) = "serve" <=> st.kind = "hub"
        /\ FirstStep(st) = "up" <=> st.kind = "up"
    BY FirstSteps
  <2> QED BY <1>1, <2>2, <2>3 DEF Call, HubInv, OnItsOwn, Keyed
<1>2. ASSUME NEW s \in Sessions, CallAgain(s) PROVE HubInv'
  <2>1. stmt[s] \in Statements
    BY <1>2 DEF CallAgain, TypeOK
  <2>2. FirstStep(stmt[s]) = "serve" <=> stmt[s].kind = "hub"
    BY <2>1, FirstSteps
  <2>3. /\ at'[s] = FirstStep(stmt[s]) /\ retried'[s] = TRUE
        /\ \A u \in Sessions \ {s} : at'[u] = at[u] /\ retried'[u] = retried[u]
    BY <1>2 DEF CallAgain, Goto, TypeOK
  <2>4. FirstStep(stmt[s]) # "url"
    BY <2>1, FirstSteps
  <2> QED BY <1>2, <2>2, <2>3, <2>4 DEF CallAgain, HubInv, OnItsOwn, Keyed
<1>4. ASSUME NEW s \in Sessions, HubStep(s) PROVE HubInv'
  <2>1. CASE Serve(s)
    <3>1. hub' # NoHub /\ hub' = hubs + 1 /\ bound' \in Ports /\ hub = NoHub /\ UNCHANGED <<node, fleet>>
      BY <2>1 DEF Serve, TypeOK, NoHub
    <3>2. CASE Row(s)
      BY <3>1, <3>2, Ends, NewHubFrame
    <3>3. CASE own' = [own EXCEPT ![s] = hubs + 1] /\ Goto(s, "url") /\ UNCHANGED <<bindVars, kept, retried, disturbed>>
      <4>1. /\ at'[s] = "url" /\ own'[s] = hub'
            /\ \A u \in Sessions \ {s} : at'[u] = at[u] /\ own'[u] = own[u]
        BY <3>1, <3>3 DEF Goto, TypeOK
      <4>2. \A u \in Sessions \ {s} : ~(OnItsOwn(u) /\ at[u] \in {"url", "up"})
        BY <3>1 DEF HubInv
      <4>3. stmt[s].kind = "hub" /\ (OnItsOwn(s) => control_url[s] = NoUrl /\ authkey[s] = stmt[s].key)
        BY <2>1 DEF Serve, HubInv
      <4> QED BY <3>1, <3>3, <4>1, <4>2, <4>3 DEF HubInv, OnItsOwn, Keyed
    <3> QED BY <2>1, <3>2, <3>3 DEF Serve
  <2>2. CASE ServeFails(s)
    BY <2>2, Ends, AsideFrame DEF ServeFails
  <2>3. CASE ServeThrows(s)
    <3>1. hub' # NoHub /\ bound' \in Ports /\ hub = NoHub /\ UNCHANGED <<node, fleet>>
      BY <2>3 DEF ServeThrows, TypeOK, NoHub
    <3> QED BY <2>3, <3>1, Ends, NewHubFrame DEF ServeThrows
  <2>4. CASE LocalControlURL(s)
    <3>1. /\ at'[s] = "up"
          /\ control_url'[s] = IF control_url[s] = NoUrl THEN bound ELSE control_url[s]
          /\ authkey'[s] = IF authkey[s] = NoKey THEN own[s] ELSE authkey[s]
          /\ \A u \in Sessions \ {s} : /\ at'[u] = at[u] /\ control_url'[u] = control_url[u]
                                     /\ authkey'[u] = authkey[u]
      BY <2>4 DEF LocalControlURL, TakeKey, Goto, TypeOK
    <3> QED BY <2>4, <3>1 DEF LocalControlURL, HubInv, OnItsOwn, Keyed
  <2>5. CASE Stop(s)
    BY <2>5, DisturbFrame DEF Stop
  <2> QED BY <1>4, <2>1, <2>2, <2>3, <2>4, <2>5 DEF HubStep
<1>5. ASSUME NEW s \in Sessions, NodeStep(s) PROVE HubInv'
  <2>1. CASE Up(s)
    <3>1. /\ at'[s] = "status" /\ kept'[s] = (stmt[s].kind = "hub" /\ node \in {"started", "up"}) /\ node' = "up"
          /\ \A u \in Sessions \ {s} : at'[u] = at[u] /\ kept'[u] = kept[u]
          /\ node = "up" => fleet' = fleet
      BY <2>1 DEF Up, Joins, Goto, TypeOK
    <3>2. OnItsOwn(s) /\ ~kept'[s] => fleet' = own[s]
      <4>1. SUFFICES ASSUME OnItsOwn(s), ~kept'[s] PROVE fleet' = own[s]
        OBVIOUS
      <4>2. hub = own[s] /\ hub # NoHub /\ control_url[s] = bound /\ bound \in Ports
        BY <2>1, <4>1 DEF Up, HubInv
      <4>3. node \in {"none", "made"} /\ control' = control_url[s]
        BY <2>1, <3>1, <4>1, <4>2 DEF Up, Joins, Applied, OnItsOwn, TypeOK, NoUrl
      <4>4. fleet' = Fleet(control_url[s])
        BY <2>1, <4>3 DEF Up, Joins
      <4> QED BY <4>2, <4>4 DEF Fleet, SaaS
    <3> QED BY <2>1, <3>1, <3>2 DEF Up, HubInv, OnItsOwn, Keyed
  <2>2. CASE UpThrows(s)
    BY <2>2, Ends, AsideFrame DEF UpThrows, Joins
  <2>3. CASE UpFails(s)
    BY <2>3, Ends, AsideFrame DEF UpFails
  <2>4. CASE Status(s)
    <3>1. at'[s] \in {"idle", "autoload"} /\ OthersStay(s)
      <4>1. CASE Row(s)
        BY <4>1, Ends
      <4>2. CASE running /\ stmt[s].route
        <5>1. /\ Goto(s, "autoload") /\ ForgetHistory(s)
              /\ stmt' = [stmt EXCEPT ![s].control = NoUrl, ![s].key = NoKey]
              /\ control_url' = [control_url EXCEPT ![s] = NoUrl]
              /\ authkey' = [authkey EXCEPT ![s] = NoKey]
          BY <2>4, <4>2 DEF Status
        <5> QED BY <5>1 DEF ForgetHistory, Goto, TypeOK, OthersStay
      <4> QED BY <2>4, <4>1, <4>2 DEF Status
    <3> QED BY <2>4, <3>1, AsideFrame DEF Status
  <2>5. CASE BeginLogin(s)
    BY <2>5, Ends, AsideFrame DEF BeginLogin
  <2>6. CASE BeginLoginFails(s)
    BY <2>6, Ends, AsideFrame DEF BeginLoginFails
  <2>7. CASE Shutdown(s)
    BY <2>7, DisturbFrame DEF Shutdown
  <2> QED BY <1>5, <2>1, <2>2, <2>3, <2>4, <2>5, <2>6, <2>7 DEF NodeStep
<1>6. ASSUME NEW s \in Sessions, RouteStep(s) PROVE HubInv'
  <2>1. CASE TryAutoLoad(s)
    BY <2>1, HubFrame DEF TryAutoLoad, Goto, TypeOK
  <2>2. CASE AlreadyWrapped(s)
    BY <2>2, AfterRouteAside, AsideFrame DEF AlreadyWrapped
  <2>3. CASE NotWrapped(s)
    BY <2>3, HubFrame DEF NotWrapped, Goto, TypeOK
  <2>4. CASE SetHTTPUtil(s)
    BY <2>4, AfterRouteAside, AsideFrame DEF SetHTTPUtil
  <2> QED BY <1>6, <2>1, <2>2, <2>3, <2>4 DEF RouteStep
<1>7. CASE LoginUp
  BY <1>7 DEF LoginUp, HubInv, OnItsOwn, Keyed
<1>8. CASE LoginUpFails
  BY <1>8, HubFrame DEF LoginUpFails
<1>9. CASE UserLoadsHttpfs
  BY <1>9, HubFrame DEF UserLoadsHttpfs
<1>10. CASE UNCHANGED vars
  BY <1>10, HubFrame DEF vars
<1> QED BY <1>1, <1>2, <1>4, <1>5, <1>6, <1>7, <1>8, <1>9, <1>10 DEF Next

-----------------------------------------------------------------------------
LEMMA InitInv == Init => IInv
<1> SUFFICES ASSUME Init PROVE IInv
  OBVIOUS
<1>1. TypeOK
  BY InitTypeOK
<1>2. RouterInv
  BY DEF Init, RouterInv
<1>3. HubInv
  BY DEF Init, HubInv, OnItsOwn, NoStatement, NoHub
<1> QED BY <1>1, <1>2, <1>3 DEF IInv

(* The conjunction of the three parts is inductive.                          *)
THEOREM Invariance == Spec => []IInv
<1>1. Init => IInv
  BY InitInv
<1>2. IInv /\ [Next]_vars => IInv'
  BY NextTypeOK, NextRouter, NextHub DEF IInv
<1> QED BY <1>1, <1>2, PTL DEF Spec

(* Type correctness.                                                        *)
THEOREM TypeCorrect == Spec => []TypeOK
<1>1. IInv => TypeOK
  BY DEF IInv
<1> QED BY <1>1, Invariance, PTL

(* quackscale_hub joins the hub it started.                                  *)
THEOREM NodeJoinsItsHub == Spec => []JoinsItsHub
<1>1. IInv => JoinsItsHub
  BY DEF IInv, HubInv, OnItsOwn, Keyed, JoinsItsHub, InItsHub
<1> QED BY <1>1, Invariance, PTL

(* A router never delegates to another one, however calls overlap.           *)
THEOREM RoutersAreNotStacked == Spec => []OneRouter
<1>1. IInv => OneRouter
  BY DEF IInv, RouterInv, OneRouter
<1> QED BY <1>1, Invariance, PTL

(* A running node that was reported with the route on is routed to.          *)
THEOREM ReportedIsRouted == Spec => []RoutedWhenRunning
<1>1. IInv => RoutedWhenRunning
  BY DEF IInv, RouterInv, Installing, RoutedWhenRunning
<1> QED BY <1>1, Invariance, PTL

(* The router keeps what httpfs serves within reach.                         *)
THEOREM HttpfsIsKept == Spec => []HttpfsStaysReachable
<1>1. IInv => HttpfsStaysReachable
  BY DEF IInv, RouterInv, HttpfsStaysReachable
<1> QED BY <1>1, Invariance, PTL
=============================================================================
