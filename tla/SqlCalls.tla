------------------------------- MODULE SqlCalls -------------------------------
(***************************************************************************)
(* The SQL functions that use the hub, the node and the HTTP router          *)
(* together: quackscale_hub, quackscale_stop, tailscale_up, tailscale_login  *)
(* and tailscale_down, called by several connections of one process.         *)
(*                                                                          *)
(* Each bridge guards its own calls with a lock of its own, and DBConfig the  *)
(* one HTTP util; nothing guards a function as a whole.  So quackscale_hub   *)
(* serves, asks for the address to join, joins and installs the router in    *)
(* separate steps, and the installation of the router is a check and a set.  *)
(*                                                                          *)
(* The functions keep their progress in their bind data, which a prepared    *)
(* statement keeps when it is executed again: after a row it does nothing    *)
(* any more, and after an exception it finds the control URL and the key of   *)
(* the failed attempt.  Here only bind data that differs from a new           *)
(* statement's is kept.                                                      *)
(* What happens inside the bridges is in WireboneHub and TailscaleBridge;    *)
(* libtailscale and httpfs are external.                                    *)
(***************************************************************************)
EXTENDS Naturals, Sequences

CONSTANTS
    Sessions,
    Ports,          \* where hubs listen
    GivenJoins,     \* the values [control, key] of control_url and authkey that users give
    MaxHubs         \* bound on the hubs that are started

(* A control URL is the port of a hub on this host, or Tailscale's; a fleet  *)
(* is that of a hub, the tailnet of Tailscale's control plane, or that of     *)
(* another process's control plane.  A key is a hub's bootstrap key or the    *)
(* user's.                                                                  *)
NoUrl == 0
SaaS == 1
Urls == Ports \cup {SaaS}
Hubs == 1 .. MaxHubs
NoHub == 0
NoFleet == 0
Tailnet == MaxHubs + 1
Elsewhere == MaxHubs + 2
NoKey == 0
UserKey == MaxHubs + 1

ASSUME CallsAssumption ==
    /\ MaxHubs \in Nat
    /\ Ports \subseteq Nat \ {NoUrl, SaaS}
    /\ GivenJoins \subseteq [control : {NoUrl} \cup Urls, key : {NoKey, UserKey}]

(* Only quackscale_hub can do without joining; a join may name its control   *)
(* plane and its key, and refuse the route.                                 *)
NothingGiven == [control |-> NoUrl, key |-> NoKey]
Kinds == {"hub", "stop", "up", "login", "down"}
Statements ==
    {st \in [kind : Kinds, control : {NoUrl} \cup Urls, key : {NoKey, UserKey}, join : BOOLEAN, route : BOOLEAN] :
       LET given == [control |-> st.control, key |-> st.key]
       IN /\ given \in {NothingGiven} \cup GivenJoins
          /\ st.kind # "hub" => st.join = (st.kind \in {"up", "login"})
          /\ ~st.join => given = NothingGiven /\ ~st.route}
NoStatement == [kind |-> "none", control |-> NoUrl, key |-> NoKey, join |-> FALSE, route |-> FALSE]

VARIABLES
    hub,            \* the hub that runs, NoHub
    hubs,           \* how many there were
    bound,          \* last.bound: the port of the latest hub, kept when it stops
    node,           \* "none" (no handle), "made", "started" or "up"
    control,        \* the control URL set on the handle
    fleet,          \* what the node that is up has joined
    running,        \* TailscaleBridge::running
    login,          \* the login thread runs
    util,           \* the HTTP util in use and those it delegates to
    loaded,         \* httpfs is loaded
    at,             \* where each session's call is
    stmt,           \* bind data: the arguments
    control_url,    \*            ... join.control_url
    authkey,        \*            ... join.authkey: the hub whose key it is, or the user's
    current,        \* the util that RegisterTailscaleHTTPUtil found
    own,            \* history: the hub this call of quackscale_hub started
    kept,           \* history: the call found a server that was started before
    retried,        \* history: the call executes a statement that threw
    disturbed,      \* history: another call stopped the hub or the node meanwhile
    routed,         \* history: some call reported a running node, with the route
    displaced,      \* history: LOAD httpfs took the router's place
    raced           \* history: httpfs was loaded between a check and its set

hubVars == <<hub, hubs, bound>>
nodeVars == <<node, control, fleet, running, login>>
utilVars == <<util, loaded>>
bindVars == <<stmt, control_url, authkey>>
callHistory == <<own, kept, retried, disturbed>>
routeHistory == <<routed, displaced, raced>>
vars == <<hubVars, nodeVars, utilVars, at, bindVars, current, callHistory, routeHistory>>

Init ==
    /\ hub = NoHub /\ hubs = 0 /\ bound = 0
    /\ node = "none" /\ control = SaaS /\ fleet = NoFleet
    /\ running = FALSE /\ login = FALSE
    /\ util = <<"builtin">> /\ loaded = FALSE
    /\ at = [s \in Sessions |-> "idle"]
    /\ stmt = [s \in Sessions |-> NoStatement]
    /\ control_url = [s \in Sessions |-> NoUrl]
    /\ authkey = [s \in Sessions |-> NoKey]
    /\ current = [s \in Sessions |-> <<>>]
    /\ own = [s \in Sessions |-> NoHub]
    /\ kept = [s \in Sessions |-> FALSE]
    /\ retried = [s \in Sessions |-> FALSE]
    /\ disturbed = {}
    /\ routed = FALSE /\ displaced = FALSE /\ raced = FALSE

Goto(s, there) == at' = [at EXCEPT ![s] = there]

(* The calls of quackscale_hub that have yet to report what they joined.    *)
Joining == {s \in Sessions : stmt[s].kind = "hub" /\ at[s] \in {"serve", "url", "up", "status"}}

-----------------------------------------------------------------------------
(* A statement is bound and executed.                                       *)
FirstStep(st) ==
    CASE st.kind = "hub" -> "serve"
      [] st.kind = "up" -> "up"
      [] st.kind = "login" -> IF st.route THEN "autoload" ELSE "login"
      [] OTHER -> st.kind

Call(s) ==
    /\ at[s] = "idle"
    /\ \E st \in Statements :
         /\ stmt' = [stmt EXCEPT ![s] = st]
         /\ control_url' = [control_url EXCEPT ![s] = st.control]
         /\ authkey' = [authkey EXCEPT ![s] = st.key]
         /\ Goto(s, FirstStep(st))
    /\ UNCHANGED <<hubVars, nodeVars, utilVars, current, callHistory, routeHistory>>

(* A prepared statement that threw is executed again.                       *)
CallAgain(s) ==
    /\ at[s] = "idle"
    /\ stmt[s] # NoStatement
    /\ retried' = [retried EXCEPT ![s] = TRUE]
    /\ Goto(s, FirstStep(stmt[s]))
    /\ UNCHANGED <<hubVars, nodeVars, utilVars, bindVars, current, own, kept, disturbed, routeHistory>>

ForgetHistory(s) ==
    /\ own' = [own EXCEPT ![s] = NoHub]
    /\ kept' = [kept EXCEPT ![s] = FALSE]
    /\ retried' = [retried EXCEPT ![s] = FALSE]
    /\ disturbed' = disturbed \ {s}

Leave(s) == Goto(s, "idle") /\ ForgetHistory(s)

Forget(s) ==
    /\ stmt' = [stmt EXCEPT ![s] = NoStatement]
    /\ control_url' = [control_url EXCEPT ![s] = NoUrl]
    /\ authkey' = [authkey EXCEPT ![s] = NoKey]

Throw(s) ==
    /\ Leave(s)
    /\ IF control_url[s] = stmt[s].control /\ authkey[s] = stmt[s].key
       THEN Forget(s)
       ELSE UNCHANGED bindVars

(* The row is emitted, and finished is set.                                 *)
Row(s) == Leave(s) /\ Forget(s)

-----------------------------------------------------------------------------
(* WireboneBridge::Serve, on any port; it throws for any of its failures,    *)
(* and when a hub runs, be it the one of this statement's failed attempt.    *)
Serve(s) ==
    /\ at[s] = "serve"
    /\ hub = NoHub
    /\ hubs < MaxHubs
    /\ hub' = hubs + 1
    /\ hubs' = hubs + 1
    /\ bound' \in Ports
    /\ \/ /\ stmt[s].join
          /\ own' = [own EXCEPT ![s] = hubs + 1]
          /\ Goto(s, "url")
          /\ UNCHANGED <<bindVars, kept, retried, disturbed>>
       \/ ~stmt[s].join /\ Row(s)
    /\ UNCHANGED <<nodeVars, utilVars, current, routeHistory>>

ServeFails(s) ==
    /\ at[s] = "serve"
    /\ Throw(s)
    /\ UNCHANGED <<hubVars, nodeVars, utilVars, current, routeHistory>>

(* It throws once the hub runs and is published: for the key or the suffix.  *)
ServeThrows(s) ==
    /\ at[s] = "serve"
    /\ hub = NoHub
    /\ hubs < MaxHubs
    /\ hub' = hubs + 1
    /\ hubs' = hubs + 1
    /\ bound' \in Ports
    /\ Throw(s)
    /\ UNCHANGED <<nodeVars, utilVars, current, routeHistory>>

(* The key of the hub that this call started, unless there is one.           *)
TakeKey(s) == authkey' = [authkey EXCEPT ![s] = IF @ = NoKey THEN own[s] ELSE @]

(* Mutant: the node joins what control_url says.                            *)
JoinAsTold(s) ==
    /\ at[s] = "url"
    /\ TakeKey(s)
    /\ Goto(s, "up")
    /\ UNCHANGED <<hubVars, nodeVars, utilVars, stmt, control_url, current, callHistory, routeHistory>>

(* LocalControlURL and the key that Serve returned, unless they were given,  *)
(* or are left of a failed execution.                                       *)
LocalControlURL(s) ==
    /\ at[s] = "url"
    /\ control_url' = [control_url EXCEPT ![s] = IF @ = NoUrl THEN bound ELSE @]
    /\ TakeKey(s)
    /\ Goto(s, "up")
    /\ UNCHANGED <<hubVars, nodeVars, utilVars, stmt, current, callHistory, routeHistory>>

Stop(s) ==
    /\ at[s] = "stop"
    /\ hub' = NoHub
    /\ disturbed' = disturbed \cup Joining
    /\ Goto(s, "idle")
    /\ Forget(s)
    /\ UNCHANGED <<hubs, bound, nodeVars, utilVars, current, own, kept, retried, routeHistory>>

-----------------------------------------------------------------------------
(* The node.  A tsnet server keeps the control URL it was started with: one  *)
(* that is set later changes nothing until tailscale_down closed the server. *)
Applied(url) == IF url # NoUrl /\ node \in {"none", "made"} THEN url ELSE control

(* The fleet that a control URL leads to: the port of no hub of ours may be   *)
(* another process's.  Whether the key or its identity lets the node in is   *)
(* external.                                                                *)
Fleet(url) == IF url = SaaS THEN Tailnet ELSE IF hub # NoHub /\ bound = url THEN hub ELSE Elsewhere

(* ApplyConfig, tailscale_up, running = true.                               *)
Joins(s) ==
    /\ control' = Applied(control_url[s])
    /\ fleet' = IF node = "up" THEN fleet ELSE Fleet(control')
    /\ node' = "up"
    /\ running' = TRUE

Up(s) ==
    /\ at[s] = "up" /\ ~login
    /\ Joins(s)
    /\ kept' = [kept EXCEPT ![s] = stmt[s].kind = "hub" /\ node \in {"started", "up"}]
    /\ Goto(s, "status")
    /\ UNCHANGED <<hubVars, login, utilVars, bindVars, current, own, retried, disturbed, routeHistory>>

(* The loopback proxy fails, with the node up.                              *)
UpThrows(s) ==
    /\ at[s] = "up" /\ ~login
    /\ Joins(s)
    /\ Throw(s)
    /\ UNCHANGED <<hubVars, login, utilVars, current, routeHistory>>

(* ApplyConfig or tailscale_up throws.                                      *)
UpFails(s) ==
    /\ at[s] = "up" /\ ~login
    /\ \/ UNCHANGED <<node, control>>
       \/ /\ node' = IF node = "none" THEN "made" ELSE node
          /\ control' \in {control, Applied(control_url[s])}
       \/ /\ node' = IF node = "up" THEN "up" ELSE "started"
          /\ control' = Applied(control_url[s])
    /\ Throw(s)
    /\ UNCHANGED <<hubVars, fleet, running, login, utilVars, current, routeHistory>>

(* Status(): the route is installed when the node runs; the control URL and  *)
(* the key are not read any more.                                           *)
Status(s) ==
    /\ at[s] = "status"
    /\ \/ /\ running /\ stmt[s].route
          /\ Goto(s, "autoload")
          /\ ForgetHistory(s)
          /\ stmt' = [stmt EXCEPT ![s].control = NoUrl, ![s].key = NoKey]
          /\ control_url' = [control_url EXCEPT ![s] = NoUrl]
          /\ authkey' = [authkey EXCEPT ![s] = NoKey]
       \/ ~(running /\ stmt[s].route) /\ Row(s)
    /\ UNCHANGED <<hubVars, nodeVars, utilVars, current, routeHistory>>

(* BeginInteractiveLogin, and the thread it starts.                         *)
BeginLogin(s) ==
    /\ at[s] = "login" /\ ~login
    /\ control' = Applied(control_url[s])
    /\ node' = IF node = "up" THEN "up" ELSE "started"
    /\ running' = FALSE
    /\ login' = TRUE
    /\ Row(s)
    /\ UNCHANGED <<hubVars, fleet, utilVars, current, routeHistory>>

BeginLoginFails(s) ==
    /\ at[s] = "login" /\ ~login
    /\ node' \in {node, IF node = "none" THEN "made" ELSE node}
    /\ control' \in {control, Applied(control_url[s])}
    /\ Throw(s)
    /\ UNCHANGED <<hubVars, fleet, running, login, utilVars, current, routeHistory>>

LoginUp ==
    /\ login
    /\ fleet' = IF node = "up" THEN fleet ELSE Fleet(control)
    /\ node' = "up"
    /\ running' = TRUE
    /\ login' = FALSE
    /\ UNCHANGED <<hubVars, control, utilVars, at, bindVars, current, callHistory, routeHistory>>

LoginUpFails ==
    /\ login
    /\ login' = FALSE
    /\ UNCHANGED <<hubVars, node, control, fleet, running, utilVars, at, bindVars, current, callHistory, routeHistory>>

(* Shutdown.  What becomes of a login thread that it detaches is the subject *)
(* of TailscaleBridge: here tailscale_down is called when no login runs.     *)
Shutdown(s) ==
    /\ at[s] = "down" /\ ~login
    /\ node' = "none" /\ control' = SaaS /\ fleet' = NoFleet
    /\ running' = FALSE
    /\ disturbed' = disturbed \cup Joining
    /\ Goto(s, "idle")
    /\ Forget(s)
    /\ UNCHANGED <<hubVars, login, utilVars, current, own, kept, retried, routeHistory>>

-----------------------------------------------------------------------------
(* RegisterTailscaleHTTPUtil.  httpfs makes its own util the one in use when *)
(* it is loaded.                                                            *)
LoadHttpfs ==
    /\ ~loaded
    /\ loaded' = TRUE
    /\ util' = <<"httpfs">>
    /\ raced' = (raced \/ \E u \in Sessions : at[u] = "set")

TryAutoLoad(s) ==
    /\ at[s] = "autoload"
    /\ Goto(s, "check")
    /\ LoadHttpfs \/ UNCHANGED <<utilVars, raced>>
    /\ UNCHANGED <<hubVars, nodeVars, bindVars, current, callHistory, routed, displaced>>

(* The router is there: tailscale_login goes on, the others return.          *)
AfterRoute(s) ==
    \/ stmt[s].kind = "login" /\ Goto(s, "login") /\ UNCHANGED <<bindVars, callHistory>>
    \/ stmt[s].kind # "login" /\ Row(s)

Reported(s) == routed' = (routed \/ stmt[s].kind \in {"hub", "up"})

(* Mutant: a flag tells whether the router was installed.                   *)
InstalledBefore(s) ==
    /\ at[s] = "check"
    /\ routed
    /\ AfterRoute(s)
    /\ Reported(s)
    /\ UNCHANGED <<hubVars, nodeVars, utilVars, current, displaced, raced>>

AlreadyWrapped(s) ==
    /\ at[s] = "check"
    /\ Head(util) = "Tailscale"
    /\ AfterRoute(s)
    /\ Reported(s)
    /\ UNCHANGED <<hubVars, nodeVars, utilVars, current, displaced, raced>>

NotWrapped(s) ==
    /\ at[s] = "check"
    /\ Head(util) # "Tailscale"
    /\ current' = [current EXCEPT ![s] = util]
    /\ Goto(s, "set")
    /\ UNCHANGED <<hubVars, nodeVars, utilVars, bindVars, callHistory, routeHistory>>

(* Mutant: the util to delegate to is looked up again.                      *)
WrapLatest(s) ==
    /\ at[s] = "set"
    /\ util' = <<"Tailscale">> \o util
    /\ current' = [current EXCEPT ![s] = <<>>]
    /\ displaced' = FALSE
    /\ AfterRoute(s)
    /\ Reported(s)
    /\ UNCHANGED <<hubVars, nodeVars, loaded, raced>>

(* Mutant: the router delegates to the util that DuckDB came with.          *)
WrapBuiltin(s) ==
    /\ at[s] = "set"
    /\ util' = <<"Tailscale", "builtin">>
    /\ current' = [current EXCEPT ![s] = <<>>]
    /\ displaced' = FALSE
    /\ AfterRoute(s)
    /\ Reported(s)
    /\ UNCHANGED <<hubVars, nodeVars, loaded, raced>>

SetHTTPUtil(s) ==
    /\ at[s] = "set"
    /\ util' = <<"Tailscale">> \o current[s]
    /\ current' = [current EXCEPT ![s] = <<>>]
    /\ displaced' = FALSE
    /\ AfterRoute(s)
    /\ Reported(s)
    /\ UNCHANGED <<hubVars, nodeVars, loaded, raced>>

(* LOAD httpfs, by a statement of the user.                                 *)
UserLoadsHttpfs ==
    /\ LoadHttpfs
    /\ displaced' = TRUE
    /\ UNCHANGED <<hubVars, nodeVars, at, bindVars, current, callHistory, routed>>

-----------------------------------------------------------------------------
HubStep(s) == Serve(s) \/ ServeFails(s) \/ ServeThrows(s) \/ LocalControlURL(s) \/ Stop(s)
NodeStep(s) ==
    \/ Up(s) \/ UpThrows(s) \/ UpFails(s) \/ Status(s)
    \/ BeginLogin(s) \/ BeginLoginFails(s) \/ Shutdown(s)
RouteStep(s) == TryAutoLoad(s) \/ AlreadyWrapped(s) \/ NotWrapped(s) \/ SetHTTPUtil(s)

Next ==
    \/ \E s \in Sessions : Call(s) \/ CallAgain(s) \/ HubStep(s) \/ NodeStep(s) \/ RouteStep(s)
    \/ LoginUp \/ LoginUpFails \/ UserLoadsHttpfs

Spec == Init /\ [][Next]_vars

-----------------------------------------------------------------------------
Locations == {"idle", "serve", "url", "stop", "up", "status", "login", "down", "autoload", "check", "set"}
Utils == {"builtin", "httpfs", "Tailscale"}

TypeOK ==
    /\ hubs \in 0 .. MaxHubs /\ hub \in {NoHub} \cup Hubs
    /\ bound \in {0} \cup Ports
    /\ node \in {"none", "made", "started", "up"}
    /\ control \in Urls
    /\ fleet \in {NoFleet, Tailnet, Elsewhere} \cup Hubs
    /\ running \in BOOLEAN /\ login \in BOOLEAN /\ loaded \in BOOLEAN
    /\ util \in Seq(Utils) /\ util # <<>>
    /\ at \in [Sessions -> Locations]
    /\ stmt \in [Sessions -> Statements \cup {NoStatement}]
    /\ control_url \in [Sessions -> Urls \cup {NoUrl}]
    /\ authkey \in [Sessions -> {NoKey, UserKey} \cup Hubs]
    /\ current \in [Sessions -> Seq(Utils)]
    /\ own \in [Sessions -> {NoHub} \cup Hubs]
    /\ kept \in [Sessions -> BOOLEAN] /\ retried \in [Sessions -> BOOLEAN]
    /\ disturbed \subseteq Sessions
    /\ routed \in BOOLEAN /\ displaced \in BOOLEAN /\ raced \in BOOLEAN

(* The call has brought up the node in the fleet of the hub that it started, *)
(* with that hub's key unless the user gave one.                            *)
InItsHub(s) == node = "up" /\ fleet = own[s] /\ (stmt[s].key = NoKey => authkey[s] = own[s])

(* quackscale_hub, without a control URL of the user's, joins the hub that    *)
(* this call started, whatever other sessions do to the node in between and   *)
(* whatever failed calls left behind of hubs, handles and control URLs: unless *)
(* it found a server that was started before, or another session stopped the  *)
(* hub or the node in between, or the statement had thrown before and keeps    *)
(* the control URL and the key of that attempt.                             *)
JoinsItsHub ==
    \A s \in Sessions \ disturbed :
        at[s] = "status" /\ stmt[s].kind = "hub" /\ stmt[s].control = NoUrl /\ ~kept[s] /\ ~retried[s] => InItsHub(s)

(* The same of every execution.                                             *)
RetriesJoinTheirHub ==
    \A s \in Sessions \ disturbed :
        at[s] = "status" /\ stmt[s].kind = "hub" /\ stmt[s].control = NoUrl /\ ~kept[s] => InItsHub(s)

(* However many calls install the router at a time, it never delegates to    *)
(* another router: a request to a tailnet host passes one pool of clients.   *)
OneRouter ==
    \A i, j \in DOMAIN util : util[i] = "Tailscale" /\ util[j] = "Tailscale" => i = j

(* Once a call has reported a running node with the route on, requests go    *)
(* through the router, except while some call is about to install it again   *)
(* and after the user loaded httpfs over it.                                *)
RoutedWhenRunning ==
    routed /\ ~displaced /\ (\A s \in Sessions : at[s] \notin {"check", "set"}) =>
        Head(util) = "Tailscale"

(* Once httpfs is loaded, requests to other hosts reach it through the       *)
(* router, unless it was loaded between a call's check and its set.          *)
HttpfsStaysReachable ==
    loaded /\ ~raced => \E i \in DOMAIN util : util[i] = "httpfs"
=============================================================================
