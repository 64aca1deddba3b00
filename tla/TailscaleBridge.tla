--------------------------- MODULE TailscaleBridge ---------------------------
(***************************************************************************)
(* TailscaleBridge: the one tailnet node of the process.  SQL sessions call  *)
(* Up, BeginInteractiveLogin, Shutdown, EnableQuackProxy, StartQuackForward, *)
(* DialTCP and PingTCP under g_tailscale_mutex; an interactive login leaves  *)
(* a thread behind that joins the tailnet and then writes the bridge's       *)
(* fields without the mutex, which it takes only to start the proxy.         *)
(*                                                                          *)
(* libtailscale is external: tailscale_new returns a handle never used       *)
(* before, tailscale_up may succeed or fail, also on a handle that is being  *)
(* closed, and prints the login URL of its node to the log fd on the way.    *)
(* The forwarder is here the handle it dials with and the handles its relay  *)
(* threads hold, which take the mutex to dial; its accept thread is in        *)
(* module Forwarder.  A thread of the bridge is taken to be created.          *)
(***************************************************************************)
EXTENDS Naturals

CONSTANTS
    Sessions,       \* threads that run SQL
    NoSession,      \* nobody holds g_tailscale_mutex
    MaxHandles,     \* bound on the handles tailscale_new gives out before it fails
    MaxLogins,      \* bound on the login threads started
    CloseWakesAccept, \* TRUE where close() is sure to interrupt the forwarder's accept()
    AsksForLogin,   \* TRUE where a node is not authorised by a key and waits for the browser
    LoginProxy,     \* the values of loopback_proxy that logins may ask for
    UserProxies     \* what [upper |-> ALL_PROXY, lower |-> all_proxy] may be before the process starts

ASSUME BridgeAssumption ==
    /\ NoSession \notin Sessions
    /\ MaxHandles \in Nat /\ MaxLogins \in Nat
    /\ CloseWakesAccept \in BOOLEAN /\ AsksForLogin \in BOOLEAN
    /\ LoginProxy \subseteq BOOLEAN
    /\ \A e \in UserProxies : DOMAIN e = {"upper", "lower"} /\ e.upper # "tsnet" /\ e.lower # "tsnet"

Handles == 1 .. MaxHandles
NoHandle == 0           \* handle = -1
Logins == 1 .. MaxLogins
NoLogin == 0            \* login_thread is not joinable
NoUrl == 0              \* the empty string

VARIABLES
    mutex,              \* the session inside a call that holds g_tailscale_mutex
    at,                 \* where each session is in its call
    wants_proxy,        \* config.loopback_proxy of the session's call
    ts_handle,          \* the handle a session copied under the mutex
    handle,
    node,               \* libtailscale's server behind each handle
    running, ips, login_state,
    pending_login_url,  \* the handle whose login URL it is, or NoUrl
    log_buffer,         \* the first login URL in the capture buffer, or NoUrl
    capture,            \* the handle whose log fd is the capture's pipe
    login_thread,
    lpc,                \* where each login thread is
    login_handle,       \* the handle it passed to tailscale_up
    login_proxy,        \* its config_copy.loopback_proxy
    proxy,              \* proxy_status: [enabled, active]
    env,                \* the process's ALL_PROXY and all_proxy
    saved_proxy_env,    \* saved_proxy_env.all_proxy_value
    user_env,           \* env at the start of the process (history)
    forward,            \* the handle the active forward dials with, or NoHandle
    dialing,            \* the handles that relay threads have yet to dial with
    downed,             \* Shutdown returned and no join was asked for since (history)
    detached,           \* login threads that Shutdown left running (history)
    overtaken,          \* Shutdown ran between a thread's copy of the handle and its use (history)
    terminated          \* an exception left a login thread

sessionVars == <<mutex, at, wants_proxy, ts_handle>>
nodeVars == <<handle, node>>
statusVars == <<running, ips, login_state, pending_login_url>>
logVars == <<log_buffer, capture>>
loginVars == <<login_thread, lpc, login_handle, login_proxy>>
proxyVars == <<proxy, env, saved_proxy_env>>
forwardVars == <<forward, dialing>>
history == <<user_env, downed, detached, overtaken>>
vars == <<sessionVars, nodeVars, statusVars, logVars, loginVars, proxyVars, forwardVars, history, terminated>>

NoProxy == [enabled |-> FALSE, active |-> FALSE]

Init ==
    /\ mutex = NoSession
    /\ at = [s \in Sessions |-> "idle"]
    /\ wants_proxy = [s \in Sessions |-> FALSE]
    /\ ts_handle = [s \in Sessions |-> NoHandle]
    /\ handle = NoHandle
    /\ node = [h \in Handles |-> "none"]
    /\ running = FALSE /\ ips = FALSE
    /\ login_state = "idle"
    /\ pending_login_url = NoUrl
    /\ log_buffer = NoUrl
    /\ capture = NoHandle
    /\ login_thread = NoLogin
    /\ lpc = [l \in Logins |-> "none"]
    /\ login_handle = [l \in Logins |-> NoHandle]
    /\ login_proxy = [l \in Logins |-> FALSE]
    /\ proxy = NoProxy
    /\ env \in UserProxies
    /\ saved_proxy_env = "unset"
    /\ user_env = env
    /\ forward = NoHandle
    /\ dialing = {}
    /\ downed = FALSE
    /\ detached = {}
    /\ overtaken = FALSE
    /\ terminated = FALSE

-----------------------------------------------------------------------------
Lock(s, there) ==
    /\ at[s] = "idle" /\ mutex = NoSession
    /\ mutex' = s
    /\ at' = [at EXCEPT ![s] = there]

Goto(s, there) ==
    /\ at' = [at EXCEPT ![s] = there]
    /\ UNCHANGED <<mutex, wants_proxy, ts_handle>>

(* The call of a session returns or throws; a lock it holds is released.    *)
Return(s) ==
    /\ mutex' = IF mutex = s THEN NoSession ELSE mutex
    /\ at' = [at EXCEPT ![s] = "idle"]
    /\ wants_proxy' = [wants_proxy EXCEPT ![s] = FALSE]
    /\ ts_handle' = [ts_handle EXCEPT ![s] = NoHandle]

Finished(l) == lpc[l] \in {"none", "done"}

(* Mutant: a handle is made although there is one.                          *)
AlwaysNewHandle ==
    \E h \in Handles :
        /\ node[h] = "none" /\ \A g \in 1 .. h - 1 : node[g] # "none"
        /\ handle' = h
        /\ node' = [node EXCEPT ![h] = "new"]

(* EnsureHandle: keep the handle, or tailscale_new.                         *)
EnsureHandle ==
    \/ handle # NoHandle /\ UNCHANGED nodeVars
    \/ /\ handle = NoHandle
       /\ \E h \in Handles :
            /\ node[h] = "none" /\ \A g \in 1 .. h - 1 : node[g] # "none"
            /\ handle' = h
            /\ node' = [node EXCEPT ![h] = "new"]

(* tailscale_getips(h)                                                      *)
Addresses(h) ==
    IF h = NoHandle THEN {FALSE}
    ELSE CASE node[h] = "up" -> {TRUE}
           [] node[h] = "closing" -> BOOLEAN
           [] OTHER -> {FALSE}

(* StartLoopbackProxy: it does nothing, it throws, or it takes over the     *)
(* environment.  Only ALL_PROXY is saved; an exception leaves the handle    *)
(* that EnsureHandle made.                                                  *)
ProxyRuns == proxy.active /\ proxy' = [proxy EXCEPT !.enabled = TRUE] /\ UNCHANGED <<env, saved_proxy_env, nodeVars>>

ProxyThrows ==
    /\ ~proxy.active
    /\ proxy' = [proxy EXCEPT !.enabled = TRUE]
    /\ UNCHANGED nodeVars \/ (running /\ EnsureHandle)
    /\ UNCHANGED <<env, saved_proxy_env>>

ProxyStarts ==
    /\ ~proxy.active /\ running
    /\ EnsureHandle
    /\ saved_proxy_env' = env.upper
    /\ env' = [upper |-> "tsnet", lower |-> "tsnet"]
    /\ proxy' = [enabled |-> TRUE, active |-> TRUE]

(* MaybeStartLoopbackProxy(enable)                                          *)
MaybeStartLoopbackProxy(enable) ==
    IF enable
    THEN ProxyRuns \/ ProxyThrows \/ ProxyStarts
    ELSE /\ proxy' = [proxy EXCEPT !.enabled = FALSE]
         /\ UNCHANGED <<env, saved_proxy_env, nodeVars>>

(* Mutant: the user's proxy is not given back.                              *)
UnsetProxyEnvironment ==
    IF proxy.active
    THEN /\ env' = [upper |-> "unset", lower |-> "unset"]
         /\ proxy' = NoProxy
         /\ saved_proxy_env' = "unset"
    ELSE UNCHANGED proxyVars

(* ClearProxyEnvironment: both spellings get what ALL_PROXY was.            *)
ClearProxyEnvironment ==
    IF proxy.active
    THEN /\ env' = [upper |-> saved_proxy_env, lower |-> saved_proxy_env]
         /\ proxy' = NoProxy
         /\ saved_proxy_env' = "unset"
    ELSE UNCHANGED proxyVars

-----------------------------------------------------------------------------
(* Up and BeginInteractiveLogin: lock, JoinLoginThread, ApplyConfig.        *)
Begin(s, there, p) ==
    /\ Lock(s, there)
    /\ wants_proxy' = [wants_proxy EXCEPT ![s] = p]
    /\ downed' = FALSE
    /\ UNCHANGED <<ts_handle, nodeVars, statusVars, logVars, loginVars, proxyVars, forwardVars,
                   user_env, detached, overtaken, terminated>>

BeginUp(s) == \E p \in BOOLEAN : Begin(s, "up_join", p)
BeginLogin(s) == \E p \in LoginProxy : (\E l \in Logins : lpc[l] = "none") /\ Begin(s, "login_join", p)

JoinLoginThread(s) ==
    /\ \/ at[s] = "up_join" /\ Goto(s, "up_configure")
       \/ at[s] = "login_join" /\ Goto(s, "login_start")
    /\ login_thread # NoLogin => Finished(login_thread)
    /\ login_thread' = NoLogin
    /\ UNCHANGED <<nodeVars, statusVars, logVars, lpc, login_handle, login_proxy, proxyVars,
                   forwardVars, history, terminated>>

ApplyConfig(s) ==
    /\ at[s] = "up_configure"
    /\ EnsureHandle
    /\ Goto(s, "up_call")
    /\ UNCHANGED <<statusVars, logVars, loginVars, proxyVars, forwardVars, history, terminated>>

(* tailscale_new or one of the setters failed.                              *)
ApplyConfigFails(s) ==
    /\ at[s] \in {"up_configure", "login_start"}
    /\ UNCHANGED nodeVars \/ EnsureHandle
    /\ Return(s)
    /\ UNCHANGED <<statusVars, logVars, loginVars, proxyVars, forwardVars, history, terminated>>

(* tailscale_up returned 0.                                                 *)
UpSucceeds(s) ==
    /\ at[s] = "up_call"
    /\ node' = [node EXCEPT ![handle] = "up"]
    /\ running' = TRUE
    /\ login_state' = "up"
    /\ ips' = TRUE
    /\ Goto(s, "up_proxy")
    /\ UNCHANGED <<handle, pending_login_url, logVars, loginVars, proxyVars, forwardVars, history, terminated>>

UpFails(s) ==
    /\ at[s] = "up_call"
    /\ Return(s)
    /\ UNCHANGED <<nodeVars, statusVars, logVars, loginVars, proxyVars, forwardVars, history, terminated>>

UpProxy(s) ==
    /\ at[s] = "up_proxy"
    /\ MaybeStartLoopbackProxy(wants_proxy[s])
    /\ Return(s)
    /\ UNCHANGED <<statusVars, logVars, loginVars, forwardVars, history, terminated>>

-----------------------------------------------------------------------------
(* BeginInteractiveLogin from ApplyConfig to the start of the login thread. *)
StartLogin(s) ==
    /\ at[s] = "login_start"
    /\ EnsureHandle
    /\ capture' = handle'
    /\ login_state' = "starting"
    /\ pending_login_url' = NoUrl
    /\ running' = FALSE
    /\ ips' = FALSE
    /\ \E l \in Logins :
         /\ lpc[l] = "none" /\ \A k \in 1 .. l - 1 : lpc[k] # "none"
         /\ login_thread' = l
         /\ lpc' = [lpc EXCEPT ![l] = "begin"]
         /\ login_proxy' = [login_proxy EXCEPT ![l] = wants_proxy[s]]
    /\ Goto(s, "login_poll")
    /\ UNCHANGED <<log_buffer, login_handle, proxyVars, forwardVars, history, terminated>>

(* A turn of the polling loop that returns: the login URL was printed, the  *)
(* node runs, or the turns are used up.                                     *)
LoginPoll(s) ==
    /\ at[s] = "login_poll"
    /\ pending_login_url' = log_buffer
    /\ login_state' = IF log_buffer # NoUrl THEN "needs_login" ELSE login_state
    /\ Return(s)
    /\ UNCHANGED <<nodeVars, running, ips, logVars, loginVars, proxyVars, forwardVars, history, terminated>>

-----------------------------------------------------------------------------
(* The login thread.                                                        *)
notLogin == <<at, wants_proxy, ts_handle, handle, pending_login_url, logVars, login_thread, forwardVars, history>>

Advance(l, there) ==
    /\ lpc' = [lpc EXCEPT ![l] = there]
    /\ UNCHANGED login_proxy

(* The thread's function returns.                                           *)
EndThread(l) ==
    /\ lpc' = [lpc EXCEPT ![l] = "done"]
    /\ login_handle' = [login_handle EXCEPT ![l] = NoHandle]
    /\ login_proxy' = [login_proxy EXCEPT ![l] = FALSE]

CallUp(l) ==
    /\ lpc[l] = "begin"
    /\ login_handle' = [login_handle EXCEPT ![l] = handle]
    /\ Advance(l, "up")
    /\ UNCHANGED <<notLogin, mutex, node, running, ips, login_state, proxyVars, terminated>>

LoginUpSucceeds(l) ==
    /\ lpc[l] = "up"
    /\ login_handle[l] # NoHandle
    /\ node[login_handle[l]] # "closed"
    /\ node' = [node EXCEPT ![login_handle[l]] = IF @ = "new" THEN "up" ELSE @]
    /\ Advance(l, "publish")
    /\ UNCHANGED <<notLogin, mutex, running, ips, login_state, login_handle, proxyVars, terminated>>

LoginUpFails(l) ==
    /\ lpc[l] = "up"
    /\ login_state' = "error"
    /\ EndThread(l)
    /\ UNCHANGED <<notLogin, mutex, node, running, ips, proxyVars, terminated>>

LoginPublish(l) ==
    /\ lpc[l] = "publish"
    /\ running' = TRUE
    /\ login_state' = "up"
    /\ Advance(l, "refresh")
    /\ UNCHANGED <<notLogin, mutex, node, ips, login_handle, proxyVars, terminated>>

(* Mutant: the mutex is taken also when there is no proxy to start.         *)
LoginAlwaysLocks(l) ==
    /\ lpc[l] = "refresh"
    /\ ips' \in Addresses(handle)
    /\ Advance(l, "lock")
    /\ UNCHANGED <<notLogin, mutex, node, running, login_state, login_handle, proxyVars, terminated>>

LoginRefreshIPs(l) ==
    /\ lpc[l] = "refresh"
    /\ ips' \in Addresses(handle)
    /\ \/ login_proxy[l] /\ Advance(l, "lock") /\ UNCHANGED login_handle
       \/ ~login_proxy[l] /\ EndThread(l)
    /\ UNCHANGED <<notLogin, mutex, node, running, login_state, proxyVars, terminated>>

(* Under the mutex; an exception of the proxy leaves the thread's function. *)
LoginStartProxy(l) ==
    /\ lpc[l] = "lock" /\ mutex = NoSession
    /\ \/ (ProxyRuns \/ ProxyStarts) /\ UNCHANGED terminated
       \/ ProxyThrows /\ terminated' = TRUE
    /\ EndThread(l)
    /\ UNCHANGED <<sessionVars, statusVars, logVars, login_thread, forwardVars, history>>

LoginStep(l) ==
    \/ CallUp(l) \/ LoginUpSucceeds(l) \/ LoginUpFails(l)
    \/ LoginPublish(l) \/ LoginRefreshIPs(l) \/ LoginStartProxy(l)

-----------------------------------------------------------------------------
(* Shutdown, in the order of its assignments.                               *)
BeginDown(s) ==
    /\ Lock(s, "down_forwarder")
    /\ capture' = NoHandle
    /\ login_thread' = NoLogin
    /\ detached' = detached \cup {l \in Logins : l = login_thread /\ ~Finished(l)}
    /\ overtaken' = (overtaken \/ \E u \in Sessions : at[u] \in {"forward", "dial"})
    /\ UNCHANGED <<wants_proxy, ts_handle, nodeVars, statusVars, log_buffer, lpc, login_handle, login_proxy,
                   proxyVars, forwardVars, user_env, downed, terminated>>

(* A call waits in Stop for an accept thread that close() does not wake.    *)
WaitsForAccept(s) ==
    at[s] \in {"down_forwarder", "forward"} /\ forward # NoHandle /\ ~CloseWakesAccept

(* Mutant: the forwarder is left alone.                                     *)
DownKeepsForwarder(s) ==
    /\ at[s] = "down_forwarder"
    /\ Goto(s, "down_close")
    /\ UNCHANGED <<nodeVars, statusVars, logVars, loginVars, proxyVars, forwardVars, history, terminated>>

(* forwarder.Stop, under the mutex: it joins the accept thread, and leaves   *)
(* the relay threads alone.                                                 *)
DownForwarder(s) ==
    /\ at[s] = "down_forwarder"
    /\ forward' = NoHandle
    /\ Goto(s, "down_close")
    /\ UNCHANGED <<nodeVars, statusVars, logVars, loginVars, proxyVars, dialing, history, terminated>>

(* Mutant: `running` is not reset.                                          *)
DownKeepsRunning(s) ==
    /\ at[s] = "down_close"
    /\ ClearProxyEnvironment
    /\ handle' = NoHandle
    /\ node' = [h \in Handles |-> IF h = handle THEN "closing" ELSE node[h]]
    /\ Goto(s, "down_clear")
    /\ UNCHANGED <<running, ips, login_state, pending_login_url, logVars, loginVars, forwardVars, history, terminated>>

(* tailscale_close runs in a thread of its own.                             *)
DownClose(s) ==
    /\ at[s] = "down_close"
    /\ ClearProxyEnvironment
    /\ handle' = NoHandle
    /\ running' = FALSE
    /\ node' = [h \in Handles |-> IF h = handle THEN "closing" ELSE node[h]]
    /\ overtaken' = (overtaken \/ dialing # {})
    /\ Goto(s, "down_clear")
    /\ UNCHANGED <<ips, login_state, pending_login_url, logVars, loginVars, forwardVars,
                   user_env, downed, detached, terminated>>

(* Mutant: the addresses stay.                                              *)
DownKeepsAddresses(s) ==
    /\ at[s] = "down_clear"
    /\ login_state' = "idle"
    /\ pending_login_url' = NoUrl
    /\ downed' = TRUE
    /\ Return(s)
    /\ UNCHANGED <<nodeVars, running, ips, logVars, loginVars, proxyVars, forwardVars,
                   user_env, detached, overtaken, terminated>>

DownClear(s) ==
    /\ at[s] = "down_clear"
    /\ ips' = FALSE
    /\ login_state' = "idle"
    /\ pending_login_url' = NoUrl
    /\ downed' = TRUE
    /\ Return(s)
    /\ UNCHANGED <<nodeVars, running, logVars, loginVars, proxyVars, forwardVars,
                   user_env, detached, overtaken, terminated>>

-----------------------------------------------------------------------------
EnableQuackProxy(s) ==
    /\ at[s] = "idle" /\ mutex = NoSession
    /\ MaybeStartLoopbackProxy(TRUE)
    /\ UNCHANGED <<sessionVars, statusVars, logVars, loginVars, forwardVars, history, terminated>>

(* PingTCP and ServeLocalhostTCP: what they change is the handle, if any.   *)
PingTCP(s) ==
    /\ at[s] = "idle" /\ mutex = NoSession
    /\ running
    /\ EnsureHandle
    /\ UNCHANGED <<sessionVars, statusVars, logVars, loginVars, proxyVars, forwardVars, history, terminated>>

(* The first half of StartQuackForward and DialTCP, under the mutex.        *)
CopyHandle(s, there) ==
    /\ at[s] = "idle" /\ mutex = NoSession
    /\ running
    /\ EnsureHandle
    /\ ts_handle' = [ts_handle EXCEPT ![s] = handle']
    /\ at' = [at EXCEPT ![s] = there]
    /\ UNCHANGED <<mutex, wants_proxy, statusVars, logVars, loginVars, proxyVars, forwardVars, history, terminated>>

StartQuackForward(s) == CopyHandle(s, "forward")
DialTCP(s) == CopyHandle(s, "dial")

(* forwarder.Start, after the mutex was released: it stops the old forward, *)
(* as DownForwarder does, and starts the new one, or throws in between.      *)
ForwarderStart(s) ==
    /\ at[s] = "forward"
    /\ forward' \in {ts_handle[s], NoHandle}
    /\ Return(s)
    /\ UNCHANGED <<nodeVars, statusVars, logVars, loginVars, proxyVars, dialing, history, terminated>>

(* tailscale_dial, after the mutex was released.                            *)
Dial(s) ==
    /\ at[s] = "dial"
    /\ Return(s)
    /\ UNCHANGED <<nodeVars, statusVars, logVars, loginVars, proxyVars, forwardVars, history, terminated>>

(* A connection comes in: a relay thread holds the forward's dial_fn, ...    *)
(* (bound: one such thread at a time).                                      *)
ForwardAccepts ==
    /\ forward # NoHandle /\ dialing = {}
    /\ dialing' = {forward}
    /\ UNCHANGED <<sessionVars, nodeVars, statusVars, logVars, loginVars, proxyVars, forward, history, terminated>>

(* ... which dials under the mutex, with the handle that StartQuackForward    *)
(* copied.                                                                  *)
RelayDials(h) ==
    /\ h \in dialing /\ mutex = NoSession
    /\ dialing' = dialing \ {h}
    /\ UNCHANGED <<sessionVars, nodeVars, statusVars, logVars, loginVars, proxyVars, forward, history, terminated>>

Call(s) ==
    \/ BeginUp(s) \/ BeginLogin(s) \/ BeginDown(s) \/ EnableQuackProxy(s)
    \/ PingTCP(s) \/ StartQuackForward(s) \/ DialTCP(s)

SessionStep(s) ==
    \/ JoinLoginThread(s) \/ ApplyConfig(s) \/ ApplyConfigFails(s)
    \/ UpSucceeds(s) \/ UpFails(s) \/ UpProxy(s)
    \/ StartLogin(s) \/ LoginPoll(s)
    \/ DownForwarder(s) \/ DownClose(s) \/ DownClear(s)
    \/ ForwarderStart(s) \/ Dial(s)

-----------------------------------------------------------------------------
(* A node that waits for the browser prints its login URL; the capture      *)
(* appends it to a buffer that is searched from the start.                  *)
PrintLoginURL(l) ==
    /\ AsksForLogin
    /\ lpc[l] = "up" /\ login_handle[l] # NoHandle
    /\ capture = login_handle[l] /\ node[capture] = "new"
    /\ log_buffer' = IF log_buffer = NoUrl THEN capture ELSE log_buffer
    /\ UNCHANGED <<sessionVars, nodeVars, statusVars, capture, loginVars, proxyVars, forwardVars, history, terminated>>

TailscaleClosed(h) ==
    /\ node[h] = "closing"
    /\ node' = [node EXCEPT ![h] = "closed"]
    /\ UNCHANGED <<sessionVars, handle, statusVars, logVars, loginVars, proxyVars, forwardVars, history, terminated>>

Next ==
    /\ ~terminated
    /\ \/ \E s \in Sessions : Call(s) \/ SessionStep(s)
       \/ \E l \in Logins : LoginStep(l) \/ PrintLoginURL(l)
       \/ \E h \in Handles : TailscaleClosed(h) \/ RelayDials(h)
       \/ ForwardAccepts

(* Threads keep running and tailscale_up returns in the end: the code does  *)
(* not ensure the latter, the liveness properties are about what the bridge *)
(* adds to the waiting for it.  Nothing promises a connection that would    *)
(* end the accept() for which a call waits.                                 *)
Fairness ==
    /\ \A s \in Sessions : WF_vars(~terminated /\ ~WaitsForAccept(s) /\ SessionStep(s))
    /\ \A l \in Logins : WF_vars(~terminated /\ LoginStep(l))

Spec == Init /\ [][Next]_vars /\ Fairness

-----------------------------------------------------------------------------
Locations ==
    {"idle", "up_join", "up_configure", "up_call", "up_proxy", "login_join", "login_start", "login_poll",
     "down_forwarder", "down_close", "down_clear", "forward", "dial"}

NodeStates == {"none", "new", "up", "closing", "closed"}

TypeOK ==
    /\ mutex \in Sessions \cup {NoSession}
    /\ at \in [Sessions -> Locations]
    /\ wants_proxy \in [Sessions -> BOOLEAN]
    /\ \A s \in Sessions : at[s] \in {"up_call", "up_proxy", "login_poll"} => handle # NoHandle
    /\ ts_handle \in [Sessions -> Handles \cup {NoHandle}]
    /\ handle \in Handles \cup {NoHandle}
    /\ node \in [Handles -> NodeStates]
    /\ running \in BOOLEAN /\ ips \in BOOLEAN
    /\ login_state \in {"idle", "starting", "needs_login", "up", "error"}
    /\ {pending_login_url, log_buffer, capture, forward} \subseteq Handles \cup {NoHandle}
    /\ login_thread \in Logins \cup {NoLogin}
    /\ lpc \in [Logins -> {"none", "begin", "up", "publish", "refresh", "lock", "done"}]
    /\ login_handle \in [Logins -> Handles \cup {NoHandle}]
    /\ login_proxy \in [Logins -> BOOLEAN]
    /\ proxy \in [enabled : BOOLEAN, active : BOOLEAN]
    /\ downed \in BOOLEAN /\ terminated \in BOOLEAN
    /\ detached \subseteq Logins
    /\ overtaken \in BOOLEAN
    /\ dialing \subseteq Handles

(* Status(): also reports running when only the addresses are known.        *)
ReportedRunning == running \/ ips

(* Every tsnet server that was created and not closed is the one `handle`   *)
(* names: EnsureHandle, which every operation may reach, never replaces a   *)
(* live one, also when Shutdown and a login thread get in each other's way.  *)
NoLeakedNode == \A h \in Handles : node[h] \in {"new", "up"} => h = handle

(* While the proxy is active ALL_PROXY points to it, and otherwise it is    *)
(* what the user had set: no sequence of starts, failed starts and          *)
(* shutdowns saves the proxy's own address or loses the user's.             *)
ProxyEnvironment ==
    IF proxy.active
    THEN env.upper = "tsnet" /\ saved_proxy_env = user_env.upper
    ELSE env.upper = user_env.upper

(* As long as no login thread was left running by Shutdown, `running` is    *)
(* true only with a node that is up behind the current handle.              *)
RunningUnlessDetached ==
    detached = {} /\ running => handle # NoHandle /\ node[handle] = "up"

(* ... and after tailscale_down nothing is left of the node: no address, no *)
(* login state, no proxy, no handle.                                        *)
DownUnlessDetached ==
    detached = {} /\ downed /\ mutex = NoSession =>
        ~ReportedRunning /\ login_state = "idle" /\ handle = NoHandle /\ ~proxy.active /\ env.upper = user_env.upper

(* The handle copied by a session, by the forward, or by a relay thread that  *)
(* has yet to dial, before they released the mutex or without taking it.     *)
HandlesInUse == ({forward} \cup dialing \cup {ts_handle[s] : s \in Sessions}) \ {NoHandle}

(* They all are the bridge's handle, and its node is up.  Only a Shutdown    *)
(* can take the node away from one of them: one that comes between the copy  *)
(* and the use of a session, one that a relay thread waits for at the mutex  *)
(* (Stop does not join it), or one that leaves a login thread running.       *)
HandlesInUseAreLive ==
    detached = {} /\ ~overtaken => \A h \in HandlesInUse : h = handle /\ node[h] = "up"

(* Every call returns, unless a login thread that was asked for a proxy      *)
(* waits for the mutex to start it, or ended the process with an exception,  *)
(* or the call waits for good in the forwarder's Stop, on a platform whose   *)
(* close() does not wake accept() and with no connection coming in.          *)
CallsReturn ==
    \A s \in Sessions : at[s] # "idle" ~>
        \/ at[s] = "idle" \/ terminated
        \/ \E l \in Logins : lpc[l] = "lock" /\ login_proxy[l]
        \/ []WaitsForAccept(s)

(* tailscale_bridge.cpp: "detach so CALL tailscale_down() returns".          *)
DownReturns ==
    \A s \in Sessions : at[s] = "down_forwarder" ~> (at[s] = "idle" \/ terminated)

(* REFERENCE.md: "`running` Node is up."                                    *)
RunningMeansUp == mutex = NoSession /\ running => handle # NoHandle /\ node[handle] = "up"

(* REFERENCE.md: tailscale_login is "non-blocking" and "returns immediately".*)
LoginReturns ==
    \A s \in Sessions : at[s] = "login_join" ~> (at[s] # "login_join" \/ terminated)

(* REFERENCE.md: tailscale_login "accepts the same parameters as            *)
(* tailscale_up"; with loopback_proxy, what is an SQL error of the one ends  *)
(* the process in the other.                                                *)
ProcessSurvives == ~terminated
=============================================================================
