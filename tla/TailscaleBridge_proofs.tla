----------------------- MODULE TailscaleBridge_proofs -----------------------
(***************************************************************************)
(* Proofs about TailscaleBridge, for any sessions and any number of handles  *)
(* and login threads.  The inductive invariant has two layers.  Structure:   *)
(* the sections under the mutex exclude each other, no server is lost, the   *)
(* proxy gives the environment back.  Lifecycle rests on it: what a login    *)
(* thread may be doing to which node, and what Shutdown has taken down when. *)
(* Each action has one lemma per layer.                                      *)
(***************************************************************************)
EXTENDS TailscaleBridge, TLAPS

USE DEF sessionVars, nodeVars, statusVars, logVars, loginVars, proxyVars, forwardVars, history, notLogin

-----------------------------------------------------------------------------
(* Where a session is inside a section under the mutex.                      *)
InCall == Locations \ {"idle", "forward", "dial"}

Exclusive == \A s \in Sessions : at[s] \in InCall => mutex = s

ProxyStates == [enabled : BOOLEAN, active : BOOLEAN]

(* TypeOK in two parts: the Boolean fields are left to Zenon, the others to  *)
(* SMT.                                                                      *)
Flags ==
    /\ wants_proxy \in [Sessions -> BOOLEAN]
    /\ login_proxy \in [Logins -> BOOLEAN]
    /\ running \in BOOLEAN /\ ips \in BOOLEAN
    /\ downed \in BOOLEAN /\ terminated \in BOOLEAN /\ overtaken \in BOOLEAN
    /\ proxy \in ProxyStates

Types ==
    /\ mutex \in Sessions \cup {NoSession}
    /\ at \in [Sessions -> Locations]
    /\ \A s \in Sessions : at[s] \in {"up_call", "up_proxy", "login_poll"} => handle # NoHandle
    /\ ts_handle \in [Sessions -> Handles \cup {NoHandle}]
    /\ handle \in Handles \cup {NoHandle}
    /\ node \in [Handles -> NodeStates]
    /\ login_state \in {"idle", "starting", "needs_login", "up", "error"}
    /\ {pending_login_url, log_buffer, capture, forward} \subseteq Handles \cup {NoHandle}
    /\ login_thread \in Logins \cup {NoLogin}
    /\ lpc \in [Logins -> {"none", "begin", "up", "publish", "refresh", "lock", "done"}]
    /\ login_handle \in [Logins -> Handles \cup {NoHandle}]
    /\ detached \subseteq Logins
    /\ dialing \subseteq Handles

Structure == Flags /\ Types /\ Exclusive /\ NoLeakedNode /\ ProxyEnvironment

(* A login thread that has not finished.                                     *)
Active(l) == lpc[l] \notin {"none", "done"}

(* A handle that the bridge keeps has a server behind it.                   *)
HandleIsOpen == handle # NoHandle => node[handle] \in {"new", "up"}

(* The one login thread that may be at work is the one the bridge knows,    *)
(* and it works on the bridge's handle.                                     *)
LoginsKnown ==
    detached = {} => \A l \in Logins : Active(l) =>
        /\ l = login_thread
        /\ handle # NoHandle
        /\ lpc[l] # "begin" => login_handle[l] = handle
        /\ lpc[l] \in {"publish", "refresh", "lock"} => node[handle] = "up"

(* The sections that come after the join, or after the detach, of Shutdown   *)
(* find no login thread.                                                     *)
Joined ==
    \A s \in Sessions :
        at[s] \in {"login_start", "down_forwarder", "down_close", "down_clear"} => login_thread = NoLogin

(* From the last step of Shutdown to the next join there is nothing.        *)
DownIsDown ==
    /\ \A s \in Sessions :
         at[s] \in {"up_join", "up_configure", "up_call", "up_proxy", "login_join", "login_start", "login_poll"} => ~downed
    /\ detached = {} => \A s \in Sessions :
         at[s] = "down_clear" => handle = NoHandle /\ ~running /\ ~proxy.active
    /\ detached = {} /\ downed =>
         ~running /\ ~ips /\ login_state = "idle" /\ handle = NoHandle /\ ~proxy.active

(* Shutdown closes a handle that nobody has in hand.                        *)
NotInHand ==
    /\ \A u \in Sessions : ts_handle[u] # NoHandle => at[u] \in {"forward", "dial"}
    /\ ~overtaken => \A s \in Sessions :
         /\ at[s] \in {"down_forwarder", "down_close", "down_clear"} =>
              \A u \in Sessions : at[u] \notin {"forward", "dial"}
         /\ at[s] \in {"down_close", "down_clear"} => forward = NoHandle

(* HandlesInUseAreLive, holder by holder.                                    *)
HandlesHeld ==
    detached = {} /\ ~overtaken =>
        /\ \A s \in Sessions : ts_handle[s] # NoHandle => ts_handle[s] = handle /\ node[handle] = "up"
        /\ forward # NoHandle => forward = handle /\ node[handle] = "up"
        /\ \A h \in dialing : h = handle /\ node[handle] = "up"

Lifecycle ==
    /\ HandleIsOpen /\ LoginsKnown /\ Joined /\ DownIsDown /\ NotInHand
    /\ RunningUnlessDetached /\ HandlesHeld

LEMMA Distinct == NoHandle \notin Handles /\ NoLogin \notin Logins /\ NoUrl = NoHandle
BY DEF NoHandle, Handles, NoLogin, Logins, NoUrl

LEMMA SetEnabled ==
    ASSUME NEW p \in ProxyStates, NEW b \in BOOLEAN
    PROVE  /\ [p EXCEPT !.enabled = b] \in ProxyStates
           /\ [p EXCEPT !.enabled = b].active = p.active
BY DEF ProxyStates

-----------------------------------------------------------------------------
(* What the proxy's operations leave of ProxyEnvironment, as a fact about    *)
(* the primed variables, so that the calls below need not expand them.       *)
ProxyKept == proxy' \in ProxyStates /\
    IF proxy'.active
    THEN env'.upper = "tsnet" /\ saved_proxy_env' = user_env.upper
    ELSE env'.upper = user_env.upper

LEMMA RunsKeeps == ASSUME proxy \in ProxyStates, ProxyEnvironment, ProxyRuns PROVE ProxyKept
BY SetEnabled DEF ProxyEnvironment, ProxyRuns, ProxyKept

LEMMA ThrowsKeeps == ASSUME proxy \in ProxyStates, ProxyEnvironment, ProxyThrows PROVE ProxyKept
BY SetEnabled DEF ProxyEnvironment, ProxyThrows, ProxyKept

LEMMA StartsKeeps == ASSUME proxy \in ProxyStates, ProxyEnvironment, ProxyStarts PROVE ProxyKept
BY DEF ProxyEnvironment, ProxyStarts, ProxyKept, ProxyStates

LEMMA OffKeeps == 
    ASSUME proxy \in ProxyStates, ProxyEnvironment,
           proxy' = [proxy EXCEPT !.enabled = FALSE], UNCHANGED <<env, saved_proxy_env>>
    PROVE  ProxyKept
BY SetEnabled DEF ProxyEnvironment, ProxyKept

LEMMA ClearKeeps == ASSUME proxy \in ProxyStates, ProxyEnvironment, ClearProxyEnvironment PROVE ProxyKept
<1>1. CASE proxy.active
  <2>1. proxy' = NoProxy /\ env'.upper = saved_proxy_env
    BY <1>1 DEF ClearProxyEnvironment
  <2>2. NoProxy \in ProxyStates /\ NoProxy.active = FALSE
    BY DEF NoProxy, ProxyStates
  <2>3. saved_proxy_env = user_env.upper
    BY <1>1 DEF ProxyEnvironment
  <2> QED
    BY <2>1, <2>2, <2>3 DEF ProxyKept
<1>2. CASE ~proxy.active
  BY <1>2 DEF ClearProxyEnvironment, ProxyEnvironment, ProxyKept
<1> QED
  BY <1>1, <1>2

LEMMA MaybeKeeps ==
    ASSUME proxy \in ProxyStates, ProxyEnvironment, NEW e \in BOOLEAN, MaybeStartLoopbackProxy(e)
    PROVE  ProxyKept
BY RunsKeeps, ThrowsKeeps, StartsKeeps, OffKeeps DEF MaybeStartLoopbackProxy

LEMMA ClearStops == ASSUME ClearProxyEnvironment PROVE ~proxy'.active
BY DEF ClearProxyEnvironment, NoProxy

-----------------------------------------------------------------------------
(* Structure, action by action.                                              *)
LEMMA BeginUpPreserves == ASSUME Structure, NEW s \in Sessions, BeginUp(s) PROVE Structure'
<1> USE BridgeAssumption, Distinct DEF Structure
<1>1. Flags'
  <2>1. PICK p \in BOOLEAN : wants_proxy' = [wants_proxy EXCEPT ![s] = p]
    BY DEF BeginUp, Begin
  <2> QED
    BY <2>1 DEF BeginUp, Begin, Flags
<1>2. Types'
  BY DEF BeginUp, Begin, Lock, Types, Exclusive, Locations, NodeStates, NoProxy
<1>3. Exclusive'
  BY DEF BeginUp, Begin, Lock, Types, Exclusive, Locations, InCall
<1>4. NoLeakedNode'
  BY DEF BeginUp, Begin, Lock, Types, NoLeakedNode, Exclusive, NodeStates, InCall
<1>5. ProxyEnvironment'
  BY DEF BeginUp, Begin, Lock, ProxyEnvironment, NoProxy
<1> QED
  BY <1>1, <1>2, <1>3, <1>4, <1>5

LEMMA BeginLoginPreserves == ASSUME Structure, NEW s \in Sessions, BeginLogin(s) PROVE Structure'
<1> USE BridgeAssumption, Distinct DEF Structure
<1>1. Flags'
  <2>1. PICK p \in BOOLEAN : wants_proxy' = [wants_proxy EXCEPT ![s] = p]
    BY DEF BeginLogin, Begin
  <2> QED
    BY <2>1 DEF BeginLogin, Begin, Flags
<1>2. Types'
  BY DEF BeginLogin, Begin, Lock, Types, Exclusive, Locations, NodeStates, NoProxy
<1>3. Exclusive'
  BY DEF BeginLogin, Begin, Lock, Types, Exclusive, Locations, InCall
<1>4. NoLeakedNode'
  BY DEF BeginLogin, Begin, Lock, Types, NoLeakedNode, Exclusive, NodeStates, InCall
<1>5. ProxyEnvironment'
  BY DEF BeginLogin, Begin, Lock, ProxyEnvironment, NoProxy
<1> QED
  BY <1>1, <1>2, <1>3, <1>4, <1>5

LEMMA BeginDownPreserves == ASSUME Structure, NEW s \in Sessions, BeginDown(s) PROVE Structure'
BY BridgeAssumption, Distinct
   DEF Structure, BeginDown, Lock, Finished, Flags, NoProxy, Types, Exclusive, Locations,
       NodeStates, InCall, NoLeakedNode, ProxyEnvironment

LEMMA EnableQuackProxyPreserves == ASSUME Structure, NEW s \in Sessions, EnableQuackProxy(s) PROVE Structure'
<1> USE BridgeAssumption, Distinct DEF Structure
<1>1. Flags'
  <2>1. ProxyKept
    BY MaybeKeeps DEF EnableQuackProxy, Flags
  <2> QED
    BY <2>1 DEF ProxyKept, Flags, EnableQuackProxy, Return
<1>2. Types'
  BY DEF EnableQuackProxy, MaybeStartLoopbackProxy, ProxyRuns, ProxyThrows, ProxyStarts,
         EnsureHandle, Types, Exclusive, Locations, NodeStates, NoProxy
<1>3. Exclusive'
  BY DEF EnableQuackProxy, MaybeStartLoopbackProxy, ProxyRuns, ProxyThrows, ProxyStarts,
         EnsureHandle, Types, Exclusive, Locations, InCall
<1>4. NoLeakedNode'
  BY DEF EnableQuackProxy, MaybeStartLoopbackProxy, ProxyRuns, ProxyThrows, ProxyStarts,
         EnsureHandle, Types, NoLeakedNode, Exclusive, NodeStates, InCall
<1>5. ProxyEnvironment'
  <2>1. ProxyKept
    BY MaybeKeeps DEF EnableQuackProxy, Flags
  <2> QED
    BY <2>1 DEF ProxyKept, ProxyEnvironment, EnableQuackProxy
<1> QED
  BY <1>1, <1>2, <1>3, <1>4, <1>5

LEMMA PingTCPPreserves == ASSUME Structure, NEW s \in Sessions, PingTCP(s) PROVE Structure'
BY BridgeAssumption, Distinct
   DEF PingTCP, EnsureHandle, Structure, Flags, Types, Exclusive, NoLeakedNode, ProxyEnvironment,
       Locations, NodeStates, InCall, NoProxy

LEMMA StartQuackForwardPreserves == ASSUME Structure, NEW s \in Sessions, StartQuackForward(s) PROVE Structure'
BY BridgeAssumption, Distinct
   DEF StartQuackForward, CopyHandle, EnsureHandle, Structure, Flags, Types, Exclusive, NoLeakedNode, ProxyEnvironment,
       Locations, NodeStates, InCall, NoProxy

LEMMA DialTCPPreserves == ASSUME Structure, NEW s \in Sessions, DialTCP(s) PROVE Structure'
BY BridgeAssumption, Distinct
   DEF DialTCP, CopyHandle, EnsureHandle, Structure, Flags, Types, Exclusive, NoLeakedNode, ProxyEnvironment,
       Locations, NodeStates, InCall, NoProxy

LEMMA JoinLoginThreadPreserves == ASSUME Structure, NEW s \in Sessions, JoinLoginThread(s) PROVE Structure'
BY BridgeAssumption, Distinct
   DEF Structure, JoinLoginThread, Goto, Finished, Flags, NoProxy, Types, Exclusive, Locations,
       NodeStates, InCall, NoLeakedNode, ProxyEnvironment

LEMMA ApplyConfigPreserves == ASSUME Structure, NEW s \in Sessions, ApplyConfig(s) PROVE Structure'
BY BridgeAssumption, Distinct
   DEF ApplyConfig, Goto, EnsureHandle, Structure, Flags, Types, Exclusive, NoLeakedNode, ProxyEnvironment,
       Locations, NodeStates, InCall, NoProxy

LEMMA ApplyConfigFailsPreserves == ASSUME Structure, NEW s \in Sessions, ApplyConfigFails(s) PROVE Structure'
BY BridgeAssumption, Distinct
   DEF ApplyConfigFails, Return, EnsureHandle, Structure, Flags, Types, Exclusive, NoLeakedNode, ProxyEnvironment,
       Locations, NodeStates, InCall, NoProxy

LEMMA UpSucceedsPreserves == ASSUME Structure, NEW s \in Sessions, UpSucceeds(s) PROVE Structure'
BY BridgeAssumption, Distinct
   DEF UpSucceeds, Goto, Structure, Flags, Types, Exclusive, NoLeakedNode, ProxyEnvironment,
       Locations, NodeStates, InCall, NoProxy

LEMMA UpFailsPreserves == ASSUME Structure, NEW s \in Sessions, UpFails(s) PROVE Structure'
BY BridgeAssumption, Distinct
   DEF UpFails, Return, Structure, Flags, Types, Exclusive, NoLeakedNode, ProxyEnvironment,
       Locations, NodeStates, InCall, NoProxy

LEMMA UpProxyPreserves == ASSUME Structure, NEW s \in Sessions, UpProxy(s) PROVE Structure'
<1> USE BridgeAssumption, Distinct DEF Structure
<1>1. Flags'
  <2>1. ProxyKept
    BY MaybeKeeps DEF UpProxy, Flags
  <2> QED
    BY <2>1 DEF ProxyKept, Flags, UpProxy, Return
<1>2. Types'
  BY DEF UpProxy, Return, MaybeStartLoopbackProxy, ProxyRuns, ProxyThrows, ProxyStarts,
         EnsureHandle, Types, Exclusive, Locations, NodeStates, NoProxy
<1>3. Exclusive'
  BY DEF UpProxy, Return, MaybeStartLoopbackProxy, ProxyRuns, ProxyThrows, ProxyStarts,
         EnsureHandle, Types, Exclusive, Locations, InCall
<1>4. NoLeakedNode'
  BY DEF UpProxy, Return, MaybeStartLoopbackProxy, ProxyRuns, ProxyThrows, ProxyStarts,
         EnsureHandle, Types, NoLeakedNode, Exclusive, NodeStates, InCall
<1>5. ProxyEnvironment'
  <2>1. ProxyKept
    BY MaybeKeeps DEF UpProxy, Flags
  <2> QED
    BY <2>1 DEF ProxyKept, ProxyEnvironment, UpProxy
<1> QED
  BY <1>1, <1>2, <1>3, <1>4, <1>5

LEMMA StartLoginPreserves == ASSUME Structure, NEW s \in Sessions, StartLogin(s) PROVE Structure'
<1> USE BridgeAssumption, Distinct DEF Structure
<1>1. Flags'
  BY DEF StartLogin, Goto, EnsureHandle, Flags, NoProxy
<1>2. Types'
  BY DEF StartLogin, Goto, EnsureHandle, Types, Exclusive, Locations, NodeStates, NoProxy
<1>3. Exclusive'
  BY DEF StartLogin, Goto, EnsureHandle, Types, Exclusive, Locations, InCall
<1>4. NoLeakedNode'
  BY DEF StartLogin, Goto, EnsureHandle, Types, NoLeakedNode, Exclusive, NodeStates, InCall
<1>5. ProxyEnvironment'
  BY DEF StartLogin, Goto, EnsureHandle, ProxyEnvironment, NoProxy
<1> QED
  BY <1>1, <1>2, <1>3, <1>4, <1>5

LEMMA LoginPollPreserves == ASSUME Structure, NEW s \in Sessions, LoginPoll(s) PROVE Structure'
BY BridgeAssumption, Distinct
   DEF LoginPoll, Return, Structure, Flags, Types, Exclusive, NoLeakedNode, ProxyEnvironment,
       Locations, NodeStates, InCall, NoProxy

LEMMA DownForwarderPreserves == ASSUME Structure, NEW s \in Sessions, DownForwarder(s) PROVE Structure'
BY BridgeAssumption, Distinct
   DEF DownForwarder, Goto, Structure, Flags, Types, Exclusive, NoLeakedNode, ProxyEnvironment,
       Locations, NodeStates, InCall, NoProxy

LEMMA DownClosePreserves == ASSUME Structure, NEW s \in Sessions, DownClose(s) PROVE Structure'
<1> USE BridgeAssumption, Distinct DEF Structure
<1>1. Flags'
  <2>1. ProxyKept
    BY ClearKeeps DEF DownClose, Flags
  <2> QED
    BY <2>1 DEF ProxyKept, Flags, DownClose, Goto
<1>2. Types'
  BY DEF DownClose, Goto, ClearProxyEnvironment, Types, Exclusive, Locations, NodeStates, InCall
<1>3. Exclusive'
  BY DEF DownClose, Goto, ClearProxyEnvironment, Types, Exclusive, Locations, InCall
<1>4. NoLeakedNode'
  BY DEF DownClose, Goto, ClearProxyEnvironment, Types, NoLeakedNode, Exclusive, NodeStates, InCall
<1>5. ProxyEnvironment'
  <2>1. ProxyKept
    BY ClearKeeps DEF DownClose, Flags
  <2> QED
    BY <2>1 DEF ProxyKept, ProxyEnvironment, DownClose
<1> QED
  BY <1>1, <1>2, <1>3, <1>4, <1>5

LEMMA DownClearPreserves == ASSUME Structure, NEW s \in Sessions, DownClear(s) PROVE Structure'
<1> USE BridgeAssumption, Distinct DEF Structure
<1>1. Flags'
  BY DEF DownClear, Return, Flags, NoProxy
<1>2. Types'
  BY DEF DownClear, Return, Types, Exclusive, Locations, NodeStates, NoProxy
<1>3. Exclusive'
  BY DEF DownClear, Return, Types, Exclusive, Locations, InCall
<1>4. NoLeakedNode'
  BY DEF DownClear, Return, Types, NoLeakedNode, Exclusive, NodeStates, InCall
<1>5. ProxyEnvironment'
  BY DEF DownClear, Return, ProxyEnvironment, NoProxy
<1> QED
  BY <1>1, <1>2, <1>3, <1>4, <1>5

LEMMA ForwarderStartPreserves == ASSUME Structure, NEW s \in Sessions, ForwarderStart(s) PROVE Structure'
BY BridgeAssumption, Distinct
   DEF ForwarderStart, Return, Structure, Flags, Types, Exclusive, NoLeakedNode, ProxyEnvironment,
       Locations, NodeStates, InCall, NoProxy

LEMMA DialPreserves == ASSUME Structure, NEW s \in Sessions, Dial(s) PROVE Structure'
BY BridgeAssumption, Distinct
   DEF Dial, Return, Structure, Flags, Types, Exclusive, NoLeakedNode, ProxyEnvironment,
       Locations, NodeStates, InCall, NoProxy

LEMMA ForwardAcceptsPreserves == ASSUME Structure, ForwardAccepts PROVE Structure'
BY BridgeAssumption, Distinct
   DEF ForwardAccepts, Structure, Flags, Types, Exclusive, NoLeakedNode, ProxyEnvironment,
       Locations, NodeStates, InCall, NoProxy

LEMMA RelayDialsPreserves == ASSUME Structure, NEW h \in Handles, RelayDials(h) PROVE Structure'
BY BridgeAssumption, Distinct
   DEF RelayDials, Structure, Flags, Types, Exclusive, NoLeakedNode, ProxyEnvironment,
       Locations, NodeStates, InCall, NoProxy

LEMMA CallUpPreserves == ASSUME Structure, NEW l \in Logins, CallUp(l) PROVE Structure'
BY BridgeAssumption, Distinct
   DEF CallUp, Advance, Structure, Flags, Types, Exclusive, NoLeakedNode, ProxyEnvironment,
       Locations, NodeStates, InCall, NoProxy

LEMMA LoginUpSucceedsPreserves == ASSUME Structure, NEW l \in Logins, LoginUpSucceeds(l) PROVE Structure'
BY BridgeAssumption, Distinct
   DEF LoginUpSucceeds, Advance, Structure, Flags, Types, Exclusive, NoLeakedNode, ProxyEnvironment,
       Locations, NodeStates, InCall, NoProxy

LEMMA LoginUpFailsPreserves == ASSUME Structure, NEW l \in Logins, LoginUpFails(l) PROVE Structure'
BY BridgeAssumption, Distinct
   DEF LoginUpFails, EndThread, Structure, Flags, Types, Exclusive, NoLeakedNode, ProxyEnvironment,
       Locations, NodeStates, InCall, NoProxy

LEMMA LoginPublishPreserves == ASSUME Structure, NEW l \in Logins, LoginPublish(l) PROVE Structure'
BY BridgeAssumption, Distinct
   DEF LoginPublish, Advance, Structure, Flags, Types, Exclusive, NoLeakedNode, ProxyEnvironment,
       Locations, NodeStates, InCall, NoProxy

LEMMA LoginRefreshIPsPreserves == ASSUME Structure, NEW l \in Logins, LoginRefreshIPs(l) PROVE Structure'
<1> USE BridgeAssumption, Distinct DEF Structure
<1>1. Flags'
  BY DEF LoginRefreshIPs, Advance, EndThread, Addresses, Flags, NoProxy
<1>2. Types'
  BY DEF LoginRefreshIPs, Advance, EndThread, Addresses, Types, Exclusive, Locations, NodeStates,
         NoProxy
<1>3. Exclusive'
  BY DEF LoginRefreshIPs, Advance, EndThread, Addresses, Types, Exclusive, Locations, InCall
<1>4. NoLeakedNode'
  BY DEF LoginRefreshIPs, Advance, EndThread, Addresses, Types, NoLeakedNode, Exclusive, NodeStates,
         InCall
<1>5. ProxyEnvironment'
  BY DEF LoginRefreshIPs, Advance, EndThread, Addresses, ProxyEnvironment, NoProxy
<1> QED
  BY <1>1, <1>2, <1>3, <1>4, <1>5

LEMMA LoginStartProxyPreserves == ASSUME Structure, NEW l \in Logins, LoginStartProxy(l) PROVE Structure'
<1> USE BridgeAssumption, Distinct DEF Structure
<1>1. Flags'
  <2>1. ProxyKept
    BY RunsKeeps, StartsKeeps, ThrowsKeeps DEF LoginStartProxy, Flags
  <2> QED
    BY <2>1 DEF ProxyKept, Flags, LoginStartProxy, EndThread
<1>2. Types'
  BY DEF LoginStartProxy, EndThread, ProxyRuns, ProxyThrows, ProxyStarts, EnsureHandle, Types,
         Exclusive, Locations, NodeStates, NoProxy
<1>3. Exclusive'
  BY DEF LoginStartProxy, EndThread, ProxyRuns, ProxyThrows, ProxyStarts, EnsureHandle, Types,
         Exclusive, Locations, InCall
<1>4. NoLeakedNode'
  BY DEF LoginStartProxy, EndThread, ProxyRuns, ProxyThrows, ProxyStarts, EnsureHandle, Types,
         NoLeakedNode, Exclusive, NodeStates, InCall
<1>5. ProxyEnvironment'
  <2>1. ProxyKept
    BY RunsKeeps, StartsKeeps, ThrowsKeeps DEF LoginStartProxy, Flags
  <2> QED
    BY <2>1 DEF ProxyKept, ProxyEnvironment, LoginStartProxy
<1> QED
  BY <1>1, <1>2, <1>3, <1>4, <1>5

LEMMA PrintLoginURLPreserves == ASSUME Structure, NEW l \in Logins, PrintLoginURL(l) PROVE Structure'
BY BridgeAssumption, Distinct
   DEF PrintLoginURL, Structure, Flags, Types, Exclusive, NoLeakedNode, ProxyEnvironment,
       Locations, NodeStates, InCall, NoProxy

LEMMA TailscaleClosedPreserves == ASSUME Structure, NEW h \in Handles, TailscaleClosed(h) PROVE Structure'
BY BridgeAssumption, Distinct
   DEF TailscaleClosed, Structure, Flags, Types, Exclusive, NoLeakedNode, ProxyEnvironment,
       Locations, NodeStates, InCall, NoProxy

-----------------------------------------------------------------------------
(* Lifecycle, action by action.                                              *)
LEMMA BeginUpKeeps == ASSUME Structure, Lifecycle, NEW s \in Sessions, BeginUp(s) PROVE Lifecycle'
BY BridgeAssumption, Distinct
   DEF Structure, Lifecycle, BeginUp, Begin, Lock, Types, HandleIsOpen, Exclusive, LoginsKnown,
       Active, Joined, Flags, DownIsDown, RunningUnlessDetached, InCall, Locations, NotInHand,
       HandlesHeld

LEMMA BeginLoginKeeps == ASSUME Structure, Lifecycle, NEW s \in Sessions, BeginLogin(s) PROVE Lifecycle'
BY BridgeAssumption, Distinct
   DEF Structure, Lifecycle, BeginLogin, Begin, Lock, Types, HandleIsOpen, Exclusive, LoginsKnown,
       Active, Joined, Flags, DownIsDown, RunningUnlessDetached, InCall, Locations, NotInHand,
       HandlesHeld

LEMMA BeginDownKeeps == ASSUME Structure, Lifecycle, NEW s \in Sessions, BeginDown(s) PROVE Lifecycle'
<1> USE BridgeAssumption, Distinct DEF Structure, Lifecycle
<1>1. HandleIsOpen'
  BY DEF BeginDown, Lock, Finished, Types, HandleIsOpen, Exclusive
<1>2. LoginsKnown'
  BY DEF BeginDown, Lock, Finished, Types, HandleIsOpen, LoginsKnown, Active, Joined, Exclusive
<1>3. Joined'
  BY DEF BeginDown, Lock, Finished, Types, Joined, Exclusive, LoginsKnown, Active
<1>4. DownIsDown'
  BY DEF BeginDown, Lock, Finished, Types, Flags, DownIsDown, LoginsKnown, Active, Exclusive,
         RunningUnlessDetached, InCall, Locations
<1>5. NotInHand'
  BY DEF BeginDown, Lock, Finished, Types, NotInHand, Exclusive, InCall, Locations
<1>6. RunningUnlessDetached'
  BY DEF BeginDown, Lock, Finished, Types, HandleIsOpen, RunningUnlessDetached, LoginsKnown, Active
<1>7. HandlesHeld'
  <2>1. UNCHANGED <<ts_handle, handle, node, forward, dialing>>
    BY DEF BeginDown
  <2>2. detached' = {} => detached = {}
    BY DEF BeginDown
  <2>3. ~overtaken' => ~overtaken
    BY DEF BeginDown
  <2> QED
    BY <2>1, <2>2, <2>3 DEF HandlesHeld
<1> QED
  BY <1>1, <1>2, <1>3, <1>4, <1>5, <1>6, <1>7

LEMMA EnableQuackProxyKeeps == ASSUME Structure, Lifecycle, NEW s \in Sessions, EnableQuackProxy(s) PROVE Lifecycle'
<1> USE BridgeAssumption, Distinct DEF Structure, Lifecycle
<1>1. HandleIsOpen'
  BY DEF EnableQuackProxy, MaybeStartLoopbackProxy, ProxyRuns, ProxyThrows, ProxyStarts,
         EnsureHandle, Types, HandleIsOpen, Exclusive
<1>2. LoginsKnown'
  BY DEF EnableQuackProxy, MaybeStartLoopbackProxy, ProxyRuns, ProxyThrows, ProxyStarts,
         EnsureHandle, Types, HandleIsOpen, LoginsKnown, Active, Joined, Exclusive
<1>3. Joined'
  BY DEF EnableQuackProxy, MaybeStartLoopbackProxy, ProxyRuns, ProxyThrows, ProxyStarts,
         EnsureHandle, Types, Joined, Exclusive, LoginsKnown, Active
<1>4. DownIsDown'
  <2>1. CASE detached = {} /\ downed
    <3>1. ~running /\ ~ips /\ login_state = "idle" /\ handle = NoHandle /\ ~proxy.active
      BY <2>1 DEF DownIsDown
    <3>2. proxy' = [proxy EXCEPT !.enabled = TRUE] /\ UNCHANGED nodeVars
      BY <3>1 DEF EnableQuackProxy, MaybeStartLoopbackProxy, ProxyRuns, ProxyThrows, ProxyStarts
    <3>3. ~proxy'.active
      BY <3>1, <3>2, SetEnabled DEF Flags
    <3> QED
      BY <3>1, <3>2, <3>3 DEF EnableQuackProxy, DownIsDown
  <2>2. CASE ~(detached = {} /\ downed)
    BY <2>2 DEF EnableQuackProxy, DownIsDown, Exclusive, Types, InCall, Locations
  <2> QED
    BY <2>1, <2>2
<1>5. NotInHand'
  BY DEF EnableQuackProxy, MaybeStartLoopbackProxy, ProxyRuns, ProxyThrows, ProxyStarts,
         EnsureHandle, Types, NotInHand, Exclusive, InCall, Locations
<1>6. RunningUnlessDetached'
  BY DEF EnableQuackProxy, MaybeStartLoopbackProxy, ProxyRuns, ProxyThrows, ProxyStarts,
         EnsureHandle, Types, HandleIsOpen, RunningUnlessDetached, LoginsKnown, Active
<1>7. HandlesHeld'
  BY DEF EnableQuackProxy, MaybeStartLoopbackProxy, ProxyRuns, ProxyThrows, ProxyStarts,
         EnsureHandle, Types, NotInHand, HandlesHeld, RunningUnlessDetached, HandleIsOpen,
         Exclusive, InCall, Locations
<1> QED
  BY <1>1, <1>2, <1>3, <1>4, <1>5, <1>6, <1>7

LEMMA PingTCPKeeps == ASSUME Structure, Lifecycle, NEW s \in Sessions, PingTCP(s) PROVE Lifecycle'
BY BridgeAssumption, Distinct
   DEF Structure, Lifecycle, PingTCP, EnsureHandle, Types, HandleIsOpen, Exclusive, LoginsKnown,
       Active, Joined, Flags, DownIsDown, RunningUnlessDetached, InCall, Locations, NotInHand,
       HandlesHeld

LEMMA StartQuackForwardKeeps == ASSUME Structure, Lifecycle, NEW s \in Sessions, StartQuackForward(s) PROVE Lifecycle'
BY BridgeAssumption, Distinct
   DEF Structure, Lifecycle, StartQuackForward, CopyHandle, EnsureHandle, Types, HandleIsOpen,
       Exclusive, LoginsKnown, Active, Joined, Flags, DownIsDown, RunningUnlessDetached, InCall,
       Locations, NotInHand, HandlesHeld

LEMMA DialTCPKeeps == ASSUME Structure, Lifecycle, NEW s \in Sessions, DialTCP(s) PROVE Lifecycle'
BY BridgeAssumption, Distinct
   DEF Structure, Lifecycle, DialTCP, CopyHandle, EnsureHandle, Types, HandleIsOpen, Exclusive,
       LoginsKnown, Active, Joined, Flags, DownIsDown, RunningUnlessDetached, InCall, Locations,
       NotInHand, HandlesHeld

LEMMA JoinLoginThreadKeeps == ASSUME Structure, Lifecycle, NEW s \in Sessions, JoinLoginThread(s) PROVE Lifecycle'
BY BridgeAssumption, Distinct
   DEF Structure, Lifecycle, JoinLoginThread, Goto, Finished, Types, HandleIsOpen, Exclusive,
       LoginsKnown, Active, Joined, Flags, DownIsDown, RunningUnlessDetached, InCall, Locations,
       NotInHand, HandlesHeld

LEMMA ApplyConfigKeeps == ASSUME Structure, Lifecycle, NEW s \in Sessions, ApplyConfig(s) PROVE Lifecycle'
BY BridgeAssumption, Distinct
   DEF Structure, Lifecycle, ApplyConfig, Goto, EnsureHandle, Types, HandleIsOpen, Exclusive,
       LoginsKnown, Active, Joined, Flags, DownIsDown, RunningUnlessDetached, InCall, Locations,
       NotInHand, HandlesHeld

LEMMA ApplyConfigFailsKeeps == ASSUME Structure, Lifecycle, NEW s \in Sessions, ApplyConfigFails(s) PROVE Lifecycle'
BY BridgeAssumption, Distinct
   DEF Structure, Lifecycle, ApplyConfigFails, Return, EnsureHandle, Types, HandleIsOpen, Exclusive,
       LoginsKnown, Active, Joined, Flags, DownIsDown, RunningUnlessDetached, InCall, Locations,
       NotInHand, HandlesHeld

LEMMA UpSucceedsKeeps == ASSUME Structure, Lifecycle, NEW s \in Sessions, UpSucceeds(s) PROVE Lifecycle'
BY BridgeAssumption, Distinct
   DEF Structure, Lifecycle, UpSucceeds, Goto, Types, HandleIsOpen, Exclusive, LoginsKnown, Active,
       Joined, Flags, DownIsDown, RunningUnlessDetached, InCall, Locations, NotInHand,
       HandlesHeld

LEMMA UpFailsKeeps == ASSUME Structure, Lifecycle, NEW s \in Sessions, UpFails(s) PROVE Lifecycle'
BY BridgeAssumption, Distinct
   DEF Structure, Lifecycle, UpFails, Return, Types, HandleIsOpen, Exclusive, LoginsKnown, Active,
       Joined, Flags, DownIsDown, RunningUnlessDetached, InCall, Locations, NotInHand,
       HandlesHeld

LEMMA UpProxyKeeps == ASSUME Structure, Lifecycle, NEW s \in Sessions, UpProxy(s) PROVE Lifecycle'
BY BridgeAssumption, Distinct
   DEF Structure, Lifecycle, UpProxy, Return, MaybeStartLoopbackProxy, ProxyRuns, ProxyThrows,
       ProxyStarts, EnsureHandle, Types, HandleIsOpen, Exclusive, LoginsKnown, Active, Joined,
       Flags, DownIsDown, RunningUnlessDetached, InCall, Locations, NotInHand, HandlesHeld

LEMMA StartLoginKeeps == ASSUME Structure, Lifecycle, NEW s \in Sessions, StartLogin(s) PROVE Lifecycle'
BY BridgeAssumption, Distinct
   DEF Structure, Lifecycle, StartLogin, Goto, EnsureHandle, Types, HandleIsOpen, Exclusive,
       LoginsKnown, Active, Joined, InCall, Locations, Flags, DownIsDown, RunningUnlessDetached,
       NotInHand, HandlesHeld

LEMMA LoginPollKeeps == ASSUME Structure, Lifecycle, NEW s \in Sessions, LoginPoll(s) PROVE Lifecycle'
BY BridgeAssumption, Distinct
   DEF Structure, Lifecycle, LoginPoll, Return, Types, HandleIsOpen, Exclusive, LoginsKnown, Active,
       Joined, Flags, DownIsDown, RunningUnlessDetached, InCall, Locations, NotInHand,
       HandlesHeld

LEMMA DownForwarderKeeps == ASSUME Structure, Lifecycle, NEW s \in Sessions, DownForwarder(s) PROVE Lifecycle'
BY BridgeAssumption, Distinct
   DEF Structure, Lifecycle, DownForwarder, Goto, Types, HandleIsOpen, Exclusive, LoginsKnown,
       Active, Joined, Flags, DownIsDown, RunningUnlessDetached, InCall, Locations, NotInHand,
       HandlesHeld

LEMMA DownCloseKeeps == ASSUME Structure, Lifecycle, NEW s \in Sessions, DownClose(s) PROVE Lifecycle'
<1> USE BridgeAssumption, Distinct DEF Structure, Lifecycle
<1>1. HandleIsOpen'
  BY DEF DownClose, Goto, ClearProxyEnvironment, Types, HandleIsOpen, Exclusive
<1>2. LoginsKnown'
  BY DEF DownClose, Goto, ClearProxyEnvironment, Types, HandleIsOpen, LoginsKnown, Active, Joined,
         Exclusive
<1>3. Joined'
  BY DEF DownClose, Goto, ClearProxyEnvironment, Types, Joined, Exclusive, LoginsKnown, Active
<1>4. DownIsDown'
  <2>1. ~proxy'.active
    BY ClearStops DEF DownClose
  <2> QED
    BY <2>1 DEF DownClose, Goto, Types, DownIsDown, Exclusive, InCall, Locations
<1>5. NotInHand'
  BY DEF DownClose, Goto, ClearProxyEnvironment, Types, NotInHand, Exclusive, InCall, Locations
<1>6. RunningUnlessDetached'
  BY DEF DownClose, Goto, ClearProxyEnvironment, Types, HandleIsOpen, RunningUnlessDetached,
         LoginsKnown, Active
<1>7. HandlesHeld'
  BY DEF DownClose, Goto, ClearProxyEnvironment, Types, NotInHand, HandlesHeld,
         RunningUnlessDetached, HandleIsOpen, Exclusive, InCall, Locations
<1> QED
  BY <1>1, <1>2, <1>3, <1>4, <1>5, <1>6, <1>7

LEMMA DownClearKeeps == ASSUME Structure, Lifecycle, NEW s \in Sessions, DownClear(s) PROVE Lifecycle'
BY BridgeAssumption, Distinct
   DEF Structure, Lifecycle, DownClear, Return, Types, HandleIsOpen, Exclusive, LoginsKnown, Active,
       Joined, Flags, DownIsDown, RunningUnlessDetached, InCall, Locations, NotInHand,
       HandlesHeld

LEMMA ForwarderStartKeeps == ASSUME Structure, Lifecycle, NEW s \in Sessions, ForwarderStart(s) PROVE Lifecycle'
BY BridgeAssumption, Distinct
   DEF Structure, Lifecycle, ForwarderStart, Return, Types, HandleIsOpen, Exclusive, LoginsKnown,
       Active, Joined, Flags, DownIsDown, RunningUnlessDetached, InCall, Locations, NotInHand,
       HandlesHeld

LEMMA DialKeeps == ASSUME Structure, Lifecycle, NEW s \in Sessions, Dial(s) PROVE Lifecycle'
BY BridgeAssumption, Distinct
   DEF Structure, Lifecycle, Dial, Return, Types, HandleIsOpen, Exclusive, LoginsKnown, Active,
       Joined, Flags, DownIsDown, RunningUnlessDetached, InCall, Locations, NotInHand,
       HandlesHeld

LEMMA ForwardAcceptsKeeps == ASSUME Structure, Lifecycle, ForwardAccepts PROVE Lifecycle'
BY BridgeAssumption, Distinct
   DEF Structure, Lifecycle, ForwardAccepts, Types, HandleIsOpen, Exclusive, LoginsKnown, Active,
       Joined, Flags, DownIsDown, RunningUnlessDetached, InCall, Locations, NotInHand, HandlesHeld

LEMMA RelayDialsKeeps == ASSUME Structure, Lifecycle, NEW h \in Handles, RelayDials(h) PROVE Lifecycle'
BY BridgeAssumption, Distinct
   DEF Structure, Lifecycle, RelayDials, Types, HandleIsOpen, Exclusive, LoginsKnown, Active,
       Joined, Flags, DownIsDown, RunningUnlessDetached, InCall, Locations, NotInHand, HandlesHeld

LEMMA CallUpKeeps == ASSUME Structure, Lifecycle, NEW l \in Logins, CallUp(l) PROVE Lifecycle'
BY BridgeAssumption, Distinct
   DEF Structure, Lifecycle, CallUp, Advance, Types, HandleIsOpen, Exclusive, LoginsKnown, Active,
       Joined, Flags, DownIsDown, RunningUnlessDetached, InCall, Locations, NotInHand,
       HandlesHeld

LEMMA LoginUpSucceedsKeeps == ASSUME Structure, Lifecycle, NEW l \in Logins, LoginUpSucceeds(l) PROVE Lifecycle'
BY BridgeAssumption, Distinct
   DEF Structure, Lifecycle, LoginUpSucceeds, Advance, Types, HandleIsOpen, Exclusive, LoginsKnown,
       Active, Joined, Flags, DownIsDown, RunningUnlessDetached, InCall, Locations, NotInHand,
       HandlesHeld

LEMMA LoginUpFailsKeeps == ASSUME Structure, Lifecycle, NEW l \in Logins, LoginUpFails(l) PROVE Lifecycle'
BY BridgeAssumption, Distinct
   DEF Structure, Lifecycle, LoginUpFails, EndThread, Types, HandleIsOpen, Exclusive, LoginsKnown,
       Active, Joined, Flags, DownIsDown, RunningUnlessDetached, InCall, Locations, NotInHand,
       HandlesHeld

LEMMA LoginPublishKeeps == ASSUME Structure, Lifecycle, NEW l \in Logins, LoginPublish(l) PROVE Lifecycle'
BY BridgeAssumption, Distinct
   DEF Structure, Lifecycle, LoginPublish, Advance, Types, HandleIsOpen, Exclusive, LoginsKnown,
       Active, Joined, Flags, DownIsDown, RunningUnlessDetached, InCall, Locations, NotInHand,
       HandlesHeld

LEMMA LoginRefreshIPsKeeps == ASSUME Structure, Lifecycle, NEW l \in Logins, LoginRefreshIPs(l) PROVE Lifecycle'
BY BridgeAssumption, Distinct
   DEF Structure, Lifecycle, LoginRefreshIPs, Advance, EndThread, Addresses, Types, HandleIsOpen,
       Exclusive, LoginsKnown, Active, Joined, Flags, DownIsDown, RunningUnlessDetached, InCall,
       Locations, NotInHand, HandlesHeld

LEMMA LoginStartProxyKeeps == ASSUME Structure, Lifecycle, NEW l \in Logins, LoginStartProxy(l) PROVE Lifecycle'
BY BridgeAssumption, Distinct
   DEF Structure, Lifecycle, LoginStartProxy, EndThread, ProxyRuns, ProxyThrows, ProxyStarts,
       EnsureHandle, Types, HandleIsOpen, Exclusive, LoginsKnown, Active, Joined, Flags, DownIsDown,
       RunningUnlessDetached, InCall, Locations, NotInHand, HandlesHeld

LEMMA PrintLoginURLKeeps == ASSUME Structure, Lifecycle, NEW l \in Logins, PrintLoginURL(l) PROVE Lifecycle'
BY BridgeAssumption, Distinct
   DEF Structure, Lifecycle, PrintLoginURL, Types, HandleIsOpen, Exclusive, LoginsKnown, Active,
       Joined, Flags, DownIsDown, RunningUnlessDetached, InCall, Locations, NotInHand,
       HandlesHeld

LEMMA TailscaleClosedKeeps == ASSUME Structure, Lifecycle, NEW h \in Handles, TailscaleClosed(h) PROVE Lifecycle'
BY BridgeAssumption, Distinct
   DEF Structure, Lifecycle, TailscaleClosed, Types, HandleIsOpen, Exclusive, LoginsKnown, Active,
       Joined, Flags, DownIsDown, RunningUnlessDetached, InCall, Locations, NotInHand,
       HandlesHeld

-----------------------------------------------------------------------------
LEMMA InitStructure == Init => Structure
<1> SUFFICES ASSUME Init PROVE Structure
  OBVIOUS
<1> USE BridgeAssumption, Distinct
<1>1. Flags
  BY DEF Init, Flags, ProxyStates, NoProxy
<1>2. Types
  BY DEF Init, Types, Locations, NodeStates
<1>3. Exclusive
  BY DEF Init, Exclusive, InCall
<1>4. NoLeakedNode
  BY DEF Init, NoLeakedNode
<1>5. ProxyEnvironment
  BY DEF Init, ProxyEnvironment, NoProxy
<1> QED
  BY <1>1, <1>2, <1>3, <1>4, <1>5 DEF Structure

LEMMA InitLifecycle == Init => Lifecycle
<1> SUFFICES ASSUME Init PROVE Lifecycle
  OBVIOUS
<1> USE BridgeAssumption, Distinct DEF Init
<1>1. HandleIsOpen /\ RunningUnlessDetached
  BY DEF HandleIsOpen, RunningUnlessDetached
<1>2. LoginsKnown /\ Joined
  BY DEF LoginsKnown, Joined, Active
<1>3. DownIsDown
  BY DEF DownIsDown
<1>4. NotInHand /\ HandlesHeld
  BY DEF NotInHand, HandlesHeld
<1> QED
  BY <1>1, <1>2, <1>3, <1>4 DEF Lifecycle

LEMMA StutterKeeps == ASSUME Structure, Lifecycle, UNCHANGED vars PROVE Structure' /\ Lifecycle'
<1> USE DEF vars
<1>1. Flags' /\ Types'
  BY DEF Structure, Flags, Types
<1>2. Exclusive' /\ NoLeakedNode' /\ ProxyEnvironment'
  BY DEF Structure, Exclusive, NoLeakedNode, ProxyEnvironment
<1>3. HandleIsOpen' /\ LoginsKnown' /\ Joined' /\ DownIsDown'
  BY DEF Lifecycle, HandleIsOpen, LoginsKnown, Active, Joined, DownIsDown
<1>4. NotInHand' /\ RunningUnlessDetached' /\ HandlesHeld'
  BY DEF Lifecycle, NotInHand, RunningUnlessDetached, HandlesHeld
<1> QED
  BY <1>1, <1>2, <1>3, <1>4 DEF Structure, Lifecycle

(* Both layers hold in every state the bridge reaches.                       *)
THEOREM Invariance == Spec => [](Structure /\ Lifecycle)
<1>1. Init => Structure /\ Lifecycle
  BY InitStructure, InitLifecycle
<1>2. Structure /\ Lifecycle /\ [Next]_vars => Structure' /\ Lifecycle'
  <2> SUFFICES ASSUME Structure, Lifecycle, [Next]_vars PROVE Structure' /\ Lifecycle'
    OBVIOUS
  <2>1. ASSUME NEW s \in Sessions, Call(s) PROVE Structure' /\ Lifecycle'
    <3>1. Structure'
      BY <2>1, BeginUpPreserves, BeginLoginPreserves, BeginDownPreserves, EnableQuackProxyPreserves,
         PingTCPPreserves, StartQuackForwardPreserves, DialTCPPreserves DEF Call
    <3>2. Lifecycle'
      BY <2>1, BeginUpKeeps, BeginLoginKeeps, BeginDownKeeps, EnableQuackProxyKeeps,
         PingTCPKeeps, StartQuackForwardKeeps, DialTCPKeeps DEF Call
    <3> QED
      BY <3>1, <3>2
  <2>2. ASSUME NEW s \in Sessions, SessionStep(s) PROVE Structure' /\ Lifecycle'
    <3>1. Structure'
      BY <2>2, JoinLoginThreadPreserves, ApplyConfigPreserves, ApplyConfigFailsPreserves,
         UpSucceedsPreserves,
         UpFailsPreserves, UpProxyPreserves, StartLoginPreserves, LoginPollPreserves, DownForwarderPreserves,
         DownClosePreserves, DownClearPreserves, ForwarderStartPreserves, DialPreserves DEF SessionStep
    <3>2. Lifecycle'
      BY <2>2, JoinLoginThreadKeeps, ApplyConfigKeeps, ApplyConfigFailsKeeps, UpSucceedsKeeps,
         UpFailsKeeps, UpProxyKeeps, StartLoginKeeps, LoginPollKeeps, DownForwarderKeeps,
         DownCloseKeeps, DownClearKeeps, ForwarderStartKeeps, DialKeeps DEF SessionStep
    <3> QED
      BY <3>1, <3>2
  <2>3. ASSUME NEW l \in Logins, LoginStep(l) \/ PrintLoginURL(l) PROVE Structure' /\ Lifecycle'
    <3>1. Structure'
      BY <2>3, CallUpPreserves, LoginUpSucceedsPreserves, LoginUpFailsPreserves,
         LoginPublishPreserves,
         LoginRefreshIPsPreserves, LoginStartProxyPreserves, PrintLoginURLPreserves DEF LoginStep
    <3>2. Lifecycle'
      BY <2>3, CallUpKeeps, LoginUpSucceedsKeeps, LoginUpFailsKeeps, LoginPublishKeeps,
         LoginRefreshIPsKeeps, LoginStartProxyKeeps, PrintLoginURLKeeps DEF LoginStep
    <3> QED
      BY <3>1, <3>2
  <2>4. ASSUME NEW h \in Handles, TailscaleClosed(h) \/ RelayDials(h) PROVE Structure' /\ Lifecycle'
    BY <2>4, TailscaleClosedPreserves, TailscaleClosedKeeps, RelayDialsPreserves, RelayDialsKeeps
  <2>6. CASE ForwardAccepts
    BY <2>6, ForwardAcceptsPreserves, ForwardAcceptsKeeps
  <2>5. CASE UNCHANGED vars
    BY <2>5, StutterKeeps
  <2> QED
    BY <2>1, <2>2, <2>3, <2>4, <2>5, <2>6 DEF Next
<1> QED
  BY <1>1, <1>2, PTL DEF Spec

(* Every field keeps its type, and a session that waits for the tailnet has  *)
(* a handle to wait with.                                                    *)
THEOREM TypeCorrect == Spec => []TypeOK
<1>1. Structure => TypeOK
  BY DEF Structure, Flags, Types, TypeOK, ProxyStates
<1> QED
  BY <1>1, Invariance, PTL

(* No server is created and then forgotten: EnsureHandle never replaces a    *)
(* live one, whatever Shutdown and the login threads do meanwhile.           *)
THEOREM ServersAreNotLost == Spec => []NoLeakedNode
<1>1. Structure => NoLeakedNode
  BY DEF Structure
<1> QED
  BY <1>1, Invariance, PTL

(* StartLoopbackProxy and ClearProxyEnvironment, in any order and with any   *)
(* failures, keep the user's ALL_PROXY.                                      *)
THEOREM ProxyIsGivenBack == Spec => []ProxyEnvironment
<1>1. Structure => ProxyEnvironment
  BY DEF Structure
<1> QED
  BY <1>1, Invariance, PTL

(* `running` is true only with a node that is up behind the handle, until    *)
(* Shutdown leaves a login thread running.                                   *)
THEOREM RunningIsTrue == Spec => []RunningUnlessDetached
<1>1. Lifecycle => RunningUnlessDetached
  BY DEF Lifecycle
<1> QED
  BY <1>1, Invariance, PTL

(* After tailscale_down nothing of the node is reported or left in the       *)
(* environment, unless Shutdown left a login thread running.                 *)
THEOREM DownLeavesNothing == Spec => []DownUnlessDetached
<1>1. Structure /\ Lifecycle => DownUnlessDetached
  BY DEF Structure, Lifecycle, ProxyEnvironment, DownIsDown, DownUnlessDetached, ReportedRunning
<1> QED
  BY <1>1, Invariance, PTL

(* The handles that sessions, the forward and its relay threads copied are    *)
(* the bridge's, and its node is up, unless Shutdown came between the copy     *)
(* and the use or left a login thread running.                               *)
THEOREM HandlesStayLive == Spec => []HandlesInUseAreLive
<1>1. Lifecycle => HandlesInUseAreLive
  BY DEF Lifecycle, HandlesHeld, HandlesInUse, HandlesInUseAreLive
<1> QED
  BY <1>1, Invariance, PTL
=============================================================================
