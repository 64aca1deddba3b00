------------------------------ MODULE Forwarder ------------------------------
(***************************************************************************)
(* TailscaleForwarder: a listener on 127.0.0.1 whose accept thread hands     *)
(* every connection to a relay thread that dials the tailnet peer.  Start    *)
(* and Stop run in the threads of the SQL sessions, without a lock of their  *)
(* own (only the reported status has one); the accept thread reads           *)
(* listen_fd and dial_fn when it starts to run.                              *)
(*                                                                          *)
(* Stop closes the listening socket under the accept thread and joins it.    *)
(* Whether close() wakes an accept() that is already blocked depends on the  *)
(* platform: it does on the BSDs and macOS; on Linux the blocked call keeps  *)
(* the socket alive and returns only when a connection arrives.              *)
(***************************************************************************)
EXTENDS Naturals

CONSTANTS
    Callers,        \* threads that call Start and Stop
    Peers,          \* what a dial_fn and dial_addr lead to
    Asks,           \* the peers that each caller asks Start for
    NoPeer,         \* dial_fn = nullptr
    MaxStarts,      \* bound on the number of sockets opened, and so of accept threads
    CloseWakesAccept, \* TRUE where close() is sure to interrupt a blocked accept()
    Overlap         \* TRUE when calls may overlap in time

ASSUME ForwarderAssumption ==
    /\ NoPeer \notin Peers
    /\ Asks \in [Callers -> SUBSET Peers]
    /\ MaxStarts \in Nat
    /\ CloseWakesAccept \in BOOLEAN /\ Overlap \in BOOLEAN

Sockets == 1 .. MaxStarts
Threads == Sockets  \* the accept thread of a Start is numbered like its socket
NoSocket == 0       \* listen_fd = -1
NoThread == 0       \* accept_thread is not joinable

VARIABLES
    listen_fd, stop_requested, accept_thread, dial_fn,
    active,         \* status.active
    remote,         \* status.remote_host
    sock,           \* state of each listening socket
    opened_for,     \* the peer asked for by the Start that opened it (history)
    loop,           \* where each accept thread is
    loop_fd,        \* its copy of listen_fd
    loop_dial,      \* its copy of dial_fn
    fpc,            \* where each caller is in Start or Stop
    fpeer,          \* the peer a caller of Start asked for, NoPeer in a Stop
    fsock,          \* the socket a caller of Start has opened, and the thread it has created
    relays,         \* the relay started last: the socket its connection came from, the peer it dials
    overlapped,     \* two calls have overlapped (history)
    unspawned,      \* the Start that published the status could not create its thread (history)
    terminated      \* why the process was terminated: the assignment to a joinable
                    \* accept_thread, or an exception that the accept thread does not catch

status == <<active, remote, unspawned>>
callerVars == <<listen_fd, stop_requested, accept_thread, dial_fn, status, sock, opened_for,
                fpc, fpeer, fsock, overlapped>>
loopVars == <<loop_fd, loop_dial, relays>>
fwdVars == <<callerVars, loop, loopVars, terminated>>

ForwarderInit ==
    /\ listen_fd = NoSocket
    /\ stop_requested = FALSE
    /\ accept_thread = NoThread
    /\ dial_fn = NoPeer
    /\ active = FALSE /\ remote = NoPeer /\ unspawned = FALSE
    /\ sock = [s \in Sockets |-> "none"]
    /\ opened_for = [s \in Sockets |-> NoPeer]
    /\ loop = [l \in Threads |-> "none"]
    /\ loop_fd = [l \in Threads |-> NoSocket]
    /\ loop_dial = [l \in Threads |-> NoPeer]
    /\ fpc = [t \in Callers |-> "idle"]
    /\ fpeer = [t \in Callers |-> NoPeer]
    /\ fsock = [t \in Callers |-> NoSocket]
    /\ relays = {}
    /\ overlapped = FALSE
    /\ terminated = "no"

Busy == {t \in Callers : fpc[t] # "idle"}

(* A call returns or throws: its locals are gone.                           *)
Leave(t) ==
    /\ fpc' = [fpc EXCEPT ![t] = "idle"]
    /\ fpeer' = [fpeer EXCEPT ![t] = NoPeer]
    /\ fsock' = [fsock EXCEPT ![t] = NoSocket]

-----------------------------------------------------------------------------
(* Start(peer) and Stop both begin with Stop's body.                        *)
Enter(t, p) ==
    /\ fpc[t] = "idle"
    /\ Overlap \/ Busy = {}
    /\ fpc' = [fpc EXCEPT ![t] = "close"]
    /\ fpeer' = [fpeer EXCEPT ![t] = p]
    /\ overlapped' = (overlapped \/ Busy # {})
    /\ UNCHANGED <<listen_fd, stop_requested, accept_thread, dial_fn, status, sock, opened_for,
                   fsock, terminated, loop, loopVars>>

BeginStart(t) == \E p \in Asks[t] : Enter(t, p)
BeginStop(t) == Enter(t, NoPeer)

(* Mutant: the listening socket is not closed.                              *)
StopKeepsSocket(t) ==
    /\ fpc[t] = "close"
    /\ stop_requested' = TRUE
    /\ fpc' = [fpc EXCEPT ![t] = "forget"]
    /\ UNCHANGED <<listen_fd, accept_thread, dial_fn, status, sock, opened_for,
                   fpeer, fsock, overlapped, terminated, loop, loopVars>>

(* stop_requested = true; CloseFD(listen_fd)                                *)
StopClose(t) ==
    /\ fpc[t] = "close"
    /\ stop_requested' = TRUE
    /\ sock' = [s \in Sockets |-> IF s = listen_fd THEN "closed" ELSE sock[s]]
    /\ fpc' = [fpc EXCEPT ![t] = "forget"]
    /\ UNCHANGED <<listen_fd, accept_thread, dial_fn, status, opened_for,
                   fpeer, fsock, overlapped, terminated, loop, loopVars>>

(* listen_fd = -1                                                           *)
StopForget(t) ==
    /\ fpc[t] = "forget"
    /\ listen_fd' = NoSocket
    /\ fpc' = [fpc EXCEPT ![t] = "join"]
    /\ UNCHANGED <<stop_requested, accept_thread, dial_fn, status, sock, opened_for,
                   fpeer, fsock, overlapped, terminated, loop, loopVars>>

(* Mutant: the accept thread is not joined.                                 *)
StopWithoutJoin(t) ==
    /\ fpc[t] = "join"
    /\ fpc' = [fpc EXCEPT ![t] = "reset"]
    /\ UNCHANGED <<listen_fd, stop_requested, accept_thread, dial_fn, status, sock, opened_for,
                   fpeer, fsock, overlapped, terminated, loop, loopVars>>

(* joinable(), and the start of join(): a second thread that joins the same *)
(* one gets EINVAL, and the call ends with that exception.                  *)
StopJoin(t) ==
    /\ fpc[t] = "join"
    /\ \/ /\ accept_thread = NoThread
          /\ fpc' = [fpc EXCEPT ![t] = "reset"]
          /\ UNCHANGED <<fpeer, fsock>>
       \/ /\ accept_thread # NoThread
          /\ \A u \in Callers : fpc[u] # "joining"
          /\ fpc' = [fpc EXCEPT ![t] = "joining"]
          /\ UNCHANGED <<fpeer, fsock>>
       \/ /\ accept_thread # NoThread
          /\ \E u \in Callers : fpc[u] = "joining"
          /\ Leave(t)
    /\ UNCHANGED <<listen_fd, stop_requested, accept_thread, dial_fn, status, sock, opened_for,
                   overlapped, terminated, loop, loopVars>>

Exited(l) == loop[l] \in {"exited", "broken"}

(* Mutant: the accept thread is detached.                                   *)
StopDetaches(t) ==
    /\ fpc[t] = "joining"
    /\ accept_thread' = NoThread
    /\ fpc' = [fpc EXCEPT ![t] = "reset"]
    /\ UNCHANGED <<listen_fd, stop_requested, dial_fn, status, sock, opened_for,
                   fpeer, fsock, overlapped, terminated, loop, loopVars>>

StopJoined(t) ==
    /\ fpc[t] = "joining"
    /\ Exited(accept_thread)
    /\ accept_thread' = NoThread
    /\ fpc' = [fpc EXCEPT ![t] = "reset"]
    /\ UNCHANGED <<listen_fd, stop_requested, dial_fn, status, sock, opened_for,
                   fpeer, fsock, overlapped, terminated, loop, loopVars>>

(* Mutant: the status is not reset.                                         *)
StopKeepsStatus(t) ==
    /\ fpc[t] = "reset"
    /\ stop_requested' = FALSE
    /\ dial_fn' = NoPeer
    /\ fpc' = [fpc EXCEPT ![t] = IF fpeer[t] = NoPeer THEN "idle" ELSE "open"]
    /\ UNCHANGED <<listen_fd, accept_thread, status, sock, opened_for,
                   fpeer, fsock, overlapped, terminated, loop, loopVars>>

(* The end of Stop; a Start goes on from here.                              *)
StopReset(t) ==
    /\ fpc[t] = "reset"
    /\ stop_requested' = FALSE
    /\ dial_fn' = NoPeer
    /\ active' = FALSE /\ remote' = NoPeer /\ unspawned' = FALSE
    /\ fpc' = [fpc EXCEPT ![t] = IF fpeer[t] = NoPeer THEN "idle" ELSE "open"]
    /\ UNCHANGED <<listen_fd, accept_thread, sock, opened_for,
                   fpeer, fsock, overlapped, terminated, loop, loopVars>>

(* socket, bind, getsockname, listen.                                       *)
StartOpen(t) ==
    /\ fpc[t] = "open"
    /\ \E s \in Sockets :
         /\ sock[s] = "none" /\ \A r \in 1 .. s - 1 : sock[r] # "none"
         /\ sock' = [sock EXCEPT ![s] = "open"]
         /\ opened_for' = [opened_for EXCEPT ![s] = fpeer[t]]
         /\ fsock' = [fsock EXCEPT ![t] = s]
    /\ fpc' = [fpc EXCEPT ![t] = "publish"]
    /\ UNCHANGED <<listen_fd, stop_requested, accept_thread, dial_fn, status,
                   fpeer, overlapped, terminated, loop, loopVars>>

(* One of them fails: the fd is closed again and Start throws.              *)
StartFails(t) ==
    /\ fpc[t] = "open"
    /\ Leave(t)
    /\ UNCHANGED <<listen_fd, stop_requested, accept_thread, dial_fn, status, sock, opened_for,
                   overlapped, terminated, loop, loopVars>>

(* Mutant: dial_fn is not set.                                              *)
PublishWithoutDial(t) ==
    /\ fpc[t] = "publish"
    /\ listen_fd' = fsock[t]
    /\ stop_requested' = FALSE
    /\ active' = TRUE /\ remote' = fpeer[t] /\ unspawned' = FALSE
    /\ fpc' = [fpc EXCEPT ![t] = "spawn"]
    /\ UNCHANGED <<accept_thread, dial_fn, sock, opened_for,
                   fpeer, fsock, overlapped, terminated, loop, loopVars>>

StartPublish(t) ==
    /\ fpc[t] = "publish"
    /\ dial_fn' = fpeer[t]
    /\ listen_fd' = fsock[t]
    /\ stop_requested' = FALSE
    /\ active' = TRUE /\ remote' = fpeer[t] /\ unspawned' = FALSE
    /\ fpc' = [fpc EXCEPT ![t] = "spawn"]
    /\ UNCHANGED <<accept_thread, sock, opened_for,
                   fpeer, fsock, overlapped, terminated, loop, loopVars>>

(* std::thread(AcceptLoop): the thread runs before accept_thread names it.   *)
StartSpawn(t) ==
    /\ fpc[t] = "spawn"
    /\ loop' = [loop EXCEPT ![fsock[t]] = "begin"]
    /\ fpc' = [fpc EXCEPT ![t] = "assign"]
    /\ UNCHANGED <<listen_fd, stop_requested, accept_thread, dial_fn, status, sock, opened_for,
                   fpeer, fsock, overlapped, terminated, loopVars>>

(* It cannot be created: Start throws, and leaves the socket and the status. *)
StartSpawnFails(t) ==
    /\ fpc[t] = "spawn"
    /\ unspawned' = TRUE
    /\ Leave(t)
    /\ UNCHANGED <<listen_fd, stop_requested, accept_thread, dial_fn, active, remote, sock, opened_for,
                   overlapped, terminated, loop, loopVars>>

(* accept_thread = ...: the move assignment terminates the process when      *)
(* accept_thread is still joinable.                                         *)
StartAssign(t) ==
    /\ fpc[t] = "assign"
    /\ \/ /\ accept_thread = NoThread
          /\ accept_thread' = fsock[t]
          /\ Leave(t)
          /\ UNCHANGED terminated
       \/ /\ accept_thread # NoThread
          /\ terminated' = "assignment"
          /\ UNCHANGED <<accept_thread, fpc, fpeer, fsock>>
    /\ UNCHANGED <<listen_fd, stop_requested, dial_fn, status, sock, opened_for, overlapped, loop, loopVars>>

CallerStep(t) ==
    \/ StopClose(t) \/ StopForget(t) \/ StopJoin(t) \/ StopJoined(t) \/ StopReset(t)
    \/ StartOpen(t) \/ StartFails(t) \/ StartPublish(t)
    \/ StartSpawn(t) \/ StartSpawnFails(t) \/ StartAssign(t)

-----------------------------------------------------------------------------
(* The accept thread.                                                       *)
LoopBegin(l) ==
    /\ loop[l] = "begin"
    /\ loop_fd' = [loop_fd EXCEPT ![l] = listen_fd]
    /\ loop_dial' = [loop_dial EXCEPT ![l] = dial_fn]
    /\ loop' = [loop EXCEPT ![l] = "check"]
    /\ UNCHANGED <<callerVars, terminated, relays>>

(* The loop ends, and its copies with it.                                   *)
LoopEnds(l, how) ==
    /\ loop' = [loop EXCEPT ![l] = how]
    /\ loop_fd' = [loop_fd EXCEPT ![l] = NoSocket]
    /\ loop_dial' = [loop_dial EXCEPT ![l] = NoPeer]

LoopCheck(l) ==
    /\ loop[l] = "check"
    /\ \/ stop_requested /\ LoopEnds(l, "exited")
       \/ /\ ~stop_requested
          /\ loop' = [loop EXCEPT ![l] = "call"]
          /\ UNCHANGED <<loop_fd, loop_dial>>
    /\ UNCHANGED <<callerVars, terminated, relays>>

Listening(s) == s # NoSocket /\ sock[s] = "open"

(* accept() on a listening socket waits for a connection.                   *)
LoopBlock(l) ==
    /\ loop[l] = "call"
    /\ Listening(loop_fd[l])
    /\ loop' = [loop EXCEPT ![l] = "blocked"]
    /\ UNCHANGED <<callerVars, terminated, loopVars>>

(* A connection arrives and a relay thread is started for it.  An accept()  *)
(* that was blocked when its socket was closed may still take it.           *)
LoopAccept(l) ==
    /\ loop[l] = "blocked"
    /\ relays' = {[fd |-> loop_fd[l], to |-> loop_dial[l]]}
    /\ loop' = [loop EXCEPT ![l] = "check"]
    /\ UNCHANGED <<callerVars, terminated, loop_fd, loop_dial>>

(* The relay thread cannot be created: the exception leaves the accept       *)
(* thread's function.                                                       *)
LoopSpawnFails(l) ==
    /\ loop[l] = "blocked"
    /\ terminated' = "exception"
    /\ UNCHANGED <<callerVars, loop, loopVars>>

(* accept() fails, because the socket is closed, or with an error of the    *)
(* kind EMFILE, or with EINTR, which alone goes on with the loop.           *)
LoopFail(l) ==
    /\ loop[l] \in {"call", "blocked"}
    /\ \/ LoopEnds(l, IF stop_requested THEN "exited" ELSE "broken")
       \/ /\ ~stop_requested /\ Listening(loop_fd[l])
          /\ loop' = [loop EXCEPT ![l] = "check"]
          /\ UNCHANGED <<loop_fd, loop_dial>>
    /\ UNCHANGED <<callerVars, terminated, relays>>

LoopStep(l) == LoopBegin(l) \/ LoopCheck(l) \/ LoopBlock(l) \/ LoopAccept(l) \/ LoopSpawnFails(l) \/ LoopFail(l)

-----------------------------------------------------------------------------
ForwarderNext ==
    /\ terminated = "no"
    /\ \/ \E t \in Callers : BeginStop(t) \/ BeginStart(t) \/ CallerStep(t)
       \/ \E l \in Threads : LoopStep(l)

(* Threads keep running, and an accept() that the platform wakes returns;   *)
(* the arrival of connections and the failure of accept() on a healthy       *)
(* socket are not promised.                                                 *)
Unblocked(l) ==
    \/ LoopBegin(l) \/ LoopCheck(l) \/ LoopBlock(l)
    \/ ~Listening(loop_fd[l]) /\ (loop[l] = "call" \/ CloseWakesAccept) /\ LoopFail(l)

ForwarderFairness ==
    /\ \A t \in Callers : WF_fwdVars(terminated = "no" /\ CallerStep(t))
    /\ \A l \in Threads : WF_fwdVars(terminated = "no" /\ Unblocked(l))

ForwarderSpec == ForwarderInit /\ [][ForwarderNext]_fwdVars /\ ForwarderFairness

-----------------------------------------------------------------------------
ForwarderTypeOK ==
    /\ listen_fd \in Sockets \cup {NoSocket}
    /\ stop_requested \in BOOLEAN /\ active \in BOOLEAN
    /\ remote \in Peers \cup {NoPeer} /\ unspawned \in BOOLEAN
    /\ overlapped \in BOOLEAN /\ terminated \in {"no", "assignment", "exception"}
    /\ accept_thread \in Threads \cup {NoThread}
    /\ dial_fn \in Peers \cup {NoPeer}
    /\ sock \in [Sockets -> {"none", "open", "closed"}]
    /\ opened_for \in [Sockets -> Peers \cup {NoPeer}]
    /\ loop \in [Threads -> {"none", "begin", "check", "call", "blocked", "exited", "broken"}]
    /\ loop_fd \in [Threads -> Sockets \cup {NoSocket}]
    /\ loop_dial \in [Threads -> Peers \cup {NoPeer}]
    /\ fpc \in [Callers -> {"idle", "close", "forget", "join", "joining", "reset", "open", "publish", "spawn", "assign"}]
    /\ fpeer \in [Callers -> Peers \cup {NoPeer}]
    /\ fsock \in [Callers -> Sockets \cup {NoSocket}]
    /\ \A t \in Callers : fpc[t] \in {"publish", "spawn", "assign"} <=> fsock[t] # NoSocket
    /\ relays \subseteq [fd : Sockets \cup {NoSocket}, to : Peers \cup {NoPeer}]

Running(l) == loop[l] # "none" /\ ~Exited(l)

(* An accept thread never outlives accept_thread's knowledge of it: a       *)
(* thread still running is the one the next Stop joins, or a Start that has   *)
(* not returned is about to make it that one, however the calls that started  *)
(* and stopped the forward overlapped.                                      *)
NoOrphanedThread ==
    \A l \in Threads : Running(l) => l = accept_thread \/ \E t \in Callers : fpc[t] = "assign" /\ fsock[t] = l

(* The thread of the forward, on the socket and towards the peer of the      *)
(* status: by its own copies once it has taken them, by what it will copy    *)
(* until then.                                                              *)
Serves(l) ==
    /\ Running(l) \/ loop[l] = "broken"
    /\ loop[l] = "begin" => dial_fn = remote
    /\ loop[l] \in {"check", "call", "blocked"} => loop_fd[l] = listen_fd /\ loop_dial[l] = remote

(* As long as calls do not overlap, a Start or Stop that has returned or     *)
(* thrown leaves either nothing behind -- no listening socket, no accept      *)
(* thread -- or exactly the forward that the status reports: one open socket, *)
(* opened for the peer of the status, and an accept thread on it that relays  *)
(* to that peer, unless accept() itself failed.  The one exception is a Start *)
(* that could not create the thread: the status then reports a forward whose  *)
(* socket is open and that nobody serves.                                   *)
StatusTellsTheTruth ==
    ~overlapped /\ Busy = {} =>
        IF active
        THEN /\ Listening(listen_fd) /\ opened_for[listen_fd] = remote
             /\ \A s \in Sockets : sock[s] = "open" => s = listen_fd
             /\ IF unspawned THEN accept_thread = NoThread ELSE accept_thread # NoThread /\ Serves(accept_thread)
        ELSE \A s \in Sockets : sock[s] # "open" /\ ~Running(s)

(* The process is terminated by the assignment in Start only when two calls *)
(* overlapped: by itself, Start always joins the previous accept thread.    *)
TerminatesOnlyOnOverlap == terminated = "assignment" => overlapped

(* A relay goes to the peer asked for by the Start that opened the socket   *)
(* its connection came in on, although the accept thread looks the peer up  *)
(* only when it starts to run.                                              *)
RelaysReachTheirPeer == ~overlapped => \A r \in relays : r.to = opened_for[r.fd]

(* The thread that a Stop joins is in accept() on a socket that is closed,    *)
(* where close() does not wake it.                                          *)
AcceptSleepsOn ==
    /\ ~CloseWakesAccept
    /\ accept_thread # NoThread
    /\ loop[accept_thread] = "blocked" /\ ~Listening(loop_fd[accept_thread])

(* Stop and Start return, with two exceptions.  Calls that overlap: the       *)
(* accept thread that a Stop joins may then be on another socket than the one *)
(* it closed.  And a platform whose close() does not wake accept(), as Linux: *)
(* the call then waits for as long as no connection arrives, and for nothing  *)
(* else.                                                                    *)
CallsReturn ==
    \A t \in Callers :
        fpc[t] # "idle" ~> (fpc[t] = "idle" \/ overlapped \/ terminated # "no" \/ []AcceptSleepsOn)
=============================================================================
