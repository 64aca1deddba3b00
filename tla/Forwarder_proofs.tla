--------------------------- MODULE Forwarder_proofs ---------------------------
(***************************************************************************)
(* Proofs about the local forwarder: about Forwarder, for any callers and    *)
(* peers, any number of sockets and both platforms, and about Relay, for any *)
(* number of units, buffer sizes and sides with POLLHUP.                     *)
(*                                                                          *)
(* The invariant of Forwarder has two layers.  The first holds however calls *)
(* overlap: the types, that a running accept thread is the one               *)
(* accept_thread knows, and that a socket that anybody refers to was opened  *)
(* for the peer its Start was asked for.  The second is about calls that     *)
(* have not overlapped: then there is one caller at most, and what its       *)
(* position says about the sockets, the thread and the status (Stages) is    *)
(* what makes the status true when it returns; and whoever reads listen_fd   *)
(* and dial_fn reads a pair that belongs together (Peering).                *)
(*                                                                          *)
(* The invariant of Relay cuts the units 1 .. sent[s] of a direction into    *)
(* what the far peer has read, its outbox, buf and the inbox: each is a run  *)
(* of consecutive units, and while the far connection is intact the next     *)
(* begins where the one before ends.                                        *)
(***************************************************************************)
EXTENDS Forwarder, Relay, SequenceTheorems, TLAPS

OnlyOpen(s) == \A r \in Sockets : sock[r] = "open" => r = s

(* Sockets are opened once, and for a peer.                                  *)
Opened(s) == s \in Sockets /\ sock[s] # "none"

SocketInv ==
    /\ listen_fd # NoSocket => Opened(listen_fd)
    /\ \A t \in Callers : fsock[t] # NoSocket => Opened(fsock[t]) /\ opened_for[fsock[t]] = fpeer[t]
    /\ \A l \in Threads : loop_fd[l] # NoSocket => Opened(loop_fd[l])
    /\ \A l \in Threads : loop[l] = "blocked" => loop_fd[l] # NoSocket
    /\ \A r \in relays : Opened(r.fd)

(* A listening socket and the peer to dial are read as a pair.               *)
Peering ==
    ~overlapped =>
        /\ listen_fd # NoSocket => dial_fn = opened_for[listen_fd]
        /\ \A l \in Threads :
             loop[l] \in {"check", "call", "blocked"} /\ loop_fd[l] # NoSocket =>
                 loop_dial[l] = opened_for[loop_fd[l]]
        /\ \A r \in relays : r.to = opened_for[r.fd]

(* What a caller that has done nothing yet, or nobody, leaves behind.        *)
Forwarding ==
    /\ Listening(listen_fd) /\ OnlyOpen(listen_fd) /\ opened_for[listen_fd] = remote
    /\ IF unspawned THEN accept_thread = NoThread ELSE accept_thread # NoThread /\ Serves(accept_thread)
    /\ ~stop_requested

Nothing == listen_fd = NoSocket /\ OnlyOpen(NoSocket) /\ accept_thread = NoThread

Alone == \A t, u \in Callers : fpc[t] # "idle" /\ fpc[u] # "idle" => t = u

AtRest == (\A t \in Callers : fpc[t] \in {"idle", "close"}) => IF active THEN Forwarding ELSE Nothing

Stage(t) ==
    /\ fpc[t] \in {"forget", "join", "joining", "reset", "open"} => OnlyOpen(NoSocket)
    /\ fpc[t] \in {"join", "joining", "reset", "open", "publish"} => listen_fd = NoSocket
    /\ fpc[t] \in {"reset", "open", "publish", "spawn", "assign"} => accept_thread = NoThread
    /\ fpc[t] \in {"open", "publish"} => ~active
    /\ fpc[t] \in {"publish", "spawn", "assign"} => Listening(fsock[t]) /\ OnlyOpen(fsock[t])
    /\ fpc[t] \in {"spawn", "assign"} => /\ listen_fd = fsock[t] /\ active /\ ~unspawned /\ ~stop_requested
                                        /\ remote = fpeer[t] /\ dial_fn = remote
    /\ fpc[t] = "assign" => Serves(fsock[t])

Stages == ~overlapped => Alone /\ AtRest /\ \A t \in Callers : Stage(t)

IInv ==
    /\ ForwarderTypeOK /\ NoOrphanedThread /\ SocketInv
    /\ TerminatesOnlyOnOverlap /\ Peering /\ Stages

USE DEF callerVars, loopVars, status, NoSocket, NoThread, Sockets, Threads

(* Start and Stop begin alike.                                              *)
LEMMA Entering ==
    \A t \in Callers : BeginStop(t) \/ BeginStart(t) => \E p \in Peers \cup {NoPeer} : Enter(t, p)
  BY ForwarderAssumption DEF BeginStop, BeginStart

(* A call that begins while another one is under way overlaps it.            *)
LEMMA EnterOverlaps ==
    ASSUME ForwarderTypeOK, NEW t \in Callers, NEW p \in Peers \cup {NoPeer}, Enter(t, p)
    PROVE  /\ overlapped' \in BOOLEAN
           /\ overlapped => overlapped'
           /\ ~overlapped' => \A u \in Callers : fpc[u] = "idle"
<1>1. CASE overlapped
  BY <1>1 DEF Enter, ForwarderTypeOK
<1>2. CASE ~overlapped
  BY <1>2 DEF Enter, Busy, ForwarderTypeOK
<1> QED BY <1>1, <1>2

(* Whether the loop goes on or ends: its copies are as they were, or gone.   *)
Turned(l) ==
    /\ UNCHANGED <<callerVars, terminated, relays>>
    /\ loop[l] \in {"check", "call", "blocked"}
    /\ \A m \in Threads : m # l => loop'[m] = loop[m] /\ loop_fd'[m] = loop_fd[m] /\ loop_dial'[m] = loop_dial[m]
    /\ \/ /\ loop'[l] \in {"exited", "broken"} /\ loop_fd'[l] = NoSocket /\ loop_dial'[l] = NoPeer
          /\ loop'[l] = "exited" => stop_requested
       \/ /\ loop'[l] \in {"check", "call"} /\ loop_fd'[l] = loop_fd[l] /\ loop_dial'[l] = loop_dial[l]

LEMMA Turning ==
    ASSUME ForwarderTypeOK, NEW l \in Threads, LoopCheck(l) \/ LoopFail(l)
    PROVE  Turned(l) /\ ForwarderTypeOK'
<1> USE DEF ForwarderTypeOK
<1>1. CASE LoopCheck(l) /\ stop_requested
  BY <1>1 DEF LoopCheck, LoopEnds, Turned
<1>2. CASE LoopCheck(l) /\ ~stop_requested
  BY <1>2 DEF LoopCheck, Turned
<1>3. CASE LoopFail(l) /\ LoopEnds(l, IF stop_requested THEN "exited" ELSE "broken")
  <2>1. CASE stop_requested
    BY <1>3, <2>1 DEF LoopFail, LoopEnds, Turned
  <2>2. CASE ~stop_requested
    BY <1>3, <2>2 DEF LoopFail, LoopEnds, Turned
  <2> QED BY <2>1, <2>2
<1>4. CASE LoopFail(l) /\ ~stop_requested /\ loop' = [loop EXCEPT ![l] = "check"] /\ UNCHANGED <<loop_fd, loop_dial>>
  BY <1>4 DEF LoopFail, Turned
<1> QED BY <1>1, <1>2, <1>3, <1>4 DEF LoopCheck, LoopFail

-----------------------------------------------------------------------------
(* Types.                                                                   *)
LEMMA NextTypeOK ==
    ASSUME ForwarderTypeOK,
           [ForwarderNext]_fwdVars
    PROVE  ForwarderTypeOK'
<1>1. ASSUME NEW t \in Callers, NEW p \in Peers \cup {NoPeer}, Enter(t, p) PROVE ForwarderTypeOK'
  BY <1>1, ForwarderAssumption, EnterOverlaps DEF Enter, ForwarderTypeOK
<1>2. ASSUME NEW t \in Callers, StopClose(t) PROVE ForwarderTypeOK'
  BY <1>2, ForwarderAssumption DEF StopClose, ForwarderTypeOK
<1>3. ASSUME NEW t \in Callers, StopForget(t) PROVE ForwarderTypeOK'
  BY <1>3, ForwarderAssumption DEF StopForget, ForwarderTypeOK
<1>4. ASSUME NEW t \in Callers, StopJoin(t) PROVE ForwarderTypeOK'
  <2>1. CASE fpc' = [fpc EXCEPT ![t] = "reset"] /\ UNCHANGED <<fpeer, fsock>>
    BY <1>4, <2>1 DEF StopJoin, ForwarderTypeOK
  <2>2. CASE fpc' = [fpc EXCEPT ![t] = "joining"] /\ UNCHANGED <<fpeer, fsock>>
    BY <1>4, <2>2 DEF StopJoin, ForwarderTypeOK
  <2>3. CASE Leave(t)
    BY <1>4, <2>3 DEF StopJoin, Leave, ForwarderTypeOK
  <2> QED BY <1>4, <2>1, <2>2, <2>3 DEF StopJoin
<1>5. ASSUME NEW t \in Callers, StopJoined(t) PROVE ForwarderTypeOK'
  BY <1>5, ForwarderAssumption DEF StopJoined, ForwarderTypeOK
<1>6. ASSUME NEW t \in Callers, StopReset(t) PROVE ForwarderTypeOK'
  BY <1>6, ForwarderAssumption DEF StopReset, ForwarderTypeOK
<1>7. ASSUME NEW t \in Callers, StartOpen(t) PROVE ForwarderTypeOK'
  BY <1>7, ForwarderAssumption DEF StartOpen, ForwarderTypeOK
<1>8. ASSUME NEW t \in Callers, StartFails(t) PROVE ForwarderTypeOK'
  BY <1>8, ForwarderAssumption DEF StartFails, Leave, ForwarderTypeOK
<1>9. ASSUME NEW t \in Callers, StartPublish(t) PROVE ForwarderTypeOK'
  BY <1>9, ForwarderAssumption DEF StartPublish, ForwarderTypeOK
<1>10. ASSUME NEW t \in Callers, StartSpawn(t) PROVE ForwarderTypeOK'
  <2>1. fsock[t] \in Threads
    BY <1>10 DEF StartSpawn, ForwarderTypeOK
  <2> QED BY <1>10, <2>1 DEF StartSpawn, ForwarderTypeOK
<1>11. ASSUME NEW t \in Callers, StartSpawnFails(t) PROVE ForwarderTypeOK'
  BY <1>11 DEF StartSpawnFails, Leave, ForwarderTypeOK
<1>12. ASSUME NEW t \in Callers, StartAssign(t) PROVE ForwarderTypeOK'
  <2>1. CASE accept_thread = NoThread
    BY <1>12, <2>1 DEF StartAssign, Leave, ForwarderTypeOK
  <2>2. CASE accept_thread # NoThread
    BY <1>12, <2>2 DEF StartAssign, ForwarderTypeOK
  <2> QED BY <2>1, <2>2
<1>13. ASSUME NEW l \in Threads, LoopSpawnFails(l) PROVE ForwarderTypeOK'
  BY <1>13 DEF LoopSpawnFails, ForwarderTypeOK
<1>14. ASSUME NEW l \in Threads, LoopBegin(l) PROVE ForwarderTypeOK'
  BY <1>14, ForwarderAssumption DEF LoopBegin, ForwarderTypeOK
<1>15. ASSUME NEW l \in Threads, LoopCheck(l) \/ LoopFail(l) PROVE ForwarderTypeOK'
  BY <1>15, Turning
<1>16. ASSUME NEW l \in Threads, LoopBlock(l) PROVE ForwarderTypeOK'
  BY <1>16, ForwarderAssumption DEF LoopBlock, ForwarderTypeOK
<1>17. ASSUME NEW l \in Threads, LoopAccept(l) PROVE ForwarderTypeOK'
  BY <1>17, ForwarderAssumption DEF LoopAccept, ForwarderTypeOK
<1>18. CASE UNCHANGED fwdVars
  BY <1>18, ForwarderAssumption DEF fwdVars, ForwarderTypeOK
<1> QED
  BY Entering, <1>1, <1>2, <1>3, <1>4, <1>5, <1>6, <1>7, <1>8, <1>9,
     <1>10, <1>11, <1>12, <1>13, <1>14, <1>15, <1>16, <1>17, <1>18
  DEF ForwarderNext, CallerStep, LoopStep

-----------------------------------------------------------------------------
(* A thread is started only where none is known, and forgotten only when it  *)
(* has ended.                                                               *)
LEMMA NextNoOrphan ==
    ASSUME ForwarderTypeOK, NoOrphanedThread,
           [ForwarderNext]_fwdVars
    PROVE  NoOrphanedThread'
<1>1. ASSUME NEW t \in Callers, NEW p \in Peers \cup {NoPeer}, Enter(t, p) PROVE NoOrphanedThread'
  BY <1>1 DEF Enter, ForwarderTypeOK, NoOrphanedThread, Running, Exited
<1>2. ASSUME NEW t \in Callers, StopClose(t) PROVE NoOrphanedThread'
  BY <1>2 DEF StopClose, ForwarderTypeOK, NoOrphanedThread, Running, Exited
<1>3. ASSUME NEW t \in Callers, StopForget(t) PROVE NoOrphanedThread'
  BY <1>3 DEF StopForget, ForwarderTypeOK, NoOrphanedThread, Running, Exited
<1>4. ASSUME NEW t \in Callers, StopJoin(t) PROVE NoOrphanedThread'
  BY <1>4 DEF StopJoin, Leave, ForwarderTypeOK, NoOrphanedThread, Running, Exited
<1>5. ASSUME NEW t \in Callers, StopJoined(t) PROVE NoOrphanedThread'
  BY <1>5 DEF StopJoined, ForwarderTypeOK, NoOrphanedThread, Running, Exited
<1>6. ASSUME NEW t \in Callers, StopReset(t) PROVE NoOrphanedThread'
  BY <1>6 DEF StopReset, ForwarderTypeOK, NoOrphanedThread, Running, Exited
<1>7. ASSUME NEW t \in Callers, StartOpen(t) PROVE NoOrphanedThread'
  BY <1>7 DEF StartOpen, ForwarderTypeOK, NoOrphanedThread, Running, Exited
<1>8. ASSUME NEW t \in Callers, StartFails(t) PROVE NoOrphanedThread'
  BY <1>8 DEF StartFails, Leave, ForwarderTypeOK, NoOrphanedThread, Running, Exited
<1>9. ASSUME NEW t \in Callers, StartPublish(t) PROVE NoOrphanedThread'
  BY <1>9 DEF StartPublish, ForwarderTypeOK, NoOrphanedThread, Running, Exited
<1>10. ASSUME NEW t \in Callers, StartSpawn(t) PROVE NoOrphanedThread'
  <2>1. fsock[t] \in Threads
    BY <1>10 DEF StartSpawn, ForwarderTypeOK
  <2> QED BY <1>10, <2>1 DEF StartSpawn, ForwarderTypeOK, NoOrphanedThread, Running, Exited
<1>11. ASSUME NEW t \in Callers, StartSpawnFails(t) PROVE NoOrphanedThread'
  BY <1>11 DEF StartSpawnFails, Leave, ForwarderTypeOK, NoOrphanedThread, Running, Exited
<1>12. ASSUME NEW t \in Callers, StartAssign(t) PROVE NoOrphanedThread'
  <2>1. CASE accept_thread = NoThread
    BY <1>12, <2>1 DEF StartAssign, Leave, ForwarderTypeOK, NoOrphanedThread, Running, Exited
  <2>2. CASE accept_thread # NoThread
    BY <1>12, <2>2 DEF StartAssign, ForwarderTypeOK, NoOrphanedThread, Running, Exited
  <2> QED BY <2>1, <2>2
<1>13. ASSUME NEW l \in Threads, LoopSpawnFails(l) PROVE NoOrphanedThread'
  BY <1>13 DEF LoopSpawnFails, ForwarderTypeOK, NoOrphanedThread, Running, Exited
<1>14. ASSUME NEW l \in Threads, LoopBegin(l) PROVE NoOrphanedThread'
  BY <1>14 DEF LoopBegin, ForwarderTypeOK, NoOrphanedThread, Running, Exited
<1>15. ASSUME NEW l \in Threads, LoopCheck(l) \/ LoopFail(l) PROVE NoOrphanedThread'
  BY <1>15, Turning DEF Turned, NoOrphanedThread, Running, Exited
<1>16. ASSUME NEW l \in Threads, LoopBlock(l) PROVE NoOrphanedThread'
  BY <1>16 DEF LoopBlock, ForwarderTypeOK, NoOrphanedThread, Running, Exited
<1>17. ASSUME NEW l \in Threads, LoopAccept(l) PROVE NoOrphanedThread'
  BY <1>17 DEF LoopAccept, ForwarderTypeOK, NoOrphanedThread, Running, Exited
<1>18. CASE UNCHANGED fwdVars
  BY <1>18 DEF fwdVars, ForwarderTypeOK, NoOrphanedThread, Running, Exited
<1> QED
  BY Entering, <1>1, <1>2, <1>3, <1>4, <1>5, <1>6, <1>7, <1>8, <1>9,
     <1>10, <1>11, <1>12, <1>13, <1>14, <1>15, <1>16, <1>17, <1>18
  DEF ForwarderNext, CallerStep, LoopStep

-----------------------------------------------------------------------------
(* Sockets are opened once, and for the peer their Start was asked for.      *)
LEMMA NextSockets ==
    ASSUME ForwarderTypeOK, SocketInv,
           [ForwarderNext]_fwdVars
    PROVE  SocketInv'
<1>1. ASSUME NEW t \in Callers, NEW p \in Peers \cup {NoPeer}, Enter(t, p) PROVE SocketInv'
  BY <1>1 DEF Enter, ForwarderTypeOK, SocketInv, Opened, Listening
<1>2. ASSUME NEW t \in Callers, StopClose(t) PROVE SocketInv'
  BY <1>2 DEF StopClose, ForwarderTypeOK, SocketInv, Opened, Listening
<1>3. ASSUME NEW t \in Callers, StopForget(t) PROVE SocketInv'
  BY <1>3 DEF StopForget, ForwarderTypeOK, SocketInv, Opened, Listening
<1>4. ASSUME NEW t \in Callers, StopJoin(t) PROVE SocketInv'
  BY <1>4 DEF StopJoin, Leave, ForwarderTypeOK, SocketInv, Opened, Listening
<1>5. ASSUME NEW t \in Callers, StopJoined(t) PROVE SocketInv'
  BY <1>5 DEF StopJoined, ForwarderTypeOK, SocketInv, Opened, Listening
<1>6. ASSUME NEW t \in Callers, StopReset(t) PROVE SocketInv'
  BY <1>6 DEF StopReset, ForwarderTypeOK, SocketInv, Opened, Listening
<1>7. ASSUME NEW t \in Callers, StartOpen(t) PROVE SocketInv'
  BY <1>7 DEF StartOpen, ForwarderTypeOK, SocketInv, Opened, Listening
<1>8. ASSUME NEW t \in Callers, StartFails(t) PROVE SocketInv'
  BY <1>8 DEF StartFails, Leave, ForwarderTypeOK, SocketInv, Opened, Listening
<1>9. ASSUME NEW t \in Callers, StartPublish(t) PROVE SocketInv'
  BY <1>9 DEF StartPublish, ForwarderTypeOK, SocketInv, Opened, Listening
<1>10. ASSUME NEW t \in Callers, StartSpawn(t) PROVE SocketInv'
  <2>1. fsock[t] \in Threads
    BY <1>10 DEF StartSpawn, ForwarderTypeOK
  <2> QED BY <1>10, <2>1 DEF StartSpawn, ForwarderTypeOK, SocketInv, Opened, Listening
<1>11. ASSUME NEW t \in Callers, StartSpawnFails(t) PROVE SocketInv'
  BY <1>11 DEF StartSpawnFails, Leave, ForwarderTypeOK, SocketInv, Opened, Listening
<1>12. ASSUME NEW t \in Callers, StartAssign(t) PROVE SocketInv'
  <2>1. CASE accept_thread = NoThread
    BY <1>12, <2>1 DEF StartAssign, Leave, ForwarderTypeOK, SocketInv, Opened, Listening
  <2>2. CASE accept_thread # NoThread
    BY <1>12, <2>2 DEF StartAssign, ForwarderTypeOK, SocketInv, Opened, Listening
  <2> QED BY <2>1, <2>2
<1>13. ASSUME NEW l \in Threads, LoopSpawnFails(l) PROVE SocketInv'
  BY <1>13 DEF LoopSpawnFails, ForwarderTypeOK, SocketInv, Opened, Listening
<1>14. ASSUME NEW l \in Threads, LoopBegin(l) PROVE SocketInv'
  BY <1>14 DEF LoopBegin, ForwarderTypeOK, SocketInv, Opened, Listening
<1>15. ASSUME NEW l \in Threads, LoopCheck(l) \/ LoopFail(l) PROVE SocketInv'
  BY <1>15, Turning DEF Turned, SocketInv, Opened
<1>16. ASSUME NEW l \in Threads, LoopBlock(l) PROVE SocketInv'
  BY <1>16 DEF LoopBlock, ForwarderTypeOK, SocketInv, Opened, Listening
<1>17. ASSUME NEW l \in Threads, LoopAccept(l) PROVE SocketInv'
  BY <1>17 DEF LoopAccept, ForwarderTypeOK, SocketInv, Opened, Listening
<1>18. CASE UNCHANGED fwdVars
  BY <1>18 DEF fwdVars, ForwarderTypeOK, SocketInv, Opened, Listening
<1> QED
  BY Entering, <1>1, <1>2, <1>3, <1>4, <1>5, <1>6, <1>7, <1>8, <1>9,
     <1>10, <1>11, <1>12, <1>13, <1>14, <1>15, <1>16, <1>17, <1>18
  DEF ForwarderNext, CallerStep, LoopStep

-----------------------------------------------------------------------------
(* The pair of socket and peer.                                             *)
LEMMA NextPeering ==
    ASSUME ForwarderTypeOK, SocketInv, Peering, Stages,
           [ForwarderNext]_fwdVars
    PROVE  Peering'
<1>1. ASSUME NEW t \in Callers, NEW p \in Peers \cup {NoPeer}, Enter(t, p) PROVE Peering'
  BY <1>1, EnterOverlaps DEF Enter, ForwarderTypeOK, SocketInv, Opened, Peering, Stages, Stage
<1>2. ASSUME NEW t \in Callers, StopClose(t) PROVE Peering'
  BY <1>2 DEF StopClose, ForwarderTypeOK, SocketInv, Opened, Peering, Stages, Stage
<1>3. ASSUME NEW t \in Callers, StopForget(t) PROVE Peering'
  BY <1>3 DEF StopForget, ForwarderTypeOK, SocketInv, Opened, Peering, Stages, Stage
<1>4. ASSUME NEW t \in Callers, StopJoin(t) PROVE Peering'
  BY <1>4 DEF StopJoin, Leave, ForwarderTypeOK, SocketInv, Opened, Peering, Stages, Stage
<1>5. ASSUME NEW t \in Callers, StopJoined(t) PROVE Peering'
  BY <1>5 DEF StopJoined, ForwarderTypeOK, SocketInv, Opened, Peering, Stages, Stage
<1>6. ASSUME NEW t \in Callers, StopReset(t) PROVE Peering'
  BY <1>6 DEF StopReset, ForwarderTypeOK, SocketInv, Opened, Peering, Stages, Stage
<1>7. ASSUME NEW t \in Callers, StartOpen(t) PROVE Peering'
  BY <1>7 DEF StartOpen, ForwarderTypeOK, SocketInv, Opened, Peering, Stages, Stage
<1>8. ASSUME NEW t \in Callers, StartFails(t) PROVE Peering'
  BY <1>8 DEF StartFails, Leave, ForwarderTypeOK, SocketInv, Opened, Peering, Stages, Stage
<1>9. ASSUME NEW t \in Callers, StartPublish(t) PROVE Peering'
  BY <1>9 DEF StartPublish, ForwarderTypeOK, SocketInv, Opened, Peering, Stages, Stage
<1>10. ASSUME NEW t \in Callers, StartSpawn(t) PROVE Peering'
  <2>1. fsock[t] \in Threads
    BY <1>10 DEF StartSpawn, ForwarderTypeOK
  <2> QED BY <1>10, <2>1 DEF StartSpawn, ForwarderTypeOK, SocketInv, Opened, Peering, Stages, Stage
<1>11. ASSUME NEW t \in Callers, StartSpawnFails(t) PROVE Peering'
  BY <1>11 DEF StartSpawnFails, Leave, ForwarderTypeOK, SocketInv, Opened, Peering, Stages, Stage
<1>12. ASSUME NEW t \in Callers, StartAssign(t) PROVE Peering'
  <2>1. CASE accept_thread = NoThread
    BY <1>12, <2>1 DEF StartAssign, Leave, ForwarderTypeOK, SocketInv, Opened, Peering, Stages, Stage
  <2>2. CASE accept_thread # NoThread
    BY <1>12, <2>2 DEF StartAssign, ForwarderTypeOK, SocketInv, Opened, Peering, Stages, Stage
  <2> QED BY <2>1, <2>2
<1>13. ASSUME NEW l \in Threads, LoopSpawnFails(l) PROVE Peering'
  BY <1>13 DEF LoopSpawnFails, ForwarderTypeOK, SocketInv, Opened, Peering, Stages, Stage
<1>14. ASSUME NEW l \in Threads, LoopBegin(l) PROVE Peering'
  BY <1>14 DEF LoopBegin, ForwarderTypeOK, SocketInv, Opened, Peering, Stages, Stage
<1>15. ASSUME NEW l \in Threads, LoopCheck(l) \/ LoopFail(l) PROVE Peering'
  BY <1>15, Turning DEF Turned, Peering
<1>16. ASSUME NEW l \in Threads, LoopBlock(l) PROVE Peering'
  BY <1>16 DEF LoopBlock, ForwarderTypeOK, SocketInv, Opened, Peering, Stages, Stage
<1>17. ASSUME NEW l \in Threads, LoopAccept(l) PROVE Peering'
  BY <1>17 DEF LoopAccept, ForwarderTypeOK, SocketInv, Opened, Peering, Stages, Stage
<1>18. CASE UNCHANGED fwdVars
  BY <1>18 DEF fwdVars, ForwarderTypeOK, SocketInv, Opened, Peering, Stages, Stage
<1> QED
  BY Entering, <1>1, <1>2, <1>3, <1>4, <1>5, <1>6, <1>7, <1>8, <1>9,
     <1>10, <1>11, <1>12, <1>13, <1>14, <1>15, <1>16, <1>17, <1>18
  DEF ForwarderNext, CallerStep, LoopStep

-----------------------------------------------------------------------------
(* Start assigns to accept_thread after it joined.                          *)
LEMMA NextTerminates ==
    ASSUME Stages, TerminatesOnlyOnOverlap,
           [ForwarderNext]_fwdVars
    PROVE  TerminatesOnlyOnOverlap'
<1>1. ASSUME NEW t \in Callers, NEW p \in Peers \cup {NoPeer}, Enter(t, p) PROVE TerminatesOnlyOnOverlap'
  BY <1>1 DEF Enter, TerminatesOnlyOnOverlap, Stages, Stage
<1>2. ASSUME NEW t \in Callers, StopClose(t) PROVE TerminatesOnlyOnOverlap'
  BY <1>2 DEF StopClose, TerminatesOnlyOnOverlap, Stages, Stage
<1>3. ASSUME NEW t \in Callers, StopForget(t) PROVE TerminatesOnlyOnOverlap'
  BY <1>3 DEF StopForget, TerminatesOnlyOnOverlap, Stages, Stage
<1>4. ASSUME NEW t \in Callers, StopJoin(t) PROVE TerminatesOnlyOnOverlap'
  BY <1>4 DEF StopJoin, Leave, TerminatesOnlyOnOverlap, Stages, Stage
<1>5. ASSUME NEW t \in Callers, StopJoined(t) PROVE TerminatesOnlyOnOverlap'
  BY <1>5 DEF StopJoined, TerminatesOnlyOnOverlap, Stages, Stage
<1>6. ASSUME NEW t \in Callers, StopReset(t) PROVE TerminatesOnlyOnOverlap'
  BY <1>6 DEF StopReset, TerminatesOnlyOnOverlap, Stages, Stage
<1>7. ASSUME NEW t \in Callers, StartOpen(t) PROVE TerminatesOnlyOnOverlap'
  BY <1>7 DEF StartOpen, TerminatesOnlyOnOverlap, Stages, Stage
<1>8. ASSUME NEW t \in Callers, StartFails(t) PROVE TerminatesOnlyOnOverlap'
  BY <1>8 DEF StartFails, Leave, TerminatesOnlyOnOverlap, Stages, Stage
<1>9. ASSUME NEW t \in Callers, StartPublish(t) PROVE TerminatesOnlyOnOverlap'
  BY <1>9 DEF StartPublish, TerminatesOnlyOnOverlap, Stages, Stage
<1>10. ASSUME NEW t \in Callers, StartSpawn(t) PROVE TerminatesOnlyOnOverlap'
  BY <1>10 DEF StartSpawn, TerminatesOnlyOnOverlap, Stages, Stage
<1>11. ASSUME NEW t \in Callers, StartSpawnFails(t) PROVE TerminatesOnlyOnOverlap'
  BY <1>11 DEF StartSpawnFails, Leave, TerminatesOnlyOnOverlap, Stages, Stage
<1>12. ASSUME NEW t \in Callers, StartAssign(t) PROVE TerminatesOnlyOnOverlap'
  <2>1. CASE accept_thread = NoThread
    BY <1>12, <2>1 DEF StartAssign, Leave, TerminatesOnlyOnOverlap, Stages, Stage
  <2>2. CASE accept_thread # NoThread
    BY <1>12, <2>2 DEF StartAssign, TerminatesOnlyOnOverlap, Stages, Stage
  <2> QED BY <2>1, <2>2
<1>13. ASSUME NEW l \in Threads, LoopSpawnFails(l) PROVE TerminatesOnlyOnOverlap'
  BY <1>13 DEF LoopSpawnFails, TerminatesOnlyOnOverlap, Stages, Stage
<1>14. ASSUME NEW l \in Threads, LoopBegin(l) PROVE TerminatesOnlyOnOverlap'
  BY <1>14 DEF LoopBegin, TerminatesOnlyOnOverlap, Stages, Stage
<1>15. ASSUME NEW l \in Threads, LoopCheck(l) \/ LoopFail(l) PROVE TerminatesOnlyOnOverlap'
  BY <1>15 DEF LoopCheck, LoopFail, TerminatesOnlyOnOverlap
<1>16. ASSUME NEW l \in Threads, LoopBlock(l) PROVE TerminatesOnlyOnOverlap'
  BY <1>16 DEF LoopBlock, TerminatesOnlyOnOverlap, Stages, Stage
<1>17. ASSUME NEW l \in Threads, LoopAccept(l) PROVE TerminatesOnlyOnOverlap'
  BY <1>17 DEF LoopAccept, TerminatesOnlyOnOverlap, Stages, Stage
<1>18. CASE UNCHANGED fwdVars
  BY <1>18 DEF fwdVars, TerminatesOnlyOnOverlap, Stages, Stage
<1> QED
  BY Entering, <1>1, <1>2, <1>3, <1>4, <1>5, <1>6, <1>7, <1>8, <1>9,
     <1>10, <1>11, <1>12, <1>13, <1>14, <1>15, <1>16, <1>17, <1>18
  DEF ForwarderNext, CallerStep, LoopStep

-----------------------------------------------------------------------------
(* The position of the one caller.                                          *)
LEMMA NextStages ==
    ASSUME ForwarderTypeOK, SocketInv, Stages,
           [ForwarderNext]_fwdVars
    PROVE  Stages'
<1>1. ASSUME NEW t \in Callers, NEW p \in Peers \cup {NoPeer}, Enter(t, p) PROVE Stages'
  <2> SUFFICES ASSUME ~overlapped' PROVE Alone' /\ AtRest' /\ \A u \in Callers : Stage(u)'
    BY DEF Stages
  <2>1. ~overlapped /\ \A u \in Callers : fpc[u] = "idle"
    BY <1>1, EnterOverlaps DEF ForwarderTypeOK
  <2>2. /\ \A u \in Callers : fpc'[u] = IF u = t THEN "close" ELSE "idle"
        /\ UNCHANGED <<listen_fd, stop_requested, accept_thread, dial_fn, status, sock, opened_for, fsock, loop, loopVars>>
    BY <1>1, <2>1 DEF Enter, ForwarderTypeOK
  <2>3. IF active THEN Forwarding ELSE Nothing
    BY <2>1 DEF Stages, AtRest
  <2>4. AtRest'
    BY <2>2, <2>3 DEF AtRest, Forwarding, Nothing, OnlyOpen, Listening, Serves, Running, Exited
  <2> QED BY <2>2, <2>4 DEF Alone, Stage
<1>2. ASSUME NEW t \in Callers, StopClose(t) PROVE Stages'
  BY <1>2
  DEF StopClose, ForwarderTypeOK, Stages, Alone, AtRest, Stage,
      Forwarding, Nothing, OnlyOpen, Listening, Serves, Running, Exited
<1>3. ASSUME NEW t \in Callers, StopForget(t) PROVE Stages'
  BY <1>3
  DEF StopForget, ForwarderTypeOK, Stages, Alone, AtRest, Stage,
      Forwarding, Nothing, OnlyOpen, Listening, Serves, Running, Exited
<1>4. ASSUME NEW t \in Callers, StopJoin(t) PROVE Stages'
  BY <1>4
  DEF StopJoin, Leave, ForwarderTypeOK, Stages, Alone, AtRest,
      Stage, Forwarding, Nothing, OnlyOpen, Listening, Serves, Running, Exited
<1>5. ASSUME NEW t \in Callers, StopJoined(t) PROVE Stages'
  BY <1>5
  DEF StopJoined, ForwarderTypeOK, Stages, Alone, AtRest, Stage,
      Forwarding, Nothing, OnlyOpen, Listening, Serves, Running, Exited
<1>6. ASSUME NEW t \in Callers, StopReset(t) PROVE Stages'
  BY <1>6
  DEF StopReset, ForwarderTypeOK, Stages, Alone, AtRest, Stage,
      Forwarding, Nothing, OnlyOpen, Listening, Serves, Running, Exited
<1>7. ASSUME NEW t \in Callers, StartOpen(t) PROVE Stages'
  BY <1>7
  DEF StartOpen, ForwarderTypeOK, Stages, Alone, AtRest, Stage,
      Forwarding, Nothing, OnlyOpen, Listening, Serves, Running, Exited
<1>8. ASSUME NEW t \in Callers, StartFails(t) PROVE Stages'
  BY <1>8
  DEF StartFails, Leave, ForwarderTypeOK, Stages, Alone, AtRest,
      Stage, Forwarding, Nothing, OnlyOpen, Listening, Serves, Running, Exited
<1>9. ASSUME NEW t \in Callers, StartPublish(t) PROVE Stages'
  BY <1>9
  DEF StartPublish, ForwarderTypeOK, Stages, Alone, AtRest, Stage,
      Forwarding, Nothing, OnlyOpen, Listening, Serves, Running, Exited
<1>10. ASSUME NEW t \in Callers, StartSpawn(t) PROVE Stages'
  <2>1. fsock[t] \in Threads
    BY <1>10 DEF StartSpawn, ForwarderTypeOK
  <2> QED BY <1>10, <2>1 DEF StartSpawn, ForwarderTypeOK, Stages, Alone, AtRest, Stage,
      Forwarding, Nothing, OnlyOpen, Listening, Serves, Running, Exited
<1>11. ASSUME NEW t \in Callers, StartSpawnFails(t) PROVE Stages'
  <2> SUFFICES ASSUME ~overlapped' PROVE Alone' /\ AtRest' /\ \A u \in Callers : Stage(u)'
    BY DEF Stages
  <2>1. Alone /\ Stage(t) /\ fpc[t] = "spawn"
    BY <1>11 DEF StartSpawnFails, Stages
  <2>2. \A u \in Callers : fpc'[u] = "idle"
    BY <1>11, <2>1 DEF StartSpawnFails, Leave, Alone, ForwarderTypeOK
  <2>3. fsock[t] \in Sockets /\ listen_fd = fsock[t] /\ opened_for[fsock[t]] = remote
    BY <2>1 DEF Stage, SocketInv, ForwarderTypeOK
  <2>4. Forwarding' /\ active'
    BY <1>11, <2>1, <2>3 DEF StartSpawnFails, Stage, Forwarding, Listening, OnlyOpen
  <2> QED BY <2>2, <2>4 DEF Alone, AtRest, Stage
<1>12. ASSUME NEW t \in Callers, StartAssign(t) PROVE Stages'
  <2> SUFFICES ASSUME ~overlapped' PROVE Alone' /\ AtRest' /\ \A u \in Callers : Stage(u)'
    BY DEF Stages
  <2>1. Alone /\ Stage(t) /\ fpc[t] = "assign" /\ accept_thread = NoThread
    BY <1>12 DEF StartAssign, Stages, Stage
  <2>2. \A u \in Callers : fpc'[u] = "idle"
    BY <1>12, <2>1 DEF StartAssign, Leave, Alone, ForwarderTypeOK
  <2>3. fsock[t] \in Sockets /\ listen_fd = fsock[t] /\ opened_for[fsock[t]] = remote /\ accept_thread' = fsock[t]
    BY <1>12, <2>1 DEF StartAssign, Stage, SocketInv, ForwarderTypeOK
  <2>4. PICK l \in Threads : l = fsock[t]
    BY <2>3
  <2>5. Serves(l) /\ accept_thread' = l
    BY <2>1, <2>3, <2>4 DEF Stage
  <2>6. Serves(accept_thread)'
    BY <1>12, <2>5 DEF StartAssign, Serves, Running, Exited
  <2>7. Forwarding' /\ active'
    BY <1>12, <2>1, <2>3, <2>6 DEF StartAssign, Stage, Forwarding, Listening, OnlyOpen
  <2> QED BY <2>2, <2>7 DEF Alone, AtRest, Stage
<1>13. ASSUME NEW l \in Threads, LoopSpawnFails(l) PROVE Stages'
  BY <1>13 DEF LoopSpawnFails, ForwarderTypeOK, Stages, Alone, AtRest, Stage,
      Forwarding, Nothing, OnlyOpen, Listening, Serves, Running, Exited
<1>14. ASSUME NEW l \in Threads, LoopBegin(l) PROVE Stages'
  BY <1>14
  DEF LoopBegin, ForwarderTypeOK, Stages, Alone, AtRest, Stage,
      Forwarding, Nothing, OnlyOpen, Listening, Serves, Running, Exited
<1>15. ASSUME NEW l \in Threads, LoopCheck(l) \/ LoopFail(l) PROVE Stages'
  <2> SUFFICES ASSUME ~overlapped' PROVE Alone' /\ AtRest' /\ \A u \in Callers : Stage(u)'
    BY DEF Stages
  <2>1. Turned(l)
    BY <1>15, Turning
  <2>2. Alone /\ AtRest /\ \A u \in Callers : Stage(u)
    BY <2>1 DEF Turned, Stages
  <2>3. ASSUME NEW m \in Threads, Serves(m), ~stop_requested PROVE Serves(m)'
    <3>1. CASE m = l
      BY <2>1, <2>3, <3>1 DEF Turned, Serves, Running, Exited
    <3>2. CASE m # l
      BY <2>1, <2>3, <3>2 DEF Turned, Serves, Running, Exited
    <3> QED BY <3>1, <3>2
  <2>4. Forwarding => Forwarding'
    BY <2>1, <2>3 DEF Turned, Forwarding, Listening, OnlyOpen, ForwarderTypeOK
  <2>5. Nothing => Nothing'
    BY <2>1 DEF Turned, Nothing, OnlyOpen
  <2>6. AtRest'
    BY <2>1, <2>2, <2>4, <2>5 DEF Turned, AtRest
  <2>7. ASSUME NEW u \in Callers PROVE Stage(u)'
    <3>1. fpc[u] = "assign" => Serves(fsock[u])'
      BY <2>1, <2>2, <2>3 DEF Stage, ForwarderTypeOK, Turned
    <3> QED BY <2>1, <2>2, <3>1 DEF Turned, Stage, Listening, OnlyOpen
  <2> QED BY <2>1, <2>2, <2>6, <2>7 DEF Turned, Alone
<1>16. ASSUME NEW l \in Threads, LoopBlock(l) PROVE Stages'
  BY <1>16
  DEF LoopBlock, ForwarderTypeOK, Stages, Alone, AtRest, Stage,
      Forwarding, Nothing, OnlyOpen, Listening, Serves, Running, Exited
<1>17. ASSUME NEW l \in Threads, LoopAccept(l) PROVE Stages'
  BY <1>17
  DEF LoopAccept, ForwarderTypeOK, Stages, Alone, AtRest, Stage,
      Forwarding, Nothing, OnlyOpen, Listening, Serves, Running, Exited
<1>18. CASE UNCHANGED fwdVars
  BY <1>18
  DEF fwdVars, ForwarderTypeOK, Stages, Alone, AtRest, Stage, Forwarding, Nothing, OnlyOpen, Listening, Serves, Running, Exited
<1> QED
  BY Entering, <1>1, <1>2, <1>3, <1>4, <1>5, <1>6, <1>7, <1>8, <1>9,
     <1>10, <1>11, <1>12, <1>13, <1>14, <1>15, <1>16, <1>17, <1>18
  DEF ForwarderNext, CallerStep, LoopStep

-----------------------------------------------------------------------------
LEMMA InitInv == ForwarderInit => IInv
<1> SUFFICES ASSUME ForwarderInit PROVE IInv
  OBVIOUS
<1>1. ForwarderTypeOK
  BY ForwarderAssumption DEF ForwarderInit, ForwarderTypeOK
<1>2. NoOrphanedThread /\ TerminatesOnlyOnOverlap
  BY DEF ForwarderInit, NoOrphanedThread, Running, TerminatesOnlyOnOverlap
<1>3. SocketInv /\ Peering
  BY DEF ForwarderInit, SocketInv, Peering
<1>4. Stages
  BY DEF ForwarderInit, Stages, Alone, AtRest, Stage, Nothing, OnlyOpen
<1> QED BY <1>1, <1>2, <1>3, <1>4 DEF IInv

(* The conjunction of the parts is inductive.                                *)
THEOREM Invariance == ForwarderSpec => []IInv
<1>1. ForwarderInit => IInv
  BY InitInv
<1>2. IInv /\ [ForwarderNext]_fwdVars => IInv'
  BY NextTypeOK, NextNoOrphan, NextSockets, NextPeering, NextTerminates, NextStages DEF IInv
<1> QED BY <1>1, <1>2, PTL DEF ForwarderSpec

(* Type correctness.                                                        *)
THEOREM TypeCorrect == ForwarderSpec => []ForwarderTypeOK
<1>1. IInv => ForwarderTypeOK
  BY DEF IInv
<1> QED BY <1>1, Invariance, PTL

(* A running accept thread is the one that the next Stop joins.              *)
THEOREM ThreadsAreKnown == ForwarderSpec => []NoOrphanedThread
<1>1. IInv => NoOrphanedThread
  BY DEF IInv
<1> QED BY <1>1, Invariance, PTL

(* The process is terminated only by calls that overlap.                     *)
THEOREM StartDoesNotTerminate == ForwarderSpec => []TerminatesOnlyOnOverlap
<1>1. IInv => TerminatesOnlyOnOverlap
  BY DEF IInv
<1> QED BY <1>1, Invariance, PTL

(* A relay goes to the peer its socket was opened for.                       *)
THEOREM ConnectionsReachTheirPeer == ForwarderSpec => []RelaysReachTheirPeer
<1>1. IInv => RelaysReachTheirPeer
  BY DEF IInv, Peering, RelaysReachTheirPeer
<1> QED BY <1>1, Invariance, PTL

(* Between calls the status is what there is.                                *)
THEOREM StatusIsTrue == ForwarderSpec => []StatusTellsTheTruth
<1>1. IInv => StatusTellsTheTruth
  <2> SUFFICES ASSUME IInv, ~overlapped, Busy = {}
               PROVE  IF active
                      THEN /\ Listening(listen_fd) /\ opened_for[listen_fd] = remote
                           /\ \A s \in Sockets : sock[s] = "open" => s = listen_fd
                           /\ IF unspawned THEN accept_thread = NoThread
                              ELSE accept_thread # NoThread /\ Serves(accept_thread)
                      ELSE \A s \in Sockets : sock[s] # "open" /\ ~Running(s)
    BY DEF StatusTellsTheTruth
  <2>1. IF active THEN Forwarding ELSE Nothing
    BY DEF IInv, Stages, AtRest, Busy
  <2>2. CASE active
    BY <2>1, <2>2 DEF Forwarding, OnlyOpen
  <2>3. CASE ~active
    BY <2>1, <2>3 DEF IInv, Nothing, OnlyOpen, NoOrphanedThread, Busy
  <2> QED BY <2>2, <2>3
<1> QED BY <1>1, Invariance, PTL

-----------------------------------------------------------------------------
(* q holds the units after a, in order.                                     *)
Run(q, a) == \A i \in 1 .. Len(q) : q[i] = a + i

(* Len, as a symbol that arithmetic does not look into.                      *)
Size(q) == Len(q)

Intact(d) == rpc # "closed" /\ peer[d] # "gone" /\ d \notin reset
Holding(s) == rpc = "write" /\ from = s
Pending(s) == IF Holding(s) THEN Size(buf) ELSE 0

StreamInv(s) ==
    /\ Size(inbox[s]) <= sent[s]
    /\ Run(inbox[s], sent[s] - Size(inbox[s]))
    /\ Run(got[Other(s)], 0)
    /\ Run(outbox[Other(s)], Size(got[Other(s)]))
    /\ Size(got[Other(s)]) + Size(outbox[Other(s)]) <= sent[s]
    /\ Holding(s) => /\ Size(buf) + Size(inbox[s]) <= sent[s]
                     /\ Run(buf, sent[s] - Size(inbox[s]) - Size(buf))
    /\ Intact(Other(s)) =>
         Size(got[Other(s)]) + Size(outbox[Other(s)]) + Pending(s) + Size(inbox[s]) = sent[s]

(* A side that poll reported, and that was not yet served, is still readable. *)
ReadyInv ==
    /\ rpc = "client" /\ "client" \in ready => Readable("client")
    /\ (rpc \in Sides \/ Holding("client")) /\ "tailnet" \in ready => Readable("tailnet")

(* Why the relay stopped.                                                   *)
DoneInv ==
    /\ rpc = "done" => \/ aborted \/ reset # {}
                       \/ \E t \in Sides : peer[t] = "gone" \/ (peer[t] # "open" /\ inbox[t] = <<>>)
    /\ rpc # "closed" => unread = {}

RelayInv == TypeOK /\ (\A s \in Sides : StreamInv(s)) /\ ReadyInv /\ DoneInv

USE DEF relayVars, peerVars, history

-----------------------------------------------------------------------------
(* Runs of units.                                                           *)
LEMMA SideFacts ==
    /\ \A s \in Sides : Other(s) \in Sides /\ Other(s) # s /\ Other(Other(s)) = s
    /\ \A s, t \in Sides : s # t => t = Other(s)
    /\ \A s \in Sides : s \notin {"dial", "poll", "write", "done", "closed"}
    /\ \A s \in Sides : After(s) \in {"tailnet", "poll"}
  BY DEF Sides, Other, After

LEMMA EmptyRun == <<>> \in Seq(Nat) /\ Len(<<>>) = 0 /\ \A a : Run(<<>>, a)
  BY EmptySeq DEF Run

LEMMA ConcatRuns ==
    ASSUME NEW q \in Seq(Nat), NEW r \in Seq(Nat)
    PROVE  /\ q \o r \in Seq(Nat) /\ Len(q \o r) = Len(q) + Len(r)
           /\ \A a \in Nat : Run(q, a) /\ Run(r, a + Len(q)) => Run(q \o r, a)
<1>1. /\ q \o r \in Seq(Nat) /\ Len(q \o r) = Len(q) + Len(r)
      /\ \A i \in 1 .. Len(q) + Len(r) : (q \o r)[i] = IF i <= Len(q) THEN q[i] ELSE r[i - Len(q)]
      /\ Len(q) \in Nat /\ Len(r) \in Nat
  BY ConcatProperties, LenProperties
<1>2. ASSUME NEW a \in Nat, Run(q, a), Run(r, a + Len(q)), NEW i \in 1 .. Len(q \o r)
      PROVE  (q \o r)[i] = a + i
  <2>1. CASE i <= Len(q)
    BY <1>1, <1>2, <2>1 DEF Run
  <2>2. CASE i > Len(q)
    <3>1. i - Len(q) \in 1 .. Len(r)
      BY <1>1, <2>2
    <3> QED BY <1>1, <1>2, <2>2, <3>1 DEF Run
  <2> QED BY <1>1, <2>1, <2>2
<1> QED BY <1>1, <1>2 DEF Run

LEMMA CutRun ==
    ASSUME NEW q \in Seq(Nat), NEW n \in 0 .. Len(q)
    PROVE  /\ First(q, n) \in Seq(Nat) /\ Len(First(q, n)) = n
           /\ Rest(q, n) \in Seq(Nat) /\ Len(Rest(q, n)) = Len(q) - n
           /\ \A a \in Nat : Run(q, a) => Run(First(q, n), a) /\ Run(Rest(q, n), a + n)
<1>1. Len(q) \in Nat /\ \A i \in 1 .. Len(q) : q[i] \in Nat
  BY LenProperties, ElementOfSeq
<1>2. /\ First(q, n) \in Seq(Nat) /\ Len(First(q, n)) = n
      /\ \A i \in 1 .. n : First(q, n)[i] = q[i]
  BY <1>1, SubSeqProperties DEF First
<1>3. /\ Rest(q, n) \in Seq(Nat) /\ Len(Rest(q, n)) = Len(q) - n
      /\ \A i \in 1 .. Len(q) - n : Rest(q, n)[i] = q[n + i]
  <2>1. \A i \in n + 1 .. Len(q) : q[i] \in Nat
    BY <1>1
  <2>2. /\ Rest(q, n) \in Seq(Nat)
        /\ Len(Rest(q, n)) = IF n + 1 <= Len(q) THEN Len(q) - (n + 1) + 1 ELSE 0
        /\ \A i \in 1 .. Len(q) - (n + 1) + 1 : Rest(q, n)[i] = q[n + 1 + i - 1]
    <3>1. n + 1 \in Int /\ Len(q) \in Int
      BY <1>1
    <3> QED BY <2>1, <3>1, SubSeqProperties DEF Rest
  <2> QED BY <1>1, <2>2
<1>4. ASSUME NEW a \in Nat, Run(q, a) PROVE Run(First(q, n), a)
  <2> SUFFICES ASSUME NEW i \in 1 .. Len(First(q, n)) PROVE First(q, n)[i] = a + i
    BY DEF Run
  <2>1. i \in 1 .. Len(q) /\ First(q, n)[i] = q[i]
    BY <1>1, <1>2
  <2>2. q[i] = a + i
    BY <1>4, <2>1 DEF Run
  <2> QED BY <2>1, <2>2
<1>5. ASSUME NEW a \in Nat, Run(q, a) PROVE Run(Rest(q, n), a + n)
  <2> SUFFICES ASSUME NEW i \in 1 .. Len(Rest(q, n)) PROVE Rest(q, n)[i] = (a + n) + i
    BY DEF Run
  <2>1. n + i \in 1 .. Len(q) /\ Rest(q, n)[i] = q[n + i]
    BY <1>1, <1>3
  <2>2. q[n + i] = a + (n + i)
    BY <1>5, <2>1 DEF Run
  <2> QED BY <1>1, <2>1, <2>2
<1> QED BY <1>2, <1>3, <1>4, <1>5

LEMMA AppendRun ==
    ASSUME NEW q \in Seq(Nat), NEW c \in Nat
    PROVE  /\ Append(q, c) \in Seq(Nat) /\ Len(Append(q, c)) = Len(q) + 1 /\ Append(q, c) # <<>>
           /\ \A a \in Nat : Run(q, a) /\ c = a + Len(q) + 1 => Run(Append(q, c), a)
  BY AppendProperties, LenProperties DEF Run

LEMMA HeadOfRun ==
    ASSUME NEW q \in Seq(Nat), q # <<>>
    PROVE  /\ Head(q) \in Nat /\ Tail(q) \in Seq(Nat) /\ Len(Tail(q)) = Len(q) - 1 /\ Len(q) \in Nat \ {0}
           /\ \A a \in Nat : Run(q, a) => Head(q) = a + 1 /\ Run(Tail(q), a + 1)
<1>1. /\ Head(q) \in Nat /\ Tail(q) \in Seq(Nat) /\ Len(Tail(q)) = Len(q) - 1 /\ Len(q) \in Nat \ {0}
      /\ \A i \in 1 .. Len(Tail(q)) : Tail(q)[i] = q[i + 1]
  BY HeadTailProperties, EmptySeq
<1>2. Head(q) = q[1]
  BY <1>1
<1> QED BY <1>1, <1>2 DEF Run

LEMMA Lengths ==
    ASSUME TypeOK
    PROVE  /\ Len(buf) \in Nat
           /\ \A s \in Sides : Len(inbox[s]) \in Nat /\ Len(outbox[s]) \in Nat /\ Len(got[s]) \in Nat
  BY LenProperties DEF TypeOK

-----------------------------------------------------------------------------
(* Types.                                                                   *)
LEMMA TypeInit == Init => TypeOK
<1> SUFFICES ASSUME Init PROVE TypeOK
  OBVIOUS
<1>1. <<>> \in Seq(Nat) /\ Len(<<>>) = 0
  BY EmptyRun
<1>2. /\ inbox \in [Sides -> Seq(Nat)] /\ outbox \in [Sides -> Seq(Nat)] /\ got \in [Sides -> Seq(Nat)]
      /\ buf \in Seq(Nat)
  BY <1>1 DEF Init
<1>3. \A s \in Sides : Len(inbox[s]) <= Room /\ Len(outbox[s]) <= Room
  BY <1>1, RelayAssumption DEF Init
<1>4. /\ sent \in [Sides -> Nat] /\ peer \in [Sides -> {"open", "finished", "gone"}]
      /\ rpc = "dial" /\ ready = {} /\ from \in Sides /\ reset = {} /\ unread = {} /\ aborted \in BOOLEAN
  BY DEF Init, Sides
<1> QED BY <1>2, <1>3, <1>4 DEF TypeOK

LEMMA TypeStep ==
    ASSUME TypeOK, [Next]_vars
    PROVE  TypeOK'
<1> USE DEF TypeOK
<1>1. ASSUME NEW there \in {"poll", "done", "closed"} \cup Sides, Goto(there),
             UNCHANGED <<inbox, outbox, peerVars, reset, unread>>, aborted' \in BOOLEAN
      PROVE  TypeOK'
  BY <1>1 DEF Goto
<1>2. ASSUME CloseBoth, aborted' \in BOOLEAN PROVE TypeOK'
  <2>1. inbox' \in [Sides -> Seq(Nat)] /\ \A s \in Sides : Len(inbox'[s]) <= Room
    BY <1>2, EmptyRun, RelayAssumption DEF CloseBoth
  <2>2. outbox' \in [Sides -> Seq(Nat)] /\ \A s \in Sides : outbox'[s] = outbox[s] \/ outbox'[s] = <<>>
    BY <1>2, EmptyRun DEF CloseBoth, Sides
  <2>3. \A s \in Sides : Len(outbox'[s]) <= Room
    BY <2>2, EmptyRun, RelayAssumption
  <2> QED BY <1>2, <2>1, <2>2, <2>3 DEF CloseBoth, Goto
<1>3. CASE Poll
  BY <1>3 DEF Poll, Sides
<1>4. ASSUME NEW s \in Sides, Read(s) PROVE TypeOK'
  <2> DEFINE n == Least(BufSize, Len(inbox[s]))
  <2>1. n \in 0 .. Len(inbox[s])
    BY Lengths, RelayAssumption DEF Least
  <2>2. /\ buf' = First(inbox[s], n)
        /\ inbox' = [inbox EXCEPT ![s] = Rest(@, n)]
    BY <1>4 DEF Read
  <2> HIDE DEF n
  <2>3. /\ buf' \in Seq(Nat) /\ Rest(inbox[s], n) \in Seq(Nat)
        /\ Len(Rest(inbox[s], n)) = Len(inbox[s]) - n
    BY <2>1, <2>2, CutRun
  <2>4. inbox' \in [Sides -> Seq(Nat)]
    BY <2>2, <2>3
  <2>5. \A t \in Sides : Len(inbox'[t]) <= Room
    BY <2>1, <2>2, <2>3, Lengths, RelayAssumption
  <2> QED BY <1>4, <2>3, <2>4, <2>5 DEF Read
<1>5. ASSUME NEW s \in Sides, Write(s) PROVE TypeOK'
  <2>1. PICK n \in 1 .. Least(Len(buf), Room - Len(outbox[s])) :
          /\ outbox' = [outbox EXCEPT ![s] = @ \o First(buf, n)]
          /\ buf' = Rest(buf, n)
          /\ rpc' = IF n = Len(buf) THEN After(from) ELSE "write"
    BY <1>5 DEF Write
  <2>2. n \in 0 .. Len(buf) /\ n <= Room - Len(outbox[s])
    BY <2>1, Lengths, RelayAssumption DEF Least
  <2>3. /\ First(buf, n) \in Seq(Nat) /\ Len(First(buf, n)) = n /\ buf' \in Seq(Nat)
    BY <2>1, <2>2, CutRun
  <2>4. outbox[s] \o First(buf, n) \in Seq(Nat) /\ Len(outbox[s] \o First(buf, n)) = Len(outbox[s]) + n
    BY <2>3, ConcatRuns
  <2>5. outbox' \in [Sides -> Seq(Nat)]
    BY <2>1, <2>4
  <2>6. \A t \in Sides : Len(outbox'[t]) <= Room
    BY <2>1, <2>2, <2>4, Lengths, RelayAssumption
  <2>7. rpc' \in {"dial", "poll", "write", "done", "closed"} \cup Sides
    BY <2>1, SideFacts DEF Sides
  <2> QED BY <1>5, <2>3, <2>5, <2>6, <2>7 DEF Write
<1>6. ASSUME NEW s \in Sides, WriteToNobody(s) PROVE TypeOK'
  BY <1>6, EmptyRun, SideFacts DEF WriteToNobody, Sides
<1>7. ASSUME NEW s \in Sides, Send(s) PROVE TypeOK'
  <2>1. /\ Append(inbox[s], sent[s] + 1) \in Seq(Nat)
        /\ Len(Append(inbox[s], sent[s] + 1)) = Len(inbox[s]) + 1
    BY AppendRun
  <2>2. inbox' = [inbox EXCEPT ![s] = Append(inbox[s], sent[s] + 1)] /\ Len(inbox[s]) < Room
    BY <1>7 DEF Send
  <2>3. inbox' \in [Sides -> Seq(Nat)]
    BY <2>1, <2>2
  <2>4. \A t \in Sides : Len(inbox'[t]) <= Room
    BY <2>1, <2>2, Lengths, RelayAssumption
  <2> QED BY <1>7, <2>3, <2>4 DEF Send
<1>8. ASSUME NEW s \in Sides, FinishSending(s) \/ ConnectionFails(s) PROVE TypeOK'
  BY <1>8 DEF FinishSending, ConnectionFails
<1>9. ASSUME NEW s \in Sides, PeerLeaves(s) PROVE TypeOK'
  <2>1. outbox' \in [Sides -> Seq(Nat)] /\ \A t \in Sides : outbox'[t] = outbox[t] \/ outbox'[t] = <<>>
    BY <1>9, EmptyRun DEF PeerLeaves
  <2>2. \A t \in Sides : Len(outbox'[t]) <= Room
    BY <2>1, EmptyRun, RelayAssumption
  <2>3. peer' \in [Sides -> {"open", "finished", "gone"}] /\ reset' \subseteq Sides
    BY <1>9 DEF PeerLeaves
  <2> QED BY <1>9, <2>1, <2>2, <2>3 DEF PeerLeaves
<1>10. ASSUME NEW s \in Sides, PeerReads(s) PROVE TypeOK'
  <2>1. /\ Head(outbox[s]) \in Nat /\ Tail(outbox[s]) \in Seq(Nat)
        /\ Len(Tail(outbox[s])) = Len(outbox[s]) - 1
    BY <1>10, HeadOfRun DEF PeerReads
  <2>2. Append(got[s], Head(outbox[s])) \in Seq(Nat)
    BY <2>1, AppendRun
  <2>3. outbox' = [outbox EXCEPT ![s] = Tail(outbox[s])] /\ got' = [got EXCEPT ![s] = Append(got[s], Head(outbox[s]))]
    BY <1>10 DEF PeerReads
  <2>4. outbox' \in [Sides -> Seq(Nat)] /\ got' \in [Sides -> Seq(Nat)]
    BY <2>1, <2>2, <2>3
  <2>5. \A t \in Sides : Len(outbox'[t]) <= Room
    BY <2>1, <2>3, Lengths, RelayAssumption
  <2> QED BY <1>10, <2>4, <2>5 DEF PeerReads
<1>11. CASE UNCHANGED vars
  BY <1>11 DEF vars
<1>12. CASE RelayStep \/ PollFails
  <2>1. CASE Dial \/ PollFails
    BY <1>1, <2>1 DEF Dial, PollFails
  <2>2. CASE DialFails \/ Finish
    BY <1>2, <2>2 DEF DialFails, Finish
  <2>3. ASSUME NEW s \in Sides, NotReady(s) \/ ReadEnds(s) \/ WriteFails(s) PROVE TypeOK'
    BY <1>1, <2>3, SideFacts DEF NotReady, ReadEnds, WriteFails, Sides
  <2> QED BY <1>3, <1>4, <1>5, <1>6, <1>12, <2>1, <2>2, <2>3 DEF RelayStep
<1> QED BY <1>7, <1>8, <1>9, <1>10, <1>11, <1>12 DEF Next, PeerStep

-----------------------------------------------------------------------------
(* The streams.                                                             *)
LEMMA StreamInit == Init => \A s \in Sides : StreamInv(s)
<1> SUFFICES ASSUME Init, NEW s \in Sides PROVE StreamInv(s)
  OBVIOUS
<1>1. /\ inbox[s] = <<>> /\ got[Other(s)] = <<>> /\ outbox[Other(s)] = <<>> /\ sent[s] = 0
      /\ ~Holding(s)
  BY SideFacts DEF Init, Holding
<1> QED BY <1>1, EmptyRun DEF StreamInv, Pending, Size

(* A step that moves no unit of the direction from s.                        *)
LEMMA StreamFrame ==
    ASSUME NEW s \in Sides, StreamInv(s),
           sent'[s] = sent[s], inbox'[s] = inbox[s],
           got'[Other(s)] = got[Other(s)], outbox'[Other(s)] = outbox[Other(s)],
           Holding(s)' => Holding(s) /\ buf' = buf,
           Intact(Other(s))' => Intact(Other(s)) /\ (Holding(s) => Holding(s)')
    PROVE  StreamInv(s)'
  BY DEF StreamInv, Pending

(* The direction is cut: what was not yet in the outbox is lost.             *)
LEMMA StreamCut ==
    ASSUME TypeOK, NEW s \in Sides, StreamInv(s),
           sent'[s] = sent[s], got'[Other(s)] = got[Other(s)],
           inbox'[s] = inbox[s] \/ inbox'[s] = <<>>,
           outbox'[Other(s)] = outbox[Other(s)] \/ outbox'[Other(s)] = <<>>,
           Holding(s)' => Holding(s) /\ buf' = buf /\ inbox'[s] = inbox[s],
           ~Intact(Other(s))'
    PROVE  StreamInv(s)'
<1>1. sent[s] \in Nat /\ Size(got[Other(s)]) \in Nat /\ Size(outbox[Other(s)]) \in Nat
  BY Lengths, SideFacts DEF TypeOK, Size
<1>2. Size(inbox'[s]) <= sent'[s] /\ Run(inbox'[s], sent'[s] - Size(inbox'[s]))
  BY <1>1, EmptyRun DEF StreamInv, Size
<1>3. /\ Run(outbox'[Other(s)], Size(got'[Other(s)]))
      /\ Size(got'[Other(s)]) + Size(outbox'[Other(s)]) <= sent'[s]
  <2>1. /\ Run(outbox[Other(s)], Size(got[Other(s)]))
        /\ Size(got[Other(s)]) + Size(outbox[Other(s)]) <= sent[s]
    BY DEF StreamInv
  <2>2. CASE outbox'[Other(s)] = <<>>
    <3>1. Size(got[Other(s)]) + 0 <= sent[s]
      BY <1>1, <2>1
    <3> QED BY <2>2, <3>1, EmptyRun DEF Size
  <2> QED BY <2>1, <2>2
<1> QED BY <1>2, <1>3 DEF StreamInv

LEMMA StreamStep ==
    ASSUME TypeOK, NEW s \in Sides, StreamInv(s), [Next]_vars
    PROVE  StreamInv(s)'
<1>s. /\ Other(s) \in Sides /\ Other(s) # s /\ \A t \in Sides : t # s <=> t = Other(s)
      /\ \A t \in Sides : Other(Other(t)) = t
      /\ \A t \in Sides : t \notin {"dial", "poll", "write", "done", "closed"}
  BY SideFacts
<1>q. /\ inbox[s] \in Seq(Nat) /\ buf \in Seq(Nat)
      /\ got[Other(s)] \in Seq(Nat) /\ outbox[Other(s)] \in Seq(Nat)
  BY <1>s DEF TypeOK
<1>0. /\ sent[s] \in Nat /\ Size(inbox[s]) \in Nat /\ Size(buf) \in Nat
      /\ Size(got[Other(s)]) \in Nat /\ Size(outbox[Other(s)]) \in Nat
  BY <1>s, Lengths DEF TypeOK, Size
<1>i. /\ Size(inbox[s]) <= sent[s]
      /\ Size(got[Other(s)]) + Size(outbox[Other(s)]) <= sent[s]
      /\ Holding(s) => Size(buf) + Size(inbox[s]) <= sent[s]
      /\ Intact(Other(s)) =>
           Size(got[Other(s)]) + Size(outbox[Other(s)]) + Pending(s) + Size(inbox[s]) = sent[s]
  BY DEF StreamInv
<1>1. ASSUME rpc # "closed", rpc' # "write", UNCHANGED <<inbox, outbox, sent, got, peer, reset>>,
             Holding(s) => ~Intact(Other(s))
      PROVE  StreamInv(s)'
  <2>1. ~Holding(s)' /\ (Intact(Other(s))' => Intact(Other(s)))
    BY <1>1 DEF Holding, Intact
  <2> QED BY <1>1, <2>1, StreamFrame
<1>2. ASSUME CloseBoth PROVE StreamInv(s)'
  <2>1. /\ UNCHANGED <<sent, got>> /\ inbox'[s] = <<>> /\ ~Holding(s)' /\ ~Intact(Other(s))'
        /\ outbox'[Other(s)] = outbox[Other(s)] \/ outbox'[Other(s)] = <<>>
    BY <1>2, <1>s DEF CloseBoth, Goto, Holding, Intact, Sides
  <2> QED BY <2>1, StreamCut
<1>3. ASSUME NEW t \in Sides, Read(t) PROVE StreamInv(s)'
  <2>1. CASE t = s
    <3> DEFINE n == Least(BufSize, Len(inbox[s]))
    <3>1. n \in 0 .. Size(inbox[s])
      BY <1>0, RelayAssumption DEF Least, Size
    <3>2. /\ buf' = First(inbox[s], n) /\ inbox'[s] = Rest(inbox[s], n)
          /\ rpc = s /\ rpc' = "write" /\ from' = s
          /\ UNCHANGED <<outbox, sent, got, peer, reset>>
      BY <1>3, <2>1 DEF Read, TypeOK, Size
    <3> HIDE DEF n
    <3>3. /\ Size(buf') = n /\ Size(inbox'[s]) = Size(inbox[s]) - n
          /\ Run(buf', sent[s] - Size(inbox[s])) /\ Run(inbox'[s], sent[s] - Size(inbox[s]) + n)
      <4>1. sent[s] - Size(inbox[s]) \in Nat /\ Run(inbox[s], sent[s] - Size(inbox[s]))
        BY <1>0, <1>i DEF StreamInv
      <4>2. /\ Size(First(inbox[s], n)) = n /\ Size(Rest(inbox[s], n)) = Size(inbox[s]) - n
            /\ \A a \in Nat : Run(inbox[s], a) =>
                 Run(First(inbox[s], n), a) /\ Run(Rest(inbox[s], n), a + n)
        BY <1>q, <3>1, CutRun DEF Size
      <4> QED BY <3>2, <4>1, <4>2
    <3>4. /\ Size(inbox'[s]) <= sent'[s] /\ Run(inbox'[s], sent'[s] - Size(inbox'[s]))
          /\ Size(buf') + Size(inbox'[s]) <= sent'[s]
          /\ Run(buf', sent'[s] - Size(inbox'[s]) - Size(buf'))
      <4>1. /\ sent[s] - (Size(inbox[s]) - n) = sent[s] - Size(inbox[s]) + n
            /\ sent[s] - (Size(inbox[s]) - n) - n = sent[s] - Size(inbox[s])
            /\ Size(inbox[s]) - n <= sent[s] /\ n + (Size(inbox[s]) - n) <= sent[s]
        BY <1>0, <1>i, <3>1
      <4> QED BY <3>2, <3>3, <4>1
    <3>5. ~Holding(s) /\ Holding(s)' /\ (Intact(Other(s))' => Intact(Other(s)))
      BY <1>s, <3>2 DEF Holding, Intact
    <3>6. Intact(Other(s))' =>
            Size(got[Other(s)]) + Size(outbox[Other(s)]) + Size(buf') + Size(inbox'[s]) = sent[s]
      <4>1. Pending(s) = 0
        BY <3>5 DEF Pending
      <4> QED BY <1>0, <1>i, <3>1, <3>3, <3>5, <4>1
    <3> QED BY <3>2, <3>4, <3>5, <3>6 DEF StreamInv, Pending
  <2>2. CASE t # s
    <3>1. /\ UNCHANGED <<outbox, sent, got, peer, reset>> /\ inbox'[s] = inbox[s]
          /\ rpc = t /\ rpc' = "write" /\ from' = t
      BY <1>3, <2>2 DEF Read, TypeOK, Size
    <3>2. ~Holding(s) /\ ~Holding(s)' /\ (Intact(Other(s))' => Intact(Other(s)))
      BY <1>s, <2>2, <3>1 DEF Holding, Intact
    <3> QED BY <3>1, <3>2, StreamFrame
  <2> QED BY <2>1, <2>2
<1>4. ASSUME NEW d \in Sides, Write(d) PROVE StreamInv(s)'
  <2>1. PICK n \in 1 .. Least(Len(buf), Room - Len(outbox[d])) :
          /\ outbox' = [outbox EXCEPT ![d] = @ \o First(buf, n)]
          /\ buf' = Rest(buf, n)
          /\ rpc' = IF n = Size(buf) THEN After(from) ELSE "write"
    BY <1>4 DEF Write, Size
  <2>2. n \in 0 .. Size(buf) /\ n # 0
    BY <1>0, <2>1, Lengths, RelayAssumption DEF Least, Size
  <2>3. /\ rpc = "write" /\ from = Other(d) /\ from' = from /\ UNCHANGED <<inbox, sent, got, peer, reset>>
        /\ peer[d] # "gone" /\ d \notin reset
    BY <1>4 DEF Write, Size
  <2>4. CASE d = Other(s)
    <3>1. Holding(s) /\ Intact(d) /\ (Holding(s)' <=> n # Size(buf))
      <4>1. from = s
        BY <1>s, <2>3, <2>4
      <4>2. After(from) # "write"
        BY DEF After
      <4>3. d \in Sides /\ Intact(d)
        BY <2>3 DEF Intact
      <4>4. rpc' = "write" <=> n # Size(buf)
        BY <2>1, <4>2
      <4> QED BY <2>3, <4>1, <4>3, <4>4 DEF Holding
    <3>2. /\ Size(buf) + Size(inbox[s]) <= sent[s]
          /\ Run(buf, sent[s] - Size(inbox[s]) - Size(buf))
          /\ Size(got[d]) + Size(outbox[d]) + Size(buf) + Size(inbox[s]) = sent[s]
          /\ Run(outbox[d], Size(got[d]))
      BY <2>4, <3>1 DEF StreamInv, Pending
    <3>3. sent[s] - Size(inbox[s]) - Size(buf) = Size(got[d]) + Size(outbox[d])
      BY <1>0, <2>4, <3>2
    <3>4. /\ First(buf, n) \in Seq(Nat) /\ Size(First(buf, n)) = n
          /\ Run(First(buf, n), Size(got[d]) + Size(outbox[d]))
          /\ Size(buf') = Size(buf) - n /\ Run(buf', Size(got[d]) + Size(outbox[d]) + n)
      <4>1. Size(got[d]) + Size(outbox[d]) \in Nat /\ Run(buf, Size(got[d]) + Size(outbox[d]))
        BY <1>0, <2>4, <3>2, <3>3
      <4> QED BY <1>q, <2>1, <2>2, <4>1, CutRun DEF Size
    <3>5. outbox'[d] = outbox[d] \o First(buf, n)
      BY <2>1 DEF TypeOK
    <3>6. Run(outbox'[d], Size(got[d])) /\ Size(outbox'[d]) = Size(outbox[d]) + n
      <4>1. outbox[d] \in Seq(Nat) /\ Size(got[d]) \in Nat /\ Run(outbox[d], Size(got[d]))
        BY <1>0, <1>q, <2>4, <3>2
      <4>2. /\ Size(outbox[d] \o First(buf, n)) = Size(outbox[d]) + n
            /\ \A a \in Nat : Run(outbox[d], a) /\ Run(First(buf, n), a + Size(outbox[d])) =>
                 Run(outbox[d] \o First(buf, n), a)
        BY <3>4, <4>1, ConcatRuns DEF Size
      <4> QED BY <3>4, <3>5, <4>1, <4>2
    <3>7. /\ Size(got[d]) + Size(outbox'[d]) <= sent[s]
          /\ Size(buf') + Size(inbox[s]) <= sent[s]
          /\ sent[s] - Size(inbox[s]) - Size(buf') = Size(got[d]) + Size(outbox[d]) + n
          /\ Size(got[d]) + Size(outbox'[d]) + Size(buf') + Size(inbox[s]) = sent[s]
          /\ n = Size(buf) => Size(buf') = 0
      <4>1. /\ Size(got[d]) \in Nat /\ Size(outbox[d]) \in Nat /\ Size(buf) \in Nat
            /\ Size(inbox[s]) \in Nat /\ sent[s] \in Nat /\ n \in Nat /\ n <= Size(buf)
        BY <1>0, <2>2, <2>4 DEF Size
      <4>2. Size(outbox'[d]) = Size(outbox[d]) + n /\ Size(buf') = Size(buf) - n
        BY <3>4, <3>6
      <4>3. /\ Size(buf) + Size(inbox[s]) <= sent[s]
            /\ Size(got[d]) + Size(outbox[d]) + Size(buf) + Size(inbox[s]) = sent[s]
        BY <3>2
      <4> HIDE DEF Size
      <4> QED BY <4>1, <4>2, <4>3, SMTT(60)
    <3>8. Pending(s)' = Size(buf')
      BY <3>1, <3>7 DEF Pending
    <3> QED BY <2>3, <2>4, <3>4, <3>6, <3>7, <3>8 DEF StreamInv
  <2>5. CASE d # Other(s)
    <3>1. d = s /\ from # s /\ outbox'[Other(s)] = outbox[Other(s)]
      BY <1>s, <2>1, <2>3, <2>5 DEF TypeOK
    <3>2. ~Holding(s) /\ ~Holding(s)' /\ (Intact(Other(s))' => Intact(Other(s)))
      BY <2>3, <3>1 DEF Holding, Intact
    <3> QED BY <2>3, <3>1, <3>2, StreamFrame
  <2> QED BY <2>4, <2>5
<1>5. ASSUME NEW t \in Sides, Send(t) PROVE StreamInv(s)'
  <2>1. /\ UNCHANGED <<rpc, from, buf, outbox, got, peer, reset>>
        /\ sent' = [sent EXCEPT ![t] = @ + 1]
        /\ inbox' = [inbox EXCEPT ![t] = Append(@, sent[t] + 1)]
    BY <1>5 DEF Send
  <2>2. (Holding(s)' <=> Holding(s)) /\ (Intact(Other(s))' <=> Intact(Other(s))) /\ Pending(s)' = Pending(s)
    BY <2>1 DEF Holding, Intact, Pending
  <2>3. CASE t = s
    <3>1. sent'[s] = sent[s] + 1 /\ inbox'[s] = Append(inbox[s], sent[s] + 1)
      BY <2>1, <2>3 DEF TypeOK
    <3>2. /\ sent[s] - Size(inbox[s]) \in Nat /\ Run(inbox[s], sent[s] - Size(inbox[s]))
          /\ sent[s] + 1 = (sent[s] - Size(inbox[s])) + Size(inbox[s]) + 1
      BY <1>0, <1>i DEF StreamInv
    <3>3. /\ Size(inbox'[s]) = Size(inbox[s]) + 1
          /\ Run(inbox'[s], sent[s] - Size(inbox[s]))
      <4>1. sent[s] + 1 \in Nat
        BY <1>0
      <4> QED BY <1>q, <3>1, <3>2, <4>1, AppendRun DEF Size
    <3>4. /\ Size(inbox'[s]) <= sent'[s]
          /\ sent'[s] - Size(inbox'[s]) = sent[s] - Size(inbox[s])
      BY <1>0, <1>i, <3>1, <3>3
    <3>5. /\ Size(got[Other(s)]) + Size(outbox[Other(s)]) <= sent'[s]
          /\ Holding(s) => Size(buf) + Size(inbox'[s]) <= sent'[s]
      BY <1>0, <1>i, <3>1, <3>3
    <3>6. Intact(Other(s)) =>
            Size(got[Other(s)]) + Size(outbox[Other(s)]) + Pending(s) + Size(inbox'[s]) = sent'[s]
      <4>1. Pending(s) \in Nat
        BY <1>0 DEF Pending
      <4> QED BY <1>0, <1>i, <3>1, <3>3, <4>1
    <3> QED BY <2>1, <2>2, <3>3, <3>4, <3>5, <3>6 DEF StreamInv
  <2>4. CASE t # s
    <3>1. sent'[s] = sent[s] /\ inbox'[s] = inbox[s]
      BY <2>1, <2>4 DEF TypeOK
    <3> QED BY <2>1, <2>2, <3>1, StreamFrame
  <2> QED BY <2>3, <2>4
<1>6. ASSUME NEW t \in Sides, FinishSending(t) \/ ConnectionFails(t) PROVE StreamInv(s)'
  <2>1. /\ UNCHANGED <<rpc, from, buf, inbox, outbox, sent, got>> /\ reset \subseteq reset'
        /\ \A d \in Sides : peer'[d] # "gone" => peer[d] # "gone"
    BY <1>6 DEF FinishSending, ConnectionFails, TypeOK
  <2>2. (Holding(s)' <=> Holding(s)) /\ (Intact(Other(s))' => Intact(Other(s)))
    BY <1>s, <2>1 DEF Holding, Intact
  <2> QED BY <2>1, <2>2, StreamFrame
<1>7. ASSUME NEW t \in Sides, PeerLeaves(t) PROVE StreamInv(s)'
  <2>1. /\ UNCHANGED <<rpc, from, buf, inbox, sent, got>> /\ reset \subseteq reset'
        /\ peer' = [peer EXCEPT ![t] = "gone"] /\ outbox' = [outbox EXCEPT ![t] = <<>>]
    BY <1>7 DEF PeerLeaves
  <2>2. Holding(s)' <=> Holding(s)
    BY <2>1 DEF Holding
  <2>3. CASE t = Other(s)
    <3>1. outbox'[Other(s)] = <<>> /\ ~Intact(Other(s))'
      BY <2>1, <2>3 DEF Intact, TypeOK
    <3> QED BY <2>1, <2>2, <3>1, StreamCut
  <2>4. CASE t # Other(s)
    <3>1. outbox'[Other(s)] = outbox[Other(s)] /\ (Intact(Other(s))' => Intact(Other(s)))
      BY <2>1, <2>4 DEF Intact, TypeOK
    <3> QED BY <2>1, <2>2, <3>1, StreamFrame
  <2> QED BY <2>3, <2>4
<1>8. ASSUME NEW d \in Sides, PeerReads(d) PROVE StreamInv(s)'
  <2>1. /\ UNCHANGED <<rpc, from, buf, inbox, sent, peer, reset>> /\ outbox[d] # <<>>
        /\ got' = [got EXCEPT ![d] = Append(@, Head(outbox[d]))]
        /\ outbox' = [outbox EXCEPT ![d] = Tail(@)]
    BY <1>8 DEF PeerReads
  <2>2. (Holding(s)' <=> Holding(s)) /\ (Intact(Other(s))' <=> Intact(Other(s))) /\ Pending(s)' = Pending(s)
    BY <2>1 DEF Holding, Intact, Pending
  <2>3. CASE d = Other(s)
    <3>1. /\ Head(outbox[d]) = Size(got[d]) + 1 /\ Head(outbox[d]) \in Nat
          /\ Run(Tail(outbox[d]), Size(got[d]) + 1)
          /\ Size(Tail(outbox[d])) = Size(outbox[d]) - 1 /\ Size(outbox[d]) \in Nat \ {0}
      BY <1>0, <1>q, <2>1, <2>3, HeadOfRun DEF StreamInv, Size
    <3>2. got'[d] = Append(got[d], Head(outbox[d])) /\ outbox'[d] = Tail(outbox[d])
      BY <2>1 DEF TypeOK
    <3>3. Run(got'[d], 0) /\ Size(got'[d]) = Size(got[d]) + 1
      <4>1. Run(got[d], 0) /\ Head(outbox[d]) = 0 + Size(got[d]) + 1 /\ 0 \in Nat
        BY <1>0, <2>3, <3>1 DEF StreamInv
      <4>2. /\ Size(Append(got[d], Head(outbox[d]))) = Size(got[d]) + 1
            /\ \A a \in Nat : Run(got[d], a) /\ Head(outbox[d]) = a + Size(got[d]) + 1 =>
                 Run(Append(got[d], Head(outbox[d])), a)
        BY <1>q, <2>3, <3>1, AppendRun DEF Size
      <4> QED BY <3>2, <4>1, <4>2
    <3>4. Size(got'[d]) + Size(outbox'[d]) = Size(got[d]) + Size(outbox[d])
      <4>1. Size(outbox'[d]) = Size(outbox[d]) - 1
        BY <3>1, <3>2
      <4> QED BY <1>0, <2>3, <3>3, <4>1
    <3> QED BY <2>1, <2>2, <2>3, <3>1, <3>2, <3>3, <3>4 DEF StreamInv
  <2>4. CASE d # Other(s)
    <3>1. got'[Other(s)] = got[Other(s)] /\ outbox'[Other(s)] = outbox[Other(s)]
      BY <1>s, <2>1, <2>4 DEF TypeOK
    <3> QED BY <2>1, <2>2, <3>1, StreamFrame
  <2> QED BY <2>3, <2>4
<1>9. CASE UNCHANGED vars
  <2>1. (Holding(s)' <=> Holding(s)) /\ (Intact(Other(s))' <=> Intact(Other(s)))
    BY <1>9 DEF vars, Holding, Intact
  <2> QED BY <1>9, <2>1, StreamFrame DEF vars
<1>10. CASE Dial \/ Poll \/ PollFails
  BY <1>1, <1>10 DEF Dial, Poll, PollFails, Goto, Holding
<1>11. ASSUME NEW t \in Sides, NotReady(t) \/ ReadEnds(t) PROVE StreamInv(s)'
  <2>1. /\ rpc = t /\ rpc' \in {"tailnet", "poll", "done"}
        /\ UNCHANGED <<inbox, outbox, sent, got, peer, reset>>
    BY <1>11 DEF NotReady, ReadEnds, Goto, After
  <2>2. rpc # "closed" /\ rpc # "write"
    BY <1>s, <2>1
  <2> QED BY <1>1, <2>1, <2>2 DEF Holding
<1>12. ASSUME NEW d \in Sides, WriteToNobody(d) \/ WriteFails(d) PROVE StreamInv(s)'
  <2>1. rpc = "write" /\ from = Other(d) /\ ~Intact(d)
    BY <1>12 DEF WriteToNobody, WriteFails, Intact
  <2>2. rpc' # "write" /\ UNCHANGED <<inbox, outbox, sent, got, peer, reset>>
    BY <1>12 DEF WriteToNobody, WriteFails, Goto, After
  <2>3. Holding(s) => d = Other(s)
    BY <1>s, <2>1 DEF Holding
  <2> QED BY <1>1, <2>1, <2>2, <2>3
<1>13. CASE DialFails \/ Finish
  BY <1>2, <1>13 DEF DialFails, Finish
<1> QED
  BY <1>3, <1>4, <1>5, <1>6, <1>7, <1>8, <1>9, <1>10, <1>11, <1>12, <1>13 DEF Next, RelayStep, PeerStep

-----------------------------------------------------------------------------
(* Why the relay stops.                                                     *)
LEMMA StopInit == Init => ReadyInv /\ DoneInv
<1> SUFFICES ASSUME Init PROVE ReadyInv /\ DoneInv
  OBVIOUS
<1>1. rpc = "dial" /\ unread = {}
  BY DEF Init
<1> QED BY <1>1, SideFacts DEF ReadyInv, DoneInv, Holding, Sides

LEMMA ReadyStep ==
    ASSUME TypeOK, ReadyInv, [Next]_vars
    PROVE  ReadyInv'
<1> USE DEF ReadyInv, Holding, TypeOK
<1>1. ASSUME rpc' \in {"poll", "done", "closed"} PROVE ReadyInv'
  BY <1>1 DEF Sides
<1>2. CASE Poll
  BY <1>2 DEF Poll, Readable, Sides
<1>3. ASSUME NEW s \in Sides, NotReady(s) PROVE ReadyInv'
  BY <1>3 DEF NotReady, Goto, After, Readable, Sides
<1>4. ASSUME NEW s \in Sides, Read(s) PROVE ReadyInv'
  BY <1>4 DEF Read, Readable, Sides
<1>5. ASSUME NEW s \in Sides, Write(s) PROVE ReadyInv'
  <2>1. UNCHANGED <<ready, from, inbox, peer, reset>> /\ rpc = "write" /\ rpc' \in {"write", After(from)}
    BY <1>5 DEF Write
  <2> QED BY <2>1 DEF Readable, After, Sides
<1>6. ASSUME NEW s \in Sides, WriteToNobody(s) PROVE ReadyInv'
  BY <1>6 DEF WriteToNobody, Readable, After, Sides
<1>7. ASSUME UNCHANGED <<rpc, ready, from>>, \A s \in Sides : Readable(s) => Readable(s)' PROVE ReadyInv'
  BY <1>7 DEF Sides
<1>8. ASSUME NEW s \in Sides, PeerStep(s) PROVE \A t \in Sides : Readable(t) => Readable(t)'
  <2>1. CASE Send(s)
    <3>1. Append(inbox[s], sent[s] + 1) # <<>>
      <4>1. inbox[s] \in Seq(Nat) /\ sent[s] + 1 \in Nat
        OBVIOUS
      <4> QED BY <4>1, AppendRun
    <3> QED BY <2>1, <3>1 DEF Send, Readable
  <2>2. CASE FinishSending(s) \/ PeerLeaves(s) \/ ConnectionFails(s) \/ PeerReads(s)
    BY <2>2 DEF FinishSending, PeerLeaves, ConnectionFails, PeerReads, Readable
  <2> QED BY <1>8, <2>1, <2>2 DEF PeerStep
<1>9. ASSUME NEW s \in Sides, PeerStep(s) PROVE ReadyInv'
  <2>1. UNCHANGED <<rpc, ready, from>>
    BY <1>9 DEF PeerStep, Send, FinishSending, PeerLeaves, ConnectionFails, PeerReads
  <2> QED BY <1>7, <1>8, <1>9, <2>1
<1>10. CASE UNCHANGED vars
  BY <1>10 DEF vars, Readable
<1>11. CASE Dial \/ DialFails \/ PollFails \/ Finish
  BY <1>1, <1>11 DEF Dial, DialFails, PollFails, Finish, CloseBoth, Goto
<1>12. ASSUME NEW s \in Sides, ReadEnds(s) \/ WriteFails(s) PROVE ReadyInv'
  BY <1>1, <1>12 DEF ReadEnds, WriteFails, Goto
<1> QED
  BY <1>2, <1>3, <1>4, <1>5, <1>6, <1>9, <1>10, <1>11, <1>12 DEF Next, RelayStep

LEMMA DoneStep ==
    ASSUME TypeOK, ReadyInv, DoneInv, [Next]_vars
    PROVE  DoneInv'
<1> USE DEF DoneInv, TypeOK
<1>1. ASSUME rpc # "closed", UNCHANGED unread, rpc' \notin {"done", "closed"} PROVE DoneInv'
  BY <1>1
<1>2. ASSUME CloseBoth PROVE DoneInv'
  BY <1>2 DEF CloseBoth, Goto
<1>3. CASE Poll
  BY <1>3 DEF Poll, HungUp, Sides
<1>4. CASE PollFails
  BY <1>4 DEF PollFails, Goto
<1>5. ASSUME NEW s \in Sides, ReadEnds(s) PROVE DoneInv'
  <2>1. Readable(s) /\ inbox[s] = <<>>
    BY <1>5 DEF ReadEnds, ReadyInv, Sides
  <2>2. peer[s] # "open" \/ s \in reset
    BY <2>1 DEF Readable
  <2> QED BY <1>5, <2>1, <2>2, SideFacts DEF ReadEnds, Goto
<1>6. ASSUME NEW s \in Sides, WriteFails(s) PROVE DoneInv'
  BY <1>6 DEF WriteFails, Goto
<1>7. ASSUME NEW s \in Sides, NotReady(s) \/ Read(s) \/ Write(s) \/ WriteToNobody(s) PROVE DoneInv'
  <2>1. rpc \in Sides \cup {"write"} /\ UNCHANGED unread
    BY <1>7 DEF NotReady, Read, Write, WriteToNobody
  <2>2. rpc' \in {"write", "tailnet", "poll"}
    BY <1>7 DEF NotReady, Read, Write, WriteToNobody, Goto, After
  <2> QED BY <1>1, <2>1, <2>2 DEF Sides
<1>8. ASSUME NEW s \in Sides, PeerStep(s) PROVE DoneInv'
  <2>1. /\ UNCHANGED <<rpc, aborted, unread>> /\ reset \subseteq reset'
        /\ \A t \in Sides : peer[t] = "gone" => peer'[t] = "gone"
        /\ \A t \in Sides : peer[t] # "open" => peer'[t] # "open" /\ inbox'[t] = inbox[t]
    BY <1>8 DEF PeerStep, Send, FinishSending, PeerLeaves, ConnectionFails, PeerReads
  <2> QED BY <2>1
<1>9. CASE UNCHANGED vars
  BY <1>9 DEF vars
<1>10. CASE Dial
  BY <1>1, <1>10 DEF Dial, Goto
<1>11. CASE DialFails \/ Finish
  BY <1>2, <1>11 DEF DialFails, Finish
<1> QED
  BY <1>3, <1>4, <1>5, <1>6, <1>7, <1>8, <1>9, <1>10, <1>11 DEF Next, RelayStep

-----------------------------------------------------------------------------
(* The invariant holds in every reachable state.                            *)
THEOREM RelayInvariance == Spec => []RelayInv
<1>1. Init => RelayInv
  BY TypeInit, StreamInit, StopInit DEF RelayInv
<1>2. RelayInv /\ [Next]_vars => RelayInv'
  BY TypeStep, StreamStep, ReadyStep, DoneStep DEF RelayInv
<1> QED BY <1>1, <1>2, PTL DEF Spec

(* Every variable of the relay has its type, and no socket holds more than   *)
(* its buffer.                                                              *)
THEOREM RelayTypeCorrect == Spec => []TypeOK
<1>1. RelayInv => TypeOK
  BY DEF RelayInv
<1> QED BY <1>1, RelayInvariance, PTL

(* What a peer sent before its half-close is with the other peer, or on its  *)
(* way to it, when RelayFDs stops because of that half-close.               *)
THEOREM FinishedIsForwardedHolds == Spec => []FinishedIsForwarded
<1>1. ASSUME RelayInv, NEW s \in Sides, rpc = "done", peer[s] = "finished", ~Broken(Other(s))
      PROVE  Size(got[Other(s)]) + Size(outbox[Other(s)]) = sent[s]
  <2>1. /\ ~aborted /\ reset = {} /\ \A t \in Sides : peer[t] # "gone"
        /\ peer[Other(s)] = "open"
    BY <1>1 DEF Broken
  <2>2. inbox[s] = <<>>
    <3>1. PICK t \in Sides : peer[t] # "open" /\ inbox[t] = <<>>
      BY <1>1, <2>1 DEF RelayInv, DoneInv
    <3> QED BY <2>1, <3>1, SideFacts
  <2>3. Intact(Other(s)) /\ Pending(s) = 0 /\ Size(inbox[s]) = 0
    BY <1>1, <2>1, <2>2, SideFacts, EmptyRun DEF Intact, Pending, Holding, Size
  <2>4. /\ Size(got[Other(s)]) + Size(outbox[Other(s)]) + Pending(s) + Size(inbox[s]) = sent[s]
        /\ Size(got[Other(s)]) \in Nat /\ Size(outbox[Other(s)]) \in Nat
    BY <1>1, <2>3, SideFacts, Lengths DEF RelayInv, StreamInv, Size
  <2> QED BY <2>3, <2>4
<1>2. RelayInv => FinishedIsForwarded
  BY <1>1 DEF FinishedIsForwarded, Size
<1> QED BY <1>2, RelayInvariance, PTL

-----------------------------------------------------------------------------
(* The refinement of BytePipes.                                             *)
LEMMA BrokenStays ==
    ASSUME TypeOK, DoneInv, [Next]_vars, NEW s \in Sides, Broken(s)
    PROVE  Broken(s)'
<1> USE DEF TypeOK, Broken, DoneInv
<1>1. ASSUME UNCHANGED <<peer, reset, unread>>, aborted => aborted' PROVE Broken(s)'
  BY <1>1
<1>2. ASSUME CloseBoth, rpc # "closed", aborted => aborted' PROVE Broken(s)'
  BY <1>2 DEF CloseBoth
<1>3. ASSUME NEW t \in Sides, PeerStep(t) PROVE Broken(s)'
  <2>1. /\ UNCHANGED <<aborted, unread>> /\ reset \subseteq reset'
        /\ \A u \in Sides : peer[u] = "gone" => peer'[u] = "gone"
        /\ \A u \in Sides : peer[u] # "open" => peer'[u] # "open"
    BY <1>3 DEF PeerStep, Send, FinishSending, PeerLeaves, ConnectionFails, PeerReads
  <2> QED BY <2>1
<1>4. CASE UNCHANGED vars
  BY <1>1, <1>4 DEF vars
<1>5. CASE Dial \/ Poll \/ PollFails
  BY <1>1, <1>5 DEF Dial, Poll, PollFails
<1>6. CASE DialFails \/ Finish
  BY <1>2, <1>6 DEF DialFails, Finish
<1>7. ASSUME NEW t \in Sides,
             NotReady(t) \/ Read(t) \/ ReadEnds(t) \/ Write(t) \/ WriteToNobody(t) \/ WriteFails(t)
      PROVE  Broken(s)'
  BY <1>1, <1>7 DEF NotReady, Read, ReadEnds, Write, WriteToNobody, WriteFails
<1> QED BY <1>3, <1>4, <1>5, <1>6, <1>7 DEF Next, RelayStep

(* The bytes each peer reads are a prefix of those the other one wrote, in   *)
(* order and each once: the safety of ImplementsPipes.                      *)
THEOREM RelayIsPipes == Spec => Pipes!PipesInit /\ [][Pipes!PipesNext]_Pipes!pipeVars
<1>1. Init => Pipes!PipesInit
  BY SideFacts DEF Init, Pipes!PipesInit, Broken
<1>2. RelayInv /\ [Next]_vars => [Pipes!PipesNext]_Pipes!pipeVars
  <2> SUFFICES ASSUME RelayInv, [Next]_vars PROVE [Pipes!PipesNext]_Pipes!pipeVars
    OBVIOUS
  <2>1. ASSUME UNCHANGED <<sent, got>> PROVE Pipes!Break
    <3>1. \A s \in Sides : Broken(s) => Broken(s)'
      BY BrokenStays DEF RelayInv
    <3>2. {s \in Sides : Broken(s)'} \subseteq Sides
      OBVIOUS
    <3>3. {s \in Sides : Broken(s)'} = {s \in Sides : Broken(s)} \cup {s \in Sides : Broken(s)'}
      BY <3>1
    <3> QED BY <2>1, <3>2, <3>3 DEF Pipes!Break
  <2>2. ASSUME NEW s \in Sides, Send(s) PROVE Pipes!Send(s)
    <3>1. UNCHANGED <<got, peer, reset, aborted, unread>> /\ sent' = [sent EXCEPT ![s] = @ + 1]
      BY <2>2 DEF Send
    <3>2. \A t \in Sides : Broken(t)' <=> Broken(t)
      BY <3>1 DEF Broken
    <3> QED BY <3>1, <3>2 DEF Pipes!Send
  <2>3. ASSUME NEW d \in Sides, PeerReads(d) PROVE Pipes!Deliver(d)
    <3> DEFINE s == Other(d)
    <3>1. s \in Sides /\ Other(s) = d
      BY SideFacts
    <3>2. /\ UNCHANGED <<sent, peer, reset, aborted, unread>> /\ outbox[d] # <<>>
          /\ got' = [got EXCEPT ![d] = Append(@, Head(outbox[d]))]
      BY <2>3 DEF PeerReads
    <3>3. /\ Run(outbox[d], Size(got[d])) /\ Size(got[d]) + Size(outbox[d]) <= sent[s]
      BY <3>1 DEF RelayInv, StreamInv
    <3>4. Size(got[d]) \in Nat /\ sent[s] \in Nat /\ outbox[d] \in Seq(Nat)
      BY <3>1, Lengths DEF RelayInv, TypeOK, Size
    <3>5. Size(outbox[d]) \in Nat \ {0} /\ Head(outbox[d]) = Size(got[d]) + 1
      BY <3>2, <3>3, <3>4, HeadOfRun DEF Size
    <3>6. Size(got[d]) < sent[s]
      BY <3>3, <3>4, <3>5
    <3>7. \A t \in Sides : Broken(t)' <=> Broken(t)
      BY <3>2 DEF Broken
    <3>8. Len(got[d]) < sent[[t \in Sides |-> Other(t)][d]]
      BY <3>6 DEF Size
    <3>9. got' = [got EXCEPT ![d] = Append(@, Len(@) + 1)]
      BY <3>2, <3>5 DEF Size
    <3> QED BY <3>2, <3>7, <3>8, <3>9 DEF Pipes!Deliver
  <2>4. ASSUME NEW s \in Sides, FinishSending(s) \/ PeerLeaves(s) \/ ConnectionFails(s) PROVE UNCHANGED <<sent, got>>
    BY <2>4 DEF FinishSending, PeerLeaves, ConnectionFails
  <2>5. CASE RelayStep \/ PollFails
    <3>1. ASSUME Dial \/ DialFails \/ Poll \/ PollFails \/ Finish PROVE UNCHANGED <<sent, got>>
      BY <3>1 DEF Dial, DialFails, Poll, PollFails, Finish, CloseBoth
    <3>2. ASSUME NEW s \in Sides,
                 NotReady(s) \/ Read(s) \/ ReadEnds(s) \/ Write(s) \/ WriteToNobody(s) \/ WriteFails(s)
          PROVE  UNCHANGED <<sent, got>>
      BY <3>2 DEF NotReady, Read, ReadEnds, Write, WriteToNobody, WriteFails
    <3>3. UNCHANGED <<sent, got>>
      BY <2>5, <3>1, <3>2 DEF RelayStep
    <3> QED BY <2>1, <3>3 DEF Pipes!PipesNext
  <2>6. CASE UNCHANGED vars
    BY <2>1, <2>6 DEF vars, Pipes!PipesNext
  <2> QED BY <2>1, <2>2, <2>3, <2>4, <2>5, <2>6 DEF Next, PeerStep, Pipes!PipesNext
<1> QED BY <1>1, <1>2, RelayInvariance, PTL DEF Spec
=============================================================================
