-------------------------------- MODULE Relay --------------------------------
(***************************************************************************)
(* The thread that TailscaleForwarder starts for a connection it accepted:   *)
(* it dials the tailnet peer and then copies between the two connections     *)
(* (RelayFDs) until one of them ends, and closes both.                       *)
(*                                                                          *)
(* One thread serves both directions with blocking calls.  It looks at      *)
(* POLLERR and POLLHUP of both sides before it reads anything, and takes the *)
(* end of one side for the end of both.                                     *)
(*                                                                          *)
(* Bytes are units numbered in the order in which a peer writes them.  The   *)
(* sockets' buffers are external: what a peer has written and the relay has  *)
(* not read, and what the relay has written and the peer has not read.       *)
(***************************************************************************)
EXTENDS Naturals, Sequences

CONSTANTS
    MaxSent,        \* bound on the units each peer writes
    Room,           \* what a socket's buffer holds in each direction
    BufSize,        \* sizeof(buf)
    HangUpSides     \* the sides on which poll reports POLLHUP as soon as the
                    \* peer closes, although data it wrote is still unread

Sides == {"client", "tailnet"}
Other(s) == IF s = "client" THEN "tailnet" ELSE "client"

ASSUME RelayAssumption ==
    /\ MaxSent \in Nat
    /\ Room \in Nat \ {0}
    /\ BufSize \in Nat \ {0}
    /\ HangUpSides \subseteq Sides

VARIABLES
    rpc,            \* where the relay thread is; a side: at the test of that side's POLLIN
    ready,          \* the sides with POLLIN in revents
    from,           \* the side that buf was read from
    buf,            \* what was read from it and is not yet written
    inbox,          \* from each peer, unread by the relay
    outbox,         \* to each peer, unread by it
    sent,           \* how many units each peer has written
    got,            \* what each peer has read
    peer,           \* "open", "finished" (it shut down its sending side) or "gone" (it closed)
    reset,          \* the sides whose connection failed
    aborted,        \* the dial or a poll failed (history)
    unread          \* the sides whose data the relay had not read when it closed (history)

relayVars == <<rpc, ready, from, buf>>
peerVars == <<sent, got, peer>>
history == <<aborted, unread>>
vars == <<relayVars, inbox, outbox, peerVars, reset, history>>

Init ==
    /\ rpc = "dial"
    /\ ready = {}
    /\ from = "client"
    /\ buf = <<>>
    /\ inbox = [s \in Sides |-> <<>>]
    /\ outbox = [s \in Sides |-> <<>>]
    /\ sent = [s \in Sides |-> 0]
    /\ got = [s \in Sides |-> <<>>]
    /\ peer = [s \in Sides |-> "open"]
    /\ reset = {}
    /\ aborted = FALSE
    /\ unread = {}

Least(m, n) == IF m < n THEN m ELSE n
First(q, n) == SubSeq(q, 1, n)
Rest(q, n) == SubSeq(q, n + 1, Len(q))

-----------------------------------------------------------------------------
(* The relay.                                                               *)
Goto(there) ==
    /\ rpc' = there
    /\ UNCHANGED <<ready, from, buf>>

Dial ==
    /\ rpc = "dial"
    /\ Goto("poll")
    /\ UNCHANGED <<inbox, outbox, peerVars, reset, history>>

(* CloseFD of both, after shutdown.  A peer that is closed while data of it  *)
(* is unread gets a reset, and may lose what it has not read yet.            *)
CloseBoth ==
    /\ Goto("closed")
    /\ inbox' = [s \in Sides |-> <<>>]
    /\ outbox' \in [Sides -> {outbox["client"], outbox["tailnet"], <<>>}]
    /\ \A s \in Sides : outbox'[s] = outbox[s] \/ (inbox[s] # <<>> /\ outbox'[s] = <<>>)
    /\ unread' = {s \in Sides : inbox[s] # <<>>}
    /\ UNCHANGED <<peerVars, reset>>

DialFails ==
    /\ rpc = "dial"
    /\ CloseBoth
    /\ aborted' = TRUE

Readable(s) == inbox[s] # <<>> \/ peer[s] # "open" \/ s \in reset
HungUp(s) == s \in reset \/ (peer[s] = "gone" /\ s \in HangUpSides)

(* Mutant: POLLRDHUP is taken for POLLHUP.                                  *)
PollHalfClose ==
    /\ rpc = "poll"
    /\ ready' = {s \in Sides : Readable(s)}
    /\ ready' # {}
    /\ rpc' = IF \E s \in Sides : HungUp(s) \/ peer[s] # "open" THEN "done" ELSE "client"
    /\ UNCHANGED <<from, buf, inbox, outbox, peerVars, reset, history>>

(* Mutant: the tailnet connection is not polled.                            *)
PollOne ==
    /\ rpc = "poll"
    /\ ready' = {s \in {"client"} : Readable(s)}
    /\ ready' # {}
    /\ rpc' = IF HungUp("client") THEN "done" ELSE "client"
    /\ UNCHANGED <<from, buf, inbox, outbox, peerVars, reset, history>>

(* poll(fds, 2, 30000): when it times out it is called again.               *)
Poll ==
    /\ rpc = "poll"
    /\ ready' = {s \in Sides : Readable(s)}
    /\ ready' # {}
    /\ rpc' = IF \E s \in Sides : HungUp(s) THEN "done" ELSE "client"
    /\ UNCHANGED <<from, buf, inbox, outbox, peerVars, reset, history>>

(* Any failure of poll, EINTR included.                                     *)
PollFails ==
    /\ rpc = "poll"
    /\ Goto("done")
    /\ aborted' = TRUE
    /\ UNCHANGED <<inbox, outbox, peerVars, reset, unread>>

(* The client's connection is served first, then the tailnet's.             *)
After(s) == IF s = "client" THEN "tailnet" ELSE "poll"

NotReady(s) ==
    /\ rpc = s /\ s \notin ready
    /\ Goto(After(s))
    /\ UNCHANGED <<inbox, outbox, peerVars, reset, history>>

Read(s) ==
    /\ rpc = s /\ s \in ready
    /\ inbox[s] # <<>>
    /\ LET n == Least(BufSize, Len(inbox[s]))
       IN /\ buf' = First(inbox[s], n)
          /\ inbox' = [inbox EXCEPT ![s] = Rest(@, n)]
    /\ from' = s
    /\ rpc' = "write"
    /\ UNCHANGED <<ready, outbox, peerVars, reset, history>>

(* read returned 0 or -1.                                                   *)
ReadEnds(s) ==
    /\ rpc = s /\ s \in ready
    /\ inbox[s] = <<>>
    /\ Goto("done")
    /\ UNCHANGED <<inbox, outbox, peerVars, reset, history>>

(* Mutant: the rest after a partial write is read again from buf's start.   *)
WriteWithoutOffset(s) ==
    /\ rpc = "write" /\ from = Other(s)
    /\ peer[s] # "gone" /\ s \notin reset
    /\ \E n \in 1 .. Least(Len(buf), Room - Len(outbox[s])) :
         /\ outbox' = [outbox EXCEPT ![s] = @ \o First(buf, n)]
         /\ buf' = First(buf, Len(buf) - n)
         /\ rpc' = IF n = Len(buf) THEN After(from) ELSE "write"
    /\ UNCHANGED <<ready, from, inbox, peerVars, reset, history>>

(* write blocks while there is no room.                                     *)
Write(s) ==
    /\ rpc = "write" /\ from = Other(s)
    /\ peer[s] # "gone" /\ s \notin reset
    /\ \E n \in 1 .. Least(Len(buf), Room - Len(outbox[s])) :
         /\ outbox' = [outbox EXCEPT ![s] = @ \o First(buf, n)]
         /\ buf' = Rest(buf, n)
         /\ rpc' = IF n = Len(buf) THEN After(from) ELSE "write"
    /\ UNCHANGED <<ready, from, inbox, peerVars, reset, history>>

(* TCP takes what is written to a peer that closed, and drops it.           *)
WriteToNobody(s) ==
    /\ rpc = "write" /\ from = Other(s)
    /\ peer[s] = "gone" /\ s \notin reset \cup HangUpSides
    /\ buf' = <<>>
    /\ rpc' = After(from)
    /\ UNCHANGED <<ready, from, inbox, outbox, peerVars, reset, history>>

WriteFails(s) ==
    /\ rpc = "write" /\ from = Other(s)
    /\ peer[s] = "gone" \/ s \in reset
    /\ Goto("done")
    /\ UNCHANGED <<inbox, outbox, peerVars, reset, history>>

Finish ==
    /\ rpc = "done"
    /\ CloseBoth
    /\ UNCHANGED aborted

RelayStep ==
    \/ Dial \/ DialFails \/ Poll \/ Finish
    \/ \E s \in Sides : NotReady(s) \/ Read(s) \/ ReadEnds(s) \/ Write(s) \/ WriteToNobody(s) \/ WriteFails(s)

-----------------------------------------------------------------------------
(* The peers and the network.                                               *)
Connected(s) == rpc # "closed" /\ (s = "tailnet" => rpc # "dial")

Send(s) ==
    /\ Connected(s) /\ peer[s] = "open" /\ s \notin reset
    /\ sent[s] < MaxSent
    /\ Len(inbox[s]) < Room
    /\ sent' = [sent EXCEPT ![s] = @ + 1]
    /\ inbox' = [inbox EXCEPT ![s] = Append(@, sent[s] + 1)]
    /\ UNCHANGED <<relayVars, outbox, got, peer, reset, history>>

(* shutdown(SHUT_WR), as by a client that has sent its last request.        *)
FinishSending(s) ==
    /\ Connected(s) /\ peer[s] = "open"
    /\ peer' = [peer EXCEPT ![s] = "finished"]
    /\ UNCHANGED <<relayVars, inbox, outbox, sent, got, reset, history>>

(* close; with data unread it resets the connection.                        *)
PeerLeaves(s) ==
    /\ Connected(s) /\ peer[s] # "gone"
    /\ peer' = [peer EXCEPT ![s] = "gone"]
    /\ reset' = IF outbox[s] # <<>> THEN reset \cup {s} ELSE reset
    /\ outbox' = [outbox EXCEPT ![s] = <<>>]
    /\ UNCHANGED <<relayVars, inbox, sent, got, history>>

(* A reset from the network.                                                *)
ConnectionFails(s) ==
    /\ Connected(s) /\ s \notin reset
    /\ reset' = reset \cup {s}
    /\ UNCHANGED <<relayVars, inbox, outbox, peerVars, history>>

PeerReads(s) ==
    /\ peer[s] # "gone" /\ outbox[s] # <<>>
    /\ got' = [got EXCEPT ![s] = Append(@, Head(outbox[s]))]
    /\ outbox' = [outbox EXCEPT ![s] = Tail(@)]
    /\ UNCHANGED <<relayVars, inbox, sent, peer, reset, history>>

PeerStep(s) == Send(s) \/ FinishSending(s) \/ PeerLeaves(s) \/ ConnectionFails(s) \/ PeerReads(s)

Next == RelayStep \/ PollFails \/ \E s \in Sides : PeerStep(s)

(* The relay's thread runs (no poll has to fail), a dial returns, and peers  *)
(* read what is there for them.  The last is an assumption on the programs   *)
(* at the two ends: with a peer that stops reading, the relay blocks in      *)
(* write, in both directions.                                               *)
Fairness ==
    /\ WF_vars(RelayStep)
    /\ \A s \in Sides : WF_vars(PeerReads(s))

Spec == Init /\ [][Next]_vars /\ Fairness

-----------------------------------------------------------------------------
TypeOK ==
    /\ rpc \in {"dial", "poll", "write", "done", "closed"} \cup Sides
    /\ ready \subseteq Sides /\ from \in Sides /\ reset \subseteq Sides /\ unread \subseteq Sides
    /\ buf \in Seq(Nat)
    /\ inbox \in [Sides -> Seq(Nat)] /\ outbox \in [Sides -> Seq(Nat)] /\ got \in [Sides -> Seq(Nat)]
    /\ sent \in [Sides -> Nat]
    /\ peer \in [Sides -> {"open", "finished", "gone"}]
    /\ aborted \in BOOLEAN
    /\ \A s \in Sides : Len(inbox[s]) <= Room /\ Len(outbox[s]) <= Room

(* What breaks the direction to a peer: a failure, a peer that closed, the   *)
(* peer's own half-close, or data of it that the relay did not read before   *)
(* it closed.  A half-close of the other peer does not.                      *)
Broken(s) ==
    \/ aborted \/ reset # {}
    \/ \E t \in Sides : peer[t] = "gone"
    \/ peer[s] # "open"
    \/ s \in unread

Pipes == INSTANCE BytePipes WITH
    Ends <- Sides,
    Far <- [s \in Sides |-> Other(s)],
    broken <- {s \in Sides : Broken(s)}

(* RelayFDs is a pair of pipes: each peer reads a prefix of what the other   *)
(* wrote, in order, whatever is cut, partial or dropped; and all of it,      *)
(* unless that direction broke.                                             *)
ImplementsPipes == Pipes!PipesSpec

(* When the relay stops because a peer has sent all it had and shut down its *)
(* sending side, everything that peer sent was written to the other one.     *)
FinishedIsForwarded ==
    \A s \in Sides :
        rpc = "done" /\ peer[s] = "finished" /\ ~Broken(Other(s)) =>
            Len(got[Other(s)]) + Len(outbox[Other(s)]) = sent[s]

(* After a peer shut down its sending side, closed, or failed, the thread    *)
(* ends and both connections are closed: neither is leaked.                  *)
EndsAfterHangUp == (reset # {} \/ \E s \in Sides : peer[s] # "open") ~> rpc = "closed"
=============================================================================
