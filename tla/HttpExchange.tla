----------------------------- MODULE HttpExchange -----------------------------
(***************************************************************************)
(* RoundTrip of TailscaleHTTPClient: one client object, leased to one       *)
(* thread, sends HTTP/1.1 requests over a connection that it keeps open      *)
(* between requests, frames the responses itself and redials once when a     *)
(* kept connection turns out to be dead.                                     *)
(*                                                                          *)
(* A response is a sequence of parts: a head, then data units, then for the  *)
(* chunked framing the last chunk.  ReadMore delivers any non-empty prefix   *)
(* of what is in flight.  The network may cut a connection at any moment,    *)
(* cleanly (EOF) or not, and lose what was in flight; a read may time out.   *)
(* The server executes the requests of a connection in order, also after     *)
(* the client gave the connection up.                                        *)
(***************************************************************************)
EXTENDS Naturals, Sequences, FiniteSets

CONSTANTS
    N,              \* number of requests made on this client
    Methods,        \* methods the caller may use
    MaxBody,        \* bound on the data units of a response
    Interim         \* TRUE when the server may send a 1xx head before a response

ASSUME ExchangeAssumption ==
    /\ N \in Nat
    /\ Methods \subseteq {"GET", "HEAD", "DELETE", "POST", "PUT"}
    /\ MaxBody \in Nat
    /\ Interim \in BOOLEAN

Requests == 1 .. N
Conns == 1 .. N     \* a request dials at most once
NoConn == 0         \* fd = -1

VARIABLES
    fd,             \* the client's connection, or NoConn
    rx,             \* parts read and not consumed
    pc,             \* where RoundTrip is
    req,            \* the number of requests made so far; the last one is the current one
    method,         \* the method of each request made
    reused,         \* the current attempt uses a connection kept from an earlier request
    out,            \* the response being parsed
    result,         \* what each finished request returned or threw
    to_server,      \* requests in flight or not yet executed, per connection
    to_client,      \* response parts in flight, per connection
    net,            \* state of each connection
    executed        \* how often the server executed each request

clientVars == <<fd, rx, pc, req, method, reused, out, result>>
vars == <<fd, rx, pc, req, method, reused, out, result, to_server, to_client, net, executed>>

Framings == {"none", "length", "chunked", "eof"}

HeadOf(r, f, n, close) == [part |-> "head", req |-> r, framing |-> f, size |-> n, close |-> close]
DataOf(r) == [part |-> "data", req |-> r]
LastOf(r) == [part |-> "last", req |-> r]

IsHead(p) == p.part = "head"

NoResponse == HeadOf(0, "none", 0, FALSE)
Pending == [kind |-> "pending"]
Failure == [kind |-> "error"]
(* What the caller gets: whose response it is, how much of its body, out of *)
(* how much, and whether the connection had ended cleanly by then.          *)
Success(head, got) ==
    [kind |-> "ok", req |-> head.req, framing |-> head.framing, size |-> head.size, got |-> got,
     eof |-> net[fd] = "fin"]

HasBody(r) == method[r] \in {"POST", "PUT"}

Init ==
    /\ fd = NoConn
    /\ rx = <<>>
    /\ pc = "ready"
    /\ req = 0
    /\ method = [r \in Requests |-> "none"]
    /\ reused = FALSE
    /\ out = NoResponse
    /\ result = [r \in Requests |-> Pending]
    /\ to_server = [c \in Conns |-> <<>>]
    /\ to_client = [c \in Conns |-> <<>>]
    /\ net = [c \in Conns |-> "unused"]
    /\ executed = [r \in Requests |-> 0]

-----------------------------------------------------------------------------
(* The server and the network.  Responses on a connection the client has     *)
(* closed go nowhere.                                                       *)

(* All responses to request r the server may choose from.                   *)
Responses(r) ==
    LET body(n) == [i \in 1 .. n |-> DataOf(r)]
        head(f, n) == {<<HeadOf(r, f, n, close)>> : close \in BOOLEAN}
        framed(f, n, tail) == {h \o (IF method[r] = "HEAD" THEN <<>> ELSE tail) : h \in head(f, n)}
    IN head("none", 0) \cup
       UNION {framed("length", n, body(n)) \cup
              framed("chunked", n, body(n) \o <<LastOf(r)>>) \cup
              framed("eof", n, body(n)) : n \in 0 .. MaxBody}

Execute(c) ==
    /\ net[c] = "open"
    /\ to_server[c] # <<>>
    /\ LET r == to_server[c][1] IN
         /\ executed' = [executed EXCEPT ![r] = @ + 1]
         /\ \E final \in Responses(r), early \in {<<>>} \cup (IF Interim THEN {<<HeadOf(r, "none", 0, FALSE)>>} ELSE {}) :
              to_client' = IF c = fd THEN [to_client EXCEPT ![c] = @ \o early \o final] ELSE to_client
    /\ to_server' = [to_server EXCEPT ![c] = Tail(@)]
    /\ UNCHANGED <<clientVars, net>>

(* The connection ends, "fin" for the client an EOF after what still         *)
(* arrives, "reset" an error; what does not arrive any more is lost.         *)
Cut(c) ==
    /\ net[c] = "open"
    /\ \E how \in {"fin", "reset"} : net' = [net EXCEPT ![c] = how]
    /\ \E k \in 0 .. Len(to_client[c]) : to_client' = [to_client EXCEPT ![c] = SubSeq(@, 1, k)]
    /\ to_server' = [to_server EXCEPT ![c] = <<>>]
    /\ UNCHANGED <<clientVars, executed>>

-----------------------------------------------------------------------------
(* The client.                                                              *)

(* Get, Head, Delete, Post, Put: enter RoundTrip.                           *)
Call(m) ==
    /\ pc = "ready"
    /\ req < N
    /\ req' = req + 1
    /\ method' = [method EXCEPT ![req + 1] = m]
    /\ pc' = "attempt"
    /\ UNCHANGED <<fd, rx, reused, out, result, to_server, to_client, net, executed>>

(* close(fd): what is still on its way to the client is lost, what the      *)
(* client sent is not.                                                      *)
CloseConn ==
    /\ fd' = NoConn
    /\ rx' = <<>>
    /\ to_client' = [to_client EXCEPT ![fd] = <<>>]

KeepConn(rest) ==
    /\ rx' = rest
    /\ UNCHANGED <<fd, to_client>>

(* RoundTrip returns or throws; its locals are gone.                        *)
Return(res) ==
    /\ result' = [result EXCEPT ![req] = res]
    /\ pc' = "ready"
    /\ reused' = FALSE
    /\ out' = NoResponse

(* Top of the loop: keep the open connection, or dial a new one.            *)
UseConnection ==
    /\ pc = "attempt"
    /\ fd # NoConn
    /\ reused' = TRUE
    /\ pc' = "write"
    /\ UNCHANGED <<fd, rx, req, method, out, result, to_server, to_client, net, executed>>

Dial ==
    /\ pc = "attempt"
    /\ fd = NoConn
    /\ reused' = FALSE
    /\ fd' = req
    /\ rx' = <<>>
    /\ net' = [net EXCEPT ![req] = "open"]
    /\ pc' = "write"
    /\ UNCHANGED <<req, method, out, result, to_server, to_client, executed>>

(* DialTCP throws through RoundTrip; fd stays -1.                           *)
DialFails ==
    /\ pc = "attempt"
    /\ fd = NoConn
    /\ Return(Failure)
    /\ UNCHANGED <<fd, rx, req, method, to_server, to_client, net, executed>>

(* Mutants of Fail: a request with a body is sent again; the connection      *)
(* stays in use.                                                            *)
RetryWrites ==
    /\ CloseConn
    /\ IF reused
       THEN pc' = "attempt" /\ out' = NoResponse /\ UNCHANGED <<reused, result>>
       ELSE Return(Failure)

FailAndKeep == Return(Failure) /\ KeepConn(rx)

(* `ok` is false: drop the connection, then redial for an idempotent        *)
(* request that was sent on a kept connection, or throw.                    *)
Fail ==
    /\ CloseConn
    /\ IF reused /\ ~HasBody(req)
       THEN pc' = "attempt" /\ out' = NoResponse /\ UNCHANGED <<reused, result>>
       ELSE Return(Failure)

(* WriteAll of the head and the body.  A write to a connection the peer has *)
(* already left may succeed; what it sent is lost.                          *)
Write ==
    /\ pc = "write"
    /\ to_server' = IF net[fd] = "open" THEN [to_server EXCEPT ![fd] = Append(@, req)] ELSE to_server
    /\ pc' = "head"
    /\ UNCHANGED <<fd, rx, req, method, reused, out, result, to_client, net, executed>>

(* Fewer bytes than the request were taken, so the server cannot execute it.*)
WriteFails ==
    /\ pc = "write"
    /\ Fail
    /\ UNCHANGED <<req, method, to_server, net, executed>>

AllData(parts) == \A i \in DOMAIN parts : parts[i].part = "data"

HeadArrived(parts) == \E i \in DOMAIN parts : IsHead(parts[i])

(* The loops of ReadResponse and ReadChunkedBody call ReadMore as long as   *)
(* what they look for is not in rx.                                         *)
NeedsMore ==
    \/ pc = "head" /\ ~HeadArrived(rx)
    \/ pc = "length" /\ Len(rx) < out.size
    \/ pc = "chunked" /\ AllData(rx)
    \/ pc = "eof"

ReadMore ==
    /\ NeedsMore
    /\ \E k \in 1 .. Len(to_client[fd]) :
         /\ rx' = rx \o SubSeq(to_client[fd], 1, k)
         /\ to_client' = [to_client EXCEPT ![fd] = SubSeq(@, k + 1, Len(@))]
    /\ UNCHANGED <<fd, pc, req, method, reused, out, result, to_server, net, executed>>

(* read returned 0: the end of an EOF-framed body, a failure anywhere else. *)
ReadEof ==
    /\ NeedsMore
    /\ net[fd] = "fin" /\ to_client[fd] = <<>>
    /\ IF pc = "eof"
       THEN Return(Success(out, Len(rx))) /\ CloseConn
       ELSE Fail
    /\ UNCHANGED <<req, method, to_server, net, executed>>

(* Mutant: an error ends a body like an EOF.                                *)
ErrorIsEof ==
    /\ NeedsMore
    /\ net[fd] # "fin" \/ to_client[fd] # <<>>
    /\ IF pc = "eof" THEN Return(Success(out, Len(rx))) /\ CloseConn ELSE Fail
    /\ UNCHANGED <<req, method, to_server, net, executed>>

(* read failed: the connection broke, or SO_RCVTIMEO expired.               *)
ReadFails ==
    /\ NeedsMore
    /\ net[fd] # "fin" \/ to_client[fd] # <<>>
    /\ Fail
    /\ UNCHANGED <<req, method, to_server, net, executed>>

Finish(head, got, close, rest) ==
    /\ Return(Success(head, got))
    /\ IF close THEN CloseConn ELSE KeepConn(rest)

(* The head: everything up to the first blank line, junk before it included.*)
ParseHead ==
    /\ pc = "head"
    /\ \E i \in DOMAIN rx :
         /\ IsHead(rx[i]) /\ ~HeadArrived(SubSeq(rx, 1, i - 1))
         /\ LET head == rx[i]
                rest == SubSeq(rx, i + 1, Len(rx))
                no_body == method[req] = "HEAD" \/ head.framing = "none"
            IN \/ no_body /\ Finish(head, 0, head.close, rest)
               \/ /\ ~no_body
                  /\ out' = head
                  /\ pc' = head.framing
                  /\ KeepConn(rest)
                  /\ UNCHANGED <<reused, result>>
    /\ UNCHANGED <<req, method, to_server, net, executed>>

(* Content-Length: exactly that much; leftover bytes give the connection up.*)
ParseLength ==
    /\ pc = "length"
    /\ Len(rx) >= out.size
    /\ LET own == {i \in 1 .. out.size : rx[i] = DataOf(out.req)}
           leftover == SubSeq(rx, out.size + 1, Len(rx))
       IN Finish(out, Cardinality(own), out.close \/ leftover # <<>>, leftover)
    /\ UNCHANGED <<req, method, to_server, net, executed>>

(* Chunks up to the last one; anything else in their place is malformed.     *)
ParseChunks ==
    /\ pc = "chunked"
    /\ \E e \in DOMAIN rx :
         /\ AllData(SubSeq(rx, 1, e - 1))
         /\ \/ rx[e].part = "last" /\ Finish(out, e - 1, out.close, SubSeq(rx, e + 1, Len(rx)))
            \/ IsHead(rx[e]) /\ Fail
    /\ UNCHANGED <<req, method, to_server, net, executed>>

ClientStep ==
    \/ UseConnection \/ Dial \/ DialFails
    \/ Write \/ WriteFails
    \/ ReadMore \/ ReadEof \/ ReadFails
    \/ ParseHead \/ ParseLength \/ ParseChunks

Next ==
    \/ \E m \in Methods : Call(m)
    \/ ClientStep
    \/ \E c \in Conns : Execute(c) \/ Cut(c)

(* The thread inside RoundTrip keeps running and, because every read has a  *)
(* deadline, never waits for ever; nothing is assumed of the server or the  *)
(* network.                                                                 *)
Spec == Init /\ [][Next]_vars /\ WF_vars(ClientStep)

-----------------------------------------------------------------------------
Heads == [part : {"head"}, req : Requests, framing : Framings, size : 0 .. MaxBody, close : BOOLEAN]
Parts == Heads \cup [part : {"data", "last"}, req : Requests]
Answers == [kind : {"ok"}, req : Requests, framing : Framings, size : 0 .. MaxBody, got : Nat, eof : BOOLEAN]

BodyPhases == Framings \ {"none"}
Reading == {"head"} \cup BodyPhases

(* The head being parsed is known while its body is read.                   *)
TypeOK ==
    /\ fd \in Conns \cup {NoConn}
    /\ rx \in Seq(Parts)
    /\ pc \in {"ready", "attempt", "write"} \cup Reading
    /\ req \in 0 .. N
    /\ method \in [Requests -> Methods \cup {"none"}]
    /\ reused \in BOOLEAN
    /\ out \in Heads \cup {NoResponse}
    /\ pc \in BodyPhases => out \in Heads
    /\ result \in [Requests -> Answers \cup {Pending, Failure}]
    /\ to_server \in [Conns -> Seq(Requests)]
    /\ to_client \in [Conns -> Seq(Parts)]
    /\ net \in [Conns -> {"unused", "open", "fin", "reset"}]
    /\ executed \in [Requests -> Nat]

(* Between requests a kept connection is clean: nothing read and left over, *)
(* nothing in flight in either direction.  This is what makes reuse safe;   *)
(* the comment in ReadResponse states it ("there must be nothing after the  *)
(* body until our next request").                                           *)
KeptAliveIsClean ==
    pc \in {"ready", "attempt"} /\ fd # NoConn => rx = <<>> /\ to_client[fd] = <<>> /\ to_server[fd] = <<>>

(* A response whose framing tells its length is never delivered short; one  *)
(* that runs to EOF is only as long as what came before a clean EOF, never   *)
(* what came before an error or a timeout.                                  *)
NeverTruncated ==
    \A r \in Requests : result[r].kind = "ok" /\ method[r] # "HEAD" =>
        \/ result[r].got = result[r].size
        \/ result[r].framing = "eof" /\ result[r].got < result[r].size /\ result[r].eof

(* Whatever the server answers, interim responses included, and however      *)
(* often connections break: a request with a body is executed at most once,  *)
(* any other at most twice, also by what reaches the server after the caller *)
(* has its answer.                                                          *)
WritesAtMostOnce == \A r \in Requests : executed[r] <= IF HasBody(r) THEN 1 ELSE 2

(* The round trips implement the at-most-once call: however often            *)
(* connections break, a request with a body is executed at most once and any *)
(* other at most twice, an answer is that of its own request, and every call *)
(* ends.  An answer counts only when it belongs to the call.                *)
Phase(r) ==
    IF r > req THEN "new"
    ELSE IF result[r].kind = "pending" THEN "running"
    ELSE IF result[r].kind = "error" THEN "failed"
    ELSE IF result[r].req = r THEN "answered" ELSE "confused"

Abstract == INSTANCE AtMostOnceCall WITH
    Calls <- Requests,
    writes <- {r \in Requests : HasBody(r)},
    phase <- [r \in Requests |-> Phase(r)]

ImplementsAtMostOnce == Abstract!AbsSpec
=============================================================================
