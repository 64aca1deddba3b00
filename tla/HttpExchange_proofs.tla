-------------------------- MODULE HttpExchange_proofs --------------------------
(***************************************************************************)
(* Proofs about HttpExchange, for any number of requests, any methods and    *)
(* any bound on the bodies.                                                 *)
(*                                                                          *)
(* The invariant has two layers.  The first (RetryInv) does not look at what *)
(* the server answers, so that it holds with and without interim responses:  *)
(* which connection an attempt uses, and how often a request can have been   *)
(* sent by then (Allowance), which bounds how often it is executed.  The     *)
(* second (StreamInv) is about a server that answers each request once: then *)
(* what arrived on the connection and is not consumed is what remains of the *)
(* response to the current request, and nothing else is on its way.          *)
(***************************************************************************)
EXTENDS HttpExchange, FiniteSetTheorems, SequenceTheorems, TLAPS

Limit(r) == IF HasBody(r) THEN 1 ELSE 2

Queued(r, c) == \E i \in 1 .. Len(to_server[c]) : to_server[c][i] = r

(* The connections on which r waits to be executed.                         *)
Waiting(r) == {c \in Conns : Queued(r, c)}

(* The current request was not sent yet.                                    *)
Fresh == (pc = "attempt" /\ ~reused) \/ (pc = "write" /\ reused)
Undialled(c) == c > req \/ (c = req /\ (pc = "attempt" \/ reused))

(* How often request r may have been sent by now: once per attempt, and a    *)
(* second attempt follows only one that used a kept connection, without body.*)
Allowance(r) ==
    IF r > req \/ (r = req /\ Fresh) THEN 0
    ELSE IF r = req /\ pc \in {"attempt", "write"} THEN Limit(r) - 1
    ELSE IF r = req /\ pc \in Reading /\ reused THEN 1
    ELSE Limit(r)

(* The connection an attempt uses: an earlier request's, or its own.         *)
AttemptInv ==
    /\ fd <= req
    /\ pc = "ready" => ~reused
    /\ pc # "ready" => req > 0
    /\ pc = "attempt" => fd < req /\ (reused => fd = NoConn /\ ~HasBody(req))
    /\ pc \in {"write"} \cup Reading => fd # NoConn /\ (IF reused THEN fd < req ELSE fd = req)
    /\ \A r \in Requests : r > req => method[r] = "none"

ConnInv ==
    /\ \A c \in Conns : Undialled(c) => net[c] = "unused"
    /\ \A c \in Conns : net[c] = "unused" => to_server[c] = <<>> /\ to_client[c] = <<>>
    /\ \A c \in Conns : c # fd => to_client[c] = <<>>
    /\ fd # NoConn => net[fd] # "unused"
    /\ pc = "write" /\ ~reused => to_server[fd] = <<>>
    /\ \A c \in Conns : \A i, j \in 1 .. Len(to_server[c]) : to_server[c][i] = to_server[c][j] => i = j

SentInv == \A r \in Requests : executed[r] + Cardinality(Waiting(r)) <= Allowance(r)

ResultInv == \A r \in Requests : result[r] = Pending <=> r > req \/ (r = req /\ pc # "ready")

RetryInv == TypeOK /\ AttemptInv /\ ConnInv /\ SentInv /\ ResultInv

-----------------------------------------------------------------------------
(* A response with head h: h, the data units, the last chunk.                *)
BodyLen(h) ==
    IF method[h.req] = "HEAD" \/ h.framing = "none" THEN 0
    ELSE IF h.framing = "chunked" THEN h.size + 1
    ELSE h.size

ResponsePart(h, i) == IF i = 1 THEN h ELSE IF i <= h.size + 1 THEN DataOf(h.req) ELSE LastOf(h.req)

HeadsOf(r) == {h \in Heads : h.req = r /\ (h.framing = "none" => h.size = 0)}

(* s is what follows the first n parts of the response with head h, as far   *)
(* as it arrived.                                                           *)
Follows(s, h, n) ==
    /\ n + Len(s) <= BodyLen(h) + 1
    /\ \A i \in 1 .. Len(s) : s[i] = ResponsePart(h, n + i)

(* What was received on the connection and is not consumed, in order.        *)
Stream == rx \o to_client[fd]

Incoming(h, n) ==
    /\ Follows(Stream, h, n)
    /\ net[fd] = "open" => n + Len(Stream) = BodyLen(h) + 1

Quiet == rx = <<>> /\ (fd # NoConn => to_client[fd] = <<>> /\ to_server[fd] = <<>>)
Unanswered == net[fd] = "open" /\ to_server[fd] = <<req>> /\ Stream = <<>>

StreamInv ==
    /\ pc \notin Reading => Quiet
    /\ pc = "head" => Unanswered \/ (to_server[fd] = <<>> /\ \E h \in HeadsOf(req) : Incoming(h, 0))
    /\ pc \in BodyPhases =>
         /\ to_server[fd] = <<>>
         /\ out.req = req /\ out.framing = pc /\ method[req] # "HEAD"
         /\ Incoming(out, 1)

(* An answer proves that the request was executed.                          *)
AnsweredInv ==
    /\ pc = "head" /\ Stream # <<>> => executed[req] > 0
    /\ pc \in BodyPhases => executed[req] > 0
    /\ \A r \in Requests : result[r].kind = "ok" => result[r].req = r

ExchangeInv == RetryInv /\ (~Interim => StreamInv /\ AnsweredInv /\ NeverTruncated)

-----------------------------------------------------------------------------
(* The steps of the client by what they do to the connection, whatever the   *)
(* response is.                                                             *)
ServerIdle == UNCHANGED <<req, method, to_server, net, executed>>

Failing == pc \in {"write"} \cup Reading /\ Fail /\ ServerIdle

Finishing ==
    /\ pc \in Reading
    /\ \E head \in Heads, got \in Nat : Return(Success(head, got))
    /\ CloseConn \/ \E rest \in Seq(Parts) : KeepConn(rest)
    /\ ServerIdle

Consuming ==
    /\ pc \in Reading /\ pc' \in Reading
    /\ rx' \in Seq(Parts)
    /\ \E q \in Seq(Parts) : to_client' = [to_client EXCEPT ![fd] = q]
    /\ out' \in Heads \cup {NoResponse} /\ (pc' \in BodyPhases => out' \in Heads)
    /\ UNCHANGED <<fd, reused, result>>
    /\ ServerIdle

(* A sequence cut in two.                                                   *)
LEMMA CutSeq ==
    ASSUME NEW S, NEW q \in Seq(S), NEW k \in 0 .. Len(q)
    PROVE  /\ SubSeq(q, 1, k) \in Seq(S) /\ Len(SubSeq(q, 1, k)) = k
           /\ \A i \in 1 .. k : SubSeq(q, 1, k)[i] = q[i]
           /\ SubSeq(q, k + 1, Len(q)) \in Seq(S) /\ Len(SubSeq(q, k + 1, Len(q))) = Len(q) - k
           /\ \A i \in 1 .. Len(q) - k : SubSeq(q, k + 1, Len(q))[i] = q[k + i]
           /\ SubSeq(q, 1, k) \o SubSeq(q, k + 1, Len(q)) = q
<1>1. Len(q) \in Nat /\ \A i \in 1 .. Len(q) : q[i] \in S
  BY LenProperties, ElementOfSeq
<1>2. \A i \in 1 .. k : q[i] \in S
  BY <1>1
<1>3. /\ SubSeq(q, 1, k) \in Seq(S)
      /\ Len(SubSeq(q, 1, k)) = IF 1 <= k THEN k - 1 + 1 ELSE 0
      /\ \A i \in 1 .. k - 1 + 1 : SubSeq(q, 1, k)[i] = q[1 + i - 1]
  <2> DEFINE m == 1
  <2>1. m \in Int /\ k \in Int /\ \A i \in m .. k : q[i] \in S
    BY <1>1
  <2> HIDE DEF m
  <2>2. /\ SubSeq(q, m, k) \in Seq(S)
        /\ Len(SubSeq(q, m, k)) = IF m <= k THEN k - m + 1 ELSE 0
        /\ \A i \in 1 .. k - m + 1 : SubSeq(q, m, k)[i] = q[m + i - 1]
    BY <2>1, SubSeqProperties
  <2> QED BY <2>2 DEF m
<1>4. /\ SubSeq(q, k + 1, Len(q)) \in Seq(S)
      /\ Len(SubSeq(q, k + 1, Len(q))) = IF k + 1 <= Len(q) THEN Len(q) - (k + 1) + 1 ELSE 0
      /\ \A i \in 1 .. Len(q) - (k + 1) + 1 : SubSeq(q, k + 1, Len(q))[i] = q[k + 1 + i - 1]
  <2> DEFINE m == k + 1
             n == Len(q)
  <2>1. m \in Int /\ n \in Int /\ \A i \in m .. n : q[i] \in S
    BY <1>1
  <2> HIDE DEF m, n
  <2>2. /\ SubSeq(q, m, n) \in Seq(S)
        /\ Len(SubSeq(q, m, n)) = IF m <= n THEN n - m + 1 ELSE 0
        /\ \A i \in 1 .. n - m + 1 : SubSeq(q, m, n)[i] = q[m + i - 1]
    BY <2>1, SubSeqProperties
  <2> QED BY <2>2 DEF m, n
<1>5. SubSeq(q, 1, k) \o SubSeq(q, k + 1, Len(q)) = q
  <2>1. SubSeq(q, 1, k) \o SubSeq(q, k + 1, Len(q)) = SubSeq(q, 1, Len(q))
    <3>1. 1 \in 1 .. Len(q) + 1 /\ k \in 1 - 1 .. Len(q) /\ Len(q) \in k .. Len(q)
      BY <1>1
    <3> QED BY <3>1, ConcatAdjacentSubSeq
  <2> QED BY <2>1, SubSeqFull
<1>6. Len(SubSeq(q, 1, k)) = k /\ \A i \in 1 .. k : SubSeq(q, 1, k)[i] = q[i]
  BY <1>3
<1>7. /\ Len(SubSeq(q, k + 1, Len(q))) = Len(q) - k
      /\ \A i \in 1 .. Len(q) - k : SubSeq(q, k + 1, Len(q))[i] = q[k + i]
  BY <1>1, <1>4
<1> QED BY <1>3, <1>4, <1>5, <1>6, <1>7

LEMMA PartFacts ==
    /\ \A p \in Parts : IsHead(p) <=> p \in Heads
    /\ \A p \in Heads : p.framing \in Framings /\ p.size \in Nat /\ p.close \in BOOLEAN /\ p.req \in Requests
    /\ NoResponse \notin Heads
    /\ \A h \in Heads, n \in Nat : Success(h, n) \in Answers
    /\ \A r \in Requests : DataOf(r) \in Parts /\ LastOf(r) \in Parts
<1>1. \A p \in Parts : IsHead(p) <=> p \in Heads
  BY DEF Parts, Heads, IsHead
<1>2. \A p \in Heads : p.framing \in Framings /\ p.size \in Nat /\ p.close \in BOOLEAN /\ p.req \in Requests
  BY ExchangeAssumption DEF Heads
<1>3. NoResponse \notin Heads
  BY DEF NoResponse, HeadOf, Heads, Requests
<1>4. \A h \in Heads, n \in Nat : Success(h, n) \in Answers
  BY DEF Heads, Success, Answers
<1>5. \A r \in Requests : DataOf(r) \in Parts /\ LastOf(r) \in Parts
  BY DEF DataOf, LastOf, Parts
<1> QED BY <1>1, <1>2, <1>3, <1>4, <1>5

(* Every step is of one of these kinds.                                     *)
LEMMA StepKinds ==
    ASSUME TypeOK, AttemptInv, [Next]_vars
    PROVE  \/ \E m \in Methods : Call(m)
           \/ UseConnection \/ Dial \/ DialFails \/ Write
           \/ Failing \/ Finishing \/ Consuming
           \/ \E c \in Conns : Execute(c) \/ Cut(c)
           \/ UNCHANGED vars
<1>1. WriteFails => Failing
  BY DEF WriteFails, Failing, ServerIdle
<1>2. ReadFails => Failing
  BY DEF ReadFails, Failing, ServerIdle, NeedsMore, Reading, BodyPhases, Framings
<1>3. pc \in Reading => fd \in Conns /\ rx \in Seq(Parts) /\ Len(rx) \in Nat /\ to_client[fd] \in Seq(Parts)
  BY LenProperties DEF TypeOK, AttemptInv
<1>4. ReadEof => Failing \/ Finishing
  <2> SUFFICES ASSUME ReadEof PROVE Failing \/ Finishing
    OBVIOUS
  <2>1. pc \in Reading
    BY DEF ReadEof, NeedsMore, Reading, BodyPhases, Framings
  <2>2. CASE pc = "eof"
    <3>1. out \in Heads
      BY <2>2 DEF TypeOK, BodyPhases, Framings
    <3> QED BY <1>3, <2>1, <2>2, <3>1 DEF ReadEof, Finishing, ServerIdle
  <2>3. CASE pc # "eof"
    BY <2>1, <2>3 DEF ReadEof, Failing, ServerIdle
  <2> QED BY <2>2, <2>3
<1>5. ReadMore => Consuming
  <2> SUFFICES ASSUME ReadMore PROVE Consuming
    OBVIOUS
  <2>1. pc \in Reading
    BY DEF ReadMore, NeedsMore, Reading, BodyPhases, Framings
  <2>2. PICK k \in 1 .. Len(to_client[fd]) :
          /\ rx' = rx \o SubSeq(to_client[fd], 1, k)
          /\ to_client' = [to_client EXCEPT ![fd] = SubSeq(@, k + 1, Len(@))]
    BY DEF ReadMore
  <2>3. k \in 0 .. Len(to_client[fd])
    BY <2>2
  <2>4. SubSeq(to_client[fd], 1, k) \in Seq(Parts) /\ SubSeq(to_client[fd], k + 1, Len(to_client[fd])) \in Seq(Parts)
    BY <1>3, <2>1, <2>3, CutSeq
  <2>5. rx' \in Seq(Parts)
    BY <1>3, <2>1, <2>2, <2>4, ConcatProperties
  <2>6. to_client' = [to_client EXCEPT ![fd] = SubSeq(to_client[fd], k + 1, Len(to_client[fd]))]
    BY <2>2
  <2> QED BY <2>1, <2>4, <2>5, <2>6 DEF ReadMore, Consuming, ServerIdle, TypeOK
<1>6. ParseHead => Finishing \/ Consuming
  <2> SUFFICES ASSUME ParseHead PROVE Finishing \/ Consuming
    OBVIOUS
  <2>1. pc = "head" /\ pc \in Reading /\ ServerIdle
    BY DEF ParseHead, Reading, ServerIdle
  <2>2. PICK i \in DOMAIN rx :
          /\ IsHead(rx[i])
          /\ LET rest == SubSeq(rx, i + 1, Len(rx))
                 no_body == method[req] = "HEAD" \/ rx[i].framing = "none"
             IN \/ Finish(rx[i], 0, rx[i].close, rest)
                \/ /\ ~no_body
                   /\ out' = rx[i]
                   /\ pc' = rx[i].framing
                   /\ KeepConn(rest)
                   /\ UNCHANGED <<reused, result>>
    BY DEF ParseHead
  <2>3. i \in 1 .. Len(rx) /\ i \in 0 .. Len(rx)
    BY <1>3, <2>1, <2>2, LenProperties
  <2>4. rx[i] \in Heads
    BY <1>3, <2>1, <2>2, <2>3, ElementOfSeq, PartFacts
  <2>5. SubSeq(rx, i + 1, Len(rx)) \in Seq(Parts)
    BY <1>3, <2>1, <2>3, CutSeq
  <2>6. CASE Finish(rx[i], 0, rx[i].close, SubSeq(rx, i + 1, Len(rx)))
    BY <2>1, <2>4, <2>5, <2>6 DEF Finish, Finishing
  <2>7. CASE /\ rx[i].framing # "none"
             /\ out' = rx[i]
             /\ pc' = rx[i].framing
             /\ KeepConn(SubSeq(rx, i + 1, Len(rx)))
             /\ UNCHANGED <<reused, result>>
    <3>1. pc' \in Reading
      BY <2>4, <2>7, PartFacts DEF Reading, BodyPhases
    <3>2. to_client' = [to_client EXCEPT ![fd] = to_client[fd]]
      BY <1>3, <2>1, <2>7 DEF KeepConn, TypeOK
    <3> QED BY <1>3, <2>1, <2>4, <2>5, <2>7, <3>1, <3>2 DEF KeepConn, Consuming
  <2> QED BY <2>2, <2>6, <2>7
<1>7. ParseLength => Finishing
  <2> SUFFICES ASSUME ParseLength PROVE Finishing
    OBVIOUS
  <2>1. pc = "length" /\ pc \in Reading /\ ServerIdle /\ out \in Heads /\ out.size \in 0 .. Len(rx)
    BY <1>3, PartFacts DEF ParseLength, Reading, BodyPhases, Framings, ServerIdle, TypeOK
  <2>2. SubSeq(rx, out.size + 1, Len(rx)) \in Seq(Parts)
    BY <1>3, <2>1, CutSeq
  <2>3. Cardinality({i \in 1 .. out.size : rx[i] = DataOf(out.req)}) \in Nat
    <3>1. IsFiniteSet(1 .. out.size)
      BY <2>1, FS_Interval
    <3>2. IsFiniteSet({i \in 1 .. out.size : rx[i] = DataOf(out.req)})
      BY <3>1, FS_Subset
    <3> QED BY <3>2, FS_CardinalityType
  <2> QED BY <2>1, <2>2, <2>3 DEF ParseLength, Finish, Finishing
<1>8. ParseChunks => Failing \/ Finishing
  <2> SUFFICES ASSUME ParseChunks PROVE Failing \/ Finishing
    OBVIOUS
  <2>1. pc = "chunked" /\ pc \in Reading /\ ServerIdle /\ out \in Heads
    BY DEF ParseChunks, Reading, BodyPhases, Framings, ServerIdle, TypeOK
  <2>2. PICK e \in DOMAIN rx : Finish(out, e - 1, out.close, SubSeq(rx, e + 1, Len(rx))) \/ Fail
    BY DEF ParseChunks
  <2>3. e \in 0 .. Len(rx) /\ e - 1 \in Nat
    BY <1>3, <2>1, <2>2, LenProperties
  <2>4. SubSeq(rx, e + 1, Len(rx)) \in Seq(Parts)
    BY <1>3, <2>1, <2>3, CutSeq
  <2> QED BY <2>1, <2>2, <2>3, <2>4 DEF Finish, Finishing, Failing
<1> QED BY <1>1, <1>2, <1>4, <1>5, <1>6, <1>7, <1>8 DEF Next, ClientStep

-----------------------------------------------------------------------------
(* A sequence that repeats one element.                                     *)
LEMMA Repeated ==
    ASSUME NEW S, NEW e \in S, NEW n \in Nat
    PROVE  /\ [i \in 1 .. n |-> e] \in Seq(S)
           /\ Len([i \in 1 .. n |-> e]) = n
           /\ \A i \in 1 .. n : [j \in 1 .. n |-> e][i] = e
<1> DEFINE q == [i \in 1 .. n |-> e]
<1>1. q \in [1 .. n -> S] /\ DOMAIN q = 1 .. n
  OBVIOUS
<1>2. q \in Seq(S)
  BY <1>1, SeqDef
<1>3. Len(q) \in Nat /\ 1 .. Len(q) = 1 .. n
  <2> HIDE DEF q
  <2> QED BY <1>1, <1>2, LenProperties
<1>4. Len(q) = n
  <2> HIDE DEF q
  <2> DEFINE l == Len(q)
  <2>1. l \in Nat /\ 1 .. l = 1 .. n
    BY <1>3
  <2> HIDE DEF l
  <2>2. l = n
    BY <2>1
  <2> QED BY <2>2 DEF l
<1> QED BY <1>2, <1>4

(* A head followed by a body.                                               *)
LEMMA HeadAndBody ==
    ASSUME NEW h \in Parts, NEW q \in Seq(Parts)
    PROVE  /\ <<h>> \o q \in Seq(Parts)
           /\ Len(<<h>> \o q) = Len(q) + 1
           /\ (<<h>> \o q)[1] = h
           /\ \A i \in 2 .. Len(q) + 1 : (<<h>> \o q)[i] = q[i - 1]
<1>1. <<h>> \in Seq(Parts) /\ Len(<<h>>) = 1 /\ <<h>>[1] = h
  OBVIOUS
<1>2. Len(q) \in Nat
  BY LenProperties
<1>3. /\ <<h>> \o q \in Seq(Parts)
      /\ Len(<<h>> \o q) = 1 + Len(q)
      /\ \A i \in 1 .. 1 + Len(q) : (<<h>> \o q)[i] = IF i <= 1 THEN <<h>>[i] ELSE q[i - 1]
  BY <1>1, ConcatProperties
<1> QED BY <1>1, <1>2, <1>3

(* What the server answers is a head and the body it announces.             *)
LEMMA ResponseShape ==
    ASSUME NEW r \in Requests, NEW s \in Responses(r)
    PROVE  /\ s \in Seq(Parts)
           /\ s[1] \in HeadsOf(r)
           /\ Len(s) = BodyLen(s[1]) + 1
           /\ \A i \in 1 .. Len(s) : s[i] = ResponsePart(s[1], i)
<1> DEFINE Body(h, q) ==
             /\ Len(q) = BodyLen(h)
             /\ \A i \in 1 .. Len(q) : q[i] = IF i <= h.size THEN DataOf(r) ELSE LastOf(r)
<1>1. \E h \in HeadsOf(r) : \E q \in Seq(Parts) : s = <<h>> \o q /\ Body(h, q)
  <2>1. \A f \in Framings, n \in 0 .. MaxBody, close \in BOOLEAN :
          /\ HeadOf(r, f, n, close) \in Heads
          /\ HeadOf(r, f, n, close).req = r /\ HeadOf(r, f, n, close).framing = f /\ HeadOf(r, f, n, close).size = n
    BY DEF HeadOf, Heads
  <2>2. ASSUME NEW close \in BOOLEAN, NEW n \in 0 .. MaxBody, NEW f \in Framings,
               f = "none" \/ method[r] = "HEAD", f = "none" => n = 0,
               s = <<HeadOf(r, f, n, close)>>
        PROVE  \E h \in HeadsOf(r) : \E q \in Seq(Parts) : s = <<h>> \o q /\ Body(h, q)
    <3> DEFINE h == HeadOf(r, f, n, close)
    <3>1. h \in HeadsOf(r) /\ BodyLen(h) = 0 /\ h \in Parts
      BY <2>1, <2>2 DEF HeadsOf, BodyLen, Parts
    <3> HIDE DEF h
    <3>2. <<>> \in Seq(Parts) /\ Len(<<>>) = 0 /\ <<h>> \o <<>> = <<h>>
      BY <3>1, EmptySeq
    <3>3. s = <<h>>
      BY <2>2 DEF h
    <3>4. Body(h, <<>>)
      BY <3>1, <3>2
    <3> HIDE DEF Body
    <3> QED BY <3>1, <3>2, <3>3, <3>4
  <2>3. ASSUME NEW close \in BOOLEAN, NEW n \in 0 .. MaxBody, NEW f \in BodyPhases, NEW q \in Seq(Parts),
               method[r] # "HEAD", Len(q) = IF f = "chunked" THEN n + 1 ELSE n,
               \A i \in 1 .. Len(q) : q[i] = IF i <= n THEN DataOf(r) ELSE LastOf(r),
               s = <<HeadOf(r, f, n, close)>> \o q
        PROVE  \E h \in HeadsOf(r) : \E p \in Seq(Parts) : s = <<h>> \o p /\ Body(h, p)
    <3> DEFINE h == HeadOf(r, f, n, close)
    <3>1. h \in HeadsOf(r) /\ BodyLen(h) = Len(q) /\ h.size = n
      BY <2>1, <2>3 DEF HeadsOf, BodyLen, BodyPhases
    <3> HIDE DEF h
    <3>2. s = <<h>> \o q
      BY <2>3 DEF h
    <3> QED BY <2>3, <3>1, <3>2
  <2> DEFINE Data(n) == [i \in 1 .. n |-> DataOf(r)]
  <2>4. ASSUME NEW n \in 0 .. MaxBody
        PROVE  /\ Data(n) \in Seq(Parts) /\ Len(Data(n)) = n /\ \A i \in 1 .. n : Data(n)[i] = DataOf(r)
               /\ Data(n) \o <<LastOf(r)>> \in Seq(Parts)
               /\ Len(Data(n) \o <<LastOf(r)>>) = n + 1
               /\ \A i \in 1 .. n + 1 : (Data(n) \o <<LastOf(r)>>)[i] = IF i <= n THEN DataOf(r) ELSE LastOf(r)
    <3>1. n \in Nat /\ DataOf(r) \in Parts /\ LastOf(r) \in Parts
      BY ExchangeAssumption, PartFacts
    <3>2. Data(n) \in Seq(Parts) /\ Len(Data(n)) = n /\ \A i \in 1 .. n : Data(n)[i] = DataOf(r)
      BY <3>1, Repeated
    <3>3. <<LastOf(r)>> \in Seq(Parts) /\ Len(<<LastOf(r)>>) = 1 /\ <<LastOf(r)>>[1] = LastOf(r)
      BY <3>1
    <3> HIDE DEF Data
    <3>4. /\ Data(n) \o <<LastOf(r)>> \in Seq(Parts)
          /\ Len(Data(n) \o <<LastOf(r)>>) = n + 1
          /\ \A i \in 1 .. n + 1 :
               (Data(n) \o <<LastOf(r)>>)[i] = IF i <= n THEN Data(n)[i] ELSE <<LastOf(r)>>[i - n]
      BY <3>2, <3>3, ConcatProperties
    <3>5. \A i \in 1 .. n + 1 : (Data(n) \o <<LastOf(r)>>)[i] = IF i <= n THEN DataOf(r) ELSE LastOf(r)
      BY <3>1, <3>2, <3>3, <3>4
    <3> QED BY <3>2, <3>4, <3>5
  <2>5. \/ \E close \in BOOLEAN : s = <<HeadOf(r, "none", 0, close)>>
        \/ \E n \in 0 .. MaxBody, close \in BOOLEAN :
             \/ s = <<HeadOf(r, "length", n, close)>> \o (IF method[r] = "HEAD" THEN <<>> ELSE Data(n))
             \/ s = <<HeadOf(r, "chunked", n, close)>> \o (IF method[r] = "HEAD" THEN <<>> ELSE Data(n) \o <<LastOf(r)>>)
             \/ s = <<HeadOf(r, "eof", n, close)>> \o (IF method[r] = "HEAD" THEN <<>> ELSE Data(n))
    BY DEF Responses
  <2>6. CASE \E close \in BOOLEAN : s = <<HeadOf(r, "none", 0, close)>>
    <3>1. PICK close \in BOOLEAN : s = <<HeadOf(r, "none", 0, close)>>
      BY <2>6
    <3>2. 0 \in 0 .. MaxBody /\ "none" \in Framings
      BY ExchangeAssumption DEF Framings
    <3> HIDE DEF Body
    <3> QED BY <2>2, <3>1, <3>2
  <2>7. ASSUME NEW n \in 0 .. MaxBody, NEW close \in BOOLEAN, NEW f \in BodyPhases,
               s = <<HeadOf(r, f, n, close)>> \o (IF method[r] = "HEAD" THEN <<>>
                                                 ELSE IF f = "chunked" THEN Data(n) \o <<LastOf(r)>>
                                                 ELSE Data(n))
        PROVE  \E h \in HeadsOf(r) : \E p \in Seq(Parts) : s = <<h>> \o p /\ Body(h, p)
    <3>1. f \in Framings /\ f # "none"
      BY DEF BodyPhases
    <3>2. n \in Nat
      BY ExchangeAssumption
    <3>3. CASE method[r] = "HEAD"
      <4> DEFINE h == HeadOf(r, f, n, close)
      <4>1. h \in Parts
        BY <2>1, <3>1 DEF Parts
      <4> HIDE DEF h
      <4>2. <<h>> \o <<>> = <<h>>
        BY <4>1
      <4>3. s = <<h>>
        BY <2>7, <3>3, <4>2 DEF h
      <4> QED BY <2>2, <3>1, <3>3, <4>3 DEF h
    <3>4. CASE method[r] # "HEAD"
      <4> DEFINE q == IF f = "chunked" THEN Data(n) \o <<LastOf(r)>> ELSE Data(n)
      <4> HIDE DEF Data
      <4>1. q \in Seq(Parts) /\ Len(q) = IF f = "chunked" THEN n + 1 ELSE n
        BY <2>4
      <4>2. \A i \in 1 .. Len(q) : q[i] = IF i <= n THEN DataOf(r) ELSE LastOf(r)
        BY <2>4, <3>2, <4>1
      <4>3. s = <<HeadOf(r, f, n, close)>> \o q
        BY <2>7, <3>4
      <4> HIDE DEF q, Body
      <4> QED BY <2>3, <3>4, <4>1, <4>2, <4>3
    <3> QED BY <3>3, <3>4
  <2> HIDE DEF Data, Body
  <2>8. CASE \E n \in 0 .. MaxBody, close \in BOOLEAN :
               \/ s = <<HeadOf(r, "length", n, close)>> \o (IF method[r] = "HEAD" THEN <<>> ELSE Data(n))
               \/ s = <<HeadOf(r, "chunked", n, close)>> \o (IF method[r] = "HEAD" THEN <<>> ELSE Data(n) \o <<LastOf(r)>>)
               \/ s = <<HeadOf(r, "eof", n, close)>> \o (IF method[r] = "HEAD" THEN <<>> ELSE Data(n))
    <3>1. PICK n \in 0 .. MaxBody, close \in BOOLEAN, f \in {"length", "chunked", "eof"} :
            s = <<HeadOf(r, f, n, close)>> \o (IF method[r] = "HEAD" THEN <<>>
                                              ELSE IF f = "chunked" THEN Data(n) \o <<LastOf(r)>>
                                              ELSE Data(n))
      BY <2>8
    <3>2. f \in BodyPhases
      BY DEF BodyPhases, Framings
    <3> QED BY <2>7, <3>1, <3>2
  <2> QED BY <2>5, <2>6, <2>8
<1>2. PICK h \in HeadsOf(r), q \in Seq(Parts) : s = <<h>> \o q /\ Body(h, q)
  BY <1>1
<1>3. h \in Heads /\ h \in Parts /\ h.size \in Nat /\ h.req = r
  BY PartFacts DEF HeadsOf, Parts
<1>4. /\ s \in Seq(Parts) /\ Len(s) = Len(q) + 1 /\ s[1] = h
      /\ \A i \in 2 .. Len(q) + 1 : s[i] = q[i - 1]
  BY <1>2, <1>3, HeadAndBody
<1>5. Len(q) \in Nat
  BY <1>2, LenProperties
<1>6. \A i \in 1 .. Len(s) : s[i] = ResponsePart(h, i)
  <2> SUFFICES ASSUME NEW i \in 1 .. Len(s) PROVE s[i] = ResponsePart(h, i)
    OBVIOUS
  <2>1. CASE i = 1
    BY <1>4, <2>1 DEF ResponsePart
  <2>2. CASE i # 1
    <3>1. i \in 2 .. Len(q) + 1 /\ i - 1 \in 1 .. Len(q)
      BY <1>4, <1>5, <2>2
    <3>2. s[i] = IF i - 1 <= h.size THEN DataOf(r) ELSE LastOf(r)
      BY <1>2, <1>4, <3>1
    <3> QED BY <1>3, <2>2, <3>1, <3>2 DEF ResponsePart
  <2> QED BY <2>1, <2>2
<1> QED BY <1>2, <1>4, <1>6

-----------------------------------------------------------------------------
LEMMA InitRetry == Init => RetryInv
<1> SUFFICES ASSUME Init PROVE RetryInv
  OBVIOUS
<1> USE ExchangeAssumption
<1>1. TypeOK
  <2>1. <<>> \in Seq(Parts) /\ <<>> \in Seq(Requests)
    BY EmptySeq
  <2>2. /\ to_server \in [Conns -> Seq(Requests)] /\ to_client \in [Conns -> Seq(Parts)]
        /\ net \in [Conns -> {"unused", "open", "fin", "reset"}]
    BY <2>1 DEF Init
  <2>3. /\ method \in [Requests -> Methods \cup {"none"}]
        /\ result \in [Requests -> Answers \cup {Pending, Failure}]
        /\ executed \in [Requests -> Nat]
    BY DEF Init
  <2>4. fd = NoConn /\ rx = <<>> /\ pc = "ready" /\ req = 0 /\ reused = FALSE /\ out = NoResponse
    BY DEF Init
  <2>5. req \in 0 .. N
    BY <2>4
  <2>8. reused \in BOOLEAN
    BY <2>4
  <2>6. pc \notin BodyPhases /\ pc \in {"ready", "attempt", "write"} \cup Reading
    BY <2>4 DEF BodyPhases, Framings
  <2>7. out \in Heads \cup {NoResponse} /\ fd \in Conns \cup {NoConn}
    BY <2>4
  <2> QED BY <2>1, <2>2, <2>3, <2>4, <2>5, <2>6, <2>7, <2>8 DEF TypeOK
<1>2. AttemptInv /\ ResultInv
  BY DEF Init, AttemptInv, ResultInv, NoConn, Reading, BodyPhases, Framings, Requests
<1>3. ConnInv
  BY EmptySeq DEF Init, ConnInv
<1>4. SentInv
  <2> SUFFICES ASSUME NEW r \in Requests PROVE executed[r] + Cardinality(Waiting(r)) <= Allowance(r)
    BY DEF SentInv
  <2>1. Waiting(r) = {} /\ executed[r] = 0
    BY EmptySeq DEF Init, Waiting, Queued
  <2>2. Allowance(r) = 0
    BY DEF Init, Allowance, Requests
  <2> QED BY <2>1, <2>2, FS_EmptySet
<1> QED BY <1>1, <1>2, <1>3, <1>4 DEF RetryInv

LEMMA TypeStep ==
    ASSUME TypeOK, AttemptInv, [Next]_vars
    PROVE  TypeOK'
<1> USE ExchangeAssumption, PartFacts, EmptySeq
<1>1. ASSUME NEW m \in Methods, Call(m) PROVE TypeOK'
  BY <1>1 DEF Call, TypeOK, Requests, Reading, BodyPhases, Framings
<1>2. CASE UseConnection
  BY <1>2 DEF UseConnection, TypeOK, Reading, BodyPhases, Framings
<1>3. CASE Dial
  <2>1. req \in Conns /\ rx' = <<>> /\ rx' \in Seq(Parts)
    BY <1>3 DEF Dial, TypeOK, AttemptInv, Conns
  <2> QED BY <1>3, <2>1 DEF Dial, TypeOK, Reading, BodyPhases, Framings
<1>4. CASE DialFails
  BY <1>4 DEF DialFails, Return, TypeOK, Reading, BodyPhases, Framings
<1>5. CASE Write
  <2>1. to_server' \in [Conns -> Seq(Requests)]
    <3>1. fd \in Conns /\ req \in Requests
      BY <1>5 DEF Write, TypeOK, AttemptInv, Requests
    <3>2. Append(to_server[fd], req) \in Seq(Requests)
      BY <3>1, AppendProperties DEF TypeOK
    <3> QED BY <1>5, <3>1, <3>2 DEF Write, TypeOK
  <2> QED BY <1>5, <2>1 DEF Write, TypeOK, Reading, BodyPhases, Framings
<1>6. CASE Failing
  <2>1. fd \in Conns
    BY <1>6 DEF Failing, TypeOK, AttemptInv
  <2>2. rx' \in Seq(Parts) /\ to_client' \in [Conns -> Seq(Parts)] /\ fd' = NoConn
    BY <1>6, <2>1 DEF Failing, Fail, CloseConn, TypeOK
  <2> QED BY <1>6, <2>2 DEF Failing, Fail, CloseConn, Return, ServerIdle, TypeOK, Reading, BodyPhases, Framings
<1>7. CASE Finishing
  <2>1. fd \in Conns
    BY <1>7 DEF Finishing, TypeOK, AttemptInv
  <2>2. rx' \in Seq(Parts) /\ to_client' \in [Conns -> Seq(Parts)] /\ fd' \in {fd, NoConn}
    <3>1. CASE CloseConn
      BY <2>1, <3>1 DEF CloseConn, TypeOK
    <3>2. ASSUME NEW rest \in Seq(Parts), KeepConn(rest)
          PROVE  rx' \in Seq(Parts) /\ to_client' = to_client /\ fd' = fd
      BY <3>2 DEF KeepConn
    <3> QED BY <1>7, <3>1, <3>2 DEF Finishing, TypeOK
  <2>3. PICK head \in Heads, got \in Nat : Return(Success(head, got))
    BY <1>7 DEF Finishing
  <2>4. /\ result' \in [Requests -> Answers \cup {Pending, Failure}]
        /\ pc' = "ready" /\ reused' = FALSE /\ out' = NoResponse
    BY <2>3 DEF Return, TypeOK
  <2> QED BY <1>7, <2>2, <2>4 DEF Finishing, ServerIdle, TypeOK, Reading, BodyPhases, Framings
<1>8. CASE Consuming
  <2>1. to_client' \in [Conns -> Seq(Parts)]
    BY <1>8 DEF Consuming, TypeOK
  <2> QED BY <1>8, <2>1 DEF Consuming, ServerIdle, TypeOK, Reading, BodyPhases, Framings
<1>9. ASSUME NEW c \in Conns, Execute(c) PROVE TypeOK'
  <2>1. to_server[c] \in Seq(Requests) /\ to_server[c] # <<>> /\ to_server[c][1] \in Requests /\ Tail(to_server[c]) \in Seq(Requests)
    <3>1. to_server[c] \in Seq(Requests) /\ to_server[c] # <<>>
      BY <1>9 DEF Execute, TypeOK
    <3>2. 1 \in 1 .. Len(to_server[c])
      BY <3>1
    <3> QED BY <3>1, <3>2, HeadTailProperties, ElementOfSeq
  <2>2. to_server' \in [Conns -> Seq(Requests)] /\ executed' \in [Requests -> Nat]
    BY <1>9, <2>1 DEF Execute, TypeOK
  <2>3. to_client' \in [Conns -> Seq(Parts)]
    <3> DEFINE r == to_server[c][1]
    <3>1. PICK final \in Responses(r), early \in {<<>>} \cup (IF Interim THEN {<<HeadOf(r, "none", 0, FALSE)>>} ELSE {}) :
            to_client' = IF c = fd THEN [to_client EXCEPT ![c] = @ \o early \o final] ELSE to_client
      BY <1>9 DEF Execute
    <3>2. final \in Seq(Parts)
      BY <2>1, ResponseShape
    <3>3. early \in Seq(Parts)
      <4>1. HeadOf(r, "none", 0, FALSE) \in Heads
        BY <2>1 DEF HeadOf, Heads, Framings
      <4>2. early = <<>> \/ early = <<HeadOf(r, "none", 0, FALSE)>>
        OBVIOUS
      <4>3. <<HeadOf(r, "none", 0, FALSE)>> \in Seq(Parts)
        <5> DEFINE h == HeadOf(r, "none", 0, FALSE)
        <5>1. h \in Parts
          BY <4>1 DEF Parts
        <5> HIDE DEF h
        <5>2. <<h>> \in Seq(Parts)
          BY <5>1
        <5> QED BY <5>2 DEF h
      <4> QED BY <4>2, <4>3, EmptySeq
    <3>4. (to_client[c] \o early) \o final \in Seq(Parts)
      BY <3>2, <3>3, ConcatProperties DEF TypeOK
    <3> QED BY <3>1, <3>4 DEF TypeOK
  <2> QED BY <1>9, <2>2, <2>3 DEF Execute, clientVars, TypeOK, Reading, BodyPhases, Framings
<1>10. ASSUME NEW c \in Conns, Cut(c) PROVE TypeOK'
  <2>1. PICK k \in 0 .. Len(to_client[c]) : to_client' = [to_client EXCEPT ![c] = SubSeq(@, 1, k)]
    BY <1>10 DEF Cut
  <2>2. SubSeq(to_client[c], 1, k) \in Seq(Parts)
    BY CutSeq DEF TypeOK
  <2> QED BY <1>10, <2>1, <2>2 DEF Cut, clientVars, TypeOK, Reading, BodyPhases, Framings
<1>11. CASE UNCHANGED vars
  BY <1>11 DEF vars, TypeOK, Reading, BodyPhases, Framings
<1> QED BY StepKinds, <1>1, <1>2, <1>3, <1>4, <1>5, <1>6, <1>7, <1>8, <1>9, <1>10, <1>11

-----------------------------------------------------------------------------
LEMMA AttemptStep ==
    ASSUME TypeOK, AttemptInv, [Next]_vars
    PROVE  AttemptInv'
<1> USE ExchangeAssumption
<1>0. req \in Nat /\ fd \in Nat /\ "ready" \notin Reading /\ "attempt" \notin Reading /\ "write" \notin Reading
  BY DEF TypeOK, Conns, NoConn, Reading, BodyPhases, Framings
<1>1. ASSUME NEW m \in Methods, Call(m) PROVE AttemptInv'
  <2>1. req + 1 \in Requests
    BY <1>0, <1>1 DEF Call, Requests, TypeOK
  <2> QED BY <1>0, <1>1, <2>1 DEF Call, AttemptInv, TypeOK, Requests, HasBody
<1>2. CASE UseConnection
  BY <1>0, <1>2 DEF UseConnection, AttemptInv, HasBody
<1>3. CASE Dial
  BY <1>0, <1>3 DEF Dial, AttemptInv, HasBody, NoConn
<1>4. CASE DialFails
  BY <1>0, <1>4 DEF DialFails, Return, AttemptInv, HasBody
<1>5. CASE Write
  BY <1>0, <1>5 DEF Write, AttemptInv, HasBody
<1>6. CASE Failing
  <2>1. pc # "ready" /\ req > 0
    BY <1>0, <1>6 DEF Failing, AttemptInv
  <2> QED BY <1>0, <1>6, <2>1 DEF Failing, Fail, CloseConn, Return, ServerIdle, AttemptInv, HasBody, NoConn
<1>7. CASE Finishing
  <2>1. pc' = "ready" /\ reused' = FALSE /\ fd' \in {fd, NoConn} /\ UNCHANGED <<req, method>>
    BY <1>7 DEF Finishing, CloseConn, KeepConn, Return, ServerIdle
  <2> QED BY <1>0, <2>1 DEF AttemptInv, NoConn
<1>8. CASE Consuming
  <2>1. pc # "ready" /\ pc # "attempt" /\ pc' # "ready" /\ pc' # "attempt"
    BY <1>0, <1>8 DEF Consuming
  <2> QED BY <1>8, <2>1 DEF Consuming, ServerIdle, AttemptInv
<1>9. ASSUME NEW c \in Conns, Execute(c) \/ Cut(c) PROVE AttemptInv'
  <2>1. UNCHANGED clientVars
    BY <1>9 DEF Execute, Cut
  <2> QED BY <2>1 DEF clientVars, AttemptInv, HasBody
<1>10. CASE UNCHANGED vars
  BY <1>10 DEF vars, AttemptInv, HasBody
<1> QED BY StepKinds, <1>1, <1>2, <1>3, <1>4, <1>5, <1>6, <1>7, <1>8, <1>9, <1>10

LEMMA ResultStep ==
    ASSUME TypeOK, AttemptInv, ResultInv, [Next]_vars
    PROVE  ResultInv'
<1> USE ExchangeAssumption
<1>0. req \in Nat /\ "ready" \notin Reading
  BY DEF TypeOK, Reading, BodyPhases, Framings
<1>1. /\ Failure # Pending
      /\ \A h \in Heads, n \in Nat : Success(h, n) # Pending
  BY DEF Failure, Pending, Success
<1>2. ASSUME NEW res, res # Pending, Return(res), UNCHANGED req, pc # "ready" PROVE ResultInv'
  <2>1. req \in Requests
    BY <1>0, <1>2 DEF AttemptInv, Requests, TypeOK
  <2> QED BY <1>0, <1>2, <2>1 DEF Return, ResultInv, Requests, TypeOK
<1>3. ASSUME NEW m \in Methods, Call(m) PROVE ResultInv'
  BY <1>0, <1>3 DEF Call, ResultInv, Requests
<1>4. CASE UseConnection \/ Dial \/ Write
  BY <1>0, <1>4 DEF UseConnection, Dial, Write, ResultInv
<1>5. CASE DialFails
  BY <1>1, <1>2, <1>5 DEF DialFails
<1>6. CASE Failing
  <2>1. pc # "ready" /\ UNCHANGED req
    BY <1>0, <1>6 DEF Failing, ServerIdle
  <2>2. CASE pc' = "attempt" /\ UNCHANGED result
    BY <2>1, <2>2 DEF ResultInv
  <2> QED BY <1>1, <1>2, <1>6, <2>1, <2>2 DEF Failing, Fail
<1>7. CASE Finishing
  <2>1. pc # "ready" /\ UNCHANGED req
    BY <1>0, <1>7 DEF Finishing, ServerIdle
  <2> QED BY <1>1, <1>2, <1>7, <2>1 DEF Finishing
<1>8. CASE Consuming
  BY <1>0, <1>8 DEF Consuming, ServerIdle, ResultInv
<1>9. ASSUME NEW c \in Conns, Execute(c) \/ Cut(c) PROVE ResultInv'
  <2>1. UNCHANGED clientVars
    BY <1>9 DEF Execute, Cut
  <2> QED BY <2>1 DEF clientVars, ResultInv
<1>10. CASE UNCHANGED vars
  BY <1>10 DEF vars, ResultInv
<1> QED BY StepKinds, <1>3, <1>4, <1>5, <1>6, <1>7, <1>8, <1>9, <1>10

-----------------------------------------------------------------------------
LEMMA QueueFacts ==
    ASSUME NEW r \in Requests
    PROVE  /\ IsFiniteSet(Waiting(r)) /\ Cardinality(Waiting(r)) \in Nat
           /\ Cardinality(Waiting(r)) = 0 => \A c \in Conns : ~Queued(r, c)
<1>1. IsFiniteSet(Conns)
  BY ExchangeAssumption, FS_Interval DEF Conns
<1>2. IsFiniteSet(Waiting(r))
  BY <1>1, FS_Subset DEF Waiting
<1> QED BY <1>2, FS_CardinalityType, FS_EmptySet DEF Waiting

(* A request that may not have been sent waits nowhere.                      *)
LEMMA NotSent ==
    ASSUME TypeOK, SentInv, NEW r \in Requests, Allowance(r) = 0
    PROVE  executed[r] = 0 /\ \A c \in Conns : ~Queued(r, c)
<1>1. executed[r] \in Nat /\ executed[r] + Cardinality(Waiting(r)) <= 0
  BY DEF TypeOK, SentInv
<1> QED BY <1>1, QueueFacts

LEMMA ConnStep ==
    ASSUME TypeOK, AttemptInv, ConnInv, SentInv, [Next]_vars
    PROVE  ConnInv'
<1> USE ExchangeAssumption
<1>0. /\ req \in Nat /\ Conns \subseteq Nat
      /\ "ready" \notin Reading /\ "attempt" \notin Reading /\ "write" \notin Reading
  BY DEF TypeOK, Conns, Reading, BodyPhases, Framings
<1>1. ASSUME NEW m \in Methods, Call(m) PROVE ConnInv'
  <2>1. \A c \in Conns : Undialled(c)' => Undialled(c)
    BY <1>0, <1>1 DEF Call, Undialled
  <2> QED BY <1>1, <2>1 DEF Call, ConnInv
<1>2. CASE UseConnection
  BY <1>0, <1>2 DEF UseConnection, ConnInv, Undialled
<1>3. CASE Dial
  <2>1. req \in Conns /\ Undialled(req)
    BY <1>3 DEF Dial, AttemptInv, TypeOK, Conns, Undialled
  <2>2. to_server[req] = <<>> /\ \A c \in Conns : to_client[c] = <<>>
    BY <1>3, <2>1 DEF Dial, ConnInv, NoConn, Conns
  <2>3. \A c \in Conns : net'[c] = IF c = req THEN "open" ELSE net[c]
    BY <1>3 DEF Dial, TypeOK
  <2>4. \A c \in Conns : Undialled(c)' => Undialled(c) /\ c # req
    BY <1>0, <1>3 DEF Dial, Undialled
  <2>5. UNCHANGED <<to_server, to_client>> /\ fd' = req
    BY <1>3 DEF Dial
  <2> QED BY <2>1, <2>2, <2>3, <2>4, <2>5 DEF ConnInv
<1>4. CASE DialFails
  BY <1>0, <1>4 DEF DialFails, Return, ConnInv, Undialled
<1>5. CASE Write
  <2>1. fd \in Conns /\ req \in Requests
    BY <1>0, <1>5 DEF Write, AttemptInv, TypeOK, Requests
  <2>2. /\ \A c \in Conns : Undialled(c)' <=> Undialled(c)
        /\ pc' = "head" /\ UNCHANGED <<fd, req, reused, to_client, net>>
    BY <1>5 DEF Write, Undialled
  <2>3. ~Queued(req, fd)
    <3>1. CASE reused
      <4>1. Allowance(req) = 0
        BY <1>5, <3>1 DEF Write, Allowance, Fresh
      <4> QED BY <2>1, <4>1, NotSent
    <3>2. CASE ~reused
      BY <1>5, <3>2 DEF Write, ConnInv, Queued
    <3> QED BY <3>1, <3>2
  <2>4. CASE net[fd] # "open"
    BY <1>5, <2>2, <2>4 DEF Write, ConnInv
  <2>5. CASE net[fd] = "open"
    <3>1. \A c \in Conns : to_server'[c] = IF c = fd THEN Append(to_server[fd], req) ELSE to_server[c]
      BY <1>5, <2>5 DEF Write, TypeOK
    <3>2. to_server[fd] \in Seq(Requests)
      BY <2>1 DEF TypeOK
    <3> DEFINE q == Append(to_server[fd], req)
    <3>3. /\ Len(q) = Len(to_server[fd]) + 1 /\ q[Len(to_server[fd]) + 1] = req
          /\ \A i \in 1 .. Len(to_server[fd]) : q[i] = to_server[fd][i]
          /\ Len(to_server[fd]) \in Nat
      BY <2>1, <3>2, AppendProperties, LenProperties
    <3>4. \A i, j \in 1 .. Len(q) : q[i] = q[j] => i = j
      <4>1. \A i, j \in 1 .. Len(to_server[fd]) : to_server[fd][i] = to_server[fd][j] => i = j
        BY <2>1 DEF ConnInv
      <4>2. \A i \in 1 .. Len(to_server[fd]) : to_server[fd][i] # req
        BY <2>3 DEF Queued
      <4> HIDE DEF q
      <4> QED BY <3>3, <4>1, <4>2
    <3> HIDE DEF q
    <3>5. \A c \in Conns : to_server'[c] = IF c = fd THEN q ELSE to_server[c]
      BY <3>1 DEF q
    <3> QED BY <2>1, <2>2, <2>5, <3>4, <3>5 DEF ConnInv
  <2> QED BY <2>4, <2>5
<1>6. CASE Failing
  <2>1. fd \in Conns /\ pc # "attempt" /\ pc # "ready"
    BY <1>0, <1>6 DEF Failing, AttemptInv, TypeOK
  <2>2. /\ \A c \in Conns : to_client'[c] = <<>>
        /\ fd' = NoConn /\ UNCHANGED <<req, to_server, net>> /\ pc' # "write"
    BY <1>6, <2>1 DEF Failing, Fail, CloseConn, Return, ServerIdle, ConnInv, TypeOK
  <2>3. \A c \in Conns : Undialled(c)' => Undialled(c)
    BY <1>6, <2>1 DEF Failing, Fail, Return, ServerIdle, Undialled
  <2> QED BY <2>2, <2>3 DEF ConnInv
<1>7. CASE Finishing
  <2>1. fd \in Conns /\ pc # "attempt" /\ pc # "ready"
    BY <1>0, <1>7 DEF Finishing, AttemptInv, TypeOK
  <2>2. pc' = "ready" /\ reused' = FALSE /\ UNCHANGED <<req, to_server, net>>
    BY <1>7 DEF Finishing, Return, ServerIdle
  <2>3. \A c \in Conns : Undialled(c)' => Undialled(c)
    BY <1>0, <2>2 DEF Undialled
  <2>4. CASE CloseConn
    <3>1. fd' = NoConn /\ \A c \in Conns : to_client'[c] = <<>>
      BY <2>1, <2>4 DEF CloseConn, ConnInv, TypeOK
    <3> QED BY <2>2, <2>3, <3>1 DEF ConnInv
  <2>5. CASE UNCHANGED <<fd, to_client>>
    BY <2>2, <2>3, <2>5 DEF ConnInv
  <2> QED BY <1>7, <2>4, <2>5 DEF Finishing, KeepConn
<1>8. CASE Consuming
  <2>1. fd \in Conns /\ pc # "attempt" /\ pc' # "attempt" /\ pc' # "write" /\ net[fd] # "unused"
    BY <1>0, <1>8 DEF Consuming, AttemptInv, TypeOK, ConnInv
  <2>2. /\ \A c \in Conns : c # fd => to_client'[c] = to_client[c]
        /\ UNCHANGED <<fd, req, reused, to_server, net>>
    BY <1>8 DEF Consuming, ServerIdle, TypeOK
  <2>3. \A c \in Conns : Undialled(c)' => Undialled(c)
    BY <2>1, <2>2 DEF Undialled
  <2> QED BY <2>1, <2>2, <2>3 DEF ConnInv
<1>9. ASSUME NEW c \in Conns, Execute(c) PROVE ConnInv'
  <2>1. /\ UNCHANGED <<clientVars, net>> /\ net[c] = "open" /\ to_server[c] # <<>>
        /\ \A d \in Conns : to_server'[d] = IF d = c THEN Tail(to_server[c]) ELSE to_server[d]
        /\ \A d \in Conns : to_client'[d] # to_client[d] => d = c /\ d = fd
    BY <1>9 DEF Execute, TypeOK
  <2>2. to_server[c] \in Seq(Requests)
    BY DEF TypeOK
  <2>3. /\ Len(Tail(to_server[c])) = Len(to_server[c]) - 1 /\ Len(to_server[c]) \in Nat
        /\ \A i \in 1 .. Len(Tail(to_server[c])) : Tail(to_server[c])[i] = to_server[c][i + 1]
    BY <2>1, <2>2, HeadTailProperties, LenProperties
  <2>4. \A i, j \in 1 .. Len(Tail(to_server[c])) : Tail(to_server[c])[i] = Tail(to_server[c])[j] => i = j
    <3>1. \A i, j \in 1 .. Len(to_server[c]) : to_server[c][i] = to_server[c][j] => i = j
      BY DEF ConnInv
    <3> SUFFICES ASSUME NEW i \in 1 .. Len(Tail(to_server[c])), NEW j \in 1 .. Len(Tail(to_server[c])),
                        Tail(to_server[c])[i] = Tail(to_server[c])[j]
                 PROVE  i = j
      OBVIOUS
    <3>2. i + 1 \in 1 .. Len(to_server[c]) /\ j + 1 \in 1 .. Len(to_server[c])
      BY <2>3
    <3>3. i + 1 = j + 1
      BY <2>3, <3>1, <3>2
    <3> QED BY <2>3, <3>3
  <2>5. \A d \in Conns : Undialled(d)' <=> Undialled(d)
    BY <2>1 DEF Undialled, clientVars
  <2>6. pc = "write" => fd \in Conns
    BY DEF AttemptInv, TypeOK
  <2>7. UNCHANGED <<fd, pc, reused, net>>
    BY <2>1 DEF clientVars
  <2>8. (\A d \in Conns : Undialled(d) => net[d] = "unused")'
    BY <2>5, <2>7 DEF ConnInv
  <2>9. (\A d \in Conns : net[d] = "unused" => to_server[d] = <<>> /\ to_client[d] = <<>>)'
    BY <2>1, <2>7 DEF ConnInv
  <2>10. (\A d \in Conns : d # fd => to_client[d] = <<>>)'
    BY <2>1, <2>7 DEF ConnInv
  <2>11. (pc = "write" /\ ~reused => to_server[fd] = <<>>)'
    BY <2>1, <2>6, <2>7 DEF ConnInv
  <2>12. (\A d \in Conns : \A i, j \in 1 .. Len(to_server[d]) : to_server[d][i] = to_server[d][j] => i = j)'
    BY <2>1, <2>4 DEF ConnInv
  <2> QED BY <2>7, <2>8, <2>9, <2>10, <2>11, <2>12 DEF ConnInv
<1>10. ASSUME NEW c \in Conns, Cut(c) PROVE ConnInv'
  <2>1. /\ UNCHANGED clientVars /\ net[c] = "open"
        /\ \A d \in Conns : to_server'[d] = IF d = c THEN <<>> ELSE to_server[d]
        /\ net'[c] # "unused" /\ \A d \in Conns : d # c => net'[d] = net[d]
    BY <1>10 DEF Cut, TypeOK
  <2>2. \A d \in Conns : to_client[d] = <<>> => to_client'[d] = <<>>
    <3>1. PICK k \in 0 .. Len(to_client[c]) : to_client' = [to_client EXCEPT ![c] = SubSeq(@, 1, k)]
      BY <1>10 DEF Cut
    <3>2. to_client[c] = <<>> => SubSeq(to_client[c], 1, k) = <<>>
      BY SubSeqEmpty
    <3> QED BY <3>1, <3>2 DEF TypeOK
  <2>3. \A d \in Conns : Undialled(d)' <=> Undialled(d)
    BY <2>1 DEF Undialled, clientVars
  <2>4. \A d \in Conns : Undialled(d) => d # c
    BY <2>1 DEF ConnInv
  <2>5. pc = "write" => fd \in Conns
    BY DEF AttemptInv, TypeOK
  <2>6. UNCHANGED <<fd, pc, reused>>
    BY <2>1 DEF clientVars
  <2>7. (\A d \in Conns : Undialled(d) => net[d] = "unused")'
    BY <2>1, <2>3, <2>4 DEF ConnInv
  <2>8. (\A d \in Conns : net[d] = "unused" => to_server[d] = <<>> /\ to_client[d] = <<>>)'
    BY <2>1, <2>2 DEF ConnInv
  <2>9. (\A d \in Conns : d # fd => to_client[d] = <<>>)'
    BY <2>2, <2>6 DEF ConnInv
  <2>10. (fd # NoConn => net[fd] # "unused") /\ (pc = "write" /\ ~reused => to_server[fd] = <<>>)
    BY DEF ConnInv
  <2>11. (fd # NoConn => net[fd] # "unused")'
    BY <2>1, <2>6, <2>10 DEF TypeOK
  <2>12. (pc = "write" /\ ~reused => to_server[fd] = <<>>)'
    BY <2>1, <2>5, <2>6, <2>10
  <2>13. \A i, j \in 1 .. Len(<<>>) : i = j
    BY EmptySeq
  <2>14. (\A d \in Conns : \A i, j \in 1 .. Len(to_server[d]) : to_server[d][i] = to_server[d][j] => i = j)'
    BY <2>1, <2>13 DEF ConnInv
  <2> QED BY <2>7, <2>8, <2>9, <2>11, <2>12, <2>14 DEF ConnInv
<1>11. CASE UNCHANGED vars
  BY <1>11 DEF vars, ConnInv, Undialled
<1> QED BY StepKinds, <1>1, <1>2, <1>3, <1>4, <1>5, <1>6, <1>7, <1>8, <1>9, <1>10, <1>11

-----------------------------------------------------------------------------
LEMMA SentStep ==
    ASSUME TypeOK, AttemptInv, ConnInv, SentInv, [Next]_vars
    PROVE  SentInv'
<1> USE ExchangeAssumption
<1>0. /\ req \in Nat /\ Requests \subseteq Nat
      /\ "ready" \notin Reading /\ "attempt" \notin Reading /\ "write" \notin Reading
  BY DEF TypeOK, Requests, Reading, BodyPhases, Framings
<1>1. /\ \A r \in Requests : Limit(r) \in {1, 2} /\ Allowance(r) \in 0 .. 2 /\ Allowance(r) <= Limit(r)
      /\ \A r \in Requests : Limit(r)' \in {1, 2} /\ Allowance(r)' \in 0 .. 2 /\ Allowance(r)' <= Limit(r)'
  <2>1. \A r \in Requests : Limit(r) \in {1, 2} /\ Limit(r)' \in {1, 2}
    BY DEF Limit
  <2>2. \A r \in Requests : Allowance(r) \in {0, Limit(r) - 1, 1, Limit(r)}
    BY DEF Allowance
  <2>3. \A r \in Requests : Allowance(r)' \in {0, Limit(r)' - 1, 1, Limit(r)'}
    BY DEF Allowance
  <2> HIDE DEF Allowance, Limit
  <2> QED BY <2>1, <2>2, <2>3
<1>2. ASSUME UNCHANGED <<to_server, executed>>, \A r \in Requests : Allowance(r) <= Allowance(r)'
      PROVE  SentInv'
  <2> SUFFICES ASSUME NEW r \in Requests PROVE (executed[r] + Cardinality(Waiting(r)) <= Allowance(r))'
    BY DEF SentInv
  <2>1. Waiting(r)' = Waiting(r)
    BY <1>2 DEF Waiting, Queued
  <2>2. executed[r] \in Nat /\ Cardinality(Waiting(r)) \in Nat /\ executed[r] + Cardinality(Waiting(r)) <= Allowance(r)
    BY QueueFacts DEF TypeOK, SentInv
  <2>3. executed'[r] = executed[r] /\ Allowance(r) <= Allowance(r)' /\ Allowance(r) \in Nat /\ Allowance(r)' \in Nat
    BY <1>1, <1>2
  <2> QED BY <2>1, <2>2, <2>3
<1>3. ASSUME UNCHANGED <<req, method>> PROVE \A r \in Requests : Limit(r)' = Limit(r)
  BY <1>3 DEF Limit, HasBody
<1>4. ASSUME UNCHANGED <<to_server, executed, req, method>>, pc' = "ready" PROVE SentInv'
  <2>1. \A r \in Requests : Allowance(r)' = IF r > req THEN 0 ELSE Limit(r)
    BY <1>0, <1>3, <1>4 DEF Allowance, Fresh
  <2>2. \A r \in Requests : r > req => Allowance(r) = 0
    BY DEF Allowance
  <2> QED BY <1>0, <1>1, <1>2, <1>4, <2>1, <2>2
<1>5. ASSUME NEW m \in Methods, Call(m) PROVE SentInv'
  <2>1. \A r \in Requests : r <= req => Allowance(r)' = Allowance(r)
    BY <1>0, <1>5 DEF Call, Allowance, Fresh, Limit, HasBody, TypeOK
  <2>2. \A r \in Requests : r > req => Allowance(r) = 0
    BY DEF Allowance
  <2>3. UNCHANGED <<to_server, executed>>
    BY <1>5 DEF Call
  <2> QED BY <1>0, <1>1, <1>2, <2>1, <2>2, <2>3
<1>6. CASE UseConnection
  <2>1. \A r \in Requests : Allowance(r)' = Allowance(r)
    BY <1>0, <1>3, <1>6 DEF UseConnection, Allowance, Fresh, AttemptInv
  <2> QED BY <1>1, <1>2, <1>6, <2>1 DEF UseConnection
<1>7. CASE Dial
  <2>1. \A r \in Requests : Allowance(r)' = Allowance(r) \/ Allowance(r) = 0
    BY <1>0, <1>3, <1>7 DEF Dial, Allowance, Fresh
  <2> QED BY <1>1, <1>2, <1>7, <2>1 DEF Dial
<1>8. CASE DialFails
  BY <1>4, <1>8 DEF DialFails, Return
<1>9. CASE Failing
  <2>1. UNCHANGED <<to_server, executed, req, method>> /\ pc # "attempt"
    BY <1>0, <1>9 DEF Failing, ServerIdle
  <2>2. CASE pc' = "attempt" /\ reused' = reused /\ reused /\ ~HasBody(req)
    <3>1. \A r \in Requests : r # req => Allowance(r)' = Allowance(r)
      BY <1>3, <2>1 DEF Allowance
    <3>2. Limit(req) = 2 /\ Limit(req)' = 2
      BY <2>1, <2>2 DEF Limit, HasBody
    <3>3. Allowance(req) <= 1
      BY <1>0, <1>9, <2>2, <3>2 DEF Failing, Allowance, Fresh
    <3>4. Allowance(req)' = 1
      BY <1>0, <2>1, <2>2, <3>2 DEF Allowance, Fresh
    <3> QED BY <1>1, <1>2, <2>1, <3>1, <3>3, <3>4
  <2> QED BY <1>4, <1>9, <2>1, <2>2 DEF Failing, Fail, Return
<1>10. CASE Finishing
  BY <1>4, <1>10 DEF Finishing, Return, ServerIdle
<1>11. CASE Consuming
  <2>1. UNCHANGED <<to_server, executed, req, method, reused>> /\ pc \in Reading /\ pc' \in Reading
    BY <1>11 DEF Consuming, ServerIdle
  <2>2. \A r \in Requests : Allowance(r)' = Allowance(r)
    BY <1>0, <1>3, <2>1 DEF Allowance, Fresh
  <2> QED BY <1>1, <1>2, <2>1, <2>2
<1>12. CASE Write
  <2>1. fd \in Conns /\ req \in Requests /\ to_server[fd] \in Seq(Requests)
    BY <1>0, <1>12 DEF Write, AttemptInv, TypeOK, Requests
  <2>2. pc = "write" /\ pc' = "head" /\ UNCHANGED <<req, method, reused, executed>>
    BY <1>12 DEF Write
  <2>3. \A r \in Requests : Allowance(r)' = IF r = req THEN Allowance(r) + 1 ELSE Allowance(r)
    BY <1>0, <1>1, <1>3, <2>2 DEF Allowance, Fresh, Reading
  <2>4. CASE net[fd] # "open"
    BY <1>1, <1>2, <1>12, <2>2, <2>3, <2>4 DEF Write
  <2>5. CASE net[fd] = "open"
    <3>1. \A c \in Conns : to_server'[c] = IF c = fd THEN Append(to_server[fd], req) ELSE to_server[c]
      BY <1>12, <2>5 DEF Write, TypeOK
    <3>2. \A r \in Requests, c \in Conns : Queued(r, c)' => Queued(r, c) \/ (r = req /\ c = fd)
      <4>1. /\ Len(Append(to_server[fd], req)) = Len(to_server[fd]) + 1
            /\ Append(to_server[fd], req)[Len(to_server[fd]) + 1] = req
            /\ \A i \in 1 .. Len(to_server[fd]) : Append(to_server[fd], req)[i] = to_server[fd][i]
            /\ Len(to_server[fd]) \in Nat
        BY <2>1, AppendProperties, LenProperties
      <4> SUFFICES ASSUME NEW r \in Requests, NEW c \in Conns, Queued(r, c)', c = fd
                   PROVE  Queued(r, c) \/ r = req
        BY <3>1 DEF Queued
      <4>2. PICK i \in 1 .. Len(to_server[fd]) + 1 : Append(to_server[fd], req)[i] = r
        BY <3>1, <4>1 DEF Queued
      <4>3. CASE i = Len(to_server[fd]) + 1
        BY <4>1, <4>2, <4>3
      <4>4. CASE i \in 1 .. Len(to_server[fd])
        BY <4>1, <4>2, <4>4 DEF Queued
      <4> QED BY <4>1, <4>3, <4>4
    <3> SUFFICES ASSUME NEW r \in Requests PROVE (executed[r] + Cardinality(Waiting(r)) <= Allowance(r))'
      BY DEF SentInv
    <3>3. /\ executed'[r] = executed[r] /\ executed[r] \in Nat
          /\ executed[r] + Cardinality(Waiting(r)) <= Allowance(r)
      BY <2>2 DEF TypeOK, SentInv
    <3>4. IsFiniteSet(Waiting(r)) /\ Cardinality(Waiting(r)) \in Nat
      BY QueueFacts
    <3>5. CASE r # req
      <4>1. Waiting(r)' \subseteq Waiting(r)
        BY <3>2, <3>5 DEF Waiting
      <4>2. Cardinality(Waiting(r)') <= Cardinality(Waiting(r)) /\ Cardinality(Waiting(r)') \in Nat
        BY <3>4, <4>1, FS_Subset, FS_CardinalityType
      <4> QED BY <1>1, <2>3, <3>3, <3>4, <3>5, <4>2
    <3>6. CASE r = req
      <4>1. Waiting(r)' \subseteq Waiting(r) \cup {fd}
        BY <3>2, <3>6 DEF Waiting
      <4>2. IsFiniteSet(Waiting(r) \cup {fd}) /\ Cardinality(Waiting(r) \cup {fd}) <= Cardinality(Waiting(r)) + 1
        BY <3>4, FS_AddElement
      <4>3. /\ Cardinality(Waiting(r)') <= Cardinality(Waiting(r) \cup {fd}) /\ Cardinality(Waiting(r)') \in Nat
            /\ Cardinality(Waiting(r) \cup {fd}) \in Nat
        BY <4>1, <4>2, FS_Subset, FS_CardinalityType
      <4> QED BY <1>1, <2>3, <3>3, <3>4, <3>6, <4>2, <4>3
    <3> QED BY <3>5, <3>6
  <2> QED BY <2>4, <2>5
<1>13. ASSUME NEW c \in Conns, Execute(c) \/ Cut(c) PROVE SentInv'
  <2>1. UNCHANGED <<req, method, pc, reused>>
    BY <1>13 DEF Execute, Cut, clientVars
  <2>2. \A r \in Requests : Allowance(r)' = Allowance(r)
    BY <1>3, <2>1 DEF Allowance, Fresh
  <2>3. \A r \in Requests : executed[r] \in Nat /\ executed[r] + Cardinality(Waiting(r)) <= Allowance(r)
    BY DEF TypeOK, SentInv
  <2>4. \A r \in Requests : IsFiniteSet(Waiting(r)) /\ Cardinality(Waiting(r)) \in Nat
    BY QueueFacts
  <2>5. CASE Cut(c)
    <3>1. \A d \in Conns : to_server'[d] = IF d = c THEN <<>> ELSE to_server[d]
      BY <2>5 DEF Cut, TypeOK
    <3>2. executed' = executed
      BY <2>5 DEF Cut
    <3>3. \A r \in Requests : Waiting(r)' \subseteq Waiting(r)
      BY <3>1, EmptySeq DEF Waiting, Queued
    <3>4. \A r \in Requests : Cardinality(Waiting(r)') <= Cardinality(Waiting(r)) /\ Cardinality(Waiting(r)') \in Nat
      BY <2>4, <3>3, FS_Subset, FS_CardinalityType
    <3> QED BY <1>1, <2>2, <2>3, <2>4, <3>2, <3>4 DEF SentInv
  <2>6. CASE Execute(c)
    <3> DEFINE q == to_server[c]
               x == q[1]
    <3>1. /\ q \in Seq(Requests) /\ q # <<>> /\ x \in Requests
          /\ Len(Tail(q)) = Len(q) - 1 /\ Len(q) \in Nat \ {0}
          /\ \A i \in 1 .. Len(Tail(q)) : Tail(q)[i] = q[i + 1]
      <4>1. q \in Seq(Requests) /\ q # <<>>
        BY <2>6 DEF Execute, TypeOK
      <4>2. Len(q) \in Nat \ {0}
        BY <4>1, EmptySeq
      <4>3. q[1] \in Requests
        BY <4>1, <4>2, ElementOfSeq
      <4> QED BY <4>1, <4>2, <4>3, HeadTailProperties
    <3>2. \A d \in Conns : to_server'[d] = IF d = c THEN Tail(q) ELSE to_server[d]
      BY <2>6 DEF Execute, TypeOK
    <3>3. \A r \in Requests : executed'[r] = IF r = x THEN executed[r] + 1 ELSE executed[r]
      BY <2>6, <3>1 DEF Execute, TypeOK
    <3>4. \A i, j \in 1 .. Len(q) : q[i] = q[j] => i = j
      BY DEF ConnInv
    <3> HIDE DEF x
    <3>5. \A r \in Requests, d \in Conns : Queued(r, d)' => Queued(r, d) /\ (d = c => r # x)
      <4> SUFFICES ASSUME NEW r \in Requests, NEW d \in Conns, Queued(r, d)', d = c
                   PROVE  Queued(r, d) /\ r # x
        BY <3>2 DEF Queued
      <4>1. PICK i \in 1 .. Len(Tail(q)) : Tail(q)[i] = r
        BY <3>2 DEF Queued
      <4>2. i + 1 \in 1 .. Len(q) /\ 1 \in 1 .. Len(q) /\ i + 1 # 1 /\ q[i + 1] = r
        BY <3>1, <4>1
      <4>3. r # q[1]
        BY <3>4, <4>2
      <4> QED BY <4>2, <4>3 DEF Queued, x
    <3> SUFFICES ASSUME NEW r \in Requests PROVE (executed[r] + Cardinality(Waiting(r)) <= Allowance(r))'
      BY DEF SentInv
    <3>6. CASE r # x
      <4>1. Waiting(r)' \subseteq Waiting(r)
        BY <3>5 DEF Waiting
      <4>2. Cardinality(Waiting(r)') <= Cardinality(Waiting(r)) /\ Cardinality(Waiting(r)') \in Nat
        BY <2>4, <4>1, FS_Subset, FS_CardinalityType
      <4> QED BY <1>1, <2>2, <2>3, <2>4, <3>3, <3>6, <4>2
    <3>7. CASE r = x
      <4>1. c \in Waiting(r)
        BY <3>1, <3>7 DEF Waiting, Queued, x
      <4>2. Waiting(r)' \subseteq Waiting(r) \ {c}
        BY <3>5, <3>7 DEF Waiting
      <4>3. IsFiniteSet(Waiting(r) \ {c}) /\ Cardinality(Waiting(r) \ {c}) = Cardinality(Waiting(r)) - 1
        BY <2>4, <4>1, FS_RemoveElement
      <4>4. Cardinality(Waiting(r)') <= Cardinality(Waiting(r) \ {c}) /\ Cardinality(Waiting(r)') \in Nat
        BY <4>2, <4>3, FS_Subset, FS_CardinalityType
      <4> QED BY <1>1, <2>2, <2>3, <2>4, <3>3, <3>7, <4>3, <4>4
    <3> QED BY <3>6, <3>7
  <2> QED BY <1>13, <2>5, <2>6
<1>14. CASE UNCHANGED vars
  <2>1. \A r \in Requests : Allowance(r)' = Allowance(r)
    BY <1>3, <1>14 DEF vars, Allowance, Fresh
  <2> QED BY <1>1, <1>2, <1>14, <2>1 DEF vars
<1> QED BY StepKinds, <1>5, <1>6, <1>7, <1>8, <1>9, <1>10, <1>11, <1>12, <1>13, <1>14

-----------------------------------------------------------------------------
(* The connection each attempt uses, which connections are still unused, and  *)
(* how often each request was sent, for any server: RoundTrip's loop.        *)
THEOREM RetryInvariance == Spec => []RetryInv
<1>1. Init => RetryInv
  BY InitRetry
<1>2. RetryInv /\ [Next]_vars => RetryInv'
  BY TypeStep, AttemptStep, ConnStep, SentStep, ResultStep DEF RetryInv
<1> QED BY <1>1, <1>2, PTL DEF Spec

(* Type correctness; while a body is read its head is known.                 *)
THEOREM TypeCorrect == Spec => []TypeOK
<1>1. RetryInv => TypeOK
  BY DEF RetryInv
<1> QED BY <1>1, RetryInvariance, PTL

(* A POST or PUT is executed at most once, any other request at most twice,  *)
(* with interim responses or without.                                       *)
THEOREM WritesAreExecutedOnce == Spec => []WritesAtMostOnce
<1>1. RetryInv => WritesAtMostOnce
  <2> SUFFICES ASSUME RetryInv, NEW r \in Requests PROVE executed[r] <= Limit(r)
    BY DEF WritesAtMostOnce, Limit
  <2>1. executed[r] \in Nat /\ executed[r] + Cardinality(Waiting(r)) <= Allowance(r)
    BY DEF RetryInv, TypeOK, SentInv
  <2>2. Limit(r) \in {1, 2} /\ Allowance(r) \in {0, Limit(r) - 1, 1, Limit(r)}
    BY DEF Limit, Allowance
  <2> HIDE DEF Limit, Allowance
  <2> QED BY <2>1, <2>2, QueueFacts
<1> QED BY <1>1, RetryInvariance, PTL

-----------------------------------------------------------------------------
(* From here on the server sends no interim responses.                      *)

(* The round trip ends with an answer that is whole, or as long as what came  *)
(* before a clean end of the connection, and leaves a quiet connection.      *)
Completing(head, got) ==
    /\ pc \in Reading /\ (pc = "head" => Stream # <<>>)
    /\ head \in Heads /\ head.req = req /\ got \in Nat
    /\ \/ method[req] = "HEAD"
       \/ got = head.size
       \/ head.framing = "eof" /\ got < head.size /\ net[fd] = "fin"
    /\ Return(Success(head, got))
    /\ CloseConn \/ (KeepConn(<<>>) /\ to_client[fd] = <<>> /\ to_server[fd] = <<>>)
    /\ ServerIdle

(* The head was read and a body follows.                                    *)
BodyBegins ==
    /\ pc = "head" /\ Stream # <<>>
    /\ out' \in HeadsOf(req) /\ Incoming(out', 0)
    /\ pc' = out'.framing /\ out'.framing # "none" /\ method[req] # "HEAD"
    /\ rx # <<>> /\ KeepConn(SubSeq(rx, 2, Len(rx)))
    /\ to_server[fd] = <<>>
    /\ UNCHANGED <<reused, result>> /\ ServerIdle

LEMMA StreamFacts ==
    ASSUME TypeOK, fd # NoConn
    PROVE  /\ rx \in Seq(Parts) /\ to_client[fd] \in Seq(Parts) /\ Stream \in Seq(Parts)
           /\ Len(rx) \in Nat /\ Len(to_client[fd]) \in Nat
           /\ Len(Stream) = Len(rx) + Len(to_client[fd])
           /\ \A i \in 1 .. Len(rx) : Stream[i] = rx[i]
           /\ \A i \in 1 .. Len(to_client[fd]) : Stream[Len(rx) + i] = to_client[fd][i]
           /\ DOMAIN rx = 1 .. Len(rx)
           /\ Len(rx) = 0 <=> rx = <<>>
           /\ Len(to_client[fd]) = 0 <=> to_client[fd] = <<>>
           /\ Len(Stream) = 0 <=> Stream = <<>>
<1>1. fd \in Conns /\ rx \in Seq(Parts) /\ to_client[fd] \in Seq(Parts)
  BY DEF TypeOK
<1>2. /\ Stream \in Seq(Parts) /\ Len(Stream) = Len(rx) + Len(to_client[fd])
      /\ \A i \in 1 .. Len(rx) + Len(to_client[fd]) :
           Stream[i] = IF i <= Len(rx) THEN rx[i] ELSE to_client[fd][i - Len(rx)]
  BY <1>1, ConcatProperties DEF Stream
<1>3. Len(rx) \in Nat /\ Len(to_client[fd]) \in Nat /\ DOMAIN rx = 1 .. Len(rx)
  BY <1>1, LenProperties
<1>4. \A q \in Seq(Parts) : Len(q) = 0 <=> q = <<>>
  BY EmptySeq
<1>5. \A i \in 1 .. Len(rx) : Stream[i] = rx[i]
  BY <1>2, <1>3
<1>6. \A i \in 1 .. Len(to_client[fd]) : Stream[Len(rx) + i] = to_client[fd][i]
  <2> SUFFICES ASSUME NEW i \in 1 .. Len(to_client[fd]) PROVE Stream[Len(rx) + i] = to_client[fd][i]
    OBVIOUS
  <2> DEFINE j == Len(rx) + i
  <2>1. j \in 1 .. Len(rx) + Len(to_client[fd]) /\ ~(j <= Len(rx)) /\ j - Len(rx) = i
    BY <1>3
  <2>2. Stream[j] = to_client[fd][j - Len(rx)]
    BY <1>2, <2>1
  <2> QED BY <2>1, <2>2
<1> QED BY <1>1, <1>2, <1>3, <1>4, <1>5, <1>6

LEMMA PartKinds ==
    ASSUME NEW h \in Heads, NEW i \in Nat \ {0}
    PROVE  /\ BodyLen(h) \in Nat
           /\ IsHead(ResponsePart(h, i)) <=> i = 1
           /\ i # 1 => (ResponsePart(h, i).part = "last" <=> i > h.size + 1)
           /\ i = 1 => ResponsePart(h, i) = h
           /\ i # 1 /\ i <= h.size + 1 => ResponsePart(h, i) = DataOf(h.req)
<1>1. h.size \in Nat /\ IsHead(h)
  BY PartFacts, ExchangeAssumption DEF Heads, IsHead
<1>2. BodyLen(h) \in Nat
  BY <1>1 DEF BodyLen
<1>3. CASE i = 1
  BY <1>1, <1>2, <1>3 DEF ResponsePart
<1>4. CASE i # 1 /\ i <= h.size + 1
  BY <1>1, <1>2, <1>4 DEF ResponsePart, DataOf, IsHead
<1>5. CASE i # 1 /\ ~(i <= h.size + 1)
  BY <1>1, <1>2, <1>5 DEF ResponsePart, LastOf, IsHead
<1> QED BY <1>3, <1>4, <1>5

(* The head that ParseHead finds is the first thing read, and the response's. *)
LEMMA HeadIsFirst ==
    ASSUME TypeOK, AttemptInv, StreamInv, pc = "head", NEW i \in DOMAIN rx, IsHead(rx[i])
    PROVE  /\ i = 1 /\ rx[1] \in HeadsOf(req) /\ Incoming(rx[1], 0)
           /\ Stream # <<>> /\ rx # <<>> /\ to_server[fd] = <<>>
<1>1. fd # NoConn
  BY DEF AttemptInv, Reading
<1>2. i \in 1 .. Len(rx) /\ Stream # <<>> /\ rx # <<>> /\ Stream[i] = rx[i] /\ Stream[1] = rx[1] /\ i \in 1 .. Len(Stream)
  BY <1>1, StreamFacts
<1>3. PICK h \in HeadsOf(req) : Incoming(h, 0)
  BY <1>2 DEF StreamInv, Unanswered
<1>4. h \in Heads
  BY DEF HeadsOf
<1>5. Stream[i] = ResponsePart(h, i) /\ Stream[1] = ResponsePart(h, 1)
  <2>1. 0 + i = i /\ 1 \in 1 .. Len(Stream) /\ 0 + 1 = 1
    BY <1>2
  <2> QED BY <1>2, <1>3, <2>1 DEF Incoming, Follows
<1>6. i = 1 /\ rx[1] = h
  BY <1>2, <1>4, <1>5, PartKinds
<1> QED BY <1>2, <1>3, <1>6 DEF StreamInv, Unanswered

LEMMA HeadKinds ==
    ASSUME TypeOK, AttemptInv, StreamInv, ParseHead
    PROVE  BodyBegins \/ \E head, got : Completing(head, got)
<1>1. pc = "head" /\ pc \in Reading /\ ServerIdle /\ fd # NoConn
  BY DEF ParseHead, Reading, ServerIdle, AttemptInv
<1>2. PICK i \in DOMAIN rx :
        /\ IsHead(rx[i])
        /\ LET rest == SubSeq(rx, i + 1, Len(rx))
               no_body == method[req] = "HEAD" \/ rx[i].framing = "none"
           IN \/ no_body /\ Finish(rx[i], 0, rx[i].close, rest)
              \/ /\ ~no_body
                 /\ out' = rx[i]
                 /\ pc' = rx[i].framing
                 /\ KeepConn(rest)
                 /\ UNCHANGED <<reused, result>>
  BY DEF ParseHead
<1>3. /\ i = 1 /\ i + 1 = 2 /\ rx[1] \in HeadsOf(req) /\ Incoming(rx[1], 0)
      /\ Stream # <<>> /\ rx # <<>> /\ to_server[fd] = <<>>
  BY <1>1, <1>2, HeadIsFirst
<1>4. rx[1] \in Heads /\ rx[1].req = req
  BY <1>3 DEF HeadsOf
<1>5. CASE /\ method[req] = "HEAD" \/ rx[1].framing = "none"
           /\ Finish(rx[1], 0, rx[1].close, SubSeq(rx, 2, Len(rx)))
  <2>1. BodyLen(rx[1]) = 0
    BY <1>4, <1>5 DEF BodyLen
  <2>2. Len(Stream) <= 1
    BY <1>1, <1>3, <2>1, StreamFacts DEF Incoming, Follows
  <2>3. Len(rx) = 1 /\ to_client[fd] = <<>>
    BY <1>1, <1>3, <2>2, StreamFacts
  <2>4. SubSeq(rx, 2, Len(rx)) = <<>>
    BY <2>3, SubSeqEmpty
  <2>5. method[req] = "HEAD" \/ 0 = rx[1].size
    BY <1>3, <1>5 DEF HeadsOf
  <2>6. Completing(rx[1], 0)
    BY <1>1, <1>3, <1>4, <1>5, <2>3, <2>4, <2>5 DEF Completing, Finish
  <2> QED BY <2>6
<1>6. CASE /\ ~(method[req] = "HEAD" \/ rx[1].framing = "none")
           /\ out' = rx[1]
           /\ pc' = rx[1].framing
           /\ KeepConn(SubSeq(rx, 2, Len(rx)))
           /\ UNCHANGED <<reused, result>>
  BY <1>1, <1>3, <1>6 DEF BodyBegins
<1> QED BY <1>2, <1>3, <1>5, <1>6

(* What is read of a body: data units, and the last chunk after all of them.  *)
LEMMA BodyFacts ==
    ASSUME TypeOK, AttemptInv, StreamInv, pc \in BodyPhases
    PROVE  /\ fd # NoConn /\ pc \in Reading /\ pc # "head" /\ to_server[fd] = <<>>
           /\ out \in Heads /\ out.req = req /\ out.framing = pc /\ out.size \in Nat
           /\ BodyLen(out) = IF pc = "chunked" THEN out.size + 1 ELSE out.size
           /\ Len(rx) + Len(to_client[fd]) <= BodyLen(out)
           /\ \A i \in 1 .. Len(rx) : i <= out.size => rx[i] = DataOf(req)
           /\ \A i \in 1 .. Len(rx) : ~IsHead(rx[i]) /\ (rx[i].part = "last" => i > out.size)
<1>1. /\ fd # NoConn /\ pc \in Reading /\ pc # "head" /\ pc # "none" /\ to_server[fd] = <<>>
      /\ out \in Heads /\ out.req = req /\ out.framing = pc /\ method[req] # "HEAD" /\ Incoming(out, 1)
  BY DEF TypeOK, AttemptInv, StreamInv, Reading, BodyPhases, Framings
<1>2. out.size \in Nat /\ BodyLen(out) = IF pc = "chunked" THEN out.size + 1 ELSE out.size
  BY <1>1, PartFacts DEF BodyLen
<1>3. Len(rx) + Len(to_client[fd]) <= BodyLen(out)
  BY <1>1, <1>2, StreamFacts DEF Incoming, Follows
<1>4. ASSUME NEW i \in 1 .. Len(rx)
      PROVE  ~IsHead(rx[i]) /\ (i <= out.size => rx[i] = DataOf(req)) /\ (rx[i].part = "last" => i > out.size)
  <2>1. Stream[i] = rx[i] /\ i \in 1 .. Len(Stream) /\ 1 + i \in Nat \ {0} /\ 1 + i # 1
    BY <1>1, StreamFacts
  <2>2. rx[i] = ResponsePart(out, 1 + i)
    BY <1>1, <2>1 DEF Incoming, Follows
  <2>3. (1 + i <= out.size + 1 <=> i <= out.size) /\ (1 + i > out.size + 1 <=> i > out.size)
    BY <1>2
  <2> QED BY <1>1, <2>1, <2>2, <2>3, PartKinds
<1> QED BY <1>1, <1>2, <1>3, <1>4

LEMMA LengthKinds ==
    ASSUME TypeOK, AttemptInv, StreamInv, ParseLength
    PROVE  \E head, got : Completing(head, got)
<1>1. pc = "length" /\ pc \in BodyPhases /\ ServerIdle /\ Len(rx) >= out.size
  BY DEF ParseLength, BodyPhases, Framings, ServerIdle
<1>2. fd # NoConn /\ Len(rx) = out.size /\ to_client[fd] = <<>>
  BY <1>1, BodyFacts, StreamFacts
<1>3. SubSeq(rx, out.size + 1, Len(rx)) = <<>>
  BY <1>1, <1>2, BodyFacts, SubSeqEmpty
<1>4. {i \in 1 .. out.size : rx[i] = DataOf(out.req)} = 1 .. out.size
  BY <1>1, <1>2, BodyFacts
<1>5. Cardinality({i \in 1 .. out.size : rx[i] = DataOf(out.req)}) = out.size
  <2>1. out.size \in Nat
    BY <1>1, BodyFacts
  <2>2. Cardinality(1 .. out.size) = out.size
    BY <2>1, FS_Interval
  <2> QED BY <1>4, <2>2
<1>6. Finish(out, out.size, out.close \/ <<>> # <<>>, <<>>)
  BY <1>3, <1>5 DEF ParseLength
<1>7. Completing(out, out.size)
  BY <1>1, <1>2, <1>6, BodyFacts DEF Completing, Finish
<1> QED BY <1>7

LEMMA ChunksKinds ==
    ASSUME TypeOK, AttemptInv, StreamInv, ParseChunks
    PROVE  \E head, got : Completing(head, got)
<1>1. pc = "chunked" /\ pc \in BodyPhases /\ ServerIdle
  BY DEF ParseChunks, BodyPhases, Framings, ServerIdle
<1>2. PICK e \in DOMAIN rx :
        \/ rx[e].part = "last" /\ Finish(out, e - 1, out.close, SubSeq(rx, e + 1, Len(rx)))
        \/ IsHead(rx[e]) /\ Fail
  BY DEF ParseChunks
<1>3. e \in 1 .. Len(rx)
  BY <1>1, BodyFacts, StreamFacts
<1>4. rx[e].part = "last" /\ Finish(out, e - 1, out.close, SubSeq(rx, e + 1, Len(rx))) /\ e > out.size
  BY <1>1, <1>2, <1>3, BodyFacts
<1>5. e = out.size + 1 /\ Len(rx) = e /\ to_client[fd] = <<>> /\ e - 1 = out.size
  BY <1>1, <1>3, <1>4, BodyFacts, StreamFacts
<1>6. SubSeq(rx, e + 1, Len(rx)) = <<>>
  BY <1>3, <1>5, SubSeqEmpty
<1>7. Completing(out, out.size)
  BY <1>1, <1>4, <1>5, <1>6, BodyFacts DEF Completing, Finish
<1> QED BY <1>7

LEMMA EofKinds ==
    ASSUME TypeOK, AttemptInv, StreamInv, ReadEof
    PROVE  Failing \/ \E head, got : Completing(head, got)
<1>1. pc \in Reading /\ ServerIdle /\ net[fd] = "fin"
  BY DEF ReadEof, NeedsMore, Reading, BodyPhases, Framings, ServerIdle
<1>2. CASE pc = "eof"
  <2>1. pc \in BodyPhases
    BY <1>2 DEF BodyPhases, Framings
  <2>2. Len(rx) \in Nat /\ Len(rx) <= out.size
    BY <1>2, <2>1, BodyFacts, StreamFacts
  <2>3. Len(rx) = out.size \/ Len(rx) < out.size
    BY <2>1, <2>2, BodyFacts
  <2>4. Return(Success(out, Len(rx))) /\ CloseConn
    BY <1>2 DEF ReadEof
  <2>5. Completing(out, Len(rx))
    BY <1>1, <1>2, <2>1, <2>2, <2>3, <2>4, BodyFacts DEF Completing
  <2> QED BY <2>5
<1>3. CASE pc # "eof"
  BY <1>1, <1>3 DEF ReadEof, Failing
<1> QED BY <1>2, <1>3

(* The kinds of steps of a client whose server sends no interim responses.    *)
LEMMA StreamKinds ==
    ASSUME TypeOK, AttemptInv, StreamInv, [Next]_vars
    PROVE  \/ \E m \in Methods : Call(m)
           \/ UseConnection \/ Dial \/ DialFails \/ Write \/ ReadMore
           \/ BodyBegins \/ Failing
           \/ \E head, got : Completing(head, got)
           \/ \E c \in Conns : Execute(c) \/ Cut(c)
           \/ UNCHANGED vars
<1>1. WriteFails => Failing
  BY DEF WriteFails, Failing, ServerIdle
<1>2. ReadFails => Failing
  BY DEF ReadFails, Failing, ServerIdle, NeedsMore, Reading, BodyPhases, Framings
<1> QED BY <1>1, <1>2, EofKinds, HeadKinds, LengthKinds, ChunksKinds DEF Next, ClientStep

-----------------------------------------------------------------------------
(* There is a response whose first parts are none.                          *)
LEMMA SomeHead ==
    ASSUME NEW r \in Requests
    PROVE  HeadOf(r, "none", 0, FALSE) \in HeadsOf(r)
BY ExchangeAssumption DEF HeadOf, HeadsOf, Heads, Framings

LEMMA Regroup == \A s, t, u \in Seq(Parts) : (s \o t) \o u = s \o (t \o u)
BY ConcatAssociative

LEMMA StreamStep ==
    ASSUME TypeOK, AttemptInv, ConnInv, StreamInv, ~Interim, [Next]_vars
    PROVE  StreamInv'
<1> USE ExchangeAssumption
<1>0. /\ "ready" \notin Reading /\ "attempt" \notin Reading /\ "write" \notin Reading
      /\ "head" \in Reading /\ "head" \notin BodyPhases /\ BodyPhases \subseteq Reading
      /\ \A p \in Reading : p # "head" => p \in BodyPhases
  BY DEF Reading, BodyPhases, Framings
<1>1. TypeOK' /\ AttemptInv'
  BY TypeStep, AttemptStep
<1>2. \A c \in Conns : c # NoConn
  BY DEF Conns, NoConn
<1>12. \A h \in Heads : BodyLen(h) \in Nat /\ (BodyLen(h) \in Nat)'
  <2>1. \A h \in Heads : h.size \in Nat
    BY PartFacts
  <2> QED BY <2>1 DEF BodyLen
<1>13. ASSUME (Stream = <<>> /\ net[fd] # "open")', req' \in Requests
       PROVE  (\E h \in HeadsOf(req) : Incoming(h, 0))'
  <2>1. PICK h \in HeadsOf(req') : TRUE
    BY <1>13, SomeHead
  <2>2. h \in Heads
    BY DEF HeadsOf
  <2>3. Len(Stream') = 0 /\ BodyLen(h)' \in Nat /\ net'[fd'] # "open"
    BY <1>12, <1>13, <2>2, EmptySeq
  <2>4. (Incoming(h, 0))'
    BY <2>3 DEF Incoming, Follows
  <2> QED BY <2>1, <2>4
<1>3. ASSUME pc \notin Reading, pc' \notin Reading, UNCHANGED <<fd, rx, to_client, to_server>> PROVE StreamInv'
  BY <1>0, <1>3 DEF StreamInv, Quiet
<1>4. ASSUME pc' \notin Reading, fd' = NoConn, rx' = <<>> PROVE StreamInv'
  BY <1>0, <1>4 DEF StreamInv, Quiet
<1>5. ASSUME NEW m \in Methods, Call(m) PROVE StreamInv'
  BY <1>0, <1>3, <1>5 DEF Call
<1>6. CASE UseConnection
  BY <1>0, <1>3, <1>6 DEF UseConnection
<1>7. CASE Dial
  <2>1. req \in Conns /\ req # fd /\ Undialled(req)
    BY <1>7 DEF Dial, AttemptInv, TypeOK, Conns, NoConn, Undialled
  <2>2. to_client[req] = <<>> /\ to_server[req] = <<>>
    BY <2>1 DEF ConnInv
  <2> QED BY <1>0, <1>7, <2>2 DEF Dial, StreamInv, Quiet
<1>8. CASE DialFails
  BY <1>0, <1>3, <1>8 DEF DialFails, Return
<1>9. CASE Write
  <2>1. fd \in Conns /\ req \in Requests /\ rx = <<>> /\ to_client[fd] = <<>> /\ to_server[fd] = <<>>
    BY <1>0, <1>9 DEF Write, AttemptInv, TypeOK, StreamInv, Quiet, Requests
  <2>2. pc' = "head" /\ UNCHANGED <<fd, rx, req, to_client, net>>
    BY <1>9 DEF Write
  <2>3. Stream' = <<>>
    BY <2>1, <2>2 DEF Stream
  <2>4. CASE net[fd] = "open"
    <3>1. to_server'[fd] = <<req>>
      BY <1>9, <2>1, <2>4 DEF Write, TypeOK
    <3> QED BY <1>0, <2>2, <2>3, <2>4, <3>1 DEF StreamInv, Unanswered
  <2>5. CASE net[fd] # "open"
    <3>1. to_server'[fd] = <<>>
      BY <1>9, <2>1, <2>5 DEF Write
    <3>2. (\E h \in HeadsOf(req) : Incoming(h, 0))'
      BY <1>13, <2>1, <2>2, <2>3, <2>5
    <3> QED BY <1>0, <2>2, <3>1, <3>2 DEF StreamInv
  <2> QED BY <2>4, <2>5
<1>10. CASE Failing
  BY <1>0, <1>4, <1>10 DEF Failing, Fail, CloseConn, Return
<1>11. ASSUME NEW head, NEW got, Completing(head, got) PROVE StreamInv'
  <2>1. CASE CloseConn
    BY <1>0, <1>4, <1>11, <2>1 DEF Completing, Return, CloseConn
  <2>2. CASE KeepConn(<<>>) /\ to_client[fd] = <<>> /\ to_server[fd] = <<>>
    BY <1>0, <1>11, <2>2 DEF Completing, Return, KeepConn, ServerIdle, StreamInv, Quiet
  <2> QED BY <1>11, <2>1, <2>2 DEF Completing
<1>14. CASE ReadMore
  <2>1. pc \in Reading /\ fd \in Conns
    BY <1>14 DEF ReadMore, NeedsMore, Reading, BodyPhases, Framings, AttemptInv, TypeOK
  <2>2. UNCHANGED <<fd, pc, req, method, out, to_server, net>>
    BY <1>14 DEF ReadMore
  <2>3. Stream' = Stream
    <3> DEFINE q == to_client[fd]
               a(k) == SubSeq(q, 1, k)
               b(k) == SubSeq(q, k + 1, Len(q))
    <3>1. PICK k \in 1 .. Len(q) :
            /\ rx' = rx \o SubSeq(q, 1, k)
            /\ to_client' = [to_client EXCEPT ![fd] = SubSeq(@, k + 1, Len(@))]
      BY <1>14 DEF ReadMore
    <3>2. rx \in Seq(Parts) /\ q \in Seq(Parts) /\ k \in 0 .. Len(q)
      BY <1>2, <2>1, StreamFacts
    <3>3. to_client'[fd'] = SubSeq(q, k + 1, Len(q))
      BY <2>1, <2>2, <3>1 DEF TypeOK
    <3>4. a(k) \in Seq(Parts) /\ b(k) \in Seq(Parts) /\ a(k) \o b(k) = q
      BY <3>2, CutSeq
    <3>5. rx' = rx \o a(k) /\ to_client'[fd'] = b(k)
      BY <3>1, <3>3
    <3> HIDE DEF a, b
    <3>6. (rx \o a(k)) \o b(k) = rx \o (a(k) \o b(k))
      BY <3>2, <3>4, Regroup
    <3> QED BY <3>4, <3>5, <3>6 DEF Stream
  <2>4. \A h \in Heads, n \in Nat : Incoming(h, n)' <=> Incoming(h, n)
    BY <2>2, <2>3 DEF Incoming, Follows, BodyLen
  <2>5. pc \in BodyPhases => out \in Heads
    BY DEF TypeOK
  <2>6. HeadsOf(req) \subseteq Heads
    BY DEF HeadsOf
  <2>7. Unanswered' <=> Unanswered
    BY <2>2, <2>3 DEF Unanswered
  <2> HIDE DEF Incoming
  <2> QED BY <2>1, <2>2, <2>4, <2>5, <2>6, <2>7 DEF StreamInv
<1>15. CASE BodyBegins
  <2>1. /\ fd \in Conns /\ pc = "head" /\ rx # <<>> /\ UNCHANGED <<fd, to_client, req, method, to_server, net>>
        /\ out' \in HeadsOf(req) /\ out' \in Heads /\ out'.req = req /\ pc' = out'.framing /\ pc' # "none"
        /\ Incoming(out', 0) /\ to_server[fd] = <<>> /\ method[req] # "HEAD" /\ rx' = SubSeq(rx, 2, Len(rx))
    BY <1>15 DEF BodyBegins, KeepConn, ServerIdle, AttemptInv, TypeOK, Reading, HeadsOf
  <2>2. pc' \in BodyPhases
    BY <2>1, PartFacts DEF BodyPhases
  <2>3. 1 \in 0 .. Len(rx) /\ rx \in Seq(Parts) /\ to_client[fd] \in Seq(Parts) /\ Len(rx) \in Nat \ {0} /\ Len(to_client[fd]) \in Nat
    BY <1>2, <2>1, StreamFacts
  <2>4. /\ rx' \in Seq(Parts) /\ Len(rx') = Len(rx) - 1
        /\ \A i \in 1 .. Len(rx) - 1 : rx'[i] = rx[1 + i]
    <3>1. \A k \in 0 .. Len(rx) :
            /\ SubSeq(rx, k + 1, Len(rx)) \in Seq(Parts) /\ Len(SubSeq(rx, k + 1, Len(rx))) = Len(rx) - k
            /\ \A i \in 1 .. Len(rx) - k : SubSeq(rx, k + 1, Len(rx))[i] = rx[k + i]
      BY <2>3, CutSeq
    <3>2. 1 + 1 = 2
      OBVIOUS
    <3>3. /\ SubSeq(rx, 1 + 1, Len(rx)) \in Seq(Parts) /\ Len(SubSeq(rx, 1 + 1, Len(rx))) = Len(rx) - 1
          /\ \A i \in 1 .. Len(rx) - 1 : SubSeq(rx, 1 + 1, Len(rx))[i] = rx[1 + i]
      BY <2>3, <3>1
    <3> QED BY <2>1, <3>2, <3>3
  <2>5. /\ Len(Stream') = Len(Stream) - 1 /\ Len(Stream) \in Nat
        /\ \A i \in 1 .. Len(Stream) - 1 : Stream'[i] = Stream[1 + i]
    <3>1. Stream' = rx' \o to_client[fd]
      BY <2>1 DEF Stream
    <3>2. /\ Len(Stream') = Len(rx') + Len(to_client[fd])
          /\ \A i \in 1 .. Len(rx') + Len(to_client[fd]) :
               Stream'[i] = IF i <= Len(rx') THEN rx'[i] ELSE to_client[fd][i - Len(rx')]
      BY <2>3, <2>4, <3>1, ConcatProperties
    <3>3. /\ Len(Stream) = Len(rx) + Len(to_client[fd])
          /\ \A i \in 1 .. Len(rx) + Len(to_client[fd]) :
               Stream[i] = IF i <= Len(rx) THEN rx[i] ELSE to_client[fd][i - Len(rx)]
      BY <2>3, ConcatProperties DEF Stream
    <3>4. ASSUME NEW i \in 1 .. Len(Stream) - 1 PROVE Stream'[i] = Stream[1 + i]
      <4>1. /\ i \in 1 .. Len(rx') + Len(to_client[fd]) /\ 1 + i \in 1 .. Len(rx) + Len(to_client[fd])
            /\ i <= Len(rx') <=> 1 + i <= Len(rx)
            /\ i - Len(rx') = (1 + i) - Len(rx)
        BY <2>3, <2>4, <3>3
      <4>2. CASE i <= Len(rx')
        <5>1. Stream'[i] = rx'[i]
          BY <3>2, <4>1, <4>2
        <5>2. Stream[1 + i] = rx[1 + i]
          BY <3>3, <4>1, <4>2
        <5>3. i \in 1 .. Len(rx) - 1
          BY <2>4, <4>1, <4>2
        <5> QED BY <2>4, <5>1, <5>2, <5>3
      <4>3. CASE ~(i <= Len(rx'))
        BY <3>2, <3>3, <4>1, <4>3
      <4> QED BY <4>2, <4>3
    <3>5. Len(Stream') = Len(Stream) - 1 /\ Len(Stream) \in Nat
      BY <2>3, <2>4, <3>2, <3>3
    <3> QED BY <3>4, <3>5
  <2>6. BodyLen(out') \in Nat /\ BodyLen(out)' = BodyLen(out')
    BY <1>12, <2>1 DEF BodyLen
  <2>7. Incoming(out, 1)'
    <3>1. 1 + Len(Stream') <= BodyLen(out)' + 1
      BY <2>1, <2>5, <2>6 DEF Incoming, Follows
    <3>2. (net[fd] = "open")' => 1 + Len(Stream') = BodyLen(out)' + 1
      BY <2>1, <2>5, <2>6 DEF Incoming
    <3>3. ASSUME NEW i \in 1 .. Len(Stream') PROVE Stream'[i] = ResponsePart(out', 1 + i)
      <4>1. i \in 1 .. Len(Stream) - 1 /\ 1 + i \in 1 .. Len(Stream) /\ 0 + (1 + i) = 1 + i
        BY <2>5
      <4> QED BY <2>1, <2>5, <4>1 DEF Incoming, Follows
    <3> QED BY <3>1, <3>2, <3>3 DEF Incoming, Follows
  <2> HIDE DEF Incoming
  <2> QED BY <1>0, <2>1, <2>2, <2>7 DEF StreamInv
<1>16. ASSUME NEW c \in Conns, Execute(c), c # fd PROVE StreamInv'
  <2>1. UNCHANGED <<clientVars, net, to_client>> /\ \A d \in Conns : d # c => to_server'[d] = to_server[d]
    BY <1>16 DEF Execute, TypeOK
  <2>2. fd # NoConn => fd \in Conns /\ to_server'[fd] = to_server[fd]
    BY <1>16, <2>1 DEF TypeOK
  <2>3. pc \in Reading => fd # NoConn
    BY DEF AttemptInv
  <2>4. Stream' = Stream
    BY <2>1 DEF Stream, clientVars
  <2>5. \A h \in Heads, n \in Nat : Incoming(h, n)' <=> Incoming(h, n)
    BY <2>1, <2>4 DEF Incoming, Follows, BodyLen, clientVars
  <2>6. pc \in BodyPhases => out \in Heads
    BY DEF TypeOK
  <2>7. HeadsOf(req) \subseteq Heads
    BY DEF HeadsOf
  <2>8. pc \in Reading => (Unanswered' <=> Unanswered)
    BY <2>1, <2>2, <2>3, <2>4 DEF Unanswered, clientVars
  <2>9. Quiet' <=> Quiet
    BY <2>1, <2>2 DEF Quiet, clientVars
  <2> HIDE DEF Incoming, Quiet, Unanswered
  <2> QED BY <1>0, <2>1, <2>2, <2>3, <2>5, <2>6, <2>7, <2>8, <2>9 DEF StreamInv, clientVars
<1>17. ASSUME fd \in Conns, Execute(fd) PROVE StreamInv'
  <2>1. /\ to_server[fd] # <<>> /\ UNCHANGED <<clientVars, net>>
        /\ to_server' = [to_server EXCEPT ![fd] = Tail(@)]
    BY <1>17 DEF Execute
  <2>2. pc = "head" /\ Unanswered
    BY <1>0, <1>2, <1>17, <2>1 DEF StreamInv, Quiet
  <2>3. to_server[fd] = <<req>> /\ to_server[fd][1] = req /\ req \in Requests /\ rx = <<>> /\ to_client[fd] = <<>>
    <3>1. to_server[fd] = <<req>> /\ req \in Requests
      BY <1>17, <2>2 DEF Unanswered, TypeOK, AttemptInv, Requests
    <3>2. rx = <<>> /\ to_client[fd] = <<>>
      BY <1>2, <1>17, <2>2, StreamFacts DEF Unanswered
    <3> QED BY <3>1, <3>2
  <2>4. PICK final \in Responses(req) : to_client' = [to_client EXCEPT ![fd] = @ \o <<>> \o final]
    BY <1>17, <2>3 DEF Execute
  <2>5. /\ final \in Seq(Parts) /\ final[1] \in HeadsOf(req) /\ Len(final) = BodyLen(final[1]) + 1
        /\ \A i \in 1 .. Len(final) : final[i] = ResponsePart(final[1], i)
    BY <2>3, ResponseShape
  <2>6. Stream' = final
    <3>1. to_client'[fd] = to_client[fd] \o <<>> \o final
      BY <1>17, <2>4 DEF TypeOK
    <3>2. <<>> \o final = final /\ <<>> \o <<>> = <<>>
      BY <2>5, ConcatEmptySeq
    <3>3. fd' = fd /\ rx' = <<>>
      BY <2>1, <2>3 DEF clientVars
    <3> QED BY <2>3, <3>1, <3>2, <3>3 DEF Stream
  <2>7. to_server'[fd'] = <<>>
    BY <1>17, <2>1, <2>3 DEF TypeOK, clientVars
  <2>8. (\E h \in HeadsOf(req) : Incoming(h, 0))'
    <3>1. BodyLen(final[1])' = BodyLen(final[1]) /\ BodyLen(final[1]) \in Nat /\ UNCHANGED req
      BY <1>12, <2>1, <2>5 DEF BodyLen, HeadsOf, clientVars
    <3>2. \A i \in 1 .. Len(final) : 0 + i = i
      OBVIOUS
    <3>3. Incoming(final[1], 0)'
      BY <2>5, <2>6, <3>1, <3>2 DEF Incoming, Follows
    <3> QED BY <2>5, <3>1, <3>3
  <2> QED BY <1>0, <2>1, <2>2, <2>7, <2>8 DEF StreamInv, clientVars
<1>18. ASSUME NEW c \in Conns, Cut(c) PROVE StreamInv'
  <2>1. /\ UNCHANGED clientVars /\ net'[c] # "open" /\ \A d \in Conns : d # c => net'[d] = net[d]
        /\ \A d \in Conns : to_server'[d] = IF d = c THEN <<>> ELSE to_server[d]
    BY <1>18 DEF Cut, TypeOK
  <2>2. PICK k \in 0 .. Len(to_client[c]) : to_client' = [to_client EXCEPT ![c] = SubSeq(@, 1, k)]
    BY <1>18 DEF Cut
  <2>3. /\ to_client[c] \in Seq(Parts) /\ Len(to_client[c]) \in Nat
        /\ SubSeq(to_client[c], 1, k) \in Seq(Parts) /\ Len(SubSeq(to_client[c], 1, k)) = k
        /\ \A i \in 1 .. k : SubSeq(to_client[c], 1, k)[i] = to_client[c][i]
    BY CutSeq, LenProperties DEF TypeOK
  <2>4. \A d \in Conns : to_client'[d] = IF d = c THEN SubSeq(to_client[c], 1, k) ELSE to_client[d]
    BY <2>2 DEF TypeOK
  <2>5. UNCHANGED <<fd, rx, pc, req, method, out>>
    BY <2>1 DEF clientVars
  <2>6. pc \in Reading => fd \in Conns /\ req \in Requests
    BY <1>0 DEF AttemptInv, TypeOK, Requests
  <2>7. CASE fd \in Conns /\ fd # c
    <3>1. Stream' = Stream /\ to_server'[fd] = to_server[fd] /\ to_client'[fd] = to_client[fd] /\ net'[fd] = net[fd]
      BY <2>1, <2>4, <2>5, <2>7 DEF Stream
    <3>2. \A h \in Heads, n \in Nat : Incoming(h, n)' <=> Incoming(h, n)
      BY <2>5, <3>1 DEF Incoming, Follows, BodyLen
    <3>3. (pc \in BodyPhases => out \in Heads) /\ HeadsOf(req) \subseteq Heads
      BY DEF TypeOK, HeadsOf
    <3>4. (Unanswered' <=> Unanswered) /\ (Quiet' <=> Quiet)
      BY <2>5, <3>1 DEF Unanswered, Quiet
    <3> HIDE DEF Incoming, Quiet, Unanswered
    <3> QED BY <2>5, <3>1, <3>2, <3>3, <3>4 DEF StreamInv
  <2>8. CASE fd = c
    <3>1. /\ Stream' \in Seq(Parts) /\ Len(Stream') <= Len(Stream) /\ Len(Stream') \in Nat
          /\ \A i \in 1 .. Len(Stream') : Stream'[i] = Stream[i]
      <4>1. Stream' = rx \o SubSeq(to_client[c], 1, k) /\ Stream = rx \o to_client[c]
        BY <2>4, <2>5, <2>8 DEF Stream
      <4>2. rx \in Seq(Parts) /\ Len(rx) \in Nat
        BY LenProperties DEF TypeOK
      <4>3. /\ Stream' \in Seq(Parts) /\ Len(Stream') = Len(rx) + k
            /\ \A i \in 1 .. Len(rx) + k :
                 Stream'[i] = IF i <= Len(rx) THEN rx[i] ELSE SubSeq(to_client[c], 1, k)[i - Len(rx)]
        BY <2>3, <4>1, <4>2, ConcatProperties
      <4>4. /\ Len(Stream) = Len(rx) + Len(to_client[c])
            /\ \A i \in 1 .. Len(rx) + Len(to_client[c]) :
                 Stream[i] = IF i <= Len(rx) THEN rx[i] ELSE to_client[c][i - Len(rx)]
        BY <2>3, <4>1, <4>2, ConcatProperties
      <4>5. ASSUME NEW i \in 1 .. Len(rx) + k PROVE Stream'[i] = Stream[i]
        <5>1. i \in 1 .. Len(rx) + Len(to_client[c])
          BY <2>3, <4>2
        <5>2. CASE i <= Len(rx)
          BY <4>3, <4>4, <5>1, <5>2
        <5>3. CASE ~(i <= Len(rx))
          <6>1. i - Len(rx) \in 1 .. k
            BY <4>2, <5>3
          <6> QED BY <2>3, <4>3, <4>4, <5>1, <5>3, <6>1
        <5> QED BY <5>2, <5>3
      <4> QED BY <2>3, <4>2, <4>3, <4>4, <4>5
    <3>2. to_server'[fd'] = <<>> /\ net'[fd'] # "open"
      BY <2>1, <2>5, <2>8
    <3>3. \A h \in Heads, n \in Nat : Incoming(h, n) => Incoming(h, n)'
      <4> SUFFICES ASSUME NEW h \in Heads, NEW n \in Nat, Incoming(h, n) PROVE Incoming(h, n)'
        OBVIOUS
      <4>1. BodyLen(h)' = BodyLen(h) /\ BodyLen(h) \in Nat
        BY <1>12, <2>5 DEF BodyLen
      <4>2. n + Len(Stream) <= BodyLen(h) + 1 /\ Len(Stream) \in Nat
        BY <1>2, <2>8, StreamFacts DEF Incoming, Follows
      <4>3. \A i \in 1 .. Len(Stream') : Stream'[i] = ResponsePart(h, n + i)
        BY <3>1, <4>2 DEF Incoming, Follows
      <4>4. n + Len(Stream') <= BodyLen(h) + 1
        BY <3>1, <4>1, <4>2
      <4> QED BY <3>2, <4>1, <4>3, <4>4 DEF Incoming, Follows
    <3>4. CASE pc \notin Reading
      <4>1. rx = <<>> /\ to_client[c] = <<>>
        BY <1>2, <2>8, <3>4 DEF StreamInv, Quiet
      <4>2. SubSeq(to_client[c], 1, k) = <<>>
        BY <2>3, <4>1, EmptySeq
      <4>3. to_client'[c] = <<>>
        BY <2>4, <4>2
      <4> QED BY <1>0, <2>5, <2>8, <3>2, <3>4, <4>1, <4>3 DEF StreamInv, Quiet
    <3>5. CASE pc = "head"
      <4>1. CASE Unanswered
        <5>1. Stream = <<>>
          BY <4>1 DEF Unanswered
        <5>2. Len(Stream) = 0
          BY <5>1, EmptySeq
        <5>3. Stream' = <<>>
          BY <3>1, <5>2, EmptySeq
        <5>4. (\E h \in HeadsOf(req) : Incoming(h, 0))'
          BY <1>0, <1>13, <2>5, <2>6, <3>2, <3>5, <5>3
        <5> QED BY <1>0, <2>5, <3>2, <3>5, <5>4 DEF StreamInv
      <4>2. CASE \E h \in HeadsOf(req) : Incoming(h, 0)
        <5>1. (\E h \in HeadsOf(req) : Incoming(h, 0))'
          BY <2>5, <3>3, <4>2 DEF HeadsOf
        <5> QED BY <1>0, <2>5, <3>2, <3>5, <5>1 DEF StreamInv
      <4> QED BY <3>5, <4>1, <4>2 DEF StreamInv
    <3>6. CASE pc \in BodyPhases
      <4>1. out \in Heads /\ Incoming(out, 1) /\ out.req = req /\ out.framing = pc /\ method[req] # "HEAD"
        BY <3>6 DEF StreamInv, TypeOK
      <4>2. Incoming(out, 1)'
        BY <2>5, <3>3, <4>1
      <4> QED BY <1>0, <2>5, <3>2, <3>6, <4>1, <4>2 DEF StreamInv
    <3> QED BY <1>0, <3>4, <3>5, <3>6
  <2>9. CASE fd \notin Conns
    BY <1>0, <2>5, <2>6, <2>9 DEF StreamInv, Quiet, TypeOK
  <2> QED BY <2>7, <2>8, <2>9
<1>19. CASE UNCHANGED vars
  <2>1. UNCHANGED <<fd, rx, pc, req, method, out, to_client, to_server, net>>
    BY <1>19 DEF vars
  <2> QED BY <2>1 DEF StreamInv, Quiet, Unanswered, Incoming, Follows, BodyLen, Stream
<1> QED BY StreamKinds, <1>5, <1>6, <1>7, <1>8, <1>9, <1>10, <1>11, <1>14, <1>15, <1>16, <1>17, <1>18, <1>19

LEMMA AnsweredStep ==
    ASSUME TypeOK, AttemptInv, ResultInv, StreamInv, AnsweredInv, ~Interim, [Next]_vars
    PROVE  AnsweredInv'
<1> USE ExchangeAssumption
<1>0. /\ "ready" \notin Reading /\ "attempt" \notin Reading /\ "write" \notin Reading
      /\ "head" \in Reading /\ "head" \notin BodyPhases /\ BodyPhases \subseteq Reading
      /\ \A c \in Conns : c # NoConn
      /\ \A p \in Reading : p # "head" => p \in BodyPhases
  BY DEF Reading, BodyPhases, Framings, Conns, NoConn
<1>1. ASSUME pc' \notin Reading, UNCHANGED result PROVE AnsweredInv'
  BY <1>0, <1>1 DEF AnsweredInv
<1>2. CASE \/ \E m \in Methods : Call(m)
           \/ UseConnection \/ Dial
  BY <1>0, <1>1, <1>2 DEF Call, UseConnection, Dial
<1>3. CASE DialFails \/ Failing
  <2>1. CASE pc' = "attempt" /\ UNCHANGED result
    BY <1>0, <1>1, <2>1
  <2>2. CASE Return(Failure)
    BY <1>0, <2>2 DEF Return, AnsweredInv, Failure, TypeOK
  <2> QED BY <1>3, <2>1, <2>2 DEF DialFails, Failing, Fail
<1>4. CASE Write
  <2>1. rx = <<>> /\ to_client[fd] = <<>>
    BY <1>0, <1>4 DEF Write, StreamInv, Quiet, AttemptInv
  <2>2. Stream' = <<>>
    BY <1>4, <2>1 DEF Write, Stream
  <2> QED BY <1>0, <1>4, <2>2 DEF Write, AnsweredInv
<1>5. CASE ReadMore
  <2>1. UNCHANGED <<pc, req, executed, result>> /\ fd \in Conns /\ \E k \in 1 .. Len(to_client[fd]) : TRUE
    BY <1>5 DEF ReadMore, NeedsMore, Reading, BodyPhases, Framings, AttemptInv, TypeOK
  <2>2. Stream # <<>>
    BY <1>0, <2>1, StreamFacts
  <2> QED BY <2>1, <2>2 DEF AnsweredInv
<1>6. CASE BodyBegins
  BY <1>0, <1>6, PartFacts DEF BodyBegins, ServerIdle, HeadsOf, BodyPhases, AnsweredInv
<1>7. ASSUME NEW head, NEW got, Completing(head, got) PROVE AnsweredInv'
  <2>1. /\ pc' = "ready" /\ result' = [result EXCEPT ![req] = Success(head, got)] /\ head.req = req
    BY <1>7 DEF Completing, Return
  <2>2. Success(head, got).req = req
    BY <2>1 DEF Success
  <2> QED BY <1>0, <2>1, <2>2 DEF AnsweredInv, TypeOK
<1>8. ASSUME NEW c \in Conns, Execute(c) PROVE AnsweredInv'
  <2>1. UNCHANGED <<clientVars, net>> /\ to_server[c] # <<>> /\ req \in Nat
    BY <1>8 DEF Execute, TypeOK
  <2>2. to_server[c] \in Seq(Requests) /\ to_server[c][1] \in Requests
    <3>1. to_server[c] \in Seq(Requests) /\ Len(to_server[c]) \in Nat \ {0}
      BY <2>1, EmptySeq DEF TypeOK
    <3> QED BY <3>1, ElementOfSeq
  <2>3. \A r \in Requests : executed'[r] = IF r = to_server[c][1] THEN executed[r] + 1 ELSE executed[r]
    BY <1>8, <2>2 DEF Execute, TypeOK
  <2>4. \A r \in Requests : executed[r] \in Nat /\ (executed[r] > 0 => executed'[r] > 0)
    <3>1. \A r \in Requests : executed[r] \in Nat
      BY DEF TypeOK
    <3> QED BY <2>3, <3>1
  <2>5. pc \in Reading => req \in Requests /\ fd \in Conns
    BY <1>0 DEF AttemptInv, TypeOK, Requests
  <2>6. CASE c = fd
    <3>1. pc = "head" /\ to_server[fd] = <<req>>
      <4>1. fd # NoConn
        BY <1>0, <2>6
      <4>2. pc \in Reading
        BY <2>1, <2>6, <4>1 DEF StreamInv, Quiet
      <4>3. pc = "head"
        BY <1>0, <2>1, <2>6, <4>2 DEF StreamInv
      <4> QED BY <2>1, <2>6, <4>3 DEF StreamInv, Unanswered
    <3>2. executed'[req] > 0
      <4>1. to_server[c][1] = req /\ req \in Requests /\ executed[req] \in Nat
        BY <1>0, <2>4, <2>5, <2>6, <3>1
      <4>2. executed'[req] = executed[req] + 1
        BY <2>3, <4>1
      <4> QED BY <4>1, <4>2
    <3> QED BY <1>0, <2>1, <3>1, <3>2 DEF AnsweredInv, clientVars
  <2>7. CASE c # fd
    <3>1. Stream' = Stream
      BY <1>8, <2>1, <2>7 DEF Execute, Stream, clientVars
    <3> QED BY <1>0, <2>1, <2>4, <2>5, <3>1 DEF AnsweredInv, clientVars
  <2> QED BY <2>6, <2>7
<1>9. ASSUME NEW c \in Conns, Cut(c) PROVE AnsweredInv'
  <2>1. UNCHANGED <<clientVars, executed>>
    BY <1>9 DEF Cut
  <2>2. fd \in Conns /\ Stream = <<>> => Stream' = <<>>
    <3> SUFFICES ASSUME fd \in Conns, Stream = <<>> PROVE Stream' = <<>>
      OBVIOUS
    <3>1. rx = <<>> /\ to_client[fd] = <<>>
      BY <1>0, StreamFacts
    <3>2. PICK k \in 0 .. Len(to_client[c]) : to_client' = [to_client EXCEPT ![c] = SubSeq(@, 1, k)]
      BY <1>9 DEF Cut
    <3>3. c = fd => SubSeq(to_client[c], 1, k) = <<>>
      BY <3>1, SubSeqEmpty, EmptySeq
    <3>4. to_client'[fd] = <<>>
      BY <3>1, <3>2, <3>3 DEF TypeOK
    <3> QED BY <2>1, <3>1, <3>4 DEF Stream, clientVars
  <2>3. pc \in Reading => fd \in Conns
    BY <1>0 DEF AttemptInv, TypeOK
  <2> QED BY <1>0, <2>1, <2>2, <2>3 DEF AnsweredInv, clientVars
<1>10. CASE UNCHANGED vars
  BY <1>10 DEF vars, AnsweredInv, Stream
<1> QED BY StreamKinds, <1>2, <1>3, <1>4, <1>5, <1>6, <1>7, <1>8, <1>9, <1>10

LEMMA TruncatedStep ==
    ASSUME TypeOK, AttemptInv, ResultInv, StreamInv, NeverTruncated, [Next]_vars
    PROVE  NeverTruncated'
<1> USE ExchangeAssumption
<1>1. ASSUME UNCHANGED <<result, method>> PROVE NeverTruncated'
  BY <1>1 DEF NeverTruncated
<1>2. ASSUME NEW m \in Methods, Call(m) PROVE NeverTruncated'
  <2>1. UNCHANGED result /\ \A r \in Requests : r # req + 1 => method'[r] = method[r]
    BY <1>2 DEF Call, TypeOK
  <2>2. \A r \in Requests : r = req + 1 => result[r].kind = "pending"
    BY DEF ResultInv, Pending, TypeOK
  <2> QED BY <2>1, <2>2 DEF NeverTruncated
<1>3. ASSUME Return(Failure), UNCHANGED method PROVE NeverTruncated'
  BY <1>3 DEF Return, NeverTruncated, Failure, TypeOK
<1>4. CASE DialFails \/ Failing
  BY <1>1, <1>3, <1>4 DEF DialFails, Failing, Fail, ServerIdle
<1>5. ASSUME NEW head, NEW got, Completing(head, got) PROVE NeverTruncated'
  <2>1. result' = [result EXCEPT ![req] = Success(head, got)] /\ UNCHANGED method
    BY <1>5 DEF Completing, Return, ServerIdle
  <2>2. /\ Success(head, got).got = got /\ Success(head, got).size = head.size
        /\ Success(head, got).framing = head.framing /\ Success(head, got).eof = (net[fd] = "fin")
    BY DEF Success
  <2>3. method[req] = "HEAD" \/ got = head.size \/ (head.framing = "eof" /\ got < head.size /\ net[fd] = "fin")
    BY <1>5 DEF Completing
  <2> HIDE DEF Success
  <2> QED BY <2>1, <2>2, <2>3 DEF NeverTruncated, TypeOK
<1>6. CASE UseConnection \/ Dial \/ Write \/ ReadMore \/ BodyBegins \/ UNCHANGED vars
  BY <1>1, <1>6 DEF UseConnection, Dial, Write, ReadMore, BodyBegins, ServerIdle, vars
<1>7. ASSUME NEW c \in Conns, Execute(c) \/ Cut(c) PROVE NeverTruncated'
  BY <1>1, <1>7 DEF Execute, Cut, clientVars
<1> QED BY StreamKinds, <1>2, <1>4, <1>5, <1>6, <1>7

-----------------------------------------------------------------------------
(* A server that answers each request once: what is received and not         *)
(* consumed is what remains of the response to the current request.          *)
THEOREM ExchangeInvariance == Spec => []ExchangeInv
<1>1. Init => ExchangeInv
  <2> SUFFICES ASSUME Init PROVE ExchangeInv
    OBVIOUS
  <2>1. pc \notin Reading /\ pc # "head" /\ pc \notin BodyPhases
    BY DEF Init, Reading, BodyPhases, Framings
  <2>2. StreamInv
    BY <2>1 DEF Init, StreamInv, Quiet
  <2>3. AnsweredInv /\ NeverTruncated
    BY <2>1 DEF Init, AnsweredInv, NeverTruncated, Pending
  <2> QED BY <2>2, <2>3, InitRetry DEF ExchangeInv
<1>2. ExchangeInv /\ [Next]_vars => ExchangeInv'
  <2> SUFFICES ASSUME ExchangeInv, [Next]_vars PROVE ExchangeInv'
    OBVIOUS
  <2>1. RetryInv'
    BY TypeStep, AttemptStep, ConnStep, SentStep, ResultStep DEF ExchangeInv, RetryInv
  <2>2. ASSUME ~Interim PROVE StreamInv' /\ AnsweredInv' /\ NeverTruncated'
    BY <2>2, StreamStep, AnsweredStep, TruncatedStep DEF ExchangeInv, RetryInv
  <2> QED BY <2>1, <2>2 DEF ExchangeInv
<1> QED BY <1>1, <1>2, PTL DEF Spec

(* Between requests, and before a retry, a kept connection is clean: the      *)
(* comment in ReadResponse, "there must be nothing after the body until our   *)
(* next request", holds of every framing.                                   *)
THEOREM KeptConnectionsAreClean == Spec => [](~Interim => KeptAliveIsClean)
<1>1. ExchangeInv => (~Interim => KeptAliveIsClean)
  <2>1. "ready" \notin Reading /\ "attempt" \notin Reading
    BY DEF Reading, BodyPhases, Framings
  <2> QED BY <2>1 DEF ExchangeInv, StreamInv, Quiet, KeptAliveIsClean
<1> QED BY <1>1, ExchangeInvariance, PTL

(* ReadResponse delivers no truncated body: an error or a timeout never       *)
(* passes for the end of one, whatever the network cuts off.                *)
THEOREM BodiesAreWhole == Spec => [](~Interim => NeverTruncated)
<1>1. ExchangeInv => (~Interim => NeverTruncated)
  BY DEF ExchangeInv
<1> QED BY <1>1, ExchangeInvariance, PTL

-----------------------------------------------------------------------------
(* Every step of the round trips is a step of the at-most-once call.         *)
PhaseMap == [r \in Requests |-> Phase(r)]
WriteMap == {r \in Requests : HasBody(r)}

LEMMA SamePhases ==
    ASSUME UNCHANGED <<req, method, result>>
    PROVE  PhaseMap' = PhaseMap /\ WriteMap' = WriteMap
BY DEF PhaseMap, WriteMap, Phase, HasBody

LEMMA StepRefines ==
    ASSUME ExchangeInv, ~Interim, [Next]_vars
    PROVE  [Abstract!AbsNext]_(Abstract!absVars)
<1> USE ExchangeAssumption
<1>1. RetryInv /\ TypeOK /\ AttemptInv /\ ConnInv /\ SentInv /\ ResultInv /\ StreamInv /\ AnsweredInv
  BY DEF ExchangeInv, RetryInv
<1>2. /\ Abstract!absVars = <<WriteMap, PhaseMap, executed>>
      /\ Abstract!absVars' = <<WriteMap', PhaseMap', executed'>>
  BY DEF Abstract!absVars, WriteMap, PhaseMap
<1>3. ASSUME UNCHANGED <<req, method, result, executed>> PROVE UNCHANGED Abstract!absVars
  BY <1>2, <1>3, SamePhases
<1>4. /\ req \in Nat /\ N \in Nat /\ (pc # "ready" => req \in Requests)
      /\ "attempt" # "ready" /\ "ready" \notin Reading
  BY <1>1 DEF TypeOK, AttemptInv, Requests, Reading, BodyPhases, Framings
<1>5. \A r \in Requests : Phase(r) = "running" <=> r = req /\ pc # "ready"
  <2> SUFFICES ASSUME NEW r \in Requests PROVE Phase(r) = "running" <=> r = req /\ pc # "ready"
    OBVIOUS
  <2>1. result[r].kind = "pending" <=> result[r] = Pending
    BY <1>1 DEF TypeOK, Answers, Pending, Failure
  <2>2. result[r] = Pending <=> r > req \/ (r = req /\ pc # "ready")
    BY <1>1 DEF ResultInv
  <2>3. r = req => ~(r > req)
    BY <1>4
  <2> QED BY <2>1, <2>2, <2>3 DEF Phase
<1>6. ASSUME NEW m \in Methods, Call(m) PROVE Abstract!Start(req + 1)
  <2>1. /\ pc = "ready" /\ req + 1 \in Requests /\ req' = req + 1
        /\ method' = [method EXCEPT ![req + 1] = m] /\ UNCHANGED <<result, executed>>
    BY <1>4, <1>6 DEF Call, Requests
  <2>2. PhaseMap[req + 1] = "new" /\ \A q \in Requests : PhaseMap[q] # "running"
    BY <1>4, <1>5, <2>1 DEF PhaseMap, Phase
  <2>3. result[req + 1].kind = "pending"
    BY <1>1, <1>4, <2>1 DEF ResultInv, Pending
  <2>4. PhaseMap' = [PhaseMap EXCEPT ![req + 1] = "running"]
    <3>1. \A r \in Requests : r # req + 1 => (r > req' <=> r > req)
      BY <1>4, <2>1 DEF Requests
    <3>2. ~(req + 1 > req')
      BY <1>4, <2>1
    <3> QED BY <2>1, <2>3, <3>1, <3>2 DEF PhaseMap, Phase
  <2>5. WriteMap' \in {WriteMap, WriteMap \cup {req + 1}}
    <3>1. req + 1 \notin WriteMap
      BY <1>1, <1>4, <2>1 DEF AttemptInv, WriteMap, HasBody
    <3>2. \A r \in Requests : r # req + 1 => (HasBody(r)' <=> HasBody(r))
      BY <1>1, <2>1 DEF TypeOK, HasBody
    <3> QED BY <2>1, <3>1, <3>2 DEF WriteMap
  <2> QED BY <2>1, <2>2, <2>4, <2>5 DEF Abstract!Start, PhaseMap, WriteMap
<1>7. ASSUME NEW res, Return(res), pc # "ready", UNCHANGED <<req, method, executed>>
      PROVE  /\ req \in Requests /\ PhaseMap[req] = "running" /\ UNCHANGED <<WriteMap, executed>>
             /\ res.kind = "error" => PhaseMap' = [PhaseMap EXCEPT ![req] = "failed"]
             /\ res.kind = "ok" /\ res.req = req => PhaseMap' = [PhaseMap EXCEPT ![req] = "answered"]
  <2>1. /\ req \in Requests /\ ~(req > req) /\ req' = req
        /\ result' = [result EXCEPT ![req] = res] /\ result'[req] = res
        /\ \A r \in Requests : r # req => result'[r] = result[r]
    BY <1>1, <1>4, <1>7 DEF Return, TypeOK
  <2>2. \A r \in Requests : r # req => Phase(r)' = Phase(r)
    BY <2>1 DEF Phase
  <2>3. res.kind = "error" => Phase(req)' = "failed"
    BY <2>1 DEF Phase
  <2>4. res.kind = "ok" /\ res.req = req => Phase(req)' = "answered"
    BY <2>1 DEF Phase
  <2>5. PhaseMap[req] = "running" /\ WriteMap' = WriteMap
    BY <1>5, <1>7, <2>1 DEF PhaseMap, WriteMap, HasBody
  <2>6. /\ res.kind = "error" => PhaseMap' = [PhaseMap EXCEPT ![req] = "failed"]
        /\ res.kind = "ok" /\ res.req = req => PhaseMap' = [PhaseMap EXCEPT ![req] = "answered"]
    BY <2>1, <2>2, <2>3, <2>4 DEF PhaseMap
  <2> QED BY <1>7, <2>1, <2>5, <2>6
<1>8. CASE DialFails \/ Failing
  <2>1. UNCHANGED <<req, method, executed>> /\ pc # "ready"
    BY <1>4, <1>8 DEF DialFails, Failing, ServerIdle
  <2>2. CASE UNCHANGED result
    BY <1>3, <2>1, <2>2
  <2>3. CASE Return(Failure)
    <3>1. Failure.kind = "error"
      BY DEF Failure
    <3>2. /\ req \in Requests /\ PhaseMap[req] = "running" /\ UNCHANGED <<WriteMap, executed>>
          /\ PhaseMap' = [PhaseMap EXCEPT ![req] = "failed"]
      BY <1>7, <2>1, <2>3, <3>1
    <3>3. Abstract!Fail(req)
      BY <3>2 DEF Abstract!Fail, PhaseMap, WriteMap
    <3> QED BY <3>2, <3>3 DEF Abstract!AbsNext, Abstract!End
  <2> QED BY <1>8, <2>2, <2>3 DEF DialFails, Failing, Fail
<1>9. ASSUME NEW head, NEW got, Completing(head, got) PROVE req \in Requests /\ Abstract!Answer(req)
  <2>1. /\ UNCHANGED <<req, method, executed>> /\ pc # "ready" /\ Return(Success(head, got)) /\ head.req = req
        /\ executed[req] > 0
    <3>1. pc = "head" \/ pc \in BodyPhases
      BY <1>9 DEF Completing, Reading
    <3> QED BY <1>1, <1>4, <1>9, <3>1 DEF Completing, ServerIdle, AnsweredInv
  <2>2. Success(head, got).kind = "ok" /\ Success(head, got).req = req
    BY <2>1 DEF Success
  <2>3. /\ req \in Requests /\ PhaseMap[req] = "running" /\ UNCHANGED <<WriteMap, executed>>
        /\ PhaseMap' = [PhaseMap EXCEPT ![req] = "answered"]
    BY <1>7, <2>1, <2>2
  <2> QED BY <2>1, <2>3 DEF Abstract!Answer, PhaseMap, WriteMap
<1>10. ASSUME NEW c \in Conns, Execute(c) PROVE \E r \in Requests : Abstract!Execute(r)
  <2> DEFINE r == to_server[c][1]
  <2>1. /\ UNCHANGED <<req, method, result>> /\ executed' = [executed EXCEPT ![r] = @ + 1]
        /\ to_server[c] # <<>> /\ to_server[c] \in Seq(Requests)
    BY <1>1, <1>10 DEF Execute, clientVars, TypeOK
  <2>2. 1 \in 1 .. Len(to_server[c]) /\ r \in Requests
    <3>1. Len(to_server[c]) \in Nat \ {0}
      BY <2>1, EmptySeq, LenProperties
    <3> QED BY <2>1, <3>1, ElementOfSeq
  <2> HIDE DEF r
  <2>3. Waiting(r) # {}
    <3>1. Queued(r, c)
      BY <2>2 DEF Queued, r
    <3> QED BY <3>1 DEF Waiting
  <2>4. executed[r] < Allowance(r) /\ executed[r] \in Nat
    <3>1. IsFiniteSet(Waiting(r)) /\ Cardinality(Waiting(r)) \in Nat
      BY <1>1, <2>2, QueueFacts
    <3>2. Cardinality(Waiting(r)) # 0
      BY <2>3, <3>1, FS_EmptySet
    <3>3. executed[r] + Cardinality(Waiting(r)) <= Allowance(r)
      BY <1>1, <2>2 DEF SentInv
    <3>4. executed[r] \in Nat
      BY <1>1, <2>2 DEF TypeOK
    <3>5. Allowance(r) \in Nat
      BY DEF Allowance, Limit
    <3> QED BY <3>1, <3>2, <3>3, <3>4, <3>5
  <2>5. ~(r > req) /\ executed[r] < Limit(r)
    <3>1. Limit(r) \in {1, 2}
      BY DEF Limit
    <3>2. Allowance(r) \in {0, Limit(r) - 1, 1, Limit(r)} /\ (r > req => Allowance(r) = 0)
      BY DEF Allowance
    <3> QED BY <2>4, <3>1, <3>2
  <2>6. PhaseMap[r] # "new" /\ UNCHANGED <<PhaseMap, WriteMap>>
    BY <2>1, <2>2, <2>5, SamePhases DEF PhaseMap, Phase
  <2>7. Limit(r) = IF r \in WriteMap THEN 1 ELSE 2
    BY <2>2 DEF Limit, WriteMap
  <2>8. Abstract!Execute(r)
    BY <2>1, <2>5, <2>6, <2>7 DEF Abstract!Execute, Abstract!Limit, PhaseMap, WriteMap
  <2> QED BY <2>2, <2>8
<1>11. CASE UseConnection \/ Dial \/ Write \/ ReadMore \/ BodyBegins \/ UNCHANGED vars
  BY <1>3, <1>11 DEF UseConnection, Dial, Write, ReadMore, BodyBegins, ServerIdle, vars
<1>12. ASSUME NEW c \in Conns, Cut(c) PROVE UNCHANGED Abstract!absVars
  BY <1>3, <1>12 DEF Cut, clientVars
<1>13. (\E m \in Methods : Call(m)) => Abstract!AbsNext
  <2> SUFFICES ASSUME NEW m \in Methods, Call(m) PROVE Abstract!AbsNext
    OBVIOUS
  <2>1. req + 1 \in Requests
    BY <1>4 DEF Call, Requests
  <2>2. Abstract!Start(req + 1)
    BY <1>6
  <2> QED BY <2>1, <2>2 DEF Abstract!AbsNext
<1>14. (\E head, got : Completing(head, got)) => Abstract!AbsNext
  BY <1>9 DEF Abstract!AbsNext, Abstract!End
<1>15. (\E c \in Conns : Execute(c)) => Abstract!AbsNext
  BY <1>10 DEF Abstract!AbsNext
<1> QED BY <1>1, <1>8, <1>11, <1>12, <1>13, <1>14, <1>15, StreamKinds

(* The safety of ImplementsAtMostOnce: a request is answered only after the   *)
(* server executed it and with its own response, a POST or PUT is executed at *)
(* most once, any other at most twice, one call is under way at a time.       *)
THEOREM RoundTripsAreAtMostOnce ==
    ~Interim /\ Spec => Abstract!AbsInit /\ [][Abstract!AbsNext]_(Abstract!absVars)
<1>1. Init => Abstract!AbsInit
  BY ExchangeAssumption DEF Init, Abstract!AbsInit, Phase, HasBody, Requests, Pending
<1>2. ExchangeInv /\ ~Interim /\ [Next]_vars => [Abstract!AbsNext]_(Abstract!absVars)
  BY StepRefines
<1>3. ~Interim => [](~Interim)
  OBVIOUS
<1> QED BY <1>1, <1>2, <1>3, ExchangeInvariance, PTL DEF Spec
=============================================================================
