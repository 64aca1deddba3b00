------------------------------ MODULE Http_proofs ------------------------------
(* Proofs about the two modules of the HTTP side that need no more than       *)
(* themselves: HttpPool, for any set of threads, clients and URLs and any cap, *)
(* and Framing, for any responses.                                          *)
(*                                                                          *)
(* The inductive invariant of HttpPool is IInv: besides the properties it     *)
(* says which objects exist (Existence), that what a thread decided from      *)
(* IsTailnetHost is still true when it acts on it (Routing, which rests on    *)
(* suffixes never being removed), and that a client of the previous util is   *)
(* never for a built-in tailnet host (Foreign).                             *)
(*                                                                          *)
(* That of Framing is FramingInv: what is not consumed is the stream from a    *)
(* byte of the response on that the phase and the body determine (Position):  *)
(* the end of a chunk, of a size line, of a trailer.  Where these stand in a   *)
(* response of any number of chunks is ChunkedShape; it rests on FlattenSeq    *)
(* being the last of the sums of its parts (Flattened), an induction.         *)
EXTENDS HttpPool, Framing, TLAPS, SequenceTheorems, WellFoundedInduction

-----------------------------------------------------------------------------
(* HttpPool                                                                 *)
Existence ==
    /\ \A t \in Threads : lease[t] # NoClient <=> Holding(t)
    /\ \A t \in Threads : Holding(t) => kind[lease[t]] # "none"
    /\ \A u \in Urls : \A i \in DOMAIN idle_clients[u] :
         kind[idle_clients[u][i]] # "none" /\ base[idle_clients[u][i]] = u

Routing ==
    /\ Builtin \subseteq registered
    /\ \A t \in Threads : pc[t] \in {"pool_init", "pool_close"} => IsTailnetHost(url[t])
    /\ \A t \in Threads : pc[t] = "prev_close" => kind[lease[t]] = "delegate"
    /\ \A t \in Threads : Holding(t) =>
         /\ base[lease[t]] = url[t]
         /\ kind[lease[t]] = "tailscale" => IsTailnetHost(url[t])
    /\ \A u \in Urls : idle_clients[u] # <<>> => IsTailnetHost(u)

ForeignUrl(u) == u \in Https \/ SuffixOf[u] \notin Builtin

Foreign ==
    /\ \A t \in Threads : pc[t] = "prev_init" => ForeignUrl(url[t])
    /\ \A c \in Clients : kind[c] = "delegate" => ForeignUrl(base[c])

IInv == TypeOK /\ Existence /\ ExclusiveLease /\ NoConnectionLeak
        /\ Routing /\ OursStayOurs /\ Foreign

-----------------------------------------------------------------------------
(* pop_back leaves the other elements of the bucket where they were.        *)
LEMMA PopBack ==
    ASSUME NEW S, NEW q \in Seq(S), q # <<>>
    PROVE  LET p == SubSeq(q, 1, Len(q) - 1) IN
           /\ p \in Seq(S)
           /\ Len(p) = Len(q) - 1
           /\ DOMAIN p = 1 .. Len(q) - 1
           /\ \A i \in DOMAIN p : p[i] = q[i] /\ i \in DOMAIN q
           /\ Len(q) \in DOMAIN q
           /\ Len(q) \notin DOMAIN p
           /\ q[Len(q)] \in S
<1> DEFINE p == SubSeq(q, 1, Len(q) - 1)
<1>1. Len(q) \in Nat \ {0} /\ DOMAIN q = 1 .. Len(q) /\ q \in [1 .. Len(q) -> S]
  BY EmptySeq, LenProperties
<1>2. /\ p \in Seq(S)
      /\ Len(p) = IF 1 <= Len(q) - 1 THEN Len(q) - 1 - 1 + 1 ELSE 0
      /\ \A i \in 1 .. Len(q) - 1 - 1 + 1 : p[i] = q[1 + i - 1]
  <2>1. \A i \in 1 .. Len(q) - 1 : q[i] \in S
    BY <1>1
  <2> HIDE DEF p
  <2> QED  BY <1>1, <2>1, SubSeqProperties DEF p
<1>3. Len(p) = Len(q) - 1
  BY <1>1, <1>2
<1>4. DOMAIN p = 1 .. Len(q) - 1
  BY <1>2, <1>3, LenProperties
<1> HIDE DEF p
<1>5. \A i \in DOMAIN p : p[i] = q[i] /\ i \in DOMAIN q
  <2> SUFFICES ASSUME NEW i \in 1 .. Len(q) - 1 PROVE p[i] = q[i] /\ i \in 1 .. Len(q)
    BY <1>1, <1>4
  <2>1. i \in 1 .. Len(q) - 1 - 1 + 1 /\ 1 + i - 1 = i /\ i \in 1 .. Len(q)
    BY <1>1
  <2> QED  BY <1>2, <2>1
<1>6. Len(q) \in DOMAIN q /\ Len(q) \notin DOMAIN p /\ q[Len(q)] \in S
  BY <1>1, <1>4
<1> QED  BY <1>2, <1>3, <1>4, <1>5, <1>6 DEF p

(* push_back adds one element at the end.                                   *)
LEMMA PushBack ==
    ASSUME NEW S, NEW q \in Seq(S), NEW c \in S
    PROVE  /\ Append(q, c) \in Seq(S)
           /\ Len(Append(q, c)) = Len(q) + 1
           /\ DOMAIN Append(q, c) = DOMAIN q \cup {Len(q) + 1}
           /\ \A i \in DOMAIN q : Append(q, c)[i] = q[i]
           /\ Append(q, c)[Len(q) + 1] = c
           /\ Append(q, c) # <<>>
<1>1. Len(q) \in Nat /\ DOMAIN q = 1 .. Len(q)
  BY LenProperties
<1>2. /\ Append(q, c) \in Seq(S)
      /\ Len(Append(q, c)) = Len(q) + 1
      /\ \A i \in 1 .. Len(q) : Append(q, c)[i] = q[i]
      /\ Append(q, c)[Len(q) + 1] = c
      /\ Append(q, c) # <<>>
  BY AppendProperties
<1>3. DOMAIN Append(q, c) = 1 .. Len(q) + 1
  BY <1>2, LenProperties
<1>4. DOMAIN Append(q, c) = DOMAIN q \cup {Len(q) + 1}
  BY <1>1, <1>3
<1> QED  BY <1>1, <1>2, <1>4

(* TakeIdle in terms of the pool's places: the last one of the bucket goes, *)
(* the others stay as they are.                                             *)
LEMMA TakeIdlePlaces ==
    ASSUME TypeOK, NEW t \in Threads, TakeIdle(t)
    PROVE  LET n == Len(idle_clients[url[t]]) IN
           /\ idle_clients' \in [Urls -> Seq(Clients)]
           /\ \A u \in Urls : \A i \in DOMAIN idle_clients'[u] :
                /\ i \in DOMAIN idle_clients[u]
                /\ idle_clients'[u][i] = idle_clients[u][i]
           /\ \A u \in Urls : \A i \in DOMAIN idle_clients[u] :
                i \in DOMAIN idle_clients'[u] \/ (u = url[t] /\ i = n)
           /\ n \in DOMAIN idle_clients[url[t]] /\ n \notin DOMAIN idle_clients'[url[t]]
           /\ lease' = [lease EXCEPT ![t] = idle_clients[url[t]][n]]
           /\ idle_clients[url[t]][n] \in Clients
           /\ \A u \in Urls : Len(idle_clients'[u]) <= Len(idle_clients[u])
           /\ \A u \in Urls : idle_clients'[u] # <<>> => idle_clients[u] # <<>>
<1> DEFINE q == idle_clients[url[t]]
           p == SubSeq(q, 1, Len(q) - 1)
<1>1. /\ url[t] \in Urls /\ q \in Seq(Clients) /\ q # <<>>
      /\ idle_clients' = [idle_clients EXCEPT ![url[t]] = p]
      /\ lease' = [lease EXCEPT ![t] = q[Len(q)]]
  BY DEF TakeIdle, TypeOK
<1>2. /\ p \in Seq(Clients)
      /\ Len(p) = Len(q) - 1
      /\ DOMAIN p = 1 .. Len(q) - 1
      /\ \A i \in DOMAIN p : p[i] = q[i] /\ i \in DOMAIN q
      /\ Len(q) \in DOMAIN q /\ Len(q) \notin DOMAIN p
      /\ q[Len(q)] \in Clients
  BY <1>1, PopBack
<1>3. Len(q) \in Nat /\ DOMAIN q = 1 .. Len(q)
  BY <1>1, LenProperties
<1>4. \A u \in Urls : idle_clients[u] \in Seq(Clients) /\ Len(idle_clients[u]) \in Nat
  BY LenProperties DEF TypeOK
<1>5. /\ idle_clients'[url[t]] = p
      /\ \A u \in Urls : u # url[t] => idle_clients'[u] = idle_clients[u]
  BY <1>1 DEF TypeOK
<1> HIDE DEF p
<1>6. idle_clients' \in [Urls -> Seq(Clients)]
  BY <1>1, <1>2 DEF TypeOK
<1>7. \A u \in Urls : \A i \in DOMAIN idle_clients'[u] :
         i \in DOMAIN idle_clients[u] /\ idle_clients'[u][i] = idle_clients[u][i]
  BY <1>2, <1>5
<1>8. \A u \in Urls : \A i \in DOMAIN idle_clients[u] :
         i \in DOMAIN idle_clients'[u] \/ (u = url[t] /\ i = Len(q))
  BY <1>2, <1>3, <1>5
<1>9. \A u \in Urls : Len(idle_clients'[u]) <= Len(idle_clients[u])
  BY <1>1, <1>2, <1>3, <1>4, <1>5
<1>10. \A u \in Urls : idle_clients'[u] # <<>> => idle_clients[u] # <<>>
  BY <1>1, <1>5
<1> QED  BY <1>1, <1>2, <1>5, <1>6, <1>7, <1>8, <1>9, <1>10

(* The push_back of ReturnToPool in the same terms: one place more, which   *)
(* holds the returned client.                                               *)
Pushed(t) ==
    LET c == lease[t]
        n == Len(idle_clients[base[c]]) + 1
    IN
    /\ idle_clients' \in [Urls -> Seq(Clients)]
    /\ \A u \in Urls : \A i \in DOMAIN idle_clients[u] :
         /\ i \in DOMAIN idle_clients'[u]
         /\ idle_clients'[u][i] = idle_clients[u][i]
    /\ \A u \in Urls : \A i \in DOMAIN idle_clients'[u] :
         i \in DOMAIN idle_clients[u] \/ (u = base[c] /\ i = n /\ idle_clients'[u][i] = c)
    /\ n \in DOMAIN idle_clients'[base[c]] /\ n \notin DOMAIN idle_clients[base[c]]
    /\ \A u \in Urls : Len(idle_clients'[u]) <= MAX_IDLE_PER_HOST
    /\ \A u \in Urls : idle_clients'[u] # <<>> => idle_clients[u] # <<>> \/ u = base[c]
    /\ UNCHANGED <<kind, connected>>

LEMMA ReturnToPoolPlaces ==
    ASSUME TypeOK, NoConnectionLeak, NEW t \in Threads, ReturnToPool(t), lease[t] \in Clients
    PROVE  \/ Pushed(t)
           \/ Destroy(lease[t]) /\ UNCHANGED idle_clients
<1> DEFINE c == lease[t]
           q == idle_clients[base[c]]
           p == Append(q, c)
<1>1. /\ base[c] \in Urls /\ q \in Seq(Clients)
      /\ Len(q) \in Nat /\ DOMAIN q = 1 .. Len(q)
  BY LenProperties DEF TypeOK
<1>2. /\ p \in Seq(Clients)
      /\ Len(p) = Len(q) + 1
      /\ DOMAIN p = DOMAIN q \cup {Len(q) + 1}
      /\ \A i \in DOMAIN q : p[i] = q[i]
      /\ p[Len(q) + 1] = c
  BY <1>1, PushBack
<1>3. CASE /\ Len(q) < MAX_IDLE_PER_HOST
           /\ idle_clients' = [idle_clients EXCEPT ![base[c]] = p]
           /\ UNCHANGED <<kind, connected>>
  <2>1. /\ idle_clients'[base[c]] = p
        /\ \A u \in Urls : u # base[c] => idle_clients'[u] = idle_clients[u]
    BY <1>1, <1>3 DEF TypeOK
  <2> HIDE DEF p
  <2>2. idle_clients' \in [Urls -> Seq(Clients)]
    BY <1>2, <1>3 DEF TypeOK
  <2>3. \A u \in Urls : Len(idle_clients'[u]) <= MAX_IDLE_PER_HOST
    <3>1. \A u \in Urls : Len(idle_clients[u]) <= MAX_IDLE_PER_HOST
      BY DEF NoConnectionLeak
    <3>2. Len(p) <= MAX_IDLE_PER_HOST
      BY <1>1, <1>2, <1>3, PoolAssumption
    <3> QED  BY <2>1, <3>1, <3>2
  <2>4. \A u \in Urls : \A i \in DOMAIN idle_clients[u] :
           i \in DOMAIN idle_clients'[u] /\ idle_clients'[u][i] = idle_clients[u][i]
    BY <1>2, <2>1
  <2>5. \A u \in Urls : \A i \in DOMAIN idle_clients'[u] :
           \/ i \in DOMAIN idle_clients[u]
           \/ u = base[c] /\ i = Len(q) + 1 /\ idle_clients'[u][i] = c
    BY <1>2, <2>1
  <2>6. Len(q) + 1 \in DOMAIN idle_clients'[base[c]] /\ Len(q) + 1 \notin DOMAIN q
    BY <1>1, <1>2, <2>1
  <2>7. \A u \in Urls : idle_clients'[u] # <<>> => idle_clients[u] # <<>> \/ u = base[c]
    BY <2>1
  <2>8. UNCHANGED <<kind, connected>>
    BY <1>3
  <2>9. Pushed(t)
    <3> HIDE DEF q, c
    <3> USE DEF Pushed
    <3> QED  BY <2>2, <2>3, <2>4, <2>5, <2>6, <2>7, <2>8 DEF q, c
  <2> QED  BY <2>9
<1>4. CASE Len(q) >= MAX_IDLE_PER_HOST /\ Destroy(c) /\ UNCHANGED idle_clients
  BY <1>4
<1> QED  BY <1>3, <1>4 DEF ReturnToPool

(* A client object that does not exist is nowhere; one that a thread holds  *)
(* exists, and is a client for the URL the thread asked for.                *)
LEMMA FreeIsNowhere ==
    ASSUME IInv, NEW c \in Clients, Free(c)
    PROVE  /\ \A t \in Threads : lease[t] # c
           /\ c \notin prev_cache
           /\ \A u \in Urls : \A i \in DOMAIN idle_clients[u] : idle_clients[u][i] # c
           /\ c # NoClient
BY PoolAssumption DEF IInv, Free, Existence, OursStayOurs, TypeOK

LEMMA HeldClient ==
    ASSUME IInv, NEW t \in Threads, Holding(t)
    PROVE  lease[t] \in Clients /\ base[lease[t]] = url[t] /\ kind[lease[t]] \in {"tailscale", "delegate"}
BY DEF IInv, Existence, Routing, TypeOK

(* Types.  A returned client is a real object because the thread holds it.  *)
LEMMA TypeStep ==
    ASSUME IInv, [Next]_vars
    PROVE  TypeOK'
<1> USE PoolAssumption DEF TypeOK, Locations, IInv
<1>1. ASSUME NEW s \in DnsSuffixes, RegisterSuffix(s) PROVE TypeOK'
  BY <1>1 DEF RegisterSuffix
<1>2. ASSUME NEW t \in Threads, NEW u \in Urls, InitializeClient(t, u) PROVE TypeOK'
  BY <1>2 DEF InitializeClient
<1>3. ASSUME NEW t \in Threads, DelegateInitialize(t) PROVE TypeOK'
  BY <1>3 DEF DelegateInitialize
<1>4. ASSUME NEW t \in Threads, TakeIdle(t) PROVE TypeOK'
  BY <1>4, TakeIdlePlaces DEF TakeIdle
<1>5. ASSUME NEW t \in Threads, MakeClient(t) PROVE TypeOK'
  BY <1>5 DEF MakeClient
<1>6. ASSUME NEW t \in Threads, Request(t) PROVE TypeOK'
  BY <1>6, HeldClient DEF Request, Holding
<1>7. ASSUME NEW t \in Threads, CloseClient(t) PROVE TypeOK'
  BY <1>7 DEF CloseClient
<1>8. ASSUME NEW t \in Threads, DelegateClose(t) PROVE TypeOK'
  BY <1>8, HeldClient DEF DelegateClose, Destroy, Holding
<1>9. ASSUME NEW t \in Threads, ReturnToPool(t) PROVE TypeOK'
  <2>1. lease[t] \in Clients
    BY <1>9, HeldClient DEF ReturnToPool, Holding
  <2> QED  BY <1>9, <2>1, ReturnToPoolPlaces DEF ReturnToPool, Destroy, Pushed
<1>10. CASE UNCHANGED vars
  BY <1>10 DEF vars, InBucket
<1> QED
  BY <1>1, <1>2, <1>3, <1>4, <1>5, <1>6, <1>7, <1>8, <1>9, <1>10 DEF Next, Step

(* Existence.  Objects appear in a thread's hands and are destroyed only    *)
(* there, where nothing else refers to them.                                *)
LEMMA ExistenceStep ==
    ASSUME IInv, [Next]_vars
    PROVE  Existence'
<1> USE PoolAssumption DEF IInv, Existence, Holding, TypeOK, Locations
<1>1. ASSUME NEW s \in DnsSuffixes, RegisterSuffix(s) PROVE Existence'
  BY <1>1 DEF RegisterSuffix
<1>2. ASSUME NEW t \in Threads, NEW u \in Urls, InitializeClient(t, u) PROVE Existence'
  BY <1>2 DEF InitializeClient
<1>3. ASSUME NEW t \in Threads, DelegateInitialize(t) PROVE Existence'
  BY <1>3, FreeIsNowhere DEF DelegateInitialize, Free, ExclusiveLease, InBucket, OursStayOurs
<1>4. ASSUME NEW t \in Threads, TakeIdle(t) PROVE Existence'
  BY <1>4, TakeIdlePlaces DEF TakeIdle
<1>5. ASSUME NEW t \in Threads, MakeClient(t) PROVE Existence'
  BY <1>5, FreeIsNowhere DEF MakeClient, Free
<1>6. ASSUME NEW t \in Threads, Request(t) PROVE Existence'
  BY <1>6 DEF Request
<1>7. ASSUME NEW t \in Threads, CloseClient(t) PROVE Existence'
  BY <1>7 DEF CloseClient
<1>8. ASSUME NEW t \in Threads, DelegateClose(t) PROVE Existence'
  BY <1>8, HeldClient DEF DelegateClose, Destroy, ExclusiveLease, InBucket
<1>9. ASSUME NEW t \in Threads, ReturnToPool(t) PROVE Existence'
  <2>1. lease[t] \in Clients
    BY <1>9, HeldClient DEF ReturnToPool
  <2>2. CASE Pushed(t)
    BY <1>9, <2>1, <2>2, HeldClient DEF ReturnToPool, Pushed, ExclusiveLease
  <2>3. CASE Destroy(lease[t]) /\ UNCHANGED idle_clients
    BY <1>9, <2>1, <2>3, HeldClient DEF ReturnToPool, Destroy, ExclusiveLease, InBucket
  <2> QED  BY <1>9, <2>1, <2>2, <2>3, ReturnToPoolPlaces
<1>10. CASE UNCHANGED vars
  BY <1>10 DEF vars, InBucket
<1> QED
  BY <1>1, <1>2, <1>3, <1>4, <1>5, <1>6, <1>7, <1>8, <1>9, <1>10 DEF Next, Step

(* One owner per object: a client leaves its place as it is handed on, and  *)
(* a new one was nowhere before.                                            *)
LEMMA ExclusiveStep ==
    ASSUME IInv, [Next]_vars
    PROVE  ExclusiveLease'
<1> USE PoolAssumption DEF IInv, TypeOK, ExclusiveLease, InBucket
<1>1. ASSUME NEW s \in DnsSuffixes, RegisterSuffix(s) PROVE ExclusiveLease'
  BY <1>1 DEF RegisterSuffix
<1>2. ASSUME NEW t \in Threads, NEW u \in Urls, InitializeClient(t, u) PROVE ExclusiveLease'
  BY <1>2 DEF InitializeClient
<1>3. ASSUME NEW t \in Threads, DelegateInitialize(t) PROVE ExclusiveLease'
  <2>1. PICK c \in Clients :
          /\ (c \in prev_cache /\ base[c] = url[t]) \/ Free(c)
          /\ prev_cache' = prev_cache \ {c}
          /\ lease' = [lease EXCEPT ![t] = c]
    BY <1>3 DEF DelegateInitialize
  <2>2. /\ \A t1 \in Threads : lease[t1] # c
        /\ \A u \in Urls : \A i \in DOMAIN idle_clients[u] : idle_clients[u][i] # c
    BY <2>1, FreeIsNowhere
  <2> QED  BY <1>3, <2>1, <2>2 DEF DelegateInitialize
<1>4. ASSUME NEW t \in Threads, TakeIdle(t) PROVE ExclusiveLease'
  <2> DEFINE n == Len(idle_clients[url[t]])
             c == idle_clients[url[t]][n]
  <2>1. /\ \A u \in Urls : \A i \in DOMAIN idle_clients'[u] :
             i \in DOMAIN idle_clients[u] /\ idle_clients'[u][i] = idle_clients[u][i]
        /\ n \in DOMAIN idle_clients[url[t]] /\ n \notin DOMAIN idle_clients'[url[t]]
        /\ lease' = [lease EXCEPT ![t] = c]
        /\ url[t] \in Urls
        /\ prev_cache' = prev_cache
    BY <1>4, TakeIdlePlaces DEF TakeIdle
  <2>2. /\ \A t1 \in Threads : lease[t1] # c
        /\ c \notin prev_cache
    BY <2>1
  <2>3. \A u \in Urls : \A i \in DOMAIN idle_clients'[u] : idle_clients'[u][i] # c
    <3> SUFFICES ASSUME NEW u \in Urls, NEW i \in DOMAIN idle_clients'[u], idle_clients'[u][i] = c
                 PROVE FALSE
      OBVIOUS
    <3>1. i \in DOMAIN idle_clients[u] /\ idle_clients[u][i] = c
      BY <2>1
    <3>2. u = url[t] /\ i = n
      BY <2>1, <3>1
    <3> QED  BY <2>1, <3>2
  <2> HIDE DEF n, c
  <2>4. \A t1, t2 \in Threads : lease'[t1] = lease'[t2] /\ lease'[t1] # NoClient => t1 = t2
    BY <2>1, <2>2
  <2>5. \A t1 \in Threads : lease'[t1] \notin prev_cache'
    BY <2>1, <2>2
  <2>6. \A t1 \in Threads, u \in Urls : ~InBucket(lease[t1], u)'
    BY <2>1, <2>3
  <2>7. \A u \in Urls : \A i \in DOMAIN idle_clients'[u] : idle_clients'[u][i] \notin prev_cache'
    BY <2>1
  <2>8. \A u, v \in Urls : \A i \in DOMAIN idle_clients'[u], j \in DOMAIN idle_clients'[v] :
          idle_clients'[u][i] = idle_clients'[v][j] => u = v /\ i = j
    BY <2>1
  <2> QED  BY <2>4, <2>5, <2>6, <2>7, <2>8
<1>5. ASSUME NEW t \in Threads, MakeClient(t) PROVE ExclusiveLease'
  <2>1. PICK c \in Clients : Free(c) /\ lease' = [lease EXCEPT ![t] = c]
    BY <1>5 DEF MakeClient
  <2> QED  BY <1>5, <2>1, FreeIsNowhere DEF MakeClient
<1>6. ASSUME NEW t \in Threads, Request(t) PROVE ExclusiveLease'
  BY <1>6 DEF Request
<1>7. ASSUME NEW t \in Threads, CloseClient(t) PROVE ExclusiveLease'
  BY <1>7 DEF CloseClient
<1>8. ASSUME NEW t \in Threads, DelegateClose(t) PROVE ExclusiveLease'
  BY <1>8, HeldClient DEF DelegateClose, Destroy, Holding, Existence
<1>9. ASSUME NEW t \in Threads, ReturnToPool(t) PROVE ExclusiveLease'
  <2>1. lease[t] \in Clients /\ lease' = [lease EXCEPT ![t] = NoClient] /\ prev_cache' = prev_cache
    BY <1>9, HeldClient DEF ReturnToPool, Holding
  <2>2. CASE Pushed(t)
    <3>1. \A u \in Urls : \A i \in DOMAIN idle_clients'[u] :
               \/ i \in DOMAIN idle_clients[u] /\ idle_clients'[u][i] = idle_clients[u][i]
               \/ /\ u = base[lease[t]] /\ i = Len(idle_clients[u]) + 1
                  /\ idle_clients'[u][i] = lease[t]
      <4> HIDE DEF IInv, TypeOK, ExclusiveLease, InBucket
      <4>1. \A u \in Urls : \A i \in DOMAIN idle_clients[u] : idle_clients'[u][i] = idle_clients[u][i]
        BY <2>2 DEF Pushed
      <4>2. \A u \in Urls : \A i \in DOMAIN idle_clients'[u] :
               \/ i \in DOMAIN idle_clients[u]
               \/ /\ u = base[lease[t]] /\ i = Len(idle_clients[base[lease[t]]]) + 1
                  /\ idle_clients'[u][i] = lease[t]
        BY <2>2 DEF Pushed
      <4> QED  BY <4>1, <4>2
    <3>2. \A u \in Urls : \A i \in DOMAIN idle_clients'[u] : idle_clients'[u][i] # NoClient
      BY <2>2, LenProperties DEF Pushed
    <3>3. \A t1, t2 \in Threads : lease'[t1] = lease'[t2] /\ lease'[t1] # NoClient => t1 = t2
      BY <2>1
    <3>4. \A t1 \in Threads : lease'[t1] \notin prev_cache'
      BY <2>1
    <3>5. \A t1 \in Threads, u \in Urls : ~InBucket(lease[t1], u)'
      BY <2>1, <3>1, <3>2
    <3>6. \A u \in Urls : \A i \in DOMAIN idle_clients'[u] : idle_clients'[u][i] \notin prev_cache'
      BY <2>1, <3>1
    <3>7. \A u, v \in Urls : \A i \in DOMAIN idle_clients'[u], j \in DOMAIN idle_clients'[v] :
            idle_clients'[u][i] = idle_clients'[v][j] => u = v /\ i = j
      <4> SUFFICES ASSUME NEW u \in Urls, NEW v \in Urls,
                          NEW i \in DOMAIN idle_clients'[u], NEW j \in DOMAIN idle_clients'[v],
                          idle_clients'[u][i] = idle_clients'[v][j]
                   PROVE  u = v /\ i = j
        OBVIOUS
      <4>1. /\ \A w \in Urls : \A k \in DOMAIN idle_clients[w] : idle_clients[w][k] # lease[t]
        OBVIOUS
      <4>2. CASE i \in DOMAIN idle_clients[u] /\ j \in DOMAIN idle_clients[v]
        <5>1. idle_clients[u][i] = idle_clients[v][j]
          BY <2>2, <4>2 DEF Pushed
        <5> QED  BY <4>2, <5>1
      <4>3. CASE i \notin DOMAIN idle_clients[u] \/ j \notin DOMAIN idle_clients[v]
        <5>1. \/ i \in DOMAIN idle_clients[u] /\ idle_clients[u][i] = idle_clients'[u][i]
              \/ u = base[lease[t]] /\ i = Len(idle_clients[u]) + 1 /\ idle_clients'[u][i] = lease[t]
          BY <3>1
        <5>2. \/ j \in DOMAIN idle_clients[v] /\ idle_clients[v][j] = idle_clients'[v][j]
              \/ v = base[lease[t]] /\ j = Len(idle_clients[v]) + 1 /\ idle_clients'[v][j] = lease[t]
          BY <3>1
        <5> HIDE DEF ExclusiveLease, IInv, TypeOK
        <5> QED  BY <4>1, <4>3, <5>1, <5>2
      <4> QED  BY <4>2, <4>3
    <3> QED  BY <3>3, <3>4, <3>5, <3>6, <3>7
  <2>3. CASE Destroy(lease[t]) /\ UNCHANGED idle_clients
    BY <2>1, <2>3
  <2> QED  BY <2>1, <2>2, <2>3, <1>9, ReturnToPoolPlaces
<1>10. CASE UNCHANGED vars
  BY <1>10 DEF vars, InBucket
<1> QED
  BY <1>1, <1>2, <1>3, <1>4, <1>5, <1>6, <1>7, <1>8, <1>9, <1>10 DEF Next, Step

(* Somebody holds client d.                                                 *)
Owned(d) ==
    \/ d \in prev_cache
    \/ \E t \in Threads : lease[t] = d
    \/ \E u \in Urls : InBucket(d, u)

(* When only thread t's lease changes, d still has an owner if the steps    *)
(* that take it from t, from the cache or from the pool give it to another. *)
LEMMA OwnerKept ==
    ASSUME TypeOK, NEW t \in Threads, NEW d, Owned(d),
           \A t1 \in Threads : t1 # t => lease'[t1] = lease[t1],
           lease[t] = d => Owned(d)',
           d \in prev_cache => Owned(d)',
           \A u \in Urls : InBucket(d, u) => Owned(d)'
    PROVE  Owned(d)'
BY DEF Owned

(* The cap, and every open connection has somebody who holds its client.    *)
LEMMA LeakStep ==
    ASSUME IInv, [Next]_vars
    PROVE  NoConnectionLeak'
<1> USE PoolAssumption DEF IInv
<1> DEFINE Cap == \A u \in Urls : Len(idle_clients[u]) <= MAX_IDLE_PER_HOST
<1>a. /\ NoConnectionLeak <=> Cap /\ \A d \in connected : Owned(d)
      /\ NoConnectionLeak' <=> Cap' /\ \A d \in connected' : Owned(d)'
  BY DEF NoConnectionLeak, Owned
<1>b. Cap /\ (\A d \in connected : Owned(d)) /\ connected \subseteq Clients
  BY <1>a DEF TypeOK
<1> HIDE DEF Cap
<1>1. ASSUME NEW s \in DnsSuffixes, RegisterSuffix(s) PROVE NoConnectionLeak'
  BY <1>a, <1>b, <1>1 DEF RegisterSuffix, Cap, Owned, InBucket
<1>2. ASSUME NEW t \in Threads, NEW u \in Urls, InitializeClient(t, u) PROVE NoConnectionLeak'
  BY <1>a, <1>b, <1>2 DEF InitializeClient, Cap, Owned, InBucket
<1>3. ASSUME NEW t \in Threads, DelegateInitialize(t) PROVE NoConnectionLeak'
  <2>1. PICK c \in Clients : prev_cache' = prev_cache \ {c} /\ lease' = [lease EXCEPT ![t] = c]
    BY <1>3 DEF DelegateInitialize
  <2>2. /\ lease[t] = NoClient /\ lease'[t] = c
        /\ \A t1 \in Threads : t1 # t => lease'[t1] = lease[t1]
        /\ UNCHANGED <<connected, idle_clients>>
    <3>1. lease[t] = NoClient
      BY <1>3 DEF DelegateInitialize, Existence, Holding
    <3> QED  BY <1>3, <2>1, <3>1 DEF DelegateInitialize, TypeOK
  <2>3. ASSUME NEW d \in connected PROVE Owned(d)'
    <3>1. d \in prev_cache => Owned(d)'
      BY <2>1, <2>2 DEF Owned
    <3>2. \A u \in Urls : InBucket(d, u) => Owned(d)'
      BY <2>2 DEF Owned, InBucket
    <3>3. lease[t] # d
      BY <1>b, <2>2
    <3> QED  BY <1>b, <2>2, <3>1, <3>2, <3>3, OwnerKept
  <2> QED  BY <1>a, <1>b, <2>2, <2>3 DEF Cap
<1>4. ASSUME NEW t \in Threads, TakeIdle(t) PROVE NoConnectionLeak'
  <2> DEFINE n == Len(idle_clients[url[t]])
             c == idle_clients[url[t]][n]
  <2>1. /\ lease[t] = NoClient
        /\ lease' = [lease EXCEPT ![t] = c]
        /\ UNCHANGED <<connected, prev_cache>>
        /\ \A u \in Urls : Len(idle_clients'[u]) <= Len(idle_clients[u])
        /\ \A u \in Urls : \A i \in DOMAIN idle_clients[u] :
             i \in DOMAIN idle_clients'[u] \/ (u = url[t] /\ i = n)
        /\ \A u \in Urls : \A i \in DOMAIN idle_clients'[u] :
             idle_clients'[u][i] = idle_clients[u][i]
    BY <1>4, TakeIdlePlaces DEF TakeIdle, Existence, Holding
  <2>2. Cap'
    <3>1. \A u \in Urls : Len(idle_clients[u]) \in Nat /\ Len(idle_clients'[u]) \in Nat
      BY <1>4, TakeIdlePlaces, LenProperties DEF TypeOK
    <3>2. \A u \in Urls : Len(idle_clients[u]) <= MAX_IDLE_PER_HOST
      BY <1>b DEF Cap
    <3> QED  BY <2>1, <3>1, <3>2 DEF Cap
  <2>3. lease'[t] = c /\ \A t1 \in Threads : t1 # t => lease'[t1] = lease[t1]
    BY <2>1 DEF TypeOK
  <2>4. ASSUME NEW d \in connected PROVE Owned(d)'
    <3>1. d \in prev_cache => Owned(d)'
      BY <2>1 DEF Owned
    <3>2. ASSUME NEW u \in Urls, NEW i \in DOMAIN idle_clients[u], idle_clients[u][i] = d
          PROVE  Owned(d)'
      <4>1. CASE i \in DOMAIN idle_clients'[u]
        BY <2>1, <3>2, <4>1 DEF Owned, InBucket
      <4>2. CASE u = url[t] /\ i = n
        BY <2>3, <3>2, <4>2 DEF Owned
      <4> QED  BY <2>1, <4>1, <4>2
    <3>3. lease[t] # d
      BY <1>b, <2>1
    <3>4. \A u \in Urls : InBucket(d, u) => Owned(d)'
      BY <3>2 DEF InBucket
    <3> QED  BY <1>b, <2>3, <3>1, <3>3, <3>4, OwnerKept
  <2> QED  BY <1>a, <2>1, <2>2, <2>4
<1>5. ASSUME NEW t \in Threads, MakeClient(t) PROVE NoConnectionLeak'
  <2>1. PICK c \in Clients : lease' = [lease EXCEPT ![t] = c]
    BY <1>5 DEF MakeClient
  <2>2. /\ lease[t] = NoClient
        /\ \A t1 \in Threads : t1 # t => lease'[t1] = lease[t1]
        /\ UNCHANGED <<connected, idle_clients, prev_cache>>
    BY <1>5, <2>1 DEF MakeClient, Existence, Holding, TypeOK
  <2>3. ASSUME NEW d \in connected PROVE Owned(d)'
    <3>1. (d \in prev_cache => Owned(d)') /\ \A u \in Urls : InBucket(d, u) => Owned(d)'
      BY <2>2 DEF Owned, InBucket
    <3>2. lease[t] # d
      BY <1>b, <2>2
    <3> QED  BY <1>b, <2>2, <3>1, <3>2, OwnerKept
  <2> QED  BY <1>a, <1>b, <2>2, <2>3 DEF Cap
<1>6. ASSUME NEW t \in Threads, Request(t) PROVE NoConnectionLeak'
  <2>1. /\ Holding(t) /\ connected' \subseteq connected \cup {lease[t]}
        /\ UNCHANGED <<idle_clients, prev_cache, lease>>
    BY <1>6 DEF Request, Holding
  <2>2. \A d \in connected \cup {lease[t]} : Owned(d)
    BY <1>b DEF Owned
  <2>3. \A d \in connected \cup {lease[t]} : Owned(d)'
    BY <2>1, <2>2 DEF Owned, InBucket
  <2> QED  BY <1>a, <1>b, <2>1, <2>3 DEF Cap
<1>7. ASSUME NEW t \in Threads, CloseClient(t) PROVE NoConnectionLeak'
  BY <1>a, <1>b, <1>7 DEF CloseClient, Cap, Owned, InBucket
<1>8. ASSUME NEW t \in Threads, DelegateClose(t) PROVE NoConnectionLeak'
  <2>1. /\ lease[t] \in Clients
        /\ lease' = [lease EXCEPT ![t] = NoClient]
        /\ UNCHANGED idle_clients
        /\ \/ prev_cache' = prev_cache \cup {lease[t]} /\ connected' = connected
           \/ prev_cache' = prev_cache /\ connected' = connected \ {lease[t]}
    BY <1>8, HeldClient DEF DelegateClose, Destroy, Holding
  <2>2. \A t1 \in Threads : t1 # t => lease'[t1] = lease[t1]
    BY <2>1 DEF TypeOK
  <2>3. ASSUME NEW d \in connected' PROVE Owned(d)'
    <3>1. (d \in prev_cache => Owned(d)') /\ \A u \in Urls : InBucket(d, u) => Owned(d)'
      BY <2>1 DEF Owned, InBucket
    <3>2. lease[t] = d => Owned(d)'
      BY <2>1 DEF Owned
    <3>3. Owned(d)
      BY <1>b, <2>1
    <3> QED  BY <2>2, <3>1, <3>2, <3>3, OwnerKept
  <2> QED  BY <1>a, <1>b, <2>1, <2>3 DEF Cap
<1>9. ASSUME NEW t \in Threads, ReturnToPool(t) PROVE NoConnectionLeak'
  <2>1. /\ lease[t] \in Clients /\ base[lease[t]] \in Urls
        /\ lease' = [lease EXCEPT ![t] = NoClient] /\ prev_cache' = prev_cache
        /\ base' = base
    BY <1>9, HeldClient DEF ReturnToPool, Holding, TypeOK
  <2>2. \A t1 \in Threads : t1 # t => lease'[t1] = lease[t1]
    BY <2>1 DEF TypeOK
  <2>3. CASE Pushed(t)
    <3> DEFINE b == base[lease[t]]
               n == Len(idle_clients[b]) + 1
    <3>1. /\ \A u \in Urls : \A i \in DOMAIN idle_clients[u] :
               i \in DOMAIN idle_clients'[u] /\ idle_clients'[u][i] = idle_clients[u][i]
          /\ \A u \in Urls : \A i \in DOMAIN idle_clients'[u] :
               i \in DOMAIN idle_clients[u] \/ (u = b /\ i = n /\ idle_clients'[u][i] = lease[t])
          /\ n \in DOMAIN idle_clients'[b] /\ n \notin DOMAIN idle_clients[b]
          /\ \A u \in Urls : Len(idle_clients'[u]) <= MAX_IDLE_PER_HOST
          /\ connected' = connected
      BY <2>3 DEF Pushed
    <3>2. idle_clients'[b][n] = lease[t]
      BY <2>1, <3>1
    <3>3. Owned(lease[t])'
      BY <2>1, <3>1, <3>2 DEF Owned, InBucket
    <3>4. ASSUME NEW d \in connected PROVE Owned(d)'
      <4>1. d \in prev_cache => Owned(d)'
        BY <2>1 DEF Owned
      <4>2. \A u \in Urls : InBucket(d, u) => Owned(d)'
        BY <3>1 DEF Owned, InBucket
      <4>3. lease[t] = d => Owned(d)'
        <5> HIDE DEF Owned
        <5> SUFFICES ASSUME lease[t] = d PROVE Owned(d)'
          OBVIOUS
        <5>1. d \in Clients /\ idle_clients'[b][n] = d
          BY <1>b, <3>2
        <5> QED  BY <2>1, <3>1, <5>1 DEF Owned, InBucket
      <4> QED  BY <1>b, <2>2, <4>1, <4>2, <4>3, OwnerKept
    <3> QED  BY <1>a, <3>1, <3>4 DEF Cap
  <2>4. CASE Destroy(lease[t]) /\ UNCHANGED idle_clients
    <3>1. ASSUME NEW d \in connected' PROVE Owned(d)'
      <4>1. d # lease[t] /\ Owned(d)
        BY <1>b, <2>4 DEF Destroy
      <4>2. (d \in prev_cache => Owned(d)') /\ \A u \in Urls : InBucket(d, u) => Owned(d)'
        BY <2>1, <2>4 DEF Owned, InBucket
      <4> QED  BY <2>2, <4>1, <4>2, OwnerKept
    <3> QED  BY <1>a, <1>b, <2>4, <3>1 DEF Cap
  <2> QED  BY <2>1, <2>3, <2>4, <1>9, ReturnToPoolPlaces
<1>10. CASE UNCHANGED vars
  BY <1>a, <1>b, <1>10 DEF vars, Cap, Owned, InBucket
<1> QED
  BY <1>1, <1>2, <1>3, <1>4, <1>5, <1>6, <1>7, <1>8, <1>9, <1>10 DEF Next, Step

(* A decision taken from IsTailnetHost stays true: the registry only grows.  *)
LEMMA RoutingStep ==
    ASSUME IInv, [Next]_vars
    PROVE  Routing'
<1> USE PoolAssumption DEF IInv, TypeOK, Routing, IsTailnetHost, Holding
<1>1. ASSUME NEW s \in DnsSuffixes, RegisterSuffix(s) PROVE Routing'
  BY <1>1 DEF RegisterSuffix
<1>2. ASSUME NEW t \in Threads, NEW u \in Urls, InitializeClient(t, u) PROVE Routing'
  BY <1>2 DEF InitializeClient
<1>3. ASSUME NEW t \in Threads, DelegateInitialize(t) PROVE Routing'
  BY <1>3, FreeIsNowhere DEF DelegateInitialize, OursStayOurs, Existence, Free, ExclusiveLease, InBucket
<1>4. ASSUME NEW t \in Threads, TakeIdle(t) PROVE Routing'
  <2>1. /\ idle_clients[url[t]] # <<>>
        /\ \E i \in DOMAIN idle_clients[url[t]] : lease'[t] = idle_clients[url[t]][i]
        /\ \A u \in Urls : idle_clients'[u] # <<>> => idle_clients[u] # <<>>
        /\ \A t1 \in Threads : t1 # t => lease'[t1] = lease[t1]
    BY <1>4, TakeIdlePlaces DEF TakeIdle
  <2>2. base[lease'[t]] = url[t]
    BY <2>1 DEF Existence
  <2> QED  BY <1>4, <2>1, <2>2 DEF TakeIdle
<1>5. ASSUME NEW t \in Threads, MakeClient(t) PROVE Routing'
  <2>1. PICK c \in Clients :
          /\ Free(c)
          /\ kind' = [kind EXCEPT ![c] = "tailscale"]
          /\ base' = [base EXCEPT ![c] = url[t]]
          /\ lease' = [lease EXCEPT ![t] = c]
    BY <1>5 DEF MakeClient
  <2> QED  BY <1>5, <2>1, FreeIsNowhere DEF MakeClient
<1>6. ASSUME NEW t \in Threads, Request(t) PROVE Routing'
  BY <1>6 DEF Request
<1>7. ASSUME NEW t \in Threads, CloseClient(t) PROVE Routing'
  BY <1>7, HeldClient DEF CloseClient
<1>8. ASSUME NEW t \in Threads, DelegateClose(t) PROVE Routing'
  BY <1>8, HeldClient DEF DelegateClose, Destroy, ExclusiveLease, Existence
<1>9. ASSUME NEW t \in Threads, ReturnToPool(t) PROVE Routing'
  <2>1. lease[t] \in Clients /\ base[lease[t]] = url[t]
    BY <1>9, HeldClient DEF ReturnToPool
  <2>2. CASE Pushed(t)
    BY <1>9, <2>1, <2>2 DEF ReturnToPool, Pushed
  <2>3. CASE Destroy(lease[t]) /\ UNCHANGED idle_clients
    BY <1>9, <2>1, <2>3 DEF ReturnToPool, Destroy, ExclusiveLease, Existence
  <2> QED  BY <2>1, <2>2, <2>3, <1>9, ReturnToPoolPlaces
<1>10. CASE UNCHANGED vars
  BY <1>10 DEF vars, InBucket
<1> QED
  BY <1>1, <1>2, <1>3, <1>4, <1>5, <1>6, <1>7, <1>8, <1>9, <1>10 DEF Next, Step

(* Only clients that CloseClient sends there enter the previous cache.      *)
LEMMA OursStep ==
    ASSUME IInv, [Next]_vars
    PROVE  OursStayOurs'
<1> USE PoolAssumption DEF IInv, TypeOK, OursStayOurs
<1>1. ASSUME NEW s \in DnsSuffixes, RegisterSuffix(s) PROVE OursStayOurs'
  BY <1>1 DEF RegisterSuffix
<1>2. ASSUME NEW t \in Threads, NEW u \in Urls, InitializeClient(t, u) PROVE OursStayOurs'
  BY <1>2 DEF InitializeClient
<1>3. ASSUME NEW t \in Threads, DelegateInitialize(t) PROVE OursStayOurs'
  BY <1>3, FreeIsNowhere DEF DelegateInitialize
<1>4. ASSUME NEW t \in Threads, TakeIdle(t) PROVE OursStayOurs'
  BY <1>4 DEF TakeIdle
<1>5. ASSUME NEW t \in Threads, MakeClient(t) PROVE OursStayOurs'
  BY <1>5, FreeIsNowhere DEF MakeClient
<1>6. ASSUME NEW t \in Threads, Request(t) PROVE OursStayOurs'
  BY <1>6 DEF Request
<1>7. ASSUME NEW t \in Threads, CloseClient(t) PROVE OursStayOurs'
  BY <1>7 DEF CloseClient
<1>8. ASSUME NEW t \in Threads, DelegateClose(t) PROVE OursStayOurs'
  BY <1>8, HeldClient DEF DelegateClose, Destroy, Routing, Holding, ExclusiveLease
<1>9. ASSUME NEW t \in Threads, ReturnToPool(t) PROVE OursStayOurs'
  BY <1>9, HeldClient DEF ReturnToPool, Destroy, Holding, ExclusiveLease
<1>10. CASE UNCHANGED vars
  BY <1>10 DEF vars, InBucket
<1> QED
  BY <1>1, <1>2, <1>3, <1>4, <1>5, <1>6, <1>7, <1>8, <1>9, <1>10 DEF Next, Step

(* The previous util never makes a client for a built-in tailnet host.      *)
LEMMA ForeignStep ==
    ASSUME IInv, [Next]_vars
    PROVE  Foreign'
<1> USE PoolAssumption DEF IInv, TypeOK, Foreign, ForeignUrl, IsTailnetHost
<1>1. ASSUME NEW s \in DnsSuffixes, RegisterSuffix(s) PROVE Foreign'
  BY <1>1 DEF RegisterSuffix
<1>2. ASSUME NEW t \in Threads, NEW u \in Urls, InitializeClient(t, u) PROVE Foreign'
  BY <1>2 DEF InitializeClient, Routing
<1>3. ASSUME NEW t \in Threads, DelegateInitialize(t) PROVE Foreign'
  BY <1>3 DEF DelegateInitialize, Free
<1>4. ASSUME NEW t \in Threads, TakeIdle(t) PROVE Foreign'
  BY <1>4 DEF TakeIdle
<1>5. ASSUME NEW t \in Threads, MakeClient(t) PROVE Foreign'
  BY <1>5 DEF MakeClient
<1>6. ASSUME NEW t \in Threads, Request(t) PROVE Foreign'
  BY <1>6 DEF Request
<1>7. ASSUME NEW t \in Threads, CloseClient(t) PROVE Foreign'
  BY <1>7 DEF CloseClient
<1>8. ASSUME NEW t \in Threads, DelegateClose(t) PROVE Foreign'
  BY <1>8, HeldClient DEF DelegateClose, Destroy, Holding
<1>9. ASSUME NEW t \in Threads, ReturnToPool(t) PROVE Foreign'
  BY <1>9, HeldClient DEF ReturnToPool, Destroy, Holding
<1>10. CASE UNCHANGED vars
  BY <1>10 DEF vars, InBucket
<1> QED
  BY <1>1, <1>2, <1>3, <1>4, <1>5, <1>6, <1>7, <1>8, <1>9, <1>10 DEF Next, Step

-----------------------------------------------------------------------------
THEOREM Invariance == Spec => []IInv
<1>1. Init => IInv
  <2> SUFFICES ASSUME Init PROVE IInv
    OBVIOUS
  <2> USE PoolAssumption DEF Init
  <2>1. TypeOK
    BY EmptySeq DEF TypeOK, Locations
  <2>2. \A u \in Urls : idle_clients[u] = <<>> /\ DOMAIN idle_clients[u] = {} /\ Len(idle_clients[u]) = 0
    OBVIOUS
  <2>3. Existence
    BY <2>2 DEF Existence, Holding
  <2>4. ExclusiveLease
    BY <2>2 DEF ExclusiveLease, InBucket
  <2>5. NoConnectionLeak
    BY <2>2 DEF NoConnectionLeak
  <2>6. Routing /\ OursStayOurs /\ Foreign
    BY <2>2 DEF Routing, OursStayOurs, Foreign, Holding
  <2> QED  BY <2>1, <2>3, <2>4, <2>5, <2>6 DEF IInv
<1>2. IInv /\ [Next]_vars => IInv'
  <2> SUFFICES ASSUME IInv, [Next]_vars PROVE IInv'
    OBVIOUS
  <2>1. TypeOK' /\ Existence' /\ ExclusiveLease' /\ NoConnectionLeak'
    BY TypeStep, ExistenceStep, ExclusiveStep, LeakStep
  <2>2. Routing' /\ OursStayOurs' /\ Foreign'
    BY RoutingStep, OursStep, ForeignStep
  <2> QED  BY <2>1, <2>2 DEF IInv
<1> QED  BY <1>1, <1>2, PTL DEF Spec

(* The variables keep their types, for any number of threads and clients.   *)
THEOREM TypeCorrect == Spec => []TypeOK
<1>1. IInv => TypeOK
  BY DEF IInv
<1> QED  BY <1>1, Invariance, PTL

(* A client object moved between threads, the pool and the previous util's  *)
(* cache has one owner at every moment: InitializeClient and CloseClient    *)
(* never hand the same client out twice.                                    *)
THEOREM LeasesAreExclusive == Spec => []ExclusiveLease
<1>1. IInv => ExclusiveLease
  BY DEF IInv
<1> QED  BY <1>1, Invariance, PTL

(* The cap of CloseClient holds and dropping the overflow closes the        *)
(* connection of the dropped client.                                        *)
THEOREM PoolIsBounded == Spec => []NoConnectionLeak
<1>1. IInv => NoConnectionLeak
  BY DEF IInv
<1> QED  BY <1>1, Invariance, PTL

(* Requests go to the host the client was made for and https:// is left to  *)
(* the previous util.                                                       *)
THEOREM RequestsReachTheirHost == Spec => []RightHost
<1>1. IInv => RightHost
  BY HeldClient DEF IInv, RightHost, Routing, IsTailnetHost
<1> QED  BY <1>1, Invariance, PTL

(* No plaintext tailnet client is ever left with the previous util.         *)
THEOREM TailnetClientsStayHere == Spec => []OursStayOurs
<1>1. IInv => OursStayOurs
  BY DEF IInv
<1> QED  BY <1>1, Invariance, PTL

(* A client of the previous util can be in the pool only for a host whose   *)
(* suffix was registered at run time.                                       *)
THEOREM ForeignClientsNeedRegistration == Spec => []ForeignOnlyAfterRegistration
<1>1. IInv => ForeignOnlyAfterRegistration
  <2> SUFFICES ASSUME IInv, NEW u \in Urls, NEW i \in DOMAIN idle_clients[u],
                      kind[idle_clients[u][i]] = "delegate"
               PROVE  SuffixOf[u] \in registered \ Builtin
    BY DEF ForeignOnlyAfterRegistration
  <2>1. idle_clients[u] \in Seq(Clients) /\ idle_clients[u][i] \in Clients
    BY ElementOfSeq, LenProperties DEF IInv, TypeOK
  <2>2. idle_clients[u] # <<>>
    OBVIOUS
  <2>3. base[idle_clients[u][i]] = u
    BY DEF IInv, Existence
  <2> QED  BY <2>1, <2>2, <2>3 DEF IInv, Routing, Foreign, ForeignUrl, IsTailnetHost
<1> QED  BY <1>1, Invariance, PTL

-----------------------------------------------------------------------------
(* Framing: sums of sequences, and where the parts of a sequence stand.       *)
(* Induction over the natural numbers, with a set for the formula: a least  *)
(* number outside the set is neither 0 nor the successor of one inside.     *)
LEMMA SetInduction ==
    ASSUME NEW T, 0 \in T, \A n \in Nat : n \in T => n + 1 \in T
    PROVE  \A n \in Nat : n \in T
<1> DEFINE U == Nat \ T
           R == OpToRel(<, Nat)
<1>1. IsWellFoundedOn(R, Nat)
  BY NatLessThanWellFounded
<1> SUFFICES ASSUME U # {} PROVE FALSE
  OBVIOUS
<1>2. U \subseteq Nat
  OBVIOUS
<1> HIDE DEF U
<1>3. PICK x \in U : \A y \in U : ~(<<y, x>> \in R)
  <2> HIDE DEF R
  <2> QED BY <1>1, <1>2, WFMin
<1>4. \A y \in U : ~(y < x)
  BY <1>2, <1>3 DEF OpToRel
<1>5. x \in Nat \ {0} /\ x - 1 \in Nat /\ x - 1 < x /\ (x - 1) + 1 = x
  BY DEF U
<1>6. x - 1 \notin U
  BY <1>4, <1>5
<1> QED BY <1>5, <1>6 DEF U

(* F[k] is what the first k sequences of q give, one after the other.        *)
IsSums(F, q, n) == F[0] = <<>> /\ \A i \in 1 .. n : F[i] = F[i - 1] \o q[i]

(* Every sequence of sequences has its sums.                                *)
LEMMA SumsExist ==
    ASSUME NEW S, NEW q \in Seq(Seq(S)), NEW n \in Nat, n <= Len(q)
    PROVE  \E F \in [0 .. n -> Seq(S)] : IsSums(F, q, n)
<1> DEFINE T == {k \in Nat : k <= Len(q) => \E F \in [0 .. k -> Seq(S)] : IsSums(F, q, k)}
<1>1. Len(q) \in Nat /\ (\A i \in 1 .. Len(q) : q[i] \in Seq(S)) /\ <<>> \in Seq(S)
  BY LenProperties, ElementOfSeq, EmptySeq
<1>2. 0 \in T
  <2>1. [i \in 0 .. 0 |-> <<>>] \in [0 .. 0 -> Seq(S)] /\ IsSums([i \in 0 .. 0 |-> <<>>], q, 0)
    BY <1>1 DEF IsSums
  <2> QED BY <2>1
<1>3. ASSUME NEW k \in Nat, k \in T, k + 1 <= Len(q) PROVE \E F \in [0 .. k + 1 -> Seq(S)] : IsSums(F, q, k + 1)
  <2>1. k <= Len(q)
    BY <1>1, <1>3
  <2>2. PICK F \in [0 .. k -> Seq(S)] : IsSums(F, q, k)
    BY <1>3, <2>1
  <2>3. k \in 0 .. k /\ k + 1 \in 1 .. Len(q) /\ F[k] \in Seq(S) /\ q[k + 1] \in Seq(S)
    BY <1>1, <1>3
  <2>4. F[k] \o q[k + 1] \in Seq(S)
    BY <2>3, ConcatProperties
  <2> DEFINE G == [i \in 0 .. k + 1 |-> IF i = k + 1 THEN F[k] \o q[k + 1] ELSE F[i]]
  <2>5. G \in [0 .. k + 1 -> Seq(S)]
    <3>1. ASSUME NEW i \in 0 .. k + 1, i # k + 1 PROVE F[i] \in Seq(S)
      <4>1. i \in 0 .. k
        BY <3>1
      <4> QED BY <4>1
    <3> QED BY <2>4, <3>1
  <2>6. G[0] = <<>>
    <3>1. 0 \in 0 .. k + 1 /\ 0 # k + 1
      OBVIOUS
    <3> QED BY <2>2, <3>1 DEF IsSums
  <2>7. ASSUME NEW i \in 1 .. k + 1 PROVE G[i] = G[i - 1] \o q[i]
    <3>1. i \in 0 .. k + 1 /\ i - 1 \in 0 .. k + 1 /\ i - 1 # k + 1
      OBVIOUS
    <3>2. G[i] = (IF i = k + 1 THEN F[k] \o q[k + 1] ELSE F[i]) /\ G[i - 1] = F[i - 1]
      BY <3>1
    <3> HIDE DEF G
    <3>3. CASE i = k + 1
      <4>1. i - 1 = k
        BY <3>3
      <4> QED BY <3>2, <3>3, <4>1
    <3>4. CASE i # k + 1
      <4>1. i \in 1 .. k
        BY <3>4
      <4>2. F[i] = F[i - 1] \o q[i]
        BY <2>2, <4>1 DEF IsSums
      <4> QED BY <3>2, <3>4, <4>2
    <3> QED BY <3>3, <3>4
  <2> HIDE DEF G
  <2> QED BY <2>5, <2>6, <2>7 DEF IsSums
<1>4. ASSUME NEW k \in Nat, k \in T PROVE k + 1 \in T
  <2>1. k + 1 <= Len(q) => \E F \in [0 .. k + 1 -> Seq(S)] : IsSums(F, q, k + 1)
    BY <1>3, <1>4
  <2> QED BY <2>1
<1> HIDE DEF T
<1>5. n \in T
  BY <1>2, <1>4, SetInduction
<1> QED BY <1>5 DEF T

(* FlattenSeq is the last of them.                                          *)
LEMMA Flattened ==
    ASSUME NEW S, NEW q \in Seq(Seq(S))
    PROVE  \E F \in [0 .. Len(q) -> Seq(S)] : IsSums(F, q, Len(q)) /\ FlattenSeq(q) = F[Len(q)]
<1>1. Len(q) \in Nat /\ (\A i \in 1 .. Len(q) : q[i] \in Seq(S))
  BY LenProperties, ElementOfSeq
<1>2. PICK F \in [0 .. Len(q) -> Seq(S)] : IsSums(F, q, Len(q))
  BY <1>1, SumsExist
<1>3. CASE Len(q) = 0
  <2>1. q = <<>>
    BY <1>3, EmptySeq
  <2> QED BY <1>2, <1>3, <2>1 DEF FlattenSeq, IsSums
<1>4. CASE Len(q) # 0
  <2> DEFINE Rec(f) == [i \in 1 .. Len(q) |-> IF i = 1 THEN q[i] ELSE f[i - 1] \o q[i]]
             g == [i \in 1 .. Len(q) |-> F[i]]
             flat == CHOOSE f : f = Rec(f)
  <2>1. g = Rec(g)
    <3>1. ASSUME NEW i \in 1 .. Len(q) PROVE F[i] = IF i = 1 THEN q[i] ELSE g[i - 1] \o q[i]
      <4>1. F[i] = F[i - 1] \o q[i] /\ q[i] \in Seq(S)
        BY <1>1, <1>2 DEF IsSums
      <4>2. CASE i = 1
        <5>1. F[i - 1] = <<>>
          BY <1>2, <4>2 DEF IsSums
        <5> QED BY <4>1, <4>2, <5>1, ConcatEmptySeq
      <4>3. CASE i # 1
        <5>1. i - 1 \in 1 .. Len(q)
          BY <1>1, <4>3
        <5> QED BY <4>1, <4>3, <5>1
      <4> QED BY <4>2, <4>3
    <3> QED BY <3>1
  <2>2. flat = Rec(flat)
    BY <2>1
  <2>3. FlattenSeq(q) = flat[Len(q)]
    BY <1>4 DEF FlattenSeq
  <2> HIDE DEF g, flat
  <2> DEFINE U == {k \in Nat : k \in 1 .. Len(q) => flat[k] = F[k]}
  <2>4. 0 \in U
    OBVIOUS
  <2>5. ASSUME NEW k \in Nat, k \in U, k + 1 \in 1 .. Len(q) PROVE flat[k + 1] = F[k + 1]
    <3>1. flat[k + 1] = Rec(flat)[k + 1]
      BY <2>2
    <3>2. k + 1 - 1 = k /\ q[k + 1] \in Seq(S) /\ F[0] = <<>>
      BY <1>1, <1>2, <2>5 DEF IsSums
    <3>3. F[k + 1] = F[k] \o q[k + 1]
      <4>1. \A i \in 1 .. Len(q) : F[i] = F[i - 1] \o q[i]
        BY <1>2 DEF IsSums
      <4> DEFINE m == k + 1
      <4>2. m \in 1 .. Len(q) /\ m - 1 = k
        BY <2>5
      <4> HIDE DEF m
      <4>3. F[m] = F[k] \o q[m]
        BY <4>1, <4>2
      <4> QED BY <4>3 DEF m
    <3>6. Rec(flat)[k + 1] = IF k = 0 THEN q[k + 1] ELSE flat[k] \o q[k + 1]
      <4>1. Rec(flat)[k + 1] = IF k + 1 = 1 THEN q[k + 1] ELSE flat[k + 1 - 1] \o q[k + 1]
        BY <2>5
      <4> QED BY <3>2, <4>1
    <3>4. CASE k = 0
      <4>1. F[k + 1] = <<>> \o q[k + 1] /\ flat[k + 1] = q[k + 1]
        BY <3>1, <3>2, <3>3, <3>4, <3>6
      <4> QED BY <3>2, <4>1, ConcatEmptySeq
    <3>5. CASE k # 0
      <4>1. k \in 1 .. Len(q) /\ k + 1 # 1
        BY <1>1, <2>5, <3>5
      <4>2. flat[k] = F[k]
        BY <2>5, <4>1
      <4> QED BY <3>1, <3>3, <3>5, <3>6, <4>2
    <3> QED BY <3>4, <3>5
  <2>6. \A k \in Nat : k \in U => k + 1 \in U
    BY <2>5
  <2> HIDE DEF U
  <2>7. Len(q) \in U
    BY <1>1, <2>4, <2>6, SetInduction
  <2>8. flat[Len(q)] = F[Len(q)]
    BY <1>1, <1>4, <2>7 DEF U
  <2> QED BY <1>2, <2>3, <2>8
<1> QED BY <1>3, <1>4

Chars == {CR, LF, HEAD, DATA, EXT, BAD} \cup Digits

(* s is what e has after its first p elements.                              *)
Occurs(s, p, e) == p + Len(s) <= Len(e) /\ \A j \in 1 .. Len(s) : e[p + j] = s[j]

(* The parts of a concatenation, where they stand.                          *)
LEMMA OccursIn ==
    ASSUME NEW S, NEW s \in Seq(S), NEW t \in Seq(S)
    PROVE  Occurs(s, 0, s \o t) /\ Occurs(t, Len(s), s \o t) /\ Occurs(s, 0, s)
<1>1. Len(s) \in Nat /\ Len(t) \in Nat
  BY LenProperties
<1>2. /\ Len(s \o t) = Len(s) + Len(t)
      /\ \A i \in 1 .. Len(s) + Len(t) : (s \o t)[i] = IF i <= Len(s) THEN s[i] ELSE t[i - Len(s)]
  BY ConcatProperties
<1>3. Occurs(s, 0, s \o t)
  BY <1>1, <1>2 DEF Occurs
<1>4. ASSUME NEW j \in 1 .. Len(t) PROVE (s \o t)[Len(s) + j] = t[j]
  <2> DEFINE i == Len(s) + j
  <2>1. i \in 1 .. Len(s) + Len(t) /\ ~(i <= Len(s)) /\ i - Len(s) = j
    BY <1>1
  <2> HIDE DEF i
  <2>2. (s \o t)[i] = t[j]
    BY <1>2, <2>1
  <2> QED BY <2>2 DEF i
<1>5. Occurs(t, Len(s), s \o t)
  BY <1>1, <1>2, <1>4 DEF Occurs
<1>6. Occurs(s, 0, s)
  BY <1>1 DEF Occurs
<1> QED BY <1>3, <1>5, <1>6

(* What occurs in what occurs, occurs.                                      *)
LEMMA OccursWithin ==
    ASSUME NEW S, NEW s \in Seq(S), NEW t \in Seq(S), NEW e \in Seq(S), NEW p \in Nat, NEW q \in Nat,
           Occurs(s, p, t), Occurs(t, q, e)
    PROVE  Occurs(s, q + p, e)
<1>1. Len(s) \in Nat /\ Len(t) \in Nat /\ Len(e) \in Nat
  BY LenProperties
<1>2. ASSUME NEW j \in 1 .. Len(s) PROVE e[q + p + j] = s[j]
  <2> DEFINE i == p + j
  <2>1. i \in 1 .. Len(t) /\ q + p + j = q + i
    BY <1>1 DEF Occurs
  <2>2. t[p + j] = s[j]
    BY DEF Occurs
  <2> HIDE DEF i
  <2>3. e[q + i] = t[i]
    BY <2>1 DEF Occurs
  <2> QED BY <2>1, <2>2, <2>3 DEF i
<1> QED BY <1>1, <1>2 DEF Occurs

(* The parts of a sum, where they stand.                                    *)
LEMMA SumsParts ==
    ASSUME NEW S, NEW q \in Seq(Seq(S)), NEW n \in Nat, n = Len(q), NEW F \in [0 .. n -> Seq(S)], IsSums(F, q, n)
    PROVE  /\ \A i \in 1 .. n : Occurs(q[i], Len(F[i - 1]), F[n]) /\ Len(F[i]) = Len(F[i - 1]) + Len(q[i])
           /\ \A i \in 0 .. n : Len(F[i]) \in Nat /\ Len(F[i]) <= Len(F[n])
<1>1. /\ \A i \in 1 .. n : q[i] \in Seq(S) /\ F[i - 1] \in Seq(S) /\ F[i] \in Seq(S) /\ F[i] = F[i - 1] \o q[i]
      /\ \A i \in 0 .. n : F[i] \in Seq(S) /\ Len(F[i]) \in Nat
  <2>1. \A i \in 1 .. n : i - 1 \in 0 .. n /\ i \in 0 .. n
    OBVIOUS
  <2>2. \A i \in 1 .. n : F[i] = F[i - 1] \o q[i]
    BY DEF IsSums
  <2>3. \A i \in 1 .. n : q[i] \in Seq(S)
    BY ElementOfSeq
  <2>4. \A i \in 0 .. n : F[i] \in Seq(S)
    OBVIOUS
  <2> QED BY <2>1, <2>2, <2>3, <2>4, LenProperties
<1>2. ASSUME NEW i \in 0 .. n PROVE Occurs(F[i], 0, F[n])
  <2> DEFINE T == {k \in Nat : i + k <= n => Occurs(F[i], 0, F[i + k])}
  <2>1. 0 \in T
    <3>1. i + 0 = i /\ Occurs(F[i], 0, F[i])
      BY <1>1, OccursIn
    <3> QED BY <3>1
  <2>2. ASSUME NEW k \in Nat, k \in T PROVE k + 1 \in T
    <3> SUFFICES ASSUME i + (k + 1) <= n PROVE Occurs(F[i], 0, F[i + (k + 1)])
      OBVIOUS
    <3> DEFINE j == i + (k + 1)
    <3>1. j \in 1 .. n /\ j - 1 = i + k /\ i + k <= n
      OBVIOUS
    <3>2. Occurs(F[i], 0, F[i + k])
      BY <2>2, <3>1
    <3> HIDE DEF j
    <3>3. F[j] = F[j - 1] \o q[j] /\ F[j - 1] \in Seq(S) /\ q[j] \in Seq(S) /\ F[j] \in Seq(S) /\ F[i] \in Seq(S)
      BY <1>1, <3>1
    <3>4. Occurs(F[j - 1], 0, F[j]) /\ Occurs(F[i], 0, F[j - 1])
      BY <3>1, <3>2, <3>3, OccursIn
    <3>5. Occurs(F[i], 0 + 0, F[j])
      BY <3>3, <3>4, OccursWithin
    <3> QED BY <3>5 DEF j
  <2> HIDE DEF T
  <2>3. n - i \in Nat /\ i + (n - i) = n
    OBVIOUS
  <2>4. n - i \in T
    BY <2>1, <2>2, <2>3, SetInduction
  <2> QED BY <2>3, <2>4 DEF T
<1>3. ASSUME NEW i \in 1 .. n PROVE Occurs(q[i], Len(F[i - 1]), F[n]) /\ Len(F[i]) = Len(F[i - 1]) + Len(q[i])
  <2>1. /\ q[i] \in Seq(S) /\ F[i - 1] \in Seq(S) /\ F[i] \in Seq(S) /\ F[i] = F[i - 1] \o q[i] /\ F[n] \in Seq(S)
        /\ Len(F[i - 1]) \in Nat
    <3>1. i - 1 \in 0 .. n /\ n \in 0 .. n
      OBVIOUS
    <3> QED BY <1>1, <3>1
  <2>2. Occurs(F[i], 0, F[n])
    <3>1. i \in 0 .. n
      OBVIOUS
    <3> QED BY <1>2, <3>1
  <2>3. Occurs(q[i], Len(F[i - 1]), F[i])
    BY <2>1, OccursIn
  <2>4. Occurs(q[i], 0 + Len(F[i - 1]), F[n])
    BY <2>1, <2>2, <2>3, OccursWithin
  <2>5. 0 + Len(F[i - 1]) = Len(F[i - 1])
    BY <2>1
  <2>6. Len(F[i]) = Len(F[i - 1]) + Len(q[i])
    BY <2>1, ConcatProperties
  <2> QED BY <2>4, <2>5, <2>6
<1>4. \A i \in 0 .. n : Len(F[i]) \in Nat /\ Len(F[i]) <= Len(F[n])
  BY <1>1, <1>2 DEF Occurs
<1> QED BY <1>3, <1>4

-----------------------------------------------------------------------------
(* The shape of a response.                                                 *)
ChunkSeq(m) == [i \in DOMAIN m.pieces |-> Chunk(m, i)]
TrailerLine == <<DATA>> \o CRLF
TrailerSeq(m) == [i \in 1 .. m.trailers |-> TrailerLine]

(* What the first sequences of q give: Sums(q)[Len(q)] is FlattenSeq(q).     *)
Sums(q) == CHOOSE F \in [0 .. Len(q) -> Seq(Chars)] : IsSums(F, q, Len(q)) /\ FlattenSeq(q) = F[Len(q)]

(* Where the i-th chunk, the last size line and the t-th trailer end.        *)
ChunkEnd(m, i) == 5 + Len(Sums(ChunkSeq(m))[i])
LastEnd(m) == ChunkEnd(m, Len(m.pieces)) + Len(SizeLine(m, Len(m.sizes)))
TrailerEnd(m, t) == LastEnd(m) + Len(Sums(TrailerSeq(m))[t])

(* The body without the chunks after the i-th.                              *)
SoFar(m, i) == Sums(m.pieces)[i]

(* A size line without its CRLF.                                            *)
Word(m, i) ==
    (IF m.malformed THEN <<BAD>> ELSE <<>>) \o m.sizes[i] \o (IF m.extension THEN <<EXT, DATA>> ELSE <<>>)

(* What Sums chooses.                                                       *)
LEMMA SumsFacts ==
    ASSUME NEW q \in Seq(Seq(Chars)), NEW n \in Nat, n = Len(q)
    PROVE  /\ Sums(q) \in [0 .. n -> Seq(Chars)]
           /\ IsSums(Sums(q), q, n)
           /\ Sums(q)[n] = FlattenSeq(q)
           /\ \A i \in 0 .. n : Len(Sums(q)[i]) \in Nat /\ Len(Sums(q)[i]) <= Len(FlattenSeq(q))
           /\ \A i \in 1 .. n : /\ Occurs(q[i], Len(Sums(q)[i - 1]), FlattenSeq(q))
                                /\ Len(Sums(q)[i]) = Len(Sums(q)[i - 1]) + Len(q[i])
<1>1. \E F \in [0 .. Len(q) -> Seq(Chars)] : IsSums(F, q, Len(q)) /\ FlattenSeq(q) = F[Len(q)]
  BY Flattened
<1>2. Sums(q) \in [0 .. n -> Seq(Chars)] /\ IsSums(Sums(q), q, n) /\ FlattenSeq(q) = Sums(q)[n]
  BY <1>1 DEF Sums
<1> DEFINE F == Sums(q)
<1> HIDE DEF F
<1>3. F \in [0 .. n -> Seq(Chars)] /\ IsSums(F, q, n) /\ FlattenSeq(q) = F[n]
  BY <1>2 DEF F
<1>4. /\ \A i \in 1 .. n : Occurs(q[i], Len(F[i - 1]), F[n]) /\ Len(F[i]) = Len(F[i - 1]) + Len(q[i])
      /\ \A i \in 0 .. n : Len(F[i]) \in Nat /\ Len(F[i]) <= Len(F[n])
  <2> HIDE DEF Chars
  <2>1. n = Len(q) /\ F \in [0 .. n -> Seq(Chars)] /\ IsSums(F, q, n)
    BY <1>3
  <2> QED BY ONLY <2>1, SumsParts, q \in Seq(Seq(Chars)), n \in Nat, Zenon
<1> QED BY <1>3, <1>4 DEF F

(* Of a response, from FramingAssumption.                                   *)
LEMMA MessageFacts ==
    ASSUME NEW m \in Messages
    PROVE  /\ m.framing \in {"none", "length", "chunked", "eof"}
           /\ m.pieces \in Seq(Seq(Chars)) /\ Len(m.pieces) \in Nat /\ DOMAIN m.pieces = 1 .. Len(m.pieces)
           /\ m.sizes \in Seq(Seq(Digits)) /\ DOMAIN m.sizes = 1 .. Len(m.sizes)
           /\ m.trailers \in Nat
           /\ {m.extension, m.close, m.malformed} \subseteq BOOLEAN
           /\ \A i \in 1 .. Len(m.pieces) : m.pieces[i] \in Seq(Chars) /\ Len(m.pieces[i]) \in Nat
<1>1. m \in MessageType
  BY FramingAssumption
<1>2. ({CR, LF, DATA} \cup Digits) \subseteq Chars
  BY DEF Chars
<1>3. Seq({CR, LF, DATA} \cup Digits) \subseteq Seq(Chars)
  BY <1>2, SeqMonotonic
<1>4. Seq(Seq({CR, LF, DATA} \cup Digits)) \subseteq Seq(Seq(Chars))
  BY <1>3, SeqMonotonic
<1>5. m.pieces \in Seq(Seq(Chars)) /\ m.sizes \in Seq(Seq(Digits))
  BY <1>1, <1>4 DEF MessageType
<1>6. /\ Len(m.pieces) \in Nat /\ DOMAIN m.pieces = 1 .. Len(m.pieces) /\ DOMAIN m.sizes = 1 .. Len(m.sizes)
      /\ \A i \in 1 .. Len(m.pieces) : m.pieces[i] \in Seq(Chars) /\ Len(m.pieces[i]) \in Nat
  BY <1>5, LenProperties, ElementOfSeq
<1>7. m.framing \in {"none", "length", "chunked", "eof"} /\ m.trailers \in Nat
  BY <1>1 DEF MessageType
<1>8. {m.extension, m.close, m.malformed} \subseteq BOOLEAN
  BY <1>1 DEF MessageType
<1> QED BY <1>1, <1>5, <1>6, <1>7, <1>8

(* Of the sizes of a chunked response.                                      *)
LEMMA ChunkedFacts ==
    ASSUME NEW m \in Messages, m.framing = "chunked"
    PROVE  /\ Len(m.sizes) = Len(m.pieces) + 1
           /\ \A i \in 1 .. Len(m.pieces) + 1 :
                /\ m.sizes[i] \in Seq(Digits) /\ m.sizes[i] \in Seq(Chars) /\ IsSize(m.sizes[i])
                /\ Value(m.sizes[i]) = IF i = Len(m.pieces) + 1 THEN 0 ELSE Len(m.pieces[i])
           /\ \A i \in 1 .. Len(m.pieces) : Len(m.pieces[i]) # 0
<1>1. ChunkSizes(m) /\ \A i \in DOMAIN m.pieces : m.pieces[i] # <<>>
  BY FramingAssumption
<1>2. Len(m.sizes) = Len(m.pieces) + 1 /\ DOMAIN m.sizes = 1 .. Len(m.pieces) + 1
  BY <1>1, MessageFacts DEF ChunkSizes
<1>3. Seq(Digits) \subseteq Seq(Chars)
  <2>1. Digits \subseteq Chars
    BY DEF Chars
  <2> QED BY <2>1, SeqMonotonic
<1>4. ASSUME NEW i \in 1 .. Len(m.pieces) + 1
      PROVE  /\ m.sizes[i] \in Seq(Digits) /\ m.sizes[i] \in Seq(Chars) /\ IsSize(m.sizes[i])
             /\ Value(m.sizes[i]) = IF i = Len(m.pieces) + 1 THEN 0 ELSE Len(m.pieces[i])
  <2>1. IsSize(m.sizes[i]) /\ Value(m.sizes[i]) = IF i \in DOMAIN m.pieces THEN Len(m.pieces[i]) ELSE 0
    BY <1>1, <1>2 DEF ChunkSizes
  <2>2. i \in DOMAIN m.pieces <=> i # Len(m.pieces) + 1
    BY MessageFacts
  <2>3. m.sizes[i] \in Seq(Digits)
    BY <1>2, MessageFacts, ElementOfSeq
  <2> QED BY <1>3, <2>1, <2>2, <2>3
<1>5. ASSUME NEW i \in 1 .. Len(m.pieces) PROVE Len(m.pieces[i]) # 0
  BY <1>1, MessageFacts, EmptySeq
<1> QED BY <1>2, <1>4, <1>5

(* The least element of a set of natural numbers.                           *)
LEMMA FirstIsLeast ==
    ASSUME NEW S \in SUBSET Nat, S # {}
    PROVE  First(S) \in S /\ \A j \in S : First(S) <= j
<1> DEFINE R == OpToRel(<, Nat)
<1>1. IsWellFoundedOn(R, Nat)
  BY NatLessThanWellFounded
<1>2. PICK k \in S : \A j \in S : ~(<<j, k>> \in R)
  <2> HIDE DEF R
  <2> QED BY <1>1, WFMin
<1>3. \A j \in S : ~(j < k)
  BY <1>2 DEF OpToRel
<1>4. \A j \in S : k <= j
  BY <1>3
<1> QED BY <1>4 DEF First

(* The same, to name it.                                                    *)
LEMMA FirstIs ==
    ASSUME NEW S \in SUBSET Nat, NEW k \in S, \A j \in S : k <= j
    PROVE  First(S) = k
<1>1. First(S) \in S /\ First(S) <= k
  BY FirstIsLeast
<1>2. k <= First(S) /\ k \in Nat /\ First(S) \in Nat
  BY <1>1
<1> DEFINE j == First(S)
<1> HIDE DEF j
<1>3. k <= j /\ j <= k /\ k \in Nat /\ j \in Nat
  BY <1>1, <1>2 DEF j
<1>4. j = k
  BY ONLY <1>3
<1> QED BY <1>4 DEF j

(* A sequence cut in two.                                                   *)
LEMMA CutSeq ==
    ASSUME NEW S, NEW q \in Seq(S), NEW k \in 0 .. Len(q)
    PROVE  /\ SubSeq(q, 1, k) \in Seq(S) /\ Len(SubSeq(q, 1, k)) = k
           /\ \A i \in 1 .. k : SubSeq(q, 1, k)[i] = q[i]
           /\ SubSeq(q, k + 1, Len(q)) \in Seq(S) /\ Len(SubSeq(q, k + 1, Len(q))) = Len(q) - k
           /\ \A i \in 1 .. Len(q) - k : SubSeq(q, k + 1, Len(q))[i] = q[k + i]
           /\ SubSeq(q, 1, k) \o SubSeq(q, k + 1, Len(q)) = q
<1>1. Len(q) \in Nat /\ \A i \in 1 .. Len(q) : q[i] \in S
  BY LenProperties, ElementOfSeq
<1>2. \A i \in 1 .. k : q[i] \in S
  BY <1>1
<1>3. /\ SubSeq(q, 1, k) \in Seq(S)
      /\ Len(SubSeq(q, 1, k)) = IF 1 <= k THEN k - 1 + 1 ELSE 0
      /\ \A i \in 1 .. k - 1 + 1 : SubSeq(q, 1, k)[i] = q[1 + i - 1]
  <2> DEFINE m == 1
  <2>1. m \in Int /\ k \in Int /\ \A i \in m .. k : q[i] \in S
    BY <1>1
  <2> HIDE DEF m
  <2>2. /\ SubSeq(q, m, k) \in Seq(S)
        /\ Len(SubSeq(q, m, k)) = IF m <= k THEN k - m + 1 ELSE 0
        /\ \A i \in 1 .. k - m + 1 : SubSeq(q, m, k)[i] = q[m + i - 1]
    BY <2>1, SubSeqProperties
  <2> QED BY <2>2 DEF m
<1>4. /\ SubSeq(q, k + 1, Len(q)) \in Seq(S)
      /\ Len(SubSeq(q, k + 1, Len(q))) = IF k + 1 <= Len(q) THEN Len(q) - (k + 1) + 1 ELSE 0
      /\ \A i \in 1 .. Len(q) - (k + 1) + 1 : SubSeq(q, k + 1, Len(q))[i] = q[k + 1 + i - 1]
  <2> DEFINE m == k + 1
             n == Len(q)
  <2>1. m \in Int /\ n \in Int /\ \A i \in m .. n : q[i] \in S
    BY <1>1
  <2> HIDE DEF m, n
  <2>2. /\ SubSeq(q, m, n) \in Seq(S)
        /\ Len(SubSeq(q, m, n)) = IF m <= n THEN n - m + 1 ELSE 0
        /\ \A i \in 1 .. n - m + 1 : SubSeq(q, m, n)[i] = q[m + i - 1]
    BY <2>1, SubSeqProperties
  <2> QED BY <2>2 DEF m, n
<1>5. SubSeq(q, 1, k) \o SubSeq(q, k + 1, Len(q)) = q
  <2>1. SubSeq(q, 1, k) \o SubSeq(q, k + 1, Len(q)) = SubSeq(q, 1, Len(q))
    <3>1. 1 \in 1 .. Len(q) + 1 /\ k \in 1 - 1 .. Len(q) /\ Len(q) \in k .. Len(q)
      BY <1>1
    <3> QED BY <3>1, ConcatAdjacentSubSeq
  <2> QED BY <2>1, SubSeqFull
<1>6. Len(SubSeq(q, 1, k)) = k /\ \A i \in 1 .. k : SubSeq(q, 1, k)[i] = q[i]
  BY <1>3
<1>7. /\ Len(SubSeq(q, k + 1, Len(q))) = Len(q) - k
      /\ \A i \in 1 .. Len(q) - k : SubSeq(q, k + 1, Len(q))[i] = q[k + i]
  BY <1>1, <1>4
<1> QED BY <1>3, <1>4, <1>5, <1>6, <1>7

(* A size line is a word without CR, and CRLF.  Without the extension the    *)
(* word is the size, unless it is malformed: then it is no number.          *)
LEMMA SizeLineFacts ==
    ASSUME NEW m \in Messages, m.framing = "chunked", NEW i \in 1 .. Len(m.pieces) + 1
    PROVE  /\ Word(m, i) \in Seq(Chars) /\ SizeLine(m, i) = Word(m, i) \o CRLF
           /\ SizeLine(m, i) \in Seq(Chars)
           /\ \A j \in 1 .. Len(Word(m, i)) : Word(m, i)[j] # CR
           /\ IF m.malformed THEN ~IsSize(WithoutExtension(Word(m, i)))
              ELSE WithoutExtension(Word(m, i)) = m.sizes[i]
<1> DEFINE Letters == {BAD, EXT, DATA} \cup Digits
           z == m.sizes[i]
           pre == IF m.malformed THEN <<BAD>> ELSE <<>>
           post == IF m.extension THEN <<EXT, DATA>> ELSE <<>>
           W == Word(m, i)
<1>1. z \in Seq(Digits) /\ IsSize(z) /\ Len(z) \in Nat /\ \A j \in 1 .. Len(z) : z[j] \in Digits
  <2>1. z \in Seq(Digits) /\ IsSize(z)
    BY ChunkedFacts
  <2> QED BY <2>1, LenProperties, ElementOfSeq
<1>2. z \in Seq(Letters)
  <2>1. Digits \subseteq Letters
    OBVIOUS
  <2> QED BY <1>1, <2>1, SeqMonotonic
<1>3. pre \in Seq(Letters) /\ post \in Seq(Letters)
  <2>1. <<>> \in Seq(Letters) /\ <<BAD>> \in Seq(Letters) /\ <<EXT, DATA>> \in Seq(Letters)
    OBVIOUS
  <2> HIDE DEF Letters
  <2> QED BY <2>1
<1>4. W = (pre \o z) \o post
  BY DEF Word
<1> HIDE DEF pre, post, z, W
<1>5. pre \o z \in Seq(Letters) /\ W \in Seq(Letters)
  <2>1. pre \o z \in Seq(Letters)
    BY <1>2, <1>3, ConcatProperties
  <2> QED BY <1>3, <1>4, <2>1, ConcatProperties
<1>6. W \in Seq(Chars) /\ Len(W) \in Nat /\ \A j \in 1 .. Len(W) : W[j] \in Letters
  <2>1. Letters \subseteq Chars
    BY DEF Chars
  <2>2. W \in Seq(Chars)
    BY <1>5, <2>1, SeqMonotonic
  <2> QED BY <1>5, <2>2, LenProperties, ElementOfSeq
<1>7. \A j \in 1 .. Len(W) : W[j] # CR
  <2>1. CR \notin Letters
    BY DEF CR, BAD, EXT, DATA, Digits
  <2> QED BY <1>6, <2>1
<1>8. SizeLine(m, i) = W \o CRLF /\ SizeLine(m, i) \in Seq(Chars)
  <2>1. SizeLine(m, i) = W \o CRLF
    BY DEF W, Word, SizeLine
  <2>2. CRLF \in Seq(Chars)
    BY DEF CRLF, Chars
  <2> QED BY <1>6, <2>1, <2>2, ConcatProperties
<1> DEFINE semicolons == {j \in DOMAIN W : W[j] = EXT}
<1>9. DOMAIN W = 1 .. Len(W)
  BY <1>6, LenProperties
<1>10. WithoutExtension(W) = IF semicolons = {} THEN W ELSE SubSeq(W, 1, First(semicolons) - 1)
  BY DEF WithoutExtension
<1>11. semicolons \in SUBSET Nat
  BY <1>6, <1>9
<1>12. ASSUME m.malformed PROVE ~IsSize(WithoutExtension(W))
  <2>1. Len(W) >= 1 /\ W[1] = BAD
    <3>1. pre = <<BAD>>
      BY <1>12 DEF pre
    <3>2. Len(pre \o z) = 1 + Len(z) /\ (pre \o z)[1] = BAD
      BY <1>1, <1>2, <1>3, <3>1, ConcatProperties
    <3>3. Len(post) \in Nat
      BY <1>3, LenProperties
    <3> QED BY <1>1, <1>3, <1>4, <1>5, <3>2, <3>3, ConcatProperties
  <2>2. BAD \notin Digits /\ BAD # EXT
    BY DEF BAD, EXT, Digits
  <2>3. CASE semicolons = {}
    <3>1. WithoutExtension(W) = W /\ 1 \in DOMAIN W
      BY <1>6, <1>9, <1>10, <2>1, <2>3
    <3> QED BY <2>1, <2>2, <3>1 DEF IsSize
  <2>4. CASE semicolons # {}
    <3> DEFINE k == First(semicolons)
               v == SubSeq(W, 1, k - 1)
    <3>1. k \in semicolons
      BY <1>11, <2>4, FirstIsLeast
    <3>2. k \in 2 .. Len(W) /\ k - 1 \in 1 .. Len(W)
      <4>1. k \in 1 .. Len(W) /\ W[k] = EXT
        BY <1>9, <3>1
      <4>2. k # 1
        BY <2>1, <2>2, <4>1
      <4> QED BY <1>6, <4>1, <4>2
    <3> HIDE DEF k
    <3> DEFINE n == k - 1
    <3>6. n \in 0 .. Len(W) /\ 1 \in 1 .. n
      BY <1>6, <3>2
    <3>7. /\ SubSeq(W, 1, n) \in Seq(Letters) /\ Len(SubSeq(W, 1, n)) = n
          /\ \A j \in 1 .. n : SubSeq(W, 1, n)[j] = W[j]
      <4> HIDE DEF n
      <4> QED BY <1>5, <3>6, CutSeq
    <3>3. v \in Seq(Letters) /\ Len(v) = k - 1 /\ v[1] = W[1]
      BY <3>6, <3>7
    <3>4. 1 \in DOMAIN v
      BY <3>2, <3>3, LenProperties
    <3>5. WithoutExtension(W) = v
      BY <1>10, <2>4 DEF k
    <3> QED BY <2>1, <2>2, <3>3, <3>4, <3>5 DEF IsSize
  <2> QED BY <2>3, <2>4
<1>13. ASSUME ~m.malformed PROVE WithoutExtension(W) = z
  <2>1. W = z \o post
    <3>1. pre = <<>>
      BY <1>13 DEF pre
    <3> QED BY <1>2, <1>4, <3>1, ConcatEmptySeq
  <2>2. EXT \notin Digits /\ EXT # DATA
    BY DEF EXT, DATA, Digits
  <2>3. CASE ~m.extension
    <3>1. W = z
      BY <1>2, <2>1, <2>3, ConcatEmptySeq DEF post
    <3>2. semicolons = {}
      BY <1>1, <1>9, <2>2, <3>1
    <3> QED BY <1>10, <3>1, <3>2
  <2>4. CASE m.extension
    <3>1. post = <<EXT, DATA>>
      BY <2>4 DEF post
    <3>2. /\ Len(W) = Len(z) + 2
          /\ \A j \in 1 .. Len(z) + 2 : W[j] = IF j <= Len(z) THEN z[j] ELSE post[j - Len(z)]
      BY <1>2, <1>3, <2>1, <3>1, ConcatProperties
    <3> DEFINE k == Len(z) + 1
    <3>3. k \in 1 .. Len(W) /\ k - Len(z) = 1 /\ ~(k <= Len(z)) /\ k \in 1 .. Len(z) + 2 /\ k - 1 = Len(z)
      BY <1>1, <3>2
    <3> HIDE DEF k
    <3>4. k \in semicolons
      BY <1>9, <3>1, <3>2, <3>3
    <3>5. ASSUME NEW j \in semicolons PROVE k <= j
      <4>1. j \in 1 .. Len(W) /\ W[j] = EXT
        BY <1>9
      <4>2. ~(j <= Len(z))
        <5> SUFFICES ASSUME j <= Len(z) PROVE FALSE
          OBVIOUS
        <5>1. j \in 1 .. Len(z) /\ W[j] = z[j]
          BY <1>1, <3>2, <4>1
        <5> QED BY <1>1, <2>2, <4>1, <5>1
      <4> QED BY <1>1, <4>1, <4>2 DEF k
    <3>6. First(semicolons) = k
      BY <1>11, <3>4, <3>5, FirstIs
    <3>7. SubSeq(W, 1, k - 1) = z
      <4>1. Len(z) \in 0 .. Len(W)
        BY <1>1, <3>2
      <4>2. /\ SubSeq(W, 1, Len(z)) \in Seq(Letters) /\ Len(SubSeq(W, 1, Len(z))) = Len(z)
            /\ \A j \in 1 .. Len(z) : SubSeq(W, 1, Len(z))[j] = W[j]
        BY <1>5, <4>1, CutSeq
      <4>3. \A j \in 1 .. Len(z) : SubSeq(W, 1, Len(z))[j] = z[j]
        BY <1>1, <3>2, <4>2
      <4>4. SubSeq(W, 1, Len(z)) = z
        BY <1>2, <4>2, <4>3, SeqEqual
      <4> QED BY <3>3, <4>4
    <3> QED BY <1>10, <3>4, <3>6, <3>7
  <2> QED BY <2>3, <2>4
<1> QED BY <1>6, <1>7, <1>8, <1>12, <1>13 DEF W, z

(* The body, chunk after chunk.                                             *)
LEMMA BodyFacts ==
    ASSUME NEW m \in Messages
    PROVE  /\ Body(m) \in Seq(Chars) /\ Len(Body(m)) \in Nat
           /\ SoFar(m, 0) = <<>> /\ SoFar(m, Len(m.pieces)) = Body(m)
           /\ \A i \in 0 .. Len(m.pieces) : SoFar(m, i) \in Seq(Chars)
           /\ \A i \in 1 .. Len(m.pieces) : SoFar(m, i) = SoFar(m, i - 1) \o m.pieces[i]
           /\ m.pieces = <<>> => Body(m) = <<>>
<1> DEFINE q == m.pieces
           n == Len(m.pieces)
           F == Sums(m.pieces)
<1>1. q \in Seq(Seq(Chars)) /\ n \in Nat /\ n = Len(q)
  BY MessageFacts
<1>2. F \in [0 .. n -> Seq(Chars)] /\ IsSums(F, q, n) /\ F[n] = FlattenSeq(q)
  BY <1>1, SumsFacts
<1> HIDE DEF F
<1>3. /\ F[0] = <<>>
      /\ \A i \in 0 .. n : F[i] \in Seq(Chars)
      /\ \A i \in 1 .. n : F[i] = F[i - 1] \o q[i]
  BY <1>2 DEF IsSums
<1>4. F[n] \in Seq(Chars)
  BY <1>1, <1>3
<1>5. Len(F[n]) \in Nat
  BY <1>4, LenProperties
<1>6. q = <<>> => F[n] = <<>>
  <2>1. q = <<>> => n = 0
    BY <1>1
  <2> QED BY <1>3, <2>1
<1> QED BY <1>2, <1>3, <1>4, <1>5, <1>6 DEF Body, SoFar, F

Join(e, a, b, c, d) == e = a \o b \o c \o d

(* The four parts of a chunked body, or of any sequence, where they stand.  *)
LEMMA FourParts ==
    ASSUME NEW S, NEW a \in Seq(S), NEW b \in Seq(S), NEW c \in Seq(S), NEW d \in Seq(S),
           NEW e, Join(e, a, b, c, d)
    PROVE  /\ e \in Seq(S)
           /\ Occurs(a, 0, e) /\ Occurs(b, Len(a), e)
           /\ Occurs(c, Len(a) + Len(b), e) /\ Occurs(d, Len(a) + Len(b) + Len(c), e)
           /\ Len(e) = Len(a) + Len(b) + Len(c) + Len(d)
<1> DEFINE x == a \o b
           y == x \o c
<1>1. Len(a) \in Nat /\ Len(b) \in Nat /\ Len(c) \in Nat /\ Len(d) \in Nat
  BY LenProperties
<1>2. x \in Seq(S) /\ Len(x) = Len(a) + Len(b) /\ Occurs(a, 0, x) /\ Occurs(b, Len(a), x)
  BY ConcatProperties, OccursIn
<1> HIDE DEF x
<1>3. y \in Seq(S) /\ Len(y) = Len(x) + Len(c) /\ Occurs(x, 0, y) /\ Occurs(c, Len(x), y)
  BY <1>2, ConcatProperties, OccursIn
<1> HIDE DEF y
<1>4. e \in Seq(S) /\ Len(e) = Len(y) + Len(d) /\ Occurs(y, 0, e) /\ Occurs(d, Len(y), e)
  <2>1. e = y \o d
    BY DEF x, y, Join
  <2> QED BY <1>3, <2>1, ConcatProperties, OccursIn
<1>5. Occurs(x, 0 + 0, e)
  BY <1>2, <1>3, <1>4, OccursWithin
<1>6. 0 + 0 = 0 /\ 0 + Len(a) = Len(a) /\ 0 + Len(x) = Len(a) + Len(b) /\ 0 \in Nat /\ Len(x) \in Nat
  BY <1>1, <1>2
<1>7. Occurs(a, 0 + 0, e)
  BY <1>2, <1>4, <1>5, <1>6, OccursWithin
<1>12. Occurs(x, 0, e)
  BY <1>5, <1>6
<1>8. Occurs(b, 0 + Len(a), e)
  BY <1>1, <1>2, <1>4, <1>6, <1>12, OccursWithin, Zenon
<1>9. Occurs(c, 0 + Len(x), e)
  BY <1>1, <1>2, <1>3, <1>4, <1>6, OccursWithin, Zenon
<1>10. Occurs(a, 0, e) /\ Occurs(b, Len(a), e) /\ Occurs(c, Len(a) + Len(b), e)
  BY <1>6, <1>7, <1>8, <1>9
<1>11. Len(y) = Len(a) + Len(b) + Len(c) /\ Len(e) = Len(a) + Len(b) + Len(c) + Len(d)
  BY <1>1, <1>2, <1>3, <1>4
<1> QED BY <1>4, <1>10, <1>11 DEF y, x

(* The five bytes of the head, and what follows them.                       *)
Content(m) == IF m.framing = "chunked" THEN ChunkedBody(m) ELSE Body(m)

LEMMA HeadShape ==
    ASSUME NEW m \in Messages, Content(m) \in Seq(Chars)
    PROVE  /\ Encoded(m) \in Seq(Chars)
           /\ Occurs(<<HEAD>> \o (CRLF \o CRLF), 0, Encoded(m))
           /\ Occurs(Content(m), 5, Encoded(m))
           /\ Len(Encoded(m)) = 5 + Len(Content(m))
<1>1. <<HEAD>> \in Seq(Chars) /\ CRLF \in Seq(Chars) /\ Len(<<HEAD>>) = 1 /\ Len(CRLF) = 2
  BY DEF CRLF, Chars
<1> DEFINE e == <<HEAD>> \o CRLF \o CRLF \o Content(m)
<1>2. /\ e \in Seq(Chars)
      /\ Occurs(Content(m), Len(<<HEAD>>) + Len(CRLF) + Len(CRLF), e)
      /\ Len(e) = Len(<<HEAD>>) + Len(CRLF) + Len(CRLF) + Len(Content(m))
  <2> DEFINE h == <<HEAD>>
             c == Content(m)
  <2>1. h \in Seq(Chars) /\ CRLF \in Seq(Chars) /\ c \in Seq(Chars) /\ Join(e, h, CRLF, CRLF, c)
    BY <1>1 DEF Join
  <2> HIDE DEF h, c, e
  <2>2. /\ e \in Seq(Chars)
        /\ Occurs(h, 0, e) /\ Occurs(CRLF, Len(h), e)
        /\ Occurs(CRLF, Len(h) + Len(CRLF), e) /\ Occurs(c, Len(h) + Len(CRLF) + Len(CRLF), e)
        /\ Len(e) = Len(h) + Len(CRLF) + Len(CRLF) + Len(c)
    BY <2>1, FourParts
  <2> QED BY <2>2 DEF h, c
<1>3. e = Encoded(m)
  BY DEF Encoded, Content
<1>4. (<<HEAD>> \o CRLF) \o CRLF = <<HEAD>> \o (CRLF \o CRLF)
  BY <1>1, ConcatAssociative
<1>5. (<<HEAD>> \o CRLF) \o CRLF \in Seq(Chars)
  BY <1>1, ConcatProperties
<1>6. Occurs((<<HEAD>> \o CRLF) \o CRLF, 0, e)
  BY <1>5, OccursIn
<1>7. 1 + 2 + 2 = 5
  OBVIOUS
<1> HIDE DEF e
<1> QED BY <1>1, <1>2, <1>3, <1>4, <1>6, <1>7

(* A chunk: its size line, its bytes, a CRLF.                               *)
LEMMA ChunkFacts ==
    ASSUME NEW m \in Messages, m.framing = "chunked", NEW i \in 1 .. Len(m.pieces)
    PROVE  /\ Chunk(m, i) \in Seq(Chars)
           /\ Occurs(SizeLine(m, i), 0, Chunk(m, i)) /\ Occurs(m.pieces[i], Len(SizeLine(m, i)), Chunk(m, i))
           /\ Len(Chunk(m, i)) = Len(SizeLine(m, i)) + Len(m.pieces[i]) + 2
<1>1. SizeLine(m, i) \in Seq(Chars) /\ m.pieces[i] \in Seq(Chars)
  <2>1. i \in 1 .. Len(m.pieces) + 1
    BY MessageFacts
  <2> QED BY <2>1, MessageFacts, SizeLineFacts
<1>2. CRLF \in Seq(Chars) /\ Len(CRLF) = 2 /\ <<>> \in Seq(Chars) /\ Len(<<>>) = 0
  BY DEF CRLF, Chars
<1> DEFINE e == SizeLine(m, i) \o m.pieces[i] \o CRLF \o <<>>
<1>3. /\ e \in Seq(Chars)
      /\ Occurs(SizeLine(m, i), 0, e) /\ Occurs(m.pieces[i], Len(SizeLine(m, i)), e)
      /\ Len(e) = Len(SizeLine(m, i)) + Len(m.pieces[i]) + Len(CRLF) + Len(<<>>)
  <2> DEFINE a == SizeLine(m, i)
             b == m.pieces[i]
             d == <<>>
  <2>1. a \in Seq(Chars) /\ b \in Seq(Chars) /\ CRLF \in Seq(Chars) /\ d \in Seq(Chars) /\ Join(e, a, b, CRLF, d)
    BY <1>1, <1>2 DEF Join
  <2> HIDE DEF a, b, d, e
  <2>2. /\ e \in Seq(Chars)
        /\ Occurs(a, 0, e) /\ Occurs(b, Len(a), e)
        /\ Occurs(CRLF, Len(a) + Len(b), e) /\ Occurs(d, Len(a) + Len(b) + Len(CRLF), e)
        /\ Len(e) = Len(a) + Len(b) + Len(CRLF) + Len(d)
    BY <2>1, FourParts
  <2> QED BY <2>2 DEF a, b, d
<1>4. e = Chunk(m, i)
  <2>1. SizeLine(m, i) \o m.pieces[i] \in Seq(Chars)
    BY <1>1, ConcatProperties
  <2>2. SizeLine(m, i) \o m.pieces[i] \o CRLF \in Seq(Chars)
    BY <1>2, <2>1, ConcatProperties
  <2> QED BY <2>2, ConcatEmptySeq DEF Chunk
<1>5. Len(SizeLine(m, i)) \in Nat /\ Len(m.pieces[i]) \in Nat
  BY <1>1, LenProperties
<1> HIDE DEF e
<1>6. Len(e) = Len(SizeLine(m, i)) + Len(m.pieces[i]) + 2
  BY <1>2, <1>3, <1>5
<1> QED BY <1>3, <1>4, <1>6

(* A trailer line.                                                          *)
LEMMA TrailerFacts ==
    TrailerLine \in Seq(Chars) /\ CRLF \in Seq(Chars) /\ Len(TrailerLine) = 3 /\ Len(CRLF) = 2
<1>1. <<DATA>> \in Seq(Chars) /\ CRLF \in Seq(Chars) /\ Len(<<DATA>>) = 1 /\ Len(CRLF) = 2
  BY DEF CRLF, Chars
<1> DEFINE s == <<DATA>>
           t == CRLF
<1> HIDE DEF s, t
<1>2. s \in Seq(Chars) /\ t \in Seq(Chars) /\ Len(s) = 1 /\ Len(t) = 2
  BY <1>1 DEF s, t
<1>3. s \o t \in Seq(Chars) /\ Len(s \o t) = Len(s) + Len(t)
  BY <1>2, ConcatProperties
<1> QED BY <1>1, <1>2, <1>3 DEF TrailerLine, s, t

(* Where things stand in a chunked response: the size lines and the pieces,   *)
LEMMA ChunkedShape ==
    ASSUME NEW m \in Messages, m.framing = "chunked", NEW n, n = Len(m.pieces)
    PROVE  /\ Encoded(m) \in Seq(Chars) /\ Len(Encoded(m)) \in Nat
           /\ Occurs(<<HEAD>> \o (CRLF \o CRLF), 0, Encoded(m))
           /\ ChunkEnd(m, 0) = 5
           /\ \A i \in 0 .. n : ChunkEnd(m, i) \in Nat /\ ChunkEnd(m, i) <= Len(Encoded(m))
           /\ \A i \in 1 .. n :
                /\ Occurs(SizeLine(m, i), ChunkEnd(m, i - 1), Encoded(m))
                /\ Occurs(m.pieces[i], ChunkEnd(m, i - 1) + Len(SizeLine(m, i)), Encoded(m))
                /\ ChunkEnd(m, i) = ChunkEnd(m, i - 1) + Len(SizeLine(m, i)) + Len(m.pieces[i]) + 2
           /\ Occurs(SizeLine(m, n + 1), ChunkEnd(m, n), Encoded(m))
           /\ TrailerEnd(m, 0) = ChunkEnd(m, n) + Len(SizeLine(m, n + 1))
           /\ \A t \in 0 .. m.trailers : TrailerEnd(m, t) \in Nat /\ TrailerEnd(m, t) + 2 <= Len(Encoded(m))
           /\ \A t \in 1 .. m.trailers :
                /\ Occurs(TrailerLine, TrailerEnd(m, t - 1), Encoded(m))
                /\ TrailerEnd(m, t) = TrailerEnd(m, t - 1) + 3
           /\ Occurs(CRLF, TrailerEnd(m, m.trailers), Encoded(m))
           /\ Len(Encoded(m)) = TrailerEnd(m, m.trailers) + 2
<1> DEFINE q == ChunkSeq(m)
           r == TrailerSeq(m)
           k == m.trailers
           C == Sums(q)
           T == Sums(r)
           a == FlattenSeq(q)
           b == SizeLine(m, n + 1)
           c == FlattenSeq(r)
           e == Content(m)
           E == Encoded(m)
<1>1. n \in Nat /\ k \in Nat /\ DOMAIN m.pieces = 1 .. n /\ Len(m.sizes) = n + 1
  BY MessageFacts, ChunkedFacts
<1>2. q \in Seq(Seq(Chars)) /\ Len(q) = n /\ \A i \in 1 .. n : q[i] = Chunk(m, i)
  <2>1. \A i \in 1 .. n : Chunk(m, i) \in Seq(Chars)
    BY ChunkFacts
  <2>2. q = [i \in 1 .. n |-> Chunk(m, i)]
    BY <1>1 DEF ChunkSeq
  <2> HIDE DEF q
  <2> QED BY <1>1, <2>1, <2>2
<1>3. r \in Seq(Seq(Chars)) /\ Len(r) = k /\ \A t \in 1 .. k : r[t] = TrailerLine
  <2>1. TrailerLine \in Seq(Chars)
    BY TrailerFacts
  <2>2. r = [t \in 1 .. k |-> TrailerLine]
    BY DEF TrailerSeq
  <2> HIDE DEF r, k
  <2> QED BY <1>1, <2>1, <2>2
<1> HIDE DEF q, r
<1>4. /\ C \in [0 .. n -> Seq(Chars)] /\ IsSums(C, q, n) /\ C[n] = a
      /\ \A i \in 0 .. n : Len(C[i]) \in Nat /\ Len(C[i]) <= Len(a)
      /\ \A i \in 1 .. n : Occurs(q[i], Len(C[i - 1]), a) /\ Len(C[i]) = Len(C[i - 1]) + Len(q[i])
  BY <1>1, <1>2, SumsFacts
<1>5. /\ T \in [0 .. k -> Seq(Chars)] /\ IsSums(T, r, k) /\ T[k] = c
      /\ \A t \in 0 .. k : Len(T[t]) \in Nat /\ Len(T[t]) <= Len(c)
      /\ \A t \in 1 .. k : Occurs(r[t], Len(T[t - 1]), c) /\ Len(T[t]) = Len(T[t - 1]) + Len(r[t])
  BY <1>1, <1>3, SumsFacts
<1> HIDE DEF C, T, a, c, k
<1>6. a \in Seq(Chars) /\ c \in Seq(Chars) /\ Len(C[0]) = 0 /\ Len(T[0]) = 0
  <2>1. C[n] \in Seq(Chars) /\ T[k] \in Seq(Chars)
    BY <1>1, <1>4, <1>5
  <2>2. C[0] = <<>> /\ T[0] = <<>>
    BY <1>4, <1>5 DEF IsSums
  <2> QED BY <1>4, <1>5, <2>1, <2>2
<1>7. b \in Seq(Chars)
  <2>1. n + 1 \in 1 .. Len(m.pieces) + 1
    BY <1>1
  <2> QED BY <2>1, SizeLineFacts
<1>8. CRLF \in Seq(Chars) /\ Len(CRLF) = 2
  BY TrailerFacts
<1>9. Join(e, a, b, c, CRLF)
  BY <1>1 DEF Join, Content, ChunkedBody, Chunks, Trailers, a, b, c, q, r, ChunkSeq, TrailerSeq, TrailerLine
<1> HIDE DEF b, e
<1>10. /\ e \in Seq(Chars)
       /\ Occurs(a, 0, e) /\ Occurs(b, Len(a), e)
       /\ Occurs(c, Len(a) + Len(b), e) /\ Occurs(CRLF, Len(a) + Len(b) + Len(c), e)
       /\ Len(e) = Len(a) + Len(b) + Len(c) + Len(CRLF)
  <2>1. a \in Seq(Chars) /\ b \in Seq(Chars) /\ c \in Seq(Chars) /\ CRLF \in Seq(Chars)
    BY <1>6, <1>7, <1>8
  <2> QED BY <1>9, <2>1, FourParts
<1>11. /\ E \in Seq(Chars)
       /\ Occurs(<<HEAD>> \o (CRLF \o CRLF), 0, E)
       /\ Occurs(e, 5, E)
       /\ Len(E) = 5 + Len(e)
  BY <1>10, HeadShape DEF e
<1> HIDE DEF E
<1>12. Len(a) \in Nat /\ Len(b) \in Nat /\ Len(c) \in Nat /\ Len(e) \in Nat /\ Len(E) \in Nat
  BY <1>6, <1>7, <1>10, <1>11, LenProperties
<1>13. Len(e) = Len(a) + Len(b) + Len(c) + 2 /\ Len(E) = 5 + Len(e)
  BY <1>8, <1>10, <1>11
<1>14. Occurs(a, 5, E) /\ Occurs(b, 5 + Len(a), E) /\ Occurs(c, 5 + Len(a) + Len(b), E)
       /\ Occurs(CRLF, 5 + Len(a) + Len(b) + Len(c), E)
  <2>1. /\ 5 + 0 = 5 /\ 5 \in Nat /\ 0 \in Nat
        /\ Len(a) + Len(b) \in Nat /\ 5 + (Len(a) + Len(b)) = 5 + Len(a) + Len(b)
        /\ Len(a) + Len(b) + Len(c) \in Nat
        /\ 5 + (Len(a) + Len(b) + Len(c)) = 5 + Len(a) + Len(b) + Len(c)
    BY <1>12
  <2>2. Occurs(a, 5 + 0, E)
    BY <1>6, <1>10, <1>11, <2>1, OccursWithin
  <2>3. Occurs(b, 5 + Len(a), E)
    BY <1>7, <1>10, <1>11, <1>12, <2>1, OccursWithin
  <2>4. Occurs(c, 5 + (Len(a) + Len(b)), E)
    BY <1>6, <1>10, <1>11, <2>1, OccursWithin
  <2>5. Occurs(CRLF, 5 + (Len(a) + Len(b) + Len(c)), E)
    BY <1>8, <1>10, <1>11, <2>1, OccursWithin
  <2> QED BY <2>1, <2>2, <2>3, <2>4, <2>5
<1>15. \A i \in 0 .. n : ChunkEnd(m, i) = 5 + Len(C[i])
  BY DEF ChunkEnd, C, q
<1>16. ChunkEnd(m, 0) = 5
  <2>1. 0 \in 0 .. n /\ 5 + 0 = 5
    BY <1>1
  <2> QED BY <1>6, <1>15, <2>1
<1>17. \A i \in 0 .. n : ChunkEnd(m, i) \in Nat /\ ChunkEnd(m, i) <= Len(E)
  <2> TAKE i \in 0 .. n
  <2>1. Len(C[i]) \in Nat /\ Len(C[i]) <= Len(a) /\ ChunkEnd(m, i) = 5 + Len(C[i])
    BY <1>4, <1>15
  <2> QED BY <1>12, <1>13, <2>1
<1>18. ASSUME NEW i \in 1 .. n
       PROVE  /\ Occurs(SizeLine(m, i), ChunkEnd(m, i - 1), E)
              /\ Occurs(m.pieces[i], ChunkEnd(m, i - 1) + Len(SizeLine(m, i)), E)
              /\ ChunkEnd(m, i) = ChunkEnd(m, i - 1) + Len(SizeLine(m, i)) + Len(m.pieces[i]) + 2
  <2> DEFINE s == SizeLine(m, i)
             u == m.pieces[i]
             v == Chunk(m, i)
             p == Len(C[i - 1])
  <2>1. i - 1 \in 0 .. n /\ i \in 0 .. n /\ i \in 1 .. n + 1
    BY <1>1
  <2>2. s \in Seq(Chars) /\ u \in Seq(Chars) /\ v \in Seq(Chars)
    BY <1>1, <2>1, SizeLineFacts, ChunkFacts, MessageFacts
  <2>3. Occurs(s, 0, v) /\ Occurs(u, Len(s), v) /\ Len(v) = Len(s) + Len(u) + 2
    BY ChunkFacts
  <2>4. Occurs(v, p, a) /\ Len(C[i]) = p + Len(v) /\ p \in Nat
    BY <1>2, <1>4, <2>1
  <2>5. ChunkEnd(m, i - 1) = 5 + p /\ ChunkEnd(m, i) = 5 + Len(C[i])
    BY <1>15, <2>1
  <2> HIDE DEF s, u, v, p
  <2>6. Len(s) \in Nat /\ Len(u) \in Nat /\ 0 \in Nat /\ 5 \in Nat
    BY <2>2, LenProperties
  <2>7. Occurs(v, 5 + p, E) /\ 5 + p \in Nat
    BY <1>6, <1>11, <1>14, <2>2, <2>4, <2>6, OccursWithin
  <2>8. Occurs(s, 5 + p + 0, E) /\ Occurs(u, 5 + p + Len(s), E)
    BY <1>11, <2>2, <2>3, <2>6, <2>7, OccursWithin
  <2>9. 5 + p + 0 = 5 + p
    BY <2>4
  <2>10. ChunkEnd(m, i) = 5 + p + Len(s) + Len(u) + 2
    BY <2>3, <2>4, <2>5, <2>6
  <2> QED BY <2>5, <2>8, <2>9, <2>10 DEF s, u
<1>19. Occurs(b, ChunkEnd(m, n), E)
  <2>1. n \in 0 .. n
    BY <1>1
  <2>2. ChunkEnd(m, n) = 5 + Len(a)
    BY <1>4, <1>15, <2>1
  <2> QED BY <1>14, <2>2
<1>20. ASSUME NEW t \in 0 .. k PROVE TrailerEnd(m, t) = 5 + Len(a) + Len(b) + Len(T[t])
  <2>1. n \in 0 .. n /\ Len(C[n]) = Len(a)
    BY <1>1, <1>4
  <2>2. ChunkEnd(m, n) = 5 + Len(a)
    BY <1>15, <2>1
  <2>3. TrailerEnd(m, t) = ChunkEnd(m, n) + Len(b) + Len(T[t])
    BY <1>1 DEF TrailerEnd, LastEnd, T, b, r
  <2> QED BY <2>2, <2>3
<1>21. TrailerEnd(m, 0) = ChunkEnd(m, n) + Len(b)
  <2>1. 0 \in 0 .. k /\ n \in 0 .. n /\ Len(C[n]) = Len(a)
    BY <1>1, <1>4
  <2>2. ChunkEnd(m, n) = 5 + Len(a) /\ TrailerEnd(m, 0) = 5 + Len(a) + Len(b) + 0
    BY <1>6, <1>15, <1>20, <2>1
  <2> QED BY <1>12, <2>2
<1>22. \A t \in 0 .. k : TrailerEnd(m, t) \in Nat /\ TrailerEnd(m, t) + 2 <= Len(E)
  <2> TAKE t \in 0 .. k
  <2>1. Len(T[t]) \in Nat /\ Len(T[t]) <= Len(c) /\ TrailerEnd(m, t) = 5 + Len(a) + Len(b) + Len(T[t])
    BY <1>5, <1>20
  <2>2. Len(E) = 5 + Len(a) + Len(b) + Len(c) + 2
    BY <1>12, <1>13
  <2>3. 5 + Len(a) + Len(b) + Len(T[t]) + 2 <= 5 + Len(a) + Len(b) + Len(c) + 2
    BY <1>12, <2>1
  <2>4. 5 + Len(a) + Len(b) + Len(T[t]) \in Nat
    <3> DEFINE o == 5 + Len(a) + Len(b)
               l == Len(T[t])
    <3>1. o \in Nat /\ l \in Nat
      BY <1>12, <2>1
    <3> HIDE DEF o, l
    <3>2. o + l \in Nat
      BY <3>1
    <3> QED BY <3>2 DEF o, l
  <2> QED BY <2>1, <2>2, <2>3, <2>4
<1>23. ASSUME NEW t \in 1 .. k
       PROVE  Occurs(TrailerLine, TrailerEnd(m, t - 1), E) /\ TrailerEnd(m, t) = TrailerEnd(m, t - 1) + 3
  <2> DEFINE p == Len(T[t - 1])
             o == 5 + Len(a) + Len(b)
  <2>1. t - 1 \in 0 .. k /\ t \in 0 .. k
    BY <1>1
  <2>2. TrailerLine \in Seq(Chars) /\ Len(TrailerLine) = 3
    BY TrailerFacts
  <2>3. Occurs(TrailerLine, p, c) /\ Len(T[t]) = p + 3 /\ p \in Nat
    BY <1>3, <1>5, <2>1, <2>2
  <2>4. o \in Nat
    BY <1>12
  <2>7. TrailerEnd(m, t - 1) = o + p /\ TrailerEnd(m, t) = o + Len(T[t])
    BY <1>20, <2>1
  <2>5. Occurs(c, o, E)
    BY <1>14
  <2> HIDE DEF p, o
  <2>6. Occurs(TrailerLine, o + p, E)
    BY <1>6, <1>11, <2>2, <2>3, <2>4, <2>5, OccursWithin
  <2> QED BY <2>3, <2>4, <2>6, <2>7
<1>24. Occurs(CRLF, TrailerEnd(m, k), E) /\ Len(E) = TrailerEnd(m, k) + 2
  <2>1. k \in 0 .. k
    BY <1>1
  <2>2. TrailerEnd(m, k) = 5 + Len(a) + Len(b) + Len(c)
    BY <1>5, <1>20, <2>1
  <2> QED BY <1>12, <1>13, <1>14, <2>2
<1>25. b = SizeLine(m, n + 1) /\ k = m.trailers
  BY DEF b, k
<1> QED BY <1>11, <1>12, <1>16, <1>17, <1>18, <1>19, <1>21, <1>22, <1>23, <1>24, <1>25 DEF E

-----------------------------------------------------------------------------
(* The stream: what is not consumed, and what is found in it.               *)
StreamType ==
    /\ msg \in Messages /\ ~Wraps(msg)
    /\ after \in Seq(Chars) /\ (msg.framing = "eof" => after = <<>>)
    /\ rx \in Seq(Chars) /\ left \in Seq(Chars) /\ cut \in BOOLEAN

(* What is not consumed is the stream from the p-th byte of the response on.  *)
Short(p, m, rest) == p + Len(rest) < Len(Encoded(m))
Byte(m, a, q) == IF q <= Len(Encoded(m)) THEN Encoded(m)[q] ELSE a[q - Len(Encoded(m))]
Stands(p, m, rest, c, a) ==
    /\ p \in Nat /\ p <= Len(Encoded(m))
    /\ \A i \in 1 .. Len(rest) : rest[i] = Byte(m, a, p + i)
    /\ c <=> Short(p, m, rest)
    /\ ~c => p + Len(rest) = Len(Encoded(m)) + Len(a)

Rest == rx \o left
At(p) == Stands(p, msg, Rest, cut, after)

(* Of every response: the head, and the body where its framing is not chunked. *)
LEMMA EncodedFacts ==
    ASSUME NEW m \in Messages
    PROVE  /\ Encoded(m) \in Seq(Chars) /\ Len(Encoded(m)) \in Nat
           /\ Occurs(<<HEAD>> \o (CRLF \o CRLF), 0, Encoded(m))
           /\ m.framing # "chunked" => Occurs(Body(m), 5, Encoded(m)) /\ Len(Encoded(m)) = 5 + Len(Body(m))
<1>1. CASE m.framing = "chunked"
  BY <1>1, ChunkedShape
<1>2. CASE m.framing # "chunked"
  <2>1. Content(m) = Body(m) /\ Body(m) \in Seq(Chars)
    BY <1>2, BodyFacts DEF Content
  <2>2. /\ Encoded(m) \in Seq(Chars)
        /\ Occurs(<<HEAD>> \o (CRLF \o CRLF), 0, Encoded(m))
        /\ Occurs(Body(m), 5, Encoded(m))
        /\ Len(Encoded(m)) = 5 + Len(Body(m))
    BY <2>1, HeadShape
  <2> QED BY <2>2, LenProperties
<1> QED BY <1>1, <1>2

(* What the position says of the bytes that have been delivered.            *)
LEMMA AtFacts ==
    ASSUME StreamType, NEW p, At(p)
    PROVE  /\ p \in Nat /\ Len(rx) \in Nat /\ Len(left) \in Nat
           /\ Rest \in Seq(Chars) /\ Len(Rest) = Len(rx) + Len(left)
           /\ Encoded(msg) \in Seq(Chars) /\ Len(Encoded(msg)) \in Nat
           /\ \A i \in 1 .. Len(rx) : p + i <= Len(Encoded(msg)) => rx[i] = Encoded(msg)[p + i]
<1>1. rx \in Seq(Chars) /\ left \in Seq(Chars) /\ Len(rx) \in Nat /\ Len(left) \in Nat
  BY LenProperties DEF StreamType
<1>2. /\ Rest \in Seq(Chars) /\ Len(Rest) = Len(rx) + Len(left)
      /\ \A i \in 1 .. Len(rx) + Len(left) : Rest[i] = IF i <= Len(rx) THEN rx[i] ELSE left[i - Len(rx)]
  BY <1>1, ConcatProperties DEF Rest
<1>3. Encoded(msg) \in Seq(Chars) /\ Len(Encoded(msg)) \in Nat
  BY EncodedFacts DEF StreamType
<1>4. ASSUME NEW i \in 1 .. Len(rx), p + i <= Len(Encoded(msg)) PROVE rx[i] = Encoded(msg)[p + i]
  <2>1. i \in 1 .. Len(rx) + Len(left) /\ i <= Len(rx)
    BY <1>1
  <2>2. Rest[i] = rx[i]
    BY <1>2, <2>1
  <2>3. Rest[i] = Encoded(msg)[p + i]
    BY <1>2, <1>4, <2>1 DEF At, Stands, Byte
  <2> QED BY <2>2, <2>3
<1>5. p \in Nat
  BY DEF At, Stands
<1> QED BY <1>1, <1>2, <1>3, <1>4, <1>5

(* The pattern that ends the word at p is found where it is, or not yet.      *)
LEMMA PatternFound ==
    ASSUME StreamType, NEW p, At(p), NEW w \in Seq(Chars), NEW pat \in Seq(Chars), Len(pat) >= 1,
           Occurs(w \o pat, p, Encoded(msg)), \A j \in 1 .. Len(w) : w[j] # pat[1]
    PROVE  /\ Found(pat) # {} =>
                /\ First(Found(pat)) = Len(w) + 1
                /\ Len(w) + Len(pat) <= Len(rx)
                /\ SubSeq(rx, 1, Len(w)) = w
           /\ Found(pat) = {} => Len(rx) < Len(w) + Len(pat)
           /\ p + (Len(w) + Len(pat)) <= Len(Encoded(msg))
<1> DEFINE l == Len(w)
           d == Len(pat)
           E == Encoded(msg)
           n == Len(rx)
<1>1. /\ p \in Nat /\ l \in Nat /\ d \in Nat /\ d >= 1 /\ n \in Nat /\ Len(E) \in Nat
      /\ \A i \in 1 .. n : p + i <= Len(E) => rx[i] = E[p + i]
  BY AtFacts, LenProperties
<1>2. rx \in Seq(Chars) /\ \A i \in 1 .. n : rx[i] \in Chars
  BY ElementOfSeq DEF StreamType
<1>3. /\ Len(w \o pat) = l + d
      /\ \A i \in 1 .. l + d : (w \o pat)[i] = IF i <= l THEN w[i] ELSE pat[i - l]
  BY ConcatProperties
<1>4. p + (l + d) <= Len(E) /\ \A i \in 1 .. l + d : E[p + i] = (w \o pat)[i]
  BY <1>3 DEF Occurs
<1>5. \A i \in 1 .. n : i <= l + d => rx[i] = IF i <= l THEN w[i] ELSE pat[i - l]
  <2> TAKE i \in 1 .. n
  <2> HAVE i <= l + d
  <2> HIDE DEF l, d, E, n
  <2>1. i \in 1 .. l + d /\ p + i <= Len(E)
    BY <1>1, <1>4
  <2>2. rx[i] = E[p + i] /\ E[p + i] = (w \o pat)[i]
    BY <1>1, <1>4, <2>1
  <2> QED BY <1>3, <2>1, <2>2
<1> HIDE DEF l, d, E, n
<1>6. ASSUME NEW i \in Nat, NEW j \in Nat, i >= 1, j <= n
      PROVE  /\ Len(SubSeq(rx, i, j)) = IF i <= j THEN j - i + 1 ELSE 0
             /\ SubSeq(rx, i, j) \in Seq(Chars)
             /\ \A h \in 1 .. j - i + 1 : SubSeq(rx, i, j)[h] = rx[i + h - 1]
  <2>1. i \in Int /\ j \in Int /\ \A h \in i .. j : rx[h] \in Chars
    BY <1>1, <1>2, <1>6
  <2> QED BY <2>1, SubSeqProperties
<1>7. Found(pat) = {i \in 1 .. n : i + d - 1 <= n /\ SubSeq(rx, i, i + d - 1) = pat}
  BY DEF Found, n, d
<1>8. ASSUME NEW i \in Found(pat) PROVE i >= l + 1 /\ l + d <= n
  <2>1. i \in 1 .. n /\ i + d - 1 <= n /\ SubSeq(rx, i, i + d - 1) = pat
    BY <1>7
  <2> DEFINE j == i + d - 1
  <2>2. j \in Nat /\ i \in Nat /\ i >= 1 /\ j <= n /\ 1 \in 1 .. j - i + 1 /\ i + 1 - 1 = i
    BY <1>1, <2>1
  <2>3. SubSeq(rx, i, j) = pat
    BY <2>1
  <2> HIDE DEF j
  <2>4. SubSeq(rx, i, j)[1] = rx[i + 1 - 1]
    BY <1>6, <2>2
  <2>5. pat[1] = rx[i]
    BY <2>2, <2>3, <2>4
  <2>6. ~(i <= l)
    <3> SUFFICES ASSUME i <= l PROVE FALSE
      OBVIOUS
    <3>1. i \in 1 .. l /\ i <= l + d
      BY <1>1, <2>1
    <3>2. rx[i] = w[i]
      BY <1>5, <2>1, <3>1
    <3>3. w[i] # pat[1]
      BY <3>1 DEF l
    <3> QED BY <2>5, <3>2, <3>3
  <2> QED BY <1>1, <2>1, <2>6
<1>9. ASSUME l + d <= n PROVE l + 1 \in Found(pat) /\ SubSeq(rx, 1, l) = w
  <2> DEFINE i == l + 1
             j == l + d
  <2>1. i \in 1 .. n /\ i \in Nat /\ j \in Nat /\ i >= 1 /\ j <= n /\ i <= j /\ j - i + 1 = d /\ i + d - 1 = j
    BY <1>1, <1>9
  <2>2. \A h \in 1 .. d : i + h - 1 \in 1 .. n /\ i + h - 1 <= l + d /\ ~(i + h - 1 <= l) /\ i + h - 1 - l = h
    BY <1>1, <1>9
  <2> HIDE DEF i, j
  <2>3. /\ Len(SubSeq(rx, i, j)) = d /\ SubSeq(rx, i, j) \in Seq(Chars)
        /\ \A h \in 1 .. d : SubSeq(rx, i, j)[h] = rx[i + h - 1]
    BY <1>6, <2>1
  <2>4. ASSUME NEW h \in 1 .. d PROVE SubSeq(rx, i, j)[h] = pat[h]
    <3> DEFINE g == i + h - 1
    <3>1. g \in 1 .. n /\ g <= l + d /\ ~(g <= l) /\ g - l = h
      <4>1. i + h - 1 \in 1 .. n /\ i + h - 1 <= l + d /\ ~(i + h - 1 <= l) /\ i + h - 1 - l = h
        BY <2>2
      <4> QED BY <1>1, <2>1, <4>1
    <3>2. SubSeq(rx, i, j)[h] = rx[g]
      BY <2>3
    <3> HIDE DEF g
    <3>3. rx[g] = pat[g - l]
      BY <1>5, <3>1
    <3> QED BY <3>1, <3>2, <3>3
  <2>5. SubSeq(rx, i, j) = pat
    BY <2>3, <2>4, SeqEqual DEF d
  <2>6. i \in Found(pat)
    BY <1>7, <2>1, <2>5
  <2>7. l \in Nat /\ l <= n /\ 1 \in Nat /\ l - 1 + 1 = l /\ (IF 1 <= l THEN l - 1 + 1 ELSE 0) = l
    BY <1>1, <1>9
  <2>8. /\ Len(SubSeq(rx, 1, l)) = l /\ SubSeq(rx, 1, l) \in Seq(Chars)
        /\ \A h \in 1 .. l : SubSeq(rx, 1, l)[h] = rx[1 + h - 1]
    <3> DEFINE u == 1
    <3>1. u \in Nat /\ u >= 1 /\ (IF u <= l THEN l - u + 1 ELSE 0) = l /\ l - u + 1 = l
      BY <2>7
    <3> HIDE DEF u
    <3>2. /\ Len(SubSeq(rx, u, l)) = l /\ SubSeq(rx, u, l) \in Seq(Chars)
          /\ \A h \in 1 .. l : SubSeq(rx, u, l)[h] = rx[u + h - 1]
      <4>1. /\ Len(SubSeq(rx, u, l)) = IF u <= l THEN l - u + 1 ELSE 0
            /\ SubSeq(rx, u, l) \in Seq(Chars)
            /\ \A h \in 1 .. l - u + 1 : SubSeq(rx, u, l)[h] = rx[u + h - 1]
        BY <1>6, <2>7, <3>1
      <4> QED BY <3>1, <4>1
    <3> QED BY <3>2 DEF u
  <2>9. \A h \in 1 .. l : 1 + h - 1 = h /\ h \in 1 .. n /\ h <= l + d /\ h <= l
    BY <1>1, <1>9
  <2>10. \A h \in 1 .. l : SubSeq(rx, 1, l)[h] = w[h]
    BY <1>5, <2>8, <2>9
  <2>11. SubSeq(rx, 1, l) = w
    BY <2>8, <2>10, SeqEqual DEF l
  <2> QED BY <2>6, <2>11 DEF i
<1>10. ASSUME Found(pat) # {} PROVE First(Found(pat)) = l + 1 /\ l + d <= n
  <2>1. l + d <= n
    BY <1>8, <1>10
  <2>2. l + 1 \in Found(pat) /\ \A i \in Found(pat) : l + 1 <= i
    <3>1. \A i \in Found(pat) : i >= l + 1 /\ i \in 1 .. n
      BY <1>7, <1>8
    <3> QED BY <1>1, <1>9, <2>1, <3>1
  <2>3. Found(pat) \in SUBSET Nat
    BY <1>7
  <2> QED BY <2>1, <2>2, <2>3, FirstIs
<1>11. Found(pat) = {} => n < l + d
  BY <1>1, <1>9
<1> QED BY <1>4, <1>9, <1>10, <1>11 DEF l, d, n, E

(* rx.erase(0, n): n bytes further.                                         *)
LEMMA Dropped ==
    ASSUME NEW m \in Messages, NEW r \in Seq(Chars), NEW l \in Seq(Chars), NEW c \in BOOLEAN, NEW a, NEW p,
           Stands(p, m, r \o l, c, a), NEW n \in 0 .. Len(r), p + n <= Len(Encoded(m))
    PROVE  /\ SubSeq(r, n + 1, Len(r)) \in Seq(Chars)
           /\ Stands(p + n, m, SubSeq(r, n + 1, Len(r)) \o l, c, a)
<1> DEFINE E == Encoded(m)
           s == SubSeq(r, n + 1, Len(r))
<1>1. E \in Seq(Chars) /\ Len(E) \in Nat /\ Len(r) \in Nat /\ Len(l) \in Nat /\ n \in Nat /\ p \in Nat /\ n <= Len(r)
  BY EncodedFacts, LenProperties DEF Stands
<1>2. s \in Seq(Chars) /\ Len(s) = Len(r) - n /\ \A i \in 1 .. Len(r) - n : s[i] = r[n + i]
  BY CutSeq
<1> HIDE DEF s
<1>3. /\ Len(r \o l) = Len(r) + Len(l)
      /\ \A i \in 1 .. Len(r) + Len(l) : (r \o l)[i] = IF i <= Len(r) THEN r[i] ELSE l[i - Len(r)]
  BY ConcatProperties
<1>4. /\ Len(s \o l) = Len(r) - n + Len(l)
      /\ \A i \in 1 .. Len(r) - n + Len(l) : (s \o l)[i] = IF i <= Len(r) - n THEN s[i] ELSE l[i - (Len(r) - n)]
  <2> DEFINE k == Len(s)
  <2>1. /\ Len(s \o l) = k + Len(l)
        /\ \A i \in 1 .. k + Len(l) : (s \o l)[i] = IF i <= k THEN s[i] ELSE l[i - k]
    BY <1>2, ConcatProperties
  <2>2. k = Len(r) - n
    BY <1>2
  <2> HIDE DEF k
  <2> QED BY <2>1, <2>2
<1>5. ASSUME NEW i \in 1 .. Len(r) - n + Len(l) PROVE (s \o l)[i] = (r \o l)[n + i]
  <2> DEFINE j == n + i
  <2>1. j \in 1 .. Len(r) + Len(l) /\ (i <= Len(r) - n <=> j <= Len(r)) /\ j - Len(r) = i - (Len(r) - n)
    BY <1>1
  <2>2. i <= Len(r) - n => s[i] = r[j]
    BY <1>1, <1>2
  <2> HIDE DEF j
  <2>3. (r \o l)[j] = IF j <= Len(r) THEN r[j] ELSE l[j - Len(r)]
    BY <1>3, <2>1
  <2>4. (s \o l)[i] = IF i <= Len(r) - n THEN s[i] ELSE l[i - (Len(r) - n)]
    BY <1>4
  <2> QED BY <2>1, <2>2, <2>3, <2>4 DEF j
<1> HIDE DEF E
<1>6. ASSUME NEW i \in 1 .. Len(s \o l)
      PROVE  (s \o l)[i] = Byte(m, a, p + n + i)
  <2> DEFINE j == n + i
  <2>1. j \in 1 .. Len(r \o l) /\ p + j = p + n + i /\ i \in 1 .. Len(r) - n + Len(l)
    BY <1>1, <1>3, <1>4
  <2>2. (s \o l)[i] = (r \o l)[j]
    BY <1>5, <2>1
  <2> HIDE DEF j
  <2>3. (r \o l)[j] = Byte(m, a, p + j)
    BY <2>1 DEF Stands
  <2> QED BY <2>1, <2>2, <2>3
<1>7. p + n + Len(s \o l) = p + Len(r \o l)
  BY <1>1, <1>3, <1>4
<1>8. c <=> Short(p + n, m, s \o l)
  <2>1. Short(p + n, m, s \o l) <=> Short(p, m, r \o l)
    BY <1>7 DEF Short
  <2> QED BY <2>1 DEF Stands
<1>9. ~c => p + n + Len(s \o l) = Len(E) + Len(a)
  BY <1>7 DEF Stands, E
<1>10. p + n \in Nat /\ p + n <= Len(E)
  BY <1>1 DEF E
<1> QED BY <1>2, <1>6, <1>8, <1>9, <1>10 DEF Stands, E, s

LEMMA Regroup == \A s, t, u \in Seq(Chars) : (s \o t) \o u = s \o (t \o u)
BY ConcatAssociative

(* A read moves bytes, and changes nothing of what is not consumed.          *)
LEMMA Delivered ==
    ASSUME NEW r \in Seq(Chars), NEW l \in Seq(Chars), NEW n \in 1 .. Len(l)
    PROVE  /\ r \o SubSeq(l, 1, n) \in Seq(Chars)
           /\ SubSeq(l, n + 1, Len(l)) \in Seq(Chars)
           /\ (r \o SubSeq(l, 1, n)) \o SubSeq(l, n + 1, Len(l)) = r \o l
<1> DEFINE a == SubSeq(l, 1, n)
           b == SubSeq(l, n + 1, Len(l))
<1>1. n \in 0 .. Len(l)
  BY LenProperties
<1>2. a \in Seq(Chars) /\ b \in Seq(Chars) /\ a \o b = l
  BY <1>1, CutSeq
<1> HIDE DEF a, b
<1>3. r \o a \in Seq(Chars) /\ (r \o a) \o b = r \o (a \o b)
  <2>1. r \o a \in Seq(Chars)
    BY <1>2, ConcatProperties
  <2>3. a \in Seq(Chars) /\ b \in Seq(Chars)
    BY <1>2
  <2>2. (r \o a) \o b = r \o (a \o b)
    BY <2>3, Regroup
  <2> QED BY <2>1, <2>2
<1> QED BY <1>2, <1>3 DEF a, b

(* What is at p can be taken once it has arrived.                           *)
LEMMA Taken ==
    ASSUME StreamType, NEW p, At(p), NEW u \in Seq(Chars), Occurs(u, p, Encoded(msg)), Len(u) <= Len(rx)
    PROVE  SubSeq(rx, 1, Len(u)) = u
<1> DEFINE l == Len(u)
           n == Len(rx)
           E == Encoded(msg)
<1>1. /\ l \in Nat /\ p \in Nat /\ n \in Nat /\ Len(E) \in Nat /\ l <= n
      /\ \A i \in 1 .. n : p + i <= Len(E) => rx[i] = E[p + i]
  BY AtFacts, LenProperties
<1>2. rx \in Seq(Chars) /\ p + l <= Len(E) /\ \A i \in 1 .. l : E[p + i] = u[i]
  BY DEF StreamType, Occurs
<1>3. l \in 0 .. Len(rx)
  BY <1>1
<1> HIDE DEF E
<1>4. \A i \in 1 .. l : rx[i] = u[i]
  <2> TAKE i \in 1 .. l
  <2>1. i \in 1 .. n /\ p + i <= Len(E)
    BY <1>1, <1>2
  <2> QED BY <1>1, <1>2, <2>1
<1> HIDE DEF l
<1>5. SubSeq(rx, 1, l) \in Seq(Chars) /\ Len(SubSeq(rx, 1, l)) = l /\ \A i \in 1 .. l : SubSeq(rx, 1, l)[i] = rx[i]
  BY <1>2, <1>3, CutSeq
<1>6. \A i \in 1 .. l : SubSeq(rx, 1, l)[i] = u[i]
  BY <1>4, <1>5
<1> QED BY <1>5, <1>6, SeqEqual DEF l

(* When nothing more comes and not all is there, the response was cut.        *)
LEMMA MissingIsCut ==
    ASSUME StreamType, NEW p, At(p), left = <<>>, NEW k \in Nat, p + k <= Len(Encoded(msg)), Len(rx) < k
    PROVE  cut
<1>1. p \in Nat /\ Len(rx) \in Nat /\ Len(Rest) = Len(rx) + Len(left) /\ Len(left) = 0 /\ Len(Encoded(msg)) \in Nat
  BY AtFacts, EmptySeq
<1>2. Short(p, msg, Rest)
  BY <1>1 DEF Short
<1> QED BY <1>2 DEF At, Stands

(* At the end of the response: what is there is what followed it.            *)
LEMMA AtTheEnd ==
    ASSUME NEW m \in Messages, NEW rest \in Seq(Chars), NEW c \in BOOLEAN, NEW a \in Seq(Chars), NEW p,
           Stands(p, m, rest, c, a), p = Len(Encoded(m))
    PROVE  ~c /\ rest = a
<1>1. p \in Nat /\ Len(rest) \in Nat /\ Len(a) \in Nat
  BY LenProperties DEF Stands
<1>2. ~Short(p, m, rest)
  BY <1>1 DEF Short
<1>3. ~c /\ Len(rest) = Len(a)
  <2>1. ~c /\ p + Len(rest) = p + Len(a)
    BY <1>2 DEF Stands
  <2> QED BY <1>1, <2>1
<1>4. \A i \in 1 .. Len(rest) : rest[i] = a[i]
  <2> TAKE i \in 1 .. Len(rest)
  <2>1. ~(p + i <= Len(Encoded(m))) /\ p + i - Len(Encoded(m)) = i
    BY <1>1
  <2>2. rest[i] = IF p + i <= Len(Encoded(m)) THEN Encoded(m)[p + i] ELSE a[p + i - Len(Encoded(m))]
    BY DEF Stands, Byte
  <2> QED BY <2>1, <2>2
<1> QED BY <1>3, <1>4, SeqEqual

(* The word at p and the pattern that ends it, found and consumed.           *)
LEMMA LineTaken ==
    ASSUME StreamType, NEW p, At(p), NEW w \in Seq(Chars), NEW pat \in Seq(Chars), Len(pat) >= 1,
           Occurs(w \o pat, p, Encoded(msg)), \A j \in 1 .. Len(w) : w[j] # pat[1],
           Found(pat) # {}, NEW k, k = Len(w) + Len(pat)
    PROVE  /\ First(Found(pat)) = Len(w) + 1
           /\ SubSeq(rx, 1, Len(w)) = w
           /\ Erased(k) \in Seq(Chars)
           /\ Stands(p + k, msg, Erased(k) \o left, cut, after)
<1>1. /\ First(Found(pat)) = Len(w) + 1 /\ k <= Len(rx) /\ SubSeq(rx, 1, Len(w)) = w
      /\ p + k <= Len(Encoded(msg))
  BY PatternFound
<1>2. k \in 0 .. Len(rx)
  <2>1. Len(w) \in Nat /\ Len(pat) \in Nat /\ Len(rx) \in Nat
    BY LenProperties DEF StreamType
  <2> QED BY <1>1, <2>1
<1>3. Stands(p, msg, rx \o left, cut, after)
  BY DEF At, Rest
<1>4. Erased(k) \in Seq(Chars) /\ Stands(p + k, msg, Erased(k) \o left, cut, after)
  BY <1>1, <1>2, <1>3, Dropped DEF StreamType, Erased
<1> QED BY <1>1, <1>4

(* The same when it is not found: it has not all arrived.                    *)
LEMMA LineMissing ==
    ASSUME StreamType, NEW p, At(p), NEW w \in Seq(Chars), NEW pat \in Seq(Chars), Len(pat) >= 1,
           Occurs(w \o pat, p, Encoded(msg)), \A j \in 1 .. Len(w) : w[j] # pat[1],
           Found(pat) = {}, left = <<>>
    PROVE  cut
<1>1. Len(rx) < Len(w) + Len(pat) /\ p + (Len(w) + Len(pat)) <= Len(Encoded(msg))
  BY PatternFound
<1>2. Len(w) + Len(pat) \in Nat
  <2>1. Len(w) \in Nat /\ Len(pat) \in Nat
    BY LenProperties
  <2> QED BY <2>1
<1> QED BY <1>1, <1>2, MissingIsCut

-----------------------------------------------------------------------------
(* The inductive invariant.                                                 *)
Phases == {"head", "size", "chunk", "trailer", "length", "eof", "ok", "fail"}

FramingType ==
    /\ StreamType
    /\ phase \in Phases
    /\ body \in Seq(Chars)
    /\ chunk_size \in Nat
    /\ error \in BOOLEAN /\ read_error \in BOOLEAN /\ connection_close \in BOOLEAN

(* Where ReadResponse is in the response, and what it has of the body.        *)
AtSize ==
    msg.framing = "chunked" /\ \E i \in 0 .. Len(msg.pieces) : At(ChunkEnd(msg, i)) /\ body = SoFar(msg, i)
AtChunk ==
    /\ msg.framing = "chunked"
    /\ \E i \in 1 .. Len(msg.pieces) :
         /\ At(ChunkEnd(msg, i - 1) + Len(SizeLine(msg, i)))
         /\ chunk_size = Len(msg.pieces[i]) /\ body = SoFar(msg, i - 1)
AtTrailer ==
    /\ msg.framing = "chunked" /\ body = Body(msg)
    /\ \E t \in 0 .. msg.trailers : At(TrailerEnd(msg, t))

Position ==
    /\ phase = "head" => At(0) /\ body = <<>>
    /\ phase = "size" => AtSize
    /\ phase = "chunk" => AtChunk
    /\ phase = "trailer" => AtTrailer
    /\ phase \in {"length", "eof"} => msg.framing = phase /\ At(5)

FramingInv == FramingType /\ Position /\ FramesExactly /\ WholeIsAccepted

(* The patterns that are looked for.                                        *)
LEMMA PatternFacts ==
    /\ CRLF \in Seq(Chars) /\ Len(CRLF) = 2 /\ CRLF[1] = CR
    /\ CRLF \o CRLF \in Seq(Chars) /\ Len(CRLF \o CRLF) = 4 /\ (CRLF \o CRLF)[1] = CR
    /\ <<HEAD>> \in Seq(Chars) /\ Len(<<HEAD>>) = 1 /\ \A j \in 1 .. Len(<<HEAD>>) : <<HEAD>>[j] # CR
<1>1. CRLF \in Seq(Chars) /\ Len(CRLF) = 2 /\ CRLF[1] = CR
  BY DEF CRLF, Chars
<1>2. CRLF \o CRLF \in Seq(Chars) /\ Len(CRLF \o CRLF) = 4 /\ (CRLF \o CRLF)[1] = CR
  <2> DEFINE s == CRLF
  <2>1. s \in Seq(Chars) /\ Len(s) = 2 /\ s[1] = CR
    BY <1>1
  <2> HIDE DEF s
  <2>2. /\ s \o s \in Seq(Chars) /\ Len(s \o s) = Len(s) + Len(s)
        /\ \A i \in 1 .. Len(s) + Len(s) : (s \o s)[i] = IF i <= Len(s) THEN s[i] ELSE s[i - Len(s)]
    BY <2>1, ConcatProperties
  <2> QED BY <2>1, <2>2 DEF s
<1>3. <<HEAD>> \in Seq(Chars) /\ Len(<<HEAD>>) = 1 /\ \A j \in 1 .. Len(<<HEAD>>) : <<HEAD>>[j] # CR
  BY DEF Chars, HEAD, CR
<1> QED BY <1>1, <1>2, <1>3

(* Before the first read.                                                   *)
LEMMA FramingStarts == FramingInit /\ ~Wraps(msg) => FramingInv
<1> SUFFICES ASSUME FramingInit, ~Wraps(msg) PROVE FramingInv
  OBVIOUS
<1> USE DEF FramingInit
<1> DEFINE E == Encoded(msg)
<1>1. E \in Seq(Chars) /\ Len(E) \in Nat /\ msg \in Messages
  BY EncodedFacts
<1>2. after \in Seq(Chars) /\ Len(after) \in Nat
  <2>1. after \in Seq({HEAD, CR, LF, DATA})
    BY FramingAssumption
  <2>2. {HEAD, CR, LF, DATA} \subseteq Chars
    BY DEF Chars
  <2>3. Seq({HEAD, CR, LF, DATA}) \subseteq Seq(Chars)
    BY <2>2, SeqMonotonic
  <2> QED BY <2>1, <2>3, LenProperties
<1>3. msg.framing = "eof" => after = <<>>
  OBVIOUS
<1> DEFINE OfStream(i) == Byte(msg, after, 0 + i)
<1>4. /\ left \in Seq(Chars) /\ cut \in BOOLEAN
      /\ \A i \in 1 .. Len(left) : left[i] = OfStream(i)
      /\ cut <=> Short(0, msg, left)
      /\ ~cut => 0 + Len(left) = Len(E) + Len(after)
  <2>1. CASE cut = FALSE /\ left = E \o after
    <3> HIDE DEF E
    <3>1. /\ left \in Seq(Chars) /\ Len(left) = Len(E) + Len(after)
          /\ \A i \in 1 .. Len(E) + Len(after) : left[i] = IF i <= Len(E) THEN E[i] ELSE after[i - Len(E)]
      BY <1>1, <1>2, <2>1, ConcatProperties
    <3>2. \A i \in 1 .. Len(left) : left[i] = OfStream(i)
      <4> TAKE i \in 1 .. Len(left)
      <4>1. 0 + i = i /\ i \in 1 .. Len(E) + Len(after)
        BY <1>1, <1>2, <3>1
      <4>2. OfStream(i) = IF i <= Len(E) THEN E[i] ELSE after[i - Len(E)]
        BY <4>1 DEF Byte, E
      <4> QED BY <3>1, <4>1, <4>2
    <3>3. ~(0 + Len(left) < Len(E)) /\ 0 + Len(left) = Len(E) + Len(after)
      BY <1>1, <1>2, <3>1
    <3> QED BY <2>1, <3>1, <3>2, <3>3 DEF Short, E
  <2>2. CASE cut = TRUE /\ \E k \in 0 .. Len(E) - 1 : left = SubSeq(E, 1, k)
    <3>1. PICK k \in 0 .. Len(E) - 1 : left = SubSeq(E, 1, k)
      BY <2>2
    <3> HIDE DEF E
    <3>2. k \in 0 .. Len(E) /\ k < Len(E)
      BY <1>1
    <3>3. left \in Seq(Chars) /\ Len(left) = k /\ \A i \in 1 .. k : left[i] = E[i]
      BY <1>1, <3>1, <3>2, CutSeq
    <3>4. \A i \in 1 .. Len(left) : left[i] = OfStream(i)
      <4> TAKE i \in 1 .. Len(left)
      <4>1. 0 + i = i /\ i \in 1 .. k /\ 0 + i <= Len(E)
        BY <1>1, <3>2, <3>3
      <4>2. OfStream(i) = E[i]
        BY <4>1 DEF Byte, E
      <4> QED BY <3>3, <4>1, <4>2
    <3>5. 0 + Len(left) < Len(E)
      BY <1>1, <3>2, <3>3
    <3> QED BY <2>2, <3>3, <3>4, <3>5 DEF Short, E
  <2> QED BY <2>1, <2>2
<1> HIDE DEF E
<1>5. Rest = left
  BY <1>4, ConcatEmptySeq DEF Rest
<1>6. Stands(0, msg, left, cut, after)
  <2>1. 0 \in Nat /\ 0 <= Len(E)
    BY <1>1
  <2> QED BY <1>4, <2>1 DEF Stands, E
<1>7. FramingType
  <2>1. StreamType
    BY <1>1, <1>2, <1>3, <1>4, EmptySeq DEF StreamType
  <2>2. body \in Seq(Chars) /\ chunk_size \in Nat /\ phase \in Phases
    BY EmptySeq DEF Phases
  <2>3. error \in BOOLEAN /\ read_error \in BOOLEAN /\ connection_close \in BOOLEAN
    OBVIOUS
  <2> QED BY <2>1, <2>2, <2>3 DEF FramingType
<1>8. Position
  BY <1>5, <1>6 DEF Position, At
<1> QED BY <1>7, <1>8 DEF FramingInv, FramesExactly, WholeIsAccepted

(* A read.                                                                  *)
LEMMA ReadMoreKeeps == FramingInv /\ ReadMore => FramingInv'
<1> SUFFICES ASSUME FramingInv, ReadMore PROVE FramingInv'
  OBVIOUS
<1> USE DEF ReadMore
<1>1. FramingType /\ StreamType /\ Position
  BY DEF FramingInv, FramingType
<1>2. rx \in Seq(Chars) /\ left \in Seq(Chars)
  BY <1>1 DEF StreamType
<1>3. PICK n \in 1 .. Len(left) : rx' = rx \o SubSeq(left, 1, n) /\ left' = SubSeq(left, n + 1, Len(left))
  OBVIOUS
<1>4. rx' \in Seq(Chars) /\ left' \in Seq(Chars) /\ rx' \o left' = rx \o left
  BY <1>2, <1>3, Delivered
<1>5. UNCHANGED <<msg, after, cut, phase, body, chunk_size>> /\ UNCHANGED <<error, read_error, connection_close>>
  OBVIOUS
<1>6. ASSUME NEW p, At(p) PROVE Stands(p, msg', rx' \o left', cut', after')
  BY <1>4, <1>5, <1>6 DEF At, Rest
<1>7. FramingType'
  <2>1. StreamType'
    BY <1>1, <1>4, <1>5 DEF StreamType
  <2> QED BY <1>1, <1>5, <2>1 DEF FramingType
<1>8. Position'
  BY <1>1, <1>5, <1>6 DEF Position, AtSize, AtChunk, AtTrailer, At, Rest
<1>9. phase \notin {"ok", "fail"}
  BY DEF NeedsMore
<1>10. FramesExactly' /\ WholeIsAccepted'
  BY <1>5, <1>9 DEF FramesExactly, WholeIsAccepted
<1> QED BY <1>7, <1>8, <1>10 DEF FramingInv

LEMMA StutterKeeps == FramingInv /\ UNCHANGED framingVars => FramingInv'
BY DEF FramingInv, framingVars, FramingType, StreamType, Position, AtSize, AtChunk, AtTrailer, At, Rest,
       FramesExactly, WholeIsAccepted

(* Where the end of what is looked for stands.                              *)
LEMMA SizeFacts ==
    ASSUME StreamType, msg.framing = "chunked", NEW i \in 0 .. Len(msg.pieces), At(ChunkEnd(msg, i)),
           NEW w, w = Word(msg, i + 1)
    PROVE  /\ w \in Seq(Chars) /\ SizeLine(msg, i + 1) = w \o CRLF
           /\ \A j \in 1 .. Len(w) : w[j] # CR
           /\ Occurs(w \o CRLF, ChunkEnd(msg, i), Encoded(msg))
           /\ i + 1 \in 1 .. Len(msg.pieces) + 1
           /\ IF msg.malformed THEN ~IsSize(WithoutExtension(w)) ELSE WithoutExtension(w) = msg.sizes[i + 1]
<1> DEFINE n == Len(msg.pieces)
           j == i + 1
<1>1. msg \in Messages /\ n \in Nat
  BY MessageFacts DEF StreamType
<1>2. j \in 1 .. n + 1 /\ j - 1 = i /\ (i # n => j \in 1 .. n) /\ (i = n => j = n + 1)
  BY <1>1
<1> HIDE DEF j
<1>3. /\ Word(msg, j) \in Seq(Chars) /\ SizeLine(msg, j) = Word(msg, j) \o CRLF
      /\ \A h \in 1 .. Len(Word(msg, j)) : Word(msg, j)[h] # CR
      /\ IF msg.malformed THEN ~IsSize(WithoutExtension(Word(msg, j)))
         ELSE WithoutExtension(Word(msg, j)) = msg.sizes[j]
  BY <1>1, <1>2, SizeLineFacts
<1>4. Occurs(SizeLine(msg, j), ChunkEnd(msg, i), Encoded(msg))
  <2>1. /\ \A h \in 1 .. n : Occurs(SizeLine(msg, h), ChunkEnd(msg, h - 1), Encoded(msg))
        /\ Occurs(SizeLine(msg, n + 1), ChunkEnd(msg, n), Encoded(msg))
    BY <1>1, ChunkedShape
  <2>2. CASE i = n
    BY <1>2, <2>1, <2>2
  <2>3. CASE i # n
    <3>1. Occurs(SizeLine(msg, j), ChunkEnd(msg, j - 1), Encoded(msg))
      BY <1>2, <2>1, <2>3
    <3> QED BY <1>2, <3>1
  <2> QED BY <2>2, <2>3
<1> QED BY <1>2, <1>3, <1>4 DEF j

(* The line that is next after the last chunk: a trailer, or the empty one. *)
LEMMA TrailerWord ==
    ASSUME StreamType, msg.framing = "chunked", NEW t \in 0 .. msg.trailers, At(TrailerEnd(msg, t)),
           NEW w, w = IF t = msg.trailers THEN <<>> ELSE <<DATA>>
    PROVE  /\ w \in Seq(Chars) /\ \A j \in 1 .. Len(w) : w[j] # CR
           /\ Occurs(w \o CRLF, TrailerEnd(msg, t), Encoded(msg))
           /\ Len(w) = IF t = msg.trailers THEN 0 ELSE 1
           /\ IF t = msg.trailers THEN Len(Encoded(msg)) = TrailerEnd(msg, t) + 2
              ELSE t + 1 \in 0 .. msg.trailers /\ TrailerEnd(msg, t + 1) = TrailerEnd(msg, t) + 3
<1>1. msg \in Messages /\ msg.trailers \in Nat
  BY MessageFacts DEF StreamType
<1>2. CASE t = msg.trailers
  <2>1. w = <<>> /\ w \in Seq(Chars) /\ Len(w) = 0 /\ CRLF \in Seq(Chars)
    BY <1>2, EmptySeq, PatternFacts
  <2>2. w \o CRLF = CRLF
    BY <2>1, ConcatEmptySeq
  <2>3. Occurs(CRLF, TrailerEnd(msg, t), Encoded(msg)) /\ Len(Encoded(msg)) = TrailerEnd(msg, t) + 2
    BY <1>1, <1>2, ChunkedShape
  <2> QED BY <1>2, <2>1, <2>2, <2>3
<1>3. CASE t # msg.trailers
  <2>1. w = <<DATA>>
    BY <1>3
  <2>7. <<DATA>> \in Seq(Chars) /\ Len(<<DATA>>) = 1 /\ \A j \in 1 .. Len(<<DATA>>) : <<DATA>>[j] # CR
    BY DEF Chars, DATA, CR
  <2>2. w \in Seq(Chars) /\ Len(w) = 1 /\ \A j \in 1 .. Len(w) : w[j] # CR
    BY <2>1, <2>7
  <2>3. w \o CRLF = TrailerLine
    BY <2>1 DEF TrailerLine
  <2> DEFINE u == t + 1
  <2>4. u \in 1 .. msg.trailers /\ u \in 0 .. msg.trailers /\ u - 1 = t
    BY <1>1, <1>3
  <2> HIDE DEF u
  <2>5. Occurs(TrailerLine, TrailerEnd(msg, u - 1), Encoded(msg)) /\ TrailerEnd(msg, u) = TrailerEnd(msg, u - 1) + 3
    BY <1>1, <2>4, ChunkedShape
  <2>6. Occurs(TrailerLine, TrailerEnd(msg, t), Encoded(msg)) /\ TrailerEnd(msg, u) = TrailerEnd(msg, t) + 3
    BY <2>4, <2>5
  <2> QED BY <1>3, <2>2, <2>3, <2>4, <2>6 DEF u
<1> QED BY <1>2, <1>3

(* The chunk that is next: where it ends, and that its size is no overflow.   *)
LEMMA ChunkNext ==
    ASSUME StreamType, msg.framing = "chunked", NEW i \in 1 .. Len(msg.pieces),
           NEW p, p = ChunkEnd(msg, i - 1) + Len(SizeLine(msg, i)), At(p), chunk_size = Len(msg.pieces[i])
    PROVE  /\ (chunk_size + 2) % Modulus = chunk_size + 2 /\ chunk_size \in Nat
           /\ p + (chunk_size + 2) = ChunkEnd(msg, i) /\ p + (chunk_size + 2) <= Len(Encoded(msg))
           /\ msg.pieces[i] \in Seq(Chars)
           /\ Occurs(msg.pieces[i], p, Encoded(msg))
           /\ i \in 0 .. Len(msg.pieces) /\ SoFar(msg, i) = SoFar(msg, i - 1) \o msg.pieces[i]
<1> DEFINE n == Len(msg.pieces)
           u == msg.pieces[i]
<1>1. msg \in Messages /\ n \in Nat /\ u \in Seq(Chars) /\ Len(u) \in Nat
  BY MessageFacts DEF StreamType
<1>2. /\ Occurs(u, ChunkEnd(msg, i - 1) + Len(SizeLine(msg, i)), Encoded(msg))
      /\ ChunkEnd(msg, i) = ChunkEnd(msg, i - 1) + Len(SizeLine(msg, i)) + Len(u) + 2
      /\ \A h \in 0 .. n : ChunkEnd(msg, h) \in Nat /\ ChunkEnd(msg, h) <= Len(Encoded(msg))
  BY <1>1, ChunkedShape
<1>3. i \in 0 .. n /\ p \in Nat
  BY <1>1, AtFacts
<1> HIDE DEF u
<1>4. Occurs(u, p, Encoded(msg)) /\ ChunkEnd(msg, i) = p + Len(u) + 2 /\ ChunkEnd(msg, i) <= Len(Encoded(msg))
  BY <1>2, <1>3
<1>5. (Len(u) + 2) % Modulus = Len(u) + 2
  <2>1. \A x \in Nat, m \in Nat \ {0} : x < m => x % m = x
    OBVIOUS
  <2>2. ~(Len(u) + 2 >= Modulus)
    <3>1. \A h \in DOMAIN msg.pieces : ~(Len(msg.pieces[h]) + 2 >= Modulus)
      BY DEF StreamType, Wraps
    <3>2. i \in DOMAIN msg.pieces
      BY <1>1, MessageFacts
    <3> QED BY <3>1, <3>2 DEF u
  <2>3. Modulus \in Nat \ {0} /\ Len(u) + 2 \in Nat /\ Len(u) + 2 < Modulus
    BY <1>1, <2>2, FramingAssumption
  <2> QED BY <2>1, <2>3
<1>6. p + Len(u) + 2 = p + (Len(u) + 2)
  BY <1>1, <1>3
<1>7. SoFar(msg, i) = SoFar(msg, i - 1) \o u
  BY <1>1, BodyFacts DEF u
<1>8. chunk_size = Len(u)
  BY DEF u
<1> QED BY <1>1, <1>3, <1>4, <1>5, <1>6, <1>7, <1>8 DEF u

(* A response whose last byte is consumed.                                  *)
LEMMA ResponseEnds ==
    ASSUME StreamType, NEW p, p = Len(Encoded(msg)), NEW r \in Seq(Chars), Stands(p, msg, r \o left, cut, after)
    PROVE  ~cut /\ r \o left = after
<1>1. msg \in Messages /\ after \in Seq(Chars) /\ cut \in BOOLEAN /\ r \o left \in Seq(Chars)
  BY ConcatProperties DEF StreamType
<1> DEFINE rest == r \o left
<1>2. rest \in Seq(Chars) /\ Stands(p, msg, rest, cut, after)
  BY <1>1
<1> HIDE DEF rest
<1>3. ~cut /\ rest = after
  BY <1>1, <1>2, AtTheEnd
<1> QED BY <1>3 DEF rest

(* A response that ends with the connection: what there is is a prefix.        *)
LEMMA ReadToTheEnd ==
    ASSUME StreamType, msg.framing = "eof", At(5), left = <<>>
    PROVE  IF cut THEN IsPrefix(rx, Body(msg)) ELSE rx = Body(msg)
<1> DEFINE b == Body(msg)
           n == Len(rx)
           E == Encoded(msg)
<1>1. msg \in Messages /\ rx \in Seq(Chars) /\ n \in Nat
  BY LenProperties DEF StreamType
<1>2. b \in Seq(Chars) /\ Len(b) \in Nat /\ Occurs(b, 5, E) /\ Len(E) = 5 + Len(b)
  BY <1>1, BodyFacts, EncodedFacts
<1>3. Rest = rx
  BY <1>1, ConcatEmptySeq DEF Rest
<1>4. n <= Len(b) /\ (cut <=> n < Len(b))
  <2>1. (cut <=> 5 + n < Len(E)) /\ (~cut => 5 + n = Len(E) + Len(after))
    BY <1>3 DEF At, Stands, Short
  <2>2. Len(after) = 0
    BY EmptySeq DEF StreamType
  <2> QED BY <1>1, <1>2, <2>1, <2>2
<1>5. \A i \in 1 .. n : rx[i] = b[i]
  <2> TAKE i \in 1 .. n
  <2>1. i \in 1 .. Len(b) /\ 5 + i <= Len(E)
    BY <1>1, <1>2, <1>4
  <2>2. E[5 + i] = b[i]
    BY <1>2, <2>1 DEF Occurs
  <2>3. rx[i] = E[5 + i]
    BY <1>1, <2>1, AtFacts
  <2> QED BY <2>2, <2>3
<1> HIDE DEF b, n, E
<1>6. n \in 0 .. Len(b) /\ n \in 0 .. n
  BY <1>1, <1>2, <1>4
<1>7. SubSeq(b, 1, n) \in Seq(Chars) /\ Len(SubSeq(b, 1, n)) = n /\ \A i \in 1 .. n : SubSeq(b, 1, n)[i] = b[i]
  BY <1>2, <1>6, CutSeq
<1>8. SubSeq(rx, 1, n) = rx
  BY <1>1, SubSeqFull DEF n
<1>9. SubSeq(b, 1, n) = rx
  <2>1. Len(rx) = Len(SubSeq(b, 1, n)) /\ \A i \in 1 .. Len(rx) : rx[i] = SubSeq(b, 1, n)[i]
    BY <1>5, <1>7 DEF n
  <2> QED BY <1>1, <1>7, <2>1, SeqEqual
<1>10. IsPrefix(rx, b)
  BY <1>4, <1>8, <1>9 DEF IsPrefix, n
<1>11. ASSUME ~cut PROVE rx = b
  <2>1. n = Len(b)
    BY <1>1, <1>2, <1>4, <1>11
  <2>2. SubSeq(b, 1, Len(b)) = b
    BY <1>2, SubSeqFull
  <2> QED BY <1>9, <2>1, <2>2
<1> QED BY <1>10, <1>11 DEF b

(* In every other phase the end of the connection is within the response.     *)
LEMMA EndIsCut ==
    ASSUME FramingInv, NeedsMore, left = <<>>, phase # "eof"
    PROVE  cut
<1>1. FramingType /\ StreamType /\ Position /\ msg \in Messages
  BY DEF FramingInv, FramingType, StreamType
<1>2. CASE phase = "head" /\ Found(CRLF \o CRLF) = {}
  <2>1. At(0) /\ Occurs(<<HEAD>> \o (CRLF \o CRLF), 0, Encoded(msg))
    BY <1>1, <1>2, EncodedFacts DEF Position
  <2>2. 4 >= 1
    OBVIOUS
  <2> QED BY <1>1, <1>2, <2>1, <2>2, PatternFacts, LineMissing
<1>3. CASE phase = "size" /\ Found(CRLF) = {}
  <2>1. msg.framing = "chunked" /\ AtSize
    BY <1>1, <1>3 DEF Position, AtSize
  <2>2. PICK i \in 0 .. Len(msg.pieces) : At(ChunkEnd(msg, i))
    BY <2>1 DEF AtSize
  <2> DEFINE w == Word(msg, i + 1)
             p == ChunkEnd(msg, i)
  <2>3. w \in Seq(Chars) /\ (\A j \in 1 .. Len(w) : w[j] # CR) /\ Occurs(w \o CRLF, p, Encoded(msg)) /\ At(p)
    BY <1>1, <2>1, <2>2, SizeFacts
  <2> HIDE DEF w, p
  <2> QED BY <1>1, <1>3, <2>3, PatternFacts, LineMissing
<1>4. CASE phase = "trailer" /\ Found(CRLF) = {}
  <2>1. msg.framing = "chunked" /\ AtTrailer
    BY <1>1, <1>4 DEF Position, AtTrailer
  <2>2. PICK t \in 0 .. msg.trailers : At(TrailerEnd(msg, t))
    BY <2>1 DEF AtTrailer
  <2> DEFINE w == IF t = msg.trailers THEN <<>> ELSE <<DATA>>
             p == TrailerEnd(msg, t)
  <2>3. w \in Seq(Chars) /\ (\A j \in 1 .. Len(w) : w[j] # CR) /\ Occurs(w \o CRLF, p, Encoded(msg)) /\ At(p)
    BY <1>1, <2>1, <2>2, TrailerWord
  <2> HIDE DEF w, p
  <2> QED BY <1>1, <1>4, <2>3, PatternFacts, LineMissing
<1>5. CASE phase = "chunk" /\ Len(rx) < (chunk_size + 2) % Modulus
  <2>1. msg.framing = "chunked" /\ AtChunk
    BY <1>1, <1>5 DEF Position, AtChunk
  <2>2. PICK i \in 1 .. Len(msg.pieces) :
          At(ChunkEnd(msg, i - 1) + Len(SizeLine(msg, i))) /\ chunk_size = Len(msg.pieces[i])
    BY <2>1 DEF AtChunk
  <2> DEFINE p == ChunkEnd(msg, i - 1) + Len(SizeLine(msg, i))
  <2>3. At(p)
    BY <2>2
  <2> HIDE DEF p
  <2>4. /\ (chunk_size + 2) % Modulus = chunk_size + 2 /\ chunk_size \in Nat
        /\ p + (chunk_size + 2) <= Len(Encoded(msg))
    BY <1>1, <2>1, <2>2, <2>3, ChunkNext DEF p
  <2> DEFINE k == chunk_size + 2
  <2>5. k \in Nat /\ p + k <= Len(Encoded(msg)) /\ Len(rx) < k
    BY <1>5, <2>4
  <2> HIDE DEF k
  <2> QED BY <1>1, <2>3, <2>5, MissingIsCut
<1>6. CASE phase = "length" /\ Len(rx) < Len(Body(msg))
  <2>1. At(5) /\ msg.framing # "chunked"
    BY <1>1, <1>6 DEF Position
  <2>2. Len(Body(msg)) \in Nat /\ 5 + Len(Body(msg)) = Len(Encoded(msg))
    BY <1>1, <2>1, BodyFacts, EncodedFacts
  <2>3. 5 + Len(Body(msg)) <= Len(Encoded(msg))
    BY <2>2
  <2> QED BY <1>1, <1>6, <2>1, <2>2, <2>3, MissingIsCut
<1> QED BY <1>2, <1>3, <1>4, <1>5, <1>6 DEF NeedsMore

(* The end of the connection.                                               *)
LEMMA ReadEndsKeeps == FramingInv /\ ReadEnds => FramingInv'
<1> SUFFICES ASSUME FramingInv, ReadEnds PROVE FramingInv'
  OBVIOUS
<1> USE DEF ReadEnds, Goto
<1>1. FramingType /\ StreamType /\ Position
  BY DEF FramingInv, FramingType
<1>2. UNCHANGED <<msg, after, left, cut, error, chunk_size, connection_close>> /\ read_error' = error /\ left = <<>>
  BY DEF stream
<1>3. CASE phase = "eof" /\ ~error
  <2>1. phase' = "ok" /\ body' = rx /\ rx' = <<>>
    BY <1>3
  <2>2. msg.framing = "eof" /\ At(5)
    BY <1>1, <1>3 DEF Position
  <2>3. IF cut THEN IsPrefix(rx, Body(msg)) ELSE rx = Body(msg)
    BY <1>1, <1>2, <2>2, ReadToTheEnd
  <2>4. rx \in Seq(Chars) /\ <<>> \in Seq(Chars)
    BY <1>1, EmptySeq DEF StreamType
  <2>5. FramingType'
    BY <1>1, <1>2, <2>1, <2>4 DEF FramingType, StreamType, Phases
  <2>6. Position' /\ WholeIsAccepted'
    BY <2>1 DEF Position, WholeIsAccepted
  <2>7. rx' \o left' = <<>>
    BY <1>2, <2>1, <2>4, ConcatEmptySeq
  <2>8. FramesExactly'
    <3>1. after = <<>>
      BY <1>1, <2>2 DEF StreamType
    <3> QED BY <1>2, <2>1, <2>2, <2>3, <2>7, <3>1 DEF FramesExactly
  <2> QED BY <2>5, <2>6, <2>8 DEF FramingInv
<1>4. CASE ~(phase = "eof" /\ ~error)
  <2>1. phase' = "fail" /\ body' = body /\ rx' = rx
    BY <1>4
  <2>2. FramingType'
    BY <1>1, <1>2, <2>1 DEF FramingType, StreamType, Phases
  <2>3. Position' /\ FramesExactly'
    BY <2>1 DEF Position, FramesExactly
  <2>4. WholeIsAccepted'
    <3>1. CASE phase # "eof"
      <4>1. cut
        BY <1>2, <3>1, EndIsCut
      <4> QED BY <1>2, <4>1 DEF WholeIsAccepted
    <3>2. CASE phase = "eof"
      <4>1. msg.framing = "eof" /\ error
        BY <1>1, <1>4, <3>2 DEF Position
      <4> QED BY <1>2, <4>1 DEF WholeIsAccepted
    <3> QED BY <3>1, <3>2
  <2> QED BY <2>2, <2>3, <2>4 DEF FramingInv
<1> QED BY <1>3, <1>4

(* The head, for every framing.                                             *)
LEMMA TakeHeadKeeps == FramingInv /\ TakeHead => FramingInv'
<1> SUFFICES ASSUME FramingInv, TakeHead PROVE FramingInv'
  OBVIOUS
<1> USE DEF TakeHead, Goto
<1>1. FramingType /\ StreamType /\ msg \in Messages /\ At(0) /\ body = <<>>
  BY DEF FramingInv, FramingType, StreamType, Position
<1>2. UNCHANGED <<msg, after, left, cut, error, body, chunk_size, read_error>>
  BY DEF stream
<1>3. First(Found(CRLF \o CRLF)) = 2 /\ Erased(5) \in Seq(Chars) /\ Stands(5, msg, Erased(5) \o left, cut, after)
  <2>1. Occurs(<<HEAD>> \o (CRLF \o CRLF), 0, Encoded(msg))
    BY <1>1, EncodedFacts
  <2> DEFINE w == <<HEAD>>
             pat == CRLF \o CRLF
  <2>2. /\ w \in Seq(Chars) /\ Len(w) = 1 /\ \A j \in 1 .. Len(w) : w[j] # pat[1]
        /\ pat \in Seq(Chars) /\ Len(pat) = 4 /\ Len(pat) >= 1 /\ 5 = Len(w) + Len(pat)
        /\ Occurs(w \o pat, 0, Encoded(msg)) /\ Found(pat) # {}
    BY <2>1, PatternFacts
  <2> HIDE DEF w, pat
  <2>3. First(Found(pat)) = Len(w) + 1 /\ Erased(5) \in Seq(Chars) /\ Stands(0 + 5, msg, Erased(5) \o left, cut, after)
    BY <1>1, <2>2, LineTaken
  <2>4. Len(w) + 1 = 2 /\ 0 + 5 = 5
    BY <2>2
  <2> QED BY <2>3, <2>4 DEF pat
<1>4. rx' = Erased(5)
  BY <1>3
<1>5. Stands(5, msg', rx' \o left', cut', after') /\ StreamType' /\ At(5)'
  BY <1>1, <1>2, <1>3, <1>4 DEF StreamType, At, Rest
<1>6. connection_close' \in BOOLEAN
  BY DEF TakeHead
<1>7. phase' \in Phases => FramingType'
  BY <1>1, <1>2, <1>5, <1>6 DEF FramingType
<1>8. msg.framing \in {"none", "length", "chunked", "eof"}
  BY <1>1, MessageFacts
<1>9. CASE msg.framing = "none"
  <2>1. phase' = "ok"
    BY <1>9
  <2>2. Body(msg) = <<>> /\ Len(Encoded(msg)) = 5
    <3>1. msg.pieces = <<>>
      BY <1>1, <1>9, FramingAssumption
    <3>2. Body(msg) = <<>> /\ Len(Encoded(msg)) = 5 + Len(Body(msg))
      BY <1>1, <1>9, <3>1, BodyFacts, EncodedFacts
    <3> QED BY <3>2, EmptySeq
  <2>3. ~cut /\ Erased(5) \o left = after
    BY <1>1, <1>3, <2>2, ResponseEnds
  <2>4. FramesExactly'
    BY <1>1, <1>2, <1>4, <2>2, <2>3 DEF FramesExactly
  <2> QED BY <1>7, <2>1, <2>4 DEF FramingInv, Phases, Position, WholeIsAccepted
<1>10. CASE msg.framing = "chunked"
  <2>1. phase' = "size"
    BY <1>10
  <2>2. AtSize'
    <3>1. 0 \in 0 .. Len(msg.pieces) /\ ChunkEnd(msg, 0) = 5 /\ SoFar(msg, 0) = <<>>
      <4>1. 0 \in 0 .. Len(msg.pieces)
        BY <1>1, MessageFacts
      <4>2. ChunkEnd(msg, 0) = 5
        BY <1>1, <1>10, ChunkedShape
      <4>3. SoFar(msg, 0) = <<>>
        BY <1>1, BodyFacts
      <4> QED BY <4>1, <4>2, <4>3
    <3>2. Stands(ChunkEnd(msg, 0), msg', rx' \o left', cut', after')
      BY <1>5, <3>1
    <3> QED BY <1>1, <1>2, <1>10, <3>1, <3>2 DEF AtSize, At, Rest
  <2> QED BY <1>7, <2>1, <2>2 DEF FramingInv, Phases, Position, WholeIsAccepted, FramesExactly
<1>11. CASE msg.framing = "length" /\ msg.malformed
  <2>1. phase' = "fail"
    BY <1>11
  <2> QED BY <1>2, <1>7, <1>11, <2>1 DEF FramingInv, Phases, Position, WholeIsAccepted, FramesExactly
<1>12. CASE msg.framing = "length" /\ ~msg.malformed
  <2>1. phase' = "length"
    BY <1>12
  <2> QED BY <1>2, <1>5, <1>7, <1>12, <2>1 DEF FramingInv, Phases, Position, WholeIsAccepted, FramesExactly
<1>13. CASE msg.framing = "eof"
  <2>1. phase' = "eof"
    BY <1>13
  <2> QED BY <1>2, <1>5, <1>7, <1>13, <2>1 DEF FramingInv, Phases, Position, WholeIsAccepted, FramesExactly
<1> QED BY <1>8, <1>9, <1>10, <1>11, <1>12, <1>13

(* A size line: of a chunk, of the last one, or malformed.                  *)
LEMMA TakeSizeKeeps == FramingInv /\ TakeSize => FramingInv'
<1> SUFFICES ASSUME FramingInv, TakeSize PROVE FramingInv'
  OBVIOUS
<1> USE DEF TakeSize, Goto
<1>1. FramingType /\ StreamType /\ msg \in Messages /\ AtSize /\ msg.framing = "chunked"
  BY DEF FramingInv, FramingType, StreamType, Position, AtSize
<1>2. UNCHANGED <<msg, after, left, cut, error, body, read_error, connection_close>>
  BY DEF stream
<1>3. PICK i \in 0 .. Len(msg.pieces) : At(ChunkEnd(msg, i)) /\ body = SoFar(msg, i)
  BY <1>1 DEF AtSize
<1> DEFINE n == Len(msg.pieces)
           p == ChunkEnd(msg, i)
           w == Word(msg, i + 1)
           j == i + 1
           k == Len(w) + 2
<1>4. /\ w \in Seq(Chars) /\ SizeLine(msg, j) = w \o CRLF
      /\ \A h \in 1 .. Len(w) : w[h] # CR
      /\ Occurs(w \o CRLF, p, Encoded(msg))
      /\ j \in 1 .. n + 1
      /\ IF msg.malformed THEN ~IsSize(WithoutExtension(w)) ELSE WithoutExtension(w) = msg.sizes[j]
  BY <1>1, <1>3, SizeFacts
<1>5. n \in Nat /\ j - 1 = i /\ (i # n => j \in 1 .. n) /\ (i = n => j = n + 1)
  BY <1>1, MessageFacts
<1>6. Len(w) \in Nat
  BY <1>4, LenProperties
<1> HIDE DEF p, w, j
<1>7. /\ First(Found(CRLF)) = Len(w) + 1
      /\ SubSeq(rx, 1, Len(w)) = w
      /\ Erased(k) \in Seq(Chars)
      /\ Stands(p + k, msg, Erased(k) \o left, cut, after)
  <2>1. Len(CRLF) >= 1 /\ k = Len(w) + Len(CRLF) /\ At(p) /\ \A h \in 1 .. Len(w) : w[h] # CRLF[1]
    BY <1>3, <1>4, PatternFacts DEF p
  <2> HIDE DEF k
  <2> QED BY <1>1, <1>4, <2>1, PatternFacts, LineTaken
<1>8. First(Found(CRLF)) + 1 = k /\ First(Found(CRLF)) - 1 = Len(w)
  BY <1>6, <1>7
<1>9. rx' = Erased(k)
  BY <1>8
<1>10. k = Len(SizeLine(msg, j))
  BY <1>4, PatternFacts, ConcatProperties
<1> DEFINE size == WithoutExtension(w)
<1>11. IF IsSize(size)
       THEN chunk_size' = Value(size) /\ phase' = IF Value(size) = 0 THEN "trailer" ELSE "chunk"
       ELSE phase' = "fail" /\ chunk_size' = chunk_size
  <2>1. SubSeq(rx, 1, First(Found(CRLF)) - 1) = w
    BY <1>7, <1>8
  <2> HIDE DEF k
  <2> QED BY <2>1
<1> HIDE DEF k
<1>12. StreamType'
  BY <1>1, <1>2, <1>7, <1>9 DEF StreamType
<1>13. phase' \in Phases /\ chunk_size' \in Nat => FramingType'
  BY <1>1, <1>2, <1>12 DEF FramingType
<1>14. Stands(p + k, msg', rx' \o left', cut', after')
  BY <1>2, <1>7, <1>9
<1>15. CASE msg.malformed
  <2>1. phase' = "fail" /\ chunk_size' \in Nat
    BY <1>1, <1>4, <1>11, <1>15 DEF FramingType
  <2> QED BY <1>2, <1>13, <1>15, <2>1 DEF FramingInv, Phases, Position, WholeIsAccepted, FramesExactly
<1>16. CASE ~msg.malformed
  <2>1. size = msg.sizes[j]
    BY <1>4, <1>16
  <2>2. IsSize(size) /\ Value(size) = IF j = n + 1 THEN 0 ELSE Len(msg.pieces[j])
    BY <1>1, <1>4, <2>1, ChunkedFacts
  <2> HIDE DEF size
  <2>3. CASE i = n
    <3>1. phase' = "trailer" /\ chunk_size' = 0
      BY <1>5, <1>11, <2>2, <2>3
    <3>2. p + k = TrailerEnd(msg, 0) /\ 0 \in 0 .. msg.trailers
      <4>1. TrailerEnd(msg, 0) = ChunkEnd(msg, n) + Len(SizeLine(msg, n + 1)) /\ msg.trailers \in Nat
        BY <1>1, ChunkedShape, MessageFacts
      <4> QED BY <1>5, <1>10, <2>3, <4>1 DEF p
    <3>3. body = Body(msg)
      BY <1>1, <1>3, <2>3, BodyFacts
    <3>4. AtTrailer'
      <4>1. Stands(TrailerEnd(msg, 0), msg', rx' \o left', cut', after')
        BY <1>14, <3>2
      <4> QED BY <1>1, <1>2, <3>2, <3>3, <4>1 DEF AtTrailer, At, Rest
    <3> QED BY <1>13, <3>1, <3>4 DEF FramingInv, Phases, Position, WholeIsAccepted, FramesExactly
  <2>4. CASE i # n
    <3>1. j \in 1 .. n /\ j # n + 1
      BY <1>5, <2>4
    <3>2. Len(msg.pieces[j]) \in Nat /\ Len(msg.pieces[j]) # 0
      BY <1>1, <3>1, MessageFacts, ChunkedFacts
    <3>3. phase' = "chunk" /\ chunk_size' = Len(msg.pieces[j])
      BY <1>11, <2>2, <3>1, <3>2
    <3>4. Stands(ChunkEnd(msg, j - 1) + Len(SizeLine(msg, j)), msg', rx' \o left', cut', after') /\ body = SoFar(msg, j - 1)
      BY <1>3, <1>5, <1>10, <1>14 DEF p
    <3>5. AtChunk'
      BY <1>1, <1>2, <3>1, <3>3, <3>4 DEF AtChunk, At, Rest
    <3> QED BY <1>13, <3>2, <3>3, <3>5 DEF FramingInv, Phases, Position, WholeIsAccepted, FramesExactly
  <2> QED BY <2>3, <2>4
<1> QED BY <1>15, <1>16

(* A chunk and its CRLF.                                                    *)
LEMMA TakeChunkKeeps == FramingInv /\ TakeChunk => FramingInv'
<1> SUFFICES ASSUME FramingInv, TakeChunk PROVE FramingInv'
  OBVIOUS
<1> USE DEF TakeChunk, Goto
<1>1. FramingType /\ StreamType /\ msg \in Messages /\ AtChunk /\ msg.framing = "chunked"
  BY DEF FramingInv, FramingType, StreamType, Position, AtChunk
<1>2. UNCHANGED <<msg, after, left, cut, error, chunk_size, read_error, connection_close>> /\ phase' = "size"
  BY DEF stream
<1>3. PICK i \in 1 .. Len(msg.pieces) : /\ At(ChunkEnd(msg, i - 1) + Len(SizeLine(msg, i)))
                                        /\ chunk_size = Len(msg.pieces[i]) /\ body = SoFar(msg, i - 1)
  BY <1>1 DEF AtChunk
<1> DEFINE p == ChunkEnd(msg, i - 1) + Len(SizeLine(msg, i))
           u == msg.pieces[i]
           k == chunk_size + 2
<1>4. At(p)
  BY <1>3
<1> HIDE DEF p
<1>5. /\ (chunk_size + 2) % Modulus = k /\ chunk_size \in Nat
      /\ p + k = ChunkEnd(msg, i) /\ p + k <= Len(Encoded(msg))
      /\ u \in Seq(Chars) /\ Occurs(u, p, Encoded(msg))
      /\ i \in 0 .. Len(msg.pieces) /\ SoFar(msg, i) = SoFar(msg, i - 1) \o u
  BY <1>1, <1>3, <1>4, ChunkNext DEF p
<1>6. Len(rx) >= k /\ rx' = Erased(k) /\ body' = body \o SubSeq(rx, 1, Least(chunk_size, Len(rx)))
  BY <1>5
<1>7. k \in 0 .. Len(rx) /\ chunk_size <= Len(rx) /\ Least(chunk_size, Len(rx)) = chunk_size
  <2>1. Len(rx) \in Nat
    BY <1>1, LenProperties DEF StreamType
  <2> QED BY <1>5, <1>6, <2>1 DEF Least
<1> HIDE DEF u, k
<1>8. SubSeq(rx, 1, chunk_size) = u
  <2>1. Len(u) = chunk_size
    BY <1>3 DEF u
  <2>2. SubSeq(rx, 1, Len(u)) = u
    BY <1>1, <1>4, <1>5, <1>7, <2>1, Taken
  <2> QED BY <2>1, <2>2
<1>9. body' = SoFar(msg, i)
  BY <1>3, <1>5, <1>6, <1>7, <1>8
<1>10. Erased(k) \in Seq(Chars) /\ Stands(p + k, msg, Erased(k) \o left, cut, after)
  <2>1. Stands(p, msg, rx \o left, cut, after)
    BY <1>4 DEF At, Rest
  <2> QED BY <1>1, <1>5, <1>7, <2>1, Dropped DEF StreamType, Erased
<1>11. body' \in Seq(Chars)
  BY <1>1, <1>5, <1>9, BodyFacts
<1>12. FramingType'
  BY <1>1, <1>2, <1>6, <1>10, <1>11 DEF FramingType, StreamType, Phases
<1>13. AtSize'
  <2>1. Stands(ChunkEnd(msg, i), msg', rx' \o left', cut', after')
    BY <1>2, <1>5, <1>6, <1>10
  <2> QED BY <1>1, <1>2, <1>5, <1>9, <2>1 DEF AtSize, At, Rest
<1> QED BY <1>2, <1>12, <1>13 DEF FramingInv, Position, WholeIsAccepted, FramesExactly

(* A trailer line, or the end of the response.                              *)
LEMMA TakeTrailerKeeps == FramingInv /\ TakeTrailer => FramingInv'
<1> SUFFICES ASSUME FramingInv, TakeTrailer PROVE FramingInv'
  OBVIOUS
<1> USE DEF TakeTrailer, Goto
<1>1. FramingType /\ StreamType /\ msg \in Messages /\ AtTrailer /\ msg.framing = "chunked"
  BY DEF FramingInv, FramingType, StreamType, Position, AtTrailer
<1>2. UNCHANGED <<msg, after, left, cut, error, body, chunk_size, read_error, connection_close>>
  BY DEF stream
<1>3. PICK t \in 0 .. msg.trailers : At(TrailerEnd(msg, t))
  BY <1>1 DEF AtTrailer
<1> DEFINE p == TrailerEnd(msg, t)
           w == IF t = msg.trailers THEN <<>> ELSE <<DATA>>
           k == Len(w) + 2
<1>4. /\ w \in Seq(Chars) /\ \A j \in 1 .. Len(w) : w[j] # CR
      /\ Occurs(w \o CRLF, p, Encoded(msg))
      /\ Len(w) = IF t = msg.trailers THEN 0 ELSE 1
      /\ IF t = msg.trailers THEN Len(Encoded(msg)) = p + 2
         ELSE t + 1 \in 0 .. msg.trailers /\ TrailerEnd(msg, t + 1) = p + 3
  BY <1>1, <1>3, TrailerWord
<1> HIDE DEF p, w
<1>5. /\ First(Found(CRLF)) = Len(w) + 1
      /\ Erased(k) \in Seq(Chars)
      /\ Stands(p + k, msg, Erased(k) \o left, cut, after)
  <2>1. Len(CRLF) >= 1 /\ k = Len(w) + Len(CRLF) /\ At(p) /\ \A h \in 1 .. Len(w) : w[h] # CRLF[1]
    BY <1>3, <1>4, PatternFacts DEF p
  <2> HIDE DEF k
  <2> QED BY <1>1, <1>4, <2>1, PatternFacts, LineTaken
<1>6. First(Found(CRLF)) + 1 = k
  <2>1. Len(w) \in Nat
    BY <1>4, LenProperties
  <2> QED BY <1>5, <2>1
<1>7. rx' = Erased(k)
  BY <1>6
<1>8. phase' = IF t = msg.trailers THEN "ok" ELSE "trailer"
  BY <1>4, <1>5
<1>9. FramingType'
  BY <1>1, <1>2, <1>5, <1>7, <1>8 DEF FramingType, StreamType, Phases
<1>10. CASE t = msg.trailers
  <2>1. k = 2 /\ p + k = Len(Encoded(msg))
    BY <1>4, <1>10
  <2> HIDE DEF k
  <2>2. ~cut /\ Erased(k) \o left = after
    BY <1>1, <1>5, <2>1, ResponseEnds
  <2>3. FramesExactly'
    BY <1>1, <1>2, <1>7, <2>2 DEF FramesExactly, AtTrailer
  <2> QED BY <1>8, <1>9, <1>10, <2>3 DEF FramingInv, Position, WholeIsAccepted
<1>11. CASE t # msg.trailers
  <2>1. k = 3 /\ p + k = TrailerEnd(msg, t + 1) /\ t + 1 \in 0 .. msg.trailers
    BY <1>4, <1>11
  <2> HIDE DEF k
  <2>2. Stands(TrailerEnd(msg, t + 1), msg', rx' \o left', cut', after')
    BY <1>2, <1>5, <1>7, <2>1
  <2>3. AtTrailer'
    BY <1>1, <1>2, <2>1, <2>2 DEF AtTrailer, At, Rest
  <2> QED BY <1>8, <1>9, <1>11, <2>3 DEF FramingInv, Position, WholeIsAccepted, FramesExactly
<1> QED BY <1>10, <1>11

(* A body whose length is known.                                            *)
LEMMA TakeLengthKeeps == FramingInv /\ TakeLength => FramingInv'
<1> SUFFICES ASSUME FramingInv, TakeLength PROVE FramingInv'
  OBVIOUS
<1> USE DEF TakeLength, Goto
<1>1. FramingType /\ StreamType /\ msg \in Messages /\ At(5) /\ msg.framing = "length"
  BY DEF FramingInv, FramingType, StreamType, Position
<1>2. UNCHANGED <<msg, after, left, cut, error, chunk_size, read_error>> /\ phase' = "ok"
  BY DEF stream
<1> DEFINE b == Body(msg)
           k == Len(b)
<1>3. b \in Seq(Chars) /\ k \in Nat /\ Occurs(b, 5, Encoded(msg)) /\ Len(Encoded(msg)) = 5 + k
  BY <1>1, BodyFacts, EncodedFacts
<1>4. k <= Len(rx) /\ rx' = Erased(k) /\ body' = SubSeq(rx, 1, k)
  <2>1. Len(rx) \in Nat
    BY <1>1, LenProperties DEF StreamType
  <2> QED BY <1>3, <2>1
<1> HIDE DEF b
<1>5. body' = b
  BY <1>1, <1>3, <1>4, Taken
<1>6. k \in 0 .. Len(rx) /\ 5 + k <= Len(Encoded(msg))
  <2>1. Len(rx) \in Nat
    BY <1>1, LenProperties DEF StreamType
  <2> QED BY <1>3, <1>4, <2>1
<1> HIDE DEF k
<1>7. Erased(k) \in Seq(Chars) /\ Stands(5 + k, msg, Erased(k) \o left, cut, after)
  <2>1. Stands(5, msg, rx \o left, cut, after)
    BY <1>1 DEF At, Rest
  <2> QED BY <1>1, <1>6, <2>1, Dropped DEF StreamType, Erased
<1>8. ~cut /\ Erased(k) \o left = after
  BY <1>1, <1>3, <1>7, ResponseEnds
<1>9. connection_close' \in BOOLEAN
  OBVIOUS
<1>10. FramingType'
  BY <1>1, <1>2, <1>3, <1>4, <1>5, <1>7, <1>9 DEF FramingType, StreamType, Phases
<1>11. FramesExactly'
  BY <1>2, <1>4, <1>5, <1>8 DEF FramesExactly, b
<1> QED BY <1>2, <1>10, <1>11 DEF FramingInv, Position, WholeIsAccepted

(* The position in the response is known at every moment, in whatever pieces *)
(* the stream arrives, unless a chunk has one of the two sizes that wrap.     *)
THEOREM FramingInvariance == FramingSpec => [](~Wraps(msg) => FramingInv)
<1>1. FramingInit => (~Wraps(msg) => FramingInv)
  BY FramingStarts
<1>2. (~Wraps(msg) => FramingInv) /\ [FramingNext]_framingVars => (~Wraps(msg) => FramingInv)'
  <2> SUFFICES ASSUME ~Wraps(msg) => FramingInv, [FramingNext]_framingVars, ~Wraps(msg')
               PROVE  FramingInv'
    OBVIOUS
  <2>1. msg' = msg
    BY DEF FramingNext, framingVars, stream, ReadMore, ReadEnds, TakeHead, TakeSize, TakeChunk, TakeTrailer,
           TakeLength, Returned
  <2>2. FramingInv
    BY <2>1
  <2> QED
    BY <2>2, ReadMoreKeeps, ReadEndsKeeps, TakeHeadKeeps, TakeSizeKeeps, TakeChunkKeeps, TakeTrailerKeeps,
       TakeLengthKeeps, StutterKeeps DEF FramingNext, Returned
<1> QED BY <1>1, <1>2, PTL DEF FramingSpec

(* A response is taken to end where it ends, its body is what was sent and    *)
(* every byte that follows it is left, for any responses, trailers and reads   *)
(* and any sizes but the two for which chunk_size + 2 wraps.                  *)
THEOREM ResponsesAreFramedExactly == FramingSpec => []FramesExactly
<1>1. (~Wraps(msg) => FramingInv) => FramesExactly
  BY DEF FramingInv, FramesExactly
<1> QED BY <1>1, FramingInvariance, PTL

(* ReadResponse refuses no response that arrived whole and well-formed, but    *)
(* for those two sizes.                                                     *)
THEOREM WholeResponsesAreAccepted == FramingSpec => []WholeIsAccepted
<1>1. (~Wraps(msg) => FramingInv) => WholeIsAccepted
  BY DEF FramingInv, WholeIsAccepted
<1> QED BY <1>1, FramingInvariance, PTL
=============================================================================
