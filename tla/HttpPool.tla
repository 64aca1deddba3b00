------------------------------ MODULE HttpPool ------------------------------
(***************************************************************************)
(* The HTTP router of the extension: TailscaleHTTPUtil, which leases one    *)
(* HTTPClient per DuckDB file handle, and the registry of MagicDNS suffixes *)
(* that decides which base URLs it serves itself.                           *)
(*                                                                          *)
(* A base URL in `idle_clients` is served by TailscaleHTTPClient objects     *)
(* kept alive between leases (a vector used as a stack, at most              *)
(* MAX_IDLE_PER_HOST deep); every other URL goes to the util that was        *)
(* registered before (httpfs), which has a cache of its own.  Both           *)
(* InitializeClient and CloseClient first ask IsTailnetHost, under the       *)
(* registry's mutex, and only then take the pool's mutex: a suffix may be    *)
(* registered in between, or between the two calls of one lease.             *)
(***************************************************************************)
EXTENDS Naturals, Sequences

CONSTANTS
    Threads,        \* query threads, each holding at most one client at a time
    Clients,        \* identities of HTTPClient objects; an identity is reused after its destructor ran
    NoClient,       \* the null unique_ptr
    Urls,           \* base URLs (proto_host_port strings)
    Https,          \* those of them that start with https://
    DnsSuffixes,    \* host suffixes
    Builtin,        \* suffixes that always name a tailnet host: *.ts.net, *.quackscale.local, 100.64/10, ...
    SuffixOf,       \* the suffix of each URL's host
    MAX_IDLE_PER_HOST

ASSUME PoolAssumption ==
    /\ NoClient \notin Clients
    /\ Https \subseteq Urls
    /\ Builtin \subseteq DnsSuffixes
    /\ SuffixOf \in [Urls -> DnsSuffixes]
    /\ MAX_IDLE_PER_HOST \in Nat \ {0}

VARIABLES
    registered,     \* g_magicdns_suffixes, together with the built-in rules
    kind,           \* the dynamic type of each HTTPClient object, "none" when there is no such object
    base,           \* GetBaseUrl() of each object
    connected,      \* the clients whose fd is open
    idle_clients,   \* the pool: URL -> vector of clients
    prev_cache,     \* clients the previous util keeps for itself
    lease,          \* the client a thread holds
    pc,             \* where each thread is in InitializeClient or CloseClient
    url             \* the URL a thread is asking a client for

vars == <<registered, kind, base, connected, idle_clients, prev_cache, lease, pc, url>>

Locations == {"out", "prev_init", "pool_init", "holding", "prev_close", "pool_close"}

(* Mutant: the scheme is not looked at.                                     *)
HostDecidesAlone(u) == SuffixOf[u] \in registered

IsTailnetHost(u) == u \notin Https /\ SuffixOf[u] \in registered

Free(c) == kind[c] = "none"

TypeOK ==
    /\ registered \in SUBSET DnsSuffixes
    /\ kind \in [Clients -> {"none", "tailscale", "delegate"}]
    /\ base \in [Clients -> Urls]
    /\ connected \in SUBSET Clients
    /\ idle_clients \in [Urls -> Seq(Clients)]
    /\ prev_cache \in SUBSET Clients
    /\ lease \in [Threads -> Clients \cup {NoClient}]
    /\ pc \in [Threads -> Locations]
    /\ url \in [Threads -> Urls]

Init ==
    /\ registered = Builtin
    /\ kind = [c \in Clients |-> "none"]
    /\ base \in {[c \in Clients |-> u] : u \in Urls}
    /\ connected = {}
    /\ idle_clients = [u \in Urls |-> <<>>]
    /\ prev_cache = {}
    /\ lease = [t \in Threads |-> NoClient]
    /\ pc = [t \in Threads |-> "out"]
    /\ url \in {[t \in Threads |-> u] : u \in Urls}

-----------------------------------------------------------------------------
(* Mutant: a new domain replaces the others.                                *)
ReplaceSuffixes(s) ==
    /\ registered' = {s}
    /\ UNCHANGED <<kind, base, connected, idle_clients, prev_cache, lease, pc, url>>

(* RegisterTailnetMagicDnsSuffix, called by every successful hub start.     *)
RegisterSuffix(s) ==
    /\ registered' = registered \cup {s}
    /\ UNCHANGED <<kind, base, connected, idle_clients, prev_cache, lease, pc, url>>

(* InitializeClient, up to the answer of IsTailnetHost.                     *)
InitializeClient(t, u) ==
    /\ pc[t] = "out"
    /\ url' = [url EXCEPT ![t] = u]
    /\ pc' = [pc EXCEPT ![t] = IF IsTailnetHost(u) THEN "pool_init" ELSE "prev_init"]
    /\ UNCHANGED <<registered, kind, base, connected, idle_clients, prev_cache, lease>>

(* prev.InitializeClient: a cached client for this URL, or a new one.       *)
DelegateInitialize(t) ==
    /\ pc[t] = "prev_init"
    /\ \E c \in Clients :
         /\ \/ c \in prev_cache /\ base[c] = url[t]
            \/ Free(c)
         /\ kind' = [kind EXCEPT ![c] = IF Free(c) THEN "delegate" ELSE @]
         /\ base' = [base EXCEPT ![c] = url[t]]
         /\ prev_cache' = prev_cache \ {c}
         /\ lease' = [lease EXCEPT ![t] = c]
    /\ pc' = [pc EXCEPT ![t] = "holding"]
    /\ UNCHANGED <<registered, connected, idle_clients, url>>

(* Mutant: back() without pop_back().                                       *)
TakeWithoutPop(t) ==
    /\ pc[t] = "pool_init"
    /\ idle_clients[url[t]] # <<>>
    /\ lease' = [lease EXCEPT ![t] = idle_clients[url[t]][Len(idle_clients[url[t]])]]
    /\ pc' = [pc EXCEPT ![t] = "holding"]
    /\ UNCHANGED <<registered, kind, base, connected, idle_clients, prev_cache, url>>

(* Under pool_mutex: back() and pop_back() of this URL's bucket.            *)
TakeIdle(t) ==
    LET bucket == idle_clients[url[t]] IN
    /\ pc[t] = "pool_init"
    /\ bucket # <<>>
    /\ lease' = [lease EXCEPT ![t] = bucket[Len(bucket)]]
    /\ idle_clients' = [idle_clients EXCEPT ![url[t]] = SubSeq(bucket, 1, Len(bucket) - 1)]
    /\ pc' = [pc EXCEPT ![t] = "holding"]
    /\ UNCHANGED <<registered, kind, base, connected, prev_cache, url>>

(* No idle client: make_uniq<TailscaleHTTPClient>, not connected yet.       *)
MakeClient(t) ==
    /\ pc[t] = "pool_init"
    /\ idle_clients[url[t]] = <<>>
    /\ \E c \in Clients :
         /\ Free(c)
         /\ kind' = [kind EXCEPT ![c] = "tailscale"]
         /\ base' = [base EXCEPT ![c] = url[t]]
         /\ lease' = [lease EXCEPT ![t] = c]
    /\ pc' = [pc EXCEPT ![t] = "holding"]
    /\ UNCHANGED <<registered, connected, idle_clients, prev_cache, url>>

(* A round trip on the leased client leaves its connection open or closed.  *)
Request(t) ==
    /\ pc[t] = "holding"
    /\ connected' \in {connected \cup {lease[t]}, connected \ {lease[t]}}
    /\ UNCHANGED <<registered, kind, base, idle_clients, prev_cache, lease, pc, url>>

(* Mutant: every client is taken for one of ours.                           *)
CloseIntoPool(t) ==
    /\ pc[t] = "holding"
    /\ pc' = [pc EXCEPT ![t] = "pool_close"]
    /\ UNCHANGED <<registered, kind, base, connected, idle_clients, prev_cache, lease, url>>

(* CloseClient, up to the answer of IsTailnetHost on the client's own URL.  *)
CloseClient(t) ==
    /\ pc[t] = "holding"
    /\ pc' = [pc EXCEPT ![t] = IF IsTailnetHost(base[lease[t]]) THEN "pool_close" ELSE "prev_close"]
    /\ UNCHANGED <<registered, kind, base, connected, idle_clients, prev_cache, lease, url>>

(* ~HTTPClient closes the connection.                                       *)
Destroy(c) ==
    /\ kind' = [kind EXCEPT ![c] = "none"]
    /\ connected' = connected \ {c}

(* prev.CloseClient keeps the client in its own cache or destroys it.       *)
DelegateClose(t) ==
    /\ pc[t] = "prev_close"
    /\ \/ /\ prev_cache' = prev_cache \cup {lease[t]}
          /\ UNCHANGED <<kind, connected>>
       \/ /\ Destroy(lease[t])
          /\ UNCHANGED prev_cache
    /\ lease' = [lease EXCEPT ![t] = NoClient]
    /\ pc' = [pc EXCEPT ![t] = "out"]
    /\ UNCHANGED <<registered, base, idle_clients, url>>

(* Mutant: the cap is off by one.                                           *)
ReturnPastCap(t) ==
    LET c == lease[t] IN
    /\ pc[t] = "pool_close"
    /\ Len(idle_clients[base[c]]) <= MAX_IDLE_PER_HOST
    /\ idle_clients' = [idle_clients EXCEPT ![base[c]] = Append(@, c)]
    /\ lease' = [lease EXCEPT ![t] = NoClient]
    /\ pc' = [pc EXCEPT ![t] = "out"]
    /\ UNCHANGED <<registered, kind, base, connected, prev_cache, url>>

(* Under pool_mutex: push_back below the cap, drop the overflow.            *)
ReturnToPool(t) ==
    LET c == lease[t]
        bucket == idle_clients[base[c]]
    IN
    /\ pc[t] = "pool_close"
    /\ \/ /\ Len(bucket) < MAX_IDLE_PER_HOST
          /\ idle_clients' = [idle_clients EXCEPT ![base[c]] = Append(bucket, c)]
          /\ UNCHANGED <<kind, connected>>
       \/ /\ Len(bucket) >= MAX_IDLE_PER_HOST
          /\ Destroy(c)
          /\ UNCHANGED idle_clients
    /\ lease' = [lease EXCEPT ![t] = NoClient]
    /\ pc' = [pc EXCEPT ![t] = "out"]
    /\ UNCHANGED <<registered, base, prev_cache, url>>

Step(t) ==
    \/ \E u \in Urls : InitializeClient(t, u)
    \/ DelegateInitialize(t)
    \/ TakeIdle(t)
    \/ MakeClient(t)
    \/ Request(t)
    \/ CloseClient(t)
    \/ DelegateClose(t)
    \/ ReturnToPool(t)

Next ==
    \/ \E s \in DnsSuffixes : RegisterSuffix(s)
    \/ \E t \in Threads : Step(t)

Spec == Init /\ [][Next]_vars

-----------------------------------------------------------------------------
Holding(t) == pc[t] \in {"holding", "prev_close", "pool_close"}

InBucket(c, u) == \E i \in DOMAIN idle_clients[u] : idle_clients[u][i] = c

(* A client object has one owner.  No two threads ever hold the same one,   *)
(* no leased client is in the pool or in the previous util's cache, and the *)
(* pool never lists an object twice: `unique_ptr` moved through             *)
(* InitializeClient and CloseClient by several threads at once.             *)
ExclusiveLease ==
    /\ \A t1, t2 \in Threads : lease[t1] = lease[t2] /\ lease[t1] # NoClient => t1 = t2
    /\ \A t \in Threads : lease[t] \notin prev_cache
    /\ \A t \in Threads, u \in Urls : ~InBucket(lease[t], u)
    /\ \A u \in Urls : \A i \in DOMAIN idle_clients[u] : idle_clients[u][i] \notin prev_cache
    /\ \A u, v \in Urls : \A i \in DOMAIN idle_clients[u], j \in DOMAIN idle_clients[v] :
         idle_clients[u][i] = idle_clients[v][j] => u = v /\ i = j

(* The pool never keeps more than MAX_IDLE_PER_HOST clients of one URL and  *)
(* every connection left open belongs to a client somebody still holds:     *)
(* dropping the overflow closes its connection.                             *)
NoConnectionLeak ==
    /\ \A u \in Urls : Len(idle_clients[u]) <= MAX_IDLE_PER_HOST
    /\ \A c \in connected :
         \/ c \in prev_cache
         \/ \E t \in Threads : lease[t] = c
         \/ \E u \in Urls : InBucket(c, u)

(* The client handed out for a URL was made for that URL, so a request is   *)
(* never sent over a connection to another host, and an https:// URL is     *)
(* never served by the plaintext client.                                    *)
RightHost ==
    \A t \in Threads : Holding(t) =>
        /\ base[lease[t]] = url[t]
        /\ url[t] \in Https => kind[lease[t]] = "delegate"

(* A plaintext client of ours never ends up in the previous util's cache:   *)
(* suffixes are only ever added to the registry, so a URL that was a        *)
(* tailnet host when its client was made still is one when it is closed.    *)
OursStayOurs == \A c \in prev_cache : kind[c] = "delegate"

(* A foreign client may sit in our pool, but only for a URL whose suffix    *)
(* was registered while the client was leased or before it came back.       *)
ForeignOnlyAfterRegistration ==
    \A u \in Urls : \A i \in DOMAIN idle_clients[u] :
        kind[idle_clients[u][i]] = "delegate" => SuffixOf[u] \in registered \ Builtin
=============================================================================
