# A specification of quackscale

quackscale is a DuckDB extension that makes the DuckDB process a node of a
tailnet. It joins the tailnet through libtailscale (tsnet), routes DuckDB's
HTTP requests to tailnet hosts through the node, forwards local ports to peers,
and can run the control plane of a fleet (wirebone) with its roster stored in
DuckDB itself. This directory specifies its stateful parts in TLA+, checks them
with TLC on small instances, and proves results for every size with TLAPS: about
the HTTP router, the forwarder and its relays, the log capture, the node, the hub,
the SQL functions that use them together, and `attach_ducklake`.

## The system

| Component | Source | State | Operations |
|---|---|---|---|
| HTTP router | `src/tailscale_http.cpp` (`TailscaleHTTPUtil`, suffix registry) | `g_magicdns_suffixes`, `idle_clients`, the util registered before (httpfs) | `InitializeClient`, `CloseClient`, `RegisterTailnetMagicDnsSuffix` |
| HTTP client | `src/tailscale_http.cpp` (`TailscaleHTTPClient`) | `fd`, `rx`, the response being parsed | `Get`, `Head`, `Delete`, `Post`, `Put`, all through `RoundTrip` |
| Forwarder | `src/tailscale_forwarder.cpp` | `listen_fd`, `stop_requested`, `accept_thread`, `dial_fn`, `status`; one accept thread, one relay thread per connection | `Start`, `Stop`; `RelayFDs` for each connection |
| Node | `src/tailscale_bridge.cpp` | `handle`, `running`, `ips`, `login_state`, `pending_login_url`, `login_thread`, the proxy and what it did to the environment | `Up`, `BeginInteractiveLogin`, `LoginStatus`, `Shutdown`, `EnableQuackProxy`, `StartQuackForward`, `DialTCP`, `PingTCP`, `ServeLocalhostTCP` |
| Log capture | `src/tailscale_log_capture.cpp` | a pipe, a reader thread, a buffer | `Start`, `Stop`, `ExtractLoginURL` |
| Hub | `src/wirebone_bridge.cpp` | the wirebone coordinator, `last`, the mutex | `Serve`, `CreatePreauthKey`, `Stop`, `PersistToCatalog` |
| Hub catalog | `src/wirebone_catalog.cpp` | a connection; the tables `meta`, `preauth_keys`, `nodes` | `Open`, `LoadSnapshot`, `SaveSnapshot`, `Close` |
| `attach_ducklake` | `src/attach_ducklake.cpp` | views in the local database, its bind data | one table function |
| SQL functions | `src/quackscale_extension.cpp`, `src/wirebone_functions.cpp` | the bind data of a statement | `quackscale_hub` calls the hub, the node and the router in turn; `tailscale_up` and `tailscale_login` the node and the router; the others one operation each |

How they interact. SQL sessions are threads of the host. They call the node and
the hub, which are singletons: the node's operations run under
`g_tailscale_mutex`, the hub's under a mutex of its own. DuckDB's file handles
lease clients from the router; a client's `RoundTrip` calls the node's
`DialTCP`. `StartQuackForward` passes a closure over the node's handle to the
forwarder, `Shutdown` stops the forwarder. `Serve` registers the fleet's domain
with the router's registry. `quackscale_hub` starts the hub, joins the node to it
and installs the router as DuckDB's HTTP util. The login reads what the node's
server logs through the log capture. wirebone calls back into `PersistToCatalog`
whenever the roster changes.

What is hard about it:

* threads the node leaves behind: an interactive login joins the tailnet in a
  thread that writes the node's fields without the mutex, and that `Shutdown`
  detaches rather than stops;
* checks under a mutex whose result is used after it was released
  (`StartQuackForward`, `DialTCP`, `IsTailnetHost` in the router);
* `Start` and `Stop` of the forwarder, which have no lock at all;
* calls that wait for something only another thread or a peer can bring about:
  joining a login thread, joining an accept thread;
* connections that break at any byte, and are kept between requests and leases;
* failures in the middle of operations of several steps, and crashes, with a
  stored roster that must survive them;
* bind data that survives a failed execution of a prepared statement;
* descriptor numbers, which a tsnet server goes on using after they were closed.

What makes each component correct:

* router: a client has one owner, is used only for the URL it was made for, is
  closed when the pool is full, and goes back to the util that made it;
* client: a response belongs to its request and is complete, a kept connection is
  clean, a write is never repeated, every call ends;
* forwarder: the status tells the truth, every thread is joined, a connection
  reaches the peer its forward was started for, `Stop` returns;
* relay: each direction delivers what was written, in order and once, and all of
  it unless something broke; the thread ends and closes both connections;
* log capture: it touches no descriptor but its own, `Stop` returns, a printed
  login URL is shown;
* node: no tsnet server is lost, `running` means that there is a node, the
  user's `ALL_PROXY` comes back (the lower-case spelling gets the value of the
  upper-case one, see below), `tailscale_down` leaves nothing, calls return;
* hub: a key handed out is never lost, the two stored copies of the roster
  agree, rosters of different stores are never mixed;
* SQL functions: `quackscale_hub` joins its own hub, the router is in place when a
  node is reported as running, is never stacked on another router, and does not
  cut off httpfs;
* `attach_ducklake`: a call that returns has made a view of its own remote for
  every table it was told of, and its rows name views that exist, one for each row
  of the remote's listing.

## Modules

| Module | Models | Composed with |
|---|---|---|
| `HttpPool` | the router: the registry, the pool, the previous util, the leases of query threads | |
| `AtMostOnceCall` | abstract: what one round trip promises | |
| `HttpExchange` | `RoundTrip` and response framing over connections that fail | refines `AtMostOnceCall` |
| `HttpExchange_proofs` | its inductive invariant, the theorems, the safety part of the refinement | `HttpExchange`, `TLAPS` |
| `Framing` | `ReadResponse` and `ReadChunkedBody` byte by byte | |
| `Http_proofs` | the inductive invariants of `HttpPool` and of `Framing`, and the theorems | `HttpPool`, `Framing`, `TLAPS` |
| `Forwarder` | `Start`, `Stop`, `AcceptLoop` of the forwarder | |
| `BytePipes` | abstract: two pipes between two peers | |
| `Relay` | a connection of the forwarder: the dial and `RelayFDs` | refines `BytePipes` |
| `Forwarder_proofs` | the inductive invariants of both, the theorems, the safety part of the refinement | `Forwarder`, `Relay`, `TLAPS` |
| `LogCapture` | the pipe, the reader thread and the buffer of the log capture | |
| `LogCapture_proofs` | its inductive invariant and the theorems | `LogCapture`, `TLAPS` |
| `TailscaleBridge` | the node, its login threads, proxy, log capture; of the forwarder the handle it dials with and the relay threads about to dial | |
| `TailscaleBridge_proofs` | its inductive invariant and the theorems | `TailscaleBridge`, `TLAPS` |
| `DurableRoster` | abstract: acknowledged members of a stored roster stay | |
| `WireboneHub` | the hub and its catalog, with the transaction of `SaveSnapshot` and crashes | refines `DurableRoster` |
| `WireboneHub_proofs` | its inductive invariant, the theorems, the refinement | `WireboneHub`, `TLAPS` |
| `SqlCalls` | `quackscale_hub`, `quackscale_stop`, `tailscale_up`, `_login`, `_down`: hub, node and router used together | |
| `SqlCalls_proofs` | its inductive invariant and the theorems | `SqlCalls`, `TLAPS` |
| `Ducklake` | `attach_ducklake` | |
| `Ducklake_proofs` | its inductive invariant and the theorems | `Ducklake`, `TLAPS` |
| `MC...` | the instances TLC checks | |

Names are the source's: a variable is the field it models, an action the
function or the part of a function between two points at which another thread
can see or change something. Code that holds a mutex and calls nothing that
waits is one action. Operators introduced by a comment that begins "Mutant" are
not part of any specification: each is a definition changed the way a bug
would change it, and shows that the property it belongs to can fail.

**HttpPool.** `IsTailnetHost` and the change of the pool are separate actions
(`InitializeClient` then `TakeIdle` or `MakeClient`; `CloseClient` then
`ReturnToPool`), because they take two different mutexes. A client is an
identity that is free again once its destructor ran; `kind` is its dynamic
type. A URL is its scheme and the suffix of its host; how `IsTailnetHost` cuts
the host out of a URL is not modelled.

**HttpExchange.** A response is a sequence of parts: a head, data units, and a
last chunk. `ReadMore` takes any non-empty prefix of what is in flight; the
network cuts a connection cleanly or not, and loses any suffix of what was in
flight; a read may time out at any moment. Statuses without a body, `HEAD`,
`Content-Length`, chunks and bodies that end with the connection are all there.
The server executes what it received also after the client gave up. Bytes are
left to `Framing`. `ImplementsAtMostOnce` is where the promises of a round trip
are: a write is sent once at most, a response is that of its request, and every
call ends.

**Framing.** The same functions on the bytes of one response: `rx` is a sequence of
characters of which CR, LF, the semicolon and digits are told apart, a read delivers
any non-empty prefix of what is left, and the bytes that follow the response
(`after`, one of `Follows`) may come with it. A size is a sequence of binary digits,
with leading zeros or not; the sum that is compared with `rx.size()` is taken modulo
`Modulus`, one more than the largest `size_t`, and a size of `Modulus` or more is
refused. `Wraps` says of a response that it has a chunk of one of the two sizes for
which that sum wraps; such responses are among those checked, and are the exception of
both properties. Of all others the module shows what entitles `HttpExchange` to treat a
response as whole parts.

**Forwarder.** Each assignment of `Start` and `Stop` that the accept thread or
another session can see is an action: the close, the reset of `listen_fd`,
the join, the reset of the status, the publication of the new socket, the creation
of the thread, and the assignment of that thread to `accept_thread`: the thread
already runs before it. A second join of the same thread fails; assigning to a
joinable `std::thread` terminates the process, and so does a relay thread that cannot
be created, as nothing in the accept thread catches the exception. An accept thread
that cannot be created makes `Start` throw, after it has published the socket and the
status (`unspawned` remembers it until the next `Stop`). An `accept()` that is blocked
when its socket is closed may return an error or take one more connection; the constant
`CloseWakesAccept` says whether it is sure to return at all, which POSIX leaves
open: the BSDs and macOS wake it, Linux does not. The runs have it FALSE.

**Relay.** One relay thread between two peers. The units that a peer writes are
numbered; a unit is in a socket's buffer (`inbox`, `outbox`), in `buf`, or read by
the other peer (`got`). A poll, a read and each `write` are actions, as peers and
network move between them; a `write` may take a part and blocks when there is no
room. A TCP side reports `POLLHUP` only after both directions ended, one end of a
socket pair as soon as the other closes: `HangUpSides` says which sides are of that
kind. Closing a connection with unread data resets it, and the peer may lose what it
has not read. `BytePipes` is the abstract specification; `Broken` says what excuses
the relay from delivering, and is the only place where lost data may hide.

**LogCapture.** Descriptors are numbers that a table maps to what they stand for;
other threads open and close files of their own and get the lowest free number, as
the capture's pipe does. `Stop` is three actions (close, join, close), since the
reader and the servers run between them. A line with a URL comes in two pieces, so
that a read may end within it. A read may fail at any time, which ends the reader
(`ReadFails`), and the reader's thread may fail to start once the server has its
descriptor (`SetLogFdThrows`). The caller is the one that holds the node's mutex.

**TailscaleBridge.** A call is the sequence of points at which it waits or at
which an unlocked login thread may see its writes. libtailscale is external: a
handle is never given out twice, `tailscale_up` succeeds or fails, also on a
server that is being closed, and prints a login URL on the way. The forwarder
is the handle its closure dials with, and `dialing`, the handles of relay threads that
have a connection and wait for the mutex to dial: `Stop` joins the accept thread and
leaves those alone. `Shutdown` and `StartQuackForward` wait in `Stop` (`WaitsForAccept`)
unless `CloseWakesAccept`. `env` has both spellings of the proxy variable; the restored
value is that of `ALL_PROXY`, as in the code. The threads of the node are taken to be
created.

**WireboneHub.** wirebone is external: it makes keys, admits nodes, and hands
its roster to `PersistToCatalog`, whose exceptions reach the caller. A store is
a snapshot (what a restart reads) and the tables (what users query).
`SaveSnapshot` writes both in a transaction that any statement, the commit or a
crash may end. wirebone's threads do not take the bridge's mutex: a node is admitted
also in the middle of `Serve`, `CreatePreauthKey` and `Stop` (`resume` is where the
operation goes on). That the control plane changes its roster, and so calls back, one
change at a time is an assumption about wirebone, whose source is not part of the
repository. The json backend is wirebone's own file and not modelled.

**SqlCalls.** One level above `TailscaleBridge` and `WireboneHub`: a call of a bridge
is one action, because a lock of the bridge guards it, and between two of them any
other session may act. A fleet is that of a hub, Tailscale's, or that of another
process (`Elsewhere`, where a control URL leads that is no running hub's port); a tsnet
server keeps the control URL it was started with, and whether the key lets the node in
is up to the control plane. The HTTP util is a chain of utils that delegate to each
other; `RegisterTailscaleHTTPUtil` is the loading of httpfs, the check and the set. A
statement that threw may be executed again with its bind data: what then differs from a
new statement's is `join.control_url` and `join.authkey` (`control_url` and `authkey`
here), which `quackscale_hub` fills in before it joins, and `join.hostname`, which is
filled with the same name each time. `Serve` may also throw after the hub was published
(`ServeThrows`), and `Up` after the node is up (`UpThrows`).

**Ducklake.** Each statement that the function runs is an action that may fail. The
listing of the remote is any sequence of names, in which a name may come more than once:
the query selects by the database and not by the schema. `created_views`, `finished` and
the arguments stay for the next execution of the prepared statement. With more rows than
a vector has room for, the code writes past the end of its chunk; what happens then is
undefined, and the model stops there (`EmitTooMany`).

## What is checked

Every run is a `.cfg` of the same name.

| Run | Question | Bounds |
|---|---|---|
| `pool` | who owns a client, where it may go, and is the cap kept, while a suffix is being registered | 3 threads, 3 clients, 3 URLs, pool of 2; symmetric in threads and clients |
| `exchange` | is every response whole, is a kept connection clean; refinement of `AtMostOnceCall` | 2 requests, bodies of up to 2 units |
| `framing` | does a response end where it ends, however it is cut into reads | bodies of up to 2 bytes in up to 2 pieces, a chunk of the largest size, extensions, a trailer; sizes below 8, the two that wrap included; nothing, a byte, a blank line or a response follows |
| `forwarder` | status, threads and peers when the calls of two sessions overlap; do calls return when they do not, where `close()` wakes nothing | 2 sessions with a peer each, 2 sockets |
| `relay` | what a peer sent before its half-close is forwarded; the relay ends; refinement of `BytePipes` | 2 units from each peer, socket buffers and `buf` of 2 units; `POLLHUP` at once on the tailnet side |
| `login_url` | whose descriptors are used, does `Stop` return, is a printed URL shown | 2 servers, 2 pipes, a line of each server, 3 descriptors |
| `bridge` | no lost server, the proxy environment, what `running` and `tailscale_down` mean, handles used outside the mutex | 2 sessions, 2 handles, 2 login threads that all ask for the proxy, a relay thread at a time; nodes authorised by a key; symmetric in sessions |
| `bridge_returns` | does every call return, with logins of both kinds | 1 session, 1 handle, 2 login threads, with the proxy or without; nodes that print a login URL; `close()` wakes nothing |
| `hub` | the two copies agree, acknowledged members survive, stores stay separate; refinement of `DurableRoster` | 2 stores, 3 keys, 1 node |
| `sql_calls` | which fleet the node joins, what the chain of HTTP utils is | 2 sessions, 2 hubs on 2 ports; users who give no control URL or the first port, with a key of theirs; symmetric in sessions |
| `ducklake` | is every table attached and reported, whatever fails and whoever attaches at the same time | 2 sessions, 2 remotes, 1 alias, listings of up to 3 of 3 names of which one is refused, a vector of 2 rows, 2 executions of a statement; symmetric in sessions and remotes |

`bridge_terminates` expects a violation, see below. Where a module has a theorem
`TypeCorrect`, its type invariant is proved and not part of a run.

Why the bounds are enough for the cases that matter. `pool`: with three threads
returning clients of one URL to a pool of two, the cap is hit; the three URLs
are a built-in tailnet host, a host that becomes one, and an https URL of that
host, which must not. `exchange`: the second request meets what the first left
on the connection, a request dials at most once, and two units are the least for
which a body can be cut inside. `forwarder`: a second start replaces a first
one, from the same session or another one, at every point of it. `bridge`: the
second handle appears after a shutdown, the second login thread lives beside one
that was detached; the second session calls `Shutdown` between another's check
and use; what a printed URL changes is in the other two runs of the node, in `login_url` and in the proofs. `hub`: two stores show a roster that moves; of three keys one can be
acknowledged, one lost in a failed save, and one made after a restart. `framing`:
a piece of two bytes may be a CRLF, there is a chunk of the last size before the
sum wraps and one of each size for which it does, and what follows a response may be
taken for a part of it. `relay`: with two units each buffer can be full, empty and half full, and a
write can be partial. `login_url`: with three numbers one of a stopped capture is
taken by a file or by the next pipe while a server still writes to it. `bridge_returns`:
a second server would not add a way to wait, one handle is enough for two logins.
`sql_calls`: the second hub may be on the port of the first or on another one, and a
retry meets the key and the URL of the first. `ducklake`: three rows are the least for a
name that comes twice beside another one, and one more than the vector has room for; a
failure may come before, between and after the views.
`MaxHandles`, `MaxLogins`, `MaxStarts`, `MaxLines`, `MaxFd`, `MaxSent`, `MaxHubs`,
`MaxRuns`, `MaxListed`, `N` and `MaxBody` bound what the code does not: when they are used up the modelled call fails or cannot be made.

Deadlock is checked in `pool`, `hub`, `framing` and `sql_calls`, where
something can always happen. It is not in `exchange` (after `N` requests the client is
done) and `relay` (the connection ends), in `login_url` (a bound may be reached), in
`ducklake` (the model ends where the code's behaviour is undefined), nor in the runs of
the forwarder and the node, where the process may terminate, a bound may be
reached, or threads may wait for each other, which the liveness properties
judge.

Fairness. Liveness assumes that a thread that can take a step takes it. For the
node this includes that `tailscale_up` returns, which the code does not ensure
(the comment at `src/tailscale_bridge.cpp:395` says that it may block
indefinitely, and `tailscale_up` and a second `tailscale_login` then wait with it): what `bridge_returns` shows is that the bridge itself adds only two other
ways to wait for ever, the login thread that waits for the mutex and the accept thread
that nothing wakes. A call that waits for the latter in the forwarder's `Stop` is not
taken to go on: no connection need come in. In `HttpExchange` the steps of the thread in
`RoundTrip` are weakly fair, which includes the failing read: `RoundTrip` sets `SO_RCVTIMEO` and
`SO_SNDTIMEO` on every connection it dials. In `Relay` the relay's thread runs (a poll
never has to fail) and the peers read what is there for them, which the programs at
the two ends decide: without it a relay may block in `write` for ever. In `LogCapture`
the caller and the reader run, and no read is sure to fail; servers need not print and
nobody need close a file.
Nothing is assumed of servers, of the
network, of when connections arrive at the forwarder, or of which session a
mutex is given to.

## What the violation shows

`bridge_terminates`: when the proxy cannot be started in a login thread, the
exception ends the process, where `tailscale_up` reports an SQL error
(`findings` in `PROJECT.json` quotes the statement it contradicts).

The properties below are in the modules but in no run. Each says what a text of
the repository says, and the code contradicts it; the change of a configuration that
shows the counterexample is given.

* `LoginReturns` (`bridge_returns.cfg` with this PROPERTY):
  `tailscale_login` joins the previous login thread while it holds the mutex that
  this thread wants in order to start its proxy. Both wait for ever.
* `RunningMeansUp` (`bridge.cfg` with this INVARIANT): a login thread that
  `tailscale_down` detached finishes later and reports a running node where there
  is none.
* `DownReturns` (`bridge_returns.cfg` with this PROPERTY): `Shutdown` calls
  `forwarder.Stop` under the mutex, which closes the listening socket and joins the
  thread blocked in `accept()` on it; where `close()` does not wake that call, as on
  Linux, `tailscale_down` hangs until a connection arrives, and every other call of the
  node with it. The comment at `src/tailscale_bridge.cpp:405` takes care of another wait
  "so CALL tailscale_down() returns". In the forwarder itself this is the last disjunct
  of `CallsReturn`, which fails without it (`Overlap = FALSE` shows that no overlapping
  calls are needed).
* `ShownUrlIsTheNodes` (`login_url.cfg` with this INVARIANT): `docs/REFERENCE.md:75`
  and `:90` say of `login_url` "Browser authentication URL", which is taken here as that of
  the node that logs in; it is looked for in everything captured so far, so a login after
  `tailscale_down` may return the URL of the node that was closed.
* `OneRowPerView` (`ducklake.cfg` with this INVARIANT): `docs/REFERENCE.md:396` says
  "Returns one row per created view". The listing selects by `database_name` alone
  (`src/attach_ducklake.cpp:119`), so a name that two schemas of the remote have makes
  one view, of whichever table the server resolves the name to, and two rows.
* `KeptAliveIsClean` (`exchange.cfg` with `Interim = TRUE`): an interim (1xx) head is
  returned as the response, and the real one is read as the answer to the next
  request on the connection.
* `AckedSurvives` (`hub.cfg` with this INVARIANT): a failing query in `LoadSnapshot`
  looks like an empty store; the hub starts with a new roster and overwrites the
  stored one.

Four more are in no run because the code breaks them, though no text of the repository
says so in as many words:

* `RetriesJoinTheirHub` (`sql_calls.cfg` with this INVARIANT): a prepared
  `quackscale_hub` whose join failed, executed again after `quackscale_stop`, starts a
  second hub and joins it with the bootstrap key of the first one, or joins whatever is
  now at the first one's URL.
* `LogReachesNobodyElse` (`login_url.cfg` with this INVARIANT): a server whose capture
  was stopped goes on logging to the number it was given, which may be another file of
  the process by then.
* `FramesExactly` and `WholeIsAccepted` without `~Wraps(msg)` (`framing.cfg`): a chunk
  whose announced size is 2^64 - 2 or 2^64 - 1 is taken to be complete at once, and what
  it holds is read as what comes after it.

Other behaviour the models have, that contradicts a comment or deserves a look,
and that the passing properties delimit instead of forbidding:

* a client that httpfs made before its host's suffix was registered is returned
  to the pool of tailnet clients (`ForeignOnlyAfterRegistration`: in no other
  case), contrary to the comment at `src/tailscale_http.cpp:563`;
* `DialTCP` and `StartQuackForward` use a handle that a `Shutdown` in between has
  closed, the forward then starts after the shutdown, and a relay thread that waits for
  the mutex during `Shutdown` dials with the closed handle (`HandlesInUseAreLive`: in
  no other case, except for detached logins), contrary to the comment at
  `src/tailscale_bridge.cpp:487`;
* a `Start` that cannot create its thread throws and leaves an active status with
  nobody to serve it, as does an `accept()` that fails (`StatusTellsTheTruth` names both);
* a user's own lower-case `all_proxy` is lost after the first proxy session: it gets the
  value of `ALL_PROXY`, as `no_proxy` that of `NO_PROXY`;
* overlapping `Start`s may terminate the process (`TerminatesOnlyOnOverlap`) or
  leave an accept thread on a socket that no `Stop` closes (the exception in
  `CallsReturn`);
* the relay looks at `POLLHUP` before it reads, and takes the end of one side for the
  end of both: a peer that half-closes (as a client that has sent its last request
  may) cuts off what the other side has still to say (`Broken` in `Relay`). A signal
  that interrupts `poll` ends the connection as well;
* a login may keep a URL that was read only in part (`pending_login_url` in
  `LogCapture` says whether it is whole);
* a prepared `attach_ducklake` that failed half way lists views of the failed
  execution when it is executed again, in place of the last ones it made
  (`RowsAreTheViews`: as many as there were listed, all of which exist, and never in a
  first execution); the views of tables that have gone stay, as do those of a call that
  failed; more tables than `STANDARD_VECTOR_SIZE` are written past the end of a vector;
* a prepared call that returned its row does nothing when it is executed again
  (`finished` is in the bind data);
* two calls that install the router at the same time each make one; the later one
  takes the place of the earlier, with its pool (`OneRouter`: they are never stacked).
  If httpfs is loaded between a call's check and its set, the router hides it
  (`HttpfsStaysReachable`: in no other case); if a user loads httpfs later, it hides
  the router until the next call installs it (`RoutedWhenRunning`);
* `quackscale_hub` that throws after the hub has started leaves the hub running; a
  retry then fails until `quackscale_stop`.


## What is proved

**`Http_proofs`, of `HttpPool`**, for any number of threads, clients, URLs and suffixes and
any cap, from `PoolAssumption` (the null client is not a client, the https URLs
are URLs, every URL has a suffix, the cap is positive):

| Theorem | Statement |
|---|---|
| `TypeCorrect` | `Spec => []TypeOK` |
| `LeasesAreExclusive` | `Spec => []ExclusiveLease` |
| `PoolIsBounded` | `Spec => []NoConnectionLeak` |
| `RequestsReachTheirHost` | `Spec => []RightHost` |
| `TailnetClientsStayHere` | `Spec => []OursStayOurs` |
| `ForeignClientsNeedRegistration` | `Spec => []ForeignOnlyAfterRegistration` |

None of these is inductive by itself. Their common strengthening `IInv` has,
besides the properties, that every client somebody refers to exists
(`Existence`: without it a new object could get an identity that is still
leased), that a client in the pool of a URL or leased for it has that URL as its
base, that what `IsTailnetHost` answered a thread is still true when the thread
acts on it (`Routing`, which rests on suffixes only ever being added), and that a
client of the previous util is never for a built-in tailnet host (`Foreign`).

**`Http_proofs`, of `Framing`**, for any responses (with any number of chunks, sizes
written in any way, extensions and trailers), any bytes after them, any cut and any
reads, from `FramingAssumption` (the sizes written are those of the chunks; a chunk is
not empty and its size is a `size_t`):

| Theorem | Statement |
|---|---|
| `FramingInvariance` | `FramingSpec => [](~Wraps(msg) => FramingInv)` |
| `ResponsesAreFramedExactly` | `FramingSpec => []FramesExactly` |
| `WholeResponsesAreAccepted` | `FramingSpec => []WholeIsAccepted` |

`FramingInv` adds `Position` to the two properties: what was received and not consumed,
followed by what is still to come, is the stream from a byte on that the phase and the
body determine: the start of a size line, the first byte of a chunk, the start of a
trailer. Which byte that is, `ChunkedShape` says for a response of any number of
chunks: `Flattened` takes `FlattenSeq` to be the last of the sums of its parts, an
induction over the number of parts. `PatternFound` is the other half: `rx.find` finds
the CRLF that ends a line, and no other, as soon as it was received in full, and finds
nothing before; a line contains no CR, a chunk may, but is never searched. For a chunk
that does not wrap, the sum that is compared with `rx.size()` is the sum of the numbers:
this is the only place where `~Wraps(msg)` is used.

**`HttpExchange_proofs`**, for any number of requests, any of the methods, bodies of any
length, and a server that sends interim responses or does not, from
`ExchangeAssumption` (the bounds are numbers, the methods are those of the client):

| Theorem | Statement |
|---|---|
| `TypeCorrect` | `Spec => []TypeOK` |
| `WritesAreExecutedOnce` | `Spec => []WritesAtMostOnce` |
| `KeptConnectionsAreClean` | `Spec => [](~Interim => KeptAliveIsClean)` |
| `BodiesAreWhole` | `Spec => [](~Interim => NeverTruncated)` |
| `RoundTripsAreAtMostOnce` | `~Interim /\ Spec => Abstract!AbsInit /\ [][Abstract!AbsNext]_(Abstract!absVars)` |

The invariant has two layers. `RetryInv` does not look at what the server answers.
`AttemptInv` says which connection an attempt uses: its own, or that of an earlier
request; and that a second attempt follows only a first one on a kept connection, of a
request without a body. `SentInv` counts: how often a request was executed and on how
many connections it still waits to be, together, are at most `Allowance`, the number
of times that it can have been sent by then. `WritesAtMostOnce` follows, and holds even
when answers are out of step (in `exchange` it is part of the refinement; TLC checks
the other case with `exchange.cfg`, `Interim = TRUE`, `MaxBody = 1` and this INVARIANT). `StreamInv` is the second layer and needs a server that
answers each request once (`~Interim`; with interim responses `KeptAliveIsClean` is
false, see above): what was received on the connection and not consumed is what
remains of the response to the current request, up to where the network cut it off.
From it follows that whatever leaves the connection open has consumed all of the
response (`Completing`), hence that the next request finds it clean. `AnsweredInv` adds
that what is being read proves that the request was executed. In the refinement the
call, the execution of a request, the end of the round trip with an answer and its end
with an error map to `Start`, `Execute`, `Answer` and `Fail` of `AtMostOnceCall`; a retry,
a read, a cut and everything else to a stutter.

**`TailscaleBridge_proofs`**, for any set of sessions, any number of handles and
login threads, any user settings of the proxy variables, and logins that ask for
the proxy or do not, from `BridgeAssumption` (nobody is not a session, the bounds
are numbers, the user's proxy is not the node's own):

| Theorem | Statement |
|---|---|
| `TypeCorrect` | `Spec => []TypeOK` |
| `ServersAreNotLost` | `Spec => []NoLeakedNode` |
| `ProxyIsGivenBack` | `Spec => []ProxyEnvironment` |
| `RunningIsTrue` | `Spec => []RunningUnlessDetached` |
| `DownLeavesNothing` | `Spec => []DownUnlessDetached` |
| `HandlesStayLive` | `Spec => []HandlesInUseAreLive` |

Its invariant has two layers. `Structure` is what holds whatever login threads
do: a session inside a section holds the mutex (`Exclusive`), the types, no lost
server, the proxy's environment. `Lifecycle` uses it: a handle that is kept has an
open server (`HandleIsOpen`); a login thread at work is the one the bridge knows
and works on the bridge's handle, which is up once `tailscale_up` has returned
(`LoginsKnown`: this is what makes its unlocked writes true); no login thread is
known to a section that comes after the join (`Joined`); `Shutdown` takes things
down in an order that leaves nothing at its end (`DownIsDown`), and closes a handle
that nobody has in hand (`NotInHand`). That `LoginsKnown` has to assume
`detached = {}` is the counterexample to `RunningMeansUp` seen from the other side.

**`WireboneHub_proofs`**, for any sets of stores, keys and nodes, from
`HubAssumption` (the null values are not members, keys are not nodes):

| Theorem | Statement |
|---|---|
| `TypeCorrect` | `Spec => []TypeOK` |
| `RosterCopiesAgree` | `Spec => []TablesMatchSnapshot` |
| `AcknowledgedIsStored` | `Spec => []AckedSurvivesReads` |
| `RostersStaySeparate` | `Spec => []StoresSeparate` |
| `KeyShownIsValid` | `Spec => []AdvertisedKeyIsKnown` |
| `Refinement` | `Spec => ImplementsDurableRoster` |

`IInv` adds to the properties where an operation is and what is in place there
(`Control`), what the transaction has written so far (`Transaction`: without it a
commit could store a half-written roster), that the roster in memory has
everything acknowledged in its store and nothing of another (`Roster`), and that a
key or a node being added is stored before its caller hears of it (`Subject`, for both
at once when a node is admitted in the middle of an operation). The refinement maps
every commit that changes a store to `Store` of `DurableRoster`, every answer to a caller to `Acknowledge`, and everything else, the crash included,
to a stutter.

**`Forwarder_proofs`**, for any callers, peers and number of sockets, on either kind
of platform, from `ForwarderAssumption` (no peer is not a peer, callers ask for peers):

| Theorem | Statement |
|---|---|
| `TypeCorrect` | `ForwarderSpec => []ForwarderTypeOK` |
| `ThreadsAreKnown` | `ForwarderSpec => []NoOrphanedThread` |
| `StartDoesNotTerminate` | `ForwarderSpec => []TerminatesOnlyOnOverlap` |
| `ConnectionsReachTheirPeer` | `ForwarderSpec => []RelaysReachTheirPeer` |
| `StatusIsTrue` | `ForwarderSpec => []StatusTellsTheTruth` |

What holds however calls overlap: a socket that anybody refers to was opened, and for
the peer its caller asked for (`SocketInv`), and a thread that runs is known to
`accept_thread` or to the `Start` that created it. As long as no calls have overlapped,
there is one caller, and where it is tells which sockets are open, whether there is an
accept thread and what the status says (`Stages`); `listen_fd` and `dial_fn`, which the
accept thread reads one after the other, then belong together (`Peering`).

**`Forwarder_proofs`, of `Relay`**, for any number of units, any sizes of the buffers
and any sides that report `POLLHUP`, from `RelayAssumption` (the buffers hold something):

| Theorem | Statement |
|---|---|
| `RelayTypeCorrect` | `Spec => []TypeOK` |
| `FinishedIsForwardedHolds` | `Spec => []FinishedIsForwarded` |
| `RelayIsPipes` | `Spec => Pipes!PipesInit /\ [][Pipes!PipesNext]_Pipes!pipeVars` |

`StreamInv` says that what a peer has read, its outbox, `buf` and the inbox, one after
the other, are the units the other peer wrote, with no gap as long as the connection
they go to is intact. `ReadyInv` is what makes a `read` after a `poll` that reported
the other side too not block, `DoneInv` why the relay stopped: without a failure it is
because a peer's stream was read to its end.

**`LogCapture_proofs`**, for any number of servers, pipes, lines and descriptors, from
`CaptureAssumption` (the bounds are numbers):

| Theorem | Statement |
|---|---|
| `TypeCorrect` | `Spec => []TypeOK` |
| `CaptureOwnsItsDescriptors` | `Spec => []OwnDescriptors` |
| `ServerLogIsCaptured` | `Spec => []LogIsCaptured` |

`DescriptorInv` follows the two numbers through `Start` and `Stop`, `ReaderInv` says
that a reader that is not told to stop has both ends of the pipe and ends only when a
read fails, and `ServerInv` that
every server whose capture was not stopped writes to the current write end.

**`SqlCalls_proofs`**, for any sessions, ports and number of hubs, from
`CallsAssumption` (ports are numbers that are no other URL, users give URLs and keys of
their own):

| Theorem | Statement |
|---|---|
| `TypeCorrect` | `Spec => []TypeOK` |
| `NodeJoinsItsHub` | `Spec => []JoinsItsHub` |
| `RoutersAreNotStacked` | `Spec => []OneRouter` |
| `ReportedIsRouted` | `Spec => []RoutedWhenRunning` |
| `HttpfsIsKept` | `Spec => []HttpfsStaysReachable` |

`RouterInv` lists the four chains of utils there can be, and that what a call is about
to wrap is not a router; `HubInv` that a first execution of `quackscale_hub` that nobody
disturbed still has its hub, whose control URL and key its bind data has once they were
filled in.

**`Ducklake_proofs`**, for any sessions, remotes, aliases and tables, from
`DucklakeAssumption` (a missing view is not a remote, the names that are refused are
names, the bounds are numbers):

| Theorem | Statement |
|---|---|
| `TypeCorrect` | `Spec => []TypeOK` |
| `AttachedIsCompleteHolds` | `Spec => []AttachedIsComplete` |
| `RowsAreTheViewsHolds` | `Spec => []RowsAreTheViews` |

`ViewInv` adds that two calls running on one alias are both contested; `RowInv` that
whatever is in `created_views` is a view that exists, that there are at least as many as
the loop has passed, and that in a first execution they are the part of the listing that
it has passed.

In each of these modules the proof takes the actions one by one, with a lemma for
each, or each kind, that it preserves the invariant; the theorem `Invariance` combines
them, and the properties follow.

Every invariant and every action property that a passing run checks is a theorem. Only
model-checked, because they are out of the prover's reach: liveness and `ENABLED` (both
`CallsReturn`, `StopReturns`, `PrintedIsShown`, `EndsAfterHangUp`, the fairness of
`AtMostOnceCall` and `BytePipes`). The library's induction theorems take an operator
as a parameter, which the provers cannot instantiate; where an induction is needed
(`Flattened`, `SumsParts`), `SetInduction` takes a set in the place of the formula and
follows from the least element of its complement. The number that a size denotes
(`Value`) is not unfolded in a proof: the theorems hold for whatever number the digits
denote, and TLC evaluates it for binary digits.

## What is not modelled

* The syntax of hosts, heads and URLs.
* What a write past a full DuckDB vector does: `attach_ducklake` puts all its rows into
  one chunk, and the model ends where they do not fit.
* Torn reads: the login thread writes `ips`, `hostname` and `login_message` while
  `tailscale_status` may copy them, without a lock; the model takes each
  assignment as atomic, so it shows the order of the writes and not what a race
  on the storage of a vector or a string may give.
* `SIGPIPE` on a write to a connection the peer has left: whether it is ignored
  depends on the host process and on the Go runtime; the models take a failing
  write to return an error.
* The SQL functions that call one operation and format its answer (the status,
  proxy, forward, serve, ping, discover, nodes and preauth functions): what they call
  is modelled. The scripts, CI and Docker files; the Windows branches, which only throw.
* Threads of the node that cannot be created (the login thread, the one that closes a
  server): the call throws with its fields half set. Those of the forwarder and of the
  log capture may fail in their modules.
* More than one relay: each connection has a thread and descriptors of its own.
* libtailscale, wirebone, DuckDB and httpfs, beyond how the code uses them.

## Plan

Done: all components of the extension that keep state, each with its properties, and
proofs of all their safety properties. Left, in order of what it would add:

1. A proof that a read of whole parts in `HttpExchange` is what `Framing` does on the
   bytes of a response; today the two share no variable, and the theorem of one is the
   reason for the abstraction of the other.
2. The composition of `SqlCalls` with `TailscaleBridge`: `Shutdown` while a login runs,
   which `SqlCalls` leaves to `TailscaleBridge`.
3. `IsTailnetHost` on hosts cut from URLs.
