# PullFusion in TLA+

PullFusion is a Go program that pulls container images through whichever mirror
works best. It speaks the registry API and is an HTTP CONNECT proxy, chooses a
mirror node for each blob by a score it computes from recorded metrics, has a disk
cache for blobs, and maintains its list of nodes from a configuration file, a
database, a file of persisted nodes and a public status site. This directory holds
TLA+ modules for the parts whose correctness depends on the order in which things
happen, TLC configurations that check them on small instances, and theorems that TLAPS checks for every instance.

All line numbers are those of the repository's files; `PROJECT.json` maps every
definition to the lines it models.

## 1. The system

### Components

| Component | Source | State | Operations |
|---|---|---|---|
| Blob cache | `internal/cache/cache.go` | `*.blob`, `*.blob.tmp` files; `usedSize`, `count`, `accessTimes`; one mutex | `NewCache` (scan), `Get`, `Put` (with `evictLocked`), `Remove`, `Stats` |
| Node manager | `internal/nodemgr/manager.go` | the list `nodes` under an RWMutex; the database handle | `NewManagerWithStore`, `AddNode`, `List`, `ReloadNodes`, `SelectBest`, `RecordDownload`, `RecordMetric` |
| Store | `internal/store/db.go` | SQLite tables `nodes`, `node_metrics` | `InsertDownloadEvents`, `InsertMetricEvent`, `ComputeScore`, `GetStats`, generic queries of the console |
| Persistence | `internal/persist/persist.go` | `nodes.json` | `Save`, `Load` |
| Fetcher | `internal/fetcher/fetcher.go` | none; a snapshot of URLs per call | `FetchFromStatus`, `MergeIntoManager`, `FetchAndMerge` |
| Configuration | `internal/config/*.go` | `nodes.yaml`; `*Config` shared by pointer | `Load`, `StartWatcher` |
| Start-up | `cmd/pullfusion/main.go` | – | load, build, first fetch, watcher, servers, shutdown |
| Downloader | `internal/downloader/multi_source.go` | none | `Download` |
| Registry API | `internal/registry/*.go` | none | manifests, blobs (`headBlob`, `serveBlob`), headers, resolution |
| Token service | `internal/auth/token.go` | a map of tokens under a mutex | `GetToken` |
| CONNECT proxy | `internal/server/proxy.go` | – | `handleConnect`, transparent tunnel, registry tunnel, admin routes |
| Registry server, TLS | `internal/server/registry.go`, `internal/tlsutil/selfsign.go` | certificate and key files | choice of a certificate, generation, saving |
| Admin API | `internal/admin/api.go` | download log of 50 entries | fetch, test, log, database console |
| Speed tester | `internal/speedtest/tester.go` | none | `TestOne`; the loop `Run` is started by nobody |
| Metrics, middleware, web pages, proxy dialer | `internal/metrics`, `internal/server/middleware.go`, `internal/admin/*.html`, `internal/proxyclient` | counters | nothing another part reads; the dialer has no caller |

### How they interact

* A blob request (one goroutine each) asks the manager for the best node, the
  manager asks the store for one score per candidate, the downloader contacts the
  node, and the outcome is written back to the store, so it shapes later choices.
* Dashboard requests merge nodes into the same list and write test results to the
  same table.
* The watcher goroutine overwrites the shared `Config`, then replaces the list.
* A CONNECT request takes its connection over from the HTTP server; two goroutines
  copy between client and target, and the first that ends takes the tunnel down.
* The blob cache is created by `main` (line 50), which logs its size; at this commit
  it is passed to nobody. `BlobCache` models what the package promises a caller.
* A request for a blob or a manifest asks the token cache, which all requests share,
  and on a miss the mirror's realm. In the tunnel to registry-1.docker.io:443 the
  same handler answers, one request of the connection after another.
* `main` runs the first fetch, saves `nodes.json`, then starts the watcher, finds or
  makes a certificate, and starts the servers. A restart sees the files and the database and nothing else.

### What is hard

* `Get` looks at the disk before it takes the mutex that eviction holds; `Put`
  holds that mutex over a copy from a network reader, with several ways to fail.
* Counters and access times in memory must agree with files on disk through
  eviction, failures and restarts; some errors of the file system are ignored.
* A merge works from a snapshot of the list that others change meanwhile.
* A configuration file is read while an editor writes it; the watch is attached
  to an inode, not to a name.
* `nodes.json` is truncated before it is written.
* A tunnel ends by a race of two goroutines, of which only the first is waited for,
  and neither writes with a deadline.
* A score is six queries at six moments; a choice is one score per candidate.
* All calls of the store share one connection, which some keep over several statements.
* The client that asks realms and upstreams (`http.DefaultClient`) has no timeout: a wait
  ends with the context of the client that asked, or not at all.
* A certificate and its key are two files, written one after the other.

### What makes each part correct

* *Blob cache*: counters equal what is on disk, but for what an ignored error of a
  scan or a `Stat` leads astray; no reader sees part of a blob;
  the limit holds for what the counters know; eviction goes from the oldest and no
  further than needed;
  every call returns; temporary files do not pile up.
* *Node list*: no URL twice; what the configuration names is in the list, what it
  no longer names is out; an edit is not lost; persisted nodes that can be read are
  not destroyed;
  a start always completes.
* *Selection*: if there is a node, one is tried; undisturbed, the best one; the
  formula stays in its range and never ranks a node lower for being better.
* *Tunnels*: what is sent while a tunnel is open arrives at a side that reads, once;
  a tunnel that ends leaves neither goroutine nor connection behind, unless a write to
  a side that does not read, or an upstream, holds it.
* *Requests of a pull*: a token is that of the image; what an upstream serves reaches
  the client whether or not its outcome could be recorded; a request to the registry's
  server whose client has left ends.
* *Store*: its one connection is lost by no error and asked for twice by nobody; an
  outcome is in the table whole, and once; every call returns.
* *Certificate*: the pair that is on disk is the one that is served, and one that
  clients may have trusted is not replaced.

## 2. Modules

| Module | Models | Composed of |
|---|---|---|
| `BlobStore` | what a blob cache promises: whole blobs, a limit that nothing is added beyond but for what it overlooked | – |
| `BlobCache` | the blob cache, its callers, disk and crashes; it implements `BlobStore` | `BlobStore` (refinement) |
| `BlobCacheProofs` | theorems about `BlobCache` | `BlobCache`, `SumTheorems` |
| `TlsCert` | the choice, making and saving of the certificate | – |
| `NodeLifecycle` | start-up, manager's list, fetcher, persistence, watcher, operator | `TlsCert` |
| `NodeLifecycleProofs` | theorems about `NodeLifecycle` and its `TlsCert` | `NodeLifecycle`, `FoldTheorems` (two instances) |
| `Scoring` | the formula of `ComputeScore` | – |
| `ScoringProofs` | the range and the monotonicity of the formula | `Scoring` |
| `NodeSelection` | `SelectBest`, `ComputeScore` query by query, recording of outcomes, dashboard tests | `Scoring` |
| `NodeSelectionProofs` | theorems about `NodeSelection` | `NodeSelection`, `ScoringProofs`, `SumTheorems` |
| `DuplexPipe` | what a tunnel promises its two sides: every chunk once, nothing cut while both talk | – |
| `ConnectTunnel` | one CONNECT request and its tunnel, to the registry or to another host; it implements `DuplexPipe` | `DuplexPipe` (refinement) |
| `ConnectTunnelProofs` | theorems about `ConnectTunnel` | `ConnectTunnel` |
| `StorePool` | the store's one connection and the calls that share it | – |
| `OutcomeStore` | what the store promises who records outcomes: whole or not at all, one at a time | – |
| `RegistryPull` | requests of a pull: token, node, upstream, record, reply; the console beside them; it implements `OutcomeStore` | `StorePool`, `OutcomeStore` (refinement) |
| `RegistryPullProofs` | theorems about `RegistryPull` and its `StorePool` | `RegistryPull` |
| `FoldTheorems` | what a fold computes, for any step and any order of choice | – |
| `SumTheorems` | sums of natural numbers over finite sets | `FoldTheorems` (an instance) |
| `MCBlobCache`, `MCNodeLifecycle`, `MCNodeSelection`, `MCRegistryPull` | values of the constants for TLC | the module each names |

An operator whose name has an underscore (`Fits_full`, `AddNode_blind`) is the
operator below it with a plausible programming error. No action uses one. They
exist so that each property can be shown to notice its error: `PROJECT.json`
pairs every property of a passing run with one of them.

### BlobCache

Variables and code: `blob`, `len`, `tmp` are the directory; `usedSize`, `count`,
`accessed` the fields of `Cache`; `mu` the mutex; `todo`, `short` are the local
list and `needed - freed` of `evictLocked`; `pc`, `call` are the goroutines.
`phase` tells a process that is down from one that scans and one in use.

Two errors are ignored by the code and make counters and disk disagree: a `ReadDir` or
`Info` that fails at a start (lines 41-52), and a `Stat` that fails in `Put` (line 96), after
which a blob that is there is written over and charged again. `strayBytes` and `strayFiles`
are history variables for exactly that difference: only these steps and the end of the
process change them, and `UsedSizeExact` and `CountExact` say that the counters are exact
up to them. A file the scan overlooked has no access time and is sorted by its
modification time, as in the code.

| Code | Actions |
|---|---|
| `NewCache`, `scanExisting` | `Start` (also with a `ReadDir` that fails), `ScanFile`, `ScanSkip` (`Info` fails), `ScanDone` |
| `Get` (line 72) | `GetStat`, `GetOpen` (a miss when the file went away or cannot be opened), `GetTouch` |
| `Put` (line 92) | `PutCall`, then `PutPresent`, `PutFits` or `PutNeedsRoom` (the file is absent, or `Stat` fails), `PutCreate`, `PutCopy`, `PutRename`, `PutAccount` |
| `evictLocked` (line 170) | `Snapshots` (files whose `Info` fails are left out), `EvictOldest`, `EvictSkip` (`os.Remove` fails), `EvictDone` |
| `Remove` (line 145) | `RemoveCall`, `Remove` |
| the process dies | `Crash`: memory goes, files stay |

Time is an order of events: `older` holds the pairs of time stamps of which one is
earlier than the other. That needs no clock and no bound, and two files found
by a scan keep the order of their modification times.

`Put`'s caller hands over a digest, a declared size and the bytes that really come
(`Deliveries`), so a declared size of -1 (unknown Content-Length) is one value
among others.

`BlobStore` knows no files, counters, access times or mutex: a set of blobs, a limit,
and whole blobs lent to readers. `ImplementsBlobStore` maps it: a blob is in the
store from its rename to its unlink, the store is open while the process is up
(what the scan overlooked is not charged to its limit, what is written again is charged
twice: `overlooked`),
and a `Get` has a blob on loan from its open to its return. A reader sees a whole
blob, of the length it is told, also while the blob is evicted or the process
dies under it.

### NodeLifecycle

A node is its URL; `Trim` is the removal of a trailing slash. `Boot` is `main` up
to the decision whether to fetch; `Fetch`, `Snapshot`, `MergeItem`, `MergeEnd` are
`FetchAndMerge` in `main` and in dashboard handlers (which run once the servers do); `SaveOpen`, `SaveWrite`,
`SaveFails` the truncating write of `nodes.json`, of which a crash in between
leaves a torn file; `StartWatcher`, `WatcherLoad`, `WatcherStore` (`*cfg = *newCfg`) and
`WatcherReload` (`ReloadNodes`) the watcher;
`EditBegin`/`EditEnd` an editor that rewrites `nodes.yaml` in place, `Replace` one
that renames a new file over it. In `WatcherLoad` a file that is being written
reads as any prefix of its mirrors or as an error; a whole one may fail to be read, too,
and its event is gone all the same.

`applied` is a history variable: the configuration the list was last built from. Between
`WatcherStore` and `WatcherReload` it is not the one in memory, and `ConfigInForce` says
that it differs nowhere else. A start reads any table of `Tables` (the console may have
changed it, and the query may fail) and finds the nodes of `nodes.json` or, if it cannot
read the file, none (`Loadable`); `unread` remembers the latter, since such a start fetches
and writes over a file that holds nodes.

`TlsCert` is the rest of a start. A pair of certificate and key is a number, in the
order the pairs were made, and 0 is a file that is absent, empty or cut off.
`UseConfigured`, `UseSaved`, `Generate` are the three branches of `NewRegistryServer`
(`registry.go:65-97`); `SavePair` takes the four steps of `SaveCertAndKey` (truncate
and write, twice), at each of which the save may fail (`SavePairFails`) or the
process die. `YearPasses` makes the pairs made so far expire. The watcher runs
already while the certificate is chosen.

### Scoring and NodeSelection

`Scoring` is the weighted sum of `db.go:339-350`. The code adds floats and
truncates; the module adds exact fractions over `1024 * total` and truncates. The
two can differ by one unit where the exact value is an integer that the float sum
misses from below; no property compares scores more finely than the model orders
them, and equal figures give equal scores in both.

`NodeSelection` lets any goroutine act between any two of the six queries
(`Query`, five times, and `Compare`, which is the sixth and the comparison). An
outcome is the three rows a score reads (latency, speed, success), written in one
transaction or not at all (`Write`). `quiet` is a
history variable: nothing was written, no day passed and no query failed since
this selection began. A query's rows are a `Window`, a set of positions, of which
`Average` takes a sum and a cardinality. `Latencies`, `Speeds` and `MaxTotal` span a
grid of figures for the formula itself, which no few rows would add up to. `Outcomes` are
what `BetterNeverLowers` compares: of two outcomes a node may add to the rows it has, the one
that is no further, no slower and no less a success never leaves the lower score. That is
not to say that a success raises it: a slow success among fast ones lowers the average.

### ConnectTunnel

The handler's steps are those of `handleTransparentTunnel` (`proxy.go:106-134`) after
the refusals of `handleConnect`: `Hijack` (whose buffer, with what the client sent
early, is thrown away), `Dial` or `DialFails`, `Hello`, `Wait` for one value of
`done`, and the deferred `CloseTarget` and `CloseClient`. `Read`, `ReadEnds`, `Write`,
`WriteFails` are `io.Copy` in either goroutine, `Signal` its last statement. TCP keeps
the order of bytes, so a direction is a number of chunks: sent, taken by the proxy,
in hand, received. The two peers may send, end their sending (`Shut`) or close
(`Leave`) whenever they like, and may stop reading (`Stall`): a write to such a side does not
return until it leaves or its connection is closed (`Takes`).

For registry-1.docker.io:443 the handler goes on to `handleRegistryTunnel`
(`proxy.go:136-180`): `HelloRegistry`, then `ReadRequest` and `Serve` in turn, until a
read fails, a request says `Connection: close` (`closing`), the handler panics, or the
upstream it asks does not answer (`hung`). A request that is refused (407, 400) leaves its
connection to the HTTP server. There a chunk is a request, and `speech` says whether the client
sends HTTP or, as clients of port 443 do, TLS.

`DuplexPipe` has no goroutines, no `done` and no buffers: chunks go in at a side, come out
at the other once, or are lost; the handler may cut a connection only when a side has
ended. `ImplementsPipe` maps it (`PassedOn`, `LostOf`): a chunk has passed when the other
side has received it, or, in the tunnel to the registry, when the handler has answered the
request; it is lost when the buffer of `Hijack` is thrown away or its write fails. What is
in hand, or read and not answered, is still in the pipe. The pipe keeps the code's flaw, that one side's end cuts both
directions, and excludes every other loss.

### StorePool and RegistryPull

`SetMaxOpenConns(1)` (`db.go:100`) makes the store a lock that callers do not see. A call
is a chain of statements (`After`): `ComputeScore` takes the connection and gives it
back seven times; `InsertDownloadEvents` keeps it from `Begin` to the end of its
transaction; rows keep it until they are read to their end or closed, so
`GenericQuery` may ask for its count only because `TableSchema` has closed its own.
`Run` is a statement that succeeds, `RunFails` one that does not: it ends the chain,
unless the code does not look at the error (`Unchecked`), and the deferred `Rollback`
or `Close` gives back connection and inserted rows. After a `Commit` that fails `Rollback` is
a no-op; the rows are then taken back by the driver and SQLite.

`RegistryPull` takes a request through its handler: `First`, `AfterToken`, `AfterSelect`
are the orders in which `serveBlob`, `headBlob` and `proxyManifest` ask for a token,
select a node and go upstream.

| Code | Actions |
|---|---|
| `ServeHTTP` (`api.go:53`) | `Request`; `Ping` for what is answered at once; `Malformed` for a panic on a short digest |
| `GetMirrorToken` (`token.go:61`) | `LookUp` under the read lock, `RealmIssues` (stores under the write lock), `RealmRefuses`, `AskCancelled` |
| `SelectBest` (`manager.go:113`) | `Select`, the statements of `StorePool`, `Selected` or `NoNode` |
| `Download` (`multi_source.go:29`) and the upstream of a HEAD or manifest | `UpstreamServes`, `UpstreamFails`, `UpstreamLost` |
| `RecordDownload` (`manager.go:159`) | the transaction of `StorePool`, `Recorded` |
| the rest of `serveBlob`, `headBlob`, `proxyManifest` | `ReplyBody`, `ReplyLost`, `ReplyError` |
| the client goes away | `Leave`: what it cancels is `Cancelled`, nothing for a request inside a registry tunnel (`Tunnelled`; `proxy.go:153` and `167`) |
| `/admin/db/*`, node tests, `ListNodes` | `Console` |

`owed` is a history variable: outcomes the program has begun to record less those
whose transaction failed.

`OutcomeStore` has no statements and no rows in between: a goroutine submits an outcome, has
the store to itself, and commits or fails. `ImplementsOutcomeStore` maps it: those who ask
are the goroutines whose transaction is open or about to begin (`Recording`), the owner is
the holder of the connection, and the table is what a reader would see if one could
(`Visible`): without the rows of an open transaction.

## 3. Runs

| Run | Shows |
|---|---|
| `cache` | nine safety properties of the cache, two goroutines, two blobs, limits 3 and 1, a crash, every file operation may fail; that the cache implements `BlobStore`; that every call returns |
| `lifecycle_safety` | six properties of the node list, two handlers, one edit of either kind, one crash |
| `lifecycle_live` | starts complete (a crash, failing fetches and saves), edits under a live watch take effect, the saved certificate is kept and is the one served |
| `lifecycle_rename` | violation: an edit by rename is never loaded |
| `lifecycle_dashboard` | violation: nodes fetched from the dashboard are in no file |
| `tls_expired` | violation: a start serves a saved certificate whose year is over |
| `selection_safety` | a node is tried if there is one; an undisturbed choice is the best; the formula is in range and monotone, over the rows that arise and a grid of boundary figures; of two outcomes the better never leaves the lower score; with outcomes of tests and other requests, failing queries, a reload and a passing day |
| `selection_rate` | violation: a success rate above 1 |
| `selection_untested` | violation: a node with score 0 is selected |
| `tunnel_live` | no chunk twice, no request answered twice, delivery while a tunnel is open, nothing left behind; that the tunnel implements `DuplexPipe`; both sides send up to three chunks, shut, stop reading and leave at any time |
| `tunnel_transparent` | violation: what a TLS client sends into the tunnel to the registry never gets there |
| `pull` | eight properties of two requests, one of them tunnelled, and the console over one connection: pool, outcomes, tokens, replies, and that abandoned requests and calls of the store end; that the pool implements `OutcomeStore` |

Bounds, and why they are enough for what they are used for:

* `BlobCache`: two goroutines, because all interference is pairwise over one mutex
  (one is inside, one is outside or waits). Blobs of sizes 1 and 2
  under a limit of 3 or 1 give no eviction, one, and a blob that can never fit; a blob
  that is charged again after a failed `Stat` gives evictions of both files and of the
  older one only. One crash: the restart may have another limit and so start over it,
  and its scan may fail. The order of evictions among more files, and a second restart,
  are covered by the theorems. The run is without symmetry, since TLC's symmetry is
  unsound for liveness.
* `NodeLifecycle`: two handlers for merges from two snapshots; one edit in `lifecycle_safety`, which
  against two handlers falls into every step of a merge and of a reload, and two in
  `lifecycle_live`, so that a second falls into the load of the first; one crash, so that a torn
  file meets a restart. One mirror has both spellings, one is written for both
  registries and so stands in the list twice; one feed item is filtered
  out; the table has no row, or one that repeats a mirror of the configuration. In
  `lifecycle_live` the operator's certificate does not load, one crash may fall into
  any step of a save, and one year passes; a second restart meets the same files as
  the first. `lifecycle_safety` has the operator's pair, so that its states are those
  of the list.
* `NodeSelection`: two nodes, one fast and one slow; replies that include an unknown
  length, a failure too quick to be measured (latency 0) and a slow success. Six rows
  per node are two outcomes, so that an average differs from the latest value.
  `selection_safety` has one request: two selections share nothing but the rows each
  outcome adds, and the tests of the run add rows at any moment between two queries.
  The outcomes compared are near and far, failed and successful, of three speeds.
  `selection_rate` has two requests. One day passes, which ends the window of the
  latency (one day) and not those of two and seven.
* `ConnectTunnel`: three chunks per side, so that one is dropped, one delivered and one
  in hand; more would repeat the same loop.
* `Scoring`: every threshold of the formula, one below and one above it.
* `RegistryPull`: two requests, of three kinds and three images, and one console: a
  connection and a cache entry are contended by two, and a third adds a waiter
  only. One of the two is tunnelled, so that one can be abandoned while the other hangs.
  `MaxRequests` bounds requests and tests of nodes, not the calls of the console. One statement stands for the seven of a score (`Candidates`), all of
  which take the connection and give it back. The theorems hold for every number.

Deadlock is checked in every run. `Ended` of `ConnectTunnel` says that a request whose
two peers have left is over.

### Fairness

* Cache: weak fairness for each goroutine inside its call (a goroutine that can run
  is run; a reader given to `Put` ends or fails, which is its caller's part),
  and strong fairness for taking the mutex: `sync.Mutex` switches to starvation
  mode and hands the lock to a waiter after a millisecond. No fairness for
  beginning a call, for crashes or for faults.
* Lifecycle: weak fairness for `main` (its first fetch has a deadline of
  30 seconds, `main.go:64`), for the watcher goroutine, and for an editor that has
  begun to write a file. That a process that died is started again is the work of
  the supervisor (the restart policy of the container); it is part of `MainStep`.
  The steps of `TlsCert` are `main`'s. No fairness for handlers, edits, crashes, years.
* Tunnel: weak fairness for the handler (its dial has a timeout of 10 seconds) and for
  each goroutine (a read or write returns when the connection is closed). None for
  the peers: they may never send, never read and never end; a write to a side that does
  not read is not enabled, so no fairness makes it return. In the registry tunnel a request
  is answered if its client reads, or panics or hangs; neither of the latter has to happen.
* Pull: weak fairness for the steps a request can take by itself, which include those
  that its cancelled context makes possible; strong fairness for a goroutine's
  statements, since `database/sql` hands a connection to its waiters in the order
  they came. None for realms, upstreams, clients and the console: `AbandonedEnds` (of
  requests to the registry's server) and `StoreCallsReturn` hold when none of them ever answers.

## 4. Proofs

Every invariant and every safety property of steps that a passing run checks is proved
here for all values of the constants, and so are the three refinements. The assumptions are those the modules name.

### Folds and sums: `FoldTheorems`, `SumTheorems`

`usedSize` is a sum of lengths, an average a sum of values, and the list a start builds a
fold of `AddNode` over rows and mirrors. The prover cannot use an induction theorem that
takes a predicate, so the induction is done with sets: the finite sets on which two
things differ form a set, and if that is not empty it has a smallest member
(`SmallestSet`, from the library's well-founded orderings), which the step refutes.
`FoldTheorems` has the fold's step and its choice of the next element as CONSTANTs, and
an INSTANCE that names both gives its two theorems for that fold:

* `FoldUnfolds`: the fold over a set is a step on from the fold over the set without the
  element that is chosen. The community modules define a fold by a function chosen to
  satisfy that equation; the theorem is that for finite sets there is one (`FoldsExist`)
  and that those of a set and of a smaller one agree (`FoldsAgree`).
* `FoldInduction`: what is good for the base and kept by each step is good for the whole,
  where *good* is a set of pairs of a position and a value.

`SumTheorems` is the instance for addition: a sum is a natural number, depends on its
terms only, any term may be taken out or added, and terms in order have sums in order.

### The blob cache: `BlobCacheProofs`

From `CacheAssumption` (the types of the constants) alone unless said otherwise, for any
number of goroutines, blobs, sizes, limits and crashes:

| Theorem | Statement |
|---|---|
| `TypeCorrect` | `Spec => []TypeOK` |
| `LockedSectionExclusive` | `Spec => []MutualExclusion` |
| `AccessTimesCurrent` | `Spec => []AccessIsCurrent` |
| `CountMatchesDisk` | `Spec => []CountExact` |
| `UsedSizeMatchesDisk` | `Spec => []UsedSizeExact` |
| `TmpFilesOwned` | `Spec => []NoTmpLeak` |
| `EvictionInOrder` | `Spec => EvictsOldestOnDemand` |
| `HitsAreWhole` | `Spec => []HitIsWhole`, if a digest always comes with the same bytes |
| `LimitRespected` | `Spec => PutWithinLimit`, if declared sizes are true |
| `CacheImplementsStore` | `Spec => ImplementsBlobStore`, if both |
| `InductiveInvariant` | `Spec => []IInv`, from which the others follow |

The inductive invariant has a part per reason the code is right:

* `LockInv`: the mutex names the one goroutine inside `Put`, so what that
  goroutine has seen of the disk (its blob is absent, later present) stays
  true; `MutualExclusion` alone does not say what its holder may rely on.
* `LruInv`: no file sorts before its own writing, of those that the scan has passed or a
  `Put` has accounted for. Files that the scan has yet to see have no place yet, and one
  just renamed may still have the entry of an earlier copy.
* `CountExact`, over the files counted so far; a lemma (`CountChange`) carries it from
  cardinalities to increments of `count` and `strayFiles` together.
* `ScanInv`: a process that is down has counted nothing; during a scan nothing was counted
  twice yet, and the files still to be seen have no access time.
* `UsedInv`: the same for `usedSize`, and, what makes it inductive, that the length `Put` is
  about to account for is that of the file it renamed. Each step grows the sum by one
  term (`UsedGrows`), shrinks it by one (`UsedShrinks`) or leaves its terms (`UsedStays`).
* `PutInv`: what an eviction still lacks is `usedSize + size - maxSize`, and once it
  is done the room is there until the accounting; every file holds bytes somebody
  delivered for its digest.
* `TmpInv`: a temporary file that is no orphan belongs to a `Put` that writes.

`CacheImplementsStore` maps each step: a rename to `InsertBlob`, an unlink to `DropBlob`, the
open of a hit to `Lend`, its return to `GiveBack`; all the others stutter
(`RestStutters`). `InsertBlob` asks for room, and there its sum over the blobs held, less what
was overlooked, is the cache's `usedSize` (`SameTotal`); that takes true sizes, and one length
per digest. A rename over a file that is there maps to `ChargeAgain`. Without
either assumption the refinement does not hold, as section 5 says of a declared size of -1.

### The node list, nodes.yaml, nodes.json and the certificate: `NodeLifecycleProofs`

For any number of handlers, mirrors, edits, crashes and years, and for any configuration,
one that names a mirror twice included:

| Theorem | Statement |
|---|---|
| `TypeCorrect` | `Spec => []TypeOK` |
| `UrlsAddedOnce` | `Spec => []NoDuplicateUrl` |
| `ConfigAlwaysInForce` | `Spec => []ConfigInForce` |
| `MirrorsDoNotLinger` | `Spec => []NoGhostMirror` |
| `DiskPairServed` | `Spec => []PairOnDiskIsServed` |
| `PairsAreKept` | `Spec => PairKept` |
| `NodesAreKept` | `Spec => NeverClobbers` |
| `EditsAreNotLost` | `Spec => []NoEditLost` |

* `ListInv`: the list `Extends` the configuration it was last built from (`applied`), which is
  that it begins with it and that nothing that follows is in the list before; that is the one
  in memory unless the watcher is between its two steps (`reloading`); every URL has one of the four
  sources `NoGhostMirror` names; what a merge still holds comes from the site; and a
  `nodes.json` that is not whole holds nothing. `AddNodeExtends` carries it over one node,
  `AddAllExtends` and `ConfiguredExtends` over the folds of a start and a reload
  (`FoldInduction`). A step that replaces or writes a file leans on `FileInv` and `EditInv`.
* `CertInv`: throughout a save the key's file holds nothing until its last step, so that
  the files load only before a save and after it. A mismatched pair never arises.
* `FileInv`: while `main` is in its first fetch, `nodes.json` holds no nodes, or this process
  could not read them.
* `EditInv`: before the watcher runs nothing waits for it, and the text `main` has read is
  in force unless `missed`; once it runs, a watch that is gone is remembered in `missed`.

### The score: `ScoringProofs`

* `ScoreRange`: a score is 0 for a node whose latest latency and speed are both 0 and from
  1500 to 10000 for every other, for all latencies, speeds and counts with successes at
  most the total. `selection_rate` shows that the code does not keep that last condition.
  The argument is division by a bounded quotient (`QuotientBetween`) over bounds of the
  three products.
* `ScoreMonotone`: a node that is closer, faster, more reliable or no longer failing does
  not score lower, for all figures, also where the counts disagree. The two sums have
  different denominators; `TermsInOrder` compares them crosswise, and what is rounded
  down keeps that order (`QuotientsInOrder`).

### The choice of a node: `NodeSelectionProofs`

From `SelectionAssumption`, for any number of requests, nodes, rows, days, reloads and
failing queries:

| Theorem | Statement |
|---|---|
| `SelectionTyped` | `Spec => []TypeOK` |
| `NodeIsTried` | `Spec => []SomeNodeIsTried` |
| `QuietChoiceIsBest` | `Spec => []QuietSelectionIsBest` |
| `ScoresAreInRange` | `Spec => []ScoreInRange` |
| `GettingBetterNeverLowers` | `Spec => []BetterNeverLowers` |

* `SelectInv` adds to the types that a request between two queries has a candidate to ask
  about, and that one outside them has read nothing. Types alone are not inductive: the
  head of `todo` must exist for its rows to have a score.
* `Chosen`: the best so far is a candidate, or there is none and the best score is 0, which
  the next score reaches because it is a natural number (`ScoreIsNatural`) and the
  comparison is `>=`. With `>` the proof fails at that step, as a selection among nodes
  that all score 0 would.
* `Undisturbed`: while it is quiet, the fields read so far are what the queries would
  answer now, the others are 0, and no candidate that was scored is above the best. A
  step of anybody else leaves a request `Alone`, and quiet only if no row was written
  and no day passed (`OwnStepOrAlone`).
* The last two theorems need no more than types. `FiguredFields` is that counts asked
  without a break agree (the successes are a subset of the events).
* `GettingBetterNeverLowers` compares two histories that differ in the last three rows. They
  have the same types and days, so every window is the same set of positions
  (`OutcomeRows`), and the values in it are in order row by row (`RowsAsGood`): a sum of
  terms in order is in order (`SumInOrder`), and so are the averages, over the same count of
  known values, since an unknown value compares with itself only (`AverageInOrder`). The
  latest values are both 0 or both not (`LatestTogether`) or improve. The rest is
  `ScoreMonotone`.

### The tunnel: `ConnectTunnelProofs`

For any number of chunks:

| Theorem | Statement |
|---|---|
| `TunnelTypeCorrect` | `Spec => []TypeOK` (nothing is delivered that was not read, and nothing twice) |
| `SignalsNeverBlock` | `Spec => []SignalNeverBlocks` |
| `TunnelImplementsPipe` | `Spec => ImplementsPipe` |

* `TunnelInv` adds to the types that a chunk is in hand exactly when a write is due
  (`HandInv`), and that values in the channel and goroutines alive are at most two
  together (`RoomInv`).
* The refinement needs two more parts. `LineInv` says which connections are open at which
  step of the handler: a chunk is lost before the 200 only while no target is connected,
  and the client's connection is the last to close. `EndInv` says that a goroutine ends,
  signals and so lets the handler close only after a side has ended: that is what makes
  the close of the target's connection a `CutTarget`. It holds because a copy ends
  for no other reason (`AtEnd`): neither connection has a deadline.
* Each part of the program has a lemma that maps its steps: those of a transparent tunnel
  (`TunnelPipe`), of a registry tunnel, of a goroutine and of a side.

### A pull and the store's connection: `RegistryPullProofs`

For any number of requests, consoles, images and candidates, from
`PoolAssumption` and `PullAssumption`:

| Theorem | Statement |
|---|---|
| `PullTypeCorrect` | `Spec => []TypeOK` |
| `ConnectionIsSound` | `Spec => []PoolSound` |
| `OutcomesAreWhole` | `Spec => []OutcomesWhole` |
| `TokensFit` | `Spec => []TokenForImage` |
| `OutcomesOnce` | `Spec => []EveryOutcomeOnce` |
| `ServedArePassedOn` | `Spec => ServedIsPassedOn` |
| `StoreTakesWholeOutcomes` | `Spec => ImplementsOutcomeStore` |

`PoolSound` is nearly inductive; `OutcomesWhole` is not, since within a transaction the
four counts differ. The invariant says by how much at each statement, and that
`durable` has four equal counts, which is what a rollback goes back to. `TokensFit` needs
that the cache holds under an image that image's token or none. `OutcomesOnce` adds the
step from a set of recorders to its cardinality, a lemma of its own. `ServedArePassedOn`
has an invariant apart, `ServedInv`: an answer served is in hand only while the handler
records or replies.

`StoreTakesWholeOutcomes` first shows that what is visible is always what is durable
(`DurableIsSeen`): rows differ from it only within a transaction. Then each statement maps to
a step of the abstract store by what it does to the connection: one that keeps it to `Take`,
one that returns it to `GiveBack`, the commit to `Commit` (the invariant's count of rows at
the commit is one more of each of the four), a failure within a transaction or at its begin
to `Fail`; all others stutter (`RunMoves`, `FailMoves`). That a failing insert leaves the
store to the next goroutine rests on `PoolSound`: the one that fails has the connection.

### Only model-checked

Liveness, since fairness and ENABLED are beyond the prover: `CallsReturn`, `BootCompletes`,
`WatchedEditTakesEffect`, `NothingLeaks`, `OpenTunnelDelivers`, `AbandonedEnds` and
`StoreCallsReturn`. The runs that expect a violation have nothing to prove.

## 5. Where code and documents disagree

Each shown by a run (`PROJECT.json`, "findings"):

* `watcher.go:24`: the file is watched, not its directory, so the first edit by
  rename ends hot reload.
* `proxy.go:32`: the admin API in service has no save function.
* `registry.go:76`: a saved certificate is used again whatever its date.
* `proxy.go:157`: the tunnel to the registry is not transparent; the proxy reads HTTP
  from a client that speaks TLS.
* `db.go:302-308`: two counts at two moments make a rate above 1.
* `manager.go:139`: the comment at line 112 says only tested nodes with a score above 0 are
  considered; the comparison is `>=` from 0, so others are selected. That is what makes
  `SomeNodeIsTried` hold, and what a fresh install needs.

Seen while modelling, within the same models and without a run of their own:

* `cache.go:41` and `49`: what a start cannot read it does not count, and the cache may take
  more than its limit of disk until the next start; `cache.go:96`: a `Stat` that fails has a
  blob charged twice. `UsedSizeExact`, `CountExact` and `BlobStore` say by how much.
* `persist.go:57`: a `nodes.json` that is there and cannot be read counts as empty
  (`main.go:62` ignores the error), and the first fetch saves over it. `NeverClobbers`
  excludes such a process (`unread`).
* `watcher.go:33`: a `Load` that fails has taken its event; until the next edit the old
  configuration stays. `missed` marks these states.
* `proxy.go:131`: neither connection of a tunnel has a deadline. While one side does not read,
  the goroutine that writes to it waits, and does not see that the other side has left.
  `NothingLeaks` admits this (`Held`).
* `cache.go:103`: room is made for the declared size and used is charged with the real
  one, so a declared size of -1 (unknown length) takes the cache over its limit;
  `PutWithinLimit` and `LimitRespected` therefore speak of true sizes.
* `proxy.go:133`: a tunnel ends for both directions with the first that ends: a client
  that only ends its sending loses the rest of the answer. `OpenTunnelDelivers` stops
  at `Ending`.
* `proxy.go:153`: a request of the registry tunnel has the tunnel's context, so that an
  upstream that never answers holds it after its client has left. `NothingLeaks`
  admits `hung`, and `AbandonedEnds` speaks of the other requests.
* `multi_source.go:56`: a client that leaves is recorded as a failure of the node, and
  `multi_source.go:72` a success before the body has come.
* `blob.go:17` and `blob.go:101`: a digest shorter than 19, or a URL shorter than 60,
  panics; `net/http` or `Recoverer` answers for it, in a registry tunnel nobody does,
  and the connection ends.
* `token.go:81`: a token is cached for ever.
* `manifest.go:79-96` follows a redirect that `http.DefaultClient` has followed already.
* `manifest.go:23` asks docker.1ms.run for images of ghcr, too, and without a token.
* `blob.go:118`: a HEAD whose upstream fails is a 404, a GET a 502.
* `registry.go:60`: without a directory `data` the certificate goes to /opt/pullfusion/data
  and its key to a directory that does not exist. `store.Open` makes `data` before that,
  so the model has one directory.
* `manager.go:199`: a reload keeps the configuration's nodes and no others; those of
  `nodes.json` and of the database come back with the next start. `docs/deployment.md:201`
  names both as ways to make a change effective.
* `proxy.go:112`: what a client sends before the 200 may be dropped; `dropped` counts it.
* An edit in place during `main`'s first fetch (`main.go:64-76`) is read by nobody:
  the watcher starts later and does not look at the file. `missed` marks these
  states, and `WatchedEditTakesEffect` excludes them.
* `persist.go:33` says configured nodes are not persisted; `Save` writes every node,
  so a mirror taken out of `nodes.yaml` returns from `nodes.json` at the next start.
  `NoGhostMirror` therefore admits persisted nodes.
* `AddNode` (`manager.go:83`) compares spellings, the fetcher (`fetcher.go:112`)
  trimmed ones: after a reload a mirror may be in the list with and without slash.
  `NoDuplicateUrl` is about spellings.
* `CHANGELOG.md:17` announces a circuit breaker after three failures; no code counts
  failures in a row.

## 6. Abstractions

* A crash is one of the process: the operating system keeps what was written.
* The data race on `*cfg = *newCfg` (written by the watcher while handlers read
  it, without a lock) is not modelled; `cfg` is replaced in one step, and the list in
  another. The handlers of `NodeLifecycle` do not read `cfg`.
* One registry's list; what a start reads of the `nodes` table is any of `Tables`, since the
  console may change it between starts and its query may fail. As its column is UNIQUE
  (`db.go:114`), no URL is repeated.
* A start whose `config.Load` fails exits (`main.go:39`): it is no start, and the next one is
  the supervisor's. `BootCompletes` is about starts that can load their configuration.
* Averages are rounded down to integers; latencies and speeds are naturals.
* The editor, inotify and the status site are external: modelled from what
  `watcher.go` and `fetcher.go` expect of them. A watcher that cannot be created
  (`main.go:77` goes on without it) is left out.
* A blob is its digest and a length; two deliveries of a digest differ by length.
* `RegistryPull` has a store that could be opened, and no values in it: statements and
  rows are counted. `NodeSelection` has the values, and the store that could not be
  opened. It counts the rows of downloads; the single rows of probes and of the console are
  one statement each and not counted. A body is passed on whole or not; where a copy breaks off, the handler
  returns as it does at the end.
* The key and the certificate are made in one step that does not fail (`GenerateSelfSigned`
  fails only with the system's randomness). Years pass between starts, not within one.

## 7. Not modelled, and the plan

`PROJECT.json` lists every component with its status.

Left out for good:

* Metrics, middleware, version and the web pages: nothing in the program reads what they
  keep. The proxy dialer, `Resolver`, `PersistNodes`, `saveToDB`, `GetStats` and the five-minute
  loop of the speed tester have no caller; main's own admin API, and with it the
  download log and `SetReloader`, is routed nowhere.
* `config.go`'s defaults and environment overrides: assignments without state.
* The framing of answers and the contents of bodies.

What could be added:

1. Values in `RegistryPull`: `NodeSelection` as the selection of each request, so that the
   two share one table; its state space needs a smaller `NodeSelection` first.
2. The orderly shutdown: `Shutdown` waits 30 seconds for handlers; hijacked connections
   are not waited for.

A run is kept for each distinct question, and the list is kept short.
