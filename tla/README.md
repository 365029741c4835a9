# A formal model of dhcp-radius-server

TLA+ modules, TLC configurations and TLAPS proofs for the RADIUS server of this
repository.  File and line references are to the repository; `clientdb/store.go:124`
is line 124 of that file.

    tlasany M.tla                         # parse
    tlc -config X.cfg MCx.tla             # model-check, with the .cfg of the table below
    tlapm ClientDBProofs.tla              # check proofs

## 1. The system

A NAS (a BRAS or DHCP server) sends RADIUS requests over UDP.  `PacketServer` reads and
deduplicates them, `radius.Server` turns each into an event, asks a *processor* for a
decision, answers, and reports the decision back to the processor.  There are two
processors: `api` asks an HTTP backend, `script` runs Lua in the process, over the
tables `clientdb` holds in memory.

     NAS --UDP--> PacketServer --handler--> radius.Server --Get--> api.API ----HTTP--> backend
                                                |                  or
                                                |                 script.Processor -> Engine (pool of Lua states)
                                                |                                        | getBind, getDeviceByMac
                                                +--SendPostAuth, SendAcct--> queues      v
                      HTTP source --reload--> clientdb.Store (snapshot of bindIndex) <---+
                      Redis pub/sub --BindEvent--^

| component | state it keeps | operations | interacts through | what is hard | what makes it correct |
|---|---|---|---|---|---|
| clientdb store (`clientdb/store.go`, `live.go`) | published snapshot, `reloading`, `pending`, the stop channel | New, reload, subscribeRedis, ApplyBindEvent, Close, lookups | HTTP, Redis, `atomic.Pointer`, `pendingMu`, gauge | events racing a reload; a reload that fails half-way; lossy pub/sub; a snapshot replaced under a goroutine that patches it | scripts never see a partial snapshot; no update lost or reordered beyond what Redis loses; a reload heals what was lost |
| bind index (`clientdb/bindindex.go`) | byID and four secondary maps per source, `mu` | put, remove, FindBinds, GetBindByID | `mu` (RWMutex) | the five maps change one after the other; buckets are edited in place; long runs of updates | maps agree; a lookup answers as of one instant, in put order; nobody starves |
| packet server (`third_party/layeh-radius/server-packet.go`) | in-flight keys, `activeCount`, listeners, `shutdownRequested` | Serve, per-packet goroutine, Shutdown | socket, handler | retransmissions, identifier reuse, Shutdown racing Serve | one handler per in-flight key; Shutdown returns when, and only when, all handlers have |
| radius handler (`radius/handler.go`, `radius.go`, `events/`) | `classID` | serve, respond | processor, packet writer | silent drop versus reject; write failures; retransmissions get new classes; restarts | post-auth tells what the NAS was sent; accounting leads back to it; a NAS that keeps asking is answered |
| API processor (`api/api.go`) | sources (alive, requests, disabledAt), answer cache, queues | Get, fetch, SendPostAuth, SendAcct, the ticker | HTTP, `mu`, gauge | concurrent misses, stale answers, late failures, revival | answers bounded in age; a failed source rests for its timeout and comes back |
| event queues (`api/api.go`, `script/processor.go`) | bounded channels | send without blocking, reader goroutines | channels, HTTP or the engine | bursts, slow readers | never block the handler; what is queued is handled once, everywhere |
| script engine (`script/engine.go`) | pool of Lua states | Authorize, Accounting, PostAuth | channel, contexts | timeouts while waiting, while running, and on return | states are neither lost nor shared nor cancelled by an earlier call |
| packet encoding (`radius/redback`, `radius/extraattr.go`, `load_testing/packet.go`) | the attributes of a packet | Add, Get, Gets, Lookup, Set, Del of 193 attributes | byte layout | lengths at 8-bit limits, broken input, loops that edit what they walk | what is stored is read back; reads stop at the first broken part |
| RADIUS client (`third_party/layeh-radius/client.go`) | one connection, a ticker, a context | Exchange | socket, context | the deadline against a blocked read and the ticker | returns at the deadline and calls it that |
| load generators (`tools/radbench`, `load_testing`) | identifier slots, timers, counters | send, expire, readLoop; worker, record | sockets, `mu`, atomics | an identifier's next user meets late answers; counters without a lock | a request is answered or times out, never both, never lost; the report adds up |
| replay tool (`tools/pcapreplay`) | queues per identifier, the pairs | matchPairs, replay | channels | identifiers that come round; who closes the results | an answer is compared with its own request; one result per pair |
| line parser, MAC addresses, script functions, example scripts, metrics, configuration, logging, main | none that changes later | - | - | - | not modelled, see section 5 |

The hazards of each, line by line, are in `PROJECT.json`.

## 2. Modules

| module | models | role |
|---|---|---|
| `BindTable` | what one bind source promises | abstract: a sequence of binds, atomic put, delete and lookup |
| `BindIndex` | `bindindex.go`, the switch of `FindBinds` | data structure as operators, and a state machine of atomic puts and removes |
| `BindIndexLock` | `applyBindEvent`'s and `FindBinds`' critical sections | detailed: one step per map access; implements `BindTable` |
| `ClientDB` | `store.go`, `live.go` | reload, live updates, gauge, start and close |
| `PacketServer` | `server-packet.go` | Serve, its readers, one goroutine per datagram, Shutdown |
| `RadiusExchange` | `handler.go`, `radius.go`, `events/` | a NAS, the network, the handler and the processor's verdict, across restarts |
| `APIBackend` | `api.go`: Get, fetch, the ticker | sources and the answer cache in time |
| `EventDelivery` | what `SendPostAuth` and `SendAcct` promise | abstract: accepted events are tried at every address once |
| `EventQueue` | the queues of `api.go` and `script/processor.go` | detailed: channel and workers; implements `EventDelivery` |
| `ScriptEngine` | `engine.go`: `NewEngine`, `call` | the pool of Lua states under timeouts |
| `ScriptProcessor` | `script/processor.go` | composes `EventQueue` and `ScriptEngine` |
| `RedbackVendor`, `RedbackDictionary`, `RedbackPacket` | `radius/redback/generated.go`, `extraattr.go`, `load_testing/packet.go` | the vendor helpers, the attributes, a packet built or received |
| `RadBench`, `LoadTest`, `RadiusClient`, `PcapReplay` | the command-line tools and the client | - |
| `ClientDBProofs`, `BindIndexLockProofs`, `PacketServerProofs`, `RadiusExchangeProofs`, `APIBackendProofs`, `ScriptProcessorProofs`, `RedbackProofs`, `ToolsProofs` | - | theorems, see section 4; `BindIndexLockProofs` holds those of `BindIndex`, `ScriptProcessorProofs` those of `EventQueue` and `ScriptEngine`, `ToolsProofs` those of the client and the three tools |
| `MC...` | - | instances for TLC |

`BindIndexLock` extends `BindIndex` and shows that a published index behaves like an
atomic table.  `ClientDB` uses that result: its bind sources are functions from record
IDs to versions, patched in one step.  `RadiusExchange` uses what `PacketServer` shows, one
handler per key, and takes the processor as any verdict; `PcapReplay` and `LoadTest` use
that an exchange returns (`RadiusClient`).

A comment `Mutant of X` marks a variant of `X` with a plausible bug.  `PROJECT.json` pairs
each with the property it breaks.  Invariants a run checks are conjunctions of named parts
(`ServerInv == TypeOK /\ OneHandlerPerKey /\ CountIsExact`), each part with its own comment.

### BindIndex

The five Go maps are a record `[byID, bucket]`; `bucket` joins the four secondary maps,
whose keys are tagged with the map they belong to (`ByMac(m)`, ...).  A key is in
`DOMAIN bucket` exactly when the Go map has the entry, so "the maps do not grow" can be
said (`NoEmptyBucket`).  MACs are values that are already normalized: the separator `|`
never occurs in one, so tuples stand for the concatenated keys.  `eachKey`, `remove`,
`put` and `FindBinds` follow the functions of the same names; `put` is `remove` followed
by `insert`.  `Upsert` and `Delete` are what one line of `loadBinds` or one live update
does to an index.  `order` is a history variable: the binds in put order.  `Matches` is
the meaning of a query as the comment of `FindBinds` states it, independent of any
index, and `LookupsFollowTable` compares the two.

### BindIndexLock

A writer (subscriber or reload goroutine) walks idle -> wantLock -> drain -> removeID ->
removeKeys -> insertID -> insertKeys -> unlock, a reader (a Lua worker) idle -> wantLock
-> lookUp -> copy.  Each map access is a step.  `sync.RWMutex` is modelled by its
documented behaviour: a writer that has claimed `mu` keeps new readers out and enters
when the readers inside have left; on Unlock the readers that waited enter before the
next writer.  `DropFrom` and `AddTo` are one access of a secondary map.  `CopyBind` re-reads the bucket's array, as the Go slice header shares it
with `slices.DeleteFunc`.  The refinement mapping is `table <- order, answer <- result`:
an update takes effect when it unlocks, a lookup when it returns.  `BindTable` says what an
answer is by the property that determines it (`Selects`): all matching binds, each once, in the
order of the table.

### ClientDB

| TLA+ | Go |
|---|---|
| `truth`, `Change`, `healthy`, `Toggle` | the external system and its HTTP source (environment) |
| `channel`, `Publish`, `lost` | the Redis subscription: ordered, may lose any event, keeps no history |
| `heap`, `snap`, `Slots` | snapshots on the heap and `Store.snap`; a slot nobody holds is reused |
| `reloading`, `pending` | the fields guarded by `pendingMu` |
| `goroutine["reload"]` | New's first call of `reload`, later the ticker goroutine |
| `goroutine["subscriber"]` | the goroutine of `subscribeRedis` |
| `fetched`, `todo`, `queue` | locals of `reload`: `binds`, the range over it, `pending` in the deferred function |
| `gauge` | `rad_clientdb_binds_count` |

A record's content is the number of the change that produced it, so that newer and older
contents differ.  Steps end where the code gives other goroutines a chance to interfere:
`ApplyBindEvent` (test and append under `pendingMu`), `LoadCurrent` (the pointer), `Patch`
(under `mu`), `PublishCount` (after the unlock); in the reload, each source's fetch
(`LoadDevices`, `LoadBinds`), the pointer swap, each count and each gauge, the deferred
function's critical section (`TakePending`) and each replayed event.  An HTTP source
answers with its state at the moment of the step.  Events are upserts, deletes, events
that fail validation ("invalid") and payloads that are not JSON ("garbage").

The model assumes that `redis.addr` is set; without it there is no subscriber and the
store is the reload goroutine alone.  The ping goroutine (a gauge nobody reads) and the
error counters are left out.

### PacketServer

One listener.  `datagram[d]` follows a datagram from the socket's queue through its
goroutine (claim of the key under `mu`, handler, release, end); `reader` and `serve` are
the loop of `Serve` with one or several readers, `shutdown` the caller of `Shutdown`.
`muFree` tells the steps that need `mu` apart from those that do not.  `activeAdd` and
`activeDone` are the atomic counter with the channel closed at -1; a second close is the
state `panicked`.

### RadiusExchange

An exchange is a login or its accounting.  The NAS sends, repeats and gives up; `copies` is
the network from it, `sent` and `lostAnswers` the way back.  A handler runs per key, from
`Deliver` (which drops a copy while the key is taken) over the processor's verdict, `respond`
and the report to `Return`.  `Restart` kills the handlers and sets `classID` to the clock.
Verdicts are what `events.AuthResponse` or the kind of an error can be, as far as the handler
looks: addresses valid, malformed or absent, pools valid, too long for the attribute or none,
`REJECT`, `INVALID`, `ERROR`.  `Told` is what `respond` encodes of a grant; what does not fit it
leaves out, and sends the accept without.

### APIBackend

A request is fresh from the cache, or asks a source, gets an answer as of some moment, and
stores it; a failing request disables its source under `mu` and sets the gauge afterwards.
Time is in ticks: ages of the entry and of answers in flight, and the time since a source was
disabled, each up to the bound above which nothing tells them apart (`MaxAge`).

### EventQueue, ScriptEngine, ScriptProcessor

A worker takes an event and posts it to the configured addresses one after the other; a
script is the case of one address.  In `ScriptProcessor` a post is a call of the engine:
`Work` takes an event and begins the call, `Done` follows its return.  A call walks
waiting -> holding -> running -> leaving -> returning; its context may expire at any point.

### Redback

A vendor attribute is `[vendor, data]`, `data` a sequence of bytes; the five helpers of
`generated.go` work on a list of them byte by byte and return a status (`ok`, `error`, `panic`,
`hang`) with the list.  A Go loop is a round, its body as a function of the loop's state: an inner
loop, over sub-attributes, ends with `Until` in the state that the body leaves as it is; an outer
one, over the list, ends with `Through` after at most as many rounds as the list is long.
`RedbackDictionary` gives every generated attribute its type and its
encoding, which is all that distinguishes the 193 families of accessors.  `RedbackPacket`
builds packets with the accessors, `setExtraAttribute` and `addVendorSub`, and keeps in
`stored` what the callers were told is in them; or begins with a received one.

### Tools

`RadBench`: a slot per identifier and socket, freed by the answer, the timer or a failed
write; a failed write is a count besides answered or timed out.  `LoadTest`: one step per atomic
access of `Stats.record`, and one for the wait for the ticker.  `RadiusClient`: the caller
of `Exchange`, the goroutine that sends again, the context, the ticker and the connection.
`PcapReplay`: a capture is any sequence of requests and answers; `strayed` are the identifiers
whose answers did not come in the order of their requests, where first-come matching is only
a heuristic, as `pcapreplay/main.go:32-39` says itself.

## 3. Runs

| run | instance | checks | distinct states |
|---|---|---|---|
| `bind_index` | 3 records, 2 MACs, 1 device, ports 0 and 7 | `IndexTypeOK`, `IndexInv`, `LookupsFollowTable` | 3 481 |
| `bind_index_lock` | 2 writers, 1 reader, 2 records that share a port, 3 binds, 2 queries | `LockInv`, `ImplementsTable`, `EveryLookupAnswered`, `EveryUpdateApplied` | 149 364 |
| `store` | 2 sources, 1 record each, 2 changes | `StoreInv`, `DeferralInv`, `NoUpdateLost`, `AllOrNothing`, `DeferredAreTaken`, `Healed`, `CloseStops` | 345 588 |
| `packet_server` | 2 readers, 3 datagrams under 2 keys, one not authentic | `ServerInv`, `NilMeansQuiet`, `ShutdownEnds`, `ServeEnds` | 93 799 |
| `exchange` | a login and its accounting under one identifier, 1 retransmission, 2 faults, 1 tick | `ExchangeInv`, `AnswersReported`, `AccountingInv`, `EventuallyAnswered` | 435 642 |
| `api` | 2 sources, 2 requests at a time, 3 in all, leases 1 and 3; a source is back after a tick | `CacheInv`, `EvenUntilFailure`, `OutageShows`, `LeftAlone`, `Revived` | 540 432 |
| `processor` | 4 events, capacity 2, 2 workers, 1 or 2 addresses; 3 callers, 2 states | `QueueInv`, `ImplementsDelivery`, `EngineInv`, `EveryCallReturns`, `WorkersFindState` | 205 018 |
| `redback` | 193 attributes in 1 operation, 4 in 3; received attributes of up to 7 bytes | `WritesReadBack`, `ChangesAreSafe`, `ReceivedIsRead` | 76 340 |
| `tools` | one tool at a time, see `MCTools` | `BenchInv`, `LoadInv`, `ClientInv`, `ReplayInv`, `ToolsEnd` | 134 973 |
| `last_event_wins` | 1 source, 1 record, 2 changes | `LastEventWins`: violated | - |
| `gauge_current` | 1 source, 1 record, 2 changes | `GaugeCurrent`: violated | - |
| `refusals_sent` | 1 login, 1 fault | `RefusalsWereSent`: violated | - |

What they show:

* **Index.** Whatever the history, lookups return exactly the matching binds, in put
  order, also when several binds share a port and one of them moves away or loses its
  device.  Three records are enough for a bucket to have a first, a middle and a last
  bind; two MACs, a device and a port give every secondary map a key a bind can leave.
* **Critical sections.** Updates and lookups look atomic.  Two writers are the two
  goroutines the code has; one reader is enough because readers do not affect each other
  except through `readers`.  The binds are chosen so that one update takes a record out of
  three maps while the other record stays in them.
* **Updates and reloads.** `StoreInv` is the inductive invariant of section 4; TLC checks
  it here before it is proved.  `NoUpdateLost` is the main result about `ApplyBindEvent` and
  `reload`: when nothing is in flight, Redis has lost nothing and no older event was replayed
  over a newer one, the snapshot equals the external data.  In particular an event applied
  directly to a snapshot that a reload is about to replace is harmless: the test of
  `reloading` came before the reload set it, so the reload fetches after the change.  Two
  sources make a reload that fails half-way possible; one record each is enough since records
  do not interact.  `AllOrNothing`: such a reload publishes nothing.  `Healed`: once the
  external system is quiet and the HTTP source works and is not empty, scripts and gauges are
  right for good, whatever was lost before.
* **Packets.** `activeCount` is the number of goroutines not yet through, on every path,
  so that a `Shutdown` that returns nil has waited for all of them (`NilMeansQuiet`), also for
  a datagram a reader had taken but not yet dispatched.  Three datagrams are a request, its
  duplicate and a request of another client at the same time.
* **Exchanges.** A NAS may repeat a login while the first copy is handled, after its answer
  was lost, or after a restart, and takes whichever accept arrives.  Its accounting
  nevertheless comes under a class post-auth has told of, or is about to, or would have but
  for the restart.  Accounting shares the login's identifier, since both use one listener:
  duplicate suppression then drops a request that is no duplicate, and its retransmission is
  answered all the same (`EventuallyAnswered`).  The verdicts are a valid address, a pool name that
  is too long, nothing and an error.  A report of a grant names what the NAS was told, unless it
  could not be encoded: that is the whole of what is excepted (`AddressAsReported`).  The theorem
  is for every verdict, addresses that do not parse and pools of both kinds included.
* **Backends.** Two requests at a time are what it takes for a slow answer to overwrite a
  newer one, and for a failure to arrive after its source was revived.  The latter happens
  because a request may last a tick and a source is back after one; the late failure
  disables it again, with a new timeout, and `LeftAlone` and `Revived` hold of that one too.  `AgeBounded` gives the
  age of the data a NAS can be told: a fresh one is at most a request's time older than the
  entry's lease.  `OutageShows`: when no request is on its way, no gauge says alive of a dead
  source.
* **Queues and scripts.** Four events against two workers and a capacity of two give every
  fill level and a drop.  A worker finds a free Lua state at once because there are as many
  states as workers and every path of a call gives its state back (`WorkersFindState`);
  with more callers than states, as for authorization, calls wait and still return.
* **Attributes.** The instance takes lengths at the limits (0, 247 and 248 bytes), tags
  at theirs and, for received packets, every content over bytes that are a type, a too small, a
  fitting and a too large length.  `ChangesAreSafe` says exactly when `Set` and `Del` of the
  generated code do what their names say: `Set` of an absent attribute is an `Add`, of a
  stored one it panics with the packet as it was; `Del` hangs at a foreign attribute and only there.
* **Tools.** Three requests share one identifier, so that a late answer meets the next but
  one user; two paced workers run past a quota of two; five datagrams hold two transactions with a
  retransmission.

### Where code and documentation disagree

* `LastEventWins` fails.  `reload` clears `reloading` before it replays the deferred
  events (`clientdb/store.go:124-133`).  Trace: event 1 of a record is deferred; the reload
  takes it and clears the flag; event 2 of the same record arrives, is applied at once; the
  reload replays event 1 over it.  Scripts use the older data until the next reload.
  `doc/REDIS_BIND_EVENTS.md:120-125` promises that the event that arrives last is in force.
* `GaugeCurrent` fails.  The gauge is set after the count was taken and `mu` released
  (`clientdb/live.go:171-173`, `store.go:161-163`), so that a stale count can be the last one set.
  The help text of the metric says "currently loaded" (`prom/metrics.go:91`).
* `RefusalsWereSent` fails.  Results of `respond` for an Access-Reject are ignored
  (`radius/handler.go:100, 107`): a rejection whose write failed is reported as `REJECT` or
  `INVALID`.  `script/examples/post_auth.lua:1-4` says `post_auth` is called after the answer was
  sent, rejections included, and keeps `ERROR` for "the NAS had no answer".

Seen while modelling, without a run of their own:

* An address that does not parse, or a pool name of more than 253 bytes, is logged and skipped
  (`radius/handler.go:151-157`): the Access-Accept goes out with neither, and `post_auth` is told of the
  grant, though `README.md:221` says it is told of the final answer sent to the NAS.
* A `Shutdown` between the registration of the listener and Serve's own count
  (`server-packet.go:117-130`) closes `lastActive`; the end of Serve closes it again and panics
  (`panicked` in `PacketServer`, reachable; the liveness properties allow for it).  The server of this
  repository does not call `Shutdown`.
* A failing request sets the gauge of its source after the unlock (`api/api.go:206-210`): if the
  ticker has revived the source in between, the gauge stays at 0, "excluded from rotation"
  (`doc/MONITORING.md:54`), for a source that gets requests.
* A source that was disabled keeps its request count and gets every request after its revival
  until it has caught up (`api.go:186-195`), against the round-robin of
  `server/radius.server.conf.yml:94`.  Any HTTP status but 200 disables a source (`api.go:264-270`),
  `radius.server.conf.yml:110` speaks of 500 and above.
* The queues hold 100 events (`api.go:43`) and `doc/alerts.yml:106` warns above 1000.
* `load_testing -c` sends up to concurrency - 1 requests more than asked for
  (`main.go:217, 155`); `OvershootBounded` is the bound.
* `SetVendor` panics if the packet carries the attribute already; in a received packet a broken
  sub-attribute ends its inner loop early, and the new value then goes over the next attribute or
  past the end of the list (`generated.go:80-91`).  `DelVendor` hangs on a foreign vendor's
  attribute (`:107-109`).  The repository's own uses never get there: they set absent attributes of
  packets they build, where `ChangesAreSafe` says what happens.
* `fromTable` says that values of the wrong type are left unset (`script/engine.go`), but a string
  field takes any value's text.

### Fairness

`ClientDB`: `ReloadStep` and `SubscriberStep` are weakly fair: goroutines run, HTTP requests end
(`conf.Timeout`), the ticker fires again.  `Stop` is strongly fair for each goroutine: its
`select` meets the closed channel again and again and Go picks a ready case at random.
Nothing is assumed of the environment: the external system need not change, the HTTP
source need not come back.  In `BindIndexLock` goroutines inside a call keep running (weak
fairness of their steps), and the claim of `mu` is strongly fair since `sync.Mutex` has a
starvation mode.  Nobody is forced to start a lookup or an update.

Elsewhere: goroutines that can go on do, timers fire, HTTP requests and scripts end by their
timeouts.  `LoadTest`: the ticker ticks.  `PacketServer`: handlers return; nobody has to send a datagram or call
`Shutdown`.  `RadiusExchange`: `EventuallyAnswered` is about a NAS that is not out of
retransmissions and a network that only loses what `MaxFaults` allows.  `APIBackend`: the ticker
ticks.  `RadiusClient`: the goroutine's `select`, offered the end of its context again and again,
picks it in the end (strong fairness of `PickDone`).

### Bounds

Guards hold every counter: `MaxChanges` (external changes, and with them `channel`, `pending`
and `queue`), `Resends`, `MaxFaults` and `MaxNow` (`RadiusExchange`), `MaxRequests` and `MaxAge`
(`APIBackend`), `Events` (each sent at most once), `Histories` (`RedbackPacket`), `Copies`
(`RadBench`), `MaxRequests` and `Latencies` (`LoadTest`), `Datagrams` (`PcapReplay`).  `Slots` has
three addresses: a snapshot can be held by `snap`, and by one goroutine that has loaded it,
while a third is written (`SlotsAssumption` is what keeps `StoreSnapshot` from running out).

Deadlock is checked for the index and the store, where something can always happen.  The
other systems may stop: a server that was shut down, an exchange that is over, bounded events
that are all handled, a tool that has printed its report.  That they stop only there is what
their liveness properties say.

## 4. Proofs

All proofs are for arbitrary constants under the named assumptions of the modules, which TLC
evaluates on every run.  They say what the code relies on or the notation needs:

* values that mean "none" are no proper value (`Nil`, `None`, `NoMac`, `NoWriter`, `NoErr`, `Idle`,
  `NoState`, `NoContext`);
* sources, records, requests, exchanges, readers and states are finite sets, their bounds, times and
  capacities natural numbers, ports integers;
* operations take attributes of the dictionary, bytes, and integers of four of them; Redback's
  vendor number is none of the other two; received attributes fit on the wire
  (`AttributesAssumption`, `ValuesAssumption`, `VendorAssumption`, `ReceivedAssumption`);
* any two slots leave a third (`SlotsAssumption`): the heap is never full;
* a script that serves a queue has as many Lua states as workers (`WorkersAssumption`):
  `NewProcessor` takes both from `conf.PoolSize` (`script/processor.go:57, 76-78, 92-94`).

The theorems are of `Spec`, `Init /\ [][Next]_vars`, which is part of every specification with
fairness that a run checks.

| theorem | says, for every value of the constants |
|---|---|
| `ClientDBProofs!StoreInvariant` | `StoreInv`, the inductive invariant |
| `ClientDBProofs!NothingLost` | `NoUpdateLost` |
| `ClientDBProofs!DeferralSafe` | `DeferralInv`, from `NothingLeftPending`, `DeferredHitCurrent`, `ArrivalOrderKept` |
| `ClientDBProofs!SnapshotsComplete` | `AllOrNothing`, an action property |
| `BindIndexLockProofs!IndexTypeInvariant`, `IndexConsistent` | `IndexTypeOK`, `IndexInv` |
| `BindIndexLockProofs!LookupsCorrect` | `LookupsFollowTable` |
| `BindIndexLockProofs!LockInvariant` | `LockInv` |
| `BindIndexLockProofs!LockRefinesTable` | `ImplementsTable`: the locked index is an atomic table |
| `PacketServerProofs!ServerInvariant`, `ShutdownWaits` | `ServerInv`, `NilMeansQuiet` |
| `RadiusExchangeProofs!ExchangeInvariant` | `ExchangeInv` |
| `RadiusExchangeProofs!PostAuthTellsTheTruth` | `AnswersReported` |
| `RadiusExchangeProofs!AccountingAttributed` | `AccountingInv` |
| `APIBackendProofs!AnswersAreYoung`, `SharedEvenly`, `OutagesShow` | `CacheInv`, `EvenUntilFailure`, `OutageShows` |
| `APIBackendProofs!DisabledLeftAlone` | `LeftAlone`, an action property |
| `ScriptProcessorProofs!QueueInvariant` | `QueueInv` |
| `ScriptProcessorProofs!QueueRefinesDelivery` | the queue implements `EventDelivery` (`DeliverySafety`) |
| `ScriptProcessorProofs!EngineInvariant` | `EngineInv` |
| `ScriptProcessorProofs!PhaseComposes`, `PhaseRefinesDelivery` | a phase is a queue and an engine, and implements `EventDelivery` |
| `ScriptProcessorProofs!WorkersNeverWait` | `WorkersFindState` |
| `RedbackProofs!WhatIsWrittenReadsBack` | `WritesReadBack` |
| `RedbackProofs!SetAndDelAreSafe` | `ChangesAreSafe` |
| `RedbackProofs!ReceivedPrefixIsRead` | `ReceivedIsRead` |
| `ToolsProofs!ExchangeTellsWhy` | `ClientInv` |
| `ToolsProofs!ReportAddsUp` | `LoadInv` |
| `ToolsProofs!RequestsCountedOnce` | `BenchInv` |
| `ToolsProofs!ReplayComparesAll` | `ReplayInv` |

**The store.**  None of the safety properties is inductive alone.  That pending events wait only
while a reload will take them needs where `reloading` is set, per program counter of the reload
goroutine (`DeferOK`); that a replay patches the current snapshot needs that only the reload
goroutine swaps it and that it holds no old one (`HoldsOK`); both need which goroutine exists in
which phase (`PhaseOK`).  Arrival order needs that the event the subscriber is about to defer is
younger than all deferred before and older than the channel (`OrderOK`), and that what the
goroutines are applying is older than what waits behind it (`WayOK`).

`NoUpdateLost` speaks of states where nothing is in flight and so says nothing of the steps that
lead there.  What every step keeps is `UpdatesOK`: take the changes of one record that will still
reach the snapshot in use (`OnTheWay`: in the channel, deferred, being replayed, being applied, but
not those about to patch a replaced snapshot).  The youngest of them says what the external
system has; if there is none, the snapshot has it; and what a reload has fetched has it as long as
no change arrives that the fetch has not seen (`Arriving`).  The proof has two lemmas that carry
it: a step that moves no event of a record (`FollowsKept`), and a step that applies the oldest one
(`FollowsTaken`), which is what `WayOK` says a patch does unless it overtakes a deferred event.
The swap needs both halves: a subscriber that is about to patch the old snapshot drops out of
`OnTheWay`, which is harmless since its change was published before the fetch.  One lemma per
action that touches data (`ChangeUpdates`, `LoadUpdates`, `StoreUpdates`, `ReplayUpdates`,
`ApplyUpdates`); the others only move events (`StandStill`).

**The index.**  `WithoutProperties` says what deleting from a bucket does, `RemovePreserves` and
`InsertPreserves` lift it to the index; the insertion is for an ID that is not there, which
`remove` establishes.  That no ID occurs twice in a bucket and that buckets are in put order are
parts of the invariant, since `Without` removes one occurrence; the answer to a query is then one
bucket, and `LookupsCorrect` needs no more.

**The critical sections.**  `LockInv` adds to mutual exclusion what the maps hold between two
accesses: the binds before the update without, or with, the keys that are done (`UpdateUnderWay`).
The refinement maps `Unlock` to a put or a remove, `RUnlock` to an answer and everything else to a
stutter.  That a lookup answers as of one instant follows since `order` stands still while a
reader is inside.  `ClientDB` may therefore patch a table in one step.

**The packet server.**  `CountIsExact` is proved by counting: each step adds a goroutine to, or
takes one from, the finite sets `Counted` adds up.  `ClosedIsQuiet` ties the channel that Shutdown
waits for to those sets being empty; it needs that a reader holds a datagram alone
(`OneReaderHolds`) and where Serve's readers can be (`ReadersOfServe`, `SocketFollowsShutdown`).

**Exchanges.**  The three invariants are inductive together and not one by one: that a report
is true needs that one class belongs to one request, that accounting can be attributed needs that
the accept was reported.  All are conditional on `~reissued`, and `ClassesDiffer` says when that
is so: as long as no restart finds more classes handed out than seconds passed.

**Backends.**  `AgeBounded` needs how old the entry and the answers in flight can be (`HeldOK`) and
how long a request can be where it is (`RequestOK`); the time a request was preempted is part of the
sum.  `EvenUntilFailure` is inductive by itself given `Choose`; `OutageShows` needs `Revive`'s order
of steps.

**Queues and scripts.**  The refinement counts the events taken, `Len(accepted) - Len(queue)`,
as those `EventDelivery` has started.  `WorkersNeverWait` counts: a worker that waits holds
no state, so that the others cannot hold all of them; it rests on `StatesConserved`.  The
theorems of the queue by itself do not use `WorkersAssumption`.

**The attributes.**  The inductive invariant `IInv` says that a packet the program has built
consists of attributes with one sub-attribute each, whose length is the whole (`Filled`), and that
the reads of the list give the history encoded (`Agrees`), unless an operation panicked or hung.  On
such attributes the inner loops are simple: a reader stops after one round (`FilledValues`),
`SetVendor` panics if the attribute is there and is `AddVendor` if not (`BuiltSet`), `DelVendor`
removes what it should if all attributes are of the vendor, and hangs otherwise (`BuiltDel`).  The rest is that no type has
two encodings (`OneAttributePerType`), so that an operation leaves other attributes' reads alone, and
that what is encoded decodes to what was given (`EncodeDecode`).

Received bytes are arbitrary, so that their proof is about the loops.  A reader comes to exactly the
places to which lengths lead from the first byte (`StartIsReached`, `ReachedIsStart`), and has found at each
the values before it in their order (`ReadsInOrder`); `LookupVendor` runs beside `GetsVendor` until the
first value.  The induction over rounds that this needs is done by contradiction: were there a
round before which a loop does not have the property, there would be a least one (`LeastExists`,
`FromRoundToRound`).  Such an argument takes a set where the library's induction theorems take an
operator, and is within the provers' reach.

**The client.**  That a deadline is told as such needs that the connection is closed under the
caller only when the context has ended (`ClosedOnlyAtTheEnd`), and that each way to return goes
with its reason (`ReturnsForItsReason`).

**The load test.**  The counters are sums over workers, proved by counting as in the packet server
(`MoveCounts`).  The bound on the overshoot counts the workers whose request is under way
(`InFlight`): each passed the test of the total, and has not added to it.  `ExtremesExact` speaks of
the end; before, a larger value that lost its compare-and-swap is in a worker that tries again
(`ExtremesTracked`), and of the recorded latencies one is the largest (`HasLargest`).

**radbench.**  Each step moves a request from one place to the next: its slot, the goroutine about to
count it, a counter.  That it is in no other place already (`InNoOtherPlace`) is `EachRequestOnce`
itself; that a slot is taken from nobody is what `freeID` returns (`FreeIDIsFree`, by the least
distance).  What has to be added is that main takes the requests in their order
(`ScheduleInOrder`), and that no goroutine deals with one before it is sent (`GoroutinesOfSent`).

**The replay.**  While a key has not strayed its queue is the list of its requests without as many
as there were answers (`InTurn`), so that the head is the request of the next answer.  A pair that
was handed out is with one worker, in the channel or in the report (`PairsInOnePlace`); at the end it
can only be in the report, which is then a bijection of the pairs (`ReportIsComplete`).

Every invariant a passing run checks is a theorem, and so are the action properties `AllOrNothing`
and `LeftAlone` and the refinement `ImplementsTable`.  Only model-checked are the liveness properties
and what rests on `ENABLED`, which are out of the prover's reach: `DeferredAreTaken`, `Healed`,
`CloseStops`, `EveryLookupAnswered`, `EveryUpdateApplied`, `ShutdownEnds`, `ServeEnds`,
`EventuallyAnswered`, `Revived`, `EveryCallReturns`, `ToolsEnd` and the fair half of
`ImplementsDelivery`.

## 5. Not modelled

* The line parser of `clientdb/store.go` (`newScanner`, field splitting, `intToIP`), MAC
  addresses, `script/json.go` and the conversion of tables to structs: functions of strings and
  values, without state.  A JSON event is valid, invalid or garbage; a table `authorize` returns
  is one of the handler's verdicts.
* `script/http.go`, `redis.go`, `redisconn`: one call of a client library, bounded by the script's
  context.  The Lua interpreter, and the example scripts a deployment replaces.
* `GetDeviceByMac` (read-only), `GetBindByID` (one map access under `mu`), the ping goroutine,
  and all metrics but the two gauges an interleaving can spoil.
* Configuration, logging, `main`, `radius/dump.go`: start-up wiring and formatting.
* The decoding of pcap files and the layout of reports in `pcapreplay`; the random contents of the
  load generators' packets.
* Of the vendored library: packet header, authenticators and standard attributes.

## 6. Plan

The order was: the store and the index, the packet server, exchanges, backends and scripts, the
tools, the attributes; each model first, then its proof.  What could follow:

1. the conversion of Lua tables to structs (`script/engine.go`, `fromTable`) as functions, with the
   types of the fields;
2. the line parser of `clientdb/store.go`, once over fields and not characters.
