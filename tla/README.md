# TLA+ models of the imserver connection and channel core

This directory holds TLA+ specifications of the instant-messaging server in
`src/`, the TLC configurations that check them, and `PROJECT.json`, which maps
every definition to the source lines it translates and lists the runs, mutants,
findings and hazards.

Only part of the server is in `src/`: `internal/server/processor.go` (the frame
pipeline: CONNECT, SEND, RECVACK, SUB, close), `internal/server/api_channel.go`
(the channel admin HTTP API), `internal/server/api_system.go`,
`internal/server/datasource.go`, `internal/server/framepool.go`,
`pkg/grpcpool/pool.go` and a few small files. The connection manager, the
connection context, the channel object and channel manager, the retry queue,
the store and the worker pool are *not* in `src/`; where a model needs them
they are written from `spec.md` and marked `spec_modelled` in the map.

## 1. Inventory

### Components, their state and operations

| Component | Source | State | Operations |
|---|---|---|---|
| Connection auth and kick policy | processor.go `processAuth` 90-241, `processClose` 656-667 | connection attributes (uid, deviceFlag, deviceID, level, authed, aes key/iv); the connection manager's index (not in src) | CONNECT (token check, ban check, key agreement, kick of old connections, index, connack, online webhook); close (unindex, release, offline webhook); timing-wheel close of kicked connections |
| Frame pipeline | processor.go `process`, `processFrames`, `sameFrames`, `processSameFrame` 54-87, 712-748 | per-connection queue of decoded frames and in-flight count (connContext, not in src); worker pool (not in src) | pop the queued frames, split into maximal runs of one frame type, submit each run to the pool, handle it, `finishFrames(n)` |
| Send ingest | processor.go `processMsgs` .. `sendPacketIsVail` 250-545 | channel cache and store (not in src); per-channel message log with messageSeq; notify queue | partition by channel, resolve fake channel id, get channel, permission check, per packet: id, syncOnce reject, msgKey check, decrypt; store append; notify queue; `channel.Put`; sendacks |
| Permission evaluation | processor.go `hasPermission` 410-426 (+ `Channel.Allow`, not in src) | channel allowlist, denylist, subscribers, tmpSubscribers | allow / NotAllowSend / InBlacklist / SubscriberNotExist |
| Channel admin API | api_channel.go 74-557 | store copy and cached copy of each channel's subscribers, allowlist, denylist, channel info; tmpSubscribers (cache only) | create/update (store write, reset subscribers, invalidate cache), update info, add/remove subscribers (temp or persistent, reset), blacklist add/set/remove, whitelist add/set/remove, delete |
| Data-channel subscription | processor.go `processSub` 554-617 | channel subscriber set; per-connection subscription records (connContext) | SUB (URL parse, type check, get channel, add subscriber, record), UNSUB (conditional subscriber removal, data-channel eviction, record removal) |
| RECVACK and cursor | processor.go `processRecvacks` 630-653 | retry queue keyed (uid, deviceID, messageID); per-uid cursor (both not in src) | finish retry entry for persistent acks; advance cursor for syncOnce persistent acks from Master devices |
| Message sync API | api_channel.go `syncMessages` 567-645 | store message log (read only) | choose load function by (start, end, pullMode), cap limit, compute `more` |
| IP blacklist API | api_system.go 32-88 | store IP blacklist and in-memory copy | add (store then memory), remove, list |
| gRPC client pool | pkg/grpcpool/pool.go | buffered channel of slots, each empty or holding a client connection; closed flag; per-wrapper error count, unhealthy flag, times | New, Get (take slot, recycle idle/failed, factory), ClientConn.Close (return slot, recycle unhealthy), Pool.Close, Capacity, Available |
| Frame pool | framepool.go | four `sync.Pool`s of slices | Get/Put (reset length to zero) |
| Datasource | datasource.go | none (HTTP request/response) | getSubscribers, getBlacklist, getWhitelist, getSystemUIDs, getChannelInfo |
| Route, demo and monitor servers, main, client/oknet constants | api_route.go, server_demo.go, server_monitor.go, main.go, pkg/client/const.go, pkg/oknet/* | static configuration | static responses, middleware, startup |

### How they interact

Each TCP/WS connection is decoded by a reactor into frames queued on its
connection context; `process` pops them and `processFrames` submits every
same-type run to the frame work pool as its own task. CONNECT goes to
`processAuth`, which reads the connection manager's index (`GetConnsWith`),
removes and schedules the close of old connections on the timing wheel, and
adds the new connection (`AddConn`). SEND reads the channel manager's cache
(`GetChannel`, which materializes from the store or datasource on a miss),
evaluates permission on the cached sets, appends to the store and hands the
messages to `channel.Put` (the delivery engine and retry queue). RECVACK clears
retry-queue entries and advances the cursor in the store. SUB adds the uid to
a data channel's subscribers and records the subscription on the connection
context. The admin HTTP API, served concurrently by the HTTP server, writes
the store and then the cached channel object: the two are separate steps with
no lock between them, and sends read only the cache.

### What is hard

* Concurrent CONNECTs for one (uid, deviceFlag): the index is read
  (`GetConnsWith`, processor.go:160) long before the new connection is added
  (processor.go:212).
* The kick closures run 4-5 s later on the timing wheel and capture the loop
  variable `oldConn` (processor.go:171, 175, 185); with the loop-variable
  semantics of Go before 1.22 every closure closes the last connection of the
  loop.
* A batch's same-type runs are submitted to the pool one task each
  (processor.go:724) and `finishFrames` is called per run (processor.go:85).
* Admin edits write the store, then the cache, and may fail between the two
  (api_channel.go:97-111, 199-228, 259-265); two edits may interleave; the
  list handlers call a method on the channel returned by `GetChannel` without
  checking it for nil (api_channel.go:310, 325, 368, 391, 426, 441, 491, 526,
  555) after the store was already written.
* The store append succeeds and a later step (notify queue, `Put`) fails:
  the client gets `SystemError` for stored messages (processor.go:378-397).
* UNSUB removes the subscriber only if the user has no connection at all,
  which the unsubscribing connection itself contradicts (processor.go:608).
* The gRPC pool's `ClientConn.Close` reads `pool.clients` without the lock
  after checking `IsClosed` (pool.go:447-478) while `Pool.Close` closes the
  channel; `Get` may receive from a closed channel (pool.go:376).

### What makes each component correct

* Auth: a connection removed from the index by a kick is eventually closed;
  a close scheduled by a kick only closes a connection the kick removed; no
  two Master connections of one (uid, deviceFlag) are indexed; a kicked
  connection of another device is told `ConnectKick`.
* Frame pipeline: frames of one connection are handled in arrival order; the
  runs handed to handlers are exactly the maximal same-type runs.
* Send: a message acknowledged `Success` was stored with a messageSeq and put
  to the channel; messageSeq per channel is gap-free and increasing; a
  message acknowledged with an error was not stored; a send is allowed
  exactly when the permission rules of spec §4.5 allow it.
* Admin: when no admin request is in flight, the cached channel agrees with
  the store; a `set` leaves exactly the given uids in the list; a failed
  request leaves store and cache as they were.
* Subscription: a uid whose connections have all unsubscribed is no longer a
  subscriber and an emptied data channel is evicted.
* RECVACK: the cursor never decreases and only Master acks move it; an entry
  leaves the retry queue only by an ack of the same (uid, deviceID, id) or
  the retry budget.
* Message sync: `more` is false exactly when no further message lies in the
  requested direction and range.
* gRPC pool: slots in the channel plus wrappers held by callers equal the
  capacity; no send on a closed channel; every created connection is
  eventually closed or back in the pool.

## 2. Plan

Modules, in the order they are built (the most important behaviour first):

1. `ConnAuth` — CONNECT kick policy, connection index, timing-wheel closes,
   close. Runs: a passing run with per-iteration loop variables and
   concurrent connects (the pre-1.22 closure capture is the mutant of its
   orphan property); a violation run for the concurrent-connect race.
   *(built)*
2. `ChannelAdmin` — store and cache copies of one channel's membership, the
   admin handlers as multi-step processes that may fail between steps, and
   SEND's permission check reading the cache. Runs: coherence when quiescent
   and list-set exactness with failing store calls; concurrent edits and
   person-channel blacklistSet as violations. *(built)*
3. `FramePipeline` — `sameFrames` as a RECURSIVE operator checked against a
   reference definition of maximal runs; the per-run pool submission and
   `finishFrames` and the frame pool's slices; properties: every frame
   handled once and eventually, under the unkeyed pool the code submits to.
   *(built)*
4. `ChannelSend` — the SEND path of one batch against a store with a
   per-channel seq counter, with store / notify / Put failures; properties
   on sendack reason versus stored state and delivery order. *(built; the
   abstract channel-log refinement was not built, see section 5)*
5. `DataChannelSub` — SUB/UNSUB and close with several connections of one
   uid, composed with `ConnAuth`; subscriber removal and data-channel
   eviction. *(built)*
6. `Recvack` — delivery engine and retry queue (spec-modelled) with
   processRecvacks; every retry entry ends as liveness under a fair retry
   timer; the cursor as the high-water mark of Master acks. *(built)*
7. `GrpcPool` — Get / Close / Pool.Close as concurrent goroutines, with the
   unlocked field read as a nondeterministic old/new value; slot
   conservation, exclusive use, no send on closed channel. *(built)*
8. `MessageSync` — `more` and load selection as operators, checked over
   bounded seq ranges against a reference.

Bounds: 3 connections, 2 device ids and one (uid, deviceFlag) for
`ConnAuth` (kicks only relate connections of the same uid and flag, so more
uids add only independent copies); 2-3 uids and one channel for
`ChannelAdmin` (all handlers act on one channel id, and three uids are enough
for a list to hold two users while a third is edited).

## 3. Modules built

| Module | Models | Runs |
|---|---|---|
| `ConnAuth` (+ `MCConnAuth`) | processor.go `processAuth`, `processClose`, the kick closures | `conn_auth` (pass), `conn_auth_race` (violation) |
| `ChannelAdmin` (+ `MCChannelAdmin`) | api_channel.go membership handlers; processor.go SEND `GetChannel` and `hasPermission` | `channel_admin` (pass), `channel_admin_race`, `channel_admin_person_set` (violations) |
| `FramePipeline` (+ `MCFramePipeline`) | processor.go `process`, `processFrames`, `sameFrames`, `processSameFrame`; framepool.go | `frame_pipeline` (pass) |
| `GrpcPool` (+ `MCGrpcPool`) | pkg/grpcpool/pool.go: `NewWithContext`, `Get`, `ClientConn.Close`, the error counters, `Pool.Close` | `grpc_pool` (pass), `grpc_pool_panic` (violation) |
| `ChannelSend` (+ `MCChannelSend`) | processor.go `processMsgs`, `prcocessChannelMessages`, `storeChannelMessagesIfNeed`, `storeChannelMessagesToNotifyQueue` | `channel_send` (pass), `channel_send_order` (violation) |
| `Recvack` (+ `MCRecvack`) | processor.go `processRecvacks`; the delivery engine and retry queue of spec 4.8 | `recvack` (pass) |
| `RetryQueue` | the retry-queue and cursor promise of spec 2, 4.7, 4.8 (abstract) | checked as `RetryQueueSpec` inside the `recvack` run |
| `DataChannelSub` (+ `MCDataChannelSub`) | processor.go `processSubs`, `processSub`, the release in `processClose`; composed with `ConnAuth` | `data_channel_evict` (violation) |

Each run is listed in `PROJECT.json` with its cfg and properties; every
property of a passing run has a mutant there, a plausible bug in the mapped
definition that TLC finds.

### ConnAuth (processor.go `processAuth`, `processClose`)

State: `phase[c]` of each connection (`new`, `authing`, `authed`,
`rejected`), `closed`, `dev[c]` and `level[c]` set at CONNECT (levels are the
stored bytes, Slave = 0 and Master = 1), `index` (the connection manager's
set of indexed connections, spec-modelled), `seen[c]` (the `oldConns` slice
`GetConnsWith` returned) and `closeAt` (closes scheduled on the timing
wheel). One (uid, deviceFlag) is modelled: kicks only relate connections of
the same pair.

`processAuth` is split at its one shared read: `AuthRead` performs the token
and ban checks and `GetConnsWith`; `AuthKick` performs the kick loop,
`AddConn` and the connack. Anything another goroutine does to the index in
between is what makes concurrent CONNECTs interesting. The token/ban failures
are `AuthReject`. The level is a choice from `DeviceLevels`: without token
auth and for the manager uid the code uses Slave; with token auth it is the
stored level of (uid, deviceFlag), which the user-token API can change between
logins.

`LoopVarPerIteration` selects the build's loop-variable semantics: TRUE is Go
1.22 and later (each closure closes its own `oldConn`), FALSE is earlier Go
(every closure created by one loop closes the last element of `oldConns`,
whose order is the map order of the connection manager, so any element).
`src/` has no `go.mod`, so both are builds the code can produce. The runs
use TRUE; the pre-1.22 behaviour is `CloseTargetsLastOnly`, the mutant TLC
must find `OrphanHasScheduledClose` violated by (it does: a kick unindexes
c1 and closes c2, and c1 stays open and authed but unreachable).

`TimerClose` fires one scheduled close; `ClientClose` is the peer or the idle
timer closing a connection; both run `processClose`, which unindexes the
connection if it was authed.

Runs (3 connections, 2 device ids):

* `conn_auth`: `OrphanHasScheduledClose` (an authed, open connection out of
  the index has its close scheduled), `ScheduledCloseTargetsUnindexed` (a
  kick closure never closes a connection that is still indexed) and
  `KickedEventuallyClosed` (every connection a kick unindexes is closed)
  hold with per-iteration loop variables, concurrent CONNECTs and client
  closes.
* `conn_auth_race`: two Master CONNECTs both read the index before either
  adds itself; both end up indexed (`SingleMasterIndexed`).

Fairness: weak fairness on `AuthKick` (a handler that started runs to its
end) and on `TimerClose` (the timing wheel fires every scheduled function).
Client behaviour is not fair. `CHECK_DEADLOCK FALSE`: with a bounded set of
connection ids every behaviour ends with all connections closed or rejected.

### ChannelAdmin (api_channel.go; processor.go 302-316, 410-426)

State: `store[k]` (the store's channel: exists, subscribers, allowlist,
denylist), `cache[k]` (the channel manager's cached `Channel`, or not
cached; it alone holds `tmpSubscribers`), `req[r]` (the request a server slot
is serving: the handler, the calls it has still to make and its local
variables: `existSubscribers`, whether `GetChannel` returned nil, whether
the object it holds has since been evicted), `panicked` (a handler called a
method on a nil channel; the HTTP server recovers and the request fails) and
the ghost `storeErr` (some store call has failed).

Each handler is written as the list of its calls (`Calls(h)`), each an
atomic step: a store call, `GetChannel` (checked for nil by
`addSubscriber`/`removeSubscriber`, unchecked by the list handlers), a
`Channel` method, or an eviction (`DeleteChannelFromCache`,
`DeleteChannel`). `ExecStore`, `ExecGet`, `ExecCache`, `ExecEvict` run the
next call of a request; `ExecStoreFail` and `ExecGetFail` are the `if err
!= nil { ...; return }` exits. `CacheLoad` is SEND's `GetChannel`
materializing a channel on a miss at any time. A `Channel` method on an
object evicted since the request fetched it changes that orphan object, not
the cache. The person-channel branch of the blacklist handlers loops over the
uids (`PerUid`); the person channel id is modelled as already canonical
(`IsFakeChannel`), so every iteration uses it. The store, the channel
manager and the `Channel` methods are not in `src/` and follow spec 3 and 6.

Properties:

* `CacheAgreesWithStore`: when no admin request is in flight and no store
  call has failed, every cached channel exists in the store and
  `hasPermission` on the cached sets answers what it would answer on the
  store's sets (plus `tmpSubscribers`).
* `ListSetExact`: a blacklistSet/whitelistSet answered OK leaves exactly the
  requested uids in store and cache, also when earlier requests failed
  half-way.

Runs (2 uids, one group channel `g` or one person channel `p`, every request
a client may send that passes the early checks):

* `channel_admin` (pass, about 980,000 states, 70 s): one request at a time
  on a group channel, store and `GetChannel` calls may fail, SEND loads in
  between: `TypeOK`, `CacheAgreesWithStore`, `ListSetExact`.
* `channel_admin_race` (violation): whitelistAdd u1 and whitelistRemove u1
  interleave; the cached allowlist keeps u1, the store's is empty. Another
  user's SEND is then refused with NotAllowSend by the cache, where the
  store's own verdict (no subscribers) is SubscriberNotExist.
* `channel_admin_person_set` (violation): person-channel blacklistSet with an
  empty list answers OK and leaves the old denylist; with two uids only the
  last is kept.

No fairness is needed (safety only). Deadlock is checked: a slot can always
start a new request.

### FramePipeline (processor.go 54-87, 712-748)

State: `arrived` (the type of each frame the decoder produced), `queue`
(frames queued on the connection context), `inflight` (frames popped but not
finished), `pool` (submitted runs), `handled` (frames handed to handlers, in
order) and `batch`/`runs` (the last batch popped and the runs it was split
into). `Receive` is the decoder; `Process` is `process` + `processFrames`
(pop all, split with `sameFrames`, submit one task per run); and
`ProcessSameFrame(i)` is a pool worker running a task: the handler gets the
run and `finishFrames(len(frames))` is called. For SEND, RECVACK and SUB
runs (`PooledTypes`), the run is first appended to a slice from the frame
pool of its type. `PoolGet` models `Get*Packets`: any slice the pool holds,
or a new empty one. After the handler returns, the slice goes back through
`Reset`, which models `Put*Packets` reslicing it to length zero. The pool
state is `fpool[t]`. The frame pool is not a separate component: each use
of it lies inside one handler call. `sameFrames` is the RECURSIVE
`SameFrames`/`RunEnd`, a translation of the two loops. `RunsAreMaximal`
checks it against `IsMaximalRuns`, the non-recursive definition of spec 4.2,
for every batch TLC reaches.

The connection context and the pool are not in `src/`. The drain is
scheduled when frames are queued and none are in flight (spec 4.1). Spec 5
describes the pool as keyed so that a connection's tasks run one at a time.
The code cannot ask for that: `Submit(func())` at processor.go 724 takes no
key, and its comment says each run gets its own goroutine. So the model lets
any submitted run be the next to run.

Runs (3 frame types, PING among them because its handler takes no pooled
slice; 4 frames, so runs of one type separated by another occur in one
batch and across batches; about 7,100 states):

* `frame_pipeline` (pass): `TypeOK`, `RunsAreMaximal`, `HandedOnce` (no
  frame reaches a handler twice, and only frames the decoder produced do)
  and `EveryFrameHandled` (every frame produced is eventually handed to a
  handler, i.e. `finishFrames` brings the in-flight count back to zero and
  the next drain follows). The mutant `ResetKeep` puts a slice back without
  reslicing it. The next run of that type then hands the earlier frames to
  the handler again, and `HandedOnce` fails. The mutant `FinishFramesOne`
  subtracts 1 per run. The count then never returns to zero, the next batch
  is never popped, and `EveryFrameHandled` fails.

Spec 4.1 also promises that a client's frames are handled in arrival order.
The same model refutes that: an ordered refinement (frames appended to
`handled` in arrival order) fails in four steps, with a RECVACK run handled
before the SEND run that arrived first (see "Known divergences").

Fairness: weak fairness on `Process` (the context schedules a drain) and on
running some pool task (the pool's workers run every submitted task). The
`CHECK_DEADLOCK FALSE`: after
the bounded frames are handled, the connection is idle.

PING runs: `processPing` answers only `frames[0]` of a run of PINGs. This
model counts the run as handed to the handler and does not model pongs.

### GrpcPool (pkg/grpcpool/pool.go)

State: `chan` (the buffered `clients` channel: a sequence of slots, each a
connection id or `Nil` for an empty slot), `field` (whether `Pool.clients`
still points at the channel or was set nil by `Pool.Close`), `chanClosed`,
`conn[c]` (each connection the factory may create: `unborn`, `open`,
`closed`), `pc[u]` (where each user goroutine is in `Get`, its use of the
connection, or `ClientConn.Close`), `w[u]` (the user's wrapper: connection,
whether it came from the channel, `errorCount`, `unhealthy`), `slot[u]`
(the user holds a slot taken from the channel), `closer` (the progress of
`Pool.Close`: set the field nil, close the channel, drain it and close every
drained connection) and `panicked` (a send on the closed channel).

Actions: `Init` is `NewWithContext` (init connections, then empty slots up
to the capacity). `Get` is `GetStart` (the `getClients` read), `GetRecv`
(a slot, or the zero wrapper a closed, drained channel yields),
`GetTimeout` (the context is done; Go's select may pick it even when a slot
is ready), `GetCheck` (the idle/`needClose` recycling) and `GetFactory`
(create a connection, or on error send an empty slot back on the channel
read at the start). The caller's `ErrorCountInc`, `ErrorCountReset` and
`Unhealthy`. `ClientConn.Close` is `CloseCheck` (the early returns) and
`CloseSend` (recycle an unhealthy or expired connection and send the clone
back). `Close` reads `c.pool.clients` without the pool's lock while
`Pool.Close` writes it under the lock: a data race, so once the field is nil
the read yields either value. `Pool.Close` is `PoolCloseStart`,
`PoolCloseChan`, `PoolCloseDrain`. Time (idle timeout, maximum lifetime) is
a nondeterministic choice at the point the code compares it.

Properties:

* `SlotsConserved`: while the pool is open, the slots in the channel plus
  the slots users hold equal the capacity. The factory's error path puts a
  placeholder back, and `Close` returns the slot whether or not it recycled
  the connection.
* `ExclusiveUse`: no connection is held by two users, or held while it also
  waits in the channel.
* `HeldConnsOpen`: a connection `Get` hands out is open.
* `OpenConnsAccounted`: while the pool is open, every open connection waits
  in the channel or is held by a user. Each path that gives a connection up
  closes it first: `needClose` in `Get`, and the unhealthy, failing or
  expired wrapper in `Close`. Once `Pool.Close` has run, connections checked
  out before it do leak (pool.go 228, a hazard). No run of its own checks
  that: the property is stated for the open pool.
* `NoSendOnClosedChannel`: no goroutine sends on the closed channel.

Runs (capacity 2, 1 initial connection, 3 connection ids, error limit 1, so
that the users can hold every slot, the factory runs, and a wrapper reaches
the error limit):

* `grpc_pool` (pass, 3 users as model values under symmetry, about 86,000
  states): `TypeOK`, `SlotsConserved`, `ExclusiveUse`, `HeldConnsOpen`,
  `OpenConnsAccounted`. With three users on two slots, a `Get` waits on the
  channel while both slots are held, with `Pool.Close` racing both users.
* `grpc_pool_panic` (violation, 2 users): a user's `Get` takes connection 1
  from the channel before `Pool.Close` and drops it because `needClose`
  reports it unusable. `Pool.Close` closes the channel. The factory then
  fails, and `Get` sends the placeholder back on the closed channel, which
  panics the server. The same panic is reachable from
  `ClientConn.Close` through the racy field read.

No fairness (safety only). `CHECK_DEADLOCK FALSE`: once `Pool.Close` is done
and the users have closed their wrappers, nothing is enabled.

### ChannelSend (processor.go 249-406, 451-501)

State, per connection `c`: `batch[c]` (its SEND batch: each packet a
channel and a kind: persistent, NoPersist, stream item, asking for
syncOnce, or with a msgKey/payload that does not decode), `pc[c]` (where
`processMsgs` is: `split`, `check`, `build`, `store`, `notify`, `put`,
`done`), `todo[c]` (channels not yet handled; Go map order is any order),
`cur[c]` and `msgs[c]` (the partition being handled and its built
messages), `acks[c]` (the sendacks collected) and `out[c]` (those written to
the connection). Shared: `log[ch]` (the store's messages of a channel; a
message's seq is its position), `streams`, `nq` (the notify queue) and
`dq[ch]` (what `Channel.Put` handed to the delivery engine).

Actions: `NextPartition`, `Respond` (the final write of the collected
sendacks), `Check` (`GetChannel` and `hasPermission`, any non-Success answer
ends the partition with that reason for every packet), `Build` (syncOnce
answered NotSupportHeader, decode errors answered at once with
PayloadDecodeError), `Store` (stream items one by one, then
`AppendMessages`; either may fail), `StoreFail`, `Notify` (only when the
webhook is on) and `Put`; `FailPartition` is the shared SystemError exit,
which carries the seq of a message already stored. The store, the notify
queue and `Channel.Put` are not in src/: each is one atomic call that may
fail (spec 4.4, 6).

Properties: `SuccessAckTruth` (a Success sendack's seq is where the store
has the message, and the message was handed to `Channel.Put`),
`RejectedNeverStored`, `AckedAtMostOnce`, `SystemErrorSeqTellsStored` (a
SystemError sendack carries a seq exactly when the message was stored, so
the client can tell a resend would store it twice) and the liveness
`EveryPacketAnswered`.

Runs:

* `channel_send` (pass, about 785,000 states): two connections, two
  channels; `c1` sends any batch of one or two packets, `c2` one packet to
  the first channel, with the webhook on.
* `channel_send_order` (violation of `DeliveredInSeqOrder`): two connections
  send one message each to one channel. `c1` stores seq 1, `c2` stores seq
  2, and `c2` calls `Channel.Put` first. Spec 4.8 says delivery follows seq
  order because the store serializes seq assignment, but the append and
  `Put` are two steps with no lock around them (processor.go 393).

Fairness: weak fairness of each connection's step. A batch handler that has
started runs to its end on a pool worker, and its store calls carry
deadlines. `CHECK_DEADLOCK FALSE`: every batch is answered and nothing more
happens.

### Recvack (processor.go 630-653; delivery engine of spec 4.8)

One recipient (uid, deviceId). State: `st[m]` of each message (`new`,
`untracked` for a transient one, `queued` for a retry entry, `finished`
when an ack removed it, `exhausted` when its budget ran out), `sends[m]`,
the recipient's connection `conn` and its `level`, `drops`, `wire` (RECVs in
flight), `ackwire` (RECVACKs in flight), `cursor`, and the history
`handled` of the acks handled with the level of their connection.

From the source, `ProcessRecvack` is one ack of `processRecvacks`:
`FinishMessage` for a persistent ack (a missing entry is only logged), then
`UpdateCursor` for a syncOnce persistent ack from a Master connection. The
engine is not in src/ and follows spec 4.8: `Dispatch`, `RetryExpire` (send
again, or drop the entry after `MaxRetry` sends; a send while the recipient
is away is lost), `ClientRecv`, `Drop` (the connection is lost with what is
in flight) and `Reconnect` (with either level).

Property: `RetryQueueSpec`, the refinement below. The cursor's maximum is
kept by `UpdateMessageOfUserCursorIfNeed`, which is in the store and not in
`src/`, so `UpdateCursor` assumes it (spec 4.7). No run checks a property of
the cursor alone, because such a property would only restate that
assumption.

`RetryQueue` is what the engine and `processRecvacks` promise together, with
the connection and the wire hidden: `Put` gives a persistent message an
entry with send count 1, `Resend` raises the count below `MaxRetry`,
`GiveUp` drops an entry at `MaxRetry`, and `Ack(m, l)` of a message that was
handed out removes its entry and moves the cursor (only for a syncOnce
persistent message and a Master level). Nothing else removes an entry, and
weak fairness of `Resend \/ GiveUp` makes every entry end. `Recvack`
instantiates it `WITH` entries as the queued messages with their `sends`,
dispatched as the messages not `new`, and acked as the `handled` history.
`ClientRecv`, `Drop` and `Reconnect` are stuttering steps of the abstract
spec. The mutant `DropForgetEntries` (entries dropped with the connection,
which spec 4.8 rules out) violates it.

Run `recvack` (pass, about 298,000 states): four messages (two syncOnce
persistent with seqs 1 and 2, one persistent read-diffusion, one transient),
`MaxRetry` 2, two connection losses, both levels. Two losses let an ack and
a retried RECV both be lost and the recipient come back at the other level.

Fairness: weak fairness of dispatch, of the retry timer, of the client
reading its socket and of ack handling. Losses and reconnects are not fair:
a recipient may stay away. `CHECK_DEADLOCK FALSE`: once every entry ends,
the system is idle.

### DataChannelSub (processor.go 548-617, composed with ConnAuth)

The module instantiates `ConnAuth` for the connections of one uid and adds
the SUB handler. State: `reg` (the channel object registered under the data
channel's id, by generation; 0 when none), `gens`, `member[g]` (the uid is
in object `g`'s subscribers), `rec[c]` (connection `c`'s connContext records
the subscription), `spc[c]` (where `processSub` of `c` is), `obj[c]` (the
object `c` got from `GetChannel`) and `frames[c]`.

`processSub` runs on the pool worker of its connection, in parallel with the
handlers of the uid's other connections. It is split at each call on shared
state. `SubFrame` covers the URL parse, the type check and `GetChannel`; its
early returns change nothing. `GetChannel` of a data channel returns the
registered object, materializes a new one, or fails; the channel manager is
not in src/. `Subscribe` is `AddSubscriber` plus the record. UNSUB is
`UnsubExist` (`ExistConnsWithUID` on `ConnAuth`'s index), `UnsubRemove`,
`UnsubEmptyCheck` (`GetAllSubscribers` of the object), `UnsubEvict`
(`RemoveDataChannel` of whatever is registered) and `UnsubRecord`. A close
from `ConnAuth` also releases the connection's records (`Release`).

Run `data_channel_evict` (violation of `IndexedSubscriberLive`: an indexed
connection holding a subscription has the uid in the registered channel's
subscribers). Bounds: 3 connections, 2 device ids, default configuration
(every login Slave), 2 materializations, 2 SUB frames per connection. TLC
finds it in 11 steps. In its trace, c1 and c2 both belong to device d1, and
both are indexed through the concurrent-login race of `ConnAuth`. A path of
the same length with two devices also exists. c2's UNSUB finds the object
empty, c1 subscribes to that object, and c2 evicts it. c1 holds a Success suback
and a record for a channel the registry no longer has. No fairness (safety
only); `CHECK_DEADLOCK FALSE`.

The model also shows the hazard of processor.go 608 (listed with a note):
`UnsubExist` finds the unsubscribing connection itself in the index, so an
UNSUB never removes the uid. Close does not remove it either, so a data
channel once subscribed is never evicted.

## 4. Known divergences

The models show these too. Each is listed as a hazard in `PROJECT.json`,
whose note says how the model reaches it; no run checks them.

* ConnAuth: the socket closes after `processAuth` starts and before it sets
  the context. `processClose` finds no context, and `processAuth` then
  indexes the closed connection with `AddConn` (processor.go 212).
* ChannelAdmin: `channelCreateOrUpdate` clears the store's subscribers, then
  `AddSubscribers` fails, and the handler returns before
  `DeleteChannelFromCache`. The cache keeps the old subscribers
  (api_channel.go 104). This is why `CacheAgreesWithStore` is stated for
  histories without store errors.
* ChannelAdmin: the list handlers call `Channel` methods on the unchecked
  result of `GetChannel`, after writing the store. On a channel that does not
  exist this panics (api_channel.go 325).
* FramePipeline: the pool's `Submit` carries no connection key, so runs of
  one batch may be handled out of order (processor.go 724), against spec
  4.1. TLC finds this in four steps with an ordered refinement on the
  `frame_pipeline` model. It is listed as a hazard of processor.go 724 in
  `PROJECT.json` and not kept as a run.
* GrpcPool: a wrapper closed after `Pool.Close` takes the `IsClosed` early
  return without closing its connection, which stays open (pool.go 228).
* GrpcPool: `errorCount` is on the wrapper, and the clone that `Close` puts
  back starts at 0. A connection that fails fewer than `MaxErrorCount` times
  per checkout is never given up (pool.go 247).

## 5. Not modelled (yet) and why

* Message sync (planned module 8): the load calls it depends on
  (`LoadPrevRangeMsgs`, `LoadNextRangeMsgs`) are store code that is not
  under src/. Spec section 6, scenario S6 and the code's comments disagree on
  whether the start and end bounds are inclusive and on the result order.
  A model would have to pick one reading, so its result would not be a
  statement about this code. The hazard (api_channel.go 618) stays a note.
* RECVACK: the store replay on reconnect and the webhook report of dropped
  entries. So the cursor gap (processor.go 646) is listed as a hazard and
  not checked. An ack of seq 2 can move the cursor past a seq 1 whose RECV
  was lost, and that entry can then run out of retries.
* The abstract channel-log specification for `ChannelSend`: its only promise
  beyond the properties above is the seq order of delivery, and the code
  does not keep that order (`channel_send_order`).
* IP blacklist API (api_system.go): `ipBlacklistAdd` and
  `ipBlacklistRemove` each write the store, return on its error, and then
  update the server's in-memory copy. A trial model wrote them as call lists
  in `ChannelAdmin`. Its results:
  * With one request slot and failing store calls, the copies agree whenever
    no request is in flight.
  * With two slots, add-store, remove-store, remove-memory, add-memory leaves
    the IP blocked in memory only. This is the `channel_admin_race` pattern.
  * The blacklist state doubles every state of `channel_admin`, to about 2.1
    million states, past the run budget.
  * Every run slot is taken by a question about more code.

  The two hazards are listed without a property.
* Frame pool: the SUBACK pool (`GetSubackPackets`, `PutSubackPackets`). No
  code under src/ calls it. The RECVACK and SUB pools share
  `PoolGet`/`Reset` with the SEND pool.
* Datasource: an HTTP POST and a JSON decode, pure I/O.
* Route, demo and monitor servers, `main.go`, constants: static
  configuration and startup.
* Non-canonical person channel ids in the admin API: there, each uid of the
  request names its own fake channel id, so the loop touches independent
  channels.
