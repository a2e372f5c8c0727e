# Verification of the bird's nest transaction filter

TLA+ models, TLC runs and TLAPS proofs for the duplicate-transaction filter
of `src/birdsnest` (the "bird's nest") and `src/shardingbirdsnest`.

## 1. Inventory

### Components and their state

| Component | Source | State | Operations |
|---|---|---|---|
| Key codec | `birdsnest/key.go`, `utils.go` | none (a key is an immutable byte slice) | `ToTimestampKey`, `Parse`, `GetNano`, `bytes2nano`, `ToTimestampKeysAndNormalKeys` |
| Rule engine | `birdsnest/rules.go` | the expiry window | `AbsoluteExpireTimeRule.Validate` (reads the wall clock) |
| Filter extension | `birdsnest/filter_extension.go`, `filter_extension_factore.go` | timestamp variant: `firstTimestamp`, `lastTimestamp` | `Store`, `Validate`, `Serialize`, `ExtensionDeserialize`, factory `New` |
| Filter slot | `birdsnest/cuckoo.go` | a cuckoo table (external), an extension, a config | `NewCuckooFilter`, `IsFull`, `Add`, `Contains`, `Encode`, `NewCuckooFilterByDecode`, `Info` |
| Filter chain | `birdsnest/birdsnest.go` | `filters` (Length + 1 slots), `currentIndex`, `height`, `preHeight`, `config` | `NewBirdsNestByNumber`, `Add`, `Adds`, `AddsAndSetHeight`, `SetHeight`, `ValidateRule`, `Contains` (not under src/), `Info` |
| Eviction strategy | `LruStrategy`, not under src/ | — | moves `currentIndex` to the ring successor and resets that filter |
| Snapshot store | `birdsnest/snapshot.go` | a write-ahead log holding one record, a mutex | `Read`, `Write` (append at `LastIndex+1`, `TruncateFront`) |
| Serialization scheduler | `birdsnest/serialize.go` | the unbuffered channel `serializeC`, `preHeight` | `Start`, `serializeMonitor`, `serializeTimed`, `serializeHeight`, `serializeExit`, `Serialize`, `Deserialize` |
| Sharding layer | `shardingbirdsnest/*.go` | `bn` (one chain per shard), `height`, `preHeight`, its own log | `DoSharding(Once)`, `Adds` (goroutine per shard, timeout), `Add`, `Contains`, `ValidateRule`, `SetHeight`, `Serialize`, `Deserialize` |

Not part of the filter: `opencrypto/gmssl/sm2/privatekey.go` (a key wrapper),
`shardingbirdsnest/test/test_pressure.go` (a load test), `interface.go` and
`errors.go` (types and error formatting).

### Interactions

* Caller → chain: `AddsAndSetHeight(keys, h)` = `Adds` (sequential `Add`,
  fail-fast) then `SetHeight(h)`.  `Add` calls `fullStrategy`, which calls the
  strategy when `filters[currentIndex].IsFull()`, then `CuckooFilterImpl.Add`,
  which inserts in the cuckoo table and then calls the extension's `Store`.
* Chain → scheduler: `SetHeight` sends a height signal on the unbuffered
  `serializeC` (a rendezvous with the monitor goroutine); the timer goroutine
  sends timed signals; `serializeExit` an exit signal.  The monitor decides
  (height debounce against `preHeight`) and calls `Serialize`, which reads
  `filters`, `currentIndex`, `preHeight` **without a lock while the writer
  keeps adding**, writes through the snapshot store and sets `preHeight`.
* Construction → snapshot store: `Deserialize` reads the last record and
  replaces filters, config, height and current index; a config change is
  reported but the persisted state is kept.
* Sharding → chains: routing by the last key byte modulo the shard count,
  one goroutine per non-empty bucket in `Adds`, all writing one shared `err`
  and signalling an unbuffered `finishC`; `SetHeight` fans out to every shard.

### What is hard

* Concurrency: the monitor's `Serialize` races the writer's `Add`/`SetHeight`
  (a Go data race on `filters`, `currentIndex`, `height`); the shard goroutines
  of sharded `Adds` race on `err`; the caller races a timeout.
* Failure: a failed `Store` after a successful cuckoo insert; a crash between
  the log write and the truncation; persistence errors swallowed by the monitor.
* Ordering: rotation must reset exactly the oldest filter; the snapshot height
  is the previous snapshot's height; the snapshot's `currentIndex` is read
  after its filters.
* Numeric edges: the timestamp read little-endian by `Store` and big-endian by
  `Validate`; 0 as the "unset" timestamp; `now + W` in int64.
* Blocking: `SetHeight` blocks on the unbuffered channel; leaked goroutines
  after a sharded timeout.

### Properties that make each component correct

* Filter chain: a filter never exceeds its capacity; the ring keeps exactly
  the last Length + 1 generations (the `SlidingWindow` refinement); `Contains`
  finds every key still in the window (no false negatives).
* Snapshot/scheduler: a record is the chain's state at one moment (filters
  and `currentIndex` together); a restored chain covers every key of every
  block up to the restored height; the restored height is the snapshot's height; a crash
  at any point leaves one whole record; the height debounce never skips a
  snapshot that is due; `SetHeight` never blocks forever once started.
* Sharding: routing is total and in range; `Adds` reports an error whenever
  a shard failed; every key a shard goroutine inserts is in the shard
  `Add` and `Contains` route it to; it returns by the deadline; every
  shard sees every height.

The hazards, each at its line, are listed in `PROJECT.json`.

## 2. Plan

Modules, in the order they are built:

1. `SlidingWindow` (done) — the abstract promise of the chain: Length + 1
   generations of keys, oldest dropped as a whole.
2. `BirdsNest` (done) — the ring of filters: `Add` with `fullStrategy`, the
   ring strategy, `CuckooFilterImpl.Add/IsFull/Contains`, the extension's
   `Store`/`Validate`, `SetHeight`.  Refines `SlidingWindow`.
3. `BirdsNestSerialize` (done) — composes `BirdsNest` with:
   - the writer goroutine: `Adds` key by key, fail-fast, then `SetHeight`;
   - the monitor goroutine: `serializeMonitor`, and `Serialize` one filter
     at a time, so that the writer can interleave;
   - the timer, and the unbuffered channel as a rendezvous;
   - the log: `Write`, then `TruncateFront`;
   - crash and restart through `Deserialize`;
   - with `BirdsNestSerializeHistory`, the chain states a `Serialize` saw.

   Heights modulo 2^w are not modelled (see section 6).
4. `ShardingBirdsNest`, `ShardingConstruction`, `ShardingSerialize`
   (done) — routing; sharded `Adds` as one process per shard plus the
   caller with a timeout; the construction; the sharded `SetHeight`, with
   the restart through the sharding snapshot and the shards' snapshots.
5. `BirdsNestRules` (done) — the absolute-expiry rule and `ValidateRule`.

Theorems:
- `TypeCorrect` and `WindowRefined` for `BirdsNest`;
- `SerializeTypeCorrect` and `SnapshotCoverage` for `BirdsNestSerialize`;
- `RunningCorrect`, `ShardingTypeCorrect` and `RoutingCorrect` for
  `ShardingBirdsNest`;
- `RuleCorrectWithoutOverflow` for `BirdsNestRules`.

## 3. Modules

### `BirdsNest.tla` — the filter chain

State: `filters` (a function from `0..Length` to filter records),
`currentIndex`, `height`.  A filter (`Filter`) is abstracted to the set of
keys in its cuckoo table (`keys`), the insertion count `cuckoo.Size()`
(`size`, duplicates counted), the cuckoo table's native full flag (`victim`:
linvon's table keeps a victim after a failed chain of kicks; any insertion
may leave one, an over-approximation) and the timestamp extension's
`first`/`last`.

A key is a model value.  Only the first `NanoWidth` (2) bytes of its 8-byte
timestamp prefix are kept (`KeyBytes`), bytes have `ByteBase` values, and the
prefix is read as a signed word exactly as `bytes2nano` reads 8 bytes as an
int64 — big-endian by `GetNano`, little-endian by `Store` — so the sign and
the byte order are kept while the width is reduced.  `HasSeparator` says
whether byte 8 is the separator; `Parse` succeeds when it is and the
timestamp is not negative.

Actions: `Add(k)` is the whole of `BirdsNestImpl.Add`: `fullStrategy`
(`FullStrategyRotates`), the ring strategy (`NextIndex`, reset to
`NewCuckooFilter`), `CuckooFilterImpl.Add` with `Store` (a key that does not
parse stays in the table while the extension is unchanged and the call
errors).  The retry loop of `Add` runs once: `cuckoo.Add` fails only on a
table with a victim, which `fullStrategy` has just replaced.  `SetHeight(h)`
sets the height; its channel send belongs to `BirdsNestSerialize`.
`Contains(k)` (an operator) is true for sure when some filter holds `k` and
its extension does not reject it; false positives of the cuckoo table are
not represented (no property depends on them).

`LruStrategy` and `BirdsNestImpl.Contains` are not under `src/`; they are
modelled from spec.md 4.2 and marked `spec_modelled`.

### `BirdsNestSerialize.tla` — the chain with its persistence

Extends `BirdsNest` with the three goroutines that share one
`BirdsNestImpl`, and a crash.

* Writer (`wpc`, `wblock`, `wpos`): `AddsAndSetHeight(Blocks[b], b)` for
  b = 1, 2, ...  `WriterAdd` is one `Add` of `Adds`; a key whose `Store`
  fails ends the block (fail-fast) with no `SetHeight`.  `WriterSetHeight`
  sets the height and, with height snapshots, blocks in `serializeHeight`
  (`wpc = "send"`) until the monitor takes the signal: `serializeC` is
  unbuffered, so the send is a rendezvous, modelled in `ReceiveHeight`.
* Monitor (`mpc`, `mi`, `menc`): `ReceiveHeight` drops the signal
  when `height - preHeight < Interval`; `ReceiveTimed` is a tick of
  `serializeTimed`.  `Serialize` is split where the writer can interleave:
  `EncodeFilter` encodes one filter (`analysisCuckooFilters`), and
  `WriteSnapshot` reads `currentIndex` and `preHeight`, builds the record
  (`SnapshotRecord`) and writes it.  `WalSnapshot.Write` can fail before
  the append (`LastIndex` or `Write`: the log is unchanged) or at
  `TruncateFront`, after the record is durable; either way the monitor only
  logs the error and returns to idle without storing `preHeight`.  `StorePreHeight` is `preHeight.Store(b.height)`.
  Serialize takes no lock against the writer: this is the Go data race,
  whose outcomes are all the interleavings of these steps.
* Log (`wal`): the last record.  `WalSnapshot.Write` is atomic against
  other writes (its mutex), and a crash between append and truncate leaves
  the new record last, which `Read` returns; so the log is the last record
  written.
* `CrashRestart`: the process stops anywhere; `NewBirdsNestByNumber` runs
  `Deserialize`, which loads filters, current index and height from the
  record (or starts fresh), `preHeight` is 0, and the node replays the
  blocks above the restored height.

`BirdsNestSerializeHistory.tla` extends it with a history variable only:
`ringsSeen`, the pairs (filters, `currentIndex`) the chain has been in
since the running `Serialize` began, dropped when the monitor leaves the
write. It changes no step of the program; it lets `RecordIsChainState`
ask whether a record is a state the chain was in at one moment.

Fairness (`SFairSpec`, used by `ser_height`): the monitor's steps
(`ReceiveHeight`, `EncodeFilter`, `WriteSnapshot`, `StorePreHeight`) are
weakly fair.  `Start` runs `serializeMonitor` as a goroutine of its own,
which is runnable whenever a signal waits on `serializeC` or `Serialize`
has a next step, and the Go scheduler runs runnable goroutines.  The
writer, the ticker and crashes are not fair: the chain may stop, ticks are
not promised, and a crash is never forced.

### `ShardingBirdsNest.tla` — sharded bulk insert

State: `added[i]`, the keys of shard i's chain (the chain itself is
abstracted: what matters here is which writer reaches it and what the
caller is told); per call c and shard i the goroutine's place `gpc`, its
position `gpos` in the bucket and the result `gres` its
`BirdsNestImpl.Adds` returns; `err[c]`, the named result of call c that all
its goroutines assign; the caller's `mpc`, `running` (runningTask) and the
value `result[c]` it returned.

Actions: `StartAdds(b)` is `Adds` up to its loop (`DoSharding`, one
goroutine and one running task per non-empty bucket); `ShardAdd` one `Add`
of a shard's `Adds` (a key of `AddFails` is inserted and fails, as a
failing `Store` does); `ShardAssign` the assignment `err = ...` and the
deferred send; `Receive(i)` the `case <-finishC` of the loop; `Return` the
bare `return` after `err != nil`, which reads `err` a second time (a
data race in Go: another goroutine may assign in between); `Timeout` the
`case <-timeout`.  Goroutines of a call that returned keep running, then
block on `finishC` forever.  `CallerDone` is the caller after its
`MaxCalls` calls.

`DoSharding` is stated without recursion: bucket i lists, in call order,
the keys at the positions of the batch that route to i
(`ShardPositions`), the m-th being the position of rank m
(`PositionRank`). This is the loop of `sharding_algorithm.go:26-38`,
which appends in order; the assumption `DoShardingMatchesLoop` of
`MC_ShardingBirdsNest.tla` has TLC compare it, on every batch of up to 4
keys, with the loop's reading as a `SelectSeq` filter. The
non-recursive form is what lets the prover reason about the buckets.

Fairness: every shard goroutine step and the caller's receive and return
are weakly fair (the Go scheduler runs runnable goroutines); the timer is
not, so `AddsReturns` asks whether `Adds` returns before its deadline.

### `ShardingConstruction.tla` — restart of the sharding layer

`NewShardingBirdsNest` as a function of what is persisted (no record, the
same configuration, a changed one) for the sharding snapshot and each
shard: `ShardingDeserialize`, `NewBirdsNestByNumber` and the loop that
assigns `err` for every shard (`errAfter`).  Init enumerates every
persisted situation.

### `ShardingSerialize.tla` — restart of the sharded nest

The persistence of the sharding layer, composed with the shards' own.

State:
- `height` and `preHeight` of `ShardingBirdsNest`, and `swal`, the height
  in its snapshot log;
- per shard i: its keys, its `sh[i]` (height) and `spre[i]` (preHeight),
  its monitor `smon[i]`, the keys `senc[i]` its running Serialize has
  encoded, and its snapshot log `walH[i]`/`walK[i]`;
- the node's place `wpc`, its block `wblock` and the shard `wi` it is at.

Actions:
- `Adds`: one block's keys go into the shards `DoShardingOnce` names. The
  concurrency of Adds is `ShardingBirdsNest`'s.
- `SetHeight` (`s.height = height`).
- `ReceiveHeight`: the sharding monitor takes the signal and, unless the
  interval debounce skips it, runs `Serialize`. `Serialize` records
  `s.height` or fails.  Both debounce checks (this one and the shard's)
  subtract in uint64 (`Uint64Sub`, modulo the constant `HeightWord`), as
  the Go code does; in the runs `preHeight` never exceeds the height, so
  the wrap-around is not reached.
- `NestSetHeight`: the shard's `SetHeight` and its send.
- `ShardReceive`: the shard's monitor takes the signal and starts encoding.
  The node goes on to the next shard, or to the next block after the
  last one.
- `ShardSerialize(i)`: the shard's record is written with its `preHeight`,
  or the write fails.
- `CrashRestart`: at any point. `NewShardingBirdsNest` loads the sharding
  height, and each shard its own record. The node then adds the blocks
  above the sharding height again; how the node resumes is the caller's
  side of `GetHeight`.

A shard's chain is abstracted to its key set. Eviction is `BirdsNest`'s
subject, and the encoding race is `BirdsNestSerialize`'s, where
`SnapshotCoverage` proves a shard's record covers its recorded height.

### `BirdsNestRules.tla` — the rule engine

`NewAETRule` converts the configured seconds to nanoseconds.
`AETValidate` is `AbsoluteExpireTimeRule.Validate`: it rejects a key whose
`GetNano` is below `now - W` or above `now + W`. `ValidateRule` applies
every requested rule kind the nest knows; only absolute expiry exists, and
unknown kinds are skipped. All three are operators of the key, the clock,
the configured expiry and the rule list; the rule engine has no state
that changes, so the module has no specification of its own and is the
subject of a theorem (section 5) rather than of a run. The arithmetic
wraps at the width of `BirdsNest`'s timestamp word (`Wrap`), as int64
does.

## 4. Runs

| Run | Checks | Result |
|---|---|---|
| `bn_window` (`MC_BirdsNest_window.cfg`) | `TypeOK`, `WindowRefinement` | pass, 147,255 states |
| `bn_membership` (`MC_BirdsNest_membership.cfg`) | `MembershipSound` | violation (a finding) |

Bounds: Length = 2 (three filters, so a rotation reaches each filter and the
ring wraps), MaxNumKeys = 2 (a filter is full by count after two inserts, and
by the native flag after one), four keys: `k1` and `k2` whose big- and
little-endian readings differ, `k3` that reads the same both ways, `n1` a
legacy id without separator whose prefix reads negative.  Keys are re-added
freely, so duplicates, wrap-around and rotation after any number of inserts
occur; the state space is finite because the filters are bounded by the
capacity and the key set.

* `WindowRefinement`: `BirdsNest` implements `SlidingWindow` under the mapping
  `window[g] = filters[(currentIndex + g) % (Length + 1)].keys` — a rotation
  drops exactly the oldest generation, only once the current one holds a key
  (this needs MaxNumKeys ≥ 1; with 0 every `Add` rotates, through empty
  generations).
* `MembershipSound` is violated: `Store` records the little-endian reading of
  the timestamp and `Validate` compares the big-endian one, so a full filter
  rejects a key it holds (trace: `k1` added, the filter full, `Contains(k1)`
  false).  The `first == 0` sentinel (filter_extension.go:112) is a second
  way to the same violation, which these bounds do not reach: no key's
  little-endian reading is 0, and a run can only show the shortest way.

| `ser_height` (`MC_BirdsNestSerialize_Height.cfg`) | `STypeOK`, `SnapshotCoversLiveKeys`, `SetHeightReturns` | pass, 45,667 states |
| `ser_timed` (`MC_BirdsNestSerialize_Timed.cfg`) | `SnapshotCoversLiveKeys` | pass, 716,099 states |
| `ser_regress` (`MC_BirdsNestSerialize_regress.cfg`) | `SnapshotHeightMonotone` | violation (a finding) |
| `ser_torn` (`MC_BirdsNestSerializeHistory.cfg`) | `RecordIsChainState` | violation (a finding) |

| `sh_adds` (`MC_ShardingBirdsNest_adds.cfg`) | `TypeOK`, `RunningMatches`, `KeysRouted`, `AddsReturns` | pass, 44,677 states |
| `sh_lost_error` | `ErrorReported` | violation (a finding) |
| `sh_single_writer` | `SingleWriterPerShard` | violation (a finding) |
| `sh_empty_batch` | `AddsReturns` | violation (a finding) |
| `sh_construction` (`MC_ShardingConstruction.cfg`) | `ConfigChangeReported` | violation (a finding) |
| `sh_restart` (`MC_ShardingSerialize_restart.cfg`) | `RestartComplete` | violation (a finding) |

Bounds of the sharding runs: three shards, so a failing shard, a
succeeding one and a third still running coexist; batches `<<a, f, c, d>>`
(every shard, two keys on shard 0, `f` failing) and `<<b, d>>`; two calls,
so the second starts while goroutines of the first may still run.

* `AddsReturns` holds for non-empty batches: `runningTask` counts exactly
  the goroutines started, so the loop returns after the last finish, or at
  the first finish that sees `err` set.  Counting keys instead of buckets
  (`StartAddsMutant`) or testing `< 0` (`ReceiveMutant`) leaves the caller
  waiting for the timer.  With an empty batch it fails: nothing is received
  and only the timeout ends the loop.
* `RunningMatches`: while the caller waits, `runningTask` equals the
  number of goroutines of the current call that are running or blocked on
  `finishC`. This is the safety half of `AddsReturns`. An increment placed
  before the nil-bucket `continue` (`StartAddsCountAll`) breaks it.
* `KeysRouted`: every key in a shard's chain routes to that shard by
  `DoShardingOnce`, so `Contains` looks where `Adds` wrote. A goroutine
  that writes another shard's chain (`ShardAddMutant`, the loop variable
  captured by reference before Go 1.22) breaks it.
* `ErrorReported` fails: a shard that succeeds assigns `nil` over the
  error of one that failed, before the caller reads it or between its test
  and its return.
* `SingleWriterPerShard` fails: after a timeout (or an early error return)
  the next call starts a second writer on a shard whose previous goroutine
  is still in `Adds`.
* `ConfigChangeReported` fails: only the last shard's error survives the
  loop, and the sharding snapshot's inverted check is always overwritten.
* `RestartComplete` fails (two shards, blocks `<<a, b>>`, `<<c>>`, `<<d>>`,
  both intervals 1). The trace:
  1. Block 1 is added.
  2. `SetHeight(1)` lets the sharding monitor record height 1.
  3. The process crashes before either shard has received height 1.
  4. The restart resumes at block 2, while both shards come back empty.

  The sharding `Serialize` records `s.height`, the height just set. A
  shard records the `preHeight` of its last store. No interval setting
  avoids this: a crash can always fall between the two writes.

Bounds of the serialization runs: Length = 1 and MaxNumKeys = 1, so every
second insert rotates and a rotation can happen between the encoding of
the two filters; three blocks `<<k1, k2>>`, `<<k3>>`, `<<n1, k4>>`, the
last failing at `n1` (a legacy id) so its `SetHeight` never happens;
Interval = 1.  Keys are unique across the blocks that are added, as
transaction ids are on a chain.  Crashes are unbounded in number (the
state space stays finite since the restored state is a recorded one).

* `SnapshotCoversLiveKeys` (action property): whenever a record is written,
  every key of a block up to the recorded height that is in the ring at
  that moment is in the record.  It holds in both modes because the
  recorded height is `preHeight`, stored only after the previous write,
  when every key up to it had been added, and so before the current
  encoding started.  A record carrying the current height instead
  (`SnapshotRecordMutant`) violates it: the writer adds a key after its
  filter was encoded and sets the height before the write.  The property
  is about membership only: it does not look at the `currentIndex`
  recorded with the filters, and so does not show that a restart loses
  nothing (it does not: see `RecordIsChainState`). `STypeOK` is checked
  in `ser_height`; the theorem `SerializeTypeCorrect` covers both modes.
* `RecordIsChainState` is violated (`ser_torn`, timed snapshots): a
  record is the chain's state at a point in time (spec.md, Glossary),
  but `Serialize` reads `currentIndex` (serialize.go:70) after encoding
  the filters one by one (line 63), unlocked. Shortest trace: `[{k1},{}]`
  is encoded at index 0, the writer adds `k2` and rotates to index 1,
  and the record pairs `[{k1},{}]` with index 1. It loses keys: the
  writer adds `k1`, `k2` (`[{k1},{k2}]`, index 1) and sets height 1, a
  snapshot stores `preHeight` 1, the next `Serialize` encodes
  `[{k1},{k2}]`, the writer adds `k3` (`[{k3},{k2}]`, index 0), and the
  record `[{k1},{k2}]`, index 0, height 1 is written. After a crash, the
  replay of block 2 finds slot 0 full, rotates and resets slot 1: `k2`,
  still in the window, is gone.
* `SnapshotHeightMonotone` is violated. `preHeight` lives only in memory:
  `NewBirdsNestByNumber` starts it at 0, and `Deserialize` restores
  `height` but not `preHeight`. So the first snapshot after a restart
  records height 0 and truncates the log to it. A second restart then
  replays the whole chain into filters that already hold it. Re-adding
  keys uses up capacity and rotates live keys out early.

* `SetHeightReturns` (`ser_height`, under `SFairSpec`): a `SetHeight`
  blocked in `serializeHeight` on the unbuffered `serializeC`
  (serialize.go:135) is eventually released.  It rests on the monitor
  coming back to its receive after every `Serialize`, including one whose
  `Write` failed.  A monitor that stays in its store step after storing
  (`StorePreHeightMutant`) leaves the writer blocked forever.

The other runs of `BirdsNestSerialize` (`ser_timed`, `ser_regress`) check safety only, with no fairness.

## 5. Proofs

`BirdsNestProofs.tla`: `TypeCorrect == Spec => []TypeOK` for every value of
the constants allowed by the assumptions (`Length ≥ 1`, `MaxNumKeys ∈ Nat`,
`ByteBase ≥ 2`, keys' bytes in range, heights natural).  `TypeOK` includes
the capacity bound `size ≤ MaxNumKeys` (1 when MaxNumKeys = 0), which is
inductive by itself: `Add` inserts only into a filter that is not full or
into a fresh one.  Lemmas: the int64 reading of a prefix is in `Nanos`
(`Int64OfRange`, `PrefixRange`, `NanoRange`), an insertion preserves the
filter type (`CuckooAddType`), one lemma per action.

`IInvInductive`: `TypeOK /\ FreshWhenEmpty` (a filter with no keys has
size 0 and no victim) is inductive.  `WindowRefined` proves that
`BirdsNest` implements `SlidingWindow` for MaxNumKeys ≥ 1: the mapping
rotates the ring by `currentIndex`; an `Add` that does not rotate maps to
`Insert` into the newest generation, one that rotates maps to
`RotateInsert`, whose guard (the newest generation is not empty) follows
from `FreshWhenEmpty`: a full filter has a key (size ≥ MaxNumKeys ≥ 1 or a
victim, neither possible when empty).  The modular arithmetic of the ring
(`RingShift`, `RingPosition`) is proved once as lemmas.

`BirdsNestSerializeProofs.tla` proves two theorems about the persisted
chain for every ring length, capacity, block list, interval and snapshot
type (assumptions `SerializeAssumption` and those of `BirdsNest`).

- `SerializeTypeCorrect == SSpec => []STypeOK` follows from the inductive
  invariant `TInv == STypeOK /\ WriterAhead /\ RecordOK`. The type alone
  is not inductive, for two reasons:
  - A restart sets `wblock` to the recorded height + 1. That stays in
    range only if records carry chain heights (`RecordOK`).
  - `preHeight ≤ height < wblock` while the writer adds, and
    `height = wblock` while it waits on `serializeC` (`WriterAhead`).
- `SnapshotCoverage == ASSUME UniqueBlocks PROVE SSpec =>
  SnapshotCoversLiveKeys`. Its inductive invariant is `SInv == TInv /\
  EncodedCover`. `EncodedCover` says that every filter Serialize has
  already encoded still holds every live key of the blocks up to
  `preHeight`. The step cases:
  - An `Add` only inserts its own key (`AddKeysBound`); a rotation
    empties a filter.
  - That key belongs to a block above `height ≥ preHeight`, so it is in
    no block up to `preHeight` (`FreshKey`). This needs `UniqueBlocks`:
    no key is in two blocks, as transaction ids are unique on a chain.
    Without it, the Timed run finds the property violated when a key is
    added again after its filter was encoded.
  - The record written is `SnapshotRecord`, with height `preHeight` and
    filters `menc`, so `EncodedCover` at `mpc = "write"` is the property.
  - A restart, a failed write and a new Serialize start with nothing
    encoded.

`ShardingBirdsNestProofs.tla` proves `RunningCorrect == Spec =>
[]RunningMatches` for every number of shards and of calls.
- The inductive invariant `CInv` adds, to `RunningMatches`, the type of
  the goroutines' places and of the caller's, and that the current call is
  in `Calls` whenever the caller is not idle. These are needed to read
  `gpc[calls]`.
- `StartAdds` sets the count to the cardinality of the started set.
- `Receive` removes one pending goroutine. `FS_RemoveElement` gives the
  count minus one.
- `ShardAssign` only moves a goroutine from `run` to `send`, so the count
  is unchanged.

The same module proves `ShardingTypeCorrect == Spec => []TypeOK` and
`RoutingCorrect == Spec => []KeysRouted` (`KeysRouted`: every key in a
shard's chain routes to that shard by `DoShardingOnce`, the routing of
`Add` and `Contains`).
- Lemmas on ranks: `RankBounds` (a position's rank is in 1..|P|),
  `RankStrict` (ranks strictly increase with positions, so they are
  injective) and `RankOnto` (every rank 1..|P| is taken: an injection
  between finite sets of equal size is onto, `FS_Injection`). From them
  `DoShardingEntry`: bucket i of `DoSharding(ks)` has length |P| and its
  m-th key is `ks[BucketPos(ks, i, m)]`, a position routed to i. Hence
  `DoShardingType` (buckets are sequences of keys) and
  `DoShardingRoutes` (every key of bucket i routes to i).
- `TypeOK` is not inductive alone: a goroutine's `ShardAdd` reads
  `bucket[c][i][gpos[c][i]]`, so the inductive invariant `TInv` adds to
  `CInv` and `TypeOK` that every bucket is a sequence of keys and every
  position is a positive natural.
- `RInv` adds to `TInv` that every key of every bucket routes to its
  shard (`BucketsRouted`); `StartAdds` establishes it by
  `DoShardingRoutes`, and `ShardAdd` then only inserts routed keys.

`BirdsNestRulesProofs.tla` proves `RuleCorrectWithoutOverflow`: for every
word width, clock, key, expiry and rule list, when `e * SecondNanos` and
`now -/+` it are int64 values, `ValidateRule` with `NewAETRule(e)`
accepts exactly the keys whose `GetNano` is in `[now - W, now + W]`
whenever the absolute-expiry rule is requested. It rests on `WrapId`
(wrapping leaves an int64 value unchanged) and `GetNanoRange`. So the
rule departs from spec.md 4.4 only through overflow. The overflow itself
is real and unchecked by the code (rules.go:28, `now + W` in int64), but
needs a configured expiry above about 7.5e9 s (about 9.2e9 s for
`NewAETRule`'s multiplication); it is listed as a hazard with no run.

Out of reach of the prover and left to TLC:
- liveness and `ENABLED`;
- the violated properties: `MembershipSound`, `SnapshotHeightMonotone`,
  `RecordIsChainState` and
  the violated properties of the sharding layer (`sh_*` violation runs).

## 6. Not modelled

- hex parsing and formatting of keys;
- the cuckoo table's hashing and encoding, which are external;
- logging and `Info`;
- the SM2 key wrapper and the pressure test;
- `serializeExit`, which is never called;
- heights modulo 2^64: the writers modelled only raise the height;
- in the sharding layer, `Add`, `Contains` and `ValidateRule`: single-key
  routing to one chain, whose chain is `BirdsNest`;
- the sharding monitor's Timed schedule;
