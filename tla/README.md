# TLA+ models of the graphengine storage layer

This directory holds TLA+ models of the concurrent core of graphengine's
transactional storage engine (`src/storage`). Each model is checked with TLC.
Every module is written from the Go sources. Code that the repository
references but does not contain is modelled from `spec.md` and marked
`spec_modelled` in `PROJECT.json`. That code is the latch table (`Latches`),
the `Txn` / `KVSnapshot` / `MemDB` implementations and the prewrite path.

## 1. The system

`storage.Open` (`src/storage/storage.go:23-49`) builds an `mvccStorage` over a
pebble database and starts three background services:

| part | source | what it does |
|---|---|---|
| latch scheduler | `storage/latch/scheduler.go` | serialises transactions whose write sets overlap. `Lock` acquires the latches of a key set, and blocks while another request holds one of them. `UnLock` posts the request to `unlockCh` (capacity 100). One `schedule` goroutine releases the request, wakes its waiters and sometimes starts `recycle`. |
| resolver | `storage/resolver/*.go` | turns Percolator lock records into commit records (`Resolve`) or rollback tombstones (`Rollback`). `Scheduler.Resolve` hashes each key (murmur3 mod 4) to one of four `resolver` goroutines. Each goroutine drains its channel (capacity 512) into a single pebble batch. It reports each task to a `MultiKeysNotifier` and then commits the batch. `CheckTxnStatus` decides what a reader should do with a lock it hit. |
| GC manager | `storage/gc/*.go` | two workers and a timer goroutine. `execute` and the scheduling branch are empty. |
| MVCC codec | `storage/mvcc` | `Encode(key, ver)` sorts the lock (`LockVer = MaxUint64`) before every version of a key, and versions newest first. `LockDecoder` and `ValueDecoder` read the record under the iterator and advance it. |
| kv facade | `storage/kv/kv.go` | `TxnContext`: begin, run the callback, commit, retry up to 5 times on a retryable error. |
| in-memory buffer | `storage/memdb_snapshot.go` | the transaction's staged write buffer (`MemDB`, not in the sources: Set, Staging, Release, Cleanup) and the snapshot getter and iterator over it, which read the buffer as of the outermost stage's checkpoint. |
| DB and sessions | `db.go`, `session/session.go` | `DB.Close` closes every session under `db.mu`, after swapping its close callback. `Session.Close` cancels, waits for the running `Execute`, then calls the callback. |
| statement context | `stmtctx/*.go` | one per session: the warning list (capped at `MaxUint16`) and its error count, the current graph name and plan ID counters, all under `sc.mu` or atomic; `Reset` before each statement. `AllocID`: under `graph.MDLock`, a transaction advancing the graph's ID counter in `meta`, returning the `IDRange` (base, base+n]; `IDRange.Next`: atomic allocation from it. |
| graph codec | `codec/*.go` | property rows (`PropertyEncoder.Encode` sorts the properties by ID and stores the data with uint16 end offsets; `PropertyDecoder.Decode` reads them back) and vertex and edge keys. |
| query pipeline | `parser`, `compiler`, `planner`, `executor`, `expression`, `catalog`, `meta` | sequential per statement: lex → parse → compile → plan → execute. Statements of different sessions compile at once and share the catalog. |
| lazy property creation | `compiler/property_preparation.go`, `catalog/patch.go` | while compiling, every property access looks its name up in the catalog graph, without a lock; the names not found are created under the catalog's `MDLock` in one transaction with IDs from the graph's `NextPropID`, and the patch is applied to the catalog before the lock is released. |

How the parts interact:

- A committing transaction takes latches for its write set, writes its locks, decides, and releases the latches.
- Readers that meet a lock ask `CheckTxnStatus` about the lock's primary key.
- Owners and readers hand the keys to the resolver and wait on the notifier.
- `mvccStorage.Close` closes the latch scheduler, then the resolver, then GC, then pebble.

The behaviours that make this code hard are these:

- The resolver workers run concurrently with their callers and with each other.
- A batch is read from the store but written to a pending batch, so tasks in one batch do not see each other.
- `Notify` is called before the batch commits.
- The notifier's error slice is appended without its mutex.
- A send on a full channel blocks; a send on a closed channel panics.
- `Close` cancels the goroutines before closing their channels, which drops queued work.
- The latch table hands keys from the releaser to the queued waiters, and the stale check depends on commit memory that `recycle` forgets.
- The version provider is the wall clock.
- A compiler decides which properties are missing before it takes `MDLock`, and allocates their IDs from the in-memory catalog, not from the store.

## 2. Modules

### Resolver.tla (with MC_Resolver.tla)

The whole of `storage/resolver`, plus its callers.

**State.**
- `locks[k]` is the lock record at `LockKey(k)`.
- `vals[k][v]` is the value record at `Encode(k, v)`, with payload bytes abstracted away.
- The iterator visits the lock and then the versions newest first. So the "first matching record" of `getTxnCommitInfo` is `CommitInfo`, the record with the largest version among those of that startVer.

**Goroutines.** One per shard `w`. `wpc[w]` steps through `idle → drain → resolve (→ append) → commit → idle`.
- `Receive` and `Exit` are the two `select` cases of `run`. Go chooses among ready cases at random, so `Exit` may fire while tasks are queued.
- `Drain` is the `len(r.ch)` loop.
- `ResolveTask` is one iteration of `resolve`'s loop: `Resolve` or `Rollback` against the store (not the batch), then `Notify`'s `wg.Done`.
- `AppendErr` is the unsynchronised `errs = append(errs, err)`. It writes back the length read before the append, so concurrent appends can lose one.
- `CommitBatch` is `batch.Commit`.

**Callers.**
- `Push` is one iteration of `Scheduler.Resolve`'s loop plus `resolver.push`. It blocks on a full channel and panics on a closed one.
- `Wait` is `MultiKeysNotifier.Wait`.
- `ReaderCheck` is the reader policy from the spec (§4.3/4.5): call `CheckTxnStatus` on the primary, roll back an expired or rolled-back transaction, resolve a committed one.
- `Prewrite` is a late-arriving prewrite of a lock (spec-modelled). It is refused while the key is locked, when the transaction already has a record there, or when a newer commit exists.

**Close.** `CloseCancel` is `cancelFn()`. `CloseChannels` closes the channels once every goroutine has returned (`wg.Wait`).

### Latch.tla (with MC_Latch.tla)

`LatchesScheduler` from the source, and the latch table from the spec.

**Requests and slots.**
- Requests are `<<caller, round>>` pairs: every `Lock` call makes a new `*Lock`.
- Keys hash to slots. A request takes its keys in slot order (`KeyOrder`, from `genLock`).

**Acquire and release.**
- `AcquireFrom` (`acquire`) behaves as follows:
  - it queues the request on the slot of a key that someone else holds;
  - it marks the request stale when a free key's last commit is newer than its start;
  - otherwise it takes the key and continues.
- `ReleaseFrom` (`release`) frees the keys, records the commit version, and hands each key to the first waiter queued for it, marking that waiter stale if needed. It returns the wakeup list.

**Callers.** They follow `TestWithConcurrency`:
- `Lock`: `Lock(getTso(), keys)`, blocking when acquire returns locked.
- `Commit`: `SetCommitVer(getTso())` unless the grant is stale.
- `UnLock`.

**The schedule goroutine.**
- `Recv` is the range receive plus `release`.
- `Wakeup` is one iteration of `wakeup`.
- `RecycleTrigger` is lines 69-76.
- `SchedExit` is the end of the range loop.

**Other actions.**
- `Recycle` is the `recycle` goroutine (spec-modelled). It forgets the commit memory of free keys whose last commit is at least `Expire` older than its argument. `RecycleTrigger` has the time condition only: the `counter > checkCounter` branch needs 50000 unlocks. With `CheckInterval` 0 and `Expire` 1 (the code's 1 and 2 minutes, scaled), a recycle starts after every committing unlock and forgets every free key's commit one version later.
- `Close` models `Close`. The write lock it takes waits for every `UnLock` that holds the read lock, and therefore for every blocked send.

**Abstraction.** `acquire` and `release` are atomic steps. The real latch table locks one slot at a time. The model orders whole calls, not their slot-level interleaving.

### MvccCodec.tla

`Encode`, `Decode`, `LockKey`, `NewKey` and `Key.Raw` (`storage/mvcc/codec.go`, `key.go`) as pure operators over byte sequences. `codec.EncodeBytes` and `codec.EncodeUintDesc` are not in the sources; they are modelled from the spec (memcomparable groups of `G` bytes with a marker `0xFF - padCount`; the big-endian complement of the version). Bytes range over `0..Byte-1`, a version has `W` bytes, and `LockVer` is `Byte^W - 1`. MC_Pure chooses the inputs.

### MvccRead.tla

The decoders of `storage/mvcc/decoders.go` and the read half of `Resolve`/`Rollback` (`resolve.go`: the `LockDecoder` probe and `getTxnCommitInfo`) as operators over an iterator. A store is a set of encoded entries; `NewIter` sorts the entries at or above a lower bound by `BytesLess`, and a decoder takes a position and returns `ok`, `err` and the next position. Record payloads are the fields the readers compare. `SnapshotGet` is the snapshot point read of spec 4.3, whose code is not in the sources.

### GraphCodec.tla

`codec/encoder.go`, `decoder.go`, `vertex_key.go` and `edge_key.go`. A row is encoded by `Reform` (the insertion sort standing for `sort.Sort` with the code's `Less` and `Swap`), then `EncodeDatum` per value with the end offset stored as `Unsigned(2, …)`: 16 bits, as `uint16(len(e.data))`. Bytes are numbers below `Radix` (8 here, 256 in the code), so the uint16 range is `Radix^2`. `DecodeRow` reads each property with `GetData` and `DecodeColDatum`; `rowBytes` and its `getData`/`findProperty` are not in the sources and follow `row_test.go`. Integers are encoded in 1, 2, 4 or 8 bytes little-endian, as `encodeInt`; dates are 32-bit day numbers. `EncodeInt`/`DecodeInt` of keys (memcomparable, big-endian with the sign bit flipped) and `EncodeFloat` are modelled from the spec.

### Lexer.tla

`parser/lexer.go`: `Lex`, `scan` and its start functions (`#` and `--`-style comments, `/* */`, `*`, `@`/`@@` variables, identifiers, quoted identifiers, strings with `handleEscape`, numbers, `.`), and the `reader` (`peek`, `inc`, `incAsLongAs`, positions). Input is a sequence of byte names over a small alphabet. The rule table and `isIdentChar` etc. are not in the sources; their assumptions are listed in the module header. `Lex` is one action: one call of the parser, with the conversion that follows the scan: `toInt` parses an integer literal with `ParseUint` (`DecimalValue`, at `UintBits` bits) and keeps the value as the token's item, and hands a literal out of range to `toDecimal`, which is a decimal; a bad hex literal appends an error. `LexerReset` is `reset` as `Parse` calls it on the lexer of a pooled parser: the reader, the errors and `inBangComment` start over and `identifierDot` is kept.

### PropertyCatalog.tla

Lazy property creation for several sessions compiling at once on one graph. Per session: `CheckExistence` is `Enter` on one `PropertyAccess` (a catalog lookup outside any lock; a missing name is appended to `missing`, a list); `CreateMissing` returns at once when nothing is missing; `Lock` takes `MDLock`; `Txn` is the `kv.Txn` callback and its commit as one step (IDs `catNext + i` in uint16, one stored `PropertyInfo` each, the stored graph's `NextPropID`); `Publish` is `Catalog.Apply(PatchTypeCreateProperties)` (`SetNextPropID`, then `CreateProperty` in order, so a later property takes the name) followed by the deferred unlock. The catalog graph and `meta` are not in the sources: the graph is a name index, an ID index and `NextPropID`; meta is the set of stored records and the stored `NextPropID`. The transaction is atomic because every writer of these keys holds `MDLock`. The other patch types are not modelled, since their DDL executor is not in the sources.

### QueryExec.tla

The compiled query pipeline as pure operators. `RewriteExpr` folds `exprRewriter.Leave` over the AST's nodes in post order (the order `Accept` calls `Leave`; the AST is not in the sources). The fold keeps the code's single `ctxStack` and the first error: a constant pushes, a variable or property access resolves its column with `FindColumnIndex` or sets "unresolved", `NewUnaryExpr` pops its operand and fails for any opcode but minus, and a binary expression pops right then left. `Optimize` and `Builder.Build` map match, projection and selection plans to physical plans and then to executors; any other plan builds nothing and sets the builder's error. `EvalExpr` is `Column.Eval`, `PropertyAccess.Eval` and `UnaryExpr.Eval`; minus wraps two's complement at `IntBits` bits. `Next` is the Volcano pull: `MatchExec` (not in the sources) yields its rows one per call; `ProjectionExec` evaluates its expressions on the child's row; `SelectionExec` pulls until its condition is the true Bool. `Drain` is the result set calling `Next` until a nil row or an error. Datums are Int, Bool, Null, a string and Vertex; `datum`, `Constant`, `NewBinaryExpr` and `AsBool` are modelled from their use and marked as such in the map.

### StmtCtx.tla

The statement context. One `Context`: `Reset`, `AppendError`, `AppendWarning`, `AppendNote`, `AppendWarnings`, `SetCurrentGraphName`, `AllocPlanID` and `AllocPlanColumnID` are one action each, since each holds `sc.mu` or is one atomic add; the warning list holds levels only, and the cap `MaxUint16` is the constant `MaxWarn`. ID allocation by the contexts of several sessions: `MDLock` takes the graph's lock, `AdvanceID` is the transaction's read of meta's counter, and `Commit` is the commit and `MDUnlock`. A commit succeeds only if the counter has not moved since the read (the counter advances by n and the session keeps its range); otherwise, or on any other error, `AllocID` returns the error (a conflict's retry fails with `ErrInvalidTxn` on the finished transaction) and the session keeps no range. With `MDLock` held across the transaction the counter cannot move, so only the other errors fail a commit. `RangeNext` is `IDRange.Next`, which advances `base` even past `max`. `meta` is not in the sources; `AdvanceID` is modelled from its use and from the `AdvanceGlobalID` test. `issued` records the IDs `Next` returns.

### MC_Pure.tla

One model for the pure parts. `Init` picks one input (`input` names the kind): one (key, version) with every version; a (key, version) pair, ordered against every other, whose versions lie at the edges of a byte and of the range (0, 1, `Byte - 1`, `Byte`, `LockVer - 1`, `LockVer`); the raw-input case, whose property checks every byte string of up to `MaxRawLen` bytes; a key history of a small store; a property row; vertex/edge key IDs; SQL text of up to 3 fragments, on a new lexer or on a pooled one reset with `identifierDot` left set; or, for `PropertyCatalog`, two sessions' statements (one or two accesses over the names `a` and `b`, the same name twice included) on a graph with no property or with `a`; or, for `QueryExec`, an expression of up to two levels to rewrite against columns `(n)` or `(m, n)`, or a plan of up to two selection and projection operators over MATCH to run on up to two one-column rows; or a new statement context, or two sessions that have allocated no IDs, or two callers about to call `TxnContext`. `Next` lets the lexer call `Lex` until it returns EOF or invalid, and the two compilers run their steps in any interleaving. It also lets the statement context take any sequence of its method calls, the two sessions interleave their `AllocID` and `Next` steps, and the two `TxnContext` callers interleave theirs; every other input is final. Each property is guarded by its input kind.

### MemDB.tla (with MC_MemDB.tla)

The staged buffer: a value log of entries `[key, val, old]`, a node pointer per key, the stage checkpoints (log lengths) and two ghosts: the buffer's contents when each stage opened, and the last snapshot taken. `Set` overwrites in place when the entry is of the current generation and the sizes agree, and appends otherwise; `Release` pops the innermost stage; `Cleanup` reverts the entries above its checkpoint and truncates the log. These follow the spec, since `memdb.go` is not in the sources. `SnapshotGetter`, `SnapGet`, `SnapIter` (init, `Next`, `setValue`) follow `memdb_snapshot.go`. Flags and size accounting are not modelled.

### StagedKV.tla (the buffer's abstract specification)

What the buffer promises (spec 3, 4.2 and 8.4), with no value log, nodes or checkpoints: a map `kv` from keys to values and a `stack` holding, for each open handle, the map as it was when `Staging` returned it. `AbsSet` writes one key, `AbsStaging` pushes the map, `AbsRelease` pops it and keeps the writes, `AbsCleanup` pops it and puts it back. `MC_MemDB` instantiates it with `kv <- Logical` (the value each node's newest entry holds) and `stack <- StageViews` (for each open stage, what the snapshot getter reads at its checkpoint), and checks `ImplementsStagedKV == Staged!AbsSpec` as a `PROPERTY`: every step of the value-log buffer is a step of the abstract one, or leaves its image unchanged.

### TxnContext.tla (checked in MC_Pure)

`kv.TxnContext` (`storage/kv/kv.go:35-59`) for two callers writing one shared key. The storage behind it is modelled from the spec (4.7), since `Txn` is not in the sources. `Begin` takes a start version from the clock and makes the transaction valid. `Commit` fails with `ErrTxnConflicts` when the key was committed after that start version, and otherwise commits at a new version or fails with another error; whatever its outcome it finishes the transaction (`FinishTxn`), and every later operation of a finished transaction fails with `ErrInvalidTxn` (`CommitResults`, and the callback's result in `CallFn`). The actions follow the code's control flow: `Begin` (outside the loop), `LoopHead` (`i < retry`, and `return nil` after the loop), `CallFn` and `Commit`. Each of the last two either continues on a retryable error or returns. So a conflict goes round the loop once more, on the finished transaction, and the call returns `ErrInvalidTxn`.

### Sessions.tla (with MC_Sessions.tla)

`DB` (`db.go`) and `Session` (`session/session.go`). Each session has three goroutines: a user calling `Execute`, a user calling `Close`, and the goroutine calling `DB.Close`.

- Every statement that touches shared state without a common lock is its own step:
  - `Execute`: `ExecLock`, `ExecSetCancel`, `ExecAdd`, `ExecRun`, `ExecWgDone`, `ExecUnlock`;
  - `Close`: the `closed` swap, the cancel, `wg.Wait`, and the read of `closeCallback`;
  - `DB.Close`: `DBLock`, then per session `DBSwap` (`OnClosed` under `s.mu`, then the callback write after the unlock), `DBCancel`, `DBWait` and `DBCallback`.
- `Deregister` is the delete from `db.mu.sessions`. It records whether the goroutine deleting held `db.mu`.
- `ranClosed` records a statement run after its session's Close had waited.

### StorageLifecycle.tla (with MC_StorageLifecycle.tla)

`storage.Open` and `mvccStorage.Close` (`storage/storage.go`) with the lifecycle of the three services' goroutines:

- the latch `schedule` goroutine;
- the resolver workers (`Scheduler.Run`/`Close`);
- the GC workers and scheduler (`gc/manager.go`, `gc/worker.go`).

No transaction runs here, so workers leave through `ctx.Done()`. `Close` is one step per statement: close latches, cancel the resolver, wait and close its channels, cancel GC, wait for GC, then close pebble. A second `db.Close` panics, and the closer is then `panicked`. `Quiescent` is the explicit terminal state: the storage is open with no call in progress, or it is closed and every goroutine has exited.

## 3. Runs

All cfgs instantiate the MC modules. Keys, transactions and callers are model values or small numbers. `PROJECT.json` lists each run with its properties and a mutant per property of every passing run.

### Resolver runs

The setup of the resolver runs:
- two keys on two shards;
- t1 = start 1, keys ⟨k1, k2⟩, TTL 1, durable locks on both;
- t2 = start 4, key k2, a late prewrite possible;
- two owners submit their decisions, and readers hit t1's or t2's lock;
- channel capacity 2 (the code's 512 is never full with this few tasks, so 2 makes the blocking send reachable);
- versions ≤ 5 and a clock ≤ 6, so t1's TTL expires while it is still undecided.

| run | expect | what it shows |
|---|---|---|
| `resolver` | pass | Safety and liveness of the resolver, with `Scheduler.Close` racing the callers. No lock coexists with its own outcome. Every error a task reports is true of the store or of a pending batch. Every caller finishes. A bundle that reported no error becomes durable. |
| `resolver_ttl_race` | violation | A reader rolls back t1 (TTL expired) while the owner commits it. Both tasks land in one batch, `Resolve` and `Rollback` both read the old lock, and t1 is both committed and rolled back on k1. |
| `resolver_wait_durable` | violation | `Wait` returns no errors before the batch that resolved the keys has committed. `scheduler_test.go` reads the store right after `Wait`. |

The model also reaches the following, which are recorded as hazards in `PROJECT.json` rather than runs:

- a late prewrite landing beside a pending rollback tombstone;
- `Wait` returning fewer errors than tasks failed;
- Close dropping queued tasks;
- an iterator error swallowed by `Resolve` (`ReadFaults`).

### Latch runs

Keys 1..3 sit on two slots, so a request can hold a key on one slot while queued on the other. There are three callers with pairwise-overlapping write sets. `unlockCh` has capacity 1, so `UnLock` senders block (the code's 100 is unreachable with three callers).

| run | expect | what it shows |
|---|---|---|
| `latch` | pass | With `Close` racing the callers and one transaction per caller (three callers whose write sets overlap pairwise), a grant that is not stale holds every key of its write set, so two such grants never share a key. No other transaction committed to one of the keys after its startVer. After Close, `UnLock` is dropped and waiters may block forever; the spec excuses this ("absent external cancellation"), so deadlock is not checked. With the schedule goroutine fair and callers that always unlock, every blocked `Lock` returns unless Close has run (spec property 6). |

### Codec, TxnContext, Sessions and lifecycle runs

| run | expect | what it shows |
|---|---|---|
| `codec` | pass | MC_Pure over every bounded input. MVCC keys (up to 3 bytes, 4 byte values, groups of 2, 2-byte versions, byte strings of up to 7 bytes): `Decode(Encode(k, v)) = (k, v)` for every key and version; encoded keys of every two keys, at versions around the byte carry and the ends of the range, order by (key ascending, version descending), the lock key (version `LockVer`) first; `Decode` accepts only canonical encodings. Reads over every store of two keys with a lock and up to two records each: the lock probe and `getTxnCommitInfo` give what a direct lookup in the store gives, the snapshot read gives the newest visible Put or Delete or the blocking lock, and the skip decoder stops on the next user key. Property rows of up to 3 values of every type, in every order: `Decode(Encode(row))` returns the row. Vertex and edge keys round-trip, and parsing an incoming edge key as outgoing gives the reversed edge. SQL texts of up to 3 of 19 fragments, lexed by a new lexer or a pooled one: every `Lex` call consumes input or ends, and string literals hold their unescaped text. Two sessions creating properties lazily (2,960 states): no property ID is stored twice, and outside `MDLock` the catalog holds exactly the stored properties and `NextPropID`, with every name it resolves stored under that ID. Query expressions and plans: rewriting computes the recursive translation, first error included, and the executors' pull yields exactly the rows, and then the error, of the query's meaning on the whole list of rows. Two sessions allocating IDs for one graph: every ID `Next` returns is reserved in meta and none is returned twice. Two callers of `TxnContext` whose commits can conflict: a call that returns nil has committed its transaction, because a conflicting `Commit` finishes the transaction and the retry fails with `ErrInvalidTxn`. |
| `codec_offset_wrap` | violation | A row holding one string of `Radix^2 - 1` bytes: the end offset `Radix^2` is stored modulo `Radix^2` (`encoder.go:29`), so `getData` reads an empty slice and the row does not decode to what was encoded. At Radix 256 this is any row of 64 KiB or more. |
| `memdb` | pass | Two keys, values of sizes 1 and 2, a log of 4 entries, three nested stages (338,869 states). The value-log buffer refines `StagedKV`: an in-place overwrite never changes what an outer stage's checkpoint reads, and `Cleanup(h)` restores exactly what the buffer held when `Staging` returned `h` (spec 8.4). A snapshot getter taken inside a stage reads the buffer as it was when the outermost stage opened, for as long as that stage is open. The snapshot iterator yields exactly the keys the getter finds, in order, with the same values. |
| `sessions` | pass | Two sessions, each with one `Execute` and one `Close` caller, racing `DB.Close`. Every `Close` returns. Every closed session is eventually removed from `db.mu.sessions`. States are compared by the view `NoGhosts`, which leaves out the ghost variables of the other two runs; no guard reads them, so states equal in the view have the same futures. |
| `sessions_run_after_close` | violation | `Execute` does not check `closed`. A statement starts and runs after `Session.Close` has cancelled and waited for the running ones. |
| `sessions_map_race` | violation | `DB.Close` swaps the callback while a user `Session.Close` has already read `onSessionClosed`. Meanwhile the swap's write of the callback happens after `s.mu` is released. A session is then deleted from `db.mu.sessions` while `DB.Close` holds `db.mu` and ranges over the map: a concurrent map write. |
| `lifecycle` | pass | Two concurrent `Close` calls after `Open`, 2 resolver and 2 GC workers. pebble is closed only after every resolver and GC goroutine has returned. Once a `Close` has begun, every background goroutine returns and pebble ends closed (`CloseDrains`); whether each call returns is the next run's question. |
| `lifecycle_double_close` | violation | Two `Close` calls: the second passes the latch, resolver and GC `Close`, which tolerate a repeat, and calls `db.Close` on the closed pebble DB, which panics (`storage.go:96`). Spec 5 says `Close()` must be idempotent. |

### Bounds

The bounds are the smallest that make each interesting case happen:
- two shards, so that tasks of one bundle run on different goroutines;
- two slots, so that a request holds one slot and waits on another;
- channel capacities of 1 or 2, so that senders block;
- a version bound that lets a TTL expire before the owner decides;
- for the codec:
  - group size 2 with keys of up to 3 bytes, which covers keys shorter than a group, one group, and more than one;
  - 4 byte values, which covers pad 0 and the marker of every pad count;
- for the graph codec, `Radix` 8 makes the 16-bit offset range 64 bytes, small enough for one string to reach it; small rows stay below it, so `codec` and `codec_offset_wrap` separate the two cases;
- for the lexer, 3 fragments chosen to start every scan function and to join in the ways that matter (a `.` after an identifier, `@@` before a name or a quote, a comment running to the end); `UintBits` 4 scales the 64 bits of `ParseUint` so that a literal of three digits (`100`) is already out of range and both branches of `toInt` are taken;
- for the buffer, a log of 4 entries and 3 stages: enough for an entry of the outer generation, an in-place overwrite in an inner one, and a Cleanup of any of them; two keys suffice because the refinement relates keys one at a time;
- for lazy property creation, two sessions and two names: two compilers can miss the same name or different ones, wait on `MDLock` for each other, and allocate from a `NextPropID` the other has advanced; a graph that already has `a` covers a name found at lookup;
- for the query pipeline, expressions of two levels put every node kind under a unary and a binary operator and an error under both; plans of two operators stack each kind on each; two rows let a selection reject one and pass the next, and the datums include MinInt, Null, a non-vertex and a vertex with and without the property;
- for ID allocation, two sessions, ranges of 1 or 2 IDs and 3 `AllocID` calls, so that one session uses its range while another allocates the next and a range is used past its end;
- two sessions and two closers, so that two goroutines race on every shared field;
- for `TxnContext`, two callers with the code's retry of 5, so that one commits between the other's `Begin` and `Commit`.

Every action of every module fires in some passing run. TLC's `-coverage` output shows this.

### Fairness

- **Resolver.** The resolver goroutines, `Wait` and the reader policy are weakly fair: each is a goroutine that runs whenever it can. `Push` is strongly fair, because a blocked sender competes with others for channel room, and Go serves blocked senders in order.
- **Latch.** The schedule goroutine's steps and the recycle goroutines are weakly fair. A caller's `Commit` is weakly fair. Its `UnLock` is strongly fair, as in the test worker.
- **Sessions.** `Execute` steps are weakly fair. The `Close` callers and `DB.Close` are strongly fair: they wait on `s.mu` or `db.mu`, which other goroutines take and release repeatedly, and Go's mutexes hand over to a starving waiter.
- **Lifecycle.** Background goroutines, the GC timer and each Close are weakly fair.
- `Lock`, `Open` and starting a `Close` are not fair: callers may stop calling.

## 4. Plan and what is not modelled yet

Done:

1. **Resolver**.
2. **Latch**.
3. **MVCC codec and readers** (`codec.go`, `key.go`, `decoders.go`).
7. **Graph codec** (`codec/`).
8. **Lexer** (`parser/lexer.go`).
9. **In-memory buffer and snapshot** (`memdb_snapshot.go`, with the buffer from the spec), shown to implement the abstract `StagedKV` by refinement.
4. **TxnContext**, with the transaction finished by `Commit` (spec 4.7).
5. **DB/Session lifecycle**.
6. **Storage lifecycle and GC manager**.
10. **Lazy property creation** (`compiler/property_preparation.go`, `catalog/patch.go`).
11. **Query rewriting, planning and execution** (`planner/expr_rewriter.go`, `optimizer.go`, `executor/`, `expression/`).
12. **Statement context** (`stmtctx/`), with `AllocID` and `IDRange`.

Left:

- **Txn composition**: latch, prewrite, commit and resolver, with the version provider from `storage.go:86-88`. An abstract snapshot-isolation spec (a committed history with no write-write overlap) is the `PROPERTY` of an `INSTANCE ... WITH` refinement. The wall-clock version provider that can repeat belongs here.

Not modelled:
- the rest of the query pipeline: the yacc parser, the rule table, the logical plan builder, preprocess, `MatchExec` and the DDL, insert and show executors are not in the sources; `SimpleExec`'s `USE` only sets a name; ORDER BY and LIMIT plans have no optimizer or builder case, so `Compile` fails on them with `unknown plan` (or, under a projection, on the type assertion in `optimizeProjection`); `-MinInt64` wrapping to itself (`unary_op.go:89`) is evaluated as the code does and not checked against a sign rule;
- `catalog` and `meta` beyond lazy property creation: `catalog.go`, `graph.go` and `meta` are not in the sources, and the other patch types have no caller in them;
- the duplicate property names of `property_preparation.go:48` and `:50`: `PropertyCatalog` reaches two stored properties of one name (one statement accessing a new name twice is enough), but neither the sources nor the spec say what should happen, and the harm appears only when `catalog.Load`, which is not in the sources, rebuilds the name index;
- the parse warnings that `Session.Execute` appends to the statement context and `executeStmt`'s `Reset` truncates before the statement runs (`session.go:83` and `:97`): `StmtCtx` has both calls, but nothing in the sources reads a Context's warnings, so their loss has no observable effect to state; for the same reason no property is stated about the warning list and its error count, whose only guard is the `len(warnings) < MaxUint16` check around both updates;
- `codec/index_key.go`: `LabelKey` builds a key and returns nil, and the index key functions are empty stubs;
- `cmd`: a CLI;
- logging.
