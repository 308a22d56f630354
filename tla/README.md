# TLA+ models of ticoin

TLA+ models of the parts of this tree that have state and concurrency that TLC
can check. The modules and their TLC configurations live in this directory.
`PROJECT.json` lists every component, the runs, the fault seeds that each
property must catch, the source lines behind every definition, the findings
and the hazards.

## 1. The system and its parts

The tree is a trimmed Bitcoin-derived client. Most files are headers whose
`.cpp` files are missing. The parts with executable logic are:

| part | source | state | operations | interacts with |
|---|---|---|---|---|
| address manager table | `src/src/addrman.h` (`CAddrMan`, `CAddrInfo`) | `nIdCount`, `mapInfo`, `mapAddr`, `vRandom`, `nTried`, `vvTried`, `nNew`, `vvNew` | `Add`, `Add(vector)`, `Good`, `Attempt`, `Select`, `GetAddr`, `Connected`, `size` | networking threads call it concurrently, and every entry point takes `LOCK(cs)` |
| address manager codec | `addrman.h:249-381` | the same, and the stream `addr.dat` | the write branch and the read branch of `IMPLEMENT_SERIALIZE` | the address database dumps it periodically and loads it at start |
| script check queue | `src/src/checkqueue.h` | `queue`, `nIdle`, `nTotal`, `fAllOk`, `nTodo`, `fQuit`, the mutex, `condWorker`, `condMaster`, and each thread's `vChecks`, `nNow`, `fOk` | `Loop` (worker `Thread`, master `Wait`), `Add`, the `CCheckQueueControl` constructor, `Wait` and destructor | one master thread and N-1 worker threads |
| leveldb log reader | `leveldb/db/log_reader.cc`, `log_format.h` | `buffer_`, `eof_`, `end_of_buffer_offset_`, `last_record_offset_`, the file position | `ReadRecord`, `ReadPhysicalRecord`, `SkipToInitialBlock`, `ReportDrop`, `LastRecordOffset` | reads files written by `log::Writer` (whose body is not in the tree), possibly torn by a crash, and tells a `Reporter` about dropped bytes |
| leveldb skip list | `leveldb/db/skiplist.h` | nodes, `max_height_` | `Insert`, `Contains`, iterator | one writer with concurrent readers |
| leveldb block builder, hash | `leveldb/table/block_builder.cc`, `leveldb/util/hash.cc` | `buffer_`, `restarts_`, `counter_`, `finished_`, `last_key_`; `Hash`'s `h` and data pointer | `Add`, `Finish`, `Reset`; `Hash` | the table builder and the bloom filter that call them are not in the tree; the blocks and filters they produce are stored in table files |
| daemon and GUI start-up and shutdown | `src/src/bitcoind.cpp`, `src/src/qt/bitcoin.cpp` | the shutdown flag, the node's thread group, the detect thread; in the GUI the two event loops, the signals queued between the GUI thread and the core thread, the client model, window and timer | `AppInit`, `DetectShutdownThread`, `main`; `ticoinApplication::requestShutdown`, `initializeResult`, `shutdownResult`, `ticoinCore::initialize`, `shutdown` | `AppInit2`, `Shutdown` and `StartShutdown` of `init.cpp` (not in the tree), signal handlers and the RPC `stop` |
| coin control dialog | `src/src/qt/coincontroldialog.cpp` | the static `coinControl` selection and `payAmounts`; the tree widget's items, their check states and disabled flags; the labels | `setModel`, `updateView`, `updateLabels`, `viewItemChanged`, `buttonSelectAllClicked`, `showMenu`, `lockCoin`, `unlockCoin`, `radioTreeMode`/`radioListMode`, closing | the wallet (locks, spends; also changed by RPC and other wallets), the send dialog (`payAmounts`), Qt's synchronous `itemChanged` |
| public key encoding | `src/src/key.h:41-128` (`CPubKey`) | `vch[65]`, whose header byte `vch[0]` gives the length | the constructors, `Set`, `size`, `Invalidate`, `Serialize`, `Unserialize` | the wallet database reads and writes its key records through it; a damaged file gives it records no `CPubKey` wrote |
| mempool, `CKey`, base58, other GUI widgets, tests | `txmempool.h`, `key.h:176-314`, `base58.h`, the rest of `qt/`, `test/` | none that is executable here (declarations), or widgets | | |

Behaviours that are hard to test:

- **Address manager.** Bucket eviction when a bucket is full: `ShrinkNew`
  deletes an entry, and `MakeTried` pushes a tried entry back to new. There
  are four cross-indexed structures (`mapInfo`, `mapAddr`, `vRandom`, the
  buckets) and two counters that must agree. The codec rebuilds `mapAddr`,
  `vRandom` and `vvTried` from a compact stream. That stream may come from a
  build with different `ADDRMAN_` parameters or may be corrupt. The unlocked
  `size()` is a data race.
- **Check queue.** Threads interleave around one mutex and two condition
  variables. There are notify_one and notify_all, spurious wake-ups and
  batch sizing. The master joins the pool in `Wait`, and the last worker
  must wake it. The constructor's asserts read shared fields without the
  mutex.
- **Log reader.** A logical record is cut into FIRST/MIDDLE/LAST fragments
  at 32 KiB block boundaries, with trailers of fewer than 7 bytes. The file
  may end inside a header or a payload after a crash, hold preallocated
  zeros, or have a broken crc. The reader may start at an `initial_offset`
  in the middle of the file. Each case takes a different early return of
  `ReadPhysicalRecord`, and `ReadRecord` must neither splice two records nor
  report an undamaged file.
- **Block builder and hash.** A key is stored as the suffix it does not
  share with `last_key_`, except every `block_restart_interval`-th key,
  which is stored whole; `last_key_` is rebuilt from its prefix and must be
  cleared by `Reset`. `Hash` works in wrapping `uint32_t` arithmetic and
  reads its last 1 to 3 bytes through `const char*`, whose signedness is
  the compiler's choice.
- **Start-up and shutdown.** A shutdown can be asked for at any moment:
  before the node's threads exist, while `AppInit2` runs, or after it has
  returned. `ticoind` polls for it in a thread that must be interrupted
  when `AppInit2` fails. `ticoin-qt` runs `AppInit2` and `Shutdown` in a
  core thread and talks to it only through queued signals, so
  `initializeResult` can reach the GUI after the GUI has begun its own
  shutdown.
- **Coin control.** Setting a checkbox re-enters `viewItemChanged`
  synchronously, which may set it again; a tristate address passes its
  state to locked children too. The selection is static and outlives the
  dialog while locks and spends change underneath it. The fee and change
  arithmetic has a sub-cent branch and a dust branch.
- **Public keys.** `CPubKey` stores no length: `size()` is read off the
  header byte. `Unserialize` trusts the length the stream declares: up to
  65 bytes are read into `vch` as they come, and a longer record is skipped
  byte by byte. So a record's framing and the key's own idea of its length
  can disagree.

## 2. Modules

| module | models | kind |
|---|---|---|
| `AddrMan` | `CAddrMan` and `CAddrInfo`: table actions and the codec | detailed specification |
| `AddrManAbstract` | what the address manager promises: each address is absent, new or tried | abstract specification |
| `MC_AddrManPersist` | instantiate `AddrMan` with model-value addresses and sources and fixed bucket functions | MC modules |
| `CheckQueue` | `CCheckQueue` and `CCheckQueueControl` | detailed specification |
| `MC_CheckQueue` | two workers and a master | MC module |
| `LogReader` | `log::Reader`, and the records the writer added (a history) | detailed specification |
| `LogWriter` | the files `log::Writer::AddRecord` produces, and crash, crc and preallocation damage | operators (from the format) |
| `MC_LogReader` | small blocks, the set of logs a reader may be given, initial offsets | MC module (also instantiated by `MC_LevelDB`) |
| `SkipList` | `leveldb::SkipList`: one writer, lock-free readers | detailed specification |
| `BlockBuilder` | `leveldb::BlockBuilder` over bytes, and a reader of the block format | detailed specification, with a reference decoder |
| `Hash` | `leveldb::Hash`, one loop iteration per step, in 4-byte `uint32_t` words | detailed specification, with a reference definition |
| `MC_Hash` | strings of 0 to 6 bytes over {0, 127, 128, 255}, two seeds | MC module (the signed-char build) |
| `MC_LevelDB` | `SkipList`, `BlockBuilder`, `Hash` and `LogReader` as one model: a behaviour picks one unit and runs it, the others stay constructed | MC module |
| `Startup` | `ticoind`'s `AppInit`, `DetectShutdownThread` and `main`; `ticoin-qt`'s `main`, `ticoinApplication` and `ticoinCore` | detailed specification |
| `CoinControl` | `CoinControlDialog`, with the wallet and send dialog around it as environment actions | detailed specification |
| `PubKey` | `CPubKey`: its bytes, `Set`, and its records in a stream that may also hold damaged ones | detailed specification |
| `MC_Startup` | `Startup` with the early exits of each front end, `CoinControl` over three outputs and `PubKey` with one key: a behaviour picks one unit and the others stay in their initial states | MC module |

### AddrMan

The whole `CAddrMan` object is one record variable `am` with the class's
fields. `mapInfo` and `mapAddr` are functions with a growing domain, standing
for `std::map`. `vRandom` is a sequence, and the buckets are sequences or
sets of ids.

- Every public entry point holds `LOCK(cs)` for its whole body, so it is one
  atomic action: `Add`, `AddVector`, `Good`, `Attempt`, `GetAddr`.
  `Add(vector)` is one action that applies `Add_` to each address in turn.
- The private helpers are `Create`, `SwapRandom`, `ShrinkNew`, `MakeTried`,
  `Add_`, `Good_`, `Attempt_` and `GetAddr_`. Their bodies are in
  `addrman.cpp`, which is not in the tree, so they are written from the spec
  and marked `spec_modelled`. Each one maps a table to the set of tables it
  may become, and the set stands for `GetRandInt`.
- The bucket functions `GetNewBucket` and `GetTriedBucket` hash with a
  secret key. They are constants (`NewBucketOf`, `TriedBucketOf`) chosen in
  the MC modules so that addresses collide.
- Time is abstracted. `nLastSuccess` is 0 or 1, and `nTime` and `nLastTry`
  are left out. So are `IsTerrible`'s age clauses, which only choose which
  entry `ShrinkNew` evicts; the model lets it evict any entry.
- `disk` is the content of `addr.dat`. It is a record holding `nNew`,
  `nTried`, `nUBuckets`, the sequence of new infos, the sequence of tried
  infos and the per-bucket index lists.
- `Serialize` is the write branch. Its two passes use the same early `break`
  on `nIds == nNew` and `nIds == nTried`, and `mapUnkIds` defaults to 0.
- `Unserialize` is the read branch. It keeps the rebucketing when
  `nUBuckets` differs, the `nLost` accounting for full tried buckets, the
  default insertion of `mapInfo[nIndex]`, and the reference-count cap.
- `Dump` writes the file. `Restart` rebuilds the table from it, or starts an
  empty one when there is no file.
- `savedView` and `diskStatus` are history variables. They hold what was
  saved, for the round-trip property and for the refinement.

`AddrManAbstract` keeps only each address's status: absent, new or tried.

- `Learn(A)` is an add of the batch `A`. It may make addresses of `A` new and
  may drop at most `|A|` new addresses. It never touches tried ones.
- `Promote(a)` is a `Good` of a new address. It makes `a` tried, may demote
  one tried address and may drop one new one.
- `Save` and `Restart` record the status and return to it.

`AddrMan` implements it under the mapping `status <- StatusOf(am)`,
`saved <- diskStatus`.

### CheckQueue

Shared state is `queue` (a sequence of check results, used as a stack),
`nIdle`, `nTotal`, `fAllOk` and `nTodo`. `fQuit` is the constant FALSE,
because no code sets it. The per-thread locals are `vChecks`, `nNow` and
`fOk`, and `pc` gives each thread's position. A check is its boolean result.

The mutex is the variable `mutex`. Each action is one critical section, or
one piece of one:

| action | code |
|---|---|
| `Cleanup` | `checkqueue.h:69-82` |
| `Return`, `Sleep`, `TakeBatch` | the three outcomes of the `while (queue.empty())` test |
| `Wake` | returning from `cond.wait`, which takes the mutex back and does `nIdle--` |
| `SpuriousWake` | a wake-up without a notify |
| `Work` | running the batch outside the lock |

A thread keeps the mutex from `Cleanup` or `Wake` until it returns, sleeps or
takes a batch. `Control` is the constructor, whose asserts read the fields
without the mutex. `Add` pushes the checks, adds to `nTodo` and notifies one
waiting worker for a single check, or all of them for more. `Wait` enters
`Loop(true)`.

Shutdown is `threadGroup.interrupt_all()` (`InterruptThreads`, from
`DetectShutdownThread`, `bitcoind.cpp:44-47`): `intr` holds the threads
with a request pending. `cond.wait` is a Boost interruption point, and
`Loop` has no handler, so `Interrupted` throws `thread_interrupted` out of
it between `nIdle++` and `nIdle--`; `nIdle` and `nTotal` keep counting the
abandoned `Loop`, one each, so their difference stays right. A worker's thread ends. The
master's exception leaves `CCheckQueueControl::Wait` with `fDone` false, so
the destructor runs `Wait` again while unwinding (`unwinding`); when that
`Loop(true)` returns, the master's thread ends (`AfterWait`). Between
blocks the master's thread ends at an interruption point of its own
(`MasterExit`, written from the message handler's loop, which is not in the
tree). A waiting thread with a request pending throws instead of `Wake`.

### LogReader

The file is a sequence of cells, one per byte. The first byte of a physical
record's header carries the type, the length, the record it was written for
and whether its stored crc is intact. The other header bytes are padding. A
payload byte carries the id of its logical record. A zero byte is a trailer
or preallocated space. The crc matches when the stored crc is intact and the
payload cells are the ones it was written over (`CrcMatches`). The variable
`rd` holds `buffer_`, `end_of_buffer_offset_`, `eof_` and the position of
the `SequentialFile`.

`ReadRecord` is one action: the client's call with its whole loop.

- `ReadLoop` is the `while (true)` of `log_reader.cc:74-162`, one CASE arm per
  `switch` case. It keeps the code's order: the physical offset is computed
  before `ReadPhysicalRecord` runs.
- `ReadPhysicalRecord` is `log_reader.cc:181-263`. Its branches are
  `BadRecordLength`, the zero-type skip, the crc check, the skip of records
  before the initial offset, and `Fragment`.
- `ReportDrop` keeps the uint64 subtraction of line 176 (`UnsignedGE`).

`returned` records each record and the `LastRecordOffset()` after it. The
client stops after the first false, so the runs disable deadlock checking.

`LogWriter` writes the logs with `EmitFragments`, which follows the layout
`log_format.h` prescribes:

- a block tail shorter than a header is zero-filled;
- each fragment is as long as fits;
- a record is a do-while, so an empty FIRST fragment at a tail of exactly
  `kHeaderSize` occurs.

`Truncated`, `Corrupted` and `ZeroFilled` are the damage a file can carry.

### SkipList

A node is named by its key. `next[n][l]` is `next_[l]` of node `n`, and
`height` is each node's array length. The variable `w` is the writer inside
`Insert`: its key, its height, `prev[]` and the level it links next.
`inserted` is the history of the Inserts that have returned.

- `InsertStart` covers lines 334-360: `FindGreaterOrEqual` with `prev`,
  `RandomHeight` (any height), `prev[i] = head_` and the barrier-free store
  to `max_height_` for the new levels, and `NewNode`.
- `InsertLink` is one iteration of the final loop. Nothing else writes, so
  `x->NoBarrier_SetNext` and the release store `prev[i]->SetNext` are one
  step.

A reader (`rs`) starts `Contains`, `Seek`, `Prev` or `SeekToLast`. It reads
`max_height_` as any value at least as new as the last one it saw. Every
`x->Next(level)` load of the search loop is one `SearchStep`, which moves
right, returns at level 0 or drops a level, as `FindGreaterOrEqual`,
`FindLessThan` or `FindLast` would. `SeekToFirst` and `Next` are single
loads. The acquire/release pairs on `next_` make the model sequentially
consistent for those pointers. The search keeps `snap`, the keys that were
in the list when it began, so that its result can be judged.

### BlockBuilder

`buffer_` is a sequence of bytes, and keys and values are byte sequences.
`Add`, `Finish` and `Reset` are one action each, with the guards of the
asserts in `Add` (not finished, `counter_` within the interval, keys in
increasing order). `SharedLen` is Add's `while` loop over the common
prefix, `ShareWithPrevious` its `counter_ < block_restart_interval` test,
and `UpdateLastKey` its `resize` and `append`. `Varint` and `Fixed32` follow
the formats of `util/coding.h`, and `KeyLess` the bytewise comparator;
neither is in the tree. `added` is the history of the pairs added since the
last `Reset`.

The properties decode a finished block the way the comment at the top of
`block_builder.cc` describes it: the restart count at the end, the restart
array before it, and entries of three varints, the key suffix and the value
(`Entries`, `GetVarint`, `Fixed32At`).

### Hash

A `uint32_t` is four bytes, least significant first. `Add32` and `Mul32`
pass carries from column to column and keep four bytes, so they wrap at
2^32 while TLC's own integers never exceed 2^31. `Init` is `h = seed ^ (n *
m)`. `Word` is one iteration of the `while` loop (`MixWord`: add, multiply,
`h ^= h >> 16`). `LoopExit` leaves it, and `TailBytes` is the whole
`switch`, with its fall-through from case 3 to 1 and the final mix. The
constant `CharIsSigned` is the build: `CharWord` is what `data[i] << k`
adds when `data[i]` is a `char`, sign-extended when `char` is signed.
`RefHash` is the hash as leveldb's own tests define it: every byte
unsigned. It reproduces the published vectors of `hash_test.cc`
(0x62 gives 0xef1345c4 with seed 0xbc9f1d34).

### Startup

One module holds both front ends; `front` picks one in the initial state.
The shared variables are `shutdownReq` (`fRequestShutdown`), `group` (the
node's `thread_group`: `"empty"`, `"running"`, `"interrupted"` or
`"stopped"`), `initResult` (what `AppInit2` returned or threw), `coreDown`
(`Shutdown()` has run) and `exitCode` (`Running` until the process ends).

- **`ticoind`.** `mpc` is `AppInit`'s program counter and `detect` the
  detect thread's; `detectInt` is its interruption request.
  - `DaemonEarlyExit` is every return before line 142; its status comes
    from `main`: `return true` for the fork parent, `exit(ret)` for the RPC
    client.
  - `DaemonThrow` is an exception before the detect thread exists.
  - `DaemonAppInit2` is lines 142-143, `DaemonAfterInit` the `if (!fRet)`
    block, and `DaemonShutdown` the join, `Shutdown()` and `main`'s return.
  - `DetectCheck`, `DetectSleep`, `DetectInterruptAll` and `DetectJoinAll`
    are the lines of `DetectShutdownThread`. `MilliSleep` and `join_all`
    are Boost interruption points, so they end the thread once
    `detectInt` is set.
- **`ticoin-qt`.** `gpc` is `main`'s program counter across its two
  `app.exec()` loops, and `cpc` is the core thread's. `guiQ` and `coreQ`
  are the events posted to each thread, and `coreQuit` is the core
  thread's `quit()`. `clientModel`, `windowShown`, `timerOn`, `tornDown`
  and `returnValue` are the application's fields.
  - `GuiEvent` delivers the oldest event of `guiQ`: `initializeResult`,
    `shutdownResult` or `handleRunawayException`.
  - `CoreInitialize`, `CoreShutdownStart` and `CoreShutdownFinish` are
    `ticoinCore::initialize` and `shutdown`.
  - `CoreQuit` ends the core thread's loop. It may come before an event
    that is already posted, because `quit()` is called from the GUI thread.
- `NodeThreadsStop` is an interrupted node thread reaching an interruption
  point. `RequestShutdown` is `StartShutdown`: a signal, the RPC `stop`,
  or the session ending.

### CoinControl

`selected` is `coinControl->setSelected`, `locked` and `spent` are the
wallet's, `payAmounts` is the static list the send dialog fills. `shown`,
`checked` and `disabled` are the items of `treeWidget` while `open`;
`labels` is the record of values `updateLabels` displays (quantity,
amount, fee, after fee, bytes, change), before formatting. `menu` is the
context menu while its `exec()` runs: `contextMenuItem` and whether the
lock and unlock actions are enabled.

- `ViewItemChanged` and `SetCheckState` are mutually recursive: Qt emits
  `itemChanged` only when the state changes, and delivers it to
  `viewItemChanged` at once; for a disabled item that handler sets the
  box back to Unchecked, which re-enters it. `SetAll` is a parent or
  select-all setting many children.
- `Labels` is the computation of `updateLabels` (lines 440-573): `Live`
  drops and unselects spent outputs, `TxBytes` the size estimate,
  `SubCent`, `NoDust` and `AfterFee` the three adjustments. `MinFees` is
  what `GetMinFee` (not in the tree) may return.
- `View` is `updateView`; `Open` is `setModel`; `ClickOutput`,
  `ClickAddress`, `SelectAll`, `LockCoin`, `UnlockCoin`, `ToggleMode` and
  `Close` are the slots, each with every `updateLabels` it triggers.
  `LockCoin` updates the labels only if the box was checked, because only
  then does `viewItemChanged` run with the tree enabled.
- `ShowMenu` is `showMenu`: for an output it enables lock or unlock by
  what the wallet says at that moment, for an address neither. The menu's
  nested event loop takes the dialog's input, so every other slot waits
  for `menu = None`. The wallet does not wait: `RpcLock` and
  `SpendElsewhere` may run while the menu is open. This makes the enabled
  action stale by the time `LockCoin` or `UnlockCoin` (now the menu's
  actions on its item) runs. `DismissMenu` closes it with a copy action
  or nothing. `updateLabelLocked` only sets a label's text and is left
  out.
- `SpendElsewhere`, `RpcLock` and `SetPayAmounts` are the environment.

### PubKey

`key` holds each object's `vch` (indices `0..PubKeySize-1`). `stream` is
the `CDataStream`, written at the back and read from the front; its
elements are bytes, and a length below 253 is its own one-byte
CompactSize. `pending` records, for each record in the stream, whether a
`CPubKey` wrote it. `last` keeps the last `Unserialize`: the object, the
bytes it read and the key it left.

- `GetLen`, `Size`, `Invalidate`, `SetBytes` (with `CopyIn` for the
  `memcpy`), `Serialized` and `Unserialized` are the member functions.
- `Construct` is `CPubKey()`: only `vch[0]` is written, and the other bytes
  hold whatever `Garbage` allows. `Set` is `Set` and the two constructors
  that call it. `Serialize` and `Unserialize` are `s << pubkey` and
  `s >> pubkey`.
- `Damage` appends a record no `CPubKey` wrote. A stream that ends before
  the length it declares makes `CDataStream::read` throw. The model reads
  only whole records, so that case is left out.

## 3. Runs

| run | module / cfg | expect | what it shows |
|---|---|---|---|
| `addrman` | `MC_AddrManPersist` / `MC_AddrManPersist.cfg` | pass | Any sequence of Add, Add(vector), Good, Attempt, GetAddr, Dump and Restart keeps the consistency conditions of `Check_` (`Consistency`: the maps are mutual inverses, `vRandom` is a permutation with back-pointers, reference counts equal bucket memberships, a tried entry sits in its tried bucket only, and the counters are right) and the bucket capacities (`BucketCapacity`). A restart from the file just written gives back exactly the saved entries, their fields and their buckets (`RoundTrip`), and the whole system refines `AddrManAbstract` (`RefinesAbstract`). |
| `addrman_upgrade` | `MC_AddrManPersist` / `MC_AddrManUpgrade.cfg` | violation | An `addr.dat` written with 4 new buckets is loaded by a build with 2: both entries are rebucketed into one bucket of size 1 without a capacity check (`BucketCapacity`). |
| `addrman_corrupt` | `MC_AddrManPersist` / `MC_AddrManCorrupt.cfg` | violation | One bucket index in the file is changed to an id that names no entry: the load default-inserts a phantom entry known to no index (`Consistency`). |
| `checkqueue` | `MC_CheckQueue` / `MC_CheckQueue.cfg` | pass | With two workers and the master, and a shutdown at any step or none, whenever the mutex is free: `nTodo` is the queue plus the batches held, `nTotal - nIdle` is exactly the threads in `Loop` outside `cond.wait`, and `nIdle` counts exactly the waiting threads until `interrupt_all`, after which the `Loop`s `thread_interrupted` abandoned leave it only higher (`Bookkeeping`), and Wait returns the conjunction of exactly the block's checks (`WaitResult`). |
| `checkqueue_shutdown` | `MC_CheckQueue` / `MC_CheckQueueShutdown.cfg` | pass | Every Wait returns (`WaitReturns`). After `interrupt_all()`, whatever each thread was doing, every worker and the master end, the master first finishing its block's checks in the control's destructor, so `join_all()` returns (`ThreadsEnd`). |
| `logreader_lastoffset` | `MC_LogReader` / `MC_LogReaderLastOffset.cfg` | violation | A record that starts a block after a trailer gets the trailer's offset as its `LastRecordOffset` (written at 8, reported 6). The offset is computed at line 75, before the trailer is skipped (`LastOffsetExact`). |
| `logreader_resync` | `MC_LogReader` / `MC_LogReaderResync.cfg` | violation | An undamaged log read from an offset inside a fragmented record reports "missing start of fragmented record" for the record's tail. `log_reader.h` says the reporter hears only of corruption (`NoSpuriousReports`). |
| `leveldb` | `MC_LevelDB` / `MC_LevelDB.cfg` | pass | Each behaviour runs one leveldb unit. **SkipList:** a reader's loads interleave with Inserts that raise `max_height_`. Every level stays sorted and holds exactly the nodes linked at it (`Structure`). No walk loads past a node's `next_` array (`NoOverread`). Every search is right for the keys present when it began (`SearchCorrect`), and every search returns (`SearchTerminates`). **log::Reader:** every log of up to three records cut at every byte, and every log of up to two records with a broken header crc and/or a zero-filled last block, read from every `initial_offset` in 0..40. A log with no damaged header returns exactly the complete records that start at or after the offset (`ReadsBack`); the second `SkipToInitialBlock` a stale `last_record_offset_` could trigger never loses one. An intact log read from 0 reports nothing (`NoReportsFromStart`). Whatever the damage, every record returned is one record exactly as written, in order, and every complete record after the damage is returned (`NoSplice`). **BlockBuilder:** any sequence of Add, Finish and Reset gives finished blocks that decode to exactly the pairs added since the last Reset (`DecodesBack`), with a restart point at entries 1, 1 + interval, ..., each stored whole (`RestartPoints`). **Hash:** with unsigned `char`, `Hash` equals `RefHash` for every string and seed (`HashMatchesReference`): the loop bound, the fall-through and the wrap at 2^32 are right. |
| `hash_signed_char` | `MC_Hash` / `MC_HashSignedChar.cfg` | violation | With signed `char`, the single byte 0x80 hashes differently: line 37 sign-extends it. Filters built from `Hash` are stored in table files (`filter_block.h:5-7`), so their meaning depends on the platform (`HashMatchesReference`). |
| `checkqueue_control` | `MC_CheckQueue` / `MC_CheckQueueControl.cfg` | violation | The control constructor's unlocked asserts can observe a worker between `nTotal++` and `nIdle++`, or between `nIdle--` and `nIdle++` (`ControlAsserts`). |
| `startup` | `MC_Startup` / `MC_Startup.cfg` | pass | For both front ends and every early exit, AppInit2 outcome and moment of a shutdown request: `Shutdown()` never runs before the node's threads are joined, except on `ticoind`'s failure path, which by design only interrupts them (`ShutdownAfterJoin`). Once `AppInit2` has returned true, neither binary exits before `Shutdown()` has run (`ShutdownBeforeExit`). A requested shutdown, or a failed or throwing `AppInit2`, always ends the process (`ExitsWhenAsked`). **Coin control:** through clicks on outputs and addresses, select all, lock and unlock from a context menu whose enabled action may be stale, mode changes, closing and reopening, with outputs locked by RPC and spent elsewhere at any moment: every shown unspent output's box is checked exactly when it is selected (`CheckedIsSelected`), no locked output in the view is selected (`LockedNeverSelected`), and when the labels show a payment that the inputs cover, amount = pay + fee + change with change zero, at least a cent, or above the dust threshold with at least `nMinTxFee` fee (`ChangeSound`). **Public keys:** a valid key written to the stream and read back, into an object that held anything before, is the key written, and it serializes to the very record read. Damaged records of every length, including ones past 65, may lie between (`RoundTrip`). |
| `startup_late_init` | `MC_Startup` / `MC_StartupLateInit.cfg` | violation | A shutdown is requested after `AppInit2` returned true, before `initializeResult` reaches the GUI. The timer quits the first loop, `requestShutdown` deletes the client model and hides the window, and then `initializeResult(1)` is delivered in the second loop. It creates a new `ClientModel` and shows the window while `ticoinCore::shutdown` runs (`NoModelAfterTeardown`). |

Each property of a passing run has a fault seed in `PROJECT.json`. The seed
is an operator defined just before the definition it replaces, and it changes
that definition the way a plausible bug would:

- a one-sided `SwapRandom`;
- a delete that keeps `nNew`;
- a capacity check after the insert;
- `Attempt_` decrementing;
- `nAttempts` left out of the stream;
- an off-by-one tried-room test;
- an uncapped batch size;
- `nIdle` not decremented on wake-up;
- `fAllOk` not reset;
- no notify of the master;
- a payload slice one byte early;
- a torn tail reported as a bad length;
- a skip that does not move `end_of_buffer_offset_`;
- a crc that covers only the header;
- `RandomHeight` looping to `kMaxHeight` inclusive;
- `x`'s own successor never set;
- a search starting at level `GetMaxHeight()`;
- levels published from the top down;
- a search loop missing `level--`;
- `counter_ <= block_restart_interval`;
- `last_key_` extended without `resize(shared)`;
- `Reset` keeping `last_key_`;
- a 64-bit `h`, not wrapped at 2^32;
- `data + 4 < limit` as the loop condition;
- `main` returning -1 (status 255) on failure;
- `join_all` taken as done once the threads are interrupted;
- a `DetectShutdownThread` sleep that is not an interruption point;
- `Unserialize` copying one byte fewer than it consumes;
- `ticoin-qt`'s `main` returning after its first `app.exec()`.

## 4. Bounds

**`addrman`.** Two addresses and two sources, with one tried bucket of 1
and two new buckets of 1; `a2` hashes into new bucket 0 from both sources
and every address may be in two new buckets. `MaxIdCount` is 4 and
`MaxAttempts` is 1. These reach:

- a full new bucket, so `ShrinkNew` evicts;
- a full tried bucket, so the second `Good` pushes the first back to new,
  into a full bucket;
- an address in two new buckets;
- ids that are never reused after deletion.

They do not reach the `nLost` branch of `Unserialize`: a file `Serialize`
wrote never holds more tried entries for a bucket than it has room for,
and with one tried bucket and unchanged bucket counts each entry goes back
where it came from. That branch is modelled but no run checks it.

**`checkqueue`.**

- There are two workers and the master, so a notify_all wakes more threads
  than there is work for.
- `nBatchSize` is 2, and a block has up to 6 checks in Adds of 1 or 2. A lone
  thread facing 6 checks is capped at 2, and crowded threads get the floor of
  1.
- Blocks repeat forever, and the history resets at each constructor, so the
  state space is finite without a block counter.
- `interrupt_all()` may come at any step, once, or never.

**`checkqueue_shutdown`.** The same threads, with up to 3 checks per block:
a block still leaves checks queued, batches held, and threads waiting on
both condition variables when the interruption comes. Six checks make the
liveness check take over four minutes and add no case a shutdown meets.

**log::Reader (`leveldb` and `logreader_*`).** `kBlockSize` is 8 and `kHeaderSize` is 3 (the code's
`kBlockSize - 6` is `kBlockSize - (kHeaderSize - 1)`). A block holds 5
payload bytes, and trailers of 1 and 2 bytes occur. Records are 1, 2, 3, 6
or 11 bytes long, so they are written as FULL, as FIRST/LAST, as
FIRST/MIDDLE/LAST, and with an empty FIRST at a block tail.

- Every log of up to three records, cut at every byte.
- Logs of up to two records, cut at every byte, with each header in turn
  broken and/or the last block zero-filled. Three damaged records take
  over a minute and a half from offset 0 alone and add no new case.
- The initial offsets 0..40 cover every position in the first five blocks,
  including trailers.

**`leveldb`.** The units add up: 430,991 states for the skip list, 3,222
for the block builder, 43,518 for the hash and the rest, about 645,000,
for the log reader. An idle unit stays in one constructed state (the idle
reader holds the empty file), so the units do not multiply.

*Skip list.* Three keys and `kMaxHeight` 3. An Insert can raise
`max_height_` twice, and nodes of heights 1 to 3 mix, so a reader can be
above, on or below a node being linked. There is one reader. Readers write
nothing shared, so a second reader cannot change what the first one sees.
With two readers the run takes over a quarter of an hour.

*Block builder.* `block_restart_interval` is 2 and a block holds up to 5
entries, so it has three restart points and keys share a prefix both with
a compressed predecessor and across a restart. Keys are the strings of up
to two letters over {a, b} (the empty key included) and values are empty
or one byte. All lengths stay below 128, so each varint is one byte; the
multi-byte varint is in `Varint` but not reached.

*Hash* (and `hash_signed_char`). Every string of 0 to 6 bytes over {0, 127, 128, 255}: no word,
one word and a tail of every length 0 to 3, and one word plus 1 or 2 bytes.
The bytes 127 and 128 sit on either side of the sign bit, and 255 makes
every carry of `Add32` and `Mul32` happen. The seeds are 0 and leveldb's
bloom seed 0xbc9f1d34.

**`startup*`.** Both front ends, each with every early exit of its `main`
(seven for `ticoind`, five for `ticoin-qt`). `AppInit2` may succeed, fail
or throw; a failure may come before or after it started node threads.
`StartShutdown` may happen at any step, once. That covers a request before
the detect thread's first check, during its sleep, after a failed init,
and, in the GUI, before, during and after `initializeResult` is
delivered. No counter is bounded: every thread's program is finite.

The coin control half has three outputs: two at one address and one at
another, so tree mode has a parent with two children and one with one.
Their values (1,000,000, 20,000 and 3,000 with `CENT` = 1,000,000,
`nMinTxFee` = 10,000, dust threshold 543) and the payment lists (none,
one cent, 1,009,800, and two outputs of 20,000 and 3,000) make every
branch of `updateLabels` happen: insufficient funds, change of zero, change
below `nMinTxFee` moved to the fee, sub-cent change with the fee raised,
change of a cent or more, and after-fee clamped to zero. The minimum fee
is 0 or 10,000. One output's key is uncompressed (180 bytes). Nothing is
unbounded: the state is sets of the three outputs.

The public key half has one object. Keys are 2 and 3 bytes long and stand
for the 33 and 65 of the code, with the same header bytes: 2 means
compressed, 4 means full, and 0 and 255 are invalid. `Set` gets vectors of
the right length, a wrong length and no bytes. Damaged records declare
lengths 0, 1, 2 and 4: empty, shorter than the header announces, exactly
as long, and past `PubKeySize`, which takes the skip branch. The stream
holds at most 6 bytes, which is room for two records. Uninitialized bytes
are 0, a value no record of length 2 writes at position 2, so a stale byte
is visible.

## 5. Fairness

`CheckQueue` assumes weak fairness for each thread's steps: a runnable
thread is scheduled. It assumes strong fairness for the two steps that take
the mutex (`Cleanup`, `Wake` and `Interrupted`): a thread blocked on a
mutex that others keep releasing eventually gets it. Without the second assumption, TLC shows
workers spinning through spurious wake-ups and retaking the mutex forever
while the master waits for it. A real scheduler does not starve a thread
like that. Spurious wake-ups, Adds, the constructor and the shutdown carry
no fairness. `Wait` is weakly fair: a block the master began ends in `Wait`,
called by the block's validation or by the control's destructor on an early
return. `MasterExit` is strongly fair: the message handler passes an
interruption point every round of its loop, however many blocks the round
connects. `AddrMan` checks
safety and refinement only, so it has no fairness. `SkipList` assumes weak fairness for each reader's `SearchStep`: a thread
in the loop keeps running. The writer and the start of an operation need
none, because `SearchTerminates` holds whatever the writer does. `MC_LevelDB` states that
fairness for the skip list's reader only. `BlockBuilder` and `Hash` check
invariants only, and so does
`LogReader`: its
properties are invariants over what has been returned so far, together with
what holds once `ReadRecord` has returned false.

`Startup` assumes weak fairness for each thread group: the daemon's main
and detect threads (`Daemon`), the GUI thread (`Gui`), the core thread
(`Core`), and the node threads' reaching an interruption point
(`NodeThreadsStop`). Each is a runnable OS thread, and a running
`QTimer` keeps firing. `StartShutdown` carries no fairness, because nobody
has to ask for a shutdown; `ExitsWhenAsked` is conditional on the request.
`CoinControl` and `PubKey` check invariants only and have no fairness: a
user need not click anything, and the wallet need not read a key.

## 6. Not modelled, and why

- **`Select`, `Connected`, `size`.** `Select` and `Connected` change only time
  stamps, which are abstracted away. `size()` is a read. Its unlocked access
  is a hazard listed in `PROJECT.json`.
- **The hashing of `GetNewBucket` and `GetTriedBucket`.** They are replaced
  by fixed functions.
- **The code of `addrman.cpp`.** It is not in the tree. Its helpers are
  written from the spec.
- **The body of `log::Writer`.** `log_writer.cc` is not in the tree.
  `LogWriter` is written from `log_format.h`.
- **Failing `Skip` and `Read` of a `SequentialFile`.** These error paths are
  `log_reader.cc:49-52` and `189-193`. Env I/O errors are not modelled.
- **`BlockBuilder::CurrentSizeEstimate` and `empty`.** They are reads.
- **A second `Finish`, or `Add` after `Finish`.** `Finish` has no guard, and
  `Add` only asserts. The callers (`table_builder.cc`) are not in the tree,
  so the model follows their contract: one `Finish` per block, then
  `Reset`.
- **The rest of leveldb.** Only headers are in the tree.
- **`init.cpp`.** `AppInit2`, `Shutdown` and `StartShutdown` are not in the
  tree. `AppInit2` is a contract: it returns true only if no shutdown was
  requested, and it may leave node threads running whatever it returns.
  `Shutdown` is the moment `coreDown` is set. `ticoinGUI::detectShutdown`
  (`bitcoingui.cpp`, not in the tree) is the timer's quit once a shutdown
  is requested.
- **Exceptions thrown by `ticoin-qt`'s own `main`** (`createWindow`,
  `requestShutdown`; lines 608-614), and the payment server. Both end in
  `::exit(1)` or only affect URI handling.
- **A second start-up race.** The model contains it, and the run checks
  `ShutdownBeforeExit` only for a successful `AppInit2`. After a failed
  one, the property fails in ten steps:
  1. the timer ends the first loop;
  2. a failing `initializeResult` is delivered in the second loop, and
     `main` returns;
  3. `stopThread` calls `coreThread->quit()` directly, and the core
     thread's loop ends before it delivers the `requestedShutdown` already
     posted;
  4. `Shutdown()` never runs, and node threads that the failed `AppInit2`
     started are still running when the process exits.

  It is listed as a hazard.
- **`ticoin-qt` returns `false` (exit status 0) when the configuration file
  does not parse** (`qt/bitcoin.cpp:532`); the other errors return 1.
  `QtEarlyCode` models this as the code has it; no property is about exit
  statuses of the early returns.
- **Coin control's sorting, header clicks, context-menu copies, clipboard,
  the locked-count label, priority labels and formatting.** They change no state that the
  selection or the labels depend on. Qt5's partially-checked parent fix
  (lines 390-399) is the parent reaching Checked, which `ClickAddress`
  already gives. Two stale states are in the model without a property:
  a mode change can unselect an RPC-locked output without updating the
  labels, and `updateLabels` unselects a spent output but leaves its box
  checked. Both last only until the next `updateLabels`.
- **`CKey`, the comparison operators of `CPubKey`, `GetID`, `GetHash` and
  `IsValid`.** `CKey`'s bodies are in `key.cpp`, which is not in the tree.
  The rest are reads or hashes. CompactSize lengths of 253 and more are
  not reached, because a length above 65 takes the skip branch whatever
  its encoding.
- **The short public key record.** `Unserialize` does not check that the
  length read equals the `size()` of the header it read. A damaged record
  `<<1, 2>>` leaves a key that is valid, with 2 bytes of which only one
  came from the stream. TLC finds this in three steps. It is listed as a
  hazard, and no run keeps the check.
- **GUI, tests, declarations-only headers.** They have no executable state
  logic here.

## 7. Plan

Order of the next modules:

1. (done) `LogReader`.
2. (done) `SkipList`.
3. (done) `BlockBuilder` and `Hash`, checked against a reference decoder
   and a reference hash.
4. (done) `Startup`: `bitcoind.cpp` and `qt/bitcoin.cpp`, start-up and
   shutdown of both front ends.
5. (done) The check queue's shutdown by `interrupt_all()`.
6. (done) The coin control dialog.
7. (done) `CPubKey`'s encoding.
8. The `size()` data race of `addrman.h:396`, as a nondeterministic read
   beside `Add_`.

The composition of the check queue with a block validator is out of reach,
because the code that uses it is not in the tree.
