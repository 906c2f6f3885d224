# TLA+ models of the header chain (`src/core/headerchain.go`)

This directory checks the header chain of `src/core/headerchain.go` with TLC.
The header chain keeps five things:

- the stored headers;
- the canonical number→hash table;
- the current head;
- a bounded registry of branch heads with garbage collection;
- read-through header and number caches.

## The system and its parts

| Part | Code | What it does |
|---|---|---|
| Appender | `Append`, `Appendable` (144-213) | Runs under `headermu`. It asks the consensus engine and the body chain whether the block is appendable. It writes the header, then appends the body; if the body append fails, it deletes the header again. If the registry is full, it trims `heads[0]`'s branch back to its `findCommonHeader` result and dequeues it. Finally it queues the new header and sorts the registry by number with `sort.Slice`, which is not stable. |
| Chain selector | `SetCurrentHeader` (217-334) | Runs without any lock. It stores and persists the new head first (line 229). A child of the old head only gets its canonical entry. Any other head starts a reorg walk. |
| Heads registry and GC | `trim`, `findCommonHeader`, `Reset`/`ResetWithGenesisBlock` (337-392) | `trim` deletes headers from a start header back to a common header, and stops silently at an unreadable one. `Reset` trims every registered head back to genesis. |
| Lifecycle | `NewHeaderChain`, `loadLastState`, `Stop` (98-141, 396-442) | At startup it reads genesis (canonical entry 0), the stored head hash and the stored heads hashes. `Stop` runs once and persists the registry and the head hash. |
| Query engine and caches | `GetHeader`, `GetHeaderByHash`, `GetBlockNumber`, `GetHeaderByNumber` (476-642) | Read the cache first, then the database, and fill the cache on a hit. The LRU caches (512 and 2048 entries) are never invalidated when a header is deleted. |
| Ancestor queries | `GetBlockHashesFromHash`, `GetAncestor` (492-550) | Walk parents through the caches. `GetAncestor` also reads the canonical table twice to short-cut the walk. Neither takes a lock. |
| Not modelled yet | `GetTd`, `GetAncestorByLocation`, `CheckContext`, `CheckLocationRange`, `SetGenesis`, the headers stored in the returned `sliceHeaders` | |
| Export | `Export`, `ExportN`, `GetBlockByNumber`, `GetBlock` (671-673, 728-776) | Holds `headermu` for reading. It streams the canonical blocks `first..last` in order and stops with an error at a missing block or a writer error. By then it has already written the blocks before it. |
| Not modelled | `GetBlockByHash`, body and gas helpers, `GetBlocksFromHash` | These are read-only delegations to the body chain. |

The reorg walk is a loop that runs the old side and the new side together:

- The old side deletes `canon[Num(prev)]` and steps `prev` back.
- The new side pushes `newHeader` and steps it back.
- The side that reaches the common header first finishes the other side in an inner loop: lines 250-265 for the new side, 276-292 for the old side.
- The walk also breaks once `prev` is genesis (line 301).
- The stack is then replayed into the canonical table.

How the parts interact:

- Eviction and the reorg both use `findCommonHeader`, which reads the persisted canonical table.
- `trim` and the reorg walks read parents through the header cache, which can still hold headers that have been deleted.

## Modules

**`HeaderChain.tla`** models the whole file.

Data:
- Blocks are hashes (model values).
- A constant `ParentOf` fixes the tree of all headers that can ever exist.
- `Num` is the block number. `Nil` is a nil header, and `NoHash` is `common.Hash{}`.

Variables:
- Database: `headers`, `canonicalHash`, `headBlockHash`, `headsHashes`.
- Process memory: `alive`, `stopped`, `currentHeader`, `heads`, `headerCache`, `numberCache`.
- Locals of a `SetCurrentHeader` call in progress: `pc`, `head`, `prevHeader`, `newHeader`, `commonHeader`, `hashStack`.

Read operators:
- `GetHeader`, `GetHeaderByHash`, `FindCommonHeader` and `Trim` (RECURSIVE) thread a record `[db, hc, nc]`, so every cache fill made during a walk is kept.

Actions:
- `AppendBlock` has three disjuncts: rejected, body append fails, and success (`AppendOk` → `Enqueue`).
- `Reset`, `Stop`, `Exit`, `Restart`, and `GetHeaderCall` (a caller of `GetHeader`, lines 600-612, filling the cache).
- `SetCurrentHeader` followed by the steps `SCHCommon`, `SCHWalk`, `SCHFillNew`, `SCHUnwindOld` and `SCHReplay`, one loop iteration per step. Their guards and case order follow the Go statements, including each nil-pointer dereference.
- A dereference of a nil header is a Go panic, modelled by `Die`: the database writes made so far stay, and the process memory is lost. A process that cannot find genesis or its head header panics at startup, so `Restart` is disabled.

`sort.Slice` is not stable, so `SortedByNumber` gives every ascending order. `Enqueue` chooses among them.

Constants select the environment:

| Constant | Meaning |
|---|---|
| `SerialisedCallers` | No call overlaps a `SetCurrentHeader` in progress. |
| `ProcessCrashes` | The process may be killed at any step. |
| `KnownAppendable` | The engine and the body chain accept an already stored header. |
| `ResetCalled` | `Reset` is ever called. |
| `MaxHeadsQueueLimit` | The registry capacity. |
| `InZone` | The node runs in a zone context (`QuaiNetworkContext = ZONE`). Outside a zone, `SetCurrentHeader` writes `sliceHeaders[Location[ctx]-1]` at lines 235, 311 and 328. |
| `Location`, `NoLocation` | `Location[b]` is the byte `Location[ctx]` of b's header, or `NoLocation` when its Location has no byte there. |
| `PrimeGenesis` | `GenesisHashes[0]`, which the reorg's genesis checks read. `Genesis` is `GenesisHashes[ctx]`. |

The `sliceHeaders` index is computed in byte arithmetic (`SliceIndex`), so a location of 0 wraps to 255. An index outside the three slots panics like a nil dereference: the head hash stays persisted, along with whatever canonical entries the call had already written. The headers stored in the slots are returned to the caller. They are data, and the model does not keep them.

**`HeadsRegistry.tla`** is the abstract specification of the heads registry. It has two variables: `reg`, the registry in memory, and `saved`, the copy Stop wrote. Its actions are:
- `Insert`: drop a lowest head when the registry is full, then insert in number order;
- `Save`;
- `Lose`: the process ends;
- `Load`: restart, where a head whose header is gone comes back as `Nil`.

`HeaderChain!Registry` instantiates it with `reg <- heads` and `saved <- headsHashes`. The property `RegistryRefined == Registry!Spec` states that every step of the detailed model is a step of the abstract one, or leaves the registry alone.

**`HeaderQueries.tla`** extends `HeaderChain` with the read paths:
- `GetAncestor` is a reader process. Its program counter `rpc` has one step per read:
  - `GetAncestorStart` covers lines 518-529, with its two early returns;
  - `GACheck` (530), `GAAncestor` (531), `GARecheck` (532-535) and `GAWalk` (537-549), one loop iteration each;
  - the reader's arguments are any stored header, any distance up to its number plus one, and any budget up to `MaxBudget`.
- `ChainStep(next)` runs the header chain's own steps with the reader standing still. `QNext` composes the two. Under `SerialisedCallers` a reader never overlaps a `SetCurrentHeader` in progress.
- `GetBlockHashesFromHash` is a RECURSIVE operator. It is checked against the reference `Ancestry(h)` for every stored header and every `max` up to `MaxCount`.

The MC modules:

- **`MC_HeaderChain.tla`** uses the tree `G<-A1<-A2`, `G<-B1<-B2`. It gives reorgs to shorter, equal and longer branches, and evictions once a third header is appended.
- **`MC_Reorg.tla`** isolates the reorg walk on `G<-A1<-A2`, `A1<-B2<-B3`, `G<-C1`. It starts from every consistent database: all headers are stored, the canonical table is the chain of the stored head, and the caches are as `NewHeaderChain` leaves them. It then runs any sequence of `SetCurrentHeader` calls.
- **`MC_Concurrent.tla`** puts `Append` beside `SetCurrentHeader` on one-header branches `G<-A1`, `G<-B1`, `G<-C1`, with C1 not yet stored and a registry of one head. One-header branches keep the reorg clear of the walk defects, so anything that fails is due to the interleaving alone. `SerialisedCallers` chooses between concurrent and one-at-a-time callers.
- **`MC_Queries.tla`** runs the `GetAncestor` reader beside the reorgs of `MC_Reorg`.

**`HeaderExport.tla`** extends `HeaderChain` with `Export` and `ExportN`.
- `ExportN` takes the read lock, which keeps `Append` and `Reset` out. With serialised callers no `SetCurrentHeader` step overlaps it either.
- A whole export is therefore a function of one state. It is a RECURSIVE operator, evaluated wherever a caller may start it (`ExportMayRun`).
- It returns what reached the writer and whether the call returned nil. `failAt` chooses the block whose `EncodeRLP` fails, if any.
- `GetBlock` is the body chain's lookup, abstracted as "the header is stored". The body is written in the `Append` that stores the header and removed by the `bc.Trim` that accompanies its deletion.
- `MC_Reorg` extends `HeaderExport`.

## Runs

| Run | Config | Expect | What it shows |
|---|---|---|---|
| reorg_pass | `MC_Reorg.cfg` | pass | It checks `StaysAlive`, `ExportWritesHeadChain`, `GenesisCanonical` and `ReorgReturns`, in a region context. Each branch's headers carry one slot's location, and genesis carries none. From a consistent database, no reorg panics, including its `sliceHeaders` writes. Every reorg keeps genesis's entry and returns. An export started between reorgs writes only the current head's chain, for every range and every write failure. Where a reorg left a gap (the defects of reorg_gap and reorg_head_unwritten), the export fails there rather than writing another branch's block. |
| reorg_gap | `MC_Reorg_gap.cfg` | violation | `CanonicalIsHeadChain` fails. The walk stops when `prev` reaches genesis (line 301), before the new side is pushed down to the common header. From head C1, a reorg to a head on the A1 branch replays only what was pushed before the break. TLC reports either C1→A2, which leaves height 1 empty, or C1→B3, which leaves heights 1 and 2 empty; which one varies between runs. |
| reorg_head_unwritten | `MC_Reorg_head.cfg` | violation | `HeadCanonical` fails. From head G, `SetCurrentHeader` of a height-2 child of A1 (TLC reports A2 or B2) goes straight to the fill loop (250-265), which pushes only parents. The new head's own entry is never written, and the table is left as [G, A1, empty]. |
| chain_pass | `MC_HeaderChain.cfg` | pass | It checks `TypeOK` and `RegistryRefined` with a limit of 2, over appends, evictions, reorgs, stop, exit and restart. `hc.heads` implements `HeadsRegistry`. |
| gc_pass | `MC_HeaderChain_gc.cfg` | pass | It checks `GenesisKept` with a limit of 1, so every second append evicts, with `Reset`, and with the process killed at any step (`ProcessCrashes`). No trim and no rollback deletes genesis, whatever a kill leaves behind. |
| head_unloadable | `MC_HeaderChain_unloadable.cfg` | violation | `RestartPossible` fails. A reorg panics after persisting head A2. An eviction then trims A2's chain, including A1, which that same Append had just written. The node cannot start. |
| genesis_entry_deleted | `MC_HeaderChain_genesis.cfg` | violation | `GenesisCanonical` fails. After a panicked reorg leaves a stale table, a reorg enters the unwind loop at genesis and deletes `canon[0]` (line 281). |
| stopped_registry_nil | `MC_HeaderChain_stopped.cfg` | violation | `HeadsLoadable` fails. `Append` still runs after `Stop`, so it evicts a head that Stop has saved. After exit, `loadLastState` restores a nil entry. |
| concurrent_trim | `MC_Concurrent.cfg` | violation | `InstalledHeadStored` fails with concurrent callers. An Append between the steps of `SetCurrentHeader` of a one-header branch (TLC reports A1 or B1) evicts that head and trims it. |
| serial_trim_pass | `MC_Concurrent_serial.cfg` | pass | It checks `HeadChainStored` with callers one at a time: eviction never deletes a header of the head's chain. |
| queries_pass | `MC_Queries.cfg` | pass | It checks `AncestorSound` and `BlockHashesAreAncestry` with readers running between whole reorgs. |
| ancestor_aba | `MC_Queries_race.cfg` | violation | `AncestorSound` fails with concurrent readers. A reorg away from B3 and a reorg back happen between `GetAncestor`'s canonical reads (lines 531 and 532). Its re-check passes, and it returns C1 as B3's second ancestor. |

The findings in `PROJECT.json` describe each violation.

Each property of a passing run has a mutant, defined just before the operator it replaces. A mutant changes the code the way a plausible bug would, and TLC finds the property violated. Examples:
- `SCHUnwindOldDeleteFirst` deletes before the common-header test.
- `AppendOkLateEvict` evicts only once the registry is over the limit.
- `FindCommonHeaderGenesisOnly` ignores the header's own canonical entry.
- `GAAncestorOffByOne` reads one height too high.
- `GetBlockHashesFromHashOneMore` loops once too often.
- `ExportNExclusive` stops before `last`.

### Bounds

- Five blocks on two branches of depth 2 give reorgs in every direction, and both walk orders of the reorg loop.
- A registry of 2 evicts at the third append and exercises sorting ties between A1 and B1.
- The gc run uses a limit of 1 so that the state space with `Reset` stays within minutes. It still evicts at every second append.
- `MC_Reorg`'s six-block tree contains each inner loop, the genesis break, and a common header above genesis.
- `MC_Queries` uses that tree, because `GetAncestor`'s race needs two branches that share height 1 (C1 against A1) below a header of height 3.
  - A budget of 2 lets the walk reach the canonical chain from B3.
  - `MaxCount = 4` exceeds every height, so both ends of `GetBlockHashesFromHash`'s loop are reached.
  - The serialised run takes about 2.5 minutes (281k states).
- `MC_Concurrent` starts with the registry full (limit 1), so the one Append evicts.
- Deadlock is not checked in the full model: a node whose database it cannot start from has no enabled step, which is exactly what `RestartPossible` is about.

### Fairness

The passing safety runs assume no fairness. `ReorgReturns` assumes weak fairness of the `SetCurrentHeader` steps. The goroutine running them takes no lock, waits on no channel, and makes only local database calls, so once started it keeps being scheduled. No fairness is assumed for callers: a caller may never call again.

## Not modelled, and planned

The following are not modelled yet, and are planned:

- The registry lost to a kill. gc_pass kills the process at any step. A kill after an eviction restores a nil head just as `stopped_registry_nil` does, but TLC reports the shorter Append-after-Stop path.
- A region whose genesis hash differs from `GenesisHashes[0]`. With `PrimeGenesis` set to another hash and a genesis header without a Location, the reorg A1 -> C1 does not break at genesis (line 301) and panics at line 311. No run keeps that configuration, because both facts are set outside this file.
- An export after a restart from a panicked reorg. Under the chain_pass configuration, TLC finds `ExportWritesHeadChain` violated. Head A2 is persisted, `findCommonHeader` panics on the trimmed A1, and after the restart `Export` writes B1 as block 1 under head A2. This is hazard 229 seen through `Export`. The number of runs is capped, so it is recorded rather than kept as a run.
- `SetGenesis` (662-665) replaces `hc.genesisHeader`, which `Reset` trims back to. It is called from outside this file, and the model keeps the genesis fixed.
- `CheckContext` and `CheckLocationRange` are range checks against `params.FullerOntology`, which is defined outside this file. Nothing in this file calls them.
- `GetTd`: the total difficulty is written by the body chain, not by this file.
- `GetAncestorByLocation` (555-569): its nil checks are inverted, so it returns an error for every stored header and panics on a missing one. It fails on every input, which a unit test shows as well as a model.
- Re-appending a stored header (`KnownAppendable = TRUE`): the rollback at line 166 would delete it, but whether the engine and the body chain accept a known header is decided outside this file.

The following are left out for good:

- The body chain: `bc.Append` and `bc.Trim` are reduced to accept-or-fail.
- Event feeds and logging, and `Export`'s RLP encoding and progress reports.
- An export overlapping a reorg. `ExportN`'s read lock does not exclude the unlocked `SetCurrentHeader`, so the stream can mix two branches (line 744). That needs an exporting process beside the reorg walk, which is not modelled.
- Headers that leak when the registry is lost. The spec promises no bound on stored headers, so no property states it.
