# TLA+ models of the block-index RPC layer (`src/src/rpcblockchain.cpp`)

This directory holds the verification project for `rpcblockchain.cpp`. It contains TLA+ modules, TLC configurations and TLAPS proofs.

The source file holds the RPC handlers that read the block index and the active chain: getchaintips, getblock, getblockheader, getblockhash, getblockchaininfo, getdifficulty and the difficulty helpers, and the mempool readers getrawmempool and getmempoolinfo. It also holds invalidateblock and reconsiderblock, the two handlers that change them. Every block-index handler takes `LOCK(cs_main)`; getmempoolinfo takes no lock of its own.

## The system

- **Block index (`mapBlockIndex`)**: a forest of `CBlockIndex` entries. Each entry has:
  - `pprev` and `nHeight`;
  - a validity level (`BLOCK_VALID_TREE`, `_TRANSACTIONS`, `_SCRIPTS`);
  - failure flags (`BLOCK_FAILED_VALID`, `BLOCK_FAILED_CHILD`);
  - `BLOCK_HAVE_DATA`, `nTx` and `nChainTx`.

  The index is filled by the validator (`main.cpp`), which is not part of this repository.
- **Active chain (`chainActive`)**: the best chain, addressable by height. It is changed by the validator's ConnectTip and DisconnectTip, and by `InvalidateBlock`.
- **Read-side handlers**: each handler reads both structures under `cs_main` and changes nothing.
  - getchaintips finds the leaves of the forest, plus the active tip. It orders them by height, computes each one's fork point with `CChain::FindFork`, and classifies it.
  - getblock and getblockheader look blocks up by hash or by height.
  - getblockchaininfo reports the soft-fork vote counts and the prune height.
  - GetDifficulty turns a compact target into a difficulty.
- **invalidateblock and reconsiderblock**:
  1. Under `cs_main`, they set or clear failure flags and disconnect the invalidated part of the chain.
  2. Then they release the lock.
  3. Then they call `ActivateBestChain`, which is the validator's own reorganisation. It interleaves with everything else.

- **Mempool readers**: getmempoolinfo makes three calls on the pool (`size()`, `GetTotalTxSize()`, `DynamicMemoryUsage()`), each taking `mempool.cs` for itself, while other threads add and remove transactions.

## Modules

| module | models | state / operators |
|---|---|---|
| `BlockIndex` | the index, the active chain, the validator's steps (spec_modelled), the invalidateblock and reconsiderblock RPCs | variables `mapBlockIndex, pprev, nHeight, nValid, failed, haveData, chainTx, unlinked, chainActive, fHavePruned`; see the list of actions below |
| `ChainTips` | getchaintips, CChain::FindFork, and the confirmations / nextblockhash fields | operators over a BlockIndex state: `setTips`, `SortTips`, `TipStatus`, `TipEntry`, `getchaintips`, `FindFork` |
| `BlockQueries` | getblockcount, getbestblockhash, getblockhash, getblockheader, getblock, blockheaderToJSON, blockToJSON, SoftForkMajorityDesc, getblockchaininfo | operators; a reply is `[ok, error]` or `[ok, result]` |
| `Difficulty` | GetDifficultyINTERNAL, GetDifficulty, GetNetworkDifficulty, getdifficulty | variables `bits, dDiff`; actions `GetDifficulty(nBits)`, `getdifficulty`; the two while loops are the recursive functions `MulLoop` and `DivLoop` over a `LoopState` record `[d, nShift]` |
| `InvalidateAbort` | invalidateblock's failing path on a pruned node | BlockIndex plus `fRequestShutdown`; action `invalidateblock_Aborted(b)` |
| `MempoolRPC` | getrawmempool, mempoolToJSON, mempoolInfoToJSON, getmempoolinfo | variables `mapTx, pc, partial, reply`; actions `AddToPool(t)`, `RemoveFromPool(t)` (spec_modelled), `ReadSize`, `ReadBytes`, `ReadUsage` |
| `BlockIndexProofs`, `AncestryProofs`, `ChainTipsProofs`, `GetChainTipsProofs`, `BlockQueriesProofs`, `DifficultyProofs` | TLAPS proofs about the modules they extend | none |
| `MCChainTips`, `MCBlockQueries`, `MCDifficulty`, `MCMempoolRPC` | model-checking instances | constants only |

BlockIndex has these actions:
- `AcceptBlockHeader(b, p)`
- `AcceptBlock(b)`
- `ConnectTip(b)`
- `ConnectTipFailed(b)`
- `DisconnectTip`
- `MarkFailedChild(b)`
- `PruneOneBlockFile(b)`
- `invalidateblock(b)`
- `reconsiderblock(b)`

How the state corresponds to the code:
- `failed` is the set of blocks with `nStatus & BLOCK_FAILED_MASK`.
- `haveData` is `BLOCK_HAVE_DATA`.
- `chainTx` is `nChainTx > 0`.
- `unlinked` is the set of values of `mapBlocksUnlinked` (each is keyed by its `pprev`). ReceivedBlockTransactions enters a block there when its parent has no `nChainTx` yet and is `IsValid(BLOCK_VALID_TREE)`, that is, not failed. It walks the map from every block that gets `nChainTx` (`LinkedTo`), and PruneOneBlockFile erases the pruned block's entry.
- `nValid` is the validity level.
- `nTx > 0` is `nValid >= BLOCK_VALID_TRANSACTIONS`, because the two are set together in ReceivedBlockTransactions.
- `chainActive[h + 1]` is the block at height `h`.
- A hash is a natural number. Pointer order in `CompareBlocksByHeight` is modelled by hash order: both are an arbitrary total order that the code does not control.

The validator steps are written from the spec, because `main.cpp` is not in the repository. They are marked `spec_modelled` in `PROJECT.json`. Chain work is abstracted: the validator may connect any child of the tip that has its data, or disconnect the tip. The best-chain choice is therefore nondeterministic, and the model contains every reorganisation the real choice can make.

The `invalidateblock` step is the part under `cs_main`. The `ActivateBestChain` that follows is made of the validator's ordinary steps, so other steps can run in between, as they can in the code.

invalidateblock accepts every indexed hash, genesis included. Genesis has no undo data: DisconnectBlock returns false without marking the state invalid. InvalidateBlock's loop therefore stops with genesis flagged and still the only active block, and the handler goes on to ActivateBestChain and returns success.

On a pruned node, a `DisconnectTip` of a block without data fails with AbortNode. The step is therefore taken only when every block it disconnects still has its data (`Disconnectable`).

`InvalidateAbort` adds the step BlockIndex leaves out: invalidateblock of a block whose disconnect would reach a pruned block (`~Disconnectable(b)`). InvalidateBlock's loop flags each tip before it disconnects it; the first tip without data is flagged, DisconnectTip cannot read it, AbortNode sets `fRequestShutdown`, and the handler skips ActivateBestChain and throws `RPC_DATABASE_ERROR` (`:1170-1179`). After that no further step is taken.

In `MempoolRPC` the pool is the set `mapTx` of transaction ids, with constant sizes, usages and inputs. Its own steps (AcceptToMemoryPool and removeForBlock, in `txmempool.cpp`/`main.cpp`) are spec_modelled as adding or removing one transaction. getrawmempool runs under one lock and is an operator; getmempoolinfo is a client with a program counter `pc` over its three reads, so pool steps can fall between them as in the code.


The RPC handlers are operators, not actions, because they run atomically under `cs_main` and change nothing. Their properties are invariants over the values they would return in each reachable state.

## Runs

| run | cfg | expect | what it shows |
|---|---|---|---|
| chain_tips | `MCChainTips.cfg` | pass | See below. |
| block_queries | `MCBlockQueries.cfg` | pass | In prune mode: `SoftForkCountsWindow`, `PruneHeightIsDataBoundary`, `MissingDataReportedPruned` and `BranchTxReceived`. The last says that getchaintips reports "valid-fork", "valid-headers" or "unknown" (past its `nChainTx == 0` test) only when every block of the branch had its transactions received. |
| difficulty | `MCDifficulty.cfg` | pass | `DifficultyIsTargetRatio`, for header difficulties and getdifficulty's network difficulty. |
| invalidate_pruned | `InvalidateAbort.cfg` | violation | `AbortLeavesActiveValid`: see the findings. |
| invalidate_genesis | `InvalidateGenesis.cfg` | violation | `ActiveNotFailed`: see the findings. |
| headers_only_linked | `HeadersOnly.cfg` | violation | `HeadersOnlyMeansMissingData`: see the findings. |
| pruned_valid_headers | `PrunedValidHeaders.cfg` | violation | `ValidHeadersDataAvailable`: see the findings. |
| mempool_info | `MempoolInfo.cfg` | violation | `MempoolInfoConsistent`: see the findings. |
| duplicate_tips | `DuplicateTips.cfg` | violation | `OneActiveEntry`: see the findings. |
| failed_branch | `FailedBranch.cfg` | violation | `FailedBranchReportedInvalid`: see the findings. |

The chain_tips run covers every interleaving of validator steps with invalidateblock and reconsiderblock. It checks these properties:
- `ChainIsPath`: the active chain is the pprev path from genesis, `chainActive[h + 1]` at height `h`.
- `TipsCoverIndex`: getchaintips loses no branch.
- `ActiveTipReported`: the tip is reported as "active" with branchlen 0, and nothing else is "active".
- `BranchLenIsForkDistance`: branchlen is the height above the last block shared with the active chain.
- `ConfirmationsCountDescendants`: confirmations of an active block is the number of active blocks at or above it; -1 off the chain.
- `NextBlockHashIsChild`: nextblockhash names a child of the block with one confirmation fewer.

Every property of a passing run has a mutant in `PROJECT.json`. A mutant is a plausible slip in the modelled code that TLC then catches:
- a dropped lookup;
- a comparator without its tie-break;
- the tip insertion left out;
- the FindFork walk left out;
- Next without Contains;
- the soft-fork loop running one block too far;
- the prune walk testing the wrong block;
- pruning that does not set `fHavePruned`;
- an off-by-one in the second difficulty loop (`GetDifficultyINTERNAL_OffByOne`, which runs `DivLoop_OffByOne`);
- the `nChainTx == 0` test left out of getchaintips' status chain (`TipStatus_NoChainTx`), which reports a tip whose branch misses transactions as "valid-headers";
- confirmations computed without the Contains test;

The same off-by-one in the *first* difficulty loop is undone by the second loop, and no property can tell it apart.

### Bounds

The bounds were chosen so that the interesting cases happen:
- **chain_tips: four hashes.** This bound allows:
  - a chain of three with a fork of one;
  - two side branches;
  - a reorganisation onto a branch;
  - invalidating a block that has a side branch below it;
  - an active tip that is the parent of a header-only block;
  - the data of a block arriving while its parent is failed, then the parent reconsidered.

  The run reaches 11,396 states in about 10 s. Prune mode is off in this run. Five hashes give a chain of three with a fork of two, but take over seven minutes since `mapBlocksUnlinked` is modelled; every case listed above already occurs with four.
- **block_queries: four hashes, prune mode on, one block kept below the tip, majority window 2.** Pruning happens once the chain has length 2. A disconnect can make a pruned block the tip. The window is longer than the chain at height 0 and shorter at heights 2–3. Block versions 2, 3, 4 and 2 differ between siblings and along a chain. The run reaches 28,360 states.
- **difficulty: powLimit with exponent 3 and mantissa 0x7f; headers with exponents 2–5 and mantissas 0–31.** Each loop runs 0, 1 and 2 times, and a zero mantissa divides by zero. This gives 129 states. Values stay below 2^31, which is TLC's integer range. A real `nBits` is a uint32.

- **mempool_info: three transactions** with sizes 1, 2, 4 and usages 8, 16, 32, so every subset has its own totals and a mixed reply is detectable.
- **invalidate_pruned**: four hashes, prune mode on, one block kept.
- **invalidate_genesis, headers_only_linked**: the chain_tips constants. **pruned_valid_headers**: the block_queries constants.

No liveness is checked. The handlers are single synchronous reads under a lock, and every step of the validator is optional in the model, so the code gives no scheduling guarantee for fairness to rest on.

## Findings

1. **getchaintips repeats its output** (`rpcblockchain.cpp:1076-1077`). `BOOST_FOREACH(block, setTips)` is nested in a second `BOOST_FOREACH(block, setTips)`. With *n* tips the result has *n²* entries, and the active tip appears *n* times. With a single chain the result looks right, so the bug shows only with a fork.
2. **A tip below an invalidated side-branch block is not reported "invalid"** (`:1092`). The status test reads only the tip's own flags. `InvalidateBlock` flags the block and the active blocks above it, but not the header-only descendants on side branches. A child of an invalidated block is therefore reported as "headers-only". The help text and spec §4.3 say "invalid".

3. **invalidateblock on a pruned node leaves a failed block active** (`:1170`). InvalidateBlock sets `BLOCK_FAILED_CHILD` on the tip and then calls DisconnectTip. If that tip's file was pruned, the read fails, AbortNode requests shutdown and InvalidateBlock returns false. The handler throws without ActivateBestChain, and the flagged block is still `chainActive.Tip()`: TLC's shortest trace is the chain 1, 2 with block 1's file pruned, then `invalidateblock 1`: block 2 is disconnected, and block 1 is flagged and cannot be read. A non-genesis block deeper than the kept window gives the same result on a longer chain. The node then shuts down, but until it does the RPCs report a failed block as the active tip (getchaintips gives it status "active"). The property checked is `AbortLeavesActiveValid`: once shutdown is requested, no active block is flagged.
4. **getmempoolinfo can describe no pool** (`:1119-1121`). mempoolInfoToJSON calls `size()`, `GetTotalTxSize()` and `DynamicMemoryUsage()` one after another, each under its own lock, and getmempoolinfo holds none around them. TLC's trace: size is read as 0, transaction 1 is accepted, bytes is read as 1 and usage as 8. No set of transactions has count 0 and size 1. The help text describes the three fields as the same pool's count, total size and usage.
5. **invalidateblock on genesis succeeds and leaves a failed active chain** (`:1170`). The handler does not refuse genesis. InvalidateBlock flags it, DisconnectTip fails in DisconnectBlock (no undo data) without making the state invalid, and the handler runs ActivateBestChain and returns success. Genesis, flagged, is the whole active chain and is reported "active", although the help text (`:1048`) calls the active branch certainly valid. TLC's trace: one header, then `invalidateblock 1`.
6. **A block with all its data can be reported "headers-only"** (`:1095-1097`). The trace: headers 2 and 3 (3 a child of 2), `invalidateblock 2`, the data of 3 arrives, `reconsiderblock 2`, the data of 2 arrives. When 3's data arrived its parent was failed, so ReceivedBlockTransactions did not enter it in `mapBlocksUnlinked`. The walk from 2 therefore never reaches it, and 3 keeps `nChainTx == 0` with its whole branch stored. The comment at `:1096` and the help text (`:1045`) say "headers-only" means missing block data. A restart (LoadBlockIndexDB) re-links the block.
7. **"valid-headers" does not mean the data is there** (`:1101-1103`). Pruning clears `BLOCK_HAVE_DATA` and keeps `nChainTx`. A side-branch tip whose branch holds a pruned block is still reported "valid-headers", which the help text (`:1046`) describes as "all blocks are available for this branch". The trace: genesis with two children, one connected, then genesis pruned.

## Proofs (checked by `tlapm`)

Six modules hold theorems: `BlockIndexProofs`, `AncestryProofs`, `ChainTipsProofs`, `GetChainTipsProofs`, `BlockQueriesProofs` (which EXTENDS `GetChainTipsProofs`) and `DifficultyProofs`. Every invariant of the passing runs has a theorem. Each module EXTENDS the module whose properties it proves. All hold for every finite set of positive hashes (`BlocksAssumption`) and, in the query modules, for every version assignment, window and prune setting the modules' `ASSUME`s allow.

| theorem | module | property |
|---|---|---|
| `TypeCorrect`, `ChainIsPathInvariant` | BlockIndexProofs | `[]TypeOK`, `[]ChainIsPath` |
| `NextBlockHashIsChildInvariant`, `ConfirmationsCountInvariant` | ChainTipsProofs | `[]NextBlockHashIsChild`, `[]ConfirmationsCountDescendants` |
| `SoftForkCountsWindowInvariant`, `PruneHeightIsDataBoundaryInvariant`, `MissingDataReportedPrunedInvariant` | BlockQueriesProofs | the three block_queries invariants |
| `BranchTxReceivedInvariant` | BlockQueriesProofs | `[]BranchTxReceived` |
| `DifficultyIsTargetRatioInvariant` | DifficultyProofs | `[]DifficultyIsTargetRatio`, for every powLimit with a non-zero mantissa and every set of compact targets |
| `TipsCoverIndexInvariant`, `ActiveTipReportedInvariant`, `BranchLenIsForkDistanceInvariant` | GetChainTipsProofs | the three getchaintips invariants |

### The inductive invariants

`ChainIsPath` is not inductive on its own. A ConnectTip appends a child of the tip, and `nHeight[b] = Len(chainActive)` holds only because the index is a tree whose heights count parent links. The base invariant is therefore `IInv == TypeOK /\ IndexIsTree /\ ChainIsPath`:
- `InitIInv` proves that `Init` establishes it.
- `NextIInv` proves that every action preserves it, one step per action:
  - **AcceptBlockHeader**: the new entry gets its parent's height + 1.
  - **ConnectTip**: the appended block is at height `Len`.
  - **DisconnectTip**: a prefix of a path is a path (`SubSeqProperties`).
  - **invalidateblock**: the chain is cut to `SubSeq(chainActive, 1, nHeight[b])`, with `nHeight[b] >= 1` when `b` is not genesis, and to `<<Genesis>>` when it is.
  - The other steps leave the chain and the tree unchanged.

The other invariants strengthen `IInv`:
- **`IInv /\ DataInv`** (BlockQueriesProofs). `DataInv` says that every block whose data was pruned had it once, that `fHavePruned` is set when such a block exists, and that a hash without an entry has validity 0. The last conjunct shows that no step lowers a validity level (`NextRaisesValidity`): AcceptBlockHeader sets the level of a new entry, so the old level must be 0. `ChainTxInv` needs that lemma to keep `nTx > 0` across steps.
- **`IInv /\ OffIndexUnlinked /\ DataInv /\ ChainTxInv`** (BlockQueriesProofs), for `BranchTxReceived`. TLC checked `ChainTxInv` on the block_queries model before the proof. It has three conjuncts:
  - genesis has `nChainTx > 0`;
  - a block that has it had its transactions received, and so did its parent;
  - every entry of `mapBlocksUnlinked` has its data.

  The property reads a whole branch, but `ChainTxInv` is stated parent by parent, because that is what one AcceptBlock step can be shown to keep. `LinkedToStep` says that the `mapBlocksUnlinked` walk from `b` reaches, besides `b`, only entries of the map whose parent it also reaches. So a block it gives `nChainTx` has data (the third conjunct, with `DataInv`), and its parent gets `nChainTx` too. Pruning drops the data and the map entry together, and a new header has neither. One induction down the index (`IndexInduction`) then lifts the invariant to branches:
  - `ChainTxBranchHasTx`: below a block with `nChainTx > 0`, every block has `nTx > 0`.
- **`TipsInv == IInv /\ OffIndexUnlinked`** (GetChainTipsProofs). A hash without an index entry has no parent link. TLC checked it as an invariant of the chain_tips model before the proof. FindFork's walk needs it to stay inside the index.

The converse, that a tip without `nChainTx` misses data on its branch, is false (finding 6), and so is the claim that a "valid-headers" branch is stored (finding 7). An earlier version of the model proved the first of these only because it linked every block with data, whatever its parent's state when the data arrived.

### Recursive functions

`AncestorsOrSelf`, `PruneHeightWalk` and FindFork's `ForkWalk` are recursive *functions* over heights, not `RECURSIVE` operators, so their modules can be proved about. The provers cannot do induction with an operator parameter, so each function is handled in two steps:
1. An explicit, non-recursive witness is shown to solve the defining equation:
   - `Closure` for the ancestor set;
   - `RunBottom`, the bottom of the run of blocks with data, for the prune walk;
   - `LastCommonBlock` for the fork walk.
2. A least-counterexample argument on heights (`IndexInduction`, built on `NatMin`) shows that the function equals the witness.

The statements about the RPC results then follow from the witness:
- **getchaintips**: the `setTips` built by set difference is exactly the leaves of the index plus the tip (`SetTipsIsLeavesAndTip`). `SortTips` is a permutation: the ranks of the tips under the comparator are a bijection onto `0..n-1` (`RankBijection`, `SortTipsPerm`). `TipsCoverIndex` picks, among a block's descendants, one with the fewest descendants, and shows that it is a leaf.
- **the difficulty loops**: `MulLoop` and `DivLoop` are recursive functions of one argument, a record `[d, nShift]`. The SMT backend cannot encode a recursive function applied to two arguments. `^` with a variable exponent is opaque to the provers, so 256^k is the recursive function `Pow256`, whose equation comes from the library's `NatInductiveDef`, instantiated with an explicit LAMBDA. The witnesses `MulClosed` and `DivClosed` shift the exponent byte to `nShiftAmount` in one step. Uniqueness is a least counterexample on the distance `|nShift - nShiftAmount|` (`LeastNat`). `DifficultyClosed` then gives `GetDifficultyINTERNAL(c) = Mantissa(powLimit) / Mantissa(c) * 256^(nShiftAmount - nShift)`, and `RatioOf` multiplies it out in six cases, by the signs of the exponents.
- **confirmations and the soft-fork window**: a cardinality argument over the chain suffix (`ChainSuffixCard`, `WindowCard`).

### What stays model-checked only

- No invariant of a passing run: each has a theorem. The difficulty loops, once `RECURSIVE` operators, are now recursive functions that the provers can reason about.
- Liveness and anything stated with `ENABLED`: these are out of the provers' reach. The project states no liveness property: every RPC handler returns in one step, and the validator's progress is not code of this file.
- The violation runs (`AbortLeavesActiveValid`, `ActiveNotFailed`, `HeadersOnlyMeansMissingData`, `ValidHeadersDataAvailable`, `MempoolInfoConsistent`, `OneActiveEntry`, `FailedBranchReportedInvalid`): these are false of the code, and TLC's counterexamples are the result.

`fHavePruned \in BOOLEAN` is kept apart from the other type conjuncts (`TypeData`, `TypeSplit`). It is proved for every step with Zenon, because SMT times out on it when it is mixed with the other conjuncts.

## Not modelled

- **The network difficulty's bits**: getdifficulty is modelled, but the `nBits` it converts comes from `GetNextWorkRequired`, outside the repository, and is a nondeterministic member of the header domain. The NULL-tip fallback of 1.0 cannot be reached while RPC is being served, because warm-up ends after genesis is loaded.
- **The mempool entries' fee, time, height and priority fields**: they come from `CTxMemPoolEntry` and `GetPriority` outside this file. `currentpriority` uses `chainActive.Height()`, which can fall below an entry's height after a disconnect (a hazard listed in `PROJECT.json` that no property covers).
- **The UTXO and verification RPCs** (gettxout, gettxoutsetinfo, verifychain): they serialise the coins database, which neither this file nor the spec describes.
- **The Safecoin extension RPCs** (kvsearch, minerids, notaries, paxpending, paxprice, paxprices): they forward to C functions outside this file.
- **Formatting**: hex encoding, JSON layout and the serialized (`verbose = false`) forms.
- **Parameter strings**: they are abstracted to the cases a handler tells apart.
- **getblockchaininfo fields**: `headers`, `verificationprogress`, `chainwork` and `commitments`.

## Plan for later work

- Write an abstract tip-set specification (leaves of the forest plus the tip, each with its fork height). Show that getchaintips with the duplicate loop removed implements it through a refinement mapping.
- Model `pindexBestHeader` (the getblockchaininfo `headers` field) in the validator's header step.
