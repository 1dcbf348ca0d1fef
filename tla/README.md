# Formal models of OpenCodeHub

OpenCodeHub indexes a repository into a graph (`.codehub/store.sqlite`) and serves
it to coding agents over MCP. This directory holds TLA+ models of its stateful
parts, TLC configurations that check them on small instances, and TLAPS proofs
for arbitrary ones. Paths below are relative to `packages/`.

Run from this directory: `tlc -workers 2 -config X.cfg M` for a run listed under
*Runs*, and `tlapm M.tla` for a proof module.

## 1. Inventory

| Component | State | Operations | Interacts with | What makes it correct |
|---|---|---|---|---|
| MCP connection pool (`mcp/src/connection-pool.ts`, `withStore` in `mcp/src/tools/shared.ts`) | LRU cache with TTL, `inflight` promises, `evicted` side table, per entry `refCount`, `closed`, `closePending`; `disposed` | acquire, release, dispose callback, shutdown | every MCP tool call leases a store; the server shuts it down | no store is closed while in use; no store leaks; one open per repository; shutdown closes all |
| MCP stdio server (`mcp/src/server.ts`) | none but its handlers | startStdioServer, bail | signals, stdin, pool | every trigger exits the process, drained |
| analyze (`cli/src/commands/analyze.ts`) | `.codehub/store.sqlite`, `scan-state.json`, `parse-cache/`, `scan.sarif`, `scan-fingerprint.json`, `meta.json`, the registry | fast path, pipeline, bulkLoad, state and registry writes, scan stage | git, the developer, scanners | the files agree with each other and with HEAD, whatever is edited and wherever a run dies |
| pipeline runner (`ingestion/src/pipeline/runner.ts`) | colours, DFS stack, in-degrees, ready list, outputs | validatePipeline, topologicalSort, runPipeline | phases | each phase once, after its deps, in an order that does not depend on the list; every cycle found |
| default phases (`ingestion/src/pipeline/phases/`) | one shared mutable graph, `ctx.phaseOutputs` | 31 phases | runner | each finds what it reads; the orders stated in comments |
| parse cache (`phases/parse.ts`, `content-cache.ts`) | one file per content hash | lookup, write-back, eviction | parse phase | an entry is the extraction of its key |
| incremental scope, carry-forward (`incremental-scope.ts`, `incremental-helper.ts`, `cross-file.ts`) | prior graph, `scan-state.json` | changed set, closure, carry-over | parse, crossFile, mro, communities, processes | incremental equals full |
| scan, ingest-sarif (`cli/src/commands`) | `scan.sarif`, findings in the store | runScan, runIngestSarif | scanners, analyze | findings are those of the index |
| registry (`cli/src/registry.ts`) | `~/.codehub/registry.json` | upsert, drop, clear, each a read and a write without lock | analyze, index, clean, MCP | lists what is indexed |
| graph storage (`storage/src/sqlite-adapter.ts`) | tables | bulkLoad (replace, upsert), queries | all | one transaction per load |
| worker pools (`ingestion/src/parse/worker-pool.ts`, `phases/embedder-pool.ts`) | queue, workers | dispatch, timeout, destroy | parse, embeddings | each task answered once |
| scanner runner (`scanners/src/runner.ts`) | shared next index, slots | bounded concurrency | scanners | every slot filled, input order |
| COBOL supervision (`cobol-proleap/src/subprocess.ts`, `parse.ts`) | child, line buffer, timers, outcome | spawn, timeout, SIGTERM, SIGKILL, regex fallback | parse | settled once, every file parsed one way or the other |
| downloads (`cli/src/scip-downloader.ts`, `embedder-downloader.ts`) | temporary and final files | fetch, hash, rename, retry | setup | only verified files at the final name |
| embeddings (`embedder/`, `phases/embeddings.ts`) | vectors, recorded model | batches, waves, retries, hash skip, model guard | storage, analyze | each text its own vector, all of one model |
| SCIP ingestion (`scip-ingest/`), in-memory graph (`core-types/`) | edges with confidence | run indexers, derive, addEdge | phases | the stronger edge wins |
| search, analysis, sarif, policy | none | pure functions | MCP tools, CLI | ranking, verdicts, baselines |
| pack, wiki, frameworks, eval, capability layer, tool formatting | none that outlives a call | rendering, detection | | |

Behaviours that are hard to test: JavaScript interleavings between awaits (pool,
server); an edit, a commit or the end of the process between any two writes
(analyze); an order that only a comment or the alphabet fixes (phases); retries,
timeouts and signals of child processes; two processes over one file. PROJECT.json
lists them one by one under `hazards`, with the properties that cover each.

## 2. Plan

Done, in this order:

1. `ConnectionPool`, `McpServer`: the only long-running concurrent part.
2. `AnalyzeLifecycle`: the files of a repository across edits, failures and deaths.
3. `PhaseSchedule` (abstract), `PhaseRunner` (implements it), `DefaultPhases`
   (the instance the program runs).
4. `EmbeddingStore`, `EmbedWaves`: vectors across runs and embedders; batches,
   waves and retries of one run.
5. `Registry`: several processes over registry.json.
6. `Downloads`, `CobolBridge`, `ScannerPool`, `ParsePool`: files and child
   processes that fail, stall and overlap.
7. `IncrementalGraph`: the edges of incremental runs against full ones.
8. Proofs: every invariant and action property of a passing run, and the
   refinement of `PhaseSchedule`.

Left:

- The carry-over of communities and processes, which recompute a whole community
  or process when one member is in the closure.
- The docstrings that a parse-cache entry leaves out, warm against cold.
- Two analyze processes over one `.codehub`.
- Pure algorithms against a reference definition: rank fusion, C3 linearisation
  (multiple inheritance in `IncrementalGraph`),
  the SARIF baseline diff.

## 3. The modules

| Module | Models | Extends / uses |
|---|---|---|
| `ConnectionPool` (`MC-`, `-Proofs`) | `mcp/src/connection-pool.ts`, the lease of a tool call | |
| `McpServer` (`MC-`, `-Proofs`) | `mcp/src/server.ts` over the pool | ConnectionPool |
| `AnalyzeLifecycle` (`MC-`, `-Proofs`) | `cli/src/commands/analyze.ts` and what it calls, over the files of a repository | |
| `EmbeddingStore` (`MC-`, `-Proofs`) | the embeddings of analyze, the query guard | |
| `EmbedWaves` (`WorkersProofs`) | the dispatch loop of the embeddings phase, the HTTP embedder | |
| `Phases`, `PhaseSchedule`, `PhaseRunner` (`-Proofs`) | `ingestion/src/pipeline/runner.ts` and its abstract promise | refinement |
| `DefaultPhases` (`MC-`, `PhaseRunnerProofs`) | the default phase set | PhaseRunner |
| `ParsePool` (`WorkersProofs`) | `ingestion/src/parse/worker-pool.ts` | |
| `ScannerPool` (`WorkersProofs`) | `scanners/src/runner.ts`, `exec.ts` | |
| `CobolBridge` (`WorkersProofs`) | `cobol-proleap/src/` | |
| `Registry` (`SharedFilesProofs`) | `cli/src/registry.ts` and the commands that call it | |
| `Downloads` (`SharedFilesProofs`) | the two downloaders of `codehub setup` | |
| `IncrementalGraph` (`MC-`, `-Proofs`) | the edges through parse, crossFile, mro, dead-code and scip-index, run after run | |
| `MCHelpers` | one run for ConnectionPool with room for everything, ParsePool, ScannerPool, CobolBridge, Registry, Downloads, EmbedWaves, IncrementalGraph, which do not interact | all of these |

### ConnectionPool, MCConnectionPool, ConnectionPoolProofs

An action is the code between two awaits. An entry of the pool, the promise that
opens it and the store it holds are one element of `Entry`; `acquire` takes a
fresh one, so `Entry` bounds the number of opens.

| Code | Model |
|---|---|
| `cache` (lru-cache, external) | `cache`, `older` (order of use), `stale` (past the TTL; `get` deletes such an entry, `peek` does not return it) |
| `PoolEntry.refCount / closed / closePending` | functions on `Entry` |
| `inflight`, `evicted`, `disposed` | `inflight`, `evicted`, `drain # "none"` |
| acquire: hit, join, open | `AcquireHit`, `AcquireJoin`, `AcquireOpen` (which includes the disposal of the expired entry by `get`) |
| the factory's answer and `cache.set` | `FactoryResolves`, `FactoryRejects` |
| the reactions of that promise: references taken, the `finally` | `Continue` |
| dispose callback | `ClosedBy`, `PendingBy`, `ParkedBy`, `InflightAfter`, inside each action that evicts |
| release in `withStore`'s `finally` | `Release` |
| shutdown | `ShutdownBegin`, `ShutdownClose`, `ShutdownReturn` |

`overlap` is a history variable: the repositories that were opened again while an
earlier handle was still open or in use. `release` finds its entry by key, so
what it promises is promised for the others (`Tracked`). For the repositories in
`overlap` the first finding below shows what happens, and `FitsNoOverlap` shows
when there are none: no more repositories than the cache has room for
(`DEFAULT_MAX`) and calls shorter than the idle TTL.

`meanwhile` is another: of an entry that is in the cache before its opener has
taken its reference, the other repositories used since. Such an entry, with a
count of zero, is closed if it is evicted, and handed over closed (`stillborn`).
`InUseIsOpen` says that this takes at least `Max` of those repositories
(`Rushed`), and that no other store in use is closed before the shutdown.

The leases taken elsewhere (`resources/store-helper.ts`, the group tools) follow the
same acquire / finally release discipline and are further elements of `Call`.

### McpServer, MCMcpServer, McpServerProofs

Extends the pool with the triggers (SIGINT, SIGTERM, stdin close). `bail[t]` is
the progress of the bail call that trigger `t` makes: `Fire` (server.close),
`ShutdownPool` (the first call begins the pool's shutdown, a later one returns at
once because the pool is disposed), `Drained`, `Exit`. After `exited` nothing runs.

### AnalyzeLifecycle, MCAnalyzeLifecycle, AnalyzeLifecycleProofs

The content of a file stands for everything derived from it, so a graph is a
function from files to contents: `defs` for the rows extracted from a file,
`links` for its cross-file rows, which an incremental run may carry over. A file
whose parser times out, throws or is missing has the extraction `Nothing`, which
the code cannot tell from that of an empty file and caches like any other. A
cache entry holds the path it was extracted under next to the extraction, since
the ids of the replayed definitions are made from it; a file that hits the entry
of another path has the extraction `Nothing` too (the symbols of the other path,
which it brings back, are not followed).
The developer's actions (`Edit`, `DiscardEdits`, `CommitEdits`, `Checkout`) may
come between any two steps of the process; `Crash` ends it at any step.

| Code | Model |
|---|---|
| `checkFastPath`, `isWorkingTreeDirty` | `FastPath`, `Start` |
| scan phase: walk and hash, then `git rev-parse HEAD` | `WalkFiles`, `ReadHead` |
| parse phase: lookup by the walk's hash, replay, read now, parse or fail, write back, evict | `Hit`, `Replayed`, `Extracted`, `MisreadBy`, `EntryOf`, `CacheAfter` |
| incremental-scope: changed set, closure, 30% threshold | `Changed`, `Closures`, `Incremental` |
| carry-forward and the rest of the pipeline | `LinksOf`, `BuildGraph` |
| `bulkLoad` (replace) | `BulkLoad` |
| `writeScanState`, `upsertRegistry` | `WriteScanState`, `UpsertRegistry` |
| scan stage: skip, run, ingest, fingerprint | `ReuseSarif`, `RunScanners`, `IngestSarif`, `WriteFingerprint` |
| `codehub scan` | `StandaloneScan` |

`harm` is a history variable naming the mishaps outstanding: `race` (a file
changed between hash and read), `unparsed` (a file could not be parsed), `moved`
(a file hit the entry of another path), `torn` (died between bulkLoad and
scan-state.json), `unregistered` (died between them and the registry), `dirty` (indexed
something other than the registered commit), `scan` (scan.sarif and the
fingerprint may disagree). Each property excuses only the mishaps that really
break it; the runs and the theorems show that no others do.

Assumed: one codehub process at a time; git is available and the repository is
registered under its own path; at least one scanner is selected; `.codehub` is
ignored by git; a phase reads its files in one step; extraction is a function of
the content, or fails. The closure is any superset of the changed files. Any
run may be one with `--no-scan`. Left out: the meta sidecar, cochanges, skills and
AGENTS.md writes, deleted files (`IncrementalGraph` has those).

### EmbeddingStore, MCEmbeddingStore, EmbeddingStoreProofs

A node's text is the sequence of chunks it is split into; a row of the table is a
chunk, standing for its content hash, and the model that made its vector.

| Code | Model |
|---|---|
| the flags, the environment, the prior hashes when the recorded model is that of the local variant | `Begin` (`adapter`) |
| the embeddings phase: tiers, chunks that changed, the embedder that really runs | `EmbedNothing`, `Embed` |
| `bulkLoad`, `upsertEmbeddings`, `setMeta` | `Load`, `Upsert`, `Record` |
| `assertEmbedderCompatible` | `Compatible` |

bulkLoad leaves the embeddings of removed nodes and of surplus chunks behind; the
properties speak of the rows that a node of the graph has now. `harm` lists what
lasts: `cleared` (a run without embeddings erased the recorded model), `unasked`
(another embedder ran and kept the vectors whose hashes it trusted), `left` (it
kept the vectors it does not cover), `torn` (died between upsert and record). A
run that writes every row undoes them.

### EmbedWaves

`Launch` sends the next wave, up to `workers` batches of `batchSize` jobs;
`AnswerLocal`, `AnswerRemote`, `FailTransient`, `FailFinally` are what becomes of
the text a batch is at, `PostAgain` the retry after the pause; `Collect` files the vectors when the whole wave has answered;
`FailPhase` is the first rejection of a wave, after which its other batches go on
posting unobserved. The texts of a batch are sent one by one by the remote
embedder; a local one answers at once.

### ParsePool, ScannerPool

`ParsePool`: `Dispatch` is `chunkTasks`, `ParseBatch` and `RejectBatch` one batch
on a worker thread, `Gather` the results in the order of the paths.

`ScannerPool`: `job[w]` is the scanner worker `w` runs. A worker claims `nextIdx`
without an await in between, probes for the tool (`Found`, `Missing`), and waits
for the child (`Exits`, `Throws`, `TimesOut`, `Terminated`). There is no SIGKILL,
so a child of `Stubborn` may keep its worker for ever.

### CobolBridge

The JVM prints the records of a file, gives it up with a diagnostic before,
between or after them, and ends (`PrintRecord`, `GiveUp`, `Complete`); it may
crash or hang (`Crash`, `Wedge`). The bridge spawns a batch, reads the pipe in pieces that may end inside a line
(`Data`), and settles on `OnExit`, `OnError` or `Grace` after `Timeout`; what
`parseCobolDeep` does with each outcome is part of the action that settles. The
code listens to `exit`, which Node may emit before the pipe is empty: `overtook`
records the batches to which that happens, `died` those that crashed.

### Registry

`UpsertRead`/`UpsertWrite` and `DropRead`/`DropWrite` are the two halves of the
unlocked read-modify-write; `IndexRepo`, `CleanOne`, `CleanAll`, `RemoveIndex` and
`Clear` the commands around them, `Kill` the death of one. Entries are filed by
base name. `off` collects the repositories that a mishap listed or unlisted: a
command that died half-way, a write from a stale read, a shared name, a removal
that failed. One command at a time works on one repository.

### Downloads

A file has an identity apart from its path, as in POSIX: `tmp` and `final` say
which file is at each path, `out[p]` which one a setup writes to. Steps: the
presence check (`BeginSetup`), `Unlink`, `Fetched`, `Stream`, `Verify`,
`Unpack`/`Replace`/`Extract` for archives, `Rename`, and at every one of them
failure, retry (weights) and death. A file operation after the hash check that
fails leaves the temporary file where it is (`FileFails`); an error of the write
stream while the body is received has no listener in the code, so the process
dies of it (`Die`). `overlapped` is the history of two downloads
at once; nothing is promised after that, see *Divergences*.

### IncrementalGraph, MCIncrementalGraph, IncrementalGraphProofs

Where AnalyzeLifecycle takes the rows of a file to be a function of that file,
this module has what they owe to other files. A content says what names it
defines, which paths an imported name is looked for at, who calls what name, which
class extends which name and whether it declares the method, and what calls an
indexer would see. The graph is its calls, overrides and dead marks.

| Code | Model |
|---|---|
| resolution in three tiers, import targets | `Tier`, `Target` |
| parse phase: IMPORTS, EXTENDS, CALLS | `Imports`, `Extends`, `ParsedCalls`, `Parse` |
| `addEdge` | `Strongest` |
| incremental-scope: changed files, two import hops either way, one heritage hop, 30% | `Changed`, `Closure`, `Scope` |
| `carryForwardEdges` | `Carried` |
| crossFile, mro with their gates | `CrossFile`, `Mro` |
| dead-code | `Dead`, `Referrers`, `MarkDead` |
| scip-index: fresh, remade, disabled or failed; its edges, placed by file and line | `ScipFresh`, `ScipIndex`, `At`, `Oracle`, `AddOracle` |
| bulkLoad and scan-state.json | `Store` |

A run dies (`Abandon`) before it stores anything; the developer edits, adds and
deletes files between runs. The `.scip` file is compared with the modification
time of the root directory, which changes when a file of `TopLevel` comes or goes.
Lines are not modelled: a call of a stale `.scip` file whose ends lie in changed
files may land on any symbols of these files, or on none (`At`, `AddOracle`).
`confidence-demote` is not an action: see *Divergences*.

`CallsCurrent` is what incremental runs do keep: every call the parser sees is
there, and one that it does not see was wrong before, unless a file has been
added or deleted since. `SparedByCarried` says which dead marks can differ from
those of a full run, and why. `IncrementalIsFull` is the promise of the comments,
and fails.

### Phases, PhaseSchedule, PhaseRunner, DefaultPhases, MCDefaultPhases, PhaseRunnerProofs

`Phases` says what a list of phases is and what makes it unusable. `PhaseSchedule`
is the abstract promise: a list that cannot be ordered is rejected before
anything runs, otherwise each phase runs once, after its dependencies, until all
have run or one throws. `PhaseRunner` is the code, one action per iteration of its
loops: `Check` (duplicates, missing names), the depth-first search (`VisitRoot`,
`Descend`, `PassBlack`, `CloseCycle`, `Retreat`; the recursion is `stack`, and
`next[n]` the loop index of n's call), Kahn's sort (`StartSort`, `Emit`,
`EndSort`), and the run (`RunPhase`, `ThrowPhase`, `Return`). The ready list,
which the code keeps sorted, is a set from which the least name is taken.

Refinement mapping: `ran <- outputs`, `outcome <-` the stage (`Outcome`).

`DefaultPhases` holds the 31 phases with their declared deps, and the reads of
`ctx.phaseOutputs` that the runner does not see (`PhaseOutputsRead`), which the
runner's header forbids, see *Divergences*.

## 4. Runs

| Run | Checks | Bounds | Distinct states |
|---|---|---|---|
| `pool_evict` | CachedIsOpen, CountCovers, InUseIsOpen, NoLeak, ShutdownDrains, ClosedUnreferenced | 2 repositories, 1 slot, 3 calls, 3 opens, expiry at any time | 61,437 |
| `pool_inuse` | EvictionSparesInUse, violated | 2 repositories, 1 slot, 2 calls, 4 opens | |
| `server_bail` | OneBailDrains, BailExits, ServedOrExited, ParkedIsClosedOrExited | 2 repositories, 1 slot, 2 calls, 2 opens, 2 triggers | 62,106 |
| `server_twice` | DrainsBeforeExit, violated | the same | |
| `analyze_index` | GraphMatchesState, CacheIsHonest, UpToDateIsHead, ForceRepairs, FindingsOfIndex | 2 files of 4, 2 contents each, 2 commits | 1,106,167 |
| `analyze_uptodate` | AlreadyUpToDate, violated | 2 files of 4, 2 contents each, 1 commit | |
| `analyze_replay` | ReplayIsReparse, violated | 2 files of 4, 3 contents, 1 commit | |
| `incremental_full` | IncrementalIsFull, violated | a class and two subclasses, a file each, of 7 files | |
| `embed_guard` | EmbeddedIsCurrent, SwitchReembeds, GuardSound | a symbol of 1 or 2 chunks and a file, 2 local variants, 1 remote model | 7,648,436 |
| `embed_mixed` | NoMixedStore, violated | the same | |
| `phases_run` | CycleIsReal, NeverUnsorted, AlphabeticOrder, ReadsServed, KeptOrder, Refines, Ends | the default pipeline, the empty list, all lists of 3 phases (duplicate, missing and repeated names included) with up to 2 deps each, 6,561 lists of 4 | 75,348 |
| `helpers` | the eight machines below | | 365,694 |

`helpers` checks, in one run in which `machine` picks the one that moves:

| Machine | Checks | Bounds |
|---|---|---|
| pool with room for everything | FitsNoOverlap, FitsExactCount, AcquireReturns | 2 repositories, 2 slots, 2 calls, 3 opens, calls shorter than the TTL |
| parse | DispatchExact | 3 files of 0 to 3 bytes in two orders, budgets 0, 3, 4, caps 0 to 3 |
| scan | ResultsComplete, ScanReturns | 4 scanners, 2 workers, 1 stubborn child |
| cobol | FilesAccounted, BatchesSettle | 2 batches, 3 files of 2, 1 and 0 records |
| registry | ListedIffIndexed | 2 processes, 3 repositories of which two share a name |
| download | FinalIsWhole, ReportIsTrue | 2 setups, 2 versions, 4 files of 2 blocks, 2 tries |
| edges | CallsCurrent, SparedByCarried | 3 files of 10 that change, come and go, with an import that has two candidate paths, a name looked up globally, and an indexer |
| embed | WavesExact, WavesEnd | 0 to 5 jobs, batches of 1 or 2, 1 or 2 at a time, local or remote, 2 retries |

Why the bounds are enough. One slot and two repositories make every open of the
second evict the first, three calls let one hold, one wait and one release, and
three opens reach eviction, reopening and the overwriting of the side table.
Symmetry is used in the safety runs only. Two of four files put a closure of one
below the 30% threshold and a closure of two above it; two contents of a file and
two commits give an edit, its reversal and a checkout. One content is `same` for
both files, so that each can hit the entry of the other; each has another of its
own (`OfItsOwn`), and the two files swap under symmetry. The constraint `OneMishap`
keeps at most one kind of mishap outstanding at a time, which also bounds the
size of `analyze_index`. `OneEdit` limits, once scan.sarif exists or the cache is
damaged for good, what differs from the first commit to one file, uncommitted:
the scan stage only tells equal trees from unequal ones, and a damaged cache shows
in one file. The theorems have none of these bounds. Two local variants and
a remote model give every switch of embedder, one and two chunks a text that
grows or shrinks; the constraint `FileTexts` holds the texts of the file node to
a single chunk. Four phases allow two disjoint cycles, and a cycle that is
entered from outside. Sizes 0 to 3 meet a budget of 3 exactly, stay below it and
reach it in sums. Five jobs leave the last batch short and the last wave short.
Two setups are the least that overlap; the constraint `NoOverlapYet` cuts what
follows an overlap, of which the properties say nothing. A file of two records
lets a crash or a torn line fall between them. Of ten files a closure of
three is exactly 30%: editing files 2 and 3 brings in 1, which imports one of
them; editing one of the two leaves a name of the other to be shadowed or found.

Deadlock is checked for AnalyzeLifecycle and EmbeddingStore. The others really
stop, so their runs say `CHECK_DEADLOCK FALSE`: the pool once `Entry` is used up
and it is shut down, the server after its exit, the runner and the helpers when
they have answered.

Fairness. In the pool: an open that was started ends (a SQLite open settles one
way or the other), the event loop runs the reactions of a settled promise, a
tool call ends and its `finally` releases, a begun shutdown is carried through.
No call has to start and no trigger has to come. `McpServer` assumes the same
while the process runs, and that a bail call goes on. `PhaseRunner` assumes that
its loops go on and a started phase ends. `ScannerPool`: probes answer (they have
a timeout of their own), the timer of a scan fires, a child that is not stubborn
obeys SIGTERM; nothing is assumed of scans, and `ScanReturns` promises a return
only if no stubborn child is left. `CobolBridge`: once parsing has begun the next
batch is spawned, and both timers fire; nothing is assumed of the JVM.
`EmbedWaves`: the loop goes on, every request settles or meets its timeout,
backoffs end. Analyze, IncrementalGraph, EmbeddingStore, ParsePool, Registry and Downloads
state no liveness: what they do ends with the process, which may die.

## 5. Proofs

All for arbitrary constants, under the assumption each module names
(`PoolAssumption`: finitely many calls, a positive capacity; `TriggerAssumption`:
finitely many triggers; `AnalyzeAssumption`: the root is a commit, `None` is none
of the values; `EmbedAssumption`, `ScannerAssumption`, `RegistryAssumption`,
`DownloadAssumption`, `CobolAssumption`, `IncAssumption`: types, and sentinels
outside them; `RunnerAssumption`: an alphabet without repetitions, lists over it;
`WaveAssumption`: batches and workers are at least one; `ParseAssumption`: at
least one thread, and the paths of a dispatch are distinct).

**ConnectionPoolProofs** shows `Spec => []IInv` and from it the type invariant and
`CachedIsOpen`, `CountCovers`, `InUseIsOpen`, `NoLeak`, `ShutdownDrains`, and the
action property `ClosedUnreferenced`. The properties are not inductive by
themselves. The argument: of the entries of a tracked repository only one is not
over (`OneCurrent`), so the one that `release` finds by key is the one its caller
holds, so the counter covers its users (`CountCovers`), so what has reached zero
has no users. `DrainKnows` says that shutdown has recorded every tracked open
under way, `ParkedInv` that the side table names entries still to be closed.
The exception in `InUseIsOpen` has an invariant of its own, `HandoverInv`: an entry
that waits to be handed over is younger than the others in the cache, but for
those used since, so an eviction takes it only after `Max` of them.
`FitsNoOverlap` and `FitsExactCount` follow from a second invariant, `FitsInv`,
relative to the first: when the cache can hold every repository, cached entries
have distinct keys, so an insertion never finds it full; hence nothing is evicted
before the shutdown, nothing waits in the side table, and every count is exact.

**McpServerProofs** shows `OneBailDrains` on top of these: pool actions of the
server are pool actions or stutters, so `IInv` carries over, and `BailInv` says
that until a second trigger fires each stage of bail goes with a stage of the
shutdown.

**AnalyzeLifecycleProofs** shows `Spec => []AnalyzeInv`, and from it
`GraphMatchesState`, `CacheIsHonest`, `UpToDateIsHead`, `ForceRepairs` and
`FindingsOfIndex`. `HandInv` says what the process holds at each step; `GraphInv`
follows a graph from its building through bulkLoad to the state file;
`RegistryInv` adds that a registered commit has the tree of the index, and
`FindingsInv` that scan.sarif belongs to its fingerprint.

**EmbeddingStoreProofs** shows `StoreInv` (types; `RunInv`, what a run holds at
each step; `GuardInv`, which rows the recorded model speaks for) and from it
`EmbeddedIsCurrent`, `SwitchReembeds` and `GuardSound`.

**SharedFilesProofs** shows `ListedIffIndexed` from `RegInv`: what a process has
read still agrees with the file, outside the repositories in `off`, and the file
agrees with the indexes, outside those that a command is about. It shows
`FinalIsWhole` and `ReportIsTrue` from `DownInv`: while downloads do not overlap,
the one under way owns the temporary path, which has what it wrote or verified,
and the file at the final path is another.

**WorkersProofs** has the four machines that hand out work.
`ResultsComplete` follows from `ScanInv`: what is below the shared index has been
claimed, and each of those is run by exactly one worker or has ended with its slot
filled. `FilesAccounted` follows from `CobolInv`: what the JVM has printed of a
file are the first of its records and perhaps the flag (`PrintInv`), and it exits
with code 0 after the last file and a whole line (`JvmInv`); so a clean exit that
was heard to its end leaves no file short. `WavesExact` follows from `WaveInv`:
the rows are those of the jobs before the wave, a batch has the vectors of its
first texts, and a text was posted as often as its batch has tried it; the slices
of a wave are disjoint, and together are the next jobs. `DispatchExact` follows
from `ParseInv`: the loop of `chunkTasks` keeps the tasks so far as the
closed batches followed by the open one, with its bytes, and cuts only where the
budget or the cap says so; and since paths are distinct, their sorted order
exists.
What these say of loops needs induction over numbers. The library's induction
theorem takes the predicate as a parameter, which the provers cannot instantiate;
`NatBySet` says the same of a set of numbers, and the sets used are those of the
numbers for which the fact holds. `Recursion` gives the steps of a recursive
function from that, and `SameSteps` that two with the same steps are equal.

**IncrementalGraphProofs** shows `EdgeInv`, and from it `CallsCurrent` and
`SparedByCarried`. The argument is about the closure: if no file came or went, a
file outside it has not changed and neither has a file that it imports
(`OutsideClosure`), so its calls to itself and to the files it imports resolve as
they did (`SameTier`). Calls found in the global tier depend on all files, but are
below the confidence that is carried over. `ScopeInv` says that what the run works
with does not change under it, `CallsInv` that a call which the parser does not
see was carried over, and `DeadInv` the same for the mark of a symbol that is dead
and not marked. Without the condition on added and deleted files neither holds,
see *Divergences* (`types.ts:74-80`).

**PhaseRunnerProofs** shows `Spec => []RunnerInv`, its consequences `CycleIsReal`,
`NeverUnsorted` and `AlphabeticOrder`, and `Spec => Refines`. `StackInv`: the
stack is a path along deps of exactly the gray phases. `BlackInv`: the black
phases are closed under deps, and every set of them has a member that needs none
of the others. When the search ends all phases are black, so a sort that gets
stuck would leave a set without such a member: the rejection which runner.ts
calls unreachable is. `SortInv` ties the in-degrees and the ready set to what has
been emitted, a dependency that is listed twice included. Two theorems are about
the default pipeline. `ReadsServed` holds under any alphabet: each phase that is
read is among the declared needs, near or far, of its reader. `KeptOrder` holds
under that of the names alone: since the least ready phase is taken, a phase of
smaller name with all its needs behind it has run before one of greater name
(`OrderIsKept`); this puts accesses before communities and dead-code before
processes, and has everything else run by the time embeddings is ready, which
waits for confidence-demote and with it for scip-index. It is what breaks when a
phase is renamed.

Only model-checked: liveness (`AcquireReturns`, `BailExits`, `ServedOrExited`,
`ParkedIsClosedOrExited`, `ScanReturns`, `BatchesSettle`, `WavesEnd`, `Ends`), which
is beyond the prover. What the violation runs show are counterexamples.

## 6. Findings

1. `connection-pool.ts:163`: `release` finds its entry by key. After an eviction
   while in use and a reopening, the earlier caller's release decrements the newer
   entry, and the next eviction closes that one while it is used (`pool_inuse`).
   The header says an eviction never closes a store in use.
2. `server.ts:214`: of two triggers the second exits the process while the first
   still drains the pool (`server_twice`).
3. `analyze.ts:868`: after indexing uncommitted edits and `git restore`, analyze
   answers "already up to date" with the discarded edits in the graph
   (`analyze_uptodate`).
4. `parse.ts:276`: the cache is keyed by the bytes of a file, but a cached definition
   carries the path it was extracted under, and its id is made from that. A copy of
   a file, or one that was renamed, gets the other path's symbols and none of its
   own until `--force`, although parse.ts:271-273 calls a replay equivalent to
   parsing (`analyze_replay`).
5. `analyze.ts:217`: whether prior hashes may be used is decided by the local
   variant, not by the embedder that runs. A remote run after a local one keeps the
   local vectors and records its own model for all of them (`embed_mixed`).
6. `mro.ts:179`: an edit of one subclass brings its parent's file into the
   closure; the METHOD_OVERRIDES edge of another subclass then ends inside the
   closure and is not carried forward, and starts outside it and is not computed
   again. It is missing until the next full run (`incremental_full`), where
   mro.ts:56-59 promises the same graph hash. The same property fails without any
   class (`CallFiles`, an indexer, a .scip file): after a full run the SCIP edges
   are in the store, the next incremental run carries them forward before
   dead-code, and symbols that were dead are no longer.

Each property of a passing run comes with a mutant of the code's definition
(`mutants` in PROJECT.json; the operators named `X_Y` in the modules) under which
TLC finds it violated.

### Divergences met while modelling, without a run

- `connection-pool.ts:145-152`: an entry is in the cache with a count of zero until
  its opener goes on. If it is evicted by then it is closed and the opener is
  handed a closed store, though the header (13-14) says that an eviction must not
  close an entry in use. It takes more than `DEFAULT_MAX` repositories used at the
  same moment; `InUseIsOpen` says exactly when, and `EvictionSparesInUse` leaves it
  aside (its run shows the other way to a closed store).
- `runner.ts:11-15` says that each phase only sees outputs of the phases it declared,
  and that a phase must name in `deps` what it reads. `runner.ts:208-214` gives every
  phase all outputs, and markdown, routes, tools, orm, openapi, fetches, annotate
  and embeddings read that of scan without naming it (markdown.ts:55-57 says so).
  The first six throw when it is missing; annotate and the file tier of embeddings
  do without. `ReadsServed` shows that the other dependencies put scan first.
- `confidence-demote.ts:13-14`, `default-set.ts:105-106`: documented to run before
  mro, communities and dead-code. Only embeddings depends on it, so those run
  before it; `orchestrator.test.ts:40-78` pins that order.
- `confidence-demote` looks for a heuristic and a SCIP edge between the same two
  symbols; `addEdge` keeps one edge per pair, so in the pipeline there are none.
  Its tests give the edges different `step`s.
- `scip-index.ts:7-9` takes a .scip file to be fresh when it is newer than every
  source file of its language; `isCacheFresh` (391-405) compares it with the root
  directory, whose time does not change when a file is edited. Edits leave the
  SCIP edges of the old text in the graph.
- `types.ts:74-80`: carried edges whose ends are gone are said to be dropped; only
  the prior graph is asked, so edges of deleted files survive in incremental runs.
  A file that is added and takes over an import leaves the call to the old target.
- `parse.ts:342`: a file whose parser failed, timed out or is missing is cached with
  an empty extraction, which every later run replays instead of parsing again (the
  mishap `unparsed`).
- A run without embeddings erases the recorded model, and the guard of a query
  lets an absent model pass.
- `analyze.ts:299` calls bulkLoad a replace-mode wipe; vectors of removed nodes
  and of surplus chunks stay.
- The walk admits files of 10 MB, the parser 5 MB: those in between are indexed
  without symbols.
- `parse-worker.ts:140-143`: the comment promises a warning for a missing grammar;
  the code returns none.
- `subprocess.ts:164` listens to `exit`, not `close`, and can miss records; the
  standard input of the child has no error listener. `parse.ts:62-64`: a file that
  is flagged after its first record is not parsed again when the batch failed, and
  is parsed in addition when it succeeded.
- `scip-downloader.ts:25-26` says that no half-written binary ever appears. Two
  setups at once share the temporary path: one can rename the file the other is
  still writing. An archive's presence check (575-582) does not look at the
  version; fetches have no timeout.
- `exec.ts:81`: a scanner that ignores SIGTERM is waited for without end.
- `http-embedder.ts`: after one batch of a wave fails the others go on posting.

## 7. Not modelled

- Communities and processes of an incremental graph, interfaces and multiple
  inheritance, exported symbols, the docstrings a cache entry leaves out, and two
  analyze processes over one repository. The hazard of the last is listed in
  PROJECT.json without a property.
- Extraction, framework detection and the finer points of resolution (most of the ingestion package):
  heuristics over syntax trees. A definition of what they should return would be
  the code again, so there is nothing to check it against.
- Ranking, verdicts, SARIF utilities, policy, packs, wiki, evaluation: pure
  functions of one call's input, without state or order of events, enumerated by
  their unit tests; many are arithmetic on floating-point scores.
- SQL and encodings, command-line parsing, formatting of tool answers, progress
  and telemetry: data or wording.

These make up most of the repository's lines, so the models cover a small share
of them: the share that keeps state, runs concurrently, or can die half-way.
