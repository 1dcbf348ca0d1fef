--------------------------- MODULE AnalyzeLifecycle ---------------------------
(***************************************************************************)
(* codehub analyze (runAnalyze in packages/cli/src/commands/analyze.ts)    *)
(* over one repository: the working tree and its commits, the files under  *)
(* .codehub, the registry, and one analyze process that takes its steps    *)
(* between the developer's edits and may die between any two of them.      *)
(*                                                                         *)
(* The content of a file stands for everything the pipeline derives from   *)
(* it.  The graph is kept in two parts, as the pipeline builds it: defs,   *)
(* the rows extracted from a file, and links, its cross-file rows, which   *)
(* an incremental run may carry over from the graph before.  What a row    *)
(* owes to other files is left to IncrementalGraph.  One codehub process   *)
(* runs at a time.                                                         *)
(***************************************************************************)
EXTENDS Integers, FiniteSets

CONSTANTS
    File,      \* the files that change
    Content,   \* the contents a file can have
    Commit,    \* the commits: the bound on how many are made
    Root,      \* the commit the repository starts at
    Total,     \* number of files of the repository, those never changed included
    Nothing,   \* what is extracted from a file when the parser fails, or
               \* under the path of another
    None

Tree == [File -> Content]
Extraction == Content \cup {Nothing}
Graph == [File -> Extraction]

(* What the parse cache files under a hash: the definitions, which name the  *)
(* path they were extracted under.                                           *)
Entry == [what : Extraction, under : File]

ASSUME AnalyzeAssumption ==
    /\ Root \in Commit
    /\ Total \in Nat
    /\ Nothing \notin Content
    /\ None \notin Extraction /\ None \notin Graph /\ None \notin Commit /\ None \notin Entry

VARIABLES
    tree, head,         \* the working tree and HEAD
    commits,            \* the tree of each commit
    cache,              \* parse-cache: what is stored under the hash of a content
    defs, links,        \* store.sqlite: the graph
    scanState,          \* scan-state.json: the file hashes of the last index
    registry,           \* lastCommit of the registry's entry
    findings,           \* store.sqlite: the trees whose findings it holds
    sarif,              \* scan.sarif: the tree it was made from
    fingerprint,        \* scan-fingerprint.json
    pc, force,          \* the analyze process and its --force flag
    misread,            \* its parse phase extracted something else than it hashed
    snap, snapHead,     \* the file hashes and the HEAD its scan phase read
    newDefs, newLinks,  \* the graph it has built (None, like snap: not in use)
    answer,             \* what the last analyze reported
    harm                \* history: the mishaps that can leave files disagreeing

gitVars   == <<tree, head, commits>>
graphVars == <<defs, links>>
scanVars  == <<findings, sarif, fingerprint>>
snapVars  == <<snap, snapHead>>
builtVars == <<newDefs, newLinks>>
runVars   == <<force, misread, snapVars, builtVars>>
vars == <<gitVars, cache, graphVars, scanState, registry, scanVars, pc, runVars,
          answer, harm>>

Step == {"idle", "walk", "head", "parse", "load", "state", "register",
         "findings", "ingest", "stamp"}

TypeOK ==
    /\ tree \in Tree
    /\ head \in Commit
    /\ commits \in [Commit -> Tree \cup {None}]
    /\ cache \in [Content -> Entry \cup {None}]
    /\ defs \in Graph \cup {None} /\ links \in Graph \cup {None}
    /\ scanState \in Tree \cup {None}
    /\ registry \in Commit \cup {None}
    /\ findings \subseteq Tree
    /\ sarif \in Tree \cup {None}
    /\ fingerprint \in Tree \cup {None}
    /\ pc \in Step
    /\ force \in BOOLEAN
    /\ snap \in Tree \cup {None}
    /\ snapHead \in Commit \cup {None}
    /\ misread \in BOOLEAN
    /\ newDefs \in Graph \cup {None} /\ newLinks \in Graph \cup {None}
    /\ answer \in {"none", "upToDate", "indexed", "unscanned"}
    /\ harm \subseteq {"race", "unparsed", "moved", "torn", "unregistered", "dirty", "scan"}

-----------------------------------------------------------------------------
(* A commit without an index; git status is clean.                         *)
Init ==
    /\ tree \in Tree
    /\ head = Root
    /\ commits = [c \in Commit |-> IF c = Root THEN tree ELSE None]
    /\ cache = [v \in Content |-> None]
    /\ defs = None /\ links = None
    /\ scanState = None
    /\ registry = None
    /\ findings = {} /\ sarif = None /\ fingerprint = None
    /\ pc = "idle" /\ force = FALSE /\ misread = FALSE
    /\ snap = None /\ snapHead = None
    /\ newDefs = None /\ newLinks = None
    /\ answer = "none"
    /\ harm = {}

Clean == tree = commits[head]

-----------------------------------------------------------------------------
(* The developer, at any time.                                             *)
diskVars == <<cache, graphVars, scanState, registry, scanVars>>

Edit(f, v) ==
    /\ tree[f] # v
    /\ tree' = [tree EXCEPT ![f] = v]
    /\ UNCHANGED <<head, commits, diskVars, pc, runVars, answer, harm>>

DiscardEdits ==
    /\ ~Clean
    /\ tree' = commits[head]
    /\ UNCHANGED <<head, commits, diskVars, pc, runVars, answer, harm>>

CommitEdits(c) ==
    /\ ~Clean
    /\ commits[c] = None
    /\ commits' = [commits EXCEPT ![c] = tree]
    /\ head' = c
    /\ UNCHANGED <<tree, diskVars, pc, runVars, answer, harm>>

Checkout(c) ==
    /\ Clean
    /\ c # head /\ commits[c] # None
    /\ head' = c
    /\ tree' = commits[c]
    /\ UNCHANGED <<commits, diskVars, pc, runVars, answer, harm>>

(* codehub scan: rewrites scan.sarif and adds its findings to the graph,    *)
(* if that succeeds; the fingerprint is analyze's.                          *)
StandaloneScan ==
    /\ pc = "idle"
    /\ sarif' = tree
    /\ findings' \in {findings} \cup (IF defs = None THEN {} ELSE {findings \cup {tree}})
    /\ harm' = harm \cup {"scan"}
    /\ UNCHANGED <<gitVars, cache, graphVars, scanState, registry, fingerprint,
                   pc, runVars, answer>>

-----------------------------------------------------------------------------
(* checkFastPath: the entry's commit is HEAD and nothing is uncommitted. *)
FastPath_IgnoresEdits == registry # None /\ head = registry

FastPath == registry # None /\ Clean /\ head = registry

(* analyze starts; it either answers at once or goes on to index. *)
Start(f) ==
    /\ pc = "idle"
    /\ force' = f
    /\ IF ~f /\ FastPath
       THEN pc' = "idle" /\ answer' = "upToDate"
       ELSE pc' = "walk" /\ answer' = "none"
    /\ misread' = FALSE
    /\ UNCHANGED <<gitVars, diskVars, snapVars, builtVars, harm>>

(* The scan phase hashes the files ... *)
WalkFiles ==
    /\ pc = "walk"
    /\ snap' = tree
    /\ pc' = "head"
    /\ UNCHANGED <<gitVars, diskVars, force, misread, snapHead, builtVars, answer, harm>>

(* ... and then asks git for HEAD. *)
ReadHead ==
    /\ pc = "head"
    /\ snapHead' = head
    /\ pc' = "parse"
    /\ UNCHANGED <<gitVars, diskVars, force, misread, snap, builtVars, answer, harm>>

Hit_DespiteForce(f) == cache[snap[f]] # None

(* The parse cache answers for f: it is asked with the hash from the walk. *)
Hit(f) == ~force /\ cache[snap[f]] # None

Misses == {f \in File : ~Hit(f)}

(* A hit is replayed with the path of its entry: another file's brings back  *)
(* symbols of that path (which are not followed), and none of f.             *)
Replayed(f) == IF cache[snap[f]].under = f THEN cache[snap[f]].what ELSE Nothing

(* What is extracted for each file: a miss reads the file, now. The worker   *)
(* that times out, has no grammar or throws on a file reports no captures.   *)
Extracted(failed) ==
    [f \in File |-> IF Hit(f) THEN Replayed(f)
                    ELSE IF f \in failed THEN Nothing ELSE tree[f]]

(* A file that is read has changed since it was hashed.                      *)
Raced(failed) == \E f \in Misses \ failed : tree[f] # snap[f]

EntryOf(failed, f) == [what |-> Extracted(failed)[f], under |-> f]

CacheAfter_AnyKey(failed) ==
    LET written == {EntryOf(failed, f) : f \in Misses}
    IN  {d \in [Content -> {cache[v] : v \in Content} \cup {None} \cup written] :
            \A v \in Content : d[v] \in {cache[v], None} \cup written}

(* Each miss, an empty one like any other, is written back under the hash    *)
(* from the walk, if that succeeds; a write may evict anything.              *)
CacheAfter(failed) ==
    LET written(v) == {EntryOf(failed, f) : f \in {g \in Misses : snap[g] = v}}
    IN  {d \in [Content -> {cache[v] : v \in Content} \cup {None}
                              \cup {EntryOf(failed, f) : f \in Misses}] :
            \A v \in Content : d[v] \in {cache[v], None} \cup written(v)}

Changed_Nothing == {}

(* incremental-scope: the files that differ from scan-state.json ... *)
Changed == {f \in File : scanState[f] # snap[f]}

(* ... and those around them in the import and heritage graphs. *)
Closures == {C \in SUBSET File : Changed \subseteq C /\ (Changed = {} => C = {})}

Incremental_EvenForced(C) == 10 * Cardinality(C) <= 3 * Total

(* At most 30% of the files are in the closure (FULL_REINDEX_THRESHOLD). *)
Incremental(C) == ~force /\ 10 * Cardinality(C) <= 3 * Total

LinksOf(C, failed) ==
    IF Incremental(C)
    THEN [f \in File |-> IF f \in C THEN Extracted(failed)[f] ELSE links[f]]
    ELSE Extracted(failed)

(* A file hits the entry of another file, or of its own former path.        *)
Moved == \E f \in File : Hit(f) /\ cache[snap[f]].under # f

MisreadBy(failed) ==
    (IF Raced(failed) THEN {"race"} ELSE {}) \cup (IF failed # {} THEN {"unparsed"} ELSE {})
        \cup (IF Moved THEN {"moved"} ELSE {})

(* The rest of the pipeline, from the parse phase on. *)
BuildGraph ==
    /\ pc = "parse"
    /\ \E failed \in SUBSET Misses :
          /\ newDefs' = Extracted(failed)
          /\ IF scanState = None
             THEN newLinks' = Extracted(failed)
             ELSE \E C \in Closures : newLinks' = LinksOf(C, failed)
          /\ cache' \in CacheAfter(failed)
          /\ misread' = (MisreadBy(failed) # {})
          /\ harm' = harm \cup MisreadBy(failed)
    /\ pc' = "load"
    /\ UNCHANGED <<gitVars, graphVars, scanState, registry, scanVars, force,
                   snapVars, answer>>

(* bulkLoad in replace mode: one transaction; the findings go with the rest. *)
BulkLoad ==
    /\ pc = "load"
    /\ defs' = newDefs /\ links' = newLinks
    /\ findings' = {}
    /\ newDefs' = None /\ newLinks' = None
    /\ pc' = "state"
    /\ UNCHANGED <<gitVars, cache, scanState, registry, sarif, fingerprint, force,
                   misread, snapVars, answer, harm>>

(* writeScanState replaces the file by a rename. *)
WriteScanState ==
    /\ pc = "state"
    /\ scanState' = snap
    /\ pc' = "register"
    /\ UNCHANGED <<gitVars, cache, graphVars, registry, scanVars, runVars, answer, harm>>

RunEnds(how) == pc' = "idle" /\ answer' = how /\ snap' = None

(* upsertRegistry records HEAD as the scan phase read it; with --no-scan the *)
(* run ends here.                                                            *)
UpsertRegistry ==
    /\ pc = "register"
    /\ registry' = snapHead
    /\ harm' = (harm \ {"unregistered", "dirty"})
                 \cup (IF snap = commits[snapHead] THEN {} ELSE {"dirty"})
    /\ snapHead' = None
    /\ \/ pc' = "findings" /\ UNCHANGED <<answer, snap>>
       \/ RunEnds("unscanned")
    /\ UNCHANGED <<gitVars, cache, graphVars, scanState, scanVars, force, misread,
                   builtVars>>

-----------------------------------------------------------------------------
(* The scan stage, whose errors are logged and forgotten.                  *)
SkipScan == ~force /\ fingerprint = snap /\ sarif # None

(* The scanned content is that of the last scan: put its findings back. *)
Reingested_Nothing == findings

Reingested == findings \cup {sarif}

ReuseSarif ==
    /\ pc = "findings" /\ SkipScan
    /\ \/ findings' = Reingested /\ RunEnds("indexed")
       \/ findings' = findings /\ RunEnds("unscanned")
    /\ UNCHANGED <<gitVars, cache, graphVars, scanState, registry, sarif, fingerprint,
                   force, misread, snapHead, builtVars, harm>>

(* runScan: the scanners read the working tree; scan.sarif is written. *)
RunScanners ==
    /\ pc = "findings" /\ ~SkipScan
    /\ \/ sarif' = tree /\ pc' = "ingest" /\ UNCHANGED <<answer, snap>>
       \/ sarif' = sarif /\ RunEnds("unscanned")
    /\ UNCHANGED <<gitVars, cache, graphVars, scanState, registry, findings,
                   fingerprint, force, misread, snapHead, builtVars, harm>>

(* runScan ingests what it wrote and ignores an error: answer "unscanned". *)
IngestSarif ==
    /\ pc = "ingest"
    /\ \/ findings' = findings \cup {sarif} /\ answer' = "indexed"
       \/ findings' = findings /\ answer' = "unscanned"
    /\ pc' = "stamp"
    /\ UNCHANGED <<gitVars, cache, graphVars, scanState, registry, sarif, fingerprint,
                   runVars, harm>>

(* The fingerprint is that of the files the index was built from. *)
WriteFingerprint ==
    /\ pc = "stamp"
    /\ fingerprint' = snap
    /\ RunEnds(answer)
    /\ harm' = IF sarif = snap THEN harm \ {"scan"} ELSE harm \cup {"scan"}
    /\ UNCHANGED <<gitVars, cache, graphVars, scanState, registry, findings, sarif,
                   force, misread, snapHead, builtVars>>

(* An error outside the scan stage, or the end of the process, at any step. *)
Mishap ==
    IF pc = "state" THEN {"torn"}
    ELSE IF pc = "register" THEN {"unregistered"}
    ELSE IF pc \in {"ingest", "stamp"} THEN {"scan"}
    ELSE {}

Crash ==
    /\ pc # "idle"
    /\ RunEnds("none")
    /\ force' = FALSE /\ misread' = FALSE
    /\ snapHead' = None /\ newDefs' = None /\ newLinks' = None
    /\ harm' = harm \cup Mishap
    /\ UNCHANGED <<gitVars, diskVars>>

Next ==
    \/ \E f \in File, v \in Content : Edit(f, v)
    \/ DiscardEdits
    \/ \E c \in Commit : CommitEdits(c)
    \/ \E c \in Commit : Checkout(c)
    \/ StandaloneScan
    \/ \E f \in BOOLEAN : Start(f)
    \/ WalkFiles
    \/ ReadHead
    \/ BuildGraph
    \/ BulkLoad
    \/ WriteScanState
    \/ UpsertRegistry
    \/ ReuseSarif
    \/ RunScanners
    \/ IngestSarif
    \/ WriteFingerprint
    \/ Crash

Spec == Init /\ [][Next]_vars

-----------------------------------------------------------------------------
(* The graph and scan-state.json describe the same tree, between runs and    *)
(* after a crash, unless a run died between writing the one and the other,   *)
(* parsed a file that had changed since it was hashed, failed to parse one,  *)
(* or replayed one with the path of another.  The next incremental run       *)
(* relies on it: it takes the changed files from scan-state.json and the     *)
(* rows of the others from the graph.                                        *)
GraphMatchesState ==
    pc # "state" /\ harm \cap {"race", "unparsed", "moved", "torn"} = {} =>
        defs = scanState /\ links = scanState

(* A parse-cache entry is the extraction of the content it is filed under,   *)
(* unless a run raced with an edit or a file could not be parsed.            *)
CacheIsHonest ==
    harm \cap {"race", "unparsed"} = {} => \A v \in Content : cache[v] = None \/ cache[v].what = v

(* When analyze would answer "already up to date", the graph is that of the  *)
(* checked-out commit, through edits, commits, checkouts and crashes, unless *)
(* the index was built from uncommitted edits or a run died before it        *)
(* registered what it had loaded.                                            *)
UpToDateIsHead ==
    FastPath /\ pc \notin {"state", "register"}
             /\ harm \cap {"race", "unparsed", "moved", "torn", "unregistered", "dirty"} = {} =>
        defs = tree /\ links = tree

(* A finished --force run leaves a graph built from the files it hashed,     *)
(* whatever earlier runs, failed parses and crashes have left behind.        *)
ForceRepairs ==
    answer \in {"indexed", "unscanned"} /\ pc = "idle" /\ force /\ ~misread =>
        defs = scanState /\ links = scanState

(* A finished run whose scan stage did not fail leaves exactly the findings  *)
(* of the files it indexed, scanned or put back from scan.sarif, although    *)
(* bulkLoad has wiped them.                                                  *)
FindingsOfIndex ==
    pc = "idle" /\ answer = "indexed" /\ "scan" \notin harm =>
        findings = {scanState}

(* The header comment: "up to date" means that there is nothing to index.    *)
(* It fails after an index of edits that are then discarded, without a crash *)
(* or a race.                                                                *)
AlreadyUpToDate ==
    FastPath /\ pc = "idle" /\ harm \subseteq {"dirty"} => defs = tree

(* The comment on the replay of cache hits: a hit is equivalent to parsing   *)
(* the same bytes again.  It fails for a file that is the copy of another or *)
(* has been renamed, without a crash, a race or a failure to parse.          *)
ReplayIsReparse ==
    pc = "parse" /\ harm = {} => \A f \in File : Hit(f) => Replayed(f) = snap[f]

-----------------------------------------------------------------------------
(* The inductive invariant.                                                *)
Afterwards == {"register", "findings", "ingest", "stamp"}
Reported   == answer \in {"indexed", "unscanned"}

(* What the process has in hand at each step.                              *)
HandInv ==
    /\ snap \in Tree <=> pc \notin {"idle", "walk"}
    /\ pc \in {"parse", "load", "state", "register"} => snapHead \in Commit
    /\ pc = "load" => newDefs \in Graph /\ newLinks \in Graph
    /\ pc # "idle" => ~Reported \/ pc = "stamp"

(* The graph it has built, or just loaded, is that of the files it hashed.  *)
BuiltInv(d, l) ==
    /\ harm \cap {"race", "unparsed", "moved", "torn"} = {} => d = snap /\ l = snap
    /\ force /\ ~misread => d = snap /\ l = snap

GraphInv ==
    /\ pc = "load" => BuiltInv(newDefs, newLinks)
    /\ pc = "state" => links # None /\ BuiltInv(defs, links)
    /\ pc \in Afterwards => scanState = snap /\ BuiltInv(defs, links)
    /\ scanState # None => links # None
    /\ GraphMatchesState
    /\ ForceRepairs

(* A registered commit has a tree; it is that of the index.                 *)
RegistryInv ==
    /\ commits[head] # None
    /\ snapHead # None => commits[snapHead] # None
    /\ registry # None => commits[registry] # None
    /\ registry # None /\ pc \notin {"state", "register"}
         /\ harm \cap {"race", "unparsed", "moved", "torn", "unregistered", "dirty"} = {}
       => commits[registry] = scanState

(* scan.sarif was made from the files of its fingerprint, and the findings   *)
(* of the graph come from it.                                                *)
FindingsInv ==
    /\ pc \notin {"ingest", "stamp"} /\ "scan" \notin harm /\ fingerprint # None =>
         sarif = fingerprint
    /\ pc \in {"state", "register", "findings", "ingest"} => findings = {}
    /\ pc \in {"ingest", "stamp"} => sarif \in Tree
    /\ pc = "stamp" /\ answer = "indexed" => findings = {sarif}
    /\ FindingsOfIndex

AnalyzeInv ==
    /\ TypeOK
    /\ HandInv
    /\ GraphInv
    /\ CacheIsHonest
    /\ RegistryInv
    /\ FindingsInv
=============================================================================
