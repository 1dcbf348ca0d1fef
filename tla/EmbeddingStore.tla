---------------------------- MODULE EmbeddingStore ----------------------------
(***************************************************************************)
(* The vectors of an index and the embedder they are said to come from.    *)
(* codehub analyze reads the content hashes of the last run, embeds what   *)
(* has changed (packages/ingestion/src/pipeline/phases/embeddings.ts),     *)
(* loads the graph, upserts the vectors and records the embedder           *)
(* (packages/cli/src/commands/analyze.ts); a query compares that record    *)
(* with its own embedder (packages/embedder/src/fingerprint.ts).           *)
(* A node's text is the sequence of chunks it is split into; a chunk       *)
(* stands for its content hash.                                            *)
(***************************************************************************)
EXTENDS Integers, Sequences

CONSTANTS
    Node,           \* nodes that can be embedded
    TierOf,         \* the tier that embeds a node: symbol, file or community
    Chunk,
    Texts,          \* the texts a node can have
    Absent,         \* the "text" of a node that the repository does not have
    Local,          \* model ids of the local embedder's variants
    Remote,         \* model ids of remote embedders, selected by the environment
    Requests,       \* the options and environments analyze is run with
    None

Tier == {"symbol", "file", "community"}
Model == Local \cup Remote

Options ==
    [embeddings : BOOLEAN, variant : Local, remote : Remote \cup {None},
     tiers : SUBSET Tier, force : BOOLEAN]

EmbedAssumption ==
    /\ TierOf \in [Node -> Tier]
    /\ Texts \subseteq Seq(Chunk) \cup {Absent}
    /\ Absent \notin Seq(Chunk)
    /\ Requests \subseteq Options
    /\ None \notin Model \cup Requests

ASSUME EmbedAssumption

VARIABLES
    source,         \* text of each node in the working tree
    nodes,          \* ids in the nodes table
    rows,           \* embeddings table: (node, chunk index) -> chunk, model of the vector
    recorded,       \* embedder_model_id in store_meta
    step,           \* where the analyze process is
    opts,           \* its flags and environment
    graph,          \* the texts it read
    adapter,        \* it may look up the hashes of the last run
    out, by,        \* what its embeddings phase returned: rows, model id
    harm            \* mishaps whose effect lasts (history)

runVars == <<opts, graph, adapter, out, by>>
vars == <<source, nodes, rows, recorded, step, runVars, harm>>

Row == [chunk : Chunk, model : Model]
Key == Node \X (Nat \ {0})

TypeOK ==
    /\ source \in [Node -> Texts]
    /\ nodes \subseteq Node
    /\ DOMAIN rows \subseteq Key /\ rows \in [DOMAIN rows -> Row]
    /\ recorded \in Model \cup {None}
    /\ step \in {"idle", "embedding", "loading", "upserting", "recording"}
    /\ opts \in IF step = "idle" THEN {None} ELSE Requests
    /\ graph \in [Node -> Texts \cup {Absent}]
    /\ adapter \in BOOLEAN
    /\ DOMAIN out \subseteq Key /\ out \in [DOMAIN out -> Row]
    /\ by \in Model \cup {None}
    /\ harm \subseteq {"cleared", "unasked", "left", "torn"}

NoGraph == [n \in Node |-> Absent]

Init ==
    /\ source \in [Node -> Texts]
    /\ nodes = {}
    /\ rows = <<>>
    /\ recorded = None
    /\ step = "idle"
    /\ opts = None /\ graph = NoGraph /\ adapter = FALSE
    /\ out = <<>> /\ by = None
    /\ harm = {}

-----------------------------------------------------------------------------
(* The embedder a run or a query opens: a remote one that is configured     *)
(* comes before the local variant.                                          *)
ModelOf(o) == IF o.remote # None THEN o.remote ELSE o.variant

(* normalizeGranularities *)
TiersOf(o) == IF o.tiers = {} THEN {"symbol"} ELSE o.tiers

(* The chunks that are embedded: all of a symbol's, the first of the others.*)
ChunksOf(n) ==
    IF graph[n] = Absent THEN <<>>
    ELSE IF TierOf[n] = "symbol" \/ graph[n] = <<>> THEN graph[n]
    ELSE <<graph[n][1]>>

(* A node is skipped when each of its chunks has a row with its hash.       *)
AllMatch_FirstOnly(n) ==
    /\ adapter
    /\ ChunksOf(n) # <<>> =>
          <<n, 1>> \in DOMAIN rows /\ rows[<<n, 1>>].chunk = ChunksOf(n)[1]

AllMatch(n) ==
    /\ adapter
    /\ \A i \in DOMAIN ChunksOf(n) :
          <<n, i>> \in DOMAIN rows /\ rows[<<n, i>>].chunk = ChunksOf(n)[i]

Jobs ==
    UNION {{<<n, i>> : i \in DOMAIN ChunksOf(n)} :
              n \in {m \in Node : TierOf[m] \in TiersOf(opts) /\ ~AllMatch(m)}}

(* The hashes are used unless the record names another model than the      *)
(* local variant's; a remote embedder is not considered.                   *)
CacheTrusted_Force(o) ==
    o.embeddings /\ (recorded = None \/ recorded = o.variant)

CacheTrusted(o) ==
    /\ o.embeddings /\ ~o.force
    /\ recorded = None \/ recorded = o.variant

(* INSERT OR REPLACE *)
Upserted(new, old) ==
    [k \in DOMAIN new \cup DOMAIN old |-> IF k \in DOMAIN new THEN new[k] ELSE old[k]]

(* assertEmbedderCompatible, without the force option. *)
Compatible(m) == recorded = None \/ recorded = m

-----------------------------------------------------------------------------
(* The process is gone. *)
Gone ==
    /\ step' = "idle"
    /\ opts' = None /\ graph' = NoGraph /\ adapter' = FALSE
    /\ out' = <<>> /\ by' = None

(* The developer changes a text.                                           *)
Edit(n, t) ==
    /\ step = "idle"
    /\ t # source[n]
    /\ source' = [source EXCEPT ![n] = t]
    /\ UNCHANGED <<nodes, rows, recorded, step, runVars, harm>>

(* runAnalyze, past its fast path, reads the repository. An edit during the *)
(* run is one after this step.                                             *)
Begin(o) ==
    /\ step = "idle"
    /\ step' = "embedding"
    /\ opts' = o
    /\ adapter' = CacheTrusted(o)
    /\ graph' = source
    /\ UNCHANGED <<source, nodes, rows, recorded, out, by, harm>>

(* The embeddings phase is off, or the local weights are not installed.    *)
EmbedNothing ==
    /\ step = "embedding"
    /\ ~opts.embeddings \/ opts.remote = None
    /\ step' = "loading"
    /\ out' = <<>> /\ by' = None
    /\ UNCHANGED <<source, nodes, rows, recorded, opts, graph, adapter, harm>>

Embed ==
    /\ step = "embedding"
    /\ opts.embeddings
    /\ step' = "loading"
    /\ out' = [k \in Jobs |-> [chunk |-> ChunksOf(k[1])[k[2]], model |-> ModelOf(opts)]]
    /\ by' = ModelOf(opts)
    /\ UNCHANGED <<source, nodes, rows, recorded, opts, graph, adapter, harm>>

(* bulkLoad in replace mode; it leaves the vectors and the record alone.   *)
Load ==
    /\ step = "loading"
    /\ step' = "upserting"
    /\ nodes' = {n \in Node : graph[n] # Absent}
    /\ UNCHANGED <<source, rows, recorded, opts, graph, adapter, out, by, harm>>

(* Vectors of another model than the recorded one are kept: because their  *)
(* hashes were trusted, or because this run does not cover them.           *)
Kept ==
    IF by \in {None, recorded} \/ DOMAIN rows \subseteq DOMAIN out THEN {}
    ELSE IF adapter THEN {"unasked"} ELSE {"left"}

Upsert ==
    /\ step = "upserting"
    /\ step' = "recording"
    /\ rows' = Upserted(out, rows)
    /\ harm' = harm \cup Kept
    /\ UNCHANGED <<source, nodes, recorded, opts, graph, adapter, out, by>>

(* setMeta(buildStoreMeta(...)): without an embedder the field is cleared. *)
(* A run that has written every row undoes all harm.                       *)
Record_KeepsModel ==
    /\ step = "recording"
    /\ Gone
    /\ recorded' = IF recorded = None THEN by ELSE recorded
    /\ harm' = IF by # None /\ DOMAIN rows = DOMAIN out THEN {}
               ELSE IF by = None /\ rows # <<>> THEN harm \cup {"cleared"}
               ELSE harm
    /\ UNCHANGED <<source, nodes, rows>>

Record ==
    /\ step = "recording"
    /\ Gone
    /\ recorded' = by
    /\ harm' = IF by # None /\ DOMAIN rows = DOMAIN out THEN {}
               ELSE IF by = None /\ rows # <<>> THEN harm \cup {"cleared"}
               ELSE harm
    /\ UNCHANGED <<source, nodes, rows>>

(* The process dies, or throws (an embedder that fails does): before the   *)
(* record is written the new rows are taken for those of the old model.    *)
Die ==
    /\ step # "idle"
    /\ Gone
    /\ harm' = IF step = "recording" /\ by # recorded /\ out # <<>>
               THEN harm \cup {"torn"} ELSE harm
    /\ UNCHANGED <<source, nodes, rows, recorded>>

Next ==
    \/ \E n \in Node, t \in Texts : Edit(n, t)
    \/ \E o \in Requests : Begin(o)
    \/ EmbedNothing
    \/ Embed
    \/ Load
    \/ Upsert
    \/ Record
    \/ Die

Spec == Init /\ [][Next]_vars

-----------------------------------------------------------------------------
(* A run with an embedder leaves, for every node of the graph in its tiers, *)
(* a vector of each chunk of the node's present text, whatever earlier runs *)
(* did, in whatever tiers, with whatever embedder, and wherever they died.  *)
EmbeddedIsCurrent ==
    step = "recording" /\ by # None =>
        \A n \in nodes : TierOf[n] \in TiersOf(opts) =>
            \A i \in DOMAIN ChunksOf(n) :
                <<n, i>> \in DOMAIN rows /\ rows[<<n, i>>].chunk = ChunksOf(n)[i]

(* The migration guard: a forced run, and a run that finds the record of a  *)
(* model other than the local variant's, leave no vector of another model   *)
(* on the nodes of the graph in its tiers.                                  *)
SwitchReembeds ==
    step = "recording" /\ by # None
    /\ (opts.force \/ recorded \notin {None, opts.variant}) =>
        \A n \in nodes : TierOf[n] \in TiersOf(opts) =>
            \A i \in DOMAIN ChunksOf(n) : rows[<<n, i>>].model = by

(* The query guard: unless one of the mishaps lasts, an embedder that the   *)
(* check lets pass has made every vector it is compared with.               *)
GuardSound ==
    step # "recording" /\ harm = {} =>
        \A m \in Model : Compatible(m) => \A k \in DOMAIN rows : rows[k].model = m

(* The comment on the migration guard, which fails for remote embedders: no *)
(* store with vectors of two embedders. The other mishaps are excused.      *)
NoMixedStore ==
    step = "idle" /\ harm \subseteq {"unasked"} =>
        \A j, k \in DOMAIN rows : rows[j].model = rows[k].model

-----------------------------------------------------------------------------
(* For the proofs: what the run under way holds, and what GuardSound needs. *)
Covers(n, r) ==
    \A i \in DOMAIN ChunksOf(n) :
        <<n, i>> \in DOMAIN r /\ r[<<n, i>>].chunk = ChunksOf(n)[i]

CoversAs(n, r, m) ==
    \A i \in DOMAIN ChunksOf(n) : <<n, i>> \in DOMAIN r /\ r[<<n, i>>].model = m

RunInv ==
    /\ step # "idle" => adapter = CacheTrusted(opts)
    /\ \A k \in DOMAIN out :
          out[k].model = by /\ out[k].chunk = ChunksOf(k[1])[k[2]]
    /\ by = None => out = <<>>
    /\ step \in {"idle", "embedding"} => out = <<>>
    /\ step \in {"loading", "upserting", "recording"} /\ by # None =>
          \A n \in Node : TierOf[n] \in TiersOf(opts) =>
              IF step = "recording"
              THEN Covers(n, rows) /\ (adapter \/ CoversAs(n, rows, by))
              ELSE \/ AllMatch(n)
                   \/ Covers(n, out) /\ CoversAs(n, out, by)

MadeBy(m) == (m = None => rows = <<>>) /\ \A k \in DOMAIN rows : rows[k].model = m

GuardInv ==
    /\ step # "recording" /\ harm = {} => MadeBy(recorded)
    /\ step = "recording" =>
          /\ \A k \in DOMAIN out : k \in DOMAIN rows /\ rows[k].model = by
          /\ harm = {} /\ by \in {None, recorded} => MadeBy(recorded)
          /\ harm = {} /\ by \notin {None, recorded} => DOMAIN rows = DOMAIN out

StoreInv == TypeOK /\ RunInv /\ GuardInv
=============================================================================
