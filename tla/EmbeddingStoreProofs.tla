------------------------- MODULE EmbeddingStoreProofs -------------------------
(***************************************************************************)
(* The vectors of an index, for any nodes, texts and embedders.  StoreInv  *)
(* is inductive: RunInv says what the run under way holds, GuardInv that   *)
(* without a lasting mishap every vector is the recorded embedder's.       *)
(***************************************************************************)
EXTENDS EmbeddingStore, TLAPS

USE EmbedAssumption DEF EmbedAssumption

LEMMA NoRows == DOMAIN <<>> = {} /\ <<>> \in [DOMAIN <<>> -> Row]
OBVIOUS

LEMMA ChunksType ==
    ASSUME TypeOK, NEW n \in Node
    PROVE  ChunksOf(n) \in Seq(Chunk)
<1>1. graph[n] \in Seq(Chunk) \cup {Absent}
  BY DEF TypeOK
<1>2. CASE graph[n] = Absent
  BY <1>2 DEF ChunksOf
<1>3. CASE graph[n] # Absent /\ (TierOf[n] = "symbol" \/ graph[n] = <<>>)
  BY <1>1, <1>3 DEF ChunksOf
<1>4. CASE graph[n] # Absent /\ TierOf[n] # "symbol" /\ graph[n] # <<>>
  <2>1. graph[n] \in Seq(Chunk) /\ graph[n] # <<>>
    BY <1>1, <1>4
  <2>2. graph[n][1] \in Chunk
    BY <2>1
  <2> QED
    BY <1>4, <2>2 DEF ChunksOf
<1> QED
  BY <1>2, <1>3, <1>4

LEMMA JobsType ==
    ASSUME TypeOK
    PROVE  /\ Jobs \subseteq Key
           /\ \A k \in Jobs : k[1] \in Node /\ k[2] \in DOMAIN ChunksOf(k[1])
           /\ \A k \in Jobs : ChunksOf(k[1])[k[2]] \in Chunk
<1> SUFFICES ASSUME NEW k \in Jobs
             PROVE  k \in Key /\ k[1] \in Node /\ k[2] \in DOMAIN ChunksOf(k[1])
                    /\ ChunksOf(k[1])[k[2]] \in Chunk
  OBVIOUS
<1>1. PICK n \in Node : \E i \in DOMAIN ChunksOf(n) : k = <<n, i>>
  BY DEF Jobs
<1>2. PICK i \in DOMAIN ChunksOf(n) : k = <<n, i>>
  BY <1>1
<1>3. ChunksOf(n) \in Seq(Chunk)
  BY ChunksType
<1>4. i \in Nat \ {0} /\ ChunksOf(n)[i] \in Chunk
  BY <1>2, <1>3
<1> QED
  BY <1>2, <1>4 DEF Key

(* A node of the run's tiers is skipped, or all its chunks are among the jobs. *)
LEMMA SkippedOrDone ==
    ASSUME NEW n \in Node, TierOf[n] \in TiersOf(opts), ~AllMatch(n),
           NEW i \in DOMAIN ChunksOf(n)
    PROVE  <<n, i>> \in Jobs
BY DEF Jobs

LEMMA TypeInit == Init => TypeOK
BY NoRows DEF Init, TypeOK, NoGraph, Key

LEMMA TypeStep ==
    ASSUME TypeOK, [Next]_vars
    PROVE  TypeOK'
<1>1. ASSUME NEW n \in Node, NEW t \in Texts, Edit(n, t) PROVE TypeOK'
  BY <1>1 DEF Edit, runVars, TypeOK, Key
<1>2. ASSUME NEW o \in Requests, Begin(o) PROVE TypeOK'
  BY <1>2 DEF Begin, CacheTrusted, Options, TypeOK, Key
<1>3. CASE EmbedNothing
  BY <1>3, NoRows DEF EmbedNothing, TypeOK, Key
<1>4. CASE Embed
  <2>1. opts \in Options
    BY <1>4 DEF Embed, TypeOK, Options
  <2>2. ModelOf(opts) \in Model
    BY <2>1 DEF ModelOf, Options, Model
  <2>3. DOMAIN out' = Jobs /\ Jobs \subseteq Key
    BY <1>4, JobsType DEF Embed
  <2>4. ASSUME NEW k \in Jobs PROVE out'[k] \in Row
    BY <1>4, <2>2, JobsType DEF Embed, Row
  <2>5. out' \in [DOMAIN out' -> Row]
    BY <1>4, <2>3, <2>4 DEF Embed
  <2> QED
    BY <1>4, <2>2, <2>3, <2>5 DEF Embed, TypeOK
<1>5. CASE Load
  BY <1>5 DEF Load, TypeOK, Key
<1>6. CASE Upsert
  <2>1. rows' \in [DOMAIN rows' -> Row] /\ DOMAIN rows' \subseteq Key
    BY <1>6 DEF Upsert, Upserted, TypeOK
  <2>2. harm' \subseteq {"cleared", "unasked", "left", "torn"}
    BY <1>6 DEF Upsert, Kept, TypeOK
  <2> QED
    BY <1>6, <2>1, <2>2 DEF Upsert, TypeOK
<1>7. CASE Record
  BY <1>7, NoRows DEF Record, Gone, NoGraph, TypeOK, Key
<1>8. CASE Die
  BY <1>8, NoRows DEF Die, Gone, NoGraph, TypeOK, Key
<1>9. CASE UNCHANGED vars
  BY <1>9 DEF vars, runVars, TypeOK
<1> QED
  BY <1>1, <1>2, <1>3, <1>4, <1>5, <1>6, <1>7, <1>8, <1>9 DEF Next

(* The type invariant.                                                      *)
THEOREM TypeCorrect == Spec => []TypeOK
<1>1. TypeOK /\ [Next]_vars => TypeOK'
  BY TypeStep
<1> QED
  BY <1>1, TypeInit, PTL DEF Spec

-----------------------------------------------------------------------------
(* What the phase returns covers the nodes that it does not skip.           *)
LEMMA EmbedCovers ==
    ASSUME TypeOK, Embed
    PROVE  /\ DOMAIN out' = Jobs
           /\ \A k \in DOMAIN out' :
                 out'[k].model = by' /\ out'[k].chunk = ChunksOf(k[1])[k[2]]
           /\ \A n \in Node : TierOf[n] \in TiersOf(opts) /\ ~AllMatch(n) =>
                 \A i \in DOMAIN ChunksOf(n) :
                    <<n, i>> \in DOMAIN out' /\ out'[<<n, i>>].chunk = ChunksOf(n)[i]
<1>1. out' = [k \in Jobs |-> [chunk |-> ChunksOf(k[1])[k[2]], model |-> ModelOf(opts)]]
  BY DEF Embed
<1>2. by' = ModelOf(opts)
  BY DEF Embed
<1>3. ASSUME NEW n \in Node, TierOf[n] \in TiersOf(opts), ~AllMatch(n),
             NEW i \in DOMAIN ChunksOf(n)
      PROVE  <<n, i>> \in DOMAIN out' /\ out'[<<n, i>>].chunk = ChunksOf(n)[i]
  BY <1>1, <1>3, SkippedOrDone
<1> QED
  BY <1>1, <1>2, <1>3

LEMMA RunStep ==
    ASSUME TypeOK, RunInv, [Next]_vars
    PROVE  RunInv'
<1> USE DEF RunInv, Covers, CoversAs
<1>1. ASSUME NEW n \in Node, NEW t \in Texts, Edit(n, t) PROVE RunInv'
  BY <1>1 DEF Edit, runVars
<1>2. ASSUME NEW o \in Requests, Begin(o) PROVE RunInv'
  BY <1>2 DEF Begin, CacheTrusted
<1>3. CASE EmbedNothing
  BY <1>3, NoRows DEF EmbedNothing, CacheTrusted
<1>4. CASE Embed
  <2>1. /\ step' = "loading" /\ by' \in Model
        /\ UNCHANGED <<rows, recorded, opts, graph, adapter>>
    BY <1>4 DEF Embed, TypeOK, ModelOf, Model, Options
  <2>2. \A n : ChunksOf(n)' = ChunksOf(n) /\ AllMatch(n)' = AllMatch(n)
    BY <2>1 DEF ChunksOf, AllMatch
  <2>3. adapter' = CacheTrusted(opts)'
    BY <2>1, <1>4 DEF Embed, CacheTrusted
  <2>4. ASSUME NEW n \in Node, (TierOf[n] \in TiersOf(opts))'
        PROVE (AllMatch(n) \/ (Covers(n, out) /\ CoversAs(n, out, by)))'
    <3>1. TierOf[n] \in TiersOf(opts)
      BY <2>1, <2>4 DEF TiersOf
    <3>2. CASE AllMatch(n)
      <4>1. AllMatch(n)'
        BY <2>2, <3>2
      <4> QED
        BY <4>1
    <3>3. CASE ~AllMatch(n)
      <4>1. \A i \in DOMAIN ChunksOf(n) :
               <<n, i>> \in DOMAIN out' /\ out'[<<n, i>>].chunk = ChunksOf(n)[i]
        BY <1>4, <3>1, <3>3, EmbedCovers
      <4>2. \A k \in DOMAIN out' : out'[k].model = by'
        BY <1>4, EmbedCovers
      <4> QED
        BY <2>2, <4>1, <4>2
    <3> QED
      BY <3>2, <3>3
  <2>5. by' # None
    BY <2>1
  <2>6. \A k \in DOMAIN out' : out'[k].model = by' /\ out'[k].chunk = ChunksOf(k[1])'[k[2]]
    BY <1>4, <2>2, EmbedCovers
  <2> QED
    BY <2>1, <2>3, <2>4, <2>5, <2>6
<1>5. CASE Load
  <2>1. step = "loading" /\ step' = "upserting"
        /\ UNCHANGED <<rows, recorded, opts, graph, adapter, out, by>>
    BY <1>5 DEF Load
  <2>2. \A n : ChunksOf(n)' = ChunksOf(n) /\ AllMatch(n)' = AllMatch(n)
    BY <2>1 DEF ChunksOf, AllMatch
  <2> QED
    BY <2>1, <2>2 DEF CacheTrusted, TiersOf
<1>6. CASE Upsert
  <2>1. /\ step = "upserting" /\ step' = "recording"
        /\ rows' = Upserted(out, rows)
        /\ UNCHANGED <<recorded, opts, graph, adapter, out, by>>
    BY <1>6 DEF Upsert
  <2>2. \A n : ChunksOf(n)' = ChunksOf(n)
    BY <2>1 DEF ChunksOf
  <2>3. /\ DOMAIN rows' = DOMAIN out \cup DOMAIN rows
        /\ \A k \in DOMAIN out : rows'[k] = out[k]
        /\ \A k \in DOMAIN rows \ DOMAIN out : rows'[k] = rows[k]
    BY <2>1 DEF Upserted
  <2>4. ASSUME by # None, NEW n \in Node, TierOf[n] \in TiersOf(opts)
        PROVE  (Covers(n, rows) /\ (adapter \/ CoversAs(n, rows, by)))'
    <3>1. CASE Covers(n, out) /\ CoversAs(n, out, by)
      BY <2>1, <2>2, <2>3, <3>1
    <3>2. CASE AllMatch(n)
      <4> DEFINE Same(i) == <<n, i>> \in DOMAIN rows /\ rows[<<n, i>>].chunk = ChunksOf(n)[i]
      <4>1. adapter /\ \A i \in DOMAIN ChunksOf(n) : Same(i)
        BY <3>2 DEF AllMatch
      <4>2. \A i \in DOMAIN ChunksOf(n) : <<n, i>> \in DOMAIN out =>
                out[<<n, i>>].chunk = ChunksOf(n)[i]
        OBVIOUS
      <4> QED
        BY <2>1, <2>2, <2>3, <4>1, <4>2
    <3> QED
      BY <2>1, <2>4, <3>1, <3>2
  <2> QED
    BY <2>1, <2>2, <2>4 DEF CacheTrusted, TiersOf
<1>7. CASE Record
  BY <1>7, NoRows DEF Record, Gone
<1>8. CASE Die
  BY <1>8, NoRows DEF Die, Gone
<1>9. CASE UNCHANGED vars
  <2>1. UNCHANGED <<rows, recorded, step, opts, graph, adapter, out, by>>
    BY <1>9 DEF vars, runVars
  <2>2. \A n : ChunksOf(n)' = ChunksOf(n) /\ AllMatch(n)' = AllMatch(n)
    BY <2>1 DEF ChunksOf, AllMatch
  <2> QED
    BY <2>1, <2>2 DEF CacheTrusted, TiersOf
<1> QED
  BY <1>1, <1>2, <1>3, <1>4, <1>5, <1>6, <1>7, <1>8, <1>9 DEF Next

-----------------------------------------------------------------------------
LEMMA UpsertedRows ==
    ASSUME Upsert
    PROVE  /\ DOMAIN rows' = DOMAIN out \cup DOMAIN rows
           /\ \A k \in DOMAIN out : rows'[k] = out[k]
           /\ \A k \in DOMAIN rows \ DOMAIN out : rows'[k] = rows[k]
BY DEF Upsert, Upserted

LEMMA GuardStep ==
    ASSUME TypeOK, RunInv, GuardInv, [Next]_vars
    PROVE  GuardInv'
<1> USE DEF GuardInv, MadeBy
<1>1. ASSUME NEW n \in Node, NEW t \in Texts, Edit(n, t) PROVE GuardInv'
  BY <1>1 DEF Edit, runVars
<1>2. ASSUME NEW o \in Requests, Begin(o) PROVE GuardInv'
  BY <1>2 DEF Begin
<1>3. CASE EmbedNothing
  BY <1>3 DEF EmbedNothing
<1>4. CASE Embed
  BY <1>4 DEF Embed
<1>5. CASE Load
  BY <1>5 DEF Load
<1>6. CASE Upsert
  <2>1. /\ step = "upserting" /\ step' = "recording" /\ harm' = harm \cup Kept
        /\ UNCHANGED <<recorded, out, by>>
    BY <1>6 DEF Upsert
  <2>2. \A k \in DOMAIN out' : k \in DOMAIN rows' /\ rows'[k].model = by'
    BY <1>6, <2>1, UpsertedRows DEF RunInv
  <2>3. ASSUME harm' = {} PROVE harm = {} /\ Kept = {}
    BY <2>1, <2>3
  <2>4. ASSUME harm' = {}, by \in {None, recorded} PROVE MadeBy(recorded)'
    <3>1. (recorded = None => rows = <<>>) /\ \A k \in DOMAIN rows : rows[k].model = recorded
      BY <2>1, <2>3, <2>4
    <3>2. \A k \in DOMAIN rows' : rows'[k].model = recorded
      BY <1>6, <2>4, <3>1, UpsertedRows, NoRows DEF RunInv
    <3>3. ASSUME recorded = None PROVE rows' = <<>>
      <4>1. out = <<>> /\ rows = <<>>
        BY <2>4, <3>1, <3>3 DEF RunInv
      <4>2. rows' = Upserted(out, rows)
        BY <1>6 DEF Upsert
      <4>3. rows' = [k \in {} |-> rows[k]]
        BY <4>1, <4>2, NoRows DEF Upserted
      <4>4. <<>> = [k \in {} |-> rows[k]]
        BY NoRows
      <4> QED
        BY <4>3, <4>4
    <3> QED
      BY <2>1, <3>2, <3>3
  <2>5. ASSUME harm' = {}, by \notin {None, recorded} PROVE DOMAIN rows' = DOMAIN out
    BY <1>6, <2>3, <2>5, UpsertedRows DEF Kept
  <2> QED
    BY <2>1, <2>2, <2>4, <2>5
<1>7. CASE Record
  <2>1. step = "recording" /\ step' = "idle" /\ recorded' = by /\ rows' = rows
    BY <1>7 DEF Record, Gone
  <2>2. harm' = IF by # None /\ DOMAIN rows = DOMAIN out THEN {}
                ELSE IF by = None /\ rows # <<>> THEN harm \cup {"cleared"}
                ELSE harm
    BY <1>7 DEF Record
  <2>3. CASE by # None /\ DOMAIN rows = DOMAIN out
    BY <2>1, <2>3
  <2>4. CASE by = None
    BY <2>1, <2>2, <2>4, NoRows
  <2>5. CASE by # None /\ DOMAIN rows # DOMAIN out
    BY <2>1, <2>2, <2>5
  <2> QED
    BY <2>1, <2>3, <2>4, <2>5
<1>8. CASE Die
  <2>1. step # "idle" /\ step' = "idle" /\ UNCHANGED <<rows, recorded>>
    BY <1>8 DEF Die, Gone
  <2>2. harm' = IF step = "recording" /\ by # recorded /\ out # <<>>
                THEN harm \cup {"torn"} ELSE harm
    BY <1>8 DEF Die
  <2>3. CASE step # "recording"
    BY <2>1, <2>2, <2>3
  <2>4. CASE step = "recording" /\ by = recorded
    BY <2>1, <2>2, <2>4
  <2>5. CASE step = "recording" /\ by # recorded /\ out # <<>>
    BY <2>1, <2>2, <2>5
  <2>6. CASE step = "recording" /\ by # recorded /\ out = <<>> /\ by = None
    BY <2>1, <2>2, <2>6
  <2>7. CASE step = "recording" /\ by # recorded /\ out = <<>> /\ by # None
    <3>1. ASSUME harm = {} PROVE DOMAIN rows = {}
      BY <2>7, <3>1, NoRows
    <3>2. ASSUME harm = {} PROVE rows = <<>>
      <4>1. rows = [k \in {} |-> rows[k]]
        BY <3>1, <3>2 DEF TypeOK
      <4>2. <<>> = [k \in {} |-> rows[k]]
        BY NoRows
      <4> QED
        BY <4>1, <4>2
    <3> QED
      BY <2>1, <2>2, <2>7, <3>1, <3>2
  <2> QED
    BY <2>1, <2>3, <2>4, <2>5, <2>6, <2>7
<1>9. CASE UNCHANGED vars
  BY <1>9 DEF vars, runVars
<1> QED
  BY <1>1, <1>2, <1>3, <1>4, <1>5, <1>6, <1>7, <1>8, <1>9 DEF Next

THEOREM StoreInvariant == Spec => []StoreInv
<1>1. Init => StoreInv
  <2>1. ASSUME Init PROVE RunInv
    BY <2>1, NoRows DEF Init, RunInv, CacheTrusted
  <2>2. ASSUME Init PROVE GuardInv
    BY <2>2, NoRows DEF Init, GuardInv, MadeBy
  <2> QED
    BY <2>1, <2>2, TypeInit DEF StoreInv
<1>2. StoreInv /\ [Next]_vars => StoreInv'
  BY TypeStep, RunStep, GuardStep DEF StoreInv
<1> QED
  BY <1>1, <1>2, PTL DEF Spec

(* Every node of the graph has vectors of its present text after a run with *)
(* an embedder.                                                             *)
THEOREM EmbeddedIsCurrentHolds == Spec => []EmbeddedIsCurrent
<1>1. StoreInv => EmbeddedIsCurrent
  BY DEF StoreInv, RunInv, Covers, EmbeddedIsCurrent, TypeOK
<1> QED
  BY <1>1, StoreInvariant, PTL

(* A forced run, or one that finds another model recorded, re-embeds.       *)
THEOREM SwitchReembedsHolds == Spec => []SwitchReembeds
<1>1. StoreInv => SwitchReembeds
  <2>1. ASSUME StoreInv, step = "recording", by # None,
               opts.force \/ recorded \notin {None, opts.variant}
        PROVE  ~adapter
    BY <2>1 DEF StoreInv, RunInv, CacheTrusted, TypeOK
  <2> QED
    BY <2>1 DEF StoreInv, RunInv, CoversAs, SwitchReembeds, TypeOK
<1> QED
  BY <1>1, StoreInvariant, PTL

(* Without a lasting mishap the query guard only lets pass the embedder     *)
(* that made the vectors.                                                   *)
THEOREM GuardSoundHolds == Spec => []GuardSound
<1>1. StoreInv => GuardSound
  BY NoRows DEF StoreInv, GuardInv, MadeBy, GuardSound, Compatible
<1> QED
  BY <1>1, StoreInvariant, PTL
=============================================================================
