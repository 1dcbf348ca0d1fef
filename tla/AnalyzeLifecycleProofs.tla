------------------------ MODULE AnalyzeLifecycleProofs ------------------------
(***************************************************************************)
(* For any set of files, contents and commits: AnalyzeInv is an inductive  *)
(* invariant of AnalyzeLifecycle.                                          *)
(***************************************************************************)
EXTENDS AnalyzeLifecycle, TLAPS

(* None is told apart from the values it stands next to.                    *)
LEMMA NoneIsNoTree == None \notin Content /\ None \notin Tree
<1>1. Tree \subseteq Graph
  BY DEF Tree, Graph, Extraction
<1> QED  BY <1>1, AnalyzeAssumption DEF Extraction

(* An edit of the working tree. *)
LEMMA EditStep ==
    ASSUME AnalyzeInv, NEW f \in File, NEW v \in Content, Edit(f, v)
    PROVE  AnalyzeInv'
<1>1. TypeOK'
  BY AnalyzeAssumption
  DEF AnalyzeInv, TypeOK, Tree, Edit, runVars, snapVars, builtVars, diskVars,
      graphVars, scanVars
<1>2. HandInv'
  BY AnalyzeAssumption
  DEF AnalyzeInv, TypeOK, Tree, HandInv, Reported, Edit, runVars, snapVars,
      builtVars, diskVars, graphVars, scanVars
<1>3. GraphInv'
  BY AnalyzeAssumption
  DEF AnalyzeInv, TypeOK, Tree, HandInv, GraphInv, BuiltInv, Afterwards,
      GraphMatchesState, ForceRepairs, Reported, Edit, runVars, snapVars,
      builtVars, diskVars, graphVars, scanVars
<1>4. CacheIsHonest'
  BY AnalyzeAssumption
  DEF AnalyzeInv, TypeOK, Tree, CacheIsHonest, Edit, runVars, snapVars,
      builtVars, diskVars, graphVars, scanVars
<1>5. RegistryInv'
  BY AnalyzeAssumption
  DEF AnalyzeInv, TypeOK, Tree, HandInv, GraphInv, Afterwards, RegistryInv,
      Edit, runVars, snapVars, builtVars, diskVars, graphVars, scanVars
<1>6. FindingsInv'
  BY AnalyzeAssumption
  DEF AnalyzeInv, TypeOK, Tree, HandInv, GraphInv, Afterwards, FindingsInv,
      FindingsOfIndex, Reported, Edit, runVars, snapVars, builtVars, diskVars,
      graphVars, scanVars
<1> QED  BY <1>1, <1>2, <1>3, <1>4, <1>5, <1>6 DEF AnalyzeInv

(* Discarding the edits. *)
LEMMA DiscardEditsStep ==
    ASSUME AnalyzeInv, DiscardEdits
    PROVE  AnalyzeInv'
<1>1. TypeOK'
  BY AnalyzeAssumption
  DEF AnalyzeInv, TypeOK, RegistryInv, Step, DiscardEdits, Clean, runVars,
      snapVars, builtVars, diskVars, graphVars, scanVars
<1>2. HandInv'
  BY AnalyzeAssumption
  DEF AnalyzeInv, TypeOK, Tree, HandInv, Reported, DiscardEdits, Clean,
      runVars, snapVars, builtVars, diskVars, graphVars, scanVars
<1>3. GraphInv'
  BY AnalyzeAssumption
  DEF AnalyzeInv, TypeOK, Tree, HandInv, GraphInv, BuiltInv, Afterwards,
      GraphMatchesState, ForceRepairs, Reported, DiscardEdits, Clean, runVars,
      snapVars, builtVars, diskVars, graphVars, scanVars
<1>4. CacheIsHonest'
  BY AnalyzeAssumption
  DEF AnalyzeInv, TypeOK, Tree, CacheIsHonest, DiscardEdits, Clean, runVars,
      snapVars, builtVars, diskVars, graphVars, scanVars
<1>5. RegistryInv'
  BY AnalyzeAssumption
  DEF AnalyzeInv, TypeOK, Tree, HandInv, GraphInv, Afterwards, RegistryInv,
      DiscardEdits, Clean, runVars, snapVars, builtVars, diskVars, graphVars,
      scanVars
<1>6. FindingsInv'
  BY AnalyzeAssumption
  DEF AnalyzeInv, TypeOK, Tree, HandInv, GraphInv, Afterwards, FindingsInv,
      FindingsOfIndex, Reported, DiscardEdits, Clean, runVars, snapVars,
      builtVars, diskVars, graphVars, scanVars
<1> QED  BY <1>1, <1>2, <1>3, <1>4, <1>5, <1>6 DEF AnalyzeInv

(* A commit. *)
LEMMA CommitEditsStep ==
    ASSUME AnalyzeInv, NEW c \in Commit, CommitEdits(c)
    PROVE  AnalyzeInv'
<1>1. TypeOK'
  BY AnalyzeAssumption
  DEF AnalyzeInv, TypeOK, Step, CommitEdits, Clean, runVars, snapVars,
      builtVars, diskVars, graphVars, scanVars
<1>2. HandInv'
  BY AnalyzeAssumption
  DEF AnalyzeInv, TypeOK, Tree, HandInv, Reported, CommitEdits, Clean,
      runVars, snapVars, builtVars, diskVars, graphVars, scanVars
<1>3. GraphInv'
  BY AnalyzeAssumption
  DEF AnalyzeInv, TypeOK, Tree, HandInv, GraphInv, BuiltInv, Afterwards,
      GraphMatchesState, ForceRepairs, Reported, CommitEdits, Clean, runVars,
      snapVars, builtVars, diskVars, graphVars, scanVars
<1>4. CacheIsHonest'
  BY AnalyzeAssumption
  DEF AnalyzeInv, TypeOK, Tree, CacheIsHonest, CommitEdits, Clean, runVars,
      snapVars, builtVars, diskVars, graphVars, scanVars
<1>5. RegistryInv'
  BY AnalyzeAssumption, NoneIsNoTree
  DEF AnalyzeInv, TypeOK, Tree, HandInv, GraphInv, Afterwards, RegistryInv,
      CommitEdits, Clean, runVars, snapVars, builtVars, diskVars, graphVars,
      scanVars
<1>6. FindingsInv'
  BY AnalyzeAssumption
  DEF AnalyzeInv, TypeOK, Tree, HandInv, GraphInv, Afterwards, FindingsInv,
      FindingsOfIndex, Reported, CommitEdits, Clean, runVars, snapVars,
      builtVars, diskVars, graphVars, scanVars
<1> QED  BY <1>1, <1>2, <1>3, <1>4, <1>5, <1>6 DEF AnalyzeInv

(* A checkout. *)
LEMMA CheckoutStep ==
    ASSUME AnalyzeInv, NEW c \in Commit, Checkout(c)
    PROVE  AnalyzeInv'
<1>1. TypeOK'
  BY AnalyzeAssumption
  DEF AnalyzeInv, TypeOK, Step, Checkout, Clean, runVars, snapVars, builtVars,
      diskVars, graphVars, scanVars
<1>2. HandInv'
  BY AnalyzeAssumption
  DEF AnalyzeInv, TypeOK, Tree, HandInv, Reported, Checkout, Clean, runVars,
      snapVars, builtVars, diskVars, graphVars, scanVars
<1>3. GraphInv'
  BY AnalyzeAssumption
  DEF AnalyzeInv, TypeOK, Tree, HandInv, GraphInv, BuiltInv, Afterwards,
      GraphMatchesState, ForceRepairs, Reported, Checkout, Clean, runVars,
      snapVars, builtVars, diskVars, graphVars, scanVars
<1>4. CacheIsHonest'
  BY AnalyzeAssumption
  DEF AnalyzeInv, TypeOK, Tree, CacheIsHonest, Checkout, Clean, runVars,
      snapVars, builtVars, diskVars, graphVars, scanVars
<1>5. RegistryInv'
  BY AnalyzeAssumption
  DEF AnalyzeInv, TypeOK, Tree, HandInv, GraphInv, Afterwards, RegistryInv,
      Checkout, Clean, runVars, snapVars, builtVars, diskVars, graphVars,
      scanVars
<1>6. FindingsInv'
  BY AnalyzeAssumption
  DEF AnalyzeInv, TypeOK, Tree, HandInv, GraphInv, Afterwards, FindingsInv,
      FindingsOfIndex, Reported, Checkout, Clean, runVars, snapVars,
      builtVars, diskVars, graphVars, scanVars
<1> QED  BY <1>1, <1>2, <1>3, <1>4, <1>5, <1>6 DEF AnalyzeInv

(* codehub scan. *)
LEMMA StandaloneScanStep ==
    ASSUME AnalyzeInv, StandaloneScan
    PROVE  AnalyzeInv'
<1>1. TypeOK'
  BY AnalyzeAssumption
  DEF AnalyzeInv, TypeOK, Step, StandaloneScan, gitVars, graphVars, runVars,
      snapVars, builtVars
<1>2. HandInv'
  BY AnalyzeAssumption
  DEF AnalyzeInv, TypeOK, Tree, HandInv, Reported, StandaloneScan, gitVars,
      graphVars, runVars, snapVars, builtVars
<1>3. GraphInv'
  BY AnalyzeAssumption
  DEF AnalyzeInv, TypeOK, Tree, HandInv, GraphInv, BuiltInv, Afterwards,
      GraphMatchesState, ForceRepairs, Reported, StandaloneScan, gitVars,
      graphVars, runVars, snapVars, builtVars
<1>4. CacheIsHonest'
  BY AnalyzeAssumption
  DEF AnalyzeInv, TypeOK, Tree, CacheIsHonest, StandaloneScan, gitVars,
      graphVars, runVars, snapVars, builtVars
<1>5. RegistryInv'
  BY AnalyzeAssumption
  DEF AnalyzeInv, TypeOK, Tree, HandInv, GraphInv, Afterwards, RegistryInv,
      StandaloneScan, gitVars, graphVars, runVars, snapVars, builtVars
<1>6. FindingsInv'
  BY AnalyzeAssumption
  DEF AnalyzeInv, TypeOK, Tree, HandInv, GraphInv, Afterwards, FindingsInv,
      FindingsOfIndex, Reported, StandaloneScan, gitVars, graphVars, runVars,
      snapVars, builtVars
<1> QED  BY <1>1, <1>2, <1>3, <1>4, <1>5, <1>6 DEF AnalyzeInv

(* The start of a run and its fast path. *)
LEMMA StartStep ==
    ASSUME AnalyzeInv, NEW f \in BOOLEAN, Start(f)
    PROVE  AnalyzeInv'
<1>1. TypeOK'
  <2>1. /\ pc' \in Step /\ force' \in BOOLEAN /\ misread' \in BOOLEAN
        /\ answer' \in {"none", "upToDate", "indexed", "unscanned"}
    BY DEF AnalyzeInv, TypeOK, Step, Start
  <2>2. /\ tree' = tree /\ head' = head /\ commits' = commits /\ cache' = cache
        /\ defs' = defs /\ links' = links /\ scanState' = scanState
        /\ registry' = registry /\ findings' = findings /\ sarif' = sarif
        /\ fingerprint' = fingerprint /\ snap' = snap /\ snapHead' = snapHead
        /\ newDefs' = newDefs /\ newLinks' = newLinks /\ harm' = harm
    BY DEF Start, gitVars, diskVars, graphVars, scanVars, snapVars, builtVars
  <2> QED  BY <2>1, <2>2 DEF AnalyzeInv, TypeOK
<1>2. HandInv'
  BY AnalyzeAssumption
  DEF AnalyzeInv, TypeOK, Tree, HandInv, Reported, Start, FastPath, Clean,
      gitVars, snapVars, builtVars, diskVars, graphVars, scanVars
<1>3. GraphInv'
  BY AnalyzeAssumption
  DEF AnalyzeInv, TypeOK, Tree, HandInv, GraphInv, BuiltInv, Afterwards,
      GraphMatchesState, ForceRepairs, Reported, Start, FastPath, Clean,
      gitVars, snapVars, builtVars, diskVars, graphVars, scanVars
<1>4. CacheIsHonest'
  BY AnalyzeAssumption
  DEF AnalyzeInv, TypeOK, Tree, CacheIsHonest, Start, FastPath, Clean,
      gitVars, snapVars, builtVars, diskVars, graphVars, scanVars
<1>5. RegistryInv'
  BY AnalyzeAssumption
  DEF AnalyzeInv, TypeOK, Tree, HandInv, GraphInv, Afterwards, RegistryInv,
      Start, FastPath, Clean, gitVars, snapVars, builtVars, diskVars,
      graphVars, scanVars
<1>6. FindingsInv'
  BY AnalyzeAssumption
  DEF AnalyzeInv, TypeOK, Tree, HandInv, GraphInv, Afterwards, FindingsInv,
      FindingsOfIndex, Reported, Start, FastPath, Clean, gitVars, snapVars,
      builtVars, diskVars, graphVars, scanVars
<1> QED  BY <1>1, <1>2, <1>3, <1>4, <1>5, <1>6 DEF AnalyzeInv

(* The scan phase hashes the files. *)
LEMMA WalkFilesStep ==
    ASSUME AnalyzeInv, WalkFiles
    PROVE  AnalyzeInv'
<1>1. TypeOK'
  BY AnalyzeAssumption
  DEF AnalyzeInv, TypeOK, Step, WalkFiles, gitVars, builtVars, diskVars,
      graphVars, scanVars
<1>2. HandInv'
  BY AnalyzeAssumption
  DEF AnalyzeInv, TypeOK, Tree, HandInv, Reported, WalkFiles, gitVars,
      builtVars, diskVars, graphVars, scanVars
<1>3. GraphInv'
  BY AnalyzeAssumption
  DEF AnalyzeInv, TypeOK, Tree, HandInv, GraphInv, BuiltInv, Afterwards,
      GraphMatchesState, ForceRepairs, Reported, WalkFiles, gitVars,
      builtVars, diskVars, graphVars, scanVars
<1>4. CacheIsHonest'
  BY AnalyzeAssumption
  DEF AnalyzeInv, TypeOK, Tree, CacheIsHonest, WalkFiles, gitVars, builtVars,
      diskVars, graphVars, scanVars
<1>5. RegistryInv'
  BY AnalyzeAssumption
  DEF AnalyzeInv, TypeOK, Tree, HandInv, GraphInv, Afterwards, RegistryInv,
      WalkFiles, gitVars, builtVars, diskVars, graphVars, scanVars
<1>6. FindingsInv'
  BY AnalyzeAssumption
  DEF AnalyzeInv, TypeOK, Tree, HandInv, GraphInv, Afterwards, FindingsInv,
      FindingsOfIndex, Reported, WalkFiles, gitVars, builtVars, diskVars,
      graphVars, scanVars
<1> QED  BY <1>1, <1>2, <1>3, <1>4, <1>5, <1>6 DEF AnalyzeInv

(* The scan phase reads HEAD. *)
LEMMA ReadHeadStep ==
    ASSUME AnalyzeInv, ReadHead
    PROVE  AnalyzeInv'
<1>1. TypeOK'
  BY AnalyzeAssumption
  DEF AnalyzeInv, TypeOK, Step, ReadHead, gitVars, builtVars, diskVars,
      graphVars, scanVars
<1>2. HandInv'
  BY AnalyzeAssumption
  DEF AnalyzeInv, TypeOK, Tree, HandInv, Reported, ReadHead, gitVars,
      builtVars, diskVars, graphVars, scanVars
<1>3. GraphInv'
  BY AnalyzeAssumption
  DEF AnalyzeInv, TypeOK, Tree, HandInv, GraphInv, BuiltInv, Afterwards,
      GraphMatchesState, ForceRepairs, Reported, ReadHead, gitVars, builtVars,
      diskVars, graphVars, scanVars
<1>4. CacheIsHonest'
  BY AnalyzeAssumption
  DEF AnalyzeInv, TypeOK, Tree, CacheIsHonest, ReadHead, gitVars, builtVars,
      diskVars, graphVars, scanVars
<1>5. RegistryInv'
  BY AnalyzeAssumption
  DEF AnalyzeInv, TypeOK, Tree, HandInv, GraphInv, Afterwards, RegistryInv,
      ReadHead, gitVars, builtVars, diskVars, graphVars, scanVars
<1>6. FindingsInv'
  BY AnalyzeAssumption
  DEF AnalyzeInv, TypeOK, Tree, HandInv, GraphInv, Afterwards, FindingsInv,
      FindingsOfIndex, Reported, ReadHead, gitVars, builtVars, diskVars,
      graphVars, scanVars
<1> QED  BY <1>1, <1>2, <1>3, <1>4, <1>5, <1>6 DEF AnalyzeInv

(* The graph is replaced. *)
LEMMA BulkLoadStep ==
    ASSUME AnalyzeInv, BulkLoad
    PROVE  AnalyzeInv'
<1>1. TypeOK'
  BY AnalyzeAssumption DEF AnalyzeInv, TypeOK, Step, BulkLoad, gitVars, snapVars
<1>2. HandInv'
  BY AnalyzeAssumption
  DEF AnalyzeInv, TypeOK, Tree, HandInv, Reported, BulkLoad, gitVars, snapVars
<1>3. GraphInv'
  BY AnalyzeAssumption
  DEF AnalyzeInv, TypeOK, Tree, HandInv, GraphInv, BuiltInv, Afterwards,
      GraphMatchesState, ForceRepairs, Reported, BulkLoad, gitVars, snapVars
<1>4. CacheIsHonest'
  BY AnalyzeAssumption
  DEF AnalyzeInv, TypeOK, Tree, CacheIsHonest, BulkLoad, gitVars, snapVars
<1>5. RegistryInv'
  BY AnalyzeAssumption
  DEF AnalyzeInv, TypeOK, Tree, HandInv, GraphInv, Afterwards, RegistryInv,
      BulkLoad, gitVars, snapVars
<1>6. FindingsInv'
  BY AnalyzeAssumption
  DEF AnalyzeInv, TypeOK, Tree, HandInv, GraphInv, Afterwards, FindingsInv,
      FindingsOfIndex, Reported, BulkLoad, gitVars, snapVars
<1> QED  BY <1>1, <1>2, <1>3, <1>4, <1>5, <1>6 DEF AnalyzeInv

(* scan-state.json is replaced. *)
LEMMA WriteScanStateStep ==
    ASSUME AnalyzeInv, WriteScanState
    PROVE  AnalyzeInv'
<1>1. TypeOK'
  BY AnalyzeAssumption
  DEF AnalyzeInv, TypeOK, Step, WriteScanState, gitVars, graphVars, scanVars,
      runVars, snapVars, builtVars
<1>2. HandInv'
  BY AnalyzeAssumption
  DEF AnalyzeInv, TypeOK, Tree, HandInv, Reported, WriteScanState, gitVars,
      graphVars, scanVars, runVars, snapVars, builtVars
<1>3. GraphInv'
  BY AnalyzeAssumption
  DEF AnalyzeInv, TypeOK, Tree, HandInv, GraphInv, BuiltInv, Afterwards,
      GraphMatchesState, ForceRepairs, Reported, WriteScanState, gitVars,
      graphVars, scanVars, runVars, snapVars, builtVars
<1>4. CacheIsHonest'
  BY AnalyzeAssumption
  DEF AnalyzeInv, TypeOK, Tree, CacheIsHonest, WriteScanState, gitVars,
      graphVars, scanVars, runVars, snapVars, builtVars
<1>5. RegistryInv'
  BY AnalyzeAssumption
  DEF AnalyzeInv, TypeOK, Tree, HandInv, GraphInv, Afterwards, RegistryInv,
      WriteScanState, gitVars, graphVars, scanVars, runVars, snapVars,
      builtVars
<1>6. FindingsInv'
  BY AnalyzeAssumption
  DEF AnalyzeInv, TypeOK, Tree, HandInv, GraphInv, Afterwards, FindingsInv,
      FindingsOfIndex, Reported, WriteScanState, gitVars, graphVars, scanVars,
      runVars, snapVars, builtVars
<1> QED  BY <1>1, <1>2, <1>3, <1>4, <1>5, <1>6 DEF AnalyzeInv

(* The registry records the run. *)
LEMMA UpsertRegistryStep ==
    ASSUME AnalyzeInv, UpsertRegistry
    PROVE  AnalyzeInv'
<1>1. TypeOK'
  BY AnalyzeAssumption
  DEF AnalyzeInv, TypeOK, Step, UpsertRegistry, RunEnds, gitVars, graphVars,
      scanVars, builtVars
<1>2. HandInv'
  BY AnalyzeAssumption, NoneIsNoTree
  DEF AnalyzeInv, TypeOK, Tree, HandInv, Reported, UpsertRegistry, RunEnds,
      gitVars, graphVars, scanVars, builtVars
<1>3. GraphInv'
  BY AnalyzeAssumption
  DEF AnalyzeInv, TypeOK, Tree, HandInv, GraphInv, BuiltInv, Afterwards,
      GraphMatchesState, ForceRepairs, Reported, UpsertRegistry, RunEnds,
      gitVars, graphVars, scanVars, builtVars
<1>4. CacheIsHonest'
  BY AnalyzeAssumption
  DEF AnalyzeInv, TypeOK, Tree, CacheIsHonest, UpsertRegistry, RunEnds,
      gitVars, graphVars, scanVars, builtVars
<1>5. RegistryInv'
  BY AnalyzeAssumption
  DEF AnalyzeInv, TypeOK, Tree, HandInv, GraphInv, Afterwards, RegistryInv,
      UpsertRegistry, RunEnds, gitVars, graphVars, scanVars, builtVars
<1>6. FindingsInv'
  BY AnalyzeAssumption
  DEF AnalyzeInv, TypeOK, Tree, HandInv, GraphInv, Afterwards, FindingsInv,
      FindingsOfIndex, Reported, UpsertRegistry, RunEnds, gitVars, graphVars,
      scanVars, builtVars
<1> QED  BY <1>1, <1>2, <1>3, <1>4, <1>5, <1>6 DEF AnalyzeInv

(* The findings are put back from scan.sarif. *)
LEMMA ReuseSarifStep ==
    ASSUME AnalyzeInv, ReuseSarif
    PROVE  AnalyzeInv'
<1>1. TypeOK'
  BY AnalyzeAssumption
  DEF AnalyzeInv, TypeOK, Step, ReuseSarif, RunEnds, SkipScan, Reingested,
      gitVars, graphVars, builtVars
<1>2. HandInv'
  BY AnalyzeAssumption, NoneIsNoTree
  DEF AnalyzeInv, TypeOK, Tree, HandInv, Reported, ReuseSarif, RunEnds,
      SkipScan, Reingested, gitVars, graphVars, builtVars
<1>3. GraphInv'
  BY AnalyzeAssumption
  DEF AnalyzeInv, TypeOK, Tree, HandInv, GraphInv, BuiltInv, Afterwards,
      GraphMatchesState, ForceRepairs, Reported, ReuseSarif, RunEnds,
      SkipScan, Reingested, gitVars, graphVars, builtVars
<1>4. CacheIsHonest'
  BY AnalyzeAssumption
  DEF AnalyzeInv, TypeOK, Tree, CacheIsHonest, ReuseSarif, RunEnds, SkipScan,
      Reingested, gitVars, graphVars, builtVars
<1>5. RegistryInv'
  BY AnalyzeAssumption
  DEF AnalyzeInv, TypeOK, Tree, HandInv, GraphInv, Afterwards, RegistryInv,
      ReuseSarif, RunEnds, SkipScan, Reingested, gitVars, graphVars, builtVars
<1>6. FindingsInv'
  BY AnalyzeAssumption, NoneIsNoTree
  DEF AnalyzeInv, TypeOK, Tree, HandInv, GraphInv, Afterwards, FindingsInv,
      FindingsOfIndex, Reported, ReuseSarif, RunEnds, SkipScan, Reingested,
      gitVars, graphVars, builtVars
<1> QED  BY <1>1, <1>2, <1>3, <1>4, <1>5, <1>6 DEF AnalyzeInv

(* The scanners run and scan.sarif is written. *)
LEMMA RunScannersStep ==
    ASSUME AnalyzeInv, RunScanners
    PROVE  AnalyzeInv'
<1>1. TypeOK'
  BY AnalyzeAssumption
  DEF AnalyzeInv, TypeOK, Step, RunScanners, RunEnds, SkipScan, gitVars,
      graphVars, builtVars
<1>2. HandInv'
  BY AnalyzeAssumption, NoneIsNoTree
  DEF AnalyzeInv, TypeOK, Tree, HandInv, Reported, RunScanners, RunEnds,
      SkipScan, gitVars, graphVars, builtVars
<1>3. GraphInv'
  BY AnalyzeAssumption
  DEF AnalyzeInv, TypeOK, Tree, HandInv, GraphInv, BuiltInv, Afterwards,
      GraphMatchesState, ForceRepairs, Reported, RunScanners, RunEnds,
      SkipScan, gitVars, graphVars, builtVars
<1>4. CacheIsHonest'
  BY AnalyzeAssumption
  DEF AnalyzeInv, TypeOK, Tree, CacheIsHonest, RunScanners, RunEnds, SkipScan,
      gitVars, graphVars, builtVars
<1>5. RegistryInv'
  BY AnalyzeAssumption
  DEF AnalyzeInv, TypeOK, Tree, HandInv, GraphInv, Afterwards, RegistryInv,
      RunScanners, RunEnds, SkipScan, gitVars, graphVars, builtVars
<1>6. FindingsInv'
  BY AnalyzeAssumption
  DEF AnalyzeInv, TypeOK, Tree, HandInv, GraphInv, Afterwards, FindingsInv,
      FindingsOfIndex, Reported, RunScanners, RunEnds, SkipScan, gitVars,
      graphVars, builtVars
<1> QED  BY <1>1, <1>2, <1>3, <1>4, <1>5, <1>6 DEF AnalyzeInv

(* scan.sarif is ingested. *)
LEMMA IngestSarifStep ==
    ASSUME AnalyzeInv, IngestSarif
    PROVE  AnalyzeInv'
<1>1. TypeOK'
  BY AnalyzeAssumption
  DEF AnalyzeInv, TypeOK, FindingsInv, Step, IngestSarif, gitVars, graphVars,
      runVars, snapVars, builtVars
<1>2. HandInv'
  BY AnalyzeAssumption
  DEF AnalyzeInv, TypeOK, Tree, HandInv, Reported, IngestSarif, gitVars,
      graphVars, runVars, snapVars, builtVars
<1>3. GraphInv'
  BY AnalyzeAssumption
  DEF AnalyzeInv, TypeOK, Tree, HandInv, GraphInv, BuiltInv, Afterwards,
      GraphMatchesState, ForceRepairs, Reported, IngestSarif, gitVars,
      graphVars, runVars, snapVars, builtVars
<1>4. CacheIsHonest'
  BY AnalyzeAssumption
  DEF AnalyzeInv, TypeOK, Tree, CacheIsHonest, IngestSarif, gitVars,
      graphVars, runVars, snapVars, builtVars
<1>5. RegistryInv'
  BY AnalyzeAssumption
  DEF AnalyzeInv, TypeOK, Tree, HandInv, GraphInv, Afterwards, RegistryInv,
      IngestSarif, gitVars, graphVars, runVars, snapVars, builtVars
<1>6. FindingsInv'
  BY AnalyzeAssumption
  DEF AnalyzeInv, TypeOK, Tree, HandInv, GraphInv, Afterwards, FindingsInv,
      FindingsOfIndex, Reported, IngestSarif, gitVars, graphVars, runVars,
      snapVars, builtVars
<1> QED  BY <1>1, <1>2, <1>3, <1>4, <1>5, <1>6 DEF AnalyzeInv

(* scan-fingerprint.json is written. *)
LEMMA WriteFingerprintStep ==
    ASSUME AnalyzeInv, WriteFingerprint
    PROVE  AnalyzeInv'
<1>1. TypeOK'
  BY AnalyzeAssumption
  DEF AnalyzeInv, TypeOK, Step, WriteFingerprint, RunEnds, gitVars, graphVars,
      builtVars
<1>2. HandInv'
  BY AnalyzeAssumption, NoneIsNoTree
  DEF AnalyzeInv, TypeOK, Tree, HandInv, Reported, WriteFingerprint, RunEnds,
      gitVars, graphVars, builtVars
<1>3. GraphInv'
  BY AnalyzeAssumption
  DEF AnalyzeInv, TypeOK, Tree, HandInv, GraphInv, BuiltInv, Afterwards,
      GraphMatchesState, ForceRepairs, Reported, WriteFingerprint, RunEnds,
      gitVars, graphVars, builtVars
<1>4. CacheIsHonest'
  BY AnalyzeAssumption
  DEF AnalyzeInv, TypeOK, Tree, CacheIsHonest, WriteFingerprint, RunEnds,
      gitVars, graphVars, builtVars
<1>5. RegistryInv'
  BY AnalyzeAssumption
  DEF AnalyzeInv, TypeOK, Tree, HandInv, GraphInv, Afterwards, RegistryInv,
      WriteFingerprint, RunEnds, gitVars, graphVars, builtVars
<1>6. FindingsInv'
  BY AnalyzeAssumption
  DEF AnalyzeInv, TypeOK, Tree, HandInv, GraphInv, Afterwards, FindingsInv,
      FindingsOfIndex, Reported, WriteFingerprint, RunEnds, gitVars,
      graphVars, builtVars
<1> QED  BY <1>1, <1>2, <1>3, <1>4, <1>5, <1>6 DEF AnalyzeInv

(* The process ends at any step. *)
LEMMA CrashStep ==
    ASSUME AnalyzeInv, Crash
    PROVE  AnalyzeInv'
<1>1. TypeOK'
  BY AnalyzeAssumption
  DEF AnalyzeInv, TypeOK, Step, Crash, RunEnds, Mishap, gitVars, diskVars,
      graphVars, scanVars
<1>2. HandInv'
  BY AnalyzeAssumption, NoneIsNoTree
  DEF AnalyzeInv, TypeOK, Tree, HandInv, Reported, Crash, RunEnds, Mishap,
      gitVars, diskVars, graphVars, scanVars
<1>3. GraphInv'
  BY AnalyzeAssumption
  DEF AnalyzeInv, TypeOK, Tree, HandInv, GraphInv, BuiltInv, Afterwards,
      GraphMatchesState, ForceRepairs, Reported, Crash, RunEnds, Mishap,
      gitVars, diskVars, graphVars, scanVars
<1>4. CacheIsHonest'
  BY AnalyzeAssumption
  DEF AnalyzeInv, TypeOK, Tree, CacheIsHonest, Crash, RunEnds, Mishap,
      gitVars, diskVars, graphVars, scanVars
<1>5. RegistryInv'
  BY AnalyzeAssumption
  DEF AnalyzeInv, TypeOK, Tree, HandInv, GraphInv, Afterwards, RegistryInv,
      Crash, RunEnds, Mishap, gitVars, diskVars, graphVars, scanVars
<1>6. FindingsInv'
  BY AnalyzeAssumption
  DEF AnalyzeInv, TypeOK, Tree, HandInv, GraphInv, Afterwards, FindingsInv,
      FindingsOfIndex, Reported, Crash, RunEnds, Mishap, gitVars, diskVars,
      graphVars, scanVars
<1> QED  BY <1>1, <1>2, <1>3, <1>4, <1>5, <1>6 DEF AnalyzeInv
(* What the parse phase extracts, and when it is what was hashed. *)
LEMMA ExtractedEffect ==
    ASSUME AnalyzeInv, pc = "parse", NEW failed \in SUBSET Misses
    PROVE  /\ Extracted(failed) \in Graph
           /\ MisreadBy(failed) \cap {"race", "unparsed"} = {} =>
                 \A f \in Misses : Extracted(failed)[f] = snap[f]
           /\ MisreadBy(failed) = {} /\ harm \cap {"race", "unparsed"} = {} =>
                 Extracted(failed) = snap
           /\ MisreadBy(failed) = {} /\ force => Extracted(failed) = snap
<1>1. /\ snap \in Tree /\ tree \in Tree
      /\ cache \in [Content -> Entry \cup {None}]
  BY DEF AnalyzeInv, TypeOK, HandInv
<1>2. /\ MisreadBy(failed) \cap {"race", "unparsed"} = {} => failed = {} /\ ~Raced(failed)
      /\ MisreadBy(failed) = {} => ~Moved
  BY DEF MisreadBy
<1>3. ASSUME NEW f \in File
      PROVE  /\ Extracted(failed)[f] \in Extraction
             /\ MisreadBy(failed) \cap {"race", "unparsed"} = {} /\ f \in Misses =>
                   Extracted(failed)[f] = snap[f]
             /\ MisreadBy(failed) = {} /\ harm \cap {"race", "unparsed"} = {} =>
                   Extracted(failed)[f] = snap[f]
             /\ MisreadBy(failed) = {} /\ force => Extracted(failed)[f] = snap[f]
  <2>1. snap[f] \in Content /\ tree[f] \in Content
    BY <1>1 DEF Tree
  <2>2. Extracted(failed)[f] = IF Hit(f) THEN Replayed(f)
                               ELSE IF f \in failed THEN Nothing ELSE tree[f]
    BY DEF Extracted
  <2>3. Hit(f) => cache[snap[f]] \in Entry /\ Replayed(f) \in Extraction /\ ~force
    BY <1>1, <2>1 DEF Hit, Entry, Replayed, Extraction
  <2>4. MisreadBy(failed) \cap {"race", "unparsed"} = {} /\ ~Hit(f) =>
           f \notin failed /\ tree[f] = snap[f]
    BY <1>2 DEF Raced, Misses
  <2>5. MisreadBy(failed) = {} /\ harm \cap {"race", "unparsed"} = {} /\ Hit(f) =>
           Replayed(f) = snap[f]
    BY <1>2, <2>1 DEF AnalyzeInv, CacheIsHonest, Hit, Moved, Replayed
  <2>6. f \in Misses => ~Hit(f)
    BY DEF Misses
  <2> QED  BY <2>1, <2>2, <2>3, <2>4, <2>5, <2>6 DEF Extraction
<1>4. Extracted(failed) \in Graph
  BY <1>3 DEF Graph, Extracted
<1> QED  BY <1>1, <1>3, <1>4 DEF Tree, Graph, Misses

(* Carrying links over is sound when the graph matches scan-state.json: a    *)
(* file outside the closure has not changed since.                           *)
LEMMA LinksEffect ==
    ASSUME AnalyzeInv, pc = "parse", scanState # None, NEW C \in Closures,
           NEW failed \in SUBSET Misses
    PROVE  /\ LinksOf(C, failed) \in Graph
           /\ MisreadBy(failed) = {} /\ harm \cap {"race", "unparsed", "moved", "torn"} = {} =>
                 LinksOf(C, failed) = snap
           /\ MisreadBy(failed) = {} /\ force => LinksOf(C, failed) = snap
<1>1. snap \in Tree /\ links \in Graph /\ Extracted(failed) \in Graph
  BY ExtractedEffect DEF AnalyzeInv, TypeOK, HandInv, GraphInv
<1>2. ASSUME NEW f \in File, f \notin C
      PROVE  scanState[f] = snap[f]
  BY <1>2 DEF Closures, Changed
<1>3. LinksOf(C, failed) \in Graph
  BY <1>1 DEF LinksOf, Graph
<1>4. ASSUME MisreadBy(failed) = {}, harm \cap {"race", "unparsed", "moved", "torn"} = {}
      PROVE  LinksOf(C, failed) = snap
  <2>1. links = scanState
    BY <1>4 DEF AnalyzeInv, GraphInv, GraphMatchesState
  <2>2. Extracted(failed) = snap
    BY <1>4, ExtractedEffect
  <2>3. ASSUME NEW f \in File
        PROVE  LinksOf(C, failed)[f] = snap[f]
    BY <2>1, <2>2, <1>2 DEF LinksOf
  <2> QED  BY <1>1, <1>3, <2>3 DEF Tree, Graph
<1>5. ASSUME MisreadBy(failed) = {}, force
      PROVE  LinksOf(C, failed) = snap
  BY <1>5, ExtractedEffect DEF LinksOf, Incremental
<1> QED  BY <1>3, <1>4, <1>5

(* The pipeline from the parse phase on. *)
LEMMA BuildGraphStep ==
    ASSUME AnalyzeInv, BuildGraph
    PROVE  AnalyzeInv'
<1>1. PICK failed \in SUBSET Misses :
         /\ newDefs' = Extracted(failed)
         /\ IF scanState = None
            THEN newLinks' = Extracted(failed)
            ELSE \E C \in Closures : newLinks' = LinksOf(C, failed)
         /\ cache' \in CacheAfter(failed)
         /\ misread' = (MisreadBy(failed) # {})
         /\ harm' = harm \cup MisreadBy(failed)
  BY DEF BuildGraph
<1>2. pc = "parse" /\ pc' = "load"
  BY DEF BuildGraph
<1>3. /\ newLinks' \in Graph
      /\ MisreadBy(failed) = {} /\ harm \cap {"race", "unparsed", "moved", "torn"} = {} =>
            newLinks' = snap
      /\ MisreadBy(failed) = {} /\ force => newLinks' = snap
  <2>1. CASE scanState = None
    BY <2>1, <1>1, <1>2, ExtractedEffect
  <2>2. CASE scanState # None
    BY <2>2, <1>1, <1>2, LinksEffect
  <2> QED  BY <2>1, <2>2
<1>4. /\ cache' \in [Content -> Entry \cup {None}]
      /\ \A v \in Content :
            cache'[v] \in {cache[v], None} \cup
                          {EntryOf(failed, f) : f \in {g \in Misses : snap[g] = v}}
  <2>1. \A f \in Misses : EntryOf(failed, f) \in Entry
    BY <1>2, ExtractedEffect DEF EntryOf, Entry, Misses, Graph
  <2>2. \A v \in Content : cache[v] \in Entry \cup {None}
    BY DEF AnalyzeInv, TypeOK
  <2> QED  BY <1>1, <2>1, <2>2 DEF CacheAfter
<1>5. MisreadBy(failed) \subseteq {"race", "unparsed", "moved"}
  BY DEF MisreadBy
<1>6. TypeOK'
  <2>1. /\ newDefs' \in Graph \cup {None}
        /\ newLinks' \in Graph \cup {None}
        /\ cache' \in [Content -> Entry \cup {None}]
    BY <1>1, <1>2, <1>3, <1>4, ExtractedEffect
  <2>2. pc' \in Step /\ misread' \in BOOLEAN
    BY <1>1, <1>2 DEF Step
  <2>3. harm' \subseteq {"race", "unparsed", "moved", "torn", "unregistered", "dirty", "scan"}
    BY <1>1, <1>5 DEF AnalyzeInv, TypeOK
  <2>4. /\ tree' = tree /\ head' = head /\ commits' = commits
        /\ defs' = defs /\ links' = links /\ scanState' = scanState
        /\ registry' = registry /\ findings' = findings /\ sarif' = sarif
        /\ fingerprint' = fingerprint /\ force' = force
        /\ snap' = snap /\ snapHead' = snapHead /\ answer' = answer
    BY DEF BuildGraph, gitVars, graphVars, scanVars, snapVars
  <2> QED  BY <2>1, <2>2, <2>3, <2>4 DEF AnalyzeInv, TypeOK
<1>7. HandInv'
  BY <1>1, <1>2, <1>3, ExtractedEffect
  DEF AnalyzeInv, HandInv, Reported, BuildGraph, snapVars
<1>8. GraphInv'
  <2>1. BuiltInv(newDefs, newLinks)'
    BY <1>1, <1>2, <1>3, <1>5, ExtractedEffect DEF BuiltInv, BuildGraph, snapVars
  <2> QED
    BY <1>1, <1>2, <2>1
    DEF AnalyzeInv, HandInv, GraphInv, GraphMatchesState, ForceRepairs, Afterwards,
        Reported, BuildGraph, graphVars, snapVars
<1>9. CacheIsHonest'
  <2> SUFFICES ASSUME (harm \cap {"race", "unparsed"} = {})', NEW v \in Content
               PROVE  cache'[v] = None \/ cache'[v].what = v
    BY DEF CacheIsHonest
  <2>1. /\ MisreadBy(failed) \cap {"race", "unparsed"} = {}
        /\ harm \cap {"race", "unparsed"} = {}
    BY <1>1
  <2>2. cache[v] = None \/ cache[v].what = v
    BY <2>1 DEF AnalyzeInv, CacheIsHonest
  <2>3. ASSUME NEW g \in Misses, snap[g] = v
        PROVE  EntryOf(failed, g).what = v
    BY <2>1, <2>3, <1>2, ExtractedEffect DEF EntryOf
  <2> QED  BY <1>4, <2>2, <2>3
<1>10. RegistryInv'
  BY <1>1, <1>2 DEF AnalyzeInv, RegistryInv, BuildGraph, gitVars, snapVars
<1>11. FindingsInv'
  BY <1>1, <1>2, <1>5 DEF AnalyzeInv, FindingsInv, FindingsOfIndex, BuildGraph, scanVars
<1> QED  BY <1>6, <1>7, <1>8, <1>9, <1>10, <1>11 DEF AnalyzeInv

(* The repository starts in the invariant. *)
LEMMA InitAnalyzeInv == Init => AnalyzeInv
<1> SUFFICES ASSUME Init PROVE AnalyzeInv
  OBVIOUS
<1>1. TypeOK
  BY AnalyzeAssumption DEF Init, TypeOK, Step
<1>2. HandInv /\ GraphInv /\ CacheIsHonest
  BY AnalyzeAssumption, NoneIsNoTree
  DEF Init, HandInv, Reported, GraphInv, Afterwards, GraphMatchesState, ForceRepairs,
      CacheIsHonest
<1>3. RegistryInv /\ FindingsInv
  BY AnalyzeAssumption, NoneIsNoTree DEF Init, RegistryInv, FindingsInv, FindingsOfIndex
<1> QED  BY <1>1, <1>2, <1>3 DEF AnalyzeInv

(* Every step keeps the invariant. *)
LEMMA NextAnalyzeInv == AnalyzeInv /\ [Next]_vars => AnalyzeInv'
<1> SUFFICES ASSUME AnalyzeInv, [Next]_vars PROVE AnalyzeInv'
  OBVIOUS
<1>1. CASE Next
  BY <1>1, EditStep, DiscardEditsStep, CommitEditsStep, CheckoutStep,
     StandaloneScanStep, StartStep, WalkFilesStep, ReadHeadStep, BuildGraphStep,
     BulkLoadStep, WriteScanStateStep, UpsertRegistryStep, ReuseSarifStep,
     RunScannersStep, IngestSarifStep, WriteFingerprintStep, CrashStep DEF Next
<1>2. CASE UNCHANGED vars
  <2>1. /\ UNCHANGED <<tree, head, commits, cache, defs, links, scanState, registry>>
        /\ UNCHANGED <<findings, sarif, fingerprint, pc, force, misread, snap, snapHead>>
        /\ UNCHANGED <<newDefs, newLinks, answer, harm>>
    BY <1>2 DEF vars, gitVars, graphVars, scanVars, runVars, snapVars, builtVars
  <2>2. (TypeOK /\ HandInv /\ GraphInv)'
    BY <2>1
    DEF AnalyzeInv, TypeOK, HandInv, Reported, GraphInv, BuiltInv, Afterwards,
        GraphMatchesState, ForceRepairs
  <2>3. (CacheIsHonest /\ RegistryInv /\ FindingsInv)'
    BY <2>1 DEF AnalyzeInv, CacheIsHonest, RegistryInv, FindingsInv, FindingsOfIndex
  <2> QED  BY <2>2, <2>3 DEF AnalyzeInv
<1> QED  BY <1>1, <1>2

(* AnalyzeInv is an invariant of the repository's files. *)
THEOREM AnalyzeInvariance == Spec => []AnalyzeInv
<1> QED  BY InitAnalyzeInv, NextAnalyzeInv, PTL DEF Spec

(* The files, the store and the process keep their types.                    *)
THEOREM AnalyzeTypeCorrect == Spec => []TypeOK
<1>1. AnalyzeInv => TypeOK
  BY DEF AnalyzeInv
<1> QED  BY <1>1, AnalyzeInvariance, PTL

(* Graph and scan-state.json agree unless a run died between writing them,   *)
(* raced with an edit, could not parse a file or replayed one under the path *)
(* of another.                                                               *)
THEOREM StateMatchesGraph == Spec => []GraphMatchesState
<1>1. AnalyzeInv => GraphMatchesState
  BY DEF AnalyzeInv, GraphInv
<1> QED  BY <1>1, AnalyzeInvariance, PTL

(* Without a race or a failed parse every parse-cache entry is filed under   *)
(* its own content.                                                          *)
THEOREM CacheKeysAreContents == Spec => []CacheIsHonest
<1>1. AnalyzeInv => CacheIsHonest
  BY DEF AnalyzeInv
<1> QED  BY <1>1, AnalyzeInvariance, PTL

(* The fast path's answer is right, the named mishaps aside.                 *)
THEOREM FastPathIsRight == Spec => []UpToDateIsHead
<1>1. AnalyzeInv => UpToDateIsHead
  <2> SUFFICES ASSUME AnalyzeInv, FastPath, pc \notin {"state", "register"},
                      harm \cap {"race", "unparsed", "moved", "torn", "unregistered", "dirty"} = {}
               PROVE  defs = tree /\ links = tree
    BY DEF UpToDateIsHead
  <2>1. commits[registry] = scanState /\ tree = commits[registry]
    BY DEF AnalyzeInv, RegistryInv, FastPath, Clean
  <2>2. defs = scanState /\ links = scanState
    BY DEF AnalyzeInv, GraphInv, GraphMatchesState
  <2> QED  BY <2>1, <2>2
<1> QED  BY <1>1, AnalyzeInvariance, PTL

(* --force repairs the graph after any history.                              *)
THEOREM ForceAlwaysRepairs == Spec => []ForceRepairs
<1>1. AnalyzeInv => ForceRepairs
  BY DEF AnalyzeInv, GraphInv
<1> QED  BY <1>1, AnalyzeInvariance, PTL

(* A finished scan stage leaves the findings of the indexed files.           *)
THEOREM FindingsFollowIndex == Spec => []FindingsOfIndex
<1>1. AnalyzeInv => FindingsOfIndex
  BY DEF AnalyzeInv, FindingsInv
<1> QED  BY <1>1, AnalyzeInvariance, PTL
=============================================================================
