------------------------ MODULE IncrementalGraphProofs ------------------------
(***************************************************************************)
(* For any files and contents: what full and incremental runs have in      *)
(* common.  EdgeInv is an inductive invariant of IncrementalGraph.         *)
(***************************************************************************)
EXTENDS IncrementalGraph, TLAPS

-----------------------------------------------------------------------------
(* Resolution.                                                             *)

(* A call of the parser, taken apart. *)
LEMMA CallParts ==
    ASSUME NEW d, NEW e
    PROVE  e \in ParsedCalls(d) <=>
             \E f \in Here(d) : \E c \in d[f].calls : \E g \in Tier(d, f, c[2]).files :
                e = [from |-> <<f, c[1]>>, to |-> <<g, c[2]>>,
                     confidence |-> Tier(d, f, c[2]).confidence]
  BY DEF ParsedCalls, CallsFrom

(* The confidences of the three tiers. *)
LEMMA TierConfidence ==
    ASSUME NEW d, NEW f, NEW n
    PROVE  Tier(d, f, n).confidence \in {50, 90, 95}
  BY DEF Tier

LEMMA ParsedConfidence ==
    ASSUME NEW d, NEW e \in ParsedCalls(d)
    PROVE  e.confidence \in {50, 90, 95}
  BY CallParts, TierConfidence

(* Of the edges with the same ends one that is as strong as any is kept.    *)
LEMMA StrongestKeeps ==
    ASSUME NEW S, \A e \in S : e.confidence \in Confidence, NEW e \in S
    PROVE  \E g \in Strongest(S) :
              g.from = e.from /\ g.to = e.to /\ g.confidence >= e.confidence
<1> DEFINE Rivals == {g \in S : g.from = e.from /\ g.to = e.to}
<1>1. e \in Rivals /\ \A g \in Rivals : g \in S /\ g.confidence \in {50, 90, 95, 100}
  BY DEF Confidence
<1>2. \E g \in Rivals : \A h \in Rivals : h.confidence <= g.confidence
  <2>1. CASE \E g \in Rivals : g.confidence = 100
    BY <1>1, <2>1
  <2>2. CASE (\E g \in Rivals : g.confidence = 95) /\ ~ \E g \in Rivals : g.confidence = 100
    BY <1>1, <2>2
  <2>3. CASE /\ \E g \in Rivals : g.confidence = 90
             /\ ~ \E g \in Rivals : g.confidence \in {95, 100}
    BY <1>1, <2>3
  <2>4. CASE \A g \in Rivals : g.confidence = 50
    BY <1>1, <2>4
  <2> QED  BY <1>1, <2>1, <2>2, <2>3, <2>4
<1>3. PICK g \in Rivals : \A h \in Rivals : h.confidence <= g.confidence
  BY <1>2
<1>4. g \in Strongest(S)
  BY <1>3 DEF Strongest
<1> QED  BY <1>1, <1>3, <1>4

-----------------------------------------------------------------------------
(* The closure.                                                            *)

(* What is in none of the closure's parts has not changed, and neither has a *)
(* file that it imports.                                                     *)
LEMMA OutsideClosure ==
    ASSUME Here(stored.of) = Here(disk), NEW f \in Here(disk), f \notin Closure
    PROVE  /\ stored.of[f] = disk[f]
           /\ \A g : <<f, g>> \in Imports(stored.of) => stored.of[g] = disk[g]
<1>1. f \notin Changed
  BY DEF Closure
<1>2. ASSUME NEW g, <<f, g>> \in Imports(stored.of)
      PROVE  g \in Here(disk) /\ g \notin Changed
  <2>1. g \in Here(disk)
    BY <1>2 DEF Imports
  <2>2. g \in Changed => f \in To(Changed, Imports(stored.of))
    BY <1>2 DEF To
  <2>3. f \notin To(Changed, Imports(stored.of))
    BY DEF Closure
  <2> QED  BY <2>1, <2>2, <2>3
<1> QED  BY <1>1, <1>2 DEF Changed

(* Outside of it a name is resolved as before, unless it is looked up         *)
(* globally.                                                                 *)
LEMMA SameTier ==
    ASSUME Here(stored.of) = Here(disk), NEW f \in Here(disk), f \notin Closure,
           NEW n, Tier(stored.of, f, n).confidence > 50
    PROVE  Tier(stored.of, f, n) = Tier(disk, f, n)
<1>1. stored.of[f] = disk[f]
  BY OutsideClosure
<1>2. Target(stored.of, f, n) = Target(disk, f, n)
  BY <1>1 DEF Target
<1>3. ASSUME n \in DOMAIN disk[f].imports, NEW g \in Target(disk, f, n)
      PROVE  stored.of[g] = disk[g]
  <2>1. g \in Here(stored.of)
    BY <1>2, <1>3 DEF Target, Lowest
  <2>2. <<f, g>> \in Imports(stored.of)
    BY <1>1, <1>2, <1>3, <2>1 DEF Imports
  <2> QED  BY <2>2, OutsideClosure
<1> DEFINE old == {g \in IF n \in DOMAIN stored.of[f].imports
                         THEN Target(stored.of, f, n) ELSE {} : n \in stored.of[g].defs}
           new == {g \in IF n \in DOMAIN disk[f].imports
                         THEN Target(disk, f, n) ELSE {} : n \in disk[g].defs}
<1>4. old = new
  BY <1>1, <1>2, <1>3
<1>5. /\ n \in stored.of[f].defs => Tier(stored.of, f, n) = [files |-> {f}, confidence |-> 95]
      /\ n \notin stored.of[f].defs /\ old # {} =>
           Tier(stored.of, f, n) = [files |-> old, confidence |-> 90]
      /\ n \notin stored.of[f].defs /\ old = {} => Tier(stored.of, f, n).confidence = 50
  BY DEF Tier
<1>6. /\ n \in disk[f].defs => Tier(disk, f, n) = [files |-> {f}, confidence |-> 95]
      /\ n \notin disk[f].defs /\ new # {} =>
           Tier(disk, f, n) = [files |-> new, confidence |-> 90]
  BY DEF Tier
<1> HIDE DEF old, new
<1> QED  BY <1>1, <1>4, <1>5, <1>6

(* A call that is carried over and was right is right, if files have only    *)
(* been edited.                                                              *)
LEMMA CarriedIsCurrent ==
    ASSUME ScopeInv, view.active, NEW g \in Carried(stored.calls), g.confidence > 50,
           Here(stored.of) = Here(disk), g \in ParsedCalls(stored.of)
    PROVE  g \in ParsedCalls(disk)
<1>1. PICK f \in Here(stored.of) : \E c \in stored.of[f].calls :
         \E h \in Tier(stored.of, f, c[2]).files :
            g = [from |-> <<f, c[1]>>, to |-> <<h, c[2]>>,
                 confidence |-> Tier(stored.of, f, c[2]).confidence]
  BY CallParts
<1>2. PICK c \in stored.of[f].calls : \E h \in Tier(stored.of, f, c[2]).files :
         g = [from |-> <<f, c[1]>>, to |-> <<h, c[2]>>,
              confidence |-> Tier(stored.of, f, c[2]).confidence]
  BY <1>1
<1>3. f \notin Closure
  BY <1>2 DEF Carried, ScopeInv
<1>4. stored.of[f] = disk[f]
  BY <1>3, OutsideClosure
<1>5. Tier(stored.of, f, c[2]) = Tier(disk, f, c[2])
  BY <1>2, <1>3, SameTier
<1> QED  BY <1>2, <1>4, <1>5, CallParts

LEMMA CarriedIsLeftover ==
    ASSUME ScopeInv, view.active, NEW g \in Carried(stored.calls), g.confidence > 50,
           g \notin ParsedCalls(disk)
    PROVE  Leftover(g)
  BY CarriedIsCurrent DEF Leftover
-----------------------------------------------------------------------------
(* The steps.                                                              *)

(* Between runs nothing is said of the files. *)
LEMMA EditStep ==
    ASSUME EdgeInv, NEW f \in Source, NEW c \in Versions[f], Edit(f, c)
    PROVE  EdgeInv'
  BY DEF EdgeInv, ScopeInv, BuiltInv, CallsInv, DeadInv, Edit, WholeTree

LEMMA ScopeStep ==
    ASSUME EdgeInv, NEW force \in BOOLEAN, Scope(force)
    PROVE  EdgeInv'
<1>1. ScopeInv'
  BY DEF EdgeInv, ScopeInv, Scope, WholeTree, Closure, Changed
<1> QED  BY <1>1 DEF EdgeInv, BuiltInv, CallsInv, DeadInv, Scope

(* What a phase of the run leaves alone. *)
LEMMA PhaseFrame ==
    ASSUME ScopeInv, UNCHANGED <<disk, stored, view>>, phaseAt # "none",
           phaseAt' \in {"crossFile", "mro", "dead-code", "scip-index", "store"}
    PROVE  /\ ScopeInv'
           /\ ParsedCalls(disk)' = ParsedCalls(disk)
           /\ Dead(disk, ParsedCalls(disk))' = Dead(disk, ParsedCalls(disk))
           /\ \A g : Leftover(g)' <=> Leftover(g)
<1>1. disk' = disk /\ stored' = stored /\ view' = view
  OBVIOUS
<1>2. ScopeInv'
  BY <1>1 DEF ScopeInv, Closure, Changed
<1>3. ParsedCalls(disk)' = ParsedCalls(disk)
  BY <1>1
<1>4. Dead(disk, ParsedCalls(disk))' = Dead(disk, ParsedCalls(disk))
  BY <1>1
<1>5. ASSUME NEW g
      PROVE  Leftover(g)' <=> Leftover(g)
  BY <1>1 DEF Leftover, Carried
<1> QED  BY <1>2, <1>3, <1>4, <1>5

LEMMA ParseStep ==
    ASSUME EdgeInv, Parse
    PROVE  EdgeInv'
<1>1. ScopeInv' /\ ParsedCalls(disk)' = ParsedCalls(disk)
  BY PhaseFrame DEF EdgeInv, Parse
<1>2. BuiltInv' /\ built'.calls = ParsedCalls(disk)
  BY DEF EdgeInv, BuiltInv, Parse
<1> QED  BY <1>1, <1>2 DEF EdgeInv, CallsInv, DeadInv, Parse

LEMMA CrossFileStep ==
    ASSUME EdgeInv, CrossFile
    PROVE  EdgeInv'
<1> DEFINE old == IF view.active THEN Carried(stored.calls) ELSE {}
           new == {e \in ParsedCalls(disk) : e.from[1] \in InView}
           all == ParsedCalls(disk) \cup {e \in old \cup new : e.confidence > 50}
<1>1. /\ ScopeInv' /\ ParsedCalls(disk)' = ParsedCalls(disk)
      /\ \A g : Leftover(g)' <=> Leftover(g)
  BY PhaseFrame DEF EdgeInv, CrossFile
<1>2. phaseAt' = "mro" /\ BuiltInv' /\ built'.calls = Strongest(all)
  BY DEF EdgeInv, BuiltInv, CallsInv, CrossFile
<1>3. \A g \in all : g.confidence \in Confidence
  <2>1. \A g \in ParsedCalls(disk) : g.confidence \in Confidence
    BY ParsedConfidence DEF Confidence
  <2>2. \A g \in old : g.confidence \in Confidence
    BY DEF EdgeInv, ScopeInv, Carried
  <2> QED  BY <2>1, <2>2
<1>4. Strongest(all) \subseteq all
  BY DEF Strongest
<1>5. ASSUME NEW g \in all, g \notin ParsedCalls(disk)
      PROVE  Leftover(g)
  BY <1>5, CarriedIsLeftover DEF EdgeInv
<1>6. Covered(Strongest(all))
  <2>1. ParsedCalls(disk) \subseteq all
    OBVIOUS
  <2> HIDE DEF all
  <2> QED  BY <1>3, <2>1, StrongestKeeps DEF Covered
<1> HIDE DEF all
<1>7. CallsInv'
  BY <1>1, <1>2, <1>3, <1>4, <1>5, <1>6 DEF CallsInv, Covered
<1>8. DeadInv'
  BY <1>2 DEF DeadInv
<1> QED  BY <1>1, <1>2, <1>7, <1>8 DEF EdgeInv

LEMMA MroStep ==
    ASSUME EdgeInv, Mro
    PROVE  EdgeInv'
<1>1. /\ ScopeInv' /\ ParsedCalls(disk)' = ParsedCalls(disk)
      /\ \A g : Leftover(g)' <=> Leftover(g)
  BY PhaseFrame DEF EdgeInv, Mro
<1>2. BuiltInv' /\ built'.calls = built.calls
  BY DEF EdgeInv, BuiltInv, Mro
<1> QED  BY <1>1, <1>2 DEF EdgeInv, CallsInv, Covered, DeadInv, Mro

LEMMA MarkDeadStep ==
    ASSUME EdgeInv, MarkDead
    PROVE  EdgeInv'
<1>1. /\ ScopeInv' /\ ParsedCalls(disk)' = ParsedCalls(disk)
      /\ Dead(disk, ParsedCalls(disk))' = Dead(disk, ParsedCalls(disk))
      /\ \A g : Leftover(g)' <=> Leftover(g)
  BY PhaseFrame DEF EdgeInv, MarkDead
<1>2. /\ built'.calls = built.calls /\ built'.dead = Dead(disk, built.calls)
      /\ BuiltInv' /\ stored' = stored /\ phaseAt = "dead-code" /\ phaseAt' = "scip-index"
  BY DEF EdgeInv, BuiltInv, MarkDead, Referrers
<1>3. CallsInv'
  BY <1>1, <1>2 DEF EdgeInv, CallsInv, Covered
<1>4. Dead(disk, built.calls) \subseteq Dead(disk, ParsedCalls(disk))
  BY <1>2 DEF EdgeInv, CallsInv, Covered, Dead
<1>5. ASSUME NEW s \in Dead(disk, ParsedCalls(disk)) \ Dead(disk, built.calls)
      PROVE  \E g \in stored.calls : g.to = s /\ Leftover(g)
  <2>1. PICK g \in built.calls : g.to = s
    BY DEF Dead
  <2>2. g \notin ParsedCalls(disk)
    BY <2>1 DEF Dead
  <2>3. Leftover(g)
    BY <1>2, <2>2 DEF EdgeInv, CallsInv
  <2> QED  BY <2>1, <2>3 DEF Leftover, Carried
<1>6. DeadInv'
  BY <1>1, <1>2, <1>4, <1>5 DEF DeadInv
<1> QED  BY <1>1, <1>2, <1>3, <1>6 DEF EdgeInv

(* The edges of an indexer only replace weaker ones. *)
LEMMA OracleCovers ==
    ASSUME EdgeInv, NEW d, phaseAt = "scip-index",
           NEW found \in SUBSET Oracle(d),
           NEW calls, calls = Strongest(built.calls \cup found)
    PROVE  /\ \A g \in calls : g.confidence \in Confidence
           /\ Covered(calls)
           /\ \A g \in calls : g \in ParsedCalls(disk) \/ g.confidence = 100 \/ Leftover(g)
<1>1. \A g \in found : g.confidence = 100
  <2> SUFFICES ASSUME NEW g \in Oracle(d) PROVE g.confidence = 100
    OBVIOUS
  <2>1. PICK f \in Here(d) :
            g \in UNION {[from : At(d, <<f, c[1]>>), to : At(d, c[2]), confidence : {100}] :
                            c \in {seen \in d[f].seen : seen[2] \in SymbolsOf(d)}}
    BY DEF Oracle
  <2>2. PICK c \in {seen \in d[f].seen : seen[2] \in SymbolsOf(d)} :
            g \in [from : At(d, <<f, c[1]>>), to : At(d, c[2]), confidence : {100}]
    BY <2>1
  <2> QED  BY <2>2
<1>2. \A g \in built.calls \cup found : g.confidence \in Confidence
  BY <1>1 DEF EdgeInv, CallsInv, Confidence
<1>3. calls \subseteq built.calls \cup found
  BY DEF Strongest
<1>4. ASSUME NEW e \in ParsedCalls(disk)
      PROVE  \E g \in calls : g.from = e.from /\ g.to = e.to /\ g.confidence >= e.confidence
  <2>1. PICK h \in built.calls : h.from = e.from /\ h.to = e.to /\ h.confidence >= e.confidence
    BY DEF EdgeInv, CallsInv, Covered
  <2>2. PICK g \in calls : g.from = h.from /\ g.to = h.to /\ g.confidence >= h.confidence
    BY <1>2, StrongestKeeps
  <2>3. g.confidence \in Int
    <3>1. g.confidence \in Confidence
      BY <1>2, <1>3
    <3> QED  BY <3>1 DEF Confidence
  <2>4. h.confidence \in Int
    <3>1. h.confidence \in Confidence
      BY <1>2
    <3> QED  BY <3>1 DEF Confidence
  <2>5. e.confidence \in Int
    <3>1. e.confidence \in {50, 90, 95}
      BY ParsedConfidence
    <3> QED  BY <3>1
  <2>6. g.confidence >= e.confidence
    BY <2>1, <2>2, <2>3, <2>4, <2>5
  <2> QED  BY <2>1, <2>2, <2>6
<1> QED  BY <1>1, <1>2, <1>3, <1>4 DEF EdgeInv, CallsInv, Covered

LEMMA ScipIndexStep ==
    ASSUME EdgeInv, ScipIndex
    PROVE  EdgeInv'
<1>1. /\ ScopeInv' /\ ParsedCalls(disk)' = ParsedCalls(disk)
      /\ Dead(disk, ParsedCalls(disk))' = Dead(disk, ParsedCalls(disk))
      /\ \A g : Leftover(g)' <=> Leftover(g)
  BY PhaseFrame DEF EdgeInv, ScipIndex
<1>2. /\ phaseAt = "scip-index" /\ phaseAt' = "store" /\ stored' = stored
      /\ UNCHANGED built \/ \E d : AddOracle(d)
  BY DEF ScipIndex
<1>3. /\ BuiltInv' /\ built'.dead = built.dead
      /\ \/ built'.calls = built.calls
         \/ \E d : \E found \in SUBSET Oracle(d) :
               built'.calls = Strongest(built.calls \cup found)
  <2>1. ASSUME NEW d, AddOracle(d)
        PROVE  /\ BuiltInv' /\ built'.dead = built.dead
               /\ \E found \in SUBSET Oracle(d) :
                     built'.calls = Strongest(built.calls \cup found)
    BY <2>1 DEF EdgeInv, BuiltInv, AddOracle
  <2>2. CASE UNCHANGED built
    BY <2>2 DEF EdgeInv, BuiltInv
  <2> QED  BY <1>2, <2>1, <2>2
<1>4. CallsInv'
  <2>1. CASE built'.calls = built.calls
    BY <1>1, <1>2, <2>1 DEF EdgeInv, CallsInv, Covered
  <2>2. CASE \E d : \E found \in SUBSET Oracle(d) : built'.calls = Strongest(built.calls \cup found)
    BY <1>1, <1>2, <2>2, OracleCovers DEF CallsInv, Covered
  <2> QED  BY <1>3, <2>1, <2>2
<1>5. DeadInv'
  BY <1>1, <1>2, <1>3 DEF EdgeInv, DeadInv
<1> QED  BY <1>1, <1>3, <1>4, <1>5 DEF EdgeInv

LEMMA StoreStep ==
    ASSUME EdgeInv, Store
    PROVE  EdgeInv'
<1>1. phaseAt' = "none" /\ ~view'.active /\ BuiltInv'
  BY DEF Store, EndRun, WholeTree, BuiltInv, NoEdges
<1>2. \A e \in stored'.calls : e.confidence \in Confidence
  BY DEF EdgeInv, CallsInv, Store
<1> QED  BY <1>1, <1>2 DEF EdgeInv, ScopeInv, CallsInv, DeadInv

LEMMA AbandonStep ==
    ASSUME EdgeInv, Abandon
    PROVE  EdgeInv'
  BY DEF EdgeInv, ScopeInv, BuiltInv, CallsInv, DeadInv, Abandon, EndRun, WholeTree, NoEdges

-----------------------------------------------------------------------------
LEMMA InitEdgeInv == EdgeInit => EdgeInv
  BY DEF EdgeInit, EdgeInv, ScopeInv, BuiltInv, CallsInv, DeadInv, WholeTree, NoEdges

LEMMA NextEdgeInv == EdgeInv /\ [EdgeNext]_edgeVars => EdgeInv'
<1> SUFFICES ASSUME EdgeInv, [EdgeNext]_edgeVars PROVE EdgeInv'
  OBVIOUS
<1>1. CASE EdgeNext
  BY <1>1, EditStep, ScopeStep, ParseStep, CrossFileStep, MroStep, MarkDeadStep,
     ScipIndexStep, StoreStep, AbandonStep DEF EdgeNext
<1>2. CASE UNCHANGED edgeVars
  <2>1. /\ disk' = disk /\ stored' = stored /\ phaseAt' = phaseAt
        /\ view' = view /\ built' = built
    BY <1>2 DEF edgeVars
  <2>2. ScopeInv' /\ BuiltInv'
    <3>1. Closure' = Closure
      BY <2>1 DEF Closure, Changed
    <3>2. ScopeInv'
      BY <2>1, <3>1 DEF EdgeInv, ScopeInv
    <3>3. BuiltInv'
      BY <2>1 DEF EdgeInv, BuiltInv
    <3> QED  BY <3>2, <3>3
  <2>3. ASSUME NEW g
        PROVE  Leftover(g)' <=> Leftover(g)
    BY <2>1 DEF Leftover, Carried
  <2>4. CallsInv'
    BY <2>1, <2>3 DEF EdgeInv, CallsInv, Covered
  <2>5. DeadInv'
    BY <2>1, <2>3 DEF EdgeInv, DeadInv
  <2> QED  BY <2>2, <2>4, <2>5 DEF EdgeInv
<1> QED  BY <1>1, <1>2

(* EdgeInv is an invariant of the runs. *)
THEOREM EdgeInvariance == EdgeSpec => []EdgeInv
<1> QED  BY InitEdgeInv, NextEdgeInv, PTL DEF EdgeSpec

(* An edit, through any chain of imports and shadowed names, leaves no stale  *)
(* call behind: incremental runs have the calls of the parser, and the others *)
(* below the oracle's were wrong in the stored graph, unless a file has been  *)
(* added or deleted.                                                         *)
THEOREM CallsStayCurrent == EdgeSpec => []CallsCurrent
<1>1. EdgeInv => CallsCurrent
  BY DEF EdgeInv, CallsInv, Covered, Leftover, Carried, CallsCurrent
<1> QED  BY <1>1, EdgeInvariance, PTL

(* Dead marks differ from those of a full run only by symbols that a call     *)
(* carried over spares.                                                      *)
THEOREM SparedOnlyByCarried == EdgeSpec => []SparedByCarried
<1>1. EdgeInv => SparedByCarried
  BY DEF EdgeInv, DeadInv, Leftover, SparedByCarried
<1> QED  BY <1>1, EdgeInvariance, PTL
=============================================================================
