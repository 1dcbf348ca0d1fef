--------------------------- MODULE IncrementalGraph ---------------------------
(***************************************************************************)
(* The edges of the graph from one analyze run to the next.  A run parses  *)
(* every file and resolves its calls and parents; the phases after that    *)
(* are limited to the files around a change (incremental-scope.ts) and     *)
(* take over from the stored graph the edges that touch none of those      *)
(* (incremental-helper.ts, cross-file.ts, mro.ts).  The edges of the SCIP  *)
(* indexers arrive after dead code has been marked (scip-index.ts).        *)
(*                                                                         *)
(* A symbol is a function or a class, <<file, name>>; a class may declare  *)
(* one method, for which it stands in an override (whether the method is   *)
(* dead is left out); it has at most one parent, and no symbol is          *)
(* exported.  Files do not change during a run and what it leaves is       *)
(* written at once: AnalyzeLifecycle has the rest.                         *)
(***************************************************************************)
EXTENDS Integers, FiniteSets

CONSTANTS
    Source,         \* the files, numbered in the order of their paths
    Versions,       \* of each file, the contents it can have
    Deleted,        \* the "content" of a file that is not there
    TopLevel,       \* the files in the root directory
    Indexer,        \* a SCIP indexer is installed
    NoIndex

(* What a content consists of: the names it defines; for an imported name the *)
(* paths that are tried; who calls what name; the parent's name of a class;   *)
(* the classes that declare the method; the calls an indexer sees.            *)
Parts == {"defs", "imports", "calls", "extends", "owns", "seen"}

IncAssumption ==
    /\ Source \subseteq Nat /\ IsFiniteSet(Source)
    /\ TopLevel \subseteq Source
    /\ Indexer \in BOOLEAN
    /\ \A f \in Source : \A c \in Versions[f] \ {Deleted} : Parts \subseteq DOMAIN c

ASSUME IncAssumption

VARIABLES
    disk,           \* the content of each file
    stored,         \* the stored graph, and the files it was made from
    scip,           \* the .scip file: the files it was made from, and whether
                    \* the root directory has changed since
    phaseAt,        \* the phase of the run that comes next
    view,           \* incremental or not, and the closure
    built           \* the graph being built

edgeVars == <<disk, stored, scip, phaseAt, view, built>>

NoEdges == [calls |-> {}, overrides |-> {}, dead |-> {}]
WholeTree == [active |-> FALSE, closure |-> {}]

(* Some files: the edits lead to all others.                               *)
EdgeInit ==
    /\ disk = [f \in Source |-> CHOOSE c \in Versions[f] : TRUE]
    /\ stored = NoIndex /\ scip = NoIndex
    /\ phaseAt = "none" /\ view = WholeTree /\ built = NoEdges

-----------------------------------------------------------------------------
(* The parse phase on the files d: symbols, imports, calls, parents.       *)
Here(d) == {f \in Source : d[f] # Deleted}

SymbolsOf(d) == UNION {{f} \X d[f].defs : f \in Here(d)}

Lowest(S) == {m \in S : \A k \in S : m <= k}

(* resolveImportTarget: the first of the paths that exists.                *)
Target(d, f, n) ==
    LET paths == d[f].imports[n]
    IN  {paths[i] : i \in Lowest({j \in DOMAIN paths : paths[j] \in Here(d)})}

Imports(d) ==
    {link \in Here(d) \X Here(d) :
        \E n \in DOMAIN d[link[1]].imports : link[2] \in Target(d, link[1], n)}

(* The files that n may be defined in, seen from f, and the confidence (in   *)
(* per cent): f itself, the one it is imported from, the first that has it.  *)
Tier(d, f, n) ==
    LET imported == {g \in IF n \in DOMAIN d[f].imports THEN Target(d, f, n) ELSE {} :
                        n \in d[g].defs}
    IN  IF n \in d[f].defs THEN [files |-> {f}, confidence |-> 95]
        ELSE IF imported # {} THEN [files |-> imported, confidence |-> 90]
        ELSE [files |-> Lowest({g \in Here(d) : n \in d[g].defs}), confidence |-> 50]

CallsFrom(d, f) ==
    UNION {{[from |-> <<f, c[1]>>, to |-> <<g, c[2]>>, confidence |-> Tier(d, f, c[2]).confidence] :
               g \in Tier(d, f, c[2]).files} : c \in d[f].calls}

ParsedCalls(d) == UNION {CallsFrom(d, f) : f \in Here(d)}

Extends(d) ==
    {link \in SymbolsOf(d) \X SymbolsOf(d) :
        LET c == link[1]  p == link[2]  parents == d[c[1]].extends
        IN  /\ c[2] \in DOMAIN parents /\ p[2] = parents[c[2]]
            /\ p[1] \in Tier(d, c[1], p[2]).files}

(* KnowledgeGraph.addEdge: of two edges with the same ends the stronger.   *)
Strongest(S) ==
    {e \in S : \A g \in S : g.from = e.from /\ g.to = e.to => g.confidence <= e.confidence}

-----------------------------------------------------------------------------
(* The method of the nearest ancestor that declares it.                    *)
Owner(d, c) == c[2] \in d[c[1]].owns

Overridden(d, c) ==
    LET parents == Extends(d)
        above[k \in 0 .. Cardinality(Source)] ==
            IF k = 0 THEN {c}
            ELSE {p \in SymbolsOf(d) :
                     \E x \in above[k - 1] : (k = 1 \/ ~Owner(d, x)) /\ <<x, p>> \in parents}
    IN  {a \in UNION {above[k] : k \in 1 .. Cardinality(Source)} : Owner(d, a)}

Overrides(d, files) ==
    UNION {{[from |-> c, to |-> a] : a \in Overridden(d, c)} :
              c \in {s \in SymbolsOf(d) : s[1] \in files /\ Owner(d, s)}}

Dead(d, calls) ==
    {s \in SymbolsOf(d) : /\ \A e \in calls : e.to # s
                          /\ \A link \in Extends(d) : link[2] # s}

(* The symbols that may be, by now, at the line where s was in the files d:  *)
(* s, while its file is unchanged, or any other of the file, or none.        *)
At(d, s) == {t \in SymbolsOf(disk) : t[1] = s[1] /\ (d[s[1]] = disk[s[1]] => t = s)}

(* What the indexer makes of the files d: the calls it sees between their    *)
(* symbols, each wherever its lines may be by now.                           *)
Oracle(d) ==
    {e \in UNION {UNION {[from : At(d, <<f, c[1]>>), to : At(d, c[2]), confidence : {100}] :
                            c \in {seen \in d[f].seen : seen[2] \in SymbolsOf(d)}} : f \in Here(d)} :
        e.from # e.to}

-----------------------------------------------------------------------------
(* The developer changes, adds or deletes a file.                          *)
Edit(f, c) ==
    /\ phaseAt = "none"
    /\ c # disk[f]
    /\ disk' = [disk EXCEPT ![f] = c]
    /\ scip' = IF scip # NoIndex /\ f \in TopLevel /\ Deleted \in {c, disk[f]}
               THEN [scip EXCEPT !.aged = TRUE] ELSE scip
    /\ UNCHANGED <<stored, phaseAt, view, built>>

Changed_NewOnly == {f \in Here(disk) : stored.of[f] = Deleted}

(* computeChangedFiles: new or with another hash; not the deleted ones.    *)
Changed == {f \in Here(disk) : stored.of[f] # disk[f]}

From(S, R) == {link[2] : link \in {l \in R : l[1] \in S}}
To(S, R)   == {link[1] : link \in {l \in R : l[2] \in S}}

(* Two hops along the imports of the stored graph, two against them, where   *)
(* the second search does not go on from what the first has reached, and one *)
(* between parents and children; what no longer exists is dropped.           *)
Closure ==
    LET imports  == Imports(stored.of)
        heritage == {<<link[1][1], link[2][1]>> : link \in Extends(stored.of)}
        forward  == Changed \cup From(Changed, imports)
                            \cup From(From(Changed, imports), imports)
        importer == To(Changed, imports) \ forward
    IN  Here(disk) \cap (forward \cup importer \cup To(importer, imports)
                            \cup From(Changed, heritage) \cup To(Changed, heritage))

(* incremental-scope: up to 30% of the files.                              *)
Scope(force) ==
    /\ phaseAt = "none"
    /\ phaseAt' = "parse"
    /\ view' = IF ~force /\ stored # NoIndex
                  /\ 10 * Cardinality(Closure) <= 3 * Cardinality(Here(disk))
               THEN [active |-> TRUE, closure |-> Closure] ELSE WholeTree
    /\ UNCHANGED <<disk, stored, scip, built>>

Parse ==
    /\ phaseAt = "parse"
    /\ phaseAt' = "crossFile"
    /\ built' = [built EXCEPT !.calls = ParsedCalls(disk)]
    /\ UNCHANGED <<disk, stored, scip, view>>

(* carryForwardEdges: the stored edges between symbols of the stored graph,  *)
(* both outside the closure.                                                 *)
Carried(edges) ==
    {e \in edges : /\ {e.from, e.to} \subseteq SymbolsOf(stored.of)
                   /\ e.from[1] \notin view.closure /\ e.to[1] \notin view.closure}

InView == IF view.active THEN view.closure ELSE Source

CrossFile ==
    /\ phaseAt = "crossFile"
    /\ phaseAt' = "mro"
    /\ LET old == IF view.active THEN Carried(stored.calls) ELSE {}
           new == {e \in ParsedCalls(disk) : e.from[1] \in InView}
       IN  built' = [built EXCEPT !.calls =
                        Strongest(@ \cup {e \in old \cup new : e.confidence > 50})]
    /\ UNCHANGED <<disk, stored, scip, view>>

Mro ==
    /\ phaseAt = "mro"
    /\ phaseAt' = "dead-code"
    /\ LET old == IF view.active THEN Carried(stored.overrides) ELSE {}
       IN  built' = [built EXCEPT !.overrides = old \cup Overrides(disk, InView)]
    /\ UNCHANGED <<disk, stored, scip, view>>

Referrers_WithOracle == built.calls \cup Oracle(disk)

(* The calls that keep a symbol alive: those the graph has by now.         *)
Referrers == built.calls

MarkDead ==
    /\ phaseAt = "dead-code"
    /\ phaseAt' = "scip-index"
    /\ built' = [built EXCEPT !.dead = Dead(disk, Referrers)]
    /\ UNCHANGED <<disk, stored, scip, view>>

(* isCacheFresh: not older than the root directory.                        *)
ScipFresh == scip # NoIndex /\ ~scip.aged

(* Which of the calls of changed files land on a symbol, and where, depends   *)
(* on lines, which are not modelled: any of them may.                        *)
AddOracle(d) ==
    \E found \in SUBSET Oracle(d) :
        /\ {e \in Oracle(d) : \A s \in {e.from, e.to} : d[s[1]] = disk[s[1]]} \subseteq found
        /\ built' = [built EXCEPT !.calls = Strongest(@ \cup found)]

(* The .scip file is used or made anew; or nothing is done, the indexer      *)
(* failing or the phase being disabled in the environment.                  *)
(* confidence-demote comes next and finds nothing to demote: addEdge has    *)
(* kept one edge for each pair.                                             *)
ScipIndex ==
    /\ phaseAt = "scip-index"
    /\ phaseAt' = "store"
    /\ \/ ScipFresh /\ AddOracle(scip.of) /\ UNCHANGED scip
       \/ /\ Indexer /\ ~ScipFresh
          /\ AddOracle(disk)
          /\ scip' = [of |-> disk, aged |-> FALSE]
       \/ UNCHANGED <<built, scip>>
    /\ UNCHANGED <<disk, stored, view>>

EndRun == phaseAt' = "none" /\ view' = WholeTree /\ built' = NoEdges

(* bulkLoad and scan-state.json.                                           *)
Store ==
    /\ phaseAt = "store"
    /\ stored' = [of |-> disk, calls |-> built.calls, overrides |-> built.overrides,
                  dead |-> built.dead]
    /\ EndRun
    /\ UNCHANGED <<disk, scip>>

(* The process dies, or a phase throws.                                    *)
Abandon ==
    /\ phaseAt # "none"
    /\ EndRun
    /\ UNCHANGED <<disk, stored, scip>>

EdgeNext ==
    \/ \E f \in Source : \E c \in Versions[f] : Edit(f, c)
    \/ \E force \in BOOLEAN : Scope(force)
    \/ Parse
    \/ CrossFile
    \/ Mro
    \/ MarkDead
    \/ ScipIndex
    \/ Store
    \/ Abandon

EdgeSpec == EdgeInit /\ [][EdgeNext]_edgeVars

-----------------------------------------------------------------------------
(* Full and incremental runs have the calls of the parser, at its confidence *)
(* or above; any other below the oracle's was carried over, and was wrong    *)
(* already unless a file has been added or deleted: an edit, through any     *)
(* chain of imports and shadowed names, leaves no stale call behind.         *)
CallsCurrent ==
    phaseAt = "store" =>
        /\ \A e \in ParsedCalls(disk) : \E g \in built.calls :
              g.from = e.from /\ g.to = e.to /\ g.confidence >= e.confidence
        /\ \A g \in built.calls : g.confidence < 100 /\ g \notin ParsedCalls(disk) =>
              /\ view.active /\ g \in stored.calls
              /\ Here(stored.of) # Here(disk) \/ g \notin ParsedCalls(stored.of)

(* Nothing that the parser sees called is marked dead, and what a full run   *)
(* would mark dead is spared only for a call carried over from the stored    *)
(* graph, which was wrong already unless a file has been added or deleted.   *)
SparedByCarried ==
    phaseAt = "store" =>
        /\ built.dead \subseteq Dead(disk, ParsedCalls(disk))
        /\ \A s \in Dead(disk, ParsedCalls(disk)) \ built.dead :
              /\ view.active
              /\ \E g \in Carried(stored.calls) :
                    /\ g.to = s
                    /\ Here(stored.of) # Here(disk) \/ g \notin ParsedCalls(stored.of)

(* The comments on the carry-forward, which fail: an incremental run builds  *)
(* the graph that a full run of the same files builds.                       *)
IncrementalIsFull ==
    phaseAt = "store" =>
        /\ built.overrides = Overrides(disk, Source)
        /\ built.dead = Dead(disk, ParsedCalls(disk))

-----------------------------------------------------------------------------
(* The inductive invariant.                                                *)
Confidence == {50, 90, 95, 100}

(* What the run works with does not change under it.                       *)
ScopeInv ==
    /\ phaseAt \in {"none", "parse", "crossFile", "mro", "dead-code", "scip-index", "store"}
    /\ stored # NoIndex => \A e \in stored.calls : e.confidence \in Confidence
    /\ view.active => phaseAt # "none" /\ stored # NoIndex /\ view.closure = Closure

BuiltInv == built = [calls |-> built.calls, overrides |-> built.overrides, dead |-> built.dead]

(* A call that the parser does not see comes from the stored graph, where it  *)
(* was wrong already unless a file has been added or deleted.                *)
Leftover(g) ==
    /\ view.active
    /\ g \in Carried(stored.calls)
    /\ Here(stored.of) # Here(disk) \/ g \notin ParsedCalls(stored.of)

Covered(edges) ==
    \A e \in ParsedCalls(disk) : \E g \in edges :
        g.from = e.from /\ g.to = e.to /\ g.confidence >= e.confidence

CallsInv ==
    /\ phaseAt = "crossFile" => built.calls = ParsedCalls(disk)
    /\ phaseAt \in {"mro", "dead-code", "scip-index", "store"} =>
          /\ \A g \in built.calls : g.confidence \in Confidence
          /\ Covered(built.calls)
          /\ \A g \in built.calls : g \notin ParsedCalls(disk) =>
                 \/ phaseAt = "store" /\ g.confidence = 100
                 \/ Leftover(g)

DeadInv ==
    phaseAt \in {"scip-index", "store"} =>
        /\ built.dead \subseteq Dead(disk, ParsedCalls(disk))
        /\ \A s \in Dead(disk, ParsedCalls(disk)) \ built.dead :
              \E g \in stored.calls : g.to = s /\ Leftover(g)

EdgeInv == ScopeInv /\ BuiltInv /\ CallsInv /\ DeadInv
=============================================================================
