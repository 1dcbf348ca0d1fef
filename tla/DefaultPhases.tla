---------------------------- MODULE DefaultPhases ----------------------------
(***************************************************************************)
(* The default pipeline (DEFAULT_PHASES in                                 *)
(* packages/ingestion/src/pipeline/phases/default-set.ts) and what its     *)
(* phases rely on beyond the deps they declare.  All phases write to one   *)
(* graph, so their order decides what each of them sees.                   *)
(***************************************************************************)
EXTENDS PhaseRunner

DefaultAlphabet ==
    <<"accesses", "annotate", "business-logic", "cochange", "communities",
      "complexity", "confidence-demote", "coverage", "crossFile", "dead-code",
      "dependencies", "embeddings", "fetches", "incremental-scope", "markdown",
      "mro", "openapi", "orm", "ownership", "parse", "processes", "profile",
      "repo-node", "risk-snapshot", "routes", "sbom", "scan", "scip-index",
      "structure", "temporal", "tools">>

Phase(n, ds) == [name |-> n, deps |-> ds]

MarkdownDeps_None == <<>>

MarkdownDeps == <<"structure">>

DEFAULT_PHASES ==
    <<Phase("scan", <<>>),
      Phase("profile", <<"scan", "parse">>),
      Phase("repo-node", <<"profile">>),
      Phase("structure", <<"scan">>),
      Phase("coverage", <<"scan", "profile", "structure">>),
      Phase("markdown", MarkdownDeps),
      Phase("parse", <<"scan", "structure">>),
      Phase("incremental-scope", <<"scan">>),
      Phase("complexity", <<"parse", "scan">>),
      Phase("business-logic", <<"parse", "scan">>),
      Phase("routes", <<"parse", "profile">>),
      Phase("openapi", <<"routes", "profile">>),
      Phase("tools", <<"parse">>),
      Phase("orm", <<"parse">>),
      Phase("crossFile", <<"parse", "routes", "tools", "orm", "incremental-scope">>),
      Phase("accesses", <<"parse", "crossFile">>),
      Phase("scip-index", <<"scan", "profile", "parse", "crossFile", "accesses">>),
      Phase("confidence-demote", <<"scip-index">>),
      Phase("mro", <<"crossFile", "structure", "incremental-scope">>),
      Phase("communities", <<"mro", "structure", "incremental-scope">>),
      Phase("dead-code", <<"crossFile", "mro", "communities">>),
      Phase("processes", <<"communities", "routes", "tools", "structure", "incremental-scope">>),
      Phase("fetches", <<"parse", "profile", "routes">>),
      Phase("temporal", <<"scan">>),
      Phase("cochange", <<"temporal">>),
      Phase("ownership", <<"scan", "parse", "temporal", "communities">>),
      Phase("dependencies", <<"scan", "profile">>),
      Phase("sbom", <<"dependencies">>),
      Phase("annotate", <<"processes", "temporal", "cochange">>),
      Phase("risk-snapshot", <<"annotate">>),
      Phase("embeddings", <<"annotate", "communities", "confidence-demote">>)>>

(* Outputs a phase takes from ctx.phaseOutputs, which holds those of all the *)
(* phases that have run: the runner does not see these reads.                *)
PhaseOutputsRead ==
    {<<n, "scan">> : n \in {"markdown", "routes", "openapi", "tools", "orm", "fetches",
                             "dependencies", "annotate", "embeddings"}} \cup
    {<<n, "incremental-scope">> : n \in {"crossFile", "mro", "communities", "processes"}}

-----------------------------------------------------------------------------
Running(n) == phases = DEFAULT_PHASES /\ stage = "run" /\ ~Ended /\ Current = n

Sorted == phases = DEFAULT_PHASES /\ stage = "run"

Comes(n, m) == \E i, j \in DOMAIN order : order[i] = n /\ order[j] = m /\ i < j

(* The runner's header says that a phase sees only the outputs of the deps it *)
(* names, but every phase gets all outputs so far.  Those that read more than *)
(* they name depend on the order: the deps of their deps must pull in what    *)
(* they read, or most of them throw and end the run, while embeddings goes on *)
(* with an empty file tier and annotate with a count of zero.                 *)
ReadsServed ==
    \A r \in PhaseOutputsRead : Running(r[1]) => r[2] \in outputs

(* The comments' orders that no dependency enforces: the edges of accesses   *)
(* are there for communities, the verdicts of dead-code for processes, and   *)
(* embeddings sees the final graph.  They hold by the alphabet.              *)
KeptOrder ==
    Sorted =>
        /\ Comes("accesses", "communities")
        /\ Comes("dead-code", "processes")
        /\ order[Len(order)] = "embeddings"
=============================================================================
