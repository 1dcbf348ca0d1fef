-------------------------------- MODULE Phases --------------------------------
(***************************************************************************)
(* A pipeline is a list of phases (PipelinePhase in                        *)
(* packages/ingestion/src/pipeline/types.ts): a name and the names of the  *)
(* phases it depends on.  These operators say what makes a list unusable.  *)
(***************************************************************************)
EXTENDS Integers, Sequences

NamesIn(list) == {list[i].name : i \in DOMAIN list}

(* The names that a phase called n declares in its deps. *)
NeedsOf(list, n) ==
    UNION {{list[i].deps[j] : j \in DOMAIN list[i].deps} :
               i \in {k \in DOMAIN list : list[k].name = n}}

(* The deps of the phase called n, if there is one. *)
DepsOf(list, n) == list[CHOOSE i \in DOMAIN list : list[i].name = n].deps

HasDuplicate(list) == \E i, j \in DOMAIN list : i # j /\ list[i].name = list[j].name

HasMissing(list) == \E n \in NamesIn(list) : ~(NeedsOf(list, n) \subseteq NamesIn(list))

(* Phases that wait for one another, directly or in a circle. *)
HasCycle(list) ==
    \E S \in SUBSET NamesIn(list) :
        S # {} /\ \A n \in S : NeedsOf(list, n) \cap S # {}
=============================================================================
