---------------------------- MODULE PhaseSchedule ----------------------------
(***************************************************************************)
(* What the ingestion pipeline promises of a list of phases, whatever the  *)
(* algorithm that orders them: a list that cannot be ordered is rejected   *)
(* before any phase runs; otherwise each phase runs once, when the phases  *)
(* it depends on have run, until all have run or one of them throws.       *)
(***************************************************************************)
EXTENDS Phases

VARIABLES
    phases,             \* the list, any
    ran,                \* the phases that have run
    outcome

vars == <<phases, ran, outcome>>

Init ==
    /\ ran = {}
    /\ outcome = "running"

Reject ==
    /\ outcome = "running" /\ ran = {}
    /\ outcome' = "rejected"
    /\ HasDuplicate(phases) \/ HasMissing(phases) \/ HasCycle(phases)
    /\ UNCHANGED <<phases, ran>>

Runnable(n) ==
    /\ outcome = "running"
    /\ n \in NamesIn(phases) \ ran
    /\ NeedsOf(phases, n) \subseteq ran

Run(n) ==
    /\ Runnable(n)
    /\ ran' = ran \cup {n}
    /\ UNCHANGED <<phases, outcome>>

Throw(n) ==
    /\ Runnable(n)
    /\ outcome' = "failed"
    /\ UNCHANGED <<phases, ran>>

Finish ==
    /\ outcome = "running"
    /\ ran = NamesIn(phases) /\ ~HasDuplicate(phases)
    /\ outcome' = "finished"
    /\ UNCHANGED <<phases, ran>>

Next ==
    \/ Reject
    \/ \E n \in NamesIn(phases) : Run(n)
    \/ \E n \in NamesIn(phases) : Throw(n)
    \/ Finish

Spec == Init /\ [][Next]_vars
=============================================================================
