----------------------------- MODULE PhaseRunner -----------------------------
(***************************************************************************)
(* The ingestion pipeline's runner                                         *)
(* (packages/ingestion/src/pipeline/runner.ts): validatePipeline, which    *)
(* looks for duplicate names, missing dependencies and, by a depth-first   *)
(* search, cycles; topologicalSort, Kahn's algorithm with the smallest     *)
(* name first; and runPipeline, which runs the phases in that order.  The  *)
(* search and the sort take one step per iteration of their loops.         *)
(***************************************************************************)
EXTENDS Phases, FiniteSets

CONSTANTS
    Alphabet,   \* the names in the order JavaScript sorts them
    Pipelines   \* the lists of phases that may be run

Name == {Alphabet[i] : i \in DOMAIN Alphabet}

PhaseList == Seq([name : Name, deps : Seq(Name)])

ASSUME RunnerAssumption ==
    /\ Alphabet \in Seq(Name)
    /\ \A i, j \in DOMAIN Alphabet : Alphabet[i] = Alphabet[j] => i = j
    /\ Pipelines \subseteq PhaseList

VARIABLES
    phases,             \* the list that is run
    stage, error,       \* how far runPipeline has got; why it rejected the list
    color, stack, next, \* the search: next[n] is the iterator of n's call of dfs
    cyclePath,
    indeg, ready, order,\* the sort: ready is kept sorted, here it is a set
    at, outputs         \* how many phases have run; those with an output

searchVars == <<color, stack, next, cyclePath>>
sortVars   == <<indeg, ready, order>>
runVars    == <<at, outputs>>
vars == <<phases, stage, error, searchVars, sortVars, runVars>>

Names   == NamesIn(phases)
Deps(n) == DepsOf(phases, n)

Stage == {"check", "visit", "sort", "run", "rejected", "failed", "done"}

TypeOK ==
    /\ phases \in PhaseList
    /\ stage \in Stage
    /\ error \in {"none", "duplicate", "missing", "cycle", "unsorted"}
    /\ color \in [Names -> {"white", "gray", "black"}]
    /\ stack \in Seq(Names)
    /\ next \in [Names -> Nat \ {0}]
    /\ cyclePath \in Seq(Names)
    /\ indeg \in [Names -> Nat]
    /\ ready \subseteq Names
    /\ order \in Seq(Names)
    /\ at \in Nat
    /\ outputs \subseteq Names

-----------------------------------------------------------------------------
Rank_Reversed(n) == 0 - (CHOOSE i \in DOMAIN Alphabet : Alphabet[i] = n)

Rank(n) == CHOOSE i \in DOMAIN Alphabet : Alphabet[i] = n

(* The first name of S in sorted order. *)
Least(S) == CHOOSE n \in S : \A m \in S : Rank(n) <= Rank(m)

White   == {n \in Names : color[n] = "white"}
Emitted == {order[i] : i \in DOMAIN order}
Top     == stack[Len(stack)]

Init ==
    /\ phases \in Pipelines
    /\ stage = "check" /\ error = "none"
    /\ color = [n \in Names |-> "white"]
    /\ stack = <<>>
    /\ next = [n \in Names |-> 1]
    /\ cyclePath = <<>>
    /\ indeg = [n \in Names |-> 0]
    /\ ready = {}
    /\ order = <<>>
    /\ at = 0 /\ outputs = {}

Reject(why) == stage' = "rejected" /\ error' = why

(* The checks that need no search, in the order of their messages. *)
Check ==
    /\ stage = "check"
    /\ IF HasDuplicate(phases) THEN Reject("duplicate")
       ELSE IF HasMissing(phases) THEN Reject("missing")
       ELSE stage' = "visit" /\ error' = error
    /\ UNCHANGED <<phases, searchVars, sortVars, runVars>>

-----------------------------------------------------------------------------
(* The depth-first search along deps.  The recursion is the stack.         *)

VisitRoot ==
    /\ stage = "visit" /\ stack = <<>>
    /\ White # {}
    /\ stack' = <<Least(White)>>
    /\ color' = [color EXCEPT ![Least(White)] = "gray"]
    /\ UNCHANGED <<phases, stage, error, next, cyclePath, sortVars, runVars>>

HasNext == stage = "visit" /\ stack # <<>> /\ next[Top] <= Len(Deps(Top))
NextDep == Deps(Top)[next[Top]]

(* The part of the stack from d on, closed by d. *)
CycleTo_WholeStack(d) == Append(stack, d)

CycleTo(d) ==
    LET start == CHOOSE i \in DOMAIN stack :
                     stack[i] = d /\ \A j \in DOMAIN stack : stack[j] = d => i <= j
    IN Append(SubSeq(stack, start, Len(stack)), d)

CloseCycle ==
    /\ HasNext /\ color[NextDep] = "gray"
    /\ cyclePath' = CycleTo(NextDep)
    /\ Reject("cycle")
    /\ UNCHANGED <<phases, color, stack, next, sortVars, runVars>>

Descend ==
    /\ HasNext /\ color[NextDep] = "white"
    /\ stack' = Append(stack, NextDep)
    /\ color' = [color EXCEPT ![NextDep] = "gray"]
    /\ next' = [next EXCEPT ![Top] = @ + 1]
    /\ UNCHANGED <<phases, stage, error, cyclePath, sortVars, runVars>>

PassBlack ==
    /\ HasNext /\ color[NextDep] = "black"
    /\ next' = [next EXCEPT ![Top] = @ + 1]
    /\ UNCHANGED <<phases, stage, error, color, stack, cyclePath, sortVars, runVars>>

AllFollowed_AllButLast == next[Top] >= Len(Deps(Top))

AllFollowed == next[Top] > Len(Deps(Top))

Blackened_Forgotten(n) == [color EXCEPT ![n] = "white"]

Blackened(n) == [color EXCEPT ![n] = "black"]

Retreat ==
    /\ stage = "visit" /\ stack # <<>>
    /\ AllFollowed
    /\ stack' = SubSeq(stack, 1, Len(stack) - 1)
    /\ color' = Blackened(Top)
    /\ UNCHANGED <<phases, stage, error, next, cyclePath, sortVars, runVars>>

(* The search found no cycle: count the deps of each phase. *)
Counted(n) == Len(Deps(n))

StartSort ==
    /\ stage = "visit" /\ stack = <<>> /\ White = {}
    /\ stage' = "sort"
    /\ indeg' = [n \in Names |-> Counted(n)]
    /\ ready' = {n \in Names : Deps(n) = <<>>}
    /\ UNCHANGED <<phases, error, searchVars, order, runVars>>

-----------------------------------------------------------------------------
(* How often n is listed in the deps of m. *)
Uses(m, n) == Cardinality({i \in DOMAIN Deps(m) : Deps(m)[i] = n})

(* The consumers of n whose last outstanding dep it was. *)
Unblocked_AnyConsumer(n) == {m \in Names : Uses(m, n) > 0 /\ m \notin Emitted}

Unblocked(n) == {m \in Names : Uses(m, n) > 0 /\ indeg[m] - Uses(m, n) = 0}

Emit ==
    /\ stage = "sort" /\ ready # {}
    /\ LET n == Least(ready)
       IN /\ order' = Append(order, n)
          /\ indeg' = [m \in Names |-> indeg[m] - Uses(m, n)]
          /\ ready' = (ready \ {n}) \cup Unblocked(n)
    /\ UNCHANGED <<phases, stage, error, searchVars, runVars>>

(* Nothing is ready any more; the code calls the rejection unreachable. *)
EndSort ==
    /\ stage = "sort" /\ ready = {}
    /\ IF Len(order) # Len(phases) THEN Reject("unsorted")
       ELSE stage' = "run" /\ error' = error
    /\ UNCHANGED <<phases, searchVars, sortVars, runVars>>

-----------------------------------------------------------------------------
(* The phase that runs next. *)
Current == order[at + 1]
Ended   == at = Len(order)

RunPhase ==
    /\ stage = "run" /\ ~Ended
    /\ outputs' = outputs \cup {Current}
    /\ at' = at + 1
    /\ UNCHANGED <<phases, stage, error, searchVars, sortVars>>

(* The phase throws: the error is wrapped and nothing else runs. *)
ThrowPhase ==
    /\ stage = "run" /\ ~Ended
    /\ stage' = "failed"
    /\ UNCHANGED <<phases, error, searchVars, sortVars, runVars>>

Return ==
    /\ stage = "run" /\ Ended
    /\ stage' = "done"
    /\ UNCHANGED <<phases, error, searchVars, sortVars, runVars>>

Next ==
    \/ Check
    \/ VisitRoot \/ CloseCycle \/ Descend \/ PassBlack \/ Retreat
    \/ StartSort \/ Emit \/ EndSort
    \/ RunPhase \/ ThrowPhase \/ Return

Spec == Init /\ [][Next]_vars

(* The loops go on, and a phase that was started ends. *)
FairSpec == Spec /\ WF_vars(Next)

-----------------------------------------------------------------------------
(* A rejection for a cycle names phases that do wait for each other in a     *)
(* circle, although the search may have come to it from outside.             *)
CycleIsReal ==
    error = "cycle" =>
        /\ Len(cyclePath) > 1
        /\ cyclePath[1] = cyclePath[Len(cyclePath)]
        /\ \A i \in 1 .. Len(cyclePath) - 1 : cyclePath[i + 1] \in NeedsOf(phases, cyclePath[i])

(* The search finds every cycle: the sort never gets stuck.                  *)
NeverUnsorted == error # "unsorted"

(* The order is a function of the dependencies, not of the list: each phase  *)
(* is the alphabetically first of those whose dependencies come before it.   *)
AlphabeticOrder ==
    \A i \in DOMAIN order :
        LET before == {order[j] : j \in 1 .. i - 1}
        IN order[i] = Least({n \in Names \ before : NeedsOf(phases, n) \subseteq before})

(* The runner implements the abstract schedule.                              *)
Outcome ==
    CASE stage = "rejected" -> "rejected"
      [] stage = "failed"   -> "failed"
      [] stage = "done"     -> "finished"
      [] OTHER              -> "running"

Schedule == INSTANCE PhaseSchedule WITH ran <- outputs, outcome <- Outcome

Refines == Schedule!Spec

(* Every run comes to an end, cyclic dependencies or not.                    *)
Ends == <>(stage \in {"rejected", "failed", "done"})

-----------------------------------------------------------------------------
(* The inductive invariant.                                                *)
Black   == {n \in Names : color[n] = "black"}
Needs(n) == NeedsOf(phases, n)

(* Behind the first checks, the list is as the search needs it.              *)
CheckedInv ==
    /\ stage \in {"visit", "sort", "run", "failed", "done"} \/ error \in {"cycle", "unsorted"} =>
         ~HasDuplicate(phases) /\ ~HasMissing(phases)
    /\ stage # "rejected" => error = "none"
    /\ stage = "check" => stack = <<>> /\ White = Names

(* The stack is a path along deps, of the phases that are gray; what a phase *)
(* on it has passed is black, but for the dep that the search is in.         *)
StackInv ==
    /\ \A i, j \in DOMAIN stack : stack[i] = stack[j] => i = j
    /\ \A n \in Names : color[n] = "gray" <=> \E i \in DOMAIN stack : stack[i] = n
    /\ \A i \in 1 .. Len(stack) - 1 : stack[i + 1] \in Needs(stack[i])
    /\ \A n \in White : next[n] = 1
    /\ \A i \in DOMAIN stack :
         \A j \in 1 .. next[stack[i]] - 1 :
            /\ j \in DOMAIN Deps(stack[i])
            /\ \/ Deps(stack[i])[j] \in Black
               \/ i < Len(stack) /\ Deps(stack[i])[j] = stack[i + 1]

(* The black phases are closed under deps and hold no cycle: every set of    *)
(* them has a member that needs none of them.                                *)
BlackInv ==
    /\ \A n \in Black : Needs(n) \subseteq Black
    /\ \A S \in SUBSET Black : S # {} => \E n \in S : Needs(n) \cap S = {}

(* The counts and the ready set follow from what has been emitted.           *)
Outstanding(n) == {i \in DOMAIN Deps(n) : Deps(n)[i] \notin Emitted}

SortInv ==
    /\ stage \in {"check", "visit"} => order = <<>> /\ at = 0
    /\ stage = "rejected" => at = 0
    /\ stage \in {"sort", "run", "failed", "done"} =>
         /\ Black = Names
         /\ \A i, j \in DOMAIN order : order[i] = order[j] => i = j
         /\ \A i \in DOMAIN order : Needs(order[i]) \subseteq {order[j] : j \in 1 .. i - 1}
         /\ \A n \in Names : indeg[n] = Cardinality(Outstanding(n))
         /\ ready = {n \in Names \ Emitted : Needs(n) \subseteq Emitted}

RunInv ==
    /\ at <= Len(order)
    /\ outputs = {order[i] : i \in 1 .. at}
    /\ stage = "sort" => at = 0
    /\ stage \in {"run", "failed", "done"} => Emitted = Names
    /\ stage = "done" => at = Len(order)

RunnerInv ==
    /\ TypeOK
    /\ CheckedInv
    /\ StackInv
    /\ BlackInv
    /\ SortInv
    /\ RunInv
    /\ CycleIsReal
    /\ NeverUnsorted
    /\ AlphabeticOrder
=============================================================================
