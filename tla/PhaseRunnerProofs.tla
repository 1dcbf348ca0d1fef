-------------------------- MODULE PhaseRunnerProofs --------------------------
(***************************************************************************)
(* For any alphabet and any set of lists of phases: RunnerInv is an        *)
(* inductive invariant of PhaseRunner, and PhaseRunner implements          *)
(* PhaseSchedule.  For the default pipeline: its phases find what they     *)
(* read, and keep the orders its comments state.                           *)
(***************************************************************************)
EXTENDS DefaultPhases, FiniteSetTheorems, SequenceTheorems, WellFoundedInduction, TLAPS

-----------------------------------------------------------------------------
(* Lists of phases.                                                        *)

(* The parts of a list of phases. *)
LEMMA ListParts ==
    ASSUME phases \in PhaseList
    PROVE  /\ Len(phases) \in Nat /\ DOMAIN phases = 1 .. Len(phases)
           /\ \A i \in DOMAIN phases : phases[i].name \in Name /\ phases[i].deps \in Seq(Name)
           /\ Names \subseteq Name
<1>1. phases \in Seq([name : Name, deps : Seq(Name)])
  BY DEF PhaseList
<1>2. Len(phases) \in Nat /\ DOMAIN phases = 1 .. Len(phases)
  BY <1>1, LenProperties
<1>3. \A i \in 1 .. Len(phases) : phases[i] \in [name : Name, deps : Seq(Name)]
  BY <1>1, ElementOfSeq
<1>4. \A i \in DOMAIN phases : phases[i].name \in Name /\ phases[i].deps \in Seq(Name)
  BY <1>2, <1>3
<1> QED  BY <1>2, <1>4 DEF Names, NamesIn

(* A phase of the list is found by its name. *)
LEMMA DepsAreNames ==
    ASSUME phases \in PhaseList, NEW n \in Names
    PROVE  /\ Deps(n) \in Seq(Name)
           /\ Len(Deps(n)) \in Nat /\ DOMAIN Deps(n) = 1 .. Len(Deps(n))
           /\ {Deps(n)[j] : j \in DOMAIN Deps(n)} \subseteq Needs(n)
<1> DEFINE k == CHOOSE i \in DOMAIN phases : phases[i].name = n
<1>1. k \in DOMAIN phases /\ phases[k].name = n
  BY DEF Names, NamesIn
<1>2. Deps(n) = phases[k].deps
  BY DEF Deps, DepsOf
<1>3. Deps(n) \in Seq(Name)
  BY <1>1, <1>2, ListParts
<1>4. Len(Deps(n)) \in Nat /\ DOMAIN Deps(n) = 1 .. Len(Deps(n))
  BY <1>3, LenProperties
<1>5. {Deps(n)[j] : j \in DOMAIN Deps(n)} \subseteq Needs(n)
  BY <1>1, <1>2 DEF Needs, NeedsOf
<1> QED  BY <1>3, <1>4, <1>5

(* Without duplicates its dependencies are those that any phase of its name *)
(* declares.                                                                *)
LEMMA NeedsAreDeps ==
    ASSUME phases \in PhaseList, ~HasDuplicate(phases), NEW n \in Names
    PROVE  Needs(n) = {Deps(n)[j] : j \in DOMAIN Deps(n)}
<1> DEFINE k == CHOOSE i \in DOMAIN phases : phases[i].name = n
<1>1. k \in DOMAIN phases /\ phases[k].name = n
  BY DEF Names, NamesIn
<1>2. Deps(n) = phases[k].deps
  BY DEF Deps, DepsOf
<1>3. \A i \in DOMAIN phases : phases[i].name = n => i = k
  BY <1>1 DEF HasDuplicate
<1>4. {i \in DOMAIN phases : phases[i].name = n} = {k}
  BY <1>1, <1>3
<1> HIDE DEF k
<1> QED  BY <1>1, <1>2, <1>4 DEF Needs, NeedsOf

(* Without missing dependencies the search stays within the list. *)
LEMMA NeedsAreListed ==
    ASSUME phases \in PhaseList, ~HasMissing(phases), NEW n \in Names
    PROVE  /\ Needs(n) \subseteq Names
           /\ \A j \in DOMAIN Deps(n) : Deps(n)[j] \in Names
<1>1. Needs(n) \subseteq Names
  BY DEF Needs, Names, HasMissing
<1> QED  BY <1>1, DepsAreNames

(* A set of names has a first one. *)
LEMMA LeastIsIn ==
    ASSUME NEW S, S \subseteq Name, S # {}
    PROVE  /\ Least(S) \in S
           /\ \A n \in S : Rank(n) \in Nat /\ Rank(Least(S)) <= Rank(n)
<1> DEFINE T == {Rank(n) : n \in S}
<1>1. \A n \in S : Rank(n) \in Nat /\ Alphabet[Rank(n)] = n
  <2>1. DOMAIN Alphabet = 1 .. Len(Alphabet) /\ Len(Alphabet) \in Nat
    BY RunnerAssumption, LenProperties
  <2>2. SUFFICES ASSUME NEW n \in S PROVE Rank(n) \in Nat /\ Alphabet[Rank(n)] = n
    OBVIOUS
  <2>3. \E i \in DOMAIN Alphabet : Alphabet[i] = n
    BY DEF Name
  <2>4. Rank(n) \in DOMAIN Alphabet /\ Alphabet[Rank(n)] = n
    BY <2>3 DEF Rank
  <2> QED  BY <2>1, <2>4
<1>2. T \subseteq Nat /\ T # {}
  BY <1>1
<1>3. PICK x \in T : \A y \in T : ~(<<y, x>> \in OpToRel(<, Nat))
  BY <1>2, NatLessThanWellFounded, WFMin
<1>4. \A y \in T : ~(y < x)
  BY <1>2, <1>3 DEF OpToRel
<1>5. \A y \in T : x <= y
  BY <1>2, <1>4
<1>6. PICK n \in S : Rank(n) = x
  OBVIOUS
<1>7. \A m \in S : Rank(n) <= Rank(m)
  BY <1>5, <1>6
<1> QED  BY <1>1, <1>7 DEF Least

-----------------------------------------------------------------------------
(* The initial states and the search.                                      *)

(* RunnerInv holds when a list is handed in. *)
LEMMA InitRunnerInv == Init => RunnerInv
<1> SUFFICES ASSUME Init PROVE RunnerInv
  OBVIOUS
<1>1. phases \in PhaseList
  BY RunnerAssumption DEF Init
<1>2. <<>> \in Seq(Names) /\ Len(<<>>) = 0 /\ DOMAIN <<>> = {}
  OBVIOUS
<1>3. TypeOK
  BY <1>1, <1>2 DEF Init, TypeOK, Stage
<1>4. CheckedInv /\ StackInv /\ BlackInv
  BY <1>2 DEF Init, CheckedInv, StackInv, BlackInv, White, Black, Needs
<1>5. SortInv /\ RunInv
  BY <1>2 DEF Init, SortInv, RunInv
<1>6. CycleIsReal /\ NeverUnsorted /\ AlphabeticOrder
  BY <1>2 DEF Init, CycleIsReal, NeverUnsorted, AlphabeticOrder
<1> QED  BY <1>3, <1>4, <1>5, <1>6 DEF RunnerInv

(* What no step before the sort touches. *)
LEMMA BeforeSort ==
    ASSUME RunnerInv, stage \in {"check", "visit"},
           stage' \in {"check", "visit", "rejected"},
           UNCHANGED <<phases, sortVars, runVars>>
    PROVE  SortInv' /\ RunInv' /\ AlphabeticOrder'
<1>1. SortInv'
  BY DEF RunnerInv, SortInv, sortVars, runVars
<1>2. RunInv'
  BY DEF RunnerInv, RunInv, sortVars, runVars
<1>3. AlphabeticOrder'
  BY DEF RunnerInv, AlphabeticOrder, Names, sortVars
<1> QED  BY <1>1, <1>2, <1>3

(* The checks for duplicates and missing dependencies. *)
LEMMA CheckStep ==
    ASSUME RunnerInv, Check
    PROVE  RunnerInv'
<1>1. /\ stage = "check" /\ error = "none"
      /\ stage' \in {"visit", "rejected"}
      /\ error' \in {"none", "duplicate", "missing"}
      /\ stage' = "visit" => error' = "none" /\ ~HasDuplicate(phases) /\ ~HasMissing(phases)
      /\ UNCHANGED <<phases, color, stack, next, cyclePath, indeg, ready, order, at, outputs>>
  BY DEF RunnerInv, CheckedInv, Check, Reject, searchVars, sortVars, runVars
<1>2. TypeOK'
  BY <1>1 DEF RunnerInv, TypeOK, Stage, Names
<1>3. CheckedInv'
  BY <1>1 DEF CheckedInv
<1>4. StackInv' /\ BlackInv'
  BY <1>1 DEF RunnerInv, StackInv, BlackInv, Names, White, Black, Needs, Deps
<1>5. SortInv' /\ RunInv' /\ AlphabeticOrder'
  BY <1>1, BeforeSort DEF sortVars, runVars
<1>6. CycleIsReal' /\ NeverUnsorted'
  BY <1>1 DEF CycleIsReal, NeverUnsorted
<1> QED  BY <1>2, <1>3, <1>4, <1>5, <1>6 DEF RunnerInv

(* The search starts at the first phase it has not seen. *)
LEMMA VisitRootStep ==
    ASSUME RunnerInv, VisitRoot
    PROVE  RunnerInv'
<1> DEFINE r == Least(White)
<1>1. /\ stage = "visit" /\ stack = <<>> /\ stack' = <<r>>
      /\ color' = [color EXCEPT ![r] = "gray"]
      /\ UNCHANGED <<phases, stage, error, next, cyclePath, indeg, ready, order, at, outputs>>
  BY DEF VisitRoot, sortVars, runVars
<1>2. /\ phases \in PhaseList /\ Names' = Names
      /\ color \in [Names -> {"white", "gray", "black"}]
      /\ next \in [Names -> Nat \ {0}]
  BY <1>1 DEF RunnerInv, TypeOK, Names
<1>3. r \in Names /\ color[r] = "white"
  <2>1. White \subseteq Name /\ White # {}
    BY <1>2, ListParts DEF White, VisitRoot
  <2> QED  BY <2>1, LeastIsIn DEF White
<1>4. stack' \in Seq(Names) /\ Len(stack') = 1 /\ DOMAIN stack' = {1} /\ stack'[1] = r
  BY <1>1, <1>3
<1>5. Black' = Black
  BY <1>1, <1>2, <1>3 DEF Black
<1> HIDE DEF r
<1>6. TypeOK'
  BY <1>1, <1>2, <1>3, <1>4 DEF RunnerInv, TypeOK
<1>7. CheckedInv'
  BY <1>1 DEF RunnerInv, CheckedInv
<1>8. StackInv'
  <2>1. \A n \in Names : color[n] # "gray"
    BY <1>1 DEF RunnerInv, StackInv
  <2>2. \A n \in Names : color'[n] = "gray" <=> n = r
    BY <1>1, <1>2, <1>3, <2>1
  <2>3. \A n \in White' : next'[n] = 1
    BY <1>1, <1>2, <1>3 DEF RunnerInv, StackInv, White
  <2>4. next'[r] = 1
    BY <1>1, <1>3 DEF RunnerInv, StackInv, White
  <2> QED  BY <1>2, <1>4, <2>2, <2>3, <2>4 DEF StackInv
<1>9. BlackInv'
  BY <1>1, <1>5 DEF RunnerInv, BlackInv, Needs
<1>10. SortInv' /\ RunInv' /\ AlphabeticOrder'
  BY <1>1, BeforeSort DEF sortVars, runVars
<1>11. CycleIsReal' /\ NeverUnsorted'
  BY <1>1 DEF RunnerInv, CycleIsReal, NeverUnsorted
<1> QED  BY <1>6, <1>7, <1>8, <1>9, <1>10, <1>11 DEF RunnerInv

(* The phase the search is in, and the dependency it looks at. *)
LEMMA TopAndNext ==
    ASSUME RunnerInv, stage = "visit", stack # <<>>
    PROVE  /\ phases \in PhaseList /\ ~HasDuplicate(phases) /\ ~HasMissing(phases)
           /\ Len(stack) \in Nat \ {0} /\ DOMAIN stack = 1 .. Len(stack)
           /\ \A i \in 1 .. Len(stack) : stack[i] \in Names
           /\ Top \in Names /\ color[Top] = "gray"
           /\ next[Top] \in Nat \ {0}
           /\ Len(Deps(Top)) \in Nat /\ DOMAIN Deps(Top) = 1 .. Len(Deps(Top))
           /\ HasNext => /\ next[Top] \in DOMAIN Deps(Top)
                         /\ NextDep \in Names /\ NextDep \in Needs(Top)
<1>1. phases \in PhaseList /\ ~HasDuplicate(phases) /\ ~HasMissing(phases)
  BY DEF RunnerInv, TypeOK, CheckedInv
<1>2. stack \in Seq(Names) /\ next \in [Names -> Nat \ {0}]
  BY DEF RunnerInv, TypeOK
<1>3. Len(stack) \in Nat \ {0} /\ DOMAIN stack = 1 .. Len(stack)
  BY <1>2, EmptySeq, LenProperties
<1>4. \A i \in 1 .. Len(stack) : stack[i] \in Names
  BY <1>2, ElementOfSeq
<1>5. Top \in Names /\ color[Top] = "gray" /\ next[Top] \in Nat \ {0}
  BY <1>2, <1>3, <1>4 DEF RunnerInv, StackInv, Top
<1>6. Len(Deps(Top)) \in Nat /\ DOMAIN Deps(Top) = 1 .. Len(Deps(Top))
  BY <1>1, <1>5, DepsAreNames
<1>7. ASSUME HasNext
      PROVE  next[Top] \in DOMAIN Deps(Top) /\ NextDep \in Names /\ NextDep \in Needs(Top)
  <2>1. next[Top] \in DOMAIN Deps(Top)
    BY <1>5, <1>6, <1>7 DEF HasNext
  <2> QED  BY <1>1, <1>5, <2>1, DepsAreNames, NeedsAreListed DEF NextDep
<1> QED  BY <1>1, <1>3, <1>4, <1>5, <1>6, <1>7

(* The search enters a dependency that it has not seen. *)
LEMMA DescendStep ==
    ASSUME RunnerInv, Descend
    PROVE  RunnerInv'
<1> DEFINE d == NextDep
           t == Top
           n == Len(stack)
<1>1. /\ stage = "visit" /\ stack # <<>> /\ HasNext /\ color[d] = "white"
      /\ stack' = Append(stack, d)
      /\ color' = [color EXCEPT ![d] = "gray"]
      /\ next' = [next EXCEPT ![t] = @ + 1]
      /\ UNCHANGED <<phases, stage, error, cyclePath, indeg, ready, order, at, outputs>>
  BY DEF Descend, HasNext, sortVars, runVars
<1>2. /\ phases \in PhaseList /\ Names' = Names
      /\ color \in [Names -> {"white", "gray", "black"}]
      /\ next \in [Names -> Nat \ {0}]
      /\ stack \in Seq(Names)
  BY <1>1 DEF RunnerInv, TypeOK, Names
<1>3. /\ n \in Nat \ {0} /\ DOMAIN stack = 1 .. n
      /\ \A i \in 1 .. n : stack[i] \in Names
      /\ t \in Names /\ color[t] = "gray" /\ t # d
      /\ next[t] \in DOMAIN Deps(t)
      /\ d \in Names /\ d \in Needs(t)
      /\ t = stack[n] /\ d = Deps(t)[next[t]]
  BY <1>1, TopAndNext DEF Top, NextDep
<1>4. /\ stack' \in Seq(Names) /\ Len(stack') = n + 1 /\ DOMAIN stack' = 1 .. n + 1
      /\ \A i \in 1 .. n : stack'[i] = stack[i]
      /\ stack'[n + 1] = d
  BY <1>1, <1>2, <1>3
<1>5. Black' = Black
  BY <1>1, <1>2, <1>3 DEF Black
<1> HIDE DEF d, t, n
<1>6. TypeOK'
  BY <1>1, <1>2, <1>3, <1>4 DEF RunnerInv, TypeOK
<1>7. CheckedInv'
  BY <1>1 DEF RunnerInv, CheckedInv
<1>8. StackInv'
  <2>1. StackInv
    BY DEF RunnerInv
  <2>2. \A i \in 1 .. n : stack[i] # d
    BY <1>1, <1>3, <2>1 DEF StackInv
  <2>3. \A i, j \in DOMAIN stack' : stack'[i] = stack'[j] => i = j
    BY <1>3, <1>4, <2>1, <2>2 DEF StackInv
  <2>4. \A m \in Names' : color'[m] = "gray" <=> \E i \in DOMAIN stack' : stack'[i] = m
    <3> SUFFICES ASSUME NEW m \in Names
                 PROVE  color'[m] = "gray" <=> \E i \in DOMAIN stack' : stack'[i] = m
      BY <1>2
    <3>1. CASE m = d
      BY <1>1, <1>2, <1>3, <1>4, <3>1
    <3>2. CASE m # d
      <4>1. color'[m] = color[m]
        BY <1>1, <1>2, <3>2
      <4>2. (\E i \in DOMAIN stack' : stack'[i] = m) <=> \E i \in DOMAIN stack : stack[i] = m
        BY <1>3, <1>4, <3>2
      <4> QED  BY <2>1, <4>1, <4>2 DEF StackInv
    <3> QED  BY <3>1, <3>2
  <2>5. (\A i \in 1 .. Len(stack) - 1 : stack[i + 1] \in Needs(stack[i]))'
    <3> SUFFICES ASSUME NEW i \in 1 .. n
                 PROVE  stack'[i + 1] \in Needs(stack[i])
      BY <1>1, <1>3, <1>4 DEF Needs
    <3>1. CASE i = n
      BY <1>3, <1>4, <3>1
    <3>2. CASE i < n
      <4>1. i \in 1 .. n - 1 /\ i + 1 \in 1 .. n
        BY <1>3, <3>2
      <4>2. stack'[i + 1] = stack[i + 1]
        BY <1>4, <4>1
      <4>3. stack[i + 1] \in Needs(stack[i])
        BY <2>1, <4>1 DEF StackInv, n
      <4> QED  BY <4>2, <4>3
    <3> QED  BY <1>3, <3>1, <3>2
  <2>6. \A m \in White' : next'[m] = 1
    BY <1>1, <1>2, <1>3, <2>1 DEF StackInv, White
  <2>7. (\A i \in DOMAIN stack :
           \A j \in 1 .. next[stack[i]] - 1 :
             /\ j \in DOMAIN Deps(stack[i])
             /\ \/ Deps(stack[i])[j] \in Black
                \/ i < Len(stack) /\ Deps(stack[i])[j] = stack[i + 1])'
    <3> SUFFICES ASSUME NEW i \in 1 .. n + 1, NEW j \in 1 .. next'[stack'[i]] - 1
                 PROVE  /\ j \in DOMAIN Deps(stack'[i])
                        /\ \/ Deps(stack'[i])[j] \in Black
                           \/ i < n + 1 /\ Deps(stack'[i])[j] = stack'[i + 1]
      BY <1>1, <1>4, <1>5 DEF Deps
    <3>1. CASE i = n + 1
      <4>1. next'[d] = next[d] /\ next[d] = 1
        BY <1>1, <1>2, <1>3, <2>1 DEF StackInv, White
      <4> QED  BY <1>4, <3>1, <4>1
    <3>2. CASE i = n
      <4>1. stack'[i] = t /\ stack'[i + 1] = d /\ next'[t] = next[t] + 1
        BY <1>1, <1>2, <1>3, <1>4, <3>2
      <4>2. next[t] \in Nat \ {0}
        BY <1>2, <1>3
      <4>3. CASE j = next[t]
        BY <1>3, <3>2, <4>1, <4>3
      <4>4. CASE j # next[t]
        <5>1. j \in 1 .. next[stack[n]] - 1
          BY <1>3, <4>1, <4>2, <4>4
        <5>2. n \in DOMAIN stack /\ ~(n < Len(stack))
          BY <1>3 DEF n
        <5>3. j \in DOMAIN Deps(stack[n]) /\ Deps(stack[n])[j] \in Black
          BY <2>1, <5>1, <5>2 DEF StackInv
        <5> QED  BY <1>3, <4>1, <5>3
      <4> QED  BY <4>3, <4>4
    <3>3. CASE i < n
      <4>1. i \in 1 .. n /\ n \in 1 .. n /\ i + 1 \in 1 .. n
        BY <1>3, <3>3
      <4>2. stack[i] # stack[n]
        BY <1>3, <2>1, <3>3, <4>1 DEF StackInv
      <4>3. stack'[i] = stack[i] /\ stack'[i + 1] = stack[i + 1]
        BY <1>4, <4>1
      <4>4. next'[stack[i]] = next[stack[i]]
        BY <1>1, <1>2, <1>3, <4>1, <4>2
      <4>5. /\ j \in DOMAIN Deps(stack[i])
            /\ \/ Deps(stack[i])[j] \in Black
               \/ Deps(stack[i])[j] = stack[i + 1]
        BY <1>3, <2>1, <4>1, <4>3, <4>4 DEF StackInv
      <4> QED  BY <1>3, <3>3, <4>3, <4>5
    <3> QED  BY <1>3, <3>1, <3>2, <3>3
  <2> QED  BY <2>3, <2>4, <2>5, <2>6, <2>7 DEF StackInv, Deps, Needs
<1>9. BlackInv'
  BY <1>1, <1>5 DEF RunnerInv, BlackInv, Needs
<1>10. SortInv' /\ RunInv' /\ AlphabeticOrder'
  BY <1>1, BeforeSort DEF sortVars, runVars
<1>11. CycleIsReal' /\ NeverUnsorted'
  BY <1>1 DEF RunnerInv, CycleIsReal, NeverUnsorted
<1> QED  BY <1>6, <1>7, <1>8, <1>9, <1>10, <1>11 DEF RunnerInv

(* The search passes a dependency that it has left before. *)
LEMMA PassBlackStep ==
    ASSUME RunnerInv, PassBlack
    PROVE  RunnerInv'
<1> DEFINE t == Top
           n == Len(stack)
<1>1. /\ stage = "visit" /\ stack # <<>> /\ HasNext /\ color[NextDep] = "black"
      /\ next' = [next EXCEPT ![t] = @ + 1]
      /\ UNCHANGED <<phases, stage, error, color, stack, cyclePath,
                     indeg, ready, order, at, outputs>>
  BY DEF PassBlack, HasNext, sortVars, runVars
<1>2. /\ phases \in PhaseList /\ Names' = Names
      /\ next \in [Names -> Nat \ {0}]
  BY <1>1 DEF RunnerInv, TypeOK, Names
<1>3. /\ n \in Nat \ {0} /\ DOMAIN stack = 1 .. n
      /\ \A i \in 1 .. n : stack[i] \in Names
      /\ t \in Names /\ color[t] = "gray"
      /\ next[t] \in DOMAIN Deps(t)
      /\ NextDep \in Names /\ NextDep = Deps(t)[next[t]] /\ t = stack[n]
  BY <1>1, TopAndNext DEF Top, NextDep
<1>4. Black' = Black /\ White' = White /\ NextDep \in Black
  BY <1>1, <1>2, <1>3 DEF Black, White
<1> HIDE DEF t, n
<1>5. TypeOK'
  BY <1>1, <1>2, <1>3 DEF RunnerInv, TypeOK
<1>6. CheckedInv'
  BY <1>1, <1>2, <1>4 DEF RunnerInv, CheckedInv
<1>7. StackInv'
  <2>1. StackInv
    BY DEF RunnerInv
  <2>2. /\ \A i, j \in DOMAIN stack' : stack'[i] = stack'[j] => i = j
        /\ \A m \in Names' : color'[m] = "gray" <=> \E i \in DOMAIN stack' : stack'[i] = m
        /\ (\A i \in 1 .. Len(stack) - 1 : stack[i + 1] \in Needs(stack[i]))'
    BY <1>1, <1>2, <2>1 DEF StackInv, Needs
  <2>3. \A m \in White' : next'[m] = 1
    BY <1>1, <1>2, <1>3, <1>4, <2>1 DEF StackInv, White
  <2>4. (\A i \in DOMAIN stack :
           \A j \in 1 .. next[stack[i]] - 1 :
             /\ j \in DOMAIN Deps(stack[i])
             /\ \/ Deps(stack[i])[j] \in Black
                \/ i < Len(stack) /\ Deps(stack[i])[j] = stack[i + 1])'
    <3> SUFFICES ASSUME NEW i \in 1 .. n, NEW j \in 1 .. next'[stack[i]] - 1
                 PROVE  /\ j \in DOMAIN Deps(stack[i])
                        /\ \/ Deps(stack[i])[j] \in Black
                           \/ i < Len(stack) /\ Deps(stack[i])[j] = stack[i + 1]
      BY <1>1, <1>3, <1>4 DEF Deps
    <3>1. CASE j < next[stack[i]]
      <4>1. j \in 1 .. next[stack[i]] - 1
        BY <1>2, <1>3, <3>1
      <4> QED  BY <1>3, <2>1, <4>1 DEF StackInv
    <3>2. CASE ~(j < next[stack[i]])
      <4>1. stack[i] = t /\ j = next[t]
        BY <1>1, <1>2, <1>3, <3>2
      <4> QED  BY <1>3, <1>4, <4>1
    <3> QED  BY <3>1, <3>2
  <2> QED  BY <2>2, <2>3, <2>4 DEF StackInv, Deps, Needs
<1>8. BlackInv'
  BY <1>1, <1>4 DEF RunnerInv, BlackInv, Needs
<1>9. SortInv' /\ RunInv' /\ AlphabeticOrder'
  BY <1>1, BeforeSort DEF sortVars, runVars
<1>10. CycleIsReal' /\ NeverUnsorted'
  BY <1>1 DEF RunnerInv, CycleIsReal, NeverUnsorted
<1> QED  BY <1>5, <1>6, <1>7, <1>8, <1>9, <1>10 DEF RunnerInv

(* The search leaves a phase whose dependencies it has all followed. *)
LEMMA RetreatStep ==
    ASSUME RunnerInv, Retreat
    PROVE  RunnerInv'
<1> DEFINE t == Top
           n == Len(stack)
<1>1. /\ stage = "visit" /\ stack # <<>> /\ next[t] > Len(Deps(t))
      /\ stack' = SubSeq(stack, 1, n - 1)
      /\ color' = [color EXCEPT ![t] = "black"]
      /\ UNCHANGED <<phases, stage, error, next, cyclePath,
                     indeg, ready, order, at, outputs>>
  BY DEF Retreat, AllFollowed, Blackened, sortVars, runVars
<1>2. /\ phases \in PhaseList /\ Names' = Names
      /\ color \in [Names -> {"white", "gray", "black"}]
      /\ next \in [Names -> Nat \ {0}]
      /\ stack \in Seq(Names)
  BY <1>1 DEF RunnerInv, TypeOK, Names
<1>3. /\ ~HasDuplicate(phases)
      /\ n \in Nat \ {0} /\ DOMAIN stack = 1 .. n
      /\ \A i \in 1 .. n : stack[i] \in Names
      /\ t \in Names /\ color[t] = "gray" /\ t = stack[n]
      /\ next[t] \in Nat \ {0}
      /\ Len(Deps(t)) \in Nat /\ DOMAIN Deps(t) = 1 .. Len(Deps(t))
  BY <1>1, TopAndNext DEF Top
<1>4. /\ stack' \in Seq(Names) /\ Len(stack') = n - 1 /\ DOMAIN stack' = 1 .. n - 1
      /\ \A i \in 1 .. n - 1 : stack'[i] = stack[i]
  <2>1. \A i \in 1 .. n - 1 : stack[i] \in Names
    BY <1>3
  <2>2. /\ stack' \in Seq(Names) /\ Len(stack') = n - 1
        /\ \A i \in 1 .. n - 1 : stack'[i] = stack[i]
    BY <1>1, <1>3, <2>1, SubSeqProperties
  <2> QED  BY <1>3, <2>2, LenProperties
<1>5. Black' = Black \cup {t} /\ t \notin Black
  BY <1>1, <1>2, <1>3 DEF Black
<1>6. Needs(t) \subseteq Black
  <2>1. \A j \in DOMAIN Deps(t) : j \in 1 .. next[stack[n]] - 1
    BY <1>1, <1>3
  <2>2. n \in DOMAIN stack /\ ~(n < Len(stack))
    BY <1>3
  <2>3. \A j \in DOMAIN Deps(t) : Deps(t)[j] \in Black
    BY <1>3, <2>1, <2>2 DEF RunnerInv, StackInv
  <2> QED  BY <1>2, <1>3, <2>3, NeedsAreDeps
<1> HIDE DEF t, n
<1>7. TypeOK'
  BY <1>1, <1>2, <1>3, <1>4 DEF RunnerInv, TypeOK
<1>8. CheckedInv'
  BY <1>1 DEF RunnerInv, CheckedInv
<1>9. StackInv'
  <2>1. StackInv
    BY DEF RunnerInv
  <2>2. \A i, j \in DOMAIN stack' : stack'[i] = stack'[j] => i = j
    BY <1>3, <1>4, <2>1 DEF StackInv
  <2>3. \A m \in Names' : color'[m] = "gray" <=> \E i \in DOMAIN stack' : stack'[i] = m
    <3> SUFFICES ASSUME NEW m \in Names
                 PROVE  color'[m] = "gray" <=> \E i \in 1 .. n - 1 : stack'[i] = m
      BY <1>2, <1>4
    <3>1. CASE m = t
      <4>1. \A i \in 1 .. n - 1 : stack[i] # stack[n]
        BY <1>3, <2>1 DEF StackInv
      <4> QED  BY <1>1, <1>2, <1>3, <1>4, <3>1, <4>1
    <3>2. CASE m # t
      <4>1. color'[m] = color[m]
        BY <1>1, <1>2, <3>2
      <4>2. (\E i \in 1 .. n - 1 : stack'[i] = m) <=> \E i \in 1 .. n : stack[i] = m
        BY <1>3, <1>4, <3>2
      <4> QED  BY <1>3, <2>1, <4>1, <4>2 DEF StackInv
    <3> QED  BY <3>1, <3>2
  <2>4. (\A i \in 1 .. Len(stack) - 1 : stack[i + 1] \in Needs(stack[i]))'
    <3> SUFFICES ASSUME NEW i \in 1 .. n - 2
                 PROVE  stack'[i + 1] \in Needs(stack'[i])
      BY <1>1, <1>3, <1>4 DEF Needs
    <3>1. stack'[i + 1] = stack[i + 1] /\ stack'[i] = stack[i] /\ i \in 1 .. n - 1
      BY <1>3, <1>4
    <3> QED  BY <2>1, <3>1 DEF StackInv, n
  <2>5. \A m \in White' : next'[m] = 1
    BY <1>1, <1>2, <1>3, <2>1 DEF StackInv, White
  <2>6. (\A i \in DOMAIN stack :
           \A j \in 1 .. next[stack[i]] - 1 :
             /\ j \in DOMAIN Deps(stack[i])
             /\ \/ Deps(stack[i])[j] \in Black
                \/ i < Len(stack) /\ Deps(stack[i])[j] = stack[i + 1])'
    <3> SUFFICES ASSUME NEW i \in 1 .. n - 1, NEW j \in 1 .. next[stack'[i]] - 1
                 PROVE  /\ j \in DOMAIN Deps(stack'[i])
                        /\ \/ Deps(stack'[i])[j] \in Black'
                           \/ i < n - 1 /\ Deps(stack'[i])[j] = stack'[i + 1]
      BY <1>1, <1>4 DEF Deps
    <3>1. stack'[i] = stack[i] /\ i \in 1 .. n
      BY <1>3, <1>4
    <3>2. /\ j \in DOMAIN Deps(stack[i])
          /\ \/ Deps(stack[i])[j] \in Black
             \/ Deps(stack[i])[j] = stack[i + 1]
      BY <1>3, <2>1, <3>1 DEF StackInv
    <3>3. CASE i = n - 1
      BY <1>3, <1>5, <3>1, <3>2, <3>3
    <3>4. CASE i < n - 1
      <4>1. stack'[i + 1] = stack[i + 1]
        BY <1>3, <1>4, <3>4
      <4> QED  BY <1>5, <3>1, <3>2, <3>4, <4>1
    <3> QED  BY <1>3, <3>3, <3>4
  <2> QED  BY <2>2, <2>3, <2>4, <2>5, <2>6 DEF StackInv, Deps, Needs
<1>10. BlackInv'
  <2>1. BlackInv
    BY DEF RunnerInv
  <2>2. \A m \in Black' : Needs(m) \subseteq Black'
    BY <1>5, <1>6, <2>1 DEF BlackInv
  <2>3. ASSUME NEW S \in SUBSET Black', S # {}
        PROVE  \E m \in S : Needs(m) \cap S = {}
    <3>1. CASE S \subseteq {t}
      BY <1>5, <1>6, <2>3, <3>1
    <3>2. CASE ~(S \subseteq {t})
      <4>1. S \ {t} \in SUBSET Black /\ S \ {t} # {}
        BY <1>5, <2>3, <3>2
      <4>2. PICK m \in S \ {t} : Needs(m) \cap (S \ {t}) = {}
        BY <2>1, <4>1 DEF BlackInv
      <4>3. t \notin Needs(m)
        BY <1>5, <2>1, <4>1 DEF BlackInv
      <4> QED  BY <4>2, <4>3
    <3> QED  BY <3>1, <3>2
  <2> QED  BY <1>1, <2>2, <2>3 DEF BlackInv, Needs
<1>11. SortInv' /\ RunInv' /\ AlphabeticOrder'
  BY <1>1, BeforeSort DEF sortVars, runVars
<1>12. CycleIsReal' /\ NeverUnsorted'
  BY <1>1 DEF RunnerInv, CycleIsReal, NeverUnsorted
<1> QED  BY <1>7, <1>8, <1>9, <1>10, <1>11, <1>12 DEF RunnerInv

(* The search meets a phase that it has not left. *)
LEMMA CloseCycleStep ==
    ASSUME RunnerInv, CloseCycle
    PROVE  RunnerInv'
<1> DEFINE d == NextDep
           n == Len(stack)
           a == CHOOSE i \in DOMAIN stack :
                  stack[i] = d /\ \A j \in DOMAIN stack : stack[j] = d => i <= j
           part == SubSeq(stack, a, n)
<1>1. /\ stage = "visit" /\ stack # <<>> /\ HasNext /\ color[d] = "gray"
      /\ cyclePath' = Append(part, d)
      /\ stage' = "rejected" /\ error' = "cycle"
      /\ UNCHANGED <<phases, color, stack, next, indeg, ready, order, at, outputs>>
  BY DEF CloseCycle, CycleTo, Reject, HasNext, sortVars, runVars
<1>2. phases \in PhaseList /\ Names' = Names /\ stack \in Seq(Names)
  BY <1>1 DEF RunnerInv, TypeOK, Names
<1>3. /\ ~HasDuplicate(phases) /\ ~HasMissing(phases)
      /\ n \in Nat \ {0} /\ DOMAIN stack = 1 .. n
      /\ \A i \in 1 .. n : stack[i] \in Names
      /\ d \in Names /\ d \in Needs(stack[n])
  BY <1>1, TopAndNext DEF Top
<1>4. a \in 1 .. n /\ stack[a] = d
  <2>1. PICK i \in DOMAIN stack : stack[i] = d
    BY <1>1, <1>3 DEF RunnerInv, StackInv
  <2>2. \A j \in DOMAIN stack : stack[j] = d => i <= j
    BY <1>3, <2>1 DEF RunnerInv, StackInv
  <2>3. a \in DOMAIN stack /\ stack[a] = d
    BY <2>1, <2>2
  <2> QED  BY <1>3, <2>3
<1> HIDE DEF a, d, n
<1>5. /\ part \in Seq(Names) /\ Len(part) = n - a + 1
      /\ \A i \in 1 .. n - a + 1 : part[i] = stack[a + i - 1]
  <2>1. \A i \in a .. n : stack[i] \in Names
    BY <1>3, <1>4
  <2>2. a \in Int /\ n \in Int /\ a <= n
    BY <1>3, <1>4
  <2> QED  BY <2>1, <2>2, SubSeqProperties
<1> HIDE DEF part
<1>6. /\ cyclePath' \in Seq(Names) /\ Len(cyclePath') = n - a + 2
      /\ \A i \in 1 .. n - a + 1 : cyclePath'[i] = stack[a + i - 1]
      /\ cyclePath'[n - a + 2] = d
  BY <1>1, <1>3, <1>4, <1>5
<1>7. TypeOK'
  BY <1>1, <1>2, <1>6 DEF RunnerInv, TypeOK, Stage
<1>8. CheckedInv'
  BY <1>1, <1>3 DEF CheckedInv
<1>9. StackInv' /\ BlackInv'
  BY <1>1, <1>2 DEF RunnerInv, StackInv, BlackInv, Names, White, Black, Needs, Deps
<1>10. SortInv' /\ RunInv' /\ AlphabeticOrder'
  BY <1>1, BeforeSort DEF sortVars, runVars
<1>11. CycleIsReal'
  <2>1. Len(cyclePath') > 1 /\ cyclePath'[1] = cyclePath'[Len(cyclePath')]
    BY <1>3, <1>4, <1>6
  <2>2. \A i \in 1 .. Len(cyclePath') - 1 : cyclePath'[i + 1] \in Needs(cyclePath'[i])
    <3> SUFFICES ASSUME NEW i \in 1 .. n - a + 1
                 PROVE  cyclePath'[i + 1] \in Needs(cyclePath'[i])
      BY <1>3, <1>4, <1>6
    <3>1. CASE i = n - a + 1
      <4>1. cyclePath'[i] = stack[n] /\ cyclePath'[i + 1] = d
        BY <1>3, <1>4, <1>6, <3>1
      <4> QED  BY <1>3, <4>1
    <3>2. CASE i < n - a + 1
      <4>1. cyclePath'[i] = stack[a + i - 1] /\ cyclePath'[i + 1] = stack[a + i - 1 + 1]
        BY <1>3, <1>4, <1>6, <3>2
      <4>2. a + i - 1 \in 1 .. n - 1
        BY <1>3, <1>4, <3>2
      <4>3. stack[a + i - 1 + 1] \in Needs(stack[a + i - 1])
        BY <4>2 DEF RunnerInv, StackInv, n
      <4> QED  BY <4>1, <4>3
    <3> QED  BY <1>3, <1>4, <3>1, <3>2
  <2> QED  BY <1>1, <2>1, <2>2 DEF CycleIsReal, Needs
<1>12. NeverUnsorted'
  BY <1>1 DEF NeverUnsorted
<1> QED  BY <1>7, <1>8, <1>9, <1>10, <1>11, <1>12 DEF RunnerInv

-----------------------------------------------------------------------------
(* The sort.                                                               *)

(* What the sort and the run start from. *)
LEMMA ListIsSound ==
    ASSUME RunnerInv, stage \in {"sort", "run", "failed", "done"}
    PROVE  /\ phases \in PhaseList /\ ~HasDuplicate(phases) /\ ~HasMissing(phases)
           /\ Len(order) \in Nat /\ DOMAIN order = 1 .. Len(order)
           /\ order \in Seq(Names)
           /\ \A i \in 1 .. Len(order) : order[i] \in Names
           /\ Emitted \subseteq Names
<1>1. phases \in PhaseList /\ ~HasDuplicate(phases) /\ ~HasMissing(phases)
  BY DEF RunnerInv, TypeOK, CheckedInv
<1>2. order \in Seq(Names)
  BY DEF RunnerInv, TypeOK
<1>3. Len(order) \in Nat /\ DOMAIN order = 1 .. Len(order)
  BY <1>2, LenProperties
<1>4. \A i \in 1 .. Len(order) : order[i] \in Names
  BY <1>2, ElementOfSeq
<1> QED  BY <1>1, <1>2, <1>3, <1>4 DEF Emitted

(* The sort counts every dependency of every phase. *)
LEMMA StartSortStep ==
    ASSUME RunnerInv, StartSort
    PROVE  RunnerInv'
<1>1. /\ stage = "visit" /\ stack = <<>> /\ White = {} /\ stage' = "sort"
      /\ indeg' = [n \in Names |-> Len(Deps(n))]
      /\ ready' = {n \in Names : Deps(n) = <<>>}
      /\ UNCHANGED <<phases, error, color, stack, next, cyclePath, order, at, outputs>>
  BY DEF StartSort, Counted, searchVars, runVars
<1>2. /\ phases \in PhaseList /\ ~HasDuplicate(phases) /\ ~HasMissing(phases)
      /\ Names' = Names /\ order = <<>> /\ at = 0
      /\ color \in [Names -> {"white", "gray", "black"}]
  BY <1>1 DEF RunnerInv, TypeOK, CheckedInv, SortInv, Names
<1>3. \A n \in Names : /\ Len(Deps(n)) \in Nat /\ DOMAIN Deps(n) = 1 .. Len(Deps(n))
                       /\ Deps(n) \in Seq(Name)
                       /\ Needs(n) = {Deps(n)[j] : j \in DOMAIN Deps(n)}
  BY <1>2, DepsAreNames, NeedsAreDeps
<1>4. Emitted' = {} /\ Len(order) = 0 /\ DOMAIN order = {}
  BY <1>1, <1>2 DEF Emitted
<1>5. TypeOK'
  BY <1>1, <1>2, <1>3 DEF RunnerInv, TypeOK, Stage
<1>6. CheckedInv'
  BY <1>1, <1>2 DEF RunnerInv, CheckedInv
<1>7. StackInv' /\ BlackInv'
  BY <1>1 DEF RunnerInv, StackInv, BlackInv, Names, White, Black, Needs, Deps
<1>8. SortInv'
  <2>1. Black' = Names
    BY <1>1, <1>2 DEF RunnerInv, StackInv, White, Black
  <2>2. ASSUME NEW n \in Names
        PROVE  indeg'[n] = Cardinality({i \in DOMAIN Deps(n) : Deps(n)[i] \notin Emitted'})
    <3>1. {i \in DOMAIN Deps(n) : Deps(n)[i] \notin Emitted'} = 1 .. Len(Deps(n))
      BY <1>3, <1>4
    <3>2. Cardinality(1 .. Len(Deps(n))) = Len(Deps(n))
      BY <1>3, FS_Interval
    <3> QED  BY <1>1, <3>1, <3>2
  <2>3. ready' = {n \in Names \ Emitted' : Needs(n) \subseteq Emitted'}
    <3>1. \A n \in Names : Deps(n) = <<>> <=> Needs(n) = {}
      <4> SUFFICES ASSUME NEW n \in Names PROVE Deps(n) = <<>> <=> Needs(n) = {}
        OBVIOUS
      <4>1. ASSUME Deps(n) # <<>> PROVE Deps(n)[1] \in Needs(n)
        BY <1>3, <4>1, EmptySeq
      <4>2. ASSUME Deps(n) = <<>> PROVE Needs(n) = {}
        BY <1>3, <4>2
      <4> QED  BY <4>1, <4>2
    <3> QED  BY <1>1, <1>4, <3>1
  <2> QED  BY <1>1, <1>2, <1>4, <2>1, <2>2, <2>3 DEF SortInv, Outstanding, Needs, Deps
<1>9. RunInv'
  BY <1>1, <1>2 DEF RunnerInv, RunInv
<1>10. CycleIsReal' /\ NeverUnsorted' /\ AlphabeticOrder'
  BY <1>1 DEF RunnerInv, CycleIsReal, NeverUnsorted, AlphabeticOrder, Names
<1> QED  BY <1>5, <1>6, <1>7, <1>8, <1>9, <1>10 DEF RunnerInv

(* The next phase of the order, its consumers' counts and the ready set. *)
LEMMA EmitStep ==
    ASSUME RunnerInv, Emit
    PROVE  RunnerInv'
<1> DEFINE n == Least(ready)
           l == Len(order)
<1>1. /\ stage = "sort" /\ ready # {}
      /\ order' = Append(order, n)
      /\ indeg' = [m \in Names |-> indeg[m] - Uses(m, n)]
      /\ ready' = (ready \ {n}) \cup Unblocked(n)
      /\ UNCHANGED <<phases, stage, error, color, stack, next, cyclePath, at, outputs>>
  BY DEF Emit, searchVars, runVars
<1>2. /\ phases \in PhaseList /\ ~HasDuplicate(phases) /\ ~HasMissing(phases)
      /\ l \in Nat /\ DOMAIN order = 1 .. l /\ order \in Seq(Names)
      /\ \A i \in 1 .. l : order[i] \in Names
      /\ Names' = Names
  BY <1>1, ListIsSound DEF Names
<1>3. /\ Black = Names
      /\ \A i, j \in 1 .. l : order[i] = order[j] => i = j
      /\ \A i \in 1 .. l : Needs(order[i]) \subseteq {order[j] : j \in 1 .. i - 1}
      /\ \A m \in Names : indeg[m] = Cardinality(Outstanding(m))
      /\ ready = {m \in Names \ Emitted : Needs(m) \subseteq Emitted}
      /\ at = 0
  BY <1>1, <1>2 DEF RunnerInv, SortInv, RunInv
<1>4. n \in ready
  <2>1. ready \subseteq Name
    BY <1>2, <1>3, ListParts
  <2> QED  BY <1>1, <2>1, LeastIsIn
<1>5. n \in Names /\ n \notin Emitted /\ Needs(n) \subseteq Emitted
  BY <1>3, <1>4
<1> HIDE DEF n
<1>6. /\ order' \in Seq(Names) /\ Len(order') = l + 1 /\ DOMAIN order' = 1 .. l + 1
      /\ \A i \in 1 .. l : order'[i] = order[i]
      /\ order'[l + 1] = n
  BY <1>1, <1>2, <1>5
<1> HIDE DEF l
<1>7. Emitted' = Emitted \cup {n} /\ Emitted = {order[j] : j \in 1 .. l}
  BY <1>2, <1>6 DEF Emitted
<1>8. \A m \in Names : /\ DOMAIN Deps(m) = 1 .. Len(Deps(m)) /\ Len(Deps(m)) \in Nat
                       /\ Needs(m) = {Deps(m)[j] : j \in DOMAIN Deps(m)}
  BY <1>2, DepsAreNames, NeedsAreDeps
<1>9. ASSUME NEW m \in Names
      PROVE  /\ indeg'[m] \in Nat
             /\ indeg'[m] = Cardinality({i \in DOMAIN Deps(m) : Deps(m)[i] \notin Emitted'})
             /\ indeg'[m] = 0 <=> Needs(m) \subseteq Emitted'
             /\ Uses(m, n) \in Nat
             /\ Uses(m, n) > 0 <=> n \in Needs(m)
  <2> DEFINE used  == {i \in DOMAIN Deps(m) : Deps(m)[i] = n}
             after == {i \in DOMAIN Deps(m) : Deps(m)[i] \notin Emitted'}
  <2>1. IsFiniteSet(DOMAIN Deps(m))
    BY <1>8, FS_Interval
  <2>2. IsFiniteSet(used) /\ IsFiniteSet(after) /\ IsFiniteSet(Outstanding(m))
    BY <2>1, FS_Subset DEF Outstanding
  <2>3. after = Outstanding(m) \ used /\ Outstanding(m) \cap used = used
    BY <1>5, <1>7 DEF Outstanding
  <2>4. Cardinality(after) = Cardinality(Outstanding(m)) - Cardinality(used)
    <3> HIDE DEF used, after
    <3>1. Cardinality(Outstanding(m) \ used)
            = Cardinality(Outstanding(m)) - Cardinality(Outstanding(m) \cap used)
      BY <2>2, FS_Difference
    <3> QED  BY <2>3, <3>1
  <2>5. indeg'[m] = Cardinality(after)
    BY <1>1, <1>3, <2>4 DEF Uses
  <2>6. Cardinality(after) \in Nat /\ Cardinality(used) \in Nat
    BY <2>2, FS_CardinalityType
  <2>7. (Cardinality(after) = 0 <=> after = {}) /\ (Cardinality(used) = 0 <=> used = {})
    BY <2>2, FS_EmptySet
  <2>8. (after = {} <=> Needs(m) \subseteq Emitted') /\ (used # {} <=> n \in Needs(m))
    <3>1. Needs(m) = {Deps(m)[j] : j \in DOMAIN Deps(m)}
      BY <1>8
    <3>2. after = {} <=> Needs(m) \subseteq Emitted'
      BY <3>1
    <3>3. used # {} <=> n \in Needs(m)
      BY <3>1
    <3> QED  BY <3>2, <3>3
  <2>9. Uses(m, n) = Cardinality(used)
    BY DEF Uses
  <2> HIDE DEF used, after
  <2>10. Uses(m, n) > 0 <=> n \in Needs(m)
    BY <2>6, <2>7, <2>8, <2>9
  <2> QED  BY <2>5, <2>6, <2>7, <2>8, <2>9, <2>10 DEF after
<1>10. \A m \in Names : indeg'[m] = indeg[m] - Uses(m, n)
  BY <1>1
<1>11. Unblocked(n) = {m \in Names : n \in Needs(m) /\ Needs(m) \subseteq Emitted'}
  BY <1>9, <1>10 DEF Unblocked
<1>12. ready' = {m \in Names \ Emitted' : Needs(m) \subseteq Emitted'}
  <2>1. ASSUME NEW m \in Names, m \in Emitted PROVE Needs(m) \subseteq Emitted
    <3>1. PICK i \in 1 .. l : order[i] = m
      BY <1>7, <2>1
    <3>2. Needs(m) \subseteq {order[j] : j \in 1 .. i - 1}
      BY <1>3, <3>1
    <3>3. \A j \in 1 .. i - 1 : j \in 1 .. l
      BY <1>2, <3>1
    <3> QED  BY <1>7, <3>2, <3>3
  <2>2. ASSUME NEW m \in ready'
        PROVE  m \in Names /\ m \notin Emitted' /\ Needs(m) \subseteq Emitted'
    <3>1. CASE m \in ready \ {n}
      BY <1>3, <1>7, <3>1
    <3>2. CASE m \in Unblocked(n)
      BY <1>5, <1>7, <1>11, <2>1, <3>2
    <3> QED  BY <1>1, <2>2, <3>1, <3>2
  <2>3. ASSUME NEW m \in Names, m \notin Emitted', Needs(m) \subseteq Emitted'
        PROVE  m \in ready'
    <3>1. CASE n \in Needs(m)
      BY <1>1, <1>11, <2>3, <3>1
    <3>2. CASE n \notin Needs(m)
      BY <1>1, <1>3, <1>7, <2>3, <3>2
    <3> QED  BY <3>1, <3>2
  <2> QED  BY <2>2, <2>3
<1>13. TypeOK'
  <2>1. indeg' \in [Names -> Nat]
    BY <1>1, <1>9, <1>10
  <2>2. ready' \subseteq Names
    BY <1>12
  <2> QED  BY <1>1, <1>2, <1>6, <2>1, <2>2 DEF RunnerInv, TypeOK
<1>14. CheckedInv'
  BY <1>1 DEF RunnerInv, CheckedInv
<1>15. StackInv' /\ BlackInv'
  BY <1>1 DEF RunnerInv, StackInv, BlackInv, Names, White, Black, Needs, Deps
<1>16. SortInv'
  <2>1. (Black = Names)'
    BY <1>1, <1>2, <1>3 DEF Black
  <2>2. \A i, j \in 1 .. l + 1 : order'[i] = order'[j] => i = j
    BY <1>2, <1>3, <1>5, <1>6, <1>7
  <2>3. ASSUME NEW i \in 1 .. l + 1
        PROVE  Needs(order'[i]) \subseteq {order'[j] : j \in 1 .. i - 1}
    <3>1. CASE i = l + 1
      BY <1>2, <1>5, <1>6, <1>7, <3>1
    <3>2. CASE i # l + 1
      <4>1. i \in 1 .. l /\ \A j \in 1 .. i - 1 : j \in 1 .. l
        BY <1>2, <3>2
      <4>2. {order'[j] : j \in 1 .. i - 1} = {order[j] : j \in 1 .. i - 1}
        BY <1>6, <4>1
      <4> QED  BY <1>3, <1>6, <4>1, <4>2
    <3> QED  BY <3>1, <3>2
  <2>4. (\A i \in DOMAIN order : Needs(order[i]) \subseteq {order[j] : j \in 1 .. i - 1})'
    BY <1>1, <1>6, <2>3 DEF Needs
  <2>5. (\A m \in Names : indeg[m] = Cardinality(Outstanding(m)))'
    BY <1>1, <1>2, <1>9 DEF Outstanding, Deps
  <2>6. (ready = {m \in Names \ Emitted : Needs(m) \subseteq Emitted})'
    BY <1>1, <1>2, <1>12 DEF Needs
  <2>7. (\A i, j \in DOMAIN order : order[i] = order[j] => i = j)'
    BY <1>6, <2>2
  <2>8. stage' = "sort"
    BY <1>1
  <2> QED  BY <2>1, <2>4, <2>5, <2>6, <2>7, <2>8 DEF SortInv
<1>17. RunInv'
  BY <1>1, <1>2, <1>3, <1>6 DEF RunnerInv, RunInv
<1>18. AlphabeticOrder'
  <2> SUFFICES ASSUME NEW i \in 1 .. l + 1
               PROVE  order'[i] = Least({m \in Names \ {order'[j] : j \in 1 .. i - 1} :
                                           Needs(m) \subseteq {order'[j] : j \in 1 .. i - 1}})
    BY <1>1, <1>2, <1>6 DEF AlphabeticOrder, Needs
  <2>1. \A j \in 1 .. i - 1 : j \in 1 .. l
    BY <1>2
  <2>2. {order'[j] : j \in 1 .. i - 1} = {order[j] : j \in 1 .. i - 1}
    BY <1>6, <2>1
  <2>3. CASE i = l + 1
    <3>1. {order[j] : j \in 1 .. i - 1} = Emitted
      BY <1>2, <1>7, <2>3
    <3> QED  BY <1>3, <1>6, <2>2, <2>3, <3>1 DEF n
  <2>4. CASE i # l + 1
    <3>1. i \in 1 .. l
      BY <1>2, <2>4
    <3>2. order[i] = Least({m \in Names \ {order[j] : j \in 1 .. i - 1} :
                              Needs(m) \subseteq {order[j] : j \in 1 .. i - 1}})
      BY <1>2, <3>1 DEF RunnerInv, AlphabeticOrder, Needs
    <3> QED  BY <1>6, <2>2, <3>1, <3>2
  <2> QED  BY <2>3, <2>4
<1>19. CycleIsReal' /\ NeverUnsorted'
  BY <1>1 DEF RunnerInv, CycleIsReal, NeverUnsorted
<1> QED  BY <1>13, <1>14, <1>15, <1>16, <1>17, <1>18, <1>19 DEF RunnerInv

(* Nothing is ready only when everything has been emitted: of the phases left *)
(* one would need none of the others.                                         *)
LEMMA AllEmitted ==
    ASSUME RunnerInv, stage = "sort", ready = {}
    PROVE  Emitted = Names
<1> DEFINE left == Names \ Emitted
<1>1. /\ phases \in PhaseList /\ ~HasDuplicate(phases) /\ ~HasMissing(phases)
      /\ Emitted \subseteq Names
  BY ListIsSound
<1>2. /\ Black = Names
      /\ ready = {m \in Names \ Emitted : Needs(m) \subseteq Emitted}
  BY DEF RunnerInv, SortInv
<1>3. CASE left = {}
  BY <1>1, <1>3
<1>4. CASE left # {}
  <2>1. left \subseteq Black
    BY <1>2
  <2>2. \A S \in SUBSET Black : S # {} => \E m \in S : Needs(m) \cap S = {}
    BY DEF RunnerInv, BlackInv
  <2>3. PICK m \in left : Needs(m) \cap left = {}
    BY <1>4, <2>1, <2>2
  <2>4. Needs(m) \subseteq Names
    BY <1>1, NeedsAreListed
  <2>5. m \in ready
    BY <1>2, <2>3, <2>4
  <2> QED  BY <2>5
<1> QED  BY <1>3, <1>4

(* A list without repetitions is as long as it has elements. *)
LEMMA LengthIsCardinality ==
    ASSUME NEW S, NEW k \in Nat, NEW f,
           S = {f[i] : i \in 1 .. k},
           \A i, j \in 1 .. k : f[i] = f[j] => i = j
    PROVE  Cardinality(S) = k
<1> DEFINE g == [i \in 1 .. k |-> f[i]]
<1>1. g \in Bijection(1 .. k, S)
  BY DEF Bijection, Injection, Surjection, IsInjective
<1>2. ExistsBijection(1 .. k, S)
  BY <1>1 DEF ExistsBijection
<1> QED  BY <1>2, FS_CountingElements

(* The order is complete, so the rejection behind the sort is dead code. *)
LEMMA OrderIsComplete ==
    ASSUME RunnerInv, stage = "sort", ready = {}
    PROVE  Len(order) = Len(phases)
<1>1. /\ phases \in PhaseList /\ ~HasDuplicate(phases)
      /\ Len(order) \in Nat /\ DOMAIN order = 1 .. Len(order)
      /\ Emitted = Names
  BY ListIsSound, AllEmitted
<1>2. Len(phases) \in Nat /\ DOMAIN phases = 1 .. Len(phases)
  BY <1>1, ListParts
<1>3. Cardinality(Names) = Len(order)
  <2>1. Names = {order[i] : i \in 1 .. Len(order)}
    BY <1>1 DEF Emitted
  <2>2. \A i, j \in 1 .. Len(order) : order[i] = order[j] => i = j
    BY <1>1 DEF RunnerInv, SortInv
  <2> QED  BY <1>1, <2>1, <2>2, LengthIsCardinality
<1>4. Cardinality(Names) = Len(phases)
  <2> DEFINE f == [i \in 1 .. Len(phases) |-> phases[i].name]
  <2>1. Names = {f[i] : i \in 1 .. Len(phases)}
    BY <1>2 DEF Names, NamesIn
  <2>2. \A i, j \in 1 .. Len(phases) : f[i] = f[j] => i = j
    BY <1>1, <1>2 DEF HasDuplicate
  <2>3. Len(phases) \in Nat
    BY <1>2
  <2> HIDE DEF f
  <2> QED  BY <2>1, <2>2, <2>3, LengthIsCardinality
<1> QED  BY <1>3, <1>4

(* What is said of the order alone stays true while it does not change. *)
LEMMA OrderKeeps ==
    ASSUME RunnerInv, stage \in {"sort", "run", "failed", "done"},
           stage' \in {"sort", "run", "failed", "done"},
           UNCHANGED <<phases, color, indeg, ready, order>>
    PROVE  SortInv' /\ AlphabeticOrder'
<1>1. Names' = Names /\ Emitted' = Emitted /\ Black' = Black /\ Black = Names
  BY DEF RunnerInv, SortInv, Names, Emitted, Black
<1>2. (\A i, j \in DOMAIN order : order[i] = order[j] => i = j)'
  BY DEF RunnerInv, SortInv
<1>3. (\A i \in DOMAIN order : Needs(order[i]) \subseteq {order[j] : j \in 1 .. i - 1})'
  BY DEF RunnerInv, SortInv, Needs
<1>4. (\A n \in Names : indeg[n] = Cardinality(Outstanding(n)))'
  BY <1>1 DEF RunnerInv, SortInv, Outstanding, Deps
<1>5. (ready = {n \in Names \ Emitted : Needs(n) \subseteq Emitted})'
  BY <1>1 DEF RunnerInv, SortInv, Needs
<1>6. SortInv'
  BY <1>1, <1>2, <1>3, <1>4, <1>5 DEF SortInv
<1>7. AlphabeticOrder'
  BY <1>1 DEF RunnerInv, AlphabeticOrder
<1> QED  BY <1>6, <1>7

(* The sort ends with all phases. *)
LEMMA EndSortStep ==
    ASSUME RunnerInv, EndSort
    PROVE  RunnerInv'
<1>1. /\ stage = "sort" /\ ready = {} /\ stage' = "run"
      /\ UNCHANGED <<phases, error, color, stack, next, cyclePath,
                     indeg, ready, order, at, outputs>>
  BY OrderIsComplete DEF EndSort, searchVars, sortVars, runVars
<1>2. Emitted' = Names'
  BY <1>1, AllEmitted DEF Emitted, Names
<1>3. TypeOK' /\ CheckedInv'
  BY <1>1 DEF RunnerInv, TypeOK, Stage, CheckedInv, Names
<1>4. StackInv' /\ BlackInv'
  BY <1>1 DEF RunnerInv, StackInv, BlackInv, Names, White, Black, Needs, Deps
<1>5. SortInv' /\ AlphabeticOrder'
  BY <1>1, OrderKeeps
<1>6. RunInv'
  BY <1>1, <1>2 DEF RunnerInv, RunInv
<1>7. CycleIsReal' /\ NeverUnsorted'
  BY <1>1 DEF RunnerInv, CycleIsReal, NeverUnsorted
<1> QED  BY <1>3, <1>4, <1>5, <1>6, <1>7 DEF RunnerInv

-----------------------------------------------------------------------------
(* The run.                                                                *)

(* What no step of the run touches. *)
LEMMA RunKeeps ==
    ASSUME RunnerInv, stage = "run", stage' \in {"run", "failed", "done"},
           UNCHANGED <<phases, error, searchVars, sortVars>>
    PROVE  /\ CheckedInv' /\ StackInv' /\ BlackInv' /\ SortInv'
           /\ CycleIsReal' /\ NeverUnsorted' /\ AlphabeticOrder'
           /\ Emitted' = Names' /\ Names' = Names
<1>1. UNCHANGED <<phases, error, color, stack, next, cyclePath, indeg, ready, order>>
  BY DEF searchVars, sortVars
<1>2. CheckedInv' /\ StackInv' /\ BlackInv'
  BY <1>1 DEF RunnerInv, CheckedInv, StackInv, BlackInv, Names, White, Black, Needs, Deps
<1>3. SortInv' /\ AlphabeticOrder'
  BY <1>1, OrderKeeps
<1>4. CycleIsReal' /\ NeverUnsorted'
  BY <1>1 DEF RunnerInv, CycleIsReal, NeverUnsorted
<1>5. Emitted' = Names' /\ Names' = Names
  BY <1>1 DEF RunnerInv, RunInv, Emitted, Names
<1> QED  BY <1>2, <1>3, <1>4, <1>5

(* The order, once the run has begun. *)
LEMMA RunIsSound ==
    ASSUME RunnerInv, stage = "run"
    PROVE  /\ Len(order) \in Nat /\ DOMAIN order = 1 .. Len(order)
           /\ \A i \in 1 .. Len(order) : order[i] \in Names
           /\ at \in Nat /\ at <= Len(order)
           /\ ~Ended => at + 1 \in 1 .. Len(order) /\ Current \in Names
<1>1. order \in Seq(Names) /\ at \in Nat /\ at <= Len(order)
  BY DEF RunnerInv, TypeOK, RunInv
<1>2. Len(order) \in Nat /\ DOMAIN order = 1 .. Len(order)
  BY <1>1, LenProperties
<1>3. \A i \in 1 .. Len(order) : order[i] \in Names
  BY <1>1, ElementOfSeq
<1>4. ASSUME at # Len(order) PROVE at + 1 \in 1 .. Len(order)
  <2>1. at \in Nat /\ Len(order) \in Nat /\ at <= Len(order)
    BY <1>1, <1>2
  <2> QED  BY <1>4, <2>1
<1> QED  BY <1>1, <1>2, <1>3, <1>4 DEF Ended, Current

(* One phase more. *)
LEMMA RunPhaseStep ==
    ASSUME RunnerInv, RunPhase
    PROVE  RunnerInv'
<1>1. /\ stage = "run" /\ stage' = "run" /\ ~Ended
      /\ at' = at + 1 /\ outputs' = outputs \cup {Current}
      /\ UNCHANGED <<phases, error, searchVars, sortVars>>
  BY DEF RunPhase
<1>2. /\ CheckedInv' /\ StackInv' /\ BlackInv' /\ SortInv'
      /\ CycleIsReal' /\ NeverUnsorted' /\ AlphabeticOrder'
      /\ Emitted' = Names' /\ Names' = Names
  BY <1>1, RunKeeps
<1>3. /\ Len(order) \in Nat /\ DOMAIN order = 1 .. Len(order)
      /\ at \in Nat /\ at + 1 \in 1 .. Len(order) /\ Current \in Names
  BY <1>1, RunIsSound
<1>4. TypeOK'
  BY <1>1, <1>2, <1>3 DEF RunnerInv, TypeOK, searchVars, sortVars
<1>5. outputs' = {order[i] : i \in 1 .. at + 1}
  <2>1. outputs = {order[i] : i \in 1 .. at}
    BY DEF RunnerInv, RunInv
  <2>2. 1 .. at + 1 = (1 .. at) \cup {at + 1}
    BY <1>3
  <2> QED  BY <1>1, <2>1, <2>2 DEF Current
<1>6. RunInv'
  BY <1>1, <1>2, <1>3, <1>5 DEF RunInv, sortVars
<1> QED  BY <1>2, <1>4, <1>6 DEF RunnerInv

(* The run ends, with an error or with all outputs. *)
LEMMA RunEndsStep ==
    ASSUME RunnerInv, ThrowPhase \/ Return
    PROVE  RunnerInv'
<1>1. /\ stage = "run" /\ stage' \in {"failed", "done"}
      /\ stage' = "done" => Ended
      /\ UNCHANGED <<phases, error, searchVars, sortVars, runVars>>
  BY DEF ThrowPhase, Return
<1>2. /\ CheckedInv' /\ StackInv' /\ BlackInv' /\ SortInv'
      /\ CycleIsReal' /\ NeverUnsorted' /\ AlphabeticOrder'
      /\ Emitted' = Names' /\ Names' = Names
  BY <1>1, RunKeeps
<1>3. TypeOK'
  BY <1>1, <1>2 DEF RunnerInv, TypeOK, Stage, searchVars, sortVars, runVars
<1>4. RunInv'
  BY <1>1, <1>2 DEF RunnerInv, RunInv, Ended, sortVars, runVars
<1> QED  BY <1>2, <1>3, <1>4 DEF RunnerInv

-----------------------------------------------------------------------------
(* The theorems.                                                           *)

(* Every step keeps the invariant. *)
LEMMA NextRunnerInv == RunnerInv /\ [Next]_vars => RunnerInv'
<1> SUFFICES ASSUME RunnerInv, [Next]_vars PROVE RunnerInv'
  OBVIOUS
<1>1. CASE Next
  BY <1>1, CheckStep, VisitRootStep, CloseCycleStep, DescendStep, PassBlackStep,
     RetreatStep, StartSortStep, EmitStep, EndSortStep, RunPhaseStep, RunEndsStep
  DEF Next
<1>2. CASE UNCHANGED vars
  <2>1. UNCHANGED <<phases, stage, error, color, stack, next, cyclePath,
                    indeg, ready, order, at, outputs>>
    BY <1>2 DEF vars, searchVars, sortVars, runVars
  <2>2. (TypeOK /\ CheckedInv /\ StackInv /\ BlackInv)'
    <3>1. Names' = Names /\ White' = White
      BY <2>1 DEF Names, White
    <3>2. TypeOK'
      BY <2>1, <3>1 DEF RunnerInv, TypeOK
    <3>3. CheckedInv'
      BY <2>1, <3>1 DEF RunnerInv, CheckedInv
    <3>4. StackInv'
      BY <2>1 DEF RunnerInv, StackInv, Names, White, Black, Needs, Deps
    <3>5. BlackInv'
      BY <2>1 DEF RunnerInv, BlackInv, Names, White, Black, Needs, Deps
    <3> QED  BY <3>2, <3>3, <3>4, <3>5
  <2>3. (SortInv /\ AlphabeticOrder)'
    <3>1. CASE stage \in {"sort", "run", "failed", "done"}
      BY <2>1, <3>1, OrderKeeps
    <3>2. CASE stage \in {"check", "visit"}
      BY <2>1, <3>2, BeforeSort DEF sortVars, runVars
    <3>3. CASE stage = "rejected"
      BY <2>1, <3>3 DEF RunnerInv, SortInv, AlphabeticOrder, Names
    <3> QED  BY <3>1, <3>2, <3>3 DEF RunnerInv, TypeOK, Stage
  <2>4. (RunInv /\ CycleIsReal /\ NeverUnsorted)'
    BY <2>1 DEF RunnerInv, RunInv, CycleIsReal, NeverUnsorted, Names, Emitted
  <2> QED  BY <2>2, <2>3, <2>4 DEF RunnerInv
<1> QED  BY <1>1, <1>2

(* RunnerInv is an invariant of the runner. *)
THEOREM RunnerInvariance == Spec => []RunnerInv
<1> QED  BY InitRunnerInv, NextRunnerInv, PTL DEF Spec

(* The runner's variables keep their types. *)
THEOREM RunnerTypeCorrect == Spec => []TypeOK
<1>1. RunnerInv => TypeOK
  BY DEF RunnerInv
<1> QED  BY <1>1, RunnerInvariance, PTL

(* A list is rejected for a cycle only with a circle of dependencies.        *)
THEOREM CyclesAreReal == Spec => []CycleIsReal
<1>1. RunnerInv => CycleIsReal
  BY DEF RunnerInv
<1> QED  BY <1>1, RunnerInvariance, PTL

(* The rejection behind the sort, which runner.ts calls unreachable, is.     *)
THEOREM SearchFindsEveryCycle == Spec => []NeverUnsorted
<1>1. RunnerInv => NeverUnsorted
  BY DEF RunnerInv
<1> QED  BY <1>1, RunnerInvariance, PTL

(* The order of the phases is a function of their names and dependencies.    *)
THEOREM OrderIsAlphabetic == Spec => []AlphabeticOrder
<1>1. RunnerInv => AlphabeticOrder
  BY DEF RunnerInv
<1> QED  BY <1>1, RunnerInvariance, PTL

-----------------------------------------------------------------------------
(* The refinement.                                                         *)

(* The schedule's operators on lists are the runner's. *)
LEMMA SameOperators ==
    /\ Schedule!NamesIn(phases) = Names
    /\ \A n : Schedule!NeedsOf(phases, n) = Needs(n)
    /\ Schedule!HasDuplicate(phases) <=> HasDuplicate(phases)
    /\ Schedule!HasMissing(phases) <=> HasMissing(phases)
    /\ Schedule!HasCycle(phases)
         <=> \E S \in SUBSET Names : S # {} /\ \A n \in S : Needs(n) \cap S # {}
<1>1. Schedule!NamesIn(phases) = Names /\ \A n : Schedule!NeedsOf(phases, n) = Needs(n)
  BY DEF Names, NamesIn, Needs, NeedsOf, Schedule!NamesIn, Schedule!NeedsOf
<1>2. Schedule!HasDuplicate(phases) <=> HasDuplicate(phases)
  BY DEF HasDuplicate, Schedule!HasDuplicate
<1>3. Schedule!HasMissing(phases) <=> HasMissing(phases)
  BY <1>1 DEF HasMissing, Schedule!HasMissing, Names, Needs
<1>4. Schedule!HasCycle(phases)
        <=> \E S \in SUBSET Names : S # {} /\ \A n \in S : Needs(n) \cap S # {}
  BY <1>1 DEF Schedule!HasCycle
<1> QED  BY <1>1, <1>2, <1>3, <1>4

(* The outcome, stage by stage. *)
LEMMA OutcomeOfStage ==
    /\ stage = "rejected" => Outcome = "rejected"
    /\ stage = "failed" => Outcome = "failed"
    /\ stage = "done" => Outcome = "finished"
    /\ stage \in {"check", "visit", "sort", "run"} => Outcome = "running"
BY DEF Outcome

(* Until the run begins nothing has run. *)
LEMMA NothingHasRun ==
    ASSUME RunnerInv, stage \in {"check", "visit", "sort"}
    PROVE  outputs = {} /\ Outcome = "running"
<1>1. at = 0 /\ outputs = {order[i] : i \in 1 .. at}
  BY DEF RunnerInv, SortInv, RunInv
<1> QED  BY <1>1, OutcomeOfStage

(* A closed path along dependencies is a set of phases none of which can be *)
(* the first.                                                               *)
LEMMA ClosedPathIsCycle ==
    ASSUME RunnerInv, error = "cycle"
    PROVE  \E S \in SUBSET Names : S # {} /\ \A n \in S : Needs(n) \cap S # {}
<1> DEFINE last == Len(cyclePath)
           S    == {cyclePath[i] : i \in 1 .. last - 1}
<1>1. cyclePath \in Seq(Names)
  BY DEF RunnerInv, TypeOK
<1>2. last \in Nat /\ \A i \in 1 .. last : cyclePath[i] \in Names
  BY <1>1, LenProperties, ElementOfSeq
<1>3. /\ last > 1 /\ cyclePath[1] = cyclePath[last]
      /\ \A i \in 1 .. last - 1 : cyclePath[i + 1] \in Needs(cyclePath[i])
  BY DEF RunnerInv, CycleIsReal, Needs
<1> HIDE DEF last
<1>4. S \subseteq Names /\ cyclePath[1] \in S
  BY <1>2, <1>3
<1>5. ASSUME NEW i \in 1 .. last - 1 PROVE cyclePath[i + 1] \in S
  <2>1. CASE i + 1 = last
    BY <1>3, <1>4, <2>1
  <2>2. CASE i + 1 # last
    <3>1. i + 1 \in 1 .. last - 1
      BY <1>2, <2>2
    <3> QED  BY <3>1
  <2> QED  BY <2>1, <2>2
<1>6. \A n \in S : Needs(n) \cap S # {}
  BY <1>3, <1>5
<1> QED  BY <1>4, <1>6

(* Every step of the runner is a step of the schedule or leaves it alone. *)
LEMMA StepImplements ==
    ASSUME RunnerInv, RunnerInv', [Next]_vars
    PROVE  [Schedule!Next]_(Schedule!vars)
<1>1. ASSUME UNCHANGED <<phases, outputs>>, Outcome' = Outcome
      PROVE  UNCHANGED Schedule!vars
  BY <1>1 DEF Schedule!vars
<1>2. CASE Check
  <2>1. stage = "check" /\ UNCHANGED <<phases, outputs>>
    BY <1>2 DEF Check, runVars
  <2>2. outputs = {} /\ Outcome = "running"
    BY <2>1, NothingHasRun
  <2>3. CASE stage' = "visit"
    <3>1. Outcome' = "running"
      BY <2>3 DEF Outcome
    <3> QED  BY <1>1, <2>1, <2>2, <3>1
  <2>4. CASE stage' # "visit"
    <3>1. stage' = "rejected" /\ (HasDuplicate(phases) \/ HasMissing(phases))
      BY <1>2, <2>4 DEF Check, Reject
    <3>2. Outcome' = "rejected"
      BY <3>1 DEF Outcome
    <3> QED
      BY <2>1, <2>2, <3>1, <3>2, SameOperators DEF Schedule!Next, Schedule!Reject
  <2> QED  BY <2>3, <2>4
<1>3. CASE CloseCycle
  <2>1. /\ stage = "visit" /\ stage' = "rejected" /\ error' = "cycle"
        /\ UNCHANGED <<phases, outputs>>
    BY <1>3 DEF CloseCycle, HasNext, Reject, runVars
  <2>2. outputs = {} /\ Outcome = "running" /\ Outcome' = "rejected"
    BY <2>1, NothingHasRun DEF Outcome
  <2>3. (error = "cycle" =>
           \E S \in SUBSET Names : S # {} /\ \A n \in S : Needs(n) \cap S # {})'
    BY ClosedPathIsCycle, PTL
  <2>4. \E S \in SUBSET Names : S # {} /\ \A n \in S : Needs(n) \cap S # {}
    BY <2>1, <2>3 DEF Names, Needs
  <2> QED
    BY <2>1, <2>2, <2>4, SameOperators DEF Schedule!Next, Schedule!Reject
<1>4. CASE VisitRoot \/ Descend \/ PassBlack \/ Retreat \/ StartSort \/ Emit
  <2>1. /\ stage \in {"visit", "sort"} /\ stage' \in {"visit", "sort"}
        /\ UNCHANGED <<phases, outputs>>
    BY <1>4 DEF VisitRoot, Descend, PassBlack, Retreat, StartSort, Emit, HasNext, runVars
  <2>2. Outcome' = Outcome
    BY <2>1 DEF Outcome
  <2> QED  BY <1>1, <2>1, <2>2
<1>5. CASE EndSort
  <2>1. stage = "sort" /\ stage' = "run" /\ UNCHANGED <<phases, outputs>>
    BY <1>5, OrderIsComplete DEF EndSort, runVars
  <2>2. Outcome' = Outcome
    BY <2>1 DEF Outcome
  <2> QED  BY <1>1, <2>1, <2>2
<1>6. ASSUME stage = "run", ~Ended
      PROVE  Schedule!Runnable(Current) /\ Current \in Schedule!NamesIn(phases)
  <2>1. at \in Nat /\ at + 1 \in 1 .. Len(order) /\ DOMAIN order = 1 .. Len(order)
    BY <1>6, RunIsSound
  <2>2. /\ \A i, j \in DOMAIN order : order[i] = order[j] => i = j
        /\ Needs(order[at + 1]) \subseteq {order[j] : j \in 1 .. (at + 1) - 1}
        /\ outputs = {order[i] : i \in 1 .. at}
    BY <1>6, <2>1 DEF RunnerInv, SortInv, RunInv
  <2>3. Current \in Names /\ Outcome = "running"
    BY <1>6, RunIsSound, OutcomeOfStage
  <2>4. Current \notin outputs
    BY <2>1, <2>2 DEF Current
  <2>5. Needs(Current) \subseteq outputs
    BY <2>1, <2>2 DEF Current
  <2> QED  BY <2>3, <2>4, <2>5, SameOperators DEF Schedule!Runnable
<1>7. CASE RunPhase
  <2>1. /\ stage = "run" /\ stage' = "run" /\ ~Ended
        /\ outputs' = outputs \cup {Current} /\ phases' = phases
    BY <1>7 DEF RunPhase
  <2>2. Outcome' = Outcome
    BY <2>1 DEF Outcome
  <2>3. Schedule!Run(Current)
    BY <1>6, <2>1, <2>2 DEF Schedule!Run
  <2> QED  BY <1>6, <2>1, <2>3 DEF Schedule!Next
<1>8. CASE ThrowPhase
  <2>1. stage = "run" /\ stage' = "failed" /\ ~Ended /\ UNCHANGED <<phases, outputs>>
    BY <1>8 DEF ThrowPhase, runVars
  <2>2. Outcome' = "failed"
    BY <2>1 DEF Outcome
  <2>3. Schedule!Throw(Current)
    BY <1>6, <2>1, <2>2 DEF Schedule!Throw
  <2> QED  BY <1>6, <2>1, <2>3 DEF Schedule!Next
<1>9. CASE Return
  <2>1. stage = "run" /\ stage' = "done" /\ Ended /\ UNCHANGED <<phases, outputs>>
    BY <1>9 DEF Return, runVars
  <2>2. Outcome = "running" /\ Outcome' = "finished"
    BY <2>1 DEF Outcome
  <2>3. outputs = Names /\ ~HasDuplicate(phases)
    <3>1. DOMAIN order = 1 .. Len(order)
      BY <2>1, RunIsSound
    <3> QED  BY <2>1, <3>1 DEF RunnerInv, CheckedInv, RunInv, Emitted, Ended
  <2> QED
    BY <2>1, <2>2, <2>3, SameOperators DEF Schedule!Next, Schedule!Finish
<1>10. CASE UNCHANGED vars
  BY <1>1, <1>10 DEF vars, runVars, Outcome
<1> QED
  BY <1>2, <1>3, <1>4, <1>5, <1>7, <1>8, <1>9, <1>10 DEF Next

(* The runner implements the schedule: no list that can be ordered is        *)
(* rejected, no phase runs twice or before one it depends on, and the end is *)
(* reached only with all of them.                                            *)
THEOREM RunnerImplementsSchedule == Spec => Refines
<1>1. Init => Schedule!Init
  <2> SUFFICES ASSUME Init PROVE Schedule!Init
    OBVIOUS
  <2> QED  BY OutcomeOfStage DEF Init, Schedule!Init
<1>2. RunnerInv /\ RunnerInv' /\ [Next]_vars => [Schedule!Next]_(Schedule!vars)
  BY StepImplements
<1> QED  BY <1>1, <1>2, RunnerInvariance, PTL DEF Spec, Refines, Schedule!Spec

-----------------------------------------------------------------------------
(* The default pipeline.                                                   *)

(* What its phases declare. *)
LEMMA DefaultNeeds ==
    ASSUME phases = DEFAULT_PHASES, phases \in PhaseList, ~HasDuplicate(phases)
    PROVE  /\ Len(phases) = 31
           /\ Needs("scan") = {}
           /\ Needs("profile") = {"scan", "parse"}
           /\ Needs("repo-node") = {"profile"}
           /\ Needs("structure") = {"scan"}
           /\ Needs("coverage") = {"scan", "profile", "structure"}
           /\ Needs("markdown") = {"structure"}
           /\ Needs("parse") = {"scan", "structure"}
           /\ Needs("incremental-scope") = {"scan"}
           /\ Needs("complexity") = {"parse", "scan"}
           /\ Needs("business-logic") = {"parse", "scan"}
           /\ Needs("routes") = {"parse", "profile"}
           /\ Needs("openapi") = {"routes", "profile"}
           /\ Needs("tools") = {"parse"}
           /\ Needs("orm") = {"parse"}
           /\ Needs("crossFile") = {"parse", "routes", "tools", "orm",
                        "incremental-scope"}
           /\ Needs("accesses") = {"parse", "crossFile"}
           /\ Needs("scip-index") = {"scan", "profile", "parse", "crossFile",
                        "accesses"}
           /\ Needs("confidence-demote") = {"scip-index"}
           /\ Needs("mro") = {"crossFile", "structure", "incremental-scope"}
           /\ Needs("communities") = {"mro", "structure", "incremental-scope"}
           /\ Needs("dead-code") = {"crossFile", "mro", "communities"}
           /\ Needs("processes") = {"communities", "routes", "tools",
                        "structure", "incremental-scope"}
           /\ Needs("fetches") = {"parse", "profile", "routes"}
           /\ Needs("temporal") = {"scan"}
           /\ Needs("cochange") = {"temporal"}
           /\ Needs("ownership") = {"scan", "parse", "temporal", "communities"}
           /\ Needs("dependencies") = {"scan", "profile"}
           /\ Needs("sbom") = {"dependencies"}
           /\ Needs("annotate") = {"processes", "temporal", "cochange"}
           /\ Needs("risk-snapshot") = {"annotate"}
           /\ Needs("embeddings") = {"annotate", "communities",
                        "confidence-demote"}
<1>1. ASSUME NEW i \in DOMAIN phases, NEW n, NEW ds, phases[i] = Phase(n, ds)
      PROVE  Needs(n) = {ds[j] : j \in DOMAIN ds}
  <2>1. phases[i].name = n /\ phases[i].deps = ds
    BY <1>1 DEF Phase
  <2>2. \A k \in DOMAIN phases : phases[k].name = n => k = i
    BY <2>1 DEF HasDuplicate
  <2>3. {k \in DOMAIN phases : phases[k].name = n} = {i}
    BY <2>1, <2>2
  <2> QED  BY <2>1, <2>3 DEF Needs, NeedsOf
<1>2. Len(phases) = 31 /\ DOMAIN phases = 1 .. 31
  BY DEF DEFAULT_PHASES
<1> QED  BY <1>1, <1>2, SMTT(90) DEF DEFAULT_PHASES, MarkdownDeps

(* The places of the names in the alphabet. *)
LEMMA DefaultRanks ==
    ASSUME Alphabet = DefaultAlphabet
    PROVE  
           /\ Rank("accesses") = 1 /\ Rank("annotate") = 2 /\ Rank("business-logic") = 3
           /\ Rank("cochange") = 4 /\ Rank("communities") = 5 /\ Rank("complexity") = 6
           /\ Rank("confidence-demote") = 7 /\ Rank("coverage") = 8
           /\ Rank("crossFile") = 9 /\ Rank("dead-code") = 10 /\ Rank("dependencies") = 11
           /\ Rank("embeddings") = 12 /\ Rank("fetches") = 13
           /\ Rank("incremental-scope") = 14 /\ Rank("markdown") = 15 /\ Rank("mro") = 16
           /\ Rank("openapi") = 17 /\ Rank("orm") = 18 /\ Rank("ownership") = 19
           /\ Rank("parse") = 20 /\ Rank("processes") = 21 /\ Rank("profile") = 22
           /\ Rank("repo-node") = 23 /\ Rank("risk-snapshot") = 24 /\ Rank("routes") = 25
           /\ Rank("sbom") = 26 /\ Rank("scan") = 27 /\ Rank("scip-index") = 28
           /\ Rank("structure") = 29 /\ Rank("temporal") = 30 /\ Rank("tools") = 31
<1>1. DOMAIN Alphabet = 1 .. 31
  BY DEF DefaultAlphabet
<1>2. ASSUME NEW i \in DOMAIN Alphabet, NEW n, Alphabet[i] = n
      PROVE  Rank(n) = i
  <2>1. \A j \in DOMAIN Alphabet : Alphabet[j] = n => j = i
    BY <1>2, RunnerAssumption
  <2> QED  BY <1>2, <2>1 DEF Rank
<1> QED  BY <1>1, <1>2 DEF DefaultAlphabet

(* What has been emitted before place i: with a phase all that it needs,    *)
(* and every phase of a smaller name that could have been.                  *)
Before(i) == {order[j] : j \in 1 .. i - 1}

LEMMA BeforeFacts ==
    ASSUME RunnerInv, stage = "run", NEW i \in DOMAIN order
    PROVE  /\ DOMAIN order = 1 .. Len(order) /\ Len(order) \in Nat
           /\ order[i] \in Names /\ order[i] \notin Before(i)
           /\ Needs(order[i]) \subseteq Before(i)
           /\ \A n \in Before(i) : Needs(n) \subseteq Before(i)
           /\ \A j \in DOMAIN order : order[j] \in Before(i) =>
                 j < i /\ Before(j) \subseteq Before(i)
           /\ \A n \in Names : Needs(n) \subseteq Before(i) /\ Rank(n) < Rank(order[i]) =>
                 n \in Before(i)
<1>1. /\ order \in Seq(Names) /\ DOMAIN order = 1 .. Len(order) /\ Len(order) \in Nat
      /\ \A j, k \in DOMAIN order : order[j] = order[k] => j = k
      /\ \A j \in DOMAIN order : Needs(order[j]) \subseteq Before(j)
  BY DEF RunnerInv, TypeOK, SortInv, Before
<1>2. order[i] \in Names
  BY <1>1
<1>3. ASSUME NEW n \in Before(i)
      PROVE  \E j \in DOMAIN order : j < i /\ order[j] = n
  BY <1>1 DEF Before
<1>4. \A j \in DOMAIN order : j < i => Before(j) \subseteq Before(i)
  BY <1>1 DEF Before
<1>5. order[i] \notin Before(i)
  BY <1>1, <1>3
<1>6. ASSUME NEW n \in Before(i)
      PROVE  Needs(n) \subseteq Before(i)
  BY <1>1, <1>3, <1>4
<1>7. ASSUME NEW j \in DOMAIN order, order[j] \in Before(i)
      PROVE  j < i /\ Before(j) \subseteq Before(i)
  BY <1>1, <1>3, <1>4, <1>7
<1>8. ASSUME NEW n \in Names, Needs(n) \subseteq Before(i), Rank(n) < Rank(order[i])
      PROVE  n \in Before(i)
  <2> DEFINE S == {m \in Names \ Before(i) : Needs(m) \subseteq Before(i)}
  <2>1. order[i] = Least(S)
    BY DEF RunnerInv, AlphabeticOrder, Before, Needs
  <2>2. order[i] \in S
    BY <1>1, <1>2, <1>5
  <2>3. S \subseteq Name
    <3>1. phases \in PhaseList
      BY DEF RunnerInv, TypeOK
    <3> QED  BY <3>1, ListParts
  <2> HIDE DEF S
  <2>4. \A m \in S : Rank(m) \in Nat /\ Rank(order[i]) <= Rank(m)
    BY <2>1, <2>2, <2>3, LeastIsIn
  <2>5. n \notin S
    BY <1>8, <2>2, <2>4
  <2> QED  BY <1>8, <2>5 DEF S
<1> QED  BY <1>1, <1>2, <1>5, <1>6, <1>7, <1>8

(* The default list behind the sort. *)
LEMMA DefaultList ==
    ASSUME RunnerInv, phases = DEFAULT_PHASES, stage = "run"
    PROVE  /\ phases \in PhaseList /\ ~HasDuplicate(phases) /\ Emitted = Names
           /\ Names = {"accesses", "annotate", "business-logic", "cochange",
                        "communities", "complexity", "confidence-demote",
                        "coverage", "crossFile", "dead-code", "dependencies",
                        "embeddings", "fetches", "incremental-scope", "markdown",
                        "mro", "openapi", "orm", "ownership", "parse", "processes",
                        "profile", "repo-node", "risk-snapshot", "routes", "sbom",
                        "scan", "scip-index", "structure", "temporal", "tools"}
<1>1. /\ phases \in PhaseList /\ ~HasDuplicate(phases) /\ Emitted = Names
  BY DEF RunnerInv, TypeOK, CheckedInv, RunInv
<1>2. DOMAIN phases = 1 .. 31
  BY DEF DEFAULT_PHASES
<1> QED  BY <1>1, <1>2, SMTT(60) DEF Names, NamesIn, DEFAULT_PHASES, Phase

(* A phase of the default list finds the outputs that it reads, also those of *)
(* phases it does not name: along the deps of its deps, for any alphabet.     *)
THEOREM ReadsAreServed == Spec => []ReadsServed
<1>1. ASSUME RunnerInv
      PROVE  ReadsServed
  <2>1. SUFFICES ASSUME NEW r \in PhaseOutputsRead, Running(r[1])
                 PROVE  r[2] \in outputs
    BY DEF ReadsServed
  <2>2. /\ phases = DEFAULT_PHASES /\ stage = "run" /\ order[at + 1] = r[1]
        /\ at # Len(order)
    BY <2>1 DEF Running, Current, Ended
  <2> DEFINE i == at + 1
  <2>3. /\ at \in Nat /\ order \in Seq(Names) /\ at <= Len(order)
        /\ outputs = {order[j] : j \in 1 .. at}
    BY <1>1 DEF RunnerInv, TypeOK, RunInv
  <2>4. i \in DOMAIN order /\ outputs = Before(i)
    BY <2>2, <2>3 DEF Before
  <2> HIDE DEF i
  <2>5. /\ Needs(r[1]) \subseteq outputs
        /\ \A n \in outputs : Needs(n) \subseteq outputs
    <3>1. order[i] = r[1]
      BY <2>2 DEF i
    <3> QED  BY <1>1, <2>2, <2>4, <3>1, BeforeFacts
  <2>6. CASE r[2] = "incremental-scope"
    <3>1. r[1] \in {"crossFile", "mro", "communities", "processes"}
      BY <2>6 DEF PhaseOutputsRead
    <3>2. "incremental-scope" \in Needs(r[1])
      BY <1>1, <2>2, <3>1, DefaultList, DefaultNeeds
    <3> QED  BY <2>5, <2>6, <3>2
  <2>7. CASE r[2] = "scan"
    <3>1. r[1] \in {"markdown", "routes", "openapi", "tools", "orm", "fetches",
                    "dependencies", "annotate", "embeddings"}
      BY <2>7 DEF PhaseOutputsRead
    <3>2. /\ Needs("dependencies") = {"scan", "profile"}
          /\ Needs("markdown") = {"structure"} /\ Needs("structure") = {"scan"}
          /\ Needs("parse") = {"scan", "structure"}
          /\ Needs("routes") = {"parse", "profile"} /\ Needs("openapi") = {"routes", "profile"}
          /\ Needs("tools") = {"parse"} /\ Needs("orm") = {"parse"}
          /\ Needs("fetches") = {"parse", "profile", "routes"}
          /\ Needs("profile") = {"scan", "parse"}
          /\ Needs("temporal") = {"scan"}
          /\ Needs("annotate") = {"processes", "temporal", "cochange"}
          /\ Needs("embeddings") = {"annotate", "communities", "confidence-demote"}
      BY <1>1, <2>2, DefaultList, DefaultNeeds
    <3> SUFFICES "scan" \in outputs
      BY <2>7
    <3>3. CASE r[1] = "dependencies"
      BY <2>5, <3>2, <3>3
    <3>4. CASE r[1] = "markdown"
      BY <2>5, <3>2, <3>4
    <3>5. CASE r[1] \in {"routes", "tools", "orm", "fetches"}
      <4>1. "parse" \in outputs
        BY <2>5, <3>2, <3>5
      <4> QED  BY <2>5, <3>2, <4>1
    <3>6. CASE r[1] = "openapi"
      <4>1. "profile" \in outputs
        BY <2>5, <3>2, <3>6
      <4> QED  BY <2>5, <3>2, <4>1
    <3>7. CASE r[1] \in {"annotate", "embeddings"}
      <4>1. "temporal" \in outputs
        BY <2>5, <3>2, <3>7
      <4> QED  BY <2>5, <3>2, <4>1
    <3> QED  BY <3>1, <3>3, <3>4, <3>5, <3>6, <3>7
  <2>8. r[2] \in {"scan", "incremental-scope"}
    BY DEF PhaseOutputsRead
  <2> QED  BY <2>6, <2>7, <2>8
<1> QED  BY <1>1, RunnerInvariance, PTL

LEMMA BeforeComes ==
    ASSUME RunnerInv, stage = "run", NEW i \in DOMAIN order, NEW n \in Before(i)
    PROVE  Comes(n, order[i])
<1>1. DOMAIN order = 1 .. Len(order) /\ Len(order) \in Nat
  BY BeforeFacts
<1>2. \E j \in DOMAIN order : j < i /\ order[j] = n
  BY <1>1 DEF Before
<1> QED  BY <1>2 DEF Comes

(* The three orders that no dependency enforces.  temporal comes before      *)
(* tools, which crossFile waits for; scip-index waits for crossFile, so when *)
(* its turn comes whatever has a smaller name could have run, and has; and   *)
(* embeddings waits for scip-index, by way of confidence-demote.             *)
LEMMA OrderIsKept ==
    ASSUME RunnerInv, Alphabet = DefaultAlphabet
    PROVE  KeptOrder
<1> SUFFICES ASSUME phases = DEFAULT_PHASES, stage = "run"
             PROVE  /\ Comes("accesses", "communities")
                    /\ Comes("dead-code", "processes")
                    /\ order[Len(order)] = "embeddings"
  BY DEF KeptOrder, Sorted
<1> DEFINE Closed(B) == \A n \in B : Needs(n) \subseteq B
           Ahead(B, m) == \A n \in Names : Needs(n) \subseteq B /\ Rank(n) < Rank(m) => n \in B
<1>1. \A n \in Names : \E i \in DOMAIN order : order[i] = n
  BY DefaultList DEF Emitted
<1>2. \A i \in DOMAIN order :
         Needs(order[i]) \subseteq Before(i) /\ Closed(Before(i)) /\ Ahead(Before(i), order[i])
  BY BeforeFacts
<1>3. \A i \in DOMAIN order : \A n \in Before(i) : Comes(n, order[i])
  BY BeforeComes
<1>4. ASSUME NEW B, Closed(B), Ahead(B, "communities"), Needs("communities") \subseteq B
      PROVE  "accesses" \in B
  <2>1. "mro" \in B
    BY <1>4, DefaultList, DefaultNeeds
  <2>2. "crossFile" \in B
    BY <1>4, <2>1, DefaultList, DefaultNeeds
  <2>3. Needs("accesses") \subseteq B
    BY <1>4, <2>2, DefaultList, DefaultNeeds
  <2> QED  BY <1>4, <2>3, DefaultList, DefaultRanks
<1>5. ASSUME NEW B, Closed(B), Ahead(B, "processes"), Needs("processes") \subseteq B
      PROVE  "dead-code" \in B
  <2>1. "communities" \in B
    BY <1>5, DefaultList, DefaultNeeds
  <2>2. "mro" \in B
    BY <1>5, <2>1, DefaultList, DefaultNeeds
  <2>3. Needs("dead-code") \subseteq B
    BY <1>5, <2>1, <2>2, DefaultList, DefaultNeeds
  <2> QED  BY <1>5, <2>3, DefaultList, DefaultRanks
<1>6. ASSUME NEW B, Closed(B), Ahead(B, "tools"), Needs("tools") \subseteq B
      PROVE  "temporal" \in B
  <2>1. Needs("temporal") \subseteq B
    BY <1>6, DefaultList, DefaultNeeds
  <2> QED  BY <1>6, <2>1, DefaultList, DefaultRanks
<1>7. ASSUME NEW B, Closed(B), Ahead(B, "scip-index"), Needs("scip-index") \subseteq B,
             "temporal" \in B
      PROVE  {"repo-node", "markdown", "openapi", "fetches", "sbom", "ownership",
              "risk-snapshot"} \subseteq B
  <2>1. {"scan", "profile", "parse", "crossFile"} \subseteq B
    BY <1>7, DefaultList, DefaultNeeds
  <2>2. {"structure", "routes", "tools", "incremental-scope"} \subseteq B
    BY <1>7, <2>1, DefaultList, DefaultNeeds
  <2>3. "repo-node" \in B /\ "markdown" \in B /\ "openapi" \in B /\ "fetches" \in B
    BY <1>7, <2>1, <2>2, DefaultList, DefaultNeeds, DefaultRanks
  <2>4. "dependencies" \in B /\ "cochange" \in B /\ "mro" \in B
    BY <1>7, <2>1, <2>2, DefaultList, DefaultNeeds, DefaultRanks
  <2>5. "sbom" \in B /\ "communities" \in B
    BY <1>7, <2>2, <2>4, DefaultList, DefaultNeeds, DefaultRanks
  <2>6. "ownership" \in B /\ "processes" \in B
    BY <1>7, <2>1, <2>2, <2>5, DefaultList, DefaultNeeds, DefaultRanks
  <2>7. "annotate" \in B
    BY <1>7, <2>4, <2>6, DefaultList, DefaultNeeds, DefaultRanks
  <2>8. "risk-snapshot" \in B
    BY <1>7, <2>7, DefaultList, DefaultNeeds, DefaultRanks
  <2> QED  BY <2>3, <2>5, <2>6, <2>8
<1>8. ASSUME NEW B, Closed(B), Ahead(B, "embeddings"), Needs("embeddings") \subseteq B,
             {"repo-node", "markdown", "openapi", "fetches", "sbom", "ownership",
              "risk-snapshot"} \subseteq B
      PROVE  Names \ {"embeddings"} \subseteq B
  <2>1. {"annotate", "communities", "confidence-demote"} \subseteq B
    BY <1>8, DefaultList, DefaultNeeds
  <2>2. {"processes", "temporal", "cochange", "mro", "structure", "incremental-scope",
         "scip-index"} \subseteq B
    BY <1>8, <2>1, DefaultList, DefaultNeeds
  <2>3. {"scan", "profile", "parse", "crossFile", "accesses", "routes", "tools"} \subseteq B
    BY <1>8, <2>2, DefaultList, DefaultNeeds
  <2>4. "orm" \in B
    BY <1>8, <2>3, DefaultList, DefaultNeeds
  <2>5. "dead-code" \in B /\ "coverage" \in B
    BY <1>8, <2>1, <2>2, <2>3, DefaultList, DefaultNeeds, DefaultRanks
  <2>6. "complexity" \in B /\ "business-logic" \in B /\ "dependencies" \in B
    BY <1>8, <2>3, DefaultList, DefaultNeeds, DefaultRanks
  <2> HIDE DEF Closed, Ahead
  <2> QED  BY <1>8, <2>1, <2>2, <2>3, <2>4, <2>5, <2>6, DefaultList
<1> HIDE DEF Closed, Ahead
<1>9. PICK c, p, e, x, t \in DOMAIN order :
         /\ order[c] = "communities" /\ order[p] = "processes" /\ order[e] = "embeddings"
         /\ order[x] = "scip-index" /\ order[t] = "tools"
  <2>1. {"communities", "processes", "embeddings", "scip-index", "tools"} \subseteq Names
    BY DefaultList
  <2> QED  BY <1>1, <2>1
<1>10. Comes("accesses", "communities") /\ Comes("dead-code", "processes")
  BY <1>2, <1>3, <1>4, <1>5, <1>9
<1>11. "temporal" \in Before(t)
  BY <1>2, <1>6, <1>9
<1>12. Before(t) \subseteq Before(x)
  <2>1. "crossFile" \in Before(x)
    BY <1>2, <1>9, DefaultList, DefaultNeeds
  <2>2. order[t] \in Before(x)
    BY <1>2, <1>9, <2>1, DefaultList, DefaultNeeds DEF Closed
  <2> QED  BY <2>2, BeforeFacts
<1>13. Before(x) \subseteq Before(e)
  <2>1. "confidence-demote" \in Before(e)
    BY <1>2, <1>9, DefaultList, DefaultNeeds
  <2>2. order[x] \in Before(e)
    BY <1>2, <1>9, <2>1, DefaultList, DefaultNeeds DEF Closed
  <2> QED  BY <2>2, BeforeFacts
<1>14. Names \ {"embeddings"} \subseteq Before(e)
  <2>1. {"repo-node", "markdown", "openapi", "fetches", "sbom", "ownership",
         "risk-snapshot"} \subseteq Before(x)
    BY <1>2, <1>7, <1>9, <1>11, <1>12
  <2> QED  BY <1>2, <1>8, <1>9, <1>13, <2>1
<1>15. e = Len(order)
  <2>1. DOMAIN order = 1 .. Len(order) /\ Len(order) \in Nat
    BY <1>9, BeforeFacts
  <2>2. SUFFICES ASSUME e # Len(order) PROVE FALSE
    OBVIOUS
  <2> DEFINE l == Len(order)
  <2>3. l \in DOMAIN order /\ e < l
    BY <1>9, <2>1, <2>2
  <2>4. order[l] \in Names /\ order[e] \in Before(l)
    BY <1>9, <2>1, <2>3, BeforeFacts DEF Before
  <2>5. order[l] \notin Before(l)
    BY <2>3, BeforeFacts
  <2>6. order[l] # "embeddings"
    BY <1>9, <2>4, <2>5
  <2>7. order[l] \in Before(e)
    BY <1>14, <2>4, <2>6
  <2>8. l < e
    BY <1>9, <2>3, <2>7, BeforeFacts
  <2> QED  BY <1>9, <2>1, <2>3, <2>8
<1> QED  BY <1>9, <1>10, <1>15

(* The orders that the comments of the default phases rely on hold, whatever *)
(* the lists of phases that are run.                                         *)
THEOREM DefaultOrderIsKept ==
    ASSUME Alphabet = DefaultAlphabet
    PROVE  Spec => []KeptOrder
<1>1. RunnerInv => KeptOrder
  BY OrderIsKept
<1> QED  BY <1>1, RunnerInvariance, PTL
=============================================================================
