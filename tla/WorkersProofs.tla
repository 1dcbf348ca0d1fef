----------------------------- MODULE WorkersProofs -----------------------------
(***************************************************************************)
(* The pools and child processes that work is handed to: the scanners, the *)
(* COBOL parser, the embedders and the parse workers.                      *)
(***************************************************************************)
EXTENDS ScannerPool, CobolBridge, EmbedWaves, ParsePool,
        FiniteSetTheorems, SequenceTheorems, WellFoundedInduction, TLAPS

-----------------------------------------------------------------------------
(* Induction over numbers, on the set of those for which a fact holds; what *)
(* a recursive function gives.                                              *)

(* Some number of a set is the least. *)
LEMMA LeastNatural ==
    ASSUME NEW T, T \subseteq Nat, T # {}
    PROVE  \E x \in T : \A y \in T : x <= y
<1> DEFINE R == OpToRel(<, Nat)
<1>1. IsWellFoundedOn(R, Nat)
  BY NatLessThanWellFounded
<1>2. \A x, y \in Nat : y < x => <<y, x>> \in R
  BY DEF OpToRel
<1> HIDE DEF R
<1>3. PICK x \in T : \A y \in T : ~ (<<y, x>> \in R)
  BY <1>1, WFMin
<1>4. ASSUME NEW y \in T PROVE x <= y
  <2>1. ~ (y < x)
    BY <1>2, <1>3
  <2> QED  BY <2>1
<1> QED  BY <1>4

(* Induction over the numbers that are in a set. *)
LEMMA NatBySet ==
    ASSUME NEW S, 0 \in S, \A n \in Nat : n \in S => n + 1 \in S
    PROVE  Nat \subseteq S
<1> SUFFICES ASSUME Nat \ S # {} PROVE FALSE
  OBVIOUS
<1>1. PICK x \in Nat \ S : \A y \in Nat \ S : x <= y
  BY LeastNatural
<1>2. x # 0 /\ x - 1 \in Nat
  BY <1>1
<1>3. x - 1 \in S
  BY <1>1, <1>2
<1>4. (x - 1) + 1 \in S
  BY <1>2, <1>3
<1> QED  BY <1>1, <1>4

LEMMA IntervalBySet ==
    ASSUME NEW n \in Nat, NEW S, 0 \in S, \A k \in 0 .. n - 1 : k \in S => k + 1 \in S
    PROVE  0 .. n \subseteq S
<1> DEFINE T == {k \in Nat : k > n \/ k \in S}
<1>1. 0 \in T /\ \A k \in Nat : k \in T => k + 1 \in T
  OBVIOUS
<1> HIDE DEF T
<1>2. Nat \subseteq T
  BY <1>1, NatBySet
<1> QED  BY <1>2 DEF T

LEMMA SameSeq ==
    ASSUME NEW T, NEW s \in Seq(T), NEW t \in Seq(T), Len(s) = Len(t),
           \A i \in 1 .. Len(s) : s[i] = t[i]
    PROVE  s = t
  OBVIOUS

LEMMA SubSeqAppend ==
    ASSUME NEW T, NEW s \in Seq(T), NEW n \in Nat, n + 1 <= Len(s), NEW v, v = SubSeq(s, 1, n)
    PROVE  Len(v) = n /\ Append(v, s[n + 1]) = SubSeq(s, 1, n + 1) /\ Append(v, s[n + 1]) \in Seq(T)
<1>1. v \in Seq(T) /\ Len(v) = n /\ \A k \in 1 .. n : v[k] = s[k]
  OBVIOUS
<1>2. SubSeq(s, 1, n + 1) \in Seq(T) /\ Len(SubSeq(s, 1, n + 1)) = n + 1
      /\ \A k \in 1 .. n + 1 : SubSeq(s, 1, n + 1)[k] = s[k]
  OBVIOUS
<1>3. s[n + 1] \in T
  OBVIOUS
<1>4. /\ Append(v, s[n + 1]) \in Seq(T) /\ Len(Append(v, s[n + 1])) = n + 1
      /\ \A k \in 1 .. n + 1 : Append(v, s[n + 1])[k] = s[k]
  BY <1>1, <1>3
<1> QED  BY <1>1, <1>2, <1>4

(* A function on 0 .. n that starts with x and goes on by the steps G.      *)
Steps(n, V, x, G) ==
    n \in Nat /\ x \in V /\ \A k \in 1 .. n : \A v \in V : G[k][v] \in V

LEMMA Recursion ==
    ASSUME NEW n, NEW V, NEW x, NEW G, Steps(n, V, x, G)
    PROVE  \E f \in [0 .. n -> V] : f[0] = x /\ \A k \in 1 .. n : f[k] = G[k][f[k - 1]]
<1> DEFINE Good(f, m) == f[0] = x /\ \A k \in 1 .. m : f[k] = G[k][f[k - 1]]
           Has(m) == \E f \in [0 .. m -> V] : Good(f, m)
           S == {m \in 0 .. n : Has(m)}
<1> USE DEF Steps
<1>1. 0 \in S
  <2> DEFINE f == [k \in 0 .. 0 |-> x]
  <2>1. f \in [0 .. 0 -> V] /\ Good(f, 0)
    OBVIOUS
  <2> HIDE DEF f
  <2>2. Has(0)
    BY <2>1
  <2> HIDE DEF Has
  <2> QED  BY <2>2
<1>2. ASSUME NEW m \in 0 .. n - 1, m \in S
      PROVE  m + 1 \in S
  <2>1. PICK f \in [0 .. m -> V] : Good(f, m)
    BY <1>2
  <2> DEFINE g == [k \in 0 .. m + 1 |-> IF k <= m THEN f[k] ELSE G[m + 1][f[m]]]
  <2>2. f[m] \in V /\ m + 1 \in 1 .. n /\ m \in 0 .. m
    OBVIOUS
  <2>3. G[m + 1][f[m]] \in V
    BY <2>2
  <2>4. g \in [0 .. m + 1 -> V]
    <3>1. ASSUME NEW k \in 0 .. m + 1
          PROVE  (IF k <= m THEN f[k] ELSE G[m + 1][f[m]]) \in V
      <4>1. CASE k <= m
        <5>1. k \in 0 .. m
          BY <4>1
        <5> QED  BY <4>1, <5>1
      <4>2. CASE ~(k <= m)
        BY <2>3, <4>2
      <4> QED  BY <4>1, <4>2
    <3> QED  BY <3>1
  <2>5. \A k \in 0 .. m : g[k] = f[k]
    OBVIOUS
  <2>6. g[m + 1] = G[m + 1][f[m]]
    OBVIOUS
  <2> HIDE DEF g
  <2>7. ASSUME NEW k \in 1 .. m + 1
        PROVE  g[k] = G[k][g[k - 1]]
    <3>1. CASE k \in 1 .. m
      <4>1. k \in 0 .. m /\ k - 1 \in 0 .. m
        BY <3>1
      <4>2. g[k] = f[k] /\ g[k - 1] = f[k - 1]
        BY <2>5, <4>1
      <4>3. f[k] = G[k][f[k - 1]]
        BY <2>1, <3>1
      <4> QED  BY <4>2, <4>3
    <3>2. CASE k = m + 1
      <4>1. k - 1 = m /\ m \in 0 .. m
        BY <3>2
      <4>2. g[m] = f[m]
        BY <2>5, <4>1
      <4> QED  BY <2>6, <3>2, <4>1, <4>2
    <3> QED  BY <3>1, <3>2
  <2>8. g[0] = x
    <3>1. 0 \in 0 .. m
      OBVIOUS
    <3> QED  BY <2>1, <2>5, <3>1
  <2>9. Good(g, m + 1)
    BY <2>7, <2>8
  <2>10. Has(m + 1) /\ m + 1 \in 0 .. n
    BY <2>4, <2>9
  <2> HIDE DEF Has
  <2> QED  BY <2>10
<1> HIDE DEF S
<1>3. 0 .. n \subseteq S
  BY <1>1, <1>2, IntervalBySet
<1>4. n \in S
  BY <1>3
<1>5. Has(n)
  BY <1>4 DEF S
<1> QED  BY <1>5

(* What is chosen by a recursive definition has values in V.                *)
LEMMA RecursiveType ==
    ASSUME NEW n \in Nat, NEW V, NEW R, R[0] \in V,
           \A k \in 1 .. n : R[k - 1] \in V => R[k] \in V
    PROVE  \A k \in 0 .. n : R[k] \in V
<1> DEFINE S == {k \in 0 .. n : R[k] \in V}
<1>1. 0 \in S
  OBVIOUS
<1>2. ASSUME NEW k \in 0 .. n - 1, k \in S
      PROVE  k + 1 \in S
  <2>1. k + 1 \in 1 .. n /\ (k + 1) - 1 = k
    OBVIOUS
  <2>2. R[k] \in V
    BY <1>2
  <2>3. R[k + 1] \in V
    BY <2>1, <2>2
  <2> QED  BY <2>1, <2>3
<1> HIDE DEF S
<1>3. 0 .. n \subseteq S
  BY <1>1, <1>2, IntervalBySet
<1> QED  BY <1>3 DEF S

(* Two functions with the same start and the same steps have the same values. *)
LEMMA SameSteps ==
    ASSUME NEW n \in Nat, NEW f, NEW g, f[0] = g[0],
           \A k \in 1 .. n : f[k - 1] = g[k - 1] => f[k] = g[k]
    PROVE  f[n] = g[n]
<1> DEFINE S == {k \in 0 .. n : f[k] = g[k]}
<1>1. 0 \in S
  OBVIOUS
<1>2. ASSUME NEW k \in 0 .. n - 1, k \in S
      PROVE  k + 1 \in S
  <2>1. k + 1 \in 1 .. n /\ (k + 1) - 1 = k
    OBVIOUS
  <2>2. f[k] = g[k]
    BY <1>2
  <2>3. f[k + 1] = g[k + 1]
    BY <2>1, <2>2
  <2> QED  BY <2>1, <2>3
<1> HIDE DEF S
<1>3. 0 .. n \subseteq S
  BY <1>1, <1>2, IntervalBySet
<1>4. n \in S
  BY <1>3
<1> QED  BY <1>4 DEF S

-----------------------------------------------------------------------------
(* Running the scanners.                                                   *)

(* The list of failures after one more. *)
LEMMA AppendEffect ==
    ASSUME NEW s \in Seq(Scanner), NEW i \in Scanner, \A k \in DOMAIN s : s[k] # i,
           \A j, k \in DOMAIN s : s[j] = s[k] => j = k
    PROVE  /\ Append(s, i) \in Seq(Scanner)
           /\ \A j, k \in DOMAIN Append(s, i) : Append(s, i)[j] = Append(s, i)[k] => j = k
           /\ {Append(s, i)[k] : k \in DOMAIN Append(s, i)} = {s[k] : k \in DOMAIN s} \cup {i}
<1> DEFINE t == Append(s, i)
<1>1. /\ t \in Seq(Scanner) /\ Len(t) = Len(s) + 1
      /\ DOMAIN t = 1 .. Len(s) + 1 /\ DOMAIN s = 1 .. Len(s) /\ Len(s) \in Nat
      /\ t[Len(s) + 1] = i
      /\ \A k \in DOMAIN s : t[k] = s[k]
  OBVIOUS
<1> HIDE DEF t
<1>2. \A k \in DOMAIN t : k \in DOMAIN s \/ k = Len(s) + 1
  BY <1>1
<1>3. \A j, k \in DOMAIN t : t[j] = t[k] => j = k
  BY <1>1, <1>2
<1>4. {t[k] : k \in DOMAIN t} \subseteq {s[k] : k \in DOMAIN s} \cup {i}
  BY <1>1, <1>2
<1>5. {s[k] : k \in DOMAIN s} \cup {i} \subseteq {t[k] : k \in DOMAIN t}
  <2>1. Len(s) + 1 \in DOMAIN t /\ DOMAIN s \subseteq DOMAIN t
    BY <1>1
  <2> QED  BY <1>1, <2>1
<1> QED  BY <1>1, <1>3, <1>4, <1>5 DEF t

LEMMA InitScanInv == ScanInit => ScanInv
<1> SUFFICES ASSUME ScanInit PROVE ScanInv
  OBVIOUS
<1>1. ScanTypeOK
  BY DEF ScanInit, ScanTypeOK
<1>2. \A i \in Scanner : /\ starts[i] = 0 /\ runs[i] = "none" /\ child[i] = "none"
                         /\ ~(i < nextIdx)
  BY DEF ScanInit, Scanner
<1>3. {errored[k] : k \in DOMAIN errored} = {i \in Scanner : runs[i] = "errored"}
  BY <1>2 DEF ScanInit
<1> QED  BY <1>1, <1>2, <1>3 DEF ScanInit, ScanInv

(* The workers are launched. *)
LEMMA StartScanStep ==
    ASSUME ScanInv, StartScan
    PROVE  ScanInv'
<1>1. /\ nextIdx = 1 /\ nextIdx' = 1 + Workers /\ scan' = "running"
      /\ scan = "ready"
      /\ job' = [w \in Worker |-> 1 + w - 1]
      /\ UNCHANGED <<runs, errored>>
  BY DEF ScanInv, StartScan
<1>2. \A w \in Worker : job'[w] = w /\ w \in 1 .. Workers
  BY <1>1 DEF Worker
<1>3. ScanTypeOK'
  BY <1>1, ScannerAssumption DEF ScanInv, ScanTypeOK, StartScan, Worker, Scanner
<1>4. \A i \in Scanner : /\ starts[i] = 0 /\ runs[i] = "none" /\ child[i] = "none"
  BY <1>1 DEF ScanInv, Scanner
<1>5. \A i \in Scanner : (starts[i] = IF i < nextIdx THEN 1 ELSE 0)'
  BY <1>1, <1>4, ScannerAssumption DEF StartScan, Scanner
<1>6. \A i \in Scanner : i < nextIdx' => \E w \in Worker : job'[w] = i
  BY <1>1, <1>2, ScannerAssumption DEF Scanner, Worker
<1>7. \A i \in Scanner : (runs[i] # "none" <=> i < nextIdx /\ ~RunBy(i))'
  BY <1>1, <1>4, <1>6 DEF RunBy
<1>8. \A i \in Scanner : (i >= nextIdx => child[i] = "none")'
  BY <1>1, <1>4, ScannerAssumption DEF StartScan, Scanner
<1>9. (\A w \in Worker : job[w] \in 1 .. nextIdx - 1)'
  BY <1>1, <1>2, ScannerAssumption
<1>10. (\A v, w \in Worker : job[v] = job[w] => v = w)'
  BY <1>2
<1> QED  BY <1>1, <1>3, <1>5, <1>7, <1>8, <1>9, <1>10 DEF ScanInv

(* A worker files a result and claims the next scanner. *)
LEMMA FinishStep ==
    ASSUME ScanInv, NEW w \in Worker, NEW result \in Result,
           scan = "running", job[w] \in Scanner, Finish(w, result)
    PROVE  ScanInv'
<1> DEFINE i == job[w]
<1>1. /\ i \in Scanner /\ nextIdx \in Nat \ {0} /\ i \in 1 .. nextIdx - 1
      /\ nextIdx' = nextIdx + 1 /\ scan' = "running"
      /\ job' = [job EXCEPT ![w] = nextIdx]
      /\ runs' = [runs EXCEPT ![i] = result]
      /\ \A v \in Worker : job[v] \in 1 .. nextIdx - 1
      /\ job \in [Worker -> Nat] /\ runs \in [Scanner -> Result \cup {"none"}]
      /\ errored \in Seq(Scanner)
      /\ errored' = IF result = "errored" THEN Append(errored, i) ELSE errored
  BY DEF ScanInv, ScanTypeOK, Finish, Claim
<1> HIDE DEF i
<1>2. \A v \in Worker : job'[v] = IF v = w THEN nextIdx ELSE job[v]
  BY <1>1
<1>3. runs[i] = "none"
  BY <1>1 DEF ScanInv, RunBy, i
<1>4. result # "none"
  BY DEF Result
<1>5. ScanTypeOK'
  BY <1>1 DEF ScanInv, ScanTypeOK, Finish, Claim, i
<1>6. (\A v \in Worker : job[v] \in 1 .. nextIdx - 1)'
  BY <1>1, <1>2
<1>7. (\A v, u \in Worker : job[v] = job[u] => v = u)'
  BY <1>1, <1>2 DEF ScanInv
<1>8. ASSUME NEW j \in Scanner
      PROVE  /\ (starts[j] = IF j < nextIdx THEN 1 ELSE 0)'
             /\ (j >= nextIdx => child[j] = "none")'
  <2>1. starts'[j] = IF j = nextIdx THEN starts[j] + 1 ELSE starts[j]
    BY DEF Finish, Claim
  <2>2. starts[j] = IF j < nextIdx THEN 1 ELSE 0
    BY DEF ScanInv
  <2>3. j \in Nat /\ nextIdx \in Nat
    BY <1>1 DEF Scanner
  <2>4. j # nextIdx /\ j # i => child'[j] = child[j]
    BY DEF Finish, Claim, i
  <2>5. j >= nextIdx => child[j] = "none"
    BY DEF ScanInv
  <2> QED  BY <1>1, <2>1, <2>2, <2>3, <2>4, <2>5
<1>9. ASSUME NEW j \in Scanner
      PROVE  (runs[j] # "none" <=> j < nextIdx /\ ~RunBy(j))'
  <2>1. j \in Nat /\ nextIdx \in Nat
    BY <1>1 DEF Scanner
  <2>2. CASE j = i
    <3>1. \A v \in Worker : job'[v] # i
      BY <1>1, <1>2 DEF ScanInv, i
    <3> QED  BY <1>1, <1>4, <2>1, <2>2, <3>1 DEF RunBy
  <2>3. CASE j # i
    <3>1. runs'[j] = runs[j]
      BY <1>1, <2>3
    <3>2. runs[j] # "none" <=> j < nextIdx /\ ~RunBy(j)
      BY DEF ScanInv
    <3>3. RunBy(j)' <=> RunBy(j) \/ j = nextIdx
      <4>1. RunBy(j) => RunBy(j)'
        BY <1>2, <2>3 DEF RunBy, i
      <4>2. j = nextIdx => RunBy(j)'
        BY <1>2 DEF RunBy
      <4>3. RunBy(j)' => RunBy(j) \/ j = nextIdx
        BY <1>2 DEF RunBy
      <4> QED  BY <4>1, <4>2, <4>3
    <3>4. j < nextIdx' <=> j < nextIdx \/ j = nextIdx
      BY <1>1, <2>1
    <3>5. RunBy(j) => j < nextIdx
      BY <1>1, <2>1 DEF RunBy
    <3> QED  BY <3>1, <3>2, <3>3, <3>4, <3>5, <2>1
  <2> QED  BY <2>2, <2>3
<1>10. /\ ({errored[k] : k \in DOMAIN errored} = {j \in Scanner : runs[j] = "errored"})'
       /\ (\A j, k \in DOMAIN errored : errored[j] = errored[k] => j = k)'
  <2>1. /\ {errored[k] : k \in DOMAIN errored} = {j \in Scanner : runs[j] = "errored"}
        /\ \A j, k \in DOMAIN errored : errored[j] = errored[k] => j = k
    BY DEF ScanInv
  <2>2. CASE result = "errored"
    <3>1. \A k \in DOMAIN errored : errored[k] # i
      BY <1>3, <2>1
    <3>2. {j \in Scanner : runs'[j] = "errored"} = {j \in Scanner : runs[j] = "errored"} \cup {i}
      BY <1>1, <2>2
    <3>3. errored' = Append(errored, i)
      BY <1>1, <2>2
    <3> DEFINE t == Append(errored, i)
    <3>4. errored \in Seq(Scanner) /\ i \in Scanner
      BY <1>1
    <3>5. \A j, k \in DOMAIN errored : errored[j] = errored[k] => j = k
      BY <2>1
    <3>6. /\ \A j, k \in DOMAIN t : t[j] = t[k] => j = k
          /\ {t[k] : k \in DOMAIN t} = {errored[k] : k \in DOMAIN errored} \cup {i}
      BY <3>1, <3>4, <3>5, AppendEffect
    <3> HIDE DEF t
    <3>7. errored' = t
      BY <3>3 DEF t
    <3> QED  BY <2>1, <3>2, <3>6, <3>7
  <2>3. CASE result # "errored"
    <3>1. {j \in Scanner : runs'[j] = "errored"} = {j \in Scanner : runs[j] = "errored"}
      BY <1>1, <1>3, <2>3
    <3> QED  BY <1>1, <2>1, <2>3, <3>1
  <2> QED  BY <2>2, <2>3
<1> QED  BY <1>1, <1>5, <1>6, <1>7, <1>8, <1>9, <1>10 DEF ScanInv

(* The steps of a child that file no result. *)
LEMMA ChildStep ==
    ASSUME ScanInv, NEW w \in Worker, Found(w) \/ TimesOut(w)
    PROVE  ScanInv'
<1>1. /\ UNCHANGED <<scan, nextIdx, job, starts, runs, errored>>
      /\ job[w] \in Scanner /\ scan = "running"
      /\ child' = [child EXCEPT ![job[w]] = "scanning"]
         \/ child' = [child EXCEPT ![job[w]] = "terminated"]
  BY DEF Found, TimesOut, Runs
<1>2. job[w] < nextIdx
  BY <1>1 DEF ScanInv, ScanTypeOK
<1>3. ScanTypeOK'
  BY <1>1 DEF ScanInv, ScanTypeOK
<1>4. \A i \in Scanner : (i >= nextIdx => child[i] = "none")'
  <2> SUFFICES ASSUME NEW i \in Scanner, i >= nextIdx
               PROVE  child'[i] = "none"
    BY <1>1
  <2>1. i # job[w]
    BY <1>1, <1>2 DEF ScanInv, ScanTypeOK, Scanner
  <2>2. child[i] = "none"
    BY <1>1 DEF ScanInv
  <2>3. DOMAIN child = Scanner
    BY DEF ScanInv, ScanTypeOK
  <2> QED  BY <1>1, <2>1, <2>2, <2>3
<1>5. \A i \in Scanner : RunBy(i)' <=> RunBy(i)
  BY <1>1 DEF RunBy
<1> QED  BY <1>1, <1>3, <1>4, <1>5 DEF ScanInv

LEMMA NextScanInv == ScanInv /\ [ScanNext]_scanVars => ScanInv'
<1> SUFFICES ASSUME ScanInv, [ScanNext]_scanVars PROVE ScanInv'
  OBVIOUS
<1>1. CASE StartScan
  BY <1>1, StartScanStep
<1>2. ASSUME NEW w \in Worker, Missing(w) \/ Exits(w) \/ Throws(w) \/ Terminated(w)
      PROVE  ScanInv'
  <2>1. /\ scan = "running" /\ job[w] \in Scanner
        /\ \E result \in Result : Finish(w, result)
    BY <1>2 DEF Missing, Exits, Throws, Terminated, Runs, Result
  <2> QED  BY <2>1, FinishStep
<1>3. ASSUME NEW w \in Worker, Found(w) \/ TimesOut(w)
      PROVE  ScanInv'
  BY <1>3, ChildStep
<1>4. CASE ReturnScan
  <2>1. /\ scan = "running" /\ scan' = "returned" /\ Drained'
        /\ UNCHANGED <<nextIdx, job, child, starts, runs, errored>>
    BY <1>4 DEF ReturnScan, Drained
  <2>2. \A i \in Scanner : RunBy(i)' <=> RunBy(i)
    BY <2>1 DEF RunBy
  <2> QED  BY <2>1, <2>2 DEF ScanInv, ScanTypeOK
<1>5. CASE UNCHANGED scanVars
  <2>1. UNCHANGED <<scan, nextIdx, job, child, starts, runs, errored>>
    BY <1>5 DEF scanVars
  <2>2. \A i \in Scanner : RunBy(i)' <=> RunBy(i)
    BY <2>1 DEF RunBy
  <2> QED  BY <2>1, <2>2 DEF ScanInv, ScanTypeOK, Drained
<1> QED  BY <1>1, <1>2, <1>3, <1>4, <1>5 DEF ScanNext

(* Whatever the number of scanners and workers, and in whatever order the   *)
(* children end, ScanInv is an invariant of the scan.                       *)
THEOREM ScanInvariance == ScanSpec => []ScanInv
<1> QED  BY InitScanInv, NextScanInv, PTL DEF ScanSpec

(* A scan that returns has run every scanner once and lists exactly those   *)
(* that threw.                                                              *)
THEOREM ScanIsComplete == ScanSpec => []ResultsComplete
<1>1. ScanInv => ResultsComplete
  <2> SUFFICES ASSUME ScanInv, scan = "returned" PROVE
          \A i \in Scanner : starts[i] = 1 /\ runs[i] # "none"
    BY DEF ScanInv, ResultsComplete
  <2>1. \A w \in Worker : job[w] > Scanners /\ job[w] \in 1 .. nextIdx - 1
    BY DEF ScanInv, Drained
  <2>2. 1 \in Worker
    BY ScannerAssumption DEF Worker
  <2>3. nextIdx > Scanners /\ nextIdx \in Nat
    BY <2>1, <2>2, ScannerAssumption DEF ScanInv, ScanTypeOK
  <2>4. \A i \in Scanner : i < nextIdx /\ ~RunBy(i)
    BY <2>1, <2>3, ScannerAssumption DEF Scanner, RunBy
  <2> QED  BY <2>4 DEF ScanInv
<1> QED  BY <1>1, ScanInvariance, PTL
-----------------------------------------------------------------------------
(* Deep COBOL parsing.                                                     *)

LEMMA BatchFiles ==
    ASSUME NEW b \in DOMAIN Batches
    PROVE  /\ Batches[b] \in Seq(CobolFile) /\ FilesOf(b) \subseteq CobolFile
           /\ DOMAIN Batches[b] \subseteq Nat
<1>1. Batches[b] \in Seq(CobolFile)
  BY CobolAssumption
<1>2. \A i \in DOMAIN Batches[b] : Batches[b][i] \in CobolFile /\ i \in Nat
  BY <1>1
<1> QED  BY <1>1, <1>2 DEF FilesOf

(* The file the JVM is at is one of the batch's and it is not through.      *)
LEMMA AtFile ==
    ASSUME CobolInv, Working, Left # {}
    PROVE  CurrentFile \in FilesOf(batch) /\ CurrentFile \in CobolFile /\ ~Through(CurrentFile)
<1>1. batch \in DOMAIN Batches
  BY DEF CobolInv, JvmInv, Working
<1>2. Left \subseteq DOMAIN Batches[batch] /\ Left \subseteq Nat
  BY <1>1, BatchFiles DEF Left
<1>3. \E i \in Left : \A j \in Left : i <= j
  BY <1>2, LeastNatural
<1>4. PICK i \in Left : CurrentFile = Batches[batch][i]
  BY <1>3 DEF CurrentFile
<1>5. CurrentFile \in FilesOf(batch) /\ ~Through(CurrentFile)
  BY <1>2, <1>4 DEF Left, FilesOf
<1> QED  BY <1>1, <1>5, BatchFiles

(* Its next record is one it has. *)
LEMMA NextRecord ==
    ASSUME CobolInv, Working, Left # {}
    PROVE  \E k \in Nat : /\ k + 1 <= Records[CurrentFile]
                          /\ Printed(CurrentFile) \ {0} = 1 .. k
                          /\ NextLine = <<CurrentFile, k + 1>>
<1>1. CurrentFile \in CobolFile /\ ~Through(CurrentFile) /\ Records[CurrentFile] \in Nat
  BY AtFile, CobolAssumption
<1>2. PICK k \in 0 .. Records[CurrentFile] : Printed(CurrentFile) \ {0} = 1 .. k
  BY <1>1 DEF CobolInv, PrintInv
<1>3. Printed(CurrentFile) = 1 .. k
  BY <1>1, <1>2 DEF Through
<1>4. Cardinality(1 .. k) = k
  BY <1>1, <1>2, FS_Interval
<1>5. k # Records[CurrentFile]
  BY <1>1, <1>3, <1>4 DEF Through
<1> QED  BY <1>1, <1>2, <1>3, <1>4, <1>5 DEF NextLine

(* What has been printed after one more line. *)
LEMMA PrintedAppend ==
    ASSUME lines \in Seq(Line), NEW l \in Line, lines' = Append(lines, l), NEW f
    PROVE  Printed(f)' = Printed(f) \cup IF l[1] = f THEN {l[2]} ELSE {}
<1>1. /\ DOMAIN lines' = DOMAIN lines \cup {Len(lines) + 1}
      /\ lines'[Len(lines) + 1] = l
      /\ \A i \in DOMAIN lines : lines'[i] = lines[i]
  OBVIOUS
<1>2. {j \in DOMAIN lines' : lines'[j][1] = f} =
      {j \in DOMAIN lines : lines[j][1] = f} \cup IF l[1] = f THEN {Len(lines) + 1} ELSE {}
  BY <1>1
<1> QED  BY <1>1, <1>2 DEF Printed

LEMMA PrintStep ==
    ASSUME CobolInv, Working, Left # {}, lines' = Append(lines, NextLine)
    PROVE  NextLine \in Line /\ PrintInv'
<1>1. PICK k \in Nat : /\ k + 1 <= Records[CurrentFile]
                       /\ Printed(CurrentFile) \ {0} = 1 .. k
                       /\ NextLine = <<CurrentFile, k + 1>>
  BY NextRecord
<1>2. CurrentFile \in CobolFile /\ Records[CurrentFile] \in Nat /\ lines \in Seq(Line)
  BY AtFile, CobolAssumption DEF CobolInv, CobolTypeOK
<1>3. NextLine \in Line
  BY <1>1, <1>2 DEF Line
<1>4. ASSUME NEW f \in CobolFile
      PROVE  \E n \in 0 .. Records[f] : Printed(f)' \ {0} = 1 .. n
  <2>1. CASE f # CurrentFile
    <3>1. Printed(f)' = Printed(f)
      BY <1>1, <1>2, <1>3, <2>1, PrintedAppend
    <3>2. PICK n \in 0 .. Records[f] : Printed(f) \ {0} = 1 .. n
      BY DEF CobolInv, PrintInv
    <3> QED  BY <3>1, <3>2
  <2>2. CASE f = CurrentFile
    <3>1. Printed(f)' = Printed(f) \cup {k + 1}
      BY <1>1, <1>2, <1>3, <2>2, PrintedAppend
    <3>2. Printed(f)' \ {0} = 1 .. k + 1
      BY <1>1, <2>2, <3>1
    <3> QED  BY <1>1, <1>2, <2>2, <3>2
  <2> QED  BY <2>1, <2>2
<1> QED  BY <1>3, <1>4 DEF PrintInv

(* A diagnostic is no record. *)
LEMMA DiagnosticStep ==
    ASSUME CobolInv, NEW c \in CobolFile, lines' = Append(lines, <<c, 0>>)
    PROVE  <<c, 0>> \in Line /\ PrintInv'
<1>1. <<c, 0>> \in Line /\ lines \in Seq(Line)
  BY DEF Line, CobolInv, CobolTypeOK
<1>2. ASSUME NEW f \in CobolFile
      PROVE  \E n \in 0 .. Records[f] : Printed(f)' \ {0} = 1 .. n
  <2>1. PICK n \in 0 .. Records[f] : Printed(f) \ {0} = 1 .. n
    BY DEF CobolInv, PrintInv
  <2>2. Printed(f)' = Printed(f) \cup IF c = f THEN {0} ELSE {}
    BY <1>1, PrintedAppend
  <2> QED  BY <2>1, <2>2
<1> QED  BY <1>1, <1>2 DEF PrintInv

LEMMA NothingPrinted ==
    ASSUME PrintInv, UNCHANGED lines
    PROVE  PrintInv'
<1>1. \A f : Printed(f)' = Printed(f)
  BY DEF Printed
<1> QED  BY <1>1 DEF PrintInv

(* The supervisor hears what has been printed, or some of it.               *)
LEMMA HeardPrinted ==
    ASSUME CobolInv, NEW f
    PROVE  /\ Elements(f) \subseteq Printed(f) \ {0}
           /\ heard = 2 * Len(lines) =>
                 Elements(f) = Printed(f) \ {0} /\ (Flagged(f) <=> 0 \in Printed(f))
<1> DEFINE n == heard \div 2
<1>1. lines \in Seq(Line) /\ heard \in 0 .. 2 * Len(lines)
  BY DEF CobolInv, CobolTypeOK
<1>2. n \in 0 .. Len(lines) /\ (heard = 2 * Len(lines) => n = Len(lines))
  BY <1>1
<1>3. Parsed = SubSeq(lines, 1, n)
  BY DEF Parsed
<1> HIDE DEF n
<1>4. /\ DOMAIN Parsed = 1 .. n /\ DOMAIN lines = 1 .. Len(lines)
      /\ \A i \in DOMAIN Parsed : i \in DOMAIN lines /\ Parsed[i] = lines[i]
      /\ \A i \in DOMAIN lines : lines[i] = <<lines[i][1], lines[i][2]>>
  BY <1>1, <1>2, <1>3 DEF Line
<1>5. Elements(f) \subseteq Printed(f) \ {0}
  BY <1>4 DEF Elements, Printed
<1>6. ASSUME heard = 2 * Len(lines)
      PROVE  Elements(f) = Printed(f) \ {0} /\ (Flagged(f) <=> 0 \in Printed(f))
  <2>1. Parsed = lines
    BY <1>1, <1>2, <1>3, <1>6
  <2>2. Elements(f) = Printed(f) \ {0}
    BY <2>1 DEF Elements, Printed
  <2>3. Flagged(f) => 0 \in Printed(f)
    <3>1. ASSUME NEW i \in DOMAIN lines, <<f, 0>> = lines[i]
          PROVE  0 \in Printed(f)
      BY <3>1 DEF Printed
    <3> QED  BY <2>1, <3>1 DEF Flagged
  <2>4. 0 \in Printed(f) => Flagged(f)
    <3>1. ASSUME NEW i \in DOMAIN lines, lines[i][1] = f, lines[i][2] = 0
          PROVE  lines[i] = <<f, 0>>
      BY <1>4, <3>1
    <3> QED  BY <2>1, <3>1 DEF Flagged, Printed
  <2> QED  BY <2>2, <2>3, <2>4
<1> QED  BY <1>5, <1>6

(* A batch settles: its files are accounted for and those before stay so.   *)
LEMMA SettleStep ==
    ASSUME CobolInv, batch \in DOMAIN Batches, NEW crashed, Settle(crashed),
           jvm' \in {"none", "exited"},
           overtook \subseteq overtook', overtook' \subseteq DOMAIN Batches,
           crashed \/ batch \in overtook' \/ \A f \in FilesOf(batch) :
                                             Flagged(f) \/ Elements(f) = 1 .. Records[f]
    PROVE  CobolInv'
<1>1. FilesOf(batch) \subseteq CobolFile /\ batch \in 1 .. Len(Batches) /\ Len(Batches) \in Nat
  BY BatchFiles, CobolAssumption
<1>2. /\ timer' = "idle" /\ batch' = batch + 1
      /\ UNCHANGED <<lines, torn, heard, wedged, code>>
      /\ regex \subseteq regex' /\ died \subseteq died'
      /\ \A f \in Reparsed(crashed) : f \in regex'
      /\ regex' \subseteq regex \cup FilesOf(batch)
      /\ crashed => batch \in died'
      /\ died' \subseteq died \cup {batch}
  BY DEF Settle, Reparsed
<1>3. /\ asg' \in [CobolFile -> SUBSET Nat]
      /\ \A f \in CobolFile : asg[f] \subseteq asg'[f] /\ asg'[f] \subseteq 1 .. Records[f]
      /\ \A f \in FilesOf(batch) : Elements(f) \subseteq asg'[f]
  <2>1. asg' = [f \in CobolFile |->
                  IF f \in FilesOf(batch) THEN asg[f] \cup Elements(f) ELSE asg[f]]
    BY DEF Settle
  <2>2. ASSUME NEW f \in CobolFile
        PROVE  Elements(f) \subseteq 1 .. Records[f] /\ asg[f] \subseteq 1 .. Records[f]
    <3>1. PICK k \in 0 .. Records[f] : Printed(f) \ {0} = 1 .. k
      BY DEF CobolInv, PrintInv
    <3>2. Records[f] \in Nat /\ 1 .. k \subseteq 1 .. Records[f]
      BY <3>1, CobolAssumption
    <3> QED  BY <3>1, <3>2, HeardPrinted DEF CobolInv, AsgInv
  <2>3. \A f \in CobolFile : Records[f] \in Nat /\ 1 .. Records[f] \subseteq Nat
    BY CobolAssumption
  <2> QED  BY <1>1, <2>1, <2>2, <2>3
<1>4. CobolTypeOK'
  BY <1>1, <1>2, <1>3 DEF CobolInv, CobolTypeOK
<1>5. PrintInv' /\ JvmInv' /\ AsgInv'
  <2>1. PrintInv'
    BY <1>2 DEF CobolInv, PrintInv, Printed
  <2>2. JvmInv'
    BY <1>2 DEF CobolInv, JvmInv, Halves
  <2> QED  BY <1>3, <2>1, <2>2 DEF AsgInv
<1>6. ASSUME NEW b \in 1 .. batch' - 1, NEW f \in FilesOf(b)
      PROVE  \/ asg'[f] = 1 .. Records[f]
             \/ f \in regex'
             \/ b \in overtook'
             \/ b \in died' /\ asg'[f] # {}
  <2>1. b \in DOMAIN Batches
    BY <1>1, <1>2
  <2>2. f \in CobolFile
    BY <2>1, BatchFiles
  <2>3. CASE b = batch
    <3>1. CASE crashed
      BY <1>2, <1>3, <2>3, <3>1 DEF Reparsed
    <3>2. CASE ~crashed /\ Flagged(f)
      BY <1>2, <2>3, <3>2 DEF Reparsed
    <3>3. CASE ~crashed /\ Elements(f) = 1 .. Records[f]
      BY <1>3, <2>2, <2>3, <3>3
    <3> QED  BY <2>3, <3>1, <3>2, <3>3
  <2>4. CASE b # batch
    <3>1. b \in 1 .. batch - 1
      BY <1>1, <1>2, <2>1, <2>4
    <3>2. \/ asg[f] = 1 .. Records[f]
          \/ f \in regex
          \/ b \in overtook
          \/ b \in died /\ asg[f] # {}
      BY <3>1 DEF CobolInv, FilesAccounted
    <3> QED  BY <1>2, <1>3, <2>2, <3>2
  <2> QED  BY <2>3, <2>4
<1>7. FilesAccounted'
  BY <1>6 DEF FilesAccounted, FilesOf
<1> QED  BY <1>4, <1>5, <1>7 DEF CobolInv

(* A clean exit: the files are parsed, flagged or overtaken.                *)
LEMMA CleanExit ==
    ASSUME CobolInv, Clean, timer # "idle", jvm = "exited", NEW f \in FilesOf(batch)
    PROVE  heard < Halves \/ Flagged(f) \/ Elements(f) = 1 .. Records[f]
<1>1. /\ batch \in DOMAIN Batches /\ Left = {} /\ ~torn
      /\ lines \in Seq(Line) /\ heard \in Nat /\ heard <= Halves
  BY DEF CobolInv, CobolTypeOK, JvmInv, Clean
<1>2. f \in CobolFile /\ Records[f] \in Nat /\ Through(f)
  BY <1>1, BatchFiles, CobolAssumption DEF FilesOf, Left
<1>3. SUFFICES ASSUME heard = Halves, ~Flagged(f)
               PROVE  Elements(f) = 1 .. Records[f]
  BY <1>1 DEF Halves
<1>4. Elements(f) = Printed(f) \ {0} /\ 0 \notin Printed(f)
  BY <1>1, <1>3, HeardPrinted DEF Halves
<1>5. PICK k \in 0 .. Records[f] : Printed(f) \ {0} = 1 .. k
  BY <1>2 DEF CobolInv, PrintInv
<1>6. Printed(f) = 1 .. k /\ Cardinality(Printed(f)) = Records[f]
  BY <1>2, <1>4, <1>5 DEF Through
<1>7. Cardinality(1 .. k) = k
  BY <1>2, FS_Interval
<1> QED  BY <1>4, <1>6, <1>7

LEMMA InitCobolInv == CobolInit => CobolInv
<1> SUFFICES ASSUME CobolInit PROVE CobolInv
  OBVIOUS
<1>1. CobolTypeOK
  <2>1. lines \in Seq(Line) /\ heard \in 0 .. 2 * Len(lines)
    BY DEF CobolInit
  <2>2. batch \in 1 .. Len(Batches) + 1 /\ overtook \subseteq DOMAIN Batches
    BY CobolAssumption DEF CobolInit
  <2>3. asg \in [CobolFile -> SUBSET Nat]
    BY DEF CobolInit
  <2> QED  BY <2>1, <2>2, <2>3 DEF CobolInit, CobolTypeOK
<1>2. PrintInv
  <2>1. \A f \in CobolFile : Printed(f) = {} /\ Records[f] \in Nat
    BY CobolAssumption DEF CobolInit, Printed
  <2>2. 1 .. 0 = {}
    OBVIOUS
  <2> QED  BY <2>1, <2>2 DEF PrintInv
<1>3. JvmInv /\ AsgInv /\ FilesAccounted
  BY DEF CobolInit, JvmInv, Halves, AsgInv, FilesAccounted
<1> QED  BY <1>1, <1>2, <1>3 DEF CobolInv

(* The JVM goes on, or the supervisor hears of it: nothing settles.         *)
LEMMA FrameStep ==
    ASSUME CobolInv, CobolTypeOK', PrintInv', JvmInv', UNCHANGED <<batch, asg, regex, overtook, died>>
    PROVE  CobolInv'
<1>1. AsgInv'
  BY DEF CobolInv, AsgInv
<1>2. FilesAccounted'
  BY DEF CobolInv, FilesAccounted, FilesOf
<1> QED  BY <1>1, <1>2 DEF CobolInv

LEMMA NextCobolInv == CobolInv /\ [CobolNext]_cobolVars => CobolInv'
<1> SUFFICES ASSUME CobolInv, [CobolNext]_cobolVars PROVE CobolInv'
  OBVIOUS
<1>1. CobolTypeOK /\ PrintInv /\ JvmInv
  BY DEF CobolInv
<1>2. ASSUME Working, NEW l \in Line, lines' = Append(lines, l), PrintInv',
             UNCHANGED <<batch, asg, regex, overtook, died>>,
             UNCHANGED <<wedged, heard, timer>>,
             \/ UNCHANGED <<jvm, code, torn>>
             \/ jvm' = "exited" /\ code' = 1 /\ torn' = TRUE
      PROVE  CobolInv'
  <2>1. lines' \in Seq(Line) /\ Len(lines') = Len(lines) + 1
    BY <1>1, <1>2 DEF CobolTypeOK
  <2>2. lines \in Seq(Line) /\ heard \in 0 .. 2 * Len(lines) /\ ~torn /\ jvm = "running"
    BY <1>1, <1>2 DEF CobolTypeOK, JvmInv, Working
  <2>3. CobolTypeOK'
    <3>1. heard' \in 0 .. 2 * Len(lines')
      BY <1>2, <2>1, <2>2
    <3> QED  BY <1>1, <1>2, <2>1, <3>1 DEF CobolTypeOK
  <2>4. heard' <= Halves'
    BY <1>2, <2>1, <2>2 DEF Halves
  <2>5. JvmInv'
    BY <1>1, <1>2, <2>2, <2>4 DEF JvmInv
  <2> QED  BY <1>2, <2>3, <2>5, FrameStep
<1>3. CASE PrintRecord
  <2>1. NextLine \in Line /\ PrintInv'
    BY <1>3, PrintStep DEF PrintRecord
  <2> QED  BY <1>2, <1>3, <2>1 DEF PrintRecord
<1>4. CASE GiveUp
  <2>1. batch \in DOMAIN Batches
    BY <1>1, <1>4 DEF GiveUp, Working, JvmInv
  <2>2. PICK i \in DOMAIN Batches[batch] : lines' = Append(lines, <<Batches[batch][i], 0>>)
    BY <1>4 DEF GiveUp, Current
  <2>3. Batches[batch][i] \in CobolFile
    BY <2>1, BatchFiles
  <2>4. <<Batches[batch][i], 0>> \in Line /\ PrintInv'
    BY <2>2, <2>3, DiagnosticStep
  <2> QED  BY <1>2, <1>4, <2>2, <2>4 DEF GiveUp
<1>5. CASE Complete
  <2>1. CobolTypeOK' /\ PrintInv'
    BY <1>1, <1>5, NothingPrinted DEF Complete, CobolTypeOK
  <2>2. Left' = Left
    BY <1>5 DEF Complete, Left, Through, Printed
  <2>3. JvmInv'
    BY <1>1, <1>5, <2>2 DEF Complete, Working, JvmInv, Halves
  <2> QED  BY <1>5, <2>1, <2>3, FrameStep DEF Complete
<1>6. CASE Crash
  <2>1. CASE UNCHANGED <<lines, torn>>
    <3>1. CobolTypeOK' /\ PrintInv'
      BY <1>1, <1>6, <2>1, NothingPrinted DEF Crash, CobolTypeOK
    <3>2. JvmInv'
      BY <1>1, <1>6, <2>1 DEF Crash, Working, JvmInv, Halves
    <3> QED  BY <1>6, <3>1, <3>2, FrameStep DEF Crash
  <2>2. CASE Left # {} /\ lines' = Append(lines, NextLine) /\ torn' = TRUE
    <3>1. NextLine \in Line /\ PrintInv'
      BY <1>6, <2>2, PrintStep DEF Crash
    <3> QED  BY <1>2, <1>6, <2>2, <3>1 DEF Crash
  <2> QED  BY <1>6, <2>1, <2>2 DEF Crash
<1>7. CASE Wedge
  <2>1. CobolTypeOK' /\ PrintInv' /\ JvmInv'
    BY <1>1, <1>7, NothingPrinted DEF Wedge, Working, CobolTypeOK, JvmInv, Halves
  <2> QED  BY <1>7, <2>1, FrameStep DEF Wedge
<1>8. CASE Spawn
  <2>1. lines' = <<>> /\ Len(lines') = 0
    BY <1>8 DEF Spawn
  <2>2. CobolTypeOK'
    <3>1. lines' \in Seq(Line) /\ heard' \in 0 .. 2 * Len(lines')
      BY <1>8, <2>1 DEF Spawn
    <3> QED  BY <1>1, <1>8, <3>1 DEF Spawn, CobolTypeOK
  <2>3. PrintInv'
    <3>1. \A f \in CobolFile : Printed(f)' = {} /\ Records[f] \in Nat
      BY <2>1, CobolAssumption DEF Printed
    <3>2. 1 .. 0 = {}
      OBVIOUS
    <3> QED  BY <3>1, <3>2 DEF PrintInv
  <2>4. batch \in DOMAIN Batches
    BY <1>1, <1>8, CobolAssumption DEF Spawn, CobolTypeOK
  <2>5. JvmInv'
    BY <1>8, <2>1, <2>4 DEF Spawn, JvmInv, Halves
  <2> QED  BY <1>8, <2>2, <2>3, <2>5, FrameStep DEF Spawn
<1>9. CASE Data
  <2>1. heard' \in 0 .. 2 * Len(lines) /\ heard' <= Halves
    BY <1>1, <1>9 DEF Data, CobolTypeOK, Halves
  <2>2. CobolTypeOK' /\ PrintInv'
    BY <1>1, <1>9, <2>1, NothingPrinted DEF Data, jvmVars, CobolTypeOK
  <2>3. JvmInv'
    <3>1. Left' = Left /\ Halves' = Halves
      BY <1>9 DEF Data, jvmVars, Left, Through, Printed, Halves
    <3> QED  BY <1>1, <1>9, <2>1, <3>1 DEF Data, jvmVars, JvmInv
  <2> QED  BY <1>9, <2>2, <2>3, FrameStep DEF Data
<1>10. CASE OnExit
  <2>1. batch \in DOMAIN Batches /\ overtook \subseteq DOMAIN Batches
    BY <1>1, <1>10 DEF OnExit, JvmInv, CobolTypeOK
  <2>2. overtook \subseteq overtook' /\ overtook' \subseteq DOMAIN Batches
    BY <1>10, <2>1 DEF OnExit
  <2>3. ASSUME Clean
        PROVE  \/ batch \in overtook'
               \/ \A f \in FilesOf(batch) : Flagged(f) \/ Elements(f) = 1 .. Records[f]
    <3>1. CASE heard < Halves
      BY <1>10, <2>3, <3>1 DEF OnExit
    <3>2. CASE ~ (heard < Halves)
      BY <1>10, <2>3, <3>2, CleanExit DEF OnExit
    <3> QED  BY <3>1, <3>2
  <2> QED  BY <1>10, <2>1, <2>2, <2>3, SettleStep DEF OnExit
<1>11. CASE OnError
  BY <1>1, <1>11, SettleStep DEF OnError, JvmInv, CobolTypeOK
<1>12. CASE Timeout
  <2>1. Left' = Left /\ Halves' = Halves
    BY <1>12 DEF Timeout, jvmVars, Left, Through, Printed, Halves
  <2>2. CobolTypeOK' /\ PrintInv' /\ JvmInv'
    BY <1>1, <1>12, <2>1, NothingPrinted DEF Timeout, jvmVars, CobolTypeOK, JvmInv
  <2> QED  BY <1>12, <2>2, FrameStep DEF Timeout
<1>13. CASE Grace
  BY <1>1, <1>13, SettleStep DEF Grace, JvmInv, CobolTypeOK
<1>14. CASE UNCHANGED cobolVars
  <2>1. Left' = Left /\ Halves' = Halves
    BY <1>14 DEF cobolVars, jvmVars, Left, Through, Printed, Halves
  <2>2. CobolTypeOK' /\ PrintInv' /\ JvmInv'
    BY <1>1, <1>14, <2>1, NothingPrinted DEF cobolVars, jvmVars, CobolTypeOK, JvmInv
  <2> QED  BY <1>14, <2>2, FrameStep DEF cobolVars
<1> QED  BY <1>3, <1>4, <1>5, <1>6, <1>7, <1>8, <1>9, <1>10, <1>11, <1>12, <1>13, <1>14
         DEF CobolNext

(* CobolInv is an invariant of the bridge. *)
THEOREM CobolInvariance == CobolSpec => []CobolInv
<1> QED  BY InitCobolInv, NextCobolInv, PTL DEF CobolSpec

(* Whatever the JVM does, a file of a settled batch has all of its records or *)
(* was parsed again, but for the two cases that FilesAccounted names.        *)
THEOREM FilesAreAccounted == CobolSpec => []FilesAccounted
<1>1. CobolInv => FilesAccounted
  BY DEF CobolInv
<1> QED  BY <1>1, CobolInvariance, PTL

-----------------------------------------------------------------------------
(* The waves of the embeddings phase.                                      *)
LEMMA LoadType ==
    ASSUME WaveTypeOK
    PROVE  /\ load.jobs \in Nat /\ load.batchSize \in Nat \ {0}
           /\ load.workers \in Nat \ {0} /\ load.remote \in BOOLEAN
           /\ 1 .. load.workers \subseteq Lane /\ Lane \subseteq Nat \ {0}
           /\ MaxRetries \in Nat /\ first \in Nat \ {0}
  BY WaveAssumption DEF WaveTypeOK, Loading

LEMMA MulMono ==
    ASSUME NEW a \in Nat, NEW b \in Nat, NEW s \in Nat, a <= b
    PROVE  a * s \in Nat /\ b * s \in Nat /\ a * s <= b * s
<1>1. (b - a) * s >= 0 /\ b * s = a * s + (b - a) * s /\ a * s \in Int /\ (b - a) * s \in Int
  OBVIOUS
<1>2. a * s >= 0
  OBVIOUS
<1> QED  BY <1>1, <1>2

(* Batches lie one behind the other in the jobs of their wave.              *)
LEMMA OffsetFacts ==
    ASSUME WaveTypeOK, NEW b \in Lane, b <= load.workers
    PROVE  /\ Offset(b) \in Nat \ {0} /\ first <= Offset(b)
           /\ Stride \in Nat
           /\ Offset(b) + load.batchSize <= first + Stride
<1> DEFINE s == load.batchSize
           w == load.workers
<1>1. b \in Nat \ {0} /\ s \in Nat \ {0} /\ w \in Nat \ {0} /\ first \in Nat \ {0} /\ b <= w
  BY LoadType
<1>2. (b - 1) * s \in Nat /\ b * s \in Nat /\ w * s \in Nat /\ b * s <= w * s
  BY <1>1, MulMono
<1>3. b * s = (b - 1) * s + s /\ w * s = s * w
  BY <1>1
<1> QED  BY <1>1, <1>2, <1>3 DEF Offset, Stride

LEMMA OffsetsApart ==
    ASSUME WaveTypeOK, NEW b \in Lane, NEW c \in Lane, b < c
    PROVE  Offset(b) + load.batchSize <= Offset(c)
<1> DEFINE s == load.batchSize
<1>1. b \in Nat \ {0} /\ c \in Nat \ {0} /\ s \in Nat \ {0} /\ first \in Nat \ {0}
  BY LoadType
<1>2. (b - 1) * s \in Nat /\ b * s \in Nat /\ (c - 1) * s \in Nat /\ b * s <= (c - 1) * s
  BY <1>1, MulMono
<1>3. b * s = (b - 1) * s + s
  BY <1>1
<1> QED  BY <1>1, <1>2, <1>3 DEF Offset

LEMMA SizeFacts ==
    ASSUME WaveTypeOK, NEW b \in Lane
    PROVE  /\ Size(b) \in 0 .. load.batchSize
           /\ Size(b) > 0 => b <= load.workers
           /\ \A k \in 1 .. Size(b) :
                 /\ Slice(b)[k] = Offset(b) + k - 1 /\ Offset(b) \in Nat
                 /\ Slice(b)[k] \in Job
                 /\ first <= Slice(b)[k] /\ Slice(b)[k] < first + Stride
           /\ Slice(b) \in Seq(Job) /\ Len(Slice(b)) = Size(b)
<1>1. CASE b > load.workers \/ Offset(b) > load.jobs
  <2>1. Size(b) = 0
    BY <1>1 DEF Size
  <2>2. Slice(b) = <<>>
    BY <2>1 DEF Slice
  <2> QED  BY <2>1, <2>2, LoadType
<1>2. CASE ~(b > load.workers \/ Offset(b) > load.jobs)
  <2>1. b <= load.workers
    BY <1>2, LoadType
  <2>2. /\ Offset(b) \in Nat \ {0} /\ first <= Offset(b) /\ Stride \in Nat
        /\ Offset(b) + load.batchSize <= first + Stride
    BY <2>1, OffsetFacts
  <2>3. Size(b) \in 1 .. load.batchSize /\ Offset(b) + Size(b) - 1 <= load.jobs
    BY <1>2, <2>2, LoadType DEF Size, Lesser
  <2>4. \A k \in 1 .. Size(b) : Slice(b)[k] = Offset(b) + k - 1
    BY DEF Slice
  <2>5. \A k \in 1 .. Size(b) :
           /\ Offset(b) + k - 1 \in Job
           /\ first <= Offset(b) + k - 1 /\ Offset(b) + k - 1 < first + Stride
    BY <2>2, <2>3, LoadType DEF Job
  <2>6. Slice(b) \in Seq(Job) /\ Len(Slice(b)) = Size(b)
    BY <2>3, <2>5 DEF Slice
  <2> QED  BY <2>1, <2>2, <2>3, <2>4, <2>5, <2>6
<1> QED  BY <1>1, <1>2

(* No text is in two places.                                               *)
LEMMA TextsApart ==
    ASSUME WaveTypeOK, NEW b \in Lane, NEW c \in Lane,
           NEW k \in 1 .. Size(b), NEW l \in 1 .. Size(c), Slice(b)[k] = Slice(c)[l]
    PROVE  b = c /\ k = l
<1>1. /\ Size(b) \in 0 .. load.batchSize /\ Size(c) \in 0 .. load.batchSize
      /\ Slice(b)[k] = Offset(b) + k - 1 /\ Slice(c)[l] = Offset(c) + l - 1
      /\ Offset(b) \in Nat /\ Offset(c) \in Nat
  BY SizeFacts
<1>2. load.batchSize \in Nat /\ b \in Nat /\ c \in Nat
  BY LoadType
<1>3. k \in 1 .. load.batchSize /\ l \in 1 .. load.batchSize
  BY <1>1, <1>2
<1>4. Offset(b) + k = Offset(c) + l
  <2>1. Offset(b) + k - 1 = Offset(c) + l - 1
    BY <1>1
  <2>2. k \in Int /\ l \in Int /\ Offset(b) \in Int /\ Offset(c) \in Int
    BY <1>1, <1>2, <1>3
  <2> QED  BY <2>1, <2>2
<1>5. ~(b < c)
  <2>1. b < c => Offset(b) + load.batchSize <= Offset(c)
    BY OffsetsApart
  <2> QED  BY <1>1, <1>2, <1>3, <1>4, <2>1
<1>6. ~(c < b)
  <2>1. c < b => Offset(c) + load.batchSize <= Offset(b)
    BY OffsetsApart
  <2> QED  BY <1>1, <1>2, <1>3, <1>4, <2>1
<1>7. b = c
  BY <1>2, <1>5, <1>6
<1> QED  BY <1>1, <1>3, <1>4, <1>7

(* The text a batch is at is one of its own. *)
LEMMA TextAt ==
    ASSUME WaveInv, InWave, NEW b \in Lane, request[b] \in {"sent", "backoff"}
    PROVE  /\ Len(vectors[b]) + 1 \in 1 .. Size(b) /\ Len(vectors[b]) \in Nat
           /\ TextOf(b) = Slice(b)[Len(vectors[b]) + 1] /\ TextOf(b) \in Job
           /\ first <= TextOf(b) /\ TextOf(b) < first + Stride
<1>1. WaveTypeOK /\ BatchInv(b)
  BY DEF WaveInv
<1>2. Len(vectors[b]) \in Nat /\ Len(vectors[b]) < Size(b)
  BY <1>1 DEF WaveTypeOK, BatchInv
<1>3. Len(vectors[b]) + 1 \in 1 .. Size(b)
  BY <1>1, <1>2, SizeFacts
<1> QED  BY <1>1, <1>2, <1>3, SizeFacts DEF TextOf

(* What the run and the wave do not change. *)
LEMMA SliceFrame ==
    ASSUME UNCHANGED <<load, first>>
    PROVE  /\ Job' = Job /\ Stride' = Stride /\ Limit' = Limit
           /\ \A b : Size(b)' = Size(b) /\ Slice(b)' = Slice(b)
  BY DEF Job, Stride, Limit, Size, Slice, Offset

(* One batch goes on, the others stay as they are. *)
LEMMA BatchFrame ==
    ASSUME WaveInv, InWave, UNCHANGED <<load, wave, first, vecRows>>, NEW b \in Lane,
           WaveTypeOK',
           \A c \in Lane \ {b} : /\ request'[c] = request[c] /\ attempt'[c] = attempt[c]
                                  /\ vectors'[c] = vectors[c],
           BatchInv(b)', PostsInv'
    PROVE  WaveInv'
<1>1. RowsInv' /\ InWave'
  BY DEF WaveInv, RowsInv, InWave
<1>2. ASSUME NEW c \in Lane
      PROVE  BatchInv(c)'
  <2>1. CASE c = b
    BY <2>1
  <2>2. CASE c # b
    <3>1. BatchInv(c)
      BY DEF WaveInv
    <3>2. Size(c)' = Size(c) /\ Slice(c)' = Slice(c)
      BY SliceFrame
    <3> QED  BY <2>2, <3>1, <3>2 DEF BatchInv
  <2> QED  BY <2>1, <2>2
<1> QED  BY <1>1, <1>2 DEF WaveInv

(* A batch sends the next text, which is at place n: m times it has been.   *)
LEMMA PostOne ==
    ASSUME WaveInv, InWave, load.remote, UNCHANGED <<load, wave, first>>, NEW b \in Lane,
           \A c \in Lane \ {b} : /\ request'[c] = request[c] /\ attempt'[c] = attempt[c]
                                  /\ vectors'[c] = vectors[c],
           NEW n \in 1 .. Size(b), posts' = Posted({Slice(b)[n]}), Len(vectors'[b]) = n - 1,
           NEW m \in Nat, posts[Slice(b)[n]] = m, m + 1 <= Limit, attempt'[b] = m,
           \A k \in n + 1 .. Size(b) : posts[Slice(b)[k]] = 0
    PROVE  PostsInv' /\ posts' \in [Job -> Nat]'
<1> DEFINE t == Slice(b)[n]
<1>1. WaveTypeOK /\ PostsInv /\ posts \in [Job -> Nat] /\ Size(b) \in Nat
  <2>1. WaveTypeOK /\ PostsInv
    BY DEF WaveInv
  <2>2. posts \in [Job -> Nat]
    BY <2>1 DEF WaveTypeOK
  <2>3. Size(b) \in 0 .. load.batchSize /\ load.batchSize \in Nat
    BY <2>1, SizeFacts, LoadType
  <2> QED  BY <2>1, <2>2, <2>3
<1>2. /\ Job' = Job /\ Stride' = Stride /\ Limit' = Limit /\ InWave'
      /\ \A c : Size(c)' = Size(c) /\ Slice(c)' = Slice(c)
  BY SliceFrame DEF InWave
<1>3. t \in Job /\ t < first + Stride
  BY <1>1, SizeFacts
<1>4. posts' = [j \in Job |-> IF j = t THEN posts[j] + 1 ELSE posts[j]]
  BY DEF Posted
<1>5. Reached' = Reached /\ Reached = first + Stride
  BY <1>2 DEF Reached
<1>6. \A j \in Job : posts'[j] <= Limit /\ (j >= Reached => posts'[j] = 0)
  <2>1. first \in Nat /\ Stride \in Nat /\ t \in Nat
    BY <1>1, <1>3, LoadType DEF Stride, Job
  <2>2. ASSUME NEW j \in Job
        PROVE  posts'[j] <= Limit
    <3>1. CASE j = t
      <4>1. posts'[j] = m + 1
        BY <1>4, <3>1
      <4> QED  BY <4>1
    <3>2. CASE j # t
      <4>1. posts'[j] = posts[j]
        BY <1>4, <3>2
      <4> QED  BY <1>1, <4>1 DEF PostsInv
    <3> QED  BY <3>1, <3>2
  <2>3. ASSUME NEW j \in Job, j >= Reached
        PROVE  posts'[j] = 0
    <3>1. j # t
      BY <1>3, <1>5, <2>1, <2>3
    <3> QED  BY <1>1, <1>4, <2>3, <3>1 DEF PostsInv
  <2> QED  BY <2>2, <2>3
<1>7. ASSUME NEW c \in Lane, request'[c] \in {"sent", "backoff"}
      PROVE  /\ posts'[TextOf(c)'] = attempt'[c] + 1
             /\ \A k \in Len(vectors'[c]) + 2 .. Size(c) : posts'[Slice(c)[k]] = 0
  <2>1. CASE c = b
    <3>1. TextOf(c)' = t
      BY <1>2, <2>1 DEF TextOf
    <3>2. posts'[t] = m + 1
      BY <1>3, <1>4
    <3>3. ASSUME NEW k \in n + 1 .. Size(b)
          PROVE  posts'[Slice(b)[k]] = 0
      <4>1. k \in 1 .. Size(b) /\ k # n
        BY <1>1
      <4>2. Slice(b)[k] \in Job /\ Slice(b)[k] # t
        BY <1>1, <4>1, SizeFacts, TextsApart
      <4> QED  BY <1>4, <4>2
    <3>4. Len(vectors'[c]) + 2 = n + 1
      BY <1>1, <2>1
    <3> QED  BY <2>1, <3>1, <3>2, <3>3, <3>4
  <2>2. CASE c # b
    <3>1. request[c] \in {"sent", "backoff"} /\ vectors'[c] = vectors[c] /\ attempt'[c] = attempt[c]
      BY <1>7, <2>2
    <3>2. /\ posts[TextOf(c)] = attempt[c] + 1
          /\ \A k \in Len(vectors[c]) + 2 .. Size(c) : posts[Slice(c)[k]] = 0
      BY <1>1, <3>1 DEF PostsInv
    <3>3. /\ Len(vectors[c]) + 1 \in 1 .. Size(c) /\ Len(vectors[c]) \in Nat
          /\ TextOf(c) = Slice(c)[Len(vectors[c]) + 1]
      BY <3>1, TextAt
    <3>4. TextOf(c)' = TextOf(c)
      BY <1>2, <3>1 DEF TextOf
    <3>5. \A k \in 1 .. Size(c) : Slice(c)[k] \in Job /\ Slice(c)[k] # t
      BY <1>1, <2>2, SizeFacts, TextsApart
    <3>6. posts'[TextOf(c)] = attempt[c] + 1
      <4>1. TextOf(c) \in Job /\ TextOf(c) # t
        BY <3>3, <3>5
      <4> QED  BY <1>4, <3>2, <4>1
    <3>7. ASSUME NEW k \in Len(vectors[c]) + 2 .. Size(c)
          PROVE  posts'[Slice(c)[k]] = 0
      <4>1. k \in 1 .. Size(c)
        BY <3>3
      <4> QED  BY <1>4, <3>2, <3>5, <4>1
    <3> QED  BY <3>1, <3>4, <3>6, <3>7
  <2> QED  BY <2>1, <2>2
<1>8. posts' \in [Job -> Nat]
  <2>1. \A j \in Job : posts[j] \in Nat /\ posts[j] + 1 \in Nat
    BY <1>1
  <2> HIDE DEF t
  <2> QED  BY <1>4, <2>1
<1> QED  BY <1>2, <1>5, <1>6, <1>7, <1>8 DEF PostsInv

LEMMA LaunchStep ==
    ASSUME WaveInv, Launch
    PROVE  WaveInv'
<1> DEFINE S == UNION {IF load.remote THEN {Slice(b)[1]} ELSE Texts(b) :
                          b \in {c \in Lane : Texts(c) # {}}}
<1>1. /\ WaveTypeOK /\ RowsInv /\ PostsInv /\ posts \in [Job -> Nat]
      /\ wave = "ready" /\ ~InWave /\ Reached = first
  BY DEF WaveInv, WaveTypeOK, Launch, InWave, Reached
<1>2. /\ Job' = Job /\ Stride' = Stride /\ Limit' = Limit
      /\ \A c : Size(c)' = Size(c) /\ Slice(c)' = Slice(c)
  BY SliceFrame DEF Launch
<1>3. /\ wave' = "waiting" /\ InWave' /\ Reached' = first + Stride
      /\ posts' = [j \in Job |-> IF j \in S THEN posts[j] + 1 ELSE posts[j]]
  BY <1>2 DEF Launch, InWave, Reached, Posted
<1>4. /\ first \in Nat \ {0} /\ Stride \in Nat /\ load.jobs \in Nat /\ Job \subseteq Nat
      /\ MaxRetries \in Nat /\ Limit \in Nat /\ 1 <= Limit
  BY <1>1, LoadType DEF Stride, Job, Limit
<1>5. \A b \in Lane : Size(b) \in Nat /\ (Texts(b) = {} <=> Size(b) = 0)
  <2>1. \A b \in Lane : Size(b) \in 0 .. load.batchSize /\ load.batchSize \in Nat
    BY <1>1, SizeFacts, LoadType
  <2> QED  BY <2>1 DEF Texts
<1>6. \A j \in S : \E b \in Lane : \E k \in 1 .. Size(b) :
         j = Slice(b)[k] /\ (load.remote => k = 1)
  <2>1. ASSUME NEW b \in Lane, Texts(b) # {}
        PROVE  1 \in 1 .. Size(b)
    BY <1>5, <2>1
  <2> QED  BY <2>1 DEF Texts
<1>7. \A j \in S : j \in Job /\ first <= j /\ j < first + Stride
  BY <1>1, <1>6, SizeFacts
<1>8. \A j \in Job : /\ posts'[j] \in Nat
                     /\ j \in S => posts'[j] = 1
                     /\ j \notin S => posts'[j] = posts[j]
                     /\ j \notin S /\ j >= first => posts'[j] = 0
  <2>1. \A j \in Job : j >= first => posts[j] = 0
    BY <1>1 DEF PostsInv
  <2> HIDE DEF S
  <2> QED  BY <1>1, <1>3, <1>7, <2>1
<1>9. PostsInv'
  <2>1. \A j \in Job : posts'[j] <= Limit
    BY <1>1, <1>4, <1>8 DEF PostsInv
  <2>2. \A j \in Job : j >= first + Stride => posts'[j] = 0
    <3>1. ASSUME NEW j \in Job, j >= first + Stride
          PROVE  j \notin S /\ j >= first
      <4>1. j \in Nat
        BY <1>4
      <4> QED  BY <1>4, <1>7, <3>1, <4>1
    <3> QED  BY <1>8, <3>1
  <2>3. ASSUME load.remote, NEW b \in Lane, request'[b] \in {"sent", "backoff"}
        PROVE  /\ posts'[TextOf(b)'] = attempt'[b] + 1
               /\ \A k \in Len(vectors'[b]) + 2 .. Size(b) : posts'[Slice(b)[k]] = 0
    <3>1. Texts(b) # {} /\ attempt'[b] = 0 /\ Len(vectors'[b]) = 0
      BY <2>3 DEF Launch
    <3>2. 1 \in 1 .. Size(b) /\ TextOf(b)' = Slice(b)[1]
      BY <1>2, <1>5, <3>1 DEF TextOf
    <3>3. Slice(b)[1] \in S /\ Slice(b)[1] \in Job
      BY <1>1, <2>3, <3>1, <3>2, SizeFacts
    <3>4. ASSUME NEW k \in 2 .. Size(b)
          PROVE  posts'[Slice(b)[k]] = 0
      <4>1. k \in 1 .. Size(b) /\ k # 1
        BY <1>5
      <4>2. Slice(b)[k] \in Job /\ Slice(b)[k] >= first
        BY <1>1, <1>4, <4>1, SizeFacts
      <4>3. Slice(b)[k] \notin S
        <5>1. ASSUME NEW c \in Lane, NEW l \in 1 .. Size(c), l = 1, Slice(b)[k] = Slice(c)[l]
              PROVE  FALSE
          BY <1>1, <4>1, <5>1, TextsApart
        <5> QED  BY <1>6, <2>3, <5>1
      <4> QED  BY <1>8, <4>2, <4>3
    <3> QED  BY <1>8, <3>1, <3>2, <3>3, <3>4
  <2> QED  BY <1>2, <1>3, <2>1, <2>2, <2>3 DEF PostsInv, Launch
<1>10. ASSUME NEW b \in Lane
       PROVE  BatchInv(b)'
  <2>1. /\ request'[b] = (IF Size(b) = 0 THEN "none" ELSE "sent")
        /\ vectors'[b] = <<>> /\ Len(vectors'[b]) = 0
    BY <1>5 DEF Launch
  <2>2. SubSeq(Slice(b), 1, 0) = <<>>
    BY <1>1, SizeFacts
  <2>3. Size(b) \in Nat
    BY <1>5
  <2> QED  BY <1>2, <2>1, <2>2, <2>3 DEF BatchInv
<1>11. WaveTypeOK'
  <2>1. posts' \in [Job -> Nat]
    BY <1>3, <1>8
  <2>2. 0 \in 0 .. MaxRetries /\ <<>> \in Seq(Job)
    BY <1>4
  <2>3. /\ request' \in [Lane -> {"none", "sent", "backoff", "answered", "rejected"}]
        /\ attempt' \in [Lane -> 0 .. MaxRetries]
        /\ vectors' \in [Lane -> Seq(Job)]
    BY <2>2 DEF Launch
  <2> QED  BY <1>1, <1>2, <1>3, <2>1, <2>3 DEF WaveTypeOK, Launch
<1>12. RowsInv'
  BY <1>1, <1>3 DEF RowsInv, Launch
<1> QED  BY <1>3, <1>9, <1>10, <1>11, <1>12 DEF WaveInv

LEMMA AnswerLocalStep ==
    ASSUME WaveInv, NEW b \in Lane, AnswerLocal(b)
    PROVE  WaveInv'
<1>1. WaveTypeOK /\ PostsInv /\ InWave /\ ~load.remote /\ BatchInv(b)
  BY DEF WaveInv, AnswerLocal
<1>2. /\ Job' = Job /\ Stride' = Stride /\ Limit' = Limit
      /\ \A c : Size(c)' = Size(c) /\ Slice(c)' = Slice(c)
  BY SliceFrame DEF AnswerLocal
<1>3. /\ Slice(b) \in Seq(Job) /\ Len(Slice(b)) = Size(b) /\ Size(b) \in Nat
      /\ SubSeq(Slice(b), 1, Size(b)) = Slice(b)
  <2>1. Slice(b) \in Seq(Job) /\ Len(Slice(b)) = Size(b)
    BY <1>1, SizeFacts
  <2> QED  BY <2>1
<1>4. WaveTypeOK'
  BY <1>1, <1>2, <1>3 DEF WaveTypeOK, AnswerLocal
<1>5. request'[b] = "answered" /\ vectors'[b] = Slice(b) /\ attempt'[b] = attempt[b]
  BY <1>1 DEF WaveTypeOK, AnswerLocal
<1>6. BatchInv(b)'
  BY <1>1, <1>2, <1>3, <1>5 DEF BatchInv, AnswerLocal
<1>7. PostsInv'
  BY <1>1, <1>2 DEF PostsInv, Reached, InWave, AnswerLocal
<1> QED  BY <1>1, <1>4, <1>6, <1>7, BatchFrame DEF AnswerLocal, WaveTypeOK

LEMMA AnswerRemoteStep ==
    ASSUME WaveInv, NEW b \in Lane, AnswerRemote(b)
    PROVE  WaveInv'
<1> DEFINE n == Len(vectors[b])
<1>1. WaveTypeOK /\ PostsInv /\ InWave /\ load.remote /\ BatchInv(b) /\ request[b] = "sent"
  BY DEF WaveInv, AnswerRemote
<1>2. /\ Job' = Job /\ Stride' = Stride /\ Limit' = Limit
      /\ \A c : Size(c)' = Size(c) /\ Slice(c)' = Slice(c)
  BY SliceFrame DEF AnswerRemote
<1>3. n \in Nat /\ n + 1 \in 1 .. Size(b) /\ TextOf(b) = Slice(b)[n + 1]
  BY <1>1, TextAt
<1>4. Slice(b) \in Seq(Job) /\ Len(Slice(b)) = Size(b) /\ Size(b) \in Nat
  BY <1>1, SizeFacts
<1>5. /\ vectors'[b] = SubSeq(Slice(b), 1, n + 1) /\ vectors'[b] \in Seq(Job)
      /\ Len(vectors'[b]) = n + 1 /\ attempt'[b] = 0
  <2>1. vectors'[b] = Append(vectors[b], Slice(b)[n + 1]) /\ attempt'[b] = 0
    BY <1>1, <1>3 DEF AnswerRemote, WaveTypeOK
  <2>2. vectors[b] = SubSeq(Slice(b), 1, n)
    BY <1>1 DEF BatchInv
  <2> HIDE DEF n
  <2>3. n + 1 <= Len(Slice(b))
    BY <1>3, <1>4
  <2>4. vectors'[b] = SubSeq(Slice(b), 1, n + 1) /\ vectors'[b] \in Seq(Job)
    BY <1>3, <1>4, <2>1, <2>2, <2>3, SubSeqAppend
  <2>5. Len(SubSeq(Slice(b), 1, n + 1)) = n + 1
    BY <1>3, <1>4, <2>3
  <2> QED  BY <2>1, <2>4, <2>5
<1>6. \A c \in Lane \ {b} : /\ request'[c] = request[c] /\ attempt'[c] = attempt[c]
                             /\ vectors'[c] = vectors[c]
  BY <1>1 DEF AnswerRemote, WaveTypeOK
<1>7. /\ vectors' \in [Lane -> Seq(Job)] /\ attempt' \in [Lane -> 0 .. MaxRetries]
      /\ request' \in [Lane -> {"none", "sent", "backoff", "answered", "rejected"}]
  <2>1. 0 \in 0 .. MaxRetries
    BY <1>1, LoadType
  <2>2. vectors' = [vectors EXCEPT ![b] = vectors'[b]]
    BY <1>1 DEF AnswerRemote, WaveTypeOK
  <2>3. vectors' \in [Lane -> Seq(Job)]
    BY <1>1, <1>5, <2>2 DEF WaveTypeOK
  <2> QED  BY <1>1, <2>1, <2>3 DEF AnswerRemote, WaveTypeOK
<1>8. UNCHANGED <<load, wave, first, vecRows>>
  BY DEF AnswerRemote
<1> HIDE DEF n
<1>9. CASE n + 1 = Size(b)
  <2>1. request'[b] = "answered" /\ posts' = posts
    BY <1>1, <1>5, <1>9 DEF AnswerRemote, WaveTypeOK
  <2>2. BatchInv(b)'
    BY <1>2, <1>3, <1>4, <1>5, <1>9, <2>1 DEF BatchInv
  <2>3. PostsInv'
    <3>1. \A c \in Lane : request'[c] \in {"sent", "backoff"} =>
             /\ request[c] \in {"sent", "backoff"} /\ vectors'[c] = vectors[c]
             /\ attempt'[c] = attempt[c] /\ TextOf(c)' = TextOf(c)
      BY <1>2, <1>6, <2>1 DEF TextOf
    <3>2. InWave' /\ Reached' = Reached
      BY <1>1, <1>2, <1>8 DEF InWave, Reached
    <3> QED  BY <1>1, <1>2, <1>8, <2>1, <3>1, <3>2 DEF PostsInv
  <2>4. WaveTypeOK'
    BY <1>1, <1>2, <1>7, <1>8, <2>1 DEF WaveTypeOK
  <2> QED  BY <1>1, <1>6, <1>8, <2>2, <2>3, <2>4, BatchFrame
<1>10. CASE n + 1 # Size(b)
  <2>1. request' = request /\ posts' = Posted({Slice(b)[n + 2]})
    <3>1. Len(vectors'[b]) + 1 = n + 2
      BY <1>3, <1>5
    <3> QED  BY <1>5, <1>10, <3>1 DEF AnswerRemote
  <2>2. n + 2 \in 1 .. Size(b)
    BY <1>3, <1>4, <1>10
  <2>3. BatchInv(b)'
    BY <1>1, <1>2, <1>3, <1>4, <1>5, <2>1, <2>2 DEF BatchInv
  <2>4. \A k \in n + 2 .. Size(b) : posts[Slice(b)[k]] = 0
    BY <1>1 DEF PostsInv, n
  <2>5. PostsInv' /\ posts' \in [Job -> Nat]'
    <3>1. SUFFICES ASSUME NEW p, p = n + 2
                   PROVE  PostsInv' /\ posts' \in [Job -> Nat]'
      OBVIOUS
    <3>2. p \in 1 .. Size(b) /\ posts' = Posted({Slice(b)[p]}) /\ Len(vectors'[b]) = p - 1
      BY <1>3, <1>5, <2>1, <2>2, <3>1
    <3>3. \A k \in p + 1 .. Size(b) : posts[Slice(b)[k]] = 0
      BY <1>3, <1>4, <2>4, <3>1
    <3>4. posts[Slice(b)[p]] = 0 /\ 0 + 1 <= Limit
      BY <1>1, <1>4, <2>4, <3>1, <3>2, LoadType DEF Limit
    <3> QED  BY <1>1, <1>5, <1>6, <1>8, <3>2, <3>3, <3>4, PostOne
  <2>6. WaveTypeOK'
    BY <1>1, <1>2, <1>7, <1>8, <2>5 DEF WaveTypeOK
  <2> QED  BY <1>1, <1>6, <1>8, <2>3, <2>5, <2>6, BatchFrame
<1> QED  BY <1>9, <1>10

LEMMA FailStep ==
    ASSUME WaveInv, NEW b \in Lane, FailTransient(b) \/ FailFinally(b)
    PROVE  WaveInv'
<1>1. WaveTypeOK /\ PostsInv /\ InWave /\ BatchInv(b) /\ request[b] = "sent"
  BY DEF WaveInv, FailTransient, FailFinally
<1>2. /\ Job' = Job /\ Stride' = Stride /\ Limit' = Limit
      /\ \A c : Size(c)' = Size(c) /\ Slice(c)' = Slice(c)
  BY SliceFrame DEF FailTransient, FailFinally
<1>3. UNCHANGED <<load, wave, first, attempt, vectors, vecRows, posts>>
  BY DEF FailTransient, FailFinally
<1>4. \/ request' = [request EXCEPT ![b] = "rejected"]
      \/ /\ request' = [request EXCEPT ![b] = "backoff"]
         /\ load.remote /\ attempt[b] < MaxRetries
  BY DEF FailTransient, FailFinally, Retried
<1>5. /\ request' \in [Lane -> {"none", "sent", "backoff", "answered", "rejected"}]
      /\ \A c \in Lane \ {b} : request'[c] = request[c]
      /\ request'[b] = "rejected" \/ (request'[b] = "backoff" /\ load.remote /\ attempt[b] < MaxRetries)
  BY <1>1, <1>4 DEF WaveTypeOK
<1>6. WaveTypeOK'
  BY <1>1, <1>2, <1>3, <1>5 DEF WaveTypeOK
<1>7. BatchInv(b)'
  <2>1. Size(b) # 0
    BY <1>1 DEF BatchInv
  <2> QED  BY <1>1, <1>2, <1>3, <1>5, <2>1 DEF BatchInv
<1>8. PostsInv'
  <2>1. \A c \in Lane : request'[c] \in {"sent", "backoff"} =>
           request[c] \in {"sent", "backoff"} /\ TextOf(c)' = TextOf(c)
    BY <1>1, <1>2, <1>3, <1>5 DEF TextOf
  <2>2. InWave' /\ Reached' = Reached
    BY <1>1, <1>2, <1>3 DEF InWave, Reached
  <2> QED  BY <1>1, <1>2, <1>3, <2>1, <2>2 DEF PostsInv
<1> QED  BY <1>1, <1>3, <1>5, <1>6, <1>7, <1>8, BatchFrame

LEMMA PostAgainStep ==
    ASSUME WaveInv, NEW b \in Lane, PostAgain(b)
    PROVE  WaveInv'
<1>1. WaveTypeOK /\ PostsInv /\ InWave /\ BatchInv(b) /\ request[b] = "backoff"
  BY DEF WaveInv, PostAgain
<1>2. /\ Job' = Job /\ Stride' = Stride /\ Limit' = Limit
      /\ \A c : Size(c)' = Size(c) /\ Slice(c)' = Slice(c)
  BY SliceFrame DEF PostAgain
<1>3. UNCHANGED <<load, wave, first, vectors, vecRows>>
  BY DEF PostAgain
<1>4. load.remote /\ attempt[b] < MaxRetries /\ attempt[b] \in Nat /\ MaxRetries \in Nat
  BY <1>1, LoadType DEF BatchInv, WaveTypeOK
<1>5. /\ request' = [request EXCEPT ![b] = "sent"]
      /\ attempt' = [attempt EXCEPT ![b] = attempt[b] + 1]
      /\ posts' = Posted({TextOf(b)})
  BY DEF PostAgain
<1>6. /\ request' \in [Lane -> {"none", "sent", "backoff", "answered", "rejected"}]
      /\ attempt' \in [Lane -> 0 .. MaxRetries]
      /\ \A c \in Lane \ {b} : request'[c] = request[c] /\ attempt'[c] = attempt[c]
      /\ request'[b] = "sent" /\ attempt'[b] = attempt[b] + 1
  <2>1. attempt[b] + 1 \in 0 .. MaxRetries
    BY <1>4
  <2> QED  BY <1>1, <1>5, <2>1 DEF WaveTypeOK
<1>7. BatchInv(b)'
  <2>1. Size(b) # 0
    BY <1>1 DEF BatchInv
  <2> QED  BY <1>1, <1>2, <1>3, <1>6, <2>1 DEF BatchInv
<1>8. PostsInv' /\ posts' \in [Job -> Nat]'
  <2>1. SUFFICES ASSUME NEW p, p = Len(vectors[b]) + 1, NEW m, m = attempt[b] + 1
                 PROVE  PostsInv' /\ posts' \in [Job -> Nat]'
    OBVIOUS
  <2>2. /\ p \in 1 .. Size(b) /\ Len(vectors[b]) \in Nat /\ TextOf(b) = Slice(b)[p]
    BY <1>1, <2>1, TextAt
  <2>3. posts' = Posted({Slice(b)[p]}) /\ Len(vectors'[b]) = p - 1
    BY <1>3, <1>5, <2>1, <2>2
  <2>4. /\ posts[Slice(b)[p]] = m
        /\ \A k \in p + 1 .. Size(b) : posts[Slice(b)[k]] = 0
    <3>1. /\ posts[TextOf(b)] = attempt[b] + 1
          /\ \A k \in Len(vectors[b]) + 2 .. Size(b) : posts[Slice(b)[k]] = 0
      BY <1>1, <1>4 DEF PostsInv
    <3>2. p + 1 = Len(vectors[b]) + 2
      BY <2>1, <2>2
    <3> QED  BY <2>1, <2>2, <3>1, <3>2
  <2>5. m \in Nat /\ m + 1 <= Limit /\ attempt'[b] = m
    BY <1>4, <1>6, <2>1 DEF Limit
  <2>6. \A c \in Lane \ {b} : /\ request'[c] = request[c] /\ attempt'[c] = attempt[c]
                               /\ vectors'[c] = vectors[c]
    BY <1>3, <1>6
  <2> QED  BY <1>1, <1>3, <1>4, <2>2, <2>3, <2>4, <2>5, <2>6, PostOne
<1>9. WaveTypeOK'
  BY <1>1, <1>2, <1>3, <1>6, <1>8 DEF WaveTypeOK
<1> QED  BY <1>1, <1>3, <1>6, <1>7, <1>8, <1>9, BatchFrame

(* Rows 1 .. m and then those of a batch. *)
LEMMA MoreRows ==
    ASSUME NEW m \in Nat, NEW n \in Nat
    PROVE  [j \in 1 .. m |-> <<j, j>>] \o [k \in 1 .. n |-> <<m + k, m + k>>] =
           [j \in 1 .. m + n |-> <<j, j>>]
<1> DEFINE s == [j \in 1 .. m |-> <<j, j>>]
           r == [k \in 1 .. n |-> <<m + k, m + k>>]
           t == [j \in 1 .. m + n |-> <<j, j>>]
<1>1. s \in Seq(Nat \X Nat) /\ Len(s) = m /\ \A j \in 1 .. m : s[j] = <<j, j>>
  OBVIOUS
<1>2. r \in Seq(Nat \X Nat) /\ Len(r) = n /\ \A k \in 1 .. n : r[k] = <<m + k, m + k>>
  OBVIOUS
<1>3. t \in Seq(Nat \X Nat) /\ Len(t) = m + n /\ \A j \in 1 .. m + n : t[j] = <<j, j>>
  OBVIOUS
<1> HIDE DEF s, r, t
<1>4. /\ s \o r \in Seq(Nat \X Nat) /\ Len(s \o r) = m + n
      /\ \A j \in 1 .. m + n : (s \o r)[j] = IF j <= m THEN s[j] ELSE r[j - m]
  BY <1>1, <1>2, ConcatProperties
<1>5. ASSUME NEW j \in 1 .. m + n
      PROVE  (s \o r)[j] = t[j]
  <2>1. CASE j <= m
    <3>1. j \in 1 .. m
      BY <2>1
    <3>2. (s \o r)[j] = s[j]
      BY <1>4, <2>1
    <3> QED  BY <1>1, <1>3, <3>1, <3>2
  <2>2. CASE j > m
    <3>1. PICK k \in 1 .. n : j = m + k
      <4>1. j - m \in 1 .. n /\ j = m + (j - m)
        BY <2>2
      <4> QED  BY <4>1
    <3>2. (s \o r)[j] = r[k]
      <4>1. j - m = k
        BY <3>1
      <4>2. (s \o r)[j] = r[j - m]
        BY <1>4, <2>2
      <4> QED  BY <4>1, <4>2
    <3>3. r[k] = <<j, j>> /\ t[j] = <<j, j>>
      BY <1>2, <1>3, <3>1
    <3> QED  BY <3>2, <3>3
  <2>3. j <= m \/ j > m
    OBVIOUS
  <2> QED  BY <2>1, <2>2, <2>3
<1>6. s \o r = t
  BY <1>3, <1>4, <1>5, SameSeq
<1> QED  BY <1>6 DEF s, r, t

LEMMA LesserStep ==
    ASSUME NEW x \in Nat, NEW s \in Nat \ {0}, NEW n \in Nat
    PROVE  /\ Lesser(x, n) \in Nat
           /\ Lesser(x + s, n) = Lesser(x, n) + IF x + 1 > n THEN 0 ELSE Lesser(s, n - (x + 1) + 1)
           /\ x + 1 <= n => Lesser(x, n) = x
  BY DEF Lesser

(* The rows up to the end of batch b of the wave. *)
RowsTo(b) == [j \in 1 .. Lesser(first - 1 + b * load.batchSize, load.jobs) |-> <<j, j>>]

LEMMA BatchRows ==
    ASSUME WaveInv, wave = "waiting", WaveDone, NEW b \in 1 .. load.workers
    PROVE  RowsTo(b - 1) \o RowsOf(b) = RowsTo(b)
<1> DEFINE s == load.batchSize
           x == first - 1 + (b - 1) * s
           m == Lesser(x, load.jobs)
<1>1. /\ b \in Lane /\ b \in Nat \ {0} /\ s \in Nat \ {0} /\ first \in Nat \ {0}
      /\ load.jobs \in Nat /\ load.workers \in Nat /\ b <= load.workers /\ WaveTypeOK
  BY LoadType DEF WaveInv
<1>2. /\ (b - 1) * s \in Nat /\ b * s \in Nat /\ b * s = (b - 1) * s + s
  <2>1. (b - 1) * s \in Nat /\ b * s \in Nat
    BY <1>1, MulMono
  <2> QED  BY <1>1, <2>1
<1>3. Size(b) \in Nat
  <2>1. Size(b) \in 0 .. s
    BY <1>1, SizeFacts
  <2> QED  BY <1>1, <2>1
<1>4. x \in Nat /\ first - 1 + b * s = x + s /\ Offset(b) = x + 1
  BY <1>1, <1>2 DEF Offset
<1>5. /\ m \in Nat /\ Lesser(first - 1 + b * s, load.jobs) = m + Size(b)
      /\ Size(b) > 0 => Offset(b) = m + 1
  <2> HIDE DEF x
  <2>1. Size(b) = IF x + 1 > load.jobs THEN 0 ELSE Lesser(s, load.jobs - (x + 1) + 1)
    BY <1>1, <1>4 DEF Size
  <2>2. /\ Lesser(x, load.jobs) \in Nat
        /\ Lesser(x + s, load.jobs) = Lesser(x, load.jobs) +
              IF x + 1 > load.jobs THEN 0 ELSE Lesser(s, load.jobs - (x + 1) + 1)
        /\ x + 1 <= load.jobs => Lesser(x, load.jobs) = x
    BY <1>1, <1>4, LesserStep
  <2>3. Size(b) > 0 => m = x
    BY <1>1, <1>4, <2>1, <2>2
  <2>4. Lesser(x + s, load.jobs) = m + Size(b)
    BY <2>1, <2>2
  <2> QED  BY <1>4, <2>2, <2>3, <2>4
<1>6. RowsOf(b) = [k \in 1 .. Size(b) |-> <<m + k, m + k>>]
  <2>1. BatchInv(b) /\ request[b] \in {"none", "answered"}
    BY <1>1 DEF WaveInv, InWave, WaveDone
  <2>2. Slice(b) \in Seq(Job) /\ Len(Slice(b)) = Size(b)
    BY <1>1, SizeFacts
  <2> HIDE DEF m
  <2>3. ASSUME NEW k \in 1 .. Size(b)
        PROVE  Slice(b)[k] = m + k /\ vectors[b][k] = Slice(b)[k]
    <3>1. request[b] = "answered" /\ vectors[b] = SubSeq(Slice(b), 1, Size(b))
      BY <1>3, <2>1 DEF BatchInv
    <3>2. Slice(b)[k] = Offset(b) + k - 1
      BY <1>1, SizeFacts
    <3> QED  BY <1>3, <1>5, <2>2, <3>1, <3>2
  <2> QED  BY <2>3 DEF RowsOf
<1>7. RowsTo(b - 1) = [j \in 1 .. m |-> <<j, j>>]
  BY DEF RowsTo
<1>8. RowsTo(b) = [j \in 1 .. m + Size(b) |-> <<j, j>>]
  BY <1>5 DEF RowsTo
<1> HIDE DEF m
<1> QED  BY <1>3, <1>5, <1>6, <1>7, <1>8, MoreRows

LEMMA RowsToEnds ==
    ASSUME WaveInv
    PROVE  /\ RowsTo(0) = vecRows
           /\ RowsTo(load.workers) = [j \in 1 .. Lesser(first + Stride - 1, load.jobs) |-> <<j, j>>]
<1>1. /\ load.workers \in Nat /\ load.batchSize \in Nat /\ first \in Nat \ {0} /\ RowsInv
  BY LoadType DEF WaveInv
<1>2. first - 1 + 0 * load.batchSize = first - 1
  BY <1>1
<1>3. /\ load.workers * load.batchSize \in Nat
      /\ load.workers * load.batchSize = load.batchSize * load.workers
  BY <1>1, MulMono
<1>4. first - 1 + load.workers * load.batchSize = first + Stride - 1
  BY <1>1, <1>3 DEF Stride
<1> QED  BY <1>1, <1>2, <1>4 DEF RowsTo, RowsInv

(* The rows of the wave, batch after batch, continue those before. *)
LEMMA WaveRows ==
    ASSUME WaveInv, wave = "waiting", WaveDone, NEW rows,
           rows = [b \in 0 .. load.workers |->
                     IF b = 0 THEN vecRows ELSE rows[b - 1] \o RowsOf(b)]
    PROVE  rows[load.workers] = RowsTo(load.workers)
<1> DEFINE w == load.workers
           S == {b \in 0 .. w : rows[b] = RowsTo(b)}
<1>1. w \in Nat
  BY LoadType DEF WaveInv
<1>2. \A b \in 0 .. w : rows[b] = IF b = 0 THEN vecRows ELSE rows[b - 1] \o RowsOf(b)
  OBVIOUS
<1>3. 0 \in S
  BY <1>1, <1>2, RowsToEnds
<1>4. ASSUME NEW n \in 0 .. w - 1, n \in S
      PROVE  n + 1 \in S
  <2>1. n + 1 \in 1 .. w /\ n + 1 \in 0 .. w /\ (n + 1) - 1 = n /\ n + 1 # 0
    BY <1>1
  <2>2. rows[n + 1] = rows[n] \o RowsOf(n + 1)
    BY <1>2, <2>1
  <2>3. RowsTo((n + 1) - 1) \o RowsOf(n + 1) = RowsTo(n + 1)
    BY <2>1, BatchRows
  <2>4. rows[n] = RowsTo(n)
    BY <1>4
  <2>5. rows[n + 1] = RowsTo(n + 1)
    BY <2>1, <2>2, <2>3, <2>4
  <2> QED  BY <2>1, <2>5
<1> HIDE DEF S
<1>5. 0 .. w \subseteq S
  BY <1>1, <1>3, <1>4, IntervalBySet
<1>6. w \in S
  BY <1>1, <1>5
<1> QED  BY <1>6 DEF S

LEMMA CollectStep ==
    ASSUME WaveInv, Collect
    PROVE  WaveInv'
<1> DEFINE Body(rows) == [b \in 0 .. load.workers |->
                            IF b = 0 THEN vecRows ELSE rows[b - 1] \o RowsOf(b)]
           R == CHOOSE rows : rows = Body(rows)
           m == Lesser(first + Stride - 1, load.jobs)
<1>1. /\ WaveTypeOK /\ RowsInv /\ PostsInv /\ InWave /\ WaveDone /\ wave = "waiting"
  BY DEF WaveInv, Collect, InWave
<1>2. /\ load.workers \in Nat /\ load.batchSize \in Nat /\ first \in Nat \ {0}
      /\ load.jobs \in Nat /\ Stride \in Nat
  <2>1. /\ load.workers \in Nat /\ load.batchSize \in Nat /\ first \in Nat \ {0}
        /\ load.jobs \in Nat
    BY <1>1, LoadType
  <2>2. load.batchSize * load.workers \in Nat
    BY <2>1, MulMono
  <2> QED  BY <2>1, <2>2 DEF Stride
<1>3. /\ first' = first + Stride /\ wave' = "ready"
      /\ UNCHANGED <<load, request, attempt, vectors, posts>>
      /\ vecRows' = R[load.workers]
  BY DEF Collect
<1>4. \E rows : rows = Body(rows)
  <2> DEFINE f == [b \in 0 .. load.workers |-> RowsTo(b)]
  <2>1. \A b \in 0 .. load.workers :
           f[b] = IF b = 0 THEN vecRows ELSE f[b - 1] \o RowsOf(b)
    <3>1. f[0] = vecRows
      BY <1>2, RowsToEnds
    <3>2. ASSUME NEW b \in 0 .. load.workers, b # 0
          PROVE  f[b] = f[b - 1] \o RowsOf(b)
      <4>1. b \in 1 .. load.workers /\ b - 1 \in 0 .. load.workers
        BY <1>2, <3>2
      <4>2. RowsTo(b - 1) \o RowsOf(b) = RowsTo(b)
        BY <1>1, <4>1, BatchRows
      <4> QED  BY <4>1, <4>2
    <3> QED  BY <3>1, <3>2
  <2>2. f = Body(f)
    BY <2>1
  <2> QED  BY <2>2
<1>5. R = Body(R)
  BY <1>4
<1> HIDE DEF R
<1>6. vecRows' = [j \in 1 .. m |-> <<j, j>>]
  <2>1. R[load.workers] = RowsTo(load.workers)
    BY <1>1, <1>5, WaveRows
  <2> QED  BY <1>3, <2>1, RowsToEnds
<1>7. m \in Nat /\ m <= load.jobs /\ m = Lesser(first' - 1, load.jobs)
  BY <1>2, <1>3 DEF Lesser
<1>8. vecRows' \in Seq(Job \X Job)
  <2>1. \A j \in 1 .. m : <<j, j>> \in Job \X Job
    BY <1>2, <1>7 DEF Job
  <2> HIDE DEF m
  <2> QED  BY <1>6, <1>7, <2>1
<1>9. Job' = Job /\ Limit' = Limit /\ Stride' = Stride
  BY <1>3 DEF Job, Limit, Stride
<1>10. WaveTypeOK'
  BY <1>1, <1>2, <1>3, <1>8, <1>9 DEF WaveTypeOK
<1>11. RowsInv' /\ ~InWave'
  BY <1>3, <1>6, <1>7 DEF RowsInv, InWave
<1>12. PostsInv'
  BY <1>1, <1>3, <1>9, <1>11 DEF PostsInv, Reached, InWave
<1>13. \A b \in Lane : request'[b] \in {"none", "answered"}
  BY <1>1, <1>3 DEF WaveDone
<1> QED  BY <1>10, <1>11, <1>12, <1>13 DEF WaveInv

LEMMA InitWaveInv == WaveInit => WaveInv
<1> SUFFICES ASSUME WaveInit PROVE WaveInv
  OBVIOUS
<1>1. /\ load \in Loading /\ load.jobs \in Nat /\ MaxRetries \in Nat
      /\ first = 1 /\ Lesser(first - 1, load.jobs) = 0
  BY WaveAssumption DEF WaveInit, Loading, Lesser
<1>2. WaveTypeOK
  BY <1>1 DEF WaveInit, WaveTypeOK
<1>3. RowsInv
  <2>1. vecRows = [j \in 1 .. 0 |-> <<j, j>>]
    BY DEF WaveInit
  <2> QED  BY <1>1, <2>1 DEF RowsInv, WaveInit
<1>4. PostsInv /\ ~InWave
  <2>1. 0 <= Limit
    BY <1>1 DEF Limit
  <2> QED  BY <2>1 DEF WaveInit, PostsInv, InWave
<1> QED  BY <1>2, <1>3, <1>4 DEF WaveInv, WaveInit

LEMMA NextWaveInv == WaveInv /\ [WaveNext]_waveVars => WaveInv'
<1> SUFFICES ASSUME WaveInv, [WaveNext]_waveVars PROVE WaveInv'
  OBVIOUS
<1>1. ASSUME UNCHANGED <<load, first, request, attempt, vectors, vecRows, posts>>,
             wave' \in {"opening", "ready", "waiting", "returned", "failed"},
             InWave' <=> InWave, wave' = "returned" => first > load.jobs
      PROVE  WaveInv'
  <2>1. /\ Job' = Job /\ Stride' = Stride /\ Limit' = Limit
        /\ \A c : Size(c)' = Size(c) /\ Slice(c)' = Slice(c)
    BY <1>1, SliceFrame
  <2>2. WaveTypeOK' /\ RowsInv'
    BY <1>1, <2>1 DEF WaveInv, WaveTypeOK, RowsInv
  <2>3. PostsInv'
    <3>1. Reached' = Reached /\ \A c : TextOf(c)' = TextOf(c)
      BY <1>1, <2>1 DEF Reached, TextOf
    <3> QED  BY <1>1, <2>1, <3>1 DEF WaveInv, PostsInv
  <2>4. ASSUME NEW b \in Lane, BatchInv(b)
        PROVE  BatchInv(b)'
    BY <1>1, <2>1, <2>4 DEF BatchInv
  <2> QED  BY <1>1, <2>2, <2>3, <2>4 DEF WaveInv
<1>2. CASE OpenEmbedder
  BY <1>1, <1>2 DEF OpenEmbedder, InWave
<1>3. CASE FailPhase
  BY <1>1, <1>3 DEF FailPhase, InWave
<1>4. CASE ReturnRows
  BY <1>1, <1>4 DEF ReturnRows, InWave
<1>5. CASE UNCHANGED waveVars
  BY <1>1, <1>5 DEF waveVars, InWave, WaveInv, WaveTypeOK, RowsInv
<1>6. CASE Launch
  BY <1>6, LaunchStep
<1>7. CASE \E b \in Lane : Settles(b) \/ PostAgain(b)
  BY <1>7, AnswerLocalStep, AnswerRemoteStep, FailStep, PostAgainStep DEF Settles
<1>8. CASE Collect
  BY <1>8, CollectStep
<1> QED  BY <1>2, <1>3, <1>4, <1>5, <1>6, <1>7, <1>8 DEF WaveNext

(* WaveInv is an invariant of the dispatch loop. *)
THEOREM WaveInvariance == WaveSpec => []WaveInv
<1> QED  BY InitWaveInv, NextWaveInv, PTL DEF WaveSpec

(* One row per job, in order, each with its own vector; no text posted too    *)
(* often.                                                                    *)
THEOREM WavesAreExact == WaveSpec => []WavesExact
<1>1. WaveInv => WavesExact
  <2> SUFFICES ASSUME WaveInv PROVE WavesExact
    OBVIOUS
  <2> DEFINE m == Lesser(first - 1, load.jobs)
  <2>1. first \in Nat \ {0} /\ load.jobs \in Nat /\ RowsInv /\ PostsInv
    BY LoadType DEF WaveInv
  <2>2. m \in Nat /\ (first > load.jobs => m = load.jobs)
    BY <2>1 DEF Lesser
  <2>3. vecRows = [j \in 1 .. m |-> <<j, j>>]
    BY <2>1 DEF RowsInv
  <2> HIDE DEF m
  <2>4. Len(vecRows) = m
    BY <2>2, <2>3
  <2> QED  BY <2>1, <2>2, <2>3, <2>4 DEF WavesExact, RowsInv, PostsInv, Limit
<1> QED  BY <1>1, WaveInvariance, PTL

-----------------------------------------------------------------------------
(* The batches of the parse workers.                                        *)

(* What the recursive functions of Joined and of Bytes give, step by step.  *)
LEMMA JoinedSteps ==
    ASSUME NEW T, NEW s \in Seq(Seq(T))
    PROVE  \E f : /\ \A k \in 0 .. Len(s) : f[k] \in Seq(T)
                  /\ f[0] = <<>>
                  /\ \A k \in 1 .. Len(s) : f[k] = f[k - 1] \o s[k]
                  /\ Joined(s) = f[Len(s)]
<1> DEFINE n == Len(s)
           V == Seq(T)
           G == [k \in 1 .. n |-> [v \in V |-> v \o s[k]]]
           Body(f) == [k \in 0 .. n |-> IF k = 0 THEN <<>> ELSE f[k - 1] \o s[k]]
           R == CHOOSE f : f = Body(f)
<1>1. n \in Nat /\ <<>> \in V /\ \A k \in 1 .. n : s[k] \in V
  OBVIOUS
<1>2. \A k \in 1 .. n : \A v \in V : v \o s[k] \in V
  BY <1>1
<1>3. \A k \in 1 .. n : \A v \in V : G[k][v] = v \o s[k] /\ G[k][v] \in V
  BY <1>2
<1>4. Joined(s) = R[n]
  BY DEF Joined
<1> HIDE DEF G, n, V
<1>5. PICK f \in [0 .. n -> V] : f[0] = <<>> /\ \A k \in 1 .. n : f[k] = G[k][f[k - 1]]
  <2> SUFFICES ASSUME NEW x, x = <<>>
               PROVE  \E f \in [0 .. n -> V] :
                         f[0] = x /\ \A k \in 1 .. n : f[k] = G[k][f[k - 1]]
    OBVIOUS
  <2>1. Steps(n, V, x, G)
    BY <1>1, <1>3 DEF Steps
  <2> QED  BY <2>1, Recursion
<1>6. ASSUME NEW k \in 0 .. n
      PROVE  f[k] = IF k = 0 THEN <<>> ELSE f[k - 1] \o s[k]
  <2>1. CASE k = 0
    BY <1>5, <2>1
  <2>2. CASE k # 0
    <3>1. k \in 1 .. n /\ k - 1 \in 0 .. n
      BY <1>1, <2>2
    <3>2. f[k - 1] \in V
      BY <3>1
    <3>3. f[k] = G[k][f[k - 1]]
      BY <1>5, <3>1
    <3> QED  BY <1>3, <2>2, <3>1, <3>2, <3>3
  <2> QED  BY <2>1, <2>2
<1>7. f = Body(f)
  BY <1>6
<1>8. R = Body(R)
  BY <1>7
<1> HIDE DEF R
<1>9. R[0] = <<>> /\ \A k \in 1 .. n : R[k] = R[k - 1] \o s[k]
  BY <1>1, <1>8
<1>10. \A k \in 0 .. n : R[k] \in V
  BY <1>1, <1>2, <1>9, RecursiveType
<1> QED  BY <1>4, <1>9, <1>10 DEF n, V

LEMMA JoinedEmpty == Joined(<<>>) = <<>>
<1> DEFINE s == <<>>
<1>1. s \in Seq(Seq({})) /\ Len(s) = 0
  OBVIOUS
<1> HIDE DEF s
<1>2. PICK f : f[0] = <<>> /\ Joined(s) = f[Len(s)]
  BY <1>1, JoinedSteps
<1> QED  BY <1>1, <1>2 DEF s

LEMMA JoinedAppend ==
    ASSUME NEW T, NEW s \in Seq(Seq(T)), NEW t \in Seq(T)
    PROVE  Joined(s) \in Seq(T) /\ Joined(Append(s, t)) = Joined(s) \o t
<1> DEFINE n == Len(s)
           r == Append(s, t)
<1>1. n \in Nat /\ r \in Seq(Seq(T)) /\ Len(r) = n + 1 /\ r[n + 1] = t
      /\ \A k \in 1 .. n : r[k] = s[k]
  BY AppendProperties
<1> HIDE DEF r
<1>2. PICK f : /\ \A k \in 0 .. Len(s) : f[k] \in Seq(T)
               /\ f[0] = <<>>
               /\ \A k \in 1 .. Len(s) : f[k] = f[k - 1] \o s[k]
               /\ Joined(s) = f[Len(s)]
  BY JoinedSteps
<1>3. PICK g : /\ g[0] = <<>>
               /\ \A k \in 1 .. Len(r) : g[k] = g[k - 1] \o r[k]
               /\ Joined(r) = g[Len(r)]
  BY <1>1, JoinedSteps
<1>4. ASSUME NEW k \in 1 .. n, f[k - 1] = g[k - 1]
      PROVE  f[k] = g[k]
  <2>1. k \in 1 .. Len(r) /\ k \in 1 .. Len(s)
    BY <1>1
  <2> QED  BY <1>1, <1>2, <1>3, <1>4, <2>1
<1>5. f[n] = g[n]
  BY <1>1, <1>2, <1>3, <1>4, SameSteps
<1>6. n + 1 \in 1 .. Len(r) /\ (n + 1) - 1 = n /\ n \in 0 .. Len(s)
  BY <1>1
<1>7. g[n + 1] = g[n] \o t
  BY <1>1, <1>3, <1>6
<1> QED  BY <1>1, <1>2, <1>3, <1>5, <1>6, <1>7 DEF r

LEMMA BytesSteps ==
    ASSUME NEW P, NEW size \in [P -> Nat], NEW s \in Seq(P)
    PROVE  \E f : /\ \A k \in 0 .. Len(s) : f[k] \in Nat
                  /\ f[0] = 0
                  /\ \A k \in 1 .. Len(s) : f[k] = f[k - 1] + size[s[k]]
                  /\ Bytes(s, size) = f[Len(s)]
<1> DEFINE n == Len(s)
           G == [k \in 1 .. n |-> [v \in Nat |-> v + size[s[k]]]]
           Body(f) == [k \in 0 .. n |-> IF k = 0 THEN 0 ELSE f[k - 1] + size[s[k]]]
           R == CHOOSE f : f = Body(f)
<1>1. n \in Nat /\ \A k \in 1 .. n : size[s[k]] \in Nat
  OBVIOUS
<1>2. \A k \in 1 .. n : \A v \in Nat : v + size[s[k]] \in Nat
  BY <1>1
<1>3. \A k \in 1 .. n : \A v \in Nat : G[k][v] = v + size[s[k]] /\ G[k][v] \in Nat
  BY <1>2
<1>4. Bytes(s, size) = R[n]
  BY DEF Bytes
<1> HIDE DEF G, n
<1>5. PICK f \in [0 .. n -> Nat] : f[0] = 0 /\ \A k \in 1 .. n : f[k] = G[k][f[k - 1]]
  <2> SUFFICES ASSUME NEW x, x = 0, NEW V, V = Nat
               PROVE  \E f \in [0 .. n -> V] :
                         f[0] = x /\ \A k \in 1 .. n : f[k] = G[k][f[k - 1]]
    OBVIOUS
  <2>1. Steps(n, V, x, G)
    BY <1>1, <1>3 DEF Steps
  <2> QED  BY <2>1, Recursion
<1>6. ASSUME NEW k \in 0 .. n
      PROVE  f[k] = IF k = 0 THEN 0 ELSE f[k - 1] + size[s[k]]
  <2>1. CASE k = 0
    BY <1>5, <2>1
  <2>2. CASE k # 0
    <3>1. k \in 1 .. n /\ k - 1 \in 0 .. n
      BY <1>1, <2>2
    <3>2. f[k - 1] \in Nat
      BY <3>1
    <3>3. f[k] = G[k][f[k - 1]]
      BY <1>5, <3>1
    <3> QED  BY <1>3, <2>2, <3>1, <3>2, <3>3
  <2> QED  BY <2>1, <2>2
<1>7. f = Body(f)
  BY <1>6
<1>8. R = Body(R)
  BY <1>7
<1> HIDE DEF R
<1>9. R[0] = 0 /\ \A k \in 1 .. n : R[k] = R[k - 1] + size[s[k]]
  BY <1>1, <1>8
<1>10. \A k \in 0 .. n : R[k] \in Nat
  <2>1. ASSUME NEW k \in 1 .. n, R[k - 1] \in Nat
        PROVE  R[k] \in Nat
    <3>1. R[k] = R[k - 1] + size[s[k]]
      BY <1>9
    <3>2. size[s[k]] \in Nat
      BY <1>1
    <3> QED  BY <2>1, <3>1, <3>2
  <2>2. R[0] \in Nat
    BY <1>9
  <2> QED  BY <1>1, <2>1, <2>2, RecursiveType
<1> QED  BY <1>4, <1>9, <1>10 DEF n

LEMMA BytesEmpty ==
    ASSUME NEW P, NEW size \in [P -> Nat]
    PROVE  Bytes(<<>>, size) = 0
<1> DEFINE s == <<>>
<1>1. s \in Seq(P) /\ Len(s) = 0
  OBVIOUS
<1> HIDE DEF s
<1>2. PICK f : f[0] = 0 /\ Bytes(s, size) = f[Len(s)]
  BY <1>1, BytesSteps
<1> QED  BY <1>1, <1>2 DEF s

LEMMA BytesAppend ==
    ASSUME NEW P, NEW size \in [P -> Nat], NEW s \in Seq(P), NEW p \in P
    PROVE  Bytes(s, size) \in Nat /\ Bytes(Append(s, p), size) = Bytes(s, size) + size[p]
<1> DEFINE n == Len(s)
           r == Append(s, p)
<1>1. n \in Nat /\ r \in Seq(P) /\ Len(r) = n + 1 /\ r[n + 1] = p
      /\ \A k \in 1 .. n : r[k] = s[k]
  BY AppendProperties
<1> HIDE DEF r
<1>2. PICK f : /\ \A k \in 0 .. Len(s) : f[k] \in Nat
               /\ f[0] = 0
               /\ \A k \in 1 .. Len(s) : f[k] = f[k - 1] + size[s[k]]
               /\ Bytes(s, size) = f[Len(s)]
  BY BytesSteps
<1>3. PICK g : /\ \A k \in 0 .. Len(r) : g[k] \in Nat
               /\ g[0] = 0
               /\ \A k \in 1 .. Len(r) : g[k] = g[k - 1] + size[r[k]]
               /\ Bytes(r, size) = g[Len(r)]
  BY <1>1, BytesSteps
<1>4. ASSUME NEW k \in 1 .. n, f[k - 1] = g[k - 1]
      PROVE  f[k] = g[k]
  <2>1. k \in 1 .. Len(r) /\ k \in 1 .. Len(s)
    BY <1>1
  <2> QED  BY <1>1, <1>2, <1>3, <1>4, <2>1
<1>5. f[n] = g[n]
  BY <1>1, <1>2, <1>3, <1>4, SameSteps
<1>6. n + 1 \in 1 .. Len(r) /\ (n + 1) - 1 = n /\ n \in 0 .. Len(s)
  BY <1>1
<1>7. g[n + 1] = g[n] + size[p]
  BY <1>1, <1>3, <1>6
<1> QED  BY <1>1, <1>2, <1>3, <1>5, <1>6, <1>7 DEF r

Paths == PathsIn(dispatch.tasks)

LEMMA CallFacts ==
    ASSUME ParseTypeOK
    PROVE  /\ dispatch.tasks \in Seq(Nat) /\ dispatch.tasks \in Seq(Paths)
           /\ Paths \subseteq Nat /\ dispatch.size \in [Paths -> Nat]
           /\ dispatch.budget \in Nat /\ dispatch.cap \in Nat
<1>1. /\ dispatch.tasks \in Seq(Nat) /\ dispatch.size \in [Paths -> Nat]
      /\ dispatch.budget \in Nat /\ dispatch.cap \in Nat
  BY ParseAssumption DEF ParseTypeOK, Paths
<1>2. \A i \in DOMAIN dispatch.tasks : dispatch.tasks[i] \in Paths /\ dispatch.tasks[i] \in Nat
  BY <1>1 DEF Paths, PathsIn
<1>3. dispatch.tasks \in Seq(Paths)
  BY <1>1, <1>2
<1>4. Paths \subseteq Nat
  BY <1>2 DEF Paths, PathsIn
<1> QED  BY <1>1, <1>3, <1>4

(* What the loop of chunkTasks has made of the first k tasks.               *)
BatchType == [full : Seq(Seq(Paths)), current : Seq(Paths), bytes : Nat]

Cuts(list) == \A i \in 1 .. Len(list) - 1 : CutBefore(list[i], list[i + 1])

Chunked(b, k) ==
    /\ b \in BatchType
    /\ b.bytes = Bytes(b.current, dispatch.size)
    /\ Joined(b.full) \o b.current = SubSeq(dispatch.tasks, 1, k)
    /\ b.current = <<>> <=> k = 0
    /\ k = 0 => b.full = <<>>
    /\ \A i \in DOMAIN b.full : Filled(b.full[i])
    /\ k # 0 => Filled(b.current)
    /\ Cuts(b.full)
    /\ b.full # <<>> => CutBefore(b.full[Len(b.full)], b.current)

LEMMA AddTaskType ==
    ASSUME ParseTypeOK, NEW b \in BatchType, NEW p \in Paths
    PROVE  AddTask(b, p) \in BatchType
<1>1. /\ b.full \in Seq(Seq(Paths)) /\ b.current \in Seq(Paths) /\ b.bytes \in Nat
      /\ dispatch.size[p] \in Nat
  BY CallFacts DEF BatchType
<1>2. Append(b.full, b.current) \in Seq(Seq(Paths)) /\ <<p>> \in Seq(Paths)
      /\ Append(b.current, p) \in Seq(Paths) /\ b.bytes + dispatch.size[p] \in Nat
  BY <1>1
<1> QED  BY <1>1, <1>2 DEF BatchType, AddTask

(* Two lists that are joined with a third.                                  *)
LEMMA ConcatOne ==
    ASSUME NEW T, NEW s \in Seq(T), NEW t \in Seq(T), NEW x \in T
    PROVE  s \o Append(t, x) = Append(s \o t, x) /\ (s \o t) \o <<x>> = Append(s \o t, x)
<1>1. Append(t, x) = t \o <<x>> /\ <<x>> \in Seq(T)
  BY AppendIsConcat
<1>2. s \o t \in Seq(T)
  BY ConcatProperties
<1>3. Append(s \o t, x) = (s \o t) \o <<x>>
  BY <1>2, AppendIsConcat
<1>4. (s \o t) \o <<x>> = s \o (t \o <<x>>)
  BY <1>1, ConcatAssociative
<1> QED  BY <1>1, <1>3, <1>4

LEMMA CutsAppend ==
    ASSUME NEW T, NEW list \in Seq(T), NEW t \in T, Cuts(list),
           list # <<>> => CutBefore(list[Len(list)], t)
    PROVE  Cuts(Append(list, t))
<1> DEFINE r == Append(list, t)
           n == Len(list)
<1>1. n \in Nat /\ Len(r) = n + 1 /\ r[n + 1] = t /\ \A i \in 1 .. n : r[i] = list[i]
  BY AppendProperties
<1> HIDE DEF r
<1>2. ASSUME NEW i \in 1 .. n
      PROVE  CutBefore(r[i], r[i + 1])
  <2>1. CASE i = n
    <3>1. list # <<>> /\ r[i] = list[n] /\ r[i + 1] = t
      BY <1>1, <2>1
    <3> QED  BY <3>1
  <2>2. CASE i # n
    <3>1. i \in 1 .. n - 1 /\ r[i] = list[i] /\ r[i + 1] = list[i + 1]
      BY <1>1, <2>2
    <3> QED  BY <3>1 DEF Cuts
  <2> QED  BY <2>1, <2>2
<1>3. Len(r) - 1 = n
  BY <1>1
<1> QED  BY <1>2, <1>3 DEF Cuts, r

(* One more task.                                                           *)
LEMMA ChunkStep ==
    ASSUME ParseTypeOK, NEW k \in Nat, k + 1 <= Len(dispatch.tasks), NEW b, Chunked(b, k)
    PROVE  Chunked(AddTask(b, dispatch.tasks[k + 1]), k + 1)
<1> DEFINE p == dispatch.tasks[k + 1]
           size == dispatch.size
           c == AddTask(b, p)
           upto == SubSeq(dispatch.tasks, 1, k)
<1> SUFFICES Chunked(c, k + 1)
  OBVIOUS
<1>1. /\ dispatch.tasks \in Seq(Paths) /\ size \in [Paths -> Nat] /\ p \in Paths
      /\ dispatch.budget \in Nat /\ dispatch.cap \in Nat
  BY CallFacts
<1>2. /\ b \in BatchType /\ b.full \in Seq(Seq(Paths)) /\ b.current \in Seq(Paths)
      /\ b.bytes \in Nat /\ b.bytes = Bytes(b.current, size)
      /\ Joined(b.full) \o b.current = upto
  BY DEF Chunked, BatchType
<1>3. Append(upto, p) = SubSeq(dispatch.tasks, 1, k + 1)
  BY <1>1, SubSeqAppend
<1>4. c \in BatchType
  BY <1>1, <1>2, AddTaskType
<1>5. /\ Joined(b.full) \in Seq(Paths)
      /\ Joined(Append(b.full, b.current)) = Joined(b.full) \o b.current
  BY <1>2, JoinedAppend
<1> HIDE DEF p, upto
<1>6. /\ Bytes(Append(b.current, p), size) = b.bytes + size[p]
      /\ size[p] \in Nat
  <2>1. Bytes(Append(b.current, p), size) = Bytes(b.current, size) + size[p]
    BY <1>1, <1>2, BytesAppend
  <2> QED  BY <1>1, <1>2, <2>1
<1>9. /\ Joined(b.full) \o Append(b.current, p) = Append(Joined(b.full) \o b.current, p)
      /\ (Joined(b.full) \o b.current) \o <<p>> = Append(Joined(b.full) \o b.current, p)
  <2>1. Joined(b.full) \in Seq(Paths) /\ b.current \in Seq(Paths) /\ p \in Paths
    BY <1>1, <1>2, <1>5
  <2>2. ASSUME NEW s \in Seq(Paths), NEW t \in Seq(Paths)
        PROVE  s \o Append(t, p) = Append(s \o t, p) /\ (s \o t) \o <<p>> = Append(s \o t, p)
    BY <2>1, ConcatOne
  <2> QED  BY <2>1, <2>2
<1>7. CASE Flush(b, p)
  <2>1. c = [full |-> Append(b.full, b.current), current |-> <<p>>, bytes |-> size[p]]
    BY <1>7 DEF AddTask
  <2> HIDE DEF c
  <2>2. c.full = Append(b.full, b.current) /\ c.current = <<p>> /\ c.bytes = size[p]
    BY <2>1
  <2>3. b.current # <<>> /\ k # 0
    BY <1>7 DEF Flush, Chunked
  <2>4. c.bytes = Bytes(c.current, size)
    <3>1. <<>> \in Seq(Paths) /\ Append(<<>>, p) = <<p>>
      BY <1>1
    <3>2. Bytes(<<>>, size) = 0
      BY <1>1, BytesEmpty
    <3>3. Bytes(Append(<<>>, p), size) = Bytes(<<>>, size) + size[p]
      BY <1>1, <3>1, BytesAppend
    <3> QED  BY <1>6, <2>2, <3>1, <3>2, <3>3
  <2>5. Joined(c.full) \o c.current = SubSeq(dispatch.tasks, 1, k + 1)
    BY <1>2, <1>3, <1>5, <1>9, <2>2
  <2>6. Filled(c.current) /\ c.current # <<>> /\ k + 1 # 0
    BY <2>2 DEF Filled
  <2>7. \A i \in DOMAIN c.full : Filled(c.full[i])
    <3>1. ASSUME NEW i \in DOMAIN c.full
          PROVE  Filled(c.full[i])
      <4>1. CASE i \in DOMAIN b.full
        <5>1. c.full[i] = b.full[i]
          BY <1>2, <2>2, <4>1
        <5> QED  BY <4>1, <5>1 DEF Chunked
      <4>2. CASE i \notin DOMAIN b.full
        <5>1. c.full[i] = b.current
          BY <1>2, <2>2, <4>2
        <5> QED  BY <2>3, <5>1 DEF Chunked
      <4> QED  BY <4>1, <4>2
    <3> QED  BY <3>1
  <2>8. Cuts(c.full)
    BY <1>2, <2>2, CutsAppend DEF Chunked
  <2>9. CutBefore(c.full[Len(c.full)], c.current)
    <3>1. c.full[Len(c.full)] = b.current /\ c.current[1] = p
      BY <1>2, <2>2
    <3>2. Len(b.current) >= dispatch.cap \/ Bytes(b.current, size) + size[p] >= dispatch.budget
      BY <1>2, <1>7 DEF Flush
    <3> QED  BY <3>1, <3>2 DEF CutBefore
  <2> QED  BY <1>4, <2>4, <2>5, <2>6, <2>7, <2>8, <2>9 DEF Chunked
<1>8. CASE ~Flush(b, p)
  <2>1. c = [b EXCEPT !.current = Append(@, p), !.bytes = @ + size[p]]
    BY <1>8 DEF AddTask
  <2> HIDE DEF c
  <2>2. c.full = b.full /\ c.current = Append(b.current, p) /\ c.bytes = b.bytes + size[p]
    BY <1>2, <2>1 DEF BatchType
  <2>3. c.bytes = Bytes(c.current, size)
    BY <1>6, <2>2
  <2>4. Joined(c.full) \o c.current = SubSeq(dispatch.tasks, 1, k + 1)
    BY <1>2, <1>3, <1>9, <2>2
  <2>5. c.current # <<>> /\ k + 1 # 0 /\ Len(c.current) = Len(b.current) + 1
    <3>1. Append(b.current, p) # <<>> /\ Len(Append(b.current, p)) = Len(b.current) + 1
      BY <1>1, <1>2, AppendProperties
    <3> QED  BY <2>2, <3>1
  <2>6. Filled(c.current)
    <3>1. CASE b.current = <<>>
      <4>1. Len(c.current) = 1
        BY <2>5, <3>1
      <4> QED  BY <2>5, <4>1 DEF Filled
    <3>2. CASE b.current # <<>>
      <4>1. ~(b.bytes + size[p] >= dispatch.budget) /\ ~(Len(b.current) >= dispatch.cap)
        BY <1>8, <3>2 DEF Flush
      <4>2. Len(b.current) \in Nat
        BY <1>2
      <4>3. Len(c.current) <= dispatch.cap
        BY <1>1, <2>5, <4>1, <4>2
      <4>4. Bytes(c.current, size) < dispatch.budget
        BY <1>1, <1>2, <1>6, <2>2, <4>1
      <4> QED  BY <2>5, <4>3, <4>4 DEF Filled
    <3> QED  BY <3>1, <3>2
  <2>7. \A i \in DOMAIN c.full : Filled(c.full[i])
    BY <2>2 DEF Chunked
  <2>8. Cuts(c.full)
    BY <2>2 DEF Chunked
  <2>9. c.full # <<>> => CutBefore(c.full[Len(c.full)], c.current)
    <3>1. SUFFICES ASSUME c.full # <<>>
                   PROVE  CutBefore(c.full[Len(c.full)], c.current)
      OBVIOUS
    <3>2. b.current # <<>> /\ CutBefore(b.full[Len(b.full)], b.current)
      BY <2>2, <3>1 DEF Chunked
    <3>3. c.current[1] = b.current[1]
      BY <1>1, <1>2, <2>2, <3>2
    <3> QED  BY <2>2, <3>2, <3>3 DEF CutBefore
  <2> QED  BY <1>4, <2>3, <2>4, <2>5, <2>6, <2>7, <2>8, <2>9 DEF Chunked
<1> QED  BY <1>7, <1>8 DEF p

LEMMA ChunkTasks ==
    ASSUME ParseTypeOK
    PROVE  /\ chunkTasks \in Seq(Seq(Paths))
           /\ Joined(chunkTasks) = dispatch.tasks
           /\ \A i \in DOMAIN chunkTasks : Filled(chunkTasks[i])
           /\ Cuts(chunkTasks)
<1> DEFINE n == Len(dispatch.tasks)
           G == [k \in 1 .. n |-> [b \in BatchType |-> AddTask(b, dispatch.tasks[k])]]
           Body(f) == [k \in 0 .. n |->
                         IF k = 0 THEN NoBatch ELSE AddTask(f[k - 1], dispatch.tasks[k])]
           R == CHOOSE f : f = Body(f)
           b == R[n]
           S == {k \in 0 .. n : Chunked(R[k], k)}
<1>1. n \in Nat /\ dispatch.tasks \in Seq(Paths) /\ \A k \in 1 .. n : dispatch.tasks[k] \in Paths
  BY CallFacts
<1>2. NoBatch \in BatchType
  BY DEF NoBatch, BatchType
<1>3. \A k \in 1 .. n : \A v \in BatchType :
         G[k][v] = AddTask(v, dispatch.tasks[k]) /\ G[k][v] \in BatchType
  BY <1>1, AddTaskType
<1>4. chunkTasks = IF b.current = <<>> THEN b.full ELSE Append(b.full, b.current)
  BY DEF chunkTasks
<1> HIDE DEF G, n
<1>5. PICK f \in [0 .. n -> BatchType] :
         f[0] = NoBatch /\ \A k \in 1 .. n : f[k] = G[k][f[k - 1]]
  <2> SUFFICES ASSUME NEW x, x = NoBatch, NEW V, V = BatchType
               PROVE  \E f \in [0 .. n -> V] :
                         f[0] = x /\ \A k \in 1 .. n : f[k] = G[k][f[k - 1]]
    OBVIOUS
  <2>1. Steps(n, V, x, G)
    BY <1>1, <1>2, <1>3 DEF Steps
  <2> QED  BY <2>1, Recursion
<1>6. ASSUME NEW k \in 0 .. n
      PROVE  f[k] = IF k = 0 THEN NoBatch ELSE AddTask(f[k - 1], dispatch.tasks[k])
  <2>1. CASE k = 0
    BY <1>5, <2>1
  <2>2. CASE k # 0
    <3>1. k \in 1 .. n /\ k - 1 \in 0 .. n
      BY <1>1, <2>2
    <3>2. f[k - 1] \in BatchType
      BY <3>1
    <3>3. f[k] = G[k][f[k - 1]]
      BY <1>5, <3>1
    <3> QED  BY <1>3, <2>2, <3>1, <3>2, <3>3
  <2> QED  BY <2>1, <2>2
<1>7. f = Body(f)
  BY <1>6
<1>8. R = Body(R)
  BY <1>7
<1> HIDE DEF R
<1>9. R[0] = NoBatch /\ \A k \in 1 .. n : R[k] = AddTask(R[k - 1], dispatch.tasks[k])
  <2>1. \A k \in 0 .. n :
           R[k] = IF k = 0 THEN NoBatch ELSE AddTask(R[k - 1], dispatch.tasks[k])
    BY <1>8
  <2>2. 0 \in 0 .. n /\ \A k \in 1 .. n : k \in 0 .. n /\ k # 0
    BY <1>1
  <2> QED  BY <2>1, <2>2
<1>10. 0 \in S
  <2>1. R[0].full = <<>> /\ R[0].current = <<>> /\ R[0].bytes = 0
    BY <1>9 DEF NoBatch
  <2>2. Bytes(<<>>, dispatch.size) = 0
    BY CallFacts, BytesEmpty
  <2>3. Joined(<<>>) \o <<>> = SubSeq(dispatch.tasks, 1, 0)
    <3>1. Joined(<<>>) = <<>>
      BY JoinedEmpty
    <3>2. SubSeq(dispatch.tasks, 1, 0) = <<>>
      BY <1>1
    <3>3. <<>> \o <<>> = <<>>
      OBVIOUS
    <3> QED  BY <3>1, <3>2, <3>3
  <2>4. Cuts(<<>>) /\ DOMAIN <<>> = {}
    BY DEF Cuts
  <2>5. Chunked(R[0], 0)
    BY <1>2, <1>9, <2>1, <2>2, <2>3, <2>4 DEF Chunked
  <2> QED  BY <1>1, <2>5
<1>11. ASSUME NEW k \in 0 .. n - 1, k \in S
       PROVE  k + 1 \in S
  <2>1. k \in Nat /\ k + 1 <= Len(dispatch.tasks) /\ k + 1 \in 1 .. n /\ (k + 1) - 1 = k
    BY <1>1 DEF n
  <2>2. Chunked(R[k], k)
    BY <1>11
  <2>3. R[k + 1] = AddTask(R[k], dispatch.tasks[k + 1])
    BY <1>9, <2>1
  <2>4. Chunked(R[k + 1], k + 1)
    BY <2>1, <2>2, <2>3, ChunkStep
  <2> QED  BY <2>1, <2>4
<1> HIDE DEF S
<1>12. 0 .. n \subseteq S
  BY <1>1, <1>10, <1>11, IntervalBySet
<1>13. n \in S
  BY <1>1, <1>12
<1>14. Chunked(b, n)
  BY <1>13 DEF S
<1>15. SubSeq(dispatch.tasks, 1, n) = dispatch.tasks
  BY <1>1 DEF n
<1> HIDE DEF b
<1>16. b.full \in Seq(Seq(Paths)) /\ b.current \in Seq(Paths) /\ Joined(b.full) \in Seq(Paths)
  <2>1. b.full \in Seq(Seq(Paths)) /\ b.current \in Seq(Paths)
    BY <1>14 DEF Chunked, BatchType
  <2> QED  BY <2>1, JoinedAppend
<1>17. CASE b.current = <<>>
  <2>1. chunkTasks = b.full
    BY <1>4, <1>17
  <2>2. Joined(b.full) \o <<>> = Joined(b.full)
    BY <1>16, ConcatEmptySeq
  <2>3. Joined(b.full) = dispatch.tasks
    BY <1>14, <1>15, <1>17, <2>2 DEF Chunked
  <2> QED  BY <1>14, <1>16, <2>1, <2>3 DEF Chunked
<1>18. CASE b.current # <<>>
  <2>1. chunkTasks = Append(b.full, b.current)
    BY <1>4, <1>18
  <2>2. Append(b.full, b.current) \in Seq(Seq(Paths))
    BY <1>16
  <2>3. Joined(Append(b.full, b.current)) = Joined(b.full) \o b.current
    BY <1>16, JoinedAppend
  <2>4. Joined(chunkTasks) = dispatch.tasks
    BY <1>14, <1>15, <2>1, <2>3 DEF Chunked
  <2>5. Cuts(chunkTasks)
    BY <1>14, <1>16, <2>1, CutsAppend DEF Chunked
  <2>6. ASSUME NEW i \in DOMAIN chunkTasks
        PROVE  Filled(chunkTasks[i])
    <3>1. CASE i \in DOMAIN b.full
      <4>1. chunkTasks[i] = b.full[i]
        BY <1>16, <2>1, <3>1
      <4> QED  BY <1>14, <3>1, <4>1 DEF Chunked
    <3>2. CASE i \notin DOMAIN b.full
      <4>1. chunkTasks[i] = b.current
        BY <1>16, <2>1, <3>2
      <4> QED  BY <1>14, <1>18, <4>1 DEF Chunked
    <3> QED  BY <3>1, <3>2
  <2> QED  BY <2>1, <2>2, <2>4, <2>5, <2>6
<1> QED  BY <1>17, <1>18

(* A finite set of numbers can be put in order.                             *)
LEMMA OrderExists ==
    ASSUME NEW S, S \subseteq Nat, IsFiniteSet(S)
    PROVE  \E s \in [1 .. Cardinality(S) -> S] : Increasing(s) /\ PathsIn(s) = S
<1> DEFINE Ordered(T, n) == \E s \in [1 .. n -> T] : Increasing(s) /\ PathsIn(s) = T
           All(n) == \A T \in SUBSET Nat :
                        IsFiniteSet(T) /\ Cardinality(T) = n => Ordered(T, n)
           W == {n \in Nat : All(n)}
<1>1. 0 \in W
  <2>1. ASSUME NEW T \in SUBSET Nat, IsFiniteSet(T), Cardinality(T) = 0
        PROVE  Ordered(T, 0)
    <3> DEFINE s == [i \in 1 .. 0 |-> 0]
    <3>1. T = {}
      BY <2>1, FS_EmptySet
    <3>2. s \in [1 .. 0 -> T] /\ Increasing(s)
      BY DEF Increasing
    <3>3. PathsIn(s) = T
      BY <3>1 DEF PathsIn
    <3> HIDE DEF s
    <3> QED  BY <3>2, <3>3
  <2> HIDE DEF Ordered
  <2>2. All(0)
    BY <2>1
  <2> HIDE DEF All
  <2> QED  BY <2>2
<1>2. ASSUME NEW n \in Nat, n \in W
      PROVE  n + 1 \in W
  <2>1. All(n)
    BY <1>2
  <2>2. ASSUME NEW T \in SUBSET Nat, IsFiniteSet(T), Cardinality(T) = n + 1
        PROVE  Ordered(T, n + 1)
    <3>1. T # {}
      BY <2>2, FS_EmptySet
    <3>2. PICK x \in T : \A y \in T : x <= y
      BY <3>1, LeastNatural
    <3> DEFINE U == T \ {x}
    <3>3. U \in SUBSET Nat /\ IsFiniteSet(U) /\ Cardinality(U) = n
      <4>1. IsFiniteSet(U) /\ Cardinality(U) = Cardinality(T) - 1
        BY <2>2, FS_RemoveElement
      <4>2. (n + 1) - 1 = n
        OBVIOUS
      <4> QED  BY <2>2, <4>1, <4>2
    <3>4. Ordered(U, n)
      <4> HIDE DEF U, Ordered
      <4> QED  BY <2>1, <3>3
    <3>5. PICK s \in [1 .. n -> U] : Increasing(s) /\ PathsIn(s) = U
      BY <3>4
    <3> DEFINE t == [i \in 1 .. n + 1 |-> IF i = 1 THEN x ELSE s[i - 1]]
    <3>6. t[1] = x /\ \A i \in 2 .. n + 1 : t[i] = s[i - 1] /\ i - 1 \in 1 .. n
      OBVIOUS
    <3>7. \A i \in 1 .. n + 1 : i = 1 \/ i \in 2 .. n + 1
      OBVIOUS
    <3>8. t \in [1 .. n + 1 -> T]
      <4>1. ASSUME NEW i \in 1 .. n + 1
            PROVE  (IF i = 1 THEN x ELSE s[i - 1]) \in T
        <5>1. CASE i = 1
          BY <5>1
        <5>2. CASE i # 1
          <6>1. s[i - 1] \in U
            BY <3>6, <3>7, <5>2
          <6> QED  BY <5>2, <6>1
        <5> QED  BY <5>1, <5>2
      <4> QED  BY <4>1
    <3> HIDE DEF t
    <3>9. DOMAIN t = 1 .. n + 1 /\ DOMAIN s = 1 .. n
      BY <3>5, <3>8
    <3>10. \A y \in U : x < y
      <4>1. \A y \in T : x \in Nat /\ y \in Nat /\ x <= y
        BY <3>2
      <4> QED  BY <4>1
    <3>11. ASSUME NEW i \in 1 .. n + 1, NEW j \in 1 .. n + 1, i < j
           PROVE  t[i] < t[j]
      <4>1. j \in 2 .. n + 1 /\ t[j] = s[j - 1] /\ j - 1 \in 1 .. n
        BY <3>6, <3>11
      <4>2. CASE i = 1
        <5>1. s[j - 1] \in U
          BY <3>5, <4>1
        <5> QED  BY <3>6, <3>10, <4>1, <4>2, <5>1
      <4>3. CASE i # 1
        <5>1. t[i] = s[i - 1] /\ i - 1 \in 1 .. n
          BY <3>6, <3>7, <4>3
        <5>2. i - 1 < j - 1
          BY <3>11
        <5>3. s[i - 1] < s[j - 1]
          BY <3>5, <3>9, <4>1, <5>1, <5>2 DEF Increasing
        <5> QED  BY <4>1, <5>1, <5>3
      <4> QED  BY <4>2, <4>3
    <3>12. Increasing(t)
      BY <3>9, <3>11 DEF Increasing
    <3>13. PathsIn(t) \subseteq T
      BY <3>8, <3>9 DEF PathsIn
    <3>14. ASSUME NEW y \in T
           PROVE  y \in PathsIn(t)
      <4>1. CASE y = x
        <5>1. 1 \in 1 .. n + 1
          OBVIOUS
        <5> QED  BY <3>6, <3>9, <4>1, <5>1 DEF PathsIn
      <4>2. CASE y # x
        <5>1. PICK i \in 1 .. n : y = s[i]
          BY <3>5, <3>9, <4>2 DEF PathsIn
        <5>2. i + 1 \in 2 .. n + 1 /\ (i + 1) - 1 = i /\ i + 1 \in 1 .. n + 1
          OBVIOUS
        <5>3. t[i + 1] = y
          BY <3>6, <5>1, <5>2
        <5> QED  BY <3>9, <5>2, <5>3 DEF PathsIn
      <4> QED  BY <4>1, <4>2
    <3>15. PathsIn(t) = T
      BY <3>13, <3>14
    <3> QED  BY <3>8, <3>12, <3>15
  <2> HIDE DEF Ordered
  <2>3. All(n + 1)
    BY <2>2
  <2> HIDE DEF All
  <2> QED  BY <2>3
<1> HIDE DEF W
<1>3. Nat \subseteq W
  BY <1>1, <1>2, NatBySet
<1>4. Cardinality(S) \in Nat
  BY FS_CardinalityType
<1>5. All(Cardinality(S))
  BY <1>3, <1>4 DEF W
<1>6. Ordered(S, Cardinality(S))
  <2> HIDE DEF Ordered
  <2> QED  BY <1>5
<1> QED  BY <1>6

LEMMA PathsFinite ==
    ASSUME NEW list \in Seq(Nat)
    PROVE  PathsIn(list) \subseteq Nat /\ IsFiniteSet(PathsIn(list))
<1> DEFINE n == Len(list)
           T == PathsIn(list)
<1>1. n \in Nat /\ T \subseteq Nat /\ DOMAIN list = 1 .. n /\ list \in [1 .. n -> T]
  BY DEF PathsIn
<1>2. list \in Surjection(1 .. n, T)
  BY <1>1 DEF Surjection, PathsIn
<1>3. IsFiniteSet(1 .. n)
  BY <1>1, FS_Interval
<1> HIDE DEF T, n
<1>4. IsFiniteSet(T)
  BY <1>2, <1>3, FS_Surjection
<1> QED  BY <1>1, <1>4 DEF T

LEMMA SortedFacts ==
    ASSUME NEW list \in Seq(Nat)
    PROVE  /\ Sorted(list) \in Seq(Nat)
           /\ Increasing(Sorted(list)) /\ PathsIn(Sorted(list)) = PathsIn(list)
<1> DEFINE T == PathsIn(list)
           m == Cardinality(T)
<1>1. T \subseteq Nat /\ IsFiniteSet(T) /\ m \in Nat
  BY PathsFinite, FS_CardinalityType
<1>2. \E s \in [1 .. m -> T] : Increasing(s) /\ PathsIn(s) = T
  BY <1>1, OrderExists
<1>3. /\ Sorted(list) \in [1 .. m -> T] /\ Increasing(Sorted(list))
      /\ PathsIn(Sorted(list)) = T
  BY <1>2 DEF Sorted
<1> HIDE DEF T, m
<1>4. Sorted(list) \in Seq(Nat)
  <2> DEFINE s == Sorted(list)
  <2>1. s \in [1 .. m -> T]
    BY <1>3
  <2> HIDE DEF s
  <2>2. s \in [1 .. m -> Nat]
    BY <1>1, <2>1
  <2>3. s \in Seq(Nat)
    BY <1>1, <2>2
  <2> QED  BY <2>3 DEF s
<1> QED  BY <1>3, <1>4 DEF T

LEMMA CallSteps ==
    ASSUME ParseInv, Dispatch
    PROVE  ParseInv'
<1>1. /\ ParseTypeOK /\ batches' = chunkTasks /\ pool' = "running" /\ dispatch' = dispatch
      /\ results' = results
      /\ busy' = [b \in DOMAIN batches' |-> IF b <= Threads THEN "parsing" ELSE "queued"]
  BY DEF ParseInv, Dispatch
<1>2. /\ batches' \in Seq(Seq(Paths)) /\ Joined(batches') = dispatch.tasks
      /\ \A i \in DOMAIN batches' : Filled(batches'[i])
      /\ Cuts(batches')
  BY <1>1, ChunkTasks
<1>3. batches' \in Seq(Seq(Nat))
  <2>1. Paths \subseteq Nat
    BY <1>1, CallFacts
  <2>2. ASSUME NEW s \in Seq(Paths)
        PROVE  s \in Seq(Nat)
    <3>1. Len(s) \in Nat /\ s \in [1 .. Len(s) -> Paths]
      OBVIOUS
    <3>2. s \in [1 .. Len(s) -> Nat]
      BY <2>1, <3>1
    <3> QED  BY <3>1, <3>2
  <2>3. ASSUME NEW i \in DOMAIN batches'
        PROVE  batches'[i] \in Seq(Nat)
    <3>1. batches'[i] \in Seq(Paths)
      BY <1>2
    <3> QED  BY <2>2, <3>1
  <2> QED  BY <1>2, <2>3
<1>4. ParseTypeOK'
  BY <1>1, <1>3 DEF ParseTypeOK
<1>5. /\ \A i \in DOMAIN batches' : Filled(batches[i])'
      /\ \A i \in 1 .. Len(batches') - 1 : CutBefore(batches[i], batches[i + 1])'
  BY <1>1, <1>2 DEF Filled, Cuts, CutBefore
<1>6. DispatchExact'
  BY <1>1, <1>2, <1>5 DEF DispatchExact
<1> QED  BY <1>4, <1>6 DEF ParseInv

(* What keeps the batches.                                                  *)
LEMMA BatchesKept ==
    ASSUME ParseInv, pool # "called", UNCHANGED <<dispatch, batches>>
    PROVE  /\ Joined(batches') = dispatch'.tasks
           /\ \A b \in DOMAIN batches' : Filled(batches[b])'
           /\ \A b \in 1 .. Len(batches') - 1 : CutBefore(batches[b], batches[b + 1])'
<1>1. /\ Joined(batches) = dispatch.tasks
      /\ \A b \in DOMAIN batches : Filled(batches[b])
      /\ \A b \in 1 .. Len(batches) - 1 : CutBefore(batches[b], batches[b + 1])
  BY DEF ParseInv, DispatchExact
<1> QED  BY <1>1 DEF Filled, CutBefore

LEMMA BatchSteps ==
    ASSUME ParseInv, NEW b \in DOMAIN batches, ParseBatch(b) \/ RejectBatch(b)
    PROVE  ParseInv'
<1>1. /\ ParseTypeOK /\ pool = "running" /\ UNCHANGED <<dispatch, batches, results>>
      /\ pool' \in {"running", "rejected"}
  BY DEF ParseInv, ParseBatch, RejectBatch
<1>2. busy' \in [DOMAIN batches -> {"queued", "parsing", "parsed"}]
  BY <1>1 DEF ParseTypeOK, ParseBatch, RejectBatch
<1>3. ParseTypeOK'
  BY <1>1, <1>2 DEF ParseTypeOK
<1>4. DispatchExact'
  BY <1>1, BatchesKept DEF DispatchExact
<1> QED  BY <1>3, <1>4 DEF ParseInv

LEMMA GatherStep ==
    ASSUME ParseInv, Gather
    PROVE  ParseInv'
<1>1. /\ ParseTypeOK /\ pool = "running" /\ UNCHANGED <<dispatch, batches, busy>>
      /\ pool' = "resolved" /\ results' = Sorted(Joined(batches))
      /\ Joined(batches) = dispatch.tasks
  BY DEF ParseInv, DispatchExact, Gather
<1>2. dispatch.tasks \in Seq(Nat)
  BY <1>1, CallFacts
<1>3. /\ results' \in Seq(Nat) /\ Increasing(results')
      /\ PathsIn(results') = PathsIn(dispatch'.tasks)
  BY <1>1, <1>2, SortedFacts
<1>4. ParseTypeOK'
  BY <1>1, <1>3 DEF ParseTypeOK
<1>5. DispatchExact'
  BY <1>1, <1>3, BatchesKept DEF DispatchExact
<1> QED  BY <1>4, <1>5 DEF ParseInv

(* The inductive invariant of the parse pool: the types, and what dispatch   *)
(* has made of the tasks.                                                    *)
THEOREM ParseInvariance == ParseSpec => []ParseInv
<1>1. ParseInit => ParseInv
  <2> SUFFICES ASSUME ParseInit PROVE ParseInv
    OBVIOUS
  <2>1. DispatchExact
    BY DEF ParseInit, DispatchExact
  <2>2. ParseTypeOK
    BY DEF ParseInit, ParseTypeOK
  <2> QED  BY <2>1, <2>2 DEF ParseInv
<1>2. ParseInv /\ [ParseNext]_parseVars => ParseInv'
  <2> SUFFICES ASSUME ParseInv, [ParseNext]_parseVars PROVE ParseInv'
    OBVIOUS
  <2>1. CASE Dispatch
    BY <2>1, CallSteps
  <2>2. CASE \E b \in DOMAIN batches : ParseBatch(b) \/ RejectBatch(b)
    BY <2>2, BatchSteps
  <2>3. CASE Gather
    BY <2>3, GatherStep
  <2>4. CASE UNCHANGED parseVars
    <3>1. ParseTypeOK'
      BY <2>4 DEF ParseInv, ParseTypeOK, parseVars
    <3>2. DispatchExact'
      BY <2>4, BatchesKept DEF DispatchExact, parseVars, ParseInv
    <3> QED  BY <3>1, <3>2 DEF ParseInv
  <2> QED  BY <2>1, <2>2, <2>3, <2>4 DEF ParseNext
<1> QED  BY <1>1, <1>2, PTL DEF ParseSpec

(* The batches are the tasks in order, each as full as the budget and the    *)
(* cap let it be, and the results are those of all tasks in the order of     *)
(* the paths, whatever the order in which the threads were done.             *)
THEOREM DispatchIsExact == ParseSpec => []DispatchExact
<1>1. ParseInv => DispatchExact
  BY DEF ParseInv
<1> QED  BY <1>1, ParseInvariance, PTL
=============================================================================
