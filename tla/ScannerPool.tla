----------------------------- MODULE ScannerPool -----------------------------
(***************************************************************************)
(* Running the scanners of codehub scan (packages/scanners/src/runner.ts): *)
(* a fixed number of workers share one index into the list of scanners.    *)
(* A worker asks whether the tool is installed, starts it as a child       *)
(* process under a timeout (exec.ts) and files the result in the slot of   *)
(* the scanner. A worker runs undisturbed between two awaits.              *)
(***************************************************************************)
EXTENDS Integers, Sequences, FiniteSets

CONSTANTS
    Scanners,       \* length of the list
    Workers,        \* concurrency
    Stubborn        \* scanners whose child may ignore SIGTERM

ASSUME ScannerAssumption ==
    /\ Scanners \in Nat
    /\ Workers \in Nat \ {0}
    /\ Stubborn \subseteq 1 .. Scanners

Scanner == 1 .. Scanners
Worker == 1 .. Workers

VARIABLES
    scan,           \* runScanners: not called, under way, returned
    nextIdx,        \* the scanner that is claimed next
    job,            \* the scanner a worker runs; beyond the list when it has ended
    child,          \* of each scanner: none, probing, scanning, terminated, ended
    starts,         \* how often its wrapper was called (history)
    runs,           \* the slots of the results
    errored         \* scanners whose wrapper threw, as they did

scanVars == <<scan, nextIdx, job, child, starts, runs, errored>>

Result == {"ran", "skipped", "errored"}

ScanTypeOK ==
    /\ scan \in {"ready", "running", "returned"}
    /\ nextIdx \in Nat \ {0}
    /\ job \in [Worker -> Nat]
    /\ child \in [Scanner -> {"none", "probing", "scanning", "terminated", "ended"}]
    /\ starts \in [Scanner -> Nat]
    /\ runs \in [Scanner -> Result \cup {"none"}]
    /\ errored \in Seq(Scanner)

ScanInit ==
    /\ scan = "ready"
    /\ nextIdx = 1
    /\ job = [w \in Worker |-> 0]
    /\ child = [i \in Scanner |-> "none"]
    /\ starts = [i \in Scanner |-> 0]
    /\ runs = [i \in Scanner |-> "none"]
    /\ errored = <<>>

-----------------------------------------------------------------------------
(* The workers are launched one after the other and claim up to their first *)
(* await, all before the first child answers.                              *)
StartScan ==
    /\ scan = "ready"
    /\ scan' = "running"
    /\ nextIdx' = nextIdx + Workers
    /\ job' = [w \in Worker |-> nextIdx + w - 1]
    /\ child' = [i \in Scanner |-> IF i < nextIdx + Workers THEN "probing" ELSE child[i]]
    /\ starts' = [i \in Scanner |-> IF i < nextIdx + Workers THEN starts[i] + 1 ELSE starts[i]]
    /\ UNCHANGED <<runs, errored>>

(* What a worker takes next, and where the index is left.                  *)
Claim_Stale(w) == job[w] + 1
Claim(w) == nextIdx

(* The wrapper of w's scanner returns or throws: its slot is filled and the *)
(* worker goes on to the next scanner, if there is one.                    *)
Finish(w, result) ==
    LET i == job[w]
        n == Claim(w)
    IN  /\ runs' = [runs EXCEPT ![i] = result]
        /\ errored' = IF result = "errored" THEN Append(errored, i) ELSE errored
        /\ nextIdx' = nextIdx + 1
        /\ job' = [job EXCEPT ![w] = n]
        /\ child' = [j \in Scanner |-> IF j = n THEN "probing"
                                       ELSE IF j = i THEN "ended" ELSE child[j]]
        /\ starts' = [j \in Scanner |-> IF j = n THEN starts[j] + 1 ELSE starts[j]]
        /\ UNCHANGED scan

Runs(w, state) == scan = "running" /\ job[w] \in Scanner /\ child[job[w]] = state

(* which finds the tool, or not: the scanner is skipped. *)
Found(w) ==
    /\ Runs(w, "probing")
    /\ child' = [child EXCEPT ![job[w]] = "scanning"]
    /\ UNCHANGED <<scan, nextIdx, job, starts, runs, errored>>

Missing(w) == Runs(w, "probing") /\ Finish(w, "skipped")

(* The child exits by itself, with whatever code. *)
Exits(w) == Runs(w, "scanning") /\ Finish(w, "ran")

(* It cannot be spawned, or writes too much. *)
Throws(w) == Runs(w, "scanning") /\ Finish(w, "errored")

(* The timeout sends SIGTERM, once.                                        *)
TimesOut_NotArmed(w) == Runs(w, "scanning") /\ UNCHANGED scanVars

TimesOut(w) ==
    /\ Runs(w, "scanning")
    /\ child' = [child EXCEPT ![job[w]] = "terminated"]
    /\ UNCHANGED <<scan, nextIdx, job, starts, runs, errored>>

(* The terminated child is gone: runBinary rejects, unless it exits with 0. *)
Terminated(w) ==
    Runs(w, "terminated") /\ (Finish(w, "errored") \/ Finish(w, "ran"))

(* Promise.all: every worker has come to the end of the list.              *)
Drained_FirstWorker == job[1] > Scanners
Drained == \A w \in Worker : job[w] > Scanners

ReturnScan ==
    /\ scan = "running"
    /\ Drained
    /\ scan' = "returned"
    /\ UNCHANGED <<nextIdx, job, child, starts, runs, errored>>

ScanNext ==
    \/ StartScan
    \/ \E w \in Worker :
          Found(w) \/ Missing(w) \/ Exits(w) \/ Throws(w) \/ TimesOut(w) \/ Terminated(w)
    \/ ReturnScan

(* The probe has a timeout of its own and answers; the timer of a scan      *)
(* fires if the child does not end; a child that is not stubborn obeys      *)
(* SIGTERM. Nothing is assumed of the scans themselves.                     *)
ScanFairness ==
    /\ WF_scanVars(ReturnScan)
    /\ \A w \in Worker :
          /\ WF_scanVars(Found(w) \/ Missing(w))
          /\ WF_scanVars(TimesOut(w))
          /\ WF_scanVars(job[w] \notin Stubborn /\ Terminated(w))

ScanSpec == ScanInit /\ [][ScanNext]_scanVars /\ ScanFairness

-----------------------------------------------------------------------------
(* When runScanners returns every scanner of the list has been started once *)
(* and has its result in its slot, and the list of failures names exactly   *)
(* those that threw, once each, in whatever order the children ended.       *)
ResultsComplete ==
    scan = "returned" =>
        /\ \A i \in Scanner : starts[i] = 1 /\ runs[i] # "none"
        /\ {errored[k] : k \in DOMAIN errored} = {i \in Scanner : runs[i] = "errored"}
        /\ \A j, k \in DOMAIN errored : errored[j] = errored[k] => j = k

(* runScanners returns unless a child outlives its SIGTERM: there is no     *)
(* second signal.                                                          *)
ScanReturns ==
    scan = "running" ~>
        scan = "returned" \/ \E i \in Stubborn : child[i] = "terminated"

-----------------------------------------------------------------------------
(* For the proofs: the claimed scanners are those below the index, each run *)
(* by one worker or finished.                                               *)
RunBy(i) == \E w \in Worker : job[w] = i

ScanInv ==
    /\ ScanTypeOK
    /\ scan = "ready" => nextIdx = 1 /\ errored = <<>>
    /\ scan # "ready" => \A w \in Worker : job[w] \in 1 .. nextIdx - 1
    /\ scan # "ready" => \A v, w \in Worker : job[v] = job[w] => v = w
    /\ \A i \in Scanner :
          /\ starts[i] = IF i < nextIdx THEN 1 ELSE 0
          /\ runs[i] # "none" <=> i < nextIdx /\ ~RunBy(i)
          /\ i >= nextIdx => child[i] = "none"
    /\ {errored[k] : k \in DOMAIN errored} = {i \in Scanner : runs[i] = "errored"}
    /\ \A j, k \in DOMAIN errored : errored[j] = errored[k] => j = k
    /\ scan = "returned" => Drained
=============================================================================
