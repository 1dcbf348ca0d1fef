------------------------------- MODULE MCHelpers -------------------------------
(* One run for eight small machines that do not interact: Machine is the set  *)
(* of their names, Init chooses the one that moves, the others stay as they   *)
(* start, where nothing of them is fair. The states add up, they do not       *)
(* multiply.                                                                  *)
EXTENDS ConnectionPool, ParsePool, ScannerPool, CobolBridge, Registry, Downloads,
        EmbedWaves, MCIncrementalGraph

CONSTANTS Machine, r1, r2, r3, n1, n2
VARIABLE machine

allVars == <<machine, vars, parseVars, scanVars, cobolVars, regVars, downVars,
            waveVars, edgeVars>>

(* Two repositories of three share their base name. *)
MCNameOf == [r \in {r1, r2, r3} |-> IF r = r3 THEN n2 ELSE n1]

(* The first batch has two files; one file has no records. *)
MCBatches == <<<<1, 2>>, <<3>>>>
MCRecords == <<2, 1, 0>>

(* Up to three files of 0 to 3 bytes, in any order of their paths, within     *)
(* budgets and caps from none to ample.                                       *)
MCDispatches ==
    {[tasks |-> t, size |-> s, budget |-> b, cap |-> c] :
        t \in {<<1, 2, 3>>, <<3, 1, 2>>}, s \in [1 .. 3 -> 0 .. 3], b \in {0, 3, 4}, c \in 0 .. 3}

(* Up to two batches of one or two jobs at a time; waves and batches that the  *)
(* jobs do not fill.                                                          *)
MCLoads ==
    {[jobs |-> j, batchSize |-> s, workers |-> w, remote |-> r] :
        j \in 0 .. 5, s \in {1, 2}, w \in {1, 2}, r \in BOOLEAN}

AllInit ==
    /\ machine \in Machine
    /\ Init
    /\ dispatch \in IF machine = "parse" THEN Dispatches ELSE {CHOOSE c \in Dispatches : TRUE}
    /\ batches = <<>> /\ busy = <<>> /\ pool = "called" /\ results = <<>>
    /\ ScanInit /\ CobolInit /\ RegInit
    /\ DownInit /\ (machine # "download" => kind = "binary")
    /\ WaveInit /\ (machine # "embed" => load = CHOOSE l \in Loads : TRUE)
    /\ EdgeInit

AllNext ==
    /\ \/ /\ machine = "pool" /\ Next
          /\ UNCHANGED <<parseVars, scanVars, cobolVars, regVars, downVars, waveVars, edgeVars>>
       \/ /\ machine = "parse" /\ ParseNext
          /\ UNCHANGED <<vars, scanVars, cobolVars, regVars, downVars, waveVars, edgeVars>>
       \/ /\ machine = "scan" /\ ScanNext
          /\ UNCHANGED <<vars, parseVars, cobolVars, regVars, downVars, waveVars, edgeVars>>
       \/ /\ machine = "cobol" /\ CobolNext
          /\ UNCHANGED <<vars, parseVars, scanVars, regVars, downVars, waveVars, edgeVars>>
       \/ /\ machine = "registry" /\ RegNext
          /\ UNCHANGED <<vars, parseVars, scanVars, cobolVars, downVars, waveVars, edgeVars>>
       \/ /\ machine = "download" /\ DownNext
          /\ UNCHANGED <<vars, parseVars, scanVars, cobolVars, regVars, waveVars, edgeVars>>
       \/ /\ machine = "embed" /\ WaveNext
          /\ UNCHANGED <<vars, parseVars, scanVars, cobolVars, regVars, downVars, edgeVars>>
       \/ /\ machine = "edges" /\ EdgeNext
          /\ UNCHANGED <<vars, parseVars, scanVars, cobolVars, regVars, downVars, waveVars>>
    /\ UNCHANGED machine

AllSpec ==
    /\ AllInit /\ [][AllNext]_allVars
    /\ Fairness /\ ScanFairness /\ CobolFairness /\ WaveFairness

(* The bound on the downloads: what comes after two have overlapped, of which *)
(* the properties say nothing, is not explored.                               *)
NoOverlapYet == ~overlapped
=============================================================================
