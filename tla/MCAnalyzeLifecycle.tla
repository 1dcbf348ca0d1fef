-------------------------- MODULE MCAnalyzeLifecycle --------------------------
(* Values and bounds for checking AnalyzeLifecycle.                         *)
EXTENDS AnalyzeLifecycle, TLC

CONSTANTS f1, f2, same, own1, own2

(* Two contents for each file: the same is one of both.                      *)
Own == f1 :> {same, own1} @@ f2 :> {same, own2}

(* Files and their contents swap together; the commits but the first are     *)
(* interchangeable.                                                          *)
Swap == {f1 :> f2 @@ f2 :> f1 @@ own1 :> own2 @@ own2 :> own1}

OfItsOwn ==
    /\ \A f \in File : tree[f] \in Own[f]
    /\ same \notin {commits[Root][f] : f \in File}

(* The bound of the runs: at most one kind of mishap is outstanding.        *)
OneMishap == Cardinality(harm) <= 1

(* Once something has been scanned, or the cache is no longer to be trusted,  *)
(* nothing is committed and at most one file differs from the first commit;   *)
(* the two are not combined.                                                  *)
OneEdit ==
    LET scanned == sarif # None
        damaged == harm \cap {"race", "unparsed", "moved"} # {}
    IN  /\ ~(scanned /\ damaged)
        /\ scanned \/ damaged =>
               /\ \A d \in Commit \ {Root} : commits[d] = None
               /\ Cardinality({f \in File : tree[f] # commits[Root][f]}) <= 1
=============================================================================
