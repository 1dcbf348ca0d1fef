------------------------------- MODULE ParsePool -------------------------------
(***************************************************************************)
(* The worker threads of the parse phase (packages/ingestion/src/parse/    *)
(* worker-pool.ts and parse-worker.ts): the files to parse are cut into    *)
(* batches, batches are parsed at the same time, and what they return is   *)
(* put in the order of the paths. A path is a number.                      *)
(***************************************************************************)
EXTENDS Integers, Sequences, FiniteSets

CONSTANTS
    Dispatches,     \* calls of dispatch: tasks, size of each path, budget, cap
    Threads         \* how many batches are parsed at the same time

PathsIn(list) == {list[i] : i \in DOMAIN list}

ASSUME ParseAssumption ==
    /\ Threads \in Nat \ {0}
    /\ \A c \in Dispatches :
          /\ c.tasks \in Seq(Nat)
          /\ \A i, j \in DOMAIN c.tasks : c.tasks[i] = c.tasks[j] => i = j
          /\ c.size \in [PathsIn(c.tasks) -> Nat]
          /\ c.budget \in Nat /\ c.cap \in Nat

VARIABLES
    dispatch,       \* the call
    batches,        \* what chunkTasks made of it
    busy,           \* of each batch: queued, parsing, parsed
    pool,           \* called, running, resolved, rejected
    results         \* the paths of the results, in order

parseVars == <<dispatch, batches, busy, pool, results>>

ParseTypeOK ==
    /\ dispatch \in Dispatches
    /\ batches \in Seq(Seq(Nat))
    /\ busy \in [DOMAIN batches -> {"queued", "parsing", "parsed"}]
    /\ pool \in {"called", "running", "resolved", "rejected"}
    /\ results \in Seq(Nat)

ParseInit ==
    /\ dispatch \in Dispatches
    /\ batches = <<>> /\ busy = <<>>
    /\ pool = "called"
    /\ results = <<>>

-----------------------------------------------------------------------------
(* A task opens a new batch when it would make the present one reach the    *)
(* budget, or the present one is full.                                      *)
Flush_Exceeds(b, path) ==
    /\ b.current # <<>>
    /\ \/ b.bytes + dispatch.size[path] > dispatch.budget
       \/ Len(b.current) >= dispatch.cap

Flush(b, path) ==
    /\ b.current # <<>>
    /\ \/ b.bytes + dispatch.size[path] >= dispatch.budget
       \/ Len(b.current) >= dispatch.cap

AddTask(b, path) ==
    IF Flush(b, path)
    THEN [full |-> Append(b.full, b.current), current |-> <<path>>,
          bytes |-> dispatch.size[path]]
    ELSE [b EXCEPT !.current = Append(@, path), !.bytes = @ + dispatch.size[path]]

NoBatch == [full |-> <<>>, current |-> <<>>, bytes |-> 0]

chunkTasks ==
    LET after[k \in 0 .. Len(dispatch.tasks)] ==
            IF k = 0 THEN NoBatch ELSE AddTask(after[k - 1], dispatch.tasks[k])
        b == after[Len(dispatch.tasks)]
    IN  IF b.current = <<>> THEN b.full ELSE Append(b.full, b.current)

(* dispatch hands all batches to the pool, whose threads take them in order.*)
Dispatch ==
    /\ pool = "called"
    /\ batches' = chunkTasks
    /\ busy' = [b \in DOMAIN batches' |-> IF b <= Threads THEN "parsing" ELSE "queued"]
    /\ pool' = "running"
    /\ UNCHANGED <<dispatch, results>>

(* parseBatch has a result for each of its tasks, if need be an empty one;  *)
(* the thread takes the next batch.                                         *)
Queued == {b \in DOMAIN batches : busy[b] = "queued"}
Takes(b) == b \in Queued /\ \A c \in Queued : b <= c

ParseBatch(b) ==
    /\ pool = "running" /\ busy[b] = "parsing"
    /\ busy' = [c \in DOMAIN batches |-> IF c = b THEN "parsed"
                                          ELSE IF Takes(c) THEN "parsing" ELSE busy[c]]
    /\ UNCHANGED <<dispatch, batches, pool, results>>

(* The parser's runtime cannot be loaded: the first batch to say so rejects *)
(* the dispatch.                                                            *)
RejectBatch(b) ==
    /\ pool = "running" /\ busy[b] = "parsing"
    /\ pool' = "rejected"
    /\ UNCHANGED <<dispatch, batches, busy, results>>

Joined(lists) ==
    LET upTo[k \in 0 .. Len(lists)] == IF k = 0 THEN <<>> ELSE upTo[k - 1] \o lists[k]
    IN  upTo[Len(lists)]

Increasing(s) == \A i, j \in DOMAIN s : i < j => s[i] < s[j]

Sorted_AsAnswered(paths) == paths

(* The paths are distinct. *)
Sorted(paths) ==
    CHOOSE s \in [1 .. Cardinality(PathsIn(paths)) -> PathsIn(paths)] :
        Increasing(s) /\ PathsIn(s) = PathsIn(paths)

Gather ==
    /\ pool = "running"
    /\ \A b \in DOMAIN batches : busy[b] = "parsed"
    /\ results' = Sorted(Joined(batches))
    /\ pool' = "resolved"
    /\ UNCHANGED <<dispatch, batches, busy>>

ParseNext ==
    \/ Dispatch
    \/ \E b \in DOMAIN batches : ParseBatch(b) \/ RejectBatch(b)
    \/ Gather

ParseSpec == ParseInit /\ [][ParseNext]_parseVars

-----------------------------------------------------------------------------
Bytes(list, size) ==
    LET upTo[k \in 0 .. Len(list)] ==
            IF k = 0 THEN 0 ELSE upTo[k - 1] + size[list[k]]
    IN  upTo[Len(list)]

(* A batch is not empty nor over the cap, and does not reach the budget but  *)
(* by one file alone; it could not have taken in the first file of the next. *)
Filled(list) ==
    /\ list # <<>>
    /\ \/ Len(list) = 1
       \/ Len(list) <= dispatch.cap /\ Bytes(list, dispatch.size) < dispatch.budget

CutBefore(list, next) ==
    \/ Len(list) >= dispatch.cap
    \/ Bytes(list, dispatch.size) + dispatch.size[next[1]] >= dispatch.budget

(* The batches are the tasks in order, cut where they have to be and only   *)
(* there. The results are those of all tasks, in the order of the paths.    *)
DispatchExact ==
    pool # "called" =>
        /\ Joined(batches) = dispatch.tasks
        /\ \A b \in DOMAIN batches : Filled(batches[b])
        /\ \A b \in 1 .. Len(batches) - 1 : CutBefore(batches[b], batches[b + 1])
        /\ pool = "resolved" =>
              Increasing(results) /\ PathsIn(results) = PathsIn(dispatch.tasks)

(* The inductive invariant. *)
ParseInv == ParseTypeOK /\ DispatchExact
=============================================================================
