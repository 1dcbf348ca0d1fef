------------------------------ MODULE EmbedWaves ------------------------------
(***************************************************************************)
(* How the embeddings phase calls its embedder (the dispatch loop of       *)
(* packages/ingestion/src/pipeline/phases/embeddings.ts): the texts are    *)
(* cut into batches, a wave of batches is sent at the same time and is     *)
(* awaited as a whole. A local embedder answers a batch at once; the       *)
(* remote one (packages/embedder/src/http-embedder.ts) sends its texts one *)
(* by one and retries. Texts and vectors are numbered from 1.              *)
(***************************************************************************)
EXTENDS Integers, Sequences

CONSTANTS
    Loads,          \* runs: number of jobs, batchSize, workers, remote or not
    Lane,           \* the positions of batches in a wave, 1 .. the most workers
    MaxRetries      \* HTTP_MAX_RETRIES

Loading ==
    [jobs : Nat, batchSize : Nat \ {0}, workers : Nat \ {0}, remote : BOOLEAN]

ASSUME WaveAssumption ==
    /\ Loads \subseteq Loading
    /\ Lane \subseteq Nat \ {0}
    /\ \A l \in Loads : 1 .. l.workers \subseteq Lane
    /\ MaxRetries \in Nat

VARIABLES
    load,           \* the run
    wave,           \* opening, ready, waiting, returned, failed
    first,          \* the first job of the wave
    request,        \* of each batch: none, sent, backoff, answered, rejected
    attempt,        \* of the text it is at
    vectors,        \* of each batch, the texts whose vectors it has
    vecRows,        \* the rows: a job and the text its vector was made from
    posts           \* how often each text was sent (history)

waveVars == <<load, wave, first, request, attempt, vectors, vecRows, posts>>

Job == 1 .. load.jobs

WaveTypeOK ==
    /\ load \in Loads
    /\ wave \in {"opening", "ready", "waiting", "returned", "failed"}
    /\ first \in Nat \ {0}
    /\ request \in [Lane -> {"none", "sent", "backoff", "answered", "rejected"}]
    /\ attempt \in [Lane -> 0 .. MaxRetries]
    /\ vectors \in [Lane -> Seq(Job)]
    /\ vecRows \in Seq(Job \X Job)
    /\ posts \in [Job -> Nat]

WaveInit ==
    /\ load \in Loads
    /\ wave = "opening"
    /\ first = 1
    /\ request = [b \in Lane |-> "none"]
    /\ attempt = [b \in Lane |-> 0]
    /\ vectors = [b \in Lane |-> <<>>]
    /\ vecRows = <<>>
    /\ posts = [j \in Job |-> 0]

-----------------------------------------------------------------------------
Stride_OneBatch == load.batchSize

Stride == load.batchSize * load.workers

(* The jobs of batch b: the last batch, and the last wave, may be shorter.  *)
Lesser(m, n) == IF m <= n THEN m ELSE n

Offset(b) == first + (b - 1) * load.batchSize

Size(b) ==
    IF b > load.workers \/ Offset(b) > load.jobs THEN 0
    ELSE Lesser(load.batchSize, load.jobs - Offset(b) + 1)

Slice(b) == [k \in 1 .. Size(b) |-> Offset(b) + k - 1]

Texts(b) == {Slice(b)[k] : k \in 1 .. Size(b)}

(* The text batch b is at, which the remote embedder posts on its own.      *)
TextOf(b) == Slice(b)[Len(vectors[b]) + 1]

Posted(S) == [j \in Job |-> IF j \in S THEN posts[j] + 1 ELSE posts[j]]

(* The embedder is open and the jobs are collected.                         *)
OpenEmbedder ==
    /\ wave = "opening"
    /\ wave' = "ready"
    /\ UNCHANGED <<load, first, request, attempt, vectors, vecRows, posts>>

(* embedBatch is called for each batch of the wave.                         *)
Launch ==
    /\ wave = "ready" /\ first <= load.jobs
    /\ wave' = "waiting"
    /\ request' = [b \in Lane |-> IF Texts(b) = {} THEN "none" ELSE "sent"]
    /\ attempt' = [b \in Lane |-> 0]
    /\ vectors' = [b \in Lane |-> <<>>]
    /\ posts' = Posted(UNION {IF load.remote THEN {Slice(b)[1]} ELSE Texts(b) :
                                 b \in {c \in Lane : Texts(c) # {}}})
    /\ UNCHANGED <<load, first, vecRows>>

(* The vectors of the whole batch, or of one text; then the next is posted. *)
AnswerLocal(b) ==
    /\ request[b] = "sent" /\ ~load.remote
    /\ vectors' = [vectors EXCEPT ![b] = Slice(b)]
    /\ request' = [request EXCEPT ![b] = "answered"]
    /\ UNCHANGED <<load, wave, first, attempt, vecRows, posts>>

AnswerRemote(b) ==
    /\ request[b] = "sent" /\ load.remote
    /\ vectors' = [vectors EXCEPT ![b] = Append(@, TextOf(b))]
    /\ attempt' = [attempt EXCEPT ![b] = 0]
    /\ IF Len(vectors'[b]) = Size(b)
       THEN request' = [request EXCEPT ![b] = "answered"] /\ UNCHANGED posts
       ELSE posts' = Posted({Slice(b)[Len(vectors'[b]) + 1]}) /\ UNCHANGED request
    /\ UNCHANGED <<load, wave, first, vecRows>>

(* A network error, 429 or 5xx: try again after a pause, twice at most.     *)
Retried_OnceMore(b) == attempt[b] <= MaxRetries

Retried(b) == attempt[b] < MaxRetries

FailTransient(b) ==
    /\ request[b] = "sent" /\ load.remote
    /\ request' = [request EXCEPT ![b] = IF Retried(b) THEN "backoff" ELSE "rejected"]
    /\ UNCHANGED <<load, wave, first, attempt, vectors, vecRows, posts>>

PostAgain(b) ==
    /\ request[b] = "backoff"
    /\ request' = [request EXCEPT ![b] = "sent"]
    /\ attempt' = [attempt EXCEPT ![b] = @ + 1]
    /\ posts' = Posted({TextOf(b)})
    /\ UNCHANGED <<load, wave, first, vectors, vecRows>>

(* A timeout, another status, a malformed body, a vector of the wrong       *)
(* dimension; or the error of a local embedder.                             *)
FailFinally(b) ==
    /\ request[b] = "sent"
    /\ request' = [request EXCEPT ![b] = "rejected"]
    /\ UNCHANGED <<load, wave, first, attempt, vectors, vecRows, posts>>

RowsOf(b) == [k \in 1 .. Size(b) |-> <<Slice(b)[k], vectors[b][k]>>]

WaveDone_FullWaves == \A b \in 1 .. load.workers : request[b] = "answered"

WaveDone == \A b \in Lane : request[b] \in {"none", "answered"}

(* Promise.all has all batches: their rows are appended in input order.     *)
Collect ==
    /\ wave = "waiting" /\ WaveDone
    /\ LET rows[b \in 0 .. load.workers] ==
              IF b = 0 THEN vecRows ELSE rows[b - 1] \o RowsOf(b)
       IN  vecRows' = rows[load.workers]
    /\ first' = first + Stride
    /\ wave' = "ready"
    /\ UNCHANGED <<load, request, attempt, vectors, posts>>

(* Promise.all rejects with the first batch that does. The other batches of *)
(* the wave are not cancelled: they go on posting.                          *)
FailPhase ==
    /\ wave = "waiting"
    /\ \E b \in Lane : request[b] = "rejected"
    /\ wave' = "failed"
    /\ UNCHANGED <<load, first, request, attempt, vectors, vecRows, posts>>

ReturnRows ==
    /\ wave = "ready" /\ first > load.jobs
    /\ wave' = "returned"
    /\ UNCHANGED <<load, first, request, attempt, vectors, vecRows, posts>>

Settles(b) == AnswerLocal(b) \/ AnswerRemote(b) \/ FailTransient(b) \/ FailFinally(b)

WaveNext ==
    \/ OpenEmbedder
    \/ Launch
    \/ \E b \in Lane : Settles(b) \/ PostAgain(b)
    \/ Collect
    \/ FailPhase
    \/ ReturnRows

(* Every request is answered, fails or meets its timeout; the rest runs by  *)
(* itself.                                                                  *)
WaveFairness ==
    /\ WF_waveVars(Launch) /\ WF_waveVars(Collect) /\ WF_waveVars(FailPhase)
    /\ WF_waveVars(ReturnRows)
    /\ \A b \in Lane : WF_waveVars(Settles(b)) /\ WF_waveVars(PostAgain(b))

WaveSpec == WaveInit /\ [][WaveNext]_waveVars /\ WaveFairness

-----------------------------------------------------------------------------
(* A phase that returns has one row per job, in the order of the jobs, each *)
(* with the vector of its own text, however batches, waves, retries and     *)
(* answers fell; and no text was posted more than once and HTTP_MAX_RETRIES *)
(* times.                                                                   *)
WavesExact ==
    /\ vecRows = [j \in 1 .. Len(vecRows) |-> <<j, j>>]
    /\ wave = "returned" => Len(vecRows) = load.jobs
    /\ \A j \in Job : posts[j] <= IF load.remote THEN 1 + MaxRetries ELSE 1

(* The dispatch loop ends, even when the endpoint fails time and again.     *)
WavesEnd == wave = "ready" ~> wave \in {"returned", "failed"}

-----------------------------------------------------------------------------
(* The inductive invariant.  The rows are those of the jobs before the wave. *)
RowsInv ==
    /\ vecRows = [j \in 1 .. Lesser(first - 1, load.jobs) |-> <<j, j>>]
    /\ wave = "returned" => first > load.jobs

InWave == wave \in {"waiting", "failed"}

(* A batch has the vectors of its first texts, in order; one that is under   *)
(* way lacks some, one that is answered has all.                            *)
BatchInv(b) ==
    /\ request[b] = "none" <=> Size(b) = 0
    /\ vectors[b] = SubSeq(Slice(b), 1, Len(vectors[b]))
    /\ Len(vectors[b]) <= Size(b)
    /\ request[b] = "answered" => Len(vectors[b]) = Size(b)
    /\ request[b] \in {"sent", "backoff"} => Len(vectors[b]) < Size(b)
    /\ request[b] = "backoff" => load.remote /\ attempt[b] < MaxRetries

Limit == IF load.remote THEN 1 + MaxRetries ELSE 1

Reached == IF InWave THEN first + Stride ELSE first

(* The text a batch is at has been posted once for each attempt, those after *)
(* it not at all.                                                           *)
PostsInv ==
    /\ \A j \in Job : posts[j] <= Limit
    /\ \A j \in Job : j >= Reached => posts[j] = 0
    /\ InWave /\ load.remote =>
          \A b \in Lane : request[b] \in {"sent", "backoff"} =>
              /\ posts[TextOf(b)] = attempt[b] + 1
              /\ \A k \in Len(vectors[b]) + 2 .. Size(b) : posts[Slice(b)[k]] = 0

WaveInv ==
    /\ WaveTypeOK
    /\ RowsInv
    /\ InWave => \A b \in Lane : BatchInv(b)
    /\ ~InWave => \A b \in Lane : request[b] \in {"none", "answered"}
    /\ PostsInv
=============================================================================
