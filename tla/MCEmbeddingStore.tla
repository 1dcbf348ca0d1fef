--------------------------- MODULE MCEmbeddingStore ---------------------------
(* A symbol that can have one or two chunks, and a file.                     *)
EXTENDS EmbeddingStore

CONSTANTS sym, file, p, q, fp32

MCTierOf == [n \in {sym, file} |-> IF n = sym THEN "symbol" ELSE "file"]
MCTexts == {Absent, <<p>>, <<q>>, <<p, q>>}

(* Any embedder, tier and force, and a run without embeddings.               *)
MCRequests ==
    [embeddings : {TRUE}, variant : Local, remote : Remote \cup {None},
     tiers : {{}, {"symbol", "file"}}, force : BOOLEAN]
    \cup [embeddings : {FALSE}, variant : {fp32}, remote : {None}, tiers : {{}}, force : {TRUE}]

(* The file keeps one text and may be removed.                               *)
FileTexts == source[file] \in {Absent, <<p>>}
=============================================================================
