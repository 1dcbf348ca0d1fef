--------------------------- MODULE MCConnectionPool ---------------------------
(* Model values and symmetry for checking ConnectionPool.                   *)
EXTENDS ConnectionPool, TLC

(* Keys, calls and entries are interchangeable (safety runs only). *)
Symmetry == Permutations(Key) \cup Permutations(Call) \cup Permutations(Entry)
=============================================================================
