--------------------------- MODULE MCCountWorkers ---------------------------
(* Values for the constants of CountWorkers: a session ends at 3, so that   *)
(* one, two or three numbers end it; one thread more than entries, so that  *)
(* two workers on an entry could be seen.                                   *)
EXTENDS CountWorkers, TLC

TypedNumbers == {1, 2}
ThreadSymmetry == Permutations(Threads) \cup Permutations(Clients)
=============================================================================
