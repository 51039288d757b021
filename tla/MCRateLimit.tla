---------------------------- MODULE MCRateLimit ----------------------------
(* Small instances of RateLimit.                                           *)
EXTENDS RateLimit, TLC

SymWorkers == Permutations(Worker)
=============================================================================
