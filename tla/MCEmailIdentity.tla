-------------------------- MODULE MCEmailIdentity --------------------------
(* Small instances of EmailIdentity.                                        *)
EXTENDS EmailIdentity, TLC

Sym == Permutations(Worker) \cup Permutations(Email) \cup Permutations(Sub)
=============================================================================
