--------------------------- MODULE MCDjangoAccounts ---------------------------
(* Small instances of DjangoAccounts for TLC.                              *)
EXTENDS DjangoAccounts, TLC

Sym == Permutations(Worker) \cup Permutations(Username) \cup Permutations(Email)
         \cup Permutations(Sub) \cup Permutations(Browser)
=============================================================================
