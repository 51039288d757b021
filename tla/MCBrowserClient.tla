--------------------------- MODULE MCBrowserClient ---------------------------
(* Small instances of BrowserClient for TLC.                               *)
EXTENDS BrowserClient, TLC

SymTabsWorkers == Permutations(Worker) \cup Permutations(Tab)
=============================================================================
