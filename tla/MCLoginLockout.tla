--------------------------- MODULE MCLoginLockout ---------------------------
(* The instance of LoginLockout that LoginLockout.cfg describes. It checks *)
(* a liveness property, so its workers are not declared symmetric.         *)
EXTENDS LoginLockout
=============================================================================
