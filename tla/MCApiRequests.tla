--------------------------- MODULE MCApiRequests ----------------------------
(* The instance of ApiRequests that ApiRequests.cfg describes. It checks a *)
(* liveness property, so its processes are not declared symmetric.         *)
EXTENDS ApiRequests
=============================================================================
