------------------------- MODULE MCPendingRequests -------------------------
(***************************************************************************)
(* Instances of PendingRequests.  Callers are interchangeable, which the   *)
(* run without liveness uses.                                              *)
(***************************************************************************)
EXTENDS PendingRequests, TLC

CallerSymmetry == Permutations(Caller)
====
