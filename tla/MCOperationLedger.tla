--------------------------- MODULE MCOperationLedger ---------------------------
(* Small instances of OperationLedger for TLC. *)
EXTENDS OperationLedger, TLC

CONSTANTS s1, s2, t1, w1, w2, i1

\* Two stops, and a travel operation for the worker that replaced the first one on the same
\* game instance, submitted under the deduplication id of the first stop.  A transport retry
\* submits the same operation again.
ReusedOps == {s1, s2, t1}
ReusedStops == {s1, s2}
ReusedWorkerOf == s1 :> w1 @@ s2 :> w1 @@ t1 :> w2
ReusedDedup == s1 :> 1 @@ s2 :> 2 @@ t1 :> 1
ReusedWork == [o \in ReusedOps |-> IF o = t1 THEN "travel" ELSE "stop"]

\* A stop and a travel operation.
MixedOps == {s1, t1}
MixedStops == {s1}
MixedWorkerOf == s1 :> w1 @@ t1 :> w2
MixedDedup == s1 :> 1 @@ t1 :> 2
MixedWork == s1 :> "stop" @@ t1 :> "travel"

OneInstance == w1 :> i1 @@ w2 :> i1
===============================================================================
