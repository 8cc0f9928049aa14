---------------------------- MODULE MCWorkerServe ----------------------------
(* Instances of WorkerServe for TLC: a stop, a travel and a group operation. *)
EXTENDS WorkerServe

CONSTANTS stop, travel, come
=============================================================================
