--------------------------- MODULE MCWorkerDispatch ---------------------------
(* Small instances of WorkerDispatch for TLC. *)
EXTENDS WorkerDispatch, TLC

CONSTANTS w1, w2, i1, i2, p1, p2

OneWorker == w1 :> i1
OnePid == w1 :> p1
SameInstance == w1 :> i1 @@ w2 :> i1
OwnPid == w1 :> p1 @@ w2 :> p2

\* What may be exchanged: workers, with their instances and processes.
Exchange == {f \in Permutations(Workers \cup Insts \cup Pids) : \A w \in Workers :
               /\ f[w] \in Workers
               /\ f[WorkerInst[w]] = WorkerInst[f[w]] /\ f[Pid[w]] = Pid[f[w]]}
===============================================================================
