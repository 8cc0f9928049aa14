--------------------------- MODULE MCWorkerLaunch ---------------------------
(* Instances of WorkerLaunch for TLC. *)
EXTENDS WorkerLaunch, TLC

CONSTANTS a, b, c, s1, g1

\* All nonces are for one slot and one game lifetime.
OneSlot == [w \in Workers |-> s1]
OneGame == [w \in Workers |-> g1]

\* What may be exchanged: hosts, and the nonces of launches.
Exchange == Permutations(Hosts) \cup Permutations({a, b})

\* An inspection that has answered is like one that has not begun.
Answered == <<files, proc, memory, tx, launcher, faults,
              IF look.at = "attached" THEN NoLook ELSE look>>
=============================================================================
