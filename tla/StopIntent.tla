------------------------------ MODULE StopIntent ------------------------------
(***************************************************************************)
(* What the operation ledger promises about stopping a game instance, with *)
(* no files, locks, crashes or retries: a STOP takes effect in one step and *)
(* stands until an operator resumes the instance, also in one step.        *)
(* OperationLedger implements this specification.                          *)
(***************************************************************************)
CONSTANTS Stops,    \* STOP and CANCEL operations
          Insts,    \* game instances of one client slot
          StopInst  \* the instance each stop names

VARIABLES held,      \* held[i]: automatic preparation of instance i is denied
          standing,  \* stops that were issued and not resumed since
          paused     \* instances that were paused and not resumed since

vars == <<held, standing, paused>>

Init == /\ held = [i \in Insts |-> FALSE]
        /\ standing = {}
        /\ paused = {}

\* An operator (or a client command) issues stop s.
Stop(s) == /\ held' = [held EXCEPT ![StopInst[s]] = TRUE]
           /\ standing' = standing \cup {s}
           /\ UNCHANGED paused

\* An operator disables preparation without an operation.
Pause(i) == /\ held' = [held EXCEPT ![i] = TRUE]
            /\ paused' = paused \cup {i}
            /\ UNCHANGED standing

\* An operator resumes instance i: every stop issued so far is superseded.
Resume(i) == /\ held' = [held EXCEPT ![i] = FALSE]
             /\ standing' = {s \in standing : StopInst[s] # i}
             /\ paused' = paused \ {i}

Next == \/ \E s \in Stops : Stop(s)
        \/ \E i \in Insts : Pause(i) \/ Resume(i)

Spec == Init /\ [][Next]_vars
===============================================================================
