------------------------------ MODULE NativeCall ------------------------------
(***************************************************************************)
(* What the command channel promises a host, with no rings, leases, clocks *)
(* or dying processes: a command that was asked for is executed at most    *)
(* once, its asker gets at most one answer, the answer is true of what     *)
(* came of it or says that this is not known, and after the answer nothing *)
(* more comes of it.  An asker that gives up learns nothing, and the       *)
(* command may still be executed.                                          *)
(* CommandChannel implements this specification.                           *)
(***************************************************************************)
EXTENDS Naturals

CONSTANT Calls

VARIABLES asked,  \* calls made so far
          runs,   \* how often each was executed
          fate,   \* what the client made of it: "none" until the execution ends
          reply   \* what the asker was told: "none" while it waits, "timeout" if it gave up

vars == <<asked, runs, fate, reply>>

Init == /\ asked = {}
        /\ runs = [i \in Calls |-> 0]
        /\ fate = [i \in Calls |-> "none"]
        /\ reply = [i \in Calls |-> "none"]

Answers == {"accepted", "refused", "uncertain"}

Open(i) == i \in asked /\ reply[i] \notin Answers

Ask(i) == /\ i \notin asked
          /\ asked' = asked \cup {i}
          /\ UNCHANGED <<runs, fate, reply>>

\* The client begins to execute call i.
Execute(i) == /\ Open(i) /\ runs[i] = 0
              /\ runs' = [runs EXCEPT ![i] = 1]
              /\ UNCHANGED <<asked, fate, reply>>

\* The execution ends.
Settle(i, outcome) == /\ Open(i) /\ runs[i] = 1 /\ fate[i] = "none"
                      /\ fate' = [fate EXCEPT ![i] = outcome]
                      /\ UNCHANGED <<asked, runs, reply>>

\* The asker is answered, never while the call is being executed.
Answer(i, told) == /\ i \in asked /\ reply[i] = "none"
                   /\ told = IF runs[i] = 0 THEN "refused" ELSE fate[i]
                   /\ reply' = [reply EXCEPT ![i] = told]
                   /\ UNCHANGED <<asked, runs, fate>>

GiveUp(i) == /\ i \in asked /\ reply[i] = "none"
             /\ reply' = [reply EXCEPT ![i] = "timeout"]
             /\ UNCHANGED <<asked, runs, fate>>

Next == \E i \in Calls : \/ Ask(i) \/ Execute(i) \/ GiveUp(i)
                         \/ \E told \in Answers : Settle(i, told) \/ Answer(i, told)

Spec == Init /\ [][Next]_vars
===============================================================================
