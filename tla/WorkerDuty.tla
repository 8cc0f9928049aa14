------------------------------ MODULE WorkerDuty ------------------------------
(***************************************************************************)
(* What a worker promises about the operations of its inbox and the native *)
(* resources of its client, with no threads, handoffs or stop signals.     *)
(* One operation at a time is ACTIVE, and it is activated when nobody      *)
(* holds the resources.  The resources have one holder, which gives them   *)
(* back only with proof.  A receipt never changes once it is terminal.  A  *)
(* worker whose calls raise may lose the operation that is ACTIVE, or the  *)
(* closure of preparation; a worker that lost an operation activates no    *)
(* other.  A worker ends with no operation ACTIVE and preparation closed,  *)
(* but for what it lost, and takes nothing afterwards.  WorkerServe        *)
(* implements this specification.                                          *)
(***************************************************************************)
CONSTANTS Ops, Preparation

VARIABLES inbox,    \* the receipt of each operation
          holders,  \* who holds native resources or has not proved to have closed them
          lost,     \* what the worker will not settle any more
          ended     \* the worker process has ended

vars == <<inbox, holders, lost, ended>>

Init == /\ inbox = [o \in Ops |-> "absent"]
        /\ holders = {} /\ lost = {}
        /\ ended = FALSE

Receives(o, from, to) == /\ inbox[o] = from
                         /\ inbox' = [inbox EXCEPT ![o] = to]
                         /\ UNCHANGED <<holders, ended>>

Active == {o \in Ops : inbox[o] = "active"}

Give(o) == Receives(o, "absent", "pending") /\ UNCHANGED lost

\* The operation expired, or its group command lost its permission.
Drop(o) == \E to \in {"expired", "rejected"} : Receives(o, "pending", to) /\ UNCHANGED lost

\* The activation may be what is lost: nobody hears of it.
Activate(o) == /\ ~ended /\ Active = {} /\ holders = {} /\ lost = {}
               /\ Receives(o, "pending", "active")
               /\ lost' \in {{}, {o}}

Settle(o) == /\ ~ended /\ o \notin lost
             /\ \E to \in {"succeeded", "cancelled", "failed"} : Receives(o, "active", to)
             /\ UNCHANGED lost

Lose(o) == /\ ~ended /\ inbox[o] = "active" /\ lost = {}
           /\ lost' = {o}
           /\ UNCHANGED <<inbox, holders, ended>>

Holds(before, after) == /\ ~ended /\ holders = before
                        /\ holders' = after
                        /\ UNCHANGED <<inbox, lost, ended>>

Take(o) == inbox[o] = "active" /\ lost = {} /\ Holds({}, {o})

\* With proof of cleanup, also after the receipt when the loop did not wait for it.
Return(o) == Holds({o}, {})

Prepare == Holds({}, {Preparation})
Close   == Holds({Preparation}, {})

\* The end may lose preparation.
End == /\ ~ended /\ Active \subseteq lost
       /\ ended' = TRUE
       /\ lost' \in {lost, lost \cup {Preparation}}
       /\ Preparation \in holders => Preparation \in lost'
       /\ UNCHANGED <<inbox, holders>>

Next == \/ \E o \in Ops : \/ Give(o) \/ Drop(o) \/ Activate(o) \/ Settle(o) \/ Lose(o)
                         \/ Take(o) \/ Return(o)
        \/ Prepare \/ Close \/ End

Spec == Init /\ [][Next]_vars
===============================================================================
