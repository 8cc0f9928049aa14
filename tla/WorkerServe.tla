----------------------------- MODULE WorkerServe -----------------------------
(***************************************************************************)
(* The inside of one worker process: ExactClientWorkerRuntime.serve in     *)
(* manager/worker_runtime.py and PersistentPreparationService in           *)
(* manager/preparation_service.py.                                         *)
(*                                                                         *)
(* Four threads share the native resources of one game client.  The serve  *)
(* loop supervises.  The preparation thread owns a native owner (buffs,    *)
(* tracking) whenever it may.  A finite operation from the inbox runs on a *)
(* thread of its own, and an observer thread trips its stop signal.  Before*)
(* it starts an operation the loop asks the preparation service to hand    *)
(* the native resources over, and afterwards gives them back, saying       *)
(* whether the operation proved its own native cleanup.                    *)
(***************************************************************************)
EXTENDS Naturals, FiniteSets

CONSTANTS
    Ops,        \* operations addressed to this worker
    Stops,      \* those of kind STOP and CANCEL
    GroupOps,   \* those that a native group command asks for
    MaxUpsets,  \* how many calls raise and settings change, together
    None

ASSUME ServeAssumption ==
    /\ Stops \subseteq Ops
    /\ GroupOps \subseteq Ops \ Stops
    /\ MaxUpsets \in Nat
    /\ None \notin Ops

VARIABLES
    \* Files.
    inbox,      \* [Ops -> Receipts]
    enabled,    \* the preparation control record
    superseded, \* stops that a Resume made void
    permit,     \* the dispatch gate is open
    stopRequest,\* the worker's stop request file
    \* PersistentPreparationService.
    stopping, allowed, handoff, blocked, inflight, owner, closing, fault,
    prep,       \* the preparation thread: its place and its locals
    \* The serve loop.
    main,       \* its place, the operation it looks at, the result it took
    active,     \* active_operation
    waiting,    \* _preparation_waiting
    cleanupOk,  \* _group_cleanup_confirmed
    \* The operation thread and its stop signal.
    thread, tripped, result,
    \* The group observer's command for each group operation.
    command,
    \* History and bounds.
    unresolved, \* operations that took native resources and did not prove cleanup
    lost,       \* ACTIVE operations, and None for the preparation owner, that this
                \* worker gave up because the call that would settle them raised
    upsets      \* raised calls and changed settings

files   == <<inbox, enabled, superseded, permit, stopRequest>>
flags   == <<stopping, allowed, handoff, blocked, inflight, owner, closing, fault>>
loop    == <<main, active, waiting, cleanupOk>>
runner  == <<thread, tripped, result, unresolved>>
vars    == <<files, flags, prep, loop, runner, command, lost, upsets>>

-----------------------------------------------------------------------------
Terminal == {"succeeded", "cancelled", "failed", "rejected", "expired"}

Receipts == {"absent", "pending", "active"} \cup Terminal

NoResult == [state |-> "none", confirmed |-> FALSE]

Results == {NoResult}
    \cup [state: {"succeeded", "cancelled", "failed"}, confirmed: BOOLEAN]

PrepPlaces == {"read", "enter", "work", "create", "recheck", "decide", "step", "close",
               "dispose", "leave", "exited"}

NewPrep == [at |-> "read", enabled |-> FALSE, stop |-> FALSE, new |-> FALSE, failed |-> FALSE]

MainPlaces == {"loop", "complete", "release", "receipt", "group", "start",
               "handoff", "giveback", "claim", "spawn", "cancel", "join", "drain", "exited"}

Again == [at |-> "loop", op |-> None, got |-> NoResult]

Ending == {"cancel", "join", "drain", "exited"}

Preps ==
    [at: PrepPlaces, enabled: BOOLEAN, stop: BOOLEAN, new: BOOLEAN, failed: BOOLEAN]

Mains == [at: MainPlaces, op: Ops \cup {None}, got: Results]

FilesOK ==
    /\ inbox \in [Ops -> Receipts]
    /\ enabled \in BOOLEAN /\ permit \in BOOLEAN /\ stopRequest \in BOOLEAN
    /\ superseded \subseteq Stops
    /\ command \in [GroupOps -> {"none", "pending", "taken"}]

ServiceOK ==
    /\ stopping \in BOOLEAN /\ allowed \in BOOLEAN /\ handoff \in BOOLEAN
    /\ blocked \in BOOLEAN /\ inflight \in BOOLEAN /\ owner \in BOOLEAN
    /\ closing \in BOOLEAN /\ fault \in BOOLEAN
    /\ prep \in Preps

LoopOK ==
    /\ main \in Mains
    /\ active \in Ops \cup {None}
    /\ waiting \in BOOLEAN /\ cleanupOk \in BOOLEAN

RunnerOK ==
    /\ thread \in {"none", "running", "finished"}
    /\ tripped \in BOOLEAN
    /\ result \in Results
    /\ unresolved \subseteq Ops
    /\ lost \subseteq Ops \cup {None}
    /\ upsets \in 0 .. MaxUpsets

TypeOK == FilesOK /\ ServiceOK /\ LoopOK /\ RunnerOK

Init ==
    /\ inbox = [o \in Ops |-> "absent"]
    /\ enabled = TRUE /\ superseded = {} /\ permit = TRUE /\ stopRequest = FALSE
    /\ stopping = FALSE /\ allowed = TRUE /\ handoff = FALSE /\ blocked = FALSE
    /\ inflight = FALSE /\ owner = FALSE /\ closing = FALSE /\ fault = FALSE
    /\ prep = NewPrep
    /\ main = Again
    /\ active = None /\ waiting = FALSE /\ cleanupOk = TRUE
    /\ thread = "none" /\ tripped = FALSE /\ result = NoResult
    /\ command = [g \in GroupOps |-> "none"]
    /\ unresolved = {} /\ lost = {}
    /\ upsets = 0

\* Once the process has ended, so have its daemon threads.
Running == main.at # "exited"

\* A call raises, or a setting changes.
Upset == upsets < MaxUpsets /\ upsets' = upsets + 1

-----------------------------------------------------------------------------
(* The manager, its ingress and the native group observer *)

Submit(o) ==
    /\ o \in Ops \ GroupOps
    /\ inbox[o] = "absent"
    /\ inbox' = [inbox EXCEPT ![o] = "pending"]
    /\ enabled' = (enabled /\ o \notin Stops)
    /\ UNCHANGED <<superseded, permit, stopRequest, flags, prep, loop, runner, command, lost,
                   upsets>>

\* set_preparation_enabled: a Resume makes every retained stop void.
SetEnabled ==
    /\ Upset
    /\ enabled' = ~enabled
    /\ superseded' = IF enabled' THEN {o \in Stops : inbox[o] # "absent"} ELSE superseded
    /\ UNCHANGED <<inbox, permit, stopRequest, flags, prep, loop, runner, command, lost>>

ChangePermit ==
    /\ Upset
    /\ permit' = ~permit
    /\ UNCHANGED <<inbox, enabled, superseded, stopRequest, flags, prep, loop, runner, command,
                   lost>>

RequestWorkerStop ==
    /\ ~stopRequest
    /\ stopRequest' = TRUE
    /\ UNCHANGED <<inbox, enabled, superseded, permit, flags, prep, loop, runner, command, lost,
                   upsets>>

\* pending_for and claim_for_execution give an operation that expired its receipt.
Expire(o) ==
    /\ inbox[o] = "pending"
    /\ inbox' = [inbox EXCEPT ![o] = "expired"]
    /\ UNCHANGED <<enabled, superseded, permit, stopRequest, flags, prep, loop, runner, command,
                   lost, upsets>>

\* GroupCommandService: a fresh command is heard, or the heard one has aged.
HearCommand(g) ==
    /\ Running
    /\ \/ command[g] = "none" /\ command' = [command EXCEPT ![g] = "pending"]
       \/ command[g] = "pending" /\ command' = [command EXCEPT ![g] = "taken"]
    /\ UNCHANGED <<files, flags, prep, loop, runner, lost, upsets>>

-----------------------------------------------------------------------------
(* The preparation thread *)

Pending == {o \in Ops : inbox[o] = "pending"}

\* latch_preparation_stop of every stop that pending_for returns.
Latched == enabled /\ Pending \cap Stops \subseteq superseded

MayStart(e) == e /\ allowed /\ ~stopping /\ ~handoff /\ ~fault

\* _read_intent latches the pending stops; it turns an error into "disabled".
ReadIntent(from, to) ==
    /\ prep.at = from
    /\ \/ /\ enabled' = Latched
          /\ prep' = [prep EXCEPT !.at = to, !.enabled = permit /\ enabled']
          /\ UNCHANGED upsets
       \/ /\ Upset
          /\ prep' = [prep EXCEPT !.at = to, !.enabled = FALSE]
          /\ UNCHANGED enabled
    /\ UNCHANGED <<inbox, superseded, permit, stopRequest, flags, loop, runner, command, lost>>

\* Deliberately wrong: a blocked service does not notice that it has to stop.
MutEnterCycle ==
    /\ prep.at = "enter"
    /\ IF blocked
       THEN prep' = NewPrep /\ UNCHANGED inflight
       ELSE /\ prep' = [prep EXCEPT !.at = "work", !.stop = stopping,
                                    !.new = MayStart(prep.enabled)]
            /\ inflight' = TRUE
    /\ UNCHANGED <<files, stopping, allowed, handoff, blocked, owner, closing, fault, loop,
                   runner, command, lost, upsets>>

\* _cycle enters: flags are read and the cycle counts as in flight.
EnterCycle ==
    /\ prep.at = "enter"
    /\ IF blocked
       THEN /\ prep' = IF stopping THEN [prep EXCEPT !.at = "exited"] ELSE NewPrep
            /\ UNCHANGED inflight
       ELSE /\ prep' = [prep EXCEPT !.at = "work", !.stop = stopping,
                                    !.new = MayStart(prep.enabled)]
            /\ inflight' = TRUE
    /\ UNCHANGED <<files, stopping, allowed, handoff, blocked, owner, closing, fault, loop,
                   runner, command, lost, upsets>>

\* With an owner: maintain, which may fail.  Without: the factory, or nothing.
Work ==
    /\ prep.at = "work"
    /\ \/ /\ owner
          /\ \/ /\ prep' = [prep EXCEPT !.at = "recheck", !.failed = FALSE]
                /\ UNCHANGED upsets
             \/ /\ Upset
                /\ prep' = [prep EXCEPT !.at = "recheck", !.failed = TRUE]
       \/ /\ ~owner
          /\ prep' = [prep EXCEPT !.at = IF prep.new THEN "create" ELSE "leave"]
          /\ UNCHANGED upsets
    /\ UNCHANGED <<files, flags, loop, runner, command, lost>>

\* The factory makes an owner, finds nothing to prepare, or raises.
CreateOwner ==
    /\ prep.at = "create"
    /\ \/ /\ owner' = TRUE
          /\ closing' = FALSE
          /\ prep' = [prep EXCEPT !.at = "recheck", !.failed = FALSE]
       \/ /\ prep' = [prep EXCEPT !.at = "leave"]
          /\ UNCHANGED <<owner, closing>>
       \/ /\ prep' = [prep EXCEPT !.at = "leave", !.stop = FALSE]
          /\ UNCHANGED <<owner, closing>>
    /\ UNCHANGED <<files, stopping, allowed, handoff, blocked, inflight, fault, loop, runner,
                   command, lost, upsets>>

\* The flags are read again, with the settings, and the owner works or closes.
Decide ==
    /\ prep.at = "decide"
    /\ \/ prep' = [prep EXCEPT !.at = "close"]
       \/ /\ ~closing /\ ~prep.failed /\ MayStart(prep.enabled)
          /\ prep' = [prep EXCEPT !.at = "step"]
    /\ UNCHANGED <<files, flags, loop, runner, command, lost, upsets>>

\* A raising call of the cycle: the owner stays and is closed as faulty.
Raise ==
    /\ Upset
    /\ fault' = (fault \/ owner)
    /\ prep' = [prep EXCEPT !.at = "leave", !.stop = FALSE]

StepOwner ==
    /\ prep.at = "step"
    /\ \/ /\ prep' = [prep EXCEPT !.at = "leave", !.stop = FALSE]
          /\ UNCHANGED <<fault, upsets>>
       \/ Raise
    /\ UNCHANGED <<files, stopping, allowed, handoff, blocked, inflight, owner, closing, loop,
                   runner, command, lost>>

\* finish at first, later inspect_owner_closure: confirmed, not yet, or raised.
CloseOwner ==
    /\ prep.at = "close"
    /\ closing' = TRUE
    /\ \/ /\ prep' = [prep EXCEPT !.at = "dispose"]
          /\ UNCHANGED <<fault, upsets>>
       \/ /\ prep' = [prep EXCEPT !.at = "leave", !.stop = FALSE]
          /\ UNCHANGED <<fault, upsets>>
       \/ Raise
    /\ UNCHANGED <<files, stopping, allowed, handoff, blocked, inflight, owner, loop, runner,
                   command, lost>>

\* owner.close, after which the service forgets the owner and its fault.
DisposeOwner ==
    /\ prep.at = "dispose"
    /\ \/ /\ owner' = FALSE /\ closing' = FALSE /\ fault' = FALSE
          /\ prep' = [prep EXCEPT !.at = "leave"]
          /\ UNCHANGED upsets
       \/ Raise /\ UNCHANGED <<owner, closing>>
    /\ UNCHANGED <<files, stopping, allowed, handoff, blocked, inflight, loop, runner, command,
                   lost>>

\* The end of _cycle; _run returns when the cycle says so.
LeaveCycle ==
    /\ prep.at = "leave"
    /\ inflight' = FALSE
    /\ prep' = IF prep.stop THEN [prep EXCEPT !.at = "exited"] ELSE NewPrep
    /\ UNCHANGED <<files, stopping, allowed, handoff, blocked, owner, closing, fault, loop,
                   runner, command, lost, upsets>>

PrepStep ==
    /\ Running
    /\ \/ ReadIntent("read", "enter") \/ EnterCycle \/ Work \/ CreateOwner
       \/ ReadIntent("recheck", "decide") \/ Decide \/ StepOwner
       \/ CloseOwner \/ DisposeOwner \/ LeaveCycle

-----------------------------------------------------------------------------
(* The operation thread and the observer of its stop signal *)

Trip == tripped' = TRUE

(***************************************************************************)
(* executor.execute returns or raises.  STOP and CANCEL take no native     *)
(* resources and say so, unless what runs around them raises (their        *)
(* maintenance cannot begin); other work ends with or without its proof.   *)
(***************************************************************************)
FinishOperation ==
    /\ Running /\ thread = "running"
    /\ \E r \in Results \ {NoResult} :
        /\ active \in Stops => r.confirmed \/ r.state = "failed"
        /\ result' = r
        /\ unresolved' = IF r.confirmed THEN unresolved \ {active} ELSE unresolved
    /\ thread' = "finished"
    /\ UNCHANGED <<files, flags, prep, loop, tripped, command, lost, upsets>>

\* Deliberately wrong: the inbox is not read for a stop.
MutMustStop(o) ==
    \/ ~permit
    \/ stopRequest
    \/ o \in GroupOps /\ ~enabled

\* What _OperationStopSignal.refresh trips for.
MustStop(o) ==
    \/ ~permit
    \/ stopRequest
    \/ Pending \cap Stops # {}
    \/ o \in GroupOps /\ ~enabled

Observe ==
    /\ Running /\ thread = "running" /\ ~tripped
    /\ \/ MustStop(active) /\ UNCHANGED upsets
       \/ Upset
    /\ Trip
    /\ UNCHANGED <<files, flags, prep, loop, thread, result, unresolved, command, lost>>

-----------------------------------------------------------------------------
(* The serve loop *)

At(place) == main.at = place

Go(place) == main' = [main EXCEPT !.at = place]

(***************************************************************************)
(* serve leaves its loop: preparation is frozen, and an active operation   *)
(* is cancelled, which begins with a trip of its signal.  A stop request   *)
(* cancels inside the try block ("cancel"), where a failure of that has    *)
(* still the handler to go to; an exception cancels in the handler, "join".*)
(***************************************************************************)
Leaves(place) ==
    /\ stopping' = TRUE
    /\ tripped' = (tripped \/ active # None)
    /\ Go(IF active = None THEN "drain" ELSE place)

Ends == Leaves("join")

Fails ==
    /\ Upset
    /\ Ends

\* A stop request, a failure of the game guard, or a turn of supervision.
Loop ==
    /\ At("loop")
    /\ \/ stopRequest /\ Leaves("cancel") /\ UNCHANGED <<allowed, upsets>>
       \/ Fails /\ UNCHANGED allowed
       \/ /\ ~stopRequest
          /\ Go("complete")
          /\ allowed' = permit
          /\ UNCHANGED <<stopping, tripped, upsets>>
    /\ UNCHANGED <<files, handoff, blocked, inflight, owner, closing, fault, prep, active,
                   waiting, cleanupOk, thread, result, unresolved, command, lost>>

\* The result is taken from the queue when the thread has ended.
Complete ==
    /\ At("complete")
    /\ IF thread = "finished"
       THEN /\ main' = [main EXCEPT !.at = "release", !.got = result]
            /\ result' = NoResult
            /\ cleanupOk' = result.confirmed
       ELSE Go("group") /\ UNCHANGED <<result, cleanupOk>>
    /\ UNCHANGED <<files, flags, prep, active, waiting, thread, tripped, unresolved, command,
                   lost, upsets>>

\* What release_handoff checks before it does anything.
HandedOff == handoff /\ ~owner /\ ~inflight

ReleaseHandoff(confirmed) ==
    /\ HandedOff
    /\ handoff' = ~confirmed
    /\ blocked' = (blocked \/ ~confirmed)

Release ==
    /\ At("release")
    /\ \/ /\ ReleaseHandoff(main.got.confirmed)
          /\ waiting' = FALSE
          /\ Go("receipt")
          /\ UNCHANGED <<stopping, tripped>>
       \/ /\ ~HandedOff
          /\ Ends
          /\ UNCHANGED <<handoff, blocked, waiting>>
    /\ UNCHANGED <<files, allowed, inflight, owner, closing, fault, prep, active, cleanupOk,
                   thread, result, unresolved, command, lost, upsets>>

\* The receipt is published, or this raises before or after the write; the handler then
\* finds the result queue empty.
Receipt ==
    /\ At("receipt")
    /\ \/ /\ inbox' = [inbox EXCEPT ![active] = main.got.state]
          /\ active' = None /\ thread' = "none" /\ tripped' = FALSE
          /\ main' = [Again EXCEPT !.at = "group"]
          /\ UNCHANGED <<stopping, upsets>>
       \/ /\ Fails
          /\ inbox' \in {inbox, [inbox EXCEPT ![active] = main.got.state]}
          /\ UNCHANGED <<active, thread>>
    /\ UNCHANGED <<enabled, superseded, permit, stopRequest, allowed, handoff, blocked, inflight,
                   owner, closing, fault, prep, waiting, cleanupOk, result, unresolved, command,
                   lost>>

\* request_handoff: fresh work is frozen, and the answer is whether all is closed.
Ready == ~blocked /\ ~owner /\ ~inflight

(***************************************************************************)
(* _poll_group_commands.  A command preempts the active operation; without *)
(* one it waits for confirmed cleanup, an empty inbox, the handoff and a   *)
(* fresh observation of the group, and is then consumed once, with or      *)
(* without an operation to show for it.                                    *)
(***************************************************************************)
GroupPoll ==
    /\ At("group")
    /\ Go("start")
    /\ \/ UNCHANGED <<tripped, waiting, handoff, command, inbox>>
       \/ \E g \in GroupOps :
            /\ command[g] = "pending"
            /\ permit /\ enabled
            /\ \/ /\ active # None
                  /\ tripped' = TRUE
                  /\ UNCHANGED <<waiting, handoff, command, inbox>>
               \/ /\ active = None /\ cleanupOk /\ Pending = {}
                  /\ waiting' = TRUE
                  /\ handoff' = TRUE
                  /\ UNCHANGED tripped
                  /\ \/ UNCHANGED <<command, inbox>>
                     \/ /\ Ready
                        /\ command' = [command EXCEPT ![g] = "taken"]
                        /\ inbox' \in {inbox, [inbox EXCEPT ![g] = "pending"]}
    /\ UNCHANGED <<enabled, superseded, permit, stopRequest, stopping, allowed, blocked, inflight,
                   owner, closing, fault, prep, active, cleanupOk, thread, result, unresolved,
                   lost, upsets>>

\* The first of pending_for: stops before other work.
First == IF Pending \cap Stops # {} THEN Pending \cap Stops ELSE Pending

\* Deliberately wrong: an empty inbox leaves the reservation of preparation standing.
MutStart ==
    /\ At("start")
    /\ \/ /\ active # None \/ Pending = {}
          /\ main' = Again
          /\ UNCHANGED <<enabled, waiting>>
       \/ \E o \in First :
            /\ active = None
            /\ main' = [main EXCEPT !.at = "handoff", !.op = o]
            /\ enabled' = Latched
            /\ waiting' = TRUE
    /\ UNCHANGED <<inbox, superseded, permit, stopRequest, flags, prep, active, cleanupOk, runner,
                   command, lost, upsets>>

\* _start_next_operation reads the inbox and latches its stops.
Start ==
    /\ At("start")
    /\ \/ /\ active # None
          /\ main' = Again
          /\ UNCHANGED <<enabled, waiting>>
       \/ /\ active = None /\ Pending = {} /\ ~waiting
          /\ main' = Again
          /\ UNCHANGED <<enabled, waiting>>
       \/ /\ active = None /\ Pending = {} /\ waiting
          /\ Go("handoff")
          /\ UNCHANGED <<enabled, waiting>>
       \/ \E o \in First :
            /\ active = None
            /\ main' = [main EXCEPT !.at = "handoff", !.op = o]
            /\ enabled' = Latched
            /\ waiting' = TRUE
    /\ UNCHANGED <<inbox, superseded, permit, stopRequest, flags, prep, active, cleanupOk, runner,
                   command, lost, upsets>>

\* Deliberately wrong: a cycle in flight does not delay the handoff.
MutHandoff ==
    /\ At("handoff")
    /\ handoff' = TRUE
    /\ IF ~blocked /\ ~owner
       THEN Go(IF main.op = None THEN "giveback" ELSE "claim")
       ELSE main' = Again
    /\ UNCHANGED <<files, stopping, allowed, blocked, inflight, owner, closing, fault, prep,
                   active, waiting, cleanupOk, runner, command, lost, upsets>>

Handoff ==
    /\ At("handoff")
    /\ handoff' = TRUE
    /\ IF Ready
       THEN Go(IF main.op = None THEN "giveback" ELSE "claim")
       ELSE main' = Again
    /\ UNCHANGED <<files, stopping, allowed, blocked, inflight, owner, closing, fault, prep,
                   active, waiting, cleanupOk, runner, command, lost, upsets>>

\* Nothing is pending any more: the reservation is given back at once.
GiveBack ==
    /\ At("giveback")
    /\ \/ /\ ReleaseHandoff(TRUE)
          /\ waiting' = FALSE
          /\ main' = Again
          /\ UNCHANGED <<stopping, tripped>>
       \/ /\ ~HandedOff
          /\ Ends
          /\ UNCHANGED <<handoff, blocked, waiting>>
    /\ UNCHANGED <<files, allowed, inflight, owner, closing, fault, prep, active, cleanupOk,
                   thread, result, unresolved, command, lost, upsets>>

(***************************************************************************)
(* A group command that lost its permission is rejected, which raises if   *)
(* the preparation thread has meanwhile given it its terminal receipt; an  *)
(* expired operation is not claimed.  claim_for_execution may raise before *)
(* it writes ACTIVE, or after: then serve has no operation to cancel.      *)
(***************************************************************************)
Claim ==
    /\ At("claim")
    /\ \/ /\ main.op \in GroupOps /\ inbox[main.op] = "pending"
          /\ inbox' = [inbox EXCEPT ![main.op] = "rejected"]
          /\ main' = Again
          /\ UNCHANGED <<stopping, tripped, lost, upsets>>
       \/ /\ main.op \in GroupOps /\ inbox[main.op] # "pending"
          /\ Ends
          /\ UNCHANGED <<inbox, lost, upsets>>
       \/ /\ inbox[main.op] # "pending"
          /\ main' = Again
          /\ UNCHANGED <<inbox, stopping, tripped, lost, upsets>>
       \/ /\ inbox[main.op] = "pending"
          /\ inbox' = [inbox EXCEPT ![main.op] = "active"]
          /\ Go("spawn")
          /\ UNCHANGED <<stopping, tripped, lost, upsets>>
       \/ /\ Fails
          /\ UNCHANGED <<inbox, lost>>
       \/ /\ Fails
          /\ inbox[main.op] = "pending"
          /\ inbox' = [inbox EXCEPT ![main.op] = "active"]
          /\ lost' = lost \cup {main.op}
    /\ UNCHANGED <<enabled, superseded, permit, stopRequest, allowed, handoff, blocked, inflight,
                   owner, closing, fault, prep, active, waiting, cleanupOk, thread, result,
                   unresolved, command>>

(***************************************************************************)
(* The signal looks once by itself, and the thread starts or cannot, which *)
(* the receipt says.  If the signal cannot be made, or that receipt cannot *)
(* be published, the exception leaves the operation ACTIVE.                *)
(***************************************************************************)
Spawn ==
    /\ At("spawn")
    /\ \/ /\ main' = Again
          /\ active' = main.op
          /\ thread' = "running" /\ result' = NoResult
          /\ tripped' = MustStop(main.op)
          /\ unresolved' = IF main.op \in Stops THEN unresolved ELSE unresolved \cup {main.op}
          /\ UNCHANGED <<inbox, stopping, lost, upsets>>
       \/ /\ Upset
          /\ main' = Again
          /\ inbox' = [inbox EXCEPT ![main.op] = "failed"]
          /\ UNCHANGED <<active, stopping, runner, lost>>
       \/ /\ Fails
          /\ lost' = lost \cup {main.op}
          /\ UNCHANGED <<inbox, active, thread, result, unresolved>>
    /\ UNCHANGED <<enabled, superseded, permit, stopRequest, allowed, handoff, blocked, inflight,
                   owner, closing, fault, prep, waiting, cleanupOk, command>>

\* Deliberately wrong: the result is published although the queue is empty.
MutJoin ==
    /\ main.at \in {"cancel", "join"}
    /\ inbox' = [inbox EXCEPT ![active] =
            IF thread = "running" THEN "failed" ELSE result.state]
    /\ Go("drain")
    /\ UNCHANGED <<enabled, superseded, permit, stopRequest, flags, prep, active, waiting,
                   cleanupOk, runner, command, lost, upsets>>

(***************************************************************************)
(* What _cancel_active_operation publishes.  Its join ended, or timed out  *)
(* with the operation still running.  Success is not reported for an       *)
(* operation that was cancelled, nor when the queue is empty because the   *)
(* result had been taken before the failure.                               *)
(***************************************************************************)
Cancelled ==
    [inbox EXCEPT ![active] =
        IF thread = "running" \/ result.state = "failed" THEN "failed" ELSE "cancelled"]

(***************************************************************************)
(* _cancel_active_operation, which takes the result.  Its publish_receipt  *)
(* raises when the operation has a terminal receipt already, and may raise *)
(* before or after the write.  The first attempt of a stop request is      *)
(* followed by the handler's; what that raises leaves serve.               *)
(***************************************************************************)
Join ==
    /\ main.at \in {"cancel", "join"}
    /\ result' = IF thread = "running" THEN result ELSE NoResult
    /\ \/ /\ inbox[active] = "active"
          /\ inbox' = Cancelled
          /\ Go("drain")
          /\ UNCHANGED <<lost, upsets>>
       \/ /\ inbox[active] # "active"
          /\ Go(IF At("cancel") THEN "join" ELSE "drain")
          /\ UNCHANGED <<inbox, lost, upsets>>
       \/ /\ inbox[active] = "active"
          /\ Upset
          /\ inbox' \in {inbox, Cancelled}
          /\ Go(IF At("cancel") THEN "join" ELSE "drain")
          /\ lost' = IF At("join") /\ inbox'[active] = "active" THEN lost \cup {active} ELSE lost
    /\ UNCHANGED <<enabled, superseded, permit, stopRequest, flags, prep, active, waiting,
                   cleanupOk, thread, tripped, unresolved, command>>

\* Deliberately wrong: the worker does not wait for the preparation thread.
MutDrain ==
    /\ At("drain")
    /\ Go("exited")
    /\ stopping' = TRUE
    /\ UNCHANGED <<files, allowed, handoff, blocked, inflight, owner, closing, fault, prep,
                   active, waiting, cleanupOk, runner, command, lost, upsets>>

\* _stop_preparation waits for the preparation thread, however long that takes, unless the
\* heartbeat that it publishes on every turn raises.
Drain ==
    /\ At("drain")
    /\ stopping' = TRUE
    /\ \/ /\ prep.at = "exited"
          /\ Go("exited")
          /\ UNCHANGED <<lost, upsets>>
       \/ /\ prep.at # "exited"
          /\ UNCHANGED <<main, lost, upsets>>
       \/ /\ prep.at # "exited"
          /\ Upset
          /\ Go("exited")
          /\ lost' = lost \cup {None}
    /\ UNCHANGED <<files, allowed, handoff, blocked, inflight, owner, closing, fault, prep,
                   active, waiting, cleanupOk, runner, command>>

MainStep ==
    \/ Loop \/ Complete \/ Release \/ Receipt \/ GroupPoll \/ Start
    \/ Handoff \/ GiveBack \/ Claim \/ Spawn \/ Join \/ Drain

-----------------------------------------------------------------------------
Terminated == ~Running /\ UNCHANGED vars

Next ==
    \/ PrepStep
    \/ MainStep
    \/ FinishOperation
    \/ Observe
    \/ \E o \in Ops : Submit(o) \/ Expire(o)
    \/ SetEnabled \/ ChangePermit \/ RequestWorkerStop
    \/ \E g \in GroupOps : HearCommand(g)
    \/ Terminated

Spec == Init /\ [][Next]_vars

-----------------------------------------------------------------------------
(***************************************************************************)
(* Fairness.  Both threads go on, the loop by what its calls return rather *)
(* than by what they may raise; an observer that has a reason trips the    *)
(* signal; native closure is proved sometimes if it is inspected again and *)
(* again (at the latest when the game process has retired); and the loop,  *)
(* which polls the handoff every quarter second, sometimes finds the       *)
(* preparation thread between two cycles, which is where it spends its     *)
(* time.                                                                   *)
(***************************************************************************)
Fairness ==
    /\ WF_vars(MainStep /\ upsets' = upsets)
    /\ WF_vars(PrepStep)
    /\ WF_vars(Observe /\ MustStop(active))
    /\ SF_vars(CloseOwner /\ prep'.at = "dispose")
    /\ []<><<Handoff>>_vars => []<><<Handoff /\ (owner \/ ~inflight)>>_vars

FairSpec == Spec /\ Fairness

-----------------------------------------------------------------------------
(* Properties *)

\* The preparation thread holds native resources: its owner, or a factory at work.
PrepHolds == owner \/ prep.at = "create"

(***************************************************************************)
(* Native resources have one holder: the preparation owner or one finite   *)
(* operation, and an operation that did not prove its cleanup counts as    *)
(* the holder for as long as this worker lives.                            *)
(***************************************************************************)
OneNativeOwner ==
    /\ Cardinality(unresolved) <= 1
    /\ unresolved # {} => ~PrepHolds

(***************************************************************************)
(* The worker ends only after the preparation owner was closed with proof: *)
(* "a host timeout cannot turn an unresolved action into permission to     *)
(* discard its resources" (worker_runtime.py:627-629).  The one exception  *)
(* is a heartbeat that could not be published while it waited.             *)
(***************************************************************************)
ExitClosesOwner == main.at = "exited" /\ PrepHolds => None \in lost

(***************************************************************************)
(* The threads implement WorkerDuty: whatever they interleave and whatever *)
(* raises, one operation at a time is ACTIVE, preparation and operations   *)
(* hold the native resources in turn and give them back only with proof,   *)
(* terminal receipts stay, a worker that lost an operation takes no more   *)
(* work, and the process ends with everything settled that was not lost.   *)
(* None, which is no operation, stands for preparation.                    *)
(***************************************************************************)
Holders == unresolved \cup (IF PrepHolds THEN {None} ELSE {})
Duty == INSTANCE WorkerDuty WITH
            Preparation <- None, holders <- Holders, ended <- (main.at = "exited")
ImplementsDuty == Duty!Spec

(***************************************************************************)
(* One operation at a time is ACTIVE.  After the worker has ended it is    *)
(* one whose settling call raised (claim_for_execution after its write,    *)
(* the start of the thread, or _cancel_active_operation in the handler of  *)
(* serve): nothing is lost without such a call, and none is activated      *)
(* after it.                                                               *)
(***************************************************************************)
OneActive ==
    /\ \A o, p \in Ops : inbox[o] = "active" /\ inbox[p] = "active" => o = p
    /\ main.at = "exited" => \A o \in Ops : inbox[o] = "active" => o \in lost
    /\ lost # {} => upsets > 0 /\ main.at \in {"drain", "exited"}

(***************************************************************************)
(* A worker that is asked to stop ends, and leaves no operation ACTIVE but *)
(* one that it lost to a call that raised.                                 *)
(***************************************************************************)
StopSettles ==
    stopRequest ~> (main.at = "exited" /\ \A o \in Ops : inbox[o] = "active" => o \in lost)

(***************************************************************************)
(* A pending STOP or CANCEL reaches the operation that runs.               *)
(***************************************************************************)
StopTrips ==
    \A o \in Stops :
        (inbox[o] = "pending" /\ thread = "running")
            ~> (tripped \/ thread # "running" \/ inbox[o] # "pending")

(***************************************************************************)
(* The handoff does not get lost: it is used, given back or ended, so that *)
(* preparation is not held up forever by an operation that never ran.      *)
(***************************************************************************)
HandoffReturned ==
    handoff ~> (~handoff \/ blocked \/ thread # "none" \/ main.at \in Ending)

(***************************************************************************)
(* A finished operation that proved its native cleanup gives the native    *)
(* resources back to preparation (tests/test_preparation_service.py:89,    *)
(* test_positive_finite_cleanup_resumes_saved_intent).                     *)
(***************************************************************************)
PositiveCleanupResumes ==
    [][main.at = "release" /\ main'.at # "release" /\ main.got.confirmed => ~handoff']_vars
-----------------------------------------------------------------------------
(* The inductive invariant that the proofs use *)

InCycle == {"work", "create", "recheck", "decide", "step", "close", "dispose", "leave"}

WithOwner == {"recheck", "decide", "step", "close", "dispose"}

\* Preparation has handed off and will not make an owner.
Quiet == handoff /\ ~owner /\ prep.at # "create" /\ (prep.at = "work" => ~prep.new)

\* The preparation thread: where it has an owner, and where it has none.
PrepInv ==
    /\ prep.at \in InCycle => inflight
    /\ prep.at \in WithOwner => owner
    /\ prep.at \in {"create", "exited"} => ~owner
    /\ prep.at = "leave" /\ prep.stop => ~owner
    /\ blocked => Quiet

\* The serve loop and its operation thread.
LoopInv ==
    /\ active = None <=> thread = "none"
    /\ main.at \in {"handoff", "giveback", "claim", "spawn"} => active = None
    /\ main.at \in {"claim", "spawn"} => main.op # None
    /\ main.at \in {"giveback", "claim", "spawn"} => ~blocked /\ Quiet
    /\ main.at \in {"release", "receipt"} => thread = "finished" /\ main.got # NoResult
    /\ main.at \in {"cancel", "join"} => active # None
    /\ main.at = "exited" => prep.at = "exited" \/ None \in lost
    /\ active # None /\ main.at \notin Ending \cup {"receipt"} => ~blocked

\* Who answers for an operation that has not proved its cleanup.
CleanupInv ==
    /\ unresolved # {} => Quiet /\ (blocked \/ active # None)
    /\ \A o, p \in unresolved : o = p
    /\ thread = "running" => unresolved \subseteq {active}
    /\ thread = "finished" /\ main.at \notin Ending \cup {"release", "receipt"} =>
            result # NoResult /\ (result.confirmed => unresolved = {})
    /\ main.at = "release" /\ main.got.confirmed => unresolved = {}
    /\ main.at = "receipt" => (unresolved = {} \/ blocked)

\* Whose operation has the receipt ACTIVE, which the refinement needs besides.
DutyInv ==
    /\ \A o \in Ops : inbox[o] = "active" =>
            \/ main.at = "spawn" /\ main.op = o
            \/ active = o /\ main.at \notin {"drain", "exited"}
            \/ o \in lost
    /\ main.at = "spawn" => inbox[main.op] = "active"
    /\ active # None /\ main.at \notin Ending => inbox[active] = "active"
    /\ lost # {} => upsets > 0 /\ main.at \in {"drain", "exited"}
    /\ \A o, p \in lost \ {None} : o = p
    /\ \A g \in GroupOps : command[g] # "taken" => inbox[g] = "absent"

ServeInv == TypeOK /\ PrepInv /\ LoopInv /\ CleanupInv
=============================================================================
