---------------------------- MODULE WorkerLaunch ----------------------------
(***************************************************************************)
(* How manager/worker_runtime.py starts one worker process per slot:       *)
(* ManagedWorkerController with its durable .launch-reservation, and       *)
(* SubprocessWorkerLauncher with the process handles it keeps in memory.   *)
(*                                                                         *)
(* A launch goes through four durable steps: the reservation is written as *)
(* "launching", the process is created, the reservation becomes            *)
(* "unverified", and after the interpreter's first heartbeat "started".    *)
(* The process that Popen returns may be a redirector that starts the      *)
(* interpreter, so its exit proves nothing about the worker.  A controller *)
(* may fail or die between any two steps, and another one may go on.       *)
(*                                                                         *)
(* A worker is named by the nonce the controller made for it, so no name   *)
(* is used twice.  A process lifetime is a PID with its creation time; the *)
(* code compares both, and the model names the lifetime by the worker.     *)
(***************************************************************************)
EXTENDS Naturals, FiniteSets

CONSTANTS
    Hosts,       \* processes with a controller: the manager and its successors
    Workers,     \* launch nonces
    External,    \* workers that somebody starts by hand, without a controller
    Slots, Instances,
    SlotOf,      \* the slot and the game lifetime each nonce is made for
    InstanceOf,
    MaxFaults,   \* how many steps of controllers fail or crash
    None

ASSUME LaunchAssumption ==
    /\ External \subseteq Workers
    /\ SlotOf \in [Workers -> Slots]
    /\ InstanceOf \in [Workers -> Instances]
    /\ MaxFaults \in Nat
    /\ None \notin Workers \cup Hosts \cup Instances

VARIABLES
    \* Files.
    reservation, \* [Slots -> Reservations]: .launch-reservation
    heartbeat,   \* [Workers -> {"none", "up", "down"}]: its heartbeat file
    stop,        \* the workers with a stop request file
    \* Processes.
    proc,        \* [Workers -> Lives]
    \* The launchers' memory.
    children,    \* [Hosts -> SUBSET Workers]: _children and _bindings
    verified,    \* [Hosts -> SUBSET Workers]: _worker_processes
    durable,     \* [Hosts -> SUBSET Workers]: _durable_children
    \* The transaction under each slot's .launch.lock.
    tx,
    \* One caller of inspect_activation, which takes no lock.
    look,
    \* History.
    launcher,    \* [Workers -> host that created it and still runs, or None]
    faults

files   == <<reservation, heartbeat, stop>>
memory  == <<children, verified, durable>>
vars == <<files, proc, memory, tx, look, launcher, faults>>

-----------------------------------------------------------------------------
(* Reservations, processes and transactions *)

NoReservation == [worker |-> None, phase |-> "absent"]

Reservations ==
    {NoReservation}
        \cup [worker: Workers, phase: {"launching", "unverified", "started"}]

(***************************************************************************)
(* The life of a worker: the redirector alone, with its interpreter, the   *)
(* interpreter alone, the redirector that outlives it, or both gone.  A    *)
(* worker started without a redirector goes from "both" to "gone".         *)
(***************************************************************************)
Lives == {"none", "child", "both", "interpreter", "tail", "gone"}

Interpreted(w) == proc[w] \in {"both", "interpreter"}

ChildRuns(w) == proc[w] \in {"child", "both", "tail"}

\* An interpreter that runs or may still be started.
Alive(w) == proc[w] \in {"child", "both", "interpreter"}

NoTx == [at |-> "free", op |-> "none", host |-> None, instance |-> None,
         worker |-> None, live |-> {}]

Ops == {"ensure", "stop", "turn"}

Labels == {"free", "recover", "resolved", "departed", "records", "stops", "reuse", "check",
           "reserve", "popen", "unverified", "await", "attach"}

Transactions ==
    [at: Labels, op: Ops \cup {"none"}, host: Hosts \cup {None},
     instance: Instances \cup {None}, worker: Workers \cup {None},
     live: SUBSET Workers]

NoLook == [at |-> "idle", worker |-> None]

TypeOK ==
    /\ reservation \in [Slots -> Reservations]
    /\ heartbeat \in [Workers -> {"none", "up", "down"}]
    /\ stop \subseteq Workers
    /\ proc \in [Workers -> Lives]
    /\ children \in [Hosts -> SUBSET Workers]
    /\ verified \in [Hosts -> SUBSET Workers]
    /\ durable \in [Hosts -> SUBSET Workers]
    /\ tx \in [Slots -> Transactions]
    /\ look \in [at: {"idle", "reserved", "checked", "again", "attached"},
                 worker: Workers \cup {None}]
    /\ launcher \in [Workers -> Hosts \cup {None}]
    /\ faults \in 0 .. MaxFaults

Init ==
    /\ reservation = [s \in Slots |-> NoReservation]
    /\ heartbeat = [w \in Workers |-> "none"]
    /\ stop = {}
    /\ proc = [w \in Workers |-> "none"]
    /\ children = [h \in Hosts |-> {}]
    /\ verified = [h \in Hosts |-> {}]
    /\ durable = [h \in Hosts |-> {}]
    /\ tx = [s \in Slots |-> NoTx]
    /\ look = NoLook
    /\ launcher = [w \in Workers |-> None]
    /\ faults = 0

-----------------------------------------------------------------------------
(* Workers *)

StartExternal(w) ==
    /\ w \in External
    /\ proc[w] = "none"
    /\ proc' = [proc EXCEPT ![w] = "interpreter"]
    /\ UNCHANGED <<files, memory, tx, look, launcher, faults>>

\* The redirector starts the interpreter.
StartInterpreter(w) ==
    /\ proc[w] = "child"
    /\ proc' = [proc EXCEPT ![w] = "both"]
    /\ UNCHANGED <<files, memory, tx, look, launcher, faults>>

\* A redirector or interpreter ends, for its own or for an outside reason.
ProcessExit(w) ==
    /\ \/ /\ proc[w] = "child"
          /\ proc' = [proc EXCEPT ![w] = "gone"]
       \/ /\ proc[w] = "both"
          /\ \E p \in {"interpreter", "tail", "gone"} : proc' = [proc EXCEPT ![w] = p]
       \/ /\ proc[w] \in {"interpreter", "tail"}
          /\ proc' = [proc EXCEPT ![w] = "gone"]
    /\ UNCHANGED <<files, memory, tx, look, launcher, faults>>

(***************************************************************************)
(* ExactClientWorkerRuntime.serve publishes STARTING before anything else, *)
(* and STOPPING or FAILED when it ends, after which it never goes back.    *)
(***************************************************************************)
PublishHeartbeat(w) ==
    /\ Interpreted(w)
    /\ \/ /\ heartbeat[w] = "none"
          /\ heartbeat' = [heartbeat EXCEPT ![w] = "up"]
       \/ /\ heartbeat[w] = "up"
          /\ heartbeat' = [heartbeat EXCEPT ![w] = "down"]
    /\ UNCHANGED <<reservation, stop, proc, memory, tx, look, launcher, faults>>

-----------------------------------------------------------------------------
(* The launcher *)

\* Deliberately wrong: the exit of the redirector is taken for the worker's.
MutInspectRecovery(h, w) ==
    IF w \notin children[h] THEN "raised"
    ELSE IF ~ChildRuns(w) THEN "exited"
    ELSE IF heartbeat[w] = "none" THEN "pending"
    ELSE IF Interpreted(w) THEN "process" ELSE "raised"

\* Deliberately wrong: only a worker that is up can be attached.
MutInspectUp(h, w) ==
    IF w \notin children[h] THEN "raised"
    ELSE IF ~ChildRuns(w)
         THEN IF w \notin verified[h] THEN "raised"
              ELSE IF Interpreted(w) THEN "process" ELSE "exited"
    ELSE IF heartbeat[w] = "none" THEN "pending"
    ELSE IF Interpreted(w) /\ heartbeat[w] = "up" THEN "process" ELSE "raised"

(***************************************************************************)
(* inspect_recovery of a retained launch: the outcomes it may have.        *)
(* "raised" stands for every ExactClientWorkerError.                       *)
(***************************************************************************)
InspectRecovery(h, w) ==
    IF w \notin children[h] THEN "raised"
    ELSE IF ~ChildRuns(w)
         THEN IF w \notin verified[h] THEN "raised"
              ELSE IF Interpreted(w) THEN "process" ELSE "exited"
    ELSE IF heartbeat[w] = "none" THEN "pending"
    ELSE IF Interpreted(w) THEN "process" ELSE "raised"

\* acknowledge_reservation: from now on launch may forget the process.
Acknowledge(h, w) ==
    durable' = [durable EXCEPT ![h] = @ \cup ({w} \cap children[h])]

(***************************************************************************)
(* launch forgets the handles of children that ended and whose reservation *)
(* was settled, for every slot of the manager, and keeps the new one.      *)
(***************************************************************************)
Finished(h) == {c \in durable[h] \cap children[h] : ~ChildRuns(c)}

Keep(h, w) ==
    /\ children' = [children EXCEPT ![h] = (@ \ Finished(h)) \cup {w}]
    /\ verified' = [verified EXCEPT ![h] = @ \ Finished(h)]
    /\ durable' = [durable EXCEPT ![h] = @ \ Finished(h)]

-----------------------------------------------------------------------------
(* The controller's transactions *)

\* Deliberately wrong: request_stop does not resolve an unfinished launch first.
MutBegin(s, h, op, i) ==
    /\ tx[s].at = "free"
    /\ op = "turn" => reservation[s] # NoReservation
    /\ tx' = [tx EXCEPT ![s] = [NoTx EXCEPT
            !.at = IF op = "stop" THEN "records" ELSE "recover", !.op = op,
            !.host = h, !.instance = i]]
    /\ UNCHANGED <<files, proc, memory, look, launcher, faults>>

\* ensure_started, request_stop and recover_activation take the slot's lock.
Begin(s, h, op, i) ==
    /\ tx[s].at = "free"
    /\ op = "turn" => reservation[s] # NoReservation
    /\ tx' = [tx EXCEPT ![s] = [NoTx EXCEPT !.at = "recover", !.op = op,
                                            !.host = h, !.instance = i]]
    /\ UNCHANGED <<files, proc, memory, look, launcher, faults>>

\* The transaction is over, by a return or by an exception of the code.
Leave(s) == tx' = [tx EXCEPT ![s] = NoTx]

\* The transaction goes on at a label, about a worker.
Goto(s, label, w) == tx' = [tx EXCEPT ![s].at = label, ![s].worker = w]

\* Where a transaction goes once the reservation is resolved.
Resolved(s) ==
    IF tx[s].op = "turn" THEN Leave(s)
    ELSE Goto(s, "records", None)

\* Deliberately wrong: no heartbeat is needed to call the interpreter gone.
MutDeparted(r) ==
    /\ r.phase = "unverified"
    /\ ~Interpreted(r.worker)

(***************************************************************************)
(* _retire_exited_unverified: the reserved worker has a heartbeat and its  *)
(* interpreter, which that heartbeat names, is gone.                       *)
(***************************************************************************)
Departed(r) ==
    /\ r.phase = "unverified"
    /\ heartbeat[r.worker] # "none"
    /\ ~Interpreted(r.worker)

RetireExited(s) ==
    /\ tx[s].at = "recover"
    /\ Departed(reservation[s])
    /\ reservation' = [reservation EXCEPT ![s] = NoReservation]
    /\ Acknowledge(tx[s].host, reservation[s].worker)
    /\ Resolved(s)
    /\ UNCHANGED <<heartbeat, stop, proc, children, verified, look, launcher, faults>>

(***************************************************************************)
(* _recover_unverified_reservation and the body of recover_activation: one *)
(* attempt.  ensure_started and request_stop repeat it until their startup *)
(* timeout, a supervise turn does not.                                     *)
(***************************************************************************)
Recover(s) ==
    LET r == reservation[s]
        h == tx[s].host
        outcome == InspectRecovery(h, r.worker)
    IN  /\ tx[s].at = "recover"
        /\ ~Departed(r)
        /\ \/ /\ r.phase \in {"absent", "started"}
              /\ Resolved(s)
              /\ UNCHANGED verified
           \/ /\ r.phase = "launching"
              /\ Leave(s)
              /\ UNCHANGED verified
           \/ /\ r.phase = "unverified"
              /\ tx[s].op = "turn" /\ tx[s].instance # InstanceOf[r.worker]
              /\ Leave(s)
              /\ UNCHANGED verified
           \/ /\ r.phase = "unverified"
              /\ tx[s].op = "turn" => tx[s].instance = InstanceOf[r.worker]
              /\ \/ /\ outcome = "raised" \/ outcome = "pending"
                    /\ Leave(s)
                    /\ UNCHANGED verified
                 \/ /\ outcome \in {"process", "exited"}
                    /\ Goto(s, IF outcome = "process" THEN "resolved" ELSE "departed", r.worker)
                    /\ verified' = [verified EXCEPT ![h] =
                            IF outcome = "process" THEN @ \cup {r.worker} ELSE @]
        /\ UNCHANGED <<files, proc, children, durable, look, launcher, faults>>

\* The reservation becomes "started", or goes with the verified interpreter.
Resolve(s) ==
    LET w == tx[s].worker
    IN  /\ \/ /\ tx[s].at = "resolved"
              /\ reservation' = [reservation EXCEPT ![s] = [worker |-> w, phase |-> "started"]]
           \/ /\ tx[s].at = "departed"
              /\ reservation' = [reservation EXCEPT ![s] = NoReservation]
        /\ Acknowledge(tx[s].host, w)
        /\ Resolved(s)
        /\ UNCHANGED <<heartbeat, stop, proc, children, verified, look, launcher, faults>>

\* The slot's workers whose heartbeat names a running process (_is_live).
LiveRecords(s) == {w \in Workers : SlotOf[w] = s /\ heartbeat[w] # "none" /\ Interpreted(w)}

Reusable(s, i) ==
    {w \in LiveRecords(s) : InstanceOf[w] = i /\ w \notin stop /\ heartbeat[w] = "up"}

(***************************************************************************)
(* Reading the heartbeats, in ensure_started and in request_stop.  The     *)
(* workers to be stopped are kept in tx.live, the one to be reused in      *)
(* tx.worker.                                                              *)
(***************************************************************************)
ReadRecords(s) ==
    LET live == LiveRecords(s)
        reusable == Reusable(s, tx[s].instance)
    IN  /\ tx[s].at = "records"
        /\ \/ /\ tx[s].op = "stop"
              /\ tx' = [tx EXCEPT ![s].at = "stops", ![s].live = live]
           \/ /\ tx[s].op = "ensure"
              /\ live = {}
              /\ Goto(s, "check", None)
           \/ /\ tx[s].op = "ensure"
              /\ live # {}
              /\ Cardinality({w \in live : InstanceOf[w] = tx[s].instance}) > 1
              /\ Leave(s)
           \/ /\ tx[s].op = "ensure"
              /\ live # {}
              /\ Cardinality({w \in live : InstanceOf[w] = tx[s].instance}) <= 1
              /\ IF reusable = live
                 THEN \E w \in live : Goto(s, "reuse", w)
                 ELSE tx' = [tx EXCEPT ![s].at = "stops", ![s].live = live \ reusable]
        /\ UNCHANGED <<files, proc, memory, look, launcher, faults>>

\* _request_record_stop of the next worker, and the end when all are asked.
RequestStop(s) ==
    /\ tx[s].at = "stops"
    /\ \/ /\ tx[s].live = {}
          /\ Leave(s)
          /\ UNCHANGED stop
       \/ \E w \in tx[s].live :
            /\ stop' = stop \cup {w}
            /\ tx' = [tx EXCEPT ![s].live = @ \ {w}]
    /\ UNCHANGED <<reservation, heartbeat, proc, memory, look, launcher, faults>>

(***************************************************************************)
(* _record_reused_attachment: the heartbeats are read again, and another   *)
(* reservation gives way only when its lifetime is known to have ended.    *)
(***************************************************************************)
MayReuse(s, w) ==
    /\ \/ reservation[s] \in {NoReservation, [worker |-> w, phase |-> "started"]}
       \/ reservation[s].phase = "started" /\ ~Interpreted(reservation[s].worker)
    /\ LiveRecords(s) = {w}
    /\ heartbeat[w] = "up"
    /\ w \notin stop

Reuse(s) ==
    LET w == tx[s].worker
    IN  /\ tx[s].at = "reuse"
        /\ \/ /\ MayReuse(s, w)
              /\ reservation' = [reservation EXCEPT ![s] = [worker |-> w, phase |-> "started"]]
              /\ Acknowledge(tx[s].host, w)
           \/ \* It changed, or has published another heartbeat since.
              UNCHANGED <<reservation, durable>>
        /\ Leave(s)
        /\ UNCHANGED <<heartbeat, stop, proc, children, verified, look, launcher, faults>>

\* The old reservation is retired only when its interpreter's exit is verified.
CheckReserved(s) ==
    LET r == reservation[s]
    IN  /\ tx[s].at = "check"
        /\ \/ /\ r # NoReservation
              /\ r.phase # "started" \/ Interpreted(r.worker)
              /\ Leave(s)
              /\ UNCHANGED reservation
           \/ /\ r = NoReservation \/ (r.phase = "started" /\ ~Interpreted(r.worker))
              /\ reservation' = [reservation EXCEPT ![s] = NoReservation]
              /\ Goto(s, "reserve", None)
        /\ UNCHANGED <<heartbeat, stop, proc, memory, look, launcher, faults>>

\* A nonce no launch has used.
Unused(w) ==
    /\ w \notin External
    /\ proc[w] = "none"
    /\ \A s \in Slots : reservation[s].worker # w

Reserve(s) ==
    /\ tx[s].at = "reserve"
    /\ \/ \E w \in Workers :
            /\ Unused(w)
            /\ SlotOf[w] = s
            /\ InstanceOf[w] = tx[s].instance
            /\ reservation' = [reservation EXCEPT ![s] = [worker |-> w, phase |-> "launching"]]
            /\ Goto(s, "popen", w)
       \/ \* The model has no nonce left.
          /\ ~\E w \in Workers : Unused(w) /\ SlotOf[w] = s /\ InstanceOf[w] = tx[s].instance
          /\ Leave(s)
          /\ UNCHANGED reservation
    /\ UNCHANGED <<heartbeat, stop, proc, memory, look, launcher, faults>>

\* launch: Popen fails before there is a child, or the child is kept.
Popen(s) ==
    LET w == tx[s].worker
        h == tx[s].host
    IN  /\ tx[s].at = "popen"
        /\ \/ /\ reservation' = [reservation EXCEPT ![s] = NoReservation]
              /\ Leave(s)
              /\ UNCHANGED <<proc, memory, launcher>>
           \/ /\ proc' = [proc EXCEPT ![w] = "child"]
              /\ Keep(h, w)
              /\ launcher' = [launcher EXCEPT ![w] = h]
              /\ Goto(s, "unverified", w)
              /\ UNCHANGED reservation
        /\ UNCHANGED <<heartbeat, stop, look, faults>>

PublishUnverified(s) ==
    /\ tx[s].at = "unverified"
    /\ reservation' = [reservation EXCEPT ![s] =
                            [worker |-> tx[s].worker, phase |-> "unverified"]]
    /\ Goto(s, "await", tx[s].worker)
    /\ UNCHANGED <<heartbeat, stop, proc, memory, look, launcher, faults>>

\* recover after the launch: the first heartbeat, an error, or the timeout.
Await(s) ==
    LET w == tx[s].worker
        h == tx[s].host
        outcome == InspectRecovery(h, w)
    IN  /\ tx[s].at = "await"
        /\ \/ /\ outcome # "process"
              /\ Leave(s)
              /\ UNCHANGED verified
           \/ /\ outcome = "process"
              /\ verified' = [verified EXCEPT ![h] = @ \cup {w}]
              /\ Goto(s, "attach", w)
        /\ UNCHANGED <<files, proc, children, durable, look, launcher, faults>>

Attach(s) ==
    /\ tx[s].at = "attach"
    /\ reservation' = [reservation EXCEPT ![s] =
                            [worker |-> tx[s].worker, phase |-> "started"]]
    /\ Acknowledge(tx[s].host, tx[s].worker)
    /\ Leave(s)
    /\ UNCHANGED <<heartbeat, stop, proc, children, verified, look, launcher, faults>>

Step(s) ==
    \/ RetireExited(s) \/ Recover(s) \/ Resolve(s)
    \/ ReadRecords(s) \/ RequestStop(s) \/ Reuse(s)
    \/ CheckReserved(s) \/ Reserve(s) \/ Popen(s)
    \/ PublishUnverified(s) \/ Await(s) \/ Attach(s)

-----------------------------------------------------------------------------
(* Failures *)

\* An inspection or a file operation raises: the lock is released as it is.
Fail(s) ==
    /\ tx[s].at # "free"
    /\ faults < MaxFaults
    /\ faults' = faults + 1
    /\ Leave(s)
    /\ UNCHANGED <<files, proc, memory, look, launcher>>

\* A host dies.  Its successor has the files and none of the handles.
Crash(h) ==
    /\ faults < MaxFaults
    /\ faults' = faults + 1
    /\ children' = [children EXCEPT ![h] = {}]
    /\ verified' = [verified EXCEPT ![h] = {}]
    /\ durable' = [durable EXCEPT ![h] = {}]
    /\ launcher' = [w \in Workers |-> IF launcher[w] = h THEN None ELSE launcher[w]]
    /\ tx' = [s \in Slots |-> IF tx[s].host = h THEN NoTx ELSE tx[s]]
    /\ UNCHANGED <<files, proc, look>>

-----------------------------------------------------------------------------
(***************************************************************************)
(* inspect_activation as far as it can answer ATTACHED: the reservation    *)
(* with its process, the heartbeats with the stop request, the process     *)
(* again, and at last the reservation again.  No lock is held.             *)
(***************************************************************************)
LookReservation(s) ==
    /\ look.at \in {"idle", "attached"}
    /\ reservation[s].phase = "started"
    /\ Interpreted(reservation[s].worker)
    /\ look' = [at |-> "reserved", worker |-> reservation[s].worker]
    /\ UNCHANGED <<files, proc, memory, tx, launcher, faults>>

LookRecords ==
    /\ look.at = "reserved"
    /\ look' = IF LiveRecords(SlotOf[look.worker]) = {look.worker} /\ look.worker \notin stop
               THEN [look EXCEPT !.at = "checked"]
               ELSE NoLook
    /\ UNCHANGED <<files, proc, memory, tx, launcher, faults>>

LookProcess ==
    /\ look.at = "checked"
    /\ look' = IF Interpreted(look.worker) THEN [look EXCEPT !.at = "again"] ELSE NoLook
    /\ UNCHANGED <<files, proc, memory, tx, launcher, faults>>

\* Deliberately wrong: the reservation is not read a second time.
MutLookAgain ==
    /\ look.at = "again"
    /\ look' = [look EXCEPT !.at = "attached"]
    /\ UNCHANGED <<files, proc, memory, tx, launcher, faults>>

LookAgain ==
    /\ look.at = "again"
    /\ look' = IF reservation[SlotOf[look.worker]] =
                    [worker |-> look.worker, phase |-> "started"]
               THEN [look EXCEPT !.at = "attached"]
               ELSE NoLook
    /\ UNCHANGED <<files, proc, memory, tx, launcher, faults>>

-----------------------------------------------------------------------------
WorkerStep(w) ==
    StartExternal(w) \/ StartInterpreter(w) \/ ProcessExit(w) \/ PublishHeartbeat(w)

Next ==
    \/ \E w \in Workers : WorkerStep(w)
    \/ \E s \in Slots, h \in Hosts, op \in Ops, i \in Instances : Begin(s, h, op, i)
    \/ \E s \in Slots : Step(s) \/ Fail(s) \/ LookReservation(s)
    \/ \E h \in Hosts : Crash(h)
    \/ LookRecords
    \/ LookProcess
    \/ LookAgain

Spec == Init /\ [][Next]_vars

-----------------------------------------------------------------------------
(***************************************************************************)
(* Fairness.  A transaction goes on or fails, and a started interpreter    *)
(* gets to its first heartbeat.  That a manager takes supervise turns for  *)
(* the slot is not assumed: it does so only while the slot is bound to a   *)
(* visible game and the manager is not stopping.                           *)
(***************************************************************************)
Fairness ==
    /\ \A s \in Slots : WF_vars(Step(s))
    /\ \A w \in Workers :
            /\ WF_vars(StartInterpreter(w))
            /\ WF_vars(PublishHeartbeat(w) /\ heartbeat[w] = "none")

FairSpec == Spec /\ Fairness

-----------------------------------------------------------------------------
(* Properties *)

\* Workers some controller launched.
Launched == Workers \ External

(***************************************************************************)
(* A slot never has two launched workers that run or may still start.  The *)
(* reservation exists to ensure this across exceptions, crashes, several   *)
(* controllers and redirectors (native-lifecycle-hardening.md: "Unknown    *)
(* attachment ... blocks duplicate launch").                               *)
(***************************************************************************)
OneLiveWorker ==
    \A v, w \in Launched :
        v # w /\ SlotOf[v] = SlotOf[w] => ~(Alive(v) /\ Alive(w))

(***************************************************************************)
(* A reservation leaves a worker only when its interpreter has ended or    *)
(* never began: no heartbeat age, stop request or error is taken for exit. *)
(***************************************************************************)
OwnedUntilExit ==
    [][\A s \in Slots :
            LET w == reservation[s].worker
            IN  w # None /\ reservation'[s].worker # w => ~Alive(w)]_vars

(***************************************************************************)
(* When the lock-free inspect_activation answers ATTACHED, no launched     *)
(* worker of the slot but the one it names runs or may still start: what   *)
(* the dispatch permit relies on.  The named worker itself may have ended  *)
(* after its process was inspected last, and another host may have         *)
(* launched its successor meanwhile; the second reading of the reservation *)
(* is what notices that.                                                   *)
(***************************************************************************)
AttachedAlone ==
    [][look.at # "attached" /\ look'.at = "attached"
        => \A v \in Launched \ {look'.worker} :
                SlotOf[v] = SlotOf[look'.worker] => ~Alive(v)]_vars

(***************************************************************************)
(* A worker that was asked to stop is not attached again: request_stop     *)
(* resolves an unfinished launch first, and reuse looks for the request.   *)
(***************************************************************************)
StoppedNotAttached ==
    [][\A s \in Slots :
            LET w == reservation'[s].worker
            IN  reservation'[s].phase = "started" /\ reservation[s] # reservation'[s]
                    => w \notin stop]_vars

(***************************************************************************)
(* An unverified launch is settled by the supervise turns of the host that *)
(* made it: if these come again and again for the worker's game lifetime,  *)
(* the worker gets attached or retired.  Two endings are left to a person  *)
(* by design: a redirector that died and left its interpreter unverified,  *)
(* and a worker that ended before its first heartbeat.                     *)
(***************************************************************************)
Abandoned(w) ==
    \/ proc[w] = "interpreter"
    \/ proc[w] \in {"tail", "gone"} /\ heartbeat[w] = "none"

Turns(s, h, i) == []<><<Begin(s, h, "turn", i)>>_vars

LaunchSettles ==
    \A s \in Slots, w \in Workers, h \in Hosts :
        LET unverified == reservation[s] = [worker |-> w, phase |-> "unverified"]
        IN  Turns(s, h, InstanceOf[w]) =>
                (unverified /\ launcher[w] = h)
                    ~> (~unverified \/ launcher[w] # h \/ Abandoned(w))

-----------------------------------------------------------------------------
(***************************************************************************)
(* The inductive invariant: what files and handles say of the processes,   *)
(* that the reservation names every launched worker that is alive, and     *)
(* what the holder of the lock knows at each of its steps.                 *)
(***************************************************************************)
EvidenceInv ==
    /\ \A w \in Workers : heartbeat[w] # "none" => proc[w] \notin {"none", "child"}
    /\ \A w \in stop : heartbeat[w] # "none"
    /\ \A h \in Hosts : \A w \in children[h] : proc[w] # "none"
    /\ \A h \in Hosts : \A w \in verified[h] : heartbeat[w] # "none"

ReservedAt(s) ==
    LET r == reservation[s]
    IN  /\ r # NoReservation => SlotOf[r.worker] = s
        /\ r.phase = "started" => heartbeat[r.worker] # "none"
        /\ r.phase \in {"launching", "unverified"} => r.worker \in Launched \ stop
        /\ r.phase = "unverified" => proc[r.worker] # "none"

ReservedInv ==
    /\ \A w \in Launched : Alive(w) => reservation[SlotOf[w]].worker = w
    /\ \A s \in Slots : ReservedAt(s)

HolderAt(s) ==
    LET t == tx[s]
        r == reservation[s]
    IN  /\ t.at # "free" => t.host \in Hosts
        /\ t.at \in {"records", "stops", "reuse", "check"} =>
                r.phase \in {"absent", "started"}
        /\ \A w \in t.live : SlotOf[w] = s /\ heartbeat[w] # "none"
        /\ t.at = "reuse" =>
                t.worker \in Workers /\ SlotOf[t.worker] = s /\ heartbeat[t.worker] # "none"
        /\ t.at = "reserve" => r = NoReservation
        /\ t.at = "popen" =>
                r = [worker |-> t.worker, phase |-> "launching"] /\ proc[t.worker] = "none"
        /\ t.at = "unverified" =>
                r = [worker |-> t.worker, phase |-> "launching"] /\ proc[t.worker] # "none"
        /\ t.at \in {"await", "attach", "resolved", "departed"} =>
                r = [worker |-> t.worker, phase |-> "unverified"]
        /\ t.at \in {"attach", "resolved"} => heartbeat[t.worker] # "none"
        /\ t.at = "departed" => proc[t.worker] = "gone"

HolderInv == \A s \in Slots : HolderAt(s)

LaunchInv == TypeOK /\ EvidenceInv /\ ReservedInv /\ HolderInv
=============================================================================
