---------------------------- MODULE WorkerDispatch ----------------------------
(***************************************************************************)
(* Dispatch permits of one client slot (manager/worker.py): workers write  *)
(* heartbeat files, the manager's supervise turn (manager/application.py)  *)
(* reads them and writes dispatch.permit, a short-lived allow or denial,   *)
(* and a worker may act only while the permit it last read allows it       *)
(* (WorkerDispatchGate, _OperationStopSignal in manager/worker_runtime.py).*)
(*                                                                         *)
(* Files are replaced atomically, so each read and each write is a step.   *)
(* The manager may die between any two of them; workers may die, PIDs are  *)
(* reused, and a worker may act on a permit long after it was revoked.     *)
(*                                                                         *)
(* Time is the node's wall clock in units of the publisher's increment; it *)
(* never steps backwards here.                                             *)
(***************************************************************************)
EXTENDS Naturals

CONSTANTS
  Insts,          \* exact game instances
  Workers,        \* exact worker lifetimes (worker id, PID, creation time)
  WorkerInst,     \* the game instance a worker is bound to
  Pids, Pid,      \* process ids; lifetimes may share one, one after the other
  NoInst, NoWorker,
  Timeout,        \* heartbeat_timeout_seconds
  Ttl,            \* permit_ttl_seconds
  Tolerance,      \* future_tolerance_seconds
  Ahead,          \* how far heartbeat times may run ahead of the clock
  Managed,        \* a worker controller is configured: attachment_required
  InspectorFails, \* the process inspector may raise
  MaxTime,        \* bound on the clock
  MaxBeats,       \* bound on the heartbeats of a worker
  MaxActions      \* bound on lifecycle actions and restarts

ASSUME DispatchAssumption ==
  /\ WorkerInst \in [Workers -> Insts]
  /\ Pid \in [Workers -> Pids]
  /\ NoInst \notin Insts /\ NoWorker \notin Workers
  /\ Timeout \in Nat \ {0} /\ Ttl \in Nat \ {0} /\ Tolerance \in Nat /\ Ahead \in Nat
  /\ Managed \in BOOLEAN /\ InspectorFails \in BOOLEAN
  /\ MaxTime \in Nat /\ MaxBeats \in Nat /\ MaxActions \in Nat

VARIABLES
  now,       \* the clock
  proc,      \* the worker lifetime that runs under each PID
  born,      \* worker lifetimes that were started
  games,     \* instances present in the registry of visible windows
  beat,      \* <worker>.json, the heartbeat file; seq 0 when there is none
  stops,     \* workers with a stop.<worker> request
  permit,    \* dispatch.permit
  slot,      \* the session's slot: bound instance and lifecycle state
  lock,      \* holder of the application's slot lock
  stopping,  \* the manager is shutting down
  sup,       \* the supervise turn
  todo,      \* workers whose heartbeat it has still to read
  seen,      \* heartbeats it has read
  decision,  \* the permit it is about to write
  lastSeen,  \* WorkerSupervisor._last_seen
  held,      \* per worker: the permit its running operation acts on
  readyAt,   \* history: time of a worker's latest heartbeat with dispatch_ready
  revoked,   \* history: a lifecycle action denied dispatch and none allowed it since
  revokedAt, \* history: when
  actions    \* lifecycle actions and restarts so far

world == <<now, proc, born, games>>
files == <<beat, stops, permit>>
turn  == <<sup, todo, seen, decision, lastSeen>>
app   == <<slot, lock, stopping>>
ghost == <<readyAt, revoked, revokedAt>>
vars  == <<world, files, turn, app, held, ghost, actions>>

RuntimeStates == {"none", "starting", "running", "stopping", "failed", "stopped"}
Beat == [seq : Nat, at : Nat, state : RuntimeStates, ready : BOOLEAN, stop : BOOLEAN]
NoBeat == [seq |-> 0, at |-> 0, state |-> "none", ready |-> FALSE, stop |-> FALSE]

\* An allow permit names its worker; a denial, or no file, does not.
Permit == [worker : Workers \cup {NoWorker}, issued : Nat, expires : Nat]
NoPermit == [worker |-> NoWorker, issued |-> 0, expires |-> 0]

\* An "ended" binding is stale or asked to close: it can only be detached.
Slot == [inst : Insts \cup {NoInst}, state : {"unbound", "attached", "paused", "ended"}]
Unbound == [inst |-> NoInst, state |-> "unbound"]
\* The slot lock: held by the supervise turn, or by an action that has revoked the
\* permit, or that has also asked the workers to stop.
Lock == {"free", "supervise", "revoked", "asked"}
Turn == [step : {"idle", "slot", "read", "write"}, games : SUBSET Insts, at : Nat,
         inst : Insts \cup {NoInst}, enabled : BOOLEAN, attached : Workers \cup {NoWorker}]
IdleTurn == [step |-> "idle", games |-> {}, at |-> 0, inst |-> NoInst, enabled |-> FALSE,
             attached |-> NoWorker]

TypeOK ==
  /\ now \in Nat
  /\ proc \in [Pids -> Workers \cup {NoWorker}]
  /\ born \subseteq Workers
  /\ games \subseteq Insts
  /\ beat \in [Workers -> Beat] /\ stops \subseteq Workers /\ permit \in Permit
  /\ slot \in Slot /\ lock \in Lock /\ stopping \in BOOLEAN
  /\ sup \in Turn /\ todo \subseteq Workers
  /\ seen \in [Workers -> Beat] /\ lastSeen \in [Workers -> Beat]
  /\ decision \in Permit
  /\ held \in [Workers -> Permit]
  /\ readyAt \in [Workers -> Nat] /\ revoked \in BOOLEAN /\ revokedAt \in Nat
  /\ actions \in 0..MaxActions

Blank(x) == [w \in Workers |-> x]

\* A manager with an unbound slot, no worker, no files.
Init ==
  /\ now = 0 /\ proc = [p \in Pids |-> NoWorker] /\ born = {} /\ games = Insts
  /\ beat = Blank(NoBeat) /\ stops = {} /\ permit = NoPermit
  /\ slot = Unbound /\ lock = "free" /\ stopping = FALSE
  /\ sup = IdleTurn /\ todo = {} /\ seen = Blank(NoBeat) /\ decision = NoPermit
  /\ lastSeen = Blank(NoBeat)
  /\ held = Blank(NoPermit)
  /\ readyAt = Blank(0) /\ revoked = FALSE /\ revokedAt = 0
  /\ actions = 0

Running(w) == proc[Pid[w]] = w
Later(a, b) == IF a < b THEN b ELSE a
Earlier(a, b) == IF a < b THEN a ELSE b

-------------------------------------------------------------------------------
(***************************************************************************)
(* Workers: ExactClientWorkerRuntime.serve and its heartbeat publisher     *)
(***************************************************************************)

Start(w) ==
  /\ w \notin born /\ proc[Pid[w]] = NoWorker
  /\ born' = born \cup {w}
  /\ proc' = [proc EXCEPT ![Pid[w]] = w]
  /\ UNCHANGED <<now, games, files, turn, app, held, ghost, actions>>

\* The process ends, orderly or not; its heartbeat file stays.
Exit(w) ==
  /\ Running(w)
  /\ proc' = [proc EXCEPT ![Pid[w]] = NoWorker]
  /\ held' = [held EXCEPT ![w] = NoPermit]
  /\ UNCHANGED <<now, born, games, files, turn, app, ghost, actions>>

\* Mutant: the time of a heartbeat is not forced forward.
MutObservedAt(w) == now

\* The clock, forced past the previous heartbeat.
ObservedAt(w) == IF beat[w].seq = 0 THEN now ELSE Later(now, beat[w].at + 1)

\* WorkerHeartbeatPublisher.publish.  The emergency stop is latched and masks
\* dispatch_ready.  Heartbeats are far slower than the publisher's increment, so their
\* time hardly runs ahead of the clock.
Publish(w, state, ready, stop) ==
  /\ Running(w) /\ beat[w].seq < MaxBeats
  /\ ObservedAt(w) <= now + Ahead
  /\ beat' = [beat EXCEPT ![w] =
       [seq |-> beat[w].seq + 1, at |-> ObservedAt(w), state |-> state,
        ready |-> ready /\ ~(beat[w].stop \/ stop), stop |-> beat[w].stop \/ stop]]
  /\ UNCHANGED <<world, stops, permit, turn, app, revoked, revokedAt, actions>>

PublishStarting(w) ==
  /\ beat[w].state = "none"
  /\ Publish(w, "starting", FALSE, FALSE)
  /\ UNCHANGED <<held, readyAt>>

PublishRunning(w) ==
  /\ beat[w].state \in {"starting", "running"}
  /\ Publish(w, "running", TRUE, FALSE)
  /\ readyAt' = [readyAt EXCEPT ![w] = ObservedAt(w)]
  /\ UNCHANGED held

\* The stop signal of a running operation latches: it acts on no permit any more.
Trip(w) == held' = [held EXCEPT ![w] = NoPermit]

\* A stop request, a local signal or an interrupt: the active operation is cancelled
\* before the heartbeat says so.
PublishStopping(w) ==
  /\ beat[w].state \in {"starting", "running", "stopping", "failed"}
  /\ Publish(w, "stopping", FALSE, FALSE)
  /\ Trip(w)
  /\ UNCHANGED readyAt

\* Any exception, such as a lost game identity, trips the emergency stop.
PublishFailed(w) ==
  /\ beat[w].state \in {"starting", "running"}
  /\ Publish(w, "failed", FALSE, TRUE)
  /\ Trip(w)
  /\ UNCHANGED readyAt

\* publisher.close
PublishStopped(w) ==
  /\ beat[w].state \in {"stopping", "failed"}
  /\ Publish(w, "stopped", FALSE, FALSE)
  /\ UNCHANGED <<held, readyAt>>

Worker(w) == \/ Start(w) \/ Exit(w)
             \/ PublishStarting(w) \/ PublishRunning(w) \/ PublishStopping(w)
             \/ PublishFailed(w) \/ PublishStopped(w)

-------------------------------------------------------------------------------
(***************************************************************************)
(* The gate.  A worker's refresh reads the permit, does the rest of its    *)
(* disk I/O and adopts what it read; is_set evaluates what was adopted.    *)
(* The adopted permit is immutable and keeps its own expiry, so adopting   *)
(* it in the step that reads it gives the worker at least what it has.     *)
(***************************************************************************)

\* permit_denial_reason(p) is None
Permits(w, p) ==
  /\ p.worker = w
  /\ p.issued <= now + Tolerance
  /\ now < p.expires

\* Operations start, and their refresh runs, only in the serve loop.
Serving(w) == Running(w) /\ beat[w].state \in {"starting", "running"}

\* _OperationStopSignal.refresh: a denial, or a stop request, latches the signal.
RefreshGate(w) ==
  /\ Serving(w)
  /\ IF Permits(w, permit) /\ w \notin stops
     THEN held' = [held EXCEPT ![w] = permit]
     ELSE Trip(w)
  /\ UNCHANGED <<world, files, turn, app, ghost, actions>>

\* is_set finds the adopted permit expired; the signal latches.
FindExpired(w) ==
  /\ Running(w) /\ held[w] # NoPermit /\ ~Permits(w, held[w])
  /\ Trip(w)
  /\ UNCHANGED <<world, files, turn, app, ghost, actions>>

\* The worker may send input now.
CanDispatch(w) == Running(w) /\ Permits(w, held[w])

Gate(w) == RefreshGate(w) \/ FindExpired(w)

-------------------------------------------------------------------------------
(***************************************************************************)
(* ManagerDashboardApplication.supervise and WorkerSupervisor.inspect      *)
(***************************************************************************)

\* The registry is read before the slot lock is tried.
SuperviseRegistry ==
  /\ sup.step = "idle"
  /\ sup' = [IdleTurn EXCEPT !.step = "slot", !.games = games]
  /\ UNCHANGED <<world, files, todo, seen, decision, lastSeen, app, held, ghost, actions>>

\* A busy slot is skipped until the next turn.
SuperviseSkip ==
  /\ sup.step = "slot" /\ lock # "free"
  /\ sup' = IdleTurn
  /\ UNCHANGED <<world, files, todo, seen, decision, lastSeen, app, held, ghost, actions>>

\* inspect_activation: the attached worker is the one live recorded lifetime.
Attachable(w) == /\ WorkerInst[w] = slot.inst /\ w \notin stops
                 /\ \A v \in Workers : Running(v) /\ beat[v].seq > 0 <=> v = w

\* Mutant: the slot lock is not taken.
MutSuperviseSlot(a) ==
  /\ sup.step = "slot"
  /\ a # NoWorker => Managed /\ Attachable(a)
  /\ UNCHANGED lock
  /\ sup' = [sup EXCEPT !.step = "read", !.at = now, !.inst = slot.inst, !.attached = a,
               !.enabled = slot.state = "attached" /\ ~stopping /\ slot.inst \in sup.games]
  /\ todo' = Workers
  /\ UNCHANGED <<world, files, seen, decision, lastSeen, slot, stopping, held, ghost, actions>>

\* Slot status, activation and clock, under the slot lock.
SuperviseSlot(a) ==
  /\ sup.step = "slot" /\ lock = "free"
  /\ a # NoWorker => Managed /\ Attachable(a)
  /\ lock' = "supervise"
  /\ sup' = [sup EXCEPT !.step = "read", !.at = now, !.inst = slot.inst, !.attached = a,
               !.enabled = slot.state = "attached" /\ ~stopping /\ slot.inst \in sup.games]
  /\ todo' = Workers
  /\ UNCHANGED <<world, files, seen, decision, lastSeen, slot, stopping, held, ghost, actions>>

\* WorkerHeartbeatLedger.inspect reads one file after the other.
SuperviseRead(w) ==
  /\ sup.step = "read" /\ w \in todo
  /\ seen' = [seen EXCEPT ![w] = beat[w]]
  /\ todo' = todo \ {w}
  /\ UNCHANGED <<world, files, sup, decision, lastSeen, app, held, ghost, actions>>

\* A sequence that went back or collides, a time that did not advance, an emergency
\* stop that was cleared.
Replayed(b, prior) ==
  /\ prior.seq > 0
  /\ \/ b.seq < prior.seq
     \/ b.seq = prior.seq /\ b # prior
     \/ b.seq > prior.seq /\ b.at <= prior.at
     \/ prior.stop /\ ~b.stop

Recorded(w) == sup.inst # NoInst /\ seen[w].seq > 0
Plausible(w) == seen[w].at <= sup.at + Tolerance /\ ~Replayed(seen[w], lastSeen[w])

\* Mutant: the age of a heartbeat is ignored.
MutHealthy(w, failing) ==
  /\ Recorded(w) /\ Plausible(w) /\ w \notin failing /\ Running(w)
  /\ WorkerInst[w] = sup.inst
  /\ ~seen[w].stop /\ seen[w].state = "running" /\ seen[w].ready

\* _assess.  A live lifetime counts as active when its record is stale, bound elsewhere,
\* emergency-stopped or short of stopped; an unverifiable one does not.
Active(w, failing) ==
  /\ Recorded(w) /\ Plausible(w) /\ w \notin failing /\ Running(w)
  /\ \/ sup.at >= seen[w].at + Timeout
     \/ WorkerInst[w] # sup.inst
     \/ seen[w].stop
     \/ seen[w].state \notin {"failed", "stopped"}

Healthy(w, failing) ==
  /\ Recorded(w) /\ Plausible(w) /\ w \notin failing /\ Running(w)
  /\ sup.at < seen[w].at + Timeout
  /\ WorkerInst[w] = sup.inst
  /\ ~seen[w].stop /\ seen[w].state = "running" /\ seen[w].ready

\* Mutant: the controller's attachment is not required.
MutAllowed(w, failing) ==
  /\ sup.enabled
  /\ \A v \in Workers : Active(v, failing) <=> v = w
  /\ Healthy(w, failing)

\* dispatch_allowed, for the one active worker.
Allowed(w, failing) ==
  /\ sup.enabled
  /\ \A v \in Workers : Active(v, failing) <=> v = w
  /\ Healthy(w, failing)
  /\ Managed => sup.attached = w

\* Mutants: a permit is dated back by the tolerance; it lives its full time whatever the
\* age of the heartbeat.
MutAllowBackdated(w) == [worker |-> w, issued |-> sup.at - Tolerance,
                         expires |-> Earlier(sup.at + Ttl, seen[w].at + Timeout)]
MutAllow(w) == [worker |-> w, issued |-> sup.at, expires |-> sup.at + Ttl]

\* _publish_health: an allow never outlives the heartbeat it rests on.
Allow(w) == [worker |-> w, issued |-> sup.at,
             expires |-> Earlier(sup.at + Ttl, seen[w].at + Timeout)]

\* Every record is assessed, with the process inspector raising for some; plausible
\* ones are remembered.
SuperviseAssess(failing) ==
  /\ sup.step = "read" /\ todo = {}
  /\ failing # {} => InspectorFails
  /\ \/ \E w \in Workers : Allowed(w, failing) /\ decision' = Allow(w)
     \/ (\A w \in Workers : ~Allowed(w, failing)) /\ decision' = NoPermit
  /\ lastSeen' = [w \in Workers |->
       IF Recorded(w) /\ Plausible(w) /\ seen[w].seq > lastSeen[w].seq
       THEN seen[w] ELSE lastSeen[w]]
  /\ seen' = Blank(NoBeat)
  /\ sup' = [IdleTurn EXCEPT !.step = "write"]
  /\ UNCHANGED <<world, files, todo, app, held, ghost, actions>>

SuperviseWrite ==
  /\ sup.step = "write"
  /\ permit' = decision
  /\ decision' = NoPermit
  /\ sup' = IdleTurn
  /\ lock' = "free"
  /\ UNCHANGED <<world, beat, stops, todo, seen, lastSeen, slot, stopping, held, ghost, actions>>

\* inspect without a permit, for the dashboard or before a Resume, excluded from a turn's
\* by the supervisor's lock: it only remembers what it reads.  The binding that it was
\* called with may be stale.
InspectHealth(w) ==
  /\ sup.step \in {"idle", "slot"}
  /\ beat[w].seq > lastSeen[w].seq /\ beat[w].at <= now + Tolerance
  /\ ~Replayed(beat[w], lastSeen[w])
  /\ lastSeen' = [lastSeen EXCEPT ![w] = beat[w]]
  /\ UNCHANGED <<world, files, sup, todo, seen, decision, app, held, ghost, actions>>

Supervise ==
  \/ SuperviseRegistry \/ SuperviseSkip \/ SuperviseWrite
  \/ \E a \in Workers \cup {NoWorker} : SuperviseSlot(a)
  \/ \E w \in Workers : SuperviseRead(w) \/ InspectHealth(w)
  \/ \E failing \in SUBSET Workers : SuperviseAssess(failing)

-------------------------------------------------------------------------------
(***************************************************************************)
(* Lifecycle actions of the application, under the slot lock: revoke the   *)
(* permit, ask live workers to stop, change the session's slot             *)
(***************************************************************************)

Count == actions < MaxActions /\ actions' = actions + 1

Revoke ==
  /\ lock = "free" /\ ~stopping
  /\ permit' = NoPermit
  /\ lock' = "revoked"
  /\ revoked' = TRUE /\ revokedAt' = now
  /\ Count
  /\ UNCHANGED <<world, beat, stops, turn, slot, stopping, held, readyAt>>

\* The worker controller's request_stop addresses every live lifetime that has a
\* heartbeat.
AskStop ==
  /\ lock = "revoked"
  /\ stops' = stops \cup {w \in Workers : Managed /\ Running(w) /\ beat[w].seq > 0}
  /\ lock' = "asked"
  /\ UNCHANGED <<world, beat, permit, turn, slot, stopping, held, ghost, actions>>

\* The session carries out the action, which releases the lock.
Complete(to) ==
  /\ slot' = to
  /\ lock' = "free"
  /\ UNCHANGED <<world, files, turn, stopping, held, readyAt>>

Denied == UNCHANGED <<revoked, revokedAt, actions>>
\* A manager that is shutting down does not allow again.
Granted == /\ revoked' = (revoked /\ stopping)
           /\ revokedAt' = IF revoked /\ stopping THEN revokedAt ELSE 0

CompletePause == /\ lock = "revoked" /\ slot.state \in {"attached", "paused"}
                 /\ Complete([slot EXCEPT !.state = "paused"])
                 /\ Denied
CompleteClose == /\ lock = "asked" /\ slot.state \in {"attached", "paused"}
                 /\ Complete([slot EXCEPT !.state = "ended"])
                 /\ Denied
CompleteDetach == /\ lock = "asked" /\ slot.inst # NoInst
                  /\ Complete(Unbound)
                  /\ Denied

\* An unbound slot is revoked after its game exited, or before a group launch
\* (reconcile_instances, _revoke_unbound_slots).
CompleteArchive == lock = "asked" /\ slot.inst = NoInst /\ Complete(slot) /\ Denied

\* A new binding (attach, start) has dispatch enabled.
CompleteAttach(i) ==
  /\ lock = "asked" /\ slot.inst = NoInst /\ i \in games
  /\ Complete([inst |-> i, state |-> "attached"])
  /\ Granted /\ UNCHANGED actions

\* The action raises after the revocation, and the slot keeps its state: the next turn
\* permits an attached one again.
Fail == /\ lock \in {"revoked", "asked"}
        /\ Complete(slot)
        /\ \/ slot.state = "attached" /\ Granted /\ UNCHANGED actions
           \/ slot.state # "attached" /\ Denied

\* A close whose window request raises leaves the slot paused (request_close).
FailClose == /\ lock = "asked" /\ slot.state \in {"attached", "paused"}
             /\ Complete([slot EXCEPT !.state = "paused"])
             /\ Denied

Resume ==
  /\ lock = "free" /\ ~stopping
  /\ slot.state \in {"attached", "paused"} /\ slot.inst \in games
  /\ Complete([slot EXCEPT !.state = "attached"])
  /\ Granted /\ Count

\* Session refresh, outside the slot lock: the bound window is gone; its process is
\* proved to have exited, or not.
Refresh ==
  /\ slot.inst # NoInst /\ slot.inst \notin games
  /\ slot' \in {Unbound, [slot EXCEPT !.state = "ended"]}
  /\ UNCHANGED <<world, files, turn, lock, stopping, held, ghost, actions>>

\* revoke_all_workers, before the manager exits, under the renewal lock.
RevokeAll ==
  /\ sup.step = "idle"
  /\ stopping' = TRUE
  /\ permit' = NoPermit
  /\ revoked' = TRUE /\ revokedAt' = now
  /\ Count
  /\ UNCHANGED <<world, beat, stops, turn, slot, lock, held, readyAt>>

\* The manager exits or dies and another one starts, with every slot unbound.
Restart ==
  /\ slot' = Unbound /\ lock' = "free" /\ stopping' = FALSE
  /\ sup' = IdleTurn /\ todo' = {} /\ seen' = Blank(NoBeat) /\ decision' = NoPermit
  /\ lastSeen' = Blank(NoBeat)
  /\ Count
  /\ UNCHANGED <<world, files, held, ghost>>

Lifecycle == \/ Revoke \/ AskStop \/ CompletePause \/ CompleteClose \/ CompleteDetach
             \/ CompleteArchive \/ (\E i \in Insts : CompleteAttach(i))
             \/ Fail \/ FailClose \/ Resume \/ Refresh \/ RevokeAll \/ Restart

-------------------------------------------------------------------------------
Tick == /\ now < MaxTime
        /\ now' = now + 1
        /\ UNCHANGED <<proc, born, games, files, turn, app, held, ghost, actions>>

\* A game window disappears.
GameGone(i) == /\ i \in games
               /\ games' = games \ {i}
               /\ UNCHANGED <<now, proc, born, files, turn, app, held, ghost, actions>>

Next == \/ \E w \in Workers : Worker(w) \/ Gate(w)
        \/ Supervise \/ Lifecycle
        \/ Tick \/ \E i \in Insts : GameGone(i)

Spec == Init /\ [][Next]_vars
-------------------------------------------------------------------------------
(***************************************************************************)
(* Properties                                                              *)
(***************************************************************************)

\* A worker that may send input published, less than heartbeat_timeout_seconds ago, a
\* heartbeat that declared it ready, and has neither stopped nor failed since: however
\* long the permit took to travel, it never outlives the evidence it was issued on
\* (_publish_health, WorkerDispatchAuthority).
AuthorityFresh ==
  \A w \in Workers : CanDispatch(w) => /\ now < readyAt[w] + Timeout
                                       /\ beat[w].state = "running"

\* Two live workers of the slot never may send input at the same time, whichever was
\* permitted first and whatever instance, PID or manager changed in between (_assess
\* counts every live lifetime; attachment_required admits only the attached one).
OneDispatcher ==
  \A w, v \in Workers : CanDispatch(w) /\ CanDispatch(v) => w = v

\* Once an operator action has denied dispatch, the permit file allows nothing until
\* dispatch is resumed or the slot is attached again, and no worker acts on an older
\* permit for longer than permit_ttl_seconds (revoke, supervise, restart).
RevocationBounded ==
  revoked => /\ permit.worker = NoWorker
             /\ \A w \in Workers : CanDispatch(w) => now < revokedAt + Ttl

\* An allow always ends after it begins; otherwise WorkerDispatchPermit would refuse it
\* and the supervise turn, which renews every slot, would raise.
PermitWellFormed == permit.worker # NoWorker => permit.issued < permit.expires

\* A worker's own heartbeats are never taken for a replay, a collision or a cleared
\* emergency stop, also when they come faster than the clock (_assess, publish).
NeverReplayed ==
  \A w \in Workers : /\ ~Replayed(beat[w], lastSeen[w])
                     /\ seen[w].seq > 0 => ~Replayed(seen[w], lastSeen[w])

-------------------------------------------------------------------------------
(***************************************************************************)
(* The inductive invariants behind the properties (proved in               *)
(* WorkerDispatchProofs)                                                   *)
(***************************************************************************)

\* b is a, or was published by the same worker after it.
Follows(b, a) == \/ a.seq = 0 \/ b = a
                 \/ a.seq < b.seq /\ a.at < b.at /\ (a.stop => b.stop)

\* A worker's heartbeat file, whoever reads it when.
BeatOf(w, b) ==
  /\ b.at <= now + Ahead
  /\ b.seq = 0 <=> b.state = "none"
  /\ b.seq = 0 => b.at = 0
  /\ b.ready => b.state = "running" /\ b.at <= readyAt[w]
  /\ b.ready => beat[w].state \notin {"none", "starting"}
  /\ b.state = "failed" => b.stop
  /\ b.state = "stopped" => beat[w].state = "stopped"
  /\ b.seq > 0 => w \in born

HeartbeatInv == \A w \in Workers :
  /\ Running(w) => w \in born
  /\ readyAt[w] <= beat[w].at
  /\ BeatOf(w, beat[w]) /\ BeatOf(w, seen[w])
  /\ Follows(beat[w], seen[w]) /\ Follows(beat[w], lastSeen[w])
  /\ seen[w].seq > 0 => Follows(seen[w], lastSeen[w])
  /\ seen[w].seq > 0 => sup.step = "read"

\* A permit ends within its lifetime and within that of the heartbeat it rests on.
Sound(p) == p.worker # NoWorker =>
  /\ p.issued <= now /\ p.issued < p.expires
  /\ p.expires <= p.issued + Ttl
  /\ p.expires <= readyAt[p.worker] + Timeout
  /\ beat[p.worker].state \notin {"none", "starting"}

PermitInv ==
  /\ sup.at <= now
  /\ Sound(permit) /\ Sound(decision)
  /\ \A w \in Workers : /\ Sound(held[w])
                        /\ held[w].worker \in {w, NoWorker}
                        /\ held[w].worker = w => beat[w].state = "running"

\* After a revocation nothing in flight can allow again.
RevocationInv ==
  /\ lock = "supervise" <=> sup.step \in {"read", "write"}
  /\ decision.worker # NoWorker => sup.step = "write"
  /\ slot.inst = NoInst => slot.state # "attached"
  /\ revokedAt <= now
  /\ revoked => /\ permit.worker = NoWorker /\ decision.worker = NoWorker
                /\ lock \in {"free", "supervise"} => slot.state # "attached" \/ stopping
                /\ sup.step = "read" => ~sup.enabled
                /\ \A w \in Workers : held[w].worker # NoWorker => held[w].issued <= revokedAt

\* A lifetime that can never act on a permit again.
Dead(v) == (v \in born /\ ~Running(v)) \/ beat[v].state = "stopped"
Owns(v) == held[v].worker = v \/ permit.worker = v
Spent(p) == now >= p.expires

\* Whoever owned a permit before another worker got one is dead, or the new permit was
\* issued so late that it is over.
OwnerInv ==
  /\ \A w, v \in Workers : w # v =>
       /\ decision.worker = w /\ Owns(v) => Dead(v) \/ Spent(decision)
       /\ permit.worker = w /\ held[v].worker = v => Dead(v) \/ Spent(permit)
       /\ held[w].worker = w /\ held[v].worker = v =>
            Dead(w) \/ Dead(v) \/ Spent(held[w]) \/ Spent(held[v])
       /\ sup.step = "read" /\ sup.attached = w /\ Owns(v) => Dead(v)
  /\ \A v \in Workers :
       sup.step = "read" /\ v \notin todo /\ Owns(v) => seen[v].seq > 0

\* What OneDispatcher needs: the controller's attachment, or an inspector that answers
\* and a future tolerance that covers the life of a permit.
Exclusive == Managed \/ (~InspectorFails /\ Ttl + Ahead <= Tolerance + 1)

DispatchInv == /\ TypeOK /\ HeartbeatInv /\ PermitInv /\ RevocationInv
               /\ Exclusive => OwnerInv
===============================================================================
