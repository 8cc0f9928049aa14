-------------------------- MODULE WorkerDispatchProofs --------------------------
(***************************************************************************)
(* Proofs about WorkerDispatch for every number of workers and instances,  *)
(* every timeout, tolerance and permit lifetime, and every bound.          *)
(***************************************************************************)
EXTENDS WorkerDispatch, TLAPS

USE DispatchAssumption

LEMMA NoBeatType == NoBeat \in Beat
  BY DEF NoBeat, Beat, RuntimeStates

LEMMA NoPermitType == NoPermit \in Permit /\ NoPermit.worker = NoWorker
  BY DEF NoPermit, Permit

LEMMA IdleTurnType == IdleTurn \in Turn
  BY DEF IdleTurn, Turn

LEMMA UnboundType == Unbound \in Slot
  BY DEF Unbound, Slot

LEMMA ObservedAtType ==
  ASSUME TypeOK, NEW w \in Workers
  PROVE  /\ ObservedAt(w) \in Nat
         /\ now <= ObservedAt(w)
         /\ beat[w].seq > 0 => beat[w].at < ObservedAt(w)
  BY DEF TypeOK, ObservedAt, Later, Beat

LEMMA TypeInit == Init => TypeOK
<1> SUFFICES ASSUME Init PROVE TypeOK
  OBVIOUS
<1>1. /\ beat \in [Workers -> Beat] /\ seen \in [Workers -> Beat]
      /\ lastSeen \in [Workers -> Beat]
      /\ held \in [Workers -> Permit] /\ readyAt \in [Workers -> Nat]
  BY NoBeatType, NoPermitType DEF Init, Blank
<1>2. /\ permit \in Permit /\ decision \in Permit /\ sup \in Turn /\ slot \in Slot
      /\ lock \in Lock
  BY NoPermitType, IdleTurnType, UnboundType DEF Init, Lock
<1>3. proc \in [Pids -> Workers \cup {NoWorker}]
  BY DEF Init
<1>4. actions \in 0..MaxActions
  BY DEF Init
<1> QED
  BY <1>1, <1>2, <1>3, <1>4 DEF Init, TypeOK

-------------------------------------------------------------------------------
LEMMA TypeWorker == TypeOK /\ (\E w \in Workers : Worker(w) \/ Gate(w)) => TypeOK'
<1> SUFFICES ASSUME TypeOK, NEW w \in Workers, Worker(w) \/ Gate(w) PROVE TypeOK'
  OBVIOUS
<1>1. CASE Start(w) \/ Exit(w)
  BY <1>1, NoPermitType DEF TypeOK, Start, Exit, files, turn, app, ghost
<1>2. ASSUME NEW state \in RuntimeStates, NEW ready \in BOOLEAN, NEW stop \in BOOLEAN,
             Publish(w, state, ready, stop), held' \in [Workers -> Permit],
             readyAt' \in [Workers -> Nat]
      PROVE  TypeOK'
  <2>1. beat[w] \in Beat /\ beat[w].seq + 1 \in Nat /\ beat[w].stop \in BOOLEAN
    BY DEF TypeOK, Beat
  <2>2. [seq |-> beat[w].seq + 1, at |-> ObservedAt(w), state |-> state,
         ready |-> ready /\ ~(beat[w].stop \/ stop), stop |-> beat[w].stop \/ stop] \in Beat
    BY <2>1, ObservedAtType DEF Beat
  <2> QED
    BY <1>2, <2>2 DEF TypeOK, Publish, world, turn, app
<1>3. held \in [Workers -> Permit] /\ [held EXCEPT ![w] = NoPermit] \in [Workers -> Permit]
      /\ [held EXCEPT ![w] = permit] \in [Workers -> Permit]
  BY NoPermitType DEF TypeOK
<1>4. readyAt \in [Workers -> Nat] /\ [readyAt EXCEPT ![w] = ObservedAt(w)] \in [Workers -> Nat]
  BY ObservedAtType DEF TypeOK
<1>5. CASE PublishStarting(w)
  BY <1>2, <1>3, <1>4, <1>5 DEF PublishStarting, RuntimeStates
<1>6. CASE PublishRunning(w)
  BY <1>2, <1>3, <1>4, <1>6 DEF PublishRunning, RuntimeStates
<1>7. CASE PublishStopping(w)
  BY <1>2, <1>3, <1>4, <1>7 DEF PublishStopping, RuntimeStates, Trip
<1>8. CASE PublishFailed(w)
  BY <1>2, <1>3, <1>4, <1>8 DEF PublishFailed, RuntimeStates, Trip
<1>9. CASE PublishStopped(w)
  BY <1>2, <1>3, <1>4, <1>9 DEF PublishStopped, RuntimeStates
<1>10. CASE RefreshGate(w) \/ FindExpired(w)
  BY <1>3, <1>10 DEF TypeOK, RefreshGate, FindExpired, Trip, world, files, turn, app, ghost
<1> QED
  BY <1>1, <1>5, <1>6, <1>7, <1>8, <1>9, <1>10 DEF Worker, Gate

LEMMA AllowType ==
  ASSUME TypeOK, NEW w \in Workers
  PROVE  Allow(w) \in Permit
  BY DEF TypeOK, Allow, Earlier, Permit, Turn, Beat

LEMMA TypeSupervise == TypeOK /\ Supervise => TypeOK'
<1> SUFFICES ASSUME TypeOK, Supervise PROVE TypeOK'
  OBVIOUS
<1> USE NoBeatType, NoPermitType, IdleTurnType
<1>1. CASE SuperviseRegistry \/ SuperviseSkip
  <2>1. [IdleTurn EXCEPT !.step = "slot", !.games = games] \in Turn
    BY DEF TypeOK, Turn, IdleTurn
  <2>2. sup' \in Turn
    BY <1>1, <2>1 DEF SuperviseRegistry, SuperviseSkip
  <2> QED
    BY <1>1, <2>2 DEF SuperviseRegistry, SuperviseSkip, TypeOK, world, files, app, ghost
<1>2. CASE SuperviseWrite
  BY <1>2 DEF SuperviseWrite, TypeOK, Lock, world, ghost
<1>3. ASSUME NEW a \in Workers \cup {NoWorker}, SuperviseSlot(a) PROVE TypeOK'
  <2>1. sup' \in Turn
    BY <1>3 DEF SuperviseSlot, TypeOK, Turn, Slot
  <2> QED
    BY <1>3, <2>1 DEF SuperviseSlot, TypeOK, Lock, world, files, ghost
<1>4. ASSUME NEW w \in Workers, SuperviseRead(w) PROVE TypeOK'
  BY <1>4 DEF SuperviseRead, TypeOK, world, files, app, ghost
<1>5. ASSUME NEW failing \in SUBSET Workers, SuperviseAssess(failing) PROVE TypeOK'
  <2>1. decision' \in Permit
    BY <1>5, AllowType DEF SuperviseAssess
  <2>2. sup' \in Turn
    BY <1>5 DEF SuperviseAssess, Turn, IdleTurn
  <2>3. lastSeen' \in [Workers -> Beat] /\ seen' \in [Workers -> Beat]
    BY <1>5 DEF SuperviseAssess, TypeOK, Blank
  <2> QED
    BY <1>5, <2>1, <2>2, <2>3 DEF SuperviseAssess, TypeOK, world, files, app, ghost
<1>6. ASSUME NEW w \in Workers, InspectHealth(w) PROVE TypeOK'
  BY <1>6 DEF InspectHealth, TypeOK, world, files, app, ghost
<1> QED
  BY <1>1, <1>2, <1>3, <1>4, <1>5, <1>6 DEF Supervise

LEMMA TypeComplete ==
  ASSUME TypeOK, NEW to \in Slot, Complete(to), Denied \/ Granted,
         actions' \in 0..MaxActions
  PROVE  TypeOK'
  BY DEF TypeOK, Complete, Denied, Granted, Lock, world, files, turn

LEMMA TypeLifecycle == TypeOK /\ Lifecycle => TypeOK'
<1> SUFFICES ASSUME TypeOK, Lifecycle PROVE TypeOK'
  OBVIOUS
<1> USE NoBeatType, NoPermitType, IdleTurnType, UnboundType
<1>0. actions \in 0..MaxActions /\ (Count => actions' \in 0..MaxActions)
  BY DEF TypeOK, Count
<1>1. CASE Revoke \/ AskStop \/ RevokeAll
  BY <1>0, <1>1 DEF Revoke, AskStop, RevokeAll, TypeOK, Lock, world, turn, ghost
<1>2. CASE Restart
  BY <1>0, <1>2 DEF Restart, TypeOK, Lock, Blank, world, files, ghost
<1>3. \A state \in {"paused", "ended", "attached"} : [slot EXCEPT !.state = state] \in Slot
  BY DEF TypeOK, Slot
<1>4. slot \in Slot /\ \A i \in Insts : [inst |-> i, state |-> "attached"] \in Slot
  BY DEF TypeOK, Slot
<1>5. CASE Refresh
  <2>1. slot' \in Slot
    BY <1>3, <1>5 DEF Refresh
  <2> QED
    BY <1>5, <2>1 DEF Refresh, TypeOK, world, files, turn, ghost
<1>6. CASE CompletePause
  BY <1>0, <1>3, <1>6, TypeComplete DEF CompletePause, Denied
<1>7. CASE CompleteClose
  BY <1>0, <1>3, <1>7, TypeComplete DEF CompleteClose, Denied
<1>8. CASE CompleteDetach
  BY <1>0, <1>8, TypeComplete DEF CompleteDetach, Denied
<1>9. CASE CompleteArchive
  BY <1>0, <1>4, <1>9, TypeComplete DEF CompleteArchive, Denied
<1>10. ASSUME NEW i \in Insts, CompleteAttach(i) PROVE TypeOK'
  BY <1>0, <1>4, <1>10, TypeComplete DEF CompleteAttach
<1>11. CASE Fail
  BY <1>0, <1>4, <1>11, TypeComplete DEF Fail, Denied
<1>13. CASE FailClose
  BY <1>0, <1>3, <1>13, TypeComplete DEF FailClose, Denied
<1>12. CASE Resume
  BY <1>0, <1>3, <1>12, TypeComplete DEF Resume
<1> QED
  BY <1>1, <1>2, <1>5, <1>6, <1>7, <1>8, <1>9, <1>10, <1>11, <1>12,
     <1>13 DEF Lifecycle

LEMMA TypeStep == TypeOK /\ [Next]_vars => TypeOK'
<1> SUFFICES ASSUME TypeOK, [Next]_vars PROVE TypeOK'
  OBVIOUS
<1>1. CASE Tick
  BY <1>1 DEF Tick, TypeOK, files, turn, app, ghost
<1>2. ASSUME NEW i \in Insts, GameGone(i) PROVE TypeOK'
  BY <1>2 DEF GameGone, TypeOK, files, turn, app, ghost
<1>3. CASE UNCHANGED vars
  BY <1>3 DEF TypeOK, vars, world, files, turn, app, ghost
<1> QED
  BY <1>1, <1>2, <1>3, TypeWorker, TypeSupervise, TypeLifecycle DEF Next

\* The type invariant of every permit, heartbeat, slot and supervise turn, for any
\* number of workers.
THEOREM TypeCorrect == Spec => []TypeOK
<1> QED
  BY TypeInit, TypeStep, PTL DEF Spec

-------------------------------------------------------------------------------
(***************************************************************************)
(* Heartbeats                                                              *)
(***************************************************************************)

LEMMA FollowsTransitive ==
  ASSUME NEW a \in Beat, NEW b \in Beat, NEW c \in Beat, Follows(b, a), Follows(c, b),
         b.seq > 0
  PROVE  Follows(c, a)
  BY DEF Follows, Beat

LEMMA HeartbeatInit == Init => HeartbeatInv
  BY DEF Init, HeartbeatInv, BeatOf, Follows, Blank, NoBeat, Running

\* Starting and ending worker processes.
LEMMA HeartbeatProcess ==
  ASSUME TypeOK, HeartbeatInv, NEW w \in Workers, Start(w) \/ Exit(w)
  PROVE  HeartbeatInv'
<1>1. \A v \in Workers : Running(v)' => v \in born'
  BY DEF Start, Exit, TypeOK, HeartbeatInv, Running
<1>2. \A v \in Workers : v \in born => v \in born'
  BY DEF Start, Exit
<1>3. UNCHANGED <<now, beat, sup, seen, lastSeen, readyAt>>
  BY DEF Start, Exit, files, turn, ghost
<1> QED
  BY <1>1, <1>2, <1>3 DEF HeartbeatInv, BeatOf, Follows

\* What the five kinds of heartbeat have in common.
PublishedAs(w, state, ready, stop) ==
  /\ Publish(w, state, ready, stop)
  /\ state # "none" /\ beat[w].state # "stopped"
  /\ ready <=> state = "running"
  /\ state = "failed" => stop
  /\ beat[w].state \notin {"none", "starting"} => state # "starting"
  /\ readyAt' = IF state = "running" THEN [readyAt EXCEPT ![w] = ObservedAt(w)] ELSE readyAt
  /\ held' = IF state \in {"stopping", "failed"} THEN [held EXCEPT ![w] = NoPermit] ELSE held
  /\ state = "running" => beat[w].state \in {"starting", "running"}
  /\ state = "starting" => beat[w].state = "none"
  /\ state = "stopped" => beat[w].state \in {"stopping", "failed"}

Publishes(w) == PublishStarting(w) \/ PublishRunning(w) \/ PublishStopping(w)
                \/ PublishFailed(w) \/ PublishStopped(w)

LEMMA HeartbeatKinds ==
  ASSUME NEW w \in Workers, Publishes(w)
  PROVE  \E state \in RuntimeStates, ready \in BOOLEAN, stop \in BOOLEAN :
           PublishedAs(w, state, ready, stop)
<1> USE DEF PublishedAs, RuntimeStates
<1>1. CASE PublishStarting(w)
  <2>1. PublishedAs(w, "starting", FALSE, FALSE)
    BY <1>1 DEF PublishStarting
  <2> QED
    BY <2>1
<1>2. CASE PublishRunning(w)
  <2>1. PublishedAs(w, "running", TRUE, FALSE)
    BY <1>2 DEF PublishRunning
  <2> QED
    BY <2>1
<1>3. CASE PublishStopping(w)
  <2>1. PublishedAs(w, "stopping", FALSE, FALSE)
    BY <1>3 DEF PublishStopping, Trip
  <2> QED
    BY <2>1
<1>4. CASE PublishFailed(w)
  <2>1. PublishedAs(w, "failed", FALSE, TRUE)
    BY <1>4 DEF PublishFailed, Trip
  <2> QED
    BY <2>1
<1>5. CASE PublishStopped(w)
  <2>1. PublishedAs(w, "stopped", FALSE, FALSE)
    BY <1>5 DEF PublishStopped
  <2> QED
    BY <2>1
<1> QED
  BY <1>1, <1>2, <1>3, <1>4, <1>5 DEF Publishes

\* The heartbeat that one of them leaves.
LEMMA PublishedBeat ==
  ASSUME TypeOK, NEW w \in Workers, NEW state \in RuntimeStates, NEW ready \in BOOLEAN,
         NEW stop \in BOOLEAN, PublishedAs(w, state, ready, stop)
  PROVE  /\ beat'[w].seq = beat[w].seq + 1 /\ beat'[w].at = ObservedAt(w)
         /\ beat'[w].state = state
         /\ beat'[w].ready => ready
         /\ beat'[w].stop \in BOOLEAN
         /\ stop \/ beat[w].stop => beat'[w].stop
         /\ \A v \in Workers : v # w => beat'[v] = beat[v] /\ readyAt'[v] = readyAt[v]
         /\ readyAt'[w] = IF state = "running" THEN ObservedAt(w) ELSE readyAt[w]
         /\ beat[w].seq \in Nat /\ beat[w].at \in Nat /\ readyAt[w] \in Nat
         /\ Running(w) /\ ObservedAt(w) <= now + Ahead
         /\ UNCHANGED <<now, proc, born, games, stops, permit, sup, todo, seen, decision,
                        lastSeen, slot, lock, stopping, revoked, revokedAt, actions>>
<1>1. beat[w].seq \in Nat /\ beat[w].at \in Nat /\ readyAt[w] \in Nat /\ beat[w].stop \in BOOLEAN
  BY DEF TypeOK, Beat
<1>2. beat' = [beat EXCEPT ![w] =
       [seq |-> beat[w].seq + 1, at |-> ObservedAt(w), state |-> state,
        ready |-> ready /\ ~(beat[w].stop \/ stop), stop |-> beat[w].stop \/ stop]]
  BY DEF PublishedAs, Publish
<1>3. beat'[w] = [seq |-> beat[w].seq + 1, at |-> ObservedAt(w), state |-> state,
                  ready |-> ready /\ ~(beat[w].stop \/ stop), stop |-> beat[w].stop \/ stop]
      /\ \A v \in Workers : v # w => beat'[v] = beat[v]
  BY <1>2 DEF TypeOK
<1>4. /\ readyAt'[w] = IF state = "running" THEN ObservedAt(w) ELSE readyAt[w]
      /\ \A v \in Workers : v # w => readyAt'[v] = readyAt[v]
  BY DEF PublishedAs, TypeOK
<1> QED
  BY <1>1, <1>3, <1>4 DEF PublishedAs, Publish, world, turn, app

\* One more heartbeat of worker w.
LEMMA HeartbeatPublish ==
  ASSUME TypeOK, HeartbeatInv, NEW w \in Workers, Publishes(w)
  PROVE  HeartbeatInv'
<1>1. PICK state \in RuntimeStates, ready \in BOOLEAN, stop \in BOOLEAN :
        PublishedAs(w, state, ready, stop)
  BY HeartbeatKinds
<1>2. /\ beat'[w].seq = beat[w].seq + 1 /\ beat'[w].at = ObservedAt(w)
      /\ beat'[w].state = state /\ (beat'[w].ready => ready)
      /\ stop \/ beat[w].stop => beat'[w].stop
      /\ \A v \in Workers : v # w => beat'[v] = beat[v] /\ readyAt'[v] = readyAt[v]
      /\ readyAt'[w] = IF state = "running" THEN ObservedAt(w) ELSE readyAt[w]
      /\ beat[w].seq \in Nat /\ beat[w].at \in Nat /\ readyAt[w] \in Nat
      /\ Running(w) /\ ObservedAt(w) <= now + Ahead
      /\ UNCHANGED <<now, proc, born, sup, seen, lastSeen>>
  BY <1>1, PublishedBeat
<1>3. /\ state # "none" /\ beat[w].state # "stopped"
      /\ ready <=> state = "running"
      /\ state = "failed" => stop
      /\ beat[w].state \notin {"none", "starting"} => state # "starting"
  BY <1>1 DEF PublishedAs
<1>4. /\ now <= ObservedAt(w) /\ ObservedAt(w) \in Nat /\ now \in Nat
      /\ beat[w].seq > 0 => beat[w].at < ObservedAt(w)
  BY ObservedAtType DEF TypeOK
<1>5. HeartbeatInv!(w)
  BY DEF HeartbeatInv
<1>6. readyAt[w] <= ObservedAt(w) /\ readyAt[w] <= readyAt'[w] /\ readyAt'[w] <= ObservedAt(w)
  BY <1>2, <1>4, <1>5 DEF BeatOf
<1>7. ASSUME NEW v \in Workers, v # w PROVE HeartbeatInv!(v)'
  BY <1>2, <1>7 DEF HeartbeatInv, BeatOf, Follows, Running
<1>8. BeatOf(w, beat[w])' /\ BeatOf(w, seen[w])'
  <2>1. w \in born
    BY <1>2, <1>5
  <2>2. BeatOf(w, beat[w])'
    BY <1>2, <1>3, <1>4, <2>1 DEF BeatOf
  <2>3. seen[w] \in Beat
    BY DEF TypeOK
  <2>4. readyAt'[w] \in Nat /\ seen[w].at \in Nat /\ seen'[w] = seen[w]
    BY <1>2, <1>4, <2>3 DEF Beat
  <2>5. seen[w].ready => seen[w].at <= readyAt'[w] /\ state \notin {"none", "starting"}
    BY <1>2, <1>3, <1>5, <1>6, <2>4 DEF BeatOf
  <2>6. seen[w].state # "stopped"
    BY <1>3, <1>5 DEF BeatOf
  <2>7. BeatOf(w, seen[w])'
    BY <1>2, <1>5, <2>1, <2>4, <2>5, <2>6 DEF BeatOf
  <2> QED
    BY <2>2, <2>7
<1>9. ASSUME NEW b \in Beat, Follows(beat[w], b) PROVE Follows(beat'[w], b)
  BY <1>2, <1>4, <1>9 DEF Follows, Beat
<1>10. seen[w] \in Beat /\ lastSeen[w] \in Beat
  BY DEF TypeOK
<1>11. HeartbeatInv!(w)'
  BY <1>2, <1>5, <1>6, <1>8, <1>9, <1>10 DEF Running, Follows
<1> QED
  BY <1>7, <1>11 DEF HeartbeatInv

LEMMA HeartbeatFrame ==
  ASSUME HeartbeatInv, UNCHANGED <<now, proc, born, beat, seen, lastSeen, readyAt>>,
         sup.step = "read" => sup'.step = "read"
  PROVE  HeartbeatInv'
  BY DEF HeartbeatInv, BeatOf, Follows, Running

LEMMA HeartbeatTick == TypeOK /\ HeartbeatInv /\ Tick => HeartbeatInv'
<1> SUFFICES ASSUME TypeOK, HeartbeatInv, Tick, NEW w \in Workers PROVE HeartbeatInv!(w)'
  BY DEF HeartbeatInv
<1>1. UNCHANGED <<proc, born, beat, sup, seen, lastSeen, readyAt>> /\ now' = now + 1 /\ now \in Nat
  BY DEF Tick, TypeOK, files, turn, ghost
<1>2. beat[w] \in Beat /\ seen[w] \in Beat
  BY DEF TypeOK
<1>3. BeatOf(w, beat[w])' /\ BeatOf(w, seen[w])'
  BY <1>1, <1>2 DEF HeartbeatInv, BeatOf, Beat
<1> QED
  BY <1>1, <1>3 DEF HeartbeatInv, Running, Follows

LEMMA HeartbeatRead ==
  ASSUME TypeOK, HeartbeatInv, NEW w \in Workers, SuperviseRead(w)
  PROVE  HeartbeatInv'
<1>1. /\ UNCHANGED <<now, proc, born, beat, sup, lastSeen, readyAt>> /\ sup.step = "read"
      /\ seen'[w] = beat[w] /\ \A v \in Workers : v # w => seen'[v] = seen[v]
  BY DEF SuperviseRead, TypeOK, world, files, ghost
<1> QED
  BY <1>1 DEF HeartbeatInv, BeatOf, Follows, Running

\* Outside a turn's reads the supervisor only catches up with the file.
LEMMA HeartbeatInspect ==
  ASSUME TypeOK, HeartbeatInv, NEW w \in Workers, InspectHealth(w)
  PROVE  HeartbeatInv'
<1>1. /\ UNCHANGED <<now, proc, born, beat, sup, seen, readyAt>> /\ sup.step # "read"
      /\ lastSeen'[w] = beat[w] /\ \A v \in Workers : v # w => lastSeen'[v] = lastSeen[v]
  BY DEF InspectHealth, TypeOK, world, files, ghost
<1> QED
  BY <1>1 DEF HeartbeatInv, BeatOf, Follows, Running

LEMMA HeartbeatAssess ==
  ASSUME TypeOK, HeartbeatInv, NEW failing \in SUBSET Workers, SuperviseAssess(failing)
  PROVE  HeartbeatInv'
<1>1. /\ UNCHANGED <<now, proc, born, beat, readyAt>>
      /\ \A w \in Workers : seen'[w] = NoBeat
      /\ \A w \in Workers : lastSeen'[w] = lastSeen[w] \/ lastSeen'[w] = seen[w]
  BY DEF SuperviseAssess, TypeOK, Blank, world, files, ghost
<1>2. \A w \in Workers : now + Ahead >= 0
  BY DEF TypeOK
<1> QED
  BY <1>1, <1>2 DEF HeartbeatInv, BeatOf, Follows, Running, NoBeat

LEMMA HeartbeatRestart == TypeOK /\ HeartbeatInv /\ Restart => HeartbeatInv'
<1> SUFFICES ASSUME TypeOK, HeartbeatInv, Restart PROVE HeartbeatInv'
  OBVIOUS
<1>1. /\ UNCHANGED <<now, proc, born, beat, readyAt>>
      /\ \A w \in Workers : seen'[w] = NoBeat /\ lastSeen'[w] = NoBeat
  BY DEF Restart, Blank, world, files, ghost
<1>2. now + Ahead >= 0
  BY DEF TypeOK
<1> QED
  BY <1>1, <1>2 DEF HeartbeatInv, BeatOf, Follows, Running, NoBeat

LEMMA HeartbeatStep == TypeOK /\ HeartbeatInv /\ [Next]_vars => HeartbeatInv'
<1> SUFFICES ASSUME TypeOK, HeartbeatInv, [Next]_vars PROVE HeartbeatInv'
  OBVIOUS
<1>1. ASSUME NEW w \in Workers, Worker(w) PROVE HeartbeatInv'
  BY <1>1, HeartbeatProcess, HeartbeatPublish DEF Worker, Publishes
<1>2. ASSUME NEW w \in Workers, Gate(w) PROVE HeartbeatInv'
  BY <1>2, HeartbeatFrame DEF Gate, RefreshGate, FindExpired, world, files, turn, ghost
<1>3. CASE SuperviseRegistry \/ SuperviseSkip \/ SuperviseWrite
  BY <1>3, HeartbeatFrame DEF SuperviseRegistry, SuperviseSkip, SuperviseWrite, world, files, ghost
<1>4. ASSUME NEW a \in Workers \cup {NoWorker}, SuperviseSlot(a) PROVE HeartbeatInv'
  BY <1>4, HeartbeatFrame DEF SuperviseSlot, world, files, ghost
<1>5. CASE Supervise
  BY <1>3, <1>4, <1>5, HeartbeatRead, HeartbeatInspect, HeartbeatAssess DEF Supervise
<1>6. CASE Revoke \/ AskStop \/ RevokeAll \/ Refresh
  BY <1>6, HeartbeatFrame DEF Revoke, AskStop, RevokeAll, Refresh, world, files, turn, ghost
<1>7. ASSUME NEW to, Complete(to) PROVE HeartbeatInv'
  BY <1>7, HeartbeatFrame DEF Complete, world, files, turn
<1>8. CASE Lifecycle
  BY <1>6, <1>7, <1>8, HeartbeatRestart DEF Lifecycle, CompletePause, CompleteClose,
     CompleteDetach, CompleteArchive, CompleteAttach, Fail, FailClose, Resume
<1>9. ASSUME NEW i \in Insts, GameGone(i) PROVE HeartbeatInv'
  BY <1>9, HeartbeatFrame DEF GameGone, files, turn, ghost
<1>10. CASE UNCHANGED vars
  BY <1>10, HeartbeatFrame DEF vars, world, files, turn, ghost
<1> QED
  BY <1>1, <1>2, <1>5, <1>8, <1>9, <1>10, HeartbeatTick DEF Next

-------------------------------------------------------------------------------
(***************************************************************************)
(* Permits                                                                 *)
(***************************************************************************)

LEMMA PermitInit == Init => PermitInv
  BY NoPermitType DEF Init, PermitInv, Sound, Blank, IdleTurn

LEMMA NoPermitSound == Sound(NoPermit)
  BY NoPermitType DEF Sound

\* A sound permit stays sound while time passes and workers publish.
LEMMA SoundKept ==
  ASSUME NEW p \in Permit, Sound(p), now \in Nat, now' \in Nat, now <= now',
         \A w \in Workers : /\ readyAt[w] \in Nat /\ readyAt'[w] \in Nat
                            /\ readyAt[w] <= readyAt'[w]
                            /\ beat[w].state \notin {"none", "starting"}
                                 => beat'[w].state \notin {"none", "starting"}
  PROVE  p.worker # NoWorker =>
           /\ p.issued <= now' /\ p.issued < p.expires
           /\ p.expires <= p.issued + Ttl
           /\ p.expires <= readyAt'[p.worker] + Timeout
           /\ beat'[p.worker].state \notin {"none", "starting"}
  BY DEF Sound, Permit

\* A permit that is about to be written is sound.
LEMMA AllowSound ==
  ASSUME TypeOK, HeartbeatInv, PermitInv, NEW failing \in SUBSET Workers,
         NEW w \in Workers, Allowed(w, failing)
  PROVE  Sound(Allow(w)) /\ Allow(w).worker = w
<1>1. /\ seen[w] \in Beat /\ sup \in Turn /\ readyAt[w] \in Nat /\ now \in Nat
      /\ seen[w].ready /\ sup.at < seen[w].at + Timeout
  BY DEF Allowed, Healthy, TypeOK
<1>2. /\ seen[w].at \in Nat /\ sup.at \in Nat /\ sup.at <= now
      /\ seen[w].at <= readyAt[w] /\ beat[w].state \notin {"none", "starting"}
  BY <1>1 DEF HeartbeatInv, BeatOf, PermitInv, Beat, Turn
<1> QED
  BY <1>1, <1>2 DEF Sound, Allow, Earlier

\* Time passes and workers publish; nothing goes back.
Onward == /\ now <= now'
          /\ \A w \in Workers : /\ readyAt[w] <= readyAt'[w]
                                /\ beat[w].state \notin {"none", "starting"}
                                     => beat'[w].state \notin {"none", "starting"}

LEMMA OnwardFrame == TypeOK /\ UNCHANGED <<now, readyAt, beat>> => Onward
  BY DEF TypeOK, Onward

LEMMA PermitKept ==
  ASSUME TypeOK, TypeOK', PermitInv, Onward,
         Sound(permit'), Sound(decision'), sup'.at <= now',
         \A w \in Workers : /\ Sound(held'[w]) /\ held'[w].worker \in {w, NoWorker}
                            /\ held'[w].worker = w => beat'[w].state = "running"
  PROVE  PermitInv'
<1>1. /\ permit' \in Permit /\ decision' \in Permit
      /\ now \in Nat /\ now' \in Nat
      /\ \A w \in Workers : held'[w] \in Permit /\ readyAt[w] \in Nat /\ readyAt'[w] \in Nat
  BY DEF TypeOK
<1>2. ASSUME NEW p \in Permit, Sound(p)
      PROVE  p.worker # NoWorker =>
               /\ p.issued <= now' /\ p.issued < p.expires
               /\ p.expires <= p.issued + Ttl
               /\ p.expires <= readyAt'[p.worker] + Timeout
               /\ beat'[p.worker].state \notin {"none", "starting"}
  BY <1>1, <1>2, SoundKept DEF Onward
<1>3. Sound(permit)'
  BY <1>1, <1>2 DEF Sound
<1>4. Sound(decision)'
  BY <1>1, <1>2 DEF Sound
<1>5. ASSUME NEW w \in Workers PROVE Sound(held[w])'
  BY <1>1, <1>2 DEF Sound
<1> QED
  BY <1>3, <1>4, <1>5 DEF PermitInv

LEMMA PermitPublish ==
  ASSUME TypeOK, TypeOK', HeartbeatInv, PermitInv, NEW w \in Workers, Publishes(w)
  PROVE  PermitInv'
<1>1. PICK state \in RuntimeStates, ready \in BOOLEAN, stop \in BOOLEAN :
        PublishedAs(w, state, ready, stop)
  BY HeartbeatKinds
<1>2. /\ beat'[w].state = state
      /\ \A v \in Workers : v # w => beat'[v] = beat[v] /\ readyAt'[v] = readyAt[v]
      /\ readyAt'[w] = IF state = "running" THEN ObservedAt(w) ELSE readyAt[w]
      /\ UNCHANGED <<now, permit, sup, decision>>
  BY <1>1, PublishedBeat
<1>3. ObservedAt(w) \in Nat /\ readyAt[w] <= ObservedAt(w)
  <2>1. /\ now <= ObservedAt(w) /\ ObservedAt(w) \in Nat /\ now \in Nat
        /\ beat[w].seq > 0 => beat[w].at < ObservedAt(w)
        /\ beat[w].seq \in Nat /\ beat[w].at \in Nat /\ readyAt[w] \in Nat
    BY ObservedAtType DEF TypeOK, Beat
  <2> QED
    BY <2>1 DEF HeartbeatInv, BeatOf
<1>4. /\ state # "none"
      /\ beat[w].state \notin {"none", "starting"} => state # "starting"
      /\ held' = IF state \in {"stopping", "failed"} THEN [held EXCEPT ![w] = NoPermit] ELSE held
      /\ state = "starting" => beat[w].state = "none"
      /\ state = "stopped" => beat[w].state \in {"stopping", "failed"}
  BY <1>1 DEF PublishedAs
<1>5. Onward
  BY <1>2, <1>3, <1>4 DEF Onward, TypeOK
<1>6. Sound(permit') /\ Sound(decision') /\ sup'.at <= now'
  BY <1>2 DEF PermitInv
<1>7. ASSUME NEW v \in Workers
      PROVE  /\ Sound(held'[v]) /\ held'[v].worker \in {v, NoWorker}
             /\ held'[v].worker = v => beat'[v].state = "running"
  <2>1. held'[v] = held[v] \/ (v = w /\ held'[v] = NoPermit)
    BY <1>4 DEF TypeOK
  <2>2. CASE v # w
    BY <1>2, <2>1, <2>2 DEF PermitInv, Sound
  <2>3. CASE v = w /\ state \in {"stopping", "failed"}
    <3>1. held'[v] = NoPermit
      BY <1>4, <2>3 DEF TypeOK
    <3> QED
      BY <3>1, NoPermitSound, NoPermitType
  <2>4. CASE v = w /\ state \notin {"stopping", "failed"}
    BY <1>2, <1>4, <2>4 DEF PermitInv, RuntimeStates, Sound
  <2> QED
    BY <2>2, <2>3, <2>4
<1> QED
  BY <1>5, <1>6, <1>7, PermitKept

LEMMA PermitProcess ==
  ASSUME TypeOK, TypeOK', PermitInv, NEW w \in Workers, Start(w) \/ Exit(w) \/ Gate(w)
  PROVE  PermitInv'
<1>1. UNCHANGED <<now, readyAt, beat, permit, decision, sup>>
  BY DEF Start, Exit, Gate, RefreshGate, FindExpired, world, files, turn, ghost
<1>2. \A v \in Workers : \/ held'[v] = held[v]
                         \/ held'[v] = NoPermit
                         \/ held'[v] = permit /\ permit.worker = v /\ Serving(v)
  BY DEF Start, Exit, Gate, RefreshGate, FindExpired, Trip, Permits, TypeOK
<1>3. \A v \in Workers : /\ Sound(held'[v]) /\ held'[v].worker \in {v, NoWorker}
                         /\ held'[v].worker = v => beat'[v].state = "running"
  <2> SUFFICES ASSUME NEW v \in Workers
               PROVE  /\ Sound(held'[v]) /\ held'[v].worker \in {v, NoWorker}
                      /\ held'[v].worker = v => beat'[v].state = "running"
    OBVIOUS
  <2>1. CASE held'[v] = held[v]
    BY <1>1, <2>1 DEF PermitInv, Sound
  <2>2. CASE held'[v] = NoPermit
    BY <2>2, NoPermitSound, NoPermitType
  <2>3. CASE held'[v] = permit /\ permit.worker = v /\ Serving(v)
    BY <1>1, <2>3 DEF PermitInv, Sound, Serving
  <2> QED
    BY <1>2, <2>1, <2>2, <2>3
<1> QED
  BY <1>1, <1>3, PermitKept, OnwardFrame DEF PermitInv

\* Steps of the manager, the clock and the games.
LEMMA PermitManager ==
  ASSUME TypeOK, TypeOK', HeartbeatInv, PermitInv, UNCHANGED <<readyAt, beat, held>>,
         now' \in {now, now + 1}, sup'.at \in {sup.at, now, 0},
         permit' \in {permit, decision, NoPermit}, Sound(decision')
  PROVE  PermitInv'
<1>1. now \in Nat /\ sup.at \in Nat /\ sup.at <= now
  BY DEF TypeOK, Turn, PermitInv
<1>2. Onward
  BY <1>1 DEF Onward, TypeOK
<1>3. Sound(permit')
  BY NoPermitSound DEF PermitInv
<1>4. sup'.at <= now'
  BY <1>1
<1>5. \A w \in Workers : /\ Sound(held'[w]) /\ held'[w].worker \in {w, NoWorker}
                         /\ held'[w].worker = w => beat'[w].state = "running"
  BY DEF PermitInv, Sound
<1> QED
  BY <1>2, <1>3, <1>4, <1>5, PermitKept

LEMMA PermitStep ==
  TypeOK /\ HeartbeatInv /\ PermitInv /\ [Next]_vars => PermitInv'
<1> SUFFICES ASSUME TypeOK, HeartbeatInv, PermitInv, [Next]_vars PROVE PermitInv'
  OBVIOUS
<1>0. TypeOK' /\ Sound(decision) /\ Sound(NoPermit) /\ NoPermit \in Permit /\ sup \in Turn
  BY TypeStep, NoPermitSound, NoPermitType DEF PermitInv, TypeOK
<1> USE <1>0
<1>1. ASSUME NEW w \in Workers, Worker(w) \/ Gate(w) PROVE PermitInv'
  BY <1>1, PermitPublish, PermitProcess DEF Worker, Publishes
<1>2. CASE SuperviseRegistry \/ SuperviseSkip
  <2>1. sup'.at = 0
    <3>1. [IdleTurn EXCEPT !.step = "slot", !.games = games].at = 0 /\ IdleTurn.at = 0
      BY DEF IdleTurn
    <3> QED
      BY <1>2, <3>1 DEF SuperviseRegistry, SuperviseSkip
  <2>2. UNCHANGED <<now, readyAt, beat, held, permit, decision>>
    BY <1>2 DEF SuperviseRegistry, SuperviseSkip, world, files, ghost
  <2> QED
    BY <2>1, <2>2, PermitManager
<1>3. ASSUME NEW a \in Workers \cup {NoWorker}, SuperviseSlot(a) PROVE PermitInv'
  <2>1. sup'.at = now
    BY <1>3 DEF SuperviseSlot, Turn
  <2> QED
    BY <1>3, <2>1, PermitManager DEF SuperviseSlot, world, files, ghost
<1>4. ASSUME NEW w \in Workers, SuperviseRead(w) \/ InspectHealth(w) PROVE PermitInv'
  BY <1>4, PermitManager DEF SuperviseRead, InspectHealth, world, files, ghost
<1>5. ASSUME NEW failing \in SUBSET Workers, SuperviseAssess(failing) PROVE PermitInv'
  <2>1. Sound(decision')
    BY <1>5, AllowSound DEF SuperviseAssess
  <2>2. sup'.at = 0
    BY <1>5 DEF SuperviseAssess, IdleTurn
  <2> QED
    BY <1>5, <2>1, <2>2, PermitManager DEF SuperviseAssess, world, files, ghost
<1>6. CASE SuperviseWrite
  BY <1>6, PermitManager DEF SuperviseWrite, IdleTurn, world, ghost
<1>7. CASE Revoke \/ AskStop \/ RevokeAll \/ Refresh
  BY <1>7, PermitManager DEF Revoke, AskStop, RevokeAll, Refresh, world, files, turn, ghost
<1>8. ASSUME NEW to, Complete(to) PROVE PermitInv'
  BY <1>8, PermitManager DEF Complete, world, files, turn
<1>9. CASE Restart
  BY <1>9, PermitManager DEF Restart, IdleTurn, world, files, ghost
<1>10. CASE Tick \/ UNCHANGED vars \/ (\E i \in Insts : GameGone(i))
  BY <1>10, PermitManager DEF Tick, GameGone, vars, world, files, turn, app, ghost
<1>11. CASE Supervise
  BY <1>2, <1>3, <1>4, <1>5, <1>6, <1>11 DEF Supervise
<1>12. CASE Lifecycle
  BY <1>7, <1>8, <1>9, <1>12 DEF Lifecycle, CompletePause, CompleteClose,
     CompleteDetach, CompleteArchive, CompleteAttach, Fail, FailClose, Resume
<1> QED
  BY <1>1, <1>10, <1>11, <1>12 DEF Next

-------------------------------------------------------------------------------
(***************************************************************************)
(* Revocation                                                              *)
(***************************************************************************)

LEMMA RevocationInit == Init => RevocationInv
  BY NoPermitType DEF Init, RevocationInv, IdleTurn, Unbound, Blank

\* Workers drop permits or adopt the one in the file.
LEMMA RevocationWorker ==
  ASSUME TypeOK, RevocationInv, NEW w \in Workers, Worker(w) \/ Gate(w)
  PROVE  RevocationInv'
<1>1. UNCHANGED <<now, lock, sup, decision, slot, permit, stopping, revoked, revokedAt>>
  BY DEF Worker, Start, Exit, PublishStarting, PublishRunning, PublishStopping, PublishFailed,
     PublishStopped, Publish, Gate, RefreshGate, FindExpired, world, files, turn, app, ghost
<1>2. \A v \in Workers : held'[v] \in {held[v], NoPermit, permit}
  BY DEF Worker, Start, Exit, PublishStarting, PublishRunning, PublishStopping, PublishFailed,
     PublishStopped, Gate, RefreshGate, FindExpired, Trip, TypeOK
<1> QED
  BY <1>1, <1>2, NoPermitType DEF RevocationInv

LEMMA RevocationSupervise == TypeOK /\ RevocationInv /\ Supervise => RevocationInv'
<1> SUFFICES ASSUME TypeOK, RevocationInv, Supervise PROVE RevocationInv'
  OBVIOUS
<1> USE NoPermitType DEF RevocationInv
<1>0. IdleTurn.step = "idle" /\ sup \in Turn
  BY DEF IdleTurn, TypeOK
<1>1. CASE SuperviseRegistry
  <2>1. sup'.step = "slot"
    BY <1>1 DEF SuperviseRegistry, IdleTurn
  <2> QED
    BY <1>1, <2>1 DEF SuperviseRegistry, world, files, app, ghost
<1>2. CASE SuperviseSkip
  BY <1>0, <1>2 DEF SuperviseSkip, world, files, app, ghost
<1>3. CASE SuperviseWrite
  BY <1>0, <1>3 DEF SuperviseWrite, world, ghost
<1>4. ASSUME NEW a \in Workers \cup {NoWorker}, SuperviseSlot(a) PROVE RevocationInv'
  <2>1. sup'.step = "read" /\ (sup'.enabled => slot.state = "attached" /\ ~stopping)
    BY <1>0, <1>4 DEF SuperviseSlot, Turn
  <2> QED
    BY <1>4, <2>1 DEF SuperviseSlot, world, files, ghost
<1>5. ASSUME NEW w \in Workers, SuperviseRead(w) PROVE RevocationInv'
  BY <1>5 DEF SuperviseRead, world, files, app, ghost
<1>6. ASSUME NEW failing \in SUBSET Workers, SuperviseAssess(failing) PROVE RevocationInv'
  <2>1. sup'.step = "write" /\ sup.step = "read"
    BY <1>6 DEF SuperviseAssess, IdleTurn
  <2>2. decision' = NoPermit \/ sup.enabled
    BY <1>6 DEF SuperviseAssess, Allowed
  <2> QED
    BY <1>6, <2>1, <2>2 DEF SuperviseAssess, world, files, app, ghost
<1>7. ASSUME NEW w \in Workers, InspectHealth(w) PROVE RevocationInv'
  BY <1>7 DEF InspectHealth, world, files, app, ghost
<1> QED
  BY <1>1, <1>2, <1>3, <1>4, <1>5, <1>6, <1>7 DEF Supervise

LEMMA RevocationLifecycle ==
  TypeOK /\ PermitInv /\ RevocationInv /\ Lifecycle => RevocationInv'
<1> SUFFICES ASSUME TypeOK, PermitInv, RevocationInv, Lifecycle PROVE RevocationInv'
  OBVIOUS
<1> USE NoPermitType
<1>0. IdleTurn.step = "idle" /\ sup \in Turn /\ now \in Nat /\ slot \in Slot
  BY DEF IdleTurn, TypeOK
<1>1. CASE Revoke
  BY <1>0, <1>1 DEF Revoke, RevocationInv, PermitInv, Sound, world, turn
<1>2. CASE RevokeAll
  BY <1>0, <1>2 DEF RevokeAll, RevocationInv, PermitInv, Sound, world, turn
<1>3. CASE AskStop
  BY <1>3 DEF AskStop, RevocationInv, world, turn, ghost
<1>4. CASE Restart
  BY <1>0, <1>4 DEF Restart, RevocationInv, Unbound, world, files, ghost
<1>5. CASE Refresh
  <2>1. slot'.state # "attached"
    BY <1>0, <1>5 DEF Refresh, Unbound, Slot
  <2> QED
    BY <1>5, <2>1 DEF Refresh, RevocationInv, world, files, turn, ghost
<1>6. ASSUME NEW to \in Slot, Complete(to), lock # "supervise",
             to.inst = NoInst => to.state # "attached",
             \/ Denied /\ to.state # "attached"
             \/ Granted
      PROVE  RevocationInv'
  <2>1. CASE Denied /\ to.state # "attached"
    BY <1>6, <2>1 DEF Complete, Denied, RevocationInv, world, files, turn
  <2>2. CASE Granted /\ revoked /\ stopping
    <3>1. revoked' = TRUE /\ revokedAt' = revokedAt
      BY <2>2 DEF Granted
    <3> QED
      BY <1>6, <2>2, <3>1 DEF Complete, RevocationInv, world, files, turn
  <2>3. CASE Granted /\ ~(revoked /\ stopping)
    <3>1. revoked' = FALSE /\ revokedAt' = 0
      BY <2>3 DEF Granted
    <3> QED
      BY <1>0, <1>6, <3>1 DEF Complete, RevocationInv, world, files, turn
  <2> QED
    BY <1>6, <2>1, <2>2, <2>3
<1>7. \A state \in {"paused", "ended", "attached"} :
         /\ [slot EXCEPT !.state = state] \in Slot
         /\ [slot EXCEPT !.state = state].state = state
         /\ [slot EXCEPT !.state = state].inst = slot.inst
  BY <1>0 DEF Slot
<1>8. /\ Unbound \in Slot /\ Unbound.state = "unbound"
      /\ \A i \in Insts : /\ [inst |-> i, state |-> "attached"] \in Slot
                          /\ [inst |-> i, state |-> "attached"].inst # NoInst
  BY DEF Unbound, Slot
<1>9. slot.inst = NoInst => slot.state # "attached"
  BY DEF RevocationInv
<1>10. CASE CompletePause
  BY <1>6, <1>7, <1>10 DEF CompletePause
<1>11. CASE CompleteClose
  BY <1>6, <1>7, <1>11 DEF CompleteClose
<1>12. CASE CompleteDetach
  BY <1>6, <1>8, <1>12 DEF CompleteDetach
<1>13. CASE CompleteArchive
  BY <1>0, <1>6, <1>9, <1>13 DEF CompleteArchive
<1>14. ASSUME NEW i \in Insts, CompleteAttach(i) PROVE RevocationInv'
  BY <1>6, <1>8, <1>14 DEF CompleteAttach
<1>15. CASE Fail
  BY <1>0, <1>6, <1>9, <1>15 DEF Fail
<1>17. CASE FailClose
  BY <1>6, <1>7, <1>17 DEF FailClose
<1>16. CASE Resume
  <2>1. slot.inst # NoInst
    BY <1>16 DEF Resume, TypeOK
  <2> QED
    BY <1>6, <1>7, <1>16, <2>1 DEF Resume
<1> QED
  BY <1>1, <1>2, <1>3, <1>4, <1>5, <1>10, <1>11, <1>12, <1>13, <1>14, <1>15, <1>16,
     <1>17 DEF Lifecycle

LEMMA RevocationStep ==
  TypeOK /\ PermitInv /\ RevocationInv /\ [Next]_vars => RevocationInv'
<1> SUFFICES ASSUME TypeOK, PermitInv, RevocationInv, [Next]_vars PROVE RevocationInv'
  OBVIOUS
<1>1. CASE Tick
  BY <1>1 DEF Tick, TypeOK, RevocationInv, files, turn, app, ghost
<1>2. CASE UNCHANGED vars \/ (\E i \in Insts : GameGone(i))
  BY <1>2 DEF GameGone, vars, RevocationInv, world, files, turn, app, ghost
<1> QED
  BY <1>1, <1>2, RevocationWorker, RevocationSupervise, RevocationLifecycle DEF Next

-------------------------------------------------------------------------------
(***************************************************************************)
(* What holds whatever the configuration                                   *)
(***************************************************************************)

CoreInv == TypeOK /\ HeartbeatInv /\ PermitInv /\ RevocationInv

\* The four invariants that need no assumption on the configuration.
THEOREM CoreCorrect == Spec => []CoreInv
<1>1. Init => CoreInv
  BY TypeInit, HeartbeatInit, PermitInit, RevocationInit DEF CoreInv
<1>2. CoreInv /\ [Next]_vars => CoreInv'
  BY TypeStep, HeartbeatStep, PermitStep, RevocationStep DEF CoreInv
<1> QED
  BY <1>1, <1>2, PTL DEF Spec

LEMMA CoreAuthority == CoreInv => AuthorityFresh
<1> SUFFICES ASSUME CoreInv, NEW w \in Workers, CanDispatch(w)
             PROVE  now < readyAt[w] + Timeout /\ beat[w].state = "running"
  BY DEF AuthorityFresh
<1>1. held[w] \in Permit /\ now \in Nat /\ readyAt[w] \in Nat
  BY DEF CoreInv, TypeOK
<1>2. held[w].worker = w /\ now < held[w].expires
  BY DEF CanDispatch, Permits
<1>3. held[w].expires <= readyAt[w] + Timeout /\ beat[w].state = "running"
  BY <1>2 DEF CoreInv, PermitInv, Sound
<1> QED
  BY <1>1, <1>2, <1>3 DEF Permit

LEMMA CoreRevocation == CoreInv => RevocationBounded
<1> SUFFICES ASSUME CoreInv, revoked
             PROVE  /\ permit.worker = NoWorker
                    /\ \A w \in Workers : CanDispatch(w) => now < revokedAt + Ttl
  BY DEF RevocationBounded
<1>1. permit.worker = NoWorker
  BY DEF CoreInv, RevocationInv
<1>2. ASSUME NEW w \in Workers, CanDispatch(w) PROVE now < revokedAt + Ttl
  <2>1. held[w] \in Permit /\ now \in Nat /\ revokedAt \in Nat
    BY DEF CoreInv, TypeOK
  <2>2. held[w].worker # NoWorker /\ now < held[w].expires
    BY <1>2 DEF CanDispatch, Permits
  <2>3. held[w].expires <= held[w].issued + Ttl /\ held[w].issued <= revokedAt
    BY <2>2 DEF CoreInv, PermitInv, RevocationInv, Sound
  <2> QED
    BY <2>1, <2>2, <2>3 DEF Permit
<1> QED
  BY <1>1, <1>2

LEMMA CoreReplay == CoreInv => NeverReplayed
<1> SUFFICES ASSUME CoreInv, NEW w \in Workers
             PROVE  /\ ~Replayed(beat[w], lastSeen[w])
                    /\ seen[w].seq > 0 => ~Replayed(seen[w], lastSeen[w])
  BY DEF NeverReplayed
<1>1. beat[w] \in Beat /\ seen[w] \in Beat /\ lastSeen[w] \in Beat
  BY DEF CoreInv, TypeOK
<1>2. /\ Follows(beat[w], lastSeen[w])
      /\ seen[w].seq > 0 => Follows(seen[w], lastSeen[w])
  BY DEF CoreInv, HeartbeatInv
<1>3. ASSUME NEW b \in Beat, NEW a \in Beat, Follows(b, a) PROVE ~Replayed(b, a)
  BY <1>3 DEF Follows, Replayed, Beat
<1> QED
  BY <1>1, <1>2, <1>3

\* A worker that may send input has published, within the heartbeat timeout, that it is
\* ready, for every timeout, lifetime and number of workers (_publish_health).
THEOREM AuthorityIsFresh == Spec => []AuthorityFresh
  BY CoreCorrect, CoreAuthority, PTL

\* A revocation holds from the moment it is written, up to the lifetime of a permit a
\* worker has already read (revoke, supervise, revoke_all_workers).
THEOREM RevocationHolds == Spec => []RevocationBounded
  BY CoreCorrect, CoreRevocation, PTL

\* No supervise turn builds a permit that ends before it begins (_publish_health).
THEOREM PermitsWellFormed == Spec => []PermitWellFormed
<1>1. CoreInv => PermitWellFormed
  BY DEF CoreInv, PermitInv, Sound, PermitWellFormed
<1> QED
  BY <1>1, CoreCorrect, PTL

\* Replay detection never rejects what the worker itself has published (_assess).
THEOREM NoFalseReplay == Spec => []NeverReplayed
  BY CoreCorrect, CoreReplay, PTL

-------------------------------------------------------------------------------
(***************************************************************************)
(* One dispatcher                                                          *)
(***************************************************************************)

LEMMA OwnerInit == Init => OwnerInv
  BY NoPermitType DEF Init, OwnerInv, Owns, Blank, IdleTurn

\* A worker that stopped or died never acts again, and time never goes back.
Final == now <= now' /\ \A v \in Workers : Dead(v) => Dead(v)'

LEMMA FinalFrame == TypeOK /\ UNCHANGED <<now, proc, born, beat>> => Final
  BY DEF TypeOK, Final, Dead, Running

LEMMA FinalStep == TypeOK /\ [Next]_vars => Final
<1> SUFFICES ASSUME TypeOK, [Next]_vars PROVE Final
  OBVIOUS
<1>0. now \in Nat
  BY DEF TypeOK
<1>1. ASSUME NEW w \in Workers, Start(w) \/ Exit(w) PROVE Final
  <2>1. now' = now /\ beat' = beat
    BY <1>1 DEF Start, Exit, files
  <2>2. ASSUME NEW v \in Workers, v \in born, ~Running(v) PROVE v \in born' /\ ~Running(v)'
    BY <1>1, <2>2 DEF Start, Exit, Running, TypeOK
  <2> QED
    BY <1>0, <2>1, <2>2 DEF Final, Dead
<1>2. ASSUME NEW w \in Workers, Publishes(w) PROVE Final
  <2>1. PICK state \in RuntimeStates, ready \in BOOLEAN, stop \in BOOLEAN :
          PublishedAs(w, state, ready, stop)
    BY <1>2, HeartbeatKinds
  <2>2. /\ \A v \in Workers : v # w => beat'[v] = beat[v]
        /\ beat[w].state # "stopped" /\ UNCHANGED <<now, proc, born>>
    BY <2>1, PublishedBeat DEF PublishedAs
  <2> QED
    BY <1>0, <2>2 DEF Final, Dead, Running
<1>3. ASSUME NEW w \in Workers, Gate(w) PROVE Final
  BY <1>3, FinalFrame DEF Gate, RefreshGate, FindExpired, world, files
<1>4. CASE Supervise
  BY <1>4, FinalFrame DEF Supervise, SuperviseRegistry, SuperviseSkip, SuperviseWrite,
     SuperviseSlot, SuperviseRead, InspectHealth, SuperviseAssess, world, files
<1>5. CASE Lifecycle
  BY <1>5, FinalFrame DEF Lifecycle, Revoke, AskStop, CompletePause, CompleteClose,
     CompleteDetach, CompleteArchive, CompleteAttach, Fail, FailClose, Resume, Complete, Refresh,
     RevokeAll, Restart, world, files
<1>6. CASE Tick
  BY <1>0, <1>6 DEF Tick, Final, Dead, Running, files
<1>7. CASE UNCHANGED vars \/ (\E i \in Insts : GameGone(i))
  BY <1>7, FinalFrame DEF vars, world, GameGone, files
<1> QED
  BY <1>1, <1>2, <1>3, <1>4, <1>5, <1>6, <1>7 DEF Next, Worker, Publishes

\* An owner of a permit is started and has published.
LEMMA OwnerLives ==
  ASSUME TypeOK, HeartbeatInv, PermitInv, NEW v \in Workers, Owns(v)
  PROVE  v \in born /\ beat[v].seq > 0 /\ beat[v].state \notin {"none", "starting"}
<1>1. beat[v].state \notin {"none", "starting"}
  BY DEF Owns, PermitInv, Sound
<1>2. beat[v] \in Beat /\ BeatOf(v, beat[v])
  BY DEF TypeOK, HeartbeatInv
<1> QED
  BY <1>1, <1>2 DEF BeatOf, Beat

\* Steps that hand out no permit.
LEMMA OwnerKept ==
  ASSUME TypeOK, TypeOK', PermitInv, OwnerInv, Final,
         decision' \in {decision, NoPermit}, permit' \in {permit, NoPermit},
         \A v \in Workers : held'[v] \in {held[v], NoPermit},
         sup'.step = "read" => UNCHANGED <<sup, todo, seen>>
  PROVE  OwnerInv'
<1>0. /\ now \in Nat /\ now' \in Nat /\ decision \in Permit /\ permit \in Permit
      /\ \A v \in Workers : held[v] \in Permit
  BY DEF TypeOK
<1>1. \A p \in Permit : Spent(p) => now' >= p.expires
  BY <1>0 DEF Spent, Final, Permit
<1>2. \A v \in Workers : Owns(v)' => Owns(v)
  BY NoPermitType DEF Owns
<1>3. \A v \in Workers : Dead(v) => Dead(v)'
  BY DEF Final
<1>4. ASSUME NEW w \in Workers, NEW v \in Workers, w # v
      PROVE  /\ decision'.worker = w /\ Owns(v)' => Dead(v)' \/ Spent(decision)'
             /\ permit'.worker = w /\ held'[v].worker = v => Dead(v)' \/ Spent(permit)'
             /\ held'[w].worker = w /\ held'[v].worker = v =>
                  Dead(w)' \/ Dead(v)' \/ Spent(held[w])' \/ Spent(held[v])'
             /\ sup'.step = "read" /\ sup'.attached = w /\ Owns(v)' => Dead(v)'
  <2>1. decision'.worker = w /\ Owns(v)' => Dead(v)' \/ Spent(decision)'
    BY <1>0, <1>1, <1>2, <1>3, <1>4, NoPermitType DEF OwnerInv, Spent
  <2>2. permit'.worker = w /\ held'[v].worker = v => Dead(v)' \/ Spent(permit)'
    BY <1>0, <1>1, <1>3, <1>4, NoPermitType DEF OwnerInv, Spent
  <2>3. held'[w].worker = w /\ held'[v].worker = v =>
          Dead(w)' \/ Dead(v)' \/ Spent(held[w])' \/ Spent(held[v])'
    BY <1>0, <1>1, <1>3, <1>4, NoPermitType DEF OwnerInv, Spent
  <2>4. sup'.step = "read" /\ sup'.attached = w /\ Owns(v)' => Dead(v)'
    BY <1>2, <1>3, <1>4 DEF OwnerInv
  <2> QED
    BY <2>1, <2>2, <2>3, <2>4
<1>5. \A v \in Workers : sup'.step = "read" /\ v \notin todo' /\ Owns(v)' => seen'[v].seq > 0
  BY <1>2 DEF OwnerInv
<1> QED
  BY <1>4, <1>5 DEF OwnerInv

LEMMA OwnerGate ==
  ASSUME TypeOK, TypeOK', PermitInv, OwnerInv, NEW w \in Workers, RefreshGate(w)
  PROVE  OwnerInv'
<1>1. UNCHANGED <<now, proc, born, beat, permit, decision, sup, todo, seen>>
  BY DEF RefreshGate, world, files, turn
<1>2. CASE held' = [held EXCEPT ![w] = permit] /\ permit.worker = w
  <2>1. held'[w] = permit /\ \A v \in Workers : v # w => held'[v] = held[v]
    BY <1>2 DEF TypeOK
  <2>2. \A v \in Workers : Owns(v)' => Owns(v)
    BY <1>1, <1>2, <2>1 DEF Owns
  <2> QED
    BY <1>1, <1>2, <2>1, <2>2 DEF OwnerInv, Dead, Spent, Running
<1>3. CASE Trip(w)
  <2>1. \A v \in Workers : held'[v] \in {held[v], NoPermit}
    BY <1>3 DEF Trip, TypeOK
  <2> QED
    BY <1>1, <2>1, OwnerKept, FinalFrame
<1> QED
  BY <1>2, <1>3 DEF RefreshGate, Permits

LEMMA OwnerSlot ==
  ASSUME TypeOK, TypeOK', HeartbeatInv, PermitInv, OwnerInv,
         NEW a \in Workers \cup {NoWorker}, SuperviseSlot(a)
  PROVE  OwnerInv'
<1>1. /\ UNCHANGED <<now, proc, born, beat, permit, decision, held, seen>>
      /\ todo' = Workers
  BY DEF SuperviseSlot, world, files
<1>2. sup'.attached = a
  BY DEF SuperviseSlot, TypeOK, Turn
<1>3. ASSUME NEW v \in Workers, v # a, a # NoWorker, Owns(v) PROVE Dead(v)
  <2>1. v \in born /\ beat[v].seq > 0
    BY <1>3, OwnerLives
  <2>2. ~(Running(v) /\ beat[v].seq > 0)
    BY <1>3 DEF SuperviseSlot, Attachable
  <2> QED
    BY <2>1, <2>2 DEF Dead
<1>4. \A v \in Workers : (Owns(v)' <=> Owns(v)) /\ (Dead(v)' <=> Dead(v))
  BY <1>1 DEF Owns, Dead, Running
<1> QED
  BY <1>1, <1>2, <1>3, <1>4 DEF OwnerInv, Spent

LEMMA OwnerRead ==
  ASSUME TypeOK, TypeOK', HeartbeatInv, PermitInv, OwnerInv, NEW w \in Workers,
         SuperviseRead(w)
  PROVE  OwnerInv'
<1>1. /\ UNCHANGED <<now, proc, born, beat, permit, decision, held, sup>>
      /\ todo' = todo \ {w} /\ seen'[w] = beat[w]
      /\ \A v \in Workers : v # w => seen'[v] = seen[v]
  BY DEF SuperviseRead, TypeOK, world, files
<1>2. Owns(w) => beat[w].seq > 0
  BY OwnerLives
<1>3. \A v \in Workers : (Owns(v)' <=> Owns(v)) /\ (Dead(v)' <=> Dead(v))
  BY <1>1 DEF Owns, Dead, Running
<1> QED
  BY <1>1, <1>2, <1>3 DEF OwnerInv, Spent

LEMMA OwnerWrite ==
  ASSUME TypeOK, TypeOK', OwnerInv, SuperviseWrite
  PROVE  OwnerInv'
<1>1. /\ UNCHANGED <<now, proc, born, beat, held>>
      /\ permit' = decision /\ decision' = NoPermit /\ sup'.step = "idle"
  BY DEF SuperviseWrite, IdleTurn, world
<1>2. \A v \in Workers : Dead(v)' <=> Dead(v)
  BY <1>1 DEF Dead, Running
<1> QED
  BY <1>1, <1>2, NoPermitType DEF OwnerInv, Spent, Owns

\* The heart of the argument: a worker is allowed only when every earlier owner is dead,
\* or too late to matter.
LEMMA AllowedAlone ==
  ASSUME CoreInv, OwnerInv, Exclusive, NEW failing \in SUBSET Workers,
         SuperviseAssess(failing), NEW w \in Workers, Allowed(w, failing),
         NEW v \in Workers, v # w, Owns(v)
  PROVE  Dead(v) \/ Spent(Allow(w))
<1>1. CASE Managed
  BY <1>1 DEF OwnerInv, Allowed, SuperviseAssess
<1>2. CASE ~InspectorFails /\ Ttl + Ahead <= Tolerance + 1
  <2> SUFFICES ASSUME ~Dead(v) PROVE Spent(Allow(w))
    OBVIOUS
  <2>1. failing = {} /\ sup.step = "read" /\ todo = {}
    BY <1>2 DEF SuperviseAssess
  <2>2. seen[v].seq > 0 /\ sup.inst # NoInst
    BY <2>1 DEF OwnerInv, Allowed, Healthy, Recorded
  <2>3. Running(v)
    BY OwnerLives DEF Dead, CoreInv
  <2>4. ~Replayed(seen[v], lastSeen[v])
    BY <2>2, CoreReplay DEF NeverReplayed
  <2>5. ~Active(v, failing)
    BY DEF Allowed
  <2>6. BeatOf(v, seen[v])
    BY DEF CoreInv, HeartbeatInv
  <2>7. seen[v] \in Beat /\ seen[w] \in Beat /\ sup \in Turn /\ now \in Nat
    BY DEF CoreInv, TypeOK
  <2>8. CASE seen[v].at <= sup.at + Tolerance
    <3>1. seen[v].state \in {"failed", "stopped"} /\ ~seen[v].stop
      BY <2>1, <2>2, <2>3, <2>4, <2>5, <2>8 DEF Active, Recorded, Plausible
    <3> QED
      BY <2>6, <3>1 DEF BeatOf, Dead
  <2>9. CASE ~(seen[v].at <= sup.at + Tolerance)
    <3>1. seen[v].at \in Nat /\ seen[w].at \in Nat /\ sup.at \in Nat
      BY <2>7 DEF Beat, Turn
    <3>2. now >= sup.at + Ttl
      BY <1>2, <2>6, <2>7, <2>9, <3>1 DEF BeatOf
    <3>3. Allow(w).expires <= sup.at + Ttl /\ Allow(w).expires \in Nat
      BY <3>1 DEF Allow, Earlier
    <3> QED
      BY <2>7, <3>1, <3>2, <3>3 DEF Spent
  <2> QED
    BY <2>8, <2>9
<1> QED
  BY <1>1, <1>2 DEF Exclusive

LEMMA OwnerAssess ==
  ASSUME CoreInv, TypeOK', OwnerInv, Exclusive, NEW failing \in SUBSET Workers,
         SuperviseAssess(failing)
  PROVE  OwnerInv'
<1>0. TypeOK /\ PermitInv
  BY DEF CoreInv
<1>1. UNCHANGED <<now, proc, born, beat, permit, held>> /\ sup'.step = "write"
  BY DEF SuperviseAssess, IdleTurn, world, files
<1>2. CASE decision' = NoPermit
  BY <1>0, <1>1, <1>2, OwnerKept, FinalFrame
<1>3. ASSUME NEW w \in Workers, Allowed(w, failing), decision' = Allow(w) PROVE OwnerInv'
  <2>1. Allow(w).worker = w
    BY DEF Allow
  <2>2. \A v \in Workers : v # w /\ Owns(v) => Dead(v) \/ Spent(Allow(w))
    BY <1>3, AllowedAlone
  <2>3. \A v \in Workers : (Owns(v)' <=> Owns(v)) /\ (Dead(v)' <=> Dead(v))
    BY <1>1 DEF Owns, Dead, Running
  <2>4. Spent(Allow(w)) => Spent(decision)'
    BY <1>1, <1>3 DEF Spent
  <2> QED
    BY <1>1, <1>3, <2>1, <2>2, <2>3, <2>4 DEF OwnerInv, Spent
<1> QED
  BY <1>2, <1>3 DEF SuperviseAssess

LEMMA OwnerStep == CoreInv /\ OwnerInv /\ Exclusive /\ [Next]_vars => OwnerInv'
<1> SUFFICES ASSUME CoreInv, OwnerInv, Exclusive, [Next]_vars PROVE OwnerInv'
  OBVIOUS
<1>0. TypeOK /\ HeartbeatInv /\ PermitInv /\ TypeOK' /\ Final
  BY TypeStep, FinalStep DEF CoreInv
<1> USE <1>0
<1>1. ASSUME NEW w \in Workers, Worker(w) PROVE OwnerInv'
  <2>1. UNCHANGED <<permit, decision, sup, todo, seen>>
    BY <1>1 DEF Worker, Start, Exit, PublishStarting, PublishRunning, PublishStopping,
       PublishFailed, PublishStopped, Publish, files, turn
  <2>2. \A v \in Workers : held'[v] \in {held[v], NoPermit}
    BY <1>1 DEF Worker, Start, Exit, PublishStarting, PublishRunning, PublishStopping,
       PublishFailed, PublishStopped, Trip, TypeOK
  <2> QED
    BY <2>1, <2>2, OwnerKept
<1>2. ASSUME NEW w \in Workers, FindExpired(w) PROVE OwnerInv'
  <2>1. UNCHANGED <<permit, decision, sup, todo, seen>>
    BY <1>2 DEF FindExpired, files, turn
  <2>2. \A v \in Workers : held'[v] \in {held[v], NoPermit}
    BY <1>2 DEF FindExpired, Trip, TypeOK
  <2> QED
    BY <2>1, <2>2, OwnerKept
<1>3. ASSUME permit' \in {permit, NoPermit}, decision' \in {decision, NoPermit}, held' = held,
             sup'.step = "read" => UNCHANGED <<sup, todo, seen>>
      PROVE  OwnerInv'
  BY <1>3, OwnerKept
<1>4. CASE SuperviseRegistry \/ SuperviseSkip
  <2>1. sup'.step # "read"
    <3>1. /\ [IdleTurn EXCEPT !.step = "slot", !.games = games].step = "slot"
          /\ IdleTurn.step = "idle"
      BY DEF IdleTurn
    <3> QED
      BY <1>4, <3>1 DEF SuperviseRegistry, SuperviseSkip
  <2> QED
    BY <1>3, <1>4, <2>1 DEF SuperviseRegistry, SuperviseSkip, files
<1>5. CASE Supervise
  <2>1. ASSUME NEW w \in Workers, InspectHealth(w) PROVE OwnerInv'
    BY <1>3, <2>1 DEF InspectHealth, files
  <2> QED
    BY <1>4, <1>5, <2>1, OwnerSlot, OwnerRead, OwnerAssess, OwnerWrite DEF Supervise
<1>6. CASE Restart
  <2>1. sup'.step = "idle"
    BY <1>6 DEF Restart, IdleTurn
  <2> QED
    BY <1>3, <1>6, <2>1 DEF Restart, files
<1>7. CASE Revoke \/ AskStop \/ Refresh \/ RevokeAll
  BY <1>3, <1>7 DEF Revoke, AskStop, Refresh, RevokeAll, files, turn
<1>8. ASSUME NEW to, Complete(to) PROVE OwnerInv'
  BY <1>3, <1>8 DEF Complete, files, turn
<1>9. CASE Lifecycle
  BY <1>6, <1>7, <1>8, <1>9 DEF Lifecycle, CompletePause, CompleteClose,
     CompleteDetach, CompleteArchive, CompleteAttach, Fail, FailClose, Resume
<1>10. CASE Tick \/ UNCHANGED vars \/ (\E i \in Insts : GameGone(i))
  BY <1>3, <1>10 DEF Tick, GameGone, vars, world, files, turn
<1> QED
  BY <1>1, <1>2, <1>5, <1>9, <1>10, OwnerGate DEF Next, Gate

\* With the controller's attachment required, as the manager runs, or with a process
\* inspector that always answers and a future tolerance no shorter than a permit's life,
\* two workers of a slot never may send input at the same time (_assess, inspect).
THEOREM DispatcherUnique == Exclusive /\ Spec => []OneDispatcher
<1> SUFFICES ASSUME Exclusive PROVE Spec => []OneDispatcher
  OBVIOUS
<1>1. Init => CoreInv /\ OwnerInv
  BY TypeInit, HeartbeatInit, PermitInit, RevocationInit, OwnerInit DEF CoreInv
<1>2. CoreInv /\ OwnerInv /\ [Next]_vars => CoreInv' /\ OwnerInv'
  BY TypeStep, HeartbeatStep, PermitStep, RevocationStep, OwnerStep DEF CoreInv
<1>3. CoreInv /\ OwnerInv => OneDispatcher
  <2> SUFFICES ASSUME CoreInv, OwnerInv, NEW w \in Workers, NEW v \in Workers, w # v,
                      CanDispatch(w), CanDispatch(v)
               PROVE  FALSE
    BY DEF OneDispatcher
  <2>1. held[w] \in Permit /\ held[v] \in Permit /\ now \in Nat
    BY DEF CoreInv, TypeOK
  <2>2. /\ Running(w) /\ held[w].worker = w /\ now < held[w].expires
        /\ Running(v) /\ held[v].worker = v /\ now < held[v].expires
    BY DEF CanDispatch, Permits
  <2>3. beat[w].state = "running" /\ beat[v].state = "running"
    BY <2>2 DEF CoreInv, PermitInv
  <2>4. ~Dead(w) /\ ~Dead(v)
    BY <2>2, <2>3 DEF Dead
  <2>5. ~Spent(held[w]) /\ ~Spent(held[v])
    BY <2>1, <2>2 DEF Spent, Permit
  <2> QED
    BY <2>2, <2>4, <2>5 DEF OwnerInv
<1> QED
  BY <1>1, <1>2, <1>3, PTL DEF Spec
=================================================================================
