-------------------------- MODULE WorkerLaunchProofs --------------------------
(***************************************************************************)
(* WorkerLaunch's safety properties for any number of slots, workers and   *)
(* controllers.                                                            *)
(*                                                                         *)
(* LaunchInv is inductive.  OneLiveWorker follows from ReservedInv: every  *)
(* launched worker that is alive is the one its slot's reservation names.  *)
(* That needs to know that a reservation is only given up on evidence of   *)
(* exit (EvidenceInv: a heartbeat rules out an interpreter that has not    *)
(* begun) and that nobody else writes it in a transaction (HolderInv).     *)
(***************************************************************************)
EXTENDS WorkerLaunch, TLAPS

LEMMA LaunchInitially == Init => LaunchInv
<1> SUFFICES ASSUME Init PROVE LaunchInv
  OBVIOUS
<1> USE LaunchAssumption DEF Init
<1>1. TypeOK
  BY DEF TypeOK, Reservations, NoReservation, Lives, NoTx, Transactions, Labels, NoLook
<1>2. EvidenceInv
  BY DEF EvidenceInv
<1>3. ReservedInv
  BY DEF ReservedInv, ReservedAt, NoReservation, Launched, Alive
<1>4. HolderInv
  BY DEF HolderInv, HolderAt, NoTx, NoReservation
<1> QED BY <1>1, <1>2, <1>3, <1>4 DEF LaunchInv

\* What a move of the transaction of slot s leaves alone.
Elsewhere(s) ==
  /\ tx' \in [Slots -> Transactions]
  /\ \A u \in Slots : u # s => tx'[u] = tx[u]

\* The transaction of slot s is at label l, about worker w.
At(s, l, w) ==
  /\ tx'[s].at = l /\ tx'[s].worker = w
  /\ tx'[s].live = tx[s].live /\ tx'[s].host = tx[s].host

LEMMA LeaveMoves ==
  ASSUME TypeOK, NEW s \in Slots, Leave(s)
  PROVE  Elsewhere(s) /\ tx'[s] = NoTx
<1>1. NoTx \in Transactions
  BY DEF NoTx, Transactions, Labels
<1> QED BY <1>1 DEF TypeOK, Leave, Elsewhere

LEMMA GotoMoves ==
  ASSUME TypeOK, NEW s \in Slots, NEW l \in Labels, NEW w \in Workers \cup {None}, Goto(s, l, w)
  PROVE  /\ Elsewhere(s)
         /\ At(s, l, w)
<1>1. ASSUME NEW t \in Transactions
      PROVE  [t EXCEPT !.at = l, !.worker = w] \in Transactions
  BY DEF Transactions
<1>2. tx[s] \in Transactions /\ tx' = [tx EXCEPT ![s] = [tx[s] EXCEPT !.at = l, !.worker = w]]
  BY DEF TypeOK, Goto
<1>3. [tx[s] EXCEPT !.at = l, !.worker = w] \in Transactions
  BY <1>1, <1>2
<1>4. ASSUME NEW t \in Transactions, tx' = [tx EXCEPT ![s] = t]
      PROVE  tx'[s] = t /\ Elsewhere(s)
  BY <1>4 DEF TypeOK, Elsewhere
<1>5. tx'[s] = [tx[s] EXCEPT !.at = l, !.worker = w] /\ Elsewhere(s)
  BY <1>2, <1>3, <1>4
<1>6. ASSUME NEW t \in Transactions, NEW v, v = [t EXCEPT !.at = l, !.worker = w]
      PROVE  v.at = l /\ v.worker = w /\ v.live = t.live /\ v.host = t.host
  BY <1>6 DEF Transactions
<1> QED BY <1>2, <1>5, <1>6 DEF At

LEMMA ResolvedMoves ==
  ASSUME TypeOK, NEW s \in Slots, Resolved(s)
  PROVE  /\ Elsewhere(s)
         /\ \/ tx'[s] = NoTx
            \/ At(s, "records", None)
<1>1. "records" \in Labels
  BY DEF Labels
<1> QED BY <1>1, LeaveMoves, GotoMoves DEF Resolved

\* Publishing or removing the reservation of slot s.
LEMMA ReservationWritten ==
  ASSUME TypeOK, NEW s \in Slots, NEW r \in Reservations,
         reservation' = [reservation EXCEPT ![s] = r]
  PROVE  /\ reservation' \in [Slots -> Reservations] /\ reservation'[s] = r
         /\ \A u \in Slots : u # s => reservation'[u] = reservation[u]
  BY DEF TypeOK

LEMMA ReservationForms ==
  /\ NoReservation \in Reservations
  /\ NoReservation.worker = None /\ NoReservation.phase = "absent"
  /\ \A r \in Reservations : r # NoReservation =>
        /\ r.worker \in Workers /\ r.phase \in {"launching", "unverified", "started"}
        /\ r = [worker |-> r.worker, phase |-> r.phase]
  /\ \A w \in Workers, p \in {"launching", "unverified", "started"} :
        [worker |-> w, phase |-> p] \in Reservations
  BY LaunchAssumption DEF Reservations, NoReservation

\* The worker of a transaction, where it has one.
LEMMA HolderKnows ==
  ASSUME LaunchInv, NEW s \in Slots,
         tx[s].at \in {"reuse", "popen", "unverified", "await", "attach", "resolved", "departed"}
  PROVE  tx[s].worker \in Workers /\ SlotOf[tx[s].worker] = s
<1>1. HolderAt(s) /\ reservation[s] \in Reservations
  BY DEF LaunchInv, HolderInv, TypeOK
<1>2. reservation[s] # NoReservation => SlotOf[reservation[s].worker] = s
  BY DEF LaunchInv, ReservedInv, ReservedAt
<1> QED BY <1>1, <1>2, ReservationForms DEF HolderAt

\* What the outcomes of a handshake show about the worker.
LEMMA HandshakeShows ==
  ASSUME LaunchInv, NEW h \in Hosts \cup {None}, NEW w \in Workers, proc[w] # "none"
  PROVE  /\ h \in Hosts /\ InspectRecovery(h, w) = "process" => heartbeat[w] # "none"
         /\ InspectRecovery(h, w) = "exited" => proc[w] = "gone"
  BY DEF LaunchInv, TypeOK, EvidenceInv, InspectRecovery, ChildRuns, Interpreted, Lives

\* A reservation that is given up names no worker that is alive.
LEMMA ReservedStays ==
  ASSUME LaunchInv, NEW s \in Slots, UNCHANGED <<heartbeat, stop, proc>>,
         \A u \in Slots : u # s => reservation'[u] = reservation[u],
         \/ reservation'[s].worker = reservation[s].worker
         \/ \A w \in Launched : w = reservation[s].worker => ~Alive(w),
         ReservedAt(s)'
  PROVE  ReservedInv'
<1>1. ASSUME NEW w \in Launched, Alive(w)' PROVE reservation'[SlotOf[w]].worker = w
  BY <1>1, LaunchAssumption DEF LaunchInv, ReservedInv, Launched, Alive
<1>2. ASSUME NEW u \in Slots, u # s PROVE ReservedAt(u)'
  BY <1>2 DEF LaunchInv, ReservedInv, ReservedAt
<1> QED BY <1>1, <1>2 DEF ReservedInv

\* A heartbeat rules out a worker that has not begun.
LEMMA ExitShown ==
  ASSUME LaunchInv, NEW w \in Workers, heartbeat[w] # "none", ~Interpreted(w)
  PROVE  ~Alive(w)
  BY DEF LaunchInv, EvidenceInv, Interpreted, Alive

\* A reservation is written with a worker, or removed.
LEMMA Writes ==
  ASSUME LaunchInv, NEW s \in Slots, NEW w \in Workers,
         NEW p \in {"launching", "unverified", "started"},
         reservation' = [reservation EXCEPT ![s] = [worker |-> w, phase |-> p]]
  PROVE  /\ reservation' \in [Slots -> Reservations]
         /\ reservation'[s] = [worker |-> w, phase |-> p]
         /\ \A u \in Slots : u # s => reservation'[u] = reservation[u]
  BY ReservationForms, ReservationWritten DEF LaunchInv

LEMMA Removes ==
  ASSUME LaunchInv, NEW s \in Slots,
         reservation' = [reservation EXCEPT ![s] = NoReservation]
  PROVE  /\ reservation' \in [Slots -> Reservations]
         /\ reservation'[s] = NoReservation
         /\ \A u \in Slots : u # s => reservation'[u] = reservation[u]
  BY ReservationForms, ReservationWritten DEF LaunchInv

\* Transactions of other slots know what they knew.
LEMMA OthersKnow ==
  ASSUME LaunchInv, NEW s \in Slots, Elsewhere(s), heartbeat' = heartbeat,
         \A u \in Slots : u # s => reservation'[u] = reservation[u],
         \A w \in Workers : SlotOf[w] # s => proc'[w] = proc[w],
         NEW u \in Slots, u # s
  PROVE  HolderAt(u)'
<1> USE DEF Elsewhere
<1>1. /\ HolderAt(u) /\ reservation[u] \in Reservations /\ tx[u] \in Transactions
      /\ reservation[u] # NoReservation => SlotOf[reservation[u].worker] = u
  BY DEF LaunchInv, HolderInv, TypeOK, ReservedInv, ReservedAt
<1>2. ASSUME tx[u].at \in {"popen", "unverified", "await", "attach", "resolved", "departed"}
      PROVE  proc'[tx[u].worker] = proc[tx[u].worker]
  BY <1>1, <1>2 DEF HolderAt, Reservations, NoReservation
<1> QED BY <1>1, <1>2 DEF HolderAt

\* Steps of the worker processes.
LEMMA WorkerKeeps ==
  ASSUME LaunchInv, NEW w \in Workers, WorkerStep(w)
  PROVE  LaunchInv'
<1> USE LaunchAssumption DEF LaunchInv
<1>1. TypeOK'
  <2>1. proc' \in [Workers -> Lives] /\ heartbeat' \in [Workers -> {"none", "up", "down"}]
    BY DEF TypeOK, Lives, WorkerStep, StartExternal, StartInterpreter, ProcessExit,
           PublishHeartbeat, files
  <2>2. UNCHANGED <<reservation, stop, memory, tx, look, launcher, faults>>
    BY DEF WorkerStep, StartExternal, StartInterpreter, ProcessExit, PublishHeartbeat, files
  <2> QED BY <2>1, <2>2 DEF TypeOK, memory
<1>2. EvidenceInv'
  BY DEF TypeOK, Lives, EvidenceInv, HolderInv, HolderAt, WorkerStep, StartExternal,
     StartInterpreter, ProcessExit, PublishHeartbeat, Interpreted, files, memory
<1>3. ReservedInv'
  BY ReservationForms DEF TypeOK, ReservedInv, ReservedAt, HolderInv, HolderAt, EvidenceInv,
         Launched, Alive, WorkerStep, StartExternal, StartInterpreter, ProcessExit,
         PublishHeartbeat, Interpreted, files, memory
<1>4. HolderInv'
  <2>1. /\ UNCHANGED <<reservation, tx>>
        /\ \A v \in Workers : heartbeat[v] # "none" => heartbeat'[v] # "none"
        /\ \A v \in Workers : proc[v] # "none" => proc'[v] # "none"
        /\ \A v \in Workers : proc[v] = "gone" => proc'[v] = "gone"
        /\ \A v \in Launched : proc[v] = "none" => proc'[v] = "none"
    BY DEF TypeOK, Launched, WorkerStep, StartExternal, StartInterpreter, ProcessExit,
           PublishHeartbeat, files
  <2>2. ASSUME NEW s \in Slots PROVE HolderAt(s)'
    <3>1. HolderAt(s) /\ ReservedAt(s) /\ tx[s] \in Transactions
      BY DEF HolderInv, ReservedInv, TypeOK
    <3>2. tx[s].live \subseteq Workers
      BY <3>1 DEF Transactions
    <3>3. ASSUME tx[s].at \in {"popen", "unverified", "await", "attach", "resolved", "departed"}
          PROVE  tx[s].worker \in Launched
      BY <3>1, <3>3 DEF HolderAt, ReservedAt
    <3>4. Launched \subseteq Workers
      BY DEF Launched
    <3> QED BY <2>1, <3>1, <3>2, <3>3, <3>4 DEF HolderAt
  <2> QED BY <2>2 DEF HolderInv
<1> QED BY <1>1, <1>2, <1>3, <1>4

\* Taking the lock.
LEMMA BeginKeeps ==
  ASSUME LaunchInv, NEW s \in Slots, NEW h \in Hosts, NEW op \in Ops, NEW i \in Instances, Begin(s, h, op, i)
  PROVE  LaunchInv'
<1> USE LaunchAssumption DEF LaunchInv
<1>1. TypeOK'
  BY DEF TypeOK, Lives, NoTx, Transactions, Labels, Ops, NoLook, Begin, files, memory
<1>2. EvidenceInv'
  BY DEF TypeOK, Lives, EvidenceInv, HolderInv, HolderAt, Begin, files, memory
<1>3. ReservedInv'
  BY ReservationForms DEF TypeOK, ReservedInv, ReservedAt, HolderInv, HolderAt, EvidenceInv,
         Launched, Alive, Begin, files, memory
<1>4. HolderInv'
  BY DEF TypeOK, Reservations, Transactions, Labels, NoReservation, NoTx, ReservedInv,
         HolderInv, HolderAt, EvidenceInv, Launched, Begin, files, memory
<1> QED BY <1>1, <1>2, <1>3, <1>4

\* The reserved worker is known to have exited.
LEMMA RetireExitedKeeps ==
  ASSUME LaunchInv, NEW s \in Slots, RetireExited(s)
  PROVE  LaunchInv'
<1> USE LaunchAssumption DEF LaunchInv
<1>0. Elsewhere(s) /\ (tx'[s] = NoTx \/ At(s, "records", None))
  BY ResolvedMoves DEF RetireExited
<1>a. /\ reservation' \in [Slots -> Reservations]
      /\ \A u \in Slots : u # s => reservation'[u] = reservation[u]
      /\ reservation'[s] = NoReservation
  BY HolderKnows, ReservationForms, ReservationWritten DEF TypeOK, RetireExited, Departed,
     Interpreted, Acknowledge, files, memory
<1>1. TypeOK'
  BY <1>0, <1>a, HolderKnows DEF TypeOK, Elsewhere, Lives, RetireExited, Departed,
     Interpreted, Acknowledge, files, memory
<1>2. EvidenceInv'
  BY HolderKnows DEF TypeOK, Lives, EvidenceInv, HolderInv, HolderAt, RetireExited,
     Departed, Interpreted, Acknowledge, files, memory
<1>3. ReservedInv'
  BY <1>a, <1>1, HolderKnows, ReservationForms DEF TypeOK, ReservedInv, ReservedAt,
     HolderInv, HolderAt,
     EvidenceInv, Launched, Alive, RetireExited, Departed, Interpreted, Acknowledge, files,
     memory
<1>4. HolderAt(s)'
  BY <1>0, <1>a, <1>1, HolderKnows, ReservationForms DEF TypeOK, NoTx, ReservedInv,
     ReservedAt, HolderInv,
     HolderAt, At, EvidenceInv, Launched, RetireExited, Departed, Interpreted, Acknowledge,
     files, memory
<1>5. heartbeat' = heartbeat /\ \A w \in Workers : SlotOf[w] # s => proc'[w] = proc[w]
  BY HolderKnows DEF TypeOK, RetireExited, Departed, Interpreted, Acknowledge, files, memory
<1>6. ASSUME NEW u \in Slots, u # s PROVE HolderAt(u)'
  BY <1>0, <1>a, <1>5, <1>6, OthersKnow
<1> QED BY <1>1, <1>2, <1>3, <1>4, <1>6 DEF HolderInv

\* One attempt at the handshake.
LEMMA RecoverKeeps ==
  ASSUME LaunchInv, NEW s \in Slots, Recover(s)
  PROVE  LaunchInv'
<1> USE LaunchAssumption DEF LaunchInv
<1>0. /\ Elsewhere(s)
      /\ \/ tx'[s] = NoTx
         \/ At(s, "records", None) /\ reservation[s].phase \in {"absent", "started"}
         \/ /\ reservation[s].phase = "unverified"
            /\ \/ /\ At(s, "resolved", reservation[s].worker)
                  /\ InspectRecovery(tx[s].host, reservation[s].worker) = "process"
               \/ /\ At(s, "departed", reservation[s].worker)
                  /\ InspectRecovery(tx[s].host, reservation[s].worker) = "exited"
  BY ResolvedMoves, LeaveMoves, GotoMoves DEF Recover, TypeOK, Reservations, NoReservation,
     Labels
<1>a. /\ reservation' \in [Slots -> Reservations]
      /\ \A u \in Slots : u # s => reservation'[u] = reservation[u]
      /\ reservation'[s] = reservation[s]
  BY HolderKnows, ReservationForms, ReservationWritten DEF TypeOK, Recover,
     InspectRecovery, Departed, Interpreted, ChildRuns, files, memory
<1>1. TypeOK'
  BY <1>0, <1>a, HolderKnows DEF TypeOK, Elsewhere, Lives, Recover, InspectRecovery,
     Departed, Interpreted, ChildRuns, files, memory
<1>2. EvidenceInv'
  BY HolderKnows DEF TypeOK, Lives, EvidenceInv, HolderInv, HolderAt, Recover,
     InspectRecovery, Departed, Interpreted, ChildRuns, files, memory
<1>3. ReservedInv'
  BY <1>a, <1>1, HolderKnows, ReservationForms DEF TypeOK, ReservedInv, ReservedAt,
     HolderInv, HolderAt,
     EvidenceInv, Launched, Alive, Recover, InspectRecovery, Departed, Interpreted,
     ChildRuns, files, memory
<1>4. HolderAt(s)'
  <2>1. UNCHANGED <<files, proc>>
    BY DEF Recover
  <2>2. ASSUME reservation[s].phase = "unverified"
        PROVE  /\ reservation[s].worker \in Workers /\ proc[reservation[s].worker] # "none"
               /\ reservation[s] = [worker |-> reservation[s].worker, phase |-> "unverified"]
               /\ tx[s].host \in Hosts
    BY <2>2, ReservationForms DEF ReservedInv, ReservedAt, TypeOK, Recover, HolderInv,
       HolderAt
  <2>3. ASSUME reservation[s].phase = "unverified"
        PROVE  LET w == reservation[s].worker
               IN  /\ InspectRecovery(tx[s].host, w) = "process" => heartbeat[w] # "none"
                   /\ InspectRecovery(tx[s].host, w) = "exited" => proc[w] = "gone"
    BY <2>2, <2>3, HandshakeShows
  <2>4. HolderAt(s) /\ tx[s].at = "recover"
    BY DEF HolderInv, Recover
  <2> QED BY <1>0, <2>1, <2>2, <2>3, <2>4 DEF HolderAt, At, NoTx, files
<1>5. heartbeat' = heartbeat /\ \A w \in Workers : SlotOf[w] # s => proc'[w] = proc[w]
  BY HolderKnows DEF TypeOK, Recover, InspectRecovery, Departed, Interpreted, ChildRuns,
     files, memory
<1>6. ASSUME NEW u \in Slots, u # s PROVE HolderAt(u)'
  BY <1>0, <1>a, <1>5, <1>6, OthersKnow
<1> QED BY <1>1, <1>2, <1>3, <1>4, <1>6 DEF HolderInv

\* The result of the handshake is recorded.
LEMMA ResolveKeeps ==
  ASSUME LaunchInv, NEW s \in Slots, Resolve(s)
  PROVE  LaunchInv'
<1> USE LaunchAssumption DEF LaunchInv
<1>0. Elsewhere(s) /\ (tx'[s] = NoTx \/ At(s, "records", None))
  BY ResolvedMoves DEF Resolve
<1>a. /\ reservation' \in [Slots -> Reservations]
      /\ \A u \in Slots : u # s => reservation'[u] = reservation[u]
      /\ \/ /\ tx[s].at = "resolved"
            /\ reservation'[s] = [worker |-> tx[s].worker, phase |-> "started"]
         \/ tx[s].at = "departed" /\ reservation'[s] = NoReservation
  <2>1. CASE tx[s].at = "resolved"
    <3>1. /\ tx[s].worker \in Workers
          /\ reservation' = [reservation EXCEPT ![s] =
                                [worker |-> tx[s].worker, phase |-> "started"]]
      BY <2>1, HolderKnows DEF Resolve
    <3> QED BY <2>1, <3>1, Writes
  <2>2. CASE tx[s].at = "departed"
    <3>1. reservation' = [reservation EXCEPT ![s] = NoReservation]
      BY <2>2 DEF Resolve
    <3> QED BY <2>2, <3>1, Removes
  <2> QED BY <2>1, <2>2 DEF Resolve
<1>1. TypeOK'
  BY <1>0, <1>a, HolderKnows DEF TypeOK, Elsewhere, Lives, Resolve, Acknowledge, files,
     memory
<1>2. EvidenceInv'
  BY HolderKnows DEF TypeOK, Lives, EvidenceInv, HolderInv, HolderAt, Resolve, Acknowledge,
     files, memory
<1>3. ReservedInv'
  <2>1. HolderAt(s) /\ UNCHANGED <<heartbeat, stop, proc>>
    BY DEF HolderInv, Resolve
  <2>2. ReservedAt(s)'
    BY <1>a, <2>1, HolderKnows, ReservationForms DEF ReservedAt, HolderAt
  <2> QED BY <1>a, <2>1, <2>2, ReservedStays DEF HolderAt, Alive
<1>4. HolderAt(s)'
  BY <1>0, <1>a, <1>1, HolderKnows, ReservationForms DEF TypeOK, NoTx, ReservedInv,
     ReservedAt, HolderInv,
     HolderAt, At, EvidenceInv, Launched, Resolve, Acknowledge, files, memory
<1>5. heartbeat' = heartbeat /\ \A w \in Workers : SlotOf[w] # s => proc'[w] = proc[w]
  BY HolderKnows DEF TypeOK, Resolve, Acknowledge, files, memory
<1>6. ASSUME NEW u \in Slots, u # s PROVE HolderAt(u)'
  BY <1>0, <1>a, <1>5, <1>6, OthersKnow
<1> QED BY <1>1, <1>2, <1>3, <1>4, <1>6 DEF HolderInv

\* A running worker is attached.
LEMMA ReuseKeeps ==
  ASSUME LaunchInv, NEW s \in Slots, Reuse(s)
  PROVE  LaunchInv'
<1> USE LaunchAssumption DEF LaunchInv
<1>0. Elsewhere(s) /\ tx'[s] = NoTx
  BY LeaveMoves DEF Reuse
<1>a. /\ reservation' \in [Slots -> Reservations]
      /\ \A u \in Slots : u # s => reservation'[u] = reservation[u]
      /\ \/ reservation' = reservation
         \/ /\ MayReuse(s, tx[s].worker)
            /\ reservation'[s] = [worker |-> tx[s].worker, phase |-> "started"]
  <2>1. CASE /\ MayReuse(s, tx[s].worker)
             /\ reservation' = [reservation EXCEPT ![s] =
                                   [worker |-> tx[s].worker, phase |-> "started"]]
    <3>1. tx[s].worker \in Workers
      BY HolderKnows DEF Reuse
    <3> QED BY <2>1, <3>1, Writes
  <2>2. CASE reservation' = reservation
    BY <2>2 DEF TypeOK
  <2> QED BY <2>1, <2>2 DEF Reuse
<1>1. TypeOK'
  BY <1>0, <1>a, HolderKnows DEF TypeOK, Elsewhere, Lives, Reuse, MayReuse, LiveRecords,
     Interpreted, Acknowledge, files, memory
<1>2. EvidenceInv'
  BY HolderKnows DEF TypeOK, Lives, EvidenceInv, HolderInv, HolderAt, Reuse, MayReuse,
     LiveRecords, Interpreted, Acknowledge, files, memory
<1>3. ReservedInv'
  <2>1. HolderAt(s) /\ UNCHANGED <<heartbeat, stop, proc>> /\ tx[s].at = "reuse"
    BY DEF HolderInv, Reuse
  <2>2. ReservedAt(s)'
    BY <1>a, <2>1, HolderKnows, ReservationForms DEF ReservedAt, HolderAt, ReservedInv
  <2>3. ASSUME MayReuse(s, tx[s].worker), NEW w \in Launched, w = reservation[s].worker,
               w # tx[s].worker
        PROVE  ~Alive(w)
    <3>1. reservation[s].phase = "started" /\ ~Interpreted(w)
      BY <2>3, ReservationForms DEF MayReuse, Launched
    <3> QED BY <2>3, <3>1, ExitShown DEF ReservedInv, ReservedAt, Launched
  <2> QED BY <1>a, <2>1, <2>2, <2>3, ReservedStays
<1>4. HolderAt(s)'
  BY <1>0, <1>a, <1>1, HolderKnows, ReservationForms DEF TypeOK, NoTx, ReservedInv,
     ReservedAt, HolderInv,
     HolderAt, At, EvidenceInv, Launched, Reuse, MayReuse, LiveRecords, Interpreted,
     Acknowledge, files, memory
<1>5. heartbeat' = heartbeat /\ \A w \in Workers : SlotOf[w] # s => proc'[w] = proc[w]
  BY HolderKnows DEF TypeOK, Reuse, MayReuse, LiveRecords, Interpreted, Acknowledge, files,
     memory
<1>6. ASSUME NEW u \in Slots, u # s PROVE HolderAt(u)'
  BY <1>0, <1>a, <1>5, <1>6, OthersKnow
<1> QED BY <1>1, <1>2, <1>3, <1>4, <1>6 DEF HolderInv

\* A reservation of an exited worker is removed.
LEMMA CheckReservedKeeps ==
  ASSUME LaunchInv, NEW s \in Slots, CheckReserved(s)
  PROVE  LaunchInv'
<1> USE LaunchAssumption DEF LaunchInv
<1>0. /\ Elsewhere(s)
      /\ tx'[s] = NoTx \/ (At(s, "reserve", None) /\ reservation'[s] = NoReservation)
  BY LeaveMoves, GotoMoves DEF CheckReserved, Labels, TypeOK
<1>a. /\ reservation' \in [Slots -> Reservations]
      /\ \A u \in Slots : u # s => reservation'[u] = reservation[u]
      /\ \/ reservation'[s] = reservation[s]
         \/ /\ reservation'[s] = NoReservation
            /\ reservation[s].phase = "started" /\ ~Interpreted(reservation[s].worker)
  BY HolderKnows, ReservationForms, ReservationWritten DEF TypeOK, CheckReserved,
     Interpreted, files, memory
<1>1. TypeOK'
  BY <1>0, <1>a, HolderKnows DEF TypeOK, Elsewhere, Lives, CheckReserved, Interpreted,
     files, memory
<1>2. EvidenceInv'
  BY HolderKnows DEF TypeOK, Lives, EvidenceInv, HolderInv, HolderAt, CheckReserved,
     Interpreted, files, memory
<1>3. ReservedInv'
  <2>1. UNCHANGED <<heartbeat, stop, proc>>
    BY DEF CheckReserved
  <2>2. ReservedAt(s)'
    BY <1>a, <2>1, ReservationForms DEF ReservedAt, ReservedInv
  <2>3. ASSUME reservation[s].phase = "started", ~Interpreted(reservation[s].worker),
               NEW w \in Launched, w = reservation[s].worker
        PROVE  ~Alive(w)
    BY <2>3, ExitShown DEF ReservedInv, ReservedAt, Launched
  <2> QED BY <1>a, <2>1, <2>2, <2>3, ReservedStays
<1>4. HolderAt(s)'
  BY <1>0, <1>a, <1>1, HolderKnows, ReservationForms DEF TypeOK, NoTx, ReservedInv,
     ReservedAt, HolderInv,
     HolderAt, At, EvidenceInv, Launched, CheckReserved, Interpreted, files, memory
<1>5. heartbeat' = heartbeat /\ \A w \in Workers : SlotOf[w] # s => proc'[w] = proc[w]
  BY HolderKnows DEF TypeOK, CheckReserved, Interpreted, files, memory
<1>6. ASSUME NEW u \in Slots, u # s PROVE HolderAt(u)'
  BY <1>0, <1>a, <1>5, <1>6, OthersKnow
<1> QED BY <1>1, <1>2, <1>3, <1>4, <1>6 DEF HolderInv

\* The reservation is written.
LEMMA ReserveKeeps ==
  ASSUME LaunchInv, NEW s \in Slots, Reserve(s)
  PROVE  LaunchInv'
<1> USE LaunchAssumption DEF LaunchInv
<1>0. /\ Elsewhere(s)
      /\ \/ tx'[s] = NoTx
         \/ \E w \in Workers : /\ Unused(w) /\ At(s, "popen", w)
                               /\ reservation'[s] = [worker |-> w, phase |-> "launching"]
  BY LeaveMoves, GotoMoves DEF Reserve, Labels, TypeOK
<1>a. /\ reservation' \in [Slots -> Reservations]
      /\ \A u \in Slots : u # s => reservation'[u] = reservation[u]
      /\ \/ reservation' = reservation
         \/ \E w \in Workers : /\ Unused(w) /\ SlotOf[w] = s
                               /\ reservation'[s] = [worker |-> w, phase |-> "launching"]
  BY Writes DEF Reserve, TypeOK
<1>1. TypeOK'
  BY <1>0, <1>a, HolderKnows DEF TypeOK, Elsewhere, Lives, Reserve, Unused, files, memory
<1>2. EvidenceInv'
  BY HolderKnows DEF TypeOK, Lives, EvidenceInv, HolderInv, HolderAt, Reserve, Unused,
     files, memory
<1>3. ReservedInv'
  <2>1. reservation[s] = NoReservation /\ UNCHANGED <<heartbeat, stop, proc>>
    BY DEF HolderInv, HolderAt, Reserve
  <2>2. ASSUME NEW w \in Workers, Unused(w) PROVE w \in Launched \ stop
    BY <2>2 DEF Unused, Launched, EvidenceInv
  <2>3. ReservedAt(s)'
    BY <1>a, <2>1, <2>2, ReservationForms DEF ReservedAt, ReservedInv
  <2> QED BY <1>a, <2>1, <2>3, ReservedStays, ReservationForms DEF Launched
<1>4. HolderAt(s)'
  BY <1>0, <1>a, <1>1, HolderKnows, ReservationForms DEF TypeOK, NoTx, ReservedInv,
     ReservedAt, HolderInv,
     HolderAt, At, EvidenceInv, Launched, Reserve, Unused, files, memory
<1>5. heartbeat' = heartbeat /\ \A w \in Workers : SlotOf[w] # s => proc'[w] = proc[w]
  BY HolderKnows DEF TypeOK, Reserve, Unused, files, memory
<1>6. ASSUME NEW u \in Slots, u # s PROVE HolderAt(u)'
  BY <1>0, <1>a, <1>5, <1>6, OthersKnow
<1> QED BY <1>1, <1>2, <1>3, <1>4, <1>6 DEF HolderInv

\* The process is created.
LEMMA PopenKeeps ==
  ASSUME LaunchInv, NEW s \in Slots, Popen(s)
  PROVE  LaunchInv'
<1> USE LaunchAssumption DEF LaunchInv
<1>0. /\ Elsewhere(s)
      /\ \/ tx'[s] = NoTx
         \/ /\ At(s, "unverified", tx[s].worker) /\ reservation' = reservation
            /\ proc'[tx[s].worker] = "child"
  BY LeaveMoves, GotoMoves, HolderKnows DEF Popen, Labels, TypeOK
<1>a. /\ reservation' \in [Slots -> Reservations]
      /\ \A u \in Slots : u # s => reservation'[u] = reservation[u]
      /\ \/ reservation' = reservation
         \/ reservation'[s] = NoReservation /\ proc' = proc
  BY Removes DEF Popen, TypeOK
<1>1. TypeOK'
  <2>1. proc' \in [Workers -> Lives] /\ launcher' \in [Workers -> Hosts \cup {None}]
    <3>1. tx[s].worker \in Workers /\ tx[s].host \in Hosts
      BY HolderKnows DEF Popen, HolderInv, HolderAt
    <3>2. proc' = proc \/ proc' = [proc EXCEPT ![tx[s].worker] = "child"]
      BY DEF Popen
    <3>3. launcher' = launcher \/ launcher' = [launcher EXCEPT ![tx[s].worker] = tx[s].host]
      BY DEF Popen
    <3>4. proc' \in [Workers -> Lives]
      BY <3>2 DEF TypeOK, Lives
    <3>5. launcher' \in [Workers -> Hosts \cup {None}]
      BY <3>1, <3>3 DEF TypeOK
    <3> QED BY <3>4, <3>5
  <2>2. /\ children' \in [Hosts -> SUBSET Workers] /\ verified' \in [Hosts -> SUBSET Workers]
        /\ durable' \in [Hosts -> SUBSET Workers]
    <3>1. tx[s].worker \in Workers /\ tx[s].host \in Hosts
      BY HolderKnows DEF Popen, HolderInv, HolderAt
    <3>2. Finished(tx[s].host) \subseteq Workers
      BY <3>1 DEF TypeOK, Finished
    <3>3. /\ children \in [Hosts -> SUBSET Workers] /\ verified \in [Hosts -> SUBSET Workers]
          /\ durable \in [Hosts -> SUBSET Workers]
      BY DEF TypeOK
    <3>4. UNCHANGED memory \/ Keep(tx[s].host, tx[s].worker)
      BY DEF Popen
    <3> QED BY <3>1, <3>2, <3>3, <3>4 DEF Keep, memory
  <2> QED BY <1>0, <1>a, <2>1, <2>2 DEF TypeOK, Elsewhere, Popen
<1>2. EvidenceInv'
  <2> DEFINE w == tx[s].worker
             h == tx[s].host
  <2>1. w \in Workers /\ h \in Hosts /\ proc[w] = "none" /\ UNCHANGED <<heartbeat, stop>>
    BY HolderKnows DEF Popen, HolderInv, HolderAt
  <2>2. heartbeat[w] = "none"
    BY <2>1 DEF EvidenceInv
  <2>3. CASE UNCHANGED <<proc, memory>>
    BY <2>1, <2>3 DEF EvidenceInv, memory
  <2>4. CASE proc' = [proc EXCEPT ![w] = "child"] /\ Keep(h, w)
    <3>1. \A k \in Hosts : children'[k] \subseteq children[k] \cup {w}
                          /\ verified'[k] \subseteq verified[k]
      BY <2>1, <2>4 DEF Keep, TypeOK
    <3>2. \A v \in Workers : v # w => proc'[v] = proc[v]
      BY <2>4 DEF TypeOK
    <3>3. proc'[w] # "none" /\ children \in [Hosts -> SUBSET Workers]
      BY <2>1, <2>4 DEF TypeOK
    <3> QED BY <2>1, <2>2, <3>1, <3>2, <3>3 DEF EvidenceInv
  <2> QED BY <2>3, <2>4 DEF Popen
<1>3. ReservedInv'
  <2> DEFINE w == tx[s].worker
  <2>1. /\ w \in Workers /\ SlotOf[w] = s /\ proc[w] = "none"
        /\ reservation[s] = [worker |-> w, phase |-> "launching"]
        /\ UNCHANGED <<heartbeat, stop>>
    BY HolderKnows DEF Popen, HolderInv, HolderAt
  <2>2. CASE reservation' = reservation
    <3>1. \A v \in Workers : v # w => proc'[v] = proc[v]
      BY DEF Popen, TypeOK
    <3>2. ASSUME NEW v \in Launched, Alive(v)' PROVE reservation'[SlotOf[v]].worker = v
      BY <2>1, <2>2, <3>1, <3>2 DEF ReservedInv, Launched, Alive
    <3>3. ASSUME NEW u \in Slots PROVE ReservedAt(u)'
      <4>1. ReservedAt(u) /\ reservation[u] \in Reservations
        BY DEF ReservedInv, TypeOK
      <4> QED BY <2>1, <2>2, <3>1, <4>1, ReservationForms DEF ReservedAt
    <3> QED BY <3>2, <3>3 DEF ReservedInv
  <2>3. CASE reservation'[s] = NoReservation /\ proc' = proc
    <3>1. ReservedAt(s)'
      BY <2>3, ReservationForms DEF ReservedAt
    <3> QED BY <1>a, <2>1, <2>3, <3>1, ReservedStays DEF Alive
  <2> QED BY <1>a, <2>2, <2>3
<1>4. HolderAt(s)'
  BY <1>0, <1>a, <1>1, HolderKnows, ReservationForms DEF TypeOK, NoTx, ReservedInv,
     ReservedAt, HolderInv,
     HolderAt, At, EvidenceInv, Launched, Popen, Keep, Finished, ChildRuns, files, memory
<1>5. heartbeat' = heartbeat /\ \A w \in Workers : SlotOf[w] # s => proc'[w] = proc[w]
  BY HolderKnows DEF TypeOK, Popen, Keep, Finished, ChildRuns, files, memory
<1>6. ASSUME NEW u \in Slots, u # s PROVE HolderAt(u)'
  BY <1>0, <1>a, <1>5, <1>6, OthersKnow
<1> QED BY <1>1, <1>2, <1>3, <1>4, <1>6 DEF HolderInv

\* The PID is recorded.
LEMMA PublishUnverifiedKeeps ==
  ASSUME LaunchInv, NEW s \in Slots, PublishUnverified(s)
  PROVE  LaunchInv'
<1> USE LaunchAssumption DEF LaunchInv
<1>0. Elsewhere(s) /\ At(s, "await", tx[s].worker)
  BY LeaveMoves, GotoMoves, HolderKnows DEF PublishUnverified, Labels
<1>a. /\ reservation' \in [Slots -> Reservations]
      /\ \A u \in Slots : u # s => reservation'[u] = reservation[u]
      /\ reservation'[s] = [worker |-> tx[s].worker, phase |-> "unverified"]
  BY HolderKnows, ReservationForms, ReservationWritten DEF TypeOK, PublishUnverified,
     files, memory
<1>1. TypeOK'
  BY <1>0, <1>a, HolderKnows DEF TypeOK, Elsewhere, Lives, PublishUnverified, files, memory
<1>2. EvidenceInv'
  BY HolderKnows DEF TypeOK, Lives, EvidenceInv, HolderInv, HolderAt, PublishUnverified,
     files, memory
<1>3. ReservedInv'
  BY <1>a, <1>1, HolderKnows, ReservationForms DEF TypeOK, ReservedInv, ReservedAt,
     HolderInv, HolderAt,
     EvidenceInv, Launched, Alive, PublishUnverified, files, memory
<1>4. HolderAt(s)'
  BY <1>0, <1>a, <1>1, HolderKnows, ReservationForms DEF TypeOK, NoTx, ReservedInv,
     ReservedAt, HolderInv,
     HolderAt, At, EvidenceInv, Launched, PublishUnverified, files, memory
<1>5. heartbeat' = heartbeat /\ \A w \in Workers : SlotOf[w] # s => proc'[w] = proc[w]
  BY HolderKnows DEF TypeOK, PublishUnverified, files, memory
<1>6. ASSUME NEW u \in Slots, u # s PROVE HolderAt(u)'
  BY <1>0, <1>a, <1>5, <1>6, OthersKnow
<1> QED BY <1>1, <1>2, <1>3, <1>4, <1>6 DEF HolderInv

\* The first handshake.
LEMMA AwaitKeeps ==
  ASSUME LaunchInv, NEW s \in Slots, Await(s)
  PROVE  LaunchInv'
<1> USE LaunchAssumption DEF LaunchInv
<1>0. /\ Elsewhere(s)
      /\ \/ tx'[s] = NoTx
         \/ /\ At(s, "attach", tx[s].worker)
            /\ InspectRecovery(tx[s].host, tx[s].worker) = "process"
  BY LeaveMoves, GotoMoves, HolderKnows DEF Await, Labels
<1>a. /\ reservation' \in [Slots -> Reservations]
      /\ \A u \in Slots : u # s => reservation'[u] = reservation[u]
      /\ reservation'[s] = reservation[s]
  BY HolderKnows, ReservationForms, ReservationWritten DEF TypeOK, Await, InspectRecovery,
     Interpreted, ChildRuns, files, memory
<1>1. TypeOK'
  BY <1>0, <1>a, HolderKnows DEF TypeOK, Elsewhere, Lives, Await, InspectRecovery,
     Interpreted, ChildRuns, files, memory
<1>2. EvidenceInv'
  BY HolderKnows DEF TypeOK, Lives, EvidenceInv, HolderInv, HolderAt, Await,
     InspectRecovery, Interpreted, ChildRuns, files, memory
<1>3. ReservedInv'
  BY <1>a, <1>1, HolderKnows, ReservationForms DEF TypeOK, ReservedInv, ReservedAt,
     HolderInv, HolderAt,
     EvidenceInv, Launched, Alive, Await, InspectRecovery, Interpreted, ChildRuns, files,
     memory
<1>4. HolderAt(s)'
  <2>1. UNCHANGED <<files, proc>> /\ HolderAt(s) /\ tx[s].at = "await"
    BY DEF Await, HolderInv
  <2>2. tx[s].worker \in Workers /\ proc[tx[s].worker] # "none" /\ tx[s].host \in Hosts
    BY <2>1, HolderKnows DEF ReservedInv, ReservedAt, TypeOK, HolderAt
  <2>3. InspectRecovery(tx[s].host, tx[s].worker) = "process" => heartbeat[tx[s].worker] # "none"
    BY <2>2, HandshakeShows
  <2> QED BY <1>0, <2>1, <2>3 DEF HolderAt, At, NoTx, files
<1>5. heartbeat' = heartbeat /\ \A w \in Workers : SlotOf[w] # s => proc'[w] = proc[w]
  BY HolderKnows DEF TypeOK, Await, InspectRecovery, Interpreted, ChildRuns, files, memory
<1>6. ASSUME NEW u \in Slots, u # s PROVE HolderAt(u)'
  BY <1>0, <1>a, <1>5, <1>6, OthersKnow
<1> QED BY <1>1, <1>2, <1>3, <1>4, <1>6 DEF HolderInv

\* The launch is complete.
LEMMA AttachKeeps ==
  ASSUME LaunchInv, NEW s \in Slots, Attach(s)
  PROVE  LaunchInv'
<1> USE LaunchAssumption DEF LaunchInv
<1>0. Elsewhere(s) /\ tx'[s] = NoTx
  BY LeaveMoves, GotoMoves DEF Attach
<1>a. /\ reservation' \in [Slots -> Reservations]
      /\ \A u \in Slots : u # s => reservation'[u] = reservation[u]
      /\ reservation'[s] = [worker |-> tx[s].worker, phase |-> "started"]
  BY HolderKnows, Writes DEF Attach
<1>1. TypeOK'
  BY <1>0, <1>a, HolderKnows DEF TypeOK, Elsewhere, Lives, Attach, Acknowledge, files,
     memory
<1>2. EvidenceInv'
  BY HolderKnows DEF TypeOK, Lives, EvidenceInv, HolderInv, HolderAt, Attach, Acknowledge,
     files, memory
<1>3. ReservedInv'
  BY <1>a, <1>1, HolderKnows, ReservationForms DEF TypeOK, ReservedInv, ReservedAt,
     HolderInv, HolderAt,
     EvidenceInv, Launched, Alive, Attach, Acknowledge, files, memory
<1>4. HolderAt(s)'
  BY <1>0, <1>a, <1>1, HolderKnows, ReservationForms DEF TypeOK, NoTx, ReservedInv,
     ReservedAt, HolderInv,
     HolderAt, At, EvidenceInv, Launched, Attach, Acknowledge, files, memory
<1>5. heartbeat' = heartbeat /\ \A w \in Workers : SlotOf[w] # s => proc'[w] = proc[w]
  BY HolderKnows DEF TypeOK, Attach, Acknowledge, files, memory
<1>6. ASSUME NEW u \in Slots, u # s PROVE HolderAt(u)'
  BY <1>0, <1>a, <1>5, <1>6, OthersKnow
<1> QED BY <1>1, <1>2, <1>3, <1>4, <1>6 DEF HolderInv

\* A step raises.
LEMMA FailKeeps ==
  ASSUME LaunchInv, NEW s \in Slots, Fail(s)
  PROVE  LaunchInv'
<1> USE LaunchAssumption DEF LaunchInv
<1>0. Elsewhere(s) /\ tx'[s] = NoTx
  BY LeaveMoves, GotoMoves DEF Fail
<1>a. /\ reservation' \in [Slots -> Reservations]
      /\ \A u \in Slots : u # s => reservation'[u] = reservation[u]
      /\ reservation'[s] = reservation[s]
  BY HolderKnows, ReservationForms, ReservationWritten DEF TypeOK, Fail, files, memory
<1>1. TypeOK'
  BY <1>0, <1>a, HolderKnows DEF TypeOK, Elsewhere, Lives, Fail, files, memory
<1>2. EvidenceInv'
  BY HolderKnows DEF TypeOK, Lives, EvidenceInv, HolderInv, HolderAt, Fail, files, memory
<1>3. ReservedInv'
  BY <1>a, <1>1, HolderKnows, ReservationForms DEF TypeOK, ReservedInv, ReservedAt,
     HolderInv, HolderAt,
     EvidenceInv, Launched, Alive, Fail, files, memory
<1>4. HolderAt(s)'
  BY <1>0, <1>a, <1>1, HolderKnows, ReservationForms DEF TypeOK, NoTx, ReservedInv,
     ReservedAt, HolderInv,
     HolderAt, At, EvidenceInv, Launched, Fail, files, memory
<1>5. heartbeat' = heartbeat /\ \A w \in Workers : SlotOf[w] # s => proc'[w] = proc[w]
  BY HolderKnows DEF TypeOK, Fail, files, memory
<1>6. ASSUME NEW u \in Slots, u # s PROVE HolderAt(u)'
  BY <1>0, <1>a, <1>5, <1>6, OthersKnow
<1> QED BY <1>1, <1>2, <1>3, <1>4, <1>6 DEF HolderInv

\* The heartbeats are read.
LEMMA ReadRecordsKeeps ==
  ASSUME LaunchInv, NEW s \in Slots, ReadRecords(s)
  PROVE  LaunchInv'
<1> USE LaunchAssumption DEF LaunchInv
<1>0. /\ Elsewhere(s)
      /\ \/ tx'[s] = NoTx
         \/ At(s, "check", None)
         \/ \E w \in LiveRecords(s) : At(s, "reuse", w)
         \/ /\ tx'[s].at = "stops" /\ tx'[s].live \subseteq LiveRecords(s)
            /\ tx'[s].host = tx[s].host
  <2>1. ASSUME NEW L \in SUBSET LiveRecords(s),
               tx' = [tx EXCEPT ![s].at = "stops", ![s].live = L]
        PROVE  /\ Elsewhere(s) /\ tx'[s].at = "stops" /\ tx'[s].live = L
               /\ tx'[s].host = tx[s].host
    <3>1. tx[s] \in Transactions /\ L \subseteq Workers
      BY DEF TypeOK, LiveRecords
    <3>2. ASSUME NEW t \in Transactions, NEW v, v = [t EXCEPT !.at = "stops", !.live = L]
          PROVE  v \in Transactions /\ v.at = "stops" /\ v.live = L /\ v.host = t.host
      BY <3>1, <3>2 DEF Transactions, Labels
    <3>3. ASSUME NEW t \in Transactions, tx' = [tx EXCEPT ![s] = t]
          PROVE  tx'[s] = t /\ Elsewhere(s)
      BY <3>3 DEF TypeOK, Elsewhere
    <3>4. tx' = [tx EXCEPT ![s] = [tx[s] EXCEPT !.at = "stops", !.live = L]]
      BY <2>1
    <3> QED BY <3>1, <3>2, <3>3, <3>4
  <2>2. /\ Leave(s) => Elsewhere(s) /\ tx'[s] = NoTx
        /\ Goto(s, "check", None) => Elsewhere(s) /\ At(s, "check", None)
        /\ \A w \in LiveRecords(s) : Goto(s, "reuse", w) => Elsewhere(s) /\ At(s, "reuse", w)
    BY LeaveMoves, GotoMoves DEF Labels, LiveRecords
  <2> QED BY <2>1, <2>2 DEF ReadRecords
<1>1. UNCHANGED <<files, proc, memory, look, launcher, faults>>
  BY DEF ReadRecords
<1>2. TypeOK'
  BY <1>0, <1>1 DEF TypeOK, Elsewhere, files, memory
<1>3. EvidenceInv' /\ ReservedInv'
  BY <1>1 DEF EvidenceInv, ReservedInv, ReservedAt, Alive, files, memory
<1>4. HolderAt(s)'
  <2>1. HolderAt(s) /\ tx[s].at = "records"
    BY DEF HolderInv, ReadRecords
  <2> QED BY <1>0, <1>1, <2>1 DEF HolderAt, At, NoTx, LiveRecords, files
<1>5. ASSUME NEW u \in Slots, u # s PROVE HolderAt(u)'
  BY <1>0, <1>1, <1>5, OthersKnow DEF files
<1> QED BY <1>2, <1>3, <1>4, <1>5 DEF HolderInv

\* Stop requests are published.
LEMMA RequestStopKeeps ==
  ASSUME LaunchInv, NEW s \in Slots, RequestStop(s)
  PROVE  LaunchInv'
<1> USE LaunchAssumption DEF LaunchInv
<1>0. /\ Elsewhere(s)
      /\ \/ tx'[s] = NoTx
         \/ /\ tx'[s].at = "stops" /\ tx'[s].live \subseteq tx[s].live
            /\ tx'[s].host = tx[s].host
  <2>1. ASSUME NEW w \in tx[s].live, tx' = [tx EXCEPT ![s].live = @ \ {w}]
        PROVE  /\ Elsewhere(s) /\ tx'[s].at = "stops" /\ tx'[s].live \subseteq tx[s].live
               /\ tx'[s].host = tx[s].host
    <3>1. tx[s] \in Transactions /\ tx[s].at = "stops"
      BY DEF TypeOK, RequestStop
    <3>2. ASSUME NEW t \in Transactions, NEW v, v = [t EXCEPT !.live = @ \ {w}]
          PROVE  v \in Transactions /\ v.at = t.at /\ v.live \subseteq t.live /\ v.host = t.host
      BY <3>2 DEF Transactions
    <3>3. ASSUME NEW t \in Transactions, tx' = [tx EXCEPT ![s] = t]
          PROVE  tx'[s] = t /\ Elsewhere(s)
      BY <3>3 DEF TypeOK, Elsewhere
    <3>4. tx' = [tx EXCEPT ![s] = [tx[s] EXCEPT !.live = @ \ {w}]]
      BY <2>1
    <3> QED BY <3>1, <3>2, <3>3, <3>4
  <2> QED BY <2>1, LeaveMoves DEF RequestStop
<1>1. /\ UNCHANGED <<reservation, heartbeat, proc, memory, look, launcher, faults>>
      /\ \A w \in stop' : w \in stop \/ w \in tx[s].live
  BY DEF RequestStop
<1>a. HolderAt(s) /\ tx[s].at = "stops" /\ tx[s] \in Transactions
  BY DEF HolderInv, RequestStop, TypeOK
<1>b. tx[s].live \subseteq Workers
  BY <1>a DEF Transactions
<1>2. TypeOK'
  BY <1>0, <1>1, <1>b DEF TypeOK, Elsewhere, memory
<1>3. EvidenceInv'
  BY <1>1, <1>a DEF EvidenceInv, HolderAt, memory
<1>c. ReservedInv'
  <2>1. ASSUME NEW u \in Slots PROVE ReservedAt(u)'
    <3>1. ReservedAt(u) /\ reservation[u] \in Reservations
      BY DEF ReservedInv, TypeOK
    <3>2. ASSUME reservation[u].phase \in {"launching", "unverified"}
          PROVE  reservation[u].worker \notin tx[s].live
      BY <3>1, <3>2, <1>a, ReservationForms DEF ReservedAt, HolderAt
    <3> QED BY <1>1, <3>1, <3>2 DEF ReservedAt
  <2> QED BY <2>1, <1>1 DEF ReservedInv, Alive
<1>4. HolderAt(s)'
  BY <1>0, <1>1, <1>a DEF HolderAt, NoTx
<1>5. ASSUME NEW u \in Slots, u # s PROVE HolderAt(u)'
  BY <1>0, <1>1, <1>5, OthersKnow
<1> QED BY <1>2, <1>3, <1>c, <1>4, <1>5 DEF HolderInv

\* A host dies.
LEMMA CrashKeeps ==
  ASSUME LaunchInv, NEW h \in Hosts, Crash(h)
  PROVE  LaunchInv'
<1> USE LaunchAssumption DEF LaunchInv
<1>1. TypeOK'
  BY DEF TypeOK, Lives, NoTx, Transactions, Labels, Ops, NoLook, Crash, files, memory
<1>2. EvidenceInv'
  BY DEF TypeOK, Lives, EvidenceInv, HolderInv, HolderAt, Crash, files, memory
<1>3. ReservedInv'
  BY ReservationForms DEF TypeOK, ReservedInv, ReservedAt, HolderInv, HolderAt, EvidenceInv,
         Launched, Alive, Crash, files, memory
<1>4. HolderInv'
  BY DEF TypeOK, Reservations, Transactions, Labels, NoReservation, NoTx, ReservedInv,
         HolderInv, HolderAt, EvidenceInv, Launched, Crash, files, memory
<1> QED BY <1>1, <1>2, <1>3, <1>4

\* The inspection writes nothing.
LEMMA LookKeeps ==
  ASSUME LaunchInv, (\E s \in Slots : LookReservation(s)) \/ LookRecords \/ LookProcess
         \/ LookAgain
  PROVE  LaunchInv'
<1> USE LaunchAssumption DEF LaunchInv
<1>1. TypeOK'
  <2>1. look' \in [at: {"idle", "reserved", "checked", "again", "attached"},
                  worker: Workers \cup {None}]
    BY ReservationForms
    DEF TypeOK, LookReservation, LookRecords, LookProcess, LookAgain, NoLook
  <2>2. UNCHANGED <<files, proc, memory, tx, launcher, faults>>
    BY DEF LookReservation, LookRecords, LookProcess, LookAgain
  <2> QED BY <2>1, <2>2 DEF TypeOK, files, memory
<1>2. EvidenceInv'
  BY DEF TypeOK, Lives, EvidenceInv, HolderInv, HolderAt, LookReservation, LookRecords,
     LookProcess, LookAgain, Interpreted, files, memory
<1>3. ReservedInv'
  BY ReservationForms DEF TypeOK, ReservedInv, ReservedAt, HolderInv, HolderAt, EvidenceInv,
         Launched, Alive, LookReservation, LookRecords, LookProcess, LookAgain, Interpreted, files,
         memory
<1>4. HolderInv'
  BY DEF TypeOK, Reservations, Transactions, Labels, NoReservation, NoTx, ReservedInv,
         HolderInv, HolderAt, EvidenceInv, Launched, LookReservation, LookRecords,
         LookProcess, LookAgain, Interpreted, files, memory
<1> QED BY <1>1, <1>2, <1>3, <1>4

\* LaunchInv holds in every reachable state.
LEMMA LaunchNext == LaunchInv /\ [Next]_vars => LaunchInv'
<1> SUFFICES ASSUME LaunchInv, [Next]_vars PROVE LaunchInv'
  OBVIOUS
<1>1. ASSUME NEW w \in Workers, WorkerStep(w) PROVE LaunchInv'
  BY <1>1, WorkerKeeps
<1>2. ASSUME NEW s \in Slots, NEW h \in Hosts, NEW op \in Ops, NEW i \in Instances,
             Begin(s, h, op, i)
      PROVE  LaunchInv'
  BY <1>2, BeginKeeps
<1>3. ASSUME NEW s \in Slots, Step(s) PROVE LaunchInv'
  BY <1>3, RetireExitedKeeps, RecoverKeeps, ResolveKeeps, ReadRecordsKeeps,
     RequestStopKeeps,
     ReuseKeeps, CheckReservedKeeps, ReserveKeeps, PopenKeeps, PublishUnverifiedKeeps,
     AwaitKeeps, AttachKeeps
  DEF Step
<1>4. ASSUME NEW s \in Slots, Fail(s) \/ LookReservation(s) PROVE LaunchInv'
  BY <1>4, FailKeeps, LookKeeps
<1>5. ASSUME NEW h \in Hosts, Crash(h) PROVE LaunchInv'
  BY <1>5, CrashKeeps
<1>6. ASSUME LookRecords \/ LookProcess \/ LookAgain PROVE LaunchInv'
  BY <1>6, LookKeeps
<1>7. CASE UNCHANGED vars
  BY <1>7 DEF vars, files, memory, LaunchInv, TypeOK, EvidenceInv, ReservedInv, ReservedAt,
     HolderInv,
              HolderAt, Alive, Launched
<1> QED
  BY <1>1, <1>2, <1>3, <1>4, <1>5, <1>6, <1>7 DEF Next

(***************************************************************************)
(* The type invariant and the three parts of LaunchInv, for every number   *)
(* of slots, workers, hosts and faults.                                    *)
(***************************************************************************)
THEOREM LaunchCorrect == Spec => []LaunchInv
  BY LaunchInitially, LaunchNext, PTL DEF Spec

\* ManagedWorkerController never lets two launched workers of a slot run.
THEOREM LaunchesOneWorker == Spec => []OneLiveWorker
<1>1. LaunchInv => OneLiveWorker
  BY DEF LaunchInv, ReservedInv, ReservedAt, OneLiveWorker
<1> QED BY <1>1, LaunchCorrect, PTL

\* Where the reservations are written, and what is known there.
LEMMA ReservationChanges ==
  ASSUME LaunchInv, [Next]_vars, NEW s \in Slots, reservation'[s] # reservation[s]
  PROVE  \/ RetireExited(s) \/ Resolve(s) \/ Reuse(s) \/ CheckReserved(s) \/ Reserve(s)
         \/ Popen(s) \/ PublishUnverified(s) \/ Attach(s)
<1> USE DEF LaunchInv
<1>1. ASSUME NEW u \in Slots, u # s,
             \E r : reservation' = [reservation EXCEPT ![u] = r]
      PROVE  FALSE
  BY <1>1 DEF TypeOK
<1>2. reservation' # reservation
  OBVIOUS
<1>3. ASSUME NEW u \in Slots, Step(u)
      PROVE  \/ RetireExited(u) \/ Resolve(u) \/ Reuse(u) \/ CheckReserved(u) \/ Reserve(u)
             \/ Popen(u) \/ PublishUnverified(u) \/ Attach(u)
  BY <1>2, <1>3 DEF Step, Recover, ReadRecords, RequestStop, Await, files
<1>4. ASSUME NEW u \in Slots,
             \/ RetireExited(u) \/ Resolve(u) \/ Reuse(u) \/ CheckReserved(u) \/ Reserve(u)
             \/ Popen(u) \/ PublishUnverified(u) \/ Attach(u)
      PROVE  \E r : reservation' = [reservation EXCEPT ![u] = r]
  BY <1>2, <1>4 DEF RetireExited, Resolve, Reuse, CheckReserved, Reserve, Popen,
                    PublishUnverified, Attach
<1>5. \E u \in Slots : Step(u)
  BY <1>2 DEF Next, WorkerStep, StartExternal, StartInterpreter, ProcessExit,
     PublishHeartbeat,
              Begin, Fail, Crash, LookReservation, LookRecords, LookProcess, LookAgain, vars, files
<1> QED BY <1>1, <1>3, <1>4, <1>5

(***************************************************************************)
(* A reservation leaves a worker only when its interpreter has ended or    *)
(* never began, for every number of slots, workers, hosts and faults.      *)
(***************************************************************************)
THEOREM ReservationIsKept == Spec => OwnedUntilExit
<1>1. ASSUME LaunchInv, [Next]_vars, NEW s \in Slots,
             reservation[s].worker # None, reservation'[s].worker # reservation[s].worker
      PROVE  ~Alive(reservation[s].worker)
  <2> DEFINE w == reservation[s].worker
  <2> USE <1>1 DEF LaunchInv
  <2>1. /\ w \in Workers /\ reservation[s] \in Reservations /\ reservation[s] # NoReservation
        /\ HolderAt(s) /\ ReservedAt(s)
    BY ReservationForms DEF TypeOK, HolderInv, ReservedInv
  <2>2. CASE RetireExited(s)
    BY <2>1, <2>2, ExitShown DEF RetireExited, Departed
  <2>3. CASE Resolve(s) \/ PublishUnverified(s) \/ Attach(s)
    <3>1. CASE tx[s].at = "departed"
      BY <2>1, <3>1 DEF HolderAt, Alive
    <3>2. CASE tx[s].at # "departed"
      <4>1. w = tx[s].worker
        BY <2>1, <2>3, <3>2 DEF HolderAt, Resolve, PublishUnverified, Attach
      <4>2. \E p \in {"unverified", "started"} :
              reservation' = [reservation EXCEPT ![s] = [worker |-> w, phase |-> p]]
        BY <2>3, <3>2, <4>1 DEF Resolve, PublishUnverified, Attach
      <4> QED BY <2>1, <4>2, Writes
    <3> QED BY <3>1, <3>2
  <2>4. CASE Reuse(s)
    <3>1. reservation' # reservation
      BY <2>1
    <3>2. /\ MayReuse(s, tx[s].worker)
          /\ tx[s].worker \in Workers
          /\ reservation' = [reservation EXCEPT ![s] =
                                [worker |-> tx[s].worker, phase |-> "started"]]
      BY <2>4, <3>1, HolderKnows DEF Reuse
    <3>3. w # tx[s].worker
      BY <3>2, Writes
    <3>4. reservation[s].phase = "started" /\ ~Interpreted(w)
      BY <2>1, <3>2, <3>3 DEF MayReuse
    <3> QED BY <2>1, <3>4, ExitShown DEF ReservedAt
  <2>5. CASE CheckReserved(s)
    <3>1. reservation[s].phase = "started" /\ ~Interpreted(w)
      BY <2>1, <2>5 DEF CheckReserved
    <3> QED BY <2>1, <3>1, ExitShown DEF ReservedAt
  <2>6. CASE Reserve(s)
    BY <2>1, <2>6 DEF Reserve, HolderAt
  <2>7. CASE Popen(s)
    BY <2>1, <2>7 DEF Popen, HolderAt, Alive
  <2> QED BY <2>2, <2>3, <2>4, <2>5, <2>6, <2>7, ReservationChanges
<1>2. LaunchInv /\ [Next]_vars =>
        [\A s \in Slots :
            LET w == reservation[s].worker
            IN  w # None /\ reservation'[s].worker # w => ~Alive(w)]_vars
  BY <1>1
<1> QED BY <1>2, LaunchCorrect, PTL DEF Spec, OwnedUntilExit

(***************************************************************************)
(* When ATTACHED is answered, no launched worker of the slot but the named *)
(* one runs or may start, although inspect_activation reads files and      *)
(* processes one after the other without the lock, and the worker may end  *)
(* and be replaced between any two of the readings.                        *)
(***************************************************************************)
THEOREM AttachedIsAlone == Spec => AttachedAlone
<1>1. ASSUME LaunchInv, [Next]_vars, look.at # "attached", look'.at = "attached"
      PROVE  \A v \in Launched \ {look'.worker} :
                    SlotOf[v] = SlotOf[look'.worker] => ~Alive(v)
  <2>1. look' # look /\ look.at # "attached"
    BY <1>1
  <2>2. LookAgain
    <3>1. CASE \E s \in Slots : LookReservation(s)
      BY <1>1, <3>1 DEF LookReservation
    <3>2. CASE LookRecords \/ LookProcess
      BY <1>1, <3>2 DEF LookRecords, LookProcess, NoLook, LaunchInv, TypeOK
    <3> QED
      BY <1>1, <2>1, <3>1, <3>2
      DEF Next, WorkerStep, StartExternal, StartInterpreter, ProcessExit, PublishHeartbeat,
          Begin, Step, RetireExited, Recover, Resolve, ReadRecords, RequestStop, Reuse,
          CheckReserved, Reserve, Popen, PublishUnverified, Await, Attach, Fail, Crash, vars
  <2>3. /\ look'.worker = look.worker
        /\ reservation[SlotOf[look.worker]] = [worker |-> look.worker, phase |-> "started"]
    BY <1>1, <2>2 DEF LookAgain, NoLook, LaunchInv, TypeOK
  <2> QED BY <1>1, <2>3 DEF LaunchInv, ReservedInv
<1>2. LaunchInv /\ [Next]_vars =>
        [look.at # "attached" /\ look'.at = "attached"
          => \A v \in Launched \ {look'.worker} :
                SlotOf[v] = SlotOf[look'.worker] => ~Alive(v)]_vars
  BY <1>1
<1> QED BY <1>2, LaunchCorrect, PTL DEF Spec, AttachedAlone

(***************************************************************************)
(* No transaction attaches a worker that was asked to stop.                *)
(***************************************************************************)
THEOREM StopIsFinal == Spec => StoppedNotAttached
<1>1. ASSUME LaunchInv, [Next]_vars, NEW s \in Slots,
             reservation'[s].phase = "started", reservation[s] # reservation'[s]
      PROVE  reservation'[s].worker \notin stop
  <2> USE <1>1 DEF LaunchInv
  <2>1. HolderAt(s) /\ ReservedAt(s)
    BY DEF HolderInv, ReservedInv
  <2>2. CASE (Resolve(s) /\ tx[s].at = "resolved") \/ Attach(s)
    <3>1. /\ tx[s].worker \in Workers
          /\ reservation' = [reservation EXCEPT ![s] =
                                [worker |-> tx[s].worker, phase |-> "started"]]
      BY <2>2, HolderKnows DEF Resolve, Attach
    <3>2. tx[s].worker \notin stop
      BY <2>1, <2>2 DEF HolderAt, ReservedAt, Attach
    <3> QED BY <3>1, <3>2, Writes
  <2>3. CASE Reuse(s)
    <3>1. /\ MayReuse(s, tx[s].worker) /\ tx[s].worker \in Workers
          /\ reservation' = [reservation EXCEPT ![s] =
                                [worker |-> tx[s].worker, phase |-> "started"]]
      BY <2>3, HolderKnows DEF Reuse
    <3> QED BY <3>1, Writes DEF MayReuse
  <2>4. CASE RetireExited(s) \/ CheckReserved(s) \/ (Resolve(s) /\ tx[s].at = "departed")
    <3>1. reservation' = [reservation EXCEPT ![s] = NoReservation]
      BY <2>4 DEF RetireExited, CheckReserved, Resolve
    <3> QED BY <3>1, Removes, ReservationForms
  <2>5. CASE Popen(s)
    <3>1. reservation' = [reservation EXCEPT ![s] = NoReservation]
      BY <2>5 DEF Popen
    <3> QED BY <3>1, Removes, ReservationForms
  <2>6. CASE Reserve(s) \/ PublishUnverified(s)
    <3>1. \E w \in Workers, p \in {"launching", "unverified"} :
            reservation' = [reservation EXCEPT ![s] = [worker |-> w, phase |-> p]]
      BY <2>6, HolderKnows DEF Reserve, PublishUnverified
    <3> QED BY <3>1, Writes
  <2>7. Resolve(s) => tx[s].at \in {"resolved", "departed"}
    BY DEF Resolve
  <2> QED BY <2>2, <2>3, <2>4, <2>5, <2>6, <2>7, ReservationChanges
<1>2. LaunchInv /\ [Next]_vars =>
        [\A s \in Slots :
            LET w == reservation'[s].worker
            IN  reservation'[s].phase = "started" /\ reservation[s] # reservation'[s]
                    => w \notin stop]_vars
  BY <1>1
<1> QED BY <1>2, LaunchCorrect, PTL DEF Spec, StoppedNotAttached

================================================================================
