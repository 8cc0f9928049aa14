------------------------- MODULE OperationLedgerProofs -------------------------
(***************************************************************************)
(* Proofs about OperationLedger for every set of operations, workers and   *)
(* instances, every inbox limit and every number of crashes.               *)
(***************************************************************************)
EXTENDS OperationLedger, TLAPS

USE LedgerAssumption

LEMMA NoArgType == NoArg \in Arguments
<1>1. Ops # {} /\ Insts # {} /\ Workers # {}
  BY DEF Inst
<1>2. (CHOOSE o \in Ops : TRUE) \in Ops /\ (CHOOSE i \in Insts : TRUE) \in Insts
  BY <1>1
<1> QED
  BY <1>2 DEF NoArg, Arguments, Calls, States, Terminal

LEMMA InstType == \A o \in Ops : Inst(o) \in Insts
  BY DEF Inst

LEMMA TypeInit == Init => TypeOK
<1> SUFFICES ASSUME Init PROVE TypeOK
  OBVIOUS
<1>1. (CHOOSE w \in Workers : TRUE) \in Workers
  <2>1. Workers # {}
    OBVIOUS
  <2> QED
    BY <2>1
<1>2. hot \in HotRead
  BY <1>1 DEF Init, HotRead
<1>3. control \in [Insts -> ControlRecord]
  BY DEF Init, ControlRecord
<1>4. receipt \in [Ops -> States] /\ pc \in Labels
  BY DEF Init, States, Labels
<1> QED
  BY <1>2, <1>3, <1>4, NoArgType DEF Init, TypeOK

\* Taking the lock.
LEMMA TypeBegin == TypeOK /\ BeginAny => TypeOK'
<1> SUFFICES ASSUME TypeOK, BeginAny PROVE TypeOK'
  OBVIOUS
<1> USE NoArgType DEF Begin
<1>1. pc' \in Labels /\ UNCHANGED <<files, late, hot, ghost>>
  BY DEF BeginAny, BeginSubmit, BeginRecover, BeginSet, BeginClaim, BeginReceipt,
         BeginPending, BeginLatch, BeginPrune, Labels
<1>2. arg' \in Arguments
  <2>1. ASSUME NEW o \in Ops, BeginSubmit(o) PROVE arg' \in Arguments
    BY <2>1 DEF BeginSubmit, Arguments, Calls
  <2>2. CASE BeginRecover
    BY <2>2 DEF BeginRecover
  <2>3. CASE BeginPrune
    BY <2>3 DEF BeginPrune, Arguments, Calls
  <2>4. ASSUME NEW o \in Ops, BeginClaim(o) PROVE arg' \in Arguments
    BY <2>4 DEF BeginClaim, Arguments, Calls
  <2>5. ASSUME NEW o \in Ops, BeginPending(o) PROVE arg' \in Arguments
    BY <2>5 DEF BeginPending, Arguments, Calls, TypeOK
  <2>6. ASSUME NEW o \in Ops, NEW state \in Outcomes, BeginReceipt(o, state)
        PROVE  arg' \in Arguments
    BY <2>6 DEF BeginReceipt, Arguments, Calls, States, Terminal
  <2>7. ASSUME NEW s \in StopOps, BeginLatch(s) PROVE arg' \in Arguments
    BY <2>7 DEF BeginLatch, Arguments, Calls
  <2>8. ASSUME NEW i \in Insts, NEW enabled \in BOOLEAN, BeginSet(i, enabled)
        PROVE  arg' \in Arguments
    BY <2>8 DEF BeginSet, Arguments, Calls, TypeOK, ControlRecord
  <2> QED
    BY <2>1, <2>2, <2>3, <2>4, <2>5, <2>6, <2>7, <2>8 DEF BeginAny
<1> QED
  BY <1>1, <1>2 DEF TypeOK, files, ghost

LEMMA WriteProjectionType ==
  ASSUME TypeOK, NEW entries \in [StopOps -> {"absent", "pending", "settled"}],
         WriteProjection(entries)
  PROVE  /\ projected' \in BOOLEAN
         /\ projection' \in [StopOps -> {"absent", "pending", "settled"}]
         /\ hot' \in HotRead
  BY DEF TypeOK, WriteProjection, HotRead

LEMMA LatchType ==
  ASSUME TypeOK, NEW s \in StopOps, LatchStop(s)
  PROVE  control' \in [Insts -> ControlRecord]
  BY InstType DEF TypeOK, LatchStop, ControlRecord

LEMMA GotoType ==
  ASSUME NEW label \in Labels, NEW argument \in Arguments, Goto(label, argument)
  PROVE  pc' \in Labels /\ arg' \in Arguments
  BY NoArgType DEF Goto

LEMMA LeaveType == TypeOK /\ Leave => TypeOK'
<1> SUFFICES ASSUME TypeOK, Leave PROVE TypeOK'
  OBVIOUS
<1>1. pc' \in Labels /\ arg' \in Arguments
  BY NoArgType DEF Leave, Goto, Labels
<1> QED
  BY <1>1 DEF TypeOK, Leave, files, ghost

LEMMA TypeRecover == TypeOK /\ Recover => TypeOK'
<1> SUFFICES ASSUME TypeOK, Recover PROVE TypeOK'
  OBVIOUS
<1>1. ASSUME NEW s \in StopOps, RecoverEnvelope(s) PROVE TypeOK'
  BY <1>1 DEF RecoverEnvelope, TypeOK, txn, ghost
<1>2. ASSUME NEW s \in StopOps, RecoverControl(s) PROVE TypeOK'
  BY <1>2, LatchType DEF RecoverControl, TypeOK, txn, ghost
<1>3. CASE RecoverRaises
  BY <1>3, LeaveType DEF RecoverRaises
<1>4. CASE RecoverProjection
  <2>1. Rebuilt \in [StopOps -> {"absent", "pending", "settled"}]
    BY DEF Rebuilt
  <2>2. pc' \in Labels /\ arg' \in Arguments
    BY <1>4 DEF RecoverProjection, Goto, Labels, TypeOK
  <2> QED
    BY <1>4, <2>1, <2>2, WriteProjectionType DEF RecoverProjection, TypeOK, ghost
<1>5. CASE RecoverReordered
  <2>1. pc' \in Labels /\ arg' \in Arguments
    BY <1>5 DEF RecoverReordered, Goto, Labels, TypeOK
  <2>2. hot' \in HotRead
    BY <1>5 DEF RecoverReordered, HotRead, TypeOK
  <2> QED
    BY <1>5, <2>1, <2>2 DEF RecoverReordered, TypeOK, files, ghost
<1>6. CASE RecoverOnly
  BY <1>6, LeaveType DEF RecoverOnly
<1> QED
  BY <1>1, <1>2, <1>3, <1>4, <1>5, <1>6 DEF Recover

LEMMA TypeSubmit == TypeOK /\ Submit => TypeOK'
<1> SUFFICES ASSUME TypeOK, Submit PROVE TypeOK'
  OBVIOUS
<1>0. arg \in Arguments /\ arg.op \in Ops
  BY DEF TypeOK, Arguments
<1>1. ASSUME NEW e \in Ops, SubmitDuplicate(e) PROVE TypeOK'
  <2>1. [arg EXCEPT !.op = e] \in Arguments
    BY <1>0 DEF Arguments
  <2>2. pc' \in Labels /\ arg' \in Arguments
    BY <1>1, <2>1, GotoType DEF SubmitDuplicate, Labels
  <2> QED
    BY <1>1, <2>2 DEF SubmitDuplicate, TypeOK, files, ghost
<1>2. ASSUME NEW e \in Ops, SubmitConflict(e) PROVE TypeOK'
  BY <1>2, LeaveType DEF SubmitConflict
<1>3. CASE SubmitFresh
  <2>1. pc' \in Labels /\ arg' \in Arguments
    BY <1>0, <1>3, GotoType DEF SubmitFresh, Labels
  <2> QED
    BY <1>3, <2>1 DEF SubmitFresh, TypeOK, files, ghost
<1>4. CASE SubmitFull
  BY <1>4, LeaveType DEF SubmitFull
<1>5. CASE SubmitSeal
  <2>1. pc' \in Labels /\ arg' \in Arguments
    BY <1>0, <1>5, GotoType DEF SubmitSeal, Labels
  <2>2. [projection EXCEPT ![arg.op] = "pending"]
          \in [StopOps -> {"absent", "pending", "settled"}]
    BY DEF TypeOK
  <2> QED
    BY <1>5, <2>1, <2>2, WriteProjectionType DEF SubmitSeal, TypeOK
<1>6. CASE SubmitEnvelope
  <2>1. pc' \in Labels /\ arg' \in Arguments
    BY <1>0, <1>6, GotoType DEF SubmitEnvelope, Labels
  <2> QED
    BY <1>6, <2>1 DEF SubmitEnvelope, TypeOK, ghost
<1>7. CASE SubmitCreate
  <2>1. pc' \in Labels /\ arg' \in Arguments
    BY <1>0, <1>7, GotoType DEF SubmitCreate, Labels
  <2> QED
    BY <1>7, <2>1 DEF SubmitCreate, TypeOK, ghost
<1>8. CASE SubmitWrite
  <2>1. pc' \in Labels /\ arg' \in Arguments
    BY <1>0, <1>8, GotoType DEF SubmitWrite, Labels
  <2> QED
    BY <1>8, <2>1 DEF SubmitWrite, TypeOK, ghost
<1>9. CASE FinishLatch
  <2>1. pc' \in Labels /\ arg' \in Arguments
    BY <1>0, <1>9, GotoType DEF FinishLatch, Labels
  <2>2. control' \in [Insts -> ControlRecord]
    BY <1>9, LatchType DEF FinishLatch, TypeOK
  <2> QED
    BY <1>9, <2>1, <2>2 DEF FinishLatch, TypeOK, ghost
<1>10. CASE FinishClear
  <2>1. pc' \in Labels /\ arg' \in Arguments
    BY <1>0, <1>10, GotoType DEF FinishClear, Labels
  <2>2. [projection EXCEPT ![arg.op] = IF @ = "pending" THEN "settled" ELSE @]
          \in [StopOps -> {"absent", "pending", "settled"}]
    BY DEF TypeOK
  <2> QED
    BY <1>10, <2>1, <2>2, WriteProjectionType DEF FinishClear, TypeOK, ghost
<1> QED
  BY <1>1, <1>2, <1>3, <1>4, <1>5, <1>6, <1>7, <1>8, <1>9, <1>10 DEF Submit

LEMMA TypeSet == TypeOK /\ Set => TypeOK'
<1> SUFFICES ASSUME TypeOK, Set PROVE TypeOK'
  OBVIOUS
<1>0. arg \in Arguments /\ arg.inst \in Insts /\ arg.expected \in Nat
  BY DEF TypeOK, Arguments
<1>1. CASE SetConflict
  BY <1>1, LeaveType DEF SetConflict
<1>2. CASE SetEnabled
  <2>1. pc' \in Labels /\ arg' \in Arguments
    BY <1>0, <1>2, GotoType DEF SetEnabled, Labels
  <2>2. control' \in [Insts -> ControlRecord]
    BY <1>0, <1>2 DEF SetEnabled, TypeOK, ControlRecord
  <2> QED
    BY <1>2, <2>1, <2>2 DEF SetEnabled, TypeOK
<1>3. CASE SetDisabled
  <2>1. pc' \in Labels /\ arg' \in Arguments
    BY <1>0, <1>3, GotoType DEF SetDisabled, Labels
  <2>2. control' \in [Insts -> ControlRecord]
    BY <1>0, <1>3 DEF SetDisabled, TypeOK, ControlRecord
  <2> QED
    BY <1>0, <1>3, <2>1, <2>2 DEF SetDisabled, TypeOK
<1> QED
  BY <1>1, <1>2, <1>3 DEF Set

LEMMA TypeReceipt == TypeOK /\ Receipt => TypeOK'
<1> SUFFICES ASSUME TypeOK, Receipt PROVE TypeOK'
  OBVIOUS
<1>0. arg \in Arguments /\ arg.op \in Ops /\ arg.state \in States
  BY DEF TypeOK, Arguments
<1>a. AfterReceipt \in Labels
  BY DEF AfterReceipt, Labels
<1>b. ASSUME NEW state \in States
      PROVE  [arg EXCEPT !.state = state] \in Arguments
  BY <1>0 DEF Arguments
<1>c. Returns => claims' \in [Ops -> Nat]
  BY <1>0, SMTT(20) DEF Returns, TypeOK
<1>1. CASE PublishRefused
  BY <1>1, LeaveType DEF PublishRefused
<1>2. CASE PublishReceipt
  <2>1. [arg EXCEPT !.state = "active"] \in Arguments
    BY <1>b DEF States
  <2>2. "drop" \in Labels
    BY DEF Labels
  <2>3. pc' \in Labels /\ arg' \in Arguments
    BY <1>0, <1>a, <1>2, <2>1, <2>2, GotoType DEF PublishReceipt
  <2>4. claims' \in [Ops -> Nat]
    BY <1>2, <1>c DEF PublishReceipt, TypeOK
  <2> QED
    BY <1>0, <1>2, <2>3, <2>4 DEF PublishReceipt, TypeOK
<1>3. CASE DropProjection
  <2>1. pc' \in Labels /\ arg' \in Arguments
    BY <1>0, <1>a, <1>3, GotoType DEF DropProjection
  <2>2. [projection EXCEPT ![arg.op] = IF @ = "settled" THEN "absent" ELSE @]
          \in [StopOps -> {"absent", "pending", "settled"}]
    BY DEF TypeOK
  <2> QED
    BY <1>3, <1>c, <2>1, <2>2, WriteProjectionType DEF DropProjection, TypeOK
<1>4. CASE ClaimDenied
  BY <1>4, LeaveType DEF ClaimDenied
<1>5. ASSUME NEW state \in States, ClaimReceipt(state) PROVE TypeOK'
  <2>1. pc' \in Labels /\ arg' \in Arguments
    BY <1>b, <1>5, GotoType DEF ClaimReceipt, Labels
  <2> QED
    BY <1>5, <2>1 DEF ClaimReceipt, TypeOK, files, ghost
<1>6. CASE ClaimExpired \/ ClaimActivate
  <2>1. "expired" \in States /\ "accepted" \in States /\ "active" \in States
    BY DEF States, Terminal
  <2> QED
    BY <1>5, <1>6, <2>1 DEF ClaimExpired, ClaimActivate
<1>7. ASSUME NEW o \in Ops, PendingExpire(o) PROVE TypeOK'
  <2>1. [arg EXCEPT !.op = o, !.state = "expired"] \in Arguments
    BY <1>0 DEF Arguments, States, Terminal
  <2>2. pc' \in Labels /\ arg' \in Arguments
    BY <1>7, <2>1, GotoType DEF PendingExpire, Labels
  <2> QED
    BY <1>7, <2>2 DEF PendingExpire, TypeOK, files, ghost
<1>8. CASE PendingDone
  BY <1>8, LeaveType DEF PendingDone
<1> QED
  BY <1>1, <1>2, <1>3, <1>4, <1>6, <1>7, <1>8 DEF Receipt

LEMMA TypePrune == TypeOK /\ Prune => TypeOK'
<1> SUFFICES ASSUME TypeOK, Prune PROVE TypeOK'
  OBVIOUS
<1>0. arg \in Arguments /\ arg.victim \in Ops
  BY DEF TypeOK, Arguments
<1>1. CASE PruneStart \/ PruneDone
  <2>1. pc' \in Labels /\ arg' \in Arguments
    BY <1>0, <1>1, GotoType DEF PruneStart, PruneDone, Labels
  <2> QED
    BY <1>1, <2>1 DEF PruneStart, PruneDone, TypeOK, files, ghost
<1>2. ASSUME NEW o \in Ops, PruneEnvelope(o) PROVE TypeOK'
  <2>1. [arg EXCEPT !.victim = o] \in Arguments
    BY <1>0 DEF Arguments
  <2>2. pc' \in Labels /\ arg' \in Arguments
    BY <1>2, <2>1, GotoType DEF PruneEnvelope, Labels
  <2> QED
    BY <1>2, <2>2 DEF PruneEnvelope, TypeOK
<1>3. CASE PruneReceipt
  <2>1. pc' \in Labels /\ arg' \in Arguments
    BY <1>0, <1>3, GotoType DEF PruneReceipt, Labels
  <2> QED
    BY <1>0, <1>3, <2>1 DEF PruneReceipt, TypeOK, States, ghost
<1>4. ASSUME NEW o \in Ops, PruneOrphan(o) PROVE TypeOK'
  BY <1>4 DEF PruneOrphan, TypeOK, States, txn, ghost
<1> QED
  BY <1>1, <1>2, <1>3, <1>4 DEF Prune

LEMMA TypeRead == TypeOK /\ Read => TypeOK'
<1> SUFFICES ASSUME TypeOK, Read PROVE TypeOK'
  OBVIOUS
<1>1. hot' \in HotRead
  <2>1. ASSUME NEW w \in Workers, ReadBefore(w) PROVE hot' \in HotRead
    BY <2>1 DEF ReadBefore, TypeOK, HotRead
  <2>2. CASE ReadControl
    <3>1. control[InstOf[hot.worker]].enabled \in BOOLEAN
      BY DEF TypeOK, HotRead, ControlRecord
    <3> QED
      BY <2>2, <3>1 DEF ReadControl, TypeOK, HotRead
  <2>3. CASE ReadAfter
    <3>1. Verdict \in {"granted", "denied"}
      BY DEF Verdict
    <3>2. ASSUME NEW at \in {"before", "granted", "denied"}, NEW try \in 1..3
          PROVE  /\ [hot EXCEPT !.at = at] \in HotRead
                 /\ [hot EXCEPT !.at = at, !.try = try] \in HotRead
      BY DEF TypeOK, HotRead
    <3>3. hot.try \in 1..3
      BY DEF TypeOK, HotRead
    <3>4. CASE hot' = [hot EXCEPT !.at = Verdict] \/ hot' = [hot EXCEPT !.at = "denied"]
      BY <3>1, <3>2, <3>4
    <3>5. CASE hot.try < 3 /\ hot' = [hot EXCEPT !.at = "before", !.try = @ + 1]
      <4>1. hot.try + 1 \in 1..3
        BY <3>3, <3>5
      <4> QED
        BY <3>2, <3>5, <4>1
    <3> QED
      BY <2>3, <3>4, <3>5 DEF ReadAfter
  <2> QED
    BY <2>1, <2>2, <2>3 DEF Read
<1> QED
  BY <1>1 DEF Read, ReadBefore, ReadControl, ReadAfter, TypeOK, files, txn, ghost

\* Every reachable state of the ledger is well typed.
THEOREM TypeCorrect == Spec => []TypeOK
<1>1. Init => TypeOK
  BY TypeInit
<1>2. TypeOK /\ [Next]_vars => TypeOK'
  <2> SUFFICES ASSUME TypeOK, [Next]_vars PROVE TypeOK'
    OBVIOUS
  <2>1. CASE BeginAny
    BY <2>1, TypeBegin
  <2>2. CASE Transaction
    BY <2>2, TypeRecover, TypeSubmit, TypeSet, TypeReceipt, TypePrune DEF Transaction
  <2>3. CASE Crash
    BY <2>3, LeaveType DEF Crash
  <2>4. CASE Read
    BY <2>4, TypeRead
  <2>5. ASSUME NEW o \in Ops, Expire(o) PROVE TypeOK'
    BY <2>5 DEF Expire, TypeOK, files, txn, ghost
  <2>6. CASE UNCHANGED vars
    BY <2>6 DEF TypeOK, vars, files, txn, ghost
  <2> QED
    BY <2>1, <2>2, <2>3, <2>4, <2>5, <2>6 DEF Next
<1> QED
  BY <1>1, <1>2, PTL DEF Spec

-------------------------------------------------------------------------------
(***************************************************************************)
(* The inductive invariant                                                 *)
(***************************************************************************)

LEMMA LedgerInit == Init => LedgerInv
<1> SUFFICES ASSUME Init PROVE LedgerInv
  OBVIOUS
<1>1. TypeOK
  BY TypeInit
<1>2. StandingInv /\ DisabledInv /\ FilesInv /\ NoResurrection
  BY InstType DEF Init, StandingInv, DisabledInv, FilesInv, NoResurrection, Retained
<1>3. RecoveredInv /\ HolderInv
  BY DEF Init, RecoveredInv, Recovered, HolderInv
<1> QED
  BY <1>1, <1>2, <1>3 DEF LedgerInv

\* A step that publishes nothing keeps what the invariant says of the files.
LEMMA FilesKept ==
  ASSUME LedgerInv, UNCHANGED <<files, ghost>>
  PROVE  StandingInv' /\ DisabledInv' /\ FilesInv' /\ NoResurrection'
  BY DEF LedgerInv, StandingInv, DisabledInv, FilesInv, NoResurrection, Retained,
         files, ghost

\* Releasing the lock.
LEMMA LeaveInv == LedgerInv /\ Leave => LedgerInv'
<1> SUFFICES ASSUME LedgerInv, Leave PROVE LedgerInv'
  OBVIOUS
<1>1. TypeOK'
  BY LeaveType DEF LedgerInv
<1>2. StandingInv' /\ DisabledInv' /\ FilesInv' /\ NoResurrection'
  BY FilesKept DEF Leave
<1>3. RecoveredInv' /\ HolderInv'
  BY DEF Leave, Goto, RecoveredInv, Recovered, HolderInv
<1> QED
  BY <1>1, <1>2, <1>3 DEF LedgerInv

LEMMA BeginInv == LedgerInv /\ BeginAny => LedgerInv'
<1> SUFFICES ASSUME LedgerInv, BeginAny PROVE LedgerInv'
  OBVIOUS
<1>1. TypeOK'
  BY TypeBegin DEF LedgerInv
<1>2. UNCHANGED <<files, late, hot, ghost>>
  BY DEF BeginAny, BeginSubmit, BeginRecover, BeginSet, BeginClaim, BeginReceipt,
         BeginPending, BeginLatch, BeginPrune, Begin
<1>3. StandingInv' /\ DisabledInv' /\ FilesInv' /\ NoResurrection'
  BY <1>2, FilesKept
<1>4. \/ pc' = "recover" /\ (arg'.call = "submit" => arg'.op \notin pruned)
      \/ pc' = "body" /\ arg'.call = "pending"
      \/ pc' = "publish" /\ arg'.state # "none"
      \/ pc' = "latch" /\ Retained(arg'.op)
  <2> USE NoArgType DEF Begin, Arguments
  <2>1. ASSUME NEW o \in Ops, BeginSubmit(o)
        PROVE  pc' = "recover" /\ arg'.op \notin pruned
    BY <2>1 DEF BeginSubmit
  <2>2. CASE BeginRecover
    BY <2>2 DEF BeginRecover, NoArg
  <2>3. CASE BeginPrune
    BY <2>3 DEF BeginPrune
  <2>4. ASSUME NEW o \in Ops, BeginClaim(o)
        PROVE  pc' = "recover" /\ arg'.call = "claim"
    BY <2>4 DEF BeginClaim
  <2>5. ASSUME NEW o \in Ops, BeginPending(o)
        PROVE  pc' = "body" /\ arg'.call = "pending"
    BY <2>5 DEF BeginPending
  <2>6. ASSUME NEW o \in Ops, NEW state \in Outcomes, BeginReceipt(o, state)
        PROVE  pc' = "publish" /\ arg'.state # "none"
    BY <2>6 DEF BeginReceipt
  <2>7. ASSUME NEW s \in StopOps, BeginLatch(s)
        PROVE  pc' = "latch" /\ Retained(arg'.op)
    BY <2>7 DEF BeginLatch
  <2>8. ASSUME NEW i \in Insts, NEW enabled \in BOOLEAN, BeginSet(i, enabled)
        PROVE  pc' = "recover" /\ arg'.call = "set"
    BY <2>8 DEF BeginSet
  <2> QED
    BY <2>1, <2>2, <2>3, <2>4, <2>5, <2>6, <2>7, <2>8 DEF BeginAny
<1>5. RecoveredInv'
  BY <1>4 DEF RecoveredInv, Recovered
<1>6. HolderInv'
  BY <1>2, <1>4 DEF HolderInv, Retained, files, ghost
<1> QED
  BY <1>1, <1>3, <1>5, <1>6 DEF LedgerInv

\* Recovery: envelopes of projected stops come back, retained stops latch their
\* instance, and only then are the unsettled marks of the projection given up.
LEMMA RecoverInv == LedgerInv /\ Recover => LedgerInv'
<1> SUFFICES ASSUME LedgerInv, Recover PROVE LedgerInv'
  OBVIOUS
<1>0. TypeOK'
  BY TypeRecover DEF LedgerInv
<1>1. ASSUME NEW s \in StopOps, RecoverEnvelope(s) PROVE LedgerInv'
  <2> USE <1>1 DEF RecoverEnvelope, Orphaned, ghost, txn
  <2>1. projection[s] = "pending" /\ s \in standing /\ s \notin pruned
    BY DEF LedgerInv, FilesInv, StandingInv, NoResurrection, Retained, TypeOK
  <2>2. \A t \in Ops : Retained(t)' <=> Retained(t) \/ t = s
    BY DEF Retained, LedgerInv, TypeOK
  <2>3. StandingInv' /\ DisabledInv' /\ FilesInv'
    BY <2>1, <2>2 DEF LedgerInv, StandingInv, DisabledInv, FilesInv
  <2>4. NoResurrection'
    BY <2>1 DEF LedgerInv, NoResurrection, TypeOK
  <2>5. RecoveredInv' /\ HolderInv'
    BY DEF RecoveredInv, Recovered, HolderInv, LedgerInv
  <2> QED
    BY <1>0, <2>3, <2>4, <2>5 DEF LedgerInv
<1>2. ASSUME NEW s \in StopOps, RecoverControl(s) PROVE LedgerInv'
  <2> USE <1>2 DEF RecoverControl, ghost, txn
  <2>1. s \in standing
    BY DEF LedgerInv, StandingInv, NeedsLatch
  <2>2. \A i \in Insts : /\ control'[i].superseded = control[i].superseded
                         /\ control'[i].enabled = (control[i].enabled /\ i # Inst(s))
    BY InstType DEF LatchStop, LedgerInv, TypeOK, ControlRecord
  <2>3. StandingInv' /\ DisabledInv' /\ FilesInv' /\ NoResurrection'
    BY <2>1, <2>2, InstType
       DEF LedgerInv, StandingInv, DisabledInv, FilesInv, NoResurrection, Retained
  <2>4. RecoveredInv' /\ HolderInv'
    BY DEF RecoveredInv, Recovered, HolderInv, LedgerInv
  <2> QED
    BY <1>0, <2>3, <2>4 DEF LedgerInv
<1>3. CASE RecoverRaises \/ RecoverOnly
  BY <1>3, LeaveInv DEF RecoverRaises, RecoverOnly
<1>4. CASE RecoverProjection
  <2> USE <1>4 DEF RecoverProjection, ghost
  <2>1. projection' = Rebuilt /\ projected'
    BY DEF WriteProjection, LedgerInv, TypeOK
  <2>2. \A s \in StopOps : s \in standing => ~control[Inst(s)].enabled
    BY DEF LedgerInv, StandingInv, FilesInv, Orphaned, Retained, NeedsLatch, Unreadable,
           Torn, TypeOK
  <2>3. StandingInv' /\ DisabledInv' /\ FilesInv'
    BY <2>1, <2>2 DEF LedgerInv, StandingInv, DisabledInv, FilesInv, Rebuilt, Retained
  <2>4. NoResurrection'
    BY <2>1 DEF LedgerInv, NoResurrection, Rebuilt, Retained
  <2>5. RecoveredInv'
    BY <2>1 DEF RecoveredInv, Rebuilt
  <2>6. HolderInv'
    BY DEF HolderInv, LedgerInv, Goto
  <2> QED
    BY <1>0, <2>3, <2>4, <2>5, <2>6 DEF LedgerInv
<1>5. CASE RecoverReordered
  <2> USE <1>5 DEF RecoverReordered
  <2>1. StandingInv' /\ DisabledInv' /\ FilesInv' /\ NoResurrection'
    BY FilesKept
  <2>2. RecoveredInv'
    BY DEF RecoveredInv, Rebuilt, files
  <2>3. HolderInv'
    BY DEF HolderInv, LedgerInv, Goto, ghost
  <2> QED
    BY <1>0, <2>1, <2>2, <2>3 DEF LedgerInv
<1> QED
  BY <1>1, <1>2, <1>3, <1>4, <1>5 DEF Recover

\* Submission: the write-ahead entry makes the stop stand before its envelope exists,
\* and the mark is cleared only when the instance is disabled or the stop superseded.
LEMMA SubmitInv == LedgerInv /\ Submit => LedgerInv'
<1> SUFFICES ASSUME LedgerInv, Submit PROVE LedgerInv'
  OBVIOUS
<1>0. TypeOK'
  BY TypeSubmit DEF LedgerInv
<1>a. arg \in Arguments /\ arg.op \in Ops
  BY DEF LedgerInv, TypeOK, Arguments
<1>1. ASSUME NEW e \in Ops, SubmitDuplicate(e) PROVE LedgerInv'
  <2> USE <1>1 DEF SubmitDuplicate, Goto
  <2>1. StandingInv' /\ DisabledInv' /\ FilesInv' /\ NoResurrection'
    BY FilesKept
  <2>2. arg'.op = e /\ pc' = "latch"
    BY <1>a DEF Arguments
  <2>3. RecoveredInv' /\ HolderInv'
    BY <2>2 DEF RecoveredInv, Recovered, HolderInv, Retained, files
  <2> QED
    BY <1>0, <2>1, <2>3 DEF LedgerInv
<1>2. ASSUME NEW e \in Ops, SubmitConflict(e) PROVE LedgerInv'
  BY <1>2, LeaveInv DEF SubmitConflict
<1>3. CASE SubmitFresh
  <2> USE <1>3 DEF SubmitFresh, Goto
  <2>1. StandingInv' /\ DisabledInv' /\ FilesInv' /\ NoResurrection'
    BY FilesKept
  <2>2. RecoveredInv'
    BY DEF LedgerInv, RecoveredInv, Recovered, files
  <2>3. HolderInv'
    BY <1>a DEF LedgerInv, HolderInv, Retained, files, ghost
  <2> QED
    BY <1>0, <2>1, <2>2, <2>3 DEF LedgerInv
<1>4. CASE SubmitFull
  BY <1>4, LeaveInv DEF SubmitFull
<1>5. CASE SubmitSeal
  <2> USE <1>5 DEF SubmitSeal, Goto
  <2>1. /\ projection' = [projection EXCEPT ![arg.op] = "pending"] /\ projected'
    BY DEF WriteProjection, LedgerInv, TypeOK
  <2>2. arg.op \notin pruned /\ ~Retained(arg.op) /\ arg.call = "submit"
    BY DEF LedgerInv, HolderInv
  <2>3. arg.op \notin control[Inst(arg.op)].superseded
    BY <2>2 DEF LedgerInv, FilesInv
  <2>4. StandingInv' /\ DisabledInv' /\ FilesInv'
    BY <2>1, <2>3 DEF LedgerInv, StandingInv, DisabledInv, FilesInv, Retained, TypeOK
  <2>5. NoResurrection'
    BY <2>1, <2>2 DEF LedgerInv, NoResurrection, TypeOK
  <2>6. RecoveredInv' /\ HolderInv'
    BY <2>1, <2>2 DEF RecoveredInv, Recovered, HolderInv, LedgerInv, TypeOK
  <2> QED
    BY <1>0, <2>4, <2>5, <2>6 DEF LedgerInv
<1>6. CASE SubmitEnvelope
  <2> USE <1>6 DEF SubmitEnvelope, Goto, ghost
  <2>1. /\ arg.op \in StopOps /\ projection[arg.op] = "pending"
        /\ arg.op \in standing /\ arg.op \notin pruned
    BY DEF LedgerInv, HolderInv, StandingInv
  <2>2. \A t \in Ops : Retained(t)' <=> Retained(t) \/ t = arg.op
    BY <1>a DEF Retained, LedgerInv, TypeOK
  <2>3. StandingInv' /\ DisabledInv' /\ FilesInv'
    BY <2>1, <2>2 DEF LedgerInv, StandingInv, DisabledInv, FilesInv
  <2>4. NoResurrection'
    BY <2>1 DEF LedgerInv, NoResurrection, TypeOK
  <2>5. RecoveredInv' /\ HolderInv'
    BY <1>a, <2>2 DEF RecoveredInv, Recovered, HolderInv
  <2> QED
    BY <1>0, <2>3, <2>4, <2>5 DEF LedgerInv
<1>7. CASE SubmitCreate
  <2> USE <1>7 DEF SubmitCreate, Goto, ghost
  <2>1. arg.op \notin pruned /\ arg.call = "submit"
    BY DEF LedgerInv, HolderInv
  <2>2. \A t \in StopOps : Retained(t)' <=> Retained(t)
    BY <1>a DEF Retained, LedgerInv, TypeOK
  <2>3. StandingInv' /\ DisabledInv' /\ FilesInv'
    BY <2>2 DEF LedgerInv, StandingInv, DisabledInv, FilesInv
  <2>4. NoResurrection'
    BY <2>1 DEF LedgerInv, NoResurrection, TypeOK
  <2>5. RecoveredInv' /\ HolderInv'
    BY <2>1 DEF RecoveredInv, Recovered, HolderInv
  <2> QED
    BY <1>0, <2>3, <2>4, <2>5 DEF LedgerInv
<1>8. CASE SubmitWrite
  <2> USE <1>8 DEF SubmitWrite, Goto, ghost
  <2>1. arg.op \notin pruned /\ arg.op \notin StopOps
    BY DEF LedgerInv, HolderInv
  <2>2. \A t \in StopOps : Retained(t)' <=> Retained(t)
    BY <1>a, <2>1 DEF Retained, LedgerInv, TypeOK
  <2>3. StandingInv' /\ DisabledInv' /\ FilesInv'
    BY <2>2 DEF LedgerInv, StandingInv, DisabledInv, FilesInv
  <2>4. NoResurrection'
    BY <2>1 DEF LedgerInv, NoResurrection, TypeOK
  <2>5. RecoveredInv' /\ HolderInv'
    BY DEF RecoveredInv, Recovered, HolderInv
  <2> QED
    BY <1>0, <2>3, <2>4, <2>5 DEF LedgerInv
<1>9. CASE FinishLatch
  <2> USE <1>9 DEF FinishLatch, Goto, ghost
  <2>1. Retained(arg.op)
    BY DEF LedgerInv, HolderInv
  <2>2. CASE arg.op \in StopOps /\ NeedsLatch(arg.op)
    <3>1. arg.op \in standing
      BY <2>1, <2>2 DEF LedgerInv, StandingInv, NeedsLatch
    <3>2. \A i \in Insts : /\ control'[i].superseded = control[i].superseded
                           /\ control'[i].enabled = (control[i].enabled /\ i # Inst(arg.op))
      BY <2>2, InstType DEF LatchStop, LedgerInv, TypeOK, ControlRecord
    <3>3. StandingInv' /\ DisabledInv' /\ FilesInv' /\ NoResurrection'
      BY <3>1, <3>2, InstType
         DEF LedgerInv, StandingInv, DisabledInv, FilesInv, NoResurrection, Retained
    <3>4. RecoveredInv'
      BY DEF RecoveredInv, Recovered
    <3>5. ~control'[Inst(arg.op)].enabled
      BY <2>2, <3>2, InstType
    <3>6. (arg.call = "submit" /\ pc' = "clear" /\ arg' = arg) \/ pc' = "idle"
      OBVIOUS
    <3>7. HolderInv'
      <4>1. CASE pc' = "idle"
        BY <4>1 DEF HolderInv
      <4>2. CASE arg.call = "submit" /\ pc' = "clear" /\ arg' = arg
        <5>1. ~NeedsLatch(arg.op)' /\ Retained(arg.op)'
          BY <2>1, <3>5, <4>2 DEF Retained, NeedsLatch
        <5> QED
          BY <2>2, <4>2, <5>1 DEF HolderInv
      <4> QED
        BY <3>6, <4>1, <4>2
    <3> QED
      BY <1>0, <3>3, <3>4, <3>7 DEF LedgerInv
  <2>3. CASE ~(arg.op \in StopOps /\ NeedsLatch(arg.op))
    <3>1. control' = control
      BY <2>3 DEF LatchStop
    <3>2. StandingInv' /\ DisabledInv' /\ FilesInv' /\ NoResurrection'
      BY <3>1, FilesKept DEF files
    <3>3. RecoveredInv' /\ HolderInv'
      BY <2>1, <2>3, <3>1 DEF RecoveredInv, Recovered, HolderInv, Retained, NeedsLatch
    <3> QED
      BY <1>0, <3>2, <3>3 DEF LedgerInv
  <2> QED
    BY <2>2, <2>3
<1>10. CASE FinishClear
  <2> USE <1>10 DEF FinishClear, Goto, ghost
  <2>1. arg.op \in StopOps /\ Retained(arg.op) /\ ~NeedsLatch(arg.op)
    BY DEF LedgerInv, HolderInv
  <2>2. /\ projected'
        /\ \A s \in StopOps :
             projection'[s] = IF s = arg.op /\ projection[s] = "pending"
                              THEN "settled" ELSE projection[s]
    BY <2>1 DEF WriteProjection, LedgerInv, TypeOK
  <2>3. arg.op \in standing => ~control[Inst(arg.op)].enabled
    BY <2>1 DEF LedgerInv, StandingInv, NeedsLatch
  <2>4. StandingInv' /\ DisabledInv' /\ FilesInv'
    BY <2>1, <2>2, <2>3 DEF LedgerInv, StandingInv, DisabledInv, FilesInv, Retained
  <2>5. NoResurrection'
    BY <2>2 DEF LedgerInv, NoResurrection
  <2>6. RecoveredInv' /\ HolderInv'
    BY DEF RecoveredInv, Recovered, HolderInv
  <2> QED
    BY <1>0, <2>4, <2>5, <2>6 DEF LedgerInv
<1> QED
  BY <1>1, <1>2, <1>3, <1>4, <1>5, <1>6, <1>7, <1>8, <1>9, <1>10 DEF Submit

LEMMA SetInv == LedgerInv /\ Set => LedgerInv'
<1> SUFFICES ASSUME LedgerInv, Set PROVE LedgerInv'
  OBVIOUS
<1>0. TypeOK'
  BY TypeSet DEF LedgerInv
<1>a. arg.inst \in Insts
  BY DEF LedgerInv, TypeOK, Arguments
<1>1. CASE SetConflict
  BY <1>1, LeaveInv DEF SetConflict
<1>2. CASE SetEnabled
  <2> USE <1>2 DEF SetEnabled, Goto
  <2>1. \A s \in StopOps : projection[s] # "pending"
    BY DEF LedgerInv, RecoveredInv, Recovered
  <2>2. \A i \in Insts : control'[i] =
          IF i = arg.inst
          THEN [revision |-> arg.expected + 1, enabled |-> TRUE,
                superseded |-> {s \in StopOps : Retained(s) /\ Inst(s) = arg.inst}]
          ELSE control[i]
    BY <1>a DEF LedgerInv, TypeOK
  <2>3. StandingInv'
    BY <2>1, <2>2, InstType DEF LedgerInv, StandingInv, Retained
  <2>4. DisabledInv'
    <3> SUFFICES ASSUME NEW i \in Insts
                 PROVE  /\ ~control'[i].enabled
                             => i \in paused' \/ \E s \in standing' : Inst(s) = i
                        /\ i \in paused' => ~control'[i].enabled
      BY DEF DisabledInv
    <3>1. CASE i = arg.inst
      BY <2>2, <3>1
    <3>2. CASE i # arg.inst
      <4>1. control'[i] = control[i] /\ (i \in paused' <=> i \in paused)
        BY <2>2, <3>2
      <4>2. \A s \in standing : Inst(s) = i => s \in standing'
        BY <3>2
      <4> QED
        BY <4>1, <4>2 DEF LedgerInv, DisabledInv
    <3> QED
      BY <3>1, <3>2
  <2>5. FilesInv' /\ NoResurrection'
    BY <2>2, InstType DEF LedgerInv, FilesInv, NoResurrection, Retained
  <2>6. RecoveredInv' /\ HolderInv'
    BY DEF RecoveredInv, Recovered, HolderInv
  <2> QED
    BY <1>0, <2>3, <2>4, <2>5, <2>6 DEF LedgerInv
<1>3. CASE SetDisabled
  <2> USE <1>3 DEF SetDisabled, Goto
  <2>1. \A i \in Insts : /\ control'[i].superseded = control[i].superseded
                         /\ control'[i].enabled = (control[i].enabled /\ i # arg.inst)
    BY <1>a DEF LedgerInv, TypeOK, ControlRecord
  <2>2. StandingInv'
    BY <2>1, InstType DEF LedgerInv, StandingInv, Retained
  <2>3. DisabledInv'
    BY <2>1 DEF LedgerInv, DisabledInv
  <2>4. FilesInv' /\ NoResurrection'
    BY <2>1, InstType DEF LedgerInv, FilesInv, NoResurrection, Retained
  <2>5. RecoveredInv' /\ HolderInv'
    BY DEF RecoveredInv, Recovered, HolderInv
  <2> QED
    BY <1>0, <2>2, <2>3, <2>4, <2>5 DEF LedgerInv
<1> QED
  BY <1>1, <1>2, <1>3 DEF Set

\* Receipts: an entry leaves the projection only after its receipt and never while its
\* control is unsettled.
LEMMA ReceiptInv == LedgerInv /\ Receipt => LedgerInv'
<1> SUFFICES ASSUME LedgerInv, Receipt PROVE LedgerInv'
  OBVIOUS
<1>0. TypeOK'
  BY TypeReceipt DEF LedgerInv
<1>a. arg \in Arguments /\ arg.op \in Ops /\ arg.state \in States
  BY DEF LedgerInv, TypeOK, Arguments
<1>1. CASE PublishRefused
  BY <1>1, LeaveInv DEF PublishRefused
<1>2. CASE PublishReceipt
  <2> USE <1>2 DEF PublishReceipt
  <2>1. receipt[arg.op] \notin {"none", "accepted"} => arg.state \notin {"none", "accepted"}
    BY DEF Allowed, Terminal, LedgerInv, TypeOK, States
  <2>2. \A s \in StopOps : receipt'[s] \in {"none", "accepted"}
                            => receipt[s] \in {"none", "accepted"}
    BY <2>1 DEF LedgerInv, TypeOK
  <2>3. StandingInv' /\ DisabledInv' /\ FilesInv' /\ NoResurrection'
    BY <2>2 DEF LedgerInv, StandingInv, DisabledInv, FilesInv, NoResurrection, Retained
  <2>4. CASE arg.op \in StopOps /\ arg.state # "accepted"
    <3>1. pc' = "drop" /\ arg' = arg
      BY <2>4 DEF Goto
    <3>2. receipt'[arg.op] = arg.state /\ arg.state # "none"
      BY <1>a DEF LedgerInv, TypeOK, HolderInv
    <3> QED
      BY <1>0, <2>3, <2>4, <3>1, <3>2 DEF LedgerInv, RecoveredInv, Recovered, HolderInv
  <2>5. CASE ~(arg.op \in StopOps /\ arg.state # "accepted")
    <3>1. \/ pc' = "idle"
          \/ pc' = "publish" /\ arg'.state = "active"
          \/ pc' = "body" /\ arg' = arg /\ arg.call = "pending"
      BY <1>a, <2>5 DEF Goto, AfterReceipt, Arguments
    <3> QED
      BY <1>0, <2>3, <3>1 DEF LedgerInv, RecoveredInv, Recovered, HolderInv
  <2> QED
    BY <2>4, <2>5
<1>3. CASE DropProjection
  <2> USE <1>3 DEF DropProjection
  <2>1. arg.op \in StopOps /\ receipt[arg.op] \notin {"none", "accepted"}
    BY DEF LedgerInv, HolderInv
  <2>2. /\ projected'
        /\ \A s \in StopOps :
             projection'[s] = IF s = arg.op /\ projection[s] = "settled"
                              THEN "absent" ELSE projection[s]
    BY <2>1 DEF WriteProjection, LedgerInv, TypeOK
  <2>3. StandingInv' /\ DisabledInv' /\ FilesInv'
    BY <2>1, <2>2 DEF LedgerInv, StandingInv, DisabledInv, FilesInv, Retained
  <2>4. NoResurrection'
    BY <2>2 DEF LedgerInv, NoResurrection
  <2>5. \/ pc' = "idle"
        \/ pc' = "publish" /\ arg' = arg /\ arg.state = "accepted"
        \/ pc' = "body" /\ arg' = arg /\ arg.call = "pending"
    BY DEF Goto, AfterReceipt
  <2>6. RecoveredInv' /\ HolderInv'
    BY <2>5 DEF RecoveredInv, Recovered, HolderInv
  <2> QED
    BY <1>0, <2>3, <2>4, <2>6 DEF LedgerInv
<1>4. CASE ClaimDenied \/ PendingDone
  BY <1>4, LeaveInv DEF ClaimDenied, PendingDone
<1>5. ASSUME pc' = "publish", arg'.state # "none", UNCHANGED <<files, late, hot, ghost>>
      PROVE  LedgerInv'
  <2>1. StandingInv' /\ DisabledInv' /\ FilesInv' /\ NoResurrection'
    BY <1>5, FilesKept
  <2>2. RecoveredInv' /\ HolderInv'
    BY <1>5 DEF RecoveredInv, Recovered, HolderInv
  <2> QED
    BY <1>0, <2>1, <2>2 DEF LedgerInv
<1>6. CASE ClaimExpired \/ ClaimActivate
  BY <1>a, <1>5, <1>6 DEF ClaimExpired, ClaimActivate, ClaimReceipt, Goto, Arguments
<1>7. ASSUME NEW o \in Ops, PendingExpire(o) PROVE LedgerInv'
  BY <1>a, <1>5, <1>7 DEF PendingExpire, Goto, Arguments
<1> QED
  BY <1>1, <1>2, <1>3, <1>4, <1>6, <1>7 DEF Receipt

\* Retention: after recovery a terminal stop is not projected, so nothing can bring it
\* back once its envelope is gone.
LEMMA PruneInv == LedgerInv /\ Prune => LedgerInv'
<1> SUFFICES ASSUME LedgerInv, Prune PROVE LedgerInv'
  OBVIOUS
<1>0. TypeOK'
  BY TypePrune DEF LedgerInv
<1>a. arg \in Arguments /\ arg.op \in Ops /\ arg.victim \in Ops
  BY DEF LedgerInv, TypeOK, Arguments
<1>1. CASE PruneStart \/ PruneDone
  <2> USE <1>1 DEF PruneStart, PruneDone, Goto
  <2>1. StandingInv' /\ DisabledInv' /\ FilesInv' /\ NoResurrection'
    BY FilesKept
  <2>2. RecoveredInv'
    BY DEF LedgerInv, RecoveredInv, Recovered, files
  <2>3. HolderInv'
    BY DEF LedgerInv, HolderInv, Retained, files, ghost
  <2> QED
    BY <1>0, <2>1, <2>2, <2>3 DEF LedgerInv
<1>2. ASSUME NEW o \in Ops, PruneEnvelope(o) PROVE LedgerInv'
  <2> USE <1>2 DEF PruneEnvelope, Goto
  <2>1. receipt[o] \notin {"none", "accepted"}
    BY DEF Terminal
  <2>2. o \in StopOps => projection[o] = "absent"
    BY <2>1 DEF LedgerInv, RecoveredInv, Recovered, TypeOK
  <2>3. /\ \A t \in Ops : Retained(t)' <=> Retained(t) /\ t # o
        /\ \A t \in Ops : envelope'[t] = IF t = o THEN "none" ELSE envelope[t]
    BY DEF Retained, LedgerInv, TypeOK
  <2>4. StandingInv' /\ DisabledInv' /\ FilesInv'
    BY <2>2, <2>3 DEF LedgerInv, StandingInv, DisabledInv, FilesInv
  <2>5. NoResurrection'
    BY <2>2, <2>3 DEF LedgerInv, NoResurrection, TypeOK
  <2>6. arg'.op = arg.op /\ arg'.call = arg.call /\ arg'.victim = o /\ pc' = "unlink"
    BY <1>a DEF Arguments
  <2>7. RecoveredInv'
    BY <2>6 DEF LedgerInv, RecoveredInv, Recovered
  <2>8. arg.call = "submit" => o # arg.op
    BY DEF LedgerInv, HolderInv
  <2>9. HolderInv'
    BY <1>a, <2>3, <2>6, <2>8 DEF LedgerInv, HolderInv
  <2> QED
    BY <1>0, <2>4, <2>5, <2>7, <2>9 DEF LedgerInv
<1>3. ASSUME NEW o \in Ops, envelope[o] = "none",
             receipt' = [receipt EXCEPT ![o] = "none"],
             UNCHANGED <<envelope, projected, projection, control, ghost>>
      PROVE  StandingInv' /\ DisabledInv' /\ FilesInv' /\ NoResurrection'
  BY <1>3 DEF LedgerInv, StandingInv, DisabledInv, FilesInv, NoResurrection, Retained,
              TypeOK, ghost
<1>4. CASE PruneReceipt
  <2> USE <1>4 DEF PruneReceipt, Goto
  <2>1. envelope[arg.victim] = "none"
    BY DEF LedgerInv, HolderInv
  <2>2. StandingInv' /\ DisabledInv' /\ FilesInv' /\ NoResurrection'
    BY <1>3, <1>a, <2>1
  <2>3. RecoveredInv'
    BY <1>a DEF LedgerInv, RecoveredInv, Recovered, TypeOK
  <2>4. HolderInv'
    BY DEF LedgerInv, HolderInv, Retained, ghost
  <2> QED
    BY <1>0, <2>2, <2>3, <2>4 DEF LedgerInv
<1>5. ASSUME NEW o \in Ops, PruneOrphan(o) PROVE LedgerInv'
  <2> USE <1>5 DEF PruneOrphan, txn
  <2>1. StandingInv' /\ DisabledInv' /\ FilesInv' /\ NoResurrection'
    BY <1>3
  <2>2. RecoveredInv'
    BY DEF LedgerInv, RecoveredInv, Recovered, TypeOK
  <2>3. HolderInv'
    BY DEF LedgerInv, HolderInv, Retained, ghost
  <2> QED
    BY <1>0, <2>1, <2>2, <2>3 DEF LedgerInv
<1> QED
  BY <1>1, <1>2, <1>4, <1>5 DEF Prune

\* Steps of the reader and the clock touch nothing the invariant speaks of.
LEMMA OutsideInv ==
  ASSUME LedgerInv, TypeOK', UNCHANGED <<files, txn, ghost>>
  PROVE  LedgerInv'
<1>1. StandingInv' /\ DisabledInv' /\ FilesInv' /\ NoResurrection'
  BY FilesKept
<1>2. RecoveredInv' /\ HolderInv'
  BY DEF LedgerInv, RecoveredInv, Recovered, HolderInv, Retained, NeedsLatch, files, txn,
         ghost
<1> QED
  BY <1>1, <1>2 DEF LedgerInv

LEMMA LedgerNext == LedgerInv /\ [Next]_vars => LedgerInv'
<1> SUFFICES ASSUME LedgerInv, [Next]_vars PROVE LedgerInv'
  OBVIOUS
<1>1. CASE BeginAny
  BY <1>1, BeginInv
<1>2. CASE Transaction
  BY <1>2, RecoverInv, SubmitInv, SetInv, ReceiptInv, PruneInv DEF Transaction
<1>3. CASE Crash
  BY <1>3, LeaveInv DEF Crash
<1>4. CASE Read
  <2>1. UNCHANGED <<files, txn, ghost>>
    BY <1>4 DEF Read, ReadBefore, ReadControl, ReadAfter
  <2> QED
    BY <1>4, <2>1, TypeRead, OutsideInv DEF LedgerInv
<1>5. ASSUME NEW o \in Ops, Expire(o) PROVE LedgerInv'
  <2>1. TypeOK'
    BY <1>5 DEF Expire, LedgerInv, TypeOK, files, txn, ghost
  <2> QED
    BY <1>5, <2>1, OutsideInv DEF Expire
<1>6. CASE UNCHANGED vars
  <2>1. TypeOK'
    BY <1>6 DEF LedgerInv, TypeOK, vars, files, txn, ghost
  <2> QED
    BY <1>6, <2>1, OutsideInv DEF vars
<1> QED
  BY <1>1, <1>2, <1>3, <1>4, <1>5, <1>6 DEF Next

LEMMA LedgerInvariant == Spec => []LedgerInv
  BY LedgerInit, LedgerNext, PTL DEF Spec

\* A sealed stop denies preparation until it is resumed, for any operations, workers
\* and instances and through any number of crashes, retries and prunes.
THEOREM StopsStand == Spec => []StopStands
<1>1. LedgerInv => StopStands
  BY DEF LedgerInv, StandingInv, StopStands, TypeOK
<1> QED
  BY <1>1, LedgerInvariant, PTL

\* An unclaimed stop is always in the projection that workers poll.
THEOREM StopsVisible == Spec => []NoHiddenStop
<1>1. LedgerInv => NoHiddenStop
  BY DEF LedgerInv, FilesInv, NoHiddenStop
<1> QED
  BY <1>1, LedgerInvariant, PTL

\* Retention never lets a removed operation come back.
THEOREM PrunedForGood == Spec => []NoResurrection
<1>1. LedgerInv => NoResurrection
  BY DEF LedgerInv
<1> QED
  BY <1>1, LedgerInvariant, PTL

-------------------------------------------------------------------------------
(***************************************************************************)
(* The refinement: whether an instance is held is a function of the        *)
(* operators' intents alone, so only the steps that record an intent can   *)
(* change it.                                                              *)
(***************************************************************************)

Wanted == [i \in Insts |-> i \in paused \/ \E s \in standing : Inst(s) = i]

LEMMA HeldAsWanted == LedgerInv => Held = Wanted
<1> SUFFICES ASSUME LedgerInv, NEW i \in Insts
             PROVE  Held[i] <=> Wanted[i]
  BY DEF Held, Wanted
<1>1. ASSUME ~control[i].enabled PROVE Wanted[i]
  BY <1>1 DEF LedgerInv, DisabledInv, Wanted
<1>2. ASSUME NEW s \in StopOps, Inst(s) = i, projection[s] = "pending" PROVE Wanted[i]
  BY <1>2 DEF LedgerInv, StandingInv, Wanted
<1>3. ASSUME NEW s \in standing, Inst(s) = i PROVE Held[i]
  BY <1>3 DEF LedgerInv, StandingInv, TypeOK, Held
<1>4. ASSUME i \in paused PROVE Held[i]
  BY <1>4 DEF LedgerInv, DisabledInv, Held
<1> QED
  BY <1>1, <1>2, <1>3, <1>4 DEF Held, Wanted

LEMMA HeldAsWantedNext == LedgerInv' => (Held = Wanted)'
  BY HeldAsWanted, PTL

LEMMA HeldStep ==
  ASSUME LedgerInv, LedgerInv', UNCHANGED <<standing, paused>>
  PROVE  UNCHANGED Held
<1>1. Held = Wanted /\ Held' = Wanted'
  BY HeldAsWanted, HeldAsWantedNext
<1> QED
  BY <1>1 DEF Wanted

\* The detailed ledger implements the atomic stop intent.
THEOREM ImplementsIntent == Spec => ImplementsStopIntent
<1>1. Init => Intent!Init
  BY DEF Init, Intent!Init, Held
<1>2. LedgerInv /\ LedgerInv' /\ [Next]_vars => [Intent!Next]_(Intent!vars)
  <2> SUFFICES ASSUME LedgerInv, LedgerInv', [Next]_vars
               PROVE  [Intent!Next]_(Intent!vars)
    OBVIOUS
  <2>a. Held = Wanted /\ Held' = Wanted'
    BY HeldAsWanted, HeldAsWantedNext
  <2>b. UNCHANGED <<standing, paused>> => UNCHANGED Intent!vars
    BY HeldStep DEF Intent!vars
  <2>1. CASE SubmitSeal
    <3>1. Inst(arg.op) \in Insts /\ arg.op \in StopOps
      BY <2>1, InstType DEF SubmitSeal
    <3>2. Held' = [Held EXCEPT ![Inst(arg.op)] = TRUE]
      BY <2>1, <2>a, <3>1 DEF SubmitSeal, Wanted
    <3>3. Intent!Stop(arg.op)
      BY <2>1, <3>1, <3>2 DEF SubmitSeal, Intent!Stop
    <3> QED
      BY <3>1, <3>3 DEF Intent!Next
  <2>2. CASE SetEnabled
    <3>1. arg.inst \in Insts
      BY DEF LedgerInv, TypeOK, Arguments
    <3>2. Held' = [Held EXCEPT ![arg.inst] = FALSE]
      BY <2>2, <2>a, <3>1 DEF SetEnabled, Wanted
    <3>3. standing' = {s \in standing : [t \in StopOps |-> Inst(t)][s] # arg.inst}
      BY <2>2 DEF SetEnabled, LedgerInv, TypeOK
    <3>4. Intent!Resume(arg.inst)
      BY <2>2, <3>2, <3>3 DEF SetEnabled, Intent!Resume
    <3> QED
      BY <3>1, <3>4 DEF Intent!Next
  <2>3. CASE SetDisabled
    <3>1. arg.inst \in Insts
      BY DEF LedgerInv, TypeOK, Arguments
    <3>2. Held' = [Held EXCEPT ![arg.inst] = TRUE]
      BY <2>3, <2>a, <3>1 DEF SetDisabled, Wanted
    <3>3. Intent!Pause(arg.inst)
      BY <2>3, <3>2 DEF SetDisabled, Intent!Pause
    <3> QED
      BY <3>1, <3>3 DEF Intent!Next
  <2>4. CASE ~(SubmitSeal \/ SetEnabled \/ SetDisabled)
    <3>1. BeginAny => UNCHANGED <<standing, paused>>
      BY DEF BeginAny, BeginSubmit, BeginRecover, BeginSet, BeginClaim, BeginReceipt,
             BeginPending, BeginLatch, BeginPrune, Begin, ghost
    <3>2. Recover => UNCHANGED <<standing, paused>>
      BY DEF Recover, RecoverEnvelope, RecoverControl, RecoverRaises, RecoverProjection,
             RecoverReordered, RecoverOnly, Leave, ghost
    <3>3. Submit => UNCHANGED <<standing, paused>>
      BY <2>4 DEF Submit, SubmitDuplicate, SubmitConflict, SubmitFresh, SubmitFull,
             SubmitEnvelope, SubmitCreate, SubmitWrite, FinishLatch, FinishClear, Leave,
             ghost
    <3>4. Set => UNCHANGED <<standing, paused>>
      BY <2>4 DEF Set, SetConflict, Leave, ghost
    <3>5. Receipt => UNCHANGED <<standing, paused>>
      BY DEF Receipt, PublishRefused, PublishReceipt, DropProjection, ClaimDenied,
             ClaimExpired, ClaimActivate, ClaimReceipt, PendingExpire, PendingDone, Leave,
             ghost
    <3>6. Prune => UNCHANGED <<standing, paused>>
      BY DEF Prune, PruneStart, PruneReceipt, PruneDone, PruneEnvelope, PruneOrphan, ghost
    <3>7. Crash \/ Read \/ (\E o \in Ops : Expire(o)) => UNCHANGED <<standing, paused>>
      BY DEF Crash, Leave, Read, ReadBefore, ReadControl, ReadAfter, Expire, ghost
    <3> QED
      BY <2>b, <3>1, <3>2, <3>3, <3>4, <3>5, <3>6, <3>7 DEF Next, Transaction, vars, ghost
  <2> QED
    BY <2>1, <2>2, <2>3, <2>4
<1> QED
  BY <1>1, <1>2, LedgerInvariant, PTL DEF Spec, ImplementsStopIntent, Intent!Spec

-------------------------------------------------------------------------------
(***************************************************************************)
(* The lock-free read                                                      *)
(***************************************************************************)

\* A transaction that the reader cannot notice seals no stop.
Unnoticed == hot' = hot /\ projection' = projection /\ standing' \subseteq standing
Noticed == hot' = [hot EXCEPT !.stable = FALSE]

LEMMA NoticedWrites ==
  ASSUME NEW entries, WriteProjection(entries), standing' = standing
  PROVE  Unnoticed \/ Noticed
  BY DEF WriteProjection, Unnoticed, Noticed

LEMMA NoticedSteps ==
  ASSUME LedgerInv, [Next]_vars
  PROVE  Unnoticed \/ Noticed \/ Read
<1> USE DEF ghost
<1>1. ASSUME UNCHANGED <<hot, projection, standing>> PROVE Unnoticed
  BY <1>1 DEF Unnoticed
<1>2. CASE BeginAny
  BY <1>1, <1>2 DEF BeginAny, BeginSubmit, BeginRecover, BeginSet, BeginClaim, BeginReceipt,
         BeginPending, BeginLatch, BeginPrune, Begin, files
<1>3. ASSUME Leave PROVE Unnoticed
  BY <1>1, <1>3 DEF Leave, files
<1>4. CASE Recover
  <2>1. CASE RecoverProjection
    BY <2>1, NoticedWrites DEF RecoverProjection
  <2>2. CASE RecoverReordered
    BY <2>2 DEF RecoverReordered, Noticed
  <2> QED
    BY <1>1, <1>3, <1>4, <2>1, <2>2
       DEF Recover, RecoverEnvelope, RecoverControl, RecoverRaises, RecoverOnly
<1>5. CASE Submit
  <2>1. CASE SubmitSeal
    <3>1. projection[arg.op] # "pending"
      BY <2>1 DEF SubmitSeal, LedgerInv, RecoveredInv, Recovered
    <3>2. projection # [projection EXCEPT ![arg.op] = "pending"]
      BY <2>1, <3>1 DEF SubmitSeal, LedgerInv, TypeOK
    <3> QED
      BY <2>1, <3>2 DEF SubmitSeal, WriteProjection, Noticed
  <2>2. CASE FinishClear
    BY <2>2, NoticedWrites DEF FinishClear
  <2> QED
    BY <1>1, <1>3, <1>5, <2>1, <2>2
       DEF Submit, SubmitDuplicate, SubmitConflict, SubmitFresh, SubmitFull,
           SubmitEnvelope, SubmitCreate, SubmitWrite, FinishLatch, files
<1>6. CASE Set
  BY <1>1, <1>3, <1>6 DEF Set, SetConflict, SetEnabled, SetDisabled, Unnoticed
<1>7. CASE Receipt
  <2>1. CASE DropProjection
    BY <2>1, NoticedWrites DEF DropProjection
  <2> QED
    BY <1>1, <1>3, <1>7, <2>1
       DEF Receipt, PublishRefused, PublishReceipt, ClaimDenied, ClaimExpired,
           ClaimActivate, ClaimReceipt, PendingExpire, PendingDone, files
<1>8. CASE Prune
  BY <1>1, <1>8 DEF Prune, PruneStart, PruneReceipt, PruneDone, PruneEnvelope,
         PruneOrphan, files
<1>9. CASE Crash \/ \E o \in Ops : Expire(o)
  BY <1>1, <1>3, <1>9 DEF Crash, Expire, files
<1>10. CASE UNCHANGED vars
  BY <1>1, <1>10 DEF vars, files
<1> QED
  BY <1>2, <1>4, <1>5, <1>6, <1>7, <1>8, <1>9, <1>10 DEF Next, Transaction

LEMMA HotNext == LedgerInv /\ HotInv /\ [Next]_vars => HotInv'
<1> SUFFICES ASSUME LedgerInv, HotInv, [Next]_vars PROVE HotInv'
  OBVIOUS
<1>1. CASE Unnoticed
  BY <1>1 DEF Unnoticed, HotInv
<1>2. CASE Noticed
  <2>1. ~hot'.stable
    BY <1>2 DEF Noticed, LedgerInv, TypeOK, HotRead
  <2> QED
    BY <2>1 DEF HotInv
<1>3. CASE Read
  <2>1. ASSUME NEW w \in Workers, ReadBefore(w) PROVE HotInv'
    BY <2>1 DEF ReadBefore, HotInv
  <2>2. CASE ReadControl
    <3>1. hot'.enabled = control[InstOf[hot.worker]].enabled /\ hot'.worker = hot.worker
      BY <2>2 DEF ReadControl, LedgerInv, TypeOK, HotRead
    <3>2. standing' = standing /\ projection' = projection
      BY <2>2 DEF ReadControl, files, ghost
    <3> QED
      BY <3>1, <3>2 DEF HotInv, LedgerInv, StandingInv, TypeOK
  <2>3. CASE ReadAfter
    <3>1. Verdict # "after"
      BY DEF Verdict
    <3>2. hot'.at # "after"
      BY <2>3, <3>1 DEF ReadAfter, LedgerInv, TypeOK, HotRead
    <3> QED
      BY <3>2 DEF HotInv
  <2> QED
    BY <1>3, <2>1, <2>2, <2>3 DEF Read
<1> QED
  BY <1>1, <1>2, <1>3, NoticedSteps

\* A granting lock-free read overlooks no standing stop of its instance.
THEOREM HotReads == Spec => HotReadSound
<1>1. Init => HotInv
  BY DEF Init, HotInv
<1>2. LedgerInv /\ HotInv /\ [Next]_vars
        => [(hot.at = "after" /\ hot'.at = "granted")
              => \A s \in standing : Inst(s) # InstOf[hot.worker]]_vars
  <2> SUFFICES ASSUME LedgerInv, HotInv, [Next]_vars, hot.at = "after",
                      hot'.at = "granted", NEW s \in standing, Inst(s) = InstOf[hot.worker]
               PROVE  FALSE
    OBVIOUS
  <2>1. ~(Unnoticed \/ Noticed)
    BY DEF Unnoticed, Noticed, LedgerInv, TypeOK, HotRead
  <2>2. ReadAfter
    BY <2>1, NoticedSteps DEF Read, ReadBefore, ReadControl
  <2>3. hot.stable /\ Verdict = "granted"
    BY <2>2 DEF ReadAfter, LedgerInv, TypeOK, HotRead
  <2>4. hot.enabled /\ ~Denies(s)
    BY <2>3 DEF Verdict, LedgerInv, TypeOK
  <2>5. projection[s] = "pending"
    BY <2>3, <2>4 DEF HotInv
  <2> QED
    BY <2>4, <2>5 DEF Denies
<1> QED
  BY <1>1, <1>2, HotNext, LedgerInvariant, PTL DEF Spec, HotReadSound
===============================================================================
