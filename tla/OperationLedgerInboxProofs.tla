---------------------- MODULE OperationLedgerInboxProofs ----------------------
(***************************************************************************)
(* Proofs about what OperationLedger keeps in its inbox, for every set of  *)
(* operations, every limit and every number of crashes: an operation is    *)
(* claimed once, a deduplication id has one owner, the inbox never exceeds *)
(* its limit, and a truncated envelope blocks every claim.                 *)
(***************************************************************************)
EXTENDS OperationLedgerProofs, FiniteSetTheorems

USE LedgerAssumption

\* What InboxInv says besides the owners.
SeenInv == ReadableInv /\ ClaimedInv /\ ClaimerInv /\ ClaimedOnce /\ FreshInv

LEMMA ArgType == LedgerInv => arg \in Arguments /\ arg.op \in Ops /\ arg.victim \in Ops
  BY DEF LedgerInv, TypeOK, Arguments

-------------------------------------------------------------------------------
(***************************************************************************)
(* Who owns a place in the inbox                                           *)
(***************************************************************************)

\* After recovery every projected stop has its envelope: the owners are the records.
LEMMA OwnersRecorded == LedgerInv /\ Recovered => Owners = Records
<1> SUFFICES ASSUME LedgerInv, Recovered, NEW s \in StopOps, projection[s] # "absent"
             PROVE  s \in Records
  BY DEF Owners
<1>1. projection[s] = "settled"
  BY DEF LedgerInv, RecoveredInv, TypeOK
<1> QED
  BY <1>1 DEF LedgerInv, FilesInv, Retained, Records

\* Past recovery there is no truncated envelope either, so owning is being retained.
LEMMA OwnersRetained == LedgerInv /\ ReadableInv /\ Recovered
                          => \A o \in Owners : o \in Ops /\ Retained(o)
<1> SUFFICES ASSUME LedgerInv, ReadableInv, Recovered, NEW o \in Owners
             PROVE  o \in Ops /\ Retained(o)
  OBVIOUS
<1>1. o \in Ops /\ envelope[o] # "none"
  BY OwnersRecorded DEF Records
<1>2. envelope[o] # "torn"
  BY <1>1 DEF ReadableInv, Torn
<1> QED
  BY <1>1, <1>2 DEF Retained, LedgerInv, TypeOK

\* A publication of entries that mentions no new stop adds no owner.
LEMMA OwnersWrite ==
  ASSUME LedgerInv, NEW entries \in [StopOps -> {"absent", "pending", "settled"}],
         WriteProjection(entries), UNCHANGED envelope,
         \A s \in StopOps : entries[s] # "absent" => s \in Owners
  PROVE  Owners' \subseteq Owners
<1>1. projection' = entries
  BY DEF WriteProjection, LedgerInv, TypeOK
<1> QED
  BY <1>1 DEF Owners, Records

\* The two steps that add an owner: the write-ahead entry of a stop and the creation of
\* any other envelope, each after counting the records.
Admits == SubmitSeal \/ SubmitCreate

LEMMA OwnersAdmitted ==
  ASSUME LedgerInv, Admits
  PROVE  /\ pc = "admit" /\ arg.call = "submit" /\ arg.op \in Ops
         /\ Cardinality(Records) < MaxRecords
         /\ Owners = Records
         /\ Owners' = Records \cup {arg.op}
<1>1. pc = "admit" /\ arg.call = "submit" /\ arg.op \in Ops /\ Recovered
  BY ArgType DEF Admits, SubmitSeal, SubmitCreate, LedgerInv, HolderInv, Recovered
<1>2. Owners = Records
  BY <1>1, OwnersRecorded
<1>3. CASE SubmitSeal
  <2>1. projection' = [projection EXCEPT ![arg.op] = "pending"] /\ envelope' = envelope
    BY <1>3 DEF SubmitSeal, WriteProjection, LedgerInv, TypeOK
  <2>2. Owners' = Owners \cup {arg.op}
    BY <1>3, <2>1 DEF SubmitSeal, Owners, Records, LedgerInv, TypeOK
  <2> QED
    BY <1>1, <1>2, <1>3, <2>2 DEF SubmitSeal
<1>4. CASE SubmitCreate
  <2>1. projection' = projection /\ envelope' = [envelope EXCEPT ![arg.op] = "torn"]
    BY <1>4 DEF SubmitCreate
  <2>2. Owners' = Owners \cup {arg.op}
    BY <1>1, <2>1 DEF Owners, Records, LedgerInv, TypeOK
  <2> QED
    BY <1>1, <1>2, <1>4, <2>2 DEF SubmitCreate
<1> QED
  BY <1>3, <1>4 DEF Admits

\* Every other step keeps the owners or removes some: recovery writes only envelopes of
\* projected stops and projects only retained ones.
LEMMA OwnersKept ==
  ASSUME LedgerInv, ReadableInv, [Next]_vars, ~Admits
  PROVE  Owners' \subseteq Owners
<1>a. ASSUME UNCHANGED files PROVE Owners' \subseteq Owners
  BY <1>a DEF files, Owners, Records
<1>b. ASSUME Leave PROVE Owners' \subseteq Owners
  BY <1>a, <1>b DEF Leave
<1>c. ASSUME UNCHANGED <<envelope, projection>> PROVE Owners' \subseteq Owners
  BY <1>c DEF Owners, Records
<1>d. arg \in Arguments /\ arg.op \in Ops
  BY ArgType
<1>1. CASE BeginAny
  BY <1>a, <1>1 DEF BeginAny, BeginSubmit, BeginRecover, BeginSet, BeginClaim,
         BeginReceipt, BeginPending, BeginLatch, BeginPrune, Begin
<1>2. CASE Recover
  <2>1. ASSUME NEW s \in StopOps, RecoverEnvelope(s) PROVE Owners' \subseteq Owners
    BY <2>1 DEF RecoverEnvelope, Orphaned, Owners, Records, LedgerInv, TypeOK
  <2>2. ASSUME NEW s \in StopOps, RecoverControl(s) PROVE Owners' \subseteq Owners
    BY <2>2, <1>c DEF RecoverControl
  <2>3. CASE RecoverProjection
    <3>1. Rebuilt \in [StopOps -> {"absent", "pending", "settled"}]
      BY DEF Rebuilt
    <3>2. \A s \in StopOps : Rebuilt[s] # "absent" => s \in Owners
      BY DEF Rebuilt, Retained, Owners, Records
    <3> QED
      BY <2>3, <3>1, <3>2, OwnersWrite DEF RecoverProjection
  <2> QED
    BY <1>2, <1>a, <1>b, <2>1, <2>2, <2>3
       DEF Recover, RecoverRaises, RecoverReordered, RecoverOnly
<1>3. CASE Submit
  <2>1. CASE SubmitEnvelope
    <3>1. arg.op \in StopOps /\ projection[arg.op] # "absent"
      BY <2>1 DEF SubmitEnvelope, LedgerInv, HolderInv
    <3> QED
      BY <2>1, <3>1 DEF SubmitEnvelope, Owners, Records, LedgerInv, TypeOK
  <2>2. CASE SubmitWrite
    <3>1. envelope[arg.op] # "none"
      BY <2>2 DEF SubmitWrite, ReadableInv
    <3> QED
      BY <1>d, <2>2, <3>1 DEF SubmitWrite, Owners, Records, LedgerInv, TypeOK
  <2>3. CASE FinishLatch
    BY <2>3, <1>c DEF FinishLatch
  <2>4. CASE FinishClear
    <3> DEFINE entries == [projection EXCEPT ![arg.op] = IF @ = "pending" THEN "settled"
                                                         ELSE @]
    <3>1. /\ entries \in [StopOps -> {"absent", "pending", "settled"}]
          /\ \A s \in StopOps : entries[s] # "absent" => projection[s] # "absent"
      BY DEF LedgerInv, TypeOK
    <3>2. WriteProjection(entries) /\ UNCHANGED envelope
      BY <2>4 DEF FinishClear
    <3> HIDE DEF entries
    <3> QED
      BY <3>1, <3>2, OwnersWrite DEF Owners
  <2> QED
    BY <1>3, <1>a, <1>b, <2>1, <2>2, <2>3, <2>4
       DEF Submit, Admits, SubmitDuplicate, SubmitConflict, SubmitFresh, SubmitFull
<1>4. CASE Set
  BY <1>4, <1>b, <1>c DEF Set, SetConflict, SetEnabled, SetDisabled
<1>5. CASE Receipt
  <2>1. CASE PublishReceipt
    BY <2>1, <1>c DEF PublishReceipt
  <2>2. CASE DropProjection
    <3> DEFINE entries == [projection EXCEPT ![arg.op] = IF @ = "settled" THEN "absent"
                                                         ELSE @]
    <3>1. /\ entries \in [StopOps -> {"absent", "pending", "settled"}]
          /\ \A s \in StopOps : entries[s] # "absent" => projection[s] # "absent"
      BY DEF LedgerInv, TypeOK
    <3>2. WriteProjection(entries) /\ UNCHANGED envelope
      BY <2>2 DEF DropProjection
    <3> HIDE DEF entries
    <3> QED
      BY <3>1, <3>2, OwnersWrite DEF Owners
  <2> QED
    BY <1>5, <1>a, <1>b, <2>1, <2>2
       DEF Receipt, PublishRefused, ClaimDenied, ClaimExpired, ClaimActivate,
           ClaimReceipt, PendingExpire, PendingDone
<1>6. CASE Prune
  <2>1. ASSUME NEW o \in Ops, PruneEnvelope(o) PROVE Owners' \subseteq Owners
    BY <2>1 DEF PruneEnvelope, Owners, Records, LedgerInv, TypeOK
  <2>2. ASSUME NEW o \in Ops, PruneOrphan(o) PROVE Owners' \subseteq Owners
    BY <2>2, <1>c DEF PruneOrphan
  <2>3. CASE PruneReceipt
    BY <2>3, <1>c DEF PruneReceipt
  <2> QED
    BY <1>6, <1>a, <2>1, <2>2, <2>3 DEF Prune, PruneStart, PruneDone
<1>7. CASE Crash \/ Read \/ \E o \in Ops : Expire(o)
  BY <1>7, <1>a, <1>b DEF Crash, Read, ReadBefore, ReadControl, ReadAfter, Expire
<1>8. CASE UNCHANGED vars
  BY <1>8, <1>a DEF vars
<1> QED
  BY <1>1, <1>2, <1>3, <1>4, <1>5, <1>6, <1>7, <1>8 DEF Next, Transaction

-------------------------------------------------------------------------------
(***************************************************************************)
(* What the holder of the lock has seen                                    *)
(***************************************************************************)

\* A step that publishes nothing leaves the claims as they were.
LEMMA ClaimsKept ==
  ASSUME LedgerInv, SeenInv, UNCHANGED <<files, ghost>>
  PROVE  ClaimedInv' /\ ClaimedOnce' /\ Owners' = Owners /\ Torn' = Torn
  BY DEF SeenInv, ClaimedInv, ClaimedOnce, Retained, Owners, Records, Torn, files, ghost

LEMMA SeenLeave == LedgerInv /\ SeenInv /\ Leave => SeenInv'
<1> SUFFICES ASSUME LedgerInv, SeenInv, Leave PROVE SeenInv'
  OBVIOUS
<1>1. ClaimedInv' /\ ClaimedOnce' /\ pc' = "idle"
  BY ClaimsKept DEF Leave, Goto
<1> QED
  BY <1>1 DEF SeenInv, ReadableInv, Recovered, ClaimerInv, FreshInv

LEMMA SeenBegin == LedgerInv /\ SeenInv /\ BeginAny => SeenInv'
<1> SUFFICES ASSUME LedgerInv, SeenInv, BeginAny PROVE SeenInv'
  OBVIOUS
<1>1. UNCHANGED <<files, ghost>>
  BY DEF BeginAny, BeginSubmit, BeginRecover, BeginSet, BeginClaim, BeginReceipt,
         BeginPending, BeginLatch, BeginPrune, Begin
<1>2. ClaimedInv' /\ ClaimedOnce'
  BY <1>1, ClaimsKept
<1>3. \/ pc' \in {"recover", "latch"}
      \/ pc' = "body" /\ arg'.call = "pending"
      \/ pc' = "publish" /\ arg'.call = "receipt"
  <2> USE NoArgType DEF Begin, Arguments
  <2>1. ASSUME NEW o \in Ops, BeginPending(o)
        PROVE  pc' = "body" /\ arg'.call = "pending"
    BY <2>1 DEF BeginPending
  <2>2. ASSUME NEW o \in Ops, NEW state \in Outcomes, BeginReceipt(o, state)
        PROVE  pc' = "publish" /\ arg'.call = "receipt"
    BY <2>2 DEF BeginReceipt
  <2> QED
    BY <2>1, <2>2 DEF BeginAny, BeginSubmit, BeginRecover, BeginSet, BeginClaim,
                      BeginLatch, BeginPrune
<1> QED
  BY <1>2, <1>3 DEF SeenInv, ReadableInv, Recovered, ClaimerInv, FreshInv

LEMMA SeenRecover == LedgerInv /\ SeenInv /\ Recover => SeenInv'
<1> SUFFICES ASSUME LedgerInv, SeenInv, Recover PROVE SeenInv'
  OBVIOUS
<1>1. ASSUME NEW s \in StopOps, RecoverEnvelope(s) PROVE SeenInv'
  <2> USE <1>1 DEF RecoverEnvelope, ghost, txn
  <2>1. \A o \in Ops : Retained(o) => Retained(o)'
    BY DEF Retained, LedgerInv, TypeOK
  <2> QED
    BY <2>1 DEF SeenInv, ReadableInv, Recovered, ClaimedInv, ClaimerInv, ClaimedOnce,
                FreshInv
<1>2. ASSUME NEW s \in StopOps, RecoverControl(s) PROVE SeenInv'
  BY <1>2 DEF RecoverControl, ghost, txn, SeenInv, ReadableInv, Recovered, ClaimedInv,
              ClaimerInv, ClaimedOnce, FreshInv, Retained
<1>3. CASE RecoverRaises \/ RecoverOnly
  BY <1>3, SeenLeave DEF RecoverRaises, RecoverOnly
<1>4. CASE RecoverProjection \/ RecoverReordered
  <2>1. pc = "recover" /\ pc' = "body" /\ arg' = arg /\ ~Torn
    BY <1>4 DEF RecoverProjection, RecoverReordered, Goto, Unreadable
  <2>2. UNCHANGED <<envelope, receipt, pruned, claims>>
    BY <1>4 DEF RecoverProjection, RecoverReordered, files, ghost
  <2>3. ClaimedInv' /\ ClaimedOnce' /\ ~Torn'
    BY <2>1, <2>2 DEF SeenInv, ClaimedInv, ClaimedOnce, Retained, Torn
  <2> QED
    BY <2>1, <2>3 DEF SeenInv, ReadableInv, ClaimerInv, FreshInv
<1> QED
  BY <1>1, <1>2, <1>3, <1>4 DEF Recover

LEMMA SeenSubmit == LedgerInv /\ SeenInv /\ Submit => SeenInv'
<1> SUFFICES ASSUME LedgerInv, SeenInv, Submit PROVE SeenInv'
  OBVIOUS
<1>a. arg \in Arguments /\ arg.op \in Ops
  BY ArgType
<1>1. ASSUME NEW e \in Ops, SubmitDuplicate(e) PROVE SeenInv'
  <2>1. ClaimedInv' /\ ClaimedOnce' /\ pc' = "latch"
    BY <1>1, ClaimsKept DEF SubmitDuplicate, Goto
  <2> QED
    BY <2>1 DEF SeenInv, ReadableInv, Recovered, ClaimerInv, FreshInv
<1>2. ASSUME NEW e \in Ops, SubmitConflict(e) PROVE SeenInv'
  BY <1>2, SeenLeave DEF SubmitConflict
<1>3. CASE SubmitFresh
  <2>1. /\ ClaimedInv' /\ ClaimedOnce' /\ Owners' = Owners /\ Torn' = Torn
        /\ pc' = "prune" /\ arg' = arg /\ arg.call = "submit" /\ Recovered
    BY <1>3, ClaimsKept DEF SubmitFresh, Goto, Recovered
  <2>2. \A o \in Owners : Dedup[o] # Dedup[arg.op]
    BY <1>3, <2>1, OwnersRetained DEF SubmitFresh, SeenInv
  <2>3. ReadableInv' /\ FreshInv' /\ ClaimerInv'
    BY <2>1, <2>2 DEF SeenInv, ReadableInv, FreshInv, ClaimerInv
  <2> QED
    BY <2>1, <2>3 DEF SeenInv
<1>4. CASE SubmitFull
  BY <1>4, SeenLeave DEF SubmitFull
<1>5. CASE SubmitSeal
  <2>1. pc' = "envelope" /\ UNCHANGED <<envelope, receipt, pruned, claims>>
    BY <1>5 DEF SubmitSeal, Goto
  <2> QED
    BY <2>1 DEF SeenInv, ReadableInv, Recovered, ClaimedInv, ClaimerInv, ClaimedOnce,
                FreshInv, Retained
<1>6. CASE SubmitEnvelope
  <2>1. pc' = "latch" /\ UNCHANGED <<receipt, pruned, claims>>
    BY <1>6 DEF SubmitEnvelope, Goto, ghost
  <2>2. \A o \in Ops : Retained(o) => Retained(o)'
    BY <1>6, <1>a DEF SubmitEnvelope, Retained, LedgerInv, TypeOK
  <2> QED
    BY <2>1, <2>2 DEF SeenInv, ReadableInv, Recovered, ClaimedInv, ClaimerInv,
                      ClaimedOnce, FreshInv
<1>7. CASE SubmitCreate
  <2>1. /\ pc' = "write" /\ arg' = arg /\ UNCHANGED <<receipt, pruned, claims>>
        /\ envelope' = [envelope EXCEPT ![arg.op] = "torn"]
    BY <1>7 DEF SubmitCreate, Goto, ghost
  <2>2. ~Retained(arg.op) /\ envelope'[arg.op] = "torn"
    BY <1>7, <1>a, <2>1 DEF SubmitCreate, LedgerInv, HolderInv, TypeOK
  <2>3. \A o \in Ops : Retained(o) => Retained(o)'
    BY <1>a, <2>1, <2>2 DEF Retained, LedgerInv, TypeOK
  <2> QED
    BY <2>1, <2>2, <2>3 DEF SeenInv, ReadableInv, Recovered, ClaimedInv, ClaimerInv,
                            ClaimedOnce, FreshInv
<1>8. CASE SubmitWrite
  <2>1. pc' = "idle" /\ UNCHANGED <<receipt, pruned, claims>>
    BY <1>8 DEF SubmitWrite, Goto, ghost
  <2>2. \A o \in Ops : Retained(o) => Retained(o)'
    BY <1>8, <1>a DEF SubmitWrite, Retained, LedgerInv, TypeOK
  <2> QED
    BY <2>1, <2>2 DEF SeenInv, ReadableInv, Recovered, ClaimedInv, ClaimerInv,
                      ClaimedOnce, FreshInv
<1>9. CASE FinishLatch \/ FinishClear
  <2>1. pc' \in {"clear", "idle"} /\ UNCHANGED <<envelope, receipt, pruned, claims>>
    BY <1>9 DEF FinishLatch, FinishClear, Goto, ghost
  <2> QED
    BY <2>1 DEF SeenInv, ReadableInv, Recovered, ClaimedInv, ClaimerInv, ClaimedOnce,
                FreshInv, Retained
<1> QED
  BY <1>1, <1>2, <1>3, <1>4, <1>5, <1>6, <1>7, <1>8, <1>9 DEF Submit

LEMMA SeenSet == LedgerInv /\ SeenInv /\ Set => SeenInv'
<1> SUFFICES ASSUME LedgerInv, SeenInv, Set PROVE SeenInv'
  OBVIOUS
<1>1. CASE SetConflict
  BY <1>1, SeenLeave DEF SetConflict
<1>2. CASE SetEnabled \/ SetDisabled
  <2>1. pc' = "idle" /\ UNCHANGED <<envelope, receipt, pruned, claims>>
    BY <1>2 DEF SetEnabled, SetDisabled, Goto
  <2> QED
    BY <2>1 DEF SeenInv, ReadableInv, Recovered, ClaimedInv, ClaimerInv, ClaimedOnce,
                FreshInv, Retained
<1> QED
  BY <1>1, <1>2 DEF Set

\* An operation whose receipt admits a claim, or that can still be claimed, has none yet.
LEMMA Unclaimed ==
  ASSUME LedgerInv, SeenInv, NEW o \in Ops, Retained(o), receipt[o] \in {"none", "accepted"}
  PROVE  claims[o] = 0
  BY DEF LedgerInv, NoResurrection, SeenInv, ClaimedInv, Retained

\* A receipt never goes back to one that admits a claim.
LEMMA ReceiptForward ==
  ASSUME LedgerInv, PublishReceipt, receipt[arg.op] \notin {"none", "accepted"}
  PROVE  arg.state \notin {"none", "accepted"}
<1>1. receipt[arg.op] \in {"active"} \cup Terminal
  BY ArgType DEF LedgerInv, TypeOK, States
<1> QED
  BY <1>1 DEF PublishReceipt, Allowed, Terminal

\* The step at which claim_for_execution returns True counts the first claim.
LEMMA ReturnsOnce ==
  ASSUME LedgerInv, SeenInv, Returns, pc \in {"publish", "drop"},
         UNCHANGED <<envelope, pruned>>, Retained(arg.op),
         \A o \in Ops : o # arg.op => receipt'[o] = receipt[o],
         claims[arg.op] # 0 \/ Activates => receipt'[arg.op] \notin {"none", "accepted"}
  PROVE  ClaimedInv' /\ ClaimedOnce'
<1>a. arg \in Arguments /\ arg.op \in Ops
  BY ArgType
<1>b. claims \in [Ops -> Nat]
  BY DEF LedgerInv, TypeOK
<1>1. CASE ~Activates
  <2>1. claims' = claims
    BY <1>1 DEF Returns
  <2> QED
    BY <2>1, <1>a DEF SeenInv, ClaimedInv, ClaimedOnce, Retained
<1>2. CASE Activates
  <2>1. claims[arg.op] = 0
    BY <1>2 DEF SeenInv, ClaimerInv, Activates
  <2>2. \A o \in Ops : claims'[o] = IF o = arg.op THEN 1 ELSE claims[o]
    BY <1>2, <1>a, <1>b, <2>1 DEF Returns
  <2> QED
    BY <1>2, <2>2, <1>a, <1>b DEF SeenInv, ClaimedInv, ClaimedOnce, Retained
<1> QED
  BY <1>1, <1>2

LEMMA SeenReceipt == LedgerInv /\ SeenInv /\ Receipt => SeenInv'
<1> SUFFICES ASSUME LedgerInv, SeenInv, Receipt PROVE SeenInv'
  OBVIOUS
<1>a. arg \in Arguments /\ arg.op \in Ops
  BY ArgType
<1>1. CASE PublishRefused \/ ClaimDenied \/ PendingDone
  BY <1>1, SeenLeave DEF PublishRefused, ClaimDenied, PendingDone
<1>2. CASE PublishReceipt
  <2> USE <1>2 DEF PublishReceipt
  <2>1. /\ Retained(arg.op) /\ pc = "publish" /\ UNCHANGED <<envelope, pruned>>
        /\ \A o \in Ops : receipt'[o] = IF o = arg.op THEN arg.state ELSE receipt[o]
    BY <1>a DEF LedgerInv, TypeOK
  <2>2. claims[arg.op] # 0 => arg.state \notin {"none", "accepted"}
    BY <1>a, <2>1, Unclaimed, ReceiptForward
  <2>3. CASE arg.op \in StopOps /\ arg.state # "accepted"
    <3>1. pc' = "drop" /\ arg' = arg /\ claims' = claims
      BY <2>3 DEF Goto
    <3>2. ClaimedInv' /\ ClaimedOnce'
      BY <1>a, <2>1, <2>2, <3>1 DEF SeenInv, ClaimedInv, ClaimedOnce, Retained
    <3>3. ReadableInv' /\ ClaimerInv' /\ FreshInv'
      BY <2>1, <3>1 DEF SeenInv, ReadableInv, Recovered, ClaimerInv, FreshInv, Retained,
                        Torn
    <3> QED
      BY <3>2, <3>3 DEF SeenInv
  <2>4. CASE ~(arg.op \in StopOps /\ arg.state # "accepted")
    <3>1. Returns
      BY <2>4
    <3>2. ClaimedInv' /\ ClaimedOnce'
      BY <1>a, <2>1, <2>2, <3>1, ReturnsOnce DEF Activates
    <3>3. \/ pc' = "idle" \/ (pc' = "body" /\ arg' = arg /\ arg.call = "pending")
          \/ /\ pc' = "publish" /\ arg.call = "claim" /\ arg'.call = "claim"
             /\ arg'.op = arg.op /\ ~Activates
      BY <2>4, <1>a DEF Goto, AfterReceipt, Activates, Arguments
    <3>4. ReadableInv' /\ ClaimerInv' /\ FreshInv'
      <4>1. CASE pc' = "publish"
        <5>1. claims' = claims /\ ~Torn
          BY <2>1, <3>1, <3>3, <4>1 DEF Returns, SeenInv, ReadableInv
        <5> QED
          BY <2>1, <3>3, <4>1, <5>1 DEF SeenInv, ReadableInv, Recovered, ClaimerInv,
                                        FreshInv, Torn
      <4>2. CASE pc' # "publish"
        BY <3>3, <4>2 DEF ReadableInv, Recovered, ClaimerInv, FreshInv
      <4> QED
        BY <4>1, <4>2
    <3> QED
      BY <3>2, <3>4 DEF SeenInv
  <2> QED
    BY <2>3, <2>4
<1>3. CASE DropProjection
  <2> USE <1>3 DEF DropProjection
  <2>1. /\ Retained(arg.op) /\ receipt[arg.op] \notin {"none", "accepted"}
        /\ UNCHANGED <<envelope, receipt, pruned>> /\ Returns
    BY DEF SeenInv, ClaimerInv, LedgerInv, HolderInv
  <2>2. ClaimedInv' /\ ClaimedOnce'
    BY <1>a, <2>1, ReturnsOnce
  <2>3. \/ pc' = "idle" \/ (pc' = "body" /\ arg' = arg /\ arg.call = "pending")
        \/ pc' = "publish" /\ arg.call = "claim" /\ arg' = arg /\ ~Activates
    BY DEF Goto, AfterReceipt, Activates
  <2>4. ReadableInv' /\ ClaimerInv' /\ FreshInv'
    BY <2>1, <2>3 DEF Returns, SeenInv, ReadableInv, Recovered, ClaimerInv, FreshInv, Torn
  <2> QED
    BY <2>2, <2>4 DEF SeenInv
<1>4. ASSUME NEW state \in States, ClaimReceipt(state) PROVE SeenInv'
  <2>1. /\ pc' = "publish" /\ arg'.call = "claim" /\ arg'.op = arg.op
        /\ UNCHANGED <<files, ghost>>
    BY <1>4, <1>a DEF ClaimReceipt, Goto, Arguments
  <2>2. claims[arg.op] = 0 /\ ~Torn
    BY <1>4, <1>a, Unclaimed DEF ClaimReceipt, SeenInv, ReadableInv, Recovered
  <2>3. ClaimedInv' /\ ClaimedOnce' /\ ~Torn' /\ claims' = claims
    BY <2>1, <2>2, ClaimsKept DEF ghost
  <2> QED
    BY <2>1, <2>2, <2>3 DEF SeenInv, ReadableInv, ClaimerInv, FreshInv
<1>5. CASE ClaimExpired \/ ClaimActivate
  BY <1>4, <1>5 DEF ClaimExpired, ClaimActivate, States, Terminal
<1>6. ASSUME NEW o \in Ops, PendingExpire(o) PROVE SeenInv'
  <2>1. pc' = "publish" /\ arg'.call = "pending" /\ UNCHANGED <<files, ghost>>
    BY <1>6, <1>a DEF PendingExpire, Goto, Arguments
  <2>2. ClaimedInv' /\ ClaimedOnce'
    BY <2>1, ClaimsKept
  <2> QED
    BY <2>1, <2>2 DEF SeenInv, ReadableInv, Recovered, ClaimerInv, FreshInv
<1> QED
  BY <1>1, <1>2, <1>3, <1>5, <1>6 DEF Receipt

LEMMA SeenPrune == LedgerInv /\ SeenInv /\ Prune => SeenInv'
<1> SUFFICES ASSUME LedgerInv, SeenInv, Prune PROVE SeenInv'
  OBVIOUS
<1>a. arg \in Arguments /\ arg.op \in Ops /\ arg.victim \in Ops
  BY ArgType
<1>1. CASE PruneStart
  <2>1. /\ pc' = "prune" /\ arg' = arg /\ arg.call = "prune" /\ Recovered
        /\ UNCHANGED <<files, ghost>>
    BY <1>1 DEF PruneStart, Goto, Recovered
  <2>2. ClaimedInv' /\ ClaimedOnce' /\ ~Torn'
    BY <2>1, ClaimsKept DEF SeenInv, ReadableInv
  <2> QED
    BY <2>1, <2>2 DEF SeenInv, ReadableInv, ClaimerInv, FreshInv
<1>2. ASSUME NEW o \in Ops, PruneEnvelope(o) PROVE SeenInv'
  <2> USE <1>2 DEF PruneEnvelope
  <2>1. /\ pc = "prune" /\ pc' = "unlink" /\ arg'.call = arg.call /\ arg'.op = arg.op
        /\ UNCHANGED <<receipt, projection, claims>>
    BY <1>a DEF Goto, Arguments
  <2>2. /\ \A e \in Ops : Retained(e) => Retained(e)' \/ e \in pruned'
        /\ ~Torn' /\ Owners' \subseteq Owners
    BY <2>1 DEF Retained, Torn, Owners, Records, LedgerInv, TypeOK, SeenInv, ReadableInv,
                Recovered
  <2> QED
    BY <2>1, <2>2 DEF SeenInv, ReadableInv, ClaimedInv, ClaimerInv, ClaimedOnce, FreshInv
<1>3. ASSUME NEW o \in Ops, ~Retained(o), receipt' = [receipt EXCEPT ![o] = "none"],
             UNCHANGED <<envelope, projection, ghost>>,
             pc' = "prune", arg' = arg, pc \in {"prune", "unlink"}
      PROVE  SeenInv'
  <2>1. \A e \in Ops : Retained(e) => receipt'[e] = receipt[e]
    BY <1>3 DEF LedgerInv, TypeOK
  <2>2. ClaimedInv' /\ ClaimedOnce'
    BY <1>3, <2>1 DEF SeenInv, ClaimedInv, ClaimedOnce, Retained, ghost
  <2>3. ReadableInv' /\ ClaimerInv' /\ FreshInv'
    BY <1>3 DEF SeenInv, ReadableInv, Recovered, ClaimerInv, FreshInv, Torn, Owners,
                Records
  <2> QED
    BY <2>2, <2>3 DEF SeenInv
<1>4. CASE PruneReceipt
  <2>1. ~Retained(arg.victim)
    BY <1>4 DEF PruneReceipt, LedgerInv, HolderInv, Retained
  <2> QED
    BY <1>3, <1>4, <1>a, <2>1 DEF PruneReceipt, Goto
<1>5. ASSUME NEW o \in Ops, PruneOrphan(o) PROVE SeenInv'
  BY <1>3, <1>5 DEF PruneOrphan, Retained, txn
<1>6. CASE PruneDone
  <2>1. /\ pc = "prune" /\ UNCHANGED <<files, ghost>>
        /\ pc' = "idle" \/ (pc' = "admit" /\ arg' = arg)
    BY <1>6 DEF PruneDone, Goto
  <2>2. ClaimedInv' /\ ClaimedOnce' /\ ~Torn' /\ Owners' = Owners
    BY <2>1, ClaimsKept DEF SeenInv, ReadableInv, Recovered
  <2> QED
    BY <2>1, <2>2 DEF SeenInv, ReadableInv, Recovered, ClaimerInv, FreshInv
<1> QED
  BY <1>1, <1>2, <1>4, <1>5, <1>6 DEF Prune

\* Steps outside a transaction: the reader, a deadline, a death.
LEMMA SeenOutside ==
  ASSUME LedgerInv, SeenInv, Crash \/ Read \/ (\E o \in Ops : Expire(o)) \/ UNCHANGED vars
  PROVE  SeenInv'
<1>1. CASE Crash
  BY <1>1, SeenLeave DEF Crash
<1>2. CASE Read \/ (\E o \in Ops : Expire(o)) \/ UNCHANGED vars
  <2>1. UNCHANGED <<files, ghost>> /\ UNCHANGED <<pc, arg>>
    BY <1>2 DEF Read, ReadBefore, ReadControl, ReadAfter, Expire, vars, txn
  <2>2. ClaimedInv' /\ ClaimedOnce' /\ Owners' = Owners /\ Torn' = Torn
    BY <2>1, ClaimsKept
  <2> QED
    BY <2>1, <2>2 DEF SeenInv, ReadableInv, Recovered, ClaimerInv, FreshInv, Retained,
                      files, ghost
<1> QED
  BY <1>1, <1>2

LEMMA SeenNext == LedgerInv /\ SeenInv /\ [Next]_vars => SeenInv'
  BY SeenBegin, SeenRecover, SeenSubmit, SeenSet, SeenReceipt, SeenPrune, SeenOutside
     DEF Next, Transaction

-------------------------------------------------------------------------------
(***************************************************************************)
(* Receipts and envelopes                                                  *)
(***************************************************************************)

\* Only an operation that retention removed loses its envelope, so a receipt is either
\* that of a retained operation or on its way out.
LEMMA OutcomeNext == LedgerInv /\ OutcomeInv /\ [Next]_vars => OutcomeInv'
<1> SUFFICES ASSUME LedgerInv, OutcomeInv, [Next]_vars PROVE OutcomeInv'
  OBVIOUS
<1>a. arg \in Arguments /\ arg.op \in Ops /\ arg.victim \in Ops
  BY ArgType
<1>b. ASSUME UNCHANGED <<envelope, receipt, pruned>>,
             pc' # "unlink" \/ UNCHANGED <<pc, arg>>
      PROVE  OutcomeInv'
  BY <1>b DEF OutcomeInv, Retained
<1>c. ASSUME Leave PROVE OutcomeInv'
  BY <1>b, <1>c DEF Leave, Goto, files, ghost
<1>d. ASSUME UNCHANGED <<receipt, pruned>>, \A o \in Ops : Retained(o) => Retained(o)',
             pc' # "unlink"
      PROVE  OutcomeInv'
  BY <1>d DEF OutcomeInv
<1>1. CASE BeginAny
  BY <1>1, <1>b DEF BeginAny, BeginSubmit, BeginRecover, BeginSet, BeginClaim,
         BeginReceipt, BeginPending, BeginLatch, BeginPrune, Begin, files, ghost
<1>2. CASE Recover
  <2>1. ASSUME NEW s \in StopOps, RecoverEnvelope(s) PROVE OutcomeInv'
    <3>1. \A o \in Ops : Retained(o) => Retained(o)'
      BY <2>1 DEF RecoverEnvelope, Retained, LedgerInv, TypeOK
    <3> QED
      BY <2>1, <3>1, <1>d DEF RecoverEnvelope, ghost, txn
  <2>2. ASSUME NEW s \in StopOps, RecoverControl(s) PROVE OutcomeInv'
    BY <2>2, <1>b DEF RecoverControl, ghost, txn
  <2>3. CASE RecoverProjection \/ RecoverReordered
    BY <2>3, <1>b DEF RecoverProjection, RecoverReordered, Goto, files, ghost
  <2> QED
    BY <1>2, <1>c, <2>1, <2>2, <2>3 DEF Recover, RecoverRaises, RecoverOnly
<1>3. CASE Submit
  <2>1. CASE SubmitEnvelope \/ SubmitWrite
    <3>1. \A o \in Ops : Retained(o) => Retained(o)'
      BY <2>1, <1>a DEF SubmitEnvelope, SubmitWrite, Retained, LedgerInv, TypeOK
    <3> QED
      BY <2>1, <3>1, <1>d DEF SubmitEnvelope, SubmitWrite, Goto, ghost
  <2>2. CASE SubmitCreate
    <3>1. ~Retained(arg.op)
      BY <2>2 DEF SubmitCreate, LedgerInv, HolderInv
    <3>2. \A o \in Ops : Retained(o) => Retained(o)'
      BY <2>2, <3>1, <1>a DEF SubmitCreate, Retained, LedgerInv, TypeOK
    <3> QED
      BY <2>2, <3>2, <1>d DEF SubmitCreate, Goto, ghost
  <2>3. CASE SubmitSeal \/ FinishLatch \/ FinishClear
    BY <2>3, <1>b DEF SubmitSeal, FinishLatch, FinishClear, Goto, ghost
  <2>4. CASE SubmitFresh \/ \E e \in Ops : SubmitDuplicate(e)
    BY <2>4, <1>b DEF SubmitFresh, SubmitDuplicate, Goto, files, ghost
  <2> QED
    BY <1>3, <1>c, <2>1, <2>2, <2>3, <2>4 DEF Submit, SubmitConflict, SubmitFull
<1>4. CASE Set
  BY <1>4, <1>b, <1>c DEF Set, SetConflict, SetEnabled, SetDisabled, Goto
<1>5. CASE Receipt
  <2>1. CASE PublishReceipt
    <3>1. /\ pc' # "unlink" /\ UNCHANGED <<envelope, pruned>> /\ Retained(arg.op)
          /\ \A o \in Ops : o # arg.op => receipt'[o] = receipt[o]
      BY <2>1, <1>a DEF PublishReceipt, Goto, AfterReceipt, LedgerInv, TypeOK
    <3> QED
      BY <3>1 DEF OutcomeInv, Retained
  <2>2. CASE DropProjection
    BY <2>2, <1>b DEF DropProjection, Goto, AfterReceipt
  <2>3. ASSUME NEW state, ClaimReceipt(state) PROVE OutcomeInv'
    BY <2>3, <1>b DEF ClaimReceipt, Goto, files, ghost
  <2>4. ASSUME NEW o \in Ops, PendingExpire(o) PROVE OutcomeInv'
    BY <2>4, <1>b DEF PendingExpire, Goto, files, ghost
  <2> QED
    BY <1>5, <1>c, <2>1, <2>2, <2>3, <2>4
       DEF Receipt, PublishRefused, ClaimDenied, ClaimExpired, ClaimActivate, PendingDone
<1>6. CASE Prune
  <2>1. ASSUME NEW o \in Ops, PruneEnvelope(o) PROVE OutcomeInv'
    <3>1. arg'.victim = o /\ o \in pruned' /\ receipt' = receipt /\ pruned \subseteq pruned'
      BY <2>1, <1>a DEF PruneEnvelope, Goto, Arguments
    <3>2. \A e \in Ops : e # o /\ Retained(e) => Retained(e)'
      BY <2>1 DEF PruneEnvelope, Retained, LedgerInv, TypeOK
    <3> QED
      BY <3>1, <3>2 DEF OutcomeInv
  <2>2. ASSUME NEW o \in Ops, receipt' = [receipt EXCEPT ![o] = "none"],
               UNCHANGED <<envelope, ghost>>, pc' # "unlink"
        PROVE  OutcomeInv'
    BY <2>2 DEF OutcomeInv, Retained, ghost, LedgerInv, TypeOK
  <2>3. CASE PruneReceipt
    BY <2>2, <2>3, <1>a DEF PruneReceipt, Goto
  <2>4. ASSUME NEW o \in Ops, PruneOrphan(o) PROVE OutcomeInv'
    BY <2>2, <2>4 DEF PruneOrphan, txn
  <2>5. CASE PruneStart \/ PruneDone
    BY <2>5, <1>b DEF PruneStart, PruneDone, Goto, files, ghost
  <2> QED
    BY <1>6, <2>1, <2>3, <2>4, <2>5 DEF Prune
<1>7. CASE Crash
  BY <1>7, <1>c DEF Crash
<1>8. CASE Read \/ (\E o \in Ops : Expire(o)) \/ UNCHANGED vars
  BY <1>8, <1>b DEF Read, ReadBefore, ReadControl, ReadAfter, Expire, vars, files, txn,
                    ghost
<1> QED
  BY <1>1, <1>2, <1>3, <1>4, <1>5, <1>6, <1>7, <1>8 DEF Next, Transaction

-------------------------------------------------------------------------------
(***************************************************************************)
(* The inductive invariant of the inbox                                    *)
(***************************************************************************)

LEMMA InboxInit == Init => InboxInv
<1> SUFFICES ASSUME Init PROVE InboxInv
  OBVIOUS
<1>1. Owners = {}
  BY DEF Init, Owners, Records
<1>2. IsFiniteSet(Owners) /\ InboxBounded /\ RetryKeepsFirst /\ FreshInv
  BY <1>1, FS_EmptySet DEF InboxBounded, RetryKeepsFirst, FreshInv
<1>3. ReadableInv /\ ClaimedInv /\ ClaimerInv /\ ClaimedOnce
  BY DEF Init, ReadableInv, Recovered, ClaimedInv, ClaimerInv, ClaimedOnce
<1>4. OutcomeInv
  BY DEF Init, OutcomeInv
<1> QED
  BY <1>2, <1>3, <1>4 DEF InboxInv

\* A step either keeps the owners or removes some, or admits one more after counting.
LEMMA InboxNext == LedgerInv /\ InboxInv /\ [Next]_vars => InboxInv'
<1> SUFFICES ASSUME LedgerInv, InboxInv, [Next]_vars PROVE InboxInv'
  OBVIOUS
<1>1. SeenInv' /\ OutcomeInv'
  BY SeenNext, OutcomeNext DEF InboxInv, SeenInv
<1>2. CASE ~Admits
  <2>1. Owners' \subseteq Owners
    BY <1>2, OwnersKept DEF InboxInv
  <2>2. IsFiniteSet(Owners') /\ Cardinality(Owners') <= Cardinality(Owners)
    BY <2>1, FS_Subset DEF InboxInv
  <2>3. Cardinality(Owners) \in Nat /\ Cardinality(Owners') \in Nat
    BY <2>2, FS_CardinalityType DEF InboxInv
  <2>4. InboxBounded'
    BY <2>2, <2>3 DEF InboxInv, InboxBounded
  <2>5. RetryKeepsFirst'
    BY <2>1 DEF InboxInv, RetryKeepsFirst
  <2> QED
    BY <1>1, <2>2, <2>4, <2>5 DEF InboxInv, SeenInv
<1>3. CASE Admits
  <2>1. /\ pc = "admit" /\ arg.call = "submit" /\ Cardinality(Records) < MaxRecords
        /\ Owners = Records /\ Owners' = Records \cup {arg.op}
    BY <1>3, OwnersAdmitted
  <2>2. /\ IsFiniteSet(Owners') /\ Cardinality(Records) \in Nat
        /\ Cardinality(Owners') <= Cardinality(Records) + 1
    <3>1. IsFiniteSet(Records) /\ Cardinality(Records) \in Nat
      BY <2>1, FS_CardinalityType DEF InboxInv
    <3>2. /\ IsFiniteSet(Records \cup {arg.op})
          /\ Cardinality(Records \cup {arg.op}) =
               IF arg.op \in Records THEN Cardinality(Records) ELSE Cardinality(Records) + 1
      BY <3>1, FS_AddElement
    <3> QED
      BY <2>1, <3>1, <3>2
  <2>3. Cardinality(Owners') \in Nat
    BY <2>2, FS_CardinalityType
  <2>4. InboxBounded'
    BY <2>1, <2>2, <2>3 DEF InboxBounded
  <2>5. RetryKeepsFirst'
    BY <2>1 DEF InboxInv, RetryKeepsFirst, FreshInv
  <2> QED
    BY <1>1, <2>2, <2>4, <2>5 DEF InboxInv, SeenInv
<1> QED
  BY <1>2, <1>3

\* The inbox as every transaction finds it, in every reachable state: the inductive
\* invariant behind the theorems of this module.
THEOREM InboxInvariant == Spec => []InboxInv
  BY InboxInit, InboxNext, LedgerInvariant, PTL DEF Spec

\* claim_for_execution returns True at most once for an operation, whatever workers
\* contend for it, wherever they die and whatever retention removes.
THEOREM ClaimsOnce == Spec => []ClaimedOnce
<1>1. InboxInv => ClaimedOnce
  BY DEF InboxInv
<1> QED
  BY <1>1, InboxInvariant, PTL

\* A deduplication id has at most one owner: submit never publishes a second envelope
\* or write-ahead entry for it.
THEOREM RetriesKeepFirst == Spec => []RetryKeepsFirst
<1>1. InboxInv => RetryKeepsFirst
  BY DEF InboxInv
<1> QED
  BY <1>1, InboxInvariant, PTL

\* The envelopes, with those recovery will still write, never exceed the limit at which
\* _inspect_slot_unlocked raises.
THEOREM InboxStaysBounded == Spec => []InboxBounded
<1>1. InboxInv => InboxBounded
  BY DEF InboxInv
<1> QED
  BY <1>1, InboxInvariant, PTL

\* No claim succeeds while a truncated envelope lies in the inbox.
THEOREM TornBlocksClaims == Spec => TornFailsClosed
<1>1. LedgerInv /\ InboxInv /\ [Next]_vars => [(claims' # claims) => ~Torn]_vars
  <2> SUFFICES ASSUME LedgerInv, InboxInv, [Next]_vars, claims' # claims PROVE ~Torn
    OBVIOUS
  <2>1. PublishReceipt \/ DropProjection
    <3>1. Leave => claims' = claims
      BY DEF Leave, ghost
    <3> QED
      BY <3>1 DEF Next, Transaction, vars, ghost, BeginAny, BeginSubmit, BeginRecover,
         BeginSet, BeginClaim, BeginReceipt, BeginPending, BeginLatch, BeginPrune, Begin,
         Recover, RecoverEnvelope, RecoverControl, RecoverRaises, RecoverProjection,
         RecoverReordered, RecoverOnly, Submit, SubmitDuplicate, SubmitConflict,
         SubmitFresh, SubmitFull, SubmitSeal, SubmitEnvelope, SubmitCreate, SubmitWrite,
         FinishLatch, FinishClear, Set, SetConflict, SetEnabled, SetDisabled, Receipt,
         PublishRefused, ClaimDenied, ClaimExpired, ClaimActivate, ClaimReceipt,
         PendingExpire, PendingDone, Prune, PruneStart, PruneEnvelope, PruneReceipt,
         PruneOrphan, PruneDone, Crash, Read, ReadBefore, ReadControl, ReadAfter, Expire
  <2>2. Activates /\ pc \in {"publish", "drop"}
    BY <2>1 DEF PublishReceipt, DropProjection, Returns
  <2> QED
    BY <2>2 DEF InboxInv, ReadableInv, Activates
<1> QED
  BY <1>1, LedgerInvariant, InboxInvariant, PTL DEF Spec, TornFailsClosed

\* A full inbox never blocks recovery: only a truncated envelope makes the slot
\* unreadable.
THEOREM RecoveryAlwaysReads == Spec => []RecoveryReads
<1>1. InboxInv => RecoveryReads
  <2> SUFFICES ASSUME InboxInv PROVE RecoveryReads
    OBVIOUS
  <2>1. Records \in SUBSET Owners /\ IsFiniteSet(Owners)
    BY DEF Owners, InboxInv
  <2>2. IsFiniteSet(Records) /\ Cardinality(Records) <= Cardinality(Owners)
    BY <2>1, FS_Subset
  <2>3. Cardinality(Records) \in Nat /\ Cardinality(Owners) \in Nat
    BY <2>1, <2>2, FS_CardinalityType
  <2>4. ~(Cardinality(Records) > MaxRecords)
    BY <2>2, <2>3 DEF InboxInv, InboxBounded
  <2> QED
    BY <2>4 DEF RecoveryReads, Unreadable
<1> QED
  BY <1>1, InboxInvariant, PTL

-------------------------------------------------------------------------------
(***************************************************************************)
(* Recovery: what it has done when it ends, and why it ends                *)
(***************************************************************************)

\* The steps of a transaction in recovery that change a file.
LEMMA RecoverySteps ==
  ASSUME LedgerInv, [Next]_vars, pc = "recover"
  PROVE  \/ \E s \in StopOps : RecoverEnvelope(s) \/ RecoverControl(s)
         \/ RecoverProjection \/ RecoverReordered
         \/ UNCHANGED files /\ pc' # "body"
<1>1. CASE BeginAny \/ Set \/ Submit \/ Receipt \/ Prune
  BY <1>1 DEF BeginAny, BeginSubmit, BeginRecover, BeginSet, BeginClaim, BeginReceipt,
         BeginPending, BeginLatch, BeginPrune, Begin, Submit, SubmitDuplicate,
         SubmitConflict, SubmitFresh, SubmitFull, SubmitSeal, SubmitEnvelope, SubmitCreate,
         SubmitWrite, FinishLatch, FinishClear, Set, SetConflict, SetEnabled, SetDisabled,
         Receipt, PublishReceipt, DropProjection, PublishRefused, ClaimDenied,
         ClaimExpired, ClaimActivate, ClaimReceipt, PendingExpire, PendingDone, Prune,
         PruneStart, PruneEnvelope, PruneReceipt, PruneOrphan, PruneDone
<1>2. CASE Recover
  BY <1>2 DEF Recover, RecoverRaises, RecoverOnly, Leave, Goto
<1>3. CASE Crash
  BY <1>3 DEF Crash, Leave, Goto
<1>4. CASE Read \/ (\E o \in Ops : Expire(o)) \/ UNCHANGED vars
  BY <1>4 DEF Read, ReadBefore, ReadControl, ReadAfter, Expire, txn, vars
<1> QED
  BY <1>1, <1>2, <1>3, <1>4 DEF Next, Transaction

\* A transaction past recovery has latched every standing stop.
THEOREM RecoveryLatchesStops == Spec => RecoveryLatches
<1>1. LedgerInv /\ [Next]_vars
        => [pc = "recover" /\ pc' = "body"
              => \A s \in standing : ~control[Inst(s)].enabled]_vars
  <2> SUFFICES ASSUME LedgerInv, [Next]_vars, pc = "recover", pc' = "body",
                      NEW s \in standing
               PROVE  ~control[Inst(s)].enabled
    OBVIOUS
  <2>1. RecoverProjection \/ RecoverReordered
    BY RecoverySteps DEF RecoverEnvelope, RecoverControl, txn
  <2>2. s \in StopOps /\ ~Orphaned(s) /\ ~(Retained(s) /\ NeedsLatch(s)) /\ ~Torn
    BY <2>1 DEF RecoverProjection, RecoverReordered, LedgerInv, TypeOK, Unreadable
  <2> QED
    BY <2>2 DEF LedgerInv, StandingInv, FilesInv, Orphaned, Retained, NeedsLatch, Torn,
                TypeOK
<1> QED
  BY <1>1, LedgerInvariant, PTL DEF Spec, RecoveryLatches

\* Every publication of recovery leaves strictly less to publish.
THEOREM RecoveryEnds == Spec => RecoveryShrinks
<1>1. LedgerInv /\ [Next]_vars
        => [pc = "recover" /\ pc' = "recover" /\ files' # files
              => Unfinished' \subseteq Unfinished /\ Unfinished' # Unfinished]_vars
  <2> SUFFICES ASSUME LedgerInv, [Next]_vars, pc = "recover", pc' = "recover",
                      files' # files
               PROVE  Unfinished' \subseteq Unfinished /\ Unfinished' # Unfinished
    OBVIOUS
  <2> DEFINE Missing == {t \in StopOps : Orphaned(t)}
             Unlatched == {t \in standing : control[Inst(t)].enabled}
  <2>a. \A s : <<"envelope", s>> \in Unfinished <=> s \in Missing
    BY DEF Unfinished
  <2>b. \A s : <<"control", s>> \in Unfinished <=> s \in Unlatched
    BY DEF Unfinished
  <2>c. Unfinished' = {<<"envelope", s>> : s \in Missing'} \cup
                      {<<"control", s>> : s \in Unlatched'}
    BY DEF Unfinished
  <2>1. \E s \in StopOps : RecoverEnvelope(s) \/ RecoverControl(s)
    BY RecoverySteps DEF RecoverProjection, RecoverReordered, Goto
  <2>2. ASSUME NEW s \in StopOps, RecoverEnvelope(s)
        PROVE  Unfinished' \subseteq Unfinished /\ Unfinished' # Unfinished
    <3>1. Missing' = Missing \ {s} /\ s \in Missing
      BY <2>2 DEF RecoverEnvelope, Orphaned, LedgerInv, TypeOK
    <3>2. Unlatched' = Unlatched
      BY <2>2 DEF RecoverEnvelope, ghost
    <3> HIDE DEF Missing, Unlatched
    <3>3. Unfinished' \subseteq Unfinished
      BY <2>a, <2>b, <2>c, <3>1, <3>2
    <3>4. <<"envelope", s>> \in Unfinished /\ <<"envelope", s>> \notin Unfinished'
      BY <2>a, <2>c, <3>1
    <3> QED
      BY <3>3, <3>4
  <2>3. ASSUME NEW s \in StopOps, RecoverControl(s)
        PROVE  Unfinished' \subseteq Unfinished /\ Unfinished' # Unfinished
    <3>1. Missing' = Missing
      BY <2>3 DEF RecoverControl, Orphaned
    <3>2. s \in Unlatched
      BY <2>3 DEF RecoverControl, LedgerInv, StandingInv, NeedsLatch
    <3>3. \A i \in Insts : control'[i].enabled = (control[i].enabled /\ i # Inst(s))
      BY <2>3, InstType DEF RecoverControl, LatchStop, LedgerInv, TypeOK, ControlRecord
    <3>4. Unlatched' \subseteq Unlatched \ {s}
      BY <2>3, <3>3, InstType DEF RecoverControl, ghost, LedgerInv, TypeOK
    <3> HIDE DEF Missing, Unlatched
    <3>5. Unfinished' \subseteq Unfinished
      BY <2>a, <2>b, <2>c, <3>1, <3>4
    <3>6. <<"control", s>> \in Unfinished /\ <<"control", s>> \notin Unfinished'
      BY <2>b, <2>c, <3>2, <3>4
    <3> QED
      BY <3>5, <3>6
  <2> QED
    BY <2>1, <2>2, <2>3
<1> QED
  BY <1>1, LedgerInvariant, PTL DEF Spec, RecoveryShrinks

\* A terminal receipt is never replaced: it goes away with the operation, by retention.
THEOREM OutcomesAreFinal == Spec => TerminalIsFinal
<1>1. LedgerInv /\ InboxInv /\ [Next]_vars
        => [\A o \in Ops : receipt[o] \in Terminal /\ receipt'[o] # receipt[o]
                           => receipt'[o] = "none" /\ o \in pruned]_vars
  <2> SUFFICES ASSUME LedgerInv, InboxInv, [Next]_vars, NEW o \in Ops,
                      receipt[o] \in Terminal, receipt'[o] # receipt[o]
               PROVE  receipt'[o] = "none" /\ o \in pruned
    OBVIOUS
  <2>a. arg.op \in Ops /\ arg.victim \in Ops
    BY ArgType
  <2>1. Prune \/ PublishReceipt
    <3>1. Leave => UNCHANGED receipt
      BY DEF Leave, files
    <3>2. ~BeginAny
      BY DEF BeginAny, BeginSubmit, BeginRecover, BeginSet, BeginClaim, BeginReceipt,
             BeginPending, BeginLatch, BeginPrune, Begin, files
    <3>3. ~Recover
      BY <3>1 DEF Recover, RecoverEnvelope, RecoverControl, RecoverRaises, RecoverOnly,
                  RecoverProjection, RecoverReordered, files
    <3>4. ~Submit
      BY <3>1 DEF Submit, SubmitDuplicate, SubmitConflict, SubmitFresh, SubmitFull,
                  SubmitSeal, SubmitEnvelope, SubmitCreate, SubmitWrite, FinishLatch,
                  FinishClear, files
    <3>5. ~Set
      BY <3>1 DEF Set, SetConflict, SetEnabled, SetDisabled
    <3>6. Receipt => PublishReceipt
      BY <3>1 DEF Receipt, PublishRefused, DropProjection, ClaimDenied, ClaimExpired,
                  ClaimActivate, ClaimReceipt, PendingExpire, PendingDone, files
    <3>7. ~(Crash \/ Read \/ \E e \in Ops : Expire(e)) /\ ~UNCHANGED vars
      BY <3>1 DEF Crash, Read, ReadBefore, ReadControl, ReadAfter, Expire, vars, files
    <3> QED
      BY <3>2, <3>3, <3>4, <3>5, <3>6, <3>7 DEF Next, Transaction
  <2>2. ~PublishReceipt
    BY <2>a DEF PublishReceipt, Allowed, Terminal, LedgerInv, TypeOK
  <2>3. CASE PruneReceipt
    BY <2>3, <2>a DEF PruneReceipt, InboxInv, OutcomeInv, LedgerInv, TypeOK
  <2>4. ASSUME NEW e \in Ops, PruneOrphan(e)
        PROVE  receipt'[o] = "none" /\ o \in pruned
    <3>1. o = e /\ receipt'[o] = "none" /\ ~Retained(o)
      BY <2>4 DEF PruneOrphan, LedgerInv, TypeOK, Retained
    <3> QED
      BY <3>1 DEF InboxInv, OutcomeInv, Terminal
  <2> QED
    BY <2>1, <2>2, <2>3, <2>4 DEF Prune, PruneStart, PruneDone, PruneEnvelope, files
<1> QED
  BY <1>1, LedgerInvariant, InboxInvariant, PTL DEF Spec, TerminalIsFinal
===============================================================================
