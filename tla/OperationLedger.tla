---------------------------- MODULE OperationLedger ----------------------------
(***************************************************************************)
(* WorkerOperationLedger (manager/operation.py): the durable inbox of one  *)
(* client slot, shared by the ingress that submits operations and by the   *)
(* worker processes that execute them.                                     *)
(*                                                                         *)
(* The directory holds an envelope and a receipt per operation, the stop   *)
(* projection (stop-control.json, written ahead of a STOP's envelope) and  *)
(* one preparation control per game instance.  Every transaction runs      *)
(* under one cross-process lock but publishes one file at a time, and its  *)
(* process may die (or raise) between two publications: each publication   *)
(* is a step of its own.  Workers also read the projection and the control *)
(* without the lock; that read is three steps.                             *)
(*                                                                         *)
(* Time appears only through its outcome: `late' is the set of operations  *)
(* whose deadline has passed, and a prune may remove any terminal receipt, *)
(* the age of a receipt being left open.                                   *)
(***************************************************************************)
EXTENDS Naturals, FiniteSets

CONSTANTS
  Ops,          \* immutable operations, identified by operation_id
  StopOps,      \* those of kind STOP or CANCEL
  Workers,      \* exact worker lifetimes (worker id, PID, creation time)
  Insts,        \* exact game instances
  WorkerOf,     \* the worker lifetime an operation targets
  InstOf,       \* the game instance a worker lifetime serves
  Dedup,        \* deduplication_id of an operation
  Work,         \* kind, command and payload of an operation
  MaxRecords,   \* max_records_per_slot
  Outcomes,     \* terminal states that workers publish
  MaxRevision,  \* bound: no explicit control change beyond this revision
  Readers       \* workers that perform the lock-free read

ASSUME LedgerAssumption ==
  /\ Ops # {} /\ StopOps \subseteq Ops
  /\ WorkerOf \in [Ops -> Workers]
  /\ InstOf \in [Workers -> Insts]
  /\ MaxRecords \in Nat \ {0}
  /\ Outcomes \subseteq {"succeeded", "failed", "cancelled", "rejected"}
  /\ MaxRevision \in Nat
  /\ Readers \subseteq Workers

\* A kind is part of the requested work.
ASSUME WorkAssumption ==
  \A o, e \in Ops : Work[o] = Work[e] => (o \in StopOps <=> e \in StopOps)

Inst(o) == InstOf[WorkerOf[o]]

Terminal == {"succeeded", "failed", "cancelled", "expired", "rejected"}
States   == {"none", "accepted", "active"} \cup Terminal
Calls    == {"submit", "recover", "set", "claim", "receipt", "pending", "latch", "prune"}
Labels   == {"idle", "recover", "body", "prune", "unlink", "admit", "envelope",
             "write", "latch", "clear", "publish", "drop"}

VARIABLES
  envelope,    \* operation-*.json: "none", "torn" (created, not yet written) or "whole"
  receipt,     \* *.receipt: the state it records, or "none"
  projected,   \* stop-control.json exists
  projection,  \* its entry for each stop: "absent", "pending" (preparation_pending) or "settled"
  control,     \* preparation-control-<instance>.json; revision 0 when there is no file
  late,        \* operations whose expires_at has passed
  pc,          \* where the transaction that holds the lock stands
  arg,         \* its arguments
  hot,         \* the lock-free reader
  standing,    \* history: stops sealed and not superseded by a Resume since
  paused,      \* history: instances disabled by an operator and not resumed since
  pruned,      \* history: operations removed by retention
  claims       \* history: how often claim_for_execution returned True

files == <<envelope, receipt, projected, projection, control>>
txn   == <<pc, arg>>
ghost == <<standing, paused, pruned, claims>>
vars  == <<files, late, txn, hot, ghost>>

ControlRecord == [revision : Nat, enabled : BOOLEAN, superseded : SUBSET StopOps]
Arguments == [call : Calls, op : Ops, inst : Insts, enabled : BOOLEAN, expected : Nat,
              state : States, late : SUBSET Ops, victim : Ops]
HotRead == [at : {"idle", "before", "control", "after", "granted", "denied"},
            worker : Workers, try : 1..3, stable : BOOLEAN, enabled : BOOLEAN]

TypeOK ==
  /\ envelope \in [Ops -> {"none", "torn", "whole"}]
  /\ receipt \in [Ops -> States]
  /\ projected \in BOOLEAN
  /\ projection \in [StopOps -> {"absent", "pending", "settled"}]
  /\ control \in [Insts -> ControlRecord]
  /\ late \subseteq Ops
  /\ pc \in Labels
  /\ arg \in Arguments
  /\ hot \in HotRead
  /\ standing \subseteq StopOps
  /\ paused \subseteq Insts
  /\ pruned \subseteq Ops
  /\ claims \in [Ops -> Nat]

\* No transaction holds the lock.
NoArg == [call |-> "recover", op |-> CHOOSE o \in Ops : TRUE,
          inst |-> CHOOSE i \in Insts : TRUE, enabled |-> FALSE, expected |-> 0,
          state |-> "none", late |-> {}, victim |-> CHOOSE o \in Ops : TRUE]

\* An empty directory.
Init ==
  /\ envelope = [o \in Ops |-> "none"]
  /\ receipt = [o \in Ops |-> "none"]
  /\ projected = FALSE
  /\ projection = [s \in StopOps |-> "absent"]
  /\ control = [i \in Insts |-> [revision |-> 0, enabled |-> TRUE, superseded |-> {}]]
  /\ late = {}
  /\ pc = "idle"
  /\ arg = NoArg
  /\ hot = [at |-> "idle", worker |-> CHOOSE w \in Workers : TRUE, try |-> 1,
            stable |-> FALSE, enabled |-> FALSE]
  /\ standing = {}
  /\ paused = {}
  /\ pruned = {}
  /\ claims = [o \in Ops |-> 0]

-------------------------------------------------------------------------------
(***************************************************************************)
(* Publications                                                            *)
(***************************************************************************)

\* _write_stop_projection: nothing is written when the entries are unchanged;
\* otherwise the file gets a fresh revision, which every reader between its two
\* reads will notice.
WriteProjection(entries) ==
  IF projected /\ projection = entries
  THEN UNCHANGED <<projected, projection, hot>>
  ELSE /\ projected' = TRUE
       /\ projection' = entries
       /\ hot' = [hot EXCEPT !.stable = FALSE]

\* Mutant: a superseded stop is applied again.
MutNeedsLatch(s) == control[Inst(s)].enabled

\* _latch_preparation_stop_unlocked: a stop superseded by a Resume, or one that finds
\* preparation disabled already, publishes nothing.
NeedsLatch(s) == control[Inst(s)].enabled /\ s \notin control[Inst(s)].superseded

LatchStop(s) ==
  control' = IF NeedsLatch(s)
             THEN [control EXCEPT ![Inst(s)].enabled = FALSE, ![Inst(s)].revision = @ + 1]
             ELSE control

Retained(o) == envelope[o] = "whole"
Torn == \E o \in Ops : envelope[o] = "torn"
Records == {o \in Ops : envelope[o] # "none"}

-------------------------------------------------------------------------------
(***************************************************************************)
(* Transactions: taking the lock, leaving it, dying while holding it       *)
(***************************************************************************)

Begin(label, argument) ==
  /\ pc = "idle"
  /\ pc' = label
  /\ arg' = argument
  /\ UNCHANGED <<files, late, hot, ghost>>

\* submit(operation): identifiers are fresh UUIDs and a caller keeps an operation for
\* seconds, retention lasts days, so no operation is submitted after it was pruned.
BeginSubmit(o) ==
  /\ o \notin pruned
  /\ Begin("recover", [NoArg EXCEPT !.call = "submit", !.op = o])

\* initialize_stop_authority and inspect_preparation_control only recover.
BeginRecover == Begin("recover", NoArg)

\* set_preparation_enabled, called with the revision its caller has just read.
BeginSet(i, enabled) ==
  /\ control[i].revision < MaxRevision
  /\ Begin("recover", [NoArg EXCEPT !.call = "set", !.inst = i, !.enabled = enabled,
                                    !.expected = control[i].revision])

\* claim_for_execution(operation, now): the caller reads its clock first.
BeginClaim(o) ==
  Begin("recover", [NoArg EXCEPT !.call = "claim", !.op = o, !.late = late \cap {o}])

\* publish_receipt, called by the worker with the outcome of an operation.
BeginReceipt(o, state) ==
  Begin("publish", [NoArg EXCEPT !.call = "receipt", !.op = o, !.state = state])

\* pending_for the exact worker that operation o targets; it does not recover.
BeginPending(o) ==
  Begin("body", [NoArg EXCEPT !.call = "pending", !.op = o,
                              !.late = {e \in late : WorkerOf[e] = WorkerOf[o]}])

\* latch_preparation_stop of a stop whose envelope is retained.
BeginLatch(s) == Retained(s) /\ Begin("latch", [NoArg EXCEPT !.call = "latch", !.op = s])

\* Mutant: pruning does not reconcile the projection first.
MutBeginPrune == Begin("body", [NoArg EXCEPT !.call = "prune"])

BeginPrune == Begin("recover", [NoArg EXCEPT !.call = "prune"])

\* The next step of the transaction; "idle" releases the lock.
Goto(label, argument) == /\ pc' = label
                         /\ arg' = IF label = "idle" THEN NoArg ELSE argument

\* The transaction raises, or returns without another publication.
Leave == Goto("idle", NoArg) /\ UNCHANGED <<files, late, hot, ghost>>

\* The process dies anywhere: the lock is released, the files stay as they are.
Crash == pc # "idle" /\ Leave

-------------------------------------------------------------------------------
(***************************************************************************)
(* _recover_stop_projection, the first thing most transactions do          *)
(***************************************************************************)

\* Mutant: recovery ignores a projected stop that has no envelope.
MutOrphaned(s) == projected /\ projection[s] # "absent" /\ envelope[s] = "torn"

Orphaned(s) == projected /\ projection[s] # "absent" /\ envelope[s] = "none"

\* A projected stop without an envelope: the writer died in between.
RecoverEnvelope(s) ==
  /\ pc = "recover"
  /\ Orphaned(s)
  /\ envelope' = [envelope EXCEPT ![s] = "whole"]
  /\ UNCHANGED <<receipt, projected, projection, control, late, txn, hot, ghost>>

\* Mutant: a truncated envelope is skipped.
MutUnreadable == Cardinality(Records) > MaxRecords

\* Reading the slot raises on a torn envelope or on too many of them.
Unreadable == Torn \/ Cardinality(Records) > MaxRecords

RecoverRaises ==
  /\ pc = "recover"
  /\ \A s \in StopOps : ~Orphaned(s)
  /\ Unreadable
  /\ Leave

\* _reconcile_preparation_stops_unlocked: latch every retained stop again.
RecoverControl(s) ==
  /\ pc = "recover"
  /\ \A t \in StopOps : ~Orphaned(t)
  /\ ~Unreadable
  /\ Retained(s) /\ NeedsLatch(s)
  /\ LatchStop(s)
  /\ UNCHANGED <<envelope, receipt, projected, projection, late, txn, hot, ghost>>

\* Mutant: an accepted stop is taken for a finished one.
MutRebuilt == [s \in StopOps |-> IF Retained(s) /\ receipt[s] = "none"
                                 THEN "settled" ELSE "absent"]

\* The projection of the envelopes: stops without a receipt, or only accepted.
Rebuilt == [s \in StopOps |-> IF Retained(s) /\ receipt[s] \in {"none", "accepted"}
                              THEN "settled" ELSE "absent"]

RecoverProjection ==
  /\ pc = "recover"
  /\ \A s \in StopOps : ~Orphaned(s) /\ ~(Retained(s) /\ NeedsLatch(s))
  /\ ~Unreadable
  /\ WriteProjection(Rebuilt)
  /\ Goto("body", arg)
  /\ UNCHANGED <<envelope, receipt, control, late, ghost>>

\* The entries are a list: recovery may rewrite the same entries in another order.
RecoverReordered ==
  /\ pc = "recover"
  /\ \A s \in StopOps : ~Orphaned(s) /\ ~(Retained(s) /\ NeedsLatch(s))
  /\ ~Unreadable
  /\ projected /\ projection = Rebuilt
  /\ \E s, t \in StopOps : s # t /\ Rebuilt[s] = "settled" /\ Rebuilt[t] = "settled"
  /\ hot' = [hot EXCEPT !.stable = FALSE]
  /\ Goto("body", arg)
  /\ UNCHANGED <<files, late, ghost>>

RecoverOnly == /\ pc = "body" /\ arg.call = "recover"
               /\ Leave

-------------------------------------------------------------------------------
(***************************************************************************)
(* submit                                                                  *)
(***************************************************************************)

SameRequest(o, e) == WorkerOf[o] = WorkerOf[e] /\ Work[o] = Work[e]

\* A retry keeps the first envelope and finishes its publication.
SubmitDuplicate(e) ==
  /\ pc = "body" /\ arg.call = "submit"
  /\ Retained(e) /\ Dedup[e] = Dedup[arg.op]
  /\ SameRequest(arg.op, e)
  /\ Goto("latch", [arg EXCEPT !.op = e])
  /\ UNCHANGED <<files, late, hot, ghost>>

SubmitConflict(e) ==
  /\ pc = "body" /\ arg.call = "submit"
  /\ Retained(e) /\ Dedup[e] = Dedup[arg.op]
  /\ ~SameRequest(arg.op, e)
  /\ Leave

\* Mutant: the scan for an existing deduplication id is dropped.
MutSubmitFresh ==
  /\ pc = "body" /\ arg.call = "submit"
  /\ Goto("prune", arg)
  /\ UNCHANGED <<files, late, hot, ghost>>

\* No duplicate: terminal operations past retention are pruned first.
SubmitFresh ==
  /\ pc = "body" /\ arg.call = "submit"
  /\ \A e \in Ops : Retained(e) => Dedup[e] # Dedup[arg.op]
  /\ Goto("prune", arg)
  /\ UNCHANGED <<files, late, hot, ghost>>

SubmitFull == /\ pc = "admit"
              /\ Cardinality(Records) >= MaxRecords
              /\ Leave

\* Mutants: the write-ahead entry does not say that the control is still unwritten; the
\* limit is off by one.
MutSubmitSeal ==
  /\ pc = "admit"
  /\ arg.op \in StopOps
  /\ Cardinality(Records) < MaxRecords
  /\ WriteProjection([projection EXCEPT ![arg.op] = "settled"])
  /\ standing' = standing \cup {arg.op}
  /\ Goto("envelope", arg)
  /\ UNCHANGED <<envelope, receipt, control, late, paused, pruned, claims>>

MutSubmitSealFull ==
  /\ pc = "admit"
  /\ arg.op \in StopOps
  /\ WriteProjection([projection EXCEPT ![arg.op] = "pending"])
  /\ standing' = standing \cup {arg.op}
  /\ Goto("envelope", arg)
  /\ UNCHANGED <<envelope, receipt, control, late, paused, pruned, claims>>

\* A stop is sealed in the projection before its envelope exists.
SubmitSeal ==
  /\ pc = "admit"
  /\ arg.op \in StopOps
  /\ Cardinality(Records) < MaxRecords
  /\ WriteProjection([projection EXCEPT ![arg.op] = "pending"])
  /\ standing' = standing \cup {arg.op}
  /\ Goto("envelope", arg)
  /\ UNCHANGED <<envelope, receipt, control, late, paused, pruned, claims>>

SubmitEnvelope ==
  /\ pc = "envelope"
  /\ envelope' = [envelope EXCEPT ![arg.op] = "whole"]
  /\ Goto("latch", arg)
  /\ UNCHANGED <<receipt, projected, projection, control, late, hot, ghost>>

\* Any other envelope is created in place and then written: not one atomic step.
SubmitCreate ==
  /\ pc = "admit"
  /\ arg.op \notin StopOps
  /\ Cardinality(Records) < MaxRecords
  /\ envelope' = [envelope EXCEPT ![arg.op] = "torn"]
  /\ Goto("write", arg)
  /\ UNCHANGED <<receipt, projected, projection, control, late, hot, ghost>>

SubmitWrite ==
  /\ pc = "write"
  /\ envelope' = [envelope EXCEPT ![arg.op] = "whole"]
  /\ Goto("idle", arg)
  /\ UNCHANGED <<receipt, projected, projection, control, late, hot, ghost>>

\* _finish_stop_publication, and latch_preparation_stop.
FinishLatch ==
  /\ pc = "latch"
  /\ IF arg.op \in StopOps THEN LatchStop(arg.op) ELSE UNCHANGED control
  /\ Goto(IF arg.call = "submit" /\ arg.op \in StopOps THEN "clear" ELSE "idle", arg)
  /\ UNCHANGED <<envelope, receipt, projected, projection, late, hot, ghost>>

FinishClear ==
  /\ pc = "clear"
  /\ WriteProjection([projection EXCEPT ![arg.op] = IF @ = "pending" THEN "settled" ELSE @])
  /\ Goto("idle", arg)
  /\ UNCHANGED <<envelope, receipt, control, late, ghost>>

-------------------------------------------------------------------------------
(***************************************************************************)
(* set_preparation_enabled                                                 *)
(***************************************************************************)

SetConflict == /\ pc = "body" /\ arg.call = "set"
               /\ control[arg.inst].revision # arg.expected
               /\ Leave

\* Resume records every retained stop of the instance as superseded.
SetEnabled ==
  /\ pc = "body" /\ arg.call = "set" /\ arg.enabled
  /\ control[arg.inst].revision = arg.expected
  /\ control' = [control EXCEPT ![arg.inst] =
                   [revision |-> arg.expected + 1, enabled |-> TRUE,
                    superseded |-> {s \in StopOps : Retained(s) /\ Inst(s) = arg.inst}]]
  /\ standing' = {s \in standing : Inst(s) # arg.inst}
  /\ paused' = paused \ {arg.inst}
  /\ Goto("idle", arg)
  /\ UNCHANGED <<envelope, receipt, projected, projection, late, hot, pruned, claims>>

SetDisabled ==
  /\ pc = "body" /\ arg.call = "set" /\ ~arg.enabled
  /\ control[arg.inst].revision = arg.expected
  /\ control' = [control EXCEPT ![arg.inst].enabled = FALSE,
                                ![arg.inst].revision = arg.expected + 1]
  /\ paused' = paused \cup {arg.inst}
  /\ Goto("idle", arg)
  /\ UNCHANGED <<envelope, receipt, projected, projection, late, hot, standing, pruned, claims>>

-------------------------------------------------------------------------------
(***************************************************************************)
(* Receipts: publish_receipt, claim_for_execution, pending_for             *)
(***************************************************************************)

Allowed(current, next) ==
  \/ current = "none"
  \/ current = "accepted" /\ next \in {"accepted", "active", "cancelled", "expired",
                                       "rejected", "failed"}
  \/ current = "active" /\ next \in {"active", "succeeded", "cancelled", "failed"}
  \/ current \in Terminal /\ next = current

PublishRefused == /\ pc = "publish"
                  /\ ~Retained(arg.op) \/ ~Allowed(receipt[arg.op], arg.state)
                  /\ Leave

\* Where a transaction goes once the receipt it published is complete.
AfterReceipt ==
  IF arg.call = "claim" /\ arg.state = "accepted" THEN "publish"
  ELSE IF arg.call = "pending" THEN "body" ELSE "idle"

Activates == arg.call = "claim" /\ arg.state = "active"

\* claim_for_execution returns True after its second receipt.
Returns == claims' = IF Activates THEN [claims EXCEPT ![arg.op] = @ + 1] ELSE claims

PublishReceipt ==
  /\ pc = "publish"
  /\ Retained(arg.op) /\ Allowed(receipt[arg.op], arg.state)
  /\ receipt' = [receipt EXCEPT ![arg.op] = arg.state]
  /\ IF arg.op \in StopOps /\ arg.state # "accepted"
     THEN Goto("drop", arg) /\ UNCHANGED claims
     ELSE /\ Goto(AfterReceipt,
                  IF arg.call = "claim" THEN [arg EXCEPT !.state = "active"] ELSE arg)
          /\ Returns
  /\ UNCHANGED <<envelope, projected, projection, control, late, hot, standing, paused, pruned>>

\* An executed or finished stop leaves the projection unless preparation is unsettled.
DropProjection ==
  /\ pc = "drop"
  /\ WriteProjection([projection EXCEPT ![arg.op] = IF @ = "settled" THEN "absent" ELSE @])
  /\ Goto(AfterReceipt, arg)
  /\ Returns
  /\ UNCHANGED <<envelope, receipt, control, late, standing, paused, pruned>>

\* Missing, already active or already finished: the claim fails.
ClaimDenied ==
  /\ pc = "body" /\ arg.call = "claim"
  /\ ~Retained(arg.op) \/ receipt[arg.op] \notin {"none", "accepted"}
  /\ Leave

\* Mutant: an active operation is claimed again after a crash.
MutClaimReceipt(state) ==
  /\ pc = "body" /\ arg.call = "claim"
  /\ Retained(arg.op) /\ receipt[arg.op] \notin Terminal
  /\ Goto("publish", [arg EXCEPT !.state = state])
  /\ UNCHANGED <<files, late, hot, ghost>>

\* The remaining outcomes of a claim are a receipt: expired, accepted then active.
ClaimReceipt(state) ==
  /\ pc = "body" /\ arg.call = "claim"
  /\ Retained(arg.op) /\ receipt[arg.op] \in {"none", "accepted"}
  /\ Goto("publish", [arg EXCEPT !.state = state])
  /\ UNCHANGED <<files, late, hot, ghost>>

ClaimExpired == arg.op \in arg.late /\ ClaimReceipt("expired")

ClaimActivate ==
  /\ arg.op \notin arg.late
  /\ ClaimReceipt(IF receipt[arg.op] = "none" THEN "accepted" ELSE "active")

\* pending_for: each unclaimed operation of the worker that has expired gets a receipt.
Overdue(o) == /\ WorkerOf[o] = WorkerOf[arg.op]
              /\ Retained(o) /\ receipt[o] \in {"none", "accepted"}
              /\ o \in arg.late

PendingExpire(o) ==
  /\ pc = "body" /\ arg.call = "pending"
  /\ ~Unreadable
  /\ Overdue(o)
  /\ Goto("publish", [arg EXCEPT !.op = o, !.state = "expired"])
  /\ UNCHANGED <<files, late, hot, ghost>>

PendingDone == /\ pc = "body" /\ arg.call = "pending"
               /\ Unreadable \/ \A o \in Ops : ~Overdue(o)
               /\ Leave

-------------------------------------------------------------------------------
(***************************************************************************)
(* _prune_terminal_unlocked, from prune_terminal or from submit            *)
(***************************************************************************)

PruneStart == /\ pc = "body" /\ arg.call = "prune"
              /\ Goto("prune", arg)
              /\ UNCHANGED <<files, late, hot, ghost>>

PruneEnvelope(o) ==
  /\ pc = "prune"
  /\ Retained(o) /\ receipt[o] \in Terminal
  /\ envelope' = [envelope EXCEPT ![o] = "none"]
  /\ pruned' = pruned \cup {o}
  /\ Goto("unlink", [arg EXCEPT !.victim = o])
  /\ UNCHANGED <<receipt, projected, projection, control, late, hot, standing, paused, claims>>

PruneReceipt ==
  /\ pc = "unlink"
  /\ receipt' = [receipt EXCEPT ![arg.victim] = "none"]
  /\ Goto("prune", arg)
  /\ UNCHANGED <<envelope, projected, projection, control, late, hot, ghost>>

\* A receipt left behind by a prune that died between its two unlinks.
PruneOrphan(o) ==
  /\ pc = "prune"
  /\ envelope[o] = "none" /\ receipt[o] \in Terminal
  /\ receipt' = [receipt EXCEPT ![o] = "none"]
  /\ UNCHANGED <<envelope, projected, projection, control, late, txn, hot, ghost>>

PruneDone == /\ pc = "prune"
             /\ Goto(IF arg.call = "submit" THEN "admit" ELSE "idle", arg)
             /\ UNCHANGED <<files, late, hot, ghost>>

-------------------------------------------------------------------------------
(***************************************************************************)
(* current_stop_authority: projection, control, projection, without lock   *)
(***************************************************************************)

\* The first read of an attempt; no projection file denies.
ReadBefore(w) ==
  /\ \/ hot.at \in {"idle", "granted", "denied"} /\ w \in Readers
     \/ hot.at = "before" /\ w = hot.worker
  /\ hot' = [at |-> IF projected THEN "control" ELSE "denied", worker |-> w,
             try |-> IF hot.at = "before" THEN hot.try ELSE 1,
             stable |-> TRUE, enabled |-> FALSE]
  /\ UNCHANGED <<files, late, txn, ghost>>

\* A missing control record counts as enabled.
ReadControl ==
  /\ hot.at = "control"
  /\ hot' = [hot EXCEPT !.at = "after", !.enabled = control[InstOf[hot.worker]].enabled]
  /\ UNCHANGED <<files, late, txn, ghost>>

\* What the worker does with a consistent pair (_OperationStopSignal.refresh of a
\* group command): any stop pending for it, unsettled stop or disabled control denies.
Denies(s) == \/ projection[s] = "pending" /\ Inst(s) = InstOf[hot.worker]
             \/ projection[s] # "absent" /\ WorkerOf[s] = hot.worker /\ s \notin late

Verdict == IF hot.enabled /\ \A s \in StopOps : ~Denies(s) THEN "granted" ELSE "denied"

\* Mutants: the bracket is not compared; one attempt too many.
MutReadAfter ==
  /\ hot.at = "after"
  /\ hot' = [hot EXCEPT !.at = Verdict]
  /\ UNCHANGED <<files, late, txn, ghost>>

MutReadAfterTries ==
  /\ hot.at = "after"
  /\ \/ hot.stable /\ hot' = [hot EXCEPT !.at = Verdict]
     \/ ~hot.stable /\ hot.try <= 3 /\ hot' = [hot EXCEPT !.at = "before", !.try = @ + 1]
  /\ UNCHANGED <<files, late, txn, ghost>>

\* Equal revisions make the pair consistent; otherwise up to three attempts, then denial.
ReadAfter ==
  /\ hot.at = "after"
  /\ \/ hot.stable /\ hot' = [hot EXCEPT !.at = Verdict]
     \/ ~hot.stable /\ hot.try < 3 /\ hot' = [hot EXCEPT !.at = "before", !.try = @ + 1]
     \/ ~hot.stable /\ hot.try = 3 /\ hot' = [hot EXCEPT !.at = "denied"]
  /\ UNCHANGED <<files, late, txn, ghost>>

-------------------------------------------------------------------------------
\* The deadline of an operation passes.
Expire(o) == /\ o \notin late
             /\ late' = late \cup {o}
             /\ UNCHANGED <<files, txn, hot, ghost>>

BeginAny ==
  \/ BeginRecover \/ BeginPrune
  \/ \E o \in Ops : \/ BeginSubmit(o) \/ BeginClaim(o) \/ BeginPending(o)
                    \/ \E state \in Outcomes : BeginReceipt(o, state)
  \/ \E s \in StopOps : BeginLatch(s)
  \/ \E i \in Insts, enabled \in BOOLEAN : BeginSet(i, enabled)

Recover == \/ \E s \in StopOps : RecoverEnvelope(s) \/ RecoverControl(s)
           \/ RecoverRaises \/ RecoverProjection \/ RecoverReordered \/ RecoverOnly

Submit == \/ \E e \in Ops : SubmitDuplicate(e) \/ SubmitConflict(e)
          \/ SubmitFresh \/ SubmitFull \/ SubmitSeal \/ SubmitEnvelope
          \/ SubmitCreate \/ SubmitWrite \/ FinishLatch \/ FinishClear

Set == SetConflict \/ SetEnabled \/ SetDisabled

Receipt == \/ PublishRefused \/ PublishReceipt \/ DropProjection
           \/ ClaimDenied \/ ClaimExpired \/ ClaimActivate
           \/ \E o \in Ops : PendingExpire(o)
           \/ PendingDone

Prune == \/ PruneStart \/ PruneReceipt \/ PruneDone
         \/ \E o \in Ops : PruneEnvelope(o) \/ PruneOrphan(o)

Transaction == Recover \/ Submit \/ Set \/ Receipt \/ Prune

Read == (\E w \in Workers : ReadBefore(w)) \/ ReadControl \/ ReadAfter

Next == BeginAny \/ Transaction \/ Crash \/ Read \/ (\E o \in Ops : Expire(o))

Spec == Init /\ [][Next]_vars

(***************************************************************************)
(* Fairness.  A process that holds the lock runs on or dies.  The serve    *)
(* loop of a worker inspects the preparation control on every turn, so     *)
(* recovery gets the lock again and again, and its publications are not    *)
(* cut off by a death every time.                                          *)
(***************************************************************************)
FairSpec == /\ Spec
            /\ WF_vars(Transaction)
            /\ SF_vars(BeginRecover)
            /\ \A s \in StopOps : SF_vars(RecoverEnvelope(s)) /\ SF_vars(RecoverControl(s))
-------------------------------------------------------------------------------
(***************************************************************************)
(* Properties                                                              *)
(***************************************************************************)

\* A sealed stop denies automatic preparation at every instant until an operator
\* resumes its instance, wherever its writer dies and whatever is retried, expired or
\* pruned meanwhile (submit, _finish_stop_publication, _recover_stop_projection).
StopStands ==
  \A s \in standing : projection[s] = "pending" \/ ~control[Inst(s)].enabled

\* A retained stop that no worker has claimed or finished is in the projection that
\* workers poll, also between the publications of any transaction and after a crash.
NoHiddenStop ==
  \A s \in StopOps : /\ Retained(s)
                     /\ receipt[s] \in {"none", "accepted"}
                     => projected /\ projection[s] # "absent"

\* "otherwise later recovery could resurrect a pruned stop": what retention removed is
\* neither retained nor projected again (_prune_terminal_unlocked).
NoResurrection ==
  \A o \in pruned : /\ envelope[o] = "none"
                    /\ o \in StopOps => projection[o] = "absent"

\* claim_for_execution succeeds at most once for an operation, across contending
\* workers, crashes after ACTIVE, retries and retention.
ClaimedOnce == \A o \in Ops : claims[o] <= 1

\* The operations the inbox holds: those with an envelope, and stops whose envelope
\* recovery will still write.
Owners == Records \cup {s \in StopOps : projection[s] # "absent"}

\* Two operations of the inbox never share a deduplication id (submit).
RetryKeepsFirst == \A o, e \in Owners : Dedup[o] = Dedup[e] => o = e

\* Recovery never pushes the inbox past max_records_per_slot, which would make every
\* later transaction raise (_inspect_slot_unlocked).
InboxBounded == Cardinality(Owners) <= MaxRecords

\* The lock-free read never pairs an enabled control with a stop that stands: when it
\* grants, every stop of the instance sealed so far was superseded by a Resume
\* (current_stop_authority).
HotReadSound ==
  [][(hot.at = "after" /\ hot'.at = "granted")
       => \A s \in standing : Inst(s) # InstOf[hot.worker]]_vars

\* While a crashed write leaves a truncated envelope in the inbox, no operation is
\* activated (every claim reads the whole slot first).
TornFailsClosed == [][(claims' # claims) => ~Torn]_vars

\* Reading the slot raises because of a truncated envelope only: no sequence of writers
\* that died fills the inbox past the limit at which every transaction would raise
\* (_inspect_slot_unlocked).
RecoveryReads == Unreadable => Torn

\* A transaction that passes _recover_stop_projection has latched every stop that
\* stands, so what it decides next it decides on the operators' intents.
RecoveryLatches ==
  [][pc = "recover" /\ pc' = "body"
       => \A s \in standing : ~control[Inst(s)].enabled]_vars

\* What recovery has still to publish: envelopes of orphaned stops, controls of standing
\* ones.  Each of its publications leaves strictly less, so it cannot go on forever.
Unfinished == {<<"envelope", s>> : s \in {t \in StopOps : Orphaned(t)}} \cup
              {<<"control", s>> : s \in {t \in standing : control[Inst(t)].enabled}}
RecoveryShrinks ==
  [][pc = "recover" /\ pc' = "recover" /\ files' # files
       => Unfinished' \subseteq Unfinished /\ Unfinished' # Unfinished]_vars

\* The outcome of an operation is final: a terminal receipt is never replaced, only
\* unlinked after retention has removed the envelope (publish_receipt,
\* _prune_terminal_unlocked).
TerminalIsFinal ==
  [][\A o \in Ops : receipt[o] \in Terminal /\ receipt'[o] # receipt[o]
                    => receipt'[o] = "none" /\ o \in pruned]_vars

\* The ledger implements StopIntent: a stop takes effect at its write-ahead record, a
\* Resume or Pause at its control record, and no crash, recovery, retry, expiry,
\* receipt or prune changes whether an instance is held (so a resumed stop never comes
\* back and a standing one is never lost).
Held == [i \in Insts |-> \/ ~control[i].enabled
                         \/ \E s \in StopOps : Inst(s) = i /\ projection[s] = "pending"]
Intent == INSTANCE StopIntent WITH
            Stops <- StopOps, StopInst <- [s \in StopOps |-> Inst(s)], held <- Held
ImplementsStopIntent == Intent!Spec

\* The control record of every standing stop's instance becomes disabled (or the stop is
\* resumed) unless a truncated envelope blocks the inbox, however many writers died
\* on the way: the write-ahead record is enough for recovery to finish the stop.
StopLatched ==
  \A s \in StopOps : (s \in standing)
                       ~> (s \notin standing \/ ~control[Inst(s)].enabled \/ Torn)

\* record_store.py: "Callers evaluating expiry must sample their clock after this read".
\* Read so, a claim never activates an operation that is past its deadline when the
\* claim is decided.
ExpirySampledAfterRead ==
  [][(pc = "body" /\ pc' = "publish" /\ arg'.call = "claim" /\ arg'.state # "expired")
       => arg.op \notin late]_vars

-------------------------------------------------------------------------------
(***************************************************************************)
(* The inductive invariant behind StopStands, NoHiddenStop, NoResurrection *)
(* and the refinement (proved in OperationLedgerProofs).                   *)
(***************************************************************************)

\* What each stop owes: a standing one is unsettled or its instance disabled and was
\* not superseded; a retained one that does not stand was superseded.
StandingInv == \A s \in StopOps :
  /\ s \in standing => projection[s] = "pending" \/ ~control[Inst(s)].enabled
  /\ projection[s] = "pending" => s \in standing
  /\ s \in standing => s \notin control[Inst(s)].superseded
  /\ Retained(s) /\ s \notin standing => s \in control[Inst(s)].superseded

\* Only a standing stop or a pause disables an instance, and a pause does.
DisabledInv == \A i \in Insts :
  /\ ~control[i].enabled => i \in paused \/ \E s \in standing : Inst(s) = i
  /\ i \in paused => ~control[i].enabled

\* How the files of a stop relate.
FilesInv == \A s \in StopOps :
  /\ projection[s] # "absent" => projected
  /\ projection[s] = "settled" => Retained(s)
  /\ s \in control[Inst(s)].superseded => Retained(s) \/ s \in pruned
  /\ Retained(s) /\ receipt[s] \in {"none", "accepted"} => projection[s] # "absent"

\* After recovery, until the transaction ends or publishes, the projection is exact.
Recovered == pc \in {"prune", "unlink", "admit"} \/ (pc = "body" /\ arg.call # "pending")
RecoveredInv == Recovered => \A s \in StopOps :
  /\ projection[s] # "pending"
  /\ projection[s] = "settled" => receipt[s] \in {"none", "accepted"}

\* What the transaction that holds the lock knows at each of its steps.
HolderInv ==
  /\ arg.call = "submit" /\ pc \in {"recover", "body", "prune", "unlink", "admit",
                                     "envelope", "write"} => arg.op \notin pruned
  /\ arg.call = "submit" /\ pc \in {"prune", "unlink", "admit"} => ~Retained(arg.op)
  /\ pc \in {"admit", "envelope", "write", "clear"} => arg.call = "submit"
  /\ pc \in {"prune", "unlink"} => arg.call \in {"submit", "prune"}
  /\ pc = "envelope" => arg.op \in StopOps /\ projection[arg.op] = "pending"
  /\ pc = "write" => arg.op \notin StopOps
  /\ pc = "publish" => arg.state # "none"
  /\ pc = "latch" => Retained(arg.op)
  /\ pc = "clear" => arg.op \in StopOps /\ Retained(arg.op) /\ ~NeedsLatch(arg.op)
  /\ pc = "drop" => arg.op \in StopOps /\ receipt[arg.op] \notin {"none", "accepted"}
  /\ pc = "unlink" => envelope[arg.victim] = "none"

LedgerInv == /\ TypeOK
             /\ StandingInv /\ DisabledInv /\ FilesInv /\ RecoveredInv
             /\ HolderInv /\ NoResurrection

(***************************************************************************)
(* What ClaimedOnce, RetryKeepsFirst, InboxBounded and TornFailsClosed     *)
(* need besides: the inbox as the holder of the lock has seen it.          *)
(***************************************************************************)

\* A transaction past recovery found no truncated envelope, and none appears until it
\* creates one itself or releases the lock.
ReadableInv ==
  /\ Recovered \/ (arg.call = "claim" /\ pc \in {"publish", "drop"}) => ~Torn
  /\ pc = "write" => envelope[arg.op] = "torn"

\* An operation that was claimed keeps its envelope and a receipt that forbids another
\* claim, until retention removes both.
ClaimedInv == \A o \in Ops : claims[o] # 0 =>
  o \in pruned \/ (Retained(o) /\ receipt[o] \notin {"none", "accepted"})

\* The operation that is being claimed was not claimed before.
ClaimerInv ==
  /\ arg.call = "claim" /\ pc \in {"publish", "drop"} => claims[arg.op] = 0
  /\ pc = "drop" => Retained(arg.op)

\* A receipt outlives its envelope only between the two unlinks of a prune.
OutcomeInv ==
  /\ \A o \in Ops : receipt[o] # "none" => Retained(o) \/ o \in pruned
  /\ pc = "unlink" => arg.victim \in pruned

\* A submission that found no duplicate still has none when it publishes.
FreshInv ==
  arg.call = "submit" /\ pc \in {"prune", "unlink", "admit"}
    => \A o \in Owners : Dedup[o] # Dedup[arg.op]

InboxInv == /\ ReadableInv /\ OutcomeInv
            /\ ClaimedInv /\ ClaimerInv /\ ClaimedOnce
            /\ FreshInv /\ RetryKeepsFirst
            /\ IsFiniteSet(Owners) /\ InboxBounded

\* The reader's pair is consistent: an enabled control read inside an unchanged bracket
\* leaves every standing stop of the instance visible as unsettled.
HotInv ==
  hot.at = "after" /\ hot.stable /\ hot.enabled
    => \A s \in standing : Inst(s) = InstOf[hot.worker] => projection[s] = "pending"
===============================================================================
