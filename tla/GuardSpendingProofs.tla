-------------------------- MODULE GuardSpendingProofs --------------------------
(***************************************************************************)
(* GuardSpending's properties for any number of requests, controllers,     *)
(* host sessions and game restarts.                                        *)
(*                                                                         *)
(* SpendingInv is inductive.  The journal and the controllers never look   *)
(* at each other: what ties them is that an answer, once given, is never   *)
(* replaced (AnswerInv), so a receipt without flags that names a submitted *)
(* request proves it done, however late it is journalled (TransitionInv),  *)
(* and the pointer leaves a request only on such an answer (RecordInv).    *)
(***************************************************************************)
EXTENDS GuardSpending, TLAPS

\* The writes to a record and to a controller keep their other fields.
LEMMA RecordMarked ==
  ASSUME NEW x \in Record, NEW y, y = [x EXCEPT !.unresolved = TRUE]
  PROVE  /\ y \in Record /\ y.life = x.life /\ y.submission = x.submission
         /\ y.completion <=> x.completion
  BY DEF Record

LEMMA RecordCompleted ==
  ASSUME NEW x \in Record, NEW y, y = [x EXCEPT !.completion = TRUE]
  PROVE  /\ y \in Record /\ y.life = x.life /\ y.submission = x.submission
         /\ y.unresolved <=> x.unresolved
         /\ y.completion
  BY DEF Record

LEMMA RecordAnswered ==
  ASSUME NEW x \in Record, NEW a \in Answer
  PROVE  /\ Answered(x, a) \in Record
         /\ Answered(x, a).life = x.life /\ Answered(x, a).submission = a
         /\ Answered(x, a).completion <=> x.completion
<1>1. a.unresolved \in BOOLEAN
  BY DEF Answer
<1> QED
  BY <1>1 DEF Record, Answered

LEMMA ControllerSettled ==
  ASSUME NEW x \in Controller, NEW y, y = [x EXCEPT !.pending = FALSE]
  PROVE  y \in Controller /\ y.transition = x.transition /\ ~y.pending
  BY DEF Controller

\* A request that _pending releases is neither in the channel nor open.
LEMMA ReleasedIsOver ==
  ASSUME SpendingInv, NEW r \in Requests, Releasable(r)
  PROVE  ~Undetermined(r)
<1>1. CASE record[r].completion
  BY <1>1 DEF SpendingInv, RecordInv, AnswerInv, Undetermined, NoAnswer
<1>2. CASE ~record[r].completion
  <2>1. record[r].submission.outcome \in {"refused", "observed"}
    BY <1>2 DEF Releasable
  <2>2. record[r].submission = reply[r] /\ reply[r] # NoAnswer
    BY <2>1 DEF SpendingInv, RecordInv, NoAnswer
  <2> QED
    BY <2>1, <2>2 DEF SpendingInv, AnswerInv, Undetermined
<1> QED BY <1>1, <1>2

\* What _pending writes keeps every undetermined request.
LEMMA RemainingKeeps ==
  ASSUME SpendingInv
  PROVE  /\ Remaining \in {pointer, NoRequest}
         /\ \A r \in Requests : Undetermined(r) => Remaining = r
<1>1. Remaining \in {pointer, NoRequest}
  BY DEF Remaining
<1>2. ASSUME NEW r \in Requests, Undetermined(r)
      PROVE  Remaining = r
  <2>1. pointer = r
    BY <1>2 DEF SpendingInv, RecordInv
  <2>2. ~Releasable(r)
    BY <1>2, ReleasedIsOver
  <2> QED
    BY <2>1, <2>2 DEF Remaining
<1> QED BY <1>1, <1>2

LEMMA InitInv == Init => SpendingInv
<1> SUFFICES ASSUME Init PROVE SpendingInv
  OBVIOUS
<1> USE SpendingAssumption DEF Init
<1>1. AnyJob \in Job
  BY DEF AnyJob, Job
<1>a. NoAnswer \in Answer /\ IdleController \in Controller
  BY DEF Answer, NoAnswer, Outcomes, Controller, IdleController
<1>b. NoRecord \in Record
  BY <1>a DEF Record, NoRecord, Intent
<1>c. NoReceipt \in Receipt
  BY DEF Receipt, NoReceipt
<1>2. TypeOK
  <2>1. /\ record \in [Requests -> Record] /\ seen \in [Hosts -> Receipt]
        /\ reply \in [Requests -> Answer] /\ ctrl \in [Kinds -> Controller]
    BY <1>a, <1>b, <1>c
  <2>2. /\ action \in [Requests -> {"none", "open", "done"}]
        /\ attempts \in [Requests -> Nat]
    OBVIOUS
  <2>3. life \in Nat \ {0}
    OBVIOUS
  <2>4. pc \in Labels /\ job \in Job
    BY <1>1 DEF Labels
  <2> QED
    BY <2>1, <2>2, <2>3, <2>4 DEF TypeOK
<1>3. AnswerInv
  BY DEF AnswerInv, NoAnswer
<1>4. TransitionInv
  BY DEF TransitionInv, NoReceipt, IdleController
<1>5. RecordInv
  <2>1. NoRecord.submission = NoAnswer /\ ~NoRecord.completion
    BY DEF NoRecord, Intent
  <2>2. ASSUME NEW r \in Requests
        PROVE  /\ record[r].submission = NoAnswer /\ ~record[r].completion
               /\ attempts[r] <= 1 /\ attempts[r] # 1 /\ ~Undetermined(r)
    BY <2>1 DEF Undetermined
  <2> QED
    BY ONLY <2>2 DEF RecordInv
<1>6. JournalInv
  BY DEF JournalInv
<1> QED
  BY <1>2, <1>3, <1>4, <1>5, <1>6 DEF SpendingInv

\* A transaction takes the lock and drops a pointer to what is over.
LEMMA EnterStep ==
  ASSUME SpendingInv, NEW j \in Job, j.call = "submit" => j.request \in Requests, Enter(j)
  PROVE  SpendingInv'
<1> USE SpendingAssumption DEF Enter, native
<1>1. TypeOK'
  BY RemainingKeeps DEF SpendingInv, TypeOK, Labels
<1>2. AnswerInv' /\ TransitionInv'
  BY DEF SpendingInv, AnswerInv, TransitionInv
<1>3. RecordInv'
  BY RemainingKeeps DEF SpendingInv, RecordInv, Undetermined, Exists
<1>4. Remaining' = pointer'
  BY RemainingKeeps DEF Remaining, Releasable
<1>5. JournalInv'
  BY <1>4 DEF JournalInv
<1> QED
  BY <1>1, <1>2, <1>3, <1>5 DEF SpendingInv

LEMMA AbortStep == SpendingInv /\ Abort => SpendingInv'
<1> SUFFICES ASSUME SpendingInv, Abort PROVE SpendingInv'
  OBVIOUS
<1> USE SpendingAssumption DEF Abort, Free, disk, native
<1>1. AnyJob \in Job
  BY DEF AnyJob, Job
<1>2. TypeOK'
  BY <1>1 DEF SpendingInv, TypeOK, Labels
<1>3. AnswerInv' /\ TransitionInv' /\ RecordInv' /\ JournalInv'
  BY DEF SpendingInv, AnswerInv, TransitionInv, RecordInv, JournalInv, Undetermined, Exists
<1> QED
  BY <1>2, <1>3 DEF SpendingInv

LEMMA SubmitStep ==
  SpendingInv /\ (SubmitRecord \/ SubmitPoint \/ SubmitDispatch \/ SubmitReply \/ SubmitSettle)
    => SpendingInv'
<1> SUFFICES ASSUME SpendingInv PROVE
      SubmitRecord \/ SubmitPoint \/ SubmitDispatch \/ SubmitReply \/ SubmitSettle => SpendingInv'
  OBVIOUS
<1> USE SpendingAssumption
<1>1. ASSUME SubmitRecord PROVE SpendingInv'
  <2> DEFINE r == job.request
  <2> USE <1>1 DEF SubmitRecord, Goto, native
  <2>a. r \in Requests /\ Idle
    BY DEF SpendingInv, JournalInv
  <2>c. attempts[r] \in Nat
    BY <2>a DEF SpendingInv, TypeOK
  <2>1. r \in Requests /\ attempts[r] = 0 /\ Idle
    BY <2>a, <2>c DEF SpendingInv, RecordInv
  <2>b. Intent(life) \in Record
    BY DEF SpendingInv, TypeOK, Intent, Record, Answer, NoAnswer, Outcomes
  <2>2. record' \in [Requests -> Record]
    BY <2>1, <2>b DEF SpendingInv, TypeOK
  <2>3. TypeOK'
    BY <2>2 DEF SpendingInv, TypeOK, Labels
  <2>4. AnswerInv' /\ TransitionInv'
    BY DEF SpendingInv, AnswerInv, TransitionInv
  <2>5. /\ record'[r] = Intent(life)
        /\ \A q \in Requests \ {r} : record'[q] = record[q]
    BY <2>1 DEF SpendingInv, TypeOK
  <2>6. RecordInv'
    BY <2>1, <2>5 DEF SpendingInv, TypeOK, RecordInv, Undetermined, Exists, Intent
  <2>7. JournalInv'
    BY <2>1, <2>5 DEF SpendingInv, TypeOK, JournalInv, Idle, Exists, Intent
  <2> QED
    BY <2>3, <2>4, <2>6, <2>7 DEF SpendingInv
<1>2. ASSUME SubmitPoint PROVE SpendingInv'
  <2> USE <1>2 DEF SubmitPoint, Goto, native
  <2>1. TypeOK'
    BY DEF SpendingInv, TypeOK, Labels, JournalInv
  <2>2. AnswerInv' /\ TransitionInv'
    BY DEF SpendingInv, AnswerInv, TransitionInv
  <2>3. RecordInv'
    BY DEF SpendingInv, RecordInv, JournalInv, Idle, Undetermined, Exists
  <2>4. JournalInv'
    BY DEF SpendingInv, JournalInv, Exists
  <2> QED
    BY <2>1, <2>2, <2>3, <2>4 DEF SpendingInv
<1>3. ASSUME SubmitDispatch PROVE SpendingInv'
  <2> DEFINE r == job.request
  <2> USE <1>3 DEF SubmitDispatch, Goto, disk
  <2>1. r \in Requests /\ attempts[r] = 0 /\ pointer = r /\ Exists(r)
    BY DEF SpendingInv, JournalInv
  <2>2. /\ attempts'[r] = 1 /\ \A q \in Requests \ {r} : attempts'[q] = attempts[q]
    BY <2>1 DEF SpendingInv, TypeOK
  <2>3. TypeOK'
    BY <2>1 DEF SpendingInv, TypeOK, Labels
  <2>4. reply[r] = NoAnswer
    BY <2>1 DEF SpendingInv, AnswerInv
  <2>5. AnswerInv'
    BY <2>1, <2>2, <2>4 DEF SpendingInv, AnswerInv
  <2>6. TransitionInv'
    BY DEF SpendingInv, TransitionInv
  <2>7. RecordInv'
    BY <2>1, <2>2 DEF SpendingInv, RecordInv, Undetermined, Exists
  <2>8. JournalInv'
    BY <2>1, <2>4 DEF SpendingInv, JournalInv, RecordInv, Exists
  <2> QED
    BY <2>3, <2>5, <2>6, <2>7, <2>8 DEF SpendingInv
<1>4. ASSUME SubmitReply PROVE SpendingInv'
  <2> DEFINE r == job.request
  <2> USE <1>4 DEF SubmitReply, Goto, native
  <2>1. r \in Requests /\ pointer = r /\ Exists(r) /\ record[r].submission = NoAnswer
    BY DEF SpendingInv, JournalInv
  <2>2. /\ record'[r] = Answered(record[r], reply[r])
        /\ \A q \in Requests \ {r} : record'[q] = record[q]
    BY <2>1 DEF SpendingInv, TypeOK
  <2>b. record[r] \in Record /\ reply[r] \in Answer
    BY <2>1 DEF SpendingInv, TypeOK
  <2>a. /\ record'[r] \in Record /\ record'[r].life = record[r].life
        /\ record'[r].submission = reply[r]
        /\ record'[r].completion <=> record[r].completion
    BY ONLY <2>2, <2>b, RecordAnswered
  <2>3. record' \in [Requests -> Record]
    BY <2>1, <2>2, <2>a DEF SpendingInv, TypeOK
  <2>4. TypeOK'
    BY <2>3 DEF SpendingInv, TypeOK, Labels
  <2>5. AnswerInv' /\ TransitionInv'
    BY DEF SpendingInv, AnswerInv, TransitionInv
  <2>7. ~record[r].completion
    BY <2>1 DEF SpendingInv, RecordInv, NoAnswer
  <2>8. RecordInv'
    <3>1. ASSUME NEW q \in Requests, q # r
          PROVE  /\ record'[q] = record[q]
                 /\ Exists(q)' <=> Exists(q)
      BY <2>2, <3>1 DEF Exists
    <3>2. ~record'[r].completion
      BY <2>7, <2>a
    <3>3. Exists(r)'
      BY <2>1, <2>a DEF Exists
    <3>4. ASSUME NEW q \in Requests
          PROVE  /\ record'[q].submission \in {NoAnswer, reply'[q]}
                 /\ record'[q].completion => /\ record'[q].submission.outcome = "submitted"
                                             /\ action'[q] = "done" /\ ~record'[q].unresolved
                 /\ attempts'[q] <= 1
                 /\ attempts'[q] = 1 => Exists(q)'
                 /\ Undetermined(q)' => pointer' = q
      <4>1. CASE q = r
        BY <2>1, <2>a, <3>2, <3>3, <4>1 DEF SpendingInv, RecordInv, Undetermined
      <4>2. CASE q # r
        BY <3>1, <4>2 DEF SpendingInv, RecordInv, Undetermined
      <4> QED BY <4>1, <4>2
    <3> QED
      BY ONLY <3>4 DEF RecordInv
  <2>9. JournalInv'
    BY <2>1, <2>a DEF SpendingInv, JournalInv, Exists
  <2> QED
    BY <2>4, <2>5, <2>8, <2>9 DEF SpendingInv
<1>5. ASSUME SubmitSettle PROVE SpendingInv'
  <2> USE <1>5 DEF SubmitSettle, Free, native
  <2>1. AnyJob \in Job
    BY DEF AnyJob, Job
  <2>2. TypeOK'
    BY <2>1, RemainingKeeps DEF SpendingInv, TypeOK, Labels
  <2>3. AnswerInv' /\ TransitionInv'
    BY DEF SpendingInv, AnswerInv, TransitionInv
  <2>4. RecordInv'
    BY RemainingKeeps DEF SpendingInv, RecordInv, Undetermined, Exists
  <2>5. JournalInv'
    BY DEF JournalInv
  <2> QED
    BY <2>2, <2>3, <2>4, <2>5 DEF SpendingInv
<1> QED BY <1>1, <1>2, <1>3, <1>4, <1>5

\* A journalled receipt completes only what the client is known to have done.
LEMMA ObserveStep ==
  SpendingInv /\ (ObserveUnresolved \/ ObserveComplete \/ ObserveRelease \/ AssertIdle)
    => SpendingInv'
<1> SUFFICES ASSUME SpendingInv PROVE
      ObserveUnresolved \/ ObserveComplete \/ ObserveRelease \/ AssertIdle => SpendingInv'
  OBVIOUS
<1> USE SpendingAssumption
<1>1. ASSUME ObserveUnresolved PROVE SpendingInv'
  <2> USE <1>1 DEF ObserveUnresolved, Free, native
  <2>1. pointer \in Requests
    BY DEF SpendingInv, TypeOK, Observing, Concerns
  <2>2. /\ record'[pointer] = [record[pointer] EXCEPT !.unresolved = TRUE]
        /\ \A q \in Requests \ {pointer} : record'[q] = record[q]
    BY <2>1 DEF SpendingInv, TypeOK
  <2>b. record[pointer] \in Record
    BY <2>1 DEF SpendingInv, TypeOK
  <2>a. /\ record'[pointer] \in Record
        /\ record'[pointer].submission = record[pointer].submission
        /\ record'[pointer].life = record[pointer].life
        /\ record'[pointer].completion <=> record[pointer].completion
    BY <2>2, <2>b, RecordMarked
  <2>3. record' \in [Requests -> Record]
    BY <2>1, <2>2, <2>a DEF SpendingInv, TypeOK
  <2>4. AnyJob \in Job
    BY DEF AnyJob, Job
  <2>5. TypeOK'
    BY <2>3, <2>4 DEF SpendingInv, TypeOK, Labels
  <2>6. AnswerInv' /\ TransitionInv'
    BY DEF SpendingInv, AnswerInv, TransitionInv
  <2>8. ~record[pointer].completion
    BY <2>1 DEF SpendingInv, JournalInv, Remaining, Releasable, Observing, Concerns
  <2>9. RecordInv'
    BY <2>1, <2>2, <2>a, <2>8 DEF SpendingInv, RecordInv, Undetermined, Exists
  <2>10. JournalInv'
    BY DEF JournalInv
  <2> QED
    BY <2>5, <2>6, <2>9, <2>10 DEF SpendingInv
<1>2. ASSUME ObserveComplete PROVE SpendingInv'
  <2> USE <1>2 DEF ObserveComplete, Goto, native
  <2>1. pointer \in Requests /\ ~record[pointer].unresolved
    BY DEF SpendingInv, TypeOK, Observing, Concerns
  <2>2. /\ record'[pointer] = [record[pointer] EXCEPT !.completion = TRUE]
        /\ \A q \in Requests \ {pointer} : record'[q] = record[q]
    BY <2>1 DEF SpendingInv, TypeOK
  <2>b. record[pointer] \in Record
    BY <2>1 DEF SpendingInv, TypeOK
  <2>a. /\ record'[pointer] \in Record
        /\ record'[pointer].submission = record[pointer].submission
        /\ record'[pointer].life = record[pointer].life
        /\ record'[pointer].unresolved <=> record[pointer].unresolved
        /\ record'[pointer].completion
    BY <2>2, <2>b, RecordCompleted
  <2>3. record' \in [Requests -> Record]
    BY <2>1, <2>2, <2>a DEF SpendingInv, TypeOK
  <2>4. TypeOK'
    BY <2>3 DEF SpendingInv, TypeOK, Labels
  <2>5. AnswerInv' /\ TransitionInv'
    BY DEF SpendingInv, AnswerInv, TransitionInv
  <2>7. action[pointer] = "done"
    <3>1. reply[pointer].outcome = "submitted"
      BY <2>1 DEF SpendingInv, RecordInv, NoAnswer
    <3>2. action[pointer] # "open"
      BY <2>1 DEF SpendingInv, TypeOK, TransitionInv, Confirmed, Job
    <3> QED
      BY <2>1, <3>1, <3>2 DEF SpendingInv, AnswerInv
  <2>8. RecordInv'
    BY <2>1, <2>2, <2>a, <2>7 DEF SpendingInv, RecordInv, Undetermined, Exists
  <2>9. JournalInv'
    BY <2>1, <2>a DEF JournalInv
  <2> QED
    BY <2>4, <2>5, <2>8, <2>9 DEF SpendingInv
<1>3. ASSUME ObserveRelease PROVE SpendingInv'
  <2> USE <1>3 DEF ObserveRelease, Free, native
  <2>1. AnyJob \in Job
    BY DEF AnyJob, Job
  <2>2. TypeOK'
    BY <2>1 DEF SpendingInv, TypeOK, Labels
  <2>3. AnswerInv' /\ TransitionInv'
    BY DEF SpendingInv, AnswerInv, TransitionInv
  <2>4. ASSUME NEW r \in Requests PROVE ~Undetermined(r)
    <3>1. Releasable(pointer) /\ pointer \in Requests
      BY DEF SpendingInv, JournalInv, RecordInv, Releasable
    <3> QED
      BY <3>1, ReleasedIsOver DEF SpendingInv, RecordInv
  <2>5. RecordInv'
    BY <2>4 DEF SpendingInv, RecordInv, Undetermined, Exists
  <2>6. JournalInv'
    BY DEF JournalInv
  <2> QED
    BY <2>2, <2>3, <2>5, <2>6 DEF SpendingInv
<1>4. ASSUME AssertIdle PROVE SpendingInv'
  BY <1>4 DEF AssertIdle, Goto, disk, native, SpendingInv, TypeOK, Labels, AnswerInv,
              TransitionInv, RecordInv, JournalInv, Undetermined, Exists, Idle
<1> QED BY <1>1, <1>2, <1>3, <1>4

\* An inspection shows a transition as it now stands.
LEMMA InspectStep ==
  ASSUME SpendingInv, NEW h \in Hosts, NEW k \in Kinds, NEW confirms \in BOOLEAN,
         Inspect(h, k, confirms)
  PROVE  SpendingInv'
<1> USE SpendingAssumption DEF Inspect, disk, host, native
<1> DEFINE receipt == [kind |-> k, life |-> life, transition |-> ctrl[k].transition,
                       inFlight |-> ctrl[k].pending, unresolved |-> ctrl[k].unresolved,
                       confirms |-> confirms]
<1>1. receipt \in Receipt
  BY DEF SpendingInv, TypeOK, Controller, Receipt
<1>2. seen'[h] = receipt /\ \A g \in Hosts \ {h} : seen'[g] = seen[g]
  BY DEF SpendingInv, TypeOK
<1>3. TypeOK'
  BY <1>1 DEF SpendingInv, TypeOK
<1>4. AnswerInv' /\ RecordInv'
  BY DEF SpendingInv, AnswerInv, RecordInv, Undetermined, Exists
<1>5. TransitionInv'
  BY <1>2 DEF SpendingInv, TransitionInv
<1>6. JournalInv'
  BY DEF SpendingInv, JournalInv, Idle, Exists, Remaining, Releasable
<1> QED
  BY <1>3, <1>4, <1>5, <1>6 DEF SpendingInv

\* Any answer of a controller: c is its state afterwards.
LEMMA AnswerStep ==
  ASSUME SpendingInv, NEW r \in Requests, NEW outcome \in Outcomes, NEW c \in Controller,
         r \in queue,
         queue' = queue \ {r},
         ctrl' = [ctrl EXCEPT ![Kind[r]] = c],
         NEW a \in Answer, a.outcome = outcome,
         reply' = [reply EXCEPT ![r] = a],
         NEW now \in {"none", "open"},
         action' = [action EXCEPT ![r] = now],
         UNCHANGED <<disk, host, seen, life, attempts>>,
         outcome # "none",
         now = "open" <=> outcome \in {"submitted", "uncertain"},
         outcome = "uncertain" => a.unresolved,
         c.transition \in {r, ctrl[Kind[r]].transition},
         c.transition = r => /\ c.pending \/ c.unresolved \/ now # "open"
                             /\ c.pending => now = "open",
         c.transition # r => c = ctrl[Kind[r]]
  PROVE  SpendingInv'
<1> USE SpendingAssumption DEF disk, host
<1>1. /\ reply[r] = NoAnswer /\ action[r] = "none" /\ attempts[r] = 1 /\ pointer = r
  BY DEF SpendingInv, AnswerInv, RecordInv, Undetermined, NoAnswer
<1>2. a # NoAnswer
  BY DEF NoAnswer
<1>3. /\ reply'[r] = a /\ \A q \in Requests \ {r} : reply'[q] = reply[q]
      /\ action'[r] = now /\ \A q \in Requests \ {r} : action'[q] = action[q]
      /\ ctrl'[Kind[r]] = c /\ \A k \in Kinds \ {Kind[r]} : ctrl'[k] = ctrl[k]
  BY DEF SpendingInv, TypeOK
<1>4. TypeOK'
  BY DEF SpendingInv, TypeOK
<1>5. AnswerInv'
  BY <1>1, <1>2, <1>3 DEF SpendingInv, AnswerInv
<1>6. TransitionInv'
  <2>1. ASSUME NEW k \in Kinds, NEW q \in Requests, ctrl'[k].transition = q
        PROVE  /\ reply'[q] # NoAnswer /\ Kind[q] = k
               /\ ctrl'[k].pending => action'[q] = "open"
               /\ ctrl'[k].pending \/ ctrl'[k].unresolved \/ action'[q] # "open"
    <3>1. CASE q = r
      BY <1>1, <1>2, <1>3, <2>1, <3>1 DEF SpendingInv, TransitionInv
    <3>2. CASE q # r
      BY <1>1, <1>3, <2>1, <3>2 DEF SpendingInv, TransitionInv
    <3> QED BY <3>1, <3>2
  <2>2. ASSUME NEW h \in Hosts, NEW q \in Requests, seen'[h].transition = q
        PROVE  /\ reply'[q] # NoAnswer
               /\ seen'[h].inFlight \/ seen'[h].unresolved \/ action'[q] # "open"
    BY <1>1, <1>3, <2>2 DEF SpendingInv, TransitionInv
  <2> QED
    BY <2>1, <2>2 DEF TransitionInv
<1>7. RecordInv'
  BY <1>1, <1>2, <1>3 DEF SpendingInv, RecordInv, Undetermined, Exists, NoAnswer
<1>8. JournalInv'
  BY DEF SpendingInv, JournalInv, Idle, Exists, Remaining, Releasable
<1> QED
  BY <1>4, <1>5, <1>6, <1>7, <1>8 DEF SpendingInv

LEMMA NativeStep == SpendingInv /\ Native => SpendingInv'
<1> SUFFICES ASSUME SpendingInv, Native PROVE SpendingInv'
  OBVIOUS
<1> USE SpendingAssumption
<1>t. /\ \A r \in Requests : Kind[r] \in Kinds /\ Current(r) \in Controller
      /\ \A r \in Requests : action = [action EXCEPT ![r] = action[r]]
      /\ \A r \in queue : r \in Requests /\ action[r] = "none"
  BY DEF SpendingInv, TypeOK, Current, AnswerInv, NoAnswer
<1>1. ASSUME NEW r \in Requests, NEW outcome \in {"refused", "pending", "observed"},
             NEW c \in {Current(r), Transition(r)},
             Answers(r, outcome, c), UNCHANGED action
      PROVE  SpendingInv'
  <2> DEFINE a == [outcome |-> outcome, inFlight |-> c.pending, unresolved |-> c.unresolved]
  <2>1. c \in Controller
    BY <1>t DEF Transition, IdleController, Controller
  <2>2. a \in Answer /\ a.outcome = outcome
    BY <2>1 DEF Answer, Outcomes, Controller
  <2>3. c.transition # r => c = ctrl[Kind[r]]
    BY DEF Transition, IdleController, Current
  <2>4. c.transition \in {r, ctrl[Kind[r]].transition}
    BY DEF Transition, IdleController, Current
  <2>5. action' = [action EXCEPT ![r] = "none"]
    BY <1>1, <1>t DEF Answers
  <2>6. c.transition = r => ~c.pending
    BY <1>1 DEF Answers, Transition, IdleController, Current, SpendingInv, AnswerInv,
                TransitionInv
  <2> QED
    BY <1>1, <2>1, <2>2, <2>3, <2>4, <2>5, <2>6, AnswerStep DEF Answers, Outcomes
<1>2. ASSUME NEW r \in Requests, Expire(r) PROVE SpendingInv'
  <2> DEFINE a == [NoAnswer EXCEPT !.outcome = "refused"]
  <2>1. a \in Answer /\ a.outcome = "refused"
    BY DEF Answer, Outcomes, NoAnswer
  <2>2. ctrl' = [ctrl EXCEPT ![Kind[r]] = ctrl[Kind[r]]]
    BY <1>2, <1>t DEF Expire, SpendingInv, TypeOK
  <2>3. action' = [action EXCEPT ![r] = "none"]
    BY <1>2, <1>t DEF Expire
  <2>4. ctrl[Kind[r]].transition # r
    BY <1>2, <1>t DEF Expire, SpendingInv, AnswerInv, TransitionInv
  <2>5. ctrl[Kind[r]] \in Controller
    BY <1>t DEF Current
  <2> QED
    BY <1>2, <2>1, <2>2, <2>3, <2>4, <2>5, AnswerStep DEF Expire, Outcomes
<1>3. ASSUME NEW r \in Requests, Invoke(r) PROVE SpendingInv'
  <2>a. ASSUME NEW c, c \in {[Transition(r) EXCEPT !.pending = TRUE],
                           [Transition(r) EXCEPT !.pending = TRUE, !.unresolved = TRUE]}
        PROVE  c \in Controller /\ c.transition = r /\ c.pending
    BY <2>a DEF Transition, IdleController, Controller
  <2>b. [Transition(r) EXCEPT !.pending = TRUE, !.unresolved = TRUE].unresolved
    BY DEF Transition, IdleController
  <2>1. PICK outcome \in {"submitted", "uncertain"}, c \in Controller :
          /\ Answers(r, outcome, c)
          /\ c.transition = r /\ c.pending
          /\ outcome = "uncertain" => c.unresolved
    BY <1>3, <2>a, <2>b DEF Invoke
  <2> DEFINE a == [outcome |-> outcome, inFlight |-> c.pending, unresolved |-> c.unresolved]
  <2>2. /\ a \in Answer /\ a.outcome = outcome
        /\ outcome = "uncertain" => a.unresolved
    BY <2>1 DEF Answer, Outcomes, Controller
  <2>3. action' = [action EXCEPT ![r] = "open"]
    BY <1>3 DEF Invoke
  <2> QED
    BY <2>1, <2>2, <2>3, AnswerStep DEF Answers, Outcomes
<1>4. ASSUME NEW k \in Kinds, Settle(k) PROVE SpendingInv'
  <2> USE <1>4 DEF Settle, disk, host
  <2> DEFINE r == ctrl[k].transition
  <2>1. /\ \A q \in Requests : action'[q] = IF q = r THEN "done" ELSE action[q]
        /\ ctrl'[k] = [ctrl[k] EXCEPT !.pending = FALSE]
        /\ \A j \in Kinds \ {k} : ctrl'[j] = ctrl[j]
    BY DEF SpendingInv, TypeOK
  <2>b. ctrl[k] \in Controller
    BY DEF SpendingInv, TypeOK
  <2>2. ctrl'[k] \in Controller /\ ctrl'[k].transition = r /\ ~ctrl'[k].pending
    BY <2>1, <2>b, ControllerSettled
  <2>3. TypeOK'
    BY <2>1, <2>2 DEF SpendingInv, TypeOK
  <2>4. r \in Requests => action[r] = "open" /\ Kind[r] = k
    BY DEF SpendingInv, TransitionInv, Pending
  <2>5. AnswerInv'
    BY <2>1, <2>4 DEF SpendingInv, AnswerInv
  <2>6. TransitionInv'
    <3>1. ASSUME NEW j \in Kinds, NEW q \in Requests, ctrl'[j].transition = q
          PROVE  /\ reply'[q] # NoAnswer /\ Kind[q] = j
                 /\ ctrl'[j].pending => action'[q] = "open"
                 /\ ctrl'[j].pending \/ ctrl'[j].unresolved \/ action'[q] # "open"
      <4>1. CASE j = k
        BY <2>1, <2>2, <3>1, <4>1 DEF SpendingInv, TransitionInv
      <4>2. CASE j # k
        BY <2>1, <2>4, <3>1, <4>2 DEF SpendingInv, TransitionInv
      <4> QED BY <4>1, <4>2
    <3>2. ASSUME NEW h \in Hosts, NEW q \in Requests, seen'[h].transition = q
          PROVE  /\ reply'[q] # NoAnswer
                 /\ seen'[h].inFlight \/ seen'[h].unresolved \/ action'[q] # "open"
      BY <2>1, <3>2 DEF SpendingInv, TransitionInv
    <3> QED
      BY <3>1, <3>2 DEF TransitionInv
  <2>7. RecordInv'
    BY <2>1 DEF SpendingInv, RecordInv, Undetermined, Exists
  <2>8. JournalInv'
    BY DEF SpendingInv, JournalInv, Idle, Exists, Remaining, Releasable
  <2> QED
    BY <2>3, <2>5, <2>6, <2>7, <2>8 DEF SpendingInv
<1>5. ASSUME NEW k \in Kinds, NEW c \in Controller, ctrl' = [ctrl EXCEPT ![k] = c],
             c.transition \in Requests =>
               /\ c.transition = ctrl[k].transition /\ c.pending /\ ctrl[k].pending,
             UNCHANGED <<disk, host, seen, life, queue, reply, action, attempts>>
      PROVE  SpendingInv'
  <2> USE <1>5 DEF disk, host
  <2>1. ctrl'[k] = c /\ \A j \in Kinds \ {k} : ctrl'[j] = ctrl[j]
    BY DEF SpendingInv, TypeOK
  <2>2. TypeOK'
    BY DEF SpendingInv, TypeOK
  <2>3. TransitionInv'
    BY <2>1 DEF SpendingInv, TransitionInv
  <2>4. AnswerInv' /\ RecordInv' /\ JournalInv'
    BY DEF SpendingInv, AnswerInv, RecordInv, Undetermined, JournalInv, Idle, Exists,
           Remaining, Releasable
  <2> QED
    BY <2>2, <2>3, <2>4 DEF SpendingInv
<1>6. ASSUME NEW k \in Kinds, Latch(k) PROVE SpendingInv'
  <2> DEFINE c == [ctrl[k] EXCEPT !.unresolved = TRUE]
  <2>1. ctrl[k] \in Controller
    BY DEF SpendingInv, TypeOK
  <2>2. /\ c \in Controller /\ c.transition = ctrl[k].transition
        /\ ctrl[k].pending /\ c.pending
    BY <1>6, <2>1 DEF Latch, Pending, Controller
  <2>3. ctrl' = [ctrl EXCEPT ![k] = c]
    BY <1>6 DEF Latch, SpendingInv, TypeOK
  <2> QED
    BY <1>5, <1>6, <2>2, <2>3 DEF Latch
<1>7. ASSUME Foreign PROVE SpendingInv'
  <2> DEFINE c == [IdleController EXCEPT !.pending = TRUE]
  <2>1. c \in Controller /\ c.transition \notin Requests
    BY DEF IdleController, Controller
  <2> QED
    BY <1>5, <1>7, <2>1 DEF Foreign
<1>8. ASSUME Restart PROVE SpendingInv'
  <2> USE <1>8 DEF Restart, disk, host
  <2>1. IdleController \in Controller /\ IdleController.transition \notin Requests
    BY DEF IdleController, Controller
  <2>2. TypeOK'
    BY <2>1 DEF SpendingInv, TypeOK
  <2>3. TransitionInv'
    BY <2>1 DEF SpendingInv, TransitionInv
  <2>4. AnswerInv' /\ RecordInv' /\ JournalInv'
    BY DEF SpendingInv, AnswerInv, RecordInv, Undetermined, JournalInv, Idle, Exists,
           Remaining, Releasable
  <2> QED
    BY <2>2, <2>3, <2>4 DEF SpendingInv
<1>9. ASSUME NEW r \in Requests, Refuse(r) \/ RefuseBusy(r) \/ Decline(r) \/ AlreadyOpen(r)
      PROVE  SpendingInv'
  BY <1>1, <1>9 DEF Refuse, RefuseBusy, Decline, AlreadyOpen
<1> QED
  BY <1>2, <1>3, <1>4, <1>6, <1>7, <1>8, <1>9 DEF Native

LEMMA NextInv == SpendingInv /\ [Next]_vars => SpendingInv'
<1> SUFFICES ASSUME SpendingInv, [Next]_vars PROVE SpendingInv'
  OBVIOUS
<1> USE SpendingAssumption
<1>a. AnyJob \in Job /\ AnyJob.call = "assert"
  BY DEF AnyJob, Job
<1>1. ASSUME NEW r \in Requests, BeginSubmit(r) PROVE SpendingInv'
  <2> DEFINE j == [call |-> "submit", request |-> r, host |-> HostOf[r]]
  <2>1. j \in Job /\ j.request \in Requests
    BY DEF Job
  <2>2. Enter(j)
    BY <1>1 DEF BeginSubmit
  <2> QED
    BY ONLY SpendingInv, <2>1, <2>2, EnterStep
<1>2. ASSUME NEW h \in Hosts, BeginObserve(h) PROVE SpendingInv'
  <2> DEFINE j == [AnyJob EXCEPT !.call = "observe", !.host = h]
  <2>1. j \in Job /\ j.call = "observe"
    BY DEF AnyJob, Job
  <2>2. Enter(j)
    BY <1>2 DEF BeginObserve
  <2> QED
    BY ONLY SpendingInv, <2>1, <2>2, EnterStep
<1>3. ASSUME BeginAssert PROVE SpendingInv'
  BY <1>3, <1>a, EnterStep DEF BeginAssert
<1>4. ASSUME Journal PROVE SpendingInv'
  BY <1>4, <1>1, <1>2, <1>3, AbortStep, SubmitStep, ObserveStep DEF Journal
<1>5. ASSUME UNCHANGED vars PROVE SpendingInv'
  BY <1>5 DEF vars, disk, host, native, SpendingInv, TypeOK, AnswerInv, TransitionInv,
              RecordInv, JournalInv, Undetermined, Idle, Exists, Remaining, Releasable
<1> QED
  BY <1>4, <1>5, NativeStep, InspectStep DEF Next

\* The inductive invariant holds in every reachable state.
THEOREM SpendingCorrect == Spec => []SpendingInv
  BY InitInv, NextInv, PTL DEF Spec

\* Two actions of the journal are never undetermined together: submit refuses while a
\* request is pending, and _pending releases only what is over.
THEOREM SpendsOneAtATime == Spec => []OneOpenSpend
<1>1. SpendingInv => OneOpenSpend
  BY DEF SpendingInv, RecordInv, OneOpenSpend
<1> QED BY <1>1, SpendingCorrect, PTL

\* submit puts a request into the channel at most once in the journal's lifetime.
THEOREM SpendsAtMostOnce == Spec => []AtMostOnce
<1>1. SpendingInv => AtMostOnce
  BY DEF SpendingInv, RecordInv, AtMostOnce
<1> QED BY <1>1, SpendingCorrect, PTL

\* assert_idle returns only when no journalled action is in the channel or open.
THEOREM IdleIsSettled == Spec => []IdleMeansSettled
<1>1. SpendingInv => IdleMeansSettled
  BY SpendingAssumption DEF SpendingInv, RecordInv, JournalInv, Idle, IdleMeansSettled
<1> QED BY <1>1, SpendingCorrect, PTL

\* _pending does not release a request that needs review.
LEMMA ReviewNotReleased ==
  ASSUME SpendingInv, NEW r \in Requests, NeedsReview(r)
  PROVE  ~Releasable(r) /\ ~record[r].completion
  BY DEF SpendingInv, RecordInv, NeedsReview, Releasable, NoAnswer

\* No step of the journal, the controllers or a restart takes a request that needs review
\* out of active.json, answers it or completes it.
THEOREM ReviewsStay == Spec => ReviewStays
<1> DEFINE Stays(r) == /\ pointer' = r
                       /\ record'[r].submission = record[r].submission
                       /\ record'[r].completion = record[r].completion
<1>1. ASSUME SpendingInv, [Next]_vars, NEW r \in Requests, pointer = r, NeedsReview(r)
      PROVE  Stays(r)
  <2> USE <1>1, SpendingAssumption
  <2>a. Remaining = r /\ ~Idle
    BY ReviewNotReleased DEF Remaining, Idle
  <2>b. /\ record[r] \in Record
        /\ \A x : record' = [record EXCEPT ![r] = x] => record'[r] = x
    BY DEF SpendingInv, TypeOK
  <2>1. ASSUME NEW j, Enter(j) PROVE Stays(r)
    BY <2>1, <2>a DEF Enter
  <2>2. ASSUME SubmitRecord \/ SubmitPoint \/ SubmitReply \/ AssertIdle PROVE Stays(r)
    <3>1. ~SubmitRecord /\ ~SubmitPoint /\ ~AssertIdle
      BY <2>a DEF SubmitRecord, SubmitPoint, AssertIdle, SpendingInv, JournalInv
    <3>2. ~SubmitReply
      BY DEF SubmitReply, SpendingInv, JournalInv, NeedsReview
    <3> QED BY <2>2, <3>1, <3>2
  <2>3. ASSUME SubmitSettle PROVE Stays(r)
    BY <2>3, <2>a DEF SubmitSettle
  <2>4. ASSUME ObserveUnresolved PROVE Stays(r)
    <3>1. record'[r] = [record[r] EXCEPT !.unresolved = TRUE] /\ pointer' = r
      BY <2>4 DEF ObserveUnresolved, SpendingInv, TypeOK
    <3>2. ASSUME NEW x \in Record, NEW y, y = [x EXCEPT !.unresolved = TRUE]
          PROVE  y.submission = x.submission /\ y.completion = x.completion
      BY ONLY <3>2 DEF Record
    <3> QED BY ONLY <2>b, <3>1, <3>2
  <2>5. ~ObserveComplete
    BY DEF ObserveComplete, Observing, Concerns, NeedsReview, NoAnswer
  <2>6. ~ObserveRelease
    BY ReviewNotReleased DEF ObserveRelease, SpendingInv, JournalInv
  <2>7. ASSUME UNCHANGED disk PROVE Stays(r)
    BY <2>7 DEF disk
  <2>8. Abort \/ SubmitDispatch \/ Native => UNCHANGED disk
    BY DEF Abort, SubmitDispatch, Native, Refuse, RefuseBusy, Expire, Decline, AlreadyOpen,
           Invoke, Answers, Settle, Latch, Foreign, Restart
  <2>9. ASSUME NEW h \in Hosts, NEW k \in Kinds, NEW confirms \in BOOLEAN,
               Inspect(h, k, confirms)
        PROVE  Stays(r)
    BY <2>9, <2>7 DEF Inspect
  <2>10. ASSUME Journal PROVE Stays(r)
    <3>1. ASSUME (\E q \in Requests : BeginSubmit(q)) \/ (\E h \in Hosts : BeginObserve(h))
                 \/ BeginAssert
          PROVE  Stays(r)
      BY <3>1, <2>1 DEF BeginSubmit, BeginObserve, BeginAssert
    <3> QED
      BY <2>10, <3>1, <2>2, <2>3, <2>4, <2>5, <2>6, <2>7, <2>8 DEF Journal
  <2>11. UNCHANGED vars => UNCHANGED disk
    BY DEF vars
  <2> QED
    BY <2>7, <2>8, <2>9, <2>10, <2>11 DEF Next
<1>2. SpendingInv /\ [Next]_vars =>
        [\A r \in Requests : pointer = r /\ NeedsReview(r) => Stays(r)]_vars
  BY <1>1
<1>3. QED
  BY <1>2, SpendingCorrect, PTL DEF Spec, ReviewStays

\* No step of submit, observe or a restart writes, points to or sends a request that the
\* pointer has left, or that its submit gave up before pointing to it.
THEOREM HistoryIsFinal == Spec => HistoryStays
<1> DEFINE Kept(r) == record'[r] = record[r] /\ pointer' # r /\ attempts'[r] = attempts[r]
<1>1. ASSUME SpendingInv, [Next]_vars, NEW r \in Requests, Exists(r), pointer # r,
             ~(pc = "point" /\ job.request = r)
      PROVE  Kept(r)
  <2> USE <1>1, SpendingAssumption
  <2>a. record \in [Requests -> Record] /\ attempts \in [Requests -> Nat]
    BY DEF SpendingInv, TypeOK
  <2>b. Remaining # r
    BY DEF Remaining
  <2>1. ASSUME NEW j, Enter(j) PROVE Kept(r)
    BY <2>1, <2>b DEF Enter
  <2>2. ASSUME SubmitRecord PROVE Kept(r)
    BY <2>2, <2>a DEF SubmitRecord
  <2>3. ASSUME SubmitPoint PROVE Kept(r)
    BY <2>3 DEF SubmitPoint
  <2>4. ASSUME SubmitDispatch \/ SubmitReply \/ SubmitSettle PROVE Kept(r)
    <3>1. job.request # r
      BY <2>4 DEF SubmitDispatch, SubmitReply, SubmitSettle, SpendingInv, JournalInv
    <3> QED BY <2>4, <2>a, <2>b, <3>1 DEF SubmitDispatch, SubmitReply, SubmitSettle, disk
  <2>5. ASSUME ObserveUnresolved \/ ObserveComplete PROVE Kept(r)
    BY <2>5, <2>a DEF ObserveUnresolved, ObserveComplete
  <2>6. ASSUME ObserveRelease PROVE Kept(r)
    BY <2>6 DEF ObserveRelease
  <2>7. ASSUME UNCHANGED <<disk, attempts>> PROVE Kept(r)
    BY <2>7 DEF disk
  <2>8. Abort \/ AssertIdle \/ Native => UNCHANGED <<disk, attempts>>
    BY DEF Abort, AssertIdle, Native, Refuse, RefuseBusy, Expire, Decline, AlreadyOpen,
           Invoke, Answers, Settle, Latch, Foreign, Restart
  <2>9. ASSUME NEW h \in Hosts, NEW k \in Kinds, NEW confirms \in BOOLEAN,
               Inspect(h, k, confirms)
        PROVE  Kept(r)
    BY <2>9, <2>7 DEF Inspect
  <2>10. ASSUME (\E q \in Requests : BeginSubmit(q)) \/ (\E h \in Hosts : BeginObserve(h))
                \/ BeginAssert
         PROVE  Kept(r)
    BY <2>10, <2>1 DEF BeginSubmit, BeginObserve, BeginAssert
  <2>11. UNCHANGED vars => UNCHANGED <<disk, attempts>>
    BY DEF vars
  <2>12. ASSUME Journal PROVE Kept(r)
    BY <2>12, <2>2, <2>3, <2>4, <2>5, <2>6, <2>7, <2>8, <2>10 DEF Journal
  <2> QED BY <2>7, <2>8, <2>9, <2>11, <2>12 DEF Next
<1>2. SpendingInv /\ [Next]_vars =>
        [\A r \in Requests :
           Exists(r) /\ pointer # r /\ ~(pc = "point" /\ job.request = r) => Kept(r)]_vars
  BY <1>1
<1> QED BY <1>2, SpendingCorrect, PTL DEF Spec, HistoryStays
================================================================================
