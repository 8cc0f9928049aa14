---------------------------- MODULE GuardSpending -----------------------------
(***************************************************************************)
(* Guard actions that spend gold: the host's durable GuardSpendingJournal  *)
(* (client_extension/guard_spending_journal.py), the sessions that submit  *)
(* and inspect through the native action channel, and the controllers in   *)
(* the game process (native/wonderbane_extension) that call the client.    *)
(*                                                                         *)
(* A journal transaction runs under journal.lock, also while it waits for  *)
(* the controller's answer; each file it publishes is a step.  It may end  *)
(* at any step: the host dies, a write fails or the answer does not come   *)
(* in time, in which case the game may still execute the command.  The     *)
(* game may restart, which empties the controllers but not the journal.    *)
(* An inspection is answered outside the lock and journalled at any later  *)
(* time.                                                                   *)
(*                                                                         *)
(* STALE, UNAVAILABLE, INVALID and EXHAUSTED are one outcome, "refused":   *)
(* the journal does not tell them apart.  Whether the client is live,      *)
(* ready and shows the expected snapshot is left open.  A request key      *)
(* reaches the controllers at most once (AtMostOnce), so the answer they   *)
(* keep for a repeated key does not appear.                                *)
(***************************************************************************)
EXTENDS Naturals

CONSTANTS
  Requests,       \* request keys
  NoRequest,
  Kinds, Kind,    \* the controller of a request: upgrade, funding or navigation
  Navigation,     \* the kind that opens windows
  Hosts, HostOf,  \* host sessions (process and lease), and the one of a request
  MaxLife         \* bound on the lifetimes of the game process

ASSUME SpendingAssumption ==
  /\ NoRequest \notin Requests
  /\ Navigation \in Kinds /\ Hosts # {}
  /\ Kind \in [Requests -> Kinds]
  /\ HostOf \in [Requests -> Hosts]
  /\ MaxLife \in Nat \ {0}

VARIABLES
  record,    \* requests/<key>.json
  pointed,   \* active.json exists
  pointer,   \* the request it names
  pc, job,   \* the transaction under journal.lock
  seen,      \* per host session: the inspection it has still to journal
  life,      \* the current lifetime of the game process
  queue,     \* commands in the channel
  reply,     \* receipts that the controllers answered commands with
  ctrl,      \* per controller: pending_, unresolved_, transition_
  action,    \* history: what became of the client call for a request
  attempts   \* history: how often a request was put into the channel

host   == <<pc, job>>
disk   == <<record, pointed, pointer>>
native == <<life, queue, reply, ctrl, action>>
vars   == <<disk, host, seen, native, attempts>>

Outcomes == {"none", "submitted", "observed", "refused", "pending", "uncertain"}
\* A submission and its IN_FLIGHT and UNRESOLVED flags.
Answer == [outcome : Outcomes, inFlight : BOOLEAN, unresolved : BOOLEAN]
NoAnswer == [outcome |-> "none", inFlight |-> FALSE, unresolved |-> FALSE]

\* life 0: no such file.
Record == [life : Nat, submission : Answer, completion : BOOLEAN, unresolved : BOOLEAN]
Intent(at) == [life |-> at, submission |-> NoAnswer, completion |-> FALSE, unresolved |-> FALSE]
NoRecord == Intent(0)

\* The receipt of an inspection.  confirms: its snapshot shows the change that the
\* transition's command asked for.  life 0: none.
Receipt == [kind : Kinds, life : Nat, transition : Requests \cup {NoRequest},
            inFlight : BOOLEAN, unresolved : BOOLEAN, confirms : BOOLEAN]
NoReceipt == [kind |-> Navigation, life |-> 0, transition |-> NoRequest,
              inFlight |-> FALSE, unresolved |-> FALSE, confirms |-> FALSE]

Controller == [pending : BOOLEAN, unresolved : BOOLEAN, transition : Requests \cup {NoRequest}]
IdleController == [pending |-> FALSE, unresolved |-> FALSE, transition |-> NoRequest]

Job == [call : {"submit", "observe", "assert"}, request : Requests \cup {NoRequest}, host : Hosts]
Labels == {"free", "entered", "point", "dispatch", "wait", "settle", "release", "idle"}

TypeOK ==
  /\ record \in [Requests -> Record]
  /\ pointed \in BOOLEAN /\ pointer \in Requests \cup {NoRequest}
  /\ pc \in Labels /\ job \in Job
  /\ seen \in [Hosts -> Receipt]
  /\ life \in Nat \ {0}
  /\ queue \subseteq Requests
  /\ reply \in [Requests -> Answer]
  /\ ctrl \in [Kinds -> Controller]
  /\ action \in [Requests -> {"none", "open", "done"}]
  /\ attempts \in [Requests -> Nat]

AnyJob == [call |-> "assert", request |-> NoRequest, host |-> CHOOSE h \in Hosts : TRUE]

Init ==
  /\ record = [r \in Requests |-> NoRecord]
  /\ pointed = FALSE /\ pointer = NoRequest
  /\ pc = "free" /\ job = AnyJob
  /\ seen = [h \in Hosts |-> NoReceipt]
  /\ life = 1 /\ queue = {} /\ reply = [r \in Requests |-> NoAnswer]
  /\ ctrl = [k \in Kinds |-> IdleController]
  /\ action = [r \in Requests |-> "none"]
  /\ attempts = [r \in Requests |-> 0]

-------------------------------------------------------------------------------
(***************************************************************************)
(* GuardSpendingJournal                                                    *)
(***************************************************************************)

Exists(r) == record[r].life > 0

\* Requests without a pointer: every call raises until someone reviews the journal.
PointerLost == ~pointed /\ \E r \in Requests : Exists(r)

\* Mutant: a request without a recorded submission did nothing.
MutReleasable(r) ==
  /\ ~record[r].unresolved
  /\ \/ record[r].completion
     \/ /\ \/ record[r].submission.outcome \in {"refused", "none"}
           \/ Kind[r] = Navigation /\ record[r].submission.outcome = "observed"
        /\ ~record[r].submission.inFlight /\ ~record[r].submission.unresolved

\* _pending: the request is over.  It was completed, or its submission did nothing: it
\* was refused, or the window to open was already open.
Releasable(r) ==
  /\ ~record[r].unresolved
  /\ \/ record[r].completion
     \/ /\ \/ record[r].submission.outcome = "refused"
           \/ Kind[r] = Navigation /\ record[r].submission.outcome = "observed"
        /\ ~record[r].submission.inFlight /\ ~record[r].submission.unresolved

\* What _pending leaves in active.json.
Remaining == IF pointer # NoRequest /\ Releasable(pointer) THEN NoRequest ELSE pointer

Idle == pointer = NoRequest

\* A transaction takes the lock and calls _pending.
Enter(j) ==
  /\ pc = "free" /\ ~PointerLost
  /\ pointer' = Remaining
  /\ pc' = "entered" /\ job' = j
  /\ UNCHANGED <<record, pointed, seen, native, attempts>>

BeginSubmit(r) == Enter([call |-> "submit", request |-> r, host |-> HostOf[r]])
BeginObserve(h) == seen[h].life > 0 /\ Enter([AnyJob EXCEPT !.call = "observe", !.host = h])
BeginAssert == Enter(AnyJob)

Goto(label) == pc' = label /\ UNCHANGED job
Free == pc' = "free" /\ job' = AnyJob

\* The call raises, or its process dies, wherever it stands.
Abort == /\ pc # "free" /\ Free
         /\ UNCHANGED <<disk, seen, native, attempts>>

\* Mutants: a pending request does not refuse another; an existing one is written anew.
MutSubmitRecordPending ==
  /\ pc = "entered" /\ job.call = "submit"
  /\ ~Exists(job.request)
  /\ record' = [record EXCEPT ![job.request] = Intent(life)]
  /\ Goto("point")
  /\ UNCHANGED <<pointed, pointer, seen, native, attempts>>

MutSubmitRecord ==
  /\ pc = "entered" /\ job.call = "submit"
  /\ Idle
  /\ record' = [record EXCEPT ![job.request] = Intent(life)]
  /\ Goto("point")
  /\ UNCHANGED <<pointed, pointer, seen, native, attempts>>

\* Refused while a request is pending, and for a request that exists.
SubmitRecord ==
  /\ pc = "entered" /\ job.call = "submit"
  /\ Idle /\ ~Exists(job.request)
  /\ record' = [record EXCEPT ![job.request] = Intent(life)]
  /\ Goto("point")
  /\ UNCHANGED <<pointed, pointer, seen, native, attempts>>

SubmitPoint ==
  /\ pc = "point"
  /\ pointed' = TRUE /\ pointer' = job.request
  /\ Goto("dispatch")
  /\ UNCHANGED <<record, seen, native, attempts>>

\* The session's dispatch, which works only for the game process it was opened for.
SubmitDispatch ==
  /\ pc = "dispatch" /\ record[job.request].life = life
  /\ queue' = queue \cup {job.request}
  /\ attempts' = [attempts EXCEPT ![job.request] = @ + 1]
  /\ Goto("wait")
  /\ UNCHANGED <<disk, seen, life, reply, ctrl, action>>

Answered(x, answer) ==
  [x EXCEPT !.submission = answer, !.unresolved = answer.unresolved]

SubmitReply ==
  /\ pc = "wait" /\ reply[job.request] # NoAnswer
  /\ record' = [record EXCEPT ![job.request] = Answered(@, reply[job.request])]
  /\ Goto("settle")
  /\ UNCHANGED <<pointed, pointer, seen, native, attempts>>

SubmitSettle ==
  /\ pc = "settle"
  /\ pointer' = Remaining
  /\ Free
  /\ UNCHANGED <<record, pointed, seen, native, attempts>>

\* _confirmed
Confirmed(r, receipt) ==
  /\ receipt.transition = r /\ receipt.confirms
  /\ ~receipt.inFlight /\ ~receipt.unresolved

\* observe: the receipt comes from the request's own controller, process and session.
Concerns(h, r) ==
  /\ r # NoRequest /\ ~record[r].unresolved
  /\ seen[h].kind = Kind[r] /\ seen[h].life = record[r].life /\ HostOf[r] = h

Observing == pc = "entered" /\ job.call = "observe" /\ Concerns(job.host, pointer)

ObserveUnresolved ==
  /\ Observing /\ seen[job.host].unresolved
  /\ record' = [record EXCEPT ![pointer].unresolved = TRUE]
  /\ Free
  /\ UNCHANGED <<pointed, pointer, seen, native, attempts>>

\* Mutant: a lost reply is inferred from what the client shows.
MutObserveComplete ==
  /\ Observing /\ ~seen[job.host].unresolved
  /\ seen[job.host].confirms /\ ~seen[job.host].inFlight
  /\ record' = [record EXCEPT ![pointer].completion = TRUE]
  /\ Goto("release")
  /\ UNCHANGED <<pointed, pointer, seen, native, attempts>>

ObserveComplete ==
  /\ Observing /\ ~seen[job.host].unresolved
  /\ record[pointer].submission.outcome = "submitted"
  /\ Confirmed(pointer, seen[job.host])
  /\ record' = [record EXCEPT ![pointer].completion = TRUE]
  /\ Goto("release")
  /\ UNCHANGED <<pointed, pointer, seen, native, attempts>>

ObserveRelease ==
  /\ pc = "release"
  /\ pointer' = NoRequest
  /\ Free
  /\ UNCHANGED <<record, pointed, seen, native, attempts>>

\* assert_idle returns.
AssertIdle ==
  /\ pc = "entered" /\ job.call = "assert" /\ Idle
  /\ Goto("idle")
  /\ UNCHANGED <<disk, seen, native, attempts>>

\* The session inspects a controller, which answers for its latest transition.
Inspect(h, k, confirms) ==
  /\ seen' = [seen EXCEPT ![h] =
       [kind |-> k, life |-> life, transition |-> ctrl[k].transition,
        inFlight |-> ctrl[k].pending, unresolved |-> ctrl[k].unresolved,
        confirms |-> confirms]]
  /\ UNCHANGED <<disk, host, native, attempts>>

Journal ==
  \/ \E r \in Requests : BeginSubmit(r)
  \/ \E h \in Hosts : BeginObserve(h)
  \/ BeginAssert \/ Abort
  \/ SubmitRecord \/ SubmitPoint \/ SubmitDispatch \/ SubmitReply \/ SubmitSettle
  \/ ObserveUnresolved \/ ObserveComplete \/ ObserveRelease \/ AssertIdle

-------------------------------------------------------------------------------
(***************************************************************************)
(* The native channel and controllers                                      *)
(***************************************************************************)

Busy(k) == ctrl[k].pending \/ ctrl[k].unresolved

\* Controller::Execute answers a queued command, with the flags that then hold.
Answers(r, outcome, c) ==
  /\ r \in queue
  /\ queue' = queue \ {r}
  /\ ctrl' = [ctrl EXCEPT ![Kind[r]] = c]
  /\ reply' = [reply EXCEPT ![r] =
       [outcome |-> outcome, inFlight |-> c.pending, unresolved |-> c.unresolved]]
  /\ UNCHANGED <<disk, host, seen, life, attempts>>

Current(r) == ctrl[Kind[r]]
Transition(r) == [IdleController EXCEPT !.transition = r]

\* Not live, not ready, not the expected snapshot, not eligible, or out of room.
Refuse(r) == Answers(r, "refused", Current(r)) /\ UNCHANGED action

RefuseBusy(r) == Busy(Kind[r]) /\ Answers(r, "pending", Current(r)) /\ UNCHANGED action

\* The command expired before the game's thread took it.
Expire(r) ==
  /\ r \in queue
  /\ queue' = queue \ {r}
  /\ reply' = [reply EXCEPT ![r] = [NoAnswer EXCEPT !.outcome = "refused"]]
  /\ UNCHANGED <<disk, host, seen, life, ctrl, action, attempts>>

\* ready: no controller is busy.
Admit == \A k \in Kinds : ~Busy(k)

\* The invoker found a change before it called the client.
Decline(r) == Admit /\ Answers(r, "refused", Transition(r)) /\ UNCHANGED action

AlreadyOpen(r) == /\ Kind[r] = Navigation /\ Admit
                  /\ Answers(r, "observed", Transition(r))
                  /\ UNCHANGED action

\* The client was called; its result may be uncertain.
Invoke(r) ==
  /\ Admit
  /\ \/ Answers(r, "submitted", [Transition(r) EXCEPT !.pending = TRUE])
     \/ Answers(r, "uncertain", [Transition(r) EXCEPT !.pending = TRUE, !.unresolved = TRUE])
  /\ action' = [action EXCEPT ![r] = "open"]

Pending(k) == ctrl[k].pending /\ ~ctrl[k].unresolved

\* Controller::Observe sees the exact change; or another one, or none in time.
Settle(k) == /\ Pending(k)
             /\ ctrl' = [ctrl EXCEPT ![k].pending = FALSE]
             /\ action' = [r \in Requests |->
                            IF r = ctrl[k].transition THEN "done" ELSE action[r]]
             /\ UNCHANGED <<disk, host, seen, life, queue, reply, attempts>>

Latch(k) == /\ Pending(k)
            /\ ctrl' = [ctrl EXCEPT ![k].unresolved = TRUE]
            /\ UNCHANGED <<disk, host, seen, life, queue, reply, action, attempts>>

\* A job of another kind opens a window through a session without this journal.
Foreign == /\ Admit
           /\ ctrl' = [ctrl EXCEPT ![Navigation] = [IdleController EXCEPT !.pending = TRUE]]
           /\ UNCHANGED <<disk, host, seen, life, queue, reply, action, attempts>>

\* The game process ends and another one starts.
Restart == /\ life < MaxLife
           /\ life' = life + 1
           /\ queue' = {}
           /\ ctrl' = [k \in Kinds |-> IdleController]
           /\ UNCHANGED <<disk, host, seen, reply, action, attempts>>

Native == \/ \E r \in Requests : \/ Refuse(r) \/ RefuseBusy(r) \/ Expire(r)
                                 \/ Decline(r) \/ AlreadyOpen(r) \/ Invoke(r)
          \/ \E k \in Kinds : Settle(k) \/ Latch(k)
          \/ Foreign \/ Restart

Next == \/ Journal \/ Native
        \/ \E h \in Hosts, k \in Kinds, confirms \in BOOLEAN : Inspect(h, k, confirms)

Spec == Init /\ [][Next]_vars
-------------------------------------------------------------------------------
(***************************************************************************)
(* Properties                                                              *)
(***************************************************************************)

\* The client may yet carry out the request, or has been called and is not known to
\* have done it.
Undetermined(r) == r \in queue \/ action[r] = "open"

\* At most one journalled action is undetermined at a time, whatever host died, reply
\* was lost or game restarted (submit refuses while _pending returns a request).
OneOpenSpend == \A r, q \in Requests : Undetermined(r) /\ Undetermined(q) => r = q

\* No request is ever put into the channel twice, also after it was refused, completed
\* or forgotten by the game ("Historical requests are never replaced or retried").
AtMostOnce == \A r \in Requests : attempts[r] <= 1

\* When assert_idle returns, nothing that was journalled is undetermined: the guard
\* worker reports its native cleanup as confirmed on that ground.
IdleMeansSettled == pc = "idle" => \A r \in Requests : ~Undetermined(r)

\* A request found unresolved, or whose reply was lost, keeps the pointer: no later
\* observation, host or game process answers or completes it ("Lost submission reply is
\* retained for review, never inferred"; observe, _pending).
NeedsReview(r) ==
  \/ record[r].unresolved
  \/ /\ attempts[r] = 1 /\ record[r].submission = NoAnswer
     /\ ~(pc = "wait" /\ job.request = r)
ReviewStays ==
  [][\A r \in Requests : pointer = r /\ NeedsReview(r) =>
       /\ pointer' = r
       /\ record'[r].submission = record[r].submission
       /\ record'[r].completion = record[r].completion]_vars

\* A request that the pointer has left, or never got to, is history: its file is not written,
\* it is not pointed to and not sent again ("Historical requests are never replaced or
\* retried"; submit, observe).
HistoryStays ==
  [][\A r \in Requests :
       Exists(r) /\ pointer # r /\ ~(pc = "point" /\ job.request = r) =>
         record'[r] = record[r] /\ pointer' # r /\ attempts'[r] = attempts[r]]_vars

-------------------------------------------------------------------------------
(***************************************************************************)
(* The inductive invariant (proved in GuardSpendingProofs)                 *)
(***************************************************************************)

\* What a controller's answer says of the action.
AnswerInv == \A r \in Requests :
  /\ reply[r].outcome = "none" => reply[r] = NoAnswer /\ action[r] = "none"
  /\ reply[r].outcome \in {"refused", "observed", "pending"} => action[r] = "none"
  /\ reply[r].outcome = "submitted" => action[r] \in {"open", "done"}
  /\ reply[r].outcome = "uncertain" => reply[r].unresolved
  /\ reply[r] # NoAnswer \/ r \in queue => attempts[r] = 1
  /\ ~(reply[r] # NoAnswer /\ r \in queue)

\* A transition without flags whose command was submitted is done, now and when it was
\* seen.
TransitionInv ==
  /\ \A k \in Kinds, r \in Requests : ctrl[k].transition = r =>
       /\ reply[r] # NoAnswer
       /\ Kind[r] = k
       /\ ctrl[k].pending => action[r] = "open"
       /\ ctrl[k].pending \/ ctrl[k].unresolved \/ action[r] # "open"
  /\ \A h \in Hosts, r \in Requests : seen[h].transition = r =>
       /\ reply[r] # NoAnswer
       /\ seen[h].inFlight \/ seen[h].unresolved \/ action[r] # "open"

RecordInv == \A r \in Requests :
  /\ record[r].submission \in {NoAnswer, reply[r]}
  /\ record[r].completion => /\ record[r].submission.outcome = "submitted"
                             /\ action[r] = "done" /\ ~record[r].unresolved
  /\ attempts[r] <= 1
  /\ attempts[r] = 1 => Exists(r)
  /\ Undetermined(r) => pointer = r

JournalInv ==
  /\ pc = "entered" /\ job.call = "submit" => job.request \in Requests
  /\ pc = "entered" => Remaining = pointer
  /\ pc = "point" => /\ Idle /\ job.request \in Requests /\ attempts[job.request] = 0
                     /\ Exists(job.request)
  /\ pc = "dispatch" => attempts[job.request] = 0
  /\ pc \in {"dispatch", "wait", "settle"} =>
       job.request \in Requests /\ pointer = job.request /\ Exists(job.request)
  /\ pc \in {"point", "dispatch", "wait"} =>
       record[job.request].submission = NoAnswer /\ ~record[job.request].unresolved
  /\ pc = "release" => /\ pointer \in Requests /\ record[pointer].completion
  /\ pc = "idle" => Idle

SpendingInv == TypeOK /\ AnswerInv /\ TransitionInv /\ RecordInv /\ JournalInv
===============================================================================
