# Verification of the shadowbane-lab manager

shadowbane-lab is a Python workbench around a Windows game client, with a native (C++)
extension loaded into the client. Most of it is offline: simulation, data processing,
evidence storage. The part that runs unattended, and that can do damage when it is wrong, is
the **manager**: it binds game clients to slots, starts one worker process per client, hands
workers operations, decides from moment to moment whether a worker may send input, and lets
workers spend the player's gold. All of that is done by separate processes that share files
and memory, with locks on some of them, and any process may die at any point. This project
models that part, down to the channel by which a worker's commands reach the game.

Paths below are relative to the repository (`src/` in PROJECT.json's paths);
`manager/` and `client_extension/` stand for `src/shadowbane_lab/manager/` and so on.

## Inventory

| component | state it keeps | operations | talks to | hard because |
|---|---|---|---|---|
| Operation ledger (`manager/operation.py`, `preparation_control.py`, `record_store.py`) | per slot: envelopes, receipts, stop projection, preparation control per game instance | submit, claim, publish receipt, pending, prune, recover, set/latch preparation, lock-free stop read | ingress and group commands submit; workers claim and poll; dashboard pauses and resumes | one lock, but several files per transaction; writers die between files; transports retry; readers do not lock |
| Worker dispatch (`manager/worker.py`) | heartbeat file per worker, stop requests, `dispatch.permit`, last heartbeats seen | publish, inspect/assess, publish permit, revoke, gate | application supervises; worker runtime publishes and gates | clocks, expiry, stale evidence, PID reuse, two live workers |
| Worker runtime and controller (`manager/worker_runtime.py`) | running operation and its stop signal; launch reservation and process handles | serve loop, start operation, refresh authority, ensure started, request stop, recover, reuse, retire | ledger, dispatch, processes | cancellation across threads; a launch is several durable steps, and the child may be a redirector |
| Preparation service (`manager/preparation_service.py`, `native_preparation.py`) | native owner, handoff, blocked, in flight | cycle, supervise, request/release handoff, stop | serve loop, ledger, native session | two threads share the client's native resources |
| Group commands (`manager/group_commands.py`) | last heard command | hear, pending, claim | serve loop | a command ages while it waits |
| Command channel (`client_extension/action_channel.py`, `native/wonderbane_extension/command_channel.h`, the command queues) | host lease, command and result ring, the queued command | claim, renew, close, submit; drain, take, complete, expire | host processes, game thread | shared memory between processes; hosts die between stores; the answer races the deadline |
| Dashboard application, session, process supervisor (`manager/application.py`, `session.py`, `supervisor.py`) | slot bindings and lifecycle states, slot locks | attach, start, pause, resume, detach, close, reconcile, shutdown, supervise | registry, worker supervisor, controller | lifecycle actions race the supervise turn |
| Guard spending (`client_extension/guard_spending_journal.py`, the guard and navigation sessions) | request records, active pointer | submit, observe, assert idle | native channel | replies lost after the command was sent; host or game dies; an action must not be paid twice |
| Native controllers (`native/wonderbane_extension/*_controller.h`, `vendor_runtime.cpp`) | pending, unresolved, transition | execute, observe, queue expiry | game client | the reply to a command and its effect are different events |
| Manager jobs (guard, vendor, condemn), startup recovery, live configuration | job and progress stores | - | ledger, journal | long jobs over crashes |
| Cleanup settlement, fences | obligations | register, begin, settle, abort | native owner | several threads, deadlines |
| PvE and travel controllers | current phase, plans | step functions | observation, input | long sequences |
| Simulation, rulesets, progression, equipment, optimisation, rollouts | numeric | pure | - | floating point |
| Evidence, cases, fingerprints, diagnostics, protocol, world data, mods, graphics, CLI | documents | parse, store, compare | files | not concurrent |

PROJECT.json lists every component with its status, and the hazards at the lines where they
bite.

What makes the modelled components correct:

* **ledger** - a stop, once written ahead, holds preparation until an operator resumes the
  instance, and a resumed stop never comes back; workers can always see a stop; an operation
  is activated at most once; retention and recovery do not work against each other;
* **dispatch** - a worker acts only on fresh evidence of its own health; two workers of a
  slot never act together; what an operator revokes stays revoked;
* **guard spending** - an action is never sent twice; never two with an unknown outcome;
  what needs a person's review waits for it;
* **launch** - a slot never has two workers that run or may still start; a reservation is
  given up only on proof that its interpreter ended; a stopped worker is not taken up again;
  a launch that can be settled is settled;
* **serve** - the client's native resources have one holder, the preparation owner or one
  operation; a worker does end when asked to, with its owner closed and no operation ACTIVE
  unless the very call that had to see to it raised; a stop reaches the operation that runs;
  the handoff is not lost;
* **channel** - no published command is damaged, executed twice, executed for a host that was
  replaced, or executed after its answer; every answer is that of its command, and its
  receipt true; a command that the game thread ignores does not block the others, unless it
  is a movement command.

## Modules

| module | models | proofs | instances |
|---|---|---|---|
| `StopIntent` | what the ledger promises about stop, pause and resume, each in one step | - | - |
| `OperationLedger` | the ledger, one step per published file | `OperationLedgerProofs`, `OperationLedgerInboxProofs` | `MCOperationLedger` |
| `WorkerDispatch` | heartbeats, permits, supervise turn, lifecycle actions, gate | `WorkerDispatchProofs` | `MCWorkerDispatch` |
| `GuardSpending` | journal, sessions, channel, native controllers | `GuardSpendingProofs` | `MCGuardSpending` |
| `WorkerLaunch` | worker controller and launcher: reservation, start, recovery, reuse, stop | `WorkerLaunchProofs` | `MCWorkerLaunch` |
| `WorkerServe` | the threads of one worker: serve loop, preparation, operation, observer | `WorkerServeProofs` | `MCWorkerServe` |
| `WorkerDuty` | what a worker promises about its inbox and its client's native resources | - | - |
| `CommandChannel` | shared-memory channel from host processes to the game thread | `CommandChannelProofs` | `MCCommandChannel` |
| `NativeCall` | what the channel promises a host that submits a command | - | - |

The modules meet at these places. `WorkerDispatch` takes `inspect_activation` as one step
(`Attachable`); `WorkerLaunch` has its steps and shows what its answer is worth
(`AttachedAlone`). `WorkerServe` takes a ledger call as one step; `OperationLedger` has the
calls' steps. `GuardSpending` takes the channel as a queue that may lose replies and repeat
nothing; `CommandChannel` shows that a command is executed at most once and its answer true,
and `NativeCall` says it without rings and leases.

Definitions named `Mut...` are deliberately wrong variants of the definition that follows
them. Nothing uses them; substituted for the original they show which property notices.

### OperationLedger

State: `envelope` and `receipt` per operation, `projected`/`projection` for
`stop-control.json`, `control` per game instance, `late` for deadlines that have passed. `pc`
and `arg` are the transaction that holds the slot's lock; `hot` is a worker in the middle of
`current_stop_authority`. `standing`, `paused`, `pruned` and `claims` are history.

A `Begin...` action takes the lock with its arguments; then each publication is an action.
`recover` is the common beginning (`_recover_stop_projection`,
`_reconcile_preparation_stops_unlocked`). `Crash` releases the lock at any point: a process
that dies, and also any `OSError` or raise that leaves the transaction.

* `publish_atomic_record` replaces a file, so a publication is one step. Non-stop envelopes
  are the exception: `open("xb")` then write, two steps (`SubmitCreate`, `SubmitWrite`),
  which may leave a torn file. The code then refuses every transaction of the slot that reads
  envelopes.
* The projection's random revision appears as `hot.stable`: it is cleared by every write
  between the reader's two reads.
* Time is the set `late`. A prune may remove any terminal receipt, its age left open.
* The second recovery in the prune inside `submit` finds nothing to do and is left out. The
  `FileExistsError` branch cannot be reached: the same operation id has the same
  deduplication id, which was found before.
* A Resume compares control revisions. A STOP that arrives while preparation is already
  disabled does not change the revision, so a Resume decided before it supersedes it; the
  model does what the code does, and `StopIntent` says so (Resume supersedes all).

### WorkerDispatch

State: the clock, processes under PIDs, visible games; heartbeat, stop and permit files; the
session's slot and the application's slot lock; the supervise turn (`sup`, `todo`, `seen`,
`decision`, `lastSeen`); `held`, the permit each worker's running operation last adopted.

* Times are absolute on one node clock that does not step back, in units of the publisher's
  smallest increment. `Ahead` bounds how far heartbeat times run ahead of the clock when they
  come faster than it advances.
* A supervise turn reads the registry, tries the slot lock, reads slot and activation and
  clock, reads the heartbeat files one after the other, assesses them, writes the permit. The
  process inspections of a turn are in the assessing step.
* `InspectHealth` is the dashboard's or a Resume's inspection, which writes no permit but
  remembers heartbeats.
* A worker's refresh reads the permit, then other files, then adopts it. The adopted permit
  is immutable and has its own expiry, so one step gives the worker no less than the code.
* A latched stop signal may adopt again: that is the next operation of the worker.
* One manager runs at a time. `Managed` is production
  (`cli_commands/manager.py` always configures a worker controller); without one is the API's
  default. `Attachable` is `inspect_activation` in one step: it needs every other recorded
  lifetime dead, and the dead stay dead.
* An action may raise after the revocation. `Fail` leaves the slot as it is; `FailClose`, a
  close whose window request raises, leaves it paused (`supervisor.py:953`).
* The docs say that Pause "synchronously denies dispatch". It does in the file; a worker that
  already adopted a permit keeps it for at most `permit_ttl_seconds`. `RevocationBounded`
  states exactly that.
* Malformed records and record limits are denials in the code and are not enumerated.

### GuardSpending

State: request records and `active.json`; the transaction under `journal.lock`; the last
inspection of each session that is still to be journalled; the game's lifetime, the channel,
the controllers. `action` (what the client was really made to do) and `attempts` are history.

* Four refusals are one outcome, because the journal treats them alike. Snapshots are left
  open: whether the client is ready, and whether an inspection confirms the change, is a free
  choice.
* Answers that controllers keep for a repeated key do not appear: no key is repeated
  (`AtMostOnce`).
* `queue` is a set, which admits more than the one-command slot; the exclusive host lease is
  not assumed either.
* A lost reply, a PENDING outcome and a first record without a pointer need review by a
  person. That is the design, so no liveness is claimed.

### WorkerLaunch

State: per slot the reservation file; heartbeat and stop request files; the life of each
worker (`proc`); what each launcher remembers (`children`, `verified`, `durable`); `tx`, the
transaction under the slot's launch lock; `look`, a lock-free `inspect_activation`.

* A worker's name is its launch nonce. `Popen` may return a redirector that starts the
  interpreter, so a life passes through "child", "both", and "interpreter" or "tail" (the one
  or the other ended first), to "gone".
* A launch is four durable steps: "launching" written, process created, "unverified" written,
  "started" written after the first heartbeat was matched to a process. `Fail` leaves at any
  label with the files as they are, `Crash` also loses the handles.
* `recover` repeats `inspect_recovery` until a timeout; one look is one step, and the timeout
  is leaving on "pending". An inspection raises nondeterministically through `Fail`.
* Heartbeats are absent, up (starting, running, degraded) or down (stopping, failed); their
  ages are in `WorkerDispatch` and prove nothing about a process here, as in the code.
* `inspect_activation` is four readings: reservation with process, heartbeats with stop
  request, the process again (`worker_runtime.py:1276`), the reservation again (`:1283`). The
  named worker may end after the third, so `AttachedAlone` does not claim that it lives: it
  claims that no other launched worker of the slot does, which is what the fourth is for.
* A reuse may find that the worker has published a new heartbeat meanwhile and raise, which
  is why `Reuse` may always leave without effect.
* Left out: `request_stop` of a started reservation without any heartbeat record; this
  launcher writes "started" only after a heartbeat, and heartbeat files stay.

### WorkerServe

State: what the worker reads of the ledger and of dispatch (`inbox`, `enabled`, `superseded`,
`permit`, `stopRequest`); the flags of `PersistentPreparationService` and the place and locals
of its thread (`prep`); the serve loop's place and locals (`main`, `active`, `waiting`,
`cleanupOk`); the operation thread and its stop signal; the observer's group command. History:
`unresolved`, the operations that took native resources and have not proved their cleanup, and
`lost`, what the worker ends without because a call raised: an operation left ACTIVE, or
`None` for the preparation owner.

* The preparation thread's flags are read and written under the service's lock, one critical
  section per step. The serve loop's calls into the service are each one section.
* `Upset` counts what may go wrong: a call that raises, a permit or setting that changes.
* Leaving the loop (`Leaves`) freezes preparation and trips the active operation's signal.
  `Join` is `_cancel_active_operation` after the join returned or timed out. A stop request
  cancels inside the try block ("cancel"): when that raises, the handler cancels once more
  ("join"). What raises in the handler leaves `serve` through its `finally`, which is `Drain`:
  `_stop_preparation` waits without limit, but publishes a heartbeat on every turn, and when
  that raises the worker ends with its owner open.
* Four calls can therefore lose something, and each is a branch of its action:
  `claim_for_execution` after it wrote ACTIVE and before it rewrote the stop projection
  (`operation.py:1051-1061`), the start of an operation's thread whose failure cannot be
  published, `publish_receipt` of the last cancellation, and the heartbeat of `Drain`.
* A group command is taken only when it is claimed; `claim()` that finds its observation
  stale leaves it pending.
* A STOP can fail like any other operation, also without confirmed cleanup, when its
  maintenance cannot be entered.
* `Stops` are STOP and CANCEL. Both take no native resources. `First` lets either go first,
  where the code puts STOP before CANCEL.
* `GroupPoll` may also do nothing: distance, age and authorship of a command are left open.

### CommandChannel

State: the lease (`lease`), the producer mutex, the command ring (`slots`, `written`, `read`)
and the unread part of the result ring; the transport of each host; the drain in progress;
the queued command with its state (queued, executing, answered); the game thread. History:
the commands made, their answers, how often each was executed and what the client did.

* Every store that another process can see is a step, in the order of the code: a slot is
  invalidated, filled, committed, then the sequence published; a claim writes process id 0,
  generation, heartbeat, process id.
* Taking the mutex and the first store are one step. The mutex of a dead host is abandoned to
  the next one, as Windows does. `CloseBusy` is `close` that could not get the mutex.
* `worker.now` is the clock sample of a drain, `clock` is what a new sample would give. Where
  the code samples again, the model reads `clock`.
* Commands are "movement" (queued and completed by `movement_command_queue.h`, no expiry in
  the drain), "service" (vendor, city, navigation, menu, condemn, guard: seven branches of the
  same form, with expiry), "action" or "control". The last two are the actor commands
  (`FinishCombatPending`): "control" are those that their controller may carry out without a
  live lease or after their deadline, to stop, to cancel, to ask for a status or for what it
  has on record; "action" are all others.
* An answer has a stage and a receipt. For movement and services "accepted" is the stage of
  what the client accepted, and everything else, what is uncertain included, is "rejected".
  For actor commands the stage only says that the receipt answers the command
  (`command_channel.h:595-597`): it is "accepted" for stale, refused and uncertain ones too,
  and only the receipt tells them apart. `told` is the receipt, with stale and late counted as
  refused; `RepliesTrue` and `NativeCall` speak of it.
* A service command compares its deadline with the sample taken before the lease is matched,
  a movement command with a later one, an actor command with an earlier one (`Time`);
  `OnTime` says which is looked at where.
* Waiting for an answer may itself fail (`Check`), which counts as a fault.
* `submit` renews the host's own lease even when it has expired, unless another host has
  claimed it, where docs/native-movement-controls.md:189 says of the lease that "an expired
  lease is never revived"; `renew_lease` does not. The model does what the code does.
* Publishing a result and one pass over the result ring are one step each: the ring has one
  writer, and readers hold the mutex.
* A native call that has passed its last check runs to its end, whoever claims the lease
  meanwhile: `Fenced` speaks of the check.

## Runs

All are exhaustive for their bounds. Deadlock is checked everywhere. `DispatchManaged` and
`LaunchOne` use a symmetry `Exchange`: permutations of workers that carry their instances and
processes along, and permutations of the hosts and of the nonces of launches. They check
invariants and action properties only, for which that is sound. `LaunchOne` also has a view,
`Answered`: a lock-free inspection that has answered is identified with one that has not begun,
because both can only begin again and TLC checks action properties on every step it takes.

| run | instance | distinct states | shows |
|---|---|---|---|
| `LedgerRetry` | two stops, each submitted again and again, and a travel operation for a replacing worker under the deduplication id of the first; inbox limit 2 | 4.4 M | `StopStands`, `NoHiddenStop`, `NoResurrection`, `ClaimedOnce`, `RetryKeepsFirst`, `TornFailsClosed`, `ImplementsStopIntent` |
| `LedgerLive` | a stop and a travel operation, inbox limit 1, a lock-free reader, with fairness | 0.7 M | `TypeOK`, `InboxBounded`, `HotReadSound`, `StopLatched` |
| `LedgerExpiry` | as `LedgerRetry`, limit 1 | - | `ExpirySampledAfterRead` is violated, see Findings |
| `DispatchOne` | one worker, time 0..3, timeout and permit 2, three lifecycle actions | 3.6 M | `TypeOK`, `AuthorityFresh`, `RevocationBounded`, `PermitWellFormed`, `NeverReplayed` |
| `DispatchManaged` | two live workers, controller, failing inspector | 1.5 M | `OneDispatcher` |
| `GuardSpending` | an upgrade and a navigation of two sessions, two game lifetimes | 2.8 M | `OneOpenSpend`, `AtMostOnce`, `IdleMeansSettled`, `ReviewStays` |
| `LaunchOne` | two hosts, two launches and a worker started by hand for one slot, one failure or crash | 5.7 M | `OneLiveWorker`, `OwnedUntilExit`, `AttachedAlone`, `StoppedNotAttached` |
| `LaunchLive` | one host, two launches, one failure or crash, with fairness | 0.2 M | `LaunchSettles` |
| `Serve` | a stop and a group operation, one upset, with fairness | 0.3 M | `TypeOK`, `OneNativeOwner`, `ImplementsDuty`, `StopSettles`, `StopTrips`, `HandoffReturned` |
| `ServeHandBack` | a stop, a travel and a group operation, no upset | - | `PositiveCleanupResumes` is violated, see Findings |
| `Channel` | two hosts, rings of one slot, a movement or a control command and then a service command, time 1..3, one death or failing signal, with fairness | 0.8 M | `TypeOK`, `RingIntact`, `SubmitterOwns`, `AtMostOnce`, `RepliesTrue`, `Drained`, `ImplementsCall`, `Fenced` |
| `ChannelStale` | one host, one command | - | `CurrentHostServed` is violated, see Findings |

Bounds. Three operations are enough for two stops in one projection, their retries, and a
bystander that reuses a deduplication id; the ledger has no rule that relates more.
`MaxRevision` 2 lets an instance be stopped, resumed and stopped again (a stop is not an
explicit change, so it may follow the last one). In dispatch, times up to `MaxTime` cover a
permit's issue, its expiry and the heartbeat's timeout on both sides of each boundary; two or
three heartbeats cover starting, ready and one change; the lifecycle bound allows revoke,
resume and restart in one behaviour. Two nonces and one fault let a launch be interrupted at
every label and tried again by the same or the other host; the worker started by hand is the
one a launch may meet unannounced. In `Serve` one upset is enough for each call to raise once
or each setting to change once; two operations that both hold native resources are left to the
proof of `OneNativeOwner`, which is for any set. Rings of one slot make every command meet a
full ring and every answer a full result ring; `LeaseAge` 0 makes leases expire as often as
they can, and two claims let a host find its predecessor's command. `KindsOf` lets the
first command be a movement or a control command and the second a service, so that commands
without and with an expiry, and answers with and without a telling stage, meet in one ring. An
action does what a control may do as well, but for `Fenced`, which exempts controls: for
actions that is left to `LeaseFences`. For every
safety property of a passing run the theorems below remove the bounds.

Fairness, by run:

* `LedgerLive`: a process that holds the lock goes on or dies (weak fairness of
  `Transaction`); the serve loop and every ledger call start a recovery again and again, so
  that one eventually is not killed (strong fairness of `BeginRecover` and of the recovery of
  each stop). A torn envelope blocks recovery and is excluded in the property.
* `LaunchLive`: a transaction goes on, by its bounded waits; an interpreter that started gets
  to its first heartbeat, which `serve` publishes before anything else. Supervise turns are not
  assumed: `application.py:733-735` recovers only while the slot is bound to a visible game
  and the manager is not stopping. `LaunchSettles` has them as its premise: if the host that
  launched takes turns for the worker's game again and again, the launch is settled. Deaths
  are not fair, and the property names the endings that the code leaves to a person.
* `Serve`: both threads go on, the loop by what its calls return (what raises is bounded and
  never has to happen); the observer looks every interval and trips when it has a
  reason; closure of a native owner that is inspected for ever is confirmed sometimes (at the
  latest when the game has gone); and a handoff polled every quarter second for ever finds
  the preparation thread between two of its cycles sometimes. Operations need not end: that a
  worker stops all the same is what `StopSettles` says.
* `Channel`: time passes, the worker thread wakes every 100 ms, and the game thread finishes
  what it took within the same update. It may leave any request for ever, as it does while
  minimized or logged out: services and movement commands are taken in the same update
  (`movement_runtime.cpp:539-541`). Movement requests have no expiry (`FinishPending`), so one
  that is never taken blocks the channel for every kind; `Drained` says so in its premise, and
  that nothing else does.

## Findings

`LedgerExpiry`: `record_store.py:134-135` says "Callers evaluating expiry must sample their
clock after this read, including any bounded retry." `claim_for_execution` and `pending_for`
compare with a `now` that the caller sampled before the call, so before the lock was waited
for. TLC shows an operation whose deadline passes in between and which is activated.

`ServeHandBack`: `_cycle` marks every cycle as in flight (`preparation_service.py:149`), also
one that may not create an owner because a handoff stands, and `release_handoff` (`:101`)
raises "preparation owner has not handed off" while a cycle is in flight. The serve loop
releases when an operation has finished (`worker_runtime.py:839`); when that meets an idle
cycle, the exception ends the loop: the handoff is not returned, the worker ends FAILED, and
an operation that succeeded is published as CANCELLED. `tests/test_preparation_service.py:89`
(`test_positive_finite_cleanup_resumes_saved_intent`) says that such a release resumes
preparation; it calls it between two cycles only.

`ChannelStale`: a typed command is valid only if `created_tick <= now`
(`command_channel.h:795` and eight more), with a `now` sampled before the drain. A command made
after the sample is refused although it is in time and its host current. The comment at
`command_channel.h:196-198` and docs/handoffs/guard-travel.md:33-36 describe the same race for
the heartbeat, "for an otherwise current host", and its removal by a second clock sample.

## Proofs

Every theorem holds for any constants that satisfy the module's named ASSUME. Each is
`Init => Inv`, `Inv /\ [Next]_vars => Inv'`, `Inv => property`, one lemma per action or per
group of actions that leave the same variables alone.

**OperationLedger.** `StopStands` alone is not inductive: whether a crash may lose a stop
depends on what the files of the stop say together. `LedgerInv` adds

* `StandingInv` - a standing stop is unsettled in the projection or its instance is disabled,
  and it is not superseded; a retained stop that does not stand is superseded;
* `DisabledInv` - only a standing stop or a pause disables an instance;
* `FilesInv` - how projection, envelope, receipt and control of a stop relate;
* `RecoveredInv`, `HolderInv` - what the transaction knows after recovery and at each label;
* `NoResurrection` itself.

`HotInv` is the reader's half for `HotReadSound`. `ImplementsIntent` maps each step to a stop,
pause, resume or stutter of `StopIntent`. Theorems: `TypeCorrect`, `StopsStand`,
`StopsVisible`, `PrunedForGood`, `HotReads`, `ImplementsIntent`.

The inbox has an invariant of its own, `InboxInv`, on top of `LedgerInv`
(`OperationLedgerInboxProofs`). None of `ClaimedOnce`, `RetryKeepsFirst` and `InboxBounded` is
inductive: a submit counts and compares before it writes, recovery adds envelopes later, and a
claim counts only when it returns. `InboxInv` says

* `InboxBounded` and `RetryKeepsFirst` of the operations the inbox holds (`Owners`: envelopes,
  and stops whose envelope recovery will still write);
* `FreshInv` - a submission that found no duplicate still has none when it publishes;
* `ReadableInv` - a transaction past recovery found no torn envelope, and none appears until
  it creates one itself or releases the lock;
* `OutcomeInv` - a receipt outlives its envelope only between the two unlinks of a prune;
* `ClaimedInv`, `ClaimerInv` - a claimed operation keeps a receipt that forbids another claim
  until retention removes it, and the one being claimed was not claimed before.

From it: `ClaimsOnce`, `RetriesKeepFirst`, `InboxStaysBounded`, `TornBlocksClaims` (by the
reading that every claim does after recovery), and four results about recovery and outcomes
that no run lists: `RecoveryAlwaysReads`, `RecoveryLatchesStops`, `RecoveryEnds` (each
publication of recovery strictly shrinks what it has still to do, the measure behind
`StopLatched`) and `OutcomesAreFinal`.

**WorkerDispatch.** `HeartbeatInv` says that what anyone has read of a worker's heartbeats
precedes the file (`Follows`) and what the file then implies; `PermitInv` that a permit, in
the file, about to be written or adopted, ends within its own life and that of a heartbeat
that declared the worker ready; `RevocationInv` that nothing in flight can allow after a
revocation; `OwnerInv` that whoever owned a permit before another worker got one is dead, or
the new permit is already over. Theorems: `TypeCorrect`, `AuthorityIsFresh`,
`RevocationHolds`, `PermitsWellFormed`, `NoFalseReplay`, `DispatcherUnique`.

`DispatcherUnique` has a hypothesis, `Exclusive`: a worker controller is configured, or the
process inspector always answers and `Ttl + Ahead <= Tolerance + 1`. The defaults (permit and
tolerance both 2 s, timeout 5 s) meet the second at the boundary: a heartbeat further in the
future than the tolerance makes its worker invisible to the conflict check, but then the
turn's clock is so old that the permit is over when written.

**GuardSpending.** `SpendingInv` ties the journal to the game: `AnswerInv` (what an answer
says of the action), `TransitionInv` (a transition without flags is done, now and when it was
seen), `RecordInv` (an undetermined request has the pointer), `JournalInv` (what the
transaction knows at each label). Theorems: `SpendingCorrect`, `SpendsOneAtATime`,
`SpendsAtMostOnce`, `IdleIsSettled`, `ReviewsStay`, and `HistoryIsFinal`: a request that the
pointer has left is not written, pointed to or sent again.

**WorkerLaunch.** `OneLiveWorker` rests on files that outlive the processes that wrote them.
`LaunchInv` says with `EvidenceInv` what a heartbeat, a stop request and a handle prove of a
process; with `ReservedInv` that the reservation names every launched worker that is alive,
and what each of its phases implies; with `HolderInv` what the holder of the lock knows at
each label. Theorems: `LaunchCorrect`, `LaunchesOneWorker`, `ReservationIsKept`,
`AttachedIsAlone`, `StopIsFinal`.

**WorkerServe.** The heart of `ServeInv` is `Quiet`: preparation has handed off, has no owner,
and its thread is neither creating one nor committed to. `PrepInv` says where the thread has
an owner, `LoopInv` that the loop is past the handoff only when it is quiet, `CleanupInv` that
an operation without proved cleanup keeps it quiet, as the active one or by blocking.
`LoopInv` also says that a worker which has ended has ended its preparation thread, or lost it
to a heartbeat that raised. Theorems: `ServeCorrect`, `ServeTypes`, `NativeOwnerIsOne`,
`ExitIsClean`.

`ImplementsWorkerDuty` maps the threads to `WorkerDuty`: the holders are the operations
without proved cleanup and, while it has an owner or is making one, preparation; the receipts
are the inbox; the process has ended when the loop has. It needs `DutyInv` besides: the ACTIVE
receipt is that of the operation about to be spawned, of the active one until `Join` has
settled it, or of one that was lost, at most one, after which the worker only ends; and a
group command that is not taken has no receipt yet. `WorkerDuty` has `lost` too: what it
promises is that nothing but a call that raised leaves an operation ACTIVE or the owner open
at the end. `OneActiveOperation` is the safety half of `StopSettles`. The attempt to prove
that terminal receipts are final showed that `Claim` had to be more careful: a group command
that lost its permission and that the preparation thread has meanwhile expired cannot be
rejected, `publish_receipt` raises (`operation.py:1043`) and the serve loop ends.

**CommandChannel.** `ChannelInv`: `MutexInv` (one host in a transaction, generations grow),
`SubmitInv` (what a submit has written so far), `RingInv` (unconsumed sequences are whole, one
per command), `DrainInv` (the drain, the queue and the game thread speak of the same command,
the next of the ring), `RunInv` (an unconsumed command was executed at most by the queue's
current holder), `AnswerInv` (answers, given or in the ring, are those of consumed commands, and
stage and receipt true). Theorems:
`ChannelCorrect`, `ChannelTypes`, `RingStaysIntact`, `SubmitterOwnsLease`,
`ExecutedAtMostOnce`, `RepliesAreTrue`, `AnswersAreFinal`, `LeaseFences`, and
`ExecutionIsInOrder`: what was executed before is consumed, and the queued command is the next
of the ring, so commands are executed in the order of their publication, across hosts.

`ImplementsNativeCall` maps the channel to `NativeCall`: a command made is a call asked, the
first store of a submit, and its answer is the receipt that submit returns. `CallInv` adds to
`ChannelInv` that a call without an answer is one whose asker is still in its submit or gone:
an answer never overtakes the execution it speaks of.

Only model-checked: `StopLatched`, `LaunchSettles`, `StopSettles`, `StopTrips`,
`HandoffReturned` and `Drained`, because liveness under fairness is beyond the prover. The
invariants that only the refinements need (`CallInv`, `DutyInv`), `InboxInv`, and the proved
properties that no run lists (`RecoveryReads`, `RecoveryLatches`, `RecoveryShrinks`,
`TerminalIsFinal`, `ExecutesInOrder`, `AnswerIsFinal`, `HistoryStays`, `OneActive`,
`ExitClosesOwner`) hold on the instances of the runs too; add them to the module's cfg to see
it.

## Not modelled

* In the modelled components: progress and preparation-status records, the polling wait for
  an acknowledgement, corrupt and oversized records, clocks that step back, rounding of
  floating-point times, exhaustion of 64-bit revisions and generations, the contents of
  snapshots, start and stop of the command channel, command kinds that the drain answers by
  itself, the 5000 ms limit on a command's life.
* By design without a property: a Resume supersedes a stop that arrived while preparation was
  already disabled; a journal whose host died between its first record and its first pointer
  waits for a person; so does a launch whose redirector died before the interpreter was
  verified.
* A result ring and a command ring that are both full of answers and commands of dead hosts
  stop the channel; that takes as many deaths in the middle of a submit as the rings have
  slots.
* The components with status `not_modelled` in PROJECT.json: simulation, rulesets,
  optimisation, progression and equipment are numeric; observation, diagnostics, evidence,
  protocol, mods, graphics and world data are parsing and comparison of files; input, the
  dashboard pages and the command line are I/O and wiring. By lines they are most of the
  repository. None of them has concurrent state that a model checker would reach; they are
  left to the repository's tests.

## Plan

1. Done: `OperationLedger` with `StopIntent`; `WorkerDispatch`; `GuardSpending`;
   `WorkerLaunch`; `WorkerServe`; `CommandChannel`; their proofs.
2. `CleanupSettlement` - obligations, shared deadlines, abort and terminal requests by several
   threads. To show: a deadline never confirms cleanup, a terminal owner is never resumed,
   waiting ends.
3. `SessionLifecycle` - session and process supervisor with group launches and startup
   recovery.
4. `CondemnTransaction` and the guard and vendor jobs over the journal.
5. Refinements for dispatch (the right to act as a lease) and for launch (the slot's tenancy),
   as for the ledger, the worker and the channel.
