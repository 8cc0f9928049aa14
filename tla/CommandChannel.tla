----------------------------- MODULE CommandChannel -----------------------------
(***************************************************************************)
(* The shared-memory command channel between host processes and the        *)
(* extension inside the game: WindowsNativeActionCommandTransport of       *)
(* client_extension/action_channel.py on one side, command_channel.h and   *)
(* the command queues on the other.                                        *)
(*                                                                         *)
(* Hosts take the producer mutex for a whole transaction: claiming the     *)
(* host lease, renewing it, giving it back, or submitting a command and    *)
(* waiting for its answer.  In the game a worker thread drains the command *)
(* ring, one command at a time, into a queue of one; the game thread takes *)
(* it from there, checks its lease once more and executes it.  Every store *)
(* another process could see is a step, so that a host may die between any *)
(* two of them.                                                            *)
(*                                                                         *)
(* An answer has two parts: the stage of the result, and the typed receipt *)
(* that travels with it, which is where an actor command's outcome is.     *)
(***************************************************************************)
EXTENDS Integers, Sequences, FiniteSets

CONSTANTS
  Hosts,            \* host processes, each with at most one open transport
  NoHost,           \* process id 0
  CommandCapacity,  \* CLIENT_ACTION_COMMAND_CAPACITY
  ResultCapacity,   \* CLIENT_ACTION_RESULT_CAPACITY
  LeaseAge,         \* kMaximumActionHostLeaseAgeMilliseconds, host_lease_timeout_ms
  Patience,         \* timeout_ms of a submit
  MaxTime,          \* bound: the last tick
  MaxCommands,      \* bound: commands submitted
  KindsOf,          \* bound: the kinds among which the n-th of them is
  MaxClaims,        \* bound: lease generations
  MaxFaults         \* bound: deaths of hosts and failing signals

\* What the drain tells apart: movement commands; vendor, city, guard and condemn services;
\* actor commands that need a live lease; actor commands that their controller may serve
\* without one: to stop, to cancel, to ask for a status or for what it has on record.
Actor == {"action", "control"}
Kinds == {"movement", "service"} \cup Actor

ASSUME ChannelAssumption ==
  /\ NoHost \notin Hosts
  /\ CommandCapacity \in Nat \ {0} /\ ResultCapacity \in Nat \ {0}
  /\ LeaseAge \in Nat /\ Patience \in Nat \ {0}
  /\ MaxTime \in Nat /\ MaxCommands \in Nat /\ MaxClaims \in Nat /\ MaxFaults \in Nat
  /\ KindsOf \in [1..MaxCommands -> SUBSET Kinds]

VARIABLES
  clock,    \* GetTickCount64, one for all processes
  lease,    \* host_process_id, host_lease_generation, host_heartbeat_tick
  mutex,    \* holder of the producer mutex
  slots,    \* the command ring: committed_sequence and payload of each slot
  written,  \* command_write_sequence
  read,     \* command_read_sequence
  results,  \* the unread part of the result ring
  host,     \* transport of each host process and where it is in its transaction
  worker,   \* the drain in progress
  pending,  \* the queued command: 0 queued, 1 executing, 2 answered
  game,     \* the game thread
  command,  \* history: every command made, and the sequence it was published under
  reply,    \* history: what submit returned or raised
  runs,     \* history: how often a command was executed
  fate,     \* history: what the client made of it
  faults    \* history: deaths and failing signals

shared  == <<lease, slots, written, read, results>>
native  == <<worker, pending, game, runs, fate>>
vars    == <<clock, shared, mutex, host, command, reply, faults, native>>

Ids     == 1..MaxCommands
Slot(n) == n % CommandCapacity

\* A command carries its producer: payload.host is the process and its generation.
Command == [host : Hosts, gen : Nat, kind : Kinds, created : Nat, deadline : Nat, seq : Nat]
NoCommand == [host |-> NoHost, gen |-> 0, kind |-> "service", created |-> 0,
              deadline |-> 0, seq |-> 0]

Idle      == [pc |-> "idle", cmd |-> 0]
NoPending == [cmd |-> 0, seq |-> 0, state |-> 0, outcome |-> "refused"]

\* What a receipt may say; stale, late and unavailable commands were refused.
Outcomes == {"accepted", "refused", "uncertain"}

NoReply == [stage |-> "none", told |-> "none"]
GaveUp  == [stage |-> "none", told |-> "timeout"]

\* The transport is past its publication check and holds the mutex.
Submitting == {"fill", "commit", "publish", "take", "check"}
Claiming   == {"claim gen", "claim beat", "claim pid"}
Locked     == Claiming \cup Submitting \cup {"close beat"}

Init ==
  /\ clock = 1
  /\ lease = [pid |-> NoHost, gen |-> 0, beat |-> 0]
  /\ mutex = NoHost
  /\ slots = [k \in 0..(CommandCapacity - 1) |-> [seq |-> 0, cmd |-> 0]]
  /\ written = 0 /\ read = 0 /\ results = <<>>
  /\ host = [h \in Hosts |-> [pc |-> "closed", gen |-> 0, cmd |-> 0, now |-> 0]]
  /\ worker = [pc |-> "wait", now |-> 0, cmd |-> 0, seq |-> 0]
  /\ pending = NoPending /\ game = Idle
  /\ command = [i \in Ids |-> NoCommand]
  /\ reply = [i \in Ids |-> NoReply]
  /\ runs = [i \in Ids |-> 0] /\ fate = [i \in Ids |-> "none"]
  /\ faults = 0

Tick ==
  /\ clock < MaxTime /\ clock' = clock + 1
  /\ UNCHANGED <<shared, mutex, host, command, reply, faults, native>>

-----------------------------------------------------------------------------
(***************************************************************************)
(* The host lease.                                                         *)
(***************************************************************************)
Young(now, beat) == beat > 0 /\ now >= beat /\ now - beat <= LeaseAge

\* HostLeaseIsActive(storage, now).  A heartbeat newer than the caller's clock sample is
\* judged by a fresh one.
HostLeaseIsActive(now) ==
  /\ lease.pid # NoHost
  /\ Young(IF lease.beat > now THEN clock ELSE now, lease.beat)

OwnsHostLease(h) ==
  host[h].gen # 0 /\ lease.pid = h /\ lease.gen = host[h].gen

Alive(h) == host[h].pc # "dead"

\* Mutant: any transport of the process will do.
MutSameHost(c) == lease.pid = c.host

\* The command's producer holds the lease.
SameHost(c) == lease.pid = c.host /\ lease.gen = c.gen

-----------------------------------------------------------------------------
(***************************************************************************)
(* Transactions of a host under the producer mutex.  Taking it and the     *)
(* first store are one step; what raises before a store changes nothing    *)
(* and is no step.  Waiting too long for the mutex raises, too, except in  *)
(* close, which then leaves the lease to expire.  The mutex of a dead      *)
(* process is abandoned to the next.                                       *)
(***************************************************************************)
Goto(h, pc) == host' = [host EXCEPT ![h].pc = pc]
Unlock(h, pc) ==
  mutex' = NoHost /\ host' = [host EXCEPT ![h].pc = pc, ![h].cmd = 0, ![h].now = 0]

Lock(h, pc) == mutex = NoHost /\ host[h].pc = pc

CloseBusy(h) ==
  /\ host[h].pc = "open" /\ mutex \notin {NoHost, h}
  /\ host' = [host EXCEPT ![h].pc = "closed", ![h].gen = 0]
  /\ UNCHANGED <<clock, shared, mutex, command, reply, faults, native>>

\* Mutant: a lease that expired is claimed without the producer mutex.
MutClaim(h) ==
  /\ host[h].pc = "closed" /\ lease.gen < MaxClaims
  /\ ~(lease.pid # NoHost /\ Young(clock, lease.beat))
  /\ lease' = [lease EXCEPT !.pid = NoHost]
  /\ mutex' = h /\ host' = [host EXCEPT ![h].pc = "claim gen", ![h].now = clock]
  /\ UNCHANGED <<clock, slots, written, read, results, command, reply, faults, native>>

\* _claim_host_lease, unless another lease is active: process id 0, generation, heartbeat,
\* process id last.
Claim(h) ==
  /\ Lock(h, "closed") /\ lease.gen < MaxClaims
  /\ ~(lease.pid # NoHost /\ Young(clock, lease.beat))
  /\ lease' = [lease EXCEPT !.pid = NoHost]
  /\ mutex' = h /\ host' = [host EXCEPT ![h].pc = "claim gen", ![h].now = clock]
  /\ UNCHANGED <<clock, slots, written, read, results, command, reply, faults, native>>

ClaimGeneration(h) ==
  /\ host[h].pc = "claim gen" /\ Goto(h, "claim beat")
  /\ lease' = [lease EXCEPT !.gen = @ + 1]
  /\ UNCHANGED <<clock, slots, written, read, results, mutex, command, reply, faults, native>>

ClaimBeat(h) ==
  /\ host[h].pc = "claim beat" /\ Goto(h, "claim pid")
  /\ lease' = [lease EXCEPT !.beat = host[h].now]
  /\ UNCHANGED <<clock, slots, written, read, results, mutex, command, reply, faults, native>>

ClaimPid(h) ==
  /\ host[h].pc = "claim pid"
  /\ lease' = [lease EXCEPT !.pid = h]
  /\ host' = [host EXCEPT ![h].pc = "open", ![h].gen = lease.gen, ![h].now = 0]
  /\ mutex' = NoHost
  /\ UNCHANGED <<clock, slots, written, read, results, command, reply, faults, native>>

\* renew_lease: never an expired lease, not even the host's own.
Renew(h) ==
  /\ Lock(h, "open") /\ Young(clock, lease.beat) /\ OwnsHostLease(h)
  /\ lease' = [lease EXCEPT !.beat = clock]
  /\ UNCHANGED <<clock, mutex, host, slots, written, read, results, command, reply, faults, native>>

\* close: a lease that is the host's own is given back, process id first.
Close(h) ==
  /\ Lock(h, "open")
  /\ IF OwnsHostLease(h)
     THEN lease' = [lease EXCEPT !.pid = NoHost] /\ Goto(h, "close beat") /\ mutex' = h
     ELSE /\ host' = [host EXCEPT ![h].pc = "closed", ![h].gen = 0]
          /\ UNCHANGED <<lease, mutex>>
  /\ UNCHANGED <<clock, slots, written, read, results, command, reply, faults, native>>

CloseBeat(h) ==
  /\ host[h].pc = "close beat" /\ mutex' = NoHost
  /\ lease' = [lease EXCEPT !.beat = 0]
  /\ host' = [host EXCEPT ![h].pc = "closed", ![h].gen = 0]
  /\ UNCHANGED <<clock, slots, written, read, results, command, reply, faults, native>>

-----------------------------------------------------------------------------
(***************************************************************************)
(* submit.  Renews the lease, also an own one that expired meanwhile,      *)
(* refuses on a full ring, then invalidates the slot, fills it, commits it *)
(* and publishes the sequence.                                             *)
(***************************************************************************)
Fresh == {i \in Ids : command[i] = NoCommand}

\* Mutant: off by one in the test for a full ring.
MutRingFull == written - read > CommandCapacity

RingFull == written - read >= CommandCapacity

Submit(h) ==
  /\ Lock(h, "open") /\ OwnsHostLease(h)
  /\ lease' = [lease EXCEPT !.beat = clock]
  /\ \/ RingFull /\ UNCHANGED <<slots, command, mutex, host>>
     \/ /\ ~RingFull /\ clock + Patience < MaxTime
        /\ \E i \in Fresh : \E kind \in KindsOf[i] :
             /\ \A j \in Fresh : i <= j
             /\ command' = [command EXCEPT ![i] =
                  [host |-> h, gen |-> host[h].gen, kind |-> kind, created |-> clock,
                   deadline |-> clock + Patience, seq |-> 0]]
             /\ host' = [host EXCEPT ![h].pc = "fill", ![h].cmd = i]
        /\ slots' = [slots EXCEPT ![Slot(written)].seq = 0]
        /\ mutex' = h
  /\ UNCHANGED <<clock, written, read, results, reply, faults, native>>

Fill(h) ==
  /\ host[h].pc = "fill" /\ Goto(h, "commit")
  /\ slots' = [slots EXCEPT ![Slot(written)].cmd = host[h].cmd]
  /\ UNCHANGED <<clock, lease, written, read, results, mutex, command, reply, faults, native>>

Commit(h) ==
  /\ host[h].pc = "commit" /\ Goto(h, "publish")
  /\ slots' = [slots EXCEPT ![Slot(written)].seq = written + 1]
  /\ UNCHANGED <<clock, lease, written, read, results, mutex, command, reply, faults, native>>

\* The sequence is published and the game signalled; a signal that fails is raised at once.
Publish(h) ==
  /\ host[h].pc = "publish"
  /\ written' = written + 1
  /\ command' = [command EXCEPT ![host[h].cmd].seq = written + 1]
  /\ \/ Goto(h, "take") /\ UNCHANGED <<mutex, faults>>
     \/ faults < MaxFaults /\ faults' = faults + 1 /\ Unlock(h, "open")
  /\ UNCHANGED <<clock, lease, slots, read, results, reply, native>>

\* _take_matching_result: the answer this submit waits for, at that place of the ring.
Answers(h, k) ==
  results[k].cmd = host[h].cmd /\ results[k].seq = command[host[h].cmd].seq

\* What submit then returns.
Heard(k) == [stage |-> results[k].stage, told |-> results[k].told]

\* Mutant: the first answer is taken for one's own.
MutTake(h) ==
  /\ host[h].pc = "take"
  /\ IF results = <<>> THEN Goto(h, "check") /\ UNCHANGED <<results, reply, mutex>>
     ELSE /\ results' = Tail(results)
          /\ reply' = [reply EXCEPT ![host[h].cmd] = Heard(1)]
          /\ Unlock(h, "open")
  /\ UNCHANGED <<clock, lease, slots, written, read, command, faults, native>>

\* One pass over the result ring.  It consumes every answer up to the one it waits for;
\* others belong to submits that gave up or to hosts that died.
Take(h) ==
  /\ host[h].pc = "take"
  /\ \/ \E k \in 1..Len(results) :
          /\ Answers(h, k) /\ \A j \in 1..(k - 1) : ~Answers(h, j)
          /\ results' = SubSeq(results, k + 1, Len(results))
          /\ reply' = [reply EXCEPT ![host[h].cmd] = Heard(k)]
          /\ Unlock(h, "open")
     \/ /\ \A k \in 1..Len(results) : ~Answers(h, k)
        /\ results' = <<>> /\ Goto(h, "check") /\ UNCHANGED <<reply, mutex>>
  /\ UNCHANGED <<clock, lease, slots, written, read, command, faults, native>>

\* The rest of a turn of _wait_for_completion: give up, or renew and wait on; a wait that
\* fails is raised.
Check(h) ==
  /\ host[h].pc = "check"
  /\ \/ /\ clock >= command[host[h].cmd].deadline
        /\ reply' = [reply EXCEPT ![host[h].cmd] = GaveUp]
        /\ Unlock(h, "open") /\ UNCHANGED <<lease, faults>>
     \/ /\ clock < command[host[h].cmd].deadline /\ ~OwnsHostLease(h)
        /\ Unlock(h, "open") /\ UNCHANGED <<lease, reply, faults>>
     \/ /\ clock < command[host[h].cmd].deadline /\ OwnsHostLease(h)
        /\ lease' = [lease EXCEPT !.beat = clock] /\ UNCHANGED reply
        /\ \/ Goto(h, "take") /\ UNCHANGED <<mutex, faults>>
           \/ faults < MaxFaults /\ faults' = faults + 1 /\ Unlock(h, "open")
  /\ UNCHANGED <<clock, slots, written, read, results, command, native>>

\* A host process dies; Windows abandons its mutex to the next one that waits.
Die(h) ==
  /\ Alive(h) /\ faults < MaxFaults /\ faults' = faults + 1
  /\ host' = [host EXCEPT ![h].pc = "dead", ![h].cmd = 0, ![h].now = 0]
  /\ mutex' = IF mutex = h THEN NoHost ELSE mutex
  /\ UNCHANGED <<clock, shared, command, reply, native>>

HostStep(h) ==
  \/ CloseBusy(h) \/ Claim(h) \/ ClaimGeneration(h) \/ ClaimBeat(h) \/ ClaimPid(h)
  \/ Renew(h) \/ Close(h) \/ CloseBeat(h)
  \/ Submit(h) \/ Fill(h) \/ Commit(h) \/ Publish(h) \/ Take(h) \/ Check(h)
  \/ Die(h)

-----------------------------------------------------------------------------
(***************************************************************************)
(* The worker thread in the game: WorkerThread and DrainCommands, with the *)
(* clock sampled once for a drain.                                         *)
(***************************************************************************)
hosts == <<clock, lease, slots, written, mutex, host, command, reply, faults>>

Asleep == [pc |-> "wait", now |-> 0, cmd |-> 0, seq |-> 0]

Drain ==
  /\ worker.pc = "wait"
  /\ worker' = [worker EXCEPT !.now = clock,
                              !.pc = IF pending.cmd = 0 THEN "gate" ELSE "finish"]
  /\ UNCHANGED <<hosts, read, results, pending, game, runs, fate>>

\* Mutants: movement requests are not the only ones without an expiry; an executing call
\* is cancelled.
MutExpires == FALSE
MutExpiresRunning ==
  /\ command[pending.cmd].kind # "movement" /\ worker.now > command[pending.cmd].deadline
  /\ pending.state # 2

\* The queued request is late and the game thread has not taken it.  Every service but
\* movement is then answered without it.
Expires ==
  /\ command[pending.cmd].kind # "movement" /\ worker.now > command[pending.cmd].deadline
  /\ pending.state = 0

\* TryPublishResult
Publishes(i, n, stage, told) ==
  /\ Len(results) < ResultCapacity
  /\ results' = Append(results, [cmd |-> i, seq |-> n, stage |-> stage, told |-> told])

\* The stage of a result.  That of an actor command only says that the receipt answers it.
Stage(kind, outcome) ==
  IF kind \in Actor \/ outcome = "accepted" THEN "accepted" ELSE "rejected"

\* FinishPending, FinishVendorPending and their like, FinishCombatPending.
Finish ==
  /\ worker.pc = "finish"
  /\ \/ /\ Expires
        /\ pending' = [pending EXCEPT !.state = 2, !.outcome = "refused"]
        /\ UNCHANGED <<worker, results>>
     \/ /\ ~Expires /\ pending.state # 2
        /\ worker' = Asleep /\ UNCHANGED <<pending, results>>
     \/ /\ pending.state = 2
        /\ Publishes(pending.cmd, pending.seq,
                     Stage(command[pending.cmd].kind, pending.outcome), pending.outcome)
        /\ worker' = [worker EXCEPT !.pc = "advance"] /\ UNCHANGED pending
     \/ /\ pending.state = 2 /\ Len(results) >= ResultCapacity
        /\ worker' = Asleep /\ UNCHANGED <<pending, results>>
  /\ UNCHANGED <<hosts, read, game, runs, fate>>

\* Mutant: the sequence is advanced once more.
MutSkip ==
  /\ worker.pc = "skip" /\ read' = worker.seq + 1
  /\ worker' = [worker EXCEPT !.pc = "read", !.cmd = 0, !.seq = 0]
  /\ UNCHANGED <<hosts, results, pending, game, runs, fate>>

\* The slot is free for the next command; the queue is released.
Advance ==
  /\ worker.pc = "advance"
  /\ read' = pending.seq /\ pending' = NoPending
  /\ worker' = [worker EXCEPT !.pc = "gate"]
  /\ UNCHANGED <<hosts, results, game, runs, fate>>

Gate ==
  /\ worker.pc = "gate"
  /\ worker' = IF HostLeaseIsActive(worker.now) THEN [worker EXCEPT !.pc = "read"] ELSE Asleep
  /\ UNCHANGED <<hosts, read, results, pending, game, runs, fate>>

\* The next command, if its slot is committed.
Read ==
  /\ worker.pc = "read"
  /\ IF read < written /\ slots[Slot(read)].seq = read + 1
     THEN worker' = [worker EXCEPT !.pc = "capture", !.cmd = slots[Slot(read)].cmd,
                                   !.seq = read + 1]
     ELSE worker' = Asleep
  /\ UNCHANGED <<hosts, read, results, pending, game, runs, fate>>

\* The typed payload is valid and CaptureMovementLease succeeds, both at worker.now.
Capturable(c) ==
  /\ c.created <= worker.now /\ worker.now <= c.deadline
  /\ HostLeaseIsActive(worker.now) /\ SameHost(c) /\ Alive(c.host)

\* A valid command is queued for the game thread, any other answered here.
Capture ==
  /\ worker.pc = "capture"
  /\ LET c == command[worker.cmd] IN
     \/ /\ Capturable(c)
        /\ pending' = [cmd |-> worker.cmd, seq |-> worker.seq, state |-> 0,
                       outcome |-> "refused"]
        /\ worker' = Asleep
        /\ UNCHANGED results
     \/ /\ ~Capturable(c) /\ Publishes(worker.cmd, worker.seq, "rejected", "refused")
        /\ worker' = [worker EXCEPT !.pc = "skip"] /\ UNCHANGED pending
     \/ /\ ~Capturable(c) /\ Len(results) >= ResultCapacity
        /\ worker' = Asleep
        /\ UNCHANGED <<results, pending>>
  /\ UNCHANGED <<hosts, read, game, runs, fate>>

Skip ==
  /\ worker.pc = "skip" /\ read' = worker.seq
  /\ worker' = [worker EXCEPT !.pc = "read", !.cmd = 0, !.seq = 0]
  /\ UNCHANGED <<hosts, results, pending, game, runs, fate>>

WorkerStep == Drain \/ Finish \/ Advance \/ Gate \/ Read \/ Capture \/ Skip

-----------------------------------------------------------------------------
(***************************************************************************)
(* The game thread, at an update of its own.                               *)
(***************************************************************************)
drain == <<hosts, read, results, worker>>

\* Where the thread goes with the request: the actor service samples the clock for the
\* deadline before it turns to the lease.
Taken(i) == [pc |-> IF command[i].kind \in Actor THEN "time" ELSE "look", cmd |-> i]

\* Mutant: a request is taken without asking whether somebody else answered or took it.
MutTakeCommand ==
  /\ game.pc = "idle" /\ pending.cmd # 0
  /\ pending' = [pending EXCEPT !.state = 1]
  /\ game' = Taken(pending.cmd)
  /\ UNCHANGED <<drain, runs, fate>>

\* TakeMovementCommand, Take: queued becomes executing, once.
TakeCommand ==
  /\ game.pc = "idle" /\ pending.cmd # 0 /\ pending.state = 0
  /\ pending' = [pending EXCEPT !.state = 1]
  /\ game' = Taken(pending.cmd)
  /\ UNCHANGED <<drain, runs, fate>>

\* CompleteMovementCommand, Complete: the receipt goes to the request that was taken, which
\* the worker thread keeps until it is answered.
Complete(outcome) ==
  /\ pending' = IF pending.cmd = game.cmd
                THEN [pending EXCEPT !.state = 2, !.outcome = outcome] ELSE pending
  /\ game' = Idle

\* The controller executes the command.
Execute ==
  /\ game' = [game EXCEPT !.pc = "call"]
  /\ runs' = [runs EXCEPT ![game.cmd] = @ + 1] /\ UNCHANGED pending

\* The command is late or its lease is not current: what needs neither may be executed yet.
Deny ==
  \/ Complete("refused") /\ UNCHANGED runs
  \/ command[game.cmd].kind = "control" /\ Execute

Proceed(pc) == game' = [game EXCEPT !.pc = pc] /\ UNCHANGED <<pending, runs>>

\* The actor service: timely.
Time ==
  /\ game.pc = "time"
  /\ IF clock <= command[game.cmd].deadline THEN Proceed("look") ELSE Deny
  /\ UNCHANGED <<drain, fate>>

\* A service compares the deadline with the clock sample that the lease is judged by, a
\* movement command with a new one afterwards.
OnTime(c, kind) == c.kind = kind => clock <= c.deadline

\* CommandLease::Current, its first half: the process lives and the lease is active.
Look ==
  /\ game.pc = "look"
  /\ IF /\ Alive(command[game.cmd].host) /\ HostLeaseIsActive(clock)
        /\ OnTime(command[game.cmd], "service")
     THEN Proceed("match") ELSE Deny
  /\ UNCHANGED <<drain, fate>>

\* Its second half: live is what the controllers are told.
Live(c) == SameHost(c) /\ OnTime(c, "movement")

Match ==
  /\ game.pc = "match"
  /\ IF Live(command[game.cmd]) THEN Execute ELSE Deny
  /\ UNCHANGED <<drain, fate>>

\* The controller returns: the client accepted or refused, or it is not known or still to
\* come what it makes of the command.  A movement command always has an outcome.
Return ==
  /\ game.pc = "call"
  /\ \E outcome \in Outcomes :
       /\ command[game.cmd].kind = "movement" => outcome # "uncertain"
       /\ Complete(outcome) /\ fate' = [fate EXCEPT ![game.cmd] = outcome]
  /\ UNCHANGED <<drain, runs>>

GameStep == TakeCommand \/ Time \/ Look \/ Match \/ Return

-----------------------------------------------------------------------------
Next == Tick \/ (\E h \in Hosts : HostStep(h)) \/ WorkerStep \/ GameStep
Spec == Init /\ [][Next]_vars

\* The worker thread wakes every 100 ms and time passes.  The game thread finishes what it
\* took within the update in which it took it.  It need not take anything: the services and
\* the movement commands wait for the same update, which the client does not run while it is
\* minimized or logged out.
Fairness ==
  /\ WF_vars(Tick) /\ WF_vars(WorkerStep) /\ WF_vars(Time \/ Look \/ Match \/ Return)
FairSpec == Spec /\ Fairness

-----------------------------------------------------------------------------
(***************************************************************************)
(* Properties.                                                             *)
(***************************************************************************)
Stages  == {"accepted", "rejected"}
Replies == {NoReply, GaveUp} \cup [stage : Stages, told : Outcomes]

Transports == [pc : Locked \cup {"closed", "open", "dead"}, gen : Nat,
               cmd : Ids \cup {0}, now : Nat]
Drains     == [pc : {"wait", "finish", "advance", "gate", "read", "capture", "skip"},
               now : Nat, cmd : Ids \cup {0}, seq : Nat]
Requests   == [cmd : Ids \cup {0}, seq : Nat, state : 0..2,
               outcome : Outcomes]
Results    == [cmd : Ids, seq : Nat, stage : Stages, told : Outcomes]
Threads    == [pc : {"idle", "time", "look", "match", "call"}, cmd : Ids \cup {0}]

HostsOK ==
  /\ clock \in 1..(MaxTime + 1) /\ faults \in 0..MaxFaults
  /\ lease \in [pid : Hosts \cup {NoHost}, gen : Nat, beat : Nat]
  /\ mutex \in Hosts \cup {NoHost}
  /\ host \in [Hosts -> Transports]
  /\ command \in [Ids -> Command \cup {NoCommand}]
  /\ reply \in [Ids -> Replies]

RingOK ==
  /\ slots \in [0..(CommandCapacity - 1) -> [seq : Nat, cmd : Ids \cup {0}]]
  /\ written \in Nat /\ read \in Nat
  /\ read <= written /\ written <= read + CommandCapacity

NativeOK ==
  /\ results \in Seq(Results) /\ Len(results) <= ResultCapacity
  /\ worker \in Drains /\ pending \in Requests
  /\ game \in Threads
  /\ runs \in [Ids -> Nat]
  /\ fate \in [Ids -> Outcomes \cup {"none"}]

\* Every variable has its type, and neither ring holds more than its capacity: the header's
\* sequences and lease, the rings, the transports, the drain and the queued command.
TypeOK == HostsOK /\ RingOK /\ NativeOK

\* A published command that the game has not consumed is whole in its slot, whatever host
\* died while writing before or after it: submit's slot discipline.
RingIntact ==
  \A i \in Ids : command[i].seq > read =>
    slots[Slot(command[i].seq - 1)] = [seq |-> command[i].seq, cmd |-> i]

\* A host in the middle of a submit owns the lease, so that waiting never finds it lost: a
\* claim needs the mutex that submit holds, also when the lease expires during the wait.
SubmitterOwns == \A h \in Hosts : host[h].pc \in Submitting => OwnsHostLease(h)

\* A command is executed at most once: drains repeated after a full result ring, expiry and
\* the game thread never hand it out again.
AtMostOnce == \A i \in Ids : runs[i] <= 1

\* What a receipt says of the i-th command is what came of it; refused is also said of one
\* that was not executed.
Receipt(i, told) ==
  /\ told \in {"accepted", "uncertain"} => fate[i] = told
  /\ told = "refused" => IF runs[i] = 0 THEN fate[i] = "none" ELSE fate[i] = told

\* And so is what the stage says: of movement and services, accepted what the client accepted;
\* of actor commands nothing but that they were handed to the game thread.
Says(i, stage, told) ==
  /\ Receipt(i, told)
  /\ stage = "accepted" /\ command[i].kind \notin Actor => fate[i] = "accepted"
  /\ stage = "rejected" /\ command[i].kind \in Actor => runs[i] = 0

\* submit returns the answer to its own command, its stage and its receipt both true of what
\* the client made of it, also when answers to given-up commands of this or another host, of
\* its kind or of another, are still in the ring.
RepliesTrue == \A i \in Ids : Says(i, reply[i].stage, reply[i].told)

\* submit returned a receipt of the i-th command.
Told(i) == reply[i].told \in Outcomes

\* After submit returned an answer, nothing more comes of its command: it is neither executed
\* later nor still being executed when the answer says that it expired.
AnswerIsFinal ==
  [][\A i \in Ids : Told(i) => runs'[i] = runs[i] /\ fate'[i] = fate[i]]_vars

\* The channel implements NativeCall: whatever hosts die, leases expire, answers are lost in
\* a full ring or left over, a host that submits sees one call, executed at most once and
\* answered truly and at most once, with nothing coming of it after the answer.
Asked == {i \in Ids : command[i] # NoCommand}
Receipts == [i \in Ids |-> reply[i].told]
Call == INSTANCE NativeCall WITH Calls <- Ids, asked <- Asked, reply <- Receipts
ImplementsCall == Call!Spec

\* A command passes its last lease check, and is executed, while no later host has completed
\* its claim of the lease: what a host left behind does not act for the next one.  A movement
\* command is not even begun late.  This speaks of the check: a claim may be completed while
\* the native call that follows it is under way.  Controls are exempt, as they are in the code.
Fenced ==
  [][\A i \in Ids : runs'[i] # runs[i] /\ command[i].kind # "control" =>
       /\ \A h \in Hosts : host[h].gen <= command[i].gen
       /\ command[i].kind = "movement" => clock <= command[i].deadline]_vars

\* Commands are executed in the order in which they were published, whichever hosts published
\* them: the drain consumes one sequence after the other and queues one command at a time.
ExecutesInOrder ==
  [][\A i, j \in Ids : runs'[i] # runs[i] /\ runs[j] # 0 =>
       command[j].seq # 0 /\ command[j].seq < command[i].seq]_vars

\* A movement request waits for the game thread: it is the one kind without an expiry.
MovementWaits ==
  pending.cmd # 0 /\ pending.state = 0 /\ command[pending.cmd].kind = "movement"

\* While a host keeps its lease, every published command is consumed, although the game
\* thread may never take another request: "An expired request that never reached the owning
\* thread cannot block the channel forever while minimized/logged out."  The one exception is
\* a movement request that is never taken, which blocks the channel for every kind.
Drained ==
  <>[]HostLeaseIsActive(clock) /\ ~<>[]MovementWaits =>
    \A i \in Ids : command[i].seq # 0 ~> read >= command[i].seq

\* The drain refuses a command only for a reason: it is late, or its host does not hold the
\* lease or is dead.  This is what the second clock sample of HostLeaseIsActive is for.
CurrentHostServed ==
  [][worker.pc = "capture" /\ worker'.pc = "skip" =>
       LET c == command[worker.cmd] IN
       \/ clock > c.deadline
       \/ ~(HostLeaseIsActive(clock) /\ SameHost(c) /\ Alive(c.host))]_vars

-----------------------------------------------------------------------------
(***************************************************************************)
(* The inductive invariant.                                                *)
(***************************************************************************)
\* The mutex is held by the one host in a transaction, and generations only grow.
MutexInv ==
  \A h \in Hosts : /\ host[h].pc \in Locked <=> mutex = h
                   /\ host[h].gen <= lease.gen

\* What the host in a submit has written of its command.
SubmitInv ==
  \A h \in Hosts : host[h].pc \in Submitting =>
    /\ OwnsHostLease(h)
    /\ host[h].cmd \in Ids /\ command[host[h].cmd].host = h
    /\ host[h].pc \in {"fill", "commit", "publish"} =>
         command[host[h].cmd].seq = 0 /\ written - read < CommandCapacity
    /\ host[h].pc \in {"commit", "publish"} => slots[Slot(written)].cmd = host[h].cmd
    /\ host[h].pc = "publish" => slots[Slot(written)].seq = written + 1
    /\ host[h].pc \in {"take", "check"} => command[host[h].cmd].seq # 0

\* Unconsumed sequences are whole in their slots, and each is that of one command.
RingInv ==
  /\ \A n \in (read + 1)..written :
       /\ slots[Slot(n - 1)].seq = n
       /\ slots[Slot(n - 1)].cmd \in Ids /\ command[slots[Slot(n - 1)].cmd].seq = n
  /\ \A i \in Ids : command[i].seq <= written
  /\ \A i, j \in Ids : command[i].seq # 0 /\ command[i].seq = command[j].seq => i = j

\* The next sequence of the ring is that of i.
Current(i, n) == i \in Ids /\ n = read + 1 /\ command[i].seq = n

\* Where the drain is, and who holds the queued request.
DrainInv ==
  /\ worker.pc \in {"capture", "skip"} => Current(worker.cmd, worker.seq)
  /\ worker.pc \in {"gate", "read", "capture", "skip"} => pending.cmd = 0
  /\ worker.pc \in {"finish", "advance"} => pending.cmd # 0
  /\ worker.pc = "advance" => pending.state = 2
  /\ pending.cmd = 0 => pending = NoPending
  /\ pending.cmd # 0 => Current(pending.cmd, pending.seq)
  /\ game.pc = "idle" <=> pending.state # 1
  /\ game.pc # "idle" => game.cmd = pending.cmd /\ pending.cmd # 0

\* The answer to the i-th command is in the result ring or was there.
Answered(i) ==
  /\ command[i].seq # 0
  /\ \/ command[i].seq <= read
     \/ worker.pc \in {"advance", "skip"} /\ command[i].seq = read + 1

\* What has been executed of a command that is not consumed.
RunInv ==
  \A i \in Ids :
    /\ runs[i] <= 1 /\ (fate[i] # "none" => runs[i] = 1)
    /\ command[i].seq = 0 \/ command[i].seq > read =>
         /\ pending.cmd # i => runs[i] = 0 /\ fate[i] = "none"
         /\ pending.cmd = i /\ pending.state # 2 => fate[i] = "none"
         /\ pending.cmd = i /\ (pending.state = 0 \/ game.pc \in {"time", "look", "match"}) =>
              runs[i] = 0
         /\ pending.cmd = i /\ game.pc = "call" => runs[i] = 1
         /\ pending.cmd = i /\ pending.state = 2 => Receipt(i, pending.outcome)

\* Answers, in the ring and returned, are those of answered commands and say what came of them.
Backed(i, stage, told) == Answered(i) /\ Says(i, stage, told)

AnswerInv ==
  /\ \A k \in 1..Len(results) : Backed(results[k].cmd, results[k].stage, results[k].told)
  /\ \A i \in Ids : Told(i) => Backed(i, reply[i].stage, reply[i].told)

\* What the refinement needs besides: who has not been answered, and that an execution
\* without an outcome is the one the game thread is in.
CallInv ==
  /\ \A i \in Ids : command[i] = NoCommand => reply[i] = NoReply
  /\ \A h \in Hosts : host[h].pc \in Submitting => reply[host[h].cmd] = NoReply
  /\ \A i \in Ids : runs[i] = 1 /\ fate[i] = "none" => game.pc = "call" /\ game.cmd = i

ChannelInv ==
  TypeOK /\ MutexInv /\ SubmitInv /\ RingInv /\ DrainInv /\ RunInv /\ AnswerInv
=============================================================================
