------------------------- MODULE CommandChannelProofs -------------------------
(***************************************************************************)
(* CommandChannel's safety properties for any number of hosts, any ring    *)
(* sizes, any lease age and any number of deaths.                          *)
(*                                                                         *)
(* ChannelInv is inductive.  The host side (MutexInv, SubmitInv, RingInv)  *)
(* is disturbed only by hosts, one at a time because they hold the mutex;  *)
(* the native side (DrainInv, RunInv, AnswerInv) sees of the hosts only    *)
(* which sequence a command was published under.  The slot that a host     *)
(* overwrites holds no unconsumed command because fewer than               *)
(* CommandCapacity sequences lie between read and written (SlotsApart).    *)
(***************************************************************************)
EXTENDS CommandChannel, SequenceTheorems, TLAPS

-----------------------------------------------------------------------------
(* Slots of the command ring *)

LEMMA DivMod ==
  ASSUME NEW c \in Nat \ {0}, NEW m \in Nat
  PROVE  /\ m % c \in 0..(c - 1) /\ m \div c \in Nat
         /\ m = c * (m \div c) + (m % c)
  BY SMTT(30)

\* A multiple of c is not strictly between 0 and c.
LEMMA NoMultipleBetween ==
  ASSUME NEW c \in Nat \ {0}, NEW p \in Int, NEW q \in Int,
         0 < c * (q - p), c * (q - p) < c
  PROVE  FALSE
<1>1. CASE q - p <= 0
  <2>1. c * (q - p) <= 0
    BY <1>1, SMTT(30)
  <2> QED BY <2>1
<1>2. CASE q - p >= 1
  <2>1. c * (q - p) >= c
    BY <1>2, SMTT(30)
  <2> QED BY <2>1
<1> QED BY <1>1, <1>2

LEMMA SlotsApart ==
  ASSUME NEW m \in Nat, NEW k \in Nat, m < k, k < m + CommandCapacity
  PROVE  Slot(m) # Slot(k)
<1> DEFINE c == CommandCapacity
           p == m \div c
           q == k \div c
           r == m % c
<1>1. c \in Nat \ {0}
  BY ChannelAssumption
<1> HIDE DEF c
<1> SUFFICES ASSUME m % c = k % c PROVE FALSE
  BY DEF Slot, c
<1>2. p \in Nat /\ r \in Nat /\ m = c * p + r
  <2>1. p \in Nat /\ r \in 0..(c - 1) /\ m = c * p + r
    BY <1>1, DivMod
  <2>2. \A x \in 0..(c - 1) : x \in Nat
    BY <1>1
  <2> HIDE DEF p, r
  <2> QED BY <2>1, <2>2
<1>3. q \in Nat /\ k = c * q + r
  BY <1>1, DivMod
<1>4. k < m + c
  BY DEF c
<1> HIDE DEF p, q, r
<1>5. k - m = c * (q - p)
  BY <1>1, <1>2, <1>3, SMTT(30)
<1> QED BY <1>1, <1>2, <1>3, <1>4, <1>5, NoMultipleBetween

LEMMA SlotRange ==
  ASSUME NEW m \in Nat
  PROVE  Slot(m) \in 0..(CommandCapacity - 1)
  BY ChannelAssumption, DivMod DEF Slot

-----------------------------------------------------------------------------
LEMMA ChannelInitially == Init => ChannelInv
<1> SUFFICES ASSUME Init PROVE ChannelInv
  OBVIOUS
<1> USE ChannelAssumption DEF Init
<1>1. HostsOK
  BY DEF HostsOK, Transports, Replies, NoReply
<1>2. RingOK
  BY DEF RingOK
<1>3. NativeOK
  BY DEF NativeOK, Results, Drains, Requests, NoPending, Idle, Threads, Outcomes
<1>4. \A h \in Hosts : host[h].pc = "closed" /\ host[h].gen = 0 /\ mutex # h
  OBVIOUS
<1>5. "closed" \notin Locked /\ "closed" \notin Submitting
  BY DEF Submitting, Locked, Claiming
<1>6. MutexInv
  BY <1>4, <1>5 DEF MutexInv
<1>7. SubmitInv
  BY <1>4, <1>5 DEF SubmitInv
<1>8. RingInv
  BY DEF RingInv, NoCommand
<1>9. DrainInv /\ RunInv /\ AnswerInv
  BY DEF DrainInv, RunInv, AnswerInv, NoPending, Idle, Told, NoReply, Outcomes
<1> QED BY <1>1, <1>2, <1>3, <1>6, <1>7, <1>8, <1>9 DEF ChannelInv, TypeOK

-----------------------------------------------------------------------------
(* What a step leaves alone *)

\* The native side is as it was; every command has the sequence it had and, once published,
\* the kind.
NativeStands ==
  /\ UNCHANGED <<native, read>>
  /\ \A i \in Ids : /\ command'[i].seq = command[i].seq
                    /\ command[i].seq # 0 => command'[i].kind = command[i].kind

LEMMA NativeKept ==
  ASSUME ChannelInv, NativeStands
  PROVE  DrainInv' /\ RunInv'
<1> USE DEF ChannelInv, NativeStands, native
<1>1. \A i, n : Current(i, n)' <=> Current(i, n)
  BY DEF Current
<1>2. DrainInv'
  BY <1>1 DEF DrainInv
<1>3. RunInv'
  BY DEF RunInv, Receipt
<1> QED BY <1>2, <1>3

LEMMA ResultTypes ==
  ASSUME NativeOK, NEW k \in 1..Len(results)
  PROVE  results[k] \in Results /\ results[k].cmd \in Ids
<1>1. results[k] \in Results
  BY ElementOfSeq DEF NativeOK
<1> QED BY <1>1 DEF Results

\* An answer that is backed stays so.
LEMMA BackingKept ==
  ASSUME NEW i \in Ids, NEW stage, NEW told, Backed(i, stage, told),
         Answered(i) => /\ Answered(i)' /\ command'[i].kind = command[i].kind
                        /\ runs'[i] = runs[i] /\ fate'[i] = fate[i]
  PROVE  Backed(i, stage, told)'
  BY DEF Backed, Says, Receipt

\* A step that leaves answered commands answered, and as they are, and the answers too.
LEMMA AnswersStand ==
  ASSUME ChannelInv, UNCHANGED <<results, reply>>,
         \A i \in Ids : Answered(i) => /\ Answered(i)' /\ command'[i].kind = command[i].kind
                                       /\ runs'[i] = runs[i] /\ fate'[i] = fate[i]
  PROVE  AnswerInv'
<1>1. \A i \in Ids : \A stage, told : Backed(i, stage, told) => Backed(i, stage, told)'
  BY BackingKept
<1>2. \A k \in 1..Len(results) : results[k].cmd \in Ids
  BY ResultTypes DEF ChannelInv, TypeOK
<1> QED BY <1>1, <1>2 DEF ChannelInv, AnswerInv, Told

LEMMA AnswersKept ==
  ASSUME ChannelInv, NativeStands, UNCHANGED <<results, reply>>
  PROVE  AnswerInv' /\ NativeOK'
<1> USE DEF NativeStands, native
<1>1. \A i \in Ids : Answered(i) => Answered(i)' /\ command'[i].kind = command[i].kind
  BY DEF Answered
<1>2. AnswerInv'
  BY <1>1, AnswersStand
<1>3. NativeOK'
  BY DEF ChannelInv, NativeOK, TypeOK
<1> QED BY <1>2, <1>3

LEMMA RingKept ==
  ASSUME ChannelInv, UNCHANGED <<slots, written, read, command>>
  PROVE  RingInv' /\ RingOK'
  BY DEF ChannelInv, TypeOK, RingInv, RingOK

\* A step of h leaves the other hosts alone.
Others(h) == \A g \in Hosts : g # h => host'[g] = host[g]

\* No host but h is in a transaction.
LEMMA Alone ==
  ASSUME ChannelInv, NEW h \in Hosts, mutex = h \/ mutex = NoHost
  PROVE  \A g \in Hosts : g # h => host[g].pc \notin Locked
  BY ChannelAssumption DEF ChannelInv, MutexInv

LEMMA InTransaction ==
  ASSUME ChannelInv, NEW h \in Hosts, host[h].pc \in Locked
  PROVE  mutex = h
  BY DEF ChannelInv, MutexInv

LEMMA GotoMoves ==
  ASSUME HostsOK, NEW h \in Hosts, NEW pc \in Locked \cup {"closed", "open", "dead"}, Goto(h, pc)
  PROVE  /\ host' \in [Hosts -> Transports] /\ Others(h)
         /\ host'[h].pc = pc /\ host'[h].gen = host[h].gen /\ host'[h].cmd = host[h].cmd
  BY DEF HostsOK, Transports, Goto, Others

LEMMA UnlockMoves ==
  ASSUME HostsOK, NEW h \in Hosts, Unlock(h, "open")
  PROVE  /\ host' \in [Hosts -> Transports] /\ Others(h)
         /\ host'[h].pc = "open" /\ host'[h].gen = host[h].gen
         /\ mutex' = NoHost
<1> DEFINE t == [host[h] EXCEPT !.pc = "open", !.cmd = 0, !.now = 0]
<1>1. host \in [Hosts -> Transports]
  BY DEF HostsOK
<1>2. \A r \in Transports : /\ [r EXCEPT !.pc = "open", !.cmd = 0, !.now = 0] \in Transports
                            /\ [r EXCEPT !.pc = "open", !.cmd = 0, !.now = 0].pc = "open"
                            /\ [r EXCEPT !.pc = "open", !.cmd = 0, !.now = 0].gen = r.gen
  BY DEF Transports
<1>3. t \in Transports /\ t.pc = "open" /\ t.gen = host[h].gen
  BY <1>1, <1>2
<1>4. host' = [host EXCEPT ![h] = t] /\ mutex' = NoHost
  BY <1>1 DEF Unlock
<1> HIDE DEF t
<1> QED BY <1>1, <1>3, <1>4 DEF Others

\* The mutex after a step of h under it: h's if h is in a transaction, nobody's otherwise.
LEMMA MutexKept ==
  ASSUME ChannelInv, NEW h \in Hosts, mutex \in {h, NoHost}, Others(h), host' \in [Hosts -> Transports],
         host'[h].pc \in Locked => mutex' = h,
         host'[h].pc \notin Locked => mutex' = NoHost,
         lease.gen <= lease'.gen, lease'.gen \in Nat, host'[h].gen <= lease'.gen
  PROVE  MutexInv'
<1>1. ASSUME NEW g \in Hosts
      PROVE  /\ host'[g].pc \in Locked <=> mutex' = g
             /\ host'[g].gen <= lease'.gen
  <2>1. CASE g = h
    BY <2>1, ChannelAssumption
  <2>2. CASE g # h
    <3>1. host'[g] = host[g] /\ host[g].pc \notin Locked
      BY <2>2, Alone DEF Others
    <3>2. mutex' # g
      BY <2>2, ChannelAssumption
    <3>3. host[g].gen <= lease.gen /\ host[g].gen \in Nat /\ lease.gen \in Nat
      BY DEF ChannelInv, MutexInv, TypeOK, HostsOK, Transports
    <3> QED BY <3>1, <3>2, <3>3
  <2> QED BY <2>1, <2>2
<1> QED BY <1>1 DEF MutexInv

\* What SubmitInv says of h.
SubmitAt(h) ==
  /\ OwnsHostLease(h)
  /\ host[h].cmd \in Ids /\ command[host[h].cmd].host = h
  /\ host[h].pc \in {"fill", "commit", "publish"} =>
       command[host[h].cmd].seq = 0 /\ written - read < CommandCapacity
  /\ host[h].pc \in {"commit", "publish"} => slots[Slot(written)].cmd = host[h].cmd
  /\ host[h].pc = "publish" => slots[Slot(written)].seq = written + 1
  /\ host[h].pc \in {"take", "check"} => command[host[h].cmd].seq # 0

\* Under the mutex, only the host that steps can be in a submit.
LEMMA SubmitKept ==
  ASSUME ChannelInv, NEW h \in Hosts, mutex \in {h, NoHost}, Others(h),
         host'[h].pc \in Submitting => SubmitAt(h)'
  PROVE  SubmitInv'
<1>1. ASSUME NEW g \in Hosts, host'[g].pc \in Submitting, g # h
      PROVE  FALSE
  BY <1>1, Alone DEF Others, Submitting, Locked
<1>2. \A g \in Hosts : host'[g].pc \in Submitting => g = h
  BY <1>1
<1> QED BY <1>2 DEF SubmitInv, SubmitAt

LEMMA SubmitIs ==
  ASSUME ChannelInv, NEW h \in Hosts, host[h].pc \in Submitting
  PROVE  SubmitAt(h)
  BY DEF ChannelInv, SubmitInv, SubmitAt

-----------------------------------------------------------------------------
(* Steps of a host that concern only the lease and the mutex *)

board == <<slots, written, read, results, command, reply, native>>

LEMMA BoardKept ==
  ASSUME ChannelInv, UNCHANGED board
  PROVE  RingOK' /\ NativeOK' /\ RingInv' /\ DrainInv' /\ RunInv' /\ AnswerInv'
<1>1. NativeStands /\ UNCHANGED <<slots, written, read, command, results, reply>>
  BY DEF NativeStands, board
<1> QED BY <1>1, NativeKept, AnswersKept, RingKept

\* A step of h outside a submit: it holds the mutex or none does, before and after.
LeaseMove(h) ==
  /\ mutex \in {h, NoHost} /\ Others(h)
  /\ host'[h].pc \notin Submitting
  /\ mutex' = IF host'[h].pc \in Locked THEN h ELSE NoHost
  /\ lease.gen <= lease'.gen /\ host'[h].gen <= lease'.gen

LEMMA LeaseStep ==
  ASSUME ChannelInv, NEW h \in Hosts, UNCHANGED board, HostsOK', LeaseMove(h)
  PROVE  ChannelInv'
<1> USE DEF LeaseMove
<1>1. host' \in [Hosts -> Transports] /\ lease'.gen \in Nat
  BY DEF HostsOK
<1>2. MutexInv'
  BY <1>1, MutexKept
<1>3. SubmitInv'
  BY SubmitKept
<1> QED BY <1>2, <1>3, BoardKept DEF ChannelInv, TypeOK

LEMMA TickKeeps ==
  ASSUME ChannelInv, Tick
  PROVE  ChannelInv'
<1>1. UNCHANGED board
  BY DEF Tick, board, shared
<1>2. HostsOK'
  BY ChannelAssumption DEF ChannelInv, TypeOK, HostsOK, Tick, shared
<1>3. MutexInv' /\ SubmitInv'
  BY DEF ChannelInv, MutexInv, SubmitInv, OwnsHostLease, Tick, shared
<1> QED BY <1>1, <1>2, <1>3, BoardKept DEF ChannelInv, TypeOK

LEMMA CloseBusyKeeps ==
  ASSUME ChannelInv, NEW h \in Hosts, CloseBusy(h)
  PROVE  ChannelInv'
<1>1. UNCHANGED board /\ UNCHANGED <<clock, faults, lease, mutex, slots, written, read, command, reply>>
  BY DEF CloseBusy, board, shared
<1>2. /\ host' \in [Hosts -> Transports] /\ Others(h)
      /\ host'[h].pc = "closed" /\ host'[h].gen = 0
  BY DEF ChannelInv, TypeOK, HostsOK, Transports, CloseBusy, Others
<1>3. HostsOK'
  BY <1>1, <1>2 DEF ChannelInv, TypeOK, HostsOK
<1>4. "closed" \notin Locked /\ "closed" \notin Submitting /\ mutex # h
  BY DEF Locked, Claiming, Submitting, CloseBusy
<1>5. lease.gen \in Nat
  BY DEF ChannelInv, TypeOK, HostsOK
<1>6. MutexInv'
  BY <1>1, <1>2, <1>4, <1>5 DEF ChannelInv, MutexInv, Others
<1>7. \A g \in Hosts : host'[g].pc \in Submitting => host'[g] = host[g]
  BY <1>2, <1>4 DEF Others
<1>8. SubmitInv'
  BY <1>1, <1>7 DEF ChannelInv, SubmitInv, OwnsHostLease
<1> QED BY <1>1, <1>3, <1>6, <1>8, BoardKept DEF ChannelInv, TypeOK

LEMMA DieKeeps ==
  ASSUME ChannelInv, NEW h \in Hosts, Die(h)
  PROVE  ChannelInv'
<1>1. UNCHANGED board /\ UNCHANGED <<clock, lease, slots, written, read, command, reply>>
  BY DEF Die, board, shared
<1>2. /\ host' \in [Hosts -> Transports] /\ Others(h)
      /\ host'[h].pc = "dead" /\ host'[h].gen = host[h].gen
  <2>1. host \in [Hosts -> Transports]
    BY DEF ChannelInv, TypeOK, HostsOK
  <2> QED BY <2>1 DEF Transports, Die, Others
<1>3. HostsOK'
  BY <1>1, <1>2, ChannelAssumption DEF ChannelInv, TypeOK, HostsOK, Die
<1>4. "dead" \notin Locked /\ "dead" \notin Submitting
  BY DEF Locked, Claiming, Submitting
<1>5. mutex' = IF mutex = h THEN NoHost ELSE mutex
  BY DEF Die
<1>6. MutexInv'
  BY <1>1, <1>2, <1>4, <1>5, ChannelAssumption DEF ChannelInv, MutexInv, Others
<1>7. \A g \in Hosts : host'[g].pc \in Submitting => host'[g] = host[g]
  BY <1>2, <1>4 DEF Others
<1>8. SubmitInv'
  BY <1>1, <1>7 DEF ChannelInv, SubmitInv, OwnsHostLease
<1> QED BY <1>1, <1>3, <1>6, <1>8, BoardKept DEF ChannelInv, TypeOK

LEMMA ClaimKeeps ==
  ASSUME ChannelInv, NEW h \in Hosts, Claim(h)
  PROVE  ChannelInv'
<1> USE DEF ChannelInv, TypeOK, HostsOK
<1>1. UNCHANGED board /\ mutex = NoHost /\ mutex' = h
  BY DEF Claim, Lock, board
<1>2. "claim gen" \in Locked /\ "claim gen" \notin Submitting
  BY DEF Locked, Claiming, Submitting
<1>3. clock \in Nat
  OBVIOUS
<1>4. /\ host' \in [Hosts -> Transports] /\ Others(h)
      /\ host'[h].pc = "claim gen" /\ host'[h].gen = host[h].gen
  BY <1>2, <1>3 DEF Transports, Claim, Others
<1>5. lease' \in [pid : Hosts \cup {NoHost}, gen : Nat, beat : Nat] /\ lease'.gen = lease.gen
  BY DEF Claim
<1>6. HostsOK'
  BY <1>1, <1>4, <1>5 DEF Claim
<1>7. host[h].gen <= lease.gen /\ lease.gen \in Nat
  BY DEF MutexInv
<1> HIDE DEF ChannelInv, TypeOK, HostsOK
<1>8. LeaseMove(h)
  <2>1. mutex \in {h, NoHost} /\ mutex' = IF host'[h].pc \in Locked THEN h ELSE NoHost
    BY <1>1, <1>2, <1>4, <1>5, <1>6, <1>7
  <2>2. Others(h) /\ host'[h].pc \notin Submitting
    BY <1>1, <1>2, <1>4, <1>5, <1>6, <1>7
  <2>3. lease.gen <= lease'.gen
    BY <1>5, <1>7
  <2>4. host'[h].gen <= lease'.gen
    BY <1>4, <1>5, <1>7
  <2> QED BY <2>1, <2>2, <2>3, <2>4 DEF LeaseMove
<1> QED BY <1>1, <1>6, <1>8, LeaseStep

LEMMA ClaimGenerationKeeps ==
  ASSUME ChannelInv, NEW h \in Hosts, ClaimGeneration(h)
  PROVE  ChannelInv'
<1> USE DEF ChannelInv, TypeOK, HostsOK
<1>1. "claim gen" \in Locked /\ "claim beat" \in Locked /\ "claim beat" \notin Submitting
  BY DEF Locked, Claiming, Submitting
<1>2. UNCHANGED board /\ mutex = h /\ mutex' = h
  BY <1>1, InTransaction DEF ClaimGeneration, board
<1>3. /\ host' \in [Hosts -> Transports] /\ Others(h)
      /\ host'[h].pc = "claim beat" /\ host'[h].gen = host[h].gen
  BY <1>1, GotoMoves DEF ClaimGeneration
<1>4. lease' \in [pid : Hosts \cup {NoHost}, gen : Nat, beat : Nat] /\ lease'.gen = lease.gen + 1
  <2>1. lease \in [pid : Hosts \cup {NoHost}, gen : Nat, beat : Nat]
    OBVIOUS
  <2>2. lease' = [lease EXCEPT !.gen = lease.gen + 1]
    BY DEF ClaimGeneration
  <2> HIDE DEF ChannelInv, TypeOK, HostsOK
  <2> QED BY <2>1, <2>2
<1>5. HostsOK'
  BY <1>2, <1>3, <1>4 DEF ClaimGeneration
<1>6. host[h].gen <= lease.gen /\ lease.gen \in Nat /\ host[h].gen \in Nat
  BY DEF MutexInv, Transports
<1> HIDE DEF ChannelInv, TypeOK, HostsOK
<1>8. LeaseMove(h)
  <2>1. mutex \in {h, NoHost} /\ mutex' = IF host'[h].pc \in Locked THEN h ELSE NoHost
    BY <1>1, <1>2, <1>3, <1>4, <1>5, <1>6
  <2>2. Others(h) /\ host'[h].pc \notin Submitting
    BY <1>1, <1>2, <1>3, <1>4, <1>5, <1>6
  <2>3. lease.gen <= lease'.gen
    BY <1>4, <1>6
  <2>4. host'[h].gen <= lease'.gen
    <3>1. host'[h].gen = host[h].gen /\ lease'.gen = lease.gen + 1
      BY <1>3, <1>4
    <3> QED BY <1>6, <3>1
  <2> QED BY <2>1, <2>2, <2>3, <2>4 DEF LeaseMove
<1> QED BY <1>2, <1>5, <1>8, LeaseStep

LEMMA ClaimBeatKeeps ==
  ASSUME ChannelInv, NEW h \in Hosts, ClaimBeat(h)
  PROVE  ChannelInv'
<1> USE DEF ChannelInv, TypeOK, HostsOK
<1>1. "claim beat" \in Locked /\ "claim pid" \in Locked /\ "claim pid" \notin Submitting
  BY DEF Locked, Claiming, Submitting
<1>2. UNCHANGED board /\ mutex = h /\ mutex' = h
  BY <1>1, InTransaction DEF ClaimBeat, board
<1>3. /\ host' \in [Hosts -> Transports] /\ Others(h)
      /\ host'[h].pc = "claim pid" /\ host'[h].gen = host[h].gen
  BY <1>1, GotoMoves DEF ClaimBeat
<1>4. lease' \in [pid : Hosts \cup {NoHost}, gen : Nat, beat : Nat] /\ lease'.gen = lease.gen
  BY DEF ClaimBeat, Transports
<1>5. HostsOK'
  BY <1>2, <1>3, <1>4 DEF ClaimBeat
<1>6. host[h].gen <= lease.gen /\ lease.gen \in Nat
  BY DEF MutexInv
<1> HIDE DEF ChannelInv, TypeOK, HostsOK
<1>8. LeaseMove(h)
  <2>1. mutex \in {h, NoHost} /\ mutex' = IF host'[h].pc \in Locked THEN h ELSE NoHost
    BY <1>1, <1>2, <1>3, <1>4, <1>5, <1>6
  <2>2. Others(h) /\ host'[h].pc \notin Submitting
    BY <1>1, <1>2, <1>3, <1>4, <1>5, <1>6
  <2>3. lease.gen <= lease'.gen
    BY <1>4, <1>6
  <2>4. host'[h].gen <= lease'.gen
    BY <1>3, <1>4, <1>6
  <2> QED BY <2>1, <2>2, <2>3, <2>4 DEF LeaseMove
<1> QED BY <1>2, <1>5, <1>8, LeaseStep

LEMMA ClaimPidKeeps ==
  ASSUME ChannelInv, NEW h \in Hosts, ClaimPid(h)
  PROVE  ChannelInv'
<1> USE DEF ChannelInv, TypeOK, HostsOK
<1>1. "claim pid" \in Locked /\ "open" \notin Locked /\ "open" \notin Submitting
  BY DEF Locked, Claiming, Submitting
<1>2. UNCHANGED board /\ mutex = h /\ mutex' = NoHost
  BY <1>1, InTransaction DEF ClaimPid, board
<1>3. lease.gen \in Nat
  OBVIOUS
<1>4. /\ host' \in [Hosts -> Transports] /\ Others(h)
      /\ host'[h].pc = "open" /\ host'[h].gen = lease.gen
  BY <1>3 DEF ClaimPid, Transports, Others
<1>5. lease' \in [pid : Hosts \cup {NoHost}, gen : Nat, beat : Nat] /\ lease'.gen = lease.gen
  BY DEF ClaimPid
<1>6. HostsOK'
  BY <1>2, <1>4, <1>5 DEF ClaimPid
<1> HIDE DEF ChannelInv, TypeOK, HostsOK
<1>8. LeaseMove(h)
  <2>1. mutex \in {h, NoHost} /\ mutex' = IF host'[h].pc \in Locked THEN h ELSE NoHost
    BY <1>1, <1>2, <1>3, <1>4, <1>5, <1>6
  <2>2. Others(h) /\ host'[h].pc \notin Submitting
    BY <1>1, <1>2, <1>3, <1>4, <1>5, <1>6
  <2>3. lease.gen <= lease'.gen
    BY <1>3, <1>4, <1>5
  <2>4. host'[h].gen <= lease'.gen
    BY <1>3, <1>4, <1>5
  <2> QED BY <2>1, <2>2, <2>3, <2>4 DEF LeaseMove
<1> QED BY <1>2, <1>6, <1>8, LeaseStep

LEMMA RenewKeeps ==
  ASSUME ChannelInv, NEW h \in Hosts, Renew(h)
  PROVE  ChannelInv'
<1> USE DEF ChannelInv, TypeOK, HostsOK
<1>1. "open" \notin Locked /\ "open" \notin Submitting
  BY DEF Locked, Claiming, Submitting
<1>2. UNCHANGED board /\ mutex = NoHost /\ mutex' = NoHost /\ host' = host /\ host[h].pc = "open"
  BY DEF Renew, Lock, board
<1>3. lease' \in [pid : Hosts \cup {NoHost}, gen : Nat, beat : Nat] /\ lease'.gen = lease.gen
  BY DEF Renew
<1>4. HostsOK'
  BY <1>2, <1>3 DEF Renew
<1>5. host[h].gen <= lease.gen /\ lease.gen \in Nat
  BY DEF MutexInv
<1>6. Others(h)
  BY <1>2 DEF Others
<1> HIDE DEF ChannelInv, TypeOK, HostsOK
<1>8. LeaseMove(h)
  <2>1. mutex \in {h, NoHost} /\ mutex' = IF host'[h].pc \in Locked THEN h ELSE NoHost
    BY <1>1, <1>2, <1>3, <1>4, <1>5, <1>6
  <2>2. Others(h) /\ host'[h].pc \notin Submitting
    BY <1>1, <1>2, <1>3, <1>4, <1>5, <1>6
  <2>3. lease.gen <= lease'.gen
    BY <1>2, <1>3, <1>5
  <2>4. host'[h].gen <= lease'.gen
    BY <1>2, <1>3, <1>5
  <2> QED BY <2>1, <2>2, <2>3, <2>4 DEF LeaseMove
<1> QED BY <1>2, <1>4, <1>8, LeaseStep

LEMMA CloseKeeps ==
  ASSUME ChannelInv, NEW h \in Hosts, Close(h)
  PROVE  ChannelInv'
<1> USE DEF ChannelInv, TypeOK, HostsOK
<1>1. /\ "close beat" \in Locked /\ "close beat" \notin Submitting
      /\ "closed" \notin Locked /\ "closed" \notin Submitting
  BY DEF Locked, Claiming, Submitting
<1>2. UNCHANGED board /\ UNCHANGED <<clock, faults>> /\ mutex = NoHost
  BY DEF Close, Lock, board
<1>3. host[h].gen <= lease.gen /\ lease.gen \in Nat
  BY DEF MutexInv
<1>4. CASE OwnsHostLease(h)
  <2>1. /\ host' \in [Hosts -> Transports] /\ Others(h)
        /\ host'[h].pc = "close beat" /\ host'[h].gen = host[h].gen
    BY <1>1, <1>4, GotoMoves DEF Close
  <2>2. lease' \in [pid : Hosts \cup {NoHost}, gen : Nat, beat : Nat] /\ lease'.gen = lease.gen
    BY <1>4 DEF Close
  <2>3. mutex' = h
    BY <1>4 DEF Close
  <2>4. HostsOK'
    BY <1>2, <2>1, <2>2, <2>3 DEF Close, board
  <2> HIDE DEF ChannelInv, TypeOK, HostsOK
  <2>8. LeaseMove(h)
    <3>1. mutex \in {h, NoHost} /\ mutex' = IF host'[h].pc \in Locked THEN h ELSE NoHost
      BY <1>1, <1>2, <1>3, <2>1, <2>2, <2>3, <2>4
    <3>2. Others(h) /\ host'[h].pc \notin Submitting
      BY <1>1, <1>2, <1>3, <2>1, <2>2, <2>3, <2>4
    <3>3. lease.gen <= lease'.gen
      BY <1>3, <2>2
    <3>4. host'[h].gen <= lease'.gen
      BY <1>3, <2>1, <2>2
    <3> QED BY <3>1, <3>2, <3>3, <3>4 DEF LeaseMove
  <2> QED BY <1>2, <2>4, <2>8, LeaseStep
<1>5. CASE ~OwnsHostLease(h)
  <2>1. /\ host' \in [Hosts -> Transports] /\ Others(h)
        /\ host'[h].pc = "closed" /\ host'[h].gen = 0
    BY <1>5 DEF Close, Transports, Others
  <2>2. UNCHANGED <<lease, mutex>>
    BY <1>5 DEF Close
  <2>3. HostsOK'
    BY <1>2, <2>1, <2>2 DEF Close, board
  <2> HIDE DEF ChannelInv, TypeOK, HostsOK
  <2>8. LeaseMove(h)
    <3>1. mutex \in {h, NoHost} /\ mutex' = IF host'[h].pc \in Locked THEN h ELSE NoHost
      BY <1>1, <1>2, <1>3, <2>1, <2>2, <2>3
    <3>2. Others(h) /\ host'[h].pc \notin Submitting
      BY <1>1, <1>2, <1>3, <2>1, <2>2, <2>3
    <3>3. lease.gen <= lease'.gen
      BY <1>3, <2>2
    <3>4. host'[h].gen <= lease'.gen
      BY <1>3, <2>1, <2>2
    <3> QED BY <3>1, <3>2, <3>3, <3>4 DEF LeaseMove
  <2> QED BY <1>2, <2>3, <2>8, LeaseStep
<1> QED BY <1>4, <1>5

LEMMA CloseBeatKeeps ==
  ASSUME ChannelInv, NEW h \in Hosts, CloseBeat(h)
  PROVE  ChannelInv'
<1> USE DEF ChannelInv, TypeOK, HostsOK
<1>1. "close beat" \in Locked /\ "closed" \notin Locked /\ "closed" \notin Submitting
  BY DEF Locked, Claiming, Submitting
<1>2. UNCHANGED board /\ mutex = h /\ mutex' = NoHost
  BY <1>1, InTransaction DEF CloseBeat, board
<1>3. /\ host' \in [Hosts -> Transports] /\ Others(h)
      /\ host'[h].pc = "closed" /\ host'[h].gen = 0
  BY DEF CloseBeat, Transports, Others
<1>4. lease' \in [pid : Hosts \cup {NoHost}, gen : Nat, beat : Nat] /\ lease'.gen = lease.gen
  BY DEF CloseBeat
<1>5. HostsOK'
  BY <1>2, <1>3, <1>4 DEF CloseBeat
<1>6. lease.gen \in Nat
  OBVIOUS
<1> HIDE DEF ChannelInv, TypeOK, HostsOK
<1>8. LeaseMove(h)
  <2>1. mutex \in {h, NoHost} /\ mutex' = IF host'[h].pc \in Locked THEN h ELSE NoHost
    BY <1>1, <1>2, <1>3, <1>4, <1>5, <1>6
  <2>2. Others(h) /\ host'[h].pc \notin Submitting
    BY <1>1, <1>2, <1>3, <1>4, <1>5, <1>6
  <2>3. lease.gen <= lease'.gen
    BY <1>3, <1>4, <1>6
  <2>4. host'[h].gen <= lease'.gen
    BY <1>3, <1>4, <1>6
  <2> QED BY <2>1, <2>2, <2>3, <2>4 DEF LeaseMove
<1> QED BY <1>2, <1>5, <1>8, LeaseStep

-----------------------------------------------------------------------------
(* Steps of a submit *)

\* Writing the slot after the last sequence disturbs no unconsumed command.
LEMMA WriteSlot ==
  ASSUME ChannelInv, NEW v \in [seq : Nat, cmd : Ids \cup {0}],
         written - read < CommandCapacity,
         slots' = [slots EXCEPT ![Slot(written)] = v], UNCHANGED <<written, read>>,
         \A i \in Ids : command'[i].seq = command[i].seq
  PROVE  RingInv' /\ RingOK' /\ slots'[Slot(written)] = v
<1>1. RingOK /\ RingInv
  BY DEF ChannelInv, TypeOK
<1>2. Slot(written) \in 0..(CommandCapacity - 1)
  BY <1>1, SlotRange DEF RingOK
<1>3. RingOK' /\ slots'[Slot(written)] = v
  BY <1>1, <1>2 DEF RingOK
<1>4. ASSUME NEW n \in (read + 1)..written
      PROVE  slots'[Slot(n - 1)] = slots[Slot(n - 1)]
  <2>1. n - 1 \in Nat /\ n - 1 < written /\ written < (n - 1) + CommandCapacity
    BY <1>1, ChannelAssumption DEF RingOK
  <2>2. Slot(n - 1) # Slot(written) /\ Slot(n - 1) \in 0..(CommandCapacity - 1)
    BY <1>1, <2>1, SlotsApart, SlotRange DEF RingOK
  <2> QED BY <1>1, <2>2 DEF RingOK
<1>5. RingInv'
  <2>1. ASSUME NEW n \in (read + 1)..written
        PROVE  /\ slots'[Slot(n - 1)].seq = n
               /\ slots'[Slot(n - 1)].cmd \in Ids /\ command'[slots'[Slot(n - 1)].cmd].seq = n
    BY <1>1, <1>4 DEF RingInv
  <2> QED BY <1>1, <2>1 DEF RingInv
<1> QED BY <1>3, <1>5

LEMMA KindsSent == \A i \in Fresh : KindsOf[i] \subseteq Kinds
  BY ChannelAssumption DEF Fresh, Ids

LEMMA FullSubmitKeeps ==
  ASSUME ChannelInv, NEW h \in Hosts, Submit(h), RingFull
  PROVE  ChannelInv'
<1>1. "open" \notin Locked /\ "open" \notin Submitting
  BY DEF Locked, Claiming, Submitting
<1>2. UNCHANGED board /\ mutex = NoHost /\ mutex' = NoHost /\ host' = host /\ host[h].pc = "open"
  BY DEF Submit, Lock, board
<1>3. HostsOK /\ clock \in Nat
  BY DEF ChannelInv, TypeOK, HostsOK
<1>4. lease' \in [pid : Hosts \cup {NoHost}, gen : Nat, beat : Nat] /\ lease'.gen = lease.gen
  BY <1>3 DEF HostsOK, Submit
<1>5. HostsOK'
  BY <1>2, <1>3, <1>4 DEF HostsOK, Submit, board
<1>6. host[h].gen <= lease.gen /\ lease.gen \in Nat
  BY <1>3 DEF ChannelInv, MutexInv, HostsOK
<1>7. LeaseMove(h)
  BY <1>1, <1>2, <1>4, <1>6 DEF LeaseMove, Others
<1> QED BY <1>2, <1>5, <1>7, LeaseStep

LEMMA FreshSubmitKeeps ==
  ASSUME ChannelInv, NEW h \in Hosts, Submit(h), ~RingFull
  PROVE  ChannelInv'
<1>1. HostsOK /\ RingOK /\ clock \in Nat /\ clock + Patience \in Nat
  BY ChannelAssumption DEF ChannelInv, TypeOK, HostsOK
<1>2. PICK i \in Fresh, kind \in Kinds :
        /\ command' = [command EXCEPT ![i] =
             [host |-> h, gen |-> host[h].gen, kind |-> kind, created |-> clock,
              deadline |-> clock + Patience, seq |-> 0]]
        /\ host' = [host EXCEPT ![h].pc = "fill", ![h].cmd = i]
  BY KindsSent DEF Submit
<1>3. /\ UNCHANGED <<clock, written, read, results, reply, faults, native>>
      /\ slots' = [slots EXCEPT ![Slot(written)].seq = 0]
      /\ lease' = [lease EXCEPT !.beat = clock]
      /\ mutex = NoHost /\ mutex' = h /\ OwnsHostLease(h)
  BY DEF Submit, Lock
<1>4. i \in Ids /\ command[i].seq = 0
  BY DEF Fresh, NoCommand
<1>5. "fill" \in Locked /\ "fill" \in Submitting
  BY DEF Locked, Submitting
<1>6. /\ host' \in [Hosts -> Transports] /\ Others(h)
      /\ host'[h].pc = "fill" /\ host'[h].gen = host[h].gen /\ host'[h].cmd = i
  BY <1>1, <1>2, <1>4, <1>5 DEF HostsOK, Transports, Others
<1>7. /\ command' \in [Ids -> Command \cup {NoCommand}]
      /\ command'[i].host = h /\ command'[i].seq = 0
      /\ \A j \in Ids : command'[j].seq = command[j].seq
      /\ \A j \in Ids : j # i => command'[j] = command[j]
  <2> DEFINE new == [host |-> h, gen |-> host[h].gen, kind |-> kind, created |-> clock,
                     deadline |-> clock + Patience, seq |-> 0]
  <2>1. host[h].gen \in Nat
    BY <1>1 DEF HostsOK, Transports
  <2>2. new \in Command /\ new.host = h /\ new.seq = 0
    BY <1>1, <2>1 DEF Command
  <2>3. command' = [command EXCEPT ![i] = new] /\ command \in [Ids -> Command \cup {NoCommand}]
    BY <1>1, <1>2 DEF HostsOK
  <2> HIDE DEF new
  <2> QED BY <1>4, <2>2, <2>3
<1>8. /\ lease' \in [pid : Hosts \cup {NoHost}, gen : Nat, beat : Nat]
      /\ lease'.gen = lease.gen /\ lease'.pid = lease.pid
  BY <1>1, <1>3 DEF HostsOK
<1>9. HostsOK'
  BY <1>1, <1>3, <1>6, <1>7, <1>8 DEF HostsOK
<1>10. written - read < CommandCapacity
  BY <1>1, ChannelAssumption DEF RingFull, RingOK
<1>11. RingInv' /\ RingOK'
  <2>1. Slot(written) \in 0..(CommandCapacity - 1)
    BY <1>1, SlotRange DEF RingOK
  <2> DEFINE v == [slots[Slot(written)] EXCEPT !.seq = 0]
  <2>2. v \in [seq : Nat, cmd : Ids \cup {0}]
    BY <1>1, <2>1 DEF RingOK
  <2>5. slots' = [slots EXCEPT ![Slot(written)] = v]
    BY <1>3
  <2> HIDE DEF v
  <2> QED BY <1>3, <1>7, <1>10, <2>2, <2>5, WriteSlot
<1>12. NativeStands
  BY <1>3, <1>4, <1>7 DEF NativeStands
<1>13. DrainInv' /\ RunInv' /\ AnswerInv' /\ NativeOK'
  BY <1>3, <1>12, NativeKept, AnswersKept
<1>14. MutexInv'
  <2>1. lease.gen <= lease'.gen /\ lease'.gen \in Nat
    BY <1>1, <1>8 DEF HostsOK
  <2>2. host'[h].gen <= lease'.gen
    BY <1>6, <1>8 DEF ChannelInv, MutexInv
  <2> QED BY <1>3, <1>5, <1>6, <2>1, <2>2, MutexKept
<1>15. SubmitInv'
  <2>1. OwnsHostLease(h)'
    BY <1>3, <1>6, <1>8 DEF OwnsHostLease
  <2>2. SubmitAt(h)'
    BY <1>3, <1>4, <1>6, <1>7, <1>10, <2>1 DEF SubmitAt
  <2> QED BY <1>3, <1>6, <2>2, SubmitKept
<1> QED BY <1>9, <1>11, <1>13, <1>14, <1>15 DEF ChannelInv, TypeOK

LEMMA FillKeeps ==
  ASSUME ChannelInv, NEW h \in Hosts, Fill(h)
  PROVE  ChannelInv'
<1>1. HostsOK /\ RingOK
  BY DEF ChannelInv, TypeOK
<1>2. "fill" \in Locked /\ "fill" \in Submitting /\ "commit" \in Locked
  BY DEF Locked, Submitting
<1>3. SubmitAt(h) /\ mutex = h
  BY <1>2, SubmitIs, InTransaction DEF Fill
<1>4. /\ host' \in [Hosts -> Transports] /\ Others(h)
      /\ host'[h].pc = "commit" /\ host'[h].gen = host[h].gen /\ host'[h].cmd = host[h].cmd
  BY <1>1, <1>2, GotoMoves DEF Fill
<1>5. /\ UNCHANGED <<clock, lease, written, read, results, mutex, command, reply, faults, native>>
      /\ slots' = [slots EXCEPT ![Slot(written)].cmd = host[h].cmd]
  BY DEF Fill
<1>6. HostsOK'
  BY <1>1, <1>4, <1>5 DEF HostsOK
<1>7. RingInv' /\ RingOK' /\ slots'[Slot(written)].cmd = host[h].cmd
  <2>1. Slot(written) \in 0..(CommandCapacity - 1)
    BY <1>1, SlotRange DEF RingOK
  <2>2. host[h].cmd \in Ids /\ written - read < CommandCapacity
    BY <1>3 DEF SubmitAt, Fill
  <2> DEFINE v == [slots[Slot(written)] EXCEPT !.cmd = host[h].cmd]
  <2>3. v \in [seq : Nat, cmd : Ids \cup {0}] /\ v.cmd = host[h].cmd
    BY <1>1, <2>1, <2>2 DEF RingOK
  <2>5. slots' = [slots EXCEPT ![Slot(written)] = v]
    BY <1>5
  <2> HIDE DEF v
  <2>4. \A i \in Ids : command'[i].seq = command[i].seq
    BY <1>5
  <2> QED BY <1>5, <2>2, <2>3, <2>4, <2>5, WriteSlot
<1>8. NativeStands
  BY <1>5 DEF NativeStands
<1>9. DrainInv' /\ RunInv' /\ AnswerInv' /\ NativeOK'
  BY <1>5, <1>8, NativeKept, AnswersKept
<1>10. MutexInv'
  <2>1. host'[h].gen <= lease'.gen /\ lease'.gen \in Nat /\ lease.gen <= lease'.gen
    BY <1>1, <1>4, <1>5 DEF ChannelInv, MutexInv, HostsOK
  <2> QED BY <1>2, <1>3, <1>4, <1>5, <2>1, MutexKept
<1>11. SubmitInv'
  <2>1. SubmitAt(h)'
    BY <1>3, <1>4, <1>5, <1>7 DEF SubmitAt, OwnsHostLease, Fill
  <2> QED BY <1>3, <1>4, <2>1, SubmitKept
<1> QED BY <1>6, <1>7, <1>9, <1>10, <1>11 DEF ChannelInv, TypeOK

LEMMA CommitKeeps ==
  ASSUME ChannelInv, NEW h \in Hosts, Commit(h)
  PROVE  ChannelInv'
<1>1. HostsOK /\ RingOK
  BY DEF ChannelInv, TypeOK
<1>2. "commit" \in Locked /\ "commit" \in Submitting /\ "publish" \in Locked
  BY DEF Locked, Submitting
<1>3. SubmitAt(h) /\ mutex = h
  BY <1>2, SubmitIs, InTransaction DEF Commit
<1>4. /\ host' \in [Hosts -> Transports] /\ Others(h)
      /\ host'[h].pc = "publish" /\ host'[h].gen = host[h].gen /\ host'[h].cmd = host[h].cmd
  BY <1>1, <1>2, GotoMoves DEF Commit
<1>5. /\ UNCHANGED <<clock, lease, written, read, results, mutex, command, reply, faults, native>>
      /\ slots' = [slots EXCEPT ![Slot(written)].seq = written + 1]
  BY DEF Commit
<1>6. HostsOK'
  BY <1>1, <1>4, <1>5 DEF HostsOK
<1>7. /\ RingInv' /\ RingOK'
      /\ slots'[Slot(written)].cmd = host[h].cmd /\ slots'[Slot(written)].seq = written + 1
  <2>1. Slot(written) \in 0..(CommandCapacity - 1)
    BY <1>1, SlotRange DEF RingOK
  <2>2. slots[Slot(written)].cmd = host[h].cmd /\ written - read < CommandCapacity
    BY <1>3 DEF SubmitAt, Commit
  <2> DEFINE v == [slots[Slot(written)] EXCEPT !.seq = written + 1]
  <2>3. v \in [seq : Nat, cmd : Ids \cup {0}] /\ v.cmd = host[h].cmd /\ v.seq = written + 1
    BY <1>1, <2>1, <2>2 DEF RingOK
  <2>5. slots' = [slots EXCEPT ![Slot(written)] = v]
    BY <1>5
  <2> HIDE DEF v
  <2>4. \A i \in Ids : command'[i].seq = command[i].seq
    BY <1>5
  <2> QED BY <1>5, <2>2, <2>3, <2>4, <2>5, WriteSlot
<1>8. NativeStands
  BY <1>5 DEF NativeStands
<1>9. DrainInv' /\ RunInv' /\ AnswerInv' /\ NativeOK'
  BY <1>5, <1>8, NativeKept, AnswersKept
<1>10. MutexInv'
  <2>1. host'[h].gen <= lease'.gen /\ lease'.gen \in Nat /\ lease.gen <= lease'.gen
    BY <1>1, <1>4, <1>5 DEF ChannelInv, MutexInv, HostsOK
  <2> QED BY <1>2, <1>3, <1>4, <1>5, <2>1, MutexKept
<1>11. SubmitInv'
  <2>1. SubmitAt(h)'
    BY <1>3, <1>4, <1>5, <1>7 DEF SubmitAt, OwnsHostLease, Commit
  <2> QED BY <1>3, <1>4, <2>1, SubmitKept
<1> QED BY <1>6, <1>7, <1>9, <1>10, <1>11 DEF ChannelInv, TypeOK

LEMMA PublishKeeps ==
  ASSUME ChannelInv, NEW h \in Hosts, Publish(h)
  PROVE  ChannelInv'
<1> DEFINE i == host[h].cmd
<1>1. HostsOK /\ RingOK /\ NativeOK
  BY DEF ChannelInv, TypeOK
<1>2. /\ "publish" \in Locked /\ "publish" \in Submitting /\ "take" \in Locked
      /\ "open" \notin Locked /\ "open" \notin Submitting
  BY DEF Locked, Submitting, Claiming
<1>3. SubmitAt(h) /\ mutex = h /\ host[h].pc = "publish"
  BY <1>2, SubmitIs, InTransaction DEF Publish
<1>4. /\ i \in Ids /\ command[i].host = h /\ command[i].seq = 0
      /\ written - read < CommandCapacity
      /\ slots[Slot(written)].cmd = i /\ slots[Slot(written)].seq = written + 1
  BY <1>3 DEF SubmitAt
<1>5. /\ UNCHANGED <<clock, lease, slots, read, results, reply, native>>
      /\ written' = written + 1
      /\ command' = [command EXCEPT ![i].seq = written + 1]
  BY DEF Publish
<1>6. /\ host' \in [Hosts -> Transports] /\ Others(h) /\ host'[h].gen = host[h].gen
      /\ \/ host'[h].pc = "take" /\ host'[h].cmd = i /\ mutex' = h
         \/ host'[h].pc = "open" /\ mutex' = NoHost
      /\ faults' \in 0..MaxFaults
  <2>1. CASE Goto(h, "take") /\ UNCHANGED <<mutex, faults>>
    BY <1>1, <1>2, <1>3, <2>1, GotoMoves DEF HostsOK
  <2>2. CASE faults < MaxFaults /\ faults' = faults + 1 /\ Unlock(h, "open")
    <3>1. faults' \in 0..MaxFaults
      BY <1>1, <2>2, ChannelAssumption DEF HostsOK
    <3> QED BY <1>1, <2>2, <3>1, UnlockMoves
  <2> QED BY <2>1, <2>2 DEF Publish
<1> HIDE DEF i
<1>7. /\ command' \in [Ids -> Command \cup {NoCommand}]
      /\ command'[i].host = h /\ command'[i].seq = written + 1
      /\ \A j \in Ids : j # i => command'[j] = command[j]
  <2>1. command \in [Ids -> Command \cup {NoCommand}] /\ command[i] \in Command
    BY <1>1, <1>4, ChannelAssumption DEF HostsOK, NoCommand
  <2> DEFINE v == [command[i] EXCEPT !.seq = written + 1]
  <2>2. v \in Command /\ v.host = h /\ v.seq = written + 1
    BY <1>1, <1>4, <2>1 DEF Command, RingOK
  <2>3. command' = [command EXCEPT ![i] = v]
    BY <1>5
  <2> HIDE DEF v
  <2> QED BY <1>4, <2>1, <2>2, <2>3
<1>8. HostsOK'
  <2>1. mutex' \in Hosts \cup {NoHost}
    BY <1>6
  <2> QED BY <1>1, <1>5, <1>6, <1>7, <2>1 DEF HostsOK
<1>9. RingOK'
  BY <1>1, <1>4, <1>5, ChannelAssumption DEF RingOK
<1>10. NativeOK'
  BY <1>1, <1>5 DEF NativeOK, native
<1>11. MutexInv'
  <2>1. host'[h].gen <= lease'.gen /\ lease'.gen \in Nat /\ lease.gen <= lease'.gen
    BY <1>1, <1>5, <1>6 DEF ChannelInv, MutexInv, HostsOK
  <2> QED BY <1>2, <1>3, <1>6, <2>1, MutexKept
<1>12. SubmitInv'
  <2>1. ASSUME host'[h].pc \in Submitting
        PROVE  SubmitAt(h)'
    <3>1. host'[h].pc = "take" /\ host'[h].cmd = i
      BY <1>2, <1>6, <2>1
    <3>2. OwnsHostLease(h)'
      BY <1>3, <1>5, <1>6 DEF SubmitAt, OwnsHostLease
    <3>3. command'[i].seq # 0
      BY <1>1, <1>7 DEF RingOK
    <3> QED BY <1>4, <1>7, <3>1, <3>2, <3>3 DEF SubmitAt
  <2> QED BY <1>3, <1>6, <2>1, SubmitKept
<1>13. \A j \in Ids : command[j].seq # 0 => j # i
  BY <1>4
<1>14. RingInv'
  <2>1. RingInv
    BY DEF ChannelInv
  <2>2. \A j \in Ids : command[j].seq \in Nat
    BY <1>1 DEF HostsOK, Command, NoCommand
  <2>3. ASSUME NEW n \in (read + 1)..(written + 1)
        PROVE  /\ slots[Slot(n - 1)].seq = n
               /\ slots[Slot(n - 1)].cmd \in Ids /\ command'[slots[Slot(n - 1)].cmd].seq = n
    <3>1. CASE n = written + 1
      <4>1. n - 1 = written
        BY <1>1, <3>1 DEF RingOK
      <4> QED BY <1>4, <1>7, <3>1, <4>1
    <3>2. CASE n # written + 1
      <4>1. n \in (read + 1)..written /\ n # 0
        BY <1>1, <3>2 DEF RingOK
      <4> QED BY <1>7, <1>13, <2>1, <4>1 DEF RingInv
    <3> QED BY <3>1, <3>2
  <2>4. \A j \in Ids : command'[j].seq <= written + 1
    BY <1>1, <1>7, <2>1, <2>2 DEF RingInv, RingOK
  <2>5. ASSUME NEW j \in Ids, NEW k \in Ids, command'[j].seq # 0, command'[j].seq = command'[k].seq
        PROVE  j = k
    <3>1. \A x \in Ids : x # i => command'[x].seq = command[x].seq /\ command[x].seq # written + 1
      BY <1>1, <1>7, <2>1, <2>2 DEF RingInv, RingOK
    <3>2. CASE j # i /\ k # i
      BY <2>1, <2>5, <3>1, <3>2 DEF RingInv
    <3>3. CASE j = i \/ k = i
      BY <1>7, <2>5, <3>1, <3>3
    <3> QED BY <3>2, <3>3
  <2> QED BY <1>5, <2>3, <2>4, <2>5 DEF RingInv
<1>15. DrainInv'
  <2>1. ASSUME NEW j, NEW n, Current(j, n)
        PROVE  Current(j, n)'
    <3>1. j # i
      BY <1>1, <1>4, <2>1 DEF Current, RingOK
    <3> QED BY <1>5, <1>7, <2>1, <3>1 DEF Current
  <2> QED BY <1>5, <2>1 DEF ChannelInv, DrainInv, native
<1>16. RunInv'
  <2>1. \A j \in Ids : command'[j].seq = 0 \/ command'[j].seq > read' =>
                       command[j].seq = 0 \/ command[j].seq > read
    BY <1>4, <1>5, <1>7
  <2> QED BY <1>5, <2>1 DEF ChannelInv, RunInv, Receipt, native
<1>17. AnswerInv'
  <2>1. ASSUME NEW j \in Ids, Answered(j)
        PROVE  Answered(j)' /\ command'[j] = command[j]
    <3>1. command'[j] = command[j]
      BY <1>7, <1>13, <2>1 DEF Answered
    <3> QED BY <1>5, <2>1, <3>1 DEF Answered, native
  <2> QED BY <1>5, <2>1, AnswersStand DEF native
<1> QED BY <1>8, <1>9, <1>10, <1>11, <1>12, <1>14, <1>15, <1>16, <1>17 DEF ChannelInv,
TypeOK

\* Dropping results from the front, and recording replies they back or none, keeps AnswerInv.
LEMMA FewerAnswers ==
  ASSUME ChannelInv, NativeStands, NEW m \in 0..Len(results),
         results' = SubSeq(results, m + 1, Len(results)),
         \A i \in Ids : \/ reply'[i] = GaveUp
                        \/ reply'[i] = reply[i]
                        \/ \E k \in 1..Len(results) :
                             results[k].cmd = i /\ reply'[i] = Heard(k)
  PROVE  AnswerInv' /\ NativeOK'
<1>1. NativeOK /\ AnswerInv
  BY DEF ChannelInv, TypeOK
<1>2. Len(results) \in Nat /\ results \in Seq(Results)
  BY <1>1, LenProperties DEF NativeOK
<1>3. \A j \in (m + 1)..Len(results) : results[j] \in Results
  <2>1. \A j \in (m + 1)..Len(results) : j \in 1..Len(results)
    BY <1>2
  <2> QED BY <1>1, <2>1, ResultTypes
<1>4. /\ results' \in Seq(Results)
      /\ Len(results') = IF m + 1 <= Len(results) THEN Len(results) - (m + 1) + 1 ELSE 0
      /\ \A j \in 1..(Len(results) - (m + 1) + 1) : results'[j] = results[m + 1 + j - 1]
  BY <1>2, <1>3, SubSeqProperties
<1>5. Len(results') = Len(results) - m
  BY <1>2, <1>4
<1>6. ASSUME NEW j \in 1..Len(results')
      PROVE  m + j \in 1..Len(results) /\ results'[j] = results[m + j]
  <2>1. m + j \in 1..Len(results) /\ j \in 1..(Len(results) - (m + 1) + 1) /\ m + 1 + j - 1 = m + j
    BY <1>2, <1>5
  <2> QED BY <1>4, <2>1
<1>7. NativeOK'
  <2>1. Len(results') <= ResultCapacity
    BY <1>1, <1>2, <1>5, ChannelAssumption DEF NativeOK
  <2> QED BY <1>1, <1>4, <2>1 DEF NativeOK, NativeStands, native
<1>8. \A i \in Ids : Answered(i) => /\ Answered(i)' /\ command'[i].kind = command[i].kind
                                    /\ runs'[i] = runs[i] /\ fate'[i] = fate[i]
  BY DEF Answered, NativeStands, native
<1>9. \A i \in Ids : \A stage, told : Backed(i, stage, told) => Backed(i, stage, told)'
  BY <1>8, BackingKept
<1>10. \A k \in 1..Len(results) :
         results[k].cmd \in Ids /\ Backed(results[k].cmd, results[k].stage, results[k].told)
  BY <1>1, ResultTypes DEF AnswerInv
<1>11. \A j \in 1..Len(results') :
         Backed(results[j].cmd, results[j].stage, results[j].told)'
  BY <1>6, <1>9, <1>10
<1>12. ASSUME NEW i \in Ids, Told(i)'
       PROVE  Backed(i, reply[i].stage, reply[i].told)'
  <2>1. CASE reply'[i] = reply[i]
    BY <1>1, <1>9, <1>12, <2>1 DEF AnswerInv, Told
  <2>2. CASE \E k \in 1..Len(results) : results[k].cmd = i /\ reply'[i] = Heard(k)
    <3>1. PICK k \in 1..Len(results) : results[k].cmd = i /\ reply'[i] = Heard(k)
      BY <2>2
    <3>2. reply'[i].stage = results[k].stage /\ reply'[i].told = results[k].told
      BY <3>1 DEF Heard
    <3> QED BY <1>9, <1>10, <3>1, <3>2
  <2>3. CASE reply'[i] = GaveUp
    BY <1>12, <2>3 DEF Told, GaveUp, Outcomes
  <2> QED BY <2>1, <2>2, <2>3
<1> QED BY <1>7, <1>11, <1>12 DEF AnswerInv

\* A turn of the wait: the submit goes on or ends, and at most the lease's heartbeat changes.
WaitMove(h) ==
  /\ UNCHANGED <<clock, slots, written, read, command, native>> /\ faults' \in 0..MaxFaults
  /\ host' \in [Hosts -> Transports] /\ Others(h) /\ host'[h].gen = host[h].gen
  /\ \/ host'[h].pc \in {"take", "check"} /\ host'[h].cmd = host[h].cmd /\ mutex' = h
     \/ host'[h].pc = "open" /\ mutex' = NoHost
  /\ lease' \in [pid : Hosts \cup {NoHost}, gen : Nat, beat : Nat]
  /\ lease'.pid = lease.pid /\ lease'.gen = lease.gen

LEMMA WaitStep ==
  ASSUME ChannelInv, NEW h \in Hosts, host[h].pc \in {"take", "check"}, WaitMove(h),
         reply' \in [Ids -> Replies]
  PROVE  HostsOK' /\ RingOK' /\ MutexInv' /\ SubmitInv' /\ RingInv' /\ NativeStands
<1>1. HostsOK /\ RingOK
  BY DEF ChannelInv, TypeOK
<1>2. /\ {"take", "check"} \subseteq Locked /\ {"take", "check"} \subseteq Submitting
      /\ "open" \notin Locked /\ "open" \notin Submitting
  BY DEF Locked, Submitting, Claiming
<1>3. SubmitAt(h) /\ mutex = h
  BY <1>2, SubmitIs, InTransaction
<1>4. HostsOK'
  <2>1. mutex' \in Hosts \cup {NoHost}
    BY DEF WaitMove
  <2> QED BY <1>1, <2>1 DEF HostsOK, WaitMove
<1>5. RingOK' /\ RingInv'
  BY RingKept DEF WaitMove
<1>6. MutexInv'
  <2>1. host'[h].gen <= lease'.gen /\ lease'.gen \in Nat /\ lease.gen <= lease'.gen
    BY <1>1 DEF ChannelInv, MutexInv, HostsOK, WaitMove
  <2>2. host' \in [Hosts -> Transports] /\ Others(h)
    BY DEF WaitMove
  <2>3. (host'[h].pc \in Locked => mutex' = h) /\ (host'[h].pc \notin Locked => mutex' = NoHost)
    BY <1>2 DEF WaitMove
  <2> QED BY <1>3, <2>1, <2>2, <2>3, MutexKept
<1>7. SubmitInv'
  <2>1. ASSUME host'[h].pc \in Submitting
        PROVE  SubmitAt(h)'
    <3>1. host'[h].pc \in {"take", "check"} /\ host'[h].cmd = host[h].cmd
      BY <1>2, <2>1 DEF WaitMove
    <3>2. OwnsHostLease(h)'
      BY <1>3 DEF SubmitAt, OwnsHostLease, WaitMove
    <3>3. command' = command
      BY DEF WaitMove
    <3> QED BY <1>3, <3>1, <3>2, <3>3 DEF SubmitAt
  <2> QED BY <1>3, <2>1, SubmitKept DEF WaitMove
<1>8. NativeStands
  BY DEF NativeStands, WaitMove
<1> QED BY <1>4, <1>5, <1>6, <1>7, <1>8

LEMMA TakeKeeps ==
  ASSUME ChannelInv, NEW h \in Hosts, Take(h)
  PROVE  ChannelInv'
<1>1. HostsOK /\ NativeOK
  BY DEF ChannelInv, TypeOK
<1>2. host[h].pc = "take" /\ "check" \in Locked /\ "take" \in Locked /\ "take" \in Submitting
  BY DEF Locked, Submitting, Take
<1>3. mutex = h /\ host[h].cmd \in Ids
  BY <1>2, InTransaction, SubmitIs DEF SubmitAt
<1>4. UNCHANGED <<clock, lease, slots, written, read, command, faults, native>>
  BY DEF Take
<1>5. /\ lease' \in [pid : Hosts \cup {NoHost}, gen : Nat, beat : Nat]
      /\ faults' \in 0..MaxFaults
  BY <1>1, <1>4 DEF HostsOK
<1>6. Len(results) \in Nat
  BY <1>1, LenProperties DEF NativeOK
<1>7. ASSUME NEW k \in 1..Len(results), Answers(h, k),
             results' = SubSeq(results, k + 1, Len(results)),
             reply' = [reply EXCEPT ![host[h].cmd] = Heard(k)],
             Unlock(h, "open")
      PROVE  ChannelInv'
  <2>1. WaitMove(h)
    BY <1>1, <1>4, <1>5, <1>7, UnlockMoves DEF WaitMove
  <2>2. results[k].cmd = host[h].cmd /\ Heard(k) \in Replies
    BY <1>1, <1>7, ResultTypes DEF Answers, Results, Replies, Heard
  <2>3. reply' \in [Ids -> Replies]
    BY <1>1, <1>7, <2>2 DEF HostsOK
  <2>4. \A i \in Ids : \/ reply'[i] = reply[i]
                       \/ results[k].cmd = i /\ reply'[i] = Heard(k)
    BY <1>1, <1>3, <1>7, <2>2 DEF HostsOK
  <2>5. HostsOK' /\ RingOK' /\ MutexInv' /\ SubmitInv' /\ RingInv' /\ NativeStands
    BY <1>2, <2>1, <2>3, WaitStep
  <2>6. k \in 0..Len(results)
    BY <1>6
  <2>7. AnswerInv' /\ NativeOK'
    BY <1>7, <2>4, <2>5, <2>6, FewerAnswers
  <2> QED BY <2>5, <2>7, NativeKept DEF ChannelInv, TypeOK
<1>8. ASSUME results' = <<>>, Goto(h, "check"), UNCHANGED <<reply, mutex>>
      PROVE  ChannelInv'
  <2>1. WaitMove(h)
    BY <1>1, <1>2, <1>3, <1>4, <1>5, <1>8, GotoMoves DEF WaitMove
  <2>2. reply' \in [Ids -> Replies]
    BY <1>1, <1>8 DEF HostsOK
  <2>3. HostsOK' /\ RingOK' /\ MutexInv' /\ SubmitInv' /\ RingInv' /\ NativeStands
    BY <1>2, <2>1, <2>2, WaitStep
  <2>4. results' = SubSeq(results, Len(results) + 1, Len(results)) /\ Len(results) \in 0..Len(results)
    BY <1>6, <1>8, SubSeqEmpty
  <2>5. AnswerInv' /\ NativeOK'
    BY <1>8, <2>3, <2>4, FewerAnswers
  <2> QED BY <2>3, <2>5, NativeKept DEF ChannelInv, TypeOK
<1> QED BY <1>7, <1>8 DEF Take

LEMMA CheckKeeps ==
  ASSUME ChannelInv, NEW h \in Hosts, Check(h)
  PROVE  ChannelInv'
<1>1. HostsOK /\ NativeOK /\ clock \in Nat
  BY DEF ChannelInv, TypeOK, HostsOK
<1>2. host[h].pc = "check" /\ "check" \in Locked /\ "take" \in Locked /\ "check" \in Submitting
  BY DEF Locked, Submitting, Check
<1>3. mutex = h /\ host[h].cmd \in Ids /\ OwnsHostLease(h)
  BY <1>2, InTransaction, SubmitIs DEF SubmitAt
<1>4. UNCHANGED <<clock, slots, written, read, results, command, native>>
  BY DEF Check
<1>a. faults' \in 0..MaxFaults
  BY <1>1, ChannelAssumption DEF Check, HostsOK
<1>b. /\ lease' \in [pid : Hosts \cup {NoHost}, gen : Nat, beat : Nat]
      /\ lease'.pid = lease.pid /\ lease'.gen = lease.gen
  <2>1. UNCHANGED lease \/ lease' = [lease EXCEPT !.beat = clock]
    BY DEF Check
  <2> QED BY <1>1, <2>1 DEF HostsOK
<1>5. WaitMove(h)
  <2>1. CASE Unlock(h, "open")
    BY <1>1, <1>4, <1>a, <1>b, <2>1, UnlockMoves DEF WaitMove
  <2>2. CASE Goto(h, "take") /\ UNCHANGED mutex
    BY <1>1, <1>2, <1>3, <1>4, <1>a, <1>b, <2>2, GotoMoves DEF WaitMove
  <2> QED BY <2>1, <2>2 DEF Check
<1>6. /\ reply' \in [Ids -> Replies]
      /\ \A i \in Ids : reply'[i] = reply[i] \/ reply'[i] = GaveUp
  <2>1. GaveUp \in Replies /\ reply \in [Ids -> Replies]
    BY <1>1 DEF HostsOK, Replies
  <2>2. reply' = reply \/ reply' = [reply EXCEPT ![host[h].cmd] = GaveUp]
    BY DEF Check
  <2> QED BY <1>3, <2>1, <2>2
<1>7. HostsOK' /\ RingOK' /\ MutexInv' /\ SubmitInv' /\ RingInv' /\ NativeStands
  BY <1>2, <1>5, <1>6, WaitStep
<1>8. Len(results) \in Nat /\ results \in Seq(Results)
  BY <1>1, LenProperties DEF NativeOK
<1>9. results' = SubSeq(results, 0 + 1, Len(results)) /\ 0 \in 0..Len(results)
  BY <1>4, <1>8, SubSeqFull
<1>10. AnswerInv' /\ NativeOK'
  BY <1>6, <1>7, <1>9, FewerAnswers
<1> QED BY <1>7, <1>10, NativeKept DEF ChannelInv, TypeOK

-----------------------------------------------------------------------------
(* Steps of the drain and of the game thread *)

LEMMA Narrower ==
  ASSUME NEW w \in Nat, NEW r \in Nat, NEW q \in Nat, NEW c \in Nat,
         r <= q, q <= w, w <= r + c
  PROVE  /\ w <= q + c
         /\ w - r < c => w - q < c
         /\ \A n \in (q + 1)..w : n \in (r + 1)..w
  OBVIOUS

LEMMA HostSideKept ==
  ASSUME ChannelInv, UNCHANGED hosts, read' \in Nat, read <= read', read' <= written
  PROVE  HostsOK' /\ RingOK' /\ MutexInv' /\ SubmitInv' /\ RingInv'
<1>1. HostsOK /\ RingOK
  BY DEF ChannelInv, TypeOK
<1>2. HostsOK'
  BY <1>1 DEF HostsOK, hosts
<1>3. slots' = slots /\ written' = written
  BY DEF hosts
<1>4. /\ written \in Nat /\ read \in Nat /\ CommandCapacity \in Nat
      /\ written <= read + CommandCapacity
  BY <1>1, ChannelAssumption DEF RingOK
<1>5. /\ written <= read' + CommandCapacity
      /\ written - read < CommandCapacity => written - read' < CommandCapacity
      /\ \A n \in (read' + 1)..written : n \in (read + 1)..written
  BY <1>4, Narrower
<1>6. RingOK'
  BY <1>1, <1>3, <1>5 DEF RingOK
<1>7. MutexInv'
  BY DEF ChannelInv, MutexInv, hosts
<1>8. SubmitInv'
  BY <1>5 DEF ChannelInv, SubmitInv, OwnsHostLease, hosts
<1>9. RingInv'
  BY <1>5 DEF ChannelInv, RingInv, hosts
<1> QED BY <1>2, <1>6, <1>7, <1>8, <1>9

\* What a step that consumes nothing must show for the native side.
LEMMA NativeStep ==
  ASSUME ChannelInv, UNCHANGED <<hosts, read>>, NativeOK', DrainInv', RunInv', AnswerInv'
  PROVE  ChannelInv'
<1>1. read' \in Nat /\ read <= read' /\ read' <= written
  BY DEF ChannelInv, TypeOK, RingOK
<1> QED BY <1>1, HostSideKept DEF ChannelInv, TypeOK

\* The drain moves without consuming, answering or queueing anything.
LEMMA WorkerMove ==
  ASSUME ChannelInv, UNCHANGED <<hosts, read, results, pending, game, runs, fate>>,
         worker' \in Drains, worker.pc \notin {"advance", "skip"}, DrainInv'
  PROVE  ChannelInv'
<1> USE DEF hosts
<1>1. NativeOK'
  BY DEF ChannelInv, TypeOK, NativeOK
<1>2. RunInv'
  BY DEF ChannelInv, RunInv, Receipt
<1>3. \A i \in Ids : Answered(i) => Answered(i)'
  BY DEF Answered
<1>4. AnswerInv'
  BY <1>3, AnswersStand
<1> QED BY <1>1, <1>2, <1>4, NativeStep

LEMMA AsleepForm == Asleep \in Drains /\ Asleep.pc = "wait"
  BY DEF Asleep, Drains

LEMMA DrainKeeps ==
  ASSUME ChannelInv, Drain
  PROVE  ChannelInv'
<1>1. clock \in Nat /\ worker \in Drains
  BY DEF ChannelInv, TypeOK, HostsOK, NativeOK
<1>2. /\ worker' \in Drains
      /\ worker'.pc = IF pending.cmd = 0 THEN "gate" ELSE "finish"
  BY <1>1 DEF Drain, Drains
<1>3. DrainInv'
  BY <1>2 DEF ChannelInv, DrainInv, Current, Drain, hosts
<1> QED BY <1>2, <1>3, WorkerMove DEF Drain

LEMMA GateKeeps ==
  ASSUME ChannelInv, Gate
  PROVE  ChannelInv'
<1>1. worker \in Drains
  BY DEF ChannelInv, TypeOK, NativeOK
<1>2. worker' \in Drains /\ worker'.pc \in {"read", "wait"}
  BY <1>1, AsleepForm DEF Gate, Drains
<1>3. DrainInv'
  BY <1>2 DEF ChannelInv, DrainInv, Current, Gate, hosts
<1> QED BY <1>2, <1>3, WorkerMove DEF Gate

LEMMA ReadKeeps ==
  ASSUME ChannelInv, Read
  PROVE  ChannelInv'
<1>1. worker \in Drains /\ RingOK /\ RingInv
  BY DEF ChannelInv, TypeOK, NativeOK
<1>2. CASE read < written /\ slots[Slot(read)].seq = read + 1
  <2>1. worker' = [worker EXCEPT !.pc = "capture", !.cmd = slots[Slot(read)].cmd, !.seq = read + 1]
    BY <1>2 DEF Read
  <2>2. read + 1 \in (read + 1)..written /\ (read + 1) - 1 = read
    BY <1>1, <1>2 DEF RingOK
  <2>3. slots[Slot(read)].cmd \in Ids /\ command[slots[Slot(read)].cmd].seq = read + 1
    BY <1>1, <2>2 DEF RingInv
  <2>4. /\ worker' \in Drains /\ worker'.pc = "capture"
        /\ worker'.cmd = slots[Slot(read)].cmd /\ worker'.seq = read + 1
    <3>1. read + 1 \in Nat
      BY <1>1 DEF RingOK
    <3> QED BY <1>1, <2>1, <2>3, <3>1 DEF Drains
  <2>5. DrainInv'
    BY <2>3, <2>4 DEF ChannelInv, DrainInv, Current, Read, hosts
  <2> QED BY <2>4, <2>5, WorkerMove DEF Read
<1>3. CASE ~(read < written /\ slots[Slot(read)].seq = read + 1)
  <2>1. worker' \in Drains /\ worker'.pc = "wait"
    BY <1>3, AsleepForm DEF Read
  <2>2. DrainInv'
    BY <2>1 DEF ChannelInv, DrainInv, Current, Read, hosts
  <2> QED BY <2>1, <2>2, WorkerMove DEF Read
<1> QED BY <1>2, <1>3

\* An answer is appended to the result ring and the drain moves on to at, where it counts as
\* answered.
LEMMA AnswerAppended ==
  ASSUME ChannelInv, UNCHANGED <<hosts, read, pending, game, runs, fate>>,
         NEW i \in Ids, NEW n, NEW stage \in Stages, NEW told \in Outcomes,
         Publishes(i, n, stage, told),
         Current(i, n), worker.pc \notin {"advance", "skip"},
         worker' \in Drains, worker'.pc \in {"advance", "skip"},
         Says(i, stage, told)
  PROVE  NativeOK' /\ RunInv' /\ AnswerInv'
<1> DEFINE new == [cmd |-> i, seq |-> n, stage |-> stage, told |-> told]
<1>1. NativeOK /\ RingOK /\ AnswerInv
  BY DEF ChannelInv, TypeOK
<1>2. n \in Nat
  BY <1>1 DEF Current, RingOK
<1>3. new \in Results /\ new.cmd = i /\ new.stage = stage /\ new.told = told
  BY <1>2 DEF Results
<1>4. results' = Append(results, new) /\ Len(results) < ResultCapacity
  BY DEF Publishes
<1> HIDE DEF new
<1>5. results \in Seq(Results) /\ Len(results) \in Nat
  BY <1>1, LenProperties DEF NativeOK
<1>6. /\ results' \in Seq(Results) /\ Len(results') = Len(results) + 1
      /\ \A k \in 1..Len(results) : results'[k] = results[k]
      /\ results'[Len(results) + 1] = new
  BY <1>3, <1>4, <1>5, AppendProperties
<1>7. Len(results') <= ResultCapacity
  BY <1>4, <1>5, <1>6, ChannelAssumption
<1>8. NativeOK'
  BY <1>1, <1>6, <1>7 DEF NativeOK
<1>9. RunInv'
  BY DEF ChannelInv, RunInv, Receipt, hosts
<1>10. \A j \in Ids : Answered(j) => Answered(j)'
  BY DEF Answered, hosts
<1>11. \A j \in Ids : \A st, t : Backed(j, st, t) => Backed(j, st, t)'
  BY <1>10, BackingKept DEF hosts
<1>12. Answered(i)' /\ Says(i, stage, told)'
  BY <1>1 DEF Answered, Current, RingOK, Says, Receipt, hosts
<1>13. ASSUME NEW k \in 1..Len(results')
       PROVE  Backed(results[k].cmd, results[k].stage, results[k].told)'
  <2>1. CASE k \in 1..Len(results)
    <3>1. results[k].cmd \in Ids /\ Backed(results[k].cmd, results[k].stage, results[k].told)
      BY <1>1, <2>1, ResultTypes DEF AnswerInv
    <3>2. results'[k] = results[k]
      BY <1>6, <2>1
    <3> QED BY <1>11, <3>1, <3>2
  <2>2. CASE k = Len(results) + 1
    <3>1. results'[k] = new
      BY <1>6, <2>2
    <3>2. Backed(i, stage, told)'
      BY <1>12 DEF Backed
    <3> QED BY <1>3, <3>1, <3>2
  <2> QED BY <1>5, <1>6, <2>1, <2>2
<1>14. AnswerInv'
  BY <1>1, <1>11, <1>13 DEF AnswerInv, Told, hosts
<1> QED BY <1>8, <1>9, <1>14

LEMMA CaptureKeeps ==
  ASSUME ChannelInv, Capture
  PROVE  ChannelInv'
<1> DEFINE c == command[worker.cmd]
<1>1. worker \in Drains /\ pending \in Requests /\ NativeOK /\ RingOK /\ DrainInv
  BY DEF ChannelInv, TypeOK, NativeOK
<1>2. /\ worker.pc = "capture" /\ Current(worker.cmd, worker.seq) /\ worker.cmd \in Ids
      /\ pending.cmd = 0 /\ pending = NoPending /\ game.pc = "idle"
  BY <1>1 DEF Capture, DrainInv, Current, NoPending
<1>3. UNCHANGED <<hosts, read, game, runs, fate>>
  BY DEF Capture
<1>4. /\ \A i \in Ids : command[i].seq = 0 \/ command[i].seq > read => runs[i] = 0 /\ fate[i] = "none"
      /\ runs[worker.cmd] = 0 /\ fate[worker.cmd] = "none"
  <2>1. \A i \in Ids : pending.cmd # i
    BY <1>2 DEF Ids
  <2>2. command[worker.cmd].seq > read
    BY <1>1, <1>2 DEF Current, RingOK
  <2> QED BY <1>2, <2>1, <2>2 DEF ChannelInv, RunInv
<1>5. ASSUME pending' = [cmd |-> worker.cmd, seq |-> worker.seq, state |-> 0, outcome |-> "refused"],
             worker' = Asleep, UNCHANGED results
      PROVE  ChannelInv'
  <2>1. /\ pending' \in Requests
        /\ pending'.cmd = worker.cmd /\ pending'.seq = worker.seq /\ pending'.state = 0
    BY <1>1, <1>5 DEF Requests, Drains, Outcomes
  <2>2. worker' \in Drains /\ worker'.pc = "wait"
    BY <1>5, AsleepForm
  <2>3. NativeOK'
    BY <1>1, <1>3, <1>5, <2>1, <2>2 DEF NativeOK
  <2>4. worker.cmd # 0
    BY <1>2 DEF Ids
  <2>5. DrainInv'
    BY <1>1, <1>2, <1>3, <2>1, <2>2, <2>4 DEF DrainInv, Current, hosts
  <2>6. RunInv'
    <3>1. \A i \in Ids : runs[i] <= 1 /\ (fate[i] # "none" => runs[i] = 1)
      BY DEF ChannelInv, RunInv
    <3>2. UNCHANGED <<command, read, game, runs, fate>>
      BY <1>3 DEF hosts
    <3> QED BY <1>2, <1>4, <2>1, <3>1, <3>2 DEF RunInv
  <2>7. \A i \in Ids : Answered(i) => Answered(i)'
    BY <1>2, <1>3 DEF Answered, hosts
  <2>8. AnswerInv'
    BY <1>3, <1>5, <2>7, AnswersStand DEF hosts
  <2> QED BY <1>3, <2>3, <2>5, <2>6, <2>8, NativeStep
<1>6. ASSUME Publishes(worker.cmd, worker.seq, "rejected", "refused"),
             worker' = [worker EXCEPT !.pc = "skip"], UNCHANGED pending
      PROVE  ChannelInv'
  <2>1. /\ worker' \in Drains /\ worker'.pc = "skip"
        /\ worker'.cmd = worker.cmd /\ worker'.seq = worker.seq
    BY <1>1, <1>6 DEF Drains
  <2>a. Says(worker.cmd, "rejected", "refused") /\ "rejected" \in Stages /\ "refused" \in Outcomes
    BY <1>4 DEF Says, Receipt, Stages, Outcomes
  <2>2. NativeOK' /\ RunInv' /\ AnswerInv'
    BY <1>2, <1>3, <1>6, <2>1, <2>a, AnswerAppended
  <2>3. DrainInv'
    BY <1>1, <1>2, <1>3, <1>6, <2>1 DEF DrainInv, Current, hosts
  <2> QED BY <1>3, <2>2, <2>3, NativeStep
<1>7. ASSUME worker' = Asleep, UNCHANGED <<results, pending>>
      PROVE  ChannelInv'
  <2>1. worker' \in Drains /\ worker'.pc = "wait"
    BY <1>7, AsleepForm
  <2>2. DrainInv'
    BY <1>1, <1>3, <1>7, <2>1 DEF DrainInv, Current, hosts
  <2> QED BY <1>2, <1>3, <1>7, <2>1, <2>2, WorkerMove
<1> QED BY <1>5, <1>6, <1>7 DEF Capture

\* The command of the current sequence is consumed, its answer already in the result ring.
LEMMA Consumed ==
  ASSUME ChannelInv, NEW i, NEW n, Current(i, n), read' = n,
         UNCHANGED <<hosts, results, runs, fate>>,
         worker.pc \in {"advance", "skip"}, worker'.pc \notin {"advance", "skip"},
         pending.cmd = 0 \/ pending.cmd = i, pending'.cmd = 0,
         NativeOK', DrainInv'
  PROVE  ChannelInv'
<1>1. RingOK /\ RingInv /\ RunInv /\ AnswerInv /\ HostsOK /\ NativeOK
  BY DEF ChannelInv, TypeOK
<1>2. /\ i \in Ids /\ n = read + 1 /\ command[i].seq = n /\ read' = read + 1
      /\ read \in Nat /\ written \in Nat
  BY <1>1 DEF Current, RingOK
<1>3. n <= written
  BY <1>1, <1>2 DEF RingInv
<1>4. read' \in Nat /\ read <= read' /\ read' <= written
  BY <1>2, <1>3
<1>5. HostsOK' /\ RingOK' /\ MutexInv' /\ SubmitInv' /\ RingInv'
  BY <1>4, HostSideKept
<1>6. command' = command /\ reply' = reply
  BY DEF hosts
<1>7. \A j \in Ids : command[j].seq \in Nat
  BY <1>1 DEF HostsOK, Command, NoCommand
<1>8. RunInv'
  <2>1. ASSUME NEW j \in Ids, command[j].seq = 0 \/ command[j].seq > read'
        PROVE  runs[j] = 0 /\ fate[j] = "none"
    <3>1. j # i /\ (command[j].seq = 0 \/ command[j].seq > read)
      BY <1>2, <1>7, <2>1
    <3>2. pending.cmd # j
      BY <1>2, <3>1 DEF Ids
    <3> QED BY <1>1, <3>1, <3>2 DEF RunInv
  <2>2. \A j \in Ids : pending'.cmd # j /\ runs[j] <= 1 /\ (fate[j] # "none" => runs[j] = 1)
    BY <1>1 DEF Ids, RunInv
  <2> QED BY <1>6, <2>1, <2>2 DEF RunInv
<1>9. ASSUME NEW j \in Ids, Answered(j)
      PROVE  Answered(j)'
  <2>1. command[j].seq # 0 /\ command[j].seq <= read'
    BY <1>2, <1>7, <1>9 DEF Answered
  <2> QED BY <1>6, <2>1 DEF Answered
<1>10. AnswerInv'
  BY <1>6, <1>9, AnswersStand
<1> QED BY <1>5, <1>8, <1>10 DEF ChannelInv, TypeOK

LEMMA SkipKeeps ==
  ASSUME ChannelInv, Skip
  PROVE  ChannelInv'
<1>1. NativeOK /\ DrainInv /\ worker \in Drains
  BY DEF ChannelInv, TypeOK, NativeOK
<1>2. /\ worker.pc = "skip" /\ Current(worker.cmd, worker.seq) /\ pending.cmd = 0
      /\ read' = worker.seq
      /\ UNCHANGED <<hosts, results, pending, game, runs, fate>>
  BY <1>1 DEF Skip, DrainInv
<1>3. worker' \in Drains /\ worker'.pc = "read"
  BY <1>1 DEF Skip, Drains
<1>4. NativeOK'
  BY <1>1, <1>2, <1>3 DEF NativeOK
<1>5. DrainInv'
  BY <1>1, <1>2, <1>3 DEF DrainInv
<1> QED BY <1>2, <1>3, <1>4, <1>5, Consumed

LEMMA AdvanceKeeps ==
  ASSUME ChannelInv, Advance
  PROVE  ChannelInv'
<1>1. NativeOK /\ DrainInv /\ worker \in Drains
  BY DEF ChannelInv, TypeOK, NativeOK
<1>2. /\ worker.pc = "advance" /\ pending.cmd # 0 /\ Current(pending.cmd, pending.seq)
      /\ pending.state = 2 /\ game.pc = "idle"
      /\ read' = pending.seq /\ pending' = NoPending
      /\ UNCHANGED <<hosts, results, game, runs, fate>>
  BY <1>1 DEF Advance, DrainInv
<1>3. worker' \in Drains /\ worker'.pc = "gate"
  BY <1>1 DEF Advance, Drains
<1>4. NoPending \in Requests /\ NoPending.cmd = 0 /\ NoPending.state = 0
  BY DEF NoPending, Requests, Outcomes
<1>5. NativeOK'
  BY <1>1, <1>2, <1>3, <1>4 DEF NativeOK
<1>6. DrainInv'
  BY <1>1, <1>2, <1>3, <1>4 DEF DrainInv
<1> QED BY <1>2, <1>3, <1>4, <1>5, <1>6, Consumed

LEMMA FinishKeeps ==
  ASSUME ChannelInv, Finish
  PROVE  ChannelInv'
<1>1. worker \in Drains /\ pending \in Requests /\ NativeOK /\ RingOK /\ DrainInv /\ RunInv
  BY DEF ChannelInv, TypeOK, NativeOK
<1>2. /\ worker.pc = "finish" /\ pending.cmd # 0 /\ pending.cmd \in Ids
      /\ Current(pending.cmd, pending.seq) /\ command[pending.cmd].seq > read
  BY <1>1 DEF Finish, DrainInv, Current, RingOK
<1>3. UNCHANGED <<hosts, read, game, runs, fate>>
  BY DEF Finish
<1>4. command' = command
  BY <1>3 DEF hosts
<1>5. ASSUME Expires, pending' = [pending EXCEPT !.state = 2, !.outcome = "refused"],
             UNCHANGED <<worker, results>>
      PROVE  ChannelInv'
  <2>1. /\ pending' \in Requests /\ pending'.cmd = pending.cmd /\ pending'.seq = pending.seq
        /\ pending'.state = 2 /\ pending'.outcome = "refused"
    <3>1. /\ "refused" \in Outcomes /\ 2 \in 0..2
          /\ pending.cmd \in Ids \cup {0} /\ pending.seq \in Nat
      BY <1>1 DEF Outcomes, Requests
    <3>2. pending' = [cmd |-> pending.cmd, seq |-> pending.seq, state |-> 2,
                      outcome |-> "refused"]
      BY <1>1, <1>5 DEF Requests
    <3> QED BY <3>1, <3>2 DEF Requests
  <2>2. pending.state = 0
    BY <1>5 DEF Expires
  <2>3. NativeOK'
    BY <1>1, <1>3, <1>5, <2>1 DEF NativeOK
  <2>4. DrainInv'
    BY <1>1, <1>2, <1>3, <1>4, <1>5, <2>1, <2>2 DEF DrainInv, Current
  <2>5. fate[pending.cmd] = "none" /\ runs[pending.cmd] = 0
    BY <1>1, <1>2, <2>2 DEF RunInv
  <2>6. RunInv'
    BY <1>1, <1>3, <1>4, <2>1, <2>5 DEF RunInv, Receipt
  <2>7. \A i \in Ids : Answered(i) => Answered(i)'
    BY <1>3, <1>4, <1>5 DEF Answered
  <2>8. AnswerInv'
    BY <1>3, <1>5, <2>7, AnswersStand DEF hosts
  <2> QED BY <1>3, <2>3, <2>4, <2>6, <2>8, NativeStep
<1>6. ASSUME worker' = Asleep, UNCHANGED <<pending, results>>
      PROVE  ChannelInv'
  <2>1. worker' \in Drains /\ worker'.pc = "wait"
    BY <1>6, AsleepForm
  <2>2. DrainInv'
    BY <1>1, <1>3, <1>4, <1>6, <2>1 DEF DrainInv, Current
  <2> QED BY <1>2, <1>3, <1>6, <2>1, <2>2, WorkerMove
<1>7. ASSUME pending.state = 2,
             Publishes(pending.cmd, pending.seq,
                       Stage(command[pending.cmd].kind, pending.outcome), pending.outcome),
             worker' = [worker EXCEPT !.pc = "advance"], UNCHANGED pending
      PROVE  ChannelInv'
  <2>1. worker' \in Drains /\ worker'.pc = "advance"
    BY <1>1, <1>7 DEF Drains
  <2> DEFINE stage == Stage(command[pending.cmd].kind, pending.outcome)
  <2>2. /\ stage \in Stages /\ pending.outcome \in Outcomes
        /\ Says(pending.cmd, stage, pending.outcome)
    <3>1. Receipt(pending.cmd, pending.outcome) /\ pending.outcome \in Outcomes
      BY <1>1, <1>2, <1>7 DEF RunInv, Requests
    <3> QED BY <3>1 DEF Says, Stage, Stages, Receipt
  <2> HIDE DEF stage
  <2>3. NativeOK' /\ RunInv' /\ AnswerInv'
    BY <1>2, <1>3, <1>7, <2>1, <2>2, AnswerAppended DEF stage
  <2>4. DrainInv'
    BY <1>1, <1>2, <1>3, <1>4, <1>7, <2>1 DEF DrainInv, Current
  <2> QED BY <1>3, <2>3, <2>4, NativeStep
<1> QED BY <1>5, <1>6, <1>7 DEF Finish

\* A request in the hands of the game thread is the current one and not answered.
LEMMA TakenUnanswered ==
  ASSUME ChannelInv, game.pc # "idle"
  PROVE  /\ game.cmd \in Ids /\ game.cmd = pending.cmd /\ pending.state = 1
         /\ command[game.cmd].seq > read /\ ~Answered(game.cmd)
         /\ worker.pc \notin {"advance", "gate", "read", "capture", "skip"}
<1>1. /\ game.cmd = pending.cmd /\ pending.cmd # 0 /\ pending.state = 1
      /\ Current(pending.cmd, pending.seq) /\ RingOK
      /\ worker.pc \notin {"advance", "gate", "read", "capture", "skip"}
  BY DEF ChannelInv, DrainInv, TypeOK
<1> QED BY <1>1 DEF Current, Answered, RingOK

\* What the game thread does to the request it took.
LEMMA GameStepKeeps ==
  ASSUME ChannelInv, UNCHANGED drain, NativeOK', DrainInv', RunInv', 
         \A i \in Ids : Answered(i) => runs'[i] = runs[i] /\ fate'[i] = fate[i]
  PROVE  ChannelInv'
<1>1. UNCHANGED <<hosts, read, results, worker>>
  BY DEF drain
<1>2. \A i \in Ids : Answered(i) => Answered(i)'
  BY <1>1 DEF Answered, hosts
<1>3. AnswerInv'
  BY <1>1, <1>2, AnswersStand DEF hosts
<1> QED BY <1>1, <1>3, NativeStep

LEMMA TakeCommandKeeps ==
  ASSUME ChannelInv, TakeCommand
  PROVE  ChannelInv'
<1>1. pending \in Requests /\ NativeOK /\ DrainInv /\ RunInv
  BY DEF ChannelInv, TypeOK, NativeOK
<1>2. UNCHANGED <<drain, runs, fate>> /\ UNCHANGED <<command, read, worker, results>>
  BY DEF TakeCommand, drain, hosts
<1>3. /\ pending' \in Requests /\ pending'.cmd = pending.cmd /\ pending'.seq = pending.seq
      /\ pending'.state = 1
  BY <1>1 DEF TakeCommand, Requests
<1>4. /\ pending.cmd # 0 /\ pending.state = 0
      /\ game' \in Threads
      /\ game'.pc \in {"time", "look"} /\ game'.cmd = pending.cmd
  BY <1>1 DEF TakeCommand, Taken, Requests, Threads
<1>5. NativeOK'
  BY <1>1, <1>2, <1>3, <1>4 DEF NativeOK
<1>6. DrainInv'
  BY <1>1, <1>2, <1>3, <1>4 DEF DrainInv, Current
<1>7. RunInv'
  BY <1>1, <1>2, <1>3, <1>4 DEF RunInv, Receipt
<1> QED BY <1>2, <1>5, <1>6, <1>7, GameStepKeeps

LEMMA CompleteMoves ==
  ASSUME ChannelInv, game.pc # "idle", NEW outcome \in Outcomes,
         Complete(outcome)
  PROVE  /\ pending' \in Requests /\ pending'.cmd = pending.cmd /\ pending'.seq = pending.seq
         /\ pending'.state = 2 /\ pending'.outcome = outcome
         /\ game' \in Threads
         /\ game'.pc = "idle"
<1>1. pending \in Requests
  BY DEF ChannelInv, TypeOK, NativeOK
<1>2. pending' = [pending EXCEPT !.state = 2, !.outcome = outcome] /\ game' = Idle
  BY TakenUnanswered DEF Complete
<1>3. /\ game' \in Threads
      /\ game'.pc = "idle"
  BY <1>2 DEF Idle, Threads
<1>4. /\ pending' \in Requests /\ pending'.cmd = pending.cmd /\ pending'.seq = pending.seq
      /\ pending'.state = 2 /\ pending'.outcome = outcome
  <2>1. pending.cmd \in Ids \cup {0} /\ pending.seq \in Nat /\ 2 \in 0..2
    BY <1>1 DEF Requests
  <2>2. pending' = [cmd |-> pending.cmd, seq |-> pending.seq, state |-> 2, outcome |-> outcome]
    BY <1>1, <1>2 DEF Requests
  <2> QED BY <2>1, <2>2 DEF Requests
<1> QED BY <1>3, <1>4

\* The request is answered without being executed.
LEMMA RefusedKeeps ==
  ASSUME ChannelInv, game.pc \in {"time", "look", "match"}, Complete("refused"),
         UNCHANGED <<drain, runs, fate>>
  PROVE  ChannelInv'
<1>1. NativeOK /\ DrainInv /\ RunInv
  BY DEF ChannelInv, TypeOK
<1>2. UNCHANGED <<command, read, worker, results>>
  BY DEF drain, hosts
<1>3. /\ pending' \in Requests /\ pending'.cmd = pending.cmd /\ pending'.seq = pending.seq
      /\ pending'.state = 2 /\ pending'.outcome = "refused"
      /\ game' \in Threads
      /\ game'.pc = "idle"
  BY CompleteMoves DEF Outcomes
<1>4. /\ game.cmd = pending.cmd /\ pending.cmd \in Ids /\ pending.state = 1
      /\ command[pending.cmd].seq > read
      /\ worker.pc \notin {"advance", "gate", "read", "capture", "skip"}
  BY TakenUnanswered
<1>5. NativeOK'
  BY <1>1, <1>2, <1>3 DEF NativeOK
<1>6. DrainInv'
  BY <1>1, <1>2, <1>3, <1>4 DEF DrainInv, Current, NoPending, Ids
<1>7. fate[pending.cmd] = "none" /\ runs[pending.cmd] = 0
  BY <1>1, <1>4 DEF RunInv
<1>8. RunInv'
  BY <1>1, <1>2, <1>3, <1>7 DEF RunInv, Receipt
<1> QED BY <1>5, <1>6, <1>8, GameStepKeeps

\* The thread goes on with the request, to pc.
LEMMA ProceedKeeps ==
  ASSUME ChannelInv, game.pc \in {"time", "look"}, NEW pc \in {"look", "match"}, Proceed(pc),
         UNCHANGED <<drain, fate>>
  PROVE  ChannelInv'
<1>1. NativeOK /\ DrainInv /\ RunInv /\ UNCHANGED <<pending, runs>>
  BY DEF ChannelInv, TypeOK, Proceed
<1>2. UNCHANGED <<command, read, worker, results>>
  BY DEF drain, hosts
<1>3. game' \in Threads /\ game'.pc = pc /\ game'.cmd = game.cmd
  BY <1>1 DEF NativeOK, Threads, Proceed
<1>4. NativeOK'
  BY <1>1, <1>2, <1>3 DEF NativeOK
<1>5. DrainInv'
  BY <1>1, <1>2, <1>3 DEF DrainInv, Current
<1>6. RunInv'
  BY <1>1, <1>2, <1>3 DEF RunInv, Receipt
<1> QED BY <1>1, <1>4, <1>5, <1>6, GameStepKeeps

\* The request is executed, for the first time.
LEMMA ExecuteKeeps ==
  ASSUME ChannelInv, game.pc \in {"time", "look", "match"}, Execute, UNCHANGED <<drain, fate>>
  PROVE  ChannelInv'
<1>1. NativeOK /\ DrainInv /\ RunInv
  BY DEF ChannelInv, TypeOK
<1>2. UNCHANGED <<command, read, worker, results, pending>>
  BY DEF drain, hosts, Execute
<1>3. game' \in Threads /\ game'.pc = "call" /\ game'.cmd = game.cmd
  BY <1>1 DEF NativeOK, Threads, Execute
<1>4. /\ game.cmd \in Ids /\ game.cmd = pending.cmd /\ pending.state = 1
      /\ command[game.cmd].seq > read /\ ~Answered(game.cmd)
  BY TakenUnanswered
<1>5. runs[game.cmd] = 0
  BY <1>1, <1>4 DEF RunInv
<1>6. /\ runs' \in [Ids -> Nat] /\ runs'[game.cmd] = 1
      /\ \A i \in Ids : i # game.cmd => runs'[i] = runs[i]
  BY <1>1, <1>4, <1>5 DEF NativeOK, Execute
<1>7. NativeOK'
  BY <1>1, <1>2, <1>3, <1>6 DEF NativeOK
<1>8. DrainInv'
  BY <1>1, <1>2, <1>3 DEF DrainInv, Current
<1>9. RunInv'
  BY <1>1, <1>2, <1>3, <1>4, <1>6 DEF RunInv, Receipt
<1>10. \A i \in Ids : Answered(i) => runs'[i] = runs[i]
  BY <1>4, <1>6
<1> QED BY <1>7, <1>8, <1>9, <1>10, GameStepKeeps

LEMMA DenyKeeps ==
  ASSUME ChannelInv, game.pc \in {"time", "look", "match"}, Deny, UNCHANGED <<drain, fate>>
  PROVE  ChannelInv'
  BY RefusedKeeps, ExecuteKeeps DEF Deny

LEMMA TimeKeeps ==
  ASSUME ChannelInv, Time
  PROVE  ChannelInv'
  BY ProceedKeeps, DenyKeeps DEF Time

LEMMA LookKeeps ==
  ASSUME ChannelInv, Look
  PROVE  ChannelInv'
  BY ProceedKeeps, DenyKeeps DEF Look

LEMMA MatchKeeps ==
  ASSUME ChannelInv, Match
  PROVE  ChannelInv'
  BY ExecuteKeeps, DenyKeeps DEF Match

LEMMA ReturnKeeps ==
  ASSUME ChannelInv, Return
  PROVE  ChannelInv'
<1>1. NativeOK /\ DrainInv /\ RunInv /\ game.pc = "call" /\ UNCHANGED <<drain, runs>>
  BY DEF ChannelInv, TypeOK, Return
<1>2. PICK outcome \in Outcomes :
        Complete(outcome) /\ fate' = [fate EXCEPT ![game.cmd] = outcome]
  BY DEF Return
<1>3. UNCHANGED <<command, read, worker, results>>
  BY <1>1 DEF drain, hosts
<1>4. /\ pending' \in Requests /\ pending'.cmd = pending.cmd /\ pending'.seq = pending.seq
      /\ pending'.state = 2 /\ pending'.outcome = outcome
      /\ game' \in Threads
      /\ game'.pc = "idle"
  BY <1>1, <1>2, CompleteMoves
<1>5. /\ game.cmd \in Ids /\ game.cmd = pending.cmd /\ pending.state = 1
      /\ command[game.cmd].seq > read /\ ~Answered(game.cmd)
      /\ worker.pc \notin {"advance", "gate", "read", "capture", "skip"}
  BY <1>1, TakenUnanswered
<1>6. /\ fate' \in [Ids -> Outcomes \cup {"none"}] /\ fate'[game.cmd] = outcome
      /\ \A i \in Ids : i # game.cmd => fate'[i] = fate[i]
  BY <1>1, <1>2, <1>5 DEF NativeOK
<1>7. NativeOK'
  BY <1>1, <1>3, <1>4, <1>6 DEF NativeOK
<1>8. DrainInv'
  BY <1>1, <1>3, <1>4, <1>5 DEF DrainInv, Current, NoPending, Ids
<1>9. RunInv'
  <2>1. runs[game.cmd] = 1
    BY <1>1, <1>5 DEF RunInv
  <2> QED BY <1>1, <1>3, <1>4, <1>5, <1>6, <2>1 DEF RunInv, Receipt
<1>10. \A i \in Ids : Answered(i) => fate'[i] = fate[i]
  BY <1>5, <1>6
<1> QED BY <1>1, <1>7, <1>8, <1>9, <1>10, GameStepKeeps

-----------------------------------------------------------------------------
(* The theorems *)

LEMMA NextKeeps ==
  ASSUME ChannelInv, [Next]_vars
  PROVE  ChannelInv'
<1>1. CASE Tick
  BY <1>1, TickKeeps
<1>2. ASSUME NEW h \in Hosts, HostStep(h)
      PROVE  ChannelInv'
  BY <1>2, CloseBusyKeeps, ClaimKeeps, ClaimGenerationKeeps, ClaimBeatKeeps, ClaimPidKeeps,
     RenewKeeps, CloseKeeps, CloseBeatKeeps, FullSubmitKeeps, FreshSubmitKeeps, FillKeeps,
     CommitKeeps, PublishKeeps, TakeKeeps, CheckKeeps, DieKeeps DEF HostStep
<1>3. CASE WorkerStep
  BY <1>3, DrainKeeps, FinishKeeps, AdvanceKeeps, GateKeeps, ReadKeeps, CaptureKeeps,
     SkipKeeps
     DEF WorkerStep
<1>4. CASE GameStep
  BY <1>4, TakeCommandKeeps, TimeKeeps, LookKeeps, MatchKeeps, ReturnKeeps DEF GameStep
<1>5. CASE UNCHANGED vars
  <2>1. UNCHANGED board /\ UNCHANGED <<clock, faults, lease, mutex, host, command, reply,
                                       written, read, slots>>
    BY <1>5 DEF vars, shared, native, board
  <2>2. HostsOK' /\ MutexInv' /\ SubmitInv'
    BY <2>1 DEF ChannelInv, TypeOK, HostsOK, MutexInv, SubmitInv, OwnsHostLease
  <2> QED BY <2>1, <2>2, BoardKept DEF ChannelInv, TypeOK
<1> QED BY <1>1, <1>2, <1>3, <1>4, <1>5 DEF Next

\* The inductive invariant holds in every reachable state of the channel, whichever hosts die
\* and wherever in a transaction they do.
THEOREM ChannelCorrect == Spec => []ChannelInv
<1>1. Init => ChannelInv
  BY ChannelInitially
<1>2. ChannelInv /\ [Next]_vars => ChannelInv'
  BY NextKeeps
<1> QED BY <1>1, <1>2, PTL DEF Spec

\* The header, the rings, the transports and the native queue keep their types, and neither
\* ring ever holds more than its capacity.
THEOREM ChannelTypes == Spec => []TypeOK
<1>1. ChannelInv => TypeOK
  BY DEF ChannelInv
<1> QED BY <1>1, ChannelCorrect, PTL

\* submit's slot discipline: what was published and not consumed is whole in its slot,
\* whatever host died while writing, for rings of any capacity.
THEOREM RingStaysIntact == Spec => []RingIntact
<1>1. ASSUME ChannelInv, NEW i \in Ids, command[i].seq > read
      PROVE  slots[Slot(command[i].seq - 1)] = [seq |-> command[i].seq, cmd |-> i]
  <2> DEFINE n == command[i].seq
  <2>1. RingOK /\ RingInv /\ HostsOK
    BY <1>1 DEF ChannelInv, TypeOK
  <2>2. n \in Nat
    BY <2>1 DEF HostsOK, Command, NoCommand
  <2>3. n \in (read + 1)..written /\ n - 1 \in Nat /\ n # 0
    BY <1>1, <2>1, <2>2 DEF RingInv, RingOK
  <2> DEFINE s == slots[Slot(n - 1)]
  <2>4. s.seq = n /\ s.cmd \in Ids /\ command[s.cmd].seq = n
    BY <2>1, <2>3 DEF RingInv
  <2>5. s.cmd = i
    BY <2>1, <2>3, <2>4 DEF RingInv
  <2>6. s \in [seq : Nat, cmd : Ids \cup {0}]
    BY <2>1, <2>3, SlotRange DEF RingOK
  <2> HIDE DEF s, n
  <2>7. s = [seq |-> n, cmd |-> i]
    BY <2>4, <2>5, <2>6
  <2> QED BY <2>7 DEF s, n
<1>2. ChannelInv => RingIntact
  BY <1>1 DEF RingIntact
<1> QED BY <1>2, ChannelCorrect, PTL

\* submit never loses its lease while it fills its slot and waits: every claim needs the
\* producer mutex that it holds.
THEOREM SubmitterOwnsLease == Spec => []SubmitterOwns
<1>1. ChannelInv => SubmitterOwns
  BY DEF ChannelInv, SubmitInv, SubmitterOwns
<1> QED BY <1>1, ChannelCorrect, PTL

\* No command is executed twice, although drains are repeated, requests expire and hosts die.
THEOREM ExecutedAtMostOnce == Spec => []AtMostOnce
<1>1. ChannelInv => AtMostOnce
  BY DEF ChannelInv, RunInv, AtMostOnce
<1> QED BY <1>1, ChannelCorrect, PTL

\* What submit returns, the stage and the receipt, is what came of its own command.
THEOREM RepliesAreTrue == Spec => []RepliesTrue
<1>1. ASSUME ChannelInv, NEW i \in Ids
      PROVE  Says(i, reply[i].stage, reply[i].told)
  <2>1. CASE Told(i)
    BY <1>1, <2>1 DEF ChannelInv, AnswerInv, Backed
  <2>2. CASE ~Told(i)
    <3>1. reply[i] \in {NoReply, GaveUp}
      BY <1>1, <2>2 DEF ChannelInv, TypeOK, HostsOK, Replies, Told
    <3> QED BY <3>1 DEF Says, Receipt, NoReply, GaveUp
  <2> QED BY <2>1, <2>2
<1>2. ChannelInv => RepliesTrue
  BY <1>1 DEF RepliesTrue
<1> QED BY <1>2, ChannelCorrect, PTL

\* Steps that execute a command or learn its fate are those of the game thread.
LEMMA WhoExecutes ==
  ASSUME ChannelInv, [Next]_vars, NEW i \in Ids, runs'[i] # runs[i] \/ fate'[i] # fate[i]
  PROVE  /\ game.pc # "idle" /\ i = game.cmd
         /\ runs'[i] # runs[i] =>
              game.pc # "call" /\ (Live(command[i]) \/ command[i].kind = "control")
<1>1. UNCHANGED <<runs, fate>> \/ Time \/ Look \/ Match \/ Return
  <2>1. Tick \/ (\E h \in Hosts : HostStep(h)) \/ UNCHANGED vars => UNCHANGED <<runs, fate>>
    BY DEF Tick, HostStep, vars, native, CloseBusy, Claim, ClaimGeneration, ClaimBeat,
       ClaimPid,
       Renew, Close, CloseBeat, Submit, Fill, Commit, Publish, Take, Check, Die
  <2>2. WorkerStep => UNCHANGED <<runs, fate>>
    BY DEF WorkerStep, Drain, Finish, Advance, Gate, Read, Capture, Skip
  <2>3. TakeCommand => UNCHANGED <<runs, fate>>
    BY DEF TakeCommand
  <2> QED BY <2>1, <2>2, <2>3 DEF Next, GameStep
<1>2. runs \in [Ids -> Nat] /\ fate \in [Ids -> Outcomes \cup {"none"}]
  BY DEF ChannelInv, TypeOK, NativeOK
<1>3. CASE Time \/ Look \/ Match
  <2>1. game.pc \in {"time", "look", "match"} /\ fate' = fate
    BY <1>3 DEF Time, Look, Match
  <2>2. \/ UNCHANGED runs
        \/ Execute /\ (Live(command[game.cmd]) \/ command[game.cmd].kind = "control")
    BY <1>3 DEF Time, Look, Match, Proceed, Deny
  <2>3. i = game.cmd
    BY <1>2, <2>1, <2>2 DEF Execute
  <2> QED BY <2>1, <2>2, <2>3
<1>4. CASE Return
  <2>1. game.pc = "call" /\ runs' = runs
    BY <1>4 DEF Return
  <2>2. PICK outcome \in Outcomes : fate' = [fate EXCEPT ![game.cmd] = outcome]
    BY <1>4 DEF Return
  <2>3. i = game.cmd
    BY <1>2, <2>1, <2>2
  <2> QED BY <2>1, <2>3
<1> QED BY <1>1, <1>3, <1>4

\* After submit returned an answer, its command is neither executed nor does its fate change.
THEOREM AnswersAreFinal == Spec => AnswerIsFinal
<1>1. ASSUME ChannelInv, [Next]_vars, NEW i \in Ids, Told(i)
      PROVE  runs'[i] = runs[i] /\ fate'[i] = fate[i]
  <2>1. Answered(i)
    BY <1>1 DEF ChannelInv, AnswerInv, Backed
  <2> QED BY <1>1, <2>1, WhoExecutes, TakenUnanswered
<1>2. ChannelInv /\ [Next]_vars =>
        [\A i \in Ids : Told(i) => runs'[i] = runs[i] /\ fate'[i] = fate[i]]_vars
  BY <1>1
<1> QED BY <1>2, ChannelCorrect, PTL DEF Spec, AnswerIsFinal

\* Nothing a host left behind passes its last lease check after a later host completed its
\* claim of the lease, unless its controller serves it without one, and no movement is begun
\* after its deadline.
THEOREM LeaseFences == Spec => Fenced
<1>1. ASSUME ChannelInv, [Next]_vars, NEW i \in Ids, runs'[i] # runs[i],
             command[i].kind # "control"
      PROVE  /\ \A h \in Hosts : host[h].gen <= command[i].gen
             /\ command[i].kind = "movement" => clock <= command[i].deadline
  <2>1. Live(command[i])
    BY <1>1, WhoExecutes
  <2> QED BY <1>1, <2>1 DEF Live, OnTime, SameHost, ChannelInv, MutexInv
<1>2. ChannelInv /\ [Next]_vars =>
        [\A i \in Ids : runs'[i] # runs[i] /\ command[i].kind # "control" =>
           /\ \A h \in Hosts : host[h].gen <= command[i].gen
           /\ command[i].kind = "movement" => clock <= command[i].deadline]_vars
  BY <1>1
<1> QED BY <1>2, ChannelCorrect, PTL DEF Spec, Fenced

\* The game thread executes commands in the order of their sequences: what has been executed
\* before is consumed, and the command in the queue is the next of the ring.
THEOREM ExecutionIsInOrder == Spec => ExecutesInOrder
<1>1. ASSUME ChannelInv, [Next]_vars, NEW i \in Ids, NEW j \in Ids,
             runs'[i] # runs[i], runs[j] # 0
      PROVE  command[j].seq # 0 /\ command[j].seq < command[i].seq
  <2>1. game.pc \in {"time", "look", "match"} /\ i = game.cmd
    BY <1>1, WhoExecutes DEF ChannelInv, TypeOK, NativeOK, Threads
  <2>2. i = pending.cmd /\ command[i].seq = read + 1
    BY <1>1, <2>1 DEF ChannelInv, DrainInv, Current
  <2>3. runs[i] = 0
    BY <1>1, <2>1, <2>2 DEF ChannelInv, RunInv, TypeOK, RingOK
  <2>4. ~(command[j].seq = 0 \/ command[j].seq > read)
    BY <1>1, <2>2, <2>3 DEF ChannelInv, RunInv
  <2>5. command[j].seq \in Nat /\ read \in Nat
    BY <1>1 DEF ChannelInv, TypeOK, HostsOK, RingOK, Command, NoCommand
  <2> QED BY <2>2, <2>4, <2>5
<1>2. ChannelInv /\ [Next]_vars =>
        [\A i, j \in Ids : runs'[i] # runs[i] /\ runs[j] # 0 =>
           command[j].seq # 0 /\ command[j].seq < command[i].seq]_vars
  BY <1>1
<1> QED BY <1>2, ChannelCorrect, PTL DEF Spec, ExecutesInOrder

-----------------------------------------------------------------------------
(***************************************************************************)
(* The channel implements NativeCall.                                      *)
(***************************************************************************)

\* A host that is in a submit has made its command.
LEMMA SubmittedAsked ==
  ASSUME ChannelInv, NEW h \in Hosts, host[h].pc \in Submitting
  PROVE  host[h].cmd \in Ids /\ command[host[h].cmd] # NoCommand /\ host[h].cmd \in Asked
<1>1. host[h].cmd \in Ids /\ command[host[h].cmd].host = h
  BY DEF ChannelInv, SubmitInv
<1> QED BY <1>1, ChannelAssumption DEF NoCommand, Asked

\* Steps of a host that answer nobody.
LEMMA HostCallKept ==
  ASSUME ChannelInv, CallInv, NEW h \in Hosts, Others(h),
         UNCHANGED <<reply, runs, fate, game>>,
         \A i \in Ids : command[i] # NoCommand => command'[i] # NoCommand,
         host'[h].pc \in Submitting => reply[host'[h].cmd] = NoReply
  PROVE  CallInv'
<1>1. \A g \in Hosts : host'[g].pc \in Submitting => reply'[host'[g].cmd] = NoReply
  BY DEF CallInv, Others
<1> QED BY <1>1 DEF CallInv

\* Steps of a host that end its submit with an answer or without.
LEMMA HostAnswerKept ==
  ASSUME ChannelInv, CallInv, NEW h \in Hosts, Others(h), host[h].pc \in Submitting,
         UNCHANGED <<command, runs, fate, game>>, NEW answer,
         reply' = [reply EXCEPT ![host[h].cmd] = answer], host'[h].pc \notin Submitting
  PROVE  CallInv'
<1>1. host[h].cmd \in Ids /\ command[host[h].cmd] # NoCommand
  BY SubmittedAsked
<1>2. \A g \in Hosts : host'[g].pc \notin Submitting
  <2>1. mutex = h
    BY InTransaction DEF Locked
  <2> QED BY <2>1, Alone DEF Others, Locked
<1>3. \A i \in Ids : i # host[h].cmd => reply'[i] = reply[i]
  BY DEF ChannelInv, TypeOK, HostsOK
<1> QED BY <1>1, <1>2, <1>3 DEF CallInv

LEMMA HostCall ==
  ASSUME ChannelInv, CallInv, NEW h \in Hosts, HostStep(h)
  PROVE  CallInv'
<1>a. HostsOK /\ host \in [Hosts -> Transports] /\ host[h] \in Transports
  BY DEF ChannelInv, TypeOK, HostsOK
<1>1. CASE CloseBusy(h) \/ Claim(h) \/ ClaimGeneration(h) \/ ClaimBeat(h) \/ ClaimPid(h)
           \/ Close(h) \/ CloseBeat(h) \/ Die(h)
  <2>1. UNCHANGED <<command, reply, runs, fate, game>>
    BY <1>1 DEF CloseBusy, Claim, ClaimGeneration, ClaimBeat, ClaimPid, Close, CloseBeat,
                Die, native
  <2>2. Others(h) /\ host'[h].pc \notin Submitting
    <3>1. CASE CloseBusy(h) \/ CloseBeat(h)
      <4>1. host' = [host EXCEPT ![h].pc = "closed", ![h].gen = 0]
        BY <3>1 DEF CloseBusy, CloseBeat
      <4> QED BY <4>1, <1>a DEF Others, Transports, Submitting
    <3>2. CASE Claim(h)
      BY <3>2, <1>a DEF Claim, Others, Transports, Submitting
    <3>3. CASE ClaimGeneration(h)
      <4>1. Goto(h, "claim beat")
        BY <3>3 DEF ClaimGeneration
      <4> QED BY <4>1, <1>a DEF Goto, Others, Transports, Submitting
    <3>4. CASE ClaimBeat(h)
      <4>1. Goto(h, "claim pid")
        BY <3>4 DEF ClaimBeat
      <4> QED BY <4>1, <1>a DEF Goto, Others, Transports, Submitting
    <3>5. CASE ClaimPid(h)
      <4>1. host' = [host EXCEPT ![h].pc = "open", ![h].gen = lease.gen, ![h].now = 0]
        BY <3>5 DEF ClaimPid
      <4> QED BY <4>1, <1>a DEF Others, Transports, Submitting
    <3>6. CASE Close(h) /\ OwnsHostLease(h)
      BY <3>6, <1>a, GotoMoves DEF Close, Locked, Submitting
    <3>7. CASE Close(h) /\ ~OwnsHostLease(h)
      BY <3>7, <1>a DEF Close, Others, Transports, Submitting
    <3>8. CASE Die(h)
      BY <3>8, <1>a DEF Die, Others, Transports, Submitting
    <3> QED BY <1>1, <3>1, <3>2, <3>3, <3>4, <3>5, <3>6, <3>7, <3>8
  <2> QED BY <2>1, <2>2, HostCallKept
<1>2. CASE Renew(h)
  BY <1>2, HostCallKept DEF Renew, Others, native, CallInv
<1>3. CASE Submit(h)
  <2>1. UNCHANGED <<reply, runs, fate, game>>
    BY <1>3 DEF Submit, native
  <2>2. CASE UNCHANGED <<command, host>>
    BY <2>1, <2>2, HostCallKept DEF Others, CallInv
  <2>3. ASSUME NEW i \in Fresh, NEW kind \in Kinds,
               command' = [command EXCEPT ![i] =
                  [host |-> h, gen |-> host[h].gen, kind |-> kind, created |-> clock,
                   deadline |-> clock + Patience, seq |-> 0]],
               host' = [host EXCEPT ![h].pc = "fill", ![h].cmd = i]
        PROVE  CallInv'
    <3>1. i \in Ids /\ command[i] = NoCommand
      BY DEF Fresh
    <3>2. \A j \in Ids : command[j] # NoCommand => command'[j] # NoCommand
      BY <2>3, <3>1 DEF ChannelInv, TypeOK, HostsOK
    <3>3. host'[h].cmd = i /\ Others(h)
      BY <2>3, <1>a DEF Others, Transports
    <3>4. reply[host'[h].cmd] = NoReply
      BY <3>1, <3>3 DEF CallInv
    <3> QED BY <2>1, <3>2, <3>3, <3>4, HostCallKept
  <2> QED BY <1>3, <2>2, <2>3, KindsSent DEF Submit
<1>4. CASE Fill(h) \/ Commit(h)
  <2>1. UNCHANGED <<command, reply, runs, fate, game>> /\ host[h].pc \in Submitting
    BY <1>4 DEF Fill, Commit, native, Submitting
  <2>2. Others(h) /\ host'[h].cmd = host[h].cmd
    BY <1>4, <1>a, GotoMoves DEF Fill, Commit, Locked, Submitting
  <2> QED BY <2>1, <2>2, HostCallKept DEF CallInv
<1>5. CASE Publish(h)
  <2>1. UNCHANGED <<reply, runs, fate, game>> /\ host[h].pc \in Submitting
    BY <1>5 DEF Publish, native, Submitting
  <2>2. /\ host[h].cmd \in Ids /\ command[host[h].cmd].host = h
        /\ command' = [command EXCEPT ![host[h].cmd].seq = written + 1]
    BY <1>5, <2>1 DEF Publish, ChannelInv, SubmitInv
  <2>3. \A i \in Ids : command[i] # NoCommand => command'[i] # NoCommand
    <3>1. command \in [Ids -> Command \cup {NoCommand}]
      BY DEF ChannelInv, TypeOK, HostsOK
    <3>2. command[host[h].cmd] \in Command
      BY <2>2, <3>1, ChannelAssumption DEF NoCommand
    <3>3. command'[host[h].cmd].host = h
      BY <2>2, <3>1, <3>2 DEF Command
    <3>4. command'[host[h].cmd] # NoCommand
      BY <3>3, ChannelAssumption DEF NoCommand
    <3> QED BY <2>2, <3>1, <3>4
  <2>4. CASE Goto(h, "take")
    <3>1. Others(h) /\ host'[h].cmd = host[h].cmd
      BY <2>4, <1>a, GotoMoves DEF Locked, Submitting
    <3> QED BY <2>1, <2>3, <3>1, HostCallKept DEF CallInv
  <2>5. CASE Unlock(h, "open")
    <3>1. Others(h) /\ host'[h].pc \notin Submitting
      BY <2>5, <1>a, UnlockMoves DEF Submitting
    <3> QED BY <2>1, <2>3, <3>1, HostCallKept
  <2> QED BY <1>5, <2>4, <2>5 DEF Publish
<1>6. CASE Take(h)
  <2>1. UNCHANGED <<command, runs, fate, game>> /\ host[h].pc \in Submitting
    BY <1>6 DEF Take, native, Submitting
  <2>2. ASSUME NEW k \in 1..Len(results),
               reply' = [reply EXCEPT ![host[h].cmd] = Heard(k)], Unlock(h, "open")
        PROVE  CallInv'
    <3>1. Others(h) /\ host'[h].pc \notin Submitting
      BY <2>2, <1>a, UnlockMoves DEF Submitting
    <3> QED BY <2>1, <2>2, <3>1, HostAnswerKept
  <2>3. CASE Goto(h, "check") /\ UNCHANGED reply
    <3>1. Others(h) /\ host'[h].cmd = host[h].cmd
      BY <2>3, <1>a, GotoMoves DEF Locked, Submitting
    <3> QED BY <2>1, <2>3, <3>1, HostCallKept DEF CallInv
  <2> QED BY <1>6, <2>2, <2>3 DEF Take
<1>7. CASE Check(h)
  <2>1. UNCHANGED <<command, runs, fate, game>> /\ host[h].pc \in Submitting
    BY <1>7 DEF Check, native, Submitting
  <2>2. CASE reply' = [reply EXCEPT ![host[h].cmd] = GaveUp] /\ Unlock(h, "open")
    <3>1. Others(h) /\ host'[h].pc \notin Submitting
      BY <2>2, <1>a, UnlockMoves DEF Submitting
    <3> QED BY <2>1, <2>2, <3>1, HostAnswerKept
  <2>3. CASE Goto(h, "take") /\ UNCHANGED reply
    <3>1. Others(h) /\ host'[h].cmd = host[h].cmd
      BY <2>3, <1>a, GotoMoves DEF Locked, Submitting
    <3> QED BY <2>1, <2>3, <3>1, HostCallKept DEF CallInv
  <2>4. CASE Unlock(h, "open") /\ UNCHANGED reply
    <3>1. Others(h) /\ host'[h].pc \notin Submitting
      BY <2>4, <1>a, UnlockMoves DEF Submitting
    <3> QED BY <2>1, <2>4, <3>1, HostCallKept
  <2> QED BY <1>7, <2>2, <2>3, <2>4 DEF Check
<1> QED BY <1>1, <1>2, <1>3, <1>4, <1>5, <1>6, <1>7 DEF HostStep

\* The game thread: an execution has an outcome when the thread lets go of it.
LEMMA GameCall ==
  ASSUME ChannelInv, CallInv, GameStep
  PROVE  CallInv'
<1>1. UNCHANGED <<command, reply, host>>
  BY DEF GameStep, TakeCommand, Time, Look, Match, Return, drain, hosts
<1>2. /\ runs \in [Ids -> Nat] /\ fate \in [Ids -> Outcomes \cup {"none"}]
      /\ game \in Threads
  BY DEF ChannelInv, TypeOK, NativeOK
<1>3. ASSUME NEW i \in Ids, runs'[i] = 1, fate'[i] = "none"
      PROVE  game'.pc = "call" /\ game'.cmd = i
  <2>1. CASE TakeCommand
    BY <1>3, <2>1 DEF TakeCommand, CallInv
  <2>2. CASE Time \/ Look \/ Match
    <3>1. game.pc # "call" /\ fate' = fate /\ (UNCHANGED runs \/ Execute)
      BY <2>2 DEF Time, Look, Match, Proceed, Deny
    <3>2. CASE UNCHANGED runs
      BY <1>3, <3>1, <3>2 DEF CallInv
    <3>3. CASE Execute
      BY <1>2, <1>3, <3>1, <3>3 DEF CallInv, Execute, Threads
    <3> QED BY <3>1, <3>2, <3>3
  <2>3. CASE Return
    <3>1. PICK outcome \in Outcomes : fate' = [fate EXCEPT ![game.cmd] = outcome]
      BY <2>3 DEF Return
    <3>2. outcome # "none" /\ runs' = runs
      BY <2>3 DEF Outcomes, Return
    <3> QED BY <1>2, <1>3, <3>1, <3>2 DEF CallInv
  <2> QED BY <2>1, <2>2, <2>3 DEF GameStep
<1> QED BY <1>1, <1>3 DEF CallInv

LEMMA CallNext ==
  ASSUME ChannelInv, CallInv, [Next]_vars
  PROVE  CallInv'
<1>1. CASE Tick \/ WorkerStep \/ UNCHANGED vars
  BY <1>1 DEF Tick, WorkerStep, Drain, Finish, Advance, Gate, Read, Capture, Skip, hosts,
              vars, native, CallInv
<1> QED BY <1>1, HostCall, GameCall DEF Next

LEMMA CallInitially == Init => CallInv
  BY DEF Init, CallInv, Submitting, Idle

\* The steps of a host as steps of its call.
LEMMA HostRefines ==
  ASSUME ChannelInv, CallInv, NEW h \in Hosts, HostStep(h)
  PROVE  [Call!Next]_(Call!vars)
<1> USE DEF Call!vars
<1>a. /\ command \in [Ids -> Command \cup {NoCommand}] /\ reply \in [Ids -> Replies]
      /\ fate \in [Ids -> Outcomes \cup {"none"}] /\ runs \in [Ids -> Nat] /\ host \in [Hosts -> Transports]
  BY DEF ChannelInv, TypeOK, HostsOK, NativeOK
<1>b. UNCHANGED <<runs, fate>>
  BY DEF HostStep, native, CloseBusy, Claim, ClaimGeneration, ClaimBeat, ClaimPid, Renew,
         Close, CloseBeat, Submit, Fill, Commit, Publish, Take, Check, Die
<1>1. CASE UNCHANGED <<command, reply>>
  BY <1>1, <1>b DEF Asked, Receipts
<1>2. CASE Submit(h) /\ ~UNCHANGED command
  <2>1. PICK i \in Fresh, kind \in Kinds :
          command' = [command EXCEPT ![i] =
                  [host |-> h, gen |-> host[h].gen, kind |-> kind, created |-> clock,
                   deadline |-> clock + Patience, seq |-> 0]]
    BY <1>2, KindsSent DEF Submit
  <2>2. i \in Ids /\ command[i] = NoCommand
    BY DEF Fresh
  <2>3. command'[i].host = h /\ \A j \in Ids : j # i => command'[j] = command[j]
    BY <1>a, <2>1, <2>2
  <2>4. command'[i] # NoCommand
    BY <2>3, ChannelAssumption DEF NoCommand
  <2>5. i \notin Asked /\ Asked' = Asked \cup {i}
    BY <2>2, <2>3, <2>4 DEF Asked
  <2>6. Call!Ask(i)
    BY <1>2, <1>b, <2>5 DEF Call!Ask, Submit, Receipts
  <2> QED BY <2>2, <2>6 DEF Call!Next
<1>3. CASE Publish(h)
  <2>1. /\ host[h].cmd \in Ids /\ command[host[h].cmd].host = h
        /\ command' = [command EXCEPT ![host[h].cmd].seq = written + 1]
    BY <1>3 DEF Publish, ChannelInv, SubmitInv, Submitting
  <2>2. command[host[h].cmd] \in Command
    BY <1>a, <2>1, ChannelAssumption DEF NoCommand
  <2>3. command'[host[h].cmd].host = h
    BY <1>a, <2>1, <2>2 DEF Command
  <2>4. command'[host[h].cmd] # NoCommand /\ command[host[h].cmd] # NoCommand
    BY <2>1, <2>3, ChannelAssumption DEF NoCommand
  <2>5. Asked' = Asked
    BY <1>a, <2>1, <2>4 DEF Asked
  <2> QED BY <1>3, <1>b, <2>5 DEF Publish, Receipts
<1>4. CASE Take(h) /\ ~UNCHANGED reply
  <2>0. host[h].pc \in Submitting /\ UNCHANGED command
    BY <1>4 DEF Take, Submitting
  <2> DEFINE i == host[h].cmd
  <2>1. i \in Ids /\ i \in Asked /\ reply[i] = NoReply
    BY <2>0, SubmittedAsked DEF CallInv
  <2>2. PICK k \in 1..Len(results) :
          results[k].cmd = i /\ reply' = [reply EXCEPT ![i] = Heard(k)]
    BY <1>4 DEF Take, Answers
  <2>3. Backed(i, results[k].stage, results[k].told) /\ results[k].told \in Outcomes
    BY <2>2, ResultTypes DEF ChannelInv, AnswerInv, TypeOK, Results
  <2>4. runs[i] = 1 => fate[i] # "none"
    BY <2>1, <2>3, TakenUnanswered DEF CallInv, Backed
  <2>5. UNCHANGED Asked
    BY <2>0 DEF Asked
  <2> HIDE DEF i
  <2> DEFINE told == results[k].told
  <2>6. told = IF runs[i] = 0 THEN "refused" ELSE fate[i]
    <3>1. runs[i] \in {0, 1}
      BY <1>a, <2>1 DEF ChannelInv, RunInv
    <3>2. runs[i] = 0 => fate[i] = "none"
      BY <1>a, <2>1 DEF ChannelInv, RunInv
    <3> QED BY <2>3, <2>4, <3>1, <3>2 DEF Backed, Says, Receipt, Outcomes
  <2>7. Receipts' = [Receipts EXCEPT ![i] = told] /\ Receipts[i] = "none"
    <3>1. reply'[i] = Heard(k) /\ \A j \in Ids : j # i => reply'[j] = reply[j]
      BY <1>a, <2>1, <2>2
    <3>2. reply'[i].told = told
      BY <3>1 DEF Heard
    <3>3. Receipts[i] = "none"
      BY <2>1 DEF Receipts, NoReply
    <3> HIDE DEF told
    <3>4. \A j \in Ids : reply'[j].told = IF j = i THEN told ELSE reply[j].told
      BY <3>1, <3>2
    <3>5. Receipts' = [Receipts EXCEPT ![i] = told]
      BY <2>1, <3>4 DEF Receipts
    <3> QED BY <3>3, <3>5
  <2> HIDE DEF told
  <2>8. Call!Answer(i, told)
    BY <1>b, <2>1, <2>5, <2>6, <2>7 DEF Call!Answer
  <2>9. told \in Call!Answers
    BY <2>3 DEF told, Call!Answers, Outcomes
  <2> QED BY <2>1, <2>8, <2>9 DEF Call!Next
<1>5. CASE Check(h) /\ ~UNCHANGED reply
  <2>0. host[h].pc \in Submitting /\ UNCHANGED command
    BY <1>5 DEF Check, Submitting
  <2>1. /\ host[h].cmd \in Ids /\ host[h].cmd \in Asked /\ reply[host[h].cmd] = NoReply
        /\ UNCHANGED Asked
    BY <2>0, SubmittedAsked DEF CallInv, Asked
  <2>2. reply' = [reply EXCEPT ![host[h].cmd] = GaveUp]
    BY <1>5 DEF Check
  <2>3. Receipts' = [Receipts EXCEPT ![host[h].cmd] = "timeout"] /\ Receipts[host[h].cmd] = "none"
    BY <1>a, <2>1, <2>2 DEF Receipts, NoReply, GaveUp
  <2>4. Call!GiveUp(host[h].cmd)
    BY <1>b, <2>1, <2>3 DEF Call!GiveUp
  <2> QED BY <2>1, <2>4 DEF Call!Next
<1>6. UNCHANGED <<command, reply>> \/ Submit(h) \/ Publish(h) \/ Take(h) \/ Check(h)
  BY DEF HostStep, CloseBusy, Claim, ClaimGeneration, ClaimBeat, ClaimPid, Renew, Close,
         CloseBeat, Fill, Commit, Die
<1>7. /\ Submit(h) => UNCHANGED reply
      /\ Take(h) \/ Check(h) => UNCHANGED command
  BY DEF Submit, Take, Check
<1> QED BY <1>1, <1>2, <1>3, <1>4, <1>5, <1>6, <1>7

\* The steps of the game thread as steps of the call it took.
LEMMA GameRefines ==
  ASSUME ChannelInv, CallInv, GameStep
  PROVE  [Call!Next]_(Call!vars)
<1> USE DEF Call!vars
<1>a. runs \in [Ids -> Nat] /\ fate \in [Ids -> Outcomes \cup {"none"}]
  BY DEF ChannelInv, TypeOK, NativeOK
<1>b. UNCHANGED <<command, reply, Asked, Receipts>>
  BY DEF GameStep, TakeCommand, Time, Look, Match, Return, drain, hosts, Asked, Receipts
<1>c. ASSUME game.pc # "idle"
      PROVE  game.cmd \in Ids /\ Call!Open(game.cmd)
  <2>1. game.cmd \in Ids /\ command[game.cmd].seq > read /\ ~Answered(game.cmd)
    BY <1>c, TakenUnanswered
  <2>2. command[game.cmd] # NoCommand
    BY <2>1 DEF NoCommand, ChannelInv, TypeOK, RingOK
  <2>3. Receipts[game.cmd] \notin Call!Answers
    BY <2>1 DEF ChannelInv, AnswerInv, Backed, Told, Receipts, Call!Answers, Outcomes
  <2> QED BY <2>1, <2>2, <2>3 DEF Call!Open, Asked
<1>1. CASE UNCHANGED <<runs, fate>>
  BY <1>1, <1>b
<1>2. CASE (Time \/ Look \/ Match) /\ ~UNCHANGED runs
  <2>1. game.pc \in {"time", "look", "match"} /\ fate' = fate /\ Execute
    BY <1>2 DEF Time, Look, Match, Proceed, Deny
  <2>2. game.cmd \in Ids /\ Call!Open(game.cmd)
    BY <1>c, <2>1
  <2>3. runs[game.cmd] = 0
    BY <2>1, <2>2, TakenUnanswered DEF ChannelInv, RunInv
  <2>4. runs' = [runs EXCEPT ![game.cmd] = 1]
    BY <1>a, <2>1, <2>2, <2>3 DEF Execute
  <2>5. Call!Execute(game.cmd)
    BY <1>b, <2>1, <2>2, <2>3, <2>4 DEF Call!Execute
  <2> QED BY <2>2, <2>5 DEF Call!Next
<1>3. CASE Return
  <2>1. game.pc = "call" /\ runs' = runs
    BY <1>3 DEF Return
  <2>2. PICK outcome \in Outcomes : fate' = [fate EXCEPT ![game.cmd] = outcome]
    BY <1>3 DEF Return
  <2>3. game.cmd \in Ids /\ Call!Open(game.cmd)
    BY <1>c, <2>1
  <2>4. fate[game.cmd] = "none" /\ runs[game.cmd] = 1
    BY <2>1, <2>3, TakenUnanswered DEF ChannelInv, RunInv
  <2>5. Call!Settle(game.cmd, outcome)
    BY <1>b, <2>1, <2>2, <2>3, <2>4 DEF Call!Settle
  <2>6. outcome \in Call!Answers
    BY DEF Call!Answers, Outcomes
  <2> QED BY <2>3, <2>5, <2>6 DEF Call!Next
<1>4. UNCHANGED <<runs, fate>> \/ Time \/ Look \/ Match \/ Return
  BY DEF GameStep, TakeCommand
<1>5. Time \/ Look \/ Match => UNCHANGED fate
  BY DEF Time, Look, Match
<1> QED BY <1>1, <1>2, <1>3, <1>4, <1>5

\* The channel implements the abstract call: at most once executed, at most once answered,
\* the answer true and final.
THEOREM ImplementsNativeCall == Spec => ImplementsCall
<1>1. Init => Call!Init
  BY DEF Init, Call!Init, Asked, Receipts, NoReply
<1>2. ChannelInv /\ CallInv /\ [Next]_vars => [Call!Next]_(Call!vars)
  <2> SUFFICES ASSUME ChannelInv, CallInv, [Next]_vars PROVE [Call!Next]_(Call!vars)
    OBVIOUS
  <2>1. CASE Tick \/ WorkerStep \/ UNCHANGED vars
    <3>1. UNCHANGED <<command, reply, runs, fate>>
      BY <2>1 DEF Tick, WorkerStep, Drain, Finish, Advance, Gate, Read, Capture, Skip,
                  hosts, vars, native
    <3> QED BY <3>1 DEF Call!vars, Asked, Receipts
  <2> QED BY <2>1, HostRefines, GameRefines DEF Next
<1>3. ChannelInv /\ CallInv /\ [Next]_vars => CallInv'
  BY CallNext
<1> QED BY <1>1, <1>2, <1>3, CallInitially, ChannelCorrect, PTL
       DEF Spec, ImplementsCall, Call!Spec
=============================================================================
