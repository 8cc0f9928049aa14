-------------------------- MODULE WorkerServeProofs --------------------------
(***************************************************************************)
(* WorkerServe's safety properties for any set of operations and any       *)
(* number of faults.                                                       *)
(*                                                                         *)
(* ServeInv is inductive.  Its heart is Quiet: from the moment the loop    *)
(* finds preparation handed off until it gives the native resources back,  *)
(* and forever once cleanup stays unproved (blocked), there is no owner    *)
(* and no cycle that would make one.  CleanupInv ties the operations that  *)
(* owe their proof to those stretches.                                     *)
(***************************************************************************)
EXTENDS WorkerServe, FiniteSetTheorems, TLAPS

-----------------------------------------------------------------------------
(* What the moves of the two threads do to their records *)

LEMMA GoMoves ==
  ASSUME LoopOK, NEW p \in MainPlaces, Go(p)
  PROVE  /\ main' \in Mains
         /\ main'.at = p /\ main'.op = main.op /\ main'.got = main.got
  BY DEF LoopOK, Mains, Go

LEMMA AgainForm ==
  /\ Again \in Mains /\ Again.at = "loop"
  /\ [Again EXCEPT !.at = "group"] \in Mains /\ [Again EXCEPT !.at = "group"].at = "group"
  BY DEF Again, Mains, MainPlaces, Results

LEMMA ResultForms ==
  /\ NoResult \in Results
  /\ \A r \in Results : r.confirmed \in BOOLEAN
<1>1. NoResult.confirmed \in BOOLEAN
  BY DEF NoResult
<1>2. \A r \in [state: {"succeeded", "cancelled", "failed"}, confirmed: BOOLEAN] :
        r.confirmed \in BOOLEAN
  OBVIOUS
<1> QED BY <1>1, <1>2 DEF Results

LEMMA LeavesMoves ==
  ASSUME LoopOK, RunnerOK, NEW place \in {"cancel", "join"}, Leaves(place)
  PROVE  /\ stopping' = TRUE /\ tripped' \in BOOLEAN
         /\ main' \in Mains
         /\ main'.at = IF active = None THEN "drain" ELSE place
<1>1. tripped' \in BOOLEAN
  BY Zenon DEF Leaves, RunnerOK
<1>2. (IF active = None THEN "drain" ELSE place) \in MainPlaces
  BY DEF MainPlaces
<1> QED BY <1>1, <1>2, GoMoves DEF Leaves

LEMMA EndsMoves ==
  ASSUME LoopOK, RunnerOK, Ends
  PROVE  /\ stopping' = TRUE /\ tripped' \in BOOLEAN
         /\ main' \in Mains
         /\ main'.at = IF active = None THEN "drain" ELSE "join"
  BY LeavesMoves DEF Ends

LEMMA UpsetMoves ==
  ASSUME RunnerOK, Upset
  PROVE  upsets' \in 0 .. MaxUpsets
  BY ServeAssumption DEF RunnerOK, Upset

LEMMA EnterMoves ==
  ASSUME ServiceOK, EnterCycle
  PROVE  /\ prep' \in Preps
         /\ blocked => inflight' = inflight /\ prep'.at \in {"read", "exited"}
         /\ ~blocked => inflight' = TRUE /\ prep'.at = "work" /\ (handoff => ~prep'.new)
<1>1. CASE blocked
  <2>1. \/ prep' = [prep EXCEPT !.at = "exited"]
        \/ prep' = NewPrep
    BY <1>1 DEF EnterCycle
  <2>2. NewPrep \in Preps /\ NewPrep.at = "read"
    BY DEF NewPrep, Preps, PrepPlaces
  <2>3. prep' \in Preps /\ prep'.at \in {"read", "exited"}
    BY <2>1, <2>2 DEF ServiceOK, Preps, PrepPlaces
  <2> QED BY <1>1, <2>3 DEF EnterCycle
<1>2. CASE ~blocked
  <2> DEFINE n == MayStart(prep.enabled)
  <2>1. n \in BOOLEAN /\ (handoff => ~n)
    BY Zenon DEF MayStart
  <2>2. inflight' = TRUE /\ prep' = [prep EXCEPT !.at = "work", !.stop = stopping, !.new = n]
    BY <1>2 DEF EnterCycle
  <2> HIDE DEF n
  <2> QED BY <1>2, <2>1, <2>2 DEF ServiceOK, Preps, PrepPlaces
<1> QED BY <1>1, <1>2

-----------------------------------------------------------------------------
(* Every step keeps ServeInv *)

LEMMA ReadIntentKeeps ==
  ASSUME ServeInv, ReadIntent("read", "enter")
  PROVE  ServeInv'
<1> USE ServeAssumption DEF ServeInv, TypeOK, files, flags, loop, runner, At
<1>1. FilesOK'
  BY DEF FilesOK, ReadIntent, Latched, Upset
<1>2. ServiceOK'
  BY DEF ServiceOK, Preps, PrepPlaces, ReadIntent, Latched, Upset
<1>3. LoopOK'
  BY DEF LoopOK, ReadIntent
<1>4. RunnerOK'
  BY UpsetMoves DEF RunnerOK, ReadIntent, Latched, Upset
<1>5. PrepInv'
  BY DEF ServiceOK, Preps, PrepInv, InCycle, WithOwner, Quiet, ReadIntent, Latched, Upset
<1>6. LoopInv'
  BY DEF ServiceOK, Preps, PrepInv, Quiet, LoopInv, ReadIntent, Latched, Upset
<1>7. CleanupInv'
  BY DEF LoopOK, RunnerOK, Mains, Results, ServiceOK, Preps, PrepInv, InCycle, WithOwner,
     Quiet, LoopInv, CleanupInv, Ending, NoResult, Go, ReadIntent, Latched, Upset
<1> QED BY <1>1, <1>2, <1>3, <1>4, <1>5, <1>6, <1>7

LEMMA EnterCycleKeeps ==
  ASSUME ServeInv, EnterCycle
  PROVE  ServeInv'
<1> USE ServeAssumption DEF ServeInv, TypeOK, files, flags, loop, runner, At
<1>1. FilesOK'
  BY DEF EnterCycle, FilesOK
<1>2. ServiceOK'
  BY EnterMoves DEF EnterCycle, ServiceOK
<1>3. LoopOK'
  BY DEF EnterCycle, LoopOK
<1>4. RunnerOK'
  BY DEF EnterCycle, RunnerOK
<1>5. PrepInv'
  BY EnterMoves DEF EnterCycle, ServiceOK, Preps, PrepInv, InCycle, WithOwner, Quiet
<1>6. LoopInv'
  BY EnterMoves DEF EnterCycle, ServiceOK, Preps, PrepInv, InCycle, WithOwner, Quiet,
     LoopInv, Ending, Running
<1>7. CleanupInv'
  BY EnterMoves DEF EnterCycle, ServiceOK, Preps, PrepInv, InCycle, WithOwner, Quiet,
     LoopInv, CleanupInv
<1> QED BY <1>1, <1>2, <1>3, <1>4, <1>5, <1>6, <1>7

LEMMA WorkKeeps ==
  ASSUME ServeInv, Work
  PROVE  ServeInv'
<1> USE ServeAssumption DEF ServeInv, TypeOK, files, flags, loop, runner, At
<1>1. FilesOK'
  BY DEF FilesOK, Work
<1>2. ServiceOK'
  BY DEF ServiceOK, Preps, PrepPlaces, Work, Upset
<1>3. LoopOK'
  BY DEF LoopOK, Work
<1>4. RunnerOK'
  BY UpsetMoves DEF RunnerOK, Work, Upset
<1>5. PrepInv'
  BY DEF ServiceOK, Preps, PrepInv, InCycle, WithOwner, Quiet, LoopInv, Work, Upset
<1>6. LoopInv'
  BY DEF ServiceOK, Preps, PrepInv, Quiet, LoopInv, Work, Upset
<1>7. CleanupInv'
  BY DEF ServiceOK, Preps, PrepInv, Quiet, CleanupInv, Work, Upset
<1> QED BY <1>1, <1>2, <1>3, <1>4, <1>5, <1>6, <1>7

LEMMA CreateOwnerKeeps ==
  ASSUME ServeInv, CreateOwner
  PROVE  ServeInv'
<1> USE ServeAssumption DEF ServeInv, TypeOK, files, flags, loop, runner, At
<1>1. FilesOK'
  BY DEF FilesOK, CreateOwner
<1>2. ServiceOK'
  BY DEF ServiceOK, Preps, PrepPlaces, CreateOwner
<1>3. LoopOK'
  BY DEF LoopOK, CreateOwner
<1>4. RunnerOK'
  BY UpsetMoves DEF RunnerOK, CreateOwner
<1>5. PrepInv'
  <2>1. ~blocked /\ ~owner /\ inflight
    BY DEF CreateOwner, PrepInv, Quiet, InCycle
  <2>2. \/ prep'.at = "recheck" /\ owner' = TRUE
        \/ prep'.at = "leave" /\ owner' = owner
    BY DEF CreateOwner, ServiceOK, Preps
  <2> QED BY <2>1, <2>2 DEF CreateOwner, PrepInv, WithOwner
<1>6. LoopInv'
  BY DEF ServiceOK, Preps, PrepInv, Quiet, LoopInv, CreateOwner
<1>7. CleanupInv'
  BY DEF ServiceOK, Preps, PrepInv, Quiet, CleanupInv, CreateOwner
<1> QED BY <1>1, <1>2, <1>3, <1>4, <1>5, <1>6, <1>7

LEMMA RecheckKeeps ==
  ASSUME ServeInv, ReadIntent("recheck", "decide")
  PROVE  ServeInv'
<1> USE ServeAssumption DEF ServeInv, TypeOK, files, flags, loop, runner, At
<1>1. FilesOK'
  BY DEF FilesOK, ReadIntent, Latched, Upset
<1>2. ServiceOK'
  BY DEF ServiceOK, Preps, PrepPlaces, ReadIntent, Latched, Upset
<1>3. LoopOK'
  BY DEF LoopOK, ReadIntent
<1>4. RunnerOK'
  BY UpsetMoves DEF RunnerOK, ReadIntent, Latched, Upset
<1>5. PrepInv'
  BY DEF ServiceOK, Preps, PrepInv, InCycle, WithOwner, Quiet, LoopInv, ReadIntent,
     Latched, Upset
<1>6. LoopInv'
  BY DEF ServiceOK, Preps, PrepInv, Quiet, LoopInv, ReadIntent, Latched, Upset
<1>7. CleanupInv'
  BY DEF LoopOK, RunnerOK, Mains, Results, ServiceOK, Preps, PrepInv, InCycle, WithOwner,
     Quiet, LoopInv, CleanupInv, Ending, NoResult, Go, ReadIntent, Latched, Upset
<1> QED BY <1>1, <1>2, <1>3, <1>4, <1>5, <1>6, <1>7

LEMMA DecideKeeps ==
  ASSUME ServeInv, Decide
  PROVE  ServeInv'
<1> USE ServeAssumption DEF ServeInv, TypeOK, files, flags, loop, runner, At
<1>1. FilesOK'
  BY DEF FilesOK, Decide
<1>2. ServiceOK'
  BY DEF ServiceOK, Preps, PrepPlaces, Decide
<1>3. LoopOK'
  BY DEF LoopOK, Decide
<1>4. RunnerOK'
  BY UpsetMoves DEF RunnerOK, Decide
<1>5. PrepInv'
  BY DEF ServiceOK, Preps, PrepInv, InCycle, WithOwner, Quiet, Decide
<1>6. LoopInv'
  BY DEF ServiceOK, Preps, PrepInv, Quiet, LoopInv, Decide
<1>7. CleanupInv'
  BY DEF ServiceOK, Preps, PrepInv, Quiet, CleanupInv, Decide
<1> QED BY <1>1, <1>2, <1>3, <1>4, <1>5, <1>6, <1>7

LEMMA StepOwnerKeeps ==
  ASSUME ServeInv, StepOwner
  PROVE  ServeInv'
<1> USE ServeAssumption DEF ServeInv, TypeOK, files, flags, loop, runner, At
<1>1. FilesOK'
  BY DEF FilesOK, StepOwner
<1>2. ServiceOK'
  BY DEF ServiceOK, Preps, PrepPlaces, StepOwner, Raise, Upset
<1>3. LoopOK'
  BY DEF LoopOK, StepOwner
<1>4. RunnerOK'
  BY UpsetMoves DEF RunnerOK, StepOwner, Raise, Upset
<1>5. PrepInv'
  BY DEF ServiceOK, Preps, PrepInv, InCycle, WithOwner, Quiet, StepOwner, Raise, Upset
<1>6. LoopInv'
  BY DEF ServiceOK, Preps, PrepInv, Quiet, LoopInv, StepOwner, Raise, Upset
<1>7. CleanupInv'
  BY DEF LoopOK, RunnerOK, Mains, Results, ServiceOK, Preps, PrepInv, InCycle, WithOwner,
     Quiet, LoopInv, CleanupInv, Ending, NoResult, Go, StepOwner, Raise, Upset
<1> QED BY <1>1, <1>2, <1>3, <1>4, <1>5, <1>6, <1>7

LEMMA CloseOwnerKeeps ==
  ASSUME ServeInv, CloseOwner
  PROVE  ServeInv'
<1> USE ServeAssumption DEF ServeInv, TypeOK, files, flags, loop, runner, At
<1>1. FilesOK'
  BY DEF FilesOK, CloseOwner
<1>2. ServiceOK'
  BY DEF ServiceOK, Preps, PrepPlaces, CloseOwner, Raise, Upset
<1>3. LoopOK'
  BY DEF LoopOK, CloseOwner
<1>4. RunnerOK'
  BY UpsetMoves DEF RunnerOK, CloseOwner, Raise, Upset
<1>5. PrepInv'
  BY DEF ServiceOK, Preps, PrepInv, InCycle, WithOwner, Quiet, CloseOwner, Raise, Upset
<1>6. LoopInv'
  BY DEF ServiceOK, Preps, PrepInv, Quiet, LoopInv, CloseOwner, Raise, Upset
<1>7. CleanupInv'
  BY DEF LoopOK, RunnerOK, Mains, Results, ServiceOK, Preps, PrepInv, InCycle, WithOwner,
     Quiet, LoopInv, CleanupInv, Ending, NoResult, Go, CloseOwner, Raise, Upset
<1> QED BY <1>1, <1>2, <1>3, <1>4, <1>5, <1>6, <1>7

LEMMA DisposeOwnerKeeps ==
  ASSUME ServeInv, DisposeOwner
  PROVE  ServeInv'
<1> USE ServeAssumption DEF ServeInv, TypeOK, files, flags, loop, runner, At
<1>1. FilesOK'
  BY DEF FilesOK, DisposeOwner
<1>2. ServiceOK'
  BY DEF ServiceOK, Preps, PrepPlaces, DisposeOwner, Raise, Upset
<1>3. LoopOK'
  BY DEF LoopOK, DisposeOwner
<1>4. RunnerOK'
  BY UpsetMoves DEF RunnerOK, DisposeOwner, Raise, Upset
<1>5. PrepInv'
  BY DEF ServiceOK, Preps, PrepInv, InCycle, WithOwner, Quiet, DisposeOwner, Raise, Upset
<1>6. LoopInv'
  BY DEF LoopOK, RunnerOK, Mains, Results, ServiceOK, Preps, PrepInv, InCycle, WithOwner,
     Quiet, LoopInv, CleanupInv, Ending, Go, DisposeOwner, Raise, Upset
<1>7. CleanupInv'
  BY DEF LoopOK, RunnerOK, Mains, Results, ServiceOK, Preps, PrepInv, InCycle, WithOwner,
     Quiet, LoopInv, CleanupInv, Ending, NoResult, Go, DisposeOwner, Raise, Upset
<1> QED BY <1>1, <1>2, <1>3, <1>4, <1>5, <1>6, <1>7

LEMMA LeaveCycleKeeps ==
  ASSUME ServeInv, LeaveCycle
  PROVE  ServeInv'
<1> USE ServeAssumption DEF ServeInv, TypeOK, files, flags, loop, runner, At
<1>1. FilesOK'
  BY DEF FilesOK, LeaveCycle
<1>2. ServiceOK'
  BY DEF ServiceOK, Preps, PrepPlaces, LeaveCycle, NewPrep
<1>3. LoopOK'
  BY DEF LoopOK, LeaveCycle
<1>4. RunnerOK'
  BY UpsetMoves DEF RunnerOK, LeaveCycle, NewPrep
<1>5. PrepInv'
  BY DEF ServiceOK, Preps, PrepInv, InCycle, WithOwner, Quiet, LeaveCycle, NewPrep
<1>6. LoopInv'
  BY DEF ServiceOK, Preps, PrepInv, Quiet, LoopInv, LeaveCycle, NewPrep
<1>7. CleanupInv'
  BY DEF ServiceOK, Preps, PrepInv, Quiet, CleanupInv, LeaveCycle, NewPrep
<1> QED BY <1>1, <1>2, <1>3, <1>4, <1>5, <1>6, <1>7

LEMMA LoopKeeps ==
  ASSUME ServeInv, Loop
  PROVE  ServeInv'
<1> USE ServeAssumption DEF ServeInv, TypeOK, files, flags, loop, runner, At
<1>1. FilesOK'
  BY DEF Loop, FilesOK
<1>2. ServiceOK'
  <2>1. stopping' \in BOOLEAN
    BY EndsMoves, LeavesMoves DEF Loop, Fails, ServiceOK
  <2>2. allowed' \in BOOLEAN
    BY DEF Loop, ServiceOK, FilesOK
  <2> QED BY <2>1, <2>2 DEF Loop, ServiceOK
<1>3. LoopOK'
  <2>1. "complete" \in MainPlaces
    BY DEF MainPlaces
  <2> QED BY <2>1, GoMoves, EndsMoves, LeavesMoves DEF Loop, Fails, LoopOK
<1>4. RunnerOK'
  BY EndsMoves, LeavesMoves, UpsetMoves DEF Loop, Fails, RunnerOK
<1>5. PrepInv'
  BY DEF Loop, ServiceOK, Preps, PrepInv, InCycle, WithOwner, Quiet
<1>6. LoopInv'
  <2>1. main'.at \in {"complete", "cancel", "join", "drain"}
        /\ (main'.at \in {"cancel", "join"} => active # None)
    BY GoMoves, EndsMoves, LeavesMoves DEF Loop, Fails, MainPlaces
  <2> QED BY <2>1 DEF Loop, LoopInv, Quiet, Ending
<1>7. CleanupInv'
  <2>1. main'.at \in {"complete", "cancel", "join", "drain"}
    BY GoMoves, EndsMoves, LeavesMoves DEF Loop, Fails, MainPlaces
  <2> QED BY <2>1 DEF Loop, CleanupInv, Quiet, Ending
<1> QED BY <1>1, <1>2, <1>3, <1>4, <1>5, <1>6, <1>7

LEMMA CompleteKeeps ==
  ASSUME ServeInv, Complete
  PROVE  ServeInv'
<1> USE ServeAssumption DEF ServeInv, TypeOK, files, flags, loop, runner, At
<1>1. FilesOK'
  BY DEF Complete, FilesOK
<1>2. ServiceOK'
  BY DEF Complete, ServiceOK
<1>3. LoopOK'
  <2>1. CASE thread = "finished"
    <3>1. result \in Results /\ result.confirmed \in BOOLEAN /\ "release" \in MainPlaces
      BY ResultForms DEF RunnerOK, MainPlaces
    <3>2. cleanupOk' = result.confirmed /\ UNCHANGED <<active, waiting>>
          /\ main' = [main EXCEPT !.at = "release", !.got = result]
      BY <2>1 DEF Complete
    <3> QED BY <3>1, <3>2 DEF LoopOK, Mains
  <2>2. CASE thread # "finished"
    <3>1. "group" \in MainPlaces /\ Go("group")
      BY <2>2 DEF Complete, MainPlaces
    <3> QED BY <2>2, <3>1, GoMoves DEF Complete, LoopOK
  <2> QED BY <2>1, <2>2
<1>4. RunnerOK'
  BY DEF Complete, RunnerOK, Results
<1>5. PrepInv'
  BY DEF Complete, ServiceOK, Preps, PrepInv, InCycle, WithOwner, Quiet
<1>6. LoopInv'
  <2>1. CASE thread = "finished"
    <3>1. main'.at = "release" /\ main'.got = result
      BY <2>1 DEF Complete, LoopOK, Mains
    <3>2. result # NoResult
      BY <2>1 DEF Complete, CleanupInv, Ending
    <3> QED BY <2>1, <3>1, <3>2 DEF Complete, LoopInv, Quiet, Ending
  <2>2. CASE thread # "finished"
    <3>1. main'.at = "group"
      BY <2>2, GoMoves DEF Complete, MainPlaces
    <3> QED BY <2>2, <3>1 DEF Complete, LoopInv, Quiet, Ending
  <2> QED BY <2>1, <2>2
<1>7. CleanupInv'
  <2>1. CASE thread = "finished"
    <3>1. main'.at = "release" /\ main'.got = result
      BY <2>1 DEF Complete, LoopOK, Mains
    <3>2. result.confirmed => unresolved = {}
      BY <2>1 DEF Complete, CleanupInv, Ending
    <3> QED BY <2>1, <3>1, <3>2 DEF Complete, CleanupInv, Quiet, Ending
  <2>2. CASE thread # "finished"
    <3>1. main'.at = "group"
      BY <2>2, GoMoves DEF Complete, MainPlaces
    <3> QED BY <2>2, <3>1 DEF Complete, CleanupInv, Quiet, Ending
  <2> QED BY <2>1, <2>2
<1> QED BY <1>1, <1>2, <1>3, <1>4, <1>5, <1>6, <1>7

LEMMA ReleaseKeeps ==
  ASSUME ServeInv, Release
  PROVE  ServeInv'
<1> USE ServeAssumption DEF ServeInv, TypeOK, files, flags, loop, runner, At
<1>1. FilesOK'
  BY DEF Release, FilesOK
<1>2. ServiceOK'
  <2>1. handoff' \in BOOLEAN /\ blocked' \in BOOLEAN
    BY Zenon DEF Release, ReleaseHandoff, ServiceOK
  <2>2. stopping' \in BOOLEAN
    BY EndsMoves DEF Release, ServiceOK
  <2> QED BY <2>1, <2>2 DEF Release, ServiceOK
<1>3. LoopOK'
  <2>1. "receipt" \in MainPlaces
    BY DEF MainPlaces
  <2> QED BY <2>1, GoMoves, EndsMoves DEF Release, LoopOK
<1>4. RunnerOK'
  BY EndsMoves DEF Release, RunnerOK
<1>5. PrepInv'
  <2>1. CASE ~HandedOff
    <3>1. Ends /\ UNCHANGED <<handoff, blocked>>
      BY <2>1 DEF Release, ReleaseHandoff
    <3> QED BY <3>1 DEF Release, PrepInv, InCycle, WithOwner, Quiet
  <2>2. CASE HandedOff
    <3>1. /\ handoff' = ~main.got.confirmed /\ blocked' = (blocked \/ ~main.got.confirmed)
          /\ ~blocked /\ ~owner /\ ~inflight
      BY <2>2 DEF Release, ReleaseHandoff, HandedOff, LoopInv, Ending, NoResult
    <3> QED BY <3>1 DEF Release, PrepInv, InCycle, WithOwner, Quiet
  <2> QED BY <2>1, <2>2
<1>6. LoopInv'
  <2>1. CASE ~HandedOff
    <3>1. Ends /\ UNCHANGED <<handoff, blocked>>
      BY <2>1 DEF Release, ReleaseHandoff
    <3>2. main'.at \in {"join", "drain"} /\ (main'.at = "join" => active # None)
      BY <3>1, EndsMoves
    <3> QED BY <3>1, <3>2 DEF Release, LoopInv, Quiet, Ending
  <2>2. CASE HandedOff
    <3>1. main'.at = "receipt" /\ main'.got = main.got
      BY <2>2, GoMoves DEF Release, MainPlaces
    <3> QED BY <3>1 DEF Release, LoopInv, Quiet, Ending
  <2> QED BY <2>1, <2>2
<1>7. CleanupInv'
  <2>1. CASE ~HandedOff
    <3>1. Ends /\ UNCHANGED <<handoff, blocked>>
      BY <2>1 DEF Release, ReleaseHandoff
    <3>2. main'.at \in {"join", "drain"}
      BY <3>1, EndsMoves
    <3> QED BY <3>1, <3>2 DEF Release, CleanupInv, Quiet, Ending
  <2>2. CASE HandedOff
    <3>1. main'.at = "receipt" /\ thread = "finished" /\ active # None
      BY <2>2, GoMoves DEF Release, MainPlaces, LoopInv
    <3>2. CASE main.got.confirmed
      <4>1. unresolved = {}
        BY <3>2 DEF Release, CleanupInv
      <4> QED BY <3>1, <4>1 DEF Release, CleanupInv, Ending
    <3>3. CASE ~main.got.confirmed
      <4>1. handoff' = TRUE /\ blocked' = TRUE /\ ~owner /\ ~inflight
        BY <2>2, <3>3 DEF Release, ReleaseHandoff, HandedOff
      <4> QED BY <3>1, <4>1 DEF Release, CleanupInv, Quiet, PrepInv, InCycle, Ending
    <3> QED BY <3>2, <3>3
  <2> QED BY <2>1, <2>2
<1> QED BY <1>1, <1>2, <1>3, <1>4, <1>5, <1>6, <1>7

LEMMA ReceiptKeeps ==
  ASSUME ServeInv, Receipt
  PROVE  ServeInv'
<1> USE ServeAssumption DEF ServeInv, TypeOK, files, flags, loop, runner, At
<1>1. FilesOK'
  BY DEF FilesOK, LoopOK, Mains, LoopInv, Results, Receipts, Terminal, NoResult, Receipt,
     Fails, Ends, Leaves, Upset, Again
<1>2. ServiceOK'
  <2>1. stopping' \in BOOLEAN
    BY EndsMoves DEF Receipt, Fails, ServiceOK
  <2> QED BY <2>1 DEF Receipt, ServiceOK
<1>3. LoopOK'
  BY EndsMoves, AgainForm DEF Receipt, Fails, LoopOK
<1>4. RunnerOK'
  BY EndsMoves, UpsetMoves DEF Receipt, Fails, RunnerOK
<1>5. PrepInv'
  BY DEF PrepInv, Quiet, InCycle, Receipt, Fails, Ends, Leaves, Upset, Again
<1>6. LoopInv'
  BY DEF LoopOK, Mains, LoopInv, PrepInv, InCycle, Quiet, Ending, Go, Receipt, Fails, Ends, Leaves,
     Upset, Again
<1>7. CleanupInv'
  BY DEF LoopOK, Mains, CleanupInv, LoopInv, PrepInv, InCycle, Quiet, Ending, Go, Receipt,
     Fails, Ends, Leaves, Upset, Again
<1> QED BY <1>1, <1>2, <1>3, <1>4, <1>5, <1>6, <1>7

LEMMA GroupPollKeeps ==
  ASSUME ServeInv, GroupPoll
  PROVE  ServeInv'
<1> USE ServeAssumption DEF ServeInv, TypeOK, files, flags, loop, runner, At
<1>1. FilesOK'
  BY DEF FilesOK, LoopOK, Mains, LoopInv, Results, Receipts, Terminal, NoResult, GroupPoll,
     Ready
<1>2. ServiceOK'
  <2>1. handoff' \in BOOLEAN
    BY DEF GroupPoll, ServiceOK
  <2> QED BY <2>1 DEF GroupPoll, ServiceOK
<1>3. LoopOK'
  BY DEF LoopOK, Mains, MainPlaces, Go, GroupPoll, Ready
<1>4. RunnerOK'
  BY UpsetMoves DEF RunnerOK, GroupPoll, Ready
<1>5. PrepInv'
  BY DEF PrepInv, Quiet, InCycle, GroupPoll, Ready
<1>6. LoopInv'
  BY DEF LoopOK, Mains, LoopInv, PrepInv, InCycle, Quiet, Ending, Go, GroupPoll, Ready
<1>7. CleanupInv'
  BY DEF LoopOK, Mains, CleanupInv, LoopInv, PrepInv, InCycle, Quiet, Ending, Go,
     GroupPoll, Ready
<1> QED BY <1>1, <1>2, <1>3, <1>4, <1>5, <1>6, <1>7

LEMMA StartKeeps ==
  ASSUME ServeInv, Start
  PROVE  ServeInv'
<1> USE ServeAssumption DEF ServeInv, TypeOK, files, flags, loop, runner, At
<1>1. FilesOK'
  BY DEF FilesOK, Start, Again, Latched, First, Pending
<1>2. ServiceOK'
  BY DEF Start, ServiceOK
<1>3. LoopOK'
  <2>1. main' \in Mains
    BY AgainForm, GoMoves DEF Start, First, Pending, LoopOK, Mains, MainPlaces
  <2> QED BY <2>1 DEF Start, LoopOK
<1>4. RunnerOK'
  BY UpsetMoves DEF RunnerOK, Start, Again, Latched, First, Pending
<1>5. PrepInv'
  BY DEF PrepInv, Quiet, InCycle, Start, Again, Latched, First, Pending
<1>6. LoopInv'
  <2>1. main'.at \in {"loop", "handoff"} /\ (main'.at = "handoff" => active = None)
    BY AgainForm DEF Start, Go, LoopOK, Mains
  <2> QED BY <2>1 DEF Start, LoopInv, Quiet, Ending
<1>7. CleanupInv'
  <2>1. main'.at \in {"loop", "handoff"}
    BY AgainForm DEF Start, Go, LoopOK, Mains
  <2> QED BY <2>1 DEF Start, CleanupInv, Quiet, Ending
<1> QED BY <1>1, <1>2, <1>3, <1>4, <1>5, <1>6, <1>7

LEMMA HandoffKeeps ==
  ASSUME ServeInv, Handoff
  PROVE  ServeInv'
<1> USE ServeAssumption DEF ServeInv, TypeOK, files, flags, loop, runner, At
<1>1. FilesOK'
  BY DEF FilesOK, Handoff, Ready, Again
<1>2. ServiceOK'
  BY DEF ServiceOK, Handoff, Ready, Again
<1>3. LoopOK'
  BY DEF LoopOK, RunnerOK, Mains, MainPlaces, Results, NoResult, Go, Handoff, Ready, Again
<1>4. RunnerOK'
  BY UpsetMoves DEF RunnerOK, Handoff, Ready, Again
<1>5. PrepInv'
  BY DEF PrepInv, Quiet, InCycle, Handoff, Ready, Again
<1>6. LoopInv'
  BY DEF LoopOK, Mains, LoopInv, PrepInv, InCycle, Quiet, Ending, Go, Handoff, Ready, Again
<1>7. CleanupInv'
  BY DEF LoopOK, Mains, CleanupInv, LoopInv, PrepInv, InCycle, Quiet, Ending, Go, Handoff,
     Ready, Again
<1> QED BY <1>1, <1>2, <1>3, <1>4, <1>5, <1>6, <1>7

LEMMA GiveBackKeeps ==
  ASSUME ServeInv, GiveBack
  PROVE  ServeInv'
<1> USE ServeAssumption DEF ServeInv, TypeOK, files, flags, loop, runner, At
<1>1. FilesOK'
  BY DEF GiveBack, FilesOK
<1>2. ServiceOK'
  <2>1. handoff' \in BOOLEAN /\ blocked' \in BOOLEAN
    BY Zenon DEF GiveBack, ReleaseHandoff, ServiceOK
  <2>2. stopping' \in BOOLEAN
    BY EndsMoves DEF GiveBack, ServiceOK
  <2> QED BY <2>1, <2>2 DEF GiveBack, ServiceOK
<1>3. LoopOK'
  BY AgainForm, EndsMoves DEF GiveBack, LoopOK
<1>4. RunnerOK'
  BY EndsMoves DEF GiveBack, RunnerOK
<1>5. PrepInv'
  <2>1. CASE ~HandedOff
    <3>1. Ends /\ UNCHANGED <<handoff, blocked>>
      BY <2>1 DEF GiveBack, ReleaseHandoff
    <3> QED BY <3>1 DEF GiveBack, PrepInv, InCycle, WithOwner, Quiet
  <2>2. CASE HandedOff
    <3>1. ~blocked /\ active = None /\ unresolved = {} /\ thread = "none"
      BY DEF GiveBack, LoopInv, CleanupInv
    <3>2. handoff' = FALSE /\ blocked' = FALSE /\ main'.at = "loop"
      BY <2>2, <3>1, AgainForm DEF GiveBack, ReleaseHandoff
    <3> QED BY <3>1, <3>2 DEF GiveBack, PrepInv, InCycle, WithOwner, Quiet
  <2> QED BY <2>1, <2>2
<1>6. LoopInv'
  <2>1. CASE ~HandedOff
    <3>1. Ends /\ UNCHANGED <<handoff, blocked>>
      BY <2>1 DEF GiveBack, ReleaseHandoff
    <3>2. main'.at \in {"join", "drain"} /\ (main'.at = "join" => active # None)
      BY <3>1, EndsMoves
    <3> QED BY <3>1, <3>2 DEF GiveBack, LoopInv, Quiet, Ending
  <2>2. CASE HandedOff
    <3>1. ~blocked /\ active = None /\ unresolved = {} /\ thread = "none"
      BY DEF GiveBack, LoopInv, CleanupInv
    <3>2. handoff' = FALSE /\ blocked' = FALSE /\ main'.at = "loop"
      BY <2>2, <3>1, AgainForm DEF GiveBack, ReleaseHandoff
    <3> QED BY <3>1, <3>2 DEF GiveBack, LoopInv
  <2> QED BY <2>1, <2>2
<1>7. CleanupInv'
  <2>1. CASE ~HandedOff
    <3>1. Ends /\ UNCHANGED <<handoff, blocked>>
      BY <2>1 DEF GiveBack, ReleaseHandoff
    <3>2. main'.at \in {"join", "drain"}
      BY <3>1, EndsMoves
    <3> QED BY <3>1, <3>2 DEF GiveBack, CleanupInv, Quiet, Ending
  <2>2. CASE HandedOff
    <3>1. ~blocked /\ active = None /\ unresolved = {} /\ thread = "none"
      BY DEF GiveBack, LoopInv, CleanupInv
    <3>2. handoff' = FALSE /\ blocked' = FALSE /\ main'.at = "loop"
      BY <2>2, <3>1, AgainForm DEF GiveBack, ReleaseHandoff
    <3> QED BY <3>1, <3>2 DEF GiveBack, CleanupInv
  <2> QED BY <2>1, <2>2
<1> QED BY <1>1, <1>2, <1>3, <1>4, <1>5, <1>6, <1>7

LEMMA ClaimKeeps ==
  ASSUME ServeInv, Claim
  PROVE  ServeInv'
<1> USE ServeAssumption DEF ServeInv, TypeOK, files, flags, loop, runner, At
<1>1. FilesOK'
  BY DEF FilesOK, LoopOK, Mains, LoopInv, Results, Receipts, Terminal, NoResult, Claim,
     Fails, Ends, Leaves, Upset, Again
<1>2. ServiceOK'
  <2>1. stopping' \in BOOLEAN
    BY EndsMoves DEF Claim, Fails, ServiceOK
  <2> QED BY <2>1 DEF Claim, ServiceOK
<1>3. LoopOK'
  BY DEF LoopOK, RunnerOK, Mains, MainPlaces, Results, NoResult, Go, Claim, Fails, Ends, Leaves,
     Upset, Again
<1>4. RunnerOK'
  BY EndsMoves, UpsetMoves DEF Claim, Fails, RunnerOK, LoopOK, LoopInv, Mains
<1>5. PrepInv'
  BY DEF PrepInv, Quiet, InCycle, Claim, Fails, Ends, Leaves, Upset, Again
<1>6. LoopInv'
  BY DEF LoopOK, Mains, LoopInv, PrepInv, InCycle, Quiet, Ending, Go, Claim, Fails, Ends, Leaves,
     Upset, Again
<1>7. CleanupInv'
  BY DEF LoopOK, Mains, CleanupInv, LoopInv, PrepInv, InCycle, Quiet, Ending, Go, Claim,
     Fails, Ends, Leaves, Upset, Again
<1> QED BY <1>1, <1>2, <1>3, <1>4, <1>5, <1>6, <1>7

LEMMA SpawnKeeps ==
  ASSUME ServeInv, Spawn
  PROVE  ServeInv'
<1> USE ServeAssumption DEF ServeInv, TypeOK, files, flags, loop, runner, At
<1>1. FilesOK'
  BY DEF FilesOK, LoopOK, Mains, LoopInv, Results, Receipts, Terminal, NoResult, Spawn,
     Again, MustStop, Upset, Fails, Ends, Leaves, Go
<1>2. ServiceOK'
  BY EndsMoves DEF ServiceOK, Spawn, Fails
<1>8. /\ main.at = "spawn" /\ active = None /\ thread = "none" /\ main.op \in Ops
      /\ main.op # None /\ ~blocked /\ Quiet /\ unresolved = {} /\ main' \in Mains
      /\ \/ main'.at = "loop" /\ active' = main.op /\ thread' = "running"
            /\ unresolved' \subseteq {main.op}
         \/ main'.at \in {"loop", "drain"} /\ active' = None /\ thread' = "none"
            /\ unresolved' = {}
  BY EndsMoves, AgainForm DEF Spawn, Fails, LoopInv, CleanupInv, LoopOK, Mains
<1>9. UNCHANGED <<prep, owner, handoff, blocked, inflight>>
  BY DEF Spawn
<1>3. LoopOK'
  BY <1>8 DEF LoopOK, Spawn
<1>4. RunnerOK'
  <2>1. tripped' \in BOOLEAN
    BY Zenon, EndsMoves DEF Spawn, MustStop, RunnerOK, Fails
  <2>2. unresolved' \subseteq Ops
    BY DEF Spawn, RunnerOK, LoopOK, Mains, LoopInv
  <2> QED BY <2>1, <2>2, UpsetMoves DEF Spawn, RunnerOK, Results, Fails, LoopOK, Mains, LoopInv
<1>5. PrepInv'
  BY <1>9 DEF PrepInv, Quiet
<1>6. LoopInv'
  BY <1>8, <1>9 DEF LoopInv, Quiet
<1>7. CleanupInv'
  BY <1>8, <1>9 DEF CleanupInv, Quiet
<1> QED BY <1>1, <1>2, <1>3, <1>4, <1>5, <1>6, <1>7

LEMMA JoinKeeps ==
  ASSUME ServeInv, Join
  PROVE  ServeInv'
<1> USE ServeAssumption DEF ServeInv, TypeOK, files, flags, loop, runner, At
<1>1. active \in Ops /\ main'.at \in {"join", "drain"} /\ main' \in Mains
  BY DEF Join, LoopInv, LoopOK, Mains, MainPlaces, Go
<1>2. FilesOK'
  <2>1. Cancelled \in [Ops -> Receipts]
    BY DEF Cancelled, FilesOK, Receipts, Terminal
  <2> QED BY <2>1 DEF Join, FilesOK
<1>3. ServiceOK' /\ LoopOK'
  BY <1>1 DEF ServiceOK, LoopOK, Join
<1>4. RunnerOK'
  <2>1. result' \in Results
    BY ResultForms DEF RunnerOK, Join
  <2>2. lost' \subseteq Ops \cup {None}
    BY <1>1 DEF RunnerOK, Join
  <2> QED BY <2>1, <2>2, UpsetMoves DEF RunnerOK, Join
<1>5. PrepInv'
  BY DEF PrepInv, Quiet, Join
<1>6. LoopInv'
  BY <1>1 DEF LoopInv, Quiet, Ending, Join
<1>7. CleanupInv'
  BY <1>1 DEF CleanupInv, LoopInv, Quiet, Ending, Join
<1> QED BY <1>2, <1>3, <1>4, <1>5, <1>6, <1>7

LEMMA DrainKeeps ==
  ASSUME ServeInv, Drain
  PROVE  ServeInv'
<1> USE ServeAssumption DEF ServeInv, TypeOK, files, flags, loop, runner, At
<1>1. /\ main.at = "drain" /\ main' \in Mains
      /\ \/ main'.at = "drain" /\ lost' = lost
         \/ main'.at = "exited" /\ (prep.at = "exited" \/ None \in lost')
  BY DEF Drain, LoopOK, Mains, MainPlaces, Go
<1>2. FilesOK'
  BY DEF FilesOK, Drain
<1>3. ServiceOK' /\ LoopOK'
  BY <1>1 DEF ServiceOK, LoopOK, Drain
<1>4. RunnerOK'
  BY UpsetMoves DEF RunnerOK, Drain
<1>5. PrepInv'
  BY DEF PrepInv, Quiet, Drain
<1>6. LoopInv'
  BY <1>1 DEF LoopInv, Quiet, Ending, Drain
<1>7. CleanupInv'
  BY <1>1 DEF CleanupInv, LoopInv, Quiet, Ending, Drain
<1> QED BY <1>2, <1>3, <1>4, <1>5, <1>6, <1>7

LEMMA FinishKeeps ==
  ASSUME ServeInv, FinishOperation
  PROVE  ServeInv'
<1> USE ServeAssumption DEF ServeInv, TypeOK, files, flags, loop, runner, At
<1>1. FilesOK'
  BY DEF FilesOK, FinishOperation, Running
<1>2. ServiceOK'
  BY DEF ServiceOK, FinishOperation, Running
<1>3. LoopOK'
  BY DEF LoopOK, Mains, MainPlaces, Go, FinishOperation, Running
<1>4. RunnerOK'
  BY UpsetMoves DEF RunnerOK, FinishOperation, Running
<1>5. PrepInv'
  BY DEF PrepInv, Quiet, InCycle, FinishOperation, Running
<1>6. LoopInv'
  BY DEF LoopOK, Mains, LoopInv, PrepInv, InCycle, Quiet, Ending, Go, FinishOperation,
     Running
<1>7. CleanupInv'
  BY DEF LoopOK, Mains, CleanupInv, LoopInv, PrepInv, InCycle, Quiet, Ending, Go,
     FinishOperation, Running
<1> QED BY <1>1, <1>2, <1>3, <1>4, <1>5, <1>6, <1>7

LEMMA ObserveKeeps ==
  ASSUME ServeInv, Observe
  PROVE  ServeInv'
<1> USE ServeAssumption DEF ServeInv, TypeOK, files, flags, loop, runner, At
<1>1. FilesOK'
  BY DEF FilesOK, Observe, Trip, Upset
<1>2. ServiceOK'
  BY DEF ServiceOK, Observe, Trip, Upset
<1>3. LoopOK'
  BY DEF LoopOK, Mains, MainPlaces, Go, Observe, Trip, Upset
<1>4. RunnerOK'
  BY UpsetMoves DEF RunnerOK, Observe, Trip, Upset
<1>5. PrepInv'
  BY DEF PrepInv, Quiet, InCycle, Observe, Trip, Upset
<1>6. LoopInv'
  BY DEF LoopOK, Mains, LoopInv, PrepInv, InCycle, Quiet, Ending, Go, Observe, Trip, Upset
<1>7. CleanupInv'
  BY DEF LoopOK, Mains, CleanupInv, LoopInv, PrepInv, InCycle, Quiet, Ending, Go, Observe,
     Trip, Upset
<1> QED BY <1>1, <1>2, <1>3, <1>4, <1>5, <1>6, <1>7

\* The manager, the group observer and the end touch nothing the threads keep.
LEMMA OutsideKeeps ==
  ASSUME ServeInv,
         \/ \E o \in Ops : Submit(o) \/ Expire(o)
         \/ SetEnabled \/ ChangePermit \/ RequestWorkerStop
         \/ \E g \in GroupOps : HearCommand(g)
         \/ UNCHANGED vars
  PROVE  ServeInv'
<1> USE ServeAssumption DEF ServeInv, TypeOK, files, flags, loop, runner
<1>1. UNCHANGED <<flags, prep, loop, runner, lost>>
  BY DEF Submit, Expire, SetEnabled, ChangePermit, RequestWorkerStop, HearCommand, vars
<1>2. upsets' \in 0 .. MaxUpsets
  BY UpsetMoves
  DEF Submit, Expire, SetEnabled, ChangePermit, RequestWorkerStop, HearCommand, vars,
  RunnerOK
<1>3. FilesOK'
  <2>1. ASSUME NEW o \in Ops, Submit(o) PROVE FilesOK'
    <3>1. enabled' \in BOOLEAN
      BY <2>1, Zenon DEF Submit
    <3> QED BY <2>1, <3>1 DEF Submit, FilesOK, Receipts
  <2>2. ASSUME NEW o \in Ops, Expire(o) PROVE FilesOK'
    BY <2>2 DEF Expire, FilesOK, Receipts, Terminal
  <2>3. CASE SetEnabled
    <3>1. enabled' \in BOOLEAN
      BY <2>3, Zenon DEF SetEnabled
    <3>2. superseded' \subseteq Stops
      BY <2>3 DEF SetEnabled, FilesOK
    <3> QED BY <2>3, <3>1, <3>2 DEF SetEnabled, FilesOK
  <2>4. CASE ChangePermit
    <3>1. permit' \in BOOLEAN
      BY <2>4, Zenon DEF ChangePermit
    <3> QED BY <2>4, <3>1 DEF ChangePermit, FilesOK
  <2>5. CASE RequestWorkerStop
    BY <2>5 DEF RequestWorkerStop, FilesOK
  <2>6. ASSUME NEW g \in GroupOps, HearCommand(g) PROVE FilesOK'
    BY <2>6 DEF HearCommand, FilesOK
  <2>7. CASE UNCHANGED vars
    BY <2>7 DEF vars, FilesOK
  <2> QED BY <2>1, <2>2, <2>3, <2>4, <2>5, <2>6, <2>7
<1>4. ServiceOK' /\ LoopOK' /\ RunnerOK'
  BY <1>1, <1>2 DEF ServiceOK, LoopOK, RunnerOK
<1>5. PrepInv'
  BY <1>1 DEF PrepInv, Quiet
<1>6. LoopInv'
  BY <1>1 DEF LoopInv, Quiet
<1>7. CleanupInv'
  BY <1>1 DEF CleanupInv, Quiet
<1> QED BY <1>3, <1>4, <1>5, <1>6, <1>7

LEMMA ServeInitially == Init => ServeInv
<1> SUFFICES ASSUME Init PROVE ServeInv
  OBVIOUS
<1> USE ServeAssumption DEF Init
<1>1. FilesOK
  BY DEF FilesOK, Receipts
<1>2. ServiceOK
  BY DEF ServiceOK, NewPrep, Preps, PrepPlaces
<1>3. LoopOK /\ main.at = "loop"
  BY AgainForm DEF LoopOK
<1>4. RunnerOK
  <2>1. 0 \in 0 .. MaxUpsets
    OBVIOUS
  <2> QED BY <2>1, ResultForms DEF RunnerOK
<1>5. PrepInv
  BY DEF PrepInv, InCycle, WithOwner, NewPrep
<1>6. LoopInv
  BY <1>3 DEF LoopInv
<1>7. CleanupInv
  BY <1>3 DEF CleanupInv
<1> QED BY <1>1, <1>2, <1>3, <1>4, <1>5, <1>6, <1>7 DEF ServeInv, TypeOK

LEMMA ServeStep == ServeInv /\ [Next]_vars => ServeInv'
<1> SUFFICES ASSUME ServeInv, [Next]_vars PROVE ServeInv'
  OBVIOUS
<1>1. CASE PrepStep
  BY <1>1, ReadIntentKeeps, EnterCycleKeeps, WorkKeeps, CreateOwnerKeeps, RecheckKeeps,
     DecideKeeps, StepOwnerKeeps, CloseOwnerKeeps, DisposeOwnerKeeps, LeaveCycleKeeps
  DEF PrepStep
<1>2. CASE MainStep
  BY <1>2, LoopKeeps, CompleteKeeps, ReleaseKeeps, ReceiptKeeps, GroupPollKeeps, StartKeeps,
     HandoffKeeps, GiveBackKeeps, ClaimKeeps, SpawnKeeps, JoinKeeps, DrainKeeps
  DEF MainStep
<1>3. CASE FinishOperation \/ Observe
  BY <1>3, FinishKeeps, ObserveKeeps
<1> QED BY <1>1, <1>2, <1>3, OutsideKeeps DEF Next, Terminated

-----------------------------------------------------------------------------
(* Theorems *)

(***************************************************************************)
(* The inductive invariant, and with it the types of all state, hold for   *)
(* every set of operations and every number of raising calls.              *)
(***************************************************************************)
THEOREM ServeCorrect == Spec => []ServeInv
  BY ServeInitially, ServeStep, PTL DEF Spec

(***************************************************************************)
(* Every state of the worker is well typed: no receipt is published from a *)
(* result that was never taken (_complete_active_operation).               *)
(***************************************************************************)
THEOREM ServeTypes == Spec => []TypeOK
<1>1. ServeInv => TypeOK
  BY DEF ServeInv
<1> QED BY <1>1, ServeCorrect, PTL

(***************************************************************************)
(* The native resources of the game have one holder: never two operations, *)
(* never an operation that owes its cleanup and a preparation owner.  It   *)
(* rests on request_handoff, release_handoff and _cycle reading their      *)
(* flags under one lock.                                                   *)
(***************************************************************************)
THEOREM NativeOwnerIsOne == Spec => []OneNativeOwner
<1>1. ServeInv => OneNativeOwner
  <2> SUFFICES ASSUME ServeInv PROVE OneNativeOwner
    OBVIOUS
  <2>1. unresolved # {} => ~PrepHolds
    BY DEF ServeInv, CleanupInv, Quiet, PrepHolds
  <2>2. Cardinality(unresolved) <= 1
    <3>1. CASE unresolved = {}
      BY <3>1, FS_EmptySet
    <3>2. CASE unresolved # {}
      <4>1. PICK o \in unresolved : TRUE
        BY <3>2
      <4>2. unresolved = {o}
        BY <4>1 DEF ServeInv, CleanupInv
      <4> QED BY <4>2, FS_Singleton
    <3> QED BY <3>1, <3>2
  <2> QED BY <2>1, <2>2 DEF OneNativeOwner
<1> QED BY <1>1, ServeCorrect, PTL

(***************************************************************************)
(* The worker process ends only when the preparation owner was closed with *)
(* proof, or when the heartbeat of the waiting loop itself raised          *)
(* (_stop_preparation), whatever failed before.                            *)
(***************************************************************************)
THEOREM ExitIsClean == Spec => []ExitClosesOwner
<1>1. ServeInv => ExitClosesOwner
  BY DEF ServeInv, LoopInv, PrepInv, ExitClosesOwner, PrepHolds
<1> QED BY <1>1, ServeCorrect, PTL

-----------------------------------------------------------------------------
(***************************************************************************)
(* The threads implement WorkerDuty.  DutyInv says whose receipt is ACTIVE:*)
(* that of the operation about to be spawned, of the active one until the  *)
(* loop has cancelled it, or of the one that a raising call has lost.      *)
(***************************************************************************)
Over == {"drain", "exited"}

\* Steps that publish no receipt and start no operation.
LEMMA DutyMoves ==
  ASSUME DutyInv, UNCHANGED <<inbox, command, active, lost>>,
         upsets' \in Nat, upsets \in Nat, upsets' >= upsets,
         main.at # "spawn", main'.at # "spawn",
         main.at \in Over => main'.at \in Over,
         main.at \in Ending => main'.at \in Ending,
         main'.at \in Over => main.at \in Over \/ active = None
  PROVE  DutyInv'
  BY ServeAssumption DEF DutyInv, Over, Ending

\* The count of raised calls only grows.
LEMMA UpsetsGrow ==
  ASSUME ServeInv, Upset \/ upsets' = upsets
  PROVE  /\ upsets \in Nat /\ upsets' \in Nat /\ upsets' >= upsets
         /\ Upset => upsets' > 0
  BY ServeAssumption DEF ServeInv, TypeOK, RunnerOK, Upset

\* The serve loop between operations.
LEMMA LoopDuty ==
  ASSUME ServeInv, DutyInv,
         Loop \/ Complete \/ Release \/ Start \/ Handoff \/ GiveBack
  PROVE  DutyInv'
<1> USE DEF ServeInv, TypeOK, files, flags, loop, runner, At
<1>1. UNCHANGED <<inbox, command, active, lost>>
  BY DEF Loop, Complete, Release, Start, Handoff, GiveBack
<1>2. main.at # "spawn" /\ main.at \notin Over /\ main.at \notin Ending
  BY DEF Loop, Complete, Release, Start, Handoff, GiveBack, Over, Ending
<1>3. upsets \in Nat /\ upsets' \in Nat /\ upsets' >= upsets
  BY UpsetsGrow DEF Loop, Complete, Release, Start, Handoff, GiveBack, Fails
<1>4. main'.at # "spawn" /\ (main'.at \in Over => active = None)
  <2>1. CASE Ends \/ Leaves("cancel")
    BY <2>1, EndsMoves, LeavesMoves DEF Over
  <2>2. CASE main' = Again
    BY <2>2, AgainForm DEF Over
  <2>3. main \in Mains
    BY DEF LoopOK
  <2>4. CASE Loop /\ ~Ends /\ ~Leaves("cancel")
    <3>1. Go("complete")
      BY <2>4 DEF Loop, Fails
    <3> QED BY <3>1, GoMoves DEF MainPlaces, Over
  <2>5. CASE Complete
    <3>1. main'.at \in {"release", "group"}
      BY <2>5, <2>3 DEF Complete, Go, Mains
    <3> QED BY <3>1 DEF Over
  <2>6. CASE Release /\ ~Ends
    <3>1. Go("receipt")
      BY <2>6 DEF Release
    <3> QED BY <3>1, GoMoves DEF MainPlaces, Over
  <2>7. CASE Start /\ main' # Again
    <3>1. main'.at = "handoff"
      BY <2>7, <2>3 DEF Start, Go, Mains
    <3> QED BY <3>1 DEF Over
  <2>8. CASE Handoff /\ main' # Again
    <3>1. main'.at \in {"giveback", "claim"}
      BY <2>8, <2>3 DEF Handoff, Go, Mains
    <3> QED BY <3>1 DEF Over
  <2>9. GiveBack => Ends \/ main' = Again
    BY DEF GiveBack
  <2> QED BY <2>1, <2>2, <2>4, <2>5, <2>6, <2>7, <2>8, <2>9
<1> QED BY <1>1, <1>2, <1>3, <1>4, DutyMoves

\* The waiting for preparation, which may lose it.
LEMMA DrainDuty ==
  ASSUME ServeInv, DutyInv, Drain
  PROVE  DutyInv'
<1> USE DEF ServeInv, TypeOK, At
<1>1. main.at = "drain" /\ main'.at \in {"drain", "exited"}
  BY GoMoves DEF Drain, MainPlaces
<1>2. UNCHANGED <<inbox, command, active>>
  BY DEF Drain, files, loop
<1>3. \/ lost' = lost /\ upsets' = upsets
      \/ lost' = lost \cup {None} /\ upsets' > 0
  BY UpsetsGrow DEF Drain
<1> QED BY <1>1, <1>2, <1>3, ServeAssumption DEF DutyInv, Ending

\* The group command that is taken has no receipt yet.
LEMMA GroupPollDuty ==
  ASSUME ServeInv, DutyInv, GroupPoll
  PROVE  /\ DutyInv'
         /\ inbox' = inbox \/ \E o \in Ops : inbox[o] = "absent"
                                             /\ inbox' = [inbox EXCEPT ![o] = "pending"]
<1> USE DEF ServeInv, TypeOK, At
<1>1. /\ main.at = "group" /\ main'.at = "start"
      /\ UNCHANGED <<active, lost, upsets>> /\ upsets \in Nat
  BY GoMoves, UpsetsGrow DEF GroupPoll, MainPlaces
<1>2. inbox \in [Ops -> Receipts] /\ GroupOps \subseteq Ops
      /\ command \in [GroupOps -> {"none", "pending", "taken"}]
  BY ServeAssumption DEF FilesOK
<1>3. CASE UNCHANGED <<inbox, command>>
  BY <1>1, <1>3, DutyMoves DEF Over, Ending
<1>4. ASSUME NEW g \in GroupOps, command[g] = "pending",
             command' = [command EXCEPT ![g] = "taken"],
             inbox' \in {inbox, [inbox EXCEPT ![g] = "pending"]}
      PROVE  DutyInv' /\ (inbox' = inbox \/ inbox' = [inbox EXCEPT ![g] = "pending"])
             /\ inbox[g] = "absent"
  <2>1. inbox[g] = "absent" /\ g \in Ops /\ g # None
    BY <1>2, <1>4, ServeAssumption DEF DutyInv
  <2>2. \A o \in Ops : inbox'[o] = "active" <=> inbox[o] = "active"
    BY <1>2, <1>4, <2>1
  <2>3. \A f \in GroupOps : command'[f] # "taken" => inbox'[f] = "absent"
    BY <1>2, <1>4, <2>1 DEF DutyInv
  <2>4. active # None => inbox'[active] = "active"
    BY <1>1, <1>2, <2>2 DEF DutyInv, LoopOK, Ending
  <2> QED BY <1>1, <1>4, <2>1, <2>2, <2>3, <2>4 DEF DutyInv
<1>5. \/ UNCHANGED <<inbox, command>>
      \/ \E g \in GroupOps : /\ command[g] = "pending"
                             /\ command' = [command EXCEPT ![g] = "taken"]
                             /\ inbox' \in {inbox, [inbox EXCEPT ![g] = "pending"]}
  BY DEF GroupPoll
<1> QED BY <1>2, <1>3, <1>4, <1>5

\* Claim and Spawn: the operation becomes ACTIVE and then runs.
LEMMA ClaimDuty ==
  ASSUME ServeInv, DutyInv, Claim
  PROVE  /\ DutyInv'
         /\ \A o \in Ops : inbox[o] # "active"
         /\ main.op \in Ops /\ lost = {}
<1> USE DEF ServeInv, TypeOK, At
<1>1. main.at = "claim" /\ active = None /\ main.op \in Ops /\ active' = active
      /\ command' = command /\ main \in Mains
  BY DEF Claim, LoopInv, LoopOK, Mains
<1>2. lost = {} /\ \A o \in Ops : inbox[o] # "active"
  BY <1>1, ServeAssumption DEF DutyInv
<1>3. inbox \in [Ops -> Receipts] /\ GroupOps \subseteq Ops /\ None \notin Ops
  BY ServeAssumption DEF FilesOK
<1>4. CASE inbox[main.op] = "pending" /\ inbox' = [inbox EXCEPT ![main.op] = "active"]
           /\ Go("spawn") /\ lost' = lost
  <2>1. main'.at = "spawn" /\ main'.op = main.op
    BY <1>4, GoMoves DEF MainPlaces
  <2> QED BY <1>1, <1>2, <1>3, <1>4, <2>1 DEF DutyInv
<1>5. CASE inbox[main.op] = "pending" /\ inbox' = [inbox EXCEPT ![main.op] = "rejected"]
           /\ main' = Again /\ lost' = lost
  <2>1. main'.at = "loop"
    BY <1>5, AgainForm
  <2>2. \A o \in Ops : inbox'[o] # "active"
    BY <1>2, <1>3, <1>5
  <2> QED BY <1>1, <1>2, <1>3, <1>5, <2>1, <2>2 DEF DutyInv
<1>6. CASE inbox' = inbox /\ (Ends \/ main' = Again) /\ lost' = lost
  <2>1. main'.at \in {"loop", "drain"}
    BY <1>1, <1>6, AgainForm, EndsMoves
  <2> QED BY <1>1, <1>2, <1>6, <2>1 DEF DutyInv
<1>7. CASE /\ Fails /\ inbox[main.op] = "pending" /\ lost' = lost \cup {main.op}
           /\ inbox' = [inbox EXCEPT ![main.op] = "active"]
  <2>1. main'.at = "drain" /\ upsets' > 0
    BY <1>1, <1>7, EndsMoves, UpsetsGrow DEF Fails
  <2>2. lost' = {main.op} /\ \A o \in Ops : inbox'[o] = "active" => o = main.op
    BY <1>2, <1>3, <1>7
  <2>3. \A g \in GroupOps : command'[g] # "taken" => inbox'[g] = "absent"
    BY <1>1, <1>3, <1>7 DEF DutyInv
  <2>4. \A o \in Ops : inbox'[o] = "active" => o \in lost'
    BY <2>2
  <2>5. \A o, p \in lost' \ {None} : o = p
    BY <2>2
  <2> QED BY <1>1, <1>2, <2>1, <2>3, <2>4, <2>5 DEF DutyInv, Ending
<1>8. DutyInv'
  BY <1>4, <1>5, <1>6, <1>7 DEF Claim, Fails
<1> QED BY <1>1, <1>2, <1>8

LEMMA SpawnDuty ==
  ASSUME ServeInv, DutyInv, Spawn
  PROVE  /\ DutyInv' /\ main.op \in Ops
         /\ inbox[main.op] = "active" /\ lost = {}
<1> USE DEF ServeInv, TypeOK, At
<1>1. main.at = "spawn" /\ main.op \in Ops /\ main.op # None /\ active = None
      /\ command' = command
  BY DEF Spawn, LoopInv, LoopOK, Mains
<1>2. inbox \in [Ops -> Receipts] /\ GroupOps \subseteq Ops /\ None \notin Ops
  BY ServeAssumption DEF FilesOK
<1>3. /\ inbox[main.op] = "active" /\ lost = {}
      /\ \A o \in Ops : inbox[o] = "active" => o = main.op
  BY <1>1, ServeAssumption DEF DutyInv
<1>4. CASE main' = Again /\ active' = main.op /\ inbox' = inbox /\ lost' = lost
  <2>1. main'.at = "loop"
    BY <1>4, AgainForm
  <2> QED BY <1>1, <1>2, <1>3, <1>4, <2>1 DEF DutyInv
<1>5. CASE /\ main' = Again /\ inbox' = [inbox EXCEPT ![main.op] = "failed"]
           /\ active' = active /\ lost' = lost
  <2>1. main'.at = "loop"
    BY <1>5, AgainForm
  <2>2. \A o \in Ops : inbox'[o] # "active"
    BY <1>2, <1>3, <1>5
  <2> QED BY <1>1, <1>2, <1>3, <1>5, <2>1, <2>2 DEF DutyInv
<1>6. CASE Fails /\ lost' = lost \cup {main.op} /\ inbox' = inbox /\ active' = active
  <2>1. main'.at = "drain" /\ upsets' > 0
    BY <1>1, <1>6, EndsMoves, UpsetsGrow DEF Fails
  <2>2. lost' = {main.op}
    BY <1>3, <1>6
  <2> QED BY <1>1, <1>2, <1>3, <1>6, <2>1, <2>2 DEF DutyInv
<1>7. DutyInv'
  BY <1>4, <1>5, <1>6 DEF Spawn, runner
<1> QED BY <1>1, <1>3, <1>7

\* Receipt and Join: the active operation gets its terminal receipt, or it does not.
LEMMA SettleDuty ==
  ASSUME ServeInv, DutyInv, NEW to \in Terminal,
         active \in Ops, main.at \in {"receipt", "cancel", "join"}, inbox[active] = "active",
         inbox' = [inbox EXCEPT ![active] = to], command' = command, lost' = lost,
         \/ active' = None /\ main'.at = "group"
         \/ active' = active /\ main'.at \in {"join", "drain"}
  PROVE  DutyInv'
<1>1. inbox \in [Ops -> Receipts] /\ GroupOps \subseteq Ops /\ None \notin Ops
  BY ServeAssumption DEF ServeInv, TypeOK, FilesOK
<1>2. lost = {} /\ \A o \in Ops : inbox[o] = "active" => o = active
  BY <1>1 DEF DutyInv
<1>3. to # "active"
  BY DEF Terminal
<1>4. \A o \in Ops : inbox'[o] # "active"
  BY <1>1, <1>2, <1>3
<1>5. \A g \in GroupOps : command'[g] # "taken" => inbox'[g] = "absent"
  BY <1>1, <1>2 DEF DutyInv
<1> QED BY <1>2, <1>4, <1>5 DEF DutyInv, Ending

LEMMA ReceiptDuty ==
  ASSUME ServeInv, DutyInv, Receipt
  PROVE  /\ DutyInv' /\ active \in Ops /\ inbox[active] = "active"
         /\ \/ inbox' = inbox
            \/ inbox' = [inbox EXCEPT ![active] = main.got.state]
         /\ main.got.state \in {"succeeded", "cancelled", "failed"}
         /\ lost = {} /\ lost' = lost
<1> USE DEF ServeInv, TypeOK, At
<1>1. main.at = "receipt" /\ active \in Ops /\ UNCHANGED <<command, lost>>
  BY ServeAssumption DEF Receipt, LoopInv, LoopOK
<1>2. main.got.state \in {"succeeded", "cancelled", "failed"}
  BY <1>1 DEF LoopInv, LoopOK, Mains, Results
<1>3. inbox[active] = "active" /\ lost = {}
  BY <1>1, ServeAssumption DEF DutyInv, Ending
<1>4. CASE inbox' = [inbox EXCEPT ![active] = main.got.state] /\ active' = None
           /\ main' = [Again EXCEPT !.at = "group"]
  <2>1. main'.at = "group"
    BY <1>4, AgainForm
  <2> QED BY <1>1, <1>2, <1>3, <1>4, <2>1, SettleDuty DEF Terminal
<1>5. CASE Fails /\ active' = active
           /\ inbox' \in {inbox, [inbox EXCEPT ![active] = main.got.state]}
  <2>1. main'.at = "join"
    BY <1>1, <1>5, EndsMoves, ServeAssumption DEF Fails
  <2>2. upsets \in Nat /\ upsets' \in Nat /\ upsets' >= upsets
    BY <1>5, UpsetsGrow DEF Fails
  <2>3. CASE inbox' = inbox
    BY <1>1, <1>2, <1>3, <1>5, <2>1, <2>2, <2>3, DutyMoves DEF Over, Ending
  <2>4. CASE inbox' = [inbox EXCEPT ![active] = main.got.state]
    BY <1>1, <1>2, <1>3, <1>5, <2>1, <2>4, SettleDuty DEF Terminal
  <2> QED BY <1>5, <2>3, <2>4
<1> QED BY <1>4, <1>5 DEF Receipt

LEMMA JoinDuty ==
  ASSUME ServeInv, DutyInv, Join
  PROVE  /\ DutyInv' /\ active \in Ops /\ lost = {}
         /\ \/ UNCHANGED <<inbox, lost>>
            \/ inbox[active] = "active" /\ inbox' = inbox /\ lost' = {active}
            \/ /\ inbox[active] = "active" /\ lost' = lost
               /\ \E to \in {"cancelled", "failed"} : inbox' = [inbox EXCEPT ![active] = to]
<1> USE DEF ServeInv, TypeOK, At
<1>1. /\ main.at \in {"cancel", "join"} /\ active \in Ops
      /\ UNCHANGED <<command, active>>
      /\ main'.at \in {"join", "drain"} /\ (main'.at = "join" => main.at = "cancel")
  BY DEF Join, LoopInv, LoopOK, Go, Mains, loop
<1>2. inbox \in [Ops -> Receipts] /\ GroupOps \subseteq Ops /\ None \notin Ops
  BY ServeAssumption DEF FilesOK
<1>3. /\ lost = {} /\ \A o \in Ops : inbox[o] = "active" => o = active
  BY <1>1, <1>2 DEF DutyInv
<1>4. PICK to \in {"cancelled", "failed"} : Cancelled = [inbox EXCEPT ![active] = to]
  BY DEF Cancelled
<1>5. CASE inbox[active] = "active" /\ inbox' = Cancelled
  <2>1. inbox'[active] # "active"
    BY <1>1, <1>2, <1>4, <1>5
  <2>2. lost' = lost
    BY <1>5, <2>1 DEF Join
  <2>3. DutyInv'
    BY <1>1, <1>4, <1>5, <2>2, SettleDuty DEF Terminal
  <2> QED BY <1>1, <1>3, <1>4, <1>5, <2>2, <2>3
<1>6. CASE inbox[active] # "active" /\ UNCHANGED <<inbox, lost>>
  <2>1. \A o \in Ops : inbox[o] # "active"
    BY <1>3, <1>6
  <2> QED BY <1>1, <1>3, <1>6, <2>1 DEF DutyInv, Ending
<1>7. CASE inbox[active] = "active" /\ inbox' = inbox /\ Upset
  <2>1. upsets' > 0
    BY <1>7, UpsetsGrow
  <2>2. \/ main.at = "cancel" /\ main'.at = "join" /\ lost' = lost
        \/ main.at = "join" /\ main'.at = "drain" /\ lost' = {active}
    <3>1. Cancelled[active] # "active"
      BY <1>1, <1>2, <1>4
    <3>2. /\ Go(IF main.at = "cancel" THEN "join" ELSE "drain")
          /\ lost' = IF main.at = "join" THEN lost \cup {active} ELSE lost
      BY <1>7, <3>1 DEF Join
    <3>3. CASE main.at = "cancel"
      BY <3>2, <3>3, GoMoves DEF MainPlaces
    <3>4. CASE main.at = "join"
      BY <1>3, <3>2, <3>4, GoMoves DEF MainPlaces
    <3> QED BY <1>1, <3>3, <3>4
  <2>3. DutyInv'
    BY <1>1, <1>3, <1>7, <2>1, <2>2 DEF DutyInv, Ending
  <2> QED BY <1>1, <1>3, <1>7, <2>2, <2>3
<1> QED BY <1>5, <1>6, <1>7 DEF Join

\* Steps of the other threads and of the manager.
LEMMA OtherDuty ==
  ASSUME ServeInv, DutyInv, UNCHANGED <<main, active, lost>>,
         Upset \/ upsets' = upsets,
         \/ UNCHANGED <<inbox, command>>
         \/ \E o \in Ops : Submit(o) \/ Expire(o)
         \/ \E g \in GroupOps : HearCommand(g)
  PROVE  DutyInv'
<1>1. /\ inbox \in [Ops -> Receipts] /\ GroupOps \subseteq Ops /\ None \notin Ops
      /\ command \in [GroupOps -> {"none", "pending", "taken"}]
      /\ active \in Ops \cup {None}
      /\ main.at = "spawn" => main.op \in Ops
      /\ upsets > 0 => upsets' > 0
  BY ServeAssumption, UpsetsGrow DEF ServeInv, TypeOK, FilesOK, LoopOK, Mains, LoopInv
<1>2. ASSUME NEW o \in Ops, inbox[o] \in {"absent", "pending"}, command' = command,
             NEW to \in {"pending", "expired"}, inbox' = [inbox EXCEPT ![o] = to],
             o \in GroupOps => inbox[o] # "absent"
      PROVE  DutyInv'
  <2>1. \A p \in Ops : inbox'[p] = "active" <=> inbox[p] = "active"
    BY <1>1, <1>2
  <2>2. \A g \in GroupOps : command[g] # "taken" => inbox'[g] = "absent"
    BY <1>1, <1>2 DEF DutyInv
  <2> QED BY <1>1, <1>2, <2>1, <2>2 DEF DutyInv
<1>3. ASSUME NEW o \in Ops, Submit(o) \/ Expire(o) PROVE DutyInv'
  BY <1>2, <1>3 DEF Submit, Expire
<1>4. ASSUME NEW g \in GroupOps, HearCommand(g) PROVE DutyInv'
  BY <1>1, <1>4 DEF HearCommand, DutyInv, files
<1>5. CASE UNCHANGED <<inbox, command>>
  BY <1>1, <1>5 DEF DutyInv
<1> QED BY <1>3, <1>4, <1>5

LEMMA DutyStep == ServeInv /\ DutyInv /\ [Next]_vars => DutyInv'
<1> SUFFICES ASSUME ServeInv, DutyInv, [Next]_vars PROVE DutyInv'
  OBVIOUS
<1>1. CASE MainStep
  BY <1>1, LoopDuty, GroupPollDuty, ClaimDuty, SpawnDuty, ReceiptDuty, JoinDuty, DrainDuty
  DEF MainStep
<1>2. CASE PrepStep
  <2>1. UNCHANGED <<inbox, command, main, active, lost>> /\ (Upset \/ upsets' = upsets)
    BY <1>2 DEF PrepStep, ReadIntent, EnterCycle, Work, CreateOwner, Decide, StepOwner,
                CloseOwner, DisposeOwner, LeaveCycle, Raise, files, loop
  <2> QED BY <2>1, OtherDuty
<1>3. CASE FinishOperation \/ Observe \/ SetEnabled \/ ChangePermit \/ RequestWorkerStop
           \/ UNCHANGED vars
  <2>1. UNCHANGED <<inbox, command, main, active, lost>> /\ (Upset \/ upsets' = upsets)
    BY <1>3 DEF FinishOperation, Observe, SetEnabled, ChangePermit, RequestWorkerStop, vars,
                files, loop
  <2> QED BY <2>1, OtherDuty
<1>4. CASE (\E o \in Ops : Submit(o) \/ Expire(o)) \/ (\E g \in GroupOps : HearCommand(g))
  <2>1. UNCHANGED <<main, active, lost, upsets>>
    BY <1>4 DEF Submit, Expire, HearCommand, loop
  <2> QED BY <1>4, <2>1, OtherDuty
<1> QED BY <1>1, <1>2, <1>3, <1>4 DEF Next, Terminated

LEMMA DutyInitially == Init => DutyInv
<1> SUFFICES ASSUME Init PROVE DutyInv
  OBVIOUS
<1>1. main.at = "loop"
  BY AgainForm DEF Init
<1> QED BY <1>1, ServeAssumption DEF Init, DutyInv

\* Who holds native resources, by ServeInv.
LEMMA WhoHolds ==
  ASSUME ServeInv
  PROVE  /\ PrepHolds => unresolved = {} /\ Holders = {None}
         /\ ~PrepHolds => Holders = unresolved
         /\ None \notin unresolved
<1>1. unresolved # {} => ~PrepHolds
  BY DEF ServeInv, CleanupInv, Quiet, PrepHolds
<1>2. None \notin unresolved
  BY ServeAssumption DEF ServeInv, TypeOK, RunnerOK
<1> QED BY <1>1, <1>2 DEF Holders

\* The same of the next state, where only the types are needed.
LEMMA WhoHoldsNext ==
  /\ PrepHolds' /\ unresolved' = {} => Holders' = {None}
  /\ ~PrepHolds' => Holders' = unresolved'
  BY DEF Holders

\* Steps that hold the same and publish nothing.
LEMMA DutyStutters ==
  ASSUME UNCHANGED <<inbox, unresolved, lost>>, PrepHolds' <=> PrepHolds,
         main'.at = "exited" <=> main.at = "exited"
  PROVE  UNCHANGED Duty!vars
<1>1. Holders' = Holders
  BY DEF Holders
<1>2. (main.at = "exited")' = (main.at = "exited")
  OBVIOUS
<1> QED BY <1>1, <1>2 DEF Duty!vars

\* The preparation thread takes the resources, or gives them back, or neither.
LEMMA PrepRefines ==
  ASSUME ServeInv, PrepStep
  PROVE  [Duty!Next]_(Duty!vars)
<1> USE DEF ServeInv, TypeOK
<1>1. UNCHANGED <<inbox, unresolved, main, lost>>
  BY DEF PrepStep, ReadIntent, EnterCycle, Work, CreateOwner, Decide, StepOwner,
         CloseOwner, DisposeOwner, LeaveCycle, files, loop, runner
<1>2. main.at # "exited"
  BY DEF PrepStep, Running
<1>3. CASE PrepHolds' <=> PrepHolds
  BY <1>1, <1>3, DutyStutters
<1>4. CASE PrepHolds /\ ~PrepHolds'
  <2>1. Holders = {None} /\ Holders' = {}
    BY <1>1, <1>4, WhoHolds, WhoHoldsNext
  <2>2. Duty!Close
    BY <1>1, <1>2, <2>1 DEF Duty!Close, Duty!Holds
  <2> QED BY <2>2 DEF Duty!Next
<1>5. CASE ~PrepHolds /\ PrepHolds'
  <2>1. ~owner /\ prep.at # "create" /\ prep \in Preps
    BY <1>5 DEF PrepHolds, ServiceOK
  <2>2. ~owner'
    BY <2>1 DEF PrepStep, ReadIntent, EnterCycle, Work, CreateOwner, Decide, StepOwner,
                CloseOwner, DisposeOwner, LeaveCycle, flags
  <2>3. prep'.at = "create"
    BY <1>5, <2>2 DEF PrepHolds
  <2>4. ~ReadIntent("read", "enter") /\ ~ReadIntent("recheck", "decide")
    BY <2>1, <2>3 DEF ReadIntent, Preps
  <2>5. ~EnterCycle
    BY <2>1, <2>3, EnterMoves
  <2>6. ~Decide /\ ~StepOwner /\ ~CloseOwner /\ ~DisposeOwner /\ ~CreateOwner
    BY <2>1, <2>3 DEF Decide, StepOwner, CloseOwner, DisposeOwner, CreateOwner, Raise, Preps
  <2>7. ~LeaveCycle
    BY <2>1, <2>3 DEF LeaveCycle, NewPrep, Preps
  <2>8. Work
    BY <2>4, <2>5, <2>6, <2>7 DEF PrepStep
  <2>9. prep.at = "work" /\ prep.new
    BY <2>1, <2>3, <2>8 DEF Work, Preps
  <2>10. unresolved = {}
    BY <2>9 DEF CleanupInv, Quiet
  <2>11. Holders = {} /\ Holders' = {None}
    BY <1>1, <1>5, <2>10, WhoHolds, WhoHoldsNext
  <2>12. Duty!Prepare
    BY <1>1, <1>2, <2>11 DEF Duty!Prepare, Duty!Holds
  <2> QED BY <2>12 DEF Duty!Next
<1> QED BY <1>3, <1>4, <1>5

\* A receipt changes, and nobody takes or returns anything.
LEMMA ReceiptRefines ==
  ASSUME NEW o \in Ops, NEW from, NEW to, inbox[o] = from,
         inbox' = [inbox EXCEPT ![o] = to],
         UNCHANGED unresolved, PrepHolds' <=> PrepHolds,
         (main.at # "exited" /\ main'.at # "exited") \/ main' = main
  PROVE  Duty!Receives(o, from, to)
<1>1. Holders' = Holders
  BY DEF Holders
<1>2. (main.at = "exited")' = (main.at = "exited")
  OBVIOUS
<1> QED BY <1>1, <1>2 DEF Duty!Receives

\* The serve loop.
LEMMA MainRefines ==
  ASSUME ServeInv, DutyInv, MainStep
  PROVE  [Duty!Next]_(Duty!vars)
<1> USE DEF ServeInv, TypeOK, At
<1>1. PrepHolds' <=> PrepHolds
  <2>1. UNCHANGED <<owner, prep>>
    BY DEF MainStep, Loop, Complete, Release, Receipt, GroupPoll, Start, Handoff, GiveBack,
           Claim, Spawn, Join, Drain, flags
  <2> QED BY <2>1 DEF PrepHolds
<1>2. main.at # "exited"
  BY DEF MainStep, Loop, Complete, Release, Receipt, GroupPoll, Start, Handoff, GiveBack,
         Claim, Spawn, Join, Drain
<1>3. main'.at = "exited" => Drain
  <2>1. Ends \/ Leaves("cancel") => main'.at # "exited"
    BY EndsMoves, LeavesMoves
  <2>2. Again.at # "exited" /\ [Again EXCEPT !.at = "group"].at # "exited"
    BY AgainForm
  <2>3. main \in Mains
    BY DEF LoopOK
  <2>4. \A p \in MainPlaces : Go(p) => main'.at = p
    BY GoMoves
  <2>5. Loop \/ Release \/ GroupPoll \/ GiveBack => main'.at # "exited"
    BY <2>1, <2>2, <2>4 DEF Loop, Fails, Release, GroupPoll, GiveBack, MainPlaces
  <2>6. Complete \/ Handoff => main'.at # "exited"
    BY <2>2, <2>3 DEF Complete, Handoff, Go, Mains
  <2>7. Start => main'.at # "exited"
    BY <2>2, <2>3 DEF Start, Go, Mains
  <2>8. Claim \/ Spawn \/ Receipt => main'.at # "exited"
    BY <2>1, <2>2, <2>4 DEF Claim, Fails, Spawn, Receipt, MainPlaces
  <2>9. Join => main'.at # "exited"
    BY <2>4 DEF Join, MainPlaces
  <2> QED BY <2>5, <2>6, <2>7, <2>8, <2>9 DEF MainStep
<1>4. CASE UNCHANGED <<inbox, unresolved, lost>> /\ ~Drain
  BY <1>1, <1>2, <1>3, <1>4, DutyStutters
<1>5. CASE GroupPoll
  <2>1. UNCHANGED <<unresolved, lost>> /\ main'.at # "exited"
    BY <1>5, <1>3 DEF GroupPoll, Drain
  <2>2. CASE inbox' = inbox
    BY <1>1, <1>2, <2>1, <2>2, DutyStutters
  <2>3. ASSUME NEW o \in Ops, inbox[o] = "absent", inbox' = [inbox EXCEPT ![o] = "pending"]
        PROVE  [Duty!Next]_(Duty!vars)
    <3>1. Duty!Receives(o, "absent", "pending")
      BY <1>1, <1>2, <2>1, <2>3, ReceiptRefines
    <3> QED BY <2>1, <3>1 DEF Duty!Next, Duty!Give
  <2> QED BY <1>5, <2>2, <2>3, GroupPollDuty
<1>6. CASE Claim
  <2>1. main.at = "claim" /\ active = None /\ ~blocked /\ Quiet
    BY <1>6 DEF Claim, LoopInv
  <2>2. UNCHANGED unresolved /\ main'.at # "exited" /\ ~Drain
    BY <1>6, <1>3, <2>1 DEF Claim, Drain
  <2>3. main.op \in Ops /\ lost = {} /\ \A o \in Ops : inbox[o] # "active"
    BY <1>6, ClaimDuty
  <2>4. Holders = {}
    BY <2>1, WhoHolds DEF CleanupInv, Quiet, PrepHolds
  <2>5. CASE inbox[main.op] = "pending" /\ inbox' = [inbox EXCEPT ![main.op] = "rejected"]
             /\ lost' = lost
    <3>1. Duty!Receives(main.op, "pending", "rejected")
      BY <1>1, <1>2, <2>2, <2>3, <2>5, ReceiptRefines
    <3> QED BY <2>3, <2>5, <3>1 DEF Duty!Next, Duty!Drop
  <2>6. CASE inbox[main.op] = "pending" /\ inbox' = [inbox EXCEPT ![main.op] = "active"]
             /\ lost' \in {lost, lost \cup {main.op}}
    <3>1. Duty!Receives(main.op, "pending", "active")
      BY <1>1, <1>2, <2>2, <2>3, <2>6, ReceiptRefines
    <3>2. Duty!Active = {} /\ lost' \in {{}, {main.op}}
      BY <2>3, <2>6 DEF Duty!Active
    <3>3. Duty!Activate(main.op)
      BY <1>2, <2>3, <2>4, <3>1, <3>2 DEF Duty!Activate
    <3> QED BY <2>3, <3>3 DEF Duty!Next
  <2>7. CASE UNCHANGED <<inbox, lost>>
    BY <1>4, <2>2, <2>7
  <2> QED BY <1>6, <2>5, <2>6, <2>7 DEF Claim
<1>7. CASE Spawn
  <2>1. main.at = "spawn" /\ active = None /\ ~blocked /\ Quiet
    BY <1>7 DEF Spawn, LoopInv
  <2>2. main.op \in Ops /\ inbox[main.op] = "active" /\ lost = {}
    BY <1>7, SpawnDuty
  <2>3. Holders = {} /\ unresolved = {} /\ ~PrepHolds
    BY <2>1, WhoHolds DEF CleanupInv, Quiet, PrepHolds
  <2>4. main'.at # "exited"
    BY <1>3, <2>1 DEF Drain
  <2>5. CASE inbox' = [inbox EXCEPT ![main.op] = "failed"] /\ UNCHANGED <<unresolved, lost>>
    <3>1. Duty!Receives(main.op, "active", "failed")
      BY <1>1, <1>2, <2>2, <2>4, <2>5, ReceiptRefines
    <3> QED BY <1>2, <2>2, <2>5, <3>1 DEF Duty!Next, Duty!Settle
  <2>6. CASE /\ UNCHANGED <<inbox, lost>>
             /\ unresolved' = unresolved \cup {main.op}
    <3>1. Holders' = {main.op}
      BY <1>1, <2>3, <2>6, WhoHoldsNext
    <3>2. (main.at = "exited")' = (main.at = "exited")
      BY <1>2, <2>4
    <3>3. Duty!Take(main.op)
      BY <1>2, <2>2, <2>3, <2>6, <3>1, <3>2 DEF Duty!Take, Duty!Holds
    <3> QED BY <2>2, <3>3 DEF Duty!Next
  <2>7. CASE UNCHANGED <<inbox, unresolved, lost>>
    BY <1>4, <2>1, <2>7 DEF Drain
  <2>8. CASE UNCHANGED <<inbox, unresolved>> /\ lost' = lost \cup {main.op}
    <3>1. Holders' = Holders /\ (main.at = "exited")' = (main.at = "exited")
      BY <1>1, <1>2, <2>4, <2>8 DEF Holders
    <3>2. Duty!Lose(main.op)
      BY <1>2, <2>2, <2>8, <3>1 DEF Duty!Lose
    <3> QED BY <2>2, <3>2 DEF Duty!Next
  <2> QED BY <1>7, <2>5, <2>6, <2>7, <2>8 DEF Spawn, runner
<1>8. CASE Receipt
  <2>1. UNCHANGED unresolved /\ main'.at # "exited"
    BY <1>8, <1>3 DEF Receipt, Drain
  <2>2. /\ active \in Ops /\ inbox[active] = "active"
        /\ \/ inbox' = inbox
           \/ inbox' = [inbox EXCEPT ![active] = main.got.state]
        /\ main.got.state \in {"succeeded", "cancelled", "failed"}
        /\ lost = {} /\ lost' = lost
    BY <1>8, ReceiptDuty
  <2>3. CASE inbox' = inbox
    BY <1>1, <1>2, <2>1, <2>2, <2>3, DutyStutters
  <2>4. CASE inbox' = [inbox EXCEPT ![active] = main.got.state]
    <3>1. Duty!Receives(active, "active", main.got.state)
      BY <1>1, <1>2, <2>1, <2>2, <2>4, ReceiptRefines
    <3> QED BY <1>2, <2>2, <3>1 DEF Duty!Next, Duty!Settle
  <2> QED BY <2>2, <2>3, <2>4
<1>9. CASE Join
  <2>1. UNCHANGED unresolved /\ main'.at # "exited"
    BY <1>9, <1>3 DEF Join, Drain
  <2>2. active \in Ops /\ lost = {}
    BY <1>9, JoinDuty
  <2>3. CASE UNCHANGED <<inbox, lost>>
    BY <1>1, <1>2, <2>1, <2>3, DutyStutters
  <2>4. CASE inbox[active] = "active" /\ inbox' = inbox /\ lost' = {active}
    <3>1. Holders' = Holders /\ (main.at = "exited")' = (main.at = "exited")
      BY <1>1, <1>2, <2>1 DEF Holders
    <3>2. Duty!Lose(active)
      BY <1>2, <2>2, <2>4, <3>1 DEF Duty!Lose
    <3> QED BY <2>2, <3>2 DEF Duty!Next
  <2>5. ASSUME inbox[active] = "active", lost' = lost, NEW to \in {"cancelled", "failed"},
               inbox' = [inbox EXCEPT ![active] = to]
        PROVE  [Duty!Next]_(Duty!vars)
    <3>1. Duty!Receives(active, "active", to)
      BY <1>1, <1>2, <2>1, <2>2, <2>5, ReceiptRefines
    <3> QED BY <1>2, <2>2, <2>5, <3>1 DEF Duty!Next, Duty!Settle
  <2> QED BY <1>9, <2>3, <2>4, <2>5, JoinDuty
<1>10. CASE Drain
  <2>1. UNCHANGED <<inbox, unresolved>> /\ main.at = "drain"
    BY <1>10 DEF Drain, files, runner
  <2>2. CASE /\ main'.at = "exited" /\ lost' \in {lost, lost \cup {None}}
             /\ prep.at = "exited" \/ None \in lost'
    <3>1. Duty!Active \subseteq lost
      BY <2>1 DEF DutyInv, Duty!Active
    <3>2. (None \in Holders => None \in lost') /\ Holders' = Holders
      BY <1>1, <2>1, <2>2, WhoHolds DEF PrepInv, PrepHolds, Holders
    <3>3. (main.at = "exited")' = TRUE
      BY <2>2
    <3>4. Duty!End
      BY <1>2, <2>1, <2>2, <3>1, <3>2, <3>3 DEF Duty!End
    <3> QED BY <3>4 DEF Duty!Next
  <2>3. CASE UNCHANGED <<main, lost>>
    BY <1>1, <2>1, <2>3, DutyStutters
  <2>4. Go("exited") => main'.at = "exited"
    BY GoMoves DEF MainPlaces
  <2> QED BY <1>10, <2>2, <2>3, <2>4 DEF Drain
<1>11. Loop \/ Complete \/ Release \/ Start \/ Handoff \/ GiveBack =>
         UNCHANGED <<inbox, unresolved, lost>> /\ ~Drain
  BY DEF Loop, Complete, Release, Start, Handoff, GiveBack, Drain, files, runner
<1> QED BY <1>4, <1>5, <1>6, <1>7, <1>8, <1>9, <1>10, <1>11 DEF MainStep

\* The operation thread returns the resources when it proves its cleanup.
LEMMA FinishRefines ==
  ASSUME ServeInv, FinishOperation
  PROVE  [Duty!Next]_(Duty!vars)
<1>1. /\ UNCHANGED <<inbox, main, owner, prep, lost>> /\ main.at # "exited"
      /\ unresolved \subseteq {active}
      /\ unresolved' \in {unresolved, unresolved \ {active}}
  BY DEF FinishOperation, Running, files, flags, loop, ServeInv, CleanupInv
<1>2. PrepHolds' <=> PrepHolds
  BY <1>1 DEF PrepHolds
<1>3. CASE unresolved' = unresolved
  BY <1>1, <1>2, <1>3, DutyStutters
<1>4. CASE unresolved' # unresolved
  <2>1. unresolved = {active} /\ unresolved' = {} /\ active \in Ops
    BY <1>1, <1>4 DEF ServeInv, TypeOK, RunnerOK
  <2>2. Holders = {active} /\ Holders' = {}
    BY <1>2, <2>1, WhoHolds, WhoHoldsNext
  <2>3. Duty!Return(active)
    BY <1>1, <2>2 DEF Duty!Return, Duty!Holds
  <2> QED BY <2>1, <2>3 DEF Duty!Next
<1> QED BY <1>3, <1>4

(***************************************************************************)
(* The worker's threads implement WorkerDuty: one ACTIVE operation at a    *)
(* time, the native resources held in turn and returned with proof (serve, *)
(* request_handoff, release_handoff), receipts final, and an end that      *)
(* leaves neither an ACTIVE receipt nor a preparation owner but for what a *)
(* raising call of the ledger or of the heartbeat publisher has lost.      *)
(***************************************************************************)
THEOREM ImplementsWorkerDuty == Spec => ImplementsDuty
<1>1. Init => Duty!Init
  <2> SUFFICES ASSUME Init PROVE Duty!Init
    OBVIOUS
  <2>1. main.at = "loop"
    BY AgainForm DEF Init
  <2>2. (main.at = "exited") = FALSE
    BY <2>1
  <2>3. Holders = {}
    BY DEF Init, Holders, PrepHolds, NewPrep
  <2> QED BY <2>2, <2>3 DEF Init, Duty!Init
<1>2. ServeInv /\ DutyInv /\ [Next]_vars => [Duty!Next]_(Duty!vars)
  <2> SUFFICES ASSUME ServeInv, DutyInv, [Next]_vars PROVE [Duty!Next]_(Duty!vars)
    OBVIOUS
  <2>1. CASE \E o \in Ops : Submit(o) \/ Expire(o)
    <3>1. UNCHANGED <<unresolved, owner, prep, main, lost>>
      BY <2>1 DEF Submit, Expire, flags, loop, runner
    <3>2. PrepHolds' <=> PrepHolds
      BY <3>1 DEF PrepHolds
    <3>3. ASSUME NEW o \in Ops, Submit(o) PROVE Duty!Give(o)
      BY <3>1, <3>2, <3>3, ReceiptRefines DEF Submit, Duty!Give
    <3>4. ASSUME NEW o \in Ops, Expire(o) PROVE Duty!Drop(o)
      <4>1. Duty!Receives(o, "pending", "expired")
        BY <3>1, <3>2, <3>4, ReceiptRefines DEF Expire
      <4> QED BY <3>1, <4>1 DEF Duty!Drop
    <3> QED BY <2>1, <3>3, <3>4 DEF Duty!Next
  <2>2. CASE Observe \/ SetEnabled \/ ChangePermit \/ RequestWorkerStop
             \/ (\E g \in GroupOps : HearCommand(g)) \/ UNCHANGED vars
    <3>1. UNCHANGED <<inbox, unresolved, owner, prep, main, lost>>
      BY <2>2 DEF Observe, SetEnabled, ChangePermit, RequestWorkerStop, HearCommand, vars,
                  files, flags, loop, runner
    <3>2. PrepHolds' <=> PrepHolds
      BY <3>1 DEF PrepHolds
    <3> QED BY <3>1, <3>2, DutyStutters
  <2> QED BY <2>1, <2>2, PrepRefines, MainRefines, FinishRefines DEF Next, Terminated
<1> QED BY <1>1, <1>2, ServeCorrect, DutyInitially, DutyStep, PTL
        DEF Spec, ImplementsDuty, Duty!Spec

(***************************************************************************)
(* At most one operation has the receipt ACTIVE, and when the worker has   *)
(* ended, only one whose settling call raised (claim_for_execution,        *)
(* _start_next_operation, _cancel_active_operation); nothing is activated  *)
(* after that.  The safety half of StopSettles, for every set of           *)
(* operations and every number of faults.                                  *)
(***************************************************************************)
THEOREM OneActiveOperation == Spec => []OneActive
<1>1. ServeInv /\ DutyInv => OneActive
  <2> SUFFICES ASSUME ServeInv, DutyInv PROVE OneActive
    OBVIOUS
  <2>1. ASSUME NEW o \in Ops, inbox[o] = "active", main.at = "exited" PROVE o \in lost
    BY <2>1 DEF DutyInv
  <2>2. ASSUME NEW o \in Ops, NEW p \in Ops, inbox[o] = "active", inbox[p] = "active"
        PROVE  o = p
    BY <2>2, ServeAssumption DEF DutyInv, ServeInv, LoopInv
  <2> QED BY <2>1, <2>2 DEF OneActive, DutyInv
<1> QED BY <1>1, ServeCorrect, DutyInitially, DutyStep, PTL DEF Spec
==============================================================================
