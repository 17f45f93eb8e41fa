----------------------- MODULE LegacyMacroExecutorProofs -----------------------
(***************************************************************************)
(* Proofs about the legacy executor of src/src/macro_executor.rs, for     *)
(* every number of spawns, with or without runtime faults and spinning    *)
(* scripts.                                                                *)
(***************************************************************************)
EXTENDS LegacyMacroExecutor, Integers, TLAPS

(* The PIDs whose Spawn instruction the dispatcher has received. *)
Received == nextPid - Len(chan)

(* The channel holds the PIDs spawn sent and the dispatcher has not
   received yet, in the order fetch_add handed them out; a PID gets a
   task exactly when its instruction is received. *)
ChanInv ==
  /\ Len(chan) <= nextPid
  /\ \A i \in 1 .. Len(chan) : chan[i] = Received + i - 1
  /\ \A p \in Pids : task[p] = "None" <=> p >= Received

LInv == LegacyTypeOK /\ ChanInv

-----------------------------------------------------------------------------
USE LegacyConstantsAssumption DEF Pids, NoPid

LEMMA InitLInv == Init => LInv
<1> SUFFICES ASSUME Init PROVE LInv
  OBVIOUS
<1>1. LegacyTypeOK
  BY DEF Init, LegacyTypeOK, TaskStates, WaitStates
<1>2. ChanInv
  BY DEF Init, ChanInv, Received
<1>3. QED
  BY <1>1, <1>2 DEF LInv

LEMMA SpawnLInv == LInv /\ Spawn => LInv'
<1> SUFFICES ASSUME LInv, Spawn PROVE LInv'
  OBVIOUS
<1>1. nextPid \in Pids /\ nextPid' = nextPid + 1 /\ chan' = Append(chan, nextPid)
      /\ UNCHANGED <<loopAt, task, table, lockHolder, terminated, bus, wst, wcur>>
  BY DEF Spawn, LInv, LegacyTypeOK
<1>2. spin' \in [Pids -> BOOLEAN]
  <2>1. PICK s \in BOOLEAN : spin' = [spin EXCEPT ![nextPid] = s]
    BY DEF Spawn
  <2>2. QED
    BY <2>1 DEF LInv, LegacyTypeOK
<1>3. chan' \in Seq(Pids) /\ Len(chan') = Len(chan) + 1
  BY <1>1 DEF LInv, LegacyTypeOK
<1>4. LegacyTypeOK'
  BY <1>1, <1>2, <1>3 DEF LInv, LegacyTypeOK
<1>5. Received' = Received
  BY <1>1, <1>3 DEF Received
<1>6. ChanInv'
  <2>1. Len(chan') <= nextPid'
    BY <1>1, <1>3 DEF LInv, ChanInv
  <2>2. \A i \in 1 .. Len(chan') : chan'[i] = Received' + i - 1
    <3> TAKE i \in 1 .. Len(chan')
    <3>1. CASE i <= Len(chan)
      <4>1. chan'[i] = chan[i]
        BY <1>1, <3>1 DEF LInv, LegacyTypeOK
      <4>2. QED
        BY <4>1, <1>5, <3>1 DEF LInv, ChanInv
    <3>2. CASE i = Len(chan) + 1
      <4>1. chan'[i] = nextPid
        BY <1>1, <3>2 DEF LInv, LegacyTypeOK
      <4>2. QED
        BY <4>1, <1>5, <3>2 DEF Received, LInv, LegacyTypeOK
    <3>3. QED
      BY <1>3, <3>1, <3>2 DEF LInv, LegacyTypeOK
  <2>3. \A q \in Pids : task'[q] = "None" <=> q >= Received'
    BY <1>1, <1>5 DEF LInv, ChanInv
  <2>4. QED
    BY <2>1, <2>2, <2>3 DEF ChanInv
<1>7. QED
  BY <1>4, <1>6 DEF LInv

(* The dispatcher receives the oldest pending PID, which has no task yet,
   and inserts it in the table unless it parks on the Mutex. *)
LEMMA LoopRecvLInv == LInv /\ LoopRecv => LInv'
<1> SUFFICES ASSUME LInv, LoopRecv PROVE LInv'
  OBVIOUS
<1> DEFINE p == Head(chan)
<1>1. chan # << >> /\ chan' = Tail(chan)
      /\ UNCHANGED <<nextPid, spin, lockHolder, terminated, bus, wst, wcur>>
  BY DEF LoopRecv
<1>0. table' \in {table, table \cup {Head(chan)}}
  BY DEF LoopRecv
<1>2. \E st \in {"Ready", "Failed"} : task' = [task EXCEPT ![p] = st]
  BY DEF LoopRecv, Outcomes
<1>3. loopAt' \in {p, loopAt}
  BY DEF LoopRecv, Outcomes
<1>4. chan \in Seq(Pids) /\ Len(chan) >= 1 /\ p = chan[1]
  BY <1>1 DEF LInv, LegacyTypeOK
<1>5. p = Received /\ p \in Pids
  <2>1. Received \in Int
    BY DEF LInv, LegacyTypeOK, Received
  <2>2. chan[1] = Received
    BY <1>4, <2>1 DEF LInv, ChanInv
  <2>3. QED
    BY <1>4, <2>2
<1>6. task[p] = "None"
  BY <1>5 DEF LInv, ChanInv
<1>7. chan' \in Seq(Pids) /\ Len(chan') = Len(chan) - 1
      /\ \A i \in 1 .. Len(chan') : chan'[i] = chan[i + 1]
  BY <1>1, <1>4
<1>8. Received' = Received + 1
  BY <1>1, <1>4, <1>7 DEF Received, LInv, LegacyTypeOK
<1>9. PICK st \in {"Ready", "Failed"} : task' = [task EXCEPT ![p] = st]
  BY <1>2
<1>10. LegacyTypeOK'
  BY <1>0, <1>1, <1>3, <1>5, <1>7, <1>9 DEF LInv, LegacyTypeOK, TaskStates
<1>11. ChanInv'
  <2>1. Len(chan') <= nextPid'
    BY <1>1, <1>4, <1>7 DEF LInv, LegacyTypeOK, ChanInv
  <2>2. \A i \in 1 .. Len(chan') : chan'[i] = Received' + i - 1
    <3> TAKE i \in 1 .. Len(chan')
    <3>1. Received \in Int
      BY DEF LInv, LegacyTypeOK, Received
    <3>2. i + 1 \in 1 .. Len(chan) /\ chan'[i] = chan[i + 1]
      BY <1>4, <1>7
    <3>3. chan[i + 1] = Received + (i + 1) - 1
      BY <3>1, <3>2 DEF LInv, ChanInv
    <3>4. QED
      BY <1>8, <3>1, <3>2, <3>3
  <2>3. \A q \in Pids : task'[q] = "None" <=> q >= Received'
    <3> TAKE q \in Pids
    <3>1. Received \in Int
      BY DEF LInv, LegacyTypeOK, Received
    <3>2. CASE q = p
      BY <1>5, <1>8, <1>9, <3>1, <3>2 DEF LInv, LegacyTypeOK
    <3>3. CASE q # p
      <4>1. task'[q] = task[q]
        BY <1>9, <3>3 DEF LInv, LegacyTypeOK
      <4>2. task[q] = "None" <=> q >= Received
        BY DEF LInv, ChanInv
      <4>3. QED
        BY <1>5, <1>8, <3>1, <3>3, <4>1, <4>2
    <3>4. QED
      BY <3>2, <3>3
  <2>4. QED
    BY <2>1, <2>2, <2>3 DEF ChanInv
<1>12. QED
  BY <1>10, <1>11 DEF LInv

LEMMA LoopInsertLInv == LInv /\ LoopInsert => LInv'
<1> SUFFICES ASSUME LInv, LoopInsert PROVE LInv'
  OBVIOUS
<1>1. LegacyTypeOK'
  BY DEF LoopInsert, LInv, LegacyTypeOK
<1>2. QED
  BY <1>1 DEF LoopInsert, LInv, ChanInv, Received

(* A task step other than the send of MacroStopped keeps the channel. *)
LEMMA TaskMoveLInv ==
  ASSUME LInv, NEW p \in Pids,
         task[p] \in {"Ready", "Spinning"},
         task' = [task EXCEPT ![p] = task'[p]],
         task'[p] \in {"Unresolved", "Spinning", "Loop"},
         UNCHANGED <<nextPid, chan, loopAt, spin, table, lockHolder, terminated, bus, wst, wcur>>
  PROVE  LInv'
<1>1. LegacyTypeOK'
  BY DEF LInv, LegacyTypeOK, TaskStates
<1>2. ChanInv'
  BY DEF LInv, LegacyTypeOK, ChanInv, Received
<1>3. QED
  BY <1>1, <1>2 DEF LInv

LEMMA TaskRunLInv == ASSUME LInv, NEW p \in Pids, TaskRun(p) PROVE LInv'
<1>1. task[p] = "Ready" /\ task' = [task EXCEPT ![p] = task'[p]]
      /\ task'[p] \in {"Unresolved", "Spinning", "Loop"}
  BY DEF TaskRun, LInv, LegacyTypeOK
<1>2. QED
  BY <1>1, TaskMoveLInv DEF TaskRun

LEMMA TaskUnspinLInv == ASSUME LInv, NEW p \in Pids, TaskUnspin(p) PROVE LInv'
<1>1. task[p] = "Spinning" /\ task' = [task EXCEPT ![p] = task'[p]] /\ task'[p] = "Loop"
  BY DEF TaskUnspin, LInv, LegacyTypeOK
<1>2. QED
  BY <1>1, TaskMoveLInv DEF TaskUnspin

(* The send of MacroStopped makes the task Done and the bus one event
   longer. *)
LEMMA TaskEndLInv == ASSUME LInv, NEW p \in Pids, TaskEnd(p) PROVE LInv'
<1>1. task[p] = "Loop" /\ task' = [task EXCEPT ![p] = "Done"] /\ bus' = Append(bus, nextPid)
  BY DEF TaskEnd
<1>2. LegacyTypeOK'
  BY <1>1 DEF TaskEnd, LInv, LegacyTypeOK, TaskStates
<1>3. ChanInv'
  BY <1>1 DEF TaskEnd, LInv, LegacyTypeOK, ChanInv, Received
<1>4. QED
  BY <1>2, <1>3 DEF LInv

(* The steps of abort_macro and wait_with_timeout touch neither the tasks,
   the channel nor the bus. *)
LEMMA CallerLInv ==
  ASSUME LInv, NEW p \in Pids,
         AbortLock(p) \/ AbortDone \/ WaitCall(p) \/ WaitRecv(p) \/ WaitTimeout(p)
  PROVE  LInv'
<1>1. UNCHANGED <<nextPid, chan, task, bus>>
  BY DEF AbortLock, AbortDone, WaitCall, WaitRecv, WaitTimeout
<1>2. LegacyTypeOK'
  <2>1. CASE AbortLock(p)
    BY <2>1 DEF AbortLock, LInv, LegacyTypeOK
  <2>2. CASE AbortDone
    BY <2>2 DEF AbortDone, LInv, LegacyTypeOK
  <2>3. CASE WaitCall(p)
    BY <2>3 DEF WaitCall, LInv, LegacyTypeOK, WaitStates
  <2>4. CASE WaitRecv(p)
    <3>1. wcur[p] < Len(bus) /\ wcur' = [wcur EXCEPT ![p] = wcur[p] + 1]
          /\ wst' \in {[wst EXCEPT ![p] = "Returned"], [wst EXCEPT ![p] = "Waiting"]}
          /\ UNCHANGED <<loopAt, spin, table, lockHolder, terminated>>
      BY <2>4 DEF WaitRecv
    <3>2. wcur' \in [Pids -> 0 .. Len(bus')]
      BY <1>1, <3>1 DEF LInv, LegacyTypeOK
    <3>3. wst' \in [Pids -> WaitStates]
      BY <3>1 DEF LInv, LegacyTypeOK, WaitStates
    <3>4. QED
      BY <1>1, <3>1, <3>2, <3>3 DEF LInv, LegacyTypeOK
  <2>5. CASE WaitTimeout(p)
    BY <2>5 DEF WaitTimeout, LInv, LegacyTypeOK, WaitStates
  <2>6. QED
    BY <2>1, <2>2, <2>3, <2>4, <2>5
<1>3. QED
  BY <1>1, <1>2 DEF LInv, ChanInv, Received

LEMMA NextLInv == LInv /\ [Next]_vars => LInv'
<1> SUFFICES ASSUME LInv, [Next]_vars PROVE LInv'
  OBVIOUS
<1>1. CASE Spawn
  BY <1>1, SpawnLInv
<1>2. CASE LoopRecv
  BY <1>2, LoopRecvLInv
<1>3. CASE LoopInsert
  BY <1>3, LoopInsertLInv
<1>4. CASE \E p \in Pids : TaskRun(p) \/ TaskUnspin(p) \/ TaskEnd(p)
  BY <1>4, TaskRunLInv, TaskUnspinLInv, TaskEndLInv
<1>5. CASE \E p \in Pids : AbortLock(p) \/ WaitCall(p) \/ WaitRecv(p) \/ WaitTimeout(p)
  BY <1>5, CallerLInv
<1>6. CASE AbortDone
  BY <1>6, CallerLInv, MaxSpawn \in Nat \ {0}
<1>7. CASE UNCHANGED vars
  BY <1>7 DEF vars, LInv, LegacyTypeOK, ChanInv, Received
<1>8. QED
  BY <1>1, <1>2, <1>3, <1>4, <1>5, <1>6, <1>7 DEF Next, LocalSetStep

(* The legacy executor's variables keep their types in every reachable
   state: in particular terminate_execution is only called on a PID of the
   process table, and no receiver cursor runs past the bus. *)
THEOREM LegacyTypeCorrect == Spec => []LegacyTypeOK
<1>1. LInv => LegacyTypeOK
  BY DEF LInv
<1>2. QED
  BY <1>1, InitLInv, NextLInv, PTL DEF Spec

=============================================================================
