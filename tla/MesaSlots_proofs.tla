-------------------------- MODULE MesaSlots_proofs --------------------------
(***************************************************************************)
(* Safety of slots_mesa for every number of students and of slots.         *)
(***************************************************************************)
EXTENDS MesaSlots, FiniteSetTheorems, TLAPS

Waiters(c) == {t \in Threads : cond[t] = c}

(* What a thread's place says of the condition it waits for. *)
CondPlace == \A t \in Threads : cond[t] # None <=> pc[t] \in {"blocked", "retake"}

(* A condition counts its waiters. *)
Counts == \A c \in Conds : numOfThreadsWaiting[c] = Cardinality(Waiters(c))

(* Who has taken a slot is on its way out, ... *)
TookPlace == \A t \in took : pc[t] \in {"leave", "done"}

(* ... and whoever leaves with 0 has taken one. *)
Success == \A t \in Students : pc[t] \in {"leave", "done"} /\ result[t] = 0 => t \in took

(* The places inside the monitor. *)
Inside == {"body", "wait", "leave"}

IInv == TypeOK /\ MonitorExclusion /\ CondPlace /\ Counts /\ TookPlace /\ Success /\ SlotsConserved

-----------------------------------------------------------------------------
LEMMA ThreadFacts ==
  /\ IsFiniteSet(Threads) /\ IsFiniteSet(Students) /\ Students \subseteq Threads
  /\ Grader \in Threads /\ Main \in Threads /\ Grader # Main
  /\ Grader \notin Students /\ Main \notin Students
  /\ None \notin Threads
<1>1. IsFiniteSet(Students \cup {Grader})
  BY FS_AddElement, SlotsAssumption
<1>2. IsFiniteSet((Students \cup {Grader}) \cup {Main})
  BY <1>1, FS_AddElement
<1>3. Threads = (Students \cup {Grader}) \cup {Main}
  BY SlotsAssumption
<1> QED
  BY <1>2, <1>3, SlotsAssumption, NoneAssumption

LEMMA MutexFacts ==
  /\ "innerMutex" \in Mutexes /\ "innerMutex" \notin Conds
  /\ Conds = {"noSlots", "freeSlots"} /\ Conds \subseteq Mutexes
  /\ n \in Nat /\ n > 0
BY SlotsAssumption

-----------------------------------------------------------------------------
(* Taking a mutex that is free or granted, queueing, unlocking: the types of *)
(* owner and waiting are kept, and only the mutex in question changes hands. *)
LEMMA OperationType ==
  ASSUME MutexTypeOK, NEW t \in Threads, NEW m \in Mutexes
  PROVE  /\ LockReturns(t, m) => MutexTypeOK' /\ owner[m] = None /\ owner' = [owner EXCEPT ![m] = t]
         /\ LockQueues(t, m) => MutexTypeOK' /\ owner' = owner
         /\ Unlock(m) => MutexTypeOK' /\ owner' = [owner EXCEPT ![m] = None]
<1>1. Unlock(m) => MutexTypeOK' /\ owner' = [owner EXCEPT ![m] = None]
  BY DEF MutexTypeOK, Unlock
<1>2. LockQueues(t, m) => MutexTypeOK' /\ owner' = owner
  BY DEF MutexTypeOK, LockQueues, Queue
<1>3. LockReturns(t, m) => MutexTypeOK' /\ owner[m] = None /\ owner' = [owner EXCEPT ![m] = t]
  <2>1. Take(t, m) => MutexTypeOK' /\ owner[m] = None
    BY DEF MutexTypeOK, Take, Locked
  <2>2. ASSUME Grant(t, m) PROVE MutexTypeOK'
    <3>1. Tail(waiting[m]) \in Seq(Threads)
      BY <2>2 DEF Grant, MutexTypeOK
    <3> QED
      BY <2>2, <3>1 DEF Grant, MutexTypeOK
  <2> QED
    BY <2>1, <2>2 DEF LockReturns, Take, Grant
<1> QED
  BY <1>1, <1>2, <1>3

(* A signal leaves the monitor's mutex alone. *)
LEMMA SignalType ==
  ASSUME MutexTypeOK, NEW c \in Conds, Signal(c)
  PROVE  MutexTypeOK' /\ owner'["innerMutex"] = owner["innerMutex"]
<1>1. c \in Mutexes /\ c # "innerMutex"
  BY MutexFacts
<1>2. CASE numOfThreadsWaiting[c] > 0
  BY <1>1, <1>2, MutexFacts DEF Signal, Unlock, MutexTypeOK
<1>3. CASE ~(numOfThreadsWaiting[c] > 0)
  BY <1>3 DEF Signal, mutexVars, MutexTypeOK
<1> QED
  BY <1>2, <1>3

(* MonitorExclusion survives a step of t to place p that leaves the mutex    *)
(* alone, one that enters with it when it is free, and one that gives it up. *)
LEMMA ExclusionKept ==
  ASSUME TypeOK, MonitorExclusion, NEW t \in Threads, NEW p, pc' = [pc EXCEPT ![t] = p],
         \/ owner'["innerMutex"] = owner["innerMutex"] /\ (p \in Inside => pc[t] \in Inside)
         \/ owner["innerMutex"] = None /\ owner'["innerMutex"] = t
         \/ pc[t] \in Inside /\ p \notin Inside
  PROVE  MonitorExclusion'
BY ThreadFacts DEF TypeOK, MonitorExclusion, Inside

(* The counters follow when t begins to wait for c, and when it ends. *)
LEMMA CountsKept ==
  ASSUME Counts, UNCHANGED <<cond, numOfThreadsWaiting>>
  PROVE  Counts'
BY DEF Counts, Waiters

LEMMA CountsUp ==
  ASSUME TypeOK, Counts, NEW t \in Threads, NEW c \in Conds, cond[t] = None,
         cond' = [cond EXCEPT ![t] = c],
         numOfThreadsWaiting' = [numOfThreadsWaiting EXCEPT ![c] = @ + 1]
  PROVE  Counts'
<1>1. None \notin Conds
  BY CondsAssumption
<1> SUFFICES ASSUME NEW d \in Conds PROVE numOfThreadsWaiting'[d] = Cardinality(Waiters(d)')
  BY DEF Counts
<1>2. IsFiniteSet(Waiters(d))
  BY ThreadFacts, FS_Subset DEF Waiters
<1>3. CASE d = c
  <2>1. Waiters(d)' = Waiters(d) \cup {t} /\ t \notin Waiters(d)
    BY <1>1, <1>3 DEF Waiters, TypeOK
  <2>2. Cardinality(Waiters(d) \cup {t}) = Cardinality(Waiters(d)) + 1
    BY <1>2, <2>1, FS_AddElement
  <2> QED
    BY <1>3, <2>1, <2>2 DEF Counts, TypeOK
<1>4. CASE d # c
  <2>1. Waiters(d)' = Waiters(d)
    BY <1>1, <1>4 DEF Waiters, TypeOK
  <2> QED
    BY <1>4, <2>1 DEF Counts, TypeOK
<1> QED
  BY <1>3, <1>4

LEMMA CountsDown ==
  ASSUME TypeOK, Counts, NEW t \in Threads, cond[t] \in Conds,
         cond' = [cond EXCEPT ![t] = None],
         numOfThreadsWaiting' = [numOfThreadsWaiting EXCEPT ![cond[t]] = @ - 1]
  PROVE  Counts' /\ numOfThreadsWaiting' \in [Conds -> Nat]
<1>1. None \notin Conds
  BY CondsAssumption
<1>2. SUFFICES ASSUME NEW d \in Conds
               PROVE  numOfThreadsWaiting'[d] = Cardinality(Waiters(d)') /\ numOfThreadsWaiting'[d] \in Nat
  BY DEF Counts, TypeOK
<1>3. IsFiniteSet(Waiters(d)) /\ IsFiniteSet(Waiters(d)')
  BY ThreadFacts, FS_Subset DEF Waiters
<1>4. Cardinality(Waiters(d)') \in Nat
  BY <1>3, FS_CardinalityType
<1>5. CASE d = cond[t]
  <2>1. Waiters(d)' = Waiters(d) \ {t} /\ t \in Waiters(d)
    BY <1>1, <1>5 DEF Waiters, TypeOK
  <2>2. Cardinality(Waiters(d) \ {t}) = Cardinality(Waiters(d)) - 1
    BY <1>3, <2>1, FS_RemoveElement
  <2> QED
    BY <1>4, <1>5, <2>1, <2>2 DEF Counts, TypeOK
<1>6. CASE d # cond[t]
  <2>1. Waiters(d)' = Waiters(d)
    BY <1>1, <1>6 DEF Waiters, TypeOK
  <2> QED
    BY <1>4, <1>6, <2>1 DEF Counts, TypeOK
<1> QED
  BY <1>5, <1>6

-----------------------------------------------------------------------------
USE DEF goto

LEMMA EnterStep ==
  ASSUME IInv, NEW t \in Threads, Enter(t)
  PROVE  IInv'
<1> USE DEF IInv
<1>1. /\ MutexTypeOK'
      /\ \/ owner["innerMutex"] = None /\ owner'["innerMutex"] = t /\ pc' = [pc EXCEPT ![t] = "body"]
         \/ owner' = owner /\ pc' = pc
  BY OperationType, MutexFacts DEF Enter, TypeOK, MutexTypeOK
<1>2. TypeOK'
  BY <1>1 DEF Enter, TypeOK, monitor
<1>3. MonitorExclusion'
  BY <1>1, ThreadFacts DEF Enter, TypeOK, MonitorExclusion
<1>4. CondPlace' /\ Counts' /\ SlotsConserved'
  BY <1>1, CountsKept DEF Enter, CondPlace, TypeOK, SlotsConserved, monitor
<1>5. TookPlace' /\ Success'
  BY <1>1, ThreadFacts DEF Enter, TookPlace, Success, TypeOK, monitor
<1> QED
  BY <1>2, <1>3, <1>4, <1>5

LEMMA LeaveStep ==
  ASSUME IInv, NEW t \in Threads, Leave(t)
  PROVE  IInv'
<1> USE DEF IInv
<1>1. PICK p \in {"start", "joinGrader", "done"} : pc' = [pc EXCEPT ![t] = p]
               /\ (t \in Students => p = "done")
  <2>1. CASE t = Grader
    BY <2>1, ThreadFacts DEF Leave
  <2>2. CASE t = Main
    BY <2>2, ThreadFacts DEF Leave
  <2>3. CASE t # Grader /\ t # Main
    BY <2>3 DEF Leave
  <2> QED
    BY <2>1, <2>2, <2>3
<1>2. MutexTypeOK'
  BY OperationType, MutexFacts DEF Leave, TypeOK
<1>3. TypeOK'
  BY <1>1, <1>2 DEF Leave, TypeOK, monitor
<1>4. MonitorExclusion'
  BY <1>1, ExclusionKept DEF Leave, Inside
<1>5. CondPlace' /\ Counts' /\ SlotsConserved'
  BY <1>1, CountsKept DEF Leave, CondPlace, TypeOK, SlotsConserved, monitor
<1>6. TookPlace' /\ Success'
  BY <1>1, ThreadFacts DEF Leave, TookPlace, Success, TypeOK, monitor
<1> QED
  BY <1>3, <1>4, <1>5, <1>6

(* The waits: release, be signaled, take the monitor's mutex back. *)
LEMMA ReleaseStep ==
  ASSUME IInv, NEW t \in Threads, NEW c \in Conds, pc[t] \in {"body", "wait"},
         WaitRelease(t, c, "innerMutex"), UNCHANGED monitor
  PROVE  IInv'
<1> USE DEF IInv
<1>1. MutexTypeOK'
  BY OperationType, MutexFacts DEF WaitRelease, TypeOK
<1>2. TypeOK'
  BY <1>1 DEF WaitRelease, TypeOK, monitor
<1>3. MonitorExclusion'
  BY ExclusionKept DEF WaitRelease, Inside
<1>4. cond[t] = None
  BY DEF CondPlace
<1>5. Counts'
  BY <1>4, CountsUp DEF WaitRelease
<1>6. CondPlace'
  BY CondsAssumption DEF WaitRelease, CondPlace, TypeOK
<1>7. TookPlace' /\ Success' /\ SlotsConserved'
  BY DEF WaitRelease, TookPlace, Success, SlotsConserved, TypeOK, monitor
<1> QED
  BY <1>2, <1>3, <1>5, <1>6, <1>7

LEMMA WaitSignalStep ==
  ASSUME IInv, NEW t \in Threads, WaitSignal(t), UNCHANGED monitor
  PROVE  IInv'
<1> USE DEF IInv
<1>1. cond[t] \in Conds /\ cond[t] \in Mutexes /\ cond[t] # "innerMutex"
  BY MutexFacts DEF WaitSignal, CondPlace, TypeOK
<1>2. MutexTypeOK' /\ owner'["innerMutex"] = owner["innerMutex"]
  BY <1>1, OperationType, MutexFacts DEF WaitSignal, TypeOK, MutexTypeOK
<1>3. pc' = pc \/ pc' = [pc EXCEPT ![t] = "retake"]
  BY DEF WaitSignal
<1>4. TypeOK'
  BY <1>2, <1>3 DEF WaitSignal, TypeOK, monitor
<1>5. MonitorExclusion'
  BY <1>2, <1>3 DEF MonitorExclusion, TypeOK
<1>6. CondPlace' /\ Counts' /\ SlotsConserved'
  BY <1>3, CountsKept DEF WaitSignal, CondPlace, TypeOK, SlotsConserved, monitor
<1>7. TookPlace' /\ Success'
  BY <1>3, ThreadFacts DEF WaitSignal, TookPlace, Success, TypeOK, monitor
<1> QED
  BY <1>4, <1>5, <1>6, <1>7

LEMMA RetakeStep ==
  ASSUME IInv, NEW t \in Threads, WaitRetake(t, "innerMutex"), UNCHANGED monitor
  PROVE  IInv'
<1> USE DEF IInv
<1>1. MutexTypeOK'
  BY OperationType, MutexFacts DEF WaitRetake, TypeOK
<1>2. CASE LockReturns(t, "innerMutex") /\ pc' = [pc EXCEPT ![t] = "body"]
  <2>1. cond[t] \in Conds
    BY DEF WaitRetake, CondPlace, TypeOK
  <2>2. /\ cond' = [cond EXCEPT ![t] = None]
        /\ numOfThreadsWaiting' = [numOfThreadsWaiting EXCEPT ![cond[t]] = @ - 1]
    BY <1>2, CondsAssumption DEF WaitRetake, condVars, TypeOK
  <2>3. Counts' /\ numOfThreadsWaiting' \in [Conds -> Nat]
    BY <2>1, <2>2, CountsDown
  <2>4. TypeOK'
    BY <1>1, <1>2, <2>2, <2>3 DEF TypeOK, monitor
  <2>5. owner["innerMutex"] = None /\ owner'["innerMutex"] = t
    BY <1>2, OperationType, MutexFacts DEF TypeOK, MutexTypeOK
  <2>6. MonitorExclusion'
    BY <1>2, <2>5, ExclusionKept
  <2>7. CondPlace' /\ SlotsConserved' /\ TookPlace' /\ Success'
    BY <1>2, <2>2 DEF WaitRetake, CondPlace, TypeOK, SlotsConserved, TookPlace, Success, monitor
  <2> QED
    BY <2>3, <2>4, <2>6, <2>7
<1>3. CASE LockQueues(t, "innerMutex") /\ UNCHANGED condVars
  <2>1. owner' = owner
    BY <1>3, OperationType, MutexFacts DEF TypeOK
  <2>2. TypeOK' /\ MonitorExclusion'
    BY <1>1, <1>3, <2>1 DEF TypeOK, MonitorExclusion, condVars, monitor
  <2>3. CondPlace' /\ Counts' /\ SlotsConserved' /\ TookPlace' /\ Success'
    BY <1>3, CountsKept DEF CondPlace, SlotsConserved, TookPlace, Success, condVars, monitor
  <2> QED
    BY <2>2, <2>3
<1> QED
  BY <1>2, <1>3 DEF WaitRetake

-----------------------------------------------------------------------------
(* A step inside the monitor that leaves the waits alone: t goes on to p.    *)
LEMMA InsideStep ==
  ASSUME IInv, NEW t \in Threads, NEW p \in Inside, pc[t] \in {"body", "wait"},
         pc' = [pc EXCEPT ![t] = p], MutexTypeOK', owner'["innerMutex"] = owner["innerMutex"],
         UNCHANGED <<numOfThreadsWaiting, cond>>
  PROVE  /\ numOfThreadsWaiting' \in [Conds -> Nat] /\ cond' \in [Threads -> Conds \cup {None}]
         /\ pc' \in [Threads -> {"start", "enter", "body", "wait", "blocked", "retake", "leave",
                                 "join", "joinGrader", "done"}]
         /\ MonitorExclusion' /\ CondPlace' /\ Counts'
<1> USE DEF IInv
<1>1. MonitorExclusion'
  BY ExclusionKept DEF Inside
<1>2. CondPlace' /\ Counts'
  BY CountsKept DEF CondPlace, TypeOK, Inside
<1> QED
  BY <1>1, <1>2 DEF TypeOK, Inside

LEMMA TakeSlotStep ==
  ASSUME IInv, NEW t \in Threads, TakeSlotAsk(t) \/ TakeSlot(t)
  PROVE  IInv'
<1> USE DEF IInv
<1>1. CASE TakeSlotAsk(t)
  <2>1. PICK p \in {"leave", "wait"} :
             /\ pc' = [pc EXCEPT ![t] = p]
             /\ p = "leave" => result' = [result EXCEPT ![t] = -1]
             /\ p = "wait" => result' = result
    <3>1. CASE SignalFails("noSlots")
      BY <1>1, <3>1 DEF TakeSlotAsk
    <3>2. CASE ~SignalFails("noSlots")
      BY <1>1, <3>2 DEF TakeSlotAsk
    <3> QED
      BY <3>1, <3>2
  <2>2. MutexTypeOK' /\ owner'["innerMutex"] = owner["innerMutex"]
    BY <1>1, SignalType, MutexFacts DEF TakeSlotAsk, TypeOK
  <2>3. TypeOK' /\ MonitorExclusion' /\ CondPlace' /\ Counts'
    BY <1>1, <2>1, <2>2, InsideStep DEF TakeSlotAsk, TypeOK, Inside
  <2>4. TookPlace' /\ Success' /\ SlotsConserved'
    BY <1>1, <2>1, ThreadFacts DEF TakeSlotAsk, TookPlace, Success, SlotsConserved, TypeOK
  <2> QED
    BY <2>3, <2>4
<1>2. CASE TakeSlot(t)
  <2>1. PICK c \in Conds : SignalAndLeave(t, c)
    <3>1. CASE numOfFreeSlots' > 0
      BY <1>2, <3>1, MutexFacts DEF TakeSlot
    <3>2. CASE ~(numOfFreeSlots' > 0)
      BY <1>2, <3>2, MutexFacts DEF TakeSlot
    <3> QED
      BY <3>1, <3>2
  <2>2. MutexTypeOK' /\ owner'["innerMutex"] = owner["innerMutex"] /\ pc' = [pc EXCEPT ![t] = "leave"]
    BY <2>1, SignalType DEF SignalAndLeave, TypeOK
  <2>3. result' \in [Threads -> {0, -1}] /\ \A u \in Threads \ {t} : result'[u] = result[u]
    BY <2>1 DEF SignalAndLeave, TypeOK
  <2>4. numOfFreeSlots' \in 0..n /\ numOfFreeSlots' = numOfFreeSlots - 1
    BY <1>2, MutexFacts DEF TakeSlot, TypeOK
  <2>5. TypeOK' /\ MonitorExclusion' /\ CondPlace' /\ Counts'
    BY <1>2, <2>2, <2>3, <2>4, InsideStep DEF TakeSlot, TypeOK, Inside
  <2>6. TookPlace' /\ Success'
    BY <1>2, <2>2, <2>3, ThreadFacts DEF TakeSlot, TookPlace, Success, TypeOK
  <2>7. SlotsConserved'
    <3>1. t \notin took /\ IsFiniteSet(took)
      BY <1>2, ThreadFacts, FS_Subset DEF TakeSlot, TookPlace, TypeOK
    <3>2. Cardinality(took') = Cardinality(took) + 1 /\ Cardinality(took) \in Nat
      BY <1>2, <3>1, FS_AddElement, FS_CardinalityType DEF TakeSlot
    <3> QED
      BY <1>2, <2>4, <3>2 DEF TakeSlot, SlotsConserved, TypeOK
  <2> QED
    BY <2>5, <2>6, <2>7
<1> QED
  BY <1>1, <1>2

LEMMA AddSlotsStep ==
  ASSUME IInv, AddSlotsStop \/ AddSlots
  PROVE  IInv'
<1> USE DEF IInv
<1>1. Grader \in Threads /\ Grader \notin Students /\ Students \subseteq Threads
  BY ThreadFacts
<1>2. CASE AddSlotsStop
  <2>1. TypeOK' /\ MonitorExclusion' /\ CondPlace' /\ Counts'
    BY <1>1, <1>2, InsideStep DEF AddSlotsStop, TypeOK, MutexTypeOK, Inside, mutexVars
  <2>2. TookPlace' /\ Success' /\ SlotsConserved'
    BY <1>1, <1>2 DEF AddSlotsStop, TookPlace, Success, SlotsConserved, TypeOK
  <2> QED
    BY <2>1, <2>2
<1>3. CASE AddSlots
  <2>1. "freeSlots" \in Conds /\ SignalAndLeave(Grader, "freeSlots")
    BY <1>3, MutexFacts DEF AddSlots
  <2>2. MutexTypeOK' /\ owner'["innerMutex"] = owner["innerMutex"] /\ pc' = [pc EXCEPT ![Grader] = "leave"]
    BY <2>1, SignalType DEF SignalAndLeave, TypeOK
  <2>3. result' \in [Threads -> {0, -1}] /\ \A u \in Threads \ {Grader} : result'[u] = result[u]
    BY <1>1, <2>1 DEF SignalAndLeave, TypeOK
  <2>4. numOfFreeSlots = 0 /\ numOfFreeSlots' = n /\ added' = added + n
    BY <1>3 DEF AddSlots, TypeOK, SlotsConserved
  <2>5. TypeOK' /\ MonitorExclusion' /\ CondPlace' /\ Counts'
    <3>1. numOfFreeSlots' \in 0..n /\ added' \in Nat
      BY <2>4, MutexFacts DEF TypeOK
    <3> QED
      BY <1>1, <1>3, <2>2, <2>3, <3>1, InsideStep DEF AddSlots, TypeOK, Inside
  <2>6. TookPlace' /\ Success'
    BY <1>1, <1>3, <2>2, <2>3 DEF AddSlots, TookPlace, Success, TypeOK
  <2>7. Cardinality(took) \in Nat
    BY ThreadFacts, FS_Subset, FS_CardinalityType DEF TypeOK
  <2>8. SlotsConserved'
    BY <1>3, <2>4, <2>7, MutexFacts DEF AddSlots, SlotsConserved, TypeOK
  <2> QED
    BY <2>5, <2>6, <2>8
<1> QED
  BY <1>2, <1>3

LEMMA StopAddingStep ==
  ASSUME IInv, StopAdding
  PROVE  IInv'
<1> USE DEF IInv
<1>1. Main \in Threads /\ Main \notin Students /\ Students \subseteq Threads
  BY ThreadFacts
<1>2. "noSlots" \in Conds /\ SignalAndLeave(Main, "noSlots")
  BY MutexFacts DEF StopAdding
<1>3. MutexTypeOK' /\ owner'["innerMutex"] = owner["innerMutex"] /\ pc' = [pc EXCEPT ![Main] = "leave"]
  BY <1>2, SignalType DEF SignalAndLeave, TypeOK
<1>4. result' \in [Threads -> {0, -1}] /\ \A u \in Threads \ {Main} : result'[u] = result[u]
  BY <1>1, <1>2 DEF SignalAndLeave, TypeOK
<1>5. TypeOK' /\ MonitorExclusion' /\ CondPlace' /\ Counts'
  BY <1>1, <1>3, <1>4, InsideStep DEF StopAdding, TypeOK, Inside
<1>6. TookPlace' /\ Success' /\ SlotsConserved'
  BY <1>1, <1>3, <1>4 DEF StopAdding, TookPlace, Success, SlotsConserved, TypeOK
<1> QED
  BY <1>5, <1>6

(* The steps outside of the monitor. *)
LEMMA OutsideStep ==
  ASSUME IInv, NEW t \in Threads,
         StudentStart(t) \/ (t = Grader /\ GraderLoop) \/ (t = Main /\ (MainStop \/ MainDealloc))
  PROVE  IInv'
<1> USE DEF IInv
<1>1. PICK p \in {"enter", "done"} : pc' = [pc EXCEPT ![t] = p] /\ (t \in Students => p = "enter")
  <2>1. CASE StudentStart(t)
    BY <2>1 DEF StudentStart
  <2>2. CASE t = Grader /\ GraderLoop
    BY <2>2, ThreadFacts DEF GraderLoop
  <2>3. CASE t = Main /\ (MainStop \/ MainDealloc)
    BY <2>3, ThreadFacts DEF MainStop, MainDealloc
  <2> QED
    BY <2>1, <2>2, <2>3
<1>2. /\ pc[t] \in {"start", "join", "joinGrader"}
      /\ UNCHANGED <<waiting, numOfThreadsWaiting, cond, numOfFreeSlots, shouldStopAddingSlots, added, took>>
      /\ isGraderRunning' \in BOOLEAN
  BY DEF StudentStart, GraderLoop, MainStop, MainDealloc, monitor, mutexVars, TypeOK
<1>3. owner' \in [Mutexes -> Threads \cup {None}] /\ owner'["innerMutex"] = owner["innerMutex"]
  BY MutexFacts DEF StudentStart, GraderLoop, MainStop, MainDealloc, mutexVars, TypeOK, MutexTypeOK
<1>4. result' \in [Threads -> {0, -1}] /\ \A u \in Students : result'[u] = result[u]
  BY ThreadFacts DEF StudentStart, GraderLoop, MainStop, MainDealloc, monitor, TypeOK
<1>5. TypeOK'
  BY <1>1, <1>2, <1>3, <1>4 DEF TypeOK, MutexTypeOK
<1>6. MonitorExclusion'
  BY <1>1, <1>3, ExclusionKept DEF Inside
<1>7. CondPlace' /\ Counts'
  BY <1>1, <1>2, CountsKept DEF CondPlace, TypeOK
<1>8. TookPlace' /\ Success' /\ SlotsConserved'
  BY <1>1, <1>2, <1>4, ThreadFacts DEF TookPlace, Success, SlotsConserved, TypeOK
<1> QED
  BY <1>5, <1>6, <1>7, <1>8

-----------------------------------------------------------------------------
LEMMA InitIInv == Init => IInv
<1> SUFFICES ASSUME Init PROVE IInv
  OBVIOUS
<1>1. TypeOK
  <2>1. MutexTypeOK
    BY ThreadFacts DEF Init, MutexTypeOK
  <2>2. /\ numOfThreadsWaiting \in [Conds -> Nat] /\ cond \in [Threads -> Conds \cup {None}]
        /\ result \in [Threads -> {0, -1}]
    BY DEF Init
  <2>3. numOfFreeSlots \in 0..n /\ added \in Nat /\ took \subseteq Students
    BY MutexFacts DEF Init
  <2> QED
    BY <2>1, <2>2, <2>3 DEF Init, TypeOK
<1>2. MonitorExclusion /\ CondPlace /\ TookPlace /\ Success
  BY ThreadFacts DEF Init, MonitorExclusion, CondPlace, TookPlace, Success
<1>3. ASSUME NEW c \in Conds PROVE Waiters(c) = {}
  BY CondsAssumption DEF Init, Waiters
<1>4. Counts /\ SlotsConserved
  BY <1>3, FS_EmptySet DEF Init, Counts, SlotsConserved
<1> QED
  BY <1>1, <1>2, <1>4 DEF IInv

LEMMA NextIInv == IInv /\ [Next]_vars => IInv'
<1> SUFFICES ASSUME IInv, [Next]_vars PROVE IInv'
  OBVIOUS
<1>1. ASSUME NEW t \in Threads, Step(t) PROVE IInv'
  <2>1. CASE Enter(t) \/ Leave(t)
    BY <2>1, EnterStep, LeaveStep
  <2>2. CASE WaitSignal(t) /\ UNCHANGED monitor
    BY <2>2, WaitSignalStep
  <2>3. CASE WaitRetake(t, "innerMutex") /\ UNCHANGED monitor
    BY <2>3, RetakeStep
  <2>4. CASE TakeSlotWait(t)
    BY <2>4, ReleaseStep, MutexFacts DEF TakeSlotWait
  <2>5. CASE t = Grader /\ AddSlotsWait
    BY <2>5, ReleaseStep, MutexFacts DEF AddSlotsWait
  <2>6. CASE TakeSlotAsk(t) \/ TakeSlot(t)
    BY <2>6, TakeSlotStep
  <2>7. CASE t = Grader /\ (AddSlotsStop \/ AddSlots)
    BY <2>7, AddSlotsStep
  <2>8. CASE t = Main /\ StopAdding
    BY <2>8, StopAddingStep
  <2>9. CASE StudentStart(t) \/ (t = Grader /\ GraderLoop) \/ (t = Main /\ (MainStop \/ MainDealloc))
    BY <2>9, OutsideStep
  <2> QED
    BY <1>1, <2>1, <2>2, <2>3, <2>4, <2>5, <2>6, <2>7, <2>8, <2>9 DEF Step
<1>2. CASE UNCHANGED vars
  <2>1. Counts'
    BY <1>2, CountsKept DEF vars, condVars, IInv
  <2> QED
    BY <1>2, <2>1 DEF vars, mutexVars, condVars, monitor, IInv, TypeOK, MutexTypeOK, MonitorExclusion,
       CondPlace, TookPlace, Success, SlotsConserved
<1> QED
  BY <1>1, <1>2 DEF Next

LEMMA IInvAlways == Spec => []IInv
BY InitIInv, NextIInv, PTL DEF Spec

(* slots_mesa keeps its types: the slot count stays between 0 and n and no   *)
(* counter of waiters is decreased below zero (mesa_cond.c).                 *)
THEOREM MesaTypeCorrect == Spec => []TypeOK
<1>1. IInv => TypeOK
  BY DEF IInv
<1> QED
  BY <1>1, IInvAlways, PTL

(* Whoever is inside a monitor call owns the monitor's mutex, however signals *)
(* and waits fall (mesa_slots_monitor.c).                                    *)
THEOREM MesaMonitorExclusion == Spec => []MonitorExclusion
<1>1. IInv => MonitorExclusion
  BY DEF IInv
<1> QED
  BY <1>1, IInvAlways, PTL

(* No slot is lost or given twice, for any number of students and any n.     *)
THEOREM MesaSlotsConserved == Spec => []SlotsConserved
<1>1. IInv => SlotsConserved
  BY DEF IInv
<1> QED
  BY <1>1, IInvAlways, PTL

(* takeslot returns 0 only to a student that has taken a slot.               *)
THEOREM MesaSuccessMeansSlot == Spec => []SuccessMeansSlot
<1>1. IInv => SuccessMeansSlot
  BY DEF IInv, Success, SuccessMeansSlot
<1> QED
  BY <1>1, IInvAlways, PTL
=============================================================================
