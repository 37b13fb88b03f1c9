-------------------------- MODULE KMutexFifo_proofs --------------------------
(***************************************************************************)
(* The kernel mutexes implement the FIFO locks promised to user programs:  *)
(* under the mapping of KMutex (lockingThread is the owner, the queue of   *)
(* waiting threads the line), the initial state maps to the initial state  *)
(* and every step to a step of FifoMutex or to a stutter.                  *)
(***************************************************************************)
EXTENDS KMutex_proofs

(* What a queue holds is a thread inside kthread_mutex_lock, so a thread    *)
(* that makes a call waits for nothing.                                     *)
LEMMA CallerIsIdle ==
  ASSUME IInv, NEW t \in Threads, pc[t] = "user"
  PROVE  Fifo!Idle(t)
BY DEF IInv, QueuedOnce, Fifo!Idle, Fifo!Waits, InLock

(* The initial states of the kernel are initial states of the FIFO locks. *)
LEMMA FifoInit == Init => Fifo!MutexInit
BY DEF Init, Fifo!MutexInit

(* isLocked is what FifoMutex derives from the owner and the line. *)
LEMMA LockedIsLocked ==
  ASSUME IInv, NEW s \in Slots
  PROVE  isLocked[s] <=> Fifo!Locked(s)
BY DEF IInv, NoOrphanLock, Fifo!Locked

(* Releasing a mutex is one abstract step, whether or not somebody waits. *)
LEMMA ReleaseStep ==
  ASSUME IInv, NEW t \in Threads, NEW i \in held[t], NEW s \in GetMutexById(i), Unlock1(s),
         UNCHANGED waitingThreadsQueue
  PROVE  Fifo!Release(t, s)
<1>1. s \in Slots /\ lockingThread[s] = t
  BY OwnerFacts
<1> QED
  BY <1>1 DEF Unlock1, Fifo!Release, Fifo!Unlock

(* Every step of the kernel is a step of the FIFO locks or changes nothing  *)
(* they see.                                                                *)
LEMMA FifoStep == IInv /\ [Next]_vars => [Fifo!MutexNext]_<<lockingThread, waitingThreadsQueue>>
<1> SUFFICES ASSUME IInv, [Next]_vars,
                    ~UNCHANGED <<lockingThread, waitingThreadsQueue>>
             PROVE  Fifo!MutexNext
  OBVIOUS
<1>0. TypeOK
  BY DEF IInv
<1>1. ASSUME NEW c \in CPUs, NEW t \in Threads, NEW i \in Ids, NEW s \in Slots,
             Dealloc(c, t, i, s)
      PROVE  FALSE
  <2>1. lockingThread[s] = None /\ waitingThreadsQueue[s] = << >>
    BY <1>1 DEF Dealloc, IInv, NoOrphanLock
  <2> QED
    BY <1>0, <1>1, <2>1 DEF Dealloc, TypeOK
<1>2. ASSUME NEW c \in CPUs, NEW t \in Threads, NEW i \in Ids, NEW s \in Slots,
             LockFree(c, t, i, s)
      PROVE  Fifo!Ask(t, s)
  <2>1. ~isLocked[s] /\ lockingThread[s] = None /\ pc[t] = "user"
    BY <1>2 DEF LockFree, LockCall, Enters, IInv, NoOrphanLock
  <2>2. Fifo!Take(t, s)
    BY <1>2, <2>1, LockedIsLocked DEF LockFree, Fifo!Take
  <2> QED
    BY <2>1, <2>2, CallerIsIdle, NoneAssumption DEF Fifo!Ask
<1>3. ASSUME NEW c \in CPUs, NEW t \in Threads, NEW i \in Ids, NEW s \in Slots,
             LockEnqueue(c, t, i, s)
      PROVE  Fifo!Ask(t, s)
  <2>1. isLocked[s] /\ pc[t] = "user" /\ i \notin held[t] /\ id[s] = i
    BY <1>3 DEF LockEnqueue, LockCall, GetMutexById, Enters
  <2>2. lockingThread[s] # t
    BY <2>1, NoneAssumption DEF IInv, OwnerHolds
  <2>3. Fifo!Queue(t, s)
    BY <1>3, <2>1, LockedIsLocked DEF LockEnqueue, Fifo!Queue
  <2> QED
    BY <2>1, <2>2, <2>3, CallerIsIdle DEF Fifo!Ask
<1>4. ASSUME NEW c \in CPUs, NEW t \in Threads, LockTake(c, t)
      PROVE  ptr[t] \in Slots /\ Fifo!Grant(t, ptr[t])
  BY <1>4, WaiterFacts DEF LockTake, MustWait, InLock, Fifo!Grant
<1>5. ASSUME NEW c \in CPUs, NEW t \in Threads, NEW i \in Ids, NEW s \in Slots,
             Unlock(c, t, i, s)
      PROVE  Fifo!Release(t, s)
  BY <1>5, ReleaseStep DEF Unlock
<1>6. ASSUME NEW c \in CPUs, NEW t \in Threads, NEW i \in Ids, NEW j \in Ids,
             NEW m1 \in Slots, NEW m2 \in Slots, YieldUnlock(c, t, i, j, m1, m2)
      PROVE  Fifo!Release(t, m1)
  BY <1>6, ReleaseStep DEF YieldUnlock, YieldCall
<1>7. ASSUME NEW c \in CPUs, NEW t \in Threads, NEW i \in Ids, NEW j \in Ids,
             NEW m1 \in Slots, NEW m2 \in Slots, YieldHandOver(c, t, i, j, m1, m2)
      PROVE  Fifo!Yield(t, m1, m2)
  <2>1. m1 # m2 /\ lockingThread[m1] = t /\ waitingThreadsQueue[m2] # << >>
    BY <1>7 DEF YieldHandOver, YieldCall, GetMutexById
  <2> QED
    BY <1>7, <2>1 DEF YieldHandOver, Fifo!Yield, Fifo!YieldLock, Fifo!CanYield
<1>8. ASSUME NEW c \in CPUs, NEW t \in Threads, Call(c, t) PROVE Fifo!MutexNext
  <2>1. CASE \E s \in Slots : Alloc(c, t, s)
    BY <2>1 DEF Alloc
  <2>2. CASE \E s \in Slots, i \in Ids : Dealloc(c, t, i, s)
    BY <1>1, <2>2
  <2>3. CASE \E s \in Slots, i \in Ids : LockFree(c, t, i, s) \/ LockEnqueue(c, t, i, s)
    BY <1>2, <1>3, <2>3 DEF Fifo!MutexNext
  <2>4. CASE \E s \in Slots, i \in Ids : Unlock(c, t, i, s)
    BY <1>5, <2>4 DEF Fifo!MutexNext
  <2>5. CASE \E m1, m2 \in Slots, i, j \in Ids : YieldUnlock(c, t, i, j, m1, m2)
    BY <1>6, <2>5 DEF Fifo!MutexNext
  <2>6. CASE \E m1, m2 \in Slots, i, j \in Ids : YieldHandOver(c, t, i, j, m1, m2)
    BY <1>7, <2>6 DEF Fifo!MutexNext
  <2> QED
    BY <1>8, <2>1, <2>2, <2>3, <2>4, <2>5, <2>6 DEF Call
<1>9. ASSUME NEW c \in CPUs, NEW t \in Threads, Continue(c, t) PROVE Fifo!MutexNext
  <2>1. LockTake(c, t)
    BY <1>9 DEF Continue, SleepExchange, SleepSched, Reacquire, ReapBegin, ReapEnd, mutexState
  <2> QED
    BY <1>4, <2>1 DEF Fifo!MutexNext
<1> QED
  BY <1>8, <1>9 DEF Next, Dispatch, Preempt, Kill, vars, mutexState

(* The kernel mutexes implement the FIFO locks of the specification the     *)
(* monitors are built on, for every number of threads and processors.       *)
THEOREM Implements == Spec => ImplementsFifo
<1>1. IInv /\ [Next]_vars => [Fifo!MutexNext]_<<lockingThread, waitingThreadsQueue>>
  BY FifoStep
<1> QED
  BY <1>1, FifoInit, Invariant, PTL
     DEF Spec, ImplementsFifo, Fifo!MutexSafeSpec, Fifo!mutexVars
=============================================================================
