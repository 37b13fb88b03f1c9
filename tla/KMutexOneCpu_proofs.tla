------------------------- MODULE KMutexOneCpu_proofs -------------------------
(***************************************************************************)
(* What holds of the kernel mutexes on one processor only (the Makefile's  *)
(* default is CPUS := 1): no wakeup is lost although kthread_mutex_unlock1 *)
(* calls wakeup1 without ptable.lock, and no thread ever spins.            *)
(***************************************************************************)
EXTENDS KMutex_proofs

OneCpu == \A c, d \in CPUs : c = d

(* The thread a step is about is the one that runs, so with one processor a *)
(* thread inside a critical section is undisturbed.                         *)
LEMMA Alone ==
  ASSUME OneCpu, OneCpuInv, NEW t \in Threads, pc[t] \in {"check", "sleep", "reap"},
         NEW c \in CPUs
  PROVE  thread[c] = t
<1>1. PICK d \in CPUs : thread[d] = t
  BY DEF OneCpuInv, SectionRuns, RunsOnCpu
<1> QED
  BY <1>1 DEF OneCpu

(* A waiter that is made runnable or left alone: unlocking puts nobody to   *)
(* sleep and takes no thread off its processor.                             *)
LEMMA UnlockStates ==
  ASSUME OneCpuInv, NEW s \in Slots, Unlock1(s)
  PROVE  /\ \A t \in Threads : state'[t] = "SLEEPING" => state[t] = "SLEEPING"
         /\ \A t \in Threads : state'[t] = "RUNNING" <=> state[t] = "RUNNING"
         /\ waitingThreadsQueue[s] # << >> => state'[Head(waitingThreadsQueue[s])] # "SLEEPING"
<1>0. TypeOK
  BY DEF OneCpuInv, IInv
<1>1. CASE waitingThreadsQueue[s] = << >>
  <2>1. state' = state
    BY <1>1 DEF Unlock1
  <2> QED
    BY <1>1, <2>1
<1>2. CASE waitingThreadsQueue[s] # << >>
  <2> DEFINE u == Head(waitingThreadsQueue[s])
  <2>1. u \in Threads
    BY <1>2, HeadFacts DEF OneCpuInv
  <2>2. state' = [t \in Threads |-> IF state[t] = "SLEEPING" /\ chan[t] = u THEN "RUNNABLE" ELSE state[t]]
    BY <1>2 DEF Unlock1, Wakeup1
  <2>3. state'[u] # "SLEEPING"
    BY <2>1, <2>2 DEF OneCpuInv, SleepsOnItself
  <2> QED
    BY <2>2, <2>3
<1> QED
  BY <1>1, <1>2

-----------------------------------------------------------------------------
(* A thread is RUNNING exactly while the processor runs it. *)
LEMMA RunsNext == ASSUME OneCpu, OneCpuInv, [Next]_vars PROVE RunsOnCpu'
<1>0. TypeOK /\ RunsOnCpu
  BY DEF OneCpuInv, IInv
<1>1. CASE UNCHANGED <<thread, state>>
  BY <1>0, <1>1 DEF RunsOnCpu
<1>2. ASSUME NEW s \in Slots, Unlock1(s), thread' = thread PROVE RunsOnCpu'
  BY <1>0, <1>2, UnlockStates DEF RunsOnCpu
<1>3. ASSUME NEW c \in CPUs, NEW t \in Threads, SleepSched(c, t) \/ Preempt(c, t)
      PROVE  RunsOnCpu'
  <2>1. /\ thread[c] = t /\ thread' = [thread EXCEPT ![c] = None]
        /\ state'[t] # "RUNNING" /\ \A u \in Threads : u # t => state'[u] = state[u]
    BY <1>0, <1>3 DEF SleepSched, Preempt, TypeOK
  <2>2. thread'[c] = None /\ \A d \in CPUs : d = c
    BY <1>0, <2>1 DEF TypeOK, OneCpu
  <2> QED
    BY <1>0, <2>1, <2>2, NoneAssumption DEF RunsOnCpu
<1>4. ASSUME NEW c \in CPUs, NEW t \in Threads, Dispatch(c, t) PROVE RunsOnCpu'
  <2>1. /\ thread[c] = None /\ state'[t] = "RUNNING" /\ thread'[c] = t
        /\ \A u \in Threads : u # t => state'[u] = state[u]
        /\ \A d \in CPUs : d # c => thread'[d] = thread[d]
    BY <1>0, <1>4 DEF Dispatch, TypeOK
  <2> QED
    BY <1>0, <2>1, NoneAssumption DEF RunsOnCpu
<1>5. ASSUME NEW c \in CPUs, Kill(c) PROVE RunsOnCpu'
  BY <1>0, <1>5 DEF Kill, RunsOnCpu, TypeOK
<1> QED
  BY <1>1, <1>2, <1>3, <1>4, <1>5
     DEF Next, Call, Continue, Alloc, Dealloc, LockFree, LockEnqueue, LockTake, Unlock,
         YieldHandOver, YieldUnlock, SleepExchange, Reacquire, ReapBegin, ReapEnd,
         vars, schedState

(* A thread that holds a spinlock is not preempted. *)
LEMMA SectionNext == ASSUME OneCpu, OneCpuInv, [Next]_vars PROVE SectionRuns'
<1>0. TypeOK /\ SectionRuns /\ RunsOnCpu /\ SpinlockControl /\ SleepsOnItself
  BY DEF OneCpuInv, IInv
<1>1. CASE UNCHANGED <<pc, state>>
  BY <1>0, <1>1 DEF SectionRuns
<1>2. ASSUME NEW s \in Slots, Unlock1(s), pc' = pc PROVE SectionRuns'
  BY <1>0, <1>2, UnlockStates DEF SectionRuns
<1>3. ASSUME NEW c \in CPUs, NEW t \in Threads, thread[c] = t, state' = state,
             \A u \in Threads : u # t => pc'[u] = pc[u]
      PROVE  SectionRuns'
  BY <1>0, <1>3 DEF SectionRuns, RunsOnCpu
<1>4. ASSUME NEW c \in CPUs, NEW t \in Threads, SleepSched(c, t) PROVE SectionRuns'
  BY <1>0, <1>4 DEF SleepSched, SectionRuns, TypeOK
<1>5. ASSUME NEW c \in CPUs, NEW t \in Threads, Dispatch(c, t) PROVE SectionRuns'
  BY <1>0, <1>5 DEF Dispatch, SectionRuns, TypeOK
<1>6. ASSUME NEW c \in CPUs, NEW t \in Threads, Preempt(c, t) PROVE SectionRuns'
  <2>1. pc[t] \notin {"check", "sleep", "reap"}
    BY <1>0, <1>6 DEF Preempt, Interruptible, SpinlockControl
  <2> QED
    BY <1>0, <1>6, <2>1 DEF Preempt, SectionRuns, TypeOK
<1>7. ASSUME NEW c \in CPUs, Kill(c) PROVE SectionRuns'
  BY <1>0, <1>7 DEF Kill, SectionRuns, TypeOK
<1>8. ASSUME NEW c \in CPUs, NEW t \in Threads, NEW i \in Ids, NEW s \in Slots,
             LockEnqueue(c, t, i, s)
      PROVE  SectionRuns'
  BY <1>0, <1>3, <1>8 DEF LockEnqueue, LockCall, Enters, schedState, TypeOK
<1>9. ASSUME NEW c \in CPUs, NEW t \in Threads,
             \/ LockTake(c, t) \/ SleepExchange(c, t) \/ Reacquire(c, t)
             \/ ReapBegin(c, t) \/ ReapEnd(c, t)
      PROVE  SectionRuns'
  BY <1>0, <1>3, <1>9
     DEF LockTake, SleepExchange, Reacquire, ReapBegin, ReapEnd, schedState, TypeOK
<1> QED
  BY <1>1, <1>2, <1>4, <1>5, <1>6, <1>7, <1>8, <1>9
     DEF Next, Call, Continue, Alloc, Dealloc, LockFree, Unlock, YieldHandOver, YieldUnlock,
         vars, schedState

(* A sleeper sleeps in kthread_mutex_lock, on its own channel. *)
LEMMA SleepsNext == ASSUME OneCpu, OneCpuInv, [Next]_vars PROVE SleepsOnItself'
<1>0. TypeOK /\ RunsOnCpu /\ SleepsOnItself
  BY DEF OneCpuInv, IInv
<1>1. CASE UNCHANGED <<pc, state, chan>>
  BY <1>0, <1>1 DEF SleepsOnItself
<1>2. ASSUME NEW s \in Slots, Unlock1(s), pc' = pc, chan' = chan PROVE SleepsOnItself'
  BY <1>0, <1>2, UnlockStates DEF SleepsOnItself
<1>3. ASSUME NEW c \in CPUs, NEW t \in Threads, thread[c] = t, state' = state, chan' = chan,
             \A u \in Threads : u # t => pc'[u] = pc[u]
      PROVE  SleepsOnItself'
  BY <1>0, <1>3 DEF SleepsOnItself, RunsOnCpu
<1>4. ASSUME NEW c \in CPUs, NEW t \in Threads, SleepSched(c, t) PROVE SleepsOnItself'
  BY <1>0, <1>4 DEF SleepSched, SleepsOnItself, TypeOK
<1>5. ASSUME NEW c \in CPUs, NEW t \in Threads, Dispatch(c, t) \/ Preempt(c, t)
      PROVE  SleepsOnItself'
  BY <1>0, <1>5 DEF Dispatch, Preempt, SleepsOnItself, TypeOK
<1>6. ASSUME NEW c \in CPUs, Kill(c) PROVE SleepsOnItself'
  BY <1>0, <1>6 DEF Kill, SleepsOnItself, TypeOK
<1>7. ASSUME NEW c \in CPUs, NEW t \in Threads, NEW i \in Ids, NEW s \in Slots,
             LockEnqueue(c, t, i, s)
      PROVE  SleepsOnItself'
  BY <1>0, <1>3, <1>7 DEF LockEnqueue, LockCall, Enters, schedState, TypeOK
<1>8. ASSUME NEW c \in CPUs, NEW t \in Threads,
             \/ LockTake(c, t) \/ SleepExchange(c, t) \/ Reacquire(c, t)
             \/ ReapBegin(c, t) \/ ReapEnd(c, t)
      PROVE  SleepsOnItself'
  BY <1>0, <1>3, <1>8
     DEF LockTake, SleepExchange, Reacquire, ReapBegin, ReapEnd, schedState, TypeOK
<1> QED
  BY <1>1, <1>2, <1>4, <1>5, <1>6, <1>7, <1>8
     DEF Next, Call, Continue, Alloc, Dealloc, LockFree, Unlock, YieldHandOver, YieldUnlock,
         vars, schedState

(* The reason to sleep seen under mtable.lock still holds when the thread   *)
(* is about to sleep: nobody else runs in between.                          *)
LEMMA JustifiedNext == ASSUME OneCpu, OneCpuInv, [Next]_vars PROVE SleepIsJustified'
<1>0. TypeOK /\ SleepIsJustified /\ RunsOnCpu
  BY DEF OneCpuInv, IInv
<1> SUFFICES ASSUME NEW t \in Threads, pc'[t] = "sleep" PROVE MustWait(t)'
  BY DEF SleepIsJustified
<1>1. CASE pc[t] # "sleep"
  <2>1. \E c \in CPUs : SleepExchange(c, t)
    BY <1>0, <1>1
       DEF Next, Call, Continue, Alloc, Dealloc, LockFree, LockEnqueue, LockTake, Unlock,
           YieldHandOver, YieldUnlock, SleepExchange, SleepSched, Reacquire, ReapBegin, ReapEnd,
           Dispatch, Preempt, Kill, vars, TypeOK
  <2> QED
    BY <2>1 DEF SleepExchange, MustWait, mutexState
<1>2. CASE pc[t] = "sleep"
  <2>1. MustWait(t) /\ \A c \in CPUs : thread[c] = t
    BY <1>0, <1>2, Alone DEF SleepIsJustified
  <2>2. UNCHANGED <<lockingThread, waitingThreadsQueue, ptr>>
    BY <1>0, <1>2, <2>1, NoneAssumption
       DEF Next, Call, Continue, Alloc, Dealloc, LockFree, LockCall, LockEnqueue, LockTake, Unlock,
           YieldHandOver, YieldCall, YieldUnlock, SleepExchange, SleepSched, Reacquire, ReapBegin,
           ReapEnd, Dispatch, Preempt, Kill, Enters, vars, mutexState, TypeOK
  <2> QED
    BY <2>1, <2>2 DEF MustWait
<1> QED
  BY <1>1, <1>2

(* The waiter whose turn it is stays awake once the mutex is released. *)
LEMMA WakeupNext == ASSUME OneCpu, OneCpuInv, [Next]_vars PROVE NoLostWakeup'
<1>0. TypeOK /\ NoLostWakeup /\ RunsOnCpu /\ SleepIsJustified /\ NoOrphanLock /\ IInv
  BY DEF OneCpuInv, IInv
<1>1. CASE UNCHANGED <<lockingThread, waitingThreadsQueue, state>>
  BY <1>0, <1>1 DEF NoLostWakeup
<1>2. ASSUME NEW s \in Slots, Unlock1(s), waitingThreadsQueue' = waitingThreadsQueue
      PROVE  NoLostWakeup'
  <2>1. \A r \in Slots : r # s => lockingThread'[r] = lockingThread[r]
    BY <1>0, <1>2, UnlockFacts DEF TypeOK
  <2>2. ASSUME NEW r \in Slots, lockingThread'[r] = None, waitingThreadsQueue[r] # << >>
        PROVE  state'[Head(waitingThreadsQueue[r])] # "SLEEPING"
    <3>1. Head(waitingThreadsQueue[r]) \in Threads
      BY <1>0, <2>2, HeadFacts
    <3>2. CASE r = s
      BY <1>2, <2>2, <3>2, UnlockStates
    <3>3. CASE r # s
      BY <1>0, <1>2, <2>1, <2>2, <3>1, <3>3, UnlockStates DEF NoLostWakeup
    <3> QED
      BY <3>2, <3>3
  <2> QED
    BY <1>2, <2>2 DEF NoLostWakeup
<1>3. ASSUME NEW c \in CPUs, NEW t \in Threads, NEW i \in Ids, NEW s \in Slots,
             Dealloc(c, t, i, s)
      PROVE  NoLostWakeup'
  BY <1>0, <1>3 DEF Dealloc, NoLostWakeup, NoOrphanLock, TypeOK, schedState
<1>4. ASSUME NEW c \in CPUs, NEW t \in Threads, NEW i \in Ids, NEW s \in Slots,
             LockFree(c, t, i, s)
      PROVE  NoLostWakeup'
  BY <1>0, <1>4, NoneAssumption DEF LockFree, NoLostWakeup, TypeOK, schedState
<1>5. ASSUME NEW c \in CPUs, NEW t \in Threads, NEW i \in Ids, NEW s \in Slots,
             LockEnqueue(c, t, i, s)
      PROVE  NoLostWakeup'
  <2> DEFINE q == waitingThreadsQueue[s]
  <2>1. q \in Seq(Threads) /\ state[t] = "RUNNING"
    BY <1>0, <1>5 DEF LockEnqueue, LockCall, Enters, TypeOK, RunsOnCpu
  <2>2. Append(q, t) # << >> /\ Head(Append(q, t)) = IF q = << >> THEN t ELSE Head(q)
    <3>1. Append(q, t) # << >> /\ Head(Append(q, t)) = Append(q, t)[1]
      BY <2>1, AppendNotEmpty
    <3>2. CASE q = << >>
      BY <2>1, <3>1, <3>2
    <3>3. CASE q # << >>
      BY <2>1, <3>1, <3>3
    <3> QED
      BY <3>2, <3>3
  <2>3. /\ lockingThread' = lockingThread /\ state' = state
        /\ waitingThreadsQueue'[s] = Append(q, t)
        /\ \A r \in Slots : r # s => waitingThreadsQueue'[r] = waitingThreadsQueue[r]
    BY <1>0, <1>5 DEF LockEnqueue, schedState, TypeOK
  <2> QED
    BY <1>0, <2>1, <2>2, <2>3 DEF NoLostWakeup
<1>6. ASSUME NEW c \in CPUs, NEW t \in Threads, LockTake(c, t) PROVE NoLostWakeup'
  <2>1. /\ ptr[t] \in Slots /\ lockingThread'[ptr[t]] = t /\ state' = state
        /\ \A r \in Slots : r # ptr[t] => /\ lockingThread'[r] = lockingThread[r]
                                          /\ waitingThreadsQueue'[r] = waitingThreadsQueue[r]
    BY <1>0, <1>6, WaiterFacts DEF LockTake, TypeOK, schedState, InLock
  <2> QED
    BY <1>0, <2>1, NoneAssumption DEF NoLostWakeup
<1>7. ASSUME NEW c \in CPUs, NEW t \in Threads, NEW i \in Ids, NEW j \in Ids,
             NEW m1 \in Slots, NEW m2 \in Slots, YieldHandOver(c, t, i, j, m1, m2)
      PROVE  NoLostWakeup'
  <2>1. Head(waitingThreadsQueue[m2]) \in Threads
    BY <1>0, <1>7, HeadFacts DEF YieldHandOver
  <2>2. /\ waitingThreadsQueue' = waitingThreadsQueue /\ state' = state
        /\ lockingThread'[m1] = Head(waitingThreadsQueue[m2])
        /\ \A r \in Slots : r # m1 => lockingThread'[r] = lockingThread[r]
    BY <1>0, <1>7 DEF YieldHandOver, TypeOK, schedState
  <2> QED
    BY <1>0, <2>1, <2>2, NoneAssumption DEF NoLostWakeup
<1>8. ASSUME NEW c \in CPUs, NEW t \in Threads, SleepSched(c, t) PROVE NoLostWakeup'
  <2>1. /\ lockingThread' = lockingThread /\ waitingThreadsQueue' = waitingThreadsQueue
        /\ pc[t] = "sleep" /\ \A u \in Threads : u # t => state'[u] = state[u]
    BY <1>0, <1>8 DEF SleepSched, mutexState, TypeOK
  <2>2. MustWait(t)
    BY <1>0, <2>1 DEF SleepIsJustified
  <2>3. ASSUME NEW r \in Slots, lockingThread[r] = None, waitingThreadsQueue[r] # << >>
        PROVE  state'[Head(waitingThreadsQueue[r])] # "SLEEPING"
    <3>1. Head(waitingThreadsQueue[r]) \in Threads /\ ptr[Head(waitingThreadsQueue[r])] = r
      BY <1>0, <2>3, HeadFacts
    <3>2. Head(waitingThreadsQueue[r]) # t
      BY <2>2, <2>3, <3>1 DEF MustWait
    <3> QED
      BY <1>0, <2>1, <2>3, <3>1, <3>2 DEF NoLostWakeup
  <2> QED
    BY <2>1, <2>3 DEF NoLostWakeup
<1>9. ASSUME UNCHANGED <<lockingThread, waitingThreadsQueue>>,
             \A u \in Threads : state'[u] = "SLEEPING" => state[u] = "SLEEPING"
      PROVE  NoLostWakeup'
  <2>1. \A r \in Slots : waitingThreadsQueue[r] # << >> => Head(waitingThreadsQueue[r]) \in Threads
    BY <1>0, HeadFacts
  <2> QED
    BY <1>0, <1>9, <2>1 DEF NoLostWakeup
<1>10. ASSUME NEW c \in CPUs, NEW t \in Threads, Dispatch(c, t) \/ Preempt(c, t) \/ Kill(c)
       PROVE  NoLostWakeup'
  BY <1>0, <1>9, <1>10 DEF Dispatch, Preempt, Kill, mutexState, TypeOK
<1>11. ASSUME NEW c \in CPUs, Kill(c) PROVE NoLostWakeup'
  BY <1>0, <1>9, <1>11 DEF Kill, mutexState, TypeOK
<1> QED
  BY <1>1, <1>2, <1>3, <1>4, <1>5, <1>6, <1>7, <1>8, <1>10, <1>11
     DEF Next, Call, Continue, Alloc, Unlock, YieldUnlock, SleepExchange, Reacquire, ReapBegin,
         ReapEnd, vars, mutexState, schedState

-----------------------------------------------------------------------------
(* On one processor the invariant of the sleep protocol is inductive.       *)
THEOREM OneCpuInvariant == ASSUME OneCpu PROVE Spec => []OneCpuInv
<1>1. Init => OneCpuInv
  <2> SUFFICES ASSUME Init PROVE OneCpuInv
    OBVIOUS
  <2>1. RunsOnCpu /\ SectionRuns /\ SleepsOnItself /\ SleepIsJustified /\ NoLostWakeup
    BY NoneAssumption
       DEF Init, RunsOnCpu, SectionRuns, SleepsOnItself, SleepIsJustified, NoLostWakeup
  <2> QED
    BY <2>1, IInvInit DEF OneCpuInv
<1>2. OneCpuInv /\ [Next]_vars => OneCpuInv'
  <2> SUFFICES ASSUME OneCpuInv, [Next]_vars PROVE OneCpuInv'
    OBVIOUS
  <2>1. IInv'
    BY TypeNext, ControlNext, QueuedNext, NamesNext, LockedNext, HeldNext, OwnerNext
       DEF OneCpuInv, IInv
  <2>2. RunsOnCpu' /\ SectionRuns' /\ SleepsOnItself' /\ SleepIsJustified' /\ NoLostWakeup'
    BY OneCpu, RunsNext, SectionNext, SleepsNext, JustifiedNext, WakeupNext
  <2> QED
    BY <2>1, <2>2 DEF OneCpuInv
<1> QED
  BY <1>1, <1>2, PTL DEF Spec

(* On one processor no wakeup is lost, whatever the interleaving of lock,   *)
(* unlock, yieldlock, kill and preemption.                                  *)
THEOREM NoWakeupLost == ASSUME OneCpu PROVE Spec => []NoLostWakeup
<1>1. OneCpuInv => NoLostWakeup
  BY DEF OneCpuInv
<1> QED
  BY <1>1, OneCpuInvariant, OneCpu, PTL

(* On one processor no running thread ever finds a spinlock taken, so the   *)
(* opposite lock orders of sleep and clean_thread cannot deadlock.          *)
THEOREM NoSpinning == ASSUME OneCpu PROVE Spec => []NeverSpins
<1>1. OneCpuInv => NeverSpins
  <2> SUFFICES ASSUME OneCpuInv, NEW c \in CPUs, thread[c] # None
               PROVE  mtable \in {thread[c], None} /\ ptable \in {thread[c], None}
    BY DEF NeverSpins
  <2>1. ASSUME NEW t \in Threads, mtable = t \/ ptable = t PROVE thread[c] = t
    BY <2>1, OneCpu, Alone DEF OneCpuInv, IInv, SpinlockControl
  <2> QED
    BY <2>1 DEF OneCpuInv, IInv, TypeOK
<1> QED
  BY <1>1, OneCpuInvariant, OneCpu, PTL
=============================================================================
