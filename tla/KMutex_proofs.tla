---------------------------- MODULE KMutex_proofs ----------------------------
(***************************************************************************)
(* Proofs about KMutex, for every number of threads, mutexes and           *)
(* processors.                                                             *)
(***************************************************************************)
EXTENDS KMutex, FiniteSetTheorems, TLAPS

-----------------------------------------------------------------------------
(* What the invariant says of the mutex a thread waits for: it is in use,   *)
(* locked, and its queue is not empty.                                      *)
LEMMA WaiterFacts ==
  ASSUME IInv, NEW t \in Threads, pc[t] \in InLock
  PROVE  /\ ptr[t] \in Slots
         /\ waitingThreadsQueue[ptr[t]] \in Seq(Threads)
         /\ waitingThreadsQueue[ptr[t]] # << >>
         /\ isLocked[ptr[t]] /\ isUsed[ptr[t]] /\ id[ptr[t]] \in Ids
<1>1. ptr[t] \in Slots /\ waitingThreadsQueue[ptr[t]] \in Seq(Threads)
  BY DEF IInv, QueuedOnce, TypeOK
<1>2. waitingThreadsQueue[ptr[t]] # << >>
  BY <1>1 DEF IInv, QueuedOnce
<1>3. isLocked[ptr[t]] /\ isUsed[ptr[t]]
  BY <1>1, <1>2 DEF IInv, NoOrphanLock, LockedIsUsed
<1>4. id[ptr[t]] \in Ids
  BY <1>1, <1>3, BoundsAssumption DEF IInv, TypeOK, IdsUnique, Ids
<1> QED
  BY <1>1, <1>2, <1>3, <1>4

(* A queue somebody has just joined is not empty. *)
LEMMA AppendNotEmpty ==
  ASSUME NEW S, NEW q \in Seq(S), NEW x \in S
  PROVE  Append(q, x) # << >>
<1>1. Len(Append(q, x)) = Len(q) + 1 /\ Len(q) \in Nat
  OBVIOUS
<1>2. Len(<< >>) = 0
  OBVIOUS
<1> QED
  BY <1>1, <1>2

(* Waking threads up changes nothing but scheduling states. *)
LEMMA WakeupType ==
  ASSUME TypeOK, NEW u, Wakeup1(u)
  PROVE  state' \in [Threads -> {"RUNNABLE", "RUNNING", "SLEEPING"}]
  BY DEF TypeOK, Wakeup1

(* The effect of kthread_mutex_unlock1, by variable. *)
LEMMA UnlockFacts ==
  ASSUME TypeOK, NEW s \in Slots, Unlock1(s)
  PROVE  /\ lockingThread' = [lockingThread EXCEPT ![s] = None]
         /\ isLocked' = [isLocked EXCEPT ![s] = (waitingThreadsQueue[s] # << >> /\ isLocked[s])]
         /\ state' \in [Threads -> {"RUNNABLE", "RUNNING", "SLEEPING"}]
<1>1. CASE waitingThreadsQueue[s] # << >>
  <2>1. isLocked' = isLocked /\ Wakeup1(Head(waitingThreadsQueue[s]))
    BY <1>1 DEF Unlock1
  <2> QED
    BY <1>1, <2>1, WakeupType DEF Unlock1, TypeOK
<1>2. CASE waitingThreadsQueue[s] = << >>
  BY <1>2 DEF Unlock1, TypeOK
<1> QED
  BY <1>1, <1>2

-----------------------------------------------------------------------------
(* Type correctness: every variable keeps its domain, whatever the calls. *)
LEMMA TypeNext == IInv /\ [Next]_vars => TypeOK'
<1> SUFFICES ASSUME IInv, [Next]_vars PROVE TypeOK'
  OBVIOUS
<1>0. TypeOK
  BY DEF IInv
<1> USE <1>0, BoundsAssumption DEF TypeOK, InLock
<1>1. CASE UNCHANGED vars
  BY <1>1 DEF vars, mutexState, locks, schedState
<1>2. ASSUME NEW c \in CPUs, NEW t \in Threads, NEW s \in Slots, Alloc(c, t, s) PROVE TypeOK'
  BY <1>2 DEF Alloc, locks, schedState, Ids
<1>3. ASSUME NEW c \in CPUs, NEW t \in Threads, NEW i \in Ids, NEW s \in Slots,
             Dealloc(c, t, i, s)
      PROVE  TypeOK'
  BY <1>3 DEF Dealloc, locks, schedState
<1>4. ASSUME NEW c \in CPUs, NEW t \in Threads, NEW i \in Ids, NEW s \in Slots,
             LockFree(c, t, i, s)
      PROVE  TypeOK'
  BY <1>4 DEF LockFree, locks, schedState
<1>5. ASSUME NEW c \in CPUs, NEW t \in Threads, NEW i \in Ids, NEW s \in Slots,
             LockEnqueue(c, t, i, s)
      PROVE  TypeOK'
  BY <1>5 DEF LockEnqueue, schedState
<1>6. ASSUME NEW c \in CPUs, NEW t \in Threads, NEW i \in Ids, NEW s \in Slots,
             Unlock(c, t, i, s)
      PROVE  TypeOK'
  <2>0. Unlock1(s)
    BY <1>6 DEF Unlock
  <2>1. /\ lockingThread' \in [Slots -> Threads \cup {None}] /\ isLocked' \in [Slots -> BOOLEAN]
        /\ state' \in [Threads -> {"RUNNABLE", "RUNNING", "SLEEPING"}]
    BY <2>0, UnlockFacts
  <2>2. held' \in [Threads -> SUBSET Ids]
    BY <1>6 DEF Unlock
  <2> QED
    BY <1>6, <2>1, <2>2 DEF Unlock, locks
<1>7. ASSUME NEW c \in CPUs, NEW t \in Threads, NEW i \in Ids, NEW j \in Ids,
             NEW m1 \in Slots, NEW m2 \in Slots, YieldHandOver(c, t, i, j, m1, m2)
      PROVE  TypeOK'
  <2>1. Head(waitingThreadsQueue[m2]) \in Threads
    BY <1>7 DEF YieldHandOver
  <2> QED
    BY <1>7, <2>1 DEF YieldHandOver, locks, schedState
<1>8. ASSUME NEW c \in CPUs, NEW t \in Threads, NEW i \in Ids, NEW j \in Ids,
             NEW m1 \in Slots, NEW m2 \in Slots, YieldUnlock(c, t, i, j, m1, m2)
      PROVE  TypeOK'
  <2>0. Unlock1(m1)
    BY <1>8 DEF YieldUnlock
  <2>1. /\ lockingThread' \in [Slots -> Threads \cup {None}] /\ isLocked' \in [Slots -> BOOLEAN]
        /\ state' \in [Threads -> {"RUNNABLE", "RUNNING", "SLEEPING"}]
    BY <2>0, UnlockFacts
  <2>2. held' \in [Threads -> SUBSET Ids]
    BY <1>8 DEF YieldUnlock
  <2> QED
    BY <1>8, <2>1, <2>2 DEF YieldUnlock, locks
<1>9. ASSUME NEW c \in CPUs, NEW t \in Threads, LockTake(c, t) PROVE TypeOK'
  <2>1. /\ ptr[t] \in Slots /\ waitingThreadsQueue[ptr[t]] \in Seq(Threads)
        /\ waitingThreadsQueue[ptr[t]] # << >> /\ id[ptr[t]] \in Ids
    BY <1>9, WaiterFacts DEF LockTake
  <2>2. Tail(waitingThreadsQueue[ptr[t]]) \in Seq(Threads)
    BY <2>1
  <2> QED
    BY <1>9, <2>1, <2>2 DEF LockTake, schedState
<1>10. ASSUME NEW c \in CPUs, NEW t \in Threads, SleepExchange(c, t) PROVE TypeOK'
  BY <1>10 DEF SleepExchange, mutexState, schedState
<1>11. ASSUME NEW c \in CPUs, NEW t \in Threads, SleepSched(c, t) PROVE TypeOK'
  BY <1>11 DEF SleepSched, mutexState
<1>12. ASSUME NEW c \in CPUs, NEW t \in Threads, Reacquire(c, t) PROVE TypeOK'
  BY <1>12 DEF Reacquire, mutexState, schedState
<1>13. ASSUME NEW c \in CPUs, NEW t \in Threads, ReapBegin(c, t) \/ ReapEnd(c, t) PROVE TypeOK'
  BY <1>13 DEF ReapBegin, ReapEnd, mutexState, schedState
<1>14. ASSUME NEW c \in CPUs, NEW t \in Threads, Dispatch(c, t) PROVE TypeOK'
  BY <1>14 DEF Dispatch, mutexState, locks
<1>15. ASSUME NEW c \in CPUs, NEW t \in Threads, Preempt(c, t) PROVE TypeOK'
  BY <1>15 DEF Preempt, mutexState, locks
<1>16. ASSUME NEW c \in CPUs, Kill(c) PROVE TypeOK'
  BY <1>16 DEF Kill, mutexState, locks
<1> HIDE DEF TypeOK, InLock
<1> QED
  BY <1>1, <1>2, <1>3, <1>4, <1>5, <1>6, <1>7, <1>8, <1>9, <1>10, <1>11, <1>12, <1>13,
     <1>14, <1>15, <1>16 DEF Next, Call, Continue

(* The spinlocks are held exactly inside the sections that acquire them. *)
LEMMA ControlNext == IInv /\ [Next]_vars => SpinlockControl'
<1> SUFFICES ASSUME IInv, [Next]_vars PROVE SpinlockControl'
  OBVIOUS
<1>0. TypeOK /\ SpinlockControl
  BY DEF IInv
<1> USE <1>0, NoneAssumption DEF TypeOK, SpinlockControl, InLock
<1>1. CASE UNCHANGED <<pc, mtable, ptable>>
  BY <1>1
<1>2. ASSUME NEW c \in CPUs, NEW t \in Threads, NEW i \in Ids, NEW s \in Slots,
             LockEnqueue(c, t, i, s)
      PROVE  SpinlockControl'
  BY <1>2 DEF LockEnqueue, LockCall, Enters
<1>3. ASSUME NEW c \in CPUs, NEW t \in Threads, LockTake(c, t) PROVE SpinlockControl'
  BY <1>3 DEF LockTake
<1>4. ASSUME NEW c \in CPUs, NEW t \in Threads, SleepExchange(c, t) PROVE SpinlockControl'
  BY <1>4 DEF SleepExchange
<1>5. ASSUME NEW c \in CPUs, NEW t \in Threads, SleepSched(c, t) PROVE SpinlockControl'
  BY <1>5 DEF SleepSched
<1>6. ASSUME NEW c \in CPUs, NEW t \in Threads, Reacquire(c, t) PROVE SpinlockControl'
  BY <1>6 DEF Reacquire
<1>7. ASSUME NEW c \in CPUs, NEW t \in Threads, ReapBegin(c, t) \/ ReapEnd(c, t)
      PROVE  SpinlockControl'
  BY <1>7 DEF ReapBegin, ReapEnd
<1>8. ASSUME NEW c \in CPUs, NEW t \in Threads, Dispatch(c, t) PROVE SpinlockControl'
  BY <1>8 DEF Dispatch, locks
<1> QED
  BY <1>1, <1>2, <1>3, <1>4, <1>5, <1>6, <1>7, <1>8
     DEF Next, Call, Continue, Alloc, Dealloc, LockFree, Unlock, YieldHandOver, YieldUnlock,
         Preempt, Kill, vars, locks, schedState

(* A thread is in the queue of the mutex it waits for, once. *)
LEMMA QueuedNext == IInv /\ [Next]_vars => QueuedOnce'
<1> SUFFICES ASSUME IInv, [Next]_vars PROVE QueuedOnce'
  OBVIOUS
<1>0. TypeOK /\ QueuedOnce
  BY DEF IInv
<1>1. CASE UNCHANGED <<pc, ptr, waitingThreadsQueue>>
  BY <1>0, <1>1 DEF QueuedOnce
<1>2. ASSUME NEW c \in CPUs, NEW t \in Threads, NEW i \in Ids, NEW s \in Slots,
             Dealloc(c, t, i, s)
      PROVE  QueuedOnce'
  <2>1. waitingThreadsQueue[s] = << >>
    BY <1>2 DEF Dealloc, IInv, NoOrphanLock
  <2>2. waitingThreadsQueue' = waitingThreadsQueue
    BY <1>0, <1>2, <2>1 DEF Dealloc, TypeOK
  <2> QED
    BY <1>0, <1>2, <2>2 DEF Dealloc, QueuedOnce
<1>3. ASSUME NEW c \in CPUs, NEW t \in Threads, NEW i \in Ids, NEW s \in Slots,
             LockEnqueue(c, t, i, s)
      PROVE  QueuedOnce'
  <2> DEFINE q == waitingThreadsQueue[s]
  <2>1. q \in Seq(Threads) /\ pc[t] = "user"
    BY <1>0, <1>3 DEF LockEnqueue, LockCall, Enters, TypeOK
  <2>2. /\ waitingThreadsQueue' = [waitingThreadsQueue EXCEPT ![s] = Append(q, t)]
        /\ pc' = [pc EXCEPT ![t] = "check"] /\ ptr' = [ptr EXCEPT ![t] = s]
    BY <1>3 DEF LockEnqueue
  <2>3. \A k \in 1..Len(q) : q[k] # t
    BY <1>0, <2>1 DEF QueuedOnce, InLock
  <2>4. /\ Len(Append(q, t)) = Len(q) + 1 /\ Append(q, t)[Len(q) + 1] = t
        /\ \A k \in 1..Len(q) : Append(q, t)[k] = q[k]
    BY <2>1
  <2>5. ASSUME NEW u \in Threads, pc'[u] \in InLock
        PROVE  /\ ptr'[u] \in Slots
               /\ \E k \in 1..Len(waitingThreadsQueue'[ptr'[u]]) : waitingThreadsQueue'[ptr'[u]][k] = u
    <3>1. CASE u = t
      BY <1>0, <2>1, <2>2, <2>4, <3>1 DEF TypeOK
    <3>2. CASE u # t
      <4>1. pc[u] \in InLock /\ ptr'[u] = ptr[u] /\ ptr[u] \in Slots
        BY <1>0, <2>2, <2>5, <3>2 DEF TypeOK, QueuedOnce
      <4>2. PICK k \in 1..Len(waitingThreadsQueue[ptr[u]]) : waitingThreadsQueue[ptr[u]][k] = u
        BY <1>0, <4>1 DEF QueuedOnce
      <4>3. CASE ptr[u] = s
        <5>1. k \in 1..Len(Append(q, t)) /\ Append(q, t)[k] = u
          BY <2>1, <2>4, <4>2, <4>3
        <5> QED
          BY <1>0, <2>2, <4>1, <4>3, <5>1 DEF TypeOK
      <4>4. CASE ptr[u] # s
        BY <1>0, <2>2, <4>1, <4>2, <4>4 DEF TypeOK
      <4> QED
        BY <4>3, <4>4
    <3> QED
      BY <3>1, <3>2
  <2>6. ASSUME NEW r \in Slots, NEW k \in 1..Len(waitingThreadsQueue'[r])
        PROVE  LET u == waitingThreadsQueue'[r][k]
               IN  /\ pc'[u] \in InLock /\ ptr'[u] = r
                   /\ \A l \in 1..Len(waitingThreadsQueue'[r]) : waitingThreadsQueue'[r][l] = u => l = k
    <3>1. CASE r = s
      <4>1. waitingThreadsQueue'[r] = Append(q, t)
        BY <1>0, <2>2, <3>1 DEF TypeOK
      <4>2. CASE k = Len(q) + 1
        BY <1>0, <2>1, <2>2, <2>3, <2>4, <3>1, <4>1, <4>2 DEF TypeOK, InLock
      <4>3. CASE k # Len(q) + 1
        <5>1. k \in 1..Len(q) /\ q[k] \in Threads /\ q[k] # t
          BY <2>1, <2>3, <2>4, <4>1, <4>3
        <5>2. pc[q[k]] \in InLock /\ ptr[q[k]] = s /\ \A l \in 1..Len(q) : q[l] = q[k] => l = k
          BY <1>0, <5>1 DEF QueuedOnce
        <5>3. pc'[q[k]] \in InLock /\ ptr'[q[k]] = s
          BY <1>0, <2>2, <5>1, <5>2 DEF TypeOK
        <5> QED
          BY <2>1, <2>4, <3>1, <4>1, <5>1, <5>2, <5>3
      <4> QED
        BY <4>2, <4>3
    <3>2. CASE r # s
      <4>1. waitingThreadsQueue'[r] = waitingThreadsQueue[r]
        BY <1>0, <2>2, <3>2 DEF TypeOK
      <4>2. waitingThreadsQueue[r][k] \in Threads
        BY <1>0, <4>1, <2>6 DEF TypeOK
      <4>3. /\ pc[waitingThreadsQueue[r][k]] \in InLock /\ ptr[waitingThreadsQueue[r][k]] = r
            /\ waitingThreadsQueue[r][k] # t
        BY <1>0, <2>1, <4>1, <2>6 DEF QueuedOnce, InLock
      <4> QED
        BY <1>0, <2>2, <2>6, <4>1, <4>2, <4>3 DEF TypeOK, QueuedOnce
    <3> QED
      BY <3>1, <3>2
  <2> QED
    BY <2>5, <2>6 DEF QueuedOnce
<1>4. ASSUME NEW c \in CPUs, NEW t \in Threads, LockTake(c, t) PROVE QueuedOnce'
  <2> DEFINE s == ptr[t]
             q == waitingThreadsQueue[s]
  <2>1. s \in Slots /\ q \in Seq(Threads) /\ q # << >> /\ q[1] = t
    BY <1>4, WaiterFacts DEF LockTake, MustWait, InLock
  <2>2. /\ waitingThreadsQueue' = [waitingThreadsQueue EXCEPT ![s] = Tail(q)]
        /\ pc' = [pc EXCEPT ![t] = "user"] /\ ptr' = [ptr EXCEPT ![t] = 0]
    BY <1>4 DEF LockTake
  <2>3. /\ Tail(q) \in Seq(Threads) /\ Len(Tail(q)) = Len(q) - 1 /\ Len(q) \in Nat \ {0}
        /\ \A k \in 1..(Len(q) - 1) : Tail(q)[k] = q[k + 1]
    BY <2>1
  <2>4. \A k \in 1..Len(q) : q[k] = t => k = 1
    BY <1>0, <2>1, <2>3 DEF QueuedOnce
  <2>5. ASSUME NEW u \in Threads, pc'[u] \in InLock
        PROVE  /\ ptr'[u] \in Slots
               /\ \E k \in 1..Len(waitingThreadsQueue'[ptr'[u]]) : waitingThreadsQueue'[ptr'[u]][k] = u
    <3>1. u # t /\ pc[u] \in InLock /\ ptr'[u] = ptr[u] /\ ptr[u] \in Slots
      BY <1>0, <2>2, <2>5 DEF TypeOK, QueuedOnce, InLock
    <3>2. PICK k \in 1..Len(waitingThreadsQueue[ptr[u]]) : waitingThreadsQueue[ptr[u]][k] = u
      BY <1>0, <3>1 DEF QueuedOnce
    <3>3. CASE ptr[u] = s
      <4>1. k - 1 \in 1..Len(Tail(q)) /\ Tail(q)[k - 1] = u
        BY <2>1, <2>3, <3>1, <3>2, <3>3
      <4> QED
        BY <1>0, <2>2, <3>1, <3>3, <4>1 DEF TypeOK
    <3>4. CASE ptr[u] # s
      BY <1>0, <2>2, <3>1, <3>2, <3>4 DEF TypeOK
    <3> QED
      BY <3>3, <3>4
  <2>6. ASSUME NEW r \in Slots, NEW k \in 1..Len(waitingThreadsQueue'[r])
        PROVE  LET u == waitingThreadsQueue'[r][k]
               IN  /\ pc'[u] \in InLock /\ ptr'[u] = r
                   /\ \A l \in 1..Len(waitingThreadsQueue'[r]) : waitingThreadsQueue'[r][l] = u => l = k
    <3>1. CASE r = s
      <4>1. waitingThreadsQueue'[r] = Tail(q)
        BY <1>0, <2>2, <3>1 DEF TypeOK
      <4>2. /\ k + 1 \in 1..Len(q) /\ Tail(q)[k] = q[k + 1]
            /\ q[k + 1] \in Threads /\ q[k + 1] # t
        BY <2>1, <2>3, <2>4, <2>6, <4>1
      <4>3. /\ pc[q[k + 1]] \in InLock /\ ptr[q[k + 1]] = s
            /\ \A l \in 1..Len(q) : q[l] = q[k + 1] => l = k + 1
        BY <1>0, <2>1, <4>2 DEF QueuedOnce
      <4>4. pc'[q[k + 1]] \in InLock /\ ptr'[q[k + 1]] = s
        BY <1>0, <2>2, <4>2, <4>3 DEF TypeOK
      <4> QED
        BY <2>1, <2>3, <3>1, <4>1, <4>2, <4>3, <4>4
    <3>2. CASE r # s
      <4>1. waitingThreadsQueue'[r] = waitingThreadsQueue[r]
        BY <1>0, <2>2, <3>2 DEF TypeOK
      <4>2. waitingThreadsQueue[r][k] \in Threads
        BY <1>0, <4>1, <2>6 DEF TypeOK
      <4>3. /\ pc[waitingThreadsQueue[r][k]] \in InLock /\ ptr[waitingThreadsQueue[r][k]] = r
            /\ waitingThreadsQueue[r][k] # t
        BY <1>0, <3>2, <4>1, <2>6 DEF QueuedOnce
      <4> QED
        BY <1>0, <2>2, <2>6, <4>1, <4>2, <4>3 DEF TypeOK, QueuedOnce
    <3> QED
      BY <3>1, <3>2
  <2> QED
    BY <2>5, <2>6 DEF QueuedOnce
<1>5. ASSUME NEW c \in CPUs, NEW t \in Threads,
             SleepExchange(c, t) \/ SleepSched(c, t) \/ Reacquire(c, t) \/ Dispatch(c, t)
      PROVE  QueuedOnce'
  <2>1. /\ waitingThreadsQueue' = waitingThreadsQueue /\ ptr' = ptr
        /\ pc' \in [Threads -> InLock \cup {"user", "reap"}]
        /\ \A u \in Threads : pc'[u] \in InLock <=> pc[u] \in InLock
    <3>1. CASE SleepExchange(c, t) \/ SleepSched(c, t) \/ Reacquire(c, t)
      BY <1>0, <3>1 DEF SleepExchange, SleepSched, Reacquire, mutexState, TypeOK, InLock
    <3>2. CASE Dispatch(c, t)
      BY <1>0, <3>2 DEF Dispatch, mutexState, TypeOK, InLock
    <3> QED
      BY <1>5, <3>1, <3>2
  <2>2. \A r \in Slots : \A k \in 1..Len(waitingThreadsQueue[r]) : waitingThreadsQueue[r][k] \in Threads
    BY <1>0 DEF TypeOK
  <2> QED
    BY <1>0, <2>1, <2>2 DEF QueuedOnce
<1>6. ASSUME NEW c \in CPUs, NEW t \in Threads, ReapBegin(c, t) \/ ReapEnd(c, t)
      PROVE  QueuedOnce'
  <2>1. /\ waitingThreadsQueue' = waitingThreadsQueue /\ ptr' = ptr
        /\ \A u \in Threads : pc'[u] \in InLock <=> pc[u] \in InLock
    BY <1>0, <1>6 DEF ReapBegin, ReapEnd, mutexState, TypeOK, InLock
  <2>2. \A r \in Slots : \A k \in 1..Len(waitingThreadsQueue[r]) : waitingThreadsQueue[r][k] \in Threads
    BY <1>0 DEF TypeOK
  <2> QED
    BY <1>0, <2>1, <2>2 DEF QueuedOnce
<1> QED
  BY <1>1, <1>2, <1>3, <1>4, <1>5, <1>6
     DEF Next, Call, Continue, Alloc, LockFree, Unlock, YieldHandOver, YieldUnlock,
         Preempt, Kill, vars, mutexState, locks, schedState

(* Ids name at most one slot and are never handed out twice. *)
LEMMA NamesNext == IInv /\ [Next]_vars => IdsUnique'
<1> SUFFICES ASSUME IInv, [Next]_vars PROVE IdsUnique'
  OBVIOUS
<1>0. TypeOK /\ IdsUnique
  BY DEF IInv
<1>1. CASE UNCHANGED <<id, isUsed, nextmutexid>>
  BY <1>0, <1>1 DEF IdsUnique
<1>2. ASSUME NEW c \in CPUs, NEW t \in Threads, NEW s \in Slots, Alloc(c, t, s) PROVE IdsUnique'
  <2>1. /\ id' = [id EXCEPT ![s] = nextmutexid] /\ isUsed' = [isUsed EXCEPT ![s] = TRUE]
        /\ nextmutexid' = nextmutexid + 1 /\ nextmutexid \in Nat \ {0}
    BY <1>0, <1>2, BoundsAssumption DEF Alloc, TypeOK
  <2>2. \A r \in Slots : id[r] \in Nat /\ id[r] < nextmutexid
    BY <1>0, BoundsAssumption DEF TypeOK, IdsUnique
  <2> QED
    BY <1>0, <2>1, <2>2 DEF TypeOK, IdsUnique
<1>3. ASSUME NEW c \in CPUs, NEW t \in Threads, NEW i \in Ids, NEW s \in Slots,
             Dealloc(c, t, i, s)
      PROVE  IdsUnique'
  BY <1>0, <1>3 DEF Dealloc, TypeOK, IdsUnique
<1> QED
  BY <1>1, <1>2, <1>3
     DEF Next, Call, Continue, LockFree, LockEnqueue, Unlock, YieldHandOver, YieldUnlock, LockTake,
         SleepExchange, SleepSched, Reacquire, ReapBegin, ReapEnd, Dispatch, Preempt, Kill,
         vars, mutexState

(* Unlocking keeps isLocked true to its meaning. *)
LEMMA UnlockKeeps ==
  ASSUME TypeOK, LockedIsUsed, NoOrphanLock, NEW s \in Slots, Unlock1(s),
         UNCHANGED <<isUsed, waitingThreadsQueue>>
  PROVE  (LockedIsUsed /\ NoOrphanLock)'
<1>1. /\ lockingThread' = [lockingThread EXCEPT ![s] = None]
      /\ isLocked' = [isLocked EXCEPT ![s] = (waitingThreadsQueue[s] # << >> /\ isLocked[s])]
  BY UnlockFacts
<1>2. \A r \in Slots : r # s => isLocked'[r] = isLocked[r] /\ lockingThread'[r] = lockingThread[r]
  BY <1>1 DEF TypeOK
<1>3. lockingThread'[s] = None /\ (isLocked'[s] <=> (waitingThreadsQueue[s] # << >> /\ isLocked[s]))
  BY <1>1 DEF TypeOK
<1> QED
  BY <1>2, <1>3 DEF LockedIsUsed, NoOrphanLock

(* A mutex is locked exactly while it has an owner or a waiter, and then it *)
(* is in use.                                                               *)
LEMMA LockedNext == IInv /\ [Next]_vars => (LockedIsUsed /\ NoOrphanLock)'
<1> SUFFICES ASSUME IInv, [Next]_vars PROVE (LockedIsUsed /\ NoOrphanLock)'
  OBVIOUS
<1>0. TypeOK /\ LockedIsUsed /\ NoOrphanLock
  BY DEF IInv
<1> USE <1>0, NoneAssumption DEF TypeOK, LockedIsUsed, NoOrphanLock
<1>1. CASE UNCHANGED <<isUsed, isLocked, lockingThread, waitingThreadsQueue>>
  BY <1>1
<1>2. ASSUME NEW c \in CPUs, NEW t \in Threads, NEW s \in Slots, Alloc(c, t, s)
      PROVE  (LockedIsUsed /\ NoOrphanLock)'
  BY <1>2 DEF Alloc
<1>3. ASSUME NEW c \in CPUs, NEW t \in Threads, NEW i \in Ids, NEW s \in Slots,
             Dealloc(c, t, i, s)
      PROVE  (LockedIsUsed /\ NoOrphanLock)'
  BY <1>3 DEF Dealloc
<1>4. ASSUME NEW c \in CPUs, NEW t \in Threads, NEW i \in Ids, NEW s \in Slots,
             LockFree(c, t, i, s)
      PROVE  (LockedIsUsed /\ NoOrphanLock)'
  BY <1>4 DEF LockFree, LockCall
<1>5. ASSUME NEW c \in CPUs, NEW t \in Threads, NEW i \in Ids, NEW s \in Slots,
             LockEnqueue(c, t, i, s)
      PROVE  (LockedIsUsed /\ NoOrphanLock)'
  <2>1. \A q \in Seq(Threads) : Append(q, t) # << >>
    BY AppendNotEmpty
  <2>2. Append(waitingThreadsQueue[s], t) # << >>
    BY <2>1
  <2>3. /\ isLocked[s] /\ isUsed' = isUsed /\ isLocked' = isLocked /\ lockingThread' = lockingThread
        /\ waitingThreadsQueue' = [waitingThreadsQueue EXCEPT ![s] = Append(waitingThreadsQueue[s], t)]
    BY <1>5 DEF LockEnqueue
  <2>4. \A r \in Slots : r # s => waitingThreadsQueue'[r] = waitingThreadsQueue[r]
    BY <2>3
  <2>5. waitingThreadsQueue'[s] # << >>
    BY <2>2, <2>3
  <2> QED
    BY <2>3, <2>4, <2>5
<1>6. ASSUME NEW c \in CPUs, NEW t \in Threads, NEW i \in Ids, NEW s \in Slots,
             Unlock(c, t, i, s)
      PROVE  (LockedIsUsed /\ NoOrphanLock)'
  BY <1>6, UnlockKeeps DEF Unlock
<1>7. ASSUME NEW c \in CPUs, NEW t \in Threads, NEW i \in Ids, NEW j \in Ids,
             NEW m1 \in Slots, NEW m2 \in Slots, YieldHandOver(c, t, i, j, m1, m2)
      PROVE  (LockedIsUsed /\ NoOrphanLock)'
  <2>1. Head(waitingThreadsQueue[m2]) \in Threads
    BY <1>7 DEF YieldHandOver
  <2> QED
    BY <1>7, <2>1 DEF YieldHandOver
<1>8. ASSUME NEW c \in CPUs, NEW t \in Threads, NEW i \in Ids, NEW j \in Ids,
             NEW m1 \in Slots, NEW m2 \in Slots, YieldUnlock(c, t, i, j, m1, m2)
      PROVE  (LockedIsUsed /\ NoOrphanLock)'
  BY <1>8, UnlockKeeps DEF YieldUnlock
<1>9. ASSUME NEW c \in CPUs, NEW t \in Threads, LockTake(c, t)
      PROVE  (LockedIsUsed /\ NoOrphanLock)'
  <2>1. ptr[t] \in Slots /\ isLocked[ptr[t]]
    BY <1>9, WaiterFacts DEF LockTake, InLock
  <2> QED
    BY <1>9, <2>1 DEF LockTake
<1> QED
  BY <1>1, <1>2, <1>3, <1>4, <1>5, <1>6, <1>7, <1>8, <1>9
     DEF Next, Call, Continue, SleepExchange, SleepSched, Reacquire, ReapBegin, ReapEnd,
         Dispatch, Preempt, Kill, vars, mutexState

(* A thread inside kthread_mutex_lock is queued, so whoever is at the head  *)
(* of a queue is not in user mode.                                          *)
LEMMA HeadFacts ==
  ASSUME IInv, NEW s \in Slots, waitingThreadsQueue[s] # << >>
  PROVE  LET u == Head(waitingThreadsQueue[s])
         IN  u \in Threads /\ pc[u] \in InLock /\ ptr[u] = s
<1>1. waitingThreadsQueue[s] \in Seq(Threads) /\ 1 \in 1..Len(waitingThreadsQueue[s])
  BY DEF IInv, TypeOK
<1> QED
  BY <1>1 DEF IInv, QueuedOnce

(* An id a program owns names one slot, which records it as the owner. *)
LEMMA OwnerFacts ==
  ASSUME IInv, NEW t \in Threads, NEW i \in held[t], NEW s \in GetMutexById(i)
  PROVE  s \in Slots /\ id[s] = i /\ isUsed[s] /\ isLocked[s] /\ lockingThread[s] = t /\ i # 0
<1>1. PICK r \in Slots : id[r] = i /\ isUsed[r] /\ isLocked[r] /\ lockingThread[r] = t
  BY DEF IInv, HeldIsOwned
<1>2. s \in Slots /\ id[s] = i /\ i # 0
  BY DEF GetMutexById, IInv, TypeOK, Ids
<1>3. r = s
  BY <1>1, <1>2 DEF IInv, IdsUnique
<1> QED
  BY <1>1, <1>2, <1>3

(* What a program owns stays recorded while its slot is left alone. *)
LEMMA HeldNext == IInv /\ [Next]_vars => HeldIsOwned'
<1> SUFFICES ASSUME IInv, [Next]_vars PROVE HeldIsOwned'
  OBVIOUS
<1>0. TypeOK /\ HeldIsOwned
  BY DEF IInv
<1>1. CASE UNCHANGED <<id, isUsed, isLocked, lockingThread, held>>
  BY <1>0, <1>1 DEF HeldIsOwned
<1>2. ASSUME NEW c \in CPUs, NEW t \in Threads, NEW s \in Slots, Alloc(c, t, s) PROVE HeldIsOwned'
  <2>1. /\ ~isUsed[s] /\ held' = held /\ isLocked' = isLocked /\ lockingThread' = lockingThread
        /\ \A r \in Slots : r # s => id'[r] = id[r] /\ isUsed'[r] = isUsed[r]
    BY <1>0, <1>2 DEF Alloc, GetUnusedMutex, TypeOK
  <2> QED
    BY <1>0, <2>1 DEF HeldIsOwned
<1>3. ASSUME NEW c \in CPUs, NEW t \in Threads, NEW i \in Ids, NEW s \in Slots,
             Dealloc(c, t, i, s)
      PROVE  HeldIsOwned'
  <2>1. /\ ~isLocked[s] /\ held' = held /\ isLocked' = isLocked /\ id' = id
        /\ \A r \in Slots : r # s => isUsed'[r] = isUsed[r] /\ lockingThread'[r] = lockingThread[r]
    BY <1>0, <1>3 DEF Dealloc, TypeOK
  <2> QED
    BY <1>0, <2>1 DEF HeldIsOwned
<1>4. ASSUME NEW c \in CPUs, NEW t \in Threads, NEW i \in Ids, NEW s \in Slots,
             LockFree(c, t, i, s)
      PROVE  HeldIsOwned'
  <2>1. /\ ~isLocked[s] /\ isUsed[s] /\ id[s] = i /\ id' = id /\ isUsed' = isUsed
        /\ isLocked'[s] /\ lockingThread'[s] = t
        /\ \A r \in Slots : r # s => isLocked'[r] = isLocked[r] /\ lockingThread'[r] = lockingThread[r]
        /\ \A u \in Threads : held'[u] = held[u] \cup (IF u = t THEN {i} ELSE {})
    BY <1>0, <1>4 DEF LockFree, LockCall, GetMutexById, TypeOK
  <2> QED
    BY <1>0, <2>1 DEF HeldIsOwned
<1>5. ASSUME NEW c \in CPUs, NEW t \in Threads, LockTake(c, t) PROVE HeldIsOwned'
  <2> DEFINE s == ptr[t]
  <2>1. s \in Slots /\ isLocked[s] /\ isUsed[s] /\ lockingThread[s] = None
    BY <1>5, WaiterFacts DEF LockTake, MustWait, InLock
  <2>2. /\ id' = id /\ isUsed' = isUsed /\ isLocked' = isLocked /\ lockingThread'[s] = t
        /\ \A r \in Slots : r # s => lockingThread'[r] = lockingThread[r]
        /\ \A u \in Threads : held'[u] = held[u] \cup (IF u = t THEN {id[s]} ELSE {})
    BY <1>0, <1>5, <2>1 DEF LockTake, TypeOK
  <2> QED
    BY <1>0, <2>1, <2>2, NoneAssumption DEF HeldIsOwned
<1>6. ASSUME NEW t \in Threads, NEW i \in held[t], NEW s \in GetMutexById(i), Unlock1(s),
             held' = [held EXCEPT ![t] = held[t] \ {i}], UNCHANGED <<id, isUsed>>
      PROVE  HeldIsOwned'
  <2>1. s \in Slots /\ id[s] = i /\ lockingThread[s] = t
    BY <1>6, OwnerFacts
  <2>2. \A r \in Slots : r # s => isLocked'[r] = isLocked[r] /\ lockingThread'[r] = lockingThread[r]
    BY <1>0, <1>6, <2>1, UnlockFacts DEF TypeOK
  <2>3. \A u \in Threads : held'[u] = held[u] \ (IF u = t THEN {i} ELSE {})
    BY <1>0, <1>6 DEF TypeOK
  <2>4. ASSUME NEW u \in Threads, NEW j \in held'[u]
        PROVE  \E r \in Slots : id'[r] = j /\ isUsed'[r] /\ isLocked'[r] /\ lockingThread'[r] = u
    <3>1. PICK r \in Slots : id[r] = j /\ isUsed[r] /\ isLocked[r] /\ lockingThread[r] = u
      BY <1>0, <2>3, <2>4 DEF HeldIsOwned
    <3>2. r # s
      BY <2>1, <2>3, <2>4, <3>1
    <3> QED
      BY <1>6, <2>2, <3>1, <3>2
  <2> QED
    BY <2>4 DEF HeldIsOwned
<1>7. ASSUME NEW c \in CPUs, NEW t \in Threads, NEW i \in Ids, NEW j \in Ids,
             NEW m1 \in Slots, NEW m2 \in Slots, YieldHandOver(c, t, i, j, m1, m2)
      PROVE  HeldIsOwned'
  <2> DEFINE u == Head(waitingThreadsQueue[m2])
  <2>1. u \in Threads /\ pc[u] \in InLock
    BY <1>7, HeadFacts DEF YieldHandOver
  <2>2. pc[t] = "user" /\ t # u
    BY <1>7, <2>1 DEF YieldHandOver, YieldCall, Enters, InLock
  <2>3. /\ id[m1] = i /\ isUsed[m1] /\ isLocked[m1] /\ lockingThread[m1] = t
        /\ id' = id /\ isUsed' = isUsed /\ isLocked' = isLocked
        /\ lockingThread' = [lockingThread EXCEPT ![m1] = u]
        /\ held' = [held EXCEPT ![t] = held[t] \ {i}, ![u] = held[u] \cup {i}]
    <3>1. held' = [held EXCEPT ![t] = @ \ {i}, ![u] = @ \cup {i}]
      BY <1>7 DEF YieldHandOver
    <3>2. held' = [held EXCEPT ![t] = held[t] \ {i}, ![u] = held[u] \cup {i}]
      BY <1>0, <2>1, <2>2, <3>1 DEF TypeOK
    <3> QED
      BY <1>7, <3>2 DEF YieldHandOver, YieldCall, GetMutexById
  <2>4. /\ lockingThread'[m1] = u
        /\ \A r \in Slots : r # m1 => lockingThread'[r] = lockingThread[r]
    BY <1>0, <2>3 DEF TypeOK
  <2>5. /\ held'[t] = held[t] \ {i} /\ held'[u] = held[u] \cup {i}
        /\ \A v \in Threads : v # t /\ v # u => held'[v] = held[v]
    BY <1>0, <2>1, <2>2, <2>3 DEF TypeOK
  <2>6. ASSUME NEW v \in Threads, NEW k \in held'[v]
        PROVE  \E r \in Slots : id'[r] = k /\ isUsed'[r] /\ isLocked'[r] /\ lockingThread'[r] = v
    <3>1. CASE v = u /\ k = i
      BY <2>3, <2>4, <3>1
    <3>2. CASE ~(v = u /\ k = i)
      <4>1. k \in held[v] /\ ~(v = t /\ k = i)
        BY <2>2, <2>5, <2>6, <3>2
      <4>2. PICK r \in Slots : id[r] = k /\ isUsed[r] /\ isLocked[r] /\ lockingThread[r] = v
        BY <1>0, <4>1 DEF HeldIsOwned
      <4>3. r # m1
        BY <2>3, <4>1, <4>2
      <4> QED
        BY <2>3, <2>4, <4>2, <4>3
    <3> QED
      BY <3>1, <3>2
  <2> QED
    BY <2>6 DEF HeldIsOwned
<1>8. ASSUME NEW c \in CPUs, NEW t \in Threads, NEW i \in Ids, NEW s \in Slots,
             Unlock(c, t, i, s)
      PROVE  HeldIsOwned'
  BY <1>6, <1>8 DEF Unlock
<1>9. ASSUME NEW c \in CPUs, NEW t \in Threads, NEW i \in Ids, NEW j \in Ids,
             NEW m1 \in Slots, NEW m2 \in Slots, YieldUnlock(c, t, i, j, m1, m2)
      PROVE  HeldIsOwned'
  BY <1>6, <1>9 DEF YieldUnlock, YieldCall
<1> QED
  BY <1>1, <1>2, <1>3, <1>4, <1>5, <1>7, <1>8, <1>9
     DEF Next, Call, Continue, LockEnqueue, SleepExchange, SleepSched, Reacquire, ReapBegin,
         ReapEnd, Dispatch, Preempt, Kill, vars, mutexState

(* Whoever is recorded as the owner has been told so. *)
LEMMA OwnerNext == IInv /\ [Next]_vars => OwnerHolds'
<1> SUFFICES ASSUME IInv, [Next]_vars PROVE OwnerHolds'
  OBVIOUS
<1>0. TypeOK /\ OwnerHolds
  BY DEF IInv
<1>1. CASE UNCHANGED <<id, lockingThread, held>>
  BY <1>0, <1>1 DEF OwnerHolds
<1>2. ASSUME NEW c \in CPUs, NEW t \in Threads, NEW s \in Slots, Alloc(c, t, s) PROVE OwnerHolds'
  <2>1. lockingThread[s] = None
    BY <1>2 DEF Alloc, GetUnusedMutex, IInv, LockedIsUsed, NoOrphanLock
  <2> QED
    BY <1>0, <1>2, <2>1 DEF Alloc, OwnerHolds, TypeOK
<1>3. ASSUME NEW c \in CPUs, NEW t \in Threads, NEW i \in Ids, NEW s \in Slots,
             Dealloc(c, t, i, s)
      PROVE  OwnerHolds'
  BY <1>0, <1>3 DEF Dealloc, OwnerHolds, TypeOK
<1>4. ASSUME NEW c \in CPUs, NEW t \in Threads, NEW i \in Ids, NEW s \in Slots,
             LockFree(c, t, i, s)
      PROVE  OwnerHolds'
  <2>1. /\ id' = id /\ id[s] = i /\ lockingThread'[s] = t
        /\ \A r \in Slots : r # s => lockingThread'[r] = lockingThread[r]
    BY <1>0, <1>4 DEF LockFree, LockCall, GetMutexById, TypeOK
  <2>2. \A u \in Threads : held'[u] = held[u] \cup (IF u = t THEN {i} ELSE {})
    BY <1>0, <1>4 DEF LockFree, TypeOK
  <2>3. id'[s] \in held'[t] /\ \A u \in Threads : held[u] \subseteq held'[u]
    BY <2>1, <2>2
  <2> SUFFICES ASSUME NEW r \in Slots, r # s, lockingThread[r] # None
               PROVE  id'[r] \in held'[lockingThread[r]]
    BY <2>1, <2>3 DEF OwnerHolds
  <2>4. lockingThread[r] \in Threads /\ id[r] \in held[lockingThread[r]]
    BY <1>0 DEF TypeOK, OwnerHolds
  <2> QED
    BY <2>1, <2>3, <2>4
<1>5. ASSUME NEW c \in CPUs, NEW t \in Threads, LockTake(c, t) PROVE OwnerHolds'
  <2> DEFINE s == ptr[t]
  <2>1. s \in Slots
    BY <1>5, WaiterFacts DEF LockTake, InLock
  <2>2. /\ id' = id /\ lockingThread'[s] = t
        /\ \A r \in Slots : r # s => lockingThread'[r] = lockingThread[r]
        /\ \A u \in Threads : held'[u] = held[u] \cup (IF u = t THEN {id[s]} ELSE {})
    BY <1>0, <1>5, <2>1 DEF LockTake, TypeOK
  <2>3. id[s] \in held'[t] /\ \A u \in Threads : held[u] \subseteq held'[u]
    BY <2>2
  <2>4. \A r \in Slots : lockingThread[r] # None => lockingThread[r] \in Threads
    BY <1>0 DEF TypeOK
  <2> HIDE DEF s
  <2> QED
    BY <1>0, <2>1, <2>2, <2>3, <2>4 DEF OwnerHolds
<1>6. ASSUME NEW t \in Threads, NEW i \in held[t], NEW s \in GetMutexById(i), Unlock1(s),
             held' = [held EXCEPT ![t] = held[t] \ {i}], id' = id
      PROVE  OwnerHolds'
  <2>1. s \in Slots /\ id[s] = i /\ i # 0
    BY <1>6, OwnerFacts
  <2>2. lockingThread'[s] = None /\ \A r \in Slots : r # s => lockingThread'[r] = lockingThread[r]
    BY <1>0, <1>6, <2>1, UnlockFacts DEF TypeOK
  <2>3. \A u \in Threads : held'[u] = held[u] \ (IF u = t THEN {i} ELSE {})
    BY <1>0, <1>6 DEF TypeOK
  <2>4. \A r \in Slots : r # s => id[r] # i
    BY <2>1 DEF IInv, IdsUnique
  <2> SUFFICES ASSUME NEW r \in Slots, lockingThread'[r] # None
               PROVE  id'[r] \in held'[lockingThread'[r]]
    BY DEF OwnerHolds
  <2>5. r # s /\ lockingThread'[r] = lockingThread[r] /\ lockingThread[r] \in Threads
    BY <1>0, <2>2 DEF TypeOK
  <2>6. id[r] \in held[lockingThread[r]] /\ id[r] # i /\ id'[r] = id[r]
    BY <1>0, <1>6, <2>4, <2>5 DEF OwnerHolds
  <2> QED
    BY <2>3, <2>5, <2>6
<1>7. ASSUME NEW c \in CPUs, NEW t \in Threads, NEW i \in Ids, NEW j \in Ids,
             NEW m1 \in Slots, NEW m2 \in Slots, YieldHandOver(c, t, i, j, m1, m2)
      PROVE  OwnerHolds'
  <2> DEFINE u == Head(waitingThreadsQueue[m2])
  <2>1. u \in Threads
    BY <1>7, HeadFacts DEF YieldHandOver
  <2>2. /\ id' = id /\ id[m1] = i /\ lockingThread'[m1] = u
        /\ \A r \in Slots : r # m1 => lockingThread'[r] = lockingThread[r] /\ id[r] # i
    BY <1>0, <1>7 DEF YieldHandOver, YieldCall, GetMutexById, IInv, IdsUnique, TypeOK, Ids
  <2>3. held' = [held EXCEPT ![t] = @ \ {i}, ![u] = @ \cup {i}]
    BY <1>7 DEF YieldHandOver
  <2>4. i \in held'[u] /\ \A v \in Threads : held[v] \ {i} \subseteq held'[v]
    BY <1>0, <2>1, <2>3 DEF TypeOK
  <2> QED
    BY <1>0, <2>1, <2>2, <2>4 DEF OwnerHolds, TypeOK
<1>8. ASSUME NEW c \in CPUs, NEW t \in Threads, NEW i \in Ids, NEW s \in Slots,
             Unlock(c, t, i, s)
      PROVE  OwnerHolds'
  BY <1>6, <1>8 DEF Unlock
<1>9. ASSUME NEW c \in CPUs, NEW t \in Threads, NEW i \in Ids, NEW j \in Ids,
             NEW m1 \in Slots, NEW m2 \in Slots, YieldUnlock(c, t, i, j, m1, m2)
      PROVE  OwnerHolds'
  BY <1>6, <1>9 DEF YieldUnlock, YieldCall
<1> QED
  BY <1>1, <1>2, <1>3, <1>4, <1>5, <1>7, <1>8, <1>9
     DEF Next, Call, Continue, LockEnqueue, SleepExchange, SleepSched, Reacquire, ReapBegin,
         ReapEnd, Dispatch, Preempt, Kill, vars, mutexState

-----------------------------------------------------------------------------
(* IInv holds of the table initMutexes leaves. *)
LEMMA IInvInit == Init => IInv
<1> SUFFICES ASSUME Init PROVE IInv
  OBVIOUS
<1>1. TypeOK
  <2>1. << >> \in Seq(Threads)
    OBVIOUS
  <2> QED
    BY <2>1, BoundsAssumption DEF Init, TypeOK
<1>2. SpinlockControl /\ IdsUnique /\ LockedIsUsed /\ HeldIsOwned /\ OwnerHolds
  BY NoneAssumption DEF Init, SpinlockControl, IdsUnique, LockedIsUsed, HeldIsOwned, OwnerHolds
<1>3. NoOrphanLock /\ QueuedOnce
  BY DEF Init, NoOrphanLock, QueuedOnce, InLock
<1> QED
  BY <1>1, <1>2, <1>3 DEF IInv

(* The inductive invariant, for every number of threads, processors and     *)
(* mutexes: each of its parts survives every call of mutex.c and every      *)
(* step of the scheduler.                                                   *)
THEOREM Invariant == Spec => []IInv
<1>1. IInv /\ [Next]_vars => IInv'
  BY TypeNext, ControlNext, QueuedNext, NamesNext, LockedNext, HeldNext, OwnerNext DEF IInv
<1> QED
  BY <1>1, IInvInit, PTL DEF Spec

(* Every variable keeps its domain. *)
THEOREM TypeCorrect == Spec => []TypeOK
<1>1. IInv => TypeOK
  BY DEF IInv
<1> QED
  BY <1>1, Invariant, PTL

(* Two threads never both own a mutex: a thread that owns one is its        *)
(* lockingThread, and an id names one slot.                                 *)
THEOREM Exclusion == Spec => []MutualExclusion
<1>1. IInv => MutualExclusion
  <2> SUFFICES ASSUME IInv, NEW t \in Threads, NEW u \in Threads, t # u,
                      NEW i \in held[t], i \in held[u]
               PROVE  FALSE
    BY DEF MutualExclusion
  <2>1. PICK r \in Slots : id[r] = i /\ lockingThread[r] = t
    BY DEF IInv, HeldIsOwned
  <2>2. PICK s \in Slots : id[s] = i /\ lockingThread[s] = u
    BY DEF IInv, HeldIsOwned
  <2>3. i # 0
    BY DEF IInv, TypeOK, Ids
  <2> QED
    BY <2>1, <2>2, <2>3 DEF IInv, IdsUnique
<1> QED
  BY <1>1, Invariant, PTL

(* What a thread owns stays its own: dealloc, slot reuse, hand-off and      *)
(* yieldlock never take a mutex from the thread that owns it.               *)
THEOREM Ownership == Spec => []HeldIsOwned
<1>1. IInv => HeldIsOwned
  BY DEF IInv
<1> QED
  BY <1>1, Invariant, PTL

(* No mutex stays locked with neither an owner nor a waiter to take it.     *)
THEOREM NoOrphans == Spec => []NoOrphanLock
<1>1. IInv => NoOrphanLock
  BY DEF IInv
<1> QED
  BY <1>1, Invariant, PTL

(* A thread inside kthread_mutex_lock is in one queue, once.                *)
THEOREM QueuedExactlyOnce == Spec => []QueuedOnce
<1>1. IInv => QueuedOnce
  BY DEF IInv
<1> QED
  BY <1>1, Invariant, PTL

(* sched() never panics for a lock it should not hold, or should.           *)
THEOREM SchedLocks == Spec => []SchedHoldsOnlyPtable
<1>1. IInv => SchedHoldsOnlyPtable
  BY DEF IInv, SpinlockControl, SchedHoldsOnlyPtable, TypeOK, InLock
<1> QED
  BY <1>1, Invariant, PTL

(* The sixteen nodes of a waiting queue are enough when no more threads use *)
(* the mutexes: a queue holds a thread at most once.                        *)
THEOREM QueuesFit == Spec => []QueueFits
<1>1. IInv => QueueFits
  <2> SUFFICES ASSUME IInv, NEW s \in Slots
               PROVE  Len(waitingThreadsQueue[s]) <= LINKED_LIST_SIZE
    BY DEF QueueFits
  <2> DEFINE q == waitingThreadsQueue[s]
             n == Len(q)
  <2>1. q \in Seq(Threads) /\ n \in Nat
    BY DEF IInv, TypeOK
  <2>2. q \in [1..n -> Threads] /\ \A k, l \in 1..n : q[k] = q[l] => k = l
    BY <2>1 DEF IInv, QueuedOnce
  <2>3. q \in Injection(1..n, Threads)
    BY <2>2 DEF Injection, IsInjective
  <2>4. IsFiniteSet(1..n) /\ Cardinality(1..n) = n
    BY <2>1, FS_Interval
  <2>5. n <= Cardinality(Threads) /\ Cardinality(Threads) \in Nat
    BY <2>3, <2>4, QueueAssumption, FS_Injection, FS_CardinalityType
  <2> QED
    BY <2>1, <2>5, QueueAssumption
<1> QED
  BY <1>1, Invariant, PTL
=============================================================================
