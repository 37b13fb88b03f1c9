------------------------------- MODULE KMutex -------------------------------
(***************************************************************************)
(* The kernel mutexes of xv6_ass2 (mutex.c) with the sleep and wakeup of   *)
(* proc.c they are built on, at the grain of the two spinlocks involved:   *)
(* mtable.lock guards the mutexes, ptable.lock the thread states.  What    *)
(* runs between acquire and release of mtable.lock is one step, cut where  *)
(* sleep() exchanges mtable.lock for ptable.lock.  Interrupts are off      *)
(* while a thread holds a spinlock, so only a thread without one is        *)
(* preempted.  CPUs is a parameter: the Makefile builds for one, NCPU is 8.*)
(***************************************************************************)
EXTENDS Naturals, Sequences, FiniteSets

CONSTANTS Threads,           \* the threads that use the mutexes
          CPUs,              \* the processors running scheduler()
          None,              \* the null thread pointer
          MAX_MUTEXES,       \* slots of mtable
          LINKED_LIST_SIZE,  \* nodes of a waitingThreadsQueue
          MaxId,             \* bound of the run: mutex ids handed out
          MaxHeld,           \* bound of the client: mutexes it nests
          Calls              \* the calls the client makes (a profile)

ASSUME NoneAssumption == None \notin Threads
ASSUME BoundsAssumption == MAX_MUTEXES \in Nat /\ MaxId \in Nat /\ MaxHeld \in Nat
ASSUME QueueAssumption ==
  /\ IsFiniteSet(Threads) /\ LINKED_LIST_SIZE \in Nat
  /\ Cardinality(Threads) <= LINKED_LIST_SIZE

(* unlock1 calls wakeup1 without ptable.lock, so on several processors its   *)
(* test and its assignment to a state race with kill().  That race (a thread *)
(* run on two processors) is outside the model: with kill, one processor.    *)
ASSUME KillAssumption == "kill" \in Calls => \A c, d \in CPUs : c = d

Slots == 1..MAX_MUTEXES
Ids == 1..MaxId

VARIABLES
  id, isUsed, isLocked, lockingThread, waitingThreadsQueue, \* struct mutex, per slot
  nextmutexid,
  mtable, ptable,    \* holder of mtable.lock, of ptable.lock
  thread,            \* CPU -> the thread it runs
  state, chan,       \* struct thread: scheduling state, sleep channel
  pc, ptr,           \* place in the call a thread is in, the mutex it is about
  held               \* ids a thread's program knows it owns

mutexState == <<id, isUsed, isLocked, lockingThread, waitingThreadsQueue, nextmutexid>>
locks == <<mtable, ptable>>
schedState == <<thread, state, chan>>
vars == <<mutexState, locks, schedState, pc, ptr, held>>

Init ==
  /\ id = [s \in Slots |-> 0]
  /\ isUsed = [s \in Slots |-> FALSE]
  /\ isLocked = [s \in Slots |-> FALSE]
  /\ lockingThread = [s \in Slots |-> None]
  /\ waitingThreadsQueue = [s \in Slots |-> << >>]
  /\ nextmutexid = 1
  /\ mtable = None /\ ptable = None
  /\ thread = [c \in CPUs |-> None]
  /\ state = [t \in Threads |-> "RUNNABLE"]
  /\ chan = [t \in Threads |-> None]
  /\ pc = [t \in Threads |-> "user"]
  /\ ptr = [t \in Threads |-> 0]
  /\ held = [t \in Threads |-> {}]

-----------------------------------------------------------------------------
(* getMutexById: the first slot that bears the id, used or not. *)
GetMutexById(i) == {s \in Slots : id[s] = i /\ \A r \in Slots : id[r] = i => s <= r}

(* getUnusedMutex: the first free slot. *)
GetUnusedMutex == {s \in Slots : ~isUsed[s] /\ \A r \in Slots : ~isUsed[r] => s <= r}

(* wakeup1(u): make every thread asleep on channel u runnable. *)
Wakeup1(u) ==
  state' = [t \in Threads |->
              IF state[t] = "SLEEPING" /\ chan[t] = u THEN "RUNNABLE" ELSE state[t]]

(* A thread on a processor, in user mode, enters a call that takes mtable.lock. *)
Enters(c, t, call) ==
  /\ thread[c] = t /\ pc[t] = "user" /\ mtable = None
  /\ call \in Calls

-----------------------------------------------------------------------------
(* kthread_mutex_alloc; with no free slot it returns -1 and nothing changes. *)
Alloc(c, t, s) ==
  /\ Enters(c, t, "alloc") /\ nextmutexid \in Ids
  /\ s \in GetUnusedMutex
  /\ isUsed' = [isUsed EXCEPT ![s] = TRUE]
  /\ id' = [id EXCEPT ![s] = nextmutexid]
  /\ nextmutexid' = nextmutexid + 1
  /\ UNCHANGED <<isLocked, lockingThread, waitingThreadsQueue, locks, schedState, pc, ptr, held>>

(* Mutant: dealloc does not look at isLocked. *)
DeallocLocked(c, t, i, s) ==
  /\ Enters(c, t, "dealloc")
  /\ s \in GetMutexById(i) /\ isUsed[s]
  /\ isUsed' = [isUsed EXCEPT ![s] = FALSE]
  /\ lockingThread' = [lockingThread EXCEPT ![s] = None]
  /\ waitingThreadsQueue' = [waitingThreadsQueue EXCEPT ![s] = << >>]
  /\ UNCHANGED <<id, isLocked, nextmutexid, locks, schedState, pc, ptr, held>>

(* kthread_mutex_dealloc: refused (-1) while the mutex is locked.  The slot keeps its id. *)
Dealloc(c, t, i, s) ==
  /\ Enters(c, t, "dealloc")
  /\ s \in GetMutexById(i) /\ isUsed[s] /\ ~isLocked[s]
  /\ isUsed' = [isUsed EXCEPT ![s] = FALSE]
  /\ lockingThread' = [lockingThread EXCEPT ![s] = None]
  /\ waitingThreadsQueue' = [waitingThreadsQueue EXCEPT ![s] = << >>]
  /\ UNCHANGED <<id, isLocked, nextmutexid, locks, schedState, pc, ptr, held>>

(* A lock call about mutex i of a client that does not own i already. *)
LockCall(c, t, i, s) ==
  /\ Enters(c, t, "lock")
  /\ i \notin held[t] /\ Cardinality(held[t]) < MaxHeld
  /\ s \in GetMutexById(i) /\ isUsed[s]

(* kthread_mutex_lock, the mutex is not locked: the caller has it. *)
LockFree(c, t, i, s) ==
  /\ LockCall(c, t, i, s) /\ ~isLocked[s]
  /\ isLocked' = [isLocked EXCEPT ![s] = TRUE]
  /\ lockingThread' = [lockingThread EXCEPT ![s] = t]
  /\ held' = [held EXCEPT ![t] = @ \cup {i}]
  /\ UNCHANGED <<id, isUsed, waitingThreadsQueue, nextmutexid, locks, schedState, pc, ptr>>

(* kthread_mutex_lock, the mutex is locked: queue up, keep mtable.lock. *)
LockEnqueue(c, t, i, s) ==
  /\ LockCall(c, t, i, s) /\ isLocked[s]
  /\ waitingThreadsQueue' = [waitingThreadsQueue EXCEPT ![s] = Append(@, t)]
  /\ ptr' = [ptr EXCEPT ![t] = s]
  /\ mtable' = t
  /\ pc' = [pc EXCEPT ![t] = "check"]
  /\ UNCHANGED <<id, isUsed, isLocked, lockingThread, nextmutexid, ptable, schedState, held>>

(* Mutants: the loop tests only the turn, or only the owner. *)
MustWaitTurn(t) == Head(waitingThreadsQueue[ptr[t]]) # t
MustWaitOwner(t) == lockingThread[ptr[t]] # None

(* The condition of the while loop around sleep(). *)
MustWait(t) == \/ lockingThread[ptr[t]] # None
               \/ Head(waitingThreadsQueue[ptr[t]]) # t

(* Mutant: the new owner does not leave the queue. *)
LockTakeStays(c, t) ==
  /\ thread[c] = t /\ pc[t] = "check" /\ ~MustWait(t)
  /\ lockingThread' = [lockingThread EXCEPT ![ptr[t]] = t]
  /\ held' = [held EXCEPT ![t] = @ \cup {id[ptr[t]]}]
  /\ mtable' = None
  /\ pc' = [pc EXCEPT ![t] = "user"]
  /\ ptr' = [ptr EXCEPT ![t] = 0]
  /\ UNCHANGED <<id, isUsed, isLocked, waitingThreadsQueue, nextmutexid, ptable, schedState>>

(* The loop ends: leave the queue, own the mutex, return 0. *)
LockTake(c, t) ==
  /\ thread[c] = t /\ pc[t] = "check" /\ ~MustWait(t)
  /\ waitingThreadsQueue' = [waitingThreadsQueue EXCEPT ![ptr[t]] = Tail(@)]
  /\ lockingThread' = [lockingThread EXCEPT ![ptr[t]] = t]
  /\ held' = [held EXCEPT ![t] = @ \cup {id[ptr[t]]}]
  /\ mtable' = None
  /\ pc' = [pc EXCEPT ![t] = "user"]
  /\ ptr' = [ptr EXCEPT ![t] = 0]
  /\ UNCHANGED <<id, isUsed, isLocked, nextmutexid, ptable, schedState>>

(* Mutant: sleep() keeps the lock it was given. *)
SleepKeeps(c, t) ==
  /\ thread[c] = t /\ pc[t] = "check" /\ MustWait(t)
  /\ ptable = None
  /\ ptable' = t
  /\ pc' = [pc EXCEPT ![t] = "sleep"]
  /\ UNCHANGED <<mutexState, mtable, schedState, ptr, held>>

(* sleep(thread, &mtable.lock), first half: acquire ptable.lock, then release mtable.lock. *)
SleepExchange(c, t) ==
  /\ thread[c] = t /\ pc[t] = "check" /\ MustWait(t)
  /\ ptable = None
  /\ ptable' = t /\ mtable' = None
  /\ pc' = [pc EXCEPT ![t] = "sleep"]
  /\ UNCHANGED <<mutexState, schedState, ptr, held>>

(* Mutant: chan is not set. *)
SleepNoChan(c, t) ==
  /\ thread[c] = t /\ pc[t] = "sleep"
  /\ state' = [state EXCEPT ![t] = "SLEEPING"]
  /\ thread' = [thread EXCEPT ![c] = None]
  /\ ptable' = None
  /\ pc' = [pc EXCEPT ![t] = "asleep"]
  /\ UNCHANGED <<mutexState, mtable, chan, ptr, held>>

(* sleep(), second half: set chan and state, sched() gives up the processor *)
(* and with it ptable.lock.                                                 *)
SleepSched(c, t) ==
  /\ thread[c] = t /\ pc[t] = "sleep"
  /\ chan' = [chan EXCEPT ![t] = t]
  /\ state' = [state EXCEPT ![t] = "SLEEPING"]
  /\ thread' = [thread EXCEPT ![c] = None]
  /\ ptable' = None
  /\ pc' = [pc EXCEPT ![t] = "asleep"]
  /\ UNCHANGED <<mutexState, mtable, ptr, held>>

(* Mutant: the thread queues up again each time it wakes. *)
ReacquireQueues(c, t) ==
  /\ thread[c] = t /\ pc[t] = "reacquire" /\ mtable = None
  /\ mtable' = t
  /\ waitingThreadsQueue' = [waitingThreadsQueue EXCEPT ![ptr[t]] = Append(@, t)]
  /\ pc' = [pc EXCEPT ![t] = "check"]
  /\ UNCHANGED <<id, isUsed, isLocked, lockingThread, nextmutexid, ptable, schedState, ptr, held>>

(* sleep() after sched(), its last line: acquire mtable.lock again. *)
Reacquire(c, t) ==
  /\ thread[c] = t /\ pc[t] = "reacquire" /\ mtable = None
  /\ mtable' = t
  /\ pc' = [pc EXCEPT ![t] = "check"]
  /\ UNCHANGED <<mutexState, ptable, schedState, ptr, held>>

(* Mutants: unlock1 clears isLocked though threads wait; it wakes nobody. *)
UnlockClears(s) ==
  /\ IF waitingThreadsQueue[s] # << >>
     THEN Wakeup1(Head(waitingThreadsQueue[s])) ELSE UNCHANGED state
  /\ isLocked' = [isLocked EXCEPT ![s] = FALSE]
  /\ lockingThread' = [lockingThread EXCEPT ![s] = None]

UnlockSilent(s) ==
  /\ isLocked' = [isLocked EXCEPT ![s] = waitingThreadsQueue[s] # << >>]
  /\ lockingThread' = [lockingThread EXCEPT ![s] = None]
  /\ UNCHANGED state

(* kthread_mutex_unlock1 on a used slot that is locked. *)
Unlock1(s) ==
  /\ IF waitingThreadsQueue[s] # << >>
     THEN Wakeup1(Head(waitingThreadsQueue[s])) /\ UNCHANGED isLocked
     ELSE isLocked' = [isLocked EXCEPT ![s] = FALSE] /\ UNCHANGED state
  /\ lockingThread' = [lockingThread EXCEPT ![s] = None]

(* kthread_mutex_unlock of a mutex the client owns. *)
Unlock(c, t, i, s) ==
  /\ Enters(c, t, "unlock")
  /\ i \in held[t] /\ s \in GetMutexById(i) /\ isUsed[s] /\ isLocked[s]
  /\ Unlock1(s)
  /\ held' = [held EXCEPT ![t] = @ \ {i}]
  /\ UNCHANGED <<id, isUsed, waitingThreadsQueue, nextmutexid, locks, thread, chan, pc, ptr>>

(* kthread_mutex_yieldlock(i, j): about mutex i, which the client owns.     *)
YieldCall(c, t, i, j, m1, m2) ==
  /\ Enters(c, t, "yieldlock")
  /\ i \in held[t] /\ i # j
  /\ m1 \in GetMutexById(i) /\ m2 \in GetMutexById(j)

(* Somebody waits for j: the first waiter is made the owner of i. *)
YieldHandOver(c, t, i, j, m1, m2) ==
  /\ YieldCall(c, t, i, j, m1, m2)
  /\ isUsed[m1] /\ isLocked[m1] /\ lockingThread[m1] = t
  /\ waitingThreadsQueue[m2] # << >>
  /\ LET u == Head(waitingThreadsQueue[m2])
     IN  /\ lockingThread' = [lockingThread EXCEPT ![m1] = u]
         /\ held' = [held EXCEPT ![t] = @ \ {i}, ![u] = @ \cup {i}]
  /\ UNCHANGED <<id, isUsed, isLocked, waitingThreadsQueue, nextmutexid, locks, schedState, pc, ptr>>

(* Nobody waits for j: yieldlock returns -1, and i is unlocked. *)
YieldUnlock(c, t, i, j, m1, m2) ==
  /\ YieldCall(c, t, i, j, m1, m2)
  /\ waitingThreadsQueue[m2] = << >>
  /\ isUsed[m1] /\ isLocked[m1]
  /\ Unlock1(m1)
  /\ held' = [held EXCEPT ![t] = @ \ {i}]
  /\ UNCHANGED <<id, isUsed, waitingThreadsQueue, nextmutexid, locks, thread, chan, pc, ptr>>

-----------------------------------------------------------------------------
(* kthread_join or wait() reaps a dead thread: clean_thread acquires mtable.lock *)
(* under ptable.lock and changes no mutex.                                       *)
ReapBegin(c, t) ==
  /\ thread[c] = t /\ pc[t] = "user" /\ ptable = None
  /\ "reap" \in Calls
  /\ ptable' = t
  /\ pc' = [pc EXCEPT ![t] = "reap"]
  /\ UNCHANGED <<mutexState, mtable, schedState, ptr, held>>

ReapEnd(c, t) ==
  /\ thread[c] = t /\ pc[t] = "reap" /\ mtable = None
  /\ ptable' = None
  /\ pc' = [pc EXCEPT ![t] = "user"]
  /\ UNCHANGED <<mutexState, mtable, schedState, ptr, held>>

(* scheduler(): pick a runnable thread.  It returns into sleep(), which     *)
(* clears chan and releases ptable.lock, or into yield(), which releases it.*)
Dispatch(c, t) ==
  /\ thread[c] = None /\ state[t] = "RUNNABLE" /\ ptable = None
  /\ thread' = [thread EXCEPT ![c] = t]
  /\ state' = [state EXCEPT ![t] = "RUNNING"]
  /\ chan' = [chan EXCEPT ![t] = None]
  /\ pc' = [pc EXCEPT ![t] = IF @ = "asleep" THEN "reacquire" ELSE @]
  /\ UNCHANGED <<mutexState, locks, ptr, held>>

(* Mutant: interrupts stay on while mtable.lock is held. *)
InterruptibleInMutex(t) == ptable # t

(* The timer: yield().  Interrupts are on only without a spinlock. *)
Interruptible(t) == mtable # t /\ ptable # t

(* Mutant: the preempted thread is left BLOCKED. *)
PreemptBlocks(c, t) ==
  /\ thread[c] = t /\ Interruptible(t) /\ ptable = None
  /\ thread' = [thread EXCEPT ![c] = None]
  /\ state' = [state EXCEPT ![t] = "BLOCKED"]
  /\ UNCHANGED <<mutexState, locks, chan, pc, ptr, held>>

Preempt(c, t) ==
  /\ thread[c] = t /\ Interruptible(t) /\ ptable = None
  /\ thread' = [thread EXCEPT ![c] = None]
  /\ state' = [state EXCEPT ![t] = "RUNNABLE"]
  /\ UNCHANGED <<mutexState, locks, chan, pc, ptr, held>>

(* kill() of the process, by a thread of another one on processor c, where  *)
(* none of Threads runs: sleepers are made runnable, whatever they sleep on,*)
(* and a waiter goes round its loop again.  That the killed threads leave   *)
(* at their next return to user mode is not modelled.                       *)
Kill(c) ==
  /\ thread[c] = None /\ "kill" \in Calls /\ ptable = None
  /\ \E t \in Threads : state[t] = "SLEEPING"
  /\ state' = [t \in Threads |-> IF state[t] = "SLEEPING" THEN "RUNNABLE" ELSE state[t]]
  /\ UNCHANGED <<mutexState, locks, thread, chan, pc, ptr, held>>

(* A system call about the mutexes, from user mode. *)
Call(c, t) ==
  \/ \E s \in Slots : Alloc(c, t, s)
  \/ \E s \in Slots : \E i \in Ids :
       \/ Dealloc(c, t, i, s)
       \/ LockFree(c, t, i, s) \/ LockEnqueue(c, t, i, s) \/ Unlock(c, t, i, s)
  \/ \E m1, m2 \in Slots : \E i, j \in Ids :
       YieldHandOver(c, t, i, j, m1, m2) \/ YieldUnlock(c, t, i, j, m1, m2)

(* A thread goes on inside a call. *)
Continue(c, t) ==
  \/ LockTake(c, t) \/ SleepExchange(c, t) \/ SleepSched(c, t) \/ Reacquire(c, t)
  \/ ReapBegin(c, t) \/ ReapEnd(c, t)

Next ==
  \E c \in CPUs :
     \/ Kill(c)
     \/ \E t \in Threads : Call(c, t) \/ Continue(c, t) \/ Dispatch(c, t) \/ Preempt(c, t)

Spec == Init /\ [][Next]_vars

(* A time slice is long enough for the few instructions of a kernel section *)
(* and for the client to release what it owns; scheduler() scans the whole  *)
(* table, so a thread that keeps becoming runnable is run; a timer interrupt  *)
(* stays pending while interrupts are off.                                  *)
Fairness ==
  \A c \in CPUs, t \in Threads :
     /\ WF_vars(LockTake(c, t) \/ SleepExchange(c, t) \/ SleepSched(c, t) \/ ReapEnd(c, t))
     /\ SF_vars(Reacquire(c, t))
     /\ SF_vars(\E i \in Ids, s \in Slots : Unlock(c, t, i, s))
     /\ SF_vars(Dispatch(c, t))
     /\ SF_vars(Preempt(c, t))

FairSpec == Spec /\ Fairness

-----------------------------------------------------------------------------
InLock == {"check", "sleep", "asleep", "reacquire"}

TypeOK ==
  /\ id \in [Slots -> 0..MaxId]
  /\ isUsed \in [Slots -> BOOLEAN]
  /\ isLocked \in [Slots -> BOOLEAN]
  /\ lockingThread \in [Slots -> Threads \cup {None}]
  /\ waitingThreadsQueue \in [Slots -> Seq(Threads)]
  /\ nextmutexid \in 1..(MaxId + 1)
  /\ mtable \in Threads \cup {None}
  /\ ptable \in Threads \cup {None}
  /\ thread \in [CPUs -> Threads \cup {None}]
  /\ state \in [Threads -> {"RUNNABLE", "RUNNING", "SLEEPING"}]
  /\ chan \in [Threads -> Threads \cup {None}]
  /\ pc \in [Threads -> InLock \cup {"user", "reap"}]
  /\ ptr \in [Threads -> Slots \cup {0}]
  /\ held \in [Threads -> SUBSET Ids]

(* Two threads never both believe they own the same mutex (mt.c relies on   *)
(* it), through every mix of hand-offs, yields, spurious wakeups and slot   *)
(* reuse.                                                                   *)
MutualExclusion == \A t, u \in Threads : t # u => held[t] \cap held[u] = {}

(* What a program believes it owns is in a used, locked slot that records   *)
(* it as lockingThread: no dealloc, reuse or hand-off took it away.         *)
HeldIsOwned ==
  \A t \in Threads : \A i \in held[t] :
     \E s \in Slots : id[s] = i /\ isUsed[s] /\ isLocked[s] /\ lockingThread[s] = t

(* A mutex is marked locked exactly while somebody owns it or is about to:  *)
(* none stays locked with no owner and nobody left to take it.              *)
NoOrphanLock ==
  \A s \in Slots : isLocked[s] <=> (lockingThread[s] # None \/ waitingThreadsQueue[s] # << >>)

(* A thread inside kthread_mutex_lock is in the queue of the mutex it       *)
(* waits for, once and in no other queue; nobody else is in a queue.        *)
QueuedOnce ==
  /\ \A t \in Threads : pc[t] \in InLock =>
       /\ ptr[t] \in Slots
       /\ \E k \in 1..Len(waitingThreadsQueue[ptr[t]]) : waitingThreadsQueue[ptr[t]][k] = t
  /\ \A s \in Slots : \A k \in 1..Len(waitingThreadsQueue[s]) :
       LET t == waitingThreadsQueue[s][k]
       IN  /\ pc[t] \in InLock /\ ptr[t] = s
           /\ \A l \in 1..Len(waitingThreadsQueue[s]) : waitingThreadsQueue[s][l] = t => l = k

(* create_link never fails: a queue holds no more threads than it has nodes.*)
QueueFits == \A s \in Slots : Len(waitingThreadsQueue[s]) <= LINKED_LIST_SIZE

(* "Must hold only ptable.lock" (sched, proc.c:463): a thread about to call *)
(* sched() holds that spinlock and not mtable.lock, else sched() panics.    *)
SchedHoldsOnlyPtable ==
  \A t \in Threads : pc[t] = "sleep" => ptable = t /\ mtable # t

(* The parts of the inductive invariant that are not properties of a run of  *)
(* their own.  A slot's name is its own, and was handed out.                 *)
IdsUnique ==
  \A s \in Slots :
     /\ id[s] < nextmutexid
     /\ isUsed[s] => id[s] # 0
     /\ \A r \in Slots : id[r] = id[s] /\ id[s] # 0 => r = s

(* A mutex's lockingThread knows that it owns it. *)
OwnerHolds == \A s \in Slots : lockingThread[s] # None => id[s] \in held[lockingThread[s]]

(* dealloc refuses a locked mutex, so a locked slot is in use. *)
LockedIsUsed == \A s \in Slots : isLocked[s] => isUsed[s]

(* The place of a thread in its call tells which spinlock it holds. *)
SpinlockControl ==
  \A t \in Threads :
     /\ pc[t] = "check" <=> mtable = t
     /\ pc[t] \in {"sleep", "reap"} <=> ptable = t

(* The inductive invariant of mutex.c, on any number of processors: owners,  *)
(* queues, names and spinlocks agree (KMutex_proofs).                        *)
IInv == /\ TypeOK /\ SpinlockControl /\ QueuedOnce
        /\ IdsUnique /\ LockedIsUsed /\ NoOrphanLock /\ HeldIsOwned /\ OwnerHolds

(* "we won't miss any wakeup" (sleep, proc.c:524): when a released mutex    *)
(* has waiters, the one whose turn it is is not left asleep.                *)
NoLostWakeup ==
  \A s \in Slots :
     lockingThread[s] = None /\ waitingThreadsQueue[s] # << >>
       => state[Head(waitingThreadsQueue[s])] # "SLEEPING"

(* With one processor a thread that runs never finds a spinlock taken: the  *)
(* opposite orders of kthread_join (ptable, mtable) and sleep (mtable,      *)
(* ptable) cannot meet.                                                     *)
NeverSpins ==
  \A c \in CPUs : thread[c] # None => mtable \in {thread[c], None} /\ ptable \in {thread[c], None}

(* The parts of the invariant of one processor: who runs, who is in a        *)
(* critical section, on what a sleeper sleeps, and why it went to sleep.      *)
RunsOnCpu == \A t \in Threads : state[t] = "RUNNING" <=> \E c \in CPUs : thread[c] = t

SectionRuns == \A t \in Threads : pc[t] \in {"check", "sleep", "reap"} => state[t] = "RUNNING"

SleepsOnItself == \A t \in Threads : state[t] = "SLEEPING" => pc[t] = "asleep" /\ chan[t] = t

SleepIsJustified == \A t \in Threads : pc[t] = "sleep" => MustWait(t)

(* With one processor, what keeps wakeups from being lost: a thread inside a *)
(* critical section is the one that runs, so the reason to sleep that it saw  *)
(* under mtable.lock still holds when it sleeps (KMutexOneCpu_proofs).        *)
OneCpuInv == /\ IInv /\ RunsOnCpu /\ SectionRuns /\ SleepsOnItself
             /\ SleepIsJustified /\ NoLostWakeup

(* Every caller of kthread_mutex_lock returns, if owners release.           *)
LockReturns == \A t \in Threads : pc[t] \in InLock ~> pc[t] \notin InLock

(* The promise to user programs. *)
Fifo == INSTANCE FifoMutex WITH
          Mutexes <- Slots, owner <- lockingThread, waiting <- waitingThreadsQueue

(* Every step of the kernel, the spinlocks and the scheduling left out, is a *)
(* step of FIFO locks with direct hand-off: lock, grant, unlock or yieldlock. *)
ImplementsFifo == Fifo!MutexSafeSpec
(* A released mutex reaches the waiter at the head of its queue. *)
HandsOver == Fifo!HandOver
=============================================================================
