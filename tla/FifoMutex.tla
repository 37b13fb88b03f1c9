----------------------------- MODULE FifoMutex -----------------------------
(***************************************************************************)
(* What the kernel mutexes of xv6_ass2 promise to a user program: a set of *)
(* FIFO locks with direct hand-off.  Nothing here mentions sleeping, the   *)
(* spinlocks or the scheduler.  KMutex implements this specification, and  *)
(* the monitors (MesaSlots, HoareSlots) are built on its actions, one      *)
(* action per system call section.                                         *)
(***************************************************************************)
EXTENDS Naturals, Sequences

CONSTANTS Threads,   \* the threads that use the mutexes
          Mutexes,   \* the mutexes (slots of the kernel's table)
          None       \* "no thread": lockingThread == 0

ASSUME NoneAssumption == None \notin Threads

VARIABLES owner,     \* mutex -> its lockingThread
          waiting    \* mutex -> its waitingThreadsQueue, head first

mutexVars == <<owner, waiting>>

MutexTypeOK ==
  /\ owner \in [Mutexes -> Threads \cup {None}]
  /\ waiting \in [Mutexes -> Seq(Threads)]

MutexInit ==
  /\ owner = [m \in Mutexes |-> None]
  /\ waiting = [m \in Mutexes |-> << >>]

-----------------------------------------------------------------------------
(* isLocked stays 1 while a released mutex is being handed to a waiter. *)
Locked(m) == owner[m] # None \/ waiting[m] # << >>

Waits(t, m) == \E k \in 1..Len(waiting[m]) : waiting[m][k] = t

(* kthread_mutex_lock on a mutex that is not locked. *)
Take(t, m) ==
  /\ ~Locked(m)
  /\ owner' = [owner EXCEPT ![m] = t]
  /\ UNCHANGED waiting

(* kthread_mutex_lock on a locked mutex: the caller queues up. *)
Queue(t, m) ==
  /\ Locked(m)
  /\ waiting' = [waiting EXCEPT ![m] = Append(@, t)]
  /\ UNCHANGED owner

(* A waiter leaves kthread_mutex_lock: released, and its turn. *)
Grant(t, m) ==
  /\ owner[m] = None
  /\ waiting[m] # << >> /\ Head(waiting[m]) = t
  /\ owner' = [owner EXCEPT ![m] = t]
  /\ waiting' = [waiting EXCEPT ![m] = Tail(@)]

(* kthread_mutex_unlock: returns -1 and changes nothing on an unlocked     *)
(* mutex.  The caller is not compared with the owner, and a second unlock  *)
(* before the woken waiter has run is absorbed.                            *)
Unlock(m) ==
  /\ owner' = [owner EXCEPT ![m] = None]
  /\ UNCHANGED waiting

(* kthread_mutex_yieldlock: give m to the first waiter of n, which keeps   *)
(* waiting for n; with nobody waiting for n, or m not the caller's, the    *)
(* call is an unlock of m that returns -1.                                 *)
CanYield(t, m, n) == owner[m] = t /\ waiting[n] # << >>

YieldLock(t, m, n) ==
  /\ owner' = [owner EXCEPT ![m] = IF CanYield(t, m, n) THEN Head(waiting[n]) ELSE None]
  /\ UNCHANGED waiting

-----------------------------------------------------------------------------
(* The promise to well-behaved callers: a thread asks for one mutex at a   *)
(* time, never for one it owns, and releases or yields only what it owns.  *)
Idle(t) == \A m \in Mutexes : ~Waits(t, m)

Ask(t, m) ==
  /\ Idle(t) /\ owner[m] # t
  /\ Take(t, m) \/ Queue(t, m)

Release(t, m) == owner[m] = t /\ Unlock(m)

Yield(t, m, n) == owner[m] = t /\ m # n /\ YieldLock(t, m, n)

MutexNext ==
  \E t \in Threads, m \in Mutexes :
     \/ Ask(t, m)
     \/ Grant(t, m)
     \/ Release(t, m)
     \/ \E n \in Mutexes : Yield(t, m, n)

(* A released mutex is handed over: the waiter at the head returns. *)
HandOver == \A t \in Threads, m \in Mutexes : WF_mutexVars(Grant(t, m))

MutexSafeSpec == MutexInit /\ [][MutexNext]_mutexVars
MutexSpec == MutexSafeSpec /\ HandOver
=============================================================================
