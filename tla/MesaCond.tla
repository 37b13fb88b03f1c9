------------------------------ MODULE MesaCond ------------------------------
(***************************************************************************)
(* Mesa condition variables (mesa_cond.c), built by a user program from    *)
(* kernel mutexes.  A condition variable is an inner mutex that is locked  *)
(* from its allocation on: waiting is locking it, signalling unlocks it.   *)
(* One action per system call, with the user code up to the next one.      *)
(***************************************************************************)
EXTENDS FifoMutex

CONSTANT Conds    \* the condition variables, each named like its inner mutex

ASSUME CondsAssumption == Conds \subseteq Mutexes /\ None \notin Conds

VARIABLES numOfThreadsWaiting,  \* cond -> its counter
          pc,                   \* thread -> place in its program
          cond                  \* thread -> the condition it waits for

condVars == <<numOfThreadsWaiting, pc, cond>>

goto(t, place) == pc' = [pc EXCEPT ![t] = place]

(* kthread_mutex_lock: returns at once or after a grant; a thread that must *)
(* wait queues up and stays where it is.                                    *)
LockReturns(t, m) == (~Waits(t, m) /\ Take(t, m)) \/ Grant(t, m)
LockQueues(t, m) == ~Waits(t, m) /\ Queue(t, m)

(* mesa_cond_wait: count the waiter, release the given mutex ... *)
WaitRelease(t, c, m) ==
  /\ numOfThreadsWaiting' = [numOfThreadsWaiting EXCEPT ![c] = @ + 1]
  /\ Unlock(m)
  /\ cond' = [cond EXCEPT ![t] = c]
  /\ goto(t, "blocked")

(* ... wait till signaled ... *)
WaitSignal(t) ==
  /\ pc[t] = "blocked"
  /\ \/ LockReturns(t, cond[t]) /\ goto(t, "retake")
     \/ LockQueues(t, cond[t]) /\ UNCHANGED pc
  /\ UNCHANGED <<numOfThreadsWaiting, cond>>

(* Mutant: the waiter goes on without the given mutex. *)
WaitNoRetake(t, m) ==
  /\ pc[t] = "retake" /\ goto(t, "body")
  /\ numOfThreadsWaiting' = [numOfThreadsWaiting EXCEPT ![cond[t]] = @ - 1]
  /\ cond' = [cond EXCEPT ![t] = None]
  /\ UNCHANGED mutexVars

(* ... take back the given mutex; only then is the waiter discounted. *)
WaitRetake(t, m) ==
  /\ pc[t] = "retake"
  /\ \/ /\ LockReturns(t, m) /\ goto(t, "body")
        /\ numOfThreadsWaiting' = [numOfThreadsWaiting EXCEPT ![cond[t]] = @ - 1]
        /\ cond' = [cond EXCEPT ![t] = None]
     \/ LockQueues(t, m) /\ UNCHANGED condVars

(* mesa_cond_signal: -1 when a waiter is counted but the inner mutex is not locked. *)
SignalFails(c) == numOfThreadsWaiting[c] > 0 /\ ~Locked(c)

(* What mesa_cond_signal does to the inner mutex. *)
Signal(c) == IF numOfThreadsWaiting[c] > 0 THEN Unlock(c) ELSE UNCHANGED mutexVars
=============================================================================
