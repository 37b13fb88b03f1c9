----------------------------- MODULE HoareCond -----------------------------
(***************************************************************************)
(* Hoare condition variables (hoare_cond.c), built by a user program from  *)
(* kernel mutexes.  As in MesaCond a condition variable is an inner mutex  *)
(* that is locked from its allocation on; the signaller hands the monitor  *)
(* mutex over with kthread_mutex_yieldlock, so a waiter does not lock it   *)
(* again.  One action per system call, with the user code up to the next.  *)
(***************************************************************************)
EXTENDS FifoMutex

CONSTANT Conds    \* the condition variables, each named like its inner mutex

ASSUME CondsAssumption == Conds \subseteq Mutexes /\ None \notin Conds

VARIABLES numOfThreadsWaiting,  \* cond -> its counter
          pc,                   \* thread -> place in its program
          cond,                 \* thread -> the condition it waits for or signals
          back,                 \* thread -> where it goes on after a signal
          overtaken             \* history: a signal came between a waiter's two calls

condVars == <<numOfThreadsWaiting, pc, cond, back, overtaken>>

goto(t, place) == pc' = [pc EXCEPT ![t] = place]

(* kthread_mutex_lock: returns at once or after a grant; a thread that must *)
(* wait queues up and stays where it is.                                    *)
LockReturns(t, m) == (~Waits(t, m) /\ Take(t, m)) \/ Grant(t, m)
LockQueues(t, m) == ~Waits(t, m) /\ Queue(t, m)

(* hoare_cond_wait: count the waiter, release the given mutex ... *)
WaitRelease(t, c, m) ==
  /\ numOfThreadsWaiting' = [numOfThreadsWaiting EXCEPT ![c] = @ + 1]
  /\ Unlock(m)
  /\ cond' = [cond EXCEPT ![t] = c]
  /\ goto(t, "blocked")
  /\ UNCHANGED <<back, overtaken>>

(* ... wait till signaled, and return as the owner of the given mutex. *)
WaitSignal(t) ==
  /\ pc[t] = "blocked"
  /\ \/ /\ LockReturns(t, cond[t]) /\ goto(t, "body")
        /\ numOfThreadsWaiting' = [numOfThreadsWaiting EXCEPT ![cond[t]] = @ - 1]
        /\ cond' = [cond EXCEPT ![t] = None]
     \/ LockQueues(t, cond[t]) /\ UNCHANGED <<numOfThreadsWaiting, pc, cond>>
  /\ UNCHANGED <<back, overtaken>>

(* hoare_cond_signal: nothing to do without a waiter, else yield the mutex ... *)
(* A waiter that is counted but not yet queued is overtaken by the signal: the *)
(* yield finds nobody to hand the mutex to, and just unlocks it.               *)
Signal(t, c, m, next) ==
  IF numOfThreadsWaiting[c] = 0
  THEN goto(t, next) /\ UNCHANGED <<mutexVars, cond, back, overtaken>>
  ELSE /\ YieldLock(t, m, c)
       /\ goto(t, "release")
       /\ cond' = [cond EXCEPT ![t] = c]
       /\ back' = [back EXCEPT ![t] = next]
       /\ overtaken' = (overtaken \/ waiting[c] = << >>)

(* ... unlock the inner mutex, which lets the waiter go ... *)
SignalRelease(t) ==
  /\ pc[t] = "release"
  /\ Unlock(cond[t])
  /\ goto(t, "retake")
  /\ UNCHANGED <<numOfThreadsWaiting, cond, back, overtaken>>

(* Mutant: the signaller goes on without the mutex. *)
SignalNoRetake(t, m) ==
  /\ pc[t] = "retake" /\ goto(t, back[t])
  /\ cond' = [cond EXCEPT ![t] = None]
  /\ UNCHANGED <<mutexVars, numOfThreadsWaiting, back, overtaken>>

(* ... and take the mutex back. *)
SignalRetake(t, m) ==
  /\ pc[t] = "retake"
  /\ \/ /\ LockReturns(t, m) /\ goto(t, back[t])
        /\ cond' = [cond EXCEPT ![t] = None]
     \/ LockQueues(t, m) /\ UNCHANGED <<pc, cond>>
  /\ UNCHANGED <<numOfThreadsWaiting, back, overtaken>>
=============================================================================
