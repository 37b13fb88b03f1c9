----------------------------- MODULE HoareSlots -----------------------------
(***************************************************************************)
(* The program slots_hoare.c: students take slots, a grader adds n         *)
(* whenever none is left, through the monitor of hoare_slots_monitor.c.    *)
(***************************************************************************)
EXTENDS HoareCond, Integers, FiniteSets

CONSTANTS Students, Grader, Main,
          n    \* N of slots_hoare.c: slots added each time

ASSUME SlotsAssumption ==
  /\ Threads = Students \cup {Grader, Main}
  /\ Mutexes = {"innerMutex", "noSlots", "freeSlots"} /\ Conds = {"noSlots", "freeSlots"}
  /\ Grader # Main /\ {Grader, Main} \cap Students = {} /\ IsFiniteSet(Students)
  /\ n \in Nat \ {0}

VARIABLES numOfFreeSlots, shouldStopAddingSlots, isGraderRunning,
          added,     \* slots added so far
          took       \* students that took a slot

monitor == <<numOfFreeSlots, shouldStopAddingSlots, isGraderRunning, added, took>>
vars == <<mutexVars, condVars, monitor>>

Init ==
  /\ owner = [m \in Mutexes |-> IF m \in Conds THEN Main ELSE None]
  /\ waiting = [m \in Mutexes |-> << >>]
  /\ numOfThreadsWaiting = [c \in Conds |-> 0]
  /\ pc = [t \in Threads |-> IF t = Main THEN "join" ELSE "start"]
  /\ cond = [t \in Threads |-> None] /\ back = [t \in Threads |-> "leave"]
  /\ overtaken = FALSE
  /\ numOfFreeSlots = 0 /\ shouldStopAddingSlots = FALSE /\ isGraderRunning = TRUE
  /\ added = 0 /\ took = {}

Enter(t) ==
  /\ pc[t] = "enter"
  /\ \/ LockReturns(t, "innerMutex") /\ goto(t, "body")
     \/ LockQueues(t, "innerMutex") /\ UNCHANGED pc
  /\ UNCHANGED <<numOfThreadsWaiting, cond, back, overtaken, monitor>>

Leave(t) ==
  /\ pc[t] = "leave"
  /\ Unlock("innerMutex")
  /\ goto(t, CASE t = Grader -> "start" [] t = Main -> "joinGrader" [] OTHER -> "done")
  /\ UNCHANGED <<numOfThreadsWaiting, cond, back, overtaken, monitor>>

-----------------------------------------------------------------------------
(* Mutant: the student leaves after asking, without a slot. *)
TakeSlotGivesUp(t) ==
  /\ t \in Students /\ pc[t] = "body" /\ numOfFreeSlots = 0
  /\ Signal(t, "noSlots", "innerMutex", "leave")
  /\ UNCHANGED <<numOfThreadsWaiting, monitor>>

(* hoare_slots_monitor_takeslot, no slot free: signal the grader ... *)
TakeSlotAsk(t) ==
  /\ t \in Students /\ pc[t] = "body" /\ numOfFreeSlots = 0
  /\ Signal(t, "noSlots", "innerMutex", "wait")
  /\ UNCHANGED <<numOfThreadsWaiting, monitor>>

(* ... and wait for free slots. *)
TakeSlotWait(t) ==
  /\ t \in Students /\ pc[t] = "wait"
  /\ WaitRelease(t, "freeSlots", "innerMutex")
  /\ UNCHANGED monitor

(* A slot is free: take it, then pass the signal on to a student or to the  *)
(* grader.  The test, the update and the second test are separate steps:    *)
(* they are only atomic if the monitor mutex protects them.                 *)
TakeSlotFree(t) ==
  /\ t \in Students /\ pc[t] = "body" /\ numOfFreeSlots # 0
  /\ goto(t, "take")
  /\ UNCHANGED <<mutexVars, numOfThreadsWaiting, cond, back, overtaken, monitor>>

TakeSlot(t) ==
  /\ pc[t] = "take"
  /\ numOfFreeSlots' = numOfFreeSlots - 1
  /\ took' = took \cup {t}
  /\ goto(t, "pass")
  /\ UNCHANGED <<mutexVars, numOfThreadsWaiting, cond, back, overtaken, shouldStopAddingSlots,
                 isGraderRunning, added>>

(* Mutant: another student is signalled though no slot is left. *)
TakeSlotPassOn(t) ==
  /\ pc[t] = "pass"
  /\ Signal(t, "freeSlots", "innerMutex", "leave")
  /\ UNCHANGED <<numOfThreadsWaiting, monitor>>

TakeSlotPass(t) ==
  /\ pc[t] = "pass"
  /\ Signal(t, IF numOfFreeSlots > 0 THEN "freeSlots" ELSE "noSlots", "innerMutex", "leave")
  /\ UNCHANGED <<numOfThreadsWaiting, monitor>>

(* hoare_slots_monitor_addslots: wait while slots are left ... *)
AddSlotsWait ==
  /\ pc[Grader] = "body" /\ ~shouldStopAddingSlots /\ numOfFreeSlots > 0
  /\ WaitRelease(Grader, "noSlots", "innerMutex")
  /\ UNCHANGED monitor

(* Mutant: the grader does not test what is left. *)
AddSlotsUntested ==
  /\ pc[Grader] = "body"
  /\ goto(Grader, IF shouldStopAddingSlots THEN "leave" ELSE "add")
  /\ UNCHANGED <<mutexVars, numOfThreadsWaiting, cond, back, overtaken, monitor>>

(* ... leave when told to stop, else go on to add ... *)
AddSlotsTest ==
  /\ pc[Grader] = "body" /\ (shouldStopAddingSlots \/ numOfFreeSlots <= 0)
  /\ goto(Grader, IF shouldStopAddingSlots THEN "leave" ELSE "add")
  /\ UNCHANGED <<mutexVars, numOfThreadsWaiting, cond, back, overtaken, monitor>>

(* ... set the slots to n and signal a student. *)
AddSlots ==
  /\ pc[Grader] = "add"
  /\ numOfFreeSlots' = n
  /\ added' = added + n
  /\ goto(Grader, "signal")
  /\ UNCHANGED <<mutexVars, numOfThreadsWaiting, cond, back, overtaken, shouldStopAddingSlots,
                 isGraderRunning, took>>

(* Mutant: the signal is in the loop, so the grader tests again after it. *)
AddSlotsLoops ==
  /\ pc[Grader] = "signal"
  /\ Signal(Grader, "freeSlots", "innerMutex", "body")
  /\ UNCHANGED <<numOfThreadsWaiting, monitor>>

AddSlotsSignal ==
  /\ pc[Grader] = "signal"
  /\ Signal(Grader, "freeSlots", "innerMutex", "leave")
  /\ UNCHANGED <<numOfThreadsWaiting, monitor>>

(* hoare_slots_monitor_stopadding *)
StopAdding ==
  /\ pc[Main] = "body"
  /\ shouldStopAddingSlots' = TRUE
  /\ Signal(Main, "noSlots", "innerMutex", "leave")
  /\ UNCHANGED <<numOfThreadsWaiting, numOfFreeSlots, isGraderRunning, added, took>>

-----------------------------------------------------------------------------
(* The bodies of student(), grader() and main() around the monitor calls. *)
StudentStart(t) ==
  /\ t \in Students /\ pc[t] = "start" /\ goto(t, "enter")
  /\ UNCHANGED <<mutexVars, numOfThreadsWaiting, cond, back, overtaken, monitor>>

GraderLoop ==
  /\ pc[Grader] = "start"
  /\ goto(Grader, IF isGraderRunning THEN "enter" ELSE "done")
  /\ UNCHANGED <<mutexVars, numOfThreadsWaiting, cond, back, overtaken, monitor>>

(* Mutant: isGraderRunning stays set. *)
MainForgets ==
  /\ pc[Main] = "join" /\ \A t \in Students : pc[t] = "done"
  /\ goto(Main, "enter")
  /\ UNCHANGED <<mutexVars, numOfThreadsWaiting, cond, back, overtaken, monitor>>

(* main() has joined every student: stop the grader. *)
MainStop ==
  /\ pc[Main] = "join" /\ \A t \in Students : pc[t] = "done"
  /\ isGraderRunning' = FALSE
  /\ goto(Main, "enter")
  /\ UNCHANGED <<mutexVars, numOfThreadsWaiting, cond, back, overtaken, numOfFreeSlots, shouldStopAddingSlots,
                 added, took>>

(* main() has joined the grader: hoare_slots_monitor_dealloc, which unlocks *)
(* the inner mutex of each condition, waiters or not.                       *)
MainDealloc ==
  /\ pc[Main] = "joinGrader" /\ pc[Grader] = "done"
  /\ owner' = [m \in Mutexes |-> IF m \in Conds THEN None ELSE owner[m]]
  /\ goto(Main, "done")
  /\ UNCHANGED <<waiting, numOfThreadsWaiting, cond, back, overtaken, monitor>>

Step(t) ==
  \/ Enter(t) \/ Leave(t)
  \/ WaitSignal(t) /\ UNCHANGED monitor
  \/ SignalRelease(t) /\ UNCHANGED monitor
  \/ SignalRetake(t, "innerMutex") /\ UNCHANGED monitor
  \/ StudentStart(t) \/ TakeSlotAsk(t) \/ TakeSlotWait(t)
  \/ TakeSlotFree(t) \/ TakeSlot(t) \/ TakeSlotPass(t)
  \/ t = Grader /\ (GraderLoop \/ AddSlotsWait \/ AddSlotsTest \/ AddSlots \/ AddSlotsSignal)
  \/ t = Main /\ (StopAdding \/ MainStop \/ MainDealloc)

(* Every thread has left; the program does nothing more. *)
Done == \A t \in Threads : pc[t] = "done"

Next == (\E t \in Threads : Step(t)) \/ (Done /\ UNCHANGED vars)

Spec == Init /\ [][Next]_vars

(* Every runnable thread is run by scheduler(). *)
FairSpec == Spec /\ \A t \in Threads : WF_vars(Step(t))

-----------------------------------------------------------------------------
Inside == {"body", "take", "pass", "add", "signal", "wait", "leave"}

TypeOK ==
  /\ MutexTypeOK
  /\ numOfThreadsWaiting \in [Conds -> Int]
  /\ pc \in [Threads -> Inside \cup {"start", "enter", "blocked", "release", "retake",
                                     "join", "joinGrader", "done"}]
  /\ cond \in [Threads -> Conds \cup {None}]
  /\ back \in [Threads -> {"wait", "leave"}] /\ overtaken \in BOOLEAN
  /\ numOfFreeSlots \in Int /\ shouldStopAddingSlots \in BOOLEAN /\ isGraderRunning \in BOOLEAN
  /\ added \in Nat /\ took \subseteq Students

(* "MUST HOLD mutex_id for this" (hoare_cond.c:70), read as it stands:      *)
(* whoever is inside a monitor call owns the monitor's mutex.  The timer    *)
(* can hit hoare_cond_wait between its two calls, and then this is false.   *)
MustHoldMutex == \A t \in Threads : pc[t] \in Inside => owner["innerMutex"] = t

(* What is left of it: as long as no signal has overtaken a waiter that was *)
(* counted but not yet queued, whoever is inside, back from a wait or a     *)
(* signal included, owns the mutex - also while waiters are hit by the      *)
(* timer between the two calls and others enter, wait and signal.           *)
MonitorExclusion == ~overtaken => MustHoldMutex

(* As long as no signal has overtaken a waiter, slots are neither lost nor  *)
(* oversold, and there are never more than n.                               *)
SlotsConserved ==
  ~overtaken => added - Cardinality(took) = numOfFreeSlots /\ numOfFreeSlots \in 0..n

(* takeslot does not return before its student has a slot.                  *)
EveryStudentServed == \A t \in Students : pc[t] = "done" => t \in took

(* A waiter returns from hoare_cond_wait. *)
Resumes(t) == pc[t] = "blocked" /\ pc'[t] = "body"

(* What a Hoare condition adds to a Mesa one: the monitor goes straight     *)
(* from the signaller to the waiter, who finds what it was waiting for -    *)
(* as long as no signal has overtaken a waiter.                             *)
SignalKeepsCondition ==
  [][~overtaken =>
       /\ \A t \in Students : Resumes(t) => numOfFreeSlots > 0
       /\ Resumes(Grader) => numOfFreeSlots = 0 \/ shouldStopAddingSlots ]_vars

(* The program ends: no student waits forever for a slot, and the grader,   *)
(* waiting or not, sees that it has to stop.  Once a signal has overtaken a *)
(* waiter, threads may wait for each other for ever.                        *)
Terminates == <>(Done \/ overtaken)
=============================================================================
