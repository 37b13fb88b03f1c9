----------------------------- MODULE MesaSlots -----------------------------
(***************************************************************************)
(* The program slots_mesa.c: students take slots, a grader adds n whenever *)
(* none is left, through the monitor of mesa_slots_monitor.c.              *)
(***************************************************************************)
EXTENDS MesaCond, Integers, FiniteSets

CONSTANTS Students, Grader, Main,
          n    \* N of slots_mesa.c: slots added each time

ASSUME SlotsAssumption ==
  /\ Threads = Students \cup {Grader, Main}
  /\ Mutexes = {"innerMutex", "noSlots", "freeSlots"} /\ Conds = {"noSlots", "freeSlots"}
  /\ Grader # Main /\ {Grader, Main} \cap Students = {} /\ IsFiniteSet(Students)
  /\ n \in Nat \ {0}

VARIABLES numOfFreeSlots, shouldStopAddingSlots, isGraderRunning,
          added,     \* slots added so far
          took,      \* students that took a slot
          result     \* thread -> what its last monitor call returns

monitor == <<numOfFreeSlots, shouldStopAddingSlots, isGraderRunning, added, took, result>>
vars == <<mutexVars, condVars, monitor>>

Init ==
  /\ owner = [m \in Mutexes |-> IF m \in Conds THEN Main ELSE None]
  /\ waiting = [m \in Mutexes |-> << >>]
  /\ numOfThreadsWaiting = [c \in Conds |-> 0]
  /\ pc = [t \in Threads |-> IF t = Main THEN "join" ELSE "start"]
  /\ cond = [t \in Threads |-> None]
  /\ numOfFreeSlots = 0 /\ shouldStopAddingSlots = FALSE /\ isGraderRunning = TRUE
  /\ added = 0 /\ took = {}
  /\ result = [t \in Threads |-> 0]

(* The signal at the end of a monitor call: its failure is the call's result. *)
SignalAndLeave(t, c) ==
  /\ Signal(c)
  /\ result' = [result EXCEPT ![t] = IF SignalFails(c) THEN -1 ELSE 0]
  /\ goto(t, "leave")

Enter(t) ==
  /\ pc[t] = "enter"
  /\ \/ LockReturns(t, "innerMutex") /\ goto(t, "body")
     \/ LockQueues(t, "innerMutex") /\ UNCHANGED pc
  /\ UNCHANGED <<numOfThreadsWaiting, cond, monitor>>

Leave(t) ==
  /\ pc[t] = "leave"
  /\ Unlock("innerMutex")
  /\ goto(t, CASE t = Grader -> "start" [] t = Main -> "joinGrader" [] OTHER -> "done")
  /\ UNCHANGED <<numOfThreadsWaiting, cond, monitor>>

-----------------------------------------------------------------------------
(* Mutant: the failure of the signal is not passed on. *)
TakeSlotIgnores(t) ==
  /\ t \in Students /\ pc[t] = "body" /\ numOfFreeSlots = 0
  /\ Signal("noSlots")
  /\ goto(t, IF SignalFails("noSlots") THEN "leave" ELSE "wait")
  /\ UNCHANGED <<numOfThreadsWaiting, cond, monitor>>

(* mesa_slots_monitor_takeslot, no slot free: signal the grader ... *)
TakeSlotAsk(t) ==
  /\ t \in Students /\ pc[t] = "body" /\ numOfFreeSlots = 0
  /\ Signal("noSlots")
  /\ IF SignalFails("noSlots")
     THEN goto(t, "leave") /\ result' = [result EXCEPT ![t] = -1]
     ELSE goto(t, "wait") /\ UNCHANGED result
  /\ UNCHANGED <<numOfThreadsWaiting, cond, numOfFreeSlots, shouldStopAddingSlots,
                 isGraderRunning, added, took>>

(* ... and wait for free slots. *)
TakeSlotWait(t) ==
  /\ t \in Students /\ pc[t] = "wait"
  /\ WaitRelease(t, "freeSlots", "innerMutex")
  /\ UNCHANGED monitor

(* Mutant: the student does not look again after its wait. *)
TakeSlotUntested(t) ==
  /\ t \in Students /\ pc[t] = "body"
  /\ numOfFreeSlots' = numOfFreeSlots - 1
  /\ took' = took \cup {t}
  /\ SignalAndLeave(t, IF numOfFreeSlots' > 0 THEN "freeSlots" ELSE "noSlots")
  /\ UNCHANGED <<numOfThreadsWaiting, cond, shouldStopAddingSlots, isGraderRunning, added>>

(* A slot is free: take it, pass the signal on to a student or to the grader. *)
TakeSlot(t) ==
  /\ t \in Students /\ pc[t] = "body" /\ numOfFreeSlots # 0
  /\ numOfFreeSlots' = numOfFreeSlots - 1
  /\ took' = took \cup {t}
  /\ SignalAndLeave(t, IF numOfFreeSlots' > 0 THEN "freeSlots" ELSE "noSlots")
  /\ UNCHANGED <<numOfThreadsWaiting, cond, shouldStopAddingSlots, isGraderRunning, added>>

(* mesa_slots_monitor_addslots: wait while slots are left ... *)
AddSlotsWait ==
  /\ pc[Grader] = "body" /\ ~shouldStopAddingSlots /\ numOfFreeSlots > 0
  /\ WaitRelease(Grader, "noSlots", "innerMutex")
  /\ UNCHANGED monitor

(* ... leave when told to stop ... *)
AddSlotsStop ==
  /\ pc[Grader] = "body" /\ shouldStopAddingSlots
  /\ result' = [result EXCEPT ![Grader] = 0]
  /\ goto(Grader, "leave")
  /\ UNCHANGED <<mutexVars, numOfThreadsWaiting, cond, numOfFreeSlots, shouldStopAddingSlots,
                 isGraderRunning, added, took>>

(* Mutant: slots are set again while some are left. *)
AddSlotsAnyway ==
  /\ pc[Grader] = "body" /\ ~shouldStopAddingSlots
  /\ numOfFreeSlots' = n
  /\ added' = added + n
  /\ SignalAndLeave(Grader, "freeSlots")
  /\ UNCHANGED <<numOfThreadsWaiting, cond, shouldStopAddingSlots, isGraderRunning, took>>

(* ... or set the slots to n and signal a student. *)
AddSlots ==
  /\ pc[Grader] = "body" /\ ~shouldStopAddingSlots /\ numOfFreeSlots <= 0
  /\ numOfFreeSlots' = n
  /\ added' = added + n
  /\ SignalAndLeave(Grader, "freeSlots")
  /\ UNCHANGED <<numOfThreadsWaiting, cond, shouldStopAddingSlots, isGraderRunning, took>>

(* mesa_slots_monitor_stopadding *)
StopAdding ==
  /\ pc[Main] = "body"
  /\ shouldStopAddingSlots' = TRUE
  /\ SignalAndLeave(Main, "noSlots")
  /\ UNCHANGED <<numOfThreadsWaiting, cond, numOfFreeSlots, isGraderRunning, added, took>>

-----------------------------------------------------------------------------
(* The bodies of student(), grader() and main() around the monitor calls. *)
StudentStart(t) ==
  /\ t \in Students /\ pc[t] = "start" /\ goto(t, "enter")
  /\ UNCHANGED <<mutexVars, numOfThreadsWaiting, cond, monitor>>

GraderLoop ==
  /\ pc[Grader] = "start"
  /\ goto(Grader, IF isGraderRunning THEN "enter" ELSE "done")
  /\ UNCHANGED <<mutexVars, numOfThreadsWaiting, cond, monitor>>

(* Mutant: isGraderRunning stays set. *)
MainForgets ==
  /\ pc[Main] = "join" /\ \A t \in Students : pc[t] = "done"
  /\ goto(Main, "enter")
  /\ UNCHANGED <<mutexVars, numOfThreadsWaiting, cond, monitor>>

(* main() has joined every student: stop the grader. *)
MainStop ==
  /\ pc[Main] = "join" /\ \A t \in Students : pc[t] = "done"
  /\ isGraderRunning' = FALSE
  /\ goto(Main, "enter")
  /\ UNCHANGED <<mutexVars, numOfThreadsWaiting, cond, numOfFreeSlots, shouldStopAddingSlots,
                 added, took, result>>

(* main() has joined the grader: mesa_slots_monitor_dealloc, which unlocks  *)
(* the inner mutex of each condition and stops at the first that fails.     *)
CondBusy(c) == numOfThreadsWaiting[c] > 0

MainDealloc ==
  /\ pc[Main] = "joinGrader" /\ pc[Grader] = "done"
  /\ LET freesFirst == ~CondBusy("noSlots") /\ Locked("noSlots")
         freesBoth == freesFirst /\ ~CondBusy("freeSlots") /\ Locked("freeSlots")
         freesAll == freesBoth /\ ~Locked("innerMutex")
     IN  /\ owner' = [m \in Mutexes |->
                        IF \/ m = "noSlots" /\ ~CondBusy(m)
                           \/ m = "freeSlots" /\ freesFirst /\ ~CondBusy(m)
                        THEN None ELSE owner[m]]
         /\ result' = [result EXCEPT ![Main] = IF freesAll THEN 0 ELSE -1]
  /\ goto(Main, "done")
  /\ UNCHANGED <<waiting, numOfThreadsWaiting, cond, numOfFreeSlots, shouldStopAddingSlots,
                 isGraderRunning, added, took>>

Step(t) ==
  \/ Enter(t) \/ Leave(t)
  \/ WaitSignal(t) /\ UNCHANGED monitor
  \/ WaitRetake(t, "innerMutex") /\ UNCHANGED monitor
  \/ StudentStart(t) \/ TakeSlotAsk(t) \/ TakeSlotWait(t) \/ TakeSlot(t)
  \/ t = Grader /\ (GraderLoop \/ AddSlotsWait \/ AddSlotsStop \/ AddSlots)
  \/ t = Main /\ (StopAdding \/ MainStop \/ MainDealloc)

(* Every thread has left; the program does nothing more. *)
Done == \A t \in Threads : pc[t] = "done"

Next == (\E t \in Threads : Step(t)) \/ (Done /\ UNCHANGED vars)

Spec == Init /\ [][Next]_vars

(* Every runnable thread is run by scheduler(). *)
FairSpec == Spec /\ \A t \in Threads : WF_vars(Step(t))

-----------------------------------------------------------------------------
TypeOK ==
  /\ MutexTypeOK
  /\ numOfThreadsWaiting \in [Conds -> Nat]
  /\ pc \in [Threads -> {"start", "enter", "body", "wait", "blocked", "retake", "leave",
                         "join", "joinGrader", "done"}]
  /\ cond \in [Threads -> Conds \cup {None}]
  /\ numOfFreeSlots \in 0..n /\ shouldStopAddingSlots \in BOOLEAN /\ isGraderRunning \in BOOLEAN
  /\ added \in Nat /\ took \subseteq Students /\ result \in [Threads -> {0, -1}]

(* Whoever is inside a monitor call, back from a wait included, owns the    *)
(* monitor's mutex: the counters and the slots are touched by one thread.   *)
MonitorExclusion ==
  \A t \in Threads : pc[t] \in {"body", "wait", "leave"} => owner["innerMutex"] = t

(* Slots are neither lost nor oversold: addslots sets the count, and does   *)
(* so only when the slots added before were all taken.                      *)
SlotsConserved == added - Cardinality(took) = numOfFreeSlots /\ numOfFreeSlots >= 0

(* takeslot returns 0 only to a student that got a slot.                    *)
SuccessMeansSlot == \A t \in Students : pc[t] = "done" /\ result[t] = 0 => t \in took

(* "waiting if no free slots" (mesa_slots_monitor.c:131): takeslot does not *)
(* return before its student has a slot.                                    *)
EveryStudentServed == \A t \in Students : pc[t] = "done" => t \in took

(* The program ends: no student waits forever for a slot, and the grader,   *)
(* waiting or not, sees that it has to stop.                                *)
Terminates == <>Done
=============================================================================
