-------------------------- MODULE HoareSlots_proofs --------------------------
(***************************************************************************)
(* Safety of slots_hoare for every number of students and of slots.  Loose  *)
(* holds always.  IInv, the inductive invariant of the monitor, holds until *)
(* a signal overtakes a waiter: nothing else the timer does to a thread     *)
(* between the two calls of hoare_cond_wait breaks it.                      *)
(***************************************************************************)
EXTENDS HoareSlots, FiniteSetTheorems, TLAPS

Types ==
  /\ MutexTypeOK
  /\ numOfThreadsWaiting \in [Conds -> Nat]
  /\ pc \in [Threads -> Inside \cup {"start", "enter", "blocked", "release", "retake",
                                     "join", "joinGrader", "done"}]
  /\ cond \in [Threads -> Conds \cup {None}]
  /\ back \in [Threads -> {"wait", "leave"}]
  /\ numOfFreeSlots \in 0..n /\ shouldStopAddingSlots \in BOOLEAN /\ isGraderRunning \in BOOLEAN
  /\ added \in Nat /\ took \subseteq Students

Waiters(c) == {t \in Threads : pc[t] = "blocked" /\ cond[t] = c}
Queued(c) == {waiting[c][i] : i \in 1..Len(waiting[c])}

(* Who has a condition, who waits for which one, whose a place is. *)
Roles ==
  /\ \A t \in Threads : cond[t] # None <=> pc[t] \in {"blocked", "release", "retake"}
  /\ \A t \in Threads : pc[t] = "blocked" => (cond[t] = "freeSlots" <=> t \in Students)
  /\ \A t \in Threads : pc[t] \in {"take", "pass"} => t \in Students
  /\ \A t \in Threads : pc[t] \in {"add", "signal"} => t = Grader
  /\ \A t \in Threads : pc[t] = "blocked" => t # Main

Counts == \A c \in Conds : numOfThreadsWaiting[c] = Cardinality(Waiters(c))

(* The queue of a condition's inner mutex holds some of its waiters, once each. *)
Queues ==
  \A c \in Conds :
    /\ \A i \in 1..Len(waiting[c]) : waiting[c][i] \in Waiters(c)
    /\ \A i, j \in 1..Len(waiting[c]) : waiting[c][i] = waiting[c][j] => i = j

(* The monitor's mutex belongs to the first waiter of c, which may not have  *)
(* noticed yet.                                                              *)
Yielded(c) == waiting[c] # << >> /\ owner["innerMutex"] = Head(waiting[c])

(* A signaller has yielded the monitor to the waiter it is about to let go,  *)
(* and only such a waiter finds an inner mutex unlocked.                     *)
HandOff ==
  /\ \A t \in Threads : pc[t] = "release" => Yielded(cond[t]) /\ owner[cond[t]] # None
  /\ \A s, t \in Threads : pc[s] = "release" /\ pc[t] = "release" => s = t
  /\ pc[Main] # "done" => \A c \in Conds : owner[c] = None => Yielded(c)
  /\ \A t \in Threads : pc[t] = "blocked" /\ owner["innerMutex"] = t => Yielded(cond[t])

(* main() stops the grader when every student is done, and ends last. *)
MainLast ==
  /\ pc[Main] # "join" => \A t \in Students : pc[t] = "done"
  /\ pc[Main] = "done" => \A t \in Threads : pc[t] = "done"

(* Slots are neither lost nor oversold. *)
Conserved == added - Cardinality(took) = numOfFreeSlots /\ numOfFreeSlots >= 0

(* A student has taken its slot exactly when it is past that line. *)
Past(t) == pc[t] \in {"pass", "leave", "done"} \/ (pc[t] \in {"release", "retake"} /\ back[t] = "leave")
Taken == \A t \in Students : t \in took <=> Past(t)

(* What a test inside the monitor has found still holds. *)
Tested ==
  /\ \A t \in Threads : pc[t] = "take" => numOfFreeSlots > 0
  /\ pc[Grader] = "add" => numOfFreeSlots = 0
  /\ pc[Grader] = "signal" => numOfFreeSlots = n

(* What a condition stands for holds while the monitor is handed over. *)
Holds(c) == IF c = "freeSlots" THEN numOfFreeSlots > 0 ELSE numOfFreeSlots = 0 \/ shouldStopAddingSlots
Kept == pc[Main] # "done" => \A c \in Conds : Yielded(c) => Holds(c)

IInv == /\ Types /\ MustHoldMutex /\ Roles /\ Counts /\ Queues /\ HandOff /\ MainLast
        /\ Conserved /\ Taken /\ Tested /\ Kept

-----------------------------------------------------------------------------
LEMMA ThreadFacts ==
  /\ IsFiniteSet(Threads) /\ IsFiniteSet(Students) /\ Students \subseteq Threads
  /\ Grader \in Threads /\ Main \in Threads /\ Grader # Main
  /\ Grader \notin Students /\ Main \notin Students
  /\ None \notin Threads
<1>1. IsFiniteSet(Students \cup {Grader})
  BY FS_AddElement, SlotsAssumption
<1>2. IsFiniteSet((Students \cup {Grader}) \cup {Main})
  BY <1>1, FS_AddElement
<1>3. Threads = (Students \cup {Grader}) \cup {Main}
  BY SlotsAssumption
<1> QED
  BY <1>2, <1>3, SlotsAssumption, NoneAssumption

LEMMA MutexFacts ==
  /\ "innerMutex" \in Mutexes /\ "innerMutex" \notin Conds
  /\ Conds = {"noSlots", "freeSlots"} /\ Conds \subseteq Mutexes /\ None \notin Conds
  /\ n \in Nat /\ n > 0
BY SlotsAssumption, CondsAssumption

(* The first thread of a condition's queue waits for that condition. *)
LEMMA HeadWaits ==
  ASSUME Types, Queues, NEW c \in Conds, waiting[c] # << >>
  PROVE  Head(waiting[c]) \in Waiters(c)
<1>1. waiting[c] \in Seq(Threads)
  BY MutexFacts DEF Types, MutexTypeOK
<1>2. 1 \in 1..Len(waiting[c]) /\ Head(waiting[c]) = waiting[c][1]
  BY <1>1
<1> QED
  BY <1>2 DEF Queues

(* The effect of the calls on a mutex, by variable. *)
LEMMA OperationType ==
  ASSUME MutexTypeOK, NEW t \in Threads, NEW m \in Mutexes
  PROVE  /\ LockReturns(t, m) => MutexTypeOK' /\ owner[m] = None /\ owner' = [owner EXCEPT ![m] = t]
         /\ LockQueues(t, m) => MutexTypeOK' /\ owner' = owner
         /\ Unlock(m) => MutexTypeOK' /\ owner' = [owner EXCEPT ![m] = None]
         /\ \A k \in Mutexes \ {m} :
              LockReturns(t, m) \/ LockQueues(t, m) \/ Unlock(m) => waiting'[k] = waiting[k]
<1>1. Unlock(m) => MutexTypeOK' /\ owner' = [owner EXCEPT ![m] = None] /\ waiting' = waiting
  BY DEF MutexTypeOK, Unlock
<1>2. LockQueues(t, m) => MutexTypeOK' /\ owner' = owner
  BY DEF MutexTypeOK, LockQueues, Queue
<1>3. LockReturns(t, m) => MutexTypeOK' /\ owner[m] = None /\ owner' = [owner EXCEPT ![m] = t]
  <2>1. Take(t, m) => MutexTypeOK' /\ owner[m] = None
    BY DEF MutexTypeOK, Take, Locked
  <2>2. ASSUME Grant(t, m) PROVE MutexTypeOK'
    <3>1. Tail(waiting[m]) \in Seq(Threads)
      BY <2>2 DEF Grant, MutexTypeOK
    <3> QED
      BY <2>2, <3>1 DEF Grant, MutexTypeOK
  <2> QED
    BY <2>1, <2>2 DEF LockReturns, Take, Grant
<1>4. ASSUME NEW k \in Mutexes \ {m}, LockReturns(t, m) \/ LockQueues(t, m)
      PROVE waiting'[k] = waiting[k]
  BY <1>4 DEF MutexTypeOK, LockReturns, LockQueues, Take, Grant, Queue
<1> QED
  BY <1>1, <1>2, <1>3, <1>4

-----------------------------------------------------------------------------
(* No hand-over is under way. *)
Quiet ==
  /\ pc[Main] # "done"
  /\ \A c \in Conds : ~Yielded(c) /\ owner[c] # None
  /\ \A t \in Threads : pc[t] # "release"

(* So it is when somebody is inside, who is then alone, ... *)
LEMMA InsideIsQuiet ==
  ASSUME IInv, NEW t \in Threads, pc[t] \in Inside
  PROVE  /\ Quiet /\ owner["innerMutex"] = t
         /\ \A u \in Threads \ {t} : pc[u] \notin Inside
<1> USE DEF IInv
<1>1. owner["innerMutex"] = t
  BY DEF MustHoldMutex
<1>2. pc[Main] # "done"
  BY DEF MainLast, Inside
<1>3. ASSUME NEW c \in Conds PROVE ~Yielded(c)
  BY <1>1, HeadWaits DEF Yielded, Waiters, Inside
<1>4. ASSUME NEW c \in Conds PROVE owner[c] # None
  BY <1>2, <1>3 DEF HandOff
<1>5. ASSUME NEW u \in Threads PROVE pc[u] # "release"
  <2> SUFFICES ASSUME pc[u] = "release" PROVE FALSE
    OBVIOUS
  <2>1. Yielded(cond[u]) /\ cond[u] \in Conds
    BY DEF HandOff, Roles, Types
  <2> QED
    BY <2>1, <1>3
<1> QED
  BY <1>1, <1>2, <1>3, <1>4, <1>5 DEF Quiet, MustHoldMutex

(* ... and when nobody owns the monitor's mutex. *)
LEMMA FreeIsQuiet ==
  ASSUME IInv, pc[Main] # "done", owner["innerMutex"] = None
  PROVE  Quiet
<1> USE DEF IInv
<1>1. ASSUME NEW c \in Conds PROVE ~Yielded(c)
  BY HeadWaits, ThreadFacts DEF Yielded, Waiters
<1>2. ASSUME NEW c \in Conds PROVE owner[c] # None
  BY <1>1 DEF HandOff
<1>3. ASSUME NEW u \in Threads PROVE pc[u] # "release"
  <2> SUFFICES ASSUME pc[u] = "release" PROVE FALSE
    OBVIOUS
  <2>1. Yielded(cond[u]) /\ cond[u] \in Conds
    BY DEF HandOff, Roles, Types
  <2> QED
    BY <2>1, <1>1
<1> QED
  BY <1>1, <1>2, <1>3 DEF Quiet

(* A quiet step that leaves the inner mutexes of the conditions alone and    *)
(* gives the monitor's mutex to its own thread or to nobody.                 *)
LEMMA QuietKept ==
  ASSUME IInv, Quiet, NEW t \in Threads, pc[t] # "blocked", Types',
         \A c \in Conds : waiting'[c] = waiting[c] /\ owner'[c] = owner[c],
         \A u \in Threads \ {t} : pc'[u] = pc[u] /\ cond'[u] = cond[u],
         pc'[t] # "release", owner'["innerMutex"] \in {None, t},
         pc'[t] = "blocked" => owner'["innerMutex"] = None
  PROVE  Queues' /\ HandOff' /\ Kept'
<1> USE DEF IInv
<1>1. ASSUME NEW c \in Conds PROVE t \notin Waiters(c) /\ Waiters(c)' \ {t} = Waiters(c)
  BY DEF Waiters
<1>2. Queues'
  <2> SUFFICES ASSUME NEW c \in Conds
               PROVE  /\ \A i \in 1..Len(waiting'[c]) : waiting'[c][i] \in Waiters(c)'
                      /\ \A i, j \in 1..Len(waiting'[c]) : waiting'[c][i] = waiting'[c][j] => i = j
    BY DEF Queues
  <2> QED
    BY <1>1 DEF Queues
<1>3. ASSUME NEW c \in Conds, waiting'[c] # << >> PROVE owner'["innerMutex"] # Head(waiting'[c])
  <2>1. Head(waiting[c]) \in Waiters(c)
    BY <1>3, HeadWaits
  <2> QED
    BY <1>1, <2>1, ThreadFacts DEF Waiters
<1>4. HandOff' /\ Kept'
  BY <1>3, ThreadFacts DEF Quiet, HandOff, Kept, Yielded
<1> QED
  BY <1>2, <1>4

(* The counters follow the waiters. *)
LEMMA CountsKept ==
  ASSUME Counts, numOfThreadsWaiting' = numOfThreadsWaiting, \A c \in Conds : Waiters(c)' = Waiters(c)
  PROVE  Counts'
BY DEF Counts

LEMMA CountsUp ==
  ASSUME Types, Counts, NEW t \in Threads, NEW c \in Conds, pc[t] # "blocked",
         pc' = [pc EXCEPT ![t] = "blocked"], cond' = [cond EXCEPT ![t] = c],
         numOfThreadsWaiting' = [numOfThreadsWaiting EXCEPT ![c] = @ + 1]
  PROVE  Counts'
<1> SUFFICES ASSUME NEW d \in Conds PROVE numOfThreadsWaiting'[d] = Cardinality(Waiters(d)')
  BY DEF Counts
<1>1. IsFiniteSet(Waiters(d))
  BY ThreadFacts, FS_Subset DEF Waiters
<1>2. CASE d = c
  <2>1. Waiters(d)' = Waiters(d) \cup {t} /\ t \notin Waiters(d)
    BY <1>2 DEF Waiters, Types
  <2>2. Cardinality(Waiters(d) \cup {t}) = Cardinality(Waiters(d)) + 1
    BY <1>1, <2>1, FS_AddElement
  <2> QED
    BY <1>2, <2>1, <2>2 DEF Counts, Types
<1>3. CASE d # c
  <2>1. Waiters(d)' = Waiters(d)
    BY <1>3 DEF Waiters, Types
  <2> QED
    BY <1>3, <2>1 DEF Counts, Types
<1> QED
  BY <1>2, <1>3

LEMMA CountsDown ==
  ASSUME Types, Counts, NEW t \in Threads, pc[t] = "blocked", cond[t] \in Conds,
         pc' = [pc EXCEPT ![t] = "body"], cond' = [cond EXCEPT ![t] = None],
         numOfThreadsWaiting' = [numOfThreadsWaiting EXCEPT ![cond[t]] = @ - 1]
  PROVE  Counts' /\ numOfThreadsWaiting' \in [Conds -> Nat]
<1>1. SUFFICES ASSUME NEW d \in Conds
               PROVE  numOfThreadsWaiting'[d] = Cardinality(Waiters(d)') /\ numOfThreadsWaiting'[d] \in Nat
  BY DEF Counts, Types
<1>2. IsFiniteSet(Waiters(d)) /\ IsFiniteSet(Waiters(d)')
  BY ThreadFacts, FS_Subset DEF Waiters
<1>3. Cardinality(Waiters(d)') \in Nat
  BY <1>2, FS_CardinalityType
<1>4. CASE d = cond[t]
  <2>1. Waiters(d)' = Waiters(d) \ {t} /\ t \in Waiters(d)
    BY <1>4 DEF Waiters, Types
  <2>2. Cardinality(Waiters(d) \ {t}) = Cardinality(Waiters(d)) - 1
    BY <1>2, <2>1, FS_RemoveElement
  <2> QED
    BY <1>3, <1>4, <2>1, <2>2 DEF Counts, Types
<1>5. CASE d # cond[t]
  <2>1. Waiters(d)' = Waiters(d)
    BY <1>5 DEF Waiters, Types
  <2> QED
    BY <1>3, <1>5, <2>1 DEF Counts, Types
<1> QED
  BY <1>4, <1>5

(* main() is last whatever the others do: who moves is not done. *)
LEMMA MainLastKept ==
  ASSUME MainLast, NEW t \in Threads, NEW p, pc[t] # "done", pc' = [pc EXCEPT ![t] = p],
         pc \in [Threads -> Inside \cup {"start", "enter", "blocked", "release", "retake", "join",
                                         "joinGrader", "done"}],
         t = Main => p # "done" /\ pc[Main] # "join"
  PROVE  MainLast'
BY ThreadFacts DEF MainLast

(* A step of t that leaves the slots alone keeps what is said about them, if *)
(* it neither takes t past its update nor to a line that a test guards.      *)
LEMMA SlotsKept ==
  ASSUME IInv, NEW t \in Threads, UNCHANGED <<numOfFreeSlots, added, took>>,
         \A u \in Threads \ {t} : pc'[u] = pc[u] /\ back'[u] = back[u],
         t \in Students => (Past(t)' <=> Past(t)), pc'[t] \notin {"take", "add", "signal"}
  PROVE  Conserved' /\ Taken' /\ Tested'
<1>1. Conserved'
  BY DEF IInv, Conserved
<1>2. Taken'
  <2> SUFFICES ASSUME NEW u \in Students PROVE u \in took <=> Past(u)'
    BY DEF Taken
  <2>1. CASE u = t
    BY <2>1 DEF IInv, Taken
  <2>2. CASE u # t
    BY <2>2, ThreadFacts DEF IInv, Taken, Past
  <2> QED
    BY <2>1, <2>2
<1>3. Tested'
  BY ThreadFacts DEF IInv, Tested
<1> QED
  BY <1>1, <1>2, <1>3

(* The roles after a step of t to p with condition c. *)
LEMMA RolesKept ==
  ASSUME IInv, NEW t \in Threads, NEW p, NEW c,
         pc' = [pc EXCEPT ![t] = p], cond' = [cond EXCEPT ![t] = c],
         c # None <=> p \in {"blocked", "release", "retake"},
         p = "blocked" => (c = "freeSlots" <=> t \in Students) /\ t # Main,
         p \in {"take", "pass"} => t \in Students, p \in {"add", "signal"} => t = Grader
  PROVE  Roles'
BY DEF IInv, Roles, Types

(* Nobody else is inside when the monitor's mutex is free or t's own. *)
LEMMA ExclusionKept ==
  ASSUME IInv, NEW t \in Threads, owner["innerMutex"] \in {None, t},
         \A u \in Threads \ {t} : pc'[u] = pc[u],
         pc'[t] \in Inside => owner'["innerMutex"] = t
  PROVE  MustHoldMutex'
BY ThreadFacts DEF IInv, MustHoldMutex

(* lock returns with the monitor's mutex: t goes on at p inside. *)
LEMMA LockReturnsStep ==
  ASSUME IInv, NEW t \in Threads, NEW p, LockReturns(t, "innerMutex"),
         pc[t] \in {"enter", "retake"}, p = IF pc[t] = "enter" THEN "body" ELSE back[t],
         pc' = [pc EXCEPT ![t] = p], cond' = [cond EXCEPT ![t] = None],
         UNCHANGED <<numOfThreadsWaiting, back, monitor>>
  PROVE  IInv'
<1> USE DEF IInv
<1>1. p \in {"body", "wait", "leave"}
  BY DEF Types
<1>2. /\ MutexTypeOK' /\ owner["innerMutex"] = None /\ owner' = [owner EXCEPT !["innerMutex"] = t]
      /\ \A c \in Conds : waiting'[c] = waiting[c]
  BY OperationType, MutexFacts DEF Types
<1>3. owner'["innerMutex"] = t /\ \A c \in Conds : owner'[c] = owner[c]
  BY <1>2, MutexFacts DEF Types, MutexTypeOK
<1>4. Types'
  BY <1>1, <1>2 DEF Types, monitor, Inside
<1>5. /\ pc'[t] = p
      /\ \A u \in Threads \ {t} : pc'[u] = pc[u] /\ cond'[u] = cond[u] /\ back'[u] = back[u]
  BY DEF Types
<1>6. pc[Main] # "done" /\ (t = Main => pc[Main] # "join")
  BY DEF MainLast
<1>7. Queues' /\ HandOff' /\ Kept'
  <2>1. Quiet
    BY <1>2, <1>6, FreeIsQuiet
  <2> QED
    BY <1>1, <1>2, <1>3, <1>4, <1>5, <2>1, QuietKept
<1>8. MustHoldMutex'
  BY <1>2, <1>3, <1>5, ExclusionKept
<1>9. Roles'
  BY <1>1, RolesKept
<1>10. Counts'
  BY <1>1, <1>5, CountsKept DEF Waiters, Types
<1>11. MainLast'
  BY <1>1, <1>6, MainLastKept DEF Types
<1>12. Conserved' /\ Taken' /\ Tested'
  BY <1>1, <1>5, SlotsKept DEF Past, monitor
<1> QED
  BY <1>4, <1>7, <1>8, <1>9, <1>10, <1>11, <1>12

(* lock queues t up for the monitor's mutex. *)
LEMMA LockQueuesStep ==
  ASSUME IInv, NEW t \in Threads, LockQueues(t, "innerMutex"), UNCHANGED <<condVars, monitor>>
  PROVE  IInv'
<1> USE DEF IInv
<1>1. MutexTypeOK' /\ owner' = owner /\ \A c \in Conds : waiting'[c] = waiting[c]
  BY OperationType, MutexFacts DEF Types
<1>2. \A c \in Conds : Waiters(c)' = Waiters(c) /\ (Yielded(c)' <=> Yielded(c))
  BY <1>1 DEF Waiters, Yielded, condVars
<1>3. Types' /\ MustHoldMutex' /\ Roles' /\ MainLast'
  BY <1>1 DEF Types, MustHoldMutex, Roles, MainLast, condVars, monitor
<1>4. Counts' /\ Queues'
  BY <1>1, <1>2 DEF Counts, Queues, condVars
<1>5. HandOff' /\ Kept'
  <2>1. \A u \in Threads : pc[u] \in {"release", "blocked"} => cond[u] \in Conds
    BY DEF Roles, Types
  <2> QED
    BY <1>1, <1>2, <2>1 DEF HandOff, Kept, Holds, condVars, monitor
<1>6. Conserved' /\ Taken' /\ Tested'
  BY DEF Conserved, Taken, Past, Tested, condVars, monitor
<1> QED
  BY <1>3, <1>4, <1>5, <1>6

LEMMA EnterStep ==
  ASSUME IInv, NEW t \in Threads, Enter(t)
  PROVE  IInv'
<1>1. cond = [cond EXCEPT ![t] = None]
  BY DEF IInv, Types, Roles, Enter
<1>2. CASE LockReturns(t, "innerMutex") /\ goto(t, "body")
  BY <1>1, <1>2, LockReturnsStep DEF Enter, goto
<1>3. CASE LockQueues(t, "innerMutex") /\ UNCHANGED pc
  BY <1>3, LockQueuesStep DEF Enter, condVars
<1> QED
  BY <1>2, <1>3 DEF Enter

LEMMA RetakeStep ==
  ASSUME IInv, NEW t \in Threads, SignalRetake(t, "innerMutex"), UNCHANGED monitor
  PROVE  IInv'
<1>1. CASE LockReturns(t, "innerMutex") /\ goto(t, back[t]) /\ cond' = [cond EXCEPT ![t] = None]
  BY <1>1, LockReturnsStep DEF SignalRetake, goto
<1>2. CASE LockQueues(t, "innerMutex") /\ UNCHANGED <<pc, cond>>
  BY <1>2, LockQueuesStep DEF SignalRetake, condVars
<1> QED
  BY <1>1, <1>2 DEF SignalRetake

-----------------------------------------------------------------------------
(* A step inside the monitor, no mutex touched; TestsKept is what it owes to *)
(* the lines that rely on a test.                                            *)
LEMMA InsideStep ==
  ASSUME IInv, NEW t \in Threads, NEW p \in Inside, pc[t] \in Inside,
         pc' = [pc EXCEPT ![t] = p], UNCHANGED <<mutexVars, numOfThreadsWaiting, cond, back>>,
         Types', Conserved', Taken', Tested',
         p \in {"take", "pass"} => t \in Students, p \in {"add", "signal"} => t = Grader
  PROVE  IInv'
<1> USE DEF IInv
<1>1. Quiet /\ owner["innerMutex"] = t
  BY InsideIsQuiet
<1>2. pc'[t] = p /\ (\A u \in Threads \ {t} : pc'[u] = pc[u]) /\ p \notin {"blocked", "release", "done"}
  BY DEF Types, Inside
<1>3. pc[t] \notin {"blocked", "join"}
  BY DEF Inside
<1>4. Queues' /\ HandOff' /\ Kept'
  BY <1>1, <1>2, <1>3, QuietKept DEF mutexVars
<1>5. MustHoldMutex'
  BY <1>1, <1>2, ExclusionKept DEF mutexVars
<1>6. Roles'
  <2>1. cond[t] = None /\ cond' = [cond EXCEPT ![t] = None]
    BY DEF Roles, Types, Inside
  <2> QED
    BY <1>2, <2>1, RolesKept DEF Inside
<1>7. Counts'
  BY <1>2, <1>3, CountsKept DEF Waiters
<1>8. MainLast'
  BY <1>2, <1>3, MainLastKept DEF Types, Inside
<1> QED
  BY <1>4, <1>5, <1>6, <1>7, <1>8

(* takeslot, from its test to its update. *)
LEMMA TakeSlotStep ==
  ASSUME IInv, NEW t \in Threads, TakeSlotFree(t) \/ TakeSlot(t)
  PROVE  IInv'
<1> USE DEF IInv, goto
<1>1. CASE TakeSlotFree(t)
  <2>1. pc'[t] = "take" /\ \A u \in Threads \ {t} : pc'[u] = pc[u]
    BY <1>1 DEF TakeSlotFree, Types
  <2>2. Types' /\ Conserved'
    BY <1>1 DEF TakeSlotFree, Types, MutexTypeOK, Conserved, mutexVars, monitor, Inside
  <2>3. Taken' /\ Tested'
    BY <1>1, <2>1, ThreadFacts, MutexFacts DEF TakeSlotFree, Taken, Tested, Past, Types, monitor
  <2> QED
    BY <1>1, <2>2, <2>3, InsideStep DEF TakeSlotFree, Inside
<1>2. CASE TakeSlot(t)
  <2>1. pc'[t] = "pass" /\ \A u \in Threads \ {t} : pc'[u] = pc[u]
    BY <1>2 DEF TakeSlot, Types
  <2>2. t \in Students /\ pc[t] \in Inside /\ numOfFreeSlots > 0 /\ t \notin took
    BY <1>2 DEF TakeSlot, Roles, Inside, Tested, Taken, Past
  <2>3. \A u \in Threads \ {t} : pc[u] \notin Inside
    BY <2>2, InsideIsQuiet
  <2>4. Taken' /\ Tested'
    BY <1>2, <2>1, <2>2, <2>3, ThreadFacts DEF TakeSlot, Taken, Tested, Past, Inside
  <2>5. Conserved'
    <3>1. IsFiniteSet(took)
      BY ThreadFacts, FS_Subset DEF Types
    <3>2. Cardinality(took') = Cardinality(took) + 1 /\ Cardinality(took) \in Nat
      BY <1>2, <2>2, <3>1, FS_AddElement, FS_CardinalityType DEF TakeSlot
    <3> QED
      BY <1>2, <2>2, <3>2, MutexFacts DEF TakeSlot, Conserved, Types
  <2>6. Types'
    BY <1>2, <2>2, MutexFacts DEF TakeSlot, Types, MutexTypeOK, mutexVars, Inside
  <2> QED
    BY <1>2, <2>2, <2>4, <2>5, <2>6, InsideStep DEF TakeSlot, Inside
<1> QED
  BY <1>1, <1>2

(* addslots, from its test to its update. *)
LEMMA AddSlotsStep ==
  ASSUME IInv, AddSlotsTest \/ AddSlots
  PROVE  IInv'
<1> USE DEF IInv, goto
<1> DEFINE p == pc'[Grader]
<1>1. CASE AddSlotsTest
  <2>1. /\ p = (IF shouldStopAddingSlots THEN "leave" ELSE "add") /\ pc' = [pc EXCEPT ![Grader] = p]
        /\ \A u \in Threads \ {Grader} : pc'[u] = pc[u]
    BY <1>1, ThreadFacts DEF AddSlotsTest, Types
  <2>2. Types' /\ Conserved'
    BY <1>1 DEF AddSlotsTest, Types, MutexTypeOK, Conserved, mutexVars, monitor, Inside
  <2>3. Taken'
    BY <1>1, <2>1, ThreadFacts DEF AddSlotsTest, Taken, Past, monitor
  <2>4. Tested'
    <3>1. p = "add" => numOfFreeSlots = 0
      BY <1>1, <2>1, MutexFacts DEF AddSlotsTest, Types
    <3> QED
      BY <1>1, <2>1, <3>1, ThreadFacts DEF AddSlotsTest, Tested, monitor
  <2>5. p \in Inside /\ p \notin {"take", "pass", "signal"} /\ pc[Grader] \in Inside
    BY <1>1, <2>1 DEF AddSlotsTest, Inside
  <2>6. UNCHANGED <<mutexVars, numOfThreadsWaiting, cond, back>>
    BY <1>1 DEF AddSlotsTest
  <2> HIDE DEF IInv, p
  <2> QED
    BY <2>1, <2>2, <2>3, <2>4, <2>5, <2>6, ThreadFacts, InsideStep
<1>2. CASE AddSlots
  <2>1. /\ p = "signal" /\ pc' = [pc EXCEPT ![Grader] = "signal"]
        /\ \A u \in Threads \ {Grader} : pc'[u] = pc[u]
    BY <1>2, ThreadFacts DEF AddSlots, Types
  <2>2. pc[Grader] \in Inside /\ numOfFreeSlots = 0
    BY <1>2 DEF AddSlots, Inside, Tested
  <2>3. \A u \in Threads \ {Grader} : pc[u] \notin Inside
    BY <2>2, ThreadFacts, InsideIsQuiet
  <2>4. Types'
    <3>1. numOfFreeSlots' \in 0..n /\ added' \in Nat
      BY <1>2, MutexFacts DEF AddSlots, Types
    <3>2. pc' \in [Threads -> Inside \cup {"start", "enter", "blocked", "release", "retake", "join",
                                          "joinGrader", "done"}]
      BY <2>1 DEF Types, Inside
    <3> QED
      BY <1>2, <3>1, <3>2 DEF AddSlots, Types, MutexTypeOK, mutexVars
  <2>5. Conserved'
    <3>1. Cardinality(took) \in Nat
      BY ThreadFacts, FS_Subset, FS_CardinalityType DEF Types
    <3> QED
      BY <1>2, <2>2, <3>1, MutexFacts DEF AddSlots, Conserved, Types
  <2>6. Taken'
    BY <1>2, <2>1, ThreadFacts DEF AddSlots, Taken, Past
  <2>7. Tested'
    BY <1>2, <2>1, <2>3, ThreadFacts, MutexFacts DEF AddSlots, Tested, Inside
  <2> QED
    BY <1>2, <2>1, <2>2, <2>4, <2>5, <2>6, <2>7, ThreadFacts, InsideStep DEF AddSlots, Inside
<1> QED
  BY <1>1, <1>2

-----------------------------------------------------------------------------
(* The monitor's mutex is released by a thread inside that goes to p. *)
LEMMA UnlockStep ==
  ASSUME IInv, NEW t \in Threads, NEW p, pc[t] \in Inside, Unlock("innerMutex"),
         pc' = [pc EXCEPT ![t] = p], p \notin Inside \cup {"release"},
         p = "done" => t # Main,
         Types', Roles', Counts', Conserved', Taken', Tested',
         \A u \in Threads \ {t} : cond'[u] = cond[u]
  PROVE  IInv'
<1> USE DEF IInv
<1>1. Quiet /\ owner["innerMutex"] = t /\ pc[t] \notin {"join", "done", "blocked"}
  BY InsideIsQuiet DEF Inside
<1>2. owner'["innerMutex"] = None /\ \A c \in Conds : waiting'[c] = waiting[c] /\ owner'[c] = owner[c]
  BY MutexFacts DEF Unlock, Types, MutexTypeOK
<1>3. pc'[t] = p /\ \A u \in Threads \ {t} : pc'[u] = pc[u]
  BY DEF Types
<1>4. Queues' /\ HandOff' /\ Kept'
  BY <1>1, <1>2, <1>3, QuietKept
<1>5. MustHoldMutex'
  BY <1>1, <1>3, ExclusionKept
<1>6. MainLast'
  BY <1>1, MainLastKept DEF Types
<1> QED
  BY <1>4, <1>5, <1>6

(* leaving the monitor *)
LEMMA LeaveStep ==
  ASSUME IInv, NEW t \in Threads, Leave(t)
  PROVE  IInv'
<1> USE DEF IInv
<1> DEFINE p == CASE t = Grader -> "start" [] t = Main -> "joinGrader" [] OTHER -> "done"
<1>1. pc[t] = "leave" /\ pc' = [pc EXCEPT ![t] = p] /\ Unlock("innerMutex")
  BY DEF Leave, goto
<1>2. p \in {"start", "joinGrader", "done"} /\ (p = "done" => t # Main) /\ (t \in Students => p = "done")
  BY ThreadFacts
<1> HIDE DEF p
<1>3. pc'[t] = p /\ \A u \in Threads \ {t} : pc'[u] = pc[u]
  BY <1>1 DEF Types
<1>4. Types'
  <2>1. MutexTypeOK'
    BY <1>1, OperationType, MutexFacts DEF Types
  <2> QED
    BY <1>1, <1>2, <2>1 DEF Leave, Types, monitor
<1>5. Roles'
  <2>1. cond[t] = None /\ cond' = [cond EXCEPT ![t] = None]
    BY <1>1 DEF Leave, Roles, Types
  <2> QED
    BY <1>1, <1>2, <2>1, RolesKept
<1>6. Counts'
  BY <1>1, <1>2, <1>3, CountsKept DEF Leave, Waiters
<1>7. Conserved' /\ Taken' /\ Tested'
  BY <1>1, <1>2, <1>3, SlotsKept DEF Leave, Past, monitor
<1>8. pc[t] \in Inside /\ p \notin Inside \cup {"release"} /\ \A u \in Threads \ {t} : cond'[u] = cond[u]
  BY <1>1, <1>2 DEF Leave, Inside
<1> HIDE DEF IInv
<1> QED
  BY <1>1, <1>2, <1>4, <1>5, <1>6, <1>7, <1>8, UnlockStep

(* the first half of hoare_cond_wait *)
LEMMA WaitReleaseStep ==
  ASSUME IInv, NEW t \in Threads, NEW c \in Conds, WaitRelease(t, c, "innerMutex"), UNCHANGED monitor,
         pc[t] \in {"body", "wait"}, c = "freeSlots" <=> t \in Students, t # Main
  PROVE  IInv'
<1> USE DEF IInv, WaitRelease, goto
<1>1. pc'[t] = "blocked" /\ \A u \in Threads \ {t} : pc'[u] = pc[u] /\ cond'[u] = cond[u]
  BY DEF Types
<1>2. Types'
  <2>1. MutexTypeOK'
    BY OperationType, MutexFacts DEF Types
  <2> QED
    BY <2>1 DEF Types, monitor
<1>3. Roles'
  BY RolesKept, MutexFacts
<1>4. Counts'
  BY CountsUp
<1>5. Conserved' /\ Taken' /\ Tested'
  BY <1>1, SlotsKept DEF Past, monitor
<1>6. pc[t] \in Inside /\ "blocked" \notin Inside \cup {"release"}
  BY DEF Inside
<1> HIDE DEF IInv
<1> QED
  BY <1>1, <1>2, <1>3, <1>4, <1>5, <1>6, UnlockStep

-----------------------------------------------------------------------------
(* hoare_cond_signal by a thread inside, what the condition stands for being *)
(* true: without a waiter it goes on inside, ...                             *)
LEMMA SignalStep ==
  ASSUME IInv, NEW t \in Threads, NEW c \in Conds, NEW next \in {"wait", "leave"},
         pc[t] \in {"body", "pass", "signal"}, Signal(t, c, "innerMutex", next),
         UNCHANGED <<numOfThreadsWaiting, numOfFreeSlots, isGraderRunning, added, took>>,
         shouldStopAddingSlots' \in BOOLEAN, Holds(c)',
         t \in Students => (next = "leave" <=> pc[t] = "pass"),
         ~overtaken'
  PROVE  IInv'
<1> USE DEF IInv
<1>1. Quiet /\ owner["innerMutex"] = t /\ \A u \in Threads \ {t} : pc[u] \notin Inside
  BY InsideIsQuiet DEF Inside
<1>2. CASE numOfThreadsWaiting[c] = 0
  <2>1. UNCHANGED <<mutexVars, numOfThreadsWaiting, cond, back>> /\ pc' = [pc EXCEPT ![t] = next]
    BY <1>2 DEF Signal, goto
  <2>2. pc'[t] = next /\ \A u \in Threads \ {t} : pc'[u] = pc[u] /\ back'[u] = back[u]
    BY <2>1 DEF Types
  <2>3. Types'
    BY <2>1 DEF Types, MutexTypeOK, mutexVars, Inside
  <2>4. Conserved' /\ Taken' /\ Tested'
    BY <2>2, SlotsKept DEF Past
  <2>5. next \in Inside /\ pc[t] \in Inside /\ next \notin {"take", "pass", "add", "signal"}
    BY DEF Inside
  <2> HIDE DEF IInv
  <2> QED
    BY <2>1, <2>3, <2>4, <2>5, InsideStep
<1>3. CASE numOfThreadsWaiting[c] # 0
  <2>1. /\ YieldLock(t, "innerMutex", c) /\ pc' = [pc EXCEPT ![t] = "release"]
        /\ cond' = [cond EXCEPT ![t] = c] /\ back' = [back EXCEPT ![t] = next]
    BY <1>3 DEF Signal, goto
  <2>2. /\ pc'[t] = "release" /\ cond'[t] = c /\ back'[t] = next /\ pc[t] # "blocked"
        /\ \A u \in Threads \ {t} : pc'[u] = pc[u] /\ cond'[u] = cond[u] /\ back'[u] = back[u]
    BY <2>1 DEF Types
  <2>3. \A d \in Conds : Waiters(d)' = Waiters(d)
    BY <2>2 DEF Waiters
  <2>4. waiting[c] # << >>
    BY <1>3 DEF Signal
  <2>5. /\ owner'["innerMutex"] = Head(waiting[c]) /\ Head(waiting[c]) \in Waiters(c)
        /\ waiting' = waiting /\ \A d \in Conds : owner'[d] = owner[d]
    BY <1>1, <2>1, <2>4, HeadWaits, MutexFacts DEF YieldLock, CanYield, Types, MutexTypeOK
  <2>6. Types'
    <3>1. MutexTypeOK'
      BY <2>1, <2>4, HeadWaits, MutexFacts DEF YieldLock, Types, MutexTypeOK, Waiters
    <3> QED
      BY <2>1, <3>1 DEF Types
  <2>7. Yielded(c)' /\ \A d \in Conds : Yielded(d)' => d = c
    <3>1. ASSUME NEW d \in Conds, Yielded(d)' PROVE d = c
      <4>1. Head(waiting[d]) \in Waiters(d) /\ Head(waiting[d]) = Head(waiting[c])
        BY <2>5, <3>1, HeadWaits DEF Yielded
      <4> QED
        BY <2>5, <4>1 DEF Waiters
    <3> QED
      BY <2>4, <2>5, <3>1 DEF Yielded
  <2>8. Queues' /\ Counts'
    BY <2>3, <2>5, CountsKept DEF Queues
  <2>9. HandOff'
    <3>1. ASSUME NEW u \in Threads, pc'[u] = "release" PROVE u = t
      BY <1>1, <2>2, <3>1 DEF Quiet
    <3>2. ASSUME NEW u \in Threads, pc'[u] = "blocked", owner'["innerMutex"] = u PROVE cond'[u] = c
      BY <2>2, <2>5, <3>2 DEF Waiters
    <3> QED
      BY <1>1, <2>2, <2>5, <2>7, <3>1, <3>2 DEF HandOff, Quiet
  <2>10. Kept'
    BY <2>7 DEF Kept
  <2>11. MustHoldMutex'
    BY <1>1, <2>2, ExclusionKept DEF Inside
  <2>12. Roles'
    BY <2>1, MutexFacts, RolesKept
  <2>13. MainLast'
    BY <2>1, MainLastKept DEF Types
  <2>14. Conserved' /\ Taken' /\ Tested'
    BY <2>2, SlotsKept DEF Past
  <2> QED
    BY <2>6, <2>8, <2>9, <2>10, <2>11, <2>12, <2>13, <2>14
<1> QED
  BY <1>2, <1>3

(* ... and after a hand-over it lets the waiter go. *)
LEMMA SignalReleaseStep ==
  ASSUME IInv, NEW t \in Threads, SignalRelease(t), UNCHANGED monitor
  PROVE  IInv'
<1> USE DEF IInv
<1> DEFINE c == cond[t]
<1>1. pc[t] = "release" /\ pc' = [pc EXCEPT ![t] = "retake"] /\ Unlock(c)
      /\ UNCHANGED <<numOfThreadsWaiting, cond, back>>
  BY DEF SignalRelease, goto
<1>2. c \in Conds /\ c \in Mutexes /\ c # "innerMutex" /\ Yielded(c)
  BY <1>1, MutexFacts DEF HandOff, Roles, Types
<1>3. /\ pc'[t] = "retake" /\ pc[Main] # "done"
      /\ \A u \in Threads \ {t} : pc'[u] = pc[u] /\ pc[u] # "release"
  BY <1>1, ThreadFacts DEF Types, HandOff, MainLast
<1>4. /\ MutexTypeOK' /\ waiting' = waiting /\ owner' = [owner EXCEPT ![c] = None]
      /\ owner'["innerMutex"] = owner["innerMutex"] /\ \A d \in Conds \ {c} : owner'[d] = owner[d]
  BY <1>1, <1>2, OperationType, MutexFacts DEF Unlock, Types, MutexTypeOK
<1>5. Types'
  BY <1>1, <1>4 DEF Types, monitor
<1>6. \A d \in Conds : Waiters(d)' = Waiters(d) /\ (Yielded(d)' <=> Yielded(d))
  BY <1>1, <1>3, <1>4 DEF Waiters, Yielded
<1>7. Queues' /\ Counts'
  BY <1>1, <1>4, <1>6, CountsKept DEF Queues
<1>8. HandOff'
  <2>1. \A u \in Threads : pc[u] = "blocked" => cond[u] \in Conds
    BY DEF Roles, Types
  <2> QED
    BY <1>1, <1>2, <1>3, <1>4, <1>6, <2>1 DEF HandOff
<1>9. Kept'
  BY <1>3, <1>6 DEF Kept, Holds, monitor
<1>10. MustHoldMutex'
  BY <1>3, <1>4, ThreadFacts DEF MustHoldMutex, Inside
<1>11. Roles'
  <2>1. cond' = [cond EXCEPT ![t] = c] /\ c # None
    BY <1>1, <1>2, MutexFacts DEF Types
  <2> QED
    BY <1>1, <2>1, RolesKept
<1>12. MainLast'
  BY <1>1, MainLastKept DEF Types
<1>13. Conserved' /\ Taken' /\ Tested'
  BY <1>1, <1>3, SlotsKept DEF Past, monitor
<1> QED
  BY <1>5, <1>7, <1>8, <1>9, <1>10, <1>11, <1>12, <1>13

-----------------------------------------------------------------------------
(* The second half of hoare_cond_wait: only the waiter the monitor was       *)
(* yielded to can return, and the condition still stands.                    *)
LEMMA WaitReturns ==
  ASSUME IInv, NEW t \in Threads, pc[t] = "blocked", LockReturns(t, cond[t])
  PROVE  /\ cond[t] \in Conds /\ pc[Main] # "done" /\ Grant(t, cond[t])
         /\ owner["innerMutex"] = t /\ Yielded(cond[t]) /\ Holds(cond[t])
<1> USE DEF IInv
<1>1. cond[t] \in Conds /\ pc[Main] # "done"
  BY ThreadFacts DEF Roles, Types, MainLast
<1>2. owner[cond[t]] = None
  BY <1>1, OperationType, MutexFacts DEF Types
<1>3. Yielded(cond[t])
  BY <1>1, <1>2 DEF HandOff
<1>4. Grant(t, cond[t])
  BY <1>3 DEF LockReturns, Take, Locked, Yielded
<1> QED
  BY <1>1, <1>3, <1>4 DEF Grant, Yielded, Kept

LEMMA WaitSignalStep ==
  ASSUME IInv, NEW t \in Threads, WaitSignal(t), UNCHANGED monitor
  PROVE  IInv'
<1> USE DEF IInv
<1>0. PICK c \in Conds : /\ c = cond[t] /\ pc[t] = "blocked" /\ pc[Main] # "done"
                        /\ c \in Mutexes /\ c # "innerMutex"
  BY MutexFacts, ThreadFacts DEF WaitSignal, Roles, Types, MainLast
<1>1. CASE LockReturns(t, c)
  <2>1. Grant(t, c) /\ owner["innerMutex"] = t /\ owner[c] = None /\ waiting[c] # << >> /\ Head(waiting[c]) = t
    BY <1>0, <1>1, WaitReturns DEF Grant
  <2>2. /\ pc' = [pc EXCEPT ![t] = "body"] /\ cond' = [cond EXCEPT ![t] = None] /\ UNCHANGED back
        /\ numOfThreadsWaiting' = [numOfThreadsWaiting EXCEPT ![c] = @ - 1]
    <3>1. ~LockQueues(t, c)
      <4>1. 1 \in 1..Len(waiting[c]) /\ waiting[c][1] = t
        BY <1>0, <2>1 DEF Types, MutexTypeOK
      <4> QED
        BY <4>1 DEF LockQueues, Waits
    <3> QED
      BY <1>0, <3>1 DEF WaitSignal, goto
  <2>3. /\ pc'[t] = "body" /\ cond'[t] = None
        /\ \A u \in Threads \ {t} : pc'[u] = pc[u] /\ cond'[u] = cond[u] /\ back'[u] = back[u]
    BY <2>2 DEF Types
  <2>4. /\ MutexTypeOK' /\ owner' = [owner EXCEPT ![c] = t] /\ owner'["innerMutex"] = t
        /\ waiting'[c] = Tail(waiting[c]) /\ \A d \in Conds \ {c} : waiting'[d] = waiting[d]
    BY <1>0, <1>1, <2>1, OperationType, MutexFacts DEF Grant, Types, MutexTypeOK
  <2>5. Counts' /\ Types'
    BY <1>0, <2>2, <2>4, CountsDown DEF Types, monitor, Inside
  <2>6. Queues'
    <3> SUFFICES ASSUME NEW d \in Conds
                 PROVE  /\ \A i \in 1..Len(waiting'[d]) : waiting'[d][i] \in Waiters(d)'
                        /\ \A i, j \in 1..Len(waiting'[d]) : waiting'[d][i] = waiting'[d][j] => i = j
      BY DEF Queues
    <3>1. CASE d = c
      <4>1. waiting[c] \in Seq(Threads) /\ Len(waiting[c]) > 0
        BY <1>0, <2>1 DEF Types, MutexTypeOK
      <4>2. Len(waiting'[c]) = Len(waiting[c]) - 1
            /\ \A i \in 1..Len(waiting'[c]) : i + 1 \in 1..Len(waiting[c]) /\ waiting'[c][i] = waiting[c][i + 1]
        BY <2>4, <4>1
      <4>3. 1 \in 1..Len(waiting[c]) /\ waiting[c][1] = t
        BY <2>1, <4>1
      <4>4. ASSUME NEW i \in 1..Len(waiting'[c]) PROVE waiting'[c][i] \in Waiters(c) \ {t}
        <5>1. i + 1 \in 1..Len(waiting[c]) /\ i + 1 # 1 /\ waiting'[c][i] = waiting[c][i + 1]
          BY <4>1, <4>2
        <5>2. waiting[c][i + 1] \in Waiters(c) /\ waiting[c][i + 1] # waiting[c][1]
          BY <1>0, <4>3, <5>1 DEF Queues
        <5> QED
          BY <4>3, <5>1, <5>2
      <4>5. Waiters(c)' = Waiters(c) \ {t}
        BY <1>0, <2>3 DEF Waiters
      <4>6. ASSUME NEW i \in 1..Len(waiting'[c]), NEW j \in 1..Len(waiting'[c]),
                   waiting'[c][i] = waiting'[c][j]
            PROVE  i = j
        <5>1. i + 1 \in 1..Len(waiting[c]) /\ j + 1 \in 1..Len(waiting[c])
              /\ waiting[c][i + 1] = waiting[c][j + 1]
          BY <4>1, <4>2, <4>6
        <5>2. i + 1 = j + 1
          BY <1>0, <5>1 DEF Queues
        <5> QED
          BY <4>1, <4>2, <5>2
      <4> QED
        BY <3>1, <4>4, <4>5, <4>6 DEF Waiters
    <3>2. CASE d # c
      <4>1. Waiters(d)' = Waiters(d)
        BY <1>0, <2>3, <3>2 DEF Waiters
      <4> QED
        BY <2>4, <3>2, <4>1 DEF Queues
    <3> QED
      BY <3>1, <3>2
  <2>7. ASSUME NEW d \in Conds PROVE ~Yielded(d)'
    <3>1. waiting'[d] # << >> => Head(waiting'[d]) \in Waiters(d)'
      <4>1. Types' /\ Queues' => (waiting'[d] # << >> => Head(waiting'[d]) \in Waiters(d)')
        <5>1. Types' => waiting'[d] \in Seq(Threads)
          BY MutexFacts DEF Types, MutexTypeOK
        <5> QED
          BY <5>1 DEF Queues
      <4> QED
        BY <2>5, <2>6, <4>1
    <3> QED
      BY <2>3, <2>4, <3>1 DEF Yielded, Waiters
  <2>8. HandOff'
    <3>1. ASSUME NEW d \in Conds, Yielded(d) PROVE d = c
      BY <2>1, <3>1, HeadWaits DEF Yielded, Waiters
    <3>2. ASSUME NEW u \in Threads PROVE pc[u] # "release"
      <4> SUFFICES ASSUME pc[u] = "release" PROVE FALSE
        OBVIOUS
      <4>1. cond[u] \in Conds /\ Yielded(cond[u]) /\ owner[cond[u]] # None
        BY DEF HandOff, Roles, Types
      <4> QED
        BY <2>1, <3>1, <4>1
    <3>3. ASSUME NEW d \in Conds PROVE owner'[d] # None
      BY <1>0, <2>4, <3>1, ThreadFacts DEF HandOff, Types, MutexTypeOK
    <3> QED
      BY <2>3, <2>4, <3>2, <3>3 DEF HandOff
  <2>9. MustHoldMutex'
    BY <2>1, <2>3, <2>4, ExclusionKept
  <2>10. Roles'
    BY <2>2, RolesKept
  <2>11. MainLast'
    BY <1>0, <2>2, MainLastKept DEF Types
  <2>12. Conserved' /\ Taken' /\ Tested'
    BY <1>0, <2>3, SlotsKept DEF Past, monitor
  <2> QED
    BY <2>5, <2>6, <2>7, <2>8, <2>9, <2>10, <2>11, <2>12 DEF Kept
<1>2. CASE LockQueues(t, c) /\ UNCHANGED condVars
  <2>1. /\ MutexTypeOK' /\ owner' = owner /\ waiting'[c] = Append(waiting[c], t)
        /\ \A d \in Conds \ {c} : waiting'[d] = waiting[d]
    BY <1>0, <1>2, OperationType DEF LockQueues, Queue, Types, MutexTypeOK
  <2>2. ~Waits(t, c) /\ waiting[c] \in Seq(Threads)
    BY <1>0, <1>2 DEF LockQueues, Types, MutexTypeOK
  <2>3. \A d \in Conds : Waiters(d)' = Waiters(d)
    BY <1>2 DEF Waiters, condVars
  <2>4. ASSUME NEW d \in Conds PROVE Yielded(d)' <=> Yielded(d)
    <3>1. CASE d # c
      BY <2>1, <3>1 DEF Yielded
    <3>2. CASE d = c /\ waiting[c] # << >>
      <4>1. Head(waiting'[c]) = Head(waiting[c]) /\ waiting'[c] # << >>
        BY <2>1, <2>2, <3>2
      <4> QED
        BY <2>1, <3>2, <4>1 DEF Yielded
    <3>3. CASE d = c /\ waiting[c] = << >>
      <4>1. Head(waiting'[c]) = t
        BY <2>1, <3>3
      <4>2. owner["innerMutex"] # t
        BY <1>0, <3>3 DEF HandOff, Yielded
      <4> QED
        BY <2>1, <3>3, <4>1, <4>2 DEF Yielded
    <3> QED
      BY <3>1, <3>2, <3>3
  <2>5. Queues'
    <3> SUFFICES ASSUME NEW d \in Conds
                 PROVE  /\ \A i \in 1..Len(waiting'[d]) : waiting'[d][i] \in Waiters(d)
                        /\ \A i, j \in 1..Len(waiting'[d]) : waiting'[d][i] = waiting'[d][j] => i = j
      BY <2>3 DEF Queues
    <3>1. CASE d # c
      BY <2>1, <3>1 DEF Queues
    <3>2. CASE d = c
      <4>1. /\ Len(waiting'[c]) = Len(waiting[c]) + 1 /\ Len(waiting[c]) \in Nat
            /\ waiting'[c][Len(waiting[c]) + 1] = t
            /\ \A i \in 1..Len(waiting[c]) : waiting'[c][i] = waiting[c][i] /\ waiting[c][i] # t
        BY <2>1, <2>2 DEF Waits
      <4>2. t \in Waiters(c)
        BY <1>0 DEF Waiters
      <4>3. \A i \in 1..Len(waiting'[c]) : i \in 1..Len(waiting[c]) \/ i = Len(waiting[c]) + 1
        BY <4>1
      <4>4. ASSUME NEW i \in 1..Len(waiting'[c]) PROVE waiting'[c][i] \in Waiters(c)
        BY <1>0, <4>1, <4>2, <4>3 DEF Queues
      <4>5. ASSUME NEW i \in 1..Len(waiting'[c]), NEW j \in 1..Len(waiting'[c]),
                   waiting'[c][i] = waiting'[c][j]
            PROVE  i = j
        <5>1. CASE i \in 1..Len(waiting[c]) /\ j \in 1..Len(waiting[c])
          BY <1>0, <4>1, <4>5, <5>1 DEF Queues
        <5> QED
          BY <4>1, <4>3, <4>5, <5>1
      <4> QED
        BY <3>2, <4>4, <4>5
    <3> QED
      BY <3>1, <3>2
  <2>6. Types' /\ MustHoldMutex' /\ Roles' /\ MainLast' /\ Counts'
    BY <1>2, <2>1, <2>3 DEF Types, MustHoldMutex, Roles, MainLast, Counts, condVars, monitor
  <2>7. HandOff' /\ Kept'
    <3>1. \A u \in Threads : pc[u] \in {"release", "blocked"} => cond[u] \in Conds
      BY DEF Roles, Types
    <3> QED
      BY <1>2, <2>1, <2>4, <3>1 DEF HandOff, Kept, Holds, condVars, monitor
  <2>8. Conserved' /\ Taken' /\ Tested'
    BY <1>2 DEF Conserved, Taken, Past, Tested, condVars, monitor
  <2> QED
    BY <2>5, <2>6, <2>7, <2>8
<1> QED
  BY <1>0, <1>1, <1>2 DEF WaitSignal, condVars

-----------------------------------------------------------------------------
(* Outside the monitor, on the way in or out. *)
LEMMA OutsideStep ==
  ASSUME IInv, NEW t \in Threads, NEW p \in {"enter", "done"}, pc[t] \in {"start", "join"},
         pc' = [pc EXCEPT ![t] = p], p = "done" => t \notin Students \cup {Main},
         pc[t] = "join" => \A s \in Students : pc[s] = "done",
         UNCHANGED <<mutexVars, numOfThreadsWaiting, cond, back, numOfFreeSlots,
                     shouldStopAddingSlots, added, took>>,
         isGraderRunning' \in BOOLEAN
  PROVE  IInv'
<1> USE DEF IInv
<1>1. pc'[t] = p /\ \A u \in Threads \ {t} : pc'[u] = pc[u]
  BY DEF Types
<1>2. pc[Main] # "done" /\ pc'[Main] # "done"
  BY <1>1, ThreadFacts DEF MainLast
<1>3. \A c \in Conds : Waiters(c)' = Waiters(c) /\ (Yielded(c)' <=> Yielded(c))
  BY <1>1 DEF Waiters, Yielded, mutexVars
<1>4. Types'
  BY DEF Types, MutexTypeOK, mutexVars
<1>5. MustHoldMutex'
  BY <1>1 DEF MustHoldMutex, Inside, mutexVars
<1>6. Roles'
  <2>1. cond[t] = None /\ cond' = [cond EXCEPT ![t] = None]
    BY DEF Roles, Types
  <2> QED
    BY <2>1, RolesKept
<1>7. Counts' /\ Queues'
  BY <1>3, CountsKept DEF Queues, mutexVars
<1>8. HandOff'
  <2>1. \A u \in Threads : pc[u] \in {"release", "blocked"} => cond[u] \in Conds
    BY DEF Roles, Types
  <2> QED
    BY <1>1, <1>2, <1>3, <2>1 DEF HandOff, mutexVars
<1>9. Kept'
  BY <1>2, <1>3 DEF Kept, Holds
<1>10. MainLast'
  BY <1>1, <1>2, ThreadFacts DEF MainLast
<1>11. Conserved' /\ Taken' /\ Tested'
  BY <1>1, SlotsKept DEF Past
<1> QED
  BY <1>4, <1>5, <1>6, <1>7, <1>8, <1>9, <1>10, <1>11

(* hoare_slots_monitor_dealloc, after everybody else has left. *)
LEMMA DeallocStep ==
  ASSUME IInv, MainDealloc
  PROVE  IInv'
<1> USE DEF IInv, MainDealloc, goto
<1>1. pc'[Main] = "done" /\ (\A u \in Threads \ {Main} : pc'[u] = pc[u]) /\ UNCHANGED <<cond, back>>
  BY ThreadFacts DEF Types
<1>2. \A u \in Threads \ {Main} : pc[u] = "done"
  BY SlotsAssumption DEF MainLast
<1>3. \A u \in Threads : pc'[u] = "done"
  BY <1>1, <1>2
<1>4. Types'
  BY ThreadFacts DEF Types, MutexTypeOK, monitor
<1>5. MustHoldMutex' /\ MainLast' /\ HandOff' /\ Kept'
  BY <1>3, ThreadFacts DEF MustHoldMutex, Inside, MainLast, HandOff, Kept
<1>6. Roles'
  <2>1. cond[Main] = None /\ cond' = [cond EXCEPT ![Main] = None]
    BY ThreadFacts DEF Roles, Types
  <2> QED
    BY <2>1, ThreadFacts, RolesKept
<1>7. Counts' /\ Queues'
  <2>1. \A c \in Conds : Waiters(c)' = Waiters(c)
    BY <1>1 DEF Waiters
  <2> QED
    BY <2>1, CountsKept DEF Queues
<1>8. Conserved' /\ Taken' /\ Tested'
  BY <1>1, <1>3, ThreadFacts, SlotsKept DEF monitor
<1> QED
  BY <1>4, <1>5, <1>6, <1>7, <1>8

-----------------------------------------------------------------------------
LEMMA InitIInv == Init => IInv
<1> SUFFICES ASSUME Init PROVE IInv
  OBVIOUS
<1>1. Types
  <2>1. MutexTypeOK
    BY ThreadFacts DEF Init, MutexTypeOK
  <2>2. /\ numOfThreadsWaiting \in [Conds -> Nat] /\ cond \in [Threads -> Conds \cup {None}]
        /\ back \in [Threads -> {"wait", "leave"}]
    BY DEF Init
  <2>3. numOfFreeSlots \in 0..n /\ added \in Nat /\ took \subseteq Students
    BY MutexFacts DEF Init
  <2>4. /\ pc \in [Threads -> Inside \cup {"start", "enter", "blocked", "release", "retake", "join",
                                           "joinGrader", "done"}]
        /\ shouldStopAddingSlots \in BOOLEAN /\ isGraderRunning \in BOOLEAN
    BY DEF Init
  <2> QED
    BY <2>1, <2>2, <2>3, <2>4 DEF Types
<1>2. ASSUME NEW c \in Conds PROVE Waiters(c) = {}
  BY MutexFacts DEF Init, Waiters
<1>3. Counts /\ Conserved
  <2>1. Cardinality({}) = 0
    BY FS_EmptySet
  <2>2. Counts
    BY <1>2, <2>1 DEF Init, Counts
  <2>3. added = 0 /\ took = {} /\ numOfFreeSlots = 0
    BY DEF Init
  <2>4. Conserved
    BY <2>1, <2>3 DEF Conserved
  <2> QED
    BY <2>2, <2>4
<1>4. Queues /\ \A c \in Conds : waiting[c] = << >>
  BY MutexFacts DEF Init, Queues
<1>5. \A c \in Conds : owner[c] = Main
  BY MutexFacts DEF Init
<1>6. HandOff /\ Kept
  BY <1>4, <1>5, ThreadFacts DEF Init, HandOff, Kept, Yielded
<1>7. MustHoldMutex /\ Roles /\ MainLast /\ Taken /\ Tested
  BY ThreadFacts DEF Init, MustHoldMutex, Inside, Roles, MainLast, Taken, Past, Tested
<1> QED
  BY <1>1, <1>3, <1>4, <1>6, <1>7 DEF IInv

(* The four places that signal. *)
LEMMA SignalsStep ==
  ASSUME IInv, NEW t \in Threads, ~overtaken',
         \/ TakeSlotAsk(t) \/ TakeSlotPass(t)
         \/ (t = Grader /\ AddSlotsSignal) \/ (t = Main /\ StopAdding)
  PROVE  IInv'
<1> USE MutexFacts, ThreadFacts
<1>1. CASE TakeSlotAsk(t)
  <2>1. Holds("noSlots")' /\ shouldStopAddingSlots' \in BOOLEAN
    BY <1>1 DEF TakeSlotAsk, monitor, Holds, IInv, Types
  <2> QED
    BY <1>1, <2>1, SignalStep DEF TakeSlotAsk, monitor
<1>2. CASE TakeSlotPass(t)
  <2>1. shouldStopAddingSlots' \in BOOLEAN /\ UNCHANGED numOfFreeSlots /\ numOfFreeSlots \in Nat
    BY <1>2 DEF TakeSlotPass, monitor, IInv, Types
  <2>2. CASE numOfFreeSlots > 0
    <3>1. Holds("freeSlots")' /\ Signal(t, "freeSlots", "innerMutex", "leave")
      BY <1>2, <2>1, <2>2 DEF TakeSlotPass, Holds
    <3> QED
      BY <1>2, <2>1, <3>1, SignalStep DEF TakeSlotPass, monitor
  <2>3. CASE ~(numOfFreeSlots > 0)
    <3>1. Holds("noSlots")' /\ Signal(t, "noSlots", "innerMutex", "leave")
      BY <1>2, <2>1, <2>3 DEF TakeSlotPass, Holds
    <3> QED
      BY <1>2, <2>1, <3>1, SignalStep DEF TakeSlotPass, monitor
  <2> QED
    BY <2>2, <2>3
<1>3. CASE t = Grader /\ AddSlotsSignal
  <2>1. Holds("freeSlots")' /\ shouldStopAddingSlots' \in BOOLEAN
    BY <1>3 DEF AddSlotsSignal, monitor, Holds, IInv, Types, Tested
  <2> QED
    BY <1>3, <2>1, SignalStep DEF AddSlotsSignal, monitor
<1>4. CASE t = Main /\ StopAdding
  <2>1. Holds("noSlots")' /\ shouldStopAddingSlots' \in BOOLEAN
    BY <1>4 DEF StopAdding, Holds
  <2> QED
    BY <1>4, <2>1, SignalStep DEF StopAdding
<1> QED
  BY <1>1, <1>2, <1>3, <1>4

LEMMA NextIInv == IInv /\ [Next]_vars /\ ~overtaken' => IInv'
<1> SUFFICES ASSUME IInv, [Next]_vars, ~overtaken' PROVE IInv'
  OBVIOUS
<1>1. ASSUME NEW t \in Threads, Step(t) PROVE IInv'
  <2>1. CASE Enter(t) \/ Leave(t)
    BY <2>1, EnterStep, LeaveStep
  <2>2. CASE \/ WaitSignal(t) /\ UNCHANGED monitor
             \/ SignalRelease(t) /\ UNCHANGED monitor
             \/ SignalRetake(t, "innerMutex") /\ UNCHANGED monitor
    BY <2>2, WaitSignalStep, SignalReleaseStep, RetakeStep
  <2>3. CASE TakeSlotWait(t)
    BY <2>3, WaitReleaseStep, MutexFacts, ThreadFacts DEF TakeSlotWait
  <2>4. CASE t = Grader /\ AddSlotsWait
    BY <2>4, WaitReleaseStep, MutexFacts, ThreadFacts DEF AddSlotsWait
  <2>5. CASE \/ TakeSlotAsk(t) \/ TakeSlotPass(t)
             \/ (t = Grader /\ AddSlotsSignal) \/ (t = Main /\ StopAdding)
    BY <2>5, SignalsStep
  <2>6. CASE TakeSlotFree(t) \/ TakeSlot(t) \/ (t = Grader /\ (AddSlotsTest \/ AddSlots))
    BY <2>6, TakeSlotStep, AddSlotsStep
  <2>7. CASE StudentStart(t)
    BY <2>7, OutsideStep, ThreadFacts DEF StudentStart, goto, monitor, IInv, Types
  <2>8. CASE t = Grader /\ GraderLoop
    BY <2>8, OutsideStep, ThreadFacts DEF GraderLoop, goto, monitor, IInv, Types
  <2>9. CASE t = Main /\ MainStop
    BY <2>9, OutsideStep, ThreadFacts DEF MainStop, goto
  <2>10. CASE t = Main /\ MainDealloc
    BY <2>10, DeallocStep
  <2> QED
    BY ONLY <1>1, <2>1, <2>2, <2>3, <2>4, <2>5, <2>6, <2>7, <2>8, <2>9, <2>10 DEF Step
<1>2. CASE UNCHANGED vars
  <2>1. \A c \in Conds : Waiters(c)' = Waiters(c)
    BY <1>2 DEF vars, condVars, Waiters
  <2>2. Counts' /\ Queues'
    BY <1>2, <2>1 DEF vars, condVars, mutexVars, IInv, Counts, Queues
  <2> QED
    BY <1>2, <2>2 DEF vars, mutexVars, condVars, monitor, IInv, Types, MutexTypeOK, MustHoldMutex,
       Roles, HandOff, Yielded, MainLast, Conserved, Taken, Past, Tested, Kept, Holds
<1> QED
  BY <1>1, <1>2 DEF Next

-----------------------------------------------------------------------------
(* What holds whatever signals have overtaken: the types, and where a student *)
(* is when it has its slot.                                                   *)
Loose == /\ TypeOK /\ Taken
         /\ \A t \in Threads : pc[t] \in {"take", "pass"} => t \in Students
         /\ \A t \in Threads : pc[t] \in {"blocked", "release"} => cond[t] # None

LEMMA InitLoose == Init => Loose
<1> SUFFICES ASSUME Init PROVE Loose
  OBVIOUS
<1>1. IInv
  BY InitIInv
<1>2. TypeOK
  <2>1. numOfThreadsWaiting \in [Conds -> Int] /\ numOfFreeSlots \in Int
    BY DEF Init
  <2>2. overtaken \in BOOLEAN
    BY DEF Init
  <2> QED
    BY <1>1, <2>1, <2>2 DEF IInv, Types, TypeOK
<1> QED
  BY <1>1, <1>2 DEF IInv, Roles, Loose

(* A step of t to p that gives no slot. *)
LEMMA LooseKept ==
  ASSUME Loose, NEW t \in Threads, NEW p, pc' = [pc EXCEPT ![t] = p], TypeOK', took' = took,
         \A u \in Threads \ {t} : back'[u] = back[u] /\ cond'[u] = cond[u],
         t \in Students => (Past(t)' <=> Past(t)),
         p \in {"take", "pass"} => t \in Students,
         p \in {"blocked", "release"} => cond'[t] # None
  PROVE  Loose'
<1>1. pc'[t] = p /\ \A u \in Threads \ {t} : pc'[u] = pc[u]
  BY DEF Loose, TypeOK
<1>2. ASSUME NEW u \in Students PROVE u \in took' <=> Past(u)'
  <2>1. CASE u = t
    BY <2>1 DEF Loose, Taken
  <2>2. CASE u # t
    BY <1>1, <2>2, ThreadFacts DEF Loose, Taken, Past
  <2> QED
    BY <2>1, <2>2
<1> QED
  BY <1>1, <1>2 DEF Loose, Taken

(* Without a mutex: the lines of the programs. *)
LEMMA LooseLine ==
  ASSUME Loose, NEW t \in Threads,
         \/ StudentStart(t) \/ TakeSlotFree(t)
         \/ t = Grader /\ (GraderLoop \/ AddSlotsTest \/ AddSlots)
         \/ t = Main /\ (MainStop \/ MainDealloc)
  PROVE  Loose'
<1> USE DEF Loose, goto, monitor, mutexVars
<1> DEFINE p == pc'[t]
<1>1. UNCHANGED <<cond, back, took>> /\ pc' = [pc EXCEPT ![t] = p]
  BY ThreadFacts DEF TypeOK, StudentStart, TakeSlotFree, GraderLoop, AddSlotsTest, AddSlots, MainStop,
     MainDealloc
<1>2. /\ p \in {"take", "enter", "done", "leave", "add", "signal"}
      /\ p = "take" => t \in Students
      /\ t \in Students => p \in {"enter", "take"} /\ pc[t] \in {"start", "body"}
  BY ThreadFacts DEF TypeOK, StudentStart, TakeSlotFree, GraderLoop, AddSlotsTest, AddSlots, MainStop,
     MainDealloc
<1>3. TypeOK'
  <2>1. MutexTypeOK'
    BY ThreadFacts DEF TypeOK, MutexTypeOK, StudentStart, TakeSlotFree, GraderLoop, AddSlotsTest, AddSlots,
       MainStop, MainDealloc
  <2>2. numOfFreeSlots' \in Int /\ added' \in Nat
    BY MutexFacts DEF TypeOK, StudentStart, TakeSlotFree, GraderLoop, AddSlotsTest, AddSlots, MainStop,
       MainDealloc
  <2>3. /\ UNCHANGED <<numOfThreadsWaiting, overtaken, shouldStopAddingSlots>>
        /\ isGraderRunning' \in BOOLEAN
    BY DEF TypeOK, StudentStart, TakeSlotFree, GraderLoop, AddSlotsTest, AddSlots, MainStop, MainDealloc
  <2>4. pc' \in [Threads -> Inside \cup {"start", "enter", "blocked", "release", "retake",
                                         "join", "joinGrader", "done"}]
    BY <1>1, <1>2 DEF TypeOK, Inside
  <2> QED
    BY <1>1, <2>1, <2>2, <2>3, <2>4 DEF TypeOK
<1>4. t \in Students => (Past(t)' <=> Past(t))
  BY <1>2 DEF Past
<1> HIDE DEF p, Loose
<1> QED
  BY <1>1, <1>2, <1>3, <1>4, LooseKept

(* A student takes its slot. *)
LEMMA LooseTake ==
  ASSUME Loose, NEW t \in Threads, TakeSlot(t)
  PROVE  Loose'
<1>1. /\ pc' = [pc EXCEPT ![t] = "pass"] /\ took' = took \cup {t} /\ t \in Students
      /\ UNCHANGED <<cond, back>> /\ numOfFreeSlots' \in Int
  BY DEF Loose, TypeOK, TakeSlot, goto
<1>2. TypeOK'
  BY <1>1, ThreadFacts DEF Loose, TypeOK, MutexTypeOK, TakeSlot, mutexVars, Inside
<1>3. pc'[t] = "pass" /\ \A u \in Threads \ {t} : pc'[u] = pc[u]
  BY <1>1 DEF Loose, TypeOK
<1>4. ASSUME NEW u \in Students PROVE u \in took' <=> Past(u)'
  <2>1. CASE u = t
    BY <1>1, <1>3, <2>1 DEF Past
  <2>2. CASE u # t
    BY <1>1, <1>3, <2>2, ThreadFacts DEF Loose, Taken, Past
  <2> QED
    BY <2>1, <2>2
<1> QED
  BY <1>1, <1>2, <1>3, <1>4 DEF Loose, Taken

(* A call on the monitor's mutex alone. *)
LEMMA LooseMutex ==
  ASSUME Loose, NEW t \in Threads,
         Enter(t) \/ Leave(t) \/ (SignalRetake(t, "innerMutex") /\ UNCHANGED monitor)
  PROVE  Loose'
<1> USE DEF Loose, goto, monitor
<1>1. CASE (Enter(t) \/ SignalRetake(t, "innerMutex")) /\ UNCHANGED <<pc, monitor>>
  <2>1. MutexTypeOK' /\ (cond' = cond \/ cond' = [cond EXCEPT ![t] = None])
    BY <1>1, OperationType, MutexFacts DEF TypeOK, Enter, SignalRetake
  <2>2. TypeOK'
    BY <1>1, <2>1 DEF TypeOK, Enter, SignalRetake
  <2>3. pc[t] \notin {"blocked", "release"} /\ UNCHANGED <<took, back>>
    BY <1>1 DEF Enter, SignalRetake
  <2>4. Taken'
    BY <1>1, <2>3 DEF Taken, Past
  <2> QED
    BY <1>1, <2>1, <2>2, <2>3, <2>4 DEF TypeOK
<1>2. CASE Enter(t) /\ goto(t, "body")
  <2>1. MutexTypeOK'
    BY <1>2, OperationType, MutexFacts DEF TypeOK, Enter
  <2>2. TypeOK'
    BY <1>2, <2>1 DEF TypeOK, Enter, Inside
  <2> QED
    BY <1>2, <2>2, LooseKept DEF Enter, Past, TypeOK
<1>3. CASE SignalRetake(t, "innerMutex") /\ goto(t, back[t]) /\ UNCHANGED monitor
  <2>1. MutexTypeOK' /\ (cond' = cond \/ cond' = [cond EXCEPT ![t] = None])
    BY <1>3, OperationType, MutexFacts DEF TypeOK, SignalRetake
  <2>2. TypeOK'
    BY <1>3, <2>1 DEF TypeOK, SignalRetake, Inside
  <2>3. UNCHANGED <<back, took>> /\ back[t] \in {"wait", "leave"} /\ pc[t] = "retake" /\ pc'[t] = back[t]
    BY <1>3 DEF SignalRetake, TypeOK
  <2>4. Past(t)' <=> Past(t)
    BY <2>3 DEF Past
  <2>5. \A u \in Threads \ {t} : cond'[u] = cond[u]
    BY <2>1 DEF TypeOK
  <2> HIDE DEF Loose
  <2> QED
    BY <1>3, <2>2, <2>3, <2>4, <2>5, LooseKept
<1>4. CASE Leave(t)
  <2> DEFINE p == CASE t = Grader -> "start" [] t = Main -> "joinGrader" [] OTHER -> "done"
  <2>1. pc[t] = "leave" /\ pc' = [pc EXCEPT ![t] = p] /\ UNCHANGED <<cond, back, took>>
    BY <1>4 DEF Leave
  <2>2. p \in {"start", "joinGrader", "done"} /\ (t \in Students => p = "done")
    BY ThreadFacts
  <2> HIDE DEF p
  <2>3. MutexTypeOK'
    BY <1>4, OperationType, MutexFacts DEF TypeOK, Leave
  <2>4. TypeOK'
    BY <1>4, <2>1, <2>2, <2>3 DEF TypeOK, Leave
  <2>5. pc'[t] = p
    BY <2>1 DEF TypeOK
  <2>6. t \in Students => (Past(t)' <=> Past(t))
    BY <2>1, <2>2, <2>5 DEF Past
  <2> HIDE DEF Loose
  <2> QED
    BY <2>1, <2>2, <2>4, <2>6, LooseKept
<1> QED
  BY <1>1, <1>2, <1>3, <1>4 DEF Enter, SignalRetake

(* hoare_cond_wait *)
LEMMA LooseWait ==
  ASSUME Loose, NEW t \in Threads,
         \/ TakeSlotWait(t) \/ (t = Grader /\ AddSlotsWait)
         \/ (WaitSignal(t) /\ UNCHANGED monitor)
  PROVE  Loose'
<1> USE DEF Loose, goto, monitor
<1>1. ASSUME NEW c \in Conds, WaitRelease(t, c, "innerMutex"), UNCHANGED monitor, pc[t] \in {"body", "wait"}
      PROVE  Loose'
  <2>1. MutexTypeOK'
    BY <1>1, OperationType, MutexFacts DEF TypeOK, WaitRelease
  <2>2. TypeOK' /\ pc'[t] = "blocked" /\ cond'[t] = c
    BY <1>1, <2>1 DEF TypeOK, WaitRelease
  <2>3. UNCHANGED <<back, took>> /\ \A u \in Threads \ {t} : cond'[u] = cond[u]
    BY <1>1 DEF TypeOK, WaitRelease
  <2>4. Past(t)' <=> Past(t)
    BY <1>1, <2>2 DEF Past
  <2> HIDE DEF Loose
  <2> QED
    BY <1>1, <2>2, <2>3, <2>4, MutexFacts, LooseKept DEF WaitRelease
<1>2. CASE WaitSignal(t) /\ UNCHANGED monitor
  <2>1. pc[t] = "blocked" /\ cond[t] \in Conds /\ cond[t] \in Mutexes /\ UNCHANGED <<back, took>>
    BY <1>2, MutexFacts DEF WaitSignal, TypeOK
  <2>2. MutexTypeOK'
    BY <1>2, <2>1, OperationType DEF WaitSignal, TypeOK
  <2>3. CASE UNCHANGED <<numOfThreadsWaiting, pc, cond>>
    <3>1. TypeOK'
      BY <1>2, <2>2, <2>3 DEF WaitSignal, TypeOK
    <3> QED
      BY <2>1, <2>3, <3>1 DEF Taken, Past
  <2>4. CASE /\ pc' = [pc EXCEPT ![t] = "body"] /\ cond' = [cond EXCEPT ![t] = None]
             /\ numOfThreadsWaiting' = [numOfThreadsWaiting EXCEPT ![cond[t]] = @ - 1]
    <3>1. TypeOK' /\ pc'[t] = "body" /\ \A u \in Threads \ {t} : cond'[u] = cond[u]
      BY <1>2, <2>1, <2>2, <2>4 DEF WaitSignal, TypeOK, Inside
    <3>2. Past(t)' <=> Past(t)
      BY <2>1, <3>1 DEF Past
    <3> HIDE DEF Loose
    <3> QED
      BY <2>1, <2>4, <3>1, <3>2, LooseKept
  <2> QED
    BY <1>2, <2>3, <2>4 DEF WaitSignal
<1> QED
  BY <1>1, <1>2, MutexFacts DEF TakeSlotWait, AddSlotsWait

(* hoare_cond_signal *)
LEMMA LooseSignal ==
  ASSUME Loose, NEW t \in Threads,
         \/ TakeSlotAsk(t) \/ TakeSlotPass(t) \/ (t = Grader /\ AddSlotsSignal)
         \/ (t = Main /\ StopAdding) \/ (SignalRelease(t) /\ UNCHANGED monitor)
  PROVE  Loose'
<1> USE DEF Loose, goto, monitor
<1>1. ASSUME NEW c \in Conds, NEW next \in {"wait", "leave"}, Signal(t, c, "innerMutex", next),
             pc[t] \in {"body", "pass", "signal"}, t \in Students => (next = "leave" <=> pc[t] = "pass"),
             UNCHANGED <<numOfThreadsWaiting, numOfFreeSlots, isGraderRunning, added, took>>,
             shouldStopAddingSlots' \in BOOLEAN
      PROVE  Loose'
  <2>1. CASE numOfThreadsWaiting[c] = 0
    <3>1. TypeOK' /\ pc'[t] = next /\ UNCHANGED <<cond, back>>
      BY <1>1, <2>1 DEF Signal, TypeOK, MutexTypeOK, mutexVars, Inside
    <3>2. t \in Students => (Past(t)' <=> Past(t))
      BY <1>1, <3>1 DEF Past
    <3> HIDE DEF Loose
    <3> QED
      BY <1>1, <2>1, <3>1, <3>2, LooseKept DEF Signal
  <2>2. CASE numOfThreadsWaiting[c] # 0
    <3>1. YieldLock(t, "innerMutex", c) /\ pc' = [pc EXCEPT ![t] = "release"] /\ overtaken' \in BOOLEAN
          /\ cond' = [cond EXCEPT ![t] = c] /\ back' = [back EXCEPT ![t] = next]
      BY <1>1, <2>2 DEF Signal, TypeOK
    <3>2. MutexTypeOK'
      <4>1. waiting[c] # << >> => Head(waiting[c]) \in Threads
        BY MutexFacts DEF TypeOK, MutexTypeOK
      <4> QED
        BY <3>1, <4>1 DEF YieldLock, CanYield, TypeOK, MutexTypeOK
    <3>3. TypeOK' /\ pc'[t] = "release" /\ back'[t] = next /\ cond'[t] = c
          /\ \A u \in Threads \ {t} : back'[u] = back[u] /\ cond'[u] = cond[u]
      BY <1>1, <3>1, <3>2 DEF TypeOK
    <3>4. t \in Students => (Past(t)' <=> Past(t))
      BY <1>1, <3>3 DEF Past
    <3> HIDE DEF Loose
    <3> QED
      BY <1>1, <3>1, <3>3, <3>4, MutexFacts, LooseKept
  <2> QED
    BY <2>1, <2>2
<1>2. CASE SignalRelease(t) /\ UNCHANGED monitor
  <2>1. /\ pc[t] = "release" /\ pc' = [pc EXCEPT ![t] = "retake"] /\ Unlock(cond[t])
        /\ UNCHANGED <<numOfThreadsWaiting, cond, back, overtaken>>
    BY <1>2 DEF SignalRelease
  <2>2. cond[t] \in Mutexes
    BY <2>1, MutexFacts DEF TypeOK
  <2>3. MutexTypeOK'
    BY <2>1, <2>2, OperationType DEF TypeOK
  <2>4. TypeOK' /\ pc'[t] = "retake"
    BY <1>2, <2>1, <2>3 DEF TypeOK
  <2>5. Past(t)' <=> Past(t)
    BY <2>1, <2>4 DEF Past
  <2> HIDE DEF Loose
  <2> QED
    BY <1>2, <2>1, <2>4, <2>5, LooseKept
<1>3. CASE TakeSlotAsk(t) \/ TakeSlotPass(t)
  BY <1>1, <1>3, MutexFacts DEF TakeSlotAsk, TakeSlotPass, TypeOK
<1>4. CASE (t = Grader /\ AddSlotsSignal) \/ (t = Main /\ StopAdding)
  BY <1>1, <1>4, MutexFacts, ThreadFacts DEF AddSlotsSignal, StopAdding, TypeOK
<1> QED
  BY <1>2, <1>3, <1>4

LEMMA NextLoose == Loose /\ [Next]_vars => Loose'
<1> SUFFICES ASSUME Loose, [Next]_vars PROVE Loose'
  OBVIOUS
<1>1. ASSUME NEW t \in Threads, Step(t) PROVE Loose'
  BY <1>1, LooseLine, LooseTake, LooseMutex, LooseWait, LooseSignal DEF Step
<1>2. CASE UNCHANGED vars
  BY <1>2 DEF vars, mutexVars, condVars, monitor, Loose, TypeOK, MutexTypeOK, Taken, Past
<1> QED
  BY <1>1, <1>2 DEF Next

-----------------------------------------------------------------------------
(* Once a signal has overtaken a waiter, it stays so. *)
LEMMA OvertakenStays == TypeOK /\ overtaken /\ [Next]_vars => overtaken'
BY DEF TypeOK, Next, vars, condVars, Step, Enter, Leave, WaitSignal, SignalRelease, SignalRetake, StudentStart,
   TakeSlotAsk, TakeSlotWait, TakeSlotFree, TakeSlot, TakeSlotPass, GraderLoop, AddSlotsWait, AddSlotsTest,
   AddSlots, AddSlotsSignal, StopAdding, MainStop, MainDealloc, WaitRelease, Signal

Inv == Loose /\ (~overtaken => IInv)

LEMMA InvAlways == Spec => []Inv
<1>1. Init => Inv
  BY InitLoose, InitIInv DEF Inv
<1>2. Inv /\ [Next]_vars => Inv'
  BY NextLoose, NextIInv, OvertakenStays DEF Inv, Loose
<1> QED
  BY <1>1, <1>2, PTL DEF Spec

(* slots_hoare keeps its types, whatever the timer does.                     *)
THEOREM HoareTypeCorrect == Spec => []TypeOK
<1>1. Inv => TypeOK
  BY DEF Inv, Loose
<1> QED
  BY <1>1, InvAlways, PTL

(* Until a signal overtakes a waiter that is counted but not yet queued,      *)
(* whoever is inside a monitor call owns the monitor's mutex, a waiter that  *)
(* was handed the monitor included (hoare_cond.c, kthread_mutex_yieldlock).  *)
THEOREM HoareMonitorExclusion == Spec => []MonitorExclusion
<1>1. Inv => MonitorExclusion
  BY DEF Inv, IInv, MonitorExclusion
<1> QED
  BY <1>1, InvAlways, PTL

(* Until then no slot is lost or given twice and no more than n are free,    *)
(* for any number of students and any n.                                     *)
THEOREM HoareSlotsConserved == Spec => []SlotsConserved
<1>1. Inv => SlotsConserved
  BY DEF Inv, IInv, Types, Conserved, SlotsConserved
<1> QED
  BY <1>1, InvAlways, PTL

(* No student is done without having taken a slot, whatever the timer does.  *)
THEOREM HoareEveryStudentServed == Spec => []EveryStudentServed
<1>1. Inv => EveryStudentServed
  BY DEF Inv, Loose, Taken, Past, EveryStudentServed
<1> QED
  BY <1>1, InvAlways, PTL

(* Until a signal overtakes a waiter, a waiter that returns from              *)
(* hoare_cond_wait finds what it waited for: no step between the signal and  *)
(* the return can falsify it.                                                *)
THEOREM HoareSignalKeepsCondition == Spec => SignalKeepsCondition
<1> DEFINE Keeps == ~overtaken =>
                      /\ \A t \in Students : Resumes(t) => numOfFreeSlots > 0
                      /\ Resumes(Grader) => numOfFreeSlots = 0 \/ shouldStopAddingSlots
<1>1. ASSUME IInv, [Next]_vars, NEW t \in Threads, Resumes(t) PROVE Holds(cond[t])
  <2>1. pc[t] = "blocked" /\ pc'[t] # pc[t]
    BY <1>1 DEF Resumes
  <2>2. PICK u \in Threads : Step(u)
    BY <1>1, <2>1 DEF Next, vars, condVars
  <2>3. u = t
    BY <1>1, <2>1, <2>2 DEF IInv, Types, Step, Enter, Leave, WaitSignal, SignalRelease, SignalRetake,
       StudentStart, TakeSlotAsk, TakeSlotWait, TakeSlotFree, TakeSlot, TakeSlotPass, GraderLoop, AddSlotsWait,
       AddSlotsTest, AddSlots, AddSlotsSignal, StopAdding, MainStop, MainDealloc, goto, WaitRelease, Signal
  <2>4. LockReturns(t, cond[t])
    BY <2>1, <2>2, <2>3 DEF Step, Enter, Leave, WaitSignal, SignalRelease, SignalRetake, StudentStart,
       TakeSlotAsk, TakeSlotWait, TakeSlotFree, TakeSlot, TakeSlotPass, GraderLoop, AddSlotsWait, AddSlotsTest,
       AddSlots, AddSlotsSignal, StopAdding, MainStop, MainDealloc
  <2> QED
    BY <1>1, <2>1, <2>4, WaitReturns
<1>2. Inv /\ [Next]_vars => [Keeps]_vars
  <2> SUFFICES ASSUME IInv, [Next]_vars PROVE Keeps
    BY DEF Inv
  <2>1. \A t \in Threads : Resumes(t) => (cond[t] = "freeSlots" <=> t \in Students)
    BY DEF IInv, Roles, Resumes
  <2> QED
    BY <1>1, <2>1, ThreadFacts DEF Holds
<1> QED
  BY <1>2, InvAlways, PTL DEF Spec, SignalKeepsCondition
=============================================================================
