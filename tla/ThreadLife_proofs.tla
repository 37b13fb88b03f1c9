--------------------------- MODULE ThreadLife_proofs ---------------------------
(***************************************************************************)
(* The threads of a process of xv6_ass2, for every size of its thread       *)
(* table: why no stack is freed under a running thread, and why nobody is    *)
(* left asleep on a thread that is dead.                                    *)
(***************************************************************************)
EXTENDS ThreadLife, TLAPS

(* The caller of exec whose state killThread has borrowed for its test. *)
Lent(u) == thread # None /\ pc[thread] = "swap" /\ threadThatCalledExec = u

(* The state of u once it is given back. *)
Real(u) == IF Lent(u) THEN prev[thread] ELSE state[u]

(* Who is on the processor, and where. *)
OnCpu ==
  /\ thread # None => state[thread] \in {"RUNNING", "ZOMBIE"} /\ pc[thread] \notin {"dead", "none"}
  /\ \A t \in Slots : pc[t] \in {"dying", "swap"} => thread = t /\ state[t] = "ZOMBIE"

(* What the borrower remembers. *)
Borrowed ==
  /\ isPendingExec => threadThatCalledExec \in Slots
  /\ \A t \in Slots : pc[t] = "swap" =>
       /\ isPendingExec /\ state[threadThatCalledExec] = "ZOMBIE"
       /\ threadThatCalledExec = t => prev[t] = "ZOMBIE"

(* A ZOMBIE has left the processor for good, but for the one that is on it. *)
Zombies == \A t \in Slots : Real(t) = "ZOMBIE" => pc[t] = "dead" \/ thread = t

(* A place in the kernel, the state and the id say the same of a slot. *)
SlotsAgree ==
  \A t \in Slots : /\ Real(t) = "UNUSED" <=> tid[t] = 0
                   /\ Real(t) = "UNUSED" <=> pc[t] = "none"
                   /\ pc[t] = "dead" => Real(t) = "ZOMBIE"
                   /\ pc[t] = "join" => target[t] \in Slots \ {t}

(* One exec at a time, and its caller sleeps on its own channel. *)
OneExec ==
  \A t \in Slots :
    /\ pc[t] \in {"execWait", "image", "imageIO"} => isPendingExec /\ threadThatCalledExec = t
    /\ pc[t] = "execWait" /\ Real(t) = "SLEEPING" => chan[t] = t

(* Until killThread has returned to somebody, a thread that is dead in name  *)
(* is on its way out, and a sleeping joiner hears of the end of its target.  *)
OnWayOut == ~undead => \A t \in Slots : thread = t /\ state[t] = "ZOMBIE" =>
                                            pc[t] \in {"dying", "swap", "closing", "closeIO"}
Joiners ==
  ~undead => \A t \in Slots : state[t] = "SLEEPING" /\ pc[t] = "join" =>
                                 chan[t] = target[t] /\ pc[target[t]] \notin {"dead", "none"}

Sound == OnCpu /\ Borrowed /\ Zombies /\ SlotsAgree
IInv == TypeOK /\ Sound /\ OneExec /\ OnWayOut /\ Joiners /\ ParentWoken /\ ExecWaitEnds

-----------------------------------------------------------------------------
LEMMA Constants == None \notin Slots /\ IO \notin Slots /\ IO # None /\ MaxTid \in Nat
BY NoneAssumption, MaxTidAssumption

(* A step on the processor that moves the thread on to q, and at most ends a *)
(* wait or disables interrupts.                                              *)
LEMMA MoveKept ==
  ASSUME IInv, NEW t \in Slots, NEW q, thread = t, pc' = [pc EXCEPT ![t] = q],
         UNCHANGED <<sched, tid, target, isPendingExec, threadThatCalledExec, prev, undead, parent>>,
         TypeOK', pc[t] # "swap", q \notin {"dying", "swap", "dead", "none", "join"},
         pc[t] = "dying" => ~isPendingExec,
         pc[t] \in {"dying", "closing", "closeIO"} => q \in {"closing", "closeIO"},
         q \in {"execWait", "image", "imageIO"} => pc[t] \in {"execWait", "image", "imageIO"}
  PROVE  IInv'
<1>1. OnCpu' /\ Borrowed'
  BY Constants DEF IInv, Sound, TypeOK, OnCpu, Borrowed, sched
<1>2. Zombies' /\ SlotsAgree'
  BY Constants DEF IInv, Sound, TypeOK, OnCpu, Zombies, SlotsAgree, Real, Lent, sched
<1>3. OneExec' /\ ExecWaitEnds'
  BY Constants DEF IInv, Sound, TypeOK, OnCpu, Real, Lent, OneExec, ExecWaitEnds, sched
<1>4. OnWayOut' /\ Joiners' /\ ParentWoken'
  BY Constants DEF IInv, Sound, TypeOK, OnCpu, OnWayOut, Joiners, ParentWoken, sched
<1> QED
  BY <1>1, <1>2, <1>3, <1>4 DEF IInv, Sound

LEMMA MovesStep ==
  ASSUME IInv, NEW t \in Slots,
         \/ EntersKilled(t) \/ OtherCall(t) \/ Return(t) \/ ReturnKilled(t)
         \/ ExitCall(t) \/ KillLast(t) \/ ExecWoken(t) \/ ExecNoFile(t)
         \/ DiskRequest(t) \/ TickExits(t) \/ WaitEnd(t) \/ \E call \in Calls : Wait(t, call)
  PROVE  IInv'
<1> USE DEF GoTo
<1>1. CASE EntersKilled(t) \/ ExitCall(t) \/ ReturnKilled(t)
  <2>1. TypeOK'
    BY <1>1 DEF IInv, TypeOK, InCall, EntersKilled, ExitCall, ReturnKilled, Exits, sched, ids, procState
  <2> QED
    BY <1>1, <2>1, MoveKept DEF EntersKilled, ExitCall, ReturnKilled, Exits, Enters, At, ids, procState
<1>2. CASE Return(t)
  <2>1. TypeOK'
    BY <1>2 DEF IInv, TypeOK, InCall, Return, sched, ids, procState, rest
  <2> QED
    BY <1>2, <2>1, MoveKept DEF Return, At, ids, procState, rest
<1>3. CASE KillLast(t) \/ ExecWoken(t) \/ ExecNoFile(t) \/ OtherCall(t)
  <2>1. TypeOK'
    BY <1>3 DEF IInv, TypeOK, InCall, KillLast, ExecWoken, ExecNoFile, OtherCall, MovesTo, sched, ids, procState, rest
  <2> QED
    BY <1>3, <2>1, MoveKept DEF KillLast, ExecWoken, ExecNoFile, OtherCall, At, MovesTo, ids, procState, rest
<1>4. CASE DiskRequest(t)
  <2>1. TypeOK'
    BY <1>4 DEF IInv, TypeOK, InCall, DiskRequest, sched, ids, procState
  <2>2. CASE pc[t] = "closing"
    BY <1>4, <2>1, <2>2, MoveKept DEF DiskRequest, At, ids, procState
  <2>3. CASE pc[t] # "closing"
    BY <1>4, <2>1, <2>3, MoveKept DEF DiskRequest, At, ids, procState
  <2> QED
    BY <2>2, <2>3
<1>5. CASE TickExits(t)
  <2>1. TypeOK'
    BY <1>5 DEF IInv, TypeOK, InCall, TickExits, Exits, sched, ids, procState
  <2> QED
    BY <1>5, <2>1, MoveKept DEF TickExits, Exits, Interruptible, ids, procState
<1>6. CASE WaitEnd(t)
  <2>1. /\ pc[t] \in {"sleep", "read"} => pc' = [pc EXCEPT ![t] = "ret"]
        /\ pc[t] = "imageIO" => pc' = [pc EXCEPT ![t] = "image"]
        /\ pc[t] = "closeIO" => pc' = [pc EXCEPT ![t] = "closing"]
        /\ pc[t] \in {"sleep", "read", "imageIO", "closeIO"} /\ thread = t
    BY <1>6 DEF WaitEnd, At
  <2>2. TypeOK'
    BY <1>6, <2>1 DEF IInv, TypeOK, InCall, WaitEnd, sched, ids, procState
  <2> QED
    BY <1>6, <2>1, <2>2, MoveKept DEF WaitEnd, ids, procState
<1>7. CASE \E call \in Calls : Wait(t, call)
  <2>1. PICK call \in {"sleep", "read"} : Wait(t, call)
    BY <1>7 DEF Wait
  <2>2. TypeOK'
    BY <2>1 DEF IInv, TypeOK, InCall, Wait, sched, ids, procState
  <2> QED
    BY <2>1, <2>2, MoveKept DEF Wait, Enters, At, ids, procState
<1> QED
  BY <1>1, <1>2, <1>3, <1>4, <1>5, <1>6, <1>7

(* Steps that do not move a thread: a panic, and the parent goes to sleep. *)
LEMMA CreateNoMemoryStep ==
  ASSUME IInv, NEW t \in Slots, CreateNoMemory(t)
  PROVE  IInv'
BY DEF CreateNoMemory, IInv, TypeOK, Sound, OnCpu, Borrowed, Zombies, SlotsAgree, Real, Lent, OneExec,
   OnWayOut, Joiners, ParentWoken, ExecWaitEnds, sched, ids, procState

LEMMA ParentSleepsStep ==
  ASSUME IInv, ParentSleeps
  PROVE  IInv'
<1>1. ParentWoken'
  BY DEF ParentSleeps, IsZombie, IInv, Sound, SlotsAgree, Real, Lent, ParentWoken, sched
<1> QED
  BY <1>1 DEF ParentSleeps, IInv, TypeOK, Sound, OnCpu, Borrowed, Zombies, SlotsAgree, Real, Lent, OneExec,
     OnWayOut, Joiners, ExecWaitEnds, sched, ids, procState

-----------------------------------------------------------------------------
(* kthread_create *)
LEMMA CreateStep ==
  ASSUME IInv, NEW t \in Slots, NEW u \in Slots, Create(t, u)
  PROVE  IInv'
<1>1. TypeOK'
  BY Constants DEF IInv, TypeOK, InCall, Create, procState, rest
<1>2. OnCpu' /\ Borrowed'
  BY DEF IInv, Sound, TypeOK, OnCpu, Borrowed, Create, Enters, At, procState
<1>3. Zombies' /\ SlotsAgree'
  BY DEF IInv, Sound, TypeOK, Zombies, SlotsAgree, Real, Lent, Create, Enters, At
<1>4. OneExec' /\ ExecWaitEnds'
  BY DEF IInv, TypeOK, Real, Lent, OneExec, ExecWaitEnds, Create, Enters, At, procState
<1>5. OnWayOut' /\ Joiners'
  BY DEF IInv, Sound, TypeOK, SlotsAgree, OnWayOut, Joiners, Create, Enters, At
<1>6. ParentWoken'
  BY DEF IInv, TypeOK, ParentWoken, Create
<1> QED
  BY <1>1, <1>2, <1>3, <1>4, <1>5, <1>6 DEF IInv, Sound

(* kthread_join finds its target *)
LEMMA JoinStep ==
  ASSUME IInv, NEW t \in Slots, NEW u \in Slots, Join(t, u)
  PROVE  IInv'
<1>1. TypeOK'
  BY DEF IInv, TypeOK, InCall, Join, GoTo, sched, procState, rest
<1>2. OnCpu' /\ Borrowed'
  BY DEF IInv, Sound, OnCpu, Borrowed, Join, Enters, At, GoTo, sched, procState
<1>3. Zombies' /\ SlotsAgree'
  BY DEF IInv, Sound, TypeOK, Zombies, SlotsAgree, Real, Lent, Join, Enters, At, GoTo, sched
<1>4. OneExec' /\ ExecWaitEnds'
  BY DEF IInv, Real, Lent, OneExec, ExecWaitEnds, Join, Enters, At, GoTo, sched, procState
<1>5. OnWayOut' /\ Joiners'
  BY Constants DEF IInv, Sound, OnCpu, OnWayOut, Joiners, Join, Enters, At, GoTo, sched
<1>6. ParentWoken'
  BY DEF IInv, TypeOK, ParentWoken, Join, GoTo
<1> QED
  BY <1>1, <1>2, <1>3, <1>4, <1>5, <1>6 DEF IInv, Sound

(* kthread_join sleeps on it *)
LEMMA JoinSleepStep ==
  ASSUME IInv, NEW t \in Slots, JoinSleep(t)
  PROVE  IInv'
<1>1. TypeOK'
  BY DEF IInv, TypeOK, InCall, JoinSleep, SleepAt, GoTo, ids, procState, rest
<1>2. OnCpu' /\ Borrowed'
  BY DEF IInv, Sound, OnCpu, Borrowed, JoinSleep, At, SleepAt, GoTo, procState
<1>3. Zombies' /\ SlotsAgree'
  BY DEF IInv, Sound, TypeOK, Zombies, SlotsAgree, Real, Lent, JoinSleep, At, SleepAt, GoTo, ids
<1>4. OneExec' /\ ExecWaitEnds'
  BY DEF IInv, Real, Lent, OneExec, ExecWaitEnds, JoinSleep, At, SleepAt, GoTo, procState
<1>5. OnWayOut' /\ Joiners'
  BY Constants DEF IInv, Sound, TypeOK, SlotsAgree, Real, Lent, OnWayOut, Joiners, JoinSleep, At, SleepAt, GoTo, ids
<1>6. ParentWoken'
  BY DEF IInv, TypeOK, ParentWoken, JoinSleep, SleepAt, GoTo
<1> QED
  BY <1>1, <1>2, <1>3, <1>4, <1>5, <1>6 DEF IInv, Sound

(* kthread_join cleans it *)
LEMMA JoinReapStep ==
  ASSUME IInv, NEW t \in Slots, JoinReap(t)
  PROVE  IInv'
<1>1. TypeOK'
  BY Constants DEF IInv, TypeOK, InCall, JoinReap, Clean, procState, rest
<1>2. OnCpu' /\ Borrowed'
  BY DEF IInv, Sound, TypeOK, OnCpu, Borrowed, JoinReap, At, Clean, procState
<1>3. Zombies' /\ SlotsAgree'
  BY DEF IInv, Sound, TypeOK, Zombies, SlotsAgree, Real, Lent, JoinReap, At, Clean
<1>4. OneExec' /\ ExecWaitEnds'
  BY DEF IInv, Sound, TypeOK, OnCpu, Real, Lent, OneExec, ExecWaitEnds, JoinReap, At, Clean, procState
<1>5. OnWayOut' /\ Joiners'
  BY DEF IInv, Sound, TypeOK, SlotsAgree, Real, Lent, OnWayOut, Joiners, Zombies, JoinReap, At, Clean
<1>6. ParentWoken'
  BY DEF IInv, TypeOK, ParentWoken, JoinReap, Clean
<1> QED
  BY <1>1, <1>2, <1>3, <1>4, <1>5, <1>6 DEF IInv, Sound

(* sleep() in any other wait *)
LEMMA WaitSleepStep ==
  ASSUME IInv, NEW t \in Slots, WaitSleep(t)
  PROVE  IInv'
<1>1. TypeOK'
  BY DEF IInv, TypeOK, InCall, WaitSleep, SleepAt, GoTo, ids, procState, rest
<1>2. OnCpu' /\ Borrowed'
  BY DEF IInv, Sound, OnCpu, Borrowed, WaitSleep, At, SleepAt, GoTo, procState
<1>3. Zombies' /\ SlotsAgree'
  BY DEF IInv, Sound, TypeOK, Zombies, SlotsAgree, Real, Lent, WaitSleep, At, SleepAt, GoTo, ids
<1>4. OneExec' /\ ExecWaitEnds'
  BY DEF IInv, Real, Lent, OneExec, ExecWaitEnds, WaitSleep, At, SleepAt, GoTo, procState
<1>5. OnWayOut' /\ Joiners'
  BY Constants DEF IInv, TypeOK, OnWayOut, Joiners, WaitSleep, SleepAt, GoTo, ids
<1>6. ParentWoken'
  BY DEF IInv, TypeOK, ParentWoken, WaitSleep, SleepAt, GoTo
<1> QED
  BY <1>1, <1>2, <1>3, <1>4, <1>5, <1>6 DEF IInv, Sound

(* exit() marks and wakes everybody *)
LEMMA ExitStep ==
  ASSUME IInv, NEW t \in Slots, Exit(t)
  PROVE  IInv'
<1>1. TypeOK'
  BY DEF IInv, TypeOK, InCall, Exit, GoTo, ids, rest
<1>2. OnCpu' /\ Borrowed'
  BY DEF IInv, Sound, OnCpu, Borrowed, Exit, At, GoTo
<1>3. Zombies' /\ SlotsAgree'
  BY DEF IInv, Sound, Zombies, SlotsAgree, Real, Lent, Exit, At, GoTo, ids
<1>4. OneExec' /\ ExecWaitEnds'
  BY DEF IInv, Real, Lent, OneExec, ExecWaitEnds, Exit, At, GoTo
<1>5. OnWayOut' /\ Joiners'
  BY DEF IInv, TypeOK, OnWayOut, Joiners, Exit, GoTo
<1>6. ParentWoken'
  BY DEF IInv, TypeOK, ParentWoken, Exit, GoTo
<1> QED
  BY <1>1, <1>2, <1>3, <1>4, <1>5, <1>6 DEF IInv, Sound

(* exit() of a process that is dying *)
LEMMA ExitAgainStep ==
  ASSUME IInv, NEW t \in Slots, ExitAgain(t)
  PROVE  IInv'
<1>1. TypeOK'
  BY DEF IInv, TypeOK, InCall, ExitAgain, SchedDead, GoTo, ids, procState
<1>2. OnCpu' /\ Borrowed'
  BY DEF IInv, Sound, TypeOK, OnCpu, Borrowed, ExitAgain, At, SchedDead, GoTo, procState
<1>3. Zombies' /\ SlotsAgree'
  BY Constants DEF IInv, Sound, TypeOK, OnCpu, Zombies, SlotsAgree, Real, Lent, ExitAgain, At, SchedDead, GoTo, ids
<1>4. OneExec' /\ ExecWaitEnds'
  BY DEF IInv, TypeOK, Real, Lent, OneExec, ExecWaitEnds, ExitAgain, At, SchedDead, GoTo, procState
<1>5. OnWayOut' /\ Joiners'
  BY Constants DEF IInv, Sound, OnCpu, OnWayOut, Joiners, ExitAgain, At, SchedDead, ids
<1>6. ParentWoken'
  BY Constants DEF IInv, Sound, OnCpu, ParentWoken, OnWayOut, ExitAgain, At, SchedDead
<1> QED
  BY <1>1, <1>2, <1>3, <1>4, <1>5, <1>6 DEF IInv, Sound

(* kthread_exit *)
LEMMA KthreadExitStep ==
  ASSUME IInv, NEW t \in Slots, KthreadExit(t)
  PROVE  IInv'
<1>1. TypeOK'
  BY DEF IInv, TypeOK, InCall, KthreadExit, GoTo, ids, procState, rest
<1>2. OnCpu' /\ Borrowed'
  BY DEF IInv, Sound, TypeOK, OnCpu, Borrowed, KthreadExit, Enters, At, GoTo, procState
<1>3. Zombies' /\ SlotsAgree'
  BY DEF IInv, Sound, Zombies, SlotsAgree, Real, Lent, KthreadExit, Enters, At, GoTo, ids
<1>4. OneExec' /\ ExecWaitEnds'
  BY DEF IInv, TypeOK, Real, Lent, OneExec, ExecWaitEnds, KthreadExit, Enters, At, GoTo, procState
<1>5. OnWayOut' /\ Joiners'
  BY DEF IInv, TypeOK, OnWayOut, Joiners, KthreadExit, GoTo, ids
<1>6. ParentWoken'
  BY DEF IInv, TypeOK, ParentWoken, KthreadExit, GoTo
<1> QED
  BY <1>1, <1>2, <1>3, <1>4, <1>5, <1>6 DEF IInv, Sound

(* killThread borrows the state of the caller of exec *)
LEMMA KillSwapStep ==
  ASSUME IInv, NEW t \in Slots, KillSwap(t)
  PROVE  IInv'
<1>1. TypeOK'
  BY DEF IInv, TypeOK, Sound, Borrowed, InCall, KillSwap, GoTo, ids, procState
<1>2. OnCpu' /\ Borrowed'
  BY DEF IInv, Sound, TypeOK, OnCpu, Borrowed, KillSwap, At, GoTo, procState
<1>3. Zombies' /\ SlotsAgree'
  BY Constants DEF IInv, Sound, TypeOK, Zombies, SlotsAgree, Real, Lent, KillSwap, At, GoTo, ids, procState
<1>4. OneExec' /\ ExecWaitEnds'
  BY DEF IInv, TypeOK, Real, Lent, OneExec, ExecWaitEnds, KillSwap, At, GoTo, procState
<1>5. OnWayOut' /\ Joiners'
  BY DEF IInv, OnWayOut, Joiners, KillSwap, At, GoTo, ids
<1>6. ParentWoken'
  BY DEF IInv, ParentWoken, KillSwap, GoTo
<1> QED
  BY <1>1, <1>2, <1>3, <1>4, <1>5, <1>6 DEF IInv, Sound

(* killThread gives it back *)
LEMMA KillRestoreStep ==
  ASSUME IInv, NEW t \in Slots, KillRestore(t)
  PROVE  IInv'
<1>1. TypeOK'
  BY DEF IInv, TypeOK, InCall, KillRestore, GoTo, WakeExec, Wakeup1, ids, procState
<1>2. OnCpu' /\ Borrowed'
  BY DEF IInv, Sound, TypeOK, OnCpu, Borrowed, KillRestore, At, GoTo, WakeExec, Wakeup1, procState
<1>3. Zombies' /\ SlotsAgree'
  BY Constants DEF IInv, Sound, TypeOK, Zombies, SlotsAgree, Real, Lent, KillRestore, At, GoTo, WakeExec, Wakeup1, ids
<1>4. OneExec' /\ ExecWaitEnds'
  <2> DEFINE E == threadThatCalledExec
             st == [state EXCEPT ![E] = prev[t]]
  <2>1. /\ thread = t /\ pc[t] = "swap" /\ pc' = [pc EXCEPT ![t] = back[t]]
        /\ back[t] \in {"call", "ret", "user"}
        /\ isPendingExec /\ E \in Slots /\ state[E] = "ZOMBIE"
    BY DEF KillRestore, At, GoTo, IInv, TypeOK, Sound, Borrowed
  <2>2. IF IsZombie(state) THEN state' = Wakeup1(st, chan[E]) ELSE state' = st
    BY DEF KillRestore, WakeExec
  <2>3. OneExec'
    <3>1. \A u \in Slots : state'[u] = "SLEEPING" => Real(u) = "SLEEPING"
      <4>1. \A u \in Slots : state'[u] \in {st[u], "RUNNABLE"}
        BY <2>2 DEF Wakeup1
      <4>2. st[E] = prev[t] /\ \A u \in Slots \ {E} : st[u] = state[u]
        BY <2>1 DEF IInv, TypeOK
      <4>3. Real(E) = prev[t] /\ \A u \in Slots \ {E} : Real(u) = state[u]
        BY <2>1, Constants DEF Real, Lent
      <4> QED
        BY <4>1, <4>2, <4>3
    <3>2. \A u \in Slots : ~Lent(u)'
      BY <2>1 DEF KillRestore, IInv, TypeOK, Lent
    <3> QED
      BY <2>1, <3>1, <3>2 DEF KillRestore, IInv, TypeOK, OneExec, Real, procState
  <2>4. ExecWaitEnds'
    <3> SUFFICES ASSUME NEW u \in Slots, state'[u] = "SLEEPING", pc'[u] = "execWait"
                 PROVE  \E v \in Slots \ {u} : state'[v] \notin {"ZOMBIE", "UNUSED"}
      BY DEF ExecWaitEnds
    <3>1. u = E
      BY <2>1 DEF IInv, OneExec
    <3>2. ~IsZombie(state)
      BY <2>1, <2>2, <3>1 DEF Wakeup1, IInv
    <3>3. PICK v \in Slots : state[v] \notin {"ZOMBIE", "UNUSED"}
      BY <3>2 DEF IsZombie
    <3> QED
      BY <2>1, <2>2, <3>1, <3>2, <3>3 DEF IInv, TypeOK
  <2> QED
    BY <2>3, <2>4
<1>5. OnWayOut' /\ Joiners'
  BY DEF IInv, OnWayOut, Joiners, KillRestore, WakeExec
<1>6. ParentWoken'
  BY DEF IInv, ParentWoken, KillRestore, WakeExec
<1> QED
  BY <1>1, <1>2, <1>3, <1>4, <1>5, <1>6 DEF IInv, Sound

(* killThread of a thread that is not the last *)
LEMMA KillThreadStep ==
  ASSUME IInv, NEW t \in Slots, KillThread(t)
  PROVE  IInv'
<1>1. TypeOK'
  BY DEF IInv, TypeOK, InCall, KillThread, GoTo, Wakeup1, ids, procState, rest
<1>2. OnCpu' /\ Borrowed'
  BY DEF IInv, Sound, TypeOK, OnCpu, Borrowed, KillThread, At, GoTo, procState
<1>3. Zombies' /\ SlotsAgree'
  BY DEF IInv, Sound, TypeOK, OnCpu, Zombies, SlotsAgree, Real, Lent, KillThread, At, GoTo, Wakeup1, ids
<1>4. OneExec' /\ ExecWaitEnds'
  BY DEF IInv, OneExec, ExecWaitEnds, KillThread, GoTo
<1>5. OnWayOut' /\ Joiners'
  BY Constants DEF IInv, OnWayOut, Joiners, KillThread, GoTo, Wakeup1, ids
<1>6. ParentWoken'
  BY DEF IInv, Sound, OnCpu, SlotsAgree, Real, Lent, ParentWoken, KillThread, At, GoTo, IsZombie
<1> QED
  BY <1>1, <1>2, <1>3, <1>4, <1>5, <1>6 DEF IInv, Sound

(* killThread of the last thread *)
LEMMA CloseEndStep ==
  ASSUME IInv, NEW t \in Slots, CloseEnd(t)
  PROVE  IInv'
<1>1. TypeOK'
  BY DEF IInv, TypeOK, InCall, CloseEnd, GoTo, SchedDead, Wakeup1, ids, procState
<1>2. OnCpu' /\ Borrowed'
  BY DEF IInv, Sound, TypeOK, OnCpu, Borrowed, CloseEnd, At, GoTo, SchedDead, Wakeup1, procState
<1>3. Zombies' /\ SlotsAgree'
  BY Constants DEF IInv, Sound, TypeOK, OnCpu, Zombies, SlotsAgree, Real, Lent, CloseEnd, At, GoTo, SchedDead, Wakeup1, ids
<1>4. OneExec' /\ ExecWaitEnds'
  BY DEF IInv, TypeOK, Real, Lent, OneExec, ExecWaitEnds, CloseEnd, At, GoTo, SchedDead, Wakeup1, procState
<1>5. OnWayOut' /\ Joiners'
  BY Constants DEF IInv, Sound, TypeOK, SlotsAgree, OnWayOut, Joiners, CloseEnd, GoTo, SchedDead, Wakeup1, ids
<1>6. ParentWoken'
  BY DEF IInv, ParentWoken, CloseEnd, SchedDead
<1> QED
  BY <1>1, <1>2, <1>3, <1>4, <1>5, <1>6 DEF IInv, Sound

(* exec() asks the others to die *)
LEMMA ExecBeginStep ==
  ASSUME IInv, NEW t \in Slots, ExecBegin(t)
  PROVE  IInv'
<1>1. TypeOK'
  BY DEF IInv, TypeOK, InCall, ExecBegin, GoTo, SleepAt, sched, ids, rest
<1>2. OnCpu' /\ Borrowed'
  BY DEF IInv, Sound, TypeOK, OnCpu, Borrowed, ExecBegin, Enters, At, GoTo, SleepAt, sched
<1>3. Zombies' /\ SlotsAgree'
  BY DEF IInv, Sound, TypeOK, Zombies, SlotsAgree, Real, Lent, ExecBegin, Enters, At, GoTo, SleepAt, sched, ids
<1>4. OneExec' /\ ExecWaitEnds'
  BY DEF IInv, TypeOK, OneExec, ExecWaitEnds, ExecBegin, GoTo, SleepAt, IsZombie
<1>5. OnWayOut' /\ Joiners'
  BY Constants DEF IInv, Sound, TypeOK, SlotsAgree, OnWayOut, Joiners, ExecBegin, Enters, At, GoTo, SleepAt, sched, ids
<1>6. ParentWoken'
  BY DEF IInv, TypeOK, ParentWoken, ExecBegin, GoTo, SleepAt
<1> QED
  BY <1>1, <1>2, <1>3, <1>4, <1>5, <1>6 DEF IInv, Sound

(* exec() is over *)
LEMMA ExecEndStep ==
  ASSUME IInv, NEW t \in Slots, ExecEnd(t)
  PROVE  IInv'
<1>1. TypeOK'
  BY DEF IInv, TypeOK, InCall, ExecEnd, GoTo, sched, ids, rest
<1>2. OnCpu' /\ Borrowed'
  BY DEF IInv, Sound, OnCpu, Borrowed, ExecEnd, At, GoTo, sched
<1>3. Zombies' /\ SlotsAgree'
  BY DEF IInv, Sound, Zombies, SlotsAgree, Real, Lent, ExecEnd, At, GoTo, sched, ids
<1>4. OneExec' /\ ExecWaitEnds'
  BY DEF IInv, TypeOK, OneExec, ExecWaitEnds, ExecEnd, At, GoTo
<1>5. OnWayOut' /\ Joiners'
  BY DEF IInv, OnWayOut, Joiners, ExecEnd, At, GoTo, sched, ids
<1>6. ParentWoken'
  BY DEF IInv, TypeOK, ParentWoken, ExecEnd, GoTo
<1> QED
  BY <1>1, <1>2, <1>3, <1>4, <1>5, <1>6 DEF IInv, Sound

(* a tick kills a thread while an exec is pending *)
LEMMA TickExecStep ==
  ASSUME IInv, NEW t \in Slots, TickExec(t)
  PROVE  IInv'
<1>1. TypeOK'
  BY DEF IInv, TypeOK, InCall, TickExec, Interruptible, GoTo, WakeExec, Wakeup1, ids, procState, rest
<1>2. OnCpu' /\ Borrowed'
  BY DEF IInv, Sound, TypeOK, OnCpu, Borrowed, TickExec, Interruptible, GoTo, WakeExec, Wakeup1, procState, rest
<1>3. Zombies' /\ SlotsAgree'
  BY DEF IInv, Sound, TypeOK, Zombies, SlotsAgree, Real, Lent, TickExec, Interruptible, GoTo, WakeExec, Wakeup1, ids, procState, rest
<1>4. OneExec' /\ ExecWaitEnds'
  BY DEF IInv, TypeOK, Real, Lent, OneExec, ExecWaitEnds, TickExec, Interruptible, GoTo, WakeExec, Wakeup1, IsZombie, procState, rest
<1>5. OnWayOut' /\ Joiners'
  BY DEF IInv, OnWayOut, Joiners, TickExec, Interruptible, WakeExec
<1>6. ParentWoken'
  BY DEF IInv, ParentWoken, TickExec, Interruptible, WakeExec
<1> QED
  BY <1>1, <1>2, <1>3, <1>4, <1>5, <1>6 DEF IInv, Sound

(* a tick kills a thread *)
LEMMA TickKillsStep ==
  ASSUME IInv, NEW t \in Slots, TickKills(t)
  PROVE  IInv'
<1>1. TypeOK'
  <2>1. state' \in [Slots -> {"UNUSED", "SLEEPING", "RUNNABLE", "RUNNING", "ZOMBIE"}]
    BY DEF IInv, TypeOK, TickKills, Wakeup1
  <2>2. pc' \in [Slots -> InCall] /\ intr' \in [Slots -> BOOLEAN] /\ thread' \in Slots \cup {None}
    BY DEF IInv, TypeOK, InCall, TickKills, GoTo
  <2> QED
    BY <2>1, <2>2 DEF IInv, TypeOK, TickKills, ids, procState, rest
<1>2. OnCpu' /\ Borrowed'
  BY DEF IInv, Sound, TypeOK, OnCpu, Borrowed, TickKills, Interruptible, GoTo, procState
<1>3. Zombies' /\ SlotsAgree'
  BY DEF IInv, Sound, TypeOK, Borrowed, Zombies, SlotsAgree, Real, Lent, TickKills, Interruptible, GoTo, Wakeup1, ids
<1>4. OneExec' /\ ExecWaitEnds'
  BY DEF IInv, TypeOK, OneExec, ExecWaitEnds, TickKills, Interruptible, GoTo
<1>5. OnWayOut' /\ Joiners'
  BY Constants DEF IInv, Sound, TypeOK, SlotsAgree, OnWayOut, Joiners, TickKills, Interruptible, GoTo, Wakeup1, ids
<1>6. ParentWoken'
  <2> DEFINE st == [state EXCEPT ![t] = "ZOMBIE"]
  <2>1. pc[t] # "swap" /\ ~isPendingExec /\ thread = t
    BY DEF TickKills, Interruptible, IInv, Sound, Borrowed
  <2>2. CASE IsZombie(st)
    <3>1. pc'[t] = "closing"
      BY <2>2 DEF TickKills, GoTo, IInv, TypeOK
    <3> QED
      BY <3>1 DEF ParentWoken
  <2>3. CASE ~IsZombie(st)
    <3>1. PICK u \in Slots : st[u] \notin {"ZOMBIE", "UNUSED"}
      BY <2>3 DEF IsZombie
    <3>2. u # t /\ state[u] \notin {"ZOMBIE", "UNUSED"}
      BY <3>1 DEF IInv, TypeOK
    <3>3. pc[u] \notin {"dead", "none"}
      BY <2>1, <3>2 DEF IInv, Sound, SlotsAgree, Real, Lent
    <3>4. pc'[u] = pc[u]
      BY <2>3, <3>2 DEF TickKills, GoTo, IInv, TypeOK
    <3> QED
      BY <3>3, <3>4 DEF ParentWoken
  <2> QED
    BY <2>2, <2>3
<1> QED
  BY <1>1, <1>2, <1>3, <1>4, <1>5, <1>6 DEF IInv, Sound

(* a tick takes the processor *)
LEMMA TickYieldsStep ==
  ASSUME IInv, NEW t \in Slots, TickYields(t)
  PROVE  IInv'
<1>1. TypeOK'
  BY DEF IInv, TypeOK, InCall, TickYields, Interruptible, GoTo, ids, procState, rest
<1>2. OnCpu' /\ Borrowed'
  BY DEF IInv, Sound, TypeOK, OnCpu, Borrowed, TickYields, Interruptible, GoTo, procState
<1>3. Zombies' /\ SlotsAgree'
  BY DEF IInv, Sound, TypeOK, OnCpu, Zombies, SlotsAgree, Real, Lent, TickYields, Interruptible, GoTo, ids
<1>4. OneExec' /\ ExecWaitEnds'
  BY DEF IInv, Sound, TypeOK, OnCpu, Real, Lent, OneExec, ExecWaitEnds, TickYields, Interruptible, GoTo, procState
<1>5. OnWayOut' /\ Joiners'
  BY Constants DEF IInv, Sound, TypeOK, SlotsAgree, OnWayOut, Joiners, TickYields, Interruptible, GoTo, ids
<1>6. ParentWoken'
  BY DEF IInv, TypeOK, ParentWoken, TickYields, Interruptible, GoTo
<1> QED
  BY <1>1, <1>2, <1>3, <1>4, <1>5, <1>6 DEF IInv, Sound

(* what a thread waits for happens *)
LEMMA EventStep ==
  ASSUME IInv, NEW t \in Slots, Event(t)
  PROVE  IInv'
<1>1. TypeOK'
  BY DEF IInv, TypeOK, Event, ids, procState
<1>2. OnCpu' /\ Borrowed'
  BY DEF IInv, Sound, OnCpu, Borrowed, Event, procState
<1>3. Zombies' /\ SlotsAgree'
  BY DEF IInv, Sound, Zombies, SlotsAgree, Real, Lent, Event, ids, procState
<1>4. OneExec' /\ ExecWaitEnds'
  BY DEF IInv, Real, Lent, OneExec, ExecWaitEnds, Event, procState
<1>5. OnWayOut' /\ Joiners'
  BY DEF IInv, OnWayOut, Joiners, Event, ids
<1>6. ParentWoken'
  BY DEF IInv, ParentWoken, Event
<1> QED
  BY <1>1, <1>2, <1>3, <1>4, <1>5, <1>6 DEF IInv, Sound

(* scheduler() runs a thread *)
LEMMA DispatchStep ==
  ASSUME IInv, NEW t \in Slots, Dispatch(t)
  PROVE  IInv'
<1>1. TypeOK'
  BY DEF IInv, TypeOK, Dispatch, ids, procState, rest
<1>2. OnCpu' /\ Borrowed'
  BY Constants DEF IInv, Sound, TypeOK, OnCpu, Borrowed, SlotsAgree, Real, Lent, Dispatch, procState
<1>3. Zombies' /\ SlotsAgree'
  BY Constants DEF IInv, Sound, OnCpu, Zombies, SlotsAgree, Real, Lent, Dispatch, ids
<1>4. OneExec' /\ ExecWaitEnds'
  BY DEF IInv, Sound, OnCpu, Real, Lent, OneExec, ExecWaitEnds, Dispatch, procState
<1>5. OnWayOut' /\ Joiners'
  BY DEF IInv, OnWayOut, Joiners, Dispatch, ids
<1>6. ParentWoken'
  BY DEF IInv, Sound, SlotsAgree, Real, Lent, ParentWoken, Dispatch
<1> QED
  BY <1>1, <1>2, <1>3, <1>4, <1>5, <1>6 DEF IInv, Sound

(* kill() *)
LEMMA KillStep ==
  ASSUME IInv, Kill
  PROVE  IInv'
<1>1. TypeOK'
  BY DEF IInv, TypeOK, Kill, ids, rest
<1>2. OnCpu' /\ Borrowed'
  BY Constants DEF IInv, Sound, OnCpu, Borrowed, Kill
<1>3. Zombies' /\ SlotsAgree'
  BY DEF IInv, Sound, Zombies, SlotsAgree, Real, Lent, Kill, ids
<1>4. OneExec' /\ ExecWaitEnds'
  BY DEF IInv, Real, Lent, OneExec, ExecWaitEnds, Kill
<1>5. OnWayOut' /\ Joiners'
  BY DEF IInv, OnWayOut, Joiners, Kill
<1>6. ParentWoken'
  BY DEF IInv, ParentWoken, Kill, rest
<1> QED
  BY <1>1, <1>2, <1>3, <1>4, <1>5, <1>6 DEF IInv, Sound

(* wait() of the parent reaps the process *)
LEMMA ParentReapsStep ==
  ASSUME IInv, ParentReaps
  PROVE  IInv'
<1>1. TypeOK'
  <2>1. /\ state' \in [Slots -> {"UNUSED", "SLEEPING", "RUNNABLE", "RUNNING", "ZOMBIE"}]
        /\ chan' \in [Slots -> Slots \cup {None, IO}] /\ tid' \in [Slots -> 0..MaxTid]
        /\ killed' \in [Slots -> BOOLEAN] /\ pc' \in [Slots -> InCall]
    BY Constants DEF ParentReaps, Clean, InCall
  <2> QED
    BY <2>1 DEF IInv, TypeOK, ParentReaps
<1>2. OnCpu' /\ Borrowed'
  BY DEF IInv, Sound, OnCpu, Borrowed, ParentReaps, Clean
<1>3. Zombies' /\ SlotsAgree'
  BY DEF IInv, Zombies, SlotsAgree, Real, Lent, ParentReaps, Clean
<1>4. OneExec' /\ ExecWaitEnds'
  BY DEF IInv, OneExec, ExecWaitEnds, ParentReaps, Clean
<1>5. OnWayOut' /\ Joiners'
  BY DEF IInv, OnWayOut, Joiners, ParentReaps, Clean
<1>6. ParentWoken'
  BY DEF IInv, ParentWoken, ParentReaps, Clean
<1> QED
  BY <1>1, <1>2, <1>3, <1>4, <1>5, <1>6 DEF IInv, Sound

-----------------------------------------------------------------------------
LEMMA InitIInv == Init => IInv
<1> SUFFICES ASSUME Init PROVE IInv
  OBVIOUS
<1>1. TypeOK
  <2>1. 1 \in 0..MaxTid /\ 0 \in 0..MaxTid /\ 2 \in 1..(MaxTid + 1)
    BY MaxTidAssumption
  <2>2. tid \in [Slots -> 0..MaxTid] /\ nexttid \in 1..(MaxTid + 1)
    BY <2>1 DEF Init
  <2>3. pc \in [Slots -> InCall]
    BY DEF Init, InCall
  <2> QED
    BY <2>2, <2>3 DEF Init, TypeOK
<1>2. OnCpu /\ Borrowed /\ Zombies /\ SlotsAgree
  BY Constants DEF Init, OnCpu, Borrowed, Zombies, SlotsAgree, Real, Lent
<1>3. OneExec /\ OnWayOut /\ Joiners /\ ParentWoken /\ ExecWaitEnds
  BY Constants DEF Init, OneExec, OnWayOut, Joiners, ParentWoken, ExecWaitEnds
<1> QED
  BY <1>1, <1>2, <1>3 DEF IInv, Sound

LEMMA NextIInv == IInv /\ [Next]_vars => IInv'
<1> SUFFICES ASSUME IInv, [Next]_vars PROVE IInv'
  OBVIOUS
<1>1. ASSUME NEW t \in Slots, Call(t) PROVE IInv'
  BY <1>1, CreateStep, JoinStep, MovesStep, CreateNoMemoryStep, KthreadExitStep, ExecBeginStep DEF Call
<1>2. ASSUME NEW t \in Slots, Continue(t) PROVE IInv'
  <2>1. CASE JoinSleep(t) \/ JoinReap(t) \/ WaitSleep(t)
    BY <2>1, JoinSleepStep, JoinReapStep, WaitSleepStep
  <2>2. CASE Exit(t) \/ ExitAgain(t) \/ KillSwap(t) \/ KillRestore(t)
    BY <2>2, ExitStep, ExitAgainStep, KillSwapStep, KillRestoreStep
  <2>3. CASE KillThread(t) \/ CloseEnd(t) \/ ExecEnd(t)
    BY <2>3, KillThreadStep, CloseEndStep, ExecEndStep
  <2> QED
    BY <1>2, <2>1, <2>2, <2>3, MovesStep DEF Continue
<1>3. ASSUME NEW t \in Slots, Tick(t) PROVE IInv'
  BY <1>3, TickExecStep, TickKillsStep, MovesStep, TickYieldsStep DEF Tick
<1>4. ASSUME NEW t \in Slots, DiskRequest(t) \/ ExecNoFile(t) \/ Event(t) \/ Dispatch(t) PROVE IInv'
  BY <1>4, MovesStep, EventStep, DispatchStep
<1>5. CASE Kill \/ ParentReaps \/ ParentSleeps
  BY <1>5, KillStep, ParentReapsStep, ParentSleepsStep
<1>6. CASE UNCHANGED vars
  BY <1>6 DEF vars, IInv, TypeOK, Sound, OnCpu, Borrowed, Zombies, SlotsAgree, Real, Lent, OneExec,
     OnWayOut, Joiners, ParentWoken, ExecWaitEnds, sched, ids, procState, rest
<1> QED
  BY <1>1, <1>2, <1>3, <1>4, <1>5, <1>6 DEF Next, Stops

LEMMA IInvAlways == Spec => []IInv
BY InitIInv, NextIInv, PTL DEF Spec

(* The thread table keeps its types, for every NTHREAD and every client.      *)
THEOREM LifeTypeCorrect == Spec => []TypeOK
<1>1. IInv => TypeOK
  BY DEF IInv
<1> QED
  BY <1>1, IInvAlways, PTL

(* A kernel stack is freed (clean_thread, by kthread_join or wait) only when  *)
(* its thread has left the processor for good.                               *)
THEOREM LifeFreedOffCpu == Spec => FreedOffCpu
<1> DEFINE Freed == \A t \in Slots : tid[t] # 0 /\ tid'[t] = 0 => pc[t] = "dead"
<1>1. ASSUME IInv, [Next]_vars PROVE [Freed]_vars
  <2> SUFFICES ASSUME NEW u \in Slots, tid[u] # 0, tid'[u] = 0 PROVE pc[u] = "dead"
    OBVIOUS
  <2>1. ASSUME NEW t \in Slots, JoinReap(t) PROVE pc[u] = "dead"
    <3>1. thread = t /\ pc[t] = "join" /\ u = target[t] /\ state[u] \in {"ZOMBIE", "UNUSED"} /\ u # t
      BY <1>1, <2>1 DEF JoinReap, At, Clean, IInv, TypeOK, Sound, SlotsAgree
    <3> QED
      BY <1>1, <3>1, Constants DEF IInv, Sound, Zombies, SlotsAgree, Real, Lent
  <2>2. CASE ParentReaps
    BY <1>1, <2>2, Constants DEF ParentReaps, IsZombie, IInv, Sound, Zombies, SlotsAgree, Real, Lent
  <2>3. ASSUME NEW t \in Slots, NEW v \in Slots, Create(t, v) PROVE FALSE
    BY <1>1, <2>3, MaxTidAssumption DEF Create, IInv, TypeOK
  <2>4. (\E t \in Slots : JoinReap(t) \/ \E v \in Slots : Create(t, v)) \/ ParentReaps \/ tid' = tid
    <3>1. ASSUME NEW t \in Slots, Call(t) PROVE (\E v \in Slots : Create(t, v)) \/ tid' = tid
      BY <3>1 DEF Call, Join, Wait, CreateNoMemory, KthreadExit, ExitCall, ExecBegin, Exits, ids
    <3>2. ASSUME NEW t \in Slots, Continue(t) PROVE JoinReap(t) \/ tid' = tid
      BY <3>2 DEF Continue, EntersKilled, OtherCall, Return, ReturnKilled, Exits, JoinSleep, WaitSleep, WaitEnd, Exit, ExitAgain, KillSwap,
         KillRestore, KillThread, KillLast, CloseEnd, ExecWoken, ExecEnd, MovesTo, ids
    <3>3. ASSUME NEW t \in Slots, DiskRequest(t) \/ ExecNoFile(t) \/ Tick(t) \/ Event(t) \/ Dispatch(t)
          PROVE  tid' = tid
      BY <3>3 DEF DiskRequest, ExecNoFile, Tick, TickExec, TickKills, TickExits, Exits, TickYields, Event, Dispatch,
         MovesTo, ids
    <3>4. Kill \/ ParentSleeps \/ UNCHANGED vars => tid' = tid
      BY DEF Kill, ParentSleeps, vars, ids
    <3> QED
      BY <1>1, <3>1, <3>2, <3>3, <3>4 DEF Next, Stops
  <2> QED
    BY <2>1, <2>2, <2>3, <2>4
<1> QED
  BY <1>1, IInvAlways, PTL DEF Spec, FreedOffCpu

(* No joiner sleeps on a thread that is dead, as long as killThread has not   *)
(* returned to a thread it should have ended.                                *)
THEOREM LifeJoinersWoken == Spec => []JoinersWoken
<1>1. IInv => JoinersWoken
  BY DEF IInv, Joiners, JoinersWoken
<1> QED
  BY <1>1, IInvAlways, PTL

(* Nor does the parent when all threads are.                                 *)
THEOREM LifeParentWoken == Spec => []ParentWoken
<1>1. IInv => ParentWoken
  BY DEF IInv
<1> QED
  BY <1>1, IInvAlways, PTL

(* The caller of exec sleeps only while another thread is to die, whatever    *)
(* killThread does to its state for its test.                                *)
THEOREM LifeExecWaitEnds == Spec => []ExecWaitEnds
<1>1. IInv => ExecWaitEnds
  BY DEF IInv
<1> QED
  BY <1>1, IInvAlways, PTL
=============================================================================
