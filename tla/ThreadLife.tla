----------------------------- MODULE ThreadLife -----------------------------
(***************************************************************************)
(* The life of the threads of one process of xv6_ass2: create, exit, join, *)
(* exec, kill and wait (kthread.c, proc.c, exec.c) with the trap return    *)
(* (trap.c), on one processor as the Makefile builds it.  What runs under  *)
(* ptable.lock, or in an interrupt handler, is one step: interrupts are    *)
(* off.  A system call without a spinlock is interruptible (IDT entry 64   *)
(* is a trap gate), so it is cut where an interrupt changes its course.    *)
(***************************************************************************)
EXTENDS Naturals

CONSTANTS NTHREAD,  \* slots of the process's thread table
          None, IO, \* the null pointer, the channel of anything outside the process
          MaxTid,   \* bound of the run: thread ids handed out
          Calls     \* the calls the client and others make (a profile)

ASSUME NTHREADAssumption == NTHREAD \in Nat \ {0}
ASSUME MaxTidAssumption == MaxTid \in Nat \ {0}
Slots == 1..NTHREAD
ASSUME NoneAssumption == None \notin Slots /\ IO \notin Slots \cup {None}

VARIABLES
  state, chan, tid, killed,            \* struct thread
  procKilled, isDying,                 \* struct proc: killed, isDying
  isPendingExec, threadThatCalledExec,
  nexttid,
  thread,      \* the thread on the processor; None: another process or nobody
  pc, target,  \* place of a thread in the kernel, the slot it joins
  intr,        \* interrupts are enabled where the thread is
  io,          \* what the thread waits for has not happened yet
  prev,        \* previousState of killThread
  back,        \* where exit() returns to if killThread returns: the system call, its end, user mode
  parent,      \* the parent process: about to wait(), asleep in it, or done
  undead,      \* killThread has returned to somebody
  panicked

procState == <<procKilled, isDying, isPendingExec, threadThatCalledExec>>
sched == <<state, chan, thread>>
ids == <<tid, nexttid, target>>
rest == <<io, prev, back, parent, panicked>>
vars == <<sched, ids, killed, procState, pc, intr, undead, rest>>

(* fork made the process with one thread. *)
Init ==
  /\ state = [t \in Slots |-> IF t = 1 THEN "RUNNABLE" ELSE "UNUSED"]
  /\ chan = [t \in Slots |-> None]
  /\ tid = [t \in Slots |-> IF t = 1 THEN 1 ELSE 0]
  /\ killed = [t \in Slots |-> FALSE]
  /\ procKilled = FALSE /\ isDying = FALSE
  /\ isPendingExec = FALSE /\ threadThatCalledExec = None
  /\ nexttid = 2
  /\ thread = None
  /\ pc = [t \in Slots |-> IF t = 1 THEN "user" ELSE "none"]
  /\ target = [t \in Slots |-> None]
  /\ intr = [t \in Slots |-> TRUE]
  /\ io = [t \in Slots |-> FALSE]
  /\ prev = [t \in Slots |-> "UNUSED"]
  /\ back = [t \in Slots |-> "ret"]
  /\ parent = "ready"
  /\ undead = FALSE
  /\ panicked = FALSE

-----------------------------------------------------------------------------
(* isZombie, of the states st. *)
IsZombie(st) == \A t \in Slots : st[t] \in {"ZOMBIE", "UNUSED"}

(* wakeup1(c), of the states st. *)
Wakeup1(st, c) ==
  [t \in Slots |-> IF st[t] = "SLEEPING" /\ chan[t] = c THEN "RUNNABLE" ELSE st[t]]

(* The thread on the processor is at p; a panic stops everything. *)
At(t, p) == thread = t /\ pc[t] = p /\ ~panicked

GoTo(t, p) == pc' = [pc EXCEPT ![t] = p]

(* A step that only moves the thread on. *)
MovesTo(t, p) ==
  /\ GoTo(t, p)
  /\ UNCHANGED <<sched, ids, killed, procState, intr, undead, rest>>

(* sleep(c): to come back at p. *)
SleepAt(t, c, p) ==
  /\ state' = [state EXCEPT ![t] = "SLEEPING"]
  /\ chan' = [chan EXCEPT ![t] = c]
  /\ thread' = None
  /\ GoTo(t, p)

(* clean_thread of the slots in S.  The memset clears the rest. *)
Clean(S) ==
  /\ state' = [t \in Slots |-> IF t \in S THEN "UNUSED" ELSE state[t]]
  /\ tid' = [t \in Slots |-> IF t \in S THEN 0 ELSE tid[t]]
  /\ killed' = [t \in Slots |-> t \notin S /\ killed[t]]
  /\ chan' = [t \in Slots |-> IF t \in S THEN None ELSE chan[t]]

(* To exit(), which may return to p. *)
Exits(t, p) ==
  /\ GoTo(t, "exit")
  /\ back' = [back EXCEPT ![t] = p]
  /\ UNCHANGED <<sched, ids, killed, procState, undead, io, prev, parent, panicked>>

(* A system call from user mode; trap() makes a killed process exit first, ... *)
Enters(t, call) == ((At(t, "user") /\ ~procKilled) \/ At(t, "call")) /\ call \in Calls

EntersKilled(t) ==
  /\ At(t, "user") /\ procKilled
  /\ Exits(t, "call") /\ UNCHANGED intr

(* ... and goes on with the call, which may change nothing, if exit returns. *)
OtherCall(t) ==
  /\ At(t, "call") /\ MovesTo(t, "ret")

(* The end of trap(): a killed process exits, else back to user mode. *)
Return(t) ==
  /\ At(t, "ret") /\ ~procKilled /\ GoTo(t, "user")
  /\ intr' = [intr EXCEPT ![t] = TRUE]
  /\ UNCHANGED <<sched, ids, killed, procState, undead, rest>>

ReturnKilled(t) ==
  /\ At(t, "ret") /\ procKilled
  /\ Exits(t, "user") /\ UNCHANGED intr

-----------------------------------------------------------------------------
(* Mutant: the new thread is left EMBRYO. *)
CreateEmbryo(t, u) ==
  /\ Enters(t, "create") /\ nexttid <= MaxTid
  /\ state[u] = "UNUSED" /\ \A v \in Slots : state[v] = "UNUSED" => u <= v
  /\ state' = [state EXCEPT ![u] = "EMBRYO"]
  /\ tid' = [tid EXCEPT ![u] = nexttid]
  /\ nexttid' = nexttid + 1
  /\ killed' = [killed EXCEPT ![u] = FALSE]
  /\ chan' = [chan EXCEPT ![u] = None]
  /\ pc' = [pc EXCEPT ![t] = "ret", ![u] = "user"]
  /\ intr' = [intr EXCEPT ![u] = TRUE]
  /\ UNCHANGED <<thread, target, procState, undead, rest>>

(* kthread_create in the first UNUSED slot; with none it returns -1. *)
Create(t, u) ==
  /\ Enters(t, "create") /\ nexttid <= MaxTid
  /\ state[u] = "UNUSED" /\ \A v \in Slots : state[v] = "UNUSED" => u <= v
  /\ state' = [state EXCEPT ![u] = "RUNNABLE"]
  /\ tid' = [tid EXCEPT ![u] = nexttid]
  /\ nexttid' = nexttid + 1
  /\ killed' = [killed EXCEPT ![u] = FALSE]
  /\ chan' = [chan EXCEPT ![u] = None]
  /\ pc' = [pc EXCEPT ![t] = "ret", ![u] = "user"]
  /\ intr' = [intr EXCEPT ![u] = TRUE]
  /\ UNCHANGED <<thread, target, procState, undead, rest>>

(* kthread_create without memory returns with ptable.lock held: the wakeup   *)
(* of the next clock tick acquires it again, and acquire() panics.           *)
CreateNoMemory(t) ==
  /\ Enters(t, "nomem") /\ \E u \in Slots : state[u] = "UNUSED"
  /\ panicked' = TRUE
  /\ UNCHANGED <<sched, ids, killed, procState, pc, intr, undead, io, prev, back, parent>>

(* kthread_join: the thread is found by its id, which the client has if it   *)
(* is a younger one (no two threads join each other).                        *)
Join(t, u) ==
  /\ Enters(t, "join")
  /\ state[u] # "UNUSED" /\ tid[u] > tid[t]
  /\ target' = [target EXCEPT ![t] = u]
  /\ GoTo(t, "join")
  /\ UNCHANGED <<sched, tid, nexttid, killed, procState, intr, undead, rest>>

(* Its loop, under ptable.lock. *)
JoinSleep(t) ==
  /\ At(t, "join") /\ state[target[t]] \notin {"UNUSED", "ZOMBIE"}
  /\ SleepAt(t, target[t], "join")
  /\ UNCHANGED <<ids, killed, procState, intr, undead, rest>>

(* Mutant: the loop is an if, so any wakeup ends it. *)
JoinReapAny(t) ==
  /\ At(t, "join")
  /\ Clean({target[t]})
  /\ pc' = [pc EXCEPT ![target[t]] = "none", ![t] = "ret"]
  /\ target' = [target EXCEPT ![t] = None]
  /\ UNCHANGED <<thread, nexttid, procState, intr, undead, rest>>

(* Its end: clean the dead thread, unless another joiner did. *)
JoinReap(t) ==
  /\ At(t, "join") /\ state[target[t]] \in {"UNUSED", "ZOMBIE"}
  /\ Clean({target[t]})
  /\ pc' = [pc EXCEPT ![target[t]] = "none", ![t] = "ret"]
  /\ target' = [target EXCEPT ![t] = None]
  /\ UNCHANGED <<thread, nexttid, procState, intr, undead, rest>>

(* A call that waits for something outside the process: sys_sleep, or a read *)
(* of a pipe or the console, or wait().                                      *)
Wait(t, call) ==
  /\ Enters(t, call) /\ call \in {"sleep", "read"}
  /\ io' = [io EXCEPT ![t] = TRUE]
  /\ GoTo(t, call)
  /\ UNCHANGED <<sched, ids, killed, procState, intr, undead, prev, back, parent, panicked>>

(* Its loop gives up when the thread (sys_sleep) or the process (the others) *)
(* is killed; a disk request is waited for to the end.                       *)
GivesUp(t) ==
  \/ pc[t] = "sleep" /\ killed[t]
  \/ pc[t] = "read" /\ procKilled

WaitSleep(t) ==
  /\ \E p \in {"sleep", "read", "imageIO", "closeIO"} : At(t, p) /\ SleepAt(t, IO, p)
  /\ io[t] /\ ~GivesUp(t)
  /\ UNCHANGED <<ids, killed, procState, intr, undead, rest>>

WaitEnd(t) ==
  /\ \E p \in {"sleep", "read", "imageIO", "closeIO"} : At(t, p)
  /\ ~io[t] \/ GivesUp(t)
  /\ io' = [io EXCEPT ![t] = FALSE]
  /\ GoTo(t, CASE pc[t] = "imageIO" -> "image" [] pc[t] = "closeIO" -> "closing"
               [] OTHER -> "ret")
  /\ UNCHANGED <<sched, ids, killed, procState, intr, undead, prev, back, parent, panicked>>

-----------------------------------------------------------------------------
(* exit(), its section under ptable.lock, and the state that killThread sets. *)
ExitCall(t) ==
  /\ Enters(t, "exit")
  /\ Exits(t, "ret") /\ UNCHANGED intr

Exit(t) ==
  /\ At(t, "exit") /\ ~isDying
  /\ isDying' = TRUE
  /\ killed' = [u \in Slots |-> state[u] # "UNUSED"]
  /\ state' = [u \in Slots |-> IF u = t THEN "ZOMBIE"
                               ELSE IF state[u] = "SLEEPING" THEN "RUNNABLE" ELSE state[u]]
  /\ GoTo(t, "dying")
  /\ UNCHANGED <<chan, thread, ids, intr, undead, rest, procKilled, isPendingExec, threadThatCalledExec>>

(* sched(): a thread that is still RUNNING panics, else it leaves the        *)
(* processor for good.                                                       *)
SchedDead(t) ==
  IF state[t] = "RUNNING"
  THEN panicked' = TRUE /\ UNCHANGED <<thread, pc>>
  ELSE thread' = None /\ GoTo(t, "dead") /\ UNCHANGED panicked

(* exit() of a process that is dying calls sched() at once. *)
ExitAgain(t) ==
  /\ At(t, "exit") /\ isDying
  /\ SchedDead(t)
  /\ UNCHANGED <<state, chan, ids, killed, procState, intr, undead, io, prev, back, parent>>

(* kthread_exit. *)
KthreadExit(t) ==
  /\ Enters(t, "kthread_exit")
  /\ state' = [state EXCEPT ![t] = "ZOMBIE"]
  /\ GoTo(t, "dying")
  /\ back' = [back EXCEPT ![t] = "ret"]
  /\ UNCHANGED <<chan, thread, ids, killed, procState, intr, undead, io, prev, parent, panicked>>

(* killThread while an exec is pending: the caller of exec is made a ZOMBIE  *)
(* for the time of a test, without a lock ...                                *)
KillSwap(t) ==
  /\ At(t, "dying") /\ isPendingExec
  /\ prev' = [prev EXCEPT ![t] = state[threadThatCalledExec]]
  /\ state' = [state EXCEPT ![threadThatCalledExec] = "ZOMBIE"]
  /\ GoTo(t, "swap")
  /\ UNCHANGED <<chan, thread, ids, killed, procState, intr, undead, io, back, parent, panicked>>

(* Mutant: the wakeup comes before the state of the caller is restored. *)
WakeExecEarly(st, others) ==
  LET E == threadThatCalledExec
  IN  IF IsZombie(others) THEN [Wakeup1(others, chan[E]) EXCEPT ![E] = st[E]] ELSE st

(* ... and woken when all others are dead.  killThread returns: the thread   *)
(* stays on the processor, a ZOMBIE.                                         *)
WakeExec(st, others) ==
  IF IsZombie(others) THEN Wakeup1(st, chan[threadThatCalledExec]) ELSE st

KillRestore(t) ==
  /\ At(t, "swap")
  /\ state' = WakeExec([state EXCEPT ![threadThatCalledExec] = prev[t]], state)
  /\ GoTo(t, back[t]) /\ undead' = TRUE
  /\ intr' = [intr EXCEPT ![t] = @ \/ back[t] = "user"]
  /\ prev' = [prev EXCEPT ![t] = "UNUSED"]
  /\ back' = [back EXCEPT ![t] = "ret"]
  /\ UNCHANGED <<chan, thread, ids, killed, procState, io, parent, panicked>>

(* Mutant: a thread that dies wakes nobody. *)
KillSilent(t) ==
  /\ At(t, "dying") /\ ~isPendingExec /\ ~IsZombie(state)
  /\ thread' = None /\ GoTo(t, "dead")
  /\ UNCHANGED <<state, chan, ids, killed, procState, intr, undead, rest>>

(* killThread of a thread that is not the last: wake the joiners, sched(). *)
KillThread(t) ==
  /\ At(t, "dying") /\ ~isPendingExec /\ ~IsZombie(state)
  /\ state' = Wakeup1(state, t)
  /\ thread' = None /\ GoTo(t, "dead")
  /\ UNCHANGED <<chan, ids, killed, procState, intr, undead, rest>>

(* killThread of the last thread: close the files, ... *)
KillLast(t) ==
  /\ At(t, "dying") /\ ~isPendingExec /\ IsZombie(state)
  /\ MovesTo(t, "closing")

(* ... which may sleep (fileclose, begin_op, iput) as the body of exec may, ... *)
DiskRequest(t) ==
  /\ At(t, "closing") \/ At(t, "image")
  /\ io' = [io EXCEPT ![t] = TRUE]
  /\ GoTo(t, IF pc[t] = "closing" THEN "closeIO" ELSE "imageIO")
  /\ UNCHANGED <<sched, ids, killed, procState, intr, undead, prev, back, parent, panicked>>

(* Mutant: the parent is not woken. *)
CloseSilent(t) ==
  /\ At(t, "closing")
  /\ state' = Wakeup1(state, t)
  /\ SchedDead(t)
  /\ UNCHANGED <<chan, ids, killed, procState, intr, undead, io, prev, back, parent>>

(* ... then wake the parent and the joiners; sched(). *)
CloseEnd(t) ==
  /\ At(t, "closing")
  /\ parent' = "ready"
  /\ state' = Wakeup1(state, t)
  /\ SchedDead(t)
  /\ UNCHANGED <<chan, ids, killed, procState, intr, undead, io, prev, back>>

-----------------------------------------------------------------------------
(* exec(): mark the others killed, and sleep once if there are any. *)
ExecBegin(t) ==
  /\ Enters(t, "exec") /\ ~isPendingExec
  /\ isPendingExec' = TRUE /\ threadThatCalledExec' = t
  /\ killed' = [u \in Slots |-> killed[u] \/ (u # t /\ state[u] # "UNUSED")]
  /\ IF IsZombie([state EXCEPT ![t] = "ZOMBIE"])
     THEN GoTo(t, "image") /\ UNCHANGED <<sched>>
     ELSE SleepAt(t, t, "execWait")
  /\ UNCHANGED <<ids, intr, undead, rest, procKilled, isDying>>

ExecWoken(t) ==
  /\ At(t, "execWait") /\ MovesTo(t, "image")

(* The file has gone: exec returns and forgets to clear isPendingExec. *)
ExecNoFile(t) ==
  /\ At(t, "image") /\ MovesTo(t, "ret")

(* The new image is in place, or could not be made. *)
ExecEnd(t) ==
  /\ At(t, "image") /\ GoTo(t, "ret")
  /\ isPendingExec' = FALSE
  /\ UNCHANGED <<sched, ids, killed, intr, undead, rest, procKilled, isDying, threadThatCalledExec>>

-----------------------------------------------------------------------------
(* Interrupts are on and no spinlock is held. *)
Interruptible(t) ==
  /\ thread = t /\ intr[t] /\ ~panicked
  /\ pc[t] \in {"user", "call", "ret", "dying", "swap", "closing", "image"}

(* A clock tick runs killThread for a killed thread, in user mode or not,    *)
(* with interrupts off: while an exec is pending it returns ...              *)
TickExec(t) ==
  /\ Interruptible(t) /\ killed[t] /\ isPendingExec
  /\ LET st == [state EXCEPT ![t] = "ZOMBIE"]
     IN  state' = WakeExec(st, [st EXCEPT ![threadThatCalledExec] = "ZOMBIE"])
  /\ IF pc[t] = "user"
     THEN GoTo(t, "ret") /\ intr' = [intr EXCEPT ![t] = FALSE]
     ELSE UNCHANGED <<pc, intr>>
  /\ undead' = TRUE
  /\ UNCHANGED <<chan, thread, ids, killed, procState, rest>>

(* ... else the thread dies here, ... *)
TickKills(t) ==
  LET st == [state EXCEPT ![t] = "ZOMBIE"] IN
  /\ Interruptible(t) /\ killed[t] /\ ~isPendingExec
  /\ IF IsZombie(st)
     THEN /\ state' = st
          /\ GoTo(t, "closing") /\ intr' = [intr EXCEPT ![t] = FALSE]
          /\ UNCHANGED thread
     ELSE /\ state' = Wakeup1(st, t)
          /\ thread' = None /\ GoTo(t, "dead") /\ UNCHANGED intr
  /\ UNCHANGED <<chan, ids, killed, procState, undead, rest>>

(* ... a killed process exits, if the tick came in user mode ... *)
TickExits(t) ==
  /\ Interruptible(t) /\ ~killed[t] /\ procKilled /\ pc[t] = "user"
  /\ Exits(t, "ret") /\ intr' = [intr EXCEPT ![t] = FALSE]

(* ... and a RUNNING thread yields. *)
TickYields(t) ==
  /\ Interruptible(t) /\ ~killed[t] /\ ~(procKilled /\ pc[t] = "user")
  /\ state[t] = "RUNNING"
  /\ state' = [state EXCEPT ![t] = "RUNNABLE"]
  /\ thread' = None
  /\ IF pc[t] = "user"
     THEN GoTo(t, "ret") /\ intr' = [intr EXCEPT ![t] = FALSE]
     ELSE UNCHANGED <<pc, intr>>
  /\ UNCHANGED <<chan, ids, killed, procState, undead, rest>>

Tick(t) == TickExec(t) \/ TickKills(t) \/ TickExits(t) \/ TickYields(t)

(* What t waits for happens, and an interrupt handler wakes it if it sleeps. *)
Event(t) ==
  /\ io[t] /\ ~panicked
  /\ thread = None \/ \E u \in Slots : Interruptible(u)
  /\ io' = [io EXCEPT ![t] = FALSE]
  /\ state' = [state EXCEPT ![t] = IF @ = "SLEEPING" /\ chan[t] = IO THEN "RUNNABLE" ELSE @]
  /\ UNCHANGED <<chan, thread, ids, killed, procState, pc, intr, undead, prev, back, parent, panicked>>

(* scheduler(): run a RUNNABLE thread; it comes out of sched(). *)
Dispatch(t) ==
  /\ thread = None /\ state[t] = "RUNNABLE" /\ ~panicked
  /\ state' = [state EXCEPT ![t] = "RUNNING"]
  /\ chan' = [chan EXCEPT ![t] = None]
  /\ thread' = t
  /\ UNCHANGED <<ids, killed, procState, pc, intr, undead, rest>>

(* kill(), called by another process. *)
Kill ==
  /\ thread = None /\ ~panicked /\ "kill" \in Calls
  /\ ~procKilled /\ parent # "reaped"
  /\ procKilled' = TRUE
  /\ state' = [t \in Slots |-> IF state[t] = "SLEEPING" THEN "RUNNABLE" ELSE state[t]]
  /\ UNCHANGED <<chan, thread, ids, killed, pc, intr, undead, rest, isDying, isPendingExec, threadThatCalledExec>>

(* wait() of the parent: reap the process if all its threads are dead, ... *)
ParentReaps ==
  /\ thread = None /\ ~panicked /\ parent = "ready" /\ IsZombie(state)
  /\ Clean(Slots)
  /\ parent' = "reaped"
  /\ procKilled' = FALSE
  /\ pc' = [t \in Slots |-> "none"]
  /\ UNCHANGED <<thread, nexttid, target, intr, undead, io, prev, back, panicked, isDying, isPendingExec, threadThatCalledExec>>

(* ... else sleep. *)
ParentSleeps ==
  /\ thread = None /\ ~panicked /\ parent = "ready" /\ ~IsZombie(state)
  /\ parent' = "asleep"
  /\ UNCHANGED <<sched, ids, killed, procState, pc, intr, undead, io, prev, back, panicked>>

Over == parent = "reaped" \/ panicked
Stops == Over /\ UNCHANGED vars

(* System calls from user mode. *)
Call(t) ==
  \/ \E u \in Slots : Create(t, u) \/ Join(t, u)
  \/ \E call \in Calls : Wait(t, call)
  \/ CreateNoMemory(t) \/ KthreadExit(t) \/ ExitCall(t) \/ ExecBegin(t)

(* A thread goes on inside the kernel. *)
Continue(t) ==
  \/ EntersKilled(t) \/ OtherCall(t) \/ Return(t) \/ ReturnKilled(t)
  \/ JoinSleep(t) \/ JoinReap(t) \/ WaitSleep(t) \/ WaitEnd(t)
  \/ Exit(t) \/ ExitAgain(t) \/ KillSwap(t) \/ KillRestore(t) \/ KillThread(t) \/ KillLast(t)
  \/ CloseEnd(t) \/ ExecWoken(t) \/ ExecEnd(t)

Next ==
  \/ \E t \in Slots : Call(t) \/ Continue(t) \/ DiskRequest(t) \/ ExecNoFile(t)
                     \/ Tick(t) \/ Event(t) \/ Dispatch(t)
  \/ Kill \/ ParentReaps \/ ParentSleeps
  \/ Stops

Spec == Init /\ [][Next]_vars

(* The clock ticks, devices answer, scheduler() scans the whole table, and a *)
(* time slice is long enough for a stretch of a system call.                  *)
Fairness ==
  \A t \in Slots :
     /\ SF_vars(Continue(t))
     /\ SF_vars(Tick(t))
     /\ SF_vars(Event(t))
     /\ SF_vars(Dispatch(t))

FairSpec == Spec /\ Fairness

-----------------------------------------------------------------------------
InCall == {"user", "call", "ret", "join", "sleep", "read", "exit", "dying", "swap", "closing",
           "closeIO", "execWait", "image", "imageIO", "dead", "none"}

TypeOK ==
  /\ state \in [Slots -> {"UNUSED", "SLEEPING", "RUNNABLE", "RUNNING", "ZOMBIE"}]
  /\ chan \in [Slots -> Slots \cup {None, IO}]
  /\ tid \in [Slots -> 0..MaxTid]
  /\ killed \in [Slots -> BOOLEAN]
  /\ procKilled \in BOOLEAN /\ isDying \in BOOLEAN
  /\ isPendingExec \in BOOLEAN /\ threadThatCalledExec \in Slots \cup {None}
  /\ nexttid \in 1..(MaxTid + 1)
  /\ thread \in Slots \cup {None}
  /\ pc \in [Slots -> InCall]
  /\ target \in [Slots -> Slots \cup {None}]
  /\ intr \in [Slots -> BOOLEAN]
  /\ io \in [Slots -> BOOLEAN]
  /\ prev \in [Slots -> {"UNUSED", "SLEEPING", "RUNNABLE", "RUNNING", "ZOMBIE"}]
  /\ back \in [Slots -> {"call", "ret", "user"}]
  /\ parent \in {"ready", "asleep", "reaped"}
  /\ undead \in BOOLEAN /\ panicked \in BOOLEAN

(* A thread's stack is freed, by a joiner or by the parent, only when the   *)
(* thread has left the processor for good.                                  *)
FreedOffCpu ==
  [][\A t \in Slots : tid[t] # 0 /\ tid'[t] = 0 => pc[t] = "dead"]_vars

(* A joiner is not left asleep on a thread that is dead, until killThread has *)
(* returned to a thread that it should have ended (undead).                  *)
JoinersWoken ==
  ~undead =>
    \A t \in Slots : state[t] = "SLEEPING" /\ pc[t] = "join" => pc[target[t]] \notin {"dead", "none"}

(* Nor, until then, is the parent when all threads are dead. *)
ParentWoken ==
  ~undead /\ (\A t \in Slots : pc[t] \in {"dead", "none"}) => parent # "asleep"

(* The caller of exec is not left asleep when the other threads are dead:    *)
(* the last of them to die wakes it, though its state is lent for the test.   *)
ExecWaitEnds ==
  \A t \in Slots : state[t] = "SLEEPING" /\ pc[t] = "execWait" =>
     \E u \in Slots \ {t} : \/ state[u] \notin {"ZOMBIE", "UNUSED"}
                            \/ pc[u] \in {"dying", "swap"}

(* "Force thread to give up CPU on clock tick" (trap.c:107). *)
GivesUpCpu == \A t \in Slots : (thread = t /\ pc[t] = "user") ~> thread # t
=============================================================================
