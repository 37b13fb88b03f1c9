# Verification of the ariel-ami programs

The repository is a collection of course work: a teaching kernel in several
versions, a restaurant simulation, a chat server in two concurrency models and
their clients, and some sequential exercises. The parts with the hardest logic
are the ones added to the xv6 kernel in `xv6_ass2`: kernel threads, kernel
mutexes with direct hand-off, and two monitors (Mesa and Hoare) that user
programs build from these mutexes. The project models them, the life of the
threads below them, the restaurant and the reactor server.

## 1. Inventory

| Component | State | Operations | Interacts with | Hard behaviour | What makes it correct |
|---|---|---|---|---|---|
| kernel mutexes (`mutex.c`) | `mtable`: 64 slots (id, isUsed, isLocked, lockingThread, waitingThreadsQueue), `nextmutexid` | alloc, dealloc, lock, unlock, yieldlock | `sleep`, `wakeup1`, the queue of `linkedList.c`; user programs by system call | hand-off while other threads come in, spurious wakeups, slot reuse, `wakeup1` without `ptable.lock` | exclusion, FIFO hand-off, no orphan lock, no lost wakeup |
| waiting queue (`linkedList.c`) | 16 preallocated nodes | add, remove_first, clean_list | mutexes | running out of nodes | each waiter once; never full |
| sleep, wakeup, scheduler (`proc.c`) | `ptable`, thread states and channels | sleep, wakeup, sched, yield, scheduler, kill | everything that blocks | exchange of two spinlocks, preemption, several processors | no lost wakeup, no spin on one processor, sched's lock rule |
| Mesa condition (`mesa_cond.c`) | a locked inner mutex, a waiter count | wait, signal, alloc, dealloc | mutexes | counted but not queued; signals absorbed | monitor exclusion |
| Mesa monitor (`mesa_slots_monitor.c`, `slots_mesa.c`) | free slots, stop flag | addslots, takeslot, stopadding | Mesa condition | failure of a signal half way through | slots conserved, everybody served, the program ends |
| Hoare condition (`hoare_cond.c`) | as Mesa | wait, signal (by yieldlock), alloc, dealloc | mutexes | wait is two system calls | the monitor goes from signaller to waiter |
| Hoare monitor (`hoare_slots_monitor.c`, `slots_hoare.c`) | as Mesa | as Mesa | Hoare condition | the same, and the signaller's return | as Mesa, and the condition holds on waking |
| thread life cycle (`kthread.c`, `exec.c`, `proc.c`, `trap.c`) | thread table in each process, killed, isDying, isPendingExec | create, exit, join, wait, killThread, exec | scheduler, mutexes | two exits, ZOMBIE set without a lock, exec waiting once | each thread reaped once, exit completes |
| software TLB (`xv6_ass3`) | cached translations | page fault, switch of address space | paging | stale entries, bounds | cache agrees with page table |
| procfs (`xv6_ass4`) | none of its own | read a directory or a file | process table | process gone while read, fixed size buffer | entries name live processes |
| schedulers and job control (`xv6_bgu`) | queues, priorities, groups | scheduling policies, waitpid, foreground | process table | a lock released inside a wait | no child waited for twice |
| restaurant (`Ass3B`) | orders, chef pressure, bell, latches, delivery queue | give order, cook, deliver, stop | threads, monitors, semaphores | notify before wait, unsynchronised counters | every order delivered, shutdown completes |
| reactor server (`ReactorServer`) | users, topics, unread messages, output buffers | connect, subscribe, send, disconnect | selector thread and a pool | tasks of several connections over shared tables | each follower gets each tweet once |
| thread-per-client server | as the reactor server | the same | a thread for each client | the same | the same |
| clients, coffee shop, warehouse exercise, graphics | | | | sequential or pure input and output | |

## 2. Modules

| Module | Models | Role |
|---|---|---|
| `FifoMutex` | what `mutex.c` promises | abstract specification, and the base of the monitors |
| `KMutex` | `mutex.c` with `sleep`, `wakeup1`, `scheduler`, `yield`, `kill` of `proc.c`, and the lock order of `kthread_join`/`clean_thread` | detailed specification |
| `MesaCond`, `MesaSlots` | `mesa_cond.c`, `mesa_slots_monitor.c`, `slots_mesa.c` | a program over `FifoMutex` |
| `HoareCond`, `HoareSlots` | `hoare_cond.c`, `hoare_slots_monitor.c`, `slots_hoare.c` | a program over `FifoMutex` |
| `ThreadLife` | `kthread.c`, `exec.c`, `trap.c`, and exit, wait, kill, killThread, sched of `proc.c` | one process, a thread table and a processor |
| `Kitchen` | `Warehouse`, `KitchenTool`, `RunnableCookOneDish` | base of the restaurant |
| `Restaurant` | `Management`, `RunnableChef`, `CallableCookWholeOrder`, `RunnableDeliveryPerson` | composes the kitchen with everybody else |
| `Reactor` | `Reactor`, `ConnectionHandler`, `ProtocolTask` | base of the server |
| `Tweeter` | `TweeterProtocol`, `User`, `Topic` and their databases | the protocol run by the reactor |
| `MC...` (six) | | the small instances TLC checks |
| `KMutex_proofs`, `KMutexOneCpu_proofs`, `KMutexFifo_proofs`, `MesaSlots_proofs`, `HoareSlots_proofs`, `ThreadLife_proofs`, `Restaurant_proofs`, `Tweeter_proofs` | | theorems and proofs |

### KMutex and the code

Two spinlocks matter, `mtable.lock` and `ptable.lock`; the variables `mtable` and
`ptable` hold the thread inside each. A stretch of code under `mtable.lock` that
does not sleep is one action (`Alloc`, `Dealloc`, `LockFree`, `Unlock`,
`YieldHandOver`, `YieldUnlock`): nobody else can see its middle. A lock call that
must wait is cut where the locks change hands:

| `pc` | The thread is | Action that leaves it |
|---|---|---|
| `user` | in user mode | the calls, `ReapBegin` |
| `check` | at the `while` of `kthread_mutex_lock` (mutex.c:108), holding `mtable.lock` | `LockTake`, or `SleepExchange` (proc.c:531-532) |
| `sleep` | in `sleep()` holding only `ptable.lock` (proc.c:536-538) | `SleepSched` |
| `asleep` | off the processor, in `sleep()` after `sched()` | `Dispatch`, once made RUNNABLE |
| `reacquire` | at the last `acquire(lk)` of `sleep()` (proc.c:546) | `Reacquire` |
| `reap` | in `clean_thread`, `ptable.lock` held, about to take `mtable.lock` | `ReapEnd` |

`Unlock1` calls `Wakeup1` under `mtable.lock` only, as mutex.c:146 does, so that on
two processors it can run between `SleepExchange` and `SleepSched` of the waiter.
`Preempt` is the timer interrupt; it may hit a thread without a spinlock.
`lockingThread = None` is the null pointer. `held` is the client's
knowledge of what it owns, gained when lock returns (and, with yieldlock, when
the mutex is passed to a sleeper), lost at unlock, yieldlock.

The client is well behaved in two ways: it locks no mutex it owns (it would wait
for itself) and unlocks or yields only what it owns. `Unlock` of a mutex owned by
somebody else is what the condition variables do with their inner mutexes; it is
in `FifoMutex`, where `MesaCond` and `HoareCond` use it. Calls that return -1
change nothing and are not steps. `Kill` is the half of `kill()` that
matters to the mutexes, waking the sleepers whatever they sleep on; the
other half, leaving at the next return to user mode, is in `ThreadLife`.

### Monitors and the code

A monitor's thread is a `pc` through its program, one action for a system call
with the user code up to the next one. In `MesaSlots` a whole stretch between two
calls is atomic, which is sound while the monitor mutex protects it; that it does
is `MonitorExclusion`, checked in the same run. In `HoareSlots`, where the mutex
may fail to protect, the tests and the updates of `numOfFreeSlots` are
separate steps. `numOfThreadsWaiting` is incremented and decremented where the
code does it: before the waiter is queued, and after it is granted.
In `HoareSlots` any thread may run between any two system calls, between the `unlock`
(hoare_cond.c:54) and the `lock` (line 59) of a wait too. Most waits that are
interrupted there come to no harm: others enter, take slots, wait. Harm begins
when a signal comes in that gap and, finding the waiter counted but not queued,
lets go of the mutex instead of handing it over. The history variable `overtaken`
records that this has happened; it is never read by an action.

### ThreadLife and the code

One process on one processor. Interrupts are off under `ptable.lock` and in an
interrupt handler, so such a stretch is one action. IDT entry 64 is a trap gate:
a system call without a spinlock can be interrupted, and `killThread` and the end
of `exit()` run without one (proc.c:281-333). A thread's place (`pc`) there:

| `pc` | The thread is | Code |
|---|---|---|
| `user`, `call`, `ret`, `exit` | in user mode; about to do a system call after an `exit()` that returned; at the end of `trap()`; about to call `exit()` | trap.c:36-47, 97-115 |
| `join`, `sleep`, `read` | in the loop of `kthread_join`, of `sys_sleep`, of a pipe, the console or `wait()` | kthread.c, sysproc.c |
| `dying` | ZOMBIE, at the head of `killThread` | proc.c:287 |
| `swap` | in the test that lends the exec caller the state ZOMBIE | proc.c:290-303 |
| `closing`, `closeIO` | the last thread, closing the files; it may sleep | proc.c:315-333 |
| `execWait`, `image`, `imageIO` | in `exec`: asleep for the other threads; making the image | exec.c:51-160 |
| `dead` | off the processor for good, until reaped | |

`Tick` is the timer interrupt: in trap.c:97-115 it kills a killed thread wherever it
is, exits a killed process in user mode, else yields. `thread = None` stands for
another process on the processor, which may call `kill`, or the parent in `wait`.
`undead` records that `killThread` has returned to somebody, as it does while an
exec is pending: from then on a ZOMBIE runs, and the promises about those who wait
are not made. `exit()` itself returns then, and `back` says to what: to the system call
that the thread came to do (trap.c:41), to the end of `trap()` or to user mode. `io[t]` is true until what `t` waits for has happened. A panic stops
the model. Left out: children and initproc, and the memory a fork or exec copies.

What the runs with all calls also confirm, which is why the invariants say "unless":
killing a process with two threads in system calls panics in `sched()`; so does
`killThread` of a last thread that sleeps while it closes files; a thread created
after the sweep of `exit` or `exec` is not killed; `exec` goes on while others live
when anything wakes it. None of these contradicts a sentence of the repository.

### Restaurant and the code

A Java monitor is a `wait` place and a `Notify`; `wait()` may return without one
(`Spurious`). What two threads share without a lock is read and written in two
steps: `_currentPressure` (`MgmtAsk`/`MgmtTake`, `ChefLook`/`ChefDeduct`) and the
`LinkedList` of pending orders, whose `size` field and links are two variables:
when the management adds while the chef polls, each may miss the other's update.
Three history variables tell the races apart: `raced`, a list or its size was spoiled;
`broken`, the chefs whose list was left without a first node, so that later orders
cannot be reached either; `overwrote`, a change of a pressure was lost.
`ChefDies` is the null that `poll()` returns from a list with a size and no node. The
latches are guards on the places of those who count them down. `Kitchen` has a thread
for each unit of a dish: it acquires its tools in the order of their names and puts
them back. A semaphore of Java is not fair: a thread that finds enough permits takes
them past those that are parked (`TakeTool`), one that does not is parked at the end of
the line (`JoinLine`) and tries again only at its head. `CooksGoOn` says that the order
of the tools keeps the cooks from waiting for each other in a
circle. Ingredients are subtracted and never waited for; they are left out.

### Reactor, Tweeter and the code

The selector thread reads frames and queues a task (`Read`), writes one buffer at a
time (`Write`), or sees the connection broken (`ReadEnd`). A pool thread takes a task
and enters its synchronized `run()` (`TakeTask`, `Enter`). `Protocol` has one action for
each access to what other tasks write: a registration, the new topic, its first
follower, the flag and the handler of a login, each half of a step of the iteration
over a topic's followers (`HasNext`, `Iterate`) and of the search in `removeUser` (`RemoveScan`,
`RemoveCompare`), the subscription of a follower, its flag, its handler and the
delivery. A stranger, one who has not connected, gets an error or an exception
(`DisconnectError`, `Stranger`, `SubscribeUnknown` and `NullTopic`); a user that gives a wrong
password is turned away like one that is logged in (`ConnectError`); an id in use
gets a second error (`SubscribeTwice`) or leaves the entries as they are (`AddTopic`).
A frame is its number in the client's script. `passed` records a tweet and a follower when the
iteration over the followers ended without an exception and without a change.

The model shows what the words of `NoTweetLost` leave open. A tweet in the output buffer
of a connection that has broken counts as on its way. An iteration that is
disturbed throws (or ends early when the last but one was removed) and misses the
followers behind, and so does one that meets a follower logged in without a handler; a message stored after a login has emptied the unread ones waits
for the next login; two subscriptions deliver a tweet twice; a dropped connection
leaves its user logged in, and later tweets to it throw.

## 3. Runs

| Run | Instance | Question and answer |
|---|---|---|
| `kmutex_up` | 3 threads, 1 processor (what the Makefile builds, `CPUS := 1`), 2 slots, 3 ids, all calls with kill and reap | Do the mutexes exclude, keep their queues, obey sched's lock rule and lose no wakeup? They do, and a thread never spins. |
| `kmutex_smp` | the same on 2 processors, without kill | Does the inductive invariant of the proofs hold, and does the code implement `FifoMutex`? Yes, even where a wakeup is lost: safety does not depend on it. |
| `kmutex_live` | 3 threads, 1 processor, 1 slot, fair | Does every lock call return and every release reach the first waiter? Yes. |
| `kmutex_smp_wakeup` | 2 processors | *Violation* of `NoLostWakeup`: finding 1. |
| `mesa_slots` | 3 students, the grader, main; slots added by 2; fair | Does the monitor exclude, are slots neither lost nor oversold, does success mean a slot, does the program end? Yes. |
| `mesa_served` | the same | *Violation* of `EveryStudentServed`: finding 2. |
| `hoare_slots` | the same, the timer anywhere | Is every student served? Yes, always. Does the monitor exclude, keep its slots, does a waiter find the condition it waited for, does the program end? Yes, until a signal overtakes a waiter between its two calls. |
| `hoare_exclusion` | the same | *Violation* of `MustHoldMutex`, the same without that condition: finding 3. |
| `thread_life` | 3 thread slots, 3 ids, every call, ticks, kill, a parent | Is a stack freed only off the processor, and are joiners, the parent and the caller of exec woken? Yes, unless `killThread` has returned to somebody. |
| `thread_life_tick` | 2 slots, create, join, sleep, exec; fair | *Violation* of `GivesUpCpu`: finding 4. |
| `restaurant` | 2 chefs of endurance 2 and 1, 3 orders, 4 dishes, 2 tools, a delivery person; fair | Is no order lost or doubled, the bell not missed, are the cooks never deadlocked over the tools, and does the restaurant close? Yes, but for a race of a chef with the management, on its list or its pressure, or a notification missed by a chef; only the first can lose an order. |
| `tweeter` | 2 clients, a pool of 2, 4 scenarios; fair | Do answers keep the order of their frames, is no tweet of an undisturbed iteration lost, does the server come to rest? Yes. |

**Bounds.** Three threads are an owner, a waiter at the head and one behind it,
the fewest for overtaking and for a hand-off with a newcomer. Two slots and two
mutexes nested (`MaxHeld`) are what `yieldlock` relates; three ids (`MaxId`) with
two slots make a slot be reused under a new id. `MaxHeld` bounds the client and
`MaxId` the ids handed out; nothing else is cut. `LINKED_LIST_SIZE` is the number
of threads, so a queue fills up. Three students with two slots at a time make
the grader add twice, leave a slot over at the end and let it wait while slots
remain. `slots_mesa.c` has ten and three. In `thread_life` three slots are an
exiting thread, a joiner and one that is created meanwhile, or the caller of exec
and two that die; ids (`MaxTid`) are not reused in the code either, so they bound the
creations. That a new thread takes a slot while a second joiner still waits for the
old one needs a fourth id, and 2.8 million states: it is left to the proofs, which
have no bound on ids. In `restaurant` the second
chef takes only the easy orders and the tools are shared by dishes of
different orders, so that orders are refused, the bell is used and cooks wait for
each other. In `tweeter` a scenario gives each client at most three frames: a
follower that follows and unfollows during a tweet, a user that leaves and comes back
and one that breaks off while it is mentioned, by an author who need not have
connected, and a stranger that disconnects and follows.

**Deadlock** is checked except in `kmutex_smp`, where the system really stops:
a wakeup lost on two processors leaves everybody waiting, and `kthread_join`
(`ptable.lock`, then `mtable.lock`) meets `sleep` (the other order). `kmutex_up`
shows that neither happens on one processor. The Mesa monitor ends in a state that
stutters. In `hoare_slots` it is off, for once a signal has overtaken a waiter threads may
wait for each other for ever; before that a deadlock would violate `Terminates`. It is off in `thread_life` and `thread_life_tick`, where threads may join
or wait for what never comes; in `restaurant`, where a chef that died keeps the
management in its latch; and in `tweeter`, which is done when the clients are.

**Fairness.** In `KMutex`: a thread in a kernel section goes on (interrupts are off,
so it keeps the processor); `scheduler()` scans the whole table, so a thread that
is runnable again and again is dispatched (strong, for another may be chosen
first); the timer keeps ticking and its interrupt stays pending; a thread gets
`mtable.lock` on waking in the time of a slice; and the client releases what it
owns. The last is a demand on programs, the others are the hardware and the
scheduler loop. In the monitors each thread is run again and again (weak
fairness of its steps), which is what the scheduler gives runnable threads;
a thread asleep in a lock has no step enabled, and `HandsOver` and
`LockReturns` are what makes it runnable. In `ThreadLife` a thread goes on in the
kernel, the clock ticks, devices answer and `scheduler()` dispatches (strong, as
above); no program is asked to make a call or end one. In `Restaurant` the
management, each chef, the cooks together and the delivery persons together take
steps while they can (weak: the JVM runs its threads; the last two are groups, which
is less than each thread by itself); `Spurious` has no fairness, for no program may
count on it. In `Tweeter` the selector and the pool take some step while one is
possible, the weakest assumption; connections need not break.

## 4. Findings

1. `kthread_mutex_unlock1` (mutex.c:146) calls `wakeup1` without `ptable.lock`, against
   the comments at proc.c:526-529 and proc.c:552. On two processors the wakeup can
   fall between the two halves of the waiter's `sleep`, and the waiter sleeps on.
2. A student may leave `takeslot` with -1, unserved and without having waited,
   against "waiting if no free slots" (mesa_slots_monitor.c:131): the grader is
   counted in `numOfThreadsWaiting` but not yet queued, and an earlier signal has
   unlocked the inner mutex, so the next signal fails.
3. A waiter preempted inside `hoare_cond_wait` between its two system calls, and
   signalled there, comes back without the monitor mutex and goes on to signal
   without it, against "MUST HOLD mutex_id for this" (hoare_cond.c:70). Slots can
   then be oversold as well, and threads wait for each other for ever.
4. While the caller of exec sleeps, `killThread` returns (proc.c:297, 302). Called by
   a clock tick it leaves the thread a ZOMBIE in user mode, and trap.c:109 yields only
   a RUNNING one: it keeps the processor for ever, against "Force thread to give up
   CPU on clock tick" (trap.c:107).

## 5. Proofs

The theorems about `KMutex` hold for every set of threads and processors and every
number of slots and ids, under the assumptions the module names: `None` is no thread;
`MAX_MUTEXES`, `MaxId`, `MaxHeld` and `LINKED_LIST_SIZE` are numbers; there are
finitely many threads, no more than a queue has nodes (`NTHREAD` and
`LINKED_LIST_SIZE` are both 16, so this is true of the threads of one process;
`mtable` is global and would let other processes queue up too); and with `kill` among the calls there is one
processor.

* `KMutex_proofs`. `MutualExclusion` is not inductive: that `LockTake` takes nothing
  from another thread's `held` depends on who is recorded as owner, and that on
  names and slots. `IInv` adds where each thread is with respect to the spinlocks
  (`SpinlockControl`), that a thread in a lock call is in one queue once
  (`QueuedOnce`), that ids are unique and never reused (`IdsUnique`), that a locked
  slot is in use and is locked exactly while it has an owner or a waiter, and that
  `held` and `lockingThread` agree both ways (`HeldIsOwned`, `OwnerHolds`). One
  lemma for each action shows that `IInv` is kept; `Invariant` puts them together.
  From it follow `TypeCorrect`, `Exclusion`, `Ownership`, `NoOrphans`,
  `QueuedExactlyOnce`, `SchedLocks`, and, by counting the threads of a queue,
  `QueuesFit`.
* `KMutexOneCpu_proofs`. With one processor `OneCpuInv` is inductive: whoever is in a
  critical section is RUNNING, so nobody else runs, so what it saw under
  `mtable.lock` still holds when it sleeps (`SleepIsJustified`). `NoWakeupLost` and
  `NoSpinning` follow. The run `kmutex_smp_wakeup` shows that the hypothesis is
  needed.
* `KMutexFifo_proofs`. `Implements`: under the mapping of lockingThread to `owner` and
  waitingThreadsQueue to `waiting`, each action of `KMutex` is an `Ask`, `Grant`,
  `Release` or `Yield` of `FifoMutex` or leaves it unchanged. `isLocked` has no
  counterpart: `NoOrphanLock` says that it is `Locked`.

* `MesaSlots_proofs`, for every number of students and any `n` above 0. A condition's
  counter is the number of its waiters (`Counts`) and a thread has a condition exactly
  while it waits (`CondPlace`): so a signal never takes the counter below zero, which
  is part of `TypeOK`. `MesaMonitorExclusion` is inductive with the types;
  `MesaSlotsConserved` and `MesaSuccessMeansSlot` need who may have taken a slot.
* `HoareSlots_proofs`, for every number of students and any `n` above 0, with the timer
  anywhere. Two theorems hold of every state: `HoareTypeCorrect` and
  `HoareEveryStudentServed`, which need little more than who may have taken a slot
  (`Loose`). The others hold until a signal overtakes a waiter, and `hoare_exclusion`
  shows that they hold no longer; their invariant follows the hand-over, with a
  waiter between its two calls as one more place to be in: the queue of an inner mutex holds waiters of that condition, each once (`Queues`); while a
  waiter may pass its inner mutex the monitor's mutex is already its own
  (`HandOff`, `Yielded`), and meanwhile what it waits for stays true (`Kept`). From it
  follow `HoareMonitorExclusion`, `HoareSlotsConserved` and the action property `HoareSignalKeepsCondition`.
* `ThreadLife_proofs`, for every size of the thread table. The difficulty is the
  state that `killThread` lends to the caller of exec (proc.c:290-303): the invariant speaks
  of the state it will get back (`Real`, `Lent`). A ZOMBIE in that sense is
  dead or on the processor (`Zombies`), state, id and place agree on what is free
  (`SlotsAgree`), one exec at a time borrows (`Borrowed`, `OneExec`), and until
  `killThread` has returned to somebody a ZOMBIE on the processor is on its way out
  (`OnWayOut`). `LifeFreedOffCpu` is an action property; `LifeJoinersWoken`,
  `LifeParentWoken` and `LifeExecWaitEnds` are the wakeups.
* `Restaurant_proofs`, for all orders, dishes, tools, chefs and delivery persons, under
  the module's assumptions: the orders differ, some chef may take each of them, there
  are a chef and a delivery person, no dish needs more of a tool than there is, and the
  units of dishes belong to one order each (`call()` starts a thread for each).
  - `RestaurantTypeCorrect`: a sum over the dishes that hold a tool is counted as the
    pairs (dish, unit) lent, a finite set whose size and the semaphore add up to the
    quantity (`KitchenInv`). The pressures need more than their own bound: what the
    management and a chef have read, and will write a step later, is bounded too
    (`MgmtTypes`, `ChefTypes`).
  - `RestaurantOrderOnce`: an order has one holder (`Has`, `OneHolder`) and is in that
    holder's list once (`NoneTwice`); each action hands it from one holder to one
    other, and only a race of a poll and an add on a chef's list drops it (`Kept`).
  - `RestaurantCooksGoOn`: the cooks are not deadlocked over the tools. A cook holds tools
    only while it cooks, and each comes before those it still needs (`Sorted`), for
    which no dish may be started twice (`Unstarted`, by `OnceInv`). Of the cooks that
    wait, one at the head of the line for the highest tool (`Lines`) waits for a tool that
    is lent (by `KitchenInv`), to a cook that has no higher one to wait for.
  - `RestaurantAllDelivered`: the stages of closing (`EndInv`). Nothing is left to give
    when the chefs are told to stop; a chef goes home with nothing pending and no
    future; the poison is put behind every order, so a delivery person that reads it
    has left no order in the queue. With one holder for each order, it is delivered.
  - `RestaurantBellNotMissed` needs that a chef already passed in the scan, and able to
    take the order by now, has rung the bell since it was reset or will
    (`ScannedRing`).
* `Tweeter_proofs`, for any users, threads and scenarios. `IInv` is the types together
  with three facts. Control: the tasks of one connection run one at a time, and a task
  stands at the frame it read, in a place that only a registered user reaches
  (`Registered`) or anybody. Iterations (`Reaches`): an
  undisturbed iteration over the followers of a topic has reached each follower it
  owes the tweet, will still come to it, or is at one of the steps of handing the
  tweet over (`ToFollower`); otherwise
  the follower has unfollowed. Order: a follower's entry in `entries` comes back only
  by the follower's own task, whose change of `followers` then disturbs the iteration.
  From these `TweeterTypeCorrect` and `TweeterNoTweetLost`. `TweeterRepliesInOrder` needs
  `OrderInv`: the frames of a connection still to be handled, read or not, rise
  (`Stream`); the answers its client has or will get rise, two to a frame at most
  (`Outcome`), and lie below them; and a thread that has still to answer is at a frame between the two. As tasks
  of one connection run one at a time, no other thread is between them.

Every invariant and every action property that a passing run checks is a theorem.
Only model-checked: liveness (`LockReturns`, `HandsOver`, `Terminates`, `Closes`,
`Settles`), which the prover does not reach. `GivesUpCpu` is refuted, not proved; that a
process with a dying thread ends was not checked at all, its state graph with fairness
is too large.

## 6. Not modelled

The components table of `PROJECT.json` gives the reason for each part.

* The links of `linkedList.c`: the queue of a mutex is a sequence, and only its
  capacity is a property.
* `xv6_ass3` (a cache of translations), `xv6_ass4` (procfs), the schedulers of `xv6_bgu`,
  `xv6_old2`: separate kernels, next in the plan in this order.
* The rest of `xv6_ass2` is the xv6 the assignment started from.
* The thread-per-client server: the same protocol, with threads that write to the
  sockets themselves. Its model would reuse `Tweeter` with another base than `Reactor`.
* In `Tweeter`: two clients of one user, one topic followed under two ids, the commands
  of the user "server", statistics. Two users that unfollow a third at the same time
  (Topic.java:25) are in the model, but their scenario has millions of states and is
  not in the run.
* Clients, coffee shop, warehouse exercise and graphics: sequential programs.
