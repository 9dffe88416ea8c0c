------------------------------- MODULE Marvin -------------------------------
(***************************************************************************)
(* Marvin, the preemptive kernel of systems/marvin: its scheduler          *)
(* (scheduler.c), semaphores (semaphore.c) and sleeping (time.c), over the *)
(* two interrupts of base/drivers/systick.c that drive it.                 *)
(*                                                                         *)
(* Three actors interleave on one CPU:                                     *)
(*   - the tick, the 1 ms timer interrupt, at the highest priority: it     *)
(*     may interrupt everything else between any two steps;                *)
(*   - the scheduler interrupt, at a lower priority, that the tick or a    *)
(*     task makes pending: it interrupts the running task as soon as it is *)
(*     pending, and runs scheduler_cb, which the tick may interrupt;       *)
(*   - the thread that task_current names: one of the tasks, or the idle   *)
(*     task.  The program counters pc are what the saved stacks hold.      *)
(*                                                                         *)
(* A step of a thread is the code between two accesses to what an          *)
(* interrupt handler reads or writes.  What a task does while it holds the *)
(* scheduler lock is one step, because the tick touches none of it and     *)
(* scheduler_cb returns at once while the lock is held.                    *)
(*                                                                         *)
(* The scheduler reads the clock only to compare it with a time it noted   *)
(* before, so the clock is modelled by those differences: "elapsed" since  *)
(* the last context switch, of which the code only asks whether it has     *)
(* reached the quantum, and "left" until an alarm, of which it only asks   *)
(* whether it is over and which of two is the sooner, one of them being    *)
(* the future one just computed.  Both stop where the answers do not       *)
(* change any more.  The wrap-around of the clock after 49 days is not     *)
(* modelled here.                                                          *)
(***************************************************************************)
EXTENDS MarvinList, FiniteSets

CONSTANTS
    Task,       \* the tasks, other than the idle task, that main() creates
    Idle,       \* sched_state.task_idle
    NULL,       \* the null task
    Sem,        \* the semaphores that may exist
    NoSem,      \* the semaphore of a call that has none
    Created,    \* the tasks in the order of their mv_scheduler_create_task
    BootCount,  \* the count of each semaphore main() creates before starting
    Program,    \* the calls that the code of each task may make
    Quantum,    \* TASK_EXECUTION_QUANTUM, in milliseconds
    MaxSleep,   \* bound: the longest sleep, in milliseconds
    MaxCount    \* bound: no task increments a semaphore that has this count

Thread == Task \cup {Idle}

Kinds == {"none", "sleep", "dec", "try_dec", "inc", "create", "destroy",
          "lock", "yield", "yield_unlock", "exit"}

Calls == [kind : Kinds, sem : Sem \cup {NoSem}, arg : Nat]

NoCall == [kind |-> "none", sem |-> NoSem, arg |-> 0]

ASSUME MarvinAssumption ==
    /\ Idle \notin Task
    /\ NULL \notin Thread
    /\ NoSem \notin Sem
    /\ IsFiniteSet(Task)
    /\ Quantum \in Nat
    /\ MaxSleep \in Nat
    /\ MaxCount \in Nat

\* Every task is created exactly once, and one at least.
ASSUME CreatedAssumption ==
    /\ Created \in Seq(Task)
    /\ Created # <<>>
    /\ Distinct(Created)
    /\ Items(Created) = Task

ASSUME BootAssumption ==
    /\ DOMAIN BootCount \subseteq Sem
    /\ \A s \in DOMAIN BootCount : BootCount[s] \in Nat

\* The calls respect the interface: mv_time_sleep asserts ms > 0.
ASSUME ProgramAssumption ==
    /\ Program \in [Task -> SUBSET Calls]
    /\ \A t \in Task : \A c \in Program[t] :
           /\ c.kind # "none"
           /\ c.kind = "sleep" => c.arg \in 1..MaxSleep
           /\ c.kind \in {"dec", "try_dec", "inc", "create", "destroy"}
                  => c.sem \in Sem

---------------------------------------------------------------------------
VARIABLES
    \* base/drivers/systick.c and the interrupt controller
    inhibit,        \* scheduler_inhibit: the tick does not call the scheduler
    pending,        \* the scheduler interrupt is pending
    elapsed,        \* ms since sched_state.last_context_switch, up to Quantum
    \* scheduler.c
    tasks_ready,    \* the ring of ready tasks, from its head
    tasks_blocked,  \* the ring of blocked tasks
    task_current,   \* the thread that has the CPU
    alarms,         \* alarms_pending: the queue of the tasks with an alarm
    left,           \* ms left until the alarm of each task
    sched_lock,     \* the count of the scheduler lock
    task_command,   \* what the preempted thread asks of the scheduler
    \* scheduler_cb, between its first test and its end
    in_cb,          \* it is running
    need,           \* its need_reschedule
    due,            \* the alarms whose wakeup_time was reached when it began
    \* the threads
    state,          \* mv_task.state; "DEAD" once the task is destroyed
    pc,             \* where each thread is
    op,             \* the call each thread is making
    seen,           \* the sched_lock that a thread has read and not yet stored
    \* semaphore.c
    created,        \* the semaphores that exist
    count,          \* mv_sem.count
    waiters,        \* mv_sem.blocked_tasks
    \* the machine
    halted          \* "no" while it runs, or why it stopped

tickVars == <<inhibit, pending, elapsed, left>>
listVars == <<tasks_ready, tasks_blocked, alarms, state>>
cbVars == <<in_cb, need, due>>
semVars == <<created, count, waiters>>
threadVars == <<pc, op, seen>>
lockVars == <<task_current, sched_lock, task_command>>

vars == <<tickVars, listVars, cbVars, semVars, threadVars, lockVars, halted>>

Labels == {"check", "run", "alloc", "lock", "lock_store", "body",
           "unlock", "unlock_mask", "unlock_cmd", "unlock_drop", "unlock_call",
           "unlock_dec", "mask", "cmd", "call", "dead"}

TypeOK ==
    /\ inhibit \in BOOLEAN
    /\ pending \in BOOLEAN
    /\ elapsed \in 0..Quantum
    /\ tasks_ready \in Seq(Task)
    /\ tasks_blocked \in Seq(Task)
    /\ task_current \in Thread \cup {NULL}
    /\ alarms \in Queues(Task)
    /\ left \in [Task -> 0..MaxSleep]
    /\ sched_lock \in Nat
    /\ task_command \in {"NONE", "YIELD", "DIE"}
    /\ in_cb \in BOOLEAN
    /\ need \in BOOLEAN
    /\ due \in SUBSET Task
    /\ state \in [Thread -> {"READY", "BLOCKED", "DEAD"}]
    /\ pc \in [Thread -> Labels]
    /\ op \in [Thread -> Calls]
    /\ seen \in [Thread -> Nat]
    /\ created \in SUBSET Sem
    /\ count \in [Sem -> Int]
    /\ waiters \in [Sem -> Queues(Task)]
    /\ halted \in {"no", "off", "all_tasks_dead", "abort"}

---------------------------------------------------------------------------
(* The tick: systick_isr *)

Minus1(n) == IF n = 0 THEN 0 ELSE n - 1

Tick ==
    /\ halted = "no"
    /\ elapsed' = IF elapsed < Quantum THEN elapsed + 1 ELSE elapsed
    /\ left' = [t \in Task |-> Minus1(left[t])]
    /\ pending' = (pending \/ ~inhibit)
    /\ UNCHANGED <<inhibit, listVars, cbVars, semVars, threadVars, lockVars,
                   halted>>

---------------------------------------------------------------------------
(* The scheduler interrupt: systick_sched and scheduler_cb.  It runs in    *)
(* three kinds of steps, between which the tick may come: the entry, one   *)
(* step for each alarm, and the context switch.                            *)

Entering == halted = "no" /\ pending /\ ~in_cb

\* The CANCEL button is down: nx_core_halt powers the brick off.
PowerOff ==
    /\ Entering
    /\ halted' = "off"
    /\ UNCHANGED <<tickVars, listVars, cbVars, semVars, threadVars, lockVars>>

\* Broken variant: an off-by-one in the test of the lock.
UnlockedOffByOne == sched_lock <= 1

Unlocked == sched_lock = 0

\* sched_lock > 0: the request is dropped.
EnterLocked ==
    /\ Entering
    /\ ~Unlocked
    /\ pending' = FALSE
    /\ UNCHANGED <<inhibit, elapsed, left, listVars, cbVars, semVars,
                   threadVars, lockVars, halted>>

\* Of the alarms that hang on the calendar, those that are over.
Expired == {t \in Items(alarms.items) : left[t] = 0}

\* Broken variant: nx_systick_unmask_scheduler is forgotten.
EnterCommandMasked ==
    /\ Entering
    /\ Unlocked
    /\ task_command # "NONE"
    /\ pending' = FALSE
    /\ sched_lock' = 1
    /\ task_command' = "NONE"
    /\ in_cb' = TRUE
    /\ need' = TRUE
    /\ due' = Expired
    /\ IF task_command = "DIE"
       THEN /\ tasks_ready' = RemoveItem(tasks_ready, task_current)
            /\ state' = [state EXCEPT ![task_current] = "DEAD"]
            /\ task_current' = NULL
       ELSE UNCHANGED <<tasks_ready, state, task_current>>
    /\ UNCHANGED <<inhibit, elapsed, left, tasks_blocked, alarms, semVars,
                   threadVars, halted>>

\* A pending command is carried out: the thread yields or dies.
EnterCommand ==
    /\ Entering
    /\ Unlocked
    /\ task_command # "NONE"
    /\ pending' = FALSE
    /\ sched_lock' = 1
    /\ task_command' = "NONE"
    /\ inhibit' = FALSE
    /\ in_cb' = TRUE
    /\ need' = TRUE
    /\ due' = Expired
    /\ IF task_command = "DIE"
       THEN /\ tasks_ready' = RemoveItem(tasks_ready, task_current)
            /\ state' = [state EXCEPT ![task_current] = "DEAD"]
            /\ task_current' = NULL
       ELSE UNCHANGED <<tasks_ready, state, task_current>>
    /\ UNCHANGED <<elapsed, left, tasks_blocked, alarms, semVars, threadVars,
                   halted>>

\* No command: the thread is preempted when its quantum is over.
EnterTick ==
    /\ Entering
    /\ Unlocked
    /\ task_command = "NONE"
    /\ pending' = FALSE
    /\ sched_lock' = 1
    /\ in_cb' = TRUE
    /\ need' = (elapsed >= Quantum)
    /\ due' = Expired
    /\ UNCHANGED <<inhibit, elapsed, left, listVars, semVars, threadVars,
                   task_current, task_command, halted>>

\* Broken variant: the loop over the calendar stops after one alarm.
HeadDueOnce == ~IsEmptyQueue(alarms) /\ alarms.items[1] \in due
                   /\ \A t \in due : t \in Items(alarms.items)

HeadDue == ~IsEmptyQueue(alarms) /\ alarms.items[1] \in due

\* Broken variant: the task keeps its old state.
UnblockStale(t) ==
    /\ tasks_blocked' = RemoveItem(tasks_blocked, t)
    /\ UNCHANGED state
    /\ tasks_ready' = AddTail(tasks_ready, t)

\* Broken variant: the task stays in the ring of blocked tasks.
UnblockTwice(t) ==
    /\ UNCHANGED tasks_blocked
    /\ state' = [state EXCEPT ![t] = "READY"]
    /\ tasks_ready' = AddTail(tasks_ready, t)

\* mv__scheduler_task_unblock
Unblock(t) ==
    /\ tasks_blocked' = RemoveItem(tasks_blocked, t)
    /\ state' = [state EXCEPT ![t] = "READY"]
    /\ tasks_ready' = AddTail(tasks_ready, t)

\* Broken variant: the alarm is freed and its task forgotten.
WakeAlarmForgets ==
    /\ halted = "no"
    /\ in_cb
    /\ HeadDue
    /\ alarms' = QueuePopHead(alarms)
    /\ UNCHANGED <<tasks_ready, tasks_blocked, state, tickVars, cbVars, semVars,
                   threadVars, lockVars, halted>>

\* One turn of the loop over the calendar.
WakeAlarm ==
    /\ halted = "no"
    /\ in_cb
    /\ HeadDue
    /\ alarms' = QueuePopHead(alarms)
    /\ Unblock(alarms.items[1])
    /\ UNCHANGED <<tickVars, cbVars, semVars, threadVars, lockVars, halted>>

\* The end of scheduler_cb, with reschedule().
Switch ==
    /\ halted = "no"
    /\ in_cb
    /\ ~HeadDue
    /\ IF ~need
       THEN UNCHANGED <<task_current, tasks_ready, elapsed>>
       ELSE /\ elapsed' = 0
            /\ tasks_ready' = RotateForward(tasks_ready)
            /\ task_current' = IF tasks_ready = <<>> THEN Idle
                                                     ELSE tasks_ready[1]
    /\ sched_lock' = 0
    /\ in_cb' = FALSE
    /\ need' = FALSE
    /\ due' = {}
    /\ UNCHANGED <<inhibit, pending, left, tasks_blocked, alarms, state,
                   semVars, threadVars, task_command, halted>>

---------------------------------------------------------------------------
(* The threads.  No handler is running or pending when a thread steps.     *)

Running(t) ==
    /\ halted = "no"
    /\ task_current = t
    /\ ~pending
    /\ ~in_cb

At(t, label) == Running(t) /\ pc[t] = label

Goto(t, label) == pc' = [pc EXCEPT ![t] = label]

\* Back in the task's own code.  A task that is blocked will only be there
\* when it gets the CPU again: the model remembers what it waits for.
Return(t) ==
    /\ Goto(t, "run")
    /\ op' = IF state[t] = "BLOCKED" THEN op ELSE [op EXCEPT ![t] = NoCall]

NoInterrupt == UNCHANGED <<tickVars, cbVars, halted>>

\* t is in a call on the semaphore s, or blocked by one.
Uses(t, s) == op[t].sem = s /\ (pc[t] # "run" \/ state[t] = "BLOCKED")

\* Nobody is using s: mv_semaphore_destroy asks this of its caller.
Unused(s) == \A t \in Task : ~Uses(t, s)

Usable(s) ==
    s \in created /\ \A t \in Task : Uses(t, s) => op[t].kind # "destroy"

\* What the caller of c must ensure, and the bound on the counts.
Allowed(c) ==
    CASE c.kind \in {"dec", "try_dec"} -> Usable(c.sem)
      [] c.kind = "inc" -> Usable(c.sem) /\ count[c.sem] < MaxCount
      [] c.kind = "destroy" -> c.sem \in created /\ Unused(c.sem)
      [] c.kind = "create" -> c.sem \notin created /\ Unused(c.sem)
      [] OTHER -> TRUE

EntryLabel(kind) ==
    CASE kind \in {"yield", "exit"} -> "mask"
      [] kind = "create" -> "alloc"
      [] OTHER -> "lock"

\* The task's code makes a call; a function that returns ends in
\* task_shutdown, which is the call "exit".
Call(t) ==
    /\ At(t, "run")
    /\ \E c \in Program[t] :
           /\ Allowed(c)
           /\ op' = [op EXCEPT ![t] = c]
           /\ Goto(t, EntryLabel(c.kind))
    /\ NoInterrupt
    /\ UNCHANGED <<listVars, semVars, seen, lockVars>>

\* mv_scheduler_lock, which is a load and a store.
LockLoad(t) ==
    /\ At(t, "lock")
    /\ seen' = [seen EXCEPT ![t] = sched_lock]
    /\ Goto(t, "lock_store")
    /\ NoInterrupt
    /\ UNCHANGED <<listVars, semVars, op, lockVars>>

\* Broken variant: the increment is lost.
LockStoreLost(t) ==
    /\ At(t, "lock_store")
    /\ sched_lock' = seen[t]
    /\ seen' = [seen EXCEPT ![t] = 0]
    /\ Goto(t, "body")
    /\ NoInterrupt
    /\ UNCHANGED <<listVars, semVars, op, task_current, task_command>>

LockStore(t) ==
    /\ At(t, "lock_store")
    /\ sched_lock' = seen[t] + 1
    /\ seen' = [seen EXCEPT ![t] = 0]
    /\ Goto(t, "body")
    /\ NoInterrupt
    /\ UNCHANGED <<listVars, semVars, op, task_current, task_command>>

\* mv__scheduler_task_block, which takes and drops the lock a second time.
Block(t) ==
    /\ tasks_ready' = RemoveItem(tasks_ready, t)
    /\ state' = [state EXCEPT ![t] = "BLOCKED"]
    /\ tasks_blocked' = AddTail(tasks_blocked, t)

\* Broken variant: every alarm goes to the tail.
InsertAlarmUnsorted(q, t, w) == QueueAddTail(q, t)

\* Where the calendar q takes an alarm that is w ms ahead.  The three tests
\* are the code's: the last one reads the tail through the head's prev,
\* which on a chain is NULL, and address 0 holds an instruction that is a
\* later time than any: so is the time read where the walk leaves a chain.
InsertAlarm(q, t, w) ==
    IF IsEmptyQueue(q) \/ (q.ring /\ left[q.items[1]] < w
                                  /\ left[q.items[Len(q.items)]] <= w)
    THEN QueueAddTail(q, t)
    ELSE IF w <= left[q.items[1]]
    THEN QueueAddHead(q, t)
    ELSE LET after == CHOOSE k \in 1..Len(q.items) :
                 /\ k = Len(q.items) \/ left[q.items[k + 1]] >= w
                 /\ \A i \in 2..k : left[q.items[i]] < w
         IN  QueueInsertAfter(q, after, t)

\* mv__scheduler_task_suspend
SuspendBody(t) ==
    /\ At(t, "body")
    /\ op[t].kind = "sleep"
    /\ alarms' = InsertAlarm(alarms, t, op[t].arg)
    /\ left' = [left EXCEPT ![t] = op[t].arg]
    /\ Block(t)
    /\ Goto(t, "unlock")
    /\ UNCHANGED <<inhibit, pending, elapsed, cbVars, halted, semVars, op,
                   seen, lockVars>>

\* Broken variant: the count is tested before it is decremented.
DecBodyEarly(t) ==
    LET s == op[t].sem IN
    /\ At(t, "body")
    /\ op[t].kind = "dec"
    /\ count' = [count EXCEPT ![s] = @ - 1]
    /\ IF count[s] < 0
       THEN /\ Block(t)
            /\ waiters' = [waiters EXCEPT ![s] = QueueAddTail(@, t)]
            /\ UNCHANGED alarms
       ELSE UNCHANGED <<waiters, listVars>>
    /\ Goto(t, "unlock")
    /\ NoInterrupt
    /\ UNCHANGED <<created, op, seen, lockVars>>

\* Broken variant: the task blocks without queueing on the semaphore.
DecBodyUnqueued(t) ==
    LET s == op[t].sem IN
    /\ At(t, "body")
    /\ op[t].kind = "dec"
    /\ count' = [count EXCEPT ![s] = @ - 1]
    /\ IF count[s] - 1 < 0
       THEN Block(t) /\ UNCHANGED <<waiters, alarms>>
       ELSE UNCHANGED <<waiters, listVars>>
    /\ Goto(t, "unlock")
    /\ NoInterrupt
    /\ UNCHANGED <<created, op, seen, lockVars>>

\* mv_semaphore_dec
DecBody(t) ==
    LET s == op[t].sem IN
    /\ At(t, "body")
    /\ op[t].kind = "dec"
    /\ count' = [count EXCEPT ![s] = @ - 1]
    /\ IF count[s] - 1 < 0
       THEN /\ Block(t)
            /\ waiters' = [waiters EXCEPT ![s] = QueueAddTail(@, t)]
            /\ UNCHANGED alarms
       ELSE UNCHANGED <<waiters, listVars>>
    /\ Goto(t, "unlock")
    /\ NoInterrupt
    /\ UNCHANGED <<created, op, seen, lockVars>>

\* mv_semaphore_try_dec
TryDecBody(t) ==
    LET s == op[t].sem IN
    /\ At(t, "body")
    /\ op[t].kind = "try_dec"
    /\ count' = IF count[s] > 0 THEN [count EXCEPT ![s] = @ - 1] ELSE count
    /\ Goto(t, "unlock")
    /\ NoInterrupt
    /\ UNCHANGED <<created, waiters, listVars, op, seen, lockVars>>

\* Broken variant: the last waiter is not woken (< 0 for <= 0).
IncBodyKeepsOne(t) ==
    LET s == op[t].sem IN
    /\ At(t, "body")
    /\ op[t].kind = "inc"
    /\ count' = [count EXCEPT ![s] = @ + 1]
    /\ \/ /\ count[s] + 1 >= 0
          /\ UNCHANGED <<waiters, listVars>>
       \/ /\ count[s] + 1 < 0
          /\ ~IsEmptyQueue(waiters[s])
          /\ Unblock(waiters[s].items[1])
          /\ waiters' = [waiters EXCEPT ![s] = QueuePopHead(@)]
          /\ UNCHANGED alarms
    /\ Goto(t, "unlock")
    /\ NoInterrupt
    /\ UNCHANGED <<created, op, seen, lockVars>>

\* mv_semaphore_inc that wakes nobody, or the head of the queue.
IncBody(t) ==
    LET s == op[t].sem IN
    /\ At(t, "body")
    /\ op[t].kind = "inc"
    /\ count' = [count EXCEPT ![s] = @ + 1]
    /\ \/ /\ count[s] + 1 > 0
          /\ UNCHANGED <<waiters, listVars>>
       \/ /\ count[s] + 1 <= 0
          /\ ~IsEmptyQueue(waiters[s])
          /\ Unblock(waiters[s].items[1])
          /\ waiters' = [waiters EXCEPT ![s] = QueuePopHead(@)]
          /\ UNCHANGED alarms
    /\ Goto(t, "unlock")
    /\ NoInterrupt
    /\ UNCHANGED <<created, op, seen, lockVars>>

\* The same when the queue has lost the waiters that count promises:
\* mv_list_pop_head returns NULL, the task read through it is an instruction
\* word, and reading that task's state is a data abort.
IncAbort(t) ==
    LET s == op[t].sem IN
    /\ At(t, "body")
    /\ op[t].kind = "inc"
    /\ count[s] + 1 <= 0
    /\ IsEmptyQueue(waiters[s])
    /\ count' = [count EXCEPT ![s] = @ + 1]
    /\ halted' = "abort"
    /\ UNCHANGED <<tickVars, cbVars, created, waiters, listVars, threadVars,
                   lockVars>>

\* mv_semaphore_inc
Inc(t) ==
    LET s == op[t].sem IN
    /\ At(t, "body")
    /\ op[t].kind = "inc"
    /\ IF count[s] + 1 <= 0 /\ IsEmptyQueue(waiters[s]) THEN IncAbort(t)
                                                       ELSE IncBody(t)

\* mv_semaphore_destroy
DestroyBody(t) ==
    LET s == op[t].sem IN
    /\ At(t, "body")
    /\ op[t].kind = "destroy"
    /\ created' = created \ {s}
    /\ count' = [count EXCEPT ![s] = 0]
    /\ waiters' = [waiters EXCEPT ![s] = EmptyQueue]
    /\ Goto(t, "unlock")
    /\ NoInterrupt
    /\ UNCHANGED <<listVars, op, seen, lockVars>>

\* A task that takes the lock for its own sake: it then unlocks, or yields
\* with mv_scheduler_yield(TRUE), which starts as any other yield.
PlainBody(t) ==
    /\ At(t, "body")
    /\ \/ op[t].kind = "lock" /\ Goto(t, "unlock")
       \/ op[t].kind = "yield_unlock" /\ Goto(t, "mask")
    /\ NoInterrupt
    /\ UNCHANGED <<listVars, semVars, op, seen, lockVars>>

\* mv_semaphore_create: it allocates without the lock, then fills the
\* structure in, which nobody else knows yet.
CreateBody(t) ==
    LET s == op[t].sem IN
    /\ At(t, "alloc")
    /\ created' = created \cup {s}
    /\ count' = [count EXCEPT ![s] = op[t].arg]
    /\ waiters' = [waiters EXCEPT ![s] = EmptyQueue]
    /\ Return(t)
    /\ NoInterrupt
    /\ UNCHANGED <<listVars, seen, lockVars>>

---------------------------------------------------------------------------
(* mv_scheduler_unlock, with one step for each access that an interrupt    *)
(* can come between.                                                       *)

\* Broken variant: a blocked thread keeps the CPU until its quantum is over.
MustYieldQuantumOnly(t) == sched_lock = 1 /\ elapsed >= Quantum

\* Broken variant: only a blocked thread yields.
MustYieldBlockedOnly(t) == sched_lock = 1 /\ state[t] = "BLOCKED"

\* It preempts a thread that blocked itself, or whose quantum is over.
MustYield(t) ==
    sched_lock = 1 /\ (state[t] = "BLOCKED" \/ elapsed >= Quantum)

UnlockTest(t) ==
    /\ At(t, "unlock")
    /\ Goto(t, IF MustYield(t) THEN "unlock_mask" ELSE "unlock_dec")
    /\ NoInterrupt
    /\ UNCHANGED <<listVars, semVars, op, seen, lockVars>>

UnlockMask(t) ==
    /\ At(t, "unlock_mask")
    /\ inhibit' = TRUE
    /\ Goto(t, "unlock_cmd")
    /\ UNCHANGED <<pending, elapsed, left, cbVars, halted, listVars, semVars,
                   op, seen, lockVars>>

UnlockCommand(t) ==
    /\ At(t, "unlock_cmd")
    /\ task_command' = "YIELD"
    /\ Goto(t, "unlock_drop")
    /\ NoInterrupt
    /\ UNCHANGED <<listVars, semVars, op, seen, task_current, sched_lock>>

UnlockDrop(t) ==
    /\ At(t, "unlock_drop")
    /\ sched_lock' = sched_lock - 1
    /\ Goto(t, "unlock_call")
    /\ NoInterrupt
    /\ UNCHANGED <<listVars, semVars, op, seen, task_current, task_command>>

\* Where unlock returns to: mv_scheduler_yield(TRUE) still has to call the
\* scheduler.
AfterUnlock(t) ==
    IF op[t].kind = "yield_unlock"
    THEN Goto(t, "call") /\ UNCHANGED op
    ELSE Return(t)

UnlockCall(t) ==
    /\ At(t, "unlock_call")
    /\ pending' = TRUE
    /\ AfterUnlock(t)
    /\ UNCHANGED <<inhibit, elapsed, left, cbVars, halted, listVars, semVars,
                   seen, lockVars>>

UnlockDec(t) ==
    /\ At(t, "unlock_dec")
    /\ sched_lock' = sched_lock - 1
    /\ AfterUnlock(t)
    /\ NoInterrupt
    /\ UNCHANGED <<listVars, semVars, seen, task_current, task_command>>

---------------------------------------------------------------------------
(* mv_scheduler_yield and task_shutdown *)

YieldMask(t) ==
    /\ At(t, "mask")
    /\ inhibit' = TRUE
    /\ Goto(t, "cmd")
    /\ UNCHANGED <<pending, elapsed, left, cbVars, halted, listVars, semVars,
                   op, seen, lockVars>>

YieldCommand(t) ==
    /\ At(t, "cmd")
    /\ task_command' = IF op[t].kind = "exit" THEN "DIE" ELSE "YIELD"
    /\ Goto(t, IF op[t].kind = "yield_unlock" THEN "unlock" ELSE "call")
    /\ NoInterrupt
    /\ UNCHANGED <<listVars, semVars, op, seen, task_current, sched_lock>>

YieldCall(t) ==
    /\ At(t, "call")
    /\ pending' = TRUE
    /\ IF t = Idle
       THEN Goto(t, "check") /\ UNCHANGED op
       ELSE IF op[t].kind = "exit"
       THEN Goto(t, "dead") /\ op' = [op EXCEPT ![t] = NoCall]
       ELSE Return(t)
    /\ UNCHANGED <<inhibit, elapsed, left, cbVars, halted, listVars, semVars,
                   seen, lockVars>>

\* The loop of task_idle: it looks at tasks_blocked without the lock.
IdleCheck ==
    /\ At(Idle, "check")
    /\ IF tasks_blocked = <<>>
       THEN halted' = "all_tasks_dead" /\ UNCHANGED pc
       ELSE Goto(Idle, "mask") /\ UNCHANGED halted
    /\ UNCHANGED <<tickVars, cbVars, listVars, semVars, op, seen, lockVars>>

---------------------------------------------------------------------------
\* The ring of ready tasks after mv_scheduler_create_task has added each
\* task of Created to it with mv_list_add_tail.
BootRing ==
    [i \in 1..Len(Created) |->
        IF i = 1 THEN Created[1] ELSE Created[Len(Created) + 2 - i]]

\* The system as mv__scheduler_run leaves it: the idle task has made its
\* first yield with interrupts disabled, and has just enabled them.
Init ==
    /\ inhibit = TRUE
    /\ pending = TRUE
    /\ elapsed = 0
    /\ tasks_ready = BootRing
    /\ tasks_blocked = <<>>
    /\ task_current = Idle
    /\ alarms = EmptyQueue
    /\ left = [t \in Task |-> 0]
    /\ sched_lock = 0
    /\ task_command = "YIELD"
    /\ in_cb = FALSE
    /\ need = FALSE
    /\ due = {}
    /\ state = [t \in Thread |-> "READY"]
    /\ pc = [t \in Thread |-> IF t = Idle THEN "check" ELSE "run"]
    /\ op = [t \in Thread |-> NoCall]
    /\ seen = [t \in Thread |-> 0]
    /\ created = DOMAIN BootCount
    /\ count = [s \in Sem |-> IF s \in DOMAIN BootCount THEN BootCount[s] ELSE 0]
    /\ waiters = [s \in Sem |-> EmptyQueue]
    /\ halted = "no"

Body(t) ==
    \/ SuspendBody(t) \/ DecBody(t) \/ TryDecBody(t) \/ Inc(t)
    \/ DestroyBody(t) \/ PlainBody(t) \/ CreateBody(t)

Locking(t) == LockLoad(t) \/ LockStore(t)

Unlocking(t) ==
    \/ UnlockTest(t) \/ UnlockMask(t) \/ UnlockCommand(t) \/ UnlockDrop(t)
    \/ UnlockCall(t) \/ UnlockDec(t)

Yielding(t) == YieldMask(t) \/ YieldCommand(t) \/ YieldCall(t)

\* The steps of kernel code that a thread executes.
Kernel(t) == Locking(t) \/ Body(t) \/ Unlocking(t) \/ Yielding(t)

Handler == EnterLocked \/ EnterCommand \/ EnterTick \/ WakeAlarm \/ Switch

\* A machine that has stopped stays so.
Stopped == halted # "no" /\ UNCHANGED vars

Next ==
    \/ Tick
    \/ PowerOff
    \/ Handler
    \/ \E t \in Task : Call(t) \/ Kernel(t)
    \/ Yielding(Idle)
    \/ IdleCheck
    \/ Stopped

Spec == Init /\ [][Next]_vars

---------------------------------------------------------------------------
(* Fairness.  The timer never stops and a handler runs to its end.  Strong *)
(* fairness of each thread's kernel code: every tick takes the CPU away    *)
(* from it, for far less than the millisecond until the next, so a thread  *)
(* that is given the CPU again and again advances.  Nothing is assumed of  *)
(* the tasks' own code, which need not make a call.                        *)

IdleStep == Yielding(Idle) \/ IdleCheck

Fairness ==
    /\ WF_vars(Tick)
    /\ WF_vars(Handler)
    /\ SF_vars(IdleStep)
    /\ \A t \in Task : SF_vars(Kernel(t))

FairSpec == Spec /\ Fairness

---------------------------------------------------------------------------
(* Safety *)

\* The thread is between mv_scheduler_lock and the release of the lock.
Holds(t) ==
    \/ pc[t] \in {"body", "unlock", "unlock_mask", "unlock_cmd",
                   "unlock_drop", "unlock_dec"}
    \/ op[t].kind = "yield_unlock" /\ pc[t] \in {"mask", "cmd"}

\* The scheduler lock excludes: one thread at most is inside, it has the CPU,
\* scheduler_cb is not past its test then, and the plain increments and
\* decrements of sched_lock lose no update (scheduler.c:301 argues that
\* they need not be atomic).
LockExcludes ==
    /\ \A t \in Thread : Holds(t) => t = task_current /\ ~in_cb
    /\ sched_lock =
           IF in_cb \/ \E t \in Thread : Holds(t) THEN 1 ELSE 0

\* A task that blocked itself or died executes nothing but the rest of the
\* unlock that gives the CPU away (scheduler.c:275 "It will be preempted when
\* the scheduler completely unlocks").
BlockedDoesNotRun ==
    \A t \in Thread :
        Running(t) /\ state[t] # "READY" => Holds(t) \/ pc[t] = "unlock_call"

\* Where a thread has masked the tick's request, or will call the scheduler
\* to have it unmasked.
Masking(t) ==
    \/ pc[t] \in {"unlock_cmd", "unlock_drop", "unlock_call", "cmd", "call"}
    \/ op[t].kind = "yield_unlock"
          /\ pc[t] \in {"unlock", "unlock_mask", "unlock_dec"}

\* The tick's request is never masked for good: whoever masked it has the
\* CPU and goes on to call the scheduler, or has called it, with a command
\* that makes scheduler_cb unmask it.
MaskIsReleased ==
    inhibit =>
        /\ ~in_cb
        /\ \/ task_current \in Thread /\ Masking(task_current)
           \/ pending /\ sched_lock = 0 /\ task_command # "NONE"

\* Every live task is linked once, in the ring that its state names.
ListsPartition ==
    /\ Distinct(tasks_ready)
    /\ Distinct(tasks_blocked)
    /\ Items(tasks_ready) = {t \in Task : state[t] = "READY"}
    /\ Items(tasks_blocked) = {t \in Task : state[t] = "BLOCKED"}

Sleeping == {t \in Task : state[t] = "BLOCKED" /\ op[t].kind = "sleep"}

Waiting(s) ==
    {t \in Task : state[t] = "BLOCKED" /\ op[t].kind = "dec" /\ op[t].sem = s}

\* semaphore.c:25: a negative count is the number of tasks blocking on the
\* semaphore, and nobody blocks on one that has resources left.
CountIsWaiters ==
    \A s \in Sem :
        IF count[s] < 0 THEN Cardinality(Waiting(s)) = -count[s]
                        ELSE Waiting(s) = {}

\* The resources left are those that count shows and those that the tasks
\* which wait have taken from it.
Semaphores ==
    INSTANCE CountingSemaphore
    WITH exists <- created,
         available <- [s \in Sem |-> count[s] + Cardinality(Waiting(s))],
         waiting <- [s \in Sem |-> Waiting(s)]

\* The semaphores do what semaphore.h promises, whatever the interrupts do: a
\* resource is never given twice, and never lost.
ImplementsSemaphores == Semaphores!Spec

\* Whoever is blocked can still be woken: a sleeping task has its alarm on
\* the calendar, and a task that waits for a semaphore is in its queue.
NoLostWakeup ==
    /\ Items(alarms.items) = Sleeping
    /\ \A s \in Sem : Items(waiters[s].items) = Waiting(s)

\* scheduler.c:258 "a sorted insertion": the head is the next alarm.
CalendarSorted ==
    \A i, j \in 1..Len(alarms.items) :
        i < j => left[alarms.items[i]] <= left[alarms.items[j]]

\* The NX_ASSERTs of the scheduler and the semaphores hold where they stand:
\* who blocks is ready, who is woken is blocked, and a semaphore that is
\* destroyed has no waiters.
AssertionsHold ==
    /\ \A t \in Task : Running(t) /\ pc[t] = "body" =>
           /\ op[t].kind \in {"sleep", "dec"} => state[t] = "READY"
           /\ op[t].kind = "destroy" => count[op[t].sem] >= 0
           /\ op[t].kind = "inc" /\ ~IsEmptyQueue(waiters[op[t].sem]) =>
                  state[waiters[op[t].sem].items[1]] = "BLOCKED"
    /\ in_cb /\ HeadDue => state[alarms.items[1]] = "BLOCKED"

\* When scheduler_cb gives the CPU back, none of the alarms that were over
\* when it began is still on the calendar.
AlarmsAnswered == [][Switch => Expired \cap due = {}]_vars

\* What the kernel keeps in its queues, counters and calendar agrees with what
\* its tasks are doing, at every step of every task and interrupt.
BooksBalance ==
    TypeOK /\ CountIsWaiters /\ NoLostWakeup /\ CalendarSorted /\ AssertionsHold

\* scheduler.c:205 "All tasks dead": the idle task only stops the system when
\* no task is left.
DeadMeansDead ==
    halted = "all_tasks_dead" => \A t \in Task : state[t] = "DEAD"

\* memalloc.h:34: the allocator is not safe for concurrent access: the
\* scheduler does not free an alarm while a task is inside the allocator.
AllocatorExclusive ==
    \A t \in Task : pc[t] = "alloc" => ~(in_cb /\ HeadDue)

---------------------------------------------------------------------------
(* Where mv_list_pop_head is safe.  It loses the third item of a queue, so *)
(* the books only balance when no queue ever holds three.                  *)

\* Two tasks at most have code that sleeps,
TwoSleepers ==
    \E a, b \in Task : \A t \in Task : \A c \in Program[t] :
        c.kind = "sleep" => t \in {a, b}

\* and two at most have code that waits for the same semaphore.
TwoWaiters ==
    \A s \in Sem : \E a, b \in Task : \A t \in Task : \A c \in Program[t] :
        c.kind = "dec" /\ c.sem = s => t \in {a, b}

---------------------------------------------------------------------------
(* Liveness *)

\* A task that sleeps is made ready again (_scheduler.h:43).
SleeperWakes ==
    \A t \in Task : t \in Sleeping ~> state[t] = "READY" \/ halted # "no"

\* A thread that has used up its quantum loses the CPU, although the ticks
\* that come while it holds the lock are dropped.
QuantumEnds == (elapsed = Quantum) ~> (elapsed < Quantum \/ halted # "no")

=============================================================================
