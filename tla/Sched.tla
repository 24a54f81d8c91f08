------------------------------- MODULE Sched -------------------------------
(***************************************************************************)
(* The heart of the SMP kernel: the per-hart scheduler loop, schedule(),   *)
(* task_sleep() and task_wake() of kernel/src/task.c, and the counting     *)
(* semaphore of kernel/src/wait.c that every blocking path is built on.    *)
(*                                                                         *)
(* NTasks tasks share NHarts harts and one semaphore, and loop through     *)
(* user mode, sem_wait, sem_timedwait, sem_post and preemption in any      *)
(* order.  A step is one lock acquisition with the code it protects up to  *)
(* the next lock operation or context switch; the state in which a task    *)
(* has changed its own state but has not yet left its stack is kept apart. *)
(***************************************************************************)
EXTENDS Integers, FiniteSets

CONSTANTS NTasks,       \* entries of tasks[] in use
          NHarts,       \* harts online
          Calls,        \* what tasks do besides computing in user mode
          InitialCount, \* argument of sem_init
          MaxCount      \* bound: a task posts only while count < MaxCount

ASSUME SizeAssumption == /\ NTasks \in Nat \ {0}
                         /\ NHarts \in Nat \ {0}
                         /\ Calls \subseteq {"sem_wait", "sem_timedwait", "sem_post"}
                         /\ InitialCount \in Nat
                         /\ MaxCount \in Nat

Tasks  == 0 .. (NTasks - 1)    \* in the order of the scans of tasks[]
Harts  == 0 .. (NHarts - 1)
None   == -1                   \* no hart, no task

VARIABLES
  task_lock,                   \* the hart that holds it, or None
  sem_lock, count, waiters,    \* struct semaphore
  task_state, wait_on, wait_deadline, wait_result, last_hart,  \* per task
  proc, idle,                  \* struct cpu, per hart
  hpc,                         \* what each hart executes
  pc                           \* where each task is in its kernel code

semVars  == <<sem_lock, count, waiters>>
taskVars == <<task_state, wait_on, wait_deadline, wait_result, last_hart>>
hartVars == <<proc, idle, hpc>>
vars     == <<task_lock, semVars, taskVars, hartVars, pc>>

(* "loop" and "wfi": in scheduler(); "back": in scheduler() just behind      *)
(* __switch, with task_lock held; "task": on the stack of the task proc[h]. *)
HartPCs == {"loop", "wfi", "back", "task"}

(* "first" and "resumed" are the points at which a dispatched task still     *)
(* holds task_lock: task_first_run, and schedule() behind __switch.  "woken" *)
(* is the same point of task_sleep.  "yield" and "asleep" are the points     *)
(* just in front of __switch.                                               *)
TaskPCs == {"first", "resumed", "woken", "user", "yield", "sem", "sleep",
            "asleep", "relock", "post", "wake"}

(* Type correctness of the locks, the tasks and the harts. *)
TypeOK ==
  /\ task_lock \in Harts \cup {None}
  /\ sem_lock \in Harts \cup {None}
  /\ count \in Nat
  /\ waiters \in Int
  /\ task_state \in [Tasks -> {"Ready", "Running", "Sleeping"}]
  /\ wait_on \in [Tasks -> BOOLEAN]
  /\ wait_deadline \in [Tasks -> {"forever", "future", "past"}]
  /\ wait_result \in [Tasks -> {0, -1}]
  /\ last_hart \in [Tasks -> Harts \cup {None}]
  /\ proc \in [Harts -> Tasks \cup {None}]
  /\ idle \in [Harts -> BOOLEAN]
  /\ hpc \in [Harts -> HartPCs]
  /\ pc \in [Tasks -> TaskPCs]

(* procinit, sem_init, and every task created by app_init. *)
Init ==
  /\ task_lock = None
  /\ sem_lock = None
  /\ count = InitialCount
  /\ waiters = 0
  /\ task_state = [t \in Tasks |-> "Ready"]
  /\ wait_on = [t \in Tasks |-> FALSE]
  /\ wait_deadline = [t \in Tasks |-> "forever"]
  /\ wait_result = [t \in Tasks |-> 0]
  /\ last_hart = [t \in Tasks |-> None]
  /\ proc = [h \in Harts |-> None]
  /\ idle = [h \in Harts |-> FALSE]
  /\ hpc = [h \in Harts |-> "loop"]
  /\ pc = [t \in Tasks |-> "first"]

-----------------------------------------------------------------------------
(* scheduler() *)

IsFirst(t, S) == t \in S /\ \A u \in S : t <= u

(* task_wake_expired_locked *)
Expired == {t \in Tasks : task_state[t] = "Sleeping" /\ wait_deadline[t] = "past"}
(* Mutant: the scheduler does not look at deadlines. *)
StateNeverExpires == task_state

StateAfterExpiry  == [t \in Tasks |-> IF t \in Expired THEN "Ready" ELSE task_state[t]]
ResultAfterExpiry == [t \in Tasks |-> IF t \in Expired THEN -1 ELSE wait_result[t]]

other_cpu_idle(h) == \E g \in Harts \ {h} : idle[g]

Ready == {t \in Tasks : StateAfterExpiry[t] = "Ready"}
(* Ready tasks that last ran on another hart are preferred. *)
Migrating(h) == {t \in Ready : last_hart[t] # None /\ last_hart[t] # h}

(* Mutant: a hart leaves every task to the other harts while one is idle. *)
pick_runnable_declines(h, t) == IsFirst(t, Ready) /\ ~other_cpu_idle(h)

(* pick_runnable(h) returns t. *)
pick_runnable(h, t) ==
  \/ IsFirst(t, Migrating(h))
  \/ /\ Migrating(h) = {}
     /\ IsFirst(t, Ready)
     /\ ~(last_hart[t] = h /\ other_cpu_idle(h))

(* A pass of the loop that finds a task: it is switched to with task_lock held. *)
scheduler_run(h) ==
  /\ hpc[h] = "loop"
  /\ task_lock = None
  /\ \E t \in Tasks :
        /\ pick_runnable(h, t)
        /\ task_state' = [StateAfterExpiry EXCEPT ![t] = "Running"]
        /\ last_hart' = [last_hart EXCEPT ![t] = h]
        /\ proc' = [proc EXCEPT ![h] = t]
  /\ wait_result' = ResultAfterExpiry
  /\ idle' = [idle EXCEPT ![h] = FALSE]
  /\ hpc' = [hpc EXCEPT ![h] = "task"]
  /\ task_lock' = h
  /\ UNCHANGED <<semVars, wait_on, wait_deadline, pc>>

(* A pass that finds none: the hart goes idle and waits for an interrupt. *)
scheduler_idle(h) ==
  /\ hpc[h] = "loop"
  /\ task_lock = None
  /\ ~ \E t \in Tasks : pick_runnable(h, t)
  /\ task_state' = StateAfterExpiry
  /\ wait_result' = ResultAfterExpiry
  /\ idle' = [idle EXCEPT ![h] = TRUE]
  /\ hpc' = [hpc EXCEPT ![h] = "wfi"]
  /\ UNCHANGED <<task_lock, semVars, wait_on, wait_deadline, last_hart, proc, pc>>

(* An interrupt ends wfi: the IPI of task_wake_locked, a device, or at the   *)
(* latest the next tick of the hart's own timer.                             *)
wfi_return(h) ==
  /\ hpc[h] = "wfi"
  /\ hpc' = [hpc EXCEPT ![h] = "loop"]
  /\ UNCHANGED <<task_lock, semVars, taskVars, proc, idle, pc>>

(* Behind __switch: cpu->proc = 0 and the lock is given back. *)
scheduler_back(h) ==
  /\ hpc[h] = "back"
  /\ proc' = [proc EXCEPT ![h] = None]
  /\ hpc' = [hpc EXCEPT ![h] = "loop"]
  /\ task_lock' = None
  /\ UNCHANGED <<semVars, taskVars, idle, pc>>

(* r_mtime() passes the deadline of a timed wait. *)
deadline_passes(t) ==
  /\ wait_deadline[t] = "future"
  /\ wait_deadline' = [wait_deadline EXCEPT ![t] = "past"]
  /\ UNCHANGED <<task_lock, semVars, task_state, wait_on, wait_result, last_hart,
                 hartVars, pc>>

-----------------------------------------------------------------------------
(* Code on the stack of task t, executed by hart h. *)
On(h, t) == hpc[h] = "task" /\ proc[h] = t

Goto(t, where) == pc' = [pc EXCEPT ![t] = where]

(* task_first_run, and the end of schedule(): release task_lock. *)
task_return(h, t) ==
  /\ On(h, t) /\ pc[t] \in {"first", "resumed"}
  /\ task_lock' = None
  /\ Goto(t, "user")
  /\ UNCHANGED <<semVars, taskVars, hartVars>>

(* Mutant: task_lock is released before the context is saved. *)
schedule_unlocks(h, t) ==
  /\ On(h, t) /\ pc[t] = "user"
  /\ task_lock = None
  /\ task_state' = [task_state EXCEPT ![t] = "Ready"]
  /\ Goto(t, "yield")
  /\ UNCHANGED <<task_lock, semVars, wait_on, wait_deadline, wait_result, last_hart,
                 hartVars>>

(* trap_handler: a tick or an IPI has set need_resched, so schedule(). *)
schedule(h, t) ==
  /\ On(h, t) /\ pc[t] = "user"
  /\ task_lock = None
  /\ task_lock' = h
  /\ task_state' = [task_state EXCEPT ![t] = "Ready"]
  /\ Goto(t, "yield")
  /\ UNCHANGED <<semVars, wait_on, wait_deadline, wait_result, last_hart, hartVars>>

(* __switch(&p->task_context, &cpu->scheduler_context) *)
switch_out(h, t) ==
  /\ On(h, t) /\ pc[t] \in {"yield", "asleep"}
  /\ hpc' = [hpc EXCEPT ![h] = "back"]
  /\ Goto(t, IF pc[t] = "yield" THEN "resumed" ELSE "woken")
  /\ UNCHANGED <<task_lock, semVars, taskVars, proc, idle>>

(* A task calls sem_wait, or sem_timedwait with a deadline in the future.    *)
(* The deadline is kept as long as the call lasts.                           *)
sem_call(h, t, call) ==
  /\ On(h, t) /\ pc[t] = "user"
  /\ call \in Calls
  /\ wait_deadline' = [wait_deadline EXCEPT ![t] =
                         IF call = "sem_wait" THEN "forever" ELSE "future"]
  /\ Goto(t, "sem")
  /\ UNCHANGED <<task_lock, semVars, task_state, wait_on, wait_result, last_hart,
                 hartVars>>

(* Mutant: the semaphore's lock is released before task_lock is taken. *)
TakeOrSleep_unlocks(h, t, w) ==
  IF count > 0
    THEN /\ count' = count - 1
         /\ waiters' = w
         /\ sem_lock' = None
         /\ wait_deadline' = [wait_deadline EXCEPT ![t] = "forever"]
         /\ Goto(t, "user")
    ELSE /\ waiters' = w + 1
         /\ sem_lock' = None
         /\ Goto(t, "sleep")
         /\ UNCHANGED <<count, wait_deadline>>

(* The test of count at the head of the loop of sem_timedwait, with w        *)
(* waiters counted: take a token and unlock, or keep sem_lock and sleep.     *)
TakeOrSleep(h, t, w) ==
  IF count > 0
    THEN /\ count' = count - 1
         /\ waiters' = w
         /\ sem_lock' = None
         /\ wait_deadline' = [wait_deadline EXCEPT ![t] = "forever"]
         /\ Goto(t, "user")
    ELSE /\ waiters' = w + 1
         /\ sem_lock' = h
         /\ Goto(t, "sleep")
         /\ UNCHANGED <<count, wait_deadline>>

sem_enter(h, t) ==
  /\ On(h, t) /\ pc[t] = "sem"
  /\ sem_lock = None
  /\ TakeOrSleep(h, t, waiters)
  /\ UNCHANGED <<task_lock, task_state, wait_on, wait_result, last_hart, hartVars>>

(* task_sleep up to __switch: take task_lock, then release the caller's. *)
task_sleep(h, t) ==
  /\ On(h, t) /\ pc[t] = "sleep"
  /\ task_lock = None
  /\ task_lock' = h
  /\ sem_lock' = None
  /\ wait_on' = [wait_on EXCEPT ![t] = TRUE]
  /\ wait_result' = [wait_result EXCEPT ![t] = 0]
  /\ task_state' = [task_state EXCEPT ![t] = "Sleeping"]
  /\ Goto(t, "asleep")
  /\ UNCHANGED <<count, waiters, wait_deadline, last_hart, hartVars>>

(* task_sleep behind __switch: forget the channel, release task_lock. *)
task_sleep_woken(h, t) ==
  /\ On(h, t) /\ pc[t] = "woken"
  /\ wait_on' = [wait_on EXCEPT ![t] = FALSE]
  /\ task_lock' = None
  /\ Goto(t, "relock")
  /\ UNCHANGED <<semVars, task_state, wait_deadline, wait_result, last_hart, hartVars>>

(* Mutant: "if" for "while": a woken waiter does not test the count again. *)
sem_relock_if(h, t) ==
  /\ On(h, t) /\ pc[t] = "relock"
  /\ sem_lock = None
  /\ waiters' = waiters - 1
  /\ count' = IF wait_result[t] < 0 THEN count ELSE count - 1
  /\ wait_deadline' = [wait_deadline EXCEPT ![t] = "forever"]
  /\ Goto(t, "user")
  /\ UNCHANGED <<task_lock, sem_lock, task_state, wait_on, wait_result, last_hart,
                 hartVars>>

(* The end of task_sleep takes sem_lock again; sem_timedwait counts itself   *)
(* out and gives up or tests the count again.                                *)
sem_relock(h, t) ==
  /\ On(h, t) /\ pc[t] = "relock"
  /\ sem_lock = None
  /\ IF wait_result[t] < 0
       THEN /\ waiters' = waiters - 1
            /\ wait_deadline' = [wait_deadline EXCEPT ![t] = "forever"]
            /\ Goto(t, "user")
            /\ UNCHANGED <<sem_lock, count>>
       ELSE TakeOrSleep(h, t, waiters - 1)
  /\ UNCHANGED <<task_lock, task_state, wait_on, wait_result, last_hart, hartVars>>

(* A task calls sem_post. *)
post_call(h, t) ==
  /\ On(h, t) /\ pc[t] = "user"
  /\ "sem_post" \in Calls
  /\ count < MaxCount
  /\ Goto(t, "post")
  /\ UNCHANGED <<task_lock, semVars, taskVars, hartVars>>

(* Mutant: a post wakes nobody. *)
sem_post_silent(h, t) ==
  /\ On(h, t) /\ pc[t] = "post"
  /\ sem_lock = None
  /\ count' = count + 1
  /\ Goto(t, "user")
  /\ UNCHANGED <<task_lock, sem_lock, waiters, taskVars, hartVars>>

sem_post(h, t) ==
  /\ On(h, t) /\ pc[t] = "post"
  /\ sem_lock = None
  /\ count' = count + 1
  /\ IF waiters # 0
       THEN sem_lock' = h /\ Goto(t, "wake")
       ELSE Goto(t, "user") /\ UNCHANGED sem_lock
  /\ UNCHANGED <<task_lock, waiters, taskVars, hartVars>>

(* task_wake(&sem->wait, 0): the first task asleep on the channel, if any,   *)
(* becomes Ready; then both locks are released.                              *)
task_wake(h, t) ==
  LET sleepers == {s \in Tasks : task_state[s] = "Sleeping" /\ wait_on[s]} IN
  /\ On(h, t) /\ pc[t] = "wake"
  /\ task_lock = None
  /\ \/ /\ sleepers = {}
        /\ UNCHANGED <<task_state, wait_result>>
     \/ \E s \in Tasks :
           /\ IsFirst(s, sleepers)
           /\ task_state' = [task_state EXCEPT ![s] = "Ready"]
           /\ wait_result' = [wait_result EXCEPT ![s] = 0]
  /\ sem_lock' = None
  /\ Goto(t, "user")
  /\ UNCHANGED <<task_lock, count, waiters, wait_on, wait_deadline, last_hart, hartVars>>

-----------------------------------------------------------------------------
Scheduler(h) == \/ scheduler_run(h) \/ scheduler_idle(h)
                \/ wfi_return(h) \/ scheduler_back(h)

(* What a task does inside the kernel without having a choice. *)
KernelStep(h, t) ==
  \/ task_return(h, t) \/ switch_out(h, t) \/ sem_enter(h, t)
  \/ task_sleep(h, t) \/ task_sleep_woken(h, t) \/ sem_relock(h, t)
  \/ sem_post(h, t) \/ task_wake(h, t)

UserChoice(h, t) ==
  \/ schedule(h, t)
  \/ \E call \in {"sem_wait", "sem_timedwait"} : sem_call(h, t, call)
  \/ post_call(h, t)

Next == \/ \E h \in Harts : Scheduler(h)
        \/ \E h \in Harts, t \in Tasks : KernelStep(h, t) \/ UserChoice(h, t)
        \/ \E t \in Tasks : deadline_passes(t)

Spec == Init /\ [][Next]_vars

(* A hart's timer interrupts wfi and user mode again and again, kernel code  *)
(* runs on, and a hart spinning on a lock that is released again and again   *)
(* gets it in the end (the exchange of spin_lock has no other guarantee of   *)
(* progress than the hardware's).                                            *)
Fairness ==
  /\ \A h \in Harts : /\ WF_vars(wfi_return(h)) /\ WF_vars(scheduler_back(h))
                      /\ SF_vars(scheduler_run(h) \/ scheduler_idle(h))
  /\ \A h \in Harts, t \in Tasks :
        /\ SF_vars(KernelStep(h, t))
        /\ SF_vars(schedule(h, t))
  /\ \A t \in Tasks : WF_vars(deadline_passes(t))

FairSpec == Spec /\ Fairness

-----------------------------------------------------------------------------
(* The tasks that sem->wait.waiters counts. *)
Waiting == {t \in Tasks : pc[t] \in {"sleep", "asleep", "woken", "relock"}}
Asleep  == {t \in Tasks : task_state[t] = "Sleeping"}
(* Woken by a post, and going to test the count again. *)
Granted == {t \in Waiting : pc[t] \in {"woken", "relock"} /\ t \notin Asleep
                            /\ wait_result[t] = 0}
Posting == {t \in Tasks : pc[t] = "wake"}

(* No two harts ever run on the stack of one task, and a task that is not    *)
(* Running is on a hart only while that hart, holding task_lock, is about to *)
(* leave it: a task put back or to sleep by one hart cannot be picked by     *)
(* another before its context is saved (task.c:384-387, 405-411).            *)
OneHartPerTask ==
  /\ \A g, h \in Harts :
        hpc[g] = "task" /\ hpc[h] = "task" /\ proc[g] = proc[h] => g = h
  /\ \A h \in Harts : hpc[h] = "task" =>
        \/ task_state[proc[h]] = "Running"
        \/ pc[proc[h]] \in {"yield", "asleep"} /\ task_lock = h

(* No spinlock is held across a context switch or outside the kernel: user   *)
(* code runs without locks, a hart in its scheduler loop holds none, and a   *)
(* task that sleeps has given up the semaphore's lock                        *)
(* (docs/quard-star-riscv64-net-design.md:499).                              *)
NoSpinlockAcrossSwitch ==
  \A h \in Harts :
     /\ hpc[h] \in {"loop", "wfi"} => task_lock # h /\ sem_lock # h
     /\ hpc[h] = "back" => task_lock = h /\ sem_lock # h
     /\ hpc[h] = "task" /\ pc[proc[h]] = "user" => task_lock # h /\ sem_lock # h
     /\ hpc[h] = "task" /\ pc[proc[h]] \in {"asleep", "yield"} => sem_lock # h

(* Context switches are clean. *)
SwitchesClean == TypeOK /\ OneHartPerTask /\ NoSpinlockAcrossSwitch

(* No wakeup is lost: while a task sleeps on the semaphore, every token has  *)
(* an awake waiter that will test the count again, or a poster that is about *)
(* to wake one; a timeout never swallows the wakeup of a post.  And          *)
(* sem->wait.waiters is exact, so that sem_post calls task_wake whenever a   *)
(* task may be asleep.                                                       *)
NoLostWakeup ==
  /\ Asleep # {} => count <= Cardinality(Granted) + Cardinality(Posting)
  /\ waiters = Cardinality(Waiting)

(* How the semaphore looks to its users. *)
UserOf(t) ==
  CASE pc[t] = "post" -> "post"
    [] pc[t] = "sem" -> IF wait_deadline[t] = "forever" THEN "look" ELSE "lookTimed"
    [] pc[t] \in {"sleep", "asleep", "woken", "relock"} ->
         IF wait_deadline[t] = "forever" THEN "wait" ELSE "waitTimed"
    [] OTHER -> "out"

userBar == [t \in Tasks |-> UserOf(t)]

Sem == INSTANCE CountingSem WITH Users <- Tasks, tokens <- count, user <- userBar

(* sem_wait, sem_timedwait and sem_post on top of task_sleep and task_wake    *)
(* implement an atomic counting semaphore.                                   *)
ImplementsCountingSem == Sem!Spec

(* A sleeper and a token do not stay together for ever. *)
TokenReachesSleeper ==
  \A t \in Tasks :
     (task_state[t] = "Sleeping" /\ count > 0) ~> (task_state[t] # "Sleeping" \/ count = 0)

(* A timed sleeper is made ready again, though only passes of the scheduler  *)
(* loop look at deadlines: idle harts keep passing because their timers      *)
(* tick, busy ones because ticks preempt user code.                          *)
DeadlineWakes ==
  \A t \in Tasks :
     (task_state[t] = "Sleeping" /\ wait_deadline[t] # "forever")
        ~> task_state[t] # "Sleeping"

(* Ready work is never left lying: although a hart declines a task it ran    *)
(* last while another hart is idle, some hart takes it (or another one).     *)
ReadyWorkIsRun ==
  (\E t \in Tasks : task_state[t] = "Ready")
     ~> (\E t \in Tasks : task_state[t] = "Running")
=============================================================================
