----------------------------- MODULE ProcTable -----------------------------
(***************************************************************************)
(* Process creation, exit and wait of kernel/src/task.c: the table tasks[] *)
(* under task_lock, and the semaphore child_exit that lives inside each    *)
(* entry and is reset whenever the entry is used again.                    *)
(*                                                                         *)
(* A step is one critical section of task_lock or of a child_exit lock.    *)
(* Which hart runs a process is the subject of Sched: here every process   *)
(* that is not asleep may take the next step, and a lock is held by the    *)
(* process on whose stack the hart took it.                                *)
(***************************************************************************)
EXTENDS Integers

CONSTANTS MAX_TASKS,      \* length of tasks[]
          QS_M2C_TEST,    \* the build flag: wait() polls with a deadline
          KallocFails,    \* whether the frame allocator may run dry in uvmcopy
          MaxTokens       \* bound: nobody exits while a count is at MaxTokens

ASSUME ProcAssumption == /\ MAX_TASKS \in Nat \ {0}
                         /\ QS_M2C_TEST \in BOOLEAN
                         /\ KallocFails \in BOOLEAN
                         /\ MaxTokens \in Nat

Procs   == 0 .. (MAX_TASKS - 1)
InitProc == 0              \* &tasks[0]
NoOne   == -1              \* the null pointer, and the owner of a free lock

(* Locals, and wait_result, are reset where the code reads them last. *)
VARIABLES
  task_state, parent,      \* struct TaskControlBlock
  memory,                  \* what uvmcopy left in the user address space
  lock, count, waiters,    \* child_exit, per entry
  wait_result,             \* -1 from a timeout until wait() has seen it, else 0
  pc,                      \* where each process is in its kernel code
  np, parent_exit          \* locals of __sys_fork and lock_parent_exit

tableVars == <<task_state, parent, memory>>
semVars   == <<lock, count, waiters>>
vars      == <<tableVars, semVars, wait_result, pc, np, parent_exit>>

(* Ready stands for Ready and Running. *)
States == {"UnInit", "Creating", "Ready", "Sleeping", "Zombie"}
(* "fork": between the two critical sections of __sys_fork; "scan" to        *)
(* "asleep": in wait(); "parent" to "unlock": in lock_parent_exit().         *)
PCs == {"user", "fork", "scan", "sem", "sleep", "asleep",
        "parent", "lock", "check", "unlock", "dead", "panic"}

(* Type correctness of the process table and of every process's locals. *)
TypeOK ==
  /\ task_state \in [Procs -> States]
  /\ parent \in [Procs -> Procs \cup {NoOne}]
  /\ memory \in [Procs -> {"none", "whole", "partial"}]
  /\ lock \in [Procs -> Procs \cup {NoOne}]
  /\ count \in [Procs -> Nat]
  /\ waiters \in [Procs -> Int]
  /\ wait_result \in [Procs -> {0, -1}]
  /\ pc \in [Procs -> PCs]
  /\ np \in [Procs -> Procs]
  /\ parent_exit \in [Procs -> Procs]

(* procinit, then app_init(0) in main(). *)
Init ==
  /\ task_state = [p \in Procs |-> IF p = InitProc THEN "Ready" ELSE "UnInit"]
  /\ parent = [p \in Procs |-> NoOne]
  /\ memory = [p \in Procs |-> IF p = InitProc THEN "whole" ELSE "none"]
  /\ lock = [p \in Procs |-> NoOne]
  /\ count = [p \in Procs |-> 0]
  /\ waiters = [p \in Procs |-> 0]
  /\ wait_result = [p \in Procs |-> 0]
  /\ pc = [p \in Procs |-> IF p = InitProc THEN "user" ELSE "dead"]
  /\ np = [p \in Procs |-> InitProc]
  /\ parent_exit = [p \in Procs |-> InitProc]

IsFirst(p, S) == p \in S /\ \A q \in S : p <= q
Free          == {p \in Procs : task_state[p] = "UnInit"}
Children(p)   == {c \in Procs : parent[c] = p}
Zombies(p)    == {c \in Children(p) : task_state[c] = "Zombie"}
Goto(p, where) == pc' = [pc EXCEPT ![p] = where]

(* Process p is on a hart, at the given point of its kernel code. *)
At(p, where) == task_state[p] = "Ready" /\ pc[p] = where

-----------------------------------------------------------------------------
(* __sys_fork *)

(* allocproc finds an entry and task_reset_wait, with it sem_init, resets    *)
(* its semaphore.  (When the table is full, __sys_fork returns -1 and        *)
(* changes nothing.)                                                         *)
allocproc(p) ==
  /\ At(p, "user")
  /\ \E c \in Procs :
        /\ IsFirst(c, Free)
        /\ task_state' = [task_state EXCEPT ![c] = "Creating"]
        /\ lock' = [lock EXCEPT ![c] = NoOne]
        /\ count' = [count EXCEPT ![c] = 0]
        /\ waiters' = [waiters EXCEPT ![c] = 0]
        /\ wait_result' = [wait_result EXCEPT ![c] = 0]
        /\ np' = [np EXCEPT ![p] = c]
  /\ Goto(p, "fork")
  /\ UNCHANGED <<parent, memory, parent_exit>>

(* uvmcopy, whose result is dropped: it stops at the first page for which    *)
(* kalloc fails.  Then the child is published.                               *)
fork_publish(p) ==
  /\ At(p, "fork")
  /\ \E copied \in {"whole", "partial"} :
        /\ copied = "partial" => KallocFails
        /\ memory' = [memory EXCEPT ![np[p]] = copied]
  /\ parent' = [parent EXCEPT ![np[p]] = p]
  /\ task_state' = [task_state EXCEPT ![np[p]] = "Ready"]
  /\ pc' = [pc EXCEPT ![p] = "user", ![np[p]] = "user"]
  /\ np' = [np EXCEPT ![p] = InitProc]
  /\ UNCHANGED <<semVars, wait_result, parent_exit>>

-----------------------------------------------------------------------------
(* wait *)

wait_call(p) ==
  /\ At(p, "user")
  /\ Goto(p, "scan")
  /\ UNCHANGED <<tableVars, semVars, wait_result, np, parent_exit>>

(* The entry of c is free again: its memory and its link to the parent go. *)
freeproc_locked(c) ==
  /\ task_state' = [task_state EXCEPT ![c] = "UnInit"]
  /\ parent' = [parent EXCEPT ![c] = NoOne]
  /\ memory' = [memory EXCEPT ![c] = "none"]
  /\ wait_result' = [wait_result EXCEPT ![c] = 0]

(* The scan frees the first zombie child and returns, or returns at once     *)
(* when there is no child, or goes on to the semaphore.                      *)
wait_scan(p) ==
  /\ At(p, "scan")
  /\ \/ /\ \E c \in Procs : IsFirst(c, Zombies(p)) /\ freeproc_locked(c)
        /\ Goto(p, "user")
     \/ /\ Zombies(p) = {}
        /\ Goto(p, IF Children(p) = {} THEN "user" ELSE "sem")
        /\ UNCHANGED <<tableVars, wait_result>>
  /\ UNCHANGED <<semVars, np, parent_exit>>

(* sem_wait(&p->child_exit), or sem_timedwait, with w waiters counted: a     *)
(* token sends wait() back to the scan; without one p sleeps.                *)
TakeOrSleep(p, w) ==
  IF count[p] > 0
    THEN /\ count' = [count EXCEPT ![p] = @ - 1]
         /\ waiters' = [waiters EXCEPT ![p] = w]
         /\ Goto(p, "scan")
         /\ UNCHANGED lock
    ELSE /\ waiters' = [waiters EXCEPT ![p] = w + 1]
         /\ lock' = [lock EXCEPT ![p] = p]
         /\ Goto(p, "sleep")
         /\ UNCHANGED count

wait_sem(p) ==
  /\ At(p, "sem")
  /\ lock[p] = NoOne
  /\ TakeOrSleep(p, waiters[p])
  /\ UNCHANGED <<tableVars, wait_result, np, parent_exit>>

(* Mutant: the semaphore's lock is kept across the sleep. *)
wait_sleep_locked(p) ==
  /\ At(p, "sleep")
  /\ task_state' = [task_state EXCEPT ![p] = "Sleeping"]
  /\ wait_result' = [wait_result EXCEPT ![p] = 0]
  /\ Goto(p, "asleep")
  /\ UNCHANGED <<parent, memory, semVars, np, parent_exit>>

(* task_sleep: under task_lock, give up the semaphore's lock and sleep. *)
wait_sleep(p) ==
  /\ At(p, "sleep")
  /\ lock' = [lock EXCEPT ![p] = NoOne]
  /\ task_state' = [task_state EXCEPT ![p] = "Sleeping"]
  /\ wait_result' = [wait_result EXCEPT ![p] = 0]
  /\ Goto(p, "asleep")
  /\ UNCHANGED <<parent, memory, count, waiters, np, parent_exit>>

(* task_wake_expired_locked *)
wait_expire(p) ==
  /\ QS_M2C_TEST
  /\ task_state[p] = "Sleeping"
  /\ task_state' = [task_state EXCEPT ![p] = "Ready"]
  /\ wait_result' = [wait_result EXCEPT ![p] = -1]
  /\ UNCHANGED <<parent, memory, semVars, pc, np, parent_exit>>

(* Mutant: a timeout waits again without a new scan. *)
wait_relock_no_scan(p) ==
  /\ At(p, "asleep")
  /\ lock[p] = NoOne
  /\ IF wait_result[p] < 0
       THEN /\ waiters' = [waiters EXCEPT ![p] = @ - 1]
            /\ Goto(p, "sem")
            /\ UNCHANGED <<lock, count>>
       ELSE TakeOrSleep(p, waiters[p] - 1)
  /\ wait_result' = [wait_result EXCEPT ![p] = 0]
  /\ UNCHANGED <<tableVars, np, parent_exit>>

(* The end of task_sleep and the rest of sem_timedwait: wait() scans again   *)
(* after a timeout and after a token alike.                                  *)
wait_relock(p) ==
  /\ At(p, "asleep")
  /\ lock[p] = NoOne
  /\ IF wait_result[p] < 0
       THEN /\ waiters' = [waiters EXCEPT ![p] = @ - 1]
            /\ Goto(p, "scan")
            /\ UNCHANGED <<lock, count>>
       ELSE TakeOrSleep(p, waiters[p] - 1)
  /\ wait_result' = [wait_result EXCEPT ![p] = 0]
  /\ UNCHANGED <<tableVars, np, parent_exit>>

-----------------------------------------------------------------------------
(* exit_current_and_run_next *)

exit_call(p) ==
  /\ At(p, "user")
  /\ p # InitProc
  /\ \A q \in Procs : count[q] < MaxTokens
  /\ Goto(p, "parent")
  /\ UNCHANGED <<tableVars, semVars, wait_result, np, parent_exit>>

(* lock_parent_exit reads the parent under task_lock, ... *)
exit_parent(p) ==
  /\ At(p, "parent")
  /\ parent_exit' = [parent_exit EXCEPT ![p] = parent[p]]
  /\ Goto(p, "lock")
  /\ UNCHANGED <<tableVars, semVars, wait_result, np>>

(* ... takes the lock of what was its semaphore, ... *)
exit_lock(p) ==
  /\ At(p, "lock")
  /\ lock[parent_exit[p]] = NoOne
  /\ lock' = [lock EXCEPT ![parent_exit[p]] = p]
  /\ Goto(p, "check")
  /\ UNCHANGED <<tableVars, count, waiters, wait_result, np, parent_exit>>

(* Mutant: the children of p stay its children. *)
exit_zombie_keeps_children(p) ==
  LET q == parent_exit[p] IN
  /\ At(p, "check")
  /\ parent[p] = q
  /\ count' = [count EXCEPT ![q] = @ + 1]
  /\ task_state' = [task_state EXCEPT ![p] = "Zombie",
                                      ![q] = IF @ = "Sleeping" THEN "Ready" ELSE @]
  /\ lock' = [lock EXCEPT ![q] = NoOne]
  /\ Goto(p, "dead")
  /\ UNCHANGED <<parent, memory, waiters, wait_result, np, parent_exit>>

(* Mutant: nothing is posted to the parent. *)
exit_zombie_unposted(p) ==
  LET q == parent_exit[p] IN
  /\ At(p, "check")
  /\ parent[p] = q
  /\ parent' = [c \in Procs |-> IF parent[c] = p THEN InitProc ELSE parent[c]]
  /\ task_state' = [task_state EXCEPT ![p] = "Zombie"]
  /\ lock' = [lock EXCEPT ![q] = NoOne]
  /\ Goto(p, "dead")
  /\ UNCHANGED <<memory, count, waiters, wait_result, np, parent_exit>>

(* ... and checks under task_lock that it still is.  If so, p becomes a      *)
(* zombie, hands its children to init, posts and wakes its parent, all       *)
(* before task_lock is released behind __switch.                             *)
exit_zombie(p) ==
  LET q == parent_exit[p] IN
  /\ At(p, "check")
  /\ parent[p] = q
  /\ parent' = [c \in Procs |-> IF parent[c] = p THEN InitProc ELSE parent[c]]
  /\ count' = [count EXCEPT ![q] = @ + 1]
  /\ LET wakes == waiters[q] # 0 /\ task_state[q] = "Sleeping" IN
     /\ task_state' = [task_state EXCEPT ![p] = "Zombie",
                                         ![q] = IF wakes THEN "Ready" ELSE @]
     /\ wait_result' = [wait_result EXCEPT ![q] = IF wakes THEN 0 ELSE @]
  /\ IF lock[q] = p
       THEN /\ lock' = [lock EXCEPT ![q] = NoOne]
            /\ Goto(p, "dead")
       ELSE /\ Goto(p, "panic")
            /\ UNCHANGED lock
  /\ parent_exit' = [parent_exit EXCEPT ![p] = InitProc]
  /\ UNCHANGED <<memory, waiters, np>>

(* The parent has changed: start over. *)
exit_stale(p) ==
  /\ At(p, "check")
  /\ parent[p] # parent_exit[p]
  /\ Goto(p, "unlock")
  /\ UNCHANGED <<tableVars, semVars, wait_result, np, parent_exit>>

(* spin_unlock, which panics when the lock is not the caller's. *)
exit_unlock(p) ==
  /\ At(p, "unlock")
  /\ IF lock[parent_exit[p]] = p
       THEN /\ lock' = [lock EXCEPT ![parent_exit[p]] = NoOne]
            /\ Goto(p, "parent")
       ELSE /\ Goto(p, "panic")
            /\ UNCHANGED lock
  /\ UNCHANGED <<tableVars, count, waiters, wait_result, np, parent_exit>>

-----------------------------------------------------------------------------
fork(p) == allocproc(p) \/ fork_publish(p)
wait(p) == wait_call(p) \/ wait_scan(p) \/ wait_sem(p) \/ wait_sleep(p)
           \/ wait_expire(p) \/ wait_relock(p)
exit(p) == exit_call(p) \/ exit_parent(p) \/ exit_lock(p) \/ exit_zombie(p)
           \/ exit_stale(p) \/ exit_unlock(p)

Next == \E p \in Procs : fork(p) \/ wait(p) \/ exit(p)

Spec == Init /\ [][Next]_vars

(* What a process does inside the kernel without having a choice. *)
KernelStep(p) ==
  \/ fork_publish(p) \/ wait_scan(p) \/ wait_sem(p) \/ wait_sleep(p)
  \/ wait_relock(p) \/ exit_parent(p) \/ exit_lock(p) \/ exit_zombie(p)
  \/ exit_stale(p) \/ exit_unlock(p)

(* Kernel code runs on, a spinning hart gets a lock in the end, and a pass   *)
(* of some scheduler loop finds an expired deadline.                         *)
Fairness == \A p \in Procs : SF_vars(KernelStep(p)) /\ WF_vars(wait_expire(p))

FairSpec == Spec /\ Fairness

-----------------------------------------------------------------------------
(* Every process but init has a parent that is alive: neither an exit in the *)
(* middle of a fork or of another exit, nor the reuse of a table entry,      *)
(* leaves a pointer to a dead entry behind (task.c:474, 535-542, 515).       *)
ParentAlive ==
  \A p \in Procs :
     /\ parent[p] # NoOne => task_state[parent[p]] \in {"Ready", "Sleeping"}
     /\ task_state[p] \in {"Ready", "Sleeping", "Zombie"} /\ p # InitProc
           => parent[p] # NoOne

(* wait() misses no exit: while a process other than init is between a scan  *)
(* that found no zombie and its next scan, a child that has become a zombie  *)
(* since has left it a token, has woken it, or finds it timed out; it is not *)
(* asleep, nor past the test of the count on its way to sleep.  (Init is     *)
(* left out: it also inherits zombies, for which nothing is posted.)         *)
WaitSeesExit ==
  \A p \in Procs \ {InitProc} : Zombies(p) # {} =>
     /\ pc[p] # "sleep" /\ task_state[p] # "Sleeping"
     /\ pc[p] = "sem" => count[p] > 0
     /\ pc[p] = "asleep" => count[p] > 0 \/ wait_result[p] < 0

(* A child_exit lock is held only by its owner on the way to sleep or by a   *)
(* process that is exiting: neither the owner's death nor its sleep leaves   *)
(* it held.                                                                  *)
ExitLockOwner ==
  \A p \in Procs : lock[p] # NoOne =>
     \/ lock[p] = p /\ pc[p] = "sleep"
     \/ pc[lock[p]] \in {"check", "unlock"} /\ parent_exit[lock[p]] = p

(* What makes these invariants inductive. *)
Alive(p)   == task_state[p] \in {"Ready", "Sleeping"}
Exiting(p) == pc[p] \in {"lock", "check", "unlock"}

(* Which states of a table entry go with which points of its code. *)
StateInv ==
  /\ Alive(InitProc) /\ parent[InitProc] = NoOne
  /\ pc[InitProc] \notin {"parent", "lock", "check", "unlock", "panic"}
  /\ \A p \in Procs :
       /\ Alive(p) <=> pc[p] # "dead"
       /\ task_state[p] = "Sleeping" => pc[p] = "asleep"
       /\ task_state[p] \in {"UnInit", "Creating"} => parent[p] = NoOne
       /\ parent[p] # p

(* A process in the middle of a fork owns the entry it reserved. *)
ForkInv ==
  \A p \in Procs : pc[p] = "fork" =>
     /\ task_state[np[p]] = "Creating"
     /\ \A q \in Procs : pc[q] = "fork" /\ np[q] = np[p] => q = p

(* The semaphore of a process that is alive counts its one possible waiter, *)
(* and its lock belongs to whom the code takes as the holder, except where  *)
(* an exiting process has been given a new parent.                          *)
LockInv ==
  \A p \in Procs :
     /\ task_state[p] = "Creating" => waiters[p] = 0
     /\ Alive(p) => waiters[p] = (IF pc[p] \in {"sleep", "asleep"} THEN 1 ELSE 0)
     /\ pc[p] = "sleep" => lock[p] = p
     /\ Exiting(p) => /\ parent_exit[p] # p
                      /\ parent[p] \in {parent_exit[p], InitProc}
     /\ pc[p] = "check" /\ parent[p] = parent_exit[p] => lock[parent_exit[p]] = p

IInv == /\ TypeOK /\ StateInv /\ ForkInv /\ LockInv
        /\ ParentAlive /\ ExitLockOwner /\ WaitSeesExit

(* A process in wait() that has a zombie child leaves wait(): init too, in   *)
(* the build whose wait() polls.                                             *)
WaitReturns ==
  \A p \in Procs :
     (pc[p] \in {"scan", "sem", "sleep", "asleep"} /\ Zombies(p) # {}
        /\ (p # InitProc \/ QS_M2C_TEST))
        ~> pc[p] \notin {"scan", "sem", "sleep", "asleep"}

(* spin_unlock's assertion "not owner" (spinlock.c:51-52) never fails. *)
NoPanic == \A p \in Procs : pc[p] # "panic"

=============================================================================
