---------------------------- MODULE SchedProofs ----------------------------
(***************************************************************************)
(* The scheduler and the semaphore, for any number of tasks and harts:     *)
(* context switches are clean, no wakeup is lost, and sem_wait,            *)
(* sem_timedwait and sem_post implement CountingSem.                       *)
(***************************************************************************)
EXTENDS Sched, FiniteSetTheorems, TLAPS

OnHart(t) == \E h \in Harts : On(h, t)

(* Where a task on a hart holds task_lock, and where sem_lock. *)
HoldsTaskLock == {"first", "resumed", "woken", "yield", "asleep"}
HoldsSemLock  == {"sleep", "wake"}
(* Where a task is when it is on no hart. *)
SwitchedOut == {"first", "resumed", "woken"}
Leaving     == {"yield", "asleep"}

(* A stack has one hart at most. *)
StackInv ==
  /\ \A h \in Harts : hpc[h] = "task" => proc[h] \in Tasks
  /\ \A g, h \in Harts : hpc[g] = "task" /\ hpc[h] = "task" /\ proc[g] = proc[h] => g = h

(* Who holds the two locks. *)
LockInv ==
  \A h \in Harts :
     /\ task_lock = h <=> \/ hpc[h] = "back"
                          \/ hpc[h] = "task" /\ pc[proc[h]] \in HoldsTaskLock
     /\ sem_lock = h <=> hpc[h] = "task" /\ pc[proc[h]] \in HoldsSemLock

(* What the state of a task says of where it is. *)
PointOf(t) ==
  /\ OnHart(t) \/ pc[t] \in SwitchedOut
  /\ task_state[t] = "Running" <=> OnHart(t) /\ pc[t] \notin Leaving
  /\ task_state[t] = "Sleeping" => pc[t] \in {"asleep", "woken"} /\ wait_on[t]

PointInv == \A t \in Tasks : PointOf(t)

SwitchInv == TypeOK /\ StackInv /\ LockInv /\ PointInv

(* What a task in sem_timedwait knows: that there was no token, as long as   *)
(* it holds sem_lock; and that only a timed wait times out.                  *)
WaitOf(t) ==
  /\ pc[t] = "sleep" => count = 0
  /\ pc[t] \in {"asleep", "woken", "relock"} /\ wait_result[t] = -1 =>
        wait_deadline[t] # "forever"

WaitInv == \A t \in Tasks : WaitOf(t)

IInv == SwitchInv /\ WaitInv /\ NoLostWakeup

-----------------------------------------------------------------------------
(* None is neither a hart nor a task. *)
LEMMA NoneIsNobody == None \notin Harts /\ None \notin Tasks
BY SizeAssumption DEF None, Harts, Tasks

(* procinit leaves all tasks off the harts and the locks free. *)
LEMMA InitSwitchInv == Init => SwitchInv
<1> SUFFICES ASSUME Init PROVE SwitchInv
  OBVIOUS
<1>1. TypeOK
  BY SizeAssumption DEF Init, TypeOK, HartPCs, TaskPCs
<1>2. StackInv
  BY DEF Init, StackInv
<1>3. LockInv
  BY NoneIsNobody DEF Init, LockInv
<1>4. PointInv
  <2> SUFFICES ASSUME NEW t \in Tasks PROVE PointOf(t)
    BY DEF PointInv
  <2>1. ~OnHart(t)
    BY DEF Init, OnHart, On
  <2> QED
    BY <2>1 DEF Init, PointOf, SwitchedOut
<1> QED
  BY <1>1, <1>2, <1>3, <1>4 DEF SwitchInv

(* A step of a task on its stack: the locks follow the point it reaches. *)
LEMMA MoveKeepsLocks ==
  ASSUME SwitchInv, NEW h \in Harts, NEW t \in Tasks, On(h, t), NEW w \in TaskPCs,
         pc' = [pc EXCEPT ![t] = w], UNCHANGED <<hpc, proc>>,
         task_lock' = IF w \in HoldsTaskLock THEN h
                      ELSE IF pc[t] \in HoldsTaskLock THEN None ELSE task_lock,
         w \in HoldsTaskLock /\ pc[t] \notin HoldsTaskLock => task_lock = None,
         sem_lock' = IF w \in HoldsSemLock THEN h
                     ELSE IF pc[t] \in HoldsSemLock THEN None ELSE sem_lock,
         w \in HoldsSemLock /\ pc[t] \notin HoldsSemLock => sem_lock = None
  PROVE  StackInv' /\ LockInv' /\ \A u \in Tasks : OnHart(u)' <=> OnHart(u)
<1>1. pc \in [Tasks -> TaskPCs] /\ task_lock \in Harts \cup {None} /\ sem_lock \in Harts \cup {None}
  BY DEF SwitchInv, TypeOK
<1>2. StackInv /\ LockInv
  BY DEF SwitchInv
<1>3. hpc[h] = "task" /\ proc[h] = t /\ pc'[t] = w
  BY <1>1 DEF On
<1>4. \A g \in Harts : g # h /\ hpc[g] = "task" => pc'[proc[g]] = pc[proc[g]]
  BY <1>1, <1>2, <1>3 DEF StackInv
<1>5. StackInv'
  BY <1>2 DEF StackInv
<1>6. ASSUME NEW g \in Harts
      PROVE  task_lock' = g <=> \/ hpc'[g] = "back"
                                \/ hpc'[g] = "task" /\ pc'[proc'[g]] \in HoldsTaskLock
  <2>1. task_lock = g <=> \/ hpc[g] = "back"
                          \/ hpc[g] = "task" /\ pc[proc[g]] \in HoldsTaskLock
    BY <1>2 DEF LockInv
  <2>2. task_lock = h <=> pc[t] \in HoldsTaskLock
    BY <1>2, <1>3 DEF LockInv
  <2> QED
    BY <1>1, <1>3, <1>4, <2>1, <2>2, NoneIsNobody
<1>7. ASSUME NEW g \in Harts
      PROVE  sem_lock' = g <=> hpc'[g] = "task" /\ pc'[proc'[g]] \in HoldsSemLock
  <2>1. sem_lock = g <=> hpc[g] = "task" /\ pc[proc[g]] \in HoldsSemLock
    BY <1>2 DEF LockInv
  <2>2. sem_lock = h <=> pc[t] \in HoldsSemLock
    BY <1>2, <1>3 DEF LockInv
  <2> QED
    BY <1>1, <1>3, <1>4, <2>1, <2>2, NoneIsNobody
<1>8. LockInv'
  BY <1>6, <1>7 DEF LockInv
<1>9. \A u \in Tasks : OnHart(u)' <=> OnHart(u)
  BY DEF OnHart, On
<1> QED
  BY <1>5, <1>8, <1>9

(* Such a step changes the state of its own task, and may wake others. *)
LEMMA MoveKeepsPoints ==
  ASSUME SwitchInv, NEW h \in Harts, NEW t \in Tasks, On(h, t), NEW w \in TaskPCs,
         pc' = [pc EXCEPT ![t] = w], \A u \in Tasks : OnHart(u)' <=> OnHart(u),
         task_state'[t] = "Running" <=> w \notin Leaving,
         task_state'[t] = "Sleeping" => w = "asleep" /\ wait_on'[t],
         \A u \in Tasks \ {t} : /\ task_state'[u] = "Running" <=> task_state[u] = "Running"
                                /\ task_state'[u] = "Sleeping" => task_state[u] = "Sleeping"
                                /\ wait_on'[u] = wait_on[u]
  PROVE  PointInv'
<1>1. pc \in [Tasks -> TaskPCs] /\ PointInv
  BY DEF SwitchInv, TypeOK
<1>2. OnHart(t)
  BY DEF OnHart
<1> SUFFICES ASSUME NEW u \in Tasks PROVE PointOf(u)'
  BY DEF PointInv
<1>3. CASE u = t
  BY <1>1, <1>2, <1>3 DEF PointOf
<1>4. CASE u # t
  BY <1>1, <1>4 DEF PointInv, PointOf
<1> QED
  BY <1>3, <1>4

(* The steps a task takes on its stack. *)
LEMMA TaskSwitchInv ==
  ASSUME SwitchInv, NEW h \in Harts, NEW t \in Tasks,
         \/ task_return(h, t) \/ sem_enter(h, t) \/ task_sleep(h, t) \/ task_sleep_woken(h, t)
         \/ sem_relock(h, t) \/ sem_post(h, t) \/ task_wake(h, t) \/ UserChoice(h, t)
  PROVE  SwitchInv'
<1>1. TypeOK /\ PointInv /\ LockInv /\ StackInv
  BY DEF SwitchInv
<1>2. On(h, t) /\ UNCHANGED <<hpc, proc, idle>>
  BY DEF task_return, sem_enter, task_sleep, task_sleep_woken, sem_relock, sem_post, task_wake,
         UserChoice, schedule, sem_call, post_call, hartVars
<1>3. OnHart(t) /\ (task_state[t] = "Running" <=> pc[t] \notin Leaving)
  BY <1>1, <1>2 DEF PointInv, PointOf, OnHart
<1>4. ASSUME TypeOK', NEW w \in TaskPCs, pc' = [pc EXCEPT ![t] = w],
             task_lock' = IF w \in HoldsTaskLock THEN h
                          ELSE IF pc[t] \in HoldsTaskLock THEN None ELSE task_lock,
             w \in HoldsTaskLock /\ pc[t] \notin HoldsTaskLock => task_lock = None,
             sem_lock' = IF w \in HoldsSemLock THEN h
                         ELSE IF pc[t] \in HoldsSemLock THEN None ELSE sem_lock,
             w \in HoldsSemLock /\ pc[t] \notin HoldsSemLock => sem_lock = None,
             task_state'[t] = "Running" <=> w \notin Leaving,
             task_state'[t] = "Sleeping" => w = "asleep" /\ wait_on'[t],
             \A u \in Tasks \ {t} : /\ task_state'[u] = "Running" <=> task_state[u] = "Running"
                                    /\ task_state'[u] = "Sleeping" => task_state[u] = "Sleeping"
                                    /\ wait_on'[u] = wait_on[u]
      PROVE  SwitchInv'
  <2>1. StackInv' /\ LockInv' /\ \A u \in Tasks : OnHart(u)' <=> OnHart(u)
    BY <1>2, <1>4, MoveKeepsLocks
  <2>2. PointInv'
    BY <1>2, <1>4, <2>1, MoveKeepsPoints
  <2> QED
    BY <1>4, <2>1, <2>2 DEF SwitchInv
<1> DEFINE Quiet == UNCHANGED <<task_state, wait_on>>
<1>5. ASSUME Quiet, pc[t] \notin Leaving
      PROVE  /\ task_state'[t] = "Running"
             /\ \A u \in Tasks \ {t} : /\ task_state'[u] = "Running" <=> task_state[u] = "Running"
                                       /\ task_state'[u] = "Sleeping" => task_state[u] = "Sleeping"
                                       /\ wait_on'[u] = wait_on[u]
  BY <1>3, <1>5
<1> USE DEF HoldsTaskLock, HoldsSemLock, Leaving
<1>6. CASE task_return(h, t)
  <2>1. /\ TypeOK' /\ pc' = [pc EXCEPT ![t] = "user"] /\ "user" \in TaskPCs
        /\ pc[t] \in {"first", "resumed"} /\ task_lock' = None /\ sem_lock' = sem_lock /\ Quiet
    BY <1>1, <1>2, <1>6 DEF TypeOK, task_return, Goto, semVars, taskVars, TaskPCs
  <2> HIDE DEF Quiet
  <2> QED
    BY <1>4, <1>5, <2>1
<1>7. CASE schedule(h, t)
  <2>1. /\ TypeOK' /\ pc' = [pc EXCEPT ![t] = "yield"] /\ "yield" \in TaskPCs
        /\ pc[t] = "user" /\ task_lock = None /\ task_lock' = h /\ sem_lock' = sem_lock
        /\ task_state' = [task_state EXCEPT ![t] = "Ready"] /\ wait_on' = wait_on
        /\ task_state \in [Tasks -> {"Ready", "Running", "Sleeping"}]
    BY <1>1, <1>2, <1>7 DEF TypeOK, schedule, Goto, semVars, TaskPCs
  <2> QED
    BY <1>4, <2>1
<1>8. CASE post_call(h, t) \/ \E call \in {"sem_wait", "sem_timedwait"} : sem_call(h, t, call)
  <2>1. PICK w \in {"post", "sem"} : pc' = [pc EXCEPT ![t] = w]
    BY <1>8 DEF post_call, sem_call, Goto
  <2>2. /\ TypeOK' /\ w \in TaskPCs
        /\ pc[t] = "user" /\ task_lock' = task_lock /\ sem_lock' = sem_lock /\ Quiet
    BY <1>1, <1>2, <1>8, <2>1 DEF TypeOK, post_call, sem_call, semVars, taskVars, TaskPCs
  <2> HIDE DEF Quiet
  <2> QED
    BY <1>4, <1>5, <2>1, <2>2
<1>9. CASE sem_enter(h, t) \/ sem_relock(h, t)
  <2>1. PICK w \in {"user", "sleep"} :
          /\ pc' = [pc EXCEPT ![t] = w]
          /\ sem_lock' = IF w = "sleep" THEN h ELSE sem_lock
    BY <1>9 DEF sem_enter, sem_relock, TakeOrSleep, Goto
  <2>2. /\ count' \in Nat /\ waiters' \in Int
        /\ wait_deadline' \in [Tasks -> {"forever", "future", "past"}]
    BY <1>1, <1>9 DEF TypeOK, sem_enter, sem_relock, TakeOrSleep
  <2>3. /\ w \in TaskPCs /\ pc[t] \in {"sem", "relock"} /\ sem_lock = None
        /\ task_lock' = task_lock /\ Quiet /\ UNCHANGED <<wait_result, last_hart>>
    BY <1>9 DEF sem_enter, sem_relock, TaskPCs
  <2>4. TypeOK'
    BY <1>1, <1>2, <2>1, <2>2, <2>3 DEF TypeOK
  <2> HIDE DEF Quiet
  <2> QED
    BY <1>4, <1>5, <2>1, <2>3, <2>4
<1>10. CASE task_sleep(h, t)
  <2>1. /\ TypeOK' /\ pc' = [pc EXCEPT ![t] = "asleep"] /\ "asleep" \in TaskPCs
        /\ pc[t] = "sleep" /\ task_lock = None /\ task_lock' = h /\ sem_lock' = None
        /\ task_state' = [task_state EXCEPT ![t] = "Sleeping"]
        /\ wait_on' = [wait_on EXCEPT ![t] = TRUE]
        /\ task_state \in [Tasks -> {"Ready", "Running", "Sleeping"}]
        /\ wait_on \in [Tasks -> BOOLEAN]
    BY <1>1, <1>2, <1>10 DEF TypeOK, task_sleep, Goto, TaskPCs
  <2> QED
    BY <1>4, <2>1
<1>11. CASE task_sleep_woken(h, t)
  <2>1. /\ TypeOK' /\ pc' = [pc EXCEPT ![t] = "relock"] /\ "relock" \in TaskPCs
        /\ pc[t] = "woken" /\ task_lock' = None /\ sem_lock' = sem_lock
        /\ task_state' = task_state /\ wait_on' = [wait_on EXCEPT ![t] = FALSE]
        /\ wait_on \in [Tasks -> BOOLEAN]
    BY <1>1, <1>2, <1>11 DEF TypeOK, task_sleep_woken, Goto, semVars, TaskPCs
  <2> QED
    BY <1>3, <1>4, <2>1
<1>12. CASE sem_post(h, t)
  <2>1. PICK w \in {"user", "wake"} :
          /\ pc' = [pc EXCEPT ![t] = w]
          /\ sem_lock' = IF w = "wake" THEN h ELSE sem_lock
    BY <1>12 DEF sem_post, Goto
  <2>2. /\ TypeOK' /\ w \in TaskPCs /\ pc[t] = "post" /\ sem_lock = None
        /\ task_lock' = task_lock /\ Quiet
    BY <1>1, <1>2, <1>12, <2>1 DEF TypeOK, sem_post, taskVars, TaskPCs
  <2> HIDE DEF Quiet
  <2> QED
    BY <1>4, <1>5, <2>1, <2>2
<1>13. CASE task_wake(h, t)
  <2>1. /\ pc' = [pc EXCEPT ![t] = "user"] /\ "user" \in TaskPCs
        /\ pc[t] = "wake" /\ task_lock = None /\ task_lock' = task_lock /\ sem_lock' = None
        /\ wait_on' = wait_on /\ UNCHANGED <<count, waiters, wait_deadline, last_hart>>
    BY <1>13 DEF task_wake, Goto, TaskPCs
  <2>2. \/ UNCHANGED <<task_state, wait_result>>
        \/ \E s \in Tasks : /\ task_state[s] = "Sleeping"
                            /\ task_state' = [task_state EXCEPT ![s] = "Ready"]
                            /\ wait_result' = [wait_result EXCEPT ![s] = 0]
    BY <1>13 DEF task_wake, IsFirst
  <2>3. TypeOK'
    BY <1>1, <1>2, <2>1, <2>2 DEF TypeOK
  <2>4. task_state[t] = "Running" /\ task_state \in [Tasks -> {"Ready", "Running", "Sleeping"}]
    BY <1>1, <1>3, <2>1 DEF TypeOK
  <2>5. /\ task_state'[t] = "Running"
        /\ \A u \in Tasks \ {t} : /\ task_state'[u] = "Running" <=> task_state[u] = "Running"
                                  /\ task_state'[u] = "Sleeping" => task_state[u] = "Sleeping"
    BY <2>2, <2>4
  <2> QED
    BY <1>4, <2>1, <2>3, <2>5
<1> QED
  BY <1>6, <1>7, <1>8, <1>9, <1>10, <1>11, <1>12, <1>13 DEF UserChoice

(* A task is picked only when its context is saved. *)
LEMMA PickedIsOff ==
  ASSUME SwitchInv, task_lock = None, NEW t \in Tasks, task_state[t] # "Running"
  PROVE  ~OnHart(t) /\ pc[t] \in SwitchedOut
<1>1. PointOf(t) /\ LockInv
  BY DEF SwitchInv, PointInv
<1>2. ASSUME NEW g \in Harts, On(g, t) PROVE FALSE
  <2>1. pc[t] \in Leaving
    BY <1>1, <1>2 DEF PointOf, OnHart
  <2>2. task_lock = g
    BY <1>1, <1>2, <2>1 DEF LockInv, On, Leaving, HoldsTaskLock
  <2> QED
    BY <2>2, NoneIsNobody
<1> QED
  BY <1>1, <1>2 DEF OnHart, PointOf

(* Expiry makes sleepers ready and touches nobody else. *)
LEMMA ExpiryKeepsOthers ==
  ASSUME TypeOK
  PROVE  /\ StateAfterExpiry \in [Tasks -> {"Ready", "Running", "Sleeping"}]
         /\ ResultAfterExpiry \in [Tasks -> {0, -1}]
         /\ \A t \in Tasks :
              /\ StateAfterExpiry[t] = "Running" <=> task_state[t] = "Running"
              /\ StateAfterExpiry[t] = "Sleeping" => task_state[t] = "Sleeping"
              /\ task_state[t] # "Sleeping" =>
                    StateAfterExpiry[t] = task_state[t] /\ ResultAfterExpiry[t] = wait_result[t]
BY DEF TypeOK, StateAfterExpiry, ResultAfterExpiry, Expired

(* The steps of the scheduler loop, and the two directions of __switch. *)
LEMMA HartSwitchInv ==
  ASSUME SwitchInv, NEW h \in Harts,
         Scheduler(h) \/ \E t \in Tasks : switch_out(h, t)
  PROVE  SwitchInv'
<1>1. TypeOK /\ PointInv /\ LockInv /\ StackInv
  BY DEF SwitchInv
<1>2. /\ hpc \in [Harts -> HartPCs] /\ proc \in [Harts -> Tasks \cup {None}]
      /\ pc \in [Tasks -> TaskPCs] /\ task_lock \in Harts \cup {None}
  BY <1>1 DEF TypeOK
<1>3. CASE scheduler_run(h)
  <2>1. PICK t \in Tasks : /\ StateAfterExpiry[t] = "Ready"
                           /\ task_state' = [StateAfterExpiry EXCEPT ![t] = "Running"]
                           /\ last_hart' = [last_hart EXCEPT ![t] = h]
                           /\ proc' = [proc EXCEPT ![h] = t]
    BY <1>3 DEF scheduler_run, pick_runnable, IsFirst, Migrating, Ready
  <2>2. /\ hpc[h] = "loop" /\ task_lock = None /\ task_lock' = h
        /\ hpc' = [hpc EXCEPT ![h] = "task"] /\ idle' = [idle EXCEPT ![h] = FALSE]
        /\ wait_result' = ResultAfterExpiry
        /\ UNCHANGED <<sem_lock, count, waiters, wait_on, wait_deadline, pc>>
    BY <1>3 DEF scheduler_run, semVars
  <2>3. ~OnHart(t) /\ pc[t] \in SwitchedOut
    BY <1>1, <2>1, <2>2, ExpiryKeepsOthers, PickedIsOff
  <2>4. TypeOK'
    BY <1>1, <2>1, <2>2, ExpiryKeepsOthers DEF TypeOK, HartPCs
  <2>5. \A u \in Tasks : OnHart(u)' <=> OnHart(u) \/ u = t
    BY <1>2, <2>1, <2>2 DEF OnHart, On
  <2>6. \A g \in Harts : hpc[g] = "task" => proc[g] # t
    BY <2>3 DEF OnHart, On
  <2>7. StackInv'
    BY <1>1, <1>2, <2>1, <2>2, <2>6 DEF StackInv
  <2>8. LockInv'
    BY <1>1, <1>2, <2>1, <2>2, <2>3, NoneIsNobody
      DEF LockInv, HoldsTaskLock, HoldsSemLock, SwitchedOut
  <2>9. ASSUME NEW u \in Tasks PROVE PointOf(u)'
    <3>1. CASE u = t
      BY <1>1, <2>1, <2>2, <2>3, <2>5, <3>1, ExpiryKeepsOthers DEF PointOf, SwitchedOut, Leaving
    <3>2. CASE u # t
      BY <1>1, <2>1, <2>2, <2>5, <3>2, ExpiryKeepsOthers DEF PointOf, PointInv
    <3> QED
      BY <3>1, <3>2
  <2> QED
    BY <2>4, <2>7, <2>8, <2>9 DEF SwitchInv, PointInv
<1>4. CASE scheduler_idle(h) \/ wfi_return(h)
  <2>1. /\ hpc[h] \in {"loop", "wfi"} /\ hpc' = [hpc EXCEPT ![h] = hpc'[h]]
        /\ hpc'[h] \in {"loop", "wfi"} /\ idle' \in [Harts -> BOOLEAN]
        /\ UNCHANGED <<task_lock, sem_lock, count, waiters, wait_on, wait_deadline, last_hart,
                       proc, pc>>
        /\ \/ UNCHANGED <<task_state, wait_result>>
           \/ task_state' = StateAfterExpiry /\ wait_result' = ResultAfterExpiry
    BY <1>1, <1>4 DEF scheduler_idle, wfi_return, semVars, taskVars, TypeOK
  <2>2. TypeOK'
    BY <1>1, <2>1, ExpiryKeepsOthers DEF TypeOK, HartPCs
  <2>3. \A u \in Tasks : OnHart(u)' <=> OnHart(u)
    BY <1>2, <2>1 DEF OnHart, On
  <2>4. StackInv' /\ LockInv'
    BY <1>1, <1>2, <2>1 DEF StackInv, LockInv
  <2>5. PointInv'
    BY <1>1, <2>1, <2>3, ExpiryKeepsOthers DEF PointInv, PointOf
  <2> QED
    BY <2>2, <2>4, <2>5 DEF SwitchInv
<1>5. CASE scheduler_back(h)
  <2>1. /\ hpc[h] = "back" /\ proc' = [proc EXCEPT ![h] = None] /\ hpc' = [hpc EXCEPT ![h] = "loop"]
        /\ task_lock' = None /\ UNCHANGED <<semVars, taskVars, idle, pc>>
    BY <1>5 DEF scheduler_back
  <2>2. TypeOK'
    BY <1>1, <2>1 DEF TypeOK, HartPCs, semVars, taskVars
  <2>3. \A u \in Tasks : OnHart(u)' <=> OnHart(u)
    BY <1>2, <2>1 DEF OnHart, On
  <2>4. task_lock = h
    BY <1>1, <2>1 DEF LockInv
  <2>5. StackInv' /\ LockInv'
    BY <1>1, <1>2, <2>1, <2>4, NoneIsNobody DEF StackInv, LockInv, semVars
  <2>6. PointInv'
    BY <1>1, <2>1, <2>3 DEF PointInv, PointOf, taskVars
  <2> QED
    BY <2>2, <2>5, <2>6 DEF SwitchInv
<1>6. ASSUME NEW t \in Tasks, switch_out(h, t) PROVE SwitchInv'
  <2>1. PICK w \in {"resumed", "woken"} :
          pc' = [pc EXCEPT ![t] = w] /\ (pc[t] = "asleep" => w = "woken")
    BY <1>6 DEF switch_out, Goto
  <2>2. /\ On(h, t) /\ pc[t] \in Leaving /\ hpc' = [hpc EXCEPT ![h] = "back"]
        /\ UNCHANGED <<task_lock, semVars, taskVars, proc, idle>>
    BY <1>6 DEF switch_out, Leaving
  <2>3. hpc[h] = "task" /\ proc[h] = t /\ OnHart(t) /\ task_lock = h /\ sem_lock # h
    BY <1>1, <2>2 DEF On, OnHart, LockInv, Leaving, HoldsTaskLock, HoldsSemLock
  <2>4. \A g \in Harts : g # h /\ hpc[g] = "task" => proc[g] \in Tasks /\ proc[g] # t
    BY <1>1, <2>3 DEF StackInv
  <2>5. TypeOK'
    BY <1>1, <2>1, <2>2 DEF TypeOK, HartPCs, TaskPCs, semVars, taskVars
  <2>6. \A u \in Tasks : OnHart(u)' <=> OnHart(u) /\ u # t
    BY <1>2, <2>2, <2>3, <2>4 DEF OnHart, On
  <2>7. StackInv'
    BY <1>1, <1>2, <2>2 DEF StackInv
  <2>8. LockInv'
    BY <1>1, <1>2, <2>1, <2>2, <2>3, <2>4 DEF LockInv, semVars
  <2>9. ASSUME NEW u \in Tasks PROVE PointOf(u)'
    <3>1. CASE u = t
      BY <1>1, <1>2, <2>1, <2>2, <2>3, <2>6, <3>1
        DEF PointInv, PointOf, taskVars, Leaving, SwitchedOut
    <3>2. CASE u # t
      BY <1>1, <1>2, <2>1, <2>2, <2>6, <3>2 DEF PointInv, PointOf, taskVars
    <3> QED
      BY <3>1, <3>2
  <2> QED
    BY <2>5, <2>7, <2>8, <2>9 DEF SwitchInv, PointInv
<1> QED
  BY <1>3, <1>4, <1>5, <1>6 DEF Scheduler

(* SwitchInv is preserved by every step. *)
LEMMA StepSwitchInv == SwitchInv /\ [Next]_vars => SwitchInv'
<1> SUFFICES ASSUME SwitchInv, [Next]_vars PROVE SwitchInv'
  OBVIOUS
<1>1. ASSUME UNCHANGED <<task_lock, semVars, task_state, wait_on, wait_result, last_hart, hartVars, pc>>,
             wait_deadline' \in [Tasks -> {"forever", "future", "past"}]
      PROVE  SwitchInv'
  <2>1. UNCHANGED <<task_lock, sem_lock, count, waiters, task_state, wait_on, wait_result,
                    last_hart, proc, idle, hpc, pc>>
    BY <1>1 DEF semVars, hartVars
  <2>2. TypeOK'
    BY <1>1, <2>1 DEF SwitchInv, TypeOK
  <2>3. StackInv' /\ LockInv'
    BY <2>1 DEF SwitchInv, StackInv, LockInv
  <2>4. \A u \in Tasks : OnHart(u)' <=> OnHart(u)
    BY <2>1 DEF OnHart, On
  <2>5. PointInv'
    BY <2>1, <2>4 DEF SwitchInv, PointInv, PointOf
  <2> QED
    BY <2>2, <2>3, <2>5 DEF SwitchInv
<1>2. CASE UNCHANGED vars
  BY <1>1, <1>2 DEF vars, taskVars, SwitchInv, TypeOK
<1>3. ASSUME NEW t \in Tasks, deadline_passes(t) PROVE SwitchInv'
  BY <1>1, <1>3 DEF deadline_passes, SwitchInv, TypeOK
<1>4. ASSUME NEW h \in Harts, Scheduler(h) PROVE SwitchInv'
  BY <1>4, HartSwitchInv
<1>5. ASSUME NEW h \in Harts, NEW t \in Tasks, KernelStep(h, t) \/ UserChoice(h, t)
      PROVE  SwitchInv'
  BY <1>5, HartSwitchInv, TaskSwitchInv DEF KernelStep
<1> QED
  BY <1>2, <1>3, <1>4, <1>5 DEF Next

(* Context switches are clean: SwitchesClean, for any tasks and harts. *)
THEOREM SwitchesAreClean == Spec => []SwitchesClean
<1>1. SwitchInv => SwitchesClean
  <2> SUFFICES ASSUME SwitchInv PROVE SwitchesClean
    OBVIOUS
  <2>1. TypeOK /\ StackInv /\ LockInv /\ PointInv
    BY DEF SwitchInv
  <2>2. ASSUME NEW h \in Harts, hpc[h] = "task"
        PROVE  \/ task_state[proc[h]] = "Running"
               \/ pc[proc[h]] \in {"yield", "asleep"} /\ task_lock = h
    <3>1. proc[h] \in Tasks /\ On(h, proc[h])
      BY <2>1, <2>2 DEF StackInv, On
    <3>2. PointOf(proc[h]) /\ OnHart(proc[h])
      BY <2>1, <3>1 DEF PointInv, OnHart
    <3>3. pc[proc[h]] \in Leaving => task_lock = h
      BY <2>1, <2>2 DEF LockInv, Leaving, HoldsTaskLock
    <3> QED
      BY <3>2, <3>3 DEF PointOf, Leaving
  <2>3. OneHartPerTask
    BY <2>1, <2>2 DEF OneHartPerTask, StackInv
  <2>4. NoSpinlockAcrossSwitch
    BY <2>1 DEF NoSpinlockAcrossSwitch, LockInv, HoldsTaskLock, HoldsSemLock
  <2> QED
    BY <2>1, <2>3, <2>4 DEF SwitchesClean
<1> QED
  BY <1>1, InitSwitchInv, StepSwitchInv, PTL DEF Spec

-----------------------------------------------------------------------------
(* Sets of tasks are finite, and are counted one by one. *)
LEMMA TaskSetsFinite ==
  ASSUME NEW S \in SUBSET Tasks
  PROVE  IsFiniteSet(S) /\ Cardinality(S) \in Nat /\ (Cardinality(S) = 0 <=> S = {})
<1>1. IsFiniteSet(Tasks)
  BY SizeAssumption, FS_Interval DEF Tasks
<1>2. IsFiniteSet(S)
  BY <1>1, FS_Subset
<1> QED
  BY <1>2, FS_CardinalityType, FS_EmptySet

(* One more. *)
LEMMA Gain ==
  ASSUME NEW S \in SUBSET Tasks, NEW x \in Tasks, x \notin S
  PROVE  Cardinality(S \cup {x}) = Cardinality(S) + 1
BY TaskSetsFinite, FS_AddElement

(* One less. *)
LEMMA Lose ==
  ASSUME NEW S \in SUBSET Tasks, NEW x \in S
  PROVE  Cardinality(S \ {x}) = Cardinality(S) - 1
BY TaskSetsFinite, FS_RemoveElement

(* A subset is not larger. *)
LEMMA Monotone ==
  ASSUME NEW T \in SUBSET Tasks, NEW S \in SUBSET T
  PROVE  Cardinality(S) <= Cardinality(T)
BY TaskSetsFinite, FS_Subset

(* The counted sets are sets of tasks, before and after a step. *)
LEMMA CountedSets ==
  /\ Waiting \in SUBSET Tasks /\ Granted \in SUBSET Tasks /\ Posting \in SUBSET Tasks
  /\ Waiting' \in SUBSET Tasks /\ Granted' \in SUBSET Tasks /\ Posting' \in SUBSET Tasks
BY DEF Waiting, Granted, Posting

(* Nobody is about to sleep, or to wake, while sem_lock is free. *)
LEMMA SemLockFree ==
  ASSUME SwitchInv, sem_lock = None, NEW u \in Tasks
  PROVE  pc[u] # "sleep" /\ pc[u] # "wake"
<1>1. ASSUME pc[u] \in HoldsSemLock PROVE FALSE
  <2>1. PICK g \in Harts : On(g, u)
    BY <1>1 DEF SwitchInv, PointInv, PointOf, OnHart, HoldsSemLock, SwitchedOut
  <2>2. sem_lock = g
    BY <1>1, <2>1 DEF SwitchInv, LockInv, On
  <2> QED
    BY <2>2, NoneIsNobody
<1> QED
  BY <1>1 DEF HoldsSemLock

(* procinit and sem_init: nobody waits. *)
LEMMA InitCounts == Init => WaitInv /\ NoLostWakeup
<1> SUFFICES ASSUME Init PROVE WaitInv /\ NoLostWakeup
  OBVIOUS
<1>1. WaitInv
  BY DEF Init, WaitInv, WaitOf
<1>2. Asleep = {} /\ Waiting = {}
  BY DEF Init, Asleep, Waiting
<1> QED
  BY <1>1, <1>2, FS_EmptySet DEF Init, NoLostWakeup

(* A step that takes nobody from the awake waiters and puts nobody to sleep. *)
LEMMA QuietKeepsCounts ==
  ASSUME NoLostWakeup, TypeOK, UNCHANGED <<count, waiters>>,
         Waiting' = Waiting, Posting' = Posting, Granted \subseteq Granted', Asleep' \subseteq Asleep
  PROVE  NoLostWakeup'
<1>1. Cardinality(Granted) <= Cardinality(Granted')
  BY Monotone, CountedSets
<1>2. Cardinality(Granted) \in Nat /\ Cardinality(Granted') \in Nat /\ Cardinality(Posting) \in Nat
  BY TaskSetsFinite, CountedSets
<1>3. waiters' = Cardinality(Waiting')
  BY DEF NoLostWakeup
<1>4. Asleep' # {} => count' <= Cardinality(Granted') + Cardinality(Posting')
  BY <1>1, <1>2 DEF NoLostWakeup, TypeOK
<1> QED
  BY <1>3, <1>4 DEF NoLostWakeup

(* A step that leaves no token needs no awake waiter. *)
LEMMA NoTokenKeepsCounts ==
  ASSUME count' = 0, waiters' = Cardinality(Waiting')
  PROVE  NoLostWakeup'
BY TaskSetsFinite, CountedSets DEF NoLostWakeup

(* The steps of the scheduler loop. *)
LEMMA SchedulerCounts ==
  ASSUME IInv, NEW h \in Harts, Scheduler(h)
  PROVE  WaitInv' /\ NoLostWakeup'
<1>1. TypeOK /\ PointInv /\ WaitInv /\ NoLostWakeup
  BY DEF IInv, SwitchInv
<1>2. /\ UNCHANGED <<count, waiters, wait_deadline, pc>>
      /\ \A u \in Tasks :
           \/ task_state[u] = "Sleeping" /\ wait_deadline[u] = "past"
           \/ /\ task_state'[u] = "Sleeping" => task_state[u] = "Sleeping"
              /\ wait_result'[u] = wait_result[u]
      /\ \A u \in Tasks : task_state'[u] = "Sleeping" => task_state[u] = "Sleeping"
  <2>1. CASE UNCHANGED <<count, waiters, taskVars, pc>>
    BY <2>1 DEF taskVars
  <2>2. CASE scheduler_idle(h)
    BY <2>2 DEF scheduler_idle, semVars, StateAfterExpiry, ResultAfterExpiry, Expired
  <2>3. CASE scheduler_run(h)
    <3>1. PICK t \in Tasks : task_state' = [StateAfterExpiry EXCEPT ![t] = "Running"]
      BY <2>3 DEF scheduler_run
    <3> QED
      BY <2>3, <3>1 DEF scheduler_run, semVars, StateAfterExpiry, ResultAfterExpiry, Expired
  <2> QED
    BY <2>1, <2>2, <2>3 DEF Scheduler, wfi_return, scheduler_back, semVars
<1>3. WaitInv'
  BY <1>1, <1>2 DEF WaitInv, WaitOf
<1>4. Waiting' = Waiting /\ Posting' = Posting /\ Asleep' \subseteq Asleep
  BY <1>2 DEF Waiting, Posting, Asleep
<1>5. Granted \subseteq Granted'
  BY <1>2 DEF Granted, Waiting, Asleep
<1> QED
  BY <1>1, <1>2, <1>3, <1>4, <1>5, QuietKeepsCounts

(* The steps of a task that neither wait on the semaphore nor post it. *)
LEMMA QuietTaskCounts ==
  ASSUME IInv, NEW h \in Harts, NEW t \in Tasks,
         task_return(h, t) \/ switch_out(h, t) \/ task_sleep_woken(h, t) \/ UserChoice(h, t)
  PROVE  WaitInv' /\ NoLostWakeup'
<1>1. TypeOK /\ PointInv /\ WaitInv /\ NoLostWakeup
  BY DEF IInv, SwitchInv
<1>2. PICK w \in {"user", "yield", "resumed", "woken", "relock", "sem", "post"} :
        /\ pc' = [pc EXCEPT ![t] = w]
        /\ w \in {"woken", "relock"} <=> pc[t] \in {"asleep", "woken"}
        /\ pc[t] \notin {"sleep", "relock", "wake"}
        /\ w \in {"woken", "relock"} => wait_deadline' = wait_deadline
  BY DEF task_return, switch_out, task_sleep_woken, UserChoice, schedule, sem_call, post_call,
         Goto, taskVars
<1>3. /\ UNCHANGED <<count, waiters, wait_result>>
      /\ \A u \in Tasks : /\ task_state'[u] = "Sleeping" => task_state[u] = "Sleeping"
                          /\ u # t => wait_deadline'[u] = wait_deadline[u]
  BY <1>1 DEF task_return, switch_out, task_sleep_woken, UserChoice, schedule, sem_call, post_call,
         taskVars, semVars, TypeOK
<1>4. pc \in [Tasks -> TaskPCs]
  BY <1>1 DEF TypeOK
<1>5. WaitInv'
  BY <1>1, <1>2, <1>3, <1>4 DEF WaitInv, WaitOf
<1>6. Waiting' = Waiting /\ Posting' = Posting
  BY <1>2, <1>4 DEF Waiting, Posting
<1>7. Asleep' \subseteq Asleep
  BY <1>3 DEF Asleep
<1>8. Granted \subseteq Granted'
  BY <1>2, <1>3, <1>4 DEF Granted, Waiting, Asleep
<1> QED
  BY <1>1, <1>3, <1>5, <1>6, <1>7, <1>8, QuietKeepsCounts

(* sem_timedwait, up to task_sleep. *)
LEMMA SemEnterCounts ==
  ASSUME IInv, NEW h \in Harts, NEW t \in Tasks, sem_enter(h, t)
  PROVE  WaitInv' /\ NoLostWakeup'
<1>1. SwitchInv /\ TypeOK /\ WaitInv /\ NoLostWakeup
  BY DEF IInv, SwitchInv
<1>2. /\ pc[t] = "sem" /\ sem_lock = None /\ UNCHANGED <<task_state, wait_result>>
      /\ TakeOrSleep(h, t, waiters)
  BY DEF sem_enter
<1>3. pc \in [Tasks -> TaskPCs] /\ count \in Nat /\ waiters \in Int
      /\ wait_deadline \in [Tasks -> {"forever", "future", "past"}]
  BY <1>1 DEF TypeOK
<1>4. \A u \in Tasks : pc[u] # "sleep"
  BY <1>1, <1>2, SemLockFree
<1>5. WaitInv'
  BY <1>1, <1>2, <1>3, <1>4 DEF WaitInv, WaitOf, TakeOrSleep, Goto
<1>6. CASE count > 0
  <2>1. pc' = [pc EXCEPT ![t] = "user"] /\ count' = count - 1 /\ waiters' = waiters
    BY <1>2, <1>6 DEF TakeOrSleep, Goto
  <2>2. Waiting' = Waiting /\ Posting' = Posting /\ Asleep' = Asleep
    BY <1>2, <1>3, <2>1 DEF Waiting, Posting, Asleep
  <2>3. Granted' = Granted
    BY <1>2, <1>3, <2>1, <2>2 DEF Granted, Waiting
  <2>4. Cardinality(Granted) \in Nat /\ Cardinality(Posting) \in Nat
    BY TaskSetsFinite, CountedSets
  <2>5. NoLostWakeup'
    BY <1>1, <1>3, <2>1, <2>2, <2>3, <2>4 DEF NoLostWakeup
  <2> QED
    BY <1>5, <2>5
<1>7. CASE ~(count > 0)
  <2>1. pc' = [pc EXCEPT ![t] = "sleep"] /\ count' = 0 /\ waiters' = waiters + 1
    BY <1>2, <1>3, <1>7 DEF TakeOrSleep, Goto
  <2>2. Waiting' = Waiting \cup {t} /\ t \notin Waiting
    BY <1>2, <1>3, <2>1 DEF Waiting
  <2>3. waiters' = Cardinality(Waiting')
    BY <1>1, <2>1, <2>2, Gain, CountedSets DEF NoLostWakeup
  <2> QED
    BY <1>5, <2>1, <2>3, NoTokenKeepsCounts
<1> QED
  BY <1>6, <1>7

(* task_sleep, of a task that holds sem_lock and has seen no token. *)
LEMMA TaskSleepCounts ==
  ASSUME IInv, NEW h \in Harts, NEW t \in Tasks, task_sleep(h, t)
  PROVE  WaitInv' /\ NoLostWakeup'
<1>1. SwitchInv /\ TypeOK /\ WaitInv /\ NoLostWakeup
  BY DEF IInv, SwitchInv
<1>2. /\ pc[t] = "sleep" /\ pc' = [pc EXCEPT ![t] = "asleep"]
      /\ wait_result' = [wait_result EXCEPT ![t] = 0] /\ UNCHANGED <<count, waiters, wait_deadline>>
  BY DEF task_sleep, Goto
<1>3. pc \in [Tasks -> TaskPCs] /\ wait_result \in [Tasks -> {0, -1}]
  BY <1>1 DEF TypeOK
<1>4. count' = 0
  BY <1>1, <1>2 DEF WaitInv, WaitOf
<1>5. WaitInv'
  BY <1>1, <1>2, <1>3, <1>4 DEF WaitInv, WaitOf
<1>6. Waiting' = Waiting
  BY <1>2, <1>3 DEF Waiting
<1>7. waiters' = Cardinality(Waiting')
  BY <1>1, <1>2, <1>6 DEF NoLostWakeup
<1> QED
  BY <1>4, <1>5, <1>7, NoTokenKeepsCounts

(* sem_timedwait behind task_sleep. *)
LEMMA SemRelockCounts ==
  ASSUME IInv, NEW h \in Harts, NEW t \in Tasks, sem_relock(h, t)
  PROVE  WaitInv' /\ NoLostWakeup'
<1>1. SwitchInv /\ TypeOK /\ PointInv /\ WaitInv /\ NoLostWakeup
  BY DEF IInv, SwitchInv
<1>2. /\ pc[t] = "relock" /\ sem_lock = None /\ UNCHANGED <<task_state, wait_result>>
  BY DEF sem_relock
<1>3. pc \in [Tasks -> TaskPCs] /\ count \in Nat /\ waiters \in Int
      /\ wait_result \in [Tasks -> {0, -1}]
      /\ wait_deadline \in [Tasks -> {"forever", "future", "past"}]
  BY <1>1 DEF TypeOK
<1>4. (\A u \in Tasks : pc[u] # "sleep") /\ t \notin Asleep /\ t \in Waiting
  BY <1>1, <1>2, SemLockFree DEF PointInv, PointOf, Asleep, Waiting
<1>5. Cardinality(Waiting \ {t}) = Cardinality(Waiting) - 1
  BY <1>4, CountedSets, Lose
<1>6. Cardinality(Granted) \in Nat /\ Cardinality(Posting) \in Nat
  BY TaskSetsFinite, CountedSets
<1>7. CASE wait_result[t] < 0
  <2>1. /\ pc' = [pc EXCEPT ![t] = "user"] /\ count' = count /\ waiters' = waiters - 1
        /\ wait_deadline' = [wait_deadline EXCEPT ![t] = "forever"]
    BY <1>7 DEF sem_relock, Goto
  <2>2. Waiting' = Waiting \ {t} /\ Posting' = Posting /\ Asleep' = Asleep
    BY <1>2, <1>3, <2>1 DEF Waiting, Posting, Asleep
  <2>3. wait_result[t] # 0
    BY <1>3, <1>7
  <2>4. Granted' = Granted
    BY <1>2, <1>3, <2>1, <2>2, <2>3 DEF Granted, Waiting
  <2>5. WaitInv'
    BY <1>1, <1>2, <1>3, <1>4, <2>1 DEF WaitInv, WaitOf
  <2>6. NoLostWakeup'
    BY <1>1, <1>5, <2>1, <2>2, <2>4 DEF NoLostWakeup
  <2> QED
    BY <2>5, <2>6
<1>8. CASE ~(wait_result[t] < 0) /\ count > 0
  <2>1. /\ pc' = [pc EXCEPT ![t] = "user"] /\ count' = count - 1 /\ waiters' = waiters - 1
        /\ wait_deadline' = [wait_deadline EXCEPT ![t] = "forever"]
    BY <1>8 DEF sem_relock, TakeOrSleep, Goto
  <2>2. Waiting' = Waiting \ {t} /\ Posting' = Posting /\ Asleep' = Asleep
    BY <1>2, <1>3, <2>1 DEF Waiting, Posting, Asleep
  <2>3. wait_result[t] = 0
    BY <1>3, <1>8
  <2>4. t \in Granted
    BY <1>2, <1>4, <2>3 DEF Granted
  <2>5. Granted' = Granted \ {t}
    BY <1>2, <1>3, <2>1, <2>2 DEF Granted, Waiting
  <2>6. Cardinality(Granted') = Cardinality(Granted) - 1
    BY <2>4, <2>5, CountedSets, Lose
  <2>7. WaitInv'
    BY <1>1, <1>2, <1>3, <1>4, <2>1 DEF WaitInv, WaitOf
  <2>8. NoLostWakeup'
    BY <1>1, <1>3, <1>5, <1>6, <2>1, <2>2, <2>6 DEF NoLostWakeup
  <2> QED
    BY <2>7, <2>8
<1>9. CASE ~(wait_result[t] < 0) /\ ~(count > 0)
  <2>1. /\ pc' = [pc EXCEPT ![t] = "sleep"] /\ count' = 0 /\ waiters' = waiters - 1 + 1
        /\ wait_deadline' = wait_deadline
    BY <1>3, <1>9 DEF sem_relock, TakeOrSleep, Goto
  <2>2. Waiting' = Waiting
    BY <1>2, <1>3, <2>1 DEF Waiting
  <2>3. WaitInv'
    BY <1>1, <1>2, <1>3, <2>1 DEF WaitInv, WaitOf
  <2>4. waiters' = Cardinality(Waiting')
    BY <1>1, <1>3, <2>1, <2>2 DEF NoLostWakeup
  <2> QED
    BY <2>1, <2>3, <2>4, NoTokenKeepsCounts
<1> QED
  BY <1>7, <1>8, <1>9

(* sem_post: the waiters it counts are all that may be asleep. *)
LEMMA SemPostCounts ==
  ASSUME IInv, NEW h \in Harts, NEW t \in Tasks, sem_post(h, t)
  PROVE  WaitInv' /\ NoLostWakeup'
<1>1. SwitchInv /\ TypeOK /\ PointInv /\ WaitInv /\ NoLostWakeup
  BY DEF IInv, SwitchInv
<1>2. /\ pc[t] = "post" /\ sem_lock = None /\ count' = count + 1
      /\ UNCHANGED <<waiters, task_state, wait_result, wait_deadline>>
  BY DEF sem_post, taskVars
<1>3. pc \in [Tasks -> TaskPCs] /\ count \in Nat
  BY <1>1 DEF TypeOK
<1>4. \A u \in Tasks : pc[u] # "sleep"
  BY <1>1, <1>2, SemLockFree
<1>5. PICK w \in {"user", "wake"} :
        pc' = [pc EXCEPT ![t] = w] /\ (w = "wake" <=> waiters # 0)
  BY DEF sem_post, Goto
<1>6. WaitInv'
  BY <1>1, <1>2, <1>3, <1>4, <1>5 DEF WaitInv, WaitOf
<1>7. Waiting' = Waiting /\ Asleep' = Asleep
  BY <1>2, <1>3, <1>5 DEF Waiting, Asleep
<1>8. Granted' = Granted
  BY <1>2, <1>3, <1>5, <1>7 DEF Granted, Waiting
<1>9. CASE waiters = 0
  <2>1. Waiting = {}
    BY <1>1, <1>9, TaskSetsFinite, CountedSets DEF NoLostWakeup
  <2>2. Asleep' = {}
    BY <1>1, <1>7, <2>1 DEF PointInv, PointOf, Asleep, Waiting
  <2>3. NoLostWakeup'
    BY <1>1, <1>2, <1>7, <2>2 DEF NoLostWakeup
  <2> QED
    BY <1>6, <2>3
<1>10. CASE waiters # 0
  <2>1. Posting' = Posting \cup {t} /\ t \notin Posting
    BY <1>2, <1>3, <1>5, <1>10 DEF Posting
  <2>2. Cardinality(Posting') = Cardinality(Posting) + 1
    BY <2>1, CountedSets, Gain
  <2>3. Cardinality(Granted) \in Nat /\ Cardinality(Posting) \in Nat
    BY TaskSetsFinite, CountedSets
  <2>4. NoLostWakeup'
    BY <1>1, <1>2, <1>3, <1>7, <1>8, <2>2, <2>3 DEF NoLostWakeup
  <2> QED
    BY <1>6, <2>4
<1> QED
  BY <1>9, <1>10

(* task_wake hands the poster's part to the sleeper it wakes. *)
LEMMA TaskWakeCounts ==
  ASSUME IInv, NEW h \in Harts, NEW t \in Tasks, task_wake(h, t)
  PROVE  WaitInv' /\ NoLostWakeup'
<1>1. SwitchInv /\ TypeOK /\ PointInv /\ WaitInv /\ NoLostWakeup
  BY DEF IInv, SwitchInv
<1>2. /\ pc[t] = "wake" /\ task_lock = None /\ pc' = [pc EXCEPT ![t] = "user"]
      /\ UNCHANGED <<count, waiters, wait_on, wait_deadline>>
  BY DEF task_wake, Goto
<1>3. pc \in [Tasks -> TaskPCs] /\ count \in Nat
      /\ wait_result \in [Tasks -> {0, -1}]
      /\ task_state \in [Tasks -> {"Ready", "Running", "Sleeping"}]
  BY <1>1 DEF TypeOK
<1>4. Waiting' = Waiting /\ Posting' = Posting \ {t} /\ t \in Posting
  BY <1>2, <1>3 DEF Waiting, Posting
<1>5. \/ Asleep = {} /\ UNCHANGED <<task_state, wait_result>>
      \/ \E s \in Asleep : /\ task_state' = [task_state EXCEPT ![s] = "Ready"]
                           /\ wait_result' = [wait_result EXCEPT ![s] = 0]
  BY <1>1 DEF task_wake, IsFirst, Asleep, PointInv, PointOf
<1>6. CASE Asleep = {} /\ UNCHANGED <<task_state, wait_result>>
  <2>1. WaitInv'
    BY <1>1, <1>2, <1>3, <1>6 DEF WaitInv, WaitOf
  <2>2. Asleep' = {}
    BY <1>6 DEF Asleep
  <2>3. NoLostWakeup'
    BY <1>1, <1>2, <1>4, <2>2 DEF NoLostWakeup
  <2> QED
    BY <2>1, <2>3
<1>7. ASSUME NEW s \in Asleep, task_state' = [task_state EXCEPT ![s] = "Ready"],
             wait_result' = [wait_result EXCEPT ![s] = 0]
      PROVE  WaitInv' /\ NoLostWakeup'
  <2>1. s \in Tasks /\ task_state[s] = "Sleeping"
    BY <1>7 DEF Asleep
  <2>2. pc[s] = "woken"
    BY <1>1, <1>2, <2>1, PickedIsOff DEF PointInv, PointOf, SwitchedOut
  <2>3. WaitInv'
    BY <1>1, <1>2, <1>3, <1>7, <2>1 DEF WaitInv, WaitOf
  <2>4. Asleep' = Asleep \ {s}
    BY <1>3, <1>7, <2>1 DEF Asleep
  <2>5. Granted' = Granted \cup {s} /\ s \notin Granted
    BY <1>2, <1>3, <1>4, <1>7, <2>1, <2>2, <2>4 DEF Granted, Waiting
  <2>6. /\ Cardinality(Granted') = Cardinality(Granted) + 1
        /\ Cardinality(Posting') = Cardinality(Posting) - 1
    BY <1>4, <2>1, <2>5, CountedSets, Gain, Lose
  <2>7. Cardinality(Granted) \in Nat /\ Cardinality(Posting) \in Nat
    BY TaskSetsFinite, CountedSets
  <2>8. NoLostWakeup'
    BY <1>1, <1>2, <1>3, <1>4, <1>7, <2>4, <2>6, <2>7 DEF NoLostWakeup
  <2> QED
    BY <2>3, <2>8
<1> QED
  BY <1>5, <1>6, <1>7

(* IInv is preserved by every step. *)
LEMMA StepIInv == IInv /\ [Next]_vars => IInv'
<1> SUFFICES ASSUME IInv, [Next]_vars PROVE IInv'
  OBVIOUS
<1>1. SwitchInv'
  BY StepSwitchInv DEF IInv
<1>2. TypeOK /\ WaitInv /\ NoLostWakeup
  BY DEF IInv, SwitchInv
<1>3. ASSUME UNCHANGED <<count, waiters, pc, task_state, wait_result>>,
             \A u \in Tasks : wait_deadline'[u] = "forever" => wait_deadline[u] = "forever"
      PROVE  WaitInv' /\ NoLostWakeup'
  <2>1. WaitInv'
    BY <1>2, <1>3 DEF WaitInv, WaitOf
  <2>2. Waiting' = Waiting /\ Posting' = Posting /\ Asleep' = Asleep
    BY <1>3 DEF Waiting, Posting, Asleep
  <2>3. Granted' = Granted
    BY <1>3, <2>2 DEF Granted
  <2> QED
    BY <1>2, <1>3, <2>1, <2>2, <2>3, QuietKeepsCounts
<1>4. CASE UNCHANGED vars
  BY <1>1, <1>3, <1>4 DEF vars, semVars, taskVars, IInv
<1>5. ASSUME NEW t \in Tasks, deadline_passes(t) PROVE WaitInv' /\ NoLostWakeup'
  BY <1>2, <1>3, <1>5 DEF deadline_passes, semVars, TypeOK
<1>6. ASSUME NEW h \in Harts, Scheduler(h) PROVE WaitInv' /\ NoLostWakeup'
  BY <1>6, SchedulerCounts
<1>7. ASSUME NEW h \in Harts, NEW t \in Tasks, KernelStep(h, t) \/ UserChoice(h, t)
      PROVE  WaitInv' /\ NoLostWakeup'
  BY <1>7, QuietTaskCounts, SemEnterCounts, TaskSleepCounts, SemRelockCounts, SemPostCounts,
     TaskWakeCounts DEF KernelStep
<1> QED
  BY <1>1, <1>4, <1>5, <1>6, <1>7 DEF Next, IInv

(* IInv holds throughout. *)
LEMMA AlwaysIInv == Spec => []IInv
<1>1. Init => IInv
  BY InitSwitchInv, InitCounts DEF IInv
<1> QED
  BY <1>1, StepIInv, PTL DEF Spec

(* No wakeup of sem_post is lost, and the waiter count of the semaphore is   *)
(* exact: NoLostWakeup, for any tasks and harts.                             *)
THEOREM NoWakeupIsLost == Spec => []NoLostWakeup
<1>1. IInv => NoLostWakeup
  BY DEF IInv
<1> QED
  BY <1>1, AlwaysIInv, PTL

-----------------------------------------------------------------------------
(* userBar is UserOf, task by task. *)
LEMMA BarOfTasks ==
  /\ userBar = [t \in Tasks |-> UserOf(t)]
  /\ userBar' = [t \in Tasks |-> UserOf(t)']
BY DEF userBar

(* A step that changes what is seen of t alone. *)
LEMMA BarChanges ==
  ASSUME NEW t \in Tasks, \A u \in Tasks \ {t} : UserOf(u)' = UserOf(u)
  PROVE  userBar' = [userBar EXCEPT ![t] = UserOf(t)']
BY BarOfTasks

(* A step that moves t alone and leaves the deadlines of the others. *)
LEMMA OthersSeenAlike ==
  ASSUME TypeOK, NEW t \in Tasks, NEW w, pc' = [pc EXCEPT ![t] = w],
         \A u \in Tasks \ {t} : wait_deadline'[u] = wait_deadline[u]
  PROVE  \A u \in Tasks \ {t} : UserOf(u)' = UserOf(u)
<1>1. pc \in [Tasks -> TaskPCs]
  BY DEF TypeOK
<1> SUFFICES ASSUME NEW u \in Tasks \ {t} PROVE UserOf(u)' = UserOf(u)
  OBVIOUS
<1>2. pc'[u] = pc[u] /\ wait_deadline'[u] = wait_deadline[u]
  BY <1>1
<1> QED
  BY <1>2 DEF UserOf

(* A step whose task is seen alike too stutters. *)
LEMMA SeenAlikeStutters ==
  ASSUME \A u \in Tasks : UserOf(u)' = UserOf(u), count' = count
  PROVE  UNCHANGED Sem!vars
BY BarOfTasks DEF Sem!vars

(* The steps that neither enter nor leave a call of the semaphore. *)
LEMMA QuietStutters ==
  ASSUME IInv, NEW h \in Harts, NEW t \in Tasks,
         \/ task_return(h, t) \/ switch_out(h, t) \/ schedule(h, t) \/ task_sleep(h, t)
         \/ task_sleep_woken(h, t) \/ task_wake(h, t)
  PROVE  UNCHANGED Sem!vars
<1>1. TypeOK /\ pc \in [Tasks -> TaskPCs]
  BY DEF IInv, SwitchInv, TypeOK
<1>2. PICK w \in TaskPCs :
        /\ pc' = [pc EXCEPT ![t] = w]
        /\ \/ /\ pc[t] \in {"first", "resumed", "user", "yield", "wake"}
              /\ w \in {"user", "resumed", "yield"}
           \/ /\ pc[t] \in {"sleep", "asleep", "woken"}
              /\ w \in {"asleep", "woken", "relock"}
  BY DEF task_return, switch_out, schedule, task_sleep, task_sleep_woken, task_wake, Goto, TaskPCs
<1>3. UNCHANGED <<count, wait_deadline>>
  BY DEF task_return, switch_out, schedule, task_sleep, task_sleep_woken, task_wake, semVars, taskVars
<1>4. UserOf(t)' = UserOf(t)
  BY <1>1, <1>2, <1>3 DEF UserOf
<1>5. \A u \in Tasks \ {t} : UserOf(u)' = UserOf(u)
  BY <1>1, <1>2, <1>3, OthersSeenAlike
<1> QED
  BY <1>3, <1>4, <1>5, SeenAlikeStutters

(* A call is entered. *)
LEMMA CallEnters ==
  ASSUME IInv, NEW h \in Harts, NEW t \in Tasks,
         post_call(h, t) \/ \E call \in {"sem_wait", "sem_timedwait"} : sem_call(h, t, call)
  PROVE  Sem!Enter(t)
<1>1. TypeOK /\ pc \in [Tasks -> TaskPCs]
      /\ wait_deadline \in [Tasks -> {"forever", "future", "past"}]
  BY DEF IInv, SwitchInv, TypeOK
<1>2. PICK w \in {"post", "sem"} : pc' = [pc EXCEPT ![t] = w]
  BY DEF post_call, sem_call, Goto
<1>3. /\ pc[t] = "user" /\ count' = count
      /\ \A u \in Tasks \ {t} : wait_deadline'[u] = wait_deadline[u]
  BY <1>1 DEF post_call, sem_call, semVars, taskVars
<1>4. UserOf(t) = "out" /\ UserOf(t)' \in {"look", "lookTimed", "post"}
  BY <1>1, <1>2, <1>3 DEF UserOf
<1>5. userBar' = [userBar EXCEPT ![t] = UserOf(t)']
  BY <1>1, <1>2, <1>3, OthersSeenAlike, BarChanges
<1>6. userBar[t] = UserOf(t)
  BY BarOfTasks
<1> QED
  BY <1>3, <1>4, <1>5, <1>6 DEF Sem!Enter

(* The test of the count takes a token, blocks, or goes back to sleep. *)
LEMMA TestTakesOrBlocks ==
  ASSUME IInv, NEW h \in Harts, NEW t \in Tasks, sem_enter(h, t) \/ sem_relock(h, t)
  PROVE  Sem!Take(t) \/ Sem!Block(t) \/ Sem!Timeout(t) \/ UNCHANGED Sem!vars
<1>1. TypeOK /\ pc \in [Tasks -> TaskPCs] /\ count \in Nat
      /\ wait_deadline \in [Tasks -> {"forever", "future", "past"}]
      /\ wait_result \in [Tasks -> {0, -1}] /\ WaitOf(t)
  BY DEF IInv, SwitchInv, TypeOK, WaitInv
<1>2. userBar[t] = UserOf(t)
  BY BarOfTasks
<1>3. pc[t] \in {"sem", "relock"}
  BY DEF sem_enter, sem_relock
<1>4. ASSUME pc' = [pc EXCEPT ![t] = "user"],
             wait_deadline' = [wait_deadline EXCEPT ![t] = "forever"]
      PROVE  userBar' = [userBar EXCEPT ![t] = "out"]
  <2>1. UserOf(t)' = "out"
    BY <1>1, <1>4 DEF UserOf
  <2> QED
    BY <1>1, <1>4, <2>1, OthersSeenAlike, BarChanges
<1>5. CASE pc[t] = "relock" /\ wait_result[t] < 0
  <2>1. sem_relock(h, t)
    BY <1>5 DEF sem_enter
  <2>2. /\ pc' = [pc EXCEPT ![t] = "user"] /\ count' = count
        /\ wait_deadline' = [wait_deadline EXCEPT ![t] = "forever"]
    BY <1>5, <2>1 DEF sem_relock, Goto
  <2>3. wait_result[t] = -1
    BY <1>1, <1>5
  <2>4. UserOf(t) = "waitTimed"
    BY <1>1, <1>5, <2>3 DEF WaitOf, UserOf
  <2> QED
    BY <1>2, <1>4, <2>2, <2>4 DEF Sem!Timeout
<1>6. CASE ~(pc[t] = "relock" /\ wait_result[t] < 0)
  <2>1. \E w \in {waiters, waiters - 1} : TakeOrSleep(h, t, w)
    BY <1>6 DEF sem_enter, sem_relock
  <2>2. CASE count > 0
    <3>1. /\ pc' = [pc EXCEPT ![t] = "user"] /\ count' = count - 1
          /\ wait_deadline' = [wait_deadline EXCEPT ![t] = "forever"]
      BY <2>1, <2>2 DEF TakeOrSleep, Goto
    <3>2. UserOf(t) \in {"look", "lookTimed", "wait", "waitTimed"}
      BY <1>1, <1>3 DEF UserOf
    <3> QED
      BY <1>2, <1>4, <2>2, <3>1, <3>2 DEF Sem!Take
  <2>3. CASE ~(count > 0)
    <3>1. /\ pc' = [pc EXCEPT ![t] = "sleep"] /\ count' = count /\ wait_deadline' = wait_deadline
          /\ count = 0
      BY <1>1, <2>1, <2>3 DEF TakeOrSleep, Goto
    <3>2. \A u \in Tasks \ {t} : UserOf(u)' = UserOf(u)
      BY <1>1, <3>1, OthersSeenAlike
    <3>3. UserOf(t)' = IF wait_deadline[t] = "forever" THEN "wait" ELSE "waitTimed"
      BY <1>1, <3>1 DEF UserOf
    <3>4. CASE pc[t] = "sem"
      <4>1. UserOf(t) = IF wait_deadline[t] = "forever" THEN "look" ELSE "lookTimed"
        BY <3>4 DEF UserOf
      <4>2. userBar' = [userBar EXCEPT ![t] = UserOf(t)']
        BY <3>2, BarChanges
      <4>3. CASE wait_deadline[t] = "forever"
        BY <1>2, <3>1, <3>3, <4>1, <4>2, <4>3 DEF Sem!Block
      <4>4. CASE wait_deadline[t] # "forever"
        BY <1>2, <3>1, <3>3, <4>1, <4>2, <4>4 DEF Sem!Block
      <4> QED
        BY <4>3, <4>4
    <3>5. CASE pc[t] = "relock"
      <4>1. UserOf(t) = IF wait_deadline[t] = "forever" THEN "wait" ELSE "waitTimed"
        BY <3>5 DEF UserOf
      <4> QED
        BY <3>1, <3>2, <3>3, <4>1, SeenAlikeStutters
    <3> QED
      BY <1>3, <3>4, <3>5
  <2> QED
    BY <2>2, <2>3
<1> QED
  BY <1>5, <1>6

(* sem_post posts. *)
LEMMA PostPosts ==
  ASSUME IInv, NEW h \in Harts, NEW t \in Tasks, sem_post(h, t)
  PROVE  Sem!Post(t)
<1>1. TypeOK /\ pc \in [Tasks -> TaskPCs]
  BY DEF IInv, SwitchInv, TypeOK
<1>2. PICK w \in {"user", "wake"} : pc' = [pc EXCEPT ![t] = w]
  BY DEF sem_post, Goto
<1>3. pc[t] = "post" /\ count' = count + 1 /\ wait_deadline' = wait_deadline
  BY DEF sem_post, taskVars
<1>4. UserOf(t) = "post" /\ UserOf(t)' = "out"
  BY <1>1, <1>2, <1>3 DEF UserOf
<1>5. userBar' = [userBar EXCEPT ![t] = "out"]
  BY <1>1, <1>2, <1>3, <1>4, OthersSeenAlike, BarChanges
<1>6. userBar[t] = "post"
  BY <1>4, BarOfTasks
<1> QED
  BY <1>3, <1>5, <1>6 DEF Sem!Post

(* Every step of the scheduler and the tasks is one of the semaphore's, or   *)
(* stutters.                                                                 *)
LEMMA StepImplementsSem == IInv /\ [Next]_vars => [Sem!Next]_(Sem!vars)
<1> SUFFICES ASSUME IInv, [Next]_vars PROVE Sem!Next \/ UNCHANGED Sem!vars
  OBVIOUS
<1>1. ASSUME UNCHANGED <<count, wait_deadline, pc>> PROVE UNCHANGED Sem!vars
  BY <1>1, SeenAlikeStutters DEF UserOf
<1>2. CASE UNCHANGED vars
  BY <1>1, <1>2 DEF vars, semVars, taskVars
<1>3. ASSUME NEW h \in Harts, Scheduler(h) PROVE UNCHANGED Sem!vars
  BY <1>1, <1>3 DEF Scheduler, scheduler_run, scheduler_idle, wfi_return, scheduler_back,
                    semVars, taskVars
<1>4. ASSUME NEW t \in Tasks, deadline_passes(t) PROVE UNCHANGED Sem!vars
  <2>1. /\ UNCHANGED <<count, pc>> /\ wait_deadline[t] = "future"
        /\ wait_deadline' = [wait_deadline EXCEPT ![t] = "past"]
    BY <1>4 DEF deadline_passes, semVars
  <2>2. wait_deadline \in [Tasks -> {"forever", "future", "past"}]
    BY DEF IInv, SwitchInv, TypeOK
  <2>3. \A u \in Tasks : wait_deadline'[u] = "forever" <=> wait_deadline[u] = "forever"
    BY <2>1, <2>2
  <2>4. \A u \in Tasks : UserOf(u)' = UserOf(u)
    BY <2>1, <2>3 DEF UserOf
  <2> QED
    BY <2>1, <2>4, SeenAlikeStutters
<1>5. ASSUME NEW h \in Harts, NEW t \in Tasks, KernelStep(h, t) \/ UserChoice(h, t)
      PROVE  Sem!Next \/ UNCHANGED Sem!vars
  BY <1>5, QuietStutters, CallEnters, TestTakesOrBlocks, PostPosts
    DEF KernelStep, UserChoice, Sem!Next
<1> QED
  BY <1>2, <1>3, <1>4, <1>5 DEF Next

(* sem_wait, sem_timedwait and sem_post on top of task_sleep and task_wake   *)
(* implement the counting semaphore, for any tasks and harts.                *)
THEOREM ImplementsSem == Spec => ImplementsCountingSem
<1>1. Init => Sem!Init
  BY BarOfTasks DEF Init, Sem!Init, UserOf
<1> QED
  BY <1>1, AlwaysIInv, StepImplementsSem, PTL DEF Spec, ImplementsCountingSem, Sem!Spec
=============================================================================
