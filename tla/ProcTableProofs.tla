--------------------------- MODULE ProcTableProofs ---------------------------
(***************************************************************************)
(* The invariants of ProcTable hold for a table of any size.  IInv is      *)
(* inductive: StateInv ties the state of an entry to its code, ForkInv     *)
(* gives a reserved entry one owner, LockInv says who may hold a           *)
(* child_exit lock.  The properties follow from it.                        *)
(***************************************************************************)
EXTENDS ProcTable, TLAPS

(* The entry of init is one of the table, the null pointer is not. *)
LEMMA InitProcInTable == InitProc \in Procs /\ NoOne \notin Procs
  BY ProcAssumption DEF Procs, InitProc, NoOne

(* After procinit and app_init the invariant holds. *)
LEMMA InitEstablishesIInv == Init => IInv
<1> SUFFICES ASSUME Init PROVE IInv
  OBVIOUS
<1>1. TypeOK
  BY InitProcInTable DEF Init, TypeOK, States, PCs
<1>2. StateInv /\ ForkInv /\ LockInv
  BY InitProcInTable DEF Init, StateInv, ForkInv, LockInv, Alive, Exiting
<1>3. ParentAlive /\ ExitLockOwner /\ WaitSeesExit
  BY InitProcInTable DEF Init, ParentAlive, ExitLockOwner, WaitSeesExit, Zombies, Children
<1> QED BY <1>1, <1>2, <1>3 DEF IInv

USE DEF States, PCs, At, Goto, tableVars, semVars

(* A scan keeps the table well typed, whichever entry it frees. *)
LEMMA ScanType == ASSUME TypeOK, NEW p \in Procs, wait_scan(p) PROVE TypeOK'
<1>1. pc' \in [Procs -> PCs] /\ UNCHANGED <<semVars, np, parent_exit>>
  BY DEF TypeOK, wait_scan, freeproc_locked
<1>2. CASE UNCHANGED <<tableVars, wait_result>>
  BY <1>1, <1>2 DEF TypeOK
<1>3. ASSUME NEW c \in Procs,
             task_state' = [task_state EXCEPT ![c] = "UnInit"],
             parent' = [parent EXCEPT ![c] = NoOne],
             memory' = [memory EXCEPT ![c] = "none"],
             wait_result' = [wait_result EXCEPT ![c] = 0]
      PROVE  TypeOK'
  BY <1>1, <1>3 DEF TypeOK
<1> QED BY <1>2, <1>3 DEF wait_scan, freeproc_locked

(* So does the last step of an exit, which touches the parent's entry, the   *)
(* caller's and those of its children.                                       *)
LEMMA ZombieType == ASSUME TypeOK, NEW p \in Procs, exit_zombie(p) PROVE TypeOK'
<1> DEFINE q == parent_exit[p]
<1>1. /\ q \in Procs
      /\ count' = [count EXCEPT ![q] = @ + 1]
      /\ parent' = [c \in Procs |-> IF parent[c] = p THEN InitProc ELSE parent[c]]
  BY DEF TypeOK, exit_zombie
<1>2. count' \in [Procs -> Nat]
  BY <1>1 DEF TypeOK
<1>3. parent' \in [Procs -> Procs \cup {NoOne}]
  BY <1>1, InitProcInTable DEF TypeOK
<1> QED BY <1>1, <1>2, <1>3, InitProcInTable, SMTT(10) DEF TypeOK, exit_zombie

(* One step of one process preserves the invariant: one case per action, one *)
(* step per conjunct.                                                        *)
LEMMA StepPreservesIInv ==
  ASSUME TypeOK, StateInv, ForkInv, LockInv, ParentAlive, ExitLockOwner, WaitSeesExit,
         NEW p \in Procs, fork(p) \/ wait(p) \/ exit(p)
  PROVE  IInv'
\* the entry taken is nobody's: it has no parent, no children, no sleeper
<1>1. CASE allocproc(p)
  <2>1. TypeOK' BY <1>1 DEF allocproc, TypeOK
  <2>2. StateInv' BY <1>1 DEF allocproc, TypeOK, IsFirst, Free, StateInv, Alive
  <2>3. ForkInv' BY <1>1 DEF allocproc, TypeOK, IsFirst, Free, ForkInv
  <2>4. LockInv'
    BY <1>1 DEF allocproc, TypeOK, IsFirst, Free, LockInv, StateInv, ParentAlive, Alive, Exiting
  <2>5. ParentAlive' BY <1>1 DEF allocproc, TypeOK, IsFirst, Free, ParentAlive
  <2>6. ExitLockOwner' BY <1>1 DEF allocproc, TypeOK, ExitLockOwner
  <2>7. WaitSeesExit'
    BY <1>1, InitProcInTable DEF allocproc, TypeOK, IsFirst, Free, WaitSeesExit, ParentAlive, Zombies, Children
  <2> QED BY <2>1, <2>2, <2>3, <2>4, <2>5, <2>6, <2>7 DEF IInv
\* the new process is the one this fork reserved, and its parent is running
<1>2. CASE fork_publish(p)
  <2>1. TypeOK' BY <1>2, InitProcInTable DEF fork_publish, TypeOK
  <2>2. StateInv'
    BY <1>2, InitProcInTable DEF fork_publish, TypeOK, StateInv, ForkInv, Alive
  <2>3. ForkInv' BY <1>2 DEF fork_publish, TypeOK, ForkInv
  <2>4. LockInv' BY <1>2 DEF fork_publish, TypeOK, LockInv, ForkInv, Alive, Exiting
  <2>5. ParentAlive' BY <1>2, InitProcInTable DEF fork_publish, TypeOK, ParentAlive
  <2>6. ExitLockOwner'
    BY <1>2 DEF fork_publish, TypeOK, ExitLockOwner, StateInv, ForkInv, Alive
  <2>7. WaitSeesExit' BY <1>2 DEF fork_publish, TypeOK, WaitSeesExit, Zombies, Children
  <2> QED BY <2>1, <2>2, <2>3, <2>4, <2>5, <2>6, <2>7 DEF IInv
<1>3. CASE wait_call(p)
  <2>1. TypeOK' BY <1>3 DEF wait_call, TypeOK
  <2>2. StateInv' BY <1>3 DEF wait_call, TypeOK, StateInv, Alive
  <2>3. ForkInv' BY <1>3 DEF wait_call, TypeOK, ForkInv
  <2>4. LockInv' BY <1>3 DEF wait_call, TypeOK, LockInv, Alive, Exiting
  <2>5. ParentAlive' BY <1>3 DEF wait_call, TypeOK, ParentAlive
  <2>6. ExitLockOwner' BY <1>3 DEF wait_call, TypeOK, ExitLockOwner
  <2>7. WaitSeesExit' BY <1>3 DEF wait_call, TypeOK, WaitSeesExit, Zombies, Children
  <2> QED BY <2>1, <2>2, <2>3, <2>4, <2>5, <2>6, <2>7 DEF IInv
\* a zombie has no children left, and nobody is exiting in its place
<1>4. CASE wait_scan(p)
  <2>1. TypeOK' BY <1>4, ScanType
  <2>2. StateInv'
    BY <1>4, InitProcInTable DEF wait_scan, freeproc_locked, TypeOK, IsFirst, Zombies, StateInv, Alive
  <2>3. ForkInv' BY <1>4 DEF wait_scan, freeproc_locked, TypeOK, IsFirst, Zombies, ForkInv
  <2>4. LockInv'
    BY <1>4 DEF wait_scan, freeproc_locked, TypeOK, IsFirst, Zombies, LockInv, StateInv, Alive, Exiting
  <2>5. ParentAlive' BY <1>4 DEF wait_scan, freeproc_locked, TypeOK, IsFirst, Zombies, ParentAlive
  <2>6. ExitLockOwner' BY <1>4 DEF wait_scan, freeproc_locked, TypeOK, IsFirst, ExitLockOwner
  <2>7. WaitSeesExit'
    BY <1>4, InitProcInTable DEF wait_scan, freeproc_locked, TypeOK, IsFirst, Zombies, Children, WaitSeesExit, ParentAlive
  <2> QED BY <2>1, <2>2, <2>3, <2>4, <2>5, <2>6, <2>7 DEF IInv
\* a process that finds no token has found no zombie since its scan
<1>5. CASE wait_sem(p)
  <2>1. TypeOK' BY <1>5 DEF wait_sem, TypeOK, TakeOrSleep
  <2>2. StateInv'
    BY <1>5, InitProcInTable DEF wait_sem, TypeOK, TakeOrSleep, StateInv, Alive
  <2>3. ForkInv' BY <1>5 DEF wait_sem, TypeOK, TakeOrSleep, ForkInv
  <2>4. LockInv'
    BY <1>5, InitProcInTable DEF wait_sem, TypeOK, TakeOrSleep, LockInv, Alive, Exiting
  <2>5. ParentAlive' BY <1>5 DEF wait_sem, TypeOK, TakeOrSleep, ParentAlive
  <2>6. ExitLockOwner' BY <1>5 DEF wait_sem, TypeOK, TakeOrSleep, ExitLockOwner
  <2>7. WaitSeesExit'
    BY <1>5 DEF wait_sem, TypeOK, TakeOrSleep, WaitSeesExit, Zombies, Children
  <2> QED BY <2>1, <2>2, <2>3, <2>4, <2>5, <2>6, <2>7 DEF IInv
<1>6. CASE wait_sleep(p)
  <2>1. TypeOK' BY <1>6 DEF wait_sleep, TypeOK
  <2>2. StateInv' BY <1>6 DEF wait_sleep, TypeOK, StateInv, Alive
  <2>3. ForkInv' BY <1>6 DEF wait_sleep, TypeOK, ForkInv
  <2>4. LockInv' BY <1>6 DEF wait_sleep, TypeOK, LockInv, Alive, Exiting
  <2>5. ParentAlive' BY <1>6 DEF wait_sleep, TypeOK, ParentAlive
  <2>6. ExitLockOwner' BY <1>6 DEF wait_sleep, TypeOK, ExitLockOwner
  <2>7. WaitSeesExit' BY <1>6 DEF wait_sleep, TypeOK, WaitSeesExit, Zombies, Children
  <2> QED BY <2>1, <2>2, <2>3, <2>4, <2>5, <2>6, <2>7 DEF IInv
<1>7. CASE wait_expire(p)
  <2>1. TypeOK' BY <1>7 DEF wait_expire, TypeOK
  <2>2. StateInv' BY <1>7 DEF wait_expire, TypeOK, StateInv, Alive
  <2>3. ForkInv' BY <1>7 DEF wait_expire, TypeOK, ForkInv
  <2>4. LockInv' BY <1>7 DEF wait_expire, TypeOK, LockInv, Alive, Exiting
  <2>5. ParentAlive' BY <1>7 DEF wait_expire, TypeOK, ParentAlive
  <2>6. ExitLockOwner' BY <1>7 DEF wait_expire, TypeOK, ExitLockOwner
  <2>7. WaitSeesExit' BY <1>7 DEF wait_expire, TypeOK, WaitSeesExit, Zombies, Children
  <2> QED BY <2>1, <2>2, <2>3, <2>4, <2>5, <2>6, <2>7 DEF IInv
\* a token or a timeout leads to a new scan
<1>8. CASE wait_relock(p)
  <2>1. TypeOK' BY <1>8 DEF wait_relock, TypeOK, TakeOrSleep
  <2>2. StateInv'
    BY <1>8, InitProcInTable DEF wait_relock, TypeOK, TakeOrSleep, StateInv, Alive
  <2>3. ForkInv' BY <1>8 DEF wait_relock, TypeOK, TakeOrSleep, ForkInv
  <2>4. LockInv'
    BY <1>8, InitProcInTable DEF wait_relock, TypeOK, TakeOrSleep, LockInv, Alive, Exiting
  <2>5. ParentAlive' BY <1>8 DEF wait_relock, TypeOK, TakeOrSleep, ParentAlive
  <2>6. ExitLockOwner' BY <1>8 DEF wait_relock, TypeOK, TakeOrSleep, ExitLockOwner
  <2>7. WaitSeesExit'
    BY <1>8 DEF wait_relock, TypeOK, TakeOrSleep, WaitSeesExit, Zombies, Children
  <2> QED BY <2>1, <2>2, <2>3, <2>4, <2>5, <2>6, <2>7 DEF IInv
<1>9. CASE exit_call(p)
  <2>1. TypeOK' BY <1>9 DEF exit_call, TypeOK
  <2>2. StateInv' BY <1>9 DEF exit_call, TypeOK, StateInv, Alive
  <2>3. ForkInv' BY <1>9 DEF exit_call, TypeOK, ForkInv
  <2>4. LockInv' BY <1>9 DEF exit_call, TypeOK, LockInv, Alive, Exiting
  <2>5. ParentAlive' BY <1>9 DEF exit_call, TypeOK, ParentAlive
  <2>6. ExitLockOwner' BY <1>9 DEF exit_call, TypeOK, ExitLockOwner
  <2>7. WaitSeesExit' BY <1>9 DEF exit_call, TypeOK, WaitSeesExit, Zombies, Children
  <2> QED BY <2>1, <2>2, <2>3, <2>4, <2>5, <2>6, <2>7 DEF IInv
<1>10. CASE exit_parent(p)
  <2>1. TypeOK' BY <1>10 DEF exit_parent, TypeOK, StateInv, ParentAlive
  <2>2. StateInv' BY <1>10 DEF exit_parent, TypeOK, StateInv, Alive
  <2>3. ForkInv' BY <1>10 DEF exit_parent, TypeOK, ForkInv
  <2>4. LockInv' BY <1>10 DEF exit_parent, TypeOK, LockInv, StateInv, Alive, Exiting
  <2>5. ParentAlive' BY <1>10 DEF exit_parent, TypeOK, ParentAlive
  <2>6. ExitLockOwner' BY <1>10 DEF exit_parent, TypeOK, ExitLockOwner
  <2>7. WaitSeesExit' BY <1>10 DEF exit_parent, TypeOK, WaitSeesExit, Zombies, Children
  <2> QED BY <2>1, <2>2, <2>3, <2>4, <2>5, <2>6, <2>7 DEF IInv
\* the lock is free, so it is taken from nobody
<1>11. CASE exit_lock(p)
  <2>1. TypeOK' BY <1>11 DEF exit_lock, TypeOK
  <2>2. StateInv' BY <1>11 DEF exit_lock, TypeOK, StateInv, Alive
  <2>3. ForkInv' BY <1>11 DEF exit_lock, TypeOK, ForkInv
  <2>4. LockInv'
    BY <1>11, InitProcInTable DEF exit_lock, TypeOK, LockInv, ForkInv, Alive, Exiting
  <2>5. ParentAlive' BY <1>11 DEF exit_lock, TypeOK, ParentAlive
  <2>6. ExitLockOwner' BY <1>11 DEF exit_lock, TypeOK, ExitLockOwner
  <2>7. WaitSeesExit' BY <1>11 DEF exit_lock, TypeOK, WaitSeesExit, Zombies, Children
  <2> QED BY <2>1, <2>2, <2>3, <2>4, <2>5, <2>6, <2>7 DEF IInv
\* the parent is alive and its semaphore's lock is held, so the token is seen
<1>12. CASE exit_zombie(p)
  <2>1. TypeOK' BY <1>12, ZombieType
  <2>2. StateInv'
    BY <1>12, InitProcInTable DEF exit_zombie, TypeOK, StateInv, ForkInv, LockInv, Alive
  <2>3. ForkInv' BY <1>12 DEF exit_zombie, TypeOK, ForkInv, StateInv
  <2>4. LockInv'
    BY <1>12 DEF exit_zombie, TypeOK, LockInv, ForkInv, StateInv, ExitLockOwner, Alive, Exiting
  <2>5. ParentAlive'
    BY <1>12, InitProcInTable DEF exit_zombie, TypeOK, ParentAlive, StateInv, ForkInv, Alive
  <2>6. ExitLockOwner'
    BY <1>12 DEF exit_zombie, TypeOK, ExitLockOwner, StateInv, ForkInv, Alive
  <2>7. WaitSeesExit'
    BY <1>12 DEF exit_zombie, TypeOK, WaitSeesExit, StateInv, ForkInv, LockInv, ParentAlive, Alive, Zombies, Children
  <2> QED BY <2>1, <2>2, <2>3, <2>4, <2>5, <2>6, <2>7 DEF IInv
<1>13. CASE exit_stale(p)
  <2>1. TypeOK' BY <1>13 DEF exit_stale, TypeOK
  <2>2. StateInv' BY <1>13 DEF exit_stale, TypeOK, StateInv, Alive
  <2>3. ForkInv' BY <1>13 DEF exit_stale, TypeOK, ForkInv
  <2>4. LockInv' BY <1>13 DEF exit_stale, TypeOK, LockInv, Alive, Exiting
  <2>5. ParentAlive' BY <1>13 DEF exit_stale, TypeOK, ParentAlive
  <2>6. ExitLockOwner' BY <1>13 DEF exit_stale, TypeOK, ExitLockOwner, StateInv
  <2>7. WaitSeesExit'
    BY <1>13 DEF exit_stale, TypeOK, WaitSeesExit, StateInv, Zombies, Children
  <2> QED BY <2>1, <2>2, <2>3, <2>4, <2>5, <2>6, <2>7 DEF IInv
<1>14. CASE exit_unlock(p)
  <2>1. TypeOK' BY <1>14 DEF exit_unlock, TypeOK
  <2>2. StateInv'
    BY <1>14, InitProcInTable DEF exit_unlock, TypeOK, StateInv, ForkInv, Alive
  <2>3. ForkInv' BY <1>14 DEF exit_unlock, TypeOK, ForkInv
  <2>4. LockInv' BY <1>14 DEF exit_unlock, TypeOK, LockInv, ForkInv, Alive, Exiting
  <2>5. ParentAlive' BY <1>14 DEF exit_unlock, TypeOK, ParentAlive
  <2>6. ExitLockOwner' BY <1>14, <2>1 DEF exit_unlock, TypeOK, ExitLockOwner, StateInv
  <2>7. WaitSeesExit'
    BY <1>14 DEF exit_unlock, TypeOK, WaitSeesExit, StateInv, ForkInv, ParentAlive, Zombies, Children
  <2> QED BY <2>1, <2>2, <2>3, <2>4, <2>5, <2>6, <2>7 DEF IInv
<1> QED
  BY <1>1, <1>2, <1>3, <1>4, <1>5, <1>6, <1>7, <1>8, <1>9, <1>10, <1>11, <1>12, <1>13, <1>14 DEF fork, wait, exit

(* Nothing changes in a stuttering step. *)
LEMMA StutterPreservesIInv == IInv /\ UNCHANGED vars => IInv'
  BY DEF IInv, vars, TypeOK, StateInv, ForkInv, LockInv, ParentAlive, ExitLockOwner,
         WaitSeesExit, Alive, Exiting, Zombies, Children

(* IInv holds in every reachable state, for every length of the table, in    *)
(* both builds of wait(), with and without memory to copy address spaces.    *)
THEOREM TableInvariant == Spec => []IInv
<1>1. IInv /\ [Next]_vars => IInv'
  BY StepPreservesIInv, StutterPreservesIInv DEF IInv, Next
<1> QED BY InitEstablishesIInv, <1>1, PTL DEF Spec

(* The process table and the processes' locals stay well typed. *)
THEOREM TableTypeCorrect == Spec => []TypeOK
<1>1. IInv => TypeOK
  BY DEF IInv
<1> QED BY TableInvariant, <1>1, PTL

(* No exit, fork or reuse of an entry leaves a parent pointer to a process   *)
(* that is not alive, or a process other than init without a parent.         *)
THEOREM EveryParentIsAlive == Spec => []ParentAlive
<1>1. IInv => ParentAlive
  BY DEF IInv
<1> QED BY TableInvariant, <1>1, PTL

(* No process other than init sleeps in wait(), or is about to, over a child *)
(* that has exited.                                                          *)
THEOREM WaitMissesNoExit == Spec => []WaitSeesExit
<1>1. IInv => WaitSeesExit
  BY DEF IInv
<1> QED BY TableInvariant, <1>1, PTL

(* A child_exit lock that is held is held by its owner on the way to sleep,  *)
(* or by a process exiting towards it.                                       *)
THEOREM ExitLockHasAHolder == Spec => []ExitLockOwner
<1>1. IInv => ExitLockOwner
  BY DEF IInv
<1> QED BY TableInvariant, <1>1, PTL
=============================================================================
