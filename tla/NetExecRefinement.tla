------------------------- MODULE NetExecRefinement -------------------------
(***************************************************************************)
(* net_exec implements SerialExec, for any clients and sizes: under the    *)
(* mapping of NetExec (phaseBar, resultBar) every step of the code is a    *)
(* step of the abstract executor or leaves its state alone.                *)
(***************************************************************************)
EXTENDS NetExecProofs

(* A call that ends with an error has been given one. *)
ErrInv ==
  \A c \in Clients : pc[c] \in {"undo", "check", "rewait", "finish"} => err[c] # "none"

RInv == IInv /\ ErrInv

(* Every exit from a wait, and every failed send, sets the error. *)
LEMMA StepErrInv == IInv /\ ErrInv /\ [Next]_vars => ErrInv'
<1> SUFFICES ASSUME IInv, ErrInv, [Next]_vars PROVE ErrInv'
  OBVIOUS
<1> USE DEF ErrInv
<1>1. pc \in [Clients -> ClientPCs] /\ err \in [Clients -> Errs]
  BY DEF IInv, TypeOK
<1>2. ASSUME NEW c \in Clients, (\E t \in Timeouts : submit_alloc(c, t)) \/ submit_refuse(c)
      PROVE  ErrInv'
  BY <1>1, <1>2 DEF submit_alloc, submit_refuse
<1>3. ASSUME NEW c \in Clients, ClientStep(c) PROVE ErrInv'
  <2>1. CASE fixq_send_full(c) \/ fixq_send_look(c) \/ fixq_send_wake(c) \/ fixq_send_timeout(c)
             \/ submit_undo(c) \/ fixq_send_put(c) \/ fixq_send_post(c)
    BY <1>1, <2>1 DEF fixq_send_full, fixq_send_look, fixq_send_wake, fixq_send_timeout, submit_undo,
         fixq_send_put, fixq_send_post
  <2>2. CASE done_look(c) \/ done_wake(c) \/ done_timeout(c) \/ done_rewait(c)
    BY <1>1, <2>2 DEF done_look, done_wake, done_timeout, done_rewait
  <2>3. CASE submit_check(c) \/ submit_finish(c)
    BY <1>1, <2>3 DEF submit_check, submit_finish, Conclude
  <2> QED
    BY <1>3, <2>1, <2>2, <2>3 DEF ClientStep
<1>4. ASSUME net_exec_run_once PROVE ErrInv'
  BY <1>4 DEF net_exec_run_once, fixq_recv_nonempty, fixq_recv_poll, fixq_recv_take,
       fixq_recv_notify, run_once_start, run_once_proc, run_once_finish, cliVars
<1>5. ASSUME UNCHANGED vars PROVE ErrInv'
  BY <1>5 DEF vars, cliVars
<1> QED
  BY <1>2, <1>3, <1>4, <1>5 DEF Next

(* RInv is an invariant of net_exec. *)
THEOREM RefinementInvariance == Spec => []RInv
<1>1. Init => ErrInv
  BY DEF Init, ErrInv
<1> QED
  BY <1>1, InitIInv, StepIInv, StepErrInv, PTL DEF Spec, RInv

-----------------------------------------------------------------------------
(* What the callers see of one call. *)

Active(c) == wpc = "run" /\ proc[wreq] = c

Seen(c) ==
  /\ pc[c] = "idle" => phaseBar[c] = "idle"
  /\ pc[c] # "idle" /\ runs[c] > 0 => phaseBar[c] = "ran"
  /\ Active(c) => phaseBar[c] = "running"
  /\ pc[c] # "idle" /\ runs[c] = 0 /\ ~Active(c) => phaseBar[c] = "pending"
  /\ Active(c) => pc[c] # "idle" /\ runs[c] = 0
  /\ pc[c] # "idle" \/ err[c] = "none" => resultBar[c] = "none"
  /\ pc[c] = "idle" /\ err[c] = "ok" => resultBar[c] = "ok"
  /\ pc[c] = "idle" /\ err[c] \notin {"none", "ok"} => resultBar[c] = "error"

AllSeen == \A c \in Clients : Seen(c)

(* The mapping, case by case, in the states of the invariant ... *)
LEMMA SeenBefore == IInv => AllSeen
<1> SUFFICES ASSUME IInv, NEW c \in Clients PROVE Seen(c)
  BY DEF AllSeen
<1>1. runs[c] \in Nat
  BY DEF IInv, TypeOK
<1>2. Active(c) => pc[c] \in Sent /\ runs[c] = 0
  BY ExecutedCall DEF Active
<1>3. /\ pc[c] # "idle" \/ err[c] = "none" => resultBar[c] = "none"
      /\ pc[c] = "idle" /\ err[c] = "ok" => resultBar[c] = "ok"
      /\ pc[c] = "idle" /\ err[c] \notin {"none", "ok"} => resultBar[c] = "error"
  BY DEF resultBar
<1> QED
  BY <1>1, <1>2, <1>3 DEF Seen, phaseBar, Active, Sent

(* ... and in those a step leads to. *)
LEMMA SeenAfter == IInv' => AllSeen'
BY SeenBefore, PTL

(* A call that does not begin, end or run looks the same. *)
Still(c) ==
  /\ (pc'[c] = "idle") <=> (pc[c] = "idle")
  /\ pc[c] = "idle" => err'[c] = err[c]
  /\ runs'[c] = runs[c]
  /\ Active(c)' <=> Active(c)

(* Its image under the mapping does not change. *)
LEMMA StillLooksTheSame ==
  ASSUME NEW c \in Clients, Still(c)
  PROVE  phaseBar'[c] = phaseBar[c] /\ resultBar'[c] = resultBar[c]
BY DEF Still, Active, phaseBar, resultBar

(* When every call is still the step is a stutter. *)
LEMMA NothingSeen ==
  ASSUME \A c \in Clients : Still(c)
  PROVE  UNCHANGED Serial!vars
<1>1. \A c \in Clients : phaseBar'[c] = phaseBar[c] /\ resultBar'[c] = resultBar[c]
  BY StillLooksTheSame
<1>2. phaseBar' = phaseBar /\ resultBar' = resultBar
  BY <1>1 DEF phaseBar, resultBar
<1> QED
  BY <1>2 DEF Serial!vars

(* When all calls but one are still, only that one can have moved. *)
LEMMA OneMoves ==
  ASSUME NEW c \in Clients, \A d \in Clients : d # c => Still(d)
  PROVE  /\ phaseBar' = [phaseBar EXCEPT ![c] = phaseBar'[c]]
         /\ resultBar' = [resultBar EXCEPT ![c] = resultBar'[c]]
<1>1. \A d \in Clients : d # c => phaseBar'[d] = phaseBar[d] /\ resultBar'[d] = resultBar[d]
  BY StillLooksTheSame
<1> DEFINE P == phaseBar  R == resultBar
<1>2. /\ P = [d \in Clients |-> P[d]] /\ P' = [d \in Clients |-> P'[d]]
      /\ R = [d \in Clients |-> R[d]] /\ R' = [d \in Clients |-> R'[d]]
  BY DEF phaseBar, resultBar
<1> HIDE DEF P, R
<1>3. P' = [P EXCEPT ![c] = P'[c]] /\ R' = [R EXCEPT ![c] = R'[c]]
  BY <1>1, <1>2 DEF P, R
<1> QED
  BY <1>3 DEF P, R

-----------------------------------------------------------------------------
(* The end of a call: Return where its callback has run, GiveUp where it    *)
(* has not and never will.                                                   *)
LEMMA ConcludeSeen ==
  ASSUME RInv, IInv', NEW c \in Clients, pc[c] \in {"check", "finish"}, Conclude(c),
         completed[request[c]] \/ ~started[request[c]],
         UNCHANGED <<wpc, wreq, runs>>
  PROVE  Serial!Return(c) \/ Serial!GiveUp(c)
<1>1. /\ IInv /\ ErrInv /\ request[c] \in Slots /\ wreq \in Slots /\ pc \in [Clients -> ClientPCs]
      /\ err \in [Clients -> Errs] /\ proc \in [Slots -> Clients \cup {NoProc}]
  BY DEF RInv, IInv, TypeOK
<1>2. /\ pc' = [pc EXCEPT ![c] = "idle"] /\ pc'[c] = "idle"
      /\ \A d \in Clients : d # c => pc'[d] = pc[d] /\ err'[d] = err[d]
      /\ err'[c] = (IF completed[request[c]] THEN "ok" ELSE err[c])
      /\ \A s \in Slots : s # request[c] => proc'[s] = proc[s]
      /\ proc' = (IF completed[request[c]] THEN [proc EXCEPT ![request[c]] = NoProc] ELSE proc)
  BY <1>1 DEF Conclude
<1>3. /\ pc[c] \in Sent /\ err[c] # "none"
      /\ err[c] = "ok" => completed[request[c]]
      /\ runs[c] = (IF completed[request[c]] \/ (AtWorker(request[c]) /\ wpc = "finish") THEN 1 ELSE 0)
  BY <1>1 DEF IInv, CallInv, CallOf, Sent, ErrInv
<1>4. AtWorker(request[c]) /\ wpc \in {"run", "finish"} => started[request[c]] /\ ~completed[request[c]]
  BY <1>1 DEF IInv, PlaceInv
<1>5. runs[c] = (IF completed[request[c]] THEN 1 ELSE 0)
  BY <1>3, <1>4
<1>6. wpc = "run" => wreq \in Slots /\ wreq # request[c] /\ proc[wreq] # c
  BY <1>1, <1>4, ExecutedCall DEF AtWorker
<1>7. ~Active(c) /\ \A d \in Clients : Active(d)' <=> Active(d)
  BY <1>1, <1>2, <1>6 DEF Active
<1>8. \A d \in Clients : d # c => Still(d)
  BY <1>2, <1>7 DEF Still
<1>9. Seen(c) /\ Seen(c)'
  BY <1>1, SeenBefore, SeenAfter DEF AllSeen
<1>10. CASE completed[request[c]]
  <2>1. phaseBar[c] = "ran"
    BY <1>3, <1>5, <1>9, <1>10 DEF Seen, Sent
  <2>2. phaseBar'[c] = "idle" /\ resultBar'[c] = "ok"
    BY <1>2, <1>9, <1>10 DEF Seen
  <2> QED
    BY <1>8, <2>1, <2>2, OneMoves DEF Serial!Return
<1>11. CASE ~completed[request[c]]
  <2>1. phaseBar[c] = "pending"
    BY <1>3, <1>5, <1>7, <1>9, <1>11 DEF Seen, Sent
  <2>2. phaseBar'[c] = "idle" /\ resultBar'[c] = "error"
    BY <1>2, <1>3, <1>9, <1>11 DEF Seen
  <2> QED
    BY <1>8, <2>1, <2>2, OneMoves DEF Serial!GiveUp
<1> QED
  BY <1>10, <1>11

(* The steps of a client. *)
LEMMA ClientSeen ==
  ASSUME RInv, IInv', NEW c \in Clients, ClientStep(c)
  PROVE  [Serial!Next]_Serial!vars
<1>1. /\ IInv /\ ErrInv /\ request[c] \in Slots /\ wreq \in Slots /\ pc \in [Clients -> ClientPCs]
      /\ err \in [Clients -> Errs] /\ proc \in [Slots -> Clients \cup {NoProc}]
  BY DEF RInv, IInv, TypeOK
<1>2. ASSUME UNCHANGED <<proc, wpc, wreq, runs>>, pc' = [pc EXCEPT ![c] = pc'[c]],
             pc[c] # "idle", pc'[c] # "idle", err' = [err EXCEPT ![c] = err'[c]]
      PROVE  UNCHANGED Serial!vars
  <2>1. \A d \in Clients : Active(d)' <=> Active(d)
    BY <1>2 DEF Active
  <2>2. \A d \in Clients : Still(d)
    BY <1>1, <1>2, <2>1 DEF Still
  <2> QED
    BY <2>2, NothingSeen
<1>3. CASE fixq_send_full(c) \/ fixq_send_look(c) \/ fixq_send_wake(c) \/ fixq_send_timeout(c)
           \/ fixq_send_put(c) \/ fixq_send_post(c)
  <2>1. /\ UNCHANGED <<proc, wpc, wreq, runs>> /\ pc' = [pc EXCEPT ![c] = pc'[c]]
        /\ pc[c] # "idle" /\ pc'[c] # "idle" /\ err' = [err EXCEPT ![c] = err'[c]]
    BY <1>1, <1>3 DEF fixq_send_full, fixq_send_look, fixq_send_wake, fixq_send_timeout,
         fixq_send_put, fixq_send_post, reqVars, wrkVars
  <2> QED
    BY <1>2, <2>1
<1>4. CASE done_look(c) \/ done_wake(c) \/ done_timeout(c) \/ done_rewait(c)
  <2>1. /\ UNCHANGED <<proc, wpc, wreq, runs>> /\ pc' = [pc EXCEPT ![c] = pc'[c]]
        /\ pc[c] # "idle" /\ pc'[c] # "idle" /\ err' = [err EXCEPT ![c] = err'[c]]
    BY <1>1, <1>4 DEF done_look, done_wake, done_timeout, done_rewait, reqVars, wrkVars
  <2> QED
    BY <1>2, <2>1
<1>5. CASE submit_undo(c)
  <2>1. /\ pc[c] = "undo" /\ pc' = [pc EXCEPT ![c] = "idle"] /\ pc'[c] = "idle"
        /\ proc' = [proc EXCEPT ![request[c]] = NoProc]
        /\ UNCHANGED <<wpc, wreq, runs, err>>
    BY <1>1, <1>5 DEF submit_undo, wrkVars
  <2>2. runs[c] = 0 /\ err[c] \notin {"none", "ok"} /\ ~AtWorker(request[c])
    BY <1>1, <2>1 DEF IInv, CallInv, CallOf, Unsent, ErrInv
  <2>3. wpc = "run" => wreq \in Slots /\ wreq # request[c] /\ proc[wreq] # c
    BY <1>1, <2>1, <2>2, ExecutedCall DEF AtWorker, Sent
  <2>4. ~Active(c) /\ \A d \in Clients : Active(d)' <=> Active(d)
    BY <1>1, <2>1, <2>3 DEF Active
  <2>5. \A d \in Clients : d # c => Still(d)
    BY <1>1, <2>1, <2>4 DEF Still
  <2>6. Seen(c) /\ Seen(c)'
    BY <1>1, SeenBefore, SeenAfter DEF AllSeen
  <2>7. phaseBar[c] = "pending" /\ phaseBar'[c] = "idle" /\ resultBar'[c] = "error"
    BY <2>1, <2>2, <2>4, <2>6 DEF Seen
  <2>8. Serial!GiveUp(c)
    BY <2>5, <2>7, OneMoves DEF Serial!GiveUp
  <2> QED
    BY <2>8 DEF Serial!Next
<1>6. CASE submit_check(c)
  <2>1. CASE err[c] # "ok" /\ started[request[c]] /\ ~completed[request[c]]
    <3>1. /\ UNCHANGED <<proc, wpc, wreq, runs, err>> /\ pc' = [pc EXCEPT ![c] = pc'[c]]
          /\ pc[c] # "idle" /\ pc'[c] # "idle" /\ err' = [err EXCEPT ![c] = err'[c]]
      BY <1>1, <1>6, <2>1 DEF submit_check, wrkVars
    <3> QED
      BY <1>2, <3>1
  <2>2. CASE ~(err[c] # "ok" /\ started[request[c]] /\ ~completed[request[c]])
    <3>1. pc[c] = "check" /\ Conclude(c) /\ UNCHANGED <<wpc, wreq, runs>>
      BY <1>6, <2>2 DEF submit_check, wrkVars
    <3>2. completed[request[c]] \/ ~started[request[c]]
      BY <1>1, <2>2, <3>1 DEF IInv, CallInv, CallOf, Sent
    <3>3. Serial!Return(c) \/ Serial!GiveUp(c)
      BY <3>1, <3>2, ConcludeSeen
    <3> QED
      BY <3>3 DEF Serial!Next
  <2> QED
    BY <2>1, <2>2
<1>7. CASE submit_finish(c)
  <2>1. pc[c] = "finish" /\ Conclude(c) /\ UNCHANGED <<wpc, wreq, runs>>
    BY <1>7 DEF submit_finish, wrkVars
  <2>2. completed[request[c]]
    BY <1>1, <2>1 DEF IInv, CallInv, CallOf
  <2>3. Serial!Return(c) \/ Serial!GiveUp(c)
    BY <2>1, <2>2, ConcludeSeen
  <2> QED
    BY <2>3 DEF Serial!Next
<1> QED
  BY <1>3, <1>4, <1>5, <1>6, <1>7 DEF ClientStep

(* The beginning of a call, and its refusal. *)
LEMMA CallSeen ==
  ASSUME RInv, IInv', NEW c \in Clients,
         (\E t \in Timeouts : submit_alloc(c, t)) \/ submit_refuse(c)
  PROVE  Serial!Call(c) \/ Serial!Refuse(c)
<1>1. /\ IInv /\ pc \in [Clients -> ClientPCs] /\ err \in [Clients -> Errs]
      /\ runs \in [Clients -> Nat]
      /\ proc \in [Slots -> Clients \cup {NoProc}] /\ pc[c] = "idle"
  BY DEF RInv, IInv, TypeOK, submit_alloc, submit_refuse
<1>2. Seen(c) /\ Seen(c)'
  BY <1>1, SeenBefore, SeenAfter DEF AllSeen
<1>3. ~Active(c) /\ phaseBar[c] = "idle"
  BY <1>1, <1>2 DEF Seen
<1>4. ASSUME NEW t \in Timeouts, submit_alloc(c, t) PROVE Serial!Call(c)
  <2>1. PICK s \in Slots : proc[s] = NoProc /\ proc' = [proc EXCEPT ![s] = c]
    BY <1>4 DEF submit_alloc, FirstFree
  <2>2. /\ pc'[c] \in {"full", "send"} /\ runs'[c] = 0 /\ UNCHANGED <<wpc, wreq>>
        /\ \A d \in Clients : d # c => pc'[d] = pc[d] /\ err'[d] = err[d] /\ runs'[d] = runs[d]
    BY <1>1, <1>4 DEF submit_alloc, wrkVars
  <2>3. wpc = "run" => wreq \in Slots /\ wreq # s
    BY <1>1, <2>1, ExecutedCall, NoProcAssumption DEF IInv, TypeOK
  <2>4. \A d \in Clients : Active(d)' <=> Active(d)
    BY <1>1, <2>1, <2>2, <2>3 DEF Active
  <2>5. \A d \in Clients : d # c => Still(d)
    BY <2>2, <2>4 DEF Still
  <2>6. phaseBar'[c] = "pending" /\ resultBar'[c] = "none"
    BY <1>2, <1>3, <2>2, <2>4 DEF Seen
  <2> QED
    BY <1>3, <2>5, <2>6, OneMoves DEF Serial!Call
<1>5. ASSUME submit_refuse(c) PROVE Serial!Refuse(c)
  <2>1. /\ UNCHANGED <<pc, proc, wpc, wreq>> /\ err'[c] = "full"
        /\ \A d \in Clients : d # c => err'[d] = err[d] /\ runs'[d] = runs[d]
    BY <1>1, <1>5 DEF submit_refuse, reqVars, wrkVars
  <2>2. \A d \in Clients : d # c => Still(d)
    BY <2>1 DEF Still, Active
  <2>3. phaseBar'[c] = "idle" /\ resultBar'[c] = "error"
    BY <1>1, <1>2, <2>1 DEF Seen
  <2>4. phaseBar' = phaseBar
    <3>1. \A d \in Clients : phaseBar'[d] = phaseBar[d]
      BY <1>3, <2>2, <2>3, StillLooksTheSame
    <3> QED
      BY <3>1 DEF phaseBar
  <2> QED
    BY <1>3, <2>2, <2>3, <2>4, OneMoves DEF Serial!Refuse
<1> QED
  BY <1>4, <1>5

(* The steps of the worker: only the callback is seen, as it begins and ends. *)
LEMMA WorkerSeen ==
  ASSUME RInv, IInv', net_exec_run_once
  PROVE  [Serial!Next]_Serial!vars
<1>1. /\ IInv /\ UNCHANGED <<pc, err>> /\ wreq \in Slots
      /\ proc \in [Slots -> Clients \cup {NoProc}]
  BY DEF RInv, IInv, TypeOK, net_exec_run_once, fixq_recv_nonempty, fixq_recv_poll, fixq_recv_take,
         fixq_recv_notify, run_once_start, run_once_proc, run_once_finish, cliVars
<1>2. ASSUME runs' = runs, wpc # "run", wpc' # "run" PROVE UNCHANGED Serial!vars
  <2>1. \A d \in Clients : Still(d)
    BY <1>1, <1>2 DEF Still, Active
  <2> QED
    BY <2>1, NothingSeen
<1>3. CASE fixq_recv_nonempty \/ fixq_recv_poll \/ fixq_recv_take \/ fixq_recv_notify
           \/ run_once_finish
  BY <1>2, <1>3 DEF fixq_recv_nonempty, fixq_recv_poll, fixq_recv_take, fixq_recv_notify,
       run_once_finish
<1>4. CASE run_once_start
  <2>1. wpc = "start" /\ runs' = runs /\ wreq' = wreq
    BY <1>4 DEF run_once_start
  <2>2. CASE abandoned[wreq]
    BY <1>2, <1>4, <2>1, <2>2 DEF run_once_start
  <2>3. CASE ~abandoned[wreq]
    <3> PICK c : c = proc[wreq]
      OBVIOUS
    <3>1. wpc' = "run" /\ proc' = proc
      BY <1>4, <2>3 DEF run_once_start
    <3>2. AtWorker(wreq)
      BY <2>1 DEF AtWorker
    <3>3. c \in Clients /\ pc[c] # "idle" /\ request[c] = wreq
      BY <1>1, <2>3, <3>2 DEF IInv, SlotInv
    <3>4. \A d \in Clients : ~Active(d)
      BY <2>1 DEF Active
    <3>5. Active(c)' /\ \A d \in Clients : d # c => ~Active(d)'
      BY <2>1, <3>1 DEF Active
    <3>6. \A d \in Clients : Seen(d) /\ Seen(d)'
      BY <1>1, SeenBefore, SeenAfter DEF AllSeen
    <3>7. runs[c] = 0
      BY <2>1, <3>3, <3>5, <3>6 DEF Seen
    <3>8. phaseBar[c] = "pending" /\ phaseBar'[c] = "running"
      BY <3>3, <3>4, <3>5, <3>6, <3>7 DEF Seen
    <3>9. \A d \in Clients : phaseBar[d] # "running"
      <4> SUFFICES ASSUME NEW d \in Clients PROVE phaseBar[d] # "running"
        OBVIOUS
      <4> QED
        BY <3>4 DEF phaseBar, Active
    <3>10. \A d \in Clients : d # c => Still(d)
      BY <1>1, <2>1, <3>4, <3>5 DEF Still
    <3>11. resultBar' = resultBar
      BY <1>1 DEF resultBar
    <3>12. phaseBar' = [phaseBar EXCEPT ![c] = "running"]
      BY <3>3, <3>8, <3>10, OneMoves
    <3>13. Serial!Begin(c)
      BY <3>8, <3>9, <3>11, <3>12 DEF Serial!Begin
    <3> QED
      BY <3>3, <3>13 DEF Serial!Next
  <2> QED
    BY <2>2, <2>3
<1>5. CASE run_once_proc
  <2> PICK c : c = proc[wreq]
    OBVIOUS
  <2>1. /\ wpc = "run" /\ wpc' = "finish" /\ proc' = proc /\ wreq' = wreq
        /\ runs' = [d \in Clients |-> IF d = c THEN runs[d] + 1 ELSE runs[d]]
    BY <1>5 DEF run_once_proc, reqVars
  <2>2. c \in Clients /\ pc[c] # "idle" /\ runs[c] = 0
    BY <1>1, <2>1, ExecutedCall DEF Sent
  <2>3. Active(c) /\ \A d \in Clients : ~Active(d)' /\ (d # c => ~Active(d))
    BY <2>1 DEF Active
  <2>4. Seen(c) /\ Seen(c)'
    BY <1>1, <2>2, SeenBefore, SeenAfter DEF AllSeen
  <2>5. runs'[c] > 0
    BY <2>1, <2>2
  <2>6. phaseBar[c] = "running" /\ phaseBar'[c] = "ran"
    BY <1>1, <2>2, <2>3, <2>4, <2>5 DEF Seen
  <2>7. \A d \in Clients : d # c => Still(d)
    BY <1>1, <2>1, <2>3 DEF Still
  <2>8. resultBar' = resultBar
    BY <1>1 DEF resultBar
  <2>9. phaseBar' = [phaseBar EXCEPT ![c] = "ran"]
    BY <2>2, <2>6, <2>7, OneMoves
  <2>10. Serial!End(c)
    BY <2>6, <2>8, <2>9 DEF Serial!End
  <2> QED
    BY <2>2, <2>10 DEF Serial!Next
<1> QED
  BY <1>3, <1>4, <1>5 DEF net_exec_run_once

-----------------------------------------------------------------------------
(* Every step of the code is a step of SerialExec or a stutter. *)
LEMMA StepSeen == RInv /\ IInv' /\ [Next]_vars => [Serial!Next]_Serial!vars
<1> SUFFICES ASSUME RInv, IInv', [Next]_vars PROVE [Serial!Next]_Serial!vars
  OBVIOUS
<1>1. CASE UNCHANGED vars
  <2>1. UNCHANGED <<pc, err, runs, proc, wpc, wreq>>
    BY <1>1 DEF vars, cliVars, wrkVars, reqVars
  <2>2. \A d \in Clients : Still(d)
    BY <2>1 DEF Still, Active
  <2> QED
    BY <2>2, NothingSeen
<1>2. ASSUME NEW c \in Clients, (\E t \in Timeouts : submit_alloc(c, t)) \/ submit_refuse(c)
      PROVE  Serial!Next
  BY <1>2, CallSeen DEF Serial!Next
<1>3. ASSUME NEW c \in Clients, ClientStep(c) PROVE [Serial!Next]_Serial!vars
  BY <1>3, ClientSeen
<1>4. ASSUME net_exec_run_once PROVE [Serial!Next]_Serial!vars
  BY <1>4, WorkerSeen
<1> QED
  BY <1>1, <1>2, <1>3, <1>4 DEF Next

(* net_exec_submit and net_exec_run_once together are the serial executor   *)
(* their callers rely on: each callback runs at most once, one at a time,   *)
(* before a call that reports success returns, and never after an error.    *)
THEOREM ImplementsSerial == Spec => ImplementsSerialExec
<1>1. Init => Serial!Init
  <2> SUFFICES ASSUME Init PROVE Serial!Init
    OBVIOUS
  <2>1. \A c \in Clients : phaseBar[c] = "idle" /\ resultBar[c] = "none"
    BY DEF Init, phaseBar, resultBar
  <2> QED
    BY <2>1 DEF Serial!Init, phaseBar, resultBar
<1>2. RInv => IInv
  BY DEF RInv
<1> QED
  BY <1>1, <1>2, StepSeen, RefinementInvariance, PTL DEF Spec, ImplementsSerialExec, Serial!Spec
=============================================================================
