--------------------------- MODULE NetExecProofs ---------------------------
(***************************************************************************)
(* Proofs about NetExec for any set of clients and any table and queue     *)
(* sizes: type correctness, the inductive invariant IInv, and from it the  *)
(* safety properties that the runs check on small instances.               *)
(***************************************************************************)
EXTENDS NetExec, TLAPS

(* Appending a message adds exactly it to the queue. *)
LEMMA AppendQueue ==
  ASSUME queue \in Seq(Slots), NEW m \in Slots, queue' = Append(queue, m)
  PROVE  /\ \A s \in Slots : Queued(s)' <=> Queued(s) \/ s = m
         /\ QueueDistinct /\ ~Queued(m) => QueueDistinct'
<1>1. /\ Len(queue) \in Nat
      /\ Len(queue') = Len(queue) + 1
      /\ \A i \in 1 .. Len(queue) : queue'[i] = queue[i]
      /\ queue'[Len(queue) + 1] = m
  OBVIOUS
<1>2. \A s \in Slots : Queued(s)' <=> Queued(s) \/ s = m
  BY <1>1 DEF Queued
<1>3. QueueDistinct /\ ~Queued(m) => QueueDistinct'
  BY <1>1 DEF QueueDistinct, Queued
<1> QED
  BY <1>2, <1>3

(* Taking the oldest message removes exactly it from a duplicate-free queue. *)
LEMMA TakeQueue ==
  ASSUME queue \in Seq(Slots), Len(queue) # 0, queue' = Tail(queue),
         QueueDistinct
  PROVE  /\ Head(queue) \in Slots
         /\ \A s \in Slots : Queued(s)' <=> Queued(s) /\ s # Head(queue)
         /\ Queued(Head(queue))
         /\ QueueDistinct'
<1>1. /\ Len(queue) \in Nat \ {0}
      /\ Len(queue') = Len(queue) - 1
      /\ \A i \in 1 .. Len(queue') : queue'[i] = queue[i + 1]
      /\ Head(queue) = queue[1]
      /\ Head(queue) \in Slots
  OBVIOUS
<1>2. ASSUME NEW s \in Slots
      PROVE  Queued(s)' <=> Queued(s) /\ s # Head(queue)
  <2>1. ASSUME Queued(s)' PROVE Queued(s) /\ s # Head(queue)
    BY <1>1, <2>1 DEF Queued, QueueDistinct
  <2>2. ASSUME Queued(s), s # Head(queue) PROVE Queued(s)'
    <3>1. PICK i \in 1 .. Len(queue) : queue[i] = s
      BY <2>2 DEF Queued
    <3>2. i - 1 \in 1 .. Len(queue') /\ queue'[i - 1] = s
      BY <1>1, <2>2, <3>1
    <3> QED
      BY <3>2 DEF Queued
  <2> QED
    BY <2>1, <2>2
<1>3. Queued(Head(queue))
  BY <1>1 DEF Queued
<1>4. QueueDistinct'
  BY <1>1 DEF QueueDistinct
<1> QED
  BY <1>1, <1>2, <1>3, <1>4

(* Type correctness is preserved by every step. *)
LEMMA TypeStep == TypeOK /\ [Next]_vars => TypeOK'
<1> SUFFICES ASSUME TypeOK, [Next]_vars PROVE TypeOK'
  OBVIOUS
<1> USE SizeAssumption DEF TypeOK, ClientPCs, WorkerPCs, Errs, Timeouts
<1>1. ASSUME NEW c \in Clients, NEW t \in Timeouts, submit_alloc(c, t)
      PROVE  TypeOK'
  BY <1>1 DEF submit_alloc, fixqVars, wrkVars
<1>2. ASSUME NEW c \in Clients, submit_refuse(c) PROVE TypeOK'
  BY <1>2 DEF submit_refuse, reqVars, fixqVars, wrkVars
<1>3. ASSUME NEW c \in Clients, ClientStep(c) PROVE TypeOK'
  <2>1. CASE fixq_send_full(c)
    BY <2>1 DEF fixq_send_full, reqVars, fixqVars, wrkVars
  <2>2. CASE fixq_send_look(c)
    <3>1. send_sem' \in Nat
      BY <2>2 DEF fixq_send_look
    <3>2. pc' \in [Clients -> ClientPCs]
      BY <2>2 DEF fixq_send_look
    <3>3. err' \in [Clients -> Errs]
      BY <2>2 DEF fixq_send_look
    <3>4. UNCHANGED <<reqVars, done, size, queue, recv_sem, request, timeout, wrkVars, runs>>
      BY <2>2 DEF fixq_send_look
    <3> QED
      BY <3>1, <3>2, <3>3, <3>4 DEF reqVars, wrkVars
  <2>3. CASE fixq_send_wake(c)
    BY <2>3 DEF fixq_send_wake, reqVars, wrkVars
  <2>4. CASE fixq_send_timeout(c)
    BY <2>4 DEF fixq_send_timeout, reqVars, fixqVars, wrkVars
  <2>5. CASE submit_undo(c)
    BY <2>5 DEF submit_undo, fixqVars, wrkVars
  <2>6. CASE fixq_send_put(c)
    BY <2>6 DEF fixq_send_put, reqVars, wrkVars
  <2>7. CASE fixq_send_post(c)
    BY <2>7 DEF fixq_send_post, reqVars, wrkVars
  <2>8. CASE done_look(c)
    <3>1. done' \in [Slots -> Nat]
      <4>1. /\ done \in [Slots -> Nat] /\ request[c] \in Slots
            /\ done[request[c]] \in Nat
        OBVIOUS
      <4>2. PICK v \in Nat :
               done' = done \/ done' = [done EXCEPT ![request[c]] = v]
        BY <2>8, <4>1 DEF done_look
      <4> HIDE DEF TypeOK
      <4> QED
        BY <4>1, <4>2
    <3>2. pc' \in [Clients -> ClientPCs]
      BY <2>8 DEF done_look
    <3>3. err' \in [Clients -> Errs]
      BY <2>8 DEF done_look
    <3>4. UNCHANGED <<reqVars, fixqVars, request, timeout, wrkVars, runs>>
      BY <2>8 DEF done_look
    <3> QED
      BY <3>1, <3>2, <3>3, <3>4 DEF reqVars, fixqVars, wrkVars
  <2>9. CASE done_wake(c)
    BY <2>9 DEF done_wake, reqVars, fixqVars, wrkVars
  <2>10. CASE done_timeout(c)
    BY <2>10 DEF done_timeout, reqVars, fixqVars, wrkVars
  <2>11. CASE submit_check(c)
    <3>1. proc' \in [Slots -> Clients \cup {NoProc}]
      BY <2>11 DEF submit_check, Conclude
    <3>2. abandoned' \in [Slots -> BOOLEAN]
      BY <2>11 DEF submit_check, Conclude
    <3>3. done' \in [Slots -> Nat]
      BY <2>11 DEF submit_check, Conclude
    <3>4. pc' \in [Clients -> ClientPCs]
      <4>1. pc' = [pc EXCEPT ![c] = "rewait"] \/ pc' = [pc EXCEPT ![c] = "idle"]
        BY <2>11 DEF submit_check, Conclude
      <4> QED
        BY <4>1
    <3>5. err' \in [Clients -> Errs]
      BY <2>11 DEF submit_check, Conclude
    <3>6. UNCHANGED <<completed, started, fixqVars, request, timeout, wrkVars, runs>>
      BY <2>11 DEF submit_check, Conclude
    <3> QED
      BY <3>1, <3>2, <3>3, <3>4, <3>5, <3>6 DEF fixqVars, wrkVars
  <2>12. CASE done_rewait(c)
    BY <2>12 DEF done_rewait, reqVars, fixqVars, wrkVars
  <2>13. CASE submit_finish(c)
    <3>1. proc' \in [Slots -> Clients \cup {NoProc}]
      BY <2>13 DEF submit_finish, Conclude
    <3>2. abandoned' \in [Slots -> BOOLEAN]
      BY <2>13 DEF submit_finish, Conclude
    <3>3. done' \in [Slots -> Nat]
      <4>1. /\ done \in [Slots -> Nat] /\ request[c] \in Slots
            /\ done[request[c]] \in Nat
        OBVIOUS
      <4>2. (IF err[c] # "ok" /\ done[request[c]] > 0
               THEN done[request[c]] - 1 ELSE done[request[c]]) \in Nat
        BY <4>1
      <4>3. PICK v \in Nat :
               done' = done \/ done' = [done EXCEPT ![request[c]] = v]
        BY <2>13, <4>2 DEF submit_finish, Conclude
      <4> HIDE DEF TypeOK
      <4> QED
        BY <4>1, <4>3
    <3>4. pc' \in [Clients -> ClientPCs]
      BY <2>13 DEF submit_finish, Conclude
    <3>5. err' \in [Clients -> Errs]
      BY <2>13 DEF submit_finish, Conclude
    <3>6. UNCHANGED <<completed, started, fixqVars, request, timeout, wrkVars, runs>>
      BY <2>13 DEF submit_finish, Conclude
    <3> QED
      BY <3>1, <3>2, <3>3, <3>4, <3>5, <3>6 DEF fixqVars, wrkVars
  <2> QED
    BY <1>3, <2>1, <2>2, <2>3, <2>4, <2>5, <2>6, <2>7, <2>8, <2>9, <2>10,
       <2>11, <2>12, <2>13 DEF ClientStep
<1>4. ASSUME net_exec_run_once PROVE TypeOK'
  <2>1. CASE fixq_recv_nonempty
    BY <2>1 DEF fixq_recv_nonempty, reqVars, fixqVars, cliVars
  <2>2. CASE fixq_recv_poll
    BY <2>2 DEF fixq_recv_poll, reqVars, cliVars
  <2>3. CASE fixq_recv_take
    <3>1. wpc' \in WorkerPCs
      BY <2>3 DEF fixq_recv_take
    <3>2. wreq' \in Slots
      BY <2>3 DEF fixq_recv_take
    <3>3. queue' \in Seq(Slots)
      <4>1. Len(queue) # 0 => Tail(queue) \in Seq(Slots)
        OBVIOUS
      <4> QED
        BY <2>3, <4>1 DEF fixq_recv_take
    <3>4. UNCHANGED <<reqVars, done, size, send_sem, recv_sem, cliVars, runs>>
      BY <2>3 DEF fixq_recv_take
    <3> QED
      BY <3>1, <3>2, <3>3, <3>4 DEF reqVars, cliVars
  <2>4. CASE fixq_recv_notify
    BY <2>4 DEF fixq_recv_notify, reqVars, cliVars
  <2>5. CASE run_once_start
    BY <2>5 DEF run_once_start, fixqVars, cliVars
  <2>6. CASE run_once_proc
    BY <2>6 DEF run_once_proc, reqVars, fixqVars, cliVars
  <2>7. CASE run_once_finish
    <3>1. proc' \in [Slots -> Clients \cup {NoProc}]
      BY <2>7 DEF run_once_finish
    <3>2. completed' \in [Slots -> BOOLEAN]
      BY <2>7 DEF run_once_finish
    <3>3. done' \in [Slots -> Nat]
      <4>1. done[wreq] + 1 \in Nat
        OBVIOUS
      <4> QED
        BY <2>7, <4>1 DEF run_once_finish
    <3>4. wpc' \in WorkerPCs
      BY <2>7 DEF run_once_finish
    <3>5. UNCHANGED <<abandoned, started, fixqVars, cliVars, wreq, runs>>
      BY <2>7 DEF run_once_finish
    <3> QED
      BY <3>1, <3>2, <3>3, <3>4, <3>5 DEF fixqVars, cliVars
  <2> QED
    BY <1>4, <2>1, <2>2, <2>3, <2>4, <2>5, <2>6, <2>7 DEF net_exec_run_once
<1>5. ASSUME UNCHANGED vars PROVE TypeOK'
  BY <1>5 DEF vars, reqVars, fixqVars, cliVars, wrkVars
<1> QED
  BY <1>1, <1>2, <1>3, <1>4, <1>5 DEF Next

-----------------------------------------------------------------------------
(* The parts of IInv beyond type correctness. *)
Places == QueueDistinct /\ OwnerInv /\ SlotInv /\ PlaceInv /\ CallInv

(* Steps that leave the queue and the worker alone leave every slot where it is. *)
LEMMA SamePlaces ==
  ASSUME UNCHANGED <<queue, wpc, wreq>>
  PROVE  /\ \A s \in Slots : Queued(s)' <=> Queued(s)
         /\ \A s \in Slots : AtWorker(s)' <=> AtWorker(s)
         /\ QueueDistinct' <=> QueueDistinct
BY DEF Queued, AtWorker, QueueDistinct

(* Both ends of net_exec_submit keep the places: a completed request is     *)
(* freed with an empty semaphore, another becomes the worker's to free.     *)
LEMMA ConcludeStep ==
  ASSUME IInv, NEW c \in Clients, pc[c] \in {"check", "finish"},
         completed[request[c]] \/ ~started[request[c]], Conclude(c),
         UNCHANGED <<completed, started, fixqVars, request, timeout, wrkVars, runs>>
  PROVE  Places'
<1> USE NoProcAssumption DEF Unsent, Sent
<1>1. UNCHANGED <<completed, started, queue, wpc, wreq, request, runs>>
  BY DEF fixqVars, wrkVars
<1>2. /\ \A s \in Slots : Queued(s)' <=> Queued(s)
      /\ \A s \in Slots : AtWorker(s)' <=> AtWorker(s)
      /\ QueueDistinct'
  BY <1>1, SamePlaces DEF IInv
<1>3. CASE completed[request[c]]
  <2>1. /\ done' = [done EXCEPT ![request[c]] =
                      IF err[c] # "ok" /\ @ > 0 THEN @ - 1 ELSE @]
        /\ proc' = [proc EXCEPT ![request[c]] = NoProc]
        /\ err' = [err EXCEPT ![c] = "ok"]
        /\ pc' = [pc EXCEPT ![c] = "idle"]
        /\ abandoned' = abandoned
    BY <1>3 DEF Conclude
  <2>2. done'[request[c]] = 0 /\ \A s \in Slots \ {request[c]} : done'[s] = done[s]
    BY <1>3, <2>1 DEF IInv, TypeOK, CallInv, CallOf
  <2>3. OwnerInv'
    BY <1>1, <2>1 DEF IInv, TypeOK, OwnerInv
  <2>4. SlotInv'
    BY <1>1, <1>2, <1>3, <2>1, <2>2 DEF IInv, TypeOK, OwnerInv, SlotInv, PlaceInv
  <2>5. PlaceInv'
    BY <1>1, <1>2 DEF IInv, PlaceInv, AtWorker
  <2>6. CallInv'
    BY <1>1, <1>2, <1>3, <2>1, <2>2 DEF IInv, TypeOK, OwnerInv, CallInv, CallOf
  <2> QED
    BY <1>2, <2>3, <2>4, <2>5, <2>6 DEF Places
<1>4. CASE ~completed[request[c]]
  <2>1. /\ abandoned' = [abandoned EXCEPT ![request[c]] = TRUE]
        /\ pc' = [pc EXCEPT ![c] = "idle"]
        /\ UNCHANGED <<done, proc, err>>
    BY <1>4 DEF Conclude
  <2>2. OwnerInv'
    BY <1>1, <2>1 DEF IInv, TypeOK, OwnerInv
  <2>3. SlotInv'
    BY <1>1, <1>2, <1>4, <2>1 DEF IInv, TypeOK, OwnerInv, SlotInv, CallInv, CallOf
  <2>4. PlaceInv'
    BY <1>1, <1>2 DEF IInv, PlaceInv, AtWorker
  <2>5. CallInv'
    BY <1>1, <1>2, <1>4, <2>1 DEF IInv, TypeOK, OwnerInv, PlaceInv, CallInv, CallOf
  <2> QED
    BY <1>2, <2>2, <2>3, <2>4, <2>5 DEF Places
<1> QED
  BY <1>3, <1>4

(* A step of client c inside its call that moves no slot keeps the places     *)
(* when it keeps CallOf(c): the slot of c is no other client's.              *)
LEMMA InCallStep ==
  ASSUME IInv, NEW c \in Clients, pc[c] # "idle", pc'[c] # "idle",
         UNCHANGED <<proc, completed, started, abandoned, queue, wpc, wreq, request, runs>>,
         \A d \in Clients \ {c} : pc'[d] = pc[d] /\ err'[d] = err[d],
         \A s \in Slots \ {request[c]} : done'[s] = done[s],
         CallOf(c)'
  PROVE  Places'
<1> USE NoProcAssumption
<1>1. /\ \A s \in Slots : Queued(s)' <=> Queued(s)
      /\ \A s \in Slots : AtWorker(s)' <=> AtWorker(s)
      /\ QueueDistinct'
  BY SamePlaces DEF IInv
<1>2. proc[request[c]] = c /\ ~abandoned[request[c]]
  BY DEF IInv, OwnerInv
<1>3. OwnerInv'
  <2> SUFFICES ASSUME NEW d \in Clients, pc'[d] # "idle"
               PROVE  proc[request[d]] = d /\ ~abandoned[request[d]]
    BY DEF OwnerInv
  <2>1. pc[d] # "idle"
    OBVIOUS
  <2> QED
    BY <2>1 DEF IInv, OwnerInv
<1>4. SlotInv'
  <2> SUFFICES ASSUME NEW s \in Slots
               PROVE  /\ proc[s] = NoProc => done'[s] = 0 /\ ~Queued(s) /\ ~AtWorker(s)
                      /\ proc[s] # NoProc /\ abandoned[s] =>
                            done'[s] = 0 /\ ~started[s] /\ (Queued(s) \/ AtWorker(s))
                      /\ proc[s] # NoProc /\ ~abandoned[s] =>
                            pc'[proc[s]] # "idle" /\ request[proc[s]] = s
    BY <1>1 DEF SlotInv
  <2>1. proc[s] = NoProc \/ abandoned[s] => done'[s] = done[s]
    BY <1>2
  <2>2. proc[s] # NoProc => proc[s] \in Clients
    BY DEF IInv, TypeOK
  <2> QED
    BY <2>1, <2>2 DEF IInv, SlotInv
<1>5. PlaceInv'
  BY <1>1 DEF IInv, PlaceInv
<1>6. CallInv'
  <2> SUFFICES ASSUME NEW d \in Clients, d # c PROVE CallOf(d)'
    BY DEF CallInv
  <2>1. CallOf(d) /\ request[d] \in Slots /\ pc'[d] = pc[d] /\ err'[d] = err[d]
    BY DEF IInv, TypeOK, CallInv
  <2>2. /\ Queued(request[d])' <=> Queued(request[d])
        /\ AtWorker(request[d])' <=> AtWorker(request[d])
    BY <1>1, <2>1
  <2>3. pc[d] # "idle" => done'[request[d]] = done[request[d]]
    BY <1>2, <2>1 DEF IInv, OwnerInv
  <2> QED
    BY <2>1, <2>2, <2>3 DEF CallOf, Unsent, Sent
<1> QED
  BY <1>1, <1>3, <1>4, <1>5, <1>6 DEF Places

(* Every step of a client inside its call keeps the places. *)
LEMMA ClientPlaces ==
  ASSUME IInv, NEW c \in Clients, ClientStep(c)
  PROVE  Places'
<1> USE NoProcAssumption DEF Unsent, Sent, Timeouts

<1>1. CASE fixq_send_full(c)
  <2>1. /\ UNCHANGED <<proc, completed, started, abandoned, queue, wpc, wreq, request, runs>>
        /\ pc[c] # "idle" /\ pc'[c] # "idle"
        /\ \A d \in Clients \ {c} : pc'[d] = pc[d] /\ err'[d] = err[d]
        /\ \A s \in Slots \ {request[c]} : done'[s] = done[s]
    BY <1>1 DEF IInv, TypeOK, fixq_send_full, reqVars, fixqVars, wrkVars
  <2>2. CallOf(c) /\ request[c] \in Slots
    BY DEF IInv, TypeOK, CallInv
  <2>3. /\ Queued(request[c])' <=> Queued(request[c])
        /\ AtWorker(request[c])' <=> AtWorker(request[c])
    BY <2>1 DEF Queued, AtWorker
  <2>4. CallOf(c)'
    BY <1>1, <2>1, <2>2, <2>3 DEF IInv, TypeOK, CallOf, fixq_send_full
  <2> QED
    BY <2>1, <2>4, InCallStep
<1>2. CASE fixq_send_look(c)
  <2>1. /\ UNCHANGED <<proc, completed, started, abandoned, queue, wpc, wreq, request, runs>>
        /\ pc[c] # "idle" /\ pc'[c] # "idle"
        /\ \A d \in Clients \ {c} : pc'[d] = pc[d] /\ err'[d] = err[d]
        /\ \A s \in Slots \ {request[c]} : done'[s] = done[s]
    BY <1>2 DEF IInv, TypeOK, fixq_send_look, reqVars, wrkVars
  <2>2. CallOf(c) /\ request[c] \in Slots
    BY DEF IInv, TypeOK, CallInv
  <2>3. /\ Queued(request[c])' <=> Queued(request[c])
        /\ AtWorker(request[c])' <=> AtWorker(request[c])
    BY <2>1 DEF Queued, AtWorker
  <2>4. CallOf(c)'
    BY <1>2, <2>1, <2>2, <2>3 DEF IInv, TypeOK, CallOf, fixq_send_look
  <2> QED
    BY <2>1, <2>4, InCallStep
<1>3. CASE fixq_send_wake(c)
  <2>1. /\ UNCHANGED <<proc, completed, started, abandoned, queue, wpc, wreq, request, runs>>
        /\ pc[c] # "idle" /\ pc'[c] # "idle"
        /\ \A d \in Clients \ {c} : pc'[d] = pc[d] /\ err'[d] = err[d]
        /\ \A s \in Slots \ {request[c]} : done'[s] = done[s]
    BY <1>3 DEF IInv, TypeOK, fixq_send_wake, reqVars, wrkVars
  <2>2. CallOf(c) /\ request[c] \in Slots
    BY DEF IInv, TypeOK, CallInv
  <2>3. /\ Queued(request[c])' <=> Queued(request[c])
        /\ AtWorker(request[c])' <=> AtWorker(request[c])
    BY <2>1 DEF Queued, AtWorker
  <2>4. CallOf(c)'
    BY <1>3, <2>1, <2>2, <2>3 DEF IInv, TypeOK, CallOf, fixq_send_wake
  <2> QED
    BY <2>1, <2>4, InCallStep
<1>4. CASE fixq_send_timeout(c)
  <2>1. /\ UNCHANGED <<proc, completed, started, abandoned, queue, wpc, wreq, request, runs>>
        /\ pc[c] # "idle" /\ pc'[c] # "idle"
        /\ \A d \in Clients \ {c} : pc'[d] = pc[d] /\ err'[d] = err[d]
        /\ \A s \in Slots \ {request[c]} : done'[s] = done[s]
    BY <1>4 DEF IInv, TypeOK, fixq_send_timeout, reqVars, fixqVars, wrkVars
  <2>2. CallOf(c) /\ request[c] \in Slots
    BY DEF IInv, TypeOK, CallInv
  <2>3. /\ Queued(request[c])' <=> Queued(request[c])
        /\ AtWorker(request[c])' <=> AtWorker(request[c])
    BY <2>1 DEF Queued, AtWorker
  <2>4. CallOf(c)'
    BY <1>4, <2>1, <2>2, <2>3 DEF IInv, TypeOK, CallOf, fixq_send_timeout
  <2> QED
    BY <2>1, <2>4, InCallStep
<1>5. CASE submit_undo(c)
  <2>1. UNCHANGED <<completed, started, abandoned, queue, wpc, wreq, request, runs>>
    BY <1>5 DEF submit_undo, fixqVars, wrkVars
  <2>2. /\ \A s \in Slots : Queued(s)' <=> Queued(s)
        /\ \A s \in Slots : AtWorker(s)' <=> AtWorker(s)
        /\ QueueDistinct'
    BY <2>1, SamePlaces DEF IInv
  <2>3. OwnerInv'
    BY <1>5, <2>1 DEF IInv, TypeOK, OwnerInv, submit_undo, fixqVars, wrkVars
  <2>4. SlotInv'
    <3>1. /\ done' = done /\ request[c] \in Slots /\ pc' = [pc EXCEPT ![c] = "idle"]
          /\ proc' = [proc EXCEPT ![request[c]] = NoProc]
      BY <1>5 DEF IInv, TypeOK, submit_undo
    <3>2. /\ done[request[c]] = 0 /\ ~Queued(request[c]) /\ ~AtWorker(request[c])
          /\ proc[request[c]] = c
      BY <1>5 DEF IInv, OwnerInv, CallInv, CallOf, submit_undo
    <3>3. ASSUME NEW s \in Slots, s # request[c], proc[s] # NoProc, ~abandoned[s]
          PROVE  proc[s] \in Clients \ {c} /\ pc[proc[s]] # "idle" /\ request[proc[s]] = s
      BY <3>3 DEF IInv, TypeOK, SlotInv
    <3> QED
      BY <2>1, <2>2, <3>1, <3>2, <3>3 DEF IInv, TypeOK, SlotInv
  <2>5. PlaceInv'
    BY <2>1, <2>2 DEF IInv, PlaceInv, AtWorker
  <2>6. CallInv'
    <3> SUFFICES ASSUME NEW d \in Clients PROVE CallOf(d)'
      BY DEF CallInv
    <3>1. /\ CallOf(d) /\ request[d] \in Slots /\ pc[c] = "undo"
          /\ UNCHANGED <<done, err>> /\ pc'[d] = (IF d = c THEN "idle" ELSE pc[d])
      BY <1>5 DEF IInv, TypeOK, CallInv, submit_undo
    <3>2. /\ Queued(request[d])' <=> Queued(request[d])
          /\ AtWorker(request[d])' <=> AtWorker(request[d])
      BY <2>1, <2>2, <3>1
    <3> QED
      BY <2>1, <3>1, <3>2 DEF CallOf
  <2> QED
    BY <2>2, <2>3, <2>4, <2>5, <2>6 DEF Places
<1>6. CASE fixq_send_put(c)
  <2>1. /\ UNCHANGED <<reqVars, done, wpc, wreq, request, err, runs>>
        /\ pc[c] = "put"
        /\ pc' = [pc EXCEPT ![c] = "post"]
        /\ queue' = Append(queue, request[c])
    BY <1>6 DEF fixq_send_put, wrkVars
  <2>2. ~Queued(request[c]) /\ ~AtWorker(request[c]) /\ request[c] \in Slots
    BY <2>1 DEF IInv, TypeOK, CallInv, CallOf
  <2>3. /\ \A s \in Slots : Queued(s)' <=> Queued(s) \/ s = request[c]
        /\ QueueDistinct'
    BY <2>1, <2>2, AppendQueue DEF IInv, TypeOK
  <2>4. \A s \in Slots : AtWorker(s)' <=> AtWorker(s)
    BY <2>1 DEF AtWorker
  <2>5. OwnerInv'
    BY <2>1 DEF IInv, TypeOK, OwnerInv, reqVars
  <2>6. SlotInv'
    BY <2>1, <2>3, <2>4 DEF IInv, TypeOK, OwnerInv, SlotInv, reqVars
  <2>7. PlaceInv'
    BY <2>1, <2>2, <2>3, <2>4 DEF IInv, TypeOK, PlaceInv, CallInv, CallOf, reqVars
  <2>8. CallInv'
    <3> SUFFICES ASSUME NEW d \in Clients PROVE CallOf(d)'
      BY DEF CallInv
    <3>1. CallOf(d) /\ request[d] \in Slots
      BY DEF IInv, TypeOK, CallInv
    <3>2. UNCHANGED <<completed, started, done, request, err, runs, wpc>>
      BY <2>1 DEF reqVars
    <3>3. /\ AtWorker(request[d])' <=> AtWorker(request[d])
          /\ Queued(request[d])' <=> Queued(request[d]) \/ request[d] = request[c]
      BY <2>3, <2>4, <3>1, <3>2
    <3>4. CASE d = c
      BY <2>1, <2>2, <3>1, <3>2, <3>3, <3>4 DEF IInv, TypeOK, CallOf
    <3>5. CASE d # c
      <4>1. pc[d] # "idle" => request[d] # request[c]
        BY <2>1, <3>5 DEF IInv, OwnerInv
      <4>2. pc'[d] = pc[d]
        BY <2>1, <3>5 DEF IInv, TypeOK
      <4> QED
        BY <3>1, <3>2, <3>3, <4>1, <4>2 DEF CallOf
    <3> QED
      BY <3>4, <3>5
  <2> QED
    BY <2>3, <2>5, <2>6, <2>7, <2>8 DEF Places
<1>7. CASE fixq_send_post(c)
  <2>1. /\ UNCHANGED <<proc, completed, started, abandoned, queue, wpc, wreq, request, runs>>
        /\ pc[c] # "idle" /\ pc'[c] # "idle"
        /\ \A d \in Clients \ {c} : pc'[d] = pc[d] /\ err'[d] = err[d]
        /\ \A s \in Slots \ {request[c]} : done'[s] = done[s]
    BY <1>7 DEF IInv, TypeOK, fixq_send_post, reqVars, wrkVars
  <2>2. CallOf(c) /\ request[c] \in Slots
    BY DEF IInv, TypeOK, CallInv
  <2>3. /\ Queued(request[c])' <=> Queued(request[c])
        /\ AtWorker(request[c])' <=> AtWorker(request[c])
    BY <2>1 DEF Queued, AtWorker
  <2>4. CallOf(c)'
    BY <1>7, <2>1, <2>2, <2>3 DEF IInv, TypeOK, CallOf, fixq_send_post
  <2> QED
    BY <2>1, <2>4, InCallStep
<1>8. CASE done_look(c)
  <2>1. /\ UNCHANGED <<proc, completed, started, abandoned, queue, wpc, wreq, request, runs>>
        /\ pc[c] # "idle" /\ pc'[c] # "idle"
        /\ \A d \in Clients \ {c} : pc'[d] = pc[d] /\ err'[d] = err[d]
        /\ \A s \in Slots \ {request[c]} : done'[s] = done[s]
    BY <1>8 DEF IInv, TypeOK, done_look, reqVars, fixqVars, wrkVars
  <2>2. CallOf(c) /\ request[c] \in Slots
    BY DEF IInv, TypeOK, CallInv
  <2>3. /\ Queued(request[c])' <=> Queued(request[c])
        /\ AtWorker(request[c])' <=> AtWorker(request[c])
    BY <2>1 DEF Queued, AtWorker
  <2>4. CallOf(c)'
    BY <1>8, <2>1, <2>2, <2>3 DEF IInv, TypeOK, CallOf, done_look
  <2> QED
    BY <2>1, <2>4, InCallStep
<1>9. CASE done_wake(c)
  <2>1. /\ UNCHANGED <<proc, completed, started, abandoned, queue, wpc, wreq, request, runs>>
        /\ pc[c] # "idle" /\ pc'[c] # "idle"
        /\ \A d \in Clients \ {c} : pc'[d] = pc[d] /\ err'[d] = err[d]
        /\ \A s \in Slots \ {request[c]} : done'[s] = done[s]
    BY <1>9 DEF IInv, TypeOK, done_wake, reqVars, fixqVars, wrkVars
  <2>2. CallOf(c) /\ request[c] \in Slots
    BY DEF IInv, TypeOK, CallInv
  <2>3. /\ Queued(request[c])' <=> Queued(request[c])
        /\ AtWorker(request[c])' <=> AtWorker(request[c])
    BY <2>1 DEF Queued, AtWorker
  <2>4. CallOf(c)'
    <3>1. /\ pc[c] \in Sent /\ pc'[c] = "check" /\ err'[c] = "ok"
          /\ done[request[c]] > 0 /\ done'[request[c]] = done[request[c]] - 1
      BY <1>9, <2>2 DEF IInv, TypeOK, done_wake
    <3>2. /\ completed[request[c]] => started[request[c]]
          /\ completed[request[c]] => runs[c] = 1
          /\ done[request[c]] =
                (IF completed[request[c]] /\ err[c] # "ok" THEN 1 ELSE 0)
      BY <2>2, <3>1 DEF CallOf
    <3>3. completed[request[c]] /\ done[request[c]] = 1
      BY <3>1, <3>2
    <3>4. done'[request[c]] = 0
      BY <3>1, <3>3
    <3> QED
      BY <2>1, <3>1, <3>2, <3>3, <3>4 DEF CallOf
  <2> QED
    BY <2>1, <2>4, InCallStep
<1>10. CASE done_timeout(c)
  <2>1. /\ UNCHANGED <<proc, completed, started, abandoned, queue, wpc, wreq, request, runs>>
        /\ pc[c] # "idle" /\ pc'[c] # "idle"
        /\ \A d \in Clients \ {c} : pc'[d] = pc[d] /\ err'[d] = err[d]
        /\ \A s \in Slots \ {request[c]} : done'[s] = done[s]
    BY <1>10 DEF IInv, TypeOK, done_timeout, reqVars, fixqVars, wrkVars
  <2>2. CallOf(c) /\ request[c] \in Slots
    BY DEF IInv, TypeOK, CallInv
  <2>3. /\ Queued(request[c])' <=> Queued(request[c])
        /\ AtWorker(request[c])' <=> AtWorker(request[c])
    BY <2>1 DEF Queued, AtWorker
  <2>4. CallOf(c)'
    BY <1>10, <2>1, <2>2, <2>3 DEF IInv, TypeOK, CallOf, done_timeout
  <2> QED
    BY <2>1, <2>4, InCallStep
<1>11. CASE submit_check(c)
  <2>1. CASE err[c] # "ok" /\ started[request[c]] /\ ~completed[request[c]]
    <3>1. /\ UNCHANGED <<proc, abandoned, done, err, completed, started, queue,
                         request, wpc, wreq, runs>>
          /\ pc' = [pc EXCEPT ![c] = "rewait"] /\ pc[c] = "check"
      BY <1>11, <2>1 DEF submit_check, fixqVars, wrkVars
    <3>2. /\ \A s \in Slots : Queued(s)' <=> Queued(s)
          /\ \A s \in Slots : AtWorker(s)' <=> AtWorker(s)
          /\ QueueDistinct'
      BY <3>1, SamePlaces DEF IInv
    <3>3. OwnerInv'
      BY <3>1 DEF IInv, TypeOK, OwnerInv
    <3>4. SlotInv'
      BY <3>1, <3>2 DEF IInv, TypeOK, SlotInv
    <3>5. PlaceInv'
      BY <3>1, <3>2 DEF IInv, PlaceInv, AtWorker
    <3>6. CallInv'
      BY <2>1, <3>1, <3>2 DEF IInv, TypeOK, CallInv, CallOf
    <3> QED
      BY <3>2, <3>3, <3>4, <3>5, <3>6 DEF Places
  <2>2. CASE ~(err[c] # "ok" /\ started[request[c]] /\ ~completed[request[c]])
    <3>1. completed[request[c]] \/ ~started[request[c]]
      BY <1>11, <2>2 DEF IInv, TypeOK, CallInv, CallOf, submit_check
    <3> QED
      BY <1>11, <2>2, <3>1, ConcludeStep DEF submit_check
  <2> QED
    BY <2>1, <2>2
<1>12. CASE done_rewait(c)
  <2>1. /\ UNCHANGED <<proc, completed, started, abandoned, queue, wpc, wreq, request, runs>>
        /\ pc[c] # "idle" /\ pc'[c] # "idle"
        /\ \A d \in Clients \ {c} : pc'[d] = pc[d] /\ err'[d] = err[d]
        /\ \A s \in Slots \ {request[c]} : done'[s] = done[s]
    BY <1>12 DEF IInv, TypeOK, done_rewait, reqVars, fixqVars, wrkVars
  <2>2. CallOf(c) /\ request[c] \in Slots
    BY DEF IInv, TypeOK, CallInv
  <2>3. /\ Queued(request[c])' <=> Queued(request[c])
        /\ AtWorker(request[c])' <=> AtWorker(request[c])
    BY <2>1 DEF Queued, AtWorker
  <2>4. CallOf(c)'
    <3>1. /\ pc[c] \in Sent /\ pc'[c] = "finish" /\ err'[c] = "ok"
          /\ done[request[c]] > 0 /\ done'[request[c]] = done[request[c]] - 1
      BY <1>12, <2>2 DEF IInv, TypeOK, done_rewait
    <3>2. /\ completed[request[c]] => started[request[c]]
          /\ completed[request[c]] => runs[c] = 1
          /\ done[request[c]] =
                (IF completed[request[c]] /\ err[c] # "ok" THEN 1 ELSE 0)
      BY <2>2, <3>1 DEF CallOf
    <3>3. completed[request[c]] /\ done[request[c]] = 1
      BY <3>1, <3>2
    <3>4. done'[request[c]] = 0
      BY <3>1, <3>3
    <3> QED
      BY <2>1, <3>1, <3>2, <3>3, <3>4 DEF CallOf
  <2> QED
    BY <2>1, <2>4, InCallStep
<1>13. CASE submit_finish(c)
  <2>1. completed[request[c]]
    BY <1>13 DEF IInv, CallInv, CallOf, submit_finish
  <2> QED
    BY <1>13, <2>1, ConcludeStep DEF submit_finish
<1> QED
  BY <1>1, <1>2, <1>3, <1>4, <1>5, <1>6, <1>7, <1>8, <1>9, <1>10, <1>11,
     <1>12, <1>13 DEF ClientStep

(* The request the worker executes belongs to a client that waits for it. *)
LEMMA ExecutedCall ==
  ASSUME IInv, wpc \in {"run", "finish"}
  PROVE  /\ proc[wreq] \in Clients
         /\ pc[proc[wreq]] \in Sent \ {"finish"} /\ request[proc[wreq]] = wreq
         /\ AtWorker(wreq) /\ ~Queued(wreq) /\ started[wreq]
         /\ ~abandoned[wreq] /\ ~completed[wreq] /\ done[wreq] = 0
         /\ err[proc[wreq]] # "ok"
         /\ runs[proc[wreq]] = (IF wpc = "run" THEN 0 ELSE 1)
<1>1. /\ wreq \in Slots
      /\ AtWorker(wreq) /\ ~Queued(wreq) /\ started[wreq]
      /\ proc[wreq] # NoProc /\ ~abandoned[wreq] /\ ~completed[wreq]
  BY DEF IInv, TypeOK, PlaceInv, SlotInv, AtWorker
<1>2. /\ proc[wreq] \in Clients /\ pc[proc[wreq]] # "idle"
      /\ request[proc[wreq]] = wreq
  BY <1>1 DEF IInv, TypeOK, SlotInv
<1>3. pc[proc[wreq]] \in Sent \ {"finish"}
  BY <1>1, <1>2 DEF IInv, TypeOK, CallInv, CallOf, ClientPCs, Unsent, Sent
<1> QED
  BY <1>1, <1>2, <1>3 DEF IInv, CallInv, CallOf

(* A step of the worker that moves no slot and does not finish a callback     *)
(* leaves every call as far as it has come.                                  *)
LEMMA SameCalls ==
  ASSUME IInv, wpc # "finish", wpc' # "finish",
         UNCHANGED <<completed, started, done, pc, request, err, runs>>,
         \A s \in Slots : Queued(s)' <=> Queued(s),
         \A s \in Slots : AtWorker(s)' <=> AtWorker(s)
  PROVE  CallInv'
<1> SUFFICES ASSUME NEW c \in Clients PROVE CallOf(c)'
  BY DEF CallInv
<1>1. CallOf(c) /\ request[c] \in Slots
  BY DEF IInv, TypeOK, CallInv
<1>2. /\ Queued(request[c])' <=> Queued(request[c])
      /\ AtWorker(request[c])' <=> AtWorker(request[c])
  BY <1>1
<1> QED
  BY <1>1, <1>2 DEF CallOf

(* Every step of the worker keeps the places. *)
LEMMA WorkerPlaces ==
  ASSUME IInv, net_exec_run_once
  PROVE  Places'
<1> USE NoProcAssumption DEF Unsent, Sent
<1>1. CASE fixq_recv_nonempty
  <2>1. /\ UNCHANGED <<completed, started, abandoned, proc, done, queue, wreq,
                       pc, request, err>>
        /\ UNCHANGED runs
    BY <1>1 DEF fixq_recv_nonempty, reqVars, fixqVars, cliVars
  <2>2. /\ \A s \in Slots : Queued(s)' <=> Queued(s)
        /\ \A s \in Slots : AtWorker(s)' <=> AtWorker(s)
        /\ QueueDistinct'
    BY <1>1, <2>1 DEF IInv, Queued, AtWorker, QueueDistinct, fixq_recv_nonempty
  <2>3. OwnerInv'
    BY <2>1 DEF IInv, OwnerInv
  <2>4. SlotInv'
    BY <2>1, <2>2 DEF IInv, SlotInv
  <2>5. PlaceInv'
    BY <1>1, <2>1, <2>2 DEF IInv, PlaceInv, AtWorker, fixq_recv_nonempty
  <2>6. CallInv'
    BY <1>1, <2>1, <2>2, SameCalls DEF fixq_recv_nonempty
  <2> QED
    BY <2>2, <2>3, <2>4, <2>5, <2>6 DEF Places
<1>2. CASE fixq_recv_poll
  <2>1. /\ UNCHANGED <<completed, started, abandoned, proc, done, queue, wreq,
                       pc, request, err>>
        /\ UNCHANGED runs
    BY <1>2 DEF fixq_recv_poll, reqVars, cliVars
  <2>2. /\ \A s \in Slots : Queued(s)' <=> Queued(s)
        /\ \A s \in Slots : AtWorker(s)' <=> AtWorker(s)
        /\ QueueDistinct'
    BY <1>2, <2>1 DEF IInv, Queued, AtWorker, QueueDistinct, fixq_recv_poll
  <2>3. OwnerInv'
    BY <2>1 DEF IInv, OwnerInv
  <2>4. SlotInv'
    BY <2>1, <2>2 DEF IInv, SlotInv
  <2>5. PlaceInv'
    BY <1>2, <2>1, <2>2 DEF IInv, PlaceInv, AtWorker, fixq_recv_poll
  <2>6. CallInv'
    BY <1>2, <2>1, <2>2, SameCalls DEF fixq_recv_poll
  <2> QED
    BY <2>2, <2>3, <2>4, <2>5, <2>6 DEF Places
<1>3. CASE fixq_recv_notify
  <2>1. /\ UNCHANGED <<completed, started, abandoned, proc, done, queue, wreq,
                       pc, request, err>>
        /\ UNCHANGED runs
    BY <1>3 DEF fixq_recv_notify, reqVars, cliVars
  <2>2. /\ \A s \in Slots : Queued(s)' <=> Queued(s)
        /\ \A s \in Slots : AtWorker(s)' <=> AtWorker(s)
        /\ QueueDistinct'
    BY <1>3, <2>1 DEF IInv, Queued, AtWorker, QueueDistinct, fixq_recv_notify
  <2>3. OwnerInv'
    BY <2>1 DEF IInv, OwnerInv
  <2>4. SlotInv'
    BY <2>1, <2>2 DEF IInv, SlotInv
  <2>5. PlaceInv'
    BY <1>3, <2>1, <2>2 DEF IInv, PlaceInv, AtWorker, fixq_recv_notify
  <2>6. CallInv'
    BY <1>3, <2>1, <2>2, SameCalls DEF fixq_recv_notify
  <2> QED
    BY <2>2, <2>3, <2>4, <2>5, <2>6 DEF Places
<1>4. CASE run_once_proc
  <2>1. /\ UNCHANGED <<completed, started, abandoned, proc, done, queue, wreq,
                       pc, request, err>>
        /\ wpc = "run"
    BY <1>4 DEF run_once_proc, reqVars, fixqVars, cliVars
  <2>2. /\ \A s \in Slots : Queued(s)' <=> Queued(s)
        /\ \A s \in Slots : AtWorker(s)' <=> AtWorker(s)
        /\ QueueDistinct'
    BY <1>4, <2>1 DEF IInv, Queued, AtWorker, QueueDistinct, run_once_proc
  <2>3. OwnerInv'
    BY <2>1 DEF IInv, OwnerInv
  <2>4. SlotInv'
    BY <2>1, <2>2 DEF IInv, SlotInv
  <2>5. PlaceInv'
    BY <1>4, <2>1, <2>2 DEF IInv, PlaceInv, AtWorker, run_once_proc
  <2>6. /\ proc[wreq] \in Clients /\ wreq \in Slots
        /\ pc[proc[wreq]] \in Sent /\ request[proc[wreq]] = wreq
        /\ runs[proc[wreq]] = 0 /\ ~completed[wreq] /\ AtWorker(wreq)
    BY <2>1, ExecutedCall DEF IInv, TypeOK
  <2>7. /\ wpc' = "finish"
        /\ runs' = [c \in Clients |-> IF c = proc[wreq] THEN runs[c] + 1 ELSE runs[c]]
    BY <1>4 DEF run_once_proc
  <2>8. ASSUME NEW c \in Clients, pc[c] # "idle", c # proc[wreq]
        PROVE  request[c] # wreq
    BY <2>8 DEF IInv, OwnerInv
  <2>9. \A s \in Slots : AtWorker(s) <=> s = wreq
    BY <2>1 DEF AtWorker
  <2>10. CallInv'
    <3> SUFFICES ASSUME NEW d \in Clients PROVE CallOf(d)'
      BY DEF CallInv
    <3>1. CallOf(d) /\ request[d] \in Slots
      BY DEF IInv, TypeOK, CallInv
    <3>2. /\ Queued(request[d])' <=> Queued(request[d])
          /\ AtWorker(request[d])' <=> AtWorker(request[d])
      BY <2>1, <2>2, <3>1
    <3>3. CASE d = proc[wreq]
      <4>1. runs'[d] = 1 /\ request[d] = wreq /\ pc[d] \in Sent
        BY <2>6, <2>7, <3>3
      <4> QED
        BY <2>1, <2>6, <2>7, <3>1, <3>2, <4>1 DEF CallOf
    <3>4. CASE d # proc[wreq]
      <4>1. runs'[d] = runs[d]
        BY <2>7, <3>4
      <4>2. pc[d] # "idle" => ~AtWorker(request[d])
        BY <2>8, <2>9, <3>1, <3>4
      <4> QED
        BY <2>1, <2>7, <3>1, <3>2, <4>1, <4>2 DEF CallOf
    <3> QED
      BY <3>3, <3>4
  <2> QED
    BY <2>2, <2>3, <2>4, <2>5, <2>10 DEF Places
<1>5. CASE fixq_recv_take
  <2>1. UNCHANGED <<completed, started, abandoned, proc, done, pc, request, err, runs>>
    BY <1>5 DEF fixq_recv_take, reqVars, cliVars
  <2>2. CASE Len(queue) = 0
    <3>1. wpc = "take" /\ wpc' = "recv" /\ UNCHANGED <<queue, wreq>>
      BY <1>5, <2>2 DEF fixq_recv_take
    <3>2. /\ \A s \in Slots : Queued(s)' <=> Queued(s)
          /\ \A s \in Slots : AtWorker(s)' <=> AtWorker(s)
          /\ QueueDistinct'
      BY <3>1 DEF IInv, Queued, AtWorker, QueueDistinct
    <3>3. OwnerInv' /\ SlotInv'
      BY <2>1, <3>2 DEF IInv, OwnerInv, SlotInv
    <3>4. PlaceInv'
      BY <2>1, <3>1, <3>2 DEF IInv, PlaceInv, AtWorker
    <3>5. CallInv'
      BY <2>1, <3>1, <3>2 DEF IInv, TypeOK, CallInv, CallOf
    <3> QED
      BY <3>2, <3>3, <3>4, <3>5 DEF Places
  <2>3. CASE Len(queue) # 0
    <3>1. /\ wpc = "take" /\ wpc' = "notify"
          /\ wreq' = Head(queue) /\ queue' = Tail(queue)
      BY <1>5, <2>3 DEF fixq_recv_take
    <3>2. /\ wreq' \in Slots /\ Queued(wreq')
          /\ \A s \in Slots : Queued(s)' <=> Queued(s) /\ s # wreq'
          /\ QueueDistinct'
      BY <2>3, <3>1, TakeQueue DEF IInv, TypeOK
    <3>3. \A s \in Slots : ~AtWorker(s) /\ (AtWorker(s)' <=> s = wreq')
      BY <3>1 DEF AtWorker
    <3>4. OwnerInv'
      BY <2>1 DEF IInv, OwnerInv
    <3>5. SlotInv'
      BY <2>1, <3>2, <3>3 DEF IInv, SlotInv
    <3>6. PlaceInv'
      BY <2>1, <3>1, <3>2, <3>3 DEF IInv, PlaceInv
    <3>7. CallInv'
      BY <2>1, <3>1, <3>2, <3>3 DEF IInv, TypeOK, CallInv, CallOf
    <3> QED
      BY <3>2, <3>4, <3>5, <3>6, <3>7 DEF Places
  <2> QED
    BY <2>2, <2>3
<1>6. CASE run_once_start
  <2>1. /\ wpc = "start" /\ wreq \in Slots
        /\ UNCHANGED <<completed, abandoned, done, queue, wreq, pc, request, err, runs>>
    BY <1>6 DEF IInv, TypeOK, run_once_start, fixqVars, cliVars
  <2>2. AtWorker(wreq) /\ ~Queued(wreq) /\ ~started[wreq] /\ proc[wreq] # NoProc
    BY <2>1 DEF IInv, PlaceInv, SlotInv, AtWorker
  <2>3. (\A s \in Slots : Queued(s)' <=> Queued(s)) /\ QueueDistinct'
    BY <2>1 DEF IInv, Queued, QueueDistinct
  <2>4. CASE abandoned[wreq]
    <3>1. /\ proc' = [proc EXCEPT ![wreq] = NoProc]
          /\ wpc' = "recv" /\ UNCHANGED started
      BY <1>6, <2>4 DEF run_once_start
    <3>2. \A s \in Slots : ~AtWorker(s)' /\ (AtWorker(s) <=> s = wreq)
      BY <2>1, <3>1 DEF AtWorker
    <3>3. OwnerInv'
      BY <2>1, <2>4, <3>1 DEF IInv, TypeOK, OwnerInv
    <3>4. SlotInv'
      BY <2>1, <2>2, <2>3, <2>4, <3>1, <3>2 DEF IInv, TypeOK, SlotInv
    <3>5. PlaceInv'
      BY <2>1, <2>3, <3>1, <3>2 DEF IInv, PlaceInv
    <3>6. CallInv'
      <4> SUFFICES ASSUME NEW d \in Clients PROVE CallOf(d)'
        BY DEF CallInv
      <4>1. CallOf(d) /\ request[d] \in Slots
        BY DEF IInv, TypeOK, CallInv
      <4>2. CASE pc[d] = "idle"
        BY <2>1, <4>1, <4>2 DEF CallOf
      <4>3. CASE pc[d] # "idle"
        <5>1. request[d] # wreq
          BY <2>4, <4>3 DEF IInv, OwnerInv
        <5>2. /\ Queued(request[d])' <=> Queued(request[d])
              /\ ~AtWorker(request[d])' /\ ~AtWorker(request[d])
          BY <2>1, <2>3, <3>2, <4>1, <5>1
        <5> QED
          BY <2>1, <3>1, <4>1, <5>2 DEF CallOf
      <4> QED
        BY <4>2, <4>3
    <3> QED
      BY <2>3, <3>3, <3>4, <3>5, <3>6 DEF Places
  <2>5. CASE ~abandoned[wreq]
    <3>1. /\ started' = [started EXCEPT ![wreq] = TRUE]
          /\ wpc' = "run" /\ UNCHANGED proc
      BY <1>6, <2>5 DEF run_once_start
    <3>2. \A s \in Slots : (AtWorker(s)' <=> s = wreq) /\ (AtWorker(s) <=> s = wreq)
      BY <2>1, <3>1 DEF AtWorker
    <3>3. OwnerInv'
      BY <2>1, <3>1 DEF IInv, OwnerInv
    <3>4. SlotInv'
      BY <2>1, <2>3, <2>5, <3>1, <3>2 DEF IInv, TypeOK, SlotInv
    <3>5. PlaceInv'
      BY <2>1, <2>2, <2>3, <3>1, <3>2 DEF IInv, TypeOK, PlaceInv
    <3>6. CallInv'
      BY <2>1, <2>2, <2>3, <3>1, <3>2 DEF IInv, TypeOK, CallInv, CallOf
    <3> QED
      BY <2>3, <3>3, <3>4, <3>5, <3>6 DEF Places
  <2> QED
    BY <2>4, <2>5
<1>7. CASE run_once_finish
  <2>1. /\ wpc = "finish" /\ wreq \in Slots /\ wpc' = "recv"
        /\ UNCHANGED <<abandoned, started, queue, wreq, pc, request, err, runs>>
    BY <1>7 DEF IInv, TypeOK, run_once_finish, fixqVars, cliVars
  <2>2. /\ proc[wreq] \in Clients
        /\ pc[proc[wreq]] \in Sent /\ request[proc[wreq]] = wreq
        /\ AtWorker(wreq) /\ ~Queued(wreq) /\ started[wreq]
        /\ ~abandoned[wreq] /\ ~completed[wreq] /\ done[wreq] = 0
        /\ err[proc[wreq]] # "ok"
    BY <2>1, ExecutedCall
  <2>3. /\ completed' = [completed EXCEPT ![wreq] = TRUE]
        /\ done' = [done EXCEPT ![wreq] = @ + 1]
        /\ UNCHANGED proc
    BY <1>7, <2>2 DEF run_once_finish
  <2>4. (\A s \in Slots : Queued(s)' <=> Queued(s)) /\ QueueDistinct'
    BY <2>1 DEF IInv, Queued, QueueDistinct
  <2>5. \A s \in Slots : ~AtWorker(s)' /\ (AtWorker(s) <=> s = wreq)
    BY <2>1 DEF AtWorker
  <2>6. OwnerInv'
    BY <2>1, <2>3 DEF IInv, OwnerInv
  <2>7. SlotInv'
    BY <2>1, <2>2, <2>3, <2>4, <2>5 DEF IInv, TypeOK, SlotInv
  <2>8. PlaceInv'
    BY <2>1, <2>2, <2>3, <2>4, <2>5 DEF IInv, TypeOK, PlaceInv
  <2>9. CallInv'
    <3> SUFFICES ASSUME NEW d \in Clients PROVE CallOf(d)'
      BY DEF CallInv
    <3>1. CallOf(d) /\ request[d] \in Slots
      BY DEF IInv, TypeOK, CallInv
    <3>2. CASE pc[d] = "idle"
      BY <2>1, <3>1, <3>2 DEF CallOf
    <3>3. CASE d = proc[wreq]
      <4>1. /\ completed'[request[d]] /\ done'[request[d]] = 1
            /\ started'[request[d]] /\ runs'[d] = 1
        BY <2>1, <2>2, <2>3, <3>3, ExecutedCall DEF IInv, TypeOK
      <4> QED
        BY <2>1, <2>2, <3>1, <3>3, <4>1 DEF CallOf
    <3>4. CASE pc[d] # "idle" /\ d # proc[wreq]
      <4>1. request[d] # wreq
        BY <3>4 DEF IInv, OwnerInv
      <4>2. /\ completed'[request[d]] = completed[request[d]]
            /\ done'[request[d]] = done[request[d]]
            /\ Queued(request[d])' <=> Queued(request[d])
            /\ ~AtWorker(request[d])' /\ ~AtWorker(request[d])
        BY <2>1, <2>3, <2>4, <2>5, <3>1, <4>1 DEF IInv, TypeOK
      <4> QED
        BY <2>1, <3>1, <4>2 DEF CallOf
    <3> QED
      BY <3>2, <3>3, <3>4
  <2> QED
    BY <2>4, <2>6, <2>7, <2>8, <2>9 DEF Places
<1> QED
  BY <1>1, <1>2, <1>3, <1>4, <1>5, <1>6, <1>7 DEF net_exec_run_once

(* A call that starts takes a free slot, which is nowhere else. *)
LEMMA AllocPlaces ==
  ASSUME IInv, NEW c \in Clients, NEW t \in Timeouts, submit_alloc(c, t)
  PROVE  Places'
<1> USE NoProcAssumption DEF Unsent, Sent
<1>1. PICK s \in Slots : /\ proc[s] = NoProc
                         /\ proc' = [proc EXCEPT ![s] = c]
                         /\ completed' = [completed EXCEPT ![s] = FALSE]
                         /\ abandoned' = [abandoned EXCEPT ![s] = FALSE]
                         /\ started' = [started EXCEPT ![s] = FALSE]
                         /\ request' = [request EXCEPT ![c] = s]
  BY DEF submit_alloc, FirstFree
<1>2. /\ UNCHANGED <<done, queue, wpc, wreq>>
      /\ pc[c] = "idle"
      /\ pc' = [pc EXCEPT ![c] = IF t = "poll" THEN "full" ELSE "send"]
      /\ err' = [err EXCEPT ![c] = "none"]
      /\ runs' = [runs EXCEPT ![c] = 0]
  BY DEF submit_alloc, fixqVars, wrkVars
<1>3. /\ \A r \in Slots : Queued(r)' <=> Queued(r)
      /\ \A r \in Slots : AtWorker(r)' <=> AtWorker(r)
      /\ QueueDistinct'
  BY <1>2, SamePlaces DEF IInv
<1>4. OwnerInv'
  BY <1>1, <1>2 DEF IInv, TypeOK, OwnerInv
<1>5. SlotInv'
  <2> SUFFICES ASSUME NEW r \in Slots
               PROVE  /\ proc'[r] = NoProc => done[r] = 0 /\ ~Queued(r) /\ ~AtWorker(r)
                      /\ proc'[r] # NoProc /\ abandoned'[r] =>
                            done[r] = 0 /\ ~started'[r] /\ (Queued(r) \/ AtWorker(r))
                      /\ proc'[r] # NoProc /\ ~abandoned'[r] =>
                            pc'[proc'[r]] # "idle" /\ request'[proc'[r]] = r
    BY <1>2, <1>3 DEF SlotInv
  <2>1. CASE r = s
    <3>1. proc'[r] = c /\ ~abandoned'[r] /\ pc'[c] # "idle" /\ request'[c] = r
      BY <1>1, <1>2, <2>1 DEF IInv, TypeOK
    <3> QED
      BY <3>1
  <2>2. CASE r # s
    <3>1. proc'[r] = proc[r] /\ abandoned'[r] = abandoned[r] /\ started'[r] = started[r]
      BY <1>1, <2>2 DEF IInv, TypeOK
    <3>2. ASSUME proc[r] # NoProc, ~abandoned[r]
          PROVE  pc'[proc[r]] # "idle" /\ request'[proc[r]] = r
      <4>1. proc[r] \in Clients /\ pc[proc[r]] # "idle" /\ request[proc[r]] = r
        BY <3>2 DEF IInv, TypeOK, SlotInv
      <4> QED
        BY <1>1, <1>2, <4>1 DEF IInv, TypeOK
    <3> QED
      BY <3>1, <3>2 DEF IInv, SlotInv
  <2> QED
    BY <2>1, <2>2
<1>6. PlaceInv'
  <2> SUFFICES ASSUME NEW r \in Slots
               PROVE  /\ Queued(r) => ~AtWorker(r) /\ ~started'[r] /\ ~completed'[r]
                      /\ AtWorker(r) => /\ ~completed'[r]
                                        /\ started'[r] <=> wpc \in {"run", "finish"}
    BY <1>2, <1>3 DEF PlaceInv
  <2>1. CASE r = s
    BY <1>1, <2>1 DEF IInv, SlotInv
  <2>2. CASE r # s
    <3>1. completed'[r] = completed[r] /\ started'[r] = started[r]
      BY <1>1, <2>2 DEF IInv, TypeOK
    <3> QED
      BY <3>1 DEF IInv, PlaceInv
  <2> QED
    BY <2>1, <2>2
<1>7. CallInv'
  <2> SUFFICES ASSUME NEW d \in Clients PROVE CallOf(d)'
    BY DEF CallInv
  <2>1. CallOf(d) /\ request[d] \in Slots
    BY DEF IInv, TypeOK, CallInv
  <2>2. CASE d = c
    <3>1. /\ request'[d] = s /\ runs'[d] = 0 /\ err'[d] = "none"
          /\ pc'[d] \in {"full", "send"}
          /\ ~started'[s] /\ ~completed'[s]
      BY <1>1, <1>2, <2>2 DEF IInv, TypeOK
    <3>2. ~Queued(s)' /\ ~AtWorker(s)' /\ done'[s] = 0
      BY <1>1, <1>2, <1>3 DEF IInv, SlotInv
    <3> QED
      BY <3>1, <3>2 DEF CallOf
  <2>3. CASE d # c
    <3>1. /\ request'[d] = request[d] /\ runs'[d] = runs[d]
          /\ err'[d] = err[d] /\ pc'[d] = pc[d]
      BY <1>1, <1>2, <2>3 DEF IInv, TypeOK
    <3>2. CASE pc[d] = "idle"
      BY <2>1, <3>1, <3>2 DEF CallOf
    <3>3. CASE pc[d] # "idle"
      <4>1. request[d] # s
        BY <1>1, <3>3 DEF IInv, OwnerInv
      <4>2. /\ completed'[request[d]] = completed[request[d]]
            /\ started'[request[d]] = started[request[d]]
            /\ done'[request[d]] = done[request[d]] /\ wpc' = wpc
            /\ Queued(request[d])' <=> Queued(request[d])
            /\ AtWorker(request[d])' <=> AtWorker(request[d])
        BY <1>1, <1>2, <1>3, <2>1, <3>1, <4>1 DEF IInv, TypeOK
      <4> QED
        BY <2>1, <3>1, <4>2 DEF CallOf
    <3> QED
      BY <3>2, <3>3
  <2> QED
    BY <2>2, <2>3
<1> QED
  BY <1>3, <1>4, <1>5, <1>6, <1>7 DEF Places

(* A call that finds no free slot changes nothing but its result. *)
LEMMA RefusePlaces ==
  ASSUME IInv, NEW c \in Clients, submit_refuse(c)
  PROVE  Places'
<1> USE DEF Unsent, Sent
<1>1. /\ UNCHANGED <<proc, completed, abandoned, started, done, queue, wpc, wreq,
                     pc, request>>
      /\ pc[c] = "idle"
      /\ err' = [err EXCEPT ![c] = "full"]
      /\ runs' = [runs EXCEPT ![c] = 0]
  BY DEF submit_refuse, reqVars, fixqVars, wrkVars
<1>2. /\ \A s \in Slots : Queued(s)' <=> Queued(s)
      /\ \A s \in Slots : AtWorker(s)' <=> AtWorker(s)
      /\ QueueDistinct'
  BY <1>1, SamePlaces DEF IInv
<1>3. OwnerInv' /\ SlotInv'
  BY <1>1, <1>2 DEF IInv, OwnerInv, SlotInv
<1>4. PlaceInv'
  BY <1>1, <1>2 DEF IInv, PlaceInv, AtWorker
<1>5. CallInv'
  BY <1>1, <1>2 DEF IInv, TypeOK, CallInv, CallOf
<1> QED
  BY <1>2, <1>3, <1>4, <1>5 DEF Places

-----------------------------------------------------------------------------
(* IInv holds initially: every slot is free, the queue empty, no call made. *)
LEMMA InitIInv == Init => IInv
<1> SUFFICES ASSUME Init PROVE IInv
  OBVIOUS
<1> USE SizeAssumption, NoProcAssumption DEF Init
<1>1. TypeOK
  BY DEF TypeOK, Slots, ClientPCs, WorkerPCs, Errs, Timeouts
<1>2. \A s \in Slots : ~Queued(s) /\ ~AtWorker(s)
  BY DEF Queued, AtWorker
<1>3. QueueDistinct
  BY DEF QueueDistinct
<1>4. OwnerInv /\ SlotInv /\ PlaceInv
  BY <1>2 DEF OwnerInv, SlotInv, PlaceInv
<1>5. CallInv
  BY DEF CallInv, CallOf, Unsent, Sent
<1> QED
  BY <1>1, <1>3, <1>4, <1>5 DEF IInv

(* IInv is preserved by every step, and by stuttering. *)
LEMMA StepIInv == IInv /\ [Next]_vars => IInv'
<1> SUFFICES ASSUME IInv, [Next]_vars PROVE IInv'
  OBVIOUS
<1>1. TypeOK'
  BY TypeStep DEF IInv
<1>2. CASE Next
  <2>1. ASSUME NEW c \in Clients, NEW t \in Timeouts, submit_alloc(c, t)
        PROVE  Places'
    BY <2>1, AllocPlaces
  <2>2. ASSUME NEW c \in Clients, submit_refuse(c) PROVE Places'
    BY <2>2, RefusePlaces
  <2>3. ASSUME NEW c \in Clients, ClientStep(c) PROVE Places'
    BY <2>3, ClientPlaces
  <2>4. ASSUME net_exec_run_once PROVE Places'
    BY <2>4, WorkerPlaces
  <2>5. Places'
    BY <1>2, <2>1, <2>2, <2>3, <2>4 DEF Next
  <2> QED
    BY <1>1, <2>5 DEF IInv, Places
<1>3. CASE UNCHANGED vars
  <2>1. /\ UNCHANGED <<proc, completed, abandoned, started, done, queue, wpc, wreq,
                       pc, request, err, runs>>
    BY <1>3 DEF vars, reqVars, fixqVars, cliVars, wrkVars
  <2>2. /\ \A s \in Slots : Queued(s)' <=> Queued(s)
        /\ \A s \in Slots : AtWorker(s)' <=> AtWorker(s)
        /\ QueueDistinct'
    BY <2>1, SamePlaces DEF IInv
  <2>3. OwnerInv' /\ SlotInv'
    BY <2>1, <2>2 DEF IInv, OwnerInv, SlotInv
  <2>4. PlaceInv'
    BY <2>1, <2>2 DEF IInv, PlaceInv
  <2>5. CallInv'
    BY <2>1, <2>2 DEF IInv, TypeOK, CallInv, CallOf, Unsent, Sent
  <2> QED
    BY <1>1, <2>2, <2>3, <2>4, <2>5 DEF IInv
<1> QED
  BY <1>2, <1>3

(* IInv is an invariant of net_exec. *)
THEOREM Invariance == Spec => []IInv
BY InitIInv, StepIInv, PTL DEF Spec

(* Type correctness of net_exec, for any clients and sizes. *)
THEOREM TypeCorrect == Spec => []TypeOK
<1>1. IInv => TypeOK
  BY DEF IInv
<1> QED
  BY <1>1, Invariance, PTL

(* A callback never runs with the argument of a caller that has returned    *)
(* from net_exec_submit, for any number of clients, slots and timeouts.     *)
THEOREM ArgumentOutlivesCallback == Spec => []CallbackArgumentAlive
<1>1. IInv => CallbackArgumentAlive
  BY ExecutedCall DEF CallbackArgumentAlive, Owns, Sent
<1> QED
  BY <1>1, Invariance, PTL

(* net_exec_submit returns success exactly when its callback ran once. *)
THEOREM OkIffRanOnce == Spec => []OkMeansRanOnce
<1>1. IInv => OkMeansRanOnce
  BY DEF IInv, CallInv, CallOf, OkMeansRanOnce
<1> QED
  BY <1>1, Invariance, PTL

(* A request slot is reused only with an empty completion semaphore. *)
THEOREM ReusedSlotIsClean == Spec => []FreeSlotHasNoToken
<1>1. IInv => FreeSlotHasNoToken
  BY DEF IInv, SlotInv, FreeSlotHasNoToken
<1> QED
  BY <1>1, Invariance, PTL

(* A slot is in one place and in one call, and is not free while queued or  *)
(* in the hands of the worker.                                              *)
THEOREM SlotInOnePlace == Spec => []SlotHeldOnce
<1>1. ASSUME IInv PROVE SlotHeldOnce
  <2>1. \A i \in 1 .. Len(queue) : queue[i] \in Slots /\ Queued(queue[i])
    BY <1>1 DEF IInv, TypeOK, Queued
  <2>2. \A i \in 1 .. Len(queue) : proc[queue[i]] # NoProc
    BY <1>1, <2>1 DEF IInv, SlotInv
  <2>3. ASSUME wpc \in {"notify", "start", "run", "finish"}
        PROVE  /\ proc[wreq] # NoProc
               /\ \A i \in 1 .. Len(queue) : queue[i] # wreq
    <3>1. wreq \in Slots /\ AtWorker(wreq)
      BY <1>1, <2>3 DEF IInv, TypeOK, AtWorker
    <3> QED
      BY <1>1, <2>1, <3>1 DEF IInv, SlotInv, PlaceInv
  <2>4. \A c, d \in Clients :
           pc[c] # "idle" /\ pc[d] # "idle" /\ request[c] = request[d] => c = d
    BY <1>1 DEF IInv, OwnerInv
  <2> QED
    BY <1>1, <2>2, <2>3, <2>4 DEF IInv, QueueDistinct, SlotHeldOnce
<1> QED
  BY <1>1, Invariance, PTL
=============================================================================
