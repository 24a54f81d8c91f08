------------------------- MODULE NetExecSendProofs -------------------------
(***************************************************************************)
(* With at least as many places in the queue as requests in the table, a   *)
(* client that has a request never finds the queue full: SendNeverBlocks,  *)
(* for any clients and sizes.                                              *)
(*                                                                         *)
(* The argument is a count.  The tokens of send_sem and the requests that  *)
(* occupy a place add up to the size of the queue (Booked), and the        *)
(* request of a client about to send does not occupy one yet.              *)
(***************************************************************************)
EXTENDS NetExecProofs, FiniteSetTheorems

(* A request has a place from the moment its client has the token of        *)
(* send_sem until the worker gives the token back.                          *)
Placed(s) ==
  \/ Queued(s)
  \/ wpc = "notify" /\ wreq = s
  \/ \E c \in Clients : pc[c] = "put" /\ request[c] = s

Occupied == {s \in Slots : Placed(s)}

Booked == send_sem + Cardinality(Occupied) = size

NeverFull ==
  size >= NET_EXEC_QUEUE_SIZE => \A c \in Clients : pc[c] \notin {"sendSleep", "undo"}

SInv == IInv /\ Booked /\ NeverFull

-----------------------------------------------------------------------------
(* The table is finite, and so is every part of it. *)
LEMMA FiniteSlots ==
  /\ IsFiniteSet(Slots) /\ Cardinality(Slots) = NET_EXEC_QUEUE_SIZE
  /\ IsFiniteSet(Occupied) /\ Cardinality(Occupied) \in Nat
<1>1. IsFiniteSet(Slots) /\ Cardinality(Slots) = NET_EXEC_QUEUE_SIZE
  BY FS_Interval, SizeAssumption DEF Slots
<1>2. IsFiniteSet(Occupied)
  BY <1>1, FS_Subset DEF Occupied
<1> QED
  BY <1>1, <1>2, FS_CardinalityType

(* The request of a client that has yet to take a token has no place. *)
LEMMA UnsentHasNoPlace ==
  ASSUME IInv, NEW c \in Clients, pc[c] \in {"full", "send", "sendSleep", "undo"}
  PROVE  request[c] \in Slots /\ request[c] \notin Occupied
<1>1. request[c] \in Slots
  BY DEF IInv, TypeOK
<1>2. ~Queued(request[c]) /\ ~AtWorker(request[c])
  BY DEF IInv, CallInv, CallOf, Unsent
<1>3. ASSUME NEW d \in Clients, pc[d] = "put", request[d] = request[c]
      PROVE  FALSE
  BY <1>3 DEF IInv, OwnerInv
<1> QED
  BY <1>1, <1>2, <1>3 DEF Occupied, Placed, AtWorker

(* So there is room for it, in the semaphore and in the queue. *)
LEMMA Room ==
  ASSUME IInv, Booked, size >= NET_EXEC_QUEUE_SIZE,
         NEW c \in Clients, pc[c] \in {"full", "send", "sendSleep", "undo"}
  PROVE  send_sem > 0 /\ Len(queue) # size
<1> DEFINE Others == Slots \ {request[c]}
<1>1. request[c] \in Slots /\ request[c] \notin Occupied
  BY UnsentHasNoPlace
<1>2. IsFiniteSet(Others) /\ Cardinality(Others) = NET_EXEC_QUEUE_SIZE - 1
  BY <1>1, FiniteSlots, FS_RemoveElement
<1>3. Occupied \subseteq Others
  BY <1>1 DEF Occupied
<1>4. Cardinality(Occupied) <= NET_EXEC_QUEUE_SIZE - 1
  BY <1>2, <1>3, FS_Subset
<1>5. send_sem \in Nat /\ size \in Nat /\ queue \in Seq(Slots)
  BY SizeAssumption DEF IInv, TypeOK
<1>6. send_sem > 0
  BY <1>4, <1>5, FiniteSlots, SizeAssumption DEF Booked
<1>7. Len(queue) \in Nat /\ queue \in [1 .. Len(queue) -> Slots]
  BY <1>5
<1>8. queue \in [1 .. Len(queue) -> Others]
  BY <1>1, <1>7 DEF Occupied, Placed, Queued
<1>9. queue \in Injection(1 .. Len(queue), Others)
  BY <1>8 DEF IInv, QueueDistinct, Injection, IsInjective
<1>10. Cardinality(1 .. Len(queue)) <= Cardinality(Others)
  BY <1>2, <1>9, FS_Injection
<1>11. Cardinality(1 .. Len(queue)) = Len(queue)
  BY <1>7, FS_Interval
<1>12. Len(queue) <= NET_EXEC_QUEUE_SIZE - 1
  <2> HIDE DEF Others
  <2> QED
    BY <1>2, <1>7, <1>10, <1>11, SizeAssumption
<1>13. Len(queue) # size
  <2>1. Len(queue) \in Nat /\ size \in Nat
    BY <1>5, <1>7
  <2> HIDE DEF Others
  <2> QED
    BY <1>12, <2>1, SizeAssumption
<1> QED
  BY <1>6, <1>13

-----------------------------------------------------------------------------
(* Places change only where tokens do. *)
LEMMA SameOccupied ==
  ASSUME queue' = queue,
         (wpc' = "notify") <=> (wpc = "notify"), wpc = "notify" => wreq' = wreq,
         \A c \in Clients : /\ (pc'[c] = "put") <=> (pc[c] = "put")
                            /\ pc[c] = "put" => request'[c] = request[c]
  PROVE  Occupied' = Occupied
<1>1. ASSUME NEW s \in Slots PROVE Placed(s)' <=> Placed(s)
  <2>1. Queued(s)' <=> Queued(s)
    BY DEF Queued
  <2>2. (wpc = "notify" /\ wreq = s)' <=> (wpc = "notify" /\ wreq = s)
    OBVIOUS
  <2>3. (\E c \in Clients : pc'[c] = "put" /\ request'[c] = s)
           <=> (\E c \in Clients : pc[c] = "put" /\ request[c] = s)
    OBVIOUS
  <2> QED
    BY <2>1, <2>2, <2>3 DEF Placed
<1> QED
  BY <1>1 DEF Occupied, Slots

(* A token is taken with a place, given back with it, and otherwise neither *)
(* changes.                                                                  *)
LEMMA TakeToken ==
  ASSUME IInv, NEW c \in Clients, pc[c] \in {"send", "sendSleep"}, send_sem > 0,
         send_sem' = send_sem - 1, pc' = [pc EXCEPT ![c] = "put"],
         UNCHANGED <<queue, request, wpc, wreq, size>>, Booked
  PROVE  Booked'
<1>1. request[c] \in Slots /\ request[c] \notin Occupied
  BY UnsentHasNoPlace
<1>2. ASSUME NEW s \in Slots PROVE Placed(s)' <=> Placed(s) \/ s = request[c]
  <2>1. Queued(s)' <=> Queued(s)
    BY DEF Queued
  <2>2. pc \in [Clients -> ClientPCs]
    BY DEF IInv, TypeOK
  <2>3. (\E d \in Clients : pc'[d] = "put" /\ request'[d] = s)
           <=> (\E d \in Clients : pc[d] = "put" /\ request[d] = s) \/ s = request[c]
    BY <2>2
  <2> QED
    BY <2>1, <2>3 DEF Placed
<1>3. Occupied' = Occupied \cup {request[c]}
  BY <1>1, <1>2 DEF Occupied, Slots
<1>4. Cardinality(Occupied') = Cardinality(Occupied) + 1
  BY <1>1, <1>3, FiniteSlots, FS_AddElement
<1> QED
  BY <1>4, FiniteSlots, SizeAssumption DEF Booked, IInv, TypeOK

(* The worker gives the token of an emptied place back. *)
LEMMA GiveToken == ASSUME IInv, fixq_recv_notify, Booked PROVE Booked'
<1>1. wpc = "notify" /\ wreq \in Slots /\ wpc' = "start" /\ wreq' = wreq
      /\ send_sem' = send_sem + 1 /\ UNCHANGED <<queue, pc, request, size>>
  BY DEF IInv, TypeOK, fixq_recv_notify, cliVars
<1>2. wreq \in Occupied
  BY <1>1 DEF Occupied, Placed
<1>3. AtWorker(wreq)
  BY <1>1 DEF AtWorker
<1>4. ~Queued(wreq)
  BY <1>1, <1>3 DEF IInv, PlaceInv
<1>5. \A c \in Clients : pc[c] = "put" => request[c] # wreq
  BY <1>3 DEF IInv, CallInv, CallOf, Unsent
<1>6. ASSUME NEW s \in Slots PROVE Placed(s)' <=> Placed(s) /\ s # wreq
  <2>1. Queued(s)' <=> Queued(s)
    BY <1>1 DEF Queued
  <2>2. (\E d \in Clients : pc'[d] = "put" /\ request'[d] = s)
           <=> (\E d \in Clients : pc[d] = "put" /\ request[d] = s)
    BY <1>1
  <2> QED
    BY <1>1, <1>4, <1>5, <2>1, <2>2 DEF Placed
<1>7. Occupied' = Occupied \ {wreq}
  BY <1>6 DEF Occupied, Slots
<1>8. Cardinality(Occupied') = Cardinality(Occupied) - 1
  BY <1>2, <1>7, FiniteSlots, FS_RemoveElement
<1> QED
  BY <1>1, <1>8, FiniteSlots, SizeAssumption DEF Booked, IInv, TypeOK

(* A message on its way into the queue and out of it keeps its place. *)
LEMMA PutKeepsPlace ==
  ASSUME IInv, NEW c \in Clients, fixq_send_put(c) PROVE Occupied' = Occupied
<1>1. /\ queue \in Seq(Slots) /\ request[c] \in Slots /\ pc \in [Clients -> ClientPCs]
      /\ pc[c] = "put" /\ pc' = [pc EXCEPT ![c] = "post"]
      /\ queue' = Append(queue, request[c]) /\ UNCHANGED <<request, wpc, wreq>>
  BY DEF IInv, TypeOK, fixq_send_put, wrkVars
<1>2. ASSUME NEW s \in Slots PROVE Placed(s)' <=> Placed(s)
  <2>1. Queued(s)' <=> Queued(s) \/ s = request[c]
    BY <1>1, AppendQueue
  <2>2. (\E d \in Clients : pc[d] = "put" /\ request[d] = s)
           <=> (\E d \in Clients : pc'[d] = "put" /\ request'[d] = s) \/ s = request[c]
    <3>1. \A d \in Clients : pc'[d] = "put" <=> pc[d] = "put" /\ d # c
      BY <1>1
    <3>2. \A d \in Clients : pc[d] = "put" /\ d # c => request[d] # request[c]
      BY <1>1 DEF IInv, OwnerInv
    <3> QED
      BY <1>1, <3>1, <3>2
  <2> QED
    BY <1>1, <2>1, <2>2 DEF Placed
<1> QED
  BY <1>2 DEF Occupied, Slots

(* A message the worker takes out keeps its place until it is notified. *)
LEMMA TakeKeepsPlace == ASSUME IInv, fixq_recv_take PROVE Occupied' = Occupied
<1>1. /\ queue \in Seq(Slots) /\ wpc = "take" /\ QueueDistinct
      /\ UNCHANGED <<pc, request>>
  BY DEF IInv, TypeOK, fixq_recv_take, cliVars
<1>2. CASE Len(queue) = 0
  BY <1>1, <1>2, SameOccupied DEF fixq_recv_take
<1>3. CASE Len(queue) # 0
  <2>1. wpc' = "notify" /\ wreq' = Head(queue) /\ queue' = Tail(queue)
    BY <1>3 DEF fixq_recv_take
  <2>2. ASSUME NEW s \in Slots PROVE Placed(s)' <=> Placed(s)
    <3>1. /\ Queued(s)' <=> Queued(s) /\ s # Head(queue)
          /\ Queued(Head(queue))
      BY <1>1, <1>3, <2>1, TakeQueue
    <3>2. (\E d \in Clients : pc'[d] = "put" /\ request'[d] = s)
             <=> (\E d \in Clients : pc[d] = "put" /\ request[d] = s)
      BY <1>1
    <3> QED
      BY <1>1, <2>1, <3>1, <3>2 DEF Placed
  <2> QED
    BY <2>2 DEF Occupied, Slots
<1> QED
  BY <1>2, <1>3

-----------------------------------------------------------------------------
(* The books hold on where neither tokens nor places change. *)
LEMMA SameBooks ==
  ASSUME Booked, UNCHANGED <<send_sem, size>>, Occupied' = Occupied PROVE Booked'
BY DEF Booked

(* A client finds a token at its first look, and never has to undo. *)
LEMMA ClientSends ==
  ASSUME SInv, NEW c \in Clients, ClientStep(c)
  PROVE  Booked' /\ NeverFull'
<1>1. /\ IInv /\ Booked /\ NeverFull /\ pc \in [Clients -> ClientPCs]
      /\ size' = size /\ send_sem \in Nat
  BY DEF SInv, IInv, TypeOK, ClientStep, fixq_send_full, fixq_send_look, fixq_send_wake,
         fixq_send_timeout, submit_undo, fixq_send_put, fixq_send_post, done_look, done_wake,
         done_timeout, submit_check, done_rewait, submit_finish, fixqVars
<1>2. ASSUME send_sem' = send_sem, UNCHANGED <<queue, request, wpc, wreq>>, pc[c] # "put",
             pc' = [pc EXCEPT ![c] = pc'[c]], pc'[c] # "put"
      PROVE  Booked'
  <2>1. \A d \in Clients : (pc'[d] = "put") <=> (pc[d] = "put")
    BY <1>1, <1>2
  <2> QED
    BY <1>1, <1>2, <2>1, SameOccupied, SameBooks
<1>3. ASSUME pc' = [pc EXCEPT ![c] = pc'[c]],
             size >= NET_EXEC_QUEUE_SIZE => pc'[c] \notin {"sendSleep", "undo"}
      PROVE  NeverFull'
  BY <1>1, <1>3 DEF NeverFull
<1>4. CASE fixq_send_full(c)
  <2>1. size >= NET_EXEC_QUEUE_SIZE => Len(queue) # size
    BY <1>1, <1>4, Room DEF fixq_send_full
  <2>2. /\ send_sem' = send_sem /\ UNCHANGED <<queue, request, wpc, wreq>> /\ pc[c] = "full"
        /\ pc' = [pc EXCEPT ![c] = pc'[c]] /\ pc'[c] \in {"undo", "send"}
        /\ Len(queue) # size => pc'[c] = "send"
    BY <1>1, <1>4 DEF fixq_send_full, fixqVars, wrkVars
  <2> QED
    BY <1>2, <1>3, <2>1, <2>2
<1>5. CASE fixq_send_look(c)
  <2>1. CASE send_sem > 0
    <3>1. /\ send_sem' = send_sem - 1 /\ pc' = [pc EXCEPT ![c] = "put"] /\ pc[c] = "send"
          /\ UNCHANGED <<queue, request, wpc, wreq, size>>
      BY <1>5, <2>1 DEF fixq_send_look, wrkVars
    <3>2. Booked'
      BY <1>1, <2>1, <3>1, TakeToken
    <3> QED
      BY <1>1, <1>3, <3>1, <3>2
  <2>2. CASE ~(send_sem > 0)
    <3>1. ~(size >= NET_EXEC_QUEUE_SIZE)
      BY <1>1, <1>5, <2>2, Room DEF fixq_send_look
    <3>2. /\ send_sem' = send_sem /\ UNCHANGED <<queue, request, wpc, wreq>> /\ pc[c] = "send"
          /\ pc' = [pc EXCEPT ![c] = pc'[c]] /\ pc'[c] \in {"undo", "sendSleep"}
      BY <1>1, <1>5, <2>2 DEF fixq_send_look, wrkVars
    <3> QED
      BY <1>2, <1>3, <3>1, <3>2
  <2> QED
    BY <2>1, <2>2
<1>6. CASE fixq_send_wake(c)
  <2>1. /\ send_sem > 0 /\ send_sem' = send_sem - 1 /\ pc' = [pc EXCEPT ![c] = "put"]
        /\ pc[c] = "sendSleep" /\ UNCHANGED <<queue, request, wpc, wreq, size>>
    BY <1>6 DEF fixq_send_wake, wrkVars
  <2>2. Booked'
    BY <1>1, <2>1, TakeToken
  <2> QED
    BY <1>1, <1>3, <2>1, <2>2
<1>7. CASE fixq_send_timeout(c)
  <2>1. /\ send_sem' = send_sem /\ UNCHANGED <<queue, request, wpc, wreq>> /\ pc[c] = "sendSleep"
        /\ pc' = [pc EXCEPT ![c] = "undo"] /\ pc'[c] = "undo"
    BY <1>1, <1>7 DEF fixq_send_timeout, fixqVars, wrkVars
  <2>2. ~(size >= NET_EXEC_QUEUE_SIZE)
    BY <1>1, <2>1 DEF NeverFull
  <2> QED
    BY <1>2, <1>3, <2>1, <2>2
<1>8. CASE fixq_send_put(c)
  <2>1. /\ send_sem' = send_sem /\ pc' = [pc EXCEPT ![c] = "post"] /\ pc'[c] = "post"
    BY <1>1, <1>8 DEF fixq_send_put
  <2> QED
    BY <1>1, <1>3, <1>8, <2>1, PutKeepsPlace, SameBooks
<1>9. CASE submit_undo(c) \/ fixq_send_post(c) \/ done_look(c) \/ done_wake(c) \/ done_timeout(c)
           \/ submit_check(c) \/ done_rewait(c) \/ submit_finish(c)
  <2>1. /\ send_sem' = send_sem /\ UNCHANGED <<queue, request, wpc, wreq>> /\ pc[c] # "put"
        /\ pc' = [pc EXCEPT ![c] = pc'[c]]
        /\ pc'[c] \in {"idle", "wait", "check", "waitSleep", "rewait", "finish"}
    BY <1>1, <1>9 DEF submit_undo, fixq_send_post, done_look, done_wake, done_timeout, submit_check,
         done_rewait, submit_finish, Conclude, fixqVars, wrkVars
  <2> QED
    BY <1>2, <1>3, <2>1
<1> QED
  BY <1>4, <1>5, <1>6, <1>7, <1>8, <1>9 DEF ClientStep

(* The worker gives back the places it empties. *)
LEMMA WorkerReceives ==
  ASSUME SInv, net_exec_run_once
  PROVE  Booked' /\ NeverFull'
<1>1. IInv /\ Booked /\ NeverFull
  BY DEF SInv
<1>2. UNCHANGED <<size, pc, request>>
  BY DEF net_exec_run_once, fixq_recv_nonempty, fixq_recv_poll, fixq_recv_take, fixq_recv_notify,
         run_once_start, run_once_proc, run_once_finish, fixqVars, cliVars
<1>3. NeverFull'
  BY <1>1, <1>2 DEF NeverFull
<1>4. CASE fixq_recv_take
  <2>1. send_sem' = send_sem
    BY <1>4 DEF fixq_recv_take
  <2> QED
    BY <1>1, <1>2, <1>3, <1>4, <2>1, TakeKeepsPlace, SameBooks
<1>5. CASE fixq_recv_notify
  BY <1>1, <1>3, <1>5, GiveToken
<1>6. CASE fixq_recv_nonempty \/ fixq_recv_poll \/ run_once_start \/ run_once_proc \/ run_once_finish
  <2>1. UNCHANGED <<send_sem, queue>> /\ wpc # "notify" /\ wpc' # "notify"
    BY <1>6 DEF fixq_recv_nonempty, fixq_recv_poll, run_once_start, run_once_proc, run_once_finish,
         fixqVars
  <2> QED
    BY <1>1, <1>2, <1>3, <2>1, SameOccupied, SameBooks
<1> QED
  BY <1>4, <1>5, <1>6 DEF net_exec_run_once

(* A call that begins, or is refused, has no place yet. *)
LEMMA CallBegins ==
  ASSUME SInv, NEW c \in Clients, (\E t \in Timeouts : submit_alloc(c, t)) \/ submit_refuse(c)
  PROVE  Booked' /\ NeverFull'
<1>1. /\ IInv /\ Booked /\ NeverFull /\ pc \in [Clients -> ClientPCs]
      /\ request \in [Clients -> Slots]
  BY DEF SInv, IInv, TypeOK
<1>2. /\ UNCHANGED <<send_sem, size, queue, wpc, wreq>> /\ pc[c] = "idle"
      /\ pc' = [pc EXCEPT ![c] = pc'[c]] /\ pc'[c] \in {"idle", "full", "send"}
      /\ \A d \in Clients : d # c => request'[d] = request[d]
  BY <1>1 DEF submit_alloc, submit_refuse, fixqVars, wrkVars
<1>3. \A d \in Clients : /\ (pc'[d] = "put") <=> (pc[d] = "put")
                         /\ pc[d] = "put" => request'[d] = request[d]
  BY <1>1, <1>2
<1>4. Booked'
  BY <1>1, <1>2, <1>3, SameOccupied, SameBooks
<1>5. NeverFull'
  BY <1>1, <1>2 DEF NeverFull
<1> QED
  BY <1>4, <1>5

-----------------------------------------------------------------------------
(* At first every place is free and every token is there. *)
LEMMA InitSInv == Init => SInv
<1> SUFFICES ASSUME Init PROVE SInv
  OBVIOUS
<1>1. Occupied = {}
  BY DEF Init, Occupied, Placed, Queued
<1>2. Cardinality(Occupied) = 0
  BY <1>1, FS_EmptySet
<1>3. Booked
  BY <1>2, SizeAssumption DEF Init, Booked
<1>4. NeverFull
  BY DEF Init, NeverFull
<1> QED
  BY <1>3, <1>4, InitIInv DEF SInv

(* SInv is preserved by every step. *)
LEMMA StepSInv == SInv /\ [Next]_vars => SInv'
<1> SUFFICES ASSUME SInv, [Next]_vars PROVE SInv'
  OBVIOUS
<1>1. IInv'
  BY StepIInv DEF SInv
<1>2. CASE UNCHANGED vars
  <2>1. UNCHANGED <<send_sem, size, queue, wpc, wreq, pc, request>>
    BY <1>2 DEF vars, fixqVars, cliVars, wrkVars
  <2>2. Booked'
    BY <2>1, SameOccupied, SameBooks DEF SInv
  <2>3. NeverFull'
    BY <2>1 DEF SInv, NeverFull
  <2> QED
    BY <1>1, <2>2, <2>3 DEF SInv
<1>3. CASE Next
  <2>1. Booked' /\ NeverFull'
    BY <1>3, ClientSends, WorkerReceives, CallBegins DEF Next
  <2> QED
    BY <1>1, <2>1 DEF SInv
<1> QED
  BY <1>2, <1>3

(* With a queue as long as the request table (the sizes of net_exec.c),     *)
(* fixq_send neither blocks nor fails, for any number of clients.           *)
THEOREM QueueNeverFull == Spec => []SendNeverBlocks
<1>1. SInv => SendNeverBlocks
  BY Room DEF SInv, NeverFull, SendNeverBlocks
<1>2. Spec => []SInv
  BY InitSInv, StepSInv, PTL DEF Spec
<1> QED
  BY <1>1, <1>2, PTL
=============================================================================
