------------------------------ MODULE NetExec ------------------------------
(***************************************************************************)
(* kernel/src/net/net_exec.c: the request queue through which every        *)
(* thread hands work to the network worker, with the fixed queue it is     *)
(* built on (fixq.c) and the semaphores of net_sys.c.                      *)
(*                                                                         *)
(* A critical section of request_locker or of the queue's locker is one    *)
(* step; so is one operation on a semaphore.  A semaphore is its count: a  *)
(* waiter whose first look finds the count at zero sleeps, and from then   *)
(* on may take a token or, when the wait is timed, time out, whichever     *)
(* comes first (Sched shows that sem_timedwait implements CountingSem).    *)
(***************************************************************************)
EXTENDS Naturals, Sequences

CONSTANTS Clients,               \* threads that call net_exec_submit
          NET_EXEC_QUEUE_SIZE,   \* length of requests[]
          QueueSizes,            \* lengths request_slots[] may be given
          NoProc                 \* the null callback: a free slot

ASSUME SizeAssumption ==
          /\ NET_EXEC_QUEUE_SIZE \in Nat \ {0}
          /\ QueueSizes \subseteq Nat \ {0}

ASSUME NoProcAssumption == NoProc \notin Clients

Slots == 0 .. (NET_EXEC_QUEUE_SIZE - 1)

(* timeout_ms < 0, = 0 and > 0 *)
Timeouts == {"poll", "forever", "timed"}

VARIABLES
  (* requests[]: proc stands for the pair (proc, arg) and is the client      *)
  (* whose callback and stack-allocated argument they are.                   *)
  proc, completed, abandoned, started,
  done,               \* count of each request's semaphore
  size,               \* length of the fixq buffer, set by fixq_init
  queue,              \* the messages in request_queue, oldest first
  send_sem, recv_sem, \* the two semaphore counts of request_queue
  pc, request, err, timeout,   \* net_exec_submit: its locals, per client
  wpc, wreq,          \* net_exec_run_once on the worker
  runs                \* how often the client's current call was executed

reqVars  == <<proc, completed, abandoned, started>>
fixqVars == <<size, queue, send_sem, recv_sem>>
cliVars  == <<pc, request, err, timeout>>
wrkVars  == <<wpc, wreq>>
vars     == <<reqVars, done, fixqVars, cliVars, wrkVars, runs>>

(* The points of net_exec_submit between two steps. *)
ClientPCs == {"idle", "full", "send", "sendSleep", "undo", "put", "post",
              "wait", "waitSleep", "check", "rewait", "finish"}
(* The points of net_exec_run_once and of the fixq_recv inside it. *)
WorkerPCs == {"recv", "sem", "take", "notify", "start", "run", "finish"}

Errs == {"none", "ok", "tmo", "full"}

(* Type correctness of the request table, the queue and both threads. *)
TypeOK ==
  /\ proc \in [Slots -> Clients \cup {NoProc}]
  /\ completed \in [Slots -> BOOLEAN]
  /\ abandoned \in [Slots -> BOOLEAN]
  /\ started \in [Slots -> BOOLEAN]
  /\ done \in [Slots -> Nat]
  /\ size \in QueueSizes
  /\ queue \in Seq(Slots)
  /\ send_sem \in Nat
  /\ recv_sem \in Nat
  /\ pc \in [Clients -> ClientPCs]
  /\ request \in [Clients -> Slots]
  /\ err \in [Clients -> Errs]
  /\ timeout \in [Clients -> Timeouts]
  /\ wpc \in WorkerPCs
  /\ wreq \in Slots
  /\ runs \in [Clients -> Nat]

(* net_exec_init *)
Init ==
  /\ proc = [s \in Slots |-> NoProc]
  /\ completed = [s \in Slots |-> FALSE]
  /\ abandoned = [s \in Slots |-> FALSE]
  /\ started = [s \in Slots |-> FALSE]
  /\ done = [s \in Slots |-> 0]
  /\ size \in QueueSizes
  /\ queue = <<>>
  /\ send_sem = size
  /\ recv_sem = 0
  /\ pc = [c \in Clients |-> "idle"]
  /\ request = [c \in Clients |-> 0]
  /\ err = [c \in Clients |-> "none"]
  /\ timeout = [c \in Clients |-> "forever"]
  /\ wpc = "recv"
  /\ wreq = 0
  /\ runs = [c \in Clients |-> 0]

-----------------------------------------------------------------------------
(* net_exec_submit *)

FirstFree(s) == /\ proc[s] = NoProc
                /\ \A r \in Slots : r < s => proc[r] # NoProc

(* The search for a free slot, under request_locker. *)
submit_alloc(c, t) ==
  /\ pc[c] = "idle"
  /\ \E s \in Slots :
        /\ FirstFree(s)
        /\ proc' = [proc EXCEPT ![s] = c]
        /\ completed' = [completed EXCEPT ![s] = FALSE]
        /\ abandoned' = [abandoned EXCEPT ![s] = FALSE]
        /\ started' = [started EXCEPT ![s] = FALSE]
        /\ request' = [request EXCEPT ![c] = s]
  /\ timeout' = [timeout EXCEPT ![c] = t]
  /\ pc' = [pc EXCEPT ![c] = IF t = "poll" THEN "full" ELSE "send"]
  /\ err' = [err EXCEPT ![c] = "none"]
  /\ runs' = [runs EXCEPT ![c] = 0]
  /\ UNCHANGED <<done, fixqVars, wrkVars>>

(* No slot is free: NET_ERR_FULL. *)
submit_refuse(c) ==
  /\ pc[c] = "idle"
  /\ \A s \in Slots : proc[s] # NoProc
  /\ err' = [err EXCEPT ![c] = "full"]
  /\ runs' = [runs EXCEPT ![c] = 0]
  /\ UNCHANGED <<reqVars, done, fixqVars, pc, request, timeout, wrkVars>>

(* fixq_send with timeout < 0 looks at the count first. *)
fixq_send_full(c) ==
  /\ pc[c] = "full"
  /\ IF Len(queue) = size
       THEN /\ pc' = [pc EXCEPT ![c] = "undo"]
            /\ err' = [err EXCEPT ![c] = "full"]
       ELSE /\ pc' = [pc EXCEPT ![c] = "send"]
            /\ UNCHANGED err
  /\ UNCHANGED <<reqVars, done, fixqVars, request, timeout, wrkVars, runs>>

(* sys_sem_wait(send_sem): the first look at the count. *)
fixq_send_look(c) ==
  /\ pc[c] = "send"
  /\ IF send_sem > 0
       THEN /\ send_sem' = send_sem - 1
            /\ pc' = [pc EXCEPT ![c] = "put"]
            /\ UNCHANGED err
       ELSE /\ pc' = [pc EXCEPT ![c] =
                        IF timeout[c] = "poll" THEN "undo" ELSE "sendSleep"]
            /\ err' = [err EXCEPT ![c] =
                        IF timeout[c] = "poll" THEN "full" ELSE @]
            /\ UNCHANGED send_sem
  /\ UNCHANGED <<reqVars, done, size, queue, recv_sem, request, timeout, wrkVars, runs>>

(* sys_sem_wait(send_sem) after sleeping: a token, ... *)
fixq_send_wake(c) ==
  /\ pc[c] = "sendSleep"
  /\ send_sem > 0
  /\ send_sem' = send_sem - 1
  /\ pc' = [pc EXCEPT ![c] = "put"]
  /\ UNCHANGED <<reqVars, done, size, queue, recv_sem, request, err, timeout,
                 wrkVars, runs>>

(* ... or the deadline. *)
fixq_send_timeout(c) ==
  /\ pc[c] = "sendSleep"
  /\ timeout[c] = "timed"
  /\ pc' = [pc EXCEPT ![c] = "undo"]
  /\ err' = [err EXCEPT ![c] = "tmo"]
  /\ UNCHANGED <<reqVars, done, fixqVars, request, timeout, wrkVars, runs>>

(* The request was not queued: give the slot back. *)
submit_undo(c) ==
  /\ pc[c] = "undo"
  /\ proc' = [proc EXCEPT ![request[c]] = NoProc]
  /\ pc' = [pc EXCEPT ![c] = "idle"]
  /\ UNCHANGED <<completed, abandoned, started, done, fixqVars,
                 request, err, timeout, wrkVars, runs>>

(* fixq_send stores the message under the queue's locker. *)
fixq_send_put(c) ==
  /\ pc[c] = "put"
  /\ queue' = Append(queue, request[c])
  /\ pc' = [pc EXCEPT ![c] = "post"]
  /\ UNCHANGED <<reqVars, done, size, send_sem, recv_sem, request, err, timeout,
                 wrkVars, runs>>

fixq_send_post(c) ==
  /\ pc[c] = "post"
  /\ recv_sem' = recv_sem + 1
  /\ pc' = [pc EXCEPT ![c] = "wait"]
  /\ UNCHANGED <<reqVars, done, size, queue, send_sem, request, err, timeout,
                 wrkVars, runs>>

(* sys_sem_wait(request->done, timeout_ms): the first look. *)
done_look(c) ==
  /\ pc[c] = "wait"
  /\ IF done[request[c]] > 0
       THEN /\ done' = [done EXCEPT ![request[c]] = @ - 1]
            /\ err' = [err EXCEPT ![c] = "ok"]
            /\ pc' = [pc EXCEPT ![c] = "check"]
       ELSE /\ err' = [err EXCEPT ![c] =
                         IF timeout[c] = "poll" THEN "tmo" ELSE @]
            /\ pc' = [pc EXCEPT ![c] =
                        IF timeout[c] = "poll" THEN "check" ELSE "waitSleep"]
            /\ UNCHANGED done
  /\ UNCHANGED <<reqVars, fixqVars, request, timeout, wrkVars, runs>>

done_wake(c) ==
  /\ pc[c] = "waitSleep"
  /\ done[request[c]] > 0
  /\ done' = [done EXCEPT ![request[c]] = @ - 1]
  /\ err' = [err EXCEPT ![c] = "ok"]
  /\ pc' = [pc EXCEPT ![c] = "check"]
  /\ UNCHANGED <<reqVars, fixqVars, request, timeout, wrkVars, runs>>

done_timeout(c) ==
  /\ pc[c] = "waitSleep"
  /\ timeout[c] = "timed"
  /\ err' = [err EXCEPT ![c] = "tmo"]
  /\ pc' = [pc EXCEPT ![c] = "check"]
  /\ UNCHANGED <<reqVars, done, fixqVars, request, timeout, wrkVars, runs>>

(* Mutant: a request completed after a timeout is reported as timed out. *)
Conclude_late(c) ==
  LET s == request[c] IN
  /\ IF completed[s]
       THEN /\ done' = [done EXCEPT ![s] =
                          IF err[c] # "ok" /\ @ > 0 THEN @ - 1 ELSE @]
            /\ proc' = [proc EXCEPT ![s] = NoProc]
            /\ UNCHANGED <<abandoned, err>>
       ELSE /\ abandoned' = [abandoned EXCEPT ![s] = TRUE]
            /\ UNCHANGED <<done, proc, err>>
  /\ pc' = [pc EXCEPT ![c] = "idle"]

(* Mutant: a request that is not completed is freed, not abandoned. *)
Conclude_frees(c) ==
  LET s == request[c] IN
  /\ done' = [done EXCEPT ![s] = IF completed[s] /\ err[c] # "ok" /\ @ > 0 THEN @ - 1 ELSE @]
  /\ proc' = [proc EXCEPT ![s] = NoProc]
  /\ err' = [err EXCEPT ![c] = IF completed[s] THEN "ok" ELSE @]
  /\ pc' = [pc EXCEPT ![c] = "idle"]
  /\ UNCHANGED abandoned

(* The end of net_exec_submit, under request_locker: a completed request    *)
(* is freed, its token drained when the wait had timed out; any other is    *)
(* left to the worker as abandoned.                                         *)
Conclude(c) ==
  LET s == request[c] IN
  /\ IF completed[s]
       THEN /\ done' = [done EXCEPT ![s] =
                          IF err[c] # "ok" /\ @ > 0 THEN @ - 1 ELSE @]
            /\ proc' = [proc EXCEPT ![s] = NoProc]
            /\ err' = [err EXCEPT ![c] = "ok"]
            /\ UNCHANGED abandoned
       ELSE /\ abandoned' = [abandoned EXCEPT ![s] = TRUE]
            /\ UNCHANGED <<done, proc, err>>
  /\ pc' = [pc EXCEPT ![c] = "idle"]

(* Mutant: a timeout does not look at request->started. *)
submit_check_leaves(c) ==
  /\ pc[c] = "check"
  /\ Conclude(c)
  /\ UNCHANGED <<completed, started, fixqVars, request, timeout, wrkVars, runs>>

(* Back from the wait: a request the worker is executing cannot be left. *)
submit_check(c) ==
  /\ pc[c] = "check"
  /\ IF err[c] # "ok" /\ started[request[c]] /\ ~completed[request[c]]
       THEN /\ pc' = [pc EXCEPT ![c] = "rewait"]
            /\ UNCHANGED <<proc, abandoned, done, err>>
       ELSE Conclude(c)
  /\ UNCHANGED <<completed, started, fixqVars, request, timeout, wrkVars, runs>>

(* sys_sem_wait(request->done, 0) *)
done_rewait(c) ==
  /\ pc[c] = "rewait"
  /\ done[request[c]] > 0
  /\ done' = [done EXCEPT ![request[c]] = @ - 1]
  /\ err' = [err EXCEPT ![c] = "ok"]
  /\ pc' = [pc EXCEPT ![c] = "finish"]
  /\ UNCHANGED <<reqVars, fixqVars, request, timeout, wrkVars, runs>>

submit_finish(c) ==
  /\ pc[c] = "finish"
  /\ Conclude(c)
  /\ UNCHANGED <<completed, started, fixqVars, request, timeout, wrkVars, runs>>

-----------------------------------------------------------------------------
(* net_exec_run_once, on the one worker thread.  An empty queue, or a       *)
(* message whose sender has not posted recv_sem yet, returns NET_ERR_NONE:  *)
(* the worker goes through the rest of its loop and calls again.            *)

fixq_recv_nonempty ==
  /\ wpc = "recv"
  /\ Len(queue) > 0
  /\ wpc' = "sem"
  /\ UNCHANGED <<reqVars, done, fixqVars, cliVars, wreq, runs>>

fixq_recv_poll ==
  /\ wpc = "sem"
  /\ IF recv_sem > 0
       THEN recv_sem' = recv_sem - 1 /\ wpc' = "take"
       ELSE wpc' = "recv" /\ UNCHANGED recv_sem
  /\ UNCHANGED <<reqVars, done, size, queue, send_sem, cliVars, wreq, runs>>

fixq_recv_take ==
  /\ wpc = "take"
  /\ IF Len(queue) = 0
       THEN wpc' = "recv" /\ UNCHANGED <<wreq, queue>>
       ELSE wpc' = "notify" /\ wreq' = Head(queue) /\ queue' = Tail(queue)
  /\ UNCHANGED <<reqVars, done, size, send_sem, recv_sem, cliVars, runs>>

(* Mutant: the place of a message is not given back. *)
fixq_recv_keeps_place ==
  /\ wpc = "notify"
  /\ wpc' = "start"
  /\ UNCHANGED <<reqVars, done, fixqVars, cliVars, wreq, runs>>

fixq_recv_notify ==
  /\ wpc = "notify"
  /\ send_sem' = send_sem + 1
  /\ wpc' = "start"
  /\ UNCHANGED <<reqVars, done, size, queue, recv_sem, cliVars, wreq, runs>>

(* Under request_locker: drop an abandoned request or mark it started. *)
run_once_start ==
  /\ wpc = "start"
  /\ IF abandoned[wreq]
       THEN /\ proc' = [proc EXCEPT ![wreq] = NoProc]
            /\ wpc' = "recv"
            /\ UNCHANGED started
       ELSE /\ started' = [started EXCEPT ![wreq] = TRUE]
            /\ wpc' = "run"
            /\ UNCHANGED proc
  /\ UNCHANGED <<completed, abandoned, done, fixqVars, cliVars, wreq, runs>>

(* request->proc(request->arg): the callback is active while wpc = "run". *)
run_once_proc ==
  /\ wpc = "run"
  /\ runs' = [c \in Clients |-> IF c = proc[wreq] THEN runs[c] + 1 ELSE runs[c]]
  /\ wpc' = "finish"
  /\ UNCHANGED <<reqVars, done, fixqVars, cliVars, wreq>>

(* Mutant: the caller is not notified. *)
run_once_finish_silent ==
  /\ wpc = "finish"
  /\ completed' = [completed EXCEPT ![wreq] = TRUE]
  /\ wpc' = "recv"
  /\ UNCHANGED <<proc, abandoned, started, done, fixqVars, cliVars, wreq, runs>>

run_once_finish ==
  /\ wpc = "finish"
  /\ IF abandoned[wreq]
       THEN /\ proc' = [proc EXCEPT ![wreq] = NoProc]
            /\ UNCHANGED <<completed, done>>
       ELSE /\ completed' = [completed EXCEPT ![wreq] = TRUE]
            /\ done' = [done EXCEPT ![wreq] = @ + 1]
            /\ UNCHANGED proc
  /\ wpc' = "recv"
  /\ UNCHANGED <<abandoned, started, fixqVars, cliVars, wreq, runs>>

-----------------------------------------------------------------------------
(* Every step a client takes inside a call. *)
ClientStep(c) ==
  \/ fixq_send_full(c) \/ fixq_send_look(c) \/ fixq_send_wake(c)
  \/ fixq_send_timeout(c) \/ submit_undo(c) \/ fixq_send_put(c)
  \/ fixq_send_post(c) \/ done_look(c) \/ done_wake(c) \/ done_timeout(c)
  \/ submit_check(c) \/ done_rewait(c) \/ submit_finish(c)

net_exec_run_once ==
  \/ fixq_recv_nonempty \/ fixq_recv_poll \/ fixq_recv_take
  \/ fixq_recv_notify \/ run_once_start \/ run_once_proc \/ run_once_finish

Next ==
  \/ \E c \in Clients : \/ \E t \in Timeouts : submit_alloc(c, t)
                        \/ submit_refuse(c)
                        \/ ClientStep(c)
  \/ net_exec_run_once

Spec == Init /\ [][Next]_vars

(* A thread inside a call keeps running and the worker loops for ever with   *)
(* bounded waits.  This takes a hart for every runnable thread: pick_runnable *)
(* itself does not promise every ready task a turn.  A client may take a      *)
(* token while it sleeps rather than time out, and nothing forces a client   *)
(* to make a new call.                                                       *)
Fairness == /\ \A c \in Clients : WF_vars(ClientStep(c))
            /\ WF_vars(net_exec_run_once)

FairSpec == Spec /\ Fairness

-----------------------------------------------------------------------------
(* A client inside a call and owning the slot request[c]. *)
Owns(c, s) == pc[c] # "idle" /\ request[c] = s

(* While a callback runs (net_exec.c:105) the thread whose stack holds its  *)
(* argument is still inside net_exec_submit and still owns that request: a  *)
(* timeout can never free the argument under a running callback.            *)
CallbackArgumentAlive ==
  wpc = "run" => /\ proc[wreq] \in Clients
                 /\ Owns(proc[wreq], wreq)
                 /\ pc[proc[wreq]] \notin {"finish"}

(* net_exec_submit reports success exactly when its callback was run, and   *)
(* then it ran once; an error means it was never run.                       *)
OkMeansRanOnce ==
  \A c \in Clients :
     pc[c] = "idle" => runs[c] = (IF err[c] = "ok" THEN 1 ELSE 0)

(* A free slot carries no completion token: the next request that reuses    *)
(* the slot cannot be completed by the token of an earlier one.             *)
FreeSlotHasNoToken == \A s \in Slots : proc[s] = NoProc => done[s] = 0

(* A slot in the queue, or in the hands of the worker, is not free, is      *)
(* there once, and belongs to one call at most: it is freed and reused only *)
(* after the worker has let go of it.                                       *)
SlotHeldOnce ==
  /\ \A i, j \in 1 .. Len(queue) : queue[i] = queue[j] => i = j
  /\ \A i \in 1 .. Len(queue) : proc[queue[i]] # NoProc
  /\ wpc \in {"notify", "start", "run", "finish"} =>
        /\ proc[wreq] # NoProc
        /\ \A i \in 1 .. Len(queue) : queue[i] # wreq
  /\ \A c, d \in Clients :
        pc[c] # "idle" /\ pc[d] # "idle" /\ request[c] = request[d] => c = d

(* With as many queue entries as request slots (the sizes of the code) a    *)
(* client that got a slot never finds the queue full: fixq_send neither     *)
(* blocks nor fails.                                                        *)
SendNeverBlocks ==
  size >= NET_EXEC_QUEUE_SIZE =>
     \A c \in Clients : /\ pc[c] \in {"send", "sendSleep"} => send_sem > 0
                        /\ pc[c] \notin {"sendSleep", "undo"}

(* With the sizes of the code every call returns, whatever its timeout (in a *)
(* shorter queue a sender without timeout may lose every race for a place),  *)
(* and a request given up by its caller is freed by the worker in the end.   *)
EveryCallReturns ==
  /\ \A c \in Clients :
        size >= NET_EXEC_QUEUE_SIZE /\ pc[c] # "idle" ~> pc[c] = "idle"
  /\ \A s \in Slots : proc[s] # NoProc /\ abandoned[s] ~> proc[s] = NoProc

-----------------------------------------------------------------------------
(* The inductive invariant behind the safety properties: where a request    *)
(* slot may be (free, with its caller, queued, with the worker, completed,  *)
(* abandoned) and what its flags and its semaphore are there.               *)

Unsent == {"full", "send", "sendSleep", "undo", "put"}
Sent   == {"post", "wait", "waitSleep", "check", "rewait", "finish"}

Queued(s)   == \E i \in 1 .. Len(queue) : queue[i] = s
AtWorker(s) == wpc \in {"notify", "start", "run", "finish"} /\ wreq = s

QueueDistinct == \A i, j \in 1 .. Len(queue) : queue[i] = queue[j] => i = j

(* A caller's slot is its own, and is not abandoned while it is in the call. *)
OwnerInv ==
  \A c \in Clients :
     pc[c] # "idle" => proc[request[c]] = c /\ ~abandoned[request[c]]

(* A used slot belongs to a caller or is abandoned on its way to the worker. *)
SlotInv ==
  \A s \in Slots :
     /\ proc[s] = NoProc => done[s] = 0 /\ ~Queued(s) /\ ~AtWorker(s)
     /\ proc[s] # NoProc /\ abandoned[s] =>
           done[s] = 0 /\ ~started[s] /\ (Queued(s) \/ AtWorker(s))
     /\ proc[s] # NoProc /\ ~abandoned[s] =>
           pc[proc[s]] # "idle" /\ request[proc[s]] = s

(* The worker has at most one request, and not one that is still queued. *)
PlaceInv ==
  \A s \in Slots :
     /\ Queued(s) => ~AtWorker(s) /\ ~started[s] /\ ~completed[s]
     /\ AtWorker(s) => /\ ~completed[s]
                       /\ started[s] <=> wpc \in {"run", "finish"}

(* How far the call of a client has come, and what it has cost. *)
CallOf(c) ==
  /\ pc[c] = "idle" => runs[c] = (IF err[c] = "ok" THEN 1 ELSE 0)
  /\ pc[c] \in Unsent =>
        /\ ~Queued(request[c]) /\ ~AtWorker(request[c])
        /\ ~started[request[c]] /\ ~completed[request[c]]
        /\ done[request[c]] = 0 /\ runs[c] = 0 /\ err[c] # "ok"
  /\ pc[c] \in Sent =>
        /\ completed[request[c]] \/ Queued(request[c]) \/ AtWorker(request[c])
        /\ completed[request[c]] => started[request[c]]
        /\ done[request[c]] =
              (IF completed[request[c]] /\ err[c] # "ok" THEN 1 ELSE 0)
        /\ err[c] = "ok" => completed[request[c]]
        /\ runs[c] = (IF \/ completed[request[c]]
                         \/ AtWorker(request[c]) /\ wpc = "finish"
                      THEN 1 ELSE 0)
  /\ pc[c] \in {"post", "wait", "waitSleep"} => err[c] # "ok"
  /\ pc[c] = "rewait" => started[request[c]] /\ err[c] # "ok"
  /\ pc[c] = "finish" => completed[request[c]] /\ err[c] = "ok"

CallInv == \A c \in Clients : CallOf(c)

IInv == TypeOK /\ QueueDistinct /\ OwnerInv /\ SlotInv /\ PlaceInv /\ CallInv

-----------------------------------------------------------------------------
(* The refinement mapping: how a call of the code is seen by its callers. *)
phaseBar == [c \in Clients |->
  CASE pc[c] = "idle" -> "idle"
    [] pc[c] # "idle" /\ runs[c] > 0 -> "ran"
    [] pc[c] # "idle" /\ runs[c] = 0 /\ wpc = "run" /\ proc[wreq] = c -> "running"
    [] OTHER -> "pending"]

resultBar == [c \in Clients |->
  CASE pc[c] # "idle" \/ err[c] = "none" -> "none"
    [] pc[c] = "idle" /\ err[c] = "ok" -> "ok"
    [] OTHER -> "error"]

Serial == INSTANCE SerialExec WITH phase <- phaseBar, result <- resultBar

(* net_exec implements the serial executor its callers rely on. *)
ImplementsSerialExec == Serial!Spec
=============================================================================
