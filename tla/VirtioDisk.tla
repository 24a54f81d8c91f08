----------------------------- MODULE VirtioDisk -----------------------------
(***************************************************************************)
(* The block driver of kernel/src/virtio_disk.c on the ring of Virtqueue:  *)
(* block_transfer in several tasks, virtio_disk_intr, and the device.      *)
(*                                                                         *)
(* A caller's critical section of disk.lock is one step (task_sleep gives  *)
(* the lock up and sleeps in one step: Sched); the interrupt handler holds *)
(* the lock over a loop, one iteration of which is a step, while the       *)
(* device goes on.                                                         *)
(***************************************************************************)
EXTENDS Virtqueue

CONSTANTS Callers, Sectors, Values,
          Blank,          \* neither a value nor an operation
          NoOne,          \* the null pointer
          FaultAt         \* bound: the ring indices at which the device may err

VARIABLES
  q,                               \* disk.queue
  waiter, request, status, addr,   \* disk.info[], by head; the data buffer
  pending, failed,                 \* disk.pending, disk.failed
  pc, done, result, op, buf,       \* each caller's place, locals and buffer
  intr,                            \* where the interrupt handler is
  irq,                             \* the device's interrupt line
  taken, contents                  \* chains the device works on; its sectors

infoVars   == <<waiter, request, status, addr>>
callVars   == <<pc, done, result, op, buf>>
deviceVars == <<taken, contents>>
vars == <<q, infoVars, pending, failed, callVars, intr, irq, deviceVars>>

Ops == [write : BOOLEAN, sector : Sectors]

(* Type correctness of the queue, the request table and the callers. *)
TypeOK ==
  /\ q \in Queue
  /\ waiter \in [Desc -> Callers \cup {NoOne}]
  /\ request \in [Desc -> Ops \cup {Blank}]
  /\ status \in [Desc -> {"none", "ok", "error"}]
  /\ addr \in [Desc -> Callers \cup {NoOne}]
  /\ pending \in Nat
  /\ failed \in BOOLEAN
  /\ pc \in [Callers -> {"user", "alloc", "desc", "io", "woken"}]
  /\ done \in [Callers -> BOOLEAN]
  /\ result \in [Callers -> {0, -1}]
  /\ op \in [Callers -> Ops \cup {Blank}]
  /\ buf \in [Callers -> Values \cup {Blank}]
  /\ intr \in {"idle", "acked", "drain"}
  /\ irq \in BOOLEAN
  /\ taken \in SUBSET Desc
  /\ contents \in [Sectors -> Values]

(* virtio_disk_init *)
Init ==
  /\ q = virtq_init
  /\ waiter = [h \in Desc |-> NoOne]
  /\ request = [h \in Desc |-> Blank]
  /\ status = [h \in Desc |-> "none"]
  /\ addr = [h \in Desc |-> NoOne]
  /\ pending = 0 /\ failed = FALSE
  /\ pc = [c \in Callers |-> "user"]
  /\ done = [c \in Callers |-> FALSE]
  /\ result = [c \in Callers |-> -1]
  /\ op = [c \in Callers |-> Blank]
  /\ buf = [c \in Callers |-> Blank]
  /\ intr = "idle" /\ irq = FALSE
  /\ taken = {} /\ contents \in [Sectors -> Values]

-----------------------------------------------------------------------------
(* block_transfer *)

(* virtio_blk_transfer, for a sector within the capacity (it refuses others  *)
(* before it touches anything).                                              *)
transfer_call(c) ==
  /\ pc[c] = "user"
  /\ \E o \in Ops, v \in Values \cup {Blank} :
        /\ o.write <=> v # Blank
        /\ op' = [op EXCEPT ![c] = o]
        /\ buf' = [buf EXCEPT ![c] = v]
  /\ pc' = [pc EXCEPT ![c] = "alloc"]
  /\ UNCHANGED <<q, infoVars, pending, failed, done, result, intr, irq, deviceVars>>

(* The lock is free for a caller unless the handler has it. *)
Locks(c, where) == pc[c] = where /\ intr # "drain"

Return(c) ==
  /\ pc' = [pc EXCEPT ![c] = "user"]
  /\ op' = [op EXCEPT ![c] = Blank]
  /\ buf' = [buf EXCEPT ![c] = Blank]
  /\ done' = [done EXCEPT ![c] = FALSE]
  /\ result' = [result EXCEPT ![c] = -1]

transfer_refused(c) ==
  /\ Locks(c, "alloc")
  /\ failed
  /\ Return(c)
  /\ UNCHANGED <<q, infoVars, pending, failed, intr, irq, deviceVars>>

transfer_full(c) ==
  /\ Locks(c, "alloc")
  /\ ~failed
  /\ ~CanAlloc(q, 3)
  /\ pc' = [pc EXCEPT ![c] = "desc"]
  /\ UNCHANGED <<q, infoVars, pending, failed, done, result, op, buf, intr, irq,
                 deviceVars>>

(* Three descriptors: request, data, status; then sleep for the completion. *)
transfer_submit(c) ==
  LET h == ChainHead(q, 3) IN
  /\ Locks(c, "alloc")
  /\ ~failed
  /\ CanAlloc(q, 3)
  /\ request' = [request EXCEPT ![h] = op[c]]
  /\ status' = [status EXCEPT ![h] = "none"]
  /\ waiter' = [waiter EXCEPT ![h] = c]
  /\ addr' = [addr EXCEPT ![h] = c]
  /\ pending' = pending + 1
  /\ q' = virtq_submit(virtq_alloc_chain(q, 3), h)
  /\ pc' = [pc EXCEPT ![c] = "io"]
  /\ UNCHANGED <<failed, done, result, op, buf, intr, irq, deviceVars>>

transfer_return(c) ==
  /\ Locks(c, "woken")
  /\ IF done[c] THEN Return(c)
                ELSE /\ pc' = [pc EXCEPT ![c] = "io"]
                     /\ UNCHANGED <<done, result, op, buf>>
  /\ UNCHANGED <<q, infoVars, pending, failed, intr, irq, deviceVars>>

-----------------------------------------------------------------------------
(* virtio_disk_intr *)

(* The interrupt is acknowledged first, then the lock is taken. *)
intr_ack ==
  /\ intr = "idle"
  /\ irq
  /\ irq' = FALSE
  /\ intr' = "acked"
  /\ UNCHANGED <<q, infoVars, pending, failed, callVars, deviceVars>>

intr_lock ==
  /\ intr = "acked"
  /\ intr' = "drain"
  /\ UNCHANGED <<q, infoVars, pending, failed, callVars, irq, deviceVars>>

intr_unlock ==
  /\ intr = "drain"
  /\ ~HasUsed(q)
  /\ intr' = "idle"
  /\ UNCHANGED <<q, infoVars, pending, failed, callVars, irq, deviceVars>>

(* Used by the mutant below: those who wait for descriptors sleep on. *)
Wake_completions(S) == pc' = [c \in Callers |-> IF c \in S /\ pc[c] = "io"
                                                 THEN "woken" ELSE pc[c]]

(* task_wake on the completions of the callers in S and, all of them, on     *)
(* disk.descriptors.                                                         *)
Wake(S) == pc' = [c \in Callers |-> CASE c \in S /\ pc[c] = "io" -> "woken"
                                      [] pc[c] = "desc" -> "alloc"
                                      [] OTHER -> pc[c]]

(* Mutant: those who wait for descriptors sleep on. *)
block_fail_locked_unwoken ==
  LET S == {waiter[h] : h \in Desc} \ {NoOne} IN
  /\ failed' = TRUE
  /\ done' = [c \in Callers |-> done[c] \/ c \in S]
  /\ result' = [c \in Callers |-> IF c \in S THEN -1 ELSE result[c]]
  /\ waiter' = [h \in Desc |-> NoOne]
  /\ pending' = 0
  /\ Wake_completions(S)

(* Every waiter fails.  The device is not told, and keeps its chains. *)
block_fail_locked ==
  LET S == {waiter[h] : h \in Desc} \ {NoOne} IN
  /\ failed' = TRUE
  /\ done' = [c \in Callers |-> done[c] \/ c \in S]
  /\ result' = [c \in Callers |-> IF c \in S THEN -1 ELSE result[c]]
  /\ waiter' = [h \in Desc |-> NoOne]
  /\ pending' = 0
  /\ Wake(S)

(* "used-id" and "duplicate": the id is not that of an active chain, or      *)
(* nobody waits for it.                                                      *)
intr_fail ==
  /\ intr = "drain"
  /\ HasUsed(q)
  /\ \/ UsedIsBad(q)
     \/ ~UsedIsBad(q) /\ waiter[UsedId(q)] = NoOne
  /\ q' = virtq_pop_used(q)
  /\ block_fail_locked
  /\ intr' = "idle"
  /\ UNCHANGED <<request, status, addr, op, buf, irq, deviceVars>>

(* Mutant: the status byte is not looked at. *)
intr_complete_unchecked ==
  LET id     == UsedId(q)
      popped == virtq_pop_used(q)
      c      == waiter[id]
  IN
  /\ intr = "drain" /\ HasUsed(q) /\ ~UsedIsBad(q) /\ c # NoOne
  /\ q' = virtq_free_chain(popped, id)
  /\ done' = [done EXCEPT ![c] = TRUE]
  /\ result' = [result EXCEPT ![c] = 0]
  /\ waiter' = [waiter EXCEPT ![id] = NoOne]
  /\ pending' = pending - 1
  /\ Wake({c})
  /\ request' = [request EXCEPT ![id] = Blank]
  /\ status' = [status EXCEPT ![id] = "none"]
  /\ addr' = [addr EXCEPT ![id] = NoOne]
  /\ UNCHANGED <<failed, intr, op, buf, irq, deviceVars>>

(* "chain": the chain is not the three descriptors that were allocated.      *)
(* (The table entry of a chain that is free is dead, and cleared.)           *)
intr_complete ==
  LET id     == UsedId(q)
      popped == virtq_pop_used(q)
      c      == waiter[id]
  IN
  /\ intr = "drain"
  /\ HasUsed(q)
  /\ ~UsedIsBad(q)
  /\ c # NoOne
  /\ q' = virtq_free_chain(popped, id)
  /\ IF FreedBy(popped, id) # 3
       THEN block_fail_locked /\ intr' = "idle"
       ELSE /\ done' = [done EXCEPT ![c] = TRUE]
            /\ result' = [result EXCEPT ![c] = IF status[id] = "ok" THEN 0 ELSE -1]
            /\ waiter' = [waiter EXCEPT ![id] = NoOne]
            /\ pending' = pending - 1
            /\ Wake({c})
            /\ UNCHANGED <<failed, intr>>
  /\ request' = [request EXCEPT ![id] = Blank]
  /\ status' = [status EXCEPT ![id] = "none"]
  /\ addr' = [addr EXCEPT ![id] = NoOne]
  /\ UNCHANGED <<op, buf, irq, deviceVars>>

-----------------------------------------------------------------------------
(* The device *)

device_take ==
  /\ HasAvail(q)
  /\ taken' = taken \cup {AvailHead(q)}
  /\ q' = DeviceTakes(q)
  /\ UNCHANGED <<infoVars, pending, failed, callVars, intr, irq, contents>>

(* Requests are completed in any order.  Data moves between the disk and the *)
(* buffer the descriptor names, whoever owns that memory by then.            *)
device_complete(h) ==
  LET r == request[h]
      a == addr[h]
  IN
  /\ h \in taken
  /\ \/ /\ status' = [status EXCEPT ![h] = "ok"]
        /\ IF r.write
             THEN /\ \E v \in Values :
                        /\ buf[a] # Blank => v = buf[a]
                        /\ contents' = [contents EXCEPT ![r.sector] = v]
                  /\ UNCHANGED buf
             ELSE /\ buf' = [buf EXCEPT ![a] = contents[r.sector]]
                  /\ UNCHANGED contents
     \/ /\ status' = [status EXCEPT ![h] = "error"]
        /\ UNCHANGED <<buf, contents>>
  /\ taken' = taken \ {h}
  /\ q' = DeviceReturns(q, h)
  /\ irq' = TRUE
  /\ UNCHANGED <<waiter, request, addr, pending, failed, pc, done, result, op, intr>>

(* The device returns an id out of range.  Bound: it errs when it is not     *)
(* ahead of the driver, at the indices of FaultAt.                           *)
device_fault ==
  /\ q.used.idx \in FaultAt
  /\ ~failed
  /\ q.used.idx = q.used_idx
  /\ q' = DeviceReturns(q, NoDesc)
  /\ irq' = TRUE
  /\ UNCHANGED <<infoVars, pending, failed, callVars, intr, deviceVars>>

-----------------------------------------------------------------------------
block_transfer(c) == transfer_refused(c) \/ transfer_full(c)
                     \/ transfer_submit(c) \/ transfer_return(c)
virtio_disk_intr  == intr_ack \/ intr_lock \/ intr_unlock \/ intr_fail
                     \/ intr_complete
device            == device_take \/ device_fault
                     \/ \E h \in Desc : device_complete(h)

Next == \/ \E c \in Callers : transfer_call(c) \/ block_transfer(c)
        \/ virtio_disk_intr
        \/ device

Spec == Init /\ [][Next]_vars

-----------------------------------------------------------------------------
(* The heads of the chains somebody waits for. *)
Waited == {h \in Desc : waiter[h] # NoOne}

(* Until the device fails, no descriptor is lost or shared: those not free   *)
(* are the chains of the pending requests, three to each, one to each caller *)
(* that has submitted (virtqueue.c:52-100; the leak test of                  *)
(* virtio_disk_smoke_test, which looks at a quiet disk only).                *)
DescriptorsAccounted ==
  /\ TypeOK
  /\ ~failed =>
    /\ q.free = Desc \ UNION {Chain(q, h) : h \in Waited}
    /\ \A h \in Waited : /\ Cardinality(Chain(q, h)) = 3
                         /\ pc[waiter[h]] = "io"
                         /\ \A g \in Waited \ {h} : /\ Chain(q, g) \cap Chain(q, h) = {}
                                                    /\ waiter[g] # waiter[h]
    /\ pending = Cardinality(Waited)
    /\ \A c \in Callers : pc[c] = "io" => \E h \in Waited : waiter[h] = c

(* Nobody sleeps for what is there or will never come: a caller asleep for   *)
(* descriptors finds fewer than three free, one asleep on its completion has *)
(* none yet, the device has not failed, and a completion in the ring has an  *)
(* interrupt or the handler coming, which drains the ring after it has       *)
(* acknowledged the interrupt (virtio_disk.c:61-66, 88-89, 211-246; the      *)
(* wakeups of block_fail_locked).                                            *)
NobodyStranded ==
  /\ \A c \in Callers :
       /\ pc[c] = "desc" => ~failed /\ ~CanAlloc(q, 3)
       /\ pc[c] = "io"   => ~failed /\ ~done[c]
  /\ HasUsed(q) /\ ~failed => irq \/ intr # "idle"

-----------------------------------------------------------------------------
(* The disk the callers see: the effect is where the device completes the    *)
(* request.                                                                  *)
Phase(c) ==
  IF pc[c] = "user" THEN "idle"
  ELSE IF done[c] THEN IF result[c] = 0 THEN "done" ELSE "failed"
  ELSE IF \E h \in Waited : waiter[h] = c /\ status[h] = "ok" THEN "done"
  ELSE IF \E h \in Waited : waiter[h] = c /\ status[h] = "error" THEN "failed"
  ELSE "pending"

Disk == INSTANCE BlockDisk WITH
          broken <- failed,
          call <- [c \in Callers |-> [phase |-> Phase(c), op |-> op[c], data |-> buf[c]]]

(* A transfer takes effect once, between its call and its return, and a call *)
(* returns 0 exactly when its own request did: no completion goes to another *)
(* caller, whatever order the device completes in.  After a device error no  *)
(* call succeeds.                                                            *)
ImplementsBlockDisk == Disk!Spec
=============================================================================
