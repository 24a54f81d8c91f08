------------------------------ MODULE VirtioNet ------------------------------
(***************************************************************************)
(* The network driver of kernel/src/virtio_net.c, with the completion ring  *)
(* of virtio_net_completion.c, on two rings of Virtqueue: tasks that send,  *)
(* receive and reset, virtio_net_intr, and the device.                      *)
(*                                                                         *)
(* A task's critical section of net.lock is one step (task_sleep gives the  *)
(* lock up and sleeps in one step: Sched); the interrupt handler holds the  *)
(* lock over two loops, one iteration of which is a step, while the device  *)
(* goes on.  net.resetting is set and cleared under one hold of the lock,   *)
(* so the test for it never succeeds and it is left out.                    *)
(*                                                                         *)
(* A received frame is a number, in the order in which the device puts them *)
(* into the used ring.                                                      *)
(***************************************************************************)
EXTENDS Virtqueue, Sequences, SequencesExt

CONSTANTS Tasks,
          MaxResets, MaxFrames,   \* bounds on the counters
          DeviceFaults            \* whether the device may misbehave

VARIABLES
  rx_queue, tx_queue,
  rx_bytes, rx_descriptor, rx_state,   \* net.rx[]
  tx_descriptor, in_use,               \* net.tx[]
  rx_completions,                      \* the ring, as its contents
  pending_tx, active, failed,
  resets,                              \* net.stats.resets
  pc, generation,                      \* each task's place and local
  intr,                                \* where the interrupt handler is
  irq,                                 \* the device's interrupt line
  live,                                \* whether the device's status is DRIVER_OK
  sending,                             \* tx chains the device works on
  frames,                              \* how many frames came in
  last                                 \* history: the last one handed to a task

rxVars  == <<rx_queue, rx_bytes, rx_descriptor, rx_state, rx_completions>>
txVars  == <<tx_queue, tx_descriptor, in_use, pending_tx>>
devVars == <<live, sending, frames>>
vars == <<rxVars, txVars, active, failed, resets, pc, generation, intr, irq,
          devVars, last>>

(* A slot's state field has its own names; 0 is neither. *)
NET_RX_POSTED    == 1
NET_RX_COMPLETED == 2

(* What a buffer may hold beside a frame: nothing, or a frame that is too   *)
(* short or has a bad header; or one longer than the buffer.                *)
Runt  == 0
Giant == MaxFrames + 1

Slots == Desc

(* Type correctness of the rings, the slots and the tasks. *)
TypeOK ==
  /\ rx_queue \in Queue /\ tx_queue \in Queue
  /\ rx_bytes \in [Slots -> 0 .. (MaxFrames + 1)]
  /\ rx_descriptor \in [Slots -> Desc] /\ tx_descriptor \in [Slots -> Desc]
  /\ rx_state \in [Slots -> {0, NET_RX_POSTED, NET_RX_COMPLETED}]
  /\ in_use \in [Slots -> BOOLEAN]
  /\ rx_completions \in Seq(Slots)
  /\ pending_tx \in 0 .. VIRTQ_NUM
  /\ active \in BOOLEAN /\ failed \in BOOLEAN
  /\ resets \in 0 .. MaxResets
  /\ pc \in [Tasks -> {"user", "tx_sleep", "tx_woken", "rx_sleep", "rx_woken"}]
  /\ generation \in [Tasks -> 0 .. MaxResets]
  /\ intr \in {"idle", "acked", "rx", "tx"} /\ irq \in BOOLEAN
  /\ live \in BOOLEAN /\ sending \in SUBSET Desc
  /\ frames \in 0 .. MaxFrames /\ last \in 0 .. MaxFrames

-----------------------------------------------------------------------------
(* A call of t goes to sleep in the generation it looked at first, or       *)
(* returns, and its local generation is gone.                               *)
Sleep(t, on) == /\ pc' = [pc EXCEPT ![t] = on]
                /\ generation' = [generation EXCEPT ![t] = resets]
Return(t)    == /\ pc' = [pc EXCEPT ![t] = "user"]
                /\ generation' = [generation EXCEPT ![t] = 0]

(* task_wake, of all tasks on the wait queues named. *)
Woken(on, t) == CASE pc[t] = "tx_sleep" /\ "tx" \in on -> "tx_woken"
                  [] pc[t] = "rx_sleep" /\ "rx" \in on -> "rx_woken"
                  [] OTHER -> pc[t]
Wake(on) == pc' = [t \in Tasks |-> Woken(on, t)]

(* Mutant: the sleepers are forgotten. *)
net_fail_locked_silent == active' = FALSE /\ failed' = TRUE /\ UNCHANGED pc

(* The device is given up; whoever sleeps finds it inactive. *)
net_fail_locked ==
  /\ active' = FALSE /\ failed' = TRUE
  /\ Wake({"rx", "tx"})

(* The same in a call of t, which returns. *)
GiveUp(t) ==
  /\ active' = FALSE /\ failed' = TRUE
  /\ pc' = [u \in Tasks |-> IF u = t THEN "user" ELSE Woken({"rx", "tx"}, u)]
  /\ generation' = [generation EXCEPT ![t] = 0]

(* net_post_rx_locked for the next slot. *)
net_post_rx(q) == virtq_submit(virtq_alloc_chain(q, 1), ChainHead(q, 1))

(* The receive queue with the first n slots posted. *)
Posted[n \in 0 .. VIRTQ_NUM] ==
  IF n = 0 THEN virtq_init ELSE net_post_rx(Posted[n - 1])

(* virtio_net_init, and net_start_locked. *)
Init ==
  /\ rx_queue = Posted[VIRTQ_NUM] /\ tx_queue = virtq_init
  /\ rx_bytes = [s \in Slots |-> Runt]
  /\ rx_descriptor = [s \in Slots |-> ChainHead(Posted[s], 1)]
  /\ rx_state = [s \in Slots |-> NET_RX_POSTED]
  /\ tx_descriptor = [s \in Slots |-> 0]
  /\ in_use = [s \in Slots |-> FALSE]
  /\ rx_completions = <<>> /\ pending_tx = 0
  /\ active = TRUE /\ failed = FALSE /\ resets = 0
  /\ pc = [t \in Tasks |-> "user"] /\ generation = [t \in Tasks |-> 0]
  /\ intr = "idle" /\ irq = FALSE
  /\ live = TRUE /\ sending = {} /\ frames = 0 /\ last = 0

start_clears ==
  /\ in_use' = [s \in Slots |-> FALSE]
  /\ rx_completions' = <<>> /\ pending_tx' = 0

net_start_ok ==
  /\ rx_queue' = Posted[VIRTQ_NUM] /\ tx_queue' = virtq_init
  /\ rx_bytes' = [s \in Slots |-> Runt]
  /\ rx_descriptor' = [s \in Slots |-> ChainHead(Posted[s], 1)]
  /\ rx_state' = [s \in Slots |-> NET_RX_POSTED]
  /\ start_clears
  /\ active' = TRUE /\ failed' = FALSE /\ live' = TRUE
  /\ UNCHANGED tx_descriptor

(* The device does not come up again: the transport, the MAC address or the *)
(* receive queue is refused, or after that the transmit queue.  The device  *)
(* is left in the reset state.                                              *)
net_start_fails ==
  /\ \/ UNCHANGED <<rx_queue, tx_queue>>
     \/ rx_queue' = virtq_init /\ UNCHANGED tx_queue
  /\ rx_state' = [s \in Slots |-> 0]
  /\ start_clears
  /\ active' = FALSE /\ failed' = TRUE /\ live' = FALSE
  /\ UNCHANGED <<rx_bytes, rx_descriptor, tx_descriptor>>

(* Bound: a faulty device errs only before the last reset that succeeds. *)
MayErr == DeviceFaults /\ resets < MaxResets

(* The tasks can take the lock unless the handler has it. *)
Unlocked == intr \notin {"rx", "tx"}

(* The sleepers are woken and find another generation, or the device down.  *)
(* A device that does not become idle is left as it is.                     *)
virtio_net_reset ==
  /\ Unlocked
  /\ Wake({"rx", "tx"})
  /\ \/ /\ resets < MaxResets
        /\ net_start_ok
        /\ resets' = resets + 1
        /\ sending' = {} /\ irq' = FALSE
     \/ /\ MayErr
        /\ net_start_fails
        /\ sending' = {} /\ irq' = FALSE
        /\ UNCHANGED resets
     \/ /\ MayErr
        /\ active' = FALSE /\ failed' = TRUE
        /\ UNCHANGED <<rxVars, txVars, live, sending, irq, resets>>
  /\ UNCHANGED <<generation, intr, frames, last>>

-----------------------------------------------------------------------------
(* Sending.  The call looks at the generation first; woken from tx_wait it  *)
(* looks again at everything.                                               *)
Current(t) == active /\ (pc[t] = "user" \/ generation[t] = resets)

FreeTx == {s \in Slots : ~in_use[s]}

send_full(t) ==
  /\ Unlocked /\ pc[t] \in {"user", "tx_woken"}
  /\ Current(t)
  /\ FreeTx = {}
  /\ Sleep(t, "tx_sleep")
  /\ UNCHANGED <<rxVars, txVars, active, failed, resets, intr, irq, devVars, last>>

(* The length was in range, or the call was refused at once.  A free slot   *)
(* without a free descriptor is a failure of the driver.                    *)
send_submit(t) ==
  LET slot       == Min(FreeTx)
      descriptor == ChainHead(tx_queue, 1)
  IN
  /\ Unlocked /\ pc[t] \in {"user", "tx_woken"}
  /\ Current(t)
  /\ FreeTx # {}
  /\ IF CanAlloc(tx_queue, 1)
     THEN /\ tx_descriptor' = [tx_descriptor EXCEPT ![slot] = descriptor]
          /\ in_use' = [in_use EXCEPT ![slot] = TRUE]
          /\ pending_tx' = pending_tx + 1
          /\ tx_queue' = virtq_submit(virtq_alloc_chain(tx_queue, 1), descriptor)
          /\ Return(t)
          /\ UNCHANGED <<active, failed>>
     ELSE GiveUp(t) /\ UNCHANGED txVars
  /\ UNCHANGED <<rxVars, resets, intr, irq, devVars, last>>

send_fails(t) ==
  /\ Unlocked /\ pc[t] = "tx_woken"
  /\ ~Current(t)
  /\ Return(t)
  /\ UNCHANGED <<rxVars, txVars, active, failed, resets, intr, irq, devVars, last>>

-----------------------------------------------------------------------------
(* Mutant: the buffer is not offered to the device again. *)
net_repost_rx_unposted(slot, q) ==
  /\ rx_state' = [rx_state EXCEPT ![slot] = NET_RX_POSTED]
  /\ rx_queue' = q
  /\ rx_bytes' = [rx_bytes EXCEPT ![slot] = Runt]

(* The slot keeps its descriptor; it holds no frame until the device has    *)
(* returned the buffer with a length.                                       *)
net_repost_rx_locked(slot, q) ==
  /\ rx_state' = [rx_state EXCEPT ![slot] = NET_RX_POSTED]
  /\ rx_queue' = virtq_submit(q, rx_descriptor[slot])
  /\ rx_bytes' = [rx_bytes EXCEPT ![slot] = Runt]

receive_empty(t) ==
  /\ Unlocked /\ pc[t] \in {"user", "rx_woken"}
  /\ Current(t)
  /\ rx_completions = <<>>
  /\ Sleep(t, "rx_sleep")
  /\ UNCHANGED <<rxVars, txVars, active, failed, resets, intr, irq, devVars, last>>

(* The deadline passes. *)
receive_timeout(t) ==
  /\ Unlocked /\ pc[t] = "rx_sleep"
  /\ Return(t)
  /\ UNCHANGED <<rxVars, txVars, active, failed, resets, intr, irq, devVars, last>>

(* The frame is copied and the slot posted again.  The callers' buffer      *)
(* holds the longest frame, so it is never too small.                       *)
receive_frame(t) ==
  LET slot == Head(rx_completions) IN
  /\ Unlocked /\ pc[t] \in {"user", "rx_woken"}
  /\ Current(t)
  /\ rx_completions # <<>>
  /\ rx_completions' = Tail(rx_completions)
  /\ IF rx_state[slot] = NET_RX_COMPLETED
     THEN /\ last' = rx_bytes[slot]
          /\ net_repost_rx_locked(slot, rx_queue)
          /\ Return(t)
          /\ UNCHANGED <<active, failed>>
     ELSE GiveUp(t) /\ UNCHANGED <<rx_state, rx_queue, rx_bytes, last>>
  /\ UNCHANGED <<rx_descriptor, txVars, resets, intr, irq, devVars>>

receive_fails(t) ==
  /\ Unlocked /\ pc[t] = "rx_woken"
  /\ ~Current(t)
  /\ Return(t)
  /\ UNCHANGED <<rxVars, txVars, active, failed, resets, intr, irq, devVars, last>>

virtio_net_send(t)    == send_full(t) \/ send_submit(t) \/ send_fails(t)
virtio_net_receive(t) == receive_empty(t) \/ receive_timeout(t)
                         \/ receive_frame(t) \/ receive_fails(t)

-----------------------------------------------------------------------------
(* virtio_net_intr.  The interrupt is acknowledged before the lock is taken. *)
intr_ack ==
  /\ intr = "idle" /\ irq
  /\ irq' = FALSE /\ intr' = "acked"
  /\ UNCHANGED <<rxVars, txVars, active, failed, resets, pc, generation, devVars, last>>

intr_lock ==
  /\ intr = "acked" /\ intr' = "rx"
  /\ UNCHANGED <<rxVars, txVars, active, failed, resets, pc, generation, irq,
                 devVars, last>>

intr_rx_done ==
  /\ intr = "rx" /\ ~HasUsed(rx_queue)
  /\ intr' = "tx"
  /\ UNCHANGED <<rxVars, txVars, active, failed, resets, pc, generation, irq,
                 devVars, last>>

net_find_rx_slot(descriptor) ==
  {s \in Slots : rx_descriptor[s] = descriptor /\ rx_state[s] = NET_RX_POSTED}

(* An id that is not one of the driver's, or a frame longer than a buffer,  *)
(* ends the loop and the use of the device.                                 *)
intr_rx_fail ==
  LET id   == UsedId(rx_queue)
      mine == net_find_rx_slot(id)
  IN
  /\ intr = "rx" /\ HasUsed(rx_queue)
  /\ \/ UsedIsBad(rx_queue)
     \/ ~UsedIsBad(rx_queue) /\ mine = {}
     \/ ~UsedIsBad(rx_queue) /\ mine # {} /\ rx_bytes[Min(mine)] = Giant
  /\ rx_queue' = virtq_pop_used(rx_queue)
  /\ net_fail_locked
  /\ intr' = "tx"
  /\ UNCHANGED <<rx_bytes, rx_descriptor, rx_state, rx_completions, txVars, resets,
                 generation, irq, devVars, last>>

(* Mutant: the ring works as a stack. *)
net_completion_push_front(slot) == <<slot>> \o rx_completions

NET_COMPLETION_CAPACITY   == VIRTQ_NUM
net_completion_push(slot) == Append(rx_completions, slot)

(* A bad frame is dropped and its slot posted again; so is one for which    *)
(* the completion ring has no place.                                        *)
intr_rx ==
  LET mine   == net_find_rx_slot(UsedId(rx_queue))
      slot   == Min(mine)
      popped == virtq_pop_used(rx_queue)
  IN
  /\ intr = "rx" /\ HasUsed(rx_queue) /\ ~UsedIsBad(rx_queue)
  /\ mine # {} /\ rx_bytes[slot] # Giant
  /\ IF rx_bytes[slot] = Runt \/ Len(rx_completions) = NET_COMPLETION_CAPACITY
     THEN /\ net_repost_rx_locked(slot, popped)
          /\ UNCHANGED <<rx_completions, pc>>
     ELSE /\ rx_queue' = popped
          /\ rx_state' = [rx_state EXCEPT ![slot] = NET_RX_COMPLETED]
          /\ rx_completions' = net_completion_push(slot)
          /\ Wake({"rx"})
          /\ UNCHANGED rx_bytes
  /\ UNCHANGED <<rx_descriptor, txVars, active, failed, resets, generation, intr,
                 irq, devVars, last>>

intr_unlock ==
  /\ intr = "tx" /\ ~HasUsed(tx_queue)
  /\ intr' = "idle"
  /\ UNCHANGED <<rxVars, txVars, active, failed, resets, pc, generation, irq,
                 devVars, last>>

net_find_tx_slot(descriptor) ==
  {s \in Slots : in_use[s] /\ tx_descriptor[s] = descriptor}

intr_tx_fail ==
  LET id     == UsedId(tx_queue)
      popped == virtq_pop_used(tx_queue)
  IN
  /\ intr = "tx" /\ HasUsed(tx_queue)
  /\ \/ UsedIsBad(tx_queue) /\ tx_queue' = popped
     \/ ~UsedIsBad(tx_queue) /\ net_find_tx_slot(id) = {} /\ tx_queue' = popped
  /\ net_fail_locked
  /\ intr' = "idle"
  /\ UNCHANGED <<rxVars, tx_descriptor, in_use, pending_tx, resets, generation, irq,
                 devVars, last>>

intr_tx ==
  LET id     == UsedId(tx_queue)
      popped == virtq_pop_used(tx_queue)
  IN
  /\ intr = "tx" /\ HasUsed(tx_queue) /\ ~UsedIsBad(tx_queue)
  /\ net_find_tx_slot(id) # {}
  /\ tx_queue' = virtq_free_chain(popped, id)
  /\ IF FreedBy(popped, id) = 1
     THEN /\ in_use' = [in_use EXCEPT ![Min(net_find_tx_slot(id))] = FALSE]
          /\ pending_tx' = pending_tx - 1
          /\ Wake({"tx"})
          /\ UNCHANGED <<active, failed, intr>>
     ELSE /\ net_fail_locked /\ intr' = "idle"
          /\ UNCHANGED <<in_use, pending_tx>>
  /\ UNCHANGED <<rxVars, tx_descriptor, resets, generation, irq, devVars, last>>

virtio_net_intr == intr_ack \/ intr_lock \/ intr_rx_done \/ intr_rx_fail \/ intr_rx
                   \/ intr_unlock \/ intr_tx_fail \/ intr_tx

-----------------------------------------------------------------------------
(* The device.  A frame that comes in, whole or damaged, goes into the next *)
(* buffer offered.                                                          *)
device_receive ==
  LET d == AvailHead(rx_queue) IN
  /\ live /\ HasAvail(rx_queue) /\ frames < MaxFrames
  /\ frames' = frames + 1
  /\ rx_queue' = DeviceReturns(DeviceTakes(rx_queue), d)
  /\ irq' = TRUE
  /\ \E s \in Slots, f \in {frames + 1, Runt} \cup (IF MayErr THEN {Giant} ELSE {}) :
       /\ rx_descriptor[s] = d
       /\ rx_bytes' = [rx_bytes EXCEPT ![s] = f]
  /\ UNCHANGED <<rx_descriptor, rx_state, rx_completions, txVars, active, failed,
                 resets, pc, generation, intr, live, sending, last>>

device_take ==
  /\ live /\ HasAvail(tx_queue)
  /\ sending' = sending \cup {AvailHead(tx_queue)}
  /\ tx_queue' = DeviceTakes(tx_queue)
  /\ UNCHANGED <<rxVars, tx_descriptor, in_use, pending_tx, active, failed, resets,
                 pc, generation, intr, irq, live, frames, last>>

device_sent(d) ==
  /\ d \in sending
  /\ sending' = sending \ {d}
  /\ tx_queue' = DeviceReturns(tx_queue, d)
  /\ irq' = TRUE
  /\ UNCHANGED <<rxVars, tx_descriptor, in_use, pending_tx, active, failed, resets,
                 pc, generation, intr, live, frames, last>>

(* Bound: the device errs when it is not ahead of the driver. *)
device_fault ==
  /\ MayErr /\ live /\ ~failed /\ irq' = TRUE
  /\ \/ /\ ~HasUsed(rx_queue)
        /\ rx_queue' = DeviceReturns(rx_queue, NoDesc) /\ UNCHANGED tx_queue
     \/ /\ ~HasUsed(tx_queue)
        /\ tx_queue' = DeviceReturns(tx_queue, NoDesc) /\ UNCHANGED rx_queue
  /\ UNCHANGED <<rx_bytes, rx_descriptor, rx_state, rx_completions, tx_descriptor,
                 in_use, pending_tx, active, failed, resets, pc, generation, intr,
                 devVars, last>>

device == device_receive \/ device_take \/ device_fault \/ \E d \in Desc : device_sent(d)

Next == \/ \E t \in Tasks : virtio_net_send(t) \/ virtio_net_receive(t)
        \/ virtio_net_reset
        \/ virtio_net_intr
        \/ device

Spec == Init /\ [][Next]_vars

-----------------------------------------------------------------------------
(* While the device works, every transmit slot in use has a descriptor of   *)
(* its own with the device or on its way back, and the three counts of them *)
(* agree: no frame, slot or descriptor is lost or freed twice, over resets  *)
(* too (virtio_net.c:267-282, 599-621).                                     *)
TransmitAccounted ==
  ~failed =>
    LET used == {s \in Slots : in_use[s]} IN
    /\ pending_tx = Cardinality(used)
    /\ {tx_descriptor[s] : s \in used} = Desc \ tx_queue.free
    /\ Cardinality(tx_queue.free) = VIRTQ_NUM - pending_tx

(* While the device works, every receive buffer is with the device, or in   *)
(* the completion ring once: none is lost, so reception cannot dry up       *)
(* (virtio_net.c:75-89, 561-597; design document:547-548).                  *)
ReceiveAccounted ==
  ~failed =>
    /\ IsInjective(rx_completions)
    /\ ToSet(rx_completions) = {s \in Slots : rx_state[s] = NET_RX_COMPLETED}
    /\ rx_queue.active = {rx_descriptor[s] : s \in {u \in Slots : rx_state[u] = NET_RX_POSTED}}
    /\ \A s \in Slots : rx_state[s] # 0

(* Both directions together. *)
RingsAccounted == TypeOK /\ TransmitAccounted /\ ReceiveAccounted

(* Nobody sleeps for what is already there or will never come: a sleeping   *)
(* sender has no slot, a sleeping receiver no frame, the device works and   *)
(* has not been reset since they went to sleep, and a completion in either  *)
(* ring has an interrupt or the handler coming, though the interrupt is     *)
(* acknowledged before the rings are drained and the receive ring before    *)
(* the transmit ring (virtio_net.c:226-229, 260-263, 297-303, 557-602;      *)
(* design document:552).                                                    *)
NobodyStranded ==
  /\ \A t \in Tasks :
       /\ pc[t] = "tx_sleep" => FreeTx = {}
       /\ pc[t] = "rx_sleep" => rx_completions = <<>>
       /\ pc[t] \in {"tx_sleep", "rx_sleep"} => active /\ generation[t] = resets
  /\ HasUsed(rx_queue) \/ HasUsed(tx_queue) => irq \/ intr # "idle" \/ failed

(* Frames reach the tasks once each and in the order they came in, from     *)
(* whatever buffers and over resets: a late frame is lost rather than       *)
(* repeated (virtio_net.c:305-331, 586-592).                                *)
FramesInOrder == [][last' # last => last' > last]_vars
=============================================================================
