-------------------------------- MODULE Tcp --------------------------------
(***************************************************************************)
(* The functions of kernel/src/net/tcp.c as operators on the state of one  *)
(* stack, a record s with                                                  *)
(*                                                                         *)
(*   pcbs      pcb_storage and pcbs[]: a control block per slot            *)
(*   detached  detached_listeners[]                                        *)
(*   iss, port next_iss and next_ephemeral                                 *)
(*   ip        the address of the interface                                *)
(*   sent      the segments handed to ipv4_out by the current function     *)
(*   notify    the notifications it still has to do, see Notify            *)
(*   err       its result                                                  *)
(*                                                                         *)
(* A function that may fail for want of memory, or because ipv4_out fails, *)
(* is a set of outcomes; the others are single records.  table_locker is   *)
(* held throughout each of them.  A timer is linked when its flag is set;  *)
(* the retransmission timer is linked exactly while a segment is           *)
(* outstanding.                                                            *)
(***************************************************************************)
EXTENDS Integers, Sequences, FiniteSets, SequencesExt

CONSTANTS PcbMax,     \* TCP_PCB_MAX
          AcceptMax,  \* TCP_ACCEPT_MAX
          RecvMax,    \* TCP_RECV_MAX
          Mss,        \* TCP_MSS
          RetryMax,   \* TCP_RETRY_MAX
          SeqSize,    \* sequence numbers are modulo SeqSize, 2^32 in the code
          IssStep,    \* what next_iss grows by, 64000
          Ports,      \* the number of ephemeral ports, 16384
          Faults      \* may buffers run out and ipv4_out fail

ASSUME TcpAssumption ==
  /\ {PcbMax, AcceptMax, RecvMax, Mss, RetryMax, IssStep, Ports} \subseteq Nat \ {0}
  /\ SeqSize \in Nat /\ SeqSize % 2 = 0 /\ SeqSize > 2 * Mss
  /\ Faults \in BOOLEAN

Slots == 1 .. PcbMax
None  == 0                    \* no slot, no port, the null pointer
NoPeer    == <<"any", None>>  \* an address and a port
NoSegment == [flags |-> {}]

FirstOf(S) == IF S = {} THEN None ELSE CHOOSE i \in S : \A j \in S : i <= j

(* Sequence numbers: unsigned addition, and (int32_t)(a - b) < 0. *)
Plus(a, n)   == (a + n) % SeqSize
Before(a, b) == (a - b) % SeqSize >= SeqSize \div 2

(* A block after memset.  state .. outstanding belong to the connection,     *)
(* queue .. pins to a listener and its children; waiters and sem hold the    *)
(* three counters of waiting tasks and the four semaphores.                  *)
ZeroPcb ==
  [opened |-> FALSE, socket_attached |-> FALSE, release_pending |-> FALSE,
   state |-> "CLOSED", bound |-> FALSE, local_port |-> None, remote |-> NoPeer,
   iss |-> 0, snd_una |-> 0, snd_nxt |-> 0, rcv_nxt |-> 0, window |-> 0,
   peer_fin_seen |-> FALSE, close_requested |-> FALSE, error |-> "OK",
   outstanding |-> NoSegment, outstanding_end |-> 0, retry_count |-> 0,
   recv |-> <<>>, terminal_notified |-> FALSE,
   time_wait_timer |-> FALSE, release_timer |-> FALSE,
   listener |-> None, accept_queue |-> [k \in 0 .. AcceptMax - 1 |-> None],
   accept_head |-> 0, accept_count |-> 0, pending_count |-> 0, backlog |-> 0,
   accept_waiters |-> 0, accept_pins |-> 0,
   waiters |-> [connect |-> 0, recv |-> 0, close |-> 0],
   sem |-> [connect |-> 0, recv |-> 0, close |-> 0, accept |-> 0]]

(* tcp_init *)
InitStack(ip, iss) ==
  [pcbs |-> [i \in Slots |-> ZeroPcb], detached |-> [i \in Slots |-> None],
   iss |-> iss, port |-> 0, ip |-> ip, sent |-> <<>>, notify |-> <<>>, err |-> "OK"]

-----------------------------------------------------------------------------
(* Outcomes *)

Return(s, err) == {[s EXCEPT !.err = err]}

(* What follows a call that may fail: F when it succeeded, and G, given the  *)
(* state in which it failed, when not.                                       *)
Call(S, F(_), G(_)) == UNION {IF s.err = "OK" THEN F(s) ELSE G(s) : s \in S}
Fails(s) == {s}
Then(S, F(_)) == Call(S, F, Fails)

(* The notifications of a function come behind its changes of the state, with *)
(* the locks of the block given back: they are collected here, and performed  *)
(* by Notify in steps of their own.  kind names the loop; n is a number of    *)
(* waiters that was read together with the change.                            *)
Later(s, i, kind, n) == [s EXCEPT !.notify = Append(@, [pcb |-> i, kind |-> kind, n |-> n])]

Max1(n) == IF n = 0 THEN 1 ELSE n
Post(p, k, n) == [p EXCEPT !.sem[k] = @ + n]

(* Mutant: the receivers are forgotten. *)
tcp_notify_terminal_norecv(p) ==
  IF p.terminal_notified THEN p
  ELSE Post(Post([p EXCEPT !.terminal_notified = TRUE],
                 "connect", Max1(p.waiters.connect)),
            "close", Max1(p.waiters.close))

tcp_notify_terminal(p) ==
  IF p.terminal_notified THEN p
  ELSE Post(Post(Post([p EXCEPT !.terminal_notified = TRUE],
                      "connect", Max1(p.waiters.connect)),
                 "recv", p.waiters.recv),
            "close", Max1(p.waiters.close))

NotifyPcb(p, m) ==
  CASE m.kind = "terminal" -> tcp_notify_terminal(p)
    [] m.kind \in {"connect", "close"} -> Post(p, m.kind, Max1(p.waiters[m.kind]))
    [] m.kind = "recv" -> Post(p, "recv", p.waiters.recv)
    [] m.kind = "accept" -> Post(p, "accept", m.n)
    [] m.kind = "closers" -> Post(p, "close", m.n)

(* The first notification due.  A block released behind it had no waiters,   *)
(* and its semaphores are gone.                                              *)
Notify(s) ==
  LET m == Head(s.notify)
  IN  [s EXCEPT !.notify = Tail(@),
                !.pcbs[m.pcb] = IF @.opened THEN NotifyPcb(@, m) ELSE @]

-----------------------------------------------------------------------------
(* Output *)

(* tcp_make_segment *)
tcp_make_segment(s, i, seq, ack, flags, data) ==
  LET p == s.pcbs[i]
  IN  [src |-> <<s.ip, p.local_port>>, dst |-> p.remote, seq |-> seq, ack |-> ack,
       flags |-> flags, window |-> RecvMax - Len(p.recv), data |-> data]

(* ipv4_out, behind the allocation of the buffer. *)
Output(s, g) ==
  {[s EXCEPT !.sent = Append(@, g)]} \cup (IF Faults THEN Return(s, "MEM") ELSE {})

tcp_output_owned(s, i) == Output(s, s.pcbs[i].outstanding)

tcp_send_ack(s, i) ==
  LET p == s.pcbs[i]
  IN  Output(s, tcp_make_segment(s, i, p.snd_nxt, p.rcv_nxt, {"ACK"}, <<>>))

tcp_clear_outstanding(p) == [p EXCEPT !.outstanding = NoSegment, !.outstanding_end = 0]

tcp_start_outstanding(s, i, g, end) ==
  LET owned  == [s EXCEPT !.pcbs[i].outstanding = g, !.pcbs[i].outstanding_end = end,
                          !.pcbs[i].retry_count = 0]
      clear(t) == {[t EXCEPT !.pcbs[i] = tcp_clear_outstanding(@)]}
  IN  Call(tcp_output_owned(owned, i), Fails, clear)

(* A segment of flags and data at snd_nxt; then what it occupies is counted. *)
Send(s, i, flags, data, end, state) ==
  LET p == s.pcbs[i]
  IN  Then(tcp_start_outstanding(s, i, tcp_make_segment(s, i, p.snd_nxt, p.rcv_nxt, flags, data), end),
           LAMBDA t : {[t EXCEPT !.pcbs[i].snd_nxt = end, !.pcbs[i].state = state]})

tcp_start_local_fin(s, i) ==
  LET p == s.pcbs[i]
  IN  IF ~p.opened \/ p.outstanding # NoSegment \/ p.state # "ESTABLISHED"
      THEN Return(s, "STATE")
      ELSE Send(s, i, {"FIN", "ACK"}, <<>>, Plus(p.snd_nxt, 1), "FIN_WAIT_1")

-----------------------------------------------------------------------------
(* Blocks: allocation, release, the children of a listener *)

tcp_reset_connection(p) ==
  [ZeroPcb EXCEPT !.opened = p.opened, !.socket_attached = p.socket_attached,
                  !.release_pending = p.release_pending, !.error = p.error,
                  !.outstanding = p.outstanding, !.recv = p.recv,
                  !.terminal_notified = p.terminal_notified,
                  !.time_wait_timer = p.time_wait_timer, !.release_timer = p.release_timer,
                  !.waiters = p.waiters, !.sem = p.sem]

tcp_alloc_locked(s, socket_attached) ==
  LET slot == FirstOf({i \in Slots : ~s.pcbs[i].opened})
  IN  IF slot = None THEN Return(s, "MEM")
      ELSE {[s EXCEPT !.pcbs[slot] = [ZeroPcb EXCEPT !.opened = TRUE,
                                                     !.socket_attached = socket_attached],
                      !.detached[slot] = None]}
           \cup (IF Faults THEN Return(s, "MEM") ELSE {})

tcp_listener_has_children_locked(s, l) ==
  \E i \in Slots : s.pcbs[i].opened /\ (s.pcbs[i].listener = l \/ s.detached[i] = l)

(* Mutant: tasks in recv, connect and close do not count. *)
Unused_waited(s, i) ==
  LET p == s.pcbs[i]
  IN  /\ p.release_pending
      /\ p.listener = None
      /\ p.accept_waiters = 0
      /\ p.accept_pins = 0
      /\ ~tcp_listener_has_children_locked(s, i)

(* What tcp_release_now_locked, tcp_release_proc, tcp_close and              *)
(* tcp_socket_detach ask for before a block goes back to the pool.           *)
Unused(s, i) ==
  LET p == s.pcbs[i]
  IN  /\ p.release_pending
      /\ p.listener = None
      /\ p.accept_waiters = 0
      /\ p.accept_pins = 0
      /\ \A k \in DOMAIN p.waiters : p.waiters[k] = 0
      /\ ~tcp_listener_has_children_locked(s, i)

tcp_release_now_locked(s, i) ==
  IF ~s.pcbs[i].opened THEN [s EXCEPT !.err = "PARAM"]
  ELSE IF Unused(s, i) /\ ~s.pcbs[i].socket_attached
       THEN [s EXCEPT !.pcbs[i] = ZeroPcb, !.detached[i] = None]
       ELSE [s EXCEPT !.err = "STATE"]

(* The callers that ignore its result. *)
Release(s, i) == [tcp_release_now_locked(s, i) EXCEPT !.err = s.err]

tcp_request_release(s, i) ==
  [s EXCEPT !.pcbs[i].release_pending = TRUE, !.pcbs[i].release_timer = TRUE]

(* Mutant: a child that goes stays in the ring. *)
tcp_listener_remove_queued_not(p, child) == p

(* The ring: the entries behind the one removed move up. *)
tcp_listener_remove_queued_locked(p, child) ==
  LET at(k)  == (p.accept_head + k) % AcceptMax
      found  == {k \in 0 .. p.accept_count - 1 : p.accept_queue[at(k)] = child}
      k0     == CHOOSE k \in found : \A j \in found : k <= j
      moved  == {at(k) : k \in k0 .. p.accept_count - 2}
  IN  IF found = {} THEN p
      ELSE [p EXCEPT !.accept_queue = [x \in DOMAIN @ |->
                                         IF x \in moved THEN @[(x + 1) % AcceptMax]
                                         ELSE IF x = at(p.accept_count - 1) THEN None
                                         ELSE @[x]],
                     !.accept_count = @ - 1]

Closed(p, error) ==
  [tcp_clear_outstanding(p) EXCEPT !.time_wait_timer = FALSE, !.error = error,
                                   !.state = "CLOSED", !.close_requested = FALSE]

tcp_listener_detach_child_locked(s, i, error) ==
  LET l == s.pcbs[i].listener
      unlink(p) == [tcp_listener_remove_queued_locked(p, i) EXCEPT
                      !.pending_count = IF @ > 0 THEN @ - 1 ELSE @]
  IN  IF l = None THEN s
      ELSE tcp_request_release(
             Later([s EXCEPT !.pcbs[l] = unlink(@),
                             !.pcbs[i] = [Closed(@, error) EXCEPT !.listener = None],
                             !.detached[i] = l],
                   i, "terminal", 0), i)

SlotSeq == [i \in Slots |-> i]

tcp_listener_cleanup_locked(s, l) ==
  LET detach(t, i)  == IF t.pcbs[i].opened /\ i # l /\ t.pcbs[i].listener = l
                       THEN tcp_listener_detach_child_locked(t, i, "STATE") ELSE t
      release(t, i) == IF t.pcbs[i].opened /\ t.detached[i] = l THEN Release(t, i) ELSE t
  IN  FoldLeft(release, FoldLeft(detach, s, SlotSeq), SlotSeq)

tcp_fail(s, i, error) ==
  LET t == Later([s EXCEPT !.pcbs[i] = Closed(@, error)], i, "terminal", 0)
  IN  [tcp_listener_detach_child_locked(t, i, error) EXCEPT !.err = error]

FailWith(s, i) == {tcp_fail(s, i, s.err)}

tcp_abort_and_release(s, i) ==
  tcp_request_release(Later([s EXCEPT !.pcbs[i] = Closed(@, "STATE")], i, "terminal", 0), i)

-----------------------------------------------------------------------------
(* The calls of the socket layer *)

(* tcp_bind and tcp_listen.  One listener at a time, whatever its port. *)
tcp_bind(s, i, port) ==
  LET p == s.pcbs[i]
  IN  IF p.release_pending \/ p.state # "CLOSED" \/ p.local_port # None
      THEN Return(s, "STATE")
      ELSE IF \E j \in Slots \ {i} : s.pcbs[j].opened /\ s.pcbs[j].local_port = port
      THEN Return(s, "EXIST")
      ELSE {[s EXCEPT !.pcbs[i].local_port = port, !.pcbs[i].bound = TRUE]}

tcp_listen(s, i, backlog) ==
  LET p == s.pcbs[i]
  IN  IF p.release_pending \/ p.state # "CLOSED" \/ p.local_port = None \/ ~p.bound
      THEN Return(s, "STATE")
      ELSE IF \E j \in Slots \ {i} : s.pcbs[j].opened /\ s.pcbs[j].state = "LISTEN"
      THEN Return(s, "EXIST")
      ELSE {[s EXCEPT !.pcbs[i] = [@ EXCEPT
               !.state = "LISTEN", !.backlog = backlog, !.sem.accept = 0,
               !.accept_queue = ZeroPcb.accept_queue, !.accept_head = 0,
               !.accept_count = 0, !.pending_count = 0, !.accept_waiters = 0]]}
           \cup (IF Faults THEN Return(s, "MEM") ELSE {})

(* tcp_choose_port: the next free port counting from next_ephemeral, which   *)
(* wraps back to Ephemeral.                                                  *)
Ephemeral == 49152
tcp_port_in_use(s, port) == \E i \in Slots : s.pcbs[i].opened /\ s.pcbs[i].local_port = port
Tries(s) == {k \in 0 .. Ports - 1 : ~tcp_port_in_use(s, Ephemeral + ((s.port + k) % Ports))}
tcp_choose_port(s) ==
  LET k == CHOOSE k \in Tries(s) : \A j \in Tries(s) : k <= j
  IN  [port |-> Ephemeral + ((s.port + k) % Ports), next |-> (s.port + k + 1) % Ports]

tcp_connect_start(s, i, remote) ==
  LET p == s.pcbs[i]
      choice == tcp_choose_port(s)
      fresh  == [tcp_reset_connection([p EXCEPT !.recv = <<>>,
                   !.sem = [@ EXCEPT !.connect = 0, !.recv = 0, !.close = 0]]) EXCEPT
                   !.error = "OK", !.terminal_notified = FALSE,
                   !.local_port = choice.port, !.remote = remote,
                   !.iss = s.iss, !.snd_una = s.iss, !.snd_nxt = Plus(s.iss, 1)]
      begun  == [s EXCEPT !.pcbs[i] = fresh, !.port = choice.next, !.iss = Plus(@, IssStep)]
      reset(t) == {[t EXCEPT !.pcbs[i] = tcp_reset_connection(@)]}
      syn_sent(t) == {[t EXCEPT !.pcbs[i].state = "SYN_SENT"]}
  IN  IF \/ p.release_pending \/ p.state # "CLOSED" \/ p.bound
         \/ p.outstanding # NoSegment \/ \E k \in DOMAIN p.waiters : p.waiters[k] # 0
      THEN Return(s, "STATE")
      ELSE IF Tries(s) = {} THEN Return(s, "FULL")
      ELSE Call(tcp_start_outstanding(begun, i,
                  tcp_make_segment(begun, i, s.iss, 0, {"SYN"}, <<>>), fresh.snd_nxt),
                syn_sent, reset)

tcp_send_start(s, i, data) ==
  LET p == s.pcbs[i]
  IN  IF p.state # "ESTABLISHED" THEN Return(s, "STATE")
      ELSE IF p.outstanding # NoSegment \/ p.window < Len(data) THEN Return(s, "FULL")
      ELSE Send(s, i, {"PSH", "ACK"}, data, Plus(p.snd_nxt, Len(data)), "ESTABLISHED")

tcp_close(s, i) ==
  LET p == s.pcbs[i]
      cleaned == IF p.state = "LISTEN" /\ p.accept_waiters = 0
                 THEN tcp_listener_cleanup_locked(s, i) ELSE s
      quiet   == /\ p.accept_waiters = 0 /\ p.accept_pins = 0 /\ ~p.socket_attached
                 /\ \A k \in DOMAIN p.waiters : p.waiters[k] = 0
      closing == Later(Later([s EXCEPT !.pcbs[i].close_requested = TRUE,
                                       !.pcbs[i].release_pending = TRUE],
                             i, "accept", p.accept_waiters),
                       i, "closers", p.waiters.close)
  IN  CASE p.listener # None -> {tcp_listener_detach_child_locked(s, i, "STATE")}
        [] p.listener = None /\ p.release_pending ->
             {IF quiet THEN tcp_release_now_locked(cleaned, i) ELSE cleaned}
        [] OTHER ->
             CASE p.state = "TIME_WAIT" -> {s}
               [] p.state = "LISTEN" ->
                    {tcp_request_release(
                       IF p.accept_waiters = 0 THEN tcp_listener_cleanup_locked(closing, i)
                       ELSE closing, i)}
               [] p.state \in {"CLOSED", "SYN_SENT", "SYN_RECEIVED", "FIN_WAIT_1", "FIN_WAIT_2"} ->
                    {tcp_abort_and_release(s, i)}
               [] p.state = "ESTABLISHED" ->
                    IF p.outstanding # NoSegment
                    THEN {[s EXCEPT !.pcbs[i].close_requested = TRUE]}
                    ELSE Send(s, i, {"FIN", "ACK"}, <<>>, Plus(p.snd_nxt, 1), "FIN_WAIT_1")

tcp_socket_detach(s, i) ==
  IF s.pcbs[i].socket_attached /\ Unused(s, i)
  THEN {tcp_release_now_locked([s EXCEPT !.pcbs[i].socket_attached = FALSE], i)}
  ELSE Return(s, "STATE")

(* tcp_wait_connect_acquire (k = "connect") and tcp_wait_close_acquire. *)
tcp_wait_completion_acquire(s, i, k) ==
  LET p == s.pcbs[i]
      ended == p.release_pending /\ p.state \in {"CLOSED", "LISTEN"}
      wait  == {[s EXCEPT !.pcbs[i].waiters[k] = @ + 1]}
  IN  IF k = "close" /\ ended THEN wait
      ELSE IF p.release_pending THEN Return(s, "STATE")
      ELSE IF p.error # "OK" THEN Return(s, p.error)
      ELSE IF IF k = "connect" THEN p.state \in {"SYN_SENT", "ESTABLISHED"}
              ELSE \/ p.state \in {"FIN_WAIT_1", "FIN_WAIT_2", "TIME_WAIT"}
                   \/ p.state = "ESTABLISHED" /\ p.close_requested
           THEN wait
           ELSE Return(s, "STATE")

(* What tcp_wait_completion_acquired returns without waiting, "NONE" if it   *)
(* has to wait.                                                              *)
Immediate(p, k) ==
  IF k = "close" /\ p.state \in {"CLOSED", "LISTEN"} /\ p.release_pending THEN "OK"
  ELSE IF p.error # "OK" THEN p.error
  ELSE IF k = "connect" /\ p.state = "ESTABLISHED" THEN "OK"
  ELSE "NONE"

tcp_recv_acquire(s, i) ==
  LET p == s.pcbs[i]
  IN  IF p.release_pending THEN Return(s, "STATE")
      ELSE IF p.state \notin {"SYN_SENT", "ESTABLISHED", "FIN_WAIT_1", "FIN_WAIT_2"}
      THEN Return(s, IF p.error # "OK" THEN p.error ELSE "STATE")
      ELSE {[s EXCEPT !.pcbs[i].waiters.recv = @ + 1]}

(* tcp_recv_bytes_acquired with data in the buffer: the token of the data is *)
(* taken, and given back when some data is left.                             *)
Taken(n) == IF n = 0 THEN 0 ELSE n - 1
tcp_take_bytes(p, size) ==
  LET copied == IF size < Len(p.recv) THEN size ELSE Len(p.recv)
  IN  [p EXCEPT !.recv = SubSeq(@, copied + 1, Len(@)),
                !.sem.recv = Taken(@) + (IF copied < Len(p.recv) THEN 1 ELSE 0)]

(* The condition under which it gives up with an empty buffer. *)
RecvTerminal(p) ==
  p.error # "OK" \/ p.release_pending \/ ~p.opened \/ p.state \in {"CLOSED", "TIME_WAIT"}

(* tcp_accept_acquire, and the four calls that come behind it.  A task that  *)
(* acquired counts in accept_waiters, one that peeked also in accept_pins.   *)
tcp_accept_acquire(s, l) ==
  IF s.pcbs[l].release_pending \/ s.pcbs[l].state # "LISTEN" THEN Return(s, "STATE")
  ELSE {[s EXCEPT !.pcbs[l].accept_waiters = @ + 1]}

AcceptHead(s, l) == s.pcbs[l].accept_queue[s.pcbs[l].accept_head]

Acceptable(s, l, c) ==
  /\ s.pcbs[c].opened
  /\ ~s.pcbs[c].release_pending
  /\ s.pcbs[c].listener = l
  /\ s.pcbs[c].state = "ESTABLISHED"

(* One round of tcp_accept_peek_acquired; "EMPTY" sends it to sys_sem_wait. *)
tcp_accept_peek_acquired(s, l) ==
  LET p == s.pcbs[l]
  IN  IF p.state # "LISTEN" \/ p.release_pending \/ p.accept_waiters <= 0 THEN Return(s, "STATE")
      ELSE IF p.accept_count = 0 THEN Return(s, "EMPTY")
      ELSE IF ~Acceptable(s, l, AcceptHead(s, l)) THEN Return(s, "STATE")
      ELSE {[s EXCEPT !.pcbs[AcceptHead(s, l)].accept_pins = @ + 1]}

tcp_accept_commit_acquired(s, l, c) ==
  LET p == s.pcbs[l]
  IN  IF /\ p.opened /\ ~p.release_pending /\ p.state = "LISTEN" /\ p.accept_waiters > 0
         /\ p.accept_count > 0 /\ AcceptHead(s, l) = c
         /\ Acceptable(s, l, c) /\ ~s.pcbs[c].socket_attached /\ s.pcbs[c].accept_pins > 0
      THEN {[s EXCEPT !.pcbs[c].accept_pins = @ - 1, !.pcbs[c].socket_attached = TRUE,
                      !.pcbs[c].listener = None,
                      !.detached[c] = IF s.pcbs[c].accept_pins > 1 THEN l ELSE None,
                      !.pcbs[l].accept_queue[p.accept_head] = None,
                      !.pcbs[l].accept_head = (@ + 1) % AcceptMax,
                      !.pcbs[l].accept_count = @ - 1, !.pcbs[l].pending_count = @ - 1,
                      !.pcbs[l].accept_waiters = @ - 1]}
      ELSE Return(s, "STATE")

(* An acceptor leaves; the others learn of a child that is still queued. *)
LeaveAccept(s, l) ==
  LET p == s.pcbs[l]
  IN  [s EXCEPT !.pcbs[l].accept_waiters = @ - 1,
                !.pcbs[l].sem.accept = IF p.accept_count # 0 /\ ~p.release_pending
                                       THEN @ + 1 ELSE @]

tcp_accept_release_acquired(s, l) ==
  LET p == s.pcbs[l]
  IN  IF ~p.opened THEN Return(s, "PARAM")
      ELSE IF p.accept_waiters <= 0 \/ p.state # "LISTEN" THEN Return(s, "STATE")
      ELSE {LeaveAccept(s, l)}

tcp_accept_release_child_acquired(s, l, c) ==
  LET p == s.pcbs[l]
      q == s.pcbs[c]
  IN  IF ~p.opened \/ ~q.opened THEN Return(s, "PARAM")
      ELSE IF \/ p.accept_waiters <= 0 \/ p.state # "LISTEN"
              \/ ~(q.listener = l \/ s.detached[c] = l) \/ q.accept_pins <= 0
      THEN Return(s, "STATE")
      ELSE {LeaveAccept([s EXCEPT !.pcbs[c].accept_pins = @ - 1,
                                  !.detached[c] = IF q.accept_pins = 1 /\ q.socket_attached
                                                  THEN None ELSE @], l)}

-----------------------------------------------------------------------------
(* Input *)

tcp_find_pcb(s, g) ==
  FirstOf({i \in Slots : /\ s.pcbs[i].opened
                         /\ s.pcbs[i].local_port = g.dst[2]
                         /\ s.pcbs[i].remote = g.src})

tcp_find_listener(s, g) ==
  FirstOf({i \in Slots : /\ s.pcbs[i].opened /\ ~s.pcbs[i].release_pending
                         /\ s.pcbs[i].state = "LISTEN"
                         /\ s.pcbs[i].local_port = g.dst[2]})

tcp_passive_syn(s, l, g) ==
  LET p == s.pcbs[l]
      c == FirstOf({i \in Slots : ~s.pcbs[i].opened})
      child(t) == [t EXCEPT !.pcbs[c] = [@ EXCEPT
                     !.listener = l, !.local_port = p.local_port, !.remote = g.src,
                     !.iss = s.iss, !.snd_una = s.iss, !.snd_nxt = Plus(s.iss, 1),
                     !.rcv_nxt = Plus(g.seq, 1), !.window = g.window,
                     !.state = "SYN_RECEIVED"],
                   !.iss = Plus(@, IssStep), !.pcbs[l].pending_count = @ + 1]
      answer(t) == tcp_start_outstanding(t, c,
                     tcp_make_segment(t, c, t.pcbs[c].iss, t.pcbs[c].rcv_nxt, {"SYN", "ACK"}, <<>>),
                     t.pcbs[c].snd_nxt)
      undo(t)   == {tcp_listener_detach_child_locked(t, c, t.err)}
  IN  IF p.release_pending \/ p.pending_count >= p.backlog THEN Return(s, "FULL")
      ELSE Then(tcp_alloc_locked(s, FALSE), LAMBDA t : Call(answer(child(t)), Fails, undo))

(* Mutant: any acknowledgement will do. *)
Completes_any(p, ack) == p.outstanding # NoSegment

(* Only an acknowledgement of the whole outstanding segment counts. *)
Completes(p, ack) == p.outstanding # NoSegment /\ ack = p.outstanding_end

tcp_accept_ack(s, i, ack) ==
  LET p == s.pcbs[i]
      complete  == Completes(p, ack)
      start_fin == complete /\ p.close_requested /\ p.state = "ESTABLISHED"
      closes    == complete /\ p.state = "FIN_WAIT_1"
      acked     == [s EXCEPT !.pcbs[i] = tcp_clear_outstanding([@ EXCEPT
                     !.snd_una = ack,
                     !.close_requested = IF start_fin THEN FALSE ELSE @,
                     !.state = IF ~closes THEN @
                               ELSE IF p.peer_fin_seen THEN "TIME_WAIT" ELSE "FIN_WAIT_2",
                     !.peer_fin_seen = IF closes THEN FALSE ELSE @])]
  IN  IF Before(ack, p.snd_una) \/ Before(p.snd_nxt, ack) THEN Return(s, "STATE")
      ELSE IF ~complete THEN {s}
      ELSE IF ~start_fin THEN {acked}
      ELSE Call(tcp_start_local_fin(acked, i), Fails, LAMBDA t : FailWith(t, i))

tcp_queue_data(s, i, g) ==
  LET p == s.pcbs[i]
  IN  IF Len(g.data) > Mss THEN Return(s, "SIZE")
      ELSE IF Len(g.data) > RecvMax - Len(p.recv) THEN Return(s, "FULL")
      ELSE {[s EXCEPT !.pcbs[i].recv = @ \o g.data,
                      !.pcbs[i].sem.recv = IF p.recv = <<>> THEN @ + 1 ELSE @]}

(* Mutant: the timer is not started. *)
tcp_arm_time_wait_untimed(s, i) ==
  Later([s EXCEPT !.pcbs[i].peer_fin_seen = FALSE], i, "recv", 0)

(* tcp_arm_time_wait: only called in TIME_WAIT. *)
tcp_arm_time_wait(s, i) ==
  Later([s EXCEPT !.pcbs[i].peer_fin_seen = FALSE, !.pcbs[i].time_wait_timer = TRUE], i, "recv", 0)

(* The parts of tcp_in, by the state the segment meets. *)
tcp_in_time_wait(s, i, g) ==
  LET p == s.pcbs[i]
      fin_seq == Plus(g.seq, Len(g.data))
  IN  IF \/ ~({"FIN", "ACK"} \subseteq g.flags) \/ "SYN" \in g.flags
         \/ fin_seq # p.rcv_nxt /\ Plus(fin_seq, 1) # p.rcv_nxt
      THEN Return(s, "STATE")
      ELSE Then(tcp_accept_ack(s, i, g.ack), LAMBDA t :
           Then(tcp_send_ack(t, i), LAMBDA u : {[u EXCEPT !.pcbs[i].time_wait_timer = TRUE]}))

tcp_state_accept_ack(p, ack) == p.state = "SYN_SENT" /\ ack = Plus(p.iss, 1)

tcp_in_syn_sent(s, i, g) ==
  LET p == s.pcbs[i]
      agreed == [s EXCEPT !.pcbs[i] = tcp_clear_outstanding([@ EXCEPT
                   !.window = g.window, !.snd_una = g.ack, !.rcv_nxt = Plus(g.seq, 1)])]
      established(t) == {Later([t EXCEPT !.pcbs[i].state = "ESTABLISHED"], i, "connect", 0)}
  IN  IF g.data # <<>> THEN Return(s, "FORMAT")
      ELSE IF g.flags # {"SYN", "ACK"} \/ ~tcp_state_accept_ack(p, g.ack) THEN Return(s, "STATE")
      ELSE Call(tcp_send_ack(agreed, i), established, LAMBDA t : FailWith(t, i))

(* Mutant: the number the acknowledgement carries is not looked at. *)
HandshakeAck_any(p, g) == g.flags = {"ACK"} /\ g.seq = p.rcv_nxt

HandshakeAck(p, g) == g.flags = {"ACK"} /\ g.seq = p.rcv_nxt /\ g.ack = Plus(p.iss, 1)

tcp_in_syn_received(s, i, g) ==
  LET p == s.pcbs[i]
      l == p.listener
      established == [s EXCEPT !.pcbs[i] = tcp_clear_outstanding([@ EXCEPT
                        !.snd_una = g.ack, !.window = g.window, !.state = "ESTABLISHED"])]
      tail == (s.pcbs[l].accept_head + s.pcbs[l].accept_count) % AcceptMax
  IN  IF g.data # <<>> THEN Return(s, "FORMAT")
      ELSE IF g.flags = {"SYN"} /\ Plus(g.seq, 1) = p.rcv_nxt /\ g.ack = 0
      THEN Call(tcp_output_owned(s, i), Fails, LAMBDA t : FailWith(t, i))
      ELSE IF ~HandshakeAck(p, g) THEN Return(s, "STATE")
      ELSE IF l = None THEN {tcp_fail(established, i, "STATE")}
      ELSE IF s.pcbs[l].release_pending \/ s.pcbs[l].accept_count >= AcceptMax
      THEN {tcp_fail(established, i, "STATE")}
      ELSE {Later([established EXCEPT !.pcbs[l].accept_queue[tail] = i,
                                      !.pcbs[l].accept_count = @ + 1], l, "accept", 1)}

(* The FIN of a segment whose data has been dealt with. *)
tcp_in_fin(s, i, g) ==
  LET p == s.pcbs[i]
      seen(t) == [t EXCEPT !.pcbs[i].peer_fin_seen = TRUE]
      fail(t) == FailWith(t, i)
      next(t) ==
        CASE p.state = "FIN_WAIT_2" ->
               {tcp_arm_time_wait([t EXCEPT !.pcbs[i].state = "TIME_WAIT"], i)}
          [] p.state = "FIN_WAIT_1" -> {seen(t)}
          [] p.state = "ESTABLISHED" ->
               IF p.listener # None THEN {tcp_listener_detach_child_locked(t, i, "STATE")}
               ELSE IF p.outstanding # NoSegment
               THEN {[seen(t) EXCEPT !.pcbs[i].close_requested = TRUE]}
               ELSE Call(tcp_start_local_fin(seen(t), i), Fails, fail)
          [] OTHER -> {t}
  IN  IF Plus(g.seq, Len(g.data)) = p.rcv_nxt
      THEN Call(tcp_send_ack([s EXCEPT !.pcbs[i].rcv_nxt = Plus(@, 1)], i), next, fail)
      ELSE IF g.data = <<>> THEN tcp_send_ack(s, i)
      ELSE {s}

(* Mutant: data is taken whatever its sequence number. *)
InSequence_any(p, g) == g.data # <<>>

InSequence(p, g) == g.data # <<>> /\ g.seq = p.rcv_nxt

(* ESTABLISHED, FIN_WAIT_1 and FIN_WAIT_2: acknowledgement, data, FIN. *)
tcp_in_synchronized(s, i, g) ==
  LET windowed(t) == [t EXCEPT !.pcbs[i].window = g.window]
      queued(t) ==
        IF InSequence(t.pcbs[i], g)
        THEN Then(tcp_queue_data(t, i, g), LAMBDA u :
               {[u EXCEPT !.pcbs[i].rcv_nxt = Plus(@, Len(g.data))]})
        ELSE {t}
      answered(t) == IF g.data # <<>> THEN tcp_send_ack(t, i) ELSE {t}
      fin(t) == IF "FIN" \in g.flags THEN tcp_in_fin(t, i, g) ELSE {t}
  IN  IF "ACK" \notin g.flags \/ "SYN" \in g.flags THEN Return(s, "STATE")
      ELSE Then(tcp_accept_ack(s, i, g.ack), LAMBDA t :
             IF t.pcbs[i].state = "TIME_WAIT" THEN {tcp_arm_time_wait(t, i)}
             ELSE Then(Then(queued(windowed(t)), answered), fin))

tcp_in(s, g) ==
  LET i == tcp_find_pcb(s, g)
      l == tcp_find_listener(s, g)
      state == s.pcbs[i].state
  IN  IF i # None
      THEN CASE state = "TIME_WAIT" -> tcp_in_time_wait(s, i, g)
             [] state = "SYN_SENT" -> tcp_in_syn_sent(s, i, g)
             [] state = "SYN_RECEIVED" -> tcp_in_syn_received(s, i, g)
             [] state \in {"ESTABLISHED", "FIN_WAIT_1", "FIN_WAIT_2"} ->
                  tcp_in_synchronized(s, i, g)
             [] OTHER -> Return(s, "STATE")
      ELSE IF l = None THEN Return(s, "UNREACH")
      ELSE IF g.data # <<>> \/ g.flags # {"SYN"} THEN Return(s, "STATE")
      ELSE tcp_passive_syn(s, l, g)

-----------------------------------------------------------------------------
(* Timers.  Each is guarded by its timer being linked. *)

tcp_retransmit_due(s, i) ==
  LET p == s.pcbs[i]
      again(t) == IF p.retry_count + 1 >= RetryMax
                  THEN {tcp_fail([t EXCEPT !.pcbs[i].retry_count = @ + 1], i, "TMO")}
                  ELSE {[t EXCEPT !.pcbs[i].retry_count = @ + 1]}
  IN  Call(tcp_output_owned(s, i), again, LAMBDA t : FailWith(t, i))

tcp_time_wait_proc(s, i) ==
  LET p == s.pcbs[i]
      fired == [s EXCEPT !.pcbs[i].time_wait_timer = FALSE]
  IN  IF p.opened /\ p.state = "TIME_WAIT" /\ ~p.release_pending
      THEN tcp_request_release(
             Later([fired EXCEPT !.pcbs[i].state = "CLOSED", !.pcbs[i].error = "OK"],
                   i, "close", 0), i)
      ELSE fired

tcp_release_proc(s, i) ==
  LET p == s.pcbs[i]
  IN  Release(IF p.release_pending /\ p.state = "LISTEN" /\ p.accept_waiters = 0
              THEN tcp_listener_cleanup_locked(s, i) ELSE s, i)
=============================================================================
