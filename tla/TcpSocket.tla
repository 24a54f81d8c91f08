----------------------------- MODULE TcpSocket -----------------------------
(***************************************************************************)
(* The TCP sockets of one machine: the table of kernel/src/net/socket.c,   *)
(* the system calls on it and the waiting that tcp.c does for them, around *)
(* one stack of Tcp whose peers may send anything that fits.               *)
(*                                                                         *)
(* Tasks run the system calls.  The calls that change the protocol go      *)
(* through net_exec and are single steps of the network thread, which also *)
(* reads segments and runs timers.  The waits run in the task: acquire     *)
(* under table_locker, then look, sleep on a semaphore, and leave, with    *)
(* only the locks of the block.  The network thread holds table_locker     *)
(* until its notifications are done, so everything that takes table_locker *)
(* waits for notify to be empty.                                           *)
(***************************************************************************)
EXTENDS Tcp

CONSTANTS Tasks,        \* the tasks that use sockets
          SocketMax,    \* NET_SOCKET_MAX
          GenMax,       \* the last generation of an entry, 0x7fffff
          Remotes,      \* the addresses and ports peers use
          Listening,    \* does the first socket listen in the initial state
          MaxSegments,  \* bound: segments that arrive
          MaxTokens     \* bound: tokens left over on accept_done when a task enters accept

ASSUME SocketAssumption == SocketMax \in 1 .. 256 /\ GenMax \in Nat \ {0}

Entries == 1 .. SocketMax
Handles == Entries \X (1 .. GenMax)
Service == 80

VARIABLES
  stack,     \* the state of Tcp
  entries,   \* entries[]
  task,      \* what a task is doing
  arrivals,  \* how many segments may still arrive
  unpinned   \* history: a block was connected again under an acceptor's pin

vars == <<stack, entries, task, arrivals, unpinned>>

(* op is the call that waits; child is the block an acceptor has pinned;     *)
(* shared, a history, says that a call of recv has met another one in its    *)
(* block.                                                                    *)
Idle == [pc |-> "idle", op |-> "none", handle |-> <<1, 1>>, pcb |-> None, child |-> None,
         shared |-> FALSE]

FreeEntry == [used |-> FALSE, closing |-> FALSE, generation |-> 1, retired |-> FALSE, tcp |-> None]

(* net_socket_init; with Listening, the first socket has been opened, bound   *)
(* and told to listen.                                                       *)
Listener ==
  LET only(S) == CHOOSE s \in S : s.err = "OK"
  IN  only(tcp_listen(only(tcp_bind(only(tcp_alloc_locked(InitStack("here", 0), TRUE)),
                                    1, Service)), 1, AcceptMax))

Init ==
  /\ stack = IF Listening THEN Listener ELSE InitStack("here", 0)
  /\ entries = [e \in Entries |-> IF Listening /\ e = 1
                                  THEN [FreeEntry EXCEPT !.used = TRUE, !.tcp = 1] ELSE FreeEntry]
  /\ task = [t \in Tasks |-> Idle]
  /\ arrivals = MaxSegments
  /\ unpinned = FALSE

-----------------------------------------------------------------------------
(* The table of sockets *)

socket_find_used(h) == entries[h[1]].used /\ entries[h[1]].generation = h[2]
socket_find(h) == socket_find_used(h) /\ ~entries[h[1]].closing
PcbOf(h) == entries[h[1]].tcp

Free == FirstOf({e \in Entries : ~entries[e].used /\ ~entries[e].retired})

Take(e, i) == [entries EXCEPT ![e] = [@ EXCEPT !.used = TRUE, !.closing = FALSE, !.tcp = i]]

(* Mutant: the entry is kept. *)
socket_invalidate_not(e) == [entries EXCEPT ![e].closing = FALSE]

socket_invalidate(e) ==
  [entries EXCEPT ![e] = [@ EXCEPT !.tcp = None, !.used = FALSE, !.closing = FALSE,
                                   !.retired = (@ \/ entries[e].generation = GenMax),
                                   !.generation = IF @ = GenMax THEN @ ELSE @ + 1]]

TableFree == stack.notify = <<>>

(* What leaves for the network is not looked at here. *)
Becomes(s) == stack' = [s EXCEPT !.sent = <<>>, !.err = "OK"]

(* A call of the network thread whose outcomes are S; it changes no entry. *)
Exec(S) ==
  /\ TableFree
  /\ \E s \in S : Becomes(s)
  /\ UNCHANGED <<entries, arrivals, unpinned>>

(* Calls that leave everything as it was are not shown. *)
Effective(S) == {s \in S : [s EXCEPT !.err = "OK"] # stack}

-----------------------------------------------------------------------------
(* The calls the network thread runs: socket_exec *)

net_socket_open(t) ==
  /\ task[t] = Idle /\ TableFree /\ Free # None
  /\ \E s \in tcp_alloc_locked(stack, TRUE) :
       /\ s.err = "OK"
       /\ Becomes(s)
       /\ entries' = Take(Free, FirstOf({i \in Slots : ~stack.pcbs[i].opened}))
  /\ UNCHANGED <<task, arrivals, unpinned>>

net_socket_bind(t, h) ==
  /\ task[t] = Idle /\ socket_find(h)
  /\ Exec(Effective(tcp_bind(stack, PcbOf(h), Service)))
  /\ UNCHANGED task

net_socket_listen(t, h) ==
  /\ task[t] = Idle /\ socket_find(h)
  /\ \E backlog \in 1 .. AcceptMax : Exec(Effective(tcp_listen(stack, PcbOf(h), backlog)))
  /\ UNCHANGED task

net_socket_send(t, h) ==
  /\ task[t] = Idle /\ socket_find(h)
  /\ Exec(Effective(tcp_send_start(stack, PcbOf(h), <<0>>)))
  /\ UNCHANGED task

(* __sys_connect: a connection that was begun is waited for.  The pins of a  *)
(* block that is connected again are cleared.                                *)
net_socket_connect_start(t, h) ==
  /\ task[t] = Idle /\ socket_find(h) /\ TableFree
  /\ \E r \in Remotes : \E s \in Effective(tcp_connect_start(stack, PcbOf(h), r)) :
       /\ Becomes(s)
       /\ task' = [task EXCEPT ![t] = IF s.err = "OK"
                     THEN [Idle EXCEPT !.pc = "acquire", !.op = "connect", !.handle = h] ELSE @]
       /\ unpinned' = (unpinned \/ stack.pcbs[PcbOf(h)].accept_pins > s.pcbs[PcbOf(h)].accept_pins)
  /\ UNCHANGED <<entries, arrivals>>

(* net_socket_close and socket_close_tcp: the first call starts the close,   *)
(* the later ones end it when nobody uses the block any more.  __sys_close   *)
(* waits between two of them, and returns at an error.                       *)
CloseOutcomes(h) ==
  LET i == PcbOf(h)
      first(s) == {[stack |-> s, closing |-> s.err = "OK", done |-> FALSE,
                    more |-> s.err = "OK"]}
      later(s) == IF s.err # "OK" THEN {[stack |-> s, closing |-> TRUE, done |-> FALSE, more |-> FALSE]}
                  ELSE {[stack |-> u, closing |-> TRUE, done |-> u.err = "OK",
                         more |-> u.err = "STATE"] : u \in tcp_socket_detach(s, i)}
  IN  UNION {IF entries[h[1]].closing THEN later(s) ELSE first(s) : s \in tcp_close(stack, i)}

net_socket_close(t, h) ==
  /\ \/ task[t] = Idle
     \/ task[t].pc = "close" /\ task[t].handle = h
  /\ TableFree
  /\ IF socket_find_used(h)
     THEN \E c \in CloseOutcomes(h) :
            /\ Becomes(c.stack)
            /\ entries' = IF c.done THEN socket_invalidate(h[1])
                          ELSE [entries EXCEPT ![h[1]].closing = c.closing]
            /\ task' = [task EXCEPT ![t] = IF c.more
                          THEN [Idle EXCEPT !.pc = "acquire", !.op = "close", !.handle = h]
                          ELSE Idle]
     ELSE task' = [task EXCEPT ![t] = Idle] /\ UNCHANGED <<stack, entries>>
  /\ UNCHANGED <<arrivals, unpinned>>

-----------------------------------------------------------------------------
(* The waits: each begins with an acquire under socket_locker *)

Enters(t, S, op, h, back) ==
  /\ TableFree
  /\ \E s \in S :
       /\ Becomes(s)
       /\ task' = [task EXCEPT ![t] = IF s.err = "OK"
                     THEN [Idle EXCEPT !.pc = "look", !.op = op, !.handle = h, !.pcb = PcbOf(h)]
                     ELSE back]
  /\ UNCHANGED <<entries, arrivals, unpinned>>

net_socket_recv(t, h) ==
  LET inside == {u \in Tasks : task[u].op = "recv" /\ task[u].pcb = PcbOf(h)}
      entered == [u \in Tasks |->
        CASE u = t -> [Idle EXCEPT !.pc = "look", !.op = "recv", !.handle = h, !.pcb = PcbOf(h),
                                   !.shared = inside # {}]
          [] u \in inside -> [task[u] EXCEPT !.shared = TRUE]
          [] OTHER -> task[u]]
  IN  /\ task[t] = Idle /\ socket_find(h) /\ TableFree
      /\ \E s \in tcp_recv_acquire(stack, PcbOf(h)) :
           s.err = "OK" /\ Becomes(s) /\ task' = entered
      /\ UNCHANGED <<entries, arrivals, unpinned>>

net_socket_accept_prepare(t, h) ==
  /\ task[t] = Idle /\ socket_find(h)
  /\ stack.pcbs[PcbOf(h)].sem.accept <= MaxTokens
  /\ Enters(t, Effective(tcp_accept_acquire(stack, PcbOf(h))), "accept", h, Idle)

(* net_socket_wait_connect, and net_socket_wait_close, behind which           *)
(* __sys_close calls net_socket_close again.                                  *)
Again(t, h) == [Idle EXCEPT !.pc = "close", !.handle = h]

net_socket_wait(t) ==
  LET h    == task[t].handle
      k    == task[t].op
      back == IF k = "close" THEN Again(t, h) ELSE Idle
  IN  /\ task[t].pc = "acquire"
      /\ IF IF k = "connect" THEN socket_find(h) ELSE socket_find_used(h) /\ entries[h[1]].closing
         THEN Enters(t, tcp_wait_completion_acquire(stack, PcbOf(h), k), k, h, back)
         ELSE TableFree /\ task' = [task EXCEPT ![t] = back] /\ UNCHANGED <<stack, entries, arrivals, unpinned>>

(* Only the block and the task change. *)
Moves(t, p, pc) ==
  /\ stack' = [stack EXCEPT !.pcbs[task[t].pcb] = p]
  /\ task' = [task EXCEPT ![t].pc = pc]
  /\ UNCHANGED <<entries, arrivals, unpinned>>

At(t, op, pc) == task[t].op = op /\ task[t].pc = pc
Mine(t) == stack.pcbs[task[t].pcb]

(* tcp_recv_bytes_acquired: data is taken under recv_locker ... *)
RecvLook(t) ==
  /\ At(t, "recv", "look")
  /\ IF Mine(t).recv # <<>>
     THEN \E size \in 1 .. RecvMax : Moves(t, tcp_take_bytes(Mine(t), size), "leave")
     ELSE Moves(t, Mine(t), "check")

(* ... without data, the state is looked at under state_locker ... *)
RecvCheck(t) ==
  /\ At(t, "recv", "check")
  /\ Moves(t, Mine(t), IF RecvTerminal(Mine(t)) THEN "poll" ELSE "sleep")

(* ... at the end of the connection a token is taken if there is one ... *)
RecvPoll(t) ==
  /\ At(t, "recv", "poll")
  /\ Moves(t, [Mine(t) EXCEPT !.sem.recv = Taken(@)], "leave")

(* ... otherwise sys_sem_wait, also that of the other waits. *)
sys_sem_wait(t) ==
  /\ task[t].pc = "sleep"
  /\ Mine(t).sem[task[t].op] > 0
  /\ Moves(t, [Mine(t) EXCEPT !.sem[task[t].op] = @ - 1],
           IF task[t].op \in {"recv", "accept"} THEN "look" ELSE "leave")

(* tcp_wait_completion_acquired *)
CompletionLook(t) ==
  /\ task[t].op \in {"connect", "close"} /\ task[t].pc = "look"
  /\ Moves(t, Mine(t), IF Immediate(Mine(t), task[t].op) = "NONE" THEN "sleep" ELSE "leave")

(* The counter goes down under state_locker and the call returns. *)
Leave(t) ==
  /\ task[t].pc = "leave"
  /\ stack' = [stack EXCEPT !.pcbs[task[t].pcb].waiters[task[t].op] = @ - 1]
  /\ task' = [task EXCEPT ![t] = IF task[t].op = "close" THEN Again(t, task[t].handle) ELSE Idle]
  /\ UNCHANGED <<entries, arrivals, unpinned>>

(* socket_accept_abort_locked, whose results are not looked at. *)
Aborted(t, s) ==
  LET l == task[t].pcb
      c == task[t].child
  IN  IF c # None THEN tcp_accept_release_child_acquired(s, l, c)
      ELSE tcp_accept_release_acquired(s, l)

Aborts(t) == Exec(Aborted(t, stack)) /\ task' = [task EXCEPT ![t] = Idle]

(* tcp_accept_peek_acquired: the head of the queue is pinned, not taken. *)
AcceptLook(t) ==
  /\ At(t, "accept", "look") /\ TableFree
  /\ \E s \in tcp_accept_peek_acquired(stack, task[t].pcb) :
       CASE s.err = "EMPTY" -> Moves(t, Mine(t), "sleep")
         [] s.err = "STATE" -> Moves(t, Mine(t), "abort")
         [] s.err = "OK" ->
              /\ Becomes(s)
              /\ task' = [task EXCEPT ![t].pc = "commit",
                                      ![t].child = AcceptHead(stack, task[t].pcb)]
              /\ UNCHANGED <<entries, arrivals, unpinned>>

net_socket_accept_commit(t) ==
  LET l == task[t].pcb
      c == task[t].child
  IN  /\ At(t, "accept", "commit") /\ TableFree
      /\ IF socket_find(task[t].handle) /\ PcbOf(task[t].handle) = l /\ Free # None
         THEN \E s \in tcp_accept_commit_acquired(stack, l, c) :
                IF s.err = "OK"
                THEN /\ Becomes(s)
                     /\ entries' = Take(Free, c)
                     /\ task' = [task EXCEPT ![t] = Idle]
                     /\ UNCHANGED <<arrivals, unpinned>>
                ELSE Aborts(t)
         ELSE Aborts(t)

(* The address of the peer could not be written, or nothing was pinned. *)
net_socket_accept_abort(t) ==
  /\ task[t].op = "accept" /\ task[t].pc \in {"commit", "abort"}
  /\ Aborts(t)

-----------------------------------------------------------------------------
(* The network thread *)

(* Segments that make a difference: a SYN for a service, and for a block     *)
(* what a peer may send next, or may have sent before.                       *)
ToBlock(p) ==
  [src : {p.remote}, dst : {<<stack.ip, p.local_port>>},
   seq : {p.rcv_nxt, (p.rcv_nxt - 1) % SeqSize}, ack : {p.snd_nxt, p.snd_una},
   flags : {{"ACK"}, {"SYN", "ACK"}, {"FIN", "ACK"}}, window : {1}, data : {<<>>, <<0>>}]

Syn == [src : Remotes, dst : {<<stack.ip, Service>>}, seq : {0}, ack : {0},
        flags : {{"SYN"}}, window : {1}, data : {<<>>}]

Incoming == Syn \cup UNION {ToBlock(stack.pcbs[i]) :
                              i \in {j \in Slots : stack.pcbs[j].remote # NoPeer}}

Receive ==
  /\ TableFree /\ arrivals > 0
  /\ arrivals' = arrivals - 1
  /\ \E g \in Incoming : \E s \in Effective(tcp_in(stack, g)) : Becomes(s)
  /\ UNCHANGED <<entries, task, unpinned>>

Timers ==
  /\ TableFree
  /\ \E i \in Slots :
       LET p == stack.pcbs[i]
       IN  \/ p.outstanding # NoSegment /\ \E s \in tcp_retransmit_due(stack, i) : Becomes(s)
           \/ p.time_wait_timer /\ Becomes(tcp_time_wait_proc(stack, i))
           \/ p.release_timer /\ Becomes(tcp_release_proc(stack, i))
  /\ UNCHANGED <<entries, task, arrivals, unpinned>>

Notifies ==
  /\ ~TableFree
  /\ stack' = Notify(stack)
  /\ UNCHANGED <<entries, task, arrivals, unpinned>>

Calls(t) ==
  \/ net_socket_open(t)
  \/ \E h \in Handles : \/ net_socket_bind(t, h) \/ net_socket_listen(t, h)
                        \/ net_socket_send(t, h) \/ net_socket_connect_start(t, h)
                        \/ net_socket_recv(t, h) \/ net_socket_accept_prepare(t, h)
                        \/ task[t] = Idle /\ net_socket_close(t, h)

Continues(t) ==
  \/ task[t].pc = "close" /\ net_socket_close(t, task[t].handle)
  \/ net_socket_wait(t)
  \/ RecvLook(t) \/ RecvCheck(t) \/ RecvPoll(t)
  \/ CompletionLook(t) \/ sys_sem_wait(t) \/ Leave(t)
  \/ AcceptLook(t) \/ net_socket_accept_commit(t) \/ net_socket_accept_abort(t)

Next ==
  \/ \E t \in Tasks : Calls(t) \/ Continues(t)
  \/ Receive \/ Timers \/ Notifies

Spec == Init /\ [][Next]_vars

-----------------------------------------------------------------------------
(* Properties *)

Users(i, op, pcs) == {t \in Tasks : task[t].pcb = i /\ task[t].op = op /\ task[t].pc \in pcs}
Waiting == {"look", "check", "poll", "sleep", "leave"}

(* A block counts the tasks that are inside it, so that it never goes back   *)
(* to the pool under one of them: the counters of tcp_recv_acquire,          *)
(* tcp_wait_completion_acquire, tcp_accept_acquire and the pins of           *)
(* tcp_accept_peek_acquired are exact.  The exception is a program that      *)
(* accepts a connection and, once it has ended, connects the same socket     *)
(* while another acceptor has it pinned: tcp_reset_connection clears the     *)
(* pins (tcp.c:306), and that acceptor can then not give up its listener.    *)
WaiterHoldsBlock ==
  \A i \in Slots :
     LET p == stack.pcbs[i]
         pinned    == {t \in Tasks : task[t].pc = "commit" /\ task[t].child = i}
         accepting == Users(i, "accept", {"look", "sleep", "commit", "abort"})
     IN  /\ \A k \in DOMAIN p.waiters : p.waiters[k] = Cardinality(Users(i, k, Waiting))
         /\ ~unpinned => /\ p.accept_waiters = Cardinality(accepting)
                         /\ p.accept_pins = Cardinality(pinned)
         /\ \A t \in Tasks : task[t].pcb = i => p.opened

(* Sockets in use and the blocks that say so are the same, one to one. *)
SocketOwnsBlock ==
  /\ \A e \in Entries : entries[e].used => stack.pcbs[entries[e].tcp].socket_attached
  /\ \A i \in Slots : stack.pcbs[i].opened /\ stack.pcbs[i].socket_attached =>
       Cardinality({e \in Entries : entries[e].used /\ entries[e].tcp = i}) = 1

(* The books of a listener: as many children as it counts, never more than   *)
(* the backlog, and in the ring exactly those that are established.          *)
Queue(p) == {p.accept_queue[(p.accept_head + k) % AcceptMax] : k \in 0 .. p.accept_count - 1}
ListenerBooks ==
  \A l \in {i \in Slots : stack.pcbs[i].state = "LISTEN"} :
     LET p == stack.pcbs[l]
         children == {i \in Slots : stack.pcbs[i].opened /\ stack.pcbs[i].listener = l}
     IN  /\ p.pending_count = Cardinality(children) /\ p.pending_count <= p.backlog
         /\ Queue(p) = {i \in children : stack.pcbs[i].state = "ESTABLISHED"}
         /\ p.accept_count = Cardinality(Queue(p))

(* Nobody sleeps on a semaphore without a token when what the task waits for *)
(* is there, once the notifications are done.  The exception is a task that  *)
(* has shared its socket with another receiver, see EndReachesReceivers.     *)
Due(t) ==
  LET p == Mine(t)
      others == Users(task[t].pcb, task[t].op, {"look", "commit", "abort"})
  IN  CASE task[t].op = "recv"   -> RecvTerminal(p) \/ (p.recv # <<>> /\ others = {})
        [] task[t].op = "accept" -> p.release_pending \/ p.accept_count > Cardinality(others)
        [] OTHER -> Immediate(p, task[t].op) # "NONE"

NobodyStranded ==
  TableFree => \A t \in Tasks :
    task[t].pc = "sleep" /\ Due(t) /\ ~task[t].shared => Mine(t).sem[task[t].op] > 0

(* The end of a connection reaches everybody who sleeps in recv on it: with  *)
(* tcp_notify_terminal done, and nothing else to come, a sleeper has a token *)
(* (docs/quard-star-riscv64-net-design.md:652 says that the state of the     *)
(* connection and errors wake the processes, and line 655 that every request *)
(* that blocks has a completion of its own).                                 *)
EndReachesReceivers ==
  TableFree => \A t \in Tasks :
    At(t, "recv", "sleep") /\ Mine(t).terminal_notified => Mine(t).sem.recv > 0
=============================================================================
