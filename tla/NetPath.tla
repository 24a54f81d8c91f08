------------------------------ MODULE NetPath ------------------------------
(***************************************************************************)
(* The way of a packet through the stack: netif.c, loop.c, netif_virtio.c, *)
(* ether.c, arp.c, ipv4.c, icmpv4.c, udp.c and the UDP sockets of          *)
(* socket.c, driven by net_stack_worker.                                   *)
(*                                                                         *)
(* A packet buffer has a reference count; every function either keeps the  *)
(* reference it is given, passes it on or frees it, on every path.  The    *)
(* functions are operators on a record n, the state of the stack:          *)
(*                                                                         *)
(*   ref, msg  of a buffer its reference count and what is in it           *)
(*   state     of eth0: "ACTIVE" or "OPENED"                               *)
(*   in, out   the queues of the two interfaces "eth" and "loop"           *)
(*   arp       cache_list, most recently used entry first                  *)
(*   err       the result of the function                                  *)
(*                                                                         *)
(* A function that may fail is a set of outcomes.  What a packet says is   *)
(* reduced to its kind, the address of the other party, which may be our   *)
(* own, the layer that finds something wrong with it and, in ARP, whether  *)
(* the sender's hardware address is that of eth0.                          *)
(***************************************************************************)
EXTENDS Integers, Sequences, FiniteSets, SequencesExt

CONSTANTS Bufs,        \* the buffers of pktbuf.c
          Hosts,       \* the other hosts on the network
          QueueSize,   \* NETIF_INQ_SIZE, NETIF_OUTQ_SIZE
          ArpSize,     \* ARP_CACHE_SIZE
          ArpWait,     \* ARP_MAX_PKT_WAIT
          StableTmo, PendingTmo, ArpRetry,  \* in scans of arp_cache_tmo
          RecvMax,     \* UDP_RECV_MAX
          SocketMax,   \* UDP_PCB_MAX, NET_SOCKET_MAX
          Ports,       \* the ports udp_bind is called with
          Tasks        \* the tasks that receive on UDP sockets

ASSUME PathAssumption ==
  /\ {QueueSize, ArpSize, ArpWait, StableTmo, PendingTmo, ArpRetry, RecvMax, SocketMax} \subseteq Nat \ {0}
  /\ Bufs \subseteq Nat \ {0} /\ Ports \subseteq Nat \ {0}
  /\ {"all", "loop", "self"} \cap Hosts = {}

None   == "none"
Arp    == {"arp_request", "arp_other", "arp_reply"}
Self   == "self"              \* the address of eth0
Addrs  == Hosts \cup {Self}
NoMsg  == [kind |-> None, host |-> None, port |-> 0, bad |-> None, mac |-> "far"]
Sockets == 1 .. SocketMax
Records == Sockets \X (1 .. RecvMax)
NoRecord == <<0, 0>>

VARIABLES
  n,        \* the stack, see above
  sock,     \* the UDP sockets and their control blocks
  records,  \* recv_records: the buffer of each record, or 0
  worker,   \* "run", or the socket that is closed and where that stands
  task      \* of a receiving task: where it stands, its socket and record

vars == <<n, sock, records, worker, task>>

-----------------------------------------------------------------------------
(* Outcomes, buffers and queues *)

Return(m, err) == {[m EXCEPT !.err = err]}
Call(S, F(_), G(_)) == UNION {IF m.err = "OK" THEN F(m) ELSE G(m) : m \in S}
Fails(m) == {m}
Then(S, F(_)) == Call(S, F, Fails)

(* pktbuf_free; ref falls below zero where a buffer is freed twice. *)
pktbuf_free(m, b) ==
  [m EXCEPT !.ref[b] = @ - 1, !.msg[b] = IF m.ref[b] = 1 THEN NoMsg ELSE @]
pktbuf_inc_ref(m, b) == [m EXCEPT !.ref[b] = @ + 1]

FreeBufs(m) == {b \in Bufs : m.ref[b] = 0}
SomeBuf(m) == CHOOSE b \in Bufs : b \in FreeBufs(m) \/ FreeBufs(m) = {}

(* pktbuf_alloc.  It fails without a buffer, or without blocks for it, and   *)
(* then the buffer it took goes back to pktbuf_list.                         *)
pktbuf_alloc(m, msg) ==
  Return(m, "MEM")
  \cup {[m EXCEPT !.ref[b] = 1, !.msg[b] = msg] : b \in FreeBufs(m) \cap {SomeBuf(m)}}

Drop(m, b, err) == Return(pktbuf_free(m, b), err)
DropAll(m, bufs) == FoldLeft(pktbuf_free, m, bufs)

(* netif_put_in, netif_put_out: fixq_send without waiting.  The queues of an *)
(* interface are only used by the network thread.                            *)
netif_put_in(m, i, b) ==
  IF Len(m.in[i]) = QueueSize THEN Return(m, "FULL")
  ELSE {[m EXCEPT !.in[i] = Append(@, b)]}
netif_put_out(m, i, b) ==
  IF Len(m.out[i]) = QueueSize THEN Return(m, "FULL")
  ELSE {[m EXCEPT !.out[i] = Append(@, b)]}

-----------------------------------------------------------------------------
(* Drivers *)

(* loop_xmit *)
loop_xmit(m) ==
  IF m.out["loop"] = <<>> THEN Return(m, "NONE")
  ELSE LET b == Head(m.out["loop"])
       IN  Call(netif_put_in([m EXCEPT !.out["loop"] = Tail(@)], "loop", b), Fails,
                LAMBDA k : {pktbuf_free(k, b)})

(* netif_virtio_xmit: frames are sent and freed until virtio_net_send fails, *)
(* which costs the frame it failed on.                                       *)
netif_virtio_xmit(m) ==
  LET q == m.out["eth"]
      after(k) == [DropAll(m, SubSeq(q, 1, k)) EXCEPT !.out["eth"] = SubSeq(q, k + 1, Len(q))]
  IN  {after(Len(q))} \cup UNION {Return(after(k), "IO") : k \in 1 .. Len(q)}

-----------------------------------------------------------------------------
(* Ethernet and ARP *)

(* A frame of ours that comes back.  In a packet the other party is the      *)
(* destination, and unless that is our own address ipv4_in refuses it.       *)
Looped(p) ==
  IF p.kind = "arp_reply" \/ p.host = Self THEN p ELSE [NoMsg EXCEPT !.kind = "udp", !.bad = "ip"]

(* ether_raw_out.  The padding and the header may find no memory.  A frame   *)
(* for the hardware address of eth0 goes into its input queue.               *)
ether_raw_out(m, mac, b) ==
  LET free(k) == {pktbuf_free(k, b)}
  IN  IF m.state # "ACTIVE" THEN Drop(m, b, "STATE")
      ELSE Drop(m, b, "MEM") \cup
           IF mac = "own"
           THEN Call(netif_put_in([m EXCEPT !.msg[b] = Looped(@)], "eth", b), Fails, free)
           ELSE Call(netif_put_out(m, "eth", b), netif_virtio_xmit, free)

arp_make_request(m) ==
  LET b == SomeBuf(m)
  IN  Then(pktbuf_alloc(m, [NoMsg EXCEPT !.kind = "arp_request", !.mac = "own"]),
           LAMBDA k : ether_raw_out(k, "far", b))

(* The requests of arp_cache_tmo, whose results are ignored. *)
Ignoring(S) == {[m EXCEPT !.err = "OK"] : m \in S}

Positions(m, ip) == {k \in DOMAIN m.arp : m.arp[k].ip = ip}

(* arp_find_entry moves the entry it finds to the front. *)
arp_find_entry(m, ip) ==
  IF Positions(m, ip) = {} THEN m
  ELSE LET k == CHOOSE k \in Positions(m, ip) : TRUE
       IN  [m EXCEPT !.arp = <<m.arp[k]>> \o RemoveAt(@, k)]

Found(m, ip) == m.arp # <<>> /\ m.arp[1].ip = ip

(* arp_alloc_entry and the nlist_insert_first that follows it.  With force   *)
(* the least recently used entry goes, and the packets that wait in it.      *)
arp_alloc_entry(m, force, entry) ==
  IF Len(m.arp) < ArpSize THEN {[m EXCEPT !.arp = <<entry>> \o @]}
  ELSE IF force
  THEN {[DropAll(m, Last(m.arp).wait) EXCEPT !.arp = <<entry>> \o Front(@)]}
  ELSE Return(m, "MEM")

(* arp_set_entry *)
Entry(ip, mac, state) ==
  [ip |-> ip, haddr |-> mac, state |-> state, wait |-> <<>>, retry |-> ArpRetry,
   tmo |-> IF state = "RESOLVED" THEN StableTmo ELSE PendingTmo]

(* arp_free_entry *)
arp_free_entry(m, k) == [DropAll(m, m.arp[k].wait) EXCEPT !.arp = RemoveAt(@, k)]

(* arp_send_waiting: at an error the rest of the packets is freed. *)
arp_send_waiting(m) ==
  LET wait == m.arp[1].wait
      send(S, b) == UNION {IF k.err = "OK" THEN ether_raw_out(k, m.arp[1].haddr, b)
                                           ELSE {pktbuf_free(k, b)} : k \in S}
  IN  FoldLeft(send, {[m EXCEPT !.arp[1].wait = <<>>]}, wait)

arp_cache_insert(m, ip, mac, force) ==
  LET f == arp_find_entry(m, ip)
      entry == Entry(ip, mac, "RESOLVED")
  IN  IF Found(f, ip)
      THEN arp_send_waiting([f EXCEPT !.arp[1] = [entry EXCEPT !.wait = f.arp[1].wait]])
      ELSE Then(arp_alloc_entry(f, force, entry), arp_send_waiting)

(* The answer is written into the request, and goes to the hardware address *)
(* the request gave.                                                        *)
Answer(m, b) ==
  [pktbuf_inc_ref(m, b) EXCEPT !.msg[b] = [NoMsg EXCEPT !.kind = "arp_reply", !.host = Self, !.mac = "own"]]

(* Mutant: the caller's reference goes at an error, too. *)
arp_make_reply_frees(m, b) ==
  Call(ether_raw_out(Answer(m, b), m.msg[b].mac, b), LAMBDA k : {pktbuf_free(k, b)},
       LAMBDA k : {pktbuf_free(k, b)})

arp_make_reply(m, b) ==
  Then(ether_raw_out(Answer(m, b), m.msg[b].mac, b), LAMBDA k : {pktbuf_free(k, b)})

arp_in(m, b) ==
  LET p == m.msg[b]
  IN  IF p.bad = "arp" THEN Return(m, "NOT_SUPPORT")
      ELSE Then(arp_cache_insert(m, p.host, p.mac, p.kind # "arp_reply"), LAMBDA k :
             IF p.kind = "arp_request" THEN arp_make_reply(k, b) ELSE {pktbuf_free(k, b)})

(* arp_resolve *)
arp_resolve(m, ip, b) ==
  LET f == arp_find_entry(m, ip)
      waiting == [Entry(ip, "far", "WAITING") EXCEPT !.wait = <<b>>]
  IN  IF ip = "all" THEN ether_raw_out(m, "far", b)
      ELSE IF Found(f, ip)
      THEN IF f.arp[1].state = "RESOLVED" THEN ether_raw_out(f, f.arp[1].haddr, b)
           ELSE IF Len(f.arp[1].wait) >= ArpWait THEN Drop(f, b, "FULL")
           ELSE {[f EXCEPT !.arp[1].wait = Append(@, b)]}
      ELSE Then(arp_alloc_entry(f, TRUE, waiting), LAMBDA k :
             Call(arp_make_request(k), Fails, LAMBDA j : {arp_free_entry(j, 1)}))

(* Mutant: the requests are not counted. *)
RetriesLeft_same(e) == e.retry

RetriesLeft(e) == e.retry - 1

(* arp_cache_tmo for the entry of ip; a waiting entry goes with its packets. *)
(* Nobody reads the hardware address of a waiting entry.                     *)
ScanEntry(m, ip) ==
  LET k == CHOOSE k \in Positions(m, ip) : TRUE
      e == m.arp[k]
      again(retry) == Ignoring(arp_make_request(
                        [m EXCEPT !.arp[k] = [Entry(ip, "far", "WAITING") EXCEPT !.wait = e.wait,
                                                                                 !.retry = retry]]))
  IN  IF e.tmo > 1 THEN {[m EXCEPT !.arp[k].tmo = @ - 1]}
      ELSE IF e.state = "RESOLVED" THEN again(ArpRetry)
      ELSE IF RetriesLeft(e) <= 0 THEN {arp_free_entry(m, k)}
      ELSE again(RetriesLeft(e))

arp_cache_tmo(m) ==
  FoldLeft(LAMBDA S, e : UNION {ScanEntry(k, e.ip) : k \in S}, {m}, m.arp)

(* arp_clear *)
arp_clear(m) == [FoldLeft(LAMBDA k, e : DropAll(k, e.wait), m, m.arp) EXCEPT !.arp = <<>>]

-----------------------------------------------------------------------------
(* IPv4, ICMP, UDP *)

(* The interface "loop" stays active from loop_init on. *)
Down(m, i) == i = "eth" /\ m.state # "ACTIVE"

netif_out(m, i, dest, b) ==
  IF Down(m, i) THEN Drop(m, b, "STATE")
  ELSE IF i = "eth" THEN arp_resolve(m, dest, b)
  ELSE Call(netif_put_out(m, i, b), loop_xmit, LAMBDA k : {pktbuf_free(k, b)})

(* ipv4_out.  The header may find no memory. *)
ipv4_out(m, i, dest, b) ==
  IF Down(m, i) THEN Drop(m, b, "STATE")
  ELSE Drop(m, b, "MEM") \cup netif_out(m, i, dest, b)

(* icmpv4_echo_reply, in the buffer of the request. *)
icmpv4_echo_reply(m, i, b) ==
  Then(ipv4_out([pktbuf_inc_ref(m, b) EXCEPT !.msg[b].kind = "echo_reply"], i, m.msg[b].host, b),
       LAMBDA k : {pktbuf_free(k, b)})

icmpv4_in(m, i, b) ==
  CASE m.msg[b].bad = "icmp" -> Return(m, "CHKSUM")
    [] m.msg[b].bad # "icmp" /\ m.msg[b].kind = "echo_reply" -> {pktbuf_free(m, b)}
    [] OTHER -> icmpv4_echo_reply(m, i, b)

(* udp_in: the first open socket with the port takes the datagram, if it has *)
(* a free record and a free place in its queue.  A socket that was never     *)
(* bound has port 0.                                                         *)
Takers(p) == {s \in Sockets : sock[s].open /\ sock[s].port = p.port}
Spare(s) == {j \in Records : j[1] = s /\ records[j] = 0}
Least(S) == CHOOSE x \in S : \A y \in S : x[2] <= y[2]

UdpTarget(p) ==
  LET s == Min(Takers(p))
  IN  IF p.bad = "udp" \/ Takers(p) = {} THEN NoRecord
      ELSE IF Spare(s) = {} \/ Len(sock[s].queue) = RecvMax \/ sock[s].send = 0 THEN NoRecord
      ELSE Least(Spare(s))

(* ipv4_in.  What Input puts into a record is the data alone. *)
ipv4_in(m, i, b) ==
  IF m.msg[b].bad = "ip" THEN Return(m, "FORMAT")
  ELSE IF m.msg[b].kind = "udp"
  THEN IF UdpTarget(m.msg[b]) = NoRecord THEN Return(m, "UNREACH")
       ELSE {[m EXCEPT !.msg[b] = NoMsg]}
  ELSE icmpv4_in(m, i, b)

ether_in(m, b) ==
  IF m.msg[b].bad = "ether" THEN Return(m, "UNREACH")
  ELSE IF m.msg[b].kind \in Arp THEN arp_in(m, b)
  ELSE ipv4_in(m, "eth", b)

(* net_stack_process_input with a packet in the queue. *)
net_stack_process_input(m, i) ==
  LET b == Head(m.in[i])
      k == [m EXCEPT !.in[i] = Tail(@)]
  IN  Call(IF i = "eth" THEN ether_in(k, b) ELSE ipv4_in(k, i, b), Fails,
           LAMBDA j : {pktbuf_free(j, b)})

-----------------------------------------------------------------------------
(* The network thread *)

NoSocket == [used |-> FALSE, closing |-> FALSE, open |-> FALSE, port |-> 0,
             recv_waiting |-> FALSE, queue |-> <<>>, send |-> 0, recv |-> 0, close_done |-> 0]

Run  == [pc |-> "run", s |-> 0]
Idle == [pc |-> "idle", s |-> 0, item |-> NoRecord]

Init ==
  /\ n = [ref |-> [b \in Bufs |-> 0], msg |-> [b \in Bufs |-> NoMsg], state |-> "ACTIVE",
          in |-> [eth |-> <<>>, loop |-> <<>>], out |-> [eth |-> <<>>, loop |-> <<>>],
          arp |-> <<>>, err |-> "OK"]
  /\ sock = [s \in Sockets |-> NoSocket]
  /\ records = [j \in Records |-> 0]
  /\ worker = Run
  /\ task = [t \in Tasks |-> Idle]

Becomes(m) == n' = [m EXCEPT !.err = "OK"]

(* A step of the network thread that only concerns n, and changes it. *)
Stack(S) ==
  /\ worker = Run
  /\ UNCHANGED <<sock, records, worker, task>>
  /\ n' \in {[m EXCEPT !.err = "OK"] : m \in S} \ {n}

(* udp_sendto and icmpv4_out_echo, run through net_exec. *)
Send(i, msg) ==
  LET b == SomeBuf(n)
  IN  Then(pktbuf_alloc(n, msg), LAMBDA m : ipv4_out(m, i, msg.host, b))

udp_sendto(i, dests) ==
  /\ \E s \in Sockets : sock[s].used /\ ~sock[s].closing
  /\ Stack(UNION {Send(i, [NoMsg EXCEPT !.kind = "udp", !.host = dest, !.port = port]) :
                    dest \in dests, port \in Ports})

icmpv4_out_echo(i, dests) ==
  Stack(UNION {Send(i, [NoMsg EXCEPT !.kind = "echo", !.host = dest]) : dest \in dests})

ArpTimer == n.arp # <<>> /\ Stack(arp_cache_tmo(n))

(* netif_set_deactive and netif_set_active *)
netif_set_deactive ==
  /\ n.state = "ACTIVE"
  /\ LET m == arp_clear(n)
         k == DropAll(DropAll(m, m.in["eth"]), m.out["eth"])
     IN  Stack({[k EXCEPT !.in["eth"] = <<>>, !.out["eth"] = <<>>, !.state = "OPENED"]})

netif_set_active == n.state = "OPENED" /\ Stack({[n EXCEPT !.state = "ACTIVE"]})

(* One packet goes through net_stack_process_input; a datagram for the       *)
(* socket goes into a record and the record into the queue.                  *)
Input(m, i) ==
  LET b == Head(m.in[i])
      p == m.msg[b]
      j == IF p.kind = "udp" /\ p.bad \notin {"ether", "ip"} THEN UdpTarget(p) ELSE NoRecord
  IN  /\ worker = Run
      /\ \E k \in net_stack_process_input(m, i) : Becomes(k)
      /\ IF j = NoRecord THEN UNCHANGED <<sock, records>>
         ELSE /\ records' = [records EXCEPT ![j] = b]
              /\ sock' = [sock EXCEPT ![j[1]].queue = Append(@, j), ![j[1]].send = @ - 1,
                                      ![j[1]].recv = @ + 1]
      /\ UNCHANGED <<worker, task>>

LoopInput == n.in["loop"] # <<>> /\ Input(n, "loop")

(* The frames virtio_net_receive delivers.  Only ARP and the answer to an    *)
(* echo depend on the sender.                                                *)
Frame(kinds, hosts, ports, mac) ==
  [kind : kinds, host : hosts, port : ports, bad : {None}, mac : mac]
Refused == {<<"udp", "ether">>, <<"udp", "ip">>, <<"arp_reply", "arp">>,
            <<"echo", "icmp">>, <<"udp", "udp">>}
Frames ==
  Frame(Arp, Addrs, {0}, {"own", "far"}) \cup Frame({"echo"}, Hosts, {0}, {"far"})
  \cup Frame({"echo_reply"}, {None}, {0}, {"far"})
  \cup Frame({"udp"}, {None}, Ports \cup {0}, {"far"})
  \cup {[NoMsg EXCEPT !.kind = r[1], !.bad = r[2]] : r \in Refused}

netif_virtio_poll(m, f) ==
  LET b == SomeBuf(m)
  IN  Then(pktbuf_alloc(m, f), LAMBDA k :
           Call(netif_put_in(k, "eth", b), Fails, LAMBDA j : {pktbuf_free(j, b)}))

net_stack_poll_once ==
  /\ n.state = "ACTIVE"
  /\ \E m \in UNION {netif_virtio_poll(n, f) : f \in Frames} :
       IF m.err = "OK" THEN Input(m, "eth") ELSE Stack({m})

-----------------------------------------------------------------------------
(* UDP sockets *)

Socket(s, with) == sock' = [sock EXCEPT ![s] = with] /\ UNCHANGED <<n, records, task>>

(* net_socket_open with udp_open, and net_socket_bind with udp_bind. *)
udp_open ==
  LET free == {s \in Sockets : ~sock[s].used}
  IN  /\ worker = Run /\ free # {}
      /\ Socket(Min(free), [NoSocket EXCEPT !.used = TRUE, !.open = TRUE, !.send = RecvMax])
      /\ UNCHANGED worker

udp_bind(s, port) ==
  /\ worker = Run /\ sock[s].used /\ ~sock[s].closing
  /\ \A o \in Sockets \ {s} : ~(sock[o].open /\ sock[o].port = port)
  /\ Socket(s, [sock[s] EXCEPT !.port = port])
  /\ UNCHANGED worker

(* net_socket_close and udp_close: the block is marked, a task that is in    *)
(* recvfrom is woken and waited for, then what is left in the queue is       *)
(* freed.                                                                    *)
At(pc) == worker.pc = pc
Goes(pc) == worker' = [worker EXCEPT !.pc = pc]

CloseMark(s) ==
  /\ worker = Run /\ sock[s].used /\ ~sock[s].closing
  /\ Socket(s, [sock[s] EXCEPT !.closing = TRUE, !.open = FALSE])
  /\ worker' = [pc |-> IF sock[s].recv_waiting THEN "wake" ELSE "drain", s |-> s]

(* Mutant: the receiver is not woken. *)
CloseWake_silent ==
  /\ At("wake")
  /\ Goes("wait")
  /\ UNCHANGED <<n, sock, records, task>>

CloseWake ==
  /\ At("wake")
  /\ Socket(worker.s, [sock[worker.s] EXCEPT !.recv = @ + 1])
  /\ Goes("wait")

CloseWait ==
  /\ At("wait") /\ sock[worker.s].close_done > 0
  /\ Socket(worker.s, [sock[worker.s] EXCEPT !.close_done = @ - 1])
  /\ Goes("drain")

(* Without waiting, fixq_recv takes a record as long as recv_sem has a       *)
(* token: what stays in the queue without one is lost.                       *)
CloseDrain ==
  LET s == sock[worker.s]
      taken == SubSeq(s.queue, 1, Min({s.recv, Len(s.queue)}))
  IN  /\ At("drain")
      /\ n' = DropAll(n, [k \in DOMAIN taken |-> records[taken[k]]])
      /\ records' = [j \in Records |-> IF j \in Range(taken) THEN 0 ELSE records[j]]
      /\ sock' = [sock EXCEPT ![worker.s] = NoSocket]
      /\ worker' = Run
      /\ UNCHANGED task

(* net_socket_recvfrom: udp_recv_acquire, for one task at a time ... *)
udp_recv_acquire(t, s) ==
  /\ task[t] = Idle /\ sock[s].used /\ ~sock[s].closing
  /\ sock[s].open /\ ~sock[s].recv_waiting
  /\ sock' = [sock EXCEPT ![s].recv_waiting = TRUE]
  /\ task' = [task EXCEPT ![t] = [pc |-> "wait", s |-> s, item |-> NoRecord]]
  /\ UNCHANGED <<n, records, worker>>

Mine(t) == sock[task[t].s]

(* ... fixq_recv: a token, or the time is over ... *)
RecvToken(t) ==
  /\ task[t].pc = "wait" /\ Mine(t).recv > 0
  /\ sock' = [sock EXCEPT ![task[t].s].recv = @ - 1]
  /\ task' = [task EXCEPT ![t].pc = "take"]
  /\ UNCHANGED <<n, records, worker>>

RecvTimeout(t) ==
  /\ task[t].pc = "wait"
  /\ task' = [task EXCEPT ![t].pc = "leave"]
  /\ UNCHANGED <<n, sock, records, worker>>

(* ... the record, unless the token was that of fixq_wake_receiver ... *)
RecvTake(t) ==
  /\ task[t].pc = "take"
  /\ IF Mine(t).queue = <<>>
     THEN task' = [task EXCEPT ![t].pc = "leave"] /\ UNCHANGED sock
     ELSE /\ sock' = [sock EXCEPT ![task[t].s].queue = Tail(@)]
          /\ task' = [task EXCEPT ![t].pc = "give", ![t].item = Head(Mine(t).queue)]
  /\ UNCHANGED <<n, records, worker>>

RecvGive(t) ==
  /\ task[t].pc = "give"
  /\ sock' = [sock EXCEPT ![task[t].s].send = @ + 1]
  /\ task' = [task EXCEPT ![t].pc = "leave"]
  /\ UNCHANGED <<n, records, worker>>

(* ... then recv_waiting is given up, and with the socket closed the record *)
(* is freed and udp_close may go on ...                                     *)
RecvLeave(t) ==
  /\ task[t].pc = "leave"
  /\ sock' = [sock EXCEPT ![task[t].s].recv_waiting = FALSE]
  /\ task' = IF ~Mine(t).open THEN [task EXCEPT ![t].pc = "closed"]
             ELSE IF task[t].item = NoRecord THEN [task EXCEPT ![t] = Idle]
             ELSE [task EXCEPT ![t].pc = "read"]
  /\ UNCHANGED <<n, records, worker>>

(* Mutant: the record is not given back. *)
Freed_record_kept(t) ==
  IF task[t].item = NoRecord THEN UNCHANGED <<n, records>>
  ELSE n' = pktbuf_free(n, records[task[t].item]) /\ UNCHANGED records

Freed(t) ==
  IF task[t].item = NoRecord THEN UNCHANGED <<n, records>>
  ELSE /\ n' = pktbuf_free(n, records[task[t].item])
       /\ records' = [records EXCEPT ![task[t].item] = 0]

RecvClosed(t) ==
  /\ task[t].pc = "closed"
  /\ Freed(t)
  /\ sock' = [sock EXCEPT ![task[t].s].close_done = @ + 1]
  /\ task' = [task EXCEPT ![t] = Idle]
  /\ UNCHANGED worker

(* ... or the data is copied out and the record freed. *)
RecvRead(t) ==
  /\ task[t].pc = "read"
  /\ Freed(t)
  /\ task' = [task EXCEPT ![t] = Idle]
  /\ UNCHANGED <<sock, worker>>

Recv(t) == \/ RecvToken(t) \/ RecvTake(t) \/ RecvGive(t)
           \/ RecvLeave(t) \/ RecvClosed(t) \/ RecvRead(t)

Closes == (\E s \in Sockets : CloseMark(s)) \/ CloseWake \/ CloseWait \/ CloseDrain

Next ==
  \/ udp_sendto("eth", Addrs \cup {"all"}) \/ icmpv4_out_echo("eth", Addrs \cup {"all"})
  \/ udp_sendto("loop", {"loop"}) \/ icmpv4_out_echo("loop", {"loop"})
  \/ ArpTimer \/ LoopInput \/ net_stack_poll_once
  \/ netif_set_deactive \/ netif_set_active
  \/ udp_open \/ Closes
  \/ \E s \in Sockets, port \in Ports : udp_bind(s, port)
  \/ \E t \in Tasks : \/ \E s \in Sockets : udp_recv_acquire(t, s)
                      \/ RecvTimeout(t) \/ Recv(t)

Spec == Init /\ [][Next]_vars

(* The network thread goes round: the timer, the loop interface and the      *)
(* steps of a close.  A task that is ready is run.                           *)
Fairness ==
  /\ SF_vars(ArpTimer)
  /\ WF_vars(CloseWake \/ CloseWait \/ CloseDrain)
  /\ \A t \in Tasks : WF_vars(Recv(t))

FairSpec == Spec /\ Fairness

-----------------------------------------------------------------------------
(* Properties *)

Count(q, b) == Cardinality({k \in DOMAIN q : q[k] = b})
Waiting(b) == Cardinality({k \in DOMAIN n.arp : \E j \in DOMAIN n.arp[k].wait : n.arp[k].wait[j] = b})

(* Every buffer is held as often as its count says, by the queues, by the    *)
(* packets that wait for ARP and by the records of UDP, and one that nobody  *)
(* holds was freed: no path through arp_in, icmpv4_echo_reply,               *)
(* ether_raw_out with a frame for ourselves, arp_send_waiting, udp_in or     *)
(* udp_close forgets a buffer or frees it twice.                             *)
BuffersAccounted ==
  \A b \in Bufs :
     n.ref[b] = Count(n.in["eth"], b) + Count(n.in["loop"], b)
                + Count(n.out["eth"], b) + Count(n.out["loop"], b)
                + Waiting(b) + Cardinality({j \in Records : records[j] = b})

(* A record of UDP belongs to the queue of its socket or to one task, never  *)
(* to two, and is free otherwise: a task that still reads when the socket is *)
(* closed and opened again keeps its own.  When udp_close destroys the queue *)
(* and its semaphores, no task is between udp_recv_acquire and the last      *)
(* thing it does with them.  An entry of the ARP cache that is resolved has  *)
(* sent what waited in it.                                                   *)
TablesSound ==
  LET queued  == UNION {Range(sock[s].queue) : s \in Sockets}
      held(t) == {task[t].item} \ {NoRecord}
  IN  /\ \A s \in Sockets : Cardinality(Range(sock[s].queue)) = Len(sock[s].queue)
      /\ \A t \in Tasks : held(t) \cap queued = {}
      /\ \A t, u \in Tasks : t # u => held(t) \cap held(u) = {}
      /\ {j \in Records : records[j] # 0} = queued \cup UNION {held(t) : t \in Tasks}
      /\ At("drain") => \A t \in Tasks : task[t].s = worker.s => task[t].pc = "read"
      /\ \A k \in DOMAIN n.arp : n.arp[k].state = "RESOLVED" => n.arp[k].wait = <<>>

(* udp_close blocks the network thread while a task is in recvfrom: it is    *)
(* always let go.                                                            *)
UdpCloseReturns == (worker # Run) ~> (worker = Run)

(* A packet that waits for the address of its host is sent or given up.      *)
NoPacketWaitsForever == \A b \in Bufs : (Waiting(b) > 0) ~> (Waiting(b) = 0)
=============================================================================
