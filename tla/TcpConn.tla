------------------------------ MODULE TcpConn ------------------------------
(***************************************************************************)
(* One TCP connection between two stacks, each of them Tcp: end "A" opens  *)
(* it, end "B" listens and accepts.  The network loses, duplicates and     *)
(* reorders segments.  Timers fire at any time while they are linked.      *)
(*                                                                         *)
(* A call of the socket layer is one step here, its notifications          *)
(* included; what happens between two tasks inside one stack is the        *)
(* subject of TcpSocket.                                                   *)
(***************************************************************************)
EXTENDS Tcp

CONSTANTS MaxBytes,   \* bound: how many bytes each end writes
          MaxFaults,  \* bound: segments lost or duplicated, buffers not found
          IssA, IssB  \* the first sequence numbers of the two stacks

Ends    == {"A", "B"}
Peer(e) == IF e = "A" THEN "B" ELSE "A"
Service == 80

VARIABLES
  stack,      \* the state of Tcp, per end
  net,        \* the set of segments on their way
  calls,      \* what the program at an end has done: "open", "closing", "closed"
  faults,     \* how many faults may still happen
  written, delivered, fate  \* history, see ByteStream

vars    == <<stack, net, calls, faults, written, delivered, fate>>

(* The block of the connection: A opens slot 1, B has its listener there. *)
Conn(e) == IF e = "A" THEN 1 ELSE 2
Pcb(e)  == stack[e].pcbs[Conn(e)]

Only(S) == CHOOSE s \in S : s.err = "OK"

Init ==
  /\ stack = [A |-> Only(tcp_alloc_locked(InitStack("A", IssA), TRUE)),
              B |-> LET opened == Only(tcp_alloc_locked(InitStack("B", IssB), TRUE))
                    IN  Only(tcp_listen(Only(tcp_bind(opened, 1, Service)), 1, 1))]
  /\ net = {}
  /\ calls = [e \in Ends |-> "open"]
  /\ faults = MaxFaults
  /\ written = [e \in Ends |-> 0]
  /\ delivered = [e \in Ends |-> <<>>]
  /\ fate = [e \in Ends |-> "open"]

-----------------------------------------------------------------------------

Settled(s) == FoldLeft(LAMBDA t, m : Notify(t), s, s.notify)

(* What arrived in the buffer of a block that was p and is q. *)
Arrived(p, q) == IF Len(q.recv) > Len(p.recv)
                 THEN SubSeq(q.recv, Len(p.recv) + 1, Len(q.recv)) ELSE <<>>

Connected(p) == p.state \in {"SYN_SENT", "ESTABLISHED", "FIN_WAIT_1", "FIN_WAIT_2"}

Fate(e, p, q) ==
  IF fate[e] # "open" THEN fate[e]
  ELSE IF q.state = "TIME_WAIT" THEN "orderly"
  ELSE IF Connected(p) /\ ~Connected(q) THEN "aborted"
  ELSE "open"

(* End e does one of the outcomes S; what it sends goes to the network, less *)
(* the segments in used.  An outcome in which a buffer was missing is a      *)
(* fault.                                                                    *)
Step(e, S, used, extra) ==
  \E t \in S :
     LET s == Settled(t)
         q == s.pcbs[Conn(e)]
         fault == (IF extra THEN 1 ELSE 0) + (IF Faults /\ s.err = "MEM" THEN 1 ELSE 0)
     IN  /\ faults >= fault
         /\ faults' = faults - fault
         /\ stack' = [stack EXCEPT ![e] = [s EXCEPT !.sent = <<>>, !.err = "OK"]]
         /\ net' = (net \ used) \cup {s.sent[k] : k \in DOMAIN s.sent}
         /\ delivered' = [delivered EXCEPT ![e] =
                            IF fate[e] = "open" THEN @ \o Arrived(Pcb(e), q) ELSE @]
         /\ fate' = [fate EXCEPT ![e] = Fate(e, Pcb(e), q)]

Quiet == UNCHANGED <<calls, written>>

(* __sys_connect, up to the wait. *)
Connect ==
  /\ Pcb("A").opened /\ Pcb("A").state = "CLOSED" /\ fate["A"] = "open"
  /\ Pcb("A").outstanding = NoSegment /\ calls["A"] = "open"
  /\ Step("A", tcp_connect_start(stack["A"], 1, <<"B", Service>>), {}, FALSE)
  /\ Quiet

(* __sys_accept; a child that is not the first stays in the queue. *)
Accept ==
  LET s == stack["B"]
      acquired == Then(tcp_accept_acquire(s, 1), LAMBDA t : tcp_accept_peek_acquired(t, 1))
  IN  /\ s.pcbs[1].opened /\ s.pcbs[1].accept_count > 0
      /\ Step("B", Then(acquired, LAMBDA t : tcp_accept_commit_acquired(t, 1, AcceptHead(t, 1))), {}, FALSE)
      /\ Quiet

Held(e) == Pcb(e).opened /\ Pcb(e).socket_attached

(* __sys_send of up to Mss bytes. *)
Write(e) ==
  /\ Held(e) /\ calls[e] = "open"
  /\ \E n \in 1 .. Mss :
        LET S == tcp_send_start(stack[e], Conn(e), [k \in 1 .. n |-> written[e] + k])
        IN  /\ written[e] + n <= MaxBytes[e]
            /\ \E t \in S : t.err # "STATE" /\ t.err # "FULL"
            /\ Step(e, S, {}, FALSE)
            /\ written' = IF stack'[e].pcbs[Conn(e)].outstanding = NoSegment THEN written
                          ELSE [written EXCEPT ![e] = @ + n]
  /\ UNCHANGED calls

(* __sys_recv with data in the buffer. *)
Read(e) ==
  /\ Held(e) /\ calls[e] = "open" /\ Pcb(e).recv # <<>>
  /\ tcp_recv_acquire(stack[e], Conn(e)) # Return(stack[e], "STATE")
  /\ \E size \in 1 .. Mss :
        Step(e, {[stack[e] EXCEPT !.pcbs[Conn(e)] = tcp_take_bytes(@, size)]}, {}, FALSE)
  /\ Quiet

(* __sys_close: the first call of socket_close_tcp. *)
Close(e) ==
  /\ Held(e) /\ calls[e] = "open"
  /\ Step(e, tcp_close(stack[e], Conn(e)), {}, FALSE)
  /\ calls' = [calls EXCEPT ![e] = IF faults' = faults THEN "closing" ELSE @]
  /\ UNCHANGED written

(* tcp_wait_close returns at once, or takes a token ... *)
WaitClose(s, i) ==
  Then(tcp_wait_completion_acquire(s, i, "close"), LAMBDA t :
    IF Immediate(t.pcbs[i], "close") # "NONE" THEN {s}
    ELSE IF t.pcbs[i].sem.close > 0 THEN {[s EXCEPT !.pcbs[i].sem.close = @ - 1]}
    ELSE {})

(* ... and the next round of __sys_close. *)
CloseAgain(e) ==
  LET i == Conn(e)
      again(t) == Then(tcp_close([t EXCEPT !.err = "OK"], i), LAMBDA u : tcp_socket_detach(u, i))
  IN  /\ Held(e) /\ calls[e] = "closing"
      /\ Step(e, UNION {again(t) : t \in WaitClose(stack[e], i)}, {}, FALSE)
      /\ calls' = [calls EXCEPT ![e] = IF ~stack'[e].pcbs[i].opened THEN "closed" ELSE @]
      /\ UNCHANGED written

(* A segment arrives; when it is duplicated it stays on its way. *)
Receive(e) ==
  /\ \E g \in net :
        /\ g.dst[1] = e
        /\ Step(e, tcp_in(stack[e], g), {g}, FALSE)
  /\ Quiet

Duplicate(e) ==
  /\ faults > 0
  /\ \E g \in net :
        /\ g.dst[1] = e
        /\ Step(e, tcp_in(stack[e], g), {}, TRUE)
  /\ Quiet

Lose ==
  /\ faults > 0
  /\ faults' = faults - 1
  /\ \E g \in net : net' = net \ {g}
  /\ UNCHANGED <<stack, calls, written, delivered, fate>>

(* The times of tcp.c are long against the way of a segment: a timer that    *)
(* fires while something is on its way is a fault, and covers late answers.  *)
Retransmit(e) ==
  /\ net # {} => faults > 0
  /\ \E i \in Slots : /\ stack[e].pcbs[i].outstanding # NoSegment
                     /\ Step(e, tcp_retransmit_due(stack[e], i), {}, net # {})
  /\ Quiet

TimeWaitOver(e) ==
  /\ net # {} => faults > 0
  /\ \E i \in Slots : /\ stack[e].pcbs[i].time_wait_timer
                     /\ Step(e, {tcp_time_wait_proc(stack[e], i)}, {}, net # {})
  /\ Quiet

ReleaseTimer(e) ==
  /\ \E i \in Slots : /\ stack[e].pcbs[i].release_timer
                     /\ Step(e, {tcp_release_proc(stack[e], i)}, {}, FALSE)
  /\ Quiet

Next ==
  \/ Connect
  \/ Accept
  \/ \E e \in Ends : Write(e) \/ Read(e) \/ Close(e) \/ CloseAgain(e)
  \/ \E e \in Ends : Receive(e) \/ Duplicate(e)
  \/ Lose
  \/ \E e \in Ends : Retransmit(e) \/ TimeWaitOver(e) \/ ReleaseTimer(e)

Spec == Init /\ [][Next]_vars

(* The network threads go on: they read what arrives, and the timers fire    *)
(* once nothing is on its way any more.  So does a task in __sys_close, when  *)
(* it is woken.  All of this is finite work, so it is enough that some of it  *)
(* is done as long as there is any.                                           *)
Work ==
  \E e \in Ends : \/ Receive(e)
                  \/ net = {} /\ (Retransmit(e) \/ TimeWaitOver(e))
                  \/ ReleaseTimer(e)
                  \/ CloseAgain(e)

Fairness == WF_vars(Work)

FairSpec == Spec /\ Fairness

-----------------------------------------------------------------------------
(* Properties *)

(* The two stacks together are the reliable stream of ByteStream: what loss, *)
(* duplication, reordering and early timers do to tcp_in, tcp_accept_ack and *)
(* tcp_retransmit_due never shows in the bytes, and TIME_WAIT is only        *)
(* reached when both directions are complete.                                *)
Stream == INSTANCE ByteStream
ImplementsByteStream == Stream!Spec

(* What an end counts as acknowledged has arrived at the other end, and the  *)
(* other end expects either the outstanding segment or what comes behind it. *)
AckedHasArrived ==
  \A e \in Ends :
     LET p == Pcb(e)
         q == Pcb(Peer(e))
         unacked == IF p.outstanding = NoSegment THEN 0 ELSE Len(p.outstanding.data)
     IN  p.state \in {"ESTABLISHED", "FIN_WAIT_1", "FIN_WAIT_2"} /\ fate[e] = "open" =>
           /\ Len(delivered[Peer(e)]) >= written[e] - unacked
           /\ fate[Peer(e)] = "open" /\ q.state \in {"ESTABLISHED", "FIN_WAIT_1", "FIN_WAIT_2"} =>
                q.rcv_nxt \in {p.snd_una, p.snd_nxt}

(* A segment of a connection that is over opens nothing: the block that an   *)
(* old SYN makes tcp_passive_syn allocate never becomes ESTABLISHED.         *)
OldSegmentsOpenNothing == fate["B"] # "open" => ~Connected(Pcb("B"))

(* __sys_close returns: every segment it waits for is acknowledged or given  *)
(* up, so that at the latest when all work is done no call is left waiting.  *)
(* The exception is FIN_WAIT_2, which has no timer: there it waits for the   *)
(* FIN of the other end for as long as that takes.  (A call that has         *)
(* returned never waits again: "closed" is final.)                           *)
CloseEnds ==
  []<>(\A e \in Ends : calls[e] = "closing" => Pcb(e).state = "FIN_WAIT_2")
=============================================================================
