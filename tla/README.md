# A TLA+ model of the quard-star RISC-V kernel and network stack

The repository is a small SMP kernel for a RISC-V board (`kernel/`), a TCP/IP
stack that runs as one of its threads (`kernel/src/net/`), user programs
(`user/`) and a separate FreeRTOS domain (`trusted/`). These modules model the
parts in which several harts, threads, interrupt handlers or devices meet,
check them on small instances with TLC, and prove the most important invariants
for every size with TLAPS. `PROJECT.json` lists components, runs, the source
lines behind every definition, hazards, findings and theorems.

## The system and its parts

| part | state | operations | meets |
|---|---|---|---|
| scheduler (`task.c`, `cpu.c`) | `tasks[]`, `task_lock`, per hart `proc`, `idle` | `scheduler`, `pick_runnable`, `schedule`, `task_sleep`, `task_wake`, deadlines | every hart, timer interrupts |
| semaphores (`wait.c`) | `count`, `waiters`, a spinlock | `sem_wait`, `sem_timedwait`, `sem_post`, sleeplocks | scheduler |
| process table (`task.c`) | states, parents, `child_exit` | `fork`, `exit`, `wait`, reuse of entries | semaphores, page tables |
| address spaces (`address.c`) | page tables, frame list | map, copy, free, TLB shootdown | fork, exit, loader |
| virtqueue (`virtqueue.c`) | descriptors, available and used ring | allocate, submit, pop, free | drivers, devices |
| block driver (`virtio_disk.c`) | ring, requests in flight, failure flag | `block_transfer`, interrupt | callers, device |
| network driver (`virtio_net.c`) | two rings, slots, completion queue | send, receive, interrupt, reset | network threads, device |
| request executor (`net_exec.c`, `fixq.c`, `net_sys.c`) | request table, fixed queue, semaphores | `net_exec_submit`, `net_exec_run_once` | every caller of the stack, the worker |
| network worker (`net_stack.c`), timers (`net/timer.c`) | delta list of timers | add, remove, check | ARP, TCP |
| ARP (`arp.c`) | cache with ageing and waiting packets | resolve, receive, age | Ethernet, timers |
| UDP (`udp.c`) | control blocks, receive queues | open, send, receive, close | worker and receivers |
| TCP (`tcp.c`), sockets (`socket.c`) | control blocks, listeners, handles with generations | connect, send, receive, close, listen, accept, retransmit, TIME-WAIT, release | worker, waiters, timers, the peer |
| packet buffers (`pktbuf.c`, `mblock.c`) | pools, chains, reference counts | allocate, resize, join, free | the whole stack |
| files (`file.c`, `fatfs_port.c`) | handle table under a sleeplock | open, read, write, close | FatFs, block driver |
| IPv4, ICMP, DNS, Ethernet, loopback | little or none | parse, build, dispatch | |
| user programs, trusted domain | their own | TFTP, HTTP, NTP, shell; FreeRTOS tasks | system calls |

User code enters the stack by `net_exec_submit`: the request, whose argument is
on the caller's stack, goes through a fixed queue to the one worker thread that
runs the protocol code. That serial core
(`docs/quard-star-riscv64-net-design.md:174`) is what lets most protocol code do
without locks. Everything that waits, waits on a semaphore of `wait.c` or on a
wait queue of `task.c`.

What is hard, and what correctness means here:

- a timeout of `net_exec_submit` races with the worker: the callback's argument
  must outlive the callback, a call must return success exactly when its
  callback ran, and a reused request must not inherit a completion;
- a wakeup may arrive between giving up a lock and sleeping; no token may be
  lost to a timeout; a task must never be on two harts;
- a process may exit while its parent exits, forks or waits, and table entries
  are reused with the semaphore inside them;
- the device completes requests in any order, at any moment, or wrongly, while
  the interrupt handler drains the ring and callers wait for descriptors;
- segments are lost, duplicated and reordered, both ends may close at once, and
  control blocks are shared by the worker, waiters, listeners and timers.

## Modules

`NetExec` models `net_exec_submit` (`net_exec.c:44-88`) step by step for any
number of clients and `net_exec_run_once` (`:90-116`) for the worker, with
`fixq_send` and `fixq_recv` inlined: a critical section of `request_locker` or
of the queue's lock is one step, and so is one semaphore operation. `proc`,
`completed`, `abandoned`, `started`, `done` are the fields of `requests[]`;
`queue`, `send_sem`, `recv_sem` the fixed queue; `pc`, `request`, `err`,
`timeout` the locals of a call. The callback itself takes time (`wpc = "run"`).
`runs` is history: how often the current call's callback ran. `SerialExec` is
what callers rely on: a call is pending, its callback runs alone, at most once,
and the call reports OK exactly when it ran.

`Sched` models the scheduler loop of each hart, `schedule`, `task_sleep`,
`task_wake`, the expiry of deadlines and a semaphore on top of them. The states
in which a task has marked itself Ready or Sleeping but is still on its stack
(in front of `__switch`), and in which a hart or task has come out of
`__switch` with `task_lock` held, are states of their own. `CountingSem` is the
semaphore as its users see it, atomic, with timed and untimed waits.

`ProcTable` models `allocproc`, `__sys_fork`, `wait` and
`exit_current_and_run_next` with `lock_parent_exit` and the semaphore
`child_exit` inside each entry; a step is one critical section. Which hart runs
a process is left to `Sched`: any process that is not asleep may step.
`QS_M2C_TEST` is the build flag under which `wait()` polls.

`Virtqueue` holds the operations of `virtqueue.c` as operators on a record,
with the descriptor table, both rings and their indices modulo `IdxMod` (2^16 in
the code), and the device's view of the rings (external). `VirtioDisk` is the
driver on it: callers of `block_transfer`, the interrupt handler, which holds
`disk.lock` over a loop while the device goes on, and the device, which takes
chains, completes them in any order with success or an error, and, at the used
indices in `FaultAt`, may return an id out of range. `BlockDisk` is the disk callers
rely on: each transfer takes effect atomically between its call and its return,
or fails.

`VirtioNet` is the network driver on two such rings: `virtio_net_send`,
`virtio_net_receive` and `virtio_net_reset` in any number of tasks, a critical
section of `net.lock` being one step; `virtio_net_intr`, which acknowledges the
interrupt, takes the lock and drains both rings, one entry a step, while the
device goes on; and the device, which delivers good and damaged frames, sends
what it is given, and with `DeviceFaults` returns bad ids and overlong frames or
does not come up after a reset. Received frames are numbered; `last` is history,
the last frame a task got. `net.resetting` is set and cleared under one hold of
the lock, so it is left out.

`NetTimer` models `net/timer.c`: the list of timers with the differences of
their deadlines, `net_timer_add`, `net_timer_remove` and `net_timer_check_tmo`,
whose callbacks add and remove timers themselves between the steps of the check.
`TimerSet` is what its users rely on: a set of timers, each with the time it has
left. Two things the code does and the model shows: a timer that has expired in
a check is still called back when a callback before it in that check removes it,
and a timer's time is counted from the worker's last look at the clock, so that
it may come early by the time since then. A check inside a callback is not
modelled; no caller does it.

`Tcp` is `tcp.c` as operators on the state of one stack: the table of control
blocks with the connection state, the accept ring of a listener, waiter counts,
pins and semaphores; `tcp_in` with every state's handler, `tcp_connect_start`,
`tcp_listen`, accept in its two phases, `tcp_send_start`, receive, `tcp_close`,
release, the three timers and the retries. A function that allocates or sends is
a set of outcomes, with and without the buffer it needs. The notifications a
function does at its end, after `state_locker`, are a list in the state, so that a
waiter may run between them. Sequence numbers are modulo `SeqSize`; a segment is
its addresses, numbers, flags, window and data.

`TcpConn` joins two such stacks by a network that loses, duplicates and reorders
segments and may still hold a segment of an earlier connection. `ByteStream` is
what programs expect: bytes arrive in order, once, and an end that saw an orderly
close has everything, as has its peer. `TcpSocket` puts one stack under the table
of `socket.c` and the system calls of `syscall.c`: tasks open, bind, listen,
accept, connect, send, receive and close, each wait in the steps between which
the code holds no lock, while segments that fit a block or the service arrive and
timers fire.

`NetPath` follows packets through `netif.c`, `loop.c`, `netif_virtio.c`,
`ether.c`, `arp.c`, `ipv4.c`, `icmpv4.c`, `udp.c` and the worker loop of
`net_stack.c`. A buffer has a reference count that every function keeps, hands on
or drops, on each of its error paths; a packet is its kind, its other party and
the layer that will find fault with it. The ARP cache, the queues and the records
of UDP sockets have their real structure with small sizes. A receiver and
`udp_close` run in steps against each other, because the receiver does not go
through the worker.

`PktBuf` has the inside of a buffer: the chain of blocks, the cursor, and every
operation of `pktbuf.c` that the stack calls, with the checksum of `tools.h`. Its
reference is the flat string of bytes that the chain stands for.

The modules whose names begin with `MC` give instances to TLC; `NetExecProofs`,
`NetExecSendProofs`, `NetExecRefinement`, `SchedProofs`, `ProcTableProofs` and
`NetTimerProofs` hold the proofs.
Definitions such as `submit_check_leaves` or `wait_sleep_locked`, marked "Mutant"
in the comment in front of them, are altered forms of a definition that no
specification uses; they are kept to show that each property would notice that
change of the code.

## Runs

| run | what it checks | instance |
|---|---|---|
| `net_exec` | the executor implements `SerialExec`; the argument outlives the callback; OK means ran once; a slot is in one place; `fixq_send` never blocks; every call returns and abandoned slots are freed | 2 clients, 2 slots, queue of 2 (the code's proportions) and of 1; 85,000 states |
| `sched` | one hart per task and no spinlock across a switch, no lost wakeup, the semaphore implements `CountingSem`; tokens reach sleepers, deadlines wake, ready work is run | 2 tasks, 2 harts; 18,000 states |
| `proc_table` | parents are alive, `wait()` misses no exit, the exit locks have their holders; a `wait()` over a zombie returns | 4 entries, polling `wait()` |
| `virtio_disk` | descriptors accounted for, no stranded completion or sleeper, implements `BlockDisk` | 8 descriptors (2 chains), indices mod 16, 3 callers, one fault; 670,000 states |
| `virtio_net` | slots, descriptors and counts agree and no receive buffer is lost; nobody sleeps over a frame, a free slot, a failure or a reset; frames in order and once | 2 tasks, 2 descriptors a ring, 2 frames, 1 successful reset, faults |
| `net_timer` | the delta list implements `TimerSet`; the lists are sound; the check returns | 3 timers, up to 4 ms between checks |
| `tcp_conn` | what is acknowledged has arrived; old segments open nothing; implements `ByteStream`; no call of `close` is left waiting, but in `FIN_WAIT_2` | sequence numbers mod 16 that wrap, buffers of 2 bytes, MSS 1, 2 faults; 196,000 states |
| `tcp_socket` | the counts of waiters and pins are exact and no block is freed under one; sockets and blocks are one to one; a listener's books balance; nobody sleeps over what it waits for, but a task that shared `recv` | 2 tasks, 2 blocks, 2 sockets, backlog 1, 3 segments; 926,000 states |
| `net_path` | every reference to a buffer has an owner; the tables are sound; `udp_close` returns; a packet that waits for an address is sent or dropped | 2 buffers, queues of 1, 1 ARP entry with 1 waiting packet, 2 hosts and the own address, 2 tasks, 1 socket; 94,000 states |
| `pktbuf` | chain, cursor and total agree; reading, seeking and the checksum see the flat string; the operations change it as they should | 2 buffers, 3 blocks of 2 bytes; 56,000 states |
| `proc_table_panic`, `tcp_socket_end` | two findings, below | |

Bounds. `net_exec` has more timeouts than threads to race with: two clients are
enough for a slot to change hands while the worker holds it; the queue of one
place makes senders block, time out and undo. `MaxCount` and
`MaxTokens` stop posts and exits at a count; waits take the count down again, so
each value is reached many times. Four entries allow a grandparent, a parent, a
child and an entry to reuse. Eight descriptors are two chains and two left over
that no request can use; three callers make one wait. Indices modulo twice the
queue length wrap in every run and keep the property of 2^16 that matters: it is
a multiple of the ring's length and larger than it.
Two tasks and two slots fill the transmit ring with a sender left to sleep, and
two frames are enough for them to change places; a faulty device errs only before
the last successful reset, which leaves what follows a recovery to a device that
works. Every frame that comes in, damaged ones included, counts against
`MaxFrames`, since a device that delivers nothing but damaged frames would keep
the interrupt handler in its loop.
Three timers are one to run, one that waits with it and one behind them; four
milliseconds are longer than the periods, so that a timer reloads and expires again in one check.
`proc_table` is checked in the build whose `wait()` polls: the other build has the
same steps without the expiry of the poll (`wait_expire`), so its behaviours are
among these. Its `MaxTokens` is 1: nobody begins to exit while a token lies on some
`child_exit`, though exits that have begun go on and may post to one parent
together; the proofs cover both builds and every count, the liveness
property does not go further than the run. `sched` has as many tasks as its
liveness properties allow; two waiters at once with a third task to post are
left to the proofs, which cover its invariants and the refinement for every
number of tasks and harts. `proc_table_panic`
uses the other build and is run without the deadlock check because there the
system may stop, with all processes asleep in `wait()`. Clients, callers and data
values are interchangeable, so symmetry is used where no temporal property is
checked that it would make unsound; table entries and tasks are scanned in order,
so there it is not.

`tcp_conn`: A writes two bytes, which fill B's buffer, in segments of one, with
two faults, so that a retransmission may itself be lost, and initial
sequence numbers just below the wrap. The writers stop at `MaxBytes`, the network
at `MaxFaults`; retransmission itself is bounded by the code (`RetryMax`).
`tcp_socket`: two blocks are a listener and a child, or a child and its
successor; two tasks are enough for two acceptors on one child, a close under a
receiver, two receivers on one socket, and a reuse of a block. Two behaviours of
the code, described below, are in the run, and a property states each as its
exception: `WaiterHoldsBlock` asks no exact count of acceptors
and pins of a block that was connected again under an acceptor's pin
(`unpinned`), and `NobodyStranded` leaves out a task that was in `recv` together
with another one (`shared`). The accept ring and the receive buffer hold one
entry each, so the order inside them is not tested. `GenMax` of 1 retires an
entry at its first close: a task inside connect, accept or close meets a handle
another task has closed, but an entry used again under its next generation is
not in the run, which a second generation would make ten times as large.
`net_path`: with two buffers an echo and an ARP reply already exhaust the pool,
and an allocation may fail at any other time too, for want of blocks. One cache
entry makes every other address, the interface's own among them, evict what waits
in it; that an address has one entry only is therefore not tested. One place in a
queue makes the second packet fail. `pktbuf`: blocks of two
bytes and six bytes in all give chains of one to three blocks, with room in front,
behind and neither, and odd lengths for the checksum.
`tcp_conn` and `tcp_socket` may stop, with every connection ended and every
segment spent, so they are run without the deadlock check.

Fairness. `net_exec`: weak fairness of the worker and of each client inside a
call, whose timed waits are served or time out. It takes a hart for every
runnable thread, since `pick_runnable` promises no ready task a turn; nothing
forces a client to make another call.
`sched`: a timer interrupts `wfi` and user mode again and again, kernel
code runs on, and a hart that spins on a lock released again and again gets it
(the atomic exchange of `spin_lock` promises no more than the hardware does;
this is an assumption). `proc_table`: kernel steps and polling deadlines; no
process is forced to fork, exit or call `wait`. `net_timer`: the worker's check
goes on, and callbacks return, whatever they add. `tcp_conn`: weak fairness
of the work of the two stacks taken together: a segment on its way is read, a
timer fires when nothing is on its way any more (it may fire before), a task
inside `close` goes on when it is woken. All of this is finite work, so it is
enough that some of it is done while there is any. Programs are not forced to do
anything. `net_path`: the worker finishes a close it
has begun and reaches its timer check again and again (strong fairness of
`ArpTimer`), which assumes that its loops over requests and frames
(`net_stack.c:285`) run empty now and then; a task inside `recv` goes on when it
can.
The drivers are checked without fairness: `NobodyStranded` says that a sleeper
lacks what it sleeps for and that a completion has a handler coming, so that only
the device and the handler have to go on for a sleeper to be woken; that last step is not checked as a liveness property.

Findings (runs that TLC refutes). `proc_table_panic`: `lock_parent_exit` locks the
parent's `child_exit` and only then tests whether that is still its parent; when
the parent has exited and its entry is used again meanwhile, `sem_init` has reset
the lock and `spin_unlock` panics with "not owner".

`tcp_socket_end`: two tasks sleep in `recv` on one socket when its connection
ends. `tcp_notify_terminal` posts a token for each, but the first to run takes its
own, goes round the loop, sees the end and takes a second token without waiting
(`tcp.c:1115`). The other one sleeps on, and as the end is notified once
(`terminal_notified`), nothing wakes it: `tcp_close` posts nothing to it, and
`tcp_connect_start` refuses a block that has a receiver. The document
says that a change of the connection wakes the process (`:652`) and that every
blocking request has a completion of its own (`:655`).

## What the code also does

Modelling showed these behaviours. Those of modelled code are in the modules,
and no property claims the opposite.

- `__sys_fork` publishes the child although `uvmcopy` failed (`task.c:461`); the
  design document (`:390`) asks for a complete roll-back. After a device error
  `virtio_disk.c:32` fails its callers without resetting the device, which keeps
  chains that point at their buffers; the document (`:742`) asks for a reset. Both
  are in `ProcTable` and `VirtioDisk`.
- Two acceptors may look at the same head of the queue (`tcp.c:662`); one commits,
  and when that connection ends and its socket connects again, `tcp_connect_start`
  clears the pin the other still holds (`tcp.c:306`).
- A receive is refused in `TIME_WAIT` and `CLOSED` even when data is unread
  (`tcp.c:1062`); a FIN in `ESTABLISHED` starts the local FIN by itself;
  `FIN_WAIT_2` has no timer (`:1542`), so an end may stay there when its peer is
  silent; reading sends no window update (`:882`); when the last ACK of the
  handshake is lost between two such stacks, data does not complete it (`:1796`);
  one listener serves the whole stack; aborted accepts leave tokens on
  `accept_done`.
- `arp_in` returns before it replies when sending the packets that waited fails;
  eviction drops them. `udp_close` keeps the worker waiting for the receivers it
  has woken. Unbound UDP sockets all have port 0.
- The worker drains an input queue only behind a poll that got a frame
  (`net_stack.c:270`): a frame for the own hardware address, which
  `ether_raw_out` puts there (`ether.c:142`), waits for the next frame from outside.
  When the queue is full, `netif_put_in` refuses that frame as well, the poll
  fails, and the interface receives nothing any more.
- `pktbuf_alloc` gives a buffer back without the lock when it gets no blocks
  (`pktbuf.c:335`), while a task in `udp_recvfrom` may free another
  (`udp.c:232`, `:256`). Two insertions at once may lose a buffer from the free
  list. `NetPath` lets an allocation fail at any time, which covers what follows;
  `BuffersAccounted` speaks of references and not of that list. And `pktbuf_resize` reads the size of a block it has just given
  back (`:544`), which is still there unless another thread takes the block.
- A ready task may be passed over for ever by `pick_runnable` (`task.c:275`), the
  network interrupt handler stays in its loop while frames keep coming
  (`virtio_net.c:583`), and the generation of a file handle wraps (`file.c:191`),
  unlike that of a socket, which retires.

## Proofs

`NetExecProofs` assumes that both sizes are positive and that the null callback
is not a client. `CallbackArgumentAlive` and the others are not inductive: that
the worker's callback belongs to a client still inside its call depends on what
the client may have concluded from `started`, `completed` and the token. `IInv`
says where each slot is (`PlaceInv`: free, with its client before sending, in
the queue, at the worker, or finished; `QueueDistinct`), who owns it
(`OwnerInv`), what its flags and tokens mean there (`SlotInv`), and what a
client at each point of the call knows (`CallInv`, for each client `CallOf`).
The proof has one lemma per group of actions; `InCallStep` and `SameCalls` cover
the steps of a client or the worker that move no slot, `ConcludeStep` the end of
a call, `AppendQueue` and `TakeQueue` the queue. From
`IInv`: type correctness, `CallbackArgumentAlive`, `OkMeansRanOnce`,
`FreeSlotHasNoToken` and `SlotHeldOnce`, for every number of clients and slots,
also with a queue shorter than the table.

`NetExecSendProofs` proves `SendNeverBlocks`, which `IInv` does not give. The
argument is a count: the tokens of `send_sem` and the requests that hold a place
(on the way into the queue, in it, or taken and not yet notified) add up to the
size of the queue (`Booked`). The request of a client that is about to send holds
none, so if the queue has as many places as the table has slots a token is left
(`Room`).

`NetExecRefinement` proves `Spec => ImplementsSerialExec`. `RInv` adds to `IInv`
that a call that ends without a completion has been given an error. `Seen` spells
out the refinement mapping; a step is then a stutter when every call is `Still`,
and otherwise moves one call: taking a slot is `Call`, the full table `Refuse`,
marking the request started `Begin`, the end of the callback `End`, and the end of
`net_exec_submit` is `Return` where the request was completed and `GiveUp` where
it was not, which by `IInv` is a request the worker has not begun and will drop.

`SchedProofs` assumes at least one task and one hart. `SwitchInv` says that a stack
has one hart (`StackInv`), that a lock is held by the hart whose task is at a point
where the code holds it, or that has just switched back (`LockInv`), and where a
task may be in each state, on a hart and off (`PointInv`). The step that needs it is
`scheduler_run`: `task_lock` is free, so nobody is between changing its state and
`__switch`, and a task that is not `Running` is off all harts (`PickedIsOff`).
`SwitchesClean` follows. `NoLostWakeup` is a count, kept by one lemma per step: a
post books a poster, `task_wake` turns it into a woken waiter, and a woken waiter
leaves with its token or finds none. It needs of `WaitInv` that a task on its way to
sleep holds `sem_lock` over a count of zero, and the refinement needs of it that
only a timed wait gives up. `ImplementsSem` proves `Spec => ImplementsCountingSem`:
entering a call is `Enter`, the test of the count `Take` or `Block`, giving up
`Timeout`, `sem_post` `Post`; all else, the scheduler included, stutters.

`ProcTableProofs` assumes a table of at least one entry. `IInv` adds to the
properties what states go with which point of the code (`StateInv`), that an
entry reserved by a fork is that fork's alone (`ForkInv`), and whom an exiting
process may hold the lock of (`LockInv`); one step per action, one per conjunct.
From it: type correctness, `ParentAlive`, `WaitSeesExit`, `ExitLockOwner`, for
every table length, in both builds, with and without failing copies.

`NetTimerProofs` assumes that periods are positive. `IInv` says that the list is
`Sound` at every moment (no timer twice, the first one not due), that no timer is on
both lists or on the wait list while its callback runs, and that a periodic timer
has a period. What the refinement
needs is arithmetic on the delta list: inserting, removing and expiring change the
sums of its differences for one timer and for no other (`InsertArms`,
`RemoveDisarms`, `AdvanceLeft`, `ExpireLeft`). The sums are a recursive function;
that it has its defining equation is proved by induction over sets of numbers
(`Induction`, from the well-foundedness of `<`). From this: `ListsSound` and
`Spec => ImplementsTimerSet`, for any timers, calls and times.

Only model-checked: all liveness (outside the prover's reach), the refinements of
`BlockDisk` and `ByteStream`, and everything about the two drivers, TCP, the
packet path and the buffers. TCP, the packet path and the buffers are described
by folds over lists, about which this prover cannot do induction.

## Plan

What could follow: proofs about descriptor ownership of the two drivers; a second
generation of sockets and a longer backlog in `TcpSocket`; the file
table with its sleeplock; the TFTP client against a peer that repeats and delays
its blocks.

## Not modelled

Page tables (beyond the result of `uvmcopy`), TLB shootdown (a synchronous SBI
call), boot, console, ELF loading, the interrupt controller, and the parsing and
building of headers (IPv4, ICMP, DNS, Ethernet) have no protocol between actors
that a small instance would exercise. FatFs and FreeRTOS are third-party code.
The block cache of `bio.c`, `pktbuf_join` and `arp_make_gratuitous` have no
callers; `netif_set_active` and `netif_set_deactive` are called by nobody after
start-up, but `NetPath` has them for their effect on the queues.
The file table, whose calls are
serialised by one sleeplock around FatFs, and the user programs, sequential
clients of the calls modelled here, are left out. Weak memory is not modelled:
shared state is accessed under locks with acquire and release semantics. The interrupt-disable
nesting of spinlocks is not modelled; a driver's interrupt handler is another
actor that takes the driver's lock. The raw frame test of `virtio_net.c`, built
for one milestone only, is not modelled.
