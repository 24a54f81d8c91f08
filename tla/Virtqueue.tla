----------------------------- MODULE Virtqueue -----------------------------
(***************************************************************************)
(* The split ring of kernel/src/virtqueue.c, as operators on a record:     *)
(*   free, active   the driver's bookkeeping arrays, as sets               *)
(*   next           the NEXT flag and the next field of each descriptor    *)
(*   avail, used    the two rings, each with its free-running index        *)
(*   used_idx       the driver's position in the used ring                 *)
(*   avail_idx      the device's position in the avail ring                *)
(* The last field and the operators marked Device stand for the device.    *)
(* A ring entry is cleared where it is read, since nobody reads it again.  *)
(***************************************************************************)
EXTENDS Integers, FiniteSets, FiniteSetsExt

CONSTANTS VIRTQ_NUM,    \* descriptors, and entries of each ring
          IdxMod        \* the range of a ring index: 2^16 in the code

ASSUME RingAssumption == /\ VIRTQ_NUM \in Nat \ {0}
                         /\ IdxMod \in Nat
                         /\ IdxMod > VIRTQ_NUM
                         /\ IdxMod % VIRTQ_NUM = 0

Desc   == 0 .. (VIRTQ_NUM - 1)
NoDesc == VIRTQ_NUM     \* no next descriptor; also an id no descriptor has

Ring   == [idx : 0 .. (IdxMod - 1), ring : [Desc -> Desc \cup {NoDesc}]]
Queue  == [free : SUBSET Desc, active : SUBSET Desc,
           next : [Desc -> Desc \cup {NoDesc}],
           avail : Ring, used : Ring,
           used_idx : 0 .. (IdxMod - 1), avail_idx : 0 .. (IdxMod - 1)]

EmptyRing  == [idx |-> 0, ring |-> [i \in Desc |-> NoDesc]]
virtq_init == [free |-> Desc, active |-> {}, next |-> [i \in Desc |-> NoDesc],
               avail |-> EmptyRing, used |-> EmptyRing,
               used_idx |-> 0, avail_idx |-> 0]

(* alloc_desc takes the lowest free descriptor each time. *)
Lowest(S, n) == {i \in S : Cardinality({j \in S : j < i}) < n}

(* The descriptors of a chain of n: a failed allocation gives all of them    *)
(* back, so it is a test.                                                    *)
CanAlloc(q, n)  == Cardinality(q.free) >= n
ChainHead(q, n) == Min(Lowest(q.free, n))

virtq_alloc_chain(q, n) ==
  LET got     == Lowest(q.free, n)
      Link(i) == LET rest == {j \in got : j > i}
                 IN IF rest = {} THEN NoDesc ELSE Min(rest)
  IN [q EXCEPT !.free = @ \ got,
               !.next = [i \in Desc |-> IF i \in got THEN Link(i) ELSE @[i]]]

(* Appends an entry to a ring and publishes the index. *)
Push(r, id) == [idx  |-> (r.idx + 1) % IdxMod,
                ring |-> [r.ring EXCEPT ![r.idx % VIRTQ_NUM] = id]]

virtq_submit(q, head) ==
  IF head \in q.free \cup q.active
    THEN q
    ELSE [q EXCEPT !.active = @ \cup {head}, !.avail = Push(@, head)]

(* What the loop of virtq_free_chain meets from head. *)
Chain(q, head) ==
  LET walk[n \in 0 .. VIRTQ_NUM] ==
        IF n = 0 THEN {head}
                 ELSE LET met == walk[n - 1] IN met \cup {q.next[i] : i \in met \ {NoDesc}}
  IN walk[VIRTQ_NUM] \ {NoDesc}

(* The number of descriptors freed, or -1. *)
FreedBy(q, head) ==
  LET chain == Chain(q, head) IN
  IF \/ head \in q.active
     \/ chain \cap q.free # {}
     \/ \A i \in chain : q.next[i] # NoDesc
    THEN -1
    ELSE Cardinality(chain)

(* Mutant: only the head is given back. *)
virtq_free_chain_head(q, head) ==
  [q EXCEPT !.free = @ \cup {head}, !.next[head] = NoDesc]

virtq_free_chain(q, head) ==
  LET chain == Chain(q, head) IN
  IF FreedBy(q, head) < 0
    THEN q
    ELSE [q EXCEPT !.free = @ \cup chain,
                   !.next = [i \in Desc |-> IF i \in chain THEN NoDesc ELSE @[i]]]

(* virtq_pop_used_len: the entry is consumed whether or not its id is one of *)
(* an active descriptor.                                                     *)
HasUsed(q)   == q.used_idx # q.used.idx
UsedId(q)    == q.used.ring[q.used_idx % VIRTQ_NUM]
UsedIsBad(q) == UsedId(q) \notin q.active
virtq_pop_used(q) ==
  [q EXCEPT !.used_idx = (@ + 1) % IdxMod,
            !.used.ring[q.used_idx % VIRTQ_NUM] = NoDesc,
            !.active = @ \ {UsedId(q)}]

(* Device: takes the next chain from the avail ring, returns one. *)
HasAvail(q)    == q.avail_idx # q.avail.idx
AvailHead(q)   == q.avail.ring[q.avail_idx % VIRTQ_NUM]
DeviceTakes(q) == [q EXCEPT !.avail_idx = (@ + 1) % IdxMod,
                            !.avail.ring[q.avail_idx % VIRTQ_NUM] = NoDesc]
DeviceReturns(q, id) == [q EXCEPT !.used = Push(@, id)]
=============================================================================
