------------------------------- MODULE PktBuf -------------------------------
(***************************************************************************)
(* Packet buffers, pktbuf.c over mblock.c and the checksum of tools.h: a   *)
(* packet is a chain of blocks from a pool, each with room before and      *)
(* after its data, read and written through a cursor.                      *)
(*                                                                         *)
(* A block is [pre, data]: the offset of data in payload and the bytes     *)
(* there.  A buffer is [ref, total, blks, pos, cur, off]; cur is the index *)
(* of curr_blk, 0 for none, and off is blk_offset within that block.       *)
(* Memory that was not written yet holds any byte, the same everywhere:    *)
(* pktbuf_fill of parts leads to all other contents.                       *)
(***************************************************************************)
EXTENDS Integers, Sequences, SequencesExt

CONSTANTS Bufs,     \* pktbuf_buffer
          BlkSize,  \* PKTBUF_BLK_SIZE
          BlkCnt,   \* PKTBUF_BLK_CNT
          Bytes,    \* the bytes that are written
          MaxRef    \* bound on the references to a buffer

ASSUME BufAssumption ==
  /\ BlkSize \in Nat \ {0} /\ BlkCnt \in Nat \ {0} /\ MaxRef \in Nat \ {0}
  /\ Bytes \subseteq 0 .. 255 /\ Bytes # {}

VARIABLES buf,   \* of each buffer its record
          free   \* the number of blocks in block_list

vars == <<buf, free>>

NoBuf == [ref |-> 0, total |-> 0, blks |-> <<>>, pos |-> 0, cur |-> 0, off |-> 0]

Sizes == 0 .. BlkSize * BlkCnt + 1
Junk(k) == {[i \in 1 .. k |-> v] : v \in Bytes}

Size(blk) == Len(blk.data)
Total(blks) == FoldLeft(LAMBDA a, blk : a + Size(blk), 0, blks)
Flat(p) == FoldLeft(LAMBDA s, blk : s \o blk.data, <<>>, p.blks)

-----------------------------------------------------------------------------
(* Blocks and the cursor *)

total_blk_remain(p) == p.total - p.pos
curr_blk_remain(p) == IF p.cur = 0 THEN 0 ELSE Size(p.blks[p.cur]) - p.off
curr_blk_tail_free(blk) == BlkSize - blk.pre - Size(blk)

pktbuf_reset_acc(p) ==
  [p EXCEPT !.pos = 0, !.off = 0, !.cur = IF p.blks = <<>> THEN 0 ELSE 1]

(* The number of blocks, and the chain of pktblock_alloc_list for bytes s:   *)
(* the room that is left over is at the very front or at the very end.       *)
Needs(k) == (k + BlkSize - 1) \div BlkSize
pktblock_alloc_list(s, add_front) ==
  LET count == Needs(Len(s))
      short == Len(s) - (count - 1) * BlkSize   \* bytes in the block that is not full
      front(i) == IF i = 1 THEN 1 ELSE short + (i - 2) * BlkSize + 1
      upto(i)  == IF add_front THEN short + (i - 1) * BlkSize ELSE Min({i * BlkSize, Len(s)})
      from(i)  == IF add_front THEN front(i) ELSE (i - 1) * BlkSize + 1
  IN  [i \in 1 .. count |->
         [pre |-> IF add_front /\ i = 1 THEN BlkSize - short ELSE 0,
          data |-> SubSeq(s, from(i), upto(i))]]

(* Mutant: the blocks go to the end of the list. *)
InsertFirst_last(p, blks) == [p EXCEPT !.blks = @ \o blks, !.total = @ + Total(blks)]

(* pktbuf_insert_blk_list *)
InsertLast(p, blks)  == [p EXCEPT !.blks = @ \o blks, !.total = @ + Total(blks)]
InsertFirst(p, blks) == [p EXCEPT !.blks = blks \o @, !.total = @ + Total(blks)]

(* Mutant: the cursor stays behind the last byte of a block. *)
move_forward_stays(p, k) ==
  IF p.cur = 0 \/ k <= 0 THEN p
  ELSE IF p.off + k <= Size(p.blks[p.cur]) THEN [p EXCEPT !.pos = @ + k, !.off = @ + k]
  ELSE [p EXCEPT !.pos = @ + k, !.off = 0,
                 !.cur = IF p.cur = Len(p.blks) THEN 0 ELSE p.cur + 1]

move_forward(p, k) ==
  IF p.cur = 0 \/ k <= 0 THEN p
  ELSE IF p.off + k < Size(p.blks[p.cur]) THEN [p EXCEPT !.pos = @ + k, !.off = @ + k]
  ELSE [p EXCEPT !.pos = @ + k, !.off = 0,
                 !.cur = IF p.cur = Len(p.blks) THEN 0 ELSE p.cur + 1]

(* The loop of write, read, fill, seek and checksum: size bytes in pieces    *)
(* that each lie in one block.  A piece of length 0 is a loop that does not  *)
(* end; it is the last one here.                                             *)
RECURSIVE Pieces(_, _)
Pieces(p, size) ==
  LET k == Min({size, curr_blk_remain(p)})
  IN  IF size = 0 THEN <<>>
      ELSE <<[cur |-> p.cur, off |-> p.off, len |-> k]>>
           \o (IF k = 0 THEN <<>> ELSE Pieces(move_forward(p, k), size - k))

Advance(p, pieces) == FoldLeft(LAMBDA q, c : move_forward(q, c.len), p, pieces)
Ends(pieces) == \A i \in DOMAIN pieces : pieces[i].len > 0

PieceData(p, c) == SubSeq(p.blks[c.cur].data, c.off + 1, c.off + c.len)

(* plat_memcpy of the bytes s into the pieces *)
Put(p, pieces, s) ==
  LET start(i) == FoldLeft(LAMBDA a, c : a + c.len, 0, SubSeq(pieces, 1, i - 1))
      store(q, i) == LET c == pieces[i]
                     IN  [q EXCEPT !.blks[c.cur].data =
                            [j \in DOMAIN @ |-> IF j > c.off /\ j <= c.off + c.len
                                                THEN s[start(i) + j - c.off] ELSE @[j]]]
  IN  FoldLeft(store, p, [i \in DOMAIN pieces |-> i])

-----------------------------------------------------------------------------
(* The operations on a buffer p that need no memory *)

(* pktbuf_read: what it returns, if it does. *)
pktbuf_read(p, k) ==
  FoldLeft(LAMBDA s, c : s \o PieceData(p, c), <<>>, Pieces(p, k))

(* pktbuf_write, and pktbuf_fill where s has one value *)
pktbuf_write(p, s) == Advance(Put(p, Pieces(p, Len(s)), s), Pieces(p, Len(s)))

pktbuf_seek(p, k) ==
  LET q == IF k < p.pos THEN pktbuf_reset_acc(p) ELSE p
  IN  Advance(q, Pieces(q, k - q.pos))

(* net_checksum_fold, checksum16 over one piece and pktbuf_checksum16 *)
RECURSIVE net_checksum_fold(_)
net_checksum_fold(sum) ==
  IF sum \div 65536 = 0 THEN sum ELSE net_checksum_fold((sum % 65536) + (sum \div 65536))

(* Mutant: every block starts with the high byte of a word. *)
checksum16_even(offset, s, pre_sum) ==
  LET add(sum, i) == net_checksum_fold(sum + (IF i % 2 = 1 THEN 256 * s[i] ELSE s[i]))
  IN  FoldLeft(add, pre_sum, [i \in DOMAIN s |-> i])

checksum16(offset, s, pre_sum) ==
  LET add(sum, i) == net_checksum_fold(
                       sum + (IF (offset + i - 1) % 2 = 0 THEN 256 * s[i] ELSE s[i]))
  IN  FoldLeft(add, pre_sum, [i \in DOMAIN s |-> i])

pktbuf_checksum16(p, k, pre_sum) ==
  LET step(a, c) == [sum |-> checksum16(a.offset, PieceData(p, c), a.sum),
                     offset |-> a.offset + c.len]
  IN  FoldLeft(step, [sum |-> pre_sum, offset |-> 0], Pieces(p, k)).sum

(* The loop of pktbuf_remove_header *)
RECURSIVE Behead(_, _)
Behead(blks, k) ==
  IF k = 0 THEN blks
  ELSE IF k < Size(Head(blks))
  THEN <<[pre |-> Head(blks).pre + k, data |-> SubSeq(Head(blks).data, k + 1, Size(Head(blks)))]>>
       \o Tail(blks)
  ELSE Behead(Tail(blks), k - Size(Head(blks)))

(* pktbuf_resize to a smaller size: the block that holds the last byte is cut *)
Shrink(p, k) ==
  LET tail == Min({i \in DOMAIN p.blks : Total(SubSeq(p.blks, 1, i)) >= k})
      gone == Total(SubSeq(p.blks, tail + 1, Len(p.blks)))
      size == Size(p.blks[tail]) - (p.total - gone - k)
  IN  [p EXCEPT !.blks = [SubSeq(@, 1, tail) EXCEPT ![tail].data = SubSeq(@, 1, size)],
                !.total = k]

(* pktbuf_resize to a larger size, with s the bytes that are there *)
Grow(p, s) ==
  LET last == Len(p.blks)
      room == Min({curr_blk_tail_free(p.blks[last]), Len(s)})
      q == [p EXCEPT !.blks[last].data = @ \o SubSeq(s, 1, room), !.total = @ + room]
  IN  IF p.blks = <<>> THEN InsertLast(p, pktblock_alloc_list(s, FALSE))
      ELSE InsertLast(q, pktblock_alloc_list(SubSeq(s, room + 1, Len(s)), FALSE))

(* The loop of pktbuf_set_cont: bytes move from the blocks behind into the   *)
(* first one; a block that becomes empty is freed.                           *)
RECURSIVE Gather(_, _, _)
Gather(first, rest, need) ==
  LET next == Head(rest)
      k == Min({need, Size(next)})
      more == [first EXCEPT !.data = @ \o SubSeq(next.data, 1, k)]
      less == [pre |-> next.pre + k, data |-> SubSeq(next.data, k + 1, Size(next))]
  IN  IF need = 0 \/ rest = <<>> THEN <<first>> \o rest
      ELSE Gather(more, IF less.data = <<>> THEN Tail(rest) ELSE <<less>> \o Tail(rest), need - k)

SetCont(p, k) ==
  IF k <= Size(p.blks[1]) THEN p
  ELSE [p EXCEPT !.blks = Gather([@[1] EXCEPT !.pre = 0], Tail(@), k - Size(@[1]))]

(* pktbuf_add_header with s the bytes that are there *)
AddHeader(p, s, cont) ==
  LET k == Len(s)
      room == p.blks[1].pre
      cut == IF cont THEN k ELSE k - room      \* bytes in new blocks
      wide(q) == IF cut = k THEN q
                 ELSE [q EXCEPT !.blks[1].pre = 0, !.blks[1].data = SubSeq(s, cut + 1, k) \o @,
                                !.total = @ + room]
  IN  IF p.blks = <<>> THEN InsertFirst(p, pktblock_alloc_list(s, TRUE))
      ELSE IF k <= room
      THEN [p EXCEPT !.blks[1].pre = @ - k, !.blks[1].data = s \o @, !.total = @ + k]
      ELSE InsertFirst(wide(p), pktblock_alloc_list(SubSeq(s, 1, cut), TRUE))

-----------------------------------------------------------------------------
(* Actions.  A call that fails changes nothing. *)

Init == buf = [b \in Bufs |-> NoBuf] /\ free = BlkCnt

Used(b) == buf[b].ref > 0

(* b becomes p; the blocks it takes more come from the pool. *)
Becomes(b, p) ==
  /\ free + Len(buf[b].blks) >= Len(p.blks)
  /\ buf' = [buf EXCEPT ![b] = p]
  /\ free' = free + Len(buf[b].blks) - Len(p.blks)

pktbuf_alloc(b, k) ==
  /\ ~Used(b)
  /\ \E s \in Junk(k) :
       Becomes(b, pktbuf_reset_acc(InsertLast([NoBuf EXCEPT !.ref = 1], pktblock_alloc_list(s, FALSE))))

pktbuf_inc_ref(b) ==
  /\ Used(b) /\ buf[b].ref < MaxRef
  /\ Becomes(b, [buf[b] EXCEPT !.ref = @ + 1])

pktbuf_free(b) ==
  /\ Used(b)
  /\ Becomes(b, IF buf[b].ref = 1 THEN NoBuf ELSE [buf[b] EXCEPT !.ref = @ - 1])

pktbuf_add_header(b, k, cont) ==
  /\ Used(b) /\ k > 0
  /\ (cont /\ buf[b].blks # <<>>) => k <= Max({BlkSize, buf[b].blks[1].pre})
  /\ \E s \in Junk(k) : Becomes(b, pktbuf_reset_acc(AddHeader(buf[b], s, cont)))

pktbuf_remove_header(b, k) ==
  /\ Used(b) /\ k > 0 /\ k <= buf[b].total
  /\ Becomes(b, pktbuf_reset_acc([buf[b] EXCEPT !.blks = Behead(@, k), !.total = @ - k]))

pktbuf_resize(b, k) ==
  LET p == buf[b]
  IN  /\ Used(b) /\ k # p.total
      /\ \/ k = 0 /\ Becomes(b, pktbuf_reset_acc([p EXCEPT !.blks = <<>>, !.total = 0]))
         \/ k > 0 /\ k < p.total /\ Becomes(b, pktbuf_reset_acc(Shrink(p, k)))
         \/ /\ k > p.total
            /\ \E s \in Junk(k - p.total) : Becomes(b, pktbuf_reset_acc(Grow(p, s)))

pktbuf_set_cont(b, k) ==
  /\ Used(b) /\ k > 0 /\ k <= Min({buf[b].total, BlkSize})
  /\ Becomes(b, pktbuf_reset_acc(SetCont(buf[b], k)))

Seek(b, k) == Used(b) /\ k <= buf[b].total /\ Becomes(b, pktbuf_seek(buf[b], k))

pktbuf_fill(b, k) ==
  /\ Used(b) /\ k > 0 /\ k <= total_blk_remain(buf[b])
  /\ \E s \in Junk(k) : Becomes(b, pktbuf_write(buf[b], s))

(* pktbuf_copy, in pieces of both buffers *)
pktbuf_copy(b, c, k) ==
  LET s == pktbuf_read(buf[c], k)
  IN  /\ Used(b) /\ Used(c) /\ b # c /\ k > 0
      /\ k <= Min({total_blk_remain(buf[b]), total_blk_remain(buf[c])})
      /\ buf' = [buf EXCEPT ![b] = pktbuf_write(@, s), ![c] = Advance(@, Pieces(@, k))]
      /\ UNCHANGED free

Next ==
  \E b \in Bufs :
     \/ pktbuf_inc_ref(b) \/ pktbuf_free(b)
     \/ \E k \in Sizes : \/ pktbuf_alloc(b, k) \/ pktbuf_remove_header(b, k)
                         \/ \E cont \in BOOLEAN : pktbuf_add_header(b, k, cont)
                         \/ pktbuf_resize(b, k) \/ pktbuf_set_cont(b, k)
                         \/ Seek(b, k) \/ pktbuf_fill(b, k)
                         \/ \E c \in Bufs : pktbuf_copy(b, c, k)

Spec == Init /\ [][Next]_vars

-----------------------------------------------------------------------------
(* Properties *)

(* What display_check_buf checks of a chain, and what the loops rely on: the *)
(* sizes of the blocks fit their payload and add up to total_size, no block  *)
(* is empty, and the cursor is in the block that holds position pos.         *)
ChainSound ==
  \A b \in Bufs :
     LET p == buf[b]
     IN  /\ \A i \in DOMAIN p.blks : /\ p.blks[i].pre >= 0 /\ Size(p.blks[i]) > 0
                                     /\ curr_blk_tail_free(p.blks[i]) >= 0
         /\ p.total = Total(p.blks)
         /\ p.pos \in 0 .. p.total
         /\ IF p.pos = p.total THEN p.cur = 0
            ELSE /\ p.cur \in DOMAIN p.blks /\ p.off < Size(p.blks[p.cur])
                 /\ p.pos = Total(SubSeq(p.blks, 1, p.cur - 1)) + p.off

(* The sum of a sequence of bytes as RFC 1071 has it: 16-bit words, added in *)
(* ones' complement.                                                         *)
OnesSum(s) ==
  LET t == FoldLeft(LAMBDA a, i : a + (IF i % 2 = 1 THEN 256 * s[i] ELSE s[i]), 0,
                    [i \in DOMAIN s |-> i])
  IN  IF t = 0 THEN 0 ELSE ((t - 1) % 65535) + 1

(* Wherever the cursor stands and however the bytes lie in blocks, reading   *)
(* and summing them is what it is for a plain array: every loop ends and no  *)
(* odd block boundary swaps the bytes of the checksum.                       *)
ReadsFlat ==
  \A b \in Bufs : Used(b) =>
     \A k \in 0 .. total_blk_remain(buf[b]) :
        LET s == SubSeq(Flat(buf[b]), buf[b].pos + 1, buf[b].pos + k)
        IN  /\ Ends(Pieces(buf[b], k))
            /\ pktbuf_read(buf[b], k) = s
            /\ pktbuf_checksum16(buf[b], k, 0) = OnesSum(s)

(* Every operation does to the bytes of a packet what it does to a plain      *)
(* array, wherever the block boundaries are: headers are added and removed in *)
(* front, resizing keeps the bytes that stay, set_cont brings the bytes       *)
(* together and changes none, and a write changes those it covers.  The new   *)
(* bytes are Marks, which tell every position apart.                          *)
Marks(k) == [i \in 1 .. k |-> 255 + i]
From(t, k) == SubSeq(t, k + 1, Len(t))
ActsFlat ==
  \A b \in Bufs : Used(b) =>
     LET p == buf[b]
         t == Flat(p)
     IN  /\ \A k \in 1 .. BlkSize + 1 :
              /\ \A cont \in BOOLEAN : Flat(AddHeader(p, Marks(k), cont)) = Marks(k) \o t
              /\ Flat(Grow(p, Marks(k))) = t \o Marks(k)
         /\ \A k \in 1 .. Len(t) :
              /\ Flat([p EXCEPT !.blks = Behead(@, k)]) = From(t, k)
              /\ Flat(Shrink(p, k)) = SubSeq(t, 1, k)
         /\ \A k \in 1 .. Min({Len(t), BlkSize}) :
              LET q == SetCont(p, k) IN Flat(q) = t /\ Size(q.blks[1]) >= k
         /\ \A k \in 1 .. total_blk_remain(p) :
              Flat(pktbuf_write(p, Marks(k)))
                = SubSeq(t, 1, p.pos) \o Marks(k) \o From(t, p.pos + k)
=============================================================================
