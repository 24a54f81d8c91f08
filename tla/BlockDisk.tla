----------------------------- MODULE BlockDisk -----------------------------
(***************************************************************************)
(* What the callers of virtio_blk_transfer rely on: a transfer takes       *)
(* effect at one instant between the call and the return, and a call that  *)
(* reports success has taken effect; a call that fails has not.  When the  *)
(* device breaks that is over: from then on no call succeeds, and nothing  *)
(* is promised of the contents.                                            *)
(***************************************************************************)
CONSTANTS Callers, Sectors, Values, Blank

VARIABLES contents,   \* of the disk
          broken,     \* the driver has given the device up
          call        \* per caller: its phase, its op, the data of its buffer

Ops     == [write : BOOLEAN, sector : Sectors]
NoCall  == [phase |-> "idle", op |-> Blank, data |-> Blank]

vars == <<contents, broken, call>>

Init ==
  /\ contents \in [Sectors -> Values]
  /\ broken = FALSE
  /\ call = [c \in Callers |-> NoCall]

(* A write brings its data, a read an empty buffer. *)
Start(c) ==
  /\ call[c] = NoCall
  /\ \E op \in Ops, v \in Values \cup {Blank} :
        /\ op.write <=> v # Blank
        /\ call' = [call EXCEPT ![c] = [phase |-> "pending", op |-> op, data |-> v]]
  /\ UNCHANGED contents

Perform(c) ==
  LET op == call[c].op IN
  /\ call[c].phase = "pending"
  /\ IF op.write
       THEN /\ contents' = [contents EXCEPT ![op.sector] = call[c].data]
            /\ call' = [call EXCEPT ![c].phase = "done"]
       ELSE /\ call' = [call EXCEPT ![c].phase = "done",
                                    ![c].data = contents[op.sector]]
            /\ UNCHANGED contents

Fail(c) ==
  /\ call[c].phase = "pending"
  /\ call' = [call EXCEPT ![c].phase = "failed"]
  /\ UNCHANGED contents

Return(c) ==
  /\ call[c].phase \in {"done", "failed"}
  /\ call' = [call EXCEPT ![c] = NoCall]
  /\ UNCHANGED contents

Works == /\ ~broken /\ ~broken'
         /\ \E c \in Callers : Start(c) \/ Perform(c) \/ Fail(c) \/ Return(c)

(* The step that breaks the disk, and every later one. *)
Breaks == /\ broken'
          /\ \A c \in Callers : call'[c].phase = "done" => call[c].phase = "done"

Next == Works \/ Breaks

Spec == Init /\ [][Next]_vars
=============================================================================
