----------------------------- MODULE ByteStream -----------------------------
(***************************************************************************)
(* What two programs expect of a TCP connection between them: each end     *)
(* writes the bytes 1, 2, 3 and so on; the other gets them in order, each   *)
(* once, and none that was not written; and an end that has seen the       *)
(* connection close in order has got everything, and so has the other.     *)
(***************************************************************************)
EXTENDS Integers, Sequences

CONSTANTS Ends, Peer(_)

VARIABLES written,    \* how many bytes an end has written
          delivered,  \* the bytes that have arrived at an end
          fate        \* "open", "orderly" or "aborted"

vars == <<written, delivered, fate>>

Init ==
  /\ written = [e \in Ends |-> 0]
  /\ delivered = [e \in Ends |-> <<>>]
  /\ fate = [e \in Ends |-> "open"]

Write(e) ==
  /\ fate[e] = "open"
  /\ written' = [written EXCEPT ![e] = written'[e]]
  /\ written'[e] > written[e]
  /\ UNCHANGED <<delivered, fate>>

Deliver(e) ==
  /\ fate[e] = "open"
  /\ \E upto \in Len(delivered[e]) + 1 .. written[Peer(e)] :
        delivered' = [delivered EXCEPT ![e] = [k \in 1 .. upto |-> k]]
  /\ UNCHANGED <<written, fate>>

Complete(e) == delivered[e] = [k \in 1 .. written[Peer(e)] |-> k]

(* The last segment may bring the last bytes and the end at once. *)
Finish(e) ==
  /\ fate[e] = "open"
  /\ fate' = [fate EXCEPT ![e] = "orderly"]
  /\ delivered' \in {delivered, [delivered EXCEPT ![e] = [k \in 1 .. written[Peer(e)] |-> k]]}
  /\ Complete(e)' /\ Complete(Peer(e))'
  /\ UNCHANGED written

Abort(e) ==
  /\ fate[e] = "open"
  /\ fate' = [fate EXCEPT ![e] = "aborted"]
  /\ delivered' \in {delivered} \cup
       {[delivered EXCEPT ![e] = [k \in 1 .. upto |-> k]] :
          upto \in Len(delivered[e]) .. written[Peer(e)]}
  /\ UNCHANGED written

Next == \E e \in Ends : Write(e) \/ Deliver(e) \/ Finish(e) \/ Abort(e)

Spec == Init /\ [][Next]_vars
=============================================================================
