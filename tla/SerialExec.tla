----------------------------- MODULE SerialExec -----------------------------
(***************************************************************************)
(* What net_exec promises to the threads that call net_exec_submit: every  *)
(* call is a request that one network worker runs at most once, never two  *)
(* at a time; a call that reports success was run exactly once before it   *)
(* returned; a call that reports an error was not run and never will be.   *)
(***************************************************************************)
CONSTANT Clients

VARIABLES phase,    \* where the current call of each client is
          result    \* what the last call of each client returned

vars == <<phase, result>>

Phases  == {"idle", "pending", "running", "ran"}
Results == {"none", "ok", "error"}

TypeOK == /\ phase \in [Clients -> Phases]
          /\ result \in [Clients -> Results]

Init == /\ phase = [c \in Clients |-> "idle"]
        /\ result = [c \in Clients |-> "none"]

Call(c) == /\ phase[c] = "idle"
           /\ phase' = [phase EXCEPT ![c] = "pending"]
           /\ result' = [result EXCEPT ![c] = "none"]

(* The worker is one thread: it begins a callback only when none is active. *)
Begin(c) == /\ phase[c] = "pending"
            /\ \A d \in Clients : phase[d] # "running"
            /\ phase' = [phase EXCEPT ![c] = "running"]
            /\ UNCHANGED result

End(c) == /\ phase[c] = "running"
          /\ phase' = [phase EXCEPT ![c] = "ran"]
          /\ UNCHANGED result

Return(c) == /\ phase[c] = "ran"
             /\ phase' = [phase EXCEPT ![c] = "idle"]
             /\ result' = [result EXCEPT ![c] = "ok"]

(* A timeout, or a full queue, gives up a request that has not begun. *)
GiveUp(c) == /\ phase[c] = "pending"
             /\ phase' = [phase EXCEPT ![c] = "idle"]
             /\ result' = [result EXCEPT ![c] = "error"]

(* No request slot is free: the call fails without becoming a request. *)
Refuse(c) == /\ phase[c] = "idle"
             /\ result' = [result EXCEPT ![c] = "error"]
             /\ UNCHANGED phase

Next == \E c \in Clients :
           Call(c) \/ Begin(c) \/ End(c) \/ Return(c) \/ GiveUp(c) \/ Refuse(c)

Spec == Init /\ [][Next]_vars
=============================================================================
