---------------------------- MODULE CountingSem ----------------------------
(***************************************************************************)
(* What kernel/src/wait.c promises to the users of a semaphore.  A waiter  *)
(* that finds a token takes it at once; otherwise it waits until it takes  *)
(* a token, or until its deadline if it has one.  A post adds one token.   *)
(***************************************************************************)
EXTENDS Integers

CONSTANTS Users, InitialCount

VARIABLES tokens,   \* the semaphore's count
          user      \* where each user is

vars == <<tokens, user>>

UserStates == {"out", "look", "lookTimed", "wait", "waitTimed", "post"}

TypeOK == tokens \in Nat /\ user \in [Users -> UserStates]

Init == tokens = InitialCount /\ user = [u \in Users |-> "out"]

Enter(u) == /\ user[u] = "out"
            /\ \E s \in {"look", "lookTimed", "post"} : user' = [user EXCEPT ![u] = s]
            /\ UNCHANGED tokens

Block(u) == /\ tokens = 0
            /\ \/ user[u] = "look" /\ user' = [user EXCEPT ![u] = "wait"]
               \/ user[u] = "lookTimed" /\ user' = [user EXCEPT ![u] = "waitTimed"]
            /\ UNCHANGED tokens

Take(u) == /\ user[u] \in {"look", "lookTimed", "wait", "waitTimed"}
           /\ tokens > 0
           /\ tokens' = tokens - 1
           /\ user' = [user EXCEPT ![u] = "out"]

Timeout(u) == /\ user[u] = "waitTimed"
              /\ user' = [user EXCEPT ![u] = "out"]
              /\ UNCHANGED tokens

(* The token of a post counts from the moment the poster holds the lock. *)
Post(u) == /\ user[u] = "post"
           /\ tokens' = tokens + 1
           /\ user' = [user EXCEPT ![u] = "out"]

Next == \E u \in Users :
           Enter(u) \/ Block(u) \/ Take(u) \/ Timeout(u) \/ Post(u)

Spec == Init /\ [][Next]_vars
=============================================================================
