------------------------------ MODULE TimerSet ------------------------------
(***************************************************************************)
(* What the users of net/timer.c (TCP, ARP) rely on: a set of armed timers, *)
(* each with the time left until it is due, and a clock that is moved by    *)
(* net_timer_check_tmo.  The clock stops at the next due time, all timers   *)
(* due then expire together, and their callbacks run before it moves on, so *)
(* no timer is early, late or forgotten, and a periodic one does not drift. *)
(***************************************************************************)
EXTENDS Naturals

CONSTANTS Timers, Calls, None

VARIABLES armed,     \* the timers waiting for their time
          left,      \* how long each of them has to wait
          expired,   \* due, and the callback has not begun
          running,   \* whose callback runs, or None
          period,    \* the time a periodic timer is armed with again
          periodic,
          budget,    \* how far the clock has still to be moved
          passing    \* inside net_timer_check_tmo

vars == <<armed, left, expired, running, period, periodic, budget, passing>>

Init == /\ armed = {} /\ expired = {} /\ running = None
        /\ left = [t \in Timers |-> 0] /\ period = [t \in Timers |-> 0]
        /\ periodic = [t \in Timers |-> FALSE]
        /\ budget = 0 /\ passing = FALSE

(* The code of a user: outside a check, or inside a callback. *)
UserRuns == ~passing \/ running # None

Add(c) ==
  /\ UserRuns
  /\ c.timer \notin armed \cup expired
  /\ armed' = armed \cup {c.timer}
  /\ left' = [left EXCEPT ![c.timer] = c.ms]
  /\ period' = [period EXCEPT ![c.timer] = c.ms]
  /\ periodic' = [periodic EXCEPT ![c.timer] = c.reload]
  /\ UNCHANGED <<expired, running, budget, passing>>

(* A timer that has already expired is not called back. *)
Remove(t) ==
  /\ UserRuns
  /\ armed' = armed \ {t}
  /\ left' = [left EXCEPT ![t] = 0]
  /\ UNCHANGED <<expired, running, period, periodic, budget, passing>>

(* A callback makes its own timer the last of the series. *)
Stop ==
  /\ running # None
  /\ periodic' = [periodic EXCEPT ![running] = FALSE]
  /\ UNCHANGED <<armed, left, expired, running, period, budget, passing>>

Check ==
  /\ ~passing
  /\ passing' = TRUE /\ budget' \in Nat
  /\ UNCHANGED <<armed, left, expired, running, period, periodic>>

Between == passing /\ expired = {} /\ running = None

(* The clock moves by ms, which passes nobody's due time. *)
Pass(ms) ==
  /\ \A t \in armed : left[t] >= ms
  /\ left' = [t \in Timers |-> IF t \in armed THEN left[t] - ms ELSE left[t]]

Expire ==
  /\ Between
  /\ \E t \in armed :
       /\ left[t] <= budget
       /\ Pass(left[t])
       /\ expired' = {u \in armed : left[u] = left[t]}
       /\ armed' = armed \ expired'
       /\ budget' = budget - left[t]
  /\ UNCHANGED <<running, period, periodic, passing>>

Finish ==
  /\ Between
  /\ \A t \in armed : left[t] > budget
  /\ Pass(budget)
  /\ budget' = 0 /\ passing' = FALSE
  /\ UNCHANGED <<armed, expired, running, period, periodic>>

Begin(t) ==
  /\ passing /\ running = None /\ t \in expired
  /\ running' = t /\ expired' = expired \ {t}
  /\ UNCHANGED <<armed, left, period, periodic, budget, passing>>

Again(t) == periodic[t] /\ t \notin armed \cup expired

Return ==
  /\ running # None /\ running' = None
  /\ IF Again(running)
     THEN /\ armed' = armed \cup {running}
          /\ left' = [left EXCEPT ![running] = period[running]]
     ELSE UNCHANGED <<armed, left>>
  /\ UNCHANGED <<expired, period, periodic, budget, passing>>

Next == \/ \E c \in Calls : Add(c)
        \/ \E t \in Timers : Remove(t) \/ Begin(t)
        \/ Check \/ Stop \/ Expire \/ Finish \/ Return

Spec == Init /\ [][Next]_vars
=============================================================================
