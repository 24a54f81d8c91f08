------------------------------ MODULE NetTimer ------------------------------
(***************************************************************************)
(* The software timers of kernel/src/net/timer.c: a list in the order of    *)
(* the due times, in which each timer holds the time between the one in     *)
(* front of it and itself.  All of it runs on the network worker; what can  *)
(* happen in between is the callback, which may add and remove timers, its  *)
(* own included, while the rest of those that expired with it wait on the   *)
(* wait_list of the check.  The callbacks of this kernel never call         *)
(* net_timer_check_tmo, so the stack of pending wait_lists holds one.       *)
(***************************************************************************)
EXTENDS Integers, Sequences, Functions

CONSTANTS Timers,
          Calls,    \* the calls of net_timer_add: [timer, ms, reload]
          MaxDiff,  \* bound on the time between two checks
          None

ASSUME CallsAssumption ==
  Calls \subseteq [timer : Timers, ms : Nat \ {0}, reload : BOOLEAN]

ASSUME NoneAssumption == None \notin Timers /\ MaxDiff \in Nat

VARIABLES timer_list, wait_list,
          curr, reload, flags,   \* fields of each timer; flags: NET_TIMER_RELOAD
          diff_ms,               \* the argument of the check in progress
          pc,                    \* "user", or where the check is
          timer                  \* whose callback runs

vars == <<timer_list, wait_list, curr, reload, flags, diff_ms, pc, timer>>

fields == <<reload, flags>>

TypeOK ==
  /\ timer_list \in Seq(Timers) /\ wait_list \in Seq(Timers)
  /\ curr \in [Timers -> Nat] /\ reload \in [Timers -> Nat]
  /\ flags \in [Timers -> BOOLEAN]
  /\ diff_ms \in Nat /\ timer \in Timers \cup {None}
  /\ pc \in {"user", "loop", "drain", "proc"}

Init ==
  /\ timer_list = <<>> /\ wait_list = <<>>
  /\ curr = [t \in Timers |-> 0] /\ reload = [t \in Timers |-> 0]
  /\ flags = [t \in Timers |-> FALSE]
  /\ diff_ms = 0 /\ pc = "user" /\ timer = None

(* Mutant: only timer_list is searched for the timer. *)
timer_is_scheduled_list(t) == t \in Range(timer_list)

timer_is_scheduled(t) == t \in Range(timer_list) \cup Range(wait_list)

-----------------------------------------------------------------------------
(* Node t goes behind the i-th one; nlist_insert_first is the case of i = 0 *)
(* and nlist_insert_last that of i = Len(list).                             *)
nlist_insert_after(list, i, t) ==
  SubSeq(list, 1, i) \o <<t>> \o SubSeq(list, i + 1, Len(list))

nlist_remove(list, i) == SubSeq(list, 1, i - 1) \o SubSeq(list, i + 1, Len(list))

(* The time until the timer at position i of a list is due, when each timer *)
(* holds the time c between the one in front of it and itself.              *)
Sums(list, c) ==
  LET sum[i \in 0 .. Len(list)] == IF i = 0 THEN 0 ELSE sum[i - 1] + c[list[i]]
  IN  sum

Due(i) == Sums(timer_list, curr)[i]

(* The walk of insert_timer takes the time of each timer it passes from ms, *)
(* and stops behind n timers, at one that has as much or more.              *)
Stops(ms, n) ==
  /\ \A i \in 1..n : ms - Due(i - 1) > curr[timer_list[i]]
  /\ n < Len(timer_list) => ms - Due(n) <= curr[timer_list[n + 1]]

(* Mutant: the timer behind the new one keeps its time. *)
insert_timer_keep(t, ms) ==
  \E n \in 0 .. Len(timer_list) :
    LET rest == ms - Due(n) IN
    /\ Stops(ms, n)
    /\ IF n < Len(timer_list) /\ rest = curr[timer_list[n + 1]]
       THEN /\ timer_list' = nlist_insert_after(timer_list, n + 1, t)
            /\ curr' = [curr EXCEPT ![t] = 0]
       ELSE /\ timer_list' = nlist_insert_after(timer_list, n, t)
            /\ curr' = [curr EXCEPT ![t] = rest]

(* The new timer goes to the end, behind one due at the same time, or in    *)
(* front of one due later, which then has the rest of its time to wait.     *)
insert_timer(t, ms) ==
  \E n \in 0 .. Len(timer_list) :
    LET rest == ms - Due(n)
        at   == timer_list[n + 1]
    IN
    /\ Stops(ms, n)
    /\ \/ /\ n = Len(timer_list)
          /\ timer_list' = nlist_insert_after(timer_list, n, t)
          /\ curr' = [curr EXCEPT ![t] = rest]
       \/ /\ n < Len(timer_list) /\ rest = curr[at]
          /\ timer_list' = nlist_insert_after(timer_list, n + 1, t)
          /\ curr' = [curr EXCEPT ![t] = 0]
       \/ /\ n < Len(timer_list) /\ rest < curr[at]
          /\ timer_list' = nlist_insert_after(timer_list, n, t)
          /\ curr' = [curr EXCEPT ![t] = rest, ![at] = @ - rest]

(* Users call from the worker between two checks or from a callback. *)
UserRuns == pc \in {"user", "proc"}

net_timer_add(c) ==
  /\ UserRuns
  /\ ~timer_is_scheduled(c.timer)
  /\ flags' = [flags EXCEPT ![c.timer] = c.reload]
  /\ reload' = [reload EXCEPT ![c.timer] = c.ms]
  /\ insert_timer(c.timer, c.ms)
  /\ UNCHANGED <<wait_list, diff_ms, pc, timer>>

(* The timer behind it inherits the time of the one that goes; a timer on   *)
(* the wait_list is not looked for and stays there.                         *)
net_timer_remove(t) ==
  /\ UserRuns
  /\ \E i \in DOMAIN timer_list :
       /\ timer_list[i] = t
       /\ timer_list' = nlist_remove(timer_list, i)
       /\ curr' = IF i = Len(timer_list) THEN curr
                  ELSE [curr EXCEPT ![timer_list[i + 1]] = @ + curr[t]]
  /\ UNCHANGED <<wait_list, fields, diff_ms, pc, timer>>

(* tcp_release_proc ends its own series. *)
clear_flags ==
  /\ pc = "proc"
  /\ flags' = [flags EXCEPT ![timer] = FALSE]
  /\ UNCHANGED <<timer_list, wait_list, curr, reload, diff_ms, pc, timer>>

-----------------------------------------------------------------------------
check_begin(ms) ==
  /\ pc = "user"
  /\ diff_ms' = ms /\ wait_list' = <<>> /\ pc' = "loop"
  /\ UNCHANGED <<timer_list, curr, fields, timer>>

(* The ways out of the loop; with no time left to distribute the second one *)
(* changes nothing.                                                         *)
check_end ==
  /\ pc = "loop"
  /\ IF timer_list = <<>> THEN UNCHANGED curr
     ELSE /\ curr[Head(timer_list)] > diff_ms
          /\ curr' = [curr EXCEPT ![Head(timer_list)] = @ - diff_ms]
  /\ pc' = "user" /\ diff_ms' = 0
  /\ UNCHANGED <<timer_list, wait_list, fields, timer>>

(* The first timer is due; it and those behind it due at the same time move *)
(* to the wait_list.                                                        *)
check_expire ==
  /\ pc = "loop" /\ timer_list # <<>>
  /\ LET first == Head(timer_list) IN
       /\ curr[first] <= diff_ms
       /\ diff_ms' = diff_ms - curr[first]
       /\ curr' = [curr EXCEPT ![first] = 0]
  /\ \E n \in DOMAIN timer_list :
       /\ \A i \in 2..n : curr[timer_list[i]] = 0
       /\ n < Len(timer_list) => curr[timer_list[n + 1]] # 0
       /\ wait_list' = SubSeq(timer_list, 1, n)
       /\ timer_list' = SubSeq(timer_list, n + 1, Len(timer_list))
  /\ pc' = "drain"
  /\ UNCHANGED <<fields, timer>>

(* The inner loop takes the next timer and calls it, or is done. *)
check_call ==
  /\ pc = "drain"
  /\ IF wait_list = <<>>
     THEN pc' = "loop" /\ UNCHANGED <<wait_list, timer>>
     ELSE pc' = "proc" /\ timer' = Head(wait_list) /\ wait_list' = Tail(wait_list)
  /\ UNCHANGED <<timer_list, curr, fields, diff_ms>>

(* Mutant: curr is not set again in front of the insertion. *)
check_reload_zero ==
  /\ pc = "proc" /\ pc' = "drain" /\ timer' = None
  /\ IF flags[timer] /\ ~timer_is_scheduled(timer)
     THEN insert_timer(timer, curr[timer])
     ELSE UNCHANGED <<timer_list, curr>>
  /\ UNCHANGED <<wait_list, fields, diff_ms>>

(* The callback returns: a periodic timer is due again one period after the *)
(* time it was due at, unless the callback has added it itself.             *)
check_reload ==
  /\ pc = "proc" /\ pc' = "drain" /\ timer' = None
  /\ IF flags[timer] /\ ~timer_is_scheduled(timer)
     THEN insert_timer(timer, reload[timer])
     ELSE UNCHANGED <<timer_list, curr>>
  /\ UNCHANGED <<wait_list, fields, diff_ms>>

net_timer_check_tmo == check_end \/ check_expire \/ check_call \/ check_reload

Next == \/ \E c \in Calls : net_timer_add(c)
        \/ \E t \in Timers : net_timer_remove(t)
        \/ clear_flags
        \/ \E ms \in 0..MaxDiff : check_begin(ms)
        \/ net_timer_check_tmo

Spec == Init /\ [][Next]_vars

(* The worker runs on, and a callback returns. *)
FairSpec == Spec /\ WF_vars(net_timer_check_tmo)

-----------------------------------------------------------------------------
(* The time each timer of a list has left. *)
Left(list, c) ==
  [t \in Timers |-> IF t \in Range(list)
                    THEN Sums(list, c)[CHOOSE i \in DOMAIN list : list[i] = t] ELSE 0]

Abstract == INSTANCE TimerSet WITH
  armed    <- Range(timer_list),
  left     <- Left(timer_list, curr),
  expired  <- Range(wait_list),
  running  <- timer,
  period   <- reload,
  periodic <- flags,
  budget   <- diff_ms,
  passing  <- pc # "user"

(* The list of differences behaves like a set of timers with a due time     *)
(* each: whatever is added, removed or reloaded, in callbacks too, the due  *)
(* times of the others do not move, and timers expire at their time, in     *)
(* order, and reload without drift (timer.c:42-168).                        *)
ImplementsTimerSet == Abstract!Spec

(* No timer is linked into a list twice, the one whose callback runs being  *)
(* on no wait_list: the two lists share the one node of a timer             *)
(* (timer.c:11-29, 155-164).                                                *)
LinkedOnce ==
  /\ IsInjective(timer_list \o wait_list)
  /\ timer \notin Range(wait_list)

net_timer_first_tmo == IF timer_list = <<>> THEN 0 ELSE curr[Head(timer_list)]

(* The worker takes 0 from net_timer_first_tmo for "no timer" and sleeps as *)
(* long as it may (net_stack.c:314-318): whenever it runs, after any calls  *)
(* and callbacks, the first timer is not due already.                       *)
ZeroMeansNoTimer ==
  pc = "user" /\ net_timer_first_tmo = 0 => timer_list = <<>>

(* The lists of timers are sound. *)
ListsSound == TypeOK /\ LinkedOnce /\ ZeroMeansNoTimer

(* A check ends, whatever the callbacks add and however often timers reload *)
(* within the time that has passed (timer.c:133-165).                       *)
CheckReturns == pc # "user" ~> pc = "user"
=============================================================================
