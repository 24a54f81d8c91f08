---- MODULE MCNetTimer ----
(* Timers due at the same and at different times, periodic and not: t1 is   *)
(* added for either, t2 is periodic, t3 single.                             *)
EXTENDS NetTimer
CONSTANTS t1, t2, t3
MCTimers == {t1, t2, t3}
MCCalls  == {[timer |-> t1, ms |-> 1, reload |-> TRUE],
             [timer |-> t1, ms |-> 3, reload |-> FALSE],
             [timer |-> t2, ms |-> 2, reload |-> TRUE],
             [timer |-> t3, ms |-> 3, reload |-> FALSE]}
====
