SPECIFICATION FairSpec
CONSTANTS
  t1 = t1
  t2 = t2
  t3 = t3
  None = None
  Timers <- MCTimers
  Calls <- MCCalls
  MaxDiff = 4
INVARIANTS ListsSound
PROPERTIES ImplementsTimerSet CheckReturns
