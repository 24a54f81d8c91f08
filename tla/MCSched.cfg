CONSTANTS
  NTasks = 2
  NHarts = 2
  Calls = {"sem_wait", "sem_timedwait", "sem_post"}
  InitialCount = 0
  MaxCount = 2
SPECIFICATION FairSpec
INVARIANTS
  SwitchesClean
  NoLostWakeup
PROPERTIES
  ImplementsCountingSem
  TokenReachesSleeper DeadlineWakes ReadyWorkIsRun
