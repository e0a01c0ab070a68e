SPECIFICATION FairSpec
CONSTANTS
  Workers = {w1, w2}
  Tasks = {t1, t2}
  Delays = {2}
  MaxLate = 1
INVARIANTS
  EachTaskOnce
  TimerCoversHeap
PROPERTIES
  TasksRun
