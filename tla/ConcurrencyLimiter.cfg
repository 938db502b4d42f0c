SPECIFICATION FairSpec
CONSTANTS
  Tasks = {t1, t2, t3, t4}
  Max = 2
PROPERTIES
  Fifo
  SlotsSpec
  WaitersRun
