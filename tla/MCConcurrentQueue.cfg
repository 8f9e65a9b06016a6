SPECIFICATION LiveSpec
CONSTANTS
  Threads = {t1, t2, t3, t4}
  Data = {d1, d2}
  None = None
  MaxLength = 3
INVARIANTS TypeOK LockDiscipline FrontExists NoLostWakeup
PROPERTIES ImplementsFIFO SleepersAreServed
