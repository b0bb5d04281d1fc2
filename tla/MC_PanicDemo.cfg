CONSTANTS
  Writers = {w1, w2}
  DemoReaders = {r1}
  Main = main
  MaxIter = 2
  NoTask = NoTask
  None = None
  CountLocked = FALSE
SPECIFICATION Spec
\* main returns: the program exits, so the final state has no successor.
CHECK_DEADLOCK FALSE
INVARIANTS FinalCountZero DemoInv
PROPERTIES DemoTerminates
