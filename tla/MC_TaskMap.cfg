CONSTANTS
  Writers = {w1, w2}
  Readers = {r1, r2}
  Refs <- MCRefs
  Details = {FALSE, TRUE}
  NoTask = NoTask
  None = None
  CountLocked = TRUE
SPECIFICATION Spec
INVARIANTS NoDataRace IInv
PROPERTIES CountReturns WriteCompletes AtomicSpec
