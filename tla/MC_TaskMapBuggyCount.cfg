CONSTANTS
  Writers = {w1, w2}
  Readers = {r1, r2}
  Refs <- MCRefs
  Details = {FALSE, TRUE}
  NoTask = NoTask
  None = None
  CountLocked = FALSE
SPECIFICATION Spec
INVARIANTS NoDataRace
