CONSTANTS
  NParts = 2
  Optional = {2}
  Readers = {r1, r2}
  Writers = {w1, w2}
  Refreshers = {w2}
  MaxVersion = 1
  NoRead = NoRead
  Free = Free
SPECIFICATION FairSpec
INVARIANTS TypeOK CoherentAtRest
PROPERTIES ImplementsRegister ReadsAnswered
CHECK_DEADLOCK FALSE
