\* A file of two chunks over a connection that fails, with crashes and the sweep.
CONSTANTS
  r1 = r1
  r2 = r2
  Requests = {r1, r2}
  Length = 3
  Chunk = 2
  Retries = 3
  Stalls = 1
  Faults = {"timeout", "reset", "crash", "expire"}
  NoPart = NoPart
  Free = Free
SPECIFICATION FairSpec
INVARIANTS Assembled LongFileOnce DoneIsQueued
PROPERTIES ClientEnds
CHECK_DEADLOCK FALSE
