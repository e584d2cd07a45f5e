SPECIFICATION Spec
CONSTANTS
  skip = skip
  all = all
  often = often
  rarely = rarely
  r1 = r1
  r2 = r2
  Runners = {r1, r2}
  Recovering = {}
  Schedules = {all}
  Policy <- OnlyAll
  Expressions = {often}
  Fires <- FireOften
  MaxCatchup = 9
  LostAfter = 1
  MaxAge = 9
  MaxTries = 1
  MaxTime = 5
  MaxEdits = 1
  MaxUpdates = 1
  MaxFaults = 1
  MaxStops = 1
  None = None
SYMMETRY RunnerSymmetry
INVARIANTS
  PolledOnce
  ClaimedSlotIsKept
  CatchUpIsComplete
CHECK_DEADLOCK FALSE
