SPECIFICATION FairSpec
CONSTANTS
  skip = skip
  all = all
  often = often
  rarely = rarely
  r1 = r1
  r2 = r2
  Runners = {r1}
  Recovering = {r1}
  Schedules = {skip, all}
  Policy <- MCPolicy
  Expressions = {rarely}
  Fires <- FireRarely
  MaxCatchup = 9
  LostAfter = 1
  MaxAge = 2
  MaxTries = 1
  MaxTime = 4
  MaxEdits = 1
  MaxUpdates = 0
  MaxFaults = 1
  MaxStops = 1
  None = None
INVARIANTS
  RecoveryIsBounded
PROPERTIES
  DueIsClaimed
  LostIsSettled
CHECK_DEADLOCK FALSE
