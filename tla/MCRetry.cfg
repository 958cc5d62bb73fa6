SPECIFICATION FairSpec
CONSTANTS
  t1 = t1
  t2 = t2
  o1 = o1
  NoTimer = NoTimer
  Timer = {t1, t2}
  Object = {o1}
  ObjOf <- MCShared
  MIN_TIMEOUT = 2
  TMin <- MCMin
  TMax <- MCMax
  FixedTimeouts = {3}
  ClockMod = 6
  MaxGap = 1
  MaxTicks = 3
  MaxCount = 1
INVARIANT TimersConsistent
PROPERTY NeverEarly
PROPERTY DueTimerIsServed
CHECK_DEADLOCK FALSE
