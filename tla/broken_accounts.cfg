SPECIFICATION Spec
CONSTANTS
  OrderIds = {o1, o2}
  Usernames = {n1, n2}
  DiscordUsers = {d1, d2}
  Levels = {1}
  Null = Null
  Empty = Empty
  TicksPerDay = 2
  ShortTerm = 1
  LongTerm = 3
  GarbageDates <- WildDates
  ZoneOffsets <- NoOffset
  TmGarbage <- AnyOffset
  MaxUid = 2
  MayThrow = {}
  MaxRestarts = 1
  MaxNow = 0
SYMMETRY Interchangeable
CHECK_DEADLOCK FALSE
INVARIANT SweepSkipsBroken
