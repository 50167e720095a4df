SPECIFICATION FairSpec
CONSTANTS
  OrderIds = {o1}
  Usernames = {n1}
  DiscordUsers = {d1}
  Levels = {0, 1}
  Null = Null
  Empty = Empty
  TicksPerDay = 2
  ShortTerm = 1
  LongTerm = 3
  GarbageDates <- WildDates
  ZoneOffsets <- EastAndWest
  TmGarbage <- NoOffset
  MaxUid = 2
  MayThrow = {"bot", "sweep", "feed"}
  MaxRestarts = 1
  MaxNow = 2
CHECK_DEADLOCK FALSE
INVARIANT OneRegistrationPerOrder
PROPERTIES RegistrationSettles SweepEnds
