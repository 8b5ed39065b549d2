SPECIFICATION FairSpec
CONSTANTS
  h1 = h1
  h2 = h2
  v1 = v1
  v2 = v2
  v3 = v3
  NoSession = NoSession
  NoHotel = NoHotel
  Hotels = {h1, h2}
  Reviews = {v1, v2, v3}
  HotelOf <- HotelOfReview
  Runs = {"cron"}
  Sessions = {s1, s2}
  MaxNow = 1
  MaxDepth = 2
  MaxInterruptions = 1
INVARIANTS
  LostOnlyInCutoffSecond
  CountedOncePerInterruption
PROPERTIES
  EventuallySynced
CHECK_DEADLOCK FALSE
