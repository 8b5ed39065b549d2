SPECIFICATION FairSpec
CONSTANTS
  Requests = {r1, r2, r3}
  Bookings = {b1, b2, b3}
  Hotels = {h1}
  NoRequest = NoRequest
  NoBooking = NoBooking
  NoInput = NoInput
  x1 = x1
  x2 = x2
  x3 = x3
  Rooms <- SomeRooms
  RoomCategory <- OneCategory
  RoomDate <- ThreeDays
  Day = 2
  Stays <- OneNight
  ExpiryMidRequest = FALSE
INVARIANTS
  HotelExclusive
PROPERTIES
  RequestsFinish
  LockComesFree
CHECK_DEADLOCK FALSE
