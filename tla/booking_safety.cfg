SPECIFICATION Spec
CONSTANTS
  Requests = {r1, r2, r3, r4}
  Bookings = {b1, b2}
  Hotels = {h1}
  NoRequest = NoRequest
  NoBooking = NoBooking
  NoInput = NoInput
  x1 = x1
  x2 = x2
  x3 = x3
  Rooms <- SomeRooms
  RoomCategory <- OneCategory
  RoomDate <- ThreeDays
  Day = 2
  Stays <- Overlapping
  ExpiryMidRequest = TRUE
SYMMETRY Symmetry
INVARIANTS
  TypeOK
  RoomsBelong
  KeyMatchesStatus
  ConfirmOnce
  CancelFreesRooms
  HoldSurvives
PROPERTIES
  CancelledForGood
  ImplementsLifecycle
CHECK_DEADLOCK FALSE
