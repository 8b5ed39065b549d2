SPECIFICATION BookingMailSpec
CONSTANTS
  r1 = r1
  r2 = r2
  x1 = x1
  o1 = o1
  Requests <- TwoRequests
  Bookings = {b1}
  Hotels = {h1}
  NoRequest = NoRequest
  NoBooking = NoBooking
  NoInput = NoInput
  Rooms <- OneRoom
  RoomCategory <- OneCategory
  RoomDate <- OneDay
  Day = 2
  Stays <- OneNight
  ExpiryMidRequest = FALSE
  Jobs <- AllJobs
  StartMails = {o1}
  MaxStarts = 2
  NoJob = NoJob
INVARIANTS
  BookingMailTypeOK
  MailAfterCancel
  OncePerStall
PROPERTIES
  MailSettles
CHECK_DEADLOCK FALSE
