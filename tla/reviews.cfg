SPECIFICATION Spec
CONSTANTS
  b1 = b1
  u1 = u1
  u2 = u2
  h1 = h1
  h2 = h2
  NoReview = NoReview
  NoHotel = NoHotel
  NoAsk = NoAsk
  Requests = {k1, k2, k3}
  Reviews = {v1, v2, v3}
  Bookings = {b1}
  Users = {u1, u2}
  Hotels = {h1, h2}
  UserOf <- UserOfBooking
  HotelOf <- HotelOfBooking
  Payloads <- SomePayloads
  Edits = {4}
  MaxInterruptions = 1
SYMMETRY Symmetry
INVARIANTS
  DriftBounded
  RatingShowsReviews
  ReviewsOfOwnStay
  DeletedStaysHidden
CHECK_DEADLOCK FALSE
