----------------------------- MODULE MCBooking -----------------------------
(* Small instances of Booking: one category with a row per day *)
EXTENDS BookingClaims, TLC

CONSTANTS x1, x2, x3

Symmetry == Permutations(Requests) \cup Permutations(Bookings)

SomeRooms == {x1, x2, x3}
OneCategory == [x \in Rooms |-> "deluxe"]

\* Rows of days 1, 2 and 3, as midnights
ThreeDays == [x \in Rooms |-> CASE x = x1 -> 2 [] x = x2 -> 4 [] OTHER -> 6]

Stay(in, out) == [category |-> "deluxe", checkIn |-> in, checkOut |-> out]

\* Two stays of one night that share the row of day 2
Overlapping == {Stay(2, 4), Stay(4, 6)}

OneNight == {Stay(2, 4)}

=============================================================================
