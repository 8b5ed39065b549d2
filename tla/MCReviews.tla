----------------------------- MODULE MCReviews -----------------------------
(* Small instances of Reviews: one hotel and a booking of it *)
EXTENDS Reviews, TLC

CONSTANTS b1, u1, u2, h1, h2

Symmetry == Permutations(Requests) \cup Permutations(Reviews)

UserOfBooking == [b \in Bookings |-> u1]
HotelOfBooking == [b \in Bookings |-> h1]

Body(u, h, s) == [user |-> u, booking |-> b1, hotel |-> h, stars |-> s]

\* Two bodies for the booking, one of another user and one for another hotel
SomePayloads == {Body(u1, h1, 5), Body(u1, h1, 4), Body(u2, h1, 5),
                 Body(u1, h2, 5)}

=============================================================================
