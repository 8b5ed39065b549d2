--------------------------- MODULE MCBookingMail ---------------------------
(* A small instance of BookingMail: a create, a cancel and what runs beside *)
EXTENDS BookingMail

CONSTANTS r1, r2, x1, o1

TwoRequests == {r1, r2}
OneRoom == {x1}
OneCategory == [x \in {x1} |-> "deluxe"]
OneDay == [x \in {x1} |-> 2]
OneNight == {[category |-> "deluxe", checkIn |-> 2, checkOut |-> 4]}
AllJobs == {r1, r2, o1}

=============================================================================
