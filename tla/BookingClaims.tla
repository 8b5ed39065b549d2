--------------------------- MODULE BookingClaims ---------------------------
(***************************************************************************)
(* What the repository's documentation says of bookings and the code of    *)
(* Booking does not keep.  Each claim is checked by a run of its own that  *)
(* finds a counterexample.                                                 *)
(***************************************************************************)
EXTENDS Booking

Live(r) ==
  /\ op[r] = "create" /\ pc[r] = "done"
  /\ status[target[r]] # "CANCELLED"

\* README.md:76 and 82: two users are never given the same room.
NoDoubleBooking ==
  \A r1, r2 \in Requests :
    Live(r1) /\ Live(r2) /\ r1 # r2 => seen[r1] \cap seen[r2] = {}

----------------------------------------------------------------------------
(* Where a double booking comes from *)

\* A create that has read the free rooms and may still assign them: it is not
\* answered, or it has failed and its PUT is under way
Assigning(r) ==
  /\ op[r] = "create"
  /\ pc[r] \in {"locking"} \cup Critical \/ wire[r] = "sent"

\* No two such creates have read the same room
CreatesApart ==
  \A r1, r2 \in Requests :
    Assigning(r1) /\ Assigning(r2) /\ r1 # r2 => seen[r1] \cap seen[r2] = {}

\* A cancel has given a booking's rooms back, whatever has become of it since
GivenBack(b) ==
  \E c \in Requests : op[c] = "cancel" /\ target[c] = b /\ wire[c] = "applied"

\* Two bookings that are not cancelled have a room in common only if a cancel
\* gave the rooms of one of them back and did not come through, or was undone
\* by a confirm.
DoubledByCancel ==
  \A r1, r2 \in Requests :
    Live(r1) /\ Live(r2) /\ r1 # r2 /\ seen[r1] \cap seen[r2] # {} =>
      GivenBack(target[r1]) \/ GivenBack(target[r2])

=============================================================================
