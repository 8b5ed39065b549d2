-------------------------- MODULE BookingLifecycle --------------------------
(***************************************************************************)
(* What the BookingService promises of a booking's life, as atomic         *)
(* operations.  A booking is held when it is created; its one idempotency  *)
(* key confirms it at most once; a cancel voids it at any time.  A booking *)
(* voided before its key was spent can still be confirmed.                 *)
(***************************************************************************)
CONSTANT Bookings

VARIABLES phase, spent

vars == <<phase, spent>>

Init ==
  /\ phase = [b \in Bookings |-> "none"]
  /\ spent = {}

Hold(b) ==
  /\ phase[b] = "none"
  /\ phase' = [phase EXCEPT ![b] = "held"]
  /\ UNCHANGED spent

Book(b) ==
  /\ phase[b] \in {"held", "void"}
  /\ b \notin spent
  /\ phase' = [phase EXCEPT ![b] = "booked"]
  /\ spent' = spent \cup {b}

Void(b) ==
  /\ phase[b] # "none"
  /\ phase' = [phase EXCEPT ![b] = "void"]
  /\ UNCHANGED spent

Next == \E b \in Bookings : Hold(b) \/ Book(b) \/ Void(b)

Spec == Init /\ [][Next]_vars

=============================================================================
