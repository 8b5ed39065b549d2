-------------------------- MODULE RatingSyncClaims --------------------------
(***************************************************************************)
(* What ReviewService/README.md says of the batch and the code of          *)
(* RatingSync does not keep.                                               *)
(***************************************************************************)
EXTENDS RatingSync

\* README section 14 and Q3: one run at a time works on the batch, others skip.
OneRunAtATime ==
  \A k1, k2 \in Runs :
    pc[k1] # "idle" /\ pc[k2] # "idle" => k1 = k2

=============================================================================
