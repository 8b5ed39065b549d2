---------------------------- MODULE MCRatingSync ----------------------------
(* Small instances of RatingSync: two reviews of one hotel, one of another *)
EXTENDS RatingSyncClaims

CONSTANTS h1, h2, v1, v2, v3

HotelOfReview == [r \in Reviews |-> IF r = v3 THEN h2 ELSE h1]

=============================================================================
