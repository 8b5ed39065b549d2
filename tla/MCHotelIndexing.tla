--------------------------- MODULE MCHotelIndexing ---------------------------
(* Small instances of HotelIndexing *)
EXTENDS HotelIndexing

=============================================================================
