--------------------------- MODULE BookingProofs ---------------------------
(***************************************************************************)
(* Proofs about Booking for every set of requests, bookings, hotels, rooms *)
(* and stays, and about its composition with the mail queue.  The argument *)
(* goes in layers: TypeOK is inductive by itself; on top of it RequestOK   *)
(* says, request by request, how far its target and its call are at each   *)
(* pc; IInv relates the requests to the tables; MailInv is what the queue  *)
(* adds.  What is proved of Booking alone uses none of the assumptions on  *)
(* the queue.                                                              *)
(***************************************************************************)
EXTENDS BookingClaims, BookingMail, TLAPS

\* How far one request is
RequestOK(r) ==
  /\ op[r] = "none" <=> pc[r] = "idle"
  /\ op[r] = "none" => /\ target[r] = NoBooking
                       /\ wire[r] = "none"
                       /\ seen[r] = {}
  /\ op[r] = "create" =>
       /\ pc[r] \in {"reading", "locking"} \cup Critical \cup Finished
       /\ input[r] \in Inputs
       /\ \A x \in seen[r] : InStay(x, input[r].stay)
       /\ pc[r] \in {"reading", "locking", "inserting"} =>
            target[r] = NoBooking
       /\ pc[r] \in {"keying", "assigning", "done"} => target[r] \in Bookings
       /\ pc[r] \in {"reading", "locking", "inserting", "keying"} =>
            wire[r] = "none"
       /\ pc[r] = "done" => wire[r] = "applied"
       /\ wire[r] # "none" => target[r] \in Bookings
  /\ op[r] = "confirm" =>
       /\ pc[r] \in {"confirming", "keyLocked", "written"} \cup Finished
       /\ target[r] \in Bookings
       /\ wire[r] = "none"
  /\ op[r] = "cancel" =>
       /\ pc[r] \in {"cancelling", "releasing", "mailing"} \cup Finished
       /\ target[r] \in Bookings
       /\ pc[r] = "cancelling" => wire[r] = "none"
       /\ pc[r] \in {"mailing", "done"} => wire[r] = "applied"

RequestsOK == \A r \in Requests : RequestOK(r)

\* How the bookings table knows the requests
CreatorsOK ==
  /\ \A r \in Requests : op[r] = "create" /\ target[r] \in Bookings =>
       status[target[r]] # "absent"
  /\ \A r1, r2 \in Requests, b \in Bookings :
       IsCreateOf(r1, b) /\ IsCreateOf(r2, b) => r1 = r2
  /\ \A r \in Requests : op[r] = "create" =>
       /\ pc[r] = "keying" => idemKey[target[r]] = "absent"
       /\ wire[r] # "none" => idemKey[target[r]] # "absent"

\* What an open confirm transaction has read, nobody else changes
ConfirmsOK ==
  /\ \A r \in Requests : pc[r] \in {"keyLocked", "written"} =>
       idemKey[target[r]] = "open"
  /\ \A r1, r2 \in Requests :
       /\ pc[r1] \in {"keyLocked", "written"}
       /\ pc[r2] \in {"keyLocked", "written"}
       /\ target[r1] = target[r2]
       => r1 = r2
  /\ \A r \in Requests : op[r] = "confirm" /\ pc[r] = "done" =>
       idemKey[target[r]] = "finalized"

\* A settled cancel is of a booking whose rooms are assigned for good
CancelsOK ==
  /\ \A r \in settled : op[r] = "cancel" /\ Answered(target[r])
  /\ \A r \in Requests : pc[r] = "releasing" => status[target[r]] # "absent"
  /\ \A r \in Requests : pc[r] = "mailing" \/ r \in mailed =>
       /\ op[r] = "cancel" /\ wire[r] = "applied"
       /\ status[target[r]] \in {"CONFIRMED", "CANCELLED"}

\* The inductive invariant
IInv ==
  /\ TypeOK
  /\ RequestsOK
  /\ CreatorsOK /\ KeyMatchesStatus
  /\ ConfirmsOK /\ ConfirmOnce
  /\ RoomsBelong /\ HoldSurvives
  /\ CancelsOK /\ CancelFreesRooms

\* For HotelExclusive: inside the critical steps the lock is the request's
LockHeld ==
  \/ ExpiryMidRequest
  \/ \A r \in Requests : pc[r] \in Critical => lock[input[r].hotelId] = r

----------------------------------------------------------------------------
(* Proofs *)

USE DEF vars, db, req, Goto, Critical, Finished

\* Every step keeps every variable in its type: TypeOK is inductive.
LEMMA TypeStep == TypeOK /\ [Next]_vars => TypeOK'
<1> SUFFICES ASSUME TypeOK, [Next]_vars PROVE TypeOK'
  OBVIOUS
<1> USE DEF TypeOK, Running, BookingStatus
<1>1. ASSUME NEW r \in Requests, Create(r) PROVE TypeOK'
  BY <1>1 DEF Create, BeginCreate, GetAvailableRooms, NoRoomsAvailable,
               RedlockAcquire, RedlockExhausted, CreateBooking,
               CreateIdempotencyKey, CreateAnswered,
               FindByRoomCategoryIdAndDateRange
<1>2. ASSUME NEW r \in Requests, Confirm(r) PROVE TypeOK'
  BY <1>2 DEF Confirm, BeginConfirm, GetIdempotencyKeyWithLock,
               KeyAlreadyFinalized, ConfirmBooking, FinalizeIdempotencyKey
<1>3. ASSUME NEW r \in Requests, Cancel(r) PROVE TypeOK'
  BY <1>3 DEF Cancel, BeginCancel, GetBookingById, CancelRejected,
               CancelBooking, AddEmailToQueue
<1>4. ASSUME NEW r \in Requests, Serve(r) \/ CallLost(r) PROVE TypeOK'
  BY <1>4 DEF Serve, CallLost, UpdateBookingIdToRooms,
               DeleteBookingIdFromRooms
<1>5. ASSUME NEW r \in Requests, Fail(r) \/ ConnectionError(r) PROVE TypeOK'
  BY <1>5 DEF Fail, ConnectionError
<1>6. ASSUME NEW h \in Hotels, RedlockExpires(h) PROVE TypeOK'
  BY <1>6 DEF RedlockExpires
<1>7. CASE UNCHANGED vars
  BY <1>7
<1> QED
  BY <1>1, <1>2, <1>3, <1>4, <1>5, <1>6, <1>7 DEF Next

\* The variables of every reachable state of the service have their types.
THEOREM TypeCorrect == Spec => []TypeOK
<1>1. Init => TypeOK
  BY DEF Init, TypeOK, Running, BookingStatus
<1> QED
  BY <1>1, TypeStep, PTL DEF Spec

\* A step keeps every request's target, room list and call where its pc says.
LEMMA RequestsStep == TypeOK /\ RequestsOK /\ [Next]_vars => RequestsOK'
<1> SUFFICES ASSUME TypeOK, RequestsOK, [Next]_vars PROVE RequestsOK'
  OBVIOUS
<1> USE DEF TypeOK, RequestsOK, RequestOK, InStay
<1>1. ASSUME NEW r \in Requests, NEW i \in Inputs, BeginCreate(r, i)
      PROVE  RequestsOK'
  BY <1>1 DEF BeginCreate
<1>2. ASSUME NEW r \in Requests, GetAvailableRooms(r)
      PROVE  RequestsOK'
  BY <1>2 DEF GetAvailableRooms, FindByRoomCategoryIdAndDateRange
<1>3. ASSUME NEW r \in Requests, NoRoomsAvailable(r)
      PROVE  RequestsOK'
  BY <1>3 DEF NoRoomsAvailable
<1>4. ASSUME NEW r \in Requests, RedlockAcquire(r)
      PROVE  RequestsOK'
  BY <1>4 DEF RedlockAcquire
<1>5. ASSUME NEW r \in Requests, RedlockExhausted(r)
      PROVE  RequestsOK'
  BY <1>5 DEF RedlockExhausted
<1>6. ASSUME NEW r \in Requests, CreateBooking(r)
      PROVE  RequestsOK'
  BY <1>6 DEF CreateBooking
<1>7. ASSUME NEW r \in Requests, CreateIdempotencyKey(r)
      PROVE  RequestsOK'
  BY <1>7 DEF CreateIdempotencyKey
<1>8. ASSUME NEW r \in Requests, CreateAnswered(r)
      PROVE  RequestsOK'
  BY <1>8 DEF CreateAnswered
<1>9. ASSUME NEW r \in Requests, NEW b \in Bookings, BeginConfirm(r, b)
      PROVE  RequestsOK'
  BY <1>9 DEF BeginConfirm
<1>10. ASSUME NEW r \in Requests, GetIdempotencyKeyWithLock(r)
      PROVE  RequestsOK'
  BY <1>10 DEF GetIdempotencyKeyWithLock
<1>11. ASSUME NEW r \in Requests, KeyAlreadyFinalized(r)
      PROVE  RequestsOK'
  BY <1>11 DEF KeyAlreadyFinalized
<1>12. ASSUME NEW r \in Requests, ConfirmBooking(r)
      PROVE  RequestsOK'
  BY <1>12 DEF ConfirmBooking
<1>13. ASSUME NEW r \in Requests, FinalizeIdempotencyKey(r)
      PROVE  RequestsOK'
  BY <1>13 DEF FinalizeIdempotencyKey
<1>14. ASSUME NEW r \in Requests, NEW b \in Bookings, BeginCancel(r, b)
      PROVE  RequestsOK'
  BY <1>14 DEF BeginCancel
<1>15. ASSUME NEW r \in Requests, GetBookingById(r)
      PROVE  RequestsOK'
  BY <1>15 DEF GetBookingById
<1>16. ASSUME NEW r \in Requests, CancelRejected(r)
      PROVE  RequestsOK'
  BY <1>16 DEF CancelRejected
<1>17. ASSUME NEW r \in Requests, CancelBooking(r)
      PROVE  RequestsOK'
  BY <1>17 DEF CancelBooking
<1>18. ASSUME NEW r \in Requests, AddEmailToQueue(r)
      PROVE  RequestsOK'
  BY <1>18 DEF AddEmailToQueue
<1>19. ASSUME NEW r \in Requests, UpdateBookingIdToRooms(r)
      PROVE  RequestsOK'
  BY <1>19 DEF UpdateBookingIdToRooms
<1>20. ASSUME NEW r \in Requests, DeleteBookingIdFromRooms(r)
      PROVE  RequestsOK'
  BY <1>20 DEF DeleteBookingIdFromRooms
<1>21. ASSUME NEW r \in Requests, CallLost(r)
      PROVE  RequestsOK'
  BY <1>21 DEF CallLost
<1>22. ASSUME NEW r \in Requests, Fail(r)
      PROVE  RequestsOK'
  BY <1>22 DEF Fail, Running
<1>23. ASSUME NEW r \in Requests, ConnectionError(r)
      PROVE  RequestsOK'
  BY <1>23 DEF ConnectionError
<1>24. ASSUME NEW h \in Hotels, RedlockExpires(h)
      PROVE  RequestsOK'
  BY <1>24 DEF RedlockExpires
<1>25. CASE UNCHANGED vars
  BY <1>25
<1> QED
  BY <1>1, <1>2, <1>3, <1>4, <1>5, <1>6, <1>7, <1>8, <1>9, <1>10, <1>11,
     <1>12, <1>13, <1>14, <1>15, <1>16, <1>17, <1>18, <1>19, <1>20, <1>21,
     <1>22, <1>23, <1>24, <1>25
  DEF Next, Create, Confirm, Cancel, Serve

\* A step keeps bookings, keys and the transactions on them consistent.
LEMMA TablesStep ==
  /\ BookingAssumption /\ TypeOK /\ RequestsOK
  /\ CreatorsOK /\ KeyMatchesStatus /\ ConfirmsOK /\ ConfirmOnce
  /\ [Next]_vars
  => (CreatorsOK /\ KeyMatchesStatus /\ ConfirmsOK /\ ConfirmOnce)'
<1> DEFINE TablesOK ==
      CreatorsOK /\ KeyMatchesStatus /\ ConfirmsOK /\ ConfirmOnce
<1> SUFFICES ASSUME BookingAssumption, TypeOK, RequestsOK, TablesOK,
                    [Next]_vars
             PROVE  TablesOK'
  OBVIOUS
<1> USE DEF BookingAssumption, TypeOK, RequestsOK, RequestOK, CreatorsOK,
            KeyMatchesStatus, ConfirmsOK, ConfirmOnce, IsCreateOf
<1>1. ASSUME NEW r \in Requests, NEW i \in Inputs, BeginCreate(r, i)
      PROVE  TablesOK'
  BY <1>1 DEF BeginCreate
<1>2. ASSUME NEW r \in Requests, GetAvailableRooms(r)
      PROVE  TablesOK'
  BY <1>2 DEF GetAvailableRooms
<1>3. ASSUME NEW r \in Requests, NoRoomsAvailable(r)
      PROVE  TablesOK'
  BY <1>3 DEF NoRoomsAvailable
<1>4. ASSUME NEW r \in Requests, RedlockAcquire(r)
      PROVE  TablesOK'
  BY <1>4 DEF RedlockAcquire
<1>5. ASSUME NEW r \in Requests, RedlockExhausted(r)
      PROVE  TablesOK'
  BY <1>5 DEF RedlockExhausted
<1>6. ASSUME NEW r \in Requests, CreateBooking(r)
      PROVE  TablesOK'
  BY <1>6 DEF CreateBooking
<1>7. ASSUME NEW r \in Requests, CreateIdempotencyKey(r)
      PROVE  TablesOK'
  BY <1>7 DEF CreateIdempotencyKey
<1>8. ASSUME NEW r \in Requests, CreateAnswered(r)
      PROVE  TablesOK'
  BY <1>8 DEF CreateAnswered
<1>9. ASSUME NEW r \in Requests, NEW b \in Bookings, BeginConfirm(r, b)
      PROVE  TablesOK'
  BY <1>9 DEF BeginConfirm
<1>10. ASSUME NEW r \in Requests, GetIdempotencyKeyWithLock(r)
      PROVE  TablesOK'
  BY <1>10 DEF GetIdempotencyKeyWithLock, KeyRowLocked
<1>11. ASSUME NEW r \in Requests, KeyAlreadyFinalized(r)
      PROVE  TablesOK'
  BY <1>11 DEF KeyAlreadyFinalized, KeyRowLocked
<1>12. ASSUME NEW r \in Requests, ConfirmBooking(r)
      PROVE  TablesOK'
  BY <1>12 DEF ConfirmBooking
<1>13. ASSUME NEW r \in Requests, FinalizeIdempotencyKey(r)
      PROVE  TablesOK'
  BY <1>13 DEF FinalizeIdempotencyKey
<1>14. ASSUME NEW r \in Requests, NEW b \in Bookings, BeginCancel(r, b)
      PROVE  TablesOK'
  BY <1>14 DEF BeginCancel
<1>15. ASSUME NEW r \in Requests, GetBookingById(r)
      PROVE  TablesOK'
  BY <1>15 DEF GetBookingById
<1>16. ASSUME NEW r \in Requests, CancelRejected(r)
      PROVE  TablesOK'
  BY <1>16 DEF CancelRejected
<1>17. ASSUME NEW r \in Requests, CancelBooking(r)
      PROVE  TablesOK'
  BY <1>17 DEF CancelBooking
<1>18. ASSUME NEW r \in Requests, AddEmailToQueue(r)
      PROVE  TablesOK'
  BY <1>18 DEF AddEmailToQueue
<1>19. ASSUME NEW r \in Requests, UpdateBookingIdToRooms(r)
      PROVE  TablesOK'
  BY <1>19 DEF UpdateBookingIdToRooms
<1>20. ASSUME NEW r \in Requests, DeleteBookingIdFromRooms(r)
      PROVE  TablesOK'
  BY <1>20 DEF DeleteBookingIdFromRooms
<1>21. ASSUME NEW r \in Requests, CallLost(r)
      PROVE  TablesOK'
  BY <1>21 DEF CallLost
<1>22. ASSUME NEW r \in Requests, Fail(r)
      PROVE  TablesOK'
  BY <1>22 DEF Fail, Running
<1>23. ASSUME NEW r \in Requests, ConnectionError(r)
      PROVE  TablesOK'
  BY <1>23 DEF ConnectionError
<1>24. ASSUME NEW h \in Hotels, RedlockExpires(h)
      PROVE  TablesOK'
  BY <1>24 DEF RedlockExpires
<1>25. CASE UNCHANGED vars
  BY <1>25
<1> QED
  BY <1>1, <1>2, <1>3, <1>4, <1>5, <1>6, <1>7, <1>8, <1>9, <1>10, <1>11,
     <1>12, <1>13, <1>14, <1>15, <1>16, <1>17, <1>18, <1>19, <1>20, <1>21,
     <1>22, <1>23, <1>24, <1>25
  DEF Next, Create, Confirm, Cancel, Serve

\* A step keeps every assigned room with the booking that read it as free,
\* or loses it to a cancel or to another create that read it too.
LEMMA RoomsStep ==
  /\ BookingAssumption /\ TypeOK /\ RequestsOK /\ CreatorsOK /\ ConfirmsOK
  /\ RoomsBelong /\ HoldSurvives
  /\ [Next]_vars
  => (RoomsBelong /\ HoldSurvives)'
<1> DEFINE RoomsOK == RoomsBelong /\ HoldSurvives
<1> SUFFICES ASSUME BookingAssumption, TypeOK, RequestsOK, CreatorsOK,
                    ConfirmsOK, RoomsOK, [Next]_vars
             PROVE  RoomsOK'
  OBVIOUS
<1> USE DEF BookingAssumption, TypeOK, RequestsOK, RequestOK, IsCreateOf
<1>1. ASSUME UNCHANGED <<bookedBy, idemKey, op, input, target, seen, wire>>
      PROVE  RoomsOK'
  BY <1>1 DEF RoomsBelong, HoldSurvives
<1>2. ASSUME NEW r \in Requests, NEW i \in Inputs, BeginCreate(r, i)
      PROVE  RoomsOK'
  <2>1. RoomsBelong'
    BY <1>2 DEF RoomsBelong, BeginCreate
  <2>2. HoldSurvives'
    BY <1>2 DEF HoldSurvives, BeginCreate
  <2> QED
    BY <2>1, <2>2
<1>3. ASSUME NEW r \in Requests, GetAvailableRooms(r)
      PROVE  RoomsOK'
  <2>1. RoomsBelong'
    BY <1>3 DEF RoomsBelong, GetAvailableRooms
  <2>2. HoldSurvives'
    BY <1>3 DEF HoldSurvives, GetAvailableRooms
  <2> QED
    BY <2>1, <2>2
<1>4. ASSUME NEW r \in Requests, CreateBooking(r)
      PROVE  RoomsOK'
  <2>1. RoomsBelong'
    BY <1>4 DEF RoomsBelong, CreateBooking
  <2>2. HoldSurvives'
    BY <1>4 DEF HoldSurvives, CreateBooking
  <2> QED
    BY <2>1, <2>2
<1>5. ASSUME NEW r \in Requests, CreateIdempotencyKey(r)
      PROVE  RoomsOK'
  <2>1. RoomsBelong'
    BY <1>5 DEF RoomsBelong, CreateIdempotencyKey
  <2>2. HoldSurvives'
    BY <1>5 DEF HoldSurvives, CreateIdempotencyKey
  <2> QED
    BY <2>1, <2>2
<1>6. ASSUME NEW r \in Requests, NEW b \in Bookings, BeginConfirm(r, b)
      PROVE  RoomsOK'
  <2>1. RoomsBelong'
    BY <1>6 DEF RoomsBelong, BeginConfirm
  <2>2. HoldSurvives'
    BY <1>6 DEF HoldSurvives, BeginConfirm
  <2> QED
    BY <2>1, <2>2
<1>7. ASSUME NEW r \in Requests, FinalizeIdempotencyKey(r)
      PROVE  RoomsOK'
  <2>1. RoomsBelong'
    BY <1>7 DEF RoomsBelong, FinalizeIdempotencyKey, ConfirmsOK
  <2>2. HoldSurvives'
    BY <1>7 DEF HoldSurvives, FinalizeIdempotencyKey
  <2> QED
    BY <2>1, <2>2
<1>8. ASSUME NEW r \in Requests, NEW b \in Bookings, BeginCancel(r, b)
      PROVE  RoomsOK'
  <2>1. RoomsBelong'
    BY <1>8 DEF RoomsBelong, BeginCancel
  <2>2. HoldSurvives'
    BY <1>8 DEF HoldSurvives, BeginCancel
  <2> QED
    BY <2>1, <2>2
<1>9. ASSUME NEW r \in Requests, GetBookingById(r)
      PROVE  RoomsOK'
  <2>1. RoomsBelong'
    BY <1>9 DEF RoomsBelong, GetBookingById
  <2>2. HoldSurvives'
    BY <1>9 DEF HoldSurvives, GetBookingById
  <2> QED
    BY <2>1, <2>2
<1>10. ASSUME NEW r \in Requests, UpdateBookingIdToRooms(r)
      PROVE  RoomsOK'
  <2>1. RoomsBelong'
    BY <1>10 DEF RoomsBelong, UpdateBookingIdToRooms, CreatorsOK
  <2>2. HoldSurvives'
    BY <1>10 DEF HoldSurvives, UpdateBookingIdToRooms
  <2> QED
    BY <2>1, <2>2
<1>11. ASSUME NEW r \in Requests, DeleteBookingIdFromRooms(r)
      PROVE  RoomsOK'
  <2>1. RoomsBelong'
    BY <1>11 DEF RoomsBelong, DeleteBookingIdFromRooms
  <2>2. HoldSurvives'
    BY <1>11 DEF HoldSurvives, DeleteBookingIdFromRooms
  <2> QED
    BY <2>1, <2>2
<1>12. ASSUME NEW r \in Requests, CallLost(r)
      PROVE  RoomsOK'
  <2>1. RoomsBelong'
    BY <1>12 DEF RoomsBelong, CallLost
  <2>2. HoldSurvives'
    BY <1>12 DEF HoldSurvives, CallLost
  <2> QED
    BY <2>1, <2>2
<1> QED
  BY <1>1, <1>2, <1>3, <1>4, <1>5, <1>6, <1>7, <1>8, <1>9, <1>10, <1>11, <1>12
  DEF Next, Create, Confirm, Cancel, Serve, NoRoomsAvailable, RedlockAcquire,
      RedlockExhausted, CreateAnswered, GetIdempotencyKeyWithLock,
      KeyAlreadyFinalized, ConfirmBooking, CancelRejected, CancelBooking,
      AddEmailToQueue, Fail, ConnectionError, RedlockExpires

\* A step never brings back a room of a settled cancel, nor queues the mail of
\* a cancel whose DELETE has not been served.
LEMMA CancelsStep ==
  /\ BookingAssumption /\ TypeOK /\ RequestsOK /\ CreatorsOK
  /\ CancelsOK /\ CancelFreesRooms
  /\ [Next]_vars
  => (CancelsOK /\ CancelFreesRooms)'
<1> DEFINE FreedOK == CancelsOK /\ CancelFreesRooms
<1> SUFFICES ASSUME BookingAssumption, TypeOK, RequestsOK, CreatorsOK,
                    FreedOK, [Next]_vars
             PROVE  FreedOK'
  OBVIOUS
<1> USE DEF BookingAssumption, TypeOK, RequestsOK, RequestOK, CreatorsOK,
            CancelsOK, CancelFreesRooms, Answered, IsCreateOf
<1>1. ASSUME NEW r \in Requests, NEW i \in Inputs, BeginCreate(r, i)
      PROVE  FreedOK'
  BY <1>1 DEF BeginCreate
<1>2. ASSUME NEW r \in Requests, GetAvailableRooms(r)
      PROVE  FreedOK'
  BY <1>2 DEF GetAvailableRooms
<1>3. ASSUME NEW r \in Requests, NoRoomsAvailable(r)
      PROVE  FreedOK'
  BY <1>3 DEF NoRoomsAvailable
<1>4. ASSUME NEW r \in Requests, RedlockAcquire(r)
      PROVE  FreedOK'
  BY <1>4 DEF RedlockAcquire
<1>5. ASSUME NEW r \in Requests, RedlockExhausted(r)
      PROVE  FreedOK'
  BY <1>5 DEF RedlockExhausted
<1>6. ASSUME NEW r \in Requests, CreateBooking(r)
      PROVE  FreedOK'
  BY <1>6 DEF CreateBooking
<1>7. ASSUME NEW r \in Requests, CreateIdempotencyKey(r)
      PROVE  FreedOK'
  BY <1>7 DEF CreateIdempotencyKey
<1>8. ASSUME NEW r \in Requests, CreateAnswered(r)
      PROVE  FreedOK'
  BY <1>8 DEF CreateAnswered
<1>9. ASSUME NEW r \in Requests, NEW b \in Bookings, BeginConfirm(r, b)
      PROVE  FreedOK'
  BY <1>9 DEF BeginConfirm
<1>10. ASSUME NEW r \in Requests, GetIdempotencyKeyWithLock(r)
      PROVE  FreedOK'
  BY <1>10 DEF GetIdempotencyKeyWithLock
<1>11. ASSUME NEW r \in Requests, KeyAlreadyFinalized(r)
      PROVE  FreedOK'
  BY <1>11 DEF KeyAlreadyFinalized
<1>12. ASSUME NEW r \in Requests, ConfirmBooking(r)
      PROVE  FreedOK'
  BY <1>12 DEF ConfirmBooking
<1>13. ASSUME NEW r \in Requests, FinalizeIdempotencyKey(r)
      PROVE  FreedOK'
  BY <1>13 DEF FinalizeIdempotencyKey
<1>14. ASSUME NEW r \in Requests, NEW b \in Bookings, BeginCancel(r, b)
      PROVE  FreedOK'
  BY <1>14 DEF BeginCancel
<1>15. ASSUME NEW r \in Requests, GetBookingById(r)
      PROVE  FreedOK'
  BY <1>15 DEF GetBookingById
<1>16. ASSUME NEW r \in Requests, CancelRejected(r)
      PROVE  FreedOK'
  BY <1>16 DEF CancelRejected
<1>17. ASSUME NEW r \in Requests, CancelBooking(r)
      PROVE  FreedOK'
  BY <1>17 DEF CancelBooking
<1>18. ASSUME NEW r \in Requests, AddEmailToQueue(r)
      PROVE  FreedOK'
  BY <1>18 DEF AddEmailToQueue
<1>19. ASSUME NEW r \in Requests, UpdateBookingIdToRooms(r)
      PROVE  FreedOK'
  BY <1>19 DEF UpdateBookingIdToRooms
<1>20. ASSUME NEW r \in Requests, DeleteBookingIdFromRooms(r)
      PROVE  FreedOK'
  BY <1>20 DEF DeleteBookingIdFromRooms
<1>21. ASSUME NEW r \in Requests, CallLost(r)
      PROVE  FreedOK'
  BY <1>21 DEF CallLost
<1>22. ASSUME NEW r \in Requests, Fail(r)
      PROVE  FreedOK'
  BY <1>22 DEF Fail, Running
<1>23. ASSUME NEW r \in Requests, ConnectionError(r)
      PROVE  FreedOK'
  BY <1>23 DEF ConnectionError
<1>24. ASSUME NEW h \in Hotels, RedlockExpires(h)
      PROVE  FreedOK'
  BY <1>24 DEF RedlockExpires
<1>25. CASE UNCHANGED vars
  BY <1>25
<1> QED
  BY <1>1, <1>2, <1>3, <1>4, <1>5, <1>6, <1>7, <1>8, <1>9, <1>10, <1>11,
     <1>12, <1>13, <1>14, <1>15, <1>16, <1>17, <1>18, <1>19, <1>20, <1>21,
     <1>22, <1>23, <1>24, <1>25
  DEF Next, Create, Confirm, Cancel, Serve

\* The inductive invariant holds in every reachable state.
THEOREM Inductive == Spec => []IInv
<1>1. Init => IInv
  BY BookingAssumption
  DEF BookingAssumption, Init, IInv, TypeOK, Running, BookingStatus,
      RequestsOK, RequestOK, CreatorsOK, KeyMatchesStatus, ConfirmsOK,
      ConfirmOnce, RoomsBelong, HoldSurvives, CancelsOK, CancelFreesRooms,
      IsCreateOf
<1>2. IInv /\ [Next]_vars => IInv'
  BY BookingAssumption, TypeStep, RequestsStep, TablesStep, RoomsStep,
     CancelsStep DEF IInv
<1> QED
  BY <1>1, <1>2, PTL DEF Spec

\* A room that carries a booking id was read as free by the create of that
\* booking, lies in its stay, and the booking has its key.
THEOREM RoomsBelongAlways == Spec => []RoomsBelong
<1>1. IInv => RoomsBelong
  BY DEF IInv
<1> QED
  BY <1>1, Inductive, PTL

\* Status and finalized flag change together, whatever fails between the two
\* updates of the confirm transaction.
THEOREM KeysMatch == Spec => []KeyMatchesStatus
<1>1. IInv => KeyMatchesStatus
  BY DEF IInv
<1> QED
  BY <1>1, Inductive, PTL

\* However many confirms of a key run at once, one at most commits.
THEOREM ConfirmedOnce == Spec => []ConfirmOnce
<1>1. IInv => ConfirmOnce
  BY DEF IInv
<1> QED
  BY <1>1, Inductive, PTL

\* An assigned room is lost only to a cancel or to a create that read it too.
THEOREM HoldsSurvive == Spec => []HoldSurvives
<1>1. IInv => HoldSurvives
  BY DEF IInv
<1> QED
  BY <1>1, Inductive, PTL

\* A cancel begun after the create was answered frees its rooms for good, and
\* its mail is queued only then.
THEOREM CancelsFree == Spec => [](CancelFreesRooms /\ MailTellsTheTruth)
<1>1. IInv => CancelFreesRooms /\ MailTellsTheTruth
  BY DEF IInv, TypeOK, CancelsOK, CancelFreesRooms, MailTellsTheTruth
<1> QED
  BY <1>1, Inductive, PTL

\* A booking cancelled after its key was spent stays cancelled.
THEOREM CancelIsFinal == Spec => CancelledForGood
<1>1. ASSUME IInv, [Next]_vars
      PROVE  \A b \in Bookings :
               idemKey[b] = "finalized" /\ status[b] = "CANCELLED"
               => status'[b] = "CANCELLED"
  <2> SUFFICES ASSUME NEW b \in Bookings,
                      idemKey[b] = "finalized", status[b] = "CANCELLED",
                      status'[b] # "CANCELLED"
               PROVE  FALSE
    OBVIOUS
  <2>1. CASE \E r \in Requests : CreateBooking(r)
    BY <1>1, <2>1 DEF IInv, TypeOK, CreateBooking
  <2>2. CASE \E r \in Requests : FinalizeIdempotencyKey(r)
    BY <1>1, <2>2 DEF IInv, TypeOK, ConfirmsOK, FinalizeIdempotencyKey
  <2>3. CASE \E r \in Requests : CancelBooking(r)
    BY <1>1, <2>3 DEF IInv, TypeOK, CancelBooking
  <2>4. CASE UNCHANGED status
    BY <2>4
  <2> QED
    BY <1>1, <2>1, <2>2, <2>3, <2>4
    DEF Next, Create, Confirm, Cancel, Serve, BeginCreate, GetAvailableRooms,
        NoRoomsAvailable, RedlockAcquire, RedlockExhausted,
        CreateIdempotencyKey, CreateAnswered, BeginConfirm,
        GetIdempotencyKeyWithLock, KeyAlreadyFinalized, ConfirmBooking,
        BeginCancel, GetBookingById, CancelRejected, AddEmailToQueue,
        UpdateBookingIdToRooms, DeleteBookingIdFromRooms, CallLost, Fail,
        ConnectionError, RedlockExpires
<1> QED
  BY <1>1, Inductive, PTL DEF Spec, CancelledForGood

\* While a TTL outlasts its request, a request inside the critical steps holds
\* the lock of its hotel.
LEMMA LockStep ==
  BookingAssumption /\ TypeOK /\ RequestsOK /\ LockHeld /\ [Next]_vars
  => LockHeld'
<1> SUFFICES ASSUME BookingAssumption, TypeOK, RequestsOK, LockHeld,
                    [Next]_vars, ~ ExpiryMidRequest
             PROVE  LockHeld'
  BY DEF LockHeld
<1> USE DEF BookingAssumption, TypeOK, RequestsOK, RequestOK, LockHeld, Inputs
<1>1. ASSUME NEW r \in Requests, NEW i \in Inputs, BeginCreate(r, i)
      PROVE  LockHeld'
  BY <1>1 DEF BeginCreate
<1>2. ASSUME NEW r \in Requests, GetAvailableRooms(r)
      PROVE  LockHeld'
  BY <1>2 DEF GetAvailableRooms
<1>3. ASSUME NEW r \in Requests, NoRoomsAvailable(r)
      PROVE  LockHeld'
  BY <1>3 DEF NoRoomsAvailable
<1>4. ASSUME NEW r \in Requests, RedlockAcquire(r)
      PROVE  LockHeld'
  BY <1>4 DEF RedlockAcquire
<1>5. ASSUME NEW r \in Requests, RedlockExhausted(r)
      PROVE  LockHeld'
  BY <1>5 DEF RedlockExhausted
<1>6. ASSUME NEW r \in Requests, CreateBooking(r)
      PROVE  LockHeld'
  BY <1>6 DEF CreateBooking
<1>7. ASSUME NEW r \in Requests, CreateIdempotencyKey(r)
      PROVE  LockHeld'
  BY <1>7 DEF CreateIdempotencyKey
<1>8. ASSUME NEW r \in Requests, CreateAnswered(r)
      PROVE  LockHeld'
  BY <1>8 DEF CreateAnswered
<1>9. ASSUME NEW r \in Requests, NEW b \in Bookings, BeginConfirm(r, b)
      PROVE  LockHeld'
  BY <1>9 DEF BeginConfirm
<1>10. ASSUME NEW r \in Requests, GetIdempotencyKeyWithLock(r)
      PROVE  LockHeld'
  BY <1>10 DEF GetIdempotencyKeyWithLock
<1>11. ASSUME NEW r \in Requests, KeyAlreadyFinalized(r)
      PROVE  LockHeld'
  BY <1>11 DEF KeyAlreadyFinalized
<1>12. ASSUME NEW r \in Requests, ConfirmBooking(r)
      PROVE  LockHeld'
  BY <1>12 DEF ConfirmBooking
<1>13. ASSUME NEW r \in Requests, FinalizeIdempotencyKey(r)
      PROVE  LockHeld'
  BY <1>13 DEF FinalizeIdempotencyKey
<1>14. ASSUME NEW r \in Requests, NEW b \in Bookings, BeginCancel(r, b)
      PROVE  LockHeld'
  BY <1>14 DEF BeginCancel
<1>15. ASSUME NEW r \in Requests, GetBookingById(r)
      PROVE  LockHeld'
  BY <1>15 DEF GetBookingById
<1>16. ASSUME NEW r \in Requests, CancelRejected(r)
      PROVE  LockHeld'
  BY <1>16 DEF CancelRejected
<1>17. ASSUME NEW r \in Requests, CancelBooking(r)
      PROVE  LockHeld'
  BY <1>17 DEF CancelBooking
<1>18. ASSUME NEW r \in Requests, AddEmailToQueue(r)
      PROVE  LockHeld'
  BY <1>18 DEF AddEmailToQueue
<1>19. ASSUME NEW r \in Requests, UpdateBookingIdToRooms(r)
      PROVE  LockHeld'
  BY <1>19 DEF UpdateBookingIdToRooms
<1>20. ASSUME NEW r \in Requests, DeleteBookingIdFromRooms(r)
      PROVE  LockHeld'
  BY <1>20 DEF DeleteBookingIdFromRooms
<1>21. ASSUME NEW r \in Requests, CallLost(r)
      PROVE  LockHeld'
  BY <1>21 DEF CallLost
<1>22. ASSUME NEW r \in Requests, Fail(r)
      PROVE  LockHeld'
  BY <1>22 DEF Fail, Running
<1>23. ASSUME NEW r \in Requests, ConnectionError(r)
      PROVE  LockHeld'
  BY <1>23 DEF ConnectionError
<1>24. ASSUME NEW h \in Hotels, RedlockExpires(h)
      PROVE  LockHeld'
  BY <1>24 DEF RedlockExpires
<1>25. CASE UNCHANGED vars
  BY <1>25
<1> QED
  BY <1>1, <1>2, <1>3, <1>4, <1>5, <1>6, <1>7, <1>8, <1>9, <1>10, <1>11,
     <1>12, <1>13, <1>14, <1>15, <1>16, <1>17, <1>18, <1>19, <1>20, <1>21,
     <1>22, <1>23, <1>24, <1>25
  DEF Next, Create, Confirm, Cancel, Serve

\* Two creates of one hotel are never in the critical steps at once, unless a
\* TTL runs out on a running request.
THEOREM Exclusive == Spec => []HotelExclusive
<1>1. Init => LockHeld
  BY DEF Init, LockHeld
<1>2. LockHeld => HotelExclusive
  BY DEF LockHeld, HotelExclusive
<1>3. IInv /\ LockHeld /\ [Next]_vars => LockHeld'
  BY BookingAssumption, LockStep DEF IInv
<1> QED
  BY <1>1, <1>2, <1>3, Inductive, PTL DEF Spec

\* Every step of a request is one atomic operation of BookingLifecycle on the
\* booking it changes, or changes no booking.
LEMMA LifecycleStep ==
  IInv /\ [Next]_vars => [Lifecycle!Next]_(Lifecycle!vars)
<1> SUFFICES ASSUME IInv, [Next]_vars
             PROVE  [Lifecycle!Next]_(Lifecycle!vars)
  OBVIOUS
<1> USE DEF Lifecycle!vars, AbstractPhase, SpentKeys
<1>1. CASE UNCHANGED db
  BY <1>1
<1>2. ASSUME NEW r \in Requests, CreateBooking(r)
      PROVE  Lifecycle!Next
  <2>1. PICK b \in Bookings : /\ status[b] = "absent"
                              /\ status' = [status EXCEPT ![b] = "PENDING"]
    BY <1>2 DEF CreateBooking
  <2>2. Lifecycle!Hold(b)
    BY <1>2, <2>1 DEF CreateBooking, Lifecycle!Hold, IInv, TypeOK
  <2> QED
    BY <2>2 DEF Lifecycle!Next
<1>3. ASSUME NEW r \in Requests, CreateIdempotencyKey(r)
      PROVE  UNCHANGED Lifecycle!vars
  <2>1. /\ target[r] \in Bookings
        /\ idemKey[target[r]] = "absent"
    BY <1>3 DEF CreateIdempotencyKey, IInv, TypeOK, RequestsOK, RequestOK,
                CreatorsOK
  <2> QED
    BY <1>3, <2>1 DEF CreateIdempotencyKey, IInv, TypeOK
<1>4. ASSUME NEW r \in Requests, FinalizeIdempotencyKey(r)
      PROVE  Lifecycle!Next
  <2>1. /\ target[r] \in Bookings
        /\ idemKey[target[r]] = "open"
    BY <1>4 DEF FinalizeIdempotencyKey, IInv, TypeOK, RequestsOK, RequestOK,
                ConfirmsOK
  <2>2. PICK b \in Bookings : b = target[r]
    BY <2>1
  <2>3. status[b] \in {"PENDING", "CANCELLED"}
    BY <2>1, <2>2 DEF IInv, TypeOK, BookingStatus, KeyMatchesStatus
  <2>4. Lifecycle!Book(b)
    <3>1. AbstractPhase[b] \in {"held", "void"}
      BY <2>3
    <3>2. b \notin SpentKeys
      BY <2>1, <2>2
    <3>3. AbstractPhase' = [AbstractPhase EXCEPT ![b] = "booked"]
      BY <1>4, <2>2 DEF FinalizeIdempotencyKey, IInv, TypeOK
    <3>4. SpentKeys' = SpentKeys \cup {b}
      BY <1>4, <2>2 DEF FinalizeIdempotencyKey, IInv, TypeOK
    <3> QED
      BY <3>1, <3>2, <3>3, <3>4 DEF Lifecycle!Book
  <2> QED
    BY <2>4 DEF Lifecycle!Next
<1>5. ASSUME NEW r \in Requests, CancelBooking(r)
      PROVE  Lifecycle!Next
  <2>1. PICK b \in Bookings : b = target[r] /\ status[b] # "absent"
    BY <1>5 DEF CancelBooking, IInv, TypeOK, RequestsOK, RequestOK, CancelsOK
  <2>2. Lifecycle!Void(b)
    BY <1>5, <2>1 DEF CancelBooking, Lifecycle!Void, IInv, TypeOK
  <2> QED
    BY <2>2 DEF Lifecycle!Next
<1> QED
  BY <1>1, <1>2, <1>3, <1>4, <1>5
  DEF Next, Create, Confirm, Cancel, Serve, BeginCreate, GetAvailableRooms,
      NoRoomsAvailable, RedlockAcquire, RedlockExhausted, CreateAnswered,
      BeginConfirm, GetIdempotencyKeyWithLock, KeyAlreadyFinalized,
      ConfirmBooking, BeginCancel, GetBookingById, CancelRejected,
      AddEmailToQueue, UpdateBookingIdToRooms, DeleteBookingIdFromRooms,
      CallLost, Fail, ConnectionError, RedlockExpires

\* The requests together implement the atomic life of a booking.
THEOREM Refinement == Spec => ImplementsLifecycle
<1>1. Init => Lifecycle!Init
  BY DEF Init, Lifecycle!Init, AbstractPhase, SpentKeys
<1> QED
  BY <1>1, LifecycleStep, Inductive, PTL
  DEF Spec, ImplementsLifecycle, Lifecycle!Spec

----------------------------------------------------------------------------
(* Double bookings.  The claim NoDoubleBooking fails because creates overlap *)
(* between the read of the rooms and the PUT; what it needs beside the lock  *)
(* is that they do not.  Then a room is free from the read to the PUT, and   *)
(* is the booking's until a cancel gives it back.                            *)

FreeTillAssigned ==
  \A r \in Requests : Assigning(r) /\ wire[r] # "applied" =>
    \A x \in seen[r] : bookedBy[x] = NoBooking

KeptTillGivenBack ==
  \A r \in Requests : op[r] = "create" /\ wire[r] = "applied" =>
    \A x \in seen[r] : bookedBy[x] = target[r] \/ GivenBack(target[r])

\* What a step does to a request: a served call is the end of what it writes,
\* and only the read of the rooms lets it assign some.
LEMMA RequestMoves ==
  ASSUME TypeOK, RequestsOK, [Next]_vars, NEW r \in Requests
  PROVE  /\ wire[r] = "applied" =>
              /\ wire'[r] = "applied" /\ op'[r] = op[r]
              /\ target'[r] = target[r] /\ seen'[r] = seen[r]
         /\ op'[r] = "create" /\ wire'[r] = "applied" =>
              wire[r] = "applied" \/ UpdateBookingIdToRooms(r)
         /\ Assigning(r)' =>
              (Assigning(r) /\ seen'[r] = seen[r]) \/ GetAvailableRooms(r)
  <1> DEFINE Moves ==
        /\ wire[r] = "applied" =>
             /\ wire'[r] = "applied" /\ op'[r] = op[r]
             /\ target'[r] = target[r] /\ seen'[r] = seen[r]
        /\ op'[r] = "create" /\ wire'[r] = "applied" =>
             wire[r] = "applied" \/ UpdateBookingIdToRooms(r)
        /\ Assigning(r)' =>
             (Assigning(r) /\ seen'[r] = seen[r]) \/ GetAvailableRooms(r)
  <1>1. RequestOK(r)
    BY DEF RequestsOK
  <1> USE DEF TypeOK, RequestOK, Assigning
  <1>2. ASSUME NEW q \in Requests, Create(q), ~ GetAvailableRooms(q)
        PROVE  Moves
    BY <1>1, <1>2
    DEF Create, BeginCreate, NoRoomsAvailable, RedlockAcquire,
        RedlockExhausted, CreateBooking, CreateIdempotencyKey, CreateAnswered
  <1>3. ASSUME NEW q \in Requests, GetAvailableRooms(q) PROVE Moves
    <2>1. CASE q = r
      BY <1>1, <1>3, <2>1 DEF GetAvailableRooms
    <2>2. CASE q # r
      BY <1>3, <2>2 DEF GetAvailableRooms
    <2> QED
      BY <2>1, <2>2
  <1>4. ASSUME NEW q \in Requests, Confirm(q) PROVE Moves
    BY <1>1, <1>4
    DEF Confirm, BeginConfirm, GetIdempotencyKeyWithLock, KeyAlreadyFinalized,
        ConfirmBooking, FinalizeIdempotencyKey
  <1>5. ASSUME NEW q \in Requests, Cancel(q) PROVE Moves
    BY <1>1, <1>5
    DEF Cancel, BeginCancel, GetBookingById, CancelRejected, CancelBooking,
        AddEmailToQueue
  <1>6. ASSUME NEW q \in Requests, UpdateBookingIdToRooms(q) PROVE Moves
    <2>1. CASE q = r
      BY <1>6, <2>1 DEF UpdateBookingIdToRooms
    <2>2. CASE q # r
      BY <1>6, <2>2 DEF UpdateBookingIdToRooms
    <2> QED
      BY <2>1, <2>2
  <1>7. ASSUME NEW q \in Requests, DeleteBookingIdFromRooms(q) PROVE Moves
    BY <1>7 DEF DeleteBookingIdFromRooms
  <1>8. ASSUME NEW q \in Requests, CallLost(q) \/ Fail(q) \/ ConnectionError(q)
        PROVE  Moves
    BY <1>8 DEF CallLost, Fail, ConnectionError
  <1>9. ASSUME NEW h \in Hotels, RedlockExpires(h) PROVE Moves
    BY <1>9 DEF RedlockExpires
  <1>10. CASE UNCHANGED vars
    BY <1>10
  <1> QED
    BY <1>2, <1>3, <1>4, <1>5, <1>6, <1>7, <1>8, <1>9, <1>10 DEF Next, Serve

\* Rooms change hands only by the two calls.
LEMMA RoomsMove ==
  ASSUME [Next]_vars
  PROVE  \/ UNCHANGED bookedBy
         \/ \E r \in Requests : UpdateBookingIdToRooms(r)
         \/ \E r \in Requests : DeleteBookingIdFromRooms(r)
  BY DEF Next, Create, Confirm, Cancel, Serve, BeginCreate, GetAvailableRooms,
         NoRoomsAvailable, RedlockAcquire, RedlockExhausted, CreateBooking,
         CreateIdempotencyKey, CreateAnswered, BeginConfirm,
         GetIdempotencyKeyWithLock, KeyAlreadyFinalized, ConfirmBooking,
         FinalizeIdempotencyKey, BeginCancel, GetBookingById, CancelRejected,
         CancelBooking, AddEmailToQueue, CallLost, Fail, ConnectionError,
         RedlockExpires

\* A booking's rooms that were given back have been for good.
LEMMA GivenBackStays ==
  ASSUME TypeOK, RequestsOK, [Next]_vars, NEW b, GivenBack(b)
  PROVE  GivenBack(b)'
  <1>1. PICK c \in Requests :
          op[c] = "cancel" /\ target[c] = b /\ wire[c] = "applied"
    BY DEF GivenBack
  <1>2. op'[c] = "cancel" /\ target'[c] = b /\ wire'[c] = "applied"
    BY <1>1, RequestMoves
  <1> QED
    BY <1>2 DEF GivenBack

\* Creates that do not overlap on a room find it free when they assign it.
LEMMA ApartStep ==
  ASSUME IInv, CreatesApart, CreatesApart',
         FreeTillAssigned, KeptTillGivenBack, [Next]_vars
  PROVE  FreeTillAssigned' /\ KeptTillGivenBack'
  <1>1. /\ TypeOK /\ RequestsOK
        /\ bookedBy \in [Rooms -> Bookings \cup {NoBooking}]
        /\ \A r \in Requests : seen[r] \subseteq Rooms
        /\ NoBooking \notin Bookings
    BY BookingAssumption DEF IInv, TypeOK
  <1>2. ASSUME NEW r \in Requests, UpdateBookingIdToRooms(r)
        PROVE  FreeTillAssigned' /\ KeptTillGivenBack'
    <2>1. /\ op[r] = "create" /\ wire[r] = "sent" /\ wire'[r] = "applied"
          /\ \A x \in Rooms : bookedBy'[x] = IF x \in seen[r] THEN target[r]
                                             ELSE bookedBy[x]
          /\ UNCHANGED <<op, pc, target, seen>>
          /\ \A q \in Requests \ {r} : wire'[q] = wire[q]
      BY <1>1, <1>2 DEF UpdateBookingIdToRooms, TypeOK
    <2>2. /\ Assigning(r)
          /\ \A q \in Requests \ {r} :
               Assigning(q) => seen[q] \cap seen[r] = {}
      BY <2>1 DEF Assigning, CreatesApart
    <2>3. \A x \in seen[r] : bookedBy[x] = NoBooking
      BY <2>1, <2>2 DEF FreeTillAssigned
    <2>4. FreeTillAssigned'
      <3> SUFFICES ASSUME NEW q \in Requests, Assigning(q)', wire'[q] # "applied",
                          NEW x \in seen'[q]
                   PROVE  bookedBy'[x] = NoBooking
        BY DEF FreeTillAssigned
      <3>1. q # r /\ Assigning(q) /\ x \in seen[q] /\ wire[q] # "applied"
        BY <2>1 DEF Assigning
      <3>2. x \notin seen[r] /\ x \in Rooms
        BY <1>1, <2>2, <3>1
      <3> QED
        BY <2>1, <3>1, <3>2 DEF FreeTillAssigned
    <2>5. ASSUME NEW q \in Requests, op[q] = "create", wire'[q] = "applied",
                 NEW x \in seen[q]
          PROVE  bookedBy'[x] = target[q] \/ GivenBack(target[q])
      <3>1. CASE q = r
        BY <1>1, <2>1, <3>1
      <3>2. CASE q # r /\ x \notin seen[r]
        BY <1>1, <2>1, <2>5, <3>2 DEF KeptTillGivenBack
      <3>3. CASE q # r /\ x \in seen[r]
        <4>1. target[q] \in Bookings
          BY <1>1, <2>1, <2>5, <3>3 DEF RequestsOK, RequestOK
        <4> QED
          BY <1>1, <2>1, <2>3, <2>5, <3>3, <4>1 DEF KeptTillGivenBack
      <3> QED
        BY <3>1, <3>2, <3>3
    <2>6. KeptTillGivenBack'
      BY <1>1, <2>1, <2>5, GivenBackStays DEF KeptTillGivenBack
    <2> QED
      BY <2>4, <2>6
  <1>3. ASSUME NEW c \in Requests, DeleteBookingIdFromRooms(c)
        PROVE  FreeTillAssigned' /\ KeptTillGivenBack'
    <2>1. /\ op[c] = "cancel" /\ wire'[c] = "applied"
          /\ \A x \in Rooms : bookedBy'[x] = IF bookedBy[x] = target[c]
                                             THEN NoBooking ELSE bookedBy[x]
          /\ UNCHANGED <<op, pc, target, seen>>
          /\ \A q \in Requests \ {c} : wire'[q] = wire[q]
      BY <1>1, <1>3 DEF DeleteBookingIdFromRooms, TypeOK
    <2>2. FreeTillAssigned'
      BY <1>1, <2>1 DEF FreeTillAssigned, Assigning
    <2>3. GivenBack(target[c])'
      BY <2>1 DEF GivenBack
    <2>4. ASSUME NEW q \in Requests, op[q] = "create", wire'[q] = "applied",
                 NEW x \in seen[q]
          PROVE  bookedBy'[x] = target[q] \/ GivenBack(target[q])'
      <3>1. bookedBy[x] = target[q] \/ GivenBack(target[q])
        BY <2>1, <2>4 DEF KeptTillGivenBack
      <3>2. CASE bookedBy[x] = target[q]
        BY <1>1, <2>1, <2>3, <3>2
      <3>3. CASE GivenBack(target[q])
        <4>1. \A b : GivenBack(b) => GivenBack(b)'
          BY <1>1, GivenBackStays
        <4> QED
          BY <2>1, <3>3, <4>1 DEF GivenBack
      <3> QED
        BY <3>1, <3>2, <3>3
    <2>5. KeptTillGivenBack'
      BY <2>1, <2>4 DEF KeptTillGivenBack, GivenBack
    <2> QED
      BY <2>2, <2>5
  <1>4. ASSUME UNCHANGED bookedBy,
               \A r \in Requests : ~ UpdateBookingIdToRooms(r)
        PROVE  FreeTillAssigned' /\ KeptTillGivenBack'
    <2>1. FreeTillAssigned'
      <3> SUFFICES ASSUME NEW r \in Requests, Assigning(r)',
                          wire'[r] # "applied", NEW x \in seen'[r]
                   PROVE  bookedBy[x] = NoBooking
        BY <1>4 DEF FreeTillAssigned
      <3>1. CASE Assigning(r) /\ seen'[r] = seen[r]
        BY <1>1, <3>1, RequestMoves DEF FreeTillAssigned
      <3>2. CASE GetAvailableRooms(r)
        BY <1>1, <3>2
        DEF GetAvailableRooms, FindByRoomCategoryIdAndDateRange, TypeOK
      <3> QED
        BY <1>1, <3>1, <3>2, RequestMoves
    <2>2. ASSUME NEW r \in Requests, op'[r] = "create", wire'[r] = "applied",
                 NEW x \in seen'[r], NEW b, b = target'[r]
          PROVE  bookedBy'[x] = b \/ GivenBack(b)'
      <3>1. /\ wire[r] = "applied" /\ op[r] = "create"
            /\ seen'[r] = seen[r] /\ target'[r] = target[r]
        BY <1>1, <1>4, <2>2, RequestMoves
      <3>2. bookedBy[x] = b \/ GivenBack(b)
        BY <2>2, <3>1 DEF KeptTillGivenBack
      <3> QED
        BY <1>1, <1>4, <3>2, GivenBackStays
    <2>3. KeptTillGivenBack'
      BY <2>2 DEF KeptTillGivenBack, GivenBack
    <2> QED
      BY <2>1, <2>3
  <1>5. ASSUME NEW c \in Requests, NEW r \in Requests,
               DeleteBookingIdFromRooms(c)
        PROVE  ~ UpdateBookingIdToRooms(r)
    BY <1>1, <1>5 DEF DeleteBookingIdFromRooms, UpdateBookingIdToRooms, TypeOK
  <1> QED
    BY <1>2, <1>3, <1>4, RoomsMove

\* While no two creates that may still assign their rooms have read the same
\* one, a room has two living bookings only through a cancel that stopped half
\* way or that a confirm has undone.
THEOREM ApartCreatesDoubleNothing ==
  Spec /\ []CreatesApart => []DoubledByCancel
  <1> DEFINE Kept == IInv /\ FreeTillAssigned /\ KeptTillGivenBack
  <1>1. Init => FreeTillAssigned /\ KeptTillGivenBack
    BY DEF Init, FreeTillAssigned, KeptTillGivenBack, Assigning
  <1>2. Kept => DoubledByCancel
    <2> SUFFICES ASSUME Kept, NEW r1 \in Requests, NEW r2 \in Requests,
                        Live(r1), Live(r2), r1 # r2,
                        NEW x \in seen[r1] \cap seen[r2]
                 PROVE  GivenBack(target[r1]) \/ GivenBack(target[r2])
      BY DEF DoubledByCancel
    <2>1. /\ op[r1] = "create" /\ wire[r1] = "applied"
          /\ op[r2] = "create" /\ wire[r2] = "applied"
          /\ target[r1] \in Bookings /\ target[r2] \in Bookings
      BY DEF Live, IInv, RequestsOK, RequestOK
    <2>2. target[r1] # target[r2]
      BY <2>1 DEF IInv, CreatorsOK, IsCreateOf
    <2> QED
      BY <2>1, <2>2 DEF KeptTillGivenBack
  <1>3. /\ IInv /\ FreeTillAssigned /\ KeptTillGivenBack
        /\ CreatesApart /\ CreatesApart' /\ [Next]_vars
        => FreeTillAssigned' /\ KeptTillGivenBack'
    BY ApartStep
  <1> QED
    BY <1>1, <1>2, <1>3, Inductive, PTL DEF Spec

\* So the documentation's claim holds if creates of one room do not overlap and
\* none is cancelled.
THEOREM ApartCreatesKeepRooms ==
  Spec /\ []CreatesApart /\ [](\A r \in Requests : op[r] # "cancel")
    => []NoDoubleBooking
  <1>1. DoubledByCancel /\ (\A r \in Requests : op[r] # "cancel")
          => NoDoubleBooking
    BY DEF DoubledByCancel, GivenBack, NoDoubleBooking
  <1> QED
    BY <1>1, ApartCreatesDoubleNothing, PTL

----------------------------------------------------------------------------
(* The mail queue beside the bookings.  The composition makes only steps     *)
(* Booking makes (BookingGoesOn), so what is proved above holds here as      *)
(* well.  A job has a run to send with when it is taken: Runs counts that    *)
(* run with the mails that are out, and is bounded by the number of times    *)
(* the job was put in the queue.                                             *)

\* The mails of a job, the one its run may still send included
Runs(j) ==
  sent[j] + (IF working = j /\ stage \in {"taken", "rendered"} THEN 1 ELSE 0)

JobOK(j) ==
  /\ Runs(j) <= 1 + stalls[j] /\ Runs(j) <= 2
  /\ job[j] = "none" => Runs(j) = 0 /\ stalls[j] = 0
  /\ job[j] = "waiting" => Runs(j) <= stalls[j]
  /\ job[j] \in {"waiting", "active"} => stalls[j] <= 1

\* Who has the lock of a job runs it
LockedJob == locked => working # NoJob /\ job[working] = "active"

MailInv == MailTypeOK /\ LockedJob /\ \A j \in Jobs : JobOK(j)

\* A cancel that has given the rooms back and been written
Applied(r) ==
  /\ op[r] = "cancel" /\ wire[r] = "applied"
  /\ target[r] \in Bookings /\ status[target[r]] \in {"CONFIRMED", "CANCELLED"}

JobsOfCancels ==
  /\ \A r \in Requests : ~ Fresh(r) => Applied(r)
  /\ \A r \in mailed : ~ Fresh(r)

----------------------------------------------------------------------------
\* The queue is empty at the start.
LEMMA MailInitially == MailInit => MailInv /\ \A j \in Jobs : Fresh(j)
  <1> SUFFICES ASSUME MailInit PROVE MailInv /\ \A j \in Jobs : Fresh(j)
    OBVIOUS
  <1>1. MailTypeOK /\ LockedJob
    <2>1. /\ job \in [Jobs -> Settled \cup {"none", "waiting", "active"}]
          /\ stalls \in [Jobs -> 0 .. 2] /\ sent \in [Jobs -> Nat]
      BY DEF MailInit
    <2>2. starts \in 0 .. MaxStarts /\ running = FALSE /\ locked = FALSE
      BY MailAssumption DEF MailInit
    <2>3. working = NoJob /\ stage = "none"
      BY DEF MailInit
    <2> QED
      BY <2>1, <2>2, <2>3 DEF MailTypeOK, LockedJob
  <1>2. \A j \in Jobs : JobOK(j) /\ Fresh(j)
    BY MailAssumption DEF MailInit, JobOK, Runs, Fresh
  <1> QED
    BY <1>1, <1>2 DEF MailInv

\* A job is added: it has no run yet.
LEMMA AddedKeeps ==
  ASSUME MailInv, NEW j \in Jobs, AddJob(j)
  PROVE  MailInv'
  <1>1. MailTypeOK'
    BY MailAssumption DEF MailInv, MailTypeOK, JobOK, Settled, AddJob, Fresh
  <1>2. LockedJob'
    BY MailAssumption DEF MailInv, MailTypeOK, LockedJob, AddJob, Fresh
  <1>3. ASSUME NEW i \in Jobs PROVE JobOK(i)'
    <2>1. JobOK(i) /\ stalls[i] \in 0 .. 2 /\ sent[i] \in Nat
      BY DEF MailInv, MailTypeOK
    <2> QED
      BY <2>1, MailAssumption
        DEF MailInv, MailTypeOK, JobOK, Runs, Settled, AddJob, Fresh
  <1> QED
    BY <1>1, <1>2, <1>3 DEF MailInv

\* A start of the service.
LEMMA StartedKeeps ==
  ASSUME MailInv, NotificationServiceStarts
  PROVE  MailInv'
  <1>1. MailTypeOK'
    BY MailAssumption
      DEF MailInv, MailTypeOK, JobOK, Settled, NotificationServiceStarts
  <1>2. LockedJob'
    BY MailAssumption
      DEF MailInv, MailTypeOK, LockedJob, NotificationServiceStarts
  <1>3. ASSUME NEW i \in Jobs PROVE JobOK(i)'
    <2>1. JobOK(i) /\ stalls[i] \in 0 .. 2 /\ sent[i] \in Nat
      BY DEF MailInv, MailTypeOK
    <2> QED
      BY <2>1, MailAssumption
        DEF MailInv, MailTypeOK, JobOK, Runs, Settled, NotificationServiceStarts
  <1> QED
    BY <1>1, <1>2, <1>3 DEF MailInv

\* Its death: the run is given up.
LEMMA CrashKeeps ==
  ASSUME MailInv, Crash
  PROVE  MailInv'
  <1>1. MailTypeOK'
    BY MailAssumption DEF MailInv, MailTypeOK, JobOK, Settled, Crash
  <1>2. LockedJob'
    BY MailAssumption DEF MailInv, MailTypeOK, LockedJob, Crash
  <1>3. ASSUME NEW i \in Jobs PROVE JobOK(i)'
    <2>1. JobOK(i) /\ stalls[i] \in 0 .. 2 /\ sent[i] \in Nat
      BY DEF MailInv, MailTypeOK
    <2> QED
      BY <2>1, MailAssumption
        DEF MailInv, MailTypeOK, JobOK, Runs, Settled, Crash
  <1> QED
    BY <1>1, <1>2, <1>3 DEF MailInv

\* The worker takes a job: one run more.
LEMMA TakenKeeps ==
  ASSUME MailInv, NEW j \in Jobs, TakeJob(j)
  PROVE  MailInv'
  <1>1. MailTypeOK'
    BY MailAssumption DEF MailInv, MailTypeOK, JobOK, Settled, TakeJob
  <1>2. LockedJob'
    BY MailAssumption DEF MailInv, MailTypeOK, LockedJob, TakeJob
  <1>3. ASSUME NEW i \in Jobs PROVE JobOK(i)'
    <2>1. JobOK(i) /\ stalls[i] \in 0 .. 2 /\ sent[i] \in Nat
      BY DEF MailInv, MailTypeOK
    <2> QED
      BY <2>1, MailAssumption
        DEF MailInv, MailTypeOK, JobOK, Runs, Settled, TakeJob
  <1> QED
    BY <1>1, <1>2, <1>3 DEF MailInv

\* The template is rendered, or not.
LEMMA RenderedKeeps ==
  ASSUME MailInv, RenderMailTemplate
  PROVE  MailInv'
  <1>1. MailTypeOK'
    BY MailAssumption
      DEF MailInv, MailTypeOK, JobOK, Settled, RenderMailTemplate
  <1>2. LockedJob'
    BY MailAssumption DEF MailInv, MailTypeOK, LockedJob, RenderMailTemplate
  <1>3. ASSUME NEW i \in Jobs PROVE JobOK(i)'
    <2>1. JobOK(i) /\ stalls[i] \in 0 .. 2 /\ sent[i] \in Nat
      BY DEF MailInv, MailTypeOK
    <2> QED
      BY <2>1, MailAssumption
        DEF MailInv, MailTypeOK, JobOK, Runs, Settled, RenderMailTemplate
  <1> QED
    BY <1>1, <1>2, <1>3 DEF MailInv

\* The mail is sent, or not: the run has had its one.
LEMMA SentKeeps ==
  ASSUME MailInv, SendEmail
  PROVE  MailInv'
  <1>1. MailTypeOK'
    BY MailAssumption DEF MailInv, MailTypeOK, JobOK, Settled, SendEmail
  <1>2. LockedJob'
    BY MailAssumption DEF MailInv, MailTypeOK, LockedJob, SendEmail
  <1>3. ASSUME NEW i \in Jobs PROVE JobOK(i)'
    <2>1. JobOK(i) /\ stalls[i] \in 0 .. 2 /\ sent[i] \in Nat
      BY DEF MailInv, MailTypeOK
    <2> QED
      BY <2>1, MailAssumption
        DEF MailInv, MailTypeOK, JobOK, Runs, Settled, SendEmail
  <1> QED
    BY <1>1, <1>2, <1>3 DEF MailInv

\* The run ends.
LEMMA FinishedKeeps ==
  ASSUME MailInv, FinishJob
  PROVE  MailInv'
  <1>1. MailTypeOK'
    BY MailAssumption DEF MailInv, MailTypeOK, JobOK, Settled, FinishJob
  <1>2. LockedJob'
    BY MailAssumption DEF MailInv, MailTypeOK, LockedJob, FinishJob
  <1>3. ASSUME NEW i \in Jobs PROVE JobOK(i)'
    <2>1. JobOK(i) /\ stalls[i] \in 0 .. 2 /\ sent[i] \in Nat
      BY DEF MailInv, MailTypeOK
    <2> QED
      BY <2>1, MailAssumption
        DEF MailInv, MailTypeOK, JobOK, Runs, Settled, FinishJob
  <1> QED
    BY <1>1, <1>2, <1>3 DEF MailInv

\* The job stalls: it is queued again the first time only.
LEMMA StallKeeps ==
  ASSUME MailInv, NEW j \in Jobs, JobStalls(j)
  PROVE  MailInv'
  <1>1. MailTypeOK'
    BY MailAssumption DEF MailInv, MailTypeOK, JobOK, Settled, JobStalls
  <1>2. LockedJob'
    BY MailAssumption DEF MailInv, MailTypeOK, LockedJob, JobStalls
  <1>3. ASSUME NEW i \in Jobs PROVE JobOK(i)'
    <2>1. JobOK(i) /\ stalls[i] \in 0 .. 2 /\ sent[i] \in Nat
      BY DEF MailInv, MailTypeOK
    <2> QED
      BY <2>1, MailAssumption
        DEF MailInv, MailTypeOK, JobOK, Runs, Settled, JobStalls
  <1> QED
    BY <1>1, <1>2, <1>3 DEF MailInv

\* Every step of the queue and its worker keeps what it knows of the jobs, and
\* adds only the mails of the starts.
LEMMA MailStep ==
  ASSUME MailInv, MailNext
  PROVE  /\ MailInv'
         /\ \A j \in Jobs \ StartMails : Fresh(j)' <=> Fresh(j)
  <1>1. CASE \E j \in StartMails : AddJob(j)
    <2>1. PICK j \in StartMails : AddJob(j)
      BY <1>1
    <2>2. \A i \in Jobs \ StartMails : Fresh(i)' <=> Fresh(i)
      BY <2>1 DEF AddJob, Fresh, MailInv, MailTypeOK
    <2> QED
      BY <2>1, <2>2, AddedKeeps, MailAssumption
  <1>2. CASE NotificationServiceStarts \/ Crash
    <2>1. job' = job
      BY <1>2 DEF NotificationServiceStarts, Crash
    <2> QED
      BY <1>2, <2>1, StartedKeeps, CrashKeeps DEF Fresh
  <1>3. CASE Work
    <2>1. \A i \in Jobs : Fresh(i)' <=> Fresh(i)
      <3>1. CASE \E j \in Jobs : TakeJob(j)
        BY <3>1 DEF TakeJob, Fresh, MailInv, MailTypeOK
      <3>2. CASE RenderMailTemplate \/ SendEmail
        BY <3>2 DEF RenderMailTemplate, SendEmail, Fresh
      <3>3. CASE FinishJob
        <4>1. working \in Jobs /\ (locked => job[working] # "none")
          BY <3>3 DEF FinishJob, MailInv, MailTypeOK, LockedJob
        <4> QED
          BY <3>3, <4>1 DEF FinishJob, Fresh, MailInv, MailTypeOK
      <3> QED
        BY <1>3, <3>1, <3>2, <3>3 DEF Work
    <2> QED
      BY <1>3, <2>1, TakenKeeps, RenderedKeeps, SentKeeps, FinishedKeeps
        DEF Work
  <1>4. CASE \E j \in Jobs : JobStalls(j)
    <2>1. \A i \in Jobs : Fresh(i)' <=> Fresh(i)
      BY <1>4 DEF JobStalls, Fresh, MailInv, MailTypeOK
    <2> QED
      BY <1>4, <2>1, StallKeeps
  <1> QED
    BY <1>1, <1>2, <1>3, <1>4 DEF MailNext

----------------------------------------------------------------------------
\* A cancel that was applied stays so.
LEMMA AppliedStays ==
  ASSUME IInv, [Next]_vars, NEW r \in Requests, Applied(r)
  PROVE  Applied(r)'
  <1> USE DEF Goto, db, req
  <1>1. TypeOK /\ RequestsOK /\ CancelsOK
    BY DEF IInv
  <1>2. pc[r] \in {"releasing", "mailing", "done", "failed"}
    BY <1>1 DEF RequestsOK, RequestOK, Applied, Finished
  <1>3. ASSUME NEW q \in Requests, Create(q)
        PROVE  Applied(r)'
    BY <1>1, <1>2, <1>3
       DEF TypeOK, RequestsOK, RequestOK, Applied, Create, BeginCreate,
           GetAvailableRooms, NoRoomsAvailable, RedlockAcquire,
           RedlockExhausted, CreateBooking, CreateIdempotencyKey, CreateAnswered
  <1>4. ASSUME NEW q \in Requests, Confirm(q)
        PROVE  Applied(r)'
    BY <1>1, <1>2, <1>4
       DEF TypeOK, Applied, Confirm, BeginConfirm, GetIdempotencyKeyWithLock,
           KeyAlreadyFinalized, ConfirmBooking, FinalizeIdempotencyKey
  <1>5. ASSUME NEW q \in Requests, Cancel(q)
        PROVE  Applied(r)'
    BY <1>1, <1>2, <1>5
       DEF TypeOK, RequestsOK, RequestOK, Applied, Cancel, BeginCancel,
           GetBookingById, CancelRejected, CancelBooking, AddEmailToQueue
  <1>6. ASSUME NEW q \in Requests,
               Serve(q) \/ CallLost(q) \/ Fail(q) \/ ConnectionError(q)
        PROVE  Applied(r)'
    BY <1>1, <1>2, <1>6
       DEF TypeOK, Applied, Serve, UpdateBookingIdToRooms,
           DeleteBookingIdFromRooms, CallLost, Fail, ConnectionError
  <1>7. ASSUME NEW h \in Hotels, RedlockExpires(h)
        PROVE  Applied(r)'
    BY <1>7 DEF RedlockExpires, Applied
  <1>8. CASE UNCHANGED vars
    BY <1>8 DEF vars, Applied
  <1> QED
    BY <1>3, <1>4, <1>5, <1>6, <1>7, <1>8 DEF Next

\* A request that is about to queue its mail has been applied.
LEMMA MailingIsApplied ==
  ASSUME IInv, NEW r \in Requests, pc[r] = "mailing"
  PROVE  Applied(r)
  <1>1. op[r] = "cancel" /\ wire[r] = "applied"
        /\ status[target[r]] \in {"CONFIRMED", "CANCELLED"}
    BY DEF IInv, CancelsOK
  <1>2. target[r] \in Bookings
    BY <1>1 DEF IInv, RequestsOK, RequestOK
  <1> QED
    BY <1>1, <1>2 DEF Applied

\* A step of both together, or of one beside the other, is a step of Booking.
LEMMA BookingStep ==
  ASSUME [BookingMailNext]_allVars
  PROVE  [Next]_vars
  <1>1. ASSUME NEW r \in Requests, Queued(r) \/ QueuedAndCrashed(r)
        PROVE  Next
    BY <1>1 DEF Queued, QueuedAndCrashed, Next, Cancel
  <1> QED
    BY <1>1 DEF BookingMailNext, allVars

\* The composition never does to the bookings what Booking alone would not:
\* whatever is proved of Booking's steps holds beside the worker.
THEOREM BookingGoesOn == BookingMailSpec => Spec
  <1>1. BookingMailInit => Init
    BY DEF BookingMailInit
  <1> QED
    BY <1>1, BookingStep, PTL DEF BookingMailSpec, Spec

\* What the jobs say of the requests, at the start.
LEMMA ComposedInitially == BookingMailInit => MailInv /\ JobsOfCancels
  <1>1. BookingMailInit => mailed = {} /\ Requests \subseteq Jobs
    BY BookingMailAssumption DEF BookingMailInit, Init
  <1> QED
    BY <1>1, MailInitially DEF BookingMailInit, JobsOfCancels

\* Every step keeps what the jobs say of the requests.
LEMMA ComposedStep ==
  ASSUME IInv, MailInv, JobsOfCancels, [BookingMailNext]_allVars
  PROVE  MailInv' /\ JobsOfCancels'
  <1> USE BookingMailAssumption
  <1>1. \A r \in Requests : Applied(r) => Applied(r)'
    BY AppliedStays, BookingStep
  <1>2. ASSUME NEW r \in Requests, Queued(r) \/ QueuedAndCrashed(r)
        PROVE  MailInv' /\ JobsOfCancels'
    <2>1. pc[r] = "mailing" /\ AddJob(r) /\ mailed' \subseteq mailed \cup {r}
      BY <1>2 DEF Queued, QueuedAndCrashed, AddEmailToQueue, Fail
    <2>2. Applied(r)
      BY <2>1, MailingIsApplied
    <2>3. \A q \in Jobs : Fresh(q)' <=> Fresh(q) /\ q # r
      BY <2>1 DEF AddJob, Fresh, MailInv, MailTypeOK
    <2>4. mailed \subseteq Requests
      BY DEF IInv, TypeOK
    <2> QED
      BY <1>1, <2>1, <2>2, <2>3, <2>4, AddedKeeps DEF JobsOfCancels
  <1>3. CASE Next /\ mailed' = mailed /\ UNCHANGED mail
    <2>1. UNCHANGED mail /\ mailed' = mailed
      BY <1>3
    <2>2. MailInv'
      BY <2>1 DEF mail, MailInv, MailTypeOK, LockedJob, JobOK, Runs
    <2>3. \A j \in Jobs : Fresh(j)' <=> Fresh(j)
      BY <2>1 DEF mail, Fresh
    <2> QED
      BY <1>1, <2>1, <2>2, <2>3 DEF JobsOfCancels, IInv, TypeOK
  <1>4. CASE MailNext /\ UNCHANGED vars
    <2>1. \A r \in Requests : Fresh(r)' <=> Fresh(r)
      BY <1>4, MailStep
    <2> QED
      BY <1>1, <1>4, <2>1, MailStep DEF JobsOfCancels, vars, IInv, TypeOK
  <1>5. CASE UNCHANGED allVars
    <2>1. MailInv'
      BY <1>5 DEF allVars, mail, MailInv, MailTypeOK, LockedJob, JobOK, Runs
    <2>2. mailed' = mailed /\ \A j \in Jobs : Fresh(j)' <=> Fresh(j)
      BY <1>5 DEF allVars, vars, mail, Fresh
    <2> QED
      BY <1>1, <2>1, <2>2 DEF JobsOfCancels, IInv, TypeOK
  <1> QED
    BY <1>2, <1>3, <1>4, <1>5 DEF BookingMailNext

\* The invariant holds in every behaviour.
THEOREM MailInductive == BookingMailSpec => [](IInv /\ MailInv /\ JobsOfCancels)
  <1>1. BookingMailSpec => []IInv
    BY BookingGoesOn, Inductive, PTL
  <1>2. IInv /\ MailInv /\ JobsOfCancels /\ [BookingMailNext]_allVars =>
          MailInv' /\ JobsOfCancels'
    BY ComposedStep
  <1> QED
    BY <1>1, <1>2, ComposedInitially, PTL DEF BookingMailSpec

\* The variables of both keep their types, and a mail that the service knows
\* it queued is a job.
THEOREM BookingMailTypes == BookingMailSpec => []BookingMailTypeOK
  <1>1. IInv /\ MailInv /\ JobsOfCancels => BookingMailTypeOK
    BY DEF IInv, MailInv, JobsOfCancels, BookingMailTypeOK
  <1> QED
    BY <1>1, MailInductive, PTL

\* No mail goes out of a cancel that has not given the rooms back: the worker
\* of the other service is never ahead of it.
THEOREM MailOnlyAfterCancel == BookingMailSpec => []MailAfterCancel
  <1>1. IInv /\ MailInv /\ JobsOfCancels => MailAfterCancel
    <2> SUFFICES ASSUME IInv, MailInv, JobsOfCancels,
                        NEW r \in Requests, sent[r] > 0
                 PROVE  /\ op[r] = "cancel" /\ wire[r] = "applied"
                        /\ status[target[r]] # "PENDING"
      BY DEF MailAfterCancel
    <2>1. JobOK(r) /\ sent[r] \in Nat
      BY BookingMailAssumption DEF MailInv, MailTypeOK
    <2>2. Runs(r) # 0
      BY <2>1 DEF Runs
    <2>3. Applied(r)
      BY <2>1, <2>2 DEF JobOK, JobsOfCancels, Fresh
    <2> QED
      BY <2>3 DEF Applied
  <1> QED
    BY <1>1, MailInductive, PTL

\* A mail is sent once, once more if its job stalled, and never a third time.
THEOREM SentOncePerStall == BookingMailSpec => []OncePerStall
  <1>1. MailInv => OncePerStall
    <2> SUFFICES ASSUME MailInv, NEW j \in Jobs
                 PROVE  sent[j] <= 1 + stalls[j] /\ sent[j] <= 2
      BY DEF OncePerStall
    <2>1. JobOK(j) /\ sent[j] \in Nat /\ stalls[j] \in 0 .. 2
      BY DEF MailInv, MailTypeOK
    <2> QED
      BY <2>1 DEF JobOK, Runs
  <1> QED
    BY <1>1, MailInductive, PTL

\* The queue and its worker do only their own steps and take jobs from the
\* producers: a booking in between changes nothing of theirs.
LEMMA MailGoesOn ==
  BookingMailSpec => MailInit /\ [][MailNext \/ \E j \in Jobs : AddJob(j)]_mail
  <1>1. [BookingMailNext]_allVars =>
          [MailNext \/ \E j \in Jobs : AddJob(j)]_mail
    BY BookingMailAssumption
      DEF BookingMailNext, Queued, QueuedAndCrashed, allVars
  <1> QED
    BY <1>1, PTL DEF BookingMailSpec, BookingMailInit

\* A job that is completed or failed is never taken, requeued or stalled again:
\* a run whose lock went to another does not bring its job back, though its
\* mail may still go out.
THEOREM SettledForGood ==
  BookingMailSpec =>
    [][\A j \in Jobs : job[j] \in Settled =>
         job'[j] = job[j] /\ stalls'[j] = stalls[j]]_mail
  <1>1. ASSUME MailInv, MailNext \/ \E i \in Jobs : AddJob(i),
               NEW j \in Jobs, job[j] \in Settled
        PROVE  job'[j] = job[j] /\ stalls'[j] = stalls[j]
    <2>1. /\ job[j] \notin {"none", "waiting", "active"}
          /\ job \in [Jobs -> Settled \cup {"none", "waiting", "active"}]
          /\ stalls \in [Jobs -> 0 .. 2]
          /\ working \in Jobs \cup {NoJob}
          /\ locked => working # NoJob /\ job[working] = "active"
      BY <1>1 DEF Settled, MailInv, MailTypeOK, LockedJob
    <2>2. CASE \E i \in Jobs : AddJob(i)
      BY <2>1, <2>2 DEF AddJob, Fresh
    <2>3. CASE \E i \in Jobs : TakeJob(i)
      BY <2>1, <2>3 DEF TakeJob
    <2>4. CASE RenderMailTemplate \/ SendEmail
      BY <2>4 DEF RenderMailTemplate, SendEmail
    <2>5. CASE FinishJob
      BY <2>1, <2>5 DEF FinishJob
    <2>6. CASE \E i \in Jobs : JobStalls(i)
      BY <2>1, <2>6 DEF JobStalls
    <2>7. CASE NotificationServiceStarts \/ Crash
      BY <2>7 DEF NotificationServiceStarts, Crash
    <2> QED
      BY <1>1, <2>2, <2>3, <2>4, <2>5, <2>6, <2>7, MailAssumption
        DEF MailNext, Work
  <1>2. MailInv /\ [MailNext \/ \E j \in Jobs : AddJob(j)]_mail =>
          [\A j \in Jobs : job[j] \in Settled =>
             job'[j] = job[j] /\ stalls'[j] = stalls[j]]_mail
    BY <1>1
  <1> QED
    BY <1>2, MailGoesOn, MailInductive, PTL

=============================================================================
