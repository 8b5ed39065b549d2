------------------------------ MODULE Booking ------------------------------
(***************************************************************************)
(* The BookingService's three writing operations (create, confirm and      *)
(* cancel) run as concurrent requests against its own MySQL tables, the    *)
(* redlock in Redis and the rooms table of the HotelService.               *)
(*                                                                         *)
(* A request is a one-shot process: every `await' of the code that reads   *)
(* or writes shared state is a step of its own.  A request may throw at    *)
(* any step (an error of the database, of Redis, of the HTTP call, or the  *)
(* crash of the process, which is all running requests throwing): nothing  *)
(* is compensated, the locks of an open SQL transaction go, the redlock    *)
(* stays until its TTL and an HTTP call already sent may still be served.  *)
(*                                                                         *)
(* An idempotency key is a fresh UUID with a unique bookingId, so it is    *)
(* identified with its booking: idemKey[b] is the state of b's key.        *)
(***************************************************************************)
EXTENDS Integers, FiniteSets

CONSTANTS
  Requests,          \* requests the service ever receives
  Bookings,          \* booking ids, in place of the auto-increment column
  Hotels,            \* hotel ids: the redlock resource is hotel:<hotelId>
  Rooms,             \* rows of the rooms table, one per category and date
  RoomCategory,      \* the category of a row
  RoomDate,          \* its date_of_availability, in ticks
  Day,               \* ticks in a day
  Stays,             \* the [category, checkIn, checkOut] clients ask for
  ExpiryMidRequest,  \* may the lock's TTL run out on a running request?
  NoRequest, NoBooking, NoInput

ASSUME BookingAssumption ==
  /\ NoRequest \notin Requests
  /\ NoBooking \notin Bookings
  /\ NoInput \notin [hotelId : Hotels, stay : Stays]
  /\ ExpiryMidRequest \in BOOLEAN
  /\ RoomDate \in [Rooms -> Int]
  /\ Day \in Nat \ {0}
  /\ \A s \in Stays : s.checkIn \in Int /\ s.checkOut \in Int

VARIABLES
  status,    \* Booking.status, "absent" before the row exists
  idemKey,   \* the booking's IdempotencyKey row: absent, open or finalized
  bookedBy,  \* Room.bookingId
  lock,      \* the request whose acquire set the redlock key of a hotel
  mailed,    \* cancel requests whose mail is in the mail queue
  op,        \* what a request does
  pc,        \* where it is
  input,     \* the body of a create request
  target,    \* the booking a request works on
  seen,      \* availableRooms of a create request
  wire,      \* its PUT or DELETE to the HotelService
  settled    \* history: cancels begun after the create was answered

db == <<status, idemKey>>
req == <<op, input, target, seen>>
vars == <<status, idemKey, bookedBy, lock, mailed, op, pc, input, target,
          seen, wire, settled>>

----------------------------------------------------------------------------
Inputs == [hotelId : Hotels, stay : Stays]

BookingStatus == {"PENDING", "CONFIRMED", "CANCELLED"}
Critical == {"inserting", "keying", "assigning"}
Running == Critical \cup {"reading", "locking", "confirming", "keyLocked",
                          "written", "cancelling", "releasing", "mailing"}
Finished == {"done", "failed"}

\* Math.ceil of the milliseconds between the two dates over those of a day
TotalNights(stay) == -((stay.checkIn - stay.checkOut) \div Day)

InStay(x, stay) ==
  /\ RoomCategory[x] = stay.category
  /\ stay.checkIn <= RoomDate[x]
  /\ RoomDate[x] <= stay.checkOut

\* bookingId null, category equal, date BETWEEN both dates inclusive
FindByRoomCategoryIdAndDateRange(stay) ==
  {x \in Rooms : bookedBy[x] = NoBooking /\ InStay(x, stay)}

IsCreateOf(r, b) == op[r] = "create" /\ target[r] = b

\* Only the answer of the create hands out the key
Answered(b) == \E r \in Requests : IsCreateOf(r, b) /\ pc[r] = "done"
\* Fault: a plain SELECT, which waits for no transaction
PlainSelect(b) == FALSE

\* Rows locked by an open confirm transaction: FOR UPDATE, then the UPDATE
KeyRowLocked(b) ==
  \E r \in Requests : target[r] = b /\ pc[r] \in {"keyLocked", "written"}
BookingRowLocked(b) ==
  \E r \in Requests : target[r] = b /\ pc[r] = "written"

Goto(r, p) == pc' = [pc EXCEPT ![r] = p]

Init ==
  /\ status = [b \in Bookings |-> "absent"]
  /\ idemKey = [b \in Bookings |-> "absent"]
  /\ bookedBy = [x \in Rooms |-> NoBooking]
  /\ lock = [h \in Hotels |-> NoRequest]
  /\ mailed = {}
  /\ op = [r \in Requests |-> "none"]
  /\ pc = [r \in Requests |-> "idle"]
  /\ input = [r \in Requests |-> NoInput]
  /\ target = [r \in Requests |-> NoBooking]
  /\ seen = [r \in Requests |-> {}]
  /\ wire = [r \in Requests |-> "none"]
  /\ settled = {}

----------------------------------------------------------------------------
(* createBookingService *)

BeginCreate(r, i) ==
  /\ pc[r] = "idle"
  /\ op' = [op EXCEPT ![r] = "create"]
  /\ input' = [input EXCEPT ![r] = i]
  /\ Goto(r, "reading")
  /\ UNCHANGED <<db, bookedBy, lock, mailed, target, seen, wire, settled>>

\* The read is before the lock and nothing of it is checked again
GetAvailableRooms(r) ==
  LET free == FindByRoomCategoryIdAndDateRange(input[r].stay)
  IN  /\ pc[r] = "reading"
      /\ free # {}
      /\ Cardinality(free) >= TotalNights(input[r].stay)
      /\ seen' = [seen EXCEPT ![r] = free]
      /\ Goto(r, "locking")
      /\ UNCHANGED <<db, bookedBy, lock, mailed, op, input, target, wire,
                     settled>>

NoRoomsAvailable(r) ==
  LET free == FindByRoomCategoryIdAndDateRange(input[r].stay)
  IN  /\ pc[r] = "reading"
      /\ free = {} \/ Cardinality(free) < TotalNights(input[r].stay)
      /\ Goto(r, "failed")
      /\ UNCHANGED <<db, bookedBy, lock, mailed, req, wire, settled>>
\* Fault: SET without NX
AcquireWithoutNX(r) ==
  /\ pc[r] = "locking"
  /\ lock' = [lock EXCEPT ![input[r].hotelId] = r]
  /\ Goto(r, "inserting")
  /\ UNCHANGED <<db, bookedBy, mailed, req, wire, settled>>

\* SET NX PX ttl; the lock object is dropped, so nobody ever releases it
RedlockAcquire(r) ==
  /\ pc[r] = "locking"
  /\ lock[input[r].hotelId] = NoRequest
  /\ lock' = [lock EXCEPT ![input[r].hotelId] = r]
  /\ Goto(r, "inserting")
  /\ UNCHANGED <<db, bookedBy, mailed, req, wire, settled>>

\* retryCount attempts have found the key taken
RedlockExhausted(r) ==
  /\ pc[r] = "locking"
  /\ lock[input[r].hotelId] # NoRequest
  /\ Goto(r, "failed")
  /\ UNCHANGED <<db, bookedBy, lock, mailed, req, wire, settled>>
\* Fault: a release at the end of the request and no TTL
ReleaseInsteadOfTTL(h) ==
  /\ lock[h] # NoRequest
  /\ pc[lock[h]] = "done"
  /\ lock' = [lock EXCEPT ![h] = NoRequest]
  /\ UNCHANGED <<db, bookedBy, mailed, req, pc, wire, settled>>

RedlockExpires(h) ==
  /\ lock[h] # NoRequest
  /\ ExpiryMidRequest \/ pc[lock[h]] \notin Critical
  /\ lock' = [lock EXCEPT ![h] = NoRequest]
  /\ UNCHANGED <<db, bookedBy, mailed, req, pc, wire, settled>>

CreateBooking(r) ==
  /\ pc[r] = "inserting"
  /\ \E b \in Bookings :
       /\ status[b] = "absent"
       /\ status' = [status EXCEPT ![b] = "PENDING"]
       /\ target' = [target EXCEPT ![r] = b]
  /\ Goto(r, "keying")
  /\ UNCHANGED <<idemKey, bookedBy, lock, mailed, op, input, seen, wire,
                 settled>>
\* Fault: rooms are assigned before the key is created
AssignBeforeKey(r) ==
  /\ pc[r] = "keying"
  /\ wire' = [wire EXCEPT ![r] = "sent"]
  /\ Goto(r, "assigning")
  /\ UNCHANGED <<db, bookedBy, lock, mailed, req, settled>>

\* The insert of the key; the PUT of updateBookingIdToRooms goes out next
CreateIdempotencyKey(r) ==
  /\ pc[r] = "keying"
  /\ idemKey' = [idemKey EXCEPT ![target[r]] = "open"]
  /\ wire' = [wire EXCEPT ![r] = "sent"]
  /\ Goto(r, "assigning")
  /\ UNCHANGED <<status, bookedBy, lock, mailed, req, settled>>
\* Fault: the PUT is not awaited
AnswerWithoutAwait(r) ==
  /\ pc[r] = "assigning"
  /\ Goto(r, "done")
  /\ UNCHANGED <<db, bookedBy, lock, mailed, req, wire, settled>>

CreateAnswered(r) ==
  /\ pc[r] = "assigning"
  /\ wire[r] = "applied"
  /\ Goto(r, "done")
  /\ UNCHANGED <<db, bookedBy, lock, mailed, req, wire, settled>>

----------------------------------------------------------------------------
(* The HotelService's side of the two calls that write rooms.  A call may  *)
(* be served after the request that sent it has failed.                    *)

\* UPDATE ... WHERE id IN roomIds, whatever bookingId the row carries
UpdateBookingIdToRooms(r) ==
  /\ op[r] = "create" /\ wire[r] = "sent"
  /\ bookedBy' = [x \in Rooms |-> IF x \in seen[r] THEN target[r]
                                  ELSE bookedBy[x]]
  /\ wire' = [wire EXCEPT ![r] = "applied"]
  /\ UNCHANGED <<db, lock, mailed, req, pc, settled>>
\* Fault: UPDATE without its WHERE
FreeEveryRoom(r) ==
  /\ op[r] = "cancel" /\ wire[r] = "sent"
  /\ bookedBy' = [x \in Rooms |-> NoBooking]
  /\ wire' = [wire EXCEPT ![r] = "applied"]
  /\ UNCHANGED <<db, lock, mailed, req, pc, settled>>

DeleteBookingIdFromRooms(r) ==
  /\ op[r] = "cancel" /\ wire[r] = "sent"
  /\ bookedBy' = [x \in Rooms |-> IF bookedBy[x] = target[r] THEN NoBooking
                                  ELSE bookedBy[x]]
  /\ wire' = [wire EXCEPT ![r] = "applied"]
  /\ UNCHANGED <<db, lock, mailed, req, pc, settled>>

CallLost(r) ==
  /\ wire[r] = "sent"
  /\ wire' = [wire EXCEPT ![r] = "lost"]
  /\ UNCHANGED <<db, bookedBy, lock, mailed, req, pc, settled>>

----------------------------------------------------------------------------
(* confirmBookingService: one SQL transaction *)

BeginConfirm(r, b) ==
  /\ pc[r] = "idle"
  /\ Answered(b)
  /\ op' = [op EXCEPT ![r] = "confirm"]
  /\ target' = [target EXCEPT ![r] = b]
  /\ Goto(r, "confirming")
  /\ UNCHANGED <<db, bookedBy, lock, mailed, input, seen, wire, settled>>
\* Fault: the finalized flag is not looked at
IgnoreFinalized(r) ==
  /\ pc[r] = "confirming"
  /\ ~ KeyRowLocked(target[r])
  /\ idemKey[target[r]] # "absent"
  /\ Goto(r, "keyLocked")
  /\ UNCHANGED <<db, bookedBy, lock, mailed, req, wire, settled>>

\* SELECT ... FOR UPDATE waits for the row, then reads its last commit
GetIdempotencyKeyWithLock(r) ==
  /\ pc[r] = "confirming"
  /\ ~ KeyRowLocked(target[r])
  /\ idemKey[target[r]] = "open"
  /\ Goto(r, "keyLocked")
  /\ UNCHANGED <<db, bookedBy, lock, mailed, req, wire, settled>>

KeyAlreadyFinalized(r) ==
  /\ pc[r] = "confirming"
  /\ ~ KeyRowLocked(target[r])
  /\ idemKey[target[r]] = "finalized"
  /\ Goto(r, "failed")
  /\ UNCHANGED <<db, bookedBy, lock, mailed, req, wire, settled>>

\* The UPDATE of the booking row, not visible before the commit
ConfirmBooking(r) ==
  /\ pc[r] = "keyLocked"
  /\ ~ BookingRowLocked(target[r])
  /\ Goto(r, "written")
  /\ UNCHANGED <<db, bookedBy, lock, mailed, req, wire, settled>>
\* Fault: the two updates are not one transaction, the second is lost
ConfirmWithoutFinalize(r) ==
  /\ pc[r] = "written"
  /\ status' = [status EXCEPT ![target[r]] = "CONFIRMED"]
  /\ Goto(r, "done")
  /\ UNCHANGED <<idemKey, bookedBy, lock, mailed, req, wire, settled>>

\* finalizeIdempotencyKey and the commit; the status is never looked at
FinalizeIdempotencyKey(r) ==
  /\ pc[r] = "written"
  /\ status' = [status EXCEPT ![target[r]] = "CONFIRMED"]
  /\ idemKey' = [idemKey EXCEPT ![target[r]] = "finalized"]
  /\ Goto(r, "done")
  /\ UNCHANGED <<bookedBy, lock, mailed, req, wire, settled>>

----------------------------------------------------------------------------
(* cancelBookingService *)

BeginCancel(r, b) ==
  /\ pc[r] = "idle"
  /\ op' = [op EXCEPT ![r] = "cancel"]
  /\ target' = [target EXCEPT ![r] = b]
  /\ settled' = IF Answered(b) THEN settled \cup {r} ELSE settled
  /\ Goto(r, "cancelling")
  /\ UNCHANGED <<db, bookedBy, lock, mailed, input, seen, wire>>

\* The status check, and the DELETE of releaseRoomsForBooking goes out
GetBookingById(r) ==
  /\ pc[r] = "cancelling"
  /\ status[target[r]] \in {"PENDING", "CONFIRMED"}
  /\ wire' = [wire EXCEPT ![r] = "sent"]
  /\ Goto(r, "releasing")
  /\ UNCHANGED <<db, bookedBy, lock, mailed, req, settled>>

CancelRejected(r) ==
  /\ pc[r] = "cancelling"
  /\ status[target[r]] \in {"absent", "CANCELLED"}
  /\ Goto(r, "failed")
  /\ UNCHANGED <<db, bookedBy, lock, mailed, req, wire, settled>>
\* Fault: the DELETE is not awaited
CancelWithoutAwait(r) ==
  /\ pc[r] = "releasing"
  /\ ~ BookingRowLocked(target[r])
  /\ status' = [status EXCEPT ![target[r]] = "CANCELLED"]
  /\ \E hasEmail \in BOOLEAN : Goto(r, IF hasEmail THEN "mailing" ELSE "done")
  /\ UNCHANGED <<idemKey, bookedBy, lock, mailed, req, wire, settled>>

\* Fault: the status is written in another spelling than the enum's
CancelMisspelt(r) ==
  /\ pc[r] = "releasing"
  /\ wire[r] = "applied"
  /\ status' = [status EXCEPT ![target[r]] = "CANCELED"]
  /\ \E hasEmail \in BOOLEAN : Goto(r, IF hasEmail THEN "mailing" ELSE "done")
  /\ UNCHANGED <<idemKey, bookedBy, lock, mailed, req, wire, settled>>

\* The mail goes out only if the request carries the x-user-email header
CancelBooking(r) ==
  /\ pc[r] = "releasing"
  /\ wire[r] = "applied"
  /\ ~ BookingRowLocked(target[r])
  /\ status' = [status EXCEPT ![target[r]] = "CANCELLED"]
  /\ \E hasEmail \in BOOLEAN : Goto(r, IF hasEmail THEN "mailing" ELSE "done")
  /\ UNCHANGED <<idemKey, bookedBy, lock, mailed, req, wire, settled>>

AddEmailToQueue(r) ==
  /\ pc[r] = "mailing"
  /\ mailed' = mailed \cup {r}
  /\ Goto(r, "done")
  /\ UNCHANGED <<db, bookedBy, lock, req, wire, settled>>

----------------------------------------------------------------------------
(* An exception, or the crash of the process *)

Fail(r) ==
  /\ pc[r] \in Running
  /\ Goto(r, "failed")
  /\ UNCHANGED <<db, bookedBy, lock, mailed, req, wire, settled>>
\* Fault: nobody notices that the connection of a DELETE broke
DeleteHangs(r) ==
  /\ pc[r] = "assigning"
  /\ wire[r] = "lost"
  /\ Goto(r, "failed")
  /\ UNCHANGED <<db, bookedBy, lock, mailed, req, wire, settled>>

\* The client sees the connection of a lost call break
ConnectionError(r) ==
  /\ pc[r] \in {"assigning", "releasing"}
  /\ wire[r] = "lost"
  /\ Goto(r, "failed")
  /\ UNCHANGED <<db, bookedBy, lock, mailed, req, wire, settled>>

----------------------------------------------------------------------------
Create(r) ==
  \/ \E i \in Inputs : BeginCreate(r, i)
  \/ GetAvailableRooms(r) \/ NoRoomsAvailable(r)
  \/ RedlockAcquire(r) \/ RedlockExhausted(r)
  \/ CreateBooking(r)
  \/ CreateIdempotencyKey(r)
  \/ CreateAnswered(r)

Confirm(r) ==
  \/ \E b \in Bookings : BeginConfirm(r, b)
  \/ GetIdempotencyKeyWithLock(r) \/ KeyAlreadyFinalized(r)
  \/ ConfirmBooking(r)
  \/ FinalizeIdempotencyKey(r)

Cancel(r) ==
  \/ \E b \in Bookings : BeginCancel(r, b)
  \/ GetBookingById(r) \/ CancelRejected(r)
  \/ CancelBooking(r)
  \/ AddEmailToQueue(r)

Serve(r) == UpdateBookingIdToRooms(r) \/ DeleteBookingIdFromRooms(r)

Next ==
  \/ \E r \in Requests : Create(r) \/ Confirm(r) \/ Cancel(r)
  \/ \E r \in Requests : Serve(r) \/ CallLost(r)
  \/ \E r \in Requests : Fail(r) \/ ConnectionError(r)
  \/ \E h \in Hotels : RedlockExpires(h)

Spec == Init /\ [][Next]_vars

(***************************************************************************)
(* Fairness.  Node runs the continuation of every settled await, so a      *)
(* begun request takes its next step; a call is served or its connection   *)
(* breaks; Redis expires keys.  No client has to send anything.            *)
(***************************************************************************)
Proceed(r) ==
  \/ GetAvailableRooms(r) \/ NoRoomsAvailable(r)
  \/ RedlockAcquire(r) \/ RedlockExhausted(r)
  \/ CreateBooking(r) \/ CreateIdempotencyKey(r) \/ CreateAnswered(r)
  \/ GetIdempotencyKeyWithLock(r) \/ KeyAlreadyFinalized(r)
  \/ ConfirmBooking(r) \/ FinalizeIdempotencyKey(r)
  \/ GetBookingById(r) \/ CancelRejected(r)
  \/ CancelBooking(r) \/ AddEmailToQueue(r)
  \/ ConnectionError(r)

Fairness ==
  /\ \A r \in Requests : WF_vars(Proceed(r))
  /\ \A r \in Requests : WF_vars(Serve(r) \/ CallLost(r))
  /\ \A h \in Hotels : WF_vars(RedlockExpires(h))

FairSpec == Spec /\ Fairness

----------------------------------------------------------------------------
(* Safety *)

TypeOK ==
  /\ status \in [Bookings -> BookingStatus \cup {"absent"}]
  /\ idemKey \in [Bookings -> {"absent", "open", "finalized"}]
  /\ bookedBy \in [Rooms -> Bookings \cup {NoBooking}]
  /\ lock \in [Hotels -> Requests \cup {NoRequest}]
  /\ mailed \subseteq Requests
  /\ op \in [Requests -> {"none", "create", "confirm", "cancel"}]
  /\ pc \in [Requests -> Running \cup Finished \cup {"idle"}]
  /\ input \in [Requests -> Inputs \cup {NoInput}]
  /\ target \in [Requests -> Bookings \cup {NoBooking}]
  /\ seen \in [Requests -> SUBSET Rooms]
  /\ wire \in [Requests -> {"none", "sent", "applied", "lost"}]
  /\ settled \subseteq Requests

\* A room that carries a booking id was free when that booking's create read
\* it, lies in the stay it asked for, and the booking has its key by then:
\* HotelService never refers to a booking nobody could confirm.
RoomsBelong ==
  \A x \in Rooms : bookedBy[x] # NoBooking =>
    /\ idemKey[bookedBy[x]] # "absent"
    /\ \E r \in Requests : /\ IsCreateOf(r, bookedBy[x])
                           /\ x \in seen[r]
                           /\ InStay(x, input[r].stay)

\* The status and the finalized flag change together or not at all: a PENDING
\* booking still has its key to spend, a CONFIRMED one has spent it.
KeyMatchesStatus ==
  \A b \in Bookings :
    /\ status[b] = "absent" => idemKey[b] = "absent"
    /\ status[b] = "PENDING" => idemKey[b] # "finalized"
    /\ status[b] = "CONFIRMED" => idemKey[b] = "finalized"

\* However many confirms of one key run at once, one of them commits.
ConfirmOnce ==
  \A r1, r2 \in Requests :
    /\ op[r1] = "confirm" /\ pc[r1] = "done"
    /\ op[r2] = "confirm" /\ pc[r2] = "done"
    /\ target[r1] = target[r2]
    => r1 = r2

\* Once the DELETE of a cancel that began after the create was answered has
\* been served, no room carries the booking again: no late PUT undoes it.
CancelFreesRooms ==
  \A r \in settled : wire[r] = "applied" =>
    \A x \in Rooms : bookedBy[x] # target[r]

\* A cancellation mail is queued only for a booking that has left PENDING,
\* whose rooms are free if the client knew the booking to exist.
MailTellsTheTruth ==
  \A r \in mailed :
    /\ status[target[r]] \in {"CONFIRMED", "CANCELLED"}
    /\ r \in settled => \A x \in Rooms : bookedBy[x] # target[r]

\* A room assigned to a booking is lost only to a cancel of that booking or
\* to another create that had read the same row as free.
HoldSurvives ==
  \A r \in Requests : op[r] = "create" /\ wire[r] = "applied" =>
    \A x \in seen[r] :
      \/ bookedBy[x] = target[r]
      \/ \E c \in Requests : /\ op[c] = "cancel" /\ target[c] = target[r]
                             /\ wire[c] = "applied"
      \/ \E o \in Requests \ {r} : /\ op[o] = "create" /\ x \in seen[o]
                                   /\ wire[o] = "applied"

\* While no TTL runs out on a running request, two creates for one hotel are
\* never between the acquire and the answer at once.
HotelExclusive ==
  ExpiryMidRequest \/
  \A r1, r2 \in Requests :
    /\ pc[r1] \in Critical /\ pc[r2] \in Critical
    /\ input[r1].hotelId = input[r2].hotelId
    => r1 = r2

\* A booking cancelled after its confirmation never comes back, although
\* confirmBooking writes CONFIRMED over any status.
CancelledForGood ==
  [][\A b \in Bookings :
       idemKey[b] = "finalized" /\ status[b] = "CANCELLED"
       => status'[b] = "CANCELLED"]_vars

(* Liveness, under FairSpec *)

\* Every request that is begun is answered, with a result or an error: no
\* request waits for ever on the redlock, a row lock or a call.
RequestsFinish ==
  \A r \in Requests : pc[r] # "idle" ~> pc[r] \in Finished

\* A hotel's lock does not stay with a request for ever, even if it crashed.
LockComesFree ==
  \A h \in Hotels : \A r \in Requests : lock[h] = r ~> lock[h] # r

(* Refinement: the bookings table behaves as atomic operations would *)

AbstractPhase ==
  [b \in Bookings |-> CASE status[b] = "absent" -> "none"
                        [] status[b] = "PENDING" -> "held"
                        [] status[b] = "CONFIRMED" -> "booked"
                        [] OTHER -> "void"]
SpentKeys == {b \in Bookings : idemKey[b] = "finalized"}

Lifecycle == INSTANCE BookingLifecycle
               WITH phase <- AbstractPhase, spent <- SpentKeys

\* Create, confirm and cancel, with all their steps, look like the atomic
\* operations of BookingLifecycle.
ImplementsLifecycle == Lifecycle!Spec

=============================================================================
