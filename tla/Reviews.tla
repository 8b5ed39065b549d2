------------------------------ MODULE Reviews ------------------------------
(***************************************************************************)
(* The reviews of the ReviewService and the number a hotel shows for them. *)
(* API requests are one-shot processes, a SQL statement or HTTP call a     *)
(* step; the batch runs beside them.  Locks, overlapping runs and crashes  *)
(* of the batch are RatingSync's; here one run at a time is followed, and  *)
(* its arithmetic, over reviews that are edited and deleted meanwhile.     *)
(*                                                                         *)
(* A rating is kept in hundredths of a star, the scale of DECIMAL(3,2).    *)
(***************************************************************************)
EXTENDS Integers, FiniteSets

CONSTANTS
  Requests,          \* API requests ever received
  Reviews,           \* review ids, in place of the auto-increment column
  Bookings, Users, Hotels,
  UserOf, HotelOf,   \* userId and hotelId of a row of the BookingService
  Payloads,          \* bodies of POST: [user, booking, hotel, stars]
  Edits,             \* stars in bodies of PUT
  MaxInterruptions,  \* bound: PATCHes without the commit after them
  NoReview, NoHotel, NoAsk

ASSUME ReviewsAssumption ==
  /\ UserOf \in [Bookings -> Users] /\ HotelOf \in [Bookings -> Hotels]
  /\ Payloads \subseteq
       [user : Users, booking : Bookings, hotel : Hotels, stars : Int]
  /\ Edits \subseteq Int
  /\ MaxInterruptions \in Nat
  /\ IsFiniteSet(Reviews) /\ NoHotel \notin Hotels
  /\ NoReview \notin [user : Users, booking : Bookings, hotel : Hotels,
                      stars : 1 .. 5, deleted : BOOLEAN, synced : BOOLEAN]

VARIABLES
  booking,     \* Booking.status, in the BookingService
  review,      \* the rows of reviews
  pc, ask,     \* where a request is, and what it asks for
  answer,      \* the reviews in its successful answer
  hotel,       \* rating and ratingCount, in the HotelService
  bpc,         \* where the batch is
  agg,         \* its aggregates: sum and count per hotel
  taken,       \* the rows they are made of
  todo, at,    \* hotels it has still to do, and the one it is at
  old,         \* rating and count it read of that hotel
  inSecond,    \* rows created after the aggregates in the cutoff's second
  gone,        \* history: reviews deleted before a request began
  stays,       \* history: creates whose booking was CONFIRMED at some moment
               \* from their beginning to the answer of the BookingService
  late,        \* history: reviews edited after they were aggregated
  lost,        \* history: reviews marked as synced without being aggregated
  sum, pushes, \* history: the stars a hotel's rating is made of, and PATCHes
  interrupted  \* history: PATCHes without the commit after them

requests == <<pc, ask, answer, gone, stays>>
batch == <<bpc, agg, taken, todo, at, old>>
ratings == <<hotel, sum, pushes, interrupted>>
vars == <<booking, review, requests, ratings, batch, inSecond, late, lost>>

----------------------------------------------------------------------------
Stars == 1 .. 5
Rows == [user : Users, booking : Bookings, hotel : Hotels, stars : Stars,
         deleted : BOOLEAN, synced : BOOLEAN]
Asks == [op : {"create"}, body : Payloads] \cup
        [op : {"update"}, id : Reviews, stars : Edits] \cup
        [op : {"get", "delete"}, id : Reviews] \cup
        [op : {"all"}] \cup [op : {"user"}, of : Users] \cup
        [op : {"hotel"}, of : Hotels] \cup [op : {"booking"}, of : Bookings]

Written == {r \in Reviews : review[r] # NoReview}
\* deleted_at IS NULL
Live == {r \in Written : ~ review[r].deleted}
OfHotel(h, R) == {r \in R : review[r].hotel = h}
WithStars(s, R) == {r \in R : review[r].stars = s}

\* SUM(rating)
Total(R) ==
  Cardinality(WithStars(1, R)) + 2 * Cardinality(WithStars(2, R)) +
  3 * Cardinality(WithStars(3, R)) + 4 * Cardinality(WithStars(4, R)) +
  5 * Cardinality(WithStars(5, R))

\* What DECIMAL(3,2) keeps of a / b: the nearest hundredth; of a tie, whose
\* double may lie on either side, one or the other
Nearest(a, b) ==
  {q \in 0 .. 999 : -b <= 2 * (b * q - a) /\ 2 * (b * q - a) <= b}

Goto(k, p) == pc' = [pc EXCEPT ![k] = p]

Init ==
  /\ booking = [b \in Bookings |-> "PENDING"]
  /\ review = [r \in Reviews |-> NoReview]
  /\ pc = [k \in Requests |-> "idle"]
  /\ ask = [k \in Requests |-> NoAsk]
  /\ answer = [k \in Requests |-> {}]
  /\ gone = [k \in Requests |-> {}]
  /\ hotel = [h \in Hotels |-> [rating |-> 0, count |-> 0]]
  /\ bpc = "idle"
  /\ agg = [h \in Hotels |-> [sum |-> 0, count |-> 0]]
  /\ taken = {} /\ todo = {} /\ at = NoHotel /\ inSecond = {}
  /\ old = [rating |-> 0, count |-> 0]
  /\ late = {} /\ lost = {} /\ stays = {}
  /\ sum = [h \in Hotels |-> 0]
  /\ pushes = [h \in Hotels |-> 0]
  /\ interrupted = [h \in Hotels |-> 0]

----------------------------------------------------------------------------
\* The creates that wait for what the BookingService knows of b
Asking(b) ==
  {k \in Requests : pc[k] = "checking" /\ ask[k].body.booking = b}

(* The BookingService: a late confirm may follow a cancel *)
BookingMoves(b) ==
  /\ \E s \in {"CONFIRMED", "CANCELLED"} :
       /\ booking[b] # s
       /\ booking' = [booking EXCEPT ![b] = s]
       /\ stays' = IF s = "CONFIRMED" THEN stays \cup Asking(b) ELSE stays
  /\ UNCHANGED <<review, pc, ask, answer, gone, ratings, batch, inSecond, late,
                 lost>>

----------------------------------------------------------------------------
(* The handlers.  A request is decoded and validated before it begins. *)

Begin(k, a, p) ==
  /\ pc[k] = "idle"
  /\ ask' = [ask EXCEPT ![k] = a]
  /\ gone' = [gone EXCEPT ![k] = Written \ Live]
  /\ stays' = IF a.op = "create" /\ booking[a.body.booking] = "CONFIRMED"
              THEN stays \cup {k} ELSE stays
  /\ Goto(k, p)
  /\ UNCHANGED <<booking, review, answer, ratings, batch, inSecond, late,
                 lost>>

CreateReview(k) ==
  \E p \in Payloads : p.stars \in Stars /\
    Begin(k, [op |-> "create", body |-> p], "checking")
UpdateReview(k) ==
  \E r \in Reviews, s \in Edits : s \in Stars /\
    Begin(k, [op |-> "update", id |-> r, stars |-> s], "updating")
DeleteReview(k) ==
  \E r \in Reviews : Begin(k, [op |-> "delete", id |-> r], "deleting")
GetReviewById(k) ==
  \E r \in Reviews : Begin(k, [op |-> "get", id |-> r], "getting")
GetReviews(k) ==
  \E a \in [op : {"all"}] \cup [op : {"user"}, of : Users] \cup
           [op : {"hotel"}, of : Hotels] \cup
           [op : {"booking"}, of : Bookings] : Begin(k, a, "listing")

\* An answer changes no table
Answer(k, p, R) ==
  /\ Goto(k, p)
  /\ answer' = [answer EXCEPT ![k] = R]
  /\ UNCHANGED <<booking, ask, gone, stays, ratings, batch>>

\* The calls that write only the reviews table
Quiet == UNCHANGED <<review, inSecond, late, lost>>

\* Fault: the status of the booking is not looked at
AnyStatus(k) ==
  LET p == ask[k].body
  IN  /\ pc[k] = "checking"
      /\ UserOf[p.booking] = p.user /\ HotelOf[p.booking] = p.hotel
      /\ Answer(k, "inserting", {}) /\ Quiet

\* The booking as its service knows it now; it is not looked at again
GetBooking(k) ==
  LET p == ask[k].body
  IN  /\ pc[k] = "checking"
      /\ UserOf[p.booking] = p.user /\ HotelOf[p.booking] = p.hotel
      /\ booking[p.booking] = "CONFIRMED"
      /\ Answer(k, "inserting", {}) /\ Quiet

Create(k) ==
  /\ pc[k] = "inserting"
  /\ \E r \in Reviews \ Written, atOnce \in BOOLEAN :
       /\ review' = [review EXCEPT ![r] =
            [user |-> ask[k].body.user, booking |-> ask[k].body.booking,
             hotel |-> ask[k].body.hotel, stars |-> ask[k].body.stars,
             deleted |-> FALSE, synced |-> FALSE]]
       /\ atOnce => bpc # "idle"
       /\ inSecond' = IF atOnce THEN inSecond \cup {r} ELSE inSecond
       /\ Answer(k, "done", {r})
  /\ UNCHANGED <<late, lost>>

\* Fault: the UPDATE has no deleted_at IS NULL
UpdateAny(k) ==
  LET r == ask[k].id
  IN  /\ pc[k] = "updating" /\ r \in Written
      /\ review' = [review EXCEPT ![r].stars = ask[k].stars]
      /\ late' = IF review[r].synced \/ r \in taken THEN late \cup {r}
                 ELSE late
      /\ Answer(k, "done", {r})
      /\ UNCHANGED <<inSecond, lost>>

\* Fault: an edit makes the review pending again
UpdateUnsyncs(k) ==
  LET r == ask[k].id
  IN  /\ pc[k] = "updating" /\ r \in Live
      /\ review' = [review EXCEPT ![r].stars = ask[k].stars,
                                  ![r].synced = FALSE]
      /\ late' = IF r \in taken THEN late \cup {r} ELSE late
      /\ Answer(k, "rereading", {})
      /\ UNCHANGED <<inSecond, lost>>

\* is_synced is left as it is; the answer is a second SELECT
Update(k) ==
  LET r == ask[k].id
  IN  /\ pc[k] = "updating" /\ r \in Live
      /\ review' = [review EXCEPT ![r].stars = ask[k].stars]
      /\ late' = IF review[r].synced \/ r \in taken THEN late \cup {r}
                 ELSE late
      /\ Answer(k, "rereading", {})
      /\ UNCHANGED <<inSecond, lost>>

\* No row, or one that has these values already: MySQL counts changed rows
UpdateFindsNothing(k) ==
  /\ pc[k] = "updating"
  /\ ask[k].id \in Live => review[ask[k].id].stars = ask[k].stars
  /\ Answer(k, "failed", {}) /\ Quiet

GetByID(k) ==
  /\ pc[k] \in {"getting", "rereading"} /\ ask[k].id \in Live
  /\ Answer(k, "done", {ask[k].id}) /\ Quiet

Delete(k) ==
  /\ pc[k] = "deleting" /\ ask[k].id \in Live
  /\ review' = [review EXCEPT ![ask[k].id].deleted = TRUE]
  /\ Answer(k, "done", {})
  /\ UNCHANGED <<inSecond, late, lost>>

List(k, op, R) ==
  /\ pc[k] = "listing" /\ ask[k].op = op
  /\ Answer(k, "done", R) /\ Quiet

GetAll(k) == List(k, "all", Live)
GetByUserId(k) == List(k, "user", {r \in Live : review[r].user = ask[k].of})
GetByHotelId(k) == List(k, "hotel", {r \in Live : review[r].hotel = ask[k].of})
GetByBookingId(k) ==
  List(k, "booking", {r \in Live : review[r].booking = ask[k].of})

\* The booking is another one's or not confirmed, the review is not there,
\* or the statement or call fails: 4xx or 500, and nothing is written
Refused(k) ==
  /\ pc[k] \notin {"idle", "done", "failed"}
  /\ Answer(k, "failed", {}) /\ Quiet

----------------------------------------------------------------------------
(* ProcessPendingRatings *)

Pending == {r \in Written : ~ review[r].synced}

AggregateOf(h, R) ==
  [sum |-> Total(OfHotel(h, R)), count |-> Cardinality(OfHotel(h, R))]

\* The cutoff is taken with it: a row written in between is either of the
\* same second, and as good as written before, or later, as good as after.
\* deleted_at is not looked at.
FetchUnappliedAggregates ==
  /\ bpc = "idle" /\ Pending # {}
  /\ bpc' = "looping"
  /\ taken' = Pending
  /\ agg' = [h \in Hotels |-> AggregateOf(h, Pending)]
  /\ todo' = {review[r].hotel : r \in Pending}
  /\ UNCHANGED <<booking, requests, ratings, at, old>> /\ Quiet

GetHotelRating(h) ==
  /\ bpc = "looping" /\ h \in todo
  /\ bpc' = "read"
  /\ at' = h
  /\ todo' = todo \ {h}
  /\ old' = hotel[h]
  /\ UNCHANGED <<booking, requests, ratings, agg, taken>> /\ Quiet

Push(h, newCount, rating) ==
  /\ hotel' = [hotel EXCEPT ![h] = [rating |-> rating, count |-> newCount]]
  /\ sum' = [sum EXCEPT ![h] = @ + agg[h].sum]
  /\ pushes' = [pushes EXCEPT ![h] = @ + 1]
  /\ bpc' = "patched"
  /\ UNCHANGED <<booking, requests, interrupted, agg, taken, todo, at, old>>
  /\ Quiet

\* Fault: the DECIMAL cuts the further digits off
TruncateRating ==
  LET newCount == old.count + agg[at].count
  IN  /\ bpc = "read"
      /\ Push(at, newCount,
              (old.rating * old.count + 100 * agg[at].sum) \div newCount)

\* newAvg = (oldAvg * oldCnt + sum) / newCount, as its column keeps it
UpdateHotelRating ==
  LET newCount == old.count + agg[at].count
  IN  /\ bpc = "read"
      /\ \E q \in Nearest(old.rating * old.count + 100 * agg[at].sum, newCount) :
           Push(at, newCount, q)

CloseTx ==
  /\ bpc' = "looping" /\ at' = NoHotel
  /\ UNCHANGED <<booking, requests, agg, taken, todo, old, inSecond, late>>

\* The predicate of the fetch again, and the commit
MarkReviewsAsSynced ==
  LET marked == OfHotel(at, Pending \cap (taken \cup inSecond))
  IN  /\ bpc = "patched"
      /\ review' = [r \in Reviews |-> IF r \in marked
                      THEN [review[r] EXCEPT !.synced = TRUE] ELSE review[r]]
      /\ lost' = lost \cup (marked \ taken)
      /\ CloseTx
      /\ UNCHANGED ratings

HotelFails ==
  /\ bpc \in {"read", "patched"}
  /\ \/ bpc = "read" /\ UNCHANGED interrupted
     \/ /\ bpc = "patched" /\ interrupted[at] < MaxInterruptions
        /\ interrupted' = [interrupted EXCEPT ![at] = @ + 1]
  /\ CloseTx
  /\ UNCHANGED <<review, lost, hotel, sum, pushes>>

BatchEnds ==
  /\ bpc = "looping" /\ todo = {}
  /\ bpc' = "idle" /\ taken' = {} /\ inSecond' = {}
  /\ UNCHANGED <<booking, requests, ratings, review, late, lost, agg, todo, at,
                 old>>

----------------------------------------------------------------------------
Handle(k) ==
  \/ CreateReview(k) \/ GetBooking(k) \/ Create(k)
  \/ UpdateReview(k) \/ Update(k) \/ UpdateFindsNothing(k)
  \/ DeleteReview(k) \/ Delete(k)
  \/ GetReviewById(k) \/ GetByID(k)
  \/ GetReviews(k) \/ GetAll(k) \/ GetByUserId(k) \/ GetByHotelId(k)
  \/ GetByBookingId(k)
  \/ Refused(k)

Batch ==
  \/ FetchUnappliedAggregates
  \/ \E h \in Hotels : GetHotelRating(h)
  \/ UpdateHotelRating
  \/ MarkReviewsAsSynced
  \/ HotelFails
  \/ BatchEnds

Next ==
  \/ \E b \in Bookings : BookingMoves(b)
  \/ \E k \in Requests : Handle(k)
  \/ Batch

Spec == Init /\ [][Next]_vars

----------------------------------------------------------------------------
Ratings == [rating : 0 .. 999, count : Nat]

TypeOK ==
  /\ booking \in [Bookings -> {"PENDING", "CONFIRMED", "CANCELLED"}]
  /\ review \in [Reviews -> Rows \cup {NoReview}]
  /\ pc \in [Requests -> {"idle", "checking", "inserting", "updating",
                          "rereading", "deleting", "getting", "listing",
                          "done", "failed"}]
  /\ ask \in [Requests -> Asks \cup {NoAsk}]
  /\ answer \in [Requests -> SUBSET Reviews]
  /\ gone \in [Requests -> SUBSET Reviews] /\ stays \subseteq Requests
  /\ hotel \in [Hotels -> Ratings] /\ old \in Ratings
  /\ bpc \in {"idle", "looping", "read", "patched"}
  /\ agg \in [Hotels -> [sum : Nat, count : Nat]]
  /\ taken \subseteq Written /\ inSecond \subseteq Written
  /\ todo \subseteq Hotels
  /\ at \in IF bpc \in {"read", "patched"} THEN Hotels ELSE {NoHotel}
  /\ late \subseteq Written /\ lost \subseteq Written
  /\ sum \in [Hotels -> Nat] /\ pushes \in [Hotels -> Nat]
  /\ interrupted \in [Hotels -> 0 .. MaxInterruptions]

\* The rating a hotel shows is rebuilt from its own rounded value, so errors
\* add up: by no more than half a hundredth for each PATCH that was made.
DriftBounded ==
  \A h \in Hotels :
    LET off == 2 * (100 * sum[h] - hotel[h].rating * hotel[h].count)
    IN  /\ off <= hotel[h].count * pushes[h]
        /\ -off <= hotel[h].count * pushes[h]

\* A hotel's count is the number of its synced reviews, deleted ones among
\* them, and its sum is their stars, unless a review was written in the second
\* of a cutoff or edited after it was aggregated, or a PATCH had no commit.
RatingShowsReviews ==
  \A h \in Hotels :
    LET R == OfHotel(h, {r \in Written : review[r].synced}) \ lost
    IN  interrupted[h] = 0 /\ ~ (bpc = "patched" /\ at = h) =>
          /\ hotel[h].count = Cardinality(R)
          /\ R \cap late = {} => sum[h] = Total(R)

\* A review is of its user's own booking at its hotel, and the booking was
\* CONFIRMED at some moment while it was asked for: a booking that was only
\* pending, or cancelled all that time, gets none.  It may be cancelled
\* before the INSERT, which does not look at it again.
ReviewsOfOwnStay ==
  \A r \in Written :
    /\ UserOf[review[r].booking] = review[r].user
    /\ HotelOf[review[r].booking] = review[r].hotel
    /\ \E k \in stays : pc[k] = "done" /\ r \in answer[k]

\* A request that begins after a delete does not find the review: no read
\* shows it and no edit of it succeeds, whatever runs beside it.
DeletedStaysHidden == \A k \in Requests : answer[k] \cap gone[k] = {}

\* However many deletes of a review run at once, one of them succeeds.
DeletedOnce ==
  \A k1, k2 \in Requests :
    /\ pc[k1] = "done" /\ pc[k2] = "done"
    /\ ask[k1].op = "delete" /\ ask[k2] = ask[k1]
    => k1 = k2

=============================================================================
