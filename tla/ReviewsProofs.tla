--------------------------- MODULE ReviewsProofs ---------------------------
(***************************************************************************)
(* What the ReviewService promises holds for every number of requests,     *)
(* reviews, bookings and hotels, whatever the stars.                       *)
(*                                                                         *)
(* Fits says what a request on its way may ask for, Vetted that whoever    *)
(* finds the booking confirmed, or has found it so, is among the stays,    *)
(* Hidden that what was gone when a request began stays gone, and Steady   *)
(* that the rating the batch has read is still the hotel's: none of the    *)
(* properties is inductive without it.                                     *)
(***************************************************************************)
EXTENDS Reviews, FiniteSetTheorems, TLAPS

Fits ==
  \A k \in Requests :
    /\ pc[k] # "idle" => ask[k] \in Asks
    /\ pc[k] \in {"checking", "inserting"} =>
         ask[k].op = "create" /\ ask[k].body.stars \in Stars
    /\ pc[k] \in {"updating", "rereading"} =>
         ask[k].op = "update" /\ ask[k].stars \in Stars
    /\ pc[k] = "getting" => ask[k].op = "get"
    /\ pc[k] = "deleting" => ask[k].op = "delete"

Vetted ==
  \A k \in Requests :
    LET p == ask[k].body
    IN  /\ pc[k] = "checking" /\ booking[p.booking] = "CONFIRMED" => k \in stays
        /\ pc[k] = "inserting" =>
             /\ UserOf[p.booking] = p.user /\ HotelOf[p.booking] = p.hotel
             /\ k \in stays

Hidden ==
  \A k \in Requests :
    /\ gone[k] \subseteq Written \ Live
    /\ pc[k] = "idle" => answer[k] = {}
    /\ pc[k] = "done" /\ ask[k].op = "delete" => ask[k].id \in Written \ Live

Steady == bpc = "read" => old = hotel[at]

RevInv ==
  /\ TypeOK /\ Fits
  /\ ReviewsOfOwnStay /\ Vetted
  /\ DeletedStaysHidden /\ Hidden /\ DeletedOnce
  /\ Steady /\ DriftBounded

----------------------------------------------------------------------------
\* SUM and COUNT of any reviews are natural numbers.
LEMMA TotalsAreNatural ==
  ASSUME NEW R \in SUBSET Reviews
  PROVE  Total(R) \in Nat /\ Cardinality(R) \in Nat
  <1>1. ASSUME NEW S \in SUBSET Reviews PROVE Cardinality(S) \in Nat
    BY ReviewsAssumption, FS_Subset, FS_CardinalityType
  <1>2. \A s \in Stars : WithStars(s, R) \in SUBSET Reviews
    BY DEF WithStars
  <1>3. \A s \in Stars : Cardinality(WithStars(s, R)) \in Nat
    BY <1>1, <1>2
  <1> QED
    BY <1>1, <1>3 DEF Total, Stars

\* What DriftBounded says of a hotel
WithinDrift(s, rating, count, p) ==
  LET off == 2 * (100 * s - rating * count)
  IN  off <= count * p /\ -off <= count * p

\* A rating built from a rounded one is off by what that one was, and by half
\* a hundredth more.
LEMMA HalfAHundredth ==
  ASSUME NEW s \in Nat, NEW g \in Nat, NEW c \in Nat, NEW p \in Nat,
         NEW ds \in Nat, NEW dc \in Nat,
         NEW n, n = c + dc, NEW t, t = g * c + 100 * ds,
         NEW q \in Nearest(t, n), WithinDrift(s, g, c, p)
  PROVE  WithinDrift(s + ds, q, n, p + 1)
  <1> USE DEF WithinDrift
  <1> DEFINE a == g * c
             y == q * n
             z == c * p
  <1>1. q \in Nat /\ n \in Nat /\ a \in Nat /\ y \in Nat /\ z \in Nat
    BY DEF Nearest
  <1>2. n * q = y
    BY <1>1
  <1>3. -n <= 2 * (y - (a + 100 * ds)) /\ 2 * (y - (a + 100 * ds)) <= n
    BY <1>2 DEF Nearest
  <1>4. n * (p + 1) = z + dc * p + n /\ dc * p \in Nat
    OBVIOUS
  <1>5. 2 * (100 * s - a) <= z /\ -(2 * (100 * s - a)) <= z
    OBVIOUS
  <1> HIDE DEF a, y, z
  <1>6. /\ 2 * (100 * (s + ds) - y) <= n * (p + 1)
        /\ -(2 * (100 * (s + ds) - y)) <= n * (p + 1)
    BY <1>1, <1>3, <1>4, <1>5
  <1> QED
    BY <1>6 DEF y

\* A row of the table is none of a review that is not there.
LEMMA RowsAreRows == NoReview \notin Rows
  BY ReviewsAssumption DEF Rows, Stars

\* The invariant holds before the first request.
LEMMA RevInitially == Init => RevInv
  <1> SUFFICES ASSUME Init PROVE RevInv
    OBVIOUS
  <1>1. Written = {}
    BY DEF Init, Written
  <1>2. TypeOK
    BY <1>1, ReviewsAssumption DEF Init, TypeOK, Ratings
  <1>3. Fits /\ ReviewsOfOwnStay /\ Vetted
    BY <1>1 DEF Init, Fits, ReviewsOfOwnStay, Vetted
  <1>4. DeletedStaysHidden /\ Hidden /\ DeletedOnce
    BY <1>1 DEF Init, DeletedStaysHidden, Hidden, DeletedOnce
  <1>5. DriftBounded
    BY DEF Init, DriftBounded
  <1>6. Steady
    BY DEF Init, Steady
  <1> QED
    BY <1>2, <1>3, <1>4, <1>5, <1>6 DEF RevInv

----------------------------------------------------------------------------
(* Requests *)

\* A request begins.
LEMMA BeginKeeps ==
  ASSUME RevInv, NEW k \in Requests, NEW a \in Asks, NEW p,
         \/ p = "checking" /\ a.op = "create" /\ a.body.stars \in Stars
         \/ p = "updating" /\ a.op = "update" /\ a.stars \in Stars
         \/ p = "deleting" /\ a.op = "delete"
         \/ p = "getting" /\ a.op = "get"
         \/ p = "listing",
         Begin(k, a, p)
  PROVE  RevInv'
  <1>a. /\ pc[k] = "idle"
        /\ ask' = [ask EXCEPT ![k] = a]
        /\ gone' = [gone EXCEPT ![k] = Written \ Live]
        /\ pc' = [pc EXCEPT ![k] = p]
        /\ stays' = IF a.op = "create" /\ booking[a.body.booking] = "CONFIRMED"
                    THEN stays \cup {k} ELSE stays
        /\ UNCHANGED <<booking, review, answer, ratings, batch, inSecond, late,
                       lost>>
    BY DEF Begin, Goto
  <1>w. Written' = Written /\ Live' = Live
    BY <1>a DEF Written, Live
  <1>1. TypeOK'
    BY <1>a, <1>w DEF RevInv, TypeOK, ratings, batch, Written
  <1>2. Fits'
    BY <1>a DEF RevInv, TypeOK, Fits
  <1>3. ReviewsOfOwnStay' /\ Vetted'
    BY <1>a, <1>w DEF RevInv, TypeOK, ReviewsOfOwnStay, Vetted
  <1>4. Hidden' /\ DeletedStaysHidden'
    BY <1>a, <1>w DEF RevInv, TypeOK, Hidden, DeletedStaysHidden
  <1>5. DeletedOnce'
    BY <1>a DEF RevInv, TypeOK, DeletedOnce
  <1>6. Steady' /\ DriftBounded'
    BY <1>a DEF RevInv, Steady, DriftBounded, ratings, batch
  <1> QED
    BY <1>1, <1>2, <1>3, <1>4, <1>5, <1>6 DEF RevInv

\* A call that writes nothing: it goes on, or answers with reviews that are
\* there.
LEMMA AnswerKeeps ==
  ASSUME RevInv, NEW k \in Requests, NEW p, NEW R \in SUBSET Live,
         pc[k] \notin {"idle", "done", "failed"},
         \/ /\ p = "inserting" /\ pc[k] = "checking"
            /\ UserOf[ask[k].body.booking] = ask[k].body.user
            /\ HotelOf[ask[k].body.booking] = ask[k].body.hotel
            /\ booking[ask[k].body.booking] = "CONFIRMED"
         \/ p = "done" /\ ask[k].op # "delete"
         \/ p = "failed",
         Answer(k, p, R), Quiet
  PROVE  RevInv'
  <1>a. /\ pc' = [pc EXCEPT ![k] = p]
        /\ answer' = [answer EXCEPT ![k] = R]
        /\ UNCHANGED <<booking, ask, gone, stays, ratings, batch>>
        /\ UNCHANGED <<review, inSecond, late, lost>>
    BY DEF Answer, Goto, Quiet
  <1>w. Written' = Written /\ Live' = Live /\ R \subseteq Reviews
    BY <1>a DEF Written, Live
  <1>1. TypeOK'
    BY <1>a, <1>w DEF RevInv, TypeOK, ratings, batch
  <1>2. Fits'
    BY <1>a DEF RevInv, TypeOK, Fits
  <1>3. ReviewsOfOwnStay' /\ Vetted'
    BY <1>a, <1>w DEF RevInv, TypeOK, ReviewsOfOwnStay, Vetted
  <1>4. Hidden' /\ DeletedStaysHidden'
    BY <1>a, <1>w DEF RevInv, TypeOK, Hidden, DeletedStaysHidden
  <1>5. DeletedOnce'
    BY <1>a DEF RevInv, TypeOK, DeletedOnce
  <1>6. Steady' /\ DriftBounded'
    BY <1>a DEF RevInv, Steady, DriftBounded, ratings, batch
  <1> QED
    BY <1>1, <1>2, <1>3, <1>4, <1>5, <1>6 DEF RevInv

\* The INSERT of a review that was checked.
LEMMA CreateKeeps ==
  ASSUME RevInv, NEW k \in Requests, Create(k)
  PROVE  RevInv'
  <1> DEFINE p == ask[k].body
             row == [user |-> p.user, booking |-> p.booking, hotel |-> p.hotel,
                     stars |-> p.stars, deleted |-> FALSE, synced |-> FALSE]
  <1>0. PICK r \in Reviews \ Written, atOnce \in BOOLEAN :
          /\ review' = [review EXCEPT ![r] = row]
          /\ inSecond' = IF atOnce THEN inSecond \cup {r} ELSE inSecond
          /\ Answer(k, "done", {r})
    BY DEF Create
  <1>a. /\ pc[k] = "inserting" /\ late' = late /\ lost' = lost
        /\ pc' = [pc EXCEPT ![k] = "done"]
        /\ answer' = [answer EXCEPT ![k] = {r}]
        /\ UNCHANGED <<booking, ask, gone, stays, ratings, batch>>
    BY <1>0 DEF Create, Answer, Goto
  <1>b. /\ ask[k] \in Asks /\ ask[k].op = "create"
        /\ p \in Payloads /\ p.stars \in Stars
    <2>1. /\ ask[k] \in Asks /\ ask[k].op = "create" /\ p.stars \in Stars
      BY <1>a DEF RevInv, Fits
    <2>2. \A a \in Asks : a.op = "create" => a \in [op : {"create"}, body : Payloads]
      BY DEF Asks
    <2>3. ask[k] \in [op : {"create"}, body : Payloads]
      BY <2>1, <2>2
    <2> QED
      BY <2>1, <2>3
  <1>c. row \in Rows /\ row # NoReview
    <2>1. p \in [user : Users, booking : Bookings, hotel : Hotels, stars : Int]
      BY <1>b, ReviewsAssumption
    <2>2. /\ p.user \in Users /\ p.booking \in Bookings /\ p.hotel \in Hotels
          /\ p.stars \in Stars
      BY <2>1, <1>b
    <2>3. row \in Rows
      BY <2>2 DEF Rows
    <2> QED
      BY <2>3, RowsAreRows
  <1>w. Written' = Written \cup {r} /\ (Written \ Live)' = Written \ Live
    BY <1>0, <1>c DEF RevInv, TypeOK, Written, Live
  <1>1. TypeOK'
    <2>1. review' \in [Reviews -> Rows \cup {NoReview}]
      BY <1>0, <1>c DEF RevInv, TypeOK
    <2> QED
      BY <2>1, <1>0, <1>a, <1>w DEF RevInv, TypeOK, ratings, batch
  <1>2. Fits'
    BY <1>a DEF RevInv, TypeOK, Fits
  <1>3. ReviewsOfOwnStay'
    <2>1. /\ UserOf[p.booking] = p.user /\ HotelOf[p.booking] = p.hotel
          /\ k \in stays
      BY <1>a DEF RevInv, Vetted
    <2>2. k \in stays' /\ pc'[k] = "done" /\ r \in answer'[k]
      BY <2>1, <1>a DEF RevInv, TypeOK
    <2>3. review'[r] = row /\ \A q \in Written : review'[q] = review[q]
      BY <1>0 DEF RevInv, TypeOK, Written
    <2>4. \A i \in Requests \ {k} : pc'[i] = pc[i] /\ answer'[i] = answer[i]
      BY <1>a DEF RevInv, TypeOK
    <2>5. \A q \in Written : \E i \in stays' : pc'[i] = "done" /\ q \in answer'[i]
      BY <2>4, <1>a DEF RevInv, TypeOK, ReviewsOfOwnStay
    <2> QED
      BY <2>1, <2>2, <2>3, <2>5, <1>w DEF RevInv, ReviewsOfOwnStay
  <1>4. Vetted'
    BY <1>a DEF RevInv, TypeOK, Vetted
  <1>5. Hidden'
    BY <1>a, <1>b, <1>w DEF RevInv, TypeOK, Hidden
  <1>6. DeletedStaysHidden'
    BY <1>0, <1>a DEF RevInv, TypeOK, DeletedStaysHidden, Hidden
  <1>7. DeletedOnce'
    BY <1>a, <1>b DEF RevInv, TypeOK, DeletedOnce
  <1>8. Steady' /\ DriftBounded'
    BY <1>a DEF RevInv, Steady, DriftBounded, ratings, batch
  <1> QED
    BY <1>1, <1>2, <1>3, <1>4, <1>5, <1>6, <1>7, <1>8 DEF RevInv

\* The UPDATE of the stars.
LEMMA UpdateKeeps ==
  ASSUME RevInv, NEW k \in Requests, Update(k)
  PROVE  RevInv'
  <1> DEFINE r == ask[k].id
             row == [review[r] EXCEPT !.stars = ask[k].stars]
  <1>a. /\ pc[k] = "updating" /\ r \in Live
        /\ review' = [review EXCEPT ![r] = row]
        /\ late' = IF review[r].synced \/ r \in taken THEN late \cup {r}
                   ELSE late
        /\ lost' = lost /\ inSecond' = inSecond
        /\ pc' = [pc EXCEPT ![k] = "rereading"]
        /\ answer' = [answer EXCEPT ![k] = {}]
        /\ UNCHANGED <<booking, ask, gone, stays, ratings, batch>>
    BY DEF Update, Answer, Goto
  <1>b. ask[k].op = "update" /\ ask[k].stars \in Stars
    BY <1>a DEF RevInv, Fits
  <1>c. /\ review[r] \in Rows /\ row \in Rows /\ row # NoReview
        /\ row.user = review[r].user /\ row.booking = review[r].booking
        /\ row.hotel = review[r].hotel /\ row.deleted = review[r].deleted
    <2>1. review[r] \in Rows /\ r \in Reviews
      BY <1>a DEF RevInv, TypeOK, Live, Written
    <2> QED
      BY <2>1, <1>b, RowsAreRows DEF Rows
  <1>w. Written' = Written /\ Live' = Live
    BY <1>a, <1>c DEF RevInv, TypeOK, Written, Live
  <1>1. TypeOK'
    <2>1. review' \in [Reviews -> Rows \cup {NoReview}]
      BY <1>a, <1>c DEF RevInv, TypeOK
    <2>2. late' \subseteq Written'
      BY <1>a, <1>w DEF RevInv, TypeOK, Live
    <2> QED
      BY <2>1, <2>2, <1>a, <1>w DEF RevInv, TypeOK, ratings, batch
  <1>2. Fits'
    BY <1>a DEF RevInv, TypeOK, Fits
  <1>3. ReviewsOfOwnStay' /\ Vetted'
    BY <1>a, <1>c, <1>w
    DEF RevInv, TypeOK, ReviewsOfOwnStay, Vetted, Written
  <1>4. Hidden' /\ DeletedStaysHidden'
    BY <1>a, <1>w DEF RevInv, TypeOK, Hidden, DeletedStaysHidden
  <1>5. DeletedOnce'
    BY <1>a DEF RevInv, TypeOK, DeletedOnce
  <1>6. Steady' /\ DriftBounded'
    BY <1>a DEF RevInv, Steady, DriftBounded, ratings, batch
  <1> QED
    BY <1>1, <1>2, <1>3, <1>4, <1>5, <1>6 DEF RevInv

\* The soft delete: of two requests for a review, one finds it.
LEMMA DeleteKeeps ==
  ASSUME RevInv, NEW k \in Requests, Delete(k)
  PROVE  RevInv'
  <1> DEFINE r == ask[k].id
             row == [review[r] EXCEPT !.deleted = TRUE]
  <1>a. /\ pc[k] = "deleting" /\ r \in Live
        /\ review' = [review EXCEPT ![r] = row]
        /\ UNCHANGED <<inSecond, late, lost>>
        /\ pc' = [pc EXCEPT ![k] = "done"]
        /\ answer' = [answer EXCEPT ![k] = {}]
        /\ UNCHANGED <<booking, ask, gone, stays, ratings, batch>>
    BY DEF Delete, Answer, Goto
  <1>c. /\ row \in Rows /\ row # NoReview
        /\ row.user = review[r].user /\ row.booking = review[r].booking
        /\ row.hotel = review[r].hotel /\ row.deleted
    <2>1. review[r] \in Rows /\ r \in Reviews
      BY <1>a DEF RevInv, TypeOK, Live, Written
    <2> QED
      BY <2>1, RowsAreRows DEF Rows
  <1>w. Written' = Written /\ Live' = Live \ {r}
    BY <1>a, <1>c DEF RevInv, TypeOK, Written, Live
  <1>1. TypeOK'
    <2>1. review' \in [Reviews -> Rows \cup {NoReview}]
      BY <1>a, <1>c DEF RevInv, TypeOK
    <2> QED
      BY <2>1, <1>a, <1>w DEF RevInv, TypeOK, ratings, batch
  <1>2. Fits'
    BY <1>a DEF RevInv, TypeOK, Fits
  <1>3. ReviewsOfOwnStay' /\ Vetted'
    BY <1>a, <1>c, <1>w
    DEF RevInv, TypeOK, ReviewsOfOwnStay, Vetted, Written
  <1>4. Hidden' /\ DeletedStaysHidden'
    BY <1>a, <1>w DEF RevInv, TypeOK, Hidden, DeletedStaysHidden, Live
  <1>5. DeletedOnce'
    BY <1>a DEF RevInv, TypeOK, DeletedOnce, Hidden
  <1>6. Steady' /\ DriftBounded'
    BY <1>a DEF RevInv, Steady, DriftBounded, ratings, batch
  <1> QED
    BY <1>1, <1>2, <1>3, <1>4, <1>5, <1>6 DEF RevInv

\* The BookingService moves: who waits for a booking sees it confirmed.
LEMMA BookingMovesKeeps ==
  ASSUME RevInv, NEW b \in Bookings, BookingMoves(b)
  PROVE  RevInv'
  <1>0. PICK s \in {"CONFIRMED", "CANCELLED"} :
          /\ booking' = [booking EXCEPT ![b] = s]
          /\ stays' = IF s = "CONFIRMED" THEN stays \cup Asking(b) ELSE stays
    BY DEF BookingMoves
  <1>a. UNCHANGED <<review, pc, ask, answer, gone, ratings, batch, inSecond,
                    late, lost>>
    BY DEF BookingMoves
  <1>w. Written' = Written /\ Live' = Live
    BY <1>a DEF Written, Live
  <1>1. TypeOK'
    BY <1>0, <1>a, <1>w DEF RevInv, TypeOK, ratings, batch, Asking
  <1>2. Fits' /\ DeletedOnce'
    BY <1>a DEF RevInv, Fits, DeletedOnce
  <1>3. ReviewsOfOwnStay'
    BY <1>0, <1>a, <1>w DEF RevInv, ReviewsOfOwnStay
  <1>6. Vetted'
    <2> SUFFICES ASSUME NEW k \in Requests,
                        pc[k] \in {"checking", "inserting"}
                 PROVE  LET p == ask[k].body
                        IN  /\ pc[k] = "checking" /\ booking'[p.booking] = "CONFIRMED"
                              => k \in stays'
                            /\ pc[k] = "inserting" =>
                                 /\ UserOf[p.booking] = p.user
                                 /\ HotelOf[p.booking] = p.hotel
                                 /\ k \in stays'
      BY <1>a DEF Vetted
    <2>1. ask[k].body.booking # b =>
            booking'[ask[k].body.booking] = booking[ask[k].body.booking]
      BY <1>0 DEF RevInv, TypeOK
    <2>2. ask[k].body.booking = b /\ pc[k] = "checking" /\ s = "CONFIRMED" =>
            k \in stays'
      BY <1>0 DEF Asking
    <2>3. ask[k].body.booking = b => booking'[ask[k].body.booking] = s
      BY <1>0 DEF RevInv, TypeOK
    <2> QED
      BY <2>1, <2>2, <2>3, <1>0 DEF RevInv, Vetted
  <1>4. Hidden' /\ DeletedStaysHidden'
    BY <1>a, <1>w DEF RevInv, Hidden, DeletedStaysHidden
  <1>5. Steady' /\ DriftBounded'
    BY <1>a DEF RevInv, Steady, DriftBounded, ratings, batch
  <1> QED
    BY <1>1, <1>2, <1>3, <1>4, <1>5, <1>6 DEF RevInv

----------------------------------------------------------------------------
(* The batch *)

\* What the requests and their reviews rely on does not move.
LEMMA RequestsUndisturbed ==
  ASSUME RevInv, UNCHANGED <<booking, requests>>, review' = review
  PROVE  /\ Fits' /\ ReviewsOfOwnStay' /\ Vetted'
         /\ DeletedStaysHidden' /\ Hidden' /\ DeletedOnce'
         /\ Written' = Written /\ Live' = Live
  <1>w. Written' = Written /\ Live' = Live
    BY DEF Written, Live
  <1>1. Fits' /\ DeletedOnce' /\ DeletedStaysHidden'
    BY DEF RevInv, Fits, DeletedOnce, DeletedStaysHidden, requests
  <1>2. ReviewsOfOwnStay' /\ Vetted' /\ Hidden'
    BY <1>w DEF RevInv, ReviewsOfOwnStay, Vetted, Hidden, requests
  <1> QED
    BY <1>w, <1>1, <1>2

\* The aggregates of the pending reviews.
LEMMA FetchKeeps ==
  ASSUME RevInv, FetchUnappliedAggregates
  PROVE  RevInv'
  <1>a. /\ bpc = "idle" /\ bpc' = "looping" /\ taken' = Pending
        /\ agg' = [h \in Hotels |-> AggregateOf(h, Pending)]
        /\ todo' = {review[r].hotel : r \in Pending}
        /\ UNCHANGED <<booking, requests, ratings, at, old>>
        /\ UNCHANGED <<review, inSecond, late, lost>>
    BY DEF FetchUnappliedAggregates, Quiet
  <1>0. Pending \subseteq Written /\ Written \subseteq Reviews
    BY DEF Pending, Written
  <1>1. agg' \in [Hotels -> [sum : Nat, count : Nat]]
    <2>1. ASSUME NEW h \in Hotels
          PROVE  AggregateOf(h, Pending) \in [sum : Nat, count : Nat]
      <3>1. OfHotel(h, Pending) \in SUBSET Reviews
        BY <1>0 DEF OfHotel
      <3> QED
        BY <3>1, TotalsAreNatural DEF AggregateOf
    <2> QED
      BY <2>1, <1>a
  <1>2. todo' \subseteq Hotels
    <2>1. \A r \in Written : review[r] \in Rows
      BY DEF RevInv, TypeOK, Written
    <2> QED
      BY <2>1, <1>0, <1>a DEF Rows
  <1>3. TypeOK'
    BY <1>0, <1>a, <1>1, <1>2, RequestsUndisturbed
    DEF RevInv, TypeOK, requests, ratings
  <1>4. Steady' /\ DriftBounded'
    BY <1>a DEF RevInv, Steady, DriftBounded, ratings
  <1> QED
    BY <1>3, <1>4, <1>a, RequestsUndisturbed DEF RevInv

\* The rating of a hotel is read.
LEMMA ReadKeeps ==
  ASSUME RevInv, NEW h \in Hotels, GetHotelRating(h)
  PROVE  RevInv'
  <1>a. /\ bpc = "looping" /\ bpc' = "read" /\ at' = h
        /\ todo' = todo \ {h} /\ old' = hotel[h]
        /\ UNCHANGED <<booking, requests, ratings, agg, taken>>
        /\ UNCHANGED <<review, inSecond, late, lost>>
    BY DEF GetHotelRating, Quiet
  <1>1. TypeOK'
    BY <1>a, RequestsUndisturbed DEF RevInv, TypeOK, requests, ratings
  <1>2. Steady' /\ DriftBounded'
    BY <1>a DEF RevInv, Steady, DriftBounded, ratings
  <1> QED
    BY <1>1, <1>2, <1>a, RequestsUndisturbed DEF RevInv

\* The PATCH: the drift grows by half a hundredth at most.
LEMMA PushKeeps ==
  ASSUME RevInv, UpdateHotelRating
  PROVE  RevInv'
  <1> DEFINE n == old.count + agg[at].count
  <1>b. /\ at \in Hotels /\ old = hotel[at]
        /\ old.rating \in Nat /\ old.count \in Nat
        /\ agg[at].sum \in Nat /\ agg[at].count \in Nat
        /\ sum[at] \in Nat /\ pushes[at] \in Nat
    <2>1. at \in Hotels /\ old = hotel[at]
      BY DEF RevInv, TypeOK, Steady, UpdateHotelRating
    <2>2. agg[at] \in [sum : Nat, count : Nat] /\ old \in Ratings
      BY <2>1 DEF RevInv, TypeOK
    <2>3. sum[at] \in Nat /\ pushes[at] \in Nat
      BY <2>1 DEF RevInv, TypeOK
    <2>4. old.rating \in Nat /\ old.count \in Nat
      BY <2>2 DEF Ratings
    <2>5. agg[at].sum \in Nat /\ agg[at].count \in Nat
      BY <2>2
    <2> QED
      BY <2>1, <2>3, <2>4, <2>5
  <1>0. PICK q \in Nearest(old.rating * old.count + 100 * agg[at].sum, n) :
          Push(at, n, q)
    BY DEF UpdateHotelRating
  <1>a. /\ bpc = "read" /\ bpc' = "patched"
        /\ hotel' = [hotel EXCEPT ![at] = [rating |-> q, count |-> n]]
        /\ sum' = [sum EXCEPT ![at] = @ + agg[at].sum]
        /\ pushes' = [pushes EXCEPT ![at] = @ + 1]
        /\ UNCHANGED <<booking, requests, interrupted, agg, taken, todo, at,
                       old>>
        /\ UNCHANGED <<review, inSecond, late, lost>>
    BY <1>0 DEF UpdateHotelRating, Push, Quiet
  <1>c. q \in 0 .. 999 /\ n \in Nat
    BY <1>b DEF Nearest
  <1>1. TypeOK'
    <2>1. hotel' \in [Hotels -> Ratings]
      BY <1>a, <1>b, <1>c DEF RevInv, TypeOK, Ratings
    <2>2. sum' \in [Hotels -> Nat] /\ pushes' \in [Hotels -> Nat]
      BY <1>a, <1>b DEF RevInv, TypeOK
    <2> QED
      BY <2>1, <2>2, <1>a, RequestsUndisturbed DEF RevInv, TypeOK, requests
  <1>2. Steady'
    BY <1>a DEF Steady
  <1>3. DriftBounded'
    <2>1. WithinDrift(sum[at], old.rating, old.count, pushes[at])
      BY <1>b DEF RevInv, DriftBounded, WithinDrift
    <2>2. WithinDrift(sum[at] + agg[at].sum, q, n, pushes[at] + 1)
      <3> DEFINE t == old.rating * old.count + 100 * agg[at].sum
      <3>1. q \in Nearest(t, n)
        OBVIOUS
      <3>2. n = old.count + agg[at].count /\ t = old.rating * old.count + 100 * agg[at].sum
        OBVIOUS
      <3> HIDE DEF t, n
      <3> QED
        BY <2>1, <3>1, <3>2, <1>b, HalfAHundredth
    <2>3. /\ hotel'[at].rating = q /\ hotel'[at].count = n
          /\ sum'[at] = sum[at] + agg[at].sum /\ pushes'[at] = pushes[at] + 1
      BY <1>a, <1>b DEF RevInv, TypeOK
    <2>4. \A h \in Hotels \ {at} :
            hotel'[h] = hotel[h] /\ sum'[h] = sum[h] /\ pushes'[h] = pushes[h]
      BY <1>a DEF RevInv, TypeOK
    <2> QED
      BY <2>2, <2>3, <2>4 DEF RevInv, DriftBounded, WithinDrift
  <1> QED
    BY <1>1, <1>2, <1>3, <1>a, RequestsUndisturbed DEF RevInv

\* The reviews are marked: nothing but their is_synced changes.
LEMMA MarkKeeps ==
  ASSUME RevInv, MarkReviewsAsSynced
  PROVE  RevInv'
  <1> DEFINE marked == OfHotel(at, Pending \cap (taken \cup inSecond))
  <1>a. /\ bpc = "patched" /\ bpc' = "looping" /\ at' = NoHotel
        /\ review' = [r \in Reviews |-> IF r \in marked
                        THEN [review[r] EXCEPT !.synced = TRUE] ELSE review[r]]
        /\ lost' = lost \cup (marked \ taken)
        /\ UNCHANGED <<booking, requests, agg, taken, todo, old, inSecond, late>>
        /\ UNCHANGED ratings
    BY DEF MarkReviewsAsSynced, CloseTx
  <1>0. marked \subseteq Written /\ Written \subseteq Reviews
    BY DEF OfHotel, Pending, Written
  <1>b. ASSUME NEW r \in Written
        PROVE  /\ review'[r] \in Rows
               /\ review'[r].user = review[r].user
               /\ review'[r].booking = review[r].booking
               /\ review'[r].hotel = review[r].hotel
               /\ review'[r].deleted = review[r].deleted
    <2>1. review[r] \in Rows
      BY DEF RevInv, TypeOK, Written
    <2>2. [review[r] EXCEPT !.synced = TRUE] \in Rows
      BY <2>1 DEF Rows
    <2>3. \/ review'[r] = review[r]
          \/ review'[r] = [review[r] EXCEPT !.synced = TRUE]
      BY <1>a, <1>0
    <2> QED
      BY <2>1, <2>2, <2>3 DEF Rows
  <1>c. \A r \in Reviews \ Written : review'[r] = NoReview
    BY <1>a, <1>0 DEF Written
  <1>w. Written' = Written /\ Live' = Live
    BY <1>b, <1>c, RowsAreRows DEF Written, Live
  <1>1. TypeOK'
    <2>1. review' \in [Reviews -> Rows \cup {NoReview}]
      BY <1>a, <1>b, <1>c
    <2>2. lost' \subseteq Written'
      BY <1>0, <1>a, <1>w DEF RevInv, TypeOK
    <2> QED
      BY <2>1, <2>2, <1>a, <1>w DEF RevInv, TypeOK, requests, ratings
  <1>2. Fits' /\ DeletedOnce' /\ DeletedStaysHidden'
    BY <1>a DEF RevInv, Fits, DeletedOnce, DeletedStaysHidden, requests
  <1>3. ReviewsOfOwnStay'
    <2>1. ASSUME NEW r \in Written
          PROVE  /\ UserOf[review'[r].booking] = review'[r].user
                 /\ HotelOf[review'[r].booking] = review'[r].hotel
                 /\ \E k \in stays' : pc'[k] = "done" /\ r \in answer'[k]
      <3>1. /\ UserOf[review[r].booking] = review[r].user
            /\ HotelOf[review[r].booking] = review[r].hotel
            /\ \E k \in stays : pc[k] = "done" /\ r \in answer[k]
        BY DEF RevInv, ReviewsOfOwnStay
      <3>2. UNCHANGED <<stays, pc, answer>>
        BY <1>a DEF requests
      <3> QED
        BY <3>1, <3>2, <1>b
    <2> QED
      BY <2>1, <1>w DEF ReviewsOfOwnStay
  <1>4. Vetted' /\ Hidden'
    BY <1>a, <1>w DEF RevInv, Vetted, Hidden, requests
  <1>5. Steady' /\ DriftBounded'
    BY <1>a DEF RevInv, Steady, DriftBounded, ratings
  <1> QED
    BY <1>1, <1>2, <1>3, <1>4, <1>5 DEF RevInv

\* A hotel fails, or the batch ends.
LEMMA EndKeeps ==
  ASSUME RevInv, HotelFails \/ BatchEnds
  PROVE  RevInv'
  <1>1. CASE HotelFails
    <2>a. /\ bpc \in {"read", "patched"} /\ bpc' = "looping" /\ at' = NoHotel
          /\ interrupted' = interrupted \/
               /\ bpc = "patched" /\ interrupted[at] < MaxInterruptions
               /\ interrupted' = [interrupted EXCEPT ![at] = @ + 1]
          /\ UNCHANGED <<booking, requests, agg, taken, todo, old, inSecond,
                         late, review, lost, hotel, sum, pushes>>
      BY <1>1 DEF HotelFails, CloseTx
    <2>1. interrupted' \in [Hotels -> 0 .. MaxInterruptions]
      BY <2>a, ReviewsAssumption DEF RevInv, TypeOK
    <2>2. TypeOK'
      BY <2>a, <2>1, RequestsUndisturbed DEF RevInv, TypeOK, requests
    <2>3. Steady' /\ DriftBounded'
      BY <2>a DEF RevInv, Steady, DriftBounded
    <2> QED
      BY <2>2, <2>3, <2>a, RequestsUndisturbed DEF RevInv
  <1>2. CASE BatchEnds
    <2>a. /\ bpc = "looping" /\ bpc' = "idle" /\ taken' = {} /\ inSecond' = {}
          /\ UNCHANGED <<booking, requests, ratings, review, late, lost, agg,
                         todo, at, old>>
      BY <1>2 DEF BatchEnds
    <2>1. TypeOK'
      BY <2>a, RequestsUndisturbed DEF RevInv, TypeOK, requests, ratings
    <2>2. Steady' /\ DriftBounded'
      BY <2>a DEF RevInv, Steady, DriftBounded, ratings
    <2> QED
      BY <2>1, <2>2, <2>a, RequestsUndisturbed DEF RevInv
  <1> QED
    BY <1>1, <1>2

----------------------------------------------------------------------------
\* Every step of a request keeps the invariant.
LEMMA HandleKeeps ==
  ASSUME RevInv, NEW k \in Requests, Handle(k)
  PROVE  RevInv'
  <1>1. CASE CreateReview(k)
    <2>1. PICK p \in Payloads : p.stars \in Stars /\
            Begin(k, [op |-> "create", body |-> p], "checking")
      BY <1>1 DEF CreateReview
    <2>2. [op |-> "create", body |-> p] \in Asks
      BY DEF Asks
    <2> QED
      BY <2>1, <2>2, BeginKeeps
  <1>2. CASE UpdateReview(k)
    <2>1. PICK r \in Reviews, s \in Edits : s \in Stars /\
            Begin(k, [op |-> "update", id |-> r, stars |-> s], "updating")
      BY <1>2 DEF UpdateReview
    <2>2. [op |-> "update", id |-> r, stars |-> s] \in Asks
      BY DEF Asks
    <2> QED
      BY <2>1, <2>2, BeginKeeps
  <1>3. CASE DeleteReview(k) \/ GetReviewById(k)
    <2>1. \A r \in Reviews : /\ [op |-> "delete", id |-> r] \in Asks
                             /\ [op |-> "get", id |-> r] \in Asks
      BY DEF Asks
    <2>2. CASE DeleteReview(k)
      <3>1. PICK r \in Reviews :
              Begin(k, [op |-> "delete", id |-> r], "deleting")
        BY <2>2 DEF DeleteReview
      <3> QED
        BY <2>1, <3>1, BeginKeeps
    <2>3. CASE GetReviewById(k)
      <3>1. PICK r \in Reviews : Begin(k, [op |-> "get", id |-> r], "getting")
        BY <2>3 DEF GetReviewById
      <3> QED
        BY <2>1, <3>1, BeginKeeps
    <2> QED
      BY <1>3, <2>2, <2>3
  <1>4. CASE GetReviews(k)
    <2>1. PICK a \in Asks : Begin(k, a, "listing")
      BY <1>4 DEF GetReviews, Asks
    <2> QED
      BY <2>1, BeginKeeps
  <1>5. CASE GetBooking(k)
    BY <1>5, AnswerKeeps DEF GetBooking
  <1>6. CASE UpdateFindsNothing(k) \/ Refused(k)
    BY <1>6, AnswerKeeps DEF UpdateFindsNothing, Refused
  <1>7. CASE GetByID(k)
    <2>1. ask[k].op # "delete"
      BY <1>7 DEF GetByID, RevInv, Fits
    <2> QED
      BY <1>7, <2>1, AnswerKeeps DEF GetByID
  <1>8. CASE GetAll(k) \/ GetByUserId(k) \/ GetByHotelId(k) \/ GetByBookingId(k)
    <2>1. PICK o \in {"all", "user", "hotel", "booking"}, R \in SUBSET Live :
            List(k, o, R)
      BY <1>8 DEF GetAll, GetByUserId, GetByHotelId, GetByBookingId
    <2> QED
      BY <2>1, AnswerKeeps DEF List
  <1> QED
    BY <1>1, <1>2, <1>3, <1>4, <1>5, <1>6, <1>7, <1>8, CreateKeeps,
       UpdateKeeps, DeleteKeeps
    DEF Handle

\* The inductive invariant, over requests and batch.
THEOREM RevInductive == Spec => []RevInv
  <1>1. RevInv /\ [Next]_vars => RevInv'
    <2> SUFFICES ASSUME RevInv, [Next]_vars PROVE RevInv'
      OBVIOUS
    <2>1. CASE UNCHANGED vars
      <3>1. TypeOK'
        BY <2>1, RequestsUndisturbed
        DEF vars, requests, ratings, batch, RevInv, TypeOK
      <3>2. Steady' /\ DriftBounded'
        BY <2>1 DEF vars, ratings, batch, RevInv, Steady, DriftBounded
      <3> QED
        BY <2>1, <3>1, <3>2, RequestsUndisturbed DEF vars, RevInv
    <2>2. CASE Next
      BY <2>2, BookingMovesKeeps, HandleKeeps, FetchKeeps, ReadKeeps, PushKeeps,
         MarkKeeps, EndKeeps
      DEF Next, Batch
    <2> QED
      BY <2>1, <2>2
  <1> QED
    BY <1>1, RevInitially, PTL DEF Spec

\* Every variable keeps its type.
THEOREM ReviewTypes == Spec => []TypeOK
  <1>1. RevInv => TypeOK
    BY DEF RevInv
  <1> QED
    BY <1>1, RevInductive, PTL

\* A review is of its user's own booking, which was CONFIRMED while the review
\* was asked for, however many requests and moves of bookings run beside it.
THEOREM OwnStays == Spec => []ReviewsOfOwnStay
  <1>1. RevInv => ReviewsOfOwnStay
    BY DEF RevInv
  <1> QED
    BY <1>1, RevInductive, PTL

\* No request finds a review that was deleted before it began.
THEOREM DeletesLast == Spec => []DeletedStaysHidden
  <1>1. RevInv => DeletedStaysHidden
    BY DEF RevInv
  <1> QED
    BY <1>1, RevInductive, PTL

\* Of the deletes of a review one succeeds.
THEOREM OneDelete == Spec => []DeletedOnce
  <1>1. RevInv => DeletedOnce
    BY DEF RevInv
  <1> QED
    BY <1>1, RevInductive, PTL

\* A hotel's rating drifts by half a hundredth a PATCH at most.
THEOREM DriftStaysBounded == Spec => []DriftBounded
  <1>1. RevInv => DriftBounded
    BY DEF RevInv
  <1> QED
    BY <1>1, RevInductive, PTL

----------------------------------------------------------------------------
(* The rating of a hotel and its reviews *)

IsSynced(r) == review[r].synced
Synced(h) == OfHotel(h, {r \in Written : review[r].synced}) \ lost
Taken(h) == OfHotel(h, taken)
Due(h) == h \in todo \/ h = at

\* The aggregates of a hotel that is still to do are those of its reviews
Aggregated(h) ==
  /\ \A r \in Taken(h) : ~ IsSynced(r)
  /\ agg[h].count = Cardinality(Taken(h))
  /\ Taken(h) \cap late = {} => agg[h].sum = Total(Taken(h))

\* Between the PATCH and the commit the hotel is ahead by its aggregates
Shown(h) ==
  IF bpc = "patched" /\ at = h
  THEN /\ hotel[h].count = Cardinality(Synced(h)) + agg[h].count
       /\ Synced(h) \cap late = {} => sum[h] = Total(Synced(h)) + agg[h].sum
  ELSE /\ hotel[h].count = Cardinality(Synced(h))
       /\ Synced(h) \cap late = {} => sum[h] = Total(Synced(h))

Shows ==
  /\ bpc = "idle" => todo = {}
  /\ at \notin todo
  /\ \A r \in lost : IsSynced(r)
  /\ \A h \in Hotels : Due(h) => Aggregated(h)
  /\ \A h \in Hotels : interrupted[h] = 0 => Shown(h)

\* What a request may do to the reviews
EditsNoted ==
  /\ UNCHANGED <<batch, ratings, lost>>
  /\ Written \subseteq Written' /\ late \subseteq late'
  /\ \A r \in Written : /\ review'[r].hotel = review[r].hotel
                        /\ review'[r].synced = review[r].synced
  /\ \A r \in Written' \ Written : ~ review'[r].synced
  /\ \A r \in Written : review'[r].stars # review[r].stars =>
       (review[r].synced \/ r \in taken => r \in late')

\* SUM and COUNT add up over reviews that are apart.
LEMMA TotalsAdd ==
  ASSUME NEW R \in SUBSET Reviews, NEW S \in SUBSET Reviews, R \cap S = {}
  PROVE  /\ Cardinality(R \cup S) = Cardinality(R) + Cardinality(S)
         /\ Total(R \cup S) = Total(R) + Total(S)
  <1>1. ASSUME NEW A \in SUBSET Reviews, NEW B \in SUBSET Reviews, A \cap B = {}
        PROVE  /\ Cardinality(A \cup B) = Cardinality(A) + Cardinality(B)
               /\ Cardinality(A) \in Nat /\ Cardinality(B) \in Nat
    <2>1. IsFiniteSet(A) /\ IsFiniteSet(B)
      BY ReviewsAssumption, FS_Subset
    <2>2. Cardinality(A) \in Nat /\ Cardinality(B) \in Nat
      BY <2>1, FS_CardinalityType
    <2>3. Cardinality(A \cup B)
            = Cardinality(A) + Cardinality(B) - Cardinality(A \cap B)
      BY <2>1, FS_Union
    <2>4. Cardinality(A \cap B) = 0
      BY <1>1, FS_EmptySet
    <2> QED
      BY <2>2, <2>3, <2>4
  <1>2. ASSUME NEW s \in Stars
        PROVE  /\ Cardinality(WithStars(s, R \cup S))
                    = Cardinality(WithStars(s, R)) + Cardinality(WithStars(s, S))
               /\ Cardinality(WithStars(s, R)) \in Nat
               /\ Cardinality(WithStars(s, S)) \in Nat
    <2>1. /\ WithStars(s, R \cup S) = WithStars(s, R) \cup WithStars(s, S)
          /\ WithStars(s, R) \cap WithStars(s, S) = {}
          /\ WithStars(s, R) \in SUBSET Reviews
          /\ WithStars(s, S) \in SUBSET Reviews
      BY DEF WithStars
    <2> QED
      BY <2>1, <1>1
  <1>3. 1 \in Stars /\ 2 \in Stars /\ 3 \in Stars /\ 4 \in Stars /\ 5 \in Stars
    BY DEF Stars
  <1>4. Total(R \cup S) = Total(R) + Total(S)
    <2> DEFINE cr(s) == Cardinality(WithStars(s, R))
               cs(s) == Cardinality(WithStars(s, S))
               cu(s) == Cardinality(WithStars(s, R \cup S))
    <2>1. \A s \in Stars :
            cu(s) = cr(s) + cs(s) /\ cr(s) \in Nat /\ cs(s) \in Nat
      BY <1>2
    <2>2. /\ Total(R) = cr(1) + 2 * cr(2) + 3 * cr(3) + 4 * cr(4) + 5 * cr(5)
          /\ Total(S) = cs(1) + 2 * cs(2) + 3 * cs(3) + 4 * cs(4) + 5 * cs(5)
          /\ Total(R \cup S)
               = cu(1) + 2 * cu(2) + 3 * cu(3) + 4 * cu(4) + 5 * cu(5)
      BY DEF Total
    <2> HIDE DEF cr, cs, cu
    <2> QED
      BY <2>1, <2>2, <1>3
  <1> QED
    BY <1>1, <1>4

\* Nothing taken has no stars.
LEMMA NothingTotals == Total({}) = 0 /\ Cardinality({}) = 0
  <1>1. \A s \in Stars : WithStars(s, {}) = {}
    BY DEF WithStars
  <1> QED
    BY <1>1, FS_EmptySet DEF Total, Stars

\* Reviews whose stars stay have the same sum.
LEMMA SameTotal ==
  ASSUME NEW R, \A r \in R : review'[r].stars = review[r].stars
  PROVE  Total(R)' = Total(R)
  <1>1. ASSUME NEW s PROVE WithStars(s, R)' = WithStars(s, R)
    BY DEF WithStars
  <1> QED
    BY <1>1 DEF Total

\* Shows holds before the first request.
LEMMA ShowsInitially == Init => Shows
  <1> SUFFICES ASSUME Init PROVE Shows
    OBVIOUS
  <1>1. Written = {} /\ lost = {} /\ todo = {} /\ at = NoHotel /\ at \notin Hotels
    BY ReviewsAssumption DEF Init, Written
  <1>2. \A h \in Hotels : ~ Due(h) /\ Synced(h) = {}
    BY <1>1 DEF Due, Synced, OfHotel
  <1>3. \A h \in Hotels : Shown(h)
    BY <1>2, NothingTotals DEF Init, Shown
  <1> QED
    BY <1>1, <1>2, <1>3 DEF Shows

\* Requests: an edit of a review that counts is noted.
LEMMA HandleNotes ==
  ASSUME RevInv, NEW k \in Requests, Handle(k)
  PROVE  EditsNoted
  <1>1. CASE UNCHANGED <<batch, ratings, review, late, lost>>
    BY <1>1 DEF EditsNoted, Written
  <1>2. CASE Create(k)
    <2>1. PICK r \in Reviews \ Written :
            /\ review'[r].synced = FALSE
            /\ \A q \in Reviews \ {r} : review'[q] = review[q]
      BY <1>2 DEF Create, RevInv, TypeOK
    <2>2. UNCHANGED <<batch, ratings, lost, late>>
      BY <1>2 DEF Create, Answer
    <2> QED
      BY <2>1, <2>2 DEF EditsNoted, Written
  <1>3. CASE Update(k)
    <2> DEFINE r == ask[k].id
    <2>1. /\ r \in Live /\ review[r] \in Rows
          /\ review' = [review EXCEPT ![r] = [review[r] EXCEPT !.stars = ask[k].stars]]
          /\ late' = IF review[r].synced \/ r \in taken THEN late \cup {r}
                     ELSE late
          /\ UNCHANGED <<batch, ratings, lost>>
      BY <1>3 DEF Update, Answer, RevInv, TypeOK, Live, Written
    <2>2. /\ review'[r].hotel = review[r].hotel
          /\ review'[r].synced = review[r].synced /\ review'[r] # NoReview
          /\ \A q \in Reviews \ {r} : review'[q] = review[q]
      <3>1. [review[r] EXCEPT !.stars = ask[k].stars] \in Rows
        <4>1. ask[k].stars \in Stars
          BY <1>3 DEF Update, RevInv, Fits
        <4> QED
          BY <4>1, <2>1 DEF Rows
      <3> QED
        BY <2>1, <3>1, RowsAreRows DEF RevInv, TypeOK, Live, Written, Rows
    <2> QED
      BY <2>1, <2>2 DEF EditsNoted, Written, Live
  <1>4. CASE Delete(k)
    <2> DEFINE r == ask[k].id
    <2>1. /\ r \in Live /\ review[r] \in Rows
          /\ review' = [review EXCEPT ![r] = [review[r] EXCEPT !.deleted = TRUE]]
          /\ UNCHANGED <<batch, ratings, lost, late>>
      BY <1>4 DEF Delete, Answer, RevInv, TypeOK, Live, Written
    <2>2. /\ review'[r].hotel = review[r].hotel
          /\ review'[r].stars = review[r].stars
          /\ review'[r].synced = review[r].synced /\ review'[r] # NoReview
          /\ \A q \in Reviews \ {r} : review'[q] = review[q]
      <3>1. [review[r] EXCEPT !.deleted = TRUE] \in Rows
        BY <2>1 DEF Rows
      <3> QED
        BY <2>1, <3>1, RowsAreRows DEF RevInv, TypeOK, Live, Written, Rows
    <2> QED
      BY <2>1, <2>2 DEF EditsNoted, Written, Live
  <1>5. CASE CreateReview(k) \/ UpdateReview(k) \/ DeleteReview(k)
             \/ GetReviewById(k) \/ GetReviews(k)
    BY <1>1, <1>5
    DEF CreateReview, UpdateReview, DeleteReview, GetReviewById, GetReviews,
        Begin
  <1>6. CASE \/ GetBooking(k) \/ UpdateFindsNothing(k) \/ Refused(k)
             \/ GetByID(k) \/ GetAll(k) \/ GetByUserId(k) \/ GetByHotelId(k)
             \/ GetByBookingId(k)
    BY <1>1, <1>6
    DEF GetBooking, UpdateFindsNothing, Refused, GetByID, GetAll, GetByUserId,
        GetByHotelId, GetByBookingId, List, Answer, Quiet
  <1> QED
    BY <1>2, <1>3, <1>4, <1>5, <1>6 DEF Handle

\* An edit that is noted leaves what a hotel shows true.
LEMMA EditsKeep ==
  ASSUME RevInv, Shows, EditsNoted
  PROVE  Shows'
  <1>a. UNCHANGED <<bpc, agg, taken, todo, at, hotel, sum, interrupted, lost>>
    BY DEF EditsNoted, batch, ratings
  <1>b. taken \subseteq Written /\ lost \subseteq Written
    BY DEF RevInv, TypeOK
  <1>1. ASSUME NEW h \in Hotels
        PROVE  Synced(h)' = Synced(h) /\ Taken(h)' = Taken(h)
    BY <1>a, <1>b DEF EditsNoted, Synced, Taken, OfHotel
  <1>2. ASSUME NEW R, R \subseteq Written, R \cap late' = {},
               \A r \in R : IsSynced(r) \/ r \in taken
        PROVE  R \cap late = {} /\ Total(R)' = Total(R)
    <2>1. \A r \in R : review'[r].stars = review[r].stars
      BY <1>2 DEF EditsNoted, IsSynced
    <2>2. Total(R)' = Total(R)
      BY <2>1, SameTotal
    <2> QED
      BY <2>2, <1>2 DEF EditsNoted
  <1>3. ASSUME NEW h \in Hotels, Due(h)
        PROVE  Aggregated(h)'
    <2>0. Aggregated(h)
      BY <1>3 DEF Shows
    <2>1. PICK R : R = Taken(h)
      OBVIOUS
    <2>2. R \subseteq Written /\ \A r \in R : r \in taken
      BY <2>1, <1>b DEF Taken, OfHotel
    <2>3. R = Taken(h)'
      BY <2>1, <1>1
    <2>4. \A r \in R : ~ IsSynced(r)'
      BY <2>0, <2>1, <2>2 DEF Aggregated, EditsNoted, IsSynced
    <2>5. ASSUME R \cap late' = {} PROVE agg'[h].sum = Total(R)'
      BY <2>0, <2>1, <2>2, <2>5, <1>2, <1>a DEF Aggregated
    <2> QED
      BY <2>0, <2>1, <2>3, <2>4, <2>5, <1>a DEF Aggregated
  <1>4. ASSUME NEW h \in Hotels, interrupted[h] = 0
        PROVE  Shown(h)'
    <2>0. Shown(h)
      BY <1>4 DEF Shows
    <2>1. PICK R : R = Synced(h)
      OBVIOUS
    <2>2. R \subseteq Written /\ \A r \in R : IsSynced(r)
      BY <2>1 DEF Synced, OfHotel, IsSynced
    <2>3. R = Synced(h)'
      BY <2>1, <1>1
    <2>5. ASSUME R \cap late' = {}
          PROVE R \cap late = {} /\ Total(R)' = Total(R)
      BY <2>2, <2>5, <1>2
    <2> QED
      BY <2>0, <2>1, <2>3, <2>5, <1>a DEF Shown
  <1>5. \A r \in lost' : IsSynced(r)'
    BY <1>a, <1>b DEF Shows, EditsNoted, IsSynced
  <1> QED
    BY <1>3, <1>4, <1>5, <1>a DEF Shows, Due

\* The batch: a fetch starts from the pending reviews.
LEMMA FetchShows ==
  ASSUME RevInv, Shows, FetchUnappliedAggregates
  PROVE  Shows'
  <1>a. /\ bpc = "idle" /\ bpc' = "looping" /\ taken' = Pending
        /\ agg' = [h \in Hotels |-> AggregateOf(h, Pending)]
        /\ UNCHANGED <<hotel, sum, interrupted, at, review, late, lost>>
        /\ todo' \subseteq Hotels
    BY FetchKeeps
    DEF FetchUnappliedAggregates, Quiet, ratings, RevInv, TypeOK
  <1>0. at = NoHotel /\ at \notin Hotels
    BY <1>a, ReviewsAssumption DEF RevInv, TypeOK
  <1>1. ASSUME NEW h \in Hotels PROVE Aggregated(h)'
    <2>1. Taken(h)' = OfHotel(h, Pending)
      BY <1>a DEF Taken, OfHotel
    <2>2. \A r \in Taken(h)' : ~ IsSynced(r)'
      BY <2>1, <1>a DEF OfHotel, Pending, IsSynced
    <2>3. /\ agg'[h].count = Cardinality(OfHotel(h, Pending))
          /\ agg'[h].sum = Total(OfHotel(h, Pending))
      BY <1>a DEF AggregateOf
    <2>4. PICK R : R = OfHotel(h, Pending)
      OBVIOUS
    <2>5. Total(R)' = Total(R)
      BY <1>a, SameTotal
    <2> QED
      BY <2>1, <2>2, <2>3, <2>4, <2>5 DEF Aggregated
  <1>2. ASSUME NEW h \in Hotels, interrupted[h] = 0 PROVE Shown(h)'
    <2>0. Shown(h) /\ ~ (bpc = "patched" /\ at = h)
      BY <1>2, <1>a DEF Shows
    <2>1. PICK R : R = Synced(h)
      OBVIOUS
    <2>2. R = Synced(h)' /\ Total(R)' = Total(R)
      BY <2>1, <1>a, SameTotal DEF Synced, OfHotel, Written
    <2> QED
      BY <2>0, <2>1, <2>2, <1>a DEF Shown
  <1> QED
    BY <1>0, <1>1, <1>2, <1>a DEF Shows, IsSynced

\* A read, a PATCH that fails or has no commit, and the end of a batch.
LEMMA OthersShow ==
  ASSUME RevInv, Shows,
         (\E h \in Hotels : GetHotelRating(h)) \/ HotelFails \/ BatchEnds
  PROVE  Shows'
  <1>a. UNCHANGED <<review, late, lost, agg, hotel, sum>>
    BY DEF GetHotelRating, HotelFails, BatchEnds, CloseTx, Quiet, ratings
  <1>b. \/ /\ bpc = "looping" /\ bpc' = "read" /\ at' \in todo
           /\ todo' = todo \ {at'} /\ taken' = taken /\ interrupted' = interrupted
        \/ /\ bpc' = "looping" /\ at' = NoHotel
           /\ todo' = todo /\ taken' = taken
           /\ \/ bpc = "read" /\ interrupted' = interrupted
              \/ /\ bpc = "patched"
                 /\ interrupted' = [interrupted EXCEPT ![at] = @ + 1]
        \/ /\ bpc = "looping" /\ bpc' = "idle" /\ todo = {} /\ todo' = {}
           /\ at' = at /\ interrupted' = interrupted
    BY DEF GetHotelRating, HotelFails, BatchEnds, CloseTx, ratings
  <1>0. NoHotel \notin Hotels /\ todo \subseteq Hotels
        /\ interrupted \in [Hotels -> Nat]
        /\ (bpc \in {"looping", "idle"} => at = NoHotel)
        /\ (bpc \in {"read", "patched"} => at \in Hotels)
    BY ReviewsAssumption DEF RevInv, TypeOK
  <1>1. ASSUME NEW h \in Hotels, Due(h)' PROVE Due(h) /\ taken' = taken
    BY <1>0, <1>1, <1>b DEF Due
  <1>2. ASSUME NEW h \in Hotels, Due(h)' PROVE Aggregated(h)'
    <2>0. Aggregated(h) /\ taken' = taken
      BY <1>1, <1>2 DEF Shows
    <2>1. PICK R : R = Taken(h)
      OBVIOUS
    <2>2. R = Taken(h)' /\ Total(R)' = Total(R)
      BY <2>0, <2>1, <1>a, SameTotal DEF Taken, OfHotel
    <2> QED
      BY <2>0, <2>1, <2>2, <1>a DEF Aggregated, IsSynced
  <1>3. ASSUME NEW h \in Hotels, interrupted'[h] = 0 PROVE Shown(h)'
    <2>0. /\ interrupted[h] = 0
          /\ ~ (bpc = "patched" /\ at = h) /\ ~ (bpc' = "patched" /\ at' = h)
      BY <1>0, <1>3, <1>b
    <2>1. Shown(h)
      BY <2>0 DEF Shows
    <2>2. PICK R : R = Synced(h)
      OBVIOUS
    <2>3. R = Synced(h)' /\ Total(R)' = Total(R)
      BY <2>2, <1>a, SameTotal DEF Synced, OfHotel, Written
    <2> QED
      BY <2>0, <2>1, <2>2, <2>3, <1>a DEF Shown
  <1>4. (bpc' = "idle" => todo' = {}) /\ at' \notin todo'
    BY <1>0, <1>b DEF Shows
  <1> QED
    BY <1>2, <1>3, <1>4, <1>a DEF Shows, IsSynced

\* The PATCH puts a hotel ahead of its reviews by its aggregates.
LEMMA PushShows ==
  ASSUME RevInv, Shows, UpdateHotelRating
  PROVE  Shows'
  <1>0. PICK q :
          Push(at, old.count + agg[at].count, q)
    BY DEF UpdateHotelRating
  <1>a. /\ bpc = "read" /\ bpc' = "patched"
        /\ hotel' = [hotel EXCEPT ![at] =
                       [rating |-> q, count |-> old.count + agg[at].count]]
        /\ sum' = [sum EXCEPT ![at] = @ + agg[at].sum]
        /\ UNCHANGED <<interrupted, agg, taken, todo, at, review, late, lost>>
    BY <1>0 DEF UpdateHotelRating, Push, Quiet
  <1>b. at \in Hotels /\ old = hotel[at]
    BY <1>a DEF RevInv, TypeOK, Steady
  <1>c. /\ hotel'[at].count = hotel[at].count + agg[at].count
        /\ sum'[at] = sum[at] + agg[at].sum
        /\ \A h \in Hotels \ {at} : hotel'[h] = hotel[h] /\ sum'[h] = sum[h]
    BY <1>a, <1>b DEF RevInv, TypeOK
  <1>1. ASSUME NEW h \in Hotels, Due(h)' PROVE Aggregated(h)'
    <2>0. Aggregated(h)
      BY <1>1, <1>a DEF Shows, Due
    <2>1. PICK R : R = Taken(h)
      OBVIOUS
    <2>2. R = Taken(h)' /\ Total(R)' = Total(R)
      BY <2>1, <1>a, SameTotal DEF Taken, OfHotel
    <2> QED
      BY <2>0, <2>1, <2>2, <1>a DEF Aggregated, IsSynced
  <1>2. ASSUME NEW h \in Hotels, interrupted[h] = 0 PROVE Shown(h)'
    <2>1. Shown(h)
      BY <1>2 DEF Shows
    <2>2. PICK R : R = Synced(h)
      OBVIOUS
    <2>3. R = Synced(h)' /\ Total(R)' = Total(R)
      BY <2>2, <1>a, SameTotal DEF Synced, OfHotel, Written
    <2> QED
      BY <2>1, <2>2, <2>3, <1>a, <1>c DEF Shown
  <1> QED
    BY <1>1, <1>2, <1>a DEF Shows, IsSynced

\* The commit: the reviews of the aggregates, and no others that count, join
\* the synced ones.
LEMMA MarkShows ==
  ASSUME RevInv, Shows, MarkReviewsAsSynced
  PROVE  Shows'
  <1> DEFINE marked == OfHotel(at, Pending \cap (taken \cup inSecond))
  <1>a. /\ bpc = "patched" /\ bpc' = "looping" /\ at' = NoHotel
        /\ review' = [r \in Reviews |-> IF r \in marked
                        THEN [review[r] EXCEPT !.synced = TRUE] ELSE review[r]]
        /\ lost' = lost \cup (marked \ taken)
        /\ UNCHANGED <<agg, taken, todo, late, hotel, sum, interrupted>>
    BY DEF MarkReviewsAsSynced, CloseTx, ratings
  <1>b. /\ at \in Hotels /\ taken \subseteq Written /\ lost \subseteq Written
        /\ NoHotel \notin Hotels /\ todo \subseteq Hotels
        /\ Written \subseteq Reviews
        /\ \A r \in Written : review[r] \in Rows
    BY <1>a, ReviewsAssumption DEF RevInv, TypeOK, Written
  <1>w. Written' = Written
    <2>1. \A r \in Written : review'[r] \in Rows
      <3>1. \A r \in Written : [review[r] EXCEPT !.synced = TRUE] \in Rows
        BY <1>b DEF Rows
      <3> QED
        BY <3>1, <1>a, <1>b
    <2>2. \A r \in Reviews \ Written : review'[r] = NoReview
      BY <1>a DEF Written, OfHotel, Pending
    <2> QED
      BY <2>1, <2>2, RowsAreRows DEF Written
  <1>c. ASSUME NEW r \in Written
        PROVE  /\ review'[r].hotel = review[r].hotel
               /\ review'[r].stars = review[r].stars
               /\ review'[r].synced = (review[r].synced \/ r \in marked)
    <2>1. review[r] \in Rows /\ review[r].synced \in BOOLEAN
      BY <1>b DEF Rows
    <2>2. CASE r \in marked
      <3>1. review'[r] = [review[r] EXCEPT !.synced = TRUE]
        BY <2>2, <1>a, <1>b
      <3> QED
        BY <2>1, <2>2, <3>1 DEF Rows
    <2>3. CASE r \notin marked
      BY <2>1, <2>3, <1>a, <1>b
    <2> QED
      BY <2>2, <2>3
  <1>d. Aggregated(at)
    BY <1>b DEF Shows, Due
  <1>e. /\ Taken(at) \subseteq marked
        /\ \A r \in marked : ~ IsSynced(r) /\ review[r].hotel = at /\ r \in Written
    BY <1>b, <1>d DEF Aggregated, Taken, OfHotel, Pending, IsSynced
  <1>f. \A r \in lost' : IsSynced(r)'
    BY <1>a, <1>b, <1>c, <1>e DEF Shows, IsSynced
  <1>1. ASSUME NEW h \in Hotels, Due(h)' PROVE Aggregated(h)'
    <2>0. h # at /\ Aggregated(h)
      BY <1>1, <1>a, <1>b DEF Shows, Due
    <2>1. PICK R : R = Taken(h)
      OBVIOUS
    <2>2. R \subseteq Written /\ \A r \in R : review[r].hotel = h /\ r \notin marked
      BY <2>0, <2>1, <1>b, <1>e DEF Taken, OfHotel
    <2>3. R = Taken(h)'
      BY <2>1, <1>a, <1>b, <1>c DEF Taken, OfHotel
    <2>4. Total(R)' = Total(R)
      BY <2>2, <1>c, SameTotal
    <2>5. \A r \in R : ~ IsSynced(r)'
      BY <2>0, <2>1, <2>2, <1>c DEF Aggregated, IsSynced
    <2> QED
      BY <2>0, <2>1, <2>3, <2>4, <2>5, <1>a DEF Aggregated
  <1>2. ASSUME NEW h \in Hotels, interrupted[h] = 0 PROVE Shown(h)'
    <2>0. Shown(h) /\ bpc' = "looping"
      BY <1>2, <1>a DEF Shows
    <2>1. PICK R : R = Synced(h)'
      OBVIOUS
    <2>2. R \subseteq Written
      BY <2>1, <1>w DEF Synced, OfHotel
    <2>3. Total(R)' = Total(R)
      BY <2>2, <1>c, SameTotal
    <2>4. CASE h # at
      <3>1. R = Synced(h)
        BY <2>1, <2>4, <1>a, <1>b, <1>c, <1>e, <1>w
        DEF Synced, OfHotel, IsSynced
      <3> QED
        BY <2>0, <2>1, <2>3, <2>4, <3>1, <1>a DEF Shown
    <2>5. CASE h = at
      <3>1. R = Synced(h) \cup Taken(h)
        BY <2>1, <2>5, <1>a, <1>b, <1>c, <1>e, <1>w
        DEF Synced, Taken, OfHotel, IsSynced, Shows
      <3>2. /\ Synced(h) \cap Taken(h) = {}
            /\ Synced(h) \subseteq Reviews /\ Taken(h) \subseteq Reviews
        BY <2>5, <1>b, <1>e DEF Synced, Taken, OfHotel, IsSynced
      <3>3. /\ Cardinality(R) = Cardinality(Synced(h)) + Cardinality(Taken(h))
            /\ Total(R) = Total(Synced(h)) + Total(Taken(h))
        BY <3>1, <3>2, TotalsAdd
      <3>4. hotel'[h].count = Cardinality(R)
        BY <2>0, <2>5, <3>3, <1>a, <1>d DEF Shown, Aggregated
      <3>5. ASSUME R \cap late = {} PROVE sum'[h] = Total(R)
        BY <2>0, <2>5, <3>1, <3>3, <3>5, <1>a, <1>d DEF Shown, Aggregated
      <3> QED
        BY <2>0, <2>1, <2>3, <3>4, <3>5, <1>a DEF Shown
    <2> QED
      BY <2>4, <2>5
  <1>3. (bpc' = "idle" => todo' = {}) /\ at' \notin todo'
    BY <1>a, <1>b
  <1> QED
    BY <1>1, <1>2, <1>3, <1>f, <1>a DEF Shows

\* A hotel's count is the number of its synced reviews and its sum their
\* stars, but for the cases RatingShowsReviews names.
THEOREM HotelsShowReviews == Spec => []RatingShowsReviews
  <1>1. RevInv /\ Shows /\ [Next]_vars => Shows'
    <2> SUFFICES ASSUME RevInv, Shows, [Next]_vars PROVE Shows'
      OBVIOUS
    <2>1. CASE UNCHANGED vars
      <3>1. EditsNoted
        BY <2>1 DEF vars, EditsNoted, Written
      <3> QED
        BY <3>1, EditsKeep
    <2>2. CASE \E b \in Bookings : BookingMoves(b)
      <3>1. EditsNoted
        BY <2>2 DEF BookingMoves, EditsNoted, Written
      <3> QED
        BY <3>1, EditsKeep
    <2>3. CASE \E k \in Requests : Handle(k)
      BY <2>3, HandleNotes, EditsKeep
    <2>4. CASE Batch
      BY <2>4, FetchShows, OthersShow, PushShows, MarkShows DEF Batch
    <2> QED
      BY <2>1, <2>2, <2>3, <2>4 DEF Next
  <1>2. Shows => RatingShowsReviews
    <2> SUFFICES ASSUME Shows, NEW h \in Hotels, interrupted[h] = 0,
                        ~ (bpc = "patched" /\ at = h)
                 PROVE  /\ hotel[h].count = Cardinality(Synced(h))
                        /\ Synced(h) \cap late = {} => sum[h] = Total(Synced(h))
      BY DEF RatingShowsReviews, Synced
    <2> QED
      BY DEF Shows, Shown
  <1> QED
    BY <1>1, <1>2, ShowsInitially, RevInductive, PTL DEF Spec

=============================================================================
