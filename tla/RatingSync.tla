----------------------------- MODULE RatingSync -----------------------------
(***************************************************************************)
(* The ReviewService's batch: pending reviews are aggregated per hotel,    *)
(* pushed to the HotelService and marked as synced.                        *)
(*                                                                         *)
(* A hotel's { rating, ratingCount } is modelled by what it is made of:    *)
(* rating[h][r] is how many times review r has gone into it.  Instants are *)
(* the seconds of created_at and of the cutoff.                            *)
(*                                                                         *)
(* GET_LOCK belongs to a MySQL session and may be taken again by it.  The  *)
(* code runs GET_LOCK, RELEASE_LOCK and the transactions on sessions the   *)
(* pool of database/sql chooses each time, and which it may close.         *)
(*                                                                         *)
(* Assumed of the network: a PATCH whose connection broke is served before *)
(* the run goes on, or never.                                              *)
(***************************************************************************)
EXTENDS Integers, FiniteSets

CONSTANTS
  Hotels, Reviews,
  HotelOf,          \* the hotel of a review
  Runs,             \* calls of ProcessPendingRatings that may overlap
  Sessions,         \* connections of the pool
  MaxNow,           \* bound: the clock
  MaxDepth,         \* bound: how often a session holds the lock
  MaxInterruptions, \* bound: PATCHes whose transaction does not commit
  NoSession, NoHotel

ASSUME RatingSyncAssumption ==
  /\ HotelOf \in [Reviews -> Hotels]
  /\ MaxNow \in Nat /\ MaxDepth \in Nat /\ MaxInterruptions \in Nat
  /\ NoSession \notin Sessions /\ NoHotel \notin Hotels

VARIABLES
  created,      \* created_at of a review, -1 before it exists
  synced,       \* reviews with is_synced = TRUE
  rating,       \* what a hotel's rating is made of, in the HotelService
  owner, depth, \* the session that holds the lock, and how many times
  now,
  pc,           \* where a run is
  cutoff, todo, \* its cutoff, and the hotels it has still to do
  aggs,         \* the reviews in its aggregates
  hotel,        \* the hotel it is at
  old,          \* the rating it read of that hotel
  marked,       \* reviews its open transaction has marked
  conn,         \* the session of its open transaction
  markedAt,     \* history: cutoff of the run that synced a review
  interrupted,  \* history: PATCHes for a hotel without a commit
  calm          \* nothing fails any more; only liveness speaks of it

store == <<created, synced, rating>>
lock == <<owner, depth>>
local == <<cutoff, todo, aggs, hotel, old, marked, conn>>
history == <<markedAt, interrupted, calm>>
vars == <<store, lock, now, pc, local, history>>

----------------------------------------------------------------------------
Zero == [r \in Reviews |-> 0]
\* is_synced = FALSE AND created_at <= t
Pending(t) == {r \in Reviews \ synced : 0 <= created[r] /\ created[r] <= t}
Of(h, R) == {r \in R : HotelOf[r] = h}
HotelsOf(R) == {HotelOf[r] : r \in R}

\* Sessions no transaction has taken out of the pool
Free == {s \in Sessions : \A k \in Runs : conn[k] # s}

Patched == {"marking", "committing"}
InTx == {"fetching", "patching"} \cup Patched

Goto(k, p) == pc' = [pc EXCEPT ![k] = p]

Init ==
  /\ created = [r \in Reviews |-> -1]
  /\ synced = {}
  /\ rating = [h \in Hotels |-> Zero]
  /\ owner = NoSession /\ depth = 0
  /\ now = 0
  /\ pc = [k \in Runs |-> "idle"]
  /\ cutoff = [k \in Runs |-> 0]
  /\ todo = [k \in Runs |-> {}]
  /\ aggs = [k \in Runs |-> {}]
  /\ hotel = [k \in Runs |-> NoHotel]
  /\ old = [k \in Runs |-> Zero]
  /\ marked = [k \in Runs |-> {}]
  /\ conn = [k \in Runs |-> NoSession]
  /\ markedAt = [r \in Reviews |-> -1]
  /\ interrupted = [h \in Hotels |-> 0]
  /\ calm = FALSE

----------------------------------------------------------------------------
Create(r) ==
  /\ created[r] = -1
  /\ created' = [created EXCEPT ![r] = now]
  /\ UNCHANGED <<synced, rating, lock, now, pc, local, history>>

ClockTicks ==
  /\ now < MaxNow
  /\ now' = now + 1
  /\ UNCHANGED <<store, lock, pc, local, history>>

----------------------------------------------------------------------------
(* ProcessPendingRatings *)

\* GET_LOCK answers 1, also to the session that has the lock; then the cutoff
GetLock(k, s) ==
  /\ pc[k] = "idle" /\ s \in Free
  /\ owner \in {NoSession, s} /\ depth < MaxDepth
  /\ owner' = s /\ depth' = depth + 1
  /\ cutoff' = [cutoff EXCEPT ![k] = now]
  /\ Goto(k, "locked")
  /\ UNCHANGED <<store, now, todo, aggs, hotel, old, marked, conn, history>>

FetchUnappliedAggregates(k) ==
  /\ pc[k] = "locked"
  /\ aggs' = [aggs EXCEPT ![k] = Pending(cutoff[k])]
  /\ todo' = [todo EXCEPT ![k] = HotelsOf(Pending(cutoff[k]))]
  /\ Goto(k, "looping")
  /\ UNCHANGED <<store, lock, now, cutoff, hotel, old, marked, conn, history>>

FetchFails(k) ==
  /\ pc[k] = "locked"
  /\ Goto(k, "releasing")
  /\ UNCHANGED <<store, lock, now, local, history>>

BeginTx(k, h, s) ==
  /\ pc[k] = "looping" /\ h \in todo[k] /\ s \in Free
  /\ todo' = [todo EXCEPT ![k] = @ \ {h}]
  /\ hotel' = [hotel EXCEPT ![k] = h]
  /\ conn' = [conn EXCEPT ![k] = s]
  /\ Goto(k, "fetching")
  /\ UNCHANGED <<store, lock, now, cutoff, aggs, old, marked, history>>

BeginTxFails(k, h) ==
  /\ pc[k] = "looping" /\ h \in todo[k]
  /\ todo' = [todo EXCEPT ![k] = @ \ {h}]
  /\ UNCHANGED <<store, lock, now, pc, cutoff, aggs, hotel, old, marked, conn,
                 history>>

CloseTx(k) ==
  /\ marked' = [marked EXCEPT ![k] = {}]
  /\ hotel' = [hotel EXCEPT ![k] = NoHotel]
  /\ conn' = [conn EXCEPT ![k] = NoSession]
  /\ old' = [old EXCEPT ![k] = Zero]
  /\ Goto(k, "looping")
  /\ UNCHANGED <<created, rating, lock, now, cutoff, todo, aggs>>

\* Fault: a hotel without a rating is taken for one that cannot be read
RefuseUnrated(k) ==
  /\ pc[k] = "fetching"
  /\ \/ /\ rating[hotel[k]] # Zero
        /\ old' = [old EXCEPT ![k] = rating[hotel[k]]]
        /\ Goto(k, "patching")
        /\ UNCHANGED <<store, lock, now, cutoff, todo, aggs, hotel, marked,
                       conn, history>>
     \/ /\ rating[hotel[k]] = Zero
        /\ CloseTx(k)
        /\ UNCHANGED <<synced, history>>

GetHotelRating(k) ==
  /\ pc[k] = "fetching"
  /\ old' = [old EXCEPT ![k] = rating[hotel[k]]]
  /\ Goto(k, "patching")
  /\ UNCHANGED <<store, lock, now, cutoff, todo, aggs, hotel, marked, conn,
                 history>>

\* The PATCH writes what was read plus the aggregate
UpdateHotelRating(k) ==
  /\ pc[k] = "patching"
  /\ rating' = [rating EXCEPT ![hotel[k]] = [r \in Reviews |->
       old[k][r] + IF r \in Of(hotel[k], aggs[k]) THEN 1 ELSE 0]]
  /\ Goto(k, "marking")
  /\ UNCHANGED <<created, synced, lock, now, local, history>>

\* Rows another open transaction has marked are waited for
NotLocked(h) == \A k \in Runs : Of(h, marked[k]) = {}

\* Fault: the UPDATE has no created_at <= cutoff
MarkAllOfHotel(k) ==
  /\ pc[k] = "marking" /\ NotLocked(hotel[k])
  /\ marked' = [marked EXCEPT ![k] = Of(hotel[k], Pending(now))]
  /\ Goto(k, "committing")
  /\ UNCHANGED <<store, lock, now, cutoff, todo, aggs, hotel, old, conn,
                 history>>

\* The predicate of the fetch, evaluated again
MarkReviewsAsSynced(k) ==
  /\ pc[k] = "marking" /\ NotLocked(hotel[k])
  /\ marked' = [marked EXCEPT ![k] = Of(hotel[k], Pending(cutoff[k]))]
  /\ Goto(k, "committing")
  /\ UNCHANGED <<store, lock, now, cutoff, todo, aggs, hotel, old, conn,
                 history>>

\* Fault: the transaction is left without its commit
ForgetCommit(k) ==
  /\ pc[k] = "committing"
  /\ CloseTx(k)
  /\ UNCHANGED <<synced, history>>

Commit(k) ==
  /\ pc[k] = "committing"
  /\ synced' = synced \cup marked[k]
  /\ markedAt' = [r \in Reviews |-> IF r \in marked[k] THEN cutoff[k]
                                    ELSE markedAt[r]]
  /\ CloseTx(k)
  /\ UNCHANGED <<interrupted, calm>>

\* Any call of the loop body fails: rollback, and on to the next hotel
HotelFails(k) ==
  /\ pc[k] \in InTx
  /\ pc[k] \in Patched => interrupted[hotel[k]] < MaxInterruptions
  /\ interrupted' = IF pc[k] \in Patched
                    THEN [interrupted EXCEPT ![hotel[k]] = @ + 1]
                    ELSE interrupted
  /\ CloseTx(k)
  /\ UNCHANGED <<synced, markedAt, calm>>

AllHotelsDone(k) ==
  /\ pc[k] = "looping" /\ todo[k] = {}
  /\ Goto(k, "releasing")
  /\ UNCHANGED <<store, lock, now, local, history>>

\* RELEASE_LOCK on a session that has not got the lock does nothing
ReleaseLock(k, s) ==
  /\ pc[k] = "releasing" /\ s \in Free
  /\ IF owner = s
     THEN /\ depth' = depth - 1
          /\ owner' = IF depth = 1 THEN NoSession ELSE s
     ELSE UNCHANGED lock
  /\ cutoff' = [cutoff EXCEPT ![k] = 0]
  /\ aggs' = [aggs EXCEPT ![k] = {}]
  /\ Goto(k, "idle")
  /\ UNCHANGED <<store, now, todo, hotel, old, marked, conn, history>>

\* The pool closes a connection it does not want to keep idle, or MySQL does:
\* the locks of its session are free again, whoever relies on them
SessionCloses(s) ==
  /\ s \in Free /\ owner = s
  /\ owner' = NoSession /\ depth' = 0
  /\ UNCHANGED <<store, now, pc, local, history>>

\* The process dies: MySQL ends its sessions and rolls back
Crash ==
  /\ ~ calm
  /\ \E k \in Runs : pc[k] # "idle"
  /\ \A k \in Runs :
       pc[k] \in Patched => interrupted[hotel[k]] < MaxInterruptions
  /\ interrupted' = [h \in Hotels |-> interrupted[h] +
       Cardinality({k \in Runs : pc[k] \in Patched /\ hotel[k] = h})]
  /\ owner' = NoSession /\ depth' = 0
  /\ pc' = [k \in Runs |-> "idle"]
  /\ cutoff' = [k \in Runs |-> 0]
  /\ todo' = [k \in Runs |-> {}]
  /\ aggs' = [k \in Runs |-> {}]
  /\ old' = [k \in Runs |-> Zero]
  /\ marked' = [k \in Runs |-> {}]
  /\ hotel' = [k \in Runs |-> NoHotel]
  /\ conn' = [k \in Runs |-> NoSession]
  /\ UNCHANGED <<store, now, markedAt, calm>>

----------------------------------------------------------------------------
Proceed(k) ==
  \/ \E s \in Sessions : GetLock(k, s)
  \/ FetchUnappliedAggregates(k)
  \/ \E h \in Hotels, s \in Sessions : BeginTx(k, h, s)
  \/ GetHotelRating(k)
  \/ UpdateHotelRating(k)
  \/ MarkReviewsAsSynced(k)
  \/ Commit(k)
  \/ AllHotelsDone(k)
  \/ \E s \in Sessions : ReleaseLock(k, s)

Break(k) ==
  /\ ~ calm
  /\ \/ FetchFails(k)
     \/ \E h \in Hotels : BeginTxFails(k, h)
     \/ HotelFails(k)

CalmDown ==
  /\ ~ calm
  /\ calm' = TRUE
  /\ UNCHANGED <<store, lock, now, pc, local, markedAt, interrupted>>

Next ==
  \/ \E r \in Reviews : Create(r)
  \/ ClockTicks
  \/ \E k \in Runs : Proceed(k) \/ Break(k)
  \/ \E s \in Sessions : SessionCloses(s)
  \/ Crash
  \/ CalmDown

Spec == Init /\ [][Next]_vars

(***************************************************************************)
(* Fairness: cron calls the batch again and again and a run goes on.  The  *)
(* promise is for a time when statements, calls and the process have       *)
(* stopped to fail, which comes with CalmDown.  A run is sure to get the   *)
(* lock when it is free; that the pool hands out the very session that has *)
(* it can happen and need not.  Nothing makes a session close.             *)
(***************************************************************************)
GoesOn(k) == (pc[k] = "idle" => owner = NoSession) /\ Proceed(k)

Fairness == WF_vars(CalmDown) /\ \A k \in Runs : WF_vars(GoesOn(k))

FairSpec == Spec /\ Fairness

----------------------------------------------------------------------------
TypeOK ==
  /\ created \in [Reviews -> -1 .. MaxNow]
  /\ synced \subseteq Reviews
  /\ rating \in [Hotels -> [Reviews -> Nat]]
  /\ owner \in Sessions \cup {NoSession} /\ depth \in 0 .. MaxDepth
  /\ now \in 0 .. MaxNow
  /\ pc \in [Runs -> InTx \cup {"idle", "locked", "looping", "releasing"}]
  /\ cutoff \in [Runs -> 0 .. MaxNow]
  /\ todo \in [Runs -> SUBSET Hotels]
  /\ aggs \in [Runs -> SUBSET Reviews]
  /\ hotel \in [Runs -> Hotels \cup {NoHotel}]
  /\ old \in [Runs -> [Reviews -> Nat]]
  /\ marked \in [Runs -> SUBSET Reviews]
  /\ conn \in [Runs -> Sessions \cup {NoSession}]
  /\ calm \in BOOLEAN

\* Both safety properties are of runs that the lock keeps apart; what happens to
\* the lock itself is in RatingSyncClaims.

\* A review that is marked as synced and is not in the hotel's rating was
\* created in the very second of the cutoff, after the aggregates were read:
\* earlier ones are in the rating and later ones are not marked.
LostOnlyInCutoffSecond ==
  \A r \in synced : rating[HotelOf[r]][r] = 0 => created[r] = markedAt[r]

\* A review counts more than once only if as many PATCHes of its hotel went
\* through without the commit that marks it.
CountedOncePerInterruption ==
  \A r \in Reviews : rating[HotelOf[r]][r] <= 1 + interrupted[HotelOf[r]]

\* The lock is held more often than there are runs that will release it: a
\* RELEASE_LOCK went to a session that has not got it
LeftBehind == depth > Cardinality({k \in Runs : pc[k] # "idle"})

\* Every review is synced some time, whatever calls, commits and crashes have
\* gone wrong on the way, unless the lock is left behind for good: that a
\* hotel's failure, a lost commit or a lock left behind until its session
\* closes or the process restarts leaves no review pending forever.
EventuallySynced ==
  \A r \in Reviews : (created[r] >= 0 ~> r \in synced) \/ <>[]LeftBehind

=============================================================================
