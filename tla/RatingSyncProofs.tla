-------------------------- MODULE RatingSyncProofs --------------------------
(***************************************************************************)
(* What the batch promises of the reviews holds for every number of        *)
(* reviews, hotels, sessions and interruptions, as long as no two runs     *)
(* overlap (OneRunAtATime).  The lock is meant to see to that, and does    *)
(* unless a session takes it twice or closes.                              *)
(*                                                                         *)
(* The properties speak of the tables alone.  Due and Known say what the   *)
(* aggregates of a run have to do with them: a review that is aggregated   *)
(* and whose hotel is still to come is not synced, and one that is not     *)
(* aggregated was created in the cutoff's second or after it.  Pushed says *)
(* that the open transaction of a run is of reviews its PATCH has counted, *)
(* and Counted what a rating owes to PATCHes without a commit.             *)
(***************************************************************************)
EXTENDS RatingSyncClaims, FiniteSetTheorems, TLAPS

\* TypeOK, with the history, and the places at which a run has a hotel
Held ==
  /\ TypeOK
  /\ markedAt \in [Reviews -> -1 .. MaxNow]
  /\ \A k \in Runs :
       /\ pc[k] \in InTx => hotel[k] \in Hotels \ todo[k]
       /\ pc[k] # "committing" => marked[k] = {}
       /\ \A r \in marked[k] : 0 <= created[r]
  /\ \A r \in synced : 0 <= created[r]
  /\ owner = NoSession <=> depth = 0

\* A run at the aggregates it has read
Aggregated(k) == pc[k] \in {"looping"} \cup InTx

\* Hotels whose aggregates are not in the rating yet, and the one at hand
Ahead(k) == todo[k] \cup (IF pc[k] \in InTx THEN {hotel[k]} ELSE {})

Due ==
  \A k \in Runs : Aggregated(k) =>
    \A r \in aggs[k] : HotelOf[r] \in Ahead(k) => r \notin synced

Known ==
  \A k \in Runs :
    /\ cutoff[k] <= now
    /\ Aggregated(k) =>
         /\ \A r \in aggs[k] : created[r] \in 0 .. cutoff[k]
         /\ \A r \in Reviews \ synced :
              created[r] \in 0 .. cutoff[k] - 1 => r \in aggs[k]

\* The rating that was read is the hotel's still
Steady == \A k \in Runs : pc[k] = "patching" => old[k] = rating[hotel[k]]

Pushed ==
  \A k \in Runs :
    /\ pc[k] \in Patched =>
         \A r \in Of(hotel[k], aggs[k]) : rating[hotel[k]][r] > 0
    /\ pc[k] = "committing" => Of(hotel[k], aggs[k]) \subseteq marked[k]
    /\ \A r \in marked[k] :
         /\ HotelOf[r] = hotel[k] /\ r \notin synced
         /\ r \in aggs[k] \/ created[r] = cutoff[k]

\* A review whose PATCH is through and that is not marked yet
Open(r) ==
  \E k \in Runs : pc[k] \in Patched /\ r \in Of(hotel[k], aggs[k])

Counted ==
  /\ interrupted \in [Hotels -> Nat]
  /\ \A r \in Reviews :
       LET h == HotelOf[r]
       IN  /\ rating[h][r] <= 1 + interrupted[h]
           /\ r \notin synced /\ ~ Open(r) => rating[h][r] <= interrupted[h]

SyncInv ==
  /\ Held /\ Due /\ Known /\ Steady /\ Pushed /\ Counted
  /\ LostOnlyInCutoffSecond

----------------------------------------------------------------------------
(* Types, whether runs overlap or not *)

\* A hotel without reviews has a rating.
LEMMA ZeroIsRating == Zero \in [Reviews -> Nat]
  BY DEF Zero

\* Nothing is known at the start, and no run has begun.
LEMMA HeldInitially == Init => Held
  <1> SUFFICES ASSUME Init PROVE Held
    OBVIOUS
  <1>1. rating \in [Hotels -> [Reviews -> Nat]] /\ old \in [Runs -> [Reviews -> Nat]]
    BY ZeroIsRating DEF Init
  <1>2. /\ created \in [Reviews -> -1 .. MaxNow]
        /\ markedAt \in [Reviews -> -1 .. MaxNow]
        /\ cutoff \in [Runs -> 0 .. MaxNow]
        /\ now \in 0 .. MaxNow /\ depth \in 0 .. MaxDepth
    BY RatingSyncAssumption DEF Init
  <1> QED
    BY <1>1, <1>2, RatingSyncAssumption DEF Init, Held, TypeOK, InTx, Patched

\* Steps outside the loop over the hotels.
LEMMA OutsideHeld ==
  ASSUME Held,
         \/ \E r \in Reviews : Create(r)
         \/ ClockTicks \/ CalmDown
         \/ \E s \in Sessions : SessionCloses(s)
         \/ \E k \in Runs :
              \/ \E s \in Sessions : GetLock(k, s) \/ ReleaseLock(k, s)
              \/ FetchUnappliedAggregates(k) \/ FetchFails(k)
              \/ AllHotelsDone(k)
  PROVE  Held'
  <1>1. ASSUME NEW r \in Reviews, Create(r) PROVE Held'
    BY <1>1, RatingSyncAssumption
    DEF Create, Held, TypeOK, InTx, Patched, lock, local, history
  <1>2. CASE ClockTicks
    BY <1>2, RatingSyncAssumption
    DEF ClockTicks, Held, TypeOK, InTx, Patched, store, lock, local, history
  <1>3. CASE CalmDown
    BY <1>3 DEF CalmDown, Held, TypeOK, InTx, Patched, store, lock, local
  <1>4. ASSUME NEW k \in Runs, NEW s \in Sessions, GetLock(k, s) PROVE Held'
    BY <1>4, RatingSyncAssumption
    DEF GetLock, Goto, Held, TypeOK, InTx, Patched, store, history
  <1>5. ASSUME NEW k \in Runs, NEW s \in Sessions, ReleaseLock(k, s)
        PROVE  Held'
    <2>1. /\ owner' \in Sessions \cup {NoSession} /\ depth' \in 0 .. MaxDepth
          /\ owner' = NoSession <=> depth' = 0
      <3>1. CASE owner = s
        BY <1>5, <3>1, RatingSyncAssumption DEF ReleaseLock, Held, TypeOK
      <3>2. CASE owner # s
        BY <1>5, <3>2 DEF ReleaseLock, Held, TypeOK, lock
      <3> QED
        BY <3>1, <3>2
    <2>2. cutoff' \in [Runs -> 0 .. MaxNow] /\ aggs' \in [Runs -> SUBSET Reviews]
      BY <1>5, RatingSyncAssumption DEF ReleaseLock, Held, TypeOK
    <2> QED
      BY <1>5, <2>1, <2>2
      DEF ReleaseLock, Goto, Held, TypeOK, InTx, Patched, store, history
  <1>6. ASSUME NEW k \in Runs, FetchUnappliedAggregates(k) PROVE Held'
    <2>1. /\ Pending(cutoff[k]) \subseteq Reviews
          /\ HotelsOf(Pending(cutoff[k])) \subseteq Hotels
      BY RatingSyncAssumption DEF Pending, HotelsOf
    <2> QED
      BY <1>6, <2>1
      DEF FetchUnappliedAggregates, Goto, Held, TypeOK, InTx, Patched, store,
          lock, history
  <1>7. ASSUME NEW k \in Runs, FetchFails(k) \/ AllHotelsDone(k) PROVE Held'
    BY <1>7
    DEF FetchFails, AllHotelsDone, Goto, Held, TypeOK, InTx, Patched, store,
        lock, local, history
  <1>8. ASSUME NEW s \in Sessions, SessionCloses(s) PROVE Held'
    BY <1>8, RatingSyncAssumption
    DEF SessionCloses, Held, TypeOK, InTx, Patched, store, local, history
  <1> QED
    BY <1>1, <1>2, <1>3, <1>4, <1>5, <1>6, <1>7, <1>8

\* Steps of the loop over the hotels.
LEMMA LoopHeld ==
  ASSUME Held, NEW k \in Runs,
         \/ \E h \in Hotels : \/ BeginTxFails(k, h)
                              \/ \E s \in Sessions : BeginTx(k, h, s)
         \/ GetHotelRating(k) \/ UpdateHotelRating(k)
         \/ MarkReviewsAsSynced(k) \/ Commit(k) \/ HotelFails(k)
  PROVE  Held'
  <1>1. ASSUME NEW h \in Hotels, BeginTxFails(k, h) PROVE Held'
    BY <1>1 DEF BeginTxFails, Held, TypeOK, InTx, Patched, store, lock, history
  <1>2. ASSUME NEW h \in Hotels, NEW s \in Sessions, BeginTx(k, h, s)
        PROVE  Held'
    BY <1>2 DEF BeginTx, Goto, Held, TypeOK, InTx, Patched, store, lock, history
  <1>3. CASE GetHotelRating(k)
    BY <1>3
    DEF GetHotelRating, Goto, Held, TypeOK, InTx, Patched, store, lock, history
  <1>4. CASE UpdateHotelRating(k)
    <2>1. old[k] \in [Reviews -> Nat] /\ hotel[k] \in Hotels
      BY <1>4 DEF UpdateHotelRating, Held, TypeOK, InTx
    <2>2. [r \in Reviews |-> old[k][r] +
             IF r \in Of(hotel[k], aggs[k]) THEN 1 ELSE 0] \in [Reviews -> Nat]
      BY <2>1
    <2>3. rating' \in [Hotels -> [Reviews -> Nat]]
      BY <1>4, <2>1, <2>2 DEF UpdateHotelRating, Held, TypeOK
    <2> QED
      BY <1>4, <2>3
      DEF UpdateHotelRating, Goto, Held, TypeOK, InTx, Patched, lock, local,
          history
  <1>5. CASE MarkReviewsAsSynced(k)
    BY <1>5
    DEF MarkReviewsAsSynced, Goto, Of, Pending, Held, TypeOK, InTx, Patched,
        store, lock, history
  <1>6. CASE Commit(k)
    BY <1>6, ZeroIsRating, RatingSyncAssumption
    DEF Commit, CloseTx, Goto, Held, TypeOK, InTx, Patched, lock
  <1>7. CASE HotelFails(k)
    BY <1>7, ZeroIsRating
    DEF HotelFails, CloseTx, Goto, Held, TypeOK, InTx, Patched, lock
  <1> QED
    BY <1>1, <1>2, <1>3, <1>4, <1>5, <1>6, <1>7

\* Every step keeps the types.
LEMMA HeldKept ==
  ASSUME Held, [Next]_vars
  PROVE  Held'
  <1>1. CASE UNCHANGED vars
    BY <1>1
    DEF vars, store, lock, local, history, Held, TypeOK, InTx, Patched
  <1>2. CASE Crash
    BY <1>2, ZeroIsRating, RatingSyncAssumption
    DEF Crash, store, Held, TypeOK, InTx, Patched
  <1> QED
    BY <1>1, <1>2, OutsideHeld, LoopHeld DEF Next, Proceed, Break

\* Every variable keeps its type, however runs overlap.
THEOREM SyncTypes == Spec => []TypeOK
  <1>1. Held => TypeOK
    BY DEF Held
  <1> QED
    BY <1>1, HeldInitially, HeldKept, PTL DEF Spec

----------------------------------------------------------------------------
(* The promises, while runs do not overlap *)

\* Nothing is rated, marked or due at the start.
LEMMA SyncInitially == Init => SyncInv
  <1> SUFFICES ASSUME Init PROVE SyncInv
    OBVIOUS
  <1>1. Held
    BY HeldInitially
  <1>2. Due /\ Known /\ Steady /\ Pushed
    BY DEF Init, Due, Known, Steady, Pushed, Aggregated, InTx, Patched
  <1>3. Counted
    <2>1. \A r \in Reviews :
            rating[HotelOf[r]][r] = 0 /\ interrupted[HotelOf[r]] = 0
      BY RatingSyncAssumption DEF Init, Zero
    <2> QED
      BY <2>1 DEF Init, Counted
  <1> QED
    BY <1>1, <1>2, <1>3 DEF Init, SyncInv, LostOnlyInCutoffSecond

\* A review that is created, or time that passes, changes nothing for a run: the
\* new review is not older than any cutoff.
LEMMA WorldSyncs ==
  ASSUME SyncInv, Held',
         \/ (\E r \in Reviews : Create(r)) \/ ClockTicks \/ CalmDown
         \/ \E s \in Sessions : SessionCloses(s)
  PROVE  SyncInv'
  <1>1. UNCHANGED <<synced, rating, pc, local, markedAt, interrupted>>
    BY DEF Create, ClockTicks, CalmDown, SessionCloses, store, history
  <1>2. Due' /\ Steady'
    BY <1>1
    DEF SyncInv, Due, Steady, Aggregated, Ahead, InTx, Patched, local
  <1>3. \A r \in Reviews : created'[r] = created[r]
                           \/ (created[r] = -1 /\ created'[r] = now)
    <2>1. created \in [Reviews -> -1 .. MaxNow]
      BY DEF SyncInv, Held, TypeOK
    <2>2. CASE \E r \in Reviews : Create(r)
      BY <2>1, <2>2 DEF Create
    <2>3. CASE ClockTicks \/ CalmDown \/ \E s \in Sessions : SessionCloses(s)
      BY <2>3 DEF ClockTicks, CalmDown, SessionCloses, store
    <2> QED
      BY <2>2, <2>3
  <1>4. now <= now' /\ now \in Nat /\ now' \in Nat
    BY DEF Create, ClockTicks, CalmDown, SessionCloses, SyncInv, Held, TypeOK
  <1>5. Known'
    <2> SUFFICES ASSUME NEW k \in Runs
                 PROVE  /\ cutoff[k] <= now'
                        /\ Aggregated(k) =>
                             /\ \A r \in aggs[k] : created'[r] \in 0 .. cutoff[k]
                             /\ \A r \in Reviews \ synced :
                                  created'[r] \in 0 .. cutoff[k] - 1
                                    => r \in aggs[k]
      BY <1>1 DEF Known, Aggregated, InTx, Patched, local
    <2>1. cutoff[k] \in Nat /\ aggs[k] \subseteq Reviews /\ cutoff[k] <= now
      BY DEF SyncInv, Held, TypeOK, Known
    <2> QED
      BY <1>3, <1>4, <2>1 DEF SyncInv, Known
  <1>6. Pushed'
    <2>1. \A k \in Runs : /\ cutoff[k] \in Nat /\ marked[k] \subseteq Reviews
                          /\ \A r \in marked[k] : 0 <= created[r]
      BY DEF SyncInv, Held, TypeOK
    <2>2. \A k \in Runs : \A r \in marked[k] : created'[r] = created[r]
      BY <1>3, <2>1
    <2> QED
      BY <1>1, <2>2 DEF SyncInv, Pushed, Patched, Of, local
  <1>7. Counted'
    BY <1>1 DEF SyncInv, Counted, Open, Patched, Of, local
  <1>8. LostOnlyInCutoffSecond'
    <2>1. \A r \in synced : r \in Reviews /\ 0 <= created[r]
      BY DEF SyncInv, Held, TypeOK
    <2>2. \A r \in synced : created'[r] = created[r]
      BY <1>3, <2>1
    <2> QED
      BY <1>1, <2>2 DEF SyncInv, LostOnlyInCutoffSecond
  <1> QED
    BY <1>2, <1>5, <1>6, <1>7, <1>8 DEF SyncInv

\* Before a run has aggregates and after its last hotel nothing depends on it.
LEMMA LockSyncs ==
  ASSUME SyncInv, Held', NEW k \in Runs,
         \/ \E s \in Sessions : GetLock(k, s) \/ ReleaseLock(k, s)
         \/ FetchFails(k) \/ AllHotelsDone(k)
  PROVE  SyncInv'
  <1>1. /\ UNCHANGED <<store, now, todo, hotel, old, marked, conn, history>>
        /\ pc[k] \notin InTx /\ pc'[k] \notin {"looping"} \cup InTx
        /\ \A j \in Runs \ {k} : /\ pc'[j] = pc[j] /\ cutoff'[j] = cutoff[j]
                                 /\ aggs'[j] = aggs[j]
        /\ cutoff'[k] \in {cutoff[k], now, 0}
    BY DEF GetLock, ReleaseLock, FetchFails, AllHotelsDone, Goto, local, store,
           history, InTx, Patched, SyncInv, Held, TypeOK
  <1>2. marked[k] = {}
    BY <1>1 DEF SyncInv, Held, InTx, Patched
  <1>3. Due' /\ Steady'
    BY <1>1 DEF SyncInv, Due, Steady, Aggregated, Ahead, InTx, store
  <1>4. Known'
    <2>1. now \in Nat
      BY DEF SyncInv, Held, TypeOK
    <2>2. \A j \in Runs : cutoff'[j] <= now
      BY <1>1, <2>1 DEF SyncInv, Known
    <2> QED
      BY <1>1, <2>2 DEF SyncInv, Known, Aggregated, store
  <1>5. Pushed'
    BY <1>1, <1>2 DEF SyncInv, Pushed, InTx, Patched, Of, store
  <1>6. Counted'
    BY <1>1 DEF SyncInv, Counted, Open, InTx, Patched, Of, store, history
  <1>7. LostOnlyInCutoffSecond'
    BY <1>1 DEF SyncInv, LostOnlyInCutoffSecond, store, history
  <1> QED
    BY <1>3, <1>4, <1>5, <1>6, <1>7 DEF SyncInv

\* The aggregates are of what is pending at the cutoff.
LEMMA FetchSyncs ==
  ASSUME SyncInv, Held', NEW k \in Runs, FetchUnappliedAggregates(k)
  PROVE  SyncInv'
  <1>1. /\ UNCHANGED <<store, now, cutoff, hotel, old, marked, conn, history>>
        /\ pc[k] = "locked" /\ pc'[k] = "looping"
        /\ aggs'[k] = Pending(cutoff[k])
        /\ \A j \in Runs \ {k} : /\ pc'[j] = pc[j] /\ aggs'[j] = aggs[j]
                                 /\ todo'[j] = todo[j]
    BY DEF FetchUnappliedAggregates, Goto, SyncInv, Held, TypeOK
  <1>2. marked[k] = {}
    BY <1>1 DEF SyncInv, Held
  <1>3. Due'
    BY <1>1 DEF SyncInv, Due, Aggregated, Ahead, InTx, Patched, Pending, store
  <1>4. Steady'
    BY <1>1 DEF SyncInv, Steady, store
  <1>5. Known'
    <2>1. cutoff[k] \in Nat /\ created \in [Reviews -> Int]
      BY DEF SyncInv, Held, TypeOK
    <2> QED
      BY <1>1, <2>1 DEF SyncInv, Known, Aggregated, Pending, store
  <1>6. Pushed'
    BY <1>1, <1>2 DEF SyncInv, Pushed, Patched, Of, store
  <1>7. Counted'
    BY <1>1 DEF SyncInv, Counted, Open, Patched, Of, store, history
  <1>8. LostOnlyInCutoffSecond'
    BY <1>1 DEF SyncInv, LostOnlyInCutoffSecond, store, history
  <1> QED
    BY <1>3, <1>4, <1>5, <1>6, <1>7, <1>8 DEF SyncInv

\* A step of the one run there is: where the others are and what they have open.
LEMMA OthersIdle ==
  ASSUME SyncInv, OneRunAtATime, NEW k \in Runs, pc[k] # "idle",
         NEW j \in Runs \ {k}
  PROVE  pc[j] = "idle" /\ marked[j] = {}
  BY DEF SyncInv, Held, OneRunAtATime

\* A hotel whose transaction begins, or does not, leaves the hotels ahead.
LEMMA BeginSyncs ==
  ASSUME SyncInv, Held', NEW k \in Runs, NEW h \in Hotels,
         BeginTxFails(k, h) \/ \E s \in Sessions : BeginTx(k, h, s)
  PROVE  SyncInv'
  <1>1. /\ UNCHANGED <<store, now, cutoff, aggs, old, marked, history>>
        /\ pc[k] = "looping" /\ h \in todo[k] /\ todo'[k] = todo[k] \ {h}
        /\ \/ pc'[k] = "looping"
           \/ pc'[k] = "fetching" /\ hotel'[k] = h
        /\ \A j \in Runs \ {k} : /\ pc'[j] = pc[j] /\ hotel'[j] = hotel[j]
                                 /\ todo'[j] = todo[j]
    BY DEF BeginTx, BeginTxFails, Goto, SyncInv, Held, TypeOK
  <1>2. marked[k] = {}
    BY <1>1 DEF SyncInv, Held
  <1>3. Due'
    <2>1. \A j \in Runs : Aggregated(j)' => Aggregated(j)
                                            /\ Ahead(j)' \subseteq Ahead(j)
      BY <1>1 DEF Aggregated, Ahead, InTx, Patched
    <2> QED
      BY <1>1, <2>1 DEF SyncInv, Due, store
  <1>4. Steady'
    BY <1>1 DEF SyncInv, Steady, store
  <1>5. Known'
    BY <1>1 DEF SyncInv, Known, Aggregated, InTx, store
  <1>6. Pushed'
    BY <1>1, <1>2 DEF SyncInv, Pushed, Patched, Of, store
  <1>7. Counted'
    BY <1>1 DEF SyncInv, Counted, Open, Patched, Of, store, history
  <1>8. LostOnlyInCutoffSecond'
    BY <1>1 DEF SyncInv, LostOnlyInCutoffSecond, store, history
  <1> QED
    BY <1>3, <1>4, <1>5, <1>6, <1>7, <1>8 DEF SyncInv

\* What is read of a hotel is what the PATCH adds to.
LEMMA ReadSyncs ==
  ASSUME SyncInv, Held', NEW k \in Runs, GetHotelRating(k)
  PROVE  SyncInv'
  <1>1. /\ UNCHANGED <<store, now, cutoff, todo, aggs, hotel, marked, history>>
        /\ pc[k] = "fetching" /\ pc'[k] = "patching"
        /\ old'[k] = rating[hotel[k]]
        /\ \A j \in Runs \ {k} : pc'[j] = pc[j] /\ old'[j] = old[j]
    BY DEF GetHotelRating, Goto, SyncInv, Held, TypeOK
  <1>2. marked[k] = {}
    BY <1>1 DEF SyncInv, Held
  <1>3. Due'
    BY <1>1 DEF SyncInv, Due, Aggregated, Ahead, InTx, store
  <1>4. Steady'
    BY <1>1 DEF SyncInv, Steady, store
  <1>5. Known'
    BY <1>1 DEF SyncInv, Known, Aggregated, InTx, store
  <1>6. Pushed'
    BY <1>1, <1>2 DEF SyncInv, Pushed, Patched, Of, store
  <1>7. Counted'
    BY <1>1 DEF SyncInv, Counted, Open, Patched, Of, store, history
  <1>8. LostOnlyInCutoffSecond'
    BY <1>1 DEF SyncInv, LostOnlyInCutoffSecond, store, history
  <1> QED
    BY <1>3, <1>4, <1>5, <1>6, <1>7, <1>8 DEF SyncInv

\* The PATCH counts each review of the aggregate once more: none of them was
\* synced or open.
LEMMA PatchSyncs ==
  ASSUME SyncInv, Held', OneRunAtATime, NEW k \in Runs, UpdateHotelRating(k)
  PROVE  SyncInv'
  <1> DEFINE H == hotel[k]
             New == Of(H, aggs[k])
  <1>1. /\ UNCHANGED <<created, synced, now, local, history>>
        /\ pc[k] = "patching" /\ pc'[k] = "marking"
        /\ \A j \in Runs \ {k} : pc'[j] = pc[j]
        /\ H \in Hotels
        /\ rating \in [Hotels -> [Reviews -> Nat]]
        /\ aggs[k] \subseteq Reviews
    BY DEF UpdateHotelRating, Goto, SyncInv, Held, TypeOK, InTx
  <1>2. \A j \in Runs \ {k} : pc[j] = "idle" /\ pc'[j] = "idle"
    BY <1>1, OthersIdle
  <1>3. \A j \in Runs : marked[j] = {}
    BY <1>1, <1>2 DEF SyncInv, Held
  <1>4. \A g \in Hotels, r \in Reviews :
          rating'[g][r] = IF g = H /\ r \in New THEN rating[g][r] + 1
                                                ELSE rating[g][r]
    <2>1. old[k] = rating[H]
      BY <1>1 DEF SyncInv, Steady
    <2>2. rating' = [rating EXCEPT ![H] = [r \in Reviews |->
                       rating[H][r] + IF r \in New THEN 1 ELSE 0]]
      BY <2>1 DEF UpdateHotelRating
    <2>3. \A r \in Reviews : rating[H][r] \in Nat
      BY <1>1
    <2>4. \A r \in Reviews : rating'[H][r] =
            rating[H][r] + IF r \in New THEN 1 ELSE 0
      BY <1>1, <2>2
    <2>5. \A g \in Hotels \ {H} : rating'[g] = rating[g]
      BY <1>1, <2>2
    <2> QED
      BY <2>3, <2>4, <2>5
  <1>5. \A g \in Hotels, r \in Reviews :
          rating[g][r] \in Nat /\ rating[g][r] <= rating'[g][r]
    BY <1>1, <1>4
  <1>6. Due'
    BY <1>1 DEF SyncInv, Due, Aggregated, Ahead, InTx, Patched, local
  <1>7. Steady'
    BY <1>1, <1>2 DEF Steady
  <1>8. Known'
    BY <1>1 DEF SyncInv, Known, Aggregated, InTx, local
  <1>9. Pushed'
    <2>1. \A r \in New : rating'[H][r] > 0
      BY <1>1, <1>4, <1>5 DEF Of
    <2> QED
      BY <1>1, <1>2, <1>3, <2>1 DEF Pushed, Patched, Of, local
  <1>10. Counted'
    <2>1. \A r \in New : r \notin synced /\ HotelOf[r] = H /\ ~ Open(r)
      BY <1>1, <1>2
      DEF SyncInv, Due, Aggregated, Ahead, InTx, Patched, Of, Open
    <2>2. \A r \in Reviews : Open(r)' <=> r \in New
      BY <1>1, <1>2 DEF Open, Patched, Of, local
    <2>3. \A r \in Reviews : ~ Open(r)
      BY <1>1, <1>2 DEF Open, Patched
    <2>4. \A r \in Reviews :
            /\ HotelOf[r] \in Hotels /\ interrupted[HotelOf[r]] \in Nat
            /\ rating[HotelOf[r]][r] <= 1 + interrupted[HotelOf[r]]
            /\ r \notin synced =>
                 rating[HotelOf[r]][r] <= interrupted[HotelOf[r]]
      BY <2>3, RatingSyncAssumption DEF SyncInv, Counted
    <2>5. ASSUME NEW r \in Reviews
          PROVE  /\ rating'[HotelOf[r]][r] <= 1 + interrupted[HotelOf[r]]
                 /\ r \notin synced /\ r \notin New =>
                      rating'[HotelOf[r]][r] <= interrupted[HotelOf[r]]
      <3>1. CASE r \in New
        BY <1>4, <1>5, <2>1, <2>4, <3>1
      <3>2. CASE r \notin New
        BY <1>4, <2>4, <3>2
      <3> QED
        BY <3>1, <3>2
    <2> QED
      BY <1>1, <2>2, <2>5 DEF SyncInv, Counted, history
  <1>11. LostOnlyInCutoffSecond'
    <2>1. \A r \in synced : r \in Reviews /\ HotelOf[r] \in Hotels
      BY RatingSyncAssumption DEF SyncInv, Held, TypeOK
    <2>2. \A r \in synced : rating'[HotelOf[r]][r] = 0
                              => rating[HotelOf[r]][r] = 0
      BY <1>5, <2>1, <1>4
    <2> QED
      BY <1>1, <2>2 DEF SyncInv, LostOnlyInCutoffSecond, history
  <1> QED
    BY <1>6, <1>7, <1>8, <1>9, <1>10, <1>11 DEF SyncInv

\* What is marked of the hotel is its whole aggregate, and the rest of it is of
\* the cutoff's second.
LEMMA MarkSyncs ==
  ASSUME SyncInv, Held', NEW k \in Runs, MarkReviewsAsSynced(k)
  PROVE  SyncInv'
  <1> DEFINE H == hotel[k]
  <1>1. /\ UNCHANGED <<store, now, cutoff, todo, aggs, hotel, old, history>>
        /\ pc[k] = "marking" /\ pc'[k] = "committing"
        /\ marked'[k] = Of(H, Pending(cutoff[k]))
        /\ \A j \in Runs \ {k} : pc'[j] = pc[j] /\ marked'[j] = marked[j]
    BY DEF MarkReviewsAsSynced, Goto, SyncInv, Held, TypeOK
  <1>2. Due'
    BY <1>1 DEF SyncInv, Due, Aggregated, Ahead, InTx, Patched, store
  <1>3. Steady'
    BY <1>1 DEF SyncInv, Steady, store
  <1>4. Known'
    BY <1>1 DEF SyncInv, Known, Aggregated, InTx, Patched, store
  <1>5. Pushed'
    <2>1. /\ cutoff[k] \in Nat /\ created \in [Reviews -> Int]
          /\ aggs[k] \subseteq Reviews
      BY DEF SyncInv, Held, TypeOK
    <2>2. \A r \in Of(H, Pending(cutoff[k])) :
            /\ HotelOf[r] = H /\ r \notin synced
            /\ r \in aggs[k] \/ created[r] = cutoff[k]
      BY <1>1, <2>1 DEF Of, Pending, SyncInv, Known, Aggregated, InTx, Patched
    <2>3. Of(H, aggs[k]) \subseteq Of(H, Pending(cutoff[k]))
      BY <1>1, <2>1
      DEF Of, Pending, SyncInv, Known, Due, Aggregated, Ahead, InTx, Patched
    <2> QED
      BY <1>1, <2>2, <2>3 DEF SyncInv, Pushed, Patched, Of, store
  <1>6. Counted'
    BY <1>1 DEF SyncInv, Counted, Open, Patched, Of, store, history
  <1>7. LostOnlyInCutoffSecond'
    BY <1>1 DEF SyncInv, LostOnlyInCutoffSecond, store, history
  <1> QED
    BY <1>2, <1>3, <1>4, <1>5, <1>6, <1>7 DEF SyncInv

\* What is synced is in the rating or of the cutoff's second, and nothing of the
\* hotels that are still to do.
LEMMA CommitSyncs ==
  ASSUME SyncInv, Held', OneRunAtATime, NEW k \in Runs, Commit(k)
  PROVE  SyncInv'
  <1> DEFINE H == hotel[k]
  <1>1. /\ UNCHANGED <<created, rating, now, cutoff, todo, aggs,
                       interrupted>>
        /\ pc[k] = "committing" /\ pc'[k] = "looping"
        /\ synced' = synced \cup marked[k]
        /\ marked[k] \subseteq Reviews /\ marked'[k] = {}
        /\ \A r \in Reviews : markedAt'[r] = IF r \in marked[k] THEN cutoff[k]
                                             ELSE markedAt[r]
        /\ \A j \in Runs \ {k} : /\ pc'[j] = pc[j] /\ hotel'[j] = hotel[j]
                                 /\ marked'[j] = marked[j]
        /\ H \in Hotels \ todo[k]
    BY DEF Commit, CloseTx, Goto, SyncInv, Held, TypeOK, InTx, Patched
  <1>2. \A j \in Runs \ {k} : pc'[j] = "idle" /\ marked'[j] = {}
    BY <1>1, OthersIdle
  <1>3. \A r \in marked[k] :
          HotelOf[r] = H /\ (r \in aggs[k] \/ created[r] = cutoff[k])
    BY DEF SyncInv, Pushed
  <1>4. Due'
    BY <1>1, <1>2, <1>3
    DEF SyncInv, Due, Aggregated, Ahead, InTx, Patched
  <1>5. Steady'
    BY <1>1, <1>2 DEF Steady
  <1>6. Known'
    BY <1>1, <1>2 DEF SyncInv, Known, Aggregated, InTx, Patched
  <1>7. Pushed'
    BY <1>1, <1>2 DEF Pushed, Patched
  <1>8. Counted'
    <2>1. \A r \in Reviews : r \notin synced' => ~ Open(r)
      <3>1. \A j \in Runs \ {k} : pc[j] = "idle"
        BY <1>1, OthersIdle
      <3>2. Of(H, aggs[k]) \subseteq synced'
        BY <1>1 DEF SyncInv, Pushed
      <3> QED
        BY <3>1, <3>2 DEF Open, Patched
    <2> QED
      BY <1>1, <2>1 DEF SyncInv, Counted
  <1>9. LostOnlyInCutoffSecond'
    <2>1. ASSUME NEW r \in synced', rating[HotelOf[r]][r] = 0
          PROVE  created[r] = markedAt'[r]
      <3>1. CASE r \in marked[k]
        <4>1. r \notin aggs[k]
          BY <1>1, <1>3, <2>1, <3>1 DEF SyncInv, Pushed, Patched, Of, Held, TypeOK
        <4> QED
          BY <1>1, <1>3, <3>1, <4>1
      <3>2. CASE r \notin marked[k]
        BY <1>1, <2>1, <3>2
        DEF SyncInv, LostOnlyInCutoffSecond, Held, TypeOK
      <3> QED
        BY <3>1, <3>2
    <2> QED
      BY <1>1, <2>1 DEF LostOnlyInCutoffSecond
  <1> QED
    BY <1>4, <1>5, <1>6, <1>7, <1>8, <1>9 DEF SyncInv

\* A hotel that fails is left; if its PATCH was through, that is one more PATCH
\* without its commit.
LEMMA FailSyncs ==
  ASSUME SyncInv, Held', OneRunAtATime, NEW k \in Runs, HotelFails(k)
  PROVE  SyncInv'
  <1> DEFINE H == hotel[k]
  <1>1. /\ UNCHANGED <<store, now, cutoff, todo, aggs, markedAt>>
        /\ pc[k] \in InTx /\ pc'[k] = "looping"
        /\ marked'[k] = {} /\ H \in Hotels
        /\ \A j \in Runs \ {k} : /\ pc'[j] = pc[j] /\ hotel'[j] = hotel[j]
                                 /\ marked'[j] = marked[j]
        /\ interrupted' = IF pc[k] \in Patched
                          THEN [interrupted EXCEPT ![H] = @ + 1]
                          ELSE interrupted
    BY DEF HotelFails, CloseTx, Goto, SyncInv, Held, TypeOK, store
  <1>2. \A j \in Runs \ {k} :
          pc[j] = "idle" /\ pc'[j] = "idle" /\ marked'[j] = {}
    BY <1>1, OthersIdle DEF InTx, Patched
  <1>3. Due'
    BY <1>1, <1>2 DEF SyncInv, Due, Aggregated, Ahead, InTx, Patched, store
  <1>4. Steady'
    BY <1>1, <1>2 DEF Steady
  <1>5. Known'
    BY <1>1, <1>2 DEF SyncInv, Known, Aggregated, InTx, Patched, store
  <1>6. Pushed'
    BY <1>1, <1>2 DEF Pushed, Patched
  <1>7. Counted'
    <2>1. interrupted \in [Hotels -> Nat] /\ interrupted' \in [Hotels -> Nat]
      BY <1>1 DEF SyncInv, Counted
    <2>2. \A r \in Reviews : Open(r) => pc[k] \in Patched /\ HotelOf[r] = H
      BY <1>2 DEF Open, Patched, Of
    <2>3. ASSUME NEW r \in Reviews
          PROVE  /\ rating[HotelOf[r]][r] <= 1 + interrupted'[HotelOf[r]]
                 /\ r \notin synced =>
                      rating[HotelOf[r]][r] <= interrupted'[HotelOf[r]]
      <3>1. /\ HotelOf[r] \in Hotels
            /\ rating[HotelOf[r]][r] \in Nat
        BY RatingSyncAssumption DEF SyncInv, Held, TypeOK
      <3>2. /\ rating[HotelOf[r]][r] <= 1 + interrupted[HotelOf[r]]
            /\ r \notin synced /\ ~ Open(r) =>
                 rating[HotelOf[r]][r] <= interrupted[HotelOf[r]]
        BY DEF SyncInv, Counted
      <3>3. CASE pc[k] \in Patched /\ HotelOf[r] = H
        <4>1. interrupted'[HotelOf[r]] = interrupted[HotelOf[r]] + 1
          BY <1>1, <2>1, <3>3
        <4> QED
          BY <2>1, <3>1, <3>2, <4>1
      <3>4. CASE ~ (pc[k] \in Patched /\ HotelOf[r] = H)
        <4>1. interrupted'[HotelOf[r]] = interrupted[HotelOf[r]]
          BY <1>1, <2>1, <3>1, <3>4
        <4> QED
          BY <2>2, <3>2, <3>4, <4>1
      <3> QED
        BY <3>3, <3>4
    <2> QED
      BY <1>1, <2>1, <2>3 DEF Counted, store
  <1>8. LostOnlyInCutoffSecond'
    BY <1>1 DEF SyncInv, LostOnlyInCutoffSecond, store
  <1> QED
    BY <1>3, <1>4, <1>5, <1>6, <1>7, <1>8 DEF SyncInv

\* A crash is that for the hotel at hand, and ends the run.
LEMMA CrashSyncs ==
  ASSUME SyncInv, Held', OneRunAtATime, Crash
  PROVE  SyncInv'
  <1> DEFINE At(h) == {k \in Runs : pc[k] \in Patched /\ hotel[k] = h}
  <1>1. /\ UNCHANGED <<store, now, markedAt>>
        /\ \A k \in Runs : /\ pc'[k] = "idle" /\ marked'[k] = {}
                           /\ cutoff'[k] = 0
        /\ interrupted' = [h \in Hotels |-> interrupted[h] + Cardinality(At(h))]
    BY DEF Crash, store
  <1>2. Due' /\ Steady' /\ Pushed'
    BY <1>1 DEF Due, Steady, Pushed, Aggregated, InTx, Patched
  <1>3. Known'
    BY <1>1 DEF SyncInv, Held, TypeOK, Known, Aggregated, InTx, Patched
  <1>4. Counted'
    <2>1. ASSUME NEW h \in Hotels
          PROVE  \/ At(h) = {} /\ Cardinality(At(h)) = 0
                 \/ At(h) # {} /\ Cardinality(At(h)) = 1
      <3>1. CASE At(h) = {}
        BY <3>1, FS_EmptySet
      <3>2. ASSUME NEW k \in At(h) PROVE Cardinality(At(h)) = 1
        <4>1. At(h) = {k}
          BY <3>2 DEF OneRunAtATime, Patched
        <4> QED
          BY <4>1, FS_Singleton
      <3> QED
        BY <3>1, <3>2
    <2>2. interrupted \in [Hotels -> Nat]
      BY DEF SyncInv, Counted
    <2>3. \A h \in Hotels : Cardinality(At(h)) \in {0, 1}
      BY <2>1
    <2>4. interrupted' \in [Hotels -> Nat]
      BY <1>1, <2>2, <2>3
    <2>5. ASSUME NEW r \in Reviews
          PROVE  /\ rating[HotelOf[r]][r] <= 1 + interrupted'[HotelOf[r]]
                 /\ r \notin synced =>
                      rating[HotelOf[r]][r] <= interrupted'[HotelOf[r]]
      <3>1. /\ HotelOf[r] \in Hotels
            /\ rating[HotelOf[r]][r] \in Nat
            /\ interrupted[HotelOf[r]] \in Nat
        BY RatingSyncAssumption DEF SyncInv, Held, TypeOK, Counted
      <3>2. /\ rating[HotelOf[r]][r] <= 1 + interrupted[HotelOf[r]]
            /\ r \notin synced /\ ~ Open(r) =>
                 rating[HotelOf[r]][r] <= interrupted[HotelOf[r]]
        BY DEF SyncInv, Counted
      <3>3. interrupted'[HotelOf[r]] =
              interrupted[HotelOf[r]] + Cardinality(At(HotelOf[r]))
        BY <1>1, <3>1
      <3>4. Open(r) => At(HotelOf[r]) # {}
        BY DEF Open, Of
      <3>5. /\ Cardinality(At(HotelOf[r])) \in {0, 1}
            /\ Open(r) => Cardinality(At(HotelOf[r])) = 1
        BY <2>1, <3>1, <3>4
      <3> HIDE DEF At
      <3> QED
        BY <3>1, <3>2, <3>3, <3>5
    <2> QED
      BY <1>1, <2>4, <2>5 DEF Counted, store
  <1>5. LostOnlyInCutoffSecond'
    BY <1>1 DEF SyncInv, LostOnlyInCutoffSecond, store
  <1> QED
    BY <1>2, <1>3, <1>4, <1>5 DEF SyncInv

\* Every step of a run that is alone keeps the invariant.
LEMMA SyncKept ==
  ASSUME SyncInv, OneRunAtATime, [Next]_vars
  PROVE  SyncInv'
  <1>1. Held'
    BY HeldKept DEF SyncInv
  <1>2. CASE UNCHANGED vars
    BY <1>1, <1>2
    DEF vars, store, lock, local, history, SyncInv, Due, Known, Steady, Pushed,
        Counted, LostOnlyInCutoffSecond, Aggregated, Ahead, Open, Of, InTx,
        Patched
  <1>3. CASE \/ (\E r \in Reviews : Create(r)) \/ ClockTicks \/ CalmDown
             \/ \E s \in Sessions : SessionCloses(s)
    BY <1>1, <1>3, WorldSyncs
  <1>4. CASE Crash
    BY <1>1, <1>4, CrashSyncs
  <1>5. ASSUME NEW k \in Runs, Proceed(k) PROVE SyncInv'
    BY <1>1, <1>5, LockSyncs, FetchSyncs, BeginSyncs, ReadSyncs, PatchSyncs,
       MarkSyncs, CommitSyncs DEF Proceed
  <1>6. ASSUME NEW k \in Runs, Break(k) PROVE SyncInv'
    BY <1>1, <1>6, LockSyncs, BeginSyncs, FailSyncs DEF Break
  <1> QED
    BY <1>2, <1>3, <1>4, <1>5, <1>6 DEF Next

\* While runs do not overlap, a review that is marked as synced and is not in
\* the rating was created in the very second of its run's cutoff.
THEOREM LossOfApartRuns ==
  Spec /\ []OneRunAtATime => []LostOnlyInCutoffSecond
  <1>1. SyncInv => LostOnlyInCutoffSecond
    BY DEF SyncInv
  <1> QED
    BY <1>1, SyncInitially, SyncKept, PTL DEF Spec

\* While runs do not overlap, a review counts twice only for a PATCH that went
\* through and was not committed, three times for two of them, and so on.
THEOREM CountOfApartRuns ==
  Spec /\ []OneRunAtATime => []CountedOncePerInterruption
  <1>1. SyncInv => CountedOncePerInterruption
    BY DEF SyncInv, Counted, CountedOncePerInterruption
  <1> QED
    BY <1>1, SyncInitially, SyncKept, PTL DEF Spec

=============================================================================
