------------------------ MODULE RoomGenerationProofs ------------------------
(***************************************************************************)
(* The worker makes no second row for a midnight, for every number of      *)
(* jobs, runs of the scheduler and crashes, and whatever clients post.     *)
(*                                                                         *)
(* A row is made two steps after it was found missing: in between nothing  *)
(* else makes it, for there is one worker and the dates it holds are of    *)
(* one category (NothingMade).  A day has one midnight (OneMidnight), so   *)
(* the set of missing dates has it once.  A job that begins at no midnight *)
(* finds no row and does make a second one; without such jobs there is     *)
(* none (OneRowOfMidnights).                                               *)
(*                                                                         *)
(* It leaves no day out: of a batch the worker is through with, each date  *)
(* has its row or is still among the missing (AtBatch).  And nothing it    *)
(* does opens a gap: every job in the queue or at work begins on a day     *)
(* with a row or on the day after one (Joined), and the dates that a batch *)
(* makes follow one another from there (Adjoined).                         *)
(***************************************************************************)
EXTENDS RoomGeneration, FiniteSetTheorems, TLAPS

JobSet == [category : Categories \cup {p.category : p \in Payloads},
           start : Int, end : Int, batch : Nat, stalls : 0 .. 1]

WorkSet == [job : JobSet, from : Int, cursor : Int, until : Int,
            missing : SUBSET Int]

Latest == [category : Categories, latest : Days, checked : BOOLEAN]

\* What the worker and the queue hold, more than TypeOK says of them
Held ==
  /\ queue \in Seq(JobSet)
  /\ worker \in WorkSet \cup {NoJob}
  /\ extending \in [Runners -> SUBSET Latest]
  /\ oddly \subseteq Categories \X Int
  /\ rows \in [Categories -> [Days -> Nat]]
  /\ running \in BOOLEAN /\ requested \in Nat /\ now \in Nat

\* A midnight that was found without a row has none yet
NothingMade ==
  worker # NoJob =>
    /\ worker \in WorkSet /\ worker.job.category \in Categories
    /\ IsFiniteSet(worker.missing)
    /\ \A t \in worker.missing : IsMidnight(t) /\ DayOf(t) \in Days =>
         rows[worker.job.category][DayOf(t)] = 0

RoomInv == Held /\ NothingMade /\ NoDuplicateRows

\* A day has one midnight.
LEMMA OneMidnight ==
  ASSUME NEW t \in Int, NEW u \in Int, IsMidnight(t), IsMidnight(u),
         DayOf(t) = DayOf(u)
  PROVE  t = u
  BY RoomGenerationAssumption DEF IsMidnight, DayOf

\* Dates have a day.
LEMMA DayType ==
  ASSUME NEW t \in Int
  PROVE  DayOf(t) \in Int
  BY RoomGenerationAssumption DEF DayOf

\* The dates of a day among finitely many are counted by a number.
LEMMA DatesOfDay ==
  ASSUME NEW M, IsFiniteSet(M), NEW d
  PROVE  /\ IsFiniteSet({t \in M : DayOf(t) = d})
         /\ Cardinality({t \in M : DayOf(t) = d}) \in Nat
  <1>1. IsFiniteSet({t \in M : DayOf(t) = d})
    BY FS_Subset
  <1> QED
    BY <1>1, FS_CardinalityType

\* The invariant holds at the start.
LEMMA RoomInitially == Init => RoomInv
  <1> SUFFICES ASSUME Init PROVE RoomInv
    OBVIOUS
  <1>1. Held
    BY RoomGenerationAssumption DEF Init, Held
  <1>2. NothingMade
    BY DEF Init, NothingMade
  <1>3. NoDuplicateRows
    BY RoomGenerationAssumption DEF Init, NoDuplicateRows
  <1> QED
    BY <1>1, <1>2, <1>3 DEF RoomInv

\* Steps that leave the worker and the table.
LEMMA RowsStay ==
  ASSUME RoomInv, UNCHANGED <<rows, oddly, worker>>, Held'
  PROVE  RoomInv'
  BY DEF RoomInv, NothingMade, NoDuplicateRows

\* Steps that give the worker a job without missing dates, or none.
LEMMA WorkerAnew ==
  ASSUME RoomInv, UNCHANGED <<rows, oddly>>, Held',
         \/ worker' = NoJob
         \/ worker'.missing = {} /\ worker'.job.category \in Categories
  PROVE  RoomInv'
  BY FS_EmptySet DEF RoomInv, Held, NothingMade, NoDuplicateRows

\* Jobs posted by clients.
LEMMA PostedKeeps ==
  ASSUME RoomInv, NEW p \in Payloads, GenerateRoomHandler(p)
  PROVE  RoomInv'
  <1>1. [category |-> p.category, start |-> p.start, end |-> p.end,
         batch |-> p.batch, stalls |-> 0] \in JobSet
    BY RoomGenerationAssumption DEF JobSet
  <1>2. Held'
    BY <1>1 DEF RoomInv, Held, GenerateRoomHandler
  <1> QED
    BY <1>2, RowsStay DEF GenerateRoomHandler

\* A run of the scheduler begins.
LEMMA ExtensionKeeps ==
  ASSUME RoomInv, NEW k \in Runners, ExtendRoomAvailability(k)
  PROVE  RoomInv'
  <1>1. FindLatestDatesForAllCategories \subseteq Latest
    BY DEF FindLatestDatesForAllCategories, Latest
  <1>2. Held'
    BY <1>1 DEF RoomInv, Held, ExtendRoomAvailability
  <1> QED
    BY <1>2, RowsStay DEF ExtendRoomAvailability

\* The next date of a category is looked for, queued, or given up.
LEMMA CategoryKeeps ==
  ASSUME RoomInv, NEW k \in Runners, NEW e \in extending[k],
         \/ CheckNextDate(k, e)
         \/ ExtendCategoryAvailability(k, e)
         \/ ExtendCategoryFails(k, e)
  PROVE  RoomInv'
  <1>1. e \in Latest
    BY DEF RoomInv, Held
  <1>2. CASE CheckNextDate(k, e)
    <2>1. [e EXCEPT !.checked = TRUE] \in Latest
      BY <1>1 DEF Latest
    <2>2. extending' \in [Runners -> SUBSET Latest]
      BY <1>2, <2>1 DEF RoomInv, Held, CheckNextDate
    <2>3. Held'
      BY <1>2, <2>2 DEF RoomInv, Held, CheckNextDate
    <2> QED
      BY <1>2, <2>3, RowsStay DEF CheckNextDate
  <1>3. CASE ExtendCategoryAvailability(k, e)
    <2>1. e.latest \in Int /\ NextDate(e) \in Int
      <3>a. e.latest \in Days
        BY <1>1 DEF Latest
      <3>b. e.latest \in Int
        BY <3>a, RoomGenerationAssumption, Zenon
      <3>c. Day \in Int
        BY RoomGenerationAssumption
      <3>1. e.latest + 1 \in Int
        BY <3>b
      <3>2. \A n, m \in Int : n * m \in Int
        OBVIOUS
      <3> QED
        BY <3>b, <3>c, <3>1, <3>2 DEF NextDate
    <2>2. [category |-> e.category, start |-> NextDate(e),
           end |-> NextDate(e) + Day, batch |-> 1, stalls |-> 0] \in JobSet
      BY <1>1, <2>1, RoomGenerationAssumption DEF JobSet, Latest
    <2>3. Held'
      BY <1>3, <2>2 DEF RoomInv, Held, ExtendCategoryAvailability
    <2> QED
      BY <1>3, <2>3, RowsStay DEF ExtendCategoryAvailability
  <1>4. CASE ExtendCategoryFails(k, e)
    <2>1. Held'
      BY <1>4 DEF RoomInv, Held, ExtendCategoryFails
    <2> QED
      BY <1>4, <2>1, RowsStay DEF ExtendCategoryFails
  <1> QED
    BY <1>2, <1>3, <1>4

\* The worker takes a job.
LEMMA TakenKeeps ==
  ASSUME RoomInv, GenerateRooms \/ RejectJob
  PROVE  RoomInv'
  <1>1. Head(queue) \in JobSet /\ Tail(queue) \in Seq(JobSet)
    BY DEF RoomInv, Held, GenerateRooms, RejectJob
  <1>2. CASE GenerateRooms
    <2>1. Batch(Head(queue), Head(queue).start) \in WorkSet
      BY <1>1, RoomGenerationAssumption DEF Batch, WorkSet, JobSet, Min2
    <2>2. Held'
      BY <1>1, <1>2, <2>1 DEF RoomInv, Held, GenerateRooms
    <2>3. worker'.missing = {} /\ worker'.job.category \in Categories
      BY <1>2 DEF GenerateRooms, Batch, Acceptable
    <2> QED
      BY <1>2, <2>2, <2>3, WorkerAnew DEF GenerateRooms
  <1>3. CASE RejectJob
    <2>1. Held'
      BY <1>1, <1>3 DEF RoomInv, Held, RejectJob
    <2> QED
      BY <1>3, <2>1, RowsStay DEF RejectJob
  <1> QED
    BY <1>2, <1>3

\* A date is looked for: it joins the missing ones when it has no row.
LEMMA CheckedKeeps ==
  ASSUME RoomInv, CheckDate
  PROVE  RoomInv'
  <1>1. worker \in WorkSet /\ worker.job.category \in Categories
        /\ IsFiniteSet(worker.missing)
    BY DEF RoomInv, NothingMade, CheckDate
  <1> DEFINE found ==
        FindByRoomCategoryIdAndDate(worker.job.category, worker.cursor)
  <1>2. worker' = [job |-> worker.job, from |-> worker.from,
                   cursor |-> worker.cursor + Day, until |-> worker.until,
                   missing |-> IF found THEN worker.missing
                               ELSE worker.missing \cup {worker.cursor}]
    BY <1>1 DEF CheckDate, WorkSet
  <1>3. worker' \in WorkSet
    BY <1>1, <1>2, RoomGenerationAssumption DEF WorkSet
  <1>4. IsFiniteSet(worker'.missing)
    BY <1>1, <1>2, FS_AddElement
  <1>5. Held'
    BY <1>3 DEF RoomInv, Held, CheckDate
  <1>6. \A t \in worker'.missing : IsMidnight(t) /\ DayOf(t) \in Days =>
          rows[worker.job.category][DayOf(t)] = 0
    <2>1. rows[worker.job.category] \in [Days -> Nat]
      BY <1>1 DEF RoomInv, Held
    <2>2. \A t \in worker.missing : IsMidnight(t) /\ DayOf(t) \in Days =>
            rows[worker.job.category][DayOf(t)] = 0
      BY DEF RoomInv, NothingMade, CheckDate
    <2>3. ~ found => (IsMidnight(worker.cursor) /\ DayOf(worker.cursor) \in Days
                      => rows[worker.job.category][DayOf(worker.cursor)] = 0)
      BY <2>1 DEF FindByRoomCategoryIdAndDate
    <2> QED
      BY <1>2, <2>2, <2>3
  <1>7. worker'.job = worker.job /\ UNCHANGED <<rows, oddly>>
    BY <1>2 DEF CheckDate
  <1> QED
    BY <1>1, <1>3, <1>4, <1>5, <1>6, <1>7
       DEF RoomInv, NothingMade, NoDuplicateRows

\* The missing rows are made: a day that has two was made for no midnight.
LEMMA MadeKeeps ==
  ASSUME RoomInv, BulkCreate
  PROVE  RoomInv'
  <1>1. worker \in WorkSet /\ worker.job.category \in Categories
        /\ IsFiniteSet(worker.missing) /\ worker.missing \subseteq Int
    BY DEF RoomInv, NothingMade, BulkCreate, BatchScanned, WorkSet
  <1> DEFINE at == worker.job.category
             of(d) == {t \in worker.missing : DayOf(t) = d}
  <1>2. \A d \in Days : IsFiniteSet(of(d)) /\ Cardinality(of(d)) \in Nat
    BY <1>1, DatesOfDay
  <1>3. rows[at] \in [Days -> Nat]
    BY <1>1 DEF RoomInv, Held
  <1>4. rows' = [rows EXCEPT ![at] =
                   [d \in Days |-> rows[at][d] + Cardinality(of(d))]]
    BY DEF BulkCreate, InsertMissing
  <1>5. oddly' = oddly \cup {<<at, DayOf(t)>> :
                               t \in {m \in worker.missing : ~ IsMidnight(m)}}
    BY DEF BulkCreate, InsertMissing
  <1>6. \A t \in worker.missing : DayOf(t) \in Int
    BY <1>1, DayType
  <1>7. worker' \in WorkSet /\ worker'.missing = {} /\ worker'.job = worker.job
    BY <1>1, RoomGenerationAssumption
       DEF BulkCreate, Batch, WorkSet, JobSet, Min2
  <1> HIDE DEF of
  <1>8. Held'
    <2>1. [d \in Days |-> rows[at][d] + Cardinality(of(d))] \in [Days -> Nat]
      BY <1>2, <1>3
    <2>2. rows' \in [Categories -> [Days -> Nat]]
      BY <1>1, <1>4, <2>1 DEF RoomInv, Held
    <2>3. oddly' \subseteq Categories \X Int
      BY <1>1, <1>5, <1>6 DEF RoomInv, Held
    <2> QED
      BY <1>7, <2>2, <2>3 DEF RoomInv, Held, BulkCreate
  <1>9. NothingMade'
    BY <1>1, <1>7, FS_EmptySet DEF NothingMade
  <1>10. NoDuplicateRows'
    <2> SUFFICES ASSUME NEW c \in Categories, NEW d \in Days,
                        rows'[c][d] > 1, <<c, d>> \notin oddly'
                 PROVE  FALSE
      BY DEF NoDuplicateRows
    <2>1. <<c, d>> \notin oddly
      BY <1>5
    <2>2. rows[c][d] \in Nat /\ ~ (rows[c][d] > 1)
      BY <2>1 DEF RoomInv, Held, NoDuplicateRows
    <2>3. c = at
      BY <1>4, <2>2 DEF RoomInv, Held
    <2>4. rows'[c][d] = rows[c][d] + Cardinality(of(d))
      BY <1>1, <1>4, <2>3 DEF RoomInv, Held
    <2>5. \A t \in of(d) : t \in worker.missing /\ IsMidnight(t) /\ DayOf(t) = d
      BY <1>5, <2>3 DEF of
    <2>6. CASE of(d) = {}
      BY <2>2, <2>4, <2>6, FS_EmptySet
    <2>7. CASE of(d) # {}
      <3>1. PICK t \in of(d) : TRUE
        BY <2>7
      <3>2. of(d) = {t}
        BY <1>1, <2>5, <3>1, OneMidnight
      <3>3. Cardinality(of(d)) = 1
        BY <3>2, FS_Singleton
      <3>4. rows[c][d] = 0
        BY <2>3, <2>5, <3>1 DEF RoomInv, NothingMade, BulkCreate, BatchScanned
      <3> QED
        BY <2>4, <3>3, <3>4
    <2> QED
      BY <2>6, <2>7
  <1> QED
    BY <1>8, <1>9, <1>10 DEF RoomInv

\* A job ends, or its worker dies: it may come back, without what it had found.
LEMMA EndedKeeps ==
  ASSUME RoomInv, CompleteJob \/ FailJob \/ Crash
  PROVE  RoomInv'
  <1>1. queue' \in Seq(JobSet)
    <2>1. CASE CompleteJob \/ FailJob
      BY <2>1 DEF RoomInv, Held, CompleteJob, FailJob
    <2>2. CASE Crash
      <3>1. ASSUME worker # NoJob
            PROVE  [worker.job EXCEPT !.stalls = 1] \in JobSet
        <4>1. worker.job \in JobSet
          BY <3>1 DEF RoomInv, Held, WorkSet
        <4> QED
          BY <4>1 DEF JobSet
      <3>2. CASE worker # NoJob /\ worker.job.stalls = 0
        <4> DEFINE again == [worker.job EXCEPT !.stalls = 1]
        <4>1. again \in JobSet /\ queue' = <<again>> \o queue
          BY <2>2, <3>1, <3>2 DEF Crash
        <4> HIDE DEF again
        <4>2. <<again>> \in Seq(JobSet)
          BY <4>1
        <4> QED
          BY <4>1, <4>2 DEF RoomInv, Held
      <3>3. CASE ~ (worker # NoJob /\ worker.job.stalls = 0)
        BY <2>2, <3>3 DEF RoomInv, Held, Crash
      <3> QED
        BY <3>2, <3>3
    <2> QED
      BY <2>1, <2>2
  <1>2. Held' /\ worker' = NoJob /\ UNCHANGED <<rows, oddly>>
    BY <1>1 DEF RoomInv, Held, CompleteJob, FailJob, Crash
  <1> QED
    BY <1>2, WorkerAnew

\* Every step keeps the invariant.
LEMMA RoomInductive ==
  ASSUME RoomInv, [Next]_vars
  PROVE  RoomInv'
  <1>1. CASE UNCHANGED vars
    <2>1. Held'
      BY <1>1 DEF RoomInv, Held, vars
    <2> QED
      BY <1>1, <2>1, RowsStay DEF vars
  <1>2. CASE StartScheduler \/ StopScheduler \/ ClockAdvances
    <2>1. Held'
      <3>1. CASE StartScheduler
        BY <3>1 DEF RoomInv, Held, StartScheduler
      <3>2. CASE StopScheduler
        BY <3>2 DEF RoomInv, Held, StopScheduler
      <3>3. CASE ClockAdvances
        BY <3>3 DEF RoomInv, Held, ClockAdvances
      <3> QED
        BY <1>2, <3>1, <3>2, <3>3
    <2> QED
      BY <1>2, <2>1, RowsStay DEF StartScheduler, StopScheduler, ClockAdvances
  <1>3. CASE Extend
    BY <1>3, ExtensionKeeps, CategoryKeeps DEF Extend
  <1>4. CASE Work
    BY <1>4, TakenKeeps, CheckedKeeps, MadeKeeps, EndedKeeps DEF Work
  <1> QED
    BY <1>1, <1>2, <1>3, <1>4, PostedKeeps, EndedKeeps DEF Next

\* The invariant holds in every behaviour.
THEOREM RoomsInductive == Spec => []RoomInv
  BY RoomInitially, RoomInductive, PTL DEF Spec

\* The table, the queue, the worker and the runs of the scheduler keep their
\* types.
THEOREM RoomTypes == Spec => []TypeOK
  <1>1. RoomInv => TypeOK
    <2> SUFFICES ASSUME RoomInv PROVE TypeOK
      OBVIOUS
    <2>1. \A i \in DOMAIN queue : JobOK(queue[i])
      <3>1. \A i \in DOMAIN queue : queue[i] \in JobSet
        BY DEF RoomInv, Held
      <3>2. \A j \in JobSet : JobOK(j)
        BY DEF JobSet, JobOK
      <3> QED
        BY <3>1, <3>2
    <2>2. worker # NoJob =>
            /\ JobOK(worker.job) /\ worker.job.category \in Categories
            /\ worker.from \in Int /\ worker.cursor \in Int
            /\ worker.until \in Int /\ worker.missing \subseteq Int
      BY DEF RoomInv, NothingMade, WorkSet, JobSet, JobOK
    <2> QED
      BY <2>1, <2>2 DEF RoomInv, Held, Latest, TypeOK
  <1> QED
    BY <1>1, RoomsInductive, PTL

\* No category has two rows for a day, unless a job whose dates are no
\* midnights made one: for all jobs, overlaps of them and crashes.
THEOREM NoSecondRow == Spec => []NoDuplicateRows
  <1>1. RoomInv => NoDuplicateRows
    BY DEF RoomInv
  <1> QED
    BY <1>1, RoomsInductive, PTL

----------------------------------------------------------------------------
(* Days and dates *)

\* The date n days after another is of the day n days after its.
LEMMA DayShift ==
  ASSUME NEW t \in Int, NEW n \in Int
  PROVE  n * Day \in Int /\ DayOf(t + n * Day) = DayOf(t) + n
  BY RoomGenerationAssumption DEF DayOf

\* Later dates have later days.
LEMMA DayGrows ==
  ASSUME NEW t \in Int, NEW u \in Int, t <= u
  PROVE  DayOf(t) \in Int /\ DayOf(u) \in Int /\ DayOf(t) <= DayOf(u)
  BY RoomGenerationAssumption DEF DayOf

\* Instants that are whole days apart.
LEMMA WholeDays ==
  ASSUME NEW t \in Int
  PROVE  /\ t % Day = 0 => t = DayOf(t) * Day
         /\ \A n \in Int : t = n * Day => t % Day = 0
  <1>1. t % Day = t - DayOf(t) * Day /\ DayOf(0) = 0
    BY RoomGenerationAssumption DEF DayOf
  <1>2. \A n \in Int : n * Day \in Int /\ DayOf(0 + n * Day) = DayOf(0) + n
    BY DayShift
  <1>3. DayOf(t) * Day \in Int
    BY <1>2, DayType
  <1>4. ASSUME NEW n \in Int, t = n * Day PROVE t % Day = 0
    <2>1. DayOf(t) = n
      BY <1>1, <1>2, <1>4
    <2> QED
      BY <1>1, <1>4, <2>1
  <1> QED
    BY <1>1, <1>3, <1>4

\* Days are added and subtracted as their numbers are, and keep their order.
LEMMA DaysAdd ==
  ASSUME NEW a \in Int, NEW b \in Int
  PROVE  /\ (a + b) * Day = a * Day + b * Day
         /\ (a - b) * Day = a * Day - b * Day
         /\ a * Day < b * Day => a < b
         /\ a < b => a * Day < b * Day
  BY RoomGenerationAssumption

\* Jobs whose dates the table can hold
InCalendar(j) == DayOf(j.start) \in Days /\ DayOf(j.end) \in Days
CalendarJob == {j \in JobSet : InCalendar(j)}

\* Date n of the batch at hand
Date(n) == worker.from + n * Day
HasRow(n) == rows[worker.job.category][DayOf(Date(n))] > 0

\* The batch at hand begins whole days after the job; its first dates, the
\* first m, have been looked for and are missing or have a row
Scanned(m) ==
  /\ worker.cursor = worker.from + m * Day
  /\ \A n \in 0 .. m - 1 :
       /\ Date(n) <= worker.until
       /\ Date(n) \in worker.missing \/ HasRow(n)
  /\ \A t \in worker.missing : \E n \in 0 .. m - 1 : t = Date(n)

AtBatch ==
  worker # NoJob =>
    /\ worker.job.start < worker.job.end
    /\ worker.job.start <= worker.from
    /\ worker.until = Min2(worker.from + worker.job.batch * Day, worker.job.end)
    /\ worker.from < worker.job.end =>
         \E n \in Nat : worker.from = worker.job.start + n * Day
    /\ \E m \in Nat : Scanned(m)

OnCalendar ==
  /\ queue \in Seq(CalendarJob)
  /\ worker # NoJob => worker.job \in CalendarJob

BatchInv == RoomInv /\ OnCalendar /\ AtBatch /\ BatchesCovered

----------------------------------------------------------------------------
(* What the worker has behind it *)

\* The dates of a job the calendar holds are in it.
LEMMA DatesInCalendar ==
  ASSUME CalendarHolds, NEW j \in CalendarJob, NEW t \in Int,
         j.start <= t, t <= j.end
  PROVE  DayOf(t) \in Days
  <1>1. /\ DayOf(t) \in Int
        /\ DayOf(j.start) <= DayOf(t) /\ DayOf(t) <= DayOf(j.end)
        /\ DayOf(j.start) \in Int /\ DayOf(j.end) \in Int
    BY DayGrows DEF CalendarJob, JobSet
  <1>2. DayOf(j.start) .. DayOf(j.end) \subseteq Days
    BY DEF CalendarHolds, CalendarJob, InCalendar
  <1> QED
    BY <1>1, <1>2

\* After an INSERT the days with rows are the earlier ones and the missing ones.
LEMMA Filled ==
  ASSUME RoomInv, BulkCreate, NEW c \in Categories, NEW d \in Days
  PROVE  rows'[c][d] > 0 <=>
           \/ rows[c][d] > 0
           \/ /\ c = worker.job.category
              /\ \E t \in worker.missing : DayOf(t) = d
  <1> DEFINE at == worker.job.category
             of == {t \in worker.missing : DayOf(t) = d}
  <1>1. worker.job.category \in Categories /\ IsFiniteSet(worker.missing)
    BY DEF RoomInv, NothingMade, BulkCreate, BatchScanned
  <1>2. rows \in [Categories -> [Days -> Nat]]
    BY DEF RoomInv, Held
  <1>3. IsFiniteSet(of) /\ Cardinality(of) \in Nat
    BY <1>1, DatesOfDay
  <1>4. rows'[c][d] = IF c = at THEN rows[c][d] + Cardinality(of)
                                ELSE rows[c][d]
    BY <1>1, <1>2 DEF BulkCreate, InsertMissing
  <1>5. Cardinality(of) > 0 <=> \E t \in worker.missing : DayOf(t) = d
    <2>1. Cardinality(of) = 0 <=> of = {}
      BY <1>3, FS_EmptySet
    <2> QED
      BY <1>3, <2>1
  <1> QED
    BY <1>2, <1>3, <1>4, <1>5

\* No step takes the last row of a day away.
LEMMA RowsKept ==
  ASSUME RoomInv, [Next]_vars, NEW c \in Categories, NEW d \in Days,
         rows[c][d] > 0
  PROVE  rows'[c][d] > 0
  <1>1. CASE BulkCreate
    BY <1>1, Filled
  <1>2. CASE ~ BulkCreate
    <2>1. UNCHANGED rows
      BY <1>2
      DEF Next, Extend, Work, vars, GenerateRoomHandler, StartScheduler,
          StopScheduler, ExtendRoomAvailability, CheckNextDate,
          ExtendCategoryAvailability, ExtendCategoryFails, GenerateRooms,
          RejectJob, CheckDate, CompleteJob, FailJob, Crash, ClockAdvances
    <2> QED
      BY <2>1
  <1> QED
    BY <1>1, <1>2

\* The jobs in the queue come from clients, the scheduler and stalled workers.
LEMMA CalendarKept ==
  ASSUME CalendarHolds, RoomInv, OnCalendar, [Next]_vars
  PROVE  OnCalendar'
  <1>1. queue \in Seq(CalendarJob)
    BY DEF OnCalendar
  <1>2. ASSUME NEW p \in Payloads, GenerateRoomHandler(p) PROVE OnCalendar'
    <2> DEFINE j == [category |-> p.category, start |-> p.start,
                     end |-> p.end, batch |-> p.batch, stalls |-> 0]
    <2>1. j \in CalendarJob
      BY RoomGenerationAssumption
      DEF CalendarHolds, CalendarJob, InCalendar, JobSet
    <2> HIDE DEF j
    <2>2. queue' = Append(queue, j)
      BY <1>2 DEF GenerateRoomHandler, j
    <2> QED
      BY <1>1, <1>2, <2>1, <2>2 DEF GenerateRoomHandler, OnCalendar
  <1>3. ASSUME NEW k \in Runners, NEW e \in extending[k],
               ExtendCategoryAvailability(k, e)
        PROVE  OnCalendar'
    <2> DEFINE j == [category |-> e.category, start |-> NextDate(e),
                     end |-> NextDate(e) + Day, batch |-> 1, stalls |-> 0]
    <2>1. e \in Latest
      BY DEF RoomInv, Held
    <2>2. e.latest \in Days /\ e.latest + 2 \in Days /\ e.latest \in Int
      BY <1>3, <2>1, RoomGenerationAssumption
      DEF Latest, ExtendCategoryAvailability
    <2>3. e.latest + 1 \in Days
      <3>1. e.latest .. e.latest + 2 \subseteq Days
        BY <2>2 DEF CalendarHolds
      <3> QED
        BY <2>2, <3>1
    <2>4. /\ NextDate(e) \in Int /\ DayOf(NextDate(e)) = e.latest + 1
          /\ DayOf(NextDate(e) + Day) = e.latest + 2
      <3>a. \A n \in Int : n * Day \in Int /\ DayOf(0 + n * Day) = DayOf(0) + n
        BY DayShift
      <3>b. e.latest + 1 \in Int /\ e.latest + 2 \in Int
        BY <2>2
      <3>1. /\ (e.latest + 1) * Day \in Int /\ (e.latest + 2) * Day \in Int
            /\ DayOf(0 + (e.latest + 1) * Day) = DayOf(0) + (e.latest + 1)
            /\ DayOf(0 + (e.latest + 2) * Day) = DayOf(0) + (e.latest + 2)
        BY <3>a, <3>b
      <3>2. DayOf(0) = 0
        BY RoomGenerationAssumption DEF DayOf
      <3>3. (e.latest + 2) * Day = (e.latest + 1) * Day + Day
        BY <2>2, RoomGenerationAssumption
      <3> QED
        BY <2>2, <3>1, <3>2, <3>3 DEF NextDate
    <2>5. j \in CalendarJob
      BY <2>1, <2>2, <2>3, <2>4, RoomGenerationAssumption
      DEF CalendarJob, InCalendar, JobSet, Latest
    <2> HIDE DEF j
    <2>6. queue' = Append(queue, j)
      BY <1>3 DEF ExtendCategoryAvailability, j
    <2> QED
      BY <1>1, <1>3, <2>5, <2>6 DEF ExtendCategoryAvailability, OnCalendar
  <1>4. CASE GenerateRooms \/ RejectJob
    BY <1>1, <1>4 DEF GenerateRooms, RejectJob, Batch, OnCalendar
  <1>5. CASE CheckDate
    <2>1. worker' # NoJob => worker'.job = worker.job
      BY <1>5 DEF CheckDate, RoomInv, NothingMade, WorkSet
    <2> QED
      BY <1>1, <1>5, <2>1 DEF CheckDate, OnCalendar
  <1>6. CASE BulkCreate
    BY <1>1, <1>6 DEF BulkCreate, BatchScanned, Batch, OnCalendar
  <1>7. CASE Crash
    <2> DEFINE again == [worker.job EXCEPT !.stalls = 1]
    <2>1. ASSUME worker # NoJob PROVE again \in CalendarJob
      <3>1. worker.job \in JobSet /\ InCalendar(worker.job)
        BY <2>1 DEF OnCalendar, CalendarJob
      <3>2. /\ again \in JobSet
            /\ again.start = worker.job.start /\ again.end = worker.job.end
        BY <3>1 DEF JobSet
      <3> HIDE DEF again
      <3> QED
        BY <3>1, <3>2 DEF CalendarJob, InCalendar
    <2>2. queue' = IF worker # NoJob /\ worker.job.stalls = 0
                   THEN <<again>> \o queue ELSE queue
      BY <1>7 DEF Crash
    <2> HIDE DEF again
    <2>3. worker # NoJob => <<again>> \in Seq(CalendarJob)
      BY <2>1
    <2>4. queue' \in Seq(CalendarJob)
      BY <1>1, <2>2, <2>3
    <2> QED
      BY <1>7, <2>4 DEF Crash, OnCalendar
  <1>8. CASE CompleteJob \/ FailJob
    BY <1>1, <1>8 DEF CompleteJob, FailJob, OnCalendar
  <1>9. CASE UNCHANGED <<queue, worker>>
    BY <1>9 DEF OnCalendar
  <1> QED
    BY <1>2, <1>3, <1>4, <1>5, <1>6, <1>7, <1>8, <1>9
    DEF Next, Extend, Work, vars, StartScheduler, StopScheduler,
        ExtendRoomAvailability, CheckNextDate, ExtendCategoryFails,
        ClockAdvances

\* A job begins with its first batch, of which nothing is scanned.
LEMMA TakenBatch ==
  ASSUME RoomInv, Held', GenerateRooms
  PROVE  AtBatch' /\ BatchesCovered'
  <1> DEFINE j == Head(queue)
  <1>1. j \in JobSet /\ j.start < j.end
    BY DEF RoomInv, Held, GenerateRooms, Acceptable
  <1>2. /\ worker'.job = j /\ worker'.from = j.start /\ worker'.cursor = j.start
        /\ worker'.missing = {}
        /\ worker'.until = Min2(j.start + j.batch * Day, j.end)
    BY DEF GenerateRooms, Batch
  <1> HIDE DEF j
  <1>3. j.start \in Int /\ 0 * Day = 0
    BY <1>1, RoomGenerationAssumption DEF JobSet
  <1>4. Scanned(0)'
    BY <1>2, <1>3 DEF Scanned
  <1>5. j.start = j.start + 0 * Day
    BY <1>3
  <1>6. AtBatch'
    BY <1>1, <1>2, <1>3, <1>4, <1>5 DEF AtBatch
  <1>7. BatchesCovered'
    BY <1>2, <1>3 DEF BatchesCovered
  <1> QED
    BY <1>6, <1>7

\* The date looked for is the one after those that were.
LEMMA CheckedBatch ==
  ASSUME RoomInv, AtBatch, BatchesCovered, CheckDate
  PROVE  AtBatch' /\ BatchesCovered'
  <1> DEFINE found ==
        FindByRoomCategoryIdAndDate(worker.job.category, worker.cursor)
  <1>1. worker \in WorkSet /\ worker # NoJob /\ worker.cursor <= worker.until
    BY DEF RoomInv, NothingMade, CheckDate
  <1>2. worker' = [job |-> worker.job, from |-> worker.from,
                   cursor |-> worker.cursor + Day, until |-> worker.until,
                   missing |-> IF found THEN worker.missing
                               ELSE worker.missing \cup {worker.cursor}]
    BY <1>1 DEF CheckDate, WorkSet
  <1>3. /\ worker'.job = worker.job /\ worker'.from = worker.from
        /\ worker'.until = worker.until
        /\ worker'.cursor = worker.cursor + Day
        /\ worker.missing \subseteq worker'.missing
        /\ worker'.missing \subseteq worker.missing \cup {worker.cursor}
        /\ worker.cursor \in worker'.missing \/ found
        /\ UNCHANGED rows
    BY <1>2 DEF CheckDate
  <1>4. PICK m \in Nat : Scanned(m)
    BY <1>1 DEF AtBatch
  <1>5. worker.cursor = worker.from + m * Day /\ worker.from \in Int
    BY <1>1, <1>4 DEF Scanned, WorkSet
  <1>6. found => rows[worker.job.category][DayOf(worker.cursor)] > 0
    BY DEF FindByRoomCategoryIdAndDate
  <1> HIDE DEF found
  <1>7. Scanned(m + 1)'
    <2>1. worker'.cursor = worker'.from + (m + 1) * Day
      <3>1. m * Day \in Int /\ (m + 1) * Day = m * Day + 1 * Day
        BY DayShift, DaysAdd
      <3>2. 1 * Day = Day /\ Day \in Int
        BY RoomGenerationAssumption
      <3> QED
        BY <1>3, <1>5, <3>1, <3>2
    <2>2. ASSUME NEW n \in 0 .. m
          PROVE  /\ worker.from + n * Day <= worker.until
                 /\ \/ worker.from + n * Day \in worker'.missing
                    \/ rows[worker.job.category]
                           [DayOf(worker.from + n * Day)] > 0
      <3>1. CASE n = m
        BY <1>1, <1>3, <1>5, <1>6, <3>1
      <3>2. CASE n # m
        <4>1. n \in 0 .. m - 1
          BY <3>2
        <4> QED
          BY <1>3, <1>4, <4>1 DEF Scanned, Date, HasRow
      <3> QED
        BY <3>1, <3>2
    <2>3. ASSUME NEW t \in worker'.missing
          PROVE  \E n \in 0 .. m : t = worker.from + n * Day
      <3>1. CASE t \in worker.missing
        <4>1. 0 .. m - 1 \subseteq 0 .. m
          OBVIOUS
        <4> QED
          BY <1>4, <3>1, <4>1 DEF Scanned, Date
      <3>2. CASE t = worker.cursor
        BY <1>5, <3>2
      <3> QED
        BY <1>3, <3>1, <3>2
    <2>4. (m + 1) - 1 = m
      OBVIOUS
    <2> QED
      BY <1>3, <2>1, <2>2, <2>3, <2>4 DEF Scanned, Date, HasRow
  <1>8. AtBatch'
    <2>1. m + 1 \in Nat
      OBVIOUS
    <2> QED
      BY <1>1, <1>3, <1>7, <2>1 DEF AtBatch
  <1>9. BatchesCovered'
    BY <1>1, <1>3 DEF BatchesCovered
  <1> QED
    BY <1>8, <1>9

\* The batch that is done has a row for each of its dates.
LEMMA BatchFilled ==
  ASSUME CalendarHolds, RoomInv, OnCalendar, AtBatch, BulkCreate,
         NEW m \in Nat, Scanned(m), NEW n \in 0 .. m - 1
  PROVE  /\ DayOf(worker.from) + n \in Days
         /\ rows'[worker.job.category][DayOf(worker.from) + n] > 0
  <1>1. /\ worker \in WorkSet /\ worker # NoJob
        /\ worker.job.category \in Categories /\ worker.job \in CalendarJob
    BY DEF RoomInv, NothingMade, OnCalendar, BulkCreate, BatchScanned
  <1>2. worker.from \in Int /\ n \in Int /\ n >= 0
    BY <1>1 DEF WorkSet
  <1>3. Date(n) \in Int /\ DayOf(Date(n)) = DayOf(worker.from) + n
    <2>1. /\ n * Day \in Int
          /\ DayOf(worker.from + n * Day) = DayOf(worker.from) + n
      BY <1>2, DayShift
    <2> QED
      BY <1>2, <2>1 DEF Date
  <1>4. Date(n) <= worker.until
    BY DEF Scanned
  <1>5. worker.job.start <= Date(n) /\ Date(n) <= worker.job.end
    <2>1. n * Day \in Nat
      BY <1>2, RoomGenerationAssumption
    <2>2. /\ worker.job.start <= worker.from
          /\ worker.until = Min2(worker.from + worker.job.batch * Day,
                                 worker.job.end)
          /\ worker.from < worker.job.end
      BY <1>1 DEF AtBatch, BulkCreate, BatchScanned
    <2>3. worker.job.start \in Int /\ worker.job.end \in Int
          /\ worker.until \in Int /\ worker.until <= worker.job.end
      <3>1. /\ worker.job.start \in Int /\ worker.job.end \in Int
            /\ worker.job.batch \in Int /\ worker.until \in Int
        BY <1>1 DEF WorkSet, JobSet
      <3>2. worker.job.batch * Day \in Int
        BY <3>1, DayShift
      <3> QED
        BY <1>2, <2>2, <3>1, <3>2 DEF Min2
    <2>4. worker.from <= Date(n)
      BY <1>2, <2>1 DEF Date
    <2> QED
      BY <1>2, <1>3, <1>4, <2>2, <2>3, <2>4
  <1>6. DayOf(Date(n)) \in Days
    BY <1>1, <1>3, <1>5, DatesInCalendar
  <1>7. Date(n) \in worker.missing \/ HasRow(n)
    BY DEF Scanned
  <1> QED
    BY <1>1, <1>3, <1>6, <1>7, Filled DEF HasRow

\* The next batch begins with the last date of this one, and every date up to
\* there has its row.
LEMMA NextBatch ==
  ASSUME CalendarHolds, RoomInv, OnCalendar, AtBatch, BatchesCovered, Held',
         BulkCreate
  PROVE  AtBatch' /\ BatchesCovered'
  <1> DEFINE j == worker.job
             f == worker.from
             u == worker.until
             c == worker.job.category
  <1>1. /\ worker \in WorkSet /\ worker # NoJob
        /\ c \in Categories /\ j \in CalendarJob /\ j \in JobSet
        /\ f < j.end /\ u < worker.cursor
    BY DEF RoomInv, NothingMade, OnCalendar, CalendarJob, BulkCreate,
           BatchScanned
  <1>2. /\ j.start \in Int /\ j.end \in Int /\ j.batch \in Nat
        /\ f \in Int /\ u \in Int /\ worker.cursor \in Int
    BY <1>1 DEF WorkSet, JobSet
  <1>3. /\ worker'.job = j /\ worker'.from = u /\ worker'.cursor = u
        /\ worker'.missing = {}
        /\ worker'.until = Min2(u + j.batch * Day, j.end)
    BY DEF BulkCreate, Batch
  <1>4. /\ j.start < j.end /\ j.start <= f
        /\ u = Min2(f + j.batch * Day, j.end)
    BY <1>1 DEF AtBatch
  <1>5. PICK b \in Nat : f = j.start + b * Day
    BY <1>1 DEF AtBatch
  <1>6. PICK m \in Nat : Scanned(m)
    BY <1>1 DEF AtBatch
  <1>7. worker.cursor = f + m * Day
    BY <1>6 DEF Scanned
  <1>8. \A n \in 0 .. m - 1 :
          DayOf(f) + n \in Days /\ rows'[c][DayOf(f) + n] > 0
    BY <1>6, BatchFilled
  <1> HIDE DEF j, f, u, c
  <1>9. j.batch * Day \in Nat /\ b * Day \in Nat
    BY <1>2, RoomGenerationAssumption
  <1>10. f <= u /\ u <= j.end
    BY <1>1, <1>2, <1>4, <1>9 DEF Min2
  <1>11. AtBatch'
    <2>1. u < j.end => \E n \in Nat : u = j.start + n * Day
      <3> SUFFICES ASSUME u < j.end
                   PROVE  u = j.start + (b + j.batch) * Day
        BY <1>2
      <3>1. u = f + j.batch * Day
        BY <1>2, <1>4, <1>9 DEF Min2
      <3>2. (b + j.batch) * Day = b * Day + j.batch * Day
        <4>1. b \in Int /\ j.batch \in Int
          BY <1>2
        <4> QED
          BY <4>1, DaysAdd
      <3> QED
        BY <1>2, <1>5, <1>9, <3>1, <3>2
    <2>2. Scanned(0)'
      <3>1. u = u + 0 * Day
        BY <1>2, RoomGenerationAssumption
      <3> QED
        BY <1>3, <3>1 DEF Scanned
    <2>3. j.start <= u
      BY <1>2, <1>4, <1>10
    <2> QED
      BY <1>3, <1>4, <2>1, <2>2, <2>3 DEF AtBatch
  <1>12. BatchesCovered'
    <2> SUFFICES ASSUME NEW t \in j.start .. Min2(u, j.end),
                        (t - j.start) % Day = 0
                 PROVE  rows'[c][DayOf(t)] > 0
      BY <1>3 DEF BatchesCovered, j, c
    <2>1. t \in Int /\ j.start <= t /\ t <= u /\ t <= j.end
      BY <1>2, <1>10 DEF Min2
    <2>2. CASE t < f
      <3>1. t \in j.start .. Min2(f, j.end) /\ f > j.start
        BY <1>1, <1>2, <2>1, <2>2 DEF Min2
      <3>2. rows[c][DayOf(t)] > 0
        BY <1>1, <3>1 DEF BatchesCovered, j, f, c
      <3>3. DayOf(t) \in Days
        BY <1>1, <2>1, DatesInCalendar
      <3> QED
        BY <1>1, <3>2, <3>3, Filled
    <2>3. CASE ~ (t < f)
      <3> DEFINE q == DayOf(t - j.start)
                 n == q - b
      <3>1. q \in Int /\ t - j.start = q * Day
        BY <1>2, <2>1, WholeDays, DayType
      <3> HIDE DEF q
      <3>2. n \in Int /\ n * Day \in Int /\ n * Day = q * Day - b * Day
        <4>1. q \in Int /\ b \in Int /\ n \in Int
          BY <3>1
        <4>2. (q - b) * Day = q * Day - b * Day
          BY <4>1, DaysAdd
        <4>3. \A a \in Int : a * Day \in Int
          BY DayShift
        <4> QED
          BY <4>1, <4>2, <4>3
      <3>3. t = f + n * Day
        BY <1>2, <1>5, <1>9, <2>1, <3>1, <3>2
      <3> HIDE DEF n
      <3>4. n \in 0 .. m - 1
        <4>1. m * Day \in Int /\ 0 * Day = 0 /\ -1 \in Int
              /\ (-1) * Day = - Day
          BY DayShift, RoomGenerationAssumption
        <4>2. n * Day < m * Day
          BY <1>1, <1>2, <1>7, <2>1, <3>2, <3>3, <4>1 DEF u
        <4>3. n < m
          BY <3>2, <4>2, DaysAdd
        <4>4. (-1) * Day < n * Day
          BY <1>2, <2>1, <2>3, <3>2, <3>3, <4>1, RoomGenerationAssumption
        <4>5. -1 < n
          BY <3>2, <4>1, <4>4, DaysAdd
        <4> QED
          BY <3>2, <4>3, <4>5
      <3>5. DayOf(t) = DayOf(f) + n
        BY <1>2, <3>2, <3>3, DayShift
      <3> QED
        BY <1>8, <3>4, <3>5
    <2> QED
      BY <2>2, <2>3
  <1> QED
    BY <1>11, <1>12

\* Every step keeps the invariant of the batches.
LEMMA BatchInductive ==
  ASSUME CalendarHolds, BatchInv, [Next]_vars
  PROVE  BatchInv'
  <1>1. RoomInv' /\ OnCalendar'
    BY RoomInductive, CalendarKept DEF BatchInv
  <1>2. CASE worker' = NoJob
    BY <1>1, <1>2 DEF BatchInv, AtBatch, BatchesCovered
  <1>3. CASE UNCHANGED <<rows, worker>>
    BY <1>1, <1>3
    DEF BatchInv, AtBatch, BatchesCovered, Scanned, Date, HasRow
  <1>4. CASE GenerateRooms
    BY <1>1, <1>4, TakenBatch DEF BatchInv, RoomInv
  <1>5. CASE CheckDate
    BY <1>1, <1>5, CheckedBatch DEF BatchInv
  <1>6. CASE BulkCreate
    BY <1>1, <1>6, NextBatch DEF BatchInv, RoomInv
  <1> QED
    BY <1>2, <1>3, <1>4, <1>5, <1>6
    DEF Next, Extend, Work, vars, GenerateRoomHandler, StartScheduler,
        StopScheduler, ExtendRoomAvailability, CheckNextDate,
        ExtendCategoryAvailability, ExtendCategoryFails, RejectJob,
        CompleteJob, FailJob, Crash, ClockAdvances

\* It holds at the start, where there is no worker and no job.
LEMMA BatchInitially == Init => BatchInv
  <1>1. Init => OnCalendar /\ AtBatch /\ BatchesCovered
    BY DEF Init, OnCalendar, AtBatch, BatchesCovered
  <1> QED
    BY <1>1, RoomInitially DEF BatchInv

\* Where the calendar holds every date of the jobs, the worker leaves out none
\* of a range: all dates up to the batch it is at have their row.
THEOREM BatchesFilled == CalendarHolds => (Spec => []BatchesCovered)
  <1> SUFFICES ASSUME CalendarHolds PROVE Spec => []BatchesCovered
    OBVIOUS
  <1>1. BatchInv /\ [Next]_vars => BatchInv'
    BY BatchInductive
  <1>2. BatchInv => BatchesCovered
    BY DEF BatchInv
  <1> QED
    BY <1>1, <1>2, BatchInitially, PTL DEF Spec

----------------------------------------------------------------------------
(* No gap opens *)

\* Jobs of a category that begin on a day with a row or on the day after one
JoiningJob ==
  {j \in CalendarJob : \A c \in Categories : j.category = c => Joins(j, c)}

\* So do all jobs, and the runs of the scheduler are at days with a row
Joined ==
  /\ queue \in Seq(JoiningJob)
  /\ worker # NoJob => worker.job \in JoiningJob
  /\ \A k \in Runners : \A e \in extending[k] : rows[e.category][e.latest] > 0

GapInv == BatchInv /\ Joined /\ NoGap

\* Days that join others without a gap leave none.
LEMMA Adjoined ==
  ASSUME NEW S \in SUBSET Int, NEW a \in Int, NEW m \in Nat,
         \A d1, d2 \in S : \A d \in Days : d1 < d /\ d < d2 => d \in S,
         \E d \in S : a \in {d, d + 1},
         Days \subseteq Int,
         NEW d1 \in S \cup (a .. a + m - 1), NEW d2 \in S \cup (a .. a + m - 1),
         NEW d \in Days, d1 < d, d < d2
  PROVE  d \in S \cup (a .. a + m - 1)
  <1>1. PICK e \in S : a \in {e, e + 1}
    OBVIOUS
  <1>2. d \in Int /\ e \in Int /\ d1 \in Int /\ d2 \in Int
    OBVIOUS
  <1>3. CASE a <= d
    <2>1. CASE d <= a + m - 1
      BY <1>2, <1>3, <2>1
    <2>2. CASE ~ (d <= a + m - 1)
      <3>1. d2 \in S
        BY <1>2, <2>2
      <3>2. e <= d
        BY <1>1, <1>2, <1>3
      <3>3. CASE e = d
        BY <3>3
      <3>4. CASE e # d
        BY <1>2, <3>1, <3>2, <3>4
      <3> QED
        BY <3>3, <3>4
    <2> QED
      BY <2>1, <2>2
  <1>4. CASE ~ (a <= d)
    <2>1. d1 \in S
      BY <1>2, <1>4
    <2>2. d <= e
      BY <1>1, <1>2, <1>4
    <2>3. CASE e = d
      BY <2>3
    <2>4. CASE e # d
      BY <1>2, <2>1, <2>2, <2>4
    <2> QED
      BY <2>3, <2>4
  <1> QED
    BY <1>3, <1>4

\* A job that joins the rows goes on joining them.
LEMMA JoiningKept ==
  ASSUME RoomInv, [Next]_vars
  PROVE  JoiningJob \subseteq JoiningJob'
  <1>1. \A c \in Categories : DaysWithRows(c) \subseteq DaysWithRows(c)'
    BY RowsKept DEF DaysWithRows
  <1> QED
    BY <1>1 DEF JoiningJob, CalendarJob, InCalendar, Joins

\* Jobs join the rows: the ones of clients by assumption, those of the scheduler
\* because the newest row it has read is there still.
LEMMA JoinedKept ==
  ASSUME CalendarHolds, BatchInv, Joined, [Next]_vars, JoiningPost, OnCalendar'
  PROVE  Joined'
  <1>1. /\ queue \in Seq(JoiningJob)
        /\ worker # NoJob => worker.job \in JoiningJob
        /\ \A k \in Runners : \A e \in extending[k] :
             rows[e.category][e.latest] > 0
    BY DEF Joined
  <1>2. JoiningJob \subseteq JoiningJob'
    BY JoiningKept DEF BatchInv
  <1>3. queue \in Seq(JoiningJob')
    BY <1>1, <1>2
  <1>4. worker # NoJob => worker.job \in JoiningJob'
    BY <1>1, <1>2
  <1>5. \A k \in Runners : \A e \in extending[k] :
          e \in Latest /\ rows'[e.category][e.latest] > 0
    <2>1. \A k \in Runners : \A e \in extending[k] : e \in Latest
      BY DEF BatchInv, RoomInv, Held
    <2> QED
      BY <1>1, <2>1, RowsKept DEF Latest, BatchInv
  <1>6. ASSUME NEW p \in Payloads, GenerateRoomHandler(p) PROVE Joined'
    <2> DEFINE j == [category |-> p.category, start |-> p.start,
                     end |-> p.end, batch |-> p.batch, stalls |-> 0]
    <2>1. j \in CalendarJob
      BY RoomGenerationAssumption
      DEF CalendarHolds, CalendarJob, InCalendar, JobSet
    <2>2. j \in JoiningJob
      BY <1>6, <2>1 DEF JoiningPost, JoiningJob, Joins
    <2> HIDE DEF j
    <2>3. queue' = Append(queue, j)
      BY <1>6 DEF GenerateRoomHandler, j
    <2>4. queue' \in Seq(JoiningJob')
      BY <1>2, <1>3, <2>2, <2>3
    <2> QED
      BY <1>4, <1>5, <1>6, <2>4 DEF GenerateRoomHandler, Joined
  <1>7. ASSUME NEW k \in Runners, NEW e \in extending[k],
               ExtendCategoryAvailability(k, e)
        PROVE  Joined'
    <2> DEFINE j == [category |-> e.category, start |-> NextDate(e),
                     end |-> NextDate(e) + Day, batch |-> 1, stalls |-> 0]
    <2>1. e \in Latest /\ rows[e.category][e.latest] > 0
      BY <1>1 DEF BatchInv, RoomInv, Held
    <2>2. queue' = Append(queue, j)
      BY <1>7 DEF ExtendCategoryAvailability
    <2>3. DayOf(NextDate(e)) = e.latest + 1
      <3>a. e.latest \in Days
        BY <2>1 DEF Latest
      <3>b. e.latest \in Int
        BY <3>a, RoomGenerationAssumption, Zenon
      <3>1. e.latest + 1 \in Int
        BY <3>b
      <3>2. DayOf(0 + (e.latest + 1) * Day) = DayOf(0) + (e.latest + 1)
            /\ (e.latest + 1) * Day \in Int
        BY <3>1, DayShift
      <3>3. DayOf(0) = 0
        BY RoomGenerationAssumption DEF DayOf
      <3> QED
        BY <3>1, <3>2, <3>3 DEF NextDate
    <2>4. j \in CalendarJob
      <3>1. queue' \in Seq(CalendarJob) /\ queue \in Seq(CalendarJob)
        BY DEF OnCalendar, BatchInv
      <3> HIDE DEF j
      <3>2. Len(queue) + 1 \in DOMAIN queue' /\ queue'[Len(queue) + 1] = j
        BY <2>2, <3>1
      <3> QED
        BY <3>1, <3>2
    <2>5. j.category = e.category /\ j.start = NextDate(e)
      OBVIOUS
    <2> HIDE DEF j
    <2>6. j \in JoiningJob
      <3>1. e.latest \in DaysWithRows(e.category)
        BY <2>1 DEF Latest, DaysWithRows
      <3>2. Joins(j, e.category)
        BY <2>3, <2>5, <3>1 DEF Joins
      <3> QED
        BY <2>4, <2>5, <3>2 DEF JoiningJob
    <2>7. queue' \in Seq(JoiningJob')
      BY <1>2, <1>3, <2>2, <2>6
    <2>8. /\ UNCHANGED worker
          /\ \A l \in Runners : extending'[l] \subseteq extending[l]
      BY <1>7 DEF ExtendCategoryAvailability, BatchInv, RoomInv, Held
    <2> QED
      BY <1>4, <1>5, <2>7, <2>8 DEF Joined
  <1>8. ASSUME NEW k \in Runners, NEW e \in extending[k],
               CheckNextDate(k, e) \/ ExtendCategoryFails(k, e)
        PROVE  Joined'
    <2>1. /\ UNCHANGED <<rows, queue, worker>>
          /\ extending \in [Runners -> SUBSET Latest]
      BY <1>8 DEF CheckNextDate, ExtendCategoryFails, BatchInv, RoomInv, Held
    <2> DEFINE checked == [e EXCEPT !.checked = TRUE]
    <2>2. checked.category = e.category /\ checked.latest = e.latest
      BY <2>1 DEF Latest
    <2>3. \A l \in Runners : \A g \in extending'[l] :
            g \in extending[l] \/ (l = k /\ g = checked)
      BY <1>8, <2>1 DEF CheckNextDate, ExtendCategoryFails
    <2> HIDE DEF checked
    <2> QED
      BY <1>3, <1>4, <1>5, <2>1, <2>2, <2>3 DEF Joined
  <1>9. ASSUME NEW k \in Runners, ExtendRoomAvailability(k) PROVE Joined'
    <2>1. \A e \in FindLatestDatesForAllCategories :
            rows[e.category][e.latest] > 0
      BY DEF FindLatestDatesForAllCategories, DaysWithRows
    <2>2. /\ UNCHANGED <<rows, queue, worker>>
          /\ extending \in [Runners -> SUBSET Latest]
          /\ extending' = [extending EXCEPT ![k] =
                             FindLatestDatesForAllCategories]
      BY <1>9 DEF ExtendRoomAvailability, BatchInv, RoomInv, Held
    <2> QED
      BY <1>3, <1>4, <1>5, <2>1, <2>2 DEF Joined
  <1>10. CASE GenerateRooms \/ RejectJob
    <2>1. Head(queue) \in JoiningJob' /\ Tail(queue) \in Seq(JoiningJob')
      BY <1>3, <1>10 DEF GenerateRooms, RejectJob
    <2> QED
      BY <1>4, <1>5, <1>10, <2>1 DEF GenerateRooms, RejectJob, Batch, Joined
  <1>11. CASE CheckDate \/ BulkCreate \/ CompleteJob \/ FailJob
    <2>1. /\ UNCHANGED <<queue, extending>>
          /\ worker' # NoJob => worker # NoJob /\ worker'.job = worker.job
      <3>1. CASE CheckDate
        <4>1. worker \in WorkSet /\ worker # NoJob
          BY <3>1 DEF CheckDate, BatchInv, RoomInv, NothingMade
        <4>2. worker'.job = worker.job
          BY <3>1, <4>1 DEF CheckDate, WorkSet
        <4> QED
          BY <3>1, <4>1, <4>2 DEF CheckDate
      <3>2. CASE BulkCreate
        BY <3>2 DEF BulkCreate, BatchScanned, Batch
      <3>3. CASE CompleteJob \/ FailJob
        BY <3>3 DEF CompleteJob, FailJob
      <3> QED
        BY <1>11, <3>1, <3>2, <3>3
    <2> QED
      BY <1>3, <1>4, <1>5, <2>1 DEF Joined
  <1>12. CASE Crash
    <2> DEFINE again == [worker.job EXCEPT !.stalls = 1]
    <2>1. worker # NoJob => again \in JoiningJob'
      <3> SUFFICES ASSUME worker # NoJob PROVE again \in JoiningJob'
        OBVIOUS
      <3>1. worker.job \in JoiningJob' /\ worker.job \in JobSet
        BY <1>4 DEF JoiningJob, CalendarJob
      <3>2. /\ again \in JobSet /\ again.category = worker.job.category
            /\ again.start = worker.job.start /\ again.end = worker.job.end
        BY <3>1 DEF JobSet
      <3> HIDE DEF again
      <3> QED
        BY <3>1, <3>2 DEF JoiningJob, CalendarJob, InCalendar, Joins
    <2>2. queue' = IF worker # NoJob /\ worker.job.stalls = 0
                   THEN <<again>> \o queue ELSE queue
      BY <1>12 DEF Crash
    <2> HIDE DEF again
    <2>3. worker # NoJob => <<again>> \in Seq(JoiningJob')
      BY <2>1
    <2>4. queue' \in Seq(JoiningJob')
      BY <1>3, <2>2, <2>3
    <2> QED
      BY <1>12, <2>4 DEF Crash, Joined
  <1>13. CASE UNCHANGED <<queue, worker, extending>>
    BY <1>3, <1>4, <1>5, <1>13 DEF Joined
  <1> QED
    BY <1>6, <1>7, <1>8, <1>9, <1>10, <1>11, <1>12, <1>13
    DEF Next, Extend, Work, vars, StartScheduler, StopScheduler, ClockAdvances

\* A batch begins on a day with a row or on the day after one and leaves none
\* of its days out, so what it adds joins what is there.
LEMMA GapKept ==
  ASSUME CalendarHolds, GapInv, BulkCreate
  PROVE  NoGap'
  <1> DEFINE f == worker.from
             a == DayOf(worker.from)
  <1>0. PICK at \in Categories : at = worker.job.category
    BY DEF GapInv, BatchInv, RoomInv, NothingMade, BulkCreate, BatchScanned
  <1>1. /\ RoomInv /\ OnCalendar /\ AtBatch /\ BatchesCovered /\ NoGap
        /\ worker # NoJob /\ worker \in WorkSet
        /\ worker.job \in JoiningJob
        /\ f < worker.job.end
    BY DEF GapInv, BatchInv, RoomInv, NothingMade, Joined, BulkCreate,
           BatchScanned
  <1>2. /\ f \in Int /\ a \in Int
        /\ worker.job.start \in Int /\ worker.job.end \in Int
        /\ worker.job.start <= f /\ worker.job.start < worker.job.end
    BY <1>1, DayType DEF WorkSet, JobSet, AtBatch
  <1>3. PICK m \in Nat : Scanned(m)
    BY <1>1 DEF AtBatch
  <1>4. \A n \in 0 .. m - 1 : a + n \in Days /\ rows'[at][a + n] > 0
    BY <1>0, <1>1, <1>3, BatchFilled
  <1>5. \A t \in worker.missing : DayOf(t) \in a .. a + m - 1
    <2>1. ASSUME NEW t \in worker.missing PROVE DayOf(t) \in a .. a + m - 1
      <3>1. PICK n \in 0 .. m - 1 : t = f + n * Day
        BY <1>3, <2>1 DEF Scanned, Date
      <3>2. DayOf(t) = a + n
        BY <1>2, <3>1, DayShift
      <3> QED
        BY <1>2, <3>2
    <2> QED
      BY <2>1
  <1>6. DaysWithRows(at)' = DaysWithRows(at) \cup (a .. a + m - 1)
    <2>1. \A d \in a .. a + m - 1 : d \in Days /\ rows'[at][d] > 0
      <3>1. ASSUME NEW d \in a .. a + m - 1
            PROVE  d \in Days /\ rows'[at][d] > 0
        <4>1. d - a \in 0 .. m - 1 /\ a + (d - a) = d
          BY <1>2
        <4> QED
          BY <1>4, <4>1
      <3> QED
        BY <3>1
    <2>2. \A d \in Days : rows'[at][d] > 0 <=>
            \/ rows[at][d] > 0
            \/ \E t \in worker.missing : DayOf(t) = d
      BY <1>0, <1>1, Filled
    <2> QED
      BY <1>5, <2>1, <2>2 DEF DaysWithRows
  <1>7. \E d \in DaysWithRows(at) : a \in {d, d + 1}
    <2>1. CASE f = worker.job.start
      BY <1>0, <1>1, <2>1 DEF JoiningJob, Joins
    <2>2. CASE f # worker.job.start
      <3>1. PICK b \in Nat : f = worker.job.start + b * Day
        BY <1>1 DEF AtBatch
      <3>2. b * Day \in Int
        BY <3>1, DayShift
      <3>3. f - worker.job.start = b * Day
        BY <1>2, <3>1, <3>2
      <3>4. (f - worker.job.start) % Day = 0
        BY <1>2, <3>2, <3>3, WholeDays
      <3>5. f \in worker.job.start .. Min2(f, worker.job.end)
            /\ f > worker.job.start
        BY <1>1, <1>2, <2>2 DEF Min2
      <3>6. rows[at][a] > 0
        BY <1>0, <1>1, <3>4, <3>5 DEF BatchesCovered
      <3>7. a \in Days
        BY <1>1, <1>2, DatesInCalendar DEF JoiningJob
      <3> QED
        BY <3>6, <3>7 DEF DaysWithRows
    <2> QED
      BY <2>1, <2>2
  <1> HIDE DEF a, f
  <1>8. \A c \in Categories \ {at} : DaysWithRows(c)' = DaysWithRows(c)
    BY <1>0, <1>1, Filled DEF DaysWithRows
  <1>9. DaysWithRows(at) \in SUBSET Int /\ Days \subseteq Int
    BY RoomGenerationAssumption DEF DaysWithRows
  <1>10. ASSUME NEW d1 \in DaysWithRows(at)', NEW d2 \in DaysWithRows(at)',
                NEW d \in Days, d1 < d, d < d2
         PROVE  d \in DaysWithRows(at)'
    <2>1. \A e1, e2 \in DaysWithRows(at) : \A e \in Days :
            e1 < e /\ e < e2 => e \in DaysWithRows(at)
      BY <1>1 DEF NoGap
    <2> QED
      BY <1>2, <1>6, <1>7, <1>9, <1>10, <2>1, Adjoined
  <1>11. \A c \in Categories \ {at} : \A d1, d2 \in DaysWithRows(c) :
           \A d \in Days : d1 < d /\ d < d2 => d \in DaysWithRows(c)
    BY <1>1 DEF NoGap
  <1> QED
    <2>1. ASSUME NEW c \in Categories, NEW d1 \in DaysWithRows(c)',
                 NEW d2 \in DaysWithRows(c)', NEW d \in Days, d1 < d, d < d2
          PROVE  d \in DaysWithRows(c)'
      <3>1. CASE c = at
        BY <1>10, <2>1, <3>1
      <3>2. CASE c # at
        BY <1>8, <1>11, <2>1, <3>2
      <3> QED
        BY <3>1, <3>2
    <2> QED
      BY <2>1 DEF NoGap

\* Every step keeps the invariant, if what is posted joins the rows.
LEMMA GapInductive ==
  ASSUME CalendarHolds, GapInv, [Next]_vars, JoiningPost
  PROVE  GapInv'
  <1>1. BatchInv'
    BY BatchInductive DEF GapInv
  <1>2. Joined'
    BY <1>1, JoinedKept DEF GapInv, BatchInv
  <1>3. NoGap'
    <2>1. CASE BulkCreate
      BY <2>1, GapKept
    <2>2. CASE UNCHANGED rows
      BY <2>2 DEF GapInv, NoGap, DaysWithRows
    <2> QED
      BY <2>1, <2>2
      DEF Next, Extend, Work, vars, GenerateRoomHandler, StartScheduler,
          StopScheduler, ExtendRoomAvailability, CheckNextDate,
          ExtendCategoryAvailability, ExtendCategoryFails, GenerateRooms,
          RejectJob, CheckDate, CompleteJob, FailJob, Crash, ClockAdvances
  <1> QED
    BY <1>1, <1>2, <1>3 DEF GapInv

\* The rows of the start have no gap.
LEMMA GapInitially ==
  ASSUME GaplessAtFirst, Init
  PROVE  GapInv
  <1>1. BatchInv
    BY BatchInitially
  <1>2. Joined
    BY DEF Init, Joined
  <1>3. \A c \in Categories : DaysWithRows(c) = FirstRows[c]
    BY RoomGenerationAssumption DEF Init, DaysWithRows
  <1>4. NoGap
    <2> SUFFICES ASSUME NEW c \in Categories, NEW d1 \in FirstRows[c],
                        NEW d2 \in FirstRows[c], NEW d \in Days,
                        d1 < d, d < d2
                 PROVE  d \in FirstRows[c]
      BY <1>3 DEF NoGap
    <2>1. d1 .. d2 \subseteq FirstRows[c]
      BY DEF GaplessAtFirst
    <2>2. d1 \in Int /\ d2 \in Int /\ d \in Int
      BY RoomGenerationAssumption
    <2> QED
      BY <2>1, <2>2
  <1> QED
    BY <1>1, <1>2, <1>4 DEF GapInv

\* While clients post jobs that join the rows there are, the days of a category
\* have no gap, however jobs, runs of the scheduler and crashes interleave.
THEOREM NoGapOpens ==
  CalendarHolds /\ GaplessAtFirst => (Spec /\ JoiningPosts => []NoGap)
  <1> SUFFICES ASSUME CalendarHolds, GaplessAtFirst
               PROVE  Spec /\ JoiningPosts => []NoGap
    OBVIOUS
  <1>1. Init => GapInv
    BY GapInitially
  <1>2. GapInv /\ [Next]_vars /\ [JoiningPost]_vars => GapInv'
    <2>1. [JoiningPost]_vars /\ [Next]_vars => JoiningPost \/ UNCHANGED vars
      OBVIOUS
    <2>2. ASSUME GapInv, UNCHANGED vars PROVE GapInv'
      BY <2>2
      DEF vars, GapInv, BatchInv, RoomInv, Held, NothingMade, NoDuplicateRows,
          OnCalendar, AtBatch, BatchesCovered, Scanned, Date, HasRow, Joined,
          JoiningJob, Joins, DaysWithRows, NoGap
    <2> QED
      BY <2>1, <2>2, GapInductive
  <1>3. GapInv => NoGap
    BY DEF GapInv
  <1> QED
    BY <1>1, <1>2, <1>3, PTL DEF Spec, JoiningPosts

\* The rows of the start are there for good.
FirstRowsStay == \A c \in Categories : \A d \in FirstRows[c] : rows[c][d] > 0

\* So no gap opens if every job joins the rows of the start.
THEOREM NoGapFromTheStart ==
  CalendarHolds /\ GaplessAtFirst /\ JoinsAtFirst => (Spec => []NoGap)
  <1> SUFFICES ASSUME CalendarHolds, GaplessAtFirst, JoinsAtFirst
               PROVE  Spec => []NoGap
    OBVIOUS
  <1>1. Init => FirstRowsStay
    BY RoomGenerationAssumption DEF Init, FirstRowsStay
  <1>2. RoomInv /\ FirstRowsStay /\ [Next]_vars => FirstRowsStay'
    BY RowsKept, RoomGenerationAssumption DEF FirstRowsStay
  <1>3. FirstRowsStay => JoiningPost
    BY RoomGenerationAssumption
    DEF FirstRowsStay, JoinsAtFirst, JoiningPost, Joins, DaysWithRows
  <1>4. Spec => JoiningPosts
    BY <1>1, <1>2, <1>3, RoomsInductive, PTL DEF Spec, JoiningPosts
  <1>5. Spec /\ JoiningPosts => []NoGap
    BY NoGapOpens
  <1> QED
    BY <1>4, <1>5, PTL

----------------------------------------------------------------------------
(* Jobs that begin at a midnight *)

MidnightPosts == \A p \in Payloads : IsMidnight(p.start)

MidnightJob == {j \in JobSet : IsMidnight(j.start)}

\* What is looked for and made is of midnights, as are the ends of batches but
\* for the end of the job
AtMidnights ==
  /\ queue \in Seq(MidnightJob)
  /\ oddly = {}
  /\ worker # NoJob =>
       /\ worker.job \in MidnightJob
       /\ \A t \in worker.missing : IsMidnight(t)
       /\ worker.from < worker.job.end => IsMidnight(worker.cursor)
       /\ worker.until < worker.job.end => IsMidnight(worker.until)

\* No day has two rows of a category
OneRowADay == \A c \in Categories, d \in Days : rows[c][d] <= 1

\* Whole days after a midnight it is midnight.
LEMMA MidnightOn ==
  ASSUME NEW t \in Int, NEW n \in Int, IsMidnight(t)
  PROVE  IsMidnight(t + n * Day) /\ IsMidnight(t + Day)
  <1>1. ASSUME NEW m \in Int PROVE IsMidnight(t + m * Day)
    <2>1. DayOf(t) \in Int /\ t = DayOf(t) * Day
      BY DayType, WholeDays DEF IsMidnight
    <2>2. /\ DayOf(t) + m \in Int
          /\ (DayOf(t) + m) * Day = DayOf(t) * Day + m * Day
      <3>1. (DayOf(t) + m) * Day = DayOf(t) * Day + m * Day
        BY <2>1, DaysAdd, Zenon
      <3> QED
        BY <2>1, <3>1
    <2>3. t + m * Day \in Int
      BY DayShift
    <2> QED
      BY <2>1, <2>2, <2>3, WholeDays DEF IsMidnight
  <1>2. 1 * Day = Day
    BY RoomGenerationAssumption
  <1> QED
    BY <1>1, <1>2

\* Where a batch ends that does not end the job, it is midnight.
LEMMA MidnightBatch ==
  ASSUME NEW j \in JobSet, NEW t \in Int, IsMidnight(t),
         Min2(t + j.batch * Day, j.end) < j.end
  PROVE  IsMidnight(Min2(t + j.batch * Day, j.end))
  <1>1. j.batch \in Int /\ j.end \in Int
    BY DEF JobSet
  <1>2. t + j.batch * Day \in Int /\ IsMidnight(t + j.batch * Day)
    <2>1. j.batch * Day \in Int
      BY <1>1, DayShift, Zenon
    <2>2. IsMidnight(t + j.batch * Day)
      BY <1>1, MidnightOn, Zenon
    <2> QED
      BY <2>1, <2>2
  <1> QED
    BY <1>1, <1>2 DEF Min2

\* Jobs come from clients and the scheduler, which adds whole days.
LEMMA MidnightQueued ==
  ASSUME MidnightPosts, RoomInv, AtMidnights,
         \/ \E p \in Payloads : GenerateRoomHandler(p)
         \/ \E k \in Runners : \E e \in extending[k] :
              ExtendCategoryAvailability(k, e)
  PROVE  AtMidnights'
  <1>1. ASSUME NEW j \in MidnightJob, queue' = Append(queue, j),
               UNCHANGED <<oddly, worker>>
        PROVE  AtMidnights'
    BY <1>1 DEF AtMidnights
  <1>2. ASSUME NEW p \in Payloads, GenerateRoomHandler(p) PROVE AtMidnights'
    <2> DEFINE j == [category |-> p.category, start |-> p.start,
                     end |-> p.end, batch |-> p.batch, stalls |-> 0]
    <2>1. j \in MidnightJob
      BY RoomGenerationAssumption DEF MidnightPosts, MidnightJob, JobSet
    <2> HIDE DEF j
    <2> QED
      BY <1>1, <1>2, <2>1 DEF GenerateRoomHandler, j
  <1>3. ASSUME NEW k \in Runners, NEW e \in extending[k],
               ExtendCategoryAvailability(k, e)
        PROVE  AtMidnights'
    <2> DEFINE j == [category |-> e.category, start |-> NextDate(e),
                     end |-> NextDate(e) + Day, batch |-> 1, stalls |-> 0]
    <2>1. e \in Latest /\ e.latest \in Int
      <3>1. e \in Latest
        BY DEF RoomInv, Held
      <3> QED
        BY <3>1, RoomGenerationAssumption DEF Latest
    <2>2. NextDate(e) \in Int /\ IsMidnight(NextDate(e))
      <3>1. e.latest + 1 \in Int
        BY <2>1
      <3>2. (e.latest + 1) * Day \in Int
        BY <3>1, DayShift
      <3> QED
        BY <3>1, <3>2, WholeDays DEF NextDate, IsMidnight
    <2>3. j \in MidnightJob
      BY <2>1, <2>2, RoomGenerationAssumption DEF MidnightJob, JobSet, Latest
    <2> HIDE DEF j
    <2> QED
      BY <1>1, <1>3, <2>3 DEF ExtendCategoryAvailability, j
  <1> QED
    BY <1>2, <1>3

\* The worker goes from midnight to midnight.
LEMMA MidnightWorked ==
  ASSUME RoomInv, AtMidnights, Work
  PROVE  AtMidnights'
  <1>1. queue \in Seq(MidnightJob) /\ oddly = {}
    BY DEF AtMidnights
  <1>2. CASE RejectJob \/ CompleteJob
    BY <1>1, <1>2 DEF RejectJob, CompleteJob, AtMidnights
  <1>3. CASE GenerateRooms
    <2> DEFINE j == Head(queue)
    <2>1. j \in MidnightJob /\ j \in JobSet /\ Tail(queue) \in Seq(MidnightJob)
      BY <1>1, <1>3 DEF GenerateRooms, MidnightJob
    <2>2. j.start \in Int /\ IsMidnight(j.start)
      BY <2>1 DEF MidnightJob, JobSet
    <2>3. /\ worker'.job = j /\ worker'.cursor = j.start
          /\ worker'.missing = {}
          /\ worker'.until = Min2(j.start + j.batch * Day, j.end)
          /\ queue' = Tail(queue) /\ oddly' = oddly
      BY <1>3 DEF GenerateRooms, Batch
    <2> HIDE DEF j
    <2> QED
      BY <1>1, <2>1, <2>2, <2>3, MidnightBatch DEF AtMidnights
  <1>4. CASE CheckDate
    <2>1. /\ worker \in WorkSet /\ worker # NoJob
          /\ worker.from < worker.job.end
      BY <1>4 DEF CheckDate, RoomInv, NothingMade
    <2>2. worker.cursor \in Int /\ IsMidnight(worker.cursor)
      BY <2>1 DEF AtMidnights, WorkSet
    <2>3. /\ worker'.job = worker.job /\ worker'.from = worker.from
          /\ worker'.until = worker.until
          /\ worker'.cursor = worker.cursor + Day
          /\ worker'.missing \subseteq worker.missing \cup {worker.cursor}
          /\ UNCHANGED <<queue, oddly>>
      BY <1>4, <2>1 DEF CheckDate, WorkSet
    <2>4. IsMidnight(worker.cursor + Day)
      BY <2>2, MidnightOn
    <2> QED
      BY <2>1, <2>2, <2>3, <2>4 DEF AtMidnights
  <1>5. CASE BulkCreate
    <2>1. /\ worker \in WorkSet /\ worker # NoJob
          /\ worker.job \in JobSet /\ worker.until \in Int
      BY <1>5 DEF BulkCreate, BatchScanned, RoomInv, NothingMade, WorkSet
    <2>2. /\ worker'.job = worker.job /\ worker'.from = worker.until
          /\ worker'.cursor = worker.until /\ worker'.missing = {}
          /\ worker'.until = Min2(worker.until + worker.job.batch * Day,
                                  worker.job.end)
          /\ queue' = queue
      BY <1>5 DEF BulkCreate, Batch
    <2>3. oddly' = {}
      BY <1>1, <1>5, <2>1 DEF BulkCreate, InsertMissing, AtMidnights
    <2>4. worker.job.end \in Int /\ worker.job.batch * Day \in Int
      <3>1. worker.job.end \in Int /\ worker.job.batch \in Int
        BY <2>1 DEF JobSet
      <3> QED
        BY <3>1, DayShift, Zenon
    <2>5. ASSUME Min2(worker.until + worker.job.batch * Day, worker.job.end)
                   < worker.job.end
          PROVE  worker.until < worker.job.end
      <3>1. worker.job.batch * Day >= 0
        BY <2>1, RoomGenerationAssumption DEF JobSet
      <3> QED
        BY <2>1, <2>4, <2>5, <3>1 DEF Min2
    <2>6. worker.until < worker.job.end => IsMidnight(worker.until)
      BY <2>1 DEF AtMidnights
    <2> QED
      BY <1>1, <2>1, <2>2, <2>3, <2>5, <2>6, MidnightBatch DEF AtMidnights
  <1> QED
    BY <1>2, <1>3, <1>4, <1>5 DEF Work

\* Every step goes from midnight to midnight.
LEMMA MidnightsKept ==
  ASSUME MidnightPosts, RoomInv, AtMidnights, [Next]_vars
  PROVE  AtMidnights'
  <1>1. CASE Crash
    <2> DEFINE again == [worker.job EXCEPT !.stalls = 1]
    <2>1. ASSUME worker # NoJob PROVE again \in MidnightJob
      <3>1. worker.job \in JobSet /\ IsMidnight(worker.job.start)
        BY <2>1 DEF AtMidnights, MidnightJob
      <3>2. again \in JobSet /\ again.start = worker.job.start
        BY <3>1 DEF JobSet
      <3> HIDE DEF again
      <3> QED
        BY <3>1, <3>2 DEF MidnightJob
    <2>2. queue' = IF worker # NoJob /\ worker.job.stalls = 0
                   THEN <<again>> \o queue ELSE queue
      BY <1>1 DEF Crash
    <2> HIDE DEF again
    <2>3. worker # NoJob => <<again>> \in Seq(MidnightJob)
      BY <2>1
    <2>4. queue' \in Seq(MidnightJob)
      BY <2>2, <2>3 DEF AtMidnights
    <2> QED
      BY <1>1, <2>4 DEF Crash, AtMidnights
  <1>2. CASE FailJob
    BY <1>2 DEF FailJob, AtMidnights
  <1>3. CASE UNCHANGED <<queue, worker, oddly>>
    BY <1>3 DEF AtMidnights
  <1> QED
    BY <1>1, <1>2, <1>3, MidnightQueued, MidnightWorked
    DEF Next, Extend, vars, StartScheduler, StopScheduler,
        ExtendRoomAvailability, CheckNextDate, ExtendCategoryFails,
        ClockAdvances

\* If clients post only jobs that begin at a midnight, no category ever has two
\* rows of a day, however jobs overlap, repeat or are run again after a crash.
THEOREM OneRowOfMidnights == MidnightPosts => (Spec => []OneRowADay)
  <1> SUFFICES ASSUME MidnightPosts PROVE Spec => []OneRowADay
    OBVIOUS
  <1>1. Init => AtMidnights
    BY DEF Init, AtMidnights
  <1>2. RoomInv /\ AtMidnights /\ [Next]_vars => AtMidnights'
    BY MidnightsKept
  <1>3. RoomInv /\ AtMidnights => OneRowADay
    <2> SUFFICES ASSUME RoomInv, AtMidnights,
                        NEW c \in Categories, NEW d \in Days
                 PROVE  rows[c][d] <= 1
      BY DEF OneRowADay
    <2>1. rows[c][d] \in Nat /\ ~ (rows[c][d] > 1)
      BY DEF RoomInv, Held, NoDuplicateRows, AtMidnights
    <2> QED
      BY <2>1
  <1> QED
    BY <1>1, <1>2, <1>3, RoomsInductive, PTL DEF Spec

=============================================================================
