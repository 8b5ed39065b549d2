--------------------------- MODULE RoomGeneration ---------------------------
(***************************************************************************)
(* The HotelService's room inventory: clients and the scheduler put jobs   *)
(* in a BullMQ queue, one worker generates the rows of the rooms table.    *)
(*                                                                         *)
(* Instants are integers, Day of them to a day, day d beginning at d * Day.*)
(* The column date_of_availability is a SQL DATE: a row keeps the day of   *)
(* the instant it is created with, and a query for an instant finds a row  *)
(* only if that instant is a midnight.                                     *)
(*                                                                         *)
(* Jobs have no attempts configured, so a failed job is gone; the job of a *)
(* crashed worker is stalled, and BullMQ runs a stalled job once more.     *)
(***************************************************************************)
EXTENDS Integers, Sequences, FiniteSets

CONSTANTS
  Categories,    \* ids in room_categories; nothing deletes one
  Days,          \* the days the table can hold, an interval of integers
  Day,           \* instants in a day
  Payloads,      \* the jobs clients post
  Runners,       \* concurrent runs of extendRoomAvailability: cron, manual
  FirstRows,     \* the days each category has a row for at first
  MaxRequests,   \* bound: jobs clients post
  MaxQueue,      \* bound: jobs waiting
  MaxNow,        \* bound: the clock
  NoJob

ASSUME RoomGenerationAssumption ==
  /\ Days \subseteq Int
  /\ Day \in Nat \ {0}
  /\ FirstRows \in [Categories -> SUBSET Days]
  /\ \A p \in Payloads : /\ p.start \in Int /\ p.end \in Int
                         /\ p.batch \in Nat
  /\ MaxRequests \in Nat /\ MaxQueue \in Nat /\ MaxNow \in Nat

VARIABLES
  rows,       \* how many rows each category has for each day
  oddly,      \* history: <<category, day>> of rows made for no midnight
  queue,      \* waiting jobs
  worker,     \* what the worker is at, or NoJob
  running,    \* cronJob # null
  extending,  \* what each run of extendRoomAvailability has still to do
  requested,  \* jobs posted so far
  now         \* the clock

vars == <<rows, oddly, queue, worker, running, extending, requested, now>>

----------------------------------------------------------------------------
DayOf(t) == t \div Day
IsMidnight(t) == t % Day = 0

\* WHERE room_category_id = c AND date_of_availability = t
FindByRoomCategoryIdAndDate(c, t) ==
  IsMidnight(t) /\ DayOf(t) \in Days /\ rows[c][DayOf(t)] > 0

DaysWithRows(c) == {d \in Days : rows[c][d] > 0}

\* SELECT room_category_id, MAX(date_of_availability) GROUP BY it
FindLatestDatesForAllCategories ==
  {e \in [category : Categories, latest : Days, checked : {FALSE}] :
     /\ e.latest \in DaysWithRows(e.category)
     /\ \A d \in DaysWithRows(e.category) : d <= e.latest}

Min2(a, b) == IF a <= b THEN a ELSE b

\* The worker at the start of the batch that begins at t
\* setDate drops the fraction of a batch size, so 0 is half a day
Batch(j, t) == [job |-> j, from |-> t, cursor |-> t, missing |-> {},
                until |-> Min2(t + j.batch * Day, j.end)]

Init ==
  /\ rows = [c \in Categories |->
               [d \in Days |-> IF d \in FirstRows[c] THEN 1 ELSE 0]]
  /\ oddly = {}
  /\ queue = <<>>
  /\ worker = NoJob
  /\ running = TRUE
  /\ extending = [k \in Runners |-> {}]
  /\ requested = 0
  /\ now = 1

----------------------------------------------------------------------------
(* Producers of jobs *)

GenerateRoomHandler(p) ==
  /\ requested < MaxRequests /\ Len(queue) < MaxQueue
  /\ requested' = requested + 1
  /\ queue' = Append(queue, [category |-> p.category, start |-> p.start,
                             end |-> p.end, batch |-> p.batch, stalls |-> 0])
  /\ UNCHANGED <<rows, oddly, worker, running, extending, now>>

StartScheduler ==
  /\ ~ running
  /\ running' = TRUE
  /\ UNCHANGED <<rows, oddly, queue, worker, extending, requested, now>>

StopScheduler ==
  /\ running
  /\ running' = FALSE
  /\ UNCHANGED <<rows, oddly, queue, worker, extending, requested, now>>

\* The cron callback, or manualExtendAvailability, which runs at any time
ExtendRoomAvailability(k) ==
  /\ k = "cron" => running
  /\ extending[k] = {}
  /\ FindLatestDatesForAllCategories # {}
  /\ extending' = [extending EXCEPT ![k] = FindLatestDatesForAllCategories]
  /\ UNCHANGED <<rows, oddly, queue, worker, running, requested, now>>

NextDate(e) == (e.latest + 1) * Day

\* The row of the next date is looked for, in a table that has moved on
CheckNextDate(k, e) ==
  /\ ~ e.checked
  /\ extending' = [extending EXCEPT ![k] =
       IF FindByRoomCategoryIdAndDate(e.category, NextDate(e))
       THEN @ \ {e}
       ELSE (@ \ {e}) \cup {[e EXCEPT !.checked = TRUE]}]
  /\ UNCHANGED <<rows, oddly, queue, worker, running, requested, now>>

\* Fault: the day after the next one
SkipADay(k, e) ==
  /\ e.checked
  /\ Len(queue) < MaxQueue /\ e.latest + 3 \in Days
  /\ queue' = Append(queue, [category |-> e.category,
                             start |-> NextDate(e) + Day,
                             end |-> NextDate(e) + 2 * Day,
                             batch |-> 1, stalls |-> 0])
  /\ extending' = [extending EXCEPT ![k] = @ \ {e}]
  /\ UNCHANGED <<rows, oddly, worker, running, requested, now>>

\* startDate is the next date and endDate the one after it
ExtendCategoryAvailability(k, e) ==
  /\ e.checked
  /\ Len(queue) < MaxQueue /\ e.latest + 2 \in Days
  /\ queue' = Append(queue, [category |-> e.category,
                             start |-> NextDate(e), end |-> NextDate(e) + Day,
                             batch |-> 1, stalls |-> 0])
  /\ extending' = [extending EXCEPT ![k] = @ \ {e}]
  /\ UNCHANGED <<rows, oddly, worker, running, requested, now>>

\* Caught and logged: the other categories go on
ExtendCategoryFails(k, e) ==
  /\ extending' = [extending EXCEPT ![k] = @ \ {e}]
  /\ UNCHANGED <<rows, oddly, queue, worker, running, requested, now>>

----------------------------------------------------------------------------
(* The worker: generateRooms and processDateBatch *)

Acceptable(j) ==
  j.category \in Categories /\ j.start < j.end /\ now <= j.start

GenerateRooms ==
  /\ worker = NoJob /\ queue # <<>>
  /\ Acceptable(Head(queue))
  /\ worker' = Batch(Head(queue), Head(queue).start)
  /\ queue' = Tail(queue)
  /\ UNCHANGED <<rows, oddly, running, extending, requested, now>>

RejectJob ==
  /\ worker = NoJob /\ queue # <<>>
  /\ ~ Acceptable(Head(queue))
  /\ queue' = Tail(queue)
  /\ UNCHANGED <<rows, oddly, worker, running, extending, requested, now>>

\* Fault: no look whether the row is there
CheckNothing ==
  /\ worker # NoJob
  /\ worker.from < worker.job.end /\ worker.cursor <= worker.until
  /\ worker' = [worker EXCEPT !.missing = @ \cup {worker.cursor},
                              !.cursor = @ + Day]
  /\ UNCHANGED <<rows, oddly, queue, running, extending, requested, now>>

\* One date of the batch, whose last date is included
CheckDate ==
  /\ worker # NoJob
  /\ worker.from < worker.job.end /\ worker.cursor <= worker.until
  /\ worker' =
       IF FindByRoomCategoryIdAndDate(worker.job.category, worker.cursor)
       THEN [worker EXCEPT !.cursor = @ + Day]
       ELSE [worker EXCEPT !.missing = @ \cup {worker.cursor},
                           !.cursor = @ + Day]
  /\ UNCHANGED <<rows, oddly, queue, running, extending, requested, now>>

BatchScanned ==
  /\ worker # NoJob
  /\ worker.from < worker.job.end /\ worker.until < worker.cursor

\* One INSERT for all dates without a row
InsertMissing ==
  /\ rows' = [rows EXCEPT ![worker.job.category] = [d \in Days |->
       @[d] + Cardinality({t \in worker.missing : DayOf(t) = d})]]
  /\ oddly' = oddly \cup {<<worker.job.category, DayOf(t)>> :
                            t \in {m \in worker.missing : ~ IsMidnight(m)}}

\* Fault: the next batch begins a day after this one's last day plus one
LeaveOutADate ==
  /\ BatchScanned /\ InsertMissing
  /\ worker' = Batch(worker.job, worker.until + 2 * Day)
  /\ UNCHANGED <<queue, running, extending, requested, now>>

\* Fault: the loop variable is not moved to the end of the batch
RepeatBatch ==
  /\ BatchScanned /\ InsertMissing
  /\ worker' = Batch(worker.job, worker.from)
  /\ UNCHANGED <<queue, running, extending, requested, now>>

\* The next batch begins with the last date of this one
BulkCreate ==
  /\ BatchScanned /\ InsertMissing
  /\ worker' = Batch(worker.job, worker.until)
  /\ UNCHANGED <<queue, running, extending, requested, now>>

CompleteJob ==
  /\ worker # NoJob
  /\ worker.from >= worker.job.end
  /\ worker' = NoJob
  /\ UNCHANGED <<rows, oddly, queue, running, extending, requested, now>>

\* A query of the job throws
FailJob ==
  /\ worker # NoJob
  /\ worker' = NoJob
  /\ UNCHANGED <<rows, oddly, queue, running, extending, requested, now>>

\* The process dies and restarts: the job it had is stalled, a run of the
\* scheduler is lost and server.ts starts the scheduler
Crash ==
  /\ worker # NoJob \/ \E k \in Runners : extending[k] # {}
  /\ queue' = IF worker # NoJob /\ worker.job.stalls = 0
              THEN <<[worker.job EXCEPT !.stalls = 1]>> \o queue
              ELSE queue
  /\ worker' = NoJob
  /\ running' = TRUE
  /\ extending' = [k \in Runners |-> {}]
  /\ UNCHANGED <<rows, oddly, requested, now>>

ClockAdvances ==
  /\ now < MaxNow
  /\ now' = now + 1
  /\ UNCHANGED <<rows, oddly, queue, worker, running, extending, requested>>

----------------------------------------------------------------------------
Extend ==
  \E k \in Runners :
    \/ ExtendRoomAvailability(k)
    \/ \E e \in extending[k] : \/ CheckNextDate(k, e)
                               \/ ExtendCategoryAvailability(k, e)
                               \/ ExtendCategoryFails(k, e)

Work == GenerateRooms \/ RejectJob \/ CheckDate \/ BulkCreate \/ CompleteJob

Next ==
  \/ \E p \in Payloads : GenerateRoomHandler(p)
  \/ StartScheduler \/ StopScheduler
  \/ Extend
  \/ Work \/ FailJob \/ Crash
  \/ ClockAdvances

Spec == Init /\ [][Next]_vars

(***************************************************************************)
(* Fairness: the worker of a live process goes on, and node-cron fires     *)
(* again and again and its callback runs through.                          *)
(***************************************************************************)
CronSteps ==
  \/ ExtendRoomAvailability("cron")
  \/ \E e \in extending["cron"] : \/ CheckNextDate("cron", e)
                                  \/ ExtendCategoryAvailability("cron", e)

Fairness == WF_vars(Work) /\ WF_vars(CronSteps) /\ WF_vars(ClockAdvances)

FairSpec == Spec /\ Fairness

----------------------------------------------------------------------------
JobOK(j) ==
  /\ j.start \in Int /\ j.end \in Int /\ j.batch \in Nat
  /\ j.stalls \in 0 .. 1

TypeOK ==
  /\ rows \in [Categories -> [Days -> Nat]]
  /\ oddly \subseteq Categories \X Int
  /\ \A i \in DOMAIN queue : JobOK(queue[i])
  /\ worker # NoJob =>
       /\ JobOK(worker.job) /\ worker.job.category \in Categories
       /\ worker.from \in Int /\ worker.cursor \in Int
       /\ worker.until \in Int /\ worker.missing \subseteq Int
  /\ running \in BOOLEAN
  /\ \A k \in Runners : \A e \in extending[k] :
       /\ e.category \in Categories /\ e.latest \in Days
       /\ e.checked \in BOOLEAN
  /\ requested \in Nat /\ now \in Nat

\* Every date of a posted job is one the table can hold
CalendarHolds ==
  /\ \A a, b \in Days : a .. b \subseteq Days
  /\ \A p \in Payloads : DayOf(p.start) \in Days /\ DayOf(p.end) \in Days

\* A job that begins on a day with a row or on the day after one
Joins(j, c) == \E d \in DaysWithRows(c) : DayOf(j.start) \in {d, d + 1}

\* Clients post no other jobs
JoiningPost ==
  \A p \in Payloads, c \in Categories :
    GenerateRoomHandler(p) /\ p.category = c => Joins(p, c)

JoiningPosts == [][JoiningPost]_vars

\* They do not if every job joins the rows of the start
JoinsAtFirst ==
  \A p \in Payloads, c \in Categories :
    p.category = c =>
      \E d \in FirstRows[c] : DayOf(p.start) \in {d, d + 1}

GaplessAtFirst ==
  \A c \in Categories : \A a, b \in FirstRows[c] : a .. b \subseteq FirstRows[c]

\* However jobs overlap, repeat or are run again after a crash, a category has
\* two rows for one day only if a job whose dates are no midnights made one.
NoDuplicateRows ==
  \A c \in Categories, d \in Days : rows[c][d] > 1 => <<c, d>> \in oddly

\* The worker has a row for every day of the batches it has behind it, so a
\* job that completes has left no day of its range out (CalendarHolds).
BatchesCovered ==
  worker # NoJob =>
    \A t \in worker.job.start .. Min2(worker.from, worker.job.end) :
      (t - worker.job.start) % Day = 0 /\ worker.from > worker.job.start =>
        rows[worker.job.category][DayOf(t)] > 0

\* What the scheduler adds joins what is there: while clients post no job that
\* begins beyond the newest row, the days of a category have no gap, although
\* jobs, runs of the scheduler and the worker overlap and fail.
NoGap ==
  \A c \in Categories : \A d1, d2 \in DaysWithRows(c) :
    \A d \in Days : d1 < d /\ d < d2 => d \in DaysWithRows(c)

\* A job whose batches are of whole days ends: the loop over the batches and
\* the loop over their dates both advance.
JobEnds == (worker # NoJob /\ worker.job.batch >= 1) ~> worker = NoJob

=============================================================================
