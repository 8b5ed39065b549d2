---------------------------- MODULE HotelIndexing ----------------------------
(***************************************************************************)
(* The HotelService's search index: hotels change in MySQL, jobs in a      *)
(* BullMQ queue tell a worker which hotel to index or to delete, and the   *)
(* worker carries the hotel's row to Elasticsearch.  At startup, before    *)
(* the worker exists, every hotel that is not deleted is indexed.          *)
(*                                                                         *)
(* The columns of a row are abstracted to a version, counted up by every   *)
(* update.  Jobs have no attempts configured: a failed job is gone.  The   *)
(* job a crashed process had is stalled and run once more, any time later. *)
(***************************************************************************)
EXTENDS Integers, Sequences

CONSTANTS
  Hotels,
  MaxVersion,   \* bound: versions of a row
  MaxPending,   \* bound: jobs of a kind on the way to the queue
  MaxQueue,     \* bound: jobs waiting
  NoJob

\* Jobs at work or waiting for it
Items == [action : {"index", "delete"}, hotel : Hotels,
          read : 0 .. MaxVersion, again : BOOLEAN]

ASSUME HotelIndexingAssumption ==
  /\ MaxVersion \in Nat \ {0}
  /\ MaxPending \in Nat \ {0} /\ MaxQueue \in Nat \ {0}
  /\ NoJob \notin Items

VARIABLES
  version,   \* of a hotel's row, 0 before there is one
  deleted,   \* hotels with a deleted_at
  pending,   \* scheduleIndex calls that have not reached the queue
  queue,     \* waiting jobs
  stalled,   \* jobs a crash left behind
  phase,     \* of the process: starting, syncing or serving
  todo,      \* hotels the startup sync has still to index
  worker,    \* what is being carried to Elasticsearch, or NoJob
  index,     \* the version a hotel's document shows, 0 without a document
  dropped,   \* history: lost jobs no later one has made up for
  revived    \* history: hotels an index job was queued for after their deletion

rows == <<version, deleted>>
process == <<phase, todo, worker>>
history == <<dropped, revived>>
vars == <<rows, pending, queue, stalled, process, index, history>>

----------------------------------------------------------------------------
Jobs == [action : {"index", "delete"}, hotel : Hotels]
Job(action, h) == [action |-> action, hotel |-> h]
IndexOf(h) == Job("index", h)
DeleteOf(h) == Job("delete", h)

\* A job at work: the row it has read, and whether it was stalled before
AtWork(j, v, again) ==
  [action |-> j.action, hotel |-> j.hotel, read |-> v, again |-> again]

Active == {h \in Hotels : version[h] > 0 /\ h \notin deleted}

Init ==
  /\ version = [h \in Hotels |-> 0]
  /\ deleted = {}
  /\ pending = [j \in Jobs |-> 0]
  /\ queue = <<>>
  /\ stalled = {}
  /\ phase = "starting"
  /\ todo = {}
  /\ worker = NoJob
  /\ index = [h \in Hotels |-> 0]
  /\ dropped = {}
  /\ revived = {}

----------------------------------------------------------------------------
(* hotel.service: a mutation commits, its job is queued without an await.  *)
(* Requests run concurrently, so jobs reach the queue in any order.        *)

ScheduleIndex(j) ==
  /\ pending[j] < MaxPending
  /\ pending' = [pending EXCEPT ![j] = @ + 1]

CreateHotel(h) ==
  /\ version[h] = 0
  /\ version' = [version EXCEPT ![h] = 1]
  /\ ScheduleIndex(IndexOf(h))
  /\ UNCHANGED <<deleted, queue, stalled, process, index, history>>

\* Fault: the job is scheduled before the row is saved, by a request that dies
UpdateWithoutJob(h) ==
  /\ version[h] > 0 /\ version[h] < MaxVersion
  /\ version' = [version EXCEPT ![h] = @ + 1]
  /\ UNCHANGED <<deleted, pending, queue, stalled, process, index, history>>

\* findByPk finds a deleted hotel too
UpdateHotel(h) ==
  /\ version[h] > 0 /\ version[h] < MaxVersion
  /\ version' = [version EXCEPT ![h] = @ + 1]
  /\ ScheduleIndex(IndexOf(h))
  /\ UNCHANGED <<deleted, queue, stalled, process, index, history>>

\* And may be deleted again
SoftDelete(h) ==
  /\ version[h] > 0
  /\ deleted' = deleted \cup {h}
  /\ ScheduleIndex(DeleteOf(h))
  /\ UNCHANGED <<version, queue, stalled, process, index, history>>

\* For the history only
NoteRevival(j) ==
  revived' = IF j.action = "index" /\ j.hotel \in deleted
             THEN revived \cup {j.hotel} ELSE revived

JobQueued(j) ==
  /\ pending[j] > 0 /\ Len(queue) < MaxQueue
  /\ pending' = [pending EXCEPT ![j] = @ - 1]
  /\ queue' = Append(queue, AtWork(j, 0, FALSE))
  /\ NoteRevival(j)
  /\ UNCHANGED <<rows, stalled, process, index, dropped>>

\* The error is logged and swallowed
ScheduleFails(j) ==
  /\ pending[j] > 0
  /\ pending' = [pending EXCEPT ![j] = @ - 1]
  /\ dropped' = dropped \cup {j}
  /\ UNCHANGED <<rows, queue, stalled, process, index, revived>>

----------------------------------------------------------------------------
(* setupHotelIndexWorker: ensureIndex and syncAllHotelsToES *)

ListHotels ==
  /\ phase = "starting"
  /\ phase' = "syncing"
  /\ todo' = Active
  /\ UNCHANGED <<rows, pending, queue, stalled, worker, index, history>>

\* Elasticsearch or the query fails: no sync, and the worker is set up
SyncFails ==
  /\ phase = "starting"
  /\ phase' = "serving"
  /\ UNCHANGED <<rows, pending, queue, stalled, todo, worker, index, history>>

\* indexHotelNow reads the row again, deleted or not
SyncHotel(h) ==
  /\ phase = "syncing" /\ worker = NoJob /\ h \in todo
  /\ todo' = todo \ {h}
  /\ worker' = AtWork(IndexOf(h), version[h], TRUE)
  /\ UNCHANGED <<rows, pending, queue, stalled, phase, index, history>>

SyncDone ==
  /\ phase = "syncing" /\ worker = NoJob /\ todo = {}
  /\ phase' = "serving"
  /\ UNCHANGED <<rows, pending, queue, stalled, todo, worker, index, history>>

----------------------------------------------------------------------------
(* The worker *)

\* Fault: the row is read from a replica that is a version behind
FetchFromReplica ==
  /\ phase = "serving" /\ worker = NoJob /\ queue # <<>>
  /\ LET h == Head(queue).hotel
     IN  \E lag \in 0 .. 1 :
           worker' = [Head(queue) EXCEPT !.read = version[h] - lag]
  /\ queue' = Tail(queue)
  /\ UNCHANGED <<rows, pending, stalled, phase, todo, index, history>>

\* Fault: the newest job is taken first
FetchNewest ==
  /\ phase = "serving" /\ worker = NoJob /\ queue # <<>>
  /\ LET j == queue[Len(queue)]
     IN  worker' = [j EXCEPT !.read = version[j.hotel]]
  /\ queue' = SubSeq(queue, 1, Len(queue) - 1)
  /\ UNCHANGED <<rows, pending, stalled, phase, todo, index, history>>

\* The job is taken, and for an index job findByPk reads the row
FetchHotel ==
  /\ phase = "serving" /\ worker = NoJob /\ queue # <<>>
  /\ worker' = [Head(queue) EXCEPT !.read = version[Head(queue).hotel]]
  /\ queue' = Tail(queue)
  /\ UNCHANGED <<rows, pending, stalled, phase, todo, index, history>>

IndexDocument ==
  /\ worker # NoJob /\ worker.action = "index"
  /\ index' = [index EXCEPT ![worker.hotel] = worker.read]
  /\ worker' = NoJob
  /\ dropped' = IF worker.read = version[worker.hotel]
                THEN dropped \ {IndexOf(worker.hotel)} ELSE dropped
  /\ UNCHANGED <<rows, pending, queue, stalled, phase, todo, revived>>

\* A document that is not there is no error
DeleteDocument ==
  /\ worker # NoJob /\ worker.action = "delete"
  /\ index' = [index EXCEPT ![worker.hotel] = 0]
  /\ worker' = NoJob
  /\ dropped' = dropped \ {DeleteOf(worker.hotel)}
  /\ UNCHANGED <<rows, pending, queue, stalled, phase, todo, revived>>

\* A job that throws is not tried again, a hotel of the sync is logged
JobFails ==
  /\ worker # NoJob
  /\ worker' = NoJob
  /\ dropped' = dropped \cup {Job(worker.action, worker.hotel)}
  /\ UNCHANGED <<rows, pending, queue, stalled, phase, todo, index, revived>>

\* The process dies: calls to the queue are lost, the worker's job is stalled
\* unless it was before or belongs to the sync, and the service starts again
Crash ==
  /\ phase # "starting"
  /\ phase' = "starting"
  /\ todo' = {}
  /\ pending' = [j \in Jobs |-> 0]
  /\ worker' = NoJob
  /\ stalled' = IF worker # NoJob /\ ~ worker.again
                THEN stalled \cup {[worker EXCEPT !.read = 0, !.again = TRUE]}
                ELSE stalled
  /\ dropped' = dropped \cup {j \in Jobs : pending[j] > 0}
                        \cup (IF worker # NoJob /\ worker.again
                              THEN {Job(worker.action, worker.hotel)} ELSE {})
  /\ UNCHANGED <<rows, queue, index, revived>>

\* Fault: a stalled job counts as done
ForgetStalled(j) ==
  /\ j \in stalled /\ phase = "serving"
  /\ stalled' = stalled \ {j}
  /\ UNCHANGED <<rows, pending, queue, process, index, history>>

MoveStalledToWait(j) ==
  /\ j \in stalled /\ phase = "serving"
  /\ stalled' = stalled \ {j}
  /\ queue' = <<j>> \o queue
  /\ NoteRevival(j)
  /\ UNCHANGED <<rows, pending, process, index, dropped>>

----------------------------------------------------------------------------
Change(h) == CreateHotel(h) \/ UpdateHotel(h) \/ SoftDelete(h)

Sync == ListHotels \/ (\E h \in Hotels : SyncHotel(h)) \/ SyncDone

Work ==
  \/ Sync
  \/ FetchHotel \/ IndexDocument \/ DeleteDocument
  \/ \E j \in stalled : MoveStalledToWait(j)

Break == (\E j \in Jobs : ScheduleFails(j)) \/ SyncFails \/ JobFails \/ Crash

Next ==
  \/ \E h \in Hotels : Change(h)
  \/ \E j \in Jobs : JobQueued(j)
  \/ Work
  \/ Break

Spec == Init /\ [][Next]_vars

(***************************************************************************)
(* Fairness: a call to the queue reaches it or fails, and the process goes *)
(* on with its work or fails; crashes come to an end.                      *)
(***************************************************************************)
Fairness ==
  /\ \A j \in Jobs : WF_vars(JobQueued(j) \/ ScheduleFails(j))
  /\ WF_vars(Work \/ JobFails \/ SyncFails)
  /\ WF_vars(\E j \in stalled : MoveStalledToWait(j))
  /\ <>[][~ Crash]_vars

FairSpec == Spec /\ Fairness

----------------------------------------------------------------------------
TypeOK ==
  /\ version \in [Hotels -> 0 .. MaxVersion]
  /\ deleted \subseteq Hotels
  /\ pending \in [Jobs -> 0 .. MaxPending]
  /\ queue \in Seq(Items)
  /\ stalled \subseteq {j \in Items : j.again}
  /\ phase \in {"starting", "syncing", "serving"}
  /\ todo \subseteq Hotels
  /\ worker \in Items \cup {NoJob}
  /\ index \in [Hotels -> 0 .. MaxVersion]
  /\ dropped \subseteq Jobs
  /\ revived \subseteq Hotels

\* Nothing is on its way for the hotel any more
Settled(h) ==
  /\ \A j \in Jobs : j.hotel = h => pending[j] = 0
  /\ \A i \in DOMAIN queue : queue[i].hotel # h
  /\ \A j \in stalled : j.hotel # h
  /\ worker # NoJob => worker.hotel # h

\* When nothing is on its way for an active hotel and its last job was not
\* lost, search shows the row as it is: no job reads a row before the change
\* that scheduled it, although no job carries the row.
SettledIsCurrent ==
  \A h \in Active : Settled(h) /\ IndexOf(h) \notin dropped => index[h] = version[h]

\* A deleted hotel with nothing on its way is found by a search only if its
\* delete job was lost or an index job came into the queue after its deletion:
\* jobs that were queued before, and the startup sync, do not bring it back.
GhostsWereRevived ==
  \A h \in deleted :
    Settled(h) /\ DeleteOf(h) \notin dropped /\ h \notin revived
      => index[h] = 0

\* The document of a hotel never goes back to an older version of its row.
IndexNeverOlder ==
  [][\A h \in Hotels : index'[h] # 0 => index'[h] >= index[h]]_vars

\* Under FairSpec: a change of a hotel is searchable some time, unless the
\* hotel is deleted or a job of it is lost.
ChangeIsFound ==
  \A h \in Hotels, v \in 1 .. MaxVersion :
    version[h] = v ~>
      (index[h] >= v \/ h \in deleted \/ IndexOf(h) \in dropped)

=============================================================================
