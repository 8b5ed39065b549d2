------------------------ MODULE HotelIndexingProofs ------------------------
(***************************************************************************)
(* What search shows of a hotel, for every number of hotels, changes,      *)
(* crashes and jobs waiting.                                               *)
(*                                                                         *)
(* The properties speak of hotels with nothing on their way.  The          *)
(* invariant says what is on its way while there is: for an active hotel   *)
(* whose document is not its row, an index job that will read the row      *)
(* (Promised); for a deleted one that may be found, a delete job with no   *)
(* index job behind it (Leaving, NothingBehind).                           *)
(***************************************************************************)
EXTENDS HotelIndexing, TLAPS

\* Item j does a to hotel h; a queue has such an item; no delete of h before
\* an index of it
Is(j, a, h) == j.action = a /\ j.hotel = h
Has(q, a, h) == \E i \in DOMAIN q : Is(q[i], a, h)
Clear(q, h) ==
  \A i, j \in DOMAIN q : Is(q[i], "delete", h) /\ Is(q[j], "index", h) => j < i

AtWorkOn(a, h) == worker # NoJob /\ Is(worker, a, h)
Stalled(a, h) == \E j \in stalled : Is(j, a, h)
OnItsWay(a, h) ==
  pending[Job(a, h)] > 0 \/ Has(queue, a, h) \/ Stalled(a, h)

\* No document is ahead of its row, and none of what is carried to it
Behind ==
  /\ \A h \in Hotels : index[h] <= version[h]
  /\ worker # NoJob /\ worker.action = "index" =>
       /\ index[worker.hotel] <= worker.read
       /\ worker.read <= version[worker.hotel]

\* An index job to come, or the document is the row
Promised ==
  \A h \in Active : IndexOf(h) \notin dropped =>
    \/ index[h] = version[h]
    \/ OnItsWay("index", h)
    \/ AtWorkOn("index", h) /\ worker.read = version[h]

\* Only a deleted hotel has a delete job
DeletesOfDeleted ==
  \A h \in Hotels :
    OnItsWay("delete", h) \/ AtWorkOn("delete", h) => h \in deleted

\* What the phases leave
Phases ==
  /\ phase # "syncing" => todo = {}
  /\ phase = "starting" => worker = NoJob
  /\ worker # NoJob /\ worker.action = "delete" => phase = "serving"

\* Behind the delete job of a hotel is no index job of it
NothingBehind ==
  \A h \in Hotels \ revived :
    /\ Clear(queue, h)
    /\ Stalled("delete", h) \/ AtWorkOn("delete", h) => ~ Has(queue, "index", h)

\* A deleted hotel is on its way out, or out
Leaving ==
  \A h \in deleted \ revived : DeleteOf(h) \notin dropped =>
    \/ OnItsWay("delete", h) \/ AtWorkOn("delete", h)
    \/ /\ index[h] = 0 /\ h \notin todo
       /\ ~ AtWorkOn("index", h) /\ ~ Has(queue, "index", h)

IndexInv ==
  /\ TypeOK /\ Behind /\ Promised /\ DeletesOfDeleted
  /\ Phases /\ NothingBehind /\ Leaving

----------------------------------------------------------------------------
\* Jobs and items

\* A job is named by its action and hotel.
LEMMA JobType ==
  ASSUME NEW a \in {"index", "delete"}, NEW h \in Hotels
  PROVE  /\ Job(a, h) \in Jobs
         /\ Job(a, h).action = a /\ Job(a, h).hotel = h
         /\ \A b, g : Job(a, h) = Job(b, g) => a = b /\ h = g
  BY DEF Job, Jobs

\* A job put to work, with a row and a mark, is an item of its kind.
LEMMA ItemType ==
  ASSUME NEW j \in Jobs \cup Items, NEW v \in 0 .. MaxVersion,
         NEW again \in BOOLEAN
  PROVE  /\ AtWork(j, v, again) \in Items
         /\ AtWork(j, v, again).read = v
         /\ \A a, h : Is(AtWork(j, v, again), a, h) <=> Is(j, a, h)
  BY DEF Jobs, Items, AtWork, Is

\* A queue that gets a job at its end.
LEMMA AppendIs ==
  ASSUME NEW q \in Seq(Items), NEW x \in Items
  PROVE  /\ \A a, h : Has(Append(q, x), a, h) <=> Has(q, a, h) \/ Is(x, a, h)
         /\ \A h : Clear(q, h) /\ (Is(x, "index", h) => ~ Has(q, "delete", h))
                     => Clear(Append(q, x), h)
  <1>1. /\ DOMAIN Append(q, x) = 1 .. Len(q) + 1
        /\ DOMAIN q = 1 .. Len(q) /\ Len(q) \in Nat
        /\ \A i \in 1 .. Len(q) : Append(q, x)[i] = q[i]
        /\ Append(q, x)[Len(q) + 1] = x
    OBVIOUS
  <1>2. \A a, h : Has(Append(q, x), a, h) <=> Has(q, a, h) \/ Is(x, a, h)
    BY <1>1 DEF Has
  <1>3. ASSUME NEW h, Clear(q, h), Is(x, "index", h) => ~ Has(q, "delete", h)
        PROVE  Clear(Append(q, x), h)
    <2> SUFFICES ASSUME NEW i \in 1 .. Len(q) + 1, NEW j \in 1 .. Len(q) + 1,
                        Is(Append(q, x)[i], "delete", h),
                        Is(Append(q, x)[j], "index", h)
                 PROVE  j < i
      BY <1>1 DEF Clear
    <2>1. CASE j = Len(q) + 1 /\ i = Len(q) + 1
      BY <1>1, <2>1 DEF Is
    <2>2. CASE j = Len(q) + 1 /\ i \in 1 .. Len(q)
      BY <1>1, <1>3, <2>2 DEF Has
    <2>3. CASE j \in 1 .. Len(q) /\ i = Len(q) + 1
      BY <1>1, <2>3
    <2>4. CASE j \in 1 .. Len(q) /\ i \in 1 .. Len(q)
      BY <1>1, <1>3, <2>4 DEF Clear
    <2> QED
      BY <1>1, <2>1, <2>2, <2>3, <2>4
  <1> QED
    BY <1>2, <1>3

\* A queue whose first job is taken.
LEMMA TailIs ==
  ASSUME NEW q \in Seq(Items), q # <<>>
  PROVE  /\ Head(q) \in Items /\ Tail(q) \in Seq(Items)
         /\ \A a, h : Has(q, a, h) <=> Has(Tail(q), a, h) \/ Is(Head(q), a, h)
         /\ \A h : Clear(q, h) =>
              /\ Clear(Tail(q), h)
              /\ Is(Head(q), "delete", h) => ~ Has(Tail(q), "index", h)
  <1>1. /\ Len(q) \in Nat /\ Len(q) > 0 /\ DOMAIN q = 1 .. Len(q)
        /\ DOMAIN Tail(q) = 1 .. Len(q) - 1
        /\ \A i \in 1 .. Len(q) - 1 : Tail(q)[i] = q[i + 1]
        /\ Head(q) = q[1]
    OBVIOUS
  <1>2. Head(q) \in Items /\ Tail(q) \in Seq(Items)
    OBVIOUS
  <1>3. \A i \in 1 .. Len(q) :
          i = 1 \/ (i - 1 \in 1 .. Len(q) - 1 /\ q[i] = Tail(q)[i - 1])
    BY <1>1
  <1>4. \A a, h : Has(q, a, h) <=> Has(Tail(q), a, h) \/ Is(Head(q), a, h)
    <2>1. \A a, h : Has(q, a, h) => Has(Tail(q), a, h) \/ Is(Head(q), a, h)
      BY <1>1, <1>3 DEF Has
    <2>2. \A a, h : Has(Tail(q), a, h) \/ Is(Head(q), a, h) => Has(q, a, h)
      BY <1>1 DEF Has
    <2> QED
      BY <2>1, <2>2
  <1>5. ASSUME NEW h, Clear(q, h)
        PROVE  /\ Clear(Tail(q), h)
               /\ Is(Head(q), "delete", h) => ~ Has(Tail(q), "index", h)
    BY <1>1, <1>5 DEF Clear, Has
  <1> QED
    BY <1>2, <1>4, <1>5

\* A queue that gets a job at its front.
LEMMA PushIs ==
  ASSUME NEW q \in Seq(Items), NEW x \in Items
  PROVE  /\ <<x>> \o q \in Seq(Items)
         /\ \A a, h : Has(<<x>> \o q, a, h) <=> Has(q, a, h) \/ Is(x, a, h)
         /\ \A h : Clear(q, h) /\ (Is(x, "delete", h) => ~ Has(q, "index", h))
                     => Clear(<<x>> \o q, h)
  <1> DEFINE p == <<x>> \o q
  <1>1. p \in Seq(Items) /\ p # <<>> /\ Head(p) = x /\ Tail(p) = q
    OBVIOUS
  <1>2. /\ DOMAIN p = 1 .. Len(q) + 1 /\ DOMAIN q = 1 .. Len(q)
        /\ Len(q) \in Nat /\ p[1] = x
        /\ \A i \in 2 .. Len(q) + 1 : i - 1 \in 1 .. Len(q) /\ p[i] = q[i - 1]
    OBVIOUS
  <1> HIDE DEF p
  <1>3. \A a, h : Has(p, a, h) <=> Has(q, a, h) \/ Is(x, a, h)
    BY <1>1, TailIs
  <1>4. ASSUME NEW h, Clear(q, h), Is(x, "delete", h) => ~ Has(q, "index", h)
        PROVE  Clear(p, h)
    <2> SUFFICES ASSUME NEW i \in 1 .. Len(q) + 1, NEW j \in 1 .. Len(q) + 1,
                        Is(p[i], "delete", h), Is(p[j], "index", h)
                 PROVE  j < i
      BY <1>2 DEF Clear
    <2>1. CASE i = 1 /\ j = 1
      BY <1>2, <2>1 DEF Is
    <2>2. CASE i = 1 /\ j # 1
      BY <1>2, <1>4, <2>2 DEF Has
    <2>3. CASE i # 1 /\ j = 1
      BY <1>2, <2>3
    <2>4. CASE i # 1 /\ j # 1
      BY <1>2, <1>4, <2>4 DEF Clear
    <2> QED
      BY <2>1, <2>2, <2>3, <2>4
  <1> QED
    BY <1>1, <1>3, <1>4 DEF p

----------------------------------------------------------------------------
\* The invariant holds before the first hotel.
LEMMA IndexInitially == Init => IndexInv
  <1> SUFFICES ASSUME Init PROVE IndexInv
    OBVIOUS
  <1>1. TypeOK
    BY HotelIndexingAssumption DEF Init, TypeOK
  <1>2. \A a \in {"index", "delete"}, h \in Hotels : ~ OnItsWay(a, h)
    <2> SUFFICES ASSUME NEW a \in {"index", "delete"}, NEW h \in Hotels
                 PROVE  ~ OnItsWay(a, h)
      OBVIOUS
    <2>1. ~ Has(queue, a, h)
      BY DEF Init, Has
    <2>2. ~ Stalled(a, h)
      BY DEF Init, Stalled
    <2>3. pending[Job(a, h)] = 0
      BY JobType DEF Init
    <2> QED
      BY <2>1, <2>2, <2>3 DEF OnItsWay
  <1>3. Active = {}
    BY DEF Init, Active
  <1> QED
    BY <1>1, <1>2, <1>3
       DEF Init, IndexInv, Behind, Promised, DeletesOfDeleted, AtWorkOn,
           Phases, NothingBehind, Leaving, Has, Stalled, Clear

----------------------------------------------------------------------------
\* Steps that leave the hotels, the documents and the worker, and take nothing
\* out of the system but what they note as lost.
LEMMA Moved ==
  ASSUME IndexInv, TypeOK',
         UNCHANGED <<rows, process, index>>,
         dropped \subseteq dropped', revived \subseteq revived',
         \A a \in {"index", "delete"}, h \in Hotels :
           OnItsWay(a, h) => OnItsWay(a, h)' \/ Job(a, h) \in dropped',
         \A h \in Hotels :
           /\ OnItsWay("delete", h)' => OnItsWay("delete", h)
           /\ h \in deleted \ revived' =>
                (Has(queue', "index", h) => Has(queue, "index", h))
           /\ h \in Hotels \ revived' /\ Clear(queue, h) => Clear(queue', h)
           /\ h \in Hotels \ revived' /\ Stalled("delete", h)' =>
                ~ Has(queue', "index", h)
  PROVE  IndexInv'
  <1>1. /\ UNCHANGED <<version, deleted, phase, todo, worker, index>>
        /\ Active' = Active
        /\ \A a, h : AtWorkOn(a, h)' <=> AtWorkOn(a, h)
    BY DEF rows, process, Active, AtWorkOn
  <1>2. Behind' /\ Phases'
    BY <1>1 DEF IndexInv, Behind, Phases
  <1>3. Promised'
    BY <1>1 DEF IndexInv, Promised, IndexOf, Active
  <1>4. DeletesOfDeleted'
    BY <1>1 DEF IndexInv, DeletesOfDeleted
  <1>5. NothingBehind'
    <2> SUFFICES ASSUME NEW h \in Hotels, h \notin revived'
                 PROVE  /\ Clear(queue', h)
                        /\ Stalled("delete", h)' \/ AtWorkOn("delete", h)'
                             => ~ Has(queue', "index", h)
      BY DEF NothingBehind
    <2>1. h \notin revived /\ Clear(queue, h)
      BY DEF IndexInv, NothingBehind
    <2>2. ASSUME AtWorkOn("delete", h)' PROVE ~ Has(queue', "index", h)
      <3>1. AtWorkOn("delete", h) /\ h \in deleted
        BY <1>1, <2>2 DEF IndexInv, DeletesOfDeleted
      <3> QED
        BY <2>1, <3>1 DEF IndexInv, NothingBehind
    <2> QED
      BY <2>1, <2>2
  <1>6. Leaving'
    <2> SUFFICES ASSUME NEW h \in Hotels, h \in deleted, h \notin revived',
                        DeleteOf(h) \notin dropped'
                 PROVE  \/ OnItsWay("delete", h)' \/ AtWorkOn("delete", h)'
                        \/ /\ index'[h] = 0 /\ h \notin todo'
                           /\ ~ AtWorkOn("index", h)'
                           /\ ~ Has(queue', "index", h)
      BY <1>1 DEF Leaving, IndexInv, TypeOK
    <2>1. \/ OnItsWay("delete", h) \/ AtWorkOn("delete", h)
          \/ /\ index[h] = 0 /\ h \notin todo
             /\ ~ AtWorkOn("index", h) /\ ~ Has(queue, "index", h)
      BY DEF IndexInv, Leaving
    <2> QED
      BY <1>1, <2>1 DEF DeleteOf
  <1> QED
    BY <1>2, <1>3, <1>4, <1>5, <1>6 DEF IndexInv

\* A job reaches the queue, behind all others.
LEMMA QueuedKeeps ==
  ASSUME IndexInv, NEW j \in Jobs, JobQueued(j)
  PROVE  IndexInv'
  <1>1. PICK x \in Items : /\ queue' = Append(queue, x)
                           /\ \A a, h : Is(x, a, h) <=> Is(j, a, h)
    <2>1. 0 \in 0 .. MaxVersion /\ FALSE \in BOOLEAN
      BY HotelIndexingAssumption
    <2> QED
      BY <2>1, ItemType DEF JobQueued
  <1>2. \A a \in {"index", "delete"}, h \in Hotels : Is(j, a, h) <=> j = Job(a, h)
    BY DEF Is, Job, Jobs
  <1>3. queue \in Seq(Items) /\ pending \in [Jobs -> 0 .. MaxPending]
    BY DEF IndexInv, TypeOK
  <1>4. /\ \A a, h : Has(queue', a, h) <=> Has(queue, a, h) \/ Is(j, a, h)
        /\ \A h : /\ Clear(queue, h)
                  /\ Is(j, "index", h) => ~ Has(queue, "delete", h)
                  => Clear(queue', h)
    BY <1>1, <1>3, AppendIs
  <1>5. pending[j] > 0 /\ pending' = [pending EXCEPT ![j] = @ - 1]
        /\ stalled' = stalled
    BY DEF JobQueued
  <1>6. /\ pending' \in [Jobs -> 0 .. MaxPending]
        /\ \A i \in Jobs \ {j} : pending'[i] = pending[i]
    BY <1>3, <1>5, HotelIndexingAssumption
  <1>7. ASSUME NEW a \in {"index", "delete"}, NEW h \in Hotels
        PROVE  OnItsWay(a, h)' <=> OnItsWay(a, h)
    <2>1. Job(a, h) \in Jobs /\ (Stalled(a, h)' <=> Stalled(a, h))
      BY <1>5, JobType DEF Stalled
    <2>2. CASE Job(a, h) = j
      BY <1>2, <1>4, <1>5, <2>2 DEF OnItsWay
    <2>3. CASE Job(a, h) # j
      BY <1>2, <1>4, <1>6, <2>1, <2>3 DEF OnItsWay
    <2> QED
      BY <2>2, <2>3
  <1>8. /\ revived \subseteq revived' /\ revived' \subseteq Hotels
        /\ \A h \in deleted \ revived' : ~ Is(j, "index", h)
    BY DEF IndexInv, TypeOK, JobQueued, NoteRevival, Is, Jobs
  <1>9. TypeOK'
    <2>1. queue' \in Seq(Items)
      BY <1>1, <1>3
    <2> QED
      BY <1>6, <1>8, <2>1 DEF IndexInv, TypeOK, JobQueued, rows, process
  <1>10. ASSUME NEW h \in Hotels, h \notin revived'
         PROVE  /\ Clear(queue, h) => Clear(queue', h)
                /\ Stalled("delete", h)' => ~ Has(queue', "index", h)
    <2>1. h \in deleted => ~ Is(j, "index", h)
      BY <1>8, <1>10
    <2>2. Has(queue, "delete", h) \/ Stalled("delete", h) => h \in deleted
      BY DEF IndexInv, DeletesOfDeleted, OnItsWay
    <2>3. Stalled("delete", h) => ~ Has(queue, "index", h)
      BY <1>8, <1>10 DEF IndexInv, NothingBehind
    <2>4. Stalled("delete", h)' <=> Stalled("delete", h)
      BY <1>5 DEF Stalled
    <2> QED
      BY <1>4, <2>1, <2>2, <2>3, <2>4
  <1> QED
    BY <1>4, <1>7, <1>8, <1>9, <1>10, Moved DEF JobQueued

\* A job does not reach it.
LEMMA LostKeeps ==
  ASSUME IndexInv, NEW j \in Jobs, ScheduleFails(j)
  PROVE  IndexInv'
  <1>1. pending \in [Jobs -> 0 .. MaxPending]
    BY DEF IndexInv, TypeOK
  <1>2. pending[j] > 0 /\ pending' = [pending EXCEPT ![j] = @ - 1]
        /\ stalled' = stalled /\ queue' = queue /\ revived' = revived
        /\ dropped' = dropped \cup {j}
    BY DEF ScheduleFails
  <1>3. /\ pending' \in [Jobs -> 0 .. MaxPending]
        /\ \A i \in Jobs \ {j} : pending'[i] = pending[i]
    BY <1>1, <1>2, HotelIndexingAssumption
  <1>4. ASSUME NEW a \in {"index", "delete"}, NEW h \in Hotels
        PROVE  /\ OnItsWay(a, h)' => OnItsWay(a, h)
               /\ OnItsWay(a, h) => OnItsWay(a, h)' \/ Job(a, h) \in dropped'
    <2>1. Job(a, h) \in Jobs /\ (Stalled(a, h)' <=> Stalled(a, h))
      BY <1>2, JobType DEF Stalled
    <2>2. CASE Job(a, h) = j
      BY <1>2, <2>1, <2>2 DEF OnItsWay
    <2>3. CASE Job(a, h) # j
      BY <1>2, <1>3, <2>1, <2>3 DEF OnItsWay
    <2> QED
      BY <2>2, <2>3
  <1>5. TypeOK'
    BY <1>2, <1>3 DEF IndexInv, TypeOK, ScheduleFails, rows, process
  <1>6. \A h \in Hotels \ revived' :
          Stalled("delete", h)' => ~ Has(queue', "index", h)
    BY <1>2 DEF IndexInv, NothingBehind, Stalled
  <1> QED
    BY <1>2, <1>4, <1>5, <1>6, Moved DEF ScheduleFails

\* A stalled job is put before all others.
LEMMA StalledKeeps ==
  ASSUME IndexInv, NEW j \in stalled, MoveStalledToWait(j)
  PROVE  IndexInv'
  <1>1. j \in Items /\ queue \in Seq(Items) /\ stalled \subseteq Items
    BY DEF IndexInv, TypeOK
  <1>2. /\ queue' \in Seq(Items)
        /\ \A a, h : Has(queue', a, h) <=> Has(queue, a, h) \/ Is(j, a, h)
        /\ \A h : /\ Clear(queue, h)
                  /\ Is(j, "delete", h) => ~ Has(queue, "index", h)
                  => Clear(queue', h)
    BY <1>1, PushIs DEF MoveStalledToWait
  <1>3. \A a, h : /\ Stalled(a, h) <=> Stalled(a, h)' \/ Is(j, a, h)
                  /\ Stalled(a, h)' => Stalled(a, h)
    BY DEF Stalled, MoveStalledToWait
  <1>4. ASSUME NEW a \in {"index", "delete"}, NEW h \in Hotels
        PROVE  OnItsWay(a, h)' <=> OnItsWay(a, h)
    BY <1>2, <1>3 DEF OnItsWay, MoveStalledToWait
  <1>5. /\ revived \subseteq revived' /\ revived' \subseteq Hotels
        /\ \A h \in deleted \ revived' : ~ Is(j, "index", h)
    BY <1>1 DEF IndexInv, TypeOK, MoveStalledToWait, NoteRevival, Is, Items
  <1>6. TypeOK'
    BY <1>2, <1>5 DEF IndexInv, TypeOK, MoveStalledToWait, rows, process
  <1>7. ASSUME NEW h \in Hotels, h \notin revived'
        PROVE  /\ Clear(queue, h) => Clear(queue', h)
               /\ Stalled("delete", h)' => ~ Has(queue', "index", h)
    <2>1. h \in deleted => ~ Is(j, "index", h)
      BY <1>5, <1>7
    <2>2. Stalled("delete", h) => h \in deleted
      BY DEF IndexInv, DeletesOfDeleted, OnItsWay
    <2>3. Stalled("delete", h) => ~ Has(queue, "index", h)
      BY <1>5, <1>7 DEF IndexInv, NothingBehind
    <2> QED
      BY <1>2, <1>3, <2>1, <2>2, <2>3
  <1> QED
    BY <1>2, <1>4, <1>5, <1>6, <1>7, Moved DEF MoveStalledToWait

\* A hotel changes, and its job is on the way.
LEMMA ChangedKeeps ==
  ASSUME IndexInv, NEW h \in Hotels, Change(h)
  PROVE  IndexInv'
  <1>1. PICK j \in Jobs :
          /\ ScheduleIndex(j)
          /\ \/ j = IndexOf(h) /\ deleted' = deleted
             \/ /\ j = DeleteOf(h) /\ deleted' = deleted \cup {h}
                /\ version' = version
    <2>1. IndexOf(h) \in Jobs /\ DeleteOf(h) \in Jobs
      BY JobType DEF IndexOf, DeleteOf
    <2> QED
      BY <2>1 DEF Change, CreateHotel, UpdateHotel, SoftDelete
  <1>2. UNCHANGED <<queue, stalled, process, index, history>>
    BY DEF Change, CreateHotel, UpdateHotel, SoftDelete
  <1>3. /\ version' \in [Hotels -> 0 .. MaxVersion]
        /\ \A g \in Hotels : version[g] <= version'[g]
        /\ \A g \in Hotels \ {h} : version'[g] = version[g]
    <2>1. version \in [Hotels -> 0 .. MaxVersion]
      BY DEF IndexInv, TypeOK
    <2>2. \/ version' = version
          \/ /\ version' = [version EXCEPT ![h] = version[h] + 1]
             /\ version[h] < MaxVersion
      BY <2>1, HotelIndexingAssumption
         DEF Change, CreateHotel, UpdateHotel, SoftDelete
    <2> QED
      BY <2>1, <2>2, HotelIndexingAssumption
  <1>4. /\ pending' \in [Jobs -> 0 .. MaxPending] /\ pending'[j] > 0
        /\ \A i \in Jobs \ {j} : pending'[i] = pending[i]
    BY <1>1, HotelIndexingAssumption DEF ScheduleIndex, IndexInv, TypeOK
  <1>5. /\ \A a, g : AtWorkOn(a, g)' <=> AtWorkOn(a, g)
        /\ \A a, g : Stalled(a, g)' <=> Stalled(a, g)
        /\ queue' = queue
    BY <1>2 DEF process, AtWorkOn, Stalled
  <1>6. ASSUME NEW a \in {"index", "delete"}, NEW g \in Hotels
        PROVE  /\ OnItsWay(a, g) => OnItsWay(a, g)'
               /\ OnItsWay(a, g)' => OnItsWay(a, g) \/ Job(a, g) = j
               /\ Job(a, g) = j => OnItsWay(a, g)'
    <2>1. Job(a, g) \in Jobs
      BY JobType
    <2>2. CASE Job(a, g) = j
      BY <1>4, <2>2 DEF OnItsWay
    <2>3. CASE Job(a, g) # j
      BY <1>4, <1>5, <2>1, <2>3 DEF OnItsWay
    <2> QED
      BY <2>2, <2>3
  <1>7. TypeOK'
    BY <1>1, <1>2, <1>3, <1>4 DEF IndexInv, TypeOK, process, history
  <1>8. Behind'
    <2>1. UNCHANGED <<index, worker>> /\ worker \in Items \cup {NoJob}
      BY <1>2 DEF process, IndexInv, TypeOK
    <2>2. /\ index \in [Hotels -> 0 .. MaxVersion]
          /\ version \in [Hotels -> 0 .. MaxVersion]
      BY DEF IndexInv, TypeOK
    <2>3. \A g \in Hotels : index'[g] <= version'[g]
      BY <1>3, <2>1, <2>2 DEF IndexInv, Behind
    <2>4. ASSUME worker # NoJob, worker.action = "index"
          PROVE  /\ index[worker.hotel] <= worker.read
                 /\ worker.read <= version'[worker.hotel]
      <3>1. worker.hotel \in Hotels /\ worker.read \in 0 .. MaxVersion
        BY <2>1, <2>4 DEF Items
      <3>2. /\ index[worker.hotel] <= worker.read
            /\ worker.read <= version[worker.hotel]
        BY <2>4 DEF IndexInv, Behind
      <3> QED
        BY <1>3, <2>2, <3>1, <3>2
    <2> QED
      BY <2>1, <2>3, <2>4 DEF Behind
  <1>9. Promised'
    <2> SUFFICES ASSUME NEW g \in Hotels, g \in Active',
                        IndexOf(g) \notin dropped'
                 PROVE  \/ index'[g] = version'[g]
                        \/ OnItsWay("index", g)'
                        \/ AtWorkOn("index", g)' /\ worker'.read = version'[g]
      BY DEF Promised, Active, IndexOf
    <2>1. CASE IndexOf(g) = j
      BY <1>6, <2>1 DEF IndexOf
    <2>2. CASE IndexOf(g) # j
      <3>1. version'[g] = version[g] /\ g \in Active
        BY <1>1, <1>3, <2>2 DEF Active, IndexOf, DeleteOf
      <3>2. \/ index[g] = version[g]
            \/ OnItsWay("index", g)
            \/ AtWorkOn("index", g) /\ worker.read = version[g]
        BY <1>2, <3>1 DEF IndexInv, Promised, history
      <3> QED
        BY <1>2, <1>5, <1>6, <3>1, <3>2 DEF process
    <2> QED
      BY <2>1, <2>2
  <1>10. DeletesOfDeleted'
    <2> SUFFICES ASSUME NEW g \in Hotels,
                        OnItsWay("delete", g)' \/ AtWorkOn("delete", g)'
                 PROVE  g \in deleted'
      BY DEF DeletesOfDeleted
    <2>1. OnItsWay("delete", g) \/ AtWorkOn("delete", g) \/ Job("delete", g) = j
      BY <1>5, <1>6
    <2>2. Job("delete", g) = j => g \in deleted'
      BY <1>1, JobType DEF IndexOf, DeleteOf
    <2> QED
      BY <1>1, <2>1, <2>2 DEF IndexInv, DeletesOfDeleted
  <1>11. Phases'
    BY <1>2 DEF IndexInv, Phases, process
  <1>12. NothingBehind'
    BY <1>2, <1>5 DEF IndexInv, NothingBehind, history
  <1>13. Leaving'
    <2> SUFFICES ASSUME NEW g \in Hotels, g \in deleted', g \notin revived',
                        DeleteOf(g) \notin dropped'
                 PROVE  \/ OnItsWay("delete", g)' \/ AtWorkOn("delete", g)'
                        \/ /\ index'[g] = 0 /\ g \notin todo'
                           /\ ~ AtWorkOn("index", g)'
                           /\ ~ Has(queue', "index", g)
      BY <1>7 DEF Leaving, TypeOK
    <2>1. CASE DeleteOf(g) = j
      BY <1>6, <2>1 DEF DeleteOf
    <2>2. CASE DeleteOf(g) # j
      <3>1. g \in deleted
        BY <1>1, <2>2
      <3>2. \/ OnItsWay("delete", g) \/ AtWorkOn("delete", g)
            \/ /\ index[g] = 0 /\ g \notin todo
               /\ ~ AtWorkOn("index", g) /\ ~ Has(queue, "index", g)
        BY <1>2, <3>1 DEF IndexInv, Leaving, history
      <3> QED
        BY <1>2, <1>5, <1>6, <3>2 DEF process
    <2> QED
      BY <2>1, <2>2
  <1> QED
    BY <1>7, <1>8, <1>9, <1>10, <1>11, <1>12, <1>13 DEF IndexInv

----------------------------------------------------------------------------
\* The startup sync lists the active hotels, is given up, or ends.
LEMMA SyncPhaseKeeps ==
  ASSUME IndexInv, ListHotels \/ SyncFails \/ SyncDone
  PROVE  IndexInv'
  <1>1. /\ UNCHANGED <<rows, pending, queue, stalled, worker, index, history>>
        /\ \A h \in todo' : h \in todo \/ h \in Active
    BY DEF ListHotels, SyncFails, SyncDone
  <1>2. /\ Active' = Active
        /\ \A a, h : AtWorkOn(a, h)' <=> AtWorkOn(a, h)
        /\ \A a, h : Stalled(a, h)' <=> Stalled(a, h)
        /\ \A a, h : OnItsWay(a, h)' <=> OnItsWay(a, h)
    BY <1>1 DEF rows, Active, AtWorkOn, Stalled, OnItsWay
  <1>3. TypeOK'
    BY <1>1 DEF ListHotels, SyncFails, SyncDone, IndexInv, TypeOK, Active,
                rows, history
  <1>4. Behind' /\ Promised' /\ DeletesOfDeleted' /\ NothingBehind'
    BY <1>1, <1>2 DEF IndexInv, Behind, Promised, DeletesOfDeleted,
                      NothingBehind, rows, history, IndexOf
  <1>5. Phases'
    BY <1>1 DEF ListHotels, SyncFails, SyncDone, IndexInv, Phases
  <1>6. Leaving'
    BY <1>1, <1>2 DEF IndexInv, Leaving, rows, history, Active, DeleteOf
  <1> QED
    BY <1>3, <1>4, <1>5, <1>6 DEF IndexInv

\* The sync reads the row of a hotel.
LEMMA SyncHotelKeeps ==
  ASSUME IndexInv, NEW h \in Hotels, SyncHotel(h)
  PROVE  IndexInv'
  <1>1. version[h] \in 0 .. MaxVersion /\ IndexOf(h) \in Jobs
    BY JobType DEF IndexInv, TypeOK, IndexOf
  <1>2. /\ worker' \in Items /\ worker'.read = version[h]
        /\ \A a, g : Is(worker', a, g) <=> a = "index" /\ g = h
    <2>1. \A a, g : Is(IndexOf(h), a, g) <=> a = "index" /\ g = h
      BY DEF Is, IndexOf, Job
    <2>2. worker' = AtWork(IndexOf(h), version[h], TRUE) /\ TRUE \in BOOLEAN
      BY DEF SyncHotel
    <2> QED
      BY <1>1, <2>1, <2>2, ItemType
  <1>3. /\ UNCHANGED <<version, deleted, pending, queue, stalled, phase, index,
                       dropped, revived>>
        /\ phase = "syncing" /\ worker = NoJob /\ h \in todo
        /\ todo' = todo \ {h}
    BY DEF SyncHotel, rows, history
  <1>4. /\ Active' = Active
        /\ \A a, g : Stalled(a, g)' <=> Stalled(a, g)
        /\ \A a, g : OnItsWay(a, g)' <=> OnItsWay(a, g)
        /\ \A a, g : ~ AtWorkOn(a, g)
        /\ \A a, g : AtWorkOn(a, g)' => a = "index" /\ g = h
    BY <1>2, <1>3 DEF Active, Stalled, OnItsWay, AtWorkOn
  <1>5. TypeOK'
    BY <1>2, <1>3 DEF IndexInv, TypeOK
  <1>6. Behind'
    <2>1. worker'.hotel = h /\ worker'.action = "index"
      BY <1>2 DEF Is
    <2> QED
      BY <1>1, <1>2, <1>3, <2>1 DEF IndexInv, Behind
  <1>7. Promised' /\ DeletesOfDeleted' /\ NothingBehind'
    BY <1>3, <1>4
       DEF IndexInv, Promised, DeletesOfDeleted, NothingBehind, IndexOf
  <1>8. Phases'
    BY <1>2, <1>3 DEF IndexInv, Phases, Is
  <1>9. Leaving'
    BY <1>3, <1>4 DEF IndexInv, Leaving, DeleteOf
  <1> QED
    BY <1>5, <1>6, <1>7, <1>8, <1>9 DEF IndexInv

\* The worker takes the first job, with the row it reads.
LEMMA FetchKeeps ==
  ASSUME IndexInv, FetchHotel
  PROVE  IndexInv'
  <1> DEFINE x == Head(queue)
  <1>1. /\ queue \in Seq(Items) /\ queue # <<>> /\ queue' = Tail(queue)
        /\ worker = NoJob /\ phase = "serving"
        /\ UNCHANGED <<version, deleted, pending, stalled, phase, todo, index,
                       dropped, revived>>
    BY DEF IndexInv, TypeOK, FetchHotel, rows, history
  <1>2. /\ x \in Items /\ queue' \in Seq(Items)
        /\ \A a, h : Has(queue, a, h) <=> Has(queue', a, h) \/ Is(x, a, h)
        /\ \A h : Clear(queue, h) =>
             /\ Clear(queue', h)
             /\ Is(x, "delete", h) => ~ Has(queue', "index", h)
    BY <1>1, TailIs
  <1>3. x.hotel \in Hotels /\ version[x.hotel] \in 0 .. MaxVersion
    BY <1>2 DEF Items, IndexInv, TypeOK
  <1>4. /\ worker' \in Items /\ worker'.read = version[x.hotel]
        /\ worker'.hotel = x.hotel /\ worker'.action = x.action
    BY <1>2, <1>3 DEF FetchHotel, Items
  <1> HIDE DEF x
  <1>5. worker' # NoJob /\ \A a, h : Is(worker', a, h) <=> Is(x, a, h)
    BY <1>4, HotelIndexingAssumption DEF Is
  <1>6. /\ Active' = Active
        /\ \A a, h : Stalled(a, h)' <=> Stalled(a, h)
        /\ \A a, h : OnItsWay(a, h) <=> OnItsWay(a, h)' \/ Is(x, a, h)
        /\ \A a, h : ~ AtWorkOn(a, h) /\ (AtWorkOn(a, h)' <=> Is(x, a, h))
    BY <1>1, <1>2, <1>5 DEF Active, Stalled, OnItsWay, AtWorkOn
  <1>7. TypeOK'
    BY <1>1, <1>2, <1>4 DEF IndexInv, TypeOK
  <1>8. Behind'
    BY <1>1, <1>3, <1>4 DEF IndexInv, Behind
  <1>9. Promised'
    <2>1. \A h : Is(x, "index", h) => worker'.read = version[h]
      BY <1>4 DEF Is
    <2> QED
      BY <1>1, <1>6, <2>1 DEF IndexInv, Promised, IndexOf
  <1>10. DeletesOfDeleted'
    BY <1>1, <1>6 DEF IndexInv, DeletesOfDeleted
  <1>11. Phases'
    BY <1>1 DEF IndexInv, Phases
  <1>12. NothingBehind'
    BY <1>1, <1>2, <1>6 DEF IndexInv, NothingBehind
  <1>13. Leaving'
    BY <1>1, <1>2, <1>6 DEF IndexInv, Leaving, DeleteOf
  <1> QED
    BY <1>7, <1>8, <1>9, <1>10, <1>11, <1>12, <1>13 DEF IndexInv

\* What every end of a job leaves.
LEMMA WorkEnds ==
  ASSUME IndexInv, IndexDocument \/ DeleteDocument \/ JobFails
  PROVE  /\ UNCHANGED <<version, deleted, pending, queue, stalled, phase, todo,
                        revived>>
         /\ worker \in Items /\ worker # NoJob /\ worker' = NoJob
         /\ worker.hotel \in Hotels /\ worker.read \in 0 .. MaxVersion
         /\ worker.action \in {"index", "delete"}
         /\ Active' = Active
         /\ \A a, h : Stalled(a, h)' <=> Stalled(a, h)
         /\ \A a, h : OnItsWay(a, h)' <=> OnItsWay(a, h)
         /\ \A a, h : ~ AtWorkOn(a, h)'
         /\ \A a, h : AtWorkOn(a, h) <=> worker.action = a /\ worker.hotel = h
         /\ DeletesOfDeleted' /\ Phases' /\ NothingBehind'
  <1>1. /\ UNCHANGED <<version, deleted, pending, queue, stalled, phase, todo,
                       revived>>
        /\ worker # NoJob /\ worker' = NoJob
    BY DEF IndexDocument, DeleteDocument, JobFails, rows
  <1>2. worker \in Items
    BY <1>1 DEF IndexInv, TypeOK
  <1>3. /\ Active' = Active
        /\ \A a, h : Stalled(a, h)' <=> Stalled(a, h)
        /\ \A a, h : OnItsWay(a, h)' <=> OnItsWay(a, h)
        /\ \A a, h : ~ AtWorkOn(a, h)'
        /\ \A a, h : AtWorkOn(a, h) <=> worker.action = a /\ worker.hotel = h
    BY <1>1 DEF Active, Stalled, OnItsWay, AtWorkOn, Is
  <1>4. DeletesOfDeleted' /\ Phases' /\ NothingBehind'
    BY <1>1, <1>3 DEF IndexInv, DeletesOfDeleted, Phases, NothingBehind
  <1> QED
    BY <1>1, <1>2, <1>3, <1>4 DEF Items

\* A document is written.
LEMMA WrittenKeeps ==
  ASSUME IndexInv, IndexDocument
  PROVE  IndexInv'
  <1> DEFINE h == worker.hotel
  <1>1. /\ index \in [Hotels -> 0 .. MaxVersion]
        /\ version \in [Hotels -> 0 .. MaxVersion]
        /\ index' = [index EXCEPT ![h] = worker.read]
        /\ worker.action = "index"
        /\ index[h] <= worker.read /\ worker.read <= version[h]
    BY DEF IndexInv, TypeOK, IndexDocument, Behind
  <1>2. /\ dropped' \subseteq dropped
        /\ \A j \in dropped \ dropped' :
             j = IndexOf(h) /\ worker.read = version[h]
    BY DEF IndexDocument
  <1>3. TypeOK'
    BY <1>1, <1>2, WorkEnds DEF IndexInv, TypeOK
  <1>4. Behind'
    BY <1>1, WorkEnds DEF IndexInv, Behind
  <1>5. Promised'
    <2> SUFFICES ASSUME NEW g \in Hotels, g \in Active,
                        IndexOf(g) \notin dropped'
                 PROVE  index'[g] = version[g] \/ OnItsWay("index", g)
      BY WorkEnds DEF Promised, Active, IndexOf
    <2>1. CASE IndexOf(g) \in dropped
      <3>1. IndexOf(g) = IndexOf(h) /\ worker.read = version[h]
        BY <1>2, <2>1
      <3>2. g = h
        BY <3>1, JobType DEF IndexOf
      <3> QED
        BY <1>1, <3>1, <3>2
    <2>2. CASE IndexOf(g) \notin dropped
      <3>1. \/ index[g] = version[g] \/ OnItsWay("index", g)
            \/ g = h /\ worker.read = version[g]
        BY <2>2, WorkEnds DEF IndexInv, Promised
      <3>2. CASE g = h
        BY <1>1, <3>1, <3>2, WorkEnds
      <3>3. CASE g # h
        BY <1>1, <3>1, <3>3
      <3> QED
        BY <3>2, <3>3
    <2> QED
      BY <2>1, <2>2
  <1>6. Leaving'
    <2> SUFFICES ASSUME NEW g \in Hotels, g \in deleted, g \notin revived,
                        DeleteOf(g) \notin dropped'
                 PROVE  \/ OnItsWay("delete", g)
                        \/ /\ index'[g] = 0 /\ g \notin todo
                           /\ ~ Has(queue, "index", g)
      BY <1>3, WorkEnds DEF Leaving, TypeOK
    <2>1. DeleteOf(g) \notin dropped
      BY <1>2, WorkEnds, JobType DEF IndexOf, DeleteOf
    <2>2. \/ OnItsWay("delete", g) \/ AtWorkOn("delete", g)
          \/ /\ index[g] = 0 /\ g \notin todo
             /\ ~ AtWorkOn("index", g) /\ ~ Has(queue, "index", g)
      BY <2>1 DEF IndexInv, Leaving
    <2> QED
      BY <1>1, <2>2, WorkEnds
  <1> QED
    BY <1>3, <1>4, <1>5, <1>6, WorkEnds DEF IndexInv

\* A document is deleted.
LEMMA ErasedKeeps ==
  ASSUME IndexInv, DeleteDocument
  PROVE  IndexInv'
  <1> DEFINE h == worker.hotel
  <1>1. /\ index \in [Hotels -> 0 .. MaxVersion]
        /\ version \in [Hotels -> 0 .. MaxVersion]
        /\ index' = [index EXCEPT ![h] = 0]
        /\ dropped' = dropped \ {DeleteOf(h)}
        /\ worker.action = "delete"
    BY DEF IndexInv, TypeOK, DeleteDocument
  <1>2. h \in deleted /\ todo = {}
    BY <1>1, WorkEnds DEF IndexInv, DeletesOfDeleted, Phases
  <1>3. TypeOK'
    BY <1>1, WorkEnds, HotelIndexingAssumption DEF IndexInv, TypeOK
  <1>4. Behind'
    BY <1>1, WorkEnds DEF IndexInv, Behind
  <1>5. Promised'
    <2> SUFFICES ASSUME NEW g \in Hotels, g \in Active,
                        IndexOf(g) \notin dropped'
                 PROVE  index'[g] = version[g] \/ OnItsWay("index", g)
      BY WorkEnds DEF Promised, Active, IndexOf
    <2>1. IndexOf(g) \notin dropped /\ g # h
      BY <1>1, <1>2, WorkEnds, JobType DEF Active, IndexOf, DeleteOf
    <2>2. index[g] = version[g] \/ OnItsWay("index", g)
      BY <1>1, <2>1, WorkEnds DEF IndexInv, Promised
    <2> QED
      BY <1>1, <2>1, <2>2
  <1>6. Leaving'
    <2> SUFFICES ASSUME NEW g \in Hotels, g \in deleted, g \notin revived,
                        DeleteOf(g) \notin dropped'
                 PROVE  \/ OnItsWay("delete", g)
                        \/ /\ index'[g] = 0 /\ g \notin todo
                           /\ ~ Has(queue, "index", g)
      BY <1>3, WorkEnds DEF Leaving, TypeOK
    <2>1. CASE g = h
      <3>1. AtWorkOn("delete", g)
        BY <1>1, <2>1, WorkEnds
      <3> QED
        BY <1>1, <1>2, <2>1, <3>1 DEF IndexInv, NothingBehind
    <2>2. CASE g # h
      <3>1. DeleteOf(g) \notin dropped
        BY <1>1, <2>2, WorkEnds, JobType DEF DeleteOf
      <3>2. \/ OnItsWay("delete", g)
            \/ /\ index[g] = 0 /\ g \notin todo /\ ~ Has(queue, "index", g)
        BY <2>2, <3>1, WorkEnds DEF IndexInv, Leaving
      <3> QED
        BY <1>1, <2>2, <3>2
    <2> QED
      BY <2>1, <2>2
  <1> QED
    BY <1>3, <1>4, <1>5, <1>6, WorkEnds DEF IndexInv

\* A job throws.
LEMMA FailedKeeps ==
  ASSUME IndexInv, JobFails
  PROVE  IndexInv'
  <1>1. /\ dropped' = dropped \cup {Job(worker.action, worker.hotel)}
        /\ index' = index
    BY DEF JobFails
  <1>2. TypeOK'
    BY <1>1, WorkEnds, JobType DEF IndexInv, TypeOK
  <1>3. Behind'
    BY <1>1, WorkEnds DEF IndexInv, Behind
  <1>4. Promised'
    BY <1>1, WorkEnds DEF IndexInv, Promised, IndexOf
  <1>5. Leaving'
    BY <1>1, WorkEnds DEF IndexInv, Leaving, DeleteOf
  <1> QED
    BY <1>2, <1>3, <1>4, <1>5, WorkEnds DEF IndexInv

\* The process dies: what was on its way is stalled, or noted as lost.
LEMMA CrashKeeps ==
  ASSUME IndexInv, Crash
  PROVE  IndexInv'
  <1>1. /\ UNCHANGED <<version, deleted, queue, index, revived>>
        /\ phase' = "starting" /\ todo' = {} /\ worker' = NoJob
        /\ pending' = [j \in Jobs |-> 0]
        /\ dropped \subseteq dropped'
    BY DEF Crash, rows
  <1>2. ASSUME worker # NoJob
        PROVE  /\ worker \in Items /\ worker.hotel \in Hotels
               /\ worker.action \in {"index", "delete"}
               /\ [worker EXCEPT !.read = 0, !.again = TRUE] \in Items
               /\ [worker EXCEPT !.read = 0, !.again = TRUE].again
               /\ \A a, h : Is([worker EXCEPT !.read = 0, !.again = TRUE], a, h)
                              <=> Is(worker, a, h)
    <2> DEFINE left == [worker EXCEPT !.read = 0, !.again = TRUE]
    <2>1. worker \in Items /\ 0 \in 0 .. MaxVersion
      BY <1>2, HotelIndexingAssumption DEF IndexInv, TypeOK
    <2>2. /\ worker.hotel \in Hotels /\ worker.action \in {"index", "delete"}
          /\ left \in Items
      BY <2>1 DEF Items
    <2>3. left.action = worker.action /\ left.hotel = worker.hotel
      BY <2>1 DEF Items
    <2>4. left.again
      BY <2>1 DEF Items
    <2> HIDE DEF left
    <2>5. \A a, h : Is(left, a, h) <=> Is(worker, a, h)
      BY <2>3 DEF Is
    <2> QED
      BY <2>1, <2>2, <2>4, <2>5 DEF left
  <1>3. \A a, h : /\ Stalled(a, h) => Stalled(a, h)'
                  /\ Stalled(a, h)' => Stalled(a, h) \/ AtWorkOn(a, h)
    BY <1>2 DEF Crash, Stalled, AtWorkOn
  <1>4. ASSUME NEW a \in {"index", "delete"}, NEW h \in Hotels
        PROVE  /\ OnItsWay(a, h) => OnItsWay(a, h)' \/ Job(a, h) \in dropped'
               /\ OnItsWay(a, h)' => OnItsWay(a, h) \/ AtWorkOn(a, h)
               /\ AtWorkOn(a, h) => OnItsWay(a, h)' \/ Job(a, h) \in dropped'
    <2>1. Job(a, h) \in Jobs
      BY JobType
    <2>2. /\ pending'[Job(a, h)] = 0
          /\ pending[Job(a, h)] > 0 => Job(a, h) \in dropped'
      BY <1>1, <2>1 DEF Crash
    <2>3. AtWorkOn(a, h) => Stalled(a, h)' \/ Job(a, h) \in dropped'
      BY <1>2 DEF Crash, Stalled, AtWorkOn, Is
    <2> QED
      BY <1>1, <1>3, <2>2, <2>3 DEF OnItsWay
  <1>5. Active' = Active /\ \A a, h : ~ AtWorkOn(a, h)'
    BY <1>1 DEF Active, AtWorkOn
  <1>6. TypeOK'
    <2>1. stalled' \subseteq {j \in Items : j.again}
      BY <1>2 DEF Crash, IndexInv, TypeOK
    <2>2. dropped' \subseteq Jobs
      BY <1>2, JobType DEF Crash, IndexInv, TypeOK
    <2>3. pending' \in [Jobs -> 0 .. MaxPending]
      BY <1>1, HotelIndexingAssumption
    <2> QED
      BY <1>1, <2>1, <2>2, <2>3 DEF IndexInv, TypeOK
  <1>7. Behind' /\ Phases'
    BY <1>1 DEF IndexInv, Behind, Phases
  <1>8. Promised'
    BY <1>1, <1>4, <1>5 DEF IndexInv, Promised, IndexOf, Active
  <1>9. DeletesOfDeleted'
    BY <1>1, <1>4, <1>5 DEF IndexInv, DeletesOfDeleted
  <1>10. NothingBehind'
    BY <1>1, <1>3, <1>5 DEF IndexInv, NothingBehind
  <1>11. Leaving'
    BY <1>1, <1>4, <1>5 DEF IndexInv, Leaving, DeleteOf, TypeOK
  <1> QED
    BY <1>6, <1>7, <1>8, <1>9, <1>10, <1>11 DEF IndexInv

----------------------------------------------------------------------------
\* Every step keeps the invariant.
LEMMA IndexInductive ==
  ASSUME IndexInv, [Next]_vars
  PROVE  IndexInv'
  <1>1. CASE UNCHANGED vars
    BY <1>1 DEF IndexInv, TypeOK, Behind, Promised, DeletesOfDeleted, Phases,
                NothingBehind, Leaving, OnItsWay, AtWorkOn, Stalled, Active,
                vars, rows, process, history
  <1>2. CASE Work
    BY <1>2, SyncPhaseKeeps, SyncHotelKeeps, FetchKeeps, WrittenKeeps,
       ErasedKeeps, StalledKeeps DEF Work, Sync
  <1>3. CASE Break
    BY <1>3, LostKeeps, SyncPhaseKeeps, FailedKeeps, CrashKeeps DEF Break
  <1> QED
    BY <1>1, <1>2, <1>3, ChangedKeeps, QueuedKeeps DEF Next

\* The invariant holds in every behaviour.
THEOREM IndexingInductive == Spec => []IndexInv
  BY IndexInitially, IndexInductive, PTL DEF Spec

\* The rows, the jobs and the documents keep their types.
THEOREM IndexTypes == Spec => []TypeOK
  <1>1. IndexInv => TypeOK
    BY DEF IndexInv
  <1> QED
    BY <1>1, IndexingInductive, PTL

\* Nothing is on its way for a settled hotel.
LEMMA SettledIsIdle ==
  ASSUME IndexInv, NEW h \in Hotels, Settled(h), NEW a \in {"index", "delete"}
  PROVE  ~ OnItsWay(a, h) /\ ~ AtWorkOn(a, h)
  <1>1. pending[Job(a, h)] = 0
    BY JobType DEF Settled
  <1> QED
    BY <1>1 DEF Settled, OnItsWay, AtWorkOn, Has, Stalled, Is

\* Search shows the row of an active hotel with nothing on its way, unless its
\* job was lost.
THEOREM SettledShowsRow == Spec => []SettledIsCurrent
  <1>1. IndexInv => SettledIsCurrent
    BY SettledIsIdle DEF IndexInv, Promised, SettledIsCurrent, Active
  <1> QED
    BY <1>1, IndexingInductive, PTL

\* A deleted hotel with nothing on its way is found only if its delete job was
\* lost or an index job came after it was deleted.
THEOREM GhostsOnlyRevived == Spec => []GhostsWereRevived
  <1>1. IndexInv => GhostsWereRevived
    BY SettledIsIdle DEF IndexInv, TypeOK, Leaving, GhostsWereRevived
  <1> QED
    BY <1>1, IndexingInductive, PTL

\* A document never goes back to an older version of its row.
THEOREM NeverOlder == Spec => IndexNeverOlder
  <1>1. IndexInv /\ [Next]_vars =>
          \A h \in Hotels : index'[h] # 0 => index'[h] >= index[h]
    <2> SUFFICES ASSUME IndexInv, [Next]_vars, NEW h \in Hotels, index'[h] # 0
                 PROVE  index'[h] >= index[h]
      OBVIOUS
    <2>1. index \in [Hotels -> 0 .. MaxVersion]
      BY DEF IndexInv, TypeOK
    <2>2. CASE IndexDocument
      BY <2>1, <2>2, WorkEnds DEF IndexDocument, IndexInv, Behind
    <2>3. CASE DeleteDocument
      BY <2>1, <2>3 DEF DeleteDocument
    <2>4. CASE index' = index
      BY <2>1, <2>4
    <2> QED
      BY <2>2, <2>3, <2>4
         DEF Next, vars, Change, CreateHotel, UpdateHotel, SoftDelete,
             JobQueued, Work, Sync, ListHotels, SyncHotel, SyncDone, FetchHotel,
             MoveStalledToWait, Break, ScheduleFails, SyncFails, JobFails, Crash
  <1> QED
    BY <1>1, IndexingInductive, PTL DEF Spec, IndexNeverOlder

=============================================================================
