----------------------------- MODULE MailQueue -----------------------------
(***************************************************************************)
(* The queue queue-mailer in Redis and the NotificationService's worker,   *)
(* which renders its jobs and hands them to SMTP, one at a time.           *)
(*                                                                         *)
(* Of BullMQ: a worker holds a lock on the job it runs and renews it; a    *)
(* job whose lock ran out has stalled, because its worker died or could    *)
(* not renew, and goes back to the queue once; the second time it fails.   *)
(* No job is added with attempts, so an error of the processor is final.   *)
(* Each start of a service adds mails of its own: the NotificationService  *)
(* one to try the worker, the BookingService ten of a template that does   *)
(* not exist.  They are jobs like the others and fail or not as those do.  *)
(***************************************************************************)
EXTENDS Integers

CONSTANTS
  Jobs,
  StartMails,  \* those that the starts of the services add
  MaxStarts,   \* bound: starts of the NotificationService
  NoJob

ASSUME MailAssumption ==
  NoJob \notin Jobs /\ StartMails \subseteq Jobs /\ MaxStarts \in Nat

VARIABLES
  job,      \* a job's state in Redis
  stalls,   \* how often it has stalled
  sent,     \* history: how many mails of it SMTP has taken
  running,  \* is the NotificationService up
  starts,   \* how often it was started
  working,  \* the job its worker runs, and how far it is
  stage,
  locked    \* does it still hold the lock of that job

mail == <<job, stalls, sent, running, starts, working, stage, locked>>

Fresh(j) == job[j] = "none"
Settled == {"completed", "failed"}

MailInit ==
  /\ job = [j \in Jobs |-> "none"]
  /\ stalls = [j \in Jobs |-> 0]
  /\ sent = [j \in Jobs |-> 0]
  /\ running = FALSE /\ starts = 0
  /\ working = NoJob /\ stage = "none" /\ locked = FALSE

----------------------------------------------------------------------------
\* addEmailToQueue of a producer
AddJob(j) ==
  /\ Fresh(j)
  /\ job' = [job EXCEPT ![j] = "waiting"]
  /\ UNCHANGED <<stalls, sent, running, starts, working, stage, locked>>

NotificationServiceStarts ==
  /\ ~running /\ starts < MaxStarts
  /\ running' = TRUE /\ starts' = starts + 1
  /\ UNCHANGED <<job, stalls, sent, working, stage, locked>>

\* Bound: only while a start is left
Crash ==
  /\ running /\ starts < MaxStarts
  /\ running' = FALSE
  /\ working' = NoJob /\ stage' = "none" /\ locked' = FALSE
  /\ UNCHANGED <<job, stalls, sent, starts>>

TakeJob(j) ==
  /\ running /\ working = NoJob
  /\ job[j] = "waiting"
  /\ job' = [job EXCEPT ![j] = "active"]
  /\ working' = j /\ stage' = "taken" /\ locked' = TRUE
  /\ UNCHANGED <<stalls, sent, running, starts>>

\* An error if the template cannot be read
RenderMailTemplate ==
  /\ stage = "taken"
  /\ stage' \in {"rendered", "error"}
  /\ UNCHANGED <<job, stalls, sent, running, starts, working, locked>>

\* An error may come after the mail was taken
SendEmail ==
  /\ stage = "rendered"
  /\ \/ /\ sent' = [sent EXCEPT ![working] = @ + 1]
        /\ stage' \in {"sent", "error"}
     \/ stage' = "error" /\ UNCHANGED sent
  /\ UNCHANGED <<job, stalls, running, starts, working, locked>>

\* Fault: the jobs are added with attempts
RetryJob ==
  /\ stage \in {"sent", "error"}
  /\ job' = IF locked THEN [job EXCEPT ![working] =
                              IF stage = "sent" THEN "completed" ELSE "waiting"]
            ELSE job
  /\ working' = NoJob /\ stage' = "none" /\ locked' = FALSE
  /\ UNCHANGED <<stalls, sent, running, starts>>

\* Without the lock the end of a run changes nothing
FinishJob ==
  /\ stage \in {"sent", "error"}
  /\ job' = IF locked THEN [job EXCEPT ![working] =
                              IF stage = "sent" THEN "completed" ELSE "failed"]
            ELSE job
  /\ working' = NoJob /\ stage' = "none" /\ locked' = FALSE
  /\ UNCHANGED <<stalls, sent, running, starts>>

\* Fault: only a live worker notices that it lost its lock
StallsAlive(j) ==
  /\ running /\ job[j] = "active" /\ working = j
  /\ stalls' = [stalls EXCEPT ![j] = @ + 1]
  /\ job' = [job EXCEPT ![j] = IF stalls[j] = 0 THEN "waiting" ELSE "failed"]
  /\ locked' = FALSE
  /\ UNCHANGED <<sent, running, starts, working, stage>>

\* Fault: a job may stall for ever
StallsAgain(j) ==
  /\ running /\ job[j] = "active"
  /\ stalls' = [stalls EXCEPT ![j] = @ + 1]
  /\ job' = [job EXCEPT ![j] = "waiting"]
  /\ locked' = (locked /\ working # j)
  /\ UNCHANGED <<sent, running, starts, working, stage>>

\* The stalled check of a worker; the run that lost the lock goes on
JobStalls(j) ==
  /\ running /\ job[j] = "active"
  /\ stalls' = [stalls EXCEPT ![j] = @ + 1]
  /\ job' = [job EXCEPT ![j] = IF stalls[j] = 0 THEN "waiting" ELSE "failed"]
  /\ locked' = (locked /\ working # j)
  /\ UNCHANGED <<sent, running, starts, working, stage>>

Work ==
  \/ \E j \in Jobs : TakeJob(j)
  \/ RenderMailTemplate \/ SendEmail \/ FinishJob

MailNext ==
  \/ Work
  \/ \E j \in Jobs : JobStalls(j)
  \/ \E j \in StartMails : AddJob(j)
  \/ NotificationServiceStarts
  \/ Crash

\* The worker goes on, a stalled job is found, somebody starts the service
MailFairness ==
  /\ WF_mail(Work)
  /\ \A j \in Jobs : WF_mail(working # j /\ JobStalls(j))
  /\ WF_mail(NotificationServiceStarts)

----------------------------------------------------------------------------
MailTypeOK ==
  /\ job \in [Jobs -> Settled \cup {"none", "waiting", "active"}]
  /\ stalls \in [Jobs -> 0 .. 2]
  /\ sent \in [Jobs -> Nat]
  /\ starts \in 0 .. MaxStarts
  /\ running \in BOOLEAN /\ locked \in BOOLEAN
  /\ working \in Jobs \cup {NoJob}
  /\ stage \in {"none", "taken", "rendered", "sent", "error"}
  /\ (working = NoJob) = (stage = "none")

\* Nobody gets a mail twice unless its job has stalled, and then one more for
\* each time, but never a third: an error is not tried again, for the mail may
\* have gone out.
OncePerStall == \A j \in Jobs : sent[j] <= 1 + stalls[j] /\ sent[j] <= 2

=============================================================================
