---------------------------- MODULE BookingMail ----------------------------
(***************************************************************************)
(* Booking and MailQueue together: the mail of a cancel is a job of the    *)
(* queue the two services share.                                           *)
(***************************************************************************)
EXTENDS Booking, MailQueue

ASSUME BookingMailAssumption ==
  Requests \subseteq Jobs /\ Requests \cap StartMails = {}

allVars == <<vars, mail>>

Queued(r) == AddEmailToQueue(r) /\ AddJob(r)

\* Redis has the job, and the service crashes before it knows
QueuedAndCrashed(r) == pc[r] = "mailing" /\ Fail(r) /\ AddJob(r)

BookingMailInit == Init /\ MailInit

BookingMailNext ==
  \/ \E r \in Requests : Queued(r) \/ QueuedAndCrashed(r)
  \/ Next /\ mailed' = mailed /\ UNCHANGED mail
  \/ MailNext /\ UNCHANGED vars

BookingMailSpec ==
  /\ BookingMailInit /\ [][BookingMailNext]_allVars
  /\ Fairness /\ MailFairness

----------------------------------------------------------------------------
\* The types of both, and a mail the service knows it queued is a job.
BookingMailTypeOK ==
  /\ TypeOK /\ MailTypeOK
  /\ \A r \in mailed : ~ Fresh(r)

\* A guest who gets a cancellation mail has cancelled: her rooms were given
\* back and the booking left PENDING before, whatever became of the request.
MailAfterCancel ==
  \A r \in Requests : sent[r] > 0 =>
    op[r] = "cancel" /\ wire[r] = "applied" /\ status[target[r]] # "PENDING"

\* "Nothing is lost": every cancellation mail that was queued is sent or its
\* job is on the list of failed ones, however often the NotificationService
\* goes down.
MailSettles == \A r \in Requests : ~ Fresh(r) ~> job[r] \in Settled

=============================================================================
