---------------------------- MODULE Notifications ----------------------------
(***************************************************************************)
(* One channel of one notification (backend/app/notifications/dispatch.py, *)
(* tasks.py, routes.py): a request adds its row and puts a Celery task for *)
(* it on the broker BEFORE it commits; a worker loads the row, sends the   *)
(* message and marks the row, each in a session of its own.  The channels  *)
(* of a notification share the request and nothing else.                   *)
(*                                                                         *)
(* The broker, the database and the provider may fail at any step.  Celery *)
(* acknowledges a task when a worker takes it, so the task of a worker     *)
(* that dies is lost.                                                      *)
(***************************************************************************)
EXTENDS Naturals, Sequences, Templates

CONSTANTS
    MaxRetries     \* max_retries of deliver_email and deliver_whatsapp

ASSUME NotificationsAssumption == MaxRetries \in Nat

VARIABLES
    call,       \* the call of dispatch_notification
    channel,    \* the channel that is followed
    session,    \* the transaction of the request that made the call
    notice,     \* notifications.status of the channel's row
    read,       \* is its read_at set?
    task,       \* where its delivery task is
    retries,    \* request.retries of the task
    sent,       \* how often the provider delivered the message
    blanks,     \* the keys a message was to show and had no value for
    phone       \* has the recipient a phone number?

notificationVars == <<call, channel, session, notice, read, task, retries, sent, blanks, phone>>

Channels == {"EMAIL", "WHATSAPP", "IN_APP"}

NotificationsInit ==
    /\ call \in Calls
    /\ channel \in Channels
    /\ session = "idle"
    /\ notice  = "none"
    /\ read    = FALSE
    /\ task    = "none"
    /\ retries = 0
    /\ sent    = 0
    /\ blanks  = {}
    /\ phone \in BOOLEAN

-----------------------------------------------------------------------------
(* dispatch_notification, in the request's transaction *)

Message == CHOOSE template \in REGISTRY : template.event = call.event

\* An event that is not registered has no row and no task.
HasRow == \E template \in REGISTRY : template.event = call.event /\ channel \in template.channels

\* The row of an open transaction is seen by nobody else.
AddRow ==
    /\ session = "idle"
    /\ session' = "open"
    /\ notice' = IF HasRow THEN "flushed" ELSE "none"
    /\ UNCHANGED <<call, channel, read, task, retries, sent, blanks, phone>>

NeedsTask == notice = "flushed" /\ channel # "IN_APP"

\* deliver_email.delay, deliver_whatsapp.delay
Delay ==
    /\ session = "open"
    /\ NeedsTask /\ task = "none"
    /\ task' = "queued"
    /\ UNCHANGED <<call, channel, session, notice, read, retries, sent, blanks, phone>>

TaskIsQueued == NeedsTask => task # "none"

CommitRequest ==
    /\ session = "open"
    /\ TaskIsQueued
    /\ session' = "committed"
    /\ notice' = IF HasRow THEN "QUEUED" ELSE "none"
    /\ UNCHANGED <<call, channel, read, task, retries, sent, blanks, phone>>

\* The broker refuses a task, or the request fails later on.
RollBackRequest ==
    /\ session = "open"
    /\ session' = "rolled back"
    /\ notice' = "none"
    /\ UNCHANGED <<call, channel, read, task, retries, sent, blanks, phone>>

-----------------------------------------------------------------------------
(* deliver_email, deliver_whatsapp *)

\* Fault: the worker does not look for the row.
AnyRow == TRUE

Visible == notice \notin {"none", "flushed"}

\* Fault: with its retries used up the task ends as if it had done its work.
RetryQuietly ==
    \/ retries < MaxRetries /\ task' = "queued" /\ retries' = retries + 1
    \/ retries = MaxRetries /\ task' = "done" /\ UNCHANGED retries

\* self.retry: with its retries used up the task ends with the exception.
Retry ==
    \/ retries < MaxRetries /\ task' = "queued" /\ retries' = retries + 1
    \/ retries = MaxRetries /\ task' = "failed" /\ UNCHANGED retries

\* _load_notification: LookupError without the row; the database may fail too.
Load ==
    /\ task = "queued"
    /\ \/ Visible /\ task' = "loaded" /\ UNCHANGED retries
       \/ Retry
    /\ UNCHANGED <<call, channel, session, notice, read, sent, blanks, phone>>

HasRenderer == channel \in DOMAIN Message.render

\* user.email is never NULL.
Reachable == channel = "WHATSAPP" => phone

\* No renderer, or no phone: the row fails for good.
GiveUp ==
    /\ task = "loaded"
    /\ ~(HasRenderer /\ Reachable)
    /\ task' = "unsendable"
    /\ UNCHANGED <<call, channel, session, notice, read, retries, sent, blanks, phone>>

Blank == (Message.render[channel] \ call.payload) \ HasWording

\* The client returns an id, or raises: on an error, an answer that does not
\* arrive or one that cannot be read.
Answers == {"accepted", "refused"}

\* The provider delivers the message or not, and its answer arrives or not.
Send ==
    /\ task = "loaded"
    /\ HasRenderer /\ Reachable
    /\ \/ /\ sent' = sent + 1
          /\ blanks' = Blank
          /\ task' \in Answers
       \/ /\ task' = "refused"
          /\ UNCHANGED <<sent, blanks>>
    /\ UNCHANGED <<call, channel, session, notice, read, retries, phone>>

StatusToMark == IF task = "accepted" THEN "SENT" ELSE "FAILED"

\* _mark; a refusal is raised again after it.
Mark ==
    /\ task \in {"unsendable", "accepted", "refused"}
    /\ notice' = StatusToMark
    /\ IF task = "refused" THEN Retry ELSE task' = "done" /\ UNCHANGED retries
    /\ UNCHANGED <<call, channel, session, read, sent, blanks, phone>>

\* The commit of _mark fails, or only its answer is lost.
MarkFails ==
    /\ task \in {"unsendable", "accepted", "refused"}
    /\ notice' \in {notice, StatusToMark}
    /\ Retry
    /\ UNCHANGED <<call, channel, session, read, sent, blanks, phone>>

WorkerDies ==
    /\ task \notin {"none", "done", "failed", "lost"}
    /\ task' = "lost"
    /\ UNCHANGED <<call, channel, session, notice, read, retries, sent, blanks, phone>>

-----------------------------------------------------------------------------
(* routes.py: mark_read, mark_all_read; the inbox shows rows IN_APP only *)

MarkRead ==
    /\ Visible /\ channel = "IN_APP"
    /\ ~read
    /\ read' = TRUE
    /\ UNCHANGED <<call, channel, session, notice, task, retries, sent, blanks, phone>>

-----------------------------------------------------------------------------

Deliver == Load \/ GiveUp \/ Send \/ Mark \/ MarkFails

NotificationsNext ==
    \/ AddRow \/ Delay \/ CommitRequest \/ RollBackRequest
    \/ Deliver \/ WorkerDies
    \/ MarkRead

NotificationsSpec == NotificationsInit /\ [][NotificationsNext]_notificationVars

\* A worker is there and takes what is on the broker.
DeliveryFairness == WF_notificationVars(Deliver)

-----------------------------------------------------------------------------
(* Properties *)

\* Types; only the row of a committed request has a status, and only a worker
\* takes it out of QUEUED.
NotificationsTypeOK ==
    /\ call \in Calls
    /\ channel \in Channels
    /\ session \in {"idle", "open", "committed", "rolled back"}
    /\ notice \in {"none", "flushed", "QUEUED", "SENT", "FAILED"}
    /\ notice \in {"QUEUED", "SENT", "FAILED"} => session = "committed"
    /\ read \in BOOLEAN
    /\ task \in {"none", "queued", "loaded", "unsendable", "accepted", "refused",
                 "done", "failed", "lost"}
    /\ retries \in 0..MaxRetries
    /\ sent \in Nat
    /\ phone \in BOOLEAN

\* Nobody gets a message about something that was rolled back, although its
\* task is on the broker before the commit (dispatch.py).
NoGhostMessage == sent > 0 => session = "committed"

\* A row is SENT only if the provider delivered its message, whatever failed
\* and was repeated before (tasks.py).
SentWasDelivered == notice = "SENT" => sent > 0

\* A task that is repeated delivers its message at most once in each of its
\* runs: nobody gets a message more than 1 + max_retries times (tasks.py).
OneMessagePerRun ==
    sent <= retries + (IF task = "queued" THEN 0 ELSE 1)

\* The row of a committed request has, or had, a task that delivers it: a
\* broker that refuses it undoes the request (dispatch.py).
CommittedHasTask ==
    notice = "QUEUED" /\ channel # "IN_APP" => task # "none"

\* What a user is told was committed, and what was committed is delivered, a
\* bounded number of times (dispatch.py, tasks.py).
NotificationsInv ==
    /\ NotificationsTypeOK
    /\ NoGhostMessage
    /\ SentWasDelivered
    /\ OneMessagePerRun
    /\ CommittedHasTask

\* Every call supplies what the messages of its event show, but for the access
\* details of a host who saved none: the guest gets an email without them
\* (templates.py; bookings/service.py release_access_details).
OnlyDetailsAreBlank ==
    blanks # {} => call = CallAccessWithoutDetails /\ blanks = {"access_details"}

\* A row does not stay QUEUED, unless its task was lost with its worker or
\* used up its retries, whatever fails (tasks.py).
QueuedIsSettled ==
    notice = "QUEUED" /\ channel # "IN_APP"
        ~> notice # "QUEUED" \/ task \in {"lost", "failed"}
=============================================================================
