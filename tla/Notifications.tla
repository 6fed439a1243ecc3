----------------------------- MODULE Notifications -----------------------------
(***************************************************************************)
(* notification-service: POST /notifications/send writes a PENDING row and *)
(* then queues a job, in two steps, and the worker dispatches a job, then  *)
(* stores what became of it. aml-service and kyc-service put jobs of their *)
(* own on the same queue, without a row.                                   *)
(***************************************************************************)
EXTENDS BullMq, FiniteSets

CONSTANTS
    Notices,            \* the requests to /notifications/send
    Content,            \* per request its channel and whether it carries an address
    SmsConfigured,      \* AFRICAS_TALKING_API_KEY and _USERNAME are set
    MaxFaults,          \* bound: provider, database and Redis calls that fail
    MaxDeaths           \* bound: how often a process dies

ASSUME NotificationAssumption ==
    /\ Content \in [Notices -> [channel : {"PUSH", "SMS", "EMAIL", "IN_APP"}, addressed : BOOLEAN]]
    /\ SmsConfigured \in BOOLEAN
    /\ MaxFaults \in Nat /\ MaxDeaths \in Nat

VARIABLES
    noticeRow,  \* notifications.status of each request's row, or "none"
    sending,    \* where the handler of each request stands
    jobs,       \* the queue notifications_queued: job id -> job
    arrived,    \* job id -> how often the provider took the message
    faults,
    deaths

noticeVars == <<noticeRow, sending, jobs, arrived>>
budget == <<faults, deaths>>

HasRow(id) == id \in Notices

NotificationInit ==
    /\ noticeRow = [n \in Notices |-> "none"]
    /\ sending = [n \in Notices |-> "idle"]
    /\ jobs = << >> /\ arrived = << >>
    /\ faults = 0 /\ deaths = 0

Fault == faults < MaxFaults /\ faults' = faults + 1 /\ UNCHANGED deaths
NoFault == UNCHANGED budget

Put(id, job) == jobs' = [jobs EXCEPT ![id] = job]

\* queue.add of any service.
Add(id, data, attempts) ==
    /\ jobs' = WithEntry(jobs, id, NewJob(data, attempts))
    /\ arrived' = WithEntry(arrived, id, 0)

(***************************************************************************)
(* POST /notifications/send, after authentication and the field checks.    *)
(***************************************************************************)
CreateRow(n) ==
    /\ sending[n] = "idle"
    /\ sending' = [sending EXCEPT ![n] = "created"]
    /\ noticeRow' = [noticeRow EXCEPT ![n] = "PENDING"]
    /\ NoFault /\ UNCHANGED <<jobs, arrived>>

Enqueue(n) ==
    /\ sending[n] = "created"
    /\ \/ /\ Add(n, Content[n], 3)
          /\ sending' = [sending EXCEPT ![n] = "answered"]
          /\ NoFault
       \/ /\ sending' = [sending EXCEPT ![n] = "error"]
          /\ Fault /\ UNCHANGED <<jobs, arrived>>
    /\ UNCHANGED noticeRow

(***************************************************************************)
(* The worker.                                                             *)
(***************************************************************************)
\* The catch block stores the failure in the row; without a row Prisma refuses
\* { id: undefined }, and that error ends the attempt at once.
Fail(id) == Put(id, IF HasRow(id) THEN Step(jobs[id], "failing") ELSE FailAttempt(jobs[id]))

NeedsProvider(d) == d.channel \in {"PUSH", "EMAIL"} \/ (d.channel = "SMS" /\ SmsConfigured)

\* Mutant: an error of the provider is only logged.
DispatchAndLog(id) ==
    LET d == jobs[id].data IN
    /\ At(jobs[id], "waiting")
    /\ Put(id, Step(jobs[id], "storing"))
    /\ \/ d.addressed /\ arrived' = [arrived EXCEPT ![id] = @ + 1] /\ NoFault
       \/ UNCHANGED arrived /\ Fault
    /\ UNCHANGED <<noticeRow, sending>>

\* An IN_APP message needs no dispatch and an SMS without credentials is skipped;
\* both count as sent. A provider may also take a message and fail to say so. A worker
\* that dies between taking a job and the dispatch is one that dies after it, but
\* for the message.
Dispatch(id) ==
    LET d == jobs[id].data IN
    /\ At(jobs[id], "waiting")
    /\ \/ /\ d.channel # "IN_APP" /\ ~ d.addressed
          /\ Fail(id)
          /\ NoFault /\ UNCHANGED arrived
       \/ /\ d.channel = "IN_APP" \/ (d.addressed /\ ~ NeedsProvider(d))
          /\ Put(id, Step(jobs[id], "storing"))
          /\ NoFault /\ UNCHANGED arrived
       \/ /\ d.addressed /\ NeedsProvider(d)
          /\ Put(id, Step(jobs[id], "storing"))
          /\ arrived' = [arrived EXCEPT ![id] = @ + 1]
          /\ NoFault
       \/ /\ d.addressed /\ NeedsProvider(d)
          /\ Fail(id)
          /\ \E taken \in {0, 1} : arrived' = [arrived EXCEPT ![id] = @ + taken]
          /\ Fault
    /\ UNCHANGED <<noticeRow, sending>>

\* A job that carries no notificationId has no row to update, and an update that
\* throws is caught like an error of the dispatch.
Store(id) ==
    /\ At(jobs[id], "storing")
    /\ \/ /\ HasRow(id)
          /\ noticeRow' = [noticeRow EXCEPT ![id] = "SENT"]
          /\ Put(id, Step(jobs[id], "completed"))
          /\ NoFault
       \/ /\ IF HasRow(id) THEN Fault ELSE NoFault
          /\ Fail(id)
          /\ UNCHANGED noticeRow
    /\ UNCHANGED <<sending, arrived>>

\* Mutant: the failure is left to the queue.
OnlyRethrow(id) ==
    /\ At(jobs[id], "failing") /\ Put(id, FailAttempt(jobs[id]))
    /\ NoFault /\ UNCHANGED <<noticeRow, sending, arrived>>

\* FAILED is stored and the error thrown again; when the update itself throws, that
\* error reaches the queue instead.
RecordFailure(id) ==
    /\ At(jobs[id], "failing")
    /\ \/ noticeRow' = [noticeRow EXCEPT ![id] = "FAILED"] /\ NoFault
       \/ UNCHANGED noticeRow /\ Fault
    /\ Put(id, FailAttempt(jobs[id]))
    /\ UNCHANGED <<sending, arrived>>

Work(id) == Dispatch(id) \/ Store(id) \/ RecordFailure(id)

\* Handlers and worker live in one process.
NotificationServiceDies ==
    /\ deaths < MaxDeaths
    /\ (\E n \in Notices : sending[n] = "created") \/ (\E id \in DOMAIN jobs : Active(jobs[id]))
    /\ deaths' = deaths + 1
    /\ sending' = [n \in Notices |-> IF sending[n] = "created" THEN "lost" ELSE sending[n]]
    /\ jobs' = [id \in DOMAIN jobs |-> Stall(jobs[id])]
    /\ UNCHANGED <<noticeRow, arrived, faults>>

NotificationNext ==
    \/ \E n \in Notices : CreateRow(n) \/ Enqueue(n)
    \/ \E id \in DOMAIN jobs : Work(id)
    \/ NotificationServiceDies

(***************************************************************************)
(* Properties.                                                             *)
(***************************************************************************)
\* A row that says SENT was taken by its provider, except for the messages that
\* need none, whichever attempts failed, were repeated or died before.
SentHasArrived ==
    \A n \in Notices :
        noticeRow[n] = "SENT" /\ NeedsProvider(Content[n]) => arrived[n] >= 1

\* A message arrives at most once per attempt, and once more for a worker that
\* died: a store that fails after the dispatch repeats it, but not without end.
CopiesAreBounded ==
    \A id \in DOMAIN jobs :
        arrived[id] <= (IF HasRow(id) THEN 3 ELSE 1) + MaxStalledCount

\* A request that was answered 201 does not leave its row PENDING for ever, whichever
\* attempts failed, but in two cases: the worker died twice with its job, which BullMQ
\* then fails for it, or the database refused the failures of all its attempts.
AnsweredNoticesSettle ==
    \A n \in Notices :
        (sending[n] = "answered") ~>
            \/ noticeRow[n] \in {"SENT", "FAILED"}
            \/ n \in DOMAIN jobs /\ jobs[n].state = "failed" /\ jobs[n].made < jobs[n].attempts
            \/ n \in DOMAIN jobs /\ faults >= jobs[n].attempts
=============================================================================
