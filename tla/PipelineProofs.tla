---------------------------- MODULE PipelineProofs ----------------------------
(***************************************************************************)
(* Proofs about what follows a payment: the notification queue that three  *)
(* services share, and the checks of aml-service, for any payments,        *)
(* requests, flags, faults and deaths.                                     *)
(***************************************************************************)
EXTENDS AmlService, FiniteSetTheorems, TLAPS

(***************************************************************************)
(* Jobs of the notification queue.                                         *)
(***************************************************************************)
MessageType == [channel : {"PUSH", "SMS", "EMAIL", "IN_APP"}, addressed : BOOLEAN]

JobType ==
    [data : MessageType, attempts : 1 .. 3, state : Idle \cup {"storing", "failing"},
     made : Nat, stalled : 0 .. MaxStalledCount]

Tries(id) == IF HasRow(id) THEN 3 ELSE 1

\* The attempts of a job account for the messages that have arrived.
Accounted(id, job, got) ==
    /\ job.attempts <= Tries(id)
    /\ job.state # "failed" => job.made < job.attempts
    /\ job.state = "waiting" => got <= job.made + job.stalled
    /\ job.state \in {"storing", "failing", "completed"} => got <= job.made + job.stalled + 1
    /\ job.state = "failed" => got <= job.attempts + MaxStalledCount
    /\ job.state \in {"storing", "completed"} /\ NeedsProvider(job.data) => got >= 1
    /\ job.state = "completed" => HasRow(id)

JobsAccounted ==
    /\ jobs \in [DOMAIN jobs -> JobType] /\ arrived \in [DOMAIN jobs -> Nat]
    /\ \A id \in DOMAIN jobs : Accounted(id, jobs[id], arrived[id])

\* A row that says SENT has a job that went through with what the request asked for.
SentThroughJobs ==
    /\ noticeRow \in [Notices -> {"none", "PENDING", "SENT", "FAILED"}]
    /\ \A n \in Notices :
         /\ n \in DOMAIN jobs /\ NeedsProvider(Content[n]) => NeedsProvider(jobs[n].data)
         /\ noticeRow[n] = "SENT" =>
              n \in DOMAIN jobs /\ (NeedsProvider(jobs[n].data) => arrived[n] >= 1)

\* A new job has made no attempt, and no message of it has arrived.
LEMMA NewJobKept ==
    ASSUME NEW id, NEW data \in MessageType, NEW n \in 1 .. 3, n <= Tries(id)
    PROVE  NewJob(data, n) \in JobType /\ Accounted(id, NewJob(data, n), 0)
  BY DEF NewJob, JobType, Accounted, Idle, MaxStalledCount

\* An attempt that fails is counted, whether or not its message has arrived.
LEMMA FailAttemptKept ==
    ASSUME NEW id, NEW job \in JobType, NEW got \in Nat,
           job.attempts <= Tries(id), job.made < job.attempts,
           got <= job.made + job.stalled + 1
    PROVE  /\ FailAttempt(job) \in JobType /\ Accounted(id, FailAttempt(job), got)
           /\ FailAttempt(job).data = job.data
  <1> DEFINE state == IF job.made + 1 < job.attempts THEN "waiting" ELSE "failed"
             made == job.made + 1
             j == [job EXCEPT !.made = made, !.state = state]
  <1>1. FailAttempt(job) = j
    BY DEF FailAttempt
  <1>2. made \in Nat /\ state \in Idle \cup {"storing", "failing"}
    BY DEF JobType, Idle
  <1> HIDE DEF state, made
  <1>3. /\ j \in JobType /\ j.state = state /\ j.made = made
        /\ j.data = job.data /\ j.attempts = job.attempts /\ j.stalled = job.stalled
    BY <1>2 DEF JobType
  <1> HIDE DEF j
  <1>4. Accounted(id, j, got)
    <2>1. job.attempts \in Nat /\ job.made \in Nat /\ job.stalled \in Nat /\ job.stalled <= MaxStalledCount
      BY DEF JobType, MaxStalledCount
    <2> QED BY <1>3, <2>1 DEF Accounted, state, made, MaxStalledCount
  <1> QED BY <1>1, <1>3, <1>4

LEMMA StallKept ==
    ASSUME NEW id, NEW job \in JobType, NEW got \in Nat, Accounted(id, job, got)
    PROVE  /\ Stall(job) \in JobType /\ Accounted(id, Stall(job), got)
           /\ Stall(job).data = job.data
  <1>0. /\ job.attempts \in Nat /\ job.made \in Nat /\ job.stalled \in Nat
        /\ job.state \in Idle \cup {"storing", "failing"}
    BY DEF JobType, MaxStalledCount
  <1>1. CASE ~ Active(job)
    BY <1>1 DEF Stall
  <1>2. CASE Active(job) /\ job.stalled < MaxStalledCount
    <2> DEFINE j == [job EXCEPT !.stalled = 1, !.state = "waiting"]
    <2>1. job.stalled = 0
      BY <1>0, <1>2 DEF MaxStalledCount
    <2>2. Stall(job) = j
      BY <1>2, <2>1 DEF Stall
    <2>3. /\ j \in JobType /\ j.state = "waiting" /\ j.made = job.made
          /\ j.data = job.data /\ j.attempts = job.attempts /\ j.stalled = 1
      <3>1. 1 \in 0 .. MaxStalledCount /\ "waiting" \in Idle \cup {"storing", "failing"}
        BY DEF Idle, MaxStalledCount
      <3> QED BY <3>1 DEF JobType
    <2> HIDE DEF j
    <2> QED BY <1>0, <1>2, <2>1, <2>2, <2>3 DEF Accounted, Active, Idle
  <1>3. CASE Active(job) /\ ~ (job.stalled < MaxStalledCount)
    <2> DEFINE j == [job EXCEPT !.state = "failed"]
    <2>1. job.stalled = 1
      BY <1>0, <1>3 DEF MaxStalledCount, JobType
    <2>2. Stall(job) = j
      BY <1>3 DEF Stall
    <2>3. /\ j \in JobType /\ j.state = "failed" /\ j.made = job.made
          /\ j.data = job.data /\ j.attempts = job.attempts /\ j.stalled = job.stalled
      BY DEF JobType, Idle
    <2> HIDE DEF j
    <2> QED BY <1>0, <1>3, <2>1, <2>2, <2>3 DEF Accounted, Active, Idle, MaxStalledCount
  <1> QED BY <1>1, <1>2, <1>3

LEMMA StepKept ==
    ASSUME NEW job \in JobType, NEW state \in Idle \cup {"storing", "failing"}
    PROVE  /\ Step(job, state) \in JobType
           /\ Step(job, state).state = state /\ Step(job, state).data = job.data
           /\ Step(job, state).attempts = job.attempts /\ Step(job, state).made = job.made
           /\ Step(job, state).stalled = job.stalled
  BY DEF Step, JobType

\* The catch block of the worker: the job goes on to store the failure, or fails.
LEMMA FailKept ==
    ASSUME NEW id, NEW job \in JobType, NEW got \in Nat,
           job.attempts <= Tries(id), job.made < job.attempts,
           got <= job.made + job.stalled + 1,
           NEW failed, failed = IF HasRow(id) THEN Step(job, "failing") ELSE FailAttempt(job)
    PROVE  failed \in JobType /\ Accounted(id, failed, got) /\ failed.data = job.data
  <1>1. CASE HasRow(id)
    BY <1>1, StepKept DEF Accounted
  <1>2. CASE ~ HasRow(id)
    BY <1>2, FailAttemptKept
  <1> QED BY <1>1, <1>2

LEMMA QueueInit == NotificationInit => JobsAccounted /\ SentThroughJobs
  BY DEF NotificationInit, JobsAccounted, SentThroughJobs

\* A job that is added, by whichever service, keeps the accounts.
LEMMA AddKept ==
    ASSUME JobsAccounted, NEW id, NEW data \in MessageType, NEW n \in 1 .. 3,
           n <= Tries(id), Add(id, data, n)
    PROVE  /\ JobsAccounted'
           /\ DOMAIN jobs' = DOMAIN jobs \cup {id}
           /\ \A i \in DOMAIN jobs : jobs'[i] = jobs[i] /\ arrived'[i] = arrived[i]
           /\ id \notin DOMAIN jobs => jobs'[id] = NewJob(data, n)
  <1>1. NewJob(data, n) \in JobType /\ Accounted(id, NewJob(data, n), 0)
    BY NewJobKept
  <1>0. /\ jobs \in [DOMAIN jobs -> JobType] /\ jobs' = WithEntry(jobs, id, NewJob(data, n))
        /\ DOMAIN arrived = DOMAIN jobs /\ arrived \in [DOMAIN arrived -> Nat]
        /\ arrived' = WithEntry(arrived, id, 0)
    BY DEF JobsAccounted, Add
  <1>2. /\ DOMAIN jobs' = DOMAIN jobs \cup {id} /\ jobs' \in [DOMAIN jobs' -> JobType]
        /\ \A i \in DOMAIN jobs : jobs'[i] = jobs[i]
        /\ id \notin DOMAIN jobs => jobs'[id] = NewJob(data, n)
    BY <1>0, <1>1 DEF WithEntry
  <1>3. /\ DOMAIN arrived' = DOMAIN arrived \cup {id} /\ arrived' \in [DOMAIN arrived' -> Nat]
        /\ \A i \in DOMAIN arrived : arrived'[i] = arrived[i]
        /\ id \notin DOMAIN arrived => arrived'[id] = 0
    BY <1>0 DEF WithEntry
  <1>5. ASSUME NEW i \in DOMAIN jobs' PROVE Accounted(i, jobs'[i], arrived'[i])
    BY <1>0, <1>1, <1>2, <1>3 DEF JobsAccounted
  <1>6. \A i \in DOMAIN jobs' : Accounted(i, jobs[i], arrived[i])'
    BY <1>5 DEF Accounted, Tries, HasRow, NeedsProvider
  <1> QED BY <1>0, <1>2, <1>3, <1>6 DEF JobsAccounted

\* The worker changes one job, and accounts for it.
LEMMA PutKept ==
    ASSUME JobsAccounted, NEW id \in DOMAIN jobs, NEW job \in JobType, NEW got \in Nat,
           Accounted(id, job, got), Put(id, job), arrived' = [arrived EXCEPT ![id] = got]
    PROVE  /\ JobsAccounted'
           /\ DOMAIN jobs' = DOMAIN jobs
           /\ jobs'[id] = job /\ arrived'[id] = got
           /\ \A i \in DOMAIN jobs \ {id} : jobs'[i] = jobs[i] /\ arrived'[i] = arrived[i]
  <1>1. jobs' \in [DOMAIN jobs -> JobType] /\ arrived' \in [DOMAIN jobs -> Nat]
    BY DEF JobsAccounted, Put
  <1>2. /\ jobs'[id] = job /\ arrived'[id] = got
        /\ \A i \in DOMAIN jobs \ {id} : jobs'[i] = jobs[i] /\ arrived'[i] = arrived[i]
    BY DEF JobsAccounted, Put
  <1>3. \A i \in DOMAIN jobs : Accounted(i, jobs'[i], arrived'[i])
    BY <1>2 DEF JobsAccounted
  <1>4. \A i \in DOMAIN jobs' : Accounted(i, jobs[i], arrived[i])'
    BY <1>1, <1>3 DEF Accounted, Tries, HasRow, NeedsProvider
  <1> QED BY <1>1, <1>2, <1>4 DEF JobsAccounted

\* What a job is to send never changes, and what has arrived has arrived.
JobsGoOn ==
    /\ DOMAIN jobs \subseteq DOMAIN jobs'
    /\ \A i \in DOMAIN jobs : jobs'[i].data = jobs[i].data /\ arrived'[i] >= arrived[i]

LEMMA SentKept ==
    ASSUME JobsAccounted, JobsAccounted', SentThroughJobs, JobsGoOn,
           noticeRow' \in [Notices -> {"none", "PENDING", "SENT", "FAILED"}],
           \A n \in Notices : n \in DOMAIN jobs' \ DOMAIN jobs /\ NeedsProvider(Content[n])
                                => NeedsProvider(jobs'[n].data),
           \A n \in Notices : noticeRow'[n] = "SENT" =>
                noticeRow[n] = "SENT" \/ (n \in DOMAIN jobs /\ jobs[n].state = "storing")
    PROVE  SentThroughJobs'
  <1> SUFFICES ASSUME NEW n \in Notices
               PROVE  /\ n \in DOMAIN jobs' /\ NeedsProvider(Content[n])
                           => NeedsProvider(jobs'[n].data)
                      /\ noticeRow'[n] = "SENT" =>
                           n \in DOMAIN jobs' /\ (NeedsProvider(jobs'[n].data) => arrived'[n] >= 1)
    BY DEF SentThroughJobs, NeedsProvider
  <1>1. n \in DOMAIN jobs' /\ NeedsProvider(Content[n]) => NeedsProvider(jobs'[n].data)
    BY DEF SentThroughJobs, JobsGoOn
  <1>2. ASSUME noticeRow'[n] = "SENT"
        PROVE  n \in DOMAIN jobs' /\ (NeedsProvider(jobs'[n].data) => arrived'[n] >= 1)
    <2>1. n \in DOMAIN jobs /\ (NeedsProvider(jobs[n].data) => arrived[n] >= 1)
      BY <1>2 DEF SentThroughJobs, JobsAccounted, Accounted
    <2>2. arrived[n] \in Nat /\ arrived'[n] \in Nat /\ arrived'[n] >= arrived[n]
      BY <2>1 DEF JobsAccounted, JobsGoOn
    <2> QED BY <2>1, <2>2 DEF JobsGoOn
  <1> QED BY <1>1, <1>2

LEMMA WorkKept ==
    ASSUME JobsAccounted, SentThroughJobs, NEW id \in DOMAIN jobs, Work(id)
    PROVE  JobsAccounted' /\ SentThroughJobs'
  <1> DEFINE job == jobs[id]
             got == arrived[id]
  <1>0. /\ job \in JobType /\ got \in Nat /\ Accounted(id, job, got)
        /\ job.attempts \in Nat /\ job.made \in Nat /\ job.stalled \in Nat
        /\ {"waiting", "storing", "failing", "completed"} \subseteq Idle \cup {"storing", "failing"}
    BY DEF JobsAccounted, JobType, MaxStalledCount, Idle
  <1>1. ASSUME NEW next \in JobType, NEW more \in Nat, Accounted(id, next, more), Put(id, next),
               arrived' = [arrived EXCEPT ![id] = more], next.data = job.data, more >= got,
               \/ noticeRow' = noticeRow
               \/ noticeRow' = [noticeRow EXCEPT ![id] = "FAILED"]
               \/ noticeRow' = [noticeRow EXCEPT ![id] = "SENT"] /\ job.state = "storing"
        PROVE  JobsAccounted' /\ SentThroughJobs'
    <2>1. /\ JobsAccounted' /\ DOMAIN jobs' = DOMAIN jobs
          /\ jobs'[id] = next /\ arrived'[id] = more
          /\ \A i \in DOMAIN jobs \ {id} : jobs'[i] = jobs[i] /\ arrived'[i] = arrived[i]
      BY <1>1, PutKept
    <2>2. JobsGoOn
      <3>1. \A i \in DOMAIN jobs : arrived[i] \in Nat
        BY DEF JobsAccounted
      <3> QED BY <1>1, <2>1, <3>1 DEF JobsGoOn
    <2>3. /\ noticeRow' \in [Notices -> {"none", "PENDING", "SENT", "FAILED"}]
          /\ \A n \in Notices : noticeRow'[n] = "SENT" =>
                noticeRow[n] = "SENT" \/ (n \in DOMAIN jobs /\ jobs[n].state = "storing")
      BY <1>1 DEF SentThroughJobs
    <2> QED BY <2>1, <2>2, <2>3, SentKept
  <1>2. got + 0 = got /\ got >= got /\ (UNCHANGED arrived => arrived' = [arrived EXCEPT ![id] = got])
    BY <1>0 DEF JobsAccounted
  <1> HIDE DEF job, got
  <1>3. CASE Dispatch(id)
    <2>1. job.made < job.attempts /\ job.attempts <= Tries(id) /\ got <= job.made + job.stalled
      BY <1>0, <1>3 DEF Dispatch, At, Accounted, job
    <2>2. noticeRow' = noticeRow
      BY <1>3 DEF Dispatch
    <2>3. ASSUME Fail(id), NEW taken \in {0, 1}, arrived' = [arrived EXCEPT ![id] = got + taken]
          PROVE  JobsAccounted' /\ SentThroughJobs'
      <3> DEFINE next == IF HasRow(id) THEN Step(job, "failing") ELSE FailAttempt(job)
      <3>1. got + taken \in Nat /\ got + taken >= got /\ got + taken <= job.made + job.stalled + 1
        BY <1>0, <2>1
      <3>2. next \in JobType /\ Accounted(id, next, got + taken) /\ next.data = job.data
        BY <1>0, <2>1, <3>1, FailKept
      <3>3. Put(id, next)
        BY <2>3 DEF Fail, job
      <3> HIDE DEF next
      <3> QED BY <1>1, <2>2, <2>3, <3>1, <3>2, <3>3
    <2>4. ASSUME Put(id, Step(job, "storing")), NEW taken \in {0, 1},
                 arrived' = [arrived EXCEPT ![id] = got + taken],
                 NeedsProvider(job.data) => taken = 1
          PROVE  JobsAccounted' /\ SentThroughJobs'
      <3> DEFINE next == Step(job, "storing")
      <3>1. got + taken \in Nat /\ got + taken >= got /\ got + taken <= job.made + job.stalled + 1
        BY <1>0, <2>1
      <3>2. /\ next \in JobType /\ next.state = "storing" /\ next.data = job.data
            /\ next.attempts = job.attempts /\ next.made = job.made /\ next.stalled = job.stalled
        BY <1>0, StepKept
      <3> HIDE DEF next
      <3>3. Accounted(id, next, got + taken)
        BY <1>0, <2>1, <2>4, <3>1, <3>2 DEF Accounted
      <3> QED BY <1>1, <2>2, <2>4, <3>1, <3>2, <3>3 DEF next
    <2>5. CASE UNCHANGED arrived /\ Fail(id)
      BY <1>2, <2>3, <2>5
    <2>6. CASE UNCHANGED arrived /\ Put(id, Step(job, "storing")) /\ ~ NeedsProvider(job.data)
      BY <1>2, <2>4, <2>6
    <2> QED BY <1>3, <2>3, <2>4, <2>5, <2>6 DEF Dispatch, NeedsProvider, job, got
  <1>4. CASE Store(id)
    <2>1. /\ job.state = "storing" /\ job.made < job.attempts /\ job.attempts <= Tries(id)
          /\ got <= job.made + job.stalled + 1 /\ arrived' = [arrived EXCEPT ![id] = got]
      BY <1>0, <1>2, <1>4 DEF Store, At, Accounted, job
    <2>2. CASE HasRow(id) /\ Put(id, Step(job, "completed"))
               /\ noticeRow' = [noticeRow EXCEPT ![id] = "SENT"]
      <3> DEFINE next == Step(job, "completed")
      <3>1. /\ next \in JobType /\ next.state = "completed" /\ next.data = job.data
            /\ next.attempts = job.attempts /\ next.made = job.made /\ next.stalled = job.stalled
        BY <1>0, StepKept
      <3> HIDE DEF next
      <3>2. Accounted(id, next, got)
        BY <1>0, <2>1, <2>2, <3>1 DEF Accounted
      <3> QED BY <1>0, <1>1, <1>2, <2>1, <2>2, <3>1, <3>2 DEF next
    <2>3. CASE Fail(id) /\ UNCHANGED noticeRow
      <3> DEFINE next == IF HasRow(id) THEN Step(job, "failing") ELSE FailAttempt(job)
      <3>1. next \in JobType /\ Accounted(id, next, got) /\ next.data = job.data
        BY <1>0, <2>1, FailKept
      <3>2. Put(id, next)
        BY <2>3 DEF Fail, job
      <3> HIDE DEF next
      <3> QED BY <1>0, <1>1, <1>2, <2>1, <2>3, <3>1, <3>2
    <2> QED BY <1>4, <2>2, <2>3 DEF Store, job
  <1>5. CASE RecordFailure(id)
    <2>1. /\ job.made < job.attempts /\ job.attempts <= Tries(id)
          /\ got <= job.made + job.stalled + 1 /\ arrived' = [arrived EXCEPT ![id] = got]
          /\ Put(id, FailAttempt(job))
      BY <1>0, <1>2, <1>5 DEF RecordFailure, At, Accounted, job
    <2>2. noticeRow' = noticeRow \/ noticeRow' = [noticeRow EXCEPT ![id] = "FAILED"]
      BY <1>5 DEF RecordFailure
    <2>3. /\ FailAttempt(job) \in JobType /\ Accounted(id, FailAttempt(job), got)
          /\ FailAttempt(job).data = job.data
      BY <1>0, <2>1, FailAttemptKept
    <2> QED BY <1>0, <1>1, <1>2, <2>1, <2>2, <2>3
  <1> QED BY <1>3, <1>4, <1>5 DEF Work

\* The jobs another service adds, and those of a request, leave the rows alone.
LEMMA AddKeepsRows ==
    ASSUME JobsAccounted, SentThroughJobs, NEW id, NEW data \in MessageType, NEW n \in 1 .. 3,
           n <= Tries(id), Add(id, data, n), UNCHANGED noticeRow,
           id \in Notices /\ NeedsProvider(Content[id]) => NeedsProvider(data)
    PROVE  JobsAccounted' /\ SentThroughJobs'
  <1>1. /\ JobsAccounted' /\ DOMAIN jobs' = DOMAIN jobs \cup {id}
        /\ \A i \in DOMAIN jobs : jobs'[i] = jobs[i] /\ arrived'[i] = arrived[i]
        /\ id \notin DOMAIN jobs => jobs'[id] = NewJob(data, n)
    BY AddKept
  <1>2. JobsGoOn
    <2>1. \A i \in DOMAIN jobs : arrived[i] \in Nat
      BY DEF JobsAccounted
    <2> QED BY <1>1, <2>1 DEF JobsGoOn
  <1>3. NewJob(data, n).data = data
    BY DEF NewJob
  <1>4. \A m \in Notices : m \in DOMAIN jobs' \ DOMAIN jobs /\ NeedsProvider(Content[m])
                             => NeedsProvider(jobs'[m].data)
    BY <1>1, <1>3
  <1> QED BY <1>1, <1>2, <1>4, SentKept DEF SentThroughJobs

LEMMA DeathKept ==
    ASSUME JobsAccounted, SentThroughJobs, NotificationServiceDies
    PROVE  JobsAccounted' /\ SentThroughJobs'
  <1>1. /\ jobs' = [id \in DOMAIN jobs |-> Stall(jobs[id])] /\ arrived' = arrived
        /\ noticeRow' = noticeRow
    BY DEF NotificationServiceDies
  <1>2. ASSUME NEW id \in DOMAIN jobs
        PROVE  /\ jobs'[id] \in JobType /\ Accounted(id, jobs'[id], arrived[id])
               /\ jobs'[id].data = jobs[id].data
               /\ arrived[id] >= arrived[id]
    <2>1. jobs[id] \in JobType /\ arrived[id] \in Nat /\ Accounted(id, jobs[id], arrived[id])
      BY DEF JobsAccounted
    <2> QED BY <1>1, <2>1, StallKept
  <1>3. \A id \in DOMAIN jobs' : Accounted(id, jobs[id], arrived[id])'
    BY <1>1, <1>2 DEF Accounted, Tries, HasRow, NeedsProvider
  <1>4. JobsAccounted'
    BY <1>1, <1>2, <1>3 DEF JobsAccounted
  <1>5. JobsGoOn /\ DOMAIN jobs' = DOMAIN jobs
    BY <1>1, <1>2 DEF JobsGoOn
  <1> QED BY <1>1, <1>4, <1>5, SentKept DEF SentThroughJobs

LEMMA QueueNext == JobsAccounted /\ SentThroughJobs /\ [Next]_vars => JobsAccounted' /\ SentThroughJobs'
  <1> SUFFICES ASSUME JobsAccounted, SentThroughJobs, [Next]_vars
               PROVE  JobsAccounted' /\ SentThroughJobs'
    OBVIOUS
  <1>1. CASE UNCHANGED <<jobs, arrived, noticeRow>>
    BY <1>1 DEF JobsAccounted, SentThroughJobs, Accounted, Tries, HasRow, NeedsProvider
  <1>2. ASSUME NEW n \in Notices, CreateRow(n) PROVE JobsAccounted' /\ SentThroughJobs'
    <2>1. UNCHANGED <<jobs, arrived>> /\ noticeRow' = [noticeRow EXCEPT ![n] = "PENDING"]
      BY <1>2 DEF CreateRow
    <2>2. JobsAccounted'
      BY <2>1 DEF JobsAccounted, Accounted, Tries, HasRow, NeedsProvider
    <2> QED BY <2>1, <2>2 DEF SentThroughJobs, NeedsProvider
  <1>3. ASSUME NEW n \in Notices, Enqueue(n) PROVE JobsAccounted' /\ SentThroughJobs'
    <2>1. Content[n] \in MessageType /\ 3 \in 1 .. 3 /\ 3 <= Tries(n)
      BY NotificationAssumption DEF NotificationAssumption, MessageType, Tries, HasRow
    <2>2. CASE Add(n, Content[n], 3) /\ UNCHANGED noticeRow
      BY <2>1, <2>2, AddKeepsRows
    <2> QED BY <1>1, <1>3, <2>2 DEF Enqueue
  <1>4. ASSUME NEW id \in DOMAIN jobs, Work(id) PROVE JobsAccounted' /\ SentThroughJobs'
    BY <1>4, WorkKept
  <1>5. ASSUME NEW id, Alert(id) PROVE JobsAccounted' /\ SentThroughJobs'
    <2>1. /\ MlroMail \in MessageType /\ 1 \in 1 .. 3 /\ 1 <= Tries(<<"alert", id>>)
          /\ NeedsProvider(MlroMail)
      BY AmlAssumption DEF AmlAssumption, MlroMail, MessageType, Tries, NeedsProvider
    <2>2. CASE Add(<<"alert", id>>, MlroMail, 1) /\ UNCHANGED noticeRow
      BY <2>1, <2>2, AddKeepsRows
    <2> QED BY <1>1, <1>5, <2>2 DEF Alert, NotifyFlag
  <1>6. ASSUME NEW d \in Receipts, QueueReceipt(d) PROVE JobsAccounted' /\ SentThroughJobs'
    <2> DEFINE data == [channel |-> "IN_APP", addressed |-> FALSE]
    <2>1. data \in MessageType /\ 1 \in 1 .. 3 /\ 1 <= Tries(d) /\ d \notin Notices
      BY AmlAssumption DEF AmlAssumption, MessageType, Tries
    <2>2. Add(d, data, 1) /\ UNCHANGED noticeRow
      BY <1>6 DEF QueueReceipt
    <2> HIDE DEF data
    <2> QED BY <2>1, <2>2, AddKeepsRows
  <1>7. CASE NotificationServiceDies
    BY <1>7, DeathKept
  <1>8. CASE NotificationNext
    BY <1>2, <1>3, <1>4, <1>7, <1>8 DEF NotificationNext
  <1>9. CASE AmlNext
    BY <1>1, <1>5, <1>9
       DEF AmlNext, ScreenSanctions, Settle, StartChecks, MarkScreened, RunCheck, RaiseFlagByHand,
           FileStr, AuditStr, Tick, AmlServiceDies, noticeVars
  <1>10. CASE UNCHANGED vars
    BY <1>1, <1>10 DEF vars, noticeVars
  <1> QED BY <1>6, <1>8, <1>9, <1>10 DEF Next

LEMMA QueueHolds == Spec => [](JobsAccounted /\ SentThroughJobs)
  <1>1. Init => JobsAccounted /\ SentThroughJobs
    BY QueueInit DEF Init
  <1> QED BY <1>1, QueueNext, PTL DEF Spec

\* A row that says SENT was taken by its provider, unless it needs none.
THEOREM SentNoticesArrived == Spec => []SentHasArrived
  <1>1. SentThroughJobs => SentHasArrived
    BY DEF SentThroughJobs, SentHasArrived
  <1> QED BY <1>1, QueueHolds, PTL

\* No message arrives more often than its attempts, and once more for a worker that
\* dies, whatever the providers and the database refuse.
THEOREM CopiesStayBounded == Spec => []CopiesAreBounded
  <1>1. ASSUME JobsAccounted, NEW id \in DOMAIN jobs
        PROVE  arrived[id] <= Tries(id) + MaxStalledCount
    <2>1. /\ jobs[id] \in JobType /\ arrived[id] \in Nat
          /\ Accounted(id, jobs[id], arrived[id])
      BY <1>1 DEF JobsAccounted
    <2>2. /\ jobs[id].attempts \in Nat /\ jobs[id].made \in Nat /\ jobs[id].stalled \in 0 .. 1
          /\ jobs[id].state \in {"waiting", "completed", "failed", "storing", "failing"}
      BY <2>1 DEF JobType, MaxStalledCount, Idle
    <2> QED BY <2>1, <2>2 DEF Accounted, MaxStalledCount, Tries
  <1>2. JobsAccounted => CopiesAreBounded
    BY <1>1 DEF CopiesAreBounded, Tries
  <1> QED BY <1>2, QueueHolds, PTL

(***************************************************************************)
(* The checks of aml-service.                                              *)
(***************************************************************************)
\* What a check that ran to its end has looked for.
Pattern(p, kind) ==
    \/ kind = "ROUND_TRIP" /\ \E r \in UpTo(p) : age[r] = 0 /\ ReverseOf(p, r)
    \/ kind = "VELOCITY" /\ Cardinality(UpTo(p) \cap Debits(Payment[p].from, 1)) > VelocityLimit

CheckStates == {"waiting", "checking", "completed", "failed"}

CheckJobType ==
    [data : Payments, attempts : Nat, state : CheckStates, made : Nat,
     stalled : 0 .. MaxStalledCount]

StatementTyped ==
    /\ stage \in [Payments -> {"idle", "cleared", "refused", "settled"}]
    /\ history \in Seq(Payments)
    /\ \A i, j \in DOMAIN history : history[i] = history[j] => i = j
    /\ \A i \in DOMAIN history : stage[history[i]] = "settled"
    /\ age \in [Payments -> 0 .. 2]

WorkerTyped ==
    /\ DOMAIN checking \subseteq ToSet(history)
    /\ checking \in [DOMAIN checking -> CheckJobType]
    /\ todo \in [Payments -> SUBSET Kinds] /\ missed \in [Payments -> SUBSET Kinds]
    /\ \A p \in Payments : todo[p] # {} => p \in DOMAIN checking /\ checking[p].state = "checking"
    /\ \A p \in amlScreened : p \in DOMAIN checking /\ checking[p].state = "completed"

FlagsTyped ==
    /\ sending \in [Notices -> {"idle", "created", "answered", "error", "lost"}]
    /\ byHand \in [DOMAIN ByHand -> {"idle", "suspend", "answered", "lost"}]
    /\ \A f \in DOMAIN ByHand :
         byHand[f] = "suspend" => /\ <<f, "MANUAL", 1>> \in DOMAIN flags
                                  /\ ByHand[f].wallet \in Wallets
    /\ toAlert \subseteq DOMAIN flags /\ suspended \subseteq Wallets

\* A check that has run in this delivery, and was not swallowed, has flagged what it
\* looks for; and no pattern appears afterwards, since debits only grow older.
Looked(p, kind) ==
    checking[p].state \in {"checking", "completed"} /\ kind \notin todo[p] \cup missed[p]

ChecksFlagged ==
    \A p \in DOMAIN checking, kind \in Kinds :
        Looked(p, kind) /\ Pattern(p, kind) => Flagged(p, kind)

ScreenInv == StatementTyped /\ WorkerTyped /\ FlagsTyped /\ ChecksFlagged

\* The statement only grows at its end, so what was paid up to p stays the same.
Grown == history' = history \/ \E q \in Payments : history' = Append(history, q)

LEMMA GrownKeeps ==
    ASSUME StatementTyped, Grown
    PROVE  /\ DOMAIN history \subseteq DOMAIN history' /\ DOMAIN history = 1 .. Len(history)
           /\ \A i \in DOMAIN history : history'[i] = history[i]
           /\ ToSet(history) \subseteq ToSet(history')
  <1>1. history \in Seq(Payments)
    BY DEF StatementTyped
  <1>2. /\ DOMAIN history \subseteq DOMAIN history' /\ DOMAIN history = 1 .. Len(history)
        /\ \A i \in DOMAIN history : history'[i] = history[i]
    BY <1>1 DEF Grown
  <1> QED BY <1>2 DEF ToSet

LEMMA UpToStays ==
    ASSUME StatementTyped, StatementTyped', Grown, NEW p \in ToSet(history)
    PROVE  UpTo(p)' = UpTo(p) /\ UpTo(p) \subseteq ToSet(history) /\ IsFiniteSet(UpTo(p))
  <1>1. PICK i \in DOMAIN history : history[i] = p
    BY DEF ToSet
  <1>2. /\ i \in DOMAIN history' /\ history'[i] = p /\ DOMAIN history = 1 .. Len(history)
        /\ \A j \in DOMAIN history : history'[j] = history[j]
    BY <1>1, GrownKeeps
  <1>3. Position(p) = i
    BY <1>1 DEF Position, StatementTyped
  <1>4. Position(p)' = i
    BY <1>2 DEF Position, StatementTyped
  <1>5. i \in Nat /\ Len(history) \in Nat /\ 1 .. i \subseteq DOMAIN history
    BY <1>1, <1>2 DEF StatementTyped
  <1>6. UpTo(p)' = UpTo(p)
    BY <1>2, <1>3, <1>4, <1>5 DEF UpTo
  <1>7. IsFiniteSet(UpTo(p))
    <2>1. IsFiniteSet(1 .. i)
      BY <1>5, FS_Interval
    <2> DEFINE f == [j \in 1 .. i |-> history[j]]
    <2>2. f \in Surjection(1 .. i, UpTo(p))
      BY <1>3 DEF UpTo, Surjection
    <2> QED BY <2>1, <2>2, FS_Surjection
  <1>8. UpTo(p) \subseteq ToSet(history)
    BY <1>3, <1>5 DEF UpTo, ToSet
  <1> QED BY <1>6, <1>7, <1>8

\* Debits only grow older, so no pattern appears after the check that looked for it.
LEMMA PatternsFade ==
    ASSUME StatementTyped, StatementTyped', Grown, \A x \in Payments : age'[x] >= age[x],
           NEW p \in ToSet(history), NEW kind \in Kinds, Pattern(p, kind)'
    PROVE  Pattern(p, kind)
  <1>1. UpTo(p)' = UpTo(p) /\ UpTo(p) \subseteq ToSet(history) /\ IsFiniteSet(UpTo(p))
    BY UpToStays
  <1>2. ToSet(history) \subseteq Payments
    BY DEF StatementTyped, ToSet
  <1>3. \A x \in Payments : age[x] \in Nat /\ age'[x] \in Nat
    BY DEF StatementTyped
  <1>4. CASE kind = "ROUND_TRIP"
    <2>1. PICK r \in UpTo(p) : age'[r] = 0 /\ ReverseOf(p, r)
      BY <1>1, <1>4 DEF Pattern, ReverseOf, Tolerance
    <2>2. age[r] = 0
      BY <1>1, <1>2, <1>3, <2>1
    <2> QED BY <1>4, <2>1, <2>2 DEF Pattern
  <1>5. CASE kind = "VELOCITY"
    <2> DEFINE before == UpTo(p) \cap Debits(Payment[p].from, 1)
               after == UpTo(p) \cap Debits(Payment[p].from, 1)'
    <2>1. after \subseteq before
      <3> SUFFICES ASSUME NEW x \in after PROVE x \in before
        OBVIOUS
      <3>1. x \in UpTo(p) /\ x \in Payments /\ Payment[x].from = Payment[p].from /\ age'[x] <= 1
        BY <1>1, <1>2 DEF Debits
      <3>2. age[x] <= 1
        BY <1>3, <3>1
      <3> QED BY <1>1, <3>1, <3>2 DEF Debits
    <2>2. IsFiniteSet(before)
      BY <1>1, FS_Subset
    <2>3. Cardinality(after) > VelocityLimit
      BY <1>1, <1>5 DEF Pattern
    <2> HIDE DEF before, after
    <2>4. /\ Cardinality(after) <= Cardinality(before)
          /\ Cardinality(after) \in Nat /\ Cardinality(before) \in Nat
      BY <2>1, <2>2, FS_Subset, FS_CardinalityType
    <2>5. Cardinality(before) > VelocityLimit
      BY <2>3, <2>4, AmlAssumption DEF AmlAssumption
    <2> QED BY <1>5, <2>5 DEF Pattern, before
  <1> QED BY <1>4, <1>5 DEF Kinds

LEMMA StatementNext ==
    ASSUME StatementTyped, [Next]_vars
    PROVE  StatementTyped' /\ Grown /\ \A x \in Payments : age'[x] >= age[x]
  <1>0. \A x \in Payments : age[x] \in Nat /\ age[x] >= age[x]
    BY DEF StatementTyped
  <1>1. CASE UNCHANGED paymentVars
    BY <1>0, <1>1 DEF paymentVars, StatementTyped, Grown
  <1>2. ASSUME NEW p \in Payments, ScreenSanctions(p)
        PROVE  StatementTyped' /\ Grown /\ \A x \in Payments : age'[x] >= age[x]
    <2>1. /\ stage[p] = "idle" /\ UNCHANGED <<history, age>>
          /\ \E s \in {"refused", "cleared"} : stage' = [stage EXCEPT ![p] = s]
      BY <1>2 DEF ScreenSanctions
    <2> QED BY <1>0, <2>1 DEF StatementTyped, Grown
  <1>3. ASSUME NEW p \in Payments, Settle(p)
        PROVE  StatementTyped' /\ Grown /\ \A x \in Payments : age'[x] >= age[x]
    <2>1. /\ stage[p] = "cleared" /\ UNCHANGED age
          /\ stage' = [stage EXCEPT ![p] = "settled"] /\ history' = Append(history, p)
      BY <1>3 DEF Settle
    <2>2. /\ history \in Seq(Payments) /\ history' \in Seq(Payments)
          /\ DOMAIN history = 1 .. Len(history) /\ Len(history) \in Nat
          /\ DOMAIN history' = 1 .. Len(history) + 1
          /\ \A i \in DOMAIN history : history'[i] = history[i]
          /\ history'[Len(history) + 1] = p
      BY <2>1 DEF StatementTyped
    <2>3. \A i \in DOMAIN history : history[i] # p
      BY <2>1 DEF StatementTyped
    <2>4. \A i, j \in DOMAIN history' : history'[i] = history'[j] => i = j
      BY <2>2, <2>3 DEF StatementTyped
    <2>5. \A i \in DOMAIN history' : stage'[history'[i]] = "settled"
      <3> SUFFICES ASSUME NEW i \in DOMAIN history' PROVE stage'[history'[i]] = "settled"
        OBVIOUS
      <3>1. CASE i \in DOMAIN history
        <4>1. history'[i] \in Payments /\ history'[i] # p /\ stage[history'[i]] = "settled"
          BY <2>2, <2>3, <3>1 DEF StatementTyped
        <4> QED BY <2>1, <4>1 DEF StatementTyped
      <3>2. CASE i = Len(history) + 1
        BY <2>1, <2>2, <3>2 DEF StatementTyped
      <3> QED BY <2>2, <3>1, <3>2
    <2> QED BY <1>0, <2>1, <2>2, <2>4, <2>5 DEF StatementTyped, Grown
  <1>4. ASSUME Tick PROVE StatementTyped' /\ Grown /\ \A x \in Payments : age'[x] >= age[x]
    <2>1. /\ UNCHANGED <<stage, history>>
          /\ age' = [p \in Payments |-> IF p \in ToSet(history) /\ age[p] < 2 THEN age[p] + 1 ELSE age[p]]
      BY <1>4 DEF Tick
    <2>2. \A x \in Payments : age[x] \in 0 .. 2 /\ age'[x] \in 0 .. 2 /\ age'[x] >= age[x]
      BY <2>1 DEF StatementTyped
    <2> QED BY <2>1, <2>2 DEF StatementTyped, Grown
  <1> QED BY <1>1, <1>2, <1>3, <1>4
          DEF Next, AmlNext, StartChecks, MarkScreened, RunCheck, Alert, RaiseFlagByHand, FileStr,
              AuditStr, AmlServiceDies, QueueReceipt, vars

\* The jobs of PAYMENTS_CREATED stay well typed through every outcome of an attempt.
LEMMA CheckJobs ==
    ASSUME NEW job \in CheckJobType
    PROVE  /\ Step(job, "checking") \in CheckJobType /\ Step(job, "checking").state = "checking"
           /\ Step(job, "completed") \in CheckJobType /\ Step(job, "completed").state = "completed"
           /\ FailAttempt(job) \in CheckJobType
           /\ FailAttempt(job).state \in {"waiting", "failed"}
           /\ Stall(job) \in CheckJobType
           /\ job.state \notin {"waiting", "completed", "failed"} =>
                Stall(job).state \in {"waiting", "failed"}
           /\ job.state \in {"waiting", "completed", "failed"} => Stall(job) = job
  <1>0. /\ {"waiting", "checking", "completed", "failed"} \subseteq CheckStates
        /\ 1 \in 0 .. MaxStalledCount
    BY DEF CheckStates, MaxStalledCount
  <1>1. /\ Step(job, "checking") \in CheckJobType /\ Step(job, "checking").state = "checking"
        /\ Step(job, "completed") \in CheckJobType /\ Step(job, "completed").state = "completed"
    BY <1>0 DEF Step, CheckJobType
  <1>2. FailAttempt(job) \in CheckJobType /\ FailAttempt(job).state \in {"waiting", "failed"}
    <2> DEFINE state == IF job.made + 1 < job.attempts THEN "waiting" ELSE "failed"
               made == job.made + 1
               j == [job EXCEPT !.made = made, !.state = state]
    <2>1. FailAttempt(job) = j
      BY DEF FailAttempt
    <2>2. made \in Nat /\ state \in CheckStates /\ state \in {"waiting", "failed"}
      BY <1>0 DEF CheckJobType
    <2> HIDE DEF state, made
    <2>3. j \in CheckJobType /\ j.state = state
      BY <2>2 DEF CheckJobType
    <2> QED BY <2>1, <2>2, <2>3
  <1>3. CASE job.state \in {"waiting", "completed", "failed"}
    BY <1>1, <1>2, <1>3 DEF Stall, Active, Idle
  <1>4. CASE job.state \notin {"waiting", "completed", "failed"}
    <2>1. CASE job.stalled < MaxStalledCount
      <3> DEFINE j == [job EXCEPT !.stalled = 1, !.state = "waiting"]
      <3>1. job.stalled = 0
        BY <2>1 DEF MaxStalledCount, CheckJobType
      <3>2. Stall(job) = j
        BY <1>4, <2>1, <3>1 DEF Stall, Active, Idle
      <3>3. j \in CheckJobType /\ j.state = "waiting"
        BY <1>0 DEF CheckJobType
      <3> QED BY <1>1, <1>2, <1>4, <3>2, <3>3
    <2>2. CASE ~ (job.stalled < MaxStalledCount)
      <3> DEFINE j == [job EXCEPT !.state = "failed"]
      <3>1. Stall(job) = j
        BY <1>4, <2>2 DEF Stall, Active, Idle
      <3>2. j \in CheckJobType /\ j.state = "failed"
        BY <1>0 DEF CheckJobType
      <3> QED BY <1>1, <1>2, <1>4, <3>1, <3>2
    <2> QED BY <2>1, <2>2
  <1> QED BY <1>3, <1>4

LEMMA WorkerNext ==
    ASSUME StatementTyped, WorkerTyped, [Next]_vars
    PROVE  WorkerTyped'
  <1>0. ToSet(history) \subseteq ToSet(history') /\ ToSet(history) \subseteq Payments
    BY StatementNext, GrownKeeps DEF StatementTyped, ToSet
  <1>1. CASE UNCHANGED workerVars
    BY <1>0, <1>1 DEF workerVars, WorkerTyped
  <1>2. ASSUME NEW p \in Payments, Settle(p) PROVE WorkerTyped'
    <2>1. CASE checking' = WithEntry(checking, p, NewJob(p, 1))
      <3>1. NewJob(p, 1) \in CheckJobType
        BY DEF NewJob, CheckJobType, CheckStates, MaxStalledCount
      <3>2. /\ DOMAIN checking' = DOMAIN checking \cup {p}
            /\ checking' \in [DOMAIN checking' -> CheckJobType]
            /\ \A q \in DOMAIN checking : checking'[q] = checking[q]
        BY <2>1, <3>1 DEF WithEntry, WorkerTyped
      <3>3. p \in ToSet(history')
        <4>1. history' = Append(history, p) /\ history \in Seq(Payments)
          BY <1>2 DEF Settle, StatementTyped
        <4>2. Len(history) + 1 \in DOMAIN history' /\ history'[Len(history) + 1] = p
          BY <4>1
        <4> QED BY <4>2 DEF ToSet
      <3>4. UNCHANGED <<todo, missed, amlScreened>>
        BY <1>2 DEF Settle
      <3> QED BY <1>0, <3>2, <3>3, <3>4 DEF WorkerTyped
    <2>2. CASE UNCHANGED checking
      <3>1. UNCHANGED workerVars
        BY <1>2, <2>2 DEF Settle, workerVars
      <3> QED BY <1>1, <3>1
    <2> QED BY <1>2, <2>1, <2>2 DEF Settle
  <1>3. ASSUME NEW p \in Payments, StartChecks(p) PROVE WorkerTyped'
    <2>1. /\ p \in DOMAIN checking /\ checking[p].state = "waiting"
          /\ checking' = [checking EXCEPT ![p] = Step(checking[p], "checking")]
          /\ todo' = [todo EXCEPT ![p] = Kinds] /\ missed' = [missed EXCEPT ![p] = {}]
          /\ UNCHANGED <<amlScreened, history>>
      BY <1>3 DEF StartChecks, At, paymentVars
    <2>2. checking[p] \in CheckJobType
      BY <2>1 DEF WorkerTyped
    <2>3. checking' \in [DOMAIN checking -> CheckJobType] /\ checking'[p].state = "checking"
      BY <2>1, <2>2, CheckJobs DEF WorkerTyped
    <2> QED BY <2>1, <2>3 DEF WorkerTyped
  <1>4. ASSUME NEW p \in Payments, NEW kind \in Kinds, RunCheck(p, kind) PROVE WorkerTyped'
    BY <1>4 DEF RunCheck, WorkerTyped, paymentVars
  <1>5. ASSUME NEW p \in Payments, MarkScreened(p) PROVE WorkerTyped'
    <2>1. /\ p \in DOMAIN checking /\ checking[p].state = "checking" /\ todo[p] = {}
          /\ UNCHANGED <<todo, missed, history>>
      BY <1>5 DEF MarkScreened, At, paymentVars
    <2>2. checking[p] \in CheckJobType
      BY <2>1 DEF WorkerTyped
    <2>3. CASE /\ amlScreened' = amlScreened \cup {p}
               /\ checking' = [checking EXCEPT ![p] = Step(checking[p], "completed")]
      <3>1. checking' \in [DOMAIN checking -> CheckJobType] /\ checking'[p].state = "completed"
        BY <2>1, <2>2, <2>3, CheckJobs DEF WorkerTyped
      <3> QED BY <2>1, <2>3, <3>1 DEF WorkerTyped
    <2>4. CASE /\ UNCHANGED amlScreened
               /\ checking' = [checking EXCEPT ![p] = FailAttempt(checking[p])]
      <3>1. checking' \in [DOMAIN checking -> CheckJobType]
        BY <2>1, <2>2, <2>4, CheckJobs DEF WorkerTyped
      <3> QED BY <2>1, <2>4, <3>1 DEF WorkerTyped
    <2> QED BY <1>5, <2>3, <2>4 DEF MarkScreened
  <1>6. ASSUME AmlServiceDies PROVE WorkerTyped'
    <2>1. /\ checking' = [p \in DOMAIN checking |-> Stall(checking[p])]
          /\ todo' = [p \in Payments |-> {}] /\ UNCHANGED <<missed, amlScreened, history>>
      BY <1>6 DEF AmlServiceDies, paymentVars
    <2>2. \A p \in DOMAIN checking : checking[p] \in CheckJobType
      BY DEF WorkerTyped
    <2>3. \A p \in DOMAIN checking : /\ checking'[p] \in CheckJobType
                                     /\ checking[p].state = "completed" => checking'[p] = checking[p]
      BY <2>1, <2>2, CheckJobs
    <2> QED BY <2>1, <2>3 DEF WorkerTyped
  <1> QED BY <1>1, <1>2, <1>3, <1>4, <1>5, <1>6
          DEF Next, AmlNext, ScreenSanctions, Alert, RaiseFlagByHand, FileStr, AuditStr, Tick,
              QueueReceipt, vars

\* Flags are never deleted.
LEMMA FlagsNext ==
    ASSUME FlagsTyped, [Next]_vars
    PROVE  FlagsTyped' /\ DOMAIN flags \subseteq DOMAIN flags'
  <1>1. ASSUME UNCHANGED <<byHand, suspended, sending>>, DOMAIN flags \subseteq DOMAIN flags',
               toAlert' \subseteq DOMAIN flags'
        PROVE  FlagsTyped' /\ DOMAIN flags \subseteq DOMAIN flags'
    BY <1>1 DEF FlagsTyped
  <1>2. CASE UNCHANGED <<flags, toAlert, byHand, suspended>>
    <2>1. sending' \in [Notices -> {"idle", "created", "answered", "error", "lost"}]
      <3>1. CASE UNCHANGED sending
        BY <3>1 DEF FlagsTyped
      <3>2. CASE NotificationNext
        BY <3>2 DEF NotificationNext, CreateRow, Enqueue, Work, Dispatch, Store, RecordFailure,
                    NotificationServiceDies, FlagsTyped
      <3> QED BY <3>1, <3>2 DEF Next, AmlNext, ScreenSanctions, Settle, StartChecks, MarkScreened,
                 RunCheck, Alert, RaiseFlagByHand, FileStr, AuditStr, Tick, AmlServiceDies,
                 QueueReceipt, vars, noticeVars
    <2> QED BY <1>2, <2>1 DEF FlagsTyped
  <1>3. ASSUME NEW id, NEW severity, NEW wallet, CreateFlag(id, severity, wallet)
        PROVE  DOMAIN flags \subseteq DOMAIN flags' /\ toAlert' \subseteq DOMAIN flags'
    BY <1>3 DEF CreateFlag, WithEntry, FlagsTyped
  <1>4. ASSUME NEW p \in Payments, ScreenSanctions(p)
        PROVE  FlagsTyped' /\ DOMAIN flags \subseteq DOMAIN flags'
    <2>1. UNCHANGED <<byHand, suspended, sending>>
      BY <1>4 DEF ScreenSanctions, noticeVars, mlroVars
    <2>2. CreateFlag(<<p, "SANCTIONS_MATCH", 1>>, "CRITICAL", NoWallet) \/ UNCHANGED flagVars
      BY <1>4 DEF ScreenSanctions
    <2> QED BY <1>1, <1>3, <2>1, <2>2 DEF flagVars, FlagsTyped
  <1>5. ASSUME NEW p \in Payments, NEW kind \in Kinds, RunCheck(p, kind)
        PROVE  FlagsTyped' /\ DOMAIN flags \subseteq DOMAIN flags'
    <2>1. UNCHANGED <<byHand, suspended, sending>>
      BY <1>5 DEF RunCheck, noticeVars, mlroVars
    <2>2. (\E id, severity, wallet : CreateFlag(id, severity, wallet)) \/ UNCHANGED flagVars
      BY <1>5 DEF RunCheck, CheckVelocity, CheckRoundTripping
    <2> QED BY <1>1, <1>3, <2>1, <2>2 DEF flagVars, FlagsTyped
  <1>6. ASSUME NEW id \in toAlert, Alert(id)
        PROVE  FlagsTyped' /\ DOMAIN flags \subseteq DOMAIN flags'
    <2>1. UNCHANGED <<flags, byHand, suspended, sending>> /\ toAlert' = toAlert \ {id}
      BY <1>6 DEF Alert, mlroVars
    <2> QED BY <1>1, <2>1 DEF FlagsTyped
  <1>7. ASSUME NEW f \in DOMAIN ByHand, RaiseFlagByHand(f)
        PROVE  FlagsTyped' /\ DOMAIN flags \subseteq DOMAIN flags'
    <2>0. UNCHANGED sending
      BY <1>7 DEF RaiseFlagByHand, noticeVars
    <2>1. CASE byHand[f] = "idle"
      <3> DEFINE id == <<f, "MANUAL", 1>>
                 label == IF ByHand[f].severity = "CRITICAL" /\ ByHand[f].wallet # NoWallet
                            THEN "suspend" ELSE "answered"
      <3>1. /\ flags' = WithEntry(flags, id, NewFlag(ByHand[f].severity, ByHand[f].wallet))
            /\ byHand' = [byHand EXCEPT ![f] = label] /\ UNCHANGED <<toAlert, suspended>>
        BY <1>7, <2>1 DEF RaiseFlagByHand, RaiseFlag
      <3>2. DOMAIN flags' = DOMAIN flags \cup {id}
        BY <3>1 DEF WithEntry
      <3>3. label = "suspend" => ByHand[f].wallet \in Wallets
        BY AmlAssumption DEF AmlAssumption
      <3> QED BY <2>0, <3>1, <3>2, <3>3 DEF FlagsTyped
    <2>2. CASE byHand[f] = "suspend"
      <3>1. /\ suspended' = suspended \cup {ByHand[f].wallet} /\ UNCHANGED flags
            /\ toAlert' = toAlert \cup {<<f, "MANUAL", 1>>}
            /\ byHand' = [byHand EXCEPT ![f] = "answered"]
        BY <1>7, <2>2 DEF RaiseFlagByHand, RaiseFlag
      <3> QED BY <2>0, <2>2, <3>1 DEF FlagsTyped
    <2> QED BY <1>7, <2>1, <2>2 DEF RaiseFlagByHand, RaiseFlag
  <1>8. ASSUME NEW id, FileStr(id)
        PROVE  FlagsTyped' /\ DOMAIN flags \subseteq DOMAIN flags'
    <2>1. UNCHANGED <<toAlert, byHand, suspended, sending>> /\ DOMAIN flags' = DOMAIN flags
      BY <1>8 DEF FileStr, noticeVars
    <2> QED BY <1>1, <2>1 DEF FlagsTyped
  <1>9. ASSUME AmlServiceDies PROVE FlagsTyped' /\ DOMAIN flags \subseteq DOMAIN flags'
    BY <1>9 DEF AmlServiceDies, noticeVars, FlagsTyped
  <1> QED BY <1>2, <1>4, <1>5, <1>6, <1>7, <1>8, <1>9
          DEF Next, AmlNext, Settle, StartChecks, MarkScreened, AuditStr, Tick, QueueReceipt, vars,
              flagVars, mlroVars

\* A check that runs to its end and is not swallowed flags the pattern it looks for.
LEMMA CheckFlags ==
    ASSUME StatementTyped, WorkerTyped, NEW p \in Payments, NEW kind \in Kinds, RunCheck(p, kind),
           kind \notin missed'[p], Pattern(p, kind)
    PROVE  Flagged(p, kind)'
  <1>1. p \in ToSet(history) /\ checking[p] \in CheckJobType
    BY DEF RunCheck, WorkerTyped
  <1>2. checking[p].stalled + 1 \in 1 .. 1 + MaxStalledCount
    BY <1>1 DEF CheckJobType, MaxStalledCount
  <1>3. ASSUME NEW severity, NEW wallet, CreateFlag(FlagId(p, kind), severity, wallet)
        PROVE  Flagged(p, kind)'
    <2>1. <<p, kind, checking[p].stalled + 1>> \in DOMAIN flags'
      BY <1>3 DEF CreateFlag, WithEntry, FlagId
    <2> QED BY <1>2, <2>1 DEF Flagged
  <1>4. kind \in missed'[p] \/ (kind = "VELOCITY" /\ CheckVelocity(p))
                            \/ (kind = "ROUND_TRIP" /\ CheckRoundTripping(p))
    BY DEF RunCheck, WorkerTyped
  <1>5. UpTo(p) \subseteq ToSet(history) /\ IsFiniteSet(ToSet(history))
    <2>1. PICK i \in DOMAIN history : history[i] = p
      BY <1>1 DEF ToSet
    <2>2. Position(p) = i
      BY <2>1 DEF Position, StatementTyped
    <2>3. i \in Nat /\ Len(history) \in Nat /\ 1 .. i \subseteq DOMAIN history
          /\ DOMAIN history = 1 .. Len(history)
      BY <2>1 DEF StatementTyped
    <2>4. IsFiniteSet(DOMAIN history)
      BY <2>3, FS_Interval
    <2>5. [j \in DOMAIN history |-> history[j]] \in Surjection(DOMAIN history, ToSet(history))
      BY DEF ToSet, Surjection
    <2>6. IsFiniteSet(ToSet(history))
      BY <2>4, <2>5, FS_Surjection
    <2> QED BY <2>2, <2>3, <2>6 DEF UpTo, ToSet
  <1>6. CASE kind = "VELOCITY" /\ CheckVelocity(p)
    <2> DEFINE debits == Debits(Payment[p].from, 1)
               upto == UpTo(p) \cap debits
    <2>1. IsFiniteSet(debits) /\ upto \subseteq debits
      BY <1>5, FS_Subset DEF Debits
    <2>2. Cardinality(upto) > VelocityLimit
      BY <1>6 DEF Pattern
    <2>3. Cardinality(debits) > VelocityLimit
      <3> HIDE DEF debits, upto
      <3>1. /\ Cardinality(upto) <= Cardinality(debits)
            /\ Cardinality(upto) \in Nat /\ Cardinality(debits) \in Nat
        BY <2>1, FS_Subset, FS_CardinalityType
      <3> QED BY <2>2, <3>1, AmlAssumption DEF AmlAssumption
    <2>4. \E severity : CreateFlag(FlagId(p, "VELOCITY"), severity, Payment[p].from)
      BY <1>6, <2>3 DEF CheckVelocity
    <2> QED BY <1>3, <1>6, <2>4
  <1>7. CASE kind = "ROUND_TRIP" /\ CheckRoundTripping(p)
    <2>1. PICK r \in UpTo(p) : age[r] = 0 /\ ReverseOf(p, r)
      BY <1>7 DEF Pattern
    <2>2. r \in Debits(Payment[p].to, 0)
      BY <1>5, <2>1 DEF Debits, ReverseOf
    <2>3. CreateFlag(FlagId(p, "ROUND_TRIP"), "HIGH", Payment[p].from)
      BY <1>7, <2>1, <2>2 DEF CheckRoundTripping
    <2> QED BY <1>3, <1>7, <2>3
  <1> QED BY <1>4, <1>6, <1>7

\* What a check has looked for, it has looked for already, or looks for now.
LEMMA LookedBefore ==
    ASSUME StatementTyped, WorkerTyped, [Next]_vars, NEW p \in DOMAIN checking', NEW kind \in Kinds,
           Looked(p, kind)'
    PROVE  /\ p \in DOMAIN checking
           /\ Looked(p, kind) \/ (RunCheck(p, kind) /\ kind \notin missed'[p])
  <1>0. DOMAIN checking \subseteq Payments
    BY DEF StatementTyped, WorkerTyped, ToSet
  <1>1. CASE UNCHANGED workerVars
    BY <1>1 DEF workerVars, Looked
  <1>2. ASSUME NEW q \in Payments, Settle(q)
        PROVE  p \in DOMAIN checking /\ Looked(p, kind)
    <2>1. UNCHANGED <<todo, missed>>
      BY <1>2 DEF Settle
    <2>2. CASE UNCHANGED checking
      BY <2>1, <2>2 DEF Looked
    <2>3. CASE checking' = WithEntry(checking, q, NewJob(q, 1))
      BY <2>1, <2>3 DEF WithEntry, NewJob, Looked
    <2> QED BY <1>2, <2>2, <2>3 DEF Settle
  <1>3. ASSUME NEW q \in Payments, StartChecks(q)
        PROVE  p \in DOMAIN checking /\ Looked(p, kind)
    BY <1>3 DEF StartChecks, Looked, WorkerTyped
  <1>4. ASSUME NEW q \in Payments, NEW k \in Kinds, RunCheck(q, k)
        PROVE  /\ p \in DOMAIN checking
               /\ Looked(p, kind) \/ (RunCheck(p, kind) /\ kind \notin missed'[p])
    <2>1. UNCHANGED checking /\ todo' = [todo EXCEPT ![q] = todo[q] \ {k}]
          /\ missed' \in {missed, [missed EXCEPT ![q] = missed[q] \cup {k}]}
      BY <1>4 DEF RunCheck
    <2>2. p \in DOMAIN checking /\ p \in Payments
      BY <1>0, <2>1
    <2>3. CASE p # q \/ kind # k
      BY <2>1, <2>2, <2>3 DEF Looked, WorkerTyped
    <2>4. CASE p = q /\ kind = k
      BY <1>4, <2>1, <2>2, <2>4 DEF Looked
    <2> QED BY <2>2, <2>3, <2>4
  <1>5. ASSUME NEW q \in Payments, MarkScreened(q)
        PROVE  p \in DOMAIN checking /\ Looked(p, kind)
    <2>1. /\ q \in DOMAIN checking /\ checking[q].state = "checking" /\ UNCHANGED <<todo, missed>>
          /\ DOMAIN checking' = DOMAIN checking
          /\ \A r \in DOMAIN checking \ {q} : checking'[r] = checking[r]
      BY <1>5 DEF MarkScreened, At
    <2> QED BY <2>1 DEF Looked
  <1>6. ASSUME AmlServiceDies PROVE p \in DOMAIN checking /\ Looked(p, kind)
    <2>1. /\ checking' = [q \in DOMAIN checking |-> Stall(checking[q])]
          /\ todo' = [q \in Payments |-> {}] /\ missed' = missed
      BY <1>6 DEF AmlServiceDies
    <2>2. p \in DOMAIN checking /\ checking[p] \in CheckJobType /\ p \in Payments
      BY <1>0, <2>1 DEF WorkerTyped
    <2>3. checking[p].state = "completed"
      <3>1. checking'[p] = Stall(checking[p]) /\ checking'[p].state \in {"checking", "completed"}
        BY <2>1, <2>2 DEF Looked
      <3> QED BY <2>2, <3>1, CheckJobs
    <2>4. todo[p] = {}
      BY <2>2, <2>3 DEF WorkerTyped
    <2> QED BY <2>1, <2>2, <2>3, <2>4 DEF Looked
  <1> QED BY <1>1, <1>2, <1>3, <1>4, <1>5, <1>6
          DEF Next, AmlNext, ScreenSanctions, Alert, RaiseFlagByHand, FileStr, AuditStr, Tick,
              QueueReceipt, vars

LEMMA ScreenInit == Init => ScreenInv
  <1> SUFFICES ASSUME Init PROVE ScreenInv
    OBVIOUS
  <1>1. StatementTyped
    BY DEF Init, StatementTyped
  <1>2. WorkerTyped
    BY DEF Init, WorkerTyped
  <1>3. FlagsTyped
    BY DEF Init, NotificationInit, FlagsTyped
  <1>4. ChecksFlagged
    BY DEF Init, ChecksFlagged
  <1> QED BY <1>1, <1>2, <1>3, <1>4 DEF ScreenInv

LEMMA ScreenNext == ScreenInv /\ [Next]_vars => ScreenInv'
  <1> SUFFICES ASSUME ScreenInv, [Next]_vars PROVE ScreenInv'
    OBVIOUS
  <1>1. /\ StatementTyped' /\ WorkerTyped' /\ FlagsTyped'
        /\ Grown /\ \A x \in Payments : age'[x] >= age[x]
        /\ DOMAIN flags \subseteq DOMAIN flags'
    BY StatementNext, WorkerNext, FlagsNext DEF ScreenInv
  <1>2. ASSUME NEW p \in DOMAIN checking', NEW kind \in Kinds, Looked(p, kind)', Pattern(p, kind)'
        PROVE  Flagged(p, kind)'
    <2>1. /\ p \in DOMAIN checking
          /\ Looked(p, kind) \/ (RunCheck(p, kind) /\ kind \notin missed'[p])
      BY <1>2, LookedBefore DEF ScreenInv
    <2>2. p \in ToSet(history) /\ p \in Payments
      BY <2>1 DEF ScreenInv, WorkerTyped, StatementTyped, ToSet
    <2>3. Pattern(p, kind)
      BY <1>1, <1>2, <2>2, PatternsFade DEF ScreenInv
    <2>4. CASE Looked(p, kind)
      <3>1. Flagged(p, kind)
        BY <2>1, <2>3, <2>4 DEF ScreenInv, ChecksFlagged
      <3> QED BY <1>1, <3>1 DEF Flagged
    <2>5. CASE RunCheck(p, kind) /\ kind \notin missed'[p]
      BY <2>2, <2>3, <2>5, CheckFlags DEF ScreenInv
    <2> QED BY <2>1, <2>4, <2>5
  <1>3. ChecksFlagged'
    BY <1>2 DEF ChecksFlagged
  <1> QED BY <1>1, <1>3 DEF ScreenInv

\* A payment that was screened, with no check swallowed, carries a flag for what it
\* sends back and for being one too many, whatever ran, died and ran again meanwhile.
THEOREM ScreenedPatternsAreFlagged == Spec => []PatternsAreFlagged
  <1>1. Init => ScreenInv
    BY ScreenInit
  <1>2. ASSUME ScreenInv, NEW p \in amlScreened, NEW kind \in Kinds,
               kind \notin missed[p], Pattern(p, kind)
        PROVE  Flagged(p, kind)
    <2>1. p \in DOMAIN checking /\ checking[p].state = "completed" /\ p \in Payments
      BY <1>2 DEF ScreenInv, WorkerTyped, StatementTyped, ToSet
    <2>2. todo[p] = {}
      BY <1>2, <2>1 DEF ScreenInv, WorkerTyped
    <2> QED BY <1>2, <2>1, <2>2 DEF ScreenInv, ChecksFlagged, Looked
  <1>3. ASSUME ScreenInv, JobsAccounted, SentThroughJobs PROVE PatternsAreFlagged
    <2>1. TypeOK
      <3>1. \A id \in DOMAIN jobs : jobs[id].state \in Idle \cup {"storing", "failing"}
        BY <1>3 DEF JobsAccounted, JobType
      <3> QED BY <1>3, <3>1 DEF TypeOK, ScreenInv, StatementTyped, WorkerTyped, FlagsTyped, SentThroughJobs
    <2>2. "ROUND_TRIP" \in Kinds /\ "VELOCITY" \in Kinds
      BY DEF Kinds
    <2> QED BY <1>2, <1>3, <2>1, <2>2 DEF PatternsAreFlagged, Pattern
  <1> QED BY <1>1, <1>3, ScreenNext, QueueHolds, PTL DEF Spec
=============================================================================
