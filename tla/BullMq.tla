-------------------------------- MODULE BullMq --------------------------------
(***************************************************************************)
(* A job of a BullMQ queue, as the workers of the services see it. Redis   *)
(* keeps jobs at least once: a worker that dies leaves its job stalled,    *)
(* and the queue gives it to a worker again, but only once                 *)
(* (maxStalledCount). An attempt that throws counts towards `attempts'.    *)
(***************************************************************************)
EXTENDS Integers, Entries

MaxStalledCount == 1

Idle == {"waiting", "completed", "failed"}

\* What a service gives to queue.add travels with the job.
NewJob(data, attempts) ==
    [data |-> data, attempts |-> attempts, state |-> "waiting", made |-> 0, stalled |-> 0]

Active(job) == job.state \notin Idle

At(job, state) == job.state = state
Step(job, state) == [job EXCEPT !.state = state]

\* The processor threw: wait for the backoff and try again, or give up.
FailAttempt(job) ==
    [job EXCEPT !.made = @ + 1,
                !.state = IF job.made + 1 < job.attempts THEN "waiting" ELSE "failed"]

\* The worker died with the job in hand. A job that stalls again is failed by the
\* queue itself: its processor is not called any more.
Stall(job) ==
    IF ~ Active(job) THEN job
    ELSE IF job.stalled < MaxStalledCount
           THEN [job EXCEPT !.stalled = @ + 1, !.state = "waiting"]
           ELSE [job EXCEPT !.state = "failed"]
=============================================================================
