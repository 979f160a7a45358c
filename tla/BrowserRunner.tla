--------------------------- MODULE BrowserRunner ---------------------------
(***************************************************************************)
(* The browser runner: drivers submit jobs over a Redis list, workers pop,  *)
(* run and settle them (browser_runner client.py, queue.py, worker.py).     *)
(* BLPOP removes the job before it runs and nothing acknowledges it, so a   *)
(* job in a worker's hands exists nowhere else.  An exception that leaves   *)
(* process_one ends the worker's process (run_forever has no except); the   *)
(* deployment restarts it.                                                  *)
(***************************************************************************)
EXTENDS Naturals, Sequences

CONSTANTS
    Jobs,         \* jobs, one submit call each
    Workers,      \* worker processes
    Unhandled,    \* jobs of a kind without a registered handler
    RetryLimit,   \* BrowserRunnerSettings.retry_limit
    Timeout,      \* timeout_s of submit, also the job's default deadline
    MaxTime,      \* bound on the clock
    MaxOutages,   \* bound on worker failures and stops
    NoJob         \* "no job in hand"

ASSUME BrowserRunnerAssumption ==
    /\ Unhandled \subseteq Jobs
    /\ RetryLimit \in Nat
    /\ Timeout \in Nat \ {0}
    /\ MaxTime \in Nat
    /\ MaxOutages \in Nat
    /\ NoJob \notin Jobs

VARIABLES
    clock,     \* wall clock, coarse
    queue,     \* the pending list: jobs with their attempts
    result,    \* result[j]: the JobResult stored under the job's key
    client,    \* the submit call of each job
    worker,    \* each worker's place in run_forever and process_one
    runs,      \* history: handler runs started for each job
    acted,     \* history: how often the job took effect on the portal
    stopping,  \* workers whose stop event is set
    lost,      \* history: jobs that went down with a worker
    outages    \* worker failures and stop requests so far

vars == <<clock, queue, result, client, worker, runs, acted, lost, stopping, outages>>

Results == {"succeeded", "failed", "deadline_exceeded"}

PCs == {"loop", "polling", "picked", "acquiring", "running", "backoff",
        "settling", "stopped", "crashed"}

Client == [pc: {"idle", "waiting", "returned"},
           deadline: 0..MaxTime,
           answer: Results \cup {"none", "client_timeout"},
           runs: Nat, acted: Nat]   \* history: runs and acted when it returned

Item == [job: Jobs, attempts: 0..RetryLimit]

Worker == [pc: PCs, job: Jobs \cup {NoJob}, attempts: 0..RetryLimit,
           outcome: Results \cup {"none"}]

Boot == [pc |-> "loop", job |-> NoJob, attempts |-> 0, outcome |-> "none"]

(* The shape of the state; the attempt count of a job, queued or in hand,   *)
(* never exceeds retry_limit (worker.py _handle_failure).                   *)
TypeOK ==
    /\ clock \in 0..MaxTime
    /\ queue \in Seq(Item)
    /\ result \in [Jobs -> Results \cup {"none"}]
    /\ client \in [Jobs -> Client]
    /\ worker \in [Workers -> Worker]
    /\ runs \in [Jobs -> Nat]
    /\ acted \in [Jobs -> Nat]
    /\ lost \subseteq Jobs
    /\ stopping \subseteq Workers
    /\ outages \in 0..MaxOutages

Init ==
    /\ clock = 0
    /\ queue = <<>>
    /\ result = [j \in Jobs |-> "none"]
    /\ client = [j \in Jobs |-> [pc |-> "idle", deadline |-> 0, answer |-> "none",
                               runs |-> 0, acted |-> 0]]
    /\ worker = [w \in Workers |-> Boot]
    /\ runs = [j \in Jobs |-> 0]
    /\ acted = [j \in Jobs |-> 0]
    /\ lost = {}
    /\ stopping = {}
    /\ outages = 0
-----------------------------------------------------------------------------
(* BrowserRunnerClient.submit and RedisJobQueue.wait_for_result.  (The      *)
(* clock's bound must leave room for the timeout.)                          *)
Submit(j) ==
    /\ client[j].pc = "idle"
    /\ clock + Timeout <= MaxTime
    /\ client' = [client EXCEPT ![j].pc = "waiting", ![j].deadline = clock + Timeout]
    /\ queue' = Append(queue, [job |-> j, attempts |-> 0])
    /\ UNCHANGED <<clock, result, worker, runs, acted, lost, stopping, outages>>

Return(j, answer) ==
    /\ client' = [client EXCEPT ![j].pc = "returned", ![j].answer = answer,
                                ![j].runs = runs[j], ![j].acted = acted[j]]
    /\ UNCHANGED <<clock, queue, result, worker, runs, acted, lost, stopping, outages>>

PollHit(j) ==
    /\ client[j].pc = "waiting"
    /\ result[j] # "none"
    /\ Return(j, result[j])

(* The last GET found nothing and no time is left.  (A poll that misses     *)
(* with time left changes nothing.)                                         *)
PollTimeout(j) ==
    /\ client[j].pc = "waiting"
    /\ result[j] = "none"
    /\ clock >= client[j].deadline
    /\ Return(j, "client_timeout")
-----------------------------------------------------------------------------
(* Worker.run_forever: the stop flag is looked at between jobs.             *)
Move(w, rec) == worker' = [worker EXCEPT ![w] = rec]

LoopTop(w) ==
    /\ worker[w].pc = "loop"
    /\ Move(w, [worker[w] EXCEPT !.pc = IF w \in stopping THEN "stopped" ELSE "polling"])
    /\ UNCHANGED <<clock, queue, result, client, runs, acted, lost, stopping, outages>>

Dequeue(w) ==
    /\ worker[w].pc = "polling"
    /\ queue # <<>>
    /\ Move(w, [worker[w] EXCEPT !.pc = "picked", !.job = Head(queue).job,
                                 !.attempts = Head(queue).attempts])
    /\ queue' = Tail(queue)
    /\ UNCHANGED <<clock, result, client, runs, acted, lost, stopping, outages>>

DequeueEmpty(w) ==
    /\ worker[w].pc = "polling"
    /\ queue = <<>>
    /\ Move(w, [worker[w] EXCEPT !.pc = "loop"])
    /\ UNCHANGED <<clock, queue, result, client, runs, acted, lost, stopping, outages>>

Settling(w, outcome) ==
    Move(w, [worker[w] EXCEPT !.pc = "settling", !.outcome = outcome])

Expired(j) == clock >= client[j].deadline

(* Mutant of Pick: the deadline is looked at on the first attempt only.     *)
PickRetriesLate(w) ==
    LET j == worker[w].job IN
    /\ worker[w].pc = "picked"
    /\ \/ Expired(j) /\ worker[w].attempts = 0 /\ Settling(w, "deadline_exceeded")
       \/ (~Expired(j) \/ worker[w].attempts > 0) /\ j \in Unhandled /\ Settling(w, "failed")
       \/ /\ (~Expired(j) \/ worker[w].attempts > 0) /\ j \notin Unhandled
          /\ Move(w, [worker[w] EXCEPT !.pc = "acquiring"])
    /\ UNCHANGED <<clock, queue, result, client, runs, acted, lost, stopping, outages>>

(* Mutant of Pick: an expired job is dropped without a result.              *)
PickDropsExpired(w) ==
    LET j == worker[w].job IN
    /\ worker[w].pc = "picked"
    /\ \/ Expired(j) /\ Move(w, Boot)
       \/ ~Expired(j) /\ j \in Unhandled /\ Settling(w, "failed")
       \/ /\ ~Expired(j) /\ j \notin Unhandled
          /\ Move(w, [worker[w] EXCEPT !.pc = "acquiring"])
    /\ UNCHANGED <<clock, queue, result, client, runs, acted, lost, stopping, outages>>

(* process_one up to the pool: expired, no handler, or go on.               *)
Pick(w) ==
    LET j == worker[w].job IN
    /\ worker[w].pc = "picked"
    /\ \/ Expired(j) /\ Settling(w, "deadline_exceeded")
       \/ ~Expired(j) /\ j \in Unhandled /\ Settling(w, "failed")
       \/ /\ ~Expired(j) /\ j \notin Unhandled
          /\ Move(w, [worker[w] EXCEPT !.pc = "acquiring"])
    /\ UNCHANGED <<clock, queue, result, client, runs, acted, lost, stopping, outages>>

(* BrowserPool.acquire gives a page, or its exception is the job's failure. *)
(* "Exhausted" is a RuntimeError, permanent; Playwright's may be transient. *)
AcquirePage(w) ==
    /\ worker[w].pc = "acquiring"
    /\ Move(w, [worker[w] EXCEPT !.pc = "running"])
    /\ runs' = [runs EXCEPT ![worker[w].job] = @ + 1]
    /\ UNCHANGED <<clock, queue, result, client, acted, lost, stopping, outages>>

(* Mutant of HandleFailure: a FAILED result is stored although the job is   *)
(* retried.                                                                 *)
FailAndRetry(w, transient) ==
    IF transient /\ worker[w].attempts < RetryLimit
    THEN /\ Move(w, [worker[w] EXCEPT !.pc = "backoff"])
         /\ result' = [result EXCEPT ![worker[w].job] = "failed"]
    ELSE Settling(w, "failed") /\ UNCHANGED result

(* Mutant of HandleFailure: the retry bound is off by one.                  *)
RetryOnceMore(w, transient) ==
    /\ IF transient /\ worker[w].attempts <= RetryLimit
       THEN Move(w, [worker[w] EXCEPT !.pc = "backoff"])
       ELSE Settling(w, "failed")
    /\ UNCHANGED result

(* _handle_failure: a transient failure within the limit backs off.         *)
HandleFailure(w, transient) ==
    /\ IF transient /\ worker[w].attempts < RetryLimit
       THEN Move(w, [worker[w] EXCEPT !.pc = "backoff"])
       ELSE Settling(w, "failed")
    /\ UNCHANGED result

AcquireFails(w, transient) ==
    /\ worker[w].pc = "acquiring"
    /\ HandleFailure(w, transient)
    /\ UNCHANGED <<clock, queue, client, runs, acted, lost, stopping, outages>>

HandlerSucceeds(w) ==
    /\ worker[w].pc = "running"
    /\ acted' = [acted EXCEPT ![worker[w].job] = @ + 1]
    /\ Settling(w, "succeeded")
    /\ UNCHANGED <<clock, queue, result, client, runs, lost, stopping, outages>>

(* The handler raised or ran into job_timeout_seconds, after it took effect *)
(* on the portal or before.                                                 *)
HandlerFails(w, transient, effect) ==
    /\ worker[w].pc = "running"
    /\ acted' = [acted EXCEPT ![worker[w].job] = IF effect THEN @ + 1 ELSE @]
    /\ HandleFailure(w, transient)
    /\ UNCHANGED <<clock, queue, client, runs, lost, stopping, outages>>

Free(w) == Move(w, Boot)

(* After the backoff sleep the job goes to the end of the list.             *)
Reenqueue(w) ==
    /\ worker[w].pc = "backoff"
    /\ queue' = Append(queue, [job |-> worker[w].job, attempts |-> worker[w].attempts + 1])
    /\ Free(w)
    /\ UNCHANGED <<clock, result, client, runs, acted, lost, stopping, outages>>

PutResult(w) ==
    /\ worker[w].pc = "settling"
    /\ result' = [result EXCEPT ![worker[w].job] = worker[w].outcome]
    /\ Free(w)
    /\ UNCHANGED <<clock, queue, client, runs, acted, lost, stopping, outages>>

Running(w) == worker[w].pc \notin {"stopped", "crashed"}

RequestStop(w) ==
    /\ Running(w)
    /\ w \notin stopping
    /\ outages < MaxOutages
    /\ outages' = outages + 1
    /\ stopping' = stopping \cup {w}
    /\ UNCHANGED <<clock, queue, result, client, worker, runs, acted, lost>>

(* The process dies, or an exception (credentials, Redis) leaves            *)
(* process_one.                                                             *)
Crash(w) ==
    /\ Running(w)
    /\ outages < MaxOutages
    /\ outages' = outages + 1
    /\ lost' = lost \cup ({worker[w].job} \ {NoJob})
    /\ Move(w, [Boot EXCEPT !.pc = "crashed"])
    /\ UNCHANGED <<clock, queue, result, client, runs, acted, stopping>>

Restart(w) ==
    /\ ~Running(w)
    /\ Move(w, Boot)
    /\ stopping' = stopping \ {w}
    /\ UNCHANGED <<clock, queue, result, client, runs, acted, lost, outages>>

Tick ==
    /\ clock < MaxTime
    /\ clock' = clock + 1
    /\ UNCHANGED <<queue, result, client, worker, runs, acted, lost, stopping, outages>>
-----------------------------------------------------------------------------
WorkerStep(w) ==
    \/ LoopTop(w) \/ Dequeue(w) \/ DequeueEmpty(w) \/ Pick(w) \/ AcquirePage(w)
    \/ \E transient \in BOOLEAN :
          AcquireFails(w, transient)
          \/ \E effect \in BOOLEAN : HandlerFails(w, transient, effect)
    \/ HandlerSucceeds(w) \/ Reenqueue(w) \/ PutResult(w) \/ Restart(w)

ClientStep(j) == PollHit(j) \/ PollTimeout(j)

Next ==
    \/ Tick
    \/ \E j \in Jobs : Submit(j) \/ ClientStep(j)
    \/ \E w \in Workers : WorkerStep(w) \/ RequestStop(w) \/ Crash(w)

Spec == Init /\ [][Next]_vars

(* Workers are restarted when they end (restart: unless-stopped), handlers  *)
(* end because of job_timeout_seconds, clients poll, and time passes.       *)
FairSpec ==
    /\ Spec
    /\ WF_vars(Tick)
    /\ \A w \in Workers : WF_vars(WorkerStep(w))
    /\ \A j \in Jobs : WF_vars(ClientStep(j))
-----------------------------------------------------------------------------
Queued(j) == \E i \in DOMAIN queue : queue[i].job = j
Held(j) == \E w \in Workers : worker[w].job = j
Settled(j) == result[j] # "none"

(* A job exists once: on the list, in one worker's hands, settled or lost - *)
(* never in two of these places, whatever is retried, stopped or crashes.   *)
(* Two copies would run a portal action twice at the same time, and a       *)
(* settled job that is still queued would overwrite the answer its driver   *)
(* has read.                                                                *)
OneCopy ==
    /\ \A i, k \in DOMAIN queue : queue[i].job = queue[k].job => i = k
    /\ \A w, v \in Workers : worker[w].job = worker[v].job /\ worker[w].job # NoJob => w = v
    /\ \A j \in Jobs :
          /\ Queued(j) => ~Held(j) /\ ~Settled(j) /\ j \notin lost
          /\ Held(j) => ~Settled(j) /\ j \notin lost
          /\ Settled(j) => j \notin lost
          /\ client[j].pc # "idle" <=> Queued(j) \/ Held(j) \/ Settled(j) \/ j \in lost

(* A job is run at most retry_limit + 1 times, crashes included, and never  *)
(* without its driver having asked.                                         *)
RunsBounded == \A j \in Jobs : runs[j] <= RetryLimit + 1

(* What a driver may still meet once its call has come back: nothing if it  *)
(* was told a result; if it gave up, the one attempt that was then in a     *)
(* worker's hands, which may still start and may still take effect, and no  *)
(* retry of it, because "jobs past their deadline fail fast ... without     *)
(* touching Playwright" (worker.py:5), in whichever worker, after whatever  *)
(* backoff, wait in the list or outage.                                     *)
LateWorkBounded ==
    \A j \in Jobs : client[j].pc = "returned" =>
        LET late == IF client[j].answer = "client_timeout" THEN 1 ELSE 0 IN
        /\ runs[j] <= client[j].runs + late
        /\ acted[j] <= client[j].acted + late

(* What the driver is told is what happened: an answer from a worker is the *)
(* stored result for good, and "succeeded" means that the job took effect.  *)
AnswerTrue ==
    \A j \in Jobs :
        /\ client[j].answer \in Results => client[j].answer = result[j]
        /\ client[j].answer = "succeeded" => acted[j] > 0

(* Refinement mapping: what became of a job, read off the result key, the   *)
(* jobs that went down with a worker and the submit call.                   *)
Fate == [j \in Jobs |-> IF j \in lost THEN "lost"
                       ELSE IF result[j] # "none" THEN result[j]
                       ELSE IF client[j].pc = "idle" THEN "idle" ELSE "pending"]

Service == INSTANCE JobService WITH fate <- Fate, tries <- runs, effects <- acted,
                                    answer <- [j \in Jobs |-> client[j].answer]

(* The runner keeps the promise of JobService through retries, crashes,     *)
(* stops and late results: a settled or lost job is never tried, acted upon *)
(* or settled again (worker.py _handle_failure, queue.py put_result), tries *)
(* stay within retry_limit, and a driver is told the one fate of its job.   *)
ImplementsJobService == Service!Spec

(* Every submitted job is settled unless a worker went down with it; and    *)
(* every submit call returns.                                               *)
JobsSettle ==
    \A j \in Jobs :
        /\ client[j].pc = "waiting" ~> (result[j] # "none" \/ j \in lost)
        /\ client[j].pc = "waiting" ~> client[j].pc = "returned"

(* "book_appointment is explicitly non-idempotent ... We do not retry it    *)
(* transparently" (drivers/vfs/driver.py:73): a job takes effect on the     *)
(* portal at most once.  The worker retries every kind after a timeout, so  *)
(* an appointment that was booked just before it is booked again.           *)
ActsOnce == \A j \in Jobs : acted[j] <= 1
=============================================================================
