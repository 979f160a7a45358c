------------------------ MODULE BrowserRunner_proofs ------------------------
(* Proofs about BrowserRunner: a job exists once, is run a bounded number   *)
(* of times and at most once more after its driver gave up, and its driver  *)
(* is told the truth.                                                       *)
EXTENDS BrowserRunner, TLAPS

Busy == {"picked", "acquiring", "running", "backoff", "settling"}

(* A worker holds a job exactly while it is inside process_one.             *)
HandsInv ==
    \A w \in Workers :
        /\ worker[w].pc \in Busy <=> worker[w].job # NoJob
        /\ worker[w].pc = "backoff" => worker[w].attempts < RetryLimit
        /\ worker[w].pc = "settling" => worker[w].outcome # "none"

(* The claims about each worker and the job in its hands: the attempt count *)
(* bounds the runs so far, and a success took effect.                       *)
WorkerInv(w) ==
    LET k == worker[w] IN
    /\ k.pc \in Busy <=> k.job # NoJob
    /\ k.pc = "backoff" => k.attempts < RetryLimit
    /\ k.pc = "settling" => k.outcome # "none"
    /\ k.pc \in {"picked", "acquiring"} => runs[k.job] <= k.attempts
    /\ k.pc \in {"running", "backoff", "settling"} => runs[k.job] <= k.attempts + 1
    /\ k.pc = "settling" /\ k.outcome = "succeeded" => acted[k.job] > 0

JobInv(j) ==
    /\ client[j].pc = "idle" => runs[j] = 0
    /\ runs[j] <= RetryLimit + 1
    /\ result[j] = "succeeded" => acted[j] > 0
    /\ client[j].answer \in Results => client[j].answer = result[j]
    /\ client[j].pc # "returned" => client[j].answer = "none"

(* A queued job has been run at most as often as its attempt count says.    *)
QueueInv == \A i \in DOMAIN queue : runs[queue[i].job] <= queue[i].attempts

(* A job whose driver has its answer: after a result nothing happens, and   *)
(* after a timeout the deadline is past, so that an attempt in hand may go  *)
(* on and none may begin; it has neither started nor acted since while it   *)
(* waits for its page, nor acted while it runs.                             *)
LateInv(j) ==
    LET c == client[j] IN
    c.pc = "returned" =>
        /\ runs[j] <= c.runs + 1 /\ acted[j] <= c.acted + 1
        /\ c.answer = "client_timeout" => c.deadline <= clock
        /\ c.answer # "client_timeout" =>
              result[j] # "none" /\ runs[j] = c.runs /\ acted[j] = c.acted
        /\ \A w \in Workers : worker[w].job = j =>
              /\ worker[w].pc = "acquiring" => runs[j] = c.runs /\ acted[j] = c.acted
              /\ worker[w].pc = "running" => acted[j] = c.acted

Inv ==
    /\ TypeOK /\ OneCopy /\ QueueInv
    /\ \A w \in Workers : WorkerInv(w)
    /\ \A j \in Jobs : JobInv(j)
    /\ \A j \in Jobs : LateInv(j)

LEMMA InvImplies ==
  Inv => HandsInv /\ RunsBounded /\ LateWorkBounded /\ AnswerTrue
<1> SUFFICES ASSUME Inv PROVE HandsInv /\ RunsBounded /\ LateWorkBounded /\ AnswerTrue
  OBVIOUS
<1>1. HandsInv /\ RunsBounded /\ AnswerTrue
  BY DEF Inv, HandsInv, RunsBounded, AnswerTrue, WorkerInv, JobInv, Results
<1>2. \A j \in Jobs : runs[j] \in Nat /\ acted[j] \in Nat /\ client[j] \in Client
  BY DEF Inv, TypeOK
<1>3. LateWorkBounded
  BY <1>2 DEF Inv, LateInv, LateWorkBounded, Client
<1> QED
  BY <1>1, <1>3

(* Setting some fields of a worker or of a client to values of their types  *)
(* gives a worker or a client.                                              *)
LEMMA BootType == Boot \in Worker /\ [Boot EXCEPT !.pc = "crashed"] \in Worker
  BY BrowserRunnerAssumption DEF Boot, Worker, PCs

LEMMA MoveType ==
  ASSUME NEW r \in Worker
  PROVE  /\ \A p \in PCs : [r EXCEPT !.pc = p] \in Worker
         /\ \A p \in PCs, o \in Results : [r EXCEPT !.pc = p, !.outcome = o] \in Worker
         /\ \A p \in PCs, x \in Item :
               [r EXCEPT !.pc = p, !.job = x.job, !.attempts = x.attempts] \in Worker
  BY BrowserRunnerAssumption DEF Worker, Boot, PCs, Item

LEMMA InitType == Init => TypeOK
  BY BrowserRunnerAssumption, BootType DEF Init, TypeOK, Client, Item

(* Only Reenqueue needs more than the types: a worker backs off only below  *)
(* the retry limit and with a job in hand.                                  *)
LEMMA StepType == TypeOK /\ HandsInv /\ [Next]_vars => TypeOK'
<1> SUFFICES ASSUME TypeOK, HandsInv, [Next]_vars PROVE TypeOK'
  OBVIOUS
<1> USE BrowserRunnerAssumption
<1>1. ASSUME NEW j \in Jobs, Submit(j) PROVE TypeOK'
  <2> DEFINE d == clock + Timeout
  <2>a. d \in 0..MaxTime /\ client[j] \in Client
    BY <1>1 DEF Submit, TypeOK
  <2>1. [client[j] EXCEPT !.pc = "waiting", !.deadline = d] \in Client
    <3> HIDE DEF d
    <3> QED BY <2>a DEF Client
  <2>2. [job |-> j, attempts |-> 0] \in Item
    BY DEF Item
  <2> QED
    BY <1>1, <2>1, <2>2 DEF Submit, TypeOK
<1>2. ASSUME NEW j \in Jobs, PollHit(j) \/ PollTimeout(j) PROVE TypeOK'
  <2>1. PICK a \in Results \cup {"client_timeout"} : Return(j, a)
    BY <1>2 DEF PollHit, PollTimeout, TypeOK
  <2>2. [client[j] EXCEPT !.pc = "returned", !.answer = a, !.runs = runs[j],
                          !.acted = acted[j]] \in Client
    BY DEF TypeOK, Client
  <2> QED
    BY <2>1, <2>2 DEF Return, TypeOK
<1>3. ASSUME NEW w \in Workers, LoopTop(w) PROVE TypeOK'
  BY <1>3, MoveType DEF LoopTop, Move, TypeOK, PCs
<1>4. ASSUME NEW w \in Workers, Dequeue(w) PROVE TypeOK'
  <2>1. Head(queue) \in Item /\ Tail(queue) \in Seq(Item)
    BY <1>4 DEF Dequeue, TypeOK
  <2> QED
    BY <1>4, <2>1, MoveType DEF Dequeue, Move, TypeOK, PCs
<1>5. ASSUME NEW w \in Workers, DequeueEmpty(w) PROVE TypeOK'
  BY <1>5, MoveType DEF DequeueEmpty, Move, TypeOK, PCs
<1>6. ASSUME NEW w \in Workers, Pick(w) PROVE TypeOK'
  <2>1. ASSUME NEW o \in Results, Settling(w, o) PROVE worker' \in [Workers -> Worker]
    BY <2>1, MoveType DEF Settling, Move, TypeOK, PCs
  <2>2. ASSUME Move(w, [worker[w] EXCEPT !.pc = "acquiring"])
        PROVE  worker' \in [Workers -> Worker]
    BY <2>2, MoveType DEF Move, TypeOK, PCs
  <2>3. worker' \in [Workers -> Worker]
    BY <1>6, <2>1, <2>2 DEF Pick, Results
  <2> QED
    BY <1>6, <2>3 DEF Pick, TypeOK
<1>7. ASSUME NEW w \in Workers, AcquirePage(w) PROVE TypeOK'
  <2>1. worker[w].job \in Jobs
    BY <1>7 DEF AcquirePage, HandsInv, Busy, TypeOK, Worker
  <2>2. runs' \in [Jobs -> Nat]
    BY <1>7, <2>1 DEF AcquirePage, TypeOK
  <2> QED
    BY <1>7, <2>2, MoveType DEF AcquirePage, Move, TypeOK, PCs
<1>8. ASSUME NEW w \in Workers, NEW b \in BOOLEAN, HandleFailure(w, b)
      PROVE worker' \in [Workers -> Worker] /\ result' = result
  <2>1. ASSUME Settling(w, "failed") PROVE worker' \in [Workers -> Worker]
    BY <2>1, MoveType DEF Settling, Move, TypeOK, PCs, Results
  <2>2. ASSUME Move(w, [worker[w] EXCEPT !.pc = "backoff"])
        PROVE  worker' \in [Workers -> Worker]
    BY <2>2, MoveType DEF Move, TypeOK, PCs
  <2> QED
    BY <1>8, <2>1, <2>2, Zenon DEF HandleFailure
<1>9. ASSUME NEW w \in Workers, NEW b \in BOOLEAN, AcquireFails(w, b) PROVE TypeOK'
  BY <1>9, <1>8 DEF AcquireFails, TypeOK
<1>10. ASSUME NEW w \in Workers, NEW b \in BOOLEAN, NEW e \in BOOLEAN, HandlerFails(w, b, e)
       PROVE TypeOK'
  <2>1. worker[w].job \in Jobs
    BY <1>10 DEF HandlerFails, HandsInv, Busy, TypeOK, Worker
  <2>2. acted' \in [Jobs -> Nat]
    BY <1>10, <2>1 DEF HandlerFails, TypeOK
  <2> QED
    BY <1>10, <1>8, <2>2 DEF HandlerFails, TypeOK
<1>11. ASSUME NEW w \in Workers, HandlerSucceeds(w) PROVE TypeOK'
  <2>1. worker[w].job \in Jobs
    BY <1>11 DEF HandlerSucceeds, HandsInv, Busy, TypeOK, Worker
  <2>2. acted' \in [Jobs -> Nat]
    BY <1>11, <2>1 DEF HandlerSucceeds, TypeOK
  <2> QED
    BY <1>11, <2>2, MoveType DEF HandlerSucceeds, Settling, Move, TypeOK, PCs, Results
<1>12. ASSUME NEW w \in Workers, Reenqueue(w) PROVE TypeOK'
  <2>1. worker[w].job \in Jobs /\ worker[w].attempts < RetryLimit
    BY <1>12 DEF Reenqueue, HandsInv, Busy, TypeOK, Worker
  <2>2. [job |-> worker[w].job, attempts |-> worker[w].attempts + 1] \in Item
    BY <2>1 DEF Item, TypeOK, Worker
  <2> QED
    BY <1>12, <2>2, BootType DEF Reenqueue, Free, Move, TypeOK
<1>13. ASSUME NEW w \in Workers, PutResult(w) PROVE TypeOK'
  <2>1. worker[w].outcome \in Results
    BY <1>13 DEF PutResult, HandsInv, TypeOK, Worker
  <2> QED
    BY <1>13, <2>1, BootType DEF PutResult, Free, Move, TypeOK
<1>14. ASSUME NEW w \in Workers, RequestStop(w) PROVE TypeOK'
  BY <1>14 DEF RequestStop, TypeOK
<1>15. ASSUME NEW w \in Workers, Crash(w) PROVE TypeOK'
  <2>1. lost' \subseteq Jobs
    BY <1>15 DEF Crash, TypeOK, Worker
  <2> QED
    BY <1>15, <2>1, BootType DEF Crash, Move, TypeOK
<1>16. ASSUME NEW w \in Workers, Restart(w) PROVE TypeOK'
  BY <1>16, BootType DEF Restart, Move, TypeOK
<1>17. CASE Tick
  BY <1>17 DEF Tick, TypeOK
<1>18. CASE UNCHANGED vars
  BY <1>18 DEF vars, TypeOK
<1> QED
  BY <1>1, <1>2, <1>3, <1>4, <1>5, <1>6, <1>7, <1>9, <1>10, <1>11, <1>12,
     <1>13, <1>14, <1>15, <1>16, <1>17, <1>18
     DEF Next, WorkerStep, ClientStep

(* The steps of Next by what they do to the places a job can be in.         *)
PlacesKept ==
    /\ queue' = queue /\ result' = result /\ lost' = lost
    /\ \A w \in Workers : worker'[w].job = worker[w].job
    /\ \A j \in Jobs : client'[j].pc = "idle" <=> client[j].pc = "idle"

LEMMA Places ==
  ASSUME TypeOK, HandsInv, [Next]_vars
  PROVE  \/ PlacesKept
         \/ \E j \in Jobs : Submit(j)
         \/ \E w \in Workers : Dequeue(w) \/ Reenqueue(w) \/ PutResult(w) \/ Crash(w)
<1>1. ASSUME NEW j \in Jobs, PollHit(j) \/ PollTimeout(j) PROVE PlacesKept
  <2>1. PICK a : Return(j, a)
    BY <1>1 DEF PollHit, PollTimeout
  <2>2. client[j].pc = "waiting" /\ client \in [Jobs -> Client]
    BY <1>1 DEF PollHit, PollTimeout, TypeOK
  <2>3. client'[j].pc = "returned" /\ \A i \in Jobs \ {j} : client'[i] = client[i]
    BY <2>1, <2>2 DEF Return, Client
  <2> QED
    BY <2>1, <2>2, <2>3 DEF Return, PlacesKept
<1>2. ASSUME NEW w \in Workers, NEW r,
             worker' = [worker EXCEPT ![w] = r], r.job = worker[w].job
      PROVE  \A v \in Workers : worker'[v].job = worker[v].job
  BY <1>2 DEF TypeOK
<1>3. ASSUME NEW w \in Workers, LoopTop(w) \/ DequeueEmpty(w) PROVE PlacesKept
  BY <1>3, <1>2 DEF LoopTop, DequeueEmpty, Move, PlacesKept, TypeOK, Worker
<1>4. ASSUME NEW w \in Workers, NEW o \in Results, Settling(w, o)
      PROVE  \A v \in Workers : worker'[v].job = worker[v].job
  BY <1>4, <1>2 DEF Settling, Move, TypeOK, Worker
<1>5. ASSUME NEW w \in Workers, Pick(w) PROVE PlacesKept
  <2>1. ASSUME Move(w, [worker[w] EXCEPT !.pc = "acquiring"])
        PROVE  \A v \in Workers : worker'[v].job = worker[v].job
    BY <2>1, <1>2 DEF Move, TypeOK, Worker
  <2>2. \A v \in Workers : worker'[v].job = worker[v].job
    BY <1>5, <1>4, <2>1 DEF Pick, Results
  <2> QED
    BY <1>5, <2>2 DEF Pick, PlacesKept
<1>6. ASSUME NEW w \in Workers, AcquirePage(w) PROVE PlacesKept
  BY <1>6, <1>2 DEF AcquirePage, Move, PlacesKept, TypeOK, Worker
<1>7. ASSUME NEW w \in Workers, NEW b \in BOOLEAN, HandleFailure(w, b)
      PROVE  result' = result /\ \A v \in Workers : worker'[v].job = worker[v].job
  <2>1. ASSUME Move(w, [worker[w] EXCEPT !.pc = "backoff"])
        PROVE  \A v \in Workers : worker'[v].job = worker[v].job
    BY <2>1, <1>2 DEF Move, TypeOK, Worker
  <2>2. "failed" \in Results
    BY DEF Results
  <2> QED
    BY <1>7, <1>4, <2>1, <2>2, Zenon DEF HandleFailure
<1>8. ASSUME NEW w \in Workers, NEW b \in BOOLEAN, NEW e \in BOOLEAN,
             AcquireFails(w, b) \/ HandlerFails(w, b, e)
      PROVE  PlacesKept
  BY <1>8, <1>7 DEF AcquireFails, HandlerFails, PlacesKept
<1>9. ASSUME NEW w \in Workers, HandlerSucceeds(w) PROVE PlacesKept
  BY <1>9, <1>4 DEF HandlerSucceeds, PlacesKept, Results
<1>10. ASSUME NEW w \in Workers, RequestStop(w) PROVE PlacesKept
  BY <1>10 DEF RequestStop, PlacesKept
<1>11. ASSUME NEW w \in Workers, Restart(w) PROVE PlacesKept
  BY <1>11, <1>2 DEF Restart, Running, Move, Boot, HandsInv, Busy, PlacesKept
<1>12. CASE Tick \/ UNCHANGED vars
  BY <1>12 DEF Tick, vars, PlacesKept
<1> QED
  BY <1>1, <1>3, <1>5, <1>6, <1>8, <1>9, <1>10, <1>11, <1>12
     DEF Next, WorkerStep, ClientStep

(* Appending an item of a job that is not queued, and dropping the first.   *)
LEMMA AppendQueue ==
  ASSUME TypeOK, NEW x \in Item, queue' = Append(queue, x), ~Queued(x.job),
         \A i, k \in DOMAIN queue : queue[i].job = queue[k].job => i = k
  PROVE  /\ \A j \in Jobs : Queued(j)' <=> Queued(j) \/ j = x.job
         /\ \A i, k \in DOMAIN queue' : queue'[i].job = queue'[k].job => i = k
<1>1. /\ DOMAIN queue = 1..Len(queue) /\ Len(queue) \in Nat
      /\ DOMAIN queue' = 1..(Len(queue) + 1)
      /\ \A i \in 1..Len(queue) : queue'[i] = queue[i]
      /\ queue'[Len(queue) + 1] = x
  BY DEF TypeOK
<1>2. \A i \in DOMAIN queue : queue[i].job # x.job
  BY DEF Queued
<1> QED
  BY <1>1, <1>2 DEF Queued

LEMMA TailQueue ==
  ASSUME TypeOK, queue # <<>>, queue' = Tail(queue),
         \A i, k \in DOMAIN queue : queue[i].job = queue[k].job => i = k
  PROVE  /\ Queued(Head(queue).job)
         /\ \A j \in Jobs : Queued(j)' <=> Queued(j) /\ j # Head(queue).job
         /\ \A i, k \in DOMAIN queue' : queue'[i].job = queue'[k].job => i = k
<1>1. /\ DOMAIN queue = 1..Len(queue) /\ Len(queue) \in Nat \ {0}
      /\ DOMAIN queue' = 1..(Len(queue) - 1)
      /\ \A i \in 1..(Len(queue) - 1) : queue'[i] = queue[i + 1]
      /\ Head(queue) = queue[1]
  BY DEF TypeOK
<1>2. 1 \in DOMAIN queue
  BY <1>1
<1>3. \A j \in Jobs : Queued(j)' => Queued(j) /\ j # Head(queue).job
  <2>1. SUFFICES ASSUME NEW j \in Jobs, NEW i \in DOMAIN queue', queue'[i].job = j
                 PROVE  Queued(j) /\ j # Head(queue).job
    BY DEF Queued
  <2>2. i + 1 \in DOMAIN queue /\ queue[i + 1].job = j /\ i + 1 # 1
    BY <1>1, <2>1
  <2> QED
    BY <1>1, <1>2, <2>2 DEF Queued
<1>4. \A j \in Jobs : Queued(j) /\ j # Head(queue).job => Queued(j)'
  <2>1. SUFFICES ASSUME NEW j \in Jobs, NEW i \in DOMAIN queue, queue[i].job = j,
                        j # Head(queue).job
                 PROVE  Queued(j)'
    BY DEF Queued
  <2>2. i - 1 \in DOMAIN queue' /\ queue'[i - 1] = queue[i]
    BY <1>1, <2>1
  <2> QED
    BY <2>1, <2>2 DEF Queued
<1>5. \A i, k \in DOMAIN queue' : queue'[i].job = queue'[k].job => i = k
  BY <1>1
<1> QED
  BY <1>1, <1>2, <1>3, <1>4, <1>5 DEF Queued

(* A worker lets go of its job, or a free worker takes one nobody holds.    *)
LEMMA Hands ==
  ASSUME TypeOK, NEW w \in Workers, NEW r \in Worker, worker' = [worker EXCEPT ![w] = r],
         r.job # NoJob => worker[w].job = NoJob /\ ~Held(r.job),
         \A u, v \in Workers :
             worker[u].job = worker[v].job /\ worker[u].job # NoJob => u = v
  PROVE  /\ \A j \in Jobs : Held(j)' <=> (Held(j) /\ j # worker[w].job) \/ j = r.job
         /\ \A u, v \in Workers :
               worker'[u].job = worker'[v].job /\ worker'[u].job # NoJob => u = v
<1>1. worker'[w] = r /\ \A v \in Workers \ {w} : worker'[v] = worker[v]
  BY DEF TypeOK
<1>2. NoJob \notin Jobs
  BY BrowserRunnerAssumption
<1> QED
  BY <1>1, <1>2 DEF Held

LEMMA StepOneCopy == TypeOK /\ HandsInv /\ OneCopy /\ [Next]_vars => OneCopy'
<1> SUFFICES ASSUME TypeOK, HandsInv, OneCopy, [Next]_vars PROVE OneCopy'
  OBVIOUS
<1> USE BrowserRunnerAssumption
<1>1. CASE PlacesKept
  BY <1>1 DEF PlacesKept, OneCopy, Queued, Held, Settled
<1>2. ASSUME NEW j \in Jobs, Submit(j) PROVE OneCopy'
  <2>1. /\ \A i \in Jobs : Queued(i)' <=> Queued(i) \/ i = j
        /\ \A i, k \in DOMAIN queue' : queue'[i].job = queue'[k].job => i = k
    <3>1. [job |-> j, attempts |-> 0] \in Item /\ ~Queued(j)
      BY <1>2 DEF Submit, Item, OneCopy
    <3> QED
      BY <1>2, <3>1, AppendQueue DEF Submit, OneCopy
  <2>2. /\ \A i \in Jobs : Held(i)' <=> Held(i)
        /\ \A i \in Jobs : client'[i].pc = "idle" <=> client[i].pc = "idle" /\ i # j
    BY <1>2 DEF Submit, Held, TypeOK, Client
  <2> QED
    BY <1>2, <2>1, <2>2 DEF Submit, OneCopy, Settled
<1>3. ASSUME NEW w \in Workers, Dequeue(w) PROVE OneCopy'
  <2> DEFINE r == [worker[w] EXCEPT !.pc = "picked", !.job = Head(queue).job,
                                    !.attempts = Head(queue).attempts]
  <2>1. Head(queue) \in Item
    BY <1>3 DEF Dequeue, TypeOK
  <2>2. r \in Worker /\ r.job = Head(queue).job /\ r.job \in Jobs
    <3>1. r \in Worker
      BY <2>1, MoveType DEF TypeOK, PCs
    <3>2. worker[w] \in Worker
      BY DEF TypeOK
    <3> QED
      BY <2>1, <3>1, <3>2 DEF Item, Worker
  <2>3. /\ Queued(Head(queue).job)
        /\ \A j \in Jobs : Queued(j)' <=> Queued(j) /\ j # Head(queue).job
        /\ \A i, k \in DOMAIN queue' : queue'[i].job = queue'[k].job => i = k
    BY <1>3, TailQueue DEF Dequeue, OneCopy
  <2>4. worker[w].job = NoJob
    BY <1>3 DEF Dequeue, HandsInv, Busy
  <2>5. ~Held(r.job)
    BY <2>2, <2>3 DEF OneCopy
  <2>6. worker' = [worker EXCEPT ![w] = r]
    BY <1>3 DEF Dequeue, Move
  <2>7. /\ \A j \in Jobs : Held(j)' <=> (Held(j) /\ j # worker[w].job) \/ j = r.job
        /\ \A u, v \in Workers :
              worker'[u].job = worker'[v].job /\ worker'[u].job # NoJob => u = v
    <3> HIDE DEF r
    <3> QED BY <2>2, <2>4, <2>5, <2>6, Hands DEF OneCopy
  <2> HIDE DEF r
  <2> QED
    BY <1>3, <2>2, <2>3, <2>4, <2>7 DEF Dequeue, OneCopy, Settled
<1>a. ASSUME NEW w \in Workers, NEW p \in {"loop", "crashed"},
             Move(w, [Boot EXCEPT !.pc = p])
      PROVE  /\ \A j \in Jobs : Held(j)' <=> Held(j) /\ j # worker[w].job
             /\ \A u, v \in Workers :
                   worker'[u].job = worker'[v].job /\ worker'[u].job # NoJob => u = v
  <2> DEFINE r == [Boot EXCEPT !.pc = p]
  <2>1. r \in Worker /\ r.job = NoJob /\ NoJob \notin Jobs
    BY BootType, MoveType DEF Boot, PCs
  <2>2. worker' = [worker EXCEPT ![w] = r]
    BY <1>a DEF Move
  <2> HIDE DEF r
  <2>3. \A j \in Jobs : Held(j)' <=> (Held(j) /\ j # worker[w].job) \/ j = r.job
    BY <2>1, <2>2, Hands DEF OneCopy
  <2> QED
    BY <2>1, <2>2, <2>3, Hands DEF OneCopy
<1>b. ASSUME NEW w \in Workers, Free(w)
      PROVE  /\ \A j \in Jobs : Held(j)' <=> Held(j) /\ j # worker[w].job
             /\ \A u, v \in Workers :
                   worker'[u].job = worker'[v].job /\ worker'[u].job # NoJob => u = v
  <2>1. Boot = [Boot EXCEPT !.pc = "loop"]
    BY DEF Boot
  <2> QED
    BY <1>b, <1>a, <2>1 DEF Free
<1>c. ASSUME NEW w \in Workers, worker[w].pc \in Busy
      PROVE  /\ worker[w].job \in Jobs /\ Held(worker[w].job)
  BY <1>c DEF HandsInv, TypeOK, Worker, Held
<1>4. ASSUME NEW w \in Workers, Reenqueue(w) PROVE OneCopy'
  <2> DEFINE x == [job |-> worker[w].job, attempts |-> worker[w].attempts + 1]
  <2>1. worker[w].job \in Jobs /\ Held(worker[w].job) /\ worker[w].attempts < RetryLimit
    BY <1>4, <1>c DEF Reenqueue, Busy, HandsInv
  <2>2. x \in Item /\ x.job = worker[w].job
    BY <2>1 DEF Item, TypeOK, Worker
  <2>3. /\ \A j \in Jobs : Queued(j)' <=> Queued(j) \/ j = worker[w].job
        /\ \A i, k \in DOMAIN queue' : queue'[i].job = queue'[k].job => i = k
    <3>1. ~Queued(x.job) /\ queue' = Append(queue, x)
      BY <1>4, <2>1, <2>2 DEF Reenqueue, OneCopy
    <3> HIDE DEF x
    <3> QED
      BY <2>2, <3>1, AppendQueue DEF OneCopy
  <2> QED
    BY <1>4, <1>b, <2>1, <2>3 DEF Reenqueue, OneCopy, Settled
<1>5. ASSUME NEW w \in Workers, PutResult(w) PROVE OneCopy'
  <2>1. worker[w].job \in Jobs /\ Held(worker[w].job) /\ worker[w].outcome # "none"
    BY <1>5, <1>c DEF PutResult, Busy, HandsInv
  <2>2. \A j \in Jobs : Settled(j)' <=> Settled(j) \/ j = worker[w].job
    BY <1>5, <2>1 DEF PutResult, Settled, TypeOK
  <2>3. \A j \in Jobs : Queued(j)' <=> Queued(j)
    BY <1>5 DEF PutResult, Queued
  <2> QED
    BY <1>5, <1>b, <2>1, <2>2, <2>3 DEF PutResult, OneCopy
<1>6. ASSUME NEW w \in Workers, Crash(w) PROVE OneCopy'
  <2>1. \A j \in Jobs : Held(j)' <=> Held(j) /\ j # worker[w].job
    BY <1>6, <1>a DEF Crash
  <2>2. \A j \in Jobs : j \in lost' <=> j \in lost \/ j = worker[w].job
    BY <1>6 DEF Crash
  <2>3. \A j \in Jobs : j = worker[w].job => Held(j)
    BY DEF Held
  <2>4. \A j \in Jobs : (Queued(j)' <=> Queued(j)) /\ (Settled(j)' <=> Settled(j))
    BY <1>6 DEF Crash, Queued, Settled
  <2>5. \A u, v \in Workers :
            worker'[u].job = worker'[v].job /\ worker'[u].job # NoJob => u = v
    BY <1>6, <1>a DEF Crash
  <2> QED
    BY <1>6, <2>1, <2>2, <2>3, <2>4, <2>5 DEF Crash, OneCopy
<1> QED
  BY <1>1, <1>2, <1>3, <1>4, <1>5, <1>6, Places

(* A worker that takes no part in a step keeps its invariant when the step  *)
(* leaves its job's runs alone and takes back no effect.                    *)
LEMMA OtherWorker ==
  ASSUME Inv, TypeOK', NEW v \in Workers, worker'[v] = worker[v],
         worker[v].job # NoJob =>
             /\ runs'[worker[v].job] = runs[worker[v].job]
             /\ acted'[worker[v].job] >= acted[worker[v].job]
  PROVE  WorkerInv(v)'
  BY DEF Inv, TypeOK, Worker, WorkerInv, Busy

LEMMA Bystander ==
  ASSUME Inv, NEW w \in Workers, NEW v \in Workers \ {w}, NEW r,
         worker' = [worker EXCEPT ![w] = r], runs' = runs, client' = client, acted' = acted
  PROVE  WorkerInv(v)'
<1>1. worker'[v] = worker[v] /\ WorkerInv(v)
  BY DEF Inv, TypeOK
<1> QED
  BY <1>1 DEF WorkerInv

LEMMA StepWorkers == Inv /\ TypeOK' /\ [Next]_vars => \A v \in Workers : WorkerInv(v)'
<1> SUFFICES ASSUME Inv, TypeOK', [Next]_vars, NEW v \in Workers PROVE WorkerInv(v)'
  OBVIOUS
<1> USE BrowserRunnerAssumption
<1>0. /\ TypeOK /\ OneCopy /\ worker[v] \in Worker /\ WorkerInv(v)
      /\ \A w \in Workers : worker[w] \in Worker /\ WorkerInv(w)
  BY DEF Inv, TypeOK
<1>1. ASSUME NEW j \in Jobs, Submit(j) PROVE WorkerInv(v)'
  <2>1. worker[v].job # j
    BY <1>0, <1>1 DEF Submit, OneCopy, Held
  <2> QED
    <3>1. /\ worker' = worker /\ runs' = runs /\ acted' = acted
          /\ worker[v].job # NoJob => client'[worker[v].job] = client[worker[v].job]
      BY <1>0, <1>1, <2>1 DEF Submit, TypeOK, Worker
    <3> QED
      BY <1>0, <3>1 DEF WorkerInv, Busy
<1>2. ASSUME NEW j \in Jobs, PollHit(j) \/ PollTimeout(j) PROVE WorkerInv(v)'
  <2>1. worker' = worker /\ runs' = runs /\ acted' = acted
    BY <1>2 DEF PollHit, PollTimeout, Return
  <2> QED
    BY <1>0, <2>1 DEF WorkerInv, Busy
<1>3. ASSUME NEW w \in Workers, LoopTop(w) \/ DequeueEmpty(w) PROVE WorkerInv(v)'
  <2>1. CASE v # w
    BY <1>3, <2>1, Bystander DEF LoopTop, DequeueEmpty, Move
  <2>2. CASE v = w
    BY <1>0, <1>3, <2>2 DEF LoopTop, DequeueEmpty, Move, TypeOK, Worker, WorkerInv, Busy
  <2> QED
    BY <2>1, <2>2
<1>4. ASSUME NEW w \in Workers, Dequeue(w) PROVE WorkerInv(v)'
  <2>1. CASE v # w
    BY <1>4, <2>1, Bystander DEF Dequeue, Move
  <2>2. CASE v = w
    <3>1. /\ Head(queue) = queue[1] /\ 1 \in DOMAIN queue /\ Head(queue) \in Item
      BY <1>0, <1>4 DEF Dequeue, TypeOK
    <3>2. runs[Head(queue).job] <= Head(queue).attempts
      BY <3>1 DEF Inv, QueueInv
    <3>3. /\ worker'[v].pc = "picked" /\ worker'[v].job = Head(queue).job
          /\ worker'[v].attempts = Head(queue).attempts /\ runs' = runs
      BY <1>0, <1>4, <2>2 DEF Dequeue, Move, TypeOK, Worker
    <3>4. worker'[v].job # NoJob
      BY <3>1, <3>3 DEF Item
    <3> QED
      BY <3>2, <3>3, <3>4 DEF WorkerInv, Busy
  <2> QED
    BY <2>1, <2>2
<1>5. ASSUME NEW w \in Workers, Pick(w) PROVE WorkerInv(v)'
  <2>1. CASE v # w
    BY <1>5, <2>1, Bystander DEF Pick, Settling, Move
  <2>2. CASE v = w
    <3>0. worker[w].job \in Jobs /\ runs[worker[w].job] <= worker[w].attempts
      BY <1>0, <1>5 DEF Pick, WorkerInv, Busy, Worker
    <3>1. CASE \E o \in {"deadline_exceeded", "failed"} : Settling(w, o)
      BY <1>0, <1>5, <2>2, <3>0, <3>1 DEF Pick, Settling, Move, TypeOK, Worker, WorkerInv, Busy
    <3>2. CASE Move(w, [worker[w] EXCEPT !.pc = "acquiring"])
      BY <1>0, <1>5, <2>2, <3>0, <3>2 DEF Pick, Move, TypeOK, Worker, WorkerInv, Busy
    <3> QED
      BY <1>5, <3>1, <3>2 DEF Pick
  <2> QED
    BY <2>1, <2>2
<1>6. ASSUME NEW w \in Workers, AcquirePage(w) PROVE WorkerInv(v)'
  <2>0. worker[w].job \in Jobs
    BY <1>0, <1>6 DEF AcquirePage, WorkerInv, Busy, Worker
  <2>1. CASE v # w
    <3>1. worker[v].job # worker[w].job
      BY <1>0, <2>0, <2>1 DEF OneCopy
    <3> QED
      <4>1. /\ worker'[v] = worker[v] /\ client' = client /\ acted' = acted
            /\ worker[v].job \in Jobs => runs'[worker[v].job] = runs[worker[v].job]
            /\ worker[v].job \in Jobs => acted[worker[v].job] \in Nat
        BY <1>0, <1>6, <2>0, <2>1, <3>1 DEF AcquirePage, Move, TypeOK
      <4> QED
        BY <1>0, <4>1, OtherWorker DEF Worker
  <2>2. CASE v = w
    BY <1>0, <1>6, <2>0, <2>2 DEF AcquirePage, Move, TypeOK, Worker, WorkerInv, Busy
  <2> QED
    BY <2>1, <2>2
<1>7. ASSUME NEW w \in Workers, NEW b \in BOOLEAN, HandleFailure(w, b),
             worker[w].pc \in {"acquiring", "running"}, runs' = runs, client' = client,
             \A j \in Jobs : acted'[j] >= acted[j]
      PROVE  WorkerInv(v)'
  <2>0. worker[w].job \in Jobs /\ runs[worker[w].job] <= worker[w].attempts + 1
    BY <1>0, <1>7 DEF WorkerInv, Busy, Worker, TypeOK
  <2>3. \/ Settling(w, "failed")
        \/ worker[w].attempts < RetryLimit /\ Move(w, [worker[w] EXCEPT !.pc = "backoff"])
    BY <1>7, Zenon DEF HandleFailure
  <2>1. CASE v # w
    BY <1>0, <1>7, <2>1, <2>3, OtherWorker DEF Settling, Move, TypeOK, Worker
  <2>2. CASE v = w
    <3>1. CASE Settling(w, "failed")
      BY <1>0, <1>7, <2>0, <2>2, <3>1 DEF Settling, Move, TypeOK, Worker, WorkerInv, Busy
    <3>2. CASE /\ worker[w].attempts < RetryLimit
               /\ Move(w, [worker[w] EXCEPT !.pc = "backoff"])
      BY <1>0, <1>7, <2>0, <2>2, <3>2 DEF Move, TypeOK, Worker, WorkerInv, Busy
    <3> QED
      BY <2>3, <3>1, <3>2
  <2> QED
    BY <2>1, <2>2
<1>8. ASSUME NEW w \in Workers, NEW b \in BOOLEAN, AcquireFails(w, b) PROVE WorkerInv(v)'
  BY <1>0, <1>7, <1>8 DEF AcquireFails, TypeOK
<1>9. ASSUME NEW w \in Workers, NEW b \in BOOLEAN, NEW e \in BOOLEAN, HandlerFails(w, b, e)
      PROVE  WorkerInv(v)'
  <2>1. \A j \in Jobs : acted'[j] >= acted[j]
    BY <1>0, <1>9 DEF HandlerFails, TypeOK
  <2> QED
    BY <1>7, <1>9, <2>1 DEF HandlerFails
<1>10. ASSUME NEW w \in Workers, HandlerSucceeds(w) PROVE WorkerInv(v)'
  <2>a. worker[w].job \in Jobs /\ runs[worker[w].job] <= worker[w].attempts + 1
    BY <1>0, <1>10 DEF HandlerSucceeds, WorkerInv, Busy, Worker
  <2>0. /\ worker[w].job \in Jobs
        /\ \A j \in Jobs : acted'[j] >= acted[j] /\ acted'[worker[w].job] > 0
    BY <1>0, <1>10, <2>a DEF HandlerSucceeds, TypeOK
  <2>1. CASE v # w
    <3>1. worker'[v] = worker[v] /\ runs' = runs /\ client' = client
      BY <1>0, <1>10, <2>1 DEF HandlerSucceeds, Settling, Move, TypeOK
    <3> QED
      BY <1>0, <2>0, <3>1, OtherWorker DEF Worker
  <2>2. CASE v = w
    BY <1>0, <1>10, <2>a, <2>0, <2>2
       DEF HandlerSucceeds, Settling, Move, TypeOK, Worker, WorkerInv, Busy
  <2> QED
    BY <2>1, <2>2
<1>11. ASSUME NEW w \in Workers, Reenqueue(w) \/ PutResult(w) \/ Crash(w) \/ Restart(w)
       PROVE  WorkerInv(v)'
  <2>1. CASE v # w
    BY <1>11, <2>1, Bystander DEF Reenqueue, PutResult, Crash, Restart, Free, Move
  <2>2. CASE v = w
    <3>1. worker'[v].pc \in {"loop", "crashed"} /\ worker'[v].job = NoJob
      BY <1>0, <1>11, <2>2 DEF Reenqueue, PutResult, Crash, Restart, Free, Move, Boot, TypeOK
    <3> QED
      BY <3>1 DEF WorkerInv, Busy
  <2> QED
    BY <2>1, <2>2
<1>12. CASE Tick \/ UNCHANGED vars \/ \E w \in Workers : RequestStop(w)
  BY <1>0, <1>12 DEF Tick, vars, RequestStop, WorkerInv
<1> QED
  BY <1>1, <1>2, <1>3, <1>4, <1>5, <1>6, <1>8, <1>9, <1>10, <1>11, <1>12
     DEF Next, WorkerStep, ClientStep

(* runs grows only in AcquirePage, acted only at the end of a handler.      *)
LEMMA StepCounts ==
  ASSUME TypeOK, HandsInv, [Next]_vars
  PROVE  /\ (\E w \in Workers : AcquirePage(w)) \/ runs' = runs
         /\ \A j \in Jobs : acted'[j] >= acted[j]
<1>1. ASSUME NEW w \in Workers, NEW b \in BOOLEAN, NEW e \in BOOLEAN, HandlerFails(w, b, e)
      PROVE  runs' = runs /\ \A j \in Jobs : acted'[j] >= acted[j]
  BY <1>1 DEF HandlerFails, TypeOK
<1>2. ASSUME NEW w \in Workers, HandlerSucceeds(w)
      PROVE  runs' = runs /\ \A j \in Jobs : acted'[j] >= acted[j]
  BY <1>2 DEF HandlerSucceeds, TypeOK
<1>3. ASSUME acted' = acted PROVE \A j \in Jobs : acted'[j] >= acted[j]
  BY <1>3 DEF TypeOK
<1>4. ASSUME NEW w \in Workers, NEW b \in BOOLEAN, AcquireFails(w, b)
      PROVE  runs' = runs /\ acted' = acted
  BY <1>4 DEF AcquireFails
<1>5. ASSUME NEW w \in Workers, AcquirePage(w) PROVE acted' = acted
  BY <1>5 DEF AcquirePage
<1>6. ASSUME NEW w \in Workers,
             LoopTop(w) \/ Dequeue(w) \/ DequeueEmpty(w) \/ Pick(w) \/ Reenqueue(w)
             \/ PutResult(w) \/ Restart(w) \/ RequestStop(w) \/ Crash(w)
      PROVE  runs' = runs /\ acted' = acted
  BY <1>6 DEF LoopTop, Dequeue, DequeueEmpty, Pick, Reenqueue, PutResult, Restart,
              RequestStop, Crash
<1>7. ASSUME NEW j \in Jobs, Submit(j) \/ PollHit(j) \/ PollTimeout(j)
      PROVE  runs' = runs /\ acted' = acted
  BY <1>7 DEF Submit, PollHit, PollTimeout, Return
<1>8. CASE Tick \/ UNCHANGED vars
  BY <1>8, <1>3 DEF Tick, vars
<1> QED
  BY <1>1, <1>2, <1>3, <1>4, <1>5, <1>6, <1>7, <1>8 DEF Next, WorkerStep, ClientStep

LEMMA StepQueue == Inv /\ TypeOK' /\ [Next]_vars => QueueInv'
<1> SUFFICES ASSUME Inv, TypeOK', [Next]_vars PROVE QueueInv'
  OBVIOUS
<1> USE BrowserRunnerAssumption
<1>0. TypeOK /\ HandsInv /\ OneCopy /\ QueueInv
  BY InvImplies DEF Inv
<1>1. ASSUME NEW w \in Workers, AcquirePage(w) PROVE QueueInv'
  <2>1. worker[w].job \in Jobs
    BY <1>0, <1>1 DEF AcquirePage, HandsInv, Busy, TypeOK, Worker
  <2>2. \A i \in DOMAIN queue : queue[i].job # worker[w].job
    BY <1>0, <2>1 DEF OneCopy, Held, Queued
  <2>3. \A i \in DOMAIN queue : queue[i].job \in Jobs
    <3>1. \A i \in DOMAIN queue : queue[i] \in Item
      BY <1>0 DEF TypeOK
    <3> QED
      BY <3>1 DEF Item
  <2> QED
    BY <1>0, <1>1, <2>1, <2>2, <2>3 DEF AcquirePage, QueueInv, TypeOK
<1>2. CASE PlacesKept /\ runs' = runs
  BY <1>0, <1>2 DEF PlacesKept, QueueInv
<1>a. ASSUME NEW x \in Item, queue' = Append(queue, x), runs' = runs, runs[x.job] <= x.attempts
      PROVE  QueueInv'
  <2>1. /\ DOMAIN queue = 1..Len(queue) /\ Len(queue) \in Nat
        /\ DOMAIN queue' = 1..(Len(queue) + 1)
        /\ \A i \in 1..Len(queue) : queue'[i] = queue[i]
        /\ queue'[Len(queue) + 1] = x
    BY <1>0, <1>a DEF TypeOK
  <2> QED
    BY <1>0, <1>a, <2>1 DEF QueueInv
<1>3. ASSUME NEW j \in Jobs, Submit(j) PROVE QueueInv'
  <2> DEFINE x == [job |-> j, attempts |-> 0]
  <2>1. x \in Item /\ runs[x.job] <= x.attempts
    BY <1>3 DEF Submit, Item, Inv, JobInv
  <2>2. queue' = Append(queue, x) /\ runs' = runs
    BY <1>3 DEF Submit
  <2> QED
    BY <1>a, <2>1, <2>2
<1>4. ASSUME NEW w \in Workers, Dequeue(w) PROVE QueueInv'
  <2>1. /\ DOMAIN queue = 1..Len(queue) /\ Len(queue) \in Nat \ {0}
        /\ DOMAIN queue' = 1..(Len(queue) - 1)
        /\ \A i \in 1..(Len(queue) - 1) : queue'[i] = queue[i + 1]
    BY <1>0, <1>4 DEF Dequeue, TypeOK
  <2>2. runs' = runs
    BY <1>4 DEF Dequeue
  <2> QED
    BY <1>0, <2>1, <2>2 DEF QueueInv
<1>5. ASSUME NEW w \in Workers, Reenqueue(w) PROVE QueueInv'
  <2> DEFINE x == [job |-> worker[w].job, attempts |-> worker[w].attempts + 1]
  <2>1. worker[w].job \in Jobs /\ worker[w].attempts < RetryLimit /\ worker[w] \in Worker
        /\ runs[worker[w].job] <= worker[w].attempts + 1
    BY <1>0, <1>5 DEF Reenqueue, HandsInv, Inv, WorkerInv, Busy, TypeOK, Worker
  <2>2. x \in Item /\ runs[x.job] <= x.attempts
    BY <2>1 DEF Item, Worker
  <2>3. queue' = Append(queue, x) /\ runs' = runs
    BY <1>5 DEF Reenqueue
  <2> QED
    BY <1>a, <2>2, <2>3
<1>6. ASSUME NEW w \in Workers, PutResult(w) \/ Crash(w) PROVE QueueInv'
  BY <1>0, <1>6 DEF PutResult, Crash, QueueInv
<1> QED
  BY <1>0, <1>1, <1>2, <1>3, <1>4, <1>5, <1>6, Places, StepCounts

LEMMA StepJobs == Inv /\ TypeOK' /\ [Next]_vars => \A j \in Jobs : JobInv(j)'
<1> SUFFICES ASSUME Inv, TypeOK', [Next]_vars, NEW j \in Jobs PROVE JobInv(j)'
  OBVIOUS
<1> USE BrowserRunnerAssumption
<1>0. /\ TypeOK /\ HandsInv /\ OneCopy /\ JobInv(j)
      /\ acted'[j] >= acted[j] /\ acted[j] \in Nat /\ acted'[j] \in Nat
  BY InvImplies, StepCounts DEF Inv, TypeOK
<1>1. ASSUME runs' = runs, client' = client, result' = result PROVE JobInv(j)'
  BY <1>0, <1>1 DEF JobInv
<1>2. ASSUME NEW i \in Jobs, Submit(i) PROVE JobInv(j)'
  <2>1. /\ client'[j].pc = "idle" => client[j].pc = "idle"
        /\ client'[j].answer = client[j].answer
        /\ client[j].pc = "returned" => client'[j].pc = "returned"
    <3>1. client \in [Jobs -> Client] /\ client[i].pc = "idle"
      BY <1>0, <1>2 DEF Submit, TypeOK
    <3>2. client'[i].pc = "waiting" /\ client'[i].answer = client[i].answer
      BY <1>2, <3>1 DEF Submit, Client
    <3>3. i # j => client'[j] = client[j]
      BY <1>2, <3>1 DEF Submit
    <3> QED
      BY <3>1, <3>2, <3>3
  <2> QED
    BY <1>0, <1>2, <2>1 DEF Submit, JobInv
<1>3. ASSUME NEW i \in Jobs, PollHit(i) \/ PollTimeout(i) PROVE JobInv(j)'
  <2>1. PICK a : Return(i, a) /\ (a = result[i] \/ a = "client_timeout")
    BY <1>3 DEF PollHit, PollTimeout
  <2>2. client[i] \in Client /\ client' = [client EXCEPT ![i] =
                                 [client[i] EXCEPT !.pc = "returned", !.answer = a,
                                                   !.runs = runs[i], !.acted = acted[i]]]
    BY <1>0, <2>1 DEF Return, TypeOK
  <2>3. CASE i = j
    <3>1. client'[j].pc = "returned" /\ client'[j].answer = a
      BY <1>0, <2>2, <2>3 DEF TypeOK, Client
    <3> QED
      BY <1>0, <2>1, <2>3, <3>1 DEF Return, JobInv, Results
  <2>4. CASE i # j
    BY <1>0, <2>1, <2>4 DEF Return, JobInv, TypeOK
  <2> QED
    BY <2>3, <2>4
<1>4. ASSUME NEW w \in Workers, AcquirePage(w) PROVE JobInv(j)'
  <2>1. /\ worker[w].job \in Jobs /\ worker[w].attempts \in 0..RetryLimit
        /\ runs[worker[w].job] <= worker[w].attempts /\ Held(worker[w].job)
    BY <1>0, <1>4 DEF AcquirePage, Inv, WorkerInv, Busy, TypeOK, Worker, Held
  <2>2. client[worker[w].job].pc # "idle"
    BY <1>0, <2>1 DEF OneCopy
  <2>3. runs'[j] = IF j = worker[w].job THEN runs[j] + 1 ELSE runs[j]
    BY <1>0, <1>4, <2>1 DEF AcquirePage, TypeOK
  <2>4. runs[j] \in Nat
    BY <1>0 DEF TypeOK
  <2> QED
    BY <1>0, <1>4, <2>1, <2>2, <2>3, <2>4 DEF AcquirePage, JobInv
<1>5. ASSUME NEW w \in Workers, PutResult(w) PROVE JobInv(j)'
  <2>1. /\ worker[w].job \in Jobs /\ Held(worker[w].job)
        /\ worker[w].outcome = "succeeded" => acted[worker[w].job] > 0
    BY <1>0, <1>5 DEF PutResult, Inv, WorkerInv, Busy, TypeOK, Worker, Held
  <2>2. result[worker[w].job] = "none" /\ "none" \notin Results
    BY <1>0, <2>1 DEF OneCopy, Settled, Results
  <2>3. result'[j] = IF j = worker[w].job THEN worker[w].outcome ELSE result[j]
    BY <1>0, <1>5, <2>1 DEF PutResult, TypeOK
  <2> QED
    BY <1>0, <1>5, <2>1, <2>2, <2>3 DEF PutResult, JobInv
<1>6. ASSUME NEW w \in Workers, NEW b \in BOOLEAN, NEW e \in BOOLEAN,
             AcquireFails(w, b) \/ HandlerFails(w, b, e)
      PROVE  JobInv(j)'
  <2>1. result' = result
    BY <1>6 DEF AcquireFails, HandlerFails, HandleFailure
  <2> QED
    BY <1>1, <1>6, <2>1 DEF AcquireFails, HandlerFails
<1>7. ASSUME NEW w \in Workers,
             LoopTop(w) \/ Dequeue(w) \/ DequeueEmpty(w) \/ Pick(w) \/ Reenqueue(w)
             \/ HandlerSucceeds(w) \/ Restart(w) \/ RequestStop(w) \/ Crash(w)
      PROVE  JobInv(j)'
  BY <1>1, <1>7 DEF LoopTop, Dequeue, DequeueEmpty, Pick, Reenqueue, HandlerSucceeds,
                    Restart, RequestStop, Crash
<1>8. CASE Tick \/ UNCHANGED vars
  BY <1>1, <1>8 DEF Tick, vars
<1> QED
  BY <1>2, <1>3, <1>4, <1>5, <1>6, <1>7, <1>8 DEF Next, WorkerStep, ClientStep

(* Which steps take a worker to a page, or further on it.                   *)
LEMMA StepPages ==
  ASSUME TypeOK, HandsInv, [Next]_vars, NEW v \in Workers,
         worker'[v].pc \in {"acquiring", "running"}
  PROVE  \/ worker'[v] = worker[v]
         \/ worker'[v].job = worker[v].job /\ Pick(v) /\ ~Expired(worker[v].job)
            /\ worker'[v].pc = "acquiring"
         \/ worker'[v].job = worker[v].job /\ AcquirePage(v) /\ worker'[v].pc = "running"
<1>0. worker \in [Workers -> Worker] /\ worker[v] \in Worker
  BY DEF TypeOK
<1>1. ASSUME NEW w \in Workers, NEW r, worker' = [worker EXCEPT ![w] = r],
             r.pc \notin {"acquiring", "running"}
      PROVE  worker'[v] = worker[v]
  BY <1>0, <1>1
<1>2. ASSUME NEW w \in Workers, NEW p, p \notin {"acquiring", "running"},
             Move(w, [worker[w] EXCEPT !.pc = p])
      PROVE  worker'[v] = worker[v]
  BY <1>0, <1>1, <1>2 DEF Move, Worker
<1>3. ASSUME NEW w \in Workers, NEW o, Settling(w, o) PROVE worker'[v] = worker[v]
  BY <1>0, <1>1, <1>3 DEF Settling, Move, Worker
<1>4. ASSUME NEW w \in Workers, LoopTop(w) \/ DequeueEmpty(w) PROVE worker'[v] = worker[v]
  BY <1>0, <1>1, <1>4 DEF LoopTop, DequeueEmpty, Move, Worker
<1>5. ASSUME NEW w \in Workers, Dequeue(w) PROVE worker'[v] = worker[v]
  BY <1>0, <1>1, <1>5 DEF Dequeue, Move, Worker
<1>6. ASSUME NEW w \in Workers, NEW b \in BOOLEAN, NEW e \in BOOLEAN,
             AcquireFails(w, b) \/ HandlerFails(w, b, e)
      PROVE  worker'[v] = worker[v]
  <2>1. Settling(w, "failed") \/ Move(w, [worker[w] EXCEPT !.pc = "backoff"])
    BY <1>6, Zenon DEF AcquireFails, HandlerFails, HandleFailure
  <2> QED
    BY <1>2, <1>3, <2>1
<1>7. ASSUME NEW w \in Workers, HandlerSucceeds(w) PROVE worker'[v] = worker[v]
  BY <1>3, <1>7 DEF HandlerSucceeds
<1>8. ASSUME NEW w \in Workers, Reenqueue(w) \/ PutResult(w) \/ Crash(w) \/ Restart(w)
      PROVE  worker'[v] = worker[v]
  BY <1>0, <1>1, <1>8 DEF Reenqueue, PutResult, Crash, Restart, Free, Move, Boot
<1>9. ASSUME NEW w \in Workers, Pick(w)
      PROVE  \/ worker'[v] = worker[v]
             \/ /\ worker'[v].job = worker[v].job /\ w = v /\ ~Expired(worker[v].job)
                /\ worker'[v].pc = "acquiring"
  <2>1. CASE \E o : Settling(w, o)
    BY <1>3, <2>1
  <2>2. CASE ~Expired(worker[w].job) /\ Move(w, [worker[w] EXCEPT !.pc = "acquiring"])
    BY <1>0, <2>2 DEF Move, Worker
  <2> QED
    BY <1>9, <2>1, <2>2 DEF Pick
<1>10. ASSUME NEW w \in Workers, AcquirePage(w)
       PROVE  \/ worker'[v] = worker[v]
              \/ worker'[v].job = worker[v].job /\ w = v /\ worker'[v].pc = "running"
  BY <1>0, <1>10 DEF AcquirePage, Move, Worker
<1>11. CASE \/ Tick \/ UNCHANGED vars
            \/ \E j \in Jobs : Submit(j) \/ PollHit(j) \/ PollTimeout(j)
            \/ \E w \in Workers : RequestStop(w)
  BY <1>11 DEF Tick, vars, Submit, PollHit, PollTimeout, Return, RequestStop
<1> QED
  BY <1>4, <1>5, <1>6, <1>7, <1>8, <1>9, <1>10, <1>11 DEF Next, WorkerStep, ClientStep

(* What a step does to a job whose driver has its answer already.           *)
LEMMA StepAnswered ==
  ASSUME Inv, [Next]_vars, NEW j \in Jobs, client[j].pc = "returned"
  PROVE  /\ client'[j] = client[j] /\ clock <= clock'
         /\ result[j] # "none" => result'[j] # "none"
         /\ \/ runs'[j] = runs[j]
            \/ \E w \in Workers : AcquirePage(w) /\ worker[w].job = j /\ runs'[j] = runs[j] + 1
         /\ \/ acted'[j] = acted[j]
            \/ \E w \in Workers :
                  /\ worker[w].pc = "running" /\ worker[w].job = j
                  /\ worker'[w].pc \notin {"acquiring", "running"} /\ acted'[j] = acted[j] + 1
<1>0. /\ TypeOK /\ HandsInv /\ OneCopy /\ clock \in Nat
      /\ worker \in [Workers -> Worker]
  BY InvImplies, BrowserRunnerAssumption DEF Inv, TypeOK
<1>1. client'[j] = client[j] /\ clock <= clock'
  <2>1. ASSUME NEW i \in Jobs, Submit(i) \/ PollHit(i) \/ PollTimeout(i)
        PROVE  client'[j] = client[j] /\ clock' = clock
    <3>1. i # j
      BY <2>1 DEF Submit, PollHit, PollTimeout
    <3> QED
      BY <1>0, <2>1, <3>1 DEF Submit, PollHit, PollTimeout, Return, TypeOK
  <2>2. CASE Tick
    BY <1>0, <2>2 DEF Tick
  <2>3. CASE UNCHANGED vars
    BY <1>0, <2>3 DEF vars
  <2>4. ASSUME NEW w \in Workers, WorkerStep(w) \/ RequestStop(w) \/ Crash(w)
        PROVE  client' = client /\ clock' = clock
    BY <2>4 DEF WorkerStep, LoopTop, Dequeue, DequeueEmpty, Pick, AcquirePage, AcquireFails,
                HandlerFails, HandlerSucceeds, Reenqueue, PutResult, Restart, RequestStop, Crash
  <2> QED
    BY <1>0, <2>1, <2>2, <2>3, <2>4 DEF Next, ClientStep
<1>2. result[j] # "none" => result'[j] # "none"
  <2>1. CASE result' = result
    BY <2>1
  <2>2. ASSUME NEW w \in Workers, PutResult(w) PROVE result[j] # "none" => result'[j] # "none"
    <3>1. worker[w].job \in Jobs /\ Held(worker[w].job)
      BY <1>0, <2>2 DEF PutResult, HandsInv, Busy, Held, Worker
    <3>2. result[worker[w].job] = "none"
      BY <1>0, <3>1 DEF OneCopy, Settled
    <3> QED
      BY <1>0, <2>2, <3>1, <3>2 DEF PutResult, TypeOK
  <2>3. PlacesKept \/ (\E i \in Jobs : Submit(i))
        \/ \E w \in Workers : Dequeue(w) \/ Reenqueue(w) \/ PutResult(w) \/ Crash(w)
    BY <1>0, Places
  <2> QED
    BY <2>1, <2>2, <2>3 DEF PlacesKept, Submit, Dequeue, Reenqueue, Crash
<1>3. \/ runs'[j] = runs[j]
      \/ \E w \in Workers : AcquirePage(w) /\ worker[w].job = j /\ runs'[j] = runs[j] + 1
  <2>1. ASSUME NEW w \in Workers, AcquirePage(w)
        PROVE  runs'[j] = runs[j] \/ (worker[w].job = j /\ runs'[j] = runs[j] + 1)
    BY <1>0, <2>1 DEF AcquirePage, TypeOK
  <2> QED
    BY <1>0, <2>1, StepCounts
<1>4. \/ acted'[j] = acted[j]
      \/ \E w \in Workers :
            /\ worker[w].pc = "running" /\ worker[w].job = j
            /\ worker'[w].pc \notin {"acquiring", "running"} /\ acted'[j] = acted[j] + 1
  <2>1. ASSUME NEW w \in Workers, NEW b \in BOOLEAN, NEW e \in BOOLEAN,
               HandlerSucceeds(w) \/ HandlerFails(w, b, e)
        PROVE  \/ acted'[j] = acted[j]
               \/ /\ worker[w].pc = "running" /\ worker[w].job = j
                  /\ worker'[w].pc \notin {"acquiring", "running"} /\ acted'[j] = acted[j] + 1
    <3>1. \/ \E o : Settling(w, o)
          \/ Move(w, [worker[w] EXCEPT !.pc = "backoff"])
      BY <2>1, Zenon DEF HandlerSucceeds, HandlerFails, HandleFailure
    <3>2. ASSUME NEW o, Settling(w, o) PROVE worker'[w].pc = "settling"
      <4>1. worker'[w] = [worker[w] EXCEPT !.pc = "settling", !.outcome = o]
        BY <1>0, <3>2 DEF Settling, Move
      <4> QED
        BY <1>0, <4>1 DEF Worker
    <3>3. ASSUME Move(w, [worker[w] EXCEPT !.pc = "backoff"]) PROVE worker'[w].pc = "backoff"
      BY <1>0, <3>3 DEF Move, Worker
    <3>4. worker'[w].pc \in {"settling", "backoff"}
      BY <3>1, <3>2, <3>3
    <3> QED
      BY <1>0, <2>1, <3>4 DEF HandlerSucceeds, HandlerFails, TypeOK
  <2>2. ASSUME NEW w \in Workers, NEW b \in BOOLEAN,
               LoopTop(w) \/ Dequeue(w) \/ DequeueEmpty(w) \/ Pick(w) \/ AcquirePage(w)
               \/ AcquireFails(w, b) \/ Reenqueue(w) \/ PutResult(w) \/ Restart(w)
               \/ RequestStop(w) \/ Crash(w)
        PROVE  acted' = acted
    BY <2>2 DEF LoopTop, Dequeue, DequeueEmpty, Pick, AcquirePage, AcquireFails, Reenqueue,
                PutResult, Restart, RequestStop, Crash
  <2>3. ASSUME NEW i \in Jobs, Submit(i) \/ PollHit(i) \/ PollTimeout(i) PROVE acted' = acted
    BY <2>3 DEF Submit, PollHit, PollTimeout, Return
  <2>4. CASE Tick \/ UNCHANGED vars
    BY <2>4 DEF Tick, vars
  <2> QED
    BY <2>1, <2>2, <2>3, <2>4 DEF Next, WorkerStep, ClientStep
<1> QED
  BY <1>1, <1>2, <1>3, <1>4

(* A driver's answer, and what still happens to its job afterwards.         *)
LEMMA StepLate == Inv /\ [Next]_vars => \A j \in Jobs : LateInv(j)'
<1> SUFFICES ASSUME Inv, [Next]_vars, NEW j \in Jobs, client'[j].pc = "returned"
             PROVE  LateInv(j)'
  BY DEF LateInv
<1>0. /\ TypeOK /\ HandsInv /\ OneCopy /\ LateInv(j) /\ client[j] \in Client
      /\ runs[j] \in Nat /\ acted[j] \in Nat /\ clock \in Nat
  BY InvImplies, BrowserRunnerAssumption DEF Inv, TypeOK
<1>1. CASE client[j].pc # "returned"
  <2>1. PollHit(j) \/ PollTimeout(j)
    <3>1. ASSUME NEW i \in Jobs, Submit(i) PROVE client'[j].pc \in {client[j].pc, "waiting"}
      BY <1>0, <3>1 DEF Submit, TypeOK, Client
    <3>2. ASSUME NEW i \in Jobs \ {j}, PollHit(i) \/ PollTimeout(i) PROVE client'[j] = client[j]
      BY <1>0, <3>2 DEF PollHit, PollTimeout, Return, TypeOK
    <3>3. ASSUME NEW w \in Workers, WorkerStep(w) \/ RequestStop(w) \/ Crash(w)
          PROVE  client' = client
      BY <3>3 DEF WorkerStep, LoopTop, Dequeue, DequeueEmpty, Pick, AcquirePage, AcquireFails,
                  HandlerFails, HandlerSucceeds, Reenqueue, PutResult, Restart, RequestStop, Crash
    <3>4. CASE Tick \/ UNCHANGED vars
      BY <1>1, <3>4 DEF Tick, vars
    <3> QED
      BY <1>1, <3>1, <3>2, <3>3, <3>4 DEF Next, ClientStep
  <2>2. PICK a : /\ Return(j, a)
                 /\ \/ result[j] # "none" /\ a = result[j]
                    \/ a = "client_timeout" /\ client[j].deadline <= clock
    BY <1>0, <2>1 DEF PollHit, PollTimeout, Client
  <2>3. /\ client'[j].answer = a /\ client'[j].deadline = client[j].deadline
        /\ client'[j].runs = runs[j] /\ client'[j].acted = acted[j]
        /\ runs' = runs /\ acted' = acted /\ result' = result /\ clock' = clock
        /\ worker' = worker
    BY <1>0, <2>2 DEF Return, TypeOK, Client
  <2>4. /\ runs[j] <= runs[j] + 1 /\ acted[j] <= acted[j] + 1
        /\ a # "client_timeout" => result[j] # "none"
        /\ a = "client_timeout" => client[j].deadline <= clock
    <3>1. result[j] # "client_timeout"
      BY <1>0 DEF TypeOK, Results
    <3> QED
      BY <1>0, <2>2, <3>1
  <2> QED
    BY <2>3, <2>4 DEF LateInv
<1>2. CASE client[j].pc = "returned"
  <2>1. /\ client'[j] = client[j] /\ clock <= clock'
        /\ result[j] # "none" => result'[j] # "none"
        /\ \/ runs'[j] = runs[j]
           \/ \E w \in Workers : AcquirePage(w) /\ worker[w].job = j /\ runs'[j] = runs[j] + 1
        /\ \/ acted'[j] = acted[j]
           \/ \E w \in Workers :
                 /\ worker[w].pc = "running" /\ worker[w].job = j
                 /\ worker'[w].pc \notin {"acquiring", "running"} /\ acted'[j] = acted[j] + 1
    BY <1>2, StepAnswered
  <2> DEFINE c == client[j]
  <2>2. /\ runs[j] <= c.runs + 1 /\ acted[j] <= c.acted + 1
        /\ c.answer = "client_timeout" => c.deadline <= clock
        /\ c.answer # "client_timeout" =>
              result[j] # "none" /\ runs[j] = c.runs /\ acted[j] = c.acted
        /\ \A w \in Workers : worker[w].job = j =>
              /\ worker[w].pc = "acquiring" => runs[j] = c.runs /\ acted[j] = c.acted
              /\ worker[w].pc = "running" => acted[j] = c.acted
    BY <1>0, <1>2 DEF LateInv
  <2>3. \A w, v \in Workers : worker[w].job = j /\ worker[v].job = j => w = v
    BY <1>0, BrowserRunnerAssumption DEF OneCopy
  <2>4. ASSUME NEW w \in Workers, worker[w].job = j PROVE c.answer = "client_timeout"
    BY <1>0, <2>2, <2>4 DEF OneCopy, Held, Settled
  <2>5. \A w \in Workers : AcquirePage(w) =>
            worker[w].pc = "acquiring" /\ worker'[w].pc = "running" /\ acted' = acted
    BY <1>0 DEF AcquirePage, Move, TypeOK, Worker
  <2>6. TypeOK'
    BY <1>0, StepType
  <2>7. /\ c.runs \in Nat /\ c.acted \in Nat /\ c.deadline \in Nat /\ clock' \in Nat
        /\ runs'[j] \in Nat /\ acted'[j] \in Nat
    BY <1>0, <2>6, BrowserRunnerAssumption DEF Client, TypeOK
  <2>8. runs'[j] <= c.runs + 1 /\ acted'[j] <= c.acted + 1
    BY <1>0, <2>1, <2>2, <2>5, <2>7
  <2>9. c.answer = "client_timeout" => c.deadline <= clock'
    BY <1>0, <2>1, <2>2, <2>7
  <2>10. c.answer # "client_timeout" =>
            result'[j] # "none" /\ runs'[j] = c.runs /\ acted'[j] = c.acted
    BY <2>1, <2>2, <2>4
  <2>11. ASSUME NEW v \in Workers, worker'[v].job = j, worker'[v].pc \in {"acquiring", "running"}
         PROVE  /\ worker'[v].pc = "acquiring" => runs'[j] = c.runs /\ acted'[j] = c.acted
                /\ worker'[v].pc = "running" => acted'[j] = c.acted
    <3>1. \/ worker'[v] = worker[v]
          \/ worker'[v].job = worker[v].job /\ Pick(v) /\ ~Expired(worker[v].job)
             /\ worker'[v].pc = "acquiring"
          \/ worker'[v].job = worker[v].job /\ AcquirePage(v) /\ worker'[v].pc = "running"
      BY <1>0, <2>11, StepPages
    <3>2. worker[v].job = j /\ c.answer = "client_timeout" /\ c.deadline <= clock
      BY <2>2, <2>4, <2>11, <3>1
    <3>3. ~(Pick(v) /\ ~Expired(worker[v].job))
      BY <1>0, <2>7, <3>2 DEF Expired
    <3>4. acted'[j] = acted[j]
      BY <2>1, <2>3, <2>11, <3>2
    <3>5. worker'[v].pc = "acquiring" => runs'[j] = runs[j]
      BY <2>1, <2>3, <2>5, <2>11, <3>2
    <3>6. CASE worker'[v] = worker[v]
      BY <2>2, <3>2, <3>4, <3>5, <3>6
    <3>7. CASE AcquirePage(v) /\ worker'[v].pc = "running"
      BY <2>2, <2>5, <3>2, <3>4, <3>7
    <3> QED
      BY <3>1, <3>3, <3>6, <3>7
  <2> QED
    BY <2>1, <2>8, <2>9, <2>10, <2>11 DEF LateInv
<1> QED
  BY <1>1, <1>2

LEMMA InitInv == Init => Inv
<1> SUFFICES ASSUME Init PROVE Inv
  OBVIOUS
<1>1. TypeOK
  BY InitType
<1>2. OneCopy
  BY BrowserRunnerAssumption DEF Init, Boot, OneCopy, Queued, Held, Settled
<1>3. \A w \in Workers : WorkerInv(w)
  BY DEF Init, Boot, WorkerInv, Busy
<1>4. ASSUME NEW j \in Jobs PROVE JobInv(j)
  <2>1. runs[j] = 0 /\ result[j] = "none" /\ client[j].answer = "none" /\ client[j].pc = "idle"
    BY DEF Init
  <2>2. 0 <= RetryLimit + 1
    BY BrowserRunnerAssumption
  <2> QED
    BY <2>1, <2>2 DEF JobInv, Results
<1>5. \A j \in Jobs : LateInv(j)
  BY DEF Init, LateInv
<1> QED
  BY <1>1, <1>2, <1>3, <1>4, <1>5 DEF Init, Inv, QueueInv

(* The inductive invariant holds in every state.                            *)
THEOREM Invariance == Spec => []Inv
<1>1. Inv /\ [Next]_vars => Inv'
  <2> SUFFICES ASSUME Inv, [Next]_vars PROVE Inv'
    OBVIOUS
  <2>1. TypeOK /\ OneCopy /\ HandsInv
    BY InvImplies DEF Inv
  <2>2. TypeOK' /\ OneCopy'
    BY <2>1, StepType, StepOneCopy
  <2>3. /\ QueueInv' /\ (\A w \in Workers : WorkerInv(w)')
        /\ (\A j \in Jobs : JobInv(j)') /\ (\A j \in Jobs : LateInv(j)')
    BY <2>2, StepQueue, StepWorkers, StepJobs, StepLate
  <2> QED
    BY <2>2, <2>3 DEF Inv
<1> QED
  BY <1>1, InitInv, PTL DEF Spec

(* Every state of the runner is well typed.                                 *)
THEOREM TypeCorrect == Spec => []TypeOK
  BY Invariance, PTL DEF Inv

(* A job is in one place only, for any number of jobs, workers, retries and *)
(* outages.                                                                 *)
THEOREM JobsExistOnce == Spec => []OneCopy
  BY Invariance, PTL DEF Inv

(* No job is run more than retry_limit + 1 times.                           *)
THEOREM RunsAreBounded == Spec => []RunsBounded
  BY Invariance, InvImplies, PTL

(* After a driver's call has come back its job is started at most once more *)
(* and takes effect at most once more, and not at all after a result.       *)
THEOREM LateWorkIsBounded == Spec => []LateWorkBounded
  BY Invariance, InvImplies, PTL

(* A driver's answer is the stored result for good and success is real.     *)
THEOREM AnswersAreTrue == Spec => []AnswerTrue
  BY Invariance, InvImplies, PTL
-----------------------------------------------------------------------------
Told == [j \in Jobs |-> client[j].answer]

(* A job in a worker's hands is pending: neither settled nor lost (OneCopy).*)
LEMMA HeldPending ==
  ASSUME Inv, NEW w \in Workers, worker[w].pc \in Busy
  PROVE  /\ worker[w].job \in Jobs /\ Fate[worker[w].job] = "pending"
         /\ worker[w].job \notin lost /\ result[worker[w].job] = "none"
         /\ client[worker[w].job].pc # "idle"
<1>1. worker[w].job \in Jobs /\ Held(worker[w].job)
  BY DEF Inv, WorkerInv, TypeOK, Worker, Held
<1>2. /\ worker[w].job \notin lost /\ result[worker[w].job] = "none"
      /\ client[worker[w].job].pc # "idle"
  BY <1>1 DEF Inv, OneCopy, Settled
<1> QED
  BY <1>1, <1>2 DEF Fate

(* A step that leaves the mapped variables alone is a stutter of JobService.*)
LEMMA Stutter ==
  ASSUME result' = result, lost' = lost, runs' = runs, acted' = acted, client' = client
  PROVE  UNCHANGED Service!vars
  BY DEF Service!vars, Fate

LEMMA StepRefines == Inv /\ [Next]_vars => [Service!Next]_(Service!vars)
<1> SUFFICES ASSUME Inv, [Next]_vars PROVE [Service!Next]_(Service!vars)
  OBVIOUS
<1>0. TypeOK /\ OneCopy /\ HandsInv
  BY InvImplies DEF Inv
<1>1. ASSUME NEW j \in Jobs, Submit(j) PROVE Service!Next
  <2>1. /\ j \notin lost /\ result[j] = "none"
    BY <1>0, <1>1 DEF Submit, OneCopy, Settled
  <2>2. /\ client'[j].pc = "waiting" /\ client[j].pc = "idle"
        /\ \A i \in Jobs : client'[i].answer = client[i].answer
        /\ \A i \in Jobs \ {j} : client'[i] = client[i]
    BY <1>0, <1>1 DEF Submit, TypeOK, Client
  <2>3. /\ Fate[j] = "idle" /\ Fate' = [Fate EXCEPT ![j] = "pending"]
        /\ Told' = Told /\ runs' = runs /\ acted' = acted
    BY <1>1, <2>1, <2>2 DEF Submit, Fate, Told
  <2>4. Service!Submit(j)
    BY <2>3 DEF Service!Submit, Service!Meet, Told
  <2> QED
    BY <2>4 DEF Service!Next
<1>2. ASSUME NEW j \in Jobs, PollHit(j) \/ PollTimeout(j) PROVE Service!Next
  <2>1. PICK a : /\ Return(j, a)
                 /\ \/ result[j] # "none" /\ a = result[j]
                    \/ result[j] = "none" /\ a = "client_timeout"
    BY <1>2 DEF PollHit, PollTimeout
  <2>2. client[j].pc = "waiting" /\ client[j].answer = "none"
    BY <1>2 DEF PollHit, PollTimeout, Inv, JobInv
  <2>3. /\ client'[j].pc = "returned" /\ client'[j].answer = a
        /\ \A i \in Jobs \ {j} : client'[i] = client[i]
    BY <1>0, <2>1 DEF Return, TypeOK, Client
  <2>4. /\ Fate' = Fate /\ runs' = runs /\ acted' = acted
        /\ Told' = [Told EXCEPT ![j] = a] /\ Told[j] = "none"
    <3>1. \A i \in Jobs : client'[i].pc = "idle" <=> client[i].pc = "idle"
      BY <2>2, <2>3
    <3>2. lost' = lost /\ result' = result /\ runs' = runs /\ acted' = acted
      BY <2>1 DEF Return
    <3>3. Fate' = Fate
      BY <3>1, <3>2 DEF Fate
    <3>4. Told' = [Told EXCEPT ![j] = a] /\ Told[j] = "none"
      BY <2>2, <2>3 DEF Told
    <3> QED
      BY <3>2, <3>3, <3>4
  <2>5. CASE result[j] # "none"
    <3>1. j \notin lost /\ result[j] \in Results
      BY <1>0, <2>5 DEF OneCopy, Settled, TypeOK
    <3>2. Fate[j] = a /\ a \in Service!Outcomes
      BY <2>1, <2>5, <3>1 DEF Fate, Results, Service!Outcomes
    <3>3. Service!Tell(j, a)
      BY <2>4, <3>2 DEF Service!Tell, Told
    <3> QED
      BY <3>2, <3>3 DEF Service!Next
  <2>6. CASE result[j] = "none"
    <3>1. Fate[j] \in {"pending", "lost"} /\ a = "client_timeout"
      BY <2>1, <2>2, <2>6 DEF Fate
    <3>2. Service!Tell(j, a)
      BY <2>4, <3>1 DEF Service!Tell, Told
    <3> QED
      BY <3>1, <3>2 DEF Service!Next
  <2> QED
    BY <2>5, <2>6
<1>3. ASSUME NEW w \in Workers, AcquirePage(w) PROVE Service!Next
  <2> DEFINE j == worker[w].job
  <2>1. j \in Jobs /\ Fate[j] = "pending"
    BY <1>3, HeldPending DEF AcquirePage, Busy
  <2>2. runs[j] <= RetryLimit
    <3>1. worker[w] \in Worker /\ runs[j] <= worker[w].attempts /\ runs[j] \in Nat
      BY <1>0, <1>3, <2>1 DEF AcquirePage, Inv, WorkerInv, TypeOK
    <3> QED
      BY <3>1, BrowserRunnerAssumption DEF Worker
  <2>3. /\ Fate' = Fate /\ Told' = Told /\ acted' = acted
        /\ runs' = [runs EXCEPT ![j] = @ + 1]
    BY <1>3 DEF AcquirePage, Fate, Told
  <2>4. Service!Try(j)
    BY <2>1, <2>2, <2>3 DEF Service!Try, Told
  <2> QED
    BY <2>1, <2>4 DEF Service!Next
<1>4. ASSUME NEW w \in Workers, NEW b \in BOOLEAN, NEW e \in BOOLEAN,
             HandlerSucceeds(w) \/ HandlerFails(w, b, e)
      PROVE  [Service!Next]_(Service!vars)
  <2> DEFINE j == worker[w].job
  <2>1. j \in Jobs /\ Fate[j] = "pending"
    BY <1>4, HeldPending DEF HandlerSucceeds, HandlerFails, Busy
  <2>2. result' = result /\ lost' = lost /\ runs' = runs /\ client' = client
    BY <1>4 DEF HandlerSucceeds, HandlerFails, HandleFailure
  <2>3. acted' = [acted EXCEPT ![j] = @ + 1] \/ acted' = acted
    BY <1>0, <1>4, <2>1 DEF HandlerSucceeds, HandlerFails, TypeOK
  <2>4. Fate' = Fate /\ Told' = Told
    BY <2>2 DEF Fate, Told
  <2>5. CASE acted' = [acted EXCEPT ![j] = @ + 1]
    <3>1. Service!Act(j)
      BY <2>1, <2>2, <2>4, <2>5 DEF Service!Act, Told
    <3> QED
      BY <2>1, <3>1 DEF Service!Next
  <2>6. CASE acted' = acted
    BY <2>2, <2>6, Stutter
  <2> QED
    BY <2>3, <2>5, <2>6
<1>5. ASSUME NEW w \in Workers, PutResult(w) PROVE Service!Next
  <2> DEFINE j == worker[w].job
             o == worker[w].outcome
  <2>1. /\ j \in Jobs /\ Fate[j] = "pending" /\ j \notin lost
    BY <1>5, HeldPending DEF PutResult, Busy
  <2>2. /\ o \in Results /\ (o = "succeeded" => acted[j] > 0)
    BY <1>0, <1>5 DEF PutResult, Inv, WorkerInv, TypeOK, Worker
  <2>3. result' = [result EXCEPT ![j] = o] /\ lost' = lost /\ client' = client
        /\ runs' = runs /\ acted' = acted /\ o # "none"
    BY <1>5, <2>2 DEF PutResult, Results
  <2>4. Fate' = [Fate EXCEPT ![j] = o] /\ Told' = Told
    BY <1>0, <2>1, <2>3 DEF Fate, Told, TypeOK
  <2>5. Service!Settle(j, o) /\ o \in Service!Outcomes
    BY <2>1, <2>2, <2>3, <2>4 DEF Service!Settle, Service!Meet, Service!Outcomes, Results, Told
  <2> QED
    BY <2>1, <2>5 DEF Service!Next
<1>6. ASSUME NEW w \in Workers, Crash(w) PROVE [Service!Next]_(Service!vars)
  <2> DEFINE j == worker[w].job
  <2>0. /\ lost' = lost \cup ({j} \ {NoJob}) /\ client' = client /\ result' = result
        /\ runs' = runs /\ acted' = acted
    BY <1>6 DEF Crash
  <2>1. CASE worker[w].pc \in Busy
    <3>1. j \in Jobs /\ Fate[j] = "pending" /\ j # NoJob
      BY <2>1, HeldPending, BrowserRunnerAssumption
    <3>2. Fate' = [Fate EXCEPT ![j] = "lost"] /\ Told' = Told
      BY <2>0, <3>1 DEF Fate, Told
    <3>3. Service!Lose(j)
      BY <2>0, <3>1, <3>2 DEF Service!Lose, Service!Meet, Told
    <3> QED
      BY <3>1, <3>3 DEF Service!Next
  <2>2. CASE worker[w].pc \notin Busy
    <3>1. j = NoJob
      BY <1>0, <2>2 DEF HandsInv
    <3> QED
      BY <2>0, <3>1, Stutter
  <2> QED
    BY <2>1, <2>2
<1>7. ASSUME NEW w \in Workers, NEW b \in BOOLEAN,
             LoopTop(w) \/ Dequeue(w) \/ DequeueEmpty(w) \/ Pick(w) \/ AcquireFails(w, b)
             \/ Reenqueue(w) \/ Restart(w) \/ RequestStop(w)
      PROVE  UNCHANGED Service!vars
  BY <1>7, Stutter DEF LoopTop, Dequeue, DequeueEmpty, Pick, AcquireFails, HandleFailure,
                       Reenqueue, Restart, RequestStop
<1>8. CASE Tick \/ UNCHANGED vars
  BY <1>8, Stutter DEF Tick, vars
<1> QED
  BY <1>1, <1>2, <1>3, <1>4, <1>5, <1>6, <1>7, <1>8 DEF Next, WorkerStep, ClientStep

(* The browser runner, retries, crashes and restarts included, implements   *)
(* JobService for any jobs, workers and limits.                             *)
THEOREM Implementation == Spec => ImplementsJobService
<1>1. Init => Service!Init
  BY BrowserRunnerAssumption DEF Init, Service!Init, Fate
<1> QED
  BY <1>1, StepRefines, Invariance, PTL DEF Spec, ImplementsJobService, Service!Spec
=============================================================================
