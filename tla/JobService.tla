----------------------------- MODULE JobService -----------------------------
(* What the browser runner promises a driver, without list, workers, pages  *)
(* or clock: a submitted job is tried a bounded number of times, meets one  *)
(* fate for good, and its driver is told that fate or gives up before it.   *)
EXTENDS Naturals

CONSTANTS
    Jobs,        \* jobs, one submit call each
    RetryLimit   \* tries after the first

VARIABLES
    fate,      \* what became of each job
    tries,     \* how often its handler was started
    effects,   \* how often it took effect on the portal
    answer     \* what its driver was told

vars == <<fate, tries, effects, answer>>

Outcomes == {"succeeded", "failed", "deadline_exceeded"}

Init ==
    /\ fate = [j \in Jobs |-> "idle"]
    /\ tries = [j \in Jobs |-> 0]
    /\ effects = [j \in Jobs |-> 0]
    /\ answer = [j \in Jobs |-> "none"]

Meet(j, from, to) ==
    /\ fate[j] = from
    /\ fate' = [fate EXCEPT ![j] = to]
    /\ UNCHANGED <<tries, effects, answer>>

Submit(j) == Meet(j, "idle", "pending")

(* A worker that dies takes the job in its hands with it.                   *)
Lose(j) == Meet(j, "pending", "lost")

(* A success is told only of a job that took effect.                        *)
Settle(j, o) ==
    /\ o = "succeeded" => effects[j] > 0
    /\ Meet(j, "pending", o)

Try(j) ==
    /\ fate[j] = "pending"
    /\ tries[j] <= RetryLimit
    /\ tries' = [tries EXCEPT ![j] = @ + 1]
    /\ UNCHANGED <<fate, effects, answer>>

Act(j) ==
    /\ fate[j] = "pending"
    /\ effects' = [effects EXCEPT ![j] = @ + 1]
    /\ UNCHANGED <<fate, tries, answer>>

Tell(j, a) ==
    /\ answer[j] = "none"
    /\ \/ fate[j] \in Outcomes /\ a = fate[j]
       \/ fate[j] \in {"pending", "lost"} /\ a = "client_timeout"
    /\ answer' = [answer EXCEPT ![j] = a]
    /\ UNCHANGED <<fate, tries, effects>>

Next ==
    \E j \in Jobs :
        \/ Submit(j) \/ Lose(j) \/ Try(j) \/ Act(j)
        \/ \E o \in Outcomes : Settle(j, o)
        \/ \E a \in Outcomes \cup {"client_timeout"} : Tell(j, a)

Spec == Init /\ [][Next]_vars
=============================================================================
