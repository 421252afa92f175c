------------------------------ MODULE JobService ------------------------------
(***************************************************************************)
(* What the asynchronous job API promises (docs/LLM_PROVIDERS.md): at most *)
(* MaxJobs jobs are outstanding, one of them runs, the others wait in the  *)
(* order they were accepted; a job ends once, in one of four ways, and a   *)
(* cancelled job leaves the line at once.                                  *)
(***************************************************************************)
EXTENDS Subsequences

CONSTANTS Ids, MaxJobs, NoJob

VARIABLES
    line,      \* the accepted jobs that wait, first come first served
    current,   \* the job that runs
    outcome    \* what a client is told of each job

serviceVars == <<line, current, outcome>>

Ends == {"completed", "failed", "timed_out", "cancelled"}

Init ==
    /\ line = <<>> /\ current = NoJob
    /\ outcome = [j \in Ids |-> "unknown"]

Outstanding == Len(line) + (IF current = NoJob THEN 0 ELSE 1)

Submit(j) ==
    /\ outcome[j] = "unknown"
    /\ Outstanding < MaxJobs
    /\ line' = Append(line, j)
    /\ outcome' = [outcome EXCEPT ![j] = "waiting"]
    /\ UNCHANGED current

Start ==
    /\ current = NoJob /\ line # <<>>
    /\ current' = Head(line) /\ line' = Tail(line)
    /\ outcome' = [outcome EXCEPT ![Head(line)] = "running"]

Finish(end) ==
    /\ current # NoJob
    /\ current' = NoJob
    /\ outcome' = [outcome EXCEPT ![current] = end]
    /\ UNCHANGED line

Withdraw(j) ==
    /\ outcome[j] = "waiting"
    /\ line' = Keep(line, Ids \ {j})
    /\ outcome' = [outcome EXCEPT ![j] = "cancelled"]
    /\ UNCHANGED current

Next == \/ \E j \in Ids : Submit(j) \/ Withdraw(j)
        \/ Start
        \/ \E end \in Ends : Finish(end)

Spec == Init /\ [][Next]_serviceVars
=============================================================================
