------------------------------- MODULE LLMJobs --------------------------------
(***************************************************************************)
(* The asynchronous job queue of admin/llm_jobs.go: HTTP handlers create,  *)
(* poll and delete jobs; one worker goroutine takes them from a buffered   *)
(* channel and runs them against the local llama-server.                   *)
(*                                                                         *)
(* jobsMu has an owner because createLLMJob may block on the channel while *)
(* it holds it; every other critical section of jobsMu is straight-line    *)
(* code and is one step, enabled while the lock is free.                   *)
(*                                                                         *)
(* A job's request bytes are nil exactly from the step that makes the job  *)
(* terminal (both writers do the two together), so "the request is still   *)
(* there" is ~Terminal(j).  ensureReady and the llama-server are external: *)
(* any of their outcomes may happen.                                       *)
(***************************************************************************)
EXTENDS Naturals, Sequences, FiniteSets, Subsequences

CONSTANTS
    Ids,          \* job identifiers; generateJobID never repeats one
    Cancellable,  \* the jobs some client may DELETE
    Clients,      \* concurrent POST /api/llm/jobs handlers
    MaxJobs,      \* maxLLMJobs: the admission limit and the channel's capacity
    NoJob, NoOne

ASSUME JobsAssumption ==
    /\ IsFiniteSet(Ids) /\ Cancellable \subseteq Ids /\ NoJob \notin Ids
    /\ NoOne \notin Clients /\ MaxJobs \in Nat \ {0}

VARIABLES
    jobs,      \* keys of manager.jobs
    state,     \* llmJob.state; "none" before the job is put in the table
    ctxDone,   \* the job's context has been cancelled
    expired,   \* the job is terminal and finished more than jobRetention ago
    queue,     \* manager.jobQueue
    jobsMu,    \* owner of manager.jobsMu across steps
    cpc,       \* where each create handler is
    cjob,      \* the job it has built
    wpc,       \* where jobWorker / runJob is
    wjob,      \* the job it has in hand
    wend,      \* the terminal state it is about to set
    lease,     \* runJob holds a beginLLMUse lease
    provider   \* LLM_PROVIDER in the configuration file

tableVars  == <<jobs, state, ctxDone, expired>>
clientVars == <<jobsMu, cpc, cjob>>
workerVars == <<wpc, wjob, wend, lease>>
vars == <<jobs, state, ctxDone, expired, queue, jobsMu, cpc, cjob,
          wpc, wjob, wend, lease, provider>>

Stages   == {"loading_model", "ready", "generating"}
Ends     == {"completed", "failed", "timed_out", "cancelled"}
States   == {"none", "queued"} \cup Stages \cup Ends
Labels   == {"recv", "check", "lease", "loading", "config", "ensure", "ready", "reload",
             "build", "generating", "generate", "stream", "verify", "end", "release"}

Terminal(j)    == state[j] \in Ends
Outstanding(j) == state[j] \in {"queued"} \cup Stages

TypeOK ==
    /\ jobs \subseteq Ids
    /\ state \in [Ids -> States]
    /\ ctxDone \in [Ids -> BOOLEAN]
    /\ expired \in [Ids -> BOOLEAN]
    /\ queue \in Seq(Ids) /\ Len(queue) <= MaxJobs
    /\ jobsMu \in Clients \cup {NoOne}
    /\ cpc \in [Clients -> {"idle", "built", "sending"}]
    /\ cjob \in [Clients -> Ids \cup {NoJob}]
    /\ wpc \in Labels
    /\ wjob \in Ids \cup {NoJob}
    /\ wend \in Ends
    /\ lease \in BOOLEAN
    /\ provider \in {"local", "openrouter"}

Init ==
    /\ jobs = {} /\ queue = <<>> /\ jobsMu = NoOne
    /\ state = [j \in Ids |-> "none"]
    /\ ctxDone = [j \in Ids |-> FALSE]
    /\ expired = [j \in Ids |-> FALSE]
    /\ cpc = [c \in Clients |-> "idle"]
    /\ cjob = [c \in Clients |-> NoJob]
    /\ wpc = "recv" /\ wjob = NoJob /\ wend = "failed" /\ lease = FALSE
    /\ provider \in {"local", "openrouter"}

-----------------------------------------------------------------------------
(***************************************************************************)
(* The table.                                                              *)
(***************************************************************************)
Unlocked == jobsMu = NoOne

(* cleanFinishedJobsLocked: what every handler does first under jobsMu.    *)
Retained == {j \in jobs : ~(Terminal(j) /\ expired[j])}

(* Mutant: only the jobs that wait are counted, the running one is not.    *)
ActiveWaiting == {j \in Retained : state[j] = "queued"}

Active == {j \in Retained : ~Terminal(j)}

(* markJob: a terminal job is left as it is.                               *)
Mark(j, s) == state' = IF Terminal(j) THEN state ELSE [state EXCEPT ![j] = s]

-----------------------------------------------------------------------------
(***************************************************************************)
(* createLLMJob.                                                           *)
(***************************************************************************)
(* The provider must be local; then the request is parsed and the job is   *)
(* built, with a fresh identifier, before jobsMu is taken.                 *)
Build(c) ==
    /\ cpc[c] = "idle" /\ provider = "local"
    /\ \E j \in Ids :
          /\ state[j] = "none" /\ \A d \in Clients : cjob[d] # j
          /\ cjob' = [cjob EXCEPT ![c] = j]
    /\ cpc' = [cpc EXCEPT ![c] = "built"]
    /\ UNCHANGED <<tableVars, queue, jobsMu, workerVars, provider>>

Leave(c) == cpc' = [cpc EXCEPT ![c] = "idle"] /\ cjob' = [cjob EXCEPT ![c] = NoJob]

(* 429: too many jobs that are not terminal.                               *)
Reject(c) ==
    /\ cpc[c] = "built" /\ Unlocked
    /\ Cardinality(Active) >= MaxJobs
    /\ jobs' = Retained
    /\ Leave(c)
    /\ UNCHANGED <<state, ctxDone, expired, queue, jobsMu, workerVars, provider>>

(* Mutant: a select with a default, so a full channel drops the job.       *)
AdmitDropsWhenFull(c) ==
    /\ cpc[c] = "built" /\ Unlocked
    /\ Cardinality(Active) < MaxJobs
    /\ jobs' = Retained \cup {cjob[c]}
    /\ state' = [state EXCEPT ![cjob[c]] = "queued"]
    /\ queue' = IF Len(queue) < MaxJobs THEN Append(queue, cjob[c]) ELSE queue
    /\ Leave(c)
    /\ UNCHANGED <<ctxDone, expired, jobsMu, workerVars, provider>>

(* 202: the job enters the table and is sent to the channel, all under     *)
(* jobsMu; when the channel is full the handler keeps the lock and waits.  *)
Admit(c) ==
    /\ cpc[c] = "built" /\ Unlocked
    /\ Cardinality(Active) < MaxJobs
    /\ jobs' = Retained \cup {cjob[c]}
    /\ state' = [state EXCEPT ![cjob[c]] = "queued"]
    /\ \/ /\ Len(queue) < MaxJobs
          /\ queue' = Append(queue, cjob[c])
          /\ Leave(c) /\ UNCHANGED jobsMu
       \/ /\ Len(queue) = MaxJobs
          /\ jobsMu' = c
          /\ cpc' = [cpc EXCEPT ![c] = "sending"]
          /\ UNCHANGED <<queue, cjob>>
    /\ UNCHANGED <<ctxDone, expired, workerVars, provider>>

(* Mutant: the channel has room for one job more than maxLLMJobs.          *)
SendUnbounded(c) ==
    /\ cpc[c] = "sending"
    /\ queue' = Append(queue, cjob[c])
    /\ jobsMu' = NoOne
    /\ Leave(c)
    /\ UNCHANGED <<tableVars, workerVars, provider>>

Send(c) ==
    /\ cpc[c] = "sending" /\ Len(queue) < MaxJobs
    /\ queue' = Append(queue, cjob[c])
    /\ jobsMu' = NoOne
    /\ Leave(c)
    /\ UNCHANGED <<tableVars, workerVars, provider>>

(* GET of status, result or diagnostics, and any request for an unknown    *)
(* job: the table is cleaned and nothing else changes.                     *)
Poll ==
    /\ Unlocked /\ Retained # jobs
    /\ jobs' = Retained
    /\ UNCHANGED <<state, ctxDone, expired, queue, clientVars, workerVars, provider>>

(* DELETE: the job is cancelled where it is; a queued job stays in the     *)
(* channel.  Deleting a terminal job changes nothing more than a poll.     *)
Delete(j) ==
    /\ Unlocked /\ j \in Cancellable \cap Retained /\ ~Terminal(j)
    /\ jobs' = Retained
    /\ ctxDone' = [ctxDone EXCEPT ![j] = TRUE]
    /\ state' = [state EXCEPT ![j] = "cancelled"]
    /\ UNCHANGED <<expired, queue, clientVars, workerVars, provider>>

-----------------------------------------------------------------------------
(***************************************************************************)
(* jobWorker and runJob.                                                   *)
(***************************************************************************)
Worker(l1, l2) == wpc = l1 /\ wpc' = l2
EndAs(s)       == wpc' = "end" /\ wend' = s

(* Mutant: the newest job is served first.                                 *)
ReceiveNewest ==
    /\ Worker("recv", "check") /\ queue # <<>>
    /\ wjob' = queue[Len(queue)] /\ queue' = SubSeq(queue, 1, Len(queue) - 1)
    /\ UNCHANGED <<tableVars, clientVars, wend, lease, provider>>

Receive ==
    /\ Worker("recv", "check") /\ queue # <<>>
    /\ wjob' = Head(queue) /\ queue' = Tail(queue)
    /\ UNCHANGED <<tableVars, clientVars, wend, lease, provider>>

SkipCancelled ==
    /\ Worker("check", "recv") /\ Unlocked /\ Terminal(wjob)
    /\ wjob' = NoJob
    /\ UNCHANGED <<tableVars, queue, clientVars, wend, lease, provider>>

BeginRun ==
    /\ Worker("check", "lease") /\ Unlocked /\ ~Terminal(wjob)
    /\ UNCHANGED <<tableVars, queue, clientVars, wjob, wend, lease, provider>>

TakeLease ==
    /\ Worker("lease", "loading")
    /\ lease' = TRUE
    /\ UNCHANGED <<tableVars, queue, clientVars, wjob, wend, provider>>

MarkStage ==
    /\ Unlocked
    /\ \/ Worker("loading", "config")      /\ Mark(wjob, "loading_model")
       \/ Worker("ready", "reload")        /\ Mark(wjob, "ready")
       \/ Worker("generating", "generate") /\ Mark(wjob, "generating")
    /\ UNCHANGED <<jobs, ctxDone, expired, queue, clientVars, wjob, wend, lease, provider>>

(* Mutant: an early return that forgets markJob.                           *)
CheckProviderUnmarked ==
    /\ \/ provider = "local" /\ Worker("config", "ensure") /\ UNCHANGED wend
       \/ provider = "local" /\ Worker("reload", "build")  /\ UNCHANGED wend
       \/ Worker("config", "release") /\ UNCHANGED wend
       \/ Worker("reload", "release") /\ UNCHANGED wend
    /\ UNCHANGED <<tableVars, queue, clientVars, wjob, lease, provider>>

(* The provider is read before and again after the model is loaded; an     *)
(* unreadable configuration fails the job too.                             *)
CheckProvider ==
    /\ \/ provider = "local" /\ Worker("config", "ensure") /\ UNCHANGED wend
       \/ provider = "local" /\ Worker("reload", "build")  /\ UNCHANGED wend
       \/ wpc \in {"config", "reload"} /\ EndAs("failed")
    /\ UNCHANGED <<tableVars, queue, clientVars, wjob, lease, provider>>

(* How an error is classified: by the job's own context first.             *)
Failure == IF ctxDone[wjob] THEN EndAs("cancelled") ELSE EndAs("timed_out") \/ EndAs("failed")

EnsureReady ==
    /\ \/ Worker("ensure", "ready") /\ UNCHANGED wend
       \/ wpc = "ensure" /\ Failure
    /\ UNCHANGED <<tableVars, queue, clientVars, wjob, lease, provider>>

(* j.request is read without jobsMu: a DELETE may have cleared it.         *)
BuildRequest ==
    /\ \/ Worker("build", "generating") /\ ~Terminal(wjob) /\ UNCHANGED wend
       \/ wpc = "build" /\ EndAs("failed")
    /\ UNCHANGED <<tableVars, queue, clientVars, wjob, lease, provider>>

Generate ==
    /\ \/ Worker("generate", "stream") /\ UNCHANGED wend
       \/ wpc \in {"generate", "stream"} /\ Failure
    /\ UNCHANGED <<tableVars, queue, clientVars, wjob, lease, provider>>

(* The last critical section of readDiagnosticStream.                      *)
StreamEnds ==
    /\ Worker("stream", "verify") /\ Unlocked
    /\ UNCHANGED <<tableVars, queue, clientVars, wjob, wend, lease, provider>>

Verify ==
    /\ wpc = "verify"
    /\ EndAs("failed") \/ EndAs(IF ctxDone[wjob] THEN "cancelled" ELSE "completed")
    /\ UNCHANGED <<tableVars, queue, clientVars, wjob, lease, provider>>

MarkEnd ==
    /\ Worker("end", "release") /\ Unlocked
    /\ Mark(wjob, wend)
    /\ UNCHANGED <<jobs, ctxDone, expired, queue, clientVars, wjob, wend, lease, provider>>

(* The deferred release and j.cancel.                                      *)
Release ==
    /\ Worker("release", "recv")
    /\ lease' = FALSE
    /\ ctxDone' = [ctxDone EXCEPT ![wjob] = TRUE]
    /\ wjob' = NoJob
    /\ wend' = "failed"
    /\ UNCHANGED <<jobs, state, expired, queue, clientVars, provider>>

-----------------------------------------------------------------------------
(* Fifteen minutes pass; an administrator changes the provider.            *)
Expire(j) ==
    /\ j \in jobs /\ Terminal(j) /\ ~expired[j]
    /\ expired' = [expired EXCEPT ![j] = TRUE]
    /\ UNCHANGED <<jobs, state, ctxDone, queue, clientVars, workerVars, provider>>

SwitchProvider ==
    /\ provider' \in {"local", "openrouter"} \ {provider}
    /\ UNCHANGED <<tableVars, queue, clientVars, workerVars>>

WorkerStep ==
    \/ Receive \/ SkipCancelled \/ BeginRun \/ TakeLease \/ MarkStage \/ CheckProvider
    \/ EnsureReady \/ BuildRequest \/ Generate \/ StreamEnds \/ Verify \/ MarkEnd \/ Release

Next ==
    \/ \E c \in Clients : Build(c) \/ Reject(c) \/ Admit(c) \/ Send(c)
    \/ Poll
    \/ \E j \in Ids : Delete(j) \/ Expire(j)
    \/ WorkerStep
    \/ SwitchProvider

Spec == Init /\ [][Next]_vars

(***************************************************************************)
(* Fairness: the worker goroutine and a handler that has entered its       *)
(* critical section do not stop.  EnsureReady and Generate always end,     *)
(* because they run under the load and generation timeouts.                *)
(***************************************************************************)
Fairness == /\ WF_vars(WorkerStep)
            /\ \A c \in Clients : WF_vars(Reject(c) \/ Admit(c) \/ Send(c))

FairSpec == Spec /\ Fairness

-----------------------------------------------------------------------------
(***************************************************************************)
(* Properties.                                                             *)
(***************************************************************************)

(* An accepted job is never lost and never run twice: while it is          *)
(* outstanding it is in exactly one place, once: in the channel, in the    *)
(* worker's hands, or in the handler still sending it.                     *)
Sending        == {cjob[c] : c \in {d \in Clients : cpc[d] = "sending"}}
InQueue(j)     == \E i \in 1..Len(queue) : queue[i] = j
NoJobLost ==
    /\ \A j \in Ids : Outstanding(j) => InQueue(j) \/ wjob = j \/ j \in Sending
    /\ \A i, k \in 1..Len(queue) : queue[i] = queue[k] => i = k
    /\ ~InQueue(wjob) /\ wjob \notin Sending
    /\ \A j \in Sending : ~InQueue(j)

(* A job reported as loading, ready or generating is the one the worker    *)
(* runs, and the worker holds its lease: no early return leaves a stale    *)
(* stage behind (llm_jobs.go:138-218).                                     *)
StageIsLeased == \A j \in Ids : state[j] \in Stages => wjob = j /\ lease

(* "At most five outstanding jobs", counted over all jobs that exist, not  *)
(* over what one handler saw (llm_jobs.go:302-310).                        *)
AtMostMaxJobs == Cardinality({j \in Ids : Outstanding(j)}) <= MaxJobs

(* An end is final: a late model answer, timeout or cancellation never     *)
(* replaces the end a client may already have read (markJob, DELETE).      *)
EndIsFinal == [][\A j \in Ids : Terminal(j) => state'[j] = state[j]]_vars

(* Every accepted job ends, and every submission is answered.              *)
JobsEnd            == \A j \in Ids : Outstanding(j) ~> Terminal(j)
SubmissionAnswered == \A c \in Clients : cpc[c] = "built" ~> cpc[c] = "idle"

(***************************************************************************)
(* The queue implements JobService: tombstones of cancelled jobs in the    *)
(* channel, the job in the worker's hands and the one being sent are all   *)
(* places of one waiting line.                                             *)
(***************************************************************************)
Waiting == {j \in Ids : state[j] = "queued"}
Places  == <<wjob>> \o queue \o (IF jobsMu = NoOne THEN <<>> ELSE <<cjob[jobsMu]>>)
Line    == Keep(Places, Waiting)
Current == IF wjob # NoJob /\ wjob \in {j \in Ids : state[j] \in Stages} THEN wjob ELSE NoJob
Outcome == [j \in Ids |-> IF state[j] = "none" THEN "unknown"
                          ELSE IF state[j] = "queued" THEN "waiting"
                          ELSE IF state[j] \in Stages THEN "running" ELSE state[j]]

Service == INSTANCE JobService WITH line <- Line, current <- Current, outcome <- Outcome
ImplementsJobService == Service!Spec
=============================================================================
