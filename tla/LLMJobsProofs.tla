---------------------------- MODULE LLMJobsProofs -----------------------------
(***************************************************************************)
(* Proofs about LLMJobs, for every set of jobs and clients and every limit *)
(* maxLLMJobs.                                                             *)
(***************************************************************************)
EXTENDS LLMJobs, SubsequenceProofs, FiniteSetTheorems

-----------------------------------------------------------------------------
(***************************************************************************)
(* The inductive invariant.                                                *)
(***************************************************************************)

(* Only a handler blocked on the channel keeps jobsMu across steps, and a  *)
(* job that was built belongs to one handler and is unknown until admitted.*)
HandlerInv ==
    /\ \A c \in Clients :
          /\ jobsMu = c <=> cpc[c] = "sending"
          /\ cjob[c] = NoJob <=> cpc[c] = "idle"
          /\ cpc[c] = "built" => state[cjob[c]] = "none"
          /\ cpc[c] = "sending" => state[cjob[c]] # "none"
    /\ \A c, d \in Clients : cjob[c] # NoJob /\ cjob[c] = cjob[d] => c = d

(* What the worker has in hand and where it is; it lets go of a job only   *)
(* once the job has ended.                                                 *)
WorkerInv ==
    /\ wjob = NoJob <=> wpc = "recv"
    /\ lease <=> wpc \notin {"recv", "check", "lease"}
    /\ wjob # NoJob => state[wjob] # "none"
    /\ wpc = "release" => Terminal(wjob)
    /\ \A j \in Ids : state[j] \in Stages => wjob = j /\ lease

(* The channel holds admitted jobs, each once and none that is elsewhere.  *)
ChannelInv ==
    /\ \A i \in 1..Len(queue) : state[queue[i]] # "none" /\ queue[i] # wjob
    /\ \A i, k \in 1..Len(queue) : queue[i] = queue[k] => i = k
    /\ \A c \in Clients : cpc[c] = "sending" =>
          /\ cjob[c] # wjob
          /\ \A i \in 1..Len(queue) : queue[i] # cjob[c]

(* Every outstanding job is in the table, so the admission test counts it, *)
(* and in one of the three places it can be in.                            *)
PlaceInv ==
    /\ \A j \in jobs : state[j] # "none"
    /\ \A j \in Ids : Outstanding(j) =>
          /\ j \in jobs
          /\ InQueue(j) \/ wjob = j \/ \E c \in Clients : cpc[c] = "sending" /\ cjob[c] = j

Inv == TypeOK /\ HandlerInv /\ WorkerInv /\ ChannelInv /\ PlaceInv

LEMMA InvInit == Init => Inv
<1> SUFFICES ASSUME Init PROVE Inv
  OBVIOUS
<1>1. queue \in Seq(Ids) /\ Len(queue) = 0
  BY EmptySeq DEF Init
<1>2. TypeOK
  <2>1. state \in [Ids -> States] /\ ctxDone \in [Ids -> BOOLEAN] /\ expired \in [Ids -> BOOLEAN]
    BY DEF Init, States
  <2>2. cpc \in [Clients -> {"idle", "built", "sending"}] /\ cjob \in [Clients -> Ids \cup {NoJob}]
    BY DEF Init
  <2>3. /\ jobs \subseteq Ids /\ jobsMu \in Clients \cup {NoOne} /\ wjob \in Ids \cup {NoJob}
        /\ wpc \in Labels /\ wend \in Ends /\ lease \in BOOLEAN
        /\ provider \in {"local", "openrouter"}
    BY DEF Init, Labels, Ends
  <2> QED BY <1>1, <2>1, <2>2, <2>3, JobsAssumption DEF TypeOK
<1> QED
  BY <1>1, <1>2, JobsAssumption
  DEF Init, Inv, HandlerInv, WorkerInv, ChannelInv, PlaceInv, Outstanding, Terminal, Stages, Ends

-----------------------------------------------------------------------------
(***************************************************************************)
(* The steps of createLLMJob.                                              *)
(***************************************************************************)
LEMMA BuildStep ==
    ASSUME Inv, NEW c \in Clients, Build(c) PROVE Inv'
<1> USE JobsAssumption DEF Inv, Build, tableVars, workerVars
<1>1. PICK j \in Ids : /\ state[j] = "none" /\ \A d \in Clients : cjob[d] # j
                       /\ cjob' = [cjob EXCEPT ![c] = j]
  OBVIOUS
<1>2. TypeOK' BY DEF TypeOK
<1>3. HandlerInv' BY <1>1 DEF HandlerInv, TypeOK
<1>4. WorkerInv' BY DEF WorkerInv, Terminal
<1>5. ChannelInv' BY <1>1 DEF ChannelInv, TypeOK
<1>6. PlaceInv' BY <1>1 DEF PlaceInv, HandlerInv, TypeOK, Outstanding, InQueue
<1> QED BY <1>2, <1>3, <1>4, <1>5, <1>6

LEMMA RejectStep ==
    ASSUME Inv, NEW c \in Clients, Reject(c) PROVE Inv'
<1> USE JobsAssumption DEF Inv, Reject, Leave, workerVars
<1>1. TypeOK' BY DEF TypeOK, Retained
<1>2. HandlerInv' BY DEF HandlerInv, TypeOK
<1>3. WorkerInv' BY DEF WorkerInv, Terminal
<1>4. ChannelInv' BY DEF ChannelInv, TypeOK
<1>5. PlaceInv'
  BY DEF PlaceInv, HandlerInv, TypeOK, Outstanding, InQueue, Retained, Terminal, Stages, Ends
<1> QED BY <1>1, <1>2, <1>3, <1>4, <1>5

LEMMA Appended ==
    ASSUME queue \in Seq(Ids), NEW j \in Ids
    PROVE  /\ Append(queue, j) \in Seq(Ids)
           /\ Len(queue) \in Nat /\ Len(Append(queue, j)) = Len(queue) + 1
           /\ \A i \in 1..Len(queue) : queue[i] \in Ids /\ Append(queue, j)[i] = queue[i]
           /\ Append(queue, j)[Len(queue) + 1] = j
BY AppendProperties, LenProperties, ElementOfSeq

LEMMA AdmitStep ==
    ASSUME Inv, NEW c \in Clients, Admit(c) PROVE Inv'
<1> USE JobsAssumption DEF Inv, Leave, workerVars, Unlocked
<1> DEFINE j == cjob[c]
<1>1. /\ j \in Ids /\ state[j] = "none" /\ jobsMu = NoOne /\ cpc[c] = "built"
      /\ \A i \in 1..Len(queue) : queue[i] # j
      /\ wjob # j
  BY DEF Admit, HandlerInv, ChannelInv, WorkerInv, TypeOK
<1>2. /\ jobs' = Retained \cup {j} /\ state' = [state EXCEPT ![j] = "queued"]
      /\ UNCHANGED <<ctxDone, expired, workerVars, provider>>
  BY DEF Admit
<1>3. Retained \subseteq jobs /\ \A i \in Ids : Outstanding(i) => i \in Retained
  BY DEF Retained, PlaceInv, Outstanding, Terminal, Stages, Ends
<1>4. WorkerInv'
  BY <1>1, <1>2 DEF WorkerInv, TypeOK, Terminal, Stages, Ends
<1>5. CASE /\ Len(queue) < MaxJobs /\ queue' = Append(queue, j)
           /\ Leave(c) /\ UNCHANGED jobsMu
  <2>1. TypeOK' BY <1>1, <1>2, <1>3, <1>5, Appended DEF TypeOK, States
  <2>2. HandlerInv' BY <1>1, <1>2, <1>5 DEF HandlerInv, TypeOK
  <2>3. ChannelInv' BY <1>1, <1>2, <1>5, Appended DEF ChannelInv, HandlerInv, TypeOK
  <2>4. PlaceInv' BY <1>1, <1>2, <1>3, <1>5, Appended
                  DEF PlaceInv, Outstanding, InQueue, TypeOK
  <2> QED BY <1>4, <2>1, <2>2, <2>3, <2>4
<1>6. CASE /\ jobsMu' = c /\ cpc' = [cpc EXCEPT ![c] = "sending"]
           /\ UNCHANGED <<queue, cjob>>
  <2>1. TypeOK' BY <1>1, <1>2, <1>3, <1>6 DEF TypeOK, States
  <2>2. HandlerInv' BY <1>1, <1>2, <1>6 DEF HandlerInv, TypeOK
  <2>3. ChannelInv' BY <1>1, <1>2, <1>6, ElementOfSeq DEF ChannelInv, HandlerInv, TypeOK
  <2>4. PlaceInv' BY <1>1, <1>2, <1>3, <1>6 DEF PlaceInv, Outstanding, InQueue, TypeOK
  <2> QED BY <1>4, <2>1, <2>2, <2>3, <2>4
<1> QED BY <1>5, <1>6 DEF Admit

LEMMA SendStep ==
    ASSUME Inv, NEW c \in Clients, Send(c) PROVE Inv'
<1> USE JobsAssumption DEF Inv, Send, Leave, tableVars, workerVars
<1>1. cjob[c] \in Ids /\ jobsMu = c /\ state[cjob[c]] # "none"
  BY DEF HandlerInv, TypeOK
<1>2. TypeOK' BY <1>1, Appended DEF TypeOK
<1>3. HandlerInv' BY <1>1 DEF HandlerInv, TypeOK
<1>4. WorkerInv' BY DEF WorkerInv, Terminal
<1>5. ChannelInv' BY <1>1, Appended DEF ChannelInv, HandlerInv, TypeOK
<1>6. PlaceInv' BY <1>1, Appended DEF PlaceInv, HandlerInv, Outstanding, InQueue, TypeOK
<1> QED BY <1>2, <1>3, <1>4, <1>5, <1>6

-----------------------------------------------------------------------------
(***************************************************************************)
(* Polls, deletions, time and configuration.                               *)
(***************************************************************************)
LEMMA PollStep == ASSUME Inv, Poll PROVE Inv'
BY DEF Inv, Poll, TypeOK, HandlerInv, WorkerInv, ChannelInv, PlaceInv, Outstanding, InQueue,
       Retained, Terminal, Stages, Ends, clientVars, workerVars

LEMMA DeleteStep == ASSUME Inv, NEW j \in Ids, Delete(j) PROVE Inv'
<1> USE DEF Inv, clientVars, workerVars
<1>1. /\ state' = [state EXCEPT ![j] = "cancelled"] /\ state[j] # "none"
      /\ jobs' = Retained /\ ~Terminal(j)
      /\ UNCHANGED <<expired, queue, clientVars, workerVars, provider>>
      /\ ctxDone' = [ctxDone EXCEPT ![j] = TRUE]
  BY DEF Delete, PlaceInv, Retained
<1>2. Retained \subseteq jobs /\ \A i \in Ids : Outstanding(i) => i \in Retained
  BY DEF Retained, PlaceInv, Outstanding, Terminal, Stages, Ends
<1>3. TypeOK' BY <1>1, <1>2 DEF TypeOK, States, Ends
<1>4. HandlerInv' BY <1>1 DEF HandlerInv, TypeOK
<1>5. WorkerInv' BY <1>1 DEF WorkerInv, TypeOK, Terminal, Stages, Ends
<1>6. ChannelInv' BY <1>1, ElementOfSeq DEF ChannelInv, TypeOK
<1>7. PlaceInv' BY <1>1, <1>2 DEF PlaceInv, Outstanding, InQueue, TypeOK, Stages
<1> QED BY <1>3, <1>4, <1>5, <1>6, <1>7

LEMMA EnvironmentStep ==
    ASSUME Inv, SwitchProvider \/ \E j \in Ids : Expire(j) PROVE Inv'
<1> USE DEF Inv, clientVars, workerVars, tableVars
<1>1. UNCHANGED <<jobs, state, ctxDone, queue, clientVars, workerVars>>
  BY DEF SwitchProvider, Expire
<1>2. TypeOK' BY DEF TypeOK, SwitchProvider, Expire
<1>3. HandlerInv' /\ WorkerInv' /\ ChannelInv' /\ PlaceInv'
  BY <1>1 DEF HandlerInv, WorkerInv, ChannelInv, PlaceInv, Outstanding, InQueue, Terminal
<1> QED BY <1>2, <1>3

-----------------------------------------------------------------------------
(***************************************************************************)
(* The steps of jobWorker and runJob.                                      *)
(***************************************************************************)
LEMMA ReceiveStep == ASSUME Inv, Receive PROVE Inv'
<1> USE DEF Inv, Receive, Worker, tableVars, clientVars
<1>1. /\ Head(queue) \in Ids /\ Tail(queue) \in Seq(Ids)
      /\ Len(queue) \in Nat \ {0} /\ Len(Tail(queue)) = Len(queue) - 1
      /\ Head(queue) = queue[1]
      /\ \A i \in 1..Len(Tail(queue)) : Tail(queue)[i] = queue[i + 1]
  BY HeadTailProperties, EmptySeq DEF TypeOK
<1>2. TypeOK' BY <1>1, JobsAssumption DEF TypeOK, Labels
<1>3. HandlerInv' BY DEF HandlerInv
<1>4. WorkerInv' BY <1>1, JobsAssumption DEF WorkerInv, ChannelInv, TypeOK
<1>5. ChannelInv'
  <2>1. \A i \in 1..Len(queue') : i + 1 \in 1..Len(queue) /\ queue'[i] = queue[i + 1] /\ i + 1 # 1
    BY <1>1
  <2>2. 1 \in 1..Len(queue)
    BY <1>1
  <2> QED BY <1>1, <2>1, <2>2 DEF ChannelInv
<1>6. PlaceInv'
  <2>1. ASSUME NEW j \in Ids, InQueue(j), j # queue[1] PROVE InQueue(j)'
    <3>1. PICK i \in 1..Len(queue) : queue[i] = j BY <2>1 DEF InQueue
    <3>2. i - 1 \in 1..Len(Tail(queue)) /\ Tail(queue)[i - 1] = j BY <1>1, <2>1, <3>1
    <3> QED BY <3>2 DEF InQueue
  <2> QED BY <1>1, <2>1, JobsAssumption DEF PlaceInv, WorkerInv, Outstanding
<1> QED BY <1>2, <1>3, <1>4, <1>5, <1>6

(* The steps of the worker that leave the table, the channel and the job   *)
(* in its hands alone.                                                     *)
LEMMA QuietStep ==
    ASSUME Inv, BeginRun \/ TakeLease \/ CheckProvider \/ EnsureReady \/ BuildRequest
                \/ Generate \/ StreamEnds \/ Verify
    PROVE  Inv'
<1> USE DEF Inv, Worker, EndAs, Failure, tableVars, clientVars, BeginRun, TakeLease, CheckProvider,
            EnsureReady, BuildRequest, Generate, StreamEnds, Verify
<1>1. UNCHANGED <<tableVars, queue, clientVars, wjob, provider>>
  OBVIOUS
<1>2. /\ wpc # "recv" /\ wpc' \notin {"recv", "release"}
      /\ lease' <=> wpc' \notin {"recv", "check", "lease"}
  BY DEF WorkerInv, TypeOK
<1>3. TypeOK' BY DEF TypeOK, Labels, Ends
<1>4. HandlerInv' BY <1>1 DEF HandlerInv
<1>5. WorkerInv' BY <1>1, <1>2 DEF WorkerInv, TypeOK
<1>6. ChannelInv' BY <1>1 DEF ChannelInv
<1>7. PlaceInv' BY <1>1 DEF PlaceInv, Outstanding, InQueue
<1> QED BY <1>3, <1>4, <1>5, <1>6, <1>7

LEMMA MarkStep == ASSUME Inv, MarkStage \/ MarkEnd PROVE Inv'
<1> USE DEF Inv, clientVars
<1>1. PICK s \in Stages \cup Ends :
         /\ Mark(wjob, s)
         /\ wpc # "recv" /\ wpc' \notin {"recv", "check", "lease"}
         /\ wpc' = "release" => s \in Ends
         /\ lease
         /\ wpc' \in Labels
  BY DEF MarkStage, MarkEnd, Worker, Labels, Stages, TypeOK, WorkerInv
<1>2. UNCHANGED <<jobs, ctxDone, expired, queue, clientVars, wjob, wend, lease, provider>>
  BY DEF MarkStage, MarkEnd
<1>3. /\ wjob \in Ids /\ state[wjob] # "none"
      /\ \A j \in Ids : j # wjob => state'[j] = state[j]
      /\ state'[wjob] \in Stages \cup Ends
      /\ wpc' = "release" => state'[wjob] \in Ends
      /\ state' \in [Ids -> States]
  BY <1>1 DEF WorkerInv, TypeOK, Mark, Terminal, States
<1>4. TypeOK' BY <1>1, <1>2, <1>3 DEF TypeOK
<1>5. HandlerInv'
  BY <1>2, <1>3 DEF HandlerInv, TypeOK, Stages, Ends
<1>6. WorkerInv' BY <1>1, <1>2, <1>3 DEF WorkerInv, Terminal, Stages, Ends, TypeOK
<1>7. ChannelInv' BY <1>2, <1>3, ElementOfSeq DEF ChannelInv, TypeOK
<1>8. PlaceInv'
  <2>1. Outstanding(wjob)' => Outstanding(wjob)
    BY <1>1, <1>2, <1>3 DEF Mark, Outstanding, Terminal, TypeOK, States
  <2> QED BY <1>2, <1>3, <2>1 DEF PlaceInv, Outstanding, InQueue, TypeOK, Stages, Ends
<1> QED BY <1>4, <1>5, <1>6, <1>7, <1>8

LEMMA LetGoStep == ASSUME Inv, SkipCancelled \/ Release PROVE Inv'
<1> USE DEF Inv, Worker, clientVars, tableVars, SkipCancelled, Release
<1>1. /\ UNCHANGED <<jobs, state, expired, queue, clientVars, provider>>
      /\ wjob \in Ids /\ Terminal(wjob) /\ wjob' = NoJob /\ wpc' = "recv"
  BY DEF WorkerInv, TypeOK
<1>2. lease' = FALSE
  BY DEF WorkerInv
<1>3. \A j \in Ids : state[j] \notin Stages
  BY <1>1 DEF WorkerInv, Terminal, Stages, Ends
<1>4. TypeOK' BY <1>1, <1>2 DEF TypeOK, Labels, Ends
<1>5. HandlerInv' BY <1>1 DEF HandlerInv
<1>6. WorkerInv' BY <1>1, <1>2, <1>3 DEF WorkerInv
<1>7. ChannelInv'
  <2>1. \A i \in 1..Len(queue) : queue[i] # NoJob
    BY ElementOfSeq, JobsAssumption DEF TypeOK
  <2>2. \A c \in Clients : cpc[c] = "sending" => cjob[c] # NoJob
    BY DEF HandlerInv
  <2> QED BY <1>1, <2>1, <2>2 DEF ChannelInv
<1>8. PlaceInv'
  BY <1>1 DEF PlaceInv, Outstanding, InQueue, Terminal, Stages, Ends
<1> QED BY <1>4, <1>5, <1>6, <1>7, <1>8

-----------------------------------------------------------------------------
LEMMA InvStep == Inv /\ [Next]_vars => Inv'
<1> SUFFICES ASSUME Inv, [Next]_vars PROVE Inv'
  OBVIOUS
<1>1. ASSUME NEW c \in Clients, Build(c) \/ Reject(c) \/ Admit(c) \/ Send(c) PROVE Inv'
  BY <1>1, BuildStep, RejectStep, AdmitStep, SendStep
<1>2. CASE Poll BY <1>2, PollStep
<1>3. ASSUME NEW j \in Ids, Delete(j) \/ Expire(j) PROVE Inv'
  BY <1>3, DeleteStep, EnvironmentStep
<1>4. CASE WorkerStep
  BY <1>4, ReceiveStep, QuietStep, MarkStep, LetGoStep DEF WorkerStep
<1>5. CASE SwitchProvider BY <1>5, EnvironmentStep
<1>6. CASE UNCHANGED vars
  BY <1>6 DEF vars, Inv, TypeOK, HandlerInv, WorkerInv, ChannelInv, PlaceInv, Outstanding,
              InQueue, Terminal
<1> QED BY <1>1, <1>2, <1>3, <1>4, <1>5, <1>6 DEF Next

(* The queue's control structure: types, who owns jobsMu, what the worker  *)
(* holds and where every job is (llm_jobs.go:99-316).                      *)
THEOREM Control == Spec => []Inv
BY InvInit, InvStep, PTL DEF Spec

(* Every variable keeps its type, and the channel never holds more than    *)
(* maxLLMJobs jobs (llm_jobs.go:99-105).                                   *)
THEOREM Typing == Spec => []TypeOK
<1>1. Inv => TypeOK BY DEF Inv
<1> QED BY <1>1, Control, PTL

(* No accepted job is lost, and none is in two places (llm_jobs.go:287-316 *)
(* and 129-136).                                                           *)
THEOREM JobsAreNotLost == Spec => []NoJobLost
<1>1. Inv => NoJobLost
  <2> SUFFICES ASSUME Inv PROVE NoJobLost
    OBVIOUS
  <2> QED BY DEF Inv, ChannelInv, PlaceInv, NoJobLost, Sending, InQueue
<1> QED BY <1>1, Control, PTL

(* A job shown as loading, ready or generating is the one the worker runs  *)
(* under a lease (runJob, llm_jobs.go:138-218).                            *)
THEOREM StagesAreLeased == Spec => []StageIsLeased
<1>1. Inv => StageIsLeased BY DEF Inv, WorkerInv, StageIsLeased
<1> QED BY <1>1, Control, PTL

(* A terminal state is never overwritten (markJob and DELETE).             *)
THEOREM EndsAreFinal == Spec => EndIsFinal
<1>1. ASSUME Inv, [Next]_vars
      PROVE  [\A j \in Ids : Terminal(j) => state'[j] = state[j]]_vars
  <2> SUFFICES ASSUME Next, NEW j \in Ids, Terminal(j) PROVE state'[j] = state[j]
    BY <1>1
  <2>1. ASSUME NEW c \in Clients, Build(c) \/ Reject(c) \/ Admit(c) \/ Send(c)
        PROVE  state'[j] = state[j]
    BY <1>1, <2>1 DEF Build, Reject, Admit, Send, tableVars, Inv, HandlerInv, TypeOK, Terminal, Ends
  <2>2. ASSUME NEW i \in Ids, Delete(i) \/ Expire(i) PROVE state'[j] = state[j]
    BY <1>1, <2>2 DEF Delete, Expire, Inv, TypeOK
  <2>3. CASE WorkerStep
    <3>1. CASE MarkStage \/ MarkEnd
      BY <1>1, <3>1 DEF MarkStage, MarkEnd, Mark, Inv, TypeOK
    <3>2. CASE UNCHANGED state
      BY <3>2
    <3> QED BY <2>3, <3>1, <3>2 DEF WorkerStep, Receive, SkipCancelled, BeginRun, TakeLease,
               CheckProvider, EnsureReady, BuildRequest, Generate, StreamEnds, Verify, Release,
               tableVars
  <2>4. CASE Poll \/ SwitchProvider
    BY <2>4 DEF Poll, SwitchProvider, tableVars
  <2> QED BY <2>1, <2>2, <2>3, <2>4 DEF Next
<1> QED BY <1>1, Control, PTL DEF Spec, EndIsFinal

-----------------------------------------------------------------------------
(***************************************************************************)
(* The admission limit.  A handler counts the jobs it finds in the table;  *)
(* Inv says that these are all the jobs that exist.                        *)
(***************************************************************************)
OutstandingJobs == {j \in Ids : Outstanding(j)}

LEMMA NoOtherStepAdmits ==
    ASSUME Inv, [Next]_vars, \A c \in Clients : ~Admit(c)
    PROVE  \A j \in Ids : Outstanding(j)' => Outstanding(j)
<1> USE DEF Outstanding
<1>1. CASE UNCHANGED state BY <1>1
<1>2. ASSUME NEW i \in Ids, Delete(i)
      PROVE  \A j \in Ids : Outstanding(j)' => Outstanding(j)
  BY <1>2 DEF Delete, Inv, TypeOK, Stages
<1>3. CASE MarkStage \/ MarkEnd
  <2>1. \A s : Mark(wjob, s) => \A j \in Ids : Outstanding(j)' => Outstanding(j)
    <3>1. WorkerInv /\ TypeOK /\ wjob # NoJob
      BY <1>3 DEF MarkStage, MarkEnd, Worker, Inv, WorkerInv
    <3> QED BY <3>1 DEF Mark, Terminal, WorkerInv, TypeOK, States
  <2> QED BY <1>3, <2>1 DEF MarkStage, MarkEnd
<1>4. ASSUME NEW c \in Clients, Build(c) \/ Reject(c) \/ Send(c) PROVE UNCHANGED state
  BY <1>4 DEF Build, Reject, Send, tableVars
<1>5. CASE Poll \/ SwitchProvider \/ \E j \in Ids : Expire(j)
  BY <1>5 DEF Poll, SwitchProvider, Expire, tableVars
<1>6. CASE WorkerStep
  BY <1>3, <1>6 DEF WorkerStep, Receive, SkipCancelled, BeginRun, TakeLease, CheckProvider,
     EnsureReady, BuildRequest, Generate, StreamEnds, Verify, Release, tableVars
<1>7. CASE UNCHANGED vars BY <1>7 DEF vars
<1> QED BY <1>1, <1>2, <1>4, <1>5, <1>6, <1>7 DEF Next

LEMMA AdmitCounts ==
    ASSUME Inv, NEW c \in Clients, Admit(c) PROVE AtMostMaxJobs'
<1>1. OutstandingJobs' \subseteq Active \cup {cjob[c]}
  BY DEF OutstandingJobs, Active, Retained, Outstanding, Terminal, Admit, Inv, PlaceInv, TypeOK,
         Stages, Ends
<1>2. IsFiniteSet(Active)
  BY JobsAssumption, FS_Subset DEF Active, Retained, Inv, TypeOK
<1>3. /\ IsFiniteSet(Active \cup {cjob[c]})
      /\ Cardinality(Active) \in Nat
      /\ Cardinality(Active \cup {cjob[c]}) <= Cardinality(Active) + 1
  BY <1>2, FS_AddElement, FS_CardinalityType
<1>4. /\ Cardinality(OutstandingJobs') <= Cardinality(Active \cup {cjob[c]})
      /\ Cardinality(OutstandingJobs') \in Nat
      /\ Cardinality(Active \cup {cjob[c]}) \in Nat
  BY <1>1, <1>3, FS_Subset, FS_CardinalityType
<1>5. Cardinality(Active) < MaxJobs
  BY DEF Admit
<1>6. Cardinality(OutstandingJobs') <= MaxJobs
  BY <1>3, <1>4, <1>5, JobsAssumption
<1> QED BY <1>6 DEF AtMostMaxJobs, OutstandingJobs

(* At most maxLLMJobs jobs are outstanding, whatever the handlers and the  *)
(* worker do at the same time (llm_jobs.go:302-310).                       *)
THEOREM AtMostMaxJobsOutstanding == Spec => []AtMostMaxJobs
<1>1. Init => AtMostMaxJobs
  <2> SUFFICES ASSUME Init PROVE AtMostMaxJobs
    OBVIOUS
  <2>1. {j \in Ids : Outstanding(j)} = {}
    BY DEF Init, Outstanding, Stages
  <2> QED BY <2>1, FS_EmptySet, JobsAssumption DEF AtMostMaxJobs
<1>2. Inv /\ AtMostMaxJobs /\ [Next]_vars => AtMostMaxJobs'
  <2> SUFFICES ASSUME Inv, AtMostMaxJobs, [Next]_vars PROVE AtMostMaxJobs'
    OBVIOUS
  <2>1. ASSUME NEW c \in Clients, Admit(c) PROVE AtMostMaxJobs'
    BY <2>1, AdmitCounts
  <2>2. CASE \A c \in Clients : ~Admit(c)
    <3>1. OutstandingJobs' \subseteq OutstandingJobs
      BY <2>2, NoOtherStepAdmits DEF OutstandingJobs
    <3>2. IsFiniteSet(OutstandingJobs)
      BY JobsAssumption, FS_Subset DEF OutstandingJobs
    <3>3. /\ Cardinality(OutstandingJobs') <= Cardinality(OutstandingJobs)
          /\ Cardinality(OutstandingJobs') \in Nat /\ Cardinality(OutstandingJobs) \in Nat
      BY <3>1, <3>2, FS_Subset, FS_CardinalityType
    <3>4. Cardinality(OutstandingJobs) <= MaxJobs
      BY DEF AtMostMaxJobs, OutstandingJobs
    <3>5. Cardinality(OutstandingJobs') <= MaxJobs
      BY <3>3, <3>4, JobsAssumption
    <3> QED BY <3>5 DEF AtMostMaxJobs, OutstandingJobs
  <2> QED BY <2>1, <2>2
<1> QED BY <1>1, <1>2, Control, PTL DEF Spec

-----------------------------------------------------------------------------
(***************************************************************************)
(* Refinement.  The waiting line of JobService is what Keep leaves of one  *)
(* sequence, the places a job can be in: the worker's hands, the channel,  *)
(* the handler that still sends.  A job moves from place to place without  *)
(* changing the line; only admission, the first mark and a deletion do.    *)
(* One more fact is needed: a job the worker has marked once does not wait,*)
(* so that the end the worker marks is the end of a running job.           *)
(***************************************************************************)
StartedInv == wpc \notin {"recv", "check", "lease", "loading"} => state[wjob] # "queued"

LEMMA StartedStep == Inv /\ StartedInv /\ [Next]_vars => StartedInv'
<1> SUFFICES ASSUME Inv, StartedInv, [Next]_vars PROVE StartedInv'
  OBVIOUS
<1> USE DEF StartedInv
<1>1. CASE UNCHANGED <<state, wpc, wjob>> BY <1>1
<1>2. ASSUME NEW c \in Clients, Admit(c) PROVE StartedInv'
  <2>1. cjob[c] # wjob /\ UNCHANGED <<wpc, wjob>>
    BY <1>2, JobsAssumption DEF Admit, Inv, HandlerInv, WorkerInv, TypeOK, workerVars
  <2>2. state' = [state EXCEPT ![cjob[c]] = "queued"] BY <1>2 DEF Admit
  <2> QED BY <2>1, <2>2 DEF Inv, TypeOK
<1>3. ASSUME NEW j \in Ids, Delete(j) PROVE StartedInv'
  BY <1>3 DEF Delete, workerVars, Inv, TypeOK
<1>4. CASE MarkStage \/ MarkEnd
  <2>1. wjob' = wjob /\ wjob \in Ids BY <1>4 DEF MarkStage, MarkEnd, Worker, Inv, WorkerInv, TypeOK
  <2>2. \E s \in Stages \cup Ends : Mark(wjob, s)
    BY <1>4 DEF MarkStage, MarkEnd, Stages, Ends, Inv, TypeOK
  <2>3. state'[wjob] # "queued" BY <2>1, <2>2 DEF Mark, Terminal, Stages, Ends, Inv, TypeOK
  <2> QED BY <2>1, <2>3
<1>5. CASE Receive \/ SkipCancelled \/ BeginRun \/ TakeLease \/ Release
  BY <1>5 DEF Receive, SkipCancelled, BeginRun, TakeLease, Release, Worker
<1>6. CASE CheckProvider \/ EnsureReady \/ BuildRequest \/ Generate \/ StreamEnds \/ Verify
  <2>1. UNCHANGED <<state, wjob>> /\ wpc \notin {"recv", "check", "lease", "loading"}
    BY <1>6 DEF CheckProvider, EnsureReady, BuildRequest, Generate, StreamEnds, Verify, Worker, tableVars
  <2> QED BY <2>1
<1>7. CASE WorkerStep BY <1>4, <1>5, <1>6, <1>7 DEF WorkerStep
<1>8. ASSUME NEW c \in Clients, Build(c) \/ Reject(c) \/ Send(c) PROVE UNCHANGED <<state, wpc, wjob>>
  BY <1>8 DEF Build, Reject, Send, tableVars, workerVars
<1>9. CASE Poll \/ SwitchProvider \/ \E j \in Ids : Expire(j)
  BY <1>1, <1>9 DEF Poll, SwitchProvider, Expire, tableVars, workerVars
<1>10. CASE UNCHANGED vars BY <1>1, <1>10 DEF vars
<1> QED BY <1>1, <1>2, <1>3, <1>7, <1>8, <1>9, <1>10 DEF Next

-----------------------------------------------------------------------------
Holders == Ids \cup {NoJob}

Sent == IF jobsMu = NoOne THEN <<>> ELSE <<cjob[jobsMu]>>

LEMMA PlacesParts ==
    ASSUME Inv
    PROVE  /\ queue \in Seq(Holders) /\ <<wjob>> \in Seq(Holders) /\ Sent \in Seq(Holders)
           /\ <<wjob>> \o queue \in Seq(Holders) /\ queue \o Sent \in Seq(Holders)
           /\ Places \in Seq(Holders)
           /\ Places = (<<wjob>> \o queue) \o Sent /\ Places = <<wjob>> \o (queue \o Sent)
           /\ Waiting \subseteq Ids
<1>1. queue \in Seq(Holders)
  <2>1. queue \in Seq(Ids) /\ Ids \subseteq Holders BY DEF Inv, TypeOK, Holders
  <2> QED BY <2>1, SeqMonotonic
<1>2. <<wjob>> \in Seq(Holders)
  <2>1. wjob \in Holders BY DEF Inv, TypeOK, Holders
  <2> QED BY <2>1
<1>3. Sent \in Seq(Holders)
  <2>1. CASE jobsMu = NoOne BY <2>1, EmptySeq DEF Sent
  <2>2. CASE jobsMu # NoOne
    <3>1. cjob[jobsMu] \in Holders BY <2>2 DEF Inv, TypeOK, Holders
    <3> QED BY <2>2, <3>1 DEF Sent
  <2> QED BY <2>1, <2>2
<1>4. <<wjob>> \o queue \in Seq(Holders) /\ queue \o Sent \in Seq(Holders)
  BY <1>1, <1>2, <1>3, ConcatProperties
<1>5. Places = (<<wjob>> \o queue) \o Sent BY DEF Places, Sent
<1>6. (<<wjob>> \o queue) \o Sent = <<wjob>> \o (queue \o Sent)
  BY <1>1, <1>2, <1>3, ConcatAssociative
<1>7. Places \in Seq(Holders) BY <1>3, <1>4, <1>5, ConcatProperties
<1> QED BY <1>1, <1>2, <1>3, <1>4, <1>5, <1>6, <1>7 DEF Waiting

(* Nobody is in two places.                                                *)
LEMMA PlacesDistinct ==
    ASSUME Inv
    PROVE  /\ \A i, j \in 1..Len(Places) : Places[i] = Places[j] => i = j
           /\ \A i \in 1..Len(Places) :
                 Places[i] = wjob \/ InQueue(Places[i]) \/ (jobsMu # NoOne /\ Places[i] = cjob[jobsMu])
<1> DEFINE n == Len(queue)
<1>1. /\ n \in Nat /\ queue \in Seq(Holders) /\ <<wjob>> \in Seq(Holders) /\ Sent \in Seq(Holders)
      /\ <<wjob>> \o queue \in Seq(Holders) /\ Places = (<<wjob>> \o queue) \o Sent
  BY PlacesParts, LenProperties
<1>2. /\ Len(<<wjob>> \o queue) = 1 + n
      /\ \A i \in 1..(1 + n) : (<<wjob>> \o queue)[i] = IF i <= 1 THEN wjob ELSE queue[i - 1]
  <2>1. Len(<<wjob>>) = 1 /\ <<wjob>>[1] = wjob OBVIOUS
  <2>2. /\ Len(<<wjob>> \o queue) = Len(<<wjob>>) + n
        /\ \A i \in 1..(Len(<<wjob>>) + n) :
              (<<wjob>> \o queue)[i] = IF i <= Len(<<wjob>>) THEN <<wjob>>[i] ELSE queue[i - Len(<<wjob>>)]
    BY <1>1, ConcatProperties
  <2>3. \A i \in 1..(1 + n) : i <= 1 => i = 1 BY <1>1
  <2> QED BY <2>1, <2>2, <2>3
<1> DEFINE w == <<wjob>> \o queue
           m == Len(Sent)
<1>3. /\ Len(w \o Sent) = Len(w) + m /\ m \in Nat
      /\ \A i \in 1..(Len(w) + m) : (w \o Sent)[i] = IF i <= Len(w) THEN w[i] ELSE Sent[i - Len(w)]
  BY <1>1, ConcatProperties, LenProperties
<1>4. /\ m = IF jobsMu = NoOne THEN 0 ELSE 1
      /\ jobsMu # NoOne => Sent[1] = cjob[jobsMu]
  <2>1. CASE jobsMu = NoOne BY <2>1 DEF Sent
  <2>2. CASE jobsMu # NoOne BY <2>2 DEF Sent
  <2> QED BY <2>1, <2>2
<1> HIDE DEF w, m
<1>5. /\ Len(Places) = 1 + n + m
      /\ Places[1] = wjob
      /\ \A i \in 2..(1 + n) : Places[i] = queue[i - 1]
      /\ jobsMu # NoOne => Places[2 + n] = cjob[jobsMu]
  <2>1. Places = w \o Sent BY <1>1 DEF w
  <2>2. Len(w) = 1 + n /\ w[1] = wjob /\ \A i \in 2..(1 + n) : w[i] = queue[i - 1]
    <3>1. \A i \in 2..(1 + n) : i \in 1..(1 + n) /\ ~(i <= 1) BY <1>1
    <3>2. 1 \in 1..(1 + n) BY <1>1
    <3> QED BY <1>2, <3>1, <3>2 DEF w
  <2>3. \A i \in 1..(1 + n) : Places[i] = w[i] BY <1>1, <1>3, <2>1, <2>2
  <2>4. \A i \in 2..(1 + n) : i \in 1..(1 + n) BY <1>1
  <2>5. ASSUME jobsMu # NoOne PROVE Places[2 + n] = cjob[jobsMu]
    <3>1. m = 1 /\ 2 + n \in 1..(Len(w) + m) /\ ~(2 + n <= Len(w)) /\ (2 + n) - Len(w) = 1
      BY <1>1, <1>4, <2>2, <2>5
    <3> QED BY <1>3, <1>4, <2>1, <2>5, <3>1
  <2>6. 1 \in 1..(1 + n) BY <1>1
  <2> QED BY <1>1, <1>3, <2>1, <2>2, <2>3, <2>4, <2>5, <2>6
<1>6. /\ \A i \in 1..n : queue[i] # wjob
      /\ \A i, k \in 1..n : queue[i] = queue[k] => i = k
      /\ jobsMu # NoOne => cjob[jobsMu] # wjob /\ \A i \in 1..n : queue[i] # cjob[jobsMu]
  BY DEF Inv, ChannelInv, HandlerInv, TypeOK
<1>7. ASSUME NEW i \in 1..Len(Places)
      PROVE  i = 1 \/ i \in 2..(1 + n) \/ (jobsMu # NoOne /\ i = 2 + n)
  BY <1>1, <1>4, <1>5
<1>8. \A i \in 2..(1 + n) : i - 1 \in 1..n BY <1>1
<1>9. ASSUME NEW i \in 1..Len(Places), NEW j \in 1..Len(Places), Places[i] = Places[j] PROVE i = j
  <2>1. CASE i = 1 BY <1>5, <1>6, <1>7, <1>8, <1>9, <2>1
  <2>2. CASE i \in 2..(1 + n)
    <3>1. Places[i] = queue[i - 1] /\ i - 1 \in 1..n BY <1>5, <1>8, <2>2
    <3>2. CASE j \in 2..(1 + n)
      <4>1. Places[j] = queue[j - 1] /\ j - 1 \in 1..n BY <1>5, <1>8, <3>2
      <4>2. i - 1 = j - 1 BY <1>6, <1>9, <3>1, <4>1
      <4> QED BY <4>2
    <3> QED BY <1>5, <1>6, <1>7, <1>9, <3>1, <3>2
  <2>3. CASE jobsMu # NoOne /\ i = 2 + n BY <1>5, <1>6, <1>7, <1>8, <1>9, <2>3
  <2> QED BY <1>7, <2>1, <2>2, <2>3
<1>10. ASSUME NEW i \in 1..Len(Places)
       PROVE  Places[i] = wjob \/ InQueue(Places[i]) \/ (jobsMu # NoOne /\ Places[i] = cjob[jobsMu])
  <2>1. CASE i \in 2..(1 + n)
    <3>1. Places[i] = queue[i - 1] /\ i - 1 \in 1..Len(queue) BY <1>5, <1>8, <2>1
    <3> QED BY <3>1 DEF InQueue
  <2> QED BY <1>5, <1>7, <2>1
<1> QED BY <1>9, <1>10

LEMMA LineParts ==
    ASSUME Inv
    PROVE  /\ Line \in Seq(Holders) /\ Len(Line) \in Nat
           /\ \A i, j \in 1..Len(Line) : Line[i] = Line[j] => i = j
           /\ \A i \in 1..Len(Line) : Line[i] \in Waiting
           /\ wjob \in Waiting => Line = <<wjob>> \o Keep(queue \o Sent, Waiting)
           /\ wjob \notin Waiting => Line = Keep(queue \o Sent, Waiting)
<1>1. Places \in Seq(Holders) BY PlacesParts
<1>2. Line \in Seq(Holders) /\ Len(Line) \in Nat BY <1>1, KeepType, LenProperties DEF Line
<1>3. \A i, j \in 1..Len(Line) : Line[i] = Line[j] => i = j
  BY <1>1, PlacesDistinct, KeepDistinct DEF Line
<1>4. \A i \in 1..Len(Line) : Line[i] \in Waiting BY <1>1, KeepMembers DEF Line
<1>5. /\ <<wjob>> \in Seq(Holders) /\ queue \o Sent \in Seq(Holders)
      /\ Places = <<wjob>> \o (queue \o Sent)
  BY PlacesParts
<1>6. Line = Keep(<<wjob>>, Waiting) \o Keep(queue \o Sent, Waiting)
  <2>1. \A a, b \in Seq(Holders) : Keep(a \o b, Waiting) = Keep(a, Waiting) \o Keep(b, Waiting)
    BY KeepConcat
  <2>2. Keep(<<wjob>> \o (queue \o Sent), Waiting) = Keep(<<wjob>>, Waiting) \o Keep(queue \o Sent, Waiting)
    BY <1>5, <2>1
  <2> QED BY <1>5, <2>2 DEF Line
<1>7. Keep(<<wjob>>, Waiting) = IF wjob \in Waiting THEN <<wjob>> ELSE <<>> BY KeepOne
<1>8. <<>> \o Keep(queue \o Sent, Waiting) = Keep(queue \o Sent, Waiting)
  BY <1>5, KeepType, ConcatEmptySeq
<1> QED BY <1>2, <1>3, <1>4, <1>6, <1>7, <1>8

LEMMA Cons ==
    ASSUME NEW X, NEW x \in X, NEW s \in Seq(X)
    PROVE  /\ <<x>> \o s \in Seq(X) /\ <<x>> \o s # <<>>
           /\ Len(<<x>> \o s) = Len(s) + 1 /\ (<<x>> \o s)[1] = x
           /\ \A i \in 1..Len(s) : (<<x>> \o s)[i + 1] = s[i]
           /\ Head(<<x>> \o s) = x /\ Tail(<<x>> \o s) = s
<1>1. <<x>> \in Seq(X) /\ Len(<<x>>) = 1 /\ <<x>>[1] = x OBVIOUS
<1>2. /\ <<x>> \o s \in Seq(X) /\ Len(s) \in Nat
      /\ Len(<<x>> \o s) = Len(<<x>>) + Len(s)
      /\ \A i \in 1..(Len(<<x>>) + Len(s)) :
            (<<x>> \o s)[i] = IF i <= Len(<<x>>) THEN <<x>>[i] ELSE s[i - Len(<<x>>)]
  BY <1>1, ConcatProperties, LenProperties
<1> DEFINE t == <<x>> \o s
<1>3. t \in Seq(X) /\ Len(t) = Len(s) + 1 /\ t[1] = x
  <2>1. 1 \in 1..(Len(<<x>>) + Len(s)) BY <1>1, <1>2
  <2> QED BY <1>1, <1>2, <2>1
<1>4. ASSUME NEW i \in 1..Len(s) PROVE t[i + 1] = s[i]
  <2>1. i + 1 \in 1..(Len(<<x>>) + Len(s)) /\ ~(i + 1 <= Len(<<x>>)) /\ (i + 1) - Len(<<x>>) = i
    BY <1>1, <1>2
  <2> QED BY <1>2, <2>1
<1> HIDE DEF t
<1>5. t # <<>> BY <1>2, <1>3, EmptySeq
<1>6. /\ Tail(t) \in Seq(X) /\ Len(Tail(t)) = Len(t) - 1
      /\ \A i \in 1..Len(Tail(t)) : Tail(t)[i] = t[i + 1]
  BY <1>3, <1>5, HeadTailProperties
<1>7. Len(Tail(t)) = Len(s) BY <1>2, <1>3, <1>6
<1>8. Tail(t) = s BY <1>4, <1>6, <1>7, SeqEqual
<1>9. Head(t) = x BY <1>3
<1> QED BY <1>2, <1>3, <1>4, <1>5, <1>8, <1>9 DEF t

Rest == queue \o Sent

LEMMA RestIsOther ==
    ASSUME Inv PROVE Rest \in Seq(Holders) /\ \A i \in 1..Len(Rest) : Rest[i] # wjob
<1>1. Rest \in Seq(Holders) /\ wjob \in Holders /\ Places = <<wjob>> \o Rest
  BY PlacesParts DEF Rest, Inv, TypeOK, Holders
<1>2. /\ Len(Rest) \in Nat /\ Len(Places) = Len(Rest) + 1 /\ Places[1] = wjob
      /\ \A i \in 1..Len(Rest) : Places[i + 1] = Rest[i]
  BY <1>1, Cons, LenProperties
<1>3. ASSUME NEW i \in 1..Len(Rest) PROVE Rest[i] # wjob
  <2>1. 1 \in 1..Len(Places) /\ i + 1 \in 1..Len(Places) /\ i + 1 # 1 BY <1>2
  <2> QED BY <1>2, <2>1, PlacesDistinct
<1> QED BY <1>1, <1>3

SameService == UNCHANGED <<Line, Current, Outcome>>

LineForm ==
    /\ wjob \in Waiting => Line = <<wjob>> \o Keep(Rest, Waiting)
    /\ wjob \notin Waiting => Line = Keep(Rest, Waiting)

LEMMA LineFormHolds == Inv => LineForm
BY LineParts DEF LineForm, Rest

LEMMA NextLineForm == Inv' => LineForm'
BY LineFormHolds, PTL

LEMMA LineFromRest ==
    ASSUME Inv, Inv', UNCHANGED state, Rest' = Rest, wjob' = wjob \/ (wjob \notin Waiting /\ wjob' \notin Waiting)
    PROVE  Line' = Line
<1>1. Waiting' = Waiting BY DEF Waiting
<1>2. /\ wjob \in Waiting => Line = <<wjob>> \o Keep(Rest, Waiting)
      /\ wjob \notin Waiting => Line = Keep(Rest, Waiting)
  BY LineFormHolds DEF LineForm
<1>3. (/\ wjob \in Waiting => Line = <<wjob>> \o Keep(Rest, Waiting)
       /\ wjob \notin Waiting => Line = Keep(Rest, Waiting))'
  BY NextLineForm DEF LineForm
<1> QED BY <1>1, <1>2, <1>3
LEMMA QuietService ==
    ASSUME Inv, UNCHANGED <<state, queue, wjob, jobsMu>>, jobsMu # NoOne => cjob'[jobsMu] = cjob[jobsMu]
    PROVE  SameService
BY DEF SameService, Line, Places, Waiting, Current, Outcome

(* Places and no more jobs than the handler counts.                        *)
LEMMA LineIsCounted ==
    ASSUME Inv
    PROVE  /\ Cardinality(Active) \in Nat /\ Service!Outstanding \in Nat
           /\ Service!Outstanding <= Cardinality(Active)
<1>1. Waiting \subseteq Active /\ (Current # NoJob => Current \in Active \ Waiting)
  BY DEF Inv, PlaceInv, WorkerInv, TypeOK, Waiting, Active, Retained, Outstanding, Terminal, Current,
         Stages, Ends
<1>2. IsFiniteSet(Active)
  BY JobsAssumption, FS_Subset DEF Active, Retained, Inv, TypeOK
<1>3. IsFiniteSet(Waiting) /\ Cardinality(Waiting) \in Nat /\ Cardinality(Active) \in Nat
  BY <1>1, <1>2, FS_Subset, FS_CardinalityType
<1>4. Len(Line) <= Cardinality(Waiting)
  <2> DEFINE f == [i \in 1..Len(Line) |-> Line[i]]
  <2>1. f \in Injection(1..Len(Line), Waiting) BY LineParts DEF Injection, IsInjective
  <2>2. Cardinality(1..Len(Line)) <= Cardinality(Waiting) BY <1>3, <2>1, FS_Injection
  <2>3. Len(Line) \in Nat BY LineParts
  <2>4. Cardinality(1..Len(Line)) = Len(Line)
    <3>1. \A n \in Nat : Cardinality(1..n) = IF 1 > n THEN 0 ELSE n - 1 + 1 BY FS_Interval
    <3> QED BY <2>3, <3>1
  <2> QED BY <2>2, <2>4
<1>5. Len(Line) \in Nat BY LineParts
<1>6. CASE Current = NoJob
  <2>1. Cardinality(Waiting) <= Cardinality(Active) BY <1>1, <1>2, FS_Subset
  <2> QED BY <1>3, <1>4, <1>5, <1>6, <2>1 DEF Service!Outstanding
<1>7. CASE Current # NoJob
  <2>1. /\ IsFiniteSet(Waiting \cup {Current})
        /\ Cardinality(Waiting \cup {Current}) = Cardinality(Waiting) + 1
    BY <1>1, <1>3, <1>7, FS_AddElement
  <2>2. Cardinality(Waiting \cup {Current}) <= Cardinality(Active) BY <1>1, <1>2, <1>7, FS_Subset
  <2> QED BY <1>3, <1>4, <1>5, <1>7, <2>1, <2>2 DEF Service!Outstanding
<1> QED BY <1>3, <1>6, <1>7

-----------------------------------------------------------------------------
(* Each step of the queue is a step of the service or none.                *)
LEMMA AdmitIsSubmit ==
    ASSUME Inv, Inv', NEW c \in Clients, Admit(c) PROVE Service!Submit(cjob[c])
<1> DEFINE j == cjob[c]
<1>1. /\ j \in Ids /\ state[j] = "none" /\ jobsMu = NoOne /\ cpc[c] = "built"
      /\ wjob # j /\ ~InQueue(j) /\ wjob' = wjob
  BY JobsAssumption
  DEF Admit, Inv, HandlerInv, ChannelInv, WorkerInv, TypeOK, InQueue, Unlocked, workerVars
<1>2. state' = [state EXCEPT ![j] = "queued"] /\ Cardinality(Active) < MaxJobs BY DEF Admit
<1>3. Waiting' = Waiting \cup {j} /\ j \notin Waiting
  BY <1>1, <1>2 DEF Waiting, Inv, TypeOK
<1>4. /\ queue \in Seq(Holders) /\ <<wjob>> \in Seq(Holders) /\ <<wjob>> \o queue \in Seq(Holders)
      /\ Places = (<<wjob>> \o queue) \o Sent /\ Places \in Seq(Holders) /\ j \in Holders
  BY <1>1, PlacesParts DEF Holders
<1>5. Places' = Append(Places, j)
  <2>1. Sent = <<>> BY <1>1 DEF Sent
  <2>2. Places = <<wjob>> \o queue BY <1>4, <2>1, ConcatEmptySeq
  <2>3. CASE queue' = Append(queue, j) /\ jobsMu' = jobsMu
    <3>1. Append(queue, j) = queue \o <<j>> BY <1>4, AppendIsConcat
    <3>2. <<j>> \in Seq(Holders) BY <1>4
    <3>3. <<wjob>> \o (queue \o <<j>>) = (<<wjob>> \o queue) \o <<j>>
      BY <1>4, <3>2, ConcatAssociative
    <3>4. Append(<<wjob>> \o queue, j) = (<<wjob>> \o queue) \o <<j>> BY <1>4, AppendIsConcat
    <3>5. <<wjob>> \o Append(queue, j) = Append(Places, j) BY <2>2, <3>1, <3>3, <3>4
    <3>6. Places' = (<<wjob>> \o Append(queue, j)) \o <<>> BY <1>1, <2>3 DEF Places
    <3>7. Append(Places, j) \in Seq(Holders) BY <1>4, AppendProperties
    <3> QED BY <3>5, <3>6, <3>7, ConcatEmptySeq
  <2>4. CASE queue' = queue /\ jobsMu' = c /\ cjob' = cjob
    <3>1. Places' = (<<wjob>> \o queue) \o <<j>> BY <1>1, <2>4, JobsAssumption DEF Places
    <3>2. Append(<<wjob>> \o queue, j) = (<<wjob>> \o queue) \o <<j>> BY <1>4, AppendIsConcat
    <3> QED BY <2>2, <3>1, <3>2
  <2> QED BY <2>3, <2>4 DEF Admit
<1>6. Line' = Append(Line, j)
  <2>1. \A i \in 1..Len(Places) : Places[i] # j BY <1>1, PlacesDistinct
  <2>2. \A i \in 1..Len(Places) : Places[i] \in Waiting <=> Places[i] \in Waiting \cup {j} BY <2>1
  <2>3. Keep(Places, Waiting) = Keep(Places, Waiting \cup {j}) BY <1>4, <2>2, KeepSame
  <2>4. Keep(Append(Places, j), Waiting \cup {j}) = Append(Keep(Places, Waiting \cup {j}), j)
    <3>1. j \in Waiting \cup {j} OBVIOUS
    <3>2. \A q \in Seq(Holders), x \in Holders : \A S :
             x \in S => Keep(Append(q, x), S) = Append(Keep(q, S), x)
      BY KeepAppend
    <3> QED BY <1>4, <3>1, <3>2
  <2> QED BY <1>3, <1>5, <2>3, <2>4 DEF Line
<1>7. Outcome[j] = "unknown" /\ Outcome' = [Outcome EXCEPT ![j] = "waiting"]
  BY <1>1, <1>2 DEF Outcome, Inv, TypeOK
<1>8. Current' = Current
  BY <1>1, <1>2 DEF Current, Inv, TypeOK, Stages
<1>9. Service!Outstanding < MaxJobs
  BY <1>2, LineIsCounted, JobsAssumption
<1> QED BY <1>6, <1>7, <1>8, <1>9 DEF Service!Submit

LEMMA SendIsQuiet == ASSUME Inv, Inv', NEW c \in Clients, Send(c) PROVE SameService
<1>1. /\ cjob[c] \in Holders /\ jobsMu = c /\ jobsMu # NoOne
      /\ queue' = Append(queue, cjob[c]) /\ jobsMu' = NoOne
      /\ UNCHANGED <<state, wjob>>
  BY JobsAssumption DEF Send, Inv, HandlerInv, TypeOK, Holders, tableVars, workerVars
<1>2. queue \in Seq(Holders) BY PlacesParts
<1>3. Sent = <<cjob[c]>> /\ Sent' = <<>> BY <1>1 DEF Sent
<1>4. /\ Append(queue, cjob[c]) = queue \o <<cjob[c]>>
      /\ Append(queue, cjob[c]) \in Seq(Holders)
  BY <1>1, <1>2, AppendIsConcat, AppendProperties
<1>5. Rest' = Rest BY <1>1, <1>3, <1>4, ConcatEmptySeq DEF Rest
<1>6. Line' = Line BY <1>1, <1>5, LineFromRest
<1> QED BY <1>1, <1>6 DEF SameService, Current, Outcome

(* JobService is instantiated with its own copy of Keep.                   *)
LEMMA ServiceKeep == ASSUME NEW q, NEW S PROVE Service!Keep(q, S) = Keep(q, S)
BY DEF Service!Keep, Keep

LEMMA DeleteIsServed ==
    ASSUME Inv, NEW j \in Ids, Delete(j)
    PROVE  Service!Withdraw(j) \/ Service!Finish("cancelled")
<1>1. /\ state' = [state EXCEPT ![j] = "cancelled"] /\ Outstanding(j)
      /\ UNCHANGED <<queue, jobsMu, cjob, wjob>>
  BY DEF Delete, Inv, PlaceInv, Retained, TypeOK, Outstanding, Terminal, States, clientVars, workerVars
<1>2. Places' = Places BY <1>1 DEF Places
<1>3. Outcome' = [Outcome EXCEPT ![j] = "cancelled"]
  BY <1>1 DEF Outcome, Inv, TypeOK, Stages
<1>4. CASE state[j] = "queued"
  <2>1. Waiting' = Waiting \ {j} BY <1>1 DEF Waiting, Inv, TypeOK
  <2>2. Waiting \cap (Ids \ {j}) = Waiting \ {j} BY DEF Waiting
  <2>3. Keep(Keep(Places, Waiting), Ids \ {j}) = Keep(Places, Waiting \cap (Ids \ {j}))
    <3>1. \A q \in Seq(Holders) : Keep(Keep(q, Waiting), Ids \ {j}) = Keep(q, Waiting \cap (Ids \ {j}))
      BY KeepKeep
    <3> QED BY <3>1, PlacesParts
  <2>4. Line' = Service!Keep(Line, Ids \ {j})
    BY <1>2, <2>1, <2>2, <2>3, ServiceKeep DEF Line
  <2>5. Current' = Current BY <1>1, <1>4 DEF Current, Inv, TypeOK, Stages
  <2>6. Outcome[j] = "waiting" BY <1>4 DEF Outcome
  <2> QED BY <1>3, <2>4, <2>5, <2>6 DEF Service!Withdraw
<1>5. CASE state[j] \in Stages
  <2>1. wjob = j /\ j # NoJob BY <1>5, JobsAssumption DEF Inv, WorkerInv
  <2>2. Current = j /\ Current' = NoJob
    BY <1>1, <1>5, <2>1 DEF Current, Inv, TypeOK, Stages
  <2>3. Waiting' = Waiting BY <1>1, <1>5 DEF Waiting, Stages, Inv, TypeOK
  <2>4. Line' = Line BY <1>2, <2>3 DEF Line
  <2> QED BY <1>3, <2>1, <2>2, <2>4 DEF Service!Finish
<1> QED BY <1>1, <1>4, <1>5 DEF Outstanding

LEMMA ReceiveIsQuiet == ASSUME Inv, Inv', Receive PROVE SameService
<1>1. /\ wjob = NoJob /\ queue # <<>> /\ wjob' = Head(queue) /\ queue' = Tail(queue)
      /\ UNCHANGED <<state, jobsMu, cjob>>
  BY DEF Receive, Worker, Inv, WorkerInv, tableVars, clientVars
<1>2. queue \in Seq(Ids) BY DEF Inv, TypeOK
<1>3. /\ Head(queue) \in Ids /\ Tail(queue) \in Seq(Ids) /\ Head(queue) = queue[1]
      /\ Len(queue) \in Nat \ {0} /\ Len(Tail(queue)) = Len(queue) - 1
      /\ \A i \in 1..Len(Tail(queue)) : Tail(queue)[i] = queue[i + 1]
  BY <1>1, <1>2, HeadTailProperties, EmptySeq
<1> DEFINE t == <<Head(queue)>> \o Tail(queue)
<1>4. /\ t \in Seq(Ids) /\ Len(t) = Len(Tail(queue)) + 1 /\ t[1] = Head(queue)
      /\ \A i \in 1..Len(Tail(queue)) : t[i + 1] = Tail(queue)[i]
  BY <1>3, Cons
<1> HIDE DEF t
<1>5. queue = t
  <2>1. Len(t) = Len(queue) BY <1>3, <1>4
  <2>2. ASSUME NEW i \in 1..Len(queue) PROVE queue[i] = t[i]
    <3>1. CASE i = 1 BY <1>3, <1>4, <3>1
    <3>2. CASE i # 1
      <4>1. i - 1 \in 1..Len(Tail(queue)) /\ (i - 1) + 1 = i BY <1>3, <3>2
      <4> QED BY <1>3, <1>4, <4>1
    <3> QED BY <3>1, <3>2
  <2> QED BY <1>2, <1>4, <2>1, <2>2, SeqEqual
<1>6. Sent' = Sent BY <1>1 DEF Sent
<1>7. Waiting' = Waiting /\ wjob \notin Waiting
  BY <1>1, JobsAssumption DEF Waiting
<1>8. Places' = Rest
  BY <1>1, <1>5, <1>6 DEF Places, Rest, Sent, t
<1>9. Line = Keep(Rest, Waiting) BY <1>7, LineFormHolds DEF LineForm
<1>10. Line' = Line BY <1>7, <1>8, <1>9 DEF Line
<1>11. state[Head(queue)] \notin Stages
  <2>1. Head(queue) # NoJob BY <1>3, JobsAssumption
  <2> QED BY <1>1, <1>3, <2>1 DEF Inv, WorkerInv
<1>12. Current' = Current BY <1>1, <1>11 DEF Current
<1> QED BY <1>1, <1>10, <1>12 DEF SameService, Outcome

LEMMA LetGoIsQuiet == ASSUME Inv, Inv', SkipCancelled \/ Release PROVE SameService
<1>1. /\ Terminal(wjob) /\ wjob' = NoJob /\ UNCHANGED <<state, queue, jobsMu, cjob>>
  BY DEF SkipCancelled, Release, Worker, Inv, WorkerInv, tableVars, clientVars
<1>2. wjob \notin Waiting /\ wjob' \notin Waiting
  BY <1>1, JobsAssumption DEF Waiting, Terminal, Ends
<1>3. Rest' = Rest BY <1>1 DEF Rest, Sent
<1>4. Line' = Line BY <1>1, <1>2, <1>3, LineFromRest
<1>5. Current' = Current BY <1>1 DEF Current, Terminal, Ends, Stages
<1> QED BY <1>1, <1>4, <1>5 DEF SameService, Outcome

LEMMA MarkIsServed ==
    ASSUME Inv, Inv', StartedInv, MarkStage \/ MarkEnd
    PROVE  SameService \/ Service!Start \/ \E end \in Ends : Service!Finish(end)
<1>1. /\ wjob \in Ids /\ wjob # NoJob /\ state[wjob] # "none"
      /\ UNCHANGED <<queue, jobsMu, cjob, wjob>>
  BY JobsAssumption DEF MarkStage, MarkEnd, Worker, Inv, WorkerInv, TypeOK, clientVars
<1>2. CASE Terminal(wjob)
  <2>1. UNCHANGED state BY <1>2 DEF MarkStage, MarkEnd, Mark
  <2> QED BY <1>1, <2>1, QuietService
<1>3. CASE ~Terminal(wjob) /\ MarkStage
  <2>1. PICK s \in Stages : state' = [state EXCEPT ![wjob] = s]
    BY <1>3 DEF MarkStage, Mark, Stages
  <2>2. Current' = wjob BY <1>1, <2>1 DEF Current, Inv, TypeOK
  <2>3. CASE state[wjob] = "queued"
    <3>1. wjob \in Waiting /\ Waiting' = Waiting \ {wjob}
      BY <1>1, <2>1, <2>3 DEF Waiting, Inv, TypeOK, Stages
    <3>2. Line = <<wjob>> \o Keep(Rest, Waiting) BY <3>1, LineFormHolds DEF LineForm
    <3>3. Rest \in Seq(Holders) /\ \A i \in 1..Len(Rest) : Rest[i] # wjob BY RestIsOther
    <3>4. \A i \in 1..Len(Rest) : Rest[i] \in Waiting <=> Rest[i] \in Waiting \ {wjob} BY <3>3
    <3>5. Keep(Rest, Waiting) = Keep(Rest, Waiting \ {wjob}) BY <3>3, <3>4, KeepSame
    <3>6. Rest' = Rest BY <1>1 DEF Rest, Sent
    <3>7. Line' = Keep(Rest, Waiting) BY <1>1, <3>1, <3>5, <3>6, NextLineForm DEF LineForm
    <3>8. Keep(Rest, Waiting) \in Seq(Holders) /\ wjob \in Holders
      BY <1>1, <3>3, KeepType DEF Holders
    <3>9. Line # <<>> /\ Head(Line) = wjob /\ Tail(Line) = Keep(Rest, Waiting)
      BY <3>2, <3>8, Cons
    <3>10. Current = NoJob BY <2>3 DEF Current, Stages
    <3>11. Outcome' = [Outcome EXCEPT ![wjob] = "running"]
      BY <1>1, <2>1 DEF Outcome, Inv, TypeOK, Stages
    <3> QED BY <2>2, <3>7, <3>9, <3>10, <3>11 DEF Service!Start
  <2>4. CASE state[wjob] # "queued"
    <3>1. state[wjob] \in Stages BY <1>1, <1>3, <2>4 DEF Terminal, Inv, TypeOK, States
    <3>2. Waiting' = Waiting BY <2>1, <3>1 DEF Waiting, Inv, TypeOK, Stages
    <3>3. Line' = Line BY <1>1, <3>2 DEF Line, Places
    <3>4. Current = wjob BY <1>1, <3>1 DEF Current
    <3>5. Outcome' = Outcome BY <2>1, <3>1 DEF Outcome, Inv, TypeOK, Stages
    <3> QED BY <2>2, <3>3, <3>4, <3>5 DEF SameService
  <2> QED BY <2>3, <2>4
<1>4. CASE ~Terminal(wjob) /\ MarkEnd
  <2>1. state' = [state EXCEPT ![wjob] = wend] /\ wend \in Ends /\ wpc = "end"
    BY <1>4 DEF MarkEnd, Mark, Worker, Inv, TypeOK
  <2>2. state[wjob] \in Stages
    BY <1>1, <1>4, <2>1 DEF StartedInv, Terminal, Inv, TypeOK, States
  <2>3. Waiting' = Waiting BY <2>1, <2>2 DEF Waiting, Inv, TypeOK, Stages, Ends
  <2>4. Line' = Line BY <1>1, <2>3 DEF Line, Places
  <2>5. Current = wjob /\ Current' = NoJob
    BY <1>1, <2>1, <2>2 DEF Current, Inv, TypeOK, Stages, Ends
  <2>6. Outcome' = [Outcome EXCEPT ![wjob] = wend]
    BY <1>1, <2>1 DEF Outcome, Inv, TypeOK, Stages, Ends
  <2> QED BY <1>1, <2>1, <2>4, <2>5, <2>6 DEF Service!Finish
<1> QED BY <1>2, <1>3, <1>4

LEMMA StepIsServed ==
    ASSUME Inv, Inv', StartedInv, [Next]_vars
    PROVE  [Service!Next]_<<Line, Current, Outcome>>
<1> USE DEF Service!Next, Service!Ends, Ends
<1>1. CASE SameService BY <1>1 DEF SameService
<1>2. ASSUME NEW c \in Clients, Build(c) \/ Reject(c) PROVE SameService
  <2>1. UNCHANGED <<state, queue, wjob, jobsMu>>
    BY <1>2 DEF Build, Reject, tableVars, workerVars
  <2>2. jobsMu # NoOne => jobsMu # c /\ jobsMu \in Clients
    BY <1>2 DEF Build, Reject, Unlocked, Inv, HandlerInv, TypeOK
  <2>3. \A d \in Clients \ {c} : cjob'[d] = cjob[d]
    BY <1>2 DEF Build, Reject, Leave, Inv, TypeOK
  <2> QED BY <2>1, <2>2, <2>3, QuietService
<1>3. ASSUME NEW c \in Clients, Admit(c) PROVE \E j \in Ids : Service!Submit(j)
  <2>1. cjob[c] \in Ids BY <1>3 DEF Admit, Inv, HandlerInv, TypeOK
  <2> QED BY <1>3, <2>1, AdmitIsSubmit
<1>4. ASSUME NEW c \in Clients, Send(c) PROVE SameService BY <1>4, SendIsQuiet
<1>5. CASE Poll \/ SwitchProvider \/ \E j \in Ids : Expire(j)
  <2>1. UNCHANGED <<state, queue, wjob, jobsMu, cjob>>
    BY <1>5 DEF Poll, SwitchProvider, Expire, tableVars, clientVars, workerVars
  <2> QED BY <1>1, <2>1, QuietService
<1>6. ASSUME NEW j \in Ids, Delete(j)
      PROVE  (\E i \in Ids : Service!Withdraw(i)) \/ \E end \in Service!Ends : Service!Finish(end)
  BY <1>6, DeleteIsServed
<1>7. CASE BeginRun \/ TakeLease \/ CheckProvider \/ EnsureReady \/ BuildRequest \/ Generate
             \/ StreamEnds \/ Verify
  <2>1. UNCHANGED <<state, queue, wjob, jobsMu, cjob>>
    BY <1>7 DEF BeginRun, TakeLease, CheckProvider, EnsureReady, BuildRequest, Generate, StreamEnds,
                Verify, tableVars, clientVars
  <2> QED BY <1>1, <2>1, QuietService
<1>8. CASE Receive BY <1>1, <1>8, ReceiveIsQuiet
<1>9. CASE SkipCancelled \/ Release BY <1>1, <1>9, LetGoIsQuiet
<1>10. CASE MarkStage \/ MarkEnd BY <1>1, <1>10, MarkIsServed
<1>11. CASE WorkerStep BY <1>7, <1>8, <1>9, <1>10, <1>11 DEF WorkerStep
<1>12. CASE UNCHANGED vars
  <2>1. UNCHANGED <<state, queue, wjob, jobsMu, cjob>> BY <1>12 DEF vars
  <2> QED BY <1>1, <2>1, QuietService
<1> QED BY <1>1, <1>2, <1>3, <1>4, <1>5, <1>6, <1>11, <1>12 DEF Next

(* The job queue of llm_jobs.go keeps the promise of the job API: jobs are *)
(* served one at a time in the order they were accepted, no more than      *)
(* maxLLMJobs are outstanding, and each ends once.                         *)
THEOREM QueueServes == Spec => ImplementsJobService
<1>1. Init => Service!Init /\ StartedInv
  <2> SUFFICES ASSUME Init PROVE Service!Init /\ StartedInv OBVIOUS
  <2>1. Waiting = {} /\ Current = NoJob /\ Outcome = [j \in Ids |-> "unknown"]
    BY DEF Init, Waiting, Current, Outcome
  <2>2. Inv BY InvInit
  <2>3. Len(Line) = 0
    <3>1. Len(Line) \in Nat /\ \A i \in 1..Len(Line) : Line[i] \in Waiting BY <2>2, LineParts
    <3>2. Len(Line) # 0 => 1 \in 1..Len(Line) BY <3>1
    <3> QED BY <2>1, <3>1, <3>2
  <2>4. Line = <<>> BY <2>2, <2>3, LineParts, EmptySeq
  <2> QED BY <2>1, <2>4 DEF Service!Init, StartedInv, Init
<1>2. Inv /\ Inv' /\ StartedInv /\ [Next]_vars => [Service!Next]_<<Line, Current, Outcome>>
  BY StepIsServed
<1>3. Spec => [](Inv /\ StartedInv)
  BY InvInit, InvStep, StartedStep, <1>1, PTL DEF Spec
<1>4. Spec => Service!Init /\ [][Service!Next]_<<Line, Current, Outcome>>
  BY <1>1, <1>2, <1>3, PTL DEF Spec
<1> QED BY <1>4 DEF ImplementsJobService, Service!Spec, Service!serviceVars
=============================================================================
