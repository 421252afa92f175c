---------------------------- MODULE ServiceProofs ----------------------------
(***************************************************************************)
(* Proofs about Service, for every number of handlers, updaters, worker    *)
(* processes, calls and crashes.                                           *)
(***************************************************************************)
EXTENDS Service, TLAPS

Recs == [st : {"free", "built", "live", "dead"}, told : BOOLEAN, old : BOOLEAN,
         conf : Settings, missed : BOOLEAN, misled : BOOLEAN]

(***************************************************************************)
(* The inductive invariant.  Whoever is between the two ends of            *)
(* startVoiceWorker holds startMu and there is no command; a hand is full  *)
(* exactly where the code has a local copy of a command; main is where the *)
(* state of the program says.                                              *)
(***************************************************************************)
CtlInv ==
    /\ \A t \in Threads : pc[t] \in {"build", "launch", "publish"} => startMu = t /\ cmd = NoProc
    /\ \A t \in Threads : hand[t] \in Procs <=> pc[t] \in {"launch", "publish", "term", "wait"}
    /\ pc[Main] \in {"idle", "take", "term", "wait", "backend", "drain"}
    /\ prog = "on" => pc[Main] = "idle"
    /\ prog = "off" => \A t \in Threads : pc[t] = "idle"

(* Who has p, if it is a worker that nobody has begun to stop.             *)
Kept(p) == p = cmd \/ \E t \in Threads : pc[t] = "publish" /\ hand[t] = p

KeepInv ==
    /\ \A t \in Threads : pc[t] = "launch" => proc[hand[t]].st = "built"
    /\ \A p \in Procs :
          /\ proc[p].st \in {"free", "built"} => ~proc[p].told /\ ~proc[p].old
          /\ proc[p].st = "built" => \E t \in Threads : pc[t] = "launch" /\ hand[t] = p
          /\ Untold(p) /\ ~proc[p].old => Kept(p)

(* A worker that main's stop has not seen is missed before the program can *)
(* end, and one with other settings than the file is missed or misled, or  *)
(* a stop is still to come.                                                *)
Excused(p) == proc[p].missed \/ proc[p].misled \/ \E t \in Threads : pc[t] = "take"

Fine(p) ==
    /\ Untold(p) /\ proc[p].old => proc[p].missed
    /\ Untold(p) /\ ~proc[p].old /\ pc[Main] \notin {"idle", "take"} => proc[p].missed
    /\ (Untold(p) \/ proc[p].st = "built") /\ ~proc[p].old /\ proc[p].conf # config => Excused(p)

MissInv == \A p \in Procs : Fine(p)

(* A status that refuses the next update was written by an updater that    *)
(* still has a status to write.                                            *)
StatusInv ==
    /\ status \in Busy /\ crashes = 0 => \E h \in Updaters : updater[h] \notin {"off", "failing", "killed"}
    /\ status \in {"restarting", "complete"} => installed = "new"
    /\ \A h \in Updaters : updater[h] \in {"restarting", "restarted"} => installed = "new"

IInv == TypeOK /\ CtlInv /\ KeepInv /\ MissInv /\ StatusInv

LEMMA Fixed ==
    /\ Told \in Recs /\ Told.st = "live" /\ Told.told
    /\ Dead \in Recs /\ Dead.st = "dead"
    /\ NoWorker \in Recs /\ NoWorker.st = "free" /\ ~NoWorker.told /\ ~NoWorker.old
BY ServiceAssumption DEF Told, Dead, NoWorker, Recs

(* The end of the program, after main's stop or not.                       *)
Ends ==
    /\ prog' = "off" /\ Gone /\ pc' = [t \in Threads |-> "idle"]
    /\ \E b \in BOOLEAN :
          /\ proc' = [p \in Procs |-> Orphan(p, b)]
          /\ b \/ (pc[Main] \in {"backend", "drain"} /\ \A t \in Threads : pc[t] # "term")

(* What becomes of a worker whose program ends.                            *)
LEMMA Orphans ==
    ASSUME NEW p \in Procs, NEW u \in BOOLEAN, proc[p] \in Recs
    PROVE  /\ Orphan(p, u) \in Recs
           /\ Orphan(p, u).st # "built"
           /\ proc[p].st \in {"free", "built"} /\ ~proc[p].told /\ ~proc[p].old =>
                 Orphan(p, u).st = "free" /\ ~Orphan(p, u).told /\ ~Orphan(p, u).old
           /\ Orphan(p, u).st = "free" => proc[p].st \in {"free", "built"}
           /\ Orphan(p, u).st = "live" /\ ~Orphan(p, u).told =>
                 /\ proc[p].st = "live" /\ ~proc[p].told
                 /\ Orphan(p, u).old /\ (Orphan(p, u).missed <=> proc[p].missed \/ u)
<1>1. CASE Alive(p) /\ ~proc[p].told
  <2>1. (proc[p].missed \/ u) \in BOOLEAN BY DEF Recs
  <2>2. Orphan(p, u) = [NoWorker EXCEPT !.st = "live", !.old = TRUE, !.missed = proc[p].missed \/ u]
    BY <1>1 DEF Orphan
  <2> QED BY <1>1, <2>1, <2>2, ServiceAssumption DEF NoWorker, Recs, Alive
<1>2. CASE ~(Alive(p) /\ ~proc[p].told) /\ proc[p].st = "built"
  <2>1. Orphan(p, u) = NoWorker BY <1>2 DEF Orphan
  <2> QED BY <1>2, <2>1, Fixed
<1>3. CASE ~(Alive(p) /\ ~proc[p].told) /\ proc[p].st # "built"
  <2>1. Orphan(p, u) = proc[p] BY <1>3 DEF Orphan
  <2> QED BY <1>3, <2>1 DEF Alive
<1> QED BY <1>1, <1>2, <1>3

(* What a step does to the program and its worker.                         *)
ThreadStep(t) == StartCheck(t) \/ Build(t) \/ Launch(t) \/ LaunchFails(t) \/ Publish(t) \/ Poll(t)
UserStep(u)   == Arrive(u) \/ LoadConfig(u) \/ SaveConfig(u) \/ SaveFails(u)

Begins ==
    /\ prog = "off" /\ prog' = "on" /\ \E l \in {"start", "idle"} : Goto(Warm, l)
    /\ UNCHANGED <<startMu, cmd, then, hand, proc, config, copy>>

LEMMA Scripts ==
    ASSUME StartScript PROVE Begins \/ UNCHANGED <<prog, worker>>
BY DEF StartScript, Begins, program

LEMMA Ending == Exit \/ Killed => Ends
<1>1. CASE Exit BY <1>1 DEF Exit, Ends
<1>2. CASE Killed BY <1>2 DEF Killed, Ends
<1> QED BY <1>1, <1>2

LEMMA Steps ==
    ASSUME [Next]_vars
    PROVE  \/ \E t \in Users \cup {Warm} : ThreadStep(t) /\ prog' = prog
           \/ \E t \in Threads : StopStep(t) /\ prog' = prog
           \/ \E p \in Procs : ProcStep(p) /\ prog' = prog
           \/ \E u \in Users : UserStep(u) /\ prog' = prog
           \/ Signal \/ StopServing \/ Ends \/ Reboot \/ Begins
           \/ UNCHANGED <<prog, worker>>
<1>1. CASE \E t \in Users \cup {Warm} : WorkerStep(t) /\ prog' = prog
  BY <1>1 DEF WorkerStep, ThreadStep, Threads
<1>2. CASE MainStep
  <2>1. Main \in Threads BY DEF Threads
  <2>2. CASE StopStep(Main) /\ prog' = prog BY <2>1, <2>2
  <2>3. CASE StopServing \/ Exit BY <2>3, Ending
  <2> QED BY <1>2, <2>2, <2>3 DEF MainStep, program
<1>3. ASSUME NEW h \in Updaters, UpdateStep(h) \/ UpdaterKilled(h)
      PROVE  Signal \/ Begins \/ UNCHANGED <<prog, worker>>
  <2>1. CASE Restart(h) \/ FailRestart(h)
    BY <2>1, Scripts DEF Restart, FailRestart
  <2>2. CASE InstallerStops(h)
    BY <2>2 DEF InstallerStops
  <2>3. CASE ~(Restart(h) \/ FailRestart(h) \/ InstallerStops(h))
    BY <1>3, <2>3
    DEF UpdateStep, Proceed, InstallerStopped, Install, Verify, Complete, Fail, UpdaterKilled, program
  <2> QED BY <2>1, <2>2, <2>3
<1>4. CASE UserStops \/ UserStarts
  BY <1>4, Scripts DEF UserStops, UserStarts
<1>5. CASE UNCHANGED vars
  BY <1>5 DEF vars, program
<1>6. CASE \E u \in Users : SaveStep(u) /\ prog' = prog
  BY <1>6 DEF SaveStep, UserStep
<1>7. CASE \E u \in Users : (Arrive(u) \/ LoadConfig(u)) /\ prog' = prog
  BY <1>7 DEF UserStep
<1> QED BY <1>1, <1>2, <1>3, <1>4, <1>5, <1>6, <1>7, Ending DEF Next, program

(* The types of the program and its worker.                                *)
WorkerTypes ==
    /\ prog \in {"on", "ending", "closed", "off"}
    /\ startMu \in Threads \cup {Nobody} /\ cmd \in Procs \cup {NoProc}
    /\ startMu # Nobody => pc[startMu] \in {"build", "launch", "publish"}
    /\ pc \in [Threads -> {"idle", "start", "build", "launch", "publish", "poll", "take", "term", "wait",
                           "merge", "backend", "drain"}]
    /\ then \in [Threads -> {"return", "ensure"}] /\ hand \in [Threads -> Procs \cup {NoProc}]
    /\ proc \in [Procs -> Recs] /\ config \in Settings /\ copy \in [Users -> Settings]

(* The four steps that rewrite records of workers.                         *)
LEMMA Builds ==
    ASSUME NEW t \in Users \cup {Warm}, Build(t), WorkerTypes
    PROVE  \E p \in Procs, r \in Recs :
              /\ proc[p].st = "free" /\ ~InHand(p)
              /\ r.st = "built" /\ ~r.told /\ ~r.old /\ (r.conf # config => r.misled)
              /\ proc' = [proc EXCEPT ![p] = r] /\ hand' = [hand EXCEPT ![t] = p]
              /\ pc[t] = "build" /\ pc' = [pc EXCEPT ![t] = "launch"]
              /\ UNCHANGED <<startMu, cmd, then, config, copy>>
<1>1. PICK p \in Procs, c \in {config, Default} :
         /\ proc[p].st = "free" /\ ~InHand(p)
         /\ proc' = [proc EXCEPT ![p] = [NoWorker EXCEPT !.st = "built", !.conf = c, !.misled = c # config]]
         /\ hand' = [hand EXCEPT ![t] = p]
  BY DEF Build
<1> DEFINE r == [NoWorker EXCEPT !.st = "built", !.conf = c, !.misled = c # config]
<1>2. r \in Recs /\ r.st = "built" /\ ~r.told /\ ~r.old /\ (r.conf # config => r.misled)
  <2>1. c \in Settings BY ServiceAssumption DEF WorkerTypes
  <2>2. (c # config) \in BOOLEAN OBVIOUS
  <2> QED BY <2>1, <2>2, ServiceAssumption DEF NoWorker, Recs
<1>3. proc' = [proc EXCEPT ![p] = r]
  BY <1>1
<1> HIDE DEF r
<1> QED BY <1>1, <1>2, <1>3 DEF Build, Goto

LEMMA Launches ==
    ASSUME NEW t \in Threads, Launch(t), WorkerTypes, hand[t] \in Procs
    PROVE  /\ proc' \in [Procs -> Recs]
           /\ \A q \in Procs \ {hand[t]} : proc'[q] = proc[q]
           /\ proc'[hand[t]].st = "live" /\ proc'[hand[t]].told = proc[hand[t]].told
           /\ proc'[hand[t]].old = proc[hand[t]].old /\ proc'[hand[t]].conf = proc[hand[t]].conf
           /\ proc'[hand[t]].misled = proc[hand[t]].misled
           /\ proc[hand[t]].missed \/ pc[Main] \notin {"idle", "take"} => proc'[hand[t]].missed
<1> DEFINE p == hand[t]  m == proc[p].missed \/ pc[Main] \notin {"idle", "take"}
           r == [proc[p] EXCEPT !.st = "live", !.missed = m]
<1>1. p \in Procs /\ proc[p] \in Recs
  BY DEF WorkerTypes
<1>2. m \in BOOLEAN
  OBVIOUS
<1>3. proc' = [proc EXCEPT ![p] = r]
  BY DEF Launch
<1> HIDE DEF m, p
<1>4. /\ r \in Recs /\ r.st = "live" /\ r.told = proc[p].told /\ r.old = proc[p].old
      /\ r.conf = proc[p].conf /\ r.misled = proc[p].misled /\ r.missed = m
  BY <1>1, <1>2 DEF Recs
<1> HIDE DEF r
<1>5. /\ proc' \in [Procs -> Recs] /\ proc'[p] = r /\ \A q \in Procs \ {p} : proc'[q] = proc[q]
  BY <1>1, <1>3, <1>4 DEF WorkerTypes
<1> QED BY <1>4, <1>5 DEF p, m

LEMMA Misses ==
    ASSUME NEW t \in Threads, StopTake(t), cmd = NoProc, WorkerTypes, NEW p \in Procs
    PROVE  /\ proc'[p] \in Recs
           /\ proc'[p].st = proc[p].st /\ proc'[p].told = proc[p].told /\ proc'[p].old = proc[p].old
           /\ proc'[p].conf = proc[p].conf /\ proc'[p].misled = proc[p].misled
           /\ proc[p].missed \/ InHand(p) => proc'[p].missed
<1> DEFINE b == proc[p].missed \/ InHand(p)
<1>1. b \in BOOLEAN /\ proc[p] \in Recs
  BY DEF WorkerTypes
<1>2. proc'[p] = [proc[p] EXCEPT !.missed = b]
  BY DEF StopTake
<1> HIDE DEF b
<1>3. /\ [proc[p] EXCEPT !.missed = b] \in Recs /\ [proc[p] EXCEPT !.missed = b].st = proc[p].st
      /\ [proc[p] EXCEPT !.missed = b].told = proc[p].told /\ [proc[p] EXCEPT !.missed = b].old = proc[p].old
      /\ [proc[p] EXCEPT !.missed = b].conf = proc[p].conf /\ [proc[p] EXCEPT !.missed = b].missed = b
      /\ [proc[p] EXCEPT !.missed = b].misled = proc[p].misled
  BY <1>1 DEF Recs
<1>4. b => proc'[p].missed
  BY <1>1, <1>2, <1>3
<1>5. proc[p].missed \/ InHand(p) => proc'[p].missed
  BY <1>4, Zenon DEF b
<1> QED BY <1>2, <1>3, <1>5

LEMMA Misleads ==
    ASSUME NEW u \in Users, SaveConfig(u), config' = copy[u], WorkerTypes, NEW p \in Procs
    PROVE  /\ proc'[p] \in Recs
           /\ proc'[p].st = proc[p].st /\ proc'[p].told = proc[p].told /\ proc'[p].old = proc[p].old
           /\ proc'[p].conf = proc[p].conf /\ proc'[p].missed = proc[p].missed
           /\ proc[p].misled \/ (InUse(p) /\ config' # config) => proc'[p].misled
<1> DEFINE b == proc[p].misled \/ (InUse(p) /\ config' # config)
<1>1. b \in BOOLEAN /\ proc[p] \in Recs
  BY DEF WorkerTypes
<1>2. proc'[p] = [proc[p] EXCEPT !.misled = b]
  BY DEF SaveConfig
<1> HIDE DEF b
<1>3. /\ [proc[p] EXCEPT !.misled = b] \in Recs /\ [proc[p] EXCEPT !.misled = b].st = proc[p].st
      /\ [proc[p] EXCEPT !.misled = b].told = proc[p].told /\ [proc[p] EXCEPT !.misled = b].old = proc[p].old
      /\ [proc[p] EXCEPT !.misled = b].conf = proc[p].conf
      /\ [proc[p] EXCEPT !.misled = b].missed = proc[p].missed
      /\ [proc[p] EXCEPT !.misled = b].misled = b
  BY <1>1 DEF Recs
<1>4. b => proc'[p].misled
  BY <1>1, <1>2, <1>3
<1>5. proc[p].misled \/ (InUse(p) /\ config' # config) => proc'[p].misled
  BY <1>4, Zenon DEF b
<1> QED BY <1>2, <1>3, <1>5

LEMMA WorkerTypesNext ==
    ASSUME IInv, [Next]_vars PROVE WorkerTypes'
<1> WorkerTypes /\ CtlInv
  BY DEF IInv, TypeOK, WorkerTypes, Recs
<1> Users \subseteq Threads /\ Warm \in Threads /\ Main \in Threads /\ Nobody \notin Threads
    /\ NoProc \notin Procs /\ Default \in Settings
  BY ServiceAssumption DEF Threads
<1> USE DEF Goto
<1>1. ASSUME NEW t \in Users \cup {Warm}, ThreadStep(t), prog' = prog PROVE WorkerTypes'
  <2> t \in Threads OBVIOUS
  <2>1. CASE StartCheck(t) BY <1>1, <2>1 DEF StartCheck, WorkerTypes
  <2>2. CASE Build(t)
    <3>1. PICK p \in Procs, r \in Recs :
             /\ proc' = [proc EXCEPT ![p] = r] /\ hand' = [hand EXCEPT ![t] = p]
             /\ pc[t] = "build" /\ pc' = [pc EXCEPT ![t] = "launch"]
             /\ UNCHANGED <<startMu, cmd, then, config, copy>>
      BY <2>2, Builds
    <3> QED BY <1>1, <3>1 DEF WorkerTypes
  <2>3. CASE Launch(t)
    <3>1. hand[t] \in Procs BY <2>3 DEF CtlInv, Launch
    <3>2. proc' \in [Procs -> Recs] BY <2>3, <3>1, Launches
    <3> QED BY <1>1, <2>3, <3>2 DEF Launch, WorkerTypes
  <2>4. CASE LaunchFails(t)
    <3>1. proc' \in [Procs -> Recs] BY <2>4, Fixed DEF LaunchFails, WorkerTypes
    <3> QED BY <1>1, <2>4, <3>1 DEF LaunchFails, WorkerTypes
  <2>5. CASE Publish(t) BY <1>1, <2>5 DEF Publish, WorkerTypes
  <2>6. CASE Poll(t) BY <1>1, <2>6 DEF Poll, WorkerTypes
  <2> QED BY <1>1, <2>1, <2>2, <2>3, <2>4, <2>5, <2>6 DEF ThreadStep
<1>2. ASSUME NEW t \in Threads, StopStep(t), prog' = prog PROVE WorkerTypes'
  <2>1. CASE StopTake(t)
    <3>1. CASE cmd = NoProc
      <4>1. \A p \in Procs : proc'[p] \in Recs BY <2>1, <3>1, Misses
      <4>2. proc' = [p \in Procs |-> proc'[p]] BY <2>1, <3>1 DEF StopTake
      <4>3. proc' \in [Procs -> Recs] BY <4>1, <4>2
      <4> QED BY <1>2, <2>1, <3>1, <4>3 DEF StopTake, AfterStop, WorkerTypes
    <3>2. CASE cmd # NoProc
      BY <1>2, <2>1, <3>2 DEF StopTake, WorkerTypes
    <3> QED BY <3>1, <3>2
  <2>2. CASE StopTerm(t)
    <3>1. proc' \in [Procs -> Recs] BY <2>2, Fixed DEF StopTerm, WorkerTypes
    <3> QED BY <1>2, <2>2, <3>1 DEF StopTerm, WorkerTypes
  <2>3. CASE StopDone(t)
    <3>1. proc' \in [Procs -> Recs] BY <2>3, Fixed DEF StopDone, WorkerTypes
    <3> QED BY <1>2, <2>3, <3>1 DEF StopDone, AfterStop, WorkerTypes
  <2> QED BY <1>2, <2>1, <2>2, <2>3 DEF StopStep
<1>3. ASSUME NEW p \in Procs, ProcStep(p), prog' = prog PROVE WorkerTypes'
  <2>1. CASE Reap(p) BY <1>3, <2>1, Fixed DEF Reap, WorkerTypes
  <2>2. CASE Die(p) BY <1>3, <2>2, Fixed DEF Die, WorkerTypes
  <2> QED BY <1>3, <2>1, <2>2 DEF ProcStep
<1>4. ASSUME NEW u \in Users, UserStep(u), prog' = prog PROVE WorkerTypes'
  <2> u \in Threads OBVIOUS
  <2>1. CASE Arrive(u) BY <1>4, <2>1 DEF Arrive, WorkerTypes
  <2>2. CASE LoadConfig(u) BY <1>4, <2>2 DEF LoadConfig, WorkerTypes
  <2>3. CASE SaveConfig(u)
    <3>1. CASE config' = copy[u]
      <4>1. \A p \in Procs : proc'[p] \in Recs BY <2>3, <3>1, Misleads
      <4>2. proc' = [p \in Procs |-> proc'[p]] BY <2>3, <3>1 DEF SaveConfig
      <4>3. proc' \in [Procs -> Recs] BY <4>1, <4>2
      <4> QED BY <1>4, <2>3, <3>1, <4>3 DEF SaveConfig, WorkerTypes
    <3>2. CASE config' # copy[u]
      BY <1>4, <2>3, <3>2 DEF SaveConfig, WorkerTypes
    <3> QED BY <3>1, <3>2
  <2>4. CASE SaveFails(u) BY <1>4, <2>4 DEF SaveFails, WorkerTypes
  <2> QED BY <1>4, <2>1, <2>2, <2>3, <2>4 DEF UserStep
<1>5. CASE Signal BY <1>5 DEF Signal, CtlInv, WorkerTypes
<1>6. CASE StopServing BY <1>6 DEF StopServing, WorkerTypes
<1>7. CASE Ends
  <2>1. PICK b \in BOOLEAN : proc' = [p \in Procs |-> Orphan(p, b)]
    BY <1>7 DEF Ends
  <2>2. \A p \in Procs : Orphan(p, b) \in Recs BY Orphans DEF WorkerTypes
  <2>3. proc' \in [Procs -> Recs] BY <2>1, <2>2
  <2> QED BY <1>7, <2>3 DEF Ends, Gone, WorkerTypes
<1>8. CASE Reboot
  <2>1. proc' \in [Procs -> Recs] BY <1>8, Fixed DEF Reboot
  <2> QED BY <1>8, <2>1 DEF Reboot, Gone, WorkerTypes
<1>9. CASE Begins
  <2>1. startMu = Nobody BY <1>9 DEF Begins, CtlInv, WorkerTypes
  <2>2. PICK l \in {"start", "idle"} : pc' = [pc EXCEPT ![Warm] = l]
    BY <1>9 DEF Begins
  <2> QED BY <1>9, <2>1, <2>2 DEF Begins, WorkerTypes
<1>10. CASE UNCHANGED <<prog, worker>> BY <1>10 DEF worker, WorkerTypes
<1> QED BY Steps, <1>1, <1>2, <1>3, <1>4, <1>5, <1>6, <1>7, <1>8, <1>9, <1>10

(* The types of the update and of the bounds, and the status file.         *)
UpdateTypes ==
    /\ calls \in 0..MaxCalls /\ crashes \in 0..MaxCrashes
    /\ click \in [Clickers -> {"idle", "checked", "newer", "spawn"}]
    /\ start \in {"none", "up", "failed", "too soon"}
    /\ updater \in [Updaters -> {"off", "begin", "downloading", "verifying", "installing", "stopped",
                                 "verify", "restarting", "restarted", "failing", "killed"}]
    /\ status \in Busy \cup {"idle", "starting", "complete", "failed"}
    /\ installed \in {"old", "new"}

LEMMA Typed == TypeOK <=> WorkerTypes /\ UpdateTypes
BY DEF TypeOK, WorkerTypes, UpdateTypes, Recs

LEMMA Counting ==
    ASSUME calls \in 0..MaxCalls, crashes \in 0..MaxCrashes
    PROVE  /\ Call => calls' \in 0..MaxCalls
           /\ Crash => calls' \in 0..MaxCalls /\ crashes' \in 0..MaxCrashes /\ crashes' # 0
<1>1. MaxCalls \in Nat /\ MaxCrashes \in Nat
  BY ServiceAssumption
<1>2. Call => calls' \in 0..MaxCalls
  BY <1>1 DEF Call
<1>3. Crash => crashes' \in 0..MaxCrashes /\ crashes' # 0
  BY <1>1 DEF Crash
<1>4. Crash => Call
  BY DEF Crash
<1> QED BY <1>2, <1>3, <1>4

LEMMA UpdateNext ==
    ASSUME IInv, [Next]_vars PROVE UpdateTypes' /\ StatusInv'
<1> UpdateTypes /\ StatusInv
  BY Typed DEF IInv
<1> MaxCalls \in Nat /\ MaxCrashes \in Nat
  BY ServiceAssumption
<1> USE DEF UpdateTypes, StatusInv, Busy
<1>a. Call => calls' \in 0..MaxCalls
  BY Counting
<1>b. Crash => calls' \in 0..MaxCalls /\ crashes' \in 0..MaxCrashes /\ crashes' # 0
  BY Counting
<1>0. StartScript => start' \in {"none", "up", "failed", "too soon"}
  BY DEF StartScript, program
<1>1. ASSUME NEW h \in Updaters, UpdateStep(h), UNCHANGED bounds PROVE UpdateTypes' /\ StatusInv'
  <2> USE DEF To, bounds
  <2>1. CASE Proceed(h)
    <3>1. DOMAIN Stage = {"begin", "downloading", "verifying"} /\ Stage["begin"] = "downloading"
          /\ Stage["downloading"] = "verifying" /\ Stage["verifying"] = "installing"
      BY DEF Stage
    <3>2. PICK l \in {"downloading", "verifying", "installing"} :
             updater' = [updater EXCEPT ![h] = l] /\ status' = l
      BY <2>1, <3>1 DEF Proceed
    <3> QED BY <1>1, <2>1, <3>2 DEF Proceed, program
  <2>2. CASE InstallerStops(h) BY <1>1, <2>2 DEF InstallerStops, Signal, update
  <2>3. CASE InstallerStopped(h) BY <1>1, <2>3 DEF InstallerStopped
  <2>4. CASE Install(h) BY <1>1, <2>4 DEF Install, program
  <2>5. CASE Verify(h) BY <1>1, <2>5 DEF Verify, program
  <2>6. CASE Restart(h) BY <1>0, <1>1, <2>6 DEF Restart
  <2>7. CASE Complete(h) BY <1>1, <2>7 DEF Complete, program
  <2>8. CASE Fail(h)
    <3>1. updater' \in [Updaters -> {"off", "begin", "downloading", "verifying", "installing", "stopped",
                                     "verify", "restarting", "restarted", "failing", "killed"}]
      BY <2>8 DEF Fail
    <3>2. \A k \in Updaters : updater'[k] \in {"restarting", "restarted"} => updater'[k] = updater[k]
      BY <2>8 DEF Fail
    <3> QED BY <1>1, <2>8, <3>1, <3>2 DEF Fail, program
  <2>9. CASE FailRestart(h) BY <1>0, <1>1, <2>9 DEF FailRestart
  <2> QED BY <1>1, <2>1, <2>2, <2>3, <2>4, <2>5, <2>6, <2>7, <2>8, <2>9 DEF UpdateStep
<1>2. ASSUME NEW c \in Clickers, (Click(c) /\ Call) \/ (ClickStep(c) /\ UNCHANGED bounds),
             UNCHANGED <<crashes, start>>
      PROVE  UpdateTypes' /\ StatusInv'
  <2>1. CASE Click(c) /\ Call BY <1>2, <1>a, <2>1 DEF Click
  <2>2. CASE Decline(c) /\ UNCHANGED bounds BY <1>2, <2>2 DEF Decline, bounds
  <2>3. CASE FindNewer(c) /\ UNCHANGED bounds BY <1>2, <2>3 DEF FindNewer, bounds
  <2>4. CASE WriteStarting(c) /\ UNCHANGED bounds BY <1>2, <2>4 DEF WriteStarting, bounds
  <2>5. CASE Spawn(c) /\ UNCHANGED bounds BY <1>2, <2>5 DEF Spawn, bounds
  <2> QED BY <1>2, <2>1, <2>2, <2>3, <2>4, <2>5 DEF ClickStep
<1>3. CASE Reboot BY <1>3, <1>b DEF Reboot, Gone
<1>4. CASE Exit BY <1>4 DEF Exit, Gone, bounds
<1>5. CASE UNCHANGED <<update, bounds, start>> BY <1>5 DEF update, bounds
<1>6. CASE Call /\ UNCHANGED <<update, crashes>> /\ start' \in {start, "none"} BY <1>6, <1>a DEF update
<1>7. CASE Killed BY <1>7, <1>b DEF Killed, Gone
<1>8. ASSUME NEW h \in Updaters, UpdaterKilled(h) PROVE UpdateTypes' /\ StatusInv'
  BY <1>8, <1>b DEF UpdaterKilled, To, program
<1>9. CASE UserStarts BY <1>0, <1>9 DEF UserStarts, update, bounds
<1> QED
  <2>1. CASE MainStep
    BY <2>1, <1>4, <1>5 DEF MainStep, StopServing, program
  <2>2. CASE UserStops
    BY <2>2, <1>6 DEF UserStops, Signal
  <2>3. CASE UNCHANGED vars
    BY <2>3, <1>5 DEF vars, bounds, program
  <2>4. CASE \E c \in Clickers : Click(c) /\ Call /\ UNCHANGED <<program, worker, crashes>>
    BY <2>4, <1>2 DEF program
  <2>5. CASE \E c \in Clickers : ClickStep(c) /\ UNCHANGED <<program, worker, bounds>>
    BY <2>5, <1>2 DEF program, bounds
  <2>6. CASE \E u \in Users : (Arrive(u) \/ LoadConfig(u)) /\ Call /\ UNCHANGED <<program, update, crashes>>
    BY <2>6, <1>6 DEF program
  <2> QED BY <2>1, <2>2, <2>3, <2>4, <2>5, <2>6, <1>1, <1>3, <1>5, <1>7, <1>8, <1>9 DEF Next, program

(* Who is where.                                                           *)
LEMMA CtlNext ==
    ASSUME IInv, [Next]_vars PROVE CtlInv'
<1> WorkerTypes /\ CtlInv
  BY Typed DEF IInv
<1> Users \subseteq Threads /\ Warm \in Threads /\ Main \in Threads /\ Nobody \notin Threads
    /\ NoProc \notin Procs /\ Main \notin Users \cup {Warm}
  BY ServiceAssumption DEF Threads
<1> USE DEF WorkerTypes, CtlInv, Goto
<1>1. ASSUME NEW t \in Users \cup {Warm}, ThreadStep(t), prog' = prog PROVE CtlInv'
  <2> t \in Threads /\ t # Main OBVIOUS
  <2>1. CASE StartCheck(t) BY <1>1, <2>1 DEF StartCheck
  <2>2. CASE Build(t)
    <3>1. PICK p \in Procs : hand' = [hand EXCEPT ![t] = p]
      BY <2>2 DEF Build
    <3> QED BY <1>1, <2>2, <3>1 DEF Build
  <2>3. CASE Launch(t) BY <1>1, <2>3 DEF Launch
  <2>4. CASE LaunchFails(t) BY <1>1, <2>4 DEF LaunchFails
  <2>5. CASE Publish(t) BY <1>1, <2>5 DEF Publish
  <2>6. CASE Poll(t) BY <1>1, <2>6 DEF Poll
  <2> QED BY <1>1, <2>1, <2>2, <2>3, <2>4, <2>5, <2>6 DEF ThreadStep
<1>2. ASSUME NEW t \in Threads, StopStep(t), prog' = prog PROVE CtlInv'
  <2>1. CASE StopTake(t) BY <1>2, <2>1 DEF StopTake, AfterStop
  <2>2. CASE StopTerm(t) BY <1>2, <2>2 DEF StopTerm
  <2>3. CASE StopDone(t) BY <1>2, <2>3 DEF StopDone, AfterStop
  <2> QED BY <1>2, <2>1, <2>2, <2>3 DEF StopStep
<1>3. ASSUME NEW p \in Procs, ProcStep(p), prog' = prog PROVE CtlInv'
  BY <1>3 DEF ProcStep, Reap, Die
<1>4. ASSUME NEW u \in Users, UserStep(u), prog' = prog PROVE CtlInv'
  <2>1. CASE Arrive(u) BY <1>4, <2>1 DEF Arrive, Serving
  <2>2. CASE LoadConfig(u) BY <1>4, <2>2 DEF LoadConfig, Serving
  <2>3. CASE SaveConfig(u) BY <1>4, <2>3 DEF SaveConfig
  <2>4. CASE SaveFails(u) BY <1>4, <2>4 DEF SaveFails
  <2> QED BY <1>4, <2>1, <2>2, <2>3, <2>4 DEF UserStep
<1>5. CASE Signal BY <1>5 DEF Signal
<1>6. CASE StopServing BY <1>6 DEF StopServing
<1>7. CASE Ends BY <1>7 DEF Ends, Gone
<1>8. CASE Reboot BY <1>8 DEF Reboot, Gone
<1>9. CASE Begins
  <2>1. PICK l \in {"start", "idle"} : pc' = [pc EXCEPT ![Warm] = l]
    BY <1>9 DEF Begins
  <2> QED BY <1>9, <2>1 DEF Begins
<1>10. CASE UNCHANGED <<prog, worker>> BY <1>10 DEF worker
<1> QED BY Steps, <1>1, <1>2, <1>3, <1>4, <1>5, <1>6, <1>7, <1>8, <1>9, <1>10

(* Who has the workers that nobody stops.                                  *)
LEMMA KeepNext ==
    ASSUME IInv, [Next]_vars PROVE KeepInv'
<1> WorkerTypes /\ CtlInv /\ KeepInv
  BY Typed DEF IInv
<1> Users \subseteq Threads /\ Warm \in Threads /\ Main \in Threads /\ Nobody \notin Threads
    /\ NoProc \notin Procs /\ Main \notin Users \cup {Warm}
  BY ServiceAssumption DEF Threads
<1> USE DEF WorkerTypes, KeepInv, Kept, Untold, Alive, Goto
<1>1. ASSUME NEW t \in Users \cup {Warm}, ThreadStep(t), prog' = prog PROVE KeepInv'
  <2> t \in Threads /\ t # Main OBVIOUS
  <2>1. CASE StartCheck(t) BY <1>1, <2>1 DEF StartCheck
  <2>2. CASE Build(t)
    <3>1. PICK p \in Procs, r \in Recs :
             /\ proc[p].st = "free" /\ ~InHand(p)
             /\ r.st = "built" /\ ~r.told /\ ~r.old
             /\ proc' = [proc EXCEPT ![p] = r] /\ hand' = [hand EXCEPT ![t] = p]
             /\ pc[t] = "build" /\ pc' = [pc EXCEPT ![t] = "launch"] /\ cmd' = cmd
      BY <2>2, Builds
    <3>2. \A x \in Threads : pc[x] = "launch" => x # t /\ hand[x] # p
      BY <3>1 DEF InHand
    <3> QED BY <3>1, <3>2 DEF CtlInv
  <2>3. CASE Launch(t)
    <3>1. pc[t] = "launch" /\ hand[t] \in Procs BY <2>3 DEF Launch, CtlInv
    <3>0. PICK p \in Procs : p = hand[t]
      BY <3>1
    <3>2. /\ \A q \in Procs \ {p} : proc'[q] = proc[q]
          /\ proc'[p].st = "live" /\ proc'[p].told = proc[p].told
          /\ proc'[p].old = proc[p].old
      BY <2>3, <3>0, <3>1, Launches
    <3>3. \A x \in Threads \ {t} : pc[x] # "launch"
      BY <3>1 DEF CtlInv
    <3>4. pc' = [pc EXCEPT ![t] = "publish"] /\ hand' = hand /\ cmd' = cmd
      BY <2>3 DEF Launch
    <3>5. \A x \in Threads : pc'[x] # "launch"
      BY <3>3, <3>4
    <3>6. ASSUME NEW q \in Procs \ {p}
          PROVE  /\ proc'[q].st # "built" /\ (proc'[q].st = "free" => ~proc'[q].told /\ ~proc'[q].old)
                 /\ Untold(q)' /\ ~proc'[q].old => Kept(q)'
      <4>1. proc[q].st # "built" BY <3>0, <3>1, <3>3
      <4> QED BY <3>1, <3>2, <3>4, <4>1
    <3>7. Kept(p)' BY <3>0, <3>1, <3>4
    <3> QED BY <3>1, <3>2, <3>5, <3>6, <3>7
  <2>4. CASE LaunchFails(t)
    <3>1. \A x \in Threads \ {t} : pc[x] # "launch"
      BY <2>4 DEF LaunchFails, CtlInv
    <3>2. /\ \A q \in Procs : proc'[q] = IF q = hand[t] THEN NoWorker ELSE proc[q]
          /\ pc' = [pc EXCEPT ![t] = "idle"] /\ hand' = [hand EXCEPT ![t] = NoProc] /\ cmd' = cmd
          /\ pc[t] \in {"build", "launch"}
      BY <2>4 DEF LaunchFails
    <3>3. \A x \in Threads : pc'[x] # "launch" BY <3>1, <3>2
    <3>4. ASSUME NEW q \in Procs
          PROVE  /\ proc'[q].st # "built" /\ (proc'[q].st = "free" => ~proc'[q].told /\ ~proc'[q].old)
                 /\ Untold(q)' /\ ~proc'[q].old => Kept(q)'
      <4>1. CASE q = hand[t] BY <3>2, <4>1, Fixed
      <4>2. CASE q # hand[t]
        <5>1. proc'[q] = proc[q] BY <3>2, <4>2
        <5>2. proc[q].st # "built" BY <3>1, <4>2
        <5>3. Untold(q)' => Untold(q) BY <3>2, <5>1
        <5>4. Kept(q) => Kept(q)' BY <3>2
        <5> QED BY <5>1, <5>2, <5>3, <5>4
      <4> QED BY <4>1, <4>2
    <3> QED BY <3>3, <3>4
  <2>5. CASE Publish(t) BY <1>1, <2>5 DEF Publish, CtlInv
  <2>6. CASE Poll(t) BY <1>1, <2>6 DEF Poll
  <2> QED BY <1>1, <2>1, <2>2, <2>3, <2>4, <2>5, <2>6 DEF ThreadStep
<1>2. ASSUME NEW t \in Threads, StopStep(t), prog' = prog PROVE KeepInv'
  <2>1. CASE StopTake(t)
    <3>1. CASE cmd = NoProc
      <4>1. \A p \in Procs : /\ proc'[p].st = proc[p].st /\ proc'[p].told = proc[p].told
                              /\ proc'[p].old = proc[p].old
        BY <2>1, <3>1, Misses
      <4>2. \A x \in Threads : pc'[x] = pc[x] \/ (pc[x] = "take" /\ pc'[x] \notin {"term", "launch", "publish"})
        BY <2>1, <3>1 DEF StopTake, AfterStop
      <4>3. hand' = hand /\ cmd' = cmd
        BY <2>1, <3>1 DEF StopTake
      <4>4. \A x \in Threads : pc'[x] \in {"term", "launch", "publish"} <=> pc[x] \in {"term", "launch", "publish"}
        BY <4>2
      <4>5. ASSUME NEW x \in Threads, pc'[x] = "launch" PROVE proc'[hand'[x]].st = "built"
        <5>1. pc[x] = "launch" BY <4>2, <4>5
        <5>2. hand[x] \in Procs BY <5>1 DEF CtlInv
        <5> QED BY <4>1, <4>3, <5>1, <5>2
      <4>6. ASSUME NEW p \in Procs, Untold(p)', ~proc'[p].old PROVE Kept(p)'
        <5>1. Untold(p) /\ ~proc[p].old BY <4>1, <4>2, <4>3, <4>4, <4>6
        <5>2. Kept(p) BY <5>1
        <5> QED BY <4>2, <4>3, <5>2
      <4>7. ASSUME NEW p \in Procs, proc'[p].st = "built" PROVE \E x \in Threads : pc'[x] = "launch" /\ hand'[x] = p
        BY <4>1, <4>2, <4>3, <4>7
      <4> QED BY <4>1, <4>5, <4>6, <4>7
    <3>2. CASE cmd # NoProc
      <4>1. /\ hand' = [hand EXCEPT ![t] = cmd] /\ pc' = [pc EXCEPT ![t] = "term"] /\ proc' = proc
            /\ pc[t] = "take" /\ cmd' = NoProc
        BY <2>1, <3>2 DEF StopTake
      <4>2. \A x \in Threads : pc[x] \notin {"launch", "publish"}
        BY <3>2 DEF CtlInv
      <4>3. \A x \in Threads : pc'[x] \notin {"launch", "publish"}
        BY <4>1, <4>2
      <4>4. ASSUME NEW p \in Procs, Untold(p)', ~proc[p].old PROVE FALSE
        <5>1. p # cmd BY <4>1, <4>4
        <5>2. Untold(p) BY <4>1, <4>4
        <5> QED BY <4>2, <4>4, <5>1, <5>2
      <4> QED BY <4>1, <4>2, <4>3, <4>4
    <3> QED BY <3>1, <3>2
  <2>2. CASE StopTerm(t)
    <3>1. /\ \A p \in Procs : proc'[p] = proc[p] \/ (p = hand[t] /\ Alive(p) /\ proc'[p] = Told)
          /\ hand' = hand /\ cmd' = cmd /\ pc' = [pc EXCEPT ![t] = "wait"] /\ pc[t] = "term"
      BY <2>2 DEF StopTerm
    <3>2. ASSUME NEW p \in Procs, Untold(p)' PROVE Untold(p) /\ proc'[p] = proc[p]
      <4>1. proc'[p] = proc[p] BY <3>1, <3>2, Fixed
      <4>2. p # hand[t] BY <2>2, <3>1, <3>2, <4>1, Fixed DEF StopTerm
      <4> QED BY <3>1, <3>2, <4>1, <4>2
    <3>3. ASSUME NEW p \in Procs, proc'[p].st \in {"free", "built"} PROVE proc'[p] = proc[p]
      BY <3>1, <3>3, Fixed
    <3>4. ASSUME NEW x \in Threads, pc'[x] = "launch" PROVE proc'[hand'[x]].st = "built"
      <4>1. pc[x] = "launch" /\ hand[x] \in Procs BY <3>1, <3>4 DEF CtlInv
      <4> QED BY <3>1, <4>1
    <3>5. \A x \in Threads : pc[x] \in {"launch", "publish"} => pc'[x] = pc[x]
      BY <3>1
    <3> QED BY <3>1, <3>2, <3>3, <3>4, <3>5
  <2>3. CASE StopDone(t)
    <3>1. /\ \A p \in Procs : proc'[p] = proc[p] \/ (p = hand[t] /\ Alive(p) /\ proc'[p] = Dead)
          /\ hand' = [hand EXCEPT ![t] = NoProc] /\ cmd' = cmd /\ pc[t] = "wait"
          /\ \A x \in Threads \ {t} : pc'[x] = pc[x]
          /\ pc'[t] \in {"backend", "start", "idle"}
      BY <2>3 DEF StopDone, AfterStop
    <3>2. ASSUME NEW p \in Procs, Untold(p)' PROVE Untold(p) /\ proc'[p] = proc[p]
      <4>1. proc'[p] = proc[p] BY <3>1, <3>2, Fixed
      <4> QED BY <3>1, <3>2, <4>1
    <3>3. ASSUME NEW p \in Procs, proc'[p].st \in {"free", "built"} PROVE proc'[p] = proc[p]
      BY <3>1, <3>3, Fixed
    <3>4. ASSUME NEW x \in Threads, pc'[x] = "launch" PROVE proc'[hand'[x]].st = "built"
      <4>1. x # t /\ pc[x] = "launch" /\ hand[x] \in Procs BY <3>1, <3>4 DEF CtlInv
      <4> QED BY <3>1, <4>1
    <3>5. \A x \in Threads : pc[x] \in {"launch", "publish"} => pc'[x] = pc[x] /\ hand'[x] = hand[x]
      BY <3>1
    <3> QED BY <3>1, <3>2, <3>3, <3>4, <3>5
  <2> QED BY <1>2, <2>1, <2>2, <2>3 DEF StopStep
<1>3. ASSUME NEW p \in Procs, ProcStep(p), prog' = prog PROVE KeepInv'
  <2>1. UNCHANGED <<hand, pc>> /\ (cmd' = cmd \/ (cmd = p /\ cmd' = NoProc))
    BY <1>3 DEF ProcStep, Reap, Die
  <2>2. /\ proc[p].st \in {"dead", "live"} /\ \A q \in Procs \ {p} : proc'[q] = proc[q]
        /\ proc'[p].st = "dead" \/ proc'[p] = NoWorker
    BY <1>3, Fixed DEF ProcStep, Reap, Die
  <2>3. ~Alive(p)' BY <2>2, Fixed
  <2>4. ASSUME NEW x \in Threads, pc'[x] = "launch" PROVE proc'[hand'[x]].st = "built"
    <3>1. pc[x] = "launch" /\ hand[x] \in Procs /\ hand[x] # p BY <2>1, <2>2, <2>4 DEF CtlInv
    <3> QED BY <2>1, <2>2, <3>1
  <2>5. ASSUME NEW q \in Procs \ {p} PROVE Untold(q)' /\ ~proc'[q].old => Kept(q)'
    BY <2>1, <2>2
  <2> QED BY <2>1, <2>2, <2>3, <2>4, <2>5, Fixed
<1>4. ASSUME NEW u \in Users, UserStep(u), prog' = prog PROVE KeepInv'
  <2> u \in Threads OBVIOUS
  <2>1. CASE Arrive(u) BY <1>4, <2>1 DEF Arrive
  <2>2. CASE LoadConfig(u) BY <1>4, <2>2 DEF LoadConfig
  <2>3. CASE SaveConfig(u)
    <3>1. \A p \in Procs : /\ proc'[p].st = proc[p].st /\ proc'[p].told = proc[p].told
                            /\ proc'[p].old = proc[p].old
      <4>1. CASE config' = copy[u] BY <2>3, <4>1, Misleads
      <4>2. CASE config' # copy[u] BY <2>3, <4>2 DEF SaveConfig
      <4> QED BY <4>1, <4>2
    <3>2. /\ \A x \in Threads : pc'[x] = pc[x] \/ (pc[x] = "merge" /\ pc'[x] \in {"idle", "take"})
          /\ hand' = hand /\ cmd' = cmd
      BY <2>3 DEF SaveConfig
    <3>3. ASSUME NEW x \in Threads, pc'[x] = "launch" PROVE proc'[hand'[x]].st = "built"
      <4>1. pc[x] = "launch" /\ hand[x] \in Procs BY <3>2, <3>3 DEF CtlInv
      <4> QED BY <3>1, <3>2, <4>1
    <3>4. \A x \in Threads : pc'[x] \in {"term", "launch", "publish"} \/ pc[x] \in {"term", "launch", "publish"}
             => pc'[x] = pc[x]
      BY <3>2
    <3>5. ASSUME NEW p \in Procs, Untold(p)', ~proc'[p].old PROVE Kept(p)'
      <4>1. Untold(p) /\ ~proc[p].old BY <3>1, <3>2, <3>4, <3>5
      <4> QED BY <3>2, <3>4, <4>1
    <3>6. ASSUME NEW p \in Procs, proc'[p].st = "built" PROVE \E x \in Threads : pc'[x] = "launch" /\ hand'[x] = p
      BY <3>1, <3>2, <3>4, <3>6
    <3> QED BY <3>1, <3>3, <3>5, <3>6
  <2>4. CASE SaveFails(u) BY <1>4, <2>4 DEF SaveFails
  <2> QED BY <1>4, <2>1, <2>2, <2>3, <2>4 DEF UserStep
<1>5. CASE Signal BY <1>5 DEF Signal, CtlInv
<1>6. CASE StopServing BY <1>6 DEF StopServing, CtlInv
<1>7. CASE Ends
  <2>1. PICK b \in BOOLEAN : proc' = [p \in Procs |-> Orphan(p, b)]
    BY <1>7 DEF Ends
  <2>2. \A t \in Threads : pc'[t] = "idle"
    BY <1>7 DEF Ends
  <2>3. ASSUME NEW p \in Procs
        PROVE  /\ proc'[p].st # "built" /\ (proc'[p].st = "free" => ~proc'[p].told /\ ~proc'[p].old)
               /\ Untold(p)' => proc'[p].old
    <3>1. proc'[p] = Orphan(p, b) /\ proc[p] \in Recs BY <2>1
    <3> QED BY <3>1, Orphans
  <2> QED BY <2>2, <2>3
<1>8. CASE Reboot BY <1>8, Fixed DEF Reboot, Gone
<1>9. CASE Begins
  <2>1. PICK l \in {"start", "idle"} : pc' = [pc EXCEPT ![Warm] = l]
    BY <1>9 DEF Begins
  <2> QED BY <1>9, <2>1 DEF Begins, CtlInv
<1>10. CASE UNCHANGED <<prog, worker>> BY <1>10 DEF worker
<1> QED BY Steps, <1>1, <1>2, <1>3, <1>4, <1>5, <1>6, <1>7, <1>8, <1>9, <1>10

(* A step that changes nothing of a worker and takes no stop back.         *)
LEMMA MissKept ==
    ASSUME MissInv, config' = config,
           pc'[Main] \in {"idle", "take"} \/ pc'[Main] = pc[Main]
              \/ pc[Main] \notin {"idle", "take"},
           (\E t \in Threads : pc[t] = "take") => (\E t \in Threads : pc'[t] = "take"),
           NEW q \in Procs, proc'[q] = proc[q], Untold(q)' => Untold(q)
    PROVE  Fine(q)'
BY DEF MissInv, Fine, Excused

(* What a stop has missed.                                                 *)
LEMMA MissNext ==
    ASSUME IInv, [Next]_vars PROVE MissInv'
<1> WorkerTypes /\ CtlInv /\ MissInv /\ KeepInv
  BY Typed DEF IInv
<1> Users \subseteq Threads /\ Warm \in Threads /\ Main \in Threads /\ Nobody \notin Threads
    /\ NoProc \notin Procs /\ Main \notin Users \cup {Warm}
  BY ServiceAssumption DEF Threads
<1> USE DEF WorkerTypes, Untold, Alive, Goto, Fine
<1>0. (\A q \in Procs : Fine(q)') => MissInv'
  BY DEF MissInv
<1>1. ASSUME NEW t \in Users \cup {Warm}, ThreadStep(t), prog' = prog PROVE MissInv'
  <2> t \in Threads /\ t # Main OBVIOUS
  <2>1. CASE Build(t)
    <3>1. PICK p \in Procs, r \in Recs :
             /\ r.st = "built" /\ ~r.told /\ ~r.old /\ (r.conf # config => r.misled)
             /\ proc' = [proc EXCEPT ![p] = r] /\ hand' = [hand EXCEPT ![t] = p]
             /\ pc[t] = "build" /\ pc' = [pc EXCEPT ![t] = "launch"] /\ config' = config
      BY <2>1, Builds
    <3>2. /\ pc'[Main] = pc[Main]
          /\ (\E x \in Threads : pc[x] = "take") => \E x \in Threads : pc'[x] = "take"
      BY <3>1
    <3>3. ASSUME NEW q \in Procs \ {p} PROVE Fine(q)'
      <4>1. proc'[q] = proc[q] /\ (Untold(q)' => Untold(q)) BY <3>1
      <4> QED BY <3>1, <3>2, <4>1, MissKept
    <3>4. Fine(p)' BY <3>1 DEF Excused
    <3> QED BY <1>0, <3>3, <3>4
  <2>2. CASE Launch(t)
    <3>1. pc[t] = "launch" /\ hand[t] \in Procs BY <2>2 DEF Launch, CtlInv
    <3>0. PICK p \in Procs : p = hand[t]
      BY <3>1
    <3>2. /\ pc' = [pc EXCEPT ![t] = "publish"] /\ hand' = hand /\ config' = config
      BY <2>2 DEF Launch
    <3>3. /\ \A q \in Procs \ {p} : proc'[q] = proc[q]
          /\ proc'[p].st = "live" /\ proc'[p].told = proc[p].told
          /\ proc'[p].old = proc[p].old /\ proc'[p].conf = proc[p].conf
          /\ proc'[p].misled = proc[p].misled
          /\ proc[p].missed \/ pc[Main] \notin {"idle", "take"} => proc'[p].missed
      BY <2>2, <3>0, <3>1, Launches
    <3>4. /\ pc'[Main] = pc[Main]
          /\ (\E x \in Threads : pc[x] = "take") => \E x \in Threads : pc'[x] = "take"
      BY <3>1, <3>2
    <3>5. ASSUME NEW q \in Procs \ {p} PROVE Fine(q)'
      <4>1. proc'[q] = proc[q] /\ (Untold(q)' => Untold(q)) BY <3>0, <3>1, <3>2, <3>3
      <4> QED BY <3>2, <3>4, <4>1, MissKept
    <3>6. proc[p].st = "built" /\ ~proc[p].old
      BY <3>0, <3>1 DEF KeepInv
    <3>7. proc[p].conf # config => Excused(p)
      BY <3>1, <3>6 DEF MissInv
    <3>8. Excused(p) => Excused(p)'
      BY <3>2, <3>3, <3>4 DEF Excused
    <3>9. Fine(p)' BY <3>2, <3>3, <3>4, <3>6, <3>7, <3>8
    <3> QED BY <1>0, <3>5, <3>9
  <2>3. CASE LaunchFails(t)
    <3>1. /\ \A q \in Procs : proc'[q] = IF q = hand[t] THEN NoWorker ELSE proc[q]
          /\ pc' = [pc EXCEPT ![t] = "idle"] /\ hand' = [hand EXCEPT ![t] = NoProc]
          /\ pc[t] \in {"build", "launch"} /\ config' = config
      BY <2>3 DEF LaunchFails
    <3>2. /\ pc'[Main] = pc[Main]
          /\ (\E x \in Threads : pc[x] = "take") => \E x \in Threads : pc'[x] = "take"
      BY <3>1
    <3>3. ASSUME NEW q \in Procs PROVE Fine(q)'
      <4>1. CASE q = hand[t] BY <3>1, <4>1, Fixed
      <4>2. CASE q # hand[t]
        <5>1. proc'[q] = proc[q] /\ (Untold(q)' => Untold(q)) BY <3>1, <4>2
        <5> QED BY <3>1, <3>2, <5>1, MissKept
      <4> QED BY <4>1, <4>2
    <3> QED BY <1>0, <3>3
  <2>4. CASE StartCheck(t) \/ Publish(t) \/ Poll(t)
    <3>1. /\ proc' = proc /\ config' = config /\ pc[t] \in {"start", "publish", "poll"}
          /\ \A x \in Threads \ {t} : pc'[x] = pc[x]
          /\ hand' = hand \/ hand' = [hand EXCEPT ![t] = NoProc]
      BY <2>4 DEF StartCheck, Publish, Poll
    <3>2. /\ pc'[Main] = pc[Main]
          /\ (\E x \in Threads : pc[x] = "take") => \E x \in Threads : pc'[x] = "take"
      BY <3>1
    <3>3. ASSUME NEW q \in Procs PROVE Fine(q)'
      <4>1. proc'[q] = proc[q] /\ (Untold(q)' => Untold(q)) BY <3>1
      <4> QED BY <3>1, <3>2, <4>1, MissKept
    <3> QED BY <1>0, <3>3
  <2> QED BY <1>1, <2>1, <2>2, <2>3, <2>4 DEF ThreadStep
<1>2. ASSUME NEW t \in Threads, StopStep(t), prog' = prog PROVE MissInv'
  <2>1. CASE StopTake(t)
    <3>1. CASE cmd = NoProc
      <4>1. \A p \in Procs : /\ proc'[p].st = proc[p].st /\ proc'[p].told = proc[p].told
                              /\ proc'[p].old = proc[p].old
                              /\ (proc[p].missed \/ InHand(p) => proc'[p].missed)
        BY <2>1, <3>1, Misses
      <4>2. \A x \in Threads : pc'[x] = "term" <=> pc[x] = "term"
        BY <2>1, <3>1 DEF StopTake, AfterStop
      <4>3. hand' = hand
        BY <2>1, <3>1 DEF StopTake
      <4>4. ASSUME NEW p \in Procs, Untold(p)' \/ proc'[p].st = "built" PROVE proc'[p].missed
        <5>1. Untold(p) \/ proc[p].st = "built" BY <4>1, <4>2, <4>3, <4>4
        <5>2. CASE proc[p].old /\ Untold(p) BY <4>1, <5>2 DEF MissInv
        <5>3. CASE ~proc[p].old /\ Untold(p)
          <6>1. InHand(p) BY <3>1, <5>3 DEF KeepInv, Kept, InHand
          <6> QED BY <4>1, <6>1
        <5>4. CASE proc[p].st = "built"
          <6>1. InHand(p) BY <5>4 DEF KeepInv, InHand
          <6> QED BY <4>1, <6>1
        <5> QED BY <5>1, <5>2, <5>3, <5>4
      <4>5. \A p \in Procs : Fine(p)' BY <4>4 DEF Excused
      <4> QED BY <1>0, <4>5
    <3>2. CASE cmd # NoProc
      <4>1. hand' = [hand EXCEPT ![t] = cmd] /\ pc' = [pc EXCEPT ![t] = "term"] /\ proc' = proc
        BY <2>1, <3>2 DEF StopTake
      <4>2. \A x \in Threads : pc[x] \notin {"launch", "publish"}
        BY <3>2 DEF CtlInv
      <4>3. \A p \in Procs : Untold(p)' => Untold(p) /\ p # cmd
        BY <2>1, <4>1 DEF StopTake
      <4>4. \A p \in Procs : Untold(p)' => proc[p].old
        BY <4>2, <4>3 DEF KeepInv, Kept
      <4>5. \A p \in Procs : proc[p].st # "built"
        BY <4>2 DEF KeepInv
      <4>6. \A p \in Procs : Fine(p)' BY <4>1, <4>3, <4>4, <4>5 DEF MissInv
      <4> QED BY <1>0, <4>6
    <3> QED BY <3>1, <3>2
  <2>2. CASE StopTerm(t) \/ StopDone(t)
    <3>1. /\ \A p \in Procs : proc'[p] = proc[p]
                              \/ (p = hand[t] /\ Alive(p) /\ (proc'[p].told \/ proc'[p].st = "dead"))
          /\ hand' = hand \/ (pc[t] = "wait" /\ hand' = [hand EXCEPT ![t] = NoProc])
          /\ pc[t] \in {"term", "wait"} /\ config' = config
          /\ \A x \in Threads \ {t} : pc'[x] = pc[x]
      BY <2>2, Fixed DEF StopTerm, StopDone, AfterStop
    <3>2. /\ pc'[Main] = pc[Main] \/ pc[Main] \notin {"idle", "take"}
          /\ (\E x \in Threads : pc[x] = "take") => \E x \in Threads : pc'[x] = "take"
      BY <3>1
    <3>3. pc[t] = "term" => /\ proc' = [proc EXCEPT ![hand[t]] = IF Alive(hand[t]) THEN Told ELSE @]
                            /\ hand' = hand
      BY <2>2 DEF StopTerm, StopDone
    <3>4. ASSUME NEW p \in Procs PROVE Fine(p)'
      <4>1. CASE Untold(p)' \/ proc'[p].st = "built"
        <5>1. CASE ~(proc'[p] = proc[p])
          <6>1. p = hand[t] /\ Alive(p) /\ (proc'[p].told \/ proc'[p].st = "dead") BY <3>1, <5>1
          <6>2. proc'[p] = Told \/ proc'[p] = Dead \/ proc'[p] = proc[p]
            BY <2>2, <6>1 DEF StopTerm, StopDone
          <6> QED BY <4>1, <5>1, <6>1, <6>2, Fixed
        <5>2. CASE proc'[p] = proc[p]
          <6>1. ASSUME Untold(p)' PROVE Untold(p)
            <7>1. pc[t] = "term" => p # hand[t] BY <3>3, <5>2, <6>1, Fixed
            <7> QED BY <3>1, <5>2, <6>1, <7>1
          <6> QED BY <3>1, <3>2, <5>2, <6>1, MissKept
        <5> QED BY <5>1, <5>2
      <4>2. CASE ~(Untold(p)' \/ proc'[p].st = "built") BY <4>2
      <4> QED BY <4>1, <4>2
    <3> QED BY <1>0, <3>4
  <2> QED BY <1>2, <2>1, <2>2 DEF StopStep
<1>3. ASSUME NEW p \in Procs, ProcStep(p), prog' = prog PROVE MissInv'
  <2>1. UNCHANGED <<hand, pc, config>>
    BY <1>3 DEF ProcStep, Reap, Die
  <2>2. /\ \A q \in Procs \ {p} : proc'[q] = proc[q]
        /\ proc'[p].st = "dead" \/ proc'[p] = NoWorker
    BY <1>3, Fixed DEF ProcStep, Reap, Die
  <2>3. ASSUME NEW q \in Procs \ {p} PROVE Fine(q)'
    <3>1. proc'[q] = proc[q] /\ (Untold(q)' => Untold(q)) BY <2>1, <2>2
    <3> QED BY <2>1, <3>1, MissKept
  <2>4. Fine(p)' BY <2>2, Fixed
  <2> QED BY <1>0, <2>3, <2>4
<1>4. ASSUME NEW u \in Users, UserStep(u), prog' = prog PROVE MissInv'
  <2> u # Main /\ u \in Threads OBVIOUS
  <2>1. CASE Arrive(u) \/ LoadConfig(u) \/ SaveFails(u)
    <3>1. /\ proc' = proc /\ config' = config /\ hand' = hand /\ pc[u] \in {"idle", "merge"}
          /\ \A x \in Threads \ {u} : pc'[x] = pc[x]
      BY <2>1 DEF Arrive, LoadConfig, SaveFails
    <3>2. /\ pc'[Main] = pc[Main]
          /\ (\E x \in Threads : pc[x] = "take") => \E x \in Threads : pc'[x] = "take"
      BY <3>1
    <3>3. ASSUME NEW q \in Procs PROVE Fine(q)'
      <4>1. proc'[q] = proc[q] /\ (Untold(q)' => Untold(q)) BY <3>1
      <4> QED BY <3>1, <3>2, <4>1, MissKept
    <3> QED BY <1>0, <3>3
  <2>2. CASE SaveConfig(u)
    <3>1. pc[u] = "merge" /\ hand' = hand /\ \A x \in Threads \ {u} : pc'[x] = pc[x]
      BY <2>2 DEF SaveConfig
    <3>2. pc'[Main] = pc[Main] /\ pc'[u] \in {"idle", "take"}
      BY <2>2 DEF SaveConfig
    <3>3. CASE config' # copy[u]
      <4>1. pc'[u] = "take" /\ proc' = proc BY <2>2, <3>3 DEF SaveConfig
      <4>2. \A q \in Procs : Excused(q)' BY <4>1 DEF Excused
      <4>3. \A q \in Procs : Untold(q)' => Untold(q) BY <3>1, <4>1
      <4>4. \A q \in Procs : Fine(q)' BY <3>2, <4>1, <4>2, <4>3 DEF MissInv
      <4> QED BY <1>0, <4>4
    <3>4. CASE config' = copy[u]
      <4>1. ASSUME NEW q \in Procs
            PROVE  /\ proc'[q].st = proc[q].st /\ proc'[q].told = proc[q].told /\ proc'[q].old = proc[q].old
                   /\ proc'[q].conf = proc[q].conf /\ proc'[q].missed = proc[q].missed
                   /\ (proc[q].misled \/ (InUse(q) /\ config' # config) => proc'[q].misled)
        BY <2>2, <3>4, Misleads
      <4>2. ASSUME NEW q \in Procs, Untold(q)' PROVE Untold(q)
        BY <3>1, <4>1, <4>2
      <4>3. ASSUME NEW q \in Procs, Untold(q)' \/ proc'[q].st = "built", ~proc'[q].old, proc'[q].conf # config'
            PROVE  Excused(q)'
        <5>1. Untold(q) \/ proc[q].st = "built" BY <4>1, <4>2, <4>3
        <5>2. CASE config' # config
          <6>1. InUse(q) BY <5>1 DEF InUse
          <6> QED BY <4>1, <5>2, <6>1 DEF Excused
        <5>3. CASE config' = config
          <6>1. Excused(q) BY <4>1, <4>3, <5>1, <5>3 DEF MissInv
          <6>2. (\E x \in Threads : pc[x] = "take") => \E x \in Threads : pc'[x] = "take" BY <3>1
          <6> QED BY <4>1, <6>1, <6>2 DEF Excused
        <5> QED BY <5>2, <5>3
      <4>4. ASSUME NEW q \in Procs PROVE Fine(q)'
        <5>1. Untold(q)' /\ proc'[q].old => proc'[q].missed BY <4>1, <4>2 DEF MissInv
        <5>2. Untold(q)' /\ ~proc'[q].old /\ pc'[Main] \notin {"idle", "take"} => proc'[q].missed
          BY <3>2, <4>1, <4>2 DEF MissInv
        <5> QED BY <4>3, <5>1, <5>2
      <4> QED BY <1>0, <4>4
    <3> QED BY <3>3, <3>4
  <2> QED BY <1>4, <2>1, <2>2 DEF UserStep
<1>5. CASE Signal
  <2>1. pc'[Main] = "take" /\ proc' = proc /\ hand' = hand /\ pc[Main] = "idle"
        /\ \A x \in Threads \ {Main} : pc'[x] = pc[x]
    BY <1>5 DEF Signal, CtlInv
  <2>2. \A q \in Procs : Untold(q)' => Untold(q) BY <2>1
  <2>3. \A q \in Procs : Fine(q)' BY <2>1, <2>2 DEF MissInv, Excused
  <2> QED BY <1>0, <2>3
<1>6. CASE StopServing
  <2>1. /\ proc' = proc /\ config' = config /\ hand' = hand /\ pc[Main] = "backend"
        /\ \A x \in Threads \ {Main} : pc'[x] = pc[x]
        /\ pc'[Main] = "drain"
    BY <1>6 DEF StopServing
  <2>2. (\E x \in Threads : pc[x] = "take") => \E x \in Threads : pc'[x] = "take"
    BY <2>1
  <2>3. ASSUME NEW q \in Procs PROVE Fine(q)'
    <3>1. proc'[q] = proc[q] /\ (Untold(q)' => Untold(q)) BY <2>1
    <3> QED BY <2>1, <2>2, <3>1, MissKept
  <2> QED BY <1>0, <2>3
<1>7. CASE Ends
  <2>1. PICK b \in BOOLEAN : /\ proc' = [p \in Procs |-> Orphan(p, b)]
                             /\ b \/ (/\ pc[Main] \in {"backend", "drain"}
                                      /\ \A t \in Threads : pc[t] # "term")
    BY <1>7 DEF Ends
  <2>2. ASSUME NEW p \in Procs PROVE Fine(p)'
    <3>1. proc'[p] = Orphan(p, b) /\ proc[p] \in Recs BY <2>1
    <3>2. proc'[p].st # "built" BY <3>1, Orphans
    <3>3. CASE Untold(p)'
      <4>1. proc[p].st = "live" /\ ~proc[p].told /\ proc'[p].old /\ (proc'[p].missed <=> proc[p].missed \/ b)
        BY <3>1, <3>3, Orphans
      <4>2. proc'[p].missed
        <5>1. CASE b BY <4>1, <5>1
        <5>2. CASE ~b
          <6>1. Untold(p) BY <2>1, <4>1, <5>2
          <6> QED BY <2>1, <4>1, <5>2, <6>1 DEF MissInv
        <5> QED BY <5>1, <5>2
      <4> QED BY <4>1, <4>2
    <3>4. CASE ~Untold(p)' BY <3>2, <3>4
    <3> QED BY <3>3, <3>4
  <2> QED BY <1>0, <2>2
<1>8. CASE Reboot
  <2>1. \A p \in Procs : proc'[p] = NoWorker BY <1>8 DEF Reboot
  <2>2. \A p \in Procs : Fine(p)' BY <2>1, Fixed
  <2> QED BY <1>0, <2>2
<1>9. CASE Begins
  <2>1. PICK l \in {"start", "idle"} : pc' = [pc EXCEPT ![Warm] = l]
    BY <1>9 DEF Begins
  <2>2. /\ proc' = proc /\ hand' = hand /\ config' = config /\ pc'[Main] = "idle"
        /\ \A x \in Threads : pc[x] = "idle"
    BY <1>9, <2>1 DEF Begins, CtlInv
  <2>3. ASSUME NEW q \in Procs PROVE Fine(q)'
    <3>1. proc'[q] = proc[q] /\ (Untold(q)' => Untold(q)) BY <2>2
    <3> QED BY <2>2, <3>1, MissKept
  <2> QED BY <1>0, <2>3
<1>10. CASE UNCHANGED <<prog, worker>> BY <1>10 DEF worker, MissInv, Excused
<1> QED BY Steps, <1>1, <1>2, <1>3, <1>4, <1>5, <1>6, <1>7, <1>8, <1>9, <1>10

-----------------------------------------------------------------------------
LEMMA Initially == Init => IInv
<1> SUFFICES ASSUME Init PROVE IInv
  OBVIOUS
<1> USE DEF Init
<1> Nobody \notin Threads /\ Warm # Main /\ Warm \in Threads /\ Main \in Threads /\ NoProc \notin Procs
    /\ MaxCalls \in Nat /\ MaxCrashes \in Nat
  BY ServiceAssumption DEF Threads
<1>1. WorkerTypes BY Fixed, ServiceAssumption DEF WorkerTypes
<1>2. UpdateTypes BY DEF UpdateTypes, Busy
<1>3. CtlInv BY DEF CtlInv
<1>4. KeepInv /\ MissInv BY Fixed DEF KeepInv, MissInv, Fine, Untold, Alive
<1>5. StatusInv BY DEF StatusInv, Busy
<1> QED BY Typed, <1>1, <1>2, <1>3, <1>4, <1>5 DEF IInv

(* The inductive invariant holds: startMu has the holder its program       *)
(* counters say, and a stop sees or misses every worker (voice.go:36-145). *)
THEOREM Stopping == Spec => []IInv
<1>1. IInv /\ [Next]_vars => IInv'
  BY WorkerTypesNext, UpdateNext, CtlNext, KeepNext, MissNext, Typed DEF IInv, TypeOK, WorkerTypes, UpdateTypes, Recs
<1> QED BY Initially, <1>1, PTL DEF Spec

(* Every variable keeps its type, and startMu is held only between the two *)
(* ends of startVoiceWorker (voice.go:36-93).                              *)
THEOREM Typing == Spec => []TypeOK
<1>1. IInv => TypeOK
  BY DEF IInv
<1> QED BY Stopping, <1>1, PTL

(* The running program knows its one worker; a worker outlives its program *)
(* only if no stop could see it, and has other settings than the file only *)
(* in the cases SettingsAreCurrent names, overtaken and unreadable         *)
(* configurations included, for any number of handlers (startVoiceWorker,  *)
(* stopVoiceWorker, handleConfigV04).                                      *)
THEOREM WorkersAreKept == Spec => []WorkersAccounted
<1>1. IInv => WorkersAccounted
  <2> SUFFICES ASSUME IInv PROVE WorkersAccounted
    OBVIOUS
  <2> USE DEF IInv
  <2>1. \A p \in Procs : Kept(p) => p = cmd \/ InHand(p)
    BY DEF Kept, InHand
  <2>2. \A p, q \in Procs : Kept(p) /\ Kept(q) => p = q
    BY ServiceAssumption DEF Kept, CtlInv
  <2>3. OneWorker
    BY <2>1, <2>2 DEF OneWorker, KeepInv
  <2>4. OnlyMissedWorkersStay
    BY DEF OnlyMissedWorkersStay, MissInv, Fine
  <2>5. SettingsAreCurrent
    BY DEF SettingsAreCurrent, MissInv, Fine, Excused
  <2> QED BY <2>3, <2>4, <2>5 DEF WorkersAccounted
<1> QED BY Stopping, <1>1, PTL

(* The status file is true for any number of updaters and clicks           *)
(* (handleUpdateApply, update-self.sh).                                    *)
THEOREM StatusIsKept == Spec => []StatusIsTrue
<1>1. IInv => StatusIsTrue
  BY DEF IInv, StatusInv, StatusIsTrue
<1> QED BY Stopping, <1>1, PTL
=============================================================================
