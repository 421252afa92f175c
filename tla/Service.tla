-------------------------------- MODULE Service --------------------------------
(***************************************************************************)
(* The program as a service: the voice worker process it keeps, its        *)
(* shutdown and the self-update that replaces it.                          *)
(*                                                                         *)
(* The worker is detached (Setpgid), so it outlives a program that does    *)
(* not stop it.  startVoiceWorker holds startMu, stopVoiceWorker does not. *)
(* main stops the worker first and the HTTP server last.  handleUpdateApply*)
(* starts update-self.sh, which the program does not wait for; the two     *)
(* share a status file.  Several updaters may run at once.                 *)
(*                                                                         *)
(* Package manager, worker and start script are external or depend on what *)
(* is installed: they succeed or fail as a choice.  The configuration can  *)
(* fail to be read; the status file is taken to be readable and writable.  *)
(***************************************************************************)
EXTENDS Naturals

CONSTANTS
    Users,        \* handlers that start, stop or restart the worker or save a configuration
    Warm,         \* the goroutine that warms the worker up at the start
    Main,
    Clickers,     \* handlers of /api/update/apply
    Updaters,     \* bound: processes of update-self.sh at one time
    Procs,        \* bound: worker processes at one time
    MaxCalls,     \* bound: how many requests, clicks, stops and crashes there are
    MaxCrashes,   \* bound: how many of them are power losses or kills
    Settings,     \* what the keys of the worker may be set to
    Default,      \* what they are when the file cannot be read
    Nobody, NoProc

Threads == Users \cup {Warm, Main}

ASSUME ServiceAssumption ==
    /\ Warm \notin Users /\ Main \notin Users \cup {Warm} /\ Nobody \notin Threads
    /\ NoProc \notin Procs /\ Default \in Settings
    /\ MaxCalls \in Nat /\ MaxCrashes \in Nat

VARIABLES
    prog,         \* on, ending (told to stop, still serving), closed (serves no more), off
    startMu, cmd, \* voiceProcess
    pc, then,     \* where each thread is, and what it does after a stop
    hand,         \* the process it launches or is stopping
    proc,         \* the worker processes, each with the settings it has
    config,       \* the keys of the worker in the configuration file
    copy,         \* and in the copy a configuration handler has loaded
    click,        \* where the update handlers are
    updater,      \* where update-self.sh is
    status,       \* the status file
    installed,    \* the installed version
    calls, crashes,
    start         \* history: what the start script has made of the last stop

worker  == <<startMu, cmd, pc, then, hand, proc, config, copy>>
program == <<prog, start>>
update  == <<click, updater, status, installed>>
bounds  == <<calls, crashes>>
vars    == <<program, worker, update, bounds>>

Call == calls < MaxCalls /\ calls' = calls + 1

NoWorker == [st |-> "free", told |-> FALSE, old |-> FALSE, conf |-> Default,
             missed |-> FALSE, misled |-> FALSE]

Serving == prog \in {"on", "ending"}
Busy    == {"downloading", "verifying", "installing", "restarting"}

Init ==
    /\ prog = "on" /\ startMu = Nobody /\ cmd = NoProc
    /\ pc = [t \in Threads |-> IF t = Warm THEN "start" ELSE "idle"]
    /\ then = [t \in Threads |-> "return"] /\ hand = [t \in Threads |-> NoProc]
    /\ proc = [p \in Procs |-> NoWorker]
    /\ config \in Settings /\ copy = [u \in Users |-> Default]
    /\ click = [c \in Clickers |-> "idle"] /\ updater = [h \in Updaters |-> "off"]
    /\ status = "idle" /\ installed = "old" /\ calls = 0 /\ crashes = 0
    /\ start = "none"

Goto(t, l) == pc' = [pc EXCEPT ![t] = l]
Alive(p)   == proc[p].st = "live"
InUse(p)   == proc[p].st \in {"built", "live"}
Told       == [NoWorker EXCEPT !.st = "live", !.told = TRUE]
Dead       == [NoWorker EXCEPT !.st = "dead"]
InHand(p)  == \E t \in Threads : hand[t] = p

-----------------------------------------------------------------------------
(***************************************************************************)
(* startVoiceWorker and ensureVoiceReady.                                  *)
(***************************************************************************)
StartCheck(t) ==
    /\ pc[t] = "start" /\ startMu = Nobody
    /\ IF cmd # NoProc
       THEN Goto(t, "poll") /\ UNCHANGED startMu
       ELSE Goto(t, "build") /\ startMu' = t
    /\ UNCHANGED <<cmd, then, hand, proc, config, copy>>

(* It reads the configuration and builds the command with it.              *)
Build(t) ==
    /\ pc[t] = "build"
    /\ \E p \in Procs, c \in {config, Default} :
          /\ proc[p].st = "free" /\ ~InHand(p)
          /\ proc' = [proc EXCEPT ![p] = [NoWorker EXCEPT !.st = "built", !.conf = c, !.misled = c # config]]
          /\ hand' = [hand EXCEPT ![t] = p]
    /\ Goto(t, "launch")
    /\ UNCHANGED <<startMu, cmd, then, config, copy>>

(* cmd.Start; main has looked for a worker once it is past "take".         *)
Launch(t) ==
    /\ pc[t] = "launch"
    /\ proc' = [proc EXCEPT ![hand[t]].st = "live", ![hand[t]].missed = @ \/ pc[Main] \notin {"idle", "take"}]
    /\ Goto(t, "publish")
    /\ UNCHANGED <<startMu, cmd, then, hand, config, copy>>

LaunchFails(t) ==
    /\ pc[t] \in {"build", "launch"} /\ startMu' = Nobody /\ Goto(t, "idle")
    /\ hand' = [hand EXCEPT ![t] = NoProc]
    /\ proc' = [p \in Procs |-> IF p = hand[t] THEN NoWorker ELSE proc[p]]
    /\ UNCHANGED <<cmd, then, config, copy>>

Publish(t) ==
    /\ pc[t] = "publish"
    /\ cmd' = hand[t] /\ hand' = [hand EXCEPT ![t] = NoProc]
    /\ startMu' = Nobody /\ Goto(t, "poll")
    /\ UNCHANGED <<then, proc, config, copy>>

(* Some process answers on the port, the command is gone, or 20 seconds    *)
(* are over.                                                               *)
Poll(t) ==
    /\ pc[t] = "poll" /\ Goto(t, "idle")
    /\ UNCHANGED <<startMu, cmd, then, hand, proc, config, copy>>

-----------------------------------------------------------------------------
(***************************************************************************)
(* stopVoiceWorker.                                                        *)
(***************************************************************************)
AfterStop(t) ==
    Goto(t, IF t = Main THEN "backend" ELSE IF then[t] = "ensure" THEN "start" ELSE "idle")

(* What is being launched or stopped by another thread is missed.          *)
StopTake(t) ==
    /\ pc[t] = "take"
    /\ IF cmd = NoProc
       THEN /\ AfterStop(t)
            /\ proc' = [p \in Procs |-> [proc[p] EXCEPT !.missed = @ \/ InHand(p)]]
            /\ then' = [then EXCEPT ![t] = "return"] /\ UNCHANGED <<cmd, hand>>
       ELSE /\ hand' = [hand EXCEPT ![t] = cmd] /\ cmd' = NoProc
            /\ Goto(t, "term") /\ UNCHANGED <<proc, then>>
    /\ UNCHANGED <<startMu, config, copy>>

StopTerm(t) ==
    /\ pc[t] = "term" /\ Goto(t, "wait")
    /\ proc' = [proc EXCEPT ![hand[t]] = IF Alive(hand[t]) THEN Told ELSE @]
    /\ UNCHANGED <<startMu, cmd, then, hand, config, copy>>

(* It has gone, or after 20 looks it is killed; nobody waits for that.     *)
StopDone(t) ==
    /\ pc[t] = "wait" /\ AfterStop(t)
    /\ then' = [then EXCEPT ![t] = "return"] /\ hand' = [hand EXCEPT ![t] = NoProc]
    /\ IF Alive(hand[t]) THEN proc' = [proc EXCEPT ![hand[t]] = Dead] ELSE UNCHANGED proc
    /\ UNCHANGED <<startMu, cmd, config, copy>>

(* Mutant: the command is cleared, whose it may be.                        *)
ReapAny(p) ==
    /\ proc[p].st = "dead" /\ (\A t \in Threads : hand[t] = p => pc[t] # "publish")
    /\ proc' = [proc EXCEPT ![p] = NoWorker] /\ cmd' = NoProc
    /\ UNCHANGED <<startMu, pc, then, hand, config, copy>>

(* The goroutine in Wait clears the command if it is still its own; the    *)
(* process of a program that has gone is reaped by init.                   *)
Reap(p) ==
    /\ proc[p].st = "dead" /\ (\A t \in Threads : hand[t] = p => pc[t] # "publish")
    /\ proc' = [proc EXCEPT ![p] = NoWorker]
    /\ cmd' = IF cmd = p THEN NoProc ELSE cmd
    /\ UNCHANGED <<startMu, pc, then, hand, config, copy>>

(* The worker may exit at any time, at once if the port is taken.          *)
Die(p) ==
    /\ Alive(p) /\ proc' = [proc EXCEPT ![p] = Dead]
    /\ UNCHANGED <<startMu, cmd, pc, then, hand, config, copy>>

(* A voice request or handleVoiceAction.                                   *)
Arrive(u) ==
    /\ Serving /\ pc[u] = "idle"
    /\ \/ Goto(u, "start") /\ UNCHANGED then
       \/ \E r \in {"return", "ensure"} : Goto(u, "take") /\ then' = [then EXCEPT ![u] = r]
    /\ UNCHANGED <<startMu, cmd, hand, proc, config, copy>>

(* handleConfigV04 loads the configuration and changes its copy.  Handlers *)
(* that change none of the worker's keys do the same.                      *)
LoadConfig(u) ==
    /\ Serving /\ pc[u] = "idle" /\ Goto(u, "merge")
    /\ \E c \in {config, Default} : copy' = [copy EXCEPT ![u] = c]
    /\ UNCHANGED <<startMu, cmd, then, hand, proc, config>>

(* It saves the whole copy, and stops the worker if it has changed one of  *)
(* its keys in it.  A copy that is out of date takes back what another     *)
(* handler has saved: workers are misled.                                  *)
SaveConfig(u) ==
    /\ pc[u] = "merge"
    /\ config' \in Settings
    /\ IF config' = copy[u]
       THEN /\ Goto(u, "idle") /\ UNCHANGED then
            /\ proc' = [p \in Procs |-> [proc[p] EXCEPT !.misled = @ \/ (InUse(p) /\ config' # config)]]
       ELSE Goto(u, "take") /\ then' = [then EXCEPT ![u] = "return"] /\ UNCHANGED proc
    /\ copy' = [copy EXCEPT ![u] = Default]
    /\ UNCHANGED <<startMu, cmd, hand>>

(* What was asked for is not valid, or the save fails.                     *)
SaveFails(u) ==
    /\ pc[u] = "merge" /\ Goto(u, "idle")
    /\ copy' = [copy EXCEPT ![u] = Default]
    /\ UNCHANGED <<startMu, cmd, then, hand, proc, config>>

-----------------------------------------------------------------------------
(***************************************************************************)
(* The end and the start of the program.                                   *)
(***************************************************************************)
(* SIGTERM, from start-stop.sh.                                            *)
Signal ==
    /\ prog = "on" /\ prog' = "ending" /\ start' = "none" /\ Goto(Main, "take")
    /\ UNCHANGED <<startMu, cmd, then, hand, proc, config, copy>>

(* stopBackend has returned: the server takes no more requests.            *)
StopServing ==
    /\ pc[Main] = "backend" /\ prog' = "closed" /\ Goto(Main, "drain")
    /\ UNCHANGED <<start, startMu, cmd, then, hand, proc, config, copy, update, bounds>>

(* What a program that has gone leaves behind.                             *)
Gone ==
    /\ startMu' = Nobody /\ cmd' = NoProc /\ copy' = [u \in Users |-> Default]
    /\ then' = [t \in Threads |-> "return"] /\ hand' = [t \in Threads |-> NoProc]
    /\ click' = [c \in Clickers |-> "idle"]
    /\ UNCHANGED <<status, installed, config>>

Orphan(p, unseen) ==
    IF Alive(p) /\ ~proc[p].told
    THEN [NoWorker EXCEPT !.st = "live", !.old = TRUE, !.missed = proc[p].missed \/ unseen]
    ELSE IF proc[p].st = "built" THEN NoWorker ELSE proc[p]

(* Shutdown gives the handlers five seconds; 20 seconds after its signal   *)
(* start-stop.sh kills a program that is still there.  Both are longer     *)
(* than a handler takes from the end of its lock to kill(2).               *)
Exit ==
    /\ pc[Main] \in {"backend", "drain"} /\ prog' = "off" /\ Gone
    /\ \A t \in Threads : pc[t] # "term"
    /\ pc' = [t \in Threads |-> "idle"]
    /\ proc' = [p \in Procs |-> Orphan(p, FALSE)]
    /\ UNCHANGED <<start, updater, bounds>>

(* start_service, unless the program runs, be it that it is just ending.   *)
(* It ends with an error if the package is disabled, its server is missing *)
(* or does not stay up for a second.  The warm-up goes only as far as the  *)
(* assets are there and something is to be resident.                       *)
StartScript ==
    \/ /\ prog = "off" /\ prog' = "on" /\ start' = "up"
       /\ \E l \in {"start", "idle"} : Goto(Warm, l)
       /\ UNCHANGED <<startMu, cmd, then, hand, proc, config, copy>>
    \/ prog = "off" /\ start' = "failed" /\ UNCHANGED <<prog, worker>>
    \/ prog \in {"ending", "closed"} /\ start' = "too soon" /\ UNCHANGED <<prog, worker>>
    \/ prog = "on" /\ UNCHANGED <<program, worker>>

UserStops  == Signal /\ Call /\ UNCHANGED <<update, crashes>>
UserStarts == prog = "off" /\ StartScript /\ UNCHANGED <<update, bounds>>

Crash == crashes < MaxCrashes /\ crashes' = crashes + 1 /\ Call

(* The program is killed, or panics: nobody looks after its worker.        *)
Killed ==
    /\ prog # "off" /\ prog' = "off" /\ start' = "none" /\ Gone /\ Crash
    /\ pc' = [t \in Threads |-> "idle"]
    /\ proc' = [p \in Procs |-> Orphan(p, TRUE)]
    /\ UNCHANGED updater

(* Power loss: the files stay, and the machine starts the service.         *)
Reboot ==
    /\ prog' \in {"on", "off"} /\ start' = (IF prog' = "on" THEN "up" ELSE "failed") /\ Gone /\ Crash
    /\ pc' = [t \in Threads |-> IF t = Warm /\ prog' = "on" THEN "start" ELSE "idle"]
    /\ proc' = [p \in Procs |-> NoWorker]
    /\ updater' = [h \in Updaters |-> "off"]

-----------------------------------------------------------------------------
(***************************************************************************)
(* handleUpdateApply and update-self.sh.                                   *)
(***************************************************************************)
Click(c) ==
    /\ Serving /\ click[c] = "idle" /\ status \notin Busy
    /\ click' = [click EXCEPT ![c] = "checked"]
    /\ UNCHANGED <<updater, status, installed>>

(* There is nothing newer, or something cannot be read or written.         *)
Decline(c) ==
    /\ click[c] \in {"checked", "newer"} /\ click' = [click EXCEPT ![c] = "idle"]
    /\ UNCHANGED <<updater, status, installed>>

FindNewer(c) ==
    /\ click[c] = "checked" /\ installed = "old" /\ click' = [click EXCEPT ![c] = "newer"]
    /\ UNCHANGED <<updater, status, installed>>

WriteStarting(c) ==
    /\ click[c] = "newer"
    /\ status' = "starting" /\ click' = [click EXCEPT ![c] = "spawn"]
    /\ UNCHANGED <<updater, installed>>

Spawn(c) ==
    /\ click[c] = "spawn" /\ click' = [click EXCEPT ![c] = "idle"]
    /\ \/ \E h \in Updaters :
             updater[h] = "off" /\ updater' = [updater EXCEPT ![h] = "begin"] /\ UNCHANGED status
       \/ status' \in {status, "failed"} /\ UNCHANGED updater      \* no log file, or no process
    /\ UNCHANGED installed

To(h, l) == updater' = [updater EXCEPT ![h] = l]

(* The three stages before anything is installed.                          *)
Stage == [begin |-> "downloading", downloading |-> "verifying", verifying |-> "installing"]

Proceed(h) ==
    /\ updater[h] \in DOMAIN Stage
    /\ To(h, Stage[updater[h]]) /\ status' = Stage[updater[h]]
    /\ UNCHANGED <<program, worker, click, installed>>

(* The package manager stops the program, and has stopped it.  What the    *)
(* start script makes of this stop is still to be seen.                    *)
InstallerStops(h) ==
    /\ updater[h] = "installing" /\ Signal /\ UNCHANGED update

InstallerStopped(h) ==
    /\ updater[h] = "installing" /\ prog = "off" /\ To(h, "stopped") /\ start' = "none"
    /\ UNCHANGED <<prog, worker, click, status, installed>>

Install(h) ==
    /\ updater[h] = "stopped" /\ To(h, "verify") /\ installed' \in {installed, "new"}
    /\ UNCHANGED <<program, worker, click, status>>

(* Mutant: what the package manager reports is believed.                   *)
VerifyNothing(h) ==
    /\ updater[h] = "verify"
    /\ To(h, "restarting") /\ status' = "restarting"
    /\ UNCHANGED <<program, worker, click, installed>>

Verify(h) ==
    /\ updater[h] = "verify" /\ installed = "new"
    /\ To(h, "restarting") /\ status' = "restarting"
    /\ UNCHANGED <<program, worker, click, installed>>

Restart(h) ==
    /\ updater[h] = "restarting" /\ StartScript /\ To(h, "restarted")
    /\ UNCHANGED <<click, status, installed>>

Complete(h) ==
    /\ updater[h] = "restarted" /\ To(h, "off") /\ status' = "complete"
    /\ UNCHANGED <<program, worker, click, installed>>

(* Mutant: a failed installation is reported and that is all.              *)
FailStays(h) ==
    /\ updater[h] \in DOMAIN Stage \cup {"installing", "stopped", "verify"}
    /\ status' = "failed" /\ To(h, "off")
    /\ UNCHANGED <<program, worker, click, installed>>

(* fail(): once the installation has started, the program is started again.*)
Fail(h) ==
    /\ \/ updater[h] \in DOMAIN Stage /\ To(h, "off")
       \/ updater[h] \in {"installing", "stopped"} /\ To(h, "failing")
       \/ updater[h] = "verify" /\ installed = "old" /\ To(h, "failing")
    /\ status' = "failed"
    /\ UNCHANGED <<program, worker, click, installed>>

FailRestart(h) ==
    /\ updater[h] = "failing" /\ StartScript /\ To(h, "off")
    /\ UNCHANGED <<click, status, installed>>

(* The script is killed, or its file, which the next update rewrites, ends *)
(* early under the shell that reads it.                                    *)
UpdaterKilled(h) ==
    /\ updater[h] \notin {"off", "killed"} /\ To(h, "killed") /\ Crash
    /\ UNCHANGED <<program, worker, click, status, installed>>

-----------------------------------------------------------------------------
StopStep(t)   == StopTake(t) \/ StopTerm(t) \/ StopDone(t)
WorkerStep(t) ==
    StartCheck(t) \/ Build(t) \/ Launch(t) \/ LaunchFails(t) \/ Publish(t) \/ Poll(t) \/ StopStep(t)
SaveStep(u)   == SaveConfig(u) \/ SaveFails(u)
ProcStep(p)   == Reap(p) \/ Die(p)
ClickStep(c)  == Decline(c) \/ FindNewer(c) \/ WriteStarting(c) \/ Spawn(c)
UpdateStep(h) ==
    \/ Proceed(h) \/ InstallerStops(h) \/ InstallerStopped(h) \/ Install(h) \/ Verify(h)
    \/ Restart(h) \/ Complete(h) \/ Fail(h) \/ FailRestart(h)
MainStep      == (StopStep(Main) /\ UNCHANGED <<program, update, bounds>>) \/ StopServing \/ Exit

Next ==
    \/ /\ \/ \E t \in Users \cup {Warm} : WorkerStep(t)
          \/ \E u \in Users : SaveStep(u)
          \/ \E p \in Procs : ProcStep(p)
       /\ UNCHANGED <<program, update, bounds>>
    \/ \E u \in Users : (Arrive(u) \/ LoadConfig(u)) /\ Call /\ UNCHANGED <<program, update, crashes>>
    \/ MainStep \/ UserStops \/ UserStarts \/ Killed \/ Reboot
    \/ \E c \in Clickers : Click(c) /\ Call /\ UNCHANGED <<program, worker, crashes>>
    \/ \E c \in Clickers : ClickStep(c) /\ UNCHANGED <<program, worker, bounds>>
    \/ \E h \in Updaters : (UpdateStep(h) /\ UNCHANGED bounds) \/ UpdaterKilled(h)

Spec == Init /\ [][Next]_vars

(* update-self.sh runs until it ends, is killed or the power is lost.      *)
(* Nothing is assumed of the program: a stop that hangs is a failure of    *)
(* the installation.                                                       *)
FairSpec ==
    /\ Spec
    /\ \A h \in Updaters : WF_vars(UpdateStep(h) /\ UNCHANGED bounds)

-----------------------------------------------------------------------------
TypeOK ==
    /\ prog \in {"on", "ending", "closed", "off"} /\ start \in {"none", "up", "failed", "too soon"}
    /\ calls \in 0..MaxCalls /\ crashes \in 0..MaxCrashes
    /\ startMu \in Threads \cup {Nobody} /\ cmd \in Procs \cup {NoProc}
    /\ startMu # Nobody => pc[startMu] \in {"build", "launch", "publish"}
    /\ pc \in [Threads -> {"idle", "start", "build", "launch", "publish", "poll", "take", "term", "wait",
                           "merge", "backend", "drain"}]
    /\ then \in [Threads -> {"return", "ensure"}] /\ hand \in [Threads -> Procs \cup {NoProc}]
    /\ proc \in [Procs -> [st : {"free", "built", "live", "dead"}, told : BOOLEAN, old : BOOLEAN,
                           conf : Settings, missed : BOOLEAN, misled : BOOLEAN]]
    /\ config \in Settings /\ copy \in [Users -> Settings]
    /\ click \in [Clickers -> {"idle", "checked", "newer", "spawn"}]
    /\ updater \in [Updaters -> {"off", "begin", "downloading", "verifying", "installing", "stopped",
                                 "verify", "restarting", "restarted", "failing", "killed"}]
    /\ status \in Busy \cup {"idle", "starting", "complete", "failed"}
    /\ installed \in {"old", "new"}

Untold(p) == Alive(p) /\ ~proc[p].told /\ ~\E t \in Threads : hand[t] = p /\ pc[t] = "term"

(* The running program has at most one worker that is not being stopped,   *)
(* and knows it.                                                           *)
OneWorker ==
    \A p \in Procs : Untold(p) /\ ~proc[p].old =>
        /\ p = cmd \/ InHand(p)
        /\ \A q \in Procs : Untold(q) /\ ~proc[q].old => p = q

(* A worker outlives its program only if the program was killed, if the    *)
(* worker was being launched when main, or a stop before, looked for one,  *)
(* for stopVoiceWorker does not wait for a start, or if a request launched *)
(* it after main had looked.                                               *)
OnlyMissedWorkersStay ==
    \A p \in Procs : Untold(p) /\ proc[p].old => proc[p].missed

(* A worker has other settings than the file only while a stop is under    *)
(* way, if a stop missed it in its launch, or if it or a handler went by   *)
(* something else than what was last saved: a file that could not be read, *)
(* or a copy that another save had overtaken.                              *)
SettingsAreCurrent ==
    \A p \in Procs : Untold(p) /\ ~proc[p].old /\ proc[p].conf # config =>
        proc[p].missed \/ proc[p].misled \/ \E t \in Threads : pc[t] = "take"

WorkersAccounted == OneWorker /\ OnlyMissedWorkersStay /\ SettingsAreCurrent

(* The status file tells the truth, however many updaters run: it refuses  *)
(* the next update only while one runs, unless one was killed or the power *)
(* was lost, which leaves it as it is for ever; and what it calls complete *)
(* is installed.                                                           *)
StatusIsTrue ==
    /\ status \in Busy /\ crashes = 0 => \E h \in Updaters : updater[h] # "off"
    /\ status \in {"restarting", "complete"} => installed = "new"

(* An update that finds the program stopped, or has it stopped, does not   *)
(* end without the start script: whether it succeeds or fails, the program *)
(* is on again, or the script has ended with an error or has taken the     *)
(* program that was still ending for one that runs.                        *)
ComesBack ==
    \A h \in Updaters : updater[h] \in {"installing", "stopped"} /\ prog # "on" ~>
        prog = "on" \/ start \in {"failed", "too soon"} \/ updater[h] = "killed"
=============================================================================
