------------------------------ MODULE LLMBackend ------------------------------
(***************************************************************************)
(* The lifecycle of the local llama-server process (admin/manager.go):     *)
(* who starts it, who stops it, and how request leases keep the idle       *)
(* unloader away from it.                                                  *)
(*                                                                         *)
(* Every goroutine that touches the backend is an actor with a program     *)
(* counter.  startMu is modelled as a lock with an owner, because it is    *)
(* held across slow work (model download, exec, the wait for SIGTERM).     *)
(* mu only ever protects a few assignments and is never held while its     *)
(* owner waits, so each of its critical sections is one atomic step.       *)
(*                                                                         *)
(* The configuration file is the pair (provider, autoUnload); time is one  *)
(* bit, idle: "time.Since(lastUsed) > idle timeout".  The llama-server     *)
(* processes, the network and the upstream are external.                   *)
(***************************************************************************)
EXTENDS Naturals, FiniteSets

CONSTANTS
    Proxies,      \* requests that take their lease first: handleProxy, the playground, runJob
    Voices,       \* voice turns: ensureReady first, lease around the generation only
    Operators,    \* POST /api/llm/start, /stop, /restart and the boot warmup
    Configurers,  \* PUT /api/config and POST /api/models/select
    Idler,        \* the idleLoop goroutine
    Procs,        \* llama-server process identities, reused once reaped
    NoOne, NoProc

Requests == Proxies \cup Voices
Admins   == Operators \cup Configurers
Actors   == Requests \cup Admins \cup {Idler}

ASSUME ActorsAssumption ==
    /\ Proxies \cap Voices = {} /\ Requests \cap Admins = {}
    /\ Operators \cap Configurers = {} /\ Idler \notin Requests \cup Admins
    /\ NoOne \notin Actors /\ NoProc \notin Procs
    /\ IsFiniteSet(Requests)

Providers == {"local", "openrouter"}
Config    == [provider : Providers, autoUnload : BOOLEAN]

VARIABLES
    startMu,         \* owner of manager.startMu
    cmd,             \* manager.cmd: the process the manager believes in
    activeRequests,  \* manager.activeRequests
    idle,            \* time.Since(manager.lastUsed) > LLM_IDLE_TIMEOUT_SECONDS
    config,          \* the configuration file
    pc,              \* where each actor is
    lcmd,            \* the local variable "cmd" of startBackend / stopBackendLocked
    copy,            \* the provider in the configuration a Configurer loaded and will save
    proc,            \* state of each llama-server process
    sig              \* strongest signal sent to each live process

lockVars == <<startMu, pc, lcmd>>
srvVars  == <<proc, sig>>
useVars  == <<activeRequests, idle>>
cfgVars  == <<config, copy>>
vars     == <<startMu, cmd, activeRequests, idle, config, pc, lcmd, copy, proc, sig>>

Labels == {"idle",
           "ensure", "lockStart", "startCheck", "launch", "publish", "poll",   \* ensureReady
           "ready", "failed",                                                  \* its two results
           "using",                                                            \* a voice turn generates
           "save", "lockStop", "stopTake", "sigterm", "await",                 \* stopBackend
           "lockIdle"}                                                         \* idleLoop

InEnsure   == {"ensure", "lockStart", "startCheck", "launch", "publish", "poll"}
HoldsStart == {"startCheck", "launch", "publish", "stopTake", "sigterm", "await"}

Alive(p)      == proc[p] \in {"loading", "serving"}
Unsignalled   == {p \in Procs : Alive(p) /\ sig[p] = "none"}
LeaseHolders  == {a \in Proxies : pc[a] # "idle"} \cup {a \in Voices : pc[a] = "using"}
Running       == cmd # NoProc

TypeOK ==
    /\ startMu \in Actors \cup {NoOne}
    /\ cmd \in Procs \cup {NoProc}
    /\ activeRequests \in Nat
    /\ idle \in BOOLEAN
    /\ config \in Config
    /\ pc \in [Actors -> Labels]
    /\ lcmd \in [Actors -> Procs \cup {NoProc}]
    /\ copy \in [Configurers -> Providers]
    /\ proc \in [Procs -> {"free", "loading", "serving", "exited", "reaped"}]
    /\ sig \in [Procs -> {"none", "term", "kill"}]

Init ==
    /\ startMu = NoOne /\ cmd = NoProc
    /\ activeRequests = 0 /\ idle = FALSE
    /\ config \in Config
    /\ pc = [a \in Actors |-> "idle"]
    /\ lcmd = [a \in Actors |-> NoProc]
    /\ copy = [c \in Configurers |-> "local"]
    /\ proc = [p \in Procs |-> "free"]
    /\ sig = [p \in Procs |-> "none"]

(***************************************************************************)
(* Control helpers.                                                        *)
(***************************************************************************)
Goto(a, l)      == pc' = [pc EXCEPT ![a] = l]
Move(a, l1, l2) == pc[a] = l1 /\ Goto(a, l2)
Lock(a)         == startMu = NoOne /\ startMu' = a
Unlock(a)       == startMu = a /\ startMu' = NoOne

-----------------------------------------------------------------------------
(* Mutant: beginLLMUse takes only mu.                                      *)
BeginLLMUseNoStartMu(a) ==
    /\ \/ a \in Proxies /\ Move(a, "idle", "ensure")
       \/ a \in Voices  /\ Move(a, "ready", "using")
    /\ activeRequests' = activeRequests + 1
    /\ idle' = FALSE
    /\ UNCHANGED <<startMu, cmd, lcmd, cfgVars, srvVars>>

(***************************************************************************)
(* Leases.  beginLLMUse takes startMu, so it waits for a start or a stop   *)
(* in progress; the release function takes only mu.                        *)
(***************************************************************************)
BeginLLMUse(a) ==
    /\ \/ a \in Proxies /\ Move(a, "idle", "ensure")
       \/ a \in Voices  /\ Move(a, "ready", "using")
    /\ startMu = NoOne
    /\ activeRequests' = activeRequests + 1
    /\ idle' = FALSE
    /\ UNCHANGED <<startMu, cmd, lcmd, cfgVars, srvVars>>

(* Mutant: the error return of the proxy path forgets the release.         *)
EndLLMUseForgottenOnError(a) ==
    /\ \/ a \in Proxies /\ Move(a, "ready", "idle") /\ activeRequests' = activeRequests - 1
       \/ a \in Proxies /\ Move(a, "failed", "idle") /\ UNCHANGED activeRequests
       \/ a \in Voices /\ Move(a, "using", "idle") /\ activeRequests' = activeRequests - 1
    /\ idle' = FALSE
    /\ UNCHANGED <<startMu, cmd, lcmd, cfgVars, srvVars>>

(* Mutant: released explicitly and once more by defer, with no floor at 0. *)
EndLLMUseTwice(a) ==
    /\ \/ a \in Proxies /\ \/ Move(a, "ready", "idle")
                           \/ Move(a, "failed", "idle")
       \/ a \in Voices /\ Move(a, "using", "idle")
    /\ activeRequests' = activeRequests - 2
    /\ idle' = FALSE
    /\ UNCHANGED <<startMu, cmd, lcmd, cfgVars, srvVars>>

EndLLMUse(a) ==
    /\ \/ a \in Proxies /\ \/ Move(a, "ready", "idle")
                           \/ Move(a, "failed", "idle")
       \/ a \in Voices /\ Move(a, "using", "idle")
    /\ activeRequests' = IF activeRequests > 0 THEN activeRequests - 1 ELSE 0
    /\ idle' = FALSE
    /\ UNCHANGED <<startMu, cmd, lcmd, cfgVars, srvVars>>

(* A voice turn reaches ensureReady without a lease.                       *)
VoiceBegin(a) ==
    /\ a \in Voices /\ Move(a, "idle", "ensure")
    /\ UNCHANGED <<startMu, cmd, lcmd, useVars, cfgVars, srvVars>>

(* ensureReady's caller without a lease gives up or is done.               *)
Return(a) ==
    /\ \/ a \in Operators /\ Move(a, "ready", "idle")
       \/ a \in Operators \cup Voices /\ Move(a, "failed", "idle")
    /\ UNCHANGED <<startMu, cmd, lcmd, useVars, cfgVars, srvVars>>

-----------------------------------------------------------------------------
(***************************************************************************)
(* ensureReady and startBackend.                                           *)
(***************************************************************************)
EnsureReady(a) ==
    /\ pc[a] = "ensure"
    /\ IF config.provider = "openrouter"
       THEN Goto(a, "ready") \/ Goto(a, "failed")      \* openRouterReady: key present or not
       ELSE Goto(a, "lockStart")
    /\ UNCHANGED <<startMu, cmd, lcmd, useVars, cfgVars, srvVars>>

(* Mutant: startBackend trusts the provider its caller read before startMu. *)
StartLockStaleConfig(a) ==
    /\ Move(a, "lockStart", "startCheck") /\ Lock(a)
    /\ UNCHANGED <<cmd, lcmd, useVars, cfgVars, srvVars>>

(* startBackend locks startMu and only then reads the configuration: a     *)
(* provider changed in between is seen, and nothing is started.            *)
StartLock(a) ==
    /\ pc[a] = "lockStart"
    /\ startMu = NoOne
    /\ IF config.provider = "local"
       THEN Goto(a, "startCheck") /\ startMu' = a
       ELSE Goto(a, "poll") /\ UNCHANGED startMu
    /\ UNCHANGED <<cmd, lcmd, useVars, cfgVars, srvVars>>

(* Mutant: the "already running" return leaves startMu locked.             *)
StartCheckKeepsLock(a) ==
    /\ IF Running THEN Move(a, "startCheck", "poll") ELSE Move(a, "startCheck", "launch")
    /\ UNCHANGED <<startMu, cmd, lcmd, useVars, cfgVars, srvVars>>

StartCheck(a) ==
    /\ IF Running
       THEN Move(a, "startCheck", "poll") /\ Unlock(a)
       ELSE Move(a, "startCheck", "launch") /\ UNCHANGED startMu
    /\ UNCHANGED <<cmd, lcmd, useVars, cfgVars, srvVars>>

(* Model download, argument parsing, the log file and exec, all under      *)
(* startMu; any of them may fail, or the context may end.                  *)
LaunchFails(a) ==
    /\ Move(a, "launch", "failed") /\ Unlock(a)
    /\ UNCHANGED <<cmd, lcmd, useVars, cfgVars, srvVars>>

(* Mutant: startMu is released before manager.cmd is set.                  *)
LaunchUnlocksEarly(a) ==
    /\ Move(a, "launch", "publish") /\ Unlock(a)
    /\ \E p \in Procs :
          /\ proc[p] = "free"
          /\ proc' = [proc EXCEPT ![p] = "loading"]
          /\ lcmd' = [lcmd EXCEPT ![a] = p]
    /\ UNCHANGED <<cmd, sig, useVars, cfgVars>>

Launch(a) ==
    /\ Move(a, "launch", "publish")
    /\ \E p \in Procs :
          /\ proc[p] = "free"
          /\ proc' = [proc EXCEPT ![p] = "loading"]
          /\ lcmd' = [lcmd EXCEPT ![a] = p]
    /\ UNCHANGED <<startMu, cmd, sig, useVars, cfgVars>>

Publish(a) ==
    /\ Move(a, "publish", "poll") /\ Unlock(a)
    /\ cmd' = lcmd[a]
    /\ lcmd' = [lcmd EXCEPT ![a] = NoProc]
    /\ idle' = FALSE
    /\ UNCHANGED <<activeRequests, cfgVars, srvVars>>

(* The health poll.  Whatever process serves the port answers, tracked by  *)
(* the manager or not.                                                     *)
PollHealthy(a) ==
    /\ Move(a, "poll", "ready")
    /\ \E p \in Procs : proc[p] = "serving"
    /\ UNCHANGED <<startMu, cmd, lcmd, useVars, cfgVars, srvVars>>

PollExited(a) ==
    /\ Move(a, "poll", "failed")
    /\ \A p \in Procs : proc[p] # "serving"
    /\ ~Running
    /\ UNCHANGED <<startMu, cmd, lcmd, useVars, cfgVars, srvVars>>

PollDeadline(a) ==
    /\ Move(a, "poll", "failed")
    /\ UNCHANGED <<startMu, cmd, lcmd, useVars, cfgVars, srvVars>>

-----------------------------------------------------------------------------
(***************************************************************************)
(* stopBackend.  It does not look at the leases.                           *)
(***************************************************************************)
(* Where a stop returns to: the handler is done, and /restart goes on with *)
(* ensureReady.  Whether an Operator stops or restarts shows only here.    *)
AfterStop(a) == {"idle"} \cup (IF a \in Operators THEN {"ensure"} ELSE {})

StopLock(a) ==
    /\ Move(a, "lockStop", "stopTake") /\ Lock(a)
    /\ UNCHANGED <<cmd, lcmd, useVars, cfgVars, srvVars>>

StopTake(a) ==
    /\ pc[a] = "stopTake"
    /\ IF Running
       THEN /\ lcmd' = [lcmd EXCEPT ![a] = cmd]
            /\ cmd' = NoProc
            /\ Goto(a, "sigterm") /\ UNCHANGED startMu
       ELSE (\E l \in AfterStop(a) : Goto(a, l)) /\ Unlock(a) /\ UNCHANGED <<cmd, lcmd>>
    /\ UNCHANGED <<useVars, cfgVars, srvVars>>

(* A signal to a process that has ended changes nothing.                   *)
Signal(p, s) == sig' = IF Alive(p) THEN [sig EXCEPT ![p] = s] ELSE sig

SigTerm(a) ==
    /\ Move(a, "sigterm", "await")
    /\ Signal(lcmd[a], "term")
    /\ UNCHANGED <<startMu, cmd, lcmd, proc, useVars, cfgVars>>

(* Mutant: the stop gives up after five seconds without SIGKILL.           *)
StopDoneNoKill(a) ==
    /\ pc[a] = "await" /\ Unlock(a)
    /\ \E l \in AfterStop(a) : Goto(a, l)
    /\ lcmd' = [lcmd EXCEPT ![a] = NoProc]
    /\ UNCHANGED <<cmd, proc, sig, useVars, cfgVars>>

(* Twenty polls of kill(pid, 0): either it fails, or SIGKILL is sent and   *)
(* the process is not waited for.                                          *)
StopDone(a) ==
    /\ pc[a] = "await" /\ Unlock(a)
    /\ \E l \in AfterStop(a) : Goto(a, l)
    /\ \/ proc[lcmd[a]] \in {"reaped", "free"} /\ UNCHANGED sig
       \/ Signal(lcmd[a], "kill")
    /\ lcmd' = [lcmd EXCEPT ![a] = NoProc]
    /\ UNCHANGED <<cmd, proc, useVars, cfgVars>>

-----------------------------------------------------------------------------
(***************************************************************************)
(* idleLoop.  The configuration is read before startMu is taken; the check *)
(* and the stop are made under it.                                         *)
(***************************************************************************)
IdleTick ==
    /\ config.provider = "local" /\ config.autoUnload
    /\ Move(Idler, "idle", "lockIdle")
    /\ UNCHANGED <<startMu, cmd, lcmd, useVars, cfgVars, srvVars>>

ShouldUnload == Running /\ activeRequests = 0 /\ idle

IdleCheck ==
    /\ pc[Idler] = "lockIdle"
    /\ startMu = NoOne
    /\ IF ShouldUnload
       THEN Goto(Idler, "stopTake") /\ startMu' = Idler
       ELSE Goto(Idler, "idle") /\ UNCHANGED startMu
    /\ UNCHANGED <<cmd, lcmd, useVars, cfgVars, srvVars>>

-----------------------------------------------------------------------------
(***************************************************************************)
(* Administrative requests.                                                *)
(***************************************************************************)
Operate(a) ==
    /\ a \in Operators /\ pc[a] = "idle"
    /\ Goto(a, "ensure") \/ Goto(a, "lockStop")
    /\ UNCHANGED <<startMu, cmd, lcmd, useVars, cfgVars, srvVars>>

(* A configuration handler loads the file, changes its copy and writes     *)
(* the whole copy back: two steps with no lock around them.                *)
LoadConfig(a) ==
    /\ a \in Configurers /\ Move(a, "idle", "save")
    /\ copy' = [copy EXCEPT ![a] = config.provider]
    /\ UNCHANGED <<startMu, cmd, lcmd, useVars, config, srvVars>>

(* llmRuntimeKeyV04: a changed provider (or model, port, threads) stops    *)
(* the backend; LLM_AUTO_UNLOAD alone does not.  A save may also fail.     *)
SaveConfig(a) ==
    /\ a \in Configurers /\ pc[a] = "save"
    /\ \/ \E new \in Config, runtimeKey \in BOOLEAN :
            /\ config' = new
            /\ Goto(a, IF runtimeKey \/ new.provider # copy[a]
                       THEN "lockStop" ELSE "idle")
       \/ Goto(a, "idle") /\ UNCHANGED config
    /\ copy' = [copy EXCEPT ![a] = "local"]        \* the copy dies with the handler
    /\ UNCHANGED <<startMu, cmd, lcmd, useVars, srvVars>>

-----------------------------------------------------------------------------
(***************************************************************************)
(* The llama-server process (external), the Wait goroutine that startBackend *)
(* leaves behind for it, and the clock.                                    *)
(***************************************************************************)
ServerUp(p) ==
    /\ proc[p] = "loading"
    /\ \A q \in Procs : proc[q] # "serving"        \* the port is taken by one process
    /\ proc' = [proc EXCEPT ![p] = "serving"]
    /\ UNCHANGED <<startMu, cmd, pc, lcmd, sig, useVars, cfgVars>>

ServerExit(p) ==
    /\ Alive(p)
    /\ proc' = [proc EXCEPT ![p] = "exited"]
    /\ sig' = [sig EXCEPT ![p] = "none"]
    /\ UNCHANGED <<startMu, cmd, pc, lcmd, useVars, cfgVars>>

(* c.Wait() returns; the goroutine exists only after startBackend has      *)
(* published the process.                                                  *)
Reap(p) ==
    /\ proc[p] = "exited"
    /\ \A a \in Actors : ~(pc[a] = "publish" /\ lcmd[a] = p)
    /\ proc' = [proc EXCEPT ![p] = "reaped"]
    /\ UNCHANGED <<startMu, cmd, pc, lcmd, sig, useVars, cfgVars>>

(* Mutant: the Wait goroutine clears manager.cmd unconditionally.          *)
ClearCmdAlways(p) ==
    /\ proc[p] = "reaped"
    /\ \A a \in Actors : lcmd[a] # p
    /\ cmd' = NoProc
    /\ proc' = [proc EXCEPT ![p] = "free"]
    /\ UNCHANGED <<startMu, pc, lcmd, sig, useVars, cfgVars>>

(* ... and clears manager.cmd only if it still names this process.  The    *)
(* guard on lcmd keeps an identity from being reused while a stop still    *)
(* polls it.                                                               *)
ClearCmd(p) ==
    /\ proc[p] = "reaped"
    /\ \A a \in Actors : lcmd[a] # p
    /\ cmd' = IF cmd = p THEN NoProc ELSE cmd
    /\ proc' = [proc EXCEPT ![p] = "free"]
    /\ UNCHANGED <<startMu, pc, lcmd, sig, useVars, cfgVars>>

TimePasses ==
    /\ ~idle /\ idle' = TRUE
    /\ UNCHANGED <<startMu, cmd, pc, lcmd, activeRequests, cfgVars, srvVars>>

-----------------------------------------------------------------------------
EnsureStep(a) == \/ EnsureReady(a) \/ StartLock(a) \/ StartCheck(a)
                 \/ LaunchFails(a) \/ Launch(a) \/ Publish(a)
                 \/ PollHealthy(a) \/ PollExited(a) \/ PollDeadline(a)
StopStep(a)   == StopLock(a) \/ StopTake(a) \/ SigTerm(a) \/ StopDone(a)
LeaseStep(a)  == BeginLLMUse(a) \/ EndLLMUse(a) \/ VoiceBegin(a) \/ Return(a)
AdminStep(a)  == Operate(a) \/ LoadConfig(a) \/ SaveConfig(a)
IdleStep      == IdleTick \/ IdleCheck
ServerStep(p) == ServerUp(p) \/ ServerExit(p) \/ Reap(p) \/ ClearCmd(p)

Next ==
    \/ \E a \in Actors : EnsureStep(a) \/ StopStep(a)
    \/ \E a \in Requests \cup Operators : LeaseStep(a)
    \/ \E a \in Admins : AdminStep(a)
    \/ IdleStep
    \/ \E p \in Procs : ServerStep(p)
    \/ TimePasses

Spec == Init /\ [][Next]_vars

(***************************************************************************)
(* Fairness.  A goroutine that can run does run (WF); a goroutine waiting  *)
(* for startMu gets it even if others keep taking it (SF: a Go mutex hands *)
(* itself to a waiter that has waited for 1 ms).  Steps under startMu end: *)
(* the download runs under the load deadline and the SIGTERM wait is five  *)
(* seconds.  A killed process dies; one that was only asked to need not.   *)
(* Clients, administrators and the upstream promise nothing.               *)
(***************************************************************************)
Fairness ==
    /\ \A a \in Actors : /\ WF_vars(EnsureStep(a)) /\ SF_vars(StartLock(a))
                         /\ WF_vars(StopStep(a)) /\ SF_vars(StopLock(a))
    /\ WF_vars(IdleTick) /\ SF_vars(IdleCheck) /\ WF_vars(TimePasses)
    /\ \A p \in Procs : /\ WF_vars(sig[p] = "kill" /\ ServerExit(p))
                        /\ WF_vars(Reap(p)) /\ WF_vars(ClearCmd(p))

FairSpec == Spec /\ Fairness

-----------------------------------------------------------------------------
(***************************************************************************)
(* Properties.                                                             *)
(***************************************************************************)

(* activeRequests is exactly the number of requests between beginLLMUse    *)
(* and its release, on every path out of the handlers (manager.go:186).    *)
(* One forgotten or doubled release would pin the model in memory forever, *)
(* or let the unloader kill it under a request.                            *)
LeaseCountExact == activeRequests = Cardinality(LeaseHolders)

(* From the moment idleLoop has decided to unload until the process has    *)
(* been dealt with, no request holds a lease: the decision cannot go stale *)
(* while the stop is carried out (manager.go:221-231).                     *)
NoUnloadUnderLease == pc[Idler] \in {"stopTake", "sigterm", "await"} => LeaseHolders = {}

(* A live llama-server that nobody has signalled is the one manager.cmd    *)
(* names, or is in the hands of the goroutine holding startMu: the late    *)
(* end of an old process never makes the manager forget a new one          *)
(* (manager.go:103-114).                                                   *)
NoStrayServer ==
    \A p \in Unsignalled : cmd = p \/ (startMu # NoOne /\ lcmd[startMu] = p)

(* Two requests that find the backend stopped do not both start one:       *)
(* at most one live process has not been told to stop (manager.go:50-64).  *)
OneServer == \A p, q \in Unsignalled : p = q

(* Once the provider is OpenRouter and no configuration handler still has  *)
(* a stop to make, every llama-server has been told to stop: a start that  *)
(* raced the switch is seen by the switch's stop (startBackend reads the   *)
(* provider under startMu, manager.go:50-57; config_handler_v04.go:127).   *)
StopPending    == \E c \in Configurers : pc[c] \in {"lockStop", "stopTake", "sigterm"}
SwitchStopsServer == config.provider = "openrouter" /\ ~StopPending => Unsignalled = {}

(* What ensureReady has told a voice turn is ready is not unloaded by      *)
(* idleLoop before the turn has its lease (manager.go:183).                *)
VoiceTurnKeepsServer ==
    [][pc[Idler] = "stopTake" /\ pc'[Idler] = "sigterm" => \A v \in Voices : pc[v] # "ready"]_vars

(* Every ensureReady returns, whatever happens to the process, the lock    *)
(* and the configuration meanwhile (manager.go:145-181).                   *)
EnsureReadyReturns == \A a \in Actors : pc[a] \in InEnsure ~> pc[a] \notin InEnsure

(* Auto-unload does free the memory: if from some time on nobody uses the  *)
(* local backend and auto-unload is on, eventually no llama-server is left *)
(* (manager.go:208-233).                                                   *)
Quiet == /\ \A a \in Requests \cup Admins : pc[a] = "idle"
         /\ config.provider = "local" /\ config.autoUnload
IdleServerUnloaded == <>[]Quiet => <>[](\A p \in Procs : ~Alive(p))

=============================================================================
