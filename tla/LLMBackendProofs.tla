--------------------------- MODULE LLMBackendProofs ---------------------------
(***************************************************************************)
(* Proofs about LLMBackend, for every set of requests, administrators and  *)
(* llama-server processes.                                                 *)
(***************************************************************************)
EXTENDS LLMBackend, FiniteSetTheorems, TLAPS

(* Every variable keeps its type in every reachable state of the backend   *)
(* manager (manager.go:32-45).                                             *)
THEOREM Typing == Spec => []TypeOK
<1>1. Init => TypeOK
  <2> SUFFICES ASSUME Init PROVE TypeOK
    OBVIOUS
  <2>1. startMu \in Actors \cup {NoOne} /\ cmd \in Procs \cup {NoProc} /\ activeRequests \in Nat
    BY DEF Init
  <2>2. idle \in BOOLEAN /\ config \in Config
    BY DEF Init
  <2>3. pc \in [Actors -> Labels] /\ lcmd \in [Actors -> Procs \cup {NoProc}]
    BY DEF Init, Labels
  <2>4. copy \in [Configurers -> Providers]
    BY DEF Init, Providers
  <2>5. /\ proc \in [Procs -> {"free", "loading", "serving", "exited", "reaped"}]
        /\ sig \in [Procs -> {"none", "term", "kill"}]
    BY DEF Init
  <2> QED BY <2>1, <2>2, <2>3, <2>4, <2>5 DEF TypeOK
<1>2. TypeOK /\ [Next]_vars => TypeOK'
  <2> SUFFICES ASSUME TypeOK, [Next]_vars PROVE TypeOK'
    OBVIOUS
  <2> USE DEF TypeOK
  <2>1. ASSUME NEW a \in Actors, EnsureStep(a) PROVE TypeOK'
    <3> USE DEF Goto, Move, Lock, Unlock, Labels, useVars, cfgVars, srvVars
    <3>1. CASE EnsureReady(a) BY <3>1 DEF EnsureReady
    <3>2. CASE StartLock(a) BY <3>2 DEF StartLock
    <3>3. CASE StartCheck(a) BY <3>3 DEF StartCheck
    <3>4. CASE LaunchFails(a) BY <3>4 DEF LaunchFails
    <3>5. CASE Launch(a) BY <3>5 DEF Launch
    <3>6. CASE Publish(a) BY <3>6 DEF Publish
    <3>7. CASE PollHealthy(a) BY <3>7 DEF PollHealthy
    <3>8. CASE PollExited(a) BY <3>8 DEF PollExited
    <3>9. CASE PollDeadline(a) BY <3>9 DEF PollDeadline
    <3> QED BY <2>1, <3>1, <3>2, <3>3, <3>4, <3>5, <3>6, <3>7, <3>8, <3>9 DEF EnsureStep
  <2>2. ASSUME NEW a \in Actors, StopStep(a) PROVE TypeOK'
    <3> USE DEF Goto, Move, Lock, Unlock, Labels, useVars, cfgVars, srvVars
    <3>1. CASE StopLock(a) BY <3>1 DEF StopLock
    <3>2. CASE StopTake(a) BY <3>2 DEF StopTake, AfterStop, Running
    <3>3. CASE SigTerm(a) BY <3>3 DEF SigTerm, Signal
    <3>4. CASE StopDone(a) BY <3>4 DEF StopDone, AfterStop, Signal
    <3> QED BY <2>2, <3>1, <3>2, <3>3, <3>4 DEF StopStep
  <2>3. ASSUME NEW a \in Requests \cup Operators, LeaseStep(a) PROVE TypeOK'
    <3> USE DEF Goto, Move, Labels, useVars, cfgVars, srvVars
    <3>1. CASE BeginLLMUse(a)
      <4>1. activeRequests' \in Nat BY <3>1 DEF BeginLLMUse
      <4>2. \E l \in Labels : Goto(a, l) BY <3>1 DEF BeginLLMUse
      <4>3. pc' \in [Actors -> Labels] BY <4>2
      <4> QED BY <3>1, <4>1, <4>3 DEF BeginLLMUse
    <3>2. CASE EndLLMUse(a)
      <4>1. activeRequests' \in Nat BY <3>2 DEF EndLLMUse
      <4>2. \E l \in Labels : Goto(a, l) BY <3>2 DEF EndLLMUse
      <4>3. pc' \in [Actors -> Labels] BY <4>2
      <4> QED BY <3>2, <4>1, <4>3 DEF EndLLMUse
    <3>3. CASE VoiceBegin(a) BY <3>3 DEF VoiceBegin
    <3>4. CASE Return(a) BY <3>4 DEF Return
    <3> QED BY <2>3, <3>1, <3>2, <3>3, <3>4 DEF LeaseStep
  <2>4. ASSUME NEW a \in Admins, AdminStep(a) PROVE TypeOK'
    <3> USE DEF Goto, Move, Labels, useVars, cfgVars, srvVars, Config, Providers
    <3> config.provider \in Providers
      OBVIOUS
    <3> HIDE DEF Config, Providers
    <3>1. CASE Operate(a) BY <3>1 DEF Operate
    <3>2. CASE LoadConfig(a) BY <3>2 DEF LoadConfig
    <3>3. CASE SaveConfig(a) BY <3>3 DEF SaveConfig, Providers
    <3> QED BY <2>4, <3>1, <3>2, <3>3 DEF AdminStep
  <2>5. CASE IdleStep
    BY <2>5 DEF IdleStep, IdleTick, IdleCheck, Goto, Move, Labels, useVars, cfgVars,
                srvVars, Actors
  <2>6. ASSUME NEW p \in Procs, ServerStep(p) PROVE TypeOK'
    BY <2>6 DEF ServerStep, ServerUp, ServerExit, Reap, ClearCmd, useVars, cfgVars
  <2>7. CASE TimePasses
    BY <2>7 DEF TimePasses, cfgVars, srvVars
  <2>8. CASE UNCHANGED vars
    BY <2>8 DEF vars
  <2> QED BY <2>1, <2>2, <2>3, <2>4, <2>5, <2>6, <2>7, <2>8 DEF Next
<1> QED BY <1>1, <1>2, PTL DEF Spec

-----------------------------------------------------------------------------
(***************************************************************************)
(* The inductive invariant.  Control: who holds startMu can be read off    *)
(* the program counters (so at most one actor is inside), each kind of     *)
(* actor stays on its own path, and a process in somebody's hands is never *)
(* also the one manager.cmd names.                                         *)
(***************************************************************************)
LockInv == \A a \in Actors : pc[a] \in HoldsStart <=> startMu = a

PathInv ==
    /\ \A a \in Proxies : pc[a] \in {"idle", "ready", "failed"} \cup InEnsure
    /\ \A a \in Voices  : pc[a] \in {"idle", "ready", "failed", "using"} \cup InEnsure
    /\ pc[Idler] \in {"idle", "lockIdle", "stopTake", "sigterm", "await"}

HandInv == \A a \in Actors :
    /\ lcmd[a] # NoProc <=> pc[a] \in {"publish", "sigterm", "await"}
    /\ pc[a] \in {"launch", "publish", "sigterm", "await"} => cmd = NoProc

CtlInv == LockInv /\ PathInv /\ HandInv

LEMMA ActorsDistinct ==
    /\ Proxies \subseteq Actors /\ Voices \subseteq Actors /\ Admins \subseteq Actors
    /\ Operators \subseteq Actors /\ Configurers \subseteq Actors /\ Idler \in Actors
    /\ NoOne \notin Actors /\ NoProc \notin Procs
    /\ Proxies \cap Voices = {} /\ Proxies \cap Operators = {} /\ Proxies \cap Configurers = {}
    /\ Voices \cap Operators = {} /\ Voices \cap Configurers = {}
    /\ Operators \cap Configurers = {}
    /\ Idler \notin Proxies \cup Voices \cup Operators \cup Configurers
BY ActorsAssumption DEF Actors, Requests, Admins

LEMMA CtlInit == Init => CtlInv
BY ActorsDistinct DEF Init, CtlInv, LockInv, PathInv, HandInv, HoldsStart, InEnsure

LEMMA CtlEnsure ==
    ASSUME TypeOK, CtlInv, NEW a \in Actors, EnsureStep(a) PROVE CtlInv'
<1> USE ActorsDistinct DEF TypeOK, CtlInv, LockInv, PathInv, HandInv, HoldsStart, InEnsure,
                           Goto, Move, Lock, Unlock, Labels, useVars, cfgVars, srvVars
<1>1. CASE EnsureReady(a) BY <1>1 DEF EnsureReady
<1>2. CASE StartLock(a) BY <1>2 DEF StartLock
<1>3. CASE StartCheck(a) BY <1>3 DEF StartCheck, Running
<1>4. CASE LaunchFails(a) BY <1>4 DEF LaunchFails
<1>5. CASE Launch(a) BY <1>5 DEF Launch
<1>6. CASE Publish(a) BY <1>6 DEF Publish
<1>7. CASE PollHealthy(a) BY <1>7 DEF PollHealthy
<1>8. CASE PollExited(a) BY <1>8 DEF PollExited
<1>9. CASE PollDeadline(a) BY <1>9 DEF PollDeadline
<1> QED BY <1>1, <1>2, <1>3, <1>4, <1>5, <1>6, <1>7, <1>8, <1>9 DEF EnsureStep

LEMMA CtlStop ==
    ASSUME TypeOK, CtlInv, NEW a \in Actors, StopStep(a) PROVE CtlInv'
<1> USE ActorsDistinct DEF TypeOK, CtlInv, LockInv, PathInv, HandInv, HoldsStart, InEnsure,
                           Goto, Move, Lock, Unlock, Labels, useVars, cfgVars, srvVars
<1>1. CASE StopLock(a) BY <1>1 DEF StopLock
<1>2. CASE StopTake(a) BY <1>2 DEF StopTake, AfterStop, Running
<1>3. CASE SigTerm(a) BY <1>3 DEF SigTerm
<1>4. CASE StopDone(a) BY <1>4 DEF StopDone, AfterStop
<1> QED BY <1>1, <1>2, <1>3, <1>4 DEF StopStep

LEMMA CtlOther ==
    ASSUME TypeOK, CtlInv,
           \/ \E a \in Requests \cup Operators : LeaseStep(a)
           \/ \E a \in Admins : AdminStep(a)
           \/ IdleStep
           \/ \E p \in Procs : ServerStep(p)
           \/ TimePasses
           \/ UNCHANGED vars
    PROVE  CtlInv'
<1> USE ActorsDistinct DEF TypeOK, CtlInv, LockInv, PathInv, HandInv, HoldsStart, InEnsure,
                           Goto, Move, Lock, Unlock, Labels, useVars, cfgVars, srvVars
<1>1. ASSUME NEW a \in Requests \cup Operators, LeaseStep(a) PROVE CtlInv'
  <2> a \in Actors BY DEF Requests
  <2>1. CASE BeginLLMUse(a) BY <2>1 DEF BeginLLMUse
  <2>2. CASE EndLLMUse(a) BY <2>2 DEF EndLLMUse
  <2>3. CASE VoiceBegin(a) BY <2>3 DEF VoiceBegin
  <2>4. CASE Return(a) BY <2>4 DEF Return
  <2> QED BY <1>1, <2>1, <2>2, <2>3, <2>4 DEF LeaseStep
<1>2. ASSUME NEW a \in Admins, AdminStep(a) PROVE CtlInv'
  <2>1. CASE Operate(a) BY <2>1 DEF Operate
  <2>2. CASE LoadConfig(a) BY <2>2 DEF LoadConfig
  <2>3. CASE SaveConfig(a) BY <2>3 DEF SaveConfig
  <2> QED BY <1>2, <2>1, <2>2, <2>3 DEF AdminStep
<1>3. CASE IdleStep BY <1>3 DEF IdleStep, IdleTick, IdleCheck
<1>4. ASSUME NEW p \in Procs, ServerStep(p) PROVE CtlInv'
  BY <1>4 DEF ServerStep, ServerUp, ServerExit, Reap, ClearCmd
<1>5. CASE TimePasses BY <1>5 DEF TimePasses
<1>6. CASE UNCHANGED vars BY <1>6 DEF vars
<1> QED BY <1>1, <1>2, <1>3, <1>4, <1>5, <1>6

THEOREM Control == Spec => [](TypeOK /\ CtlInv)
<1>1. Init => CtlInv BY CtlInit
<1>2. TypeOK /\ CtlInv /\ [Next]_vars => CtlInv'
  BY CtlEnsure, CtlStop, CtlOther DEF Next
<1> QED BY <1>1, <1>2, Typing, PTL DEF Spec

-----------------------------------------------------------------------------
(***************************************************************************)
(* Leases.  Only beginLLMUse and its release change who holds a lease, and *)
(* each changes the count by exactly one.                                  *)
(***************************************************************************)
LEMMA HoldersFinite == ASSUME TypeOK PROVE IsFiniteSet(LeaseHolders)
<1>1. LeaseHolders \subseteq Requests BY DEF LeaseHolders, Requests
<1> QED BY <1>1, ActorsAssumption, FS_Subset

LEMMA HoldersUnchanged ==
    ASSUME TypeOK, CtlInv, [Next]_vars,
           \A a \in Requests : ~BeginLLMUse(a) /\ ~EndLLMUse(a)
    PROVE  LeaseHolders' = LeaseHolders /\ activeRequests' = activeRequests
<1> USE ActorsDistinct DEF TypeOK, CtlInv, PathInv, InEnsure, LeaseHolders, Goto, Move,
                           useVars, Labels
<1>1. ASSUME NEW a \in Actors, EnsureStep(a)
      PROVE  LeaseHolders' = LeaseHolders /\ activeRequests' = activeRequests
  <2>1. activeRequests' = activeRequests
    BY <1>1 DEF EnsureStep, EnsureReady, StartLock, StartCheck, LaunchFails, Launch, Publish,
                PollHealthy, PollExited, PollDeadline
  <2>2. \E l \in InEnsure \cup {"ready", "failed"} : pc[a] \in InEnsure /\ Goto(a, l)
    BY <1>1 DEF EnsureStep, EnsureReady, StartLock, StartCheck, LaunchFails, Launch, Publish,
                PollHealthy, PollExited, PollDeadline
  <2> QED BY <2>1, <2>2
<1>2. ASSUME NEW a \in Actors, StopStep(a)
      PROVE  LeaseHolders' = LeaseHolders /\ activeRequests' = activeRequests
  <2>1. activeRequests' = activeRequests
    BY <1>2 DEF StopStep, StopLock, StopTake, SigTerm, StopDone
  <2>2. /\ pc[a] \in {"lockStop", "stopTake", "sigterm", "await"}
        /\ \E l \in Labels : Goto(a, l)
    BY <1>2 DEF StopStep, StopLock, StopTake, SigTerm, StopDone, AfterStop
  <2>3. a \notin Proxies \cup Voices BY <2>2
  <2> QED BY <2>1, <2>2, <2>3
<1>3. ASSUME NEW a \in Requests \cup Operators, LeaseStep(a)
      PROVE  LeaseHolders' = LeaseHolders /\ activeRequests' = activeRequests
  <2>0. a \in Actors BY DEF Requests
  <2>1. CASE BeginLLMUse(a) BY <2>1 DEF BeginLLMUse, Requests
  <2>2. CASE EndLLMUse(a) BY <2>2 DEF EndLLMUse, Requests
  <2>3. CASE VoiceBegin(a) BY <2>0, <2>3 DEF VoiceBegin
  <2>4. CASE Return(a) BY <2>0, <2>4 DEF Return
  <2> QED BY <1>3, <2>1, <2>2, <2>3, <2>4 DEF LeaseStep
<1>4. ASSUME NEW a \in Admins, AdminStep(a)
      PROVE  LeaseHolders' = LeaseHolders /\ activeRequests' = activeRequests
  <2>1. CASE Operate(a) BY <2>1 DEF Operate
  <2>2. CASE LoadConfig(a) BY <2>2 DEF LoadConfig
  <2>3. CASE SaveConfig(a) BY <2>3 DEF SaveConfig
  <2> QED BY <1>4, <2>1, <2>2, <2>3 DEF AdminStep
<1>5. CASE IdleStep BY <1>5 DEF IdleStep, IdleTick, IdleCheck
<1>6. ASSUME NEW p \in Procs, ServerStep(p)
      PROVE  LeaseHolders' = LeaseHolders /\ activeRequests' = activeRequests
  BY <1>6 DEF ServerStep, ServerUp, ServerExit, Reap, ClearCmd
<1>7. CASE TimePasses BY <1>7 DEF TimePasses
<1>8. CASE UNCHANGED vars BY <1>8 DEF vars
<1> QED BY <1>1, <1>2, <1>3, <1>4, <1>5, <1>6, <1>7, <1>8 DEF Next

LEMMA BeginCounts ==
    ASSUME TypeOK, LeaseCountExact, NEW a \in Requests, BeginLLMUse(a)
    PROVE  LeaseCountExact'
<1> USE ActorsDistinct DEF TypeOK, LeaseHolders, Goto, Move
<1>1. a \in Actors BY DEF Requests
<1>2. LeaseHolders' = LeaseHolders \cup {a} /\ a \notin LeaseHolders
  BY <1>1 DEF BeginLLMUse
<1>3. Cardinality(LeaseHolders') = Cardinality(LeaseHolders) + 1
  BY <1>2, HoldersFinite, FS_AddElement
<1>4. activeRequests' = activeRequests + 1 BY DEF BeginLLMUse
<1> QED BY <1>3, <1>4 DEF LeaseCountExact

LEMMA EndCounts ==
    ASSUME TypeOK, LeaseCountExact, NEW a \in Requests, EndLLMUse(a)
    PROVE  LeaseCountExact'
<1> USE ActorsDistinct DEF TypeOK, LeaseHolders, Goto, Move
<1>1. a \in Actors BY DEF Requests
<1>2. LeaseHolders' = LeaseHolders \ {a} /\ a \in LeaseHolders
  BY <1>1 DEF EndLLMUse
<1>3. activeRequests' = IF activeRequests > 0 THEN activeRequests - 1 ELSE 0 BY DEF EndLLMUse
<1> HIDE DEF LeaseHolders
<1>4. Cardinality(LeaseHolders') = Cardinality(LeaseHolders) - 1
  BY <1>2, HoldersFinite, FS_RemoveElement
<1>5. Cardinality(LeaseHolders) \in Nat /\ Cardinality(LeaseHolders) # 0
  BY <1>2, HoldersFinite, FS_CardinalityType, FS_EmptySet
<1> QED BY <1>3, <1>4, <1>5 DEF LeaseCountExact

(* activeRequests is the number of requests between beginLLMUse and its    *)
(* release (manager.go:186-201), whatever the number of requests.          *)
THEOREM LeasesAreCounted == Spec => []LeaseCountExact
<1>1. Init => LeaseCountExact
  <2> SUFFICES ASSUME Init PROVE LeaseCountExact
    OBVIOUS
  <2>1. LeaseHolders = {} BY ActorsDistinct DEF Init, LeaseHolders
  <2> QED BY <2>1, FS_EmptySet DEF Init, LeaseCountExact
<1>2. TypeOK /\ CtlInv /\ LeaseCountExact /\ [Next]_vars => LeaseCountExact'
  <2> SUFFICES ASSUME TypeOK, CtlInv, LeaseCountExact, [Next]_vars PROVE LeaseCountExact'
    OBVIOUS
  <2>1. CASE \E a \in Requests : BeginLLMUse(a) BY <2>1, BeginCounts
  <2>2. CASE \E a \in Requests : EndLLMUse(a) BY <2>2, EndCounts
  <2>3. CASE \A a \in Requests : ~BeginLLMUse(a) /\ ~EndLLMUse(a)
    BY <2>3, HoldersUnchanged DEF LeaseCountExact
  <2> QED BY <2>1, <2>2, <2>3
<1> QED BY <1>1, <1>2, Control, PTL DEF Spec

-----------------------------------------------------------------------------
(***************************************************************************)
(* The idle unloader.                                                      *)
(***************************************************************************)
Unloading == pc[Idler] \in {"stopTake", "sigterm", "await"}

(* A lease is only taken while startMu is free, and the unloader keeps it  *)
(* from its check to the end of the stop.                                  *)
LEMMA NoLeaseWhileUnloading ==
    ASSUME TypeOK, CtlInv, Unloading, NEW a \in Requests PROVE ~BeginLLMUse(a)
BY ActorsDistinct DEF TypeOK, CtlInv, LockInv, Unloading, HoldsStart, BeginLLMUse

LEMMA UnloadingBegins ==
    ASSUME TypeOK, CtlInv, [Next]_vars, ~Unloading, Unloading' PROVE IdleCheck /\ ShouldUnload
<1> USE ActorsDistinct DEF TypeOK, CtlInv, PathInv, Goto, Move, Unloading
<1>1. ASSUME NEW a \in Actors, EnsureStep(a) PROVE FALSE
  <2>1. pc[a] \in InEnsure /\ \E l \in Labels : Goto(a, l)
    BY <1>1 DEF EnsureStep, EnsureReady, StartLock, StartCheck, LaunchFails, Launch, Publish,
                PollHealthy, PollExited, PollDeadline, InEnsure, Labels
  <2> QED BY <2>1 DEF InEnsure
<1>2. ASSUME NEW a \in Actors, StopStep(a) PROVE FALSE
  <2>1. /\ pc[a] \in {"lockStop", "stopTake", "sigterm", "await"}
        /\ \E l \in Labels : Goto(a, l)
    BY <1>2 DEF StopStep, StopLock, StopTake, SigTerm, StopDone, AfterStop, Labels
  <2> QED BY <2>1
<1>3. ASSUME NEW a \in Requests \cup Operators, LeaseStep(a) PROVE FALSE
  <2>1. a # Idler BY DEF Requests
  <2>2. \E l \in Labels : Goto(a, l)
    BY <1>3 DEF LeaseStep, BeginLLMUse, EndLLMUse, VoiceBegin, Return, Labels
  <2> QED BY <2>1, <2>2
<1>4. ASSUME NEW a \in Admins, AdminStep(a) PROVE FALSE
  <2>1. a # Idler BY DEF Admins
  <2>2. \E l \in Labels : Goto(a, l)
    BY <1>4 DEF AdminStep, Operate, LoadConfig, SaveConfig, Labels
  <2> QED BY <2>1, <2>2
<1>5. CASE IdleStep BY <1>5 DEF IdleStep, IdleTick, IdleCheck
<1>6. ASSUME NEW p \in Procs, ServerStep(p) PROVE FALSE
  BY <1>6 DEF ServerStep, ServerUp, ServerExit, Reap, ClearCmd
<1>7. CASE TimePasses BY <1>7 DEF TimePasses
<1>8. CASE UNCHANGED vars BY <1>8 DEF vars
<1> QED BY <1>1, <1>2, <1>3, <1>4, <1>5, <1>6, <1>7, <1>8 DEF Next

(* From the idle check to the end of the stop no request holds a lease     *)
(* (manager.go:221-231), for any number of requests and administrators.    *)
THEOREM UnloadRespectsLeases == Spec => []NoUnloadUnderLease
<1>1. Init => NoUnloadUnderLease
  BY ActorsDistinct DEF Init, NoUnloadUnderLease
<1>2. TypeOK /\ CtlInv /\ LeaseCountExact /\ NoUnloadUnderLease /\ [Next]_vars
        => NoUnloadUnderLease'
  <2> SUFFICES ASSUME TypeOK, CtlInv, LeaseCountExact, NoUnloadUnderLease, [Next]_vars,
                      Unloading'
               PROVE  LeaseHolders' = {}
    BY DEF NoUnloadUnderLease, Unloading
  <2>1. CASE Unloading
    <3>1. LeaseHolders = {} BY <2>1 DEF NoUnloadUnderLease, Unloading
    <3>2. \A a \in Requests : ~BeginLLMUse(a) BY <2>1, NoLeaseWhileUnloading
    <3>3. \A a \in Requests : ~EndLLMUse(a)
      BY <3>1 DEF EndLLMUse, LeaseHolders, Move, Requests
    <3> QED BY <3>1, <3>2, <3>3, HoldersUnchanged
  <2>2. CASE ~Unloading
    <3>1. IdleCheck /\ activeRequests = 0 BY <2>2, UnloadingBegins DEF ShouldUnload
    <3>2. LeaseHolders = {} BY <3>1, HoldersFinite, FS_EmptySet DEF LeaseCountExact
    <3>3. LeaseHolders' = LeaseHolders
      BY <3>1, ActorsDistinct DEF IdleCheck, LeaseHolders, TypeOK, Goto
    <3> QED BY <3>2, <3>3
  <2> QED BY <2>1, <2>2
<1> QED BY <1>1, <1>2, Control, LeasesAreCounted, PTL DEF Spec

-----------------------------------------------------------------------------
(***************************************************************************)
(* No stray server.  manager.cmd changes hands only under startMu, except  *)
(* that the Wait goroutine of a process that is gone forgets that process. *)
(***************************************************************************)
LEMMA StrayEnsure ==
    ASSUME TypeOK, CtlInv, NoStrayServer, NEW a \in Actors, EnsureStep(a) PROVE NoStrayServer'
<1> USE ActorsDistinct DEF TypeOK, CtlInv, LockInv, HandInv, HoldsStart, NoStrayServer,
        Unsignalled, Alive, Goto, Move, Lock, Unlock, useVars, cfgVars, srvVars
<1>1. CASE EnsureReady(a) BY <1>1 DEF EnsureReady
<1>2. CASE StartLock(a) BY <1>2 DEF StartLock
<1>3. CASE StartCheck(a) BY <1>3 DEF StartCheck
<1>4. CASE LaunchFails(a) BY <1>4 DEF LaunchFails
<1>5. CASE Launch(a) BY <1>5 DEF Launch
<1>6. CASE Publish(a) BY <1>6 DEF Publish
<1>7. CASE PollHealthy(a) BY <1>7 DEF PollHealthy
<1>8. CASE PollExited(a) BY <1>8 DEF PollExited
<1>9. CASE PollDeadline(a) BY <1>9 DEF PollDeadline
<1> QED BY <1>1, <1>2, <1>3, <1>4, <1>5, <1>6, <1>7, <1>8, <1>9 DEF EnsureStep

LEMMA StrayStop ==
    ASSUME TypeOK, CtlInv, NoStrayServer, NEW a \in Actors, StopStep(a) PROVE NoStrayServer'
<1> USE ActorsDistinct DEF TypeOK, CtlInv, LockInv, HandInv, HoldsStart, NoStrayServer,
        Unsignalled, Alive, Goto, Move, Lock, Unlock, Signal, useVars, cfgVars, srvVars
<1>1. CASE StopLock(a) BY <1>1 DEF StopLock
<1>2. CASE StopTake(a) BY <1>2 DEF StopTake, Running
<1>3. CASE SigTerm(a) BY <1>3 DEF SigTerm
<1>4. CASE StopDone(a) BY <1>4 DEF StopDone
<1> QED BY <1>1, <1>2, <1>3, <1>4 DEF StopStep

LEMMA StrayOther ==
    ASSUME TypeOK, CtlInv, NoStrayServer,
           \/ \E a \in Requests \cup Operators : LeaseStep(a)
           \/ \E a \in Admins : AdminStep(a)
           \/ IdleStep
           \/ \E p \in Procs : ServerStep(p)
           \/ TimePasses
           \/ UNCHANGED vars
    PROVE  NoStrayServer'
<1> USE ActorsDistinct DEF TypeOK, CtlInv, LockInv, HandInv, HoldsStart, NoStrayServer,
        Unsignalled, Alive, Goto, Move, useVars, cfgVars, srvVars
<1>1. ASSUME NEW a \in Requests \cup Operators, LeaseStep(a) PROVE NoStrayServer'
  BY <1>1 DEF LeaseStep, BeginLLMUse, EndLLMUse, VoiceBegin, Return
<1>2. ASSUME NEW a \in Admins, AdminStep(a) PROVE NoStrayServer'
  BY <1>2 DEF AdminStep, Operate, LoadConfig, SaveConfig
<1>3. CASE IdleStep BY <1>3 DEF IdleStep, IdleTick, IdleCheck
<1>4. ASSUME NEW p \in Procs, ServerStep(p) PROVE NoStrayServer'
  <2>1. CASE ServerUp(p) BY <2>1 DEF ServerUp
  <2>2. CASE ServerExit(p) BY <2>2 DEF ServerExit
  <2>3. CASE Reap(p) BY <2>3 DEF Reap
  <2>4. CASE ClearCmd(p) BY <2>4 DEF ClearCmd
  <2> QED BY <1>4, <2>1, <2>2, <2>3, <2>4 DEF ServerStep
<1>5. CASE TimePasses BY <1>5 DEF TimePasses
<1>6. CASE UNCHANGED vars BY <1>6 DEF vars
<1> QED BY <1>1, <1>2, <1>3, <1>4, <1>5, <1>6

(* A live llama-server that nobody has told to stop is known: manager.cmd  *)
(* names it, or the goroutine inside startMu has it in hand                *)
(* (manager.go:49-143).                                                    *)
THEOREM NoServerIsForgotten == Spec => []NoStrayServer
<1>1. Init => NoStrayServer BY DEF Init, NoStrayServer, Unsignalled, Alive
<1>2. TypeOK /\ CtlInv /\ NoStrayServer /\ [Next]_vars => NoStrayServer'
  BY StrayEnsure, StrayStop, StrayOther DEF Next
<1> QED BY <1>1, <1>2, Control, PTL DEF Spec

(* At most one live llama-server has not been told to stop: concurrent     *)
(* requests never start two (manager.go:50-64).                            *)
THEOREM OnlyOneServer == Spec => []OneServer
<1>1. TypeOK /\ CtlInv /\ NoStrayServer => OneServer
  BY ActorsDistinct DEF TypeOK, CtlInv, HandInv, NoStrayServer, OneServer, Unsignalled
<1> QED BY <1>1, Control, NoServerIsForgotten, PTL

-----------------------------------------------------------------------------
(***************************************************************************)
(* The switch to OpenRouter, when one configuration request is handled at  *)
(* a time: what the handler loaded is then still what the file says, and a *)
(* start that read "local" under startMu is over before the switch's stop  *)
(* gets the lock.  (With two such requests the property is false, which is *)
(* what the run backend_switch shows.)                                     *)
(***************************************************************************)
OneConfigurer == \A c, d \in Configurers : c = d

CopyIsCurrent == \A c \in Configurers : pc[c] = "save" => copy[c] = config.provider

NoStartWhenRemote ==
    config.provider = "openrouter" /\ (\A c \in Configurers : pc[c] # "lockStop")
        => \A a \in Actors : pc[a] \notin {"startCheck", "launch", "publish"}

SwitchInv == CopyIsCurrent /\ NoStartWhenRemote /\ SwitchStopsServer

LEMMA SwitchInit == Init => SwitchInv
BY ActorsDistinct DEF Init, SwitchInv, CopyIsCurrent, NoStartWhenRemote, SwitchStopsServer,
                      Unsignalled, Alive

LEMMA SwitchEnsure ==
    ASSUME TypeOK, CtlInv, SwitchInv, NEW a \in Actors, EnsureStep(a) PROVE SwitchInv'
<1> USE ActorsDistinct DEF TypeOK, CtlInv, LockInv, HoldsStart, SwitchInv, CopyIsCurrent,
        NoStartWhenRemote, SwitchStopsServer, StopPending, Unsignalled, Alive, Config,
        Providers, Goto, Move, Lock, Unlock, useVars, cfgVars, srvVars
<1>1. CASE EnsureReady(a) BY <1>1 DEF EnsureReady
<1>2. CASE StartLock(a) BY <1>2 DEF StartLock
<1>3. CASE StartCheck(a) BY <1>3 DEF StartCheck
<1>4. CASE LaunchFails(a) BY <1>4 DEF LaunchFails
<1>5. CASE Launch(a) BY <1>5 DEF Launch
<1>6. CASE Publish(a) BY <1>6 DEF Publish
<1>7. CASE PollHealthy(a) BY <1>7 DEF PollHealthy
<1>8. CASE PollExited(a) BY <1>8 DEF PollExited
<1>9. CASE PollDeadline(a) BY <1>9 DEF PollDeadline
<1> QED BY <1>1, <1>2, <1>3, <1>4, <1>5, <1>6, <1>7, <1>8, <1>9 DEF EnsureStep

LEMMA SwitchStop ==
    ASSUME TypeOK, CtlInv, NoStrayServer, SwitchInv, NEW a \in Actors, StopStep(a)
    PROVE  SwitchInv'
<1> USE ActorsDistinct DEF TypeOK, CtlInv, LockInv, HandInv, HoldsStart, NoStrayServer,
        SwitchInv, CopyIsCurrent, NoStartWhenRemote, SwitchStopsServer, StopPending,
        Unsignalled, Alive, Goto, Move, Lock, Unlock, useVars, cfgVars, srvVars
<1>1. CASE StopLock(a) BY <1>1 DEF StopLock
<1>2. CASE StopTake(a) BY <1>2 DEF StopTake, Running, AfterStop
<1>3. CASE SigTerm(a) BY <1>3 DEF SigTerm, Signal
<1>4. CASE StopDone(a) BY <1>4 DEF StopDone, Signal, AfterStop
<1> QED BY <1>1, <1>2, <1>3, <1>4 DEF StopStep

LEMMA SwitchAdmin ==
    ASSUME OneConfigurer, TypeOK, SwitchInv, NEW a \in Admins, AdminStep(a)
    PROVE  SwitchInv'
<1> USE ActorsDistinct DEF OneConfigurer, TypeOK, SwitchInv, CopyIsCurrent, NoStartWhenRemote,
        SwitchStopsServer, StopPending, Unsignalled, Alive, Config, Providers, Goto, Move,
        useVars, cfgVars, srvVars
<1>1. CASE Operate(a) BY <1>1 DEF Operate
<1>2. CASE LoadConfig(a) BY <1>2 DEF LoadConfig
<1>3. CASE SaveConfig(a) BY <1>3 DEF SaveConfig
<1> QED BY <1>1, <1>2, <1>3 DEF AdminStep

LEMMA SwitchOther ==
    ASSUME TypeOK, CtlInv, SwitchInv,
           \/ \E a \in Requests \cup Operators : LeaseStep(a)
           \/ IdleStep
           \/ \E p \in Procs : ServerStep(p)
           \/ TimePasses
           \/ UNCHANGED vars
    PROVE  SwitchInv'
<1> USE ActorsDistinct DEF TypeOK, SwitchInv, CopyIsCurrent, NoStartWhenRemote,
        SwitchStopsServer, StopPending, Unsignalled, Alive, Goto, Move,
        useVars, cfgVars, srvVars
<1>1. ASSUME NEW a \in Requests \cup Operators, LeaseStep(a) PROVE SwitchInv'
  <2>1. CASE BeginLLMUse(a) BY <2>1 DEF BeginLLMUse
  <2>2. CASE EndLLMUse(a) BY <2>2 DEF EndLLMUse
  <2>3. CASE VoiceBegin(a) BY <2>3 DEF VoiceBegin
  <2>4. CASE Return(a) BY <2>4 DEF Return
  <2> QED BY <1>1, <2>1, <2>2, <2>3, <2>4 DEF LeaseStep
<1>2. CASE IdleStep BY <1>2 DEF IdleStep, IdleTick, IdleCheck
<1>3. ASSUME NEW p \in Procs, ServerStep(p) PROVE SwitchInv'
  BY <1>3 DEF ServerStep, ServerUp, ServerExit, Reap, ClearCmd
<1>4. CASE TimePasses BY <1>4 DEF TimePasses
<1>5. CASE UNCHANGED vars BY <1>5 DEF vars
<1> QED BY <1>1, <1>2, <1>3, <1>4, <1>5

(* With one configuration request at a time, a switch to OpenRouter leaves *)
(* no llama-server running unasked: a start that raced the switch is seen  *)
(* by the switch's stop (manager.go:50-57, config_handler_v04.go:127).     *)
THEOREM SwitchIsSeen == ASSUME OneConfigurer PROVE Spec => []SwitchStopsServer
<1>1. TypeOK /\ CtlInv /\ NoStrayServer /\ SwitchInv /\ [Next]_vars => SwitchInv'
  BY SwitchEnsure, SwitchStop, SwitchAdmin, SwitchOther DEF Next
<1>2. SwitchInv => SwitchStopsServer BY DEF SwitchInv
<1> QED BY <1>1, <1>2, SwitchInit, Control, NoServerIsForgotten, PTL DEF Spec

=============================================================================
