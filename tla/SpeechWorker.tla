----------------------------- MODULE SpeechWorker -----------------------------
(***************************************************************************)
(* The speech engine of qnap-voice-worker (voiceworker/): a recogniser and *)
(* a synthesiser loaded on demand, a resident Piper child that is asked    *)
(* over its pipes, and the loop that unloads what has been idle.           *)
(*                                                                         *)
(* Three run locks serialise the users of a model and are held over slow   *)
(* work, so they have an owner.  asrLoadMu and ttsLoadMu nest inside the   *)
(* first two and are only held by who needs no other lock: a load and a    *)
(* deletion are single steps.  A goroutine is at <<label, engine>>.  Files *)
(* that are missing, models that cannot be created and answers that cannot *)
(* be decoded are choices; the numbers of a request are left out.          *)
(***************************************************************************)
EXTENDS Naturals, Sequences

CONSTANTS
    Hearers,          \* requests to /asr
    Speakers,         \* requests to /tts
    Main, Idler,      \* the goroutines of main and idleUnloadLoop
    TTSBackend,       \* normalised TTS_BACKEND: "piper_plus" or "supertonic"
    TTSFallback,      \* normalised TTS_FALLBACK_BACKEND
    NoOne

Requests == Hearers \cup Speakers
Actors   == Requests \cup {Main, Idler}
Models   == {"asr", "tts"}
Engines  == Models \cup {"resident", "oneshot"}
Backends == {"piper_plus", "supertonic"}

ASSUME SpeechAssumption ==
    /\ Main # Idler /\ Main \notin Requests /\ Idler \notin Requests
    /\ Hearers \cap Speakers = {} /\ NoOne \notin Actors
    /\ TTSBackend \in Backends /\ TTSFallback \in Backends

VARIABLES
    phase,    \* where main is: it preloads, serves, closes
    pc,       \* where each goroutine is
    lock,     \* holder of each mutex
    model,    \* engine.asr and engine.tts are not nil
    stamp,    \* lastASRUseUnix and lastTTSUseUnix against the idle timeout
    auto,     \* ASR_AUTO_UNLOAD and TTS_AUTO_UNLOAD in the configuration file
    piper,    \* engine.piperResident and whether that child runs
    hand,     \* the child a goroutine is stopping
    plan,     \* the backends a request may still try
    again     \* its resident request is the one after the restart

vars == <<phase, pc, lock, model, stamp, auto, piper, hand, plan, again>>
engineVars == <<model, stamp>>
piperVars  == <<piper, hand, again>>

Labels == {"rest", "check", "run", "use", "ask", "stop"}
RunMu  == [asr |-> "asrRunMu", tts |-> "ttsRunMu", resident |-> "piperRunMu", oneshot |-> "piperRunMu"]
Mutexes == {"asrRunMu", "ttsRunMu", "piperRunMu"}
Rest   == <<"rest", "asr">>
Use    == [asr |-> "asr", tts |-> "tts", resident |-> "tts", oneshot |-> "tts"]

Init ==
    /\ phase = "preload"
    /\ pc = [a \in Actors |-> IF a = Main THEN <<"check", "asr">> ELSE Rest]
    /\ lock = [m \in Mutexes |-> NoOne]
    /\ model = [e \in Models |-> FALSE]
    /\ stamp = [e \in Models |-> "never"]
    /\ auto \in [Models -> BOOLEAN]
    /\ piper = "none"
    /\ hand = [a \in Actors |-> "none"]
    /\ plan = [a \in Actors |-> <<>>]
    /\ again = [a \in Actors |-> FALSE]

-----------------------------------------------------------------------------
(***************************************************************************)
(* Locks and control.                                                      *)
(***************************************************************************)
At(a, l, e)   == pc[a] = <<l, e>>
Goto(a, l, e) == pc' = [pc EXCEPT ![a] = <<l, e>>]
Acquire(a, m) == lock[m] = NoOne /\ lock' = [lock EXCEPT ![m] = a]
Freed(a)      == [m \in Mutexes |-> IF lock[m] = a THEN NoOne ELSE lock[m]]

(* The goroutines that delete models: the idle loop, and main in close().  *)
Unloads(a) == a = Idler \/ (a = Main /\ phase = "closing")

(* Where a goroutine is after its turn with a model: the idle loop and     *)
(* preload go on to the other one, close() goes from TTS to ASR.           *)
Next1(a, e) ==
    CASE a = Idler -> <<"check", IF e = "asr" THEN "tts" ELSE "asr">>
      [] a = Main /\ phase = "closing" -> IF e = "asr" THEN Rest ELSE <<"run", "asr">>
      [] a = Main -> IF e = "asr" THEN <<"check", "tts">> ELSE Rest
      [] OTHER -> Rest

(* A use of engine e by goroutine a ends and its mutexes are released: a   *)
(* request to /tts that failed goes on with the fallback, if it has one.   *)
End(a, e, ok) ==
    /\ lock' = Freed(a)
    /\ IF ok \/ Len(plan[a]) <= 1
       THEN /\ pc' = [pc EXCEPT ![a] = Next1(a, Use[e])]
            /\ plan' = [plan EXCEPT ![a] = <<>>]
       ELSE /\ Goto(a, "run", plan[a][2])
            /\ plan' = [plan EXCEPT ![a] = Tail(@)]
    /\ UNCHANGED <<phase, auto>>

Mark(e) == stamp' = [stamp EXCEPT ![e] = "recent"]

-----------------------------------------------------------------------------
(***************************************************************************)
(* Requests arrive while the server is up.  A request that is malformed or *)
(* names an unknown backend only is answered at once and left out.         *)
(***************************************************************************)
Hear(h) ==
    /\ phase = "serving" /\ pc[h] = Rest
    /\ Goto(h, "run", "asr")
    /\ UNCHANGED <<phase, lock, engineVars, auto, piperVars, plan>>

(* Mutant: one of the names of a backend is not normalised.                *)
FormAsGiven(b, resident) == IF b = "piper_plus" /\ resident THEN "resident" ELSE b

(* useResidentPiper: only the configured language and speed, which the     *)
(* resident child was started with, go to the child.                       *)
Form(b, resident) == IF b = "supertonic" THEN "tts" ELSE IF resident THEN "resident" ELSE "oneshot"

Plans ==
    {<<Form(b, r)>> : b \in Backends, r \in BOOLEAN} \cup
    {IF TTSFallback = TTSBackend THEN <<Form(TTSBackend, r)>>
     ELSE <<Form(TTSBackend, r), Form(TTSFallback, r)>> : r \in BOOLEAN}

(* synthesize: a request that names its backend gets no other.             *)
Say(s) ==
    /\ phase = "serving" /\ pc[s] = Rest
    /\ \E p \in Plans : /\ plan' = [plan EXCEPT ![s] = p]
                        /\ Goto(s, "run", p[1])
    /\ UNCHANGED <<phase, lock, engineVars, auto, piperVars>>

-----------------------------------------------------------------------------
(***************************************************************************)
(* recognize, synthesizeSupertonic, unloadASR and the second half of       *)
(* unloadTTS.                                                              *)
(***************************************************************************)
(* Mutant: loading does not count as a use.                                *)
EnsureUnmarked(a, e) ==
    /\ At(a, "run", e) /\ ~Unloads(a)
    /\ lock[RunMu[e]] = NoOne
    /\ \/ /\ model' = [model EXCEPT ![e] = TRUE] /\ UNCHANGED stamp
          /\ lock' = [lock EXCEPT ![RunMu[e]] = a] /\ Goto(a, "use", e)
          /\ UNCHANGED <<phase, auto, plan>>
       \/ ~model[e] /\ End(a, e, FALSE) /\ UNCHANGED engineVars
    /\ UNCHANGED piperVars

(* Taking the run lock, then ensureASR or ensureSupertonic under it.       *)
Ensure(a, e) ==
    /\ At(a, "run", e) /\ ~Unloads(a)
    /\ lock[RunMu[e]] = NoOne
    /\ \/ /\ IF model[e] THEN UNCHANGED engineVars
             ELSE model' = [model EXCEPT ![e] = TRUE] /\ Mark(e)
          /\ Acquire(a, RunMu[e]) /\ Goto(a, "use", e)
          /\ UNCHANGED <<phase, auto, plan>>
       \/ ~model[e] /\ End(a, e, FALSE) /\ UNCHANGED engineVars
    /\ UNCHANGED piperVars

(* The end of a decoding, a synthesis or a one-shot child.  A synthesis    *)
(* counts as a use even when it fails, the others only when they succeed.  *)
UseModel(a, e) ==
    /\ At(a, "use", e)
    /\ \/ Mark(Use[e]) /\ End(a, e, TRUE)
       \/ (IF e = "tts" THEN Mark("tts") ELSE UNCHANGED stamp) /\ End(a, e, FALSE)
    /\ UNCHANGED <<model, piperVars>>

(* synthesizePiperOneShot looks for its files, then takes the lock.        *)
OneShot(a) ==
    /\ At(a, "run", "oneshot")
    /\ \/ Acquire(a, "piperRunMu") /\ Goto(a, "use", "oneshot") /\ UNCHANGED <<phase, auto, plan>>
       \/ End(a, "oneshot", FALSE)
    /\ UNCHANGED <<engineVars, piperVars>>

(* Mutant: the model is deleted without the run lock.                      *)
DeleteUnlocked(a, e) ==
    /\ At(a, "run", e) /\ Unloads(a)
    /\ model' = [model EXCEPT ![e] = FALSE]
    /\ pc' = [pc EXCEPT ![a] = Next1(a, e)]
    /\ UNCHANGED <<phase, lock, stamp, auto, piperVars, plan>>

Delete(a, e) ==
    /\ At(a, "run", e) /\ Unloads(a)
    /\ lock[RunMu[e]] = NoOne
    /\ model' = [model EXCEPT ![e] = FALSE]
    /\ pc' = [pc EXCEPT ![a] = Next1(a, e)]
    /\ UNCHANGED <<phase, lock, stamp, auto, piperVars, plan>>

-----------------------------------------------------------------------------
(***************************************************************************)
(* The resident Piper child.  All of this happens under piperRunMu.        *)
(***************************************************************************)
Fail(a) ==
    /\ End(a, "resident", FALSE)
    /\ again' = [again EXCEPT ![a] = FALSE]
    /\ UNCHANGED <<engineVars, piper>>

(* stopPiperResidentLocked: the handle is dropped and stdin closed; from   *)
(* now on only this goroutine knows the child.                             *)
StopKid(a) ==
    /\ piper' = "none"
    /\ hand' = [hand EXCEPT ![a] = piper]
    /\ Goto(a, "stop", "resident")
    /\ UNCHANGED <<phase, engineVars, auto, plan>>

(* startPiperResidentLocked: a handle that is set is taken for a running   *)
(* child, also when the child has died.                                    *)
StartKid(a) ==
    /\ At(a, "run", "resident") /\ ~Unloads(a)
    /\ Acquire(a, "piperRunMu")
    /\ piper' = IF piper = "none" THEN "up" ELSE piper
    /\ Goto(a, "ask", "resident")
    /\ UNCHANGED <<phase, engineVars, auto, hand, plan, again>>

(* Files are missing, or the child cannot be started.                      *)
StartFails(a) ==
    /\ At(a, "run", "resident") /\ ~Unloads(a) /\ piper = "none"
    /\ lock["piperRunMu"] = NoOne
    /\ Fail(a) /\ UNCHANGED hand

(* requestPiperResidentLocked, the child answering; nothing bounds the     *)
(* wait for the answer.                                                    *)
Answer(a) ==
    /\ At(a, "ask", "resident") /\ piper = "up"
    /\ Mark("tts")
    /\ End(a, "resident", TRUE)
    /\ again' = [again EXCEPT ![a] = FALSE]
    /\ UNCHANGED <<model, piper, hand>>

(* Mutant: every failure restarts the child.                               *)
RestartForEver(a) ==
    /\ At(a, "ask", "resident")
    /\ StopKid(a)
    /\ again' = [again EXCEPT ![a] = TRUE]
    /\ UNCHANGED lock

(* The request fails: no temporary file, a broken pipe, the end of the     *)
(* stream, an unexpected path, or a file that is missing, empty or not     *)
(* decodable.  synthesizePiperResident restarts the child and asks again,  *)
(* once.                                                                   *)
Restart(a) ==
    /\ At(a, "ask", "resident") /\ ~again[a]
    /\ StopKid(a)
    /\ again' = [again EXCEPT ![a] = TRUE]
    /\ UNCHANGED lock

GiveUp(a) ==
    /\ At(a, "ask", "resident") /\ again[a]
    /\ Fail(a) /\ UNCHANGED hand

(* The first half of unloadTTS.                                            *)
UnloadKid(a) ==
    /\ At(a, "run", "resident") /\ Unloads(a)
    /\ lock["piperRunMu"] = NoOne
    /\ IF piper = "none"
       THEN Goto(a, "run", "tts") /\ UNCHANGED <<phase, lock, engineVars, auto, piperVars, plan>>
       ELSE StopKid(a) /\ Acquire(a, "piperRunMu") /\ UNCHANGED again

(* Wait has returned: a request starts a new child, or cannot; an unloader *)
(* goes on.                                                                *)
Continue(a) ==
    \/ /\ Unloads(a) /\ lock' = Freed(a) /\ Goto(a, "run", "tts")
       /\ UNCHANGED <<phase, engineVars, auto, piper, plan, again>>
    \/ /\ ~Unloads(a) /\ piper' = "up" /\ Goto(a, "ask", "resident")
       /\ UNCHANGED <<phase, lock, engineVars, auto, plan, again>>
    \/ ~Unloads(a) /\ Fail(a)

(* Mutant: the stop does not wait for the child.                           *)
StoppedAtOnce(a) ==
    /\ At(a, "stop", "resident")
    /\ Continue(a) /\ UNCHANGED hand

Stopped(a) ==
    /\ At(a, "stop", "resident") /\ hand[a] = "dead"
    /\ hand' = [hand EXCEPT ![a] = "none"]
    /\ Continue(a)

(* A child may exit by itself at any moment; one whose stdin is closed     *)
(* gets SIGTERM after two seconds and SIGKILL after four.                  *)
KidExit ==
    /\ piper = "up" /\ piper' = "dead"
    /\ UNCHANGED <<phase, pc, lock, engineVars, auto, hand, plan, again>>

StoppedKidExit(a) ==
    /\ hand[a] = "up" /\ hand' = [hand EXCEPT ![a] = "dead"]
    /\ UNCHANGED <<phase, pc, lock, engineVars, auto, piper, plan, again>>

-----------------------------------------------------------------------------
(***************************************************************************)
(* main and the idle loop.                                                 *)
(***************************************************************************)
(* preload: what is not unloaded automatically is loaded before serving;   *)
(* ensureASR is called without the run lock, when nobody else runs yet.    *)
Preload(e) ==
    /\ At(Main, "check", e) /\ phase = "preload"
    /\ IF e = "tts" /\ ~auto[e] THEN Goto(Main, "run", "resident") /\ UNCHANGED engineVars
       ELSE /\ pc' = [pc EXCEPT ![Main] = Next1(Main, e)]
            /\ \/ ~auto[e] /\ model' = [model EXCEPT ![e] = TRUE] /\ Mark(e)
               \/ UNCHANGED engineVars
    /\ UNCHANGED <<phase, lock, auto, piperVars, plan>>

Serve ==
    /\ phase = "preload" /\ pc[Main] = Rest
    /\ phase' = "serving"
    /\ Goto(Idler, "check", "asr")
    /\ UNCHANGED <<lock, engineVars, auto, piperVars, plan>>

(* SIGINT, SIGTERM or a failed ListenAndServe: the server takes no more    *)
(* requests and waits for those it has, or for five seconds; then close(). *)
(* A last tick of the idle loop would only do what close() does; it is     *)
(* left out, and with it the settings and times nobody reads any more.     *)
Shutdown ==
    /\ phase = "serving" /\ phase' = "closing"
    /\ Goto(Main, "run", "resident")
    /\ stamp' = [e \in Models |-> IF stamp[e] = "never" THEN "never" ELSE "recent"]
    /\ auto' = [e \in Models |-> TRUE]
    /\ UNCHANGED <<lock, model, piperVars, plan>>

(* Mutant: the loop looks at TTS only when ASR unloading is on.            *)
IdleCheckNested(e) ==
    /\ At(Idler, "check", e) /\ phase = "serving"
    /\ IF auto[e] /\ stamp[e] = "expired"
       THEN Goto(Idler, "run", IF e = "asr" THEN "asr" ELSE "resident")
       ELSE pc' = [pc EXCEPT ![Idler] = <<"check", IF e = "asr" /\ auto[e] THEN "tts" ELSE "asr">>]
    /\ UNCHANGED <<phase, lock, engineVars, auto, piperVars, plan>>

(* A tick of idleUnloadLoop looks at the setting and the time stamp before *)
(* it takes any lock; a stamp that was never set does not expire.          *)
IdleCheck(e) ==
    /\ At(Idler, "check", e) /\ phase = "serving"
    /\ IF auto[e] /\ stamp[e] = "expired"
       THEN Goto(Idler, "run", IF e = "asr" THEN "asr" ELSE "resident")
       ELSE pc' = [pc EXCEPT ![Idler] = Next1(Idler, e)]
    /\ UNCHANGED <<phase, lock, engineVars, auto, piperVars, plan>>

TimePasses(e) ==
    /\ phase # "closing" /\ stamp[e] = "recent"
    /\ stamp' = [stamp EXCEPT ![e] = "expired"]
    /\ UNCHANGED <<phase, pc, lock, model, auto, piperVars, plan>>

(* The configuration file is read afresh at every tick.                    *)
Configure(e) ==
    /\ phase # "closing"
    /\ auto' = [auto EXCEPT ![e] = ~@]
    /\ UNCHANGED <<phase, pc, lock, engineVars, piperVars, plan>>

(* The process ends, after close() or by a signal at any moment: its       *)
(* children lose their stdin.  The admin starts another one.               *)
Exit ==
    /\ phase' = "preload"
    /\ pc' = [a \in Actors |-> IF a = Main THEN <<"check", "asr">> ELSE Rest]
    /\ lock' = [m \in Mutexes |-> NoOne]
    /\ model' = [e \in Models |-> FALSE]
    /\ stamp' = [e \in Models |-> "never"]
    /\ piper' = "none"
    /\ hand' = [a \in Actors |-> "none"]
    /\ plan' = [a \in Actors |-> <<>>]
    /\ again' = [a \in Actors |-> FALSE]
    /\ UNCHANGED auto

-----------------------------------------------------------------------------
(* Whatever goroutine a does inside the engine.                            *)
PiperStep(a) == \/ StartKid(a) \/ StartFails(a) \/ Answer(a) \/ Restart(a)
                \/ GiveUp(a) \/ UnloadKid(a) \/ Stopped(a)
EngineStep(a) == \/ pc[a][1] = "run" /\ \E e \in Models : Ensure(a, e) \/ Delete(a, e)
                 \/ \E e \in Engines : UseModel(a, e)
                 \/ OneShot(a) \/ PiperStep(a)
MainStep  == (\E e \in Models : Preload(e)) \/ Serve
Arrivals  == \/ \E h \in Hearers : Hear(h)
             \/ \E s \in Speakers : Say(s)

Next ==
    \/ Arrivals \/ MainStep \/ Shutdown \/ Exit \/ KidExit
    \/ \E a \in Actors : EngineStep(a) \/ StoppedKidExit(a)
    \/ \E e \in Models : IdleCheck(e) \/ TimePasses(e) \/ Configure(e)

Spec == Init /\ [][Next]_vars

(* A goroutine that can run does (WF), one that waits for a mutex gets it  *)
(* although others keep taking it (SF); decoding and synthesis end; a      *)
(* Piper child that was asked answers or dies; a killed one dies.          *)
Fairness ==
    /\ \A r \in Requests \cup {Idler} : SF_vars(EngineStep(r))
    /\ WF_vars(EngineStep(Main))
    /\ WF_vars(\E a \in Actors : StoppedKidExit(a))
    /\ WF_vars(\E e \in Models : IdleCheck(e))
    /\ WF_vars(MainStep)

FairSpec == Spec /\ Fairness

-----------------------------------------------------------------------------
(***************************************************************************)
(* Properties.                                                             *)
(***************************************************************************)
(* Types of the variables.                                                 *)
TypeOK ==
    /\ phase \in {"preload", "serving", "closing"}
    /\ pc \in [Actors -> Labels \X Engines]
    /\ lock \in [Mutexes -> Actors \cup {NoOne}]
    /\ model \in [Models -> BOOLEAN]
    /\ stamp \in [Models -> {"never", "recent", "expired"}]
    /\ auto \in [Models -> BOOLEAN]
    /\ piper \in {"none", "up", "dead"}
    /\ hand \in [Actors -> {"none", "up", "dead"}]
    /\ plan \in [Actors -> Seq(Engines)]
    /\ again \in [Actors -> BOOLEAN]

(* The idle loop, main's close() and the requests share the models: a      *)
(* recogniser or synthesiser is never deleted between its loading and the  *)
(* end of its use, and the resident child is not replaced or stopped       *)
(* while a request talks to it (the comments of recognize and unloadASR).  *)
NothingFreedInUse ==
    /\ \A a \in Actors, e \in Models : At(a, "use", e) => model[e]
    /\ \A a \in Actors : At(a, "ask", "resident") => piper # "none"

(* A request has the pipes of the resident child to itself, or the answer  *)
(* it reads could be another's.                                            *)
OneConversation ==
    \A a, b \in Actors : At(a, "ask", "resident") /\ At(b, "ask", "resident") => a = b

(* While a child is being stopped there is no other one: restarts, idle    *)
(* unloading and close() never leave two Piper models in memory, nor one   *)
(* that nobody knows.                                                      *)
OneChild ==
    \A a \in Actors : hand[a] # "none" =>
        /\ piper = "none" /\ At(a, "stop", "resident")
        /\ \A b \in Actors \ {a} : hand[b] = "none"

(* A loaded model has a time of last use: without one the idle loop would  *)
(* never unload it, also when the request that loaded it failed.           *)
LoadedCanExpire == \A e \in Models : model[e] => stamp[e] # "never"

(* Every request is answered: no order of locks, restart of the child or   *)
(* unloading keeps it for ever.                                            *)
RequestsEnd == \A r \in Requests : pc[r] # Rest ~> pc[r] = Rest

(* Hot: something of e is in memory.                                       *)
Hot(e) == model[e] \/ (e = "tts" /\ piper # "none")

(* docs/RESIDENT_MODE.md: with automatic unloading on, what has not been   *)
(* used for the timeout is unloaded, whichever of the two it is.           *)
IdleUnloaded ==
    \A e \in Models : (Hot(e) /\ auto[e] /\ stamp[e] = "expired" /\ phase = "serving")
                       ~> (~Hot(e) \/ ~auto[e] \/ stamp[e] # "expired")
=============================================================================
