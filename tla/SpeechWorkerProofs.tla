-------------------------- MODULE SpeechWorkerProofs --------------------------
(***************************************************************************)
(* Proofs about SpeechWorker, for any number of requests and any           *)
(* configured backends.                                                    *)
(***************************************************************************)
EXTENDS SpeechWorker, SequenceTheorems, TLAPS

(***************************************************************************)
(* The inductive invariant: who uses a model or talks to the resident      *)
(* child holds its run lock, so that nobody else can delete the one or     *)
(* take the other away; a child that is being stopped is in the hand of    *)
(* the goroutine that waits for it, and main sleeps while it serves.       *)
(***************************************************************************)
UseOf(a) == \A e \in Models : At(a, "use", e) => lock[RunMu[e]] = a /\ model[e]

KidOf(a) ==
    /\ At(a, "ask", "resident") => lock["piperRunMu"] = a /\ piper # "none"
    /\ At(a, "stop", "resident") => lock["piperRunMu"] = a
    /\ hand[a] # "none" => piper = "none" /\ At(a, "stop", "resident")

UseInv == \A a \in Actors : UseOf(a) /\ KidOf(a)

SleepInv ==
    /\ phase = "serving" => pc[Main] = Rest
    /\ phase = "preload" => pc[Idler] = Rest

IInv == TypeOK /\ UseInv /\ SleepInv /\ LoadedCanExpire

LEMMA Who ==
    /\ Requests \subseteq Actors /\ Hearers \subseteq Requests /\ Speakers \subseteq Requests
    /\ Main \in Actors /\ Idler \in Actors /\ Main # Idler /\ Main \notin Requests /\ Idler \notin Requests
    /\ NoOne \notin Actors
BY SpeechAssumption DEF Actors, Requests

LEMMA Places ==
    /\ Rest \in Labels \X Engines
    /\ \A l \in Labels, e \in Engines : <<l, e>> \in Labels \X Engines
    /\ \A a \in Actors, e \in Models : Next1(a, e) \in Labels \X Engines
    /\ \A a \in Actors, e \in Models : Next1(a, e)[1] \in {"rest", "check", "run"}
    /\ \A e \in Engines : Use[e] \in Models
BY DEF Rest, Labels, Engines, Models, Next1, Use

LEMMA GotoTyped ==
    ASSUME pc \in [Actors -> Labels \X Engines], NEW a \in Actors, NEW l \in Labels, NEW e \in Engines,
           Goto(a, l, e)
    PROVE  pc' \in [Actors -> Labels \X Engines]
<1>1. <<l, e>> \in Labels \X Engines OBVIOUS
<1> QED BY <1>1 DEF Goto

LEMMA Names == Labels = {"rest", "check", "run", "use", "ask", "stop"}
               /\ Engines = {"asr", "tts", "resident", "oneshot"} /\ Models = {"asr", "tts"}
BY DEF Labels, Engines, Models

(* What a request may try is a list of engines.                            *)
LEMMA PlansTyped == \A p \in Plans : p \in Seq(Engines) /\ p[1] \in Engines
<1>1. \A b \in Backends, r \in BOOLEAN : Form(b, r) \in Engines
  BY DEF Form, Engines, Models
<1>2. \A x \in Engines : <<x>> \in Seq(Engines) /\ <<x>>[1] = x
  OBVIOUS
<1>3. \A x, y \in Engines : <<x, y>> \in Seq(Engines) /\ <<x, y>>[1] = x
  OBVIOUS
<1>4. ASSUME NEW b \in Backends, NEW r \in BOOLEAN, NEW p, p = <<Form(b, r)>>
      PROVE  p \in Seq(Engines) /\ p[1] \in Engines
  BY <1>1, <1>2, <1>4
<1>5. ASSUME NEW r \in BOOLEAN, NEW p, p = <<Form(TTSBackend, r), Form(TTSFallback, r)>>
      PROVE  p \in Seq(Engines) /\ p[1] \in Engines
  BY <1>1, <1>3, <1>5, SpeechAssumption
<1>6. ASSUME NEW p \in Plans
      PROVE  \/ \E b \in Backends, r \in BOOLEAN : p = <<Form(b, r)>>
             \/ \E r \in BOOLEAN : p = <<Form(TTSBackend, r), Form(TTSFallback, r)>>
  BY SpeechAssumption DEF Plans
<1> QED BY <1>4, <1>5, <1>6

(* A use ends, or its request goes on with the fallback.                   *)
LEMMA EndTyped ==
    ASSUME TypeOK, NEW a \in Actors, NEW e \in Engines, NEW ok \in BOOLEAN, End(a, e, ok)
    PROVE  /\ pc' \in [Actors -> Labels \X Engines] /\ plan' \in [Actors -> Seq(Engines)]
           /\ lock' \in [Mutexes -> Actors \cup {NoOne}] /\ phase' = phase /\ auto' = auto
           /\ \A b \in Actors \ {a} : pc'[b] = pc[b]
           /\ pc'[a][1] \in {"rest", "check", "run"}
           /\ \A m \in Mutexes : lock[m] # a => lock'[m] = lock[m]
<1>1. /\ lock' \in [Mutexes -> Actors \cup {NoOne}] /\ phase' = phase /\ auto' = auto
      /\ \A m \in Mutexes : lock[m] # a => lock'[m] = lock[m]
  BY DEF End, Freed, TypeOK
<1>2. CASE ok \/ Len(plan[a]) <= 1
  <2>1. Next1(a, Use[e]) \in Labels \X Engines /\ Next1(a, Use[e])[1] \in {"rest", "check", "run"}
    BY Places
  <2>2. pc' = [pc EXCEPT ![a] = Next1(a, Use[e])] /\ plan' = [plan EXCEPT ![a] = <<>>]
    BY <1>2 DEF End
  <2>3. plan' \in [Actors -> Seq(Engines)]
    BY <2>2, EmptySeq DEF TypeOK
  <2> QED BY <1>1, <2>1, <2>2, <2>3 DEF TypeOK
<1>3. CASE ~(ok \/ Len(plan[a]) <= 1)
  <2>1. plan[a] \in Seq(Engines) /\ Len(plan[a]) > 1
    BY <1>3, LenProperties DEF TypeOK
  <2>2. plan[a][2] \in Engines /\ Tail(plan[a]) \in Seq(Engines)
    BY <2>1, LenProperties, ElementOfSeq, HeadTailProperties
  <2>3. <<"run", plan[a][2]>> \in Labels \X Engines /\ <<"run", plan[a][2]>>[1] = "run"
    BY <2>2 DEF Labels
  <2>4. pc' = [pc EXCEPT ![a] = <<"run", plan[a][2]>>] /\ plan' = [plan EXCEPT ![a] = Tail(@)]
    BY <1>3 DEF End, Goto
  <2> QED BY <1>1, <2>2, <2>3, <2>4 DEF TypeOK
<1> QED BY <1>2, <1>3

(* The types of what is not the control of a goroutine.                    *)
DataTyped ==
    /\ model' \in [Models -> BOOLEAN] /\ stamp' \in [Models -> {"never", "recent", "expired"}]
    /\ piper' \in {"none", "up", "dead"} /\ hand' \in [Actors -> {"none", "up", "dead"}]
    /\ again' \in [Actors -> BOOLEAN]

LEMMA Parts ==
    ASSUME DataTyped,
           pc' \in [Actors -> Labels \X Engines], plan' \in [Actors -> Seq(Engines)],
           lock' \in [Mutexes -> Actors \cup {NoOne}],
           phase' \in {"preload", "serving", "closing"}, auto' \in [Models -> BOOLEAN]
    PROVE  TypeOK'
BY DEF DataTyped, TypeOK

(* Types are kept.                                                         *)
LEMMA TypeNext ==
    ASSUME IInv, [Next]_vars PROVE TypeOK'
<1> TypeOK BY DEF IInv
<1> USE DEF TypeOK, engineVars, piperVars, Mutexes, RunMu
<1>1. ASSUME NEW h \in Hearers, Hear(h) PROVE TypeOK'
  <2>1. pc' \in [Actors -> Labels \X Engines] BY <1>1, GotoTyped, Names, Who DEF Hear
  <2> QED BY <1>1, <2>1 DEF Hear
<1>2. ASSUME NEW s \in Speakers, Say(s) PROVE TypeOK'
  <2>1. PICK p \in Plans : plan' = [plan EXCEPT ![s] = p] /\ Goto(s, "run", p[1])
    BY <1>2 DEF Say
  <2>2. p \in Seq(Engines) /\ <<"run", p[1]>> \in Labels \X Engines
    BY PlansTyped DEF Labels
  <2> QED BY <1>2, <2>1, <2>2, Who DEF Say, Goto
<1>3. ASSUME NEW e \in Models, Preload(e) PROVE TypeOK'
  <2>1. CASE e = "tts" /\ ~auto[e]
    <3>1. pc' \in [Actors -> Labels \X Engines] BY <1>3, <2>1, GotoTyped, Names, Who DEF Preload
    <3> QED BY <1>3, <2>1, <3>1 DEF Preload
  <2>2. CASE ~(e = "tts" /\ ~auto[e])
    <3>0. Next1(Main, e) \in Labels \X Engines BY Places, Who
    <3>1. pc' \in [Actors -> Labels \X Engines] BY <1>3, <2>2, <3>0 DEF Preload
    <3> QED BY <1>3, <2>2, <3>1 DEF Preload, Mark
  <2> QED BY <2>1, <2>2
<1>4. CASE Serve
  BY <1>4, Places, Who DEF Serve, Goto, Labels, Engines, Models
<1>5. CASE Shutdown
  BY <1>5, Places, Who DEF Shutdown, Goto, Labels, Engines, Models
<1>6. CASE Exit
  BY <1>6, Places, EmptySeq DEF Exit, Labels, Engines, Models
<1>7. CASE KidExit
  BY <1>7 DEF KidExit
<1>8. ASSUME NEW a \in Actors, EngineStep(a) \/ StoppedKidExit(a) PROVE TypeOK'
  <2>1. ASSUME NEW e \in Models, Ensure(a, e) PROVE TypeOK'
    <3>0. DataTyped BY <2>1 DEF DataTyped, Ensure, Mark
    <3>1. CASE End(a, e, FALSE) BY <3>0, <3>1, EndTyped, Parts DEF Engines
    <3>2. CASE Acquire(a, RunMu[e]) /\ Goto(a, "use", e) /\ UNCHANGED <<phase, auto, plan>>
      <4>1. <<"use", e>> \in Labels \X Engines BY DEF Labels, Engines
      <4> QED BY <3>0, <3>2, <4>1, Parts DEF Acquire, Goto
    <3> QED BY <2>1, <3>1, <3>2 DEF Ensure
  <2>2. ASSUME NEW e \in Models, Delete(a, e) PROVE TypeOK'
    BY <2>2, Places DEF Delete
  <2>3. ASSUME NEW e \in Engines, UseModel(a, e) PROVE TypeOK'
    <3>0. DataTyped BY <2>3, Places DEF DataTyped, UseModel, Mark
    <3>1. \E ok \in BOOLEAN : End(a, e, ok) BY <2>3 DEF UseModel
    <3> QED BY <3>0, <3>1, EndTyped, Parts
  <2>4. CASE OneShot(a)
    <3>0. DataTyped BY <2>4 DEF DataTyped, OneShot
    <3>1. CASE End(a, "oneshot", FALSE) BY <3>0, <3>1, EndTyped, Parts DEF Engines
    <3>2. CASE Acquire(a, "piperRunMu") /\ Goto(a, "use", "oneshot") /\ UNCHANGED <<phase, auto, plan>>
      BY <3>0, <3>2, Places, Parts DEF Acquire, Goto, Labels, Engines
    <3> QED BY <2>4, <3>1, <3>2 DEF OneShot
  <2>5. CASE StartKid(a)
    BY <2>5, Places DEF StartKid, Acquire, Goto, Labels, Engines
  <2>6. CASE StartFails(a)
    <3>0. DataTyped BY <2>6 DEF DataTyped, StartFails, Fail
    <3>1. End(a, "resident", FALSE) BY <2>6 DEF StartFails, Fail
    <3> QED BY <3>0, <3>1, EndTyped, Parts DEF Engines
  <2>7. CASE Answer(a)
    <3>0. DataTyped BY <2>7 DEF DataTyped, Answer, Mark, Models
    <3>1. End(a, "resident", TRUE) BY <2>7 DEF Answer
    <3> QED BY <3>0, <3>1, EndTyped, Parts DEF Engines
  <2>8. CASE Restart(a)
    BY <2>8, Places DEF Restart, StopKid, Goto, Labels, Engines
  <2>9. CASE GiveUp(a)
    <3>0. DataTyped BY <2>9 DEF DataTyped, GiveUp, Fail
    <3>1. End(a, "resident", FALSE) BY <2>9 DEF GiveUp, Fail
    <3> QED BY <3>0, <3>1, EndTyped, Parts DEF Engines
  <2>10. CASE UnloadKid(a)
    <3>1. pc' \in [Actors -> Labels \X Engines] BY <2>10, GotoTyped, Names DEF UnloadKid, StopKid
    <3>2. CASE piper = "none"
      <4>1. UNCHANGED <<phase, lock, model, stamp, auto, piper, hand, again, plan>> BY <2>10, <3>2 DEF UnloadKid
      <4> QED BY <3>1, <4>1
    <3>3. CASE piper # "none"
      <4>1. lock' \in [Mutexes -> Actors \cup {NoOne}] BY <2>10, <3>3 DEF UnloadKid, Acquire
      <4>2. DataTyped BY <2>10, <3>3 DEF DataTyped, UnloadKid, StopKid
      <4>3. phase' = phase /\ auto' = auto /\ plan' = plan BY <2>10, <3>3 DEF UnloadKid, StopKid
      <4> QED BY <3>1, <4>1, <4>2, <4>3, Parts
    <3> QED BY <3>2, <3>3
  <2>11. CASE Stopped(a)
    <3>0. DataTyped BY <2>11 DEF DataTyped, Stopped, Continue, Fail
    <3>1. CASE End(a, "resident", FALSE) BY <3>0, <3>1, EndTyped, Parts DEF Engines
    <3>2. CASE \/ lock' = Freed(a) /\ Goto(a, "run", "tts") /\ UNCHANGED <<phase, auto, plan>>
               \/ Goto(a, "ask", "resident") /\ UNCHANGED <<phase, lock, auto, plan>>
      <4>1. lock' \in [Mutexes -> Actors \cup {NoOne}] BY <3>2 DEF Freed
      <4>2. pc' \in [Actors -> Labels \X Engines]
        BY <3>2, GotoTyped, Names
      <4> QED BY <3>0, <3>2, <4>1, <4>2, Parts
    <3> QED BY <2>11, <3>1, <3>2 DEF Stopped, Continue, Fail
  <2>12. CASE StoppedKidExit(a)
    BY <2>12 DEF StoppedKidExit
  <2> QED BY <1>8, <2>1, <2>2, <2>3, <2>4, <2>5, <2>6, <2>7, <2>8, <2>9, <2>10, <2>11, <2>12 DEF EngineStep, PiperStep
<1>9. ASSUME NEW e \in Models, IdleCheck(e) \/ TimePasses(e) \/ Configure(e) PROVE TypeOK'
  <2>1. CASE IdleCheck(e)
    <3>1. pc' \in [Actors -> Labels \X Engines]
      <4>1. CASE auto[e] /\ stamp[e] = "expired"
        BY <2>1, <4>1, GotoTyped, Names, Who DEF IdleCheck
      <4>2. CASE ~(auto[e] /\ stamp[e] = "expired")
        <5>1. Next1(Idler, e) \in Labels \X Engines BY Places, Who
        <5> QED BY <2>1, <4>2, <5>1 DEF IdleCheck
      <4> QED BY <4>1, <4>2
    <3> QED BY <2>1, <3>1 DEF IdleCheck
  <2>2. CASE TimePasses(e) BY <2>2 DEF TimePasses
  <2>3. CASE Configure(e) BY <2>3 DEF Configure
  <2> QED BY <1>9, <2>1, <2>2, <2>3
<1>10. CASE UNCHANGED vars BY <1>10 DEF vars
<1> QED BY <1>1, <1>2, <1>3, <1>4, <1>5, <1>6, <1>7, <1>8, <1>9, <1>10
        DEF Next, Arrivals, MainStep

(* A step of a moves nobody else and takes no mutex from anybody.          *)
Moves(a) ==
    /\ \A b \in Actors \ {a} : pc'[b] = pc[b] /\ hand'[b] = hand[b]
    /\ \A m \in Mutexes : lock[m] \notin {NoOne, a} => lock'[m] = lock[m]

(* Nobody else notices a step of a that deletes a model, stops the child   *)
(* or starts one only when the run lock is free or its own.                *)
LEMMA UseFrame ==
    ASSUME IInv, NEW a \in Actors, Moves(a),
           \A e \in Models : model'[e] = model[e] \/ model'[e] \/ lock[RunMu[e]] \in {NoOne, a},
           piper' = piper \/ (piper # "none" /\ piper' # "none") \/ lock["piperRunMu"] \in {NoOne, a},
           UseOf(a)', KidOf(a)'
    PROVE  UseInv'
<1> SUFFICES ASSUME NEW b \in Actors PROVE (UseOf(b) /\ KidOf(b))'
  BY DEF UseInv
<1>1. b # NoOne /\ UseOf(b) /\ KidOf(b)
  BY Who DEF IInv, UseInv
<1>2. CASE b = a
  BY <1>2
<1>3. CASE b # a
  <2>1. pc'[b] = pc[b] /\ hand'[b] = hand[b]
    BY <1>3 DEF Moves
  <2>2. \A m \in Mutexes : lock[m] = b => lock'[m] = b /\ lock[m] \notin {NoOne, a}
    BY <1>1, <1>3 DEF Moves
  <2>3. UseOf(b)'
    <3>1. \A e \in Models : RunMu[e] \in Mutexes BY DEF RunMu, Models, Mutexes
    <3> QED BY <1>1, <2>1, <2>2, <3>1 DEF UseOf, At
  <2>4. KidOf(b)'
    <3>1. "piperRunMu" \in Mutexes BY DEF Mutexes
    <3> QED BY <1>1, <2>1, <2>2, <3>1 DEF KidOf, At
  <2> QED BY <2>3, <2>4
<1> QED BY <1>2, <1>3

(* Who uses and stops nothing has nothing to keep.                         *)
LEMMA Idle ==
    ASSUME NEW a \in Actors, pc'[a][1] \in {"rest", "check", "run"}, hand'[a] = "none"
    PROVE  UseOf(a)' /\ KidOf(a)'
BY DEF UseOf, KidOf, At

LEMMA EmptyHand ==
    ASSUME IInv, NEW a \in Actors, pc[a] # <<"stop", "resident">>
    PROVE  hand[a] = "none"
BY DEF IInv, UseInv, KidOf, At

(* A use that ends.                                                        *)
LEMMA EndUse ==
    ASSUME IInv, NEW a \in Actors, NEW e \in Engines, NEW ok \in BOOLEAN, End(a, e, ok),
           \A b \in Actors \ {a} : hand'[b] = hand[b], hand'[a] = "none",
           model' = model,
           piper' = piper \/ (piper # "none" /\ piper' # "none") \/ lock["piperRunMu"] \in {NoOne, a}
    PROVE  UseInv'
<1>1. /\ \A b \in Actors \ {a} : pc'[b] = pc[b]
      /\ pc'[a][1] \in {"rest", "check", "run"}
      /\ \A m \in Mutexes : lock[m] # a => lock'[m] = lock[m]
  BY EndTyped DEF IInv
<1>2. Moves(a) BY <1>1 DEF Moves
<1> QED BY <1>1, <1>2, Idle, UseFrame

(* A goroutine that only goes somewhere.                                   *)
LEMMA Walk ==
    ASSUME IInv, NEW a \in Actors, \A b \in Actors \ {a} : pc'[b] = pc[b],
           pc'[a][1] \in {"rest", "check", "run"}, pc[a] # <<"stop", "resident">>,
           lock' = lock, hand' = hand, piper' = piper,
           \A e \in Models : model'[e] = model[e] \/ model'[e] \/ lock[RunMu[e]] = NoOne
    PROVE  UseInv'
<1>1. hand'[a] = "none" BY EmptyHand
<1>2. Moves(a) BY DEF Moves
<1> QED BY <1>1, <1>2, Idle, UseFrame

(* The models and the child in use.                                        *)
LEMMA UseNext ==
    ASSUME IInv, [Next]_vars PROVE UseInv'
<1> /\ IInv /\ pc \in [Actors -> Labels \X Engines] /\ hand \in [Actors -> {"none", "up", "dead"}]
    /\ lock \in [Mutexes -> Actors \cup {NoOne}] /\ model \in [Models -> BOOLEAN]
  BY DEF IInv, TypeOK
<1> USE DEF engineVars, piperVars, Mutexes
<1>1. ASSUME NEW h \in Hearers, Hear(h) PROVE UseInv'
  <2>1. h \in Actors /\ pc[h] # <<"stop", "resident">> BY <1>1, Who DEF Rest, At, Hear
  <2>2. pc'[h][1] \in {"rest", "check", "run"} /\ \A b \in Actors \ {h} : pc'[b] = pc[b]
    BY <1>1, <2>1 DEF Goto, Hear
  <2>3. UNCHANGED <<lock, hand, piper>> /\ \A e_1 \in Models : model'[e_1] = model[e_1] \/ model'[e_1]
    BY <1>1 DEF Hear
  <2> QED BY <2>1, <2>2, <2>3, Walk
<1>2. ASSUME NEW s \in Speakers, Say(s) PROVE UseInv'
  <2>1. s \in Actors /\ pc[s] # <<"stop", "resident">> BY <1>2, Who DEF Rest, At, Say
  <2>2. pc'[s][1] \in {"rest", "check", "run"} /\ \A b \in Actors \ {s} : pc'[b] = pc[b]
    BY <1>2, <2>1 DEF Goto, Say
  <2>3. UNCHANGED <<lock, hand, piper>> /\ \A e_1 \in Models : model'[e_1] = model[e_1] \/ model'[e_1]
    BY <1>2 DEF Say
  <2> QED BY <2>1, <2>2, <2>3, Walk
<1>3. ASSUME NEW e \in Models, Preload(e) PROVE UseInv'
  <2>1. Main \in Actors /\ pc[Main] # <<"stop", "resident">> BY <1>3, Who DEF Rest, At, Preload
  <2>a. Next1(Main, e)[1] \in {"rest", "check", "run"} BY Places, Who
  <2>2. pc'[Main][1] \in {"rest", "check", "run"} /\ \A b \in Actors \ {Main} : pc'[b] = pc[b]
    BY <1>3, <2>1, <2>a DEF Goto, Preload
  <2>3. UNCHANGED <<lock, hand, piper>> /\ \A e_1 \in Models : model'[e_1] = model[e_1] \/ model'[e_1]
    BY <1>3 DEF Preload
  <2> QED BY <2>1, <2>2, <2>3, Walk
<1>4. CASE Serve
  <2>1. Idler \in Actors /\ pc[Idler] # <<"stop", "resident">> BY <1>4, Who DEF Rest, At, Serve, IInv, SleepInv
  <2>2. pc'[Idler][1] \in {"rest", "check", "run"} /\ \A b \in Actors \ {Idler} : pc'[b] = pc[b]
    BY <1>4, <2>1 DEF Goto, Serve
  <2>3. UNCHANGED <<lock, hand, piper>> /\ \A e_1 \in Models : model'[e_1] = model[e_1] \/ model'[e_1]
    BY <1>4 DEF Serve
  <2> QED BY <2>1, <2>2, <2>3, Walk
<1>5. CASE Shutdown
  <2>1. Main \in Actors /\ pc[Main] # <<"stop", "resident">> BY <1>5, Who DEF Rest, At, Shutdown, IInv, SleepInv
  <2>2. pc'[Main][1] \in {"rest", "check", "run"} /\ \A b \in Actors \ {Main} : pc'[b] = pc[b]
    BY <1>5, <2>1 DEF Goto, Shutdown
  <2>3. UNCHANGED <<lock, hand, piper>> /\ \A e_1 \in Models : model'[e_1] = model[e_1] \/ model'[e_1]
    BY <1>5 DEF Shutdown
  <2> QED BY <2>1, <2>2, <2>3, Walk
<1>6. CASE Exit
  <2>1. \A a \in Actors : pc'[a][1] \in {"rest", "check"} /\ hand'[a] = "none" BY <1>6 DEF Exit, Rest
  <2> QED BY <2>1, Idle DEF UseInv
<1>7. CASE KidExit
  <2>1. \A a \in Actors : UseOf(a)' /\ KidOf(a)' BY <1>7 DEF KidExit, IInv, UseInv, UseOf, KidOf, At
  <2> QED BY <2>1 DEF UseInv
<1>8. ASSUME NEW a \in Actors, EngineStep(a) \/ StoppedKidExit(a) PROVE UseInv'
  <2>1. ASSUME NEW e \in Models, Ensure(a, e) PROVE UseInv'
    <3>0. hand[a] = "none" /\ hand' = hand /\ piper' = piper /\ e \in Engines
        BY <2>1, EmptyHand DEF At, Ensure, Engines
    <3>1. CASE End(a, e, FALSE) /\ model' = model BY <3>0, <3>1, EndUse
    <3>2. CASE /\ IF model[e] THEN UNCHANGED engineVars ELSE model' = [model EXCEPT ![e] = TRUE] /\ Mark(e)
               /\ Acquire(a, RunMu[e]) /\ Goto(a, "use", e)
      <4>1. Moves(a) BY <3>0, <3>2 DEF Moves, Acquire, Goto
      <4>2. model'[e] /\ \A f \in Models : model'[f] = model[f] \/ model'[f] BY <3>2
      <4>3. RunMu[e] \in Mutexes BY DEF RunMu, Models, Mutexes
      <4>4. pc'[a] = <<"use", e>> /\ lock'[RunMu[e]] = a
        BY <3>2, <4>3 DEF Acquire, Goto
      <4>5. UseOf(a)' /\ KidOf(a)' BY <3>0, <4>2, <4>4 DEF UseOf, KidOf, At
      <4> QED BY <3>0, <4>1, <4>2, <4>5, UseFrame
    <3> QED BY <2>1, <3>1, <3>2 DEF Ensure
  <2>2. ASSUME NEW e \in Models, Delete(a, e) PROVE UseInv'
    <3>1. Next1(a, e)[1] \in {"rest", "check", "run"} BY Places
    <3>2. pc[a] # <<"stop", "resident">> /\ \A b \in Actors \ {a} : pc'[b] = pc[b] BY <2>2 DEF Delete, At
    <3>3. UNCHANGED <<lock, hand, piper>> /\ pc'[a] = Next1(a, e) BY <2>2 DEF Delete
    <3>4. \A f \in Models : model'[f] = model[f] \/ lock[RunMu[f]] = NoOne BY <2>2 DEF Delete
    <3> QED BY <3>1, <3>2, <3>3, <3>4, Walk
  <2>3. ASSUME NEW e \in Engines, UseModel(a, e) PROVE UseInv'
    <3>1. \E ok \in BOOLEAN : End(a, e, ok) BY <2>3 DEF UseModel
    <3>2. hand[a] = "none" BY <2>3, EmptyHand DEF At, UseModel
    <3>3. hand' = hand /\ piper' = piper /\ model' = model BY <2>3 DEF UseModel
    <3> QED BY <3>1, <3>2, <3>3, EndUse
  <2>4. CASE OneShot(a)
    <3>0. hand[a] = "none" /\ hand' = hand /\ piper' = piper /\ model' = model
      BY <2>4, EmptyHand DEF At, OneShot
    <3>1. CASE End(a, "oneshot", FALSE) BY <3>0, <3>1, EndUse, Names
    <3>2. CASE Acquire(a, "piperRunMu") /\ Goto(a, "use", "oneshot")
      <4>1. Moves(a) BY <3>0, <3>2 DEF Moves, Acquire, Goto
      <4>2. pc'[a] = <<"use", "oneshot">> BY <3>2 DEF Goto
      <4>3. UseOf(a)' /\ KidOf(a)' BY <3>0, <4>2, Names DEF UseOf, KidOf, At
      <4> QED BY <3>0, <4>1, <4>3, UseFrame
    <3> QED BY <2>4, <3>1, <3>2 DEF OneShot
  <2>5. CASE StartKid(a)
    <3>0. hand[a] = "none" /\ hand' = hand /\ model' = model /\ lock["piperRunMu"] = NoOne
        BY <2>5, EmptyHand DEF At, StartKid, Acquire
    <3>1. Moves(a) BY <2>5, <3>0 DEF StartKid, Moves, Acquire, Goto
    <3>2. pc'[a] = <<"ask", "resident">> /\ piper' # "none" /\ lock'["piperRunMu"] = a
      BY <2>5 DEF StartKid, Goto, Acquire
    <3>3. UseOf(a)' /\ KidOf(a)' BY <3>0, <3>2 DEF UseOf, KidOf, At
    <3> QED BY <3>0, <3>1, <3>3, UseFrame
  <2>6. CASE StartFails(a)
    <3>1. End(a, "resident", FALSE) /\ "resident" \in Engines BY <2>6, Names DEF StartFails, Fail
    <3>2. hand[a] = "none" BY <2>6, EmptyHand DEF At, StartFails, Fail
    <3>3. hand' = hand /\ piper' = piper /\ model' = model BY <2>6 DEF StartFails, Fail
    <3> QED BY <3>1, <3>2, <3>3, EndUse
  <2>7. CASE Answer(a)
    <3>1. End(a, "resident", TRUE) /\ "resident" \in Engines BY <2>7, Names DEF Answer
    <3>2. hand[a] = "none" BY <2>7, EmptyHand DEF At, Answer
    <3>3. hand' = hand /\ piper' = piper /\ model' = model BY <2>7 DEF Answer
    <3> QED BY <3>1, <3>2, <3>3, EndUse
  <2>8. CASE Restart(a)
    <3>0. hand[a] = "none" /\ UNCHANGED <<lock, model>> /\ lock["piperRunMu"] = a
        BY <2>8, EmptyHand DEF At, Restart, StopKid, IInv, UseInv, KidOf
    <3>1. Moves(a) BY <2>8, <3>0 DEF Restart, StopKid, Moves, Goto
    <3>2. pc'[a] = <<"stop", "resident">> /\ piper' = "none"
      BY <2>8 DEF Restart, StopKid, Goto
    <3>3. UseOf(a)' /\ KidOf(a)' BY <3>0, <3>2 DEF UseOf, KidOf, At
    <3> QED BY <3>0, <3>1, <3>3, UseFrame
  <2>9. CASE GiveUp(a)
    <3>1. End(a, "resident", FALSE) /\ "resident" \in Engines BY <2>9, Names DEF GiveUp, Fail
    <3>2. hand[a] = "none" BY <2>9, EmptyHand DEF At, GiveUp, Fail
    <3>3. hand' = hand /\ piper' = piper /\ model' = model BY <2>9 DEF GiveUp, Fail
    <3> QED BY <3>1, <3>2, <3>3, EndUse
  <2>10. CASE UnloadKid(a)
    <3>0. hand[a] = "none" /\ lock["piperRunMu"] = NoOne /\ pc[a] = <<"run", "resident">> BY <2>10, EmptyHand DEF At, UnloadKid
    <3>1. CASE piper = "none"
      <4>1. UNCHANGED <<lock, model, hand, piper>> /\ pc'[a] = <<"run", "tts">> /\ \A b \in Actors \ {a} : pc'[b] = pc[b]
        BY <2>10, <3>1 DEF UnloadKid, Goto
      <4> QED BY <3>0, <4>1, Walk
    <3>2. CASE piper # "none"
      <4>1. StopKid(a) /\ Acquire(a, "piperRunMu") BY <2>10, <3>2 DEF UnloadKid
      <4>2. Moves(a) /\ model' = model BY <3>0, <4>1 DEF StopKid, Acquire, Moves, Goto
      <4>3. pc'[a] = <<"stop", "resident">> /\ piper' = "none" /\ lock'["piperRunMu"] = a
        BY <4>1 DEF StopKid, Acquire, Goto
      <4>4. UseOf(a)' /\ KidOf(a)' BY <4>3 DEF UseOf, KidOf, At
      <4> QED BY <3>0, <4>2, <4>4, UseFrame
    <3> QED BY <3>1, <3>2
  <2>11. CASE Stopped(a)
    <3>0. lock["piperRunMu"] = a /\ hand'[a] = "none" /\ \A b \in Actors \ {a} : hand'[b] = hand[b]
        BY <2>11 DEF Stopped, IInv, UseInv, KidOf
    <3>1. model' = model BY <2>11 DEF Stopped, Continue, Fail
    <3>2. CASE lock' = Freed(a) /\ Goto(a, "run", "tts")
      <4>1. pc'[a] = <<"run", "tts">> /\ Moves(a) BY <3>0, <3>2 DEF Goto, Moves, Freed
      <4>2. UseOf(a)' /\ KidOf(a)' BY <3>0, <4>1, Idle
      <4> QED BY <3>0, <3>1, <4>1, <4>2, UseFrame
    <3>3. CASE piper' = "up" /\ Goto(a, "ask", "resident") /\ lock' = lock
      <4>1. pc'[a] = <<"ask", "resident">> /\ Moves(a) BY <3>0, <3>3 DEF Goto, Moves
      <4>2. UseOf(a)' /\ KidOf(a)' BY <3>0, <3>3, <4>1 DEF UseOf, KidOf, At
      <4> QED BY <3>0, <3>1, <4>1, <4>2, UseFrame
    <3>4. CASE End(a, "resident", FALSE)
      BY <3>0, <3>1, <3>4, EndUse, Names
    <3> QED BY <2>11, <3>2, <3>3, <3>4 DEF Stopped, Continue, Fail
  <2>12. CASE StoppedKidExit(a)
    <3>1. hand[a] = "up" /\ pc' = pc /\ lock' = lock /\ model' = model /\ piper' = piper BY <2>12 DEF StoppedKidExit
    <3>2. Moves(a) BY <2>12 DEF Moves, StoppedKidExit
    <3>3. UseOf(a)' /\ KidOf(a)' BY <3>1 DEF IInv, UseInv, UseOf, KidOf, At
    <3> QED BY <3>1, <3>2, <3>3, UseFrame
  <2> QED BY <1>8, <2>1, <2>2, <2>3, <2>4, <2>5, <2>6, <2>7, <2>8, <2>9, <2>10, <2>11, <2>12 DEF EngineStep, PiperStep
<1>9. ASSUME NEW e \in Models, IdleCheck(e) \/ TimePasses(e) \/ Configure(e) PROVE UseInv'
  <2>1. CASE IdleCheck(e)
    <3>1. Idler \in Actors /\ pc[Idler] # <<"stop", "resident">> /\ Next1(Idler, e)[1] \in {"rest", "check", "run"}
    BY <2>1, Who, Places DEF IdleCheck, At
  <3>2. pc'[Idler][1] \in {"rest", "check", "run"} /\ \A b \in Actors \ {Idler} : pc'[b] = pc[b]
    BY <2>1, <3>1 DEF IdleCheck, Goto
  <3> QED BY <2>1, <3>1, <3>2, Walk DEF IdleCheck
  <2>2. CASE TimePasses(e) BY <2>2 DEF TimePasses, IInv, UseInv, UseOf, KidOf, At
  <2>3. CASE Configure(e) BY <2>3 DEF Configure, IInv, UseInv, UseOf, KidOf, At
  <2> QED BY <1>9, <2>1, <2>2, <2>3
<1>10. CASE UNCHANGED vars BY <1>10 DEF vars, IInv, UseInv, UseOf, KidOf, At
<1> QED BY <1>1, <1>2, <1>3, <1>4, <1>5, <1>6, <1>7, <1>8, <1>9, <1>10
        DEF Next, Arrivals, MainStep

(* main sleeps while it serves and the idle loop before; and a step of the *)
(* engine that loads a model stamps it.                                    *)
LEMMA EngineQuiet ==
    ASSUME TypeOK, LoadedCanExpire, NEW a \in Actors, EngineStep(a) \/ StoppedKidExit(a)
    PROVE  /\ phase' = phase /\ \A b \in Actors \ {a} : pc'[b] = pc[b]
           /\ pc[a] = Rest => pc' = pc
           /\ LoadedCanExpire'
<1> /\ stamp \in [Models -> {"never", "recent", "expired"}] /\ model \in [Models -> BOOLEAN]
    /\ \A e \in Models : model[e] => stamp[e] # "never"
    /\ pc \in [Actors -> Labels \X Engines]
  BY DEF TypeOK, LoadedCanExpire
<1> DEFINE Goal == /\ phase' = phase /\ \A b \in Actors \ {a} : pc'[b] = pc[b]
                   /\ pc[a] = Rest => pc' = pc
                   /\ LoadedCanExpire'
<1> USE DEF engineVars, piperVars
<1>0. ASSUME NEW e \in Engines, NEW ok \in BOOLEAN, End(a, e, ok)
      PROVE  phase' = phase /\ \A b \in Actors \ {a} : pc'[b] = pc[b]
  BY <1>0, EndTyped
<1>1. ASSUME NEW e \in Models, Ensure(a, e) PROVE Goal
  <2>1. pc[a] # Rest BY <1>1 DEF Ensure, At, Rest
  <2>2. phase' = phase /\ \A b \in Actors \ {a} : pc'[b] = pc[b]
    <3>1. CASE End(a, e, FALSE) BY <1>0, <3>1, Names
    <3>2. CASE Goto(a, "use", e) /\ UNCHANGED phase BY <3>2 DEF Goto
    <3> QED BY <1>1, <3>1, <3>2 DEF Ensure
  <2>3. LoadedCanExpire'
    <3>1. CASE UNCHANGED engineVars BY <3>1 DEF LoadedCanExpire
    <3>2. CASE model' = [model EXCEPT ![e] = TRUE] /\ Mark(e) BY <3>2 DEF LoadedCanExpire, Mark
    <3> QED BY <1>1, <3>1, <3>2 DEF Ensure
  <2> QED BY <2>1, <2>2, <2>3
<1>2. ASSUME NEW e \in Models, Delete(a, e) PROVE Goal
  BY <1>2 DEF Delete, At, Rest, LoadedCanExpire
<1>3. ASSUME NEW e \in Engines, UseModel(a, e) PROVE Goal
  <2>1. pc[a] # Rest BY <1>3 DEF UseModel, At, Rest
  <2>2. phase' = phase /\ \A b \in Actors \ {a} : pc'[b] = pc[b]
    <3>1. \E ok \in BOOLEAN : End(a, e, ok) BY <1>3 DEF UseModel
    <3> QED BY <1>0, <3>1
  <2>3. LoadedCanExpire' BY <1>3, Places DEF UseModel, Mark, LoadedCanExpire
  <2> QED BY <2>1, <2>2, <2>3
<1>4. ASSUME OneShot(a) PROVE Goal
  <2>1. pc[a] # Rest BY <1>4 DEF OneShot, At, Rest
  <2>2. phase' = phase /\ \A b \in Actors \ {a} : pc'[b] = pc[b]
    <3>1. CASE End(a, "oneshot", FALSE) BY <1>0, <3>1, Names
    <3>2. CASE Goto(a, "use", "oneshot") /\ UNCHANGED phase BY <3>2 DEF Goto
    <3> QED BY <1>4, <3>1, <3>2 DEF OneShot
  <2> QED BY <1>4, <2>1, <2>2 DEF OneShot, LoadedCanExpire
<1>5. ASSUME PiperStep(a) PROVE Goal
  <2>1. pc[a] # Rest
    <3>1. Rest[1] # "run" /\ Rest[1] # "ask" /\ Rest[1] # "stop" BY DEF Rest
    <3>2. CASE pc[a] = <<"run", "resident">> BY <3>1, <3>2
    <3>3. CASE pc[a] = <<"ask", "resident">> BY <3>1, <3>3
    <3>4. CASE pc[a] = <<"stop", "resident">> BY <3>1, <3>4
    <3>5. CASE StartKid(a) BY <3>2, <3>5 DEF StartKid, At
    <3>6. CASE StartFails(a) BY <3>2, <3>6 DEF StartFails, At
    <3>7. CASE UnloadKid(a) BY <3>2, <3>7 DEF UnloadKid, At
    <3>8. CASE Answer(a) BY <3>3, <3>8 DEF Answer, At
    <3>9. CASE Restart(a) BY <3>3, <3>9 DEF Restart, At
    <3>10. CASE GiveUp(a) BY <3>3, <3>10 DEF GiveUp, At
    <3>11. CASE Stopped(a) BY <3>4, <3>11 DEF Stopped, At
    <3> QED BY <1>5, <3>5, <3>6, <3>7, <3>8, <3>9, <3>10, <3>11 DEF PiperStep
  <2>2. phase' = phase /\ \A b \in Actors \ {a} : pc'[b] = pc[b]
    <3>1. CASE StartFails(a) \/ Answer(a) \/ GiveUp(a)
      BY <1>0, <3>1, Names DEF StartFails, Fail, Answer, GiveUp
    <3>2. CASE StartKid(a) \/ Restart(a) \/ UnloadKid(a)
      BY <3>2 DEF StartKid, Restart, UnloadKid, StopKid, Goto
    <3>3. CASE Stopped(a)
      <4>1. CASE End(a, "resident", FALSE) BY <1>0, <4>1, Names
      <4>2. CASE (Goto(a, "run", "tts") \/ Goto(a, "ask", "resident")) /\ UNCHANGED phase BY <4>2 DEF Goto
      <4> QED BY <3>3, <4>1, <4>2 DEF Stopped, Continue, Fail
    <3> QED BY <1>5, <3>1, <3>2, <3>3 DEF PiperStep
  <2>3. LoadedCanExpire'
    <3>1. CASE Answer(a) BY <3>1 DEF Answer, Mark, LoadedCanExpire, Models
    <3>2. CASE ~Answer(a)
      <4>1. UNCHANGED <<model, stamp>>
        BY <1>5, <3>2 DEF PiperStep, StartKid, StartFails, Fail, Restart, GiveUp, UnloadKid, StopKid,
                          Stopped, Continue
      <4> QED BY <4>1 DEF LoadedCanExpire
    <3> QED BY <3>1, <3>2
  <2> QED BY <2>1, <2>2, <2>3
<1>6. ASSUME StoppedKidExit(a) PROVE Goal
  BY <1>6 DEF StoppedKidExit, LoadedCanExpire
<1>7. EngineStep(a) => \/ \E e \in Models : Ensure(a, e) \/ Delete(a, e)
                       \/ \E e \in Engines : UseModel(a, e)
                       \/ OneShot(a) \/ PiperStep(a)
  BY DEF EngineStep
<1> QED BY <1>1, <1>2, <1>3, <1>4, <1>5, <1>6, <1>7

LEMMA SleepNext ==
    ASSUME IInv, [Next]_vars PROVE SleepInv' /\ LoadedCanExpire'
<1> /\ SleepInv /\ LoadedCanExpire /\ TypeOK /\ pc \in [Actors -> Labels \X Engines]
    /\ stamp \in [Models -> {"never", "recent", "expired"}] /\ model \in [Models -> BOOLEAN]
  BY DEF IInv, TypeOK
<1> /\ Main \in Actors /\ Idler \in Actors /\ Main # Idler /\ Main \notin Requests /\ Idler \notin Requests
    /\ Hearers \subseteq Requests /\ Speakers \subseteq Requests /\ Requests \subseteq Actors
  BY Who
<1> USE DEF SleepInv, LoadedCanExpire, engineVars, piperVars
<1>1. ASSUME NEW h \in Hearers, Hear(h) PROVE SleepInv' /\ LoadedCanExpire'
  BY <1>1 DEF Hear, Goto
<1>2. ASSUME NEW s \in Speakers, Say(s) PROVE SleepInv' /\ LoadedCanExpire'
  <2>1. PICK p \in Plans : Goto(s, "run", p[1])
    BY <1>2 DEF Say
  <2> QED BY <1>2, <2>1 DEF Say, Goto
<1>3. ASSUME NEW e \in Models, Preload(e) PROVE SleepInv' /\ LoadedCanExpire'
  BY <1>3 DEF Preload, Mark, Goto
<1>4. CASE Serve BY <1>4 DEF Serve, Goto
<1>5. CASE Shutdown BY <1>5 DEF Shutdown
<1>6. CASE Exit BY <1>6 DEF Exit
<1>7. CASE KidExit BY <1>7 DEF KidExit
<1>8. ASSUME NEW a \in Actors, EngineStep(a) \/ StoppedKidExit(a) PROVE SleepInv' /\ LoadedCanExpire'
  <2>1. /\ phase' = phase /\ \A b \in Actors \ {a} : pc'[b] = pc[b]
        /\ pc[a] = Rest => pc' = pc
        /\ LoadedCanExpire'
    BY <1>8, EngineQuiet
  <2> QED BY <2>1
<1>9. ASSUME NEW e \in Models, IdleCheck(e) \/ TimePasses(e) \/ Configure(e) PROVE SleepInv' /\ LoadedCanExpire'
  <2>1. CASE IdleCheck(e) BY <2>1 DEF IdleCheck, Goto
  <2>2. CASE TimePasses(e) BY <2>2 DEF TimePasses
  <2>3. CASE Configure(e) BY <2>3 DEF Configure
  <2> QED BY <1>9, <2>1, <2>2, <2>3
<1>10. CASE UNCHANGED vars BY <1>10 DEF vars
<1> QED BY <1>1, <1>2, <1>3, <1>4, <1>5, <1>6, <1>7, <1>8, <1>9, <1>10
        DEF Next, Arrivals, MainStep

-----------------------------------------------------------------------------
LEMMA Initially == Init => IInv
<1> SUFFICES ASSUME Init PROVE IInv
  OBVIOUS
<1> USE DEF Init
<1>1. TypeOK
  <2>1. <<"check", "asr">> \in Labels \X Engines BY Names
  <2>2. \A a \in Actors : plan[a] \in Seq(Engines) BY EmptySeq
  <2> QED BY <2>1, <2>2, Places, EmptySeq DEF TypeOK
<1>2. UseInv
  BY DEF UseInv, UseOf, KidOf, At, Rest
<1>3. SleepInv /\ LoadedCanExpire
  BY Who DEF SleepInv, LoadedCanExpire
<1> QED BY <1>1, <1>2, <1>3 DEF IInv

(* The inductive invariant holds: who uses a model holds its run lock      *)
(* (recognize, synthesizeSupertonic, synthesizePiperResident).             *)
THEOREM Speaking == Spec => []IInv
<1>1. IInv /\ [Next]_vars => IInv'
  BY TypeNext, UseNext, SleepNext DEF IInv
<1> QED BY Initially, <1>1, PTL DEF Spec

(* Every variable of the speech engine keeps its type (engine.go).         *)
THEOREM Typing == Spec => []TypeOK
<1>1. IInv => TypeOK
  BY DEF IInv
<1> QED BY Speaking, <1>1, PTL

(* No model is deleted and no child replaced under who uses it (recognize, *)
(* unloadASR, unloadTTS), for any number of requests.                      *)
THEOREM NothingIsFreedInUse == Spec => []NothingFreedInUse
<1>1. IInv => NothingFreedInUse
  BY DEF IInv, UseInv, UseOf, KidOf, NothingFreedInUse
<1> QED BY Speaking, <1>1, PTL

(* Never two Piper children, however often one is restarted or unloaded    *)
(* (stopPiperResidentLocked, startPiperResidentLocked).                    *)
THEOREM NeverTwoChildren == Spec => []OneChild
<1>1. IInv => OneChild
  BY DEF IInv, UseInv, KidOf, OneChild
<1> QED BY Speaking, <1>1, PTL

(* Two requests never talk to the resident child at the same time.         *)
THEOREM PipesAreExclusive == Spec => []OneConversation
<1>1. IInv => OneConversation
  BY DEF IInv, UseInv, KidOf, OneConversation
<1> QED BY Speaking, <1>1, PTL

(* What is loaded can expire (ensureASR, ensureSupertonic, idleUnloadLoop).*)
THEOREM LoadedIsStamped == Spec => []LoadedCanExpire
<1>1. IInv => LoadedCanExpire
  BY DEF IInv
<1> QED BY Speaking, <1>1, PTL
===============================================================================
