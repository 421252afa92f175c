---------------------------- MODULE VoiceTurnProofs ----------------------------
(***************************************************************************)
(* Theorems about VoiceTurn, for any number of turns and sessions, any     *)
(* reply length, channel capacity and size of the remembered window.       *)
(*                                                                         *)
(* SavesAppend is not inductive by itself: that a save adds to what the    *)
(* file holds now follows from what the saving turn loaded long before,    *)
(* and from nobody else having touched the file since.  Owner records both *)
(* for every handler that is between its load and its save.                *)
(*                                                                         *)
(* WindowIsRight holds of a file because it holds of what each handler     *)
(* keeps in memory and of every temporary file, and because one more turn  *)
(* preserves it: Remembered.  Its last part is not inductive as it stands  *)
(* (a question at the very end would be cut off from its answer), so       *)
(* Paired also says that no question is the last message.                  *)
(***************************************************************************)
EXTENDS VoiceTurn, SequenceTheorems, FiniteSetTheorems, TLAPS

Loaded == {"ready", "ask", "call", "transcript", "range", "speak", "result", "commit"}
Locked == Loaded \cup {"rename"}

(* What a turn will have saved, from what the file holds now.              *)
Base(t) == IF fresh[t] THEN NewSession ELSE file[sess[t]]

Shape ==
    /\ pc \in [Turns -> Labels]
    /\ sess \in [Turns -> Sessions \cup {NoSession}]
    /\ DOMAIN lock = Sessions /\ DOMAIN file = Sessions /\ DOMAIN tmp = Sessions
    /\ DOMAIN local = Turns
    /\ fresh \in [Turns -> BOOLEAN]

Owner(t) ==
    /\ sess[t] \in Sessions /\ pc[t] \in Locked =>
          /\ lock[sess[t]] = t
          /\ fresh[t] \/ file[sess[t]] # NoFile
    /\ sess[t] \in Sessions /\ pc[t] \in Loaded => local[t] = Base(t)
    /\ pc[t] = "lock" => sess[t] \in Sessions
    /\ pc[t] = "rename" => sess[t] \in Sessions /\ tmp[sess[t]] = Add(Base(t), t)

Ownership == Shape /\ \A t \in Turns : Owner(t)

LEMMA OwnershipInit == Init => Ownership
  BY DEF Init, Ownership, Shape, Owner, Labels, Locked, Loaded

-----------------------------------------------------------------------------
(***************************************************************************)
(* Most steps leave the session alone and only move handlers between       *)
(* places that need no more than before.                                   *)
(***************************************************************************)
unsaved == <<sess, local, fresh, lock, file, tmp>>

Forth(t) == \/ pc'[t] = pc[t]
            \/ pc'[t] \notin Locked \cup {"lock"}
            \/ pc[t] \in Loaded /\ pc'[t] \in Loaded

LEMMA Frame ==
  ASSUME Ownership, UNCHANGED unsaved, pc' \in [Turns -> Labels], \A t \in Turns : Forth(t)
  PROVE  Ownership'
<1>1. Shape'
  BY DEF Ownership, Shape, unsaved
<1>2. ASSUME NEW t \in Turns PROVE Owner(t)'
  <2>1. Base(t)' = Base(t)
    BY DEF Base, unsaved
  <2>2. Add(Base(t), t)' = Add(Base(t), t)
    BY <2>1 DEF Add, Compact
  <2>3. Owner(t) /\ Forth(t)
    BY DEF Ownership
  <2>4. CASE pc'[t] = pc[t]
    BY <2>1, <2>2, <2>3, <2>4 DEF Owner, unsaved
  <2>5. CASE pc'[t] \notin Locked \cup {"lock"}
    BY <2>5 DEF Owner, Locked
  <2>6. CASE pc[t] \in Loaded /\ pc'[t] \in Loaded
    BY <2>1, <2>3, <2>6 DEF Owner, unsaved, Locked, Loaded
  <2> QED BY <2>3, <2>4, <2>5, <2>6 DEF Forth
<1> QED BY <1>1, <1>2 DEF Ownership

(* A step that moves one handler by Go, or by an EXCEPT of the same form.  *)
LEMMA FrameOne ==
  ASSUME Ownership, UNCHANGED unsaved, NEW t \in Turns, NEW x \in Labels,
         pc' = [pc EXCEPT ![t] = x], x # "lock",
         x \in Locked => pc[t] \in Loaded /\ x \in Loaded
  PROVE  Ownership'
<1>1. pc \in [Turns -> Labels]
  BY DEF Ownership, Shape
<1>2. pc' \in [Turns -> Labels] /\ \A u \in Turns : Forth(u)
  BY <1>1 DEF Forth, Labels
<1> QED BY <1>2, Frame

LEMMA FrameNone ==
  ASSUME Ownership, UNCHANGED <<pc, unsaved>>
  PROVE  Ownership'
<1>1. pc' \in [Turns -> Labels] /\ \A u \in Turns : Forth(u)
  BY DEF Forth, Ownership, Shape
<1> QED BY <1>1, Frame DEF unsaved

-----------------------------------------------------------------------------
(***************************************************************************)
(* The steps that touch a session.                                         *)
(***************************************************************************)
LEMMA ArriveStep == ASSUME Ownership, NEW t \in Turns, Arrive(t) PROVE Ownership'
<1> USE DEF Ownership
<1>1. Shape'
  BY DEF Shape, Arrive, Go, Labels, sessionVars
<1>2. ASSUME NEW u \in Turns, u # t PROVE Owner(u)'
  <2>1. pc'[u] = pc[u] /\ sess'[u] = sess[u] /\ UNCHANGED sessionVars
    BY <1>2 DEF Shape, Arrive, Go
  <2>2. Base(u)' = Base(u) /\ Add(Base(u), u)' = Add(Base(u), u)
    BY <2>1 DEF Base, sessionVars
  <2> QED BY <2>1, <2>2 DEF Owner, sessionVars
<1>3. Owner(t)'
  <2>1. PICK s \in Sessions \cup {NoSession} :
           /\ sess' = [sess EXCEPT ![t] = s]
           /\ pc' = [pc EXCEPT ![t] = IF s = NoSession THEN "ready" ELSE "lock"]
    BY DEF Arrive, Go
  <2>2. sess'[t] = s /\ pc'[t] = IF s = NoSession THEN "ready" ELSE "lock"
    BY <2>1 DEF Shape
  <2> QED BY <2>2, VoiceAssumption DEF Owner, Locked, Loaded
<1> QED BY <1>1, <1>2, <1>3

(* Taking a free mutex disturbs nobody: no other turn of the session is    *)
(* between its load and its save.                                          *)
LEMMA LoadStep ==
  ASSUME Ownership, NEW t \in Turns, sess[t] \in Sessions, Load(t) \/ LoadReset(t)
  PROVE  Ownership'
<1> USE DEF Ownership
<1>1. /\ lock[sess[t]] = Free /\ pc' = [pc EXCEPT ![t] = "ready"]
      /\ lock' = [lock EXCEPT ![sess[t]] = t] /\ sess' = sess /\ tmp' = tmp
      /\ local' = [local EXCEPT ![t] = local'[t]] /\ fresh' = [fresh EXCEPT ![t] = fresh'[t]]
      /\ fresh'[t] \in BOOLEAN
      /\ file' = file \/ file' = [file EXCEPT ![sess[t]] = NoFile]
  BY DEF Shape, Load, LoadReset, Go
<1>2. Shape'
  BY <1>1 DEF Shape, Labels
<1>3. ASSUME NEW u \in Turns, u # t PROVE Owner(u)'
  <2>1. Owner(u) /\ pc'[u] = pc[u] /\ sess'[u] = sess[u] /\ fresh'[u] = fresh[u] /\ local'[u] = local[u]
    BY <1>1, <1>3 DEF Shape
  <2>2. CASE sess[u] = sess[t]
    <3>1. lock[sess[u]] # u
      BY <1>1, <2>2, VoiceAssumption
    <3>2. pc[u] \notin Locked
      BY <2>1, <2>2, <3>1 DEF Owner
    <3> QED BY <2>1, <3>2 DEF Owner, Locked
  <2>3. CASE sess[u] # sess[t] /\ sess[u] \in Sessions
    <3>1. lock'[sess[u]] = lock[sess[u]] /\ file'[sess[u]] = file[sess[u]]
      BY <1>1, <2>3 DEF Shape
    <3>2. Base(u)' = Base(u) /\ Add(Base(u), u)' = Add(Base(u), u)
      BY <2>1, <3>1 DEF Base
    <3> QED BY <1>1, <2>1, <3>1, <3>2 DEF Owner
  <2>4. CASE sess[u] \notin Sessions
    BY <2>1, <2>4 DEF Owner
  <2> QED BY <2>2, <2>3, <2>4
<1>4. Owner(t)'
  <2>1. pc'[t] = "ready" /\ lock'[sess'[t]] = t
    BY <1>1 DEF Shape
  <2>2. fresh'[t] \/ file'[sess'[t]] # NoFile
    <3>1. CASE Load(t)
      BY <3>1 DEF Load, Shape
    <3>2. CASE LoadReset(t)
      BY <3>2 DEF LoadReset, Shape
    <3> QED BY <3>1, <3>2
  <2>3. local'[t] = IF fresh'[t] THEN NewSession ELSE file'[sess'[t]]
    <3>1. CASE Load(t)
      BY <3>1 DEF Load, Shape
    <3>2. CASE LoadReset(t)
      BY <3>2 DEF LoadReset, Shape
    <3> QED BY <3>1, <3>2
  <2> QED BY <2>1, <2>2, <2>3 DEF Owner, Base, Locked, Loaded
<1> QED BY <1>2, <1>3, <1>4

(* What every other turn keeps when the owner of a session changes only    *)
(* that session.                                                           *)
LEMMA OthersKeep ==
  ASSUME Ownership, NEW t \in Turns, NEW u \in Turns, u # t,
         sess[t] \in Sessions, lock[sess[t]] = t,
         UNCHANGED <<sess, fresh>>, pc'[u] = pc[u], local'[u] = local[u],
         \A s \in Sessions : s # sess[t] =>
            lock'[s] = lock[s] /\ file'[s] = file[s] /\ tmp'[s] = tmp[s]
  PROVE  Owner(u)'
<1>1. Owner(u)
  BY DEF Ownership
<1>2. CASE sess[u] = sess[t]
  <2>1. pc[u] \notin Locked
    BY <1>1, <1>2 DEF Owner
  <2> QED BY <1>1, <1>2, <2>1 DEF Owner, Locked
<1>3. CASE sess[u] # sess[t] /\ sess[u] \in Sessions
  <2>1. Base(u)' = Base(u) /\ Add(Base(u), u)' = Add(Base(u), u)
    BY <1>3 DEF Base
  <2> QED BY <1>1, <1>3, <2>1 DEF Owner
<1>4. CASE sess[u] \notin Sessions
  BY <1>1, <1>4 DEF Owner
<1> QED BY <1>2, <1>3, <1>4

LEMMA WriteTmpStep == ASSUME Ownership, NEW t \in Turns, WriteTmp(t) PROVE Ownership'
<1> USE DEF Ownership
<1>1. /\ sess[t] \in Sessions /\ pc[t] = "commit" /\ pc' = [pc EXCEPT ![t] = "rename"]
      /\ local' = [local EXCEPT ![t] = Add(local[t], t)]
      /\ tmp' = [tmp EXCEPT ![sess[t]] = local'[t]]
      /\ UNCHANGED <<sess, fresh, lock, file>>
  BY DEF WriteTmp, Go
<1>2. Shape'
  BY <1>1 DEF Shape, Labels
<1>3. lock[sess[t]] = t /\ (fresh[t] \/ file[sess[t]] # NoFile) /\ local[t] = Base(t)
  BY <1>1 DEF Owner, Locked, Loaded
<1>4. ASSUME NEW u \in Turns, u # t PROVE Owner(u)'
  <2>1. pc'[u] = pc[u] /\ local'[u] = local[u]
    BY <1>1, <1>4 DEF Shape
  <2>2. \A s \in Sessions : s # sess[t] => tmp'[s] = tmp[s]
    BY <1>1 DEF Shape
  <2> QED BY <1>1, <1>3, <1>4, <2>1, <2>2, OthersKeep
<1>5. Owner(t)'
  <2>1. pc'[t] = "rename" /\ tmp'[sess[t]] = Add(local[t], t)
    BY <1>1 DEF Shape
  <2>2. Base(t)' = Base(t)
    BY <1>1 DEF Base
  <2>3. tmp'[sess'[t]] = Add(Base(t)', t)
    BY <1>1, <1>3, <2>1, <2>2
  <2> QED BY <1>1, <1>3, <2>1, <2>3 DEF Owner, Loaded
<1> QED BY <1>2, <1>4, <1>5

(* A save ends, well or not: the turn is no longer an owner.               *)
LEMMA SaveStep == ASSUME Ownership, NEW t \in Turns, Rename(t) \/ SaveFails(t) PROVE Ownership'
<1> USE DEF Ownership
<1>1. /\ sess[t] \in Sessions /\ pc[t] \in {"commit", "rename"}
      /\ pc' = [pc EXCEPT ![t] = AfterCommit(t)]
      /\ lock' = [lock EXCEPT ![sess[t]] = Free]
      /\ UNCHANGED <<sess, local, fresh>>
      /\ \/ UNCHANGED <<file, tmp>>
         \/ /\ file' = [file EXCEPT ![sess[t]] = tmp[sess[t]]]
            /\ tmp' = [tmp EXCEPT ![sess[t]] = NoFile]
  BY DEF Rename, Renamed, SaveFails, Go, Owner
<1>2. AfterCommit(t) \in Labels \ (Locked \cup {"lock"})
  BY DEF AfterCommit, Labels, Locked, Loaded
<1>3. Shape'
  BY <1>1, <1>2 DEF Shape
<1>4. lock[sess[t]] = t
  BY <1>1 DEF Owner, Locked, Loaded
<1>5. ASSUME NEW u \in Turns, u # t PROVE Owner(u)'
  <2>1. pc'[u] = pc[u] /\ local'[u] = local[u]
    BY <1>1, <1>5 DEF Shape
  <2>2. \A s \in Sessions : s # sess[t] =>
           lock'[s] = lock[s] /\ file'[s] = file[s] /\ tmp'[s] = tmp[s]
    BY <1>1 DEF Shape
  <2> QED BY <1>1, <1>4, <1>5, <2>1, <2>2, OthersKeep
<1>6. Owner(t)'
  <2>1. pc'[t] \notin Locked \cup {"lock"}
    BY <1>1, <1>2 DEF Shape
  <2> QED BY <2>1 DEF Owner, Locked
<1> QED BY <1>3, <1>5, <1>6

LEMMA AbortStep == ASSUME Ownership, NEW t \in Turns, Abort(t) PROVE Ownership'
<1> USE DEF Ownership
<1>1. /\ pc[t] = "abort" /\ pc' = [pc EXCEPT ![t] = "done"]
      /\ lock' = [s \in Sessions |-> IF lock[s] = t THEN Free ELSE lock[s]]
      /\ UNCHANGED <<sess, local, fresh, file, tmp>>
  BY DEF Abort, Go, Holds
<1>2. Shape'
  BY <1>1 DEF Shape, Labels
<1>3. ASSUME NEW u \in Turns PROVE Owner(u)'
  <2>1. CASE u = t
    BY <1>1, <2>1 DEF Shape, Owner, Locked, Loaded
  <2>2. CASE u # t
    <3>1. pc'[u] = pc[u]
      BY <1>1, <2>2 DEF Shape
    <3>2. Base(u)' = Base(u) /\ Add(Base(u), u)' = Add(Base(u), u)
      BY <1>1 DEF Base
    <3>3. sess[u] \in Sessions /\ lock[sess[u]] = u => lock'[sess[u]] = u
      BY <1>1, <2>2
    <3> QED BY <1>1, <3>1, <3>2, <3>3 DEF Owner
  <2> QED BY <2>1, <2>2
<1> QED BY <1>2, <1>3

LEMMA RestartStep == ASSUME Ownership, Restart PROVE Ownership'
<1>1. Shape'
  BY DEF Ownership, Shape, Restart, Labels
<1>2. ASSUME NEW u \in Turns PROVE Owner(u)'
  BY DEF Restart, Owner, Locked, Loaded
<1> QED BY <1>1, <1>2 DEF Ownership

-----------------------------------------------------------------------------
(***************************************************************************)
(* The invariant and the theorem.                                          *)
(***************************************************************************)
LEMMA HandlerKeeps == ASSUME Ownership, NEW t \in Turns, HandlerStep(t) PROVE Ownership'
<1> USE DEF sessionVars, unsaved, Labels, Locked, Loaded
<1>1. CASE EnsureReady(t)
  BY <1>1, FrameOne DEF EnsureReady, Go
<1>2. CASE EarlyReturn(t)
  BY <1>2, FrameOne DEF EarlyReturn
<1>3. CASE Ask(t) \/ Answer(t)
  BY <1>3, FrameOne DEF Ask, Answer, Go
<1>4. CASE CallFails(t) \/ SpeakAll(t) \/ Finish(t)
  BY <1>4, FrameOne DEF CallFails, SpeakAll, Finish, Go
<1>5. CASE StartStream(t) \/ TakeChunk(t) \/ Speak(t)
  BY <1>5, FrameOne DEF StartStream, TakeChunk, Speak, Go
<1>6. CASE StopStream(t) \/ RangeEnds(t)
  BY <1>6, FrameOne DEF StopStream, RangeEnds, Go
<1>7. CASE TakeResult(t)
  BY <1>7, FrameOne DEF TakeResult
<1>8. CASE CommitNothing(t)
  BY <1>8, FrameOne DEF CommitNothing, AfterCommit, Go
<1>9. CASE WriteTmp(t)
  BY <1>9, WriteTmpStep
<1>10. CASE Rename(t) \/ SaveFails(t)
  BY <1>10, SaveStep
<1>11. CASE Abort(t)
  BY <1>11, AbortStep
<1> QED
  BY <1>1, <1>2, <1>3, <1>4, <1>5, <1>6, <1>7, <1>8, <1>9, <1>10, <1>11 DEF HandlerStep

(* The goroutines of a stream touch their pipe and their lease only.       *)
LEMMA PipeFrame == ASSUME NEW t \in Turns, RawStep(t) \/ WrapStep(t) PROVE UNCHANGED pipeOnly
<1>1. CASE RawStep(t)
  BY <1>1 DEF RawStep, RawBegin, RawRequest, RawFails, RawRead, RawDone, RawCancelled, RawCut,
     RawTail, RawSend, RawReply, RawExit, pipeOnly
<1>2. CASE WrapStep(t)
  BY <1>2 DEF WrapStep, WrapTake, WrapSend, WrapCancelled, WrapEnds, pipeOnly
<1> QED BY <1>1, <1>2

LEMMA PipeKeeps == ASSUME Ownership, NEW t \in Turns, RawStep(t) \/ WrapStep(t) PROVE Ownership'
  BY PipeFrame, FrameNone DEF pipeOnly, sessionVars, unsaved

LEMMA OwnershipStep == ASSUME Ownership, [Next]_vars PROVE Ownership'
<1>1. CASE UNCHANGED vars
  BY <1>1, FrameNone DEF vars, unsaved
<1>2. ASSUME NEW t \in Turns, Arrive(t) PROVE Ownership'
  BY <1>2, ArriveStep
<1>3. ASSUME NEW t \in Turns, Begin(t) PROVE Ownership'
  <2>1. sess[t] \in Sessions
    BY <1>3 DEF Begin, Load, LoadReset, LoadFails, Go, Ownership, Owner
  <2>2. CASE Load(t) \/ LoadReset(t)
    BY <2>1, <2>2, LoadStep
  <2>3. CASE LoadFails(t)
    BY <2>3, FrameOne DEF LoadFails, Go, sessionVars, unsaved, Labels, Locked, Loaded
  <2> QED BY <1>3, <2>2, <2>3 DEF Begin
<1>4. ASSUME NEW t \in Turns, HandlerStep(t) PROVE Ownership'
  BY <1>4, HandlerKeeps
<1>5. ASSUME NEW t \in Turns, RawStep(t) \/ WrapStep(t) PROVE Ownership'
  BY <1>5, PipeKeeps
<1>6. ASSUME NEW t \in Turns, Disconnect(t) PROVE Ownership'
  BY <1>6, FrameNone DEF Disconnect, sessionVars, unsaved
<1>7. ASSUME NEW s \in Sessions, Expire(s) PROVE Ownership'
  BY <1>7, FrameNone DEF Expire, unsaved
<1>8. CASE Restart
  BY <1>8, RestartStep
<1> QED BY <1>1, <1>2, <1>3, <1>4, <1>5, <1>6, <1>7, <1>8 DEF Next

(* Every turn between its load and its save holds its session's mutex, and *)
(* what it will save is one turn more than what the file holds now.        *)
THEOREM Owning == Spec => []Ownership
<1>1. Ownership /\ [Next]_vars => Ownership'
  BY OwnershipStep
<1> QED BY <1>1, OwnershipInit, PTL DEF Spec

(* The file of a session is written by the owner's save and by a reset.    *)
LEMMA OnlyTheOwnerSaves ==
  ASSUME Ownership, [Next]_vars, NEW s \in Sessions, file'[s] # file[s]
  PROVE  file'[s] = NoFile \/ \E t \in Turns : TurnSaved(s, t)
<1>1. ASSUME NEW t \in Turns, LoadReset(t) PROVE file'[s] = NoFile
  BY <1>1 DEF LoadReset, Ownership, Shape
<1>2. ASSUME NEW t \in Turns, Rename(t) PROVE TurnSaved(s, t)
  <2>1. /\ pc[t] = "rename" /\ file' = [file EXCEPT ![sess[t]] = tmp[sess[t]]]
    BY <1>2 DEF Rename, Renamed, Go
  <2>2. Owner(t) /\ sess[t] \in Sessions /\ tmp[sess[t]] = Add(Base(t), t)
    BY <2>1 DEF Ownership, Owner
  <2>3. s = sess[t] /\ file'[s] = Add(Base(t), t)
    BY <2>1, <2>2 DEF Ownership, Shape
  <2> QED BY <2>1, <2>2, <2>3 DEF TurnSaved, Owner, Base, Locked
<1>3. (\E t \in Turns : LoadReset(t) \/ Rename(t)) \/ file' = file
  <2> USE DEF sessionVars
  <2>1. ASSUME NEW t \in Turns, Arrive(t) \/ Load(t) \/ LoadFails(t) \/ Disconnect(t) PROVE file' = file
    BY <2>1 DEF Arrive, Load, LoadFails, Disconnect
  <2>2. ASSUME NEW t \in Turns, HandlerStep(t), ~Rename(t) PROVE file' = file
    <3>1. CASE EnsureReady(t) \/ EarlyReturn(t) \/ Ask(t) \/ Answer(t) \/ CallFails(t) \/ SpeakAll(t)
      BY <3>1 DEF EnsureReady, EarlyReturn, Ask, Answer, CallFails, SpeakAll
    <3>2. CASE StartStream(t) \/ TakeChunk(t) \/ Speak(t) \/ StopStream(t) \/ RangeEnds(t)
      BY <3>2 DEF StartStream, TakeChunk, Speak, StopStream, RangeEnds
    <3>3. CASE TakeResult(t) \/ Finish(t) \/ CommitNothing(t) \/ WriteTmp(t) \/ SaveFails(t) \/ Abort(t)
      BY <3>3 DEF TakeResult, Finish, CommitNothing, WriteTmp, SaveFails, Abort
    <3> QED BY <2>2, <3>1, <3>2, <3>3 DEF HandlerStep
  <2>3. ASSUME NEW t \in Turns, RawStep(t) \/ WrapStep(t) PROVE file' = file
    <3>1. UNCHANGED pipeOnly
      BY <2>3, PipeFrame
    <3> QED BY <3>1 DEF pipeOnly
  <2>4. ASSUME NEW r \in Sessions, Expire(r) PROVE file' = file
    BY <2>4 DEF Expire
  <2>5. CASE Restart
    BY <2>5 DEF Restart
  <2>6. CASE UNCHANGED vars
    BY <2>6 DEF vars
  <2> QED BY <2>1, <2>2, <2>3, <2>4, <2>5, <2>6 DEF Next, Begin
<1> QED BY <1>1, <1>2, <1>3

(* No turn of a session overwrites another's: a save adds one whole turn   *)
(* to what the file holds at that moment.                                  *)
THEOREM TurnsAreNotLost == Spec => SavesAppend
<1>1. Ownership /\ [Next]_vars => [\A s \in Sessions : file'[s] # file[s] =>
          \/ file'[s] = NoFile
          \/ \E t \in Turns : TurnSaved(s, t)]_vars
  BY OnlyTheOwnerSaves
<1> QED BY <1>1, Owning, PTL DEF Spec, SavesAppend

-----------------------------------------------------------------------------
(***************************************************************************)
(* The window of remembered messages.                                      *)
(***************************************************************************)
(* Every question is followed by its answer, the last message is none.     *)
Paired(m) == \A i \in 1..Len(m) :
                m[i][1] = "user" => i < Len(m) /\ m[i + 1] = <<"assistant", m[i][2]>>

(* WindowIsRight of one state of a session.                                *)
Good(f) ==
    /\ Len(f.recent) = Shorter(Recent, 2 * f.turns)
    /\ Len(f.summary) = Shorter(Memory, 2 * f.turns - Len(f.recent))
    /\ Paired(f.summary \o f.recent)

(* Of every copy of a session: in memory, in the file, in the temporary.   *)
Windows ==
    /\ \A t \in Turns : Good(local[t])
    /\ \A s \in Sessions : (file[s] # NoFile => Good(file[s])) /\ (tmp[s] # NoFile => Good(tmp[s]))

LEMMA Numbers == Cap \in Nat \ {0} /\ MaxDeltas \in Nat /\ Recent \in Nat /\ Memory \in Nat
  BY VoiceAssumption DEF VoiceAssumption

LEMMA LastIsSuffix ==
  ASSUME NEW q \in Seq(Messages), NEW n \in Nat
  PROVE  /\ Last(q, n) \in Seq(Messages)
         /\ Len(Last(q, n)) = Shorter(n, Len(q)) /\ Len(q) \in Nat
         /\ \A i \in 1..Len(Last(q, n)) : Last(q, n)[i] = q[Len(q) - Len(Last(q, n)) + i]
<1> DEFINE k == IF Len(q) > n THEN Len(q) - n ELSE 0
<1>1. Len(q) \in Nat /\ \A i \in 1..Len(q) : q[i] \in Messages
  BY LenProperties
<1>2. k \in Nat /\ k <= Len(q) /\ Len(q) - k = Shorter(n, Len(q))
  BY <1>1 DEF Shorter
<1>3. Last(q, n) = SubSeq(q, k + 1, Len(q))
  BY DEF Last
<1> HIDE DEF k
<1>4. /\ SubSeq(q, k + 1, Len(q)) \in Seq(Messages)
      /\ Len(SubSeq(q, k + 1, Len(q))) = Len(q) - k
      /\ \A i \in 1..Len(q) - k : SubSeq(q, k + 1, Len(q))[i] = q[k + i]
  <2>1. k + 1 \in Int /\ Len(q) \in Int /\ \A i \in (k + 1)..Len(q) : q[i] \in Messages
    BY <1>1, <1>2
  <2>2. /\ SubSeq(q, k + 1, Len(q)) \in Seq(Messages)
        /\ Len(SubSeq(q, k + 1, Len(q))) = IF k + 1 <= Len(q) THEN Len(q) - (k + 1) + 1 ELSE 0
        /\ \A i \in 1..Len(q) - (k + 1) + 1 : SubSeq(q, k + 1, Len(q))[i] = q[(k + 1) + i - 1]
    BY <2>1, SubSeqProperties
  <2> QED BY <1>1, <1>2, <2>2
<1> DEFINE u == SubSeq(q, k + 1, Len(q))
<1> HIDE DEF u
<1>5. /\ u \in Seq(Messages) /\ Len(u) = Shorter(n, Len(q)) /\ Len(q) - Len(u) = k
      /\ \A i \in 1..Len(u) : u[i] = q[k + i]
  BY <1>1, <1>2, <1>4 DEF u
<1>6. Last(q, n) = u
  BY <1>3 DEF u
<1> QED BY <1>1, <1>5, <1>6

LEMMA PairedSuffix ==
  ASSUME NEW w \in Seq(Messages), Paired(w), NEW m \in Seq(Messages), NEW d \in Nat,
         Len(w) = d + Len(m), \A i \in 1..Len(m) : m[i] = w[d + i]
  PROVE  Paired(m)
<1>1. Len(m) \in Nat
  BY LenProperties
<1> SUFFICES ASSUME NEW i \in 1..Len(m), m[i][1] = "user"
             PROVE  i < Len(m) /\ m[i + 1] = <<"assistant", m[i][2]>>
  BY DEF Paired
<1>2. d + i \in 1..Len(w) /\ w[d + i] = m[i]
  BY <1>1
<1>3. d + i < Len(w) /\ w[d + i + 1] = <<"assistant", m[i][2]>>
  BY <1>2 DEF Paired
<1>4. i < Len(m) /\ i + 1 \in 1..Len(m) /\ d + (i + 1) = d + i + 1
  BY <1>1, <1>3
<1> QED BY <1>3, <1>4

Exchange(t) == <<<<"user", t>>, <<"assistant", t>>>>

LEMMA PairedExchange ==
  ASSUME NEW m \in Seq(Messages), Paired(m), NEW t \in Turns
  PROVE  /\ Exchange(t) \in Seq(Messages) /\ Len(Exchange(t)) = 2
         /\ m \o Exchange(t) \in Seq(Messages) /\ Len(m \o Exchange(t)) = Len(m) + 2
         /\ Paired(m \o Exchange(t))
<1> DEFINE w == m \o Exchange(t)
<1>1. /\ Exchange(t) \in Seq(Messages) /\ Len(Exchange(t)) = 2
      /\ Exchange(t)[1] = <<"user", t>> /\ Exchange(t)[2] = <<"assistant", t>>
  BY DEF Exchange, Messages
<1>2. /\ w \in Seq(Messages) /\ Len(w) = Len(m) + 2 /\ Len(m) \in Nat
      /\ \A i \in 1..Len(m) + 2 : w[i] = IF i <= Len(m) THEN m[i] ELSE Exchange(t)[i - Len(m)]
  <2>1. /\ w \in Seq(Messages) /\ Len(w) = Len(m) + Len(Exchange(t))
        /\ \A i \in 1..Len(m) + Len(Exchange(t)) :
              w[i] = IF i <= Len(m) THEN m[i] ELSE Exchange(t)[i - Len(m)]
    BY <1>1, ConcatProperties
  <2>2. Len(m) \in Nat
    BY LenProperties
  <2> QED BY <1>1, <2>1, <2>2
<1>3. ASSUME NEW i \in 1..Len(w), w[i][1] = "user"
      PROVE  i < Len(w) /\ w[i + 1] = <<"assistant", w[i][2]>>
  <2>1. CASE i \in 1..Len(m)
    <3>1. w[i] = m[i]
      BY <1>2, <2>1
    <3>2. i < Len(m) /\ m[i + 1] = <<"assistant", m[i][2]>>
      BY <1>3, <2>1, <3>1 DEF Paired
    <3>3. i + 1 \in 1..Len(m) + 2 /\ i + 1 <= Len(m) /\ i < Len(w)
      BY <1>2, <2>1, <3>2
    <3> HIDE DEF w
    <3>4. w[i + 1] = m[i + 1]
      BY <1>2, <3>3
    <3> QED BY <3>1, <3>2, <3>3, <3>4
  <2>2. CASE i = Len(m) + 1
    <3>1. w[i] = <<"user", t>> /\ w[i + 1] = <<"assistant", t>> /\ i < Len(w)
      BY <1>1, <1>2, <2>2
    <3> QED BY <3>1
  <2>3. CASE i = Len(m) + 2
    <3>1. w[i] = <<"assistant", t>>
      BY <1>1, <1>2, <2>3
    <3> QED BY <1>3, <3>1
  <2> QED BY <1>2, <2>1, <2>2, <2>3
<1> QED BY <1>1, <1>2, <1>3 DEF Paired

LEMMA Joined ==
  ASSUME NEW p \in Seq(Messages), NEW q \in Seq(Messages), NEW w, w = p \o q
  PROVE  /\ w \in Seq(Messages) /\ Len(w) = Len(p) + Len(q)
         /\ \A i \in 1..Len(p) + Len(q) : w[i] = IF i <= Len(p) THEN p[i] ELSE q[i - Len(p)]
         /\ Len(p) \in Nat /\ Len(q) \in Nat
<1>1. /\ w \in Seq(Messages) /\ Len(w) = Len(p) + Len(q)
      /\ \A i \in 1..Len(p) + Len(q) : w[i] = IF i <= Len(p) THEN p[i] ELSE q[i - Len(p)]
  BY ConcatProperties
<1>2. Len(p) \in Nat /\ Len(q) \in Nat
  BY LenProperties
<1> QED BY <1>1, <1>2

(* Both halves of a sequence.                                              *)
LEMMA Halves ==
  ASSUME NEW r \in Seq(Messages), NEW k \in Nat, k <= Len(r)
  PROVE  LET old == SubSeq(r, 1, k)
             new == SubSeq(r, k + 1, Len(r))
         IN  /\ old \in Seq(Messages) /\ Len(old) = k /\ \A i \in 1..k : old[i] = r[i]
             /\ new \in Seq(Messages) /\ Len(new) = Len(r) - k
             /\ \A i \in 1..Len(r) - k : new[i] = r[k + i]
<1> DEFINE old == SubSeq(r, 1, k)
           new == SubSeq(r, k + 1, Len(r))
<1>1. \A i \in 1..Len(r) : r[i] \in Messages
  BY LenProperties
<1>2. Len(r) \in Nat
  BY LenProperties
<1>3. /\ old \in Seq(Messages) /\ Len(old) = IF 1 <= k THEN k - 1 + 1 ELSE 0
      /\ \A i \in 1..k - 1 + 1 : old[i] = r[1 + i - 1]
  <2>1. 1 \in Int /\ k \in Int /\ \A i \in 1..k : r[i] \in Messages
    BY <1>1, <1>2
  <2> QED BY <2>1, SubSeqProperties
<1>4. /\ new \in Seq(Messages)
      /\ Len(new) = IF k + 1 <= Len(r) THEN Len(r) - (k + 1) + 1 ELSE 0
      /\ \A i \in 1..Len(r) - (k + 1) + 1 : new[i] = r[(k + 1) + i - 1]
  <2>1. k + 1 \in Int /\ Len(r) \in Int /\ \A i \in (k + 1)..Len(r) : r[i] \in Messages
    BY <1>1, <1>2
  <2> QED BY <2>1, SubSeqProperties
<1> HIDE DEF old, new
<1>5. Len(old) = k /\ Len(new) = Len(r) - k
  BY <1>2, <1>3, <1>4
<1>6. \A i \in 1..k : old[i] = r[i]
  BY <1>3
<1>7. \A i \in 1..Len(r) - k : new[i] = r[k + i]
  BY <1>2, <1>4
<1> QED BY <1>3, <1>4, <1>5, <1>6, <1>7 DEF old, new

(* A summary of a and the first k messages of r, then the rest of r, is a  *)
(* suffix of a followed by r.                                              *)
LEMMA WindowIsSuffix ==
  ASSUME NEW a \in Seq(Messages), NEW r \in Seq(Messages), NEW k \in Nat, k <= Len(r),
         NEW n \in Nat
  PROVE  LET s   == Last(a \o SubSeq(r, 1, k), n)
             new == SubSeq(r, k + 1, Len(r))
         IN  /\ s \in Seq(Messages) /\ Len(s) = Shorter(n, Len(a) + k)
             /\ new \in Seq(Messages) /\ Len(new) = Len(r) - k
             /\ Paired(a \o r) => Paired(s \o new)
<1> DEFINE old == SubSeq(r, 1, k)
           new == SubSeq(r, k + 1, Len(r))
           u == a \o old
           s == Last(u, n)
           w == a \o r
           m == s \o new
           A == Len(a)
           B == Len(s)
           C == Len(r)
           d == A + k - B
<1>1. /\ old \in Seq(Messages) /\ Len(old) = k /\ \A i \in 1..k : old[i] = r[i]
      /\ new \in Seq(Messages) /\ Len(new) = Len(r) - k
      /\ \A i \in 1..Len(r) - k : new[i] = r[k + i]
  BY Halves
<1> HIDE DEF old, new
<1>2. /\ u \in Seq(Messages) /\ Len(u) = Len(a) + Len(old)
      /\ \A i \in 1..Len(a) + Len(old) : u[i] = IF i <= Len(a) THEN a[i] ELSE old[i - Len(a)]
      /\ Len(a) \in Nat
  <2>1. old \in Seq(Messages)
    BY <1>1
  <2> QED BY <2>1, Joined
<1> HIDE DEF u
<1>3. /\ s \in Seq(Messages) /\ Len(s) = Shorter(n, Len(u))
      /\ \A i \in 1..Len(s) : s[i] = u[Len(u) - Len(s) + i]
  BY <1>2, LastIsSuffix
<1> HIDE DEF s
<1>4. /\ m \in Seq(Messages) /\ Len(m) = Len(s) + Len(new)
      /\ \A i \in 1..Len(s) + Len(new) : m[i] = IF i <= Len(s) THEN s[i] ELSE new[i - Len(s)]
      /\ Len(s) \in Nat
  <2>1. new \in Seq(Messages) /\ s \in Seq(Messages)
    BY <1>1, <1>3
  <2> QED BY <2>1, Joined
<1> HIDE DEF m
<1>5. /\ w \in Seq(Messages) /\ Len(w) = Len(a) + Len(r)
      /\ \A i \in 1..Len(a) + Len(r) : w[i] = IF i <= Len(a) THEN a[i] ELSE r[i - Len(a)]
      /\ Len(r) \in Nat
  BY Joined
<1> HIDE DEF w
<1>6. /\ A \in Nat /\ B \in Nat /\ C \in Nat /\ k <= C /\ B = Shorter(n, A + k)
      /\ \A i \in 1..k : old[i] = r[i]
      /\ \A i \in 1..C - k : new[i] = r[k + i]
      /\ \A i \in 1..A + k : u[i] = IF i <= A THEN a[i] ELSE old[i - A]
      /\ \A i \in 1..B : s[i] = u[d + i]
      /\ \A i \in 1..A + C : w[i] = IF i <= A THEN a[i] ELSE r[i - A]
      /\ Len(m) = B + (C - k) /\ Len(w) = A + C
      /\ \A i \in 1..B + (C - k) : m[i] = IF i <= B THEN s[i] ELSE new[i - B]
  <2>1. A \in Nat /\ B \in Nat /\ C \in Nat /\ k <= C /\ B = Shorter(n, A + k)
    BY <1>1, <1>2, <1>3, <1>4, <1>5
  <2>2. /\ \A i \in 1..k : old[i] = r[i]
        /\ \A i \in 1..C - k : new[i] = r[k + i]
    BY <1>1
  <2>3. Len(old) = k /\ Len(u) = A + k /\ Len(new) = C - k
    BY <1>1, <1>2
  <2>4. \A i \in 1..A + k : u[i] = IF i <= A THEN a[i] ELSE old[i - A]
    BY <1>2, <2>3
  <2>5. \A i \in 1..B : s[i] = u[d + i]
    <3>1. TAKE i \in 1..B
    <3>2. s[i] = u[Len(u) - Len(s) + i]
      BY <1>3
    <3>3. Len(u) - Len(s) + i = d + i
      BY <2>3
    <3> QED BY <3>2, <3>3
  <2>6. Len(m) = B + (C - k) /\ Len(w) = A + C
    BY <1>4, <1>5, <2>3
  <2>7. \A i \in 1..B + (C - k) : m[i] = IF i <= B THEN s[i] ELSE new[i - B]
    BY <1>4, <2>3
  <2> QED BY <1>5, <2>1, <2>2, <2>4, <2>5, <2>6, <2>7
<1> HIDE DEF A, B, C
<1>7. B <= A + k
  BY <1>6 DEF Shorter
<1>8. d \in Nat /\ d + B = A + k
  BY <1>6, <1>7
<1>9. \A i \in 1..B : s[i] = u[d + i]
  BY <1>6
<1> HIDE DEF d
<1>10. ASSUME NEW i \in 1..B + (C - k) PROVE m[i] = w[d + i]
  <2>0. /\ i \in Nat /\ A \in Nat /\ B \in Nat /\ C \in Nat /\ k <= C
        /\ 1 <= i /\ i <= B + (C - k)
    BY <1>6
  <2>1. CASE i <= B
    <3>1. i \in 1..B /\ d + i \in 1..A + k /\ d + i \in 1..A + C
      BY <1>8, <2>0, <2>1
    <3>2. m[i] = u[d + i]
      BY <1>6, <1>9, <2>1, <3>1
    <3>3. CASE d + i <= A
      BY <1>6, <3>1, <3>2, <3>3
    <3>4. CASE ~(d + i <= A)
      <4>1. d + i - A \in 1..k
        BY <1>8, <2>0, <3>1, <3>4
      <4>2. old[d + i - A] = r[d + i - A]
        BY <1>6, <4>1
      <4>3. u[d + i] = old[d + i - A]
        <5>1. \A j \in 1..A + k : u[j] = IF j <= A THEN a[j] ELSE old[j - A]
          BY <1>6
        <5> QED BY <1>8, <2>0, <3>1, <3>4, <5>1
      <4>4. w[d + i] = r[d + i - A]
        <5>1. \A j \in 1..A + C : w[j] = IF j <= A THEN a[j] ELSE r[j - A]
          BY <1>6
        <5> QED BY <1>8, <2>0, <3>1, <3>4, <5>1
      <4> QED BY <3>2, <4>2, <4>3, <4>4
    <3> QED BY <3>3, <3>4
  <2>2. CASE ~(i <= B)
    <3>1. i - B \in 1..C - k
      BY <2>0, <2>2
    <3>2. d + i \in 1..A + C /\ ~(d + i <= A) /\ d + i - A = k + (i - B)
      BY <1>8, <2>0, <2>2
    <3>3. m[i] = new[i - B] /\ new[i - B] = r[k + (i - B)]
      BY <1>6, <2>2, <3>1
    <3>4. w[d + i] = r[d + i - A]
      <4>1. \A j \in 1..A + C : w[j] = IF j <= A THEN a[j] ELSE r[j - A]
        BY <1>6
      <4> QED BY <1>8, <2>0, <3>2, <4>1
    <3> QED BY <3>2, <3>3, <3>4
  <2> QED BY <2>1, <2>2
<1>11. Paired(w) => Paired(m)
  <2>1. Len(w) = d + Len(m) /\ \A i \in 1..Len(m) : m[i] = w[d + i]
    <3>1. A + C = d + (B + (C - k))
      <4>1. A \in Nat /\ B \in Nat /\ C \in Nat /\ k <= C
        BY <1>6
      <4> QED BY <1>8, <4>1
    <3>2. Len(m) = B + (C - k) /\ Len(w) = A + C
      BY <1>6
    <3> QED BY <1>10, <3>1, <3>2
  <2> QED BY <1>4, <1>5, <1>8, <2>1, PairedSuffix
<1>12. Len(s) = Shorter(n, Len(a) + k)
  BY <1>1, <1>2, <1>3
<1> QED BY <1>1, <1>3, <1>11, <1>12 DEF old, new, u, s, w, m

(* compactVoiceSession is sound: what is kept of a session that was in     *)
(* order, with one more turn, is the newest part of it.                    *)
LEMMA AddIsGood ==
  ASSUME NEW f \in States, Good(f), NEW t \in Turns
  PROVE  Add(f, t) \in States /\ Good(Add(f, t))
<1> DEFINE a == f.summary
           b == f.recent
           x == f.turns
           r == b \o Exchange(t)
           k == IF Len(r) > Recent THEN Len(r) - Recent ELSE 0
           new == SubSeq(r, k + 1, Len(r))
           s == Last(a \o SubSeq(r, 1, k), Memory)
           h == [f EXCEPT !.recent = r, !.turns = x + 1]
<1>1. Add(f, t) = [h EXCEPT !.recent = new, !.summary = s]
  <2>1. Add(f, t) = Compact(h)
    BY DEF Add, Exchange
  <2>2. h.recent = r /\ h.summary = a
    BY DEF States
  <2> HIDE DEF h
  <2> QED BY <2>1, <2>2 DEF Compact
<1>2. /\ a \in Seq(Messages) /\ b \in Seq(Messages) /\ x \in Nat
      /\ Len(b) = Shorter(Recent, 2 * x) /\ Len(a) = Shorter(Memory, 2 * x - Len(b))
      /\ Paired(a \o b)
  BY DEF States, Good
<1>3. r \in Seq(Messages) => h \in States /\ h.turns = x + 1
  <2> DEFINE g == [f EXCEPT !.recent = r]
  <2>1. r \in Seq(Messages) => g \in States /\ g.turns = x
    BY DEF States
  <2>2. h = [g EXCEPT !.turns = x + 1] /\ x + 1 \in Nat
    BY <1>2
  <2> HIDE DEF g, h
  <2> QED BY <2>1, <2>2 DEF States
<1>4. ASSUME s \in Seq(Messages), new \in Seq(Messages), r \in Seq(Messages)
      PROVE  /\ Add(f, t) \in States /\ Add(f, t).recent = new /\ Add(f, t).summary = s
             /\ Add(f, t).turns = x + 1
  <2> HIDE DEF h, new, s
  <2> QED BY <1>1, <1>3, <1>4 DEF States
<1> HIDE DEF h, a, b, x
<1>5. Exchange(t) \in Seq(Messages) /\ Len(Exchange(t)) = 2
  BY DEF Exchange, Messages
<1>6. r \in Seq(Messages) /\ Len(r) = Len(b) + 2
  <2>1. r \in Seq(Messages) /\ Len(r) = Len(b) + Len(Exchange(t))
    BY <1>2, <1>5, ConcatProperties
  <2> QED BY <1>5, <2>1
<1>7. Paired(a \o r)
  <2>1. a \o b \in Seq(Messages)
    BY <1>2, ConcatProperties
  <2>2. Paired((a \o b) \o Exchange(t))
    BY <1>2, <2>1, PairedExchange
  <2>3. (a \o b) \o Exchange(t) = a \o r
    <3>1. a \in Seq(Messages) /\ b \in Seq(Messages) /\ Exchange(t) \in Seq(Messages)
      BY <1>2, <1>5
    <3> DEFINE z == Exchange(t)
    <3> HIDE DEF z
    <3>2. z \in Seq(Messages)
      BY <3>1 DEF z
    <3>3. (a \o b) \o z = a \o (b \o z)
      BY <3>1, <3>2, ConcatAssociative
    <3> QED BY <3>3 DEF z
  <2> QED BY <2>2, <2>3
<1>8. Len(a) \in Nat /\ Len(b) \in Nat /\ Recent \in Nat /\ Memory \in Nat
  BY <1>2, Numbers, LenProperties
<1> HIDE DEF r
<1>9. k \in Nat /\ k = IF Len(b) + 2 > Recent THEN Len(b) + 2 - Recent ELSE 0
  BY <1>6, <1>8
<1> HIDE DEF k
<1>10. /\ k <= Len(b) + 2
       /\ (Len(b) + 2) - k = Shorter(Recent, 2 * (x + 1))
       /\ Shorter(Memory, Len(a) + k) = Shorter(Memory, 2 * (x + 1) - ((Len(b) + 2) - k))
  <2> DEFINE la == Len(a)
             lb == Len(b)
             y == 2 * x
  <2>1. y \in Nat /\ la \in Nat /\ lb \in Nat /\ 2 * (x + 1) = y + 2
    BY <1>2, <1>8
  <2>2. /\ lb = Shorter(Recent, y) /\ la = Shorter(Memory, y - lb)
        /\ k = IF lb + 2 > Recent THEN lb + 2 - Recent ELSE 0
    BY <1>2, <1>9
  <2> HIDE DEF la, lb, y
  <2>3. /\ k <= lb + 2
        /\ (lb + 2) - k = Shorter(Recent, y + 2)
        /\ Shorter(Memory, la + k) = Shorter(Memory, (y + 2) - ((lb + 2) - k))
    <3>1. k \in Nat /\ Recent \in Nat /\ Memory \in Nat
      BY <1>8, <1>9
    <3>2. y \in Nat /\ la \in Nat /\ lb \in Nat
      BY <2>1
    <3> QED BY <2>2, <3>1, <3>2 DEF Shorter
  <2> QED BY <2>1, <2>3 DEF la, lb
<1>11. /\ s \in Seq(Messages) /\ Len(s) = Shorter(Memory, Len(a) + k)
       /\ new \in Seq(Messages) /\ Len(new) = Len(r) - k
       /\ Paired(s \o new)
  <2>1. a \in Seq(Messages) /\ r \in Seq(Messages) /\ k \in Nat /\ k <= Len(r) /\ Memory \in Nat
    BY <1>2, <1>6, <1>8, <1>9, <1>10
  <2> QED BY <1>7, <2>1, WindowIsSuffix
<1> HIDE DEF s, new
<1> QED BY <1>4, <1>6, <1>10, <1>11 DEF Good

-----------------------------------------------------------------------------
(***************************************************************************)
(* The sessions in memory, in the files and in the temporary files.        *)
(***************************************************************************)
Stored ==
    /\ sess \in [Turns -> Sessions \cup {NoSession}]
    /\ local \in [Turns -> States]
    /\ fresh \in [Turns -> BOOLEAN] /\ ctxDone \in [Turns -> BOOLEAN]
    /\ lock \in [Sessions -> Turns \cup {Free}]
    /\ file \in [Sessions -> States \cup {NoFile}]
    /\ tmp \in [Sessions -> States \cup {NoFile}]
    /\ stale \in [Sessions -> BOOLEAN]

Remembered == Stored /\ Windows

LEMMA NewIsGood == NewSession \in States /\ Good(NewSession)
<1>1. NewSession \in States /\ Len(<<>>) = 0
  BY DEF NewSession, States
<1>2. Paired(<<>> \o <<>>)
  BY DEF Paired
<1>3. Shorter(Recent, 2 * 0) = 0 /\ Shorter(Memory, 2 * 0 - 0) = 0
  BY Numbers DEF Shorter
<1> QED BY <1>1, <1>2, <1>3 DEF Good, NewSession

LEMMA RememberedInit == Init => Remembered
<1> SUFFICES ASSUME Init PROVE Remembered
  OBVIOUS
<1>1. Stored
  BY NewIsGood DEF Init, Stored
<1>2. Windows
  BY NewIsGood DEF Init, Windows
<1> QED BY <1>1, <1>2 DEF Remembered

LEMMA RememberedFrame ==
  ASSUME Remembered, UNCHANGED <<sess, local, fresh, file, tmp, stale>>,
         lock' \in [Sessions -> Turns \cup {Free}], ctxDone' \in [Turns -> BOOLEAN]
  PROVE  Remembered'
  BY DEF Remembered, Stored, Windows

LEMMA RememberedLoad ==
  ASSUME Ownership, Remembered, NEW t \in Turns, Load(t) \/ LoadReset(t)
  PROVE  Remembered'
<1>1. sess[t] \in Sessions
  BY DEF Load, LoadReset, Go, Ownership, Owner
<1>2. /\ sess' = sess /\ tmp' = tmp /\ ctxDone' = ctxDone
      /\ lock' = [lock EXCEPT ![sess[t]] = t]
  BY DEF Load, LoadReset
<1>3. /\ local' = [local EXCEPT ![t] = local'[t]] /\ local'[t] \in States /\ Good(local'[t])
      /\ fresh' = [fresh EXCEPT ![t] = fresh'[t]] /\ fresh'[t] \in BOOLEAN
  <2>1. CASE Load(t)
    <3> DEFINE new == file[sess[t]] = NoFile \/ stale[sess[t]]
    <3>1. /\ local' = [local EXCEPT ![t] = IF new THEN NewSession ELSE file[sess[t]]]
          /\ fresh' = [fresh EXCEPT ![t] = new]
      BY <2>1 DEF Load
    <3>2. local'[t] = (IF new THEN NewSession ELSE file[sess[t]]) /\ fresh'[t] = new
      BY <3>1 DEF Remembered, Stored
    <3>3. ~new => file[sess[t]] \in States /\ Good(file[sess[t]])
      BY <1>1 DEF Remembered, Stored, Windows
    <3>4. new \in BOOLEAN
      OBVIOUS
    <3> HIDE DEF new
    <3> QED BY <3>1, <3>2, <3>3, <3>4, NewIsGood
  <2>2. CASE LoadReset(t)
    BY <2>2, NewIsGood DEF LoadReset, Remembered, Stored
  <2> QED BY <2>1, <2>2
<1>4. file' = file \/ file' = [file EXCEPT ![sess[t]] = NoFile]
  BY DEF Load, LoadReset
<1>5. stale' = stale \/ stale' = [stale EXCEPT ![sess[t]] = FALSE]
  BY DEF Load, LoadReset
<1>6. Stored'
  BY <1>1, <1>2, <1>3, <1>4, <1>5 DEF Remembered, Stored
<1>7. Windows'
  <2>1. ASSUME NEW u \in Turns PROVE Good(local'[u])
    BY <1>3 DEF Remembered, Stored, Windows
  <2>2. ASSUME NEW s \in Sessions
        PROVE  (file'[s] # NoFile => Good(file'[s])) /\ (tmp'[s] # NoFile => Good(tmp'[s]))
    BY <1>2, <1>4 DEF Remembered, Stored, Windows
  <2> QED BY <2>1, <2>2 DEF Windows, Good, Paired, Shorter
<1> QED BY <1>6, <1>7 DEF Remembered

LEMMA RememberedSave ==
  ASSUME Ownership, Remembered, NEW t \in Turns, WriteTmp(t) \/ Rename(t)
  PROVE  Remembered'
<1>1. CASE WriteTmp(t)
  <2>1. /\ sess[t] \in Sessions
        /\ local' = [local EXCEPT ![t] = Add(local[t], t)]
        /\ tmp' = [tmp EXCEPT ![sess[t]] = local'[t]]
        /\ UNCHANGED <<sess, fresh, lock, file, stale, ctxDone>>
    BY <1>1 DEF WriteTmp
  <2>2. local[t] \in States /\ Good(local[t])
    BY DEF Remembered, Stored, Windows
  <2>3. Add(local[t], t) \in States /\ Good(Add(local[t], t))
    BY <2>2, AddIsGood
  <2>4. local'[t] = Add(local[t], t)
    BY <2>1 DEF Remembered, Stored
  <2>5. Stored'
    BY <2>1, <2>3, <2>4 DEF Remembered, Stored
  <2>6. ASSUME NEW u \in Turns PROVE Good(local'[u])
    BY <2>1, <2>3 DEF Remembered, Stored, Windows
  <2>7. ASSUME NEW s \in Sessions
        PROVE  (file'[s] # NoFile => Good(file'[s])) /\ (tmp'[s] # NoFile => Good(tmp'[s]))
    BY <2>1, <2>3, <2>4 DEF Remembered, Stored, Windows
  <2>8. Windows'
    BY <2>6, <2>7 DEF Windows, Good, Paired, Shorter
  <2> QED BY <2>5, <2>8 DEF Remembered
<1>2. CASE Rename(t)
  <2>1. /\ sess[t] \in Sessions
        /\ file' = [file EXCEPT ![sess[t]] = tmp[sess[t]]]
        /\ tmp' = [tmp EXCEPT ![sess[t]] = NoFile]
        /\ stale' = [stale EXCEPT ![sess[t]] = FALSE]
        /\ lock' = [lock EXCEPT ![sess[t]] = Free]
        /\ UNCHANGED <<sess, local, fresh, ctxDone>>
    BY <1>2 DEF Rename, Renamed, Go, Ownership, Owner
  <2>2. Stored'
    BY <2>1 DEF Remembered, Stored
  <2>3. ASSUME NEW u \in Turns PROVE Good(local'[u])
    BY <2>1 DEF Remembered, Stored, Windows
  <2>4. ASSUME NEW s \in Sessions
        PROVE  (file'[s] # NoFile => Good(file'[s])) /\ (tmp'[s] # NoFile => Good(tmp'[s]))
    BY <2>1 DEF Remembered, Stored, Windows
  <2>5. Windows'
    BY <2>3, <2>4 DEF Windows, Good, Paired, Shorter
  <2> QED BY <2>2, <2>5 DEF Remembered
<1> QED BY <1>1, <1>2

LEMMA RememberedStep == ASSUME Ownership, Remembered, [Next]_vars PROVE Remembered'
<1>0. Stored /\ Windows
  BY DEF Remembered
<1> USE DEF sessionVars
<1>1. ASSUME NEW t \in Turns, Arrive(t) PROVE Remembered'
  <2>1. UNCHANGED <<local, fresh, ctxDone, lock, file, tmp, stale>>
    BY <1>1 DEF Arrive
  <2>2. sess' \in [Turns -> Sessions \cup {NoSession}]
    BY <1>0, <1>1 DEF Arrive, Stored
  <2> QED BY <1>0, <2>1, <2>2 DEF Remembered, Stored, Windows
<1>2. ASSUME NEW t \in Turns, Begin(t) PROVE Remembered'
  <2>1. CASE LoadFails(t)
    BY <1>0, <2>1, RememberedFrame DEF LoadFails, Stored
  <2> QED BY <1>2, <2>1, RememberedLoad DEF Begin
<1>3. ASSUME NEW t \in Turns, HandlerStep(t) PROVE Remembered'
  <2>1. CASE EnsureReady(t) \/ EarlyReturn(t) \/ Ask(t) \/ Answer(t) \/ CallFails(t) \/ SpeakAll(t)
    BY <1>0, <2>1, RememberedFrame
       DEF EnsureReady, EarlyReturn, Ask, Answer, CallFails, SpeakAll, Stored
  <2>2. CASE StartStream(t) \/ TakeChunk(t) \/ Speak(t) \/ StopStream(t) \/ RangeEnds(t)
    BY <1>0, <2>2, RememberedFrame DEF StartStream, TakeChunk, Speak, StopStream, RangeEnds, Stored
  <2>3. CASE TakeResult(t)
    <3>1. ctxDone' \in [Turns -> BOOLEAN]
      BY <1>0, <2>3 DEF TakeResult, Stored
    <3> QED BY <1>0, <2>3, <3>1, RememberedFrame DEF TakeResult, Stored
  <2>4. CASE Finish(t) \/ CommitNothing(t) \/ SaveFails(t)
    BY <1>0, <2>4, RememberedFrame DEF Finish, CommitNothing, SaveFails, Stored
  <2>5. CASE Abort(t)
    <3>1. lock' \in [Sessions -> Turns \cup {Free}]
      BY <1>0, <2>5 DEF Abort, Stored
    <3> QED BY <1>0, <2>5, <3>1, RememberedFrame DEF Abort, Stored
  <2>6. CASE WriteTmp(t) \/ Rename(t)
    BY <2>6, RememberedSave
  <2> QED BY <1>3, <2>1, <2>2, <2>3, <2>4, <2>5, <2>6 DEF HandlerStep
<1>4. ASSUME NEW t \in Turns, RawStep(t) \/ WrapStep(t) PROVE Remembered'
  BY <1>0, <1>4, PipeFrame, RememberedFrame DEF pipeOnly, Stored
<1>5. ASSUME NEW t \in Turns, Disconnect(t) PROVE Remembered'
  BY <1>0, <1>5, RememberedFrame DEF Disconnect, Stored
<1>6. ASSUME NEW s \in Sessions, Expire(s) PROVE Remembered'
  BY <1>0, <1>6 DEF Expire, Remembered, Stored, Windows
<1>7. CASE Restart
  BY <1>0, <1>7, RememberedFrame DEF Restart, Stored
<1>8. CASE UNCHANGED vars
  BY <1>0, <1>8, RememberedFrame DEF vars, Stored
<1> QED BY <1>1, <1>2, <1>3, <1>4, <1>5, <1>6, <1>7, <1>8 DEF Next

(* Every copy of a session, in memory and on disk, is a window of whole    *)
(* exchanges.                                                              *)
THEOREM RememberedHolds == Spec => []Remembered
<1>1. Ownership /\ Remembered /\ [Next]_vars => Remembered'
  BY RememberedStep
<1> QED BY <1>1, RememberedInit, Owning, PTL DEF Spec

(* A session's file remembers the newest messages and no others, every     *)
(* question with its answer, for every size of the window and of the       *)
(* summary.                                                                *)
THEOREM TheWindowIsRight == Spec => []WindowIsRight
<1>1. Remembered => WindowIsRight
  <2> SUFFICES ASSUME Remembered, NEW s \in Sessions, file[s] # NoFile
               PROVE  LET f == file[s]
                          m == f.summary \o f.recent
                      IN  /\ Len(f.recent) = Shorter(Recent, 2 * f.turns)
                          /\ Len(f.summary) = Shorter(Memory, 2 * f.turns - Len(f.recent))
                          /\ \A i \in 1..(Len(m) - 1) :
                                m[i][1] = "user" => m[i + 1] = <<"assistant", m[i][2]>>
    BY DEF WindowIsRight
  <2> DEFINE m == file[s].summary \o file[s].recent
  <2>1. /\ Good(file[s]) /\ Paired(m) /\ file[s].summary \in Seq(Messages)
        /\ file[s].recent \in Seq(Messages)
    BY DEF Remembered, Stored, Windows, Good, States
  <2>2. m \in Seq(Messages)
    BY <2>1, ConcatProperties
  <2>3. Len(m) \in Nat
    BY <2>2, LenProperties
  <2> HIDE DEF m
  <2>4. \A i \in 1..(Len(m) - 1) : m[i][1] = "user" => m[i + 1] = <<"assistant", m[i][2]>>
    BY <2>1, <2>3 DEF Paired
  <2> QED BY <2>1, <2>4 DEF Good, m
<1> QED BY <1>1, RememberedHolds, PTL

-----------------------------------------------------------------------------
(***************************************************************************)
(* Streamed turns.  That the client hears the chunks in order cannot be    *)
(* seen in the chunks it was sent: it follows from what is still on its    *)
(* way.  Flow says of one stream that the chunks sent, those in the outer  *)
(* channel, the one the wrapper carries and those in the inner channel     *)
(* follow one another and end where the raw goroutine has cut, and that a  *)
(* result that is no error stands for the whole reply; Stage ties that to  *)
(* where the handler is.                                                   *)
(***************************************************************************)

(***************************************************************************)
(* What the stream of a turn carries.                                      *)
(***************************************************************************)
(* The chunks of q follow one another from delta d on; where they end.     *)
Chain(q, d) == \A i \in 1..Len(q) : q[i][1] = IF i = 1 THEN d ELSE q[i - 1][2]
End(q, d)   == IF q = <<>> THEN d ELSE q[Len(q)][2]

(* Everything cut so far is in one of four places, in order, while the     *)
(* wrapper has not given up; a result that is no error is the whole reply. *)
Flow(q, p) ==
    /\ Chain(p.outer, End(q, 0))
    /\ p.wrap \in {"range", "send"} =>
          LET e == End(p.outer, End(q, 0))
          IN  /\ p.out = "none"
              /\ p.wrap = "range" <=> p.carry = <<>>
              /\ Chain(p.carry, e) /\ Chain(p.inner, End(p.carry, e))
              /\ End(p.inner, End(p.carry, e)) = p.cut
    /\ p.raw = "sendTail" => p.hold = p.read
    /\ p.raw = "reply" => p.cut = p.read
    /\ p.res # "none" => p.raw = "closed"
    /\ p.res = "ok" => p.cut = p.read /\ p.read > 0
    /\ p.out = "ok" => p.raw = "closed" /\ p.wrap = "closed" /\ p.read > 0
                       /\ End(p.outer, End(q, 0)) = p.read

(* A turn whose stream has not been started.                               *)
NewPipe ==
    [raw |-> "off", read |-> 0, cut |-> 0, hold |-> 0, inner |-> <<>>, res |-> "none",
     complete |-> FALSE, wrap |-> "off", carry |-> <<>>, outer |-> <<>>, out |-> "none"]

Streaming == {"range", "speak", "result"}
Saving    == {"commit", "rename", "finish"}

(* What the place of a turn's handler says of its stream.                  *)
Stage(t) ==
    /\ Chain(sent[t], 0)
    /\ IF t \in Streamed THEN pc[t] \notin {"ask", "call", "speakAll"}
       ELSE pc[t] \notin Streaming \cup {"transcript", "finish"} /\ pipe[t] = NewPipe
    /\ pc[t] \in {"idle", "lock", "ready", "transcript"} => pipe[t] = NewPipe /\ sent[t] = <<>>
    /\ pipe[t].raw = "off" => pipe[t] = NewPipe
    /\ pipe[t].raw # "off" => pipe[t].wrap # "off"
    /\ pc[t] \in Streaming => pipe[t].raw # "off" /\ Flow(sent[t], pipe[t])
    /\ pc[t] = "result" => pipe[t].wrap = "closed" /\ pipe[t].outer = <<>>
    /\ t \in Streamed /\ pc[t] \in Saving =>
          /\ pipe[t].raw = "closed" /\ pipe[t].wrap = "closed"
          /\ pipe[t].read > 0 /\ End(sent[t], 0) = pipe[t].read

Streams == \A t \in Turns : Stage(t)
-----------------------------------------------------------------------------
LEMMA ChainOfNone == \A d : Chain(<<>>, d) /\ End(<<>>, d) = d
  BY DEF Chain, End

LEMMA ChainOfOne ==
  ASSUME NEW c, NEW d
  PROVE  /\ Chain(<<c>>, d) <=> c[1] = d
         /\ End(<<c>>, d) = c[2]
  BY DEF Chain, End

LEMMA ChainAppend ==
  ASSUME NEW S, NEW q \in Seq(S), NEW c \in S, NEW d, Chain(q, d), c[1] = End(q, d)
  PROVE  Chain(Append(q, c), d) /\ End(Append(q, c), d) = c[2]
<1>1. /\ Append(q, c) # <<>> /\ Len(q) \in Nat /\ Len(Append(q, c)) = Len(q) + 1
      /\ \A i \in 1..Len(q) : Append(q, c)[i] = q[i]
      /\ Append(q, c)[Len(q) + 1] = c
  BY AppendProperties, LenProperties
<1>2. End(Append(q, c), d) = c[2]
  BY <1>1 DEF End
<1>3. ASSUME NEW i \in 1..Len(q) + 1
      PROVE  Append(q, c)[i][1] = IF i = 1 THEN d ELSE Append(q, c)[i - 1][2]
  <2>1. CASE i \in 1..Len(q)
    <3>1. Append(q, c)[i] = q[i] /\ q[i][1] = IF i = 1 THEN d ELSE q[i - 1][2]
      BY <1>1, <2>1 DEF Chain
    <3>2. i # 1 => i - 1 \in 1..Len(q) /\ Append(q, c)[i - 1] = q[i - 1]
      BY <1>1, <2>1
    <3> QED BY <3>1, <3>2
  <2>2. CASE i = Len(q) + 1 /\ q = <<>>
    BY <1>1, <2>2 DEF End
  <2>3. CASE i = Len(q) + 1 /\ q # <<>>
    <3>1. Len(q) \in 1..Len(q)
      BY <2>3, EmptySeq
    <3>2. Append(q, c)[i - 1] = q[Len(q)] /\ i # 1
      BY <1>1, <2>3, <3>1
    <3> QED BY <1>1, <2>3, <3>2 DEF End
  <2> QED BY <1>1, <2>1, <2>2, <2>3
<1> QED BY <1>1, <1>2, <1>3 DEF Chain

LEMMA ChainHead ==
  ASSUME NEW S, NEW q \in Seq(S), q # <<>>, NEW d, Chain(q, d)
  PROVE  /\ Head(q) \in S /\ Head(q)[1] = d
         /\ Tail(q) \in Seq(S) /\ Chain(Tail(q), Head(q)[2])
         /\ End(Tail(q), Head(q)[2]) = End(q, d)
         /\ Len(Tail(q)) = Len(q) - 1 /\ Len(q) \in Nat
<1>1. /\ Head(q) \in S /\ Tail(q) \in Seq(S) /\ Len(q) \in Nat \ {0} /\ Len(Tail(q)) = Len(q) - 1
      /\ \A i \in 1..Len(q) - 1 : Tail(q)[i] = q[i + 1]
      /\ Head(q) = q[1]
  BY HeadTailProperties, EmptySeq
<1>2. q[1][1] = d
  BY <1>1 DEF Chain
<1>3. ASSUME NEW i \in 1..Len(q) - 1
      PROVE  Tail(q)[i][1] = IF i = 1 THEN q[1][2] ELSE Tail(q)[i - 1][2]
  <2>1. i + 1 \in 1..Len(q) /\ i + 1 # 1 /\ (i + 1) - 1 = i
    BY <1>1
  <2>2. q[i + 1][1] = q[i][2]
    BY <2>1 DEF Chain
  <2>3. i # 1 => i - 1 \in 1..Len(q) - 1 /\ (i - 1) + 1 = i
    BY <1>1
  <2> QED BY <1>1, <2>2, <2>3
<1>4. Chain(Tail(q), Head(q)[2])
  BY <1>1, <1>3 DEF Chain
<1>5. End(Tail(q), Head(q)[2]) = End(q, d)
  <2>1. CASE Tail(q) = <<>>
    <3>1. Len(q) = 1
      BY <1>1, <2>1
    <3> QED BY <1>1, <2>1, <3>1 DEF End
  <2>2. CASE Tail(q) # <<>>
    <3>1. Len(Tail(q)) \in 1..Len(q) - 1 /\ Len(Tail(q)) + 1 = Len(q)
      BY <1>1, <2>2, EmptySeq
    <3> QED BY <1>1, <2>2, <3>1 DEF End
  <2> QED BY <2>1, <2>2
<1> QED BY <1>1, <1>2, <1>4, <1>5

-----------------------------------------------------------------------------
(***************************************************************************)
(* A pipe keeps its shape.                                                 *)
(***************************************************************************)
PipeType ==
    [raw : RawPcs, read : 0..MaxDeltas, cut : 0..MaxDeltas, hold : 0..MaxDeltas,
     inner : Seq(Chunks), res : Results, complete : BOOLEAN,
     wrap : WrapPcs, carry : Seq(Chunks), outer : Seq(Chunks), out : Results]

(* Its type, and what each channel can hold at most.                       *)
Fits(p) ==
    /\ p \in PipeType
    /\ Len(p.inner) <= Cap /\ Len(p.outer) <= Cap /\ Len(p.carry) <= 1

Piped == /\ pipe \in [Turns -> PipeType]
         /\ \A t \in Turns : Fits(pipe[t])

LEMMA AppendChunk ==
  ASSUME NEW q \in Seq(Chunks), NEW c \in Chunks
  PROVE  Append(q, c) \in Seq(Chunks) /\ Len(Append(q, c)) = Len(q) + 1 /\ Len(q) \in Nat
  BY AppendProperties, LenProperties

LEMMA TailChunk ==
  ASSUME NEW q \in Seq(Chunks), q # <<>>
  PROVE  /\ Head(q) \in Chunks /\ Tail(q) \in Seq(Chunks)
         /\ Len(Tail(q)) = Len(q) - 1 /\ Len(q) \in Nat
  BY HeadTailProperties, EmptySeq


(* One field of a pipe is changed to a value of its type.                  *)
LEMMA FitsRaw == ASSUME NEW p, Fits(p), NEW x \in RawPcs PROVE Fits([p EXCEPT !.raw = x])
  BY DEF Fits, PipeType
LEMMA FitsRead == ASSUME NEW p, Fits(p), NEW x \in 0..MaxDeltas PROVE Fits([p EXCEPT !.read = x])
  BY DEF Fits, PipeType
LEMMA FitsCut == ASSUME NEW p, Fits(p), NEW x \in 0..MaxDeltas PROVE Fits([p EXCEPT !.cut = x])
  BY DEF Fits, PipeType
LEMMA FitsHold == ASSUME NEW p, Fits(p), NEW x \in 0..MaxDeltas PROVE Fits([p EXCEPT !.hold = x])
  BY DEF Fits, PipeType
LEMMA FitsRes == ASSUME NEW p, Fits(p), NEW x \in Results PROVE Fits([p EXCEPT !.res = x])
  BY DEF Fits, PipeType
LEMMA FitsOut == ASSUME NEW p, Fits(p), NEW x \in Results PROVE Fits([p EXCEPT !.out = x])
  BY DEF Fits, PipeType
LEMMA FitsComplete == ASSUME NEW p, Fits(p), NEW x \in BOOLEAN PROVE Fits([p EXCEPT !.complete = x])
  BY DEF Fits, PipeType
LEMMA FitsWrap == ASSUME NEW p, Fits(p), NEW x \in WrapPcs PROVE Fits([p EXCEPT !.wrap = x])
  BY DEF Fits, PipeType
LEMMA FitsInner ==
  ASSUME NEW p, Fits(p), NEW x \in Seq(Chunks), Len(x) <= Cap PROVE Fits([p EXCEPT !.inner = x])
  BY DEF Fits, PipeType
LEMMA FitsOuter ==
  ASSUME NEW p, Fits(p), NEW x \in Seq(Chunks), Len(x) <= Cap PROVE Fits([p EXCEPT !.outer = x])
  BY DEF Fits, PipeType
LEMMA FitsCarry ==
  ASSUME NEW p, Fits(p), NEW x \in Seq(Chunks), Len(x) <= 1 PROVE Fits([p EXCEPT !.carry = x])
  BY DEF Fits, PipeType

LEMMA NoChunks == <<>> \in Seq(Chunks) /\ Len(<<>>) = 0 /\ 0 <= 1
  BY EmptySeq

LEMMA RawMoves ==
  ASSUME Piped, NEW t \in Turns, RawStep(t)
  PROVE  /\ pipe' = [pipe EXCEPT ![t] = pipe'[t]] /\ Fits(pipe'[t])
<1> DEFINE p == pipe[t]
<1>1. /\ pipe \in [Turns -> PipeType] /\ Fits(p)
      /\ p.read \in 0..MaxDeltas /\ p.cut \in 0..MaxDeltas /\ p.hold \in 0..MaxDeltas
      /\ p.inner \in Seq(Chunks)
  BY DEF Piped, PipeType
<1>2. CASE RawBegin(t)
  <2>1. pipe' = [pipe EXCEPT ![t] = [p EXCEPT !.raw = "request"]]
    BY <1>1, <1>2 DEF RawBegin
  <2> QED BY <1>1, <2>1, FitsRaw DEF RawPcs
<1>3. CASE RawRequest(t)
  <2>1. pipe' = [pipe EXCEPT ![t] = [p EXCEPT !.raw = "read"]]
    BY <1>1, <1>3 DEF RawRequest
  <2> QED BY <1>1, <2>1, FitsRaw DEF RawPcs
<1>4. ASSUME NEW r \in Results, RawExit(t, r) PROVE pipe' = [pipe EXCEPT ![t] = pipe'[t]] /\ Fits(pipe'[t])
  <2>1. pipe' = [pipe EXCEPT ![t] = [[p EXCEPT !.raw = "closed"] EXCEPT !.res = r]]
    BY <1>1, <1>4 DEF RawExit
  <2>2. Fits([p EXCEPT !.raw = "closed"])
    BY <1>1, FitsRaw DEF RawPcs
  <2> QED BY <1>1, <2>1, <2>2, FitsRes
<1>5. CASE RawFails(t) \/ RawReply(t)
  BY <1>4, <1>5 DEF RawFails, RawReply, Results
<1>6. CASE RawDone(t)
  <2>1. pipe' = [pipe EXCEPT ![t] = [[p EXCEPT !.raw = "tail"] EXCEPT !.complete = TRUE]]
    BY <1>1, <1>6 DEF RawDone
  <2>2. Fits([p EXCEPT !.raw = "tail"])
    BY <1>1, FitsRaw DEF RawPcs
  <2> QED BY <1>1, <2>1, <2>2, FitsComplete
<1>7. CASE RawCancelled(t)
  <2>1. pipe' = [pipe EXCEPT ![t] = [p EXCEPT !.raw = "tail"]]
    BY <1>1, <1>7 DEF RawCancelled
  <2> QED BY <1>1, <2>1, FitsRaw DEF RawPcs
<1>8. CASE RawRead(t)
  <2>1. pipe' = [pipe EXCEPT ![t] = [[p EXCEPT !.raw = "cut"] EXCEPT !.read = p.read + 1]]
    BY <1>1, <1>8 DEF RawRead
  <2>2. Fits([p EXCEPT !.raw = "cut"])
    BY <1>1, FitsRaw DEF RawPcs
  <2>3. p.read + 1 \in 0..MaxDeltas
    BY <1>1, <1>8, Numbers DEF RawRead
  <2> QED BY <1>1, <2>1, <2>2, <2>3, FitsRead
<1>9. CASE RawCut(t)
  <2>1. CASE pipe' = [pipe EXCEPT ![t].raw = "read"]
    <3>1. pipe' = [pipe EXCEPT ![t] = [p EXCEPT !.raw = "read"]]
      BY <1>1, <2>1
    <3> QED BY <1>1, <3>1, FitsRaw DEF RawPcs
  <2>2. ASSUME NEW to \in (p.cut + 1)..p.read, pipe' = [pipe EXCEPT ![t].raw = "send", ![t].hold = to]
        PROVE  pipe' = [pipe EXCEPT ![t] = pipe'[t]] /\ Fits(pipe'[t])
    <3>1. pipe' = [pipe EXCEPT ![t] = [[p EXCEPT !.raw = "send"] EXCEPT !.hold = to]]
      BY <1>1, <2>2
    <3>2. Fits([p EXCEPT !.raw = "send"])
      BY <1>1, FitsRaw DEF RawPcs
    <3>3. to \in 0..MaxDeltas
      BY <1>1, Numbers
    <3> QED BY <1>1, <3>1, <3>2, <3>3, FitsHold
  <2> QED BY <1>9, <2>1, <2>2 DEF RawCut
<1>10. CASE RawTail(t)
  <2> DEFINE x == IF p.cut = p.read THEN "reply" ELSE "sendTail"
  <2>1. pipe' = [pipe EXCEPT ![t] = [[p EXCEPT !.raw = x] EXCEPT !.hold = p.read]]
    BY <1>1, <1>10 DEF RawTail
  <2>2. Fits([p EXCEPT !.raw = x])
    BY <1>1, FitsRaw DEF RawPcs
  <2> QED BY <1>1, <2>1, <2>2, FitsHold
<1>11. CASE RawSend(t)
  <2> DEFINE x == IF p.raw = "send" THEN "cut" ELSE "reply"
             y == Append(p.inner, <<p.cut, p.hold>>)
  <2>1. pipe' = [pipe EXCEPT ![t] = [[[p EXCEPT !.raw = x] EXCEPT !.inner = y] EXCEPT !.cut = p.hold]]
    BY <1>1, <1>11 DEF RawSend
  <2>2. <<p.cut, p.hold>> \in Chunks
    BY <1>1 DEF Chunks
  <2>3. y \in Seq(Chunks) /\ Len(y) <= Cap
    BY <1>1, <1>11, <2>2, AppendChunk, VoiceAssumption DEF RawSend
  <2>4. Fits([p EXCEPT !.raw = x])
    BY <1>1, FitsRaw DEF RawPcs
  <2>5. Fits([[p EXCEPT !.raw = x] EXCEPT !.inner = y])
    BY <2>3, <2>4, FitsInner
  <2> QED BY <1>1, <2>1, <2>5, FitsCut
<1> QED BY <1>2, <1>3, <1>5, <1>6, <1>7, <1>8, <1>9, <1>10, <1>11 DEF RawStep

LEMMA WrapMoves ==
  ASSUME Piped, NEW t \in Turns, WrapStep(t)
  PROVE  /\ pipe' = [pipe EXCEPT ![t] = pipe'[t]] /\ Fits(pipe'[t])
<1> DEFINE p == pipe[t]
<1>1. /\ pipe \in [Turns -> PipeType] /\ Fits(p)
      /\ p.inner \in Seq(Chunks) /\ p.outer \in Seq(Chunks) /\ p.carry \in Seq(Chunks)
      /\ p.res \in Results
      /\ Len(p.inner) <= Cap /\ Len(p.carry) <= 1
  BY DEF Piped, PipeType, Fits
<1>2. CASE WrapTake(t)
  <2>1. Head(p.inner) \in Chunks /\ Tail(p.inner) \in Seq(Chunks) /\ Len(Tail(p.inner)) <= Cap
    BY <1>1, <1>2, TailChunk, VoiceAssumption DEF WrapTake
  <2>2. <<Head(p.inner)>> \in Seq(Chunks) /\ Len(<<Head(p.inner)>>) <= 1
    BY <2>1
  <2>3. pipe' = [pipe EXCEPT ![t] = [[[p EXCEPT !.wrap = "send"] EXCEPT !.carry = <<Head(p.inner)>>]
                                        EXCEPT !.inner = Tail(p.inner)]]
    BY <1>1, <1>2 DEF WrapTake
  <2>4. Fits([p EXCEPT !.wrap = "send"])
    BY <1>1, FitsWrap DEF WrapPcs
  <2>5. Fits([[p EXCEPT !.wrap = "send"] EXCEPT !.carry = <<Head(p.inner)>>])
    BY <2>2, <2>4, FitsCarry
  <2> QED BY <1>1, <2>1, <2>3, <2>5, FitsInner
<1>3. CASE WrapSend(t)
  <2> DEFINE y == p.outer \o p.carry
  <2>1. y \in Seq(Chunks) /\ Len(y) <= Cap
    <3>1. Len(y) = Len(p.outer) + Len(p.carry) /\ y \in Seq(Chunks)
      BY <1>1, ConcatProperties
    <3>2. Len(p.outer) \in Nat /\ Len(p.carry) \in Nat /\ Len(p.outer) < Cap
      BY <1>1, <1>3, LenProperties DEF WrapSend
    <3>3. \A a, b \in Nat : a < Cap /\ b <= 1 => a + b <= Cap
      BY Numbers
    <3>4. Len(p.carry) <= 1
      BY <1>1
    <3> QED BY <3>1, <3>2, <3>3, <3>4
  <2>2. pipe' = [pipe EXCEPT ![t] = [[[p EXCEPT !.wrap = "range"] EXCEPT !.outer = y] EXCEPT !.carry = <<>>]]
    BY <1>1, <1>3 DEF WrapSend
  <2>3. Fits([p EXCEPT !.wrap = "range"])
    BY <1>1, FitsWrap DEF WrapPcs
  <2>4. Fits([[p EXCEPT !.wrap = "range"] EXCEPT !.outer = y])
    BY <2>1, <2>3, FitsOuter
  <2> QED BY <1>1, <2>2, <2>4, FitsCarry, NoChunks
<1>4. CASE WrapCancelled(t)
  <2>1. pipe' = [pipe EXCEPT ![t] = [[[p EXCEPT !.wrap = "closed"] EXCEPT !.out = "err"] EXCEPT !.carry = <<>>]]
    BY <1>1, <1>4 DEF WrapCancelled
  <2>2. Fits([p EXCEPT !.wrap = "closed"])
    BY <1>1, FitsWrap DEF WrapPcs
  <2>3. Fits([[p EXCEPT !.wrap = "closed"] EXCEPT !.out = "err"])
    BY <2>2, FitsOut DEF Results
  <2> QED BY <1>1, <2>1, <2>3, FitsCarry, NoChunks
<1>5. CASE WrapEnds(t)
  <2>1. pipe' = [pipe EXCEPT ![t] = [[p EXCEPT !.wrap = "closed"] EXCEPT !.out = p.res]]
    BY <1>1, <1>5 DEF WrapEnds
  <2>2. Fits([p EXCEPT !.wrap = "closed"])
    BY <1>1, FitsWrap DEF WrapPcs
  <2> QED BY <1>1, <2>1, <2>2, FitsOut
<1> QED BY <1>2, <1>3, <1>4, <1>5 DEF WrapStep

-----------------------------------------------------------------------------
(***************************************************************************)
(* The goroutines carry the chunks on in order.                            *)
(***************************************************************************)
LEMMA RawFlows ==
  ASSUME Piped, NEW t \in Turns, NEW q, Flow(q, pipe[t]), RawStep(t)
  PROVE  /\ Flow(q, pipe'[t])
         /\ pipe[t].raw \notin {"off", "closed"}
         /\ pipe'[t].raw # "off" /\ pipe'[t].wrap = pipe[t].wrap
         /\ pipe'[t].outer = pipe[t].outer
<1> DEFINE p == pipe[t]
           r == pipe'[t]
           e == End(p.carry, End(p.outer, End(q, 0)))
<1>1. /\ pipe \in [Turns -> PipeType] /\ p \in PipeType
      /\ p.read \in Nat /\ p.cut \in Nat /\ p.hold \in Nat
      /\ p.inner \in Seq(Chunks)
  BY Numbers DEF Piped, PipeType
<1>2. CASE RawBegin(t) \/ RawRequest(t) \/ RawDone(t) \/ RawCancelled(t)
  <2>1. /\ r.raw \in {"request", "read", "tail"} /\ p.raw \notin {"off", "closed"}
        /\ r.outer = p.outer /\ r.inner = p.inner /\ r.carry = p.carry /\ r.wrap = p.wrap
        /\ r.out = p.out /\ r.res = p.res /\ r.cut = p.cut /\ r.read = p.read
    BY <1>1, <1>2 DEF RawBegin, RawRequest, RawDone, RawCancelled, PipeType
  <2> QED BY <2>1 DEF Flow
<1>3. CASE RawRead(t)
  <2>1. /\ r.raw = "cut" /\ p.raw = "read"
        /\ r.outer = p.outer /\ r.inner = p.inner /\ r.carry = p.carry /\ r.wrap = p.wrap
        /\ r.out = p.out /\ r.res = p.res /\ r.cut = p.cut
    BY <1>1, <1>3 DEF RawRead, PipeType
  <2> QED BY <2>1 DEF Flow
<1>4. CASE RawCut(t)
  <2>1. /\ r.raw \in {"send", "read"} /\ p.raw = "cut"
        /\ r.outer = p.outer /\ r.inner = p.inner /\ r.carry = p.carry /\ r.wrap = p.wrap
        /\ r.out = p.out /\ r.res = p.res /\ r.cut = p.cut /\ r.read = p.read
    BY <1>1, <1>4 DEF RawCut, PipeType
  <2> QED BY <2>1 DEF Flow
<1>5. CASE RawTail(t)
  <2>1. /\ r.raw = IF p.cut = p.read THEN "reply" ELSE "sendTail"
        /\ p.raw = "tail" /\ r.hold = p.read
        /\ r.outer = p.outer /\ r.inner = p.inner /\ r.carry = p.carry /\ r.wrap = p.wrap
        /\ r.out = p.out /\ r.res = p.res /\ r.cut = p.cut /\ r.read = p.read
    BY <1>1, <1>5 DEF RawTail, PipeType
  <2> QED BY <2>1 DEF Flow
<1>6. CASE RawSend(t)
  <2>1. /\ r.raw = IF p.raw = "send" THEN "cut" ELSE "reply"
        /\ p.raw \in {"send", "sendTail"}
        /\ r.inner = Append(p.inner, <<p.cut, p.hold>>) /\ r.cut = p.hold
        /\ r.outer = p.outer /\ r.carry = p.carry /\ r.wrap = p.wrap
        /\ r.out = p.out /\ r.res = p.res /\ r.read = p.read
    BY <1>1, <1>6 DEF RawSend, PipeType
  <2>2. p.wrap \in {"range", "send"} => Chain(r.inner, e) /\ End(r.inner, e) = r.cut
    <3>1. <<p.cut, p.hold>> \in Chunks
      BY <1>1 DEF Piped, PipeType, Chunks
    <3>2. p.wrap \in {"range", "send"} => Chain(p.inner, e) /\ End(p.inner, e) = p.cut
      BY DEF Flow
    <3> HIDE DEF p, r, e
    <3> QED BY <1>1, <2>1, <3>1, <3>2, ChainAppend
  <2> QED BY <2>1, <2>2 DEF Flow
<1>7. ASSUME NEW x \in Results, RawExit(t, x), p.raw \notin {"off", "closed"},
             x = "ok" => p.cut = p.read /\ p.read > 0
      PROVE  /\ Flow(q, r) /\ r.raw # "off" /\ r.wrap = p.wrap /\ r.outer = p.outer
  <2>1. /\ r.raw = "closed" /\ r.res = x
        /\ r.outer = p.outer /\ r.inner = p.inner /\ r.carry = p.carry /\ r.wrap = p.wrap
        /\ r.out = p.out /\ r.cut = p.cut /\ r.read = p.read
    BY <1>1, <1>7 DEF RawExit, PipeType
  <2> QED BY <1>7, <2>1 DEF Flow
<1>8. CASE RawFails(t)
  BY <1>7, <1>8 DEF RawFails, Results
<1>9. CASE RawReply(t)
  <2>1. p.raw = "reply" /\ p.cut = p.read
    BY <1>9 DEF RawReply, Flow
  <2> QED BY <1>1, <1>7, <1>9, <2>1 DEF RawReply, Results
<1> QED BY <1>2, <1>3, <1>4, <1>5, <1>6, <1>8, <1>9 DEF RawStep

LEMMA WrapFlows ==
  ASSUME Piped, NEW t \in Turns, NEW q, Flow(q, pipe[t]), WrapStep(t)
  PROVE  /\ Flow(q, pipe'[t])
         /\ pipe[t].wrap \in {"range", "send"} /\ pipe'[t].wrap # "off"
         /\ pipe'[t].raw = pipe[t].raw
<1> DEFINE p == pipe[t]
           r == pipe'[t]
           e == End(p.outer, End(q, 0))
<1>1. /\ pipe \in [Turns -> PipeType] /\ p \in PipeType /\ p.inner \in Seq(Chunks)
      /\ p.outer \in Seq(Chunks) /\ p.carry \in Seq(Chunks) /\ Len(p.carry) <= 1
  BY DEF Piped, PipeType, Fits
<1>2. p.wrap \in {"range", "send"} =>
         /\ p.out = "none" /\ (p.wrap = "range" <=> p.carry = <<>>)
         /\ Chain(p.outer, End(q, 0)) /\ Chain(p.carry, e)
         /\ Chain(p.inner, End(p.carry, e)) /\ End(p.inner, End(p.carry, e)) = p.cut
  BY DEF Flow
<1>3. CASE WrapTake(t)
  <2>1. /\ r.wrap = "send" /\ p.wrap = "range" /\ p.inner # <<>>
        /\ r.carry = <<Head(p.inner)>> /\ r.inner = Tail(p.inner)
        /\ r.outer = p.outer /\ r.raw = p.raw /\ r.hold = p.hold
        /\ r.out = p.out /\ r.res = p.res /\ r.cut = p.cut /\ r.read = p.read
    BY <1>1, <1>3 DEF WrapTake, PipeType
  <2>2. p.carry = <<>> /\ End(p.carry, e) = e
    BY <1>2, <2>1, ChainOfNone
  <2>3. /\ Head(p.inner)[1] = e /\ Chain(Tail(p.inner), Head(p.inner)[2])
        /\ End(Tail(p.inner), Head(p.inner)[2]) = p.cut
    BY <1>1, <1>2, <2>1, <2>2, ChainHead
  <2>4. Chain(r.carry, e) /\ End(r.carry, e) = Head(p.inner)[2]
    BY <2>1, <2>3, ChainOfOne
  <2>5. r.carry # <<>>
    BY <2>1
  <2> QED BY <1>2, <2>1, <2>3, <2>4, <2>5 DEF Flow
<1>4. CASE WrapSend(t)
  <2>1. /\ r.wrap = "range" /\ p.wrap = "send"
        /\ r.carry = <<>> /\ r.inner = p.inner
        /\ r.outer = p.outer \o p.carry /\ r.raw = p.raw /\ r.hold = p.hold
        /\ r.out = p.out /\ r.res = p.res /\ r.cut = p.cut /\ r.read = p.read
    BY <1>1, <1>4 DEF WrapSend, PipeType
  <2>2. PICK c \in Chunks : p.carry = <<c>>
    <3>1. p.carry # <<>> /\ Len(p.carry) \in Nat
      BY <1>1, <1>2, <2>1, LenProperties
    <3>2. Len(p.carry) # 0
      BY <1>1, <3>1, EmptySeq
    <3>3. Len(p.carry) = 1
      <4>1. \A n \in Nat : n # 0 /\ n <= 1 => n = 1
        OBVIOUS
      <4> QED BY <1>1, <3>1, <3>2, <4>1
    <3>4. p.carry[1] \in Chunks /\ p.carry = <<p.carry[1]>>
      BY <1>1, <3>3
    <3> QED BY <3>4
  <2>3. r.outer = Append(p.outer, c)
    BY <1>1, <2>1, <2>2, AppendIsConcat
  <2>4. c[1] = e /\ End(p.carry, e) = c[2]
    BY <1>2, <2>1, <2>2, ChainOfOne
  <2>5. Chain(r.outer, End(q, 0)) /\ End(r.outer, End(q, 0)) = c[2]
    BY <1>1, <1>2, <2>1, <2>3, <2>4, ChainAppend
  <2>6. Chain(r.carry, c[2]) /\ End(r.carry, c[2]) = c[2]
    BY <2>1, ChainOfNone
  <2> QED BY <1>2, <2>1, <2>4, <2>5, <2>6 DEF Flow
<1>5. CASE WrapCancelled(t)
  <2>1. /\ r.wrap = "closed" /\ p.wrap = "send" /\ r.out = "err"
        /\ r.outer = p.outer /\ r.raw = p.raw /\ r.hold = p.hold
        /\ r.res = p.res /\ r.cut = p.cut /\ r.read = p.read
    BY <1>1, <1>5 DEF WrapCancelled, PipeType
  <2> QED BY <2>1 DEF Flow
<1>6. CASE WrapEnds(t)
  <2>1. /\ r.wrap = "closed" /\ p.wrap = "range" /\ p.inner = <<>> /\ p.raw = "closed"
        /\ r.outer = p.outer /\ r.raw = p.raw /\ r.hold = p.hold
        /\ r.out = p.res /\ r.res = p.res /\ r.cut = p.cut /\ r.read = p.read
    BY <1>1, <1>6 DEF WrapEnds, PipeType
  <2>2. e = p.cut
    BY <1>2, <2>1, ChainOfNone
  <2> QED BY <1>2, <2>1, <2>2 DEF Flow
<1> QED BY <1>3, <1>4, <1>5, <1>6 DEF WrapStep

-----------------------------------------------------------------------------
(***************************************************************************)
(* The handlers and the goroutines of every turn agree.                    *)
(***************************************************************************)
(* The shape of what the stream of a turn touches.                         *)
Wired ==
    /\ pc \in [Turns -> Labels]
    /\ sent \in [Turns -> Seq(Chunks)]
    /\ Piped

Wiring == Wired /\ Streams

LEMMA WiringInit == Init => Wiring
<1> SUFFICES ASSUME Init PROVE Wiring
  OBVIOUS
<1>1. /\ pc = [t \in Turns |-> "idle"] /\ sent = [t \in Turns |-> <<>>]
      /\ pipe = [t \in Turns |-> NewPipe]
  BY DEF Init, NewPipe
<1>2. Fits(NewPipe)
  BY NoChunks, Numbers DEF Fits, PipeType, NewPipe, RawPcs, WrapPcs, Results
<1>3. Wired
  BY <1>1, <1>2, NoChunks DEF Wired, Piped, Fits, Labels
<1>4. \A t \in Turns : Stage(t)
  BY <1>1, ChainOfNone DEF Stage, Streaming, Saving, NewPipe
<1> QED BY <1>3, <1>4 DEF Wiring, Streams

(* A step of one turn leaves the others as they are.                       *)
LEMMA OneTurn ==
  ASSUME Wiring, NEW t \in Turns, NEW x \in Labels, pc' = [pc EXCEPT ![t] = x],
         NEW q \in Seq(Chunks), sent' = [sent EXCEPT ![t] = q],
         NEW p, Fits(p), pipe' = [pipe EXCEPT ![t] = p],
         pc'[t] = x /\ sent'[t] = q /\ pipe'[t] = p => Stage(t)'
  PROVE  Wiring'
<1>1. /\ pc \in [Turns -> Labels] /\ sent \in [Turns -> Seq(Chunks)]
      /\ pipe \in [Turns -> PipeType] /\ (\A u \in Turns : Fits(pipe[u]))
  BY DEF Wiring, Wired, Piped
<1>2. pc' \in [Turns -> Labels] /\ sent' \in [Turns -> Seq(Chunks)] /\ pipe' \in [Turns -> PipeType]
  BY <1>1 DEF Fits
<1>3. pc'[t] = x /\ sent'[t] = q /\ pipe'[t] = p
  BY <1>1
<1>4. ASSUME NEW u \in Turns PROVE Fits(pipe'[u])
  BY <1>1, <1>3
<1>5. ASSUME NEW u \in Turns PROVE Stage(u)'
  <2>1. CASE u = t
    BY <1>3, <2>1
  <2>2. CASE u # t
    <3>1. pc'[u] = pc[u] /\ sent'[u] = sent[u] /\ pipe'[u] = pipe[u]
      BY <1>1, <2>2
    <3>2. Stage(u)
      BY DEF Wiring, Streams
    <3> QED BY <3>1, <3>2 DEF Stage
  <2> QED BY <2>1, <2>2
<1> QED BY <1>2, <1>4, <1>5 DEF Wiring, Wired, Piped, Fits, Streams

(* A step of a handler that touches neither its stream nor the client.     *)
LEMMA QuietTurn ==
  ASSUME Wiring, NEW t \in Turns, NEW x \in Labels, pc' = [pc EXCEPT ![t] = x],
         UNCHANGED <<sent, pipe>>,
         pc'[t] = x /\ sent'[t] = sent[t] /\ pipe'[t] = pipe[t] => Stage(t)'
  PROVE  Wiring'
<1>1. /\ sent' = [sent EXCEPT ![t] = sent[t]] /\ sent[t] \in Seq(Chunks)
      /\ pipe' = [pipe EXCEPT ![t] = pipe[t]] /\ Fits(pipe[t])
  BY DEF Wiring, Wired, Piped
<1> QED BY <1>1, OneTurn

LEMMA QuietSteps ==
  ASSUME Wiring, NEW t \in Turns
  PROVE  /\ Arrive(t) \/ Begin(t) => Wiring'
         /\ EnsureReady(t) \/ EarlyReturn(t) => Wiring'
         /\ Ask(t) \/ Answer(t) \/ CallFails(t) \/ SpeakAll(t) => Wiring'
         /\ Speak(t) \/ StopStream(t) \/ RangeEnds(t) \/ TakeResult(t) \/ Finish(t) => Wiring'
         /\ CommitNothing(t) \/ WriteTmp(t) \/ Rename(t) \/ SaveFails(t) \/ Abort(t) => Wiring'
<1>0. Stage(t)
  BY DEF Wiring, Streams
<1> USE DEF Labels
<1>1. CASE Arrive(t)
  <2>1. PICK x \in {"ready", "lock"} : Go(t, "idle", x)
    BY <1>1 DEF Arrive
  <2> QED BY <1>0, <1>1, <2>1, QuietTurn DEF Arrive, Go, Stage, Streaming, Saving
<1>2. CASE Begin(t)
  <2>1. PICK x \in {"ready", "done"} : Go(t, "lock", x) /\ UNCHANGED <<sent, pipe>>
    BY <1>2 DEF Begin, Load, LoadReset, LoadFails
  <2> QED BY <1>0, <2>1, QuietTurn DEF Go, Stage, Streaming, Saving
<1>3. CASE EnsureReady(t)
  <2>1. CASE t \in Streamed
    BY <1>0, <1>3, <2>1, QuietTurn DEF EnsureReady, Go, Stage, Streaming, Saving
  <2>2. CASE t \notin Streamed
    BY <1>0, <1>3, <2>2, QuietTurn DEF EnsureReady, Go, Stage, Streaming, Saving
  <2> QED BY <2>1, <2>2
<1>4. CASE EarlyReturn(t)
  BY <1>0, <1>4, QuietTurn DEF EarlyReturn, Stage, Streaming, Saving
<1>5. CASE Ask(t) \/ Answer(t)
  <2>1. PICK x \in {"call", "commit"} :
           pc' = [pc EXCEPT ![t] = x] /\ pc[t] \in {"ask", "call"} /\ UNCHANGED <<sent, pipe>>
    BY <1>5 DEF Ask, Answer, Go
  <2> QED BY <1>0, <2>1, QuietTurn DEF Stage, Streaming, Saving
<1>6. CASE CallFails(t) \/ SpeakAll(t) \/ Finish(t) \/ StopStream(t)
  <2>1. pc' = [pc EXCEPT ![t] = "abort"] /\ UNCHANGED <<sent, pipe>>
    BY <1>6 DEF CallFails, SpeakAll, Finish, StopStream, Go
  <2> QED BY <1>0, <2>1, QuietTurn DEF Stage, Streaming, Saving
<1>7. CASE Speak(t)
  BY <1>0, <1>7, QuietTurn DEF Speak, Go, Stage, Streaming, Saving
<1>8. CASE RangeEnds(t)
  BY <1>0, <1>8, QuietTurn DEF RangeEnds, Go, Stage, Streaming, Saving
<1>9. CASE TakeResult(t)
  <2>1. pc[t] = "result" /\ UNCHANGED <<sent, pipe>>
    BY <1>9 DEF TakeResult
  <2>2. /\ pipe[t].wrap = "closed" /\ pipe[t].outer = <<>> /\ Flow(sent[t], pipe[t])
        /\ pipe[t].raw # "off" /\ t \in Streamed
    BY <1>0, <2>1 DEF Stage, Streaming
  <2>3. CASE pipe[t].out = "ok"
    <3>1. /\ pipe[t].raw = "closed" /\ pipe[t].read > 0
          /\ End(sent[t], 0) = pipe[t].read
      BY <2>2, <2>3, ChainOfNone DEF Flow
    <3>2. pc' = [pc EXCEPT ![t] = "commit"]
      BY <1>9, <2>3 DEF TakeResult
    <3> QED BY <1>0, <2>1, <2>2, <3>1, <3>2, QuietTurn DEF Stage, Streaming, Saving
  <2>4. CASE pipe[t].out # "ok"
    <3>1. pc' = [pc EXCEPT ![t] = "abort"]
      BY <1>9, <2>4 DEF TakeResult
    <3> QED BY <1>0, <2>1, <3>1, QuietTurn DEF Stage, Streaming, Saving
  <2> QED BY <2>3, <2>4
<1>10. CASE WriteTmp(t)
  BY <1>0, <1>10, QuietTurn DEF WriteTmp, Go, Stage, Streaming, Saving
<1>11. CASE CommitNothing(t) \/ Rename(t) \/ SaveFails(t)
  <2>1. /\ pc[t] \in {"commit", "rename"} /\ UNCHANGED <<sent, pipe>>
        /\ pc' = [pc EXCEPT ![t] = AfterCommit(t)]
    BY <1>11 DEF CommitNothing, Rename, SaveFails, Go
  <2>2. CASE t \in Streamed
    BY <1>0, <2>1, <2>2, QuietTurn DEF AfterCommit, Stage, Streaming, Saving
  <2>3. CASE t \notin Streamed
    BY <1>0, <2>1, <2>3, QuietTurn DEF AfterCommit, Stage, Streaming, Saving
  <2> QED BY <2>2, <2>3
<1>12. CASE Abort(t)
  BY <1>0, <1>12, QuietTurn DEF Abort, Go, Stage, Streaming, Saving
<1> QED BY <1>1, <1>2, <1>3, <1>4, <1>5, <1>6, <1>7, <1>8, <1>9, <1>10, <1>11, <1>12

LEMMA StreamSteps ==
  ASSUME Wiring, NEW t \in Turns
  PROVE  /\ StartStream(t) => Wiring'
         /\ TakeChunk(t) => Wiring'
<1>0. /\ Stage(t) /\ pc \in [Turns -> Labels] /\ sent \in [Turns -> Seq(Chunks)]
      /\ pipe \in [Turns -> PipeType] /\ Fits(pipe[t])
  BY DEF Wiring, Wired, Streams, Piped
<1>1. CASE StartStream(t)
  <2> DEFINE p == [[NewPipe EXCEPT !.raw = "begin"] EXCEPT !.wrap = "range"]
  <2>1. pc[t] = "transcript" /\ pipe[t] = NewPipe /\ sent[t] = <<>> /\ t \in Streamed
    BY <1>0, <1>1 DEF StartStream, Go, Stage
  <2>2. /\ pc' = [pc EXCEPT ![t] = "range"] /\ sent' = [sent EXCEPT ![t] = <<>>]
        /\ pipe' = [pipe EXCEPT ![t] = p]
    BY <1>0, <1>1, <2>1 DEF StartStream, Go
  <2>3. Fits(p)
    BY <1>0, <2>1, FitsRaw, FitsWrap DEF RawPcs, WrapPcs
  <2>4. Flow(<<>>, p)
    BY ChainOfNone DEF Flow, NewPipe
  <2>5. p.raw # "off" /\ p.wrap # "off"
    BY DEF NewPipe
  <2>6. pc'[t] = "range" /\ sent'[t] = <<>> /\ pipe'[t] = p => Stage(t)'
    BY <2>1, <2>4, <2>5, ChainOfNone DEF Stage, Streaming, Saving
  <2> QED BY <2>2, <2>3, <2>6, NoChunks, OneTurn DEF Labels
<1>2. CASE TakeChunk(t)
  <2> DEFINE p == [pipe[t] EXCEPT !.outer = Tail(pipe[t].outer)]
             c == Head(pipe[t].outer)
             q == Append(sent[t], c)
  <2>1. /\ pc[t] = "range" /\ pipe[t].outer # <<>> /\ pc' = [pc EXCEPT ![t] = "speak"]
        /\ sent' = [sent EXCEPT ![t] = q] /\ pipe' = [pipe EXCEPT ![t] = p]
    BY <1>0, <1>2 DEF TakeChunk, Go
  <2>2. /\ Chain(sent[t], 0) /\ pipe[t].raw # "off" /\ Flow(sent[t], pipe[t]) /\ t \in Streamed
        /\ pipe[t].wrap # "off"
    BY <1>0, <2>1 DEF Stage, Streaming
  <2>3. /\ pipe[t].outer \in Seq(Chunks) /\ Chain(pipe[t].outer, End(sent[t], 0))
        /\ Len(pipe[t].outer) <= Cap
    BY <1>0, <2>2 DEF Flow, PipeType, Fits
  <2>4. /\ c \in Chunks /\ c[1] = End(sent[t], 0) /\ Tail(pipe[t].outer) \in Seq(Chunks)
        /\ Chain(Tail(pipe[t].outer), c[2])
        /\ End(Tail(pipe[t].outer), c[2]) = End(pipe[t].outer, End(sent[t], 0))
        /\ Len(Tail(pipe[t].outer)) = Len(pipe[t].outer) - 1 /\ Len(pipe[t].outer) \in Nat
    <3> DEFINE o == pipe[t].outer
               d == End(sent[t], 0)
    <3> HIDE DEF o, d
    <3>1. o \in Seq(Chunks) /\ o # <<>> /\ Chain(o, d)
      BY <2>1, <2>3 DEF o, d
    <3>2. /\ Head(o) \in Chunks /\ Head(o)[1] = d
          /\ Tail(o) \in Seq(Chunks) /\ Chain(Tail(o), Head(o)[2])
          /\ End(Tail(o), Head(o)[2]) = End(o, d)
          /\ Len(Tail(o)) = Len(o) - 1 /\ Len(o) \in Nat
      BY <3>1, ChainHead
    <3> QED BY <3>2 DEF o, d
  <2>5. q \in Seq(Chunks) /\ Chain(q, 0) /\ End(q, 0) = c[2]
    BY <1>0, <2>2, <2>4, ChainAppend, AppendChunk
  <2>6. Fits(p)
    <3>1. Len(Tail(pipe[t].outer)) <= Cap
      BY <2>3, <2>4, Numbers
    <3> QED BY <1>0, <2>4, <3>1, FitsOuter
  <2>7. /\ p.outer = Tail(pipe[t].outer) /\ p.wrap = pipe[t].wrap /\ p.raw = pipe[t].raw
        /\ p.out = pipe[t].out /\ p.res = pipe[t].res /\ p.hold = pipe[t].hold
        /\ p.inner = pipe[t].inner /\ p.carry = pipe[t].carry
        /\ p.cut = pipe[t].cut /\ p.read = pipe[t].read
    BY <1>0 DEF PipeType
  <2>8. Chain(p.outer, End(q, 0)) /\ End(p.outer, End(q, 0)) = End(pipe[t].outer, End(sent[t], 0))
    BY <2>4, <2>5, <2>7
  <2>9. Flow(q, p)
    <3> HIDE DEF p, q
    <3> QED BY <2>2, <2>7, <2>8 DEF Flow
  <2>10. pc'[t] = "speak" /\ sent'[t] = q /\ pipe'[t] = p => Stage(t)'
    <3> HIDE DEF p, q
    <3> QED BY <2>2, <2>5, <2>7, <2>9 DEF Stage, Streaming, Saving
  <2> HIDE DEF p, q
  <2> QED BY <2>1, <2>5, <2>6, <2>10, OneTurn DEF Labels
<1> QED BY <1>1, <1>2

LEMMA RawWhere ==
  ASSUME Piped, NEW t \in Turns, RawStep(t)
  PROVE  /\ pipe[t].raw \notin {"off", "closed"} /\ pipe'[t].raw # "off"
         /\ pipe'[t].wrap = pipe[t].wrap
<1>1. pipe[t] \in PipeType /\ pipe \in [Turns -> PipeType]
  BY DEF Piped
<1>2. CASE RawBegin(t) \/ RawRequest(t) \/ RawRead(t) \/ RawDone(t) \/ RawCancelled(t)
  BY <1>1, <1>2 DEF RawBegin, RawRequest, RawRead, RawDone, RawCancelled, PipeType
<1>3. CASE RawFails(t) \/ RawReply(t)
  BY <1>1, <1>3 DEF RawFails, RawReply, RawExit, PipeType
<1>4. CASE RawCut(t)
  BY <1>1, <1>4 DEF RawCut, PipeType
<1>5. CASE RawTail(t) \/ RawSend(t)
  BY <1>1, <1>5 DEF RawTail, RawSend, PipeType
<1> QED BY <1>2, <1>3, <1>4, <1>5 DEF RawStep

LEMMA WrapWhere ==
  ASSUME Piped, NEW t \in Turns, WrapStep(t)
  PROVE  /\ pipe[t].wrap \in {"range", "send"} /\ pipe'[t].wrap # "off"
         /\ pipe'[t].raw = pipe[t].raw
<1>1. pipe[t] \in PipeType /\ pipe \in [Turns -> PipeType]
  BY DEF Piped
<1>2. CASE WrapTake(t) \/ WrapSend(t)
  BY <1>1, <1>2 DEF WrapTake, WrapSend, PipeType
<1>3. CASE WrapCancelled(t) \/ WrapEnds(t)
  BY <1>1, <1>3 DEF WrapCancelled, WrapEnds, PipeType
<1> QED BY <1>2, <1>3 DEF WrapStep

(* The goroutines move only while the handler of their turn is reading the *)
(* chunks, or after it has stopped doing so.                               *)
LEMMA GoroutineSteps ==
  ASSUME Wiring, NEW t \in Turns, RawStep(t) \/ WrapStep(t)
  PROVE  /\ Wiring'
         /\ RawStep(t) => pipe[t].raw \notin {"off", "closed"}
         /\ WrapStep(t) => pipe'[t].raw = pipe[t].raw
<1>0. /\ Stage(t) /\ pc \in [Turns -> Labels] /\ sent \in [Turns -> Seq(Chunks)] /\ Piped
      /\ pipe \in [Turns -> PipeType]
  BY DEF Wiring, Wired, Streams, Piped
<1>1. /\ pc' = [pc EXCEPT ![t] = pc[t]] /\ pc[t] \in Labels
      /\ sent' = [sent EXCEPT ![t] = sent[t]] /\ sent[t] \in Seq(Chunks)
  BY <1>0, PipeFrame DEF pipeOnly
<1>2. pipe' = [pipe EXCEPT ![t] = pipe'[t]] /\ Fits(pipe'[t])
  BY <1>0, RawMoves, WrapMoves
<1>3. /\ RawStep(t) => pipe[t].raw \notin {"off", "closed"} /\ pipe'[t].raw # "off"
                        /\ pipe'[t].wrap = pipe[t].wrap
      /\ WrapStep(t) => pipe[t].wrap \in {"range", "send"} /\ pipe'[t].wrap # "off"
                         /\ pipe'[t].raw = pipe[t].raw
  BY <1>0, RawWhere, WrapWhere
<1>4. pipe[t] # NewPipe /\ pipe[t].raw # "off" /\ pipe[t].wrap # "off" /\ pipe'[t].raw # "off"
      /\ pipe'[t].wrap # "off"
  BY <1>0, <1>3 DEF Stage, NewPipe
<1>5. t \in Streamed /\ pc[t] \notin {"idle", "lock", "ready", "transcript"} \cup Saving
  BY <1>0, <1>3, <1>4 DEF Stage
<1>6. pc[t] \in Streaming => Flow(sent[t], pipe'[t])
  <2> SUFFICES ASSUME pc[t] \in Streaming PROVE Flow(sent[t], pipe'[t])
    OBVIOUS
  <2>1. Flow(sent[t], pipe[t])
    BY <1>0 DEF Stage
  <2> QED BY <1>0, <2>1, RawFlows, WrapFlows
<1>7. pc[t] = "result" => /\ pipe'[t].wrap = "closed" /\ pipe'[t].outer = <<>>
  <2> SUFFICES ASSUME pc[t] = "result" PROVE pipe'[t].wrap = "closed" /\ pipe'[t].outer = <<>>
    OBVIOUS
  <2>1. pipe[t].wrap = "closed" /\ pipe[t].outer = <<>> /\ Flow(sent[t], pipe[t])
    BY <1>0 DEF Stage, Streaming
  <2>2. RawStep(t)
    BY <1>3, <2>1
  <2> QED BY <1>0, <2>1, <2>2, RawFlows
<1>8. pc'[t] = pc[t] /\ sent'[t] = sent[t] => Stage(t)'
  BY <1>0, <1>4, <1>5, <1>6, <1>7 DEF Stage, Saving
<1>9. Wiring'
  BY <1>1, <1>2, <1>8, OneTurn
<1> QED BY <1>3, <1>9

LEMMA RestartWiring == ASSUME Wiring, Restart PROVE Wiring'
<1>0. /\ pc \in [Turns -> Labels] /\ sent \in [Turns -> Seq(Chunks)]
      /\ pipe \in [Turns -> PipeType]
  BY DEF Wiring, Wired, Piped
<1>1. ASSUME NEW t \in Turns PROVE Fits(pipe'[t]) /\ Stage(t)'
  <2>0. Stage(t) /\ Fits(pipe[t])
    BY DEF Wiring, Wired, Streams, Piped
  <2>1. sent'[t] = sent[t] /\ pc'[t] = IF pc[t] = "idle" THEN "idle" ELSE "done"
    BY DEF Restart
  <2>2. CASE pipe[t].raw = "off"
    <3>1. pipe'[t] = pipe[t] /\ pipe[t] = NewPipe
      BY <2>0, <2>2 DEF Restart, Stage
    <3> QED BY <2>0, <2>1, <3>1 DEF Stage, Streaming, Saving, NewPipe
  <2>3. CASE pipe[t].raw # "off"
    <3> DEFINE a == [pipe[t] EXCEPT !.raw = "closed"]
               b == [a EXCEPT !.wrap = "closed"]
               c == [b EXCEPT !.inner = <<>>]
               d == [c EXCEPT !.outer = <<>>]
    <3>1. pipe'[t] = [d EXCEPT !.carry = <<>>]
      BY <2>3 DEF Restart
    <3>2. Fits(a)
      BY <2>0, FitsRaw DEF RawPcs
    <3>3. Fits(b)
      BY <3>2, FitsWrap DEF WrapPcs
    <3>4. Len(<<>>) <= Cap /\ Len(<<>>) <= 1 /\ <<>> \in Seq(Chunks)
      BY NoChunks, Numbers
    <3> HIDE DEF a, b
    <3>5. Fits(c)
      BY <3>3, <3>4, FitsInner
    <3> HIDE DEF c
    <3>6. Fits(d)
      BY <3>4, <3>5, FitsOuter
    <3> HIDE DEF d
    <3>7. Fits(pipe'[t])
      BY <3>1, <3>4, <3>6, FitsCarry
    <3>8. pipe'[t].raw = "closed" /\ pipe'[t].wrap = "closed"
      BY <1>0, <2>3 DEF Restart, PipeType
    <3>9. pc[t] # "idle" /\ t \in Streamed
      BY <2>0, <2>3 DEF Stage, NewPipe
    <3> QED BY <2>0, <2>1, <3>7, <3>8, <3>9 DEF Stage, Streaming, Saving
  <2> QED BY <2>2, <2>3
<1>2. pc' \in [Turns -> Labels] /\ sent' = sent
  BY <1>0 DEF Restart, Labels
<1>3. pipe' \in [Turns -> PipeType]
  BY <1>1 DEF Restart, Fits
<1> QED BY <1>0, <1>1, <1>2, <1>3 DEF Wiring, Wired, Streams, Piped

LEMMA WiringStep == ASSUME Wiring, [Next]_vars PROVE Wiring'
<1>1. ASSUME UNCHANGED <<pc, sent, pipe>> PROVE Wiring'
  BY <1>1 DEF Wiring, Wired, Piped, Streams, Stage
<1>2. ASSUME NEW t \in Turns, HandlerStep(t) PROVE Wiring'
  BY <1>2, QuietSteps, StreamSteps DEF HandlerStep
<1>3. ASSUME NEW t \in Turns, Disconnect(t) PROVE Wiring'
  BY <1>1, <1>3 DEF Disconnect
<1>4. ASSUME NEW s \in Sessions, Expire(s) PROVE Wiring'
  BY <1>1, <1>4 DEF Expire
<1>5. CASE UNCHANGED vars
  BY <1>1, <1>5 DEF vars
<1> QED BY <1>2, <1>3, <1>4, <1>5, QuietSteps, GoroutineSteps, RestartWiring DEF Next

(* In every reachable state the place of each handler and what its stream  *)
(* carries agree.                                                          *)
THEOREM WiringHolds == Spec => []Wiring
<1>1. Wiring /\ [Next]_vars => Wiring'
  BY WiringStep
<1> QED BY <1>1, WiringInit, PTL DEF Spec

(* The client hears the chunks in order, and a turn is stored only when    *)
(* its client was sent the whole of the stored reply.                      *)
THEOREM RepliesAreSpokenInOrder == Spec => []SpokenInOrder
<1>1. Wiring => SpokenInOrder
  <2> SUFFICES ASSUME Wiring, NEW t \in Turns
               PROVE  /\ Chain(sent[t], 0)
                      /\ t \in Streamed /\ pc[t] \in Saving =>
                            sent[t] # <<>> /\ sent[t][Len(sent[t])][2] = pipe[t].read
    BY DEF SpokenInOrder, Chain, Saving
  <2>1. Stage(t) /\ pipe[t].read \in Nat
    BY Numbers DEF Wiring, Wired, Piped, PipeType, Streams
  <2> QED BY <2>1 DEF Stage, End
<1> QED BY <1>1, WiringHolds, PTL

-----------------------------------------------------------------------------
(***************************************************************************)
(* The leases are counted.                                                 *)
(***************************************************************************)
Calling == {t \in Turns : pc[t] = "call"}
Reading == {t \in Turns : InRaw(t)}

LEMMA Counts ==
  ASSUME NEW S, S \subseteq Turns, NEW t \in Turns
  PROVE  /\ Cardinality(S) \in Nat
         /\ t \notin S => Cardinality(S \cup {t}) = Cardinality(S) + 1
         /\ t \in S => Cardinality(S \ {t}) = Cardinality(S) - 1
<1>1. IsFiniteSet(Turns)
  BY VoiceAssumption DEF VoiceAssumption
<1>2. IsFiniteSet(S)
  BY <1>1, FS_Subset
<1> QED BY <1>2, FS_CardinalityType, FS_AddElement, FS_RemoveElement

LEMMA LeaseKept ==
  ASSUME LeasesExact, leases' = leases, Calling' = Calling, Reading' = Reading
  PROVE  LeasesExact'
  BY DEF LeasesExact, Calling, Reading

LEMMA LeaseTaken ==
  ASSUME LeasesExact, NEW t \in Turns, leases' = leases + 1,
         \/ Calling' = Calling \cup {t} /\ t \notin Calling /\ Reading' = Reading
         \/ Reading' = Reading \cup {t} /\ t \notin Reading /\ Calling' = Calling
  PROVE  LeasesExact'
<1>1. Calling \subseteq Turns /\ Reading \subseteq Turns
  BY DEF Calling, Reading
<1>2. /\ Cardinality(Calling) \in Nat /\ Cardinality(Reading) \in Nat
      /\ t \notin Calling => Cardinality(Calling \cup {t}) = Cardinality(Calling) + 1
      /\ t \notin Reading => Cardinality(Reading \cup {t}) = Cardinality(Reading) + 1
  BY <1>1, Counts
<1>3. leases = Cardinality(Calling) + Cardinality(Reading)
  BY DEF LeasesExact, Calling, Reading
<1>4. leases' = Cardinality(Calling') + Cardinality(Reading')
  BY <1>2, <1>3
<1> QED BY <1>4 DEF LeasesExact, Calling, Reading

LEMMA LeaseReturned ==
  ASSUME LeasesExact, NEW t \in Turns, leases' = leases - 1,
         \/ Calling' = Calling \ {t} /\ t \in Calling /\ Reading' = Reading
         \/ Reading' = Reading \ {t} /\ t \in Reading /\ Calling' = Calling
  PROVE  LeasesExact'
<1>1. Calling \subseteq Turns /\ Reading \subseteq Turns
  BY DEF Calling, Reading
<1>2. /\ Cardinality(Calling) \in Nat /\ Cardinality(Reading) \in Nat
      /\ t \in Calling => Cardinality(Calling \ {t}) = Cardinality(Calling) - 1
      /\ t \in Reading => Cardinality(Reading \ {t}) = Cardinality(Reading) - 1
  BY <1>1, Counts
<1>3. leases = Cardinality(Calling) + Cardinality(Reading)
  BY DEF LeasesExact, Calling, Reading
<1>4. leases' = Cardinality(Calling') + Cardinality(Reading')
  BY <1>2, <1>3
<1> QED BY <1>4 DEF LeasesExact, Calling, Reading

LEMMA LeaseQuiet ==
  ASSUME Wiring, LeasesExact, NEW t \in Turns, NEW x, pc' = [pc EXCEPT ![t] = x],
         pc[t] # "call", x # "call",
         leases' = leases, pipe' = pipe
  PROVE  LeasesExact'
<1>1. Calling' = Calling /\ Reading' = Reading
  BY DEF Wiring, Wired, Calling, Reading, InRaw
<1> QED BY <1>1, LeaseKept

LEMMA LeaseMoves ==
  ASSUME Wiring, NEW t \in Turns
  PROVE  /\ Ask(t) => Calling' = Calling \cup {t} /\ t \notin Calling /\ Reading' = Reading
         /\ Answer(t) \/ CallFails(t) => Calling' = Calling \ {t} /\ t \in Calling /\ Reading' = Reading
         /\ RawBegin(t) => Reading' = Reading \cup {t} /\ t \notin Reading /\ Calling' = Calling
         /\ RawFails(t) \/ RawReply(t) =>
               Reading' = Reading \ {t} /\ t \in Reading /\ Calling' = Calling
<1>0. pc \in [Turns -> Labels] /\ pipe \in [Turns -> PipeType]
  BY DEF Wiring, Wired, Piped
<1>1. Ask(t) => Calling' = Calling \cup {t} /\ t \notin Calling /\ Reading' = Reading
  BY <1>0 DEF Ask, Go, Calling, Reading, InRaw
<1>2. Answer(t) \/ CallFails(t) => Calling' = Calling \ {t} /\ t \in Calling /\ Reading' = Reading
  BY <1>0 DEF Answer, CallFails, Go, Calling, Reading, InRaw
<1>3. RawBegin(t) => Reading' = Reading \cup {t} /\ t \notin Reading /\ Calling' = Calling
  BY <1>0 DEF RawBegin, pipeOnly, Calling, Reading, InRaw, PipeType
<1>4. RawFails(t) \/ RawReply(t) =>
         Reading' = Reading \ {t} /\ t \in Reading /\ Calling' = Calling
  BY <1>0 DEF RawFails, RawReply, RawExit, pipeOnly, Calling, Reading, InRaw, PipeType
<1> QED BY <1>1, <1>2, <1>3, <1>4

LEMMA RawStays ==
  ASSUME Piped, NEW t \in Turns, RawStep(t), ~RawBegin(t), ~RawFails(t), ~RawReply(t)
  PROVE  /\ InRaw(t) /\ pipe'[t].raw \in RawPcs \ {"off", "begin", "closed"}
         /\ leases' = leases /\ pc' = pc
<1>1. pipe[t] \in PipeType /\ pipe \in [Turns -> PipeType]
  BY DEF Piped
<1> USE DEF InRaw, PipeType, RawPcs, pipeOnly
<1>2. CASE RawRequest(t) \/ RawRead(t) \/ RawDone(t) \/ RawCancelled(t)
  BY <1>1, <1>2 DEF RawRequest, RawRead, RawDone, RawCancelled
<1>3. CASE RawCut(t)
  BY <1>1, <1>3 DEF RawCut
<1>4. CASE RawTail(t)
  BY <1>1, <1>4 DEF RawTail
<1>5. CASE RawSend(t)
  BY <1>1, <1>5 DEF RawSend
<1> QED BY <1>2, <1>3, <1>4, <1>5 DEF RawStep

LEMMA LeaseStep == ASSUME Wiring, LeasesExact, [Next]_vars PROVE LeasesExact'
<1>0. /\ pc \in [Turns -> Labels] /\ pipe \in [Turns -> PipeType]
      /\ leases = Cardinality(Calling) + Cardinality(Reading)
      /\ Calling \subseteq Turns /\ Reading \subseteq Turns
  BY DEF Wiring, Wired, Piped, LeasesExact, Calling, Reading
<1>1. ASSUME UNCHANGED <<pc, pipe, leases>> PROVE LeasesExact'
  BY <1>1 DEF LeasesExact, InRaw
<1>2. ASSUME NEW t \in Turns, Arrive(t) \/ Begin(t) PROVE LeasesExact'
  <2>1. PICK x \in {"ready", "lock", "done"} : pc' = [pc EXCEPT ![t] = x]
    BY <1>2 DEF Arrive, Begin, Load, LoadReset, LoadFails, Go
  <2>2. pc[t] # "call" /\ leases' = leases /\ pipe' = pipe
    BY <1>2 DEF Arrive, Begin, Load, LoadReset, LoadFails, Go
  <2> QED BY <2>1, <2>2, LeaseQuiet
<1>3. ASSUME NEW t \in Turns, HandlerStep(t) PROVE LeasesExact'
  <2>1. CASE EnsureReady(t) \/ EarlyReturn(t) \/ SpeakAll(t) \/ Speak(t) \/ StopStream(t)
    <3>1. PICK x \in Labels \ {"call"} : pc' = [pc EXCEPT ![t] = x]
      BY <2>1 DEF EnsureReady, EarlyReturn, SpeakAll, Speak, StopStream, Go, Labels
    <3>2. pc[t] # "call" /\ leases' = leases /\ pipe' = pipe
      BY <2>1 DEF EnsureReady, EarlyReturn, SpeakAll, Speak, StopStream, Go
    <3> QED BY <3>1, <3>2, LeaseQuiet
  <2>2. CASE RangeEnds(t) \/ TakeResult(t) \/ Finish(t)
    <3>1. PICK x \in Labels \ {"call"} : pc' = [pc EXCEPT ![t] = x]
      BY <2>2 DEF RangeEnds, TakeResult, Finish, Go, Labels
    <3>2. pc[t] # "call" /\ leases' = leases /\ pipe' = pipe
      BY <2>2 DEF RangeEnds, TakeResult, Finish, Go
    <3> QED BY <3>1, <3>2, LeaseQuiet
  <2>3. CASE CommitNothing(t) \/ WriteTmp(t) \/ Rename(t) \/ SaveFails(t) \/ Abort(t)
    <3>1. PICK x \in Labels \ {"call"} : pc' = [pc EXCEPT ![t] = x]
      BY <2>3 DEF CommitNothing, WriteTmp, Rename, SaveFails, Abort, AfterCommit, Go, Labels
    <3>2. pc[t] # "call" /\ leases' = leases /\ pipe' = pipe
      BY <2>3 DEF CommitNothing, WriteTmp, Rename, SaveFails, Abort, Go
    <3> QED BY <3>1, <3>2, LeaseQuiet
  <2>4. CASE Ask(t)
    <3>1. leases' = leases + 1
      BY <2>4 DEF Ask
    <3> QED BY <2>4, <3>1, LeaseMoves, LeaseTaken
  <2>5. CASE Answer(t) \/ CallFails(t)
    <3>1. leases' = leases - 1
      BY <2>5 DEF Answer, CallFails
    <3> QED BY <2>5, <3>1, LeaseMoves, LeaseReturned
  <2>6. CASE StartStream(t)
    <3>1. pipe[t].raw = "off" /\ pc[t] = "transcript"
      BY <2>6 DEF StartStream, Go, Wiring, Streams, Stage, NewPipe
    <3>2. Calling' = Calling /\ Reading' = Reading /\ leases' = leases
      BY <1>0, <2>6, <3>1 DEF StartStream, Go, Calling, Reading, InRaw, PipeType
    <3> QED BY <3>2, LeaseKept
  <2>7. CASE TakeChunk(t)
    <3>1. Calling' = Calling /\ Reading' = Reading /\ leases' = leases
      BY <1>0, <2>7 DEF TakeChunk, Go, Calling, Reading, InRaw, PipeType
    <3> QED BY <3>1, LeaseKept
  <2> QED BY <1>3, <2>1, <2>2, <2>3, <2>4, <2>5, <2>6, <2>7 DEF HandlerStep
<1>4. ASSUME NEW t \in Turns, RawStep(t) PROVE LeasesExact'
  <2>1. CASE RawBegin(t)
    <3>1. leases' = leases + 1
      BY <2>1 DEF RawBegin
    <3> QED BY <2>1, <3>1, LeaseMoves, LeaseTaken
  <2>2. CASE RawFails(t) \/ RawReply(t)
    <3>1. leases' = leases - 1
      BY <2>2 DEF RawFails, RawReply, RawExit
    <3> QED BY <2>2, <3>1, LeaseMoves, LeaseReturned
  <2>3. CASE ~RawBegin(t) /\ ~RawFails(t) /\ ~RawReply(t)
    <3>1. InRaw(t) /\ pipe'[t].raw \in RawPcs \ {"off", "begin", "closed"}
          /\ leases' = leases /\ pc' = pc
      BY <1>4, <2>3, RawStays DEF Wiring, Wired
    <3>2. pipe' = [pipe EXCEPT ![t] = pipe'[t]]
      BY <1>4, RawMoves DEF Wiring, Wired
    <3>3. Calling' = Calling /\ Reading' = Reading
      BY <1>0, <3>1, <3>2 DEF Calling, Reading, InRaw
    <3> QED BY <3>1, <3>3, LeaseKept
  <2> QED BY <2>1, <2>2, <2>3
<1>5. ASSUME NEW t \in Turns, WrapStep(t) PROVE LeasesExact'
  <2>1. pipe' = [pipe EXCEPT ![t] = pipe'[t]] /\ pipe'[t].raw = pipe[t].raw
    BY <1>5, WrapMoves, WrapWhere DEF Wiring, Wired
  <2>2. pc' = pc /\ leases' = leases
    BY <1>5 DEF WrapStep, WrapTake, WrapSend, WrapCancelled, WrapEnds, pipeOnly
  <2>3. Calling' = Calling /\ Reading' = Reading
    BY <1>0, <2>1, <2>2 DEF Calling, Reading, InRaw
  <2> QED BY <2>2, <2>3, LeaseKept
<1>6. CASE Restart
  <2>1. /\ \A t \in Turns : pc'[t] \in {"idle", "done"} /\ pipe'[t].raw \in {"off", "closed"}
        /\ leases' = 0
    BY <1>0, <1>6 DEF Restart, PipeType
  <2>2. Calling' = {} /\ Reading' = {}
    BY <2>1 DEF Calling, Reading, InRaw
  <2>3. leases' = Cardinality(Calling') + Cardinality(Reading')
    BY <2>1, <2>2, FS_EmptySet
  <2> QED BY <2>3 DEF LeasesExact, Calling, Reading
<1>7. ASSUME NEW t \in Turns, Disconnect(t) PROVE LeasesExact'
  BY <1>1, <1>7 DEF Disconnect
<1>8. ASSUME NEW s \in Sessions, Expire(s) PROVE LeasesExact'
  BY <1>1, <1>8 DEF Expire
<1>9. CASE UNCHANGED vars
  BY <1>1, <1>9 DEF vars
<1> QED BY <1>2, <1>3, <1>4, <1>5, <1>6, <1>7, <1>8, <1>9 DEF Next

(* No path through either handler keeps or doubles a lease on the LLM.     *)
THEOREM LeasesAreReturned == Spec => []LeasesExact
<1>1. Init => LeasesExact
  <2> SUFFICES ASSUME Init PROVE LeasesExact
    OBVIOUS
  <2>1. leases = 0 /\ {t \in Turns : pc[t] = "call"} = {} /\ {t \in Turns : InRaw(t)} = {}
    BY DEF Init, InRaw
  <2> QED BY <2>1, FS_EmptySet DEF LeasesExact
<1>2. Wiring /\ LeasesExact /\ [Next]_vars => LeasesExact'
  BY LeaseStep
<1> QED BY <1>1, <1>2, WiringHolds, PTL DEF Spec

(* Every variable keeps its shape, and no channel holds more than its      *)
(* capacity.                                                               *)
THEOREM TypesHold == Spec => []TypeOK
<1>1. Wiring /\ Remembered /\ LeasesExact => TypeOK
  <2> SUFFICES ASSUME Wiring, Remembered, LeasesExact PROVE TypeOK
    OBVIOUS
  <2>1. /\ pc \in [Turns -> Labels] /\ sent \in [Turns -> Seq(Chunks)]
        /\ pipe \in [Turns -> PipeType]
        /\ \A t \in Turns : Len(pipe[t].inner) <= Cap /\ Len(pipe[t].outer) <= Cap
    BY DEF Wiring, Wired, Piped, Fits
  <2>2. leases \in Nat
    <3>1. /\ {t \in Turns : pc[t] = "call"} \subseteq Turns /\ {t \in Turns : InRaw(t)} \subseteq Turns
          /\ IsFiniteSet(Turns)
      BY VoiceAssumption DEF VoiceAssumption
    <3>2. /\ Cardinality({t \in Turns : pc[t] = "call"}) \in Nat
          /\ Cardinality({t \in Turns : InRaw(t)}) \in Nat
      BY <3>1, FS_Subset, FS_CardinalityType
    <3> QED BY <3>2 DEF LeasesExact
  <2>3. Stored
    BY DEF Remembered
  <2> QED BY <2>1, <2>2, <2>3 DEF TypeOK, Stored, PipeType
<1> QED BY <1>1, WiringHolds, RememberedHolds, LeasesAreReturned, PTL
=============================================================================
