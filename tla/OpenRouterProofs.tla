--------------------------- MODULE OpenRouterProofs ---------------------------
(***************************************************************************)
(* Proofs about OpenRouter, for every number of requests, any catalogues,  *)
(* keys and records of earlier runs.                                       *)
(***************************************************************************)
EXTENDS OpenRouter, SubsequenceProofs, FiniteSetTheorems

(***************************************************************************)
(* The inductive invariant of a voice stream.  What the client has heard   *)
(* is explained by the last model asked: nothing before its text comes,    *)
(* that model alone from then on, and no way back to the loop.  The models *)
(* asked are in the set the loop looks at before it asks the next.         *)
(***************************************************************************)
Shape ==
    /\ DOMAIN pc = Actors
    /\ \A f \in {tried, attempted, loaded, emitted, outcome, heard} : DOMAIN f = Turns

Asking == {"ask", "stream", "record", "save"}

AskedInv(t) ==
    /\ tried[t] \in Seq(attempted[t])
    /\ \A i, j \in 1..Len(tried[t]) : i # j => tried[t][i] # tried[t][j]
    /\ Len(tried[t]) <= MaxAttempts
    /\ pc[t] \in Asking => tried[t] # <<>>
    /\ pc[t] = "idle" => tried[t] = <<>>

HeardInv(t) ==
    /\ heard[t] = IF emitted[t] THEN {Model(t)} ELSE {}
    /\ emitted[t] \in BOOLEAN
    /\ emitted[t] => pc[t] \in {"stream", "record", "save"}
    /\ pc[t] \in {"record", "save"} /\ outcome[t] = "ok" => emitted[t]

TurnInv(t) == AskedInv(t) /\ HeardInv(t)

IInv == Shape /\ \A t \in Turns : TurnInv(t)

LEMMA Kinds ==
    /\ Turns \subseteq Actors /\ Chats \subseteq Actors /\ Admin \in Actors
    /\ Turns \cap Chats = {} /\ Admin \notin Turns /\ Nobody \notin Writers
    /\ MaxAttempts \in 1..5
BY OpenRouterAssumption DEF Actors, Writers, MaxAttempts

(* The invariant of a turn nobody touches.                                 *)
LEMMA Untouched ==
    ASSUME NEW t \in Turns, TurnInv(t), pc'[t] = pc[t], tried'[t] = tried[t], attempted'[t] = attempted[t],
           emitted'[t] = emitted[t], outcome'[t] = outcome[t], heard'[t] = heard[t]
    PROVE  TurnInv(t)'
BY DEF TurnInv, AskedInv, HeardInv, Model, Last

(* A turn that has returned is as it was before it began.                  *)
LEMMA Returned ==
    ASSUME Shape, NEW t \in Turns, Return(t)
    PROVE  TurnInv(t)'
<1>1. /\ pc'[t] = "done" /\ tried'[t] = <<>> /\ attempted'[t] = {} /\ heard'[t] = {} /\ emitted'[t] = FALSE
  BY Kinds DEF Shape, Return, Goto
<1>2. tried'[t] \in Seq(attempted'[t]) /\ Len(tried'[t]) = 0
  BY <1>1, EmptySeq
<1>3. AskedInv(t)' BY <1>1, <1>2, Kinds DEF AskedInv, Asking
<1>4. HeardInv(t)' BY <1>1 DEF HeardInv
<1> QED BY <1>3, <1>4 DEF TurnInv

(* What turn t does leaves the other turns alone.                          *)
Same(u) == /\ pc'[u] = pc[u] /\ tried'[u] = tried[u] /\ attempted'[u] = attempted[u]
           /\ emitted'[u] = emitted[u] /\ outcome'[u] = outcome[u] /\ heard'[u] = heard[u]

Only(t) == Shape' /\ \A u \in Turns \ {t} : Same(u)

LEMMA ReturnOnly ==
    ASSUME Shape, NEW t \in Turns, Return(t),
           outcome' = outcome \/ \E o : outcome' = [outcome EXCEPT ![t] = o]
    PROVE  Only(t)
<1>1. DOMAIN pc' = Actors /\ \A u \in Turns \ {t} : pc'[u] = pc[u]
  BY Kinds DEF Shape, Return, Goto
<1>2. /\ DOMAIN tried' = Turns /\ DOMAIN attempted' = Turns /\ DOMAIN loaded' = Turns
      /\ DOMAIN emitted' = Turns /\ DOMAIN heard' = Turns /\ DOMAIN outcome' = Turns
  BY DEF Shape, Return
<1>3. \A u \in Turns \ {t} : Same(u)
  BY <1>1 DEF Shape, Return, Same
<1> QED BY <1>1, <1>2, <1>3 DEF Only, Shape

(* A model the turn has not asked is added to those it has.                *)
LEMMA AskedOnce ==
    ASSUME Shape, NEW t \in Turns, AskedInv(t), Len(tried[t]) < MaxAttempts, NEW m, m \notin attempted[t],
           attempted'[t] = attempted[t] \cup {m}, tried'[t] = Append(tried[t], m)
    PROVE  /\ tried'[t] \in Seq(attempted'[t]) /\ Len(tried'[t]) <= MaxAttempts /\ tried'[t] # <<>>
           /\ \A i, j \in 1..Len(tried'[t]) : i # j => tried'[t][i] # tried'[t][j]
<1> DEFINE s == tried[t]
<1>1. s \in Seq(attempted[t]) /\ Len(s) <= MaxAttempts /\ \A i, j \in 1..Len(s) : i # j => s[i] # s[j]
  BY DEF AskedInv
<1>2. Len(s) \in Nat /\ \A i \in 1..Len(s) : s[i] \in attempted[t]
  BY <1>1, LenProperties, ElementOfSeq
<1>3. s \in Seq(attempted[t] \cup {m})
  BY <1>1, <1>2, SeqDef, LenProperties
<1>4. /\ Append(s, m) \in Seq(attempted[t] \cup {m}) /\ Append(s, m) # <<>>
      /\ Len(Append(s, m)) = Len(s) + 1 /\ Append(s, m)[Len(s) + 1] = m
      /\ \A i \in 1..Len(s) : Append(s, m)[i] = s[i]
  BY <1>3, AppendProperties
<1>5. ASSUME NEW i \in 1..Len(tried'[t]), NEW j \in 1..Len(tried'[t]), i # j
      PROVE  tried'[t][i] # tried'[t][j]
  <2>1. tried'[t] = Append(s, m) /\ i \in 1..(Len(s) + 1) /\ j \in 1..(Len(s) + 1)
    BY <1>4, <1>5
  <2>2. CASE i \in 1..Len(s) /\ j \in 1..Len(s) BY <1>1, <1>4, <1>5, <2>1, <2>2
  <2>3. CASE i = Len(s) + 1 /\ j \in 1..Len(s) BY <1>2, <1>4, <2>1, <2>3
  <2>4. CASE i \in 1..Len(s) /\ j = Len(s) + 1 BY <1>2, <1>4, <2>1, <2>4
  <2> QED BY <1>2, <1>5, <2>1, <2>2, <2>3, <2>4
<1> QED BY <1>2, <1>4, <1>5, Kinds

-----------------------------------------------------------------------------
(* The steps of a turn, one by one.                                        *)
LEMMA TurnSteps ==
    ASSUME IInv, NEW t \in Turns, Begin(t) \/ TurnStep(t)
    PROVE  TurnInv(t)' /\ Only(t)
<1> DEFINE Goal == TurnInv(t)' /\ Only(t)
<1> /\ Shape /\ AskedInv(t) /\ HeardInv(t)
  BY DEF IInv, TurnInv
<1> t \in Actors /\ DOMAIN pc = Actors
  BY Kinds DEF Shape
<1>f. ASSUME NEW l, Goto(t, l), UNCHANGED <<tried, attempted, emitted, heard, outcome>>, DOMAIN loaded' = Turns
      PROVE  pc'[t] = l /\ Only(t)
  <2>1. pc'[t] = l /\ DOMAIN pc' = Actors /\ \A u \in Turns \ {t} : pc'[u] = pc[u]
    BY <1>f, Kinds DEF Goto
  <2> QED BY <1>f, <2>1 DEF Only, Same, Shape
<1>1. CASE Begin(t)
  <2>1. /\ pc[t] = "idle" /\ pc'[t] = "pick" /\ UNCHANGED <<tried, emitted, heard, outcome, loaded>>
        /\ attempted'[t] = attempted[t] \/ attempted'[t] = {Primary}
        /\ DOMAIN attempted' = Turns /\ \A u \in Turns \ {t} : attempted'[u] = attempted[u]
        /\ DOMAIN pc' = Actors /\ \A u \in Turns \ {t} : pc'[u] = pc[u]
    BY <1>1, Kinds DEF Begin, Turn, Goto, Shape
  <2>2. Only(t) BY <2>1 DEF Only, Same, Shape
  <2>3. tried'[t] = <<>> BY <2>1 DEF AskedInv
  <2>4. tried'[t] \in Seq(attempted'[t]) /\ Len(tried'[t]) = 0 BY <2>3, EmptySeq
  <2>5. AskedInv(t)' BY <2>1, <2>3, <2>4, Kinds DEF AskedInv, Asking
  <2>6. HeardInv(t)' BY <2>1 DEF HeardInv, Model, Last
  <2> QED BY <2>2, <2>5, <2>6 DEF TurnInv
<1>2. CASE GiveUp(t) \/ LookupFails(t)
  <2>1. Return(t) /\ \E o : outcome' = [outcome EXCEPT ![t] = o]
    BY <1>2 DEF GiveUp, LookupFails, Give
  <2> QED BY <2>1, Returned, ReturnOnly
<1>3. CASE Abandon(t)
  <2>1. Return(t) /\ \E o : outcome' = [outcome EXCEPT ![t] = o]
    BY <1>3 DEF Abandon
  <2> QED BY <2>1, Returned, ReturnOnly
<1>4. CASE NeedFallbacks(t)
  <2>1. pc'[t] = "lookup" /\ Only(t)
    BY <1>4, <1>f DEF NeedFallbacks, Shape
  <2> QED BY <1>4, <2>1 DEF NeedFallbacks, Turn, TurnInv, AskedInv, HeardInv, Model, Last, Asking
<1>5. CASE Pick(t)
  <2>0. pc[t] = "pick" /\ Len(tried[t]) < MaxAttempts
    BY <1>5, Kinds, LenProperties DEF Pick, Turn, Exhausted, AskedInv
  <2>1. CASE PassOver(t)
    <3>1. UNCHANGED <<attempted, tried, emitted, pc, outcome, heard, loaded>> BY <1>5, <2>1 DEF Pick
    <3> QED BY <3>1, Untouched DEF Only, Same, Shape, TurnInv
  <2>2. CASE ~PassOver(t)
    <3> DEFINE m == Head(queue[t])
    <3>1. /\ m \notin attempted[t]
          /\ attempted' = [attempted EXCEPT ![t] = @ \cup {m}] /\ tried' = [tried EXCEPT ![t] = Append(@, m)]
          /\ emitted' = [emitted EXCEPT ![t] = FALSE] /\ Goto(t, "ask") /\ UNCHANGED <<loaded, outcome, heard>>
      BY <1>5, <2>2 DEF Pick, PassOver
    <3>2. /\ attempted'[t] = attempted[t] \cup {m} /\ tried'[t] = Append(tried[t], m)
          /\ emitted'[t] = FALSE /\ pc'[t] = "ask" /\ heard'[t] = heard[t]
      BY <3>1 DEF Shape, Goto
    <3>3. Only(t)
      <4>1. DOMAIN pc' = Actors /\ DOMAIN attempted' = Turns /\ DOMAIN tried' = Turns /\ DOMAIN emitted' = Turns
        BY <3>1 DEF Shape, Goto
      <4>2. \A u \in Turns \ {t} : Same(u)
        BY <3>1, Kinds DEF Shape, Goto, Same
      <4> QED BY <3>1, <4>1, <4>2 DEF Only, Shape
    <3>4. AskedInv(t)' BY <3>1, <3>2, <2>0, AskedOnce DEF AskedInv
    <3>5. heard[t] = {} BY <2>0 DEF HeardInv
    <3>6. HeardInv(t)' BY <3>2, <3>5 DEF HeardInv
    <3> QED BY <3>3, <3>4, <3>6 DEF TurnInv
  <2> QED BY <2>1, <2>2
<1>6. CASE Lookup(t)
  <2>1. /\ UNCHANGED turnVars /\ pc[t] \in {"lookup", "fetch", "store"}
        /\ \E l \in {"fetch", "store", "choose"} : Goto(t, l)
    BY <1>6 DEF Lookup, CacheHit, CacheMiss, Fetched, Store
  <2>2. PICK l \in {"fetch", "store", "choose"} : Goto(t, l) BY <2>1
  <2>3. pc'[t] = l /\ Only(t) BY <2>1, <2>2, <1>f DEF turnVars, Shape
  <2> QED BY <2>1, <2>3 DEF turnVars, TurnInv, AskedInv, HeardInv, Model, Last, Asking
<1>7. CASE Choose(t)
  <2>1. pc'[t] = "pick" /\ Only(t) BY <1>7, <1>f DEF Choose, Shape
  <2> QED BY <1>7, <2>1 DEF Choose, Turn, TurnInv, AskedInv, HeardInv, Model, Last, Asking
<1>8. CASE Ask(t) \/ StreamEnds(t)
  <2>1. /\ UNCHANGED <<tried, attempted, emitted, heard, loaded>>
        /\ pc[t] \in {"ask", "stream"}
        /\ \/ pc'[t] = "stream" /\ outcome' = outcome /\ Goto(t, "stream")
           \/ /\ pc'[t] = "record" /\ Goto(t, "record")
              /\ \E o \in Errors \cup (IF pc[t] = "stream" /\ emitted[t] THEN {"ok"} ELSE {}) :
                     outcome' = [outcome EXCEPT ![t] = o]
    <3>1. CASE Ask(t)
      <4>1. CASE Goto(t, "stream") /\ UNCHANGED outcome BY <3>1, <4>1 DEF Ask, Turn, Goto
      <4>2. ASSUME NEW e \in Errors, outcome' = [outcome EXCEPT ![t] = e], Goto(t, "record")
            PROVE  pc'[t] = "record" /\ \E o \in Errors : outcome' = [outcome EXCEPT ![t] = o]
        BY <4>2 DEF Goto
      <4> QED BY <3>1, <4>1, <4>2 DEF Ask, Turn, Errors
    <3>2. CASE StreamEnds(t) BY <3>2 DEF StreamEnds, Turn, Goto
    <3> QED BY <1>8, <3>1, <3>2
  <2>2. DOMAIN pc' = Actors /\ \A u \in Turns \ {t} : pc'[u] = pc[u] BY <2>1, Kinds DEF Goto
  <2>3. Only(t) BY <2>1, <2>2 DEF Only, Same, Shape
  <2>4. AskedInv(t)' BY <2>1 DEF AskedInv, Asking
  <2>5. outcome'[t] = "ok" => emitted[t] \/ pc'[t] = "stream"
    BY <2>1 DEF Errors, Shape
  <2>6. HeardInv(t)' BY <2>1, <2>5 DEF HeardInv, Model, Last
  <2> QED BY <2>3, <2>4, <2>6 DEF TurnInv
<1>9. CASE Forward(t)
  <2>1. /\ pc[t] = "stream" /\ emitted' = [emitted EXCEPT ![t] = TRUE]
        /\ heard' = [heard EXCEPT ![t] = @ \cup {Model(t)}] /\ UNCHANGED <<tried, attempted, outcome, pc, loaded>>
    BY <1>9 DEF Forward, Turn
  <2>2. Only(t) BY <2>1 DEF Only, Same, Shape
  <2>3. emitted'[t] = TRUE /\ heard'[t] = heard[t] \cup {Model(t)} BY <2>1 DEF Shape
  <2>4. heard'[t] = {Model(t)'} BY <2>1, <2>3 DEF HeardInv, Model, Last
  <2>5. AskedInv(t)' BY <2>1 DEF AskedInv
  <2>6. HeardInv(t)' BY <2>1, <2>3, <2>4 DEF HeardInv
  <2> QED BY <2>2, <2>5, <2>6 DEF TurnInv
<1>10. CASE RecordRead(t)
  <2>1. pc'[t] = "save" /\ Only(t)
    BY <1>10, <1>f DEF RecordRead, turnVars, Shape
  <2> QED BY <1>10, <2>1 DEF RecordRead, turnVars, Turn, TurnInv, AskedInv, HeardInv, Model, Last, Asking
<1>11. CASE RecordWrite(t)
  <2>1. CASE MayRetry(t)
    <3>1. /\ pc[t] = "save" /\ ~emitted[t] /\ UNCHANGED <<attempted, tried, emitted, heard, outcome>>
          /\ loaded' = [loaded EXCEPT ![t] = TRUE] /\ Goto(t, IF loaded[t] THEN "pick" ELSE "lookup")
      BY <1>11, <2>1 DEF RecordWrite, Turn, MayRetry
    <3>2. pc'[t] \in {"pick", "lookup"} /\ Only(t)
      BY <3>1, <1>f DEF Shape
    <3> QED BY <3>1, <3>2 DEF TurnInv, AskedInv, HeardInv, Model, Last, Asking
  <2>2. CASE ~MayRetry(t)
    <3>1. Return(t) /\ outcome' = outcome BY <1>11, <2>2 DEF RecordWrite
    <3> QED BY <3>1, Returned, ReturnOnly
  <2> QED BY <2>1, <2>2
<1> QED BY <1>1, <1>2, <1>3, <1>4, <1>5, <1>6, <1>7, <1>8, <1>9, <1>10, <1>11 DEF TurnStep

(* Steps that are not a turn's touch no turn.                              *)
LEMMA OtherSteps ==
    ASSUME Shape, \/ \E c \in Chats : Chat(c) \/ ChatStep(c)
                  \/ AdminStep \/ Outside
    PROVE  Shape' /\ \A u \in Turns : Same(u)
<1>1. UNCHANGED turnVars /\ (pc' = pc \/ \E a \in Chats \cup {Admin}, l \in {"idle", "lookup", "fetch", "store", "choose", "done", "save", "drop"} : Goto(a, l))
  <2>1. ASSUME NEW c \in Chats, Chat(c) \/ Lookup(c) PROVE <1>1!:
    BY <2>1 DEF Chat, Lookup, CacheHit, CacheMiss, Fetched, Store
  <2>2. ASSUME NEW c \in Chats, Send(c) \/ Finish(c) PROVE <1>1!:
    BY <2>2 DEF Send, Finish
  <2>3. CASE AdminRead \/ AdminWrite \/ DropCache
    BY <2>3 DEF AdminRead, AdminWrite, Lift, DropCache
  <2>4. CASE ResetHistory \/ SetKey \/ Outside
    BY <2>4 DEF ResetHistory, SetKey, Outside, CacheTooOld, CooledDown
  <2> QED BY <2>1, <2>2, <2>3, <2>4 DEF ChatStep, AdminStep
<1>2. DOMAIN pc' = Actors /\ \A u \in Turns : pc'[u] = pc[u]
  BY <1>1, Kinds DEF Goto, Shape
<1> QED BY <1>1, <1>2 DEF turnVars, Same, Shape

LEMMA InitInv == Init => IInv
<1> SUFFICES ASSUME Init PROVE IInv OBVIOUS
<1>1. Shape BY DEF Init, Shape
<1>2. ASSUME NEW t \in Turns PROVE TurnInv(t)
  <2>1. pc[t] = "idle" /\ tried[t] = <<>> /\ attempted[t] = {} /\ heard[t] = {} /\ emitted[t] = FALSE
    BY Kinds DEF Init
  <2>2. tried[t] \in Seq(attempted[t]) /\ Len(tried[t]) = 0 BY <2>1, EmptySeq
  <2>3. AskedInv(t) BY <2>1, <2>2, Kinds DEF AskedInv, Asking
  <2>4. HeardInv(t) BY <2>1 DEF HeardInv
  <2> QED BY <2>3, <2>4 DEF TurnInv
<1> QED BY <1>1, <1>2 DEF IInv

LEMMA NextInv == IInv /\ [Next]_vars => IInv'
<1> SUFFICES ASSUME IInv, [Next]_vars PROVE IInv' OBVIOUS
<1>1. ASSUME NEW t \in Turns, Begin(t) \/ TurnStep(t) PROVE IInv'
  <2>1. TurnInv(t)' /\ Only(t) BY <1>1, TurnSteps
  <2>2. ASSUME NEW u \in Turns \ {t} PROVE TurnInv(u)'
    BY <2>1, Untouched DEF Only, Same, IInv
  <2> QED BY <2>1, <2>2 DEF Only, IInv
<1>2. CASE (\E c \in Chats : Chat(c) \/ ChatStep(c)) \/ AdminStep \/ Outside
  <2>1. Shape' /\ \A u \in Turns : Same(u) BY <1>2, OtherSteps DEF IInv
  <2> QED BY <2>1, Untouched DEF Same, IInv
<1>3. CASE UNCHANGED vars
  <2>1. Shape' /\ \A u \in Turns : Same(u)
    BY <1>3 DEF vars, turnVars, IInv, Shape, Same
  <2> QED BY <2>1, Untouched DEF Same, IInv
<1> QED BY <1>1, <1>2, <1>3 DEF Next

(* What a client has heard and whom a turn has asked are consistent with   *)
(* where the retry loop is, whatever chats and administrators do meanwhile.*)
THEOREM Retrying == Spec => []IInv
BY InitInv, NextInv, PTL DEF Spec

(* No model is asked twice in a turn, no more models than configured are,  *)
(* and nothing is retried after text was passed on.                        *)
THEOREM RetryingIsSafe == Spec => []RetriesAreSafe
<1>1. ASSUME IInv PROVE RetriesAreSafe
  <2>1. ASSUME NEW t \in Turns
        PROVE  IsInjective(tried[t]) /\ Len(tried[t]) <= MaxAttempts /\ MaxAttempts <= 5
    <3>1. AskedInv(t) BY <1>1 DEF IInv, TurnInv
    <3>2. DOMAIN tried[t] = 1..Len(tried[t]) BY <3>1, LenProperties DEF AskedInv
    <3> QED BY <3>1, <3>2, Kinds DEF AskedInv, IsInjective
  <2>2. ASSUME NEW t \in Turns
        PROVE  /\ Cardinality(heard[t]) <= 1
               /\ pc[t] \in {"record", "save"} /\ outcome[t] = "ok" => heard[t] = {Model(t)}
    <3>1. HeardInv(t) BY <1>1 DEF IInv, TurnInv
    <3>2. Cardinality(heard[t]) <= 1
      <4>1. CASE emitted[t]
        <5>1. heard[t] = {Model(t)} BY <3>1, <4>1 DEF HeardInv
        <5>2. Cardinality({Model(t)}) = 1 BY FS_Singleton
        <5> QED BY <5>1, <5>2
      <4>2. CASE ~emitted[t]
        <5>1. heard[t] = {} BY <3>1, <4>2 DEF HeardInv
        <5> QED BY <5>1, FS_EmptySet
      <4> QED BY <4>1, <4>2
    <3> QED BY <3>1, <3>2 DEF HeardInv
  <2> QED BY <2>1, <2>2 DEF RetriesAreSafe, EachModelOnce, OneVoice
<1> QED BY Retrying, <1>1, PTL

-----------------------------------------------------------------------------
(***************************************************************************)
(* The health file.  A change is computed from a copy read under           *)
(* openRouterVoiceHealthMu and written under it: while it is held the copy *)
(* is the file, or empty if that could not be read, so that no record      *)
(* written in between can be lost.                                         *)
(***************************************************************************)
FileInv ==
    /\ DOMAIN pc = Actors
    /\ health \in [Models -> Record] /\ store \in [Writers -> [Models -> Record]]
    /\ \A w \in Writers : pc[w] = "save" => healthMu = w /\ store[w] \in Loads

(* Counts do not decrease from h to g, and no blacklist is lifted.         *)
Grows(h, g) ==
    \A m \in Models : /\ g[m].ok >= h[m].ok /\ g[m].fail >= h[m].fail
                      /\ h[m].black => g[m].black

LEMMA GrowsItself ==
    ASSUME NEW h \in [Models -> Record] PROVE Grows(h, h)
BY DEF Grows, Record

LEMMA SuccessGrows ==
    ASSUME NEW h \in [Models -> Record], NEW m
    PROVE  Success(h, m) \in [Models -> Record] /\ Grows(h, Success(h, m))
<1>1. CASE m \in Models
  <2>1. h[m] \in Record BY <1>1
  <2> DEFINE r == [h[m] EXCEPT !.ok = @ + 1, !.cool = FALSE]
  <2>2. r \in Record /\ r.ok = h[m].ok + 1 /\ r.fail = h[m].fail /\ r.black = h[m].black
    <3> h[m].ok + 1 \in Nat /\ DOMAIN h[m] = {"ok", "fail", "black", "cool"} BY <2>1 DEF Record
    <3>1. r.ok = h[m].ok + 1 OBVIOUS
    <3>2. r.fail = h[m].fail OBVIOUS
    <3>3. r.black = h[m].black OBVIOUS
    <3>4. r \in Record BY <2>1 DEF Record
    <3> QED BY <3>1, <3>2, <3>3, <3>4
  <2>3. Success(h, m) = [h EXCEPT ![m] = r]
    BY <2>1 DEF Success, Record
  <2> HIDE DEF r
  <2>4. \A x \in Models : Success(h, m)[x] = IF x = m THEN r ELSE h[x] BY <2>3
  <2>5. Success(h, m) \in [Models -> Record] BY <2>2, <2>3
  <2>6. h[m].ok + 1 >= h[m].ok BY <2>1 DEF Record
  <2> QED BY <2>2, <2>4, <2>5, <2>6, GrowsItself DEF Grows
<1>2. CASE m \notin Models
  <2>1. Success(h, m) = h BY <1>2 DEF Success
  <2> QED BY <2>1, GrowsItself
<1> QED BY <1>1, <1>2

LEMMA FailureGrows ==
    ASSUME NEW h \in [Models -> Record], NEW m, NEW e
    PROVE  Failure(h, m, e) \in [Models -> Record] /\ Grows(h, Failure(h, m, e))
<1>1. CASE m \in Models
  <2>1. h[m] \in Record BY <1>1
  <2>2. PICK b \in BOOLEAN : b = (h[m].black \/ e = "policy") OBVIOUS
  <2>3. PICK c \in BOOLEAN : c = (e # "policy" /\ (h[m].cool \/ e = "busy")) OBVIOUS
  <2> DEFINE r == [ok |-> h[m].ok, fail |-> h[m].fail + 1, black |-> b, cool |-> c]
  <2>4. r \in Record /\ r.ok = h[m].ok /\ r.fail = h[m].fail + 1 /\ r.black = b
    BY <2>1 DEF Record
  <2>5. Failure(h, m, e) = [h EXCEPT ![m] = r]
    BY <2>2, <2>3 DEF Failure
  <2> HIDE DEF r
  <2>6. \A x \in Models : Failure(h, m, e)[x] = IF x = m THEN r ELSE h[x] BY <2>5
  <2>7. Failure(h, m, e) \in [Models -> Record] BY <2>4, <2>5
  <2>8. h[m].fail + 1 >= h[m].fail /\ h[m].ok >= h[m].ok BY <2>1 DEF Record
  <2>9. h[m].black => r.black BY <2>2, <2>4
  <2> QED BY <2>4, <2>6, <2>7, <2>8, <2>9, GrowsItself DEF Grows
<1>2. CASE m \notin Models
  <2>1. Failure(h, m, e) = h BY <1>2 DEF Failure
  <2> QED BY <2>1, GrowsItself
<1> QED BY <1>1, <1>2

(* Clearing keeps the counts.                                              *)
LEMMA LiftedKeeps ==
    ASSUME NEW h \in [Models -> Record], NEW S
    PROVE  /\ Lifted(h, S) \in [Models -> Record]
           /\ \A m \in Models : Lifted(h, S)[m].ok = h[m].ok /\ Lifted(h, S)[m].fail = h[m].fail
<1>1. ASSUME NEW m \in Models
      PROVE  /\ Lifted(h, S)[m] \in Record
             /\ Lifted(h, S)[m].ok = h[m].ok /\ Lifted(h, S)[m].fail = h[m].fail
  BY DEF Lifted, Record
<1> QED BY <1>1 DEF Lifted

(* What a step may do to the file, and to the copies of it.                *)
Kept ==
    \/ health' = NoHealth \/ ReadFailed
    \/ \A m \in Models :
           /\ health'[m].ok >= health[m].ok /\ health'[m].fail >= health[m].fail
           /\ health[m].black /\ ~health'[m].black => pc[Admin] = "save" /\ pc'[Admin] # "save"

LEMMA GrowsIsKept ==
    ASSUME Grows(health, health') PROVE Kept
BY DEF Grows, Kept

(* A step that leaves the file alone and brings nobody to its save.        *)
LEMMA FileUntouched ==
    ASSUME FileInv, UNCHANGED <<health, healthMu, store>>, DOMAIN pc' = Actors,
           \A w \in Writers : pc'[w] = "save" => pc[w] = "save"
    PROVE  FileInv' /\ Kept
<1>1. Loads' = Loads BY DEF Loads
<1>2. FileInv' BY <1>1 DEF FileInv
<1>3. Grows(health, health') BY GrowsItself DEF FileInv
<1> QED BY <1>2, <1>3, GrowsIsKept

LEMMA Reading ==
    ASSUME FileInv, NEW w \in Writers, ReadHealth(w), Goto(w, "save")
    PROVE  FileInv' /\ Kept
<1>1. \A v \in Writers : pc[v] # "save" BY Kinds DEF FileInv, ReadHealth
<1>2. PICK h \in Loads : health' = health /\ healthMu' = w /\ store' = [store EXCEPT ![w] = h]
  BY DEF ReadHealth
<1>h. NoHealth \in [Models -> Record] BY DEF NoHealth, Unknown, Record
<1>3. store' \in [Writers -> [Models -> Record]] /\ store'[w] \in Loads'
  BY <1>2, <1>h DEF FileInv, Loads
<1>4. DOMAIN pc' = Actors /\ \A v \in Writers : pc'[v] = "save" => v = w
  BY <1>1 DEF Goto, FileInv
<1>5. FileInv' BY <1>2, <1>3, <1>4 DEF FileInv
<1> QED BY <1>2, <1>5, GrowsItself, GrowsIsKept DEF FileInv

LEMMA Writing ==
    ASSUME FileInv, NEW w \in Writers, pc[w] = "save", NEW new \in [Models -> Record], WriteHealth(w, new),
           NEW l, l # "save", Goto(w, l)
    PROVE  FileInv' /\ (health' = health \/ health' = new)
<1>1. \A v \in Writers \ {w} : pc[v] # "save" BY DEF FileInv
<1>2. health' \in {new, health} /\ store' = [store EXCEPT ![w] = NoHealth]
  BY DEF WriteHealth
<1>3. NoHealth \in [Models -> Record] BY DEF NoHealth, Unknown, Record
<1>4. DOMAIN pc' = Actors /\ \A v \in Writers : pc'[v] # "save"
  BY <1>1, Kinds DEF Goto, FileInv, Actors
<1> QED BY <1>2, <1>3, <1>4 DEF FileInv

LEMMA FileSteps ==
    ASSUME FileInv, [Next]_vars PROVE FileInv' /\ Kept
<1> DEFINE Goal == FileInv' /\ Kept
<1> Turns \subseteq Writers /\ Admin \in Writers /\ Writers \subseteq Actors /\ Chats \cap Writers = {}
  BY Kinds, OpenRouterAssumption DEF Writers, Actors
<1> health \in [Models -> Record] /\ store \in [Writers -> [Models -> Record]] /\ DOMAIN pc = Actors
  BY DEF FileInv
<1>1. ASSUME NEW a \in Actors, NEW l, l # "save", pc' = pc \/ Goto(a, l), UNCHANGED <<health, healthMu, store>>
      PROVE  Goal
  BY <1>1, FileUntouched DEF Goto
<1>2. ASSUME NEW t \in Turns, Begin(t) PROVE Goal
  <2>1. UNCHANGED <<health, healthMu, store>> /\ Goto(t, "pick") /\ t \in Actors BY <1>2 DEF Begin
  <2> QED BY <1>1, <2>1
<1>3. ASSUME NEW t \in Turns, GiveUp(t) \/ LookupFails(t) \/ Abandon(t) PROVE Goal
  BY <1>1, <1>3 DEF GiveUp, LookupFails, Give, Abandon, Return, fileVars
<1>4. ASSUME NEW t \in Turns, NeedFallbacks(t) \/ Pick(t) PROVE Goal
  <2>1. CASE NeedFallbacks(t) BY <1>1, <2>1 DEF NeedFallbacks, fileVars
  <2>2. CASE Pick(t)
    <3>1. UNCHANGED <<health, healthMu, store>> /\ (pc' = pc \/ Goto(t, "ask"))
      <4>1. CASE PassOver(t) BY <2>2, <4>1 DEF Pick, fileVars
      <4>2. CASE ~PassOver(t) BY <2>2, <4>2 DEF Pick, fileVars
      <4> QED BY <4>1, <4>2
    <3>2. "ask" # "save" OBVIOUS
    <3> QED BY <1>1, <3>1, <3>2
  <2> QED BY <1>4, <2>1, <2>2
<1>5. ASSUME NEW a \in Actors, Lookup(a) PROVE Goal
  <2>1. /\ UNCHANGED <<health, healthMu, store>>
        /\ Goto(a, "choose") \/ Goto(a, "fetch") \/ Goto(a, "store")
    BY <1>5 DEF Lookup, CacheHit, CacheMiss, Fetched, Store, fileVars
  <2> QED BY <1>1, <2>1
<1>6. ASSUME NEW t \in Turns, Choose(t) \/ Ask(t) \/ Forward(t) \/ StreamEnds(t) PROVE Goal
  <2>1. /\ UNCHANGED <<health, healthMu, store>>
        /\ pc' = pc \/ Goto(t, "pick") \/ Goto(t, "stream") \/ Goto(t, "record")
    BY <1>6 DEF Choose, Ask, Forward, StreamEnds, fileVars
  <2>2. "pick" # "save" /\ "stream" # "save" /\ "record" # "save" OBVIOUS
  <2> QED BY <1>1, <2>1, <2>2
<1>7. ASSUME NEW t \in Turns, RecordRead(t) PROVE Goal
  BY <1>7, Reading DEF RecordRead
<1>8. ASSUME NEW t \in Turns, RecordWrite(t) PROVE Goal
  <2>1. pc[t] = "save" /\ healthMu = t /\ t # Nobody /\ store[t] \in Loads
    BY <1>8, Kinds DEF RecordWrite, Turn, FileInv
  <2>2. PICK l : l # "save" /\ Goto(t, l)
    <3>1. CASE MayRetry(t)
      <4>1. Goto(t, "pick") \/ Goto(t, "lookup") BY <1>8, <3>1 DEF RecordWrite
      <4> QED BY <4>1
    <3>2. CASE ~MayRetry(t) BY <1>8, <3>2 DEF RecordWrite, Return
    <3> QED BY <3>1, <3>2
  <2>3. PICK g \in [Models -> Record] : WriteHealth(t, g) /\ Grows(store[t], g)
    <3>0. store[t] \in [Models -> Record] OBVIOUS
    <3>1. CASE outcome[t] = "ok"
      <4>1. WriteHealth(t, Success(store[t], Model(t))) BY <1>8, <3>1 DEF RecordWrite
      <4> QED BY <3>0, <4>1, SuccessGrows
    <3>2. CASE outcome[t] # "ok"
      <4>1. WriteHealth(t, Failure(store[t], Model(t), outcome[t])) BY <1>8, <3>2 DEF RecordWrite
      <4> QED BY <3>0, <4>1, FailureGrows
    <3> QED BY <3>1, <3>2
  <2>4. FileInv' /\ (health' = health \/ health' = g) BY <2>1, <2>2, <2>3, Writing
  <2>5. CASE store[t] = NoHealth BY <2>1, <2>4, <2>5 DEF Kept, ReadFailed
  <2>6. CASE store[t] = health
    <3>1. Grows(health, health') BY <2>3, <2>4, <2>6, GrowsItself
    <3> QED BY <2>4, <3>1, GrowsIsKept
  <2> QED BY <2>1, <2>5, <2>6 DEF Loads
<1>9. ASSUME NEW c \in Chats, Chat(c) \/ Send(c) \/ Finish(c) PROVE Goal
  <2>1. /\ UNCHANGED <<health, healthMu, store>> /\ c \in Actors
        /\ Goto(c, "done") \/ Goto(c, "lookup") \/ Goto(c, "idle")
    BY <1>9, Kinds DEF Chat, Send, Finish, fileVars
  <2> QED BY <1>1, <2>1
<1>10. CASE AdminRead
  BY <1>10, Reading, Zenon DEF AdminRead
<1>11. CASE AdminWrite
  <2>1. pc[Admin] = "save" /\ healthMu = Admin /\ Admin # Nobody /\ store[Admin] \in Loads
    BY <1>11, Kinds DEF AdminWrite, FileInv
  <2>2. PICK S : \E l \in {"drop", "idle"} : Lift(S, l) BY <1>11 DEF AdminWrite
  <2>l. PICK l \in {"drop", "idle"} : Lift(S, l) BY <2>2
  <2> DEFINE new == Lifted(store[Admin], S)
  <2>3. WriteHealth(Admin, new) /\ Goto(Admin, l) BY <2>l DEF Lift
  <2>4. /\ new \in [Models -> Record]
        /\ \A m \in Models : new[m].ok = store[Admin][m].ok /\ new[m].fail = store[Admin][m].fail
    BY LiftedKeeps
  <2> HIDE DEF new
  <2>5. FileInv' /\ (health' = health \/ health' = new) BY <2>1, <2>l, <2>3, <2>4, Writing
  <2>6. pc'[Admin] # "save" BY <2>3 DEF Goto
  <2>7. CASE store[Admin] = NoHealth BY <2>1, <2>5, <2>7 DEF Kept, ReadFailed
  <2>8. CASE store[Admin] = health
    <3>1. \A m \in Models : health'[m].ok >= health[m].ok /\ health'[m].fail >= health[m].fail
      BY <2>4, <2>5, <2>8 DEF Record
    <3> QED BY <2>1, <2>5, <2>6, <3>1 DEF Kept
  <2> QED BY <2>1, <2>7, <2>8 DEF Loads
<1>12. CASE DropCache \/ SetKey \/ CacheTooOld
  <2>1. UNCHANGED <<health, healthMu, store>> /\ (pc' = pc \/ Goto(Admin, "idle"))
    BY <1>12 DEF DropCache, SetKey, CacheTooOld, fileVars
  <2> QED BY <1>1, <2>1
<1>13. CASE ResetHistory
  <2>1. /\ healthMu = Nobody /\ health' \in {NoHealth, health} /\ pc' = pc
        /\ store' = [store EXCEPT ![Admin] = NoHealth]
    BY <1>13 DEF ResetHistory, Snapshot, WriteHealth
  <2>2. NoHealth \in [Models -> Record] BY DEF NoHealth, Unknown, Record
  <2>3. \A w \in Writers : pc'[w] # "save" BY <2>1, Kinds DEF FileInv
  <2>4. FileInv' BY <2>1, <2>2, <2>3 DEF FileInv
  <2> QED BY <2>1, <2>4, GrowsItself, GrowsIsKept DEF Kept
<1>14. CASE CooledDown
  <2>1. healthMu = Nobody /\ UNCHANGED <<healthMu, store, pc>> BY <1>14 DEF CooledDown, Snapshot
  <2>2. PICK m \in Models : health' = [health EXCEPT ![m].cool = FALSE] BY <1>14 DEF CooledDown
  <2>3. \A x \in Models : /\ health'[x] \in Record /\ health'[x].ok = health[x].ok
                          /\ health'[x].fail = health[x].fail /\ health'[x].black = health[x].black
    BY <2>2 DEF Record
  <2>4. health' \in [Models -> Record] BY <2>2, <2>3
  <2>5. Grows(health, health') BY <2>3 DEF Grows, Record
  <2>6. \A w \in Writers : pc'[w] # "save" BY <2>1, Kinds DEF FileInv
  <2>7. FileInv' BY <2>1, <2>4, <2>6 DEF FileInv
  <2> QED BY <2>5, <2>7, GrowsIsKept
<1>15. CASE UNCHANGED vars
  BY <1>15, FileUntouched DEF vars, fileVars
<1> QED BY <1>2, <1>3, <1>4, <1>5, <1>6, <1>7, <1>8, <1>9, <1>10, <1>11, <1>12, <1>13, <1>14, <1>15, Kinds
        DEF Next, TurnStep, ChatStep, AdminStep, Outside

LEMMA InitFile == Init => FileInv
<1> SUFFICES ASSUME Init PROVE FileInv OBVIOUS
<1>1. NoHealth \in [Models -> Record] BY DEF NoHealth, Unknown, Record
<1>2. DOMAIN pc = Actors /\ \A w \in Writers : pc[w] # "save" BY DEF Init, Actors
<1>3. health \in [Models -> Record] /\ store \in [Writers -> [Models -> Record]]
  BY <1>1, OpenRouterAssumption DEF Init
<1> QED BY <1>2, <1>3 DEF FileInv

(* What one stream records about a model is not undone by another stream's *)
(* record, nor by an administrator who clears a blacklist meanwhile, unless*)
(* the file could not be read by who wrote it.                             *)
THEOREM HistoryIsNotLost == Spec => HistoryIsKept
<1>1. FileInv /\ [Next]_vars => FileInv' BY FileSteps
<1>2. FileInv /\ [Next]_vars => [Kept]_vars BY FileSteps
<1>3. Spec => [][Kept]_vars BY InitFile, <1>1, <1>2, PTL DEF Spec
<1> QED BY <1>3 DEF HistoryIsKept, Kept

-----------------------------------------------------------------------------
(***************************************************************************)
(* The chain of a chat request.  Extend is a recursion along the wanted    *)
(* models; what it makes of one model more is all that is needed of it.    *)
(***************************************************************************)
Stays(s, m, unfit) == Len(s) >= MaxAttempts \/ m \in ToSet(s) \cup unfit

ExtendStep(want, unfit) ==
    [p \in (1..Len(want)) \X Seq(Models) |->
        IF Stays(p[2], want[p[1]], unfit) THEN p[2] ELSE Append(p[2], want[p[1]])]

LEMMA ExtendStepType ==
    ASSUME NEW want \in Seq(Models), NEW unfit
    PROVE  ExtendStep(want, unfit) \in [(1..Len(want)) \X Seq(Models) -> Seq(Models)]
<1>1. ASSUME NEW p \in (1..Len(want)) \X Seq(Models)
      PROVE  (IF Stays(p[2], want[p[1]], unfit) THEN p[2] ELSE Append(p[2], want[p[1]])) \in Seq(Models)
  <2>1. want[p[1]] \in Models /\ p[2] \in Seq(Models) BY ElementOfSeq
  <2> QED BY <2>1, AppendProperties
<1> QED BY <1>1 DEF ExtendStep

LEMMA ExtendIs ==
    ASSUME NEW list \in Seq(Models), NEW want \in Seq(Models), NEW unfit
    PROVE  \E f \in [0..Len(want) -> Seq(Models)] :
              /\ Solves(f, Len(want), list, ExtendStep(want, unfit))
              /\ Extend(list, want, unfit) = f[Len(want)]
<1> DEFINE N == Len(want)
           G == ExtendStep(want, unfit)
           body(f) == [n \in 0..N |-> IF n = 0 THEN list
                          ELSE IF Stays(f[n - 1], want[n], unfit) THEN f[n - 1] ELSE Append(f[n - 1], want[n])]
           k == CHOOSE f : f = body(f)
<1>1. N \in Nat BY LenProperties
<1>2. PICK f \in [0..N -> Seq(Models)] : Solves(f, N, list, G)
  <2>1. G \in [(1..N) \X Seq(Models) -> Seq(Models)] BY ExtendStepType
  <2> HIDE DEF G
  <2> QED BY <1>1, <2>1, Recursion
<1>3. f = body(f)
  <2>1. ASSUME NEW n \in 0..N PROVE f[n] = body(f)[n]
    <3>1. CASE n = 0 BY <1>2, <3>1 DEF Solves
    <3>2. CASE n # 0
      <4>1. n \in 1..N /\ n - 1 \in 0..N BY <1>1, <3>2
      <4>2. f[n] = G[<<n, f[n - 1]>>] BY <1>2, <4>1 DEF Solves
      <4>3. f[n - 1] \in Seq(Models) BY <4>1
      <4>4. <<n, f[n - 1]>> \in (1..N) \X Seq(Models) BY <4>1, <4>3
      <4>5. G[<<n, f[n - 1]>>] = IF Stays(f[n - 1], want[n], unfit) THEN f[n - 1] ELSE Append(f[n - 1], want[n])
        BY <4>4 DEF ExtendStep
      <4> QED BY <3>2, <4>2, <4>5
    <3> QED BY <3>1, <3>2
  <2>2. DOMAIN f = 0..N /\ f = [n \in 0..N |-> f[n]] OBVIOUS
  <2> QED BY <2>1, <2>2
<1>4. k = body(k) BY <1>3
<1>5. Extend(list, want, unfit) = k[N] BY DEF Extend, Stays
<1> HIDE DEF k
<1> DEFINE T == {n \in Nat : n <= N => k[n] = f[n]}
<1>6. 0 \in T
  <2>1. k[0] = list BY <1>1, <1>4
  <2> QED BY <1>2, <2>1 DEF Solves
<1>7. ASSUME NEW n \in Nat, n \in T PROVE n + 1 \in T
  <2> SUFFICES ASSUME n + 1 <= N PROVE k[n + 1] = f[n + 1] OBVIOUS
  <2>1. n + 1 \in 0..N /\ n + 1 # 0 /\ (n + 1) - 1 = n BY <1>1
  <2>2. k[n + 1] = IF Stays(k[n], want[n + 1], unfit) THEN k[n] ELSE Append(k[n], want[n + 1])
    BY <1>4, <2>1
  <2>3. f[n + 1] = IF Stays(f[n], want[n + 1], unfit) THEN f[n] ELSE Append(f[n], want[n + 1])
    BY <1>3, <2>1
  <2>4. k[n] = f[n] BY <1>1, <1>7
  <2> QED BY <2>2, <2>3, <2>4
<1> HIDE DEF T
<1>8. Nat \subseteq T BY <1>6, <1>7, NatInduct
<1>9. k[N] = f[N] BY <1>1, <1>8 DEF T
<1> QED BY <1>2, <1>5, <1>9

LEMMA ExtendType ==
    ASSUME NEW list \in Seq(Models), NEW want \in Seq(Models), NEW unfit
    PROVE  Extend(list, want, unfit) \in Seq(Models)
<1>1. PICK f \in [0..Len(want) -> Seq(Models)] : Extend(list, want, unfit) = f[Len(want)] BY ExtendIs
<1>2. Len(want) \in 0..Len(want) BY LenProperties
<1> QED BY <1>1, <1>2

LEMMA ExtendEmpty ==
    ASSUME NEW list \in Seq(Models), NEW unfit PROVE Extend(list, <<>>, unfit) = list
<1>1. <<>> \in Seq(Models) /\ Len(<<>>) = 0 BY EmptySeq
<1>2. PICK f \in [0..0 -> Seq(Models)] :
        Solves(f, 0, list, ExtendStep(<<>>, unfit)) /\ Extend(list, <<>>, unfit) = f[0]
  <2>1. \A w \in Seq(Models) : \E f \in [0..Len(w) -> Seq(Models)] :
          Solves(f, Len(w), list, ExtendStep(w, unfit)) /\ Extend(list, w, unfit) = f[Len(w)]
    BY ExtendIs
  <2> QED BY <1>1, <2>1
<1> QED BY <1>2 DEF Solves

LEMMA ExtendAppend ==
    ASSUME NEW list \in Seq(Models), NEW want \in Seq(Models), NEW m \in Models, NEW unfit
    PROVE  LET e == Extend(list, want, unfit)
           IN  Extend(list, Append(want, m), unfit) = IF Stays(e, m, unfit) THEN e ELSE Append(e, m)
<1> DEFINE r == Append(want, m)
           N == Len(want)
           G == ExtendStep(want, unfit)
           H == ExtendStep(r, unfit)
<1>1. /\ N \in Nat /\ r \in Seq(Models) /\ Len(r) = N + 1 /\ r[N + 1] = m
      /\ \A i \in 1..N : r[i] = want[i]
  BY LenProperties, AppendProperties
<1>2. PICK f \in [0..N -> Seq(Models)] : Solves(f, N, list, G) /\ Extend(list, want, unfit) = f[N]
  BY ExtendIs
<1>3. PICK g \in [0..(N + 1) -> Seq(Models)] :
        Solves(g, N + 1, list, H) /\ Extend(list, r, unfit) = g[N + 1]
  <2>1. \A w \in Seq(Models) : \E g \in [0..Len(w) -> Seq(Models)] :
          Solves(g, Len(w), list, ExtendStep(w, unfit)) /\ Extend(list, w, unfit) = g[Len(w)]
    BY ExtendIs
  <2> QED BY <1>1, <2>1
<1>4. \A n \in 1..(N + 1), s \in Seq(Models) :
         H[<<n, s>>] = IF Stays(s, r[n], unfit) THEN s ELSE Append(s, r[n])
  BY <1>1 DEF ExtendStep
<1>5. \A n \in 1..N, s \in Seq(Models) :
         G[<<n, s>>] = IF Stays(s, want[n], unfit) THEN s ELSE Append(s, want[n])
  BY DEF ExtendStep
<1> HIDE DEF G, H, r
<1>6. ASSUME NEW n \in 1..N PROVE g[n] = G[<<n, g[n - 1]>>]
  <2>1. n \in 1..(N + 1) /\ n - 1 \in 0..(N + 1) BY <1>1
  <2>2. g[n - 1] \in Seq(Models) /\ g[n] = H[<<n, g[n - 1]>>] BY <1>3, <2>1 DEF Solves
  <2>3. r[n] = want[n] BY <1>1
  <2>4. H[<<n, g[n - 1]>>] = IF Stays(g[n - 1], want[n], unfit) THEN g[n - 1] ELSE Append(g[n - 1], want[n])
    BY <1>4, <2>1, <2>2, <2>3
  <2>5. G[<<n, g[n - 1]>>] = IF Stays(g[n - 1], want[n], unfit) THEN g[n - 1] ELSE Append(g[n - 1], want[n])
    BY <1>5, <2>2
  <2> QED BY <2>2, <2>4, <2>5
<1>7. Solves(g, N, list, G) BY <1>3, <1>6 DEF Solves
<1>8. g[N] = f[N] BY <1>1, <1>2, <1>7, OneSolution
<1>9. g[N + 1] = IF Stays(g[N], m, unfit) THEN g[N] ELSE Append(g[N], m)
  <2>1. N + 1 \in 1..(N + 1) /\ (N + 1) - 1 = N /\ g[N] \in Seq(Models) BY <1>1
  <2>2. g[N + 1] = H[<<N + 1, g[N]>>] BY <1>3, <2>1 DEF Solves
  <2> QED BY <1>1, <1>4, <2>1, <2>2
<1> QED BY <1>2, <1>3, <1>8, <1>9 DEF r

(***************************************************************************)
(* What Extend makes of a list: it is continued by some of the wanted      *)
(* models in their order, all different; all that fit, if there is room.   *)
(***************************************************************************)
Distinct(s) == \A i, j \in 1..Len(s) : s[i] = s[j] => i = j
Ordered(s, q) ==
    \A i, j \in 1..Len(s) : i < j => \E a, b \in 1..Len(q) : a < b /\ q[a] = s[i] /\ q[b] = s[j]
Among(s, q) == \A i \in 1..Len(s) : \E j \in 1..Len(q) : q[j] = s[i]

Continues(e, list, a, want, unfit) ==
    /\ e = list \o a /\ Distinct(e) /\ Len(e) <= MaxAttempts
    /\ Ordered(a, want) /\ Among(a, want)
    /\ \A i \in 1..Len(a) : a[i] \notin unfit
    /\ Len(e) < MaxAttempts => \A i \in 1..Len(want) : want[i] \in unfit \/ \E j \in 1..Len(e) : e[j] = want[i]

(* By induction over the wanted models.                                    *)
LEMMA ExtendContinues ==
    ASSUME NEW list \in Seq(Models), Distinct(list), Len(list) <= MaxAttempts,
           NEW want \in Seq(Models), NEW unfit
    PROVE  \E a \in Seq(Models) : Continues(Extend(list, want, unfit), list, a, want, unfit)
<1> DEFINE T == {w \in Seq(Models) :
                    \E a \in Seq(Models) : Continues(Extend(list, w, unfit), list, a, w, unfit)}
<1>m. MaxAttempts \in Nat BY Kinds
<1>1. <<>> \in T
  <2>1. <<>> \in Seq(Models) /\ Len(<<>>) = 0 BY EmptySeq
  <2>2. Extend(list, <<>>, unfit) = list /\ list \o <<>> = list BY ExtendEmpty, ConcatEmptySeq
  <2>3. Continues(list, list, <<>>, <<>>, unfit) BY <2>1, <2>2 DEF Continues, Ordered, Among
  <2> QED BY <2>1, <2>2, <2>3
<1>2. ASSUME NEW w \in Seq(Models), NEW m \in Models, w \in T PROVE Append(w, m) \in T
  <2> DEFINE r == Append(w, m)
             e == Extend(list, w, unfit)
             d == Extend(list, r, unfit)
  <2>1. /\ r \in Seq(Models) /\ Len(w) \in Nat /\ Len(r) = Len(w) + 1 /\ r[Len(w) + 1] = m
        /\ \A i \in 1..Len(w) : r[i] = w[i]
    BY LenProperties, AppendProperties
  <2>2. e \in Seq(Models) /\ Len(e) \in Nat BY ExtendType, LenProperties
  <2>3. d = IF Stays(e, m, unfit) THEN e ELSE Append(e, m) BY ExtendAppend
  <2>4. PICK a \in Seq(Models) : Continues(e, list, a, w, unfit) BY <1>2
  <2>5. Len(a) \in Nat BY LenProperties
  <2>6. DOMAIN e = 1..Len(e) BY <2>2, LenProperties
  <2> HIDE DEF r, e, d
  <2>7. Len(r) \in 1..Len(r) /\ r[Len(r)] = m /\ \A i \in 1..Len(w) : i \in 1..Len(r) /\ i < Len(r) BY <2>1
  <2>8. Ordered(a, r) /\ Among(a, r)
    <3>1. ASSUME NEW i \in 1..Len(a), NEW j \in 1..Len(a), i < j
          PROVE  \E b, c \in 1..Len(r) : b < c /\ r[b] = a[i] /\ r[c] = a[j]
      <4>1. PICK b \in 1..Len(w), c \in 1..Len(w) : b < c /\ w[b] = a[i] /\ w[c] = a[j]
        BY <2>4, <3>1 DEF Continues, Ordered
      <4> QED BY <2>1, <2>7, <4>1
    <3>2. ASSUME NEW i \in 1..Len(a) PROVE \E j \in 1..Len(r) : r[j] = a[i]
      <4>1. PICK j \in 1..Len(w) : w[j] = a[i] BY <2>4 DEF Continues, Among
      <4> QED BY <2>1, <2>7, <4>1
    <3> QED BY <3>1, <3>2 DEF Ordered, Among
  <2>9. CASE Stays(e, m, unfit)
    <3>1. d = e BY <2>3, <2>9
    <3>2. ASSUME Len(e) < MaxAttempts, NEW i \in 1..Len(r)
          PROVE  r[i] \in unfit \/ \E j \in 1..Len(e) : e[j] = r[i]
      <4>1. CASE i \in 1..Len(w)
        <5>1. r[i] = w[i] BY <2>1, <4>1
        <5> QED BY <2>4, <3>2, <4>1, <5>1 DEF Continues
      <4>2. CASE i = Len(w) + 1
        <5>1. r[i] = m BY <2>1, <4>2
        <5>2. m \in ToSet(e) \cup unfit BY <1>m, <2>2, <2>9, <3>2 DEF Stays
        <5> QED BY <2>6, <5>1, <5>2 DEF ToSet
      <4> QED BY <2>1, <4>1, <4>2
    <3>3. Continues(d, list, a, r, unfit) BY <2>4, <2>8, <3>1, <3>2 DEF Continues
    <3> QED BY <2>1, <3>3 DEF d, r
  <2>10. CASE ~Stays(e, m, unfit)
    <3> DEFINE b == Append(a, m)
    <3>1. d = Append(e, m) BY <2>3, <2>10
    <3>2. /\ d \in Seq(Models) /\ Len(d) = Len(e) + 1 /\ d[Len(e) + 1] = m
          /\ \A i \in 1..Len(e) : d[i] = e[i]
      BY <2>2, <3>1, AppendProperties
    <3>3. /\ b \in Seq(Models) /\ Len(b) = Len(a) + 1 /\ b[Len(a) + 1] = m
          /\ \A i \in 1..Len(a) : b[i] = a[i]
      BY AppendProperties
    <3>4. d = list \o b
      <4>1. e = list \o a BY <2>4 DEF Continues
      <4>2. <<m>> \in Seq(Models) /\ list \o a \in Seq(Models) BY ConcatProperties
      <4>3. Append(list \o a, m) = (list \o a) \o <<m>> BY <4>2, AppendIsConcat
      <4>4. (list \o a) \o <<m>> = list \o (a \o <<m>>) BY <4>2, ConcatAssociative
      <4>5. b = a \o <<m>> BY AppendIsConcat
      <4> QED BY <3>1, <4>1, <4>3, <4>4, <4>5
    <3> HIDE DEF b
    <3>5. m \notin unfit /\ Len(e) < MaxAttempts /\ \A i \in 1..Len(e) : e[i] # m
      BY <1>m, <2>2, <2>6, <2>10 DEF Stays, ToSet
    <3>6. Distinct(d)
      <4>1. ASSUME NEW i \in 1..Len(d), NEW j \in 1..Len(d), d[i] = d[j] PROVE i = j
        <5>1. CASE i \in 1..Len(e) /\ j \in 1..Len(e)
          <6>1. e[i] = e[j] BY <3>2, <4>1, <5>1
          <6> QED BY <2>4, <5>1, <6>1 DEF Continues, Distinct
        <5>2. CASE i = Len(e) + 1 /\ j \in 1..Len(e) BY <3>2, <3>5, <4>1, <5>2
        <5>3. CASE i \in 1..Len(e) /\ j = Len(e) + 1 BY <3>2, <3>5, <4>1, <5>3
        <5> QED BY <2>2, <3>2, <5>1, <5>2, <5>3
      <4> QED BY <4>1 DEF Distinct
    <3>7. Ordered(b, r)
      <4>1. ASSUME NEW i \in 1..Len(b), NEW j \in 1..Len(b), i < j
            PROVE  \E x, y \in 1..Len(r) : x < y /\ r[x] = b[i] /\ r[y] = b[j]
        <5>0. i \in 1..(Len(a) + 1) /\ j \in 1..(Len(a) + 1) /\ i < j BY <3>3, <4>1
        <5>1. i \in 1..Len(a) /\ (j \in 1..Len(a) \/ j = Len(a) + 1) 
          <6>1. \A n \in Nat : \A x, y \in 1..(n + 1) : x < y => x \in 1..n /\ (y \in 1..n \/ y = n + 1)
            OBVIOUS
          <6> QED BY <2>5, <5>0, <6>1
        <5>2. CASE j \in 1..Len(a)
          <6>1. b[i] = a[i] /\ b[j] = a[j] BY <3>3, <5>1, <5>2
          <6> QED BY <2>8, <4>1, <5>1, <5>2, <6>1 DEF Ordered
        <5>3. CASE j = Len(a) + 1
          <6>1. b[i] = a[i] /\ b[j] = m BY <3>3, <5>1, <5>3
          <6>2. PICK x \in 1..Len(w) : w[x] = a[i] BY <2>4, <5>1 DEF Continues, Among
          <6>3. r[x] = b[i] /\ r[Len(r)] = b[j] /\ x \in 1..Len(r) /\ x < Len(r) BY <2>1, <2>7, <6>1, <6>2
          <6> QED BY <2>7, <6>3
        <5> QED BY <5>1, <5>2, <5>3
      <4> QED BY <4>1 DEF Ordered
    <3>8. Among(b, r)
      <4>1. ASSUME NEW i \in 1..Len(b) PROVE \E j \in 1..Len(r) : r[j] = b[i]
        <5>1. CASE i \in 1..Len(a)
          <6>1. b[i] = a[i] BY <3>3, <5>1
          <6> QED BY <2>8, <5>1, <6>1 DEF Among
        <5>2. CASE i = Len(a) + 1
          <6>1. b[i] = m BY <3>3, <5>2
          <6> QED BY <2>7, <6>1
        <5> QED BY <2>5, <3>3, <5>1, <5>2
      <4> QED BY <4>1 DEF Among
    <3>9. ASSUME NEW i \in 1..Len(b) PROVE b[i] \notin unfit
      <4>1. CASE i \in 1..Len(a)
        <5>1. b[i] = a[i] BY <3>3, <4>1
        <5> QED BY <2>4, <4>1, <5>1 DEF Continues
      <4>2. CASE i = Len(a) + 1 BY <3>3, <3>5, <4>2
      <4> QED BY <2>5, <3>3, <4>1, <4>2
    <3>10. ASSUME NEW i \in 1..Len(r) PROVE r[i] \in unfit \/ \E j \in 1..Len(d) : d[j] = r[i]
      <4>1. CASE i \in 1..Len(w)
        <5>1. r[i] = w[i] BY <2>1, <4>1
        <5>2. w[i] \in unfit \/ \E j \in 1..Len(e) : e[j] = w[i] BY <2>4, <3>5, <4>1 DEF Continues
        <5>3. ASSUME NEW j \in 1..Len(e), e[j] = w[i] PROVE j \in 1..Len(d) /\ d[j] = r[i]
          BY <2>2, <3>2, <5>1, <5>3
        <5> QED BY <5>1, <5>2, <5>3
      <4>2. CASE i = Len(w) + 1
        <5>1. r[i] = m BY <2>1, <4>2
        <5>2. Len(d) \in 1..Len(d) /\ d[Len(d)] = m BY <2>2, <3>2
        <5> QED BY <5>1, <5>2
      <4> QED BY <2>1, <4>1, <4>2
    <3>11. Len(d) <= MaxAttempts BY <1>m, <2>2, <3>2, <3>5
    <3>12. Continues(d, list, b, r, unfit)
      BY <3>4, <3>6, <3>7, <3>8, <3>9, <3>10, <3>11 DEF Continues
    <3> QED BY <2>1, <3>3, <3>12 DEF d, r
  <2> QED BY <2>9, <2>10
<1> HIDE DEF T
<1>3. Seq(Models) \subseteq T BY <1>1, <1>2, SeqInduct
<1> QED BY <1>3 DEF T

(* What a sequence becomes behind a new head.                              *)
LEMMA TailOfCons ==
    ASSUME NEW X, NEW p \in X, NEW q \in Seq(X)
    PROVE  /\ <<p>> \o q \in Seq(X) /\ Len(<<p>> \o q) = Len(q) + 1 /\ (<<p>> \o q)[1] = p
           /\ Tail(<<p>> \o q) = q /\ Head(<<p>> \o q) = p
           /\ \A i \in 1..Len(q) : (<<p>> \o q)[i + 1] = q[i]
<1> DEFINE s == <<p>> \o q
<1>1. <<p>> \in Seq(X) /\ Len(<<p>>) = 1 /\ <<p>>[1] = p OBVIOUS
<1>2. Len(q) \in Nat BY LenProperties
<1>3. /\ s \in Seq(X) /\ Len(s) = 1 + Len(q)
      /\ \A i \in 1..(1 + Len(q)) : s[i] = IF i <= 1 THEN <<p>>[i] ELSE q[i - 1]
  BY <1>1, ConcatProperties
<1> HIDE DEF s
<1>4. s[1] = p BY <1>1, <1>2, <1>3
<1>5. ASSUME NEW i \in 1..Len(q) PROVE s[i + 1] = q[i]
  <2>1. i + 1 \in 1..(1 + Len(q)) /\ ~(i + 1 <= 1) /\ (i + 1) - 1 = i BY <1>2
  <2> QED BY <1>3, <2>1
<1>6. s # <<>> BY <1>2, <1>3, EmptySeq
<1>7. /\ Tail(s) \in Seq(X) /\ Len(Tail(s)) = Len(s) - 1
      /\ \A i \in 1..Len(Tail(s)) : Tail(s)[i] = s[i + 1]
  BY <1>3, <1>6, HeadTailProperties
<1>8. Len(Tail(s)) = Len(q) BY <1>2, <1>3, <1>7
<1>9. Tail(s) = q BY <1>5, <1>7, <1>8, SeqEqual
<1>10. Head(s) = p BY <1>3, <1>4, <1>6 DEF s
<1> QED BY <1>2, <1>3, <1>4, <1>5, <1>9, <1>10 DEF s

(* The parts of a chain: what is configured, what is not, and the floor.   *)
Parts(s, list, unfit, a, b, f) ==
    /\ s = <<Primary>> \o (a \o (b \o f))
    /\ Distinct(<<Primary>> \o (a \o b)) /\ Len(s) <= MaxAttempts
    /\ \A i \in 1..Len(a) : a[i] \in ToSet(Configured)
    /\ \A i \in 1..Len(b) : b[i] \notin ToSet(Configured)
    /\ Ordered(a, Configured) /\ Ordered(b, list)
    /\ \A m \in ToSet(a) \cup ToSet(b) : m \in ToSet(list) \ unfit
    /\ f = <<>> \/ (f = <<Free>> /\ Primary # Free)
    /\ Len(s) < MaxAttempts =>
          /\ f = <<>> => Primary = Free
          /\ \A m \in ToSet(list) : m \in unfit \cup {Primary} \cup ToSet(a) \cup ToSet(b)

(* Every chain has such parts.                                             *)
LEMMA ChainParts ==
    ASSUME NEW list \in Seq(Models \ {Free}), NEW unfit
    PROVE  \E a, b \in Seq(Models \ {Free}), f \in Seq(Models) : Parts(Chain(list, unfit), list, unfit, a, b, f)
<1> DEFINE K == Keep(Configured, ToSet(list))
           manual == Extend(<<Primary>>, K, unfit)
           all == Extend(manual, list, unfit)
           M == Models \ {Free}
<1>1. /\ Configured \in Seq(Models) /\ Primary \in Models /\ list \in Seq(Models) /\ Free \in Models
      /\ MaxAttempts \in Nat /\ MaxAttempts >= 1
  <2>1. Free \in Models BY DEF Models
  <2>2. list \in Seq(Models) BY SeqMonotonic
  <2> QED BY <2>1, <2>2, Kinds, OpenRouterAssumption
<1>2. K \in Seq(Models) BY <1>1, KeepType
<1>3. /\ DOMAIN list = 1..Len(list) /\ Len(list) \in Nat /\ ToSet(list) \subseteq M
      /\ DOMAIN Configured = 1..Len(Configured) /\ Len(Configured) \in Nat
  <2>1. \A i \in 1..Len(list) : list[i] \in M BY ElementOfSeq
  <2>2. DOMAIN list = 1..Len(list) /\ Len(list) \in Nat BY LenProperties
  <2>3. DOMAIN Configured = 1..Len(Configured) /\ Len(Configured) \in Nat BY <1>1, LenProperties
  <2> QED BY <2>1, <2>2, <2>3 DEF ToSet
<1>k. /\ \A i \in 1..Len(K) : K[i] \in ToSet(list) /\ \E j \in 1..Len(Configured) : Configured[j] = K[i]
      /\ \A j \in 1..Len(Configured) : Configured[j] \in ToSet(list) => \E i \in 1..Len(K) : K[i] = Configured[j]
      /\ Ordered(K, Configured)
  BY <1>1, KeepMembers, KeepHas, KeepOrder DEF Ordered
<1>4. PICK a \in Seq(Models) : Continues(manual, <<Primary>>, a, K, unfit)
  <2>1. <<Primary>> \in Seq(Models) /\ Len(<<Primary>>) = 1 BY <1>1
  <2>2. Distinct(<<Primary>>) BY <2>1 DEF Distinct
  <2>3. Len(<<Primary>>) <= MaxAttempts BY <1>1, <2>1
  <2> HIDE DEF K
  <2> QED BY <1>2, <2>1, <2>2, <2>3, ExtendContinues
<1>5. manual \in Seq(Models)
  <2>1. <<Primary>> \in Seq(Models) BY <1>1
  <2> HIDE DEF K
  <2> QED BY <1>2, <2>1, ExtendType
<1>6. PICK b \in Seq(Models) : Continues(all, manual, b, list, unfit)
  <2> HIDE DEF manual
  <2>1. Distinct(manual) /\ Len(manual) <= MaxAttempts BY <1>4 DEF Continues
  <2> QED BY <1>1, <1>5, <2>1, ExtendContinues
<1>7. all \in Seq(Models) BY <1>1, <1>5, ExtendType
<1>8. /\ Len(manual) \in Nat /\ Len(all) \in Nat /\ Len(a) \in Nat /\ Len(b) \in Nat
      /\ DOMAIN all = 1..Len(all) /\ DOMAIN a = 1..Len(a) /\ DOMAIN b = 1..Len(b) /\ DOMAIN manual = 1..Len(manual)
  BY <1>5, <1>7, LenProperties
<1>9. Chain(list, unfit) = IF Len(all) < MaxAttempts /\ ~Contains(all, Free) THEN Append(all, Free) ELSE all
  BY DEF Chain
<1> HIDE DEF K, manual, all
<1>10. all = <<Primary>> \o (a \o b) /\ all = manual \o b /\ a \o b \in Seq(Models)
  <2>1. all = manual \o b /\ manual = <<Primary>> \o a BY <1>4, <1>6 DEF Continues
  <2>2. <<Primary>> \in Seq(Models) BY <1>1
  <2>3. (<<Primary>> \o a) \o b = <<Primary>> \o (a \o b) BY <2>2, ConcatAssociative
  <2> QED BY <2>1, <2>3, ConcatProperties
<1>11. ASSUME NEW i \in 1..Len(a) PROVE a[i] \in ToSet(Configured) /\ a[i] \in ToSet(list) \ unfit
  <2>1. PICK j \in 1..Len(K) : K[j] = a[i] BY <1>4 DEF Continues, Among
  <2>2. a[i] \in ToSet(list) /\ \E l \in 1..Len(Configured) : Configured[l] = a[i] BY <1>k, <2>1
  <2> QED BY <1>3, <1>4, <2>2 DEF Continues, ToSet
<1>12. ASSUME NEW i \in 1..Len(b) PROVE b[i] \in ToSet(list) \ unfit
  <2>1. PICK j \in 1..Len(list) : list[j] = b[i] BY <1>6 DEF Continues, Among
  <2> QED BY <1>3, <1>6, <2>1 DEF Continues, ToSet
<1>13. /\ Len(all) = Len(manual) + Len(b)
       /\ \A i \in 1..Len(manual) : all[i] = manual[i]
       /\ \A i \in 1..Len(b) : all[Len(manual) + i] = b[i]
  <2>1. /\ Len(manual \o b) = Len(manual) + Len(b)
        /\ \A i \in 1..Len(manual) + Len(b) :
              (manual \o b)[i] = IF i <= Len(manual) THEN manual[i] ELSE b[i - Len(manual)]
    BY <1>5, ConcatProperties
  <2>2. \A i \in 1..Len(manual) : i \in 1..Len(manual) + Len(b) /\ i <= Len(manual) BY <1>8
  <2>3. \A i \in 1..Len(b) : /\ Len(manual) + i \in 1..Len(manual) + Len(b) /\ ~(Len(manual) + i <= Len(manual))
                             /\ Len(manual) + i - Len(manual) = i
    BY <1>8
  <2>4. \A i \in 1..Len(manual) : (manual \o b)[i] = manual[i] BY <2>1, <2>2
  <2>5. \A i \in 1..Len(b) : (manual \o b)[Len(manual) + i] = b[i] BY <2>1, <2>3
  <2> QED BY <1>10, <2>1, <2>4, <2>5
<1>14. ASSUME NEW i \in 1..Len(b) PROVE b[i] \notin ToSet(Configured)
  <2> SUFFICES ASSUME b[i] \in ToSet(Configured) PROVE FALSE OBVIOUS
  <2>1. PICK j \in 1..Len(Configured) : Configured[j] = b[i] BY <1>3 DEF ToSet
  <2>2. b[i] \in ToSet(list) /\ b[i] \notin unfit BY <1>12
  <2>3. PICK l \in 1..Len(K) : K[l] = b[i] BY <1>k, <2>1, <2>2
  <2>4. CASE Len(manual) < MaxAttempts
    <3>1. PICK n \in 1..Len(manual) : manual[n] = b[i] BY <1>4, <2>2, <2>3, <2>4 DEF Continues
    <3>2. all[n] = all[Len(manual) + i] BY <1>13, <3>1
    <3>3. n \in 1..Len(all) /\ Len(manual) + i \in 1..Len(all) /\ n # Len(manual) + i BY <1>8, <1>13
    <3> QED BY <1>6, <3>2, <3>3 DEF Continues, Distinct
  <2>5. CASE ~(Len(manual) < MaxAttempts)
    <3>1. Len(all) <= MaxAttempts /\ Len(b) >= 1 BY <1>6, <1>8 DEF Continues
    <3> QED BY <1>1, <1>8, <1>13, <2>5, <3>1
  <2> QED BY <2>4, <2>5
<1>15. a \in Seq(M) /\ b \in Seq(M)
  <2>1. \A i \in 1..Len(a) : a[i] \in M BY <1>3, <1>11
  <2>2. \A i \in 1..Len(b) : b[i] \in M BY <1>3, <1>12
  <2> HIDE DEF M
  <2> QED BY <2>1, <2>2, Retype
<1>16. Ordered(a, Configured)
  <2>1. ASSUME NEW i \in 1..Len(a), NEW j \in 1..Len(a), i < j
        PROVE  \E x, y \in 1..Len(Configured) : x < y /\ Configured[x] = a[i] /\ Configured[y] = a[j]
    <3>1. PICK x \in 1..Len(K), y \in 1..Len(K) : x < y /\ K[x] = a[i] /\ K[y] = a[j]
      BY <1>4, <2>1 DEF Continues, Ordered
    <3> QED BY <1>k, <3>1 DEF Ordered
  <2> QED BY <2>1 DEF Ordered
<1>17. \A m \in ToSet(a) \cup ToSet(b) : m \in ToSet(list) \ unfit BY <1>8, <1>11, <1>12 DEF ToSet
(* Everything that is not in the chain although there was room is unfit.   *)
<1>18. ASSUME Len(all) < MaxAttempts, NEW m \in ToSet(list)
       PROVE  m \in unfit \cup {Primary} \cup ToSet(a) \cup ToSet(b)
  <2>1. PICK i \in 1..Len(list) : list[i] = m BY <1>3 DEF ToSet
  <2>2. m \in unfit \/ \E j \in 1..Len(all) : all[j] = m BY <1>6, <1>18, <2>1 DEF Continues
  <2>3. ASSUME NEW j \in 1..Len(all), all[j] = m PROVE m \in {Primary} \cup ToSet(a) \cup ToSet(b)
    <3>1. manual = <<Primary>> \o a BY <1>4 DEF Continues
    <3>2. /\ Len(manual) = Len(a) + 1 /\ manual[1] = Primary
          /\ \A x \in 1..Len(a) : manual[x + 1] = a[x]
      BY <1>1, <3>1, TailOfCons
    <3>3. CASE j = 1
      <4>1. all[1] = manual[1] BY <1>8, <1>13, <3>2
      <4> QED BY <2>3, <3>2, <3>3, <4>1
    <3>4. CASE j \in 2..Len(manual)
      <4>1. j - 1 \in 1..Len(a) /\ (j - 1) + 1 = j /\ j \in 1..Len(manual) BY <1>8, <3>2, <3>4
      <4>2. a[j - 1] = m BY <1>13, <2>3, <3>2, <4>1
      <4> QED BY <1>8, <4>1, <4>2 DEF ToSet
    <3>5. CASE j > Len(manual)
      <4>1. j - Len(manual) \in 1..Len(b) /\ Len(manual) + (j - Len(manual)) = j BY <1>8, <1>13, <3>5
      <4>2. b[j - Len(manual)] = m BY <1>13, <2>3, <4>1
      <4> QED BY <1>8, <4>1, <4>2 DEF ToSet
    <3> QED BY <1>8, <3>2, <3>3, <3>4, <3>5
  <2> QED BY <2>2, <2>3
<1>19. Contains(all, Free) <=> Primary = Free
  <2>1. /\ Len(all) = Len(a \o b) + 1 /\ all[1] = Primary
        /\ \A x \in 1..Len(a \o b) : all[x + 1] = (a \o b)[x]
    BY <1>1, <1>10, TailOfCons
  <2>2. a \o b \in Seq(M) BY <1>15, ConcatProperties
  <2>3. Len(a \o b) \in Nat /\ \A x \in 1..Len(a \o b) : (a \o b)[x] # Free
    <3>1. \A x \in 1..Len(a \o b) : (a \o b)[x] \in M BY <2>2, ElementOfSeq
    <3> QED BY <2>2, <3>1, LenProperties
  <2>4. ASSUME NEW i \in 1..Len(all), all[i] = Free PROVE Primary = Free
    <3>1. CASE i = 1 BY <2>1, <2>4, <3>1
    <3>2. CASE i # 1
      <4>1. i - 1 \in 1..Len(a \o b) /\ (i - 1) + 1 = i BY <2>1, <2>3, <3>2
      <4> QED BY <2>1, <2>3, <2>4, <4>1
    <3> QED BY <3>1, <3>2
  <2>5. 1 \in 1..Len(all) BY <2>1, <2>3
  <2> QED BY <2>1, <2>4, <2>5 DEF Contains
<1>20. CASE Len(all) < MaxAttempts /\ Primary # Free
  <2> DEFINE s == Append(all, Free)
             f == <<Free>>
  <2>1. Chain(list, unfit) = s BY <1>9, <1>19, <1>20
  <2>2. f \in Seq(Models) /\ <<Primary>> \in Seq(Models) BY <1>1
  <2>3. s = <<Primary>> \o (a \o (b \o f))
    <3>1. s = all \o f BY <1>1, <1>7, AppendIsConcat
    <3>2. (<<Primary>> \o (a \o b)) \o f = <<Primary>> \o ((a \o b) \o f) BY <1>10, <2>2, ConcatAssociative
    <3>3. (a \o b) \o f = a \o (b \o f) BY <2>2, ConcatAssociative
    <3> QED BY <1>10, <3>1, <3>2, <3>3
  <2>4. Len(s) = Len(all) + 1 BY <1>1, <1>7, AppendProperties
  <2>5. Len(s) <= MaxAttempts BY <1>1, <1>8, <1>20, <2>4
  <2>6. Distinct(<<Primary>> \o (a \o b)) BY <1>6, <1>10 DEF Continues
  <2>7. Ordered(b, list) BY <1>6 DEF Continues
  <2>8. f # <<>> OBVIOUS
  <2> HIDE DEF s
  <2>9. Parts(s, list, unfit, a, b, f)
    BY <1>11, <1>14, <1>16, <1>17, <1>18, <1>20, <2>3, <2>5, <2>6, <2>7, <2>8 DEF Parts
  <2> QED BY <1>15, <2>1, <2>2, <2>9
<1>21. CASE ~(Len(all) < MaxAttempts /\ Primary # Free)
  <2>1. Chain(list, unfit) = all BY <1>9, <1>19, <1>21
  <2>2. <<>> \in Seq(Models) BY EmptySeq
  <2>3. all = <<Primary>> \o (a \o (b \o <<>>)) BY <1>10, ConcatEmptySeq
  <2>4. Len(all) <= MaxAttempts /\ Distinct(<<Primary>> \o (a \o b)) /\ Ordered(b, list)
    BY <1>6, <1>10 DEF Continues
  <2>5. Parts(all, list, unfit, a, b, <<>>)
    BY <1>11, <1>14, <1>16, <1>17, <1>18, <1>21, <2>3, <2>4 DEF Parts
  <2> QED BY <1>15, <2>1, <2>2, <2>5
<1> QED BY <1>20, <1>21

LEMMA OrderedInOrder ==
    ASSUME NEW X, NEW s \in Seq(X), NEW q \in Seq(X), Ordered(s, q) PROVE InOrder(s, q)
<1>1. DOMAIN s = 1..Len(s) /\ DOMAIN q = 1..Len(q) BY LenProperties
<1>2. ASSUME NEW i \in 1..Len(s), NEW j \in 1..Len(s), i < j
      PROVE  \E x, y \in DOMAIN q : x < y /\ q[x] = s[i] /\ q[y] = s[j]
  <2>1. PICK x \in 1..Len(q), y \in 1..Len(q) : x < y /\ q[x] = s[i] /\ q[y] = s[j]
    BY <1>2 DEF Ordered
  <2> QED BY <1>1, <2>1
<1>3. \A i, j \in DOMAIN s : i < j => \E x, y \in DOMAIN q : x < y /\ q[x] = s[i] /\ q[y] = s[j]
  BY <1>1, <1>2
<1> QED BY <1>3 DEF InOrder

(* What has these parts is as ChainOf describes it: the parts are found    *)
(* again by keeping, from behind the head, what is configured or is not.   *)
LEMMA PartsAreRight ==
    ASSUME NEW list \in Seq(Models \ {Free}), NEW unfit,
           NEW a \in Seq(Models \ {Free}), NEW b \in Seq(Models \ {Free}), NEW f \in Seq(Models),
           NEW s, Parts(s, list, unfit, a, b, f)
    PROVE  ChainOf(s, list, unfit)
<1> DEFINE M == Models \ {Free}
           C == ToSet(Configured)
           t == a \o (b \o f)
           u == <<Primary>> \o (a \o b)
<1>1. Primary \in Models /\ Free \in Models /\ Configured \in Seq(Models)
  <2>1. Free \in Models BY DEF Models
  <2> QED BY <2>1, OpenRouterAssumption
<1>2. /\ a \in Seq(Models) /\ b \in Seq(Models) /\ list \in Seq(Models)
      /\ \A i \in 1..Len(a) : a[i] \in M
      /\ \A i \in 1..Len(b) : b[i] \in M
      /\ \A i \in 1..Len(list) : list[i] \in M
  BY SeqMonotonic, ElementOfSeq
<1>3. /\ Len(a) \in Nat /\ Len(b) \in Nat /\ Len(f) \in Nat /\ Len(list) \in Nat
      /\ DOMAIN a = 1..Len(a) /\ DOMAIN b = 1..Len(b) /\ DOMAIN list = 1..Len(list)
      /\ DOMAIN Configured = 1..Len(Configured)
  BY <1>1, LenProperties
<1>4. /\ a \o b \in Seq(M) /\ a \o b \in Seq(Models) /\ Len(a \o b) = Len(a) + Len(b)
      /\ \A i \in 1..Len(a) + Len(b) : (a \o b)[i] = IF i <= Len(a) THEN a[i] ELSE b[i - Len(a)]
  BY <1>2, ConcatProperties
<1>5. t \in Seq(Models) /\ t = (a \o b) \o f
  <2>1. b \o f \in Seq(Models) BY <1>2, ConcatProperties
  <2>2. t \in Seq(Models) BY <1>2, <2>1, ConcatProperties
  <2>3. t = (a \o b) \o f BY <1>2, ConcatAssociative
  <2> QED BY <2>2, <2>3
<1>6. s = <<Primary>> \o t BY DEF Parts
<1>7. /\ s \in Seq(Models) /\ Len(s) = Len(t) + 1 /\ s[1] = Primary /\ Tail(s) = t /\ Head(s) = Primary
      /\ \A i \in 1..Len(t) : s[i + 1] = t[i]
  <2> HIDE DEF t
  <2> QED BY <1>1, <1>5, <1>6, TailOfCons
<1>8. f = <<>> \/ (f = <<Free>> /\ Primary # Free) BY DEF Parts
<1>9. \A i \in 1..Len(a) : a[i] \in C BY DEF Parts
<1>10. \A i \in 1..Len(b) : b[i] \notin C BY DEF Parts
<1> HIDE DEF t
<1> DEFINE rest == Keep(Tail(s), Models \ {Free})
<1>11. rest = a \o b
  <2>1. Keep(t, M) = Keep(a \o b, M) \o Keep(f, M)
    <3> HIDE DEF M
    <3>1. \A q \in Seq(Models) : Keep(q \o f, M) = Keep(q, M) \o Keep(f, M) BY KeepConcat
    <3> QED BY <1>4, <1>5, <3>1
  <2>2. Keep(a \o b, M) = a \o b
    <3> DEFINE ab == a \o b
    <3>1. ab \in Seq(M) BY <1>4
    <3> HIDE DEF ab, M
    <3>2. \A i \in 1..Len(ab) : ab[i] \in M BY <3>1, ElementOfSeq
    <3>3. Keep(ab, M) = ab BY <3>1, <3>2, KeepAll
    <3> QED BY <3>3 DEF ab
  <2>3. Keep(f, M) = <<>>
    <3>1. Free \notin M OBVIOUS
    <3>2. Keep(<<Free>>, M) = <<>> /\ Keep(<<>>, M) = <<>>
      <4> HIDE DEF M
      <4> QED BY <3>1, KeepOne, KeepEmpty
    <3> QED BY <1>8, <3>2
  <2>4. (a \o b) \o <<>> = a \o b BY <1>4, ConcatEmptySeq
  <2> QED BY <1>7, <2>1, <2>2, <2>3, <2>4
<1> HIDE DEF rest
<1>12. Keep(rest, C) = a
  <2> HIDE DEF C
  <2>1. Keep(a \o b, C) = Keep(a, C) \o Keep(b, C) BY <1>2, KeepConcat
  <2>2. Keep(a, C) = a BY <1>9, KeepAll
  <2>3. Keep(b, C) = <<>> BY <1>10, KeepNone
  <2>4. a \o <<>> = a BY ConcatEmptySeq
  <2> QED BY <1>11, <2>1, <2>2, <2>3, <2>4
<1>13. Keep(rest, Models \ C) = b
  <2> DEFINE R == Models \ C
  <2>1. \A i \in 1..Len(a) : a[i] \notin R BY <1>9
  <2>2. \A i \in 1..Len(b) : b[i] \in R BY <1>2, <1>10
  <2> HIDE DEF R
  <2>3. Keep(a \o b, R) = Keep(a, R) \o Keep(b, R) BY <1>2, KeepConcat
  <2>4. Keep(a, R) = <<>> BY <2>1, KeepNone
  <2>5. Keep(b, R) = b BY <2>2, KeepAll
  <2>6. <<>> \o b = b BY ConcatEmptySeq
  <2>7. Keep(rest, R) = b BY <1>11, <2>3, <2>4, <2>5, <2>6
  <2> QED BY <2>7 DEF R
<1>14. InOrder(a, Configured) /\ InOrder(b, list)
  <2>1. Ordered(a, Configured) /\ Ordered(b, list) BY DEF Parts
  <2> QED BY <1>1, <1>2, <2>1, OrderedInOrder
(* The chain is what is kept of it, between Primary and the floor.         *)
<1>15. /\ u \in Seq(Models) /\ Len(u) = Len(a \o b) + 1 /\ u[1] = Primary
       /\ \A i \in 1..Len(a \o b) : u[i + 1] = (a \o b)[i]
  <2>1. \A q \in Seq(Models) :
          /\ <<Primary>> \o q \in Seq(Models) /\ Len(<<Primary>> \o q) = Len(q) + 1 /\ (<<Primary>> \o q)[1] = Primary
          /\ \A i \in 1..Len(q) : (<<Primary>> \o q)[i + 1] = q[i]
    BY <1>1, TailOfCons
  <2> DEFINE ab == a \o b
  <2>2. ab \in Seq(Models) BY <1>4
  <2> HIDE DEF ab
  <2>3. /\ <<Primary>> \o ab \in Seq(Models) /\ Len(<<Primary>> \o ab) = Len(ab) + 1 /\ (<<Primary>> \o ab)[1] = Primary
        /\ \A i \in 1..Len(ab) : (<<Primary>> \o ab)[i + 1] = ab[i]
    BY <2>1, <2>2
  <2> QED BY <2>3 DEF ab
<1>16. s = u \o f
  <2>1. <<Primary>> \in Seq(Models) BY <1>1
  <2>2. u \o f = <<Primary>> \o ((a \o b) \o f) BY <1>4, <2>1, ConcatAssociative
  <2> QED BY <1>5, <1>6, <2>2
<1>17. Distinct(u) BY DEF Parts
<1>18. /\ Len(s) = Len(u) + Len(f)
       /\ \A i \in 1..Len(u) + Len(f) : s[i] = IF i <= Len(u) THEN u[i] ELSE f[i - Len(u)]
  <2> HIDE DEF u
  <2> QED BY <1>15, <1>16, ConcatProperties
<1>19. Len(u) \in Nat /\ Len(s) \in Nat /\ DOMAIN s = 1..Len(s) /\ Len(u) >= 1
  <2>1. Len(u) \in Nat /\ Len(s) \in Nat /\ DOMAIN s = 1..Len(s)
    <3> HIDE DEF u
    <3> QED BY <1>7, <1>15, LenProperties
  <2>2. Len(a \o b) \in Nat BY <1>3, <1>4
  <2> QED BY <1>15, <2>1, <2>2
<1>20. \A i \in 1..Len(a \o b) : (a \o b)[i] # Free
  <2>1. \A i \in 1..Len(a \o b) : (a \o b)[i] \in M
    <3> HIDE DEF M
    <3> QED BY <1>4, ElementOfSeq
  <2> QED BY <2>1
<1>21. \A i \in 1..Len(u) : u[i] = Free => Primary = Free
  <2> SUFFICES ASSUME NEW i \in 1..Len(u), u[i] = Free, i # 1 PROVE FALSE BY <1>15
  <2>1. i - 1 \in 1..Len(a \o b) /\ (i - 1) + 1 = i BY <1>3, <1>4, <1>15
  <2> QED BY <1>15, <1>20, <2>1
<1>22. \A i \in 1..Len(u) : i \in 1..Len(s) /\ s[i] = u[i]
  <2> HIDE DEF u
  <2>1. \A i \in 1..Len(u) : i \in 1..Len(u) + Len(f) /\ i <= Len(u) BY <1>3, <1>19
  <2> QED BY <1>18, <2>1
<1>23. f # <<>> => Len(s) = Len(u) + 1 /\ s[Len(s)] = Free /\ Primary # Free
  <2> SUFFICES ASSUME f = <<Free>>, Primary # Free PROVE Len(s) = Len(u) + 1 /\ s[Len(s)] = Free
    BY <1>8
  <2>1. Len(f) = 1 /\ f[1] = Free OBVIOUS
  <2> HIDE DEF u
  <2>2. Len(s) = Len(u) + 1 /\ Len(s) \in 1..Len(u) + Len(f) /\ ~(Len(s) <= Len(u)) /\ Len(s) - Len(u) = 1
    BY <1>18, <1>19, <2>1
  <2> QED BY <1>18, <2>1, <2>2
<1>24. f = <<>> => Len(s) = Len(u)
  <2> SUFFICES ASSUME f = <<>> PROVE Len(s) = Len(u) OBVIOUS
  <2>1. Len(f) = 0 BY EmptySeq
  <2> HIDE DEF u
  <2> QED BY <1>18, <1>19, <2>1
<1>25. IsInjective(s)
  <2> SUFFICES ASSUME NEW i \in 1..Len(s), NEW j \in 1..Len(s), s[i] = s[j] PROVE i = j
    BY <1>19 DEF IsInjective
  <2>1. CASE i \in 1..Len(u) /\ j \in 1..Len(u)
    <3>1. u[i] = u[j] BY <1>22, <2>1
    <3> HIDE DEF u
    <3> QED BY <1>17, <2>1, <3>1 DEF Distinct
  <2>2. CASE f # <<>> /\ i = Len(s) /\ j \in 1..Len(u) BY <1>21, <1>22, <1>23, <2>2
  <2>3. CASE f # <<>> /\ i \in 1..Len(u) /\ j = Len(s) BY <1>21, <1>22, <1>23, <2>3
  <2>4. CASE f # <<>> /\ i = Len(s) /\ j = Len(s) BY <2>4
  <2>5. f = <<>> => i \in 1..Len(u) /\ j \in 1..Len(u) BY <1>24
  <2>6. f # <<>> => (i \in 1..Len(u) \/ i = Len(s)) /\ (j \in 1..Len(u) \/ j = Len(s))
    <3> HIDE DEF u
    <3> SUFFICES ASSUME Len(s) = Len(u) + 1
                 PROVE  (i \in 1..Len(u) \/ i = Len(s)) /\ (j \in 1..Len(u) \/ j = Len(s))
      BY <1>23
    <3> QED BY <1>19
  <2> QED BY <2>1, <2>2, <2>3, <2>4, <2>5, <2>6
<1>26. \A m \in ToSet(a) \cup ToSet(b) : m \in ToSet(list) \ unfit BY DEF Parts
<1>27. ToSet(rest) \subseteq ToSet(list) \ unfit
  <2>1. DOMAIN (a \o b) = 1..Len(a \o b) BY <1>4, LenProperties
  <2>2. ASSUME NEW i \in 1..Len(a \o b) PROVE (a \o b)[i] \in ToSet(a) \cup ToSet(b)
    <3>1. CASE i <= Len(a)
      <4>1. i \in 1..Len(a) /\ i \in 1..Len(a) + Len(b) BY <1>3, <1>4, <3>1
      <4>2. (a \o b)[i] = a[i] BY <1>4, <3>1, <4>1
      <4> QED BY <1>3, <4>1, <4>2 DEF ToSet
    <3>2. CASE ~(i <= Len(a))
      <4>1. i - Len(a) \in 1..Len(b) /\ i \in 1..Len(a) + Len(b) BY <1>3, <1>4, <3>2
      <4>2. (a \o b)[i] = b[i - Len(a)] BY <1>4, <3>2, <4>1
      <4> QED BY <1>3, <4>1, <4>2 DEF ToSet
    <3> QED BY <3>1, <3>2
  <2> QED BY <1>11, <1>26, <2>1, <2>2 DEF ToSet
<1>28. Contains(s, Free) => Free \in {Last(s), Primary}
  <2> SUFFICES ASSUME NEW i \in 1..Len(s), s[i] = Free PROVE Free \in {Last(s), Primary}
    BY DEF Contains
  <2>1. CASE i \in 1..Len(u) BY <1>21, <1>22, <2>1
  <2>2. CASE i \notin 1..Len(u)
    <3>1. f # <<>> BY <1>24, <2>2
    <3> QED BY <1>23, <3>1 DEF Last
  <2> QED BY <2>1, <2>2
<1>29. Len(s) < MaxAttempts => ToSet(list) \ unfit \subseteq ToSet(s) /\ Contains(s, Free)
  <2> SUFFICES ASSUME Len(s) < MaxAttempts PROVE ToSet(list) \ unfit \subseteq ToSet(s) /\ Contains(s, Free)
    OBVIOUS
  <2>1. f = <<>> => Primary = Free BY DEF Parts
  <2>2. \A m \in ToSet(list) : m \in unfit \cup {Primary} \cup ToSet(a) \cup ToSet(b) BY DEF Parts
  <2>3. 1 \in 1..Len(s) /\ s[1] = Primary
    <3> HIDE DEF u
    <3> QED BY <1>7, <1>19, <1>22
  <2>4. Contains(s, Free)
    <3>1. CASE f = <<>> BY <2>1, <2>3, <3>1 DEF Contains
    <3>2. CASE f # <<>>
      <4>1. Len(s) \in 1..Len(s) BY <1>19, <2>3
      <4> QED BY <1>23, <3>2, <4>1 DEF Contains
    <3> QED BY <3>1, <3>2
  <2>5. ASSUME NEW m \in ToSet(a) \cup ToSet(b) PROVE m \in ToSet(s)
    <3>1. \E i \in 1..Len(a \o b) : (a \o b)[i] = m
      <4>1. CASE m \in ToSet(a)
        <5>1. PICK i \in 1..Len(a) : a[i] = m BY <1>3, <4>1 DEF ToSet
        <5>2. i \in 1..Len(a) + Len(b) /\ i <= Len(a) BY <1>3
        <5> QED BY <1>4, <5>1, <5>2
      <4>2. CASE m \in ToSet(b)
        <5>1. PICK i \in 1..Len(b) : b[i] = m BY <1>3, <4>2 DEF ToSet
        <5>2. Len(a) + i \in 1..Len(a) + Len(b) /\ ~(Len(a) + i <= Len(a)) /\ Len(a) + i - Len(a) = i
          BY <1>3
        <5>3. (a \o b)[Len(a) + i] = m BY <1>4, <5>1, <5>2
        <5> QED BY <1>4, <5>2, <5>3
      <4> QED BY <4>1, <4>2
    <3>2. PICK i \in 1..Len(a \o b) : (a \o b)[i] = m BY <3>1
    <3>3. i + 1 \in 1..Len(u) /\ u[i + 1] = m
      <4>1. Len(a \o b) \in Nat BY <1>3, <1>4
      <4>2. i + 1 \in 1..(Len(a \o b) + 1) BY <4>1
      <4> QED BY <1>15, <3>2, <4>2
    <3>4. i + 1 \in 1..Len(s) /\ s[i + 1] = m BY <1>22, <3>3
    <3> QED BY <1>19, <3>4 DEF ToSet
  <2>6. Primary \in ToSet(s) BY <1>19, <2>3 DEF ToSet
  <2> QED BY <2>2, <2>4, <2>5, <2>6
<1>30. Len(s) <= MaxAttempts BY DEF Parts
<1> QED BY <1>7, <1>11, <1>12, <1>13, <1>14, <1>25, <1>27, <1>28, <1>29, <1>30 DEF ChainOf, rest

LEMMA ChainIsChainOf ==
    ASSUME NEW list \in Seq(Models \ {Free}), NEW unfit
    PROVE  ChainOf(Chain(list, unfit), list, unfit)
<1>1. PICK a \in Seq(Models \ {Free}), b \in Seq(Models \ {Free}), f \in Seq(Models) :
        Parts(Chain(list, unfit), list, unfit, a, b, f)
  BY ChainParts
<1> QED BY <1>1, PartsAreRight

(* Nothing is in a chain but the two fixed models and fit candidates.      *)
LEMMA ChainType ==
    ASSUME NEW list \in Seq(Models \ {Free}), NEW unfit
    PROVE  Chain(list, unfit) \in Seq({Primary, Free} \cup (ToSet(list) \ unfit))
<1> DEFINE Y == {Primary, Free} \cup (ToSet(list) \ unfit)
<1>1. PICK a \in Seq(Models \ {Free}), b \in Seq(Models \ {Free}), f \in Seq(Models) :
        Parts(Chain(list, unfit), list, unfit, a, b, f)
  BY ChainParts
<1>2. DOMAIN a = 1..Len(a) /\ DOMAIN b = 1..Len(b) BY LenProperties
<1>3. \A m \in ToSet(a) \cup ToSet(b) : m \in Y BY <1>1 DEF Parts
<1>4. (\A i \in 1..Len(a) : a[i] \in Y) /\ (\A i \in 1..Len(b) : b[i] \in Y) BY <1>2, <1>3 DEF ToSet
<1>5. f \in Seq(Y) /\ <<Primary>> \in Seq(Y)
  <2>1. f = <<>> \/ f = <<Free>> BY <1>1 DEF Parts
  <2>2. <<>> \in Seq(Y) BY EmptySeq
  <2>3. Primary \in Y /\ Free \in Y OBVIOUS
  <2> HIDE DEF Y
  <2>4. <<Primary>> \in Seq(Y) /\ <<Free>> \in Seq(Y) BY <2>3
  <2> QED BY <2>1, <2>2, <2>4
<1> HIDE DEF Y
<1>6. a \in Seq(Y) /\ b \in Seq(Y) BY <1>4, Retype
<1>7. b \o f \in Seq(Y) BY <1>5, <1>6, ConcatProperties
<1>8. a \o (b \o f) \in Seq(Y) BY <1>6, <1>7, ConcatProperties
<1>9. <<Primary>> \o (a \o (b \o f)) \in Seq(Y) BY <1>5, <1>8, ConcatProperties
<1>10. Chain(list, unfit) \in Seq(Y) BY <1>1, <1>9 DEF Parts
<1> QED BY <1>10 DEF Y

-----------------------------------------------------------------------------
(* A shuffle of a sequence has its elements; what is eligible was found,   *)
(* can do what the request needs, and is not barred.                       *)
LEMMA ShuffleType ==
    ASSUME NEW X, NEW list \in Seq(X), NEW s \in Shuffles(list)
    PROVE  s \in Seq(X)
<1>1. DOMAIN list = 1..Len(list) /\ Len(list) \in Nat BY LenProperties
<1>2. Cardinality(1..Len(list)) = Len(list) BY <1>1, FS_Interval
<1>3. PICK p \in SetToSeqs(DOMAIN list) : s = [i \in DOMAIN list |-> list[p[i]]] BY DEF Shuffles
<1>4. p \in [1..Len(list) -> 1..Len(list)] BY <1>1, <1>2, <1>3 DEF SetToSeqs
<1>5. \A i \in 1..Len(list) : list[p[i]] \in X BY <1>4, ElementOfSeq
<1>6. s \in [1..Len(list) -> X] BY <1>1, <1>3, <1>5
<1> QED BY <1>1, <1>6, SeqDef

LEMMA RankingType ==
    ASSUME NEW X, NEW list \in Seq(X), NEW h, NEW s \in Rankings(list, h)
    PROVE  s \in Seq(X)
BY ShuffleType DEF Rankings

(* What the catalogue of a key offers to the fallback.                     *)
Usable(k) == (IF k = NoKey THEN {} ELSE UNION {ToSet(l) : l \in Listings[k]}) \ (Priced \cup {Free})

LEMMA UsableModels == \A k \in Keys \cup {NoKey} : Usable(k) \subseteq Models \ {Free}
<1> SUFFICES ASSUME NEW k \in Keys, k # NoKey, NEW l \in Listings[k], NEW m \in ToSet(l)
             PROVE  m \in Models
  BY DEF Usable
<1>1. l \in Seq(Models) BY OpenRouterAssumption
<1>2. PICK i \in DOMAIN l : l[i] = m BY DEF ToSet
<1>3. DOMAIN l = 1..Len(l) BY <1>1, LenProperties
<1> QED BY <1>1, <1>2, <1>3, ElementOfSeq

LEMMA CandidatesType ==
    ASSUME NEW k \in Keys, k # NoKey, NEW l \in Listings[k], NEW s \in Candidates(l)
    PROVE  s \in Seq(Usable(k))
<1> DEFINE F == Models \ (Priced \cup {Free})
<1>1. l \in Seq(Models) BY OpenRouterAssumption
<1>2. DOMAIN l = 1..Len(l) BY <1>1, LenProperties
<1>3. \A i \in 1..Len(l) : l[i] \in ToSet(l) BY <1>2 DEF ToSet
<1>4. l \in Seq(ToSet(l)) BY <1>1, <1>3, Retype
<1>5. ToSet(l) \cap F \subseteq Usable(k) BY DEF Usable
<1> HIDE DEF F
<1>6. Keep(l, F) \in Seq(ToSet(l) \cap F) BY <1>4, KeepIn
<1>7. s \in Shuffles(Keep(l, F)) BY DEF Candidates, F
<1>8. s \in Seq(ToSet(l) \cap F) BY <1>6, <1>7, ShuffleType
<1> QED BY <1>5, <1>8, SeqMonotonic

LEMMA EligibleType ==
    ASSUME NEW t \in Turns, NEW h, NEW U, found[t] \in Seq(U), U \subseteq Models
    PROVE  Eligible(t, h) \in Seq((U \ Unfit[t]) \ Barred(h))
<1> DEFINE E == Models \ (attempted[t] \cup Unfit[t] \cup Barred(h))
<1>1. U \cap E \subseteq (U \ Unfit[t]) \ Barred(h) OBVIOUS
<1> HIDE DEF E
<1>2. Keep(found[t], E) \in Seq(U \cap E) BY KeepIn
<1>3. Keep(found[t], E) \in Seq((U \ Unfit[t]) \ Barred(h)) BY <1>1, <1>2, SeqMonotonic
<1> QED BY <1>3 DEF Eligible, E

-----------------------------------------------------------------------------
(***************************************************************************)
(* Types.                                                                  *)
(***************************************************************************)
LookTypes ==
    /\ key \in Keys \cup {NoKey}
    /\ cache.of \in Keys \cup {Nobody} /\ cache.models \in Seq(Models)
    /\ account \in [Actors -> Keys \cup {NoKey}] /\ found \in [Actors -> Seq(Models)]

Places == {"idle", "pick", "lookup", "fetch", "store", "choose", "ask", "stream", "record", "save", "drop", "done"}

FileTypes ==
    /\ health \in [Models -> Record] /\ store \in [Writers -> [Models -> Record]]
    /\ healthMu \in Writers \cup {Nobody} /\ since \in [Turns -> SUBSET Models]

LoopTypes ==
    /\ queue \in [Turns -> Seq(Models)] /\ tried \in [Turns -> Seq(Models)]
    /\ attempted \in [Turns -> SUBSET Models] /\ heard \in [Turns -> SUBSET Models]
    /\ loaded \in [Turns -> BOOLEAN] /\ emitted \in [Turns -> BOOLEAN]
    /\ outcome \in [Turns -> Errors \cup {"none", "ok", "none left", "no lookup"}]

LEMMA Parted ==
    TypeOK <=> LookTypes /\ FileTypes /\ LoopTypes /\ pc \in [Actors -> Places] /\ chain \in [Chats -> Seq(Models)]
BY DEF TypeOK, LookTypes, FileTypes, LoopTypes, Places

LEMMA LookSteps ==
    ASSUME LookTypes, NEW a \in Actors, Lookup(a), pc[a] = "store" => account[a] \in Keys
    PROVE  LookTypes'
<1> DEFINE C == Seq(Models)
<1>1. CASE CacheHit(a) \/ CacheMiss(a)
  BY <1>1 DEF CacheHit, CacheMiss, LookTypes, Lookup
<1>2. CASE Fetched(a)
  <2>1. account[a] \in Keys /\ account[a] # NoKey BY <1>2 DEF Fetched, LookTypes
  <2>2. PICK l \in Listings[account[a]] : \E s \in Candidates(l) : found' = [found EXCEPT ![a] = s]
    BY <1>2 DEF Fetched
  <2>3. PICK s \in Candidates(l) : found' = [found EXCEPT ![a] = s] BY <2>2
  <2>4. s \in Seq(Usable(account[a])) BY <2>1, CandidatesType
  <2>5. s \in C BY <2>1, <2>4, UsableModels, SeqMonotonic
  <2>6. UNCHANGED <<cache, account, key>> BY <1>2 DEF Fetched, Lookup
  <2>7. found' \in [Actors -> C] BY <2>3, <2>5 DEF LookTypes
  <2> QED BY <2>6, <2>7 DEF LookTypes
<1>3. CASE Store(a)
  <2>1. /\ pc[a] = "store" /\ UNCHANGED <<account, found, key>>
        /\ cache'.of = account[a] /\ cache'.models = found[a]
    BY <1>3 DEF Store, Lookup
  <2>2. account[a] \in Keys /\ found[a] \in C BY <2>1 DEF LookTypes
  <2> QED BY <2>1, <2>2 DEF LookTypes
<1> QED BY <1>1, <1>2, <1>3 DEF Lookup

Stored(a) == pc[a] = "store" => account[a] \in Keys

Types == LookTypes /\ FileTypes /\ LoopTypes /\ pc \in [Actors -> Places] /\ chain \in [Chats -> Seq(Models)]

LEMMA Going ==
    ASSUME pc \in [Actors -> Places], NEW a \in Actors, NEW l \in Places, Goto(a, l)
    PROVE  pc' \in [Actors -> Places]
BY DEF Goto

(* Returning gives everything back.                                        *)
LEMMA ReturnTypes ==
    ASSUME Types, FileTypes', NEW t \in Turns, Return(t), UNCHANGED <<cache, found, key, chain>>,
           outcome' = outcome \/ \E o \in {"ok", "none left", "no lookup"} \cup Errors :
                                    outcome' = [outcome EXCEPT ![t] = o]
    PROVE  Types'
<1> t \in Actors BY Kinds
<1>1. pc' \in [Actors -> Places] BY Going DEF Return, Places, Types
<1>2. LookTypes' BY DEF Types, LookTypes, Return
<1>3. LoopTypes'
  <2>1. queue' \in [Turns -> Seq(Models)] /\ tried' \in [Turns -> Seq(Models)]
    <3>1. <<>> \in Seq(Models) BY EmptySeq
    <3> DEFINE C == Seq(Models)
    <3>2. queue \in [Turns -> C] /\ tried \in [Turns -> C] BY DEF Types, LoopTypes
    <3>3. <<>> \in C BY <3>1
    <3> HIDE DEF C
    <3>4. queue' \in [Turns -> C] /\ tried' \in [Turns -> C] BY <3>2, <3>3 DEF Return
    <3> QED BY <3>4 DEF C
  <2>2. attempted' \in [Turns -> SUBSET Models] /\ heard' \in [Turns -> SUBSET Models]
    BY DEF Types, LoopTypes, Return
  <2>3. loaded' \in [Turns -> BOOLEAN] /\ emitted' \in [Turns -> BOOLEAN]
    BY DEF Types, LoopTypes, Return
  <2>4. outcome' \in [Turns -> Errors \cup {"none", "ok", "none left", "no lookup"}]
    BY DEF Types, LoopTypes
  <2> QED BY <2>1, <2>2, <2>3, <2>4 DEF LoopTypes
<1> QED BY <1>1, <1>2, <1>3 DEF Types

(* The steps of the loop, apart from those on the health file.             *)
LEMMA LoopTypeSteps ==
    ASSUME IInv, Types, NEW t \in Turns, Stored(t),
           \/ Begin(t) \/ GiveUp(t) \/ NeedFallbacks(t) \/ Pick(t) \/ Lookup(t) \/ Choose(t) \/ LookupFails(t)
           \/ Ask(t) \/ Forward(t) \/ StreamEnds(t) \/ Abandon(t)
    PROVE  Types'
<1> DEFINE C == Seq(Models)
<1> t \in Actors BY Kinds
<1>0. /\ LookTypes /\ FileTypes /\ LoopTypes /\ pc \in [Actors -> Places] /\ chain \in [Chats -> C]
      /\ queue \in [Turns -> C] /\ tried \in [Turns -> C] /\ found \in [Actors -> C]
  BY DEF Types, LookTypes, LoopTypes
<1>f. UNCHANGED fileVars => FileTypes' BY <1>0 DEF FileTypes, fileVars
<1>l. UNCHANGED <<cacheVars, key>> => LookTypes' BY <1>0 DEF LookTypes, cacheVars
<1> HIDE DEF C
<1>1. CASE Begin(t)
  <2>1. pc' \in [Actors -> Places] BY <1>0, <1>1, Going DEF Begin, Places
  <2>2. LookTypes' /\ chain' = chain BY <1>l, <1>1 DEF Begin
  <2>3. Primary \in Models /\ \A h \in Loads : Barred(h) \subseteq Models BY OpenRouterAssumption DEF Barred
  <2>4. FileTypes'
    <3>1. PICK h \in Loads : since' = [since EXCEPT ![t] = Barred(h)] BY <1>1 DEF Begin
    <3>2. UNCHANGED <<health, healthMu, store>> BY <1>1 DEF Begin
    <3> QED BY <1>0, <2>3, <3>1, <3>2 DEF FileTypes
  <2>5. <<Primary>> \in C BY <2>3 DEF C
  <2>6. queue' \in [Turns -> C] BY <1>0, <1>1, <2>5 DEF Begin
  <2>7. attempted' \in [Turns -> SUBSET Models]
    <3>1. attempted \in [Turns -> SUBSET Models] /\ {Primary} \in SUBSET Models BY <1>0, <2>3 DEF LoopTypes
    <3>2. attempted' = [attempted EXCEPT ![t] = {Primary}] \/ attempted' = attempted BY <1>1 DEF Begin
    <3> QED BY <3>1, <3>2
  <2>8. UNCHANGED <<tried, loaded, emitted, outcome, heard>> BY <1>1 DEF Begin
  <2>9. LoopTypes' BY <1>0, <2>6, <2>7, <2>8 DEF LoopTypes, C
  <2> QED BY <1>0, <2>1, <2>2, <2>4, <2>9 DEF Types, C
<1>2. CASE GiveUp(t) \/ LookupFails(t)
  <2>1. Return(t) /\ UNCHANGED <<fileVars, cache, found, key, chain>>
    BY <1>2 DEF GiveUp, LookupFails, Give
  <2>2. \E o \in {"none left", "no lookup"} : outcome' = [outcome EXCEPT ![t] = IF @ \in Errors THEN @ ELSE o]
    BY <1>2 DEF GiveUp, LookupFails, Give
  <2>3. \E o \in {"ok", "none left", "no lookup"} \cup Errors : outcome' = [outcome EXCEPT ![t] = o]
    <3>1. CASE outcome[t] \in Errors
      <4>1. outcome' = [outcome EXCEPT ![t] = outcome[t]] BY <2>2, <3>1 DEF LoopTypes
      <4> QED BY <3>1, <4>1
    <3>2. CASE outcome[t] \notin Errors BY <2>2, <3>2
    <3> QED BY <3>1, <3>2
  <2> QED BY <1>f, <2>1, <2>3, ReturnTypes
<1>3. CASE Abandon(t)
  <2>1. "other" \in Errors BY DEF Errors
  <2> QED BY <1>3, <1>f, <2>1, ReturnTypes DEF Abandon
<1>4. CASE NeedFallbacks(t)
  <2>1. pc' \in [Actors -> Places] BY <1>0, <1>4, Going DEF NeedFallbacks, Places
  <2>2. LookTypes' /\ FileTypes' /\ chain' = chain BY <1>l, <1>f, <1>4 DEF NeedFallbacks
  <2>3. LoopTypes' BY <1>0, <1>4 DEF LoopTypes, NeedFallbacks
  <2> QED BY <1>0, <2>1, <2>2, <2>3 DEF Types, C
<1>5. CASE Pick(t)
  <2>1. LookTypes' /\ FileTypes' /\ chain' = chain /\ UNCHANGED <<loaded, outcome, heard>>
    BY <1>l, <1>f, <1>5 DEF Pick
  <2>2. queue[t] \in C /\ queue[t] # <<>> BY <1>0, <1>5 DEF Pick
  <2>3. Head(queue[t]) \in Models /\ Tail(queue[t]) \in C BY <2>2, HeadTailProperties DEF C
  <2>4. queue' \in [Turns -> C] BY <1>0, <1>5, <2>3 DEF Pick
  <2>5. CASE PassOver(t)
    <3>1. UNCHANGED <<attempted, tried, emitted, pc>> BY <1>5, <2>5 DEF Pick
    <3>2. LoopTypes' BY <1>0, <2>1, <2>4, <3>1 DEF LoopTypes, C
    <3> QED BY <1>0, <2>1, <3>1, <3>2 DEF Types, C
  <2>6. CASE ~PassOver(t)
    <3> DEFINE m == Head(queue[t])
    <3>1. /\ attempted' = [attempted EXCEPT ![t] = @ \cup {m}] /\ tried' = [tried EXCEPT ![t] = Append(@, m)]
          /\ emitted' = [emitted EXCEPT ![t] = FALSE] /\ Goto(t, "ask")
      BY <1>5, <2>6 DEF Pick
    <3>2. Append(tried[t], m) \in C BY <1>0, <2>3, AppendProperties DEF C
    <3> HIDE DEF m
    <3>3. tried' \in [Turns -> C] BY <1>0, <3>1, <3>2
    <3>4. attempted' \in [Turns -> SUBSET Models] BY <1>0, <2>3, <3>1 DEF LoopTypes, m
    <3>5. emitted' \in [Turns -> BOOLEAN] BY <1>0, <3>1 DEF LoopTypes
    <3>6. LoopTypes' BY <1>0, <2>1, <2>4, <3>3, <3>4, <3>5 DEF LoopTypes, C
    <3>7. pc' \in [Actors -> Places] BY <1>0, <3>1, Going DEF Places
    <3> QED BY <1>0, <2>1, <3>6, <3>7 DEF Types, C
  <2> QED BY <2>5, <2>6
<1>6. CASE Lookup(t)
  <2>1. LookTypes' BY <1>0, <1>6, LookSteps DEF Stored
  <2>2. \E l \in {"fetch", "store", "choose"} : Goto(t, l)
    BY <1>6 DEF Lookup, CacheHit, CacheMiss, Fetched, Store
  <2>3. pc' \in [Actors -> Places] BY <1>0, <2>2, Going DEF Places
  <2>4. UNCHANGED <<fileVars, turnVars, chain>> BY <1>6 DEF Lookup
  <2>5. LoopTypes' BY <1>0, <2>4 DEF LoopTypes, turnVars
  <2> QED BY <1>0, <1>f, <2>1, <2>3, <2>4, <2>5 DEF Types, C
<1>7. CASE Choose(t)
  <2>h. PICK h \in Loads : /\ \E r \in Rankings(Eligible(t, h), h) : queue' = [queue EXCEPT ![t] = @ \o r]
                           /\ since' = [since EXCEPT ![t] = @ \cap Barred(h)]
    BY <1>7 DEF Choose
  <2>1. PICK r \in Rankings(Eligible(t, h), h) : queue' = [queue EXCEPT ![t] = @ \o r] BY <2>h
  <2>2. found[t] \in Seq(Models) BY <1>0 DEF C
  <2>3. Eligible(t, h) \in Seq((Models \ Unfit[t]) \ Barred(h)) BY <2>2, EligibleType
  <2>4. r \in Seq((Models \ Unfit[t]) \ Barred(h)) BY <2>3, RankingType
  <2>5. r \in C BY <2>4, SeqMonotonic DEF C
  <2>6. queue[t] \o r \in C BY <1>0, <2>5, ConcatProperties DEF C
  <2>7. queue' \in [Turns -> C] BY <1>0, <2>1, <2>6
  <2>8. /\ UNCHANGED <<health, healthMu, store, cache, account, key, attempted, tried, loaded, emitted, outcome, heard, chain>>
        /\ found' = [found EXCEPT ![t] = <<>>]
    BY <1>7 DEF Choose
  <2>f. FileTypes' BY <1>0, <2>h, <2>8 DEF FileTypes
  <2>9. <<>> \in C BY EmptySeq DEF C
  <2>10. found' \in [Actors -> C] BY <1>0, <2>8, <2>9
  <2>11. LookTypes' BY <1>0, <2>8, <2>10 DEF LookTypes, C
  <2>12. LoopTypes' BY <1>0, <2>7, <2>8 DEF LoopTypes, C
  <2>13. pc' \in [Actors -> Places] BY <1>0, <1>7, Going DEF Choose, Places
  <2> QED BY <1>0, <2>f, <2>8, <2>11, <2>12, <2>13 DEF Types, C
<1>8. CASE Ask(t) \/ StreamEnds(t)
  <2>1. /\ UNCHANGED <<fileVars, cacheVars, key, queue, attempted, tried, loaded, emitted, heard, chain>>
        /\ Goto(t, "stream") \/ Goto(t, "record")
        /\ outcome' = outcome \/ \E o \in Errors \cup {"ok"} : outcome' = [outcome EXCEPT ![t] = o]
    <3>1. CASE Ask(t)
      <4>1. (IF key = NoKey THEN {"other"} ELSE Errors) \subseteq Errors \cup {"ok"} BY DEF Errors
      <4> QED BY <3>1, <4>1 DEF Ask
    <3>2. CASE StreamEnds(t)
      <4>1. Errors \cup (IF emitted[t] THEN {"ok"} ELSE {}) \subseteq Errors \cup {"ok"} OBVIOUS
      <4> QED BY <3>2, <4>1 DEF StreamEnds
    <3> QED BY <1>8, <3>1, <3>2
  <2>2. pc' \in [Actors -> Places] BY <1>0, <2>1, Going DEF Places
  <2>3. LoopTypes' BY <1>0, <2>1 DEF LoopTypes
  <2> QED BY <1>0, <1>f, <1>l, <2>1, <2>2, <2>3 DEF Types, C
<1>9. CASE Forward(t)
  <2>1. pc[t] = "stream" /\ UNCHANGED <<fileVars, cacheVars, key, queue, attempted, tried, loaded, outcome, pc, chain>>
    BY <1>9 DEF Forward, Turn
  <2>2. tried[t] \in Seq(Models) /\ tried[t] # <<>> BY <1>0, <2>1 DEF IInv, TurnInv, AskedInv, Asking, C
  <2>3. Model(t) \in Models
    <3>1. Len(tried[t]) \in Nat \ {0} BY <2>2, EmptySeq
    <3>2. Len(tried[t]) \in 1..Len(tried[t]) BY <3>1
    <3> QED BY <2>2, <3>2, ElementOfSeq DEF Model, Last
  <2>4. heard' \in [Turns -> SUBSET Models] /\ emitted' \in [Turns -> BOOLEAN]
    BY <1>0, <1>9, <2>3 DEF Forward, LoopTypes
  <2>5. LoopTypes' BY <1>0, <2>1, <2>4 DEF LoopTypes
  <2> QED BY <1>0, <1>f, <1>l, <2>1, <2>5 DEF Types, C
<1> QED BY <1>1, <1>2, <1>3, <1>4, <1>5, <1>6, <1>7, <1>8, <1>9

(* Reading or writing the file keeps the types of what is kept about it.   *)
LEMMA HealthTypes ==
    ASSUME FileTypes, FileInv', NEW w \in Writers, ReadHealth(w) \/ \E new : WriteHealth(w, new)
    PROVE  FileTypes'
<1>1. health' \in [Models -> Record] /\ store' \in [Writers -> [Models -> Record]] BY DEF FileInv
<1>2. healthMu' \in Writers \cup {Nobody} BY DEF ReadHealth, WriteHealth
<1>3. since' \in [Turns -> SUBSET Models]
  <2>1. since \in [Turns -> SUBSET Models] BY DEF FileTypes
  <2>2. CASE since' = since BY <2>1, <2>2
  <2>3. CASE since' = [t \in Turns |-> since[t] \cap Barred(health')] BY <2>1, <2>3
  <2> QED BY <2>2, <2>3 DEF ReadHealth, WriteHealth
<1> QED BY <1>1, <1>2, <1>3 DEF FileTypes

LEMMA RecordTypeSteps ==
    ASSUME FileInv, FileInv', Types, NEW t \in Turns, RecordRead(t) \/ RecordWrite(t)
    PROVE  Types'
<1> t \in Actors /\ t \in Writers BY Kinds DEF Writers
<1> LookTypes /\ FileTypes /\ LoopTypes /\ pc \in [Actors -> Places] /\ chain \in [Chats -> Seq(Models)]
  BY DEF Types
<1>1. CASE RecordRead(t)
  <2>1. FileTypes' BY <1>1, HealthTypes DEF RecordRead
  <2>2. pc' \in [Actors -> Places] BY <1>1, Going DEF RecordRead, Places
  <2>3. UNCHANGED <<cacheVars, turnVars, key, chain>> BY <1>1 DEF RecordRead
  <2>4. LookTypes' BY <2>3 DEF LookTypes, cacheVars
  <2>5. LoopTypes' BY <2>3 DEF LoopTypes, turnVars
  <2> QED BY <2>1, <2>2, <2>3, <2>4, <2>5 DEF Types
<1>2. CASE RecordWrite(t)
  <2>1. FileTypes'
    <3>1. \E new : WriteHealth(t, new) BY <1>2 DEF RecordWrite
    <3> QED BY <3>1, HealthTypes
  <2>2. CASE MayRetry(t)
    <3>1. /\ Goto(t, "pick") \/ Goto(t, "lookup")
          /\ loaded' = [loaded EXCEPT ![t] = TRUE]
          /\ UNCHANGED <<queue, attempted, tried, emitted, heard, account, cache, found, key, outcome, chain>>
      BY <1>2, <2>2 DEF RecordWrite
    <3>2. pc' \in [Actors -> Places] BY <3>1, Going DEF Places
    <3>3. LookTypes' BY <3>1 DEF LookTypes
    <3>4. loaded' \in [Turns -> BOOLEAN] BY <3>1 DEF LoopTypes
    <3>5. LoopTypes' BY <3>1, <3>4 DEF LoopTypes
    <3> QED BY <2>1, <3>1, <3>2, <3>3, <3>5 DEF Types
  <2>3. CASE ~MayRetry(t)
    <3>1. Return(t) /\ UNCHANGED <<cache, found, key, outcome, chain>> BY <1>2, <2>3 DEF RecordWrite
    <3> QED BY <2>1, <3>1, ReturnTypes
  <2> QED BY <2>2, <2>3
<1> QED BY <1>1, <1>2

LEMMA ChatTypeSteps ==
    ASSUME Types, NEW c \in Chats, Chat(c) \/ ChatStep(c), Stored(c),
           found[c] \in Seq(Models \ {Free})
    PROVE  Types'
<1> DEFINE C == Seq(Models)
<1> c \in Actors BY Kinds
<1>0. /\ LookTypes /\ FileTypes /\ LoopTypes /\ pc \in [Actors -> Places] /\ chain \in [Chats -> C]
      /\ account \in [Actors -> Keys \cup {NoKey}] /\ found \in [Actors -> C]
  BY DEF Types, LookTypes
<1>p. Primary \in Models /\ Free \in Models BY OpenRouterAssumption DEF Models
<1>s. <<>> \in C /\ <<Primary>> \in C BY <1>p, EmptySeq
<1>t. UNCHANGED <<fileVars, turnVars>> => FileTypes' /\ LoopTypes'
  BY <1>0 DEF FileTypes, fileVars, LoopTypes, turnVars
<1>c. \A list \in Seq(Models \ {Free}) : Chain(list, Unfit[c]) \in C
  <2> SUFFICES ASSUME NEW list \in Seq(Models \ {Free}) PROVE Chain(list, Unfit[c]) \in C OBVIOUS
  <2> DEFINE Y == {Primary, Free} \cup (ToSet(list) \ Unfit[c])
  <2>1. Chain(list, Unfit[c]) \in Seq(Y) BY ChainType
  <2>2. \A m \in ToSet(list) : m \in Models
    <3>1. DOMAIN list = 1..Len(list) BY LenProperties
    <3> QED BY <3>1, ElementOfSeq DEF ToSet
  <2>3. Y \subseteq Models BY <1>p, <2>2
  <2> HIDE DEF Y
  <2> QED BY <2>1, <2>3, SeqMonotonic
<1>d. <<>> \in Seq(Models \ {Free}) BY EmptySeq
<1> HIDE DEF C
<1>1. CASE Chat(c)
  <2>1. UNCHANGED <<fileVars, cacheVars, turnVars, key>> BY <1>1 DEF Chat
  <2>2. LookTypes' BY <1>0, <2>1 DEF LookTypes, cacheVars
  <2>3. (Goto(c, "done") \/ Goto(c, "lookup")) /\ (chain' = chain \/ chain' = [chain EXCEPT ![c] = <<Primary>>])
    BY <1>1 DEF Chat
  <2>4. pc' \in [Actors -> Places] BY <1>0, <2>3, Going DEF Places
  <2>5. chain' \in [Chats -> C] BY <1>0, <1>s, <2>3
  <2> QED BY <1>t, <2>1, <2>2, <2>4, <2>5 DEF Types, C
<1>2. CASE Lookup(c)
  <2>1. LookTypes' BY <1>0, <1>2, LookSteps DEF Stored
  <2>2. Goto(c, "fetch") \/ Goto(c, "store") \/ Goto(c, "choose")
    BY <1>2 DEF Lookup, CacheHit, CacheMiss, Fetched, Store
  <2>3. pc' \in [Actors -> Places] BY <1>0, <2>2, Going DEF Places
  <2>4. UNCHANGED <<fileVars, turnVars, chain>> BY <1>2 DEF Lookup
  <2> QED BY <1>0, <1>t, <2>1, <2>3, <2>4 DEF Types, C
<1>3. CASE Send(c)
  <2>1. /\ UNCHANGED <<fileVars, cache, found, turnVars, key>> /\ Goto(c, "done")
        /\ account' = account \/ account' = [account EXCEPT ![c] = NoKey]
    BY <1>3 DEF Send
  <2>a. account' \in [Actors -> Keys \cup {NoKey}] BY <1>0, <2>1
  <2>2. LookTypes' BY <1>0, <2>1, <2>a DEF LookTypes
  <2>3. \E list \in Seq(Models \ {Free}) : chain' = [chain EXCEPT ![c] = Chain(list, Unfit[c])]
    BY <1>3, <1>d DEF Send
  <2>4. \E s \in C : chain' = [chain EXCEPT ![c] = s] BY <1>c, <2>3
  <2>5. chain' \in [Chats -> C] BY <1>0, <2>4
  <2>6. pc' \in [Actors -> Places] BY <1>0, <2>1, Going DEF Places
  <2> QED BY <1>t, <2>1, <2>2, <2>5, <2>6 DEF Types, C
<1>4. CASE Finish(c)
  <2>1. /\ Goto(c, "idle") /\ chain' = [chain EXCEPT ![c] = <<>>]
        /\ found' = [found EXCEPT ![c] = <<>>] /\ account' = [account EXCEPT ![c] = NoKey]
        /\ UNCHANGED <<fileVars, cache, turnVars, key>>
    BY <1>4 DEF Finish
  <2>2. chain' \in [Chats -> C] /\ found' \in [Actors -> C] BY <1>0, <1>s, <2>1
  <2>3. account' \in [Actors -> Keys \cup {NoKey}] BY <1>0, <2>1
  <2>4. LookTypes' BY <1>0, <2>1, <2>2, <2>3 DEF LookTypes, C
  <2>5. pc' \in [Actors -> Places] BY <1>0, <2>1, Going DEF Places
  <2> QED BY <1>t, <2>1, <2>2, <2>4, <2>5 DEF Types, C
<1> QED BY <1>1, <1>2, <1>3, <1>4 DEF ChatStep

LEMMA AdminTypeSteps ==
    ASSUME FileInv', Types, AdminStep \/ Outside \/ UNCHANGED vars
    PROVE  Types'
<1> Admin \in Actors /\ Admin \in Writers BY Kinds DEF Writers
<1> LookTypes /\ FileTypes /\ LoopTypes /\ pc \in [Actors -> Places] /\ chain \in [Chats -> Seq(Models)]
  BY DEF Types
<1>t. UNCHANGED turnVars => LoopTypes' BY DEF LoopTypes, turnVars
<1>l. UNCHANGED <<cacheVars, key>> => LookTypes' BY DEF LookTypes, cacheVars
<1>f. UNCHANGED fileVars => FileTypes' BY DEF FileTypes, fileVars
<1>n. NoCache.of = Nobody /\ NoCache.models \in Seq(Models)
  <2>1. NoCache.models = <<>> BY DEF NoCache
  <2> QED BY <2>1, EmptySeq DEF NoCache
<1>1. CASE AdminRead
  <2>1. FileTypes' BY <1>1, HealthTypes DEF AdminRead
  <2>2. UNCHANGED <<cacheVars, turnVars, key, chain>> /\ Goto(Admin, "save") BY <1>1 DEF AdminRead
  <2>3. pc' \in [Actors -> Places] BY <2>2, Going DEF Places
  <2> QED BY <1>t, <1>l, <2>1, <2>2, <2>3 DEF Types
<1>2. CASE AdminWrite
  <2>1. FileTypes'
    <3>1. \E new : WriteHealth(Admin, new) BY <1>2 DEF AdminWrite, Lift
    <3> QED BY <3>1, HealthTypes
  <2>2. UNCHANGED <<cacheVars, turnVars, key, chain>> /\ (Goto(Admin, "drop") \/ Goto(Admin, "idle"))
    BY <1>2 DEF AdminWrite, Lift
  <2>3. pc' \in [Actors -> Places] BY <2>2, Going DEF Places
  <2> QED BY <1>t, <1>l, <2>1, <2>2, <2>3 DEF Types
<1>3. CASE DropCache \/ CacheTooOld
  <2>1. /\ UNCHANGED <<fileVars, turnVars, key, account, found, chain>> /\ cache' = NoCache
        /\ pc' = pc \/ Goto(Admin, "idle")
    BY <1>3 DEF DropCache, CacheTooOld
  <2>2. LookTypes' BY <1>n, <2>1 DEF LookTypes
  <2>3. pc' \in [Actors -> Places] BY <2>1, Going DEF Places
  <2> QED BY <1>t, <1>f, <2>1, <2>2, <2>3 DEF Types
<1>4. CASE ResetHistory
  <2>1. FileTypes' BY <1>4, HealthTypes DEF ResetHistory
  <2>2. UNCHANGED <<cacheVars, turnVars, key, pc, chain>> BY <1>4 DEF ResetHistory
  <2> QED BY <1>t, <1>l, <2>1, <2>2 DEF Types
<1>5. CASE SetKey
  <2>1. UNCHANGED <<fileVars, cacheVars, turnVars, pc, chain>> /\ key' \in Keys \cup {NoKey}
    BY <1>5 DEF SetKey
  <2>2. LookTypes' BY <2>1 DEF LookTypes, cacheVars
  <2> QED BY <1>t, <1>f, <2>1, <2>2 DEF Types
<1>6. CASE CooledDown
  <2>1. /\ UNCHANGED <<healthMu, store, cacheVars, turnVars, key, pc, chain>>
        /\ since' = [t \in Turns |-> since[t] \cap Barred(health')]
    BY <1>6 DEF CooledDown
  <2>2. since' \in [Turns -> SUBSET Models] BY <2>1 DEF FileTypes
  <2>3. FileTypes' BY <2>1, <2>2 DEF FileTypes, FileInv
  <2> QED BY <1>t, <1>l, <2>1, <2>3 DEF Types
<1>7. CASE UNCHANGED vars
  BY <1>t, <1>l, <1>f, <1>7 DEF vars, Types
<1> QED BY <1>1, <1>2, <1>3, <1>4, <1>5, <1>6, <1>7 DEF AdminStep, Outside

-----------------------------------------------------------------------------
(***************************************************************************)
(* Which models are used.  The cache holds candidates of the key it names; *)
(* what a lookup found belongs to the key it was made with, and is at hand *)
(* only until it is used; a turn has nothing but the primary model before  *)
(* its one lookup is over.  A model that was barred when the turn began,   *)
(* and still is, does not get into its queue.                              *)
(***************************************************************************)
Looking == {"lookup", "fetch", "store", "choose"}

CacheInv == cache = NoCache \/ (cache.of \in Keys /\ cache.models \in Seq(Usable(cache.of)))

FoundInv(a) ==
    /\ found[a] \in Seq(Usable(account[a]))
    /\ found[a] # <<>> => pc[a] \in {"store", "choose"} \/ (a \in Chats /\ pc[a] = "done")
    /\ Stored(a)

Allowed(t) == {Primary} \cup (IF loaded[t] /\ pc[t] \notin Looking THEN Usable(account[t]) \ Unfit[t] ELSE {})

QueueInv(t) ==
    /\ pc[t] \in Looking => loaded[t]
    /\ pc[t] = "idle" => queue[t] = <<>>
    /\ tried[t] \in Seq(Allowed(t))
    /\ queue[t] \in Seq(Allowed(t) \ since[t])

ChatInv(c) ==
    /\ pc[c] # "done" => chain[c] = <<>>
    /\ pc[c] = "done" => /\ chain[c] \in Seq({Primary, Free} \cup (Usable(account[c]) \ Unfit[c]))
                         /\ ChainOf(chain[c], found[c], Unfit[c])

StillBarred == \A t \in Turns : since[t] \subseteq Barred(health)

UseInv ==
    /\ CacheInv /\ StillBarred
    /\ \A a \in Turns \cup Chats : FoundInv(a)
    /\ \A t \in Turns : QueueInv(t)
    /\ \A c \in Chats : ChatInv(c)

(* What a step of one actor leaves to the others, and what it does to the  *)
(* models barred since a turn began.                                       *)
SameLook(b) == pc'[b] = pc[b] /\ account'[b] = account[b] /\ found'[b] = found[b]
SameLoop(u) == queue'[u] = queue[u] /\ tried'[u] = tried[u] /\ loaded'[u] = loaded[u]
Others(a)   == (\A b \in Actors \ {a} : SameLook(b)) /\ (\A u \in Turns \ {a} : SameLoop(u))
Shrinking   == UNCHANGED <<health, since>> \/ since' = [t \in Turns |-> since[t] \cap Barred(health')]

LEMMA Shrinks ==
    ASSUME Types, StillBarred, Shrinking
    PROVE  StillBarred' /\ \A u \in Turns : since'[u] \subseteq since[u]
BY DEF StillBarred, Shrinking

(* A lookup finds what the key it was made with may use.                   *)
LEMMA LookupFound ==
    ASSUME Types, CacheInv, NEW a \in Actors, FoundInv(a), Lookup(a)
    PROVE  CacheInv' /\ FoundInv(a)' /\ Others(a) /\ Shrinking
<1>0. /\ pc \in [Actors -> Places] /\ key \in Keys \cup {NoKey}
      /\ account \in [Actors -> Keys \cup {NoKey}] /\ DOMAIN found = Actors
  BY DEF Types, LookTypes
<1>e. \A S : <<>> \in Seq(S) BY EmptySeq
<1>1. Shrinking /\ \A u \in Turns \ {a} : SameLoop(u)
  BY DEF Lookup, fileVars, turnVars, Shrinking, SameLoop
<1>2. CASE CacheHit(a)
  <2>1. /\ account'[a] = key /\ found'[a] = cache.models /\ pc'[a] = "choose" /\ cache' = cache
        /\ \A b \in Actors \ {a} : SameLook(b)
    BY <1>0, <1>2 DEF CacheHit, Goto, SameLook
  <2>2. cache.models \in Seq(Usable(key))
    <3>1. CASE cache = NoCache
      <4>1. cache.models = <<>> BY <3>1 DEF NoCache
      <4> QED BY <1>e, <4>1
    <3>2. CASE cache # NoCache BY <1>2, <3>2 DEF CacheInv, CacheHit
    <3> QED BY <3>1, <3>2
  <2>3. CacheInv' BY <2>1 DEF CacheInv
  <2>4. FoundInv(a)' BY <2>1, <2>2 DEF FoundInv, Stored
  <2> QED BY <1>1, <2>1, <2>3, <2>4 DEF Others
<1>3. CASE CacheMiss(a)
  <2>1. /\ pc[a] = "lookup" /\ pc'[a] = "fetch" /\ UNCHANGED <<cache, found>>
        /\ \A b \in Actors \ {a} : SameLook(b)
    BY <1>0, <1>3 DEF CacheMiss, Goto, SameLook
  <2>2. found'[a] = <<>> BY <2>1 DEF FoundInv
  <2>3. FoundInv(a)' BY <1>e, <2>1, <2>2 DEF FoundInv, Stored
  <2>4. CacheInv' BY <2>1 DEF CacheInv
  <2> QED BY <1>1, <2>1, <2>3, <2>4 DEF Others
<1>4. CASE Fetched(a)
  <2>1. account[a] \in Keys /\ account[a] # NoKey BY <1>0, <1>4 DEF Fetched
  <2>2. PICK l \in Listings[account[a]] : \E s \in Candidates(l) : found' = [found EXCEPT ![a] = s]
    BY <1>4 DEF Fetched
  <2>3. PICK s \in Candidates(l) : found' = [found EXCEPT ![a] = s] BY <2>2
  <2>4. s \in Seq(Usable(account[a])) BY <2>1, CandidatesType
  <2>5. /\ pc'[a] = "store" /\ UNCHANGED <<cache, account>> /\ found'[a] = s
        /\ \A b \in Actors \ {a} : SameLook(b)
    BY <1>0, <1>4, <2>3 DEF Fetched, Goto, SameLook
  <2>6. FoundInv(a)' BY <2>1, <2>4, <2>5 DEF FoundInv, Stored
  <2>7. CacheInv' BY <2>5 DEF CacheInv
  <2> QED BY <1>1, <2>5, <2>6, <2>7 DEF Others
<1>5. CASE Store(a)
  <2>1. /\ pc[a] = "store" /\ pc'[a] = "choose" /\ UNCHANGED <<account, found>>
        /\ cache'.of = account[a] /\ cache'.models = found[a]
        /\ \A b \in Actors \ {a} : SameLook(b)
    BY <1>0, <1>5 DEF Store, Goto, SameLook
  <2>2. CacheInv' BY <2>1 DEF CacheInv, FoundInv, Stored
  <2>3. FoundInv(a)' BY <2>1 DEF FoundInv, Stored
  <2> QED BY <1>1, <2>1, <2>2, <2>3 DEF Others
<1> QED BY <1>2, <1>3, <1>4, <1>5 DEF Lookup

LEMMA FoundSame ==
    ASSUME NEW a, FoundInv(a), SameLook(a)
    PROVE  FoundInv(a)'
BY DEF FoundInv, SameLook, Stored

(* A queue that only loses what is barred no longer is as good as before.  *)
LEMMA QueueSame ==
    ASSUME NEW t \in Turns, QueueInv(t), since'[t] \subseteq since[t], queue'[t] = queue[t], tried'[t] = tried[t],
           Allowed(t) \subseteq Allowed(t)', pc'[t] \in Looking => loaded'[t], pc'[t] = "idle" => pc[t] = "idle"
    PROVE  QueueInv(t)'
<1> DEFINE A == Allowed(t)
           B == Allowed(t)'
<1>1. tried[t] \in Seq(A) /\ queue[t] \in Seq(A \ since[t]) BY DEF QueueInv
<1>2. A \subseteq B /\ (A \ since[t]) \subseteq (B \ since'[t]) OBVIOUS
<1> HIDE DEF A, B
<1>3. tried'[t] \in Seq(B) /\ queue'[t] \in Seq(B \ since'[t]) BY <1>1, <1>2, SeqMonotonic
<1> USE DEF A, B
<1> QED BY <1>3 DEF QueueInv

(* A turn that returns takes nothing along.                                *)
LEMMA ReturnUse ==
    ASSUME Types, NEW t \in Turns, FoundInv(t), pc[t] \notin {"store", "choose"}, Return(t), UNCHANGED <<cache, found>>
    PROVE  FoundInv(t)' /\ QueueInv(t)' /\ Others(t) /\ tried'[t] = <<>>
<1> t \in Actors /\ t \notin Chats BY Kinds
<1>0. /\ pc \in [Actors -> Places] /\ DOMAIN account = Actors
      /\ DOMAIN queue = Turns /\ DOMAIN tried = Turns /\ DOMAIN loaded = Turns
  BY DEF Types, LookTypes, LoopTypes
<1>e. \A S : <<>> \in Seq(S) BY EmptySeq
<1>1. /\ pc'[t] = "done" /\ queue'[t] = <<>> /\ tried'[t] = <<>> /\ found'[t] = found[t]
      /\ \A b \in Actors \ {t} : SameLook(b)
      /\ \A u \in Turns \ {t} : SameLoop(u)
  BY <1>0 DEF Return, Goto, SameLook, SameLoop
<1>2. found'[t] = <<>> BY <1>1 DEF FoundInv
<1>3. FoundInv(t)' BY <1>e, <1>1, <1>2 DEF FoundInv, Stored
<1>4. QueueInv(t)' BY <1>e, <1>1 DEF QueueInv, Looking
<1> QED BY <1>1, <1>3, <1>4 DEF Others

LEMMA FoundKept ==
    ASSUME NEW t \in Turns, FoundInv(t), pc[t] \notin {"store", "choose"}, account'[t] = account[t],
           found'[t] = found[t], pc'[t] # "store"
    PROVE  FoundInv(t)'
<1>1. found'[t] = <<>> BY Kinds DEF FoundInv
<1> QED BY <1>1, EmptySeq DEF FoundInv, Stored

(* The steps of a turn that is not returning and reads no catalogue.       *)
LEMMA StepUse ==
    ASSUME Types, CacheInv, StillBarred, NEW t \in Turns, FoundInv(t), QueueInv(t),
           pc[t] \notin {"store", "choose"}, NEW l \in Places \ {"store", "idle"}, pc' = pc \/ Goto(t, l),
           pc[t] # "idle", UNCHANGED <<cache, account, found>>, Shrinking,
           queue' = queue, tried' = tried,
           loaded' = loaded \/ loaded' = [loaded EXCEPT ![t] = TRUE],
           pc'[t] \in Looking => loaded'[t],
           pc'[t] \notin Looking => pc[t] \notin Looking /\ loaded'[t] = loaded[t],
           pc[t] \notin Looking /\ pc'[t] \in Looking => ~loaded[t]
    PROVE  CacheInv' /\ FoundInv(t)' /\ QueueInv(t)' /\ Others(t)
<1> t \in Actors BY Kinds
<1>0. pc \in [Actors -> Places] /\ DOMAIN loaded = Turns BY DEF Types, LoopTypes
<1>1. pc'[t] # "store" /\ pc'[t] # "idle" /\ \A b \in Actors \ {t} : pc'[b] = pc[b] BY <1>0 DEF Goto
<1>2. Others(t) BY <1>0, <1>1 DEF Others, SameLook, SameLoop
<1>3. FoundInv(t)' BY <1>1, FoundKept
<1>4. since'[t] \subseteq since[t] BY Shrinks
<1>5. Allowed(t) \subseteq Allowed(t)'
  <2>1. account'[t] = account[t] OBVIOUS
  <2>2. CASE pc'[t] \notin Looking BY <2>1, <2>2 DEF Allowed
  <2>3. CASE pc'[t] \in Looking
    <3>1. Allowed(t) = {Primary} BY <2>3 DEF Allowed
    <3>2. Primary \in Allowed(t)' BY DEF Allowed
    <3> QED BY <3>1, <3>2
  <2> QED BY <2>2, <2>3
<1>6. QueueInv(t)' BY <1>1, <1>4, <1>5, QueueSame
<1> QED BY <1>2, <1>3, <1>6 DEF CacheInv

TurnGoal(t) ==
    /\ CacheInv' /\ FoundInv(t)' /\ QueueInv(t)' /\ Others(t)
    /\ StillBarred' /\ \A u \in Turns \ {t} : since'[u] \subseteq since[u]
    /\ chain' = chain
    /\ Len(tried'[t]) > Len(tried[t]) => Model(t)' \notin since[t]

(* Every step of a turn keeps its part, leaves the others theirs, and asks *)
(* no model barred since the turn began.                                   *)
LEMMA TurnUse ==
    ASSUME IInv, Types, CacheInv, StillBarred, NEW t \in Turns, FoundInv(t), QueueInv(t), Begin(t) \/ TurnStep(t)
    PROVE  TurnGoal(t)
<1> t \in Actors /\ t \notin Chats BY Kinds
<1>0. /\ pc \in [Actors -> Places] /\ DOMAIN account = Actors /\ DOMAIN found = Actors /\ DOMAIN since = Turns
      /\ DOMAIN queue = Turns /\ DOMAIN tried = Turns /\ loaded \in [Turns -> BOOLEAN]
      /\ Len(tried[t]) \in Nat
  <2>1. tried[t] \in Seq(Models) BY DEF Types, LoopTypes
  <2>2. Len(tried[t]) \in Nat BY <2>1, LenProperties
  <2> QED BY <2>2 DEF Types, LookTypes, LoopTypes, FileTypes
<1>e. \A S : <<>> \in Seq(S) BY EmptySeq
<1>z. Len(<<>>) = 0 BY EmptySeq
(* What is left to show when no model is asked.                            *)
<1>a. ASSUME Shrinking, chain' = chain, tried'[t] = tried[t] \/ tried'[t] = <<>>,
             CacheInv' /\ FoundInv(t)' /\ QueueInv(t)' /\ Others(t)
      PROVE  TurnGoal(t)
  BY <1>0, <1>z, <1>a, Shrinks DEF TurnGoal
<1>b. ASSUME Return(t), UNCHANGED <<cache, found, chain>>, Shrinking, pc[t] \notin {"store", "choose"}
      PROVE  TurnGoal(t)
  <2>1. FoundInv(t)' /\ QueueInv(t)' /\ Others(t) /\ tried'[t] = <<>> BY <1>b, ReturnUse
  <2>2. CacheInv' BY <1>b DEF CacheInv
  <2> QED BY <1>a, <1>b, <2>1, <2>2
<1>f. UNCHANGED fileVars => Shrinking BY DEF fileVars, Shrinking
<1>1. CASE Begin(t)
  <2>1. /\ pc[t] = "idle" /\ pc'[t] = "pick" /\ \A b \in Actors \ {t} : SameLook(b)
        /\ UNCHANGED <<health, cache, account, found, tried, loaded, chain>>
    BY <1>0, <1>1 DEF Begin, Turn, Goto, SameLook, cacheVars
  <2>2. PICK h \in Loads :
          /\ IF Primary \in Barred(h)
             THEN attempted' = [attempted EXCEPT ![t] = {Primary}] /\ UNCHANGED queue
             ELSE queue' = [queue EXCEPT ![t] = <<Primary>>] /\ UNCHANGED attempted
          /\ since' = [since EXCEPT ![t] = Barred(h)]
    BY <1>1 DEF Begin
  <2>3. since'[t] = Barred(h) /\ \A u \in Turns \ {t} : since'[u] = since[u] BY <1>0, <2>2
  <2>b. Barred(h) \subseteq Barred(health)
    <3>1. Barred(NoHealth) = {} BY DEF Barred, NoHealth, Unknown
    <3> QED BY <3>1 DEF Loads
  <2>4. StillBarred' BY <2>1, <2>3, <2>b DEF StillBarred, Barred
  <2>5. /\ \A u \in Turns \ {t} : SameLoop(u)
        /\ \/ Primary \in Barred(h) /\ queue'[t] = queue[t]
           \/ Primary \notin Barred(h) /\ queue'[t] = <<Primary>>
    <3>1. CASE Primary \in Barred(h) BY <2>1, <2>2, <3>1 DEF SameLoop
    <3>2. CASE Primary \notin Barred(h) BY <1>0, <2>1, <2>2, <3>2 DEF SameLoop
    <3> QED BY <3>1, <3>2
  <2>6. FoundInv(t)' BY <2>1, FoundKept
  <2>7. tried'[t] = <<>> BY <2>1 DEF IInv, TurnInv, AskedInv
  <2>8. queue'[t] \in Seq(Allowed(t)' \ since'[t])
    <3>1. CASE queue'[t] = queue[t] BY <1>e, <2>1, <3>1 DEF QueueInv
    <3>2. CASE Primary \notin Barred(h) /\ queue'[t] = <<Primary>>
      <4> DEFINE A == Allowed(t)' \ since'[t]
      <4>1. Primary \in A BY <2>3, <3>2 DEF Allowed
      <4> HIDE DEF A
      <4>2. <<Primary>> \in Seq(A) BY <4>1
      <4> QED BY <3>2, <4>2 DEF A
    <3> QED BY <2>5, <3>1, <3>2
  <2>9. QueueInv(t)' BY <1>e, <2>1, <2>7, <2>8 DEF QueueInv, Looking
  <2>10. CacheInv' BY <2>1 DEF CacheInv
  <2>11. ~(Len(tried'[t]) > Len(tried[t])) BY <1>0, <1>z, <2>7
  <2> QED BY <2>1, <2>3, <2>4, <2>5, <2>6, <2>9, <2>10, <2>11 DEF TurnGoal, Others
<1>2. CASE GiveUp(t) \/ LookupFails(t) \/ Abandon(t)
  BY <1>2, <1>b, <1>f DEF GiveUp, LookupFails, Abandon, Give, Turn
<1>3. CASE NeedFallbacks(t)
  <2>1. /\ pc[t] = "pick" /\ Goto(t, "lookup") /\ pc'[t] = "lookup" /\ ~loaded[t]
        /\ loaded' = [loaded EXCEPT ![t] = TRUE] /\ loaded'[t] = TRUE
        /\ UNCHANGED <<fileVars, cache, account, found, queue, tried, chain>>
    BY <1>0, <1>3 DEF NeedFallbacks, Turn, Goto, Exhausted, cacheVars
  <2>2. CacheInv' /\ FoundInv(t)' /\ QueueInv(t)' /\ Others(t)
    BY <1>f, <2>1, StepUse DEF Places, Looking
  <2> QED BY <1>a, <1>f, <2>1, <2>2
<1>4. CASE Pick(t)
  <2>1. /\ pc[t] = "pick" /\ queue[t] # <<>> /\ queue' = [queue EXCEPT ![t] = Tail(@)]
        /\ UNCHANGED <<fileVars, cache, account, found, loaded, chain>>
    BY <1>4 DEF Pick, Turn, cacheVars
  <2> DEFINE A == Allowed(t)
             m == Head(queue[t])
  <2>2. queue[t] \in Seq(A \ since[t]) /\ tried[t] \in Seq(A) BY DEF QueueInv
  <2>3. \/ pc' = pc /\ tried' = tried
        \/ Goto(t, "ask") /\ tried' = [tried EXCEPT ![t] = Append(@, m)]
    <3>1. CASE PassOver(t) BY <1>4, <3>1 DEF Pick
    <3>2. CASE ~PassOver(t) BY <1>4, <3>2 DEF Pick
    <3> QED BY <3>1, <3>2
  <2>4. pc'[t] \in {"pick", "ask"} /\ \A b \in Actors \ {t} : SameLook(b) BY <1>0, <2>1, <2>3 DEF Goto, SameLook
  <2>5. FoundInv(t)' BY <2>1, <2>4, FoundKept
  <2>6. Allowed(t)' = A BY <2>1, <2>4 DEF Allowed, Looking
  <2> HIDE DEF A
  <2>7. m \in A \ since[t] /\ Tail(queue[t]) \in Seq(A \ since[t]) BY <2>1, <2>2, HeadTailProperties
  <2>8. Append(tried[t], m) \in Seq(A) /\ Last(Append(tried[t], m)) = m
    <3>1. m \in A BY <2>7
    <3> HIDE DEF m
    <3>2. /\ Append(tried[t], m) \in Seq(A) /\ Len(Append(tried[t], m)) = Len(tried[t]) + 1
          /\ Append(tried[t], m)[Len(tried[t]) + 1] = m
      BY <2>2, <3>1, AppendProperties
    <3> QED BY <3>2 DEF Last
  <2>9. tried'[t] = tried[t] \/ tried'[t] = Append(tried[t], m) BY <1>0, <2>3
  <2>10. queue'[t] = Tail(queue[t]) /\ since' = since BY <1>0, <2>1 DEF fileVars
  <2>11. QueueInv(t)'
    <3>1. tried'[t] \in Seq(Allowed(t)') BY <2>2, <2>6, <2>8, <2>9
    <3>2. queue'[t] \in Seq(Allowed(t)' \ since'[t]) BY <2>6, <2>7, <2>10
    <3> QED BY <2>4, <3>1, <3>2 DEF QueueInv, Looking
  <2>12. Len(tried'[t]) > Len(tried[t]) => Model(t)' \notin since[t]
    <3>1. CASE tried'[t] = tried[t] BY <1>0, <3>1
    <3>2. CASE tried'[t] = Append(tried[t], m) BY <2>7, <2>8, <3>2 DEF Model
    <3> QED BY <2>9, <3>1, <3>2
  <2>13. \A u \in Turns \ {t} : SameLoop(u) BY <1>0, <2>1, <2>3 DEF SameLoop
  <2>14. CacheInv' BY <2>1 DEF CacheInv
  <2> QED BY <1>f, <2>1, <2>4, <2>5, <2>11, <2>12, <2>13, <2>14, Shrinks DEF TurnGoal, Others
<1>5. CASE Lookup(t)
  <2>1. CacheInv' /\ FoundInv(t)' /\ Others(t) /\ Shrinking BY <1>5, LookupFound
  <2>2. pc[t] \in Looking /\ UNCHANGED <<turnVars, chain>> /\ pc'[t] \in Looking
    <3>1. pc[t] \in Looking /\ (Goto(t, "fetch") \/ Goto(t, "store") \/ Goto(t, "choose"))
      BY <1>5 DEF Lookup, CacheHit, CacheMiss, Fetched, Store, Looking
    <3>2. UNCHANGED <<turnVars, chain>> BY <1>5 DEF Lookup
    <3> QED BY <1>0, <3>1, <3>2 DEF Goto, Looking
  <2>3. queue'[t] = queue[t] /\ tried'[t] = tried[t] /\ loaded'[t] = loaded[t] BY <2>2 DEF turnVars
  <2>4. Allowed(t) \subseteq Allowed(t)' BY <2>2 DEF Allowed
  <2>5. since'[t] \subseteq since[t] BY <2>1, Shrinks
  <2>6. QueueInv(t)' BY <2>2, <2>3, <2>4, <2>5, QueueSame DEF QueueInv, Looking
  <2> QED BY <1>a, <2>1, <2>2, <2>3, <2>6
<1>6. CASE Choose(t)
  <2>1. /\ pc[t] = "choose" /\ pc'[t] = "pick" /\ UNCHANGED <<health, cache, account, tried, loaded, chain>>
        /\ found'[t] = <<>> /\ \A b \in Actors \ {t} : SameLook(b)
    BY <1>0, <1>6 DEF Choose, Turn, Goto, SameLook
  <2>h. PICK h \in Loads : /\ \E r \in Rankings(Eligible(t, h), h) : queue' = [queue EXCEPT ![t] = @ \o r]
                           /\ since' = [since EXCEPT ![t] = @ \cap Barred(h)]
    BY <1>6 DEF Choose
  <2>2. PICK r \in Rankings(Eligible(t, h), h) : queue' = [queue EXCEPT ![t] = @ \o r] BY <2>h
  <2> DEFINE U == Usable(account[t])
             D == Allowed(t)' \ since'[t]
  <2>3. found[t] \in Seq(U) BY DEF FoundInv
  <2>4. U \subseteq Models
    <3>1. account[t] \in Keys \cup {NoKey} BY DEF Types, LookTypes
    <3> QED BY <3>1, UsableModels
  <2>5. loaded[t] BY <2>1 DEF QueueInv, Looking
  <2>6. Allowed(t) = {Primary} /\ Allowed(t)' = {Primary} \cup (U \ Unfit[t])
    BY <2>1, <2>5 DEF Allowed, Looking
  <2>7. since'[t] \subseteq since[t] /\ since'[t] \subseteq Barred(h) /\ \A u \in Turns \ {t} : since'[u] = since[u]
    BY <1>0, <2>h
  <2>s. StillBarred' BY <2>1, <2>7 DEF StillBarred, Barred
  <2>8. ((U \ Unfit[t]) \ Barred(h)) \subseteq D BY <2>6, <2>7
  <2>9. (Allowed(t) \ since[t]) \subseteq D BY <2>6, <2>7
  <2> HIDE DEF U, D
  <2>10. Eligible(t, h) \in Seq((U \ Unfit[t]) \ Barred(h)) BY <2>3, <2>4, EligibleType
  <2>11. r \in Seq((U \ Unfit[t]) \ Barred(h)) BY <2>10, RankingType
  <2>12. r \in Seq(D) BY <2>8, <2>11, SeqMonotonic
  <2>13. queue[t] \in Seq(D)
    <3>1. queue[t] \in Seq(Allowed(t) \ since[t]) BY DEF QueueInv
    <3> QED BY <2>9, <3>1, SeqMonotonic
  <2>14. queue[t] \o r \in Seq(D) BY <2>12, <2>13, ConcatProperties
  <2>15. queue'[t] \in Seq(D) BY <1>0, <2>2, <2>14
  <2>16. tried'[t] \in Seq(Allowed(t)')
    <3> DEFINE B == Allowed(t)'
    <3>1. tried[t] \in Seq({Primary}) BY <2>6 DEF QueueInv
    <3>2. {Primary} \subseteq B BY <2>6
    <3> HIDE DEF B
    <3>3. tried[t] \in Seq(B) BY <3>1, <3>2, SeqMonotonic
    <3> QED BY <2>1, <3>3 DEF B
  <2>17. QueueInv(t)' BY <2>1, <2>15, <2>16 DEF QueueInv, Looking, D
  <2>18. FoundInv(t)' BY <1>e, <2>1 DEF FoundInv, Stored
  <2>19. CacheInv' BY <2>1 DEF CacheInv
  <2>20. \A u \in Turns \ {t} : SameLoop(u) BY <2>1, <2>2 DEF SameLoop
  <2>21. ~(Len(tried'[t]) > Len(tried[t])) BY <1>0, <2>1
  <2> QED BY <2>1, <2>7, <2>s, <2>17, <2>18, <2>19, <2>20, <2>21 DEF TurnGoal, Others
<1>7. CASE Ask(t) \/ StreamEnds(t) \/ Forward(t)
  <2>1. /\ UNCHANGED <<fileVars, cacheVars, queue, tried, loaded, chain>> /\ pc[t] \in {"ask", "stream"}
        /\ pc' = pc \/ Goto(t, "stream") \/ Goto(t, "record")
    BY <1>7 DEF Ask, StreamEnds, Forward, Turn
  <2>2. pc'[t] \in {"ask", "stream", "record"} BY <1>0, <2>1 DEF Goto
  <2>3. UNCHANGED <<cache, account, found>> /\ Shrinking BY <1>f, <2>1 DEF cacheVars
  <2>4. PICK l \in {"stream", "record"} : pc' = pc \/ Goto(t, l) BY <2>1
  <2>5. CacheInv' /\ FoundInv(t)' /\ QueueInv(t)' /\ Others(t)
    BY <2>1, <2>2, <2>3, <2>4, StepUse DEF Places, Looking
  <2> QED BY <1>a, <2>1, <2>3, <2>5
<1>8. CASE RecordRead(t)
  <2>1. /\ UNCHANGED <<cache, account, found, queue, tried, loaded, chain>> /\ pc[t] = "record"
        /\ Goto(t, "save") /\ Shrinking
    BY <1>8 DEF RecordRead, ReadHealth, Turn, cacheVars, turnVars, Shrinking
  <2>2. pc'[t] = "save" BY <1>0, <2>1 DEF Goto
  <2>3. CacheInv' /\ FoundInv(t)' /\ QueueInv(t)' /\ Others(t)
    BY <2>1, <2>2, StepUse DEF Places, Looking
  <2> QED BY <1>a, <2>1, <2>3
<1>9. CASE RecordWrite(t)
  <2>0. pc[t] = "save" /\ Shrinking /\ UNCHANGED <<cache, found, chain>>
    BY <1>9 DEF RecordWrite, WriteHealth, Turn, Shrinking
  <2>1. CASE MayRetry(t)
    <3>1. /\ Goto(t, IF loaded[t] THEN "pick" ELSE "lookup") /\ loaded' = [loaded EXCEPT ![t] = TRUE]
          /\ UNCHANGED <<queue, tried, account>>
      BY <1>9, <2>1 DEF RecordWrite
    <3>2. loaded'[t] = TRUE /\ pc'[t] = IF loaded[t] THEN "pick" ELSE "lookup" BY <1>0, <3>1 DEF Goto
    <3>3. PICK l \in {"pick", "lookup"} : Goto(t, l) BY <3>1
    <3>4. CacheInv' /\ FoundInv(t)' /\ QueueInv(t)' /\ Others(t)
      BY <1>0, <2>0, <3>1, <3>2, <3>3, StepUse DEF Places, Looking
    <3> QED BY <1>a, <2>0, <3>1, <3>4
  <2>2. CASE ~MayRetry(t)
    <3>1. Return(t) BY <1>9, <2>2 DEF RecordWrite
    <3> QED BY <1>b, <2>0, <3>1
  <2> QED BY <2>1, <2>2
<1> QED BY <1>1, <1>2, <1>3, <1>4, <1>5, <1>6, <1>7, <1>8, <1>9 DEF TurnStep

LEMMA ChatSame ==
    ASSUME NEW d \in Chats, ChatInv(d), SameLook(d), chain'[d] = chain[d]
    PROVE  ChatInv(d)'
BY DEF ChatInv, SameLook

(* A request that may only ask the primary model has that model's chain.   *)
LEMMA PrimaryAlone ==
    ASSUME MaxAttempts <= 1, NEW unfit
    PROVE  ChainOf(<<Primary>>, <<>>, unfit)
<1>1. PICK n \in 1..5 : n = MaxAttempts BY Kinds
<1>2. n = 1 BY <1>1
<1>3. /\ Head(<<Primary>>) = Primary /\ Tail(<<Primary>>) = <<>> /\ Len(<<Primary>>) = 1
      /\ <<Primary>>[1] = Primary /\ DOMAIN <<Primary>> = 1..1
  OBVIOUS
<1>4. \A S : Keep(<<>>, S) = <<>> BY KeepEmpty
<1>5. <<>> \o <<>> = <<>> /\ DOMAIN <<>> = {} /\ ToSet(<<>>) = {}
  BY DEF ToSet
<1>6. \A list : InOrder(<<>>, list) BY <1>5 DEF InOrder
<1>7. IsInjective(<<Primary>>) BY <1>3 DEF IsInjective
<1>8. Last(<<Primary>>) = Primary BY <1>3 DEF Last
<1>9. Contains(<<Primary>>, Free) => Free = Primary BY <1>3 DEF Contains
<1>10. ~(Len(<<Primary>>) < MaxAttempts) /\ Len(<<Primary>>) <= MaxAttempts BY <1>1, <1>2, <1>3
<1> QED BY <1>3, <1>4, <1>5, <1>6, <1>7, <1>8, <1>9, <1>10 DEF ChainOf

(* Every step of a chat request keeps its part and leaves the others theirs. *)
LEMMA ChatUse ==
    ASSUME Types, CacheInv, NEW c \in Chats, FoundInv(c), ChatInv(c), Chat(c) \/ ChatStep(c)
    PROVE  /\ CacheInv' /\ FoundInv(c)' /\ ChatInv(c)' /\ Others(c) /\ Shrinking
           /\ \A d \in Chats \ {c} : chain'[d] = chain[d]
<1> c \in Actors /\ c \notin Turns BY Kinds
<1>0. /\ pc \in [Actors -> Places] /\ DOMAIN account = Actors /\ DOMAIN found = Actors /\ DOMAIN chain = Chats
  BY DEF Types, LookTypes
<1>e. \A S : <<>> \in Seq(S) BY EmptySeq
<1>f. UNCHANGED <<fileVars, turnVars>> => Shrinking /\ \A u \in Turns : SameLoop(u)
  BY DEF fileVars, turnVars, Shrinking, SameLoop
(* The chain of a list of candidates of an account.                        *)
<1>c. \A k \in Keys \cup {NoKey} : \A list \in Seq(Usable(k)) :
         /\ Chain(list, Unfit[c]) \in Seq({Primary, Free} \cup (Usable(k) \ Unfit[c]))
         /\ ChainOf(Chain(list, Unfit[c]), list, Unfit[c])
  <2> SUFFICES ASSUME NEW k \in Keys \cup {NoKey}, NEW list \in Seq(Usable(k)) PROVE <1>c!(k)!(list) OBVIOUS
  <2> DEFINE U == Usable(k)
             Y == {Primary, Free} \cup (ToSet(list) \ Unfit[c])
             Z == {Primary, Free} \cup (U \ Unfit[c])
  <2>1. list \in Seq(U) /\ U \subseteq Models \ {Free} BY UsableModels
  <2> HIDE DEF U
  <2>2. list \in Seq(Models \ {Free}) BY <2>1, SeqMonotonic
  <2>3. ToSet(list) \subseteq U
    <3>1. DOMAIN list = 1..Len(list) BY <2>1, LenProperties
    <3> QED BY <2>1, <3>1, ElementOfSeq DEF ToSet
  <2>4. Y \subseteq Z BY <2>3
  <2>5. Chain(list, Unfit[c]) \in Seq(Y) BY <2>2, ChainType
  <2> HIDE DEF Y, Z
  <2>6. Chain(list, Unfit[c]) \in Seq(Z) BY <2>4, <2>5, SeqMonotonic
  <2>7. ChainOf(Chain(list, Unfit[c]), list, Unfit[c]) BY <2>2, ChainIsChainOf
  <2> QED BY <2>6, <2>7 DEF Z, U
<1>1. CASE Chat(c)
  <2>1. pc[c] = "idle" /\ UNCHANGED <<fileVars, cache, account, found, turnVars>>
    BY <1>1 DEF Chat, cacheVars
  <2>2. found[c] = <<>> /\ chain[c] = <<>> BY <2>1 DEF FoundInv, ChatInv
  <2>3. CASE MaxAttempts <= 1
    <3>1. chain' = [chain EXCEPT ![c] = <<Primary>>] /\ Goto(c, "done") BY <1>1, <2>3 DEF Chat
    <3>2. /\ pc'[c] = "done" /\ chain'[c] = <<Primary>> /\ \A b \in Actors \ {c} : SameLook(b)
          /\ \A d \in Chats \ {c} : chain'[d] = chain[d]
      BY <1>0, <2>1, <3>1 DEF Goto, SameLook
    <3>3. FoundInv(c)' BY <1>e, <2>1, <2>2, <3>2 DEF FoundInv, Stored
    <3>4. <<Primary>> \in Seq({Primary, Free} \cup (Usable(account[c]) \ Unfit[c]))
      <4> DEFINE Z == {Primary, Free} \cup (Usable(account[c]) \ Unfit[c])
      <4>1. Primary \in Z OBVIOUS
      <4> HIDE DEF Z
      <4>2. <<Primary>> \in Seq(Z) BY <4>1
      <4> QED BY <4>2 DEF Z
    <3>5. ChainOf(<<Primary>>, <<>>, Unfit[c]) BY <2>3, PrimaryAlone
    <3>6. account'[c] = account[c] /\ found'[c] = <<>> BY <2>1, <2>2
    <3>7. ChatInv(c)' BY <3>2, <3>4, <3>5, <3>6 DEF ChatInv
    <3>8. CacheInv' BY <2>1 DEF CacheInv
    <3> QED BY <1>f, <2>1, <3>2, <3>3, <3>7, <3>8 DEF Others
  <2>4. CASE ~(MaxAttempts <= 1)
    <3>1. chain' = chain /\ Goto(c, "lookup") BY <1>1, <2>4 DEF Chat
    <3>2. pc'[c] = "lookup" /\ \A b \in Actors \ {c} : SameLook(b) BY <1>0, <2>1, <3>1 DEF Goto, SameLook
    <3>3. FoundInv(c)' BY <1>e, <2>1, <2>2, <3>2 DEF FoundInv, Stored
    <3>4. ChatInv(c)' BY <2>2, <3>1, <3>2 DEF ChatInv
    <3>5. CacheInv' BY <2>1 DEF CacheInv
    <3> QED BY <1>f, <2>1, <3>1, <3>2, <3>3, <3>4, <3>5 DEF Others
  <2> QED BY <2>3, <2>4
<1>2. CASE Lookup(c)
  <2>1. CacheInv' /\ FoundInv(c)' /\ Others(c) /\ Shrinking BY <1>2, LookupFound
  <2>2. chain' = chain /\ pc[c] # "done" /\ (Goto(c, "fetch") \/ Goto(c, "store") \/ Goto(c, "choose"))
    BY <1>2 DEF Lookup, CacheHit, CacheMiss, Fetched, Store
  <2>3. pc'[c] # "done" BY <1>0, <2>2 DEF Goto
  <2>4. ChatInv(c)' BY <2>2, <2>3 DEF ChatInv
  <2> QED BY <2>1, <2>2, <2>4
<1>3. CASE Send(c)
  <2>0. account[c] \in Keys \cup {NoKey} /\ DOMAIN account = Actors BY DEF Types, LookTypes
  <2>1. /\ UNCHANGED <<fileVars, cache, found, turnVars>> /\ Goto(c, "done") /\ pc[c] \in {"choose", "fetch"}
        /\ \/ chain' = [chain EXCEPT ![c] = Chain(found[c], Unfit[c])] /\ account' = account
           \/ /\ pc[c] = "fetch" /\ chain' = [chain EXCEPT ![c] = Chain(<<>>, Unfit[c])]
              /\ account' = [account EXCEPT ![c] = NoKey]
    BY <1>3 DEF Send
  <2>2. pc[c] = "fetch" => found[c] = <<>> BY DEF FoundInv
  <2>3. chain' = [chain EXCEPT ![c] = Chain(found[c], Unfit[c])] BY <2>1, <2>2
  <2>4. /\ pc'[c] = "done" /\ chain'[c] = Chain(found[c], Unfit[c]) /\ \A b \in Actors \ {c} : SameLook(b)
        /\ \A d \in Chats \ {c} : chain'[d] = chain[d]
    BY <1>0, <2>1, <2>3 DEF Goto, SameLook
  <2>a. account'[c] \in Keys \cup {NoKey} /\ found'[c] = found[c] BY <2>0, <2>1
  <2>5. found[c] \in Seq(Usable(account'[c]))
    <3>1. CASE account' = account BY <3>1 DEF FoundInv
    <3>2. CASE pc[c] = "fetch" BY <1>e, <2>2, <3>2
    <3> QED BY <2>1, <3>1, <3>2
  <2>6. FoundInv(c)' BY <2>a, <2>4, <2>5 DEF FoundInv, Stored
  <2>7. /\ Chain(found[c], Unfit[c]) \in Seq({Primary, Free} \cup (Usable(account'[c]) \ Unfit[c]))
        /\ ChainOf(Chain(found[c], Unfit[c]), found[c], Unfit[c])
    BY <1>c, <2>5, <2>a
  <2>9. ChatInv(c)' BY <2>4, <2>7, <2>a DEF ChatInv
  <2>10. CacheInv' BY <2>1 DEF CacheInv
  <2> QED BY <1>f, <2>1, <2>4, <2>6, <2>9, <2>10 DEF Others
<1>4. CASE Finish(c)
  <2>1. /\ pc'[c] = "idle" /\ chain'[c] = <<>> /\ found'[c] = <<>> /\ \A b \in Actors \ {c} : SameLook(b)
        /\ \A d \in Chats \ {c} : chain'[d] = chain[d]
        /\ UNCHANGED <<fileVars, cache, turnVars>>
    BY <1>0, <1>4 DEF Finish, Goto, SameLook
  <2>2. FoundInv(c)' BY <1>e, <2>1 DEF FoundInv, Stored
  <2>3. ChatInv(c)' BY <2>1 DEF ChatInv
  <2>4. CacheInv' BY <2>1 DEF CacheInv
  <2> QED BY <1>f, <2>1, <2>2, <2>3, <2>4 DEF Others
<1> QED BY <1>1, <1>2, <1>3, <1>4 DEF ChatStep

(* The administrator, and the world outside, touch no request.             *)
LEMMA AdminUse ==
    ASSUME Types, CacheInv, AdminStep \/ Outside \/ UNCHANGED vars
    PROVE  /\ CacheInv' /\ Shrinking /\ chain' = chain
           /\ \A a \in Turns \cup Chats : SameLook(a)
           /\ \A u \in Turns : SameLoop(u)
<1> Admin \notin Turns \cup Chats BY OpenRouterAssumption
<1> pc \in [Actors -> Places] /\ Turns \cup Chats \subseteq Actors BY Kinds DEF Types
<1>s. /\ UNCHANGED turnVars => \A u \in Turns : SameLoop(u)
      /\ UNCHANGED fileVars => Shrinking
  BY DEF turnVars, SameLoop, fileVars, Shrinking
<1>l. ASSUME pc' = pc \/ \E l : Goto(Admin, l), UNCHANGED <<account, found>>
      PROVE  \A a \in Turns \cup Chats : SameLook(a)
  BY <1>l DEF Goto, SameLook
<1>1. CASE AdminRead
  <2>1. UNCHANGED <<cache, account, found, turnVars, chain, health, since>> /\ Goto(Admin, "save")
    BY <1>1 DEF AdminRead, ReadHealth, cacheVars
  <2> QED BY <1>l, <1>s, <2>1 DEF CacheInv, Shrinking
<1>2. CASE AdminWrite
  <2>1. /\ UNCHANGED <<cache, account, found, turnVars, chain>> /\ Shrinking
        /\ \E l : Goto(Admin, l)
    BY <1>2 DEF AdminWrite, Lift, WriteHealth, cacheVars, Shrinking
  <2> QED BY <1>l, <1>s, <2>1 DEF CacheInv
<1>3. CASE DropCache \/ CacheTooOld
  <2>1. /\ UNCHANGED <<fileVars, account, found, turnVars, chain>> /\ cache' = NoCache
        /\ pc' = pc \/ Goto(Admin, "idle")
    BY <1>3 DEF DropCache, CacheTooOld
  <2> QED BY <1>l, <1>s, <2>1 DEF CacheInv
<1>4. CASE ResetHistory
  <2>1. /\ UNCHANGED <<cache, account, found, turnVars, chain, pc>> /\ Shrinking
    BY <1>4 DEF ResetHistory, WriteHealth, cacheVars, Shrinking
  <2> QED BY <1>l, <1>s, <2>1 DEF CacheInv
<1>5. CASE SetKey
  <2>1. UNCHANGED <<fileVars, cache, account, found, turnVars, chain, pc>> BY <1>5 DEF SetKey, cacheVars
  <2> QED BY <1>l, <1>s, <2>1 DEF CacheInv
<1>6. CASE CooledDown
  <2>1. UNCHANGED <<cache, account, found, turnVars, chain, pc>> /\ Shrinking
    BY <1>6 DEF CooledDown, cacheVars, Shrinking
  <2> QED BY <1>l, <1>s, <2>1 DEF CacheInv
<1>7. CASE UNCHANGED vars
  <2>1. UNCHANGED <<fileVars, cache, account, found, turnVars, chain, pc>> BY <1>7 DEF vars, cacheVars
  <2> QED BY <1>l, <1>s, <2>1 DEF CacheInv
<1> QED BY <1>1, <1>2, <1>3, <1>4, <1>5, <1>6, <1>7 DEF AdminStep, Outside

-----------------------------------------------------------------------------
(***************************************************************************)
(* All of it together.                                                     *)
(***************************************************************************)
FullInv == IInv /\ FileInv /\ Types /\ UseInv

(* A turn nobody touches.                                                  *)
LEMMA QueueUntouched ==
    ASSUME NEW u \in Turns, QueueInv(u), SameLook(u), SameLoop(u), since'[u] \subseteq since[u]
    PROVE  QueueInv(u)'
<1>1. Allowed(u)' = Allowed(u) BY DEF Allowed, SameLook, SameLoop
<1>2. Allowed(u) \subseteq Allowed(u)' BY <1>1
<1>3. queue'[u] = queue[u] /\ tried'[u] = tried[u] /\ pc'[u] = pc[u] /\ (pc'[u] \in Looking => loaded'[u])
  BY DEF QueueInv, SameLook, SameLoop
<1> QED BY <1>2, <1>3, QueueSame

(* A step of an actor, whose own part is known.                            *)
LEMMA RestUse ==
    ASSUME UseInv, NEW S, CacheInv', StillBarred',
           \A a \in (Turns \cup Chats) \ S : SameLook(a),
           \A u \in Turns \ S : SameLoop(u) /\ since'[u] \subseteq since[u],
           \A d \in Chats \ S : chain'[d] = chain[d],
           \A a \in (Turns \cup Chats) \cap S : FoundInv(a)',
           \A u \in Turns \cap S : QueueInv(u)',
           \A d \in Chats \cap S : ChatInv(d)'
    PROVE  UseInv'
<1>1. ASSUME NEW a \in Turns \cup Chats PROVE FoundInv(a)'
  BY <1>1, FoundSame DEF UseInv
<1>2. ASSUME NEW u \in Turns PROVE QueueInv(u)'
  <2>1. CASE u \in S BY <2>1
  <2>2. CASE u \notin S
    <3>1. QueueInv(u) /\ SameLook(u) /\ SameLoop(u) /\ since'[u] \subseteq since[u] BY <2>2 DEF UseInv
    <3> QED BY <3>1, QueueUntouched
  <2> QED BY <2>1, <2>2
<1>3. ASSUME NEW d \in Chats PROVE ChatInv(d)'
  <2>1. CASE d \in S BY <2>1
  <2>2. CASE d \notin S
    <3>1. ChatInv(d) /\ SameLook(d) /\ chain'[d] = chain[d] BY <2>2 DEF UseInv
    <3> QED BY <3>1, ChatSame
  <2> QED BY <2>1, <2>2
<1> QED BY <1>1, <1>2, <1>3 DEF UseInv

(* What a step of a turn asks.                                             *)
Passes == \A t \in Turns : Len(tried'[t]) > Len(tried[t]) => Model(t)' \notin since[t]

LEMMA NextUse ==
    ASSUME FullInv, [Next]_vars
    PROVE  UseInv' /\ Passes
<1> /\ IInv /\ FileInv /\ Types /\ UseInv /\ CacheInv /\ StillBarred
  BY DEF FullInv, UseInv
<1>t. \A t \in Turns : Len(tried[t]) \in Nat
  <2> SUFFICES ASSUME NEW t \in Turns PROVE Len(tried[t]) \in Nat OBVIOUS
  <2>1. tried[t] \in Seq(Models) BY DEF Types, LoopTypes
  <2> QED BY <2>1, LenProperties
<1>s. \A u \in Turns : tried'[u] = tried[u] => (Len(tried'[u]) > Len(tried[u]) => Model(u)' \notin since[u])
  BY <1>t
<1>1. ASSUME NEW t \in Turns, Begin(t) \/ TurnStep(t) PROVE UseInv' /\ Passes
  <2>1. t \in Actors /\ t \notin Chats /\ FoundInv(t) /\ QueueInv(t) BY Kinds DEF UseInv
  <2>2. TurnGoal(t) BY <1>1, <2>1, TurnUse
  <2>3. UseInv'
    <3> DEFINE S == {t}
    <3>1. /\ CacheInv' /\ StillBarred' /\ \A a \in (Turns \cup Chats) \ S : SameLook(a)
          /\ \A u \in Turns \ S : SameLoop(u) /\ since'[u] \subseteq since[u]
          /\ \A d \in Chats \ S : chain'[d] = chain[d]
      BY <2>1, <2>2, Kinds DEF TurnGoal, Others
    <3>2. /\ \A a \in (Turns \cup Chats) \cap S : FoundInv(a)'
          /\ \A u \in Turns \cap S : QueueInv(u)'
          /\ \A d \in Chats \cap S : ChatInv(d)'
      BY <2>1, <2>2 DEF TurnGoal
    <3> HIDE DEF S
    <3> QED BY <3>1, <3>2, RestUse
  <2>4. Passes BY <1>s, <2>2 DEF TurnGoal, Others, SameLoop, Passes
  <2> QED BY <2>3, <2>4
<1>2. ASSUME NEW c \in Chats, Chat(c) \/ ChatStep(c) PROVE UseInv' /\ Passes
  <2>1. c \in Actors /\ c \notin Turns /\ FoundInv(c) /\ ChatInv(c) BY Kinds DEF UseInv
  <2>2. /\ CacheInv' /\ FoundInv(c)' /\ ChatInv(c)' /\ Others(c) /\ Shrinking
        /\ \A d \in Chats \ {c} : chain'[d] = chain[d]
    BY <1>2, <2>1, ChatUse
  <2>3. StillBarred' /\ \A u \in Turns : since'[u] \subseteq since[u] BY <2>2, Shrinks
  <2>4. UseInv'
    <3> DEFINE S == {c}
    <3>1. /\ CacheInv' /\ StillBarred' /\ \A a \in (Turns \cup Chats) \ S : SameLook(a)
          /\ \A u \in Turns \ S : SameLoop(u) /\ since'[u] \subseteq since[u]
          /\ \A d \in Chats \ S : chain'[d] = chain[d]
      BY <2>1, <2>2, <2>3, Kinds DEF Others
    <3>2. /\ \A a \in (Turns \cup Chats) \cap S : FoundInv(a)'
          /\ \A u \in Turns \cap S : QueueInv(u)'
          /\ \A d \in Chats \cap S : ChatInv(d)'
      BY <2>1, <2>2
    <3> HIDE DEF S
    <3> QED BY <3>1, <3>2, RestUse
  <2>5. Passes BY <1>s, <2>1, <2>2 DEF Others, SameLoop, Passes
  <2> QED BY <2>4, <2>5
<1>3. CASE AdminStep \/ Outside \/ UNCHANGED vars
  <2>1. /\ CacheInv' /\ Shrinking /\ chain' = chain
        /\ \A a \in Turns \cup Chats : SameLook(a)
        /\ \A u \in Turns : SameLoop(u)
    BY <1>3, AdminUse
  <2>2. StillBarred' /\ \A u \in Turns : since'[u] \subseteq since[u] BY <2>1, Shrinks
  <2>3. UseInv'
    <3> DEFINE S == {}
    <3>1. /\ CacheInv' /\ StillBarred' /\ \A a \in (Turns \cup Chats) \ S : SameLook(a)
          /\ \A u \in Turns \ S : SameLoop(u) /\ since'[u] \subseteq since[u]
          /\ \A d \in Chats \ S : chain'[d] = chain[d]
      BY <2>1, <2>2
    <3>2. /\ \A a \in (Turns \cup Chats) \cap S : FoundInv(a)'
          /\ \A u \in Turns \cap S : QueueInv(u)'
          /\ \A d \in Chats \cap S : ChatInv(d)'
      OBVIOUS
    <3> HIDE DEF S
    <3> QED BY <3>1, <3>2, RestUse
  <2>4. Passes BY <1>s, <2>1 DEF SameLoop, Passes
  <2> QED BY <2>3, <2>4
<1> QED BY <1>1, <1>2, <1>3 DEF Next

LEMMA InitFull == Init => FullInv
<1> SUFFICES ASSUME Init PROVE FullInv OBVIOUS
<1>1. IInv /\ FileInv BY InitInv, InitFile
<1>e. \A S : <<>> \in Seq(S) BY EmptySeq
<1>2. Types
  <2> DEFINE C == Seq(Models)
  <2>1. <<>> \in C BY <1>e
  <2> HIDE DEF C
  <2>2. found \in [Actors -> C] /\ queue \in [Turns -> C] /\ tried \in [Turns -> C] /\ chain \in [Chats -> C]
    BY <2>1 DEF Init
  <2>3. cache.of = Nobody /\ cache.models = <<>> BY DEF Init, NoCache
  <2>4. LookTypes BY <2>1, <2>2, <2>3 DEF Init, LookTypes, C
  <2>5. healthMu \in Writers \cup {Nobody} /\ since \in [Turns -> SUBSET Models] BY DEF Init
  <2>6. FileTypes BY <1>1, <2>5 DEF FileTypes, FileInv
  <2>7. LoopTypes BY <2>2 DEF Init, LoopTypes, C
  <2>8. pc \in [Actors -> Places] BY DEF Init, Places
  <2> QED BY <2>2, <2>4, <2>6, <2>7, <2>8 DEF Types, C
<1>3. UseInv
  <2>1. CacheInv /\ StillBarred BY DEF Init, CacheInv, StillBarred
  <2>2. ASSUME NEW a \in Turns \cup Chats PROVE FoundInv(a)
    <3>1. found[a] = <<>> /\ pc[a] = "idle" BY Kinds DEF Init
    <3> QED BY <1>e, <3>1 DEF FoundInv, Stored
  <2>3. ASSUME NEW t \in Turns PROVE QueueInv(t)
    <3>1. queue[t] = <<>> /\ tried[t] = <<>> /\ pc[t] = "idle" BY Kinds DEF Init
    <3> QED BY <1>e, <3>1 DEF QueueInv, Looking
  <2>4. ASSUME NEW c \in Chats PROVE ChatInv(c)
    <3>1. chain[c] = <<>> /\ pc[c] = "idle" BY Kinds DEF Init
    <3> QED BY <3>1 DEF ChatInv
  <2> QED BY <2>1, <2>2, <2>3, <2>4 DEF UseInv
<1> QED BY <1>1, <1>2, <1>3 DEF FullInv

LEMMA NextFull == FullInv /\ [Next]_vars => FullInv' /\ Passes
<1> SUFFICES ASSUME FullInv, [Next]_vars PROVE FullInv' /\ Passes OBVIOUS
<1> IInv /\ FileInv /\ Types /\ UseInv BY DEF FullInv
<1>1. IInv' /\ FileInv' BY NextInv, FileSteps
<1>2. UseInv' /\ Passes BY NextUse
<1>3. Types'
  <2>1. ASSUME NEW t \in Turns, Begin(t) \/ TurnStep(t) PROVE Types'
    <3>1. Stored(t) BY DEF UseInv, FoundInv
    <3>2. CASE RecordRead(t) \/ RecordWrite(t) BY <1>1, <3>2, RecordTypeSteps
    <3>3. CASE ~(RecordRead(t) \/ RecordWrite(t)) BY <2>1, <3>1, <3>3, LoopTypeSteps DEF TurnStep
    <3> QED BY <3>2, <3>3
  <2>2. ASSUME NEW c \in Chats, Chat(c) \/ ChatStep(c) PROVE Types'
    <3>1. Stored(c) /\ found[c] \in Seq(Usable(account[c])) BY DEF UseInv, FoundInv
    <3>2. account[c] \in Keys \cup {NoKey} BY Kinds DEF Types, LookTypes
    <3>3. Usable(account[c]) \subseteq Models \ {Free} BY <3>2, UsableModels
    <3>4. found[c] \in Seq(Models \ {Free}) BY <3>1, <3>3, SeqMonotonic
    <3> QED BY <2>2, <3>1, <3>4, ChatTypeSteps
  <2>3. CASE AdminStep \/ Outside \/ UNCHANGED vars BY <1>1, <2>3, AdminTypeSteps
  <2> QED BY <2>1, <2>2, <2>3 DEF Next
<1> QED BY <1>1, <1>2, <1>3 DEF FullInv

(* The retry loop, the health file, the types, and which models are used,  *)
(* at all times.                                                           *)
THEOREM FullHolds == Spec => []FullInv
BY InitFull, NextFull, PTL DEF Spec

(* Every variable keeps its type.                                          *)
THEOREM TypesHold == Spec => []TypeOK
<1>1. FullInv => TypeOK BY Parted DEF FullInv, Types
<1> QED BY FullHolds, <1>1, PTL

LEMMA SeqSet ==
    ASSUME NEW S, NEW s \in Seq(S)
    PROVE  ToSet(s) \subseteq S
<1>1. DOMAIN s = 1..Len(s) BY LenProperties
<1> QED BY <1>1, ElementOfSeq DEF ToSet

(* Whatever keys are changed, files cleared and catalogues listed while a  *)
(* request is under way, it uses no model its account does not offer, that *)
(* costs money, or that cannot do what it needs, but for the primary model *)
(* (and openrouter/free in a chain).                                       *)
THEOREM OnlyPermittedIsUsed == Spec => []OnlyPermitted
<1>1. ASSUME FullInv PROVE OnlyPermitted
  <2>1. \A a \in Turns \cup Chats : Usable(account[a]) \ Unfit[a] \subseteq Permitted(a) BY DEF Usable, Permitted
  <2>2. ASSUME NEW t \in Turns PROVE ToSet(tried[t]) \ {Primary} \subseteq Permitted(t)
    <3>1. tried[t] \in Seq(Allowed(t)) BY <1>1 DEF FullInv, UseInv, QueueInv
    <3>2. ToSet(tried[t]) \subseteq Allowed(t) BY <3>1, SeqSet
    <3>3. Allowed(t) \subseteq {Primary} \cup (Usable(account[t]) \ Unfit[t]) BY DEF Allowed
    <3> QED BY <2>1, <3>2, <3>3
  <2>3. ASSUME NEW c \in Chats PROVE ToSet(chain[c]) \ {Primary, Free} \subseteq Permitted(c)
    <3> DEFINE Z == {Primary, Free} \cup (Usable(account[c]) \ Unfit[c])
    <3>1. CASE pc[c] = "done"
      <4>1. chain[c] \in Seq(Z) BY <1>1, <3>1 DEF FullInv, UseInv, ChatInv
      <4>2. ToSet(chain[c]) \subseteq Z BY <4>1, SeqSet
      <4> QED BY <2>1, <4>2
    <3>2. CASE pc[c] # "done"
      <4>1. chain[c] = <<>> BY <1>1, <3>2 DEF FullInv, UseInv, ChatInv
      <4>2. ToSet(chain[c]) = {} BY <4>1 DEF ToSet
      <4> QED BY <4>2
    <3> QED BY <3>1, <3>2
  <2> QED BY <2>2, <2>3 DEF OnlyPermitted
<1> QED BY FullHolds, <1>1, PTL

(* A chain that is sent is the one of the candidates that were found: its  *)
(* order, its bound, its members and its last resort are right.            *)
THEOREM ChainsAreRight == Spec => []ChainIsRight
<1>1. FullInv => ChainIsRight BY DEF FullInv, UseInv, ChatInv, ChainIsRight
<1> QED BY FullHolds, <1>1, PTL

(* The history of a model counts: what was recorded is not undone, and a   *)
(* model barred since before a turn began is not asked by it.              *)
THEOREM TheHistoryCounts == Spec => HistoryCounts
<1>1. FullInv /\ [Next]_vars => [Passes]_vars BY NextFull
<1>2. Spec => [][Passes]_vars BY FullHolds, <1>1, PTL DEF Spec
<1>3. Spec => BarredIsSkipped BY <1>2 DEF BarredIsSkipped, Passes
<1> QED BY HistoryIsNotLost, <1>3 DEF HistoryCounts
=============================================================================
