------------------------------- MODULE VoiceTurn -------------------------------
(***************************************************************************)
(* One spoken turn of admin/voice_chat_session.go: the answer is asked of  *)
(* the LLM, spoken, and remembered in the session's file.  Turns of one    *)
(* session are serialised by a mutex per identifier; a streamed turn runs  *)
(* as three goroutines joined by two bounded channels:                     *)
(*    raw (one upstream request) -> wrapper -> HTTP handler -> client.     *)
(*                                                                         *)
(* The reply is counted in deltas that carry visible text; a chunk is the  *)
(* interval of deltas <<from, to>> it speaks.  Where takeVoiceChunk cuts,  *)
(* when the upstream stream ends or breaks, and whether a call to the      *)
(* voice worker or to the disk fails, are choices.                         *)
(***************************************************************************)
EXTENDS Naturals, Sequences, FiniteSets

CONSTANTS
    Turns,       \* requests to /v1/voice/chat and /v1/voice/chat/stream
    Streamed,    \* those that handleVoiceChatStreamSession serves
    Sessions,    \* session identifiers
    NoSession,   \* a request without session_id
    Recent,      \* voiceSessionRecentMessages: messages kept verbatim
    Memory,      \* what fits in voiceSessionSummaryRunes, in lines
    Cap,         \* capacity of the two chunk channels
    MaxDeltas,   \* bound: the longest reply
    Free, NoFile

ASSUME VoiceAssumption ==
    /\ NoSession \notin Sessions /\ Free \notin Turns
    /\ Recent \in Nat /\ Memory \in Nat /\ Cap \in Nat \ {0} /\ MaxDeltas \in Nat
    /\ IsFiniteSet(Turns) /\ Streamed \subseteq Turns

VARIABLES
    pc,       \* where the handler of a turn is
    sess,     \* the session it asked for
    local,    \* voiceSessionUse.state
    fresh,    \* local was started over: reset_session, no file, or too old
    ctxDone,  \* the context of the turn is done
    sent,     \* the text events the client was sent
    pipe,     \* the two goroutines of a streamed turn and their channels
    lock,     \* holder of the mutex of each session
    file,     \* <session_id>.json
    tmp,      \* <session_id>.json.tmp
    stale,    \* the file has not been updated for voiceSessionTTL
    leases    \* manager.llmUsers taken by voice turns

sessionVars == <<local, fresh, lock, file, tmp, stale>>
vars == <<pc, sess, local, fresh, ctxDone, sent, pipe, lock, file, tmp, stale, leases>>

Labels  == {"idle", "lock", "ready", "ask", "call", "transcript", "range", "speak", "result",
            "commit", "rename", "speakAll", "finish", "abort", "done"}
RawPcs  == {"off", "begin", "request", "read", "cut", "send", "tail", "sendTail", "reply", "closed"}
WrapPcs == {"off", "range", "send", "closed"}
Chunks  == (0..MaxDeltas) \X (0..MaxDeltas)
Results == {"none", "ok", "err"}

-----------------------------------------------------------------------------
(***************************************************************************)
(* The session's state.                                                    *)
(***************************************************************************)
NewSession == [summary |-> <<>>, recent |-> <<>>, turns |-> 0]

Last(q, n) == SubSeq(q, (IF Len(q) > n THEN Len(q) - n ELSE 0) + 1, Len(q))

(* compactVoiceSession and trimVoiceSummary: the oldest messages move to   *)
(* the summary until Recent are left; the summary loses its oldest lines.  *)
Compact(s) ==
    LET moved == IF Len(s.recent) > Recent THEN Len(s.recent) - Recent ELSE 0
    IN  [s EXCEPT !.recent  = SubSeq(s.recent, moved + 1, Len(s.recent)),
                  !.summary = Last(s.summary \o SubSeq(s.recent, 1, moved), Memory)]

(* Mutant: one message too few is moved.                                   *)
AddKeepsOneMore(s, t) ==
    LET r == s.recent \o <<<<"user", t>>, <<"assistant", t>>>>
        moved == IF Len(r) > Recent + 1 THEN Len(r) - Recent - 1 ELSE 0
    IN  [summary |-> Last(s.summary \o SubSeq(r, 1, moved), Memory),
         recent  |-> SubSeq(r, moved + 1, Len(r)), turns |-> s.turns + 1]

(* What Commit does to the state before it saves it.                       *)
Add(s, t) ==
    Compact([s EXCEPT !.recent = @ \o <<<<"user", t>>, <<"assistant", t>>>>,
                      !.turns  = @ + 1])

Init ==
    /\ pc = [t \in Turns |-> "idle"]
    /\ sess = [t \in Turns |-> NoSession]
    /\ local = [t \in Turns |-> NewSession]
    /\ fresh = [t \in Turns |-> FALSE]
    /\ ctxDone = [t \in Turns |-> FALSE]
    /\ sent = [t \in Turns |-> <<>>]
    /\ pipe = [t \in Turns |->
         [raw |-> "off", read |-> 0, cut |-> 0, hold |-> 0, inner |-> <<>>, res |-> "none",
          complete |-> FALSE, wrap |-> "off", carry |-> <<>>, outer |-> <<>>, out |-> "none"]]
    /\ lock = [s \in Sessions |-> Free]
    /\ file = [s \in Sessions |-> NoFile]
    /\ tmp = [s \in Sessions |-> NoFile]
    /\ stale = [s \in Sessions |-> FALSE]
    /\ leases = 0

Go(t, from, to) == pc[t] = from /\ pc' = [pc EXCEPT ![t] = to]

-----------------------------------------------------------------------------
(***************************************************************************)
(* Both handlers up to the LLM.  A request that is refused or whose speech *)
(* is not recognised touches nothing and is left out.                      *)
(***************************************************************************)
Arrive(t) ==
    /\ \E s \in Sessions \cup {NoSession} :
          /\ sess' = [sess EXCEPT ![t] = s]
          /\ Go(t, "idle", IF s = NoSession THEN "ready" ELSE "lock")
    /\ UNCHANGED <<sessionVars, ctxDone, sent, pipe, leases>>

(* Mutant: the file is read before the mutex is taken.                     *)
LoadUnlocked(t) ==
    LET s == sess[t]
        new == file[s] = NoFile \/ stale[s]
    IN  /\ Go(t, "lock", "ready")
        /\ lock' = [lock EXCEPT ![s] = t]
        /\ local' = [local EXCEPT ![t] = IF new THEN NewSession ELSE file[s]]
        /\ fresh' = [fresh EXCEPT ![t] = new]
        /\ UNCHANGED <<sess, ctxDone, sent, pipe, file, tmp, stale, leases>>

(* beginVoiceSession without reset_session.                                *)
Load(t) ==
    LET s == sess[t]
        new == file[s] = NoFile \/ stale[s]
    IN  /\ Go(t, "lock", "ready")
        /\ lock[s] = Free
        /\ lock' = [lock EXCEPT ![s] = t]
        /\ local' = [local EXCEPT ![t] = IF new THEN NewSession ELSE file[s]]
        /\ fresh' = [fresh EXCEPT ![t] = new]
        /\ UNCHANGED <<sess, ctxDone, sent, pipe, file, tmp, stale, leases>>

(* reset_session: the file is removed; an error of Remove is ignored.      *)
LoadReset(t) ==
    LET s == sess[t]
    IN  /\ Go(t, "lock", "ready")
        /\ lock[s] = Free
        /\ lock' = [lock EXCEPT ![s] = t]
        /\ local' = [local EXCEPT ![t] = NewSession]
        /\ fresh' = [fresh EXCEPT ![t] = TRUE]
        /\ \/ file' = [file EXCEPT ![s] = NoFile] /\ stale' = [stale EXCEPT ![s] = FALSE]
           \/ UNCHANGED <<file, stale>>
        /\ UNCHANGED <<sess, ctxDone, sent, pipe, tmp, leases>>

(* The file cannot be read: the mutex is taken and given back.             *)
LoadFails(t) ==
    /\ Go(t, "lock", "done")
    /\ lock[sess[t]] = Free /\ file[sess[t]] # NoFile
    /\ UNCHANGED <<sess, sessionVars, ctxDone, sent, pipe, leases>>

(* ensureReady, then in the streamed handler the transcript event.         *)
EnsureReady(t) ==
    /\ Go(t, "ready", IF t \in Streamed THEN "transcript" ELSE "ask")
    /\ UNCHANGED <<sess, sessionVars, ctxDone, sent, pipe, leases>>

(* The early returns between beginVoiceSession and the LLM's answer: no    *)
(* backend, no request, or a transcript that cannot be written.            *)
EarlyReturn(t) ==
    /\ pc[t] \in {"ready", "ask"} \/ (pc[t] = "transcript" /\ ctxDone[t])
    /\ pc' = [pc EXCEPT ![t] = "abort"]
    /\ ctxDone' = [ctxDone EXCEPT ![t] = TRUE]
    /\ UNCHANGED <<sess, sessionVars, sent, pipe, leases>>

-----------------------------------------------------------------------------
(***************************************************************************)
(* handleVoiceChatSession: one request, no stream.                         *)
(***************************************************************************)
Ask(t) ==
    /\ Go(t, "ask", "call")
    /\ leases' = leases + 1
    /\ UNCHANGED <<sess, sessionVars, ctxDone, sent, pipe>>

(* The whole answer is read, the lease is returned, the answer is usable.  *)
Answer(t) ==
    /\ Go(t, "call", "commit")
    /\ ~ctxDone[t]
    /\ leases' = leases - 1
    /\ UNCHANGED <<sess, sessionVars, ctxDone, sent, pipe>>

(* Mutant: the failure path forgets releaseLLM.                            *)
CallFailsLeased(t) ==
    /\ Go(t, "call", "abort")
    /\ ctxDone' = [ctxDone EXCEPT ![t] = TRUE]
    /\ UNCHANGED <<sess, sessionVars, sent, pipe, leases>>

CallFails(t) ==
    /\ Go(t, "call", "abort")
    /\ ctxDone' = [ctxDone EXCEPT ![t] = TRUE]
    /\ leases' = leases - 1
    /\ UNCHANGED <<sess, sessionVars, sent, pipe>>

(* The reply is synthesised after the commit; a failure ends in an error.  *)
SpeakAll(t) ==
    /\ Go(t, "speakAll", "abort")
    /\ ctxDone' = [ctxDone EXCEPT ![t] = TRUE]
    /\ UNCHANGED <<sess, sessionVars, sent, pipe, leases>>

-----------------------------------------------------------------------------
(***************************************************************************)
(* handleVoiceChatStreamSession.                                           *)
(***************************************************************************)
StartStream(t) ==
    /\ Go(t, "transcript", "range")
    /\ pipe' = [pipe EXCEPT ![t].raw = "begin", ![t].wrap = "range"]
    /\ UNCHANGED <<sess, sessionVars, ctxDone, sent, leases>>

(* for text := range textChunks: the text event is written.                *)
TakeChunk(t) ==
    /\ Go(t, "range", "speak")
    /\ pipe[t].outer # <<>>
    /\ sent' = [sent EXCEPT ![t] = Append(@, Head(pipe[t].outer))]
    /\ pipe' = [pipe EXCEPT ![t].outer = Tail(@)]
    /\ UNCHANGED <<sess, sessionVars, ctxDone, leases>>

Speak(t) ==
    /\ Go(t, "speak", "range")
    /\ ~ctxDone[t]
    /\ UNCHANGED <<sess, sessionVars, ctxDone, sent, pipe, leases>>

(* A write fails because the client left, or the synthesis fails.          *)
StopStream(t) ==
    /\ \/ pc[t] = "range" /\ pipe[t].outer # <<>> /\ ctxDone[t]
       \/ pc[t] = "speak"
    /\ pc' = [pc EXCEPT ![t] = "abort"]
    /\ ctxDone' = [ctxDone EXCEPT ![t] = TRUE]
    /\ UNCHANGED <<sess, sessionVars, sent, pipe, leases>>

(* Mutant: the handler asks for the result without draining the chunks.    *)
RangeEndsEarly(t) ==
    /\ Go(t, "range", "result")
    /\ pipe[t].wrap = "closed"
    /\ UNCHANGED <<sess, sessionVars, ctxDone, sent, pipe, leases>>

RangeEnds(t) ==
    /\ Go(t, "range", "result")
    /\ pipe[t].outer = <<>> /\ pipe[t].wrap = "closed"
    /\ UNCHANGED <<sess, sessionVars, ctxDone, sent, pipe, leases>>

(* llm := <-llmResult.                                                     *)
TakeResult(t) ==
    /\ pc[t] = "result" /\ pipe[t].out # "none"
    /\ pc' = [pc EXCEPT ![t] = IF pipe[t].out = "ok" THEN "commit" ELSE "abort"]
    /\ ctxDone' = [ctxDone EXCEPT ![t] = @ \/ pipe[t].out = "err"]
    /\ UNCHANGED <<sess, sessionVars, sent, pipe, leases>>

(* The done event; the client may no longer be there to read it.           *)
Finish(t) ==
    /\ Go(t, "finish", "abort")
    /\ ctxDone' = [ctxDone EXCEPT ![t] = TRUE]
    /\ UNCHANGED <<sess, sessionVars, sent, pipe, leases>>

-----------------------------------------------------------------------------
(***************************************************************************)
(* Commit and Abort of voiceSessionUse.                                    *)
(***************************************************************************)
AfterCommit(t) == IF t \in Streamed THEN "finish" ELSE "speakAll"

CommitNothing(t) ==
    /\ sess[t] = NoSession /\ Go(t, "commit", AfterCommit(t))
    /\ UNCHANGED <<sess, sessionVars, ctxDone, sent, pipe, leases>>

(* Commit up to os.WriteFile of the temporary file.                        *)
WriteTmp(t) ==
    LET s == sess[t]
    IN  /\ s \in Sessions /\ Go(t, "commit", "rename")
        /\ local' = [local EXCEPT ![t] = Add(@, t)]
        /\ tmp' = [tmp EXCEPT ![s] = local'[t]]
        /\ UNCHANGED <<sess, fresh, lock, file, stale, ctxDone, sent, pipe, leases>>

Renamed(t) ==
    LET s == sess[t]
    IN  /\ file' = [file EXCEPT ![s] = tmp[s]]
        /\ tmp' = [tmp EXCEPT ![s] = NoFile]
        /\ stale' = [stale EXCEPT ![s] = FALSE]

(* os.Rename; Commit sets done and unlocks.                                *)
Rename(t) ==
    /\ Go(t, "rename", AfterCommit(t))
    /\ Renamed(t)
    /\ lock' = [lock EXCEPT ![sess[t]] = Free]
    /\ UNCHANGED <<sess, local, fresh, ctxDone, sent, pipe, leases>>

(* saveVoiceSession fails before or at the rename: the turn goes on with   *)
(* session_persisted = false.                                              *)
SaveFails(t) ==
    /\ sess[t] \in Sessions /\ pc[t] \in {"commit", "rename"}
    /\ pc' = [pc EXCEPT ![t] = AfterCommit(t)]
    /\ lock' = [lock EXCEPT ![sess[t]] = Free]
    /\ UNCHANGED <<sess, local, fresh, file, tmp, stale, ctxDone, sent, pipe, leases>>

Holds(t, s) == lock[s] = t

(* Mutant: no deferred Abort.                                              *)
ReturnLocked(t) ==
    /\ Go(t, "abort", "done")
    /\ UNCHANGED <<sess, sessionVars, ctxDone, sent, pipe, leases>>

(* The deferred session.Abort, after cancel and writer.Close.              *)
Abort(t) ==
    /\ Go(t, "abort", "done")
    /\ lock' = [s \in Sessions |-> IF Holds(t, s) THEN Free ELSE lock[s]]
    /\ UNCHANGED <<sess, local, fresh, file, tmp, stale, ctxDone, sent, pipe, leases>>

-----------------------------------------------------------------------------
(***************************************************************************)
(* streamVoiceLLMStandardRaw.                                              *)
(***************************************************************************)
pipeOnly == <<pc, sess, sessionVars, ctxDone, sent>>

RawBegin(t) ==
    /\ pipe[t].raw = "begin"
    /\ pipe' = [pipe EXCEPT ![t].raw = "request"]
    /\ leases' = leases + 1
    /\ UNCHANGED pipeOnly

RawRequest(t) ==
    /\ pipe[t].raw = "request" /\ ~ctxDone[t]
    /\ pipe' = [pipe EXCEPT ![t].raw = "read"]
    /\ UNCHANGED <<pipeOnly, leases>>

(* The deferred calls: release, result <- res, close(chunks).              *)
RawExit(t, r) ==
    /\ pipe' = [pipe EXCEPT ![t].raw = "closed", ![t].res = r]
    /\ leases' = leases - 1
    /\ UNCHANGED pipeOnly

(* The request fails, the stream carries an error or breaks, or a send     *)
(* gives way to ctx.Done.                                                  *)
RawFails(t) ==
    /\ \/ pipe[t].raw = "request"
       \/ pipe[t].raw = "read"
       \/ pipe[t].raw \in {"send", "sendTail"} /\ ctxDone[t]
    /\ RawExit(t, "err")

(* A delta arrives: data the scanner holds may be read after a cancel.     *)
RawRead(t) ==
    /\ pipe[t].raw = "read" /\ pipe[t].read < MaxDeltas
    /\ pipe' = [pipe EXCEPT ![t].raw = "cut", ![t].read = @ + 1]
    /\ UNCHANGED <<pipeOnly, leases>>

(* data: [DONE], or the body ends without it: the code takes either for    *)
(* the end of the reply.                                                   *)
RawDone(t) ==
    /\ pipe[t].raw = "read"
    /\ pipe' = [pipe EXCEPT ![t].raw = "tail", ![t].complete = TRUE]
    /\ UNCHANGED <<pipeOnly, leases>>

(* The scanner stops on the cancelled context: the error is not reported.  *)
RawCancelled(t) ==
    /\ pipe[t].raw = "read" /\ ctxDone[t]
    /\ pipe' = [pipe EXCEPT ![t].raw = "tail"]
    /\ UNCHANGED <<pipeOnly, leases>>

(* takeVoiceChunk: some of what is pending is ready to be spoken, or none. *)
RawCut(t) ==
    /\ pipe[t].raw = "cut"
    /\ \/ \E to \in (pipe[t].cut + 1)..pipe[t].read :
             pipe' = [pipe EXCEPT ![t].raw = "send", ![t].hold = to]
       \/ pipe' = [pipe EXCEPT ![t].raw = "read"]
    /\ UNCHANGED <<pipeOnly, leases>>

RawTail(t) ==
    /\ pipe[t].raw = "tail"
    /\ pipe' = [pipe EXCEPT ![t].raw  = IF pipe[t].cut = pipe[t].read THEN "reply" ELSE "sendTail",
                            ![t].hold = pipe[t].read]
    /\ UNCHANGED <<pipeOnly, leases>>

(* Mutant: an unbounded queue in the channel's place.                      *)
RawSendUnbounded(t) ==
    /\ pipe[t].raw \in {"send", "sendTail"}
    /\ pipe' = [pipe EXCEPT ![t].raw = IF @ = "send" THEN "cut" ELSE "reply",
                            ![t].inner = Append(@, <<pipe[t].cut, pipe[t].hold>>),
                            ![t].cut = pipe[t].hold]
    /\ UNCHANGED <<pipeOnly, leases>>

(* chunks <- chunk: the channel has room.                                  *)
RawSend(t) ==
    /\ pipe[t].raw \in {"send", "sendTail"} /\ Len(pipe[t].inner) < Cap
    /\ pipe' = [pipe EXCEPT ![t].raw = IF @ = "send" THEN "cut" ELSE "reply",
                            ![t].inner = Append(@, <<pipe[t].cut, pipe[t].hold>>),
                            ![t].cut = pipe[t].hold]
    /\ UNCHANGED <<pipeOnly, leases>>

(* res.Reply is everything read; an empty one is an error.                 *)
RawReply(t) ==
    /\ pipe[t].raw = "reply"
    /\ RawExit(t, IF pipe[t].read = 0 THEN "err" ELSE "ok")

-----------------------------------------------------------------------------
(***************************************************************************)
(* streamVoiceLLMStandard for the local provider, and for OpenRouter       *)
(* without retries.                                                        *)
(***************************************************************************)
WrapTake(t) ==
    /\ pipe[t].wrap = "range" /\ pipe[t].inner # <<>>
    /\ pipe' = [pipe EXCEPT ![t].wrap = "send", ![t].carry = <<Head(pipe[t].inner)>>,
                            ![t].inner = Tail(@)]
    /\ UNCHANGED <<pipeOnly, leases>>

WrapSend(t) ==
    /\ pipe[t].wrap = "send" /\ Len(pipe[t].outer) < Cap
    /\ pipe' = [pipe EXCEPT ![t].wrap = "range", ![t].outer = @ \o pipe[t].carry,
                            ![t].carry = <<>>]
    /\ UNCHANGED <<pipeOnly, leases>>

(* case <-ctx.Done(): the raw goroutine may still be running.              *)
WrapCancelled(t) ==
    /\ pipe[t].wrap = "send" /\ ctxDone[t]
    /\ pipe' = [pipe EXCEPT ![t].wrap = "closed", ![t].out = "err", ![t].carry = <<>>]
    /\ UNCHANGED <<pipeOnly, leases>>

WrapEnds(t) ==
    /\ pipe[t].wrap = "range" /\ pipe[t].inner = <<>> /\ pipe[t].raw = "closed"
    /\ pipe' = [pipe EXCEPT ![t].wrap = "closed", ![t].out = pipe[t].res]
    /\ UNCHANGED <<pipeOnly, leases>>

-----------------------------------------------------------------------------
(***************************************************************************)
(* The world around the turns.                                             *)
(***************************************************************************)
(* The client goes away: net/http cancels the context of the request.      *)
Disconnect(t) ==
    /\ pc[t] \notin {"idle", "abort", "done"} /\ ~ctxDone[t]
    /\ ctxDone' = [ctxDone EXCEPT ![t] = TRUE]
    /\ UNCHANGED <<pc, sess, sessionVars, sent, pipe, leases>>

(* Seven days pass; no turn is that long.                                  *)
Expire(s) ==
    /\ lock[s] = Free /\ file[s] # NoFile /\ ~stale[s]
    /\ stale' = [stale EXCEPT ![s] = TRUE]
    /\ UNCHANGED <<pc, sess, local, fresh, lock, file, tmp, ctxDone, sent, pipe, leases>>

(* The program is killed and started again: only the files stay.           *)
Restart ==
    /\ \E t \in Turns : pc[t] \notin {"idle", "done"}
    /\ pc' = [t \in Turns |-> IF pc[t] = "idle" THEN "idle" ELSE "done"]
    /\ ctxDone' = [t \in Turns |-> pc[t] # "idle"]
    /\ pipe' = [t \in Turns |->
                  IF pipe[t].raw = "off" THEN pipe[t]
                  ELSE [pipe[t] EXCEPT !.raw = "closed", !.wrap = "closed", !.inner = <<>>,
                                       !.outer = <<>>, !.carry = <<>>]]
    /\ lock' = [s \in Sessions |-> Free]
    /\ leases' = 0
    /\ UNCHANGED <<sess, local, fresh, file, tmp, stale, sent>>

Begin(t) == Load(t) \/ LoadReset(t) \/ LoadFails(t)
HandlerStep(t) ==
    \/ EnsureReady(t) \/ EarlyReturn(t)
    \/ Ask(t) \/ Answer(t) \/ CallFails(t) \/ SpeakAll(t)
    \/ StartStream(t) \/ TakeChunk(t) \/ Speak(t) \/ StopStream(t) \/ RangeEnds(t) \/ TakeResult(t)
    \/ Finish(t)
    \/ CommitNothing(t) \/ WriteTmp(t) \/ Rename(t) \/ SaveFails(t) \/ Abort(t)
RawStep(t) ==
    \/ RawBegin(t) \/ RawRequest(t) \/ RawFails(t) \/ RawRead(t) \/ RawDone(t)
    \/ RawCancelled(t) \/ RawCut(t) \/ RawTail(t) \/ RawSend(t) \/ RawReply(t)

(* Mutant: the wrapper's send does not look at ctx.Done.                   *)
WrapIgnoresCancel(t) == WrapTake(t) \/ WrapSend(t) \/ WrapEnds(t)

WrapStep(t) == WrapTake(t) \/ WrapSend(t) \/ WrapCancelled(t) \/ WrapEnds(t)

Next ==
    \/ \E t \in Turns : \/ Arrive(t) \/ Begin(t) \/ HandlerStep(t) \/ RawStep(t)
                        \/ WrapStep(t) \/ Disconnect(t)
    \/ \E s \in Sessions : Expire(s)
    \/ Restart

Spec == Init /\ [][Next]_vars

(* Goroutines are scheduled; Go's mutex hands itself to the longest waiter *)
(* (starvation mode); the LLM and the voice worker answer, fail, or end    *)
(* the stream, as the client's 180 s timeout and llama-server's end of     *)
(* generation make them.                                                   *)
Fairness ==
    /\ \A t \in Turns : SF_vars(Begin(t)) /\ WF_vars(HandlerStep(t))
    /\ \A t \in Streamed : WF_vars(RawStep(t)) /\ WF_vars(WrapStep(t))

FairSpec == Spec /\ Fairness

-----------------------------------------------------------------------------
(***************************************************************************)
(* Properties.                                                             *)
(***************************************************************************)
Messages == {"user", "assistant"} \X Turns
States   == [summary : Seq(Messages), recent : Seq(Messages), turns : Nat]
InRaw(t) == pipe[t].raw \notin {"off", "begin", "closed"}

(* Every variable has the shape of its Go counterpart; no channel holds    *)
(* more than its capacity.                                                 *)
TypeOK ==
    /\ pc \in [Turns -> Labels]
    /\ sess \in [Turns -> Sessions \cup {NoSession}]
    /\ local \in [Turns -> States]
    /\ fresh \in [Turns -> BOOLEAN] /\ ctxDone \in [Turns -> BOOLEAN]
    /\ sent \in [Turns -> Seq(Chunks)]
    /\ pipe \in [Turns ->
         [raw : RawPcs, read : 0..MaxDeltas, cut : 0..MaxDeltas, hold : 0..MaxDeltas,
          inner : Seq(Chunks), res : Results, complete : BOOLEAN,
          wrap : WrapPcs, carry : Seq(Chunks), outer : Seq(Chunks), out : Results]]
    /\ \A t \in Turns : Len(pipe[t].inner) <= Cap /\ Len(pipe[t].outer) <= Cap
    /\ lock \in [Sessions -> Turns \cup {Free}]
    /\ file \in [Sessions -> States \cup {NoFile}]
    /\ tmp \in [Sessions -> States \cup {NoFile}]
    /\ stale \in [Sessions -> BOOLEAN]
    /\ leases \in Nat

(* A session's file changes only by its removal or by one whole turn added *)
(* to what the file held at that moment (or to nothing, when the turn      *)
(* started over): no turn of a session overwrites another's, whatever      *)
(* fails and whenever the program is restarted.                            *)
TurnSaved(s, t) ==
    /\ sess[t] = s /\ lock[s] = t
    /\ file[s] # NoFile \/ fresh[t]
    /\ file'[s] = Add(IF fresh[t] THEN NewSession ELSE file[s], t)

SavesAppend ==
    [][\A s \in Sessions : file'[s] # file[s] =>
          \/ file'[s] = NoFile
          \/ \E t \in Turns : TurnSaved(s, t)]_vars

(* The file remembers the newest messages and no others: Recent verbatim,  *)
(* Memory lines of older ones, every question followed by its answer.      *)
Shorter(a, b) == IF a < b THEN a ELSE b
WindowIsRight ==
    \A s \in Sessions : file[s] # NoFile =>
       LET f == file[s]
           m == f.summary \o f.recent
       IN  /\ Len(f.recent) = Shorter(Recent, 2 * f.turns)
           /\ Len(f.summary) = Shorter(Memory, 2 * f.turns - Len(f.recent))
           /\ \A i \in 1..(Len(m) - 1) :
                 m[i][1] = "user" => m[i + 1] = <<"assistant", m[i][2]>>

(* The client is sent the reply's chunks in order without gap or repeat,   *)
(* and a turn is committed and reported done only when the client has been *)
(* sent the whole of the reply that is stored.                             *)
SpokenInOrder ==
    \A t \in Turns :
       LET q == sent[t]
       IN  /\ \A i \in 1..Len(q) : q[i][1] = IF i = 1 THEN 0 ELSE q[i - 1][2]
           /\ t \in Streamed /\ pc[t] \in {"commit", "rename", "finish"} =>
                 q # <<>> /\ q[Len(q)][2] = pipe[t].read

(* Every lease the turns have taken belongs to a request in flight, on     *)
(* every error path of both handlers.                                      *)
LeasesExact ==
    leases = Cardinality({t \in Turns : pc[t] = "call"}) + Cardinality({t \in Turns : InRaw(t)})

(* docs/VOICE_CONTEXT.md: "Failed/interrupted replies are not silently     *)
(* added as successful turns."                                             *)
InterruptedRepliesAreNotAdded ==
    \A s \in Sessions : file[s] # NoFile =>
       \A i \in 1..Len(file[s].recent) :
          LET t == file[s].recent[i][2] IN t \in Streamed => pipe[t].complete

(* A turn that waits for its session gets it and ends: no turn before it   *)
(* keeps the mutex, whatever fails.                                        *)
TurnsEnd == \A t \in Turns : (pc[t] = "lock") ~> (pc[t] = "done")

(* When a handler has returned, both goroutines of its stream end too,     *)
(* though nobody reads their channels any more.                            *)
StreamsEnd ==
    \A t \in Streamed : (pc[t] = "done") ~>
        (pipe[t].raw \in {"off", "closed"} /\ pipe[t].wrap \in {"off", "closed"})
=============================================================================
