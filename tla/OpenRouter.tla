------------------------------ MODULE OpenRouter ------------------------------
(***************************************************************************)
(* Requests to OpenRouter with the automatic free fallback switched on.    *)
(*                                                                         *)
(* A voice stream (openrouter_voice_retry.go) asks one model at a time and *)
(* keeps a record of how each did in openrouter-voice-health.json, which   *)
(* openRouterVoiceHealthMu protects between the read and the write of a    *)
(* change.  Any other chat request sends the whole chain of models at      *)
(* once.  Both look the candidates up in the catalogue of the API key,     *)
(* kept for five minutes in a cache whose mutex is free during the fetch.  *)
(*                                                                         *)
(* A request is made once and the configuration it has read does not       *)
(* change; the API key, the catalogues and the health file do.  Times are  *)
(* what they are compared with: a cool-down is running or over, the cache  *)
(* is fresh or too old.  Blacklists only ever come from policy refusals.   *)
(***************************************************************************)
EXTENDS Naturals, Sequences, FiniteSets, SequencesExt, Subsequences

CONSTANTS
    Turns,        \* voice streams
    Chats,        \* other chat requests: jobs, the session path, the proxy
    Admin,        \* the voice-health and key handlers
    Nobody,
    Keys, NoKey,  \* API keys, and no key in the file
    Names,        \* the model ids in alphabetical order
    Free,         \* "openrouter/free"
    Primary,      \* OPENROUTER_MODEL
    Configured,   \* OPENROUTER_FALLBACK_MODELS, split
    Attempts,     \* OPENROUTER_AUTO_FREE_FALLBACK_ATTEMPTS
    Priced,       \* ids that are not free, have a price that cannot be read or write no text
    Context,      \* their context lengths
    Unfit,        \* for each request, the ids without a parameter it needs
    Listings,     \* what /models/user may list for each key
    Histories     \* health files an earlier run may have left

Models  == ToSet(Names) \cup {Free}
Writers == Turns \cup {Admin}                  \* of the health file
Actors  == Writers \cup Chats
Errors  == {"busy", "policy", "other"}   \* 429 and most of 404, 404 of a policy, the rest

Record == [ok : Nat, fail : Nat, black : BOOLEAN, cool : BOOLEAN]

ASSUME OpenRouterAssumption ==
    /\ Turns \cap Chats = {} /\ Admin \notin Turns \cup Chats /\ Nobody \notin Actors
    /\ NoKey \notin Keys /\ Free \notin ToSet(Names)
    /\ Primary \in Models /\ Configured \in Seq(Models) /\ Attempts \in Nat
    /\ Context \in [Models -> Nat] /\ Unfit \in [Turns \cup Chats -> SUBSET Models] /\ Histories \subseteq [Models -> Record]
    /\ \A k \in Keys : Listings[k] # {} /\ Listings[k] \subseteq Seq(Models)

VARIABLES
    key,        \* the key file
    cache,      \* openRouterFreeFallbackCache: whose candidates, and which
    health,     \* the health file
    healthMu,   \* who holds openRouterVoiceHealthMu
    store,      \* the copy of the file each has read
    pc,         \* where each request is
    account,    \* the key a lookup was made with
    found,      \* the candidates it returned
    queue,      \* the models a turn has not reached yet
    attempted,  \* the ones it shall not ask (again)
    tried,      \* the ones it asked
    loaded,     \* fallbackLoaded
    emitted,    \* the attempt has passed text on
    outcome,    \* how the last attempt ended
    chain,      \* models sent with a chat request
    heard,      \* history: the models a client has text of
    since       \* history: models barred ever since, as far as the turn could read

fileVars   == <<health, healthMu, store, since>>
cacheVars  == <<cache, account, found>>
turnVars   == <<queue, attempted, tried, loaded, emitted, outcome, heard>>
vars == <<fileVars, cacheVars, turnVars, key, pc, chain>>

NoCache  == [of |-> Nobody, models |-> <<>>]
Unknown  == [ok |-> 0, fail |-> 0, black |-> FALSE, cool |-> FALSE]
NoHealth == [m \in Models |-> Unknown]
Barred(h) == {m \in Models : h[m].black \/ h[m].cool}

(* 1 to 5 attempts, the primary model's among them.                        *)
MaxAttempts == IF Attempts < 1 THEN 1 ELSE IF Attempts > 5 THEN 5 ELSE Attempts

Init ==
    /\ key \in Keys \cup {NoKey}
    /\ cache = NoCache /\ healthMu = Nobody
    /\ health \in Histories /\ store = [w \in Writers |-> NoHealth]
    /\ pc = [a \in Actors |-> "idle"]
    /\ account = [a \in Actors |-> NoKey] /\ found = [a \in Actors |-> <<>>]
    /\ queue = [t \in Turns |-> <<>>] /\ tried = [t \in Turns |-> <<>>]
    /\ attempted = [t \in Turns |-> {}] /\ heard = [t \in Turns |-> {}]
    /\ loaded = [t \in Turns |-> FALSE] /\ emitted = [t \in Turns |-> FALSE]
    /\ outcome = [t \in Turns |-> "none"]
    /\ chain = [c \in Chats |-> <<>>]
    /\ since = [t \in Turns |-> {}]

Goto(a, l) == pc' = [pc EXCEPT ![a] = l]

-----------------------------------------------------------------------------
(***************************************************************************)
(* Candidates: free text models other than openrouter/free, the longest    *)
(* context first and then by name.                                         *)
(***************************************************************************)
Place(m) == CHOOSE i \in 1..Len(Names) : Names[i] = m

Shuffles(list) == {[i \in DOMAIN list |-> list[p[i]]] : p \in SetToSeqs(DOMAIN list)}

Before(m, n) == Context[m] > Context[n] \/ (Context[m] = Context[n] /\ Place(m) < Place(n))

Candidates(list) ==
    {s \in Shuffles(Keep(list, Models \ (Priced \cup {Free}))) :
        \A i, j \in DOMAIN s : i < j => ~Before(s[j], s[i])}

(* Mutant: the candidates of another account are taken.                    *)
CacheHitAnyKey(a) ==
    /\ pc[a] = "lookup" /\ cache # NoCache
    /\ account' = [account EXCEPT ![a] = key]
    /\ found' = [found EXCEPT ![a] = cache.models]
    /\ Goto(a, "choose") /\ UNCHANGED cache

(* A lookup: the cache is tested under its mutex, the catalogue is fetched *)
(* without it, and what was fetched is stored under it again.              *)
CacheHit(a) ==
    /\ pc[a] = "lookup" /\ cache.of = key
    /\ account' = [account EXCEPT ![a] = key]
    /\ found' = [found EXCEPT ![a] = cache.models]
    /\ Goto(a, "choose") /\ UNCHANGED cache

CacheMiss(a) ==
    /\ pc[a] = "lookup" /\ cache.of # key
    /\ account' = [account EXCEPT ![a] = key]
    /\ Goto(a, "fetch") /\ UNCHANGED <<cache, found>>

Fetched(a) ==
    /\ pc[a] = "fetch" /\ account[a] # NoKey
    /\ \E l \in Listings[account[a]] : \E s \in Candidates(l) : found' = [found EXCEPT ![a] = s]
    /\ Goto(a, "store") /\ UNCHANGED <<cache, account>>

Store(a) ==
    /\ pc[a] = "store"
    /\ cache' = [of |-> account[a], models |-> found[a]]
    /\ Goto(a, "choose") /\ UNCHANGED <<account, found>>

Lookup(a) ==
    /\ CacheHit(a) \/ CacheMiss(a) \/ Fetched(a) \/ Store(a)
    /\ UNCHANGED <<fileVars, turnVars, key, chain>>

-----------------------------------------------------------------------------
(***************************************************************************)
(* The health file.                                                        *)
(***************************************************************************)
(* loadOpenRouterVoiceHealthLocked: a file that cannot be read or parsed   *)
(* gives an empty store, and nobody is told.                               *)
Loads == {health, NoHealth}

(* It is loaded by who is about to change it.                              *)
ReadHealth(a) ==
    /\ healthMu = Nobody
    /\ healthMu' = a /\ \E h \in Loads : store' = [store EXCEPT ![a] = h]
    /\ UNCHANGED <<health, since>>

(* saveOpenRouterVoiceHealthLocked, which may fail and leave the old file; *)
(* nobody looks at the error of a request's save.                          *)
WriteHealth(a, new) ==
    /\ health' \in {new, health}
    /\ healthMu' = Nobody /\ store' = [store EXCEPT ![a] = NoHealth]
    /\ since' = [t \in Turns |-> since[t] \cap Barred(health')]

Snapshot == healthMu = Nobody

(* Mutant: a success makes up for a failure.                               *)
SuccessTakesBack(h, m) == [h EXCEPT ![m].fail = @ - 1, ![m].cool = FALSE]

Success(h, m) == [h EXCEPT ![m].ok = @ + 1, ![m].cool = FALSE]

Failure(h, m, e) ==
    [h EXCEPT ![m] = [ok |-> @.ok, fail |-> @.fail + 1,
                      black |-> @.black \/ e = "policy",
                      cool |-> e # "policy" /\ (@.cool \/ e = "busy")]]

Retryable(e) == e \in {"busy", "policy"}

(* Candidates in the order a turn tries them: a shuffle, sorted by the     *)
(* smoothed success rate, by failures, by context.                         *)
Better(h, m, n) ==
    LET score(x, y) == (h[x].ok + 1) * (h[y].ok + h[y].fail + 2)
    IN  \/ score(m, n) > score(n, m)
        \/ score(m, n) = score(n, m) /\ h[m].fail < h[n].fail
        \/ score(m, n) = score(n, m) /\ h[m].fail = h[n].fail /\ Context[m] > Context[n]

Rankings(list, h) == {s \in Shuffles(list) : \A i, j \in DOMAIN s : i < j => ~Better(h, s[j], s[i])}

-----------------------------------------------------------------------------
(***************************************************************************)
(* A voice stream.                                                         *)
(***************************************************************************)
Turn(t, l) == pc[t] = l
Model(t)   == Last(tried[t])

(* The primary model is asked first unless it is barred.                   *)
Begin(t) ==
    /\ Turn(t, "idle") /\ Snapshot
    /\ \E h \in Loads :
          /\ IF Primary \in Barred(h)
             THEN attempted' = [attempted EXCEPT ![t] = {Primary}] /\ UNCHANGED queue
             ELSE queue' = [queue EXCEPT ![t] = <<Primary>>] /\ UNCHANGED attempted
          /\ since' = [since EXCEPT ![t] = Barred(h)]
    /\ Goto(t, "pick")
    /\ UNCHANGED <<health, healthMu, store, cacheVars, key, tried, loaded, emitted, outcome, heard, chain>>

(* The head of the loop: no attempt is left, the queue is filled once, a   *)
(* model is passed over or asked.                                          *)
Exhausted(t) == Len(tried[t]) >= MaxAttempts \/ (queue[t] = <<>> /\ loaded[t])

(* The turn returns its result: what it kept for itself is gone.           *)
Return(t) ==
    /\ Goto(t, "done")
    /\ queue' = [queue EXCEPT ![t] = <<>>] /\ tried' = [tried EXCEPT ![t] = <<>>]
    /\ attempted' = [attempted EXCEPT ![t] = {}] /\ heard' = [heard EXCEPT ![t] = {}]
    /\ loaded' = [loaded EXCEPT ![t] = FALSE] /\ emitted' = [emitted EXCEPT ![t] = FALSE]
    /\ account' = [account EXCEPT ![t] = NoKey]

Give(t, o) == outcome' = [outcome EXCEPT ![t] = IF @ \in Errors THEN @ ELSE o] /\ Return(t)

GiveUp(t) ==
    /\ Turn(t, "pick") /\ Exhausted(t) /\ Give(t, "none left")
    /\ UNCHANGED <<fileVars, cache, found, key, chain>>

(* Mutant: an empty queue is filled again and again.                       *)
NeedAgain(t) ==
    /\ Turn(t, "pick") /\ ~Exhausted(t) /\ queue[t] = <<>> /\ Goto(t, "lookup")
    /\ UNCHANGED <<fileVars, cacheVars, key, queue, attempted, tried, loaded, emitted, outcome, heard, chain>>

NeedFallbacks(t) ==
    /\ Turn(t, "pick") /\ ~Exhausted(t) /\ queue[t] = <<>>
    /\ loaded' = [loaded EXCEPT ![t] = TRUE]
    /\ Goto(t, "lookup")
    /\ UNCHANGED <<fileVars, cacheVars, key, queue, attempted, tried, emitted, outcome, heard, chain>>

(* Mutant: a name the catalogue repeats is asked again.                    *)
PassOverNone(t) == FALSE

PassOver(t) == Head(queue[t]) \in attempted[t]

Pick(t) ==
    /\ Turn(t, "pick") /\ ~Exhausted(t) /\ queue[t] # <<>>
    /\ queue' = [queue EXCEPT ![t] = Tail(@)]
    /\ IF PassOver(t)
       THEN UNCHANGED <<attempted, tried, emitted, pc>>
       ELSE /\ attempted' = [attempted EXCEPT ![t] = @ \cup {Head(queue[t])}]
            /\ tried' = [tried EXCEPT ![t] = Append(@, Head(queue[t]))]
            /\ emitted' = [emitted EXCEPT ![t] = FALSE]
            /\ Goto(t, "ask")
    /\ UNCHANGED <<fileVars, cacheVars, key, loaded, outcome, heard, chain>>

(* Mutant: the records are only used to sort.                              *)
EligibleBarred(t, h) == Keep(found[t], Models \ (attempted[t] \cup Unfit[t]))

(* The candidates a turn may use, by the records it reads after the lookup.*)
Eligible(t, h) == Keep(found[t], Models \ (attempted[t] \cup Unfit[t] \cup Barred(h)))

Choose(t) ==
    /\ Turn(t, "choose") /\ Snapshot
    /\ \E h \in Loads :
          /\ \E r \in Rankings(Eligible(t, h), h) : queue' = [queue EXCEPT ![t] = @ \o r]
          /\ since' = [since EXCEPT ![t] = @ \cap Barred(h)]
    /\ found' = [found EXCEPT ![t] = <<>>]
    /\ Goto(t, "pick")
    /\ UNCHANGED <<health, healthMu, store, cache, account, key, attempted, tried, loaded, emitted, outcome, heard, chain>>

LookupFails(t) ==
    /\ Turn(t, "fetch") /\ Give(t, "no lookup")
    /\ UNCHANGED <<fileVars, cache, found, key, chain>>

(* One request upstream (streamVoiceLLMStandardRaw), with the key of the   *)
(* moment: it is refused, or streams until it ends or breaks.  A client    *)
(* that hangs up breaks it like any other error; between two chunks the    *)
(* stream may then end as if it were complete.                             *)
Ask(t) ==
    /\ Turn(t, "ask")
    /\ \/ key # NoKey /\ Goto(t, "stream") /\ UNCHANGED outcome
       \/ \E e \in IF key = NoKey THEN {"other"} ELSE Errors :
              outcome' = [outcome EXCEPT ![t] = e] /\ Goto(t, "record")
    /\ UNCHANGED <<fileVars, cacheVars, key, queue, attempted, tried, loaded, emitted, heard, chain>>

Forward(t) ==
    /\ Turn(t, "stream")
    /\ emitted' = [emitted EXCEPT ![t] = TRUE]
    /\ heard' = [heard EXCEPT ![t] = @ \cup {Model(t)}]
    /\ UNCHANGED <<fileVars, cacheVars, key, queue, attempted, tried, loaded, outcome, pc, chain>>

StreamEnds(t) ==
    /\ Turn(t, "stream")
    /\ \E o \in Errors \cup (IF emitted[t] THEN {"ok"} ELSE {}) :
           outcome' = [outcome EXCEPT ![t] = o]
    /\ Goto(t, "record")
    /\ UNCHANGED <<fileVars, cacheVars, key, queue, attempted, tried, loaded, emitted, heard, chain>>

(* A chunk nobody takes any more ends the turn, with nothing recorded.     *)
Abandon(t) ==
    /\ Turn(t, "stream") /\ outcome' = [outcome EXCEPT ![t] = "other"] /\ Return(t)
    /\ UNCHANGED <<fileVars, cache, found, key, chain>>

(* recordOpenRouterVoiceSuccess and ...Failure.                            *)
RecordRead(t) ==
    /\ Turn(t, "record") /\ ReadHealth(t) /\ Goto(t, "save")
    /\ UNCHANGED <<cacheVars, turnVars, key, chain>>

(* Another model is asked when this one refused in a way that may be its   *)
(* own and the client has no text of it yet.                               *)
MayRetry(t) == ~emitted[t] /\ Retryable(outcome[t])

RecordWrite(t) ==
    /\ Turn(t, "save")
    /\ WriteHealth(t, IF outcome[t] = "ok" THEN Success(store[t], Model(t))
                                        ELSE Failure(store[t], Model(t), outcome[t]))
    /\ IF MayRetry(t)
       THEN /\ Goto(t, IF loaded[t] THEN "pick" ELSE "lookup")
            /\ loaded' = [loaded EXCEPT ![t] = TRUE]
            /\ UNCHANGED <<queue, attempted, tried, emitted, heard, account>>
       ELSE Return(t)
    /\ UNCHANGED <<cache, found, key, outcome, chain>>

-----------------------------------------------------------------------------
(***************************************************************************)
(* Any other chat request (applyOpenRouterAutoFreeFallback).               *)
(***************************************************************************)
(* The chain of a list of candidates: the primary model, the configured    *)
(* fallbacks that are among them, the others, and openrouter/free.         *)
Extend(list, want, unfit) ==
    LET made[n \in 0..Len(want)] ==
            IF n = 0 THEN list
            ELSE IF Len(made[n - 1]) >= MaxAttempts \/ want[n] \in ToSet(made[n - 1]) \cup unfit
                 THEN made[n - 1] ELSE Append(made[n - 1], want[n])
    IN  made[Len(want)]

(* Mutant: the configured fallbacks are taken as they are.                 *)
ChainAsConfigured(list, unfit) ==
    LET all == Extend(Extend(<<Primary>>, Configured, unfit), list, unfit)
    IN  IF Len(all) < MaxAttempts /\ ~Contains(all, Free) THEN Append(all, Free) ELSE all

Chain(list, unfit) ==
    LET manual == Extend(<<Primary>>, Keep(Configured, ToSet(list)), unfit)
        all    == Extend(manual, list, unfit)
    IN  IF Len(all) < MaxAttempts /\ ~Contains(all, Free) THEN Append(all, Free) ELSE all

Chat(c) ==
    /\ pc[c] = "idle"
    /\ IF MaxAttempts <= 1
       THEN chain' = [chain EXCEPT ![c] = <<Primary>>] /\ Goto(c, "done")
       ELSE Goto(c, "lookup") /\ UNCHANGED chain
    /\ UNCHANGED <<fileVars, cacheVars, turnVars, key>>

Send(c) ==
    /\ \/ /\ pc[c] = "choose" /\ chain' = [chain EXCEPT ![c] = Chain(found[c], Unfit[c])]
          /\ UNCHANGED account
       \/ /\ pc[c] = "fetch" /\ chain' = [chain EXCEPT ![c] = Chain(<<>>, Unfit[c])]
          /\ account' = [account EXCEPT ![c] = NoKey]
    /\ Goto(c, "done")
    /\ UNCHANGED <<fileVars, cache, found, turnVars, key>>

Finish(c) ==
    /\ pc[c] = "done" /\ Goto(c, "idle")
    /\ chain' = [chain EXCEPT ![c] = <<>>]
    /\ found' = [found EXCEPT ![c] = <<>>] /\ account' = [account EXCEPT ![c] = NoKey]
    /\ UNCHANGED <<fileVars, cache, turnVars, key>>

-----------------------------------------------------------------------------
(***************************************************************************)
(* The admin's handlers and what happens outside.                          *)
(***************************************************************************)
(* clear_blacklist, of one model or of all, and reset_policy_state read the*)
(* file first; reset_history does not.  What is lifted only counts when the*)
(* file is written, and clearing a model that is not barred is left out:   *)
(* it changes nothing.                                                     *)
Lifted(h, S) == [m \in Models |-> IF m \in S THEN [h[m] EXCEPT !.black = FALSE, !.cool = FALSE] ELSE h[m]]

AdminRead ==
    /\ pc[Admin] = "idle" /\ ReadHealth(Admin) /\ Goto(Admin, "save")
    /\ UNCHANGED <<cacheVars, turnVars, key, chain>>

Lift(S, next) == WriteHealth(Admin, Lifted(store[Admin], S)) /\ Goto(Admin, next)

AdminWrite ==
    /\ pc[Admin] = "save"
    /\ \/ \E S \in {{m} : m \in Barred(store[Admin])} \cup {Models} : Lift(S, "idle")
       \/ Lift({m \in Models : store[Admin][m].black}, "drop")
    /\ UNCHANGED <<cacheVars, turnVars, key, chain>>

(* reset_policy_state then empties the cache under the cache's mutex.      *)
DropCache ==
    /\ pc[Admin] = "drop" /\ cache' = NoCache /\ Goto(Admin, "idle")
    /\ UNCHANGED <<fileVars, turnVars, key, account, found, chain>>

ResetHistory ==
    /\ pc[Admin] = "idle" /\ Snapshot /\ WriteHealth(Admin, NoHealth)
    /\ UNCHANGED <<cacheVars, turnVars, key, pc, chain>>

SetKey ==
    /\ pc[Admin] = "idle" /\ key' \in Keys \cup {NoKey}
    /\ UNCHANGED <<fileVars, cacheVars, turnVars, pc, chain>>

CacheTooOld ==
    /\ cache # NoCache /\ cache' = NoCache
    /\ UNCHANGED <<fileVars, turnVars, key, account, found, pc, chain>>

(* A cool-down is over; not while a copy of the file is being changed.     *)
CooledDown ==
    /\ Snapshot
    /\ \E m \in Models : health[m].cool /\ health' = [health EXCEPT ![m].cool = FALSE]
    /\ since' = [t \in Turns |-> since[t] \cap Barred(health')]
    /\ UNCHANGED <<healthMu, store, cacheVars, turnVars, key, pc, chain>>

-----------------------------------------------------------------------------
TurnStep(t) ==
    \/ GiveUp(t) \/ NeedFallbacks(t) \/ Pick(t) \/ Lookup(t) \/ Choose(t) \/ LookupFails(t)
    \/ Ask(t) \/ Forward(t) \/ StreamEnds(t) \/ Abandon(t) \/ RecordRead(t) \/ RecordWrite(t)
ChatStep(c) == Lookup(c) \/ Send(c) \/ Finish(c)
AdminStep   == AdminRead \/ AdminWrite \/ DropCache \/ ResetHistory \/ SetKey
Outside     == CacheTooOld \/ CooledDown

Next ==
    \/ \E t \in Turns : Begin(t) \/ TurnStep(t)
    \/ \E c \in Chats : Chat(c) \/ ChatStep(c)
    \/ AdminStep \/ Outside

Spec == Init /\ [][Next]_vars

(* Fetches have time-outs.  The client of the streams has none: a stream   *)
(* that neither ends nor breaks is assumed away.  openRouterVoiceHealthMu  *)
(* is granted in the end to who waits for it (sync.Mutex starves nobody).  *)
FairSpec ==
    /\ Spec
    /\ \A t \in Turns : SF_vars(TurnStep(t))
    /\ WF_vars(AdminWrite \/ DropCache)

-----------------------------------------------------------------------------
TypeOK ==
    /\ key \in Keys \cup {NoKey}
    /\ cache.of \in Keys \cup {Nobody} /\ cache.models \in Seq(Models)
    /\ health \in [Models -> Record] /\ store \in [Writers -> [Models -> Record]]
    /\ healthMu \in Writers \cup {Nobody}
    /\ pc \in [Actors -> {"idle", "pick", "lookup", "fetch", "store", "choose", "ask", "stream",
                          "record", "save", "drop", "done"}]
    /\ account \in [Actors -> Keys \cup {NoKey}] /\ found \in [Actors -> Seq(Models)]
    /\ queue \in [Turns -> Seq(Models)] /\ tried \in [Turns -> Seq(Models)]
    /\ attempted \in [Turns -> SUBSET Models] /\ heard \in [Turns -> SUBSET Models]
    /\ since \in [Turns -> SUBSET Models]
    /\ loaded \in [Turns -> BOOLEAN] /\ emitted \in [Turns -> BOOLEAN]
    /\ outcome \in [Turns -> Errors \cup {"none", "ok", "none left", "no lookup"}]
    /\ chain \in [Chats -> Seq(Models)]

(* A turn asks no model twice and never more than the configured number of *)
(* models, five at most, although a catalogue may name a model twice and   *)
(* the primary model among its candidates.                                 *)
EachModelOnce ==
    \A t \in Turns : IsInjective(tried[t]) /\ Len(tried[t]) <= MaxAttempts /\ MaxAttempts <= 5

(* The client of a turn hears one model: nothing is retried after its text *)
(* was passed on, and a turn that succeeds did so with that model's.       *)
OneVoice ==
    \A t \in Turns :
        /\ Cardinality(heard[t]) <= 1
        /\ pc[t] \in {"record", "save"} /\ outcome[t] = "ok" => heard[t] = {Model(t)}

RetriesAreSafe == EachModelOnce /\ OneVoice

(* No model but the primary one is used that is not free, cannot do what   *)
(* the request needs or is none the account asked about may use: neither   *)
(* in a chain nor by a turn, whatever keys change in between.              *)
Permitted(a) ==
    (IF account[a] = NoKey THEN {} ELSE UNION {ToSet(l) : l \in Listings[account[a]]}) \ (Priced \cup Unfit[a])

OnlyPermitted ==
    /\ \A t \in Turns : ToSet(tried[t]) \ {Primary} \subseteq Permitted(t)
    /\ \A c \in Chats : ToSet(chain[c]) \ {Primary, Free} \subseteq Permitted(c)

(* A chain starts with the primary model and has no model twice; what the  *)
(* user configured comes before the rest, each part in its own order;      *)
(* openrouter/free closes it if there is room, and only if every candidate *)
(* that is fit is in it.                                                   *)
InOrder(s, list) == \A i, j \in DOMAIN s : i < j => \E p, q \in DOMAIN list : p < q /\ list[p] = s[i] /\ list[q] = s[j]

ChainOf(s, list, unfit) ==
    LET rest   == Keep(Tail(s), Models \ {Free})
        manual == Keep(rest, ToSet(Configured))
        auto   == Keep(rest, Models \ ToSet(Configured))
    IN  /\ Head(s) = Primary /\ IsInjective(s) /\ Len(s) <= MaxAttempts
        /\ rest = manual \o auto /\ InOrder(manual, Configured) /\ InOrder(auto, list)
        /\ ToSet(rest) \subseteq ToSet(list) \ unfit
        /\ Contains(s, Free) => Free \in {Last(s), Primary}
        /\ Len(s) < MaxAttempts => ToSet(list) \ unfit \subseteq ToSet(s) /\ Contains(s, Free)

ChainIsRight == \A c \in Chats : pc[c] = "done" => ChainOf(chain[c], found[c], Unfit[c])

(* A turn asks no model that was barred when it began and has been ever    *)
(* since, however the records change while it waits for other models; only *)
(* a read of the file that fails, its own or a writer's, unbars one.       *)
BarredIsSkipped ==
    [][\A t \in Turns : Len(tried'[t]) > Len(tried[t]) => Model(t)' \notin since[t]]_vars

(* What one writer recorded, another does not undo: only a reset, or a     *)
(* writer whose read of the file failed, takes counts away, all of them at *)
(* once, and but for these only an order of the admin lifts a blacklist.   *)
ReadFailed == healthMu # Nobody /\ store[healthMu] = NoHealth

HistoryIsKept ==
    [][\/ health' = NoHealth \/ ReadFailed
       \/ \A m \in Models :
              /\ health'[m].ok >= health[m].ok /\ health'[m].fail >= health[m].fail
              /\ health[m].black /\ ~health'[m].black => pc[Admin] = "save" /\ pc'[Admin] # "save"]_vars

(* The history of a model counts, whoever writes it when.                  *)
HistoryCounts == BarredIsSkipped /\ HistoryIsKept

(* A turn that has begun ends with its one result, whatever is refused,    *)
(* fails, hangs up or is changed by the admin in between.                  *)
TurnsAnswered ==
    \A t \in Turns : pc[t] = "pick" ~> pc[t] = "done"
=============================================================================
