# TLA+ models of QnapAssistant

QnapAssistant turns a NAS into a small assistant server. One Go program,
`qnap-admin` (`admin/`), serves the web UI and the HTTP APIs, supervises two
child processes and calls a hosted provider:

    clients --HTTP--> qnap-admin --HTTP--> llama-server        (local LLM, one process)
                          |-------HTTP--> qnap-voice-worker    (ASR and TTS, voiceworker/)
                          |-------HTTPS-> OpenRouter
                          `-- files: config.env, sessions, model health, models, update state

Its sequential code is unit-tested; what tests hardly reach is how its goroutines,
child processes and files interleave. That is what these modules are about.

## Inventory

For each component: its state; its operations; what it talks to; what is hard;
what makes it correct. Every hazard, with its source line and the property that
covers it, is in `PROJECT.json`.

| Component (source) | State and operations | Hard behaviour | Correct when |
|---|---|---|---|
| **Backend lifecycle** (`manager.go`, `handlers.go`) | `cmd`, `activeRequests`, `lastUsed`, locks `startMu` (held over downloads, exec and a 5 s stop) and `mu`; start, stop, ensureReady, lease, idle unload, a `Wait` goroutine per process | requests, operators, configuration changes and the idle timer interleave; the process dies by itself; a late `Wait` | leases counted exactly; no unload under a lease; no forgotten and no second server; a provider switch stops it; ensureReady returns |
| **Job queue** (`llm_jobs.go`, `llm_job_diagnostics.go`) | job table, buffered channel, `jobsMu`; create, poll, delete, expire; one worker goroutine that uses the backend under a lease | delete against a running or a queued job; late answers; a full channel; a dozen early returns | no job lost, doubled or revived; the limit holds; every job ends; every submission is answered |
| **Configuration store** (`config.go`, `config_handler_v04.go`, `thinking.go`) | one file, loaded by everyone at any time; load-modify-save without a lock | lost updates, shared temporary file, values read twice in one request | a change is not lost; derived stops happen |
| **Voice worker process** (`voice.go`) | `voiceProcess.cmd`, `startMu`, `mu` | stop does not take `startMu`, unlike the LLM backend | one worker; a stop misses no worker but one that is just being launched; settings that were replaced are not kept unnoticed |
| **Speech engine** (`voiceworker/`) | ASR, TTS and a resident Piper process, each with a load and a run lock; idle unload | lock order, unload against decode, restart and retry of Piper | never unloaded in use; no deadlock |
| **Voice turn** (`voice_chat_session.go`, `voice_llm_standard.go`, `openrouter_voice_retry.go`, `voice_speech_v04.go`) | ASR, then session begin, LLM stream, bounded chunk channel, TTS, commit or abort | client disconnects at any point, upstream cut short, TTS failure after the commit | only complete turns are remembered; every goroutine ends; the session lock is released |
| **Voice sessions** (`voice_session.go`, `voice_context.go`) | one file per session, a lock per session, TTL, compaction | reset during a turn, expiry, failed save | turns of a session are serialised; history is bounded and ordered |
| **Voice chunking** (`voice_chunk.go`) | pure function | boundary values of min and max | nothing lost, nothing reordered |
| **OpenRouter retry and health** (`openrouter_voice_retry.go`, `openrouter_voice_health.go`) | health file under a mutex; attempt loop per request | retries after text was emitted, concurrent resets, cooldown | bounded attempts, no model twice, one result, no retry after output |
| **Fallback chain** (`openrouter_auto_fallback.go`) | five-minute candidate cache; pure chain builder | in-flight fetch against a reset | no duplicates, primary first, at most five |
| **OpenRouter access** (`llm_provider.go`, `openrouter_*.go`) | API key file | none: parsing and rewriting | - |
| **Downloads and provisioning** (`model_download.go`, `bootstrap.go`, `voice_models.go`, `piper_models.go`) | download state with an `Active` flag, `.part` files, staged directories | boot, on-demand and manual downloads at once; crash between two renames | one writer per target; a model is complete or absent |
| **Self-update** (`update.go`, `shared/update-self.sh`) | state file shared by handler and script | double start, killed helper | the state tells the truth with several installers; no update ends without starting the program again |
| **Start and shutdown** (`main.go`) | warmup goroutine; stops the children, then the server | a request between the two | no orphan process but one started in between |
| Monitoring, debug, playground, UI, packaging, CI | reports, text, scripts | - | not modelled |

## Modules

| Module | What it is |
|---|---|
| `LLMBackend` | `manager.go` and the handlers that start, stop and use the backend |
| `JobService` | what the job API promises: a bounded first-come-first-served service |
| `LLMJobs` | `llm_jobs.go`; refines `JobService` |
| `VoiceTurn` | a spoken turn: session file and mutex, LLM stream, speech, commit |
| `SpeechWorker` | the engine of `qnap-voice-worker`: models, resident Piper child, idle unloading |
| `OpenRouter` | retries of a voice stream, model health, candidate cache and fallback chain |
| `Provisioning` | downloads of voice assets and models, and the gate before voice requests |
| `Service` | the voice worker process, the program's start and end, the self-update |
| `Subsequences` | `Keep`: the elements of a sequence that are in a set, in their order |
| `MC...` | small instances of each for TLC |
| `...Proofs` | theorems about each (those about `JobService` are in `LLMJobsProofs`) |

The modules meet where the code has one narrow interface. `LLMJobs` and
`VoiceTurn` use the backend as a lease and an `ensureReady` that succeeds or
fails; `LLMBackend` has both as actors. `VoiceTurn` sees one attempt of a
stream, `OpenRouter` the attempts around it. `Service` sees the voice worker as a
process, `SpeechWorker` what happens in it. `Provisioning` ends where the handler
behind the gate begins.

### LLMBackend

Every goroutine is an *actor* with a program counter `pc[a]`. Actors come in
the kinds the code has: `Proxies` take their lease first (`handleProxy`, the
playground, `runJob`); `Voices` call `ensureReady` first and hold a lease only
while generating; `Operators` are the start, stop and restart requests and the
boot warmup; `Configurers` are the handlers that save the configuration; `Idler`
is `idleLoop`.

* `startMu` is a lock with an owner, because it is held across slow work. `mu`
  is never held while its owner waits, so each of its critical sections is one step.
* `lcmd[a]` is the local `cmd` of `startBackend` and `stopBackendLocked`: between
  exec and `m.cmd = cmd`, and between `m.cmd = nil` and the end of the stop,
  only that goroutine knows the process.
* `EnsureReady`, `StartLock`, `StartCheck`, `Launch`/`LaunchFails`, `Publish`,
  `PollHealthy`/`PollExited`/`PollDeadline` are `ensureReady` in order;
  `StopLock`, `StopTake`, `SigTerm`, `StopDone` are `stopBackend`.
* A process goes `loading -> serving -> exited -> reaped`; it may exit at any
  time. `Reap` and `ClearCmd` are the `Wait` goroutine. The port is served by one
  process at a time, and the health poll is answered by whichever it is, as in
  the code.
* `LoadConfig` and `SaveConfig` are two steps with the loaded copy between them.

Time is the bit `idle` ("`time.Since(lastUsed)` exceeds the timeout"), reset
wherever the code sets `lastUsed`. The idle timeout is taken as positive.

### LLMJobs and JobService

`Build`, `Reject`, `Admit`, `Send` are `createLLMJob`: the job is built before
`jobsMu` is taken, admitted under it, and sent to the channel still under it.
When the channel is full the handler waits *with the lock*, so `jobsMu` has an
owner; all other critical sections are steps enabled while the lock is free.
`Poll` and `Delete` are the other handlers: all of them clean up expired jobs
first. The worker walks through `runJob`: lease, mark, provider check,
`ensureReady`, mark, second provider check, request, mark, generation, stream,
verification, final mark, release; every early return of the code is a branch to
`end` with the state it marks. A deleted job stays in the channel, as in the code.

The implementation of `JobService` is shown by the refinement mapping `Line`,
`Current`, `Outcome`: channel tombstones disappear, and the job in the worker's
hands but not yet marked, and the one a blocked handler is sending, are still
in line.

Abstractions: the job's texts, timings and diagnostics are left out; a failure
has no error code; identifiers are never reused, so `Ids` bounds the number of
submissions; "finished more than 15 minutes ago" is the bit `expired`; the request
bytes are present exactly while the job is not terminal (both writers change the
two together), and the unlocked read of them in `runJob` sees one or the other.
`DELETE` of a job that has ended answers "cancelled" whatever its end was; the
answer is not modelled, the state, which stays, is.

### VoiceTurn

`pc[t]` is the HTTP handler of turn `t`. All turns share the session steps:
`Load`, `LoadReset`, `LoadFails` (`beginVoiceSession`, which keeps the mutex until
the turn commits or aborts), `WriteTmp`, `Rename`, `SaveFails` (`Commit`), `Abort`
(the deferred call). Turns in `Streamed` run `handleVoiceChatStreamSession`
(`StartStream` to `Finish`), the others `handleVoiceChatSession` (`Ask`, `Answer`,
`CallFails`, `SpeakAll`).

`pipe[t]` holds the two goroutines of a stream. `Raw...` is
`streamVoiceLLMStandardRaw`: it reads deltas, cuts chunks, sends each to the
first channel unless the context is done, and on any exit returns its lease,
leaves a result and closes the channel (`RawExit`; nobody can see these three
apart). `Wrap...` is `streamVoiceLLMStandard`, which copies the first channel to the
second. When the handler leaves it cancels the context and stops reading; the
goroutines find out at their next send.

`Disconnect` cancels a request's context anywhere, `Expire` lets a file grow older
than `voiceSessionTTL`, `Restart` kills the program anywhere: files survive,
goroutines, locks and leases do not.

Abstractions: a reply is a number of deltas that carry speakable text, a chunk
an interval of them, and `takeVoiceChunk` may cut wherever it likes. A stored
message is its role and its turn; the summary holds `Memory` lines where the
code counts runes, so a line is kept or dropped as a whole and the marks of
omission are left out. `RawCancelled` is the end of the scan when the context is
done: the code ignores the scanner's error then. A session that expires does so
between turns. The provider branch with voice retries is in `OpenRouter`.

### SpeechWorker

A goroutine is at `<<label, engine>>`: a request to `/asr` or `/tts`, `Main`
(preloading, sleeping, closing) or `Idler` (`idleUnloadLoop`).

* `lock` holds the three run locks. The load locks nest inside them and guard
  no slow step, so loading and deleting are one step each (`Ensure`, `Delete`).
  `preload` calls `ensureASR` without the run lock; `Preload` does too.
* `Say` chooses the plan of a synthesis: the back end of the request, or the
  configured one and its fallback; a Piper synthesis goes to the resident child
  or to a one-shot one. `End` is the way from one failed back end to the next.
* `StartKid`, `Answer`, `Restart`, `GiveUp`, `Stopped` are
  `synthesizePiperResident`; `piper` is `engine.piperResident` and whether that
  child runs, `hand[a]` the child goroutine `a` is stopping.
* `stamp` is the time of last use against the timeout: never, recent, expired.
  `IdleCheck` reads it before any lock is taken, as `idleUnloadLoop` does.
* `Exit` is the end of the worker, after `close()` or by a signal anywhere; the
  admin starts another one.

### OpenRouter

* A voice stream (`Turns`): `Begin`, `Pick`, `PassOver`, the lookup, `Choose`,
  `Ask`, `Forward`, `StreamEnds`, `RecordRead`, `RecordWrite` are the loop of
  `streamVoiceLLMStandard` (`openrouter_voice_retry.go`) with
  `openRouterVoiceRetryCandidates`, `recordOpenRouterVoiceSuccess` and `...Failure`.
* A chat request (`Chats`) builds its chain with the pure operator `Chain`, which
  `ChainIsRight` compares with a description of the result (`ChainOf`).
* A lookup is `CacheHit` or `CacheMiss`, `Fetched`, `Store`: the cache mutex is
  free during the fetch, so keys and resets come in between.
* The health file is read into `store[w]` and written back under
  `openRouterVoiceHealthMu` (`ReadHealth`, `WriteHealth`); a write may fail and leave
  the old file. Any read may fail (`Loads`): `loadOpenRouterVoiceHealthLocked` then
  returns an empty store and tells nobody, so a turn sees no barred model, and the
  next record, or order of the administrator, writes the empty store over the whole
  history. `HistoryCounts` names these reads as its exceptions: nothing else takes a
  record away or unbars a model. `AdminRead`, `AdminWrite`, `DropCache`,
  `ResetHistory` are the voice-health handler's orders.

Success rates, prices and context lengths are numbers of a small instance;
`Better` compares the smoothed rates as fractions. Times are what they are
compared with: a cool-down runs or is over, the cache is fresh or too old. A
sorted list is any shuffle of the list in which nobody stands before who goes
first: for the candidates, sorted to the last key, that is one list; for the
ranking, any order its three keys allow. Filters are `Keep`, a recursive function,
where `SelectSeq` would do for TLC: its laws can be proved, those of an operator
that takes a predicate cannot. `MCLLMJobs` assumes, and TLC evaluates, that the two agree.

### Provisioning

Threads are voice requests and `autoProvision` (`Users`, under
`voiceProvisionMu`) and one goroutine per download handler. `active` and `failed` are
the flag and the error of a group's download; the dictionary has no flag, only the
mutex. `left[t]` is what the download still has to fetch; each asset goes through
`Open`, `Copy`, `Rename` and, for archives, `Extract`, `Swap`, `Move`. `part`,
`archive`, `stage` and `file` are the four files of an asset on disk: absent, cut
short or whole. `Kill` ends the program between any two steps and keeps the files.
The readiness tests look for files of some size, so `Present` does not tell a cut
file from a whole one; that there are no cut ones is what `InstalledIsWhole` says.

### Service

* `StartCheck`, `Build`, `Launch`, `Publish`, `Poll` are `ensureVoiceReady` with
  `startVoiceWorker`: the configuration is read when the command is built, the
  process is started later and published later still. `StopTake`, `StopTerm`,
  `StopDone` are `stopVoiceWorker`, which takes `mu` only. `Reap` is the `Wait`
  goroutine.
* `LoadConfig` and `SaveConfig` are `handleConfigV04`, with the loaded copy in
  `copy[u]` between them. It stops the worker only if it has changed a key of the
  worker in its own copy: a handler whose copy another save has overtaken writes old
  keys back and stops nothing. A read of the file that fails gives the defaults,
  a save may fail (`SaveFails`).
* A worker has the settings it was built with (`proc[p].conf`). Two marks say how it
  escaped: `missed`, a stop looked for a command while the worker was being launched
  or was in another stop's hands, main had looked before it was launched, or the
  program was killed; `misled`, it was built with, or passed over by, something else
  than what was last saved. `WorkersAccounted` says that a worker outlives its program
  (`proc[p].old`), or keeps replaced settings, only so marked. That it can happen at
  all is what the code permits: the invariant bounds it to these cases, and the
  mutant shows that it is lost when the `Wait` goroutine forgets whose command it clears.
* `prog` is the program: `Signal`, the stop of both children (`Main`),
  `StopServing`, `Exit`. Handlers arrive while it still serves, also after the
  children have been stopped. A worker is its own process group: one that is
  not stopped stays when the program ends. `Killed` is a program killed or in panic,
  `Reboot` a power loss, which takes everything but the files.
* `Click`, `FindNewer`, `WriteStarting`, `Spawn` are `handleUpdateApply`, with its
  early returns in `Decline`; `updater[h]` is a process of `update-self.sh`, whose
  stages, installation, verification, restart and `fail` are steps. Several may run,
  and one may be killed (`UpdaterKilled`).
* `StartScript` is `start_service`. It brings the program up, ends with an error
  (package disabled, server missing, failed launch), or takes a program that is still
  ending for one that runs and does nothing. The helper throws the outcome away
  (`update-self.sh:39`); `start` keeps it, for `ComesBack`: an update that has stopped
  the program, or found it stopped, starts it again or has tried and been refused in
  one of these two ways, unless the helper itself was killed.

## Runs

| Run | Instance | What it shows |
|---|---|---|
| `backend_safety` | 1 proxy, 1 voice turn, 1 operator, 1 configurer, idler, 2 processes | `TypeOK`, `LeaseCountExact`, `NoUnloadUnderLease`, `NoStrayServer`, `OneServer`, `SwitchStopsServer` hold |
| `backend_liveness` | 1 proxy, 1 voice turn, idler, 2 processes, fair | `EnsureReadyReturns`, `IdleServerUnloaded` hold |
| `backend_switch` | 2 configurers, 1 voice turn | **violation** of `SwitchStopsServer` |
| `backend_voice` | 1 voice turn, idler, 2 processes | **violation** of `VoiceTurnKeepsServer` |
| `jobs` | 3 jobs, 2 submitters, limit 2, every job may be deleted, fair | `TypeOK`, `NoJobLost`, `StageIsLeased`, `AtMostMaxJobs`, `ImplementsJobService`, `JobsEnd` hold |
| `jobs_blocked` | 4 jobs, 1 submitter, limit 2, every job may be deleted, fair | **violation** of `SubmissionAnswered` |
| `voice` | 2 turns of a session or of none, one of them streamed with up to 2 deltas, window of 2 messages and 1 line, channels of capacity 1, fair | `TypeOK`, `SpokenInOrder`, `LeasesExact`, `WindowIsRight`, `SavesAppend`, `TurnsEnd`, `StreamsEnd` hold |
| `voice_interrupted` | 1 streamed turn | **violation** of `InterruptedRepliesAreNotAdded` |
| `speech` | 1 recognition, 1 synthesis (Piper, fallback Supertonic), main, idle loop, fair | `TypeOK`, `NothingFreedInUse`, `OneChild`, `LoadedCanExpire`, `RequestsEnd`, `IdleUnloaded` hold |
| `openrouter` | 1 voice stream, 1 chat request, the administrator, 1 API key that comes and goes, 2 catalogues for it, one of them 4 models with a repetition, 3 attempts, fair | `TypeOK`, `RetriesAreSafe`, `OnlyPermitted`, `ChainIsRight`, `HistoryCounts`, `TurnsAnswered` hold |
| `provisioning` | start of the program, 1 voice request, 1 click, 1 kill, 6 assets in 4 groups, fair | `FlagsAreRight`, `InstalledIsWhole`, `ReadyStays`, `GateOpens` hold |
| `service` | 2 handlers, warm-up, main, 1 update click at a time, 2 updaters, 2 workers, 2 settings, 2 calls of which 1 may be a kill or a power loss, fair updaters | `WorkersAccounted`, `StatusIsTrue`, `ComesBack` hold |

Every property of a passing run has a mutant: an operator in the module, marked
as such, that changes one definition the way a plausible bug would, and with
which TLC finds the property violated.

**Bounds.** Two processes are enough for an old server dying while a new one
starts, which is the only way two can meet: a third start needs `startMu`, and a
process identity is reused once its `Wait` goroutine is done with it and nobody
holds it. One actor of each kind gives every pair of kinds; two of the same
kind are covered by the proofs and, for the configuration handlers, by
`backend_switch`. For the queue, `maxLLMJobs` is scaled from five to two: one
job runs, one waits, a third is rejected. In `jobs`, three identifiers cannot both
fill the channel with deleted jobs and leave one to submit; the fourth one of
`jobs_blocked` is what separates the two. For voice turns, the window of twelve
messages becomes two and the summary one line, so that a second turn moves
messages and drops lines; two deltas fill a channel of capacity one while
the wrapper holds the other chunk; two turns of a session give every order of
one turn's end and the next one's start. One streamed turn suffices because
streams share only the session and the count of leases.

In the speech worker, one user of each model against the idle loop and main gives
every pair that shares a lock; the synthesis alone tries two back ends. In
`openrouter`, one stream, one chat and the administrator are every kind of reader
and writer of the cache and the health file; the catalogue repeats a name, holds
a paid model, one that suits only chats, the configured fallback and one that
cools down, and the primary model is blacklisted at first; with three attempts a
chat's chain may be full before `openrouter/free`. The key is removed and put back
while catalogues are fetched, so that a cache used without its key would show, and
the account's catalogue changes in between, so that an older answer may overwrite a
newer one; a second account makes the run too long, and `OnlyPermittedIsUsed` proves
the same for any number of keys. A stream has two models to try
here; that its attempts are bounded is what `RetryingIsSafe` proves. In `provisioning`, one
archive stands for the two sherpa models, which are fetched one after the other by
the same code; one kill can fall between any two steps, and what it leaves is met
by everything that follows. `MaxCalls` and `MaxCrashes` bound the environment of
`service`: two calls are two configuration changes that overlap, a request against a
shutdown, a configuration change against the start that the warm-up makes, or two
clicks for the two updaters; one of them may be a kill or a power loss. What they set
off, the stops by the package manager and the starts of the program come on top. Two settings
are a value and another one; one of them is the default that a failed read gives.

**Deadlock** is checked in every run but those of `VoiceTurn` and `Service`: turns
all end, and a service that is not called any more rests.

**Fairness.** A goroutine that can run does run (WF). A goroutine that waits for a
mutex gets it although others keep taking it (SF on the steps that take
`startMu`, a session's mutex, a run lock, `openRouterVoiceHealthMu` or
`voiceProvisionMu`): a Go mutex hands itself to a waiter after one millisecond. The
steps taken while `startMu` is held end, because the download runs under the load
deadline and the wait for SIGTERM is five seconds. A killed process dies; one
that got SIGTERM need not. `EnsureReady` and `Generate` of the job worker end
because they run under the load and the generation timeout, which
`EnsureReadyReturns` checks for the first. In a voice turn the LLM and the voice
worker answer, fail or end the stream: the handlers' client gives up after 180
seconds, and a local generation ends when its context is full. The streaming
client itself has no timeout, so a server that neither sends nor closes would
hold the session until its client leaves; the model assumes it away, and so it
does for two more waits without a limit: the read of the resident Piper child's
answer and the transfers of `Provisioning` (`http.Client{Timeout: 0}`), which hold
`voiceProvisionMu` and do not all listen to the request's context. Decoding and
synthesis end. `update-self.sh` goes on by itself until it is killed or the power is
lost; in `Service` that is all, and the program may hang where it is. Nothing is
assumed of clients, administrators or the upstream.

### What the violations show

* `jobs_blocked` (`llm_jobs.go:309`). One job runs; the others are submitted
  and deleted until the channel holds only deleted jobs. The next submission
  passes the admission test, which counts only jobs that have not ended, and
  blocks on the full channel while it holds `jobsMu`. The worker needs `jobsMu` to
  finish its job. Both wait for ever, and so does every later request about a
  job. `docs/LLM_PROVIDERS.md:483` promises HTTP 429.
* `backend_switch` (`config_handler_v04.go:96`). Handler 1 loads a configuration
  that says openrouter; handler 2 switches to local; a voice turn starts the
  server; handler 1 writes openrouter back and, seeing no change against its own
  copy, stops nothing. `docs/LLM_PROVIDERS.md:10` says that switching stops the
  process.
* `backend_voice` (`voice_chat_session.go:74`). A voice turn finds no server, starts
  one and polls it inside `ensureReady`. `lastUsed` was set at the start and nothing
  refreshes it until the lease. A tick of `idleLoop` waits for `startMu`. The server
  becomes healthy and `ensureReady` returns; the idle time is over, no lease is held,
  and `idleLoop` stops the server before the turn takes its lease. A turn that finds
  a server running is exposed in the same way, because `ensureReady` then returns
  without touching `lastUsed`. `manager.go:183` says the lease protects a voice request.
* `voice_interrupted` (`voice_llm_standard.go:177`). The client leaves when
  everything read so far has been cut and spoken. The scan ends with the
  context's error, which is ignored because the context is done; nothing is
  pending, so no send notices either; the part of the reply that was read is
  returned without an error and committed. `docs/VOICE_CONTEXT.md:131` says that
  interrupted replies are not added.

## Proofs

All theorems hold for every value of the constants that satisfies the module's
assumption (`ActorsAssumption`, `JobsAssumption`, `VoiceAssumption`,
`SpeechAssumption`, `OpenRouterAssumption`, `ProvisioningAssumption`,
`ServiceAssumption`: the kinds of actors are disjoint, the null values are not
members, limits and bounds are numbers, no two groups of assets share a file),
and none of them needs fairness.

`LLMBackendProofs`. `Control` is the inductive core: `LockInv` (an actor is at
a location inside a start or a stop exactly when it owns `startMu`), `PathInv`
(each kind of actor stays on its own path) and `HandInv` (an actor knows a
process locally only there, and `cmd` is then empty). Mutual exclusion on `cmd`
follows. `LeasesAreCounted` adds a counting argument over the set of lease
holders, each begin adding one member and each release removing one.
`UnloadRespectsLeases` uses that a lease cannot be taken while another actor owns
`startMu`, and that the idle check saw a count of zero, hence no holder.
`NoServerIsForgotten` is inductive relative to `Control`; `OnlyOneServer` follows
from the two, because the two places a server may be in exclude one another.

`LLMJobsProofs`. The properties are not inductive: that a deleted job is not
run twice depends on the channel holding only admitted jobs, that it is not
lost on where the worker is. `Inv` adds who owns `jobsMu` (`HandlerInv`), what
the worker holds at each location (`WorkerInv`), what the channel may contain
(`ChannelInv`), and that every outstanding job is in the table and in one of
its three places (`PlaceInv`). `JobsAreNotLost`, `StagesAreLeased`, `EndsAreFinal`
and `Typing` follow. `AtMostMaxJobsOutstanding` needs a second step: only `Admit`
makes a job outstanding, and since every outstanding job is in the table, the set
it counted is all of them.

`QueueServes` proves the refinement. The line of `JobService` is `Keep` of one
sequence of places: the worker's hands, the channel, the handler that still
sends. A job that moves from place to place leaves the line as it is; admission
appends to it, the first mark takes its head, a deletion takes one of it, and each
is an action of `JobService`. The laws of `Keep` this needs (of appending,
concatenating, keeping twice, removing) are in `SubsequenceProofs`.

`VoiceTurnProofs`. `SavesAppend` speaks of one step, but what the step writes was
computed from a file read long before. `Ownership` says for every handler
between its load and its save that it holds the mutex, that the file still is
what it loaded (unless it started the session over), and, between the two steps
of a save, that the temporary file is exactly one turn more. Taking a free mutex
disturbs nobody because no other turn of that session can be in between
(`LoadStep`); the owner's own steps change only its session (`OthersKeep`).
`TurnsAreNotLost` follows: only a reset and a rename write the file.

`TheWindowIsRight` is about the arithmetic of compaction. `Good` says of one
session state what `WindowIsRight` says of the file; a commit keeps it because a
suffix of a suffix is a suffix and the numbers of messages cut off and of lines
dropped add up (`WindowIsSuffix`). `Remembered` says it of every copy: the file,
the temporary file and what each handler has loaded.

`RepliesAreSpokenInOrder` needs the whole pipe. `Flow` says that what the client was
sent, the outer channel, what the wrapper carries, the inner channel and what the
reader is sending are, one after the other, a chain of intervals without gap up to
what was cut; `Fits` says which ends of the reader, the wrapper and the handler
go together, so that a handler that commits has seen the outer channel closed and
empty, without an error, and the chain ends with what was read. `LeasesAreReturned`
counts the turns at those locations as `LeasesAreCounted` does, and `TypesHold` collects
the types of the three invariants.

`SpeechWorkerProofs`. `UseInv` ties every program counter at a model or at the
child's pipes to the run lock that goroutine holds, and a child in somebody's hand
to an empty `piper`. Since who deletes or stops must find the lock free, or hold
it, nothing in use is taken away (`NothingIsFreedInUse`, `NeverTwoChildren`,
`PipesAreExclusive`). One deletion rests on more than locks: whether `main` is the
one that closes depends on the phase, so `SleepInv` says where `main` and the
idle loop are in each. `LoadedIsStamped` is inductive with it.

`OpenRouterProofs`. `RetriesAreSafe` is not inductive: that a model is asked once
follows from the set the loop excludes, of which the models asked are a part, and
that a client hears one model from when text may have been passed on (`HeardInv`:
what was heard is the last model asked, or nothing while `emitted` is false, and
the loop's head is only reached without text). The second part is about the file:
between the read and the write of a change its copy is the file, or empty if the
read failed (`FileInv`), so what is written contains everything recorded before unless
the copy is empty; `HistoryIsNotLost` follows for each kind of writer.

The third part is about which models are used, whatever keys, catalogues and
records change meanwhile. `UseInv` says that the cache holds candidates of the key it
names; that what a lookup found is usable with the key the lookup was made with, and
is at hand only until it is used; that a turn has nothing but the primary model in
its queue before its one lookup is over (`QueueInv`), and nothing that is barred and
was barred when the turn began (`StillBarred` keeps that set inside the file's).
TLC found it to hold on the instance of `openrouter` before it was proved. `OnlyPermittedIsUsed`
and the first half of `TheHistoryCounts` follow: what is asked is the head of the queue.
`ChainsAreRight` is a fact about the operator `Chain`: `ExtendContinues` shows by induction
over the wanted list that `Extend` continues a list by some of the wanted models in
their order, all different, and by all that fit if there is room; `ChainParts` splits a
chain into the primary model, the configured fallbacks, the others and the last
resort, and `PartsAreRight` recovers from them the description `ChainOf`.

`ProvisioningProofs`. `CtlInv` says who holds the mutex, `FlagInv` that a flag is
set exactly while a download of its group runs and that there is one at most,
`LeftInv` that a download only ever has files of its group left; so no two
downloads touch the same file. `WholeInv` follows a file through its transfer:
it is whole before it is renamed, its stage is whole before the swap, and an
archive is only replaced when nothing is installed (`Careful`). The last is why
`ReadyStays` holds although `Swap` removes a directory: it is already absent.

`ServiceProofs`. `CtlInv` says that whoever is between the two ends of
`startVoiceWorker` holds `startMu` while there is no command, and where a hand is
full; `KeepInv` says who has the one worker that nobody has begun to stop, and that a
worker that is built is in a launch. `MissInv` is what makes `WorkersAccounted`
inductive: a worker that main's stop has passed by is missed before the program can
end, and settings that are not the file's are explained already while the worker is
only built, by a mark or by a stop that has still to look. A save that replaces the
settings is about to stop, or its handler was stale and marks what it passes by; a
stop that looks either takes the command, or marks whatever is in a hand; a launch
after main's stop marks itself. `StatusInv` says that a status that refuses updates
has an updater behind it that will write another, which is stronger than
`StatusIsTrue` because it speaks of updaters that have not failed yet.

`LLMBackendProofs` also proves `SwitchStopsServer`, under the hypothesis `OneConfigurer` that one
configuration request is handled at a time. Nothing in the code ensures it, and
without it the property is false: that is what run `backend_switch` shows. With it, the copy
a handler loaded is what the file says when it saves (`CopyIsCurrent`), and a start that
read the provider before a switch is over when the switch's stop gets `startMu`
(`NoStartWhenRemote`).

Only model-checked: the liveness properties (`EnsureReadyReturns`, `IdleServerUnloaded`,
`JobsEnd`, `TurnsEnd`, `StreamsEnd`, `RequestsEnd`, `IdleUnloaded`, `TurnsAnswered`, `GateOpens`,
`ComesBack`), because fairness is beyond the prover. Every invariant and every action
property of a passing run is proved, and so is the refinement. Induction over sequences
and numbers, which the library states for an operator, is used in the form of
`NatInduct` and `SeqInduct` of `SubsequenceProofs`, for a set. The types of `Provisioning` and
`Service` are proved and not listed in a run. No module declares a recursive operator.

## Not modelled

* **Data.** Texts, audio, wire formats, prompts, parsing and rewriting of
  payloads, the release and model catalogues, prices, checksums' values. Where
  `takeVoiceChunk` cuts is a function of the text alone; `VoiceTurn` lets it cut
  anywhere.
* **Configuration file.** One load and one save are single steps; the temporary
  file that all savers share is not modelled.
* **Local backend.** An old server that still answers `/health` for a new one is in
  the model, and nothing in the code promises otherwise. The stop of the server at
  the program's end is the one of `Service`, which has the voice worker only.
* **Speech worker.** `/status`; requests that are malformed. A resident child all of
  whose requests failed has no time of last use, so it is not unloaded by the idle
  loop, whatever `docs/RESIDENT_MODE.md:50` says of the timeout: `LoadedCanExpire`
  is therefore about the models alone.
* **OpenRouter.** A client that hangs up counts as a failure of its model, and a
  catalogue fetched before a policy reset may be stored after it: both happen in
  the model and neither breaks a property of the program. A health file that can be
  read in part does not exist: it is parsed as a whole or counts as empty.
* **Provisioning.** Archives with the right checksum and wrong contents, transfers
  of unknown length, and the removal of an archive after a kill behind the swap.
  Piper's model and its configuration are passed over as one unit.
* **Service.** Reuse of process identifiers, the port (a worker may exit at any
  time, at once when its port is taken), the helper and the package that two
  updaters share in one directory. Reads and writes of the status file succeed.
  `start-stop.sh` waits longer than the program takes to end, and a handler that has
  taken a command sends its signal before the program is killed for that. A killed
  helper, a killed program or a power loss during an update leaves the status as it is,
  for ever, and the next update refused: the conjunct `crashes = 0` of `StatusIsTrue`
  says so. "complete" says that the new version is installed, not that the program is
  up: the outcome of the start is thrown away. `LLMBackend` takes reads of the
  configuration to succeed; that they may fail is modelled here.
* **Reports and pages.** Monitoring, debug reports, the playground's own page, the
  web interface, packaging and CI keep no state of their own or run elsewhere.
