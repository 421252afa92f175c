----------------------------- MODULE Provisioning -----------------------------
(***************************************************************************)
(* How the admin fetches the assets of the voice worker and GGUF models:   *)
(* autoProvision at the start and withVoiceProvision before every voice    *)
(* request make sure everything is there, one at a time under              *)
(* voiceProvisionMu; the download handlers start a goroutine of their own. *)
(* An Active flag per group keeps two of them from writing the same files. *)
(*                                                                         *)
(* A file goes to <dest>.part and is renamed; an archive is unpacked into  *)
(* <dest>.new, which then replaces <dest> in two steps.  The program may   *)
(* be killed between any two steps and finds the files as they were.       *)
(* Transfers and file operations fail as a choice; a transfer that is      *)
(* shorter than announced has failed.                                      *)
(***************************************************************************)
EXTENDS Naturals, Sequences

CONSTANTS
    Boot,         \* the goroutine of autoProvision
    Requests,     \* voice requests
    Specs,        \* the assets of each group, in the order they are fetched
    MaxKills,     \* bound: how often the program is killed
    MaxClicks,    \* bound: how many downloads the user asks for
    Nobody

Groups  == {"sherpa", "piper", "dict", "llm"}
Flagged == Groups \ {"dict"}                       \* groups with an Active flag
Users   == Requests \cup {Boot}                    \* who calls ensureVoiceAssets
Threads == Users \cup Flagged                      \* and the goroutine of each download handler

Of(g)   == {Specs[g][i] : i \in DOMAIN Specs[g]}
Assets  == UNION {Of(g) : g \in Groups}
Plain   == {"voice", "conf", "gguf"}               \* files, the others are archives
Hashed  == {"runtime", "voice", "dict"}            \* a known SHA-256; a GGUF's is up to the user

ASSUME ProvisioningAssumption ==
    /\ Users \cap Groups = {} /\ Boot \notin Requests /\ Nobody \notin Threads
    /\ MaxKills \in Nat /\ MaxClicks \in Nat
    /\ Specs \in [Groups -> Seq(STRING)]
    /\ \A g, h \in Groups : g # h => Of(g) \cap Of(h) = {}

VARIABLES
    mu,        \* who holds voiceProvisionMu
    active,    \* the Active flags
    failed,    \* info.Error is set
    pc,        \* where each thread is
    grp,       \* the group it is busy with
    left,      \* the assets its download still has to do
    file,      \* the installed files
    part,      \* <file>.part
    archive,   \* archives in .downloads
    stage,     \* <file>.new
    kills,
    clicks

vars  == <<mu, active, failed, pc, grp, left, file, part, archive, stage, kills, clicks>>
spent == <<kills, clicks>>
files == <<file, part, archive, stage>>
flags == <<active, failed>>

Shapes == {"none", "some", "whole"}

Init ==
    /\ mu = Nobody /\ kills = 0 /\ clicks = 0
    /\ active = [g \in Flagged |-> FALSE] /\ failed = [g \in Flagged |-> FALSE]
    /\ pc = [t \in Threads |-> IF t = Boot THEN "lock" ELSE "idle"]
    /\ grp = [t \in Threads |-> IF t \in Flagged THEN t ELSE "sherpa"]
    /\ left = [t \in Threads |-> <<>>]
    /\ file = [a \in Assets |-> "none"] /\ part = [a \in Assets |-> "none"]
    /\ archive = [a \in Assets |-> "none"] /\ stage = [a \in Assets |-> "none"]

Goto(t, l) == pc' = [pc EXCEPT ![t] = l]

(* The tests look for files of some size, whole or not.                    *)
Present(a) == file[a] # "none"
Ready(g)   == \A i \in DOMAIN Specs[g] : Present(Specs[g][i])

-----------------------------------------------------------------------------
(***************************************************************************)
(* ensureVoiceAssets.                                                      *)
(***************************************************************************)
Arrive(r) ==
    /\ pc[r] = "idle" /\ Goto(r, "lock")
    /\ UNCHANGED <<mu, flags, grp, left, files, spent>>

Lock(u) ==
    /\ pc[u] = "lock" /\ mu = Nobody
    /\ mu' = u /\ grp' = [grp EXCEPT ![u] = "sherpa"] /\ Goto(u, "look")
    /\ UNCHANGED <<flags, left, files, spent>>

(* Mutant: a refused request keeps the mutex.                              *)
LeaveLocked(u, how) == mu' = (IF how = "refused" THEN mu ELSE Nobody) /\ Goto(u, how)

Leave(u, how) == mu' = Nobody /\ Goto(u, how)

After == [sherpa |-> "piper", piper |-> "dict"]

Look(u) ==
    /\ pc[u] = "look" /\ ~Ready(grp[u]) /\ Goto(u, "claim")
    /\ UNCHANGED <<mu, flags, grp, left, files, spent>>

Found(u) ==
    /\ pc[u] = "look" /\ Ready(grp[u])
    /\ IF grp[u] = "dict"
       THEN Leave(u, "served") /\ UNCHANGED grp
       ELSE grp' = [grp EXCEPT ![u] = After[@]] /\ UNCHANGED <<mu, pc>>
    /\ UNCHANGED <<flags, left, files, spent>>

(* A download of group g begins; only the dictionary has no flag.          *)
Start(t, g) ==
    /\ left' = [left EXCEPT ![t] = Specs[g]] /\ Goto(t, "spec")
    /\ IF g = "dict" THEN UNCHANGED flags
       ELSE /\ ~active[g]
            /\ active' = [active EXCEPT ![g] = TRUE] /\ failed' = [failed EXCEPT ![g] = FALSE]

(* The files may have come since it looked: the download finds out.        *)
Fetch(u) ==
    /\ pc[u] = "claim" /\ Start(u, grp[u])
    /\ UNCHANGED <<mu, grp, files, spent>>

(* Somebody else downloads: it looks again every second until the request  *)
(* is cancelled or its 30 minutes are over.                                *)
Wait(u) ==
    /\ pc[u] = "claim" /\ grp[u] \in Flagged /\ active[grp[u]] /\ Goto(u, "wait")
    /\ UNCHANGED <<mu, flags, grp, left, files, spent>>

LookAgain(u) ==
    /\ pc[u] = "wait" /\ (active[grp[u]] => Ready(grp[u])) /\ Goto(u, "look")
    /\ UNCHANGED <<mu, flags, grp, left, files, spent>>

WaitOver(u) ==
    /\ pc[u] = "wait" /\ Leave(u, "refused")
    /\ UNCHANGED <<flags, grp, left, files, spent>>

(* After its own download it reads the error, whoever set it last.         *)
Outcome(u) ==
    /\ pc[u] = "outcome"
    /\ IF failed[grp[u]] THEN Leave(u, "refused") ELSE Goto(u, "look") /\ UNCHANGED mu
    /\ UNCHANGED <<flags, grp, left, files, spent>>

(* The handler behind the gate runs, or the client has got its 503.        *)
Proceed(r) ==
    /\ pc[r] \in {"served", "refused"} /\ Goto(r, "idle")
    /\ UNCHANGED <<mu, flags, grp, left, files, spent>>

(* Mutant: the handler does not test the flag.                             *)
PostAgain(g) ==
    /\ pc[g] = "idle" /\ left' = [left EXCEPT ![g] = Specs[g]] /\ Goto(g, "spec")
    /\ active' = [active EXCEPT ![g] = TRUE] /\ failed' = [failed EXCEPT ![g] = FALSE]
    /\ clicks < MaxClicks /\ clicks' = clicks + 1
    /\ UNCHANGED <<mu, grp, files, kills>>

(* POST to a download handler: 409 while the flag is set.                  *)
Post(g) ==
    /\ pc[g] = "idle" /\ Start(g, g)
    /\ clicks < MaxClicks /\ clicks' = clicks + 1
    /\ UNCHANGED <<mu, grp, files, kills>>

-----------------------------------------------------------------------------
(***************************************************************************)
(* A download: downloadVoiceModels, downloadPiper, downloadURL or the      *)
(* dictionary's part of the gate.                                          *)
(***************************************************************************)
Asset(t) == Head(left[t])

(* It ends: the flag falls together with the verdict.  Who waits for it    *)
(* goes on to read that; without a flag the verdict is the result.         *)
End(t, err) ==
    /\ left' = [left EXCEPT ![t] = <<>>]
    /\ IF grp[t] = "dict"
       THEN Leave(t, IF err THEN "refused" ELSE "served") /\ UNCHANGED flags
       ELSE /\ active' = [active EXCEPT ![grp[t]] = FALSE]
            /\ failed' = [failed EXCEPT ![grp[t]] = err]
            /\ Goto(t, IF t \in Users THEN "outcome" ELSE "idle") /\ UNCHANGED mu
    /\ UNCHANGED <<grp, spent>>

FailWith(t, rest) ==
    /\ End(t, TRUE) /\ part' = [part EXCEPT ![Asset(t)] = rest]
    /\ UNCHANGED <<file, archive, stage>>

Complete(t) ==
    /\ pc[t] = "spec" /\ left[t] = <<>>
    /\ End(t, FALSE) /\ UNCHANGED files

(* Mutant: whatever is there is fetched again.                             *)
PassedNone(t) == FALSE

(* An asset that is there is passed over.  Piper's model and configuration *)
(* are one unit; a GGUF is fetched because the user said so.               *)
Passed(t) ==
    CASE Asset(t) = "gguf"  -> FALSE
      [] Asset(t) = "conf"  -> FALSE
      [] Asset(t) = "voice" -> Present("voice") /\ Present("conf")
      [] OTHER              -> Present(Asset(t))

PassOver(t) ==
    /\ pc[t] = "spec" /\ left[t] # <<>> /\ Passed(t)
    /\ left' = [left EXCEPT ![t] = IF Asset(t) = "voice" THEN <<>> ELSE Tail(@)]
    /\ UNCHANGED <<mu, flags, pc, grp, files, spent>>

Open(t) ==
    /\ pc[t] = "spec" /\ left[t] # <<>> /\ ~Passed(t)
    /\ \/ /\ part' = [part EXCEPT ![Asset(t)] = "some"] /\ Goto(t, "copy")
          /\ UNCHANGED <<mu, flags, grp, left, file, archive, stage, spent>>
       \/ FailWith(t, IF Asset(t) = "dict" THEN "none" ELSE part[Asset(t)])

Copy(t) ==
    /\ pc[t] = "copy"
    /\ part' = [part EXCEPT ![Asset(t)] = "whole"] /\ Goto(t, "check")
    /\ UNCHANGED <<mu, flags, grp, left, file, archive, stage, spent>>

(* Mutant: a transfer that broke off is taken for complete.                *)
CopyShort(t) ==
    /\ pc[t] = "copy" /\ Goto(t, "check")
    /\ UNCHANGED <<mu, flags, grp, left, files, spent>>

(* The transfer breaks off or is short, or closing, hashing or renaming    *)
(* the file fails.  Only downloadURL then removes its .part.               *)
CopyFails(t) ==
    /\ pc[t] \in {"copy", "check"}
    /\ FailWith(t, IF Asset(t) = "gguf" THEN "none" ELSE part[Asset(t)])

Mismatch(t) ==
    /\ pc[t] = "check" /\ Asset(t) \in Hashed \cup {"gguf"} /\ FailWith(t, "none")

NextAsset(t) == left' = [left EXCEPT ![t] = Tail(@)] /\ Goto(t, "spec")

Rename(t) ==
    /\ pc[t] = "check" /\ (Asset(t) \in Hashed => part[Asset(t)] = "whole")
    /\ part' = [part EXCEPT ![Asset(t)] = "none"]
    /\ IF Asset(t) \in Plain
       THEN /\ file' = [file EXCEPT ![Asset(t)] = part[Asset(t)]]
            /\ NextAsset(t) /\ UNCHANGED <<archive, stage>>
       ELSE /\ archive' = [archive EXCEPT ![Asset(t)] = part[Asset(t)]]
            /\ stage' = [stage EXCEPT ![Asset(t)] = "some"]
            /\ Goto(t, "extract") /\ UNCHANGED <<file, left>>
    /\ UNCHANGED <<mu, flags, grp, spent>>

(* extractVoiceArchive and extractTarGzSafe: a cut archive does not unpack. *)
Extract(t) ==
    /\ pc[t] = "extract" /\ archive[Asset(t)] = "whole"
    /\ stage' = [stage EXCEPT ![Asset(t)] = "whole"] /\ Goto(t, "swap")
    /\ UNCHANGED <<mu, flags, grp, left, file, part, archive, spent>>

Swap(t) ==
    /\ pc[t] = "swap"
    /\ file' = [file EXCEPT ![Asset(t)] = "none"] /\ Goto(t, "move")
    /\ UNCHANGED <<mu, flags, grp, left, part, archive, stage, spent>>

Move(t) ==
    /\ pc[t] = "move"
    /\ file' = [file EXCEPT ![Asset(t)] = stage[Asset(t)]]
    /\ stage' = [stage EXCEPT ![Asset(t)] = "none"] /\ archive' = [archive EXCEPT ![Asset(t)] = "none"]
    /\ NextAsset(t)
    /\ UNCHANGED <<mu, flags, grp, part, spent>>

(* Whatever fails while unpacking and replacing, the stage is removed.     *)
UnpackFails(t) ==
    /\ pc[t] \in {"extract", "swap", "move"} /\ End(t, TRUE)
    /\ stage' = [stage EXCEPT ![Asset(t)] = "none"]
    /\ UNCHANGED <<file, part, archive>>

(* The program is killed and started again.                                *)
Kill ==
    /\ kills < MaxKills /\ kills' = kills + 1
    /\ mu' = Nobody
    /\ active' = [g \in Flagged |-> FALSE] /\ failed' = [g \in Flagged |-> FALSE]
    /\ pc' = [t \in Threads |-> IF t = Boot THEN "lock" ELSE "idle"]
    /\ left' = [t \in Threads |-> <<>>]
    /\ grp' = [t \in Threads |-> IF t \in Flagged THEN t ELSE "sherpa"]
    /\ UNCHANGED <<files, clicks>>

-----------------------------------------------------------------------------
Download(t) ==
    \/ Complete(t) \/ PassOver(t) \/ Open(t) \/ Copy(t) \/ CopyFails(t) \/ Mismatch(t) \/ Rename(t)
    \/ Extract(t) \/ Swap(t) \/ Move(t) \/ UnpackFails(t)
Ensure(u) == Look(u) \/ Found(u) \/ Fetch(u) \/ Wait(u) \/ LookAgain(u) \/ WaitOver(u) \/ Outcome(u) \/ Download(u)

Next ==
    \/ \E r \in Requests : Arrive(r) \/ Proceed(r)
    \/ \E u \in Users : Lock(u) \/ Ensure(u)
    \/ \E g \in Flagged : Post(g) \/ Download(g)
    \/ Kill

Spec == Init /\ [][Next]_vars

(* Downloads end (a transfer that stands still for ever is a time-out of   *)
(* nobody's: see the README), requests have 30 minutes, and a mutex is     *)
(* granted in the end to who waits for it.                                 *)
FairSpec ==
    /\ Spec
    /\ \A u \in Users : WF_vars(Ensure(u)) /\ SF_vars(Lock(u))
    /\ \A g \in Flagged : WF_vars(Download(g))

-----------------------------------------------------------------------------
Labels == {"idle", "lock", "look", "claim", "wait", "outcome", "served", "refused",
           "spec", "copy", "check", "extract", "swap", "move"}

TypeOK ==
    /\ mu \in Users \cup {Nobody} /\ kills \in 0..MaxKills /\ clicks \in 0..MaxClicks
    /\ active \in [Flagged -> BOOLEAN] /\ failed \in [Flagged -> BOOLEAN]
    /\ pc \in [Threads -> Labels]
    /\ grp \in [Threads -> Groups] /\ left \in [Threads -> Seq(Assets)]
    /\ file \in [Assets -> Shapes] /\ part \in [Assets -> Shapes]
    /\ archive \in [Assets -> Shapes] /\ stage \in [Assets -> Shapes]
    /\ \A a \in Assets \cap Plain : archive[a] = "none" /\ stage[a] = "none"

Downloading(t) == pc[t] \in {"spec", "copy", "check", "extract", "swap", "move"}

(* No two downloads of one group run at the same time, whoever started     *)
(* them: the gate before a request, the start of the program or a click.   *)
OneInstaller ==
    \A t, u \in Threads : Downloading(t) /\ Downloading(u) /\ grp[t] = grp[u] => t = u

(* A flag that is set belongs to a download that runs: no failure leaves   *)
(* it behind to answer every later click with 409.                         *)
FlagHasOwner ==
    \A g \in Flagged : active[g] => \E t \in Threads : grp[t] = g /\ Downloading(t)

FlagsAreRight == OneInstaller /\ FlagHasOwner

(* What is installed is whole, although transfers break off, the program   *)
(* is killed half-way, what it left behind is found again, and the         *)
(* readiness tests only look for files of some size.                       *)
InstalledIsWhole == \A a \in Assets : file[a] # "some"

(* What was ready when a request was let through stays there: no download  *)
(* and no restart takes an installed asset away from the running worker.   *)
ReadyStays == [][\A a \in Assets : Present(a) => Present(a)']_vars

(* Every voice request comes through the gate or is refused.               *)
GateOpens == \A r \in Requests : pc[r] = "lock" ~> pc[r] \in {"served", "refused", "idle"}
=============================================================================
