-------------------------- MODULE ProvisioningProofs --------------------------
(***************************************************************************)
(* Proofs about Provisioning, for every number of requests, kills and      *)
(* clicks and any lists of assets in which no two groups share a file.     *)
(***************************************************************************)
EXTENDS Provisioning, SequenceTheorems, TLAPS

Work == {"spec", "copy", "check", "extract", "swap", "move"}

(***************************************************************************)
(* The inductive invariant.  Who holds voiceProvisionMu can be read off    *)
(* the program counters; a flag is set exactly while a download of its     *)
(* group runs; what a download has left belongs to its group, so that no   *)
(* two downloads are ever at the same file; and a file is whole before it  *)
(* is renamed or unpacked.                                                 *)
(***************************************************************************)
CtlInv ==
    /\ \A u \in Users : /\ grp[u] # "llm"
                        /\ pc[u] \in {"look", "claim", "wait", "outcome"} \cup Work => mu = u
    /\ \A g \in Flagged : grp[g] = g /\ pc[g] \in {"idle"} \cup Work

FlagInv ==
    /\ \A t, u \in Threads : pc[t] \in Work /\ pc[u] \in Work /\ grp[t] = grp[u] => t = u
    /\ \A t \in Threads : pc[t] \in Work /\ grp[t] # "dict" => active[grp[t]]
    /\ \A g \in Flagged : active[g] => \E t \in Threads : grp[t] = g /\ pc[t] \in Work

LeftInv == \A t \in Threads :
    /\ left[t] \in Seq(Of(grp[t]))
    /\ pc[t] \in Work \ {"spec"} => left[t] # <<>>
    /\ pc[t] \notin Work => left[t] = <<>>

Careful(t) ==
    /\ pc[t] = "check" => part[Asset(t)] = "whole"
    /\ pc[t] \in {"extract", "swap", "move"} => Asset(t) \notin Plain
    /\ pc[t] \in {"swap", "move"} => stage[Asset(t)] = "whole"
    /\ pc[t] \in Work \ {"spec"} /\ Asset(t) \notin Plain => file[Asset(t)] = "none"

WholeInv == InstalledIsWhole /\ \A t \in Threads : Careful(t)

IInv == TypeOK /\ CtlInv /\ FlagInv /\ LeftInv /\ WholeInv

LEMMA Distinct ==
    /\ Users \subseteq Threads /\ Flagged \subseteq Threads /\ Flagged \subseteq Groups
    /\ Users \cap Flagged = {} /\ Nobody \notin Threads /\ Boot \in Users /\ Boot \notin Flagged
    /\ "dict" \notin Flagged /\ {"sherpa", "piper", "llm"} \subseteq Flagged
BY ProvisioningAssumption DEF Users, Threads, Flagged, Groups

LEMMA SpecsTyped == \A g \in Groups : Specs[g] \in Seq(Of(g)) /\ Of(g) \subseteq Assets
BY ProvisioningAssumption DEF Of, Assets

(* A download that has something left is at a file of its group.           *)
LEMMA AssetTyped ==
    ASSUME TypeOK, LeftInv, NEW t \in Threads, left[t] # <<>>
    PROVE  Asset(t) \in Of(grp[t]) /\ Asset(t) \in Assets /\ Tail(left[t]) \in Seq(Of(grp[t]))
<1>1. left[t] \in Seq(Of(grp[t])) /\ grp[t] \in Groups
  BY DEF TypeOK, LeftInv
<1>2. Asset(t) \in Of(grp[t]) /\ Tail(left[t]) \in Seq(Of(grp[t]))
  BY <1>1, HeadTailProperties DEF Asset
<1> QED BY <1>1, <1>2, SpecsTyped

(* No two downloads are at the same file.                                  *)
LEMMA Apart ==
    ASSUME IInv, NEW t \in Threads, NEW u \in Threads, t # u,
           pc[t] \in Work, pc[u] \in Work, left[t] # <<>>, left[u] # <<>>
    PROVE  Asset(t) # Asset(u)
<1>1. grp[t] # grp[u] /\ grp[t] \in Groups /\ grp[u] \in Groups
  BY DEF IInv, FlagInv, TypeOK
<1>2. Asset(t) \in Of(grp[t]) /\ Asset(u) \in Of(grp[u])
  BY AssetTyped DEF IInv
<1> QED BY <1>1, <1>2, ProvisioningAssumption

(* A download of a group begins.                                           *)
LEMMA StartTyped ==
    ASSUME TypeOK, NEW t \in Threads, NEW g \in Groups, Start(t, g)
    PROVE  /\ active' \in [Flagged -> BOOLEAN] /\ failed' \in [Flagged -> BOOLEAN]
           /\ pc' \in [Threads -> Labels] /\ left' \in [Threads -> Seq(Assets)]
<1>1. Specs[g] \in Seq(Assets)
  BY SpecsTyped, ElementOfSeq, SeqDef
<1>2. pc' \in [Threads -> Labels] /\ left' \in [Threads -> Seq(Assets)]
  BY <1>1 DEF Start, Goto, Labels, TypeOK
<1>3. active' \in [Flagged -> BOOLEAN] /\ failed' \in [Flagged -> BOOLEAN]
  <2>1. CASE g = "dict" BY <2>1 DEF Start, flags, TypeOK
  <2>2. CASE g # "dict" BY <2>2 DEF Start, TypeOK
  <2> QED BY <2>1, <2>2
<1> QED BY <1>2, <1>3

(* A download ends, well or not.                                           *)
LEMMA EndTyped ==
    ASSUME TypeOK, NEW t \in Threads, NEW err \in BOOLEAN, End(t, err)
    PROVE  /\ mu' \in Users \cup {Nobody}
           /\ active' \in [Flagged -> BOOLEAN] /\ failed' \in [Flagged -> BOOLEAN]
           /\ pc' \in [Threads -> Labels] /\ left' \in [Threads -> Seq(Assets)]
<1>1. left' \in [Threads -> Seq(Assets)]
  BY DEF End, TypeOK
<1>2. CASE grp[t] = "dict"
  BY <1>1, <1>2 DEF End, Leave, Goto, flags, Labels, TypeOK
<1>3. CASE grp[t] # "dict"
  BY <1>1, <1>3 DEF End, Goto, Labels, TypeOK
<1> QED BY <1>2, <1>3

(* Types are kept.                                                         *)
LEMMA TypeNext ==
    ASSUME IInv, [Next]_vars PROVE TypeOK'
<1> TypeOK BY DEF IInv
<1> USE DEF Goto, files, flags, spent, Work, TypeOK, Shapes, Labels
<1>1. ASSUME NEW r \in Requests, Arrive(r) \/ Proceed(r) PROVE TypeOK'
  <2> r \in Users /\ r \in Threads BY Distinct DEF Users
  <2>1. CASE Arrive(r) BY <2>1 DEF Arrive
  <2>2. CASE Proceed(r) BY <2>2 DEF Proceed
  <2> QED BY <1>1, <2>1, <2>2
<1>2. ASSUME NEW u \in Users, Lock(u) PROVE TypeOK'
  <2> u \in Threads BY Distinct
  <2> QED BY <1>2 DEF Lock, Groups
<1>3. ASSUME NEW u \in Users, Ensure(u), ~Download(u) PROVE TypeOK'
  <2> u \in Threads BY Distinct
  <2> grp[u] \in {"sherpa", "piper", "dict"} BY DEF IInv, CtlInv, Groups
  <2>1. CASE Look(u) BY <2>1 DEF Look
  <2>2. CASE Found(u)
    <3>1. CASE grp[u] = "dict" BY <2>2, <3>1 DEF Found, Leave
    <3>2. CASE grp[u] # "dict"
      <4>1. After[grp[u]] \in Groups BY <3>2 DEF After, Groups
      <4> QED BY <2>2, <3>2, <4>1 DEF Found
    <3> QED BY <3>1, <3>2
  <2>3. CASE Fetch(u)
    <3>1. Start(u, grp[u]) BY <2>3 DEF Fetch
    <3> QED BY <2>3, <3>1, StartTyped DEF Fetch
  <2>4. CASE Wait(u) BY <2>4 DEF Wait
  <2>5. CASE LookAgain(u) BY <2>5, Distinct DEF LookAgain
  <2>6. CASE WaitOver(u) BY <2>6 DEF WaitOver, Leave
  <2>7. CASE Outcome(u) BY <2>7 DEF Outcome, Leave
  <2> QED BY <1>3, <2>1, <2>2, <2>3, <2>4, <2>5, <2>6, <2>7 DEF Ensure
<1>4. ASSUME NEW g \in Flagged, Post(g) PROVE TypeOK'
  <2> g \in Threads /\ g \in Groups BY Distinct
  <2>1. Start(g, g) BY <1>4 DEF Post
  <2> QED BY <1>4, <2>1, StartTyped, ProvisioningAssumption DEF Post
<1>5. ASSUME NEW t \in Threads, Download(t) PROVE TypeOK'
  <2>0. left[t] # <<>> => /\ Asset(t) \in Assets /\ Asset(t) \in Of(grp[t])
                         /\ Tail(left[t]) \in Seq(Of(grp[t])) /\ Tail(left[t]) \in Seq(Assets)
    BY AssetTyped, HeadTailProperties DEF IInv, TypeOK
  <2>a. pc[t] \in Work \ {"spec"} => left[t] # <<>>
    BY DEF IInv, LeftInv
  <2>1. CASE Complete(t)
    <3>1. End(t, FALSE) BY <2>1 DEF Complete
    <3> QED BY <2>1, <3>1, EndTyped DEF Complete, End
  <2>2. CASE PassOver(t) BY <2>2, <2>0, <2>a DEF PassOver
  <2>3. CASE Open(t)
    <3>1. CASE /\ part' = [part EXCEPT ![Asset(t)] = "some"] /\ Goto(t, "copy")
               /\ UNCHANGED <<mu, flags, grp, left, file, archive, stage, spent>>
      BY <2>3, <3>1, <2>0 DEF Open
    <3>2. CASE FailWith(t, IF Asset(t) = "dict" THEN "none" ELSE part[Asset(t)])
      <4>1. End(t, TRUE) BY <3>2 DEF FailWith
      <4> QED BY <2>3, <3>2, <4>1, <2>0, EndTyped DEF Open, FailWith, End
    <3> QED BY <2>3, <3>1, <3>2 DEF Open
  <2>4. CASE Copy(t) BY <2>4, <2>0, <2>a DEF Copy
  <2>5. CASE CopyFails(t)
    <3>1. End(t, TRUE) BY <2>5 DEF CopyFails, FailWith
    <3>2. left[t] # <<>> BY <2>5, <2>a DEF CopyFails
    <3> QED BY <2>5, <3>1, <3>2, <2>0, EndTyped DEF CopyFails, End, FailWith
  <2>6. CASE Mismatch(t)
    <3>1. End(t, TRUE) BY <2>6 DEF Mismatch, FailWith
    <3>2. left[t] # <<>> BY <2>6, <2>a DEF Mismatch
    <3> QED BY <2>6, <3>1, <3>2, <2>0, EndTyped DEF Mismatch, End, FailWith
  <2>7. CASE Rename(t)
    <3>0. left[t] # <<>> /\ part[Asset(t)] \in Shapes BY <2>7, <2>0, <2>a DEF Rename
    <3>1. CASE Asset(t) \in Plain BY <2>7, <3>1, <3>0, <2>0 DEF Rename, NextAsset
    <3>2. CASE Asset(t) \notin Plain BY <2>7, <3>2, <3>0, <2>0 DEF Rename
    <3> QED BY <3>1, <3>2
  <2>8. CASE Extract(t) BY <2>8, <2>0, <2>a DEF Extract
  <2>9. CASE Swap(t) BY <2>9, <2>0, <2>a DEF Swap
  <2>10. CASE Move(t) BY <2>10, <2>0, <2>a DEF Move, NextAsset
  <2>11. CASE UnpackFails(t)
    <3>1. End(t, TRUE) BY <2>11 DEF UnpackFails
    <3>2. left[t] # <<>> BY <2>11, <2>a DEF UnpackFails
    <3> QED BY <2>11, <3>1, <3>2, <2>0, EndTyped DEF UnpackFails, End
  <2> QED BY <1>5, <2>1, <2>2, <2>3, <2>4, <2>5, <2>6, <2>7, <2>8, <2>9, <2>10, <2>11 DEF Download
<1>6. CASE Kill
  <2>1. pc' \in [Threads -> Labels] BY <1>6 DEF Kill
  <2>2. grp' \in [Threads -> Groups] BY <1>6, Distinct DEF Kill, Groups
  <2>3. left' \in [Threads -> Seq(Assets)] BY <1>6 DEF Kill
  <2>4. kills' \in 0..MaxKills BY <1>6, ProvisioningAssumption DEF Kill
  <2> QED BY <1>6, <2>1, <2>2, <2>3, <2>4 DEF Kill
<1>7. CASE UNCHANGED vars BY <1>7 DEF vars
<1> QED
  <2>1. ASSUME NEW u \in Users, Ensure(u) PROVE TypeOK'
    BY <2>1, <1>3, <1>5, Distinct DEF Ensure
  <2>2. ASSUME NEW g \in Flagged, Download(g) PROVE TypeOK'
    BY <2>2, <1>5, Distinct
  <2> QED BY <1>1, <1>2, <1>4, <1>6, <1>7, <2>1, <2>2 DEF Next

(* The mutex and the path of each thread, after the end of a download.     *)
LEMMA CtlEnd ==
    ASSUME IInv, NEW t \in Threads, NEW err, End(t, err), pc[t] \in Work
    PROVE  CtlInv'
<1> USE DEF Work, Goto, Leave, Labels
<1> /\ CtlInv
    /\ pc \in [Threads -> Labels] /\ grp \in [Threads -> Groups] /\ grp' = grp
  BY DEF IInv, TypeOK, End
<1>1. CASE grp[t] = "dict"
  <2>1. t \in Users /\ mu = t
    BY <1>1, Distinct DEF CtlInv, Threads
  <2>2. \E l \in {"refused", "served"} : pc' = [pc EXCEPT ![t] = l]
    BY <1>1 DEF End
  <2> QED BY <2>1, <2>2, Distinct DEF CtlInv
<1>2. CASE grp[t] # "dict"
  <2>1. mu' = mu /\ \E l \in {"outcome", "idle"} :
            pc' = [pc EXCEPT ![t] = l] /\ (t \in Users => l = "outcome") /\ (t \notin Users => l = "idle")
    BY <1>2 DEF End
  <2> QED BY <2>1, Distinct DEF CtlInv
<1> QED BY <1>1, <1>2

(* The flags, when no download starts or ends.                             *)
LEMMA FlagFrame ==
    ASSUME IInv, active' = active,
           \A x \in Threads : /\ pc'[x] \in Work <=> pc[x] \in Work
                              /\ pc[x] \in Work => grp'[x] = grp[x]
    PROVE  FlagInv'
BY DEF IInv, FlagInv

(* The flags, when a download starts.                                      *)
LEMMA FlagStart ==
    ASSUME IInv, NEW t \in Threads, NEW g \in Groups, Start(t, g), grp[t] = g, pc[t] \notin Work,
           grp' = grp, t \in Users => mu = t
    PROVE  FlagInv'
<1> FlagInv /\ CtlInv /\ pc \in [Threads -> Labels] /\ active \in [Flagged -> BOOLEAN]
  BY DEF IInv, TypeOK
<1>1. \A x \in Threads : pc[x] \in Work => grp[x] # g
  <2>1. CASE g = "dict"
    <3>1. \A x \in Threads : grp[x] = "dict" => x \in Users
      BY Distinct DEF CtlInv, Threads
    <3> QED BY <2>1, <3>1 DEF CtlInv
  <2>2. CASE g # "dict" BY <2>2 DEF Start, FlagInv
  <2> QED BY <2>1, <2>2
<1>2. pc' = [pc EXCEPT ![t] = "spec"]
  BY DEF Start, Goto
<1>3. CASE g = "dict"
  <2>1. active' = active BY <1>3 DEF Start, flags
  <2> QED BY <1>1, <1>2, <1>3, <2>1, Distinct DEF FlagInv, Work
<1>4. CASE g # "dict"
  <2>1. g \in Flagged /\ active' = [active EXCEPT ![g] = TRUE]
    BY <1>4 DEF Start, Flagged
  <2> QED BY <1>1, <1>2, <2>1 DEF FlagInv, Work
<1> QED BY <1>3, <1>4

(* The flags, when a download ends.                                        *)
LEMMA FlagEnd ==
    ASSUME IInv, NEW t \in Threads, NEW err, End(t, err), pc[t] \in Work
    PROVE  FlagInv'
<1> FlagInv /\ pc \in [Threads -> Labels] /\ active \in [Flagged -> BOOLEAN] /\ grp \in [Threads -> Groups] /\ grp' = grp
  BY DEF IInv, TypeOK, End
<1>1. /\ pc'[t] \notin Work
      /\ \A x \in Threads \ {t} : pc'[x] = pc[x]
  BY DEF End, Leave, Goto, Work
<1>2. CASE grp[t] = "dict"
  <2>1. active' = active BY <1>2 DEF End, flags
  <2> QED BY <1>1, <1>2, <2>1, Distinct DEF FlagInv
<1>3. CASE grp[t] # "dict"
  <2>1. grp[t] \in Flagged /\ active' = [active EXCEPT ![grp[t]] = FALSE]
    BY <1>3 DEF End, Flagged
  <2> QED BY <1>1, <2>1 DEF FlagInv
<1> QED BY <1>2, <1>3

(* The mutex and the path of each thread.                                  *)
LEMMA CtlNext ==
    ASSUME IInv, [Next]_vars PROVE CtlInv'
<1> IInv /\ TypeOK /\ CtlInv BY DEF IInv
<1> USE DEF Goto, files, flags, spent, Work, TypeOK, CtlInv, Labels
<1>1. ASSUME NEW r \in Requests, Arrive(r) \/ Proceed(r) PROVE CtlInv'
  <2> r \in Users /\ r \in Threads BY Distinct DEF Users
  <2>1. CASE Arrive(r) BY <2>1, Distinct DEF Arrive
  <2>2. CASE Proceed(r) BY <2>2, Distinct DEF Proceed
  <2> QED BY <1>1, <2>1, <2>2
<1>2. ASSUME NEW u \in Users, Lock(u) PROVE CtlInv'
  <2> u \in Threads BY Distinct
  <2> QED BY <1>2, Distinct DEF Lock
<1>3. ASSUME NEW u \in Users, Ensure(u), ~Download(u) PROVE CtlInv'
  <2> u \in Threads BY Distinct
  <2>1. CASE Look(u) BY <2>1, Distinct DEF Look
  <2>2. CASE Found(u)
    <3>1. CASE grp[u] = "dict"
      <4>1. Leave(u, "served") /\ grp' = grp /\ mu = u BY <2>2, <3>1 DEF Found
      <4> QED BY <4>1, Distinct DEF Leave
    <3>2. CASE grp[u] # "dict"
      <4>1. After[grp[u]] # "llm" BY <3>2, Distinct DEF After, Groups
      <4> QED BY <2>2, <3>2, <4>1, Distinct DEF Found
    <3> QED BY <3>1, <3>2
  <2>3. CASE Fetch(u) BY <2>3, Distinct DEF Fetch, Start
  <2>4. CASE Wait(u) BY <2>4, Distinct DEF Wait
  <2>5. CASE LookAgain(u) BY <2>5, Distinct DEF LookAgain
  <2>6. CASE WaitOver(u) BY <2>6, Distinct DEF WaitOver, Leave
  <2>7. CASE Outcome(u)
    <3>1. CASE failed[grp[u]]
      <4>1. Leave(u, "refused") /\ grp' = grp /\ mu = u BY <2>7, <3>1 DEF Outcome
      <4> QED BY <4>1, Distinct DEF Leave
    <3>2. CASE ~failed[grp[u]]
      <4>1. pc' = [pc EXCEPT ![u] = "look"] /\ grp' = grp /\ mu' = mu /\ mu = u BY <2>7, <3>2 DEF Outcome
      <4> QED BY <4>1, Distinct
    <3> QED BY <3>1, <3>2
  <2> QED BY <1>3, <2>1, <2>2, <2>3, <2>4, <2>5, <2>6, <2>7 DEF Ensure
<1>4. ASSUME NEW g \in Flagged, Post(g) PROVE CtlInv'
  <2> g \in Threads /\ g \in Groups BY Distinct
  <2> QED BY <1>4, Distinct DEF Post, Start
<1>5. ASSUME NEW t \in Threads, Download(t) PROVE CtlInv'
  <2>1. CASE Complete(t)
    <3>1. End(t, FALSE) /\ pc[t] \in Work BY <2>1 DEF Complete
    <3> QED BY <3>1, CtlEnd
  <2>2. CASE PassOver(t) BY <2>2, Distinct DEF PassOver
  <2>3. CASE Open(t)
    <3>1. CASE /\ Goto(t, "copy") /\ UNCHANGED <<mu, flags, grp>>
      BY <2>3, <3>1, Distinct DEF Open
    <3>2. CASE End(t, TRUE)
      BY <2>3, <3>2, CtlEnd DEF Open
    <3> QED BY <2>3, <3>1, <3>2 DEF Open, FailWith
  <2>4. CASE Copy(t) BY <2>4, Distinct DEF Copy
  <2>5. CASE CopyFails(t)
    <3>1. End(t, TRUE) /\ pc[t] \in Work BY <2>5 DEF CopyFails, FailWith
    <3> QED BY <3>1, CtlEnd
  <2>6. CASE Mismatch(t)
    <3>1. End(t, TRUE) /\ pc[t] \in Work BY <2>6 DEF Mismatch, FailWith
    <3> QED BY <3>1, CtlEnd
  <2>7. CASE Rename(t)
    <3>1. \E l \in {"spec", "extract"} : pc' = [pc EXCEPT ![t] = l] BY <2>7 DEF Rename, NextAsset
    <3> QED BY <2>7, <3>1, Distinct DEF Rename
  <2>8. CASE Extract(t) BY <2>8, Distinct DEF Extract
  <2>9. CASE Swap(t) BY <2>9, Distinct DEF Swap
  <2>10. CASE Move(t) BY <2>10, Distinct DEF Move, NextAsset
  <2>11. CASE UnpackFails(t)
    <3>1. End(t, TRUE) /\ pc[t] \in Work BY <2>11 DEF UnpackFails
    <3> QED BY <3>1, CtlEnd
  <2> QED BY <1>5, <2>1, <2>2, <2>3, <2>4, <2>5, <2>6, <2>7, <2>8, <2>9, <2>10, <2>11 DEF Download
<1>6. CASE Kill BY <1>6, Distinct DEF Kill
<1>7. CASE UNCHANGED vars BY <1>7 DEF vars
<1> QED
  <2>1. ASSUME NEW u \in Users, Ensure(u) PROVE CtlInv'
    BY <2>1, <1>3, <1>5, Distinct DEF Ensure
  <2>2. ASSUME NEW g \in Flagged, Download(g) PROVE CtlInv'
    BY <2>2, <1>5, Distinct
  <2> QED BY <1>1, <1>2, <1>4, <1>6, <1>7, <2>1, <2>2 DEF Next

(* The flags.                                                              *)
LEMMA FlagNext ==
    ASSUME IInv, [Next]_vars PROVE FlagInv'
<1> IInv /\ TypeOK BY DEF IInv
<1> USE DEF Goto, files, flags, spent, Work, TypeOK, Labels
<1>1. ASSUME NEW r \in Requests, Arrive(r) \/ Proceed(r) PROVE FlagInv'
  <2> r \in Users /\ r \in Threads BY Distinct DEF Users
  <2>1. CASE Arrive(r) BY <2>1, FlagFrame DEF Arrive
  <2>2. CASE Proceed(r) BY <2>2, FlagFrame DEF Proceed
  <2> QED BY <1>1, <2>1, <2>2
<1>2. ASSUME NEW u \in Users, Lock(u) PROVE FlagInv'
  <2> u \in Threads BY Distinct
  <2> QED BY <1>2, FlagFrame DEF Lock
<1>3. ASSUME NEW u \in Users, Ensure(u), ~Download(u) PROVE FlagInv'
  <2> u \in Threads BY Distinct
  <2>1. CASE Look(u) BY <2>1, FlagFrame DEF Look
  <2>2. CASE Found(u) BY <2>2, FlagFrame DEF Found, Leave, After
  <2>3. CASE Fetch(u)
    <3>1. mu = u BY <2>3 DEF Fetch, IInv, CtlInv
    <3> QED BY <2>3, <3>1, FlagStart DEF Fetch
  <2>4. CASE Wait(u) BY <2>4, FlagFrame DEF Wait
  <2>5. CASE LookAgain(u) BY <2>5, FlagFrame DEF LookAgain
  <2>6. CASE WaitOver(u) BY <2>6, FlagFrame DEF WaitOver, Leave
  <2>7. CASE Outcome(u) BY <2>7, FlagFrame DEF Outcome, Leave
  <2> QED BY <1>3, <2>1, <2>2, <2>3, <2>4, <2>5, <2>6, <2>7 DEF Ensure
<1>4. ASSUME NEW g \in Flagged, Post(g) PROVE FlagInv'
  <2> g \in Threads /\ g \in Groups BY Distinct
  <2>1. grp[g] = g /\ g \notin Users BY Distinct DEF IInv, CtlInv
  <2> QED BY <1>4, <2>1, FlagStart DEF Post
<1>5. ASSUME NEW t \in Threads, Download(t) PROVE FlagInv'
  <2>1. CASE Complete(t)
    <3>1. End(t, FALSE) /\ pc[t] \in Work BY <2>1 DEF Complete
    <3> QED BY <3>1, FlagEnd
  <2>2. CASE PassOver(t) BY <2>2, FlagFrame DEF PassOver
  <2>3. CASE Open(t)
    <3>1. CASE /\ Goto(t, "copy") /\ UNCHANGED <<mu, flags, grp>>
      BY <2>3, <3>1, FlagFrame DEF Open
    <3>2. CASE End(t, TRUE)
      BY <2>3, <3>2, FlagEnd DEF Open
    <3> QED BY <2>3, <3>1, <3>2 DEF Open, FailWith
  <2>4. CASE Copy(t) BY <2>4, FlagFrame DEF Copy
  <2>5. CASE CopyFails(t)
    <3>1. End(t, TRUE) /\ pc[t] \in Work BY <2>5 DEF CopyFails, FailWith
    <3> QED BY <3>1, FlagEnd
  <2>6. CASE Mismatch(t)
    <3>1. End(t, TRUE) /\ pc[t] \in Work BY <2>6 DEF Mismatch, FailWith
    <3> QED BY <3>1, FlagEnd
  <2>7. CASE Rename(t)
    <3>1. \E l \in {"spec", "extract"} : pc' = [pc EXCEPT ![t] = l] BY <2>7 DEF Rename, NextAsset
    <3> QED BY <2>7, <3>1, FlagFrame DEF Rename
  <2>8. CASE Extract(t) BY <2>8, FlagFrame DEF Extract
  <2>9. CASE Swap(t) BY <2>9, FlagFrame DEF Swap
  <2>10. CASE Move(t) BY <2>10, FlagFrame DEF Move, NextAsset
  <2>11. CASE UnpackFails(t)
    <3>1. End(t, TRUE) /\ pc[t] \in Work BY <2>11 DEF UnpackFails
    <3> QED BY <3>1, FlagEnd
  <2> QED BY <1>5, <2>1, <2>2, <2>3, <2>4, <2>5, <2>6, <2>7, <2>8, <2>9, <2>10, <2>11 DEF Download
<1>6. CASE Kill BY <1>6, Distinct DEF Kill, FlagInv
<1>7. CASE UNCHANGED vars BY <1>7, FlagFrame DEF vars
<1> QED
  <2>1. ASSUME NEW u \in Users, Ensure(u) PROVE FlagInv'
    BY <2>1, <1>3, <1>5, Distinct DEF Ensure
  <2>2. ASSUME NEW g \in Flagged, Download(g) PROVE FlagInv'
    BY <2>2, <1>5, Distinct
  <2> QED BY <1>1, <1>2, <1>4, <1>6, <1>7, <2>1, <2>2 DEF Next

(* What a thread has left, when nobody else's is touched.                  *)
LEMMA LeftFrame ==
    ASSUME IInv, NEW t \in Threads,
           \A x \in Threads \ {t} : pc'[x] = pc[x] /\ left'[x] = left[x] /\ grp'[x] = grp[x],
           left'[t] \in Seq(Of(grp'[t])),
           pc'[t] \in Work \ {"spec"} => left'[t] # <<>>,
           pc'[t] \notin Work => left'[t] = <<>>
    PROVE  LeftInv'
BY DEF IInv, LeftInv

(* Seq(S) has the empty sequence.                                          *)
LEMMA Nothing == \A S : <<>> \in Seq(S)
OBVIOUS

LEMMA LeftEnd ==
    ASSUME IInv, NEW t \in Threads, NEW err, End(t, err)
    PROVE  LeftInv'
<1> left \in [Threads -> Seq(Assets)] /\ pc \in [Threads -> Labels]
  BY DEF IInv, TypeOK
<1>1. left'[t] = <<>> /\ grp' = grp /\ pc'[t] \notin Work
      /\ \A x \in Threads \ {t} : pc'[x] = pc[x] /\ left'[x] = left[x]
  BY DEF End, Leave, Goto, Work
<1> QED BY <1>1, LeftFrame, Nothing

(* What each thread has left.                                              *)
LEMMA LeftNext ==
    ASSUME IInv, [Next]_vars PROVE LeftInv'
<1> IInv /\ LeftInv /\ TypeOK 
    /\ pc \in [Threads -> Labels] /\ grp \in [Threads -> Groups]
    /\ left \in [Threads -> Seq(Assets)] /\ \A x \in Threads : left[x] \in Seq(Of(grp[x]))
  BY DEF IInv, LeftInv, TypeOK
<1> \A x \in Threads : pc[x] \notin Work => left[x] = <<>>
  BY DEF LeftInv
<1> USE DEF Goto, files, flags, spent, Work, Labels
<1>1. ASSUME NEW r \in Requests, Arrive(r) \/ Proceed(r) PROVE LeftInv'
  <2> r \in Users /\ r \in Threads BY Distinct DEF Users
  <2>1. CASE Arrive(r) BY <2>1, LeftFrame DEF Arrive
  <2>2. CASE Proceed(r) BY <2>2, LeftFrame DEF Proceed
  <2> QED BY <1>1, <2>1, <2>2
<1>2. ASSUME NEW u \in Users, Lock(u) PROVE LeftInv'
  <2> u \in Threads BY Distinct
  <2> QED BY <1>2, LeftFrame, Nothing DEF Lock
<1>3. ASSUME NEW u \in Users, Ensure(u), ~Download(u) PROVE LeftInv'
  <2> u \in Threads BY Distinct
  <2>1. CASE Look(u) BY <2>1, LeftFrame DEF Look
  <2>2. CASE Found(u)
    <3>1. left' = left /\ left[u] = <<>> /\ pc'[u] \notin Work
          /\ \A x \in Threads \ {u} : pc'[x] = pc[x] /\ grp'[x] = grp[x]
      BY <2>2 DEF Found, Leave
    <3> QED BY <3>1, LeftFrame, Nothing
  <2>3. CASE Fetch(u) BY <2>3, LeftFrame, SpecsTyped DEF Fetch, Start
  <2>4. CASE Wait(u) BY <2>4, LeftFrame DEF Wait
  <2>5. CASE LookAgain(u) BY <2>5, LeftFrame DEF LookAgain
  <2>6. CASE WaitOver(u) BY <2>6, LeftFrame, Nothing DEF WaitOver, Leave
  <2>7. CASE Outcome(u) BY <2>7, LeftFrame, Nothing DEF Outcome, Leave
  <2> QED BY <1>3, <2>1, <2>2, <2>3, <2>4, <2>5, <2>6, <2>7 DEF Ensure
<1>4. ASSUME NEW g \in Flagged, Post(g) PROVE LeftInv'
  <2> g \in Threads /\ g \in Groups BY Distinct
  <2>1. grp[g] = g BY DEF IInv, CtlInv
  <2> QED BY <1>4, <2>1, LeftFrame, SpecsTyped DEF Post, Start
<1>5. ASSUME NEW t \in Threads, Download(t) PROVE LeftInv'
  <2>0. pc[t] \in Work \ {"spec"} => left[t] # <<>>
    BY DEF LeftInv
  <2>a. left[t] # <<>> => Tail(left[t]) \in Seq(Of(grp[t]))
    BY AssetTyped
  <2>1. CASE Complete(t)
    <3>1. End(t, FALSE) BY <2>1 DEF Complete
    <3> QED BY <3>1, LeftEnd
  <2>2. CASE PassOver(t) BY <2>2, LeftFrame, <2>0, Nothing, <2>a DEF PassOver
  <2>3. CASE Open(t)
    <3>1. CASE Goto(t, "copy") /\ UNCHANGED <<mu, flags, grp, left>>
      BY <2>3, <3>1, LeftFrame DEF Open
    <3>2. CASE End(t, TRUE)
      BY <3>2, LeftEnd
    <3> QED BY <2>3, <3>1, <3>2 DEF Open, FailWith
  <2>4. CASE Copy(t) BY <2>4, LeftFrame, <2>0 DEF Copy
  <2>5. CASE CopyFails(t)
    <3>1. End(t, TRUE) BY <2>5 DEF CopyFails, FailWith
    <3> QED BY <3>1, LeftEnd
  <2>6. CASE Mismatch(t)
    <3>1. End(t, TRUE) BY <2>6 DEF Mismatch, FailWith
    <3> QED BY <3>1, LeftEnd
  <2>7. CASE Rename(t)
    <3>1. CASE NextAsset(t) /\ UNCHANGED <<mu, flags, grp>>
      BY <2>7, <3>1, LeftFrame, <2>0, <2>a DEF NextAsset, Rename
    <3>2. CASE Goto(t, "extract") /\ UNCHANGED <<mu, flags, grp, left>>
      BY <2>7, <3>2, LeftFrame, <2>0 DEF Rename
    <3> QED BY <2>7, <3>1, <3>2 DEF Rename
  <2>8. CASE Extract(t) BY <2>8, LeftFrame, <2>0 DEF Extract
  <2>9. CASE Swap(t) BY <2>9, LeftFrame, <2>0 DEF Swap
  <2>10. CASE Move(t) BY <2>10, LeftFrame, <2>0, <2>a DEF Move, NextAsset
  <2>11. CASE UnpackFails(t)
    <3>1. End(t, TRUE) BY <2>11 DEF UnpackFails
    <3> QED BY <3>1, LeftEnd
  <2> QED BY <1>5, <2>1, <2>2, <2>3, <2>4, <2>5, <2>6, <2>7, <2>8, <2>9, <2>10, <2>11 DEF Download
<1>6. CASE Kill BY <1>6, Nothing DEF Kill, LeftInv
<1>7. CASE UNCHANGED vars BY <1>7 DEF vars, LeftInv
<1> QED
  <2>1. ASSUME NEW u \in Users, Ensure(u) PROVE LeftInv'
    BY <2>1, <1>3, <1>5, Distinct DEF Ensure
  <2>2. ASSUME NEW g \in Flagged, Download(g) PROVE LeftInv'
    BY <2>2, <1>5, Distinct
  <2> QED BY <1>1, <1>2, <1>4, <1>6, <1>7, <2>1, <2>2 DEF Next

(* A step of t leaves a alone, or t is at it.                              *)
OnlyOwn(t, a) == \/ a = Asset(t) /\ left[t] # <<>> /\ pc[t] \in Work
                 \/ file'[a] = file[a] /\ part'[a] = part[a] /\ stage'[a] = stage[a]

(* The files, when a step of t changes no file but the one t is at.        *)
LEMMA WholeFrame ==
    ASSUME IInv, NEW t \in Threads,
           \A x \in Threads \ {t} : pc'[x] = pc[x] /\ left'[x] = left[x],
           \A a \in Assets : OnlyOwn(t, a),
           \A a \in Assets : file'[a] # "some",
           Careful(t)'
    PROVE  WholeInv'
<1>1. ASSUME NEW x \in Threads, x # t, pc[x] \in Work \ {"spec"} PROVE Careful(x)'
  <2>1. left[x] # <<>> /\ Asset(x) \in Assets
    BY <1>1, AssetTyped DEF IInv, LeftInv
  <2>2. Asset(x)' = Asset(x) /\ pc'[x] = pc[x]
    BY <1>1 DEF Asset
  <2>3. left[t] # <<>> /\ pc[t] \in Work => Asset(x) # Asset(t)
    BY <1>1, <2>1, Apart
  <2>4. /\ file'[Asset(x)] = file[Asset(x)] /\ part'[Asset(x)] = part[Asset(x)]
        /\ stage'[Asset(x)] = stage[Asset(x)]
    BY <2>1, <2>3 DEF OnlyOwn
  <2> QED BY <2>2, <2>4, <1>1 DEF Careful, IInv, WholeInv
<1>2. ASSUME NEW x \in Threads, x # t, pc[x] \notin Work \ {"spec"} PROVE Careful(x)'
  BY <1>2 DEF Careful, Work
<1> QED BY <1>1, <1>2 DEF WholeInv, InstalledIsWhole

(* The files, when nothing is written.                                     *)
LEMMA WholeQuiet ==
    ASSUME IInv, NEW t \in Threads, file' = file, part' = part, stage' = stage,
           \A x \in Threads \ {t} : pc'[x] = pc[x] /\ left'[x] = left[x],
           pc'[t] \notin Work \ {"spec"}
    PROVE  WholeInv'
<1>1. Careful(t)' BY DEF Careful, Work
<1> QED BY <1>1, WholeFrame DEF OnlyOwn, IInv, WholeInv, InstalledIsWhole

LEMMA WholeEnd ==
    ASSUME IInv, NEW t \in Threads, NEW err, End(t, err), pc[t] \in Work,
           file' = file,
           \A a \in Assets : OnlyOwn(t, a)
    PROVE  WholeInv'
<1>1. pc'[t] \notin Work /\ \A x \in Threads \ {t} : pc'[x] = pc[x] /\ left'[x] = left[x]
  BY DEF End, Leave, Goto, Work, IInv, TypeOK, Labels
<1>2. Careful(t)' BY <1>1 DEF Careful, Work
<1>3. \A a \in Assets : file'[a] # "some" BY DEF IInv, WholeInv, InstalledIsWhole
<1> QED BY <1>1, <1>2, <1>3, WholeFrame

(* The files.                                                              *)
LEMMA WholeNext ==
    ASSUME IInv, [Next]_vars PROVE WholeInv'
<1> /\ IInv /\ pc \in [Threads -> Labels] /\ left \in [Threads -> Seq(Assets)]
    /\ file \in [Assets -> Shapes] /\ part \in [Assets -> Shapes] /\ stage \in [Assets -> Shapes]
    /\ \A a \in Assets : file[a] # "some"
  BY DEF IInv, TypeOK, WholeInv, InstalledIsWhole
<1> USE DEF Goto, files, flags, spent, Work, Labels
<1>1. ASSUME NEW r \in Requests, Arrive(r) \/ Proceed(r) PROVE WholeInv'
  <2> r \in Users /\ r \in Threads BY Distinct DEF Users
  <2>1. CASE Arrive(r) BY <2>1, WholeQuiet DEF Arrive
  <2>2. CASE Proceed(r) BY <2>2, WholeQuiet DEF Proceed
  <2> QED BY <1>1, <2>1, <2>2
<1>2. ASSUME NEW u \in Users, Lock(u) PROVE WholeInv'
  <2> u \in Threads BY Distinct
  <2> QED BY <1>2, WholeQuiet DEF Lock
<1>3. ASSUME NEW u \in Users, Ensure(u), ~Download(u) PROVE WholeInv'
  <2> u \in Threads BY Distinct
  <2>1. CASE Look(u) BY <2>1, WholeQuiet DEF Look
  <2>2. CASE Found(u) BY <2>2, WholeQuiet DEF Found, Leave, After
  <2>3. CASE Fetch(u) BY <2>3, WholeQuiet DEF Fetch, Start
  <2>4. CASE Wait(u) BY <2>4, WholeQuiet DEF Wait
  <2>5. CASE LookAgain(u) BY <2>5, WholeQuiet DEF LookAgain
  <2>6. CASE WaitOver(u) BY <2>6, WholeQuiet DEF WaitOver, Leave
  <2>7. CASE Outcome(u) BY <2>7, WholeQuiet DEF Outcome, Leave
  <2> QED BY <1>3, <2>1, <2>2, <2>3, <2>4, <2>5, <2>6, <2>7 DEF Ensure
<1>4. ASSUME NEW g \in Flagged, Post(g) PROVE WholeInv'
  <2> g \in Threads /\ g \in Groups BY Distinct
  <2> QED BY <1>4, WholeQuiet DEF Post, Start
<1>5. ASSUME NEW t \in Threads, Download(t) PROVE WholeInv'
  <2>0. /\ pc[t] \in Work \ {"spec"} => left[t] # <<>>
        /\ left[t] # <<>> => Asset(t) \in Assets
        /\ Careful(t)
    BY AssetTyped DEF IInv, LeftInv, WholeInv
  <2>1. CASE Complete(t)
    <3>1. End(t, FALSE) /\ pc[t] \in Work BY <2>1 DEF Complete
    <3>2. \A a \in Assets : OnlyOwn(t, a) BY <2>1 DEF Complete, OnlyOwn
    <3>3. file' = file BY <2>1 DEF Complete
    <3> QED BY <3>1, <3>2, <3>3, WholeEnd
  <2>2. CASE PassOver(t) BY <2>2, WholeQuiet DEF PassOver
  <2>3. CASE Open(t)
    <3>0. left[t] # <<>> BY <2>3 DEF Open
    <3>1. CASE /\ part' = [part EXCEPT ![Asset(t)] = "some"] /\ Goto(t, "copy")
               /\ UNCHANGED <<mu, flags, grp, left, file, archive, stage, spent>>
      <4>1. Asset(t)' = Asset(t) BY <3>1 DEF Asset
      <4>2. Asset(t) \notin Plain => file[Asset(t)] = "none"
        BY <2>3 DEF Open, Passed, Present, Plain
      <4>3. Careful(t)' BY <3>1, <4>1, <4>2 DEF Careful
      <4>4. \A a \in Assets : OnlyOwn(t, a) BY <2>3, <3>0, <3>1, <2>0 DEF OnlyOwn, Open
      <4>5. \A a \in Assets : file'[a] # "some" BY <2>3, <3>0, <3>1, <2>0 DEF Open
      <4>6. \A x \in Threads \ {t} : pc'[x] = pc[x] /\ left'[x] = left[x] BY <2>3, <3>0, <3>1, <2>0 DEF Open
      <4> QED BY <4>3, <4>4, <4>5, <4>6, WholeFrame
    <3>2. CASE FailWith(t, IF Asset(t) = "dict" THEN "none" ELSE part[Asset(t)])
      <4>1. \A a \in Assets : OnlyOwn(t, a) BY <2>3, <3>0, <3>2, <2>0 DEF Open, FailWith, OnlyOwn
      <4>2. End(t, TRUE) /\ pc[t] \in Work /\ file' = file BY <2>3, <3>2 DEF Open, FailWith
      <4> QED BY <4>1, <4>2, WholeEnd
    <3> QED BY <2>3, <3>1, <3>2 DEF Open
  <2>4. CASE Copy(t)
    <3>1. left[t] # <<>> BY <2>4, <2>0 DEF Copy
    <3>2. Asset(t)' = Asset(t) BY <2>4 DEF Copy, Asset
    <3>3. Careful(t)' BY <2>4, <3>1, <3>2, <2>0 DEF Copy, Careful
    <3>4. \A a \in Assets : OnlyOwn(t, a) BY <2>4, <3>1, <2>0 DEF OnlyOwn, Copy
    <3>5. \A a \in Assets : file'[a] # "some" BY <2>4, <3>1, <2>0 DEF Copy
    <3>6. \A x \in Threads \ {t} : pc'[x] = pc[x] /\ left'[x] = left[x] BY <2>4, <3>1, <2>0 DEF Copy
    <3> QED BY <3>3, <3>4, <3>5, <3>6, WholeFrame
  <2>5. CASE CopyFails(t)
    <3>1. End(t, TRUE) /\ pc[t] \in Work \ {"spec"} BY <2>5 DEF CopyFails, FailWith
    <3>2. left[t] # <<>> BY <3>1, <2>0
    <3>3. \A a \in Assets : OnlyOwn(t, a) BY <2>5, <3>1, <3>2, <2>0 DEF CopyFails, FailWith, OnlyOwn
    <3>4. End(t, TRUE) /\ pc[t] \in Work /\ file' = file BY <2>5, <3>1 DEF CopyFails, FailWith
    <3> QED BY <3>3, <3>4, WholeEnd
  <2>6. CASE Mismatch(t)
    <3>1. End(t, TRUE) /\ pc[t] \in Work \ {"spec"} BY <2>6 DEF Mismatch, FailWith
    <3>2. left[t] # <<>> BY <3>1, <2>0
    <3>3. \A a \in Assets : OnlyOwn(t, a) BY <2>6, <3>1, <3>2, <2>0 DEF Mismatch, FailWith, OnlyOwn
    <3>4. End(t, TRUE) /\ pc[t] \in Work /\ file' = file BY <2>6, <3>1 DEF Mismatch, FailWith
    <3> QED BY <3>3, <3>4, WholeEnd
  <2>7. CASE Rename(t)
    <3>0. left[t] # <<>> /\ part[Asset(t)] = "whole" BY <2>7, <2>0 DEF Rename, Careful
    <3>1. CASE NextAsset(t) /\ Asset(t) \in Plain
      <4>1. Careful(t)' BY <3>1 DEF Careful, NextAsset
      <4>2. \A a \in Assets : OnlyOwn(t, a) BY <2>7, <3>0, <3>1, <2>0 DEF OnlyOwn, Rename, NextAsset
      <4>3. \A a \in Assets : file'[a] # "some" BY <2>7, <3>0, <3>1, <2>0 DEF Rename, NextAsset
      <4>4. \A x \in Threads \ {t} : pc'[x] = pc[x] /\ left'[x] = left[x] BY <2>7, <3>0, <3>1, <2>0 DEF Rename, NextAsset
      <4> QED BY <4>1, <4>2, <4>3, <4>4, WholeFrame
    <3>2. CASE Goto(t, "extract") /\ Asset(t) \notin Plain
      <4>1. Asset(t)' = Asset(t) BY <2>7, <3>2 DEF Rename, Asset
      <4>2. Careful(t)' BY <2>7, <3>2, <4>1, <2>0 DEF Rename, Careful
      <4>3. \A a \in Assets : OnlyOwn(t, a) BY <2>7, <3>0, <3>2, <2>0 DEF OnlyOwn, Rename
      <4>4. \A a \in Assets : file'[a] # "some" BY <2>7, <3>0, <3>2, <2>0 DEF Rename
      <4>5. \A x \in Threads \ {t} : pc'[x] = pc[x] /\ left'[x] = left[x] BY <2>7, <3>0, <3>2, <2>0 DEF Rename
      <4> QED BY <4>2, <4>3, <4>4, <4>5, WholeFrame
    <3> QED BY <2>7, <3>1, <3>2 DEF Rename
  <2>8. CASE Extract(t)
    <3>1. left[t] # <<>> BY <2>8, <2>0 DEF Extract
    <3>2. Asset(t)' = Asset(t) BY <2>8 DEF Extract, Asset
    <3>3. Careful(t)' BY <2>8, <3>1, <3>2, <2>0 DEF Extract, Careful
    <3>4. \A a \in Assets : OnlyOwn(t, a) BY <2>8, <3>1, <2>0 DEF OnlyOwn, Extract
    <3>5. \A a \in Assets : file'[a] # "some" BY <2>8, <3>1, <2>0 DEF Extract
    <3>6. \A x \in Threads \ {t} : pc'[x] = pc[x] /\ left'[x] = left[x] BY <2>8, <3>1, <2>0 DEF Extract
    <3> QED BY <3>3, <3>4, <3>5, <3>6, WholeFrame
  <2>9. CASE Swap(t)
    <3>1. left[t] # <<>> BY <2>9, <2>0 DEF Swap
    <3>2. Asset(t)' = Asset(t) BY <2>9 DEF Swap, Asset
    <3>3. Careful(t)' BY <2>9, <3>1, <3>2, <2>0 DEF Swap, Careful
    <3>4. \A a \in Assets : OnlyOwn(t, a) BY <2>9, <3>1, <2>0 DEF OnlyOwn, Swap
    <3>5. \A a \in Assets : file'[a] # "some" BY <2>9, <3>1, <2>0 DEF Swap
    <3>6. \A x \in Threads \ {t} : pc'[x] = pc[x] /\ left'[x] = left[x] BY <2>9, <3>1, <2>0 DEF Swap
    <3> QED BY <3>3, <3>4, <3>5, <3>6, WholeFrame
  <2>10. CASE Move(t)
    <3>1. left[t] # <<>> /\ stage[Asset(t)] = "whole" BY <2>10, <2>0 DEF Move, Careful
    <3>2. Careful(t)' BY <2>10 DEF Move, NextAsset, Careful
    <3>3. \A a \in Assets : OnlyOwn(t, a) BY <2>10, <3>1, <2>0 DEF OnlyOwn, Move, NextAsset
    <3>4. \A a \in Assets : file'[a] # "some" BY <2>10, <3>1, <2>0 DEF Move, NextAsset
    <3>5. \A x \in Threads \ {t} : pc'[x] = pc[x] /\ left'[x] = left[x] BY <2>10, <3>1, <2>0 DEF Move, NextAsset
    <3> QED BY <3>2, <3>3, <3>4, <3>5, WholeFrame
  <2>11. CASE UnpackFails(t)
    <3>1. End(t, TRUE) /\ pc[t] \in Work \ {"spec"} BY <2>11 DEF UnpackFails
    <3>2. left[t] # <<>> BY <3>1, <2>0
    <3>3. \A a \in Assets : OnlyOwn(t, a) BY <2>11, <3>1, <3>2, <2>0 DEF UnpackFails, OnlyOwn
    <3>4. End(t, TRUE) /\ pc[t] \in Work /\ file' = file BY <2>11, <3>1 DEF UnpackFails
    <3> QED BY <3>3, <3>4, WholeEnd
  <2> QED BY <1>5, <2>1, <2>2, <2>3, <2>4, <2>5, <2>6, <2>7, <2>8, <2>9, <2>10, <2>11 DEF Download
<1>6. CASE Kill BY <1>6 DEF Kill, WholeInv, Careful, InstalledIsWhole
<1>7. CASE UNCHANGED vars
  <2>1. \A x \in Threads : Asset(x)' = Asset(x) BY <1>7 DEF vars, Asset
  <2> QED BY <1>7, <2>1 DEF vars, IInv, WholeInv, Careful, InstalledIsWhole
<1> QED
  <2>1. ASSUME NEW u \in Users, Ensure(u) PROVE WholeInv'
    BY <2>1, <1>3, <1>5, Distinct DEF Ensure
  <2>2. ASSUME NEW g \in Flagged, Download(g) PROVE WholeInv'
    BY <2>2, <1>5, Distinct
  <2> QED BY <1>1, <1>2, <1>4, <1>6, <1>7, <2>1, <2>2 DEF Next

-----------------------------------------------------------------------------
LEMMA Initially == Init => IInv
<1> SUFFICES ASSUME Init PROVE IInv
  OBVIOUS
<1> USE DEF Init, Work
<1>1. TypeOK
  <2>1. mu \in Users \cup {Nobody} /\ kills \in 0..MaxKills /\ clicks \in 0..MaxClicks
    BY ProvisioningAssumption
  <2>2. pc \in [Threads -> Labels] BY DEF Labels
  <2>3. grp \in [Threads -> Groups] BY Distinct DEF Groups
  <2>4. left \in [Threads -> Seq(Assets)] BY Nothing
  <2> QED BY <2>1, <2>2, <2>3, <2>4 DEF TypeOK, Shapes
<1>2. CtlInv
  BY Distinct DEF CtlInv
<1>3. FlagInv
  BY Distinct DEF FlagInv
<1>4. LeftInv
  BY Nothing DEF LeftInv
<1>5. WholeInv
  BY DEF WholeInv, InstalledIsWhole, Careful
<1> QED BY <1>1, <1>2, <1>3, <1>4, <1>5 DEF IInv

(* The inductive invariant holds: in particular voiceProvisionMu has the   *)
(* holder its program counters say (bootstrap.go:186-187), and no two      *)
(* downloads are at the same file.                                         *)
THEOREM Installing == Spec => []IInv
<1>1. IInv /\ [Next]_vars => IInv'
  BY TypeNext, CtlNext, FlagNext, LeftNext, WholeNext DEF IInv
<1> QED BY Initially, <1>1, PTL DEF Spec

(* Every variable keeps its type; no plain file is ever unpacked           *)
(* (voice_models.go, piper_models.go, model_download.go).                  *)
THEOREM Typing == Spec => []TypeOK
<1>1. IInv => TypeOK
  BY DEF IInv
<1> QED BY Installing, <1>1, PTL

(* At most one download of a group runs and an Active flag is never left   *)
(* behind, for any number of requests, clicks and kills                    *)
(* (bootstrap.go:218, voice_models.go:81, piper_models.go:94,              *)
(* model_download.go:80).                                                  *)
THEOREM FlagsAreKept == Spec => []FlagsAreRight
<1>1. IInv => FlagsAreRight
  BY DEF IInv, FlagInv, FlagsAreRight, OneInstaller, FlagHasOwner, Downloading, Work
<1> QED BY Installing, <1>1, PTL

(* Nothing half-written is ever installed, wherever the program is killed  *)
(* (downloadVoiceArchive, downloadPiperFile, downloadURL, extract...).     *)
THEOREM NothingHalfInstalled == Spec => []InstalledIsWhole
<1>1. IInv => InstalledIsWhole
  BY DEF IInv, WholeInv
<1> QED BY Installing, <1>1, PTL

(* No step takes away an asset that is installed (extractVoiceArchive and  *)
(* extractTarGzSafe remove a directory before they rename the new one).    *)
THEOREM NothingTakenAway == Spec => ReadyStays
<1>1. ASSUME IInv, Next PROVE \A a \in Assets : Present(a) => Present(a)'
  <2> /\ file \in [Assets -> Shapes] /\ part \in [Assets -> Shapes] /\ stage \in [Assets -> Shapes]
    BY <1>1 DEF IInv, TypeOK
  <2>1. ASSUME NEW t \in Threads, Download(t) PROVE \A a \in Assets : Present(a) => Present(a)'
    <3>0. pc[t] \in Work \ {"spec"} => Careful(t) /\ Asset(t) \in Assets
      BY <1>1, AssetTyped DEF IInv, LeftInv, WholeInv
    <3>1. CASE Rename(t)
      <4>1. part[Asset(t)] = "whole" BY <3>0, <3>1 DEF Rename, Careful, Work
      <4> QED BY <3>1, <4>1 DEF Rename, Present, NextAsset
    <3>2. CASE Swap(t)
      <4>1. file[Asset(t)] = "none" BY <3>0, <3>2 DEF Swap, Careful, Work
      <4> QED BY <3>2, <4>1 DEF Swap, Present
    <3>3. CASE Move(t)
      <4>1. stage[Asset(t)] = "whole" BY <3>0, <3>3 DEF Move, Careful, Work
      <4> QED BY <3>3, <4>1 DEF Move, Present, NextAsset
    <3>4. CASE ~(Rename(t) \/ Swap(t) \/ Move(t))
      <4>1. file' = file
        BY <2>1, <3>4 DEF Download, Complete, PassOver, Open, Copy, CopyFails, Mismatch, Extract,
                          UnpackFails, FailWith, files
      <4> QED BY <4>1 DEF Present
    <3> QED BY <3>1, <3>2, <3>3, <3>4
  <2>2. ASSUME NEW u \in Users, Lock(u) \/ Ensure(u), ~Download(u) PROVE file' = file
    BY <2>2 DEF Lock, Ensure, Look, Found, Fetch, Wait, LookAgain, WaitOver, Outcome, files
  <2>3. ASSUME NEW r \in Requests, Arrive(r) \/ Proceed(r) PROVE file' = file
    BY <2>3 DEF Arrive, Proceed, files
  <2>4. ASSUME NEW g \in Flagged, Post(g) PROVE file' = file
    BY <2>4 DEF Post, files
  <2>5. CASE Kill
    BY <2>5 DEF Kill, files, Present
  <2> QED BY <1>1, <2>1, <2>2, <2>3, <2>4, <2>5, Distinct DEF Next, Ensure, Present
<1>2. UNCHANGED vars => \A a \in Assets : Present(a) => Present(a)'
  BY DEF vars, Present
<1> QED BY Installing, <1>1, <1>2, PTL DEF Spec, ReadyStays
=============================================================================
