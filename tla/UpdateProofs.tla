----------------------------- MODULE UpdateProofs -----------------------------
(***************************************************************************)
(* What the update check and `netinspect update` keep true.                *)
(***************************************************************************)
EXTENDS Update, UpdateCheck, TLAPS

-----------------------------------------------------------------------------
(***************************************************************************)
(* `netinspect update`, for any number of attempts at once, any versions   *)
(* and layouts, and whatever fails.                                        *)
(***************************************************************************)

\* What an attempt has found out, and done, by the phase it is in.
Progress(u) ==
  /\ pc[u] \notin Holding \cup {"dead"} /\ u \notin unremoved => scratch[u] = NoFile
  /\ u \in unremoved => pc[u] \in {"returning", "over", "dead"}
  /\ pc[u] \in Holding => scratch[u].version = wanted[u]
  /\ pc[u] \in {"downloading", "verifying", "creating"} \cup Holding =>
       wanted[u] \in Versions /\ (wanted[u] > self[u].version \/ self[u].force)
  /\ pc[u] \in {"creating"} \cup Holding => archive[u] = "good"
  /\ pc[u] \in {"written", "renaming"} => scratch[u].whole
  /\ pc[u] = "renaming" => scratch[u].executable
  /\ pc[u] \notin {"returning", "over", "dead"} => outcome[u] = "none"
  /\ outcome[u] = "updated" => scratch[u] = NoFile

UInv ==
  /\ TypeOK
  /\ Runnable(target) /\ target.version \in Versions
  /\ \A u \in Updaters : Progress(u)

LEMMA InvInit == Init => UInv
<1> SUFFICES ASSUME Init PROVE UInv
  OBVIOUS
<1> USE UpdateAssumption DEF Init, Versions
<1>1. TypeOK
  BY DEF TypeOK, Files, NoFile, Program
<1>2. Runnable(target) /\ target.version \in Versions
  BY DEF Runnable, Program
<1>3. \A u \in Updaters : Progress(u)
  BY DEF Progress, Holding
<1> QED
  BY <1>1, <1>2, <1>3 DEF UInv

\* A step of an attempt changes nothing of the others'.
LEMMA StepsAreOwn ==
  ASSUME TypeOK, NEW u \in Updaters, Step(u) \/ Crash(u),
         NEW v \in Updaters, v # u
  PROVE  /\ pc'[v] = pc[v] /\ self'[v] = self[v] /\ wanted'[v] = wanted[v]
         /\ archive'[v] = archive[v] /\ scratch'[v] = scratch[v]
         /\ outcome'[v] = outcome[v] /\ (v \in unremoved' <=> v \in unremoved)
BY DEF Step, Crash, Goto, Returns, Started, TypeOK, files, attempt,
       Locate, LocateRefuses, List, ListRefuses, Download, Verify, VerifyFails,
       NetworkFails, Create, Write, SetPermissions, Rename, Finish,
       ReplaceFails, Announce

\* What is written of a good archive is whole.
LEMMA WriteKeepsRest ==
  ASSUME TypeOK, NEW u \in Updaters, Write(u)
  PROVE  /\ scratch' \in [Updaters -> Files]
         /\ scratch'[u].version = scratch[u].version
         /\ archive[u] = "good" => scratch'[u].whole
<1> DEFINE good == archive[u] = "good"
<1>1. good \in BOOLEAN
  OBVIOUS
<1>2. scratch' = [scratch EXCEPT ![u].whole = good]
  BY DEF Write
<1>3. scratch \in [Updaters -> Files]
  BY DEF TypeOK
<1> HIDE DEF good
<1>4. /\ scratch' \in [Updaters -> Files]
      /\ scratch'[u].version = scratch[u].version
      /\ scratch'[u].whole = good
  BY <1>1, <1>2, <1>3 DEF Files
<1> QED BY <1>4 DEF good

LEMMA NoFileIsFile == NoFile \in Files
BY UpdateAssumption DEF NoFile, Files

LEMMA TypeNext ==
  ASSUME TypeOK, [Next]_vars
  PROVE  TypeOK'
<1> USE UpdateAssumption DEF TypeOK, Goto, Returns, Versions, files, attempt
<1>1. CASE UNCHANGED vars
  BY <1>1 DEF vars
<1>2. CASE Publish
  BY <1>2 DEF Publish
<1>3. ASSUME NEW u \in Updaters, Step(u) \/ Crash(u) PROVE TypeOK'
  <2>1. CASE Locate(u)
    BY <2>1 DEF Locate, Started, Files
  <2>2. CASE LocateRefuses(u)
    BY <2>2 DEF LocateRefuses, Started, Files
  <2>3. CASE List(u)
    BY <2>3 DEF List, Releases
  <2>4. CASE ListRefuses(u)
    BY <2>4 DEF ListRefuses
  <2>5. CASE Download(u)
    BY <2>5 DEF Download
  <2>6. CASE Verify(u)
    BY <2>6 DEF Verify
  <2>7. CASE VerifyFails(u)
    BY <2>7 DEF VerifyFails
  <2>8. CASE NetworkFails(u)
    BY <2>8 DEF NetworkFails
  <2>9. CASE Create(u)
    BY <2>9 DEF Create, Files, NoFile
  <2>10. CASE Write(u)
    <3>1. scratch' \in [Updaters -> Files]
      BY <2>10, WriteKeepsRest DEF TypeOK
    <3> QED BY <2>10, <3>1 DEF Write
  <2>11. CASE SetPermissions(u)
    <3>1. ASSUME NEW program \in Files PROVE [program EXCEPT !.executable = TRUE] \in Files
      BY DEF Files
    <3>2. scratch' \in [Updaters -> Files]
      BY <2>11, <3>1 DEF SetPermissions
    <3> QED BY <2>11, <3>2 DEF SetPermissions
  <2>12. CASE Rename(u)
    BY <2>12 DEF Rename, Files, NoFile
  <2>13. CASE ReplaceFails(u)
    <3>1. scratch' \in [Updaters -> Files] /\ unremoved' \subseteq Updaters
      BY <2>13, NoFileIsFile DEF ReplaceFails
    <3> QED BY <2>13, <3>1 DEF ReplaceFails
  <2>14. CASE Crash(u)
    BY <2>14 DEF Crash
  <2>15. CASE Finish(u)
    BY <2>15 DEF Finish
  <2>16. CASE Announce(u)
    BY <2>16 DEF Announce
  <2> QED
    BY <1>3, <2>1, <2>2, <2>3, <2>4, <2>5, <2>6, <2>7, <2>8, <2>9, <2>10, <2>11,
       <2>12, <2>13, <2>14, <2>15, <2>16 DEF Step
<1> QED
  BY <1>1, <1>2, <1>3 DEF Next

\* Picking a release to install means it is newer, or that --force was given.
LEMMA WantedIsNewer ==
  ASSUME TypeOK, NEW u \in Updaters, Wants(u)
  PROVE  released.version > self[u].version \/ self[u].force
BY DEF Wants, Offer

LEMMA ProgressNext ==
  ASSUME UInv, NEW u \in Updaters, Step(u) \/ Crash(u)
  PROVE  Progress(u)'
<1> USE DEF UInv, TypeOK, Progress, Holding, Goto, Returns, files, attempt
<1>1. CASE Locate(u)
  BY <1>1 DEF Locate
<1>2. CASE LocateRefuses(u)
  BY <1>2 DEF LocateRefuses
<1>3. CASE List(u)
  BY <1>3, WantedIsNewer DEF List, Releases
<1>4. CASE ListRefuses(u)
  BY <1>4 DEF ListRefuses
<1>5. CASE Download(u)
  BY <1>5 DEF Download
<1>6. CASE Verify(u)
  BY <1>6 DEF Verify
<1>7. CASE VerifyFails(u)
  BY <1>7 DEF VerifyFails
<1>8. CASE NetworkFails(u)
  BY <1>8 DEF NetworkFails
<1>9. CASE Create(u)
  BY <1>9 DEF Create, NoFile
<1>10. CASE Write(u)
  <2>1. /\ pc[u] = "writing" /\ archive[u] = "good"
        /\ outcome[u] = "none" /\ u \notin unremoved
    BY <1>10 DEF Write
  <2>2. /\ pc'[u] = "written"
        /\ UNCHANGED <<self, wanted, archive, outcome, unremoved>>
    BY <1>10 DEF Write
  <2>3. scratch'[u].version = scratch[u].version /\ scratch'[u].whole
    BY <1>10, <2>1, WriteKeepsRest
  <2>4. /\ wanted[u] \in Versions /\ (wanted[u] > self[u].version \/ self[u].force)
        /\ scratch[u].version = wanted[u]
    BY <2>1
  <2> QED BY <2>1, <2>2, <2>3, <2>4
<1>11. CASE SetPermissions(u)
  <2>1. /\ pc[u] = "written" /\ pc'[u] = "renaming" /\ archive[u] = "good"
        /\ outcome[u] = "none" /\ u \notin unremoved
        /\ UNCHANGED <<self, wanted, archive, outcome, unremoved>>
    BY <1>11 DEF SetPermissions
  <2>2. /\ scratch'[u].version = scratch[u].version
        /\ scratch'[u].whole = scratch[u].whole /\ scratch'[u].executable
    <3>1. scratch[u] \in Files /\ scratch'[u] = [scratch[u] EXCEPT !.executable = TRUE]
      BY <1>11 DEF SetPermissions
    <3> QED BY <3>1 DEF Files
  <2>3. wanted[u] \in Versions /\ (wanted[u] > self[u].version \/ self[u].force)
    BY <2>1
  <2>4. scratch[u].version = wanted[u] /\ scratch[u].whole
    BY <2>1
  <2> QED BY <2>1, <2>2, <2>3, <2>4
<1>12. CASE Rename(u)
  <2>1. /\ pc[u] = "renaming" /\ pc'[u] = "placed"
        /\ u \notin unremoved' /\ outcome'[u] = "none"
    BY <1>12 DEF Rename
  <2>2. scratch'[u] = NoFile
    BY <1>12 DEF Rename
  <2> QED BY <2>1, <2>2
<1>13. CASE ReplaceFails(u)
  <2>1. pc'[u] = "returning" /\ outcome'[u] = "error"
    BY <1>13 DEF ReplaceFails
  <2>2. scratch'[u] = NoFile \/ u \in unremoved'
    BY <1>13 DEF ReplaceFails
  <2> QED BY <2>1, <2>2
<1>14. CASE Crash(u)
  BY <1>14 DEF Crash
<1>15. CASE Finish(u)
  BY <1>15 DEF Finish
<1>16. CASE Announce(u)
  BY <1>16 DEF Announce
<1> QED
  BY <1>1, <1>2, <1>3, <1>4, <1>5, <1>6, <1>7, <1>8, <1>9, <1>10, <1>11, <1>12,
     <1>13, <1>14, <1>15, <1>16 DEF Step

\* Only the rename touches the target, and it puts a whole program there.
LEMMA TargetNext ==
  ASSUME UInv, NEW u \in Updaters, Step(u) \/ Crash(u)
  PROVE  \/ UNCHANGED target /\ ~Rename(u)
         \/ /\ Rename(u) /\ Runnable(scratch[u])
            /\ target' = scratch[u] /\ target'.version = wanted[u]
            /\ wanted[u] \in Versions
            /\ wanted[u] > self[u].version \/ self[u].force
<1>1. CASE Rename(u)
  BY <1>1 DEF Rename, Goto, UInv, Progress, Holding, Runnable
<1>2. CASE ~Rename(u)
  BY <1>2 DEF Step, Crash, files, Locate, LocateRefuses, List, ListRefuses,
     Download, Verify, VerifyFails, NetworkFails, Create, Write, SetPermissions,
     ReplaceFails, Finish, Announce
<1> QED
  BY <1>1, <1>2

LEMMA InvNext == UInv /\ [Next]_vars => UInv'
<1> SUFFICES ASSUME UInv, [Next]_vars PROVE UInv'
  OBVIOUS
<1>1. TypeOK'
  BY TypeNext DEF UInv
<1>2. CASE UNCHANGED vars \/ Publish
  BY <1>1, <1>2 DEF vars, files, attempt, Publish, UInv, Runnable, Progress
<1>3. ASSUME NEW u \in Updaters, Step(u) \/ Crash(u) PROVE UInv'
  <2>1. Runnable(target)' /\ (target.version \in Versions)'
    BY <1>3, TargetNext DEF UInv, Runnable, Versions
  <2>2. ASSUME NEW v \in Updaters PROVE Progress(v)'
    <3>1. CASE v = u
      BY <1>3, <3>1, ProgressNext
    <3>2. CASE v # u
      BY <1>3, <3>2, StepsAreOwn DEF UInv, Progress, Versions
    <3> QED BY <3>1, <3>2
  <2> QED BY <1>1, <2>1, <2>2 DEF UInv
<1> QED
  BY <1>2, <1>3 DEF Next

LEMMA Invariant == Spec => []UInv
BY InvInit, InvNext, PTL DEF Spec

\* The attempts, their files and the release keep their types.
THEOREM UpdateTypeCorrect == Spec => []TypeOK
<1>1. UInv => TypeOK
  BY DEF UInv
<1> QED
  BY Invariant, <1>1, PTL

\* `replace` cleans up after itself, for any number of attempts next to each
\* other: a scratch file that is left belongs to an attempt that was killed, or
\* that failed and could not remove it, and to none that installed something.
THEOREM LeftoversAreExplainedHolds == Spec => []LeftoversAreExplained
<1>1. UInv => LeftoversAreExplained
  BY DEF UInv, LeftoversAreExplained, Progress, Holding
<1> QED
  BY Invariant, <1>1, PTL

\* Without --force only a newer program than the one an attempt was started as is
\* put in place, whatever is published, withdrawn or installed meanwhile.
THEOREM NoDowngradeHolds == Spec => NoDowngrade
<1>1. ASSUME UInv, [Next]_vars
      PROVE  [\A u \in Updaters :
                Rename(u) /\ ~self[u].force => target'.version > self[u].version]_vars
  <2> SUFFICES ASSUME NEW u \in Updaters, Rename(u), ~self[u].force
               PROVE  target'.version > self[u].version
    BY <1>1
  <2> QED
    BY <1>1, TargetNext DEF Step
<1> QED
  BY Invariant, <1>1, PTL DEF Spec, NoDowngrade

\* `netinspect update` implements Swap: what stands at the path is always one
\* whole program, an attempt replaces it in one step, and what it says it did, if
\* it is not killed before it says anything, is what it did.
THEOREM UpdateSwapsOrLeaves == Spec => SwapsOrLeaves
<1> DEFINE program == IF Runnable(target) THEN target.version ELSE 0
           verdict == [u \in Updaters |-> Verdict(u)]
<1>1. Init => Replacement!Init
  <2> SUFFICES ASSUME Init PROVE Replacement!Init
    OBVIOUS
  <2>1. program \in Versions
    BY InvInit DEF UInv
  <2>2. verdict = [u \in Updaters |-> "open"]
    BY DEF Init, Verdict
  <2> QED BY <2>1, <2>2 DEF Replacement!Init
<1>2. UInv /\ UInv' /\ [Next]_vars => [Replacement!Next]_<<program, verdict>>
  <2> SUFFICES ASSUME UInv, UInv', [Next]_vars
               PROVE  [Replacement!Next]_<<program, verdict>>
    OBVIOUS
  <2>0. program = target.version /\ program' = target'.version
    BY DEF UInv, Runnable
  <2>1. CASE UNCHANGED vars \/ Publish
    <3>1. UNCHANGED <<pc, outcome, target>>
      BY <2>1 DEF vars, files, attempt, Publish
    <3>2. UNCHANGED <<program, verdict>>
      BY <3>1, <2>0 DEF Verdict
    <3> QED BY <3>2
  <2>2. ASSUME NEW u \in Updaters, Step(u) \/ Crash(u)
        PROVE  [Replacement!Next]_<<program, verdict>>
    <3>1. \A v \in Updaters : v # u => Verdict(v)' = Verdict(v)
      BY <2>2, StepsAreOwn DEF UInv, Verdict
    <3>2. ASSUME NEW from, NEW to, Verdict(u) = from, Verdict(u)' = to
          PROVE  Replacement!Becomes(u, from, to)
      <4>1. verdict' = [verdict EXCEPT ![u] = to]
        BY <3>1, <3>2
      <4> QED BY <3>2, <4>1 DEF Replacement!Becomes
    <3>3. CASE Rename(u)
      <4>1. Verdict(u) = "open" /\ Verdict(u)' = "swapped"
        BY <3>3 DEF Rename, Goto, Verdict, UInv, TypeOK
      <4>2. program' \in Versions
        BY <2>0 DEF UInv, Versions
      <4>3. Replacement!Replace(u)
        BY <3>2, <4>1, <4>2 DEF Replacement!Replace
      <4> QED BY <4>3 DEF Replacement!Next
    <3>4. CASE ~Rename(u)
      <4>1. UNCHANGED program
        BY <2>0, <2>2, <3>4, TargetNext
      <4>2. CASE Announce(u)
        <5>1. pc[u] = "returning" /\ pc'[u] = "over" /\ outcome'[u] = outcome[u]
          BY <4>2 DEF Announce, Goto, UInv, TypeOK
        <5>2. \/ Verdict(u) = "swapped" /\ Verdict(u)' = "replaced"
              \/ Verdict(u) = "open" /\ Verdict(u)' = "left"
          BY <5>1 DEF Verdict
        <5>3. Replacement!Say(u)
          BY <3>2, <4>1, <5>2 DEF Replacement!Say
        <5> QED BY <5>3 DEF Replacement!Next
      <4>3. CASE Crash(u)
        <5>1. pc[u] \notin {"over", "dead"} /\ pc'[u] = "dead"
          BY <4>3 DEF Crash, UInv, TypeOK
        <5>2. Verdict(u) \in {"open", "swapped"} /\ Verdict(u)' = "killed"
          BY <5>1 DEF Verdict
        <5>3. Replacement!Die(u)
          BY <3>2, <4>1, <5>2 DEF Replacement!Die
        <5> QED BY <5>3 DEF Replacement!Next
      <4>4. CASE ~Announce(u) /\ ~Crash(u)
        <5>1. Verdict(u)' = Verdict(u)
          BY <2>2, <3>4, <4>4 DEF Step, Goto, Returns, Locate, LocateRefuses, List,
             ListRefuses, Download, Verify, VerifyFails, NetworkFails, Create,
             Write, SetPermissions, Finish, ReplaceFails, UInv, TypeOK, Progress,
             Verdict, attempt
        <5>2. verdict' = verdict
          BY <3>1, <5>1
        <5> QED BY <4>1, <5>2
      <4> QED BY <4>2, <4>3, <4>4
    <3> QED BY <3>3, <3>4
  <2> QED
    BY <2>1, <2>2 DEF Next
<1> QED
  BY <1>1, <1>2, Invariant, PTL DEF Spec, SwapsOrLeaves, Replacement!Spec

-----------------------------------------------------------------------------
(***************************************************************************)
(* The background update check, for any number of runs, any interval and   *)
(* clock, and any mishaps.                                                 *)
(***************************************************************************)

Checks == [whole : BOOLEAN, checked_at : 0..MaxTime, latest : ReleasesSeen]

\* What a record names without calling it a pre-release has been released.
Real(latest) == latest.number # 0 /\ ~latest.pre => latest.number \in finals

Founded ==
  /\ Real(published) /\ Real(file.latest)
  /\ \A r \in Runs : Real(asking[r].latest)

\* While nobody has touched the clock, a record that says when it was made says
\* when the server was really asked.  Once set back the clock stays behind.
AskedAt(moment) == \E q \in requests : q.at = moment

Dated ==
  /\ time <= elapsed
  /\ time = elapsed =>
       /\ file.whole => AskedAt(file.checked_at)
       /\ \A r \in Runs : stage[r] \in {"asking", "storing", "writing"} =>
                          AskedAt(asking[r].checked_at)

CInv == CheckTypeOK /\ Founded

LEMMA MissingIsCheck ==
  ASSUME NEW now \in 0..MaxTime
  PROVE  /\ Missing \in Checks
         /\ [Missing EXCEPT !.checked_at = now] \in Checks
         /\ [Missing EXCEPT !.checked_at = now].latest = Nothing
<1>1. Missing \in Checks
  BY CheckAssumption DEF Checks, Missing, ReleasesSeen, Nothing
<1>2. Missing.latest = Nothing
  BY DEF Missing
<1>3. \A check \in Checks :
        /\ [check EXCEPT !.checked_at = now] \in Checks
        /\ [check EXCEPT !.checked_at = now].latest = check.latest
  BY DEF Checks
<1> QED BY <1>1, <1>2, <1>3

\* A footer is nothing, or a proper release ahead of the version that reports it.
LEMMA FooterIsAhead ==
  ASSUME NEW check \in Checks, NEW current \in Nat
  PROVE  /\ Footer(check, current) \in 0..LastRelease
         /\ Footer(check, current) # 0 =>
              /\ Footer(check, current) > current
              /\ Footer(check, current) = check.latest.number /\ ~check.latest.pre
<1>1. check.latest.number \in 0..LastRelease /\ check.whole \in BOOLEAN
  BY CheckAssumption DEF Checks, ReleasesSeen
<1>2. \/ Footer(check, current) = 0
      \/ /\ Footer(check, current) = check.latest.number
         /\ check.latest.number > current /\ ~check.latest.pre
  BY DEF Footer
<1> QED BY <1>1, <1>2, CheckAssumption

LEMMA CheckInvInit == CheckInit => CInv
<1> SUFFICES ASSUME CheckInit PROVE CInv
  OBVIOUS
<1>1. Missing \in Checks /\ Missing.latest.number = 0 /\ Nothing \in ReleasesSeen
  BY CheckAssumption, MissingIsCheck DEF Missing, Nothing, ReleasesSeen
<1>2. CheckTypeOK
  <2>1. published \in ReleasesSeen /\ installed \in 1..published.number
    BY CheckAssumption DEF CheckInit, ReleasesSeen
  <2>2. file \in Checks /\ asking \in [Runs -> Checks]
    BY <1>1 DEF CheckInit
  <2>3. time \in 0..MaxTime /\ elapsed \in 0..MaxTime
    BY CheckAssumption DEF CheckInit
  <2>4. /\ stage \in [Runs -> {"idle", "reported", "asking", "storing", "writing", "done", "dead"}]
        /\ footer \in [Runs -> 0..LastRelease] /\ finals \subseteq 1..LastRelease
    BY CheckAssumption DEF CheckInit
  <2>5. /\ requests \subseteq [run : Runs, at : 0..MaxTime] /\ disturbed \in BOOLEAN
        /\ heard \in ReleasesSeen
    BY <1>1 DEF CheckInit
  <2> QED BY <2>1, <2>2, <2>3, <2>4, <2>5 DEF CheckTypeOK, Checks
<1>3. Founded
  BY <1>1 DEF CheckInit, Founded, Real
<1> QED
  BY <1>2, <1>3 DEF CInv

LEMMA CheckInvNext == CInv /\ [CheckNext]_checkVars => CInv'
<1> SUFFICES ASSUME CInv, [CheckNext]_checkVars PROVE CInv'
  OBVIOUS
<1> USE CheckAssumption DEF CInv, CheckTypeOK, Founded, Real, world, kept, RunGoto
<1>0. file \in Checks /\ asking \in [Runs -> Checks]
  BY DEF Checks
<1>1. CASE UNCHANGED checkVars
  BY <1>1 DEF checkVars
<1>2. CASE PassTime
  BY <1>2 DEF PassTime
<1>3. CASE SetBack
  BY <1>3 DEF SetBack
<1>4. CASE Release
  <2>1. published'.number \in 1..LastRelease /\ published.number <= published'.number
    BY <1>4 DEF Release, ReleasesSeen
  <2>2. finals' \subseteq 1..LastRelease /\ Real(published)' /\ finals \subseteq finals'
    BY <1>4, <2>1 DEF Release
  <2> QED BY <1>4, <2>1, <2>2 DEF Release, ReleasesSeen
<1>5. CASE Upgrade
  BY <1>5 DEF Upgrade, ReleasesSeen
<1>6. ASSUME NEW r \in Runs, RunStep(r) \/ RunCrash(r) PROVE CInv'
  <2>1. CASE RunReport(r)
    <3>1. Footer(file, installed) \in 0..LastRelease
      BY <1>0, FooterIsAhead DEF ReleasesSeen
    <3> HIDE DEF Footer
    <3> QED BY <2>1, <3>1 DEF RunReport
  <2>2. CASE NotAllowed(r)
    BY <2>2 DEF NotAllowed
  <2>3. CASE NotDue(r)
    BY <2>3 DEF NotDue
  <2>4. CASE Ask(r)
    <3> DEFINE blank == [Missing EXCEPT !.checked_at = time]
    <3>1. blank \in Checks /\ blank.latest.number = 0
      BY MissingIsCheck DEF Nothing
    <3>2. asking' = [asking EXCEPT ![r] = blank]
      BY <2>4 DEF Ask
    <3> HIDE DEF blank
    <3>3. asking' \in [Runs -> Checks]
      BY <1>0, <3>1, <3>2
    <3>4. \A p \in Runs : Real(asking[p].latest)'
      BY <1>0, <2>4, <3>1, <3>2 DEF Ask
    <3> QED BY <2>4, <3>3, <3>4 DEF Ask, Checks
  <2>5. CASE Answered(r)
    <3>1. heard' \in ReleasesSeen /\ Real(heard')
      BY <2>5 DEF Answered, ReleasesSeen, Nothing
    <3>2. /\ asking' \in [Runs -> Checks]
          /\ asking'[r].latest = heard'
          /\ \A p \in Runs \ {r} : asking'[p] = asking[p]
      BY <1>0, <2>5, <3>1 DEF Answered, Checks
    <3> QED BY <2>5, <3>1, <3>2 DEF Answered, Checks
  <2>6. CASE Truncate(r)
    BY <2>6, MissingIsCheck DEF Truncate, Missing, Nothing, Checks, ReleasesSeen
  <2>7. CASE WriteOver(r)
    <3>1. file' \in {asking[r], Missing}
      BY <2>7 DEF WriteOver
    <3>2. Missing \in Checks /\ Missing.latest.number = 0
      BY MissingIsCheck DEF Missing, Nothing
    <3>3. file' \in Checks /\ Real(file'.latest)
      BY <1>0, <3>1, <3>2
    <3> QED BY <2>7, <3>3 DEF WriteOver, Checks
  <2>8. CASE StoreFails(r)
    BY <2>8 DEF StoreFails
  <2>9. CASE RunCrash(r)
    BY <2>9 DEF RunCrash
  <2> QED
    BY <1>6, <2>1, <2>2, <2>3, <2>4, <2>5, <2>6, <2>7, <2>8, <2>9 DEF RunStep
<1> QED
  BY <1>1, <1>2, <1>3, <1>4, <1>5, <1>6 DEF CheckNext

LEMMA CheckInvariant == CheckSpec => []CInv
BY CheckInvInit, CheckInvNext, PTL DEF CheckSpec

LEMMA DatedInit == CheckInit => Dated
BY DEF CheckInit, Dated, Missing

\* No step forgets a request.
LEMMA AskedStays ==
  ASSUME NEW moment, AskedAt(moment), requests \subseteq requests'
  PROVE  AskedAt(moment)'
BY DEF AskedAt

LEMMA DatedNext == CInv /\ Dated /\ [CheckNext]_checkVars => Dated'
<1> SUFFICES ASSUME CInv, Dated, [CheckNext]_checkVars PROVE Dated'
  OBVIOUS
<1> USE CheckAssumption DEF CInv, CheckTypeOK, Dated, world, kept, RunGoto
<1>1. CASE UNCHANGED checkVars \/ PassTime \/ Release \/ Upgrade
  BY <1>1 DEF checkVars, PassTime, Release, Upgrade, AskedAt
<1>2. CASE SetBack
  BY <1>2 DEF SetBack
<1>3. ASSUME NEW r \in Runs, RunStep(r) \/ RunCrash(r) PROVE Dated'
  <2>0. UNCHANGED <<time, elapsed>> /\ requests \subseteq requests'
    BY <1>3 DEF RunStep, RunReport, NotAllowed, NotDue, Ask, Answered, Truncate, WriteOver,
       StoreFails, RunCrash
  <2>1. CASE RunReport(r) \/ NotAllowed(r) \/ NotDue(r) \/ StoreFails(r) \/ RunCrash(r)
    <3>1. UNCHANGED <<file, asking, requests>>
      BY <2>1 DEF RunReport, NotAllowed, NotDue, StoreFails, RunCrash
    <3>2. \A p \in Runs : stage'[p] \in {"asking", "storing", "writing"} =>
                          stage[p] \in {"asking", "storing", "writing"}
      BY <2>1 DEF RunReport, NotAllowed, NotDue, StoreFails, RunCrash
    <3> QED BY <2>0, <3>1, <3>2 DEF AskedAt
  <2>2. CASE Ask(r)
    <3> DEFINE blank == [Missing EXCEPT !.checked_at = time]
    <3>1. blank.checked_at = time
      BY DEF Missing
    <3>2. asking' = [asking EXCEPT ![r] = blank]
      BY <2>2 DEF Ask
    <3> HIDE DEF blank
    <3>3. \E q \in requests' : q.at = elapsed
      <4>1. [run |-> r, at |-> elapsed] \in requests'
        BY <2>2 DEF Ask
      <4> QED BY <4>1
    <3>4. \A p \in Runs : p # r => stage'[p] = stage[p] /\ asking'[p] = asking[p]
      BY <2>2, <3>2 DEF Ask
    <3>5. asking'[r].checked_at = time /\ file' = file
      BY <2>2, <3>1, <3>2 DEF Ask
    <3> QED BY <2>0, <3>3, <3>4, <3>5 DEF AskedAt
  <2>3. CASE Answered(r)
    <3>1. /\ stage[r] = "asking" /\ asking'[r].checked_at = asking[r].checked_at
          /\ \A p \in Runs \ {r} : asking'[p] = asking[p] /\ stage'[p] = stage[p]
          /\ UNCHANGED <<file, requests>>
      BY <2>3 DEF Answered
    <3> QED BY <2>0, <3>1 DEF AskedAt
  <2>4. CASE Truncate(r)
    <3>1. /\ stage[r] = "storing" /\ ~file'.whole
          /\ \A p \in Runs \ {r} : stage'[p] = stage[p]
          /\ UNCHANGED <<asking, requests>>
      BY <2>4 DEF Truncate, Missing
    <3> QED BY <2>0, <3>1 DEF AskedAt
  <2>5. CASE WriteOver(r)
    <3>1. /\ stage[r] = "writing" /\ stage'[r] = "done"
          /\ file' = asking[r] \/ ~file'.whole
          /\ \A p \in Runs \ {r} : stage'[p] = stage[p]
          /\ UNCHANGED <<asking, requests>>
      BY <2>5 DEF WriteOver, Missing
    <3> QED BY <2>0, <3>1 DEF AskedAt
  <2> QED
    BY <1>3, <2>1, <2>2, <2>3, <2>4, <2>5 DEF RunStep
<1> QED
  BY <1>1, <1>2, <1>3 DEF CheckNext

\* The record on disk, the clock and what the runs hold keep their types.
THEOREM UpdateCheckTypeCorrect == CheckSpec => []CheckTypeOK
<1>1. CInv => CheckTypeOK
  BY DEF CInv
<1> QED
  BY CheckInvariant, <1>1, PTL

\* For any number of runs, overlapping, killed or unable to write the file: as
\* long as nobody sets the clock back, a run only keeps silent when the server
\* was really asked less than an INTERVAL ago.
THEOREM SilenceHasGrounds == CheckSpec => SilenceIsCovered
<1>1. ASSUME CInv, Dated, [CheckNext]_checkVars
      PROVE  [\A r \in Runs : NotDue(r) /\ time = elapsed =>
                \E q \in requests : elapsed - q.at < INTERVAL]_checkVars
  <2> SUFFICES ASSUME NEW r \in Runs, NotDue(r), time = elapsed
               PROVE  \E q \in requests : elapsed - q.at < INTERVAL
    BY <1>1
  <2>1. file.whole /\ time - file.checked_at \in 0..(INTERVAL - 1)
    BY DEF NotDue, Due
  <2>2. PICK q \in requests : q.at = file.checked_at
    BY <1>1, <2>1 DEF Dated, AskedAt
  <2> QED
    BY <1>1, <2>1, <2>2, CheckAssumption DEF CInv, CheckTypeOK
<1>2. CheckSpec => []Dated
  BY CheckInvariant, DatedInit, DatedNext, PTL DEF CheckSpec
<1> QED
  BY CheckInvariant, <1>1, <1>2, PTL DEF CheckSpec, SilenceIsCovered

-----------------------------------------------------------------------------
(* The server is asked once per INTERVAL.                                   *)

Busy == {"asking", "storing", "writing"}

\* Without a disturbance there is one run at a time, and what it finds on disk,
\* or is about to put there, is dated by the last request of all.
Single == \A p, q \in UnderWay : p = q

RecordIsLatest ==
  (\A r \in Runs : stage[r] \notin Busy) =>
    /\ \A q \in requests : file.whole /\ q.at <= file.checked_at
    /\ file.latest = heard /\ (heard # Nothing => file.whole)

BusyIsLatest ==
  \A r \in Runs : stage[r] \in Busy =>
    /\ \A q \in requests : q.at <= asking[r].checked_at
    /\ stage[r] \in {"storing", "writing"} => asking[r].whole /\ asking[r].latest = heard
    /\ stage[r] = "writing" => ~file.whole

Spaced ==
  ~disturbed =>
    /\ time = elapsed /\ Single
    /\ \A q \in requests : q.at <= elapsed
    /\ AskedOnce /\ RecordIsLatest /\ BusyIsLatest

LEMMA SpacedInit == CheckInit => Spaced
BY DEF CheckInit, Missing, Spaced, Single, UnderWay, AskedOnce, RecordIsLatest, BusyIsLatest, Busy

\* What a step of a run does not disturb.
LEMMA StillCalm ==
  ASSUME CheckTypeOK, NEW r \in Runs, RunStep(r) \/ RunCrash(r), ~disturbed'
  PROVE  /\ ~disturbed /\ UNCHANGED <<time, elapsed>>
         /\ stage[r] # stage'[r]
         /\ \A p \in Runs \ {r} : stage'[p] = stage[p]
         /\ RunReport(r) \/ NotAllowed(r) \/ NotDue(r) \/ Ask(r) \/ Answered(r)
            \/ Truncate(r) \/ WriteOver(r)
BY DEF CheckTypeOK, RunStep, RunReport, NotAllowed, NotDue, Ask, Answered, Truncate, WriteOver,
   StoreFails, RunCrash, RunGoto, world

LEMMA SpacedStep ==
  ASSUME CInv, Dated, Spaced, NEW r \in Runs, RunStep(r) \/ RunCrash(r), ~disturbed'
  PROVE  Spaced'
<1> USE CheckAssumption DEF RunGoto, UnderWay
<1>0. /\ CheckTypeOK /\ ~disturbed /\ UNCHANGED <<time, elapsed>>
      /\ time = elapsed /\ Single /\ AskedOnce /\ RecordIsLatest /\ BusyIsLatest
      /\ \A q \in requests : q.at <= elapsed
      /\ \A p \in Runs \ {r} : stage'[p] = stage[p]
  BY StillCalm DEF CInv, Spaced
<1>1. /\ elapsed \in Int /\ file.checked_at \in Int /\ file.whole \in BOOLEAN
      /\ \A p \in Runs : asking[p].checked_at \in Int /\ asking[p].whole \in BOOLEAN
      /\ \A q \in requests : q.at \in Int
  BY <1>0 DEF CheckTypeOK
<1>2. /\ stage \in [Runs -> {"idle", "reported", "asking", "storing", "writing", "done", "dead"}]
      /\ asking \in [Runs -> Checks]
  BY <1>0 DEF CheckTypeOK, Checks
<1>3. CASE RunReport(r)
  <2>1. \A p \in Runs : stage[p] \in {"idle", "done", "dead"}
    BY <1>0, <1>2, <1>3 DEF RunReport
  <2>2. /\ \A p \in Runs \ {r} : stage'[p] \in {"idle", "done", "dead"}
        /\ stage'[r] = "reported" /\ UNCHANGED <<file, asking, requests, heard>>
    BY <1>0, <1>2, <1>3, <2>1 DEF RunReport
  <2> QED
    BY <1>0, <2>1, <2>2 DEF Spaced, Single, AskedOnce, RecordIsLatest, BusyIsLatest, Busy
<1>4. CASE ~RunReport(r)
  <2>0. /\ stage[r] \notin {"idle", "done", "dead"}
        /\ \A p \in Runs \ {r} : stage[p] \in {"idle", "done", "dead"}
        /\ \A p \in Runs \ {r} : stage'[p] \in {"idle", "done", "dead"}
    <3>1. stage[r] \notin {"idle", "done", "dead"}
      BY <1>0, <1>4, StillCalm DEF NotAllowed, NotDue, Ask, Answered, Truncate, WriteOver
    <3> QED BY <1>0, <3>1 DEF Single
  <2>1. Single'
    BY <2>0 DEF Single
  <2>2. CASE NotAllowed(r) \/ NotDue(r)
    <3>1. /\ stage[r] = "reported" /\ stage'[r] = "done"
          /\ UNCHANGED <<file, asking, requests, heard>>
      BY <1>2, <2>2 DEF NotAllowed, NotDue
    <3> QED
      BY <1>0, <2>0, <2>1, <3>1 DEF Spaced, AskedOnce, RecordIsLatest, BusyIsLatest, Busy
  <2>3. CASE Ask(r)
    <3> DEFINE new == [run |-> r, at |-> elapsed]
               blank == [Missing EXCEPT !.checked_at = time]
    <3>1. /\ stage[r] = "reported" /\ stage'[r] = "asking" /\ UNCHANGED file
          /\ requests' = requests \cup {new} /\ asking'[r].checked_at = time
      <4>1. blank.checked_at = time
        BY DEF Missing
      <4>2. asking' = [asking EXCEPT ![r] = blank]
        BY <2>3 DEF Ask
      <4> HIDE DEF blank
      <4> QED BY <1>2, <2>3, <4>1, <4>2 DEF Ask
    <3>2. \A q \in requests : file.whole /\ q.at <= file.checked_at
      BY <1>0, <2>0, <3>1 DEF RecordIsLatest, Busy
    <3>3. \A q \in requests : q.at + INTERVAL <= elapsed
      <4> TAKE q \in requests
      <4>1. Due(file, time) /\ file.whole /\ q.at <= file.checked_at
        BY <2>3, <3>2 DEF Ask
      <4>2. \/ time - file.checked_at < 0
            \/ time - file.checked_at >= INTERVAL
        BY <1>0, <1>1, <4>1 DEF Due
      <4>3. file.checked_at <= elapsed
        BY <1>0, <4>1 DEF Dated, AskedAt
      <4> QED BY <1>0, <1>1, <4>1, <4>2, <4>3
    <3>4. AskedOnce'
      <4> SUFFICES ASSUME NEW p \in requests', NEW q \in requests', p # q
                   PROVE  p.at - q.at \notin 0..(INTERVAL - 1)
        BY DEF AskedOnce
      <4>1. CASE p \in requests /\ q \in requests
        BY <1>0, <4>1 DEF AskedOnce
      <4>2. CASE p = new /\ q \in requests
        BY <1>1, <3>3, <4>2
      <4>3. CASE q = new /\ p \in requests
        BY <1>1, <3>3, <4>3
      <4> QED BY <3>1, <4>1, <4>2, <4>3
    <3>5. \A q \in requests' : q.at <= elapsed
      BY <1>0, <1>1, <3>1
    <3> QED
      BY <1>0, <2>0, <2>1, <3>1, <3>4, <3>5 DEF Spaced, RecordIsLatest, BusyIsLatest, Busy
  <2>4. CASE Answered(r)
    <3>1. /\ stage[r] = "asking" /\ stage'[r] = "storing" /\ UNCHANGED <<file, requests>>
          /\ asking'[r].checked_at = asking[r].checked_at /\ asking'[r].whole
          /\ asking'[r].latest = heard'
      BY <1>2, <2>4 DEF Answered, Checks
    <3> QED
      BY <1>0, <2>0, <2>1, <3>1 DEF Spaced, AskedOnce, RecordIsLatest, BusyIsLatest, Busy
  <2>5. CASE Truncate(r)
    <3>1. /\ stage[r] = "storing" /\ stage'[r] = "writing"
          /\ UNCHANGED <<asking, requests, heard>> /\ ~file'.whole
      BY <1>2, <2>5 DEF Truncate, Missing
    <3> QED
      BY <1>0, <2>0, <2>1, <3>1 DEF Spaced, AskedOnce, RecordIsLatest, BusyIsLatest, Busy
  <2>6. CASE WriteOver(r)
    <3>1. /\ stage[r] = "writing" /\ stage'[r] = "done"
          /\ UNCHANGED <<asking, requests, heard>>
      BY <1>2, <2>6 DEF WriteOver
    <3>2. /\ asking[r].whole /\ asking[r].latest = heard
          /\ \A q \in requests : q.at <= asking[r].checked_at
          /\ ~file.whole
      BY <1>0, <3>1 DEF BusyIsLatest, Busy
    <3>3. file' = asking[r]
      BY <2>6, <3>2 DEF WriteOver
    <3> QED
      BY <1>0, <2>0, <2>1, <3>1, <3>2, <3>3 DEF Spaced, AskedOnce, RecordIsLatest,
         BusyIsLatest, Busy
  <2> QED
    BY <1>4, <2>2, <2>3, <2>4, <2>5, <2>6, StillCalm DEF CInv
<1> QED
  BY <1>3, <1>4

LEMMA SpacedNext == CInv /\ Dated /\ Spaced /\ [CheckNext]_checkVars => Spaced'
<1> SUFFICES ASSUME CInv, Dated, Spaced, [CheckNext]_checkVars, ~disturbed' PROVE Spaced'
  BY DEF Spaced
<1>1. CASE UNCHANGED checkVars \/ Release \/ Upgrade
  <2>1. UNCHANGED <<time, elapsed, file, stage, asking, requests, heard, disturbed>>
    BY <1>1 DEF checkVars, world, kept, Release, Upgrade
  <2> QED
    BY <2>1 DEF Spaced, Single, UnderWay, AskedOnce, RecordIsLatest, BusyIsLatest
<1>2. CASE PassTime
  <2>1. /\ UNCHANGED <<file, stage, asking, requests, heard, disturbed>>
        /\ time' = time + 1 /\ elapsed' = elapsed + 1
    BY <1>2 DEF PassTime, kept
  <2>2. elapsed \in Int /\ \A q \in requests : q.at \in Int
    BY DEF CInv, CheckTypeOK
  <2> QED
    BY <2>1, <2>2 DEF Spaced, Single, UnderWay, AskedOnce, RecordIsLatest, BusyIsLatest
<1>3. CASE SetBack
  BY <1>3 DEF SetBack
<1>4. ASSUME NEW r \in Runs, RunStep(r) \/ RunCrash(r) PROVE Spaced'
  BY <1>4, SpacedStep
<1> QED
  BY <1>1, <1>2, <1>3, <1>4 DEF CheckNext

\* As long as runs neither overlap nor fail to write the file, and nobody sets the
\* clock, the server is asked once per INTERVAL, however many runs there are: also
\* when it does not answer, and through the moment when the file is truncated.
THEOREM AskedOncePerInterval == CheckSpec => []OncePerInterval
<1>1. CheckSpec => []Dated
  BY CheckInvariant, DatedInit, DatedNext, PTL DEF CheckSpec
<1>2. CheckSpec => []Spaced
  BY CheckInvariant, <1>1, SpacedInit, SpacedNext, PTL DEF CheckSpec
<1>3. Spaced => OncePerInterval
  BY DEF Spaced, OncePerInterval
<1> QED
  BY <1>2, <1>3, PTL

\* A footer offers no pre-release, nothing that is not out and nothing the program
\* already has, for any number of runs that share update.json, killed, overlapping,
\* with writes that tear; and as long as they neither overlap nor fail to write, the
\* next report offers what the last answer named.
THEOREM FooterIsHonest == CheckSpec => FooterTellsTheNews
<1>1. CheckSpec => []Dated
  BY CheckInvariant, DatedInit, DatedNext, PTL DEF CheckSpec
<1>2. CheckSpec => []Spaced
  BY CheckInvariant, <1>1, SpacedInit, SpacedNext, PTL DEF CheckSpec
<1>3. ASSUME CInv, Spaced, [CheckNext]_checkVars
      PROVE  [\A r \in Runs : RunReport(r) =>
                /\ footer'[r] # 0 => footer'[r] \in finals /\ footer'[r] > installed
                /\ ~disturbed' /\ ~heard.pre /\ heard.number > installed =>
                     footer'[r] = heard.number]_checkVars
  <2> SUFFICES ASSUME NEW r \in Runs, RunReport(r)
               PROVE  /\ footer'[r] # 0 => footer'[r] \in finals /\ footer'[r] > installed
                      /\ ~disturbed' /\ ~heard.pre /\ heard.number > installed =>
                           footer'[r] = heard.number
    BY <1>3
  <2>1. file \in Checks /\ installed \in Nat /\ installed > 0
    BY <1>3, CheckAssumption DEF CInv, CheckTypeOK, Checks, ReleasesSeen
  <2>2. footer'[r] = Footer(file, installed)
    BY <1>3 DEF RunReport, CInv, CheckTypeOK
  <2>3. footer'[r] # 0 => footer'[r] \in finals /\ footer'[r] > installed
    BY <1>3, <2>1, <2>2, FooterIsAhead DEF CInv, Founded, Real
  <2>4. ASSUME ~disturbed', ~heard.pre, heard.number > installed
        PROVE  footer'[r] = heard.number
    <3>1. ~disturbed /\ \A p \in Runs : stage[p] \notin Busy
      BY <2>4 DEF RunReport, UnderWay, Busy
    <3>2. file.latest = heard /\ (heard # Nothing => file.whole)
      BY <1>3, <3>1 DEF Spaced, RecordIsLatest
    <3>3. heard # Nothing
      BY <2>1, <2>4 DEF Nothing
    <3> QED BY <2>2, <2>4, <3>2, <3>3 DEF Footer
  <2> QED BY <2>3, <2>4
<1> QED
  BY CheckInvariant, <1>2, <1>3, PTL DEF CheckSpec, FooterTellsTheNews

=============================================================================
