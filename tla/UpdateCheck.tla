---------------------------- MODULE UpdateCheck -----------------------------
(***************************************************************************)
(* The background update check: `known_update` and `refresh_update_check`  *)
(* of src/main.rs over src/update/check.rs.  A run prints its report, with *)
(* a footer from what update.json already says, and only then, when the    *)
(* last check is a day old, asks for the latest release and writes the     *)
(* file over.  Runs share the file; the program may be upgraded, and the   *)
(* clock set, between them.                                                *)
(***************************************************************************)
EXTENDS Integers, FiniteSets

CONSTANTS
  Runs,         \* runs of the program, each made at most once
  INTERVAL,     \* INTERVAL_SECONDS, in units of the clock
  MaxTime,      \* bound on the clock
  LastRelease,  \* bound on the releases: 1..LastRelease
  Overlap,      \* bound on how many runs are under way at once
  CheckMishaps  \* what may go wrong: subset of {"crash", "store", "clock"}

ASSUME CheckAssumption ==
  /\ INTERVAL \in Nat \ {0} /\ MaxTime \in Nat /\ LastRelease \in Nat \ {0}
  /\ Overlap \in Nat /\ CheckMishaps \subseteq {"crash", "store", "clock"}

VARIABLES
  time,      \* the wall clock
  elapsed,   \* the time that really passed
  published, \* the newest release, and whether it is a pre-release
  finals,    \* history: what was ever published as more than a pre-release
  installed, \* the version of the program on disk
  file,      \* update.json
  stage,     \* how far each run is
  footer,    \* what the report offered; 0 if it offered nothing
  asking,    \* what the run brings back, and when it says it asked
  requests,  \* history: when the server was asked
  heard,     \* history: what the last of them brought
  disturbed  \* history: runs overlapped, or a mishap came in between

world == <<time, elapsed, published, finals, installed>>
checkVars == <<world, file, stage, footer, asking, requests, heard, disturbed>>

\* A Check: checked_at, and the release seen, 0 when the check failed.
ReleasesSeen == [number : 0..LastRelease, pre : BOOLEAN]
Nothing == [number |-> 0, pre |-> FALSE]
Missing == [whole |-> FALSE, checked_at |-> 0, latest |-> Nothing]

-----------------------------------------------------------------------------
(* The pure parts of check.rs.                                             *)

Due_LateByOne(check, now) ==
  ~check.whole \/ now - check.checked_at \notin 0..INTERVAL

Due(check, now) == ~check.whole \/ now - check.checked_at \notin 0..(INTERVAL - 1)

Footer_AnyNews(check, current) ==
  IF check.whole /\ check.latest.number > current THEN check.latest.number ELSE 0

\* version::compare says Upgrade.
Footer(check, current) ==
  IF check.whole /\ ~check.latest.pre /\ check.latest.number > current
    THEN check.latest.number ELSE 0

-----------------------------------------------------------------------------
CheckInit ==
  /\ time = 0 /\ elapsed = 0
  /\ published = [number |-> 1, pre |-> FALSE] /\ finals = {1} /\ installed = 1
  /\ file = Missing
  /\ stage = [r \in Runs |-> "idle"]
  /\ footer = [r \in Runs |-> 0]
  /\ asking = [r \in Runs |-> Missing]
  /\ requests = {} /\ heard = Nothing
  /\ disturbed = FALSE

UnderWay == {r \in Runs : stage[r] \notin {"idle", "done", "dead"}}

RunGoto(r, from, to) == stage[r] = from /\ stage' = [stage EXCEPT ![r] = to]

\* known_update, and the report with its footer.
RunReport(r) ==
  /\ Cardinality(UnderWay) < Overlap
  /\ RunGoto(r, "idle", "reported")
  /\ footer' = [footer EXCEPT ![r] = Footer(file, installed)]
  /\ disturbed' = (disturbed \/ UnderWay # {})
  /\ UNCHANGED <<world, file, asking, requests, heard>>

\* --json, or NETINSPECT_NO_UPDATE_CHECK.
NotAllowed(r) ==
  /\ RunGoto(r, "reported", "done")
  /\ UNCHANGED <<world, file, footer, asking, requests, heard, disturbed>>

NotDue(r) ==
  /\ ~Due(file, time)
  /\ RunGoto(r, "reported", "done")
  /\ UNCHANGED <<world, file, footer, asking, requests, heard, disturbed>>

\* Due: the request goes out.
Ask(r) ==
  /\ Due(file, time)
  /\ RunGoto(r, "reported", "asking")
  /\ asking' = [asking EXCEPT ![r] = [Missing EXCEPT !.checked_at = time]]
  /\ requests' = requests \cup {[run |-> r, at |-> elapsed]}
  /\ UNCHANGED <<world, file, footer, heard, disturbed>>

\* The server answers, or the check fails; a failure is recorded as well.
Answered(r) ==
  /\ RunGoto(r, "asking", "storing")
  /\ heard' \in {published, Nothing}
  /\ asking' = [asking EXCEPT ![r].whole = TRUE, ![r].latest = heard']
  /\ UNCHANGED <<world, file, footer, requests, disturbed>>

\* check::store truncates the file and then writes it.
Truncate(r) ==
  /\ RunGoto(r, "storing", "writing")
  /\ file' = Missing
  /\ UNCHANGED <<world, footer, asking, requests, heard, disturbed>>

WriteOver_SuccessOnly(r) ==
  /\ RunGoto(r, "writing", "done")
  /\ file' = IF asking[r].latest = Nothing THEN Missing ELSE asking[r]
  /\ UNCHANGED <<world, footer, asking, requests, heard, disturbed>>

\* Over a record written in the meantime it may leave that one's tail.
WriteOver(r) ==
  /\ RunGoto(r, "writing", "done")
  /\ file' \in {asking[r]} \cup IF file.whole THEN {Missing} ELSE {}
  /\ UNCHANGED <<world, footer, asking, requests, heard, disturbed>>

\* A file that cannot be opened or written is not reported.
StoreFails(r) ==
  /\ "store" \in CheckMishaps
  /\ RunGoto(r, "storing", "done") \/ RunGoto(r, "writing", "done")
  /\ UNCHANGED <<world, file, footer, asking, requests, heard>>
  /\ disturbed' = TRUE

RunCrash(r) ==
  /\ "crash" \in CheckMishaps /\ r \in UnderWay
  /\ stage' = [stage EXCEPT ![r] = "dead"]
  /\ UNCHANGED <<world, file, footer, asking, requests, heard>>
  /\ disturbed' = TRUE

-----------------------------------------------------------------------------
(* The world between and around the runs.                                  *)

Calm == UnderWay = {}

\* What the world does to a run.
kept == <<file, stage, footer, asking, requests, heard>>

PassTime ==
  /\ elapsed < MaxTime /\ time < MaxTime
  /\ time' = time + 1 /\ elapsed' = elapsed + 1
  /\ UNCHANGED <<published, finals, installed, kept, disturbed>>

\* The clock is set back between runs.
SetBack ==
  /\ "clock" \in CheckMishaps /\ Calm
  /\ time' \in 0..(time - 1)
  /\ disturbed' = TRUE
  /\ UNCHANGED <<elapsed, published, finals, installed, kept>>

\* The next release, or the one its release candidates led to.
Release ==
  /\ published' \in ReleasesSeen
  /\ \/ published'.number = published.number + 1
     \/ published.pre /\ ~published'.pre /\ published'.number = published.number
  /\ finals' = finals \cup (IF published'.pre THEN {} ELSE {published'.number})
  /\ UNCHANGED <<time, elapsed, installed, kept, disturbed>>

\* Someone installs the latest release.
Upgrade ==
  /\ installed < published.number
  /\ installed' = published.number
  /\ UNCHANGED <<time, elapsed, published, finals, kept, disturbed>>

-----------------------------------------------------------------------------
RunStep(r) ==
  \/ RunReport(r) \/ NotAllowed(r) \/ NotDue(r) \/ Ask(r) \/ Answered(r)
  \/ Truncate(r) \/ WriteOver(r) \/ StoreFails(r)

CheckNext ==
  \/ PassTime \/ SetBack \/ Release \/ Upgrade
  \/ \E r \in Runs : RunStep(r) \/ RunCrash(r)

CheckSpec == CheckInit /\ [][CheckNext]_checkVars

-----------------------------------------------------------------------------
(* Properties.                                                             *)

CheckTypeOK ==
  /\ time \in 0..MaxTime /\ elapsed \in 0..MaxTime
  /\ published \in ReleasesSeen /\ installed \in 1..published.number
  /\ file \in [whole : BOOLEAN, checked_at : 0..MaxTime, latest : ReleasesSeen]
  /\ stage \in [Runs -> {"idle", "reported", "asking", "storing", "writing", "done", "dead"}]
  /\ footer \in [Runs -> 0..LastRelease] /\ finals \subseteq 1..LastRelease
  /\ asking \in [Runs -> [whole : BOOLEAN, checked_at : 0..MaxTime, latest : ReleasesSeen]]
  /\ requests \subseteq [run : Runs, at : 0..MaxTime] /\ heard \in ReleasesSeen
  /\ disturbed \in BOOLEAN

\* A footer never offers a pre-release, what is not out, or what the program that
\* prints it already has, even when it was upgraded since the check and whatever
\* happened to the file.  Nor does it keep back what the last answer said, as long
\* as runs do not overlap and can write the file.
FooterTellsTheNews ==
  [][\A r \in Runs : RunReport(r) =>
       /\ footer'[r] # 0 => footer'[r] \in finals /\ footer'[r] > installed
       /\ ~disturbed' /\ ~heard.pre /\ heard.number > installed =>
            footer'[r] = heard.number]_checkVars

AskedOnce ==
  \A p, q \in requests : p # q => p.at - q.at \notin 0..(INTERVAL - 1)

\* As long as runs do not overlap and can write the file, the server is asked
\* once per INTERVAL, even if it does not answer or only has failures to tell.
OncePerInterval == ~disturbed => AskedOnce

\* A run that finds the check not due keeps silent on good grounds: the server
\* was really asked less than an INTERVAL ago (if nobody touched the clock;
\* concurrent and killed runs change nothing about it).
SilenceIsCovered ==
  [][\A r \in Runs : NotDue(r) /\ time = elapsed =>
       \E q \in requests : elapsed - q.at < INTERVAL]_checkVars

=============================================================================
