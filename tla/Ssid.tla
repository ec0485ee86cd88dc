-------------------------------- MODULE Ssid --------------------------------
(***************************************************************************)
(* Finding the name of the Wi-Fi network: `collect` of sys/macos/wifi.rs,  *)
(* which asks CoreWLAN, then the dynamic store, and then the helpers of    *)
(* ssid_helper.rs one after the other.  A helper is a child process that   *)
(* writes into a pipe; a thread drains the pipe while `run` polls for the  *)
(* exit and kills the child when its time is up.  A child may hang, write  *)
(* more than is read, or leave a process of its own behind that keeps the  *)
(* pipe open.                                                              *)
(***************************************************************************)
EXTENDS Integers, SequencesExt

CONSTANTS
  FAST_TIMEOUT, SLOW_TIMEOUT, \* in polls
  MAX_OUTPUT,                 \* what is read of a helper's output, in units
  CAPACITY,                   \* what the pipe holds, in units
  MaxOutput,                  \* bound on what a helper writes
  MaxWait                     \* bound on the ticks spent on one helper

Policies == {"disabled", "fast", "slow"}
Natives == <<"core_wlan", "dynamic_store">>
Helpers == <<"networksetup", "ipconfig", "system_profiler">>
Sources == Natives \o Helpers

ASSUME SsidAssumption ==
  /\ FAST_TIMEOUT \in Nat /\ SLOW_TIMEOUT \in Nat
  /\ MAX_OUTPUT \in Nat \ {0} /\ CAPACITY \in Nat \ {0}
  /\ MaxOutput \in Nat /\ MaxWait \in Nat

VARIABLES
  policy,    \* the HelperPolicy
  valid,     \* whether valid_interface_name holds of the interface
  pc,        \* how far the collection is
  queue,     \* the helpers still to be tried
  child,     \* "none", "running", or "exited" until somebody waits for it
  held,      \* whether another process has the pipe's writing end
  output,    \* the child's output: its length and where the name is; 0 if nowhere
  wrote,     \* how much of it is written
  pipe,      \* how much of that is still in the pipe
  buf,       \* how much the reader has
  reader,    \* "none", "reading" or "done"
  elapsed,   \* ticks since the child was started
  polled,    \* whether it was polled in this tick
  finished,  \* whether the poll saw it exit
  outcome,   \* where the name came from; "none" if there is none
  silent,    \* history: the sources that were asked in vain
  killed,    \* history: the helpers that were killed
  started    \* history: the helpers that were started

question == <<policy, valid>>
process == <<child, held, output, wrote>>
drain == <<pipe, buf, reader>>
wait == <<elapsed, polled, finished>>
history == <<silent, killed, started>>
vars == <<question, pc, queue, process, drain, wait, outcome, history>>

-----------------------------------------------------------------------------
Init ==
  /\ policy \in Policies /\ valid \in BOOLEAN
  /\ pc = "radio" /\ queue = <<>>
  /\ child = "none" /\ held = FALSE /\ output = [size |-> 0, at |-> 0] /\ wrote = 0
  /\ pipe = 0 /\ buf = 0 /\ reader = "none"
  /\ elapsed = 0 /\ polled = FALSE /\ finished = FALSE
  /\ outcome = "none"
  /\ silent = {} /\ killed = {} /\ started = {}

Goto(from, to) == pc = from /\ pc' = to

Found(source) ==
  /\ outcome' = source
  /\ UNCHANGED <<question, queue, process, drain, wait, history>>

Vain(source) == silent' = silent \cup {source} /\ UNCHANGED <<killed, started>>

\* No Wi-Fi interface at all.
NoRadio ==
  /\ Goto("radio", "done")
  /\ UNCHANGED <<question, queue, process, drain, wait, outcome, history>>

RadioKnows == Goto("radio", "done") /\ Found("core_wlan")

RadioBlank ==
  /\ Goto("radio", "store")
  /\ Vain("core_wlan")
  /\ UNCHANGED <<question, queue, process, drain, wait, outcome>>

\* SSID_STR, or the scan record next to it.
StoreKnows == Goto("store", "done") /\ Found("dynamic_store")

Candidates_AlwaysSlow == IF policy = "disabled" \/ ~valid THEN <<>> ELSE Helpers

Candidates ==
  IF policy = "disabled" \/ ~valid THEN <<>>
  ELSE IF policy = "slow" THEN Helpers ELSE SubSeq(Helpers, 1, 2)

StoreBlank ==
  /\ Goto("store", "next")
  /\ Vain("dynamic_store")
  /\ queue' = Candidates
  /\ UNCHANGED <<question, process, drain, wait, outcome>>

-----------------------------------------------------------------------------
(* `run`: one helper.                                                      *)

Helper == Head(queue)
Limit == IF Helper = "system_profiler" THEN SLOW_TIMEOUT ELSE FAST_TIMEOUT

\* Not a file of root's, or it cannot be started.
CannotRun ==
  /\ pc = "next" /\ queue # <<>>
  /\ queue' = Tail(queue)
  /\ Vain(Helper)
  /\ UNCHANGED <<question, pc, process, drain, wait, outcome>>

\* What it will write, and where in it the name is, is up to the helper.
Spawn ==
  /\ queue # <<>>
  /\ Goto("next", "waiting")
  /\ child' = "running"
  /\ \E size \in 0..MaxOutput : \E at \in 0..size : output' = [size |-> size, at |-> at]
  /\ wrote' = 0 /\ held' = FALSE
  /\ pipe' = 0 /\ buf' = 0 /\ reader' = "reading"
  /\ elapsed' = 0 /\ polled' = FALSE /\ finished' = FALSE
  /\ started' = started \cup {Helper}
  /\ UNCHANGED <<question, queue, outcome, silent, killed>>

\* try_wait: it exited, and is reaped.
SeenExit ==
  /\ child = "exited" /\ ~polled
  /\ Goto("waiting", "join")
  /\ child' = "none" /\ finished' = TRUE
  /\ UNCHANGED <<question, queue, held, output, wrote, drain, elapsed, polled, outcome, history>>

SleepOn_NoDeadline ==
  /\ pc = "waiting" /\ child = "running" /\ ~polled
  /\ polled' = TRUE
  /\ UNCHANGED <<question, pc, queue, process, drain, elapsed, finished, outcome, history>>

SleepOn ==
  /\ pc = "waiting" /\ child = "running" /\ ~polled
  /\ elapsed < Limit
  /\ polled' = TRUE
  /\ UNCHANGED <<question, pc, queue, process, drain, elapsed, finished, outcome, history>>

TimeIsUp ==
  /\ child = "running" /\ ~polled /\ elapsed >= Limit
  /\ Goto("waiting", "kill")
  /\ UNCHANGED <<question, queue, process, drain, wait, outcome, history>>

TryWaitFails ==
  /\ ~polled
  /\ Goto("waiting", "kill")
  /\ UNCHANGED <<question, queue, process, drain, wait, outcome, history>>

Kill_LeavesZombie ==
  /\ Goto("kill", "join")
  /\ child' = "exited"
  /\ killed' = killed \cup {Helper}
  /\ UNCHANGED <<question, queue, held, output, wrote, drain, wait, outcome, silent, started>>

\* Killed and waited for; it may have exited in the meantime.
Kill ==
  /\ Goto("kill", "join")
  /\ child' = "none"
  /\ killed' = killed \cup {Helper}
  /\ UNCHANGED <<question, queue, held, output, wrote, drain, wait, outcome, silent, started>>

\* The line is in what was read; the property list must be there to its end.
NameRead ==
  /\ output.at \in 1..buf
  /\ Helper = "system_profiler" => buf = output.size

Usable == finished /\ NameRead

Join(to) ==
  /\ reader = "done"
  /\ Goto("join", to)
  /\ reader' = "none"
  /\ UNCHANGED <<question, process, pipe, buf, wait>>

HelperKnows ==
  /\ Join("done")
  /\ Usable
  /\ outcome' = Helper
  /\ UNCHANGED <<queue, history>>

HelperBlank ==
  /\ Join("next")
  /\ ~Usable
  /\ Vain(Helper)
  /\ queue' = Tail(queue)
  /\ UNCHANGED outcome

Exhausted ==
  /\ queue = <<>>
  /\ Goto("next", "done")
  /\ UNCHANGED <<question, queue, process, drain, wait, outcome, history>>

-----------------------------------------------------------------------------
(* The reader thread.                                                      *)

Drain ==
  /\ reader = "reading" /\ pipe > 0 /\ buf < MAX_OUTPUT
  /\ pipe' = pipe - 1 /\ buf' = buf + 1
  /\ UNCHANGED <<question, pc, queue, process, reader, wait, outcome, history>>

\* Enough was read, and the pipe is closed; or nobody can write to it any more.
AtEnd == buf = MAX_OUTPUT \/ (pipe = 0 /\ child # "running" /\ ~held)

ReaderEnds ==
  /\ reader = "reading" /\ AtEnd
  /\ reader' = "done"
  /\ UNCHANGED <<question, pc, queue, process, pipe, buf, wait, outcome, history>>

ReaderCan == reader = "reading" /\ (AtEnd \/ (pipe > 0 /\ buf < MAX_OUTPUT))

-----------------------------------------------------------------------------
(* The helper.                                                             *)

ChildWrites ==
  /\ child = "running" /\ wrote < output.size
  /\ reader = "reading" /\ pipe < CAPACITY
  /\ wrote' = wrote + 1 /\ pipe' = pipe + 1
  /\ UNCHANGED <<question, pc, queue, child, held, output, buf, reader, wait, outcome, history>>

\* At the end of its output, or writing into a pipe that is closed.
ChildExits ==
  /\ child = "running" /\ (wrote = output.size \/ reader = "done")
  /\ child' = "exited"
  /\ UNCHANGED <<question, pc, queue, held, output, wrote, drain, wait, outcome, history>>

ChildForks ==
  /\ child = "running" /\ ~held
  /\ held' = TRUE
  /\ UNCHANGED <<question, pc, queue, child, output, wrote, drain, wait, outcome, history>>

GrandchildExits ==
  /\ held
  /\ held' = FALSE
  /\ UNCHANGED <<question, pc, queue, child, output, wrote, drain, wait, outcome, history>>

\* Time passes when the program has done what it can do at once.
Tick ==
  /\ ~ReaderCan /\ elapsed < MaxWait
  /\ (pc = "waiting" /\ polled) \/ (pc = "join" /\ reader # "done")
  /\ elapsed' = elapsed + 1 /\ polled' = FALSE
  /\ UNCHANGED <<question, pc, queue, process, drain, finished, outcome, history>>

-----------------------------------------------------------------------------
Run ==
  \/ NoRadio \/ RadioKnows \/ RadioBlank \/ StoreKnows \/ StoreBlank
  \/ CannotRun \/ Spawn \/ SeenExit \/ SleepOn \/ TimeIsUp \/ TryWaitFails \/ Kill
  \/ HelperKnows \/ HelperBlank \/ Exhausted

Reader == Drain \/ ReaderEnds

Child == ChildWrites \/ ChildExits \/ ChildForks \/ GrandchildExits

Next == Run \/ Reader \/ Child \/ Tick

\* The program and its thread run and time passes; a helper need not do a thing.
Spec == Init /\ [][Next]_vars /\ WF_vars(Run) /\ WF_vars(Reader) /\ WF_vars(Tick)

-----------------------------------------------------------------------------
(* Properties.                                                             *)

TypeOK ==
  /\ policy \in Policies /\ valid \in BOOLEAN
  /\ pc \in {"radio", "store", "next", "waiting", "kill", "join", "done"}
  /\ child \in {"none", "running", "exited"} /\ reader \in {"none", "reading", "done"}
  /\ held \in BOOLEAN /\ polled \in BOOLEAN /\ finished \in BOOLEAN
  /\ output \in [size : 0..MaxOutput, at : 0..MaxOutput] /\ wrote \in 0..output.size
  /\ pipe \in 0..CAPACITY /\ buf \in 0..MAX_OUTPUT /\ buf + pipe = wrote
  /\ elapsed \in 0..MaxWait
  /\ outcome \in {"none"} \cup ToSet(Sources) /\ silent \subseteq ToSet(Sources)
  /\ killed \subseteq started /\ started \subseteq ToSet(Helpers)

NothingFromKilled == outcome \notin killed

LeavesNothingRunning ==
  pc \in {"next", "done"} => child = "none" /\ reader = "none"

KilledOnlyWhenHung ==
  pc = "kill" /\ elapsed >= Limit /\ child = "running" /\ ~ReaderCan =>
    \/ reader = "done"
    \/ pipe < CAPACITY

\* A helper is done with, however it ended: between two helpers and at the end
\* no process is left to wait for and no thread is left reading, nothing a
\* killed helper had written so far is taken for its answer, and none runs out
\* of time because its output found no room in the pipe.
HelperIsOver == LeavesNothingRunning /\ NothingFromKilled /\ KilledOnlyWhenHung

HelpersAreAllowed ==
  started # {} =>
    /\ policy # "disabled" /\ valid /\ ToSet(Natives) \subseteq silent
    /\ "system_profiler" \in started => policy = "slow"

BestSourceWins ==
  \A i \in DOMAIN Sources : Sources[i] = outcome => \A j \in 1..(i - 1) : Sources[j] \in silent

\* The name is that of the best source that has one, all before it having been
\* asked in vain; helpers are only started when the user allows them and the
\* system's own sources are blank, and slow ones only when asked for.
SourceIsRight == BestSourceWins /\ HelpersAreAllowed

OnTime == [][elapsed' > elapsed /\ elapsed' > Limit => held]_vars

\* A helper costs its timeout, by hanging, by writing on or by writing nothing:
\* time passes beyond that, and the collection fails to end, only while another
\* process keeps the pipe open.
TimelyUnlessHeld == OnTime /\ <>(pc = "done" \/ held)

=============================================================================
