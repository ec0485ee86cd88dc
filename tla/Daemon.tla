------------------------------- MODULE Daemon -------------------------------
(***************************************************************************)
(* Asking a container runtime what it runs: `query`, `candidates`,         *)
(* `socket_paths` and `ask` of src/container/mod.rs with the framing of    *)
(* parse/http.rs.  The sockets of the known runtimes are tried in order,   *)
(* one request each; the reply is read until the daemon closes, a read     *)
(* times out or it grows too long, and only then judged.  A daemon may be  *)
(* wedged, slow, cut off in the middle of its reply, or talk for ever.     *)
(*                                                                         *)
(* A reply is counted in units: one for the head up to the blank line, one *)
(* for each part of the body, and one more for the last chunk of a chunked *)
(* body.                                                                   *)
(***************************************************************************)
EXTENDS Integers, FiniteSets, SequencesExt

CONSTANTS
  Daemons,       \* what may listen on a socket
  Environments,  \* DOCKER_HOST, HOME and XDG_RUNTIME_DIR
  Layouts,       \* which daemon each path leads to
  Replies,       \* how a daemon replies: status, framing, parts, and whether it ends
  TIMEOUT,       \* of each read, in ticks
  MAX_BODY,      \* in units
  BUFFER         \* what one read can bring, in units

Nobody == "nobody"
Paths == {"host", "orbstack", "colima", "rancher", "desktop", "podman", "system"}

ASSUME DaemonAssumption ==
  /\ TIMEOUT \in Nat \ {0} /\ MAX_BODY \in Nat /\ BUFFER \in Nat \ {0}
  /\ Nobody \notin Daemons
  /\ \A e \in Environments : /\ e.docker_host \in {"unset", "unix", "tcp"}
                             /\ e.home \in BOOLEAN /\ e.runtime_dir \in BOOLEAN
  /\ \A l \in Layouts : l \in [Paths -> Daemons \cup {Nobody}]
  /\ \A r \in Replies : /\ r.status \in {200, 404} /\ r.parts \in Nat
                        /\ r.framing \in {"length", "chunked", "close"}
                        /\ r.endless \in BOOLEAN

VARIABLES
  env,      \* the environment of the command
  layout,   \* where the paths lead
  reply,    \* what each daemon has to say
  pc,       \* how far the query is
  queue,    \* the candidates not yet tried
  got,      \* units received of the current reply
  waited,   \* ticks since the last read returned
  reads,    \* reads that brought something
  elapsed,  \* ticks of the current exchange
  outcome,  \* the runtime that answered, its daemon, and the parts believed
  failed    \* history: the candidates that were tried in vain

given == <<env, layout, reply>>
exchange == <<got, waited, reads, elapsed>>
vars == <<given, pc, queue, exchange, outcome, failed>>

NoAnswer == [runtime |-> "none", daemon |-> Nobody, parts |-> 0]

-----------------------------------------------------------------------------
(* Where to look.                                                          *)

Candidate(runtime, path) == [runtime |-> runtime, path |-> path]

Exists(c) == layout[c.path] # Nobody

Retained(runtime, path) ==
  IF Exists(Candidate(runtime, path)) THEN <<Candidate(runtime, path)>> ELSE <<>>

\* The sockets there are, in the order they are tried.
SocketPaths(e) ==
  (IF e.docker_host = "unix" THEN Retained("docker", "host") ELSE <<>>)
  \o (IF e.home THEN Retained("orbstack", "orbstack") \o Retained("colima", "colima")
                     \o Retained("rancher", "rancher") \o Retained("docker", "desktop")
                ELSE <<>>)
  \o (IF e.runtime_dir THEN Retained("podman", "podman") ELSE <<>>)
  \o Retained("docker", "system")

-----------------------------------------------------------------------------
(* The reply, as far as it was read.                                       *)

Total(r) == 1 + r.parts + IF r.framing = "chunked" THEN 1 ELSE 0

Complete_AnyChunk(r, n) == n >= 1 + IF r.framing = "length" THEN r.parts ELSE 0

\* `response`: the head must be there; a body without framing is all there is.
Complete(r, n) == n >= IF r.framing = "close" THEN 1 ELSE Total(r)

\* A body cut in two is no JSON, and parses as no containers at all.
Believed(r, n) == IF n >= 1 + r.parts THEN r.parts ELSE 0

-----------------------------------------------------------------------------
Init ==
  /\ env \in Environments /\ layout \in Layouts /\ reply \in [Daemons -> Replies]
  /\ pc = "start" /\ queue = <<>>
  /\ got = 0 /\ waited = 0 /\ reads = 0 /\ elapsed = 0
  /\ outcome = NoAnswer /\ failed = {}

Goto(from, to) == pc = from /\ pc' = to

Current == Head(queue)
Speaker == reply[layout[Current.path]]

ListCandidates ==
  /\ Goto("start", "next")
  /\ queue' = SocketPaths(env)
  /\ UNCHANGED <<given, exchange, outcome, failed>>

\* Connected, and the request written.
Connect ==
  /\ queue # <<>>
  /\ Goto("next", "reading")
  /\ got' = 0 /\ waited' = 0 /\ reads' = 0 /\ elapsed' = 0
  /\ UNCHANGED <<given, queue, outcome, failed>>

GiveUp_ForAll == queue' = <<>> /\ failed' = failed \cup {Current}

GiveUp == queue' = Tail(queue) /\ failed' = failed \cup {Current}

\* Nobody listens there any more, or the request cannot be written.
ConnectFails ==
  /\ pc = "next" /\ queue # <<>>
  /\ GiveUp
  /\ UNCHANGED <<given, pc, exchange, outcome>>

Sends(n) == Speaker.endless \/ got + n <= Total(Speaker)

\* A read brings something, and there is room for more.
Read ==
  /\ pc = "reading"
  /\ \E n \in 1..BUFFER :
       /\ Sends(n) /\ got + n <= MAX_BODY
       /\ got' = got + n
  /\ waited' = 0 /\ reads' = reads + 1
  /\ UNCHANGED <<given, pc, queue, elapsed, outcome, failed>>

ReadTooMuch ==
  /\ Goto("reading", "next")
  /\ \E n \in 1..BUFFER : Sends(n) /\ got + n > MAX_BODY
  /\ GiveUp
  /\ got' = 0 /\ waited' = 0 /\ reads' = 0 /\ elapsed' = 0
  /\ UNCHANGED <<given, outcome>>

\* The daemon closes, at the end of its reply or before.
Closed ==
  /\ Goto("reading", "judge")
  /\ UNCHANGED <<given, queue, exchange, outcome, failed>>

ReadTimesOut_Retries ==
  /\ pc = "reading" /\ waited = TIMEOUT /\ elapsed <= 2 * TIMEOUT * (Total(Speaker) + 1)
  /\ waited' = 0
  /\ UNCHANGED <<given, pc, queue, got, reads, elapsed, outcome, failed>>

ReadTimesOut ==
  /\ waited = TIMEOUT
  /\ Goto("reading", "judge")
  /\ UNCHANGED <<given, queue, exchange, outcome, failed>>

Usable(r, n) == r.status = 200 /\ Complete(r, n)

\* The first daemon with a usable reply is believed, whatever it says.
Believe ==
  /\ Goto("judge", "done")
  /\ Usable(Speaker, got)
  /\ outcome' = [runtime |-> Current.runtime, daemon |-> layout[Current.path],
                 parts |-> Believed(Speaker, got)]
  /\ UNCHANGED <<given, queue, exchange, failed>>

Dismiss ==
  /\ Goto("judge", "next")
  /\ ~Usable(Speaker, got)
  /\ GiveUp
  /\ UNCHANGED <<given, exchange, outcome>>

Exhausted ==
  /\ queue = <<>>
  /\ Goto("next", "done")
  /\ UNCHANGED <<given, queue, exchange, outcome, failed>>

Tick ==
  /\ pc = "reading" /\ waited < TIMEOUT
  /\ waited' = waited + 1 /\ elapsed' = elapsed + 1
  /\ UNCHANGED <<given, pc, queue, got, reads, outcome, failed>>

-----------------------------------------------------------------------------
Step ==
  \/ ListCandidates \/ Connect \/ ConnectFails \/ ReadTimesOut
  \/ Believe \/ Dismiss \/ Exhausted

\* What the daemon does.
DaemonStep == Read \/ ReadTooMuch \/ Closed

Next == Step \/ DaemonStep \/ Tick

\* The command runs and time passes; the daemon may stop answering at any time,
\* or go on for as long as it likes.
Spec == Init /\ [][Next]_vars /\ WF_vars(Step) /\ WF_vars(Tick)

-----------------------------------------------------------------------------
(* Properties.                                                             *)

TypeOK ==
  /\ env \in Environments /\ layout \in Layouts /\ reply \in [Daemons -> Replies]
  /\ pc \in {"start", "next", "reading", "judge", "done"}
  /\ ToSet(queue) \cup failed \subseteq ToSet(SocketPaths(env))
  /\ pc \in {"reading", "judge"} => queue # <<>> /\ Exists(Current)
  /\ got \in 0..MAX_BODY /\ waited \in 0..TIMEOUT /\ reads \in 0..got /\ elapsed \in Nat
  /\ outcome.runtime \in {"none", "docker", "orbstack", "colima", "rancher", "podman"}

Answered == outcome # NoAnswer

\* A list cut off on the way is never taken for the list: a framed one is
\* dismissed, an unframed one reads as no containers.
NeverPartial ==
  Answered =>
    \/ outcome.parts = reply[outcome.daemon].parts
    \/ outcome.parts = 0 /\ reply[outcome.daemon].framing = "close"

LabelIsSpecific ==
  Answered /\ outcome.runtime = "docker" =>
    \A c \in ToSet(SocketPaths(env)) :
      c.runtime # "docker" /\ layout[c.path] = outcome.daemon =>
        \/ c \in failed
        \/ env.docker_host = "unix" /\ layout["host"] = outcome.daemon
        \/ c.path = "podman" /\ layout["desktop"] = outcome.daemon

SilenceMeansNobody ==
  pc = "done" /\ ~Answered => ToSet(SocketPaths(env)) = failed

\* What the query concludes is right, and its state well-formed.  A daemon that
\* several paths lead to goes by its own name, not by "docker", unless DOCKER_HOST
\* names it, it did not answer under its own path, or it is a podman that stands in
\* for Docker Desktop, whose socket is tried first; "no runtime" is only said when
\* every socket there is was tried in vain, so that one daemon's failure, of
\* whatever kind, does not hide another's answer.
ConclusionIsRight == TypeOK /\ LabelIsSpecific /\ SilenceMeansNobody

PatienceIsPerRead == elapsed <= (reads + 1) * TIMEOUT

\* A daemon holds the command TIMEOUT for each piece of its reply and once more,
\* however slowly it replies, and in the end the query is over.
WaitIsBounded == [][PatienceIsPerRead']_vars /\ <>(pc = "done")

=============================================================================
