------------------------------ MODULE Verdict -------------------------------
(***************************************************************************)
(* What a caller of Ladder::run is promised: some time passes, never more  *)
(* than the bound, and then one report comes back that blames the first    *)
(* stage which did not pass and claims nothing about the stages behind it. *)
(***************************************************************************)
EXTENDS Naturals

CONSTANTS
  Bound,     \* the longest a run may take
  Statuses   \* the HTTP statuses a reply can have

VARIABLES elapsed, answer

Silence ==
  [link |-> "none", gateway |-> "none", dns |-> "none", http |-> "none",
   state |-> "Unknown", login |-> "none", status |-> "none"]

\* A stage failed, those before it passed, and nothing is known beyond.
Blame(link, gateway, dns, state) ==
  [link : {link}, gateway : {gateway}, dns : {dns}, http : {"none"},
   state : {state}, login : {"none"}, status : {"none"}]

BrokenBeforeHttp ==
  Blame("failed", "none", "none", "LinkDown")
    \cup Blame("ok", "failed", "none", "GatewayUnreachable")
    \cup Blame("ok", "ok", "failed", "DnsFailure")

\* Behind working DNS the machine is online or behind a portal; a login page
\* is only named for a portal that replied, and a status only for a reply.
Judged ==
  { a \in [link : {"ok"}, gateway : {"ok"}, dns : {"ok"}, http : {"ok", "failed"},
           state : {"Online", "CaptivePortal"},
           login : {"none", "location", "probe_url"},
           status : Statuses \cup {"none"}] :
      /\ a.login # "none" => a.http = "ok" /\ a.state = "CaptivePortal"
      /\ a.status # "none" <=> a.http = "ok" }

Init == elapsed = 0 /\ answer = Silence

Wait ==
  /\ answer = Silence
  /\ elapsed' = elapsed + 1 /\ elapsed' <= Bound
  /\ UNCHANGED answer

Reply ==
  /\ answer = Silence
  /\ answer' \in BrokenBeforeHttp \cup Judged
  /\ UNCHANGED elapsed

Next == Wait \/ Reply

Spec == Init /\ [][Next]_<<elapsed, answer>>

=============================================================================
