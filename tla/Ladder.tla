------------------------------- MODULE Ladder -------------------------------
(***************************************************************************)
(* The staged reachability ladder of src/probe: link, gateway, dns, http,  *)
(* each stage gated on the one before it and held to a share of one        *)
(* deadline by tokio::time::timeout.  Time is counted in ticks from the    *)
(* call of Ladder::run.  The network answers whenever it likes or never;   *)
(* the runtime polls the ladder at most Lag ticks after it was woken.      *)
(***************************************************************************)
EXTENDS Integers, Sequences

CONSTANTS
  GatewayTimeout,  \* GATEWAY_TIMEOUT
  Timeout,         \* Ladder::timeout, the per-probe timeout
  Lag,             \* how late the single-threaded runtime may poll
  InterfaceLists,  \* the interface tables a run may be handed
  ServerSets,      \* the sets of configured DNS servers it may be handed
  IPs              \* the addresses a resolver may answer with

ASSUME TimesAssumption ==
  GatewayTimeout \in Nat /\ Timeout \in Nat /\ Lag \in Nat

VARIABLES
  ifaces,   \* the interface table of this run
  servers,  \* the configured DNS servers, "literal" or "garbage"
  now,      \* Instant::now()
  at,       \* the stage being run
  started,  \* when it started
  until,    \* the deadline of its `bounded`
  wake,     \* when the runtime has a reason to poll it: a timer or an answer
  flight,   \* the requests: idle, pending or ready
  answers,  \* what came back so far, whether or not the ladder has seen it
  reading,  \* send() has returned a response, and its body is awaited
  hijacked, \* Outcome::every_name_one_address
  report    \* the Reachability being filled in

input == <<ifaces, servers>>
clock == <<now, started, until>>
ladderVars == <<input, clock, at, wake, flight, answers, reading, hijacked, report>>

Stages   == {"link", "gateway", "dns", "http"}
Requests == {"connect", "probe", "control", "get"}
States   == {"Unknown", "LinkDown", "GatewayUnreachable", "DnsFailure",
             "CaptivePortal", "Online"}

\* A stage of the report is None, Some(ok) or Some(!ok).
Outcomes == {"none", "ok", "failed"}

Least(a, b) == IF a < b THEN a ELSE b

-----------------------------------------------------------------------------
(* The facts stage 1 reads off the interface table.                        *)

CarriesTraffic(address) ==
  address \notin {"garbage", "loopback", "link_local", "unspecified"}

HasLink ==
  \E i \in DOMAIN ifaces :
    ifaces[i].active /\ \E a \in ifaces[i].addresses : CarriesTraffic(a)

\* The first gateway recorded on a default-route interface is the only one
\* considered: if it does not parse there is none.
HasGateway ==
  \E i \in DOMAIN ifaces :
    /\ ifaces[i].is_default_route /\ ifaces[i].gateway = "literal"
    /\ \A j \in DOMAIN ifaces :
         j < i => ~(ifaces[j].is_default_route /\ ifaces[j].gateway # "none")

-----------------------------------------------------------------------------
(* Budgets.  The ladder starts at time 0.                                  *)

Deadline == GatewayTimeout + Timeout

Remaining == IF now < Deadline THEN Deadline - now ELSE 0

GatewayBudget == Least(GatewayTimeout, Remaining)
DnsBudget_WithoutHalving == Least(Timeout, Remaining)
DnsBudget     == Least(Timeout, Remaining \div 2)
HttpBudget    == Remaining

-----------------------------------------------------------------------------
(* Answers, reduced to what the ladder looks at.                           *)

Lookups ==
  { l \in [ok : BOOLEAN, addresses : SUBSET IPs] : ~l.ok => l.addresses = {} }

NoLookup == [ok |-> FALSE, addresses |-> {}]

SameAnswer(a, b) == a # {} /\ b # {} /\ a \subseteq b

\* resolve::probe once both lookups of its join! have ended.
DnsOutcome(probe, control) ==
  IF probe.ok /\ probe.addresses # {}
    THEN [resolved |-> TRUE,
          hijacked |-> control.ok /\ SameAnswer(probe.addresses, control.addresses)]
    ELSE [resolved |-> FALSE, hijacked |-> FALSE]

\* A reply as it is sent: its status, whether it carries a non-empty Location,
\* and whether the first kilobyte of its body is blank, has "Success", or not.
\* No 204 has a body.
Statuses == {"200", "204", "3xx", "other"}
Texts == {"blank", "success", "other"}

Replies == { reply \in [status : Statuses, location : BOOLEAN, text : Texts] :
               reply.status = "204" => reply.text = "blank" }

NoReplyYet == [status |-> "none", location |-> FALSE, text |-> "blank"]

NothingCame ==
  [connect |-> "none", probe |-> NoLookup, control |-> NoLookup,
   reply |-> NoReplyYet, body |-> "none"]

Redirects(reply) == reply.status = "3xx" /\ reply.location

IsThePage(reply) ==
  \/ reply.status = "204" /\ reply.text = "blank"
  \/ reply.status = "200" /\ reply.text = "success"

Classify_HttpAlone(reply, dnsHijacked) ==
  CASE Redirects(reply) -> [state |-> "CaptivePortal", login |-> "location"]
    [] ~Redirects(reply) /\ IsThePage(reply) -> [state |-> "Online", login |-> "none"]
    [] OTHER -> [state |-> "CaptivePortal", login |-> "probe_url"]

Classify(reply, dnsHijacked) ==
  CASE Redirects(reply) -> [state |-> "CaptivePortal", login |-> "location"]
    [] ~Redirects(reply) /\ IsThePage(reply) ->
         [state |-> IF dnsHijacked THEN "CaptivePortal" ELSE "Online",
          login |-> "none"]
    [] OTHER -> [state |-> "CaptivePortal", login |-> "probe_url"]

\* No reply at all: port 80 may be filtered, unless DNS gave a portal away.
ClassifyFailure(dnsHijacked) ==
  [state |-> IF dnsHijacked THEN "CaptivePortal" ELSE "Online", login |-> "none"]

-----------------------------------------------------------------------------
NothingKnown ==
  [link |-> "none", gateway |-> "none", dns |-> "none", http |-> "none",
   state |-> "Unknown", login |-> "none", status |-> "none"]

LadderInit ==
  /\ ifaces \in InterfaceLists
  /\ servers \in ServerSets
  /\ now = 0 /\ started = 0 /\ until = 0 /\ wake = 0
  /\ at = "link"
  /\ flight = [r \in Requests |-> "idle"]
  /\ answers = NothingCame
  /\ reading = FALSE /\ hijacked = FALSE
  /\ report = NothingKnown

\* Start a stage: its requests go out under `bounded(budget, ..)`.  What the
\* stage before it left in flight was dropped with that stage's future.
Begin(stage, requests, budget) ==
  /\ at' = stage
  /\ started' = now
  /\ until' = now + budget
  /\ wake' = now + budget
  /\ flight' = [r \in Requests |-> IF r \in requests THEN "pending" ELSE "idle"]
  /\ UNCHANGED <<now, input, answers, reading>>

ReturnReport ==
  /\ at' = "done"
  /\ flight' = [r \in Requests |-> "idle"]
  /\ UNCHANGED <<clock, wake, input, answers, reading>>

-----------------------------------------------------------------------------
(* Stage 1, and the start of stage 2.                                      *)

NoLink ==
  /\ at = "link" /\ ~HasLink
  /\ report' = [report EXCEPT !.link = "failed", !.state = "LinkDown"]
  /\ ReturnReport
  /\ UNCHANGED hijacked

NoGateway ==
  /\ at = "link" /\ HasLink /\ ~HasGateway
  /\ report' = [report EXCEPT !.link = "ok", !.gateway = "failed",
                              !.state = "GatewayUnreachable"]
  /\ ReturnReport
  /\ UNCHANGED hijacked

AskGateway ==
  /\ at = "link" /\ HasLink /\ HasGateway
  /\ report' = [report EXCEPT !.link = "ok"]
  /\ Begin("gateway", {"connect"}, GatewayBudget)
  /\ UNCHANGED hijacked

-----------------------------------------------------------------------------
(* Stage 2 ends, and stage 3 starts.  An accepted, refused or reset        *)
(* connection is a gateway; another error, or silence, is none.            *)

Reached == flight["connect"] = "ready" /\ answers.connect = "reached"

GatewayUp ==
  /\ at = "gateway" /\ Reached /\ "literal" \in servers
  /\ report' = [report EXCEPT !.gateway = "ok"]
  /\ Begin("dns", {"probe", "control"}, DnsBudget)
  /\ UNCHANGED hijacked

\* With no server to ask, resolve::probe answers without any I/O.
GatewayUpNoServers ==
  /\ at = "gateway" /\ Reached /\ "literal" \notin servers
  /\ report' = [report EXCEPT !.gateway = "ok", !.dns = "failed",
                              !.state = "DnsFailure"]
  /\ ReturnReport
  /\ UNCHANGED hijacked

GatewayDown_TrustsConnector ==
  /\ at = "gateway" /\ ~Reached
  /\ flight["connect"] = "ready"
  /\ report' = [report EXCEPT !.gateway = "failed", !.state = "GatewayUnreachable"]
  /\ ReturnReport
  /\ UNCHANGED hijacked

GatewayDown_GoesOn ==
  /\ at = "gateway" /\ ~Reached
  /\ flight["connect"] = "ready" \/ now >= until
  /\ report' = [report EXCEPT !.gateway = "failed", !.state = "GatewayUnreachable"]
  /\ Begin("dns", {"probe", "control"}, DnsBudget)
  /\ UNCHANGED hijacked

GatewayDown_TimerFirst ==
  /\ at = "gateway"
  /\ (flight["connect"] = "ready" /\ ~Reached) \/ now >= until
  /\ report' = [report EXCEPT !.gateway = "failed", !.state = "GatewayUnreachable"]
  /\ ReturnReport
  /\ UNCHANGED hijacked

\* tokio's timeout polls what it bounds before its timer: an answer counts, late.
GatewayDown ==
  /\ at = "gateway" /\ ~Reached
  /\ flight["connect"] = "ready" \/ now >= until
  /\ report' = [report EXCEPT !.gateway = "failed", !.state = "GatewayUnreachable"]
  /\ ReturnReport
  /\ UNCHANGED hijacked

-----------------------------------------------------------------------------
(* Stage 3 ends, and stage 4 starts.                                       *)

DnsSettled == \A r \in {"probe", "control"} : flight[r] = "ready"

\* A lookup still pending when its own timer fires, in the same turn as the
\* stage's, has failed; tokio polls the join before the stage's timer.
DnsAnswer == DnsOutcome(answers.probe, answers.control)

DnsJoined == at = "dns" /\ (DnsSettled \/ now >= until)

DnsResolved ==
  /\ DnsJoined /\ DnsAnswer.resolved
  /\ hijacked' = DnsAnswer.hijacked
  /\ report' = [report EXCEPT !.dns = "ok"]
  /\ Begin("http", {"get"}, HttpBudget)

DnsUnresolved ==
  /\ DnsJoined /\ ~DnsAnswer.resolved
  /\ report' = [report EXCEPT !.dns = "failed", !.state = "DnsFailure"]
  /\ ReturnReport
  /\ UNCHANGED hijacked

\* The stage's own timer fires first, whatever one of the two had answered.
DnsTimedOut ==
  /\ at = "dns" /\ ~DnsSettled /\ now >= until
  /\ report' = [report EXCEPT !.dns = "failed", !.state = "DnsFailure"]
  /\ ReturnReport
  /\ UNCHANGED hijacked

-----------------------------------------------------------------------------
(* Stage 4.  The client has a timer of its own on the request, polled      *)
(* before the response and before each frame of its body: on a late poll   *)
(* it may win over a reply that is complete, or lose.                      *)

\* The response is there: its body is read next, in the same poll if it can be.
HeadersRead ==
  /\ at = "http" /\ ~reading /\ answers.body # "none"
  /\ reading' = TRUE
  /\ wake' = IF answers.body = "arriving" THEN until ELSE wake
  /\ UNCHANGED <<clock, at, flight, answers, input, hijacked, report>>

\* What is left of the body when it breaks off or the timer wins: nothing.
TextsRead ==
  { text \in Texts :
      (answers.body = "whole" /\ text = answers.reply.text)
      \/ ((answers.body = "cut" \/ now >= until) /\ text = "blank") }

Judged(reply) ==
  LET verdict == Classify(reply, hijacked)
  IN report' = [report EXCEPT !.http = "ok", !.state = verdict.state,
                              !.login = verdict.login, !.status = reply.status]

HttpReplied ==
  /\ at = "http" /\ reading
  /\ \E text \in TextsRead : Judged([answers.reply EXCEPT !.text = text])
  /\ ReturnReport
  /\ UNCHANGED hijacked

\* The stage's timer can win while the body is still on its way: then the reply
\* counts for nothing.
HttpFailed ==
  /\ at = "http"
  /\ \/ flight["get"] = "ready" /\ answers.body = "none"
     \/ now >= until /\ (reading => answers.body = "arriving")
  /\ LET verdict == ClassifyFailure(hijacked)
     IN report' = [report EXCEPT !.http = "failed", !.state = verdict.state,
                                 !.login = verdict.login]
  /\ ReturnReport
  /\ UNCHANGED hijacked

-----------------------------------------------------------------------------
(* The network and the clock.                                              *)

Wakes == wake' = Least(wake, now)

\* The last answer a stage waits for wakes it ahead of its timer.
Arrives(r) ==
  /\ flight[r] = "pending"
  /\ flight' = [flight EXCEPT ![r] = "ready"]
  /\ IF \E other \in Requests \ {r} : flight[other] = "pending"
       THEN UNCHANGED wake ELSE Wakes
  /\ UNCHANGED <<clock, at, input, reading, hijacked, report>>

Connected ==
  /\ Arrives("connect")
  /\ \E end \in {"reached", "error"} : answers' = [answers EXCEPT !.connect = end]

LookedUp ==
  \E lookup \in Lookups :
    \/ Arrives("probe") /\ answers' = [answers EXCEPT !.probe = lookup]
    \/ Arrives("control") /\ answers' = [answers EXCEPT !.control = lookup]

\* Status line and headers of the HTTP reply.
Headers ==
  /\ at = "http" /\ flight["get"] = "pending" /\ answers.body = "none"
  /\ \E reply \in Replies :
       answers' = [answers EXCEPT !.reply = reply, !.body = "arriving"]
  /\ Wakes
  /\ UNCHANGED <<clock, at, flight, input, reading, hijacked, report>>

\* Its body: all of it, or a connection that breaks in the middle.
Body ==
  /\ answers.body = "arriving" /\ Arrives("get")
  /\ \E end \in {"whole", "cut"} : answers' = [answers EXCEPT !.body = end]

NoReply ==
  /\ answers.body = "none" /\ Arrives("get")
  /\ UNCHANGED answers

Tick ==
  /\ at \in {"gateway", "dns", "http"}
  /\ now < wake + Lag
  /\ now' = now + 1
  /\ UNCHANGED <<started, until, at, wake, flight, answers, reading, input, hijacked, report>>

-----------------------------------------------------------------------------
Step ==
  \/ NoLink \/ NoGateway \/ AskGateway
  \/ GatewayUp \/ GatewayUpNoServers \/ GatewayDown
  \/ DnsResolved \/ DnsUnresolved \/ DnsTimedOut
  \/ HeadersRead \/ HttpReplied \/ HttpFailed

Network == Connected \/ LookedUp \/ Headers \/ Body \/ NoReply

LadderNext == Step \/ Network \/ Tick

\* The runtime's timers fire and its tasks are polled; the network owes nothing.
LadderSpec == LadderInit /\ [][LadderNext]_ladderVars /\ WF_ladderVars(Tick) /\ WF_ladderVars(Step)

-----------------------------------------------------------------------------
(* Properties.                                                             *)

Reachability ==
  [link : Outcomes, gateway : Outcomes, dns : Outcomes, http : Outcomes,
   state : States, login : {"none", "location", "probe_url"},
   status : Statuses \cup {"none"}]

LadderTypeOK ==
  /\ at \in Stages \cup {"done"}
  /\ now \in Nat /\ started \in Nat /\ until \in Nat /\ wake \in Nat
  /\ started <= now /\ started <= until
  /\ flight \in [Requests -> {"idle", "pending", "ready"}]
  /\ answers \in [connect : {"none", "reached", "error"},
                  probe : Lookups, control : Lookups,
                  reply : Replies \cup {NoReplyYet},
                  body : {"none", "arriving", "whole", "cut"}]
  /\ answers.body # "none" => answers.reply \in Replies
  /\ reading => answers.body # "none"
  /\ reading \in BOOLEAN /\ hijacked \in BOOLEAN
  /\ report \in Reachability

\* The report that leaves the ladder blames the first stage that did not
\* pass, and says nothing at all of the stages behind it: a stage after a
\* failure is not attempted, which is not the same as failed.
FirstFailureIsNamed ==
  at = "done" =>
    /\ report.link = "failed" <=> report.state = "LinkDown"
    /\ report.gateway = "failed" <=> report.state = "GatewayUnreachable"
    /\ report.dns = "failed" <=> report.state = "DnsFailure"
    /\ report.gateway # "none" <=> report.link = "ok"
    /\ report.dns # "none" <=> report.gateway = "ok"
    /\ report.http # "none" <=> report.dns = "ok"
    /\ report.state # "Unknown"

\* The whole ladder ends inside GATEWAY_TIMEOUT + timeout, not four times the
\* per-probe timeout, however its collaborators stall; each of its three
\* timed stages can add the runtime's own delay once, no more.
WithinBudget == now <= Deadline + 3 * Lag

\* A resolver that takes all it is given still leaves the HTTP stage half of
\* the per-probe timeout (less the delay of the three polls before it).
HttpNotSqueezed == at = "http" => 2 * (until - started) >= Timeout - 3 * Lag

\* What the two lookups said, read or not.
Intercepted == SameAnswer(answers.probe.addresses, answers.control.addresses)

\* What came back, not how or when it was read, is what a verdict rests on: "online"
\* on the page itself or no reply at all, over lookups that did not look intercepted;
\* a portal on interception, a redirect, another page, or a body that broke off or
\* the timer cut off; a DNS failure on the probe host's own answer, or on one of the
\* two lookups still out when the stage's time was up.
VerdictIsJustified ==
  /\ report.state = "Online" =>
       ~Intercepted /\ (report.http = "ok" => IsThePage(answers.reply))
  /\ report.state = "CaptivePortal" =>
       \/ Intercepted
       \/ report.http = "ok" /\
            (~IsThePage(answers.reply) \/ answers.body = "cut" \/ now >= until)
  /\ report.state = "DnsFailure" =>
       \/ "literal" \notin servers
       \/ answers.probe.addresses = {}
       \/ ~answers.control.ok /\ now >= until

\* An answer that is complete when the ladder is polled counts, even when the stage's
\* timer fired in the meantime: a gateway that answered is up, two lookups that ended
\* decide the stage.  The one exception is the HTTP client's own timer, which
\* can only take a whole reply away once it has expired.
AnswerBeatsTimer ==
  at = "done" =>
    /\ answers.connect = "reached" => report.gateway = "ok"
    /\ answers.probe.addresses # {} /\ answers.control.ok => report.dns = "ok"
    /\ answers.body = "whole" /\ now < until =>
         /\ report.status = answers.reply.status
         /\ report.state = Classify(answers.reply, Intercepted).state

\* Every run of the ladder ends, whatever the network withholds.
Terminates == <>(at = "done")

\* The ladder keeps the promise of Verdict: its report is published once, when
\* the run ends, within the bound.
Promise == INSTANCE Verdict WITH
  Bound <- Deadline + 3 * Lag,
  elapsed <- now,
  answer <- IF at = "done" THEN report ELSE NothingKnown

KeepsPromise == Promise!Spec

=============================================================================
