---------------------------- MODULE NetworkProofs -----------------------------
(***************************************************************************)
(* What the parts that ask the network keep true: the reachability ladder, *)
(* and the lookups that geo.json saves.                                    *)
(***************************************************************************)
EXTENDS Ladder, GeoCache, TLAPS

-----------------------------------------------------------------------------
(***************************************************************************)
(* Ladder, for every timeout, every delay of the runtime, every interface  *)
(* table and every set of servers.                                         *)
(***************************************************************************)

Waiting == at \in {"gateway", "dns", "http"}

(***************************************************************************)
(* The arithmetic of the shared deadline.  While a stage waits, the clock  *)
(* is at most Lag past what wakes it, which is at most its timer.  The     *)
(* second clause for "dns" is what leaves HTTP its half: 2 * until is the  *)
(* sum of the instant the stage started and of the deadline it halved.     *)
(***************************************************************************)
Timing ==
  /\ at = "link" => now = 0
  /\ Waiting => now <= wake + Lag /\ wake <= until
  /\ at = "gateway" => until <= GatewayTimeout
  /\ at = "dns" =>
       /\ until <= Deadline + Lag
       /\ 2 * until <= GatewayTimeout + Deadline + Lag \/ Timeout <= Lag
  /\ at = "http" => until <= Deadline + 2 * Lag
  /\ HttpNotSqueezed
  /\ WithinBudget

(***************************************************************************)
(* What the report holds at each stage, and whose requests are in flight.  *)
(***************************************************************************)
Passed(link, gateway, dns) ==
  [link : {link}, gateway : {gateway}, dns : {dns}, http : {"none"},
   state : {"Unknown"}, login : {"none"}, status : {"none"}]

ReportSoFar ==
  /\ at = "link" => report \in Passed("none", "none", "none")
  /\ at = "gateway" => report \in Passed("ok", "none", "none")
  /\ at = "dns" => report \in Passed("ok", "ok", "none")
  /\ at = "http" => report \in Passed("ok", "ok", "ok")
  /\ at = "done" => report \in Promise!BrokenBeforeHttp \cup Promise!Judged

OnlyOwnRequests ==
  /\ at \in {"link", "done"} => \A r \in Requests : flight[r] = "idle"
  /\ at = "gateway" => \A r \in Requests \ {"connect"} : flight[r] = "idle"
  /\ at = "dns" => \A r \in Requests \ {"probe", "control"} : flight[r] = "idle"
  /\ at = "http" => \A r \in Requests \ {"get"} : flight[r] = "idle"

(***************************************************************************)
(* What came back at each stage is what its requests brought, and by stage *)
(* 4 the ladder knows whether the lookups looked intercepted.              *)
(***************************************************************************)
AnswersSoFar ==
  /\ at = "link" => answers.connect = "none"
  /\ at = "gateway" => answers.connect = "none" \/ flight["connect"] = "ready"
  /\ at \in {"link", "gateway"} => answers.probe = NoLookup /\ answers.control = NoLookup
  /\ at = "dns" =>
       /\ answers.probe = NoLookup \/ flight["probe"] = "ready"
       /\ answers.control = NoLookup \/ flight["control"] = "ready"
  /\ at \in {"link", "gateway", "dns"} => answers.body = "none" /\ ~reading
  /\ at = "http" =>
       /\ answers.body = "arriving" => flight["get"] = "pending"
       /\ answers.body \in {"whole", "cut"} => flight["get"] = "ready"
       /\ hijacked <=> Intercepted

-----------------------------------------------------------------------------
\* What the ladder can have heard.
AnswerSet ==
  [connect : {"none", "reached", "error"}, probe : Lookups, control : Lookups,
   reply : Replies \cup {NoReplyYet}, body : {"none", "arriving", "whole", "cut"}]

\* A budget is a natural number and never more than what is left.
LEMMA Budgets ==
  ASSUME now \in Nat
  PROVE  /\ GatewayBudget \in Nat /\ DnsBudget \in Nat /\ HttpBudget \in Nat
         /\ Remaining \in Nat
         /\ now < Deadline => Remaining = Deadline - now
         /\ now >= Deadline => Remaining = 0
         /\ GatewayBudget <= GatewayTimeout
         /\ 2 * DnsBudget <= Remaining
         /\ Deadline \in Nat /\ Deadline = GatewayTimeout + Timeout
<1>1. Deadline \in Nat /\ Deadline = GatewayTimeout + Timeout
  BY TimesAssumption DEF Deadline
<1>2. /\ Remaining \in Nat
      /\ now < Deadline => Remaining = Deadline - now
      /\ now >= Deadline => Remaining = 0
  BY <1>1 DEF Remaining
<1>3. Remaining \div 2 \in Nat /\ 2 * (Remaining \div 2) <= Remaining
  BY <1>2, SMT
<1>4. QED
  BY <1>1, <1>2, <1>3, TimesAssumption
  DEF GatewayBudget, DnsBudget, HttpBudget, Least

\* What classify can say.
LEMMA Verdicts ==
  ASSUME NEW reply \in Replies, NEW h
  PROVE  /\ Classify(reply, h).state \in {"Online", "CaptivePortal"}
         /\ Classify(reply, h).login \in {"none", "location", "probe_url"}
         /\ Classify(reply, h).state = "Online" => ~h
         /\ reply.status \in Statuses
BY DEF Classify, Replies

\* The reports of a ladder that stops before stage 4 are reports, and blame a stage.
LEMMA BrokenReports ==
  ASSUME report \in Reachability
  PROVE  LET link == [report EXCEPT !.link = "failed", !.state = "LinkDown"]
             unrouted == [report EXCEPT !.link = "ok", !.gateway = "failed",
                                        !.state = "GatewayUnreachable"]
             down == [report EXCEPT !.gateway = "failed", !.state = "GatewayUnreachable"]
             unserved == [report EXCEPT !.gateway = "ok", !.dns = "failed",
                                        !.state = "DnsFailure"]
             dns == [report EXCEPT !.dns = "failed", !.state = "DnsFailure"]
         IN  /\ {link, unrouted, down, unserved, dns} \subseteq Reachability
             /\ link.state = "LinkDown" /\ unrouted.state = "GatewayUnreachable"
             /\ down.state = "GatewayUnreachable" /\ dns.state = "DnsFailure"
             /\ unserved.state = "DnsFailure" /\ unserved.gateway = "ok"
<1>1. [report EXCEPT !.link = "failed", !.state = "LinkDown"] \in Reachability
  BY DEF Reachability, Outcomes, States
<1>2. [report EXCEPT !.link = "ok", !.gateway = "failed", !.state = "GatewayUnreachable"]
        \in Reachability
  BY DEF Reachability, Outcomes, States
<1>3. [report EXCEPT !.gateway = "failed", !.state = "GatewayUnreachable"] \in Reachability
  BY DEF Reachability, Outcomes, States
<1>4. [report EXCEPT !.gateway = "ok", !.dns = "failed", !.state = "DnsFailure"]
        \in Reachability
  BY DEF Reachability, Outcomes, States
<1>5. [report EXCEPT !.dns = "failed", !.state = "DnsFailure"] \in Reachability
  BY DEF Reachability, Outcomes, States
<1>6. QED
  BY <1>1, <1>2, <1>3, <1>4, <1>5 DEF Reachability

\* The verdict on a reply, written over a report, gives a report.
LEMMA ReplyReported ==
  ASSUME report \in Reachability, NEW reply \in Replies, Judged(reply)
  PROVE  report' \in Reachability
<1>1. ASSUME NEW s \in States, NEW c \in Statuses,
             NEW l \in {"none", "location", "probe_url"}
      PROVE  [report EXCEPT !.http = "ok", !.state = s, !.login = l, !.status = c]
               \in Reachability
  BY DEF Reachability, Outcomes
<1>2. /\ Classify(reply, hijacked).state \in States
      /\ Classify(reply, hijacked).login \in {"none", "location", "probe_url"}
      /\ reply.status \in Statuses
  BY Verdicts DEF States
<1>3. QED
  BY <1>1, <1>2 DEF Judged

\* The verdict on a reply, over the report of three passed stages, is one of
\* the abstract answers.
LEMMA ReplyJudged ==
  ASSUME report \in Passed("ok", "ok", "ok"), NEW reply \in Replies, Judged(reply)
  PROVE  /\ report' \in Promise!Judged
         /\ report'.state = Classify(reply, hijacked).state
         /\ report'.status = reply.status /\ report'.http = "ok" /\ report'.dns = "ok"
         /\ report'.gateway = "ok"
<1>1. ASSUME NEW s \in {"Online", "CaptivePortal"}, NEW c \in Statuses,
             NEW l \in {"none", "location", "probe_url"},
             l # "none" => s = "CaptivePortal"
      PROVE  [report EXCEPT !.http = "ok", !.state = s, !.login = l, !.status = c]
               \in Promise!Judged
  BY <1>1 DEF Passed, Promise!Judged, Statuses
<1>2. Classify(reply, hijacked).login # "none"
        => Classify(reply, hijacked).state = "CaptivePortal"
  BY DEF Classify
<1>3. report' \in Promise!Judged
  BY <1>1, <1>2, Verdicts DEF Judged
<1>4. QED
  BY <1>3 DEF Judged, Passed

\* What is read of a reply is a reply, with its status and its Location.
LEMMA ReadReplies ==
  ASSUME answers.reply \in Replies, NEW text \in TextsRead
  PROVE  /\ [answers.reply EXCEPT !.text = text] \in Replies
         /\ [answers.reply EXCEPT !.text = text].status = answers.reply.status
<1>1. text \in Texts /\ (text = answers.reply.text \/ text = "blank")
  BY DEF TextsRead
<1>2. QED
  BY <1>1 DEF Replies, Texts

\* What is read of a page is the page, or its body was lost on the way.
LEMMA ReadsThePage ==
  ASSUME answers.reply \in Replies, NEW text \in TextsRead,
         now \in Nat, until \in Nat,
         NEW read, read = [answers.reply EXCEPT !.text = text]
  PROVE  /\ answers.body = "whole" /\ now < until => read = answers.reply
         /\ IsThePage(read) => IsThePage(answers.reply)
         /\ ~IsThePage(read) =>
              ~IsThePage(answers.reply) \/ answers.body = "cut" \/ now >= until
<1>1. /\ text \in Texts
      /\ \/ answers.body = "whole" /\ text = answers.reply.text
         \/ (answers.body = "cut" \/ now >= until) /\ text = "blank"
  BY DEF TextsRead
<1>2. read.status = answers.reply.status /\ read.text = text /\ read \in Replies
  BY <1>1, ReadReplies DEF Replies
<1>3. text = answers.reply.text => read = answers.reply
  BY DEF Replies
<1>4. text = "blank" /\ IsThePage(read) => IsThePage(answers.reply)
  BY <1>2 DEF IsThePage, Replies
<1>5. ~(now < until /\ now >= until)
  OBVIOUS
<1>6. QED
  BY <1>1, <1>3, <1>4, <1>5

\* The two lookups look intercepted to stage 3 exactly when they are, and stage 3 fails
\* on the probe host's own lookup.
LEMMA Signals ==
  ASSUME LadderTypeOK
  PROVE  /\ DnsAnswer.resolved => (DnsAnswer.hijacked <=> Intercepted)
         /\ ~DnsAnswer.resolved => answers.probe.addresses = {}
<1>1. answers.probe \in Lookups /\ answers.control \in Lookups
  BY DEF LadderTypeOK
<1>2. /\ ~answers.probe.ok => answers.probe.addresses = {}
      /\ ~answers.control.ok => answers.control.addresses = {}
  BY <1>1 DEF Lookups
<1>3. QED
  BY <1>2 DEF DnsAnswer, DnsOutcome, Intercepted, SameAnswer

\* Interception is a yes or a no.
LEMMA Interception ==
  ASSUME NEW probe \in Lookups, NEW control \in Lookups
  PROVE  DnsOutcome(probe, control).hijacked \in BOOLEAN
<1>1. control.ok \in BOOLEAN
  BY DEF Lookups
<1>2. SameAnswer(probe.addresses, control.addresses) \in BOOLEAN
  BY Zenon DEF SameAnswer
<1>3. (control.ok /\ SameAnswer(probe.addresses, control.addresses)) \in BOOLEAN
  BY <1>1, <1>2, Zenon
<1>4. QED
  BY <1>3, Zenon DEF DnsOutcome

\* The state of the ladder keeps its type, whatever the timeouts: budgets, timers and clocks
\* stay natural numbers although `saturating_sub` is all that guards them (Ladder::run).
THEOREM TypeCorrect == LadderSpec => []LadderTypeOK
<1>1. LadderInit => LadderTypeOK
  <2>1. NothingKnown \in Reachability
    BY DEF NothingKnown, Reachability, Outcomes, States
  <2>2. LadderInit => hijacked \in BOOLEAN /\ reading \in BOOLEAN
    BY Zenon DEF LadderInit
  <2>3. NothingCame \in AnswerSet
    BY DEF NothingCame, AnswerSet, NoLookup, Lookups
  <2>4. LadderInit => ~reading /\ answers = NothingCame
    BY Zenon DEF LadderInit
  <2>5. QED
    BY <2>1, <2>2, <2>3, <2>4 DEF LadderInit, LadderTypeOK, Stages, Requests, AnswerSet,
       NothingCame
<1>2. LadderTypeOK /\ [LadderNext]_ladderVars => LadderTypeOK'
  <2> SUFFICES ASSUME LadderTypeOK, [LadderNext]_ladderVars PROVE LadderTypeOK'
    OBVIOUS
  <2> USE DEF Reachability, LadderTypeOK, Stages, Requests, Outcomes, States, input, clock
  \* Returning a report keeps the types if the report is one.
  <2>R. ASSUME ReturnReport, UNCHANGED hijacked, report' \in Reachability
        PROVE  LadderTypeOK'
    <3>1. /\ at' \in Stages \cup {"done"}
          /\ flight' \in [Requests -> {"idle", "pending", "ready"}]
          /\ UNCHANGED <<now, started, until, wake, answers, reading, hijacked>>
      BY <2>R DEF ReturnReport
    <3> HIDE DEF Stages, Requests, Outcomes, States, Reachability
    <3>2. QED
      BY <2>R, <3>1
  <2>B. /\ [report EXCEPT !.link = "failed", !.state = "LinkDown"] \in Reachability
        /\ [report EXCEPT !.link = "ok", !.gateway = "failed",
                          !.state = "GatewayUnreachable"] \in Reachability
        /\ [report EXCEPT !.gateway = "failed", !.state = "GatewayUnreachable"]
             \in Reachability
        /\ [report EXCEPT !.gateway = "ok", !.dns = "failed", !.state = "DnsFailure"]
             \in Reachability
        /\ [report EXCEPT !.dns = "failed", !.state = "DnsFailure"] \in Reachability
    <3> HIDE DEF Reachability
    <3> QED BY BrokenReports
  <2>1. CASE NoLink
    BY <2>1, <2>B, <2>R DEF NoLink
  <2>2. CASE NoGateway
    BY <2>2, <2>B, <2>R DEF NoGateway
  <2>3. CASE AskGateway
    BY <2>3, Budgets DEF AskGateway, Begin
  <2>4. CASE GatewayUp
    BY <2>4, Budgets DEF GatewayUp, Begin
  <2>5. CASE GatewayUpNoServers
    BY <2>5, <2>B, <2>R DEF GatewayUpNoServers
  <2>6. CASE GatewayDown
    BY <2>6, <2>B, <2>R DEF GatewayDown
  <2>7. CASE DnsResolved
    <3>1. /\ hijacked' = DnsAnswer.hijacked
          /\ report' = [report EXCEPT !.dns = "ok"]
          /\ Begin("http", {"get"}, HttpBudget)
      BY <2>7 DEF DnsResolved
    <3>2. hijacked' \in BOOLEAN
      BY <3>1, Interception DEF DnsAnswer
    <3>3. QED
      BY <3>1, <3>2, Budgets DEF Begin
  <2>8. CASE DnsUnresolved
    BY <2>8, <2>B, <2>R DEF DnsUnresolved
  <2>9. CASE DnsTimedOut
    BY <2>9, <2>B, <2>R DEF DnsTimedOut
  <2>10. CASE HttpReplied
    <3>1. PICK text \in TextsRead : Judged([answers.reply EXCEPT !.text = text])
      BY <2>10 DEF HttpReplied
    <3>0. report \in Reachability /\ answers.reply \in Replies
      BY <2>10 DEF HttpReplied
    <3> HIDE DEF Reachability, LadderTypeOK, States, Outcomes
    <3>2. report' \in Reachability
      BY <3>0, <3>1, ReadReplies, ReplyReported
    <3>3. QED
      BY <2>10, <2>R, <3>2 DEF HttpReplied
  <2>11. CASE HttpFailed
    <3>0. \A s \in States :
            [report EXCEPT !.http = "failed", !.state = s, !.login = "none"] \in Reachability
      OBVIOUS
    <3>1. report' \in Reachability
      <4>1. PICK s \in States :
              report' = [report EXCEPT !.http = "failed", !.state = s, !.login = "none"]
        BY <2>11 DEF HttpFailed, ClassifyFailure
      <4> HIDE DEF Reachability, States, LadderTypeOK
      <4> QED BY <3>0, <4>1
    <3> HIDE DEF Reachability, LadderTypeOK
    <3>2. QED
      BY <2>11, <2>R, <3>1 DEF HttpFailed
  <2>12. CASE HeadersRead
    BY <2>12 DEF HeadersRead
  <2>13. CASE Connected
    BY <2>13 DEF Connected, Arrives, Wakes, Least
  <2>14. CASE LookedUp
    BY <2>14 DEF LookedUp, Arrives, Wakes, Least
  <2>15. CASE Headers
    <3>1. PICK reply \in Replies :
            answers' = [answers EXCEPT !.reply = reply, !.body = "arriving"]
      BY <2>15 DEF Headers
    <3>2. answers \in AnswerSet
      BY DEF AnswerSet
    <3>3. answers' \in AnswerSet /\ answers'.reply \in Replies /\ answers'.body # "none"
      BY <3>1, <3>2 DEF AnswerSet
    <3>4. QED
      BY <2>15, <3>3 DEF Headers, Wakes, Least, AnswerSet
  <2>16. CASE Body
    BY <2>16 DEF Body, Arrives, Wakes, Least
  <2>17. CASE NoReply
    BY <2>17 DEF NoReply, Arrives, Wakes, Least
  <2>18. CASE Tick
    BY <2>18 DEF Tick
  <2>19. CASE UNCHANGED ladderVars
    BY <2>19 DEF ladderVars
  <2>20. QED
    BY <2>1, <2>2, <2>3, <2>4, <2>5, <2>6, <2>7, <2>8, <2>9, <2>10, <2>11, <2>12,
       <2>13, <2>14, <2>15, <2>16, <2>17, <2>18, <2>19 DEF LadderNext, Step, Network
<1>3. QED
  BY <1>1, <1>2, PTL DEF LadderSpec

-----------------------------------------------------------------------------
\* The timing invariant is inductive relative to the types.
LEMMA TimingInvariant == LadderSpec => []Timing
<1> USE TimesAssumption DEF Waiting, WithinBudget, HttpNotSqueezed, Deadline
<1>1. LadderInit => Timing
  BY DEF LadderInit, Timing
<1>2. LadderTypeOK /\ Timing /\ [LadderNext]_ladderVars => Timing'
  <2> SUFFICES ASSUME LadderTypeOK, Timing, [LadderNext]_ladderVars PROVE Timing'
    OBVIOUS
  <2> USE DEF Timing, clock
  <2>0. /\ now \in Nat /\ started \in Nat /\ until \in Nat /\ wake \in Nat
        /\ started <= until
    BY DEF LadderTypeOK
  <2>1. CASE NoLink
    BY <2>0, <2>1 DEF NoLink, ReturnReport
  <2>2. CASE NoGateway
    BY <2>0, <2>2 DEF NoGateway, ReturnReport
  <2>3. CASE AskGateway
    BY <2>0, <2>3, Budgets DEF AskGateway, Begin
  <2>4. CASE GatewayUp
    <3>1. /\ at' = "dns" /\ now' = now /\ started' = now
          /\ until' = now + DnsBudget /\ wake' = now + DnsBudget
      BY <2>4 DEF GatewayUp, Begin
    <3>2. now <= GatewayTimeout + Lag
      BY <2>0, <2>4 DEF GatewayUp
    <3>3. until' <= Deadline + Lag
      BY <2>0, <3>1, <3>2, Budgets
    <3>4. 2 * until' <= GatewayTimeout + Deadline + Lag \/ Timeout <= Lag
      BY <2>0, <3>1, <3>2, Budgets
    <3>5. now' <= wake' + Lag /\ wake' <= until'
      BY <2>0, <3>1, Budgets
    <3>6. QED
      BY <2>0, <3>1, <3>2, <3>3, <3>4, <3>5
  <2>5. CASE GatewayUpNoServers
    BY <2>0, <2>5 DEF GatewayUpNoServers, ReturnReport
  <2>6. CASE GatewayDown
    BY <2>0, <2>6 DEF GatewayDown, ReturnReport
  <2>7. CASE DnsResolved
    <3>1. /\ at = "dns" /\ at' = "http" /\ now' = now /\ started' = now
          /\ until' = now + Remaining /\ wake' = now + Remaining
      BY <2>7 DEF DnsResolved, DnsJoined, Begin, HttpBudget
    <3>2. now <= until + Lag
      BY <2>0, <3>1
    <3>3. until' <= Deadline + 2 * Lag
      BY <2>0, <3>1, <3>2, Budgets
    <3>4. 2 * Remaining >= Timeout - 3 * Lag
      BY <2>0, <3>1, <3>2, Budgets
    <3>5. QED
      BY <2>0, <3>1, <3>2, <3>3, <3>4, Budgets
  <2>8. CASE DnsUnresolved
    BY <2>0, <2>8 DEF DnsUnresolved, ReturnReport
  <2>9. CASE DnsTimedOut
    BY <2>0, <2>9 DEF DnsTimedOut, ReturnReport
  <2>10. CASE HttpReplied
    BY <2>0, <2>10 DEF HttpReplied, ReturnReport
  <2>11. CASE HttpFailed
    BY <2>0, <2>11 DEF HttpFailed, ReturnReport
  <2>12. CASE HeadersRead
    BY <2>0, <2>12 DEF HeadersRead
  <2>13. CASE Connected
    BY <2>0, <2>13 DEF Connected, Arrives, Wakes, Least
  <2>14. CASE LookedUp
    BY <2>0, <2>14 DEF LookedUp, Arrives, Wakes, Least
  <2>15. CASE Headers
    BY <2>0, <2>15 DEF Headers, Wakes, Least
  <2>16. CASE Body
    BY <2>0, <2>16 DEF Body, Arrives, Wakes, Least
  <2>17. CASE NoReply
    BY <2>0, <2>17 DEF NoReply, Arrives, Wakes, Least
  <2>18. CASE Tick
    BY <2>0, <2>18 DEF Tick
  <2>19. CASE UNCHANGED ladderVars
    BY <2>0, <2>19 DEF ladderVars
  <2>20. QED
    BY <2>1, <2>2, <2>3, <2>4, <2>5, <2>6, <2>7, <2>8, <2>9, <2>10, <2>11, <2>12,
       <2>13, <2>14, <2>15, <2>16, <2>17, <2>18, <2>19 DEF LadderNext, Step, Network
<1>3. QED
  BY <1>1, <1>2, TypeCorrect, PTL DEF LadderSpec

\* The ladder ends within GATEWAY_TIMEOUT + timeout, plus what three late
\* polls of the runtime can add, whatever the network does.
THEOREM BudgetHolds == LadderSpec => []WithinBudget
<1>1. Timing => WithinBudget
  BY DEF Timing
<1>2. QED
  BY <1>1, TimingInvariant, PTL

\* A slow resolver leaves the HTTP stage half of the per-probe timeout.
THEOREM HttpKeepsHalf == LadderSpec => []HttpNotSqueezed
<1>1. Timing => HttpNotSqueezed
  BY DEF Timing
<1>2. QED
  BY <1>1, TimingInvariant, PTL

-----------------------------------------------------------------------------
\* The shape of the run at each stage.
Shape == ReportSoFar /\ OnlyOwnRequests /\ AnswersSoFar

\* The shape is inductive relative to the types.
LEMMA ShapeInvariant == LadderSpec => []Shape
<1> USE DEF Requests, input, clock
<1>1. LadderInit => Shape
  <2>1. NothingKnown \in Passed("none", "none", "none")
    BY DEF NothingKnown, Passed
  <2>2. QED
    BY <2>1 DEF LadderInit, Shape, ReportSoFar, OnlyOwnRequests, AnswersSoFar, NothingCame
<1>2. LadderTypeOK /\ Shape /\ [LadderNext]_ladderVars => Shape'
  <2> SUFFICES ASSUME LadderTypeOK, Shape, [LadderNext]_ladderVars PROVE Shape'
    OBVIOUS
  <2> USE DEF Shape, OnlyOwnRequests, AnswersSoFar, AnswerSet
  <2>0. /\ at \in {"link", "gateway", "dns", "http", "done"}
        /\ flight \in [Requests -> {"idle", "pending", "ready"}]
        /\ answers \in AnswerSet
    BY DEF LadderTypeOK, Stages, AnswerSet
  \* Returning empties the flight.
  <2>R. ASSUME ReturnReport, report' \in Promise!BrokenBeforeHttp \cup Promise!Judged
        PROVE  Shape'
    BY <2>0, <2>R DEF ReturnReport, ReportSoFar
  <2>1. CASE NoLink
    BY <2>R, <2>1 DEF NoLink, ReportSoFar, Passed,
       Promise!BrokenBeforeHttp, Promise!Blame
  <2>2. CASE NoGateway
    BY <2>R, <2>2 DEF NoGateway, ReportSoFar, Passed,
       Promise!BrokenBeforeHttp, Promise!Blame
  \* A stage that begins has only its own requests in flight.
  <2>B. ASSUME NEW stage \in {"gateway", "dns", "http"}, NEW requests, NEW budget,
               Begin(stage, requests, budget),
               \/ stage = "gateway" /\ requests = {"connect"}
               \/ stage = "dns" /\ requests = {"probe", "control"}
               \/ stage = "http" /\ requests = {"get"},
               at \in {"link", "gateway", "dns"}
        PROVE  OnlyOwnRequests'
    BY <2>0, <2>B DEF Begin
  <2>3. CASE AskGateway
    <3>1. OnlyOwnRequests'
      BY <2>3, <2>B DEF AskGateway
    <3>2. ReportSoFar'
      BY <2>3 DEF AskGateway, Begin, ReportSoFar, Passed
    <3>3. AnswersSoFar'
      BY <2>3 DEF AskGateway, Begin
    <3>4. QED
      BY <3>1, <3>2, <3>3
  <2>4. CASE GatewayUp
    <3>1. OnlyOwnRequests'
      BY <2>4, <2>B DEF GatewayUp
    <3>2. ReportSoFar'
      BY <2>4 DEF GatewayUp, Begin, ReportSoFar, Passed
    <3>3. AnswersSoFar'
      BY <2>4 DEF GatewayUp, Begin
    <3>4. QED
      BY <3>1, <3>2, <3>3
  <2>5. CASE GatewayUpNoServers
    BY <2>R, <2>5 DEF GatewayUpNoServers, ReportSoFar, Passed,
       Promise!BrokenBeforeHttp, Promise!Blame
  <2>6. CASE GatewayDown
    BY <2>R, <2>6 DEF GatewayDown, ReportSoFar, Passed,
       Promise!BrokenBeforeHttp, Promise!Blame
  <2>7. CASE DnsResolved
    <3>1. /\ at = "dns" /\ Begin("http", {"get"}, HttpBudget)
          /\ report' = [report EXCEPT !.dns = "ok"]
          /\ hijacked' = DnsAnswer.hijacked /\ DnsAnswer.resolved
      BY <2>7 DEF DnsResolved, DnsJoined
    <3>2. OnlyOwnRequests'
      BY <3>1, <2>B
    <3>3. ReportSoFar'
      BY <3>1 DEF Begin, ReportSoFar, Passed
    <3>4. DnsAnswer.hijacked <=> Intercepted
      BY <3>1, Signals
    <3>5. /\ at' = "http" /\ answers' = answers /\ answers.body = "none"
          /\ hijacked' = DnsAnswer.hijacked
      BY <3>1 DEF Begin
    <3>6. Intercepted' = Intercepted
      BY <3>5 DEF Intercepted
    <3>7. AnswersSoFar'
      BY <3>4, <3>5, <3>6
    <3>8. QED
      BY <3>2, <3>3, <3>7
  <2>8. CASE DnsUnresolved
    BY <2>R, <2>8 DEF DnsUnresolved, DnsJoined, ReportSoFar, Passed,
       Promise!BrokenBeforeHttp, Promise!Blame
  <2>9. CASE DnsTimedOut
    BY <2>R, <2>9 DEF DnsTimedOut, ReportSoFar, Passed,
       Promise!BrokenBeforeHttp, Promise!Blame
  <2>10. CASE HttpReplied
    <3>1. PICK text \in TextsRead : Judged([answers.reply EXCEPT !.text = text])
      BY <2>10 DEF HttpReplied
    <3>2. report \in Passed("ok", "ok", "ok") /\ ReturnReport
      BY <2>10 DEF HttpReplied, ReportSoFar
    <3>4. answers.reply \in Replies
      BY <2>10 DEF HttpReplied, LadderTypeOK
    <3>3. report' \in Promise!Judged
      BY <3>1, <3>2, <3>4, ReadReplies, ReplyJudged
    <3>5. QED
      BY <2>R, <3>2, <3>3
  <2>11. CASE HttpFailed
    BY <2>R, <2>11 DEF HttpFailed, ClassifyFailure, ReportSoFar, Passed,
       Promise!Judged
  \* While a stage waits its report stays as it is, and interception as it was.
  <2>W. ASSUME at' = at, report' = report PROVE ReportSoFar'
    BY <2>W DEF ReportSoFar
  <2>I. ASSUME answers'.probe = answers.probe, answers'.control = answers.control
        PROVE  Intercepted' = Intercepted
    BY <2>I DEF Intercepted
  <2>12. CASE HeadersRead
    BY <2>0, <2>12, <2>W, <2>I DEF HeadersRead
  <2>13. CASE Connected
    <3>1. PICK end \in {"reached", "error"} : answers' = [answers EXCEPT !.connect = end]
      BY <2>13 DEF Connected
    <3>2. /\ answers'.probe = answers.probe /\ answers'.control = answers.control
          /\ answers'.body = answers.body
      BY <3>1, <2>0
    <3>3. QED
      BY <2>0, <2>13, <2>W, <2>I, <3>1, <3>2 DEF Connected, Arrives
  <2>14. CASE LookedUp
    BY <2>0, <2>14, <2>W DEF LookedUp, Arrives
  <2>15. CASE Headers
    BY <2>0, <2>15, <2>W, <2>I DEF Headers
  <2>16. CASE Body
    BY <2>0, <2>16, <2>W, <2>I DEF Body, Arrives
  <2>17. CASE NoReply
    BY <2>0, <2>17, <2>W, <2>I DEF NoReply, Arrives
  <2>18. CASE Tick
    BY <2>0, <2>18, <2>W, <2>I DEF Tick
  <2>19. CASE UNCHANGED ladderVars
    BY <2>0, <2>19, <2>W, <2>I DEF ladderVars
  <2>20. QED
    BY <2>1, <2>2, <2>3, <2>4, <2>5, <2>6, <2>7, <2>8, <2>9, <2>10, <2>11, <2>12,
       <2>13, <2>14, <2>15, <2>16, <2>17, <2>18, <2>19 DEF LadderNext, Step, Network
<1>3. QED
  BY <1>1, <1>2, TypeCorrect, PTL DEF LadderSpec

\* The report that is returned names the first failure and nothing behind it.
THEOREM AttributionHolds == LadderSpec => []FirstFailureIsNamed
<1>1. LadderTypeOK /\ Shape => FirstFailureIsNamed
  BY DEF Shape, ReportSoFar, FirstFailureIsNamed, Promise!BrokenBeforeHttp,
     Promise!Judged, Promise!Blame
<1>2. QED
  BY <1>1, TypeCorrect, ShapeInvariant, PTL

\* A report never changes once it was returned, and only Tick moves the clock.
LEMMA Steps ==
  ASSUME LadderTypeOK, Shape, [LadderNext]_ladderVars
  PROVE  /\ at = "done" => UNCHANGED <<at, now, until, servers, report, answers>>
         /\ \/ now' = now
            \/ at # "done" /\ at' = at /\ now' = now + 1
<1> USE DEF Requests, input, clock
<1>1. CASE Step
  BY <1>1 DEF Step, NoLink, NoGateway, AskGateway, GatewayUp, GatewayUpNoServers,
     GatewayDown, DnsResolved, DnsUnresolved, DnsTimedOut, DnsJoined, HeadersRead,
     HttpReplied, HttpFailed, Begin, ReturnReport
<1>2. CASE Network
  BY <1>2 DEF Network, Connected, LookedUp, Headers, Body, NoReply, Arrives, Shape,
     OnlyOwnRequests
<1>3. CASE Tick
  BY <1>3 DEF Tick
<1>4. CASE UNCHANGED ladderVars
  BY <1>4 DEF ladderVars
<1>5. QED
  BY <1>1, <1>2, <1>3, <1>4 DEF LadderNext

\* The two invariants about what the report may claim.
Judgement == VerdictIsJustified /\ AnswerBeatsTimer

\* Both hold in every state: before the report is returned it claims nothing, each
\* way of returning it is looked at once, and after that nothing changes.
LEMMA JudgementInvariant == LadderSpec => []Judgement
<1>1. LadderInit => Judgement
  BY DEF LadderInit, NothingKnown, Judgement, VerdictIsJustified, AnswerBeatsTimer
<1>2. LadderTypeOK /\ LadderTypeOK' /\ Shape /\ Shape' /\ Judgement /\ [LadderNext]_ladderVars
        => Judgement'
  <2> SUFFICES ASSUME LadderTypeOK, LadderTypeOK', Shape, Shape', Judgement, [LadderNext]_ladderVars
               PROVE  Judgement'
    OBVIOUS
  <2> USE DEF Judgement, VerdictIsJustified, AnswerBeatsTimer, Intercepted
  <2>0. at' \in Stages \cup {"done"} /\ at \in Stages \cup {"done"}
    BY DEF LadderTypeOK
  <2>1. CASE at' # "done"
    <3>1. report'.state = "Unknown"
      BY <2>1, <2>0 DEF Shape, ReportSoFar, Passed, Stages
    <3>2. QED
      BY <2>1, <3>1
  <2>2. CASE at = "done"
    BY <2>2, Steps
  <2>3. CASE NoLink \/ NoGateway
    <3>1. /\ UNCHANGED answers
          /\ answers.connect = "none" /\ answers.body = "none" /\ answers.probe = NoLookup
      BY <2>3 DEF NoLink, NoGateway, ReturnReport, Shape, AnswersSoFar
    <3>2. report'.state \in {"LinkDown", "GatewayUnreachable"}
      BY <2>3, BrokenReports DEF NoLink, NoGateway, LadderTypeOK
    <3>3. QED
      BY <3>1, <3>2 DEF NoLookup
  <2>4. CASE GatewayUpNoServers \/ GatewayDown
    <3>1. /\ UNCHANGED <<answers, servers>>
          /\ answers.body = "none" /\ answers.probe = NoLookup
          /\ answers.connect = "none" \/ flight["connect"] = "ready"
      BY <2>4 DEF GatewayUpNoServers, GatewayDown, ReturnReport, Shape, AnswersSoFar, input
    <3>2. \/ /\ report'.state = "DnsFailure" /\ report'.gateway = "ok"
             /\ "literal" \notin servers
          \/ report'.state = "GatewayUnreachable" /\ ~Reached
      BY <2>4, BrokenReports DEF GatewayUpNoServers, GatewayDown, LadderTypeOK
    <3>3. QED
      BY <3>1, <3>2 DEF NoLookup, Reached
  <2>5. CASE DnsUnresolved \/ DnsTimedOut
    <3>1. /\ UNCHANGED <<answers, servers, now, until>>
          /\ answers.body = "none"
          /\ answers.probe = NoLookup \/ flight["probe"] = "ready"
          /\ answers.control = NoLookup \/ flight["control"] = "ready"
      BY <2>5 DEF DnsUnresolved, DnsTimedOut, DnsJoined, ReturnReport, Shape, AnswersSoFar,
         input, clock
    <3>2. /\ report \in Passed("ok", "ok", "none")
          /\ report' = [report EXCEPT !.dns = "failed", !.state = "DnsFailure"]
      BY <2>5 DEF DnsUnresolved, DnsTimedOut, DnsJoined, Shape, ReportSoFar
    <3>3. /\ report'.state = "DnsFailure" /\ report'.gateway = "ok"
      BY <3>2 DEF Passed
    <3>4. answers.probe.addresses = {} \/ (~answers.control.ok /\ now >= until)
      <4>1. CASE DnsUnresolved
        BY <4>1, Signals DEF DnsUnresolved
      <4>2. CASE DnsTimedOut
        BY <3>1, <4>2 DEF DnsTimedOut, DnsSettled, NoLookup
      <4>3. QED
        BY <2>5, <4>1, <4>2
    <3>5. QED
      BY <3>1, <3>3, <3>4
  <2>6. CASE HttpReplied
    <3>1. PICK text \in TextsRead : Judged([answers.reply EXCEPT !.text = text])
      BY <2>6 DEF HttpReplied
    <3> DEFINE read == [answers.reply EXCEPT !.text = text]
    <3>2. /\ report \in Passed("ok", "ok", "ok") /\ answers.reply \in Replies
          /\ UNCHANGED <<answers, servers, now, until>> /\ (hijacked <=> Intercepted)
      BY <2>6 DEF HttpReplied, Shape, ReportSoFar, AnswersSoFar, LadderTypeOK, ReturnReport,
         input, clock
    <3>3. read \in Replies /\ read.status = answers.reply.status
      BY <3>2, ReadReplies
    <3>4. /\ report'.state = Classify(read, hijacked).state
          /\ report'.status = read.status /\ report'.http = "ok" /\ report'.dns = "ok"
          /\ report'.gateway = "ok"
      BY <3>1, <3>2, <3>3, ReplyJudged
    <3>5. /\ answers.body = "whole" /\ now < until => read = answers.reply
          /\ IsThePage(read) => IsThePage(answers.reply)
          /\ ~IsThePage(read) =>
               ~IsThePage(answers.reply) \/ answers.body = "cut" \/ now >= until
      <4>1. /\ text \in TextsRead /\ now \in Nat /\ until \in Nat
            /\ read = [answers.reply EXCEPT !.text = text] /\ answers.reply \in Replies
        BY <3>1, <3>2 DEF LadderTypeOK
      <4> HIDE DEF read
      <4>2. QED
        BY <4>1, ReadsThePage
    <3> HIDE DEF read
    <3>6. /\ Classify(read, hijacked).state = "Online" => ~hijacked /\ IsThePage(read)
          /\ Classify(read, hijacked).state = "CaptivePortal" => hijacked \/ ~IsThePage(read)
          /\ Classify(read, hijacked).state # "DnsFailure"
      BY <3>3 DEF Classify, IsThePage, Redirects
    <3>7. Classify(read, hijacked) = Classify(read, Intercepted)
      BY <3>2 DEF Classify
    <3>8. QED
      BY <3>2, <3>3, <3>4, <3>5, <3>6, <3>7
  <2>7. CASE HttpFailed
    <3>1. /\ report \in Passed("ok", "ok", "ok") /\ UNCHANGED <<answers, servers, now, until>>
          /\ (hijacked <=> Intercepted) /\ ~(answers.body = "whole" /\ now < until)
      BY <2>7 DEF HttpFailed, Shape, ReportSoFar, AnswersSoFar, ReturnReport, input, clock,
         LadderTypeOK
    <3>2. /\ report'.state = ClassifyFailure(hijacked).state
          /\ report'.dns = "ok" /\ report'.gateway = "ok" /\ report'.http = "failed"
      BY <2>7, <3>1 DEF HttpFailed, Passed
    <3>3. QED
      BY <3>1, <3>2 DEF ClassifyFailure
  <2>8. at' = "done" /\ at # "done" =>
          \/ NoLink \/ NoGateway \/ GatewayUpNoServers \/ GatewayDown
          \/ DnsUnresolved \/ DnsTimedOut \/ HttpReplied \/ HttpFailed
    BY DEF LadderNext, Step, AskGateway, GatewayUp, DnsResolved, HeadersRead, Begin, Network,
       Connected, LookedUp, Headers, Body, NoReply, Arrives, Tick, ladderVars
  <2>9. QED
    BY <2>1, <2>2, <2>3, <2>4, <2>5, <2>6, <2>7, <2>8
<1>3. QED
  BY <1>1, <1>2, TypeCorrect, ShapeInvariant, PTL DEF LadderSpec

\* The verdict rests on what came back: "online" on the page itself or on silence, over
\* lookups that did not look intercepted, a portal or a DNS failure on evidence.
THEOREM VerdictsAreJustified == LadderSpec => []VerdictIsJustified
<1>1. Judgement => VerdictIsJustified
  BY DEF Judgement
<1>2. QED
  BY <1>1, JudgementInvariant, PTL

\* An answer that is complete when the ladder is polled counts at every stage, expired
\* timer or not, but for a reply that the HTTP client's own timer takes away.
THEOREM AnswersBeatTimers == LadderSpec => []AnswerBeatsTimer
<1>1. Judgement => AnswerBeatsTimer
  BY DEF Judgement
<1>2. QED
  BY <1>1, JudgementInvariant, PTL

\* Every behaviour of the ladder is one Verdict allows: silence, then one
\* report that keeps to the contract, within the bound.
THEOREM LadderKeepsPromise == LadderSpec => KeepsPromise
<1> DEFINE answer == IF at = "done" THEN report ELSE NothingKnown
           Inv == LadderTypeOK /\ Shape /\ WithinBudget
<1>1. LadderInit => Promise!Init
  BY DEF LadderInit, NothingKnown, Promise!Init, Promise!Silence
<1>2. Inv /\ Inv' /\ [LadderNext]_ladderVars => [Promise!Next]_<<now, answer>>
  <2> SUFFICES ASSUME Inv, Inv', [LadderNext]_ladderVars
               PROVE  [Promise!Next]_<<now, answer>>
    OBVIOUS
  <2>0. NothingKnown = Promise!Silence /\ now \in Nat
    BY DEF NothingKnown, Promise!Silence, LadderTypeOK
  <2>1. CASE at = "done"
    BY <2>1, Steps
  <2>2. CASE at # "done" /\ now' = now + 1 /\ at' = at
    <3>1. Promise!Wait
      BY <2>0, <2>2 DEF Promise!Wait, WithinBudget
    <3>2. QED
      BY <3>1 DEF Promise!Next
  <2>3. CASE at # "done" /\ now' = now /\ at' # "done"
    BY <2>3
  <2>4. CASE at # "done" /\ now' = now /\ at' = "done"
    <3>1. report' \in Promise!BrokenBeforeHttp \cup Promise!Judged
      BY <2>4 DEF Shape, ReportSoFar
    <3>2. Promise!Reply
      BY <2>0, <2>4, <3>1 DEF Promise!Reply
    <3>3. QED
      BY <3>2 DEF Promise!Next
  <2>5. QED
    BY <2>1, <2>2, <2>3, <2>4, Steps
<1>3. QED
  BY <1>1, <1>2, TypeCorrect, ShapeInvariant, BudgetHolds, PTL
  DEF LadderSpec, KeepsPromise, Promise!Spec

-----------------------------------------------------------------------------
(***************************************************************************)
(* geo.json and the runs that share it, for any number of runs, networks   *)
(* and providers, any TTL, and overlaps and kills anywhere.                *)
(***************************************************************************)

\* The machine stays where it is, and its tunnel as it is, during a run.
Standing == "midrun" \notin Changes

\* An answer names the provider its traffic came out of, and traffic that went
\* through a tunnel was asked for over a route that had one.
GoodObservation(o) ==
  /\ o \in Observations
  /\ o.asn # "none" =>
       /\ o.network \in Networks
       /\ o.asn = IF o.tunnelled THEN VpnAsn ELSE Isp[o.network]
  /\ Standing /\ o.tunnelled => o.over[2]

GoodBaseline(b) ==
  /\ b.asn # "none" => b.network \in Networks
                    /\ b.asn = IF b.tunnelled THEN VpnAsn ELSE Isp[b.network]
  /\ b.known => ~b.vpn /\ (Standing => ~b.tunnelled)

\* A record is for the route its observation was asked over, and no older than
\* it says.
GoodCache(c) ==
  /\ c \in Caches
  /\ GoodObservation(c.observation)
  /\ GoodBaseline(c.baseline)
  /\ c.state = "whole" => c.fingerprint = c.observation.over
  /\ c.observation.seen >= c.fetched_at

Active(r) == pc[r] \notin {"idle", "done", "dead"}

\* What a run holds an address from: the file, or its own lookup.
Has(r) == Hit(r) \/ lookup[r] = "answered"

RunOK(r) ==
  /\ GoodCache(loaded[r].cache) /\ GoodObservation(found[r])
  /\ loaded[r].now <= time
  /\ snap[r].vpn = snap[r].fingerprint[2]
  /\ Standing /\ Active(r) => snap[r].vpn = (tunnel # "down")
  /\ pc[r] \in {"idle", "looked"} =>
       loaded[r] = NothingLoaded /\ lookup[r] = "none" /\ found[r] = Nothing
  /\ pc[r] = "waiting" => lookup[r] # "none"
  /\ pc[r] \in {"storing", "writing"} => Has(r)
  /\ lookup[r] # "none" => ~Hit(r) /\ ~snap[r].private
  /\ ~Has(r) => found[r] = Nothing
  /\ Has(r) =>
       /\ found[r].over = snap[r].fingerprint
       /\ loaded[r].now - found[r].seen < TTL
       /\ FetchedAt(r) <= found[r].seen

ShownOK(address) ==
  /\ address.known => address.age < TTL
  /\ PlainBaseline(address) =>
       /\ address.via = "no" => ~address.tunnelled
       /\ address.via = "yes" /\ address.comparable => address.tunnelled

GInv ==
  /\ TypeOK
  /\ GoodCache(file)
  /\ \A r \in Runs : RunOK(r) /\ ShownOK(shown[r])

-----------------------------------------------------------------------------
LEMMA BlanksAreGood ==
  /\ GoodObservation(Nothing) /\ GoodBaseline(NoBaseline)
  /\ \A state \in {"absent", "unreadable", "whole"} :
       NoCache(state) \in Caches
         /\ (state # "whole" => GoodCache(NoCache(state)))
  /\ NoSnapshot \in [private : BOOLEAN, fingerprint : Routes, vpn : BOOLEAN]
  /\ NoSnapshot.private /\ NoSnapshot.vpn = FALSE /\ NoSnapshot.fingerprint[2] = FALSE
  /\ NothingLoaded.cache = NoCache("absent") /\ NothingLoaded.now = 0
<1> USE WorldAssumption
<1>1. <<"none", FALSE>> \in Routes
  BY DEF Routes
<1>2. Nothing \in Observations
  BY <1>1 DEF Nothing, Observations
<1>3. GoodObservation(Nothing)
  BY <1>2 DEF GoodObservation, Nothing
<1>4. GoodBaseline(NoBaseline)
  BY DEF GoodBaseline, NoBaseline
<1>5. ASSUME NEW state \in {"absent", "unreadable", "whole"}
      PROVE  NoCache(state) \in Caches
  BY <1>1, <1>2 DEF NoCache, Caches, NoBaseline
<1>6. ASSUME NEW state \in {"absent", "unreadable"}
      PROVE  GoodCache(NoCache(state))
  <2>1. /\ NoCache(state).observation = Nothing /\ NoCache(state).baseline = NoBaseline
        /\ NoCache(state).fetched_at = 0 /\ NoCache(state).state = state
    BY DEF NoCache
  <2>2. Nothing.seen = 0
    BY DEF Nothing
  <2> QED BY <1>3, <1>4, <1>5, <2>1, <2>2 DEF GoodCache
<1>7. /\ NoSnapshot \in [private : BOOLEAN, fingerprint : Routes, vpn : BOOLEAN]
      /\ NoSnapshot.private /\ NoSnapshot.vpn = FALSE /\ NoSnapshot.fingerprint[2] = FALSE
  BY <1>1 DEF NoSnapshot
<1> QED
  BY <1>3, <1>4, <1>5, <1>6, <1>7 DEF NothingLoaded

\* What the interfaces say of the tunnel is what the fingerprint says of it.
LEMMA SnapshotIsGood ==
  ASSUME network \in Networks, NEW private \in BOOLEAN
  PROVE  /\ Snapshot(private) \in [private : BOOLEAN, fingerprint : Routes, vpn : BOOLEAN]
         /\ Snapshot(private).private = private
         /\ Snapshot(private).vpn = (tunnel # "down")
         /\ Snapshot(private).fingerprint[2] = Snapshot(private).vpn
<1> DEFINE up == tunnel # "down"
           gateway == Gateway[network]
<1>1. up \in BOOLEAN
  OBVIOUS
<1>2. gateway \in {Gateway[n] : n \in Networks} \cup {"none"}
  OBVIOUS
<1>3. Snapshot(private) =
        [private |-> private, fingerprint |-> <<gateway, up>>, vpn |-> up]
  BY DEF Snapshot, Fingerprint
<1> HIDE DEF up, gateway
<1>4. <<gateway, up>> \in Routes /\ <<gateway, up>>[2] = up
  BY <1>1, <1>2 DEF Routes
<1>5. /\ Snapshot(private) \in [private : BOOLEAN, fingerprint : Routes, vpn : BOOLEAN]
      /\ Snapshot(private).private = private /\ Snapshot(private).vpn = up
      /\ Snapshot(private).fingerprint[2] = up
  BY <1>1, <1>3, <1>4
<1> QED BY <1>5 DEF up

\* An answer is the truth about the traffic of the moment.
LEMMA AnswersAreGood ==
  ASSUME TypeOK, NEW over \in Routes, Standing => over[2] = (tunnel # "down"),
         NEW o \in Answers(over)
  PROVE  GoodObservation(o) /\ o.over = over /\ o.seen = time
<1> DEFINE carrying == tunnel = "carrying"
           asn == IF carrying THEN VpnAsn ELSE Isp[network]
<1> USE WorldAssumption
<1>1. carrying \in BOOLEAN /\ (Standing /\ carrying => over[2])
  OBVIOUS
<1>2. asn \in {"none", VpnAsn} \cup {Isp[n] : n \in Networks}
  BY DEF TypeOK
<1>3. PICK a \in {"none", asn} :
        o = [asn |-> a, over |-> over, network |-> network,
             tunnelled |-> carrying, seen |-> time]
  BY DEF Answers, Observation
<1>4. o.asn = a /\ o.over = over /\ o.network = network /\ o.seen = time
  BY <1>3
<1> HIDE DEF carrying
<1>5. o.tunnelled = carrying
  BY <1>3
<1>6. o \in Observations
  BY <1>1, <1>2, <1>3 DEF TypeOK, Observations
<1> QED
  BY <1>1, <1>3, <1>4, <1>5, <1>6 DEF GoodObservation, TypeOK

\* A run that has an address writes a good record of it, and reports it truly.
LEMMA RecordsAreGood ==
  ASSUME GInv, NEW r \in Runs, pc[r] \in {"storing", "writing"}
  PROVE  /\ GoodCache(Record(r))
         /\ ShownOK(Public(r))
         /\ Public(r) \in [known : BOOLEAN, via : {"unsaid", "yes", "no"},
                           age : -MaxTime..MaxTime, tunnelled : BOOLEAN,
                           comparable : BOOLEAN, plain : BOOLEAN]
<1> DEFINE cache == loaded[r].cache
           b == Baseline(r)
<1> USE WorldAssumption
<1>1. /\ Has(r) /\ RunOK(r) /\ GoodObservation(found[r]) /\ GoodCache(cache)
      /\ GoodBaseline(cache.baseline) /\ loaded[r].now \in 0..MaxTime
      /\ snap[r] \in [private : BOOLEAN, fingerprint : Routes, vpn : BOOLEAN]
      /\ cache \in Caches
  BY DEF GInv, RunOK, TypeOK, GoodCache
<1>2. /\ found[r].over = snap[r].fingerprint /\ FetchedAt(r) <= found[r].seen
      /\ loaded[r].now - found[r].seen < TTL /\ snap[r].vpn = snap[r].fingerprint[2]
  BY <1>1 DEF RunOK
<1>3. FetchedAt(r) \in 0..MaxTime
  BY <1>1 DEF FetchedAt, Caches
<1>4. \/ b = cache.baseline /\ snap[r].vpn
      \/ b = BaselineOf(found[r], snap[r]) /\ ~snap[r].vpn
  BY <1>1 DEF Baseline, BaselineAfter
<1>5. /\ GoodBaseline(b)
      /\ b \in [asn : {"none", VpnAsn} \cup {Isp[n] : n \in Networks},
                vpn : BOOLEAN, network : Networks \cup {"none"},
                tunnelled : BOOLEAN, known : BOOLEAN]
  <2>1. CASE b = cache.baseline /\ snap[r].vpn
    BY <1>1, <2>1 DEF Caches
  <2>2. CASE b = BaselineOf(found[r], snap[r]) /\ ~snap[r].vpn
    <3>1. found[r] \in Observations
      BY <1>1 DEF GoodObservation
    <3>2. /\ b.asn = found[r].asn /\ b.vpn = snap[r].vpn /\ b.known
          /\ b.network = found[r].network /\ b.tunnelled = found[r].tunnelled
      BY <2>2 DEF BaselineOf
    <3>3. GoodBaseline(b)
      BY <1>1, <1>2, <2>2, <3>2 DEF GoodBaseline, GoodObservation
    <3>4. b \in [asn : {"none", VpnAsn} \cup {Isp[n] : n \in Networks},
                 vpn : BOOLEAN, network : Networks \cup {"none"},
                 tunnelled : BOOLEAN, known : BOOLEAN]
      BY <1>1, <2>2, <3>1 DEF BaselineOf, Observations
    <3> QED BY <3>3, <3>4
  <2> QED BY <1>4, <2>1, <2>2
<1>6. GoodCache(Record(r))
  <2> HIDE DEF b
  <2>1. Record(r) = [state |-> "whole", fingerprint |-> snap[r].fingerprint,
                     fetched_at |-> FetchedAt(r), observation |-> found[r],
                     baseline |-> b]
    BY DEF Record, b
  <2>2. Record(r) \in Caches
    BY <1>1, <1>3, <1>5, <2>1 DEF Caches, GoodObservation
  <2> QED BY <1>1, <1>2, <1>5, <2>1, <2>2 DEF GoodCache
<1>7. DEFINE via == ViaVpn(snap[r].vpn, found[r].asn, b)
<1>8. /\ via \in {"unsaid", "yes", "no"}
      /\ via # "unsaid" => /\ b.known /\ b.asn # "none" /\ found[r].asn # "none"
                           /\ via = "yes" <=> found[r].asn # b.asn
  BY DEF ViaVpn
<1>9. (~Standing => ~b.tunnelled) =>
        /\ via = "no" => ~found[r].tunnelled
        /\ via = "yes" /\ b.network = found[r].network => found[r].tunnelled
  <2> HIDE DEF b, via
  <2> SUFFICES ASSUME via # "unsaid", ~Standing => ~b.tunnelled
               PROVE  /\ via = "no" => ~found[r].tunnelled
                      /\ via = "yes" /\ b.network = found[r].network => found[r].tunnelled
    OBVIOUS
  <2>1. b.network \in Networks /\ b.asn = Isp[b.network]
    BY <1>5, <1>8 DEF GoodBaseline
  <2>2. /\ found[r].asn = IF found[r].tunnelled THEN VpnAsn ELSE Isp[found[r].network]
        /\ found[r].network \in Networks
    BY <1>1, <1>8 DEF GoodObservation
  <2>3. CASE via = "no"
    BY <1>8, <2>1, <2>2, <2>3
  <2>4. CASE via = "yes"
    BY <1>8, <2>1, <2>2, <2>4
  <2> QED BY <1>8, <2>3, <2>4
<1>10. ShownOK(Public(r)) /\
       Public(r) \in [known : BOOLEAN, via : {"unsaid", "yes", "no"},
                      age : -MaxTime..MaxTime, tunnelled : BOOLEAN,
                      comparable : BOOLEAN, plain : BOOLEAN]
  <2> DEFINE same == b.network = found[r].network
             plain == ~b.tunnelled
  <2>1. same \in BOOLEAN /\ plain \in BOOLEAN
    OBVIOUS
  <2>2. Public(r) = [known |-> TRUE, via |-> via, age |-> loaded[r].now - found[r].seen,
                     tunnelled |-> found[r].tunnelled, comparable |-> same,
                     plain |-> plain]
    BY DEF Public
  <2>3. found[r].tunnelled \in BOOLEAN /\ found[r].seen \in 0..MaxTime
    BY <1>1 DEF GoodObservation, Observations
  <2>4. (~Standing => plain) =>
          /\ via = "no" => ~found[r].tunnelled
          /\ via = "yes" /\ same => found[r].tunnelled
    BY <1>9
  <2> HIDE DEF via, same, plain, b
  <2>5. Public(r) \in [known : BOOLEAN, via : {"unsaid", "yes", "no"},
                      age : -MaxTime..MaxTime, tunnelled : BOOLEAN,
                      comparable : BOOLEAN, plain : BOOLEAN]
    BY <1>1, <1>8, <2>1, <2>2, <2>3
  <2>6. PlainBaseline(Public(r)) => (~Standing => plain)
    BY <2>2 DEF PlainBaseline, Standing
  <2> QED BY <1>2, <2>2, <2>4, <2>5, <2>6 DEF ShownOK
<1> QED BY <1>6, <1>10

LEMMA InvInit == Init => GInv
<1> SUFFICES ASSUME Init PROVE GInv
  OBVIOUS
<1> USE WorldAssumption, BlanksAreGood
<1>1. NotShown \in [known : BOOLEAN, via : {"unsaid", "yes", "no"},
                    age : -MaxTime..MaxTime, tunnelled : BOOLEAN,
                    comparable : BOOLEAN, plain : BOOLEAN]
  BY DEF NotShown
<1>2. ShownOK(NotShown)
  BY DEF ShownOK, NotShown, PlainBaseline
<1>3. /\ NothingLoaded \in [cache : Caches, now : 0..MaxTime]
      /\ NothingLoaded.cache.state # "whole"
  BY DEF NothingLoaded, NoCache
<1>4. Nothing \in Observations
  BY DEF GoodObservation
<1>5. TypeOK
  BY <1>1, <1>3, <1>4 DEF Init, TypeOK
<1>6. ASSUME NEW r \in Runs PROVE RunOK(r) /\ ShownOK(shown[r])
  <2>1. ~Hit(r) /\ lookup[r] = "none"
    BY <1>3 DEF Init, Hit
  <2>2. /\ loaded[r] = NothingLoaded /\ found[r] = Nothing /\ snap[r] = NoSnapshot
        /\ pc[r] = "idle" /\ time = 0 /\ shown[r] = NotShown
    BY DEF Init
  <2>3. GoodCache(NothingLoaded.cache)
    OBVIOUS
  <2>4. ~Active(r) /\ ~Has(r)
    BY <2>1, <2>2 DEF Active, Has
  <2>5. snap[r].vpn = snap[r].fingerprint[2]
    BY <2>2
  <2>6. RunOK(r)
    BY <2>1, <2>2, <2>3, <2>4, <2>5 DEF RunOK
  <2> QED BY <1>2, <2>2, <2>6
<1>7. GoodCache(file)
  BY DEF Init
<1> QED
  BY <1>5, <1>6, <1>7 DEF GInv

\* A step of a run changes nothing of the others'.
LEMMA StepsAreOwn ==
  ASSUME TypeOK, NEW r \in Runs, RunStep(r) \/ Crash(r), NEW q \in Runs, q # r
  PROVE  /\ pc'[q] = pc[q] /\ snap'[q] = snap[q] /\ loaded'[q] = loaded[q]
         /\ lookup'[q] = lookup[q] /\ found'[q] = found[q] /\ shown'[q] = shown[q]
         /\ UNCHANGED world
BY DEF RunStep, Crash, Goto, Forget, Keep, Return, TypeOK, world, LookAtInterfaces,
   Load, LookupEnds, LadderEnds, LookupTaken, Truncate, Write, StoreFails

\* What is left of a run that has ended.
LEMMA Forgotten ==
  ASSUME TypeOK, NEW r \in Runs, Forget(r), UNCHANGED world,
         pc' = [pc EXCEPT ![r] = "done"] \/ pc' = [pc EXCEPT ![r] = "dead"]
  PROVE  /\ RunOK(r)'
         /\ snap' \in [Runs -> [private : BOOLEAN, fingerprint : Routes, vpn : BOOLEAN]]
         /\ loaded' \in [Runs -> [cache : Caches, now : 0..MaxTime]]
         /\ lookup' \in [Runs -> {"none", "pending", "answered", "failed"}]
         /\ found' \in [Runs -> Observations]
<1> USE WorldAssumption, BlanksAreGood
<1>1. /\ pc'[r] \in {"done", "dead"} /\ snap'[r] = NoSnapshot
      /\ loaded'[r] = NothingLoaded /\ lookup'[r] = "none" /\ found'[r] = Nothing
  BY DEF Forget, TypeOK
<1>2. NothingLoaded.cache.state # "whole"
  BY DEF NoCache
<1>3. ~Hit(r)' /\ ~Has(r)'
  BY <1>1, <1>2 DEF Hit, Has
<1>4. RunOK(r)'
  <2>1. GoodCache(NothingLoaded.cache) /\ snap'[r].vpn = snap'[r].fingerprint[2]
    BY <1>1
  <2>2. ~Active(r)' /\ time' \in Nat
    BY <1>1 DEF Active, TypeOK, world
  <2> QED BY <1>1, <1>3, <2>1, <2>2 DEF RunOK
<1>5. NothingLoaded \in [cache : Caches, now : 0..MaxTime] /\ Nothing \in Observations
  BY DEF NothingLoaded, GoodObservation
<1> QED
  BY <1>4, <1>5 DEF Forget, TypeOK

\* Each step of a run keeps what is known of it, and the types.
LEMMA OwnStep ==
  ASSUME GInv, NEW r \in Runs, RunStep(r) \/ Crash(r)
  PROVE  TypeOK' /\ RunOK(r)' /\ GoodCache(file)' /\ ShownOK(shown[r])'
<1> USE WorldAssumption
<1>0. /\ TypeOK /\ RunOK(r) /\ GoodCache(file) /\ ShownOK(shown[r])
      /\ UNCHANGED world
  BY StepsAreOwn DEF GInv, RunStep, Crash, world, LookAtInterfaces, Load, LookupEnds,
     LadderEnds, LookupTaken, Truncate, Write, StoreFails
<1>1. CASE LookAtInterfaces(r)
  <2> PICK private \in BOOLEAN : snap' = [snap EXCEPT ![r] = Snapshot(private)]
    BY <1>1 DEF LookAtInterfaces
  <2>1. /\ pc[r] = "idle" /\ pc' = [pc EXCEPT ![r] = "looked"]
        /\ UNCHANGED <<world, file, loaded, lookup, found, shown>>
    BY <1>1 DEF LookAtInterfaces, Goto
  <2>2. /\ Snapshot(private) \in [private : BOOLEAN, fingerprint : Routes, vpn : BOOLEAN]
        /\ Snapshot(private).vpn = (tunnel # "down")
        /\ Snapshot(private).fingerprint[2] = Snapshot(private).vpn
    BY <1>0, SnapshotIsGood DEF TypeOK
  <2>3. TypeOK'
    BY <1>0, <2>1, <2>2 DEF TypeOK, world
  <2>4. ~Hit(r)' /\ ~Has(r)'
    BY <1>0, <2>1, BlanksAreGood DEF RunOK, Hit, Has, NoCache
  <2>5. snap'[r] = Snapshot(private) /\ pc'[r] = "looked"
    BY <1>0, <2>1 DEF TypeOK
  <2>6. RunOK(r)'
    BY <1>0, <2>1, <2>2, <2>4, <2>5 DEF RunOK, world
  <2> QED BY <1>0, <2>1, <2>3, <2>6
<1>2. CASE Load(r)
  <2> DEFINE cache == IF file.state = "whole" THEN file ELSE NoCache("absent")
             hit == file.state = "whole" /\ IsFresh(file, snap[r].fingerprint, time)
  <2>1. /\ pc[r] = "looked" /\ pc' = [pc EXCEPT ![r] = "ladder"]
        /\ loaded' = [loaded EXCEPT ![r] = [cache |-> cache, now |-> time]]
        /\ lookup' = [lookup EXCEPT ![r] = IF MayLookUp(r) /\ ~hit THEN "pending" ELSE "none"]
        /\ found' = [found EXCEPT ![r] = IF MayLookUp(r) /\ hit THEN file.observation ELSE Nothing]
        /\ UNCHANGED <<world, file, snap, shown>>
    BY <1>2 DEF Load, Goto
  <2>2. GoodCache(cache) /\ cache \in Caches
    BY <1>0, BlanksAreGood DEF GoodCache
  <2>3. cache.state = "whole" <=> file.state = "whole"
    BY DEF NoCache
  <2>4. file.state = "whole" => cache = file
    OBVIOUS
  <2> HIDE DEF cache
  <2>5. /\ loaded'[r].cache = cache /\ loaded'[r].now = time
        /\ pc'[r] = "ladder" /\ snap'[r] = snap[r]
    BY <1>0, <2>1 DEF TypeOK
  <2>6. Hit(r)' <=> MayLookUp(r) /\ hit
    BY <2>1, <2>3, <2>4, <2>5 DEF Hit, MayLookUp
  <2>7. found'[r] = (IF MayLookUp(r) /\ hit THEN file.observation ELSE Nothing)
    BY <1>0, <2>1 DEF TypeOK
  <2>8. lookup'[r] = (IF MayLookUp(r) /\ ~hit THEN "pending" ELSE "none")
    BY <1>0, <2>1 DEF TypeOK
  <2>9. GoodObservation(found'[r]) /\ found'[r] \in Observations
    BY <1>0, <2>7, BlanksAreGood DEF GoodCache, GoodObservation
  <2>10. TypeOK'
    <3>1. [cache |-> cache, now |-> time] \in [cache : Caches, now : 0..MaxTime]
      BY <1>0, <2>2 DEF TypeOK
    <3>2. /\ loaded' \in [Runs -> [cache : Caches, now : 0..MaxTime]]
          /\ lookup' \in [Runs -> {"none", "pending", "answered", "failed"}]
          /\ found' \in [Runs -> Observations]
      BY <1>0, <2>1, <2>7, <2>9, <3>1 DEF TypeOK
    <3> QED BY <1>0, <2>1, <3>2 DEF TypeOK, world
  <2>11. Has(r)' => Hit(r)'
    BY <2>8 DEF Has
  <2>12. Hit(r)' =>
           /\ found'[r] = file.observation /\ found'[r].over = snap[r].fingerprint
           /\ FetchedAt(r)' = file.fetched_at
           /\ time - file.fetched_at < TTL
    BY <1>0, <2>4, <2>5, <2>6, <2>7, <2>3 DEF FetchedAt, IsFresh, GoodCache
  <2>13. Hit(r)' => time - found'[r].seen < TTL /\ FetchedAt(r)' <= found'[r].seen
    BY <1>0, <2>12 DEF TypeOK, Caches, GoodCache, GoodObservation, Observations
  <2>14. lookup'[r] # "none" => ~Hit(r)' /\ ~snap'[r].private
    BY <2>5, <2>6, <2>8 DEF MayLookUp
  <2>15. ~Has(r)' => found'[r] = Nothing
    BY <2>6, <2>7 DEF Has
  <2>16. RunOK(r)'
    BY <1>0, <2>1, <2>2, <2>5, <2>9, <2>11, <2>12, <2>13, <2>14, <2>15
    DEF RunOK, Active, world, TypeOK
  <2> QED BY <1>0, <2>1, <2>10, <2>16
<1>3. CASE LookupEnds(r)
  <2>1. /\ lookup[r] = "pending" /\ pc[r] \in {"ladder", "waiting"}
        /\ UNCHANGED <<world, file, pc, snap, loaded, shown>>
    BY <1>3 DEF LookupEnds
  <2>2. ~Hit(r) /\ ~Has(r) /\ found[r] = Nothing /\ ~snap[r].private /\ ~Hit(r)'
    BY <1>0, <2>1 DEF RunOK, Has, Hit, MayLookUp
  <2>3. CASE lookup' = [lookup EXCEPT ![r] = "failed"] /\ UNCHANGED found
    <3>1. lookup'[r] = "failed" /\ ~Has(r)'
      BY <1>0, <2>2, <2>3 DEF TypeOK, Has
    <3>2. RunOK(r)'
      BY <1>0, <2>1, <2>2, <2>3, <3>1 DEF RunOK, Active, world
    <3>3. TypeOK'
      BY <1>0, <2>1, <2>3 DEF TypeOK, world
    <3> QED BY <1>0, <2>1, <3>2, <3>3
  <2>4. CASE /\ lookup' = [lookup EXCEPT ![r] = "answered"]
             /\ \E observation \in Answers(snap[r].fingerprint) :
                  found' = [found EXCEPT ![r] = observation]
    <3> PICK observation \in Answers(snap[r].fingerprint) :
          found' = [found EXCEPT ![r] = observation]
      BY <2>4
    <3>1. snap[r].fingerprint \in Routes
      BY <1>0 DEF TypeOK
    <3>2. Standing => snap[r].fingerprint[2] = (tunnel # "down")
      BY <1>0, <2>1 DEF RunOK, Active
    <3>3. /\ GoodObservation(observation) /\ observation.over = snap[r].fingerprint
          /\ observation.seen = time
      BY <1>0, <3>1, <3>2, AnswersAreGood
    <3>4. found'[r] = observation /\ lookup'[r] = "answered" /\ Has(r)'
      BY <1>0, <2>4 DEF TypeOK, Has
    <3>5. FetchedAt(r)' = loaded[r].now
      BY <2>1, <2>2 DEF FetchedAt
    <3>6. loaded[r].now - time < TTL /\ loaded[r].now <= time
      <4>1. loaded[r].now \in Nat /\ loaded[r].now <= time /\ time \in Nat
        BY <1>0 DEF RunOK, TypeOK
      <4> QED BY <4>1
    <3>7. RunOK(r)'
      BY <1>0, <2>1, <2>2, <3>3, <3>4, <3>5, <3>6 DEF RunOK, Active, world
    <3>8. TypeOK'
      BY <1>0, <2>1, <2>4, <3>3 DEF TypeOK, GoodObservation, world
    <3> QED BY <1>0, <2>1, <3>7, <3>8
  <2> QED BY <1>3, <2>3, <2>4 DEF LookupEnds
<1>4. CASE /\ pc[r] \in {"ladder", "waiting"} /\ Keep
           /\ Has(r) \/ pc'[r] = "waiting"
           /\ pc' = [pc EXCEPT ![r] = "waiting"] \/ pc' = [pc EXCEPT ![r] = "storing"]
           /\ pc'[r] = "waiting" => lookup[r] # "none"
           /\ UNCHANGED <<world, file, shown>>
  <2>1. pc'[r] \in {"waiting", "storing"} /\ TypeOK'
    BY <1>0, <1>4 DEF TypeOK, Keep, world
  <2>2. UNCHANGED <<Hit(r), Has(r), FetchedAt(r)>>
    BY <1>4 DEF Keep, Hit, Has, FetchedAt, MayLookUp
  <2>3. RunOK(r)'
    BY <1>0, <1>4, <2>1, <2>2 DEF RunOK, Active, Keep, world
  <2> QED BY <1>0, <1>4, <2>1, <2>3
<1>5. CASE /\ Forget(r) /\ UNCHANGED <<world, file, shown>>
           /\ pc' = [pc EXCEPT ![r] = "done"] \/ pc' = [pc EXCEPT ![r] = "dead"]
  BY <1>0, <1>5, Forgotten DEF TypeOK, world
<1>6. CASE Truncate(r)
  <2>1. /\ pc[r] = "storing" /\ pc' = [pc EXCEPT ![r] = "writing"]
        /\ file' = NoCache("unreadable")
        /\ UNCHANGED <<world, snap, loaded, lookup, found, shown>>
    BY <1>6 DEF Truncate, Goto
  <2>2. pc'[r] = "writing" /\ TypeOK' /\ GoodCache(file')
    BY <1>0, <2>1, BlanksAreGood DEF TypeOK, world
  <2>3. UNCHANGED <<Hit(r), Has(r), FetchedAt(r)>>
    BY <2>1 DEF Hit, Has, FetchedAt, MayLookUp
  <2>4. RunOK(r)'
    BY <1>0, <2>1, <2>2, <2>3 DEF RunOK, Active, world
  <2> QED BY <1>0, <2>1, <2>2, <2>4
<1>7. CASE /\ pc[r] \in {"storing", "writing"} /\ Return(r) /\ Forget(r)
           /\ pc' = [pc EXCEPT ![r] = "done"]
           /\ file' \in {file, Record(r), NoCache("unreadable")}
  <2>1. /\ GoodCache(Record(r)) /\ ShownOK(Public(r))
        /\ Public(r) \in [known : BOOLEAN, via : {"unsaid", "yes", "no"},
                          age : -MaxTime..MaxTime, tunnelled : BOOLEAN,
                          comparable : BOOLEAN, plain : BOOLEAN]
    BY <1>7, RecordsAreGood
  <2>2. /\ GoodCache(file') /\ file' \in Caches
    BY <1>0, <1>7, <2>1, BlanksAreGood DEF GoodCache
  <2> HIDE DEF Public, Record
  <2>3. shown'[r] = Public(r)
    BY <1>0, <1>7 DEF Return, TypeOK
  <2>4. /\ shown' \in [Runs -> [known : BOOLEAN, via : {"unsaid", "yes", "no"},
                         age : -MaxTime..MaxTime, tunnelled : BOOLEAN,
                         comparable : BOOLEAN, plain : BOOLEAN]]
    BY <1>0, <1>7, <2>1 DEF Return, TypeOK
  <2>5. RunOK(r)' /\ TypeOK'
    BY <1>0, <1>7, <2>2, <2>4, Forgotten DEF TypeOK, world
  <2> QED BY <2>1, <2>2, <2>3, <2>5
<1>8. CASE LadderEnds(r)
  BY <1>0, <1>4, <1>5, <1>8 DEF LadderEnds, Goto, Has, TypeOK
<1>9. CASE LookupTaken(r)
  BY <1>0, <1>4, <1>5, <1>9 DEF LookupTaken, Goto, Has, TypeOK
<1>10. CASE Write(r)
  BY <1>7, <1>10 DEF Write, Goto
<1>11. CASE StoreFails(r)
  BY <1>7, <1>11 DEF StoreFails, Goto
<1>12. CASE Crash(r)
  BY <1>5, <1>12 DEF Crash
<1> QED
  BY <1>1, <1>2, <1>3, <1>6, <1>8, <1>9, <1>10, <1>11, <1>12 DEF RunStep

\* The world moves: runs under way see no change of the tunnel if it stands.
LEMMA WorldStep ==
  ASSUME GInv, PassTime \/ Roam \/ Tunnel \/ UNCHANGED vars
  PROVE  GInv'
<1> USE WorldAssumption
<1>1. /\ UNCHANGED <<file, pc, snap, loaded, lookup, found, shown>>
      /\ time' \in 0..MaxTime /\ time' >= time
      /\ network' \in Networks /\ tunnel' \in {"down", "carrying", "leaking"}
  BY DEF GInv, TypeOK, PassTime, Roam, Tunnel, vars, world
<1>2. \A r \in Runs : Standing /\ Active(r) => tunnel' = tunnel
  BY DEF PassTime, Roam, Tunnel, vars, world, Standing, Active, Calm, UnderWay
<1>3. TypeOK'
  BY <1>1 DEF GInv, TypeOK
<1>4. ASSUME NEW r \in Runs PROVE RunOK(r)'
  <2>1. (Hit(r)' <=> Hit(r)) /\ (Has(r)' <=> Has(r)) /\ (Active(r)' <=> Active(r))
    BY <1>1 DEF Hit, Has, MayLookUp, Active
  <2>2. FetchedAt(r)' = FetchedAt(r)
    BY <1>1, <2>1 DEF FetchedAt
  <2>3. RunOK(r) /\ loaded[r].now \in Nat /\ time \in Nat /\ time' \in Nat
    BY <1>1 DEF GInv, TypeOK
  <2> QED BY <1>1, <1>2, <2>1, <2>2, <2>3 DEF RunOK
<1> QED
  BY <1>1, <1>3, <1>4 DEF GInv

LEMMA InvNext == GInv /\ [Next]_vars => GInv'
<1> SUFFICES ASSUME GInv, [Next]_vars PROVE GInv'
  OBVIOUS
<1>1. ASSUME NEW r \in Runs, RunStep(r) \/ Crash(r) PROVE GInv'
  <2>1. ASSUME NEW q \in Runs, q # r PROVE RunOK(q)' /\ ShownOK(shown[q])'
    <3>1. /\ pc'[q] = pc[q] /\ snap'[q] = snap[q] /\ loaded'[q] = loaded[q]
          /\ lookup'[q] = lookup[q] /\ found'[q] = found[q] /\ shown'[q] = shown[q]
          /\ UNCHANGED world
      BY <1>1, <2>1, StepsAreOwn DEF GInv
    <3>2. (Hit(q)' <=> Hit(q)) /\ (Has(q)' <=> Has(q)) /\ (Active(q)' <=> Active(q))
      BY <3>1 DEF Hit, Has, MayLookUp, Active
    <3>3. FetchedAt(q)' = FetchedAt(q)
      BY <3>1, <3>2 DEF FetchedAt
    <3> QED BY <3>1, <3>2, <3>3 DEF GInv, RunOK, world
  <2> QED BY <1>1, <2>1, OwnStep DEF GInv
<1> QED
  BY <1>1, WorldStep DEF Next

LEMMA Invariant == Spec => []GInv
BY InvInit, InvNext, PTL DEF Spec

\* The file, the runs and what they report keep their types.
THEOREM GeoCacheTypeCorrect == Spec => []TypeOK
<1>1. GInv => TypeOK
  BY DEF GInv
<1> QED
  BY Invariant, <1>1, PTL

\* For any number of runs that read geo.json and write it over, and any TTL: an
\* address on a report was seen less than a TTL before its run asked.
THEOREM AddressesAreFresh == Spec => []ShownWithinTTL
<1>1. GInv => ShownWithinTTL
  BY DEF GInv, ShownOK, ShownWithinTTL
<1> QED
  BY Invariant, <1>1, PTL

\* Overlaps, torn writes and kills leave no record behind that names another
\* route than its observation's, or a baseline recorded under a VPN; and none made of
\* traffic that went through one, as long as the world stands still during a run.
THEOREM GeoFileIsSound == Spec => []FileIsSound
<1>1. GInv => FileIsSound
  BY DEF GInv, GoodCache, GoodBaseline, FileIsSound, BaselineIsPlain,
     RecordsMatchRoute, Standing
<1> QED
  BY Invariant, <1>1, PTL

\* With --no-lookup nothing is asked, reported or written, whatever the file
\* and the other runs hold.
THEOREM PrivateRunsAreQuiet == Spec => []PrivateRunsAskNothing
<1>1. GInv => PrivateRunsAskNothing
  <2> SUFFICES ASSUME GInv, NEW r \in UnderWay, snap[r].private
               PROVE  /\ lookup[r] = "none" /\ found[r] = Nothing
                      /\ pc[r] \notin {"storing", "writing"}
    BY DEF PrivateRunsAskNothing
  <2>1. RunOK(r) /\ ~Hit(r)
    BY DEF GInv, UnderWay, Hit, MayLookUp
  <2> QED BY <2>1 DEF RunOK, Has
<1> QED
  BY Invariant, <1>1, PTL

\* For any networks, providers, overlaps and kills, an alarm about the VPN is true of
\* the traffic the provider saw, and a reassurance too if the baseline was seen from
\* the same network; unless the world changed during a run and left a baseline that
\* is the tunnel's.
THEOREM VerdictsAreSound == Spec => []VerdictsSound
<1>1. GInv => VerdictsSound
  BY DEF GInv, ShownOK, VerdictsSound, AlarmsAreTrue, ReassurancesAreTrue
<1> QED
  BY Invariant, <1>1, PTL

=============================================================================
