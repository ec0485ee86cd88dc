---------------------------- MODULE DaemonProofs ----------------------------
(***************************************************************************)
(* What Daemon promises of one exchange, proved for every arrangement of   *)
(* sockets, every reply and all values of TIMEOUT, MAX_BODY and BUFFER.    *)
(***************************************************************************)
EXTENDS Daemon, SequenceTheorems, TLAPS

-----------------------------------------------------------------------------
(* The counters of the exchange, and what a read costs at most.            *)

Counters ==
  /\ reply \in [Daemons -> Replies]
  /\ got \in Nat /\ waited \in 0..TIMEOUT /\ reads \in Nat /\ elapsed \in Nat

\* Inductive where PatienceIsPerRead is not: every read before this one took
\* TIMEOUT at most, and this one has taken what was waited.
Patient == elapsed <= reads * TIMEOUT + waited

LEMMA OneMore ==
  ASSUME NEW n \in Nat, NEW t \in Nat
  PROVE  n * t \in Nat /\ (n + 1) * t = n * t + t
  BY SMT

LEMMA ExchangeInit == Init => Counters /\ Patient
  BY DaemonAssumption, SMT DEF Init, Counters, Patient, DaemonAssumption

LEMMA ExchangeStep ==
  ASSUME Counters, Patient, [Next]_vars
  PROVE  Counters' /\ Patient'
<1>0. TIMEOUT \in Nat \ {0} /\ BUFFER \in Nat
  BY DaemonAssumption DEF DaemonAssumption
<1>1. CASE ListCandidates \/ ConnectFails \/ Closed \/ ReadTimesOut
           \/ Believe \/ Dismiss \/ Exhausted \/ UNCHANGED vars
  BY <1>1 DEF ListCandidates, ConnectFails, Closed, ReadTimesOut, Believe, Dismiss,
       Exhausted, vars, given, exchange, Counters, Patient
<1>2. CASE Connect \/ ReadTooMuch
  BY <1>0, <1>2, SMT DEF Connect, ReadTooMuch, given, Counters, Patient
<1>3. CASE Read
  <2>1. /\ got' \in Nat /\ waited' = 0 /\ reads' = reads + 1
        /\ elapsed' = elapsed /\ reply' = reply
    BY <1>0, <1>3, SMT DEF Read, given, Counters
  <2>2. reads' * TIMEOUT = reads * TIMEOUT + TIMEOUT
    BY <1>0, <2>1, OneMore DEF Counters
  <2>3. reads * TIMEOUT \in Nat
    BY <1>0, OneMore DEF Counters
  <2> QED
    BY <1>0, <2>1, <2>2, <2>3, SMT DEF Counters, Patient
<1>4. CASE Tick
  <2>1. /\ got' = got /\ reads' = reads /\ reply' = reply
        /\ waited' \in 0..TIMEOUT /\ waited' = waited + 1 /\ elapsed' = elapsed + 1
    BY <1>0, <1>4, SMT DEF Tick, given, Counters
  <2>2. reads * TIMEOUT \in Nat
    BY <1>0, OneMore DEF Counters
  <2> QED
    BY <1>0, <2>1, <2>2, SMT DEF Counters, Patient
<1> QED
  BY <1>1, <1>2, <1>3, <1>4 DEF Next, Step, DaemonStep

LEMMA ExchangeHolds == Spec => [](Counters /\ Patient)
<1>1. Counters /\ Patient /\ [Next]_vars => (Counters /\ Patient)'
  BY ExchangeStep
<1> QED
  BY ExchangeInit, <1>1, PTL DEF Spec

\* However slowly a daemon replies (`ask`), it holds the command TIMEOUT for each
\* read that brought something and once more: the first half of WaitIsBounded.
THEOREM PatienceHolds == Spec => []PatienceIsPerRead
<1>1. Counters /\ Patient => PatienceIsPerRead
  <2> SUFFICES ASSUME Counters, Patient PROVE PatienceIsPerRead
    OBVIOUS
  <2>0. TIMEOUT \in Nat
    BY DaemonAssumption DEF DaemonAssumption
  <2>1. /\ reads * TIMEOUT \in Nat
        /\ (reads + 1) * TIMEOUT = reads * TIMEOUT + TIMEOUT
    BY <2>0, OneMore DEF Counters
  <2> QED
    BY <2>0, <2>1, SMT DEF Counters, Patient, PatienceIsPerRead
<1> QED
  BY ExchangeHolds, <1>1, PTL

-----------------------------------------------------------------------------
(* The candidates.                                                         *)

Runtimes == {"docker", "orbstack", "colima", "rancher", "podman"}

Present == {c \in [runtime : Runtimes, path : Paths] : Exists(c)}

\* The socket in hand is one there is.
Queued ==
  /\ layout \in [Paths -> Daemons \cup {Nobody}]
  /\ queue \in Seq(Present)
  /\ pc \in {"reading", "judge"} => queue # <<>>

\* Every socket there is has still to be tried or was tried in vain, and the query
\* only ends without an answer when none is left.
Accounted ==
  /\ pc = "start" => queue = <<>> /\ failed = {}
  /\ pc # "start" => ToSet(queue) \cup failed = ToSet(SocketPaths(env))
  /\ pc = "done" /\ ~Answered => queue = <<>>
  /\ pc # "done" => ~Answered

LEMMA RetainedIsPresent ==
  ASSUME NEW r \in Runtimes, NEW p \in Paths
  PROVE  Retained(r, p) \in Seq(Present)
<1> DEFINE c == Candidate(r, p)
<1>1. c \in [runtime : Runtimes, path : Paths]
  BY DEF Candidate
<1>2. CASE Exists(c)
  <2>1. c \in Present
    BY <1>1, <1>2 DEF Present
  <2>2. <<c>> \in Seq(Present)
    BY <2>1
  <2> QED
    BY <1>2, <2>2 DEF Retained
<1>3. CASE ~Exists(c)
  BY <1>3, EmptySeq DEF Retained
<1> QED
  BY <1>2, <1>3

LEMMA PathsArePresent ==
  ASSUME NEW e
  PROVE  SocketPaths(e) \in Seq(Present)
<1>1. <<>> \in Seq(Present)
  BY EmptySeq
<1>2. /\ Retained("docker", "host") \in Seq(Present)
      /\ Retained("orbstack", "orbstack") \in Seq(Present)
      /\ Retained("colima", "colima") \in Seq(Present)
      /\ Retained("rancher", "rancher") \in Seq(Present)
      /\ Retained("docker", "desktop") \in Seq(Present)
      /\ Retained("podman", "podman") \in Seq(Present)
      /\ Retained("docker", "system") \in Seq(Present)
  BY RetainedIsPresent DEF Runtimes, Paths
<1>3. \A s, t \in Seq(Present) : s \o t \in Seq(Present)
  BY ConcatProperties
<1> DEFINE home == Retained("orbstack", "orbstack") \o Retained("colima", "colima")
                     \o Retained("rancher", "rancher") \o Retained("docker", "desktop")
           A == IF e.docker_host = "unix" THEN Retained("docker", "host") ELSE <<>>
           B == IF e.home THEN home ELSE <<>>
           C == IF e.runtime_dir THEN Retained("podman", "podman") ELSE <<>>
           D == Retained("docker", "system")
<1>4. home \in Seq(Present)
  BY <1>2, <1>3
<1>5. A \in Seq(Present) /\ B \in Seq(Present) /\ C \in Seq(Present) /\ D \in Seq(Present)
  BY <1>1, <1>2, <1>4
<1>6. SocketPaths(e) = A \o B \o C \o D
  BY DEF SocketPaths
<1> HIDE DEF A, B, C, D
<1> QED
  BY <1>3, <1>5, <1>6

\* Giving up on one socket loses none of the others.
LEMMA OneIsTried ==
  ASSUME NEW s \in Seq(Present), s # <<>>
  PROVE  ToSet(s) = ToSet(Tail(s)) \cup {Head(s)}
<1>1. /\ Len(s) \in Nat \ {0} /\ DOMAIN s = 1..Len(s) /\ Head(s) = s[1]
  BY LenProperties, EmptySeq, SMT
<1>2. /\ DOMAIN Tail(s) = 1..(Len(s) - 1)
      /\ \A i \in 1..(Len(s) - 1) : Tail(s)[i] = s[i + 1]
  BY HeadTailProperties, LenProperties
<1>3. \A i \in DOMAIN s : s[i] \in ToSet(Tail(s)) \cup {Head(s)}
  <2> TAKE i \in DOMAIN s
  <2>1. CASE i = 1
    BY <1>1, <2>1
  <2>2. CASE i # 1
    <3>1. i - 1 \in DOMAIN Tail(s) /\ Tail(s)[i - 1] = s[i]
      BY <1>1, <1>2, <2>2, SMT
    <3> QED
      BY <3>1 DEF ToSet
  <2> QED
    BY <2>1, <2>2
<1>4. \A i \in DOMAIN Tail(s) : Tail(s)[i] \in ToSet(s)
  <2> TAKE i \in DOMAIN Tail(s)
  <2>1. i + 1 \in DOMAIN s /\ Tail(s)[i] = s[i + 1]
    BY <1>1, <1>2, SMT
  <2> QED
    BY <2>1 DEF ToSet
<1>5. Head(s) \in ToSet(s)
  <2>1. 1 \in DOMAIN s
    BY <1>1, SMT
  <2> QED
    BY <1>1, <2>1 DEF ToSet
<1> QED
  BY <1>3, <1>4, <1>5 DEF ToSet

LEMMA QueryInit == Init => Queued /\ Accounted
  BY DaemonAssumption, EmptySeq DEF Init, Queued, Accounted, Answered, DaemonAssumption

LEMMA QueuedStep ==
  ASSUME Queued, [Next]_vars
  PROVE  Queued'
<1>1. layout' = layout
  BY DEF Next, Step, DaemonStep, ListCandidates, Connect, ConnectFails, Closed, ReadTimesOut,
       Believe, Dismiss, Exhausted, Read, ReadTooMuch, Tick, vars, given
<1>2. Present' = Present
  BY <1>1 DEF Present, Exists
<1>3. CASE ListCandidates
  BY <1>1, <1>2, <1>3, PathsArePresent DEF ListCandidates, Goto, Queued
<1>4. CASE ConnectFails \/ ReadTooMuch \/ Dismiss
  <2>1. queue # <<>> /\ queue' = Tail(queue) /\ pc' \notin {"reading", "judge"}
    BY <1>4 DEF ConnectFails, ReadTooMuch, Dismiss, GiveUp, Goto, Queued
  <2> QED
    BY <1>1, <1>2, <2>1, HeadTailProperties DEF Queued
<1>5. CASE Connect \/ Closed \/ ReadTimesOut \/ Believe \/ Exhausted \/ Read \/ Tick
           \/ UNCHANGED vars
  <2>1. queue' = queue /\ (pc' \in {"reading", "judge"} => queue # <<>>)
    BY <1>5 DEF Connect, Closed, ReadTimesOut, Believe, Exhausted, Read, Tick, Goto, vars,
         Queued
  <2> QED
    BY <1>1, <1>2, <2>1 DEF Queued
<1> QED
  BY <1>3, <1>4, <1>5 DEF Next, Step, DaemonStep

LEMMA AccountedStep ==
  ASSUME Queued, Accounted, [Next]_vars
  PROVE  Accounted'
<1>1. env' = env /\ layout' = layout
  BY DEF Next, Step, DaemonStep, ListCandidates, Connect, ConnectFails, Closed, ReadTimesOut,
       Believe, Dismiss, Exhausted, Read, ReadTooMuch, Tick, vars, given
<1>2. SocketPaths(env)' = SocketPaths(env)
  BY <1>1 DEF SocketPaths, Retained, Exists
<1>3. CASE ListCandidates
  <2>1. /\ pc = "start" /\ pc' = "next" /\ queue' = SocketPaths(env)
        /\ failed' = {} /\ ~Answered'
    BY <1>3 DEF ListCandidates, Goto, Accounted, Answered
  <2> QED
    BY <1>2, <2>1 DEF Accounted
<1>4. CASE ConnectFails \/ ReadTooMuch \/ Dismiss
  <2>1. /\ queue # <<>> /\ queue' = Tail(queue) /\ failed' = failed \cup {Head(queue)}
        /\ pc # "start" /\ pc # "done" /\ pc' = "next" /\ outcome' = outcome
    BY <1>4 DEF ConnectFails, ReadTooMuch, Dismiss, GiveUp, Current, Goto, Queued
  <2>2. ToSet(queue) = ToSet(queue') \cup {Head(queue)}
    BY <2>1, OneIsTried DEF Queued
  <2>3. ToSet(queue') \cup failed' = ToSet(SocketPaths(env))
    BY <2>1, <2>2 DEF Accounted
  <2>4. ToSet(queue)' \cup failed' = ToSet(SocketPaths(env)')
    BY <1>2, <2>3 DEF ToSet
  <2> QED
    BY <1>2, <2>1, <2>4 DEF Accounted, Answered, ToSet
<1>5. CASE Connect \/ Closed \/ ReadTimesOut \/ Believe \/ Exhausted \/ Read \/ Tick
           \/ UNCHANGED vars
  <2>1. /\ queue' = queue /\ failed' = failed /\ (pc' = "start" <=> pc = "start")
    BY <1>5 DEF Connect, Closed, ReadTimesOut, Believe, Exhausted, Read, Tick, Goto, vars
  <2>2. (pc' = "done" /\ ~Answered' => queue' = <<>>) /\ (pc' # "done" => ~Answered')
    <3>1. CASE Believe
      <4>1. pc' = "done" /\ outcome'.daemon = layout[Head(queue).path]
        BY <3>1 DEF Believe, Goto, Current
      <4>2. queue # <<>>
        BY <3>1 DEF Believe, Goto, Queued
      <4>3. Head(queue) \in Present
        BY <4>2, HeadTailProperties DEF Queued
      <4>4. outcome' # NoAnswer
        BY <4>1, <4>3 DEF NoAnswer, Present, Exists
      <4> QED
        BY <4>1, <4>4 DEF Answered
    <3>2. CASE Connect \/ Closed \/ ReadTimesOut \/ Exhausted \/ Read \/ Tick
               \/ UNCHANGED vars
      BY <3>2 DEF Connect, Closed, ReadTimesOut, Exhausted, Read, Tick, Goto, vars,
           Accounted, Answered
    <3> QED
      BY <1>5, <3>1, <3>2
  <2> QED
    BY <1>2, <2>1, <2>2 DEF Accounted, ToSet
<1> QED
  BY <1>3, <1>4, <1>5 DEF Next, Step, DaemonStep

LEMMA QueryHolds == Spec => [](Queued /\ Accounted)
<1>1. Queued /\ Accounted /\ [Next]_vars => (Queued /\ Accounted)'
  BY QueuedStep, AccountedStep
<1> QED
  BY QueryInit, <1>1, PTL DEF Spec

\* "No runtime" is only said (`query`) when every socket there is was tried in
\* vain: no daemon's failure hides another's answer.
THEOREM SilenceIsEarned == Spec => []SilenceMeansNobody
<1>1. Queued /\ Accounted => SilenceMeansNobody
  <2> SUFFICES ASSUME Queued, Accounted, pc = "done", ~Answered
               PROVE  ToSet(SocketPaths(env)) = failed
    BY DEF SilenceMeansNobody
  <2>1. queue = <<>> /\ ToSet(queue) \cup failed = ToSet(SocketPaths(env))
    BY DEF Accounted
  <2>2. ToSet(queue) = {}
    BY <2>1 DEF ToSet
  <2> QED
    BY <2>1, <2>2
<1> QED
  BY QueryHolds, <1>1, PTL

-----------------------------------------------------------------------------
(* What is believed.                                                       *)

\* A usable reply that is framed is whole.
LEMMA FramedIsWhole ==
  ASSUME NEW r \in Replies, NEW n \in Nat, Usable(r, n)
  PROVE  Believed(r, n) = r.parts \/ (Believed(r, n) = 0 /\ r.framing = "close")
  BY DaemonAssumption, SMT DEF DaemonAssumption, Usable, Complete, Total, Believed

LEMMA PartialStep ==
  ASSUME Counters, Queued, NeverPartial, [Next]_vars
  PROVE  NeverPartial'
<1>1. CASE outcome' = outcome /\ reply' = reply
  BY <1>1 DEF NeverPartial, Answered
<1>2. CASE Believe
  <2> DEFINE d == layout[Current.path]
  <2>1. /\ Usable(reply[d], got) /\ reply' = reply
        /\ outcome'.daemon = d /\ outcome'.parts = Believed(reply[d], got)
    BY <1>2 DEF Believe, Speaker, given
  <2>2. d \in Daemons
    <3>1. queue # <<>>
      BY <1>2 DEF Believe, Goto, Queued
    <3>2. Head(queue) \in Present
      BY <3>1, HeadTailProperties DEF Queued
    <3> QED
      BY <3>2 DEF Present, Exists, Current, Queued
  <2>3. reply[d] \in Replies
    BY <2>2 DEF Counters
  <2>4. Believed(reply[d], got) = reply[d].parts
        \/ (Believed(reply[d], got) = 0 /\ reply[d].framing = "close")
    BY <2>1, <2>3, FramedIsWhole DEF Counters
  <2> QED
    BY <2>1, <2>4 DEF NeverPartial
<1> QED
  BY <1>1, <1>2 DEF Next, Step, DaemonStep, ListCandidates, Connect, ConnectFails, Closed,
       ReadTimesOut, Dismiss, Exhausted, Read, ReadTooMuch, Tick, vars, given

\* A list that was cut off on its way is never taken for the list: what is believed
\* of a framed reply (`response`) is all of it, whatever the daemon and the network did.
THEOREM ListsAreWhole == Spec => []NeverPartial
<1>1. Init => NeverPartial
  BY DEF Init, NeverPartial, Answered
<1>2. Counters /\ Queued /\ NeverPartial /\ [Next]_vars => NeverPartial'
  BY PartialStep
<1> QED
  BY ExchangeHolds, QueryHolds, <1>1, <1>2, PTL DEF Spec

-----------------------------------------------------------------------------
(* The label.                                                              *)

\* Each path with its runtime and its place among the candidates.
RuntimeOf ==
  [p \in Paths |-> CASE p \in {"host", "desktop", "system"} -> "docker" [] OTHER -> p]

Place == [host |-> 1, orbstack |-> 2, colima |-> 3, rancher |-> 4, desktop |-> 5,
          podman |-> 6, system |-> 7]

\* A list of candidates between two places, in the order of their places.
Within(s, low, high) ==
  /\ s \in Seq(Present)
  /\ \A i \in 1..Len(s) : /\ s[i].runtime = RuntimeOf[s[i].path]
                          /\ Place[s[i].path] \in low..high
  /\ \A i, k \in 1..Len(s) : i < k => Place[s[i].path] < Place[s[k].path]

LEMMA PlaceType == Place \in [Paths -> 1..7]
BY DEF Place, Paths

LEMMA WithinRetained ==
  ASSUME NEW p \in Paths
  PROVE  Within(Retained(RuntimeOf[p], p), Place[p], Place[p])
<1> DEFINE c == Candidate(RuntimeOf[p], p)
<1>1. RuntimeOf[p] \in Runtimes
  BY DEF RuntimeOf, Runtimes, Paths
<1>2. Retained(RuntimeOf[p], p) \in Seq(Present)
  BY <1>1, RetainedIsPresent
<1>3. c.path = p /\ c.runtime = RuntimeOf[p] /\ Place[p] \in Nat
  BY PlaceType DEF Candidate
<1>4. CASE Exists(c)
  <2>1. Retained(RuntimeOf[p], p) = <<c>>
    BY <1>4 DEF Retained
  <2>2. Len(<<c>>) = 1 /\ <<c>>[1] = c
    OBVIOUS
  <2> QED
    BY <1>2, <1>3, <2>1, <2>2 DEF Within
<1>5. CASE ~Exists(c)
  <2>1. Retained(RuntimeOf[p], p) = <<>>
    BY <1>5 DEF Retained
  <2> QED
    BY <1>2, <2>1, EmptySeq DEF Within
<1> QED
  BY <1>4, <1>5

LEMMA WithinEmpty ==
  ASSUME NEW low \in Nat, NEW high \in Nat
  PROVE  Within(<<>>, low, high)
BY EmptySeq DEF Within

LEMMA WithinConcat ==
  ASSUME NEW s, NEW t, NEW low \in Nat, NEW m \in Nat, NEW n \in Nat, NEW high \in Nat,
         Within(s, low, m), Within(t, n, high), low <= n, m < n, m <= high
  PROVE  Within(s \o t, low, high)
<1> DEFINE u == s \o t
           l == Len(s)
<1>1. s \in Seq(Present) /\ t \in Seq(Present)
  BY DEF Within
<1>2. /\ u \in Seq(Present) /\ Len(u) = l + Len(t) /\ l \in Nat /\ Len(t) \in Nat
      /\ \A i \in 1..(l + Len(t)) : u[i] = IF i <= l THEN s[i] ELSE t[i - l]
  BY <1>1, ConcatProperties, LenProperties
<1>3. /\ \A i \in 1..l : u[i] = s[i]
      /\ \A i \in (l + 1)..(l + Len(t)) : i - l \in 1..Len(t) /\ u[i] = t[i - l]
  BY <1>2
<1>4. /\ \A i \in 1..l : /\ u[i].runtime = RuntimeOf[u[i].path]
                         /\ Place[u[i].path] \in low..m
      /\ \A i \in (l + 1)..(l + Len(t)) : /\ u[i].runtime = RuntimeOf[u[i].path]
                                          /\ Place[u[i].path] \in n..high
  BY <1>3 DEF Within
<1>5. \A i, k \in 1..l : i < k => Place[u[i].path] < Place[u[k].path]
  BY <1>3 DEF Within
<1>6. \A i, k \in (l + 1)..(l + Len(t)) : i < k => Place[u[i].path] < Place[u[k].path]
  <2> TAKE i, k \in (l + 1)..(l + Len(t))
  <2>1. i < k => i - l < k - l
    BY <1>2
  <2> QED
    BY <1>3, <2>1 DEF Within
<1> HIDE DEF u, l
<1>7. \A i \in 1..Len(u) : i \in 1..l \/ i \in (l + 1)..(l + Len(t))
  BY <1>2
<1>8. \A i, k \in 1..Len(u) : i < k => Place[u[i].path] < Place[u[k].path]
  <2> SUFFICES ASSUME NEW i \in 1..Len(u), NEW k \in 1..Len(u), i < k
               PROVE  Place[u[i].path] < Place[u[k].path]
    OBVIOUS
  <2>1. CASE i \in 1..l /\ k \in (l + 1)..(l + Len(t))
    BY <1>4, <2>1
  <2>2. ~(k \in 1..l /\ i \in (l + 1)..(l + Len(t)))
    BY <1>2
  <2> QED
    BY <1>5, <1>6, <1>7, <2>1, <2>2
<1>9. \A i \in 1..Len(u) : /\ u[i].runtime = RuntimeOf[u[i].path]
                           /\ Place[u[i].path] \in low..high
  BY <1>4, <1>7
<1>10. Within(u, low, high)
  BY <1>2, <1>8, <1>9 DEF Within
<1> QED
  BY <1>10 DEF u

\* The candidates come in the order of their places, and DOCKER_HOST's only if it
\* is set.
LEMMA PathsInOrder ==
  ASSUME NEW e
  PROVE  Within(SocketPaths(e), IF e.docker_host = "unix" THEN 1 ELSE 2, 7)
<1> DEFINE home == Retained("orbstack", "orbstack") \o Retained("colima", "colima")
                     \o Retained("rancher", "rancher") \o Retained("docker", "desktop")
           A == IF e.docker_host = "unix" THEN Retained("docker", "host") ELSE <<>>
           B == IF e.home THEN home ELSE <<>>
           C == IF e.runtime_dir THEN Retained("podman", "podman") ELSE <<>>
           D == Retained("docker", "system")
<1>1. /\ Within(Retained("docker", "host"), 1, 1)
      /\ Within(Retained("orbstack", "orbstack"), 2, 2)
      /\ Within(Retained("colima", "colima"), 3, 3)
      /\ Within(Retained("rancher", "rancher"), 4, 4)
      /\ Within(Retained("docker", "desktop"), 5, 5)
      /\ Within(Retained("podman", "podman"), 6, 6)
      /\ Within(Retained("docker", "system"), 7, 7)
  <2>1. /\ RuntimeOf["host"] = "docker" /\ RuntimeOf["desktop"] = "docker"
        /\ RuntimeOf["system"] = "docker" /\ RuntimeOf["orbstack"] = "orbstack"
        /\ RuntimeOf["colima"] = "colima" /\ RuntimeOf["rancher"] = "rancher"
        /\ RuntimeOf["podman"] = "podman"
    BY DEF RuntimeOf, Paths
  <2>2. /\ Place["host"] = 1 /\ Place["orbstack"] = 2 /\ Place["colima"] = 3
        /\ Place["rancher"] = 4 /\ Place["desktop"] = 5 /\ Place["podman"] = 6
        /\ Place["system"] = 7
    BY DEF Place
  <2>3. \A p \in Paths : Within(Retained(RuntimeOf[p], p), Place[p], Place[p])
    BY WithinRetained
  <2> HIDE DEF Within
  <2> QED
    BY <2>1, <2>2, <2>3 DEF Paths
<1>2. Within(home, 2, 5)
  <2>1. Within(Retained("orbstack", "orbstack") \o Retained("colima", "colima"), 2, 3)
    BY <1>1, WithinConcat
  <2>2. Within(Retained("orbstack", "orbstack") \o Retained("colima", "colima")
                \o Retained("rancher", "rancher"), 2, 4)
    BY <1>1, <2>1, WithinConcat
  <2> QED
    BY <1>1, <2>2, WithinConcat
<1>3. /\ Within(A, 1, 1) /\ Within(B, 2, 5) /\ Within(C, 6, 6) /\ Within(D, 7, 7)
      /\ e.docker_host # "unix" => A = <<>>
  <2>1. Within(<<>>, 1, 1) /\ Within(<<>>, 2, 5) /\ Within(<<>>, 6, 6)
    BY WithinEmpty
  <2> HIDE DEF home
  <2> QED
    BY <1>1, <1>2, <2>1
<1>4. SocketPaths(e) = A \o B \o C \o D
  BY DEF SocketPaths
<1> HIDE DEF home, A, B, C, D
<1>5. CASE e.docker_host = "unix"
  <2>1. Within(A \o B, 1, 5)
    BY <1>3, WithinConcat
  <2>2. Within(A \o B \o C, 1, 6)
    BY <1>3, <2>1, WithinConcat
  <2>3. Within(A \o B \o C \o D, 1, 7)
    BY <1>3, <2>2, WithinConcat
  <2> QED
    BY <1>4, <1>5, <2>3
<1>6. CASE e.docker_host # "unix"
  <2>1. Within(A, 1, 1) /\ Within(A, 2, 1)
    BY <1>3, <1>6, WithinEmpty
  <2>2. Within(A \o B, 2, 5)
    BY <1>3, <2>1, WithinConcat
  <2>3. Within(A \o B \o C, 2, 6)
    BY <1>3, <2>2, WithinConcat
  <2>4. Within(A \o B \o C \o D, 2, 7)
    BY <1>3, <2>3, WithinConcat
  <2> QED
    BY <1>4, <1>6, <2>4
<1> QED
  BY <1>5, <1>6

\* What is still to be tried comes in the order of places too, and it is all there.
Ordered == Within(queue, 1, 7)

\* A list in order holds nothing of an earlier place than its head.
LEMMA HeadIsFirst ==
  ASSUME NEW s, Within(s, 1, 7), s # <<>>
  PROVE  /\ Within(Tail(s), 1, 7)
         /\ Head(s) \in ToSet(s) /\ Head(s) \in Present
         /\ Head(s).runtime = RuntimeOf[Head(s).path]
         /\ \A c \in ToSet(s) : Place[Head(s).path] <= Place[c.path]
<1>1. /\ s \in Seq(Present) /\ Len(s) \in Nat \ {0} /\ DOMAIN s = 1..Len(s)
      /\ Head(s) = s[1] /\ 1 \in 1..Len(s)
  BY LenProperties, EmptySeq, SMT DEF Within
<1>2. /\ Tail(s) \in Seq(Present) /\ Len(Tail(s)) = Len(s) - 1
      /\ \A i \in 1..Len(Tail(s)) : Tail(s)[i] = s[i + 1] /\ i + 1 \in 1..Len(s)
  BY <1>1, HeadTailProperties
<1>3. Within(Tail(s), 1, 7)
  <2>1. \A i \in 1..Len(Tail(s)) :
          /\ Tail(s)[i].runtime = RuntimeOf[Tail(s)[i].path]
          /\ Place[Tail(s)[i].path] \in 1..7
    BY <1>2 DEF Within
  <2>2. \A i, k \in 1..Len(Tail(s)) :
          i < k => Place[Tail(s)[i].path] < Place[Tail(s)[k].path]
    <3> TAKE i, k \in 1..Len(Tail(s))
    <3>1. i < k => i + 1 < k + 1
      BY <1>1, <1>2
    <3> QED
      BY <1>2, <3>1 DEF Within
  <2> QED
    BY <1>2, <2>1, <2>2 DEF Within
<1>4. \A c \in ToSet(s) : Place[Head(s).path] <= Place[c.path]
  <2> TAKE c \in ToSet(s)
  <2>1. PICK i \in 1..Len(s) : c = s[i]
    BY <1>1 DEF ToSet
  <2>2. CASE i = 1
    <3>1. Place[s[1].path] \in 1..7
      BY <1>1 DEF Within
    <3> QED
      BY <1>1, <2>1, <2>2, <3>1
  <2>3. CASE i # 1
    <3>1. /\ Place[s[1].path] < Place[s[i].path]
          /\ Place[s[1].path] \in 1..7 /\ Place[s[i].path] \in 1..7
      BY <1>1, <2>3 DEF Within
    <3> QED
      BY <1>1, <2>1, <3>1
  <2> QED
    BY <2>2, <2>3
<1>5. Head(s) \in ToSet(s)
  BY <1>1 DEF ToSet
<1>6. Head(s) \in Present
  BY <1>1, HeadTailProperties
<1>7. Head(s).runtime = RuntimeOf[Head(s).path]
  BY <1>1 DEF Within
<1> QED
  BY <1>3, <1>4, <1>5, <1>6, <1>7

LEMMA OrderedInit == Init => Ordered
  BY WithinEmpty DEF Init, Ordered

LEMMA OrderedStep ==
  ASSUME Queued, Ordered, [Next]_vars
  PROVE  Ordered'
<1>1. layout' = layout
  BY DEF Next, Step, DaemonStep, ListCandidates, Connect, ConnectFails, Closed, ReadTimesOut,
       Believe, Dismiss, Exhausted, Read, ReadTooMuch, Tick, vars, given
<1>2. Present' = Present
  BY <1>1 DEF Present, Exists
<1>3. \/ queue' = queue
      \/ queue' = SocketPaths(env)
      \/ queue # <<>> /\ queue' = Tail(queue)
  BY DEF Next, Step, DaemonStep, ListCandidates, Connect, ConnectFails, Closed, ReadTimesOut,
       Believe, Dismiss, Exhausted, Read, ReadTooMuch, Tick, vars, GiveUp, Goto, Queued
<1>4. Within(SocketPaths(env), 1, 7)
  <2>1. \A low \in 1..2 : Within(SocketPaths(env), low, 7) => Within(SocketPaths(env), 1, 7)
    <3> DEFINE paths == SocketPaths(env)
    <3> HIDE DEF paths
    <3>1. \A low \in 1..2 : \A k : k \in low..7 => k \in 1..7
      OBVIOUS
    <3>2. \A low \in 1..2 : Within(paths, low, 7) => Within(paths, 1, 7)
      BY <3>1 DEF Within
    <3> QED BY <3>2 DEF paths
  <2> QED
    BY <2>1, PathsInOrder
<1>5. Within(queue', 1, 7)
  BY <1>3, <1>4, HeadIsFirst DEF Ordered
<1> QED
  BY <1>2, <1>5 DEF Ordered, Within

\* What is known of a path from its candidate.
LEMMA CandidatesAreKnown ==
  ASSUME NEW c \in ToSet(SocketPaths(env))
  PROVE  /\ c.path \in Paths /\ c.runtime = RuntimeOf[c.path]
         /\ c.path = "host" => env.docker_host = "unix"
<1> DEFINE low == IF env.docker_host = "unix" THEN 1 ELSE 2
<1>1. Within(SocketPaths(env), low, 7)
  BY PathsInOrder
<1>2. DOMAIN SocketPaths(env) = 1..Len(SocketPaths(env))
  BY <1>1, LenProperties DEF Within
<1>3. PICK i \in 1..Len(SocketPaths(env)) : c = SocketPaths(env)[i]
  BY <1>2 DEF ToSet
<1>4. c \in Present
  BY <1>1, <1>3, ElementOfSeq DEF Within
<1>5. c.runtime = RuntimeOf[c.path] /\ Place[c.path] \in low..7
  BY <1>1, <1>3 DEF Within
<1>6. Place["host"] = 1
  BY DEF Place
<1> QED
  BY <1>4, <1>5, <1>6 DEF Present

\* The places of the paths that "docker" and a runtime of its own name share.
LEMMA DockerOrder ==
  ASSUME NEW p \in Paths, NEW q \in Paths,
         RuntimeOf[p] = "docker", RuntimeOf[q] # "docker", Place[p] <= Place[q]
  PROVE  p = "host" \/ (p = "desktop" /\ q = "podman")
<1>1. p \in {"host", "desktop", "system"} /\ q \in {"orbstack", "colima", "rancher", "podman"}
  BY DEF RuntimeOf, Paths
<1>2. /\ Place["orbstack"] = 2 /\ Place["colima"] = 3 /\ Place["rancher"] = 4
      /\ Place["desktop"] = 5 /\ Place["podman"] = 6 /\ Place["system"] = 7
  BY DEF Place
<1> QED
  BY <1>1, <1>2

LEMMA LabelStep ==
  ASSUME Queued, Accounted, Ordered, LabelIsSpecific, [Next]_vars
  PROVE  LabelIsSpecific'
<1>1. env' = env /\ layout' = layout
  BY DEF Next, Step, DaemonStep, ListCandidates, Connect, ConnectFails, Closed, ReadTimesOut,
       Believe, Dismiss, Exhausted, Read, ReadTooMuch, Tick, vars, given
<1>2. SocketPaths(env)' = SocketPaths(env)
  BY <1>1 DEF SocketPaths, Retained, Exists
<1>3. failed \subseteq failed'
  BY DEF Next, Step, DaemonStep, ListCandidates, Connect, ConnectFails, Closed, ReadTimesOut,
       Believe, Dismiss, Exhausted, Read, ReadTooMuch, Tick, vars, GiveUp
<1>4. ToSet(SocketPaths(env))' = ToSet(SocketPaths(env))
  BY <1>2 DEF ToSet
<1>5. CASE outcome' = outcome
  BY <1>1, <1>3, <1>4, <1>5 DEF LabelIsSpecific, Answered
<1>6. CASE Believe
  <2> SUFFICES ASSUME outcome'.runtime = "docker",
                      NEW c \in ToSet(SocketPaths(env)), c.runtime # "docker",
                      layout[c.path] = outcome'.daemon, c \notin failed
               PROVE  \/ env.docker_host = "unix" /\ layout["host"] = outcome'.daemon
                      \/ c.path = "podman" /\ layout["desktop"] = outcome'.daemon
    BY <1>1, <1>3, <1>4 DEF LabelIsSpecific, Answered
  <2> DEFINE h == Head(queue)
  <2>1. /\ queue # <<>> /\ pc # "start"
        /\ outcome'.runtime = h.runtime /\ outcome'.daemon = layout[h.path]
    BY <1>6 DEF Believe, Goto, Queued, Current
  <2>2. c \in ToSet(queue) /\ h \in ToSet(queue) /\ h \in ToSet(SocketPaths(env))
    BY <2>1, HeadIsFirst DEF Accounted, Ordered
  <2>3. /\ h.path \in Paths /\ h.runtime = RuntimeOf[h.path]
        /\ c.path \in Paths /\ c.runtime = RuntimeOf[c.path]
        /\ h.path = "host" => env.docker_host = "unix"
    BY <2>2, CandidatesAreKnown
  <2>4. Place[h.path] <= Place[c.path]
    BY <2>1, <2>2, HeadIsFirst DEF Ordered
  <2>5. h.path = "host" \/ (h.path = "desktop" /\ c.path = "podman")
    BY <2>1, <2>3, <2>4, DockerOrder
  <2> QED
    BY <2>1, <2>3, <2>5
<1> QED
  BY <1>5, <1>6 DEF Next, Step, DaemonStep, ListCandidates, Connect, ConnectFails, Closed,
       ReadTimesOut, Dismiss, Exhausted, Read, ReadTooMuch, Tick, vars

-----------------------------------------------------------------------------
(* The state is well-formed, and the conclusion is right.                  *)

\* What TypeOK says of the variables that no lemma above speaks of.
Formed ==
  /\ env \in Environments /\ layout \in Layouts
  /\ pc \in {"start", "next", "reading", "judge", "done"}
  /\ got \in 0..MAX_BODY /\ reads \in 0..got
  /\ outcome.runtime \in {"none"} \cup Runtimes

LEMMA FormedStep ==
  ASSUME Counters, Queued, Formed, [Next]_vars
  PROVE  Formed'
<1>0. MAX_BODY \in Nat /\ BUFFER \in Nat
  BY DaemonAssumption DEF DaemonAssumption
<1>1. /\ env' = env /\ layout' = layout
      /\ pc' \in {"start", "next", "reading", "judge", "done"}
  BY DEF Next, Step, DaemonStep, ListCandidates, Connect, ConnectFails, Closed, ReadTimesOut,
       Believe, Dismiss, Exhausted, Read, ReadTooMuch, Tick, vars, given, Goto, Formed
<1>2. CASE Read
  <2>1. PICK n \in 1..BUFFER : got + n <= MAX_BODY /\ got' = got + n
    BY <1>2 DEF Read
  <2>2. reads' = reads + 1 /\ outcome' = outcome
    BY <1>2 DEF Read
  <2>3. got' \in 0..MAX_BODY /\ reads' \in 0..got'
    BY <1>0, <2>1, <2>2 DEF Formed
  <2> QED
    BY <1>1, <2>2, <2>3 DEF Formed
<1>3. CASE Connect \/ ReadTooMuch
  <2>1. got' = 0 /\ reads' = 0 /\ outcome' = outcome
    BY <1>3 DEF Connect, ReadTooMuch
  <2> QED
    BY <1>0, <1>1, <2>1 DEF Formed
<1>4. CASE Believe
  <2>1. queue # <<>> /\ outcome'.runtime = Head(queue).runtime /\ UNCHANGED <<got, reads>>
    BY <1>4 DEF Believe, Goto, Queued, Current, exchange
  <2>2. Head(queue).runtime \in Runtimes
    BY <2>1, HeadTailProperties DEF Queued, Present
  <2> QED
    BY <1>1, <2>1, <2>2 DEF Formed
<1>5. CASE ListCandidates \/ ConnectFails \/ Closed \/ ReadTimesOut \/ Dismiss \/ Exhausted
           \/ Tick \/ UNCHANGED vars
  <2>1. UNCHANGED <<got, reads, outcome>>
    BY <1>5 DEF ListCandidates, ConnectFails, Closed, ReadTimesOut, Dismiss, Exhausted, Tick,
         vars, exchange
  <2> QED
    BY <1>1, <2>1 DEF Formed
<1> QED
  BY <1>2, <1>3, <1>4, <1>5 DEF Next, Step, DaemonStep

LEMMA QueryIsFormed == Counters /\ Queued /\ Accounted /\ Formed => TypeOK
<1> SUFFICES ASSUME Counters, Queued, Accounted, Formed PROVE TypeOK
  OBVIOUS
<1>1. ToSet(queue) \cup failed \subseteq ToSet(SocketPaths(env))
  <2>1. ToSet(<<>>) = {}
    BY DEF ToSet
  <2> QED
    BY <2>1 DEF Accounted
<1>2. pc \in {"reading", "judge"} => queue # <<>> /\ Exists(Current)
  BY HeadTailProperties DEF Queued, Current, Present
<1> QED
  BY <1>1, <1>2 DEF TypeOK, Counters, Formed, Runtimes

\* What `query` concludes is right, in whatever environment, with whatever daemons
\* behind the paths, and however each of them fails: a daemon goes by its own
\* name, and "no runtime" is only said when every socket was tried in vain.
THEOREM ConclusionHolds == Spec => []ConclusionIsRight
<1>1. Init => Formed /\ LabelIsSpecific
  BY DaemonAssumption DEF Init, Formed, LabelIsSpecific, Answered, NoAnswer, DaemonAssumption
<1>2. Spec => [](Counters /\ Queued /\ Accounted)
  BY ExchangeHolds, QueryHolds, PTL
<1>3. Spec => []Ordered
  BY <1>2, OrderedInit, OrderedStep, PTL DEF Spec
<1>4. Spec => []Formed
  BY <1>1, <1>2, FormedStep, PTL DEF Spec
<1>5. Spec => []LabelIsSpecific
  BY <1>1, <1>2, <1>3, LabelStep, PTL DEF Spec
<1>6. Counters /\ Queued /\ Accounted /\ Formed => TypeOK
  BY QueryIsFormed
<1>7. TypeOK /\ LabelIsSpecific /\ SilenceMeansNobody => ConclusionIsRight
  BY DEF ConclusionIsRight
<1> QED
  BY <1>2, <1>4, <1>5, <1>6, <1>7, SilenceIsEarned, PTL

=============================================================================
