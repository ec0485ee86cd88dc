------------------------------ MODULE GeoCache ------------------------------
(***************************************************************************)
(* `measure` of src/main.rs with src/public: runs of netinspect that share *)
(* geo.json.  A run looks at the interfaces, loads the file, starts the    *)
(* reachability ladder and, unless a fresh answer is cached, a lookup next *)
(* to it; whatever it learns is written back over the file.  Runs overlap, *)
(* are killed, and the machine moves between networks and tunnels.         *)
(***************************************************************************)
EXTENDS Integers, FiniteSets

CONSTANTS
  Runs,       \* the runs of the program, each made at most once
  Networks,   \* the places the machine can be in
  Gateway,    \* Gateway[n]: interface and gateway address seen in network n
  Isp,        \* Isp[n]: the ASN the provider sees from network n directly
  VpnAsn,     \* the ASN it sees through the tunnel
  TTL,        \* TTL_SECONDS
  MaxTime,    \* bound on the clock
  Overlap,    \* bound on how many runs are under way at once
  Changes     \* what the environment may do: see "The world" below

ASSUME WorldAssumption ==
  /\ Gateway \in [Networks -> STRING] /\ Isp \in [Networks -> STRING]
  /\ \A n \in Networks : Isp[n] # VpnAsn
  /\ TTL \in Nat \ {0} /\ MaxTime \in Nat /\ Overlap \in Nat
  /\ Changes \subseteq {"roam", "tunnel", "midrun", "crash"}

VARIABLES
  network,  \* where the machine is
  tunnel,   \* no VPN, one that carries the traffic, or one that does not
  time,     \* the wall clock, in units of the TTL's resolution
  file,     \* geo.json
  pc,       \* how far each run is
  snap,     \* what it read off the interfaces
  loaded,   \* the file as it found it, and when
  lookup,   \* its lookup: none, pending, answered, failed or aborted
  found,    \* the observation it holds
  shown     \* the PublicAddress it returned, and the truth about it

world == <<network, tunnel, time>>
vars == <<world, file, pc, snap, loaded, lookup, found, shown>>

-----------------------------------------------------------------------------
(* What the interfaces, the provider and the file hold.                    *)

\* The route out, as fingerprint(interfaces) names it.
Fingerprint == <<Gateway[network], tunnel # "down">>

Snapshot(private) ==
  [private |-> private, fingerprint |-> Fingerprint, vpn |-> tunnel # "down"]

NoSnapshot == [private |-> TRUE, fingerprint |-> <<"none", FALSE>>, vpn |-> FALSE]

\* An Observation.  All but the ASN is the truth about it, which the program
\* does not have: "over" is the route its run had seen when it asked.
Observation(asn, over) ==
  [asn |-> asn, over |-> over, network |-> network,
   tunnelled |-> tunnel = "carrying", seen |-> time]

\* The provider answers with the ASN it sees, or, rate limited, without one.
Answers(over) ==
  {Observation("none", over),
   Observation(IF tunnel = "carrying" THEN VpnAsn ELSE Isp[network], over)}

\* "vpn" is whether the run that recorded the baseline had seen one.
NoBaseline ==
  [asn |-> "none", vpn |-> FALSE, network |-> "none", tunnelled |-> FALSE, known |-> FALSE]

BaselineOf(observation, snapshot) ==
  [asn |-> observation.asn, vpn |-> snapshot.vpn, network |-> observation.network,
   tunnelled |-> observation.tunnelled, known |-> TRUE]

Nothing ==
  [asn |-> "none", over |-> <<"none", FALSE>>, network |-> "none",
   tunnelled |-> FALSE, seen |-> 0]

\* geo.json: missing, not parseable, or a whole Cache record.
NoCache(state) ==
  [state |-> state, fingerprint |-> <<"none", FALSE>>, fetched_at |-> 0,
   observation |-> Nothing, baseline |-> NoBaseline]

NothingLoaded == [cache |-> NoCache("absent"), now |-> 0]

-----------------------------------------------------------------------------
(* The pure parts of the cache.                                            *)

IsFresh_AnyRoute(cache, fingerprint, now) ==
  now - cache.fetched_at \in 0..(TTL - 1)

IsFresh(cache, fingerprint, now) ==
  /\ cache.fingerprint = fingerprint
  /\ now - cache.fetched_at \in 0..(TTL - 1)

BaselineAfter(previous, observation, snapshot) ==
  IF snapshot.vpn THEN previous ELSE BaselineOf(observation, snapshot)

ViaVpn(vpn, asn, baseline) ==
  IF ~vpn \/ ~baseline.known \/ baseline.asn = "none" \/ asn = "none"
    THEN "unsaid"
    ELSE IF asn # baseline.asn THEN "yes" ELSE "no"

MayLookUp(r) == ~snap[r].private

Hit_Unasked(r) ==
  /\ loaded[r].cache.state = "whole"
  /\ IsFresh(loaded[r].cache, snap[r].fingerprint, loaded[r].now)

Hit(r) ==
  /\ MayLookUp(r)
  /\ loaded[r].cache.state = "whole"
  /\ IsFresh(loaded[r].cache, snap[r].fingerprint, loaded[r].now)

FetchedAt_Slides(r) == loaded[r].now

FetchedAt(r) == IF Hit(r) THEN loaded[r].cache.fetched_at ELSE loaded[r].now

Baseline(r) == BaselineAfter(loaded[r].cache.baseline, found[r], snap[r])

Record_LoadedRoute(r) ==
  [state |-> "whole", fingerprint |-> loaded[r].cache.fingerprint,
   fetched_at |-> FetchedAt(r), observation |-> found[r], baseline |-> Baseline(r)]

\* The record a run writes.
Record(r) ==
  [state |-> "whole", fingerprint |-> snap[r].fingerprint,
   fetched_at |-> FetchedAt(r), observation |-> found[r], baseline |-> Baseline(r)]

NotShown ==
  [known |-> FALSE, via |-> "unsaid", age |-> 0, tunnelled |-> FALSE, comparable |-> FALSE,
   plain |-> TRUE]

\* The address it returns, and the truth about its baseline: whether it was seen from
\* the same network, and outside any tunnel.
Public(r) ==
  [known |-> TRUE, via |-> ViaVpn(snap[r].vpn, found[r].asn, Baseline(r)),
   age |-> loaded[r].now - found[r].seen,
   tunnelled |-> found[r].tunnelled,
   comparable |-> Baseline(r).network = found[r].network,
   plain |-> ~Baseline(r).tunnelled]

-----------------------------------------------------------------------------
Init ==
  /\ network \in Networks /\ tunnel = "down" /\ time = 0
  /\ file = NoCache("absent")
  /\ pc = [r \in Runs |-> "idle"]
  /\ snap = [r \in Runs |-> NoSnapshot]
  /\ loaded = [r \in Runs |-> NothingLoaded]
  /\ lookup = [r \in Runs |-> "none"]
  /\ found = [r \in Runs |-> Nothing]
  /\ shown = [r \in Runs |-> NotShown]

Goto(r, from, to) == pc[r] = from /\ pc' = [pc EXCEPT ![r] = to]

\* What a process knew ends with it.
Forget(r) ==
  /\ snap' = [snap EXCEPT ![r] = NoSnapshot]
  /\ loaded' = [loaded EXCEPT ![r] = NothingLoaded]
  /\ lookup' = [lookup EXCEPT ![r] = "none"]
  /\ found' = [found EXCEPT ![r] = Nothing]

Keep == UNCHANGED <<snap, loaded, lookup, found>>

UnderWay == {r \in Runs : pc[r] \notin {"idle", "done", "dead"}}

\* platform.interfaces(), with or without --no-lookup.
LookAtInterfaces(r) ==
  /\ Cardinality(UnderWay) < Overlap
  /\ Goto(r, "idle", "looked")
  /\ \E private \in BOOLEAN : snap' = [snap EXCEPT ![r] = Snapshot(private)]
  /\ UNCHANGED <<world, file, loaded, lookup, found, shown>>

\* cache::load, and the lookup task if nothing fresh is cached.
Load(r) ==
  /\ Goto(r, "looked", "ladder")
  /\ loaded' = [loaded EXCEPT ![r] =
       [cache |-> IF file.state = "whole" THEN file ELSE NoCache("absent"),
        now |-> time]]
  /\ LET hit == file.state = "whole" /\ IsFresh(file, snap[r].fingerprint, time)
     IN /\ lookup' = [lookup EXCEPT ![r] =
             IF MayLookUp(r) /\ ~hit THEN "pending" ELSE "none"]
        /\ found' = [found EXCEPT ![r] =
             IF MayLookUp(r) /\ hit THEN file.observation ELSE Nothing]
  /\ UNCHANGED <<world, file, snap, shown>>

\* The provider answers, or the lookup fails, while the ladder runs or after.
LookupEnds(r) ==
  /\ lookup[r] = "pending" /\ pc[r] \in {"ladder", "waiting"}
  /\ \/ /\ lookup' = [lookup EXCEPT ![r] = "answered"]
        /\ \E observation \in Answers(snap[r].fingerprint) :
             found' = [found EXCEPT ![r] = observation]
     \/ /\ lookup' = [lookup EXCEPT ![r] = "failed"]
        /\ UNCHANGED found
  /\ UNCHANGED <<world, file, pc, snap, loaded, shown>>

\* The ladder ends: a cached answer is used whatever it says, a lookup is
\* waited for when it says online and aborted when it does not.
LadderEnds(r) ==
  /\ \/ Hit(r) /\ Goto(r, "ladder", "storing") /\ Keep
     \/ lookup[r] # "none" /\ Goto(r, "ladder", "waiting") /\ Keep
     \/ ~Hit(r) /\ Goto(r, "ladder", "done") /\ Forget(r)
  /\ UNCHANGED <<world, file, shown>>

LookupTaken(r) ==
  /\ \/ lookup[r] = "answered" /\ Goto(r, "waiting", "storing") /\ Keep
     \/ lookup[r] = "failed" /\ Goto(r, "waiting", "done") /\ Forget(r)
  /\ UNCHANGED <<world, file, shown>>

\* cache::store: the file is truncated, then written.
Truncate(r) ==
  /\ Goto(r, "storing", "writing")
  /\ file' = NoCache("unreadable")
  /\ UNCHANGED <<world, snap, loaded, lookup, found, shown>>

Return(r) == shown' = [shown EXCEPT ![r] = Public(r)]

\* Both writers of an overlap start at offset 0: a shorter record over a
\* longer one leaves the longer one's tail behind it.
Write(r) ==
  /\ Goto(r, "writing", "done")
  /\ file' \in {Record(r)} \cup
       IF file.state = "unreadable" THEN {} ELSE {NoCache("unreadable")}
  /\ Return(r) /\ Forget(r)
  /\ UNCHANGED world

\* A file that cannot be opened or written is nothing to stop for.
StoreFails(r) ==
  /\ Goto(r, "storing", "done") \/ Goto(r, "writing", "done")
  /\ Return(r) /\ Forget(r)
  /\ UNCHANGED <<world, file>>

\* The run is killed where it stands: no handler is installed outside --watch.
Crash(r) ==
  /\ "crash" \in Changes
  /\ r \in UnderWay
  /\ pc' = [pc EXCEPT ![r] = "dead"]
  /\ Forget(r)
  /\ UNCHANGED <<world, file, shown>>

-----------------------------------------------------------------------------
(* The world.  It stands still during a run unless "midrun" is allowed.    *)

Calm == UnderWay = {}

Roam ==
  /\ "roam" \in Changes /\ ("midrun" \in Changes \/ Calm)
  /\ network' \in Networks \ {network}
  /\ UNCHANGED <<tunnel, time, file, pc, snap, loaded, lookup, found, shown>>

Tunnel ==
  /\ "tunnel" \in Changes /\ ("midrun" \in Changes \/ Calm)
  /\ tunnel' \in {"down", "carrying", "leaking"} \ {tunnel}
  /\ UNCHANGED <<network, time, file, pc, snap, loaded, lookup, found, shown>>

PassTime ==
  /\ time < MaxTime
  /\ time' = time + 1
  /\ UNCHANGED <<network, tunnel, file, pc, snap, loaded, lookup, found, shown>>

-----------------------------------------------------------------------------
RunStep(r) ==
  \/ LookAtInterfaces(r) \/ Load(r) \/ LookupEnds(r) \/ LadderEnds(r)
  \/ LookupTaken(r) \/ Truncate(r) \/ Write(r) \/ StoreFails(r)

Next == PassTime \/ Roam \/ Tunnel \/ \E r \in Runs : RunStep(r) \/ Crash(r)

Spec == Init /\ [][Next]_vars

-----------------------------------------------------------------------------
(* Properties.                                                             *)

Routes == ({Gateway[n] : n \in Networks} \cup {"none"}) \X BOOLEAN

Observations ==
  [asn : {"none", VpnAsn} \cup {Isp[n] : n \in Networks}, over : Routes,
   network : Networks \cup {"none"}, tunnelled : BOOLEAN, seen : 0..MaxTime]

Caches ==
  [state : {"absent", "unreadable", "whole"},
   fingerprint : Routes,
   fetched_at : 0..MaxTime, observation : Observations,
   baseline : [asn : {"none", VpnAsn} \cup {Isp[n] : n \in Networks},
               vpn : BOOLEAN, network : Networks \cup {"none"},
               tunnelled : BOOLEAN, known : BOOLEAN]]

TypeOK ==
  /\ network \in Networks /\ tunnel \in {"down", "carrying", "leaking"}
  /\ time \in 0..MaxTime
  /\ file \in Caches
  /\ pc \in [Runs -> {"idle", "looked", "ladder", "waiting", "storing", "writing",
                      "done", "dead"}]
  /\ snap \in [Runs -> [private : BOOLEAN, fingerprint : Routes, vpn : BOOLEAN]]
  /\ loaded \in [Runs -> [cache : Caches, now : 0..MaxTime]]
  /\ lookup \in [Runs -> {"none", "pending", "answered", "failed"}]
  /\ found \in [Runs -> Observations]
  /\ shown \in [Runs -> [known : BOOLEAN, via : {"unsaid", "yes", "no"},
                         age : -MaxTime..MaxTime, tunnelled : BOOLEAN,
                         comparable : BOOLEAN, plain : BOOLEAN]]

\* An address on the report was seen less than a TTL before the run asked,
\* however many runs had it from the file and wrote it back in between: a hit
\* does not renew it.
ShownWithinTTL ==
  \A r \in Runs : shown[r].known => shown[r].age < TTL

\* A VPN that comes up in the middle of a run may have got into the baseline.
PlainBaseline(address) == "midrun" \in Changes => address.plain

AlarmsAreTrue ==
  \A r \in Runs : shown[r].via = "no" /\ PlainBaseline(shown[r]) => ~shown[r].tunnelled

ReassurancesAreTrue ==
  \A r \in Runs :
    shown[r].via = "yes" /\ PlainBaseline(shown[r]) /\ shown[r].comparable => shown[r].tunnelled

\* "Guessing here would either raise a false alarm or, worse, quietly reassure"
\* (public/mod.rs:237).  That the traffic does not go through the tunnel is only said
\* of traffic that did not, wherever the baseline is from; that it does is true as
\* long as the baseline is from the network the machine is in.  Where the world may
\* change in the middle of a run, both are worth what the baseline is.
VerdictsSound == AlarmsAreTrue /\ ReassurancesAreTrue

\* --no-lookup: no request, no address to report, no touch of the file.
PrivateRunsAskNothing ==
  \A r \in UnderWay : snap[r].private =>
    lookup[r] = "none" /\ found[r] = Nothing /\ pc[r] \notin {"storing", "writing"}

RecordsMatchRoute == file.state = "whole" => file.fingerprint = file.observation.over

\* "What was seen with no VPN up" (public/mod.rs:56).
BaselineIsPlain ==
  file.baseline.known =>
    ~file.baseline.vpn /\ ("midrun" \notin Changes => ~file.baseline.tunnelled)

\* What stands in geo.json can be relied on by the run that reads it next,
\* however many runs had it from the file and wrote it back, overlapped or were
\* killed: the baseline was recorded by a run that saw no VPN on its interfaces
\* (runs behind a tunnel carry the old one along) and of traffic that went through
\* none, unless one came up in the middle of that run; and the fingerprint is that
\* of the route the observation was asked over.
FileIsSound == BaselineIsPlain /\ RecordsMatchRoute

=============================================================================
