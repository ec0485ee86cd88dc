------------------------------ MODULE Inventory ------------------------------
(***************************************************************************)
(* The list of interfaces (sys/macos/interfaces.rs, services.rs), which    *)
(* main.rs has in hand before anything else, and the two pages made of it: *)
(* the interfaces of the report (render/human.rs) and the routing table    *)
(* (sys/macos/routes.rs, render/routes.rs).  Every fact is read by a call  *)
(* of its own -- the addresses, each service, the primary interface of     *)
(* each family, each carrier, the size of the table and then the table --  *)
(* and the machine may change between any two of them.                     *)
(***************************************************************************)
EXTENDS Integers, SequencesExt

CONSTANTS
  Names,       \* the names an interface may have, in their order
  Prefix,      \* how each begins: "lo", "utun" (also ipsec, ppp), "bridge" or "en"
  Links,       \* the states each interface may be in
  Owners,      \* what the dictionary of each family may hold
  Services,    \* the configured services: device, hardware, whether named
  Extras,      \* the routes there may be besides the default ones: sets of sets
  Askeds,      \* the command lines
  HEADROOM,    \* the room left for a growing table, in routes
  MaxChanges   \* bound on how often the machine changes

Families == {"v4", "v6"}
NoOne == [owner |-> "none", router |-> "none"]
Absent == [up |-> FALSE, addresses |-> {}, carrier |-> "absent"]

ASSUME InventoryAssumption ==
  /\ Names \in Seq(STRING) /\ IsInjective(Names) /\ "none" \notin ToSet(Names)
  /\ Prefix \in [ToSet(Names) -> {"lo", "utun", "bridge", "en"}]
  /\ \A n \in ToSet(Names) : \A link \in Links[n] :
       /\ link.up \in BOOLEAN /\ link.addresses \subseteq {"linkLocal", "routable"}
       /\ link.carrier \in {"yes", "no", "unknown", "absent"}
  /\ \A family \in Families :
       NoOne \in Owners[family] /\ Owners[family] \subseteq [owner : STRING, router : STRING]
  /\ IsFiniteSet(DOMAIN Services) /\ \A extra \in Extras : IsFiniteSet(extra)
  /\ \A s \in DOMAIN Services :
       Services[s] \in [device : STRING, hardware : STRING, named : BOOLEAN]
  /\ HEADROOM \in Nat /\ MaxChanges \in Nat

VARIABLES
  worlds,      \* history: the machine, each change appended; the last is now
  asked,       \* the command line
  stage,       \* how far the collection is
  raw,         \* what getifaddrs said of each interface
  keys,        \* the services still to be read
  services,    \* the services read, in the order they were listed
  primary,     \* the two dictionaries, as they were read
  interfaces,  \* the list, as far as it is built
  sized,       \* the size the kernel gave for the table, in routes
  table,       \* the table, as it was read
  page         \* what is shown

collected == <<raw, services, primary, interfaces>>
routing == <<sized, table>>
inventoryVars == <<worlds, asked, stage, keys, collected, routing, page>>

World == Last(worlds)
NoPage == [rows |-> {}, tunnel |-> "none", split |-> FALSE, gateways |-> 0]

\* A family's default route leaves by its primary interface.
DefaultRoutes(w) ==
  {[family |-> f, default |-> TRUE, cloned |-> FALSE, interface |-> w.primary[f].owner] :
     f \in {g \in Families : w.primary[g] # NoOne}}

Table(w) == DefaultRoutes(w) \cup w.extra

-----------------------------------------------------------------------------
(* From raw facts to one interface.                                        *)

NoService == [device |-> "none", hardware |-> "none", named |-> FALSE]

\* The first that is listed for the interface.
ServiceOf(name) ==
  LET listed == {i \in DOMAIN services : services[i].device = name}
  IN IF listed = {} THEN NoService
     ELSE services[CHOOSE i \in listed : \A k \in listed : i <= k]

ByHardware(hardware) ==
  CASE hardware = "AirPort" -> "wifi"
    [] hardware \in {"Ethernet", "FireWire"} -> "ethernet"
    [] hardware \in {"IPSec", "L2TP", "PPP"} -> "vpn"
    [] OTHER -> "other"

Classify(name, hardware) ==
  CASE Prefix[name] = "lo" -> "loopback"
    [] Prefix[name] = "utun" -> "vpn"
    [] Prefix[name] = "bridge" -> "bridge"
    [] OTHER -> ByHardware(hardware)

StatusOf(kind, link, carrier) ==
  IF ~link.up THEN "disabled"
  ELSE CASE kind = "loopback" -> "up"
         [] kind \in {"wifi", "ethernet"} ->
              IF carrier = "no" THEN "no_cable"
              ELSE IF link.addresses = {} THEN "inactive" ELSE "connected"
         [] OTHER -> IF "routable" \in link.addresses THEN "up" ELSE "inactive"

Active(row) == row.status \in {"connected", "up"}

Owned(name) == {f \in Families : primary[f].owner = name}

GatewayOf_AnyRouter(name) ==
  IF Owned(name) = {} THEN "none"
  ELSE IF primary["v4"].router # "none" THEN primary["v4"].router ELSE primary["v6"].router

GatewayOf(name) ==
  IF "v4" \in Owned(name) THEN primary["v4"].router
  ELSE IF "v6" \in Owned(name) THEN primary["v6"].router ELSE "none"

RowOf(name) ==
  LET service == ServiceOf(name)
      kind == Classify(name, service.hardware)
  IN [name |-> name, kind |-> kind,
      status |-> StatusOf(kind, raw[name], World.links[name].carrier),
      named |-> service.named \/ kind = "loopback",
      gateway |-> GatewayOf(name), default |-> Owned(name) # {}]

Rank_DefaultFirst(row) ==
  IF row.default THEN 0 ELSE IF ~Active(row) THEN 3 ELSE IF row.kind = "vpn" THEN 2 ELSE 1

Rank(row) ==
  IF ~Active(row) THEN 3 ELSE IF row.default THEN 0 ELSE IF row.kind = "vpn" THEN 2 ELSE 1

NameBefore(a, b) == \E i, k \in DOMAIN Names : i < k /\ Names[i] = a /\ Names[k] = b

Before(row, other) ==
  \/ Rank(row) < Rank(other)
  \/ Rank(row) = Rank(other) /\ NameBefore(row.name, other.name)

InOrder(rows) == \A i, k \in DOMAIN rows : i < k => Before(rows[i], rows[k])

\* No two interfaces share a name, so there is one such order.
Sorted(rows) ==
  LET Moved(place) == [i \in DOMAIN rows |-> rows[place[i]]]
  IN {Moved(place) :
        place \in {p \in Bijection(DOMAIN rows, DOMAIN rows) : InOrder(Moved(p))}}

-----------------------------------------------------------------------------
(* The two pages.                                                          *)

IsWorthShowing(row) ==
  asked.all \/ (row.kind # "loopback" /\ (Active(row) \/ row.named))

\* They keep the order of the list.
VisibleInterfaces ==
  {row \in ToSet(interfaces) :
     IF asked.iface # "none" THEN row.name = asked.iface ELSE IsWorthShowing(row)}

Tunnels == {row \in ToSet(interfaces) : row.kind = "vpn" /\ Active(row)}

TunnelShape ==
  CASE Tunnels = {} -> "none"
    [] \E row \in Tunnels : row.default -> "full"
    [] OTHER -> "split"

IsInteresting(route) == ~route.cloned

Shown ==
  {route \in table : /\ asked.all \/ IsInteresting(route)
                     /\ asked.iface = "none" \/ route.interface = asked.iface}

\* Of the whole table, whatever part of it is shown.
SplitTunnel(routes) ==
  \E tunnel \in Tunnels :
    /\ \E route \in routes : route.interface = tunnel.name
    /\ \A route \in routes : route.default => route.interface # tunnel.name

Summarise_ShownOnly(rows, all) ==
  [NoPage EXCEPT !.rows = rows, !.split = SplitTunnel(rows),
                 !.gateways = Cardinality({route \in rows : route.default})]

Summarise(rows, all) ==
  [NoPage EXCEPT !.rows = rows, !.split = SplitTunnel(all),
                 !.gateways = Cardinality({route \in all : route.default})]

-----------------------------------------------------------------------------
InventoryInit ==
  /\ \E links \in [ToSet(Names) -> UNION {Links[n] : n \in ToSet(Names)}] :
     \E owners \in [Families -> UNION {Owners[f] : f \in Families}] :
     \E extra \in Extras :
       /\ \A n \in ToSet(Names) : links[n] \in Links[n]
       /\ \A f \in Families : owners[f] \in Owners[f]
       /\ worlds = <<[links |-> links, primary |-> owners, services |-> DOMAIN Services,
                      extra |-> extra]>>
  /\ asked \in Askeds
  /\ stage = "enumerate" /\ raw = <<>> /\ keys = <<>> /\ services = <<>>
  /\ primary = [f \in Families |-> NoOne] /\ interfaces = <<>>
  /\ sized = 0 /\ table = {} /\ page = NoPage

Proceed(from, to) == stage = from /\ stage' = to

Enumerate ==
  /\ Proceed("enumerate", "services")
  /\ LET present == {n \in ToSet(Names) : World.links[n] # Absent} IN
       raw' = [n \in present |-> World.links[n]]
  /\ UNCHANGED <<worlds, asked, keys, services, primary, interfaces, routing, page>>

\* The keys are listed first, in no particular order, and read one by one.
ListServices ==
  /\ Proceed("services", "service")
  /\ keys' \in SetToSeqs(World.services)
  /\ UNCHANGED <<worlds, asked, collected, routing, page>>

\* One that is gone by then is passed over.
ReadService ==
  /\ stage = "service" /\ keys # <<>>
  /\ services' = IF Head(keys) \in World.services
                 THEN Append(services, Services[Head(keys)]) ELSE services
  /\ keys' = Tail(keys)
  /\ UNCHANGED <<worlds, asked, stage, raw, primary, interfaces, routing, page>>

ServicesRead ==
  /\ Proceed("service", "primary4") /\ keys = <<>>
  /\ UNCHANGED <<worlds, asked, keys, collected, routing, page>>

\* One dictionary holds both the interface and its router.
ReadPrimary(family, from, to) ==
  /\ Proceed(from, to)
  /\ primary' = [primary EXCEPT ![family] = World.primary[family]]
  /\ UNCHANGED <<worlds, asked, keys, raw, services, interfaces, routing, page>>

PrimaryInterfaces ==
  \/ ReadPrimary("v4", "primary4", "primary6")
  \/ ReadPrimary("v6", "primary6", "build")

Unbuilt == DOMAIN raw \ {row.name : row \in ToSet(interfaces)}

\* In the order of the names.
Build ==
  /\ stage = "build"
  /\ \E name \in Unbuilt :
       /\ \A other \in Unbuilt : ~NameBefore(other, name)
       /\ interfaces' = Append(interfaces, RowOf(name))
  /\ UNCHANGED <<worlds, asked, stage, keys, raw, services, primary, routing, page>>

SortInterfaces ==
  /\ Proceed("build", "collected") /\ Unbuilt = {}
  /\ interfaces' \in Sorted(interfaces)
  /\ UNCHANGED <<worlds, asked, keys, raw, services, primary, routing, page>>

ShowReport ==
  /\ Proceed("collected", "done") /\ asked.command = "report"
  /\ page' = [NoPage EXCEPT !.rows = VisibleInterfaces, !.tunnel = TunnelShape]
  /\ UNCHANGED <<worlds, asked, keys, collected, routing>>

Wanted(w) == {route \in Table(w) : asked.family \in {"both", route.family}}

SizeTable ==
  /\ stage = "collected" /\ asked.command = "routes"
  /\ sized' = Cardinality(Wanted(World))
  /\ stage' = IF sized' = 0 THEN "dumped" ELSE "sized"
  /\ UNCHANGED <<worlds, asked, keys, collected, table, page>>

Room == sized + sized \div 8 + HEADROOM

FillTable_Partly ==
  /\ stage = "sized" /\ stage' = "dumped"
  /\ \E part \in SUBSET Wanted(World) :
       /\ Cardinality(part) = IF Cardinality(Wanted(World)) > Room THEN Room
                              ELSE Cardinality(Wanted(World))
       /\ table' = part
  /\ UNCHANGED <<worlds, asked, keys, collected, sized, page>>

\* The kernel refuses a buffer the table has outgrown.
FillTable ==
  /\ stage = "sized"
  /\ \/ /\ Cardinality(Wanted(World)) > Room
        /\ stage' = "failed" /\ UNCHANGED table
     \/ /\ Cardinality(Wanted(World)) <= Room
        /\ stage' = "dumped" /\ table' = Wanted(World)
  /\ UNCHANGED <<worlds, asked, keys, collected, sized, page>>

ShowRoutes ==
  /\ Proceed("dumped", "done")
  /\ page' = Summarise(Shown, table)
  /\ UNCHANGED <<worlds, asked, keys, collected, routing>>

Step ==
  \/ Enumerate \/ ListServices \/ ReadService \/ ServicesRead \/ PrimaryInterfaces
  \/ Build \/ SortInterfaces \/ ShowReport \/ SizeTable \/ FillTable \/ ShowRoutes

Becomes(now) == now # World /\ worlds' = Append(worlds, now)

\* The machine: a link, a primary interface, the services or the table.
Change ==
  /\ Len(worlds) <= MaxChanges /\ stage \notin {"done", "failed"}
  /\ \/ \E n \in ToSet(Names) : \E link \in Links[n] :
          Becomes([World EXCEPT !.links[n] = link])
     \/ \E f \in Families : \E o \in Owners[f] : Becomes([World EXCEPT !.primary[f] = o])
     \/ \E s \in SUBSET DOMAIN Services : Becomes([World EXCEPT !.services = s])
     \/ \E extra \in Extras : Becomes([World EXCEPT !.extra = extra])
  /\ UNCHANGED <<asked, stage, keys, collected, routing, page>>

InventoryNext == Step \/ Change

InventorySpec == InventoryInit /\ [][InventoryNext]_inventoryVars /\ WF_inventoryVars(Step)

-----------------------------------------------------------------------------
Finished == stage = "done"
Listed == stage \in {"collected", "sized", "dumped", "done", "failed"}

\* The machine as it was at some moment of the run.
Moments == ToSet(worlds)

\* The type of the state; a finished list has one row for each interface that
\* getifaddrs named, and none twice.
InventoryTypeOK ==
  /\ Len(worlds) \in 1 .. MaxChanges + 1 /\ asked \in Askeds
  /\ stage \in {"enumerate", "services", "service", "primary4", "primary6", "build",
                "collected", "sized", "dumped", "done", "failed"}
  /\ DOMAIN raw \subseteq ToSet(Names) /\ Len(services) <= Cardinality(DOMAIN Services)
  /\ \A f \in Families : primary[f] \in Owners[f]
  /\ sized \in Nat /\ table \subseteq UNION {Table(w) : w \in Moments}
  /\ Listed => /\ {row.name : row \in ToSet(interfaces)} = DOMAIN raw
               /\ Len(interfaces) = Cardinality(DOMAIN raw)

\* The gateway of an interface was its own router at one moment of the run,
\* even when the two families change hands between the two reads: the name and
\* the router come out of one dictionary.
GatewayIsItsOwn ==
  \A row \in ToSet(interfaces) : row.gateway # "none" =>
    \E w \in Moments, f \in Families :
      w.primary[f] = [owner |-> row.name, router |-> row.gateway]

CanCarry(link) ==
  link.up /\ "routable" \in link.addresses /\ link.carrier \in {"yes", "unknown"}

SteadyOwnerLeads ==
  Listed => \A f \in Families, n \in ToSet(Names) :
    (\A w \in Moments : w.primary[f].owner = n /\ CanCarry(w.links[n])) =>
      \E i \in DOMAIN interfaces :
        /\ interfaces[i].name = n /\ interfaces[i].default
        /\ \A k \in 1 .. i : interfaces[k].default /\ Active(interfaces[k])

ActiveComeFirst ==
  Listed => \A i, k \in DOMAIN interfaces :
    i < k /\ Active(interfaces[k]) => Active(interfaces[i])

NothingUsableIsHidden ==
  Finished /\ asked.command = "report" /\ asked.iface = "none" =>
    \A n \in ToSet(Names) :
      Prefix[n] # "lo" /\ (\A w \in Moments : CanCarry(w.links[n])) =>
        \E row \in page.rows : row.name = n

\* The list says first what matters, although its facts are read one after the
\* other on a machine that changes.  An interface that owned a family's default
\* route, and could carry it, from the first read to the last leads, with at
\* most another owner above it; none that carries nothing stands above one that
\* does; and the report leaves out none that could carry traffic all the time.
UsableInterfacesLead ==
  InventoryTypeOK /\ SteadyOwnerLeads /\ ActiveComeFirst /\ NothingUsableIsHidden

\* A tunnel by its name, or one that a service dials.
MayTunnel(n) ==
  \/ Prefix[n] = "utun"
  \/ \E s \in DOMAIN Services :
       Services[s].device = n /\ Services[s].hardware \in {"IPSec", "L2TP", "PPP"}

Live(link) == link.up /\ "routable" \in link.addresses

TunnelIsReal ==
  Finished /\ asked.command = "report" =>
    /\ page.tunnel = "none" =>
         ~\E n \in ToSet(Names) :
            Prefix[n] = "utun" /\ \A w \in Moments : Live(w.links[n])
    /\ page.tunnel # "none" =>
         \E n \in ToSet(Names), w \in Moments : MayTunnel(n) /\ Live(w.links[n])
    /\ page.tunnel = "full" =>
         \E n \in ToSet(Names), w, v \in Moments, f \in Families :
           MayTunnel(n) /\ Live(w.links[n]) /\ v.primary[f].owner = n

TableIsWhole == stage = "dumped" => \E w \in Moments : table = Wanted(w)

SplitAgreesWithPrimary ==
  Finished /\ asked.command = "routes" /\ asked.family = "both" /\ Len(worlds) = 1
    /\ (\A route \in World.extra : ~route.default) =>
    (page.split <=> \E row \in Tunnels :
                      /\ ~row.default
                      /\ \E route \in Table(World) : route.interface = row.name)

\* What is said of tunnels is so.  The report says "full" only of one that owned
\* a default route and had a routable address, if not at the same moment, and
\* "none" only when no tunnel could carry traffic all the time; and on a machine
\* that stood still, with both families asked for and no default route besides
\* those of the two primary interfaces, the routing table (from who owns the
\* routes) and the interfaces (from who the dynamic store calls primary) agree
\* on whether a tunnel is split.
TunnelsAreReal == TunnelIsReal /\ SplitAgreesWithPrimary

\* The routing table shown is the table of one moment, complete: one that
\* outgrew the buffer between the two calls is an error and never a part, and
\* the command ends all the same.
WholeTableOrNone == [][TableIsWhole']_inventoryVars /\ <>(stage \in {"done", "failed"})

=============================================================================
