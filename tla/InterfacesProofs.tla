-------------------------- MODULE InterfacesProofs --------------------------
(***************************************************************************)
(* What is true of the interfaces in the report, whatever the machine does *)
(* while they are read: first the list, its order, its gateways, tunnels   *)
(* and routes, then the name of the network, however the helpers that are  *)
(* asked for it behave, for any timeouts, pipe and output.                 *)
(***************************************************************************)
EXTENDS Inventory, Ssid, TLAPS, FiniteSetTheorems, SequenceTheorems, WellFoundedInduction

(***************************************************************************)
(* The inductive invariant of the list: each row is built of facts that    *)
(* held at some moment of the run, not all of them at the same one.        *)
(***************************************************************************)
Machine ==
  {w \in [links : [ToSet(Names) -> UNION {Links[n] : n \in ToSet(Names)}],
          primary : [Families -> UNION {Owners[f] : f \in Families}],
          services : SUBSET DOMAIN Services, extra : Extras] :
     /\ \A n \in ToSet(Names) : w.links[n] \in Links[n]
     /\ \A f \in Families : w.primary[f] \in Owners[f]}

Offered == {Services[s] : s \in DOMAIN Services}

Kinds == {"loopback", "vpn", "bridge", "wifi", "ethernet", "other"}
Statuses == {"disabled", "up", "no_cable", "inactive", "connected"}
Routers == {"none"} \cup {o.router : o \in UNION {Owners[f] : f \in Families}}

Row == [name : ToSet(Names), kind : Kinds, status : Statuses, named : BOOLEAN,
        gateway : Routers, default : BOOLEAN]

Collecting == {"enumerate", "services", "service", "primary4", "primary6"}
Routing == {"sized", "dumped", "failed"}

Machined == worlds \in Seq(Machine) /\ Len(worlds) \in 1 .. MaxChanges + 1 /\ asked \in Askeds

\* What is known of an interface was so at some moment.
Enumerated ==
  /\ stage = "enumerate" => raw = <<>>
  /\ stage # "enumerate" => \A n \in ToSet(Names) :
       /\ n \in DOMAIN raw => \E w \in Moments : w.links[n] = raw[n]
       /\ n \notin DOMAIN raw => \E w \in Moments : w.links[n] = Absent
  /\ DOMAIN raw \subseteq ToSet(Names)

Catalogued ==
  /\ services \in Seq(Offered) /\ keys \in Seq(DOMAIN Services)
  /\ stage \in {"enumerate", "services"} => services = <<>> /\ keys = <<>>
  /\ Len(services) + Len(keys) <= Cardinality(DOMAIN Services)

HasRead(f) ==
  stage \notin (Collecting \ {"primary6"}) /\ (f = "v6" => stage # "primary6")

Owning ==
  /\ primary \in [Families -> UNION {Owners[f] : f \in Families}]
  /\ \A f \in Families :
       /\ primary[f] \in Owners[f]
       /\ primary[f] = NoOne \/ \E w \in Moments : w.primary[f] = primary[f]
       /\ HasRead(f) => \E w \in Moments : w.primary[f] = primary[f]

Hardware(n) ==
  {"none"} \cup {Services[s].hardware : s \in {t \in DOMAIN Services : Services[t].device = n}}

\* A row is built of facts each of which held at some moment.
Formed(row) ==
  /\ row.name \in DOMAIN raw
  /\ row.gateway = GatewayOf(row.name) /\ row.default = (Owned(row.name) # {})
  /\ \E hardware \in Hardware(row.name) : row.kind = Classify(row.name, hardware)
  /\ \E w \in Moments :
       row.status = StatusOf(row.kind, raw[row.name], w.links[row.name].carrier)

Built ==
  /\ interfaces \in Seq(Row)
  /\ stage \in Collecting => interfaces = <<>>
  /\ \A i, k \in DOMAIN interfaces : interfaces[i].name = interfaces[k].name => i = k
  /\ \A row \in ToSet(interfaces) : Formed(row)
  /\ Listed => DOMAIN raw \subseteq {row.name : row \in ToSet(interfaces)}
  /\ Listed => InOrder(interfaces)

Tabled ==
  /\ sized \in Nat
  /\ stage \in Routing => asked.command = "routes"
  /\ IF stage = "dumped" \/ (Finished /\ asked.command = "routes")
     THEN \E w \in Moments : table = Wanted(w)
     ELSE table = {}

Paged ==
  Finished =>
    /\ asked.command = "report" => page.rows = VisibleInterfaces /\ page.tunnel = TunnelShape
    /\ asked.command = "routes" => page.split = SplitTunnel(table)

Stages == Collecting \cup Routing \cup {"build", "collected", "done"}

Inventoried ==
  /\ stage \in Stages
  /\ Machined /\ Enumerated /\ Catalogued /\ Owning /\ Built /\ Tabled /\ Paged

-----------------------------------------------------------------------------
LEMMA NamesAre ==
  /\ Names \in Seq(ToSet(Names)) /\ IsFiniteSet(ToSet(Names)) /\ ToSet(Names) \subseteq STRING
  /\ "none" \notin ToSet(Names)
  /\ \A i, k \in DOMAIN Names : Names[i] = Names[k] => i = k
<1>1. Names \in Seq(STRING) /\ "none" \notin ToSet(Names)
      /\ \A i, k \in DOMAIN Names : Names[i] = Names[k] => i = k
  BY InventoryAssumption, Zenon DEF InventoryAssumption, IsInjective
<1>2. DOMAIN Names = 1..Len(Names) /\ Len(Names) \in Nat
  BY <1>1
<1>3. ToSet(Names) \subseteq STRING /\ \A i \in DOMAIN Names : Names[i] \in ToSet(Names)
  BY <1>1, <1>2 DEF ToSet
<1>4. Names \in Seq(ToSet(Names))
  BY <1>1, <1>2, <1>3
<1>5. Names \in Surjection(1..Len(Names), ToSet(Names))
  <2>1. Names \in [1..Len(Names) -> ToSet(Names)]
    BY <1>4
  <2>2. \A n \in ToSet(Names) : \E i \in 1..Len(Names) : Names[i] = n
    BY <1>2 DEF ToSet
  <2> QED BY <2>1, <2>2, Zenon DEF Surjection
<1>6. IsFiniteSet(ToSet(Names))
  BY <1>2, <1>5, FS_Interval, FS_Surjection
<1> QED BY <1>1, <1>3, <1>4, <1>6

LEMMA MachineMoves ==
  ASSUME NEW w \in Machine
  PROVE  /\ \A n \in ToSet(Names) : \A link \in Links[n] : [w EXCEPT !.links[n] = link] \in Machine
         /\ \A f \in Families : \A o \in Owners[f] : [w EXCEPT !.primary[f] = o] \in Machine
         /\ \A s \in SUBSET DOMAIN Services : [w EXCEPT !.services = s] \in Machine
         /\ \A extra \in Extras : [w EXCEPT !.extra = extra] \in Machine
<1>1. /\ w = [links |-> w.links, primary |-> w.primary, services |-> w.services, extra |-> w.extra]
      /\ w.links \in [ToSet(Names) -> UNION {Links[n] : n \in ToSet(Names)}]
      /\ w.primary \in [Families -> UNION {Owners[f] : f \in Families}]
      /\ w.services \in SUBSET DOMAIN Services /\ w.extra \in Extras
      /\ \A n \in ToSet(Names) : w.links[n] \in Links[n]
      /\ \A f \in Families : w.primary[f] \in Owners[f]
  BY DEF Machine
<1>2. ASSUME NEW n \in ToSet(Names), NEW link \in Links[n]
      PROVE  [w EXCEPT !.links[n] = link] \in Machine
  <2> DEFINE after == [w.links EXCEPT ![n] = link]
  <2>1. after \in [ToSet(Names) -> UNION {Links[m] : m \in ToSet(Names)}]
        /\ \A m \in ToSet(Names) : after[m] \in Links[m]
    BY <1>1, <1>2
  <2>2. [w EXCEPT !.links[n] = link] = [w EXCEPT !.links = after]
    BY Zenon
  <2> HIDE DEF after
  <2>3. [w EXCEPT !.links = after] \in Machine
    BY <1>1, <2>1 DEF Machine
  <2> QED BY <2>2, <2>3
<1>3. ASSUME NEW f \in Families, NEW o \in Owners[f]
      PROVE  [w EXCEPT !.primary[f] = o] \in Machine
  <2> DEFINE after == [w.primary EXCEPT ![f] = o]
  <2>1. after \in [Families -> UNION {Owners[g] : g \in Families}]
        /\ \A g \in Families : after[g] \in Owners[g]
    BY <1>1, <1>3
  <2>2. [w EXCEPT !.primary[f] = o] = [w EXCEPT !.primary = after]
    BY Zenon
  <2> HIDE DEF after
  <2>3. [w EXCEPT !.primary = after] \in Machine
    BY <1>1, <2>1 DEF Machine
  <2> QED BY <2>2, <2>3
<1>4. \A s \in SUBSET DOMAIN Services : [w EXCEPT !.services = s] \in Machine
  BY <1>1 DEF Machine
<1>5. \A extra \in Extras : [w EXCEPT !.extra = extra] \in Machine
  BY <1>1 DEF Machine
<1> QED BY <1>2, <1>3, <1>4, <1>5, Zenon

\* A change only adds a moment.
LEMMA MomentsGrow ==
  ASSUME Machined, NEW now \in Machine, worlds' = Append(worlds, now)
  PROVE  /\ Moments' = Moments \cup {now} /\ World' = now
         /\ worlds' \in Seq(Machine) /\ Len(worlds') = Len(worlds) + 1
BY DEF Machined, Moments, ToSet, World, Last

LEMMA WorldIsAMoment ==
  Machined => World \in Moments /\ World \in Machine /\ Moments \subseteq Machine
BY DEF Machined, Moments, ToSet, World, Last

LEMMA SortedKeeps ==
  ASSUME interfaces \in Seq(Row), NEW rows \in Sorted(interfaces),
         \A i, k \in DOMAIN interfaces : interfaces[i].name = interfaces[k].name => i = k
  PROVE  /\ rows \in Seq(Row) /\ ToSet(rows) = ToSet(interfaces) /\ InOrder(rows)
         /\ \A i, k \in DOMAIN rows : rows[i].name = rows[k].name => i = k
<1>1. PICK place \in Bijection(DOMAIN interfaces, DOMAIN interfaces) :
        rows = [i \in DOMAIN interfaces |-> interfaces[place[i]]] /\ InOrder(rows)
  BY Zenon DEF Sorted
<1>2. /\ place \in [DOMAIN interfaces -> DOMAIN interfaces]
      /\ \A k \in DOMAIN interfaces : \E i \in DOMAIN interfaces : place[i] = k
      /\ \A i, k \in DOMAIN interfaces : place[i] = place[k] => i = k
  BY <1>1, Zenon DEF Bijection, Injection, Surjection, IsInjective
<1>3. DOMAIN rows = DOMAIN interfaces /\ DOMAIN interfaces = 1..Len(interfaces)
      /\ \A i \in DOMAIN interfaces : interfaces[i] \in Row
  BY <1>1
<1>4. rows \in Seq(Row)
  BY <1>1, <1>2, <1>3
<1>5. ToSet(rows) = ToSet(interfaces)
  <2>1. \A i \in DOMAIN rows : rows[i] = interfaces[place[i]] /\ place[i] \in DOMAIN interfaces
    BY <1>1, <1>2
  <2>2. \A k \in DOMAIN interfaces : \E i \in DOMAIN rows : rows[i] = interfaces[k]
    BY <1>2, <1>3, <2>1
  <2> QED BY <2>1, <2>2 DEF ToSet
<1>6. ASSUME NEW i \in DOMAIN rows, NEW k \in DOMAIN rows, rows[i].name = rows[k].name
      PROVE  i = k
  BY <1>1, <1>2, <1>3, <1>6
<1> QED BY <1>1, <1>4, <1>5, <1>6

LEMMA LeastExists ==
  ASSUME NEW K \in SUBSET Nat, K # {}
  PROVE  \E i \in K : \A k \in K : i <= k
<1> DEFINE less == {pair \in Nat \X Nat : pair[1] < pair[2]}
<1>1. IsWellFoundedOn(less, Nat)
  BY NatLessThanWellFounded DEF OpToRel
<1>2. \A i, k \in Nat : <<k, i>> \in less <=> k < i
  OBVIOUS
<1> HIDE DEF less
<1>3. \E i \in K : \A k \in K : ~(<<k, i>> \in less)
  BY <1>1, WFMin
<1>4. PICK i \in K : \A k \in K : ~(<<k, i>> \in less)
  BY <1>3
<1>5. \A k \in K : i <= k
  <2>1. TAKE k \in K
  <2>2. i \in Nat /\ k \in Nat /\ ~(k < i)
    BY <1>2, <1>4
  <2> QED BY <2>2
<1> QED BY <1>5

LEMMA RankTells ==
  ASSUME NEW row \in Row
  PROVE  /\ Rank(row) \in 0..3
         /\ Rank(row) = 0 <=> Active(row) /\ row.default
         /\ Rank(row) = 3 <=> ~Active(row)
<1>1. row.default \in BOOLEAN
  BY DEF Row
<1>2. CASE ~Active(row)
  BY <1>2 DEF Rank
<1>3. CASE Active(row) /\ row.default
  BY <1>3 DEF Rank
<1>4. CASE Active(row) /\ ~row.default
  BY <1>4 DEF Rank
<1> QED BY <1>1, <1>2, <1>3, <1>4

LEMMA ServiceFits ==
  ASSUME Catalogued, NEW n
  PROVE  ServiceOf(n).hardware \in Hardware(n) /\ ServiceOf(n).named \in BOOLEAN
<1> DEFINE listed == {i \in DOMAIN services : services[i].device = n}
<1>1. CASE listed = {}
  BY <1>1 DEF ServiceOf, NoService, Hardware
<1>2. CASE listed # {}
  <2>1. DOMAIN services = 1..Len(services) /\ Len(services) \in Nat
        /\ \A i \in DOMAIN services : services[i] \in Offered
    BY DEF Catalogued
  <2>2. listed \in SUBSET Nat /\ listed # {}
    BY <1>2, <2>1
  <2>3. \E i \in listed : \A k \in listed : i <= k
    BY <2>2, LeastExists
  <2> DEFINE first == CHOOSE i \in listed : \A k \in listed : i <= k
  <2>4. first \in listed
    BY <2>3, Zenon
  <2>5. ServiceOf(n) = services[first]
    BY <1>2, Zenon DEF ServiceOf
  <2> HIDE DEF first
  <2>6. PICK s \in DOMAIN Services : services[first] = Services[s]
    BY <2>1, <2>4 DEF Offered
  <2>7. Services[s].device = n /\ Services[s].named \in BOOLEAN
    BY <2>4, <2>6, InventoryAssumption DEF InventoryAssumption
  <2> QED BY <2>5, <2>6, <2>7 DEF Hardware
<1> QED BY <1>1, <1>2

-----------------------------------------------------------------------------
(* What a step that leaves a part of the state alone cannot disturb.        *)

LEMMA MachinedStays ==
  ASSUME Machined, UNCHANGED <<worlds, asked>>
  PROVE  Machined' /\ Moments' = Moments /\ World' = World
BY DEF Machined, Moments, World

LEMMA EnumeratedStays ==
  ASSUME Enumerated, UNCHANGED raw, Moments \subseteq Moments',
         stage = "enumerate" <=> stage' = "enumerate"
  PROVE  Enumerated'
BY DEF Enumerated

LEMMA CataloguedStays ==
  ASSUME Catalogued, UNCHANGED <<services, keys>>,
         stage' \in {"enumerate", "services"} => stage \in {"enumerate", "services"}
  PROVE  Catalogued'
BY DEF Catalogued

LEMMA OwningStays ==
  ASSUME Owning, UNCHANGED primary, Moments \subseteq Moments',
         \A f \in Families : HasRead(f)' => HasRead(f)
  PROVE  Owning'
BY DEF Owning

LEMMA RowStays ==
  ASSUME NEW row, Formed(row), UNCHANGED <<raw, primary>>, Moments \subseteq Moments'
  PROVE  Formed(row)'
<1>1. GatewayOf(row.name)' = GatewayOf(row.name) /\ Owned(row.name)' = Owned(row.name)
  BY DEF GatewayOf, Owned
<1> QED BY <1>1 DEF Formed

LEMMA BuiltStays ==
  ASSUME Built, UNCHANGED <<interfaces, raw, primary>>, Moments \subseteq Moments',
         stage' \in Collecting => stage \in Collecting, Listed' => Listed
  PROVE  Built'
<1>1. \A row : Formed(row) => Formed(row)'
  BY RowStays
<1>2. (\A row \in ToSet(interfaces) : Formed(row))'
  BY <1>1 DEF Built
<1>3. InOrder(interfaces)' = InOrder(interfaces)
  OBVIOUS
<1> QED BY <1>2, <1>3 DEF Built

LEMMA TabledStays ==
  ASSUME Tabled, UNCHANGED <<asked, sized, table>>, Moments \subseteq Moments',
         stage \notin {"dumped", "done"}, stage' \notin {"dumped", "done"},
         stage' \in Routing => asked.command = "routes"
  PROVE  Tabled'
BY DEF Tabled, Finished

LEMMA PagedStays ==
  ASSUME stage' # "done" PROVE Paged'
BY DEF Paged, Finished

-----------------------------------------------------------------------------
LEMMA InventoryStarts == InventoryInit => Inventoried
<1> SUFFICES ASSUME InventoryInit PROVE Inventoried
  OBVIOUS
<1>1. /\ asked \in Askeds /\ stage = "enumerate" /\ raw = <<>> /\ keys = <<>> /\ services = <<>>
      /\ primary = [f \in Families |-> NoOne] /\ interfaces = <<>>
      /\ sized = 0 /\ table = {} /\ page = NoPage
  BY DEF InventoryInit
<1>2. PICK links \in [ToSet(Names) -> UNION {Links[n] : n \in ToSet(Names)}],
           owners \in [Families -> UNION {Owners[f] : f \in Families}], extra \in Extras :
        /\ \A n \in ToSet(Names) : links[n] \in Links[n]
        /\ \A f \in Families : owners[f] \in Owners[f]
        /\ worlds = <<[links |-> links, primary |-> owners, services |-> DOMAIN Services,
                       extra |-> extra]>>
  BY DEF InventoryInit
<1>3. [links |-> links, primary |-> owners, services |-> DOMAIN Services, extra |-> extra]
        \in Machine
  BY <1>2 DEF Machine
<1>4. Machined
  <2>1. worlds \in Seq(Machine) /\ Len(worlds) = 1
    BY <1>2, <1>3
  <2> QED BY <1>1, <2>1, InventoryAssumption DEF Machined, InventoryAssumption
<1>5. Enumerated
  BY <1>1 DEF Enumerated
<1>6. Catalogued
  <2>1. Cardinality(DOMAIN Services) \in Nat
    BY InventoryAssumption, FS_CardinalityType DEF InventoryAssumption
  <2> QED BY <1>1, <2>1 DEF Catalogued
<1>7. Owning
  <2>1. \A f \in Families : primary[f] = NoOne /\ NoOne \in Owners[f]
    BY <1>1, InventoryAssumption DEF InventoryAssumption
  <2>2. primary \in [Families -> UNION {Owners[f] : f \in Families}]
    BY <1>1, <2>1
  <2>3. \A f \in Families : ~HasRead(f)
    BY <1>1 DEF HasRead, Collecting
  <2> QED BY <2>1, <2>2, <2>3 DEF Owning
<1>8. Built
  <2>1. interfaces \in Seq(Row) /\ DOMAIN interfaces = {} /\ ToSet(interfaces) = {}
    BY <1>1 DEF ToSet
  <2> QED BY <1>1, <2>1 DEF Built, Listed
<1>9. Tabled /\ Paged /\ stage \in Stages
  BY <1>1 DEF Tabled, Paged, Finished, Routing, Stages, Collecting
<1> QED BY <1>4, <1>5, <1>6, <1>7, <1>8, <1>9 DEF Inventoried

LEMMA ChangeSafe == Inventoried /\ Change => Inventoried'
<1> SUFFICES ASSUME Inventoried, Change PROVE Inventoried'
  OBVIOUS
<1>1. /\ Len(worlds) <= MaxChanges /\ stage # "done" /\ stage # "failed"
      /\ UNCHANGED <<asked, stage, keys, raw, services, primary, interfaces, sized, table, page>>
  BY DEF Change, collected, routing
<1>2. World \in Machine
  BY WorldIsAMoment DEF Inventoried
<1>3. PICK now \in Machine : worlds' = Append(worlds, now)
  BY <1>2, MachineMoves DEF Change, Becomes
<1>4. /\ Moments' = Moments \cup {now} /\ worlds' \in Seq(Machine)
      /\ Len(worlds') = Len(worlds) + 1
  BY <1>3, MomentsGrow DEF Inventoried
<1>5. Machined'
  BY <1>1, <1>4, InventoryAssumption DEF Inventoried, Machined, InventoryAssumption
<1>6. Moments \subseteq Moments' /\ \A f \in Families : HasRead(f)' => HasRead(f)
  BY <1>1, <1>4 DEF HasRead
<1>7. Enumerated' /\ Catalogued' /\ Owning'
  BY <1>1, <1>6, EnumeratedStays, CataloguedStays, OwningStays DEF Inventoried
<1>8. Built'
  BY <1>1, <1>6, BuiltStays DEF Inventoried, Listed
<1>9. Tabled' /\ Paged'
  <2>1. Paged'
    BY <1>1, PagedStays
  <2>2. CASE stage = "dumped"
    <3>1. \A w : Wanted(w)' = Wanted(w)
      BY <1>1 DEF Wanted, Table, DefaultRoutes
    <3> QED BY <1>1, <1>6, <2>1, <2>2, <3>1 DEF Inventoried, Tabled, Finished
  <2>3. CASE stage # "dumped"
    BY <1>1, <1>6, <2>1, <2>3, TabledStays DEF Inventoried, Tabled
  <2> QED BY <2>2, <2>3
<1> QED BY <1>1, <1>5, <1>7, <1>8, <1>9 DEF Inventoried

LEMMA EnumerateSafe == Inventoried /\ Enumerate => Inventoried'
<1> SUFFICES ASSUME Inventoried, Enumerate PROVE Inventoried'
  OBVIOUS
<1> DEFINE present == {n \in ToSet(Names) : World.links[n] # Absent}
<1>1. /\ stage = "enumerate" /\ stage' = "services" /\ raw' = [n \in present |-> World.links[n]]
      /\ UNCHANGED <<worlds, asked, keys, services, primary, interfaces, sized, table, page>>
  BY DEF Enumerate, Proceed, routing
<1>2. Machined' /\ Moments' = Moments /\ World \in Moments
  BY <1>1, MachinedStays, WorldIsAMoment DEF Inventoried
<1>3. Enumerated'
  BY <1>1, <1>2 DEF Enumerated
<1>4. Catalogued' /\ Owning'
  <2>1. \A f \in Families : HasRead(f)' => HasRead(f)
    BY <1>1 DEF HasRead, Collecting
  <2> QED BY <1>1, <1>2, <2>1, CataloguedStays, OwningStays DEF Inventoried
<1>5. Built'
  <2>1. interfaces = <<>>
    BY <1>1 DEF Inventoried, Built, Collecting
  <2>2. interfaces' \in Seq(Row) /\ DOMAIN interfaces' = {} /\ ToSet(interfaces)' = {}
    BY <1>1, <2>1 DEF ToSet
  <2> QED BY <1>1, <2>1, <2>2 DEF Built, Listed
<1>6. Tabled' /\ Paged' /\ stage' \in Stages
  BY <1>1, <1>2, TabledStays, PagedStays DEF Inventoried, Routing, Stages, Collecting
<1> QED BY <1>2, <1>3, <1>4, <1>5, <1>6 DEF Inventoried

\* A step that reads only: the services or a dictionary.
LEMMA ReadingSafe ==
  ASSUME Inventoried, UNCHANGED <<worlds, asked, raw, interfaces, sized, table, page>>,
         stage \in {"services", "service", "primary4", "primary6"},
         stage' \in {"service", "primary4", "primary6", "build"},
         Catalogued', Owning'
  PROVE  Inventoried'
<1>1. Machined' /\ Moments' = Moments
  BY MachinedStays DEF Inventoried
<1>2. Enumerated'
  BY <1>1, EnumeratedStays DEF Inventoried
<1>3. Built'
  <2>1. interfaces = <<>>
    BY DEF Inventoried, Built, Collecting
  <2>2. interfaces' \in Seq(Row) /\ DOMAIN interfaces' = {} /\ ToSet(interfaces)' = {}
    BY <2>1 DEF ToSet
  <2> QED BY <2>1, <2>2 DEF Built, Listed
<1>4. Tabled' /\ Paged' /\ stage' \in Stages
  BY <1>1, TabledStays, PagedStays DEF Inventoried, Routing, Stages, Collecting
<1> QED BY <1>1, <1>2, <1>3, <1>4 DEF Inventoried

LEMMA ServicesSafe ==
  Inventoried /\ (ListServices \/ ReadService \/ ServicesRead) => Inventoried'
<1> SUFFICES ASSUME Inventoried, ListServices \/ ReadService \/ ServicesRead
             PROVE  Inventoried'
  OBVIOUS
<1>1. /\ UNCHANGED <<worlds, asked, raw, primary, interfaces, sized, table, page>>
      /\ stage \in {"services", "service"} /\ stage' \in {"service", "primary4"}
  BY DEF ListServices, ReadService, ServicesRead, Proceed, collected, routing
<1>2. Owning'
  <2>1. \A f \in Families : HasRead(f)' => HasRead(f)
    BY <1>1 DEF HasRead, Collecting
  <2>2. Moments' = Moments
    BY <1>1, MachinedStays DEF Inventoried
  <2> QED BY <1>1, <2>1, <2>2, OwningStays DEF Inventoried
<1>3. CASE ListServices
  <2>1. /\ keys' \in SetToSeqs(World.services) /\ services' = services /\ services = <<>>
    BY <1>3 DEF ListServices, Proceed, collected, Inventoried, Catalogued
  <2>2. World.services \in SUBSET DOMAIN Services
    BY WorldIsAMoment DEF Inventoried, Machine
  <2>3. IsFiniteSet(DOMAIN Services)
    BY InventoryAssumption DEF InventoryAssumption
  <2>4. IsFiniteSet(World.services) /\ Cardinality(World.services) <= Cardinality(DOMAIN Services)
    BY <2>2, <2>3, FS_Subset
  <2>5. Cardinality(World.services) \in Nat /\ Cardinality(DOMAIN Services) \in Nat
    BY <2>3, <2>4, FS_CardinalityType
  <2>6. keys' \in [1..Cardinality(World.services) -> World.services]
    BY <2>1 DEF SetToSeqs
  <2>7. keys' \in Seq(DOMAIN Services) /\ Len(keys') = Cardinality(World.services)
    BY <2>2, <2>5, <2>6
  <2>8. Catalogued'
    BY <1>1, <1>3, <2>1, <2>4, <2>5, <2>7 DEF Catalogued, ListServices, Proceed
  <2> QED BY <1>1, <1>2, <2>8, ReadingSafe
<1>4. CASE ReadService
  <2>1. /\ services \in Seq(Offered) /\ keys \in Seq(DOMAIN Services) /\ keys # <<>>
        /\ Len(services) + Len(keys) <= Cardinality(DOMAIN Services)
        /\ keys' = Tail(keys) /\ stage' = "service"
        /\ services' = services \/ services' = Append(services, Services[Head(keys)])
    BY <1>4 DEF ReadService, Inventoried, Catalogued
  <2>2. /\ Head(keys) \in DOMAIN Services /\ keys' \in Seq(DOMAIN Services)
        /\ Len(keys') = Len(keys) - 1 /\ Len(keys) \in Nat /\ Len(services) \in Nat
    BY <2>1
  <2>3. Services[Head(keys)] \in Offered
    BY <2>2 DEF Offered
  <2>4. services' \in Seq(Offered) /\ Len(services') <= Len(services) + 1
        /\ Len(services') \in Nat
    <3>1. CASE services' = services
      BY <2>1, <3>1
    <3>2. CASE services' = Append(services, Services[Head(keys)])
      BY <2>1, <2>3, <3>2
    <3> QED BY <2>1, <3>1, <3>2
  <2>5. Cardinality(DOMAIN Services) \in Nat
    BY InventoryAssumption, FS_CardinalityType DEF InventoryAssumption
  <2>6. Len(services') + Len(keys') <= Cardinality(DOMAIN Services)
    BY <2>1, <2>2, <2>4, <2>5
  <2>7. Catalogued'
    BY <2>1, <2>2, <2>4, <2>6 DEF Catalogued
  <2> QED BY <1>1, <1>2, <2>7, ReadingSafe
<1>5. CASE ServicesRead
  <2>1. Catalogued'
    BY <1>1, <1>5, CataloguedStays DEF ServicesRead, collected, Inventoried
  <2> QED BY <1>1, <1>2, <2>1, ReadingSafe
<1> QED BY <1>3, <1>4, <1>5

LEMMA PrimarySafe == Inventoried /\ PrimaryInterfaces => Inventoried'
<1> SUFFICES ASSUME Inventoried, NEW family \in Families, NEW from, NEW to,
                    ReadPrimary(family, from, to),
                    \/ family = "v4" /\ from = "primary4" /\ to = "primary6"
                    \/ family = "v6" /\ from = "primary6" /\ to = "build"
             PROVE  Inventoried'
  BY DEF PrimaryInterfaces, Families
<1>1. /\ stage = from /\ stage' = to
      /\ primary' = [primary EXCEPT ![family] = World.primary[family]]
      /\ UNCHANGED <<worlds, asked, keys, raw, services, interfaces, sized, table, page>>
  BY DEF ReadPrimary, Proceed, routing
<1>2. /\ Moments' = Moments /\ World \in Moments
      /\ \A f \in Families : World.primary[f] \in Owners[f]
  BY <1>1, MachinedStays, WorldIsAMoment DEF Inventoried, Machine
<1>3. Catalogued'
  BY <1>1, CataloguedStays DEF Inventoried
<1>4. Owning'
  <2>1. /\ primary \in [Families -> UNION {Owners[f] : f \in Families}]
        /\ primary' \in [Families -> UNION {Owners[f] : f \in Families}]
        /\ \A f \in Families : primary'[f] = IF f = family THEN World.primary[family]
                                             ELSE primary[f]
    BY <1>1, <1>2 DEF Inventoried, Owning
  <2>2. \A f \in Families : HasRead(f)' => HasRead(f) \/ f = family
    BY <1>1 DEF HasRead, Collecting, Families
  <2> QED BY <1>2, <2>1, <2>2 DEF Inventoried, Owning
<1> QED BY <1>1, <1>3, <1>4, ReadingSafe

\* A new row is built of what has been read.
LEMMA RowIsFormed ==
  ASSUME Inventoried, NEW name \in DOMAIN raw
  PROVE  RowOf(name) \in Row /\ Formed(RowOf(name)) /\ RowOf(name).name = name
<1> DEFINE service == ServiceOf(name)
           kind == Classify(name, service.hardware)
<1>1. /\ RowOf(name).name = name /\ RowOf(name).kind = kind
      /\ RowOf(name).status = StatusOf(kind, raw[name], World.links[name].carrier)
      /\ RowOf(name).named = (service.named \/ kind = "loopback")
      /\ RowOf(name).gateway = GatewayOf(name) /\ RowOf(name).default = (Owned(name) # {})
  BY DEF RowOf
<1>2. service.hardware \in Hardware(name) /\ service.named \in BOOLEAN
  BY ServiceFits DEF Inventoried
<1>3. kind \in Kinds /\ RowOf(name).status \in Statuses
  <2>1. \A hardware : ByHardware(hardware) \in Kinds
    BY DEF ByHardware, Kinds
  <2>2. kind \in Kinds
    BY <2>1 DEF Classify, Kinds
  <2>3. \A k, link, carrier : StatusOf(k, link, carrier) \in Statuses
    BY DEF StatusOf, Statuses
  <2> QED BY <1>1, <2>2, <2>3
<1>4. GatewayOf(name) \in Routers
  <2>1. \A f \in Families : primary[f] \in UNION {Owners[g] : g \in Families}
    BY DEF Inventoried, Owning
  <2>2. \A f \in Families : primary[f].router \in Routers
    BY <2>1 DEF Routers
  <2>3. "v4" \in Families /\ "v6" \in Families /\ "none" \in Routers
    BY DEF Families, Routers
  <2> QED BY <2>2, <2>3 DEF GatewayOf
<1>5. name \in ToSet(Names)
  BY DEF Inventoried, Enumerated
<1>6. RowOf(name) \in Row
  <2> HIDE DEF service, kind
  <2>1. RowOf(name).named \in BOOLEAN /\ RowOf(name).default \in BOOLEAN
    BY <1>1, <1>2, Zenon
  <2>2. PICK row : row = RowOf(name)
    OBVIOUS
  <2>3. row = [name |-> row.name, kind |-> row.kind, status |-> row.status, named |-> row.named,
               gateway |-> row.gateway, default |-> row.default]
    BY <2>2 DEF RowOf
  <2> QED BY <1>1, <1>2, <1>3, <1>4, <1>5, <2>1, <2>2, <2>3 DEF Row
<1>7. World \in Moments
  BY WorldIsAMoment DEF Inventoried
<1> HIDE DEF service, kind
<1> QED BY <1>1, <1>2, <1>6, <1>7 DEF Formed, kind, service

LEMMA BuildSafe == Inventoried /\ Build => Inventoried'
<1> SUFFICES ASSUME Inventoried, Build PROVE Inventoried'
  OBVIOUS
<1>1. /\ stage = "build" /\ stage' = "build"
      /\ UNCHANGED <<worlds, asked, keys, raw, services, primary, sized, table, page>>
  BY DEF Build, routing
<1>2. PICK name \in Unbuilt : interfaces' = Append(interfaces, RowOf(name))
  BY DEF Build
<1>3. PICK row : row = RowOf(name)
  OBVIOUS
<1>4. row \in Row /\ Formed(row) /\ row.name = name
  BY <1>2, <1>3, RowIsFormed DEF Unbuilt
<1>5. /\ interfaces \in Seq(Row) /\ interfaces' = Append(interfaces, row)
      /\ \A i \in DOMAIN interfaces : interfaces[i].name # name
      /\ \A i, k \in DOMAIN interfaces : interfaces[i].name = interfaces[k].name => i = k
  BY <1>2, <1>3 DEF Inventoried, Built, Unbuilt, ToSet
<1>6. /\ interfaces' \in Seq(Row) /\ ToSet(interfaces)' = ToSet(interfaces) \cup {row}
      /\ \A i, k \in DOMAIN interfaces' : interfaces'[i].name = interfaces'[k].name => i = k
  BY <1>4, <1>5 DEF ToSet
<1>7. Machined' /\ Moments' = Moments
  BY <1>1, MachinedStays DEF Inventoried
<1>8. (\A r \in ToSet(interfaces) : Formed(r))'
  <2>1. \A r : Formed(r) => Formed(r)'
    BY <1>1, <1>7, RowStays
  <2> QED BY <1>4, <1>6, <2>1 DEF Inventoried, Built
<1>9. Built'
  BY <1>1, <1>6, <1>8 DEF Built, Listed, Collecting
<1>10. Enumerated' /\ Catalogued' /\ Owning'
  <2>1. \A f \in Families : HasRead(f)' => HasRead(f)
    BY <1>1 DEF HasRead
  <2> QED BY <1>1, <1>7, <2>1, EnumeratedStays, CataloguedStays, OwningStays DEF Inventoried
<1>11. Tabled' /\ Paged' /\ stage' \in Stages
  BY <1>1, <1>7, TabledStays, PagedStays DEF Inventoried, Routing, Stages, Collecting
<1> QED BY <1>7, <1>9, <1>10, <1>11 DEF Inventoried

LEMMA SortSafe == Inventoried /\ SortInterfaces => Inventoried'
<1> SUFFICES ASSUME Inventoried, SortInterfaces PROVE Inventoried'
  OBVIOUS
<1>1. /\ stage = "build" /\ stage' = "collected" /\ Unbuilt = {}
      /\ UNCHANGED <<worlds, asked, keys, raw, services, primary, sized, table, page>>
  BY DEF SortInterfaces, Proceed, routing
<1>2. PICK rows \in Sorted(interfaces) : interfaces' = rows
  BY DEF SortInterfaces
<1>3. /\ rows \in Seq(Row) /\ ToSet(rows) = ToSet(interfaces) /\ InOrder(rows)
      /\ \A i, k \in DOMAIN rows : rows[i].name = rows[k].name => i = k
  BY <1>2, SortedKeeps DEF Inventoried, Built
<1>4. ToSet(interfaces)' = ToSet(interfaces) /\ InOrder(interfaces)'
  BY <1>2, <1>3
<1>5. Machined' /\ Moments' = Moments
  BY <1>1, MachinedStays DEF Inventoried
<1>6. (\A r \in ToSet(interfaces) : Formed(r))'
  <2>1. \A r : Formed(r) => Formed(r)'
    BY <1>1, <1>5, RowStays
  <2> QED BY <1>4, <2>1 DEF Inventoried, Built
<1>7. Built'
  <2>1. DOMAIN raw \subseteq {row.name : row \in ToSet(interfaces)}
    BY <1>1 DEF Unbuilt
  <2> QED BY <1>1, <1>2, <1>3, <1>4, <1>6, <2>1 DEF Built, Collecting
<1>8. Enumerated' /\ Catalogued' /\ Owning'
  <2>1. \A f \in Families : HasRead(f)' => HasRead(f)
    BY <1>1 DEF HasRead, Collecting
  <2> QED BY <1>1, <1>5, <2>1, EnumeratedStays, CataloguedStays, OwningStays DEF Inventoried
<1>9. Tabled' /\ Paged' /\ stage' \in Stages
  BY <1>1, <1>5, TabledStays, PagedStays DEF Inventoried, Routing, Stages, Collecting
<1> QED BY <1>5, <1>7, <1>8, <1>9 DEF Inventoried

\* Once the list is sorted it is only looked at.
LEMMA LookingSafe ==
  ASSUME Inventoried, UNCHANGED <<worlds, asked, keys, raw, services, primary, interfaces>>,
         stage \in {"collected", "sized", "dumped"},
         stage' \in {"sized", "dumped", "failed", "done"},
         Tabled', Paged'
  PROVE  Inventoried'
<1>1. Machined' /\ Moments' = Moments
  BY MachinedStays DEF Inventoried
<1>2. \A f \in Families : HasRead(f)' => HasRead(f)
  BY DEF HasRead, Collecting
<1>3. Enumerated' /\ Catalogued' /\ Owning'
  BY <1>1, <1>2, EnumeratedStays, CataloguedStays, OwningStays DEF Inventoried
<1>4. Built' /\ stage' \in Stages
  BY <1>1, BuiltStays DEF Inventoried, Collecting, Listed, Stages, Routing
<1> QED BY <1>1, <1>3, <1>4 DEF Inventoried

LEMMA ReportSafe == Inventoried /\ ShowReport => Inventoried'
<1> SUFFICES ASSUME Inventoried, ShowReport PROVE Inventoried'
  OBVIOUS
<1>1. /\ stage = "collected" /\ stage' = "done" /\ asked.command = "report"
      /\ page' = [NoPage EXCEPT !.rows = VisibleInterfaces, !.tunnel = TunnelShape]
      /\ UNCHANGED <<worlds, asked, keys, raw, services, primary, interfaces, sized, table>>
  BY DEF ShowReport, Proceed, collected, routing
<1>2. Tabled'
  BY <1>1 DEF Inventoried, Tabled, Finished, Routing
<1>3. VisibleInterfaces' = VisibleInterfaces /\ TunnelShape' = TunnelShape
  BY <1>1 DEF VisibleInterfaces, IsWorthShowing, TunnelShape, Tunnels
<1>4. page'.rows = VisibleInterfaces /\ page'.tunnel = TunnelShape
  BY <1>1 DEF NoPage
<1>5. Paged'
  BY <1>1, <1>3, <1>4 DEF Paged, Finished
<1> QED BY <1>1, <1>2, <1>5, LookingSafe

LEMMA WantedIsFinite ==
  ASSUME NEW w \in Machine
  PROVE  IsFiniteSet(Wanted(w)) /\ Cardinality(Wanted(w)) \in Nat
<1>1. IsFiniteSet(w.extra)
  BY InventoryAssumption DEF InventoryAssumption, Machine
<1>2. IsFiniteSet(DefaultRoutes(w))
  <2> DEFINE owned == {g \in Families : w.primary[g] # NoOne}
             route == [g \in owned |-> [family |-> g, default |-> TRUE, cloned |-> FALSE,
                                       interface |-> w.primary[g].owner]]
  <2>1. Families = {"v4"} \cup {"v6"}
    BY DEF Families
  <2>2. IsFiniteSet(Families)
    BY <2>1, FS_Singleton, FS_AddElement
  <2>3. IsFiniteSet(owned)
    BY <2>2, FS_Subset
  <2>4. \A g \in owned : route[g] \in DefaultRoutes(w)
    BY DEF DefaultRoutes
  <2>5. \A r \in DefaultRoutes(w) : \E g \in owned : route[g] = r
    BY DEF DefaultRoutes
  <2>6. route \in [owned -> DefaultRoutes(w)]
    BY <2>4
  <2> HIDE DEF owned, route
  <2>7. route \in Surjection(owned, DefaultRoutes(w))
    BY <2>5, <2>6, Zenon DEF Surjection
  <2> QED BY <2>3, <2>7, FS_Surjection
<1>3. IsFiniteSet(Table(w))
  BY <1>1, <1>2, FS_Union DEF Table
<1> QED BY <1>3, FS_Subset, FS_CardinalityType DEF Wanted

LEMMA TableSafe == Inventoried /\ (SizeTable \/ FillTable) => Inventoried'
<1> SUFFICES ASSUME Inventoried, SizeTable \/ FillTable PROVE Inventoried'
  OBVIOUS
<1>1. /\ UNCHANGED <<worlds, asked, keys, raw, services, primary, interfaces, page>>
      /\ stage \in {"collected", "sized"} /\ stage' \in {"sized", "dumped", "failed"}
      /\ asked.command = "routes"
  BY DEF SizeTable, FillTable, collected, Inventoried, Tabled, Routing
<1>2. /\ Moments' = Moments /\ World \in Moments /\ World \in Machine
  BY <1>1, MachinedStays, WorldIsAMoment DEF Inventoried
<1>3. IsFiniteSet(Wanted(World)) /\ Cardinality(Wanted(World)) \in Nat
  BY <1>2, WantedIsFinite
<1>4. \A w : Wanted(w)' = Wanted(w)
  BY <1>1 DEF Wanted, Table, DefaultRoutes
<1>5. Paged'
  BY <1>1, PagedStays
<1>6. CASE SizeTable
  <2>1. table' = {} /\ sized' = Cardinality(Wanted(World))
        /\ stage' = IF sized' = 0 THEN "dumped" ELSE "sized"
    BY <1>6 DEF SizeTable, Inventoried, Tabled, Finished
  <2>2. stage' = "dumped" => table' = Wanted(World)
    BY <1>3, <2>1, FS_EmptySet
  <2>3. Tabled'
    BY <1>1, <1>2, <1>3, <1>4, <2>1, <2>2 DEF Tabled, Finished
  <2> QED BY <1>1, <1>5, <2>3, LookingSafe
<1>7. CASE FillTable
  <2>1. /\ stage = "sized" /\ sized' = sized
        /\ \/ stage' = "failed" /\ table' = table
           \/ stage' = "dumped" /\ table' = Wanted(World)
    BY <1>7 DEF FillTable
  <2>2. Tabled'
    BY <1>1, <1>2, <1>4, <2>1 DEF Inventoried, Tabled, Finished
  <2> QED BY <1>1, <1>5, <2>2, LookingSafe
<1> QED BY <1>6, <1>7

LEMMA RoutesSafe == Inventoried /\ ShowRoutes => Inventoried'
<1> SUFFICES ASSUME Inventoried, ShowRoutes PROVE Inventoried'
  OBVIOUS
<1>1. /\ stage = "dumped" /\ stage' = "done" /\ page' = Summarise(Shown, table)
      /\ UNCHANGED <<worlds, asked, keys, raw, services, primary, interfaces, sized, table>>
  BY DEF ShowRoutes, Proceed, collected, routing
<1>2. asked.command = "routes"
  BY <1>1 DEF Inventoried, Tabled, Routing
<1>3. Moments' = Moments /\ \A w : Wanted(w)' = Wanted(w)
  BY <1>1, MachinedStays DEF Inventoried, Wanted, Table, DefaultRoutes
<1>4. Tabled'
  BY <1>1, <1>2, <1>3 DEF Inventoried, Tabled, Finished, Routing
<1>5. Paged'
  <2>1. page'.split = SplitTunnel(table)
    BY <1>1 DEF Summarise, NoPage
  <2>2. SplitTunnel(table)' = SplitTunnel(table)
    BY <1>1 DEF SplitTunnel, Tunnels
  <2> QED BY <1>1, <1>2, <2>1, <2>2 DEF Paged, Finished
<1> QED BY <1>1, <1>4, <1>5, LookingSafe

LEMMA InventoryGoesOn == Inventoried /\ [InventoryNext]_inventoryVars => Inventoried'
<1> SUFFICES ASSUME Inventoried, [InventoryNext]_inventoryVars PROVE Inventoried'
  OBVIOUS
<1>1. CASE Step
  BY <1>1, EnumerateSafe, ServicesSafe, PrimarySafe, BuildSafe, SortSafe, ReportSafe, TableSafe,
     RoutesSafe DEF Step
<1>2. CASE Change
  BY <1>2, ChangeSafe
<1>3. CASE UNCHANGED inventoryVars
  <2>1. /\ UNCHANGED <<worlds, asked, stage, keys, raw, services, primary, interfaces>>
        /\ UNCHANGED <<sized, table, page>>
    BY <1>3 DEF inventoryVars, collected, routing
  <2>2. Machined' /\ Moments' = Moments /\ \A w : Wanted(w)' = Wanted(w)
    BY <2>1, MachinedStays DEF Inventoried, Wanted, Table, DefaultRoutes
  <2>3. \A f \in Families : HasRead(f)' => HasRead(f)
    BY <2>1 DEF HasRead
  <2>4. Enumerated' /\ Catalogued' /\ Owning'
    BY <2>1, <2>2, <2>3, EnumeratedStays, CataloguedStays, OwningStays DEF Inventoried
  <2>5. Built'
    BY <2>1, <2>2, BuiltStays DEF Inventoried, Listed
  <2>6. Tabled'
    BY <2>1, <2>2 DEF Inventoried, Tabled, Finished
  <2>7. VisibleInterfaces' = VisibleInterfaces /\ TunnelShape' = TunnelShape
        /\ SplitTunnel(table)' = SplitTunnel(table)
    BY <2>1 DEF VisibleInterfaces, IsWorthShowing, TunnelShape, Tunnels, SplitTunnel
  <2>8. Paged'
    BY <2>1, <2>7 DEF Inventoried, Paged, Finished
  <2> QED BY <2>1, <2>2, <2>4, <2>5, <2>6, <2>8 DEF Inventoried
<1> QED BY <1>1, <1>2, <1>3 DEF InventoryNext

LEMMA InventoriedAlways == InventorySpec => []Inventoried
<1>1. InventoryInit => Inventoried
  BY InventoryStarts
<1>2. Inventoried /\ [InventoryNext]_inventoryVars => Inventoried'
  BY InventoryGoesOn
<1> QED BY <1>1, <1>2, PTL DEF InventorySpec

-----------------------------------------------------------------------------
(* What the invariant says of the list and of the two pages.                *)

\* A kind is a tunnel's only for the interface's name or a service's hardware.
LEMMA KindTells ==
  ASSUME NEW n \in ToSet(Names), NEW hardware \in Hardware(n)
  PROVE  /\ Classify(n, hardware) = "vpn" => MayTunnel(n)
         /\ Prefix[n] = "utun" => Classify(n, hardware) = "vpn"
         /\ Prefix[n] # "lo" => Classify(n, hardware) # "loopback"
<1>1. ByHardware(hardware) = "vpn" => hardware \in {"IPSec", "L2TP", "PPP"}
  BY DEF ByHardware
<1>2. ByHardware(hardware) # "loopback"
  BY DEF ByHardware
<1>3. Classify(n, hardware) = "vpn" => Prefix[n] = "utun" \/ ByHardware(hardware) = "vpn"
  BY DEF Classify
<1>4. hardware # "none" =>
        \E s \in DOMAIN Services : Services[s].device = n /\ Services[s].hardware = hardware
  BY DEF Hardware
<1>5. Classify(n, hardware) = "vpn" => MayTunnel(n)
  BY <1>1, <1>3, <1>4 DEF MayTunnel
<1>6. Prefix[n] = "utun" => Classify(n, hardware) = "vpn"
  BY DEF Classify
<1>7. Prefix[n] # "lo" => Classify(n, hardware) # "loopback"
  BY <1>2 DEF Classify
<1> QED BY <1>5, <1>6, <1>7

\* An interface that was there at every moment is in the finished list once.
LEMMA PresentIsListed ==
  ASSUME Inventoried, Listed, NEW n \in ToSet(Names), \A w \in Moments : w.links[n].up
  PROVE  \E row \in ToSet(interfaces) :
           /\ row.name = n /\ row \in Row /\ Formed(row) /\ n \in DOMAIN raw
           /\ \E w \in Moments : raw[n] = w.links[n]
<1>1. stage # "enumerate"
  BY DEF Listed
<1>2. ~Absent.up
  BY DEF Absent
<1>3. n \in DOMAIN raw /\ \E w \in Moments : raw[n] = w.links[n]
  BY <1>1, <1>2 DEF Inventoried, Enumerated
<1>4. \E row \in ToSet(interfaces) : row.name = n
  BY <1>3 DEF Inventoried, Built
<1>5. \A row \in ToSet(interfaces) : row \in Row /\ Formed(row)
  BY DEF Inventoried, Built, ToSet
<1> QED BY <1>3, <1>4, <1>5

\* What a status needs and what suffices for it.
LEMMA StatusTells ==
  ASSUME NEW kind \in Kinds, NEW link, NEW carrier
  PROVE  /\ link.up /\ "routable" \in link.addresses /\ (carrier # "no" \/ kind = "vpn")
              => StatusOf(kind, link, carrier) \in {"connected", "up"}
         /\ kind = "vpn" /\ StatusOf(kind, link, carrier) \in {"connected", "up"}
              => Live(link)
BY DEF StatusOf, Live, Kinds

LEMMA CarryingIsActive ==
  ASSUME Inventoried, Listed, NEW n \in ToSet(Names), \A w \in Moments : CanCarry(w.links[n])
  PROVE  \E row \in ToSet(interfaces) :
           row.name = n /\ row \in Row /\ Formed(row) /\ Active(row)
<1>1. PICK row \in ToSet(interfaces) :
        /\ row.name = n /\ row \in Row /\ Formed(row) /\ n \in DOMAIN raw
        /\ \E w \in Moments : raw[n] = w.links[n]
  BY PresentIsListed DEF CanCarry
<1>2. PICK w \in Moments : row.status = StatusOf(row.kind, raw[n], w.links[n].carrier)
  BY <1>1 DEF Formed
<1>3. raw[n].up /\ "routable" \in raw[n].addresses /\ w.links[n].carrier # "no"
  BY <1>1, <1>2 DEF CanCarry
<1>4. row.kind \in Kinds
  BY <1>1 DEF Row
<1>5. Active(row)
  BY <1>2, <1>3, <1>4, StatusTells DEF Active
<1> QED BY <1>1, <1>5

LEMMA InventoryTyped == Inventoried => InventoryTypeOK
<1> SUFFICES ASSUME Inventoried PROVE InventoryTypeOK
  OBVIOUS
<1>1. Len(services) <= Cardinality(DOMAIN Services)
  <2>1. Cardinality(DOMAIN Services) \in Nat
    BY InventoryAssumption, FS_CardinalityType DEF InventoryAssumption
  <2>2. Len(services) \in Nat /\ Len(keys) \in Nat
    BY DEF Inventoried, Catalogued
  <2> QED BY <2>1, <2>2 DEF Inventoried, Catalogued
<1>2. table \subseteq UNION {Table(w) : w \in Moments}
  <2>1. \A w : Wanted(w) \subseteq Table(w)
    BY DEF Wanted
  <2> QED BY <2>1 DEF Inventoried, Tabled
<1>3. ASSUME Listed
      PROVE  /\ {row.name : row \in ToSet(interfaces)} = DOMAIN raw
             /\ Len(interfaces) = Cardinality(DOMAIN raw)
  <2>1. /\ interfaces \in Seq(Row) /\ DOMAIN interfaces = 1..Len(interfaces)
        /\ Len(interfaces) \in Nat
        /\ \A row \in ToSet(interfaces) : row.name \in DOMAIN raw
        /\ DOMAIN raw \subseteq {row.name : row \in ToSet(interfaces)}
        /\ \A i, k \in DOMAIN interfaces : interfaces[i].name = interfaces[k].name => i = k
    BY <1>3 DEF Inventoried, Built, Formed
  <2>2. {row.name : row \in ToSet(interfaces)} = DOMAIN raw
    <3> DEFINE names == {row.name : row \in ToSet(interfaces)}
    <3>1. names \subseteq DOMAIN raw
      BY <2>1
    <3>2. DOMAIN raw \subseteq names
      BY <2>1
    <3> HIDE DEF names
    <3>3. names = DOMAIN raw
      BY <3>1, <3>2
    <3> QED BY <3>3 DEF names
  <2> DEFINE naming == [i \in DOMAIN interfaces |-> interfaces[i].name]
  <2>3. \A i \in DOMAIN interfaces : interfaces[i].name \in DOMAIN raw
    BY <2>1 DEF ToSet
  <2>4. \A n \in DOMAIN raw : \E i \in DOMAIN interfaces : interfaces[i].name = n
    BY <2>1 DEF ToSet
  <2>5. naming \in [DOMAIN interfaces -> DOMAIN raw]
    BY <2>3
  <2>6. \A n \in DOMAIN raw : \E i \in DOMAIN interfaces : naming[i] = n
    BY <2>4
  <2>7. \A i, k \in DOMAIN interfaces : naming[i] = naming[k] => i = k
    BY <2>1
  <2> HIDE DEF naming
  <2>8. naming \in Injection(DOMAIN interfaces, DOMAIN raw)
    BY <2>5, <2>7, Zenon DEF Injection, IsInjective
  <2>9. naming \in Surjection(DOMAIN interfaces, DOMAIN raw)
    BY <2>5, <2>6, Zenon DEF Surjection
  <2>10. ExistsBijection(DOMAIN interfaces, DOMAIN raw)
    BY <2>8, <2>9, Zenon DEF ExistsBijection, Bijection
  <2>11. IsFiniteSet(1..Len(interfaces)) /\ Cardinality(1..Len(interfaces)) = Len(interfaces)
    <3> DEFINE one == 1
               size == Len(interfaces)
    <3>1. one \in Int /\ size \in Int /\ size \in Nat
      BY <2>1
    <3> HIDE DEF one, size
    <3>2. /\ IsFiniteSet(one..size)
          /\ Cardinality(one..size) = IF one > size THEN 0 ELSE size - one + 1
      BY <3>1, FS_Interval
    <3> QED BY <3>1, <3>2 DEF one, size
  <2>12. Cardinality(DOMAIN raw) = Len(interfaces)
    <3> DEFINE D == DOMAIN interfaces
               R == DOMAIN raw
    <3>1. IsFiniteSet(D) /\ Cardinality(D) = Len(interfaces) /\ ExistsBijection(D, R)
      BY <2>1, <2>10, <2>11
    <3> HIDE DEF D, R
    <3>2. Cardinality(D) = Cardinality(R)
      BY <3>1, FS_Bijection
    <3> QED BY <3>1, <3>2 DEF R
  <2> QED BY <2>2, <2>12
<1>4. /\ DOMAIN raw \subseteq ToSet(Names) /\ sized \in Nat
      /\ \A f \in Families : primary[f] \in Owners[f]
  BY DEF Inventoried, Enumerated, Tabled, Owning
<1>5. stage \in {"enumerate", "services", "service", "primary4", "primary6", "build",
                 "collected", "sized", "dumped", "done", "failed"}
  BY DEF Inventoried, Stages, Collecting, Routing
<1> QED BY <1>1, <1>2, <1>3, <1>4, <1>5 DEF InventoryTypeOK, Inventoried, Machined

LEMMA OwnerLeads == Inventoried => SteadyOwnerLeads
<1> SUFFICES ASSUME Inventoried, Listed, NEW f \in Families, NEW n \in ToSet(Names),
                    \A w \in Moments : w.primary[f].owner = n /\ CanCarry(w.links[n])
             PROVE  \E i \in DOMAIN interfaces :
                      /\ interfaces[i].name = n /\ interfaces[i].default
                      /\ \A k \in 1 .. i : interfaces[k].default /\ Active(interfaces[k])
  BY DEF SteadyOwnerLeads
<1>1. PICK row \in ToSet(interfaces) :
        row.name = n /\ row \in Row /\ Formed(row) /\ Active(row)
  BY CarryingIsActive
<1>2. HasRead(f)
  BY DEF HasRead, Listed, Collecting
<1>3. primary[f].owner = n
  BY <1>2 DEF Inventoried, Owning
<1>4. row.default
  BY <1>1, <1>3 DEF Formed, Owned
<1>5. PICK i \in DOMAIN interfaces : interfaces[i] = row
  BY DEF ToSet
<1>6. /\ interfaces \in Seq(Row) /\ DOMAIN interfaces = 1..Len(interfaces)
      /\ Len(interfaces) \in Nat /\ InOrder(interfaces)
      /\ \A k \in DOMAIN interfaces : interfaces[k] \in Row
  BY DEF Inventoried, Built
<1>7. Rank(row) = 0
  BY <1>1, <1>4, RankTells
<1>8. ASSUME NEW k \in 1 .. i PROVE interfaces[k].default /\ Active(interfaces[k])
  <2>1. k \in DOMAIN interfaces /\ interfaces[k] \in Row /\ (k = i \/ k < i)
    BY <1>5, <1>6, <1>8
  <2>2. Rank(interfaces[k]) \in 0..3
    BY <2>1, RankTells
  <2>3. k < i => Rank(interfaces[k]) = 0
    BY <1>5, <1>6, <1>7, <2>1, <2>2 DEF InOrder, Before
  <2>4. Rank(interfaces[k]) = 0
    BY <1>5, <1>7, <2>1, <2>3
  <2> QED BY <2>1, <2>4, RankTells
<1> QED BY <1>1, <1>4, <1>5, <1>8

LEMMA ActiveAreFirst == Inventoried => ActiveComeFirst
<1> SUFFICES ASSUME Inventoried, NEW i \in DOMAIN interfaces, NEW k \in DOMAIN interfaces,
                    Listed, i < k, Active(interfaces[k])
             PROVE  Active(interfaces[i])
  BY DEF ActiveComeFirst
<1>1. /\ InOrder(interfaces) /\ interfaces[i] \in Row /\ interfaces[k] \in Row
  BY DEF Inventoried, Built
<1>2. /\ Rank(interfaces[i]) \in 0..3 /\ Rank(interfaces[k]) \in 0..3
      /\ Rank(interfaces[k]) # 3
  BY <1>1, RankTells
<1>3. Rank(interfaces[i]) <= Rank(interfaces[k])
  BY <1>1, <1>2 DEF InOrder, Before
<1>4. Rank(interfaces[i]) # 3
  BY <1>2, <1>3
<1> QED BY <1>1, <1>4, RankTells

LEMMA UsableIsShown == Inventoried => NothingUsableIsHidden
<1> SUFFICES ASSUME Inventoried, Finished, asked.command = "report", asked.iface = "none",
                    NEW n \in ToSet(Names), Prefix[n] # "lo",
                    \A w \in Moments : CanCarry(w.links[n])
             PROVE  \E row \in page.rows : row.name = n
  BY DEF NothingUsableIsHidden
<1>1. Listed
  BY DEF Finished, Listed
<1>2. PICK row \in ToSet(interfaces) :
        row.name = n /\ row \in Row /\ Formed(row) /\ Active(row)
  BY <1>1, CarryingIsActive
<1>3. row.kind # "loopback"
  BY <1>2, KindTells DEF Formed
<1>4. row \in VisibleInterfaces
  BY <1>2, <1>3 DEF VisibleInterfaces, IsWorthShowing
<1>5. page.rows = VisibleInterfaces
  BY DEF Inventoried, Paged
<1> QED BY <1>2, <1>4, <1>5

LEMMA TunnelIsRealAlways == Inventoried => TunnelIsReal
<1> SUFFICES ASSUME Inventoried, Finished, asked.command = "report" PROVE TunnelIsReal
  BY DEF TunnelIsReal
<1>1. Listed /\ page.tunnel = TunnelShape
  BY DEF Finished, Listed, Inventoried, Paged
<1>2. page.tunnel = "none" <=> Tunnels = {}
  BY <1>1 DEF TunnelShape
<1>3. page.tunnel = "full" => \E row \in Tunnels : row.default
  BY <1>1, <1>2 DEF TunnelShape
<1>4. ASSUME NEW n \in ToSet(Names), Prefix[n] = "utun", \A w \in Moments : Live(w.links[n])
      PROVE  Tunnels # {}
  <2>1. PICK row \in ToSet(interfaces) :
          /\ row.name = n /\ row \in Row /\ Formed(row) /\ n \in DOMAIN raw
          /\ \E w \in Moments : raw[n] = w.links[n]
    BY <1>1, <1>4, PresentIsListed DEF Live
  <2>2. row.kind = "vpn" /\ row.kind \in Kinds
    BY <1>4, <2>1, KindTells DEF Formed, Row
  <2>3. PICK w \in Moments : row.status = StatusOf(row.kind, raw[n], w.links[n].carrier)
    BY <2>1 DEF Formed
  <2>4. raw[n].up /\ "routable" \in raw[n].addresses
    BY <1>4, <2>1 DEF Live
  <2>5. Active(row)
    BY <2>2, <2>3, <2>4, StatusTells DEF Active
  <2> QED BY <2>1, <2>2, <2>5 DEF Tunnels
<1>5. ASSUME NEW row \in Tunnels
      PROVE  /\ row.name \in ToSet(Names) /\ MayTunnel(row.name)
             /\ \E w \in Moments : Live(w.links[row.name])
             /\ row.default => \E v \in Moments, f \in Families : v.primary[f].owner = row.name
  <2>1. /\ row \in ToSet(interfaces) /\ row.kind = "vpn" /\ Active(row) /\ Formed(row)
        /\ row.name \in DOMAIN raw /\ row.name \in ToSet(Names)
    BY <1>5 DEF Tunnels, Inventoried, Built, Enumerated, Formed
  <2>2. MayTunnel(row.name)
    BY <2>1, KindTells DEF Formed
  <2>3. PICK w \in Moments :
          row.status = StatusOf(row.kind, raw[row.name], w.links[row.name].carrier)
    BY <2>1 DEF Formed
  <2>4. "vpn" \in Kinds
    BY DEF Kinds
  <2>5. Live(raw[row.name])
    BY <2>1, <2>3, <2>4, StatusTells DEF Active
  <2>6. \E v \in Moments : raw[row.name] = v.links[row.name]
    BY <1>1, <2>1 DEF Listed, Inventoried, Enumerated
  <2>7. ASSUME row.default PROVE \E v \in Moments, f \in Families : v.primary[f].owner = row.name
    <3>1. PICK f \in Families : primary[f].owner = row.name
      BY <2>1, <2>7 DEF Formed, Owned
    <3>2. HasRead(f)
      BY <1>1 DEF HasRead, Listed, Collecting
    <3> QED BY <3>1, <3>2 DEF Inventoried, Owning
  <2> QED BY <2>1, <2>2, <2>5, <2>6, <2>7
<1>6. ASSUME page.tunnel # "none"
      PROVE  \E n \in ToSet(Names), w \in Moments : MayTunnel(n) /\ Live(w.links[n])
  BY <1>2, <1>5, <1>6
<1>7. ASSUME page.tunnel = "full"
      PROVE  \E n \in ToSet(Names), w, v \in Moments, f \in Families :
               MayTunnel(n) /\ Live(w.links[n]) /\ v.primary[f].owner = n
  <2>1. PICK row \in Tunnels : row.default
    BY <1>3, <1>7
  <2> QED BY <1>5, <2>1
<1> QED BY <1>2, <1>4, <1>6, <1>7 DEF TunnelIsReal

\* On a machine that stood still both ends read the same two dictionaries.
LEMMA SplitAgrees == Inventoried => SplitAgreesWithPrimary
<1> SUFFICES ASSUME Inventoried, Finished, asked.command = "routes", asked.family = "both",
                    Len(worlds) = 1, \A route \in World.extra : ~route.default
             PROVE  page.split <=> \E row \in Tunnels :
                      /\ ~row.default
                      /\ \E route \in Table(World) : route.interface = row.name
  BY DEF SplitAgreesWithPrimary
<1>1. Moments = {World}
  BY DEF Inventoried, Machined, Moments, World, Last, ToSet
<1>2. table = Table(World)
  <2>1. table = Wanted(World)
    BY <1>1 DEF Inventoried, Tabled
  <2> QED BY <2>1 DEF Wanted
<1>3. \A f \in Families : primary[f] = World.primary[f]
  <2>1. \A f \in Families : HasRead(f)
    BY DEF HasRead, Finished, Collecting
  <2> QED BY <1>1, <2>1 DEF Inventoried, Owning
<1>4. ASSUME NEW row \in Tunnels
      PROVE  (\A route \in Table(World) : route.default => route.interface # row.name)
               <=> ~row.default
  <2>1. row.name # "none" /\ row.default = (Owned(row.name) # {})
    BY <1>4, NamesAre DEF Tunnels, Inventoried, Built, Enumerated, Formed
  <2>2. ASSUME NEW f \in Families, primary[f].owner = row.name
        PROVE  \E route \in Table(World) : route.default /\ route.interface = row.name
    <3> DEFINE route == [family |-> f, default |-> TRUE, cloned |-> FALSE,
                         interface |-> World.primary[f].owner]
    <3>1. World.primary[f] # NoOne
      BY <1>3, <2>1, <2>2 DEF NoOne
    <3>2. route \in Table(World)
      BY <3>1 DEF Table, DefaultRoutes
    <3>3. route.default /\ route.interface = row.name
      BY <1>3, <2>2
    <3> QED BY <3>2, <3>3
  <2>3. ASSUME NEW route \in Table(World), route.default, route.interface = row.name
        PROVE  Owned(row.name) # {}
    <3>1. route \in DefaultRoutes(World)
      BY <2>3 DEF Table
    <3>2. PICK f \in Families : route.interface = World.primary[f].owner
      BY <3>1 DEF DefaultRoutes
    <3> QED BY <1>3, <2>3, <3>2 DEF Owned
  <2>4. row.default <=> \E f \in Families : primary[f].owner = row.name
    BY <2>1 DEF Owned
  <2> QED BY <2>1, <2>2, <2>3, <2>4
<1>5. page.split <=> SplitTunnel(Table(World))
  BY <1>2 DEF Inventoried, Paged
<1> QED BY <1>4, <1>5 DEF SplitTunnel

-----------------------------------------------------------------------------
(* The theorems.                                                           *)

\* Whatever changes while the facts are read, the gateway shown for an interface
\* is one that its own dictionary held, next to its own name, at some moment.
THEOREM GatewaysAreTheirOwn == InventorySpec => []GatewayIsItsOwn
<1>1. Inventoried => GatewayIsItsOwn
  <2> SUFFICES ASSUME Inventoried, NEW row \in ToSet(interfaces), row.gateway # "none"
               PROVE  \E w \in Moments, f \in Families :
                        w.primary[f] = [owner |-> row.name, router |-> row.gateway]
    BY DEF GatewayIsItsOwn
  <2>1. row.name \in ToSet(Names) /\ row.gateway = GatewayOf(row.name)
    BY DEF Inventoried, Built, Formed, Enumerated
  <2>2. PICK f \in Families : primary[f].owner = row.name /\ primary[f].router = row.gateway
    BY <2>1 DEF GatewayOf, Owned
  <2>3. primary[f] # NoOne
    BY <2>1, <2>2, NamesAre DEF NoOne
  <2>4. PICK w \in Moments : w.primary[f] = primary[f]
    BY <2>3 DEF Inventoried, Owning
  <2>5. primary[f] \in [owner : STRING, router : STRING]
    BY InventoryAssumption DEF InventoryAssumption, Inventoried, Owning
  <2>6. primary[f] = [owner |-> row.name, router |-> row.gateway]
    BY <2>2, <2>5
  <2> QED BY <2>4, <2>6
<1> QED BY <1>1, InventoriedAlways, PTL

\* The list has one row for each interface; an owner of a default route that
\* could carry it throughout leads, the active come before the rest, and the
\* report hides none that could carry traffic throughout.
THEOREM UsableLead == InventorySpec => []UsableInterfacesLead
<1>1. Inventoried => UsableInterfacesLead
  BY InventoryTyped, OwnerLeads, ActiveAreFirst, UsableIsShown DEF UsableInterfacesLead
<1> QED BY <1>1, InventoriedAlways, PTL

\* The report speaks of a tunnel only for one that was up and addressed, and on a
\* machine that stands still the routing table and the interfaces agree on
\* whether a tunnel is split.
THEOREM TunnelsHold == InventorySpec => []TunnelsAreReal
<1>1. Inventoried => TunnelsAreReal
  BY TunnelIsRealAlways, SplitAgrees DEF TunnelsAreReal
<1> QED BY <1>1, InventoriedAlways, PTL

\* No step leaves a table that is part of one moment's and part of another's, or
\* a part of any: the table dumped is one moment's, complete.
THEOREM TableStaysWhole == InventorySpec => [][TableIsWhole']_inventoryVars
<1>1. Inventoried => TableIsWhole
  BY DEF Inventoried, Tabled, TableIsWhole
<1>2. InventorySpec => []TableIsWhole
  BY <1>1, InventoriedAlways, PTL
<1> QED BY <1>2, PTL

-----------------------------------------------------------------------------
(***************************************************************************)
(* The name of the network.  Its inductive invariant: a helper is tried    *)
(* only once every source before it was tried in vain, and only the one at *)
(* hand has a child or a reader.                                           *)
(***************************************************************************)
SourceNames == {"core_wlan", "dynamic_store", "networksetup", "ipconfig", "system_profiler"}
HelperNames == {"networksetup", "ipconfig", "system_profiler"}

Final == IF policy = "slow" THEN 3 ELSE 2
Helping == pc \in {"next", "waiting", "kill", "join"}
Busy == pc \in {"waiting", "kill", "join"}

\* The i-th helper is the next, and the others of the policy are behind it.
Place(i) ==
  /\ Len(queue) = Final + 1 - i
  /\ \A k \in 1..Len(queue) : queue[k] = Helpers[k + i - 1]

\* The helpers before it have been tried in vain, and none from it on has been
\* killed but the one at hand, unless that was seen to exit.
Tried(i) ==
  /\ \A j \in 1..(i - 1) : Helpers[j] \in silent
  /\ \A j \in i..3 : Helpers[j] \in killed => j = i /\ pc = "join" /\ ~finished

Ordered ==
  /\ queue \in Seq(HelperNames)
  /\ pc \in {"radio", "store"} => queue = <<>> /\ started = {}
  /\ pc = "store" => "core_wlan" \in silent
  /\ Helping => {"core_wlan", "dynamic_store"} \subseteq silent
  /\ Helping /\ queue # <<>> =>
       policy # "disabled" /\ valid /\ \E i \in 1..3 : Place(i) /\ Tried(i)
  /\ pc # "done" => outcome = "none"
  /\ SourceIsRight

Reaped ==
  /\ Busy => queue # <<>> /\ reader # "none" /\ Helper \in started
  /\ ~Busy => child = "none" /\ reader = "none"
  /\ pc = "join" => child = "none"
  /\ pc \in {"waiting", "kill"} => ~finished
  /\ pc = "waiting" /\ polled => elapsed < Limit
  /\ NothingFromKilled

HInv == TypeOK /\ Ordered /\ Reaped

-----------------------------------------------------------------------------
LEMMA HelpersAre ==
  /\ Helpers \in Seq(HelperNames) /\ Len(Helpers) = 3
  /\ Helpers[1] = "networksetup" /\ Helpers[2] = "ipconfig"
  /\ Helpers[3] = "system_profiler"
BY DEF Helpers, HelperNames

LEMMA SourcesAre ==
  /\ Sources \in Seq(SourceNames) /\ Len(Sources) = 5
  /\ Sources[1] = "core_wlan" /\ Sources[2] = "dynamic_store"
  /\ Sources[3] = Helpers[1] /\ Sources[4] = Helpers[2] /\ Sources[5] = Helpers[3]
  /\ ToSet(Sources) = SourceNames /\ ToSet(Helpers) = HelperNames
  /\ ToSet(Natives) = {"core_wlan", "dynamic_store"}
<1>1. Natives \in Seq(SourceNames) /\ Len(Natives) = 2 /\ Natives[1] = "core_wlan"
      /\ Natives[2] = "dynamic_store"
  BY DEF Natives, SourceNames
<1>2. Helpers \in Seq(SourceNames)
  BY DEF Helpers, SourceNames
<1>3. /\ Sources \in Seq(SourceNames) /\ Len(Sources) = 5
      /\ \A i \in 1..5 : Sources[i] = IF i <= 2 THEN Natives[i] ELSE Helpers[i - 2]
  <2>1. /\ Sources \in Seq(SourceNames) /\ Len(Sources) = Len(Natives) + Len(Helpers)
        /\ \A i \in 1..(Len(Natives) + Len(Helpers)) : Sources[i] =
             IF i <= Len(Natives) THEN Natives[i] ELSE Helpers[i - Len(Natives)]
    BY <1>1, <1>2, ConcatProperties, Zenon DEF Sources
  <2>2. Len(Natives) = 2 /\ Len(Helpers) = 3
    BY <1>1, HelpersAre
  <2> QED BY <2>1, <2>2
<1>4. /\ Sources[1] = "core_wlan" /\ Sources[2] = "dynamic_store"
      /\ Sources[3] = Helpers[1] /\ Sources[4] = Helpers[2] /\ Sources[5] = Helpers[3]
  BY <1>1, <1>3
<1>5. ToSet(Helpers) = HelperNames
  BY HelpersAre DEF ToSet, HelperNames
<1>6. ToSet(Natives) = {"core_wlan", "dynamic_store"}
  BY <1>1 DEF ToSet
<1>7. ToSet(Sources) = SourceNames
  BY <1>3, <1>4, HelpersAre DEF ToSet, SourceNames
<1> QED
  BY <1>3, <1>4, <1>5, <1>6, <1>7

\* The head of the queue is the helper its place says, and the tail is one on.
LEMMA QueueMoves ==
  ASSUME queue \in Seq(HelperNames), queue # <<>>, policy \in Policies,
         NEW i \in 1..3, Place(i)
  PROVE  /\ Helper = Helpers[i] /\ i <= Final /\ Helper \in HelperNames
         /\ Tail(queue) \in Seq(HelperNames)
         /\ Len(Tail(queue)) = Final - i
         /\ \A k \in 1..Len(Tail(queue)) : Tail(queue)[k] = Helpers[k + i]
<1>1. Len(queue) \in Nat \ {0} /\ Head(queue) = queue[1] /\ Helper \in HelperNames
  BY DEF Helper
<1>2. Final \in {2, 3}
  BY DEF Final
<1>3. /\ Tail(queue) \in Seq(HelperNames) /\ Len(Tail(queue)) = Len(queue) - 1
      /\ \A k \in 1..Len(Tail(queue)) : Tail(queue)[k] = queue[k + 1]
  BY HeadTailProperties
<1>4. Helper = Helpers[i] /\ i <= Final
  BY <1>1, <1>2 DEF Place, Helper
<1> QED
  BY <1>1, <1>2, <1>3, <1>4 DEF Place

LEMMA CandidatesAre ==
  ASSUME policy \in Policies
  PROVE  /\ Candidates \in Seq(HelperNames)
         /\ Candidates # <<>> =>
              /\ policy # "disabled" /\ valid /\ Len(Candidates) = Final
              /\ \A k \in 1..Len(Candidates) : Candidates[k] = Helpers[k]
<1> DEFINE two == SubSeq(Helpers, 1, 2)
<1>1. /\ two \in Seq(HelperNames) /\ Len(two) = 2
      /\ \A k \in 1..2 : two[k] = Helpers[k]
  BY HelpersAre, SubSeqProperties
<1> HIDE DEF two
<1>2. \/ Candidates = <<>>
      \/ Candidates = Helpers /\ policy = "slow" /\ valid
      \/ Candidates = two /\ policy = "fast" /\ valid
  BY DEF Candidates, two, Policies
<1>3. <<>> \in Seq(HelperNames)
  OBVIOUS
<1> QED
  BY <1>1, <1>2, <1>3, HelpersAre DEF Final

-----------------------------------------------------------------------------
LEMMA InvInit == Init => HInv
<1> SUFFICES ASSUME Init PROVE HInv
  OBVIOUS
<1> USE SsidAssumption, SourcesAre DEF Init
<1>1. TypeOK
  <2>1. output \in [size : 0..MaxOutput, at : 0..MaxOutput] /\ wrote \in 0..output.size
    OBVIOUS
  <2>2. /\ pipe \in 0..CAPACITY /\ buf \in 0..MAX_OUTPUT /\ buf + pipe = wrote
        /\ elapsed \in 0..MaxWait
    OBVIOUS
  <2>3. /\ policy \in Policies /\ valid \in BOOLEAN
        /\ held \in BOOLEAN /\ polled \in BOOLEAN /\ finished \in BOOLEAN
        /\ silent \subseteq ToSet(Sources) /\ killed \subseteq started
        /\ started \subseteq ToSet(Helpers)
    OBVIOUS
  <2> QED BY <2>1, <2>2, <2>3 DEF TypeOK
<1>2. SourceIsRight
  BY HelpersAre DEF SourceIsRight, BestSourceWins, HelpersAreAllowed, SourceNames, HelperNames
<1>3. Ordered
  BY <1>2 DEF Ordered, Helping
<1>4. Reaped
  BY DEF Reaped, Busy, NothingFromKilled
<1> QED
  BY <1>1, <1>3, <1>4 DEF HInv

\* What the helper and its grandchild, the reader and the clock leave alone.
LEMMA OthersStep ==
  ASSUME HInv, Reader \/ Child \/ Tick
  PROVE  HInv'
<1> USE SsidAssumption DEF question, process, drain, wait, history
<1>1. TypeOK'
  <2> USE DEF HInv, TypeOK
  <2>0. output.size \in Nat
    OBVIOUS
  <2>1. CASE Drain
    BY <2>0, <2>1 DEF Drain
  <2>2. CASE ReaderEnds
    BY <2>2 DEF ReaderEnds
  <2>3. CASE ChildWrites
    BY <2>0, <2>3 DEF ChildWrites
  <2>4. CASE ChildExits \/ ChildForks \/ GrandchildExits
    <3>1. child' \in {"none", "running", "exited"} /\ held' \in BOOLEAN
      BY <2>4 DEF ChildExits, ChildForks, GrandchildExits
    <3>2. UNCHANGED <<question, pc, output, wrote, drain, wait, outcome, history>>
      BY <2>4 DEF ChildExits, ChildForks, GrandchildExits
    <3> QED BY <3>1, <3>2
  <2>5. CASE Tick
    <3>1. elapsed < MaxWait /\ elapsed' = elapsed + 1 /\ polled' = FALSE
      BY <2>5 DEF Tick
    <3>2. elapsed' \in 0..MaxWait
      BY <3>1
    <3>3. UNCHANGED <<question, pc, process, drain, finished, outcome, history>>
      BY <2>5 DEF Tick
    <3>4. UNCHANGED <<output, wrote, pipe, buf, reader, child, held, silent, killed, started>>
      BY <3>3
    <3> HIDE DEF HInv, question, process, drain, wait, history
    <3>5. polled' \in BOOLEAN /\ UNCHANGED <<question, pc, finished, outcome>>
      BY <3>1, <3>3
    <3> QED BY <3>2, <3>3, <3>4, <3>5 DEF HInv, question
  <2> QED BY <2>1, <2>2, <2>3, <2>4, <2>5 DEF Reader, Child
<1>2. UNCHANGED <<question, pc, queue, outcome, history, finished>>
  BY DEF Reader, Drain, ReaderEnds, Child, ChildWrites, ChildExits, ChildForks,
     GrandchildExits, Tick
<1>3. Ordered'
  <2>1. \A i \in 1..3 : Place(i) /\ Tried(i) => Place(i)' /\ Tried(i)'
    BY <1>2 DEF Place, Tried, Final
  <2>2. SourceIsRight'
    BY <1>2 DEF HInv, Ordered, SourceIsRight, BestSourceWins, HelpersAreAllowed
  <2> QED BY <1>2, <2>1, <2>2 DEF HInv, Ordered, Helping
<1>4. Reaped'
  BY <1>2 DEF HInv, Reaped, Busy, NothingFromKilled, Limit, Helper, Reader, Drain,
     ReaderEnds, Child, ChildWrites, ChildExits, ChildForks, GrandchildExits, Tick
<1> QED
  BY <1>1, <1>3, <1>4 DEF HInv

\* Once there are sources to ask, each step goes on to the next of them.
LEMMA RunTypes ==
  ASSUME HInv, Run
  PROVE  TypeOK'
<1> USE SsidAssumption, SourcesAre
    DEF HInv, TypeOK, question, process, drain, wait, history, Goto
<1>0. queue # <<>> => Helper \in HelperNames
  BY DEF Ordered, Helper
<1>1. CASE NoRadio \/ RadioKnows \/ RadioBlank \/ StoreKnows \/ StoreBlank
  <2>1. /\ UNCHANGED <<question, process, drain, wait, killed, started>>
        /\ pc' \in {"store", "next", "done"}
        /\ outcome' \in {outcome, "core_wlan", "dynamic_store"}
        /\ silent' \subseteq silent \cup {"core_wlan", "dynamic_store"}
    BY <1>1 DEF NoRadio, RadioKnows, RadioBlank, StoreKnows, StoreBlank, Found, Vain
  <2> QED BY <2>1 DEF SourceNames
<1>2. CASE CannotRun
  <2>1. Helper \in SourceNames
    BY <1>0, <1>2 DEF CannotRun, SourceNames, HelperNames
  <2>2. /\ UNCHANGED <<question, pc, process, drain, wait, outcome, killed, started>>
        /\ silent' = silent \cup {Helper}
    BY <1>2 DEF CannotRun, Vain
  <2> QED BY <2>1, <2>2
<1>3. CASE Spawn
  <2>1. /\ output' \in [size : 0..MaxOutput, at : 0..MaxOutput] /\ wrote' = 0
        /\ output'.size \in Nat
    BY <1>3 DEF Spawn
  <2>2. started' = started \cup {Helper} /\ Helper \in HelperNames
    BY <1>0, <1>3 DEF Spawn
  <2>3. /\ pipe' = 0 /\ buf' = 0 /\ reader' = "reading" /\ child' = "running"
        /\ elapsed' = 0 /\ polled' = FALSE /\ finished' = FALSE /\ held' = FALSE
        /\ pc' = "waiting" /\ UNCHANGED <<question, outcome, silent, killed>>
    BY <1>3 DEF Spawn
  <2>4. /\ wrote' \in 0..output'.size /\ pipe' \in 0..CAPACITY /\ buf' \in 0..MAX_OUTPUT
        /\ buf' + pipe' = wrote' /\ elapsed' \in 0..MaxWait
    BY <2>1, <2>3
  <2>5. killed' \subseteq started' /\ started' \subseteq ToSet(Helpers)
    BY <2>2, <2>3
  <2> QED BY <2>1, <2>3, <2>4, <2>5
<1>4. CASE SeenExit \/ SleepOn \/ TimeIsUp \/ TryWaitFails \/ Exhausted
  <2>1. /\ UNCHANGED <<question, held, output, wrote, drain, silent, killed, started>>
        /\ outcome' = outcome /\ elapsed' = elapsed /\ child' \in {child, "none"}
        /\ finished' \in BOOLEAN /\ polled' \in BOOLEAN
    BY <1>4 DEF SeenExit, SleepOn, TimeIsUp, TryWaitFails, Exhausted
  <2>2. pc' \in {"waiting", "join", "kill", "done"}
    BY <1>4 DEF SeenExit, SleepOn, TimeIsUp, TryWaitFails, Exhausted
  <2> QED BY <2>1, <2>2
<1>5. CASE Kill
  <2>1. pc = "kill" /\ queue # <<>> /\ Helper \in started
    BY <1>0, <1>5 DEF Kill, Reaped, Busy
  <2> QED BY <1>5, <2>1 DEF Kill
<1>6. CASE HelperKnows
  BY <1>0, <1>6 DEF HelperKnows, Join, Reaped, Busy, SourceNames, HelperNames
<1>7. CASE HelperBlank
  BY <1>0, <1>7 DEF HelperBlank, Join, Vain, Reaped, Busy, SourceNames, HelperNames
<1> QED
  BY <1>1, <1>2, <1>3, <1>4, <1>5, <1>6, <1>7 DEF Run

\* Trying a helper in vain leaves the next one at the head of the queue.
LEMMA PassedOver ==
  ASSUME HInv, Helping, queue # <<>>, UNCHANGED <<question, killed, outcome, started>>,
         queue' = Tail(queue), Vain(Helper), pc' = "next"
  PROVE  Ordered'
<1> USE DEF HInv, TypeOK, Ordered, question
<1>1. PICK i \in 1..3 : Place(i) /\ Tried(i)
  OBVIOUS
<1>2. /\ Helper = Helpers[i] /\ i <= Final /\ Tail(queue) \in Seq(HelperNames)
      /\ Len(Tail(queue)) = Final - i
      /\ \A k \in 1..Len(Tail(queue)) : Tail(queue)[k] = Helpers[k + i]
  BY <1>1, QueueMoves
<1>3. silent' = silent \cup {Helpers[i]} /\ Final' = Final /\ Final \in {2, 3}
  BY <1>2 DEF Vain, Final
<1>4. queue' # <<>> => i < 3 /\ i + 1 \in 1..3
  BY <1>2, <1>3
<1>5. queue' # <<>> => Place(i + 1)'
  BY <1>2, <1>3, <1>4 DEF Place
<1>6. queue' # <<>> => Tried(i + 1)'
  BY <1>1, <1>3, <1>4 DEF Tried
<1>7. SourceIsRight'
  <2>1. outcome' = outcome /\ started' = started /\ silent \subseteq silent'
        /\ UNCHANGED <<policy, valid>>
    BY <1>3
  <2>2. BestSourceWins'
    BY <2>1 DEF SourceIsRight, BestSourceWins
  <2>3. HelpersAreAllowed'
    BY <2>1 DEF SourceIsRight, HelpersAreAllowed
  <2> QED BY <2>2, <2>3 DEF SourceIsRight
<1> QED
  BY <1>2, <1>3, <1>4, <1>5, <1>6, <1>7 DEF Helping

LEMMA RunOrdered ==
  ASSUME HInv, Run
  PROVE  Ordered'
<1> USE DEF HInv, question, process, drain, wait, history, Goto
<1>1. CASE NoRadio \/ RadioKnows \/ RadioBlank \/ StoreKnows
  <2>1. /\ pc \in {"radio", "store"} /\ pc' \in {"store", "done"}
        /\ UNCHANGED <<question, queue, killed, started>>
        /\ pc' = "done" \/ (outcome' = outcome /\ "core_wlan" \in silent')
        /\ silent \subseteq silent'
        /\ \/ outcome' \in {outcome, "core_wlan"}
           \/ outcome' = "dynamic_store" /\ "core_wlan" \in silent
    BY <1>1 DEF NoRadio, RadioKnows, RadioBlank, StoreKnows, Found, Vain, Ordered
  <2>2. started' = {} /\ outcome = "none"
    BY <2>1 DEF Ordered
  <2>3. BestSourceWins'
    BY <2>1, <2>2, SourcesAre, HelpersAre DEF BestSourceWins
  <2>4. SourceIsRight'
    BY <2>2, <2>3 DEF SourceIsRight, HelpersAreAllowed
  <2> QED BY <2>1, <2>2, <2>4 DEF Ordered, Helping
<1>2. CASE StoreBlank
  <2>1. /\ pc = "store" /\ pc' = "next" /\ queue' = Candidates
        /\ UNCHANGED <<policy, valid, killed, started, outcome>>
        /\ silent' = silent \cup {"dynamic_store"} /\ "core_wlan" \in silent
        /\ started = {} /\ killed = {} /\ outcome = "none"
    BY <1>2 DEF StoreBlank, Vain, Ordered, TypeOK
  <2>2. policy \in Policies /\ Final' = Final
    BY <2>1 DEF TypeOK, Final
  <2>3. queue' # <<>> => Place(1)' /\ Tried(1)' /\ policy # "disabled" /\ valid
    BY <2>1, <2>2, CandidatesAre DEF Place, Tried
  <2>4. BestSourceWins'
    BY <2>1, SourcesAre, HelpersAre DEF BestSourceWins
  <2>5. SourceIsRight'
    BY <2>1, <2>4 DEF SourceIsRight, HelpersAreAllowed
  <2> QED BY <2>1, <2>2, <2>3, <2>5, CandidatesAre DEF Ordered, Helping
<1>3. CASE CannotRun
  <2>1. /\ Helping /\ queue # <<>> /\ UNCHANGED <<question, killed, outcome, started>>
        /\ queue' = Tail(queue) /\ Vain(Helper) /\ pc' = "next"
    BY <1>3 DEF CannotRun, Helping, Vain
  <2> QED BY <2>1, PassedOver
<1>4. CASE HelperBlank
  <2>1. /\ Helping /\ queue # <<>> /\ UNCHANGED <<question, killed, outcome, started>>
        /\ queue' = Tail(queue) /\ Vain(Helper) /\ pc' = "next"
    BY <1>4 DEF HelperBlank, Join, Helping, Reaped, Busy, Vain
  <2> QED BY <2>1, PassedOver
<1>5. CASE Spawn
  <2>1. /\ pc = "next" /\ pc' = "waiting" /\ queue # <<>>
        /\ UNCHANGED <<question, queue, outcome, silent, killed>>
        /\ started' = started \cup {Helper}
    BY <1>5 DEF Spawn
  <2>2. PICK i \in 1..3 : Place(i) /\ Tried(i)
    BY <2>1 DEF Ordered, Helping
  <2>3. Place(i)' /\ Tried(i)' /\ Final' = Final
    BY <2>1, <2>2 DEF Place, Tried, Final
  <2>4. Helper = "system_profiler" => policy = "slow"
    BY <2>1, <2>2, QueueMoves, HelpersAre DEF Ordered, TypeOK, Final
  <2>5. SourceIsRight'
    BY <2>1, <2>4, SourcesAre
    DEF Ordered, Helping, SourceIsRight, BestSourceWins, HelpersAreAllowed
  <2> QED BY <2>1, <2>2, <2>3, <2>5 DEF Ordered, Helping
<1>6. CASE SeenExit \/ SleepOn \/ TimeIsUp \/ TryWaitFails
  <2>1. /\ pc = "waiting" /\ pc' \in {"waiting", "kill", "join"}
        /\ UNCHANGED <<question, queue, outcome, silent, killed, started>>
    BY <1>6 DEF SeenExit, SleepOn, TimeIsUp, TryWaitFails
  <2>2. PICK i \in 1..3 : Place(i) /\ Tried(i)
    BY <2>1 DEF Ordered, Helping, Reaped, Busy
  <2>3. Place(i)' /\ Tried(i)'
    BY <2>1, <2>2 DEF Place, Tried, Final
  <2>4. SourceIsRight'
    BY <2>1 DEF Ordered, SourceIsRight, BestSourceWins, HelpersAreAllowed
  <2> QED BY <2>1, <2>2, <2>3, <2>4 DEF Ordered, Helping
<1>7. CASE Kill
  <2>1. /\ pc = "kill" /\ pc' = "join" /\ killed' = killed \cup {Helper}
        /\ UNCHANGED <<question, queue, outcome, silent, started, finished>>
        /\ queue # <<>> /\ ~finished
    BY <1>7 DEF Kill, Reaped, Busy
  <2>2. PICK i \in 1..3 : Place(i) /\ Tried(i)
    BY <2>1 DEF Ordered, Helping
  <2>3. Helper = Helpers[i]
    BY <2>1, <2>2, QueueMoves DEF Ordered, TypeOK
  <2>4. Place(i)' /\ Tried(i)'
    BY <2>1, <2>2, <2>3, HelpersAre DEF Place, Tried, Final
  <2>5. SourceIsRight'
    BY <2>1 DEF Ordered, SourceIsRight, BestSourceWins, HelpersAreAllowed
  <2> QED BY <2>1, <2>2, <2>4, <2>5 DEF Ordered, Helping
<1>8. CASE HelperKnows
  <2>1. /\ pc = "join" /\ pc' = "done" /\ outcome' = Helper /\ queue # <<>>
        /\ UNCHANGED <<question, queue, silent, killed, started>>
    BY <1>8 DEF HelperKnows, Join, Reaped, Busy
  <2>2. PICK i \in 1..3 : Place(i) /\ Tried(i)
    BY <2>1 DEF Ordered, Helping
  <2>3. outcome' = Helpers[i]
    BY <2>1, <2>2, QueueMoves DEF Ordered, TypeOK
  <2>4. /\ {"core_wlan", "dynamic_store"} \subseteq silent
        /\ \A j \in 1..(i - 1) : Helpers[j] \in silent
    BY <2>1, <2>2 DEF Ordered, Helping, Tried
  <2>5. BestSourceWins'
    <3> SUFFICES ASSUME NEW n \in 1..5, Sources[n] = Helpers[i], NEW m \in 1..(n - 1)
                 PROVE  Sources[m] \in silent'
      BY <2>3, SourcesAre DEF BestSourceWins
    <3>1. n = i + 2
      BY SourcesAre, HelpersAre
    <3>2. CASE m <= 2
      BY <2>1, <2>4, <3>2, SourcesAre
    <3>3. CASE m > 2
      <4>1. m - 2 \in 1..(i - 1) /\ Sources[m] = Helpers[m - 2]
        BY <3>1, <3>3, SourcesAre
      <4> QED BY <2>1, <2>4, <4>1
    <3> QED BY <3>2, <3>3
  <2>6. SourceIsRight'
    BY <2>1, <2>5 DEF Ordered, SourceIsRight, HelpersAreAllowed
  <2> QED BY <2>1, <2>6 DEF Ordered, Helping
<1>9. CASE Exhausted
  <2>1. /\ pc' = "done"
        /\ UNCHANGED <<question, queue, outcome, silent, killed, started>>
    BY <1>9 DEF Exhausted
  <2>2. SourceIsRight'
    BY <2>1 DEF Ordered, SourceIsRight, BestSourceWins, HelpersAreAllowed
  <2> QED BY <2>1, <2>2 DEF Ordered, Helping
<1> QED
  BY <1>1, <1>2, <1>3, <1>4, <1>5, <1>6, <1>7, <1>8, <1>9 DEF Run

LEMMA RunReaped ==
  ASSUME HInv, Run
  PROVE  Reaped'
<1> USE DEF HInv, question, process, drain, wait, history, Goto, Reaped, Busy,
            NothingFromKilled
<1>0. /\ killed \subseteq HelperNames
      /\ pc # "done" => outcome = "none"
      /\ queue # <<>> => Helper \in HelperNames
  BY SourcesAre DEF TypeOK, Ordered, Helper
<1>1. CASE NoRadio \/ RadioKnows \/ RadioBlank \/ StoreKnows \/ StoreBlank
           \/ CannotRun \/ Exhausted
  <2>1. /\ pc \in {"radio", "store", "next"} /\ pc' \in {"store", "next", "done"}
        /\ UNCHANGED <<child, reader, killed>>
        /\ outcome' \in {outcome, "core_wlan", "dynamic_store"}
    BY <1>1 DEF NoRadio, RadioKnows, RadioBlank, StoreKnows, StoreBlank, Found, Vain,
       CannotRun, Exhausted
  <2>2. outcome' \notin killed'
    BY <1>0, <2>1 DEF HelperNames
  <2>3. child' = "none" /\ reader' = "none"
    BY <2>1
  <2> QED BY <2>1, <2>2, <2>3
<1>2. CASE Spawn
  BY <1>2 DEF Spawn, Helper
<1>3. CASE SeenExit \/ SleepOn \/ TimeIsUp \/ TryWaitFails
  <2>1. UNCHANGED <<queue, reader, killed, started, outcome>>
    BY <1>3 DEF SeenExit, SleepOn, TimeIsUp, TryWaitFails
  <2>2. Helper' = Helper /\ Limit' = Limit
    BY <2>1 DEF Helper, Limit
  <2>3. /\ pc = "waiting" /\ pc' \in {"waiting", "kill", "join"}
        /\ pc' \in {"waiting", "kill"} => ~finished'
        /\ pc' = "join" => child' = "none"
        /\ pc' = "waiting" => elapsed' = elapsed /\ elapsed < Limit
    BY <1>3 DEF SeenExit, SleepOn, TimeIsUp, TryWaitFails
  <2> QED BY <2>1, <2>2, <2>3
<1>4. CASE Kill
  <2>1. /\ pc = "kill" /\ pc' = "join" /\ killed' = killed \cup {Helper} /\ child' = "none"
        /\ UNCHANGED <<queue, reader, outcome, started>>
    BY <1>4 DEF Kill
  <2>2. outcome' \notin killed'
    BY <1>0, <2>1 DEF HelperNames
  <2>3. Helper' = Helper
    BY <2>1 DEF Helper
  <2> QED BY <2>1, <2>2, <2>3
<1>5. CASE HelperBlank
  <2>1. /\ pc = "join" /\ pc' = "next" /\ child' = child /\ reader' = "none"
        /\ UNCHANGED <<outcome, killed>>
    BY <1>5 DEF HelperBlank, Join, Vain
  <2> QED BY <1>0, <2>1 DEF HelperNames
<1>6. CASE HelperKnows
  <2>1. /\ pc = "join" /\ pc' = "done" /\ outcome' = Helper /\ queue # <<>>
        /\ killed' = killed /\ child' = child /\ reader' = "none" /\ finished
    BY <1>6 DEF HelperKnows, Join, Usable
  <2>2. PICK i \in 1..3 : Place(i) /\ Tried(i)
    BY <2>1 DEF Ordered, Helping
  <2>3. Helper = Helpers[i] /\ Helper \notin killed
    BY <2>1, <2>2, QueueMoves DEF Ordered, TypeOK, Tried
  <2> QED BY <2>1, <2>3
<1> QED
  BY <1>1, <1>2, <1>3, <1>4, <1>5, <1>6 DEF Run

LEMMA InvNext == HInv /\ [Next]_vars => HInv'
<1> SUFFICES ASSUME HInv, [Next]_vars PROVE HInv'
  OBVIOUS
<1>1. CASE UNCHANGED vars
  <2>1. Reaped' /\ TypeOK'
    BY <1>1 DEF HInv, Reaped, TypeOK, vars, question, process, drain, wait, history, Busy,
       NothingFromKilled, Helper, Limit
  <2>2. \A i \in 1..3 : Place(i) /\ Tried(i) => Place(i)' /\ Tried(i)'
    BY <1>1 DEF Place, Tried, Final, vars, question, wait, history
  <2>3. Ordered'
    BY <1>1, <2>2 DEF HInv, Ordered, Helping, SourceIsRight, BestSourceWins,
       HelpersAreAllowed, vars, question, history
  <2> QED BY <2>1, <2>3 DEF HInv
<1>2. CASE Run
  BY <1>2, RunTypes, RunOrdered, RunReaped DEF HInv
<1>3. CASE Reader \/ Child \/ Tick
  BY <1>3, OthersStep
<1> QED
  BY <1>1, <1>2, <1>3 DEF Next

LEMMA Invariant == Spec => []HInv
BY InvInit, InvNext, PTL DEF Spec

\* Whatever a helper writes and leaves behind, the pipe, the reader and the wait
\* keep their types: what is read and what is in the pipe is what was written.
THEOREM SsidTypeCorrect == Spec => []TypeOK
<1>1. HInv => TypeOK
  BY DEF HInv
<1> QED
  BY Invariant, <1>1, PTL

\* The name is that of the best source that has one, and helpers run only when
\* they are allowed, the native sources are blank, and slow only when asked for.
THEOREM SourceChosenIsRight == Spec => []SourceIsRight
<1>1. HInv => SourceIsRight
  BY DEF HInv, Ordered
<1> QED
  BY Invariant, <1>1, PTL

\* For every timeout, pipe and limit on the output: between helpers and at the
\* end no child and no reader is left, and a killed helper is not believed.
THEOREM HelpersAreOver == Spec => []HelperIsOver
<1>1. HInv => HelperIsOver
  <2> SUFFICES ASSUME HInv PROVE HelperIsOver
    OBVIOUS
  <2>1. LeavesNothingRunning /\ NothingFromKilled
    BY DEF HInv, Reaped, Busy, LeavesNothingRunning
  <2>2. KilledOnlyWhenHung
    BY SsidAssumption
    DEF HInv, TypeOK, Reaped, Busy, KilledOnlyWhenHung, ReaderCan, AtEnd
  <2> QED BY <2>1, <2>2 DEF HelperIsOver
<1> QED
  BY Invariant, <1>1, PTL

\* Time only passes beyond a helper's timeout while another process keeps the
\* pipe open: a helper that hangs or writes on is not waited for any longer.
THEOREM TimeoutIsKept == Spec => OnTime
<1>1. ASSUME HInv, [Next]_vars
      PROVE  [elapsed' > elapsed /\ elapsed' > Limit => held]_vars
  <2> SUFFICES ASSUME Next, elapsed' > elapsed, elapsed' > Limit PROVE held
    BY <1>1
  <2> USE <1>1, SsidAssumption DEF HInv, TypeOK
  <2>0. Limit \in Nat
    BY DEF Limit
  <2>1. Tick
    <3>1. CASE Run
      BY <3>1 DEF Run, NoRadio, RadioKnows, RadioBlank, StoreKnows, StoreBlank, Found,
         CannotRun, Spawn, SeenExit, SleepOn, TimeIsUp, TryWaitFails, Kill, HelperKnows,
         HelperBlank, Join, Exhausted, wait
    <3>2. CASE Reader \/ Child
      BY <3>2 DEF Reader, Drain, ReaderEnds, Child, ChildWrites, ChildExits, ChildForks,
         GrandchildExits, wait
    <3> QED BY <3>1, <3>2 DEF Next
  <2>2. CASE pc = "waiting" /\ polled
    BY <2>0, <2>1, <2>2 DEF Tick, Reaped
  <2>3. CASE pc = "join" /\ reader # "done"
    BY <2>1, <2>3 DEF Tick, Reaped, Busy, ReaderCan, AtEnd
  <2> QED BY <2>1, <2>2, <2>3 DEF Tick
<1> QED
  BY Invariant, <1>1, PTL DEF Spec, OnTime

=============================================================================
