---------------------------- MODULE SectionProofs ---------------------------
(***************************************************************************)
(* The sections of a report, for every report, every set of glyphs and any *)
(* width of the terminal: the rows of an interface and the reachability    *)
(* ladder fill lines that fit, and a section is a title above them; two    *)
(* sections beside each other are lines as well, and keep all of both.     *)
(***************************************************************************)
EXTENDS ScreenProofs

-----------------------------------------------------------------------------
(***************************************************************************)
(* The rows of an interface.                                               *)
(***************************************************************************)

-----------------------------------------------------------------------------
(* An interface.                                                           *)

\* Rows with names of their own, out of a set of names.
RowsIn(rows, L) == RowsFine(rows) /\ \A i \in 1 .. Len(rows) : rows[i].label \in L

\* Rows with different labels, one after the other.
LEMMA RowsJoined ==
  ASSUME NEW a, NEW b, NEW L, NEW M, RowsIn(a, L), RowsIn(b, M), \A l \in L : l \notin M
  PROVE  RowsIn(a \o b, L \cup M)
<1> DEFINE c == a \o b
           n == Len(a)
<1>1. PICK S : a \in Seq(S)
  BY DEF RowsIn, RowsFine
<1>2. PICK T : b \in Seq(T)
  BY DEF RowsIn, RowsFine
<1> DEFINE U == S \cup T
<1>3. a \in Seq(U) /\ b \in Seq(U)
  BY <1>1, <1>2
<1> HIDE DEF U
<1>4. /\ c \in Seq(U) /\ n \in Nat
      /\ \A i \in 1 .. Len(c) : \/ i \in 1 .. n /\ c[i] = a[i]
                                \/ /\ i \notin 1 .. n /\ i - n \in 1 .. Len(b)
                                   /\ c[i] = b[i - n]
  BY <1>3, Joined
<1> HIDE DEF c
<1>5. \A i \in 1 .. Len(c) : RowFine(c[i]) /\ c[i].label \in L \cup M
  BY <1>4 DEF RowsIn, RowsFine, n
<1>6. ASSUME NEW i \in 1 .. Len(c), NEW k \in 1 .. Len(c), c[i].label = c[k].label
      PROVE  i = k
  <2>1. CASE i \in 1 .. n /\ c[i] = a[i] /\ k \in 1 .. n /\ c[k] = a[k]
    BY <1>6, <2>1 DEF RowsIn, RowsFine, n
  <2>2. CASE /\ i - n \in 1 .. Len(b) /\ c[i] = b[i - n]
             /\ k - n \in 1 .. Len(b) /\ c[k] = b[k - n]
    <3> DEFINE p == i - n
               q == k - n
    <3>1. p \in 1 .. Len(b) /\ q \in 1 .. Len(b) /\ c[i] = b[p] /\ c[k] = b[q]
      BY <2>2
    <3> HIDE DEF p, q
    <3>2. p = q
      BY <1>6, <3>1 DEF RowsIn, RowsFine
    <3> QED BY <1>4, <1>6, <3>2 DEF p, q
  <2>3. CASE i \in 1 .. n /\ c[i] = a[i] /\ k - n \in 1 .. Len(b) /\ c[k] = b[k - n]
    <3>1. c[i].label \in L /\ c[k].label \in M
      BY <2>3 DEF RowsIn, n
    <3> QED BY <1>6, <3>1
  <2>4. CASE k \in 1 .. n /\ c[k] = a[k] /\ i - n \in 1 .. Len(b) /\ c[i] = b[i - n]
    <3>1. c[k].label \in L /\ c[i].label \in M
      BY <2>4 DEF RowsIn, n
    <3> QED BY <1>6, <3>1
  <2> QED BY <1>4, <1>6, <2>1, <2>2, <2>3, <2>4
<1>7. RowsIn(c, L \cup M)
  BY <1>4, <1>5, <1>6 DEF RowsIn, RowsFine
<1> QED BY <1>7 DEF c

\* No rows at all.
LEMMA NoRows == \A L : RowsIn(<<>>, L)
<1>1. <<>> \in Seq({}) /\ Len(<<>>) = 0
  OBVIOUS
<1> QED BY <1>1 DEF RowsIn, RowsFine

\* One row.
LEMMA OneRow ==
  ASSUME NEW row, RowFine(row)
  PROVE  RowsIn(<<row>>, {row.label})
<1> DEFINE rows == <<row>>
<1>1. rows \in Seq({row}) /\ Len(rows) = 1 /\ rows[1] = row
  OBVIOUS
<1> HIDE DEF rows
<1>2. \A i \in 1 .. Len(rows) : i = 1 /\ rows[i] = row
  BY <1>1
<1>3. RowsIn(rows, {row.label})
  BY <1>1, <1>2 DEF RowsIn, RowsFine
<1> QED BY <1>3 DEF rows

\* A row that is left out when it has no value.
LEMMA RowsOfLabel ==
  ASSUME NEW label, NEW value \in Nat, NEW row, row.label = label, row.value = value,
         row.size \in Nat, row.annotation \in Nat, row.continuation \in Nat,
         label \in RowNames, label # "title"
  PROVE  RowsIn(IF value = 0 THEN <<>> ELSE <<row>>, {label})
<1>1. value # 0 => RowFine(row)
  BY DEF RowFine
<1> QED BY <1>1, NoRows, OneRow

\* What is assumed of an interface.
LEMMA InterfaceIs ==
  ASSUME asked \in Reports, NEW j \in DOMAIN asked.interfaces
  PROVE  IsInterface(asked.interfaces[j])
BY ReportsAssumption

\* The rows of addresses of a family are told apart by the addresses.
LEMMA AddressRowsIn ==
  ASSUME NEW addresses, IsSequence(addresses),
         \A i, k \in DOMAIN addresses : addresses[i].id = addresses[k].id => i = k,
         \A i \in DOMAIN addresses :
           /\ addresses[i].id # "title" /\ addresses[i].id \in RowNames
           /\ addresses[i].width \in Nat \ {0} /\ addresses[i].note \in Nat
  PROVE  RowsIn(AddressRows(addresses), {addresses[i].id : i \in DOMAIN addresses})
<1> DEFINE rows == AddressRows(addresses)
           n == Len(addresses)
           L == {addresses[i].id : i \in DOMAIN addresses}
<1>1. n \in Nat /\ DOMAIN addresses = 1 .. n
  BY LenProperties DEF IsSequence
<1>2. ASSUME NEW i \in 1 .. n
      PROVE  /\ rows[i].label = addresses[i].id /\ rows[i].size \in Nat
             /\ rows[i].value = addresses[i].width /\ rows[i].annotation = addresses[i].note
             /\ rows[i].continuation = 0
  <2>1. rows[i] = [Row(addresses[i].id, IF i = 1 THEN 4 ELSE 0, addresses[i].width)
                     EXCEPT !.annotation = addresses[i].note]
    BY <1>1 DEF AddressRows
  <2> HIDE DEF rows
  <2> QED BY <2>1 DEF Row
<1>3. rows \in Seq({rows[i] : i \in 1 .. n}) /\ Len(rows) = n
  <2>1. rows = [i \in 1 .. n |-> rows[i]]
    BY <1>1 DEF AddressRows
  <2> HIDE DEF rows
  <2> DEFINE S == {rows[i] : i \in 1 .. n}
  <2>2. \A i \in 1 .. n : rows[i] \in S
    OBVIOUS
  <2> HIDE DEF S
  <2>3. [i \in 1 .. n |-> rows[i]] \in Seq(S) /\ Len([i \in 1 .. n |-> rows[i]]) = n
    BY <1>1, <2>2, IsASeq
  <2> QED BY <2>1, <2>3 DEF S
<1> HIDE DEF rows
<1>4. \A i \in 1 .. n : RowFine(rows[i]) /\ rows[i].label \in L
  BY <1>1, <1>2 DEF RowFine
<1>5. \A i, k \in 1 .. n : rows[i].label = rows[k].label => i = k
  BY <1>1, <1>2
<1>6. RowsIn(rows, L)
  BY <1>3, <1>4, <1>5 DEF RowsIn, RowsFine
<1> QED BY <1>6 DEF rows

\* Those of the two families as well, and from the other rows.
LEMMA AddressesIn ==
  ASSUME asked \in Reports, NEW j \in DOMAIN asked.interfaces
  PROVE  LET iface == asked.interfaces[j]
             L == {iface.ipv4[i].id : i \in DOMAIN iface.ipv4}
             M == {iface.ipv6[i].id : i \in DOMAIN iface.ipv6}
         IN /\ RowsIn(AddressRows(iface.ipv4), L) /\ RowsIn(AddressRows(iface.ipv6), M)
            /\ \A l \in L : l \notin M
            /\ \A l \in L \cup M :
                 l \notin {"title", "network", "protocol", "endpoint", "gateway", "hardware"}
<1> DEFINE iface == asked.interfaces[j]
           a == iface.ipv4
           b == iface.ipv6
           c == a \o b
           n == Len(a)
           L == {a[i].id : i \in DOMAIN a}
           M == {b[i].id : i \in DOMAIN b}
           Reserved == {"title", "network", "protocol", "endpoint", "gateway", "hardware"}
           S == ToSet(a) \cup ToSet(b)
           Sound(x) == x.id \notin Reserved /\ x.width \in Nat \ {0} /\ x.note \in Nat
<1>1. /\ IsSequence(a) /\ IsSequence(b)
      /\ \A i, k \in DOMAIN c : c[i].id = c[k].id => i = k
      /\ \A i \in DOMAIN c : Sound(c[i])
  BY InterfaceIs DEF IsInterface
<1>2. a \in Seq(ToSet(a)) /\ b \in Seq(ToSet(b))
  BY <1>1 DEF IsSequence
<1>3. a \in Seq(S) /\ b \in Seq(S)
  <2>1. ASSUME NEW s, NEW T, s \in Seq(ToSet(s)), ToSet(s) \subseteq T PROVE s \in Seq(T)
    BY <2>1
  <2>2. ToSet(a) \subseteq S /\ ToSet(b) \subseteq S
    OBVIOUS
  <2> HIDE DEF a, b, S
  <2> QED BY <1>2, <2>1, <2>2
<1>4. DOMAIN a = 1 .. n /\ DOMAIN b = 1 .. Len(b) /\ n \in Nat /\ Len(b) \in Nat
  BY <1>3, LenProperties
<1>0. (\A i \in DOMAIN a : a[i].id \in RowNames) /\ (\A i \in DOMAIN b : b[i].id \in RowNames)
  <2> DEFINE Fours(m) == {asked.interfaces[m].ipv4[k].id : k \in DOMAIN asked.interfaces[m].ipv4}
             Sixes(m) == {asked.interfaces[m].ipv6[k].id : k \in DOMAIN asked.interfaces[m].ipv6}
             four == UNION {Fours(m) : m \in DOMAIN asked.interfaces}
             six == UNION {Sixes(m) : m \in DOMAIN asked.interfaces}
  <2>1. (\A x \in four : x \in RowNames) /\ (\A x \in six : x \in RowNames)
    <3> DEFINE fours == four
               sixes == six
    <3>1. \A x : x \in fours \/ x \in sixes => x \in RowNames
      BY DEF RowNames
    <3> QED BY <3>1
  <2>2. (\A i \in DOMAIN a : a[i].id \in Fours(j)) /\ (\A i \in DOMAIN b : b[i].id \in Sixes(j))
    OBVIOUS
  <2> HIDE DEF Fours, Sixes, a, b
  <2>3. (\A x \in Fours(j) : x \in four) /\ (\A x \in Sixes(j) : x \in six)
    OBVIOUS
  <2> HIDE DEF four, six
  <2> QED BY <2>1, <2>2, <2>3
<1> HIDE DEF iface, a, b, S
<1>5. /\ c \in Seq(S)
      /\ \A i \in 1 .. n : i \in 1 .. Len(c) /\ c[i] = a[i]
      /\ \A i \in 1 .. Len(b) : n + i \in 1 .. Len(c) /\ c[n + i] = b[i]
  <2>1. a \in Seq(S)
    BY <1>3
  <2>2. b \in Seq(S)
    BY <1>3
  <2> HIDE DEF n, c
  <2>3. a \o b \in Seq(S)
    BY <2>1, <2>2, Joined
  <2>4. \A i \in 1 .. Len(a) : i \in 1 .. Len(a \o b) /\ (a \o b)[i] = a[i]
    BY <2>1, <2>2, Joined
  <2>5. \A i \in 1 .. Len(b) : Len(a) + i \in 1 .. Len(a \o b) /\ (a \o b)[Len(a) + i] = b[i]
    BY <2>1, <2>2, Joined
  <2> QED BY <2>3, <2>4, <2>5 DEF n, c
<1>6. DOMAIN c = 1 .. Len(c)
  BY <1>5, LenProperties
<1> HIDE DEF c, n, Sound, Reserved
<1>7. \A i \in 1 .. n : Sound(a[i])
  BY <1>1, <1>5, <1>6
<1>8. \A i \in 1 .. Len(b) : Sound(b[i])
  BY <1>1, <1>5, <1>6
<1>9. \A i, k \in 1 .. n : a[i].id = a[k].id => i = k
  BY <1>1, <1>5, <1>6
<1>10. ASSUME NEW i \in 1 .. Len(b), NEW k \in 1 .. Len(b), b[i].id = b[k].id PROVE i = k
  <2> DEFINE p == n + i
             q == n + k
  <2>1. p \in DOMAIN c /\ q \in DOMAIN c /\ c[p].id = c[q].id
    BY <1>5, <1>6, <1>10
  <2> HIDE DEF p, q
  <2>2. p = q
    BY <1>1, <2>1
  <2> QED BY <1>4, <2>2 DEF p, q
<1>11. ASSUME NEW i \in 1 .. n, NEW k \in 1 .. Len(b), a[i].id = b[k].id PROVE FALSE
  <2> DEFINE q == n + k
  <2>1. i \in DOMAIN c /\ q \in DOMAIN c /\ c[i].id = c[q].id
    BY <1>5, <1>6, <1>11
  <2> HIDE DEF q
  <2>2. i = q
    BY <1>1, <2>1
  <2> QED BY <1>4, <2>2 DEF q
<1>12. RowsIn(AddressRows(a), L)
  BY <1>0, <1>1, <1>4, <1>7, <1>9, AddressRowsIn DEF Sound, Reserved
<1>13. RowsIn(AddressRows(b), M)
  BY <1>0, <1>1, <1>4, <1>8, <1>10, AddressRowsIn DEF Sound, Reserved
<1>14. \A l \in L : l \notin M
  BY <1>4, <1>11
<1>15. \A l \in L \cup M : l \notin Reserved
  BY <1>4, <1>7, <1>8 DEF Sound
<1> QED BY <1>12, <1>13, <1>14, <1>15 DEF iface, a, b, Reserved

\* The signal is beside the network's name or below it.
LEMMA NetworkRowIs ==
  ASSUME terminal \in Terminals, NEW wifi,
         wifi.ssid \in Nat, wifi.signal \in Nat, wifi.secondary \in Nat
  PROVE  LET row == NetworkRow(wifi) IN
         /\ row.label = "network" /\ row.size \in Nat /\ row.value = wifi.ssid
         /\ row.annotation \in Nat /\ row.continuation \in Nat
         /\ wifi.signal + wifi.secondary <= row.annotation + row.continuation
<1> DEFINE separator == 3
           inline == /\ wifi.secondary > 0 /\ ~Narrow
                     /\ wifi.signal + separator + wifi.secondary <= Less(ValueRoom, wifi.ssid + 2)
           beside == IF wifi.signal = 0 THEN wifi.secondary
                     ELSE wifi.signal + separator + wifi.secondary
           note == IF inline THEN beside ELSE wifi.signal
           below == IF inline THEN 0 ELSE wifi.secondary
           row == NetworkRow(wifi)
<1>1. row = [Row("network", 7, wifi.ssid) EXCEPT !.annotation = note, !.continuation = below]
  BY DEF NetworkRow
<1>2. note \in Nat /\ below \in Nat /\ wifi.signal + wifi.secondary <= note + below
  <2> HIDE DEF inline
  <2> QED OBVIOUS
<1> HIDE DEF note, below, row
<1>3. /\ row.label = "network" /\ row.size \in Nat /\ row.value = wifi.ssid
      /\ row.annotation = note /\ row.continuation = below
  BY <1>1 DEF Row
<1> QED BY <1>2, <1>3 DEF row

\* Rows that begin with a row.
Leads(row, rows) == (\E S : rows \in Seq(S)) /\ 1 \in 1 .. Len(rows) /\ rows[1] = row

\* The first row of some rows is that of these and more.
LEMMA LeadsOn ==
  ASSUME NEW row, NEW a, Leads(row, a), NEW b, NEW L, RowsIn(b, L)
  PROVE  Leads(row, a \o b)
<1> DEFINE c == a \o b
<1>1. PICK S : a \in Seq(S)
  BY DEF Leads
<1>2. PICK T : b \in Seq(T)
  BY DEF RowsIn, RowsFine
<1> DEFINE U == S \cup T
<1>3. a \in Seq(U) /\ b \in Seq(U)
  BY <1>1, <1>2
<1> HIDE DEF U
<1>4. c \in Seq(U) /\ \A i \in 1 .. Len(a) : i \in 1 .. Len(c) /\ c[i] = a[i]
  BY <1>3, Joined
<1> HIDE DEF c
<1>5. Leads(row, c)
  BY <1>4 DEF Leads
<1> QED BY <1>5 DEF c

\* The rows of an interface have labels of their own, and the network's comes
\* first.
LEMMA CollectRowsFine ==
  ASSUME terminal \in Terminals, asked \in Reports, NEW j \in DOMAIN asked.interfaces
  PROVE  LET iface == asked.interfaces[j] IN
         /\ RowsFine(CollectRows(iface))
         /\ iface.wifi.ssid > 0 => Leads(NetworkRow(iface.wifi), CollectRows(iface))
<1> DEFINE iface == asked.interfaces[j]
           L == {iface.ipv4[i].id : i \in DOMAIN iface.ipv4}
           M == {iface.ipv6[i].id : i \in DOMAIN iface.ipv6}
           endpointRow == [Row("endpoint", 8, iface.endpoint) EXCEPT !.annotation = iface.handshake]
           hardwareRow == [Row("hardware", 8, iface.mac) EXCEPT !.annotation = iface.mtu]
           network == IF iface.wifi.ssid = 0 THEN <<>> ELSE <<NetworkRow(iface.wifi)>>
           protocol == IF iface.protocol = 0 THEN <<>>
                       ELSE <<Row("protocol", 8, iface.protocol)>>
           four == IF asked.family = "v6" THEN <<>> ELSE AddressRows(iface.ipv4)
           six == IF asked.family = "v4" THEN <<>> ELSE AddressRows(iface.ipv6)
           endpoint == IF iface.endpoint = 0 THEN <<>> ELSE <<endpointRow>>
           gateway == IF iface.gateway = 0 THEN <<>> ELSE <<Row("gateway", 7, iface.gateway)>>
           hardware == IF iface.mac = 0 THEN <<>> ELSE <<hardwareRow>>
<1>1. /\ iface.wifi.ssid \in Nat /\ iface.wifi.signal \in Nat /\ iface.wifi.secondary \in Nat
      /\ iface.protocol \in Nat /\ iface.endpoint \in Nat /\ iface.handshake \in Nat
      /\ iface.gateway \in Nat /\ iface.mac \in Nat /\ iface.mtu \in Nat
  BY InterfaceIs DEF IsInterface
<1>2. /\ RowsIn(AddressRows(iface.ipv4), L) /\ RowsIn(AddressRows(iface.ipv6), M)
      /\ \A l \in L : l \notin M
      /\ \A l \in L \cup M :
           l \notin {"title", "network", "protocol", "endpoint", "gateway", "hardware"}
  BY AddressesIn
<1>3. CollectRows(iface)
        = network \o protocol \o four \o six \o endpoint \o gateway \o hardware
  BY DEF CollectRows
<1> HIDE DEF iface, L, M
<1>4. \A name \in {"network", "protocol", "endpoint", "gateway", "hardware"} :
        name \in RowNames /\ name # "title"
  BY DEF RowNames
<1>5. RowsIn(network, {"network"})
  <2>1. LET row == NetworkRow(iface.wifi) IN
        /\ row.label = "network" /\ row.size \in Nat /\ row.value = iface.wifi.ssid
        /\ row.annotation \in Nat /\ row.continuation \in Nat
    BY <1>1, NetworkRowIs
  <2> QED BY <1>1, <1>4, <2>1, RowsOfLabel
<1>6. RowsIn(protocol, {"protocol"})
  <2>1. LET row == Row("protocol", 8, iface.protocol) IN
        /\ row.label = "protocol" /\ row.size \in Nat /\ row.value = iface.protocol
        /\ row.annotation \in Nat /\ row.continuation \in Nat
    BY DEF Row
  <2> QED BY <1>1, <1>4, <2>1, RowsOfLabel
<1>7. RowsIn(endpoint, {"endpoint"})
  <2>1. /\ endpointRow.label = "endpoint" /\ endpointRow.size \in Nat
        /\ endpointRow.value = iface.endpoint
        /\ endpointRow.annotation \in Nat /\ endpointRow.continuation \in Nat
    BY <1>1 DEF Row
  <2> HIDE DEF endpointRow
  <2> QED BY <1>1, <1>4, <2>1, RowsOfLabel
<1>8. RowsIn(gateway, {"gateway"})
  <2>1. LET row == Row("gateway", 7, iface.gateway) IN
        /\ row.label = "gateway" /\ row.size \in Nat /\ row.value = iface.gateway
        /\ row.annotation \in Nat /\ row.continuation \in Nat
    BY DEF Row
  <2> QED BY <1>1, <1>4, <2>1, RowsOfLabel
<1>9. RowsIn(hardware, {"hardware"})
  <2>1. /\ hardwareRow.label = "hardware" /\ hardwareRow.size \in Nat
        /\ hardwareRow.value = iface.mac
        /\ hardwareRow.annotation \in Nat /\ hardwareRow.continuation \in Nat
    BY <1>1 DEF Row
  <2> HIDE DEF hardwareRow
  <2> QED BY <1>1, <1>4, <2>1, RowsOfLabel
<1>10. RowsIn(four, L) /\ RowsIn(six, M)
  BY <1>2, NoRows
<1> DEFINE row == NetworkRow(iface.wifi)
<1>22. iface.wifi.ssid > 0 => Leads(row, network)
  <2>1. iface.wifi.ssid > 0 => network = <<row>>
    BY <1>1
  <2> HIDE DEF row, network
  <2> DEFINE one == <<row>>
  <2>2. one \in Seq({row}) /\ Len(one) = 1 /\ one[1] = row
    OBVIOUS
  <2> HIDE DEF one
  <2>3. Leads(row, one)
    BY <2>2 DEF Leads
  <2> QED BY <2>1, <2>3 DEF one
<1> HIDE DEF network, protocol, four, six, endpoint, gateway, hardware, row
<1> DEFINE A == {"network"} \cup {"protocol"}
           B == A \cup L
           C == B \cup M
           D == C \cup {"endpoint"}
           E == D \cup {"gateway"}
<1>11. RowsIn(network \o protocol, A)
  BY <1>5, <1>6, RowsJoined
<1>12. \A l \in A : l \notin L
  BY <1>2
<1>13. \A l \in B : l \notin M
  BY <1>2
<1>14. \A l \in C : l \notin {"endpoint"}
  BY <1>2
<1>15. \A l \in D : l \notin {"gateway"}
  BY <1>2
<1>16. \A l \in E : l \notin {"hardware"}
  BY <1>2
<1> HIDE DEF A
<1>17. RowsIn(network \o protocol \o four, B)
  BY <1>10, <1>11, <1>12, RowsJoined
<1> HIDE DEF B
<1>18. RowsIn(network \o protocol \o four \o six, C)
  BY <1>10, <1>13, <1>17, RowsJoined
<1> HIDE DEF C
<1>19. RowsIn(network \o protocol \o four \o six \o endpoint, D)
  BY <1>7, <1>14, <1>18, RowsJoined
<1> HIDE DEF D
<1>20. RowsIn(network \o protocol \o four \o six \o endpoint \o gateway, E)
  BY <1>8, <1>15, <1>19, RowsJoined
<1> HIDE DEF E
<1>21. RowsFine(network \o protocol \o four \o six \o endpoint \o gateway \o hardware)
  BY <1>9, <1>16, <1>20, RowsJoined DEF RowsIn
<1> DEFINE all == network \o protocol \o four \o six \o endpoint \o gateway \o hardware
<1>23. iface.wifi.ssid > 0 => Leads(row, all)
  <2>1. SUFFICES ASSUME iface.wifi.ssid > 0 PROVE Leads(row, all)
    OBVIOUS
  <2>2. Leads(row, network)
    BY <1>22, <2>1
  <2>3. Leads(row, network \o protocol)
    BY <1>6, <2>2, LeadsOn
  <2>4. Leads(row, network \o protocol \o four)
    BY <1>10, <2>3, LeadsOn
  <2>5. Leads(row, network \o protocol \o four \o six)
    BY <1>10, <2>4, LeadsOn
  <2>6. Leads(row, network \o protocol \o four \o six \o endpoint)
    BY <1>7, <2>5, LeadsOn
  <2>7. Leads(row, network \o protocol \o four \o six \o endpoint \o gateway)
    BY <1>8, <2>6, LeadsOn
  <2> QED BY <1>9, <2>7, LeadsOn
<1> HIDE DEF all
<1>24. RowsFine(all) /\ CollectRows(iface) = all
  BY <1>3, <1>21 DEF all
<1> QED BY <1>23, <1>24 DEF iface, row

-----------------------------------------------------------------------------
(* Lines that grow by one piece after the other.                           *)

\* A line that ends where its last piece does.
Ended(line, N, W) == Neat(line, line.width, N, W)
\* A line that was moved on by a column or more since.
Spaced(line, N, W) == line.width >= 1 /\ Neat(line, line.width - 1, N, W)

\* A piece for which one column is enough.
Loose(what) == IsName(what) => what.part # "annotation"

\* A neat line ends by itself.
LEMMA EndedIs ==
  ASSUME NEW N, NEW W, NEW line, NEW last, Neat(line, last, N, W)
  PROVE  Ended(line, N, W) /\ line.width \in Nat /\ line \in LinesOf(N)
<1>1. line.width \in Nat /\ last <= line.width /\ line \in LinesOf(N)
  BY SpansOfNeat DEF Neat
<1> DEFINE far == line.width
<1>2. far \in Nat /\ last <= far /\ far <= line.width
  BY <1>1
<1> HIDE DEF far
<1>3. Neat(line, far, N, W)
  BY <1>2, NeatLater
<1> QED BY <1>1, <1>3 DEF Ended, far

\* A line with a space at its end.
LEMMA SpacedIs ==
  ASSUME NEW N, NEW W, NEW line, Spaced(line, N, W)
  PROVE  Ended(line, N, W) /\ line.width \in Nat /\ line \in LinesOf(N)
<1> DEFINE last == line.width - 1
<1>1. Neat(line, last, N, W)
  BY DEF Spaced
<1> HIDE DEF last
<1> QED BY <1>1, EndedIs

\* Whatever moved it on.
LEMMA SpacedBy ==
  ASSUME NEW N, NEW W, NEW line, NEW last, Neat(line, last, N, W), line.width >= last + 1
  PROVE  Spaced(line, N, W)
<1>1. line.width \in Nat /\ last \in Nat
  <2>1. line.width \in Nat
    BY EndedIs
  <2> QED BY <2>1 DEF Neat
<1> DEFINE far == line.width - 1
<1>2. far \in Nat /\ last <= far /\ far <= line.width
  BY <1>1
<1> HIDE DEF far
<1>3. Neat(line, far, N, W)
  BY <1>2, NeatLater
<1> QED BY <1>1, <1>3 DEF Spaced, far

\* A piece pushed after a space is said by the line.
LEMMA PushSpaced ==
  ASSUME NEW N \in SUBSET Names, NEW W, NEW line, Spaced(line, N, W),
         NEW what \in ReportMarks \cup N, Loose(what), Unsaid(what, W), NEW size \in Nat
  PROVE  LET pushed == Push(line, what, size) IN
         /\ Ended(pushed, N, W \cup Saying(what, size)) /\ pushed.width = line.width + size
<1> DEFINE last == line.width - 1
<1>1. Neat(line, last, N, W) /\ line.width >= last + 1
  <2>1. line.width \in Nat
    BY SpacedIs
  <2> QED BY <2>1 DEF Spaced
<1> HIDE DEF last
<1>2. Room(line, last, what, size)
  BY <1>1 DEF Room, Loose
<1> QED BY <1>1, <1>2, PushNeat DEF Ended

\* A piece that need not be told apart adds nothing to what is said.
LEMMA PushUntold ==
  ASSUME NEW N \in SUBSET Names, NEW W, NEW line, Spaced(line, N, W),
         NEW what \in ReportMarks \cup N, Loose(what), ~Shown(what), NEW size \in Nat
  PROVE  LET pushed == Push(line, what, size) IN
         /\ Ended(pushed, N, W) /\ pushed.width = line.width + size
<1>1. Unsaid(what, W)
  BY DEF Unsaid
<1>2. W \cup Saying(what, size) = W
  BY DEF Saying
<1> QED BY <1>1, <1>2, PushSpaced

\* What belongs to no row stands anywhere.
LEMMA EndedMark ==
  ASSUME NEW N \in SUBSET Names, NEW W, NEW line, Ended(line, N, W),
         NEW what \in ReportMarks, NEW size \in Nat
  PROVE  LET pushed == Push(line, what, size) IN
         /\ Ended(pushed, N, W) /\ pushed.width = line.width + size
<1> DEFINE last == line.width
<1>1. Neat(line, last, N, W)
  BY DEF Ended
<1> HIDE DEF last
<1>2. what \in ReportMarks \cup N /\ ~IsName(what) /\ ~Shown(what)
  BY NamesAre
<1>3. Room(line, last, what, size)
  BY <1>2 DEF Room
<1>4. Unsaid(what, W)
  BY <1>2 DEF Unsaid
<1>5. W \cup Saying(what, size) = W
  BY <1>2 DEF Saying
<1> DEFINE pushed == Push(line, what, size)
           Z == W \cup Saying(what, size)
<1>6. Neat(pushed, pushed.width, N, Z) /\ pushed.width = line.width + size
  BY <1>1, <1>2, <1>3, <1>4, PushNeat
<1> HIDE DEF pushed, Z
<1>7. Z = W
  BY <1>5 DEF Z
<1> QED BY <1>6, <1>7 DEF Ended, pushed

\* Spaces add nothing.
LEMMA EndedSpace ==
  ASSUME NEW N, NEW W, NEW line, Ended(line, N, W), NEW count \in Nat
  PROVE  /\ Ended(Space(line, count), N, W) /\ Space(line, count).width = line.width + count
         /\ Space(line, count).spans = line.spans
<1> DEFINE last == line.width
<1>1. Neat(line, last, N, W)
  BY DEF Ended
<1> HIDE DEF last
<1>2. /\ Neat(Space(line, count), last, N, W) /\ Space(line, count).width = line.width + count
      /\ Space(line, count).spans = line.spans
  BY <1>1, SpaceNeat
<1> QED BY <1>2, EndedIs

\* Nor does padding.
LEMMA EndedPad ==
  ASSUME NEW N, NEW W, NEW line, Ended(line, N, W), NEW column \in Nat
  PROVE  LET padded == PadTo(line, column) IN
         /\ Ended(padded, N, W) /\ padded.spans = line.spans
         /\ padded.width = IF line.width >= column - 1 THEN line.width ELSE column - 1
<1> DEFINE last == line.width
<1>1. Neat(line, last, N, W)
  BY DEF Ended
<1> HIDE DEF last
<1>2. LET padded == PadTo(line, column) IN
      /\ Neat(padded, last, N, W) /\ padded.spans = line.spans
      /\ padded.width = IF line.width >= column - 1 THEN line.width ELSE column - 1
  BY <1>1, PadNeat
<1> QED BY <1>2, EndedIs

\* A space, and the next piece may follow.
LEMMA SpaceSpaced ==
  ASSUME NEW N, NEW W, NEW line, Ended(line, N, W), NEW count \in Nat \ {0}
  PROVE  LET spaced == Space(line, count) IN
         /\ Spaced(spaced, N, W) /\ spaced.width = line.width + count
         /\ spaced.spans = line.spans
<1> DEFINE last == line.width
           spaced == Space(line, count)
<1>1. Neat(line, last, N, W)
  BY DEF Ended
<1>2. last \in Nat
  BY <1>1, EndedIs
<1> HIDE DEF last
<1>3. Neat(spaced, last, N, W) /\ spaced.spans = line.spans /\ spaced.width = line.width + count
  BY <1>1, SpaceNeat
<1> HIDE DEF spaced
<1>4. spaced.width >= last + 1
  BY <1>2, <1>3 DEF last
<1> QED BY <1>3, <1>4, SpacedBy DEF spaced

\* The margin of a heading, and of a row.
LEMMA Margins ==
  ASSUME NEW N
  PROVE  /\ Spaced(PadTo(NewLine, RAIL_COL), N, {}) /\ PadTo(NewLine, RAIL_COL).width = 2
         /\ Spaced(PadTo(NewLine, LABEL_COL), N, {}) /\ PadTo(NewLine, LABEL_COL).width = 4
         /\ Ended(PadTo(NewLine, RAIL_COL), N, {}) /\ Ended(PadTo(NewLine, LABEL_COL), N, {})
<1>1. Neat(NewLine, 0, N, {}) /\ NewLine.width = 0
  BY NothingNeat
<1> DEFINE W == {}
           rail == RAIL_COL
           label == LABEL_COL
           zero == 0
<1>2. rail = 3 /\ label = 5
  BY DEF RAIL_COL, LABEL_COL
<1>3. Neat(NewLine, zero, N, W) /\ zero = 0
  BY <1>1
<1> HIDE DEF rail, label, W, zero
<1>4. ASSUME NEW column \in Nat
      PROVE  /\ Neat(PadTo(NewLine, column), zero, N, W)
             /\ PadTo(NewLine, column).width
                  = IF NewLine.width >= column - 1 THEN NewLine.width ELSE column - 1
  BY <1>3, PadNeat
<1>5. Neat(PadTo(NewLine, rail), zero, N, W) /\ PadTo(NewLine, rail).width = 2
  BY <1>1, <1>2, <1>4
<1>6. Neat(PadTo(NewLine, label), zero, N, W) /\ PadTo(NewLine, label).width = 4
  BY <1>1, <1>2, <1>4
<1>7. Spaced(PadTo(NewLine, rail), N, W) /\ Spaced(PadTo(NewLine, label), N, W)
  BY <1>3, <1>5, <1>6, SpacedBy
<1>8. Ended(PadTo(NewLine, rail), N, W) /\ Ended(PadTo(NewLine, label), N, W)
  BY <1>7, SpacedIs
<1> QED BY <1>5, <1>6, <1>7, <1>8 DEF rail, label, W

\* What is pushed to the right ends at the edge if it has room there.
LEMMA EndedRight ==
  ASSUME terminal \in Terminals, NEW N \in SUBSET Names, NEW W, NEW line, Ended(line, N, W),
         NEW what \in ReportMarks, NEW size \in Nat
  PROVE  LET pushed == PushRight(line, what, size, Edge) IN
         /\ Ended(pushed, N, W)
         /\ line.width + size <= Edge => pushed.width = Edge
<1> DEFINE edge == Edge
           start == Less(edge, size)
           column == start + 1
           padded == PadTo(line, column)
           pushed == Push(padded, what, size)
<1>1. edge \in Nat
  BY RoomIs
<1>0. line.width \in Nat
  BY EndedIs DEF Ended
<1>2. PushRight(line, what, size, Edge) = pushed
  BY DEF PushRight
<1> HIDE DEF edge
<1>3. start \in Nat /\ start = IF edge >= size THEN edge - size ELSE 0
  BY <1>1, LessIs
<1> HIDE DEF start
<1>4. column \in Nat /\ column - 1 = start
  BY <1>3
<1> HIDE DEF column
<1>5. /\ Ended(padded, N, W)
      /\ padded.width = IF line.width >= column - 1 THEN line.width ELSE column - 1
  BY <1>4, EndedPad
<1> HIDE DEF padded
<1>6. Ended(pushed, N, W) /\ pushed.width = padded.width + size
  <2>1. Ended(padded, N, W)
    BY <1>5
  <2> QED BY <2>1, EndedMark
<1>7. line.width + size <= edge => pushed.width = edge
  BY <1>0, <1>1, <1>3, <1>4, <1>5, <1>6
<1> QED BY <1>2, <1>6, <1>7 DEF edge

\* A line that ends, on paper.
LEMMA EndedText ==
  ASSUME NEW N, OneBlock(N), NEW W, NEW line, Ended(line, N, W), Within(line), ~IsBlank(line)
  PROVE  Text(<<line>>, W) /\ ((\A n \in N : Calm(n)) => Quiet(<<line>>))
BY LineIsText DEF Ended

\* A line that ends with a name in a heading may run past the edge.
LEMMA PushedHead ==
  ASSUME NEW N, NEW line \in LinesOf(N), NEW what \in ReportMarks \cup N, NEW size \in Nat \ {0},
         IsName(what), what.row = "head"
  PROVE  Within(Push(line, what, size)) /\ ~IsBlank(Push(line, what, size))
<1> DEFINE pushed == Push(line, what, size)
           n == Len(line.spans)
<1>1. /\ Len(pushed.spans) = n + 1 /\ n \in Nat /\ pushed.spans[n + 1].what = what
  <2>1. n \in Nat
    BY SpansOfNeat
  <2>2. Len(pushed.spans) = n + 1 /\ pushed.spans[n + 1].what = what
    BY PushIs
  <2> QED BY <2>1, <2>2
<1> HIDE DEF pushed, n
<1>2. n + 1 \in 1 .. Len(pushed.spans) /\ Len(pushed.spans) # 0
  BY <1>1
<1>3. Within(pushed)
  BY <1>1, <1>2 DEF Within
<1>4. Len(<<>>) = 0
  OBVIOUS
<1> QED BY <1>2, <1>3, <1>4 DEF pushed, IsBlank

\* The pieces of an interface's heading.
HeadNames(block) ==
  [block : {block}, row : {"head"}, part : {"icon", "display", "device", "status"}]

\* They are told apart, and from those of rows.
LEMMA HeadNamesAre ==
  ASSUME NEW block \in BlockNames
  PROVE  LET N == HeadNames(block) IN
         /\ OneBlock(N) /\ N \in SUBSET Names /\ \A n \in N : Calm(n)
         /\ \A part \in {"icon", "display", "device", "status"} :
              LET what == Piece(block, "head", part) IN
              /\ what \in ReportMarks \cup N /\ IsName(what) /\ Loose(what) /\ Shown(what)
              /\ what.row = "head" /\ what.part = part
<1> DEFINE N == HeadNames(block)
<1>1. N \in SUBSET Names
  <2>1. "head" \in RowNames
    BY DEF RowNames
  <2> QED BY <2>1 DEF HeadNames, Names, PartNames
<1>2. \A m \in N : m.block = block /\ m.row = "head"
                   /\ m.part \in {"icon", "display", "device", "status"}
  BY DEF HeadNames
<1>3. \A part \in {"icon", "display", "device", "status"} :
        Piece(block, "head", part) \in N /\ Piece(block, "head", part).part = part
  BY DEF Piece, HeadNames
<1> HIDE DEF N
<1>4. \A m \in N : IsName(m)
  BY <1>1, NamesAre
<1>5. \A m \in N : Loose(m) /\ Shown(m) /\ Calm(m)
  BY <1>2, <1>4 DEF Loose, Shown, Calm
<1>6. OneBlock(N)
  BY <1>1, <1>2 DEF OneBlock
<1> QED BY <1>1, <1>2, <1>3, <1>4, <1>5, <1>6 DEF N

\* The widths of the glyphs.
LEMMA GlyphIs ==
  ASSUME glyphs \in Glyphs
  PROVE  /\ glyphs.mark \in 1 .. 2 /\ glyphs.connector \in 1 .. 2
         /\ glyphs.mark + glyphs.connector >= 3 /\ glyphs.icon \in 0 .. 1
BY ReportsAssumption

\* What the heading of an interface says: its icon, its names and its status.
HeadSays(iface) ==
  LET What(part) == Piece(iface.name, "head", part)
  IN Saying(What("icon"), IF iface.other THEN 0 ELSE glyphs.icon)
     \cup Saying(What("display"), iface.display)
     \cup Saying(What("device"), iface.device)
     \cup Saying(What("status"), Bracketed(iface.status))

\* The edge is a number of columns.
LEMMA EdgeCounts == ASSUME terminal \in Terminals PROVE Edge \in Nat
<1>1. Edge \in 62 .. 96
  BY RoomIs
<1> QED BY <1>1

\* A status goes to the edge; when a long name leaves no room for it there, it
\* goes where the name ends.
LEMMA StatusText ==
  ASSUME terminal \in Terminals, NEW block \in BlockNames, NEW device,
         NEW W, Ended(device, HeadNames(block), W), device.width >= 1,
         \A k \in 1 .. Len(device.spans) :
           k = Len(device.spans) => device.spans[k].to = device.width,
         Unsaid(Piece(block, "head", "status"), W), NEW status \in Nat \ {0}
  PROVE  LET what == Piece(block, "head", "status")
             line == IF Narrow THEN Push(Space(device, 2), what, status)
                     ELSE PushRight(device, what, status, Edge)
         IN Prose(<<line>>, W \cup Saying(what, status))
<1> DEFINE N == HeadNames(block)
           what == Piece(block, "head", "status")
           last == device.width
           edge == Edge
           column == Less(edge, status) + 1
           padded == PadTo(device, column)
           wide == Push(padded, what, status)
           spaced == Space(device, 2)
           narrow == Push(spaced, what, status)
           Z == W \cup Saying(what, status)
<1>3. edge \in Nat
  BY EdgeCounts
<1>1. PushRight(device, what, status, Edge) = wide
  BY DEF PushRight
<1>2. /\ OneBlock(N) /\ N \in SUBSET Names /\ \A n \in N : Calm(n)
      /\ what \in ReportMarks \cup N /\ IsName(what) /\ Loose(what)
      /\ what.row = "head" /\ what.part = "status"
  BY HeadNamesAre
<1>4. Neat(device, last, N, W) /\ last \in Nat
  <2>1. last \in Nat
    BY EndedIs DEF Ended
  <2> QED BY <2>1 DEF Ended
<1> HIDE DEF edge, N, what
<1>5. /\ Less(edge, status) \in Nat /\ column \in Nat
      /\ column - 1 = IF edge >= status THEN edge - status ELSE 0
  <2>1. status \in Nat
    OBVIOUS
  <2> DEFINE start == Less(edge, status)
  <2>2. start \in Nat /\ start = IF edge >= status THEN edge - status ELSE 0
    BY <1>3, <2>1, LessIs
  <2> HIDE DEF start
  <2>3. start + 1 \in Nat /\ start + 1 - 1 = start
    BY <2>2
  <2> QED BY <2>2, <2>3 DEF start
<1> HIDE DEF column
<1>6. /\ Neat(padded, last, N, W) /\ padded.spans = device.spans
      /\ padded.width = IF last >= column - 1 THEN last ELSE column - 1
  BY <1>4, <1>5, PadNeat
<1> HIDE DEF padded
<1>7. ASSUME ~Narrow PROVE Room(padded, last, what, status)
  <2>1. what.part # "annotation"
    BY <1>2
  <2>2. CASE padded.width >= last + 1
    BY <2>1, <2>2 DEF Room
  <2>3. CASE ~(padded.width >= last + 1)
    <3>1. last + status >= edge
      BY <1>3, <1>4, <1>5, <1>6, <2>3
    <3>2. \A k \in 1 .. Len(padded.spans) :
            k = Len(padded.spans) => padded.spans[k].to + status >= Edge
      BY <1>6, <3>1 DEF edge, last
    <3> QED BY <1>2, <1>7, <2>1, <3>2 DEF Room
  <2> QED BY <2>2, <2>3
<1>8. Unsaid(what, W)
  BY DEF what
<1>9. ASSUME ~Narrow PROVE Ended(wide, N, Z)
  <2>1. Room(padded, last, what, status)
    BY <1>7, <1>9
  <2>2. status \in Nat
    OBVIOUS
  <2> QED BY <1>2, <1>6, <1>8, <2>1, <2>2, PushNeat DEF Ended
<1>10. Spaced(spaced, N, W)
  <2>1. Ended(device, N, W)
    BY <1>4 DEF Ended
  <2>2. 2 \in Nat \ {0}
    OBVIOUS
  <2> QED BY <2>1, <2>2, SpaceSpaced
<1> HIDE DEF spaced
<1>11. Ended(narrow, N, Z)
  <2>1. status \in Nat
    OBVIOUS
  <2> QED BY <1>2, <1>8, <1>10, <2>1, PushSpaced
<1>12. ASSUME NEW line \in LinesOf(N), Ended(Push(line, what, status), N, Z)
       PROVE  Prose(<<Push(line, what, status)>>, Z)
  <2> DEFINE pushed == Push(line, what, status)
  <2>1. Within(pushed) /\ ~IsBlank(pushed)
    BY <1>2, PushedHead
  <2>2. Ended(pushed, N, Z)
    BY <1>12
  <2> HIDE DEF pushed, Z
  <2>3. Text(<<pushed>>, Z) /\ Quiet(<<pushed>>)
    BY <1>2, <2>1, <2>2, EndedText
  <2> QED BY <2>3 DEF Prose, pushed
<1>13. padded \in LinesOf(N) /\ spaced \in LinesOf(N)
  BY <1>6, <1>10, EndedIs, SpacedIs
<1>14. Prose(<<narrow>>, Z)
  BY <1>11, <1>12, <1>13
<1>15. ASSUME ~Narrow PROVE Prose(<<wide>>, Z)
  BY <1>9, <1>12, <1>13, <1>15
<1> QED BY <1>1, <1>14, <1>15 DEF what, Z, narrow, spaced

\* The heading of an interface is a line that says all of that.
LEMMA InterfaceHeadText ==
  ASSUME terminal \in Terminals, glyphs \in Glyphs, asked \in Reports,
         NEW j \in DOMAIN asked.interfaces
  PROVE  LET iface == asked.interfaces[j] IN Prose(<<InterfaceHead(iface)>>, HeadSays(iface))
<1> DEFINE iface == asked.interfaces[j]
           block == iface.name
           N == HeadNames(block)
           What(part) == Piece(block, "head", part)
           tiny == IF iface.other THEN 0 ELSE glyphs.icon
           rail == PushRail(TRUE)
           icon == Push(rail, What("icon"), tiny)
           start == IF glyphs.icon = 0 \/ iface.other THEN icon ELSE Space(icon, 1)
           gap == IF glyphs.monochrome THEN 3 ELSE 1
           display == Push(start, What("display"), iface.display)
           named == IF iface.display = 0 THEN start ELSE Space(display, gap)
           device == Push(named, What("device"), iface.device)
           status == Bracketed(iface.status)
           line == IF Narrow THEN Push(Space(device, 2), What("status"), status)
                   ELSE PushRight(device, What("status"), status, Edge)
           E == {}
           I == E \cup Saying(What("icon"), tiny)
           D == I \cup Saying(What("display"), iface.display)
           V == D \cup Saying(What("device"), iface.device)
<1>1. iface.device \in Nat \ {0} /\ iface.status \in Nat \ {0} /\ iface.display \in Nat
  BY InterfaceIs DEF IsInterface
<1>2. tiny \in Nat /\ gap \in Nat \ {0} /\ status \in Nat \ {0}
  <2>1. glyphs.icon \in Nat
    BY GlyphIs
  <2> QED BY <1>1, <2>1 DEF Bracketed
<1>3. block \in BlockNames
  BY DEF BlockNames
<1>4. InterfaceHead(iface) = line
  BY DEF InterfaceHead
<1>5. /\ N \in SUBSET Names
      /\ \A part \in {"icon", "display", "device", "status"} :
           /\ What(part) \in ReportMarks \cup N /\ Loose(What(part)) /\ What(part).part = part
  <2> HIDE DEF iface, block
  <2> QED BY <1>3, HeadNamesAre
<1>6. HeadSays(iface) = V \cup Saying(What("status"), status)
  BY DEF HeadSays
<1>7. Unsaid(What("icon"), E) /\ Unsaid(What("display"), I)
      /\ Unsaid(What("device"), D) /\ Unsaid(What("status"), V)
  <2>1. \A w \in I : w[1] = What("icon")
    BY DEF Saying
  <2>2. \A w \in D : w[1] \in {What("icon"), What("display")}
    BY <2>1 DEF Saying
  <2>3. \A w \in V : w[1] \in {What("icon"), What("display"), What("device")}
    BY <2>2 DEF Saying
  <2> HIDE DEF E, I, D, V, What
  <2>4. Unsaid(What("icon"), E)
    BY DEF E, Unsaid
  <2>5. Unsaid(What("display"), I)
    BY <1>5, <2>1 DEF Unsaid
  <2>6. Unsaid(What("device"), D)
    BY <1>5, <2>2 DEF Unsaid
  <2>7. Unsaid(What("status"), V)
    BY <1>5, <2>3 DEF Unsaid
  <2> QED BY <2>4, <2>5, <2>6, <2>7
<1>8. glyphs.icon = 0 \/ iface.other <=> tiny = 0
  <2>1. glyphs.icon \in Nat
    BY GlyphIs
  <2> QED BY <2>1
<1>9. Spaced(rail, N, E)
  <2>1. Neat(rail, 3, N, {}) /\ rail.width = 4
    BY <1>5, RailNeat
  <2> HIDE DEF rail
  <2>2. Spaced(rail, N, {})
    BY <2>1, SpacedBy
  <2> QED BY <2>2
<1> DEFINE bare == glyphs.icon = 0 \/ iface.other
<1>10. start = IF bare THEN icon ELSE Space(icon, 1)
  OBVIOUS
<1>11. tiny = 0 => Saying(What("icon"), tiny) = {}
  BY SaidNothing
<1>12. iface.display = 0 => Saying(What("display"), iface.display) = {}
  BY SaidNothing
<1>13. tiny = 0 => icon = rail
  BY DEF Push
<1> HIDE DEF N, What, rail, icon, bare, tiny, gap, status, start
<1>14. Ended(icon, N, I)
  BY <1>2, <1>5, <1>7, <1>9, PushSpaced DEF icon
<1>15. Spaced(start, N, I)
  <2>1. CASE bare
    <3>1. tiny = 0 /\ start = rail
      BY <1>8, <1>10, <1>13, <2>1 DEF bare
    <3>2. I = E
      BY <1>11, <3>1
    <3> QED BY <1>9, <3>1, <3>2
  <2>2. CASE ~bare
    <3>1. start = Space(icon, 1) /\ 1 \in Nat \ {0}
      BY <1>10, <2>2
    <3> HIDE DEF I
    <3> QED BY <1>14, <3>1, SpaceSpaced
  <2> QED BY <2>1, <2>2
<1> HIDE DEF I
<1>16. Ended(display, N, D)
  BY <1>1, <1>5, <1>7, <1>15, PushSpaced
<1> HIDE DEF display
<1>17. Spaced(named, N, D)
  <2>1. CASE iface.display = 0
    <3>1. named = start /\ D = I
      BY <1>12, <2>1
    <3> QED BY <1>15, <3>1
  <2>2. CASE iface.display # 0
    <3>1. named = Space(display, gap)
      BY <2>2
    <3> HIDE DEF D
    <3> QED BY <1>2, <1>16, <3>1, SpaceSpaced
  <2> QED BY <2>1, <2>2
<1> HIDE DEF named, D
<1>18. Ended(device, N, V) /\ device.width = named.width + iface.device
  <2> DEFINE what == What("device")
             size == iface.device
             pushed == Push(named, what, size)
             Z == D \cup Saying(what, size)
  <2>1. /\ N \in SUBSET Names /\ what \in ReportMarks \cup N /\ Loose(what)
        /\ Unsaid(what, D) /\ size \in Nat
    BY <1>1, <1>5, <1>7
  <2> HIDE DEF what, size
  <2>2. Ended(pushed, N, Z) /\ pushed.width = named.width + size
    BY <1>17, <2>1, PushSpaced
  <2> QED BY <2>2 DEF what, size
<1>19. named.width \in Nat /\ named \in LinesOf(N)
  BY <1>17, SpacedIs
<1>20. device.width >= 1
  BY <1>1, <1>18, <1>19
<1>21. \A k \in 1 .. Len(device.spans) :
         k = Len(device.spans) => device.spans[k].to = device.width
  <2> DEFINE n == Len(named.spans)
             size == iface.device
  <2>1. What("device") \in ReportMarks \cup N /\ size \in Nat \ {0}
    BY <1>1, <1>5
  <2> HIDE DEF size
  <2>2. /\ Len(device.spans) = n + 1 /\ device.spans[n + 1].to = named.width + size
        /\ device.width = named.width + size
    BY <1>19, <2>1, PushIs DEF size
  <2> QED BY <2>2
<1> HIDE DEF device, V
<1>22. Prose(<<line>>, V \cup Saying(What("status"), status))
  <2> DEFINE Z == V \cup Saying(Piece(block, "head", "status"), status)
  <2>1. Ended(device, HeadNames(block), V) /\ Unsaid(Piece(block, "head", "status"), V)
    BY <1>7, <1>18 DEF N, What
  <2>2. status \in Nat \ {0}
    BY <1>2
  <2> HIDE DEF iface, block
  <2>3. LET what == Piece(block, "head", "status")
            each == IF Narrow THEN Push(Space(device, 2), what, status)
                    ELSE PushRight(device, what, status, Edge)
        IN Prose(<<each>>, V \cup Saying(what, status))
    BY <1>3, <1>20, <1>21, <2>1, <2>2, StatusText
  <2> QED BY <2>3 DEF What
<1> QED BY <1>4, <1>6, <1>22 DEF iface, status

\* What an interface says: its heading and, if it is active, its rows.
InterfaceSays(iface) ==
  HeadSays(iface)
  \cup IF iface.active THEN RowsSay(iface.name, CollectRows(iface)) ELSE {}

\* No row says what a heading says.
LEMMA HeadApart ==
  ASSUME NEW iface, NEW block, NEW rows
  PROVE  Distinct(HeadSays(iface), RowsSay(block, rows)) /\ Distinct(HeadSays(iface), {})
<1>1. \A v \in HeadSays(iface) : v[1].part \in {"icon", "display", "device", "status"}
  <2>1. \A v \in HeadSays(iface) : \E part \in {"icon", "display", "device", "status"} :
          v[1] = Piece(iface.name, "head", part)
    BY DEF HeadSays, Saying
  <2> QED BY <2>1 DEF Piece
<1>2. \A w \in RowsSay(block, rows) : w[1].part \in {"label", "value", "annotation", "continuation"}
  BY RowSaysName DEF RowsSay
<1> QED BY <1>1, <1>2 DEF Distinct

\* The block of an interface says what the interface says.
LEMMA InterfaceText ==
  ASSUME terminal \in Terminals, glyphs \in Glyphs, asked \in Reports,
         NEW j \in DOMAIN asked.interfaces
  PROVE  LET iface == asked.interfaces[j] IN
         Prose(InterfaceBlock(iface), InterfaceSays(iface)) /\ InterfaceBlock(iface) # <<>>
<1> DEFINE iface == asked.interfaces[j]
           head == <<InterfaceHead(iface)>>
           rows == IF iface.active THEN EmitRows(iface.name, CollectRows(iface), TRUE) ELSE <<>>
           V == HeadSays(iface)
           W == IF iface.active THEN RowsSay(iface.name, CollectRows(iface)) ELSE {}
<1>1. Prose(head, V)
  BY InterfaceHeadText
<1>2. Prose(rows, W)
  <2>1. iface.name \in BlockNames
    BY DEF BlockNames
  <2>2. Prose(EmitRows(iface.name, CollectRows(iface), TRUE),
              RowsSay(iface.name, CollectRows(iface)))
    BY <2>1, CollectRowsFine, EmitRowsText
  <2> QED BY <2>2, NoProse
<1>3. InterfaceBlock(iface) = head \o rows /\ InterfaceSays(iface) = V \cup W
  BY DEF InterfaceBlock, InterfaceSays
<1>4. head \in Seq({InterfaceHead(iface)}) /\ Len(head) = 1
  OBVIOUS
<1>5. Distinct(V, W)
  BY HeadApart
<1> HIDE DEF iface, head, rows, V, W
<1>6. Prose(head \o rows, V \cup W)
  BY <1>1, <1>2, <1>5, ProseJoined
<1>7. head \o rows # <<>>
  <2> DEFINE S == LinesOf(Names)
  <2>1. head \in Seq(S) /\ rows \in Seq(S)
    BY <1>1, <1>2 DEF Prose, Text, Paper
  <2> HIDE DEF S
  <2>2. Len(head \o rows) = Len(head) + Len(rows) /\ Len(rows) \in Nat
    BY <2>1, Joined
  <2>3. Len(<<>>) = 0
    OBVIOUS
  <2> QED BY <1>4, <2>2, <2>3
<1> QED BY <1>3, <1>6, <1>7 DEF iface

-----------------------------------------------------------------------------
(***************************************************************************)
(* The reachability ladder, in one line or in several, and its times.      *)
(***************************************************************************)

-----------------------------------------------------------------------------
(* The ladder.                                                             *)

\* The stages of the ladder.
Rungs == asked.reachability.rungs
RungNames == {Rungs[i].name : i \in DOMAIN Rungs}
StageNames ==
  [block : {"ladder"}, row : RungNames \cup {"none"}, part : {"stage", "mark", "connector"}]
TimeNames == [block : {"ladder"}, row : RungNames, part : {"timing"}]

\* What is assumed of the stages.
LEMMA RungsAre ==
  ASSUME asked \in Reports
  PROVE  /\ Len(Rungs) \in Nat /\ Len(Rungs) <= 4 /\ DOMAIN Rungs = 1 .. Len(Rungs)
         /\ \A i \in 1 .. Len(Rungs) :
              /\ Rungs[i].name # "title" /\ Rungs[i].size \in 3 .. 7 /\ Rungs[i].ms \in 0 .. 8
              /\ Rungs[i].ms > 0 => Rungs[i].outcome # "untried"
         /\ \A i, k \in 1 .. Len(Rungs) : Rungs[i].name = Rungs[k].name => i = k
<1>1. IsLadder(Rungs)
  BY ReportsAssumption DEF Rungs
<1> HIDE DEF Rungs
<1>2. Rungs \in Seq(ToSet(Rungs)) /\ Len(Rungs) <= 4
  BY <1>1 DEF IsLadder, IsSequence
<1>3. Len(Rungs) \in Nat /\ DOMAIN Rungs = 1 .. Len(Rungs)
  BY <1>2, LenProperties
<1> QED BY <1>1, <1>2, <1>3 DEF IsLadder

\* The width of a mark; a stage that was tried has one of the set's own.
LEMMA MarksAre ==
  ASSUME glyphs \in Glyphs, NEW outcome
  PROVE  MarkFor(outcome) \in 1 .. 2 /\ (outcome # "untried" => MarkFor(outcome) = glyphs.mark)
BY GlyphIs DEF MarkFor

\* A stage has the name of a row.
LEMMA RungNamesAre ==
  ASSUME asked \in Reports
  PROVE  RungNames \cup {"none"} \in SUBSET RowNames /\ \A name \in RungNames : name # "title"
<1>1. \A x \in RungNames \cup {"none"} : x \in RowNames
  <2>1. RungNames \in SUBSET RowNames
    BY DEF RungNames, Rungs, RowNames
  <2>2. "none" \in RowNames
    BY DEF RowNames
  <2> QED BY <2>1, <2>2
<1>2. \A i \in DOMAIN Rungs : Rungs[i].name # "title"
  BY RungsAre
<1> QED BY <1>1, <1>2 DEF RungNames

\* The pieces of the two lines are told apart.
LEMMA LadderNamesAre ==
  ASSUME asked \in Reports
  PROVE  /\ OneBlock(StageNames) /\ StageNames \in SUBSET Names
         /\ OneBlock(TimeNames) /\ TimeNames \in SUBSET Names
         /\ \A n \in StageNames : /\ Calm(n) /\ IsName(n) /\ Loose(n)
                                  /\ Shown(n) <=> n.part # "connector"
         /\ \A n \in TimeNames : /\ IsName(n) /\ Shown(n)
                                 /\ n.row # "title" /\ n.part = "timing"
<1>1. StageNames \in SUBSET Names /\ TimeNames \in SUBSET Names
  <2>1. "ladder" \in BlockNames
    BY DEF BlockNames
  <2>2. {"stage", "mark", "connector", "timing"} \subseteq PartNames
    BY DEF PartNames
  <2> QED BY <2>1, <2>2, RungNamesAre DEF StageNames, TimeNames, Names
<1>2. \A n \in StageNames : n.block = "ladder" /\ n.row # "title"
                            /\ n.part \in {"stage", "mark", "connector"}
  BY RungNamesAre DEF StageNames
<1>3. \A n \in TimeNames : n.block = "ladder" /\ n.row # "title" /\ n.part = "timing"
  BY RungNamesAre DEF TimeNames
<1>4. (\A n \in StageNames : IsName(n)) /\ (\A n \in TimeNames : IsName(n))
  BY <1>1, NamesAre
<1>5. OneBlock(StageNames) /\ OneBlock(TimeNames)
  BY <1>1, <1>2, <1>3 DEF OneBlock
<1>6. \A n \in StageNames : Calm(n) /\ Loose(n) /\ (Shown(n) <=> n.part # "connector")
  BY <1>2, <1>4 DEF Calm, Loose, Shown
<1>7. \A n \in TimeNames : Shown(n)
  BY <1>3, <1>4 DEF Shown
<1> QED BY <1>1, <1>3, <1>4, <1>5, <1>6, <1>7

\* The pieces of one stage.
LEMMA LadderPieces ==
  ASSUME asked \in Reports, NEW i \in 1 .. Len(Rungs)
  PROVE  /\ \A part \in {"stage", "mark"} : Piece("ladder", Rungs[i].name, part) \in StageNames
         /\ Piece("ladder", "none", "connector") \in StageNames
         /\ Piece("ladder", Rungs[i].name, "timing") \in TimeNames
<1>1. Rungs[i].name \in RungNames
  BY RungsAre DEF RungNames
<1> QED BY <1>1 DEF Piece, StageNames, TimeNames

\* What is written stays where it is.
Grows(a, b) ==
  /\ Len(a.spans) <= Len(b.spans) /\ Len(a.spans) \in Nat /\ Len(b.spans) \in Nat
  /\ \A k \in 1 .. Len(a.spans) : b.spans[k] = a.spans[k]
Stands(line, what, from) ==
  \E m \in 1 .. Len(line.spans) : line.spans[m].what = what /\ line.spans[m].from = from

\* What stands on a line stands on it when it has grown.
LEMMA GrowsOn ==
  ASSUME NEW a, NEW b, Grows(a, b)
  PROVE  /\ \A c : Grows(b, c) => Grows(a, c)
         /\ \A what, from : Stands(a, what, from) => Stands(b, what, from)
<1>1. \A k \in 1 .. Len(a.spans) : k \in 1 .. Len(b.spans)
  BY DEF Grows
<1>2. ASSUME NEW c, Grows(b, c) PROVE Grows(a, c)
  <2>1. Len(a.spans) <= Len(c.spans) /\ Len(a.spans) \in Nat /\ Len(c.spans) \in Nat
    BY <1>2 DEF Grows
  <2>2. \A k \in 1 .. Len(a.spans) : c.spans[k] = a.spans[k]
    BY <1>1, <1>2 DEF Grows
  <2> QED BY <2>1, <2>2 DEF Grows
<1>3. ASSUME NEW what, NEW from, Stands(a, what, from) PROVE Stands(b, what, from)
  <2>1. PICK m \in 1 .. Len(a.spans) : a.spans[m].what = what /\ a.spans[m].from = from
    BY <1>3 DEF Stands
  <2>2. m \in 1 .. Len(b.spans) /\ b.spans[m] = a.spans[m]
    BY <1>1, <2>1 DEF Grows
  <2> QED BY <2>1, <2>2 DEF Stands
<1> QED BY <1>2, <1>3

\* A line that is only padded has grown.
LEMMA SameGrows ==
  ASSUME NEW N, NEW a \in LinesOf(N), NEW b, b.spans = a.spans
  PROVE  Grows(a, b)
<1>1. Len(a.spans) \in Nat
  BY SpansOfNeat
<1> QED BY <1>1 DEF Grows

\* A piece is pushed where the line ends.
LEMMA PushGrows ==
  ASSUME NEW N, NEW line \in LinesOf(N), NEW what \in ReportMarks \cup N, NEW size \in Nat
  PROVE  /\ Grows(line, Push(line, what, size))
         /\ size > 0 => Stands(Push(line, what, size), what, line.width + 1)
<1> DEFINE pushed == Push(line, what, size)
           n == Len(line.spans)
<1>1. n \in Nat
  BY SpansOfNeat
<1>2. CASE size = 0
  <2>1. pushed = line
    BY <1>2 DEF Push
  <2> QED BY <1>1, <1>2, <2>1 DEF Grows
<1>3. CASE size # 0
  <2>0. size \in Nat \ {0}
    BY <1>3
  <2>1. /\ Len(pushed.spans) = n + 1
        /\ \A k \in 1 .. n : pushed.spans[k] = line.spans[k]
        /\ pushed.spans[n + 1].what = what /\ pushed.spans[n + 1].from = line.width + 1
    BY <2>0, PushIs
  <2> HIDE DEF pushed
  <2>2. Grows(line, pushed)
    BY <1>1, <2>1 DEF Grows
  <2>3. n + 1 \in 1 .. Len(pushed.spans)
    BY <1>1, <2>1
  <2>4. Stands(pushed, what, line.width + 1)
    BY <2>1, <2>3 DEF Stands
  <2> QED BY <2>2, <2>4 DEF pushed
<1> QED BY <1>2, <1>3

\* What a stage says: its name and its mark.
StageSays(i) ==
  Saying(Piece("ladder", Rungs[i].name, "stage"), Rungs[i].size)
  \cup Saying(Piece("ladder", Rungs[i].name, "mark"), MarkFor(Rungs[i].outcome))

\* What the first of them say.
StagesSay(i) == UNION {StageSays(k) : k \in 1 .. i}

\* A stage adds what it says, and none before it said that.
LEMMA StagesSayOn ==
  ASSUME asked \in Reports
  PROVE  /\ StagesSay(0) = {}
         /\ \A i \in 1 .. Len(Rungs) :
              /\ StagesSay(i) = StagesSay(i - 1) \cup StageSays(i)
              /\ \A part : Unsaid(Piece("ladder", Rungs[i].name, part), StagesSay(i - 1))
<1>1. StagesSay(0) = {}
  <2>1. 1 .. 0 = {}
    OBVIOUS
  <2> QED BY <2>1 DEF StagesSay
<1>2. Len(Rungs) \in Nat
  BY RungsAre
<1>3. ASSUME NEW i \in 1 .. Len(Rungs)
      PROVE  StagesSay(i) = StagesSay(i - 1) \cup StageSays(i)
  <2>1. \A k \in 1 .. i : k = i \/ k \in 1 .. i - 1
    BY <1>2
  <2>2. i \in 1 .. i /\ \A k \in 1 .. i - 1 : k \in 1 .. i
    BY <1>2
  <2> QED BY <2>1, <2>2 DEF StagesSay
<1>4. ASSUME NEW i \in 1 .. Len(Rungs), NEW part, NEW w \in StagesSay(i - 1)
      PROVE  w[1] # Piece("ladder", Rungs[i].name, part)
  <2>1. PICK k \in 1 .. i - 1 : w \in StageSays(k)
    BY DEF StagesSay
  <2>2. w[1].row = Rungs[k].name
    <3>1. \E each : w[1] = Piece("ladder", Rungs[k].name, each)
      BY <2>1 DEF StageSays, Saying
    <3> QED BY <3>1 DEF Piece
  <2>3. k \in 1 .. Len(Rungs) /\ k # i
    BY <1>2
  <2>4. Rungs[k].name # Rungs[i].name
    BY <2>3, RungsAre
  <2> QED BY <2>2, <2>4 DEF Piece
<1> QED BY <1>1, <1>3, <1>4 DEF Unsaid

\* A stage stands where the line before it ends.
LEMMA StageIs ==
  ASSUME asked \in Reports, glyphs \in Glyphs, NEW i \in 1 .. Len(Rungs), NEW line,
         Spaced(line, StageNames, StagesSay(i - 1))
  PROVE  LET rung == Rungs[i]
             stage == Stage(line, rung)
         IN /\ Ended(stage, StageNames, StagesSay(i)) /\ Grows(line, stage)
            /\ stage.width = line.width + rung.size + 1 + MarkFor(rung.outcome)
            /\ Stands(stage, Piece("ladder", rung.name, "stage"), line.width + 1)
<1> DEFINE rung == Rungs[i]
           N == StageNames
           name == Piece("ladder", rung.name, "stage")
           mark == Piece("ladder", rung.name, "mark")
           size == rung.size
           room == MarkFor(rung.outcome)
           named == Push(line, name, size)
           spaced == Space(named, 1)
           stage == Push(spaced, mark, room)
           from == line.width + 1
           U == StagesSay(i - 1)
           V == U \cup Saying(name, size)
           W == V \cup Saying(mark, room)
<1>1. size \in Nat /\ size > 0 /\ room \in Nat
  <2>1. size \in 3 .. 7 /\ room \in 1 .. 2
    BY RungsAre, MarksAre
  <2> HIDE DEF size, room
  <2> QED BY <2>1
<1>2. N \in SUBSET Names /\ name \in N /\ mark \in N
  BY LadderNamesAre, LadderPieces
<1>3. name \in ReportMarks \cup N /\ Loose(name)
  BY <1>2, LadderNamesAre
<1>4. mark \in ReportMarks \cup N /\ Loose(mark)
  BY <1>2, LadderNamesAre
<1>5. Stage(line, rung) = stage
  BY DEF Stage
<1>6. line \in LinesOf(N) /\ line.width \in Nat
  BY SpacedIs
<1>18. StagesSay(i) = W
  <2>1. StagesSay(i) = U \cup StageSays(i)
    BY StagesSayOn
  <2> QED BY <2>1 DEF StageSays
<1>19. Unsaid(name, U) /\ Unsaid(mark, V)
  <2>1. Unsaid(name, U) /\ Unsaid(mark, U)
    BY StagesSayOn
  <2>2. name # mark
    BY DEF Piece
  <2> HIDE DEF name, mark, U
  <2>3. \A w \in V : w \in U \/ w[1] = name
    BY DEF Saying
  <2> HIDE DEF V
  <2> QED BY <2>1, <2>2, <2>3 DEF Unsaid
<1>0. Spaced(line, N, U)
  OBVIOUS
<1> HIDE DEF N, name, mark, size, room, U
<1>7. Ended(named, N, V) /\ named.width = line.width + size
  <2>1. N \in SUBSET Names
    BY <1>2
  <2>2. Unsaid(name, U)
    BY <1>19
  <2>3. size \in Nat
    BY <1>1
  <2> QED BY <1>0, <1>3, <2>1, <2>2, <2>3, PushSpaced
<1>8. Grows(line, named) /\ Stands(named, name, from)
  BY <1>1, <1>3, <1>6, PushGrows
<1> HIDE DEF named, from, V
<1>9. Spaced(spaced, N, V) /\ spaced.width = named.width + 1 /\ spaced.spans = named.spans
  <2>1. Ended(named, N, V)
    BY <1>7
  <2> DEFINE one == 1
  <2>2. one \in Nat \ {0}
    OBVIOUS
  <2> HIDE DEF one
  <2>3. /\ Spaced(Space(named, one), N, V) /\ Space(named, one).width = named.width + one
        /\ Space(named, one).spans = named.spans
    BY <2>1, <2>2, SpaceSpaced
  <2> QED BY <2>3 DEF one
<1>10. named \in LinesOf(N)
  BY <1>7, EndedIs DEF Ended
<1>11. Grows(named, spaced)
  BY <1>9, <1>10, SameGrows
<1> HIDE DEF spaced
<1>12. Ended(stage, N, W) /\ stage.width = spaced.width + room
  <2>1. Spaced(spaced, N, V)
    BY <1>9
  <2> QED BY <1>1, <1>2, <1>4, <1>19, <2>1, PushSpaced
<1>13. spaced \in LinesOf(N)
  BY <1>9, SpacedIs
<1>14. Grows(spaced, stage)
  BY <1>1, <1>4, <1>13, PushGrows
<1> HIDE DEF stage, W
<1>15. Grows(named, stage)
  BY <1>11, <1>14, GrowsOn
<1>16. Grows(line, stage) /\ Stands(stage, name, from)
  BY <1>8, <1>15, GrowsOn
<1>17. stage.width = line.width + size + 1 + room
  BY <1>1, <1>6, <1>7, <1>9, <1>12
<1> QED BY <1>5, <1>12, <1>16, <1>17, <1>18 DEF N, name, size, room, from

\* The connector before all stages but the first.
LEMMA BeforeStageIs ==
  ASSUME asked \in Reports, glyphs \in Glyphs, NEW i \in 1 .. Len(Rungs), NEW line, NEW W,
         Ended(line, StageNames, W), i = 1 => Spaced(line, StageNames, W)
  PROVE  LET before == BeforeStage(i, line) IN
         /\ Spaced(before, StageNames, W) /\ Grows(line, before)
         /\ before.width = line.width + IF i = 1 THEN 0 ELSE 2 + glyphs.connector
<1> DEFINE N == StageNames
           what == Piece("ladder", "none", "connector")
           size == glyphs.connector
           one == 1
           spaced == Space(line, one)
           pushed == Push(spaced, what, size)
           before == Space(pushed, one)
<1>1. size \in Nat
  BY GlyphIs
<1>2. N \in SUBSET Names /\ what \in ReportMarks \cup N /\ Loose(what) /\ ~Shown(what)
  <2>1. what \in N /\ what.part = "connector"
    BY LadderPieces DEF Piece
  <2> QED BY <2>1, LadderNamesAre
<1>3. Connect(line) = before
  BY DEF Connect
<1>4. line \in LinesOf(N) /\ line.width \in Nat /\ Ended(line, N, W)
  BY EndedIs DEF Ended
<1>0. one \in Nat \ {0} /\ one = 1
  OBVIOUS
<1> HIDE DEF N, what, size, one
<1>5. Spaced(spaced, N, W) /\ spaced.width = line.width + 1 /\ spaced.spans = line.spans
  <2>1. Ended(line, N, W)
    BY <1>4
  <2>2. Spaced(spaced, N, W) /\ spaced.width = line.width + one /\ spaced.spans = line.spans
    BY <1>0, <2>1, SpaceSpaced
  <2> QED BY <1>0, <2>2
<1>6. Grows(line, spaced)
  BY <1>4, <1>5, SameGrows
<1> HIDE DEF spaced
<1>7. Ended(pushed, N, W) /\ pushed.width = spaced.width + size
  <2>1. Spaced(spaced, N, W)
    BY <1>5
  <2> QED BY <1>1, <1>2, <2>1, PushUntold
<1>8. spaced \in LinesOf(N)
  BY <1>5, SpacedIs
<1>9. Grows(spaced, pushed)
  BY <1>1, <1>2, <1>8, PushGrows
<1> HIDE DEF pushed
<1>10. Spaced(before, N, W) /\ before.width = pushed.width + 1 /\ before.spans = pushed.spans
  <2>1. Ended(pushed, N, W)
    BY <1>7
  <2>2. Spaced(before, N, W) /\ before.width = pushed.width + one /\ before.spans = pushed.spans
    BY <1>0, <2>1, SpaceSpaced
  <2> QED BY <1>0, <2>2
<1>11. pushed \in LinesOf(N)
  BY <1>7, EndedIs DEF Ended
<1>12. Grows(pushed, before)
  BY <1>10, <1>11, SameGrows
<1> HIDE DEF before
<1>13. Grows(spaced, before)
  BY <1>9, <1>12, GrowsOn
<1>14. Grows(line, before)
  BY <1>6, <1>13, GrowsOn
<1>15. Grows(line, line)
  BY <1>4, SameGrows
<1>16. before.width = line.width + (2 + size)
  BY <1>1, <1>4, <1>5, <1>7, <1>10
<1>17. CASE i = 1
  <2>1. BeforeStage(i, line) = line
    BY <1>17 DEF BeforeStage
  <2>2. Spaced(line, StageNames, W)
    BY <1>17
  <2> QED BY <1>4, <1>15, <1>17, <2>1, <2>2
<1>18. CASE i # 1
  <2>1. BeforeStage(i, line) = before
    BY <1>3, <1>18 DEF BeforeStage
  <2> QED BY <1>10, <1>14, <1>16, <1>18, <2>1 DEF N, size
<1> QED BY <1>17, <1>18

\* A line that is moved on, or grows by a piece, is a line of the same pieces.
LEMMA OnLines ==
  ASSUME NEW N, NEW line \in LinesOf(N)
  PROVE  /\ \A count \in Nat : Space(line, count) \in LinesOf(N)
         /\ \A what \in ReportMarks \cup N, size \in Nat : Push(line, what, size) \in LinesOf(N)
<1>1. ASSUME NEW count \in Nat PROVE Space(line, count) \in LinesOf(N)
  <2> DEFINE width == line.width + count
  <2>1. width \in Nat
    <3>1. line.width \in Nat
      BY SpansOfNeat
    <3> QED BY <3>1
  <2>2. Space(line, count) = [line EXCEPT !.width = width]
    BY DEF Space
  <2> HIDE DEF width
  <2> QED BY <2>1, <2>2 DEF LinesOf
<1>2. ASSUME NEW what \in ReportMarks \cup N, NEW size \in Nat
      PROVE  Push(line, what, size) \in LinesOf(N)
  <2>1. CASE size = 0
    BY <2>1 DEF Push
  <2>2. CASE size # 0
    <3>1. size \in Nat \ {0}
      BY <2>2
    <3> QED BY <3>1, PushIs
  <2> QED BY <2>1, <2>2
<1> QED BY <1>1, <1>2

\* The line of the stages goes on, stage by stage, and says what they say.
LEMMA StageLinesAre ==
  ASSUME asked \in Reports, glyphs \in Glyphs
  PROVE  LET line == StageLines(Rungs)
             n == Len(Rungs)
         IN /\ line[0] = PadTo(NewLine, LABEL_COL)
            /\ \A i \in 1 .. n : line[i] = Stage(BeforeStage(i, line[i - 1]), Rungs[i])
            /\ \A i \in 0 .. n : /\ Ended(line[i], StageNames, StagesSay(i))
                                 /\ i = 0 => Spaced(line[i], StageNames, StagesSay(i))
<1> DEFINE n == Len(Rungs)
           N == StageNames
           S == LinesOf(N)
           first == PadTo(NewLine, LABEL_COL)
           step == [i \in 1 .. n |-> [l \in S |-> Stage(BeforeStage(i, l), Rungs[i])]]
           line == StageLines(Rungs)
           Good(i) == /\ Ended(line[i], N, StagesSay(i))
                      /\ i = 0 => Spaced(line[i], N, StagesSay(i))
<1>1. n \in Nat
  BY RungsAre
<1>2. first \in S /\ Ended(first, N, StagesSay(0)) /\ Spaced(first, N, StagesSay(0))
  <2>1. Spaced(first, N, {})
    BY Margins
  <2>2. StagesSay(0) = {}
    BY StagesSayOn
  <2> HIDE DEF first, N
  <2>3. Ended(first, N, {}) /\ first \in LinesOf(N)
    BY <2>1, SpacedIs
  <2> QED BY <2>1, <2>2, <2>3
<1>3. ASSUME NEW i \in 1 .. n, NEW l \in S PROVE Stage(BeforeStage(i, l), Rungs[i]) \in S
  <2> DEFINE name == Piece("ladder", Rungs[i].name, "stage")
             mark == Piece("ladder", Rungs[i].name, "mark")
             link == Piece("ladder", "none", "connector")
             size == Rungs[i].size
             room == MarkFor(Rungs[i].outcome)
             wide == glyphs.connector
             one == 1
             before == BeforeStage(i, l)
  <2>1. size \in Nat /\ room \in Nat /\ wide \in Nat /\ one \in Nat
    <3>1. size \in 3 .. 7 /\ room \in 1 .. 2 /\ wide \in 1 .. 2
      BY RungsAre, MarksAre, GlyphIs
    <3> HIDE DEF size, room, wide
    <3> QED BY <3>1
  <2>2. name \in ReportMarks \cup N /\ mark \in ReportMarks \cup N /\ link \in ReportMarks \cup N
    BY LadderPieces
  <2>3. /\ before = IF i = 1 THEN l ELSE Space(Push(Space(l, one), link, wide), one)
        /\ Stage(before, Rungs[i]) = Push(Space(Push(before, name, size), one), mark, room)
    BY DEF BeforeStage, Connect, Stage
  <2> HIDE DEF name, mark, link, size, room, wide, one, before, N
  <2>4. before \in LinesOf(N)
    <3>1. Space(l, one) \in LinesOf(N)
      BY <2>1, OnLines
    <3>2. Push(Space(l, one), link, wide) \in LinesOf(N)
      BY <2>1, <2>2, <3>1, OnLines
    <3>3. Space(Push(Space(l, one), link, wide), one) \in LinesOf(N)
      BY <2>1, <3>2, OnLines
    <3> QED BY <2>3, <3>3
  <2>5. Push(before, name, size) \in LinesOf(N)
    BY <2>1, <2>2, <2>4, OnLines
  <2>6. Space(Push(before, name, size), one) \in LinesOf(N)
    BY <2>1, <2>5, OnLines
  <2>7. Push(Space(Push(before, name, size), one), mark, room) \in LinesOf(N)
    BY <2>1, <2>2, <2>6, OnLines
  <2> QED BY <2>3, <2>7 DEF before
<1> HIDE DEF S, first, n
<1>4. step \in Steps(S, n)
  BY <1>3 DEF Steps
<1>5. \A i \in 1 .. n : \A l \in S : step[i][l] = Stage(BeforeStage(i, l), Rungs[i])
  OBVIOUS
<1> HIDE DEF step
<1>6. PICK f : Taken(f, S, first, n, step)
  BY <1>1, <1>2, <1>4, CountingExists
<1>7. /\ f \in [0 .. n -> S] /\ f[0] = first
      /\ \A i \in 1 .. n : f[i] = Stage(BeforeStage(i, f[i - 1]), Rungs[i])
  <2>1. f \in [0 .. n -> S] /\ f[0] = first /\ \A i \in 1 .. n : f[i] = step[i][f[i - 1]]
    BY <1>6 DEF Taken
  <2>2. \A i \in 1 .. n : f[i - 1] \in S
    BY <1>1, <2>1
  <2> QED BY <1>5, <2>1, <2>2
<1>8. f = [i \in 0 .. n |-> IF i = 0 THEN first ELSE Stage(BeforeStage(i, f[i - 1]), Rungs[i])]
  <2> DEFINE g == [i \in 0 .. n |-> IF i = 0 THEN first
                                    ELSE Stage(BeforeStage(i, f[i - 1]), Rungs[i])]
  <2>1. \A i \in 0 .. n : i = 0 \/ i \in 1 .. n
    BY <1>1
  <2>2. \A i \in 0 .. n : g[i] = f[i]
    BY <1>7, <2>1
  <2> QED BY <1>7, <2>2
<1>9. line = [i \in 0 .. n |->
                IF i = 0 THEN first ELSE Stage(BeforeStage(i, line[i - 1]), Rungs[i])]
  BY <1>8 DEF StageLines, n, first
<1> HIDE DEF line
<1>10. line[0] = first
  BY <1>1, <1>9
<1>11. ASSUME NEW i \in 1 .. n PROVE line[i] = Stage(BeforeStage(i, line[i - 1]), Rungs[i])
  <2>1. i \in 0 .. n /\ i # 0
    BY <1>1
  <2> QED BY <1>9, <2>1
<1> DEFINE P == {i \in 0 .. n : Good(i)}
<1>12. 0 \in P
  <2>1. 0 \in 0 .. n
    BY <1>1
  <2>2. Good(0)
    BY <1>2, <1>10
  <2> HIDE DEF Good
  <2> QED BY <2>1, <2>2
<1>13. ASSUME NEW i \in 1 .. n, i - 1 \in P PROVE i \in P
  <2> DEFINE l == line[i - 1]
             U == StagesSay(i - 1)
             before == BeforeStage(i, l)
  <2>1. Ended(l, N, U) /\ (i = 1 => Spaced(l, N, U))
    <3>1. i = 1 => i - 1 = 0
      OBVIOUS
    <3>2. Good(i - 1)
      <4> HIDE DEF Good
      <4> QED BY <1>13
    <3> QED BY <3>1, <3>2
  <2> HIDE DEF l, U
  <2>2. i \in 1 .. Len(Rungs)
    BY DEF n
  <2>3. Spaced(before, StageNames, U)
    BY <2>1, <2>2, BeforeStageIs DEF N
  <2> HIDE DEF before
  <2>4. Ended(Stage(before, Rungs[i]), StageNames, StagesSay(i))
    BY <2>2, <2>3, StageIs DEF U
  <2>5. line[i] = Stage(before, Rungs[i])
    BY <1>11 DEF before, l
  <2>6. i \in 0 .. n /\ i # 0
    BY <1>1
  <2>7. Good(i)
    BY <2>4, <2>5, <2>6 DEF N
  <2> HIDE DEF Good
  <2> QED BY <2>6, <2>7
<1>14. P = 0 .. n
  <2>1. P \in SUBSET (0 .. n)
    OBVIOUS
  <2> HIDE DEF P
  <2> QED BY <1>1, <1>12, <1>13, <2>1, CountingUp
<1>15. \A i \in 0 .. n : Good(i)
  <2> HIDE DEF Good
  <2> QED BY <1>14
<1> QED BY <1>10, <1>11, <1>15 DEF line, first, n, N

\* How wide the line of the stages is, and where a stage begins.
LEMMA StagesFit ==
  ASSUME asked \in Reports, glyphs \in Glyphs
  PROVE  LET line == StageLines(Rungs)
             n == Len(Rungs)
         IN /\ \A i \in 0 .. n : line[i].width \in Nat /\ line[i].width <= 14 * i + 4
            /\ n > 0 => line[n].width <= 56
            /\ \A i \in 1 .. n :
                 /\ StageAt(Rungs, i) \in 5 .. 47 /\ line[i - 1].width <= 42
                 /\ Stands(line[n], Piece("ladder", Rungs[i].name, "stage"), StageAt(Rungs, i))
                 /\ ~IsBlank(line[i])
            /\ \A i \in 1 .. n : i + 1 \in 1 .. n /\ Rungs[i].ms > 0 =>
                 StageAt(Rungs, i + 1) >= StageAt(Rungs, i) + 9
            /\ \A i \in 1 .. n : i + 1 \in 1 .. n =>
                 StageAt(Rungs, i + 1) >= StageAt(Rungs, i)
<1> DEFINE n == Len(Rungs)
           line == StageLines(Rungs)
           At(i) == StageAt(Rungs, i)
           Before(i) == BeforeStage(i, line[i - 1])
           name(i) == Piece("ladder", Rungs[i].name, "stage")
           mark(i) == MarkFor(Rungs[i].outcome)
           size(i) == Rungs[i].size
           connector == glyphs.connector
<1>1. n \in Nat /\ n <= 4
  BY RungsAre
<1>2. connector \in Nat /\ connector >= 1 /\ connector <= 2
  BY GlyphIs
<1>3. \A i \in 1 .. n : /\ mark(i) \in Nat /\ mark(i) >= 1 /\ mark(i) <= 2
                        /\ size(i) \in Nat /\ size(i) >= 3 /\ size(i) <= 7
                        /\ Rungs[i].ms > 0 => mark(i) + connector >= 3
  BY RungsAre, MarksAre, GlyphIs
<1>4. /\ line[0] = PadTo(NewLine, LABEL_COL)
      /\ \A i \in 1 .. n : line[i] = Stage(Before(i), Rungs[i])
      /\ \A i \in 0 .. n : /\ Ended(line[i], StageNames, StagesSay(i))
                           /\ i = 0 => Spaced(line[i], StageNames, StagesSay(i))
  BY StageLinesAre
<1>5. line[0].width = 4
  BY <1>4, Margins
<1> HIDE DEF line, n
<1>6. ASSUME NEW i \in 1 .. n
      PROVE  /\ line[i].width = Before(i).width + size(i) + 1 + mark(i)
             /\ Before(i).width = line[i - 1].width + IF i = 1 THEN 0 ELSE 2 + connector
             /\ Grows(line[i - 1], line[i]) /\ Stands(line[i], name(i), At(i))
             /\ At(i) = Before(i).width + 1
  <2>1. i - 1 \in 0 .. n
    BY <1>1
  <2> DEFINE U == StagesSay(i - 1)
  <2>2. Ended(line[i - 1], StageNames, U) /\ (i = 1 => Spaced(line[i - 1], StageNames, U))
    <3>1. i = 1 => i - 1 = 0
      OBVIOUS
    <3> QED BY <1>4, <2>1, <3>1
  <2> HIDE DEF U
  <2>3. /\ Spaced(Before(i), StageNames, U) /\ Grows(line[i - 1], Before(i))
        /\ Before(i).width = line[i - 1].width + IF i = 1 THEN 0 ELSE 2 + connector
    BY <1>6, <2>2, BeforeStageIs DEF n
  <2>4. At(i) = Before(i).width + 1
    BY DEF StageAt, line
  <2> DEFINE before == Before(i)
             stage == Stage(before, Rungs[i])
  <2>0. Spaced(before, StageNames, StagesSay(i - 1))
    BY <2>3 DEF U
  <2> HIDE DEF before
  <2>5. /\ Grows(before, stage)
        /\ stage.width = before.width + size(i) + 1 + mark(i)
        /\ Stands(stage, name(i), before.width + 1)
    BY <1>6, <2>0, StageIs DEF n
  <2>6. line[i] = stage
    BY <1>4 DEF before
  <2> HIDE DEF stage
  <2>7. Grows(line[i - 1], stage)
    BY <2>3, <2>5, GrowsOn DEF before
  <2> QED BY <2>3, <2>4, <2>5, <2>6, <2>7 DEF before
<1>7. \A i \in 0 .. n : line[i].width \in Nat
  BY <1>4, EndedIs DEF Ended
<1>8. ASSUME NEW i \in 1 .. n
      PROVE  /\ i - 1 \in 0 .. n /\ i \in 0 .. n /\ i \in Nat
             /\ line[i].width \in Nat /\ line[i - 1].width \in Nat
             /\ (i = 1 => Before(i).width = line[i - 1].width)
             /\ (i # 1 => Before(i).width = line[i - 1].width + 2 + connector)
             /\ Before(i).width \in Nat
             /\ line[i].width = Before(i).width + size(i) + 1 + mark(i)
             /\ At(i) = Before(i).width + 1
  <2>1. i - 1 \in 0 .. n /\ i \in 0 .. n /\ i \in Nat
    BY <1>1
  <2>2. line[i].width \in Nat /\ line[i - 1].width \in Nat
    BY <1>7, <2>1
  <2> HIDE DEF Before, At, size, mark, connector
  <2> QED BY <1>2, <1>6, <2>1, <2>2
<1> HIDE DEF Before, At, size, mark, connector, name
<1> DEFINE P == {i \in 0 .. n : /\ i = 0 => line[i].width = 4
                                /\ i > 0 => line[i].width <= 14 * i}
<1>9. 0 \in P
  BY <1>1, <1>5
<1>10. ASSUME NEW i \in 1 .. n, i - 1 \in P PROVE i \in P
  <2>1. line[i].width <= 14 * i
    <3>1. CASE i = 1
      BY <1>2, <1>3, <1>5, <1>8, <3>1
    <3>2. CASE i # 1
      <4>1. line[i - 1].width <= 14 * (i - 1)
        BY <1>8, <1>10, <3>2
      <4> QED BY <1>2, <1>3, <1>8, <3>2, <4>1
    <3> QED BY <3>1, <3>2
  <2>2. i \in 0 .. n /\ i > 0
    BY <1>1
  <2> QED BY <2>1, <2>2
<1>11. P = 0 .. n
  <2>1. P \in SUBSET (0 .. n)
    OBVIOUS
  <2> HIDE DEF P
  <2> QED BY <1>1, <1>9, <1>10, <2>1, CountingUp
<1>12. \A i \in 0 .. n : (i = 0 => line[i].width = 4) /\ (i > 0 => line[i].width <= 14 * i)
  BY <1>11
<1>13. \A i \in 0 .. n : line[i].width <= 14 * i + 4
  BY <1>1, <1>7, <1>12
<1>14. n > 0 => line[n].width <= 56
  <2>1. n \in 0 .. n
    BY <1>1
  <2> QED BY <1>1, <1>7, <1>12, <2>1
<1>15. ASSUME NEW i \in 1 .. n
       PROVE  At(i) \in Nat /\ 5 <= At(i) /\ At(i) <= 47 /\ line[i - 1].width <= 42
              /\ line[i - 1].width >= 4
  <2>1. CASE i = 1
    BY <1>5, <1>8, <2>1
  <2>2. CASE i # 1
    <3>1. line[i - 1].width <= 14 * (i - 1) /\ i <= 4
      BY <1>1, <1>8, <1>12, <2>2
    <3>2. line[i - 1].width >= 4
      <4>1. i - 1 \in 1 .. n
        BY <1>1, <2>2
      <4>2. line[i - 1].width = Before(i - 1).width + size(i - 1) + 1 + mark(i - 1)
            /\ Before(i - 1).width \in Nat
        BY <1>8, <4>1
      <4> QED BY <1>3, <4>1, <4>2
    <3> QED BY <1>2, <1>8, <2>2, <3>1, <3>2
  <2> QED BY <2>1, <2>2
<1> DEFINE Q == {i \in 0 .. n : \A k \in 1 .. i : Stands(line[i], name(k), At(k))}
<1>16. 0 \in Q
  BY <1>1
<1>17. ASSUME NEW i \in 1 .. n, i - 1 \in Q PROVE i \in Q
  <2>1. ASSUME NEW k \in 1 .. i PROVE Stands(line[i], name(k), At(k))
    <3>1. CASE k = i
      BY <1>6, <3>1 DEF At, name, Before
    <3>2. CASE k # i
      <4>1. k \in 1 .. i - 1
        BY <1>1, <3>2
      <4>2. Stands(line[i - 1], name(k), At(k))
        BY <1>17, <4>1
      <4>3. Grows(line[i - 1], line[i])
        BY <1>6
      <4> QED BY <4>2, <4>3, GrowsOn
    <3> QED BY <3>1, <3>2
  <2>2. i \in 0 .. n
    BY <1>1
  <2> QED BY <2>1, <2>2
<1>18. Q = 0 .. n
  <2>1. Q \in SUBSET (0 .. n)
    OBVIOUS
  <2> HIDE DEF Q
  <2> QED BY <1>1, <1>16, <1>17, <2>1, CountingUp
<1>19. \A i \in 0 .. n : \A k \in 1 .. i : Stands(line[i], name(k), At(k))
  BY <1>18
<1>20. \A i \in 1 .. n : Stands(line[n], name(i), At(i))
  <2>1. n \in 0 .. n
    BY <1>1
  <2> QED BY <1>19, <2>1
<1>21. ASSUME NEW i \in 1 .. n PROVE ~IsBlank(line[i])
  <2>1. i \in 0 .. n /\ i \in 1 .. i
    BY <1>1
  <2>2. Stands(line[i], name(i), At(i))
    BY <1>19, <2>1
  <2>3. Len(<<>>) = 0
    OBVIOUS
  <2> QED BY <2>2, <2>3 DEF Stands, IsBlank
<1>22. ASSUME NEW i \in 1 .. n, i + 1 \in 1 .. n
       PROVE  /\ At(i + 1) = At(i) + size(i) + mark(i) + connector + 3
  <2>1. i + 1 # 1 /\ (i + 1) - 1 = i
    OBVIOUS
  <2>2. Before(i + 1).width = line[i].width + 2 + connector /\ At(i + 1) = Before(i + 1).width + 1
    BY <1>8, <1>22, <2>1
  <2> QED BY <1>2, <1>3, <1>8, <2>2
<1>23. ASSUME NEW i \in 1 .. n, i + 1 \in 1 .. n
       PROVE  At(i + 1) >= At(i) /\ (Rungs[i].ms > 0 => At(i + 1) >= At(i) + 9)
  <2>1. At(i) \in Nat
    BY <1>15
  <2> QED BY <1>2, <1>3, <1>22, <1>23, <2>1
<1> HIDE DEF P, Q
<1>24. \A i \in 1 .. n : At(i) \in 5 .. 47 /\ line[i - 1].width <= 42
  BY <1>15
<1> QED BY <1>7, <1>13, <1>14, <1>20, <1>21, <1>23, <1>24 DEF line, n, At, name

\* A time after the ones before it, under its stage.
UnderStages(line) ==
  \A m \in 1 .. Len(line.spans) : \E k \in 1 .. Len(Rungs) :
    /\ line.spans[m].what = Piece("ladder", Rungs[k].name, "timing")
    /\ line.spans[m].from = StageAt(Rungs, k)

\* What the times of the first stages say.
TimeSays(i) == Saying(Piece("ladder", Rungs[i].name, "timing"), Rungs[i].ms)
TimesSay(i) == UNION {TimeSays(k) : k \in 1 .. i}

\* A time adds what it says, and none before it said that.
LEMMA TimesSayOn ==
  ASSUME asked \in Reports
  PROVE  /\ TimesSay(0) = {}
         /\ \A i \in 1 .. Len(Rungs) :
              /\ TimesSay(i) = TimesSay(i - 1) \cup TimeSays(i)
              /\ Unsaid(Piece("ladder", Rungs[i].name, "timing"), TimesSay(i - 1))
<1>1. TimesSay(0) = {}
  <2>1. 1 .. 0 = {}
    OBVIOUS
  <2> QED BY <2>1 DEF TimesSay
<1>2. Len(Rungs) \in Nat
  BY RungsAre
<1>3. ASSUME NEW i \in 1 .. Len(Rungs)
      PROVE  TimesSay(i) = TimesSay(i - 1) \cup TimeSays(i)
  <2>1. \A k \in 1 .. i : k = i \/ k \in 1 .. i - 1
    BY <1>2
  <2>2. i \in 1 .. i /\ \A k \in 1 .. i - 1 : k \in 1 .. i
    BY <1>2
  <2> QED BY <2>1, <2>2 DEF TimesSay
<1>4. ASSUME NEW i \in 1 .. Len(Rungs), NEW w \in TimesSay(i - 1)
      PROVE  w[1] # Piece("ladder", Rungs[i].name, "timing")
  <2>1. PICK k \in 1 .. i - 1 : w \in TimeSays(k)
    BY DEF TimesSay
  <2>2. w[1] = Piece("ladder", Rungs[k].name, "timing")
    BY <2>1 DEF TimeSays, Saying
  <2>3. k \in 1 .. Len(Rungs) /\ k # i
    BY <1>2
  <2>4. Rungs[k].name # Rungs[i].name
    BY <2>3, RungsAre
  <2> QED BY <2>2, <2>4 DEF Piece
<1> QED BY <1>1, <1>3, <1>4 DEF Unsaid

\* A time stands where its stage does.
LEMMA TimeIs ==
  ASSUME asked \in Reports, glyphs \in Glyphs, NEW i \in 1 .. Len(Rungs), NEW line,
         Ended(line, TimeNames, TimesSay(i - 1)), UnderStages(line),
         line.width + 2 <= StageAt(Rungs, i), Rungs[i].ms > 0
  PROVE  LET timed == Push(PadTo(line, StageAt(Rungs, i)),
                           Piece("ladder", Rungs[i].name, "timing"), Rungs[i].ms)
         IN /\ Ended(timed, TimeNames, TimesSay(i)) /\ UnderStages(timed)
            /\ timed.width = StageAt(Rungs, i) - 1 + Rungs[i].ms
<1> DEFINE N == TimeNames
           what == Piece("ladder", Rungs[i].name, "timing")
           column == StageAt(Rungs, i)
           size == Rungs[i].ms
           last == line.width
           padded == PadTo(line, column)
           timed == Push(padded, what, size)
           V == TimesSay(i - 1)
<1>1. size \in Nat /\ size \in Nat \ {0}
  <2>1. size \in 0 .. 8 /\ size > 0
    BY RungsAre
  <2> HIDE DEF size
  <2> QED BY <2>1
<1>2. column \in Nat /\ column >= 5
  <2>1. column \in 5 .. 47
    BY StagesFit
  <2> HIDE DEF column
  <2> QED BY <2>1
<1>13. TimesSay(i) = V \cup Saying(what, size) /\ Unsaid(what, V)
  BY TimesSayOn DEF TimeSays
<1>3. N \in SUBSET Names /\ what \in N
  <2>1. what \in N
    BY LadderPieces
  <2> QED BY <2>1, LadderNamesAre
<1>4. last \in Nat /\ line \in LinesOf(N) /\ last + 2 <= column
  BY EndedIs DEF Ended
<1>5. Neat(line, last, N, V)
  BY DEF Ended
<1>6. \A m \in 1 .. Len(line.spans) : \E k \in 1 .. Len(Rungs) :
        /\ line.spans[m].what = Piece("ladder", Rungs[k].name, "timing")
        /\ line.spans[m].from = StageAt(Rungs, k)
  BY DEF UnderStages
<1>20. column \in Nat
  BY <1>2
<1>21. size \in Nat
  BY <1>1
<1> HIDE DEF last, V, N, column, size, what
<1>7. /\ Neat(padded, last, N, V) /\ padded.spans = line.spans
      /\ padded.width = IF line.width >= column - 1 THEN line.width ELSE column - 1
  <2>1. Neat(padded, last, N, V)
    BY <1>5, <1>20, PadNeat
  <2>2. padded.spans = line.spans
    BY <1>5, <1>20, PadNeat
  <2>3. padded.width = IF line.width >= column - 1 THEN line.width ELSE column - 1
    BY <1>5, <1>20, PadNeat
  <2> QED BY <2>1, <2>2, <2>3
<1>8. padded.width = column - 1
  BY <1>2, <1>4, <1>7 DEF last
<1>9. Room(padded, last, what, size)
  <2>2. what.part # "annotation"
    BY DEF what, Piece
  <2>3. padded.width >= last + 1
    BY <1>2, <1>4, <1>8
  <2> QED BY <2>2, <2>3 DEF Room
<1>10. Neat(padded, last, N, V)
  BY <1>7
<1> HIDE DEF padded
<1>11. what \in ReportMarks \cup N
  BY <1>3
<1>12. Neat(timed, timed.width, N, V \cup Saying(what, size)) /\ timed.width = padded.width + size
  <2>1. N \in SUBSET Names
    BY <1>3
  <2>2. Neat(padded, last, N, V)
    BY <1>10
  <2>3. what \in ReportMarks \cup N
    BY <1>11
  <2>4. Room(padded, last, what, size)
    BY <1>9
  <2>5. Unsaid(what, V)
    BY <1>13
  <2>6. size \in Nat
    BY <1>21
  <2> QED BY <2>1, <2>2, <2>3, <2>4, <2>5, <2>6, PushNeat
<1>14. Ended(timed, N, TimesSay(i))
  BY <1>12, <1>13 DEF Ended
<1>15. padded \in LinesOf(N)
  BY <1>10 DEF Neat
<1>16. LET n == Len(padded.spans) IN
       /\ Len(timed.spans) = n + 1 /\ n \in Nat
       /\ \A k \in 1 .. n : timed.spans[k] = padded.spans[k]
       /\ timed.spans[n + 1].what = what /\ timed.spans[n + 1].from = padded.width + 1
  <2> DEFINE n == Len(padded.spans)
  <2>1. n \in Nat
    BY <1>15, SpansOfNeat
  <2>2. /\ Len(timed.spans) = n + 1
        /\ \A k \in 1 .. n : timed.spans[k] = padded.spans[k]
        /\ timed.spans[n + 1].what = what /\ timed.spans[n + 1].from = padded.width + 1
    BY <1>1, <1>11, <1>15, PushIs
  <2> QED BY <2>1, <2>2
<1> HIDE DEF timed
<1>17. ASSUME NEW m \in 1 .. Len(timed.spans)
       PROVE  \E k \in 1 .. Len(Rungs) :
                /\ timed.spans[m].what = Piece("ladder", Rungs[k].name, "timing")
                /\ timed.spans[m].from = StageAt(Rungs, k)
  <2> DEFINE n == Len(padded.spans)
  <2>1. CASE m = n + 1
    <3>1. timed.spans[m].what = what /\ timed.spans[m].from = column
      BY <1>2, <1>8, <1>16, <2>1
    <3> QED BY <3>1 DEF what, column
  <2>2. CASE m # n + 1
    <3>1. m \in 1 .. n
      BY <1>16, <2>2
    <3>2. timed.spans[m] = line.spans[m] /\ m \in 1 .. Len(line.spans)
      BY <1>7, <1>16, <3>1
    <3> QED BY <1>6, <3>2
  <2> QED BY <2>1, <2>2
<1>18. UnderStages(timed)
  BY <1>17 DEF UnderStages
<1> QED BY <1>8, <1>12, <1>14, <1>18 DEF timed, padded, N, column, size, what

\* The line of the times is made stage by stage.
LEMMA TimeLinesAre ==
  ASSUME asked \in Reports, glyphs \in Glyphs
  PROVE  LET line == TimeLines(Rungs)
             n == Len(Rungs)
         IN /\ line[0] = NewLine
            /\ \A i \in 1 .. n :
                 line[i] = IF Rungs[i].ms = 0 THEN line[i - 1]
                           ELSE Push(PadTo(line[i - 1], StageAt(Rungs, i)),
                                     Piece("ladder", Rungs[i].name, "timing"), Rungs[i].ms)
<1> DEFINE n == Len(Rungs)
           N == TimeNames
           S == LinesOf(N)
           Longer(i, l) == IF Rungs[i].ms = 0 THEN l
                           ELSE Push(PadTo(l, StageAt(Rungs, i)),
                                     Piece("ladder", Rungs[i].name, "timing"), Rungs[i].ms)
           step == [i \in 1 .. n |-> [l \in S |-> Longer(i, l)]]
           line == TimeLines(Rungs)
<1>1. n \in Nat
  BY RungsAre
<1>2. NewLine \in S
  <2>1. Neat(NewLine, 0, N, {})
    BY NothingNeat
  <2> QED BY <2>1 DEF Neat
<1>3. ASSUME NEW i \in 1 .. n, NEW l \in S PROVE Longer(i, l) \in S
  <2>1. CASE Rungs[i].ms = 0
    BY <2>1
  <2>2. CASE Rungs[i].ms # 0
    <3> DEFINE column == StageAt(Rungs, i)
               what == Piece("ladder", Rungs[i].name, "timing")
               size == Rungs[i].ms
               padded == PadTo(l, column)
    <3>1. size \in Nat \ {0} /\ column \in Nat
      <4>1. size \in 0 .. 8 /\ column \in 5 .. 47
        BY RungsAre, StagesFit
      <4> HIDE DEF size, column
      <4>2. size # 0
        BY <2>2 DEF size
      <4> QED BY <4>1, <4>2
    <3>2. what \in ReportMarks \cup N
      BY LadderPieces
    <3> HIDE DEF column, size, what
    <3>3. padded \in S
      <4> DEFINE width == Max({l.width, column - 1})
      <4>1. l.width \in Nat /\ column - 1 \in Int /\ l.width \in Int
        BY <3>1, SpansOfNeat
      <4>2. width = IF l.width >= column - 1 THEN l.width ELSE column - 1
        BY <4>1, MaxOfTwo
      <4>3. width \in Nat
        BY <4>1, <4>2
      <4>4. padded = [l EXCEPT !.width = width]
        BY DEF PadTo
      <4> HIDE DEF width
      <4> QED BY <4>3, <4>4 DEF LinesOf
    <3> HIDE DEF padded
    <3>4. Push(padded, what, size) \in S
      BY <3>1, <3>2, <3>3, PushIs
    <3>5. Longer(i, l) = Push(padded, what, size)
      BY <2>2 DEF padded, what, size, column
    <3> HIDE DEF Longer
    <3> QED BY <3>4, <3>5
  <2> QED BY <2>1, <2>2
<1> HIDE DEF S, n, Longer
<1>4. step \in Steps(S, n)
  BY <1>3 DEF Steps
<1>5. \A i \in 1 .. n : \A l \in S : step[i][l] = Longer(i, l)
  OBVIOUS
<1> HIDE DEF step
<1> DEFINE first == NewLine
<1>0. first \in S
  BY <1>2
<1> HIDE DEF first
<1>6. PICK f : Taken(f, S, first, n, step)
  BY <1>0, <1>1, <1>4, CountingExists
<1>7. f \in [0 .. n -> S] /\ f[0] = first /\ \A i \in 1 .. n : f[i] = Longer(i, f[i - 1])
  <2>1. f \in [0 .. n -> S] /\ f[0] = first /\ \A i \in 1 .. n : f[i] = step[i][f[i - 1]]
    BY <1>6 DEF Taken
  <2>2. \A i \in 1 .. n : f[i - 1] \in S
    BY <1>1, <2>1
  <2> QED BY <1>5, <2>1, <2>2
<1>8. f = [i \in 0 .. n |-> IF i = 0 THEN first ELSE Longer(i, f[i - 1])]
  <2> DEFINE g == [i \in 0 .. n |-> IF i = 0 THEN first ELSE Longer(i, f[i - 1])]
  <2>1. \A i \in 0 .. n : i = 0 \/ i \in 1 .. n
    BY <1>1
  <2>2. \A i \in 0 .. n : g[i] = f[i]
    BY <1>7, <2>1
  <2> QED BY <1>7, <2>2
<1>9. line = [i \in 0 .. n |-> IF i = 0 THEN first ELSE Longer(i, line[i - 1])]
  BY <1>8 DEF TimeLines, n, first, Longer
<1> HIDE DEF line
<1>10. line[0] = first
  BY <1>1, <1>9
<1>11. ASSUME NEW i \in 1 .. n PROVE line[i] = Longer(i, line[i - 1])
  <2>1. i \in 0 .. n /\ i # 0
    BY <1>1
  <2> QED BY <1>9, <2>1
<1> QED BY <1>10, <1>11 DEF line, first, n, Longer

\* It fits every terminal that is not narrow.
LEMMA TimesFit ==
  ASSUME asked \in Reports, glyphs \in Glyphs
  PROVE  LET line == TimeLines(Rungs)[Len(Rungs)] IN
         Ended(line, TimeNames, TimesSay(Len(Rungs))) /\ UnderStages(line) /\ line.width <= 54
<1> DEFINE n == Len(Rungs)
           line == TimeLines(Rungs)
           At(i) == StageAt(Rungs, i)
           Sound(i) == /\ Ended(line[i], TimeNames, TimesSay(i)) /\ UnderStages(line[i])
                       /\ line[i].width <= 54
                       /\ i + 1 \in 1 .. n => line[i].width + 2 <= At(i + 1)
           P == {i \in 0 .. n : Sound(i)}
<1>1. n \in Nat
  BY RungsAre
<1>2. /\ line[0] = NewLine
      /\ \A i \in 1 .. n :
           line[i] = IF Rungs[i].ms = 0 THEN line[i - 1]
                     ELSE Push(PadTo(line[i - 1], At(i)),
                               Piece("ladder", Rungs[i].name, "timing"), Rungs[i].ms)
  BY TimeLinesAre
<1>3. /\ \A i \in 1 .. n : At(i) \in 5 .. 47
      /\ \A i \in 1 .. n : i + 1 \in 1 .. n /\ Rungs[i].ms > 0 => At(i + 1) >= At(i) + 9
      /\ \A i \in 1 .. n : i + 1 \in 1 .. n => At(i + 1) >= At(i)
  BY StagesFit
<1>4. \A i \in 1 .. n : Rungs[i].ms \in 0 .. 8
  BY RungsAre
<1> HIDE DEF line, n, At
<1>5. 0 \in P
  <2>1. Neat(NewLine, 0, TimeNames, {}) /\ NewLine.width = 0 /\ Len(NewLine.spans) = 0
    BY NothingNeat DEF NewLine
  <2>2. Ended(NewLine, TimeNames, TimesSay(0))
    <3>1. TimesSay(0) = {}
      BY TimesSayOn
    <3> QED BY <2>1, <3>1, EndedIs
  <2>3. UnderStages(NewLine)
    BY <2>1 DEF UnderStages
  <2>5. NewLine.width <= 54 /\ (0 + 1 \in 1 .. n => NewLine.width + 2 <= At(0 + 1))
    <3> DEFINE one == 0 + 1
               width == NewLine.width
    <3>0. width = 0
      BY <2>1
    <3> HIDE DEF one, width
    <3>1. one \in 1 .. n => At(one) \in 5 .. 47
      BY <1>3
    <3>2. width <= 54 /\ (one \in 1 .. n => width + 2 <= At(one))
      BY <3>0, <3>1
    <3> QED BY <3>2 DEF one, width
  <2>6. Sound(0)
    BY <1>2, <2>2, <2>3, <2>5
  <2> HIDE DEF Sound
  <2> QED BY <1>1, <2>6
<1>6. ASSUME NEW i \in 1 .. n, i - 1 \in P PROVE i \in P
  <2>1. /\ Ended(line[i - 1], TimeNames, TimesSay(i - 1)) /\ UnderStages(line[i - 1])
        /\ line[i - 1].width <= 54
    BY <1>6
  <2>2. line[i - 1].width + 2 <= At(i)
    <3>1. (i - 1) + 1 = i
      BY <1>1
    <3>2. (i - 1) + 1 \in 1 .. n => line[i - 1].width + 2 <= At((i - 1) + 1)
      BY <1>6
    <3> QED BY <3>1, <3>2
  <2>3. line[i - 1].width \in Nat
    BY <2>1, EndedIs DEF Ended
  <2>4. At(i) \in Nat /\ At(i) <= 47 /\ Rungs[i].ms \in Nat /\ Rungs[i].ms <= 8
    BY <1>3, <1>4
  <2>5. i + 1 \in 1 .. n => At(i + 1) \in Nat
    BY <1>3
  <2>6. CASE Rungs[i].ms = 0
    <3>1. line[i] = line[i - 1]
      BY <1>2, <2>6
    <3>2. i + 1 \in 1 .. n => line[i].width + 2 <= At(i + 1)
      BY <1>3, <2>2, <2>3, <2>4, <2>5, <3>1
    <3>3. TimesSay(i) = TimesSay(i - 1)
      <4>1. TimesSay(i) = TimesSay(i - 1) \cup TimeSays(i)
        BY <1>6, TimesSayOn DEF n
      <4>2. TimeSays(i) = {}
        BY <2>6 DEF TimeSays, Saying
      <4> QED BY <4>1, <4>2
    <3>4. Sound(i)
      BY <2>1, <3>1, <3>2, <3>3
    <3> HIDE DEF Sound
    <3> QED BY <1>1, <3>4
  <2>7. CASE Rungs[i].ms # 0
    <3>1. Rungs[i].ms > 0
      BY <2>4, <2>7
    <3>2. line[i] = Push(PadTo(line[i - 1], At(i)),
                         Piece("ladder", Rungs[i].name, "timing"), Rungs[i].ms)
      BY <1>2, <2>7
    <3>3. /\ Ended(line[i], TimeNames, TimesSay(i)) /\ UnderStages(line[i])
          /\ line[i].width = At(i) - 1 + Rungs[i].ms
      BY <1>6, <2>1, <2>2, <3>1, <3>2, TimeIs DEF At, n
    <3>4. i + 1 \in 1 .. n => line[i].width + 2 <= At(i + 1)
      BY <1>3, <2>4, <2>5, <3>1, <3>3
    <3>5. line[i].width <= 54
      BY <2>4, <3>3
    <3>6. Sound(i)
      BY <3>3, <3>4, <3>5
    <3> HIDE DEF Sound
    <3> QED BY <1>1, <3>6
  <2> QED BY <2>6, <2>7
<1>7. P = 0 .. n
  <2>1. P \in SUBSET (0 .. n)
    OBVIOUS
  <2> HIDE DEF P
  <2> QED BY <1>1, <1>5, <1>6, <2>1, CountingUp
<1>8. n \in P
  BY <1>1, <1>7
<1> QED BY <1>8 DEF line, n

\* On a narrow terminal the stages would be wrapped, but they fit.
LEMMA NarrowLinesAre ==
  ASSUME terminal \in Terminals, asked \in Reports, glyphs \in Glyphs
  PROVE  \A i \in 0 .. Len(Rungs) :
           NarrowLines(Rungs)[i] = [lines |-> <<>>, line |-> StageLines(Rungs)[i]]
<1> DEFINE n == Len(Rungs)
           stages == StageLines(Rungs)
           acc == NarrowLines(Rungs)
           first == [lines |-> <<>>, line |-> PadTo(NewLine, LABEL_COL)]
           As(i) == [lines |-> <<>>, line |-> stages[i]]
           f == [i \in 0 .. n |-> As(i)]
           size(i) == Rungs[i].size + 1 + MarkFor(Rungs[i].outcome)
<1>1. n \in Nat
  BY RungsAre
<1>2. /\ stages[0] = PadTo(NewLine, LABEL_COL)
      /\ \A i \in 1 .. n : stages[i] = Stage(BeforeStage(i, stages[i - 1]), Rungs[i])
  BY StageLinesAre
<1>3. \A i \in 0 .. n : stages[i].width \in Nat
  BY StagesFit
<1>4. \A i \in 1 .. n : stages[i - 1].width <= 42
  BY StagesFit
<1>5. \A i \in 1 .. n : size(i) \in Nat /\ size(i) <= 10
  <2>1. ASSUME NEW i \in 1 .. n PROVE size(i) \in Nat /\ size(i) <= 10
    <3> DEFINE a == Rungs[i].size
               b == MarkFor(Rungs[i].outcome)
    <3>1. a \in 3 .. 7 /\ b \in 1 .. 2
      BY RungsAre, MarksAre
    <3> HIDE DEF a, b
    <3>2. a + 1 + b \in Nat /\ a + 1 + b <= 10
      BY <3>1
    <3> QED BY <3>2 DEF a, b
  <2> QED BY <2>1
<1>6. Edge \in 62 .. 96
  BY RoomIs
<1> HIDE DEF n, stages, size
<1>7. ASSUME NEW i \in 1 .. n PROVE Wrapped(As(i - 1), i, Rungs[i]) = As(i)
  <2>1. i - 1 \in 0 .. n
    BY <1>1
  <2> DEFINE this == As(i - 1)
             next == Stage(BeforeStage(i, stages[i - 1]), Rungs[i])
             edge == Edge
             width == stages[i - 1].width
             more == size(i)
  <2>2. this.line = stages[i - 1] /\ this.line.width = width
    OBVIOUS
  <2>3. width \in Nat /\ width <= 42 /\ more \in Nat /\ more <= 10 /\ edge \in 62 .. 96
    BY <1>3, <1>4, <1>5, <1>6, <2>1
  <2>4. [this EXCEPT !.line = next] = [lines |-> <<>>, line |-> next]
    OBVIOUS
  <2>5. next = stages[i]
    BY <1>2
  <2> HIDE DEF next, edge, width, more
  <2>6. ~(width + more + 3 > edge)
    BY <2>3
  <2>7. [this EXCEPT !.line = Stage(BeforeStage(i, @), Rungs[i])] = [this EXCEPT !.line = next]
    BY <2>2 DEF next
  <2> HIDE DEF this
  <2>8. Wrapped(this, i, Rungs[i]) = [this EXCEPT !.line = Stage(BeforeStage(i, @), Rungs[i])]
    BY <2>2, <2>6 DEF Wrapped, size, more, edge
  <2> QED BY <2>4, <2>5, <2>7, <2>8 DEF this
<1>8. f[0] = first
  BY <1>1, <1>2
<1>9. f = [i \in 0 .. n |-> IF i = 0 THEN first ELSE Wrapped(f[i - 1], i, Rungs[i])]
  <2> DEFINE g == [i \in 0 .. n |-> IF i = 0 THEN first ELSE Wrapped(f[i - 1], i, Rungs[i])]
  <2>1. ASSUME NEW i \in 0 .. n PROVE g[i] = f[i]
    <3>1. CASE i = 0
      BY <1>8, <3>1
    <3>2. CASE i # 0
      <4>1. i \in 1 .. n /\ i - 1 \in 0 .. n
        BY <1>1, <3>2
      <4>2. f[i - 1] = As(i - 1) /\ f[i] = As(i)
        BY <4>1
      <4>3. Wrapped(f[i - 1], i, Rungs[i]) = f[i]
        BY <1>7, <4>1, <4>2
      <4> HIDE DEF f
      <4> QED BY <3>2, <4>3
    <3> QED BY <3>1, <3>2
  <2>2. f = [i \in 0 .. n |-> f[i]] /\ g = [i \in 0 .. n |-> g[i]]
    OBVIOUS
  <2> HIDE DEF f, g
  <2>3. f = g
    BY <2>1, <2>2
  <2> QED BY <2>3 DEF g
<1> HIDE DEF f, first
<1>10. acc = [i \in 0 .. n |-> IF i = 0 THEN first ELSE Wrapped(acc[i - 1], i, Rungs[i])]
  BY <1>9 DEF NarrowLines, n, first
<1> HIDE DEF acc
<1> DEFINE P == {i \in 0 .. n : acc[i] = As(i)}
<1>11. acc[0] = As(0)
  BY <1>1, <1>2, <1>10 DEF first
<1>12. ASSUME NEW i \in 1 .. n, acc[i - 1] = As(i - 1) PROVE acc[i] = As(i)
  <2>1. i \in 0 .. n /\ i # 0
    BY <1>1
  <2>2. acc[i] = Wrapped(acc[i - 1], i, Rungs[i])
    BY <1>10, <2>1
  <2> HIDE DEF As
  <2> QED BY <1>7, <1>12, <2>2
<1> HIDE DEF As
<1>13. 0 \in P
  BY <1>1, <1>11
<1>14. ASSUME NEW i \in 1 .. n, i - 1 \in P PROVE i \in P
  <2>1. acc[i] = As(i)
    BY <1>12, <1>14
  <2>2. i \in 0 .. n
    BY <1>1
  <2> QED BY <2>1, <2>2
<1>15. P = 0 .. n
  <2>1. P \in SUBSET (0 .. n)
    OBVIOUS
  <2> HIDE DEF P
  <2> QED BY <1>1, <1>13, <1>14, <2>1, CountingUp
<1>16. \A i \in 0 .. n : acc[i] = As(i)
  BY <1>15
<1> QED BY <1>16 DEF acc, As, stages, n

\* Lines without a piece of a title.
Untitled(lines) ==
  \A i \in 1 .. Len(lines) : \A k \in 1 .. Len(lines[i].spans) :
    IsName(lines[i].spans[k].what) => lines[i].spans[k].what.row # "title"

\* Lines that say nothing have none.
LEMMA QuietIsUntitled == ASSUME NEW a, Quiet(a) PROVE Untitled(a)
BY DEF Quiet, Calm, Untitled

\* Nor have two of them.
LEMMA UntitledJoined ==
  ASSUME NEW S, NEW a \in Seq(S), NEW b \in Seq(S), Untitled(a), Untitled(b)
  PROVE  Untitled(a \o b)
<1> DEFINE c == a \o b
<1>2. \A i \in 1 .. Len(c) : \/ i \in 1 .. Len(a) /\ c[i] = a[i]
                             \/ i - Len(a) \in 1 .. Len(b) /\ c[i] = b[i - Len(a)]
  BY Joined
<1> HIDE DEF c
<1>3. Untitled(c)
  <2>1. ASSUME NEW i \in 1 .. Len(c), NEW k \in 1 .. Len(c[i].spans), IsName(c[i].spans[k].what)
        PROVE  c[i].spans[k].what.row # "title"
    <3>1. CASE i \in 1 .. Len(a) /\ c[i] = a[i]
      <4>1. k \in 1 .. Len(a[i].spans) /\ IsName(a[i].spans[k].what)
        BY <2>1, <3>1
      <4> QED BY <3>1, <4>1 DEF Untitled
    <3>2. CASE i - Len(a) \in 1 .. Len(b) /\ c[i] = b[i - Len(a)]
      <4> DEFINE j == i - Len(a)
      <4>1. j \in 1 .. Len(b) /\ c[i] = b[j]
        BY <3>2
      <4> HIDE DEF j
      <4>2. k \in 1 .. Len(b[j].spans) /\ IsName(b[j].spans[k].what)
        BY <2>1, <4>1
      <4> QED BY <4>1, <4>2 DEF Untitled
    <3> QED BY <1>2, <2>1, <3>1, <3>2
  <2> QED BY <2>1 DEF Untitled
<1> QED BY <1>3 DEF c

\* A line that is not wider than the narrowest edge is within it.
LEMMA SlimIsWithin ==
  ASSUME terminal \in Terminals, NEW line, line.width \in Nat, line.width <= 62
  PROVE  Within(line)
<1> DEFINE edge == Edge
           width == line.width
<1>1. edge \in 62 .. 96 /\ width \in Nat /\ width <= 62
  BY RoomIs
<1> HIDE DEF edge, width
<1>2. ~(width > edge)
  BY <1>1
<1> QED BY <1>2 DEF Within, edge, width

\* The ladder: its stages, and the times under them.
LadderLines == IF Narrow THEN NarrowLadder(Rungs) ELSE Ladder(Rungs)
Timely(lines, W) == Text(lines, W) /\ Timed(lines) /\ Untitled(lines)

\* What they say: the times are left out on a narrow terminal.
RungsSay == StagesSay(Len(Rungs)) \cup (IF Narrow THEN {} ELSE TimesSay(Len(Rungs)))

\* A time is not a stage.
LEMMA TimesAreNotStages == Distinct(StagesSay(Len(Rungs)), TimesSay(Len(Rungs)))
<1>1. ASSUME NEW v \in StagesSay(Len(Rungs)) PROVE v[1].part \in {"stage", "mark"}
  <2>1. PICK k \in 1 .. Len(Rungs) : v \in StageSays(k)
    BY DEF StagesSay
  <2>2. \E part \in {"stage", "mark"} : v[1] = Piece("ladder", Rungs[k].name, part)
    BY <2>1 DEF StageSays, Saying
  <2> QED BY <2>2 DEF Piece
<1>2. ASSUME NEW w \in TimesSay(Len(Rungs)) PROVE w[1].part = "timing"
  <2>1. PICK k \in 1 .. Len(Rungs) : w \in TimeSays(k)
    BY DEF TimesSay
  <2>2. w[1] = Piece("ladder", Rungs[k].name, "timing")
    BY <2>1 DEF TimeSays, Saying
  <2> QED BY <2>2 DEF Piece
<1> QED BY <1>1, <1>2 DEF Distinct

\* The ladder, in one line with its times or in several, fits below a title.
LEMMA LadderText ==
  ASSUME terminal \in Terminals, asked \in Reports, glyphs \in Glyphs, Rungs # <<>>
  PROVE  Timely(LadderLines, RungsSay)
<1> DEFINE n == Len(Rungs)
           stages == StageLines(Rungs)[n]
           times == TimeLines(Rungs)[n]
           a == <<stages>>
           b == <<times>>
           V == StagesSay(n)
           W == TimesSay(n)
<1>1. n \in Nat /\ n >= 1 /\ n \in 1 .. n /\ n \in 0 .. n
  <2>1. n \in Nat
    BY RungsAre
  <2>2. n # 0
    <3>1. IsLadder(Rungs)
      BY ReportsAssumption DEF Rungs
    <3> HIDE DEF Rungs
    <3> QED BY <3>1, EmptySeq DEF IsLadder, IsSequence
  <2> HIDE DEF n
  <2> QED BY <2>1, <2>2
<1>2. stages.width \in Nat /\ stages.width <= 62 /\ ~IsBlank(stages)
  <2>1. n > 0 => stages.width <= 56
    BY StagesFit
  <2>2. stages.width \in Nat
    BY <1>1, StagesFit
  <2>3. ~IsBlank(stages)
    BY <1>1, StagesFit
  <2> HIDE DEF stages, n
  <2> QED BY <1>1, <2>1, <2>2, <2>3
<1>3. Ended(stages, StageNames, V)
  BY <1>1, StageLinesAre
<1>4. \A i \in 1 .. n : Stands(stages, Piece("ladder", Rungs[i].name, "stage"), StageAt(Rungs, i))
  BY StagesFit
<1>5. Ended(times, TimeNames, W) /\ UnderStages(times) /\ times.width <= 54
  BY TimesFit
<1>6. NarrowLadder(Rungs) = a
  <2>1. NarrowLines(Rungs)[n] = [lines |-> <<>>, line |-> stages]
    BY <1>1, NarrowLinesAre
  <2> HIDE DEF stages
  <2>2. NarrowLadder(Rungs) = Append(<<>>, stages)
    BY <2>1 DEF NarrowLadder, n
  <2> QED BY <2>2
<1>7. Ladder(Rungs) = a \o (IF IsBlank(times) THEN <<>> ELSE b)
  BY DEF Ladder
<1>12. Distinct(V, W)
  BY TimesAreNotStages
<1>13. RungsSay = IF Narrow THEN V ELSE V \cup W
  BY DEF RungsSay
<1> HIDE DEF stages, times, n, V, W
<1>8. Text(a, V) /\ Quiet(a)
  <2>1. Within(stages)
    BY <1>2, SlimIsWithin
  <2>2. OneBlock(StageNames) /\ \A m \in StageNames : Calm(m)
    BY LadderNamesAre
  <2> QED BY <1>2, <1>3, <2>1, <2>2, EndedText
<1>9. Timely(a, V)
  BY <1>8, QuietIsTimed, QuietIsUntitled DEF Timely
<1>10. CASE IsBlank(times)
  <2>1. a \o <<>> = a
    OBVIOUS
  <2>2. W = {}
    <3>1. LineTells(times, W)
      BY <1>5 DEF Ended, Neat
    <3>2. Len(times.spans) = 0
      BY <1>10 DEF IsBlank
    <3> QED BY <3>1, <3>2 DEF LineTells
  <2>3. RungsSay = V
    BY <1>13, <2>2
  <2> QED BY <1>6, <1>7, <1>9, <1>10, <2>1, <2>3 DEF LadderLines
<1>11. CASE ~IsBlank(times)
  <2>1. times.width \in Nat /\ times \in LinesOf(TimeNames)
    BY <1>5, EndedIs DEF Ended
  <2>2. times.width <= 62
    BY <1>5, <2>1
  <2>3. Within(times)
    BY <2>1, <2>2, SlimIsWithin
  <2>4. Text(b, W)
    BY <1>5, <1>11, <2>3, LadderNamesAre, EndedText
  <2>5. Text(a \o b, V \cup W)
    BY <1>8, <1>12, <2>4, TextJoined
  <2>6. a \in Seq(LinesOf(Names)) /\ b \in Seq(LinesOf(Names))
    BY <1>8, <2>4 DEF Text, Paper
  <2>7. Len(a) = 1 /\ Len(b) = 1 /\ a[1] = stages /\ b[1] = times
    OBVIOUS
  <2>8. Untitled(b)
    <3>1. \A k \in 1 .. Len(times.spans) : times.spans[k].what \in ReportMarks \cup TimeNames
      BY <2>1, SpansOfNeat
    <3>2. \A k \in 1 .. Len(times.spans) :
            IsName(times.spans[k].what) => times.spans[k].what.row # "title"
      BY <3>1, NamesAre, LadderNamesAre
    <3> HIDE DEF b
    <3>3. \A i \in 1 .. Len(b) : b[i] = times
      BY <2>7
    <3> QED BY <3>2, <3>3 DEF Untitled
  <2>9. Untitled(a \o b)
    BY <1>8, <2>6, <2>8, QuietIsUntitled, UntitledJoined
  <2> DEFINE c == a \o b
  <2>10. Len(c) = 2 /\ \A i \in 1 .. Len(c) : (i = 1 /\ c[i] = stages) \/ (i = 2 /\ c[i] = times)
    <3> HIDE DEF a, b
    <3>1. /\ Len(c) = Len(a) + Len(b)
          /\ \A i \in 1 .. Len(c) : \/ i \in 1 .. Len(a) /\ c[i] = a[i]
                                    \/ i - Len(a) \in 1 .. Len(b) /\ c[i] = b[i - Len(a)]
      BY <2>6, Joined
    <3> HIDE DEF c
    <3> QED BY <2>7, <3>1
  <2>11. c[1] = stages
    <3>1. 1 \in 1 .. Len(c)
      BY <2>10
    <3> HIDE DEF c
    <3> QED BY <2>10, <3>1
  <2>12. ASSUME NEW k \in 1 .. Len(stages.spans)
         PROVE  ~(IsName(stages.spans[k].what) /\ stages.spans[k].what.part = "timing")
    <3>1. Calm(stages.spans[k].what)
      <4>1. 1 \in 1 .. Len(a) /\ a[1] = stages
        BY <2>7
      <4> HIDE DEF a
      <4> QED BY <1>8, <4>1 DEF Quiet
    <3> QED BY <3>1 DEF Calm
  <2>13. ASSUME NEW k \in 1 .. Len(times.spans) PROVE Under(times.spans[k], stages)
    <3>1. PICK i \in 1 .. n : /\ times.spans[k].what = Piece("ladder", Rungs[i].name, "timing")
                              /\ times.spans[k].from = StageAt(Rungs, i)
      BY <1>5 DEF UnderStages, n
    <3>2. PICK m \in 1 .. Len(stages.spans) :
            /\ stages.spans[m].what = Piece("ladder", Rungs[i].name, "stage")
            /\ stages.spans[m].from = StageAt(Rungs, i)
      BY <1>4, <3>1 DEF Stands
    <3>3. IsName(Piece("ladder", Rungs[i].name, "stage"))
      BY LadderPieces, LadderNamesAre DEF n
    <3>4. /\ Piece("ladder", Rungs[i].name, "stage").part = "stage"
          /\ Piece("ladder", Rungs[i].name, "stage").row
               = Piece("ladder", Rungs[i].name, "timing").row
      BY DEF Piece
    <3> QED BY <3>1, <3>2, <3>3, <3>4 DEF Under
  <2> HIDE DEF c
  <2>14. ASSUME NEW i \in 1 .. Len(c), NEW k \in 1 .. Len(c[i].spans),
                IsName(c[i].spans[k].what), c[i].spans[k].what.part = "timing"
         PROVE  i - 1 \in 1 .. Len(c) /\ Under(c[i].spans[k], c[i - 1])
    <3>1. i = 2 /\ c[i] = times
      BY <2>10, <2>12, <2>14
    <3>2. i - 1 = 1 /\ 1 \in 1 .. Len(c)
      BY <2>10, <3>1
    <3> QED BY <2>11, <2>13, <3>1, <3>2
  <2>15. Timed(c)
    BY <2>14 DEF Timed
  <2>16. Timely(c, V \cup W)
    BY <2>5, <2>9, <2>15 DEF Timely, c
  <2>17. LadderLines = IF Narrow THEN a ELSE c
    BY <1>6, <1>7, <1>11 DEF LadderLines, c
  <2> QED BY <1>9, <1>13, <2>16, <2>17
<1> QED BY <1>10, <1>11

-----------------------------------------------------------------------------
(***************************************************************************)
(* A title, and the section below it.                                      *)
(***************************************************************************)

-----------------------------------------------------------------------------
(* A section: a title, and what it says.                                   *)

\* The pieces of a title.
TitleNames(block) == [block : {block}, row : {"title"}, part : {"icon", "title", "age"}]
TitleSays(block, size, age) ==
  Saying(Piece(block, "title", "icon"), IF age > 0 THEN 0 ELSE glyphs.icon)
  \cup Saying(Piece(block, "title", "title"), size)
  \cup Saying(Piece(block, "title", "age"), age)
Only(line, N) == \A k \in 1 .. Len(line.spans) : line.spans[k].what \in N

\* The pieces of a title are told apart.
LEMMA TitleNamesAre ==
  ASSUME NEW block \in BlockNames
  PROVE  LET N == TitleNames(block) IN
         /\ OneBlock(N) /\ N \in SUBSET Names
         /\ \A n \in N : /\ n \in ReportMarks \cup N /\ IsName(n) /\ Loose(n) /\ Shown(n)
                         /\ n.row = "title" /\ n.block = block /\ n.part # "timing"
         /\ \A part \in {"icon", "title", "age"} :
              Piece(block, "title", part) \in N /\ Piece(block, "title", part).part = part
<1> DEFINE N == TitleNames(block)
<1>1. N \in SUBSET Names
  BY DEF TitleNames, Names, PartNames
<1>2. \A n \in N : n.block = block /\ n.row = "title" /\ n.part \in {"icon", "title", "age"}
  BY DEF TitleNames
<1>3. \A part \in {"icon", "title", "age"} :
        Piece(block, "title", part) \in N /\ Piece(block, "title", part).part = part
  BY DEF Piece, TitleNames
<1> HIDE DEF N
<1>4. \A n \in N : IsName(n)
  BY <1>1, NamesAre
<1>5. \A n \in N : Loose(n) /\ Shown(n) /\ n.part # "timing"
  BY <1>2, <1>4 DEF Loose, Shown
<1>6. OneBlock(N)
  BY <1>1, <1>2 DEF OneBlock
<1> QED BY <1>1, <1>2, <1>3, <1>4, <1>5, <1>6 DEF N

\* A line of a title's pieces stays one.
LEMMA PushOnly ==
  ASSUME NEW N, NEW line \in LinesOf(N), Only(line, N), NEW what \in N, NEW size \in Nat
  PROVE  /\ Only(Push(line, what, size), N)
         /\ size > 0 \/ 1 \in 1 .. Len(line.spans) =>
              1 \in 1 .. Len(Push(line, what, size).spans)
<1> DEFINE pushed == Push(line, what, size)
           n == Len(line.spans)
<1>1. n \in Nat
  BY SpansOfNeat
<1>2. CASE size = 0
  <2>1. pushed = line
    BY <1>2 DEF Push
  <2> QED BY <1>2, <2>1
<1>3. CASE size # 0
  <2>0. size \in Nat \ {0} /\ what \in ReportMarks \cup N
    BY <1>3
  <2>1. /\ Len(pushed.spans) = n + 1
        /\ \A k \in 1 .. n : pushed.spans[k] = line.spans[k]
        /\ pushed.spans[n + 1].what = what
    BY <2>0, PushIs
  <2> HIDE DEF pushed
  <2>2. \A k \in 1 .. n + 1 : k = n + 1 \/ k \in 1 .. n
    BY <1>1
  <2>3. Only(pushed, N)
    BY <2>1, <2>2 DEF Only
  <2>4. 1 \in 1 .. Len(pushed.spans)
    BY <1>1, <2>1
  <2> QED BY <2>3, <2>4 DEF pushed
<1> QED BY <1>2, <1>3

\* The first of a section's lines.
IsTitled(line) ==
  /\ 1 \in 1 .. Len(line.spans)
  /\ \A k \in 1 .. Len(line.spans) :
       /\ IsName(line.spans[k].what) /\ line.spans[k].what.row = "title"
       /\ line.spans[k].what.part # "timing" /\ line.spans[k].what.part # "connector"

\* A title is a line that fits.
LEMMA TitleText ==
  ASSUME terminal \in Terminals, glyphs \in Glyphs, NEW block \in BlockNames,
         NEW size \in Nat, size > 0, size <= 14, NEW age \in Nat, age <= 40
  PROVE  LET title == Title(block, size, age) IN
         Text(<<title>>, TitleSays(block, size, age)) /\ IsTitled(title)
<1> DEFINE N == TitleNames(block)
           iconic == Piece(block, "title", "icon")
           named == Piece(block, "title", "title")
           aged == Piece(block, "title", "age")
           tiny == glyphs.icon
           seen == IF age > 0 THEN 0 ELSE glyphs.icon
           margin == PadTo(NewLine, RAIL_COL)
           icon == Push(margin, iconic, tiny)
           spaced == Space(icon, 1)
           start == IF glyphs.icon = 0 \/ age > 0 THEN margin ELSE spaced
           titled == Push(start, named, size)
           apart == Space(titled, 2)
           last == Push(apart, aged, age)
           U == Saying(iconic, seen)
           V == U \cup Saying(named, size)
           W == V \cup Saying(aged, age)
           E == {}
<1>1. /\ OneBlock(N) /\ N \in SUBSET Names
      /\ \A n \in N : /\ n \in ReportMarks \cup N /\ IsName(n) /\ Loose(n) /\ Shown(n)
                      /\ n.row = "title" /\ n.block = block /\ n.part # "timing"
      /\ iconic \in N /\ named \in N /\ aged \in N
      /\ iconic.part = "icon" /\ named.part = "title" /\ aged.part = "age"
  BY TitleNamesAre
<1>2. tiny \in Nat /\ tiny <= 1
  <2>1. tiny \in 0 .. 1
    BY GlyphIs
  <2> HIDE DEF tiny
  <2> QED BY <2>1
<1>3. Title(block, size, age) = IF age = 0 THEN titled ELSE last
  BY DEF Title
<1>4. W = TitleSays(block, size, age)
  BY DEF TitleSays
<1>5. Spaced(margin, N, E) /\ margin.width = 2
  BY Margins
<1>6. \A w \in U : w[1] = iconic
  BY DEF Saying
<1>7. \A w \in V : w[1] = iconic \/ w[1] = named
  BY <1>6 DEF Saying
<1>8. seen = tiny \/ seen = 0
  OBVIOUS
<1>9. age = 0 => W = V
  BY DEF Saying
<1>0. (glyphs.icon = 0 \/ age > 0 => seen = 0) /\ (~(glyphs.icon = 0 \/ age > 0) => seen = tiny)
  OBVIOUS
<1>16. margin.spans = <<>> /\ Len(margin.spans) = 0
  BY DEF PadTo, NewLine
<1>17. iconic \in ReportMarks \cup N /\ Loose(iconic) /\ Unsaid(iconic, E)
  BY <1>1 DEF Unsaid, E
<1>18. named \in ReportMarks \cup N /\ Loose(named) /\ Unsaid(named, U)
  BY <1>1, <1>6 DEF Unsaid
<1>19. aged \in ReportMarks \cup N /\ Loose(aged) /\ Unsaid(aged, V)
  BY <1>1, <1>7 DEF Unsaid
<1> HIDE DEF N, iconic, named, aged, tiny, margin, E, W
<1>20. Spaced(margin, N, E)
  BY <1>5
<1>21. tiny \in Nat
  BY <1>2
<1>22. N \in SUBSET Names
  BY <1>1
<1>23. Only(margin, N)
  BY <1>16 DEF Only
<1>24. margin \in LinesOf(N)
  BY <1>20, SpacedIs
<1>25. Ended(icon, N, E \cup Saying(iconic, tiny)) /\ icon.width = margin.width + tiny
  BY <1>17, <1>20, <1>21, <1>22, PushSpaced
<1>26. Only(icon, N)
  BY <1>1, <1>21, <1>23, <1>24, PushOnly
<1> HIDE DEF icon
<1>27. /\ Spaced(spaced, N, E \cup Saying(iconic, tiny)) /\ spaced.width = icon.width + 1
       /\ spaced.spans = icon.spans
  <2>1. Ended(icon, N, E \cup Saying(iconic, tiny)) /\ 1 \in Nat \ {0}
    BY <1>25
  <2> QED BY <2>1, SpaceSpaced DEF spaced
<1>28. Only(spaced, N)
  BY <1>26, <1>27 DEF Only
<1> HIDE DEF spaced
<1>29. Spaced(start, N, U) /\ Only(start, N) /\ start.width \in Nat /\ start.width <= 4
  <2>1. CASE glyphs.icon = 0 \/ age > 0
    <3>1. start = margin /\ U = E
      BY <1>0, <2>1 DEF E, Saying
    <3> HIDE DEF start, U
    <3> QED BY <1>5, <1>23, <3>1
  <2>2. CASE ~(glyphs.icon = 0 \/ age > 0)
    <3>1. start = spaced /\ U = E \cup Saying(iconic, tiny)
      BY <1>0, <2>2 DEF E
    <3> HIDE DEF start, U
    <3> QED BY <1>2, <1>5, <1>25, <1>27, <1>28, <3>1
  <2> QED BY <2>1, <2>2
<1> HIDE DEF start, U
<1>30. Spaced(start, N, U)
  BY <1>29
<1>31. start \in LinesOf(N)
  BY <1>30, SpacedIs
<1>32. Ended(titled, N, V) /\ titled.width = start.width + size
  BY <1>18, <1>22, <1>30, PushSpaced
<1>33. Only(titled, N) /\ 1 \in 1 .. Len(titled.spans)
  BY <1>1, <1>29, <1>31, PushOnly
<1>34. ~IsBlank(titled) /\ Within(titled)
  <2>1. size \in Nat \ {0}
    OBVIOUS
  <2>2. ~IsBlank(titled)
    BY <1>18, <1>31, <2>1, PushedLast
  <2>3. titled.width \in Nat /\ titled.width <= 62
    BY <1>29, <1>32
  <2> QED BY <2>2, <2>3, SlimIsWithin
<1> HIDE DEF titled, V
<1>35. /\ Spaced(apart, N, V) /\ apart.width = titled.width + 2 /\ apart.spans = titled.spans
  <2>1. Ended(titled, N, V) /\ 2 \in Nat \ {0}
    BY <1>32
  <2> QED BY <2>1, SpaceSpaced DEF apart
<1> HIDE DEF apart
<1>36. Spaced(apart, N, V)
  BY <1>35
<1>37. apart \in LinesOf(N)
  BY <1>36, SpacedIs
<1>38. Ended(last, N, W) /\ last.width = apart.width + age
  <2>1. Ended(last, N, V \cup Saying(aged, age)) /\ last.width = apart.width + age
    BY <1>19, <1>22, <1>36, PushSpaced
  <2> QED BY <2>1 DEF W
<1>39. Only(apart, N) /\ 1 \in 1 .. Len(apart.spans)
  BY <1>33, <1>35 DEF Only
<1>40. Only(last, N) /\ 1 \in 1 .. Len(last.spans)
  BY <1>1, <1>37, <1>39, PushOnly
<1>41. ASSUME age # 0 PROVE ~IsBlank(last) /\ Within(last)
  <2>0. age \in Nat \ {0}
    BY <1>41
  <2>1. ~IsBlank(last)
    BY <1>19, <1>37, <2>0, PushedLast
  <2> HIDE DEF last
  <2>2. last.width <= 20 + age /\ last.width \in Nat
    BY <1>29, <1>32, <1>35, <1>38
  <2>3. last.width <= 62
    BY <2>2
  <2> QED BY <2>1, <2>2, <2>3, SlimIsWithin
<1> HIDE DEF last
<1>42. ASSUME NEW line, Ended(line, N, W), Only(line, N), 1 \in 1 .. Len(line.spans),
              Within(line), ~IsBlank(line)
       PROVE  Text(<<line>>, W) /\ IsTitled(line)
  <2>1. Text(<<line>>, W)
    BY <1>1, <1>42, EndedText
  <2>2. IsTitled(line)
    BY <1>1, <1>42 DEF IsTitled, Only, Shown
  <2> QED BY <2>1, <2>2
<1>43. CASE age = 0
  <2>1. Ended(titled, N, W)
    BY <1>9, <1>32, <1>43
  <2> QED BY <1>3, <1>4, <1>33, <1>34, <1>42, <1>43, <2>1
<1>44. CASE age # 0
  BY <1>3, <1>4, <1>38, <1>40, <1>41, <1>42, <1>44
<1> QED BY <1>43, <1>44

\* A title, and lines without one.
Titled(body, W) ==
  /\ Text(body, W) /\ Timed(body) /\ 1 \in 1 .. Len(body) /\ IsTitled(body[1])
  /\ \A i \in 2 .. Len(body) : \A k \in 1 .. Len(body[i].spans) :
       IsName(body[i].spans[k].what) => body[i].spans[k].what.row # "title"
IsSection(lines, W) ==
  /\ lines \in Seq(LinesOf(Names)) /\ Len(lines) \in Nat \ {0} /\ lines[1] = NewLine
  /\ lines = <<NewLine>> \o Tail(lines) /\ Titled(Tail(lines), W)

\* The blank line.
LEMMA BlankLine ==
  /\ NewLine \in LinesOf(Names) /\ NewLine.spans = <<>> /\ Len(NewLine.spans) = 0
  /\ NewLine.width = 0 /\ IsBlank(NewLine)
<1>1. Neat(NewLine, 0, Names, {})
  BY NothingNeat
<1>2. NewLine.spans = <<>> /\ NewLine.width = 0 /\ Len(NewLine.spans) = 0
  BY DEF NewLine
<1> QED BY <1>1, <1>2 DEF Neat, IsBlank

\* A title above lines that have none.
LEMMA TitledText ==
  ASSUME NEW title, NEW rest, NEW V, NEW W, Text(<<title>>, V), IsTitled(title),
         Timely(rest, W), Distinct(V, W)
  PROVE  Titled(<<title>> \o rest, V \cup W)
<1> DEFINE a == <<title>>
           body == a \o rest
<1>1. Text(a, V) /\ Text(rest, W) /\ Timed(rest) /\ Untitled(rest)
  BY DEF Timely
<1>2. a \in Seq(LinesOf(Names)) /\ rest \in Seq(LinesOf(Names))
  BY <1>1 DEF Text, Paper
<1>3. Len(a) = 1 /\ a[1] = title
  OBVIOUS
<1> HIDE DEF a
<1>4. Text(body, V \cup W)
  BY <1>1, TextJoined
<1>5. Timed(a)
  <2>1. \A i \in 1 .. Len(a) : a[i] = title
    BY <1>3
  <2> QED BY <2>1 DEF Timed, IsTitled
<1>6. Timed(body)
  BY <1>1, <1>2, <1>5, TimedJoined
<1>7. /\ Len(body) = Len(a) + Len(rest) /\ Len(rest) \in Nat
      /\ \A i \in 1 .. Len(a) : i \in 1 .. Len(body) /\ body[i] = a[i]
      /\ \A i \in 1 .. Len(body) : \/ i \in 1 .. Len(a) /\ body[i] = a[i]
                                   \/ i - Len(a) \in 1 .. Len(rest) /\ body[i] = rest[i - Len(a)]
  BY <1>2, Joined
<1> HIDE DEF body
<1>8. 1 \in 1 .. Len(body) /\ body[1] = title
  BY <1>3, <1>7
<1>9. ASSUME NEW i \in 2 .. Len(body)
      PROVE  \A k \in 1 .. Len(body[i].spans) :
               IsName(body[i].spans[k].what) => body[i].spans[k].what.row # "title"
  <2>1. i - Len(a) \in 1 .. Len(rest) /\ body[i] = rest[i - Len(a)]
    BY <1>3, <1>7
  <2> QED BY <1>1, <2>1 DEF Untitled
<1> QED BY <1>4, <1>6, <1>8, <1>9 DEF Titled, body, a

\* The same below a blank line.
LEMMA SectionText ==
  ASSUME NEW title, NEW rest, NEW V, NEW W, Text(<<title>>, V), IsTitled(title),
         Timely(rest, W), Distinct(V, W)
  PROVE  IsSection(<<NewLine, title>> \o rest, V \cup W)
<1> DEFINE S == LinesOf(Names)
           body == <<title>> \o rest
           lines == <<NewLine, title>> \o rest
           two == <<NewLine, title>>
           blank == <<NewLine>>
           one == <<title>>
           m == Len(rest)
<1>1. Titled(body, V \cup W)
  BY TitledText
<1>2. rest \in Seq(S) /\ title \in S /\ one \in Seq(S)
  <2>1. one \in Seq(S) /\ rest \in Seq(S)
    BY DEF Text, Paper, Timely
  <2> QED BY <2>1
<1>3. NewLine \in S
  BY BlankLine
<1> DEFINE first == NewLine
<1> HIDE DEF S, first
<1>4. two \in Seq(S) /\ Len(two) = 2 /\ two[1] = first /\ two[2] = title
  BY <1>2, <1>3 DEF first
<1>5. blank \in Seq(S) /\ Len(blank) = 1 /\ blank[1] = first
  BY <1>3 DEF first
<1>6. one \in Seq(S) /\ Len(one) = 1 /\ one[1] = title
  BY <1>2
<1> HIDE DEF two, blank, one
<1>7. /\ body \in Seq(S) /\ Len(body) = 1 + m /\ m \in Nat
      /\ body[1] = title /\ \A i \in 1 .. m : body[1 + i] = rest[i]
  <2>1. 1 \in 1 .. Len(one)
    BY <1>6
  <2> QED BY <1>2, <1>6, <2>1, Joined
<1>8. /\ lines \in Seq(S) /\ Len(lines) = 2 + m
      /\ lines[1] = first /\ lines[2] = title /\ \A i \in 1 .. m : lines[2 + i] = rest[i]
  <2>1. 1 \in 1 .. Len(two) /\ 2 \in 1 .. Len(two)
    BY <1>4
  <2>2. lines = two \o rest
    BY DEF two
  <2> HIDE DEF lines
  <2>3. two \in Seq(S) /\ rest \in Seq(S)
    BY <1>2, <1>4
  <2> DEFINE c == two \o rest
  <2>4. /\ c \in Seq(S) /\ Len(c) = Len(two) + Len(rest)
        /\ \A i \in 1 .. Len(two) : c[i] = two[i]
        /\ \A i \in 1 .. Len(rest) : c[Len(two) + i] = rest[i]
    BY <2>3, Joined
  <2> HIDE DEF c
  <2> QED BY <1>4, <2>1, <2>2, <2>4 DEF c
<1> DEFINE again == blank \o body
<1>9. /\ again \in Seq(S) /\ Len(again) = 1 + Len(body)
      /\ again[1] = first /\ \A i \in 1 .. Len(body) : again[1 + i] = body[i]
  <2>1. 1 \in 1 .. Len(blank)
    BY <1>5
  <2> HIDE DEF body
  <2>2. blank \in Seq(S) /\ body \in Seq(S)
    BY <1>5, <1>7
  <2>3. /\ again \in Seq(S) /\ Len(again) = Len(blank) + Len(body)
        /\ \A i \in 1 .. Len(blank) : again[i] = blank[i]
        /\ \A i \in 1 .. Len(body) : again[Len(blank) + i] = body[i]
    BY <2>2, Joined
  <2> HIDE DEF again
  <2> QED BY <1>5, <2>1, <2>3
<1> HIDE DEF body, lines, again
<1>10. lines = again
  <2>1. Len(lines) = Len(again)
    BY <1>7, <1>8, <1>9
  <2>2. ASSUME NEW i \in 1 .. Len(lines) PROVE lines[i] = again[i]
    <3>1. CASE i = 1
      BY <1>8, <1>9, <3>1
    <3>2. CASE i = 2
      <4>1. 1 \in 1 .. Len(body) /\ 1 + 1 = 2
        BY <1>7
      <4>2. again[1 + 1] = body[1]
        BY <1>9, <4>1
      <4> QED BY <1>7, <1>8, <3>2, <4>1, <4>2
    <3>3. CASE i # 1 /\ i # 2
      <4> DEFINE k == i - 2
                 j == i - 1
      <4>1. k \in 1 .. m /\ i = 2 + k /\ j \in 1 .. Len(body) /\ i = 1 + j /\ j = 1 + k
        BY <1>7, <1>8, <2>2, <3>3
      <4> HIDE DEF k, j
      <4>2. lines[i] = rest[k] /\ again[i] = body[j] /\ body[j] = rest[k]
        BY <1>7, <1>8, <1>9, <4>1
      <4> QED BY <4>2
    <3> QED BY <3>1, <3>2, <3>3
  <2> QED BY <1>8, <1>9, <2>1, <2>2, SeqEqual
<1>11. Tail(lines) = body
  <2>1. Len(lines) = Len(body) + 1 /\ Len(body) \in Nat /\ lines # <<>>
    <3>1. Len(<<>>) = 0
      OBVIOUS
    <3> QED BY <1>7, <1>8, <3>1
  <2>2. Tail(lines) \in Seq(S) /\ Len(Tail(lines)) = Len(body)
        /\ \A i \in 1 .. Len(body) : Tail(lines)[i] = lines[i + 1]
    BY <1>8, <2>1, HeadTailProperties
  <2>3. \A i \in 1 .. Len(body) : Tail(lines)[i] = body[i]
    <3>1. \A i \in 1 .. Len(body) : lines[1 + i] = body[i] /\ i + 1 = 1 + i
      BY <1>9, <1>10, <2>1
    <3> QED BY <2>2, <3>1
  <2> QED BY <1>7, <2>2, <2>3, SeqEqual
<1>12. Len(lines) \in Nat \ {0}
  BY <1>7, <1>8
<1>13. lines = <<NewLine>> \o Tail(lines)
  BY <1>10, <1>11 DEF again, blank
<1> QED BY <1>1, <1>8, <1>11, <1>12, <1>13 DEF IsSection, S, first, lines, body

\* The sections, and what each says, in the name of its own block.
Series(blocks, says, B) ==
  /\ blocks \in Seq(Seq(LinesOf(Names))) /\ (\E S : says \in Seq(S)) /\ Len(says) = Len(blocks)
  /\ \A i \in 1 .. Len(blocks) : /\ IsSection(blocks[i], says[i])
                                 /\ \A w \in says[i] : w[1].block \in B
  /\ \A i, k \in 1 .. Len(blocks) : i # k => Distinct(says[i], says[k])

\* No sections at all.
LEMMA NoSeries == \A B : Series(<<>>, <<>>, B)
<1>1. <<>> \in Seq(Seq(LinesOf(Names))) /\ <<>> \in Seq({}) /\ Len(<<>>) = 0
  OBVIOUS
<1> QED BY <1>1 DEF Series

\* One section.
LEMMA OneSection ==
  ASSUME NEW block, NEW lines, NEW W, IsSection(lines, W), \A w \in W : w[1].block = block
  PROVE  Series(<<lines>>, <<W>>, {block})
<1> DEFINE T == Seq(LinesOf(Names))
           a == <<lines>>
           b == <<W>>
<1>1. lines \in T
  BY DEF IsSection
<1> HIDE DEF T
<1>2. a \in Seq(T) /\ Len(a) = 1 /\ a[1] = lines
  BY <1>1
<1>3. b \in Seq({W}) /\ Len(b) = 1 /\ b[1] = W
  OBVIOUS
<1> HIDE DEF a, b
<1>4. \A i \in 1 .. Len(a) : i = 1 /\ a[i] = lines /\ b[i] = W
  BY <1>2, <1>3
<1>5. Series(a, b, {block})
  BY <1>2, <1>3, <1>4 DEF Series, T
<1> QED BY <1>5 DEF a, b

\* Sections of different names, one after the other.
LEMMA SeriesJoined ==
  ASSUME NEW a, NEW b, NEW U, NEW V, NEW A, NEW B, Series(a, U, A), Series(b, V, B),
         \A x \in A : x \notin B
  PROVE  Series(a \o b, U \o V, A \cup B)
<1> DEFINE T == Seq(LinesOf(Names))
           c == a \o b
           W == U \o V
           n == Len(a)
<1>1. a \in Seq(T) /\ b \in Seq(T)
  BY DEF Series
<1>2. PICK S : U \in Seq(S)
  BY DEF Series
<1>3. PICK R : V \in Seq(R)
  BY DEF Series
<1>4. U \in Seq(S \cup R) /\ V \in Seq(S \cup R)
  BY <1>2, <1>3
<1> HIDE DEF T
<1> DEFINE Q == S \cup R
<1> HIDE DEF Q
<1>5. /\ c \in Seq(T) /\ Len(c) = n + Len(b) /\ n \in Nat /\ Len(b) \in Nat
      /\ \A i \in 1 .. Len(c) : \/ i \in 1 .. n /\ c[i] = a[i]
                                \/ /\ i \notin 1 .. n /\ i - n \in 1 .. Len(b)
                                   /\ c[i] = b[i - n]
  BY <1>1, Joined
<1>6. /\ W \in Seq(Q) /\ Len(W) = Len(U) + Len(V)
      /\ \A i \in 1 .. Len(U) : W[i] = U[i]
      /\ \A i \in 1 .. Len(V) : W[Len(U) + i] = V[i]
  BY <1>4, Joined DEF Q
<1>7. Len(U) = n /\ Len(V) = Len(b)
  BY DEF Series
<1> HIDE DEF c, W, n
<1>8. ASSUME NEW i \in 1 .. Len(c)
      PROVE  \/ i \in 1 .. n /\ c[i] = a[i] /\ W[i] = U[i]
             \/ i - n \in 1 .. Len(b) /\ c[i] = b[i - n] /\ W[i] = V[i - n]
  <2>1. CASE i \in 1 .. n /\ c[i] = a[i]
    BY <1>6, <1>7, <2>1
  <2>2. CASE i - n \in 1 .. Len(b) /\ c[i] = b[i - n]
    <3> DEFINE k == i - n
    <3>1. k \in 1 .. Len(V) /\ n + k = i
      BY <1>5, <1>7, <2>2
    <3> HIDE DEF k
    <3>2. W[n + k] = V[k]
      BY <1>6, <1>7, <3>1
    <3> QED BY <2>2, <3>1, <3>2 DEF k
  <2> QED BY <1>5, <2>1, <2>2
<1>9. ASSUME NEW i \in 1 .. Len(c)
      PROVE  IsSection(c[i], W[i]) /\ \A w \in W[i] : w[1].block \in A \cup B
  <2>1. CASE i \in 1 .. n /\ c[i] = a[i] /\ W[i] = U[i]
    BY <2>1 DEF Series, n
  <2>2. CASE i - n \in 1 .. Len(b) /\ c[i] = b[i - n] /\ W[i] = V[i - n]
    BY <2>2 DEF Series
  <2> QED BY <1>8, <2>1, <2>2
<1>10. ASSUME NEW i \in 1 .. Len(c), NEW k \in 1 .. Len(c), i # k PROVE Distinct(W[i], W[k])
  <2>1. ASSUME NEW x \in 1 .. n, NEW y \in 1 .. Len(b)
        PROVE  Distinct(U[x], V[y]) /\ Distinct(V[y], U[x])
    <3>1. \A u \in U[x], v \in V[y] : u[1].block \in A /\ v[1].block \in B
      BY DEF Series, n
    <3>2. \A u \in U[x], v \in V[y] : u[1] # v[1]
      BY <3>1
    <3> QED BY <3>2 DEF Distinct
  <2>2. CASE (i \in 1 .. n /\ W[i] = U[i]) /\ (k \in 1 .. n /\ W[k] = U[k])
    BY <1>10, <2>2 DEF Series, n
  <2>3. CASE (i - n \in 1 .. Len(b) /\ W[i] = V[i - n])
             /\ (k - n \in 1 .. Len(b) /\ W[k] = V[k - n])
    <3> DEFINE p == i - n
               q == k - n
    <3>1. p # q
      BY <1>5, <1>10
    <3>2. p \in 1 .. Len(b) /\ q \in 1 .. Len(b) /\ W[i] = V[p] /\ W[k] = V[q]
      BY <2>3
    <3> HIDE DEF p, q
    <3> QED BY <3>1, <3>2 DEF Series
  <2>4. CASE (i \in 1 .. n /\ W[i] = U[i]) /\ (k - n \in 1 .. Len(b) /\ W[k] = V[k - n])
    BY <2>1, <2>4
  <2>5. CASE (i - n \in 1 .. Len(b) /\ W[i] = V[i - n]) /\ (k \in 1 .. n /\ W[k] = U[k])
    BY <2>1, <2>5
  <2> QED BY <1>8, <1>10, <2>2, <2>3, <2>4, <2>5
<1>11. Len(W) = Len(c)
  BY <1>5, <1>6, <1>7
<1>12. Series(c, W, A \cup B)
  BY <1>5, <1>6, <1>9, <1>10, <1>11 DEF Series, T
<1> QED BY <1>12 DEF c, W

\* What a title says is said in the name of the section.
LEMMA TitleSaysName ==
  ASSUME NEW block, NEW size, NEW age, NEW w \in TitleSays(block, size, age)
  PROVE  w[1].row = "title" /\ w[1].block = block
<1>1. \A part : Piece(block, "title", part).row = "title"
                /\ Piece(block, "title", part).block = block
  BY DEF Piece
<1>2. \E part : w[1] = Piece(block, "title", part)
  BY DEF TitleSays, Saying
<1> QED BY <1>1, <1>2

\* The rows of a section are fine.
LEMMA SectionRows ==
  ASSUME asked \in Reports
  PROVE  RowsFine(asked.dns) /\ RowsFine(asked.public)
<1>1. ASSUME NEW rows, IsRows(rows), \A i \in DOMAIN rows : rows[i].label \in RowNames
      PROVE  RowsFine(rows)
  <2>1. rows \in Seq(ToSet(rows))
    BY <1>1 DEF IsRows, IsSequence
  <2>2. DOMAIN rows = 1 .. Len(rows)
    BY <2>1, LenProperties
  <2>3. \A i \in 1 .. Len(rows) : RowFine(rows[i])
    BY <1>1, <2>2 DEF IsRows, RowFine
  <2> QED BY <1>1, <2>1, <2>2, <2>3 DEF RowsFine, IsRows
<1>2. IsRows(asked.dns) /\ IsRows(asked.public)
  BY ReportsAssumption
<1>3. \A i \in DOMAIN asked.dns : asked.dns[i].label \in RowNames
  BY DEF RowNames
<1>4. \A i \in DOMAIN asked.public : asked.public[i].label \in RowNames
  BY DEF RowNames
<1> QED BY <1>1, <1>2, <1>3, <1>4

\* A title does not say what a row does.
LEMMA TitleApart ==
  ASSUME NEW block, NEW size, NEW age, NEW W, \A w \in W : w[1].row # "title"
  PROVE  Distinct(TitleSays(block, size, age), W)
BY TitleSaysName DEF Distinct

\* A section of rows says its title and its rows.
LEMMA RowsSectionText ==
  ASSUME terminal \in Terminals, glyphs \in Glyphs, NEW block \in BlockNames,
         NEW size \in Nat, size > 0, size <= 14, NEW age \in Nat, age <= 40,
         NEW rows, RowsFine(rows)
  PROVE  LET W == TitleSays(block, size, age) \cup RowsSay(block, rows) IN
         /\ IsSection(<<NewLine, Title(block, size, age)>> \o EmitRows(block, rows, FALSE), W)
         /\ \A w \in W : w[1].block = block
<1> DEFINE title == Title(block, size, age)
           rest == EmitRows(block, rows, FALSE)
           V == TitleSays(block, size, age)
           U == RowsSay(block, rows)
<1>1. Text(<<title>>, V) /\ IsTitled(title)
  BY TitleText
<1>2. Timely(rest, U)
  BY EmitRowsText, QuietIsTimed, QuietIsUntitled DEF Prose, Timely
<1>3. \A w \in U : w[1].row # "title" /\ w[1].block = block
  BY RowSaysName DEF RowsSay, RowsFine, RowFine
<1>4. Distinct(V, U)
  BY <1>3, TitleApart
<1>5. \A w \in V : w[1].block = block
  BY TitleSaysName
<1> HIDE DEF title, rest, V, U
<1>6. IsSection(<<NewLine, title>> \o rest, V \cup U)
  BY <1>1, <1>2, <1>4, SectionText
<1>7. \A w \in V \cup U : w[1].block = block
  BY <1>3, <1>5
<1> QED BY <1>6, <1>7 DEF title, rest, V, U

\* The row of the verdict.
VerdictRow ==
  Row("verdict", Bracketed(asked.reachability.verdict), asked.reachability.explanation)
PortalRow == Row("sign in", 7, asked.reachability.portal)
LadderSays ==
  TitleSays("ladder", 12, 0)
  \cup (RungsSay
        \cup (RowSays("ladder", VerdictRow)
              \cup IF asked.reachability.portal = 0 THEN {} ELSE RowSays("ladder", PortalRow)))

\* What a stage says is said of the ladder, and not by a row.
LEMMA RungsSayName ==
  ASSUME asked \in Reports, NEW w \in RungsSay
  PROVE  /\ w[1].row # "title" /\ w[1].block = "ladder"
         /\ w[1].part \in {"stage", "mark", "timing"}
<1>1. PICK k \in 1 .. Len(Rungs) : w \in StageSays(k) \/ w \in TimeSays(k)
  BY DEF RungsSay, StagesSay, TimesSay
<1>2. \E part \in {"stage", "mark", "timing"} : w[1] = Piece("ladder", Rungs[k].name, part)
  BY <1>1 DEF StageSays, TimeSays, Saying
<1>3. Rungs[k].name # "title"
  BY RungsAre
<1> QED BY <1>2, <1>3 DEF Piece

\* The section of the ladder says its title, its stages, the verdict and the portal.
LEMMA LadderSection ==
  ASSUME terminal \in Terminals, glyphs \in Glyphs, asked \in Reports, Rungs # <<>>
  PROVE  IsSection(ReachabilitySection, LadderSays) /\ \A w \in LadderSays : w[1].block = "ladder"
<1> DEFINE report == asked.reachability
           title == Title("ladder", 12, 0)
           verdict == EmitRow("ladder", VerdictRow, FALSE)
           portal == IF report.portal = 0 THEN <<>> ELSE EmitRow("ladder", PortalRow, FALSE)
           T == TitleSays("ladder", 12, 0)
           V == RowSays("ladder", VerdictRow)
           P == IF report.portal = 0 THEN {} ELSE RowSays("ladder", PortalRow)
           R == RungsSay
<1>1. /\ report.explanation \in Nat \ {0} /\ report.verdict \in Nat /\ report.portal \in Nat
  BY ReportsAssumption DEF Rungs
<1>2. "ladder" \in BlockNames
  BY DEF BlockNames
<1>3. "verdict" \in RowNames /\ "sign in" \in RowNames
  BY DEF RowNames
<1>4. ReachabilitySection = <<NewLine, title>> \o (LadderLines \o (verdict \o portal))
  BY DEF ReachabilitySection, LadderLines, VerdictRow, PortalRow, Rungs
<1>5. RowFine(VerdictRow) /\ VerdictRow.label = "verdict"
  <2> DEFINE word == Bracketed(report.verdict)
  <2>1. word \in Nat
    BY <1>1 DEF Bracketed
  <2> HIDE DEF word
  <2>2. VerdictRow = Row("verdict", word, report.explanation)
    BY DEF VerdictRow, word
  <2> QED BY <1>1, <1>3, <2>1, <2>2 DEF Row, RowFine
<1>6. report.portal # 0 => RowFine(PortalRow)
  BY <1>1, <1>3 DEF PortalRow, Row, RowFine
<1>7. PortalRow.label = "sign in"
  BY DEF PortalRow, Row
<1>8. LadderSays = T \cup (R \cup (V \cup P))
  BY DEF LadderSays
<1>9. Text(<<title>>, T) /\ IsTitled(title)
  <2> DEFINE size == 12
             age == 0
             block == "ladder"
  <2>1. size \in Nat /\ size > 0 /\ size <= 14 /\ age \in Nat /\ age <= 40 /\ block \in BlockNames
    BY <1>2
  <2> HIDE DEF size, age, block
  <2>2. Text(<<Title(block, size, age)>>, TitleSays(block, size, age))
        /\ IsTitled(Title(block, size, age))
    BY <2>1, TitleText
  <2> QED BY <2>2 DEF size, age, block
<1>10. Prose(verdict, V)
  BY <1>2, <1>5, EmitRowText
<1>11. Prose(portal, P)
  BY <1>2, <1>6, EmitRowText, NoProse
<1> DEFINE RowParts == {"label", "value", "annotation", "continuation"}
<1>12. \A w \in V : w[1].row = "verdict" /\ w[1].block = "ladder" /\ w[1].part \in RowParts
  BY <1>5, RowSaysName
<1>13. \A w \in P : w[1].row = "sign in" /\ w[1].block = "ladder" /\ w[1].part \in RowParts
  BY <1>7, RowSaysName
<1>14. Timely(LadderLines, R)
  BY LadderText
<1>20. \A w \in R : /\ w[1].row # "title" /\ w[1].block = "ladder"
                    /\ w[1].part \in {"stage", "mark", "timing"}
  BY RungsSayName
<1> HIDE DEF title, verdict, portal, T, V, P, R
<1>15. Distinct(V, P)
  BY <1>12, <1>13 DEF Distinct
<1>16. Prose(verdict \o portal, V \cup P)
  BY <1>10, <1>11, <1>15, ProseJoined
<1> DEFINE more == verdict \o portal
           U == V \cup P
<1>17. Timely(more, U)
  BY <1>16, QuietIsTimed, QuietIsUntitled DEF Prose, Timely
<1>18. \A w \in U : w[1].row # "title" /\ w[1].block = "ladder" /\ w[1].part \in RowParts
  BY <1>12, <1>13
<1>21. Distinct(R, U)
  BY <1>18, <1>20 DEF Distinct
<1>19. LadderLines \in Seq(LinesOf(Names))
  BY <1>14 DEF Timely, Text, Paper
<1> HIDE DEF more, U
<1>22. Timely(LadderLines \o more, R \cup U)
  <2>1. Text(LadderLines \o more, R \cup U)
    BY <1>14, <1>17, <1>21, TextJoined DEF Timely
  <2>2. more \in Seq(LinesOf(Names))
    BY <1>17 DEF Timely, Text, Paper
  <2>3. Timed(LadderLines \o more)
    BY <1>14, <1>17, <1>19, <2>2, TimedJoined DEF Timely
  <2>4. Untitled(LadderLines \o more)
    BY <1>14, <1>17, <1>19, <2>2, UntitledJoined DEF Timely
  <2> QED BY <2>1, <2>3, <2>4 DEF Timely
<1> DEFINE all == LadderLines \o more
           said == R \cup U
<1>23. \A w \in said : w[1].row # "title" /\ w[1].block = "ladder"
  BY <1>18, <1>20
<1>25. Timely(all, said)
  BY <1>22
<1> HIDE DEF all, said
<1>24. Distinct(T, said)
  BY <1>23, TitleApart DEF T
<1>26. IsSection(<<NewLine, title>> \o all, T \cup said)
  BY <1>9, <1>24, <1>25, SectionText
<1>27. \A w \in T \cup said : w[1].block = "ladder"
  BY <1>23, TitleSaysName DEF T
<1> QED BY <1>4, <1>8, <1>26, <1>27 DEF all, said, more, U

\* What the section of the name servers says.
DnsSays == TitleSays("dns", 3, 0) \cup RowsSay("dns", asked.dns)
PublicSays == TitleSays("public", 14, asked.age) \cup RowsSay("public", asked.public)
SectionSays ==
  <<DnsSays>>
  \o (IF asked.reachability.rungs = <<>> THEN <<>> ELSE <<LadderSays>>)
  \o (IF asked.public = <<>> THEN <<>> ELSE <<PublicSays>>)

\* The sections of a report, each by its name.
LEMMA BlocksAre ==
  ASSUME terminal \in Terminals, glyphs \in Glyphs, asked \in Reports
  PROVE  Series(Blocks, SectionSays, {"dns", "ladder", "public"})
<1> DEFINE a == <<DnsSection>>
           b == IF asked.reachability.rungs = <<>> THEN <<>> ELSE <<ReachabilitySection>>
           c == IF asked.public = <<>> THEN <<>> ELSE <<PublicSection>>
           U == <<DnsSays>>
           V == IF asked.reachability.rungs = <<>> THEN <<>> ELSE <<LadderSays>>
           W == IF asked.public = <<>> THEN <<>> ELSE <<PublicSays>>
<1>0. "dns" \in BlockNames /\ "public" \in BlockNames
  BY DEF BlockNames
<1>1. IsSection(DnsSection, DnsSays) /\ \A w \in DnsSays : w[1].block = "dns"
  <2> DEFINE size == 3
             age == 0
             block == "dns"
             rows == asked.dns
  <2>1. size \in Nat /\ size > 0 /\ size <= 14 /\ block \in BlockNames
    BY <1>0
  <2>3. age \in Nat /\ age <= 40
    OBVIOUS
  <2>4. RowsFine(rows)
    BY SectionRows
  <2> HIDE DEF size, age, block, rows
  <2>2. LET X == TitleSays(block, size, age) \cup RowsSay(block, rows) IN
        /\ IsSection(<<NewLine, Title(block, size, age)>> \o EmitRows(block, rows, FALSE), X)
        /\ \A w \in X : w[1].block = block
    BY <2>1, <2>3, <2>4, RowsSectionText
  <2> QED BY <2>2 DEF size, age, block, rows, DnsSection, DnsSays
<1>2. IsSection(PublicSection, PublicSays) /\ \A w \in PublicSays : w[1].block = "public"
  <2> DEFINE size == 14
             age == asked.age
             block == "public"
             rows == asked.public
  <2>1. size \in Nat /\ size > 0 /\ size <= 14 /\ block \in BlockNames
    BY <1>0
  <2>3. age \in Nat /\ age <= 40
    <3>1. age \in 0 .. 40
      BY ReportsAssumption
    <3> HIDE DEF age
    <3> QED BY <3>1
  <2>4. RowsFine(rows)
    BY SectionRows
  <2> HIDE DEF size, age, block, rows
  <2>2. LET X == TitleSays(block, size, age) \cup RowsSay(block, rows) IN
        /\ IsSection(<<NewLine, Title(block, size, age)>> \o EmitRows(block, rows, FALSE), X)
        /\ \A w \in X : w[1].block = block
    BY <2>1, <2>3, <2>4, RowsSectionText
  <2> QED BY <2>2 DEF size, age, block, rows, PublicSection, PublicSays
<1>3. Series(a, U, {"dns"})
  BY <1>1, OneSection
<1>4. Series(b, V, {"ladder"})
  BY LadderSection, OneSection, NoSeries DEF Rungs
<1>5. Series(c, W, {"public"})
  BY <1>2, OneSection, NoSeries
<1>6. Blocks = a \o b \o c /\ SectionSays = U \o V \o W
  BY DEF Blocks, SectionSays
<1> HIDE DEF a, b, c, U, V, W
<1> DEFINE A == {"dns"}
           B == {"ladder"}
           C == {"public"}
<1>7. (\A x \in A : x \notin B) /\ (\A x \in A \cup B : x \notin C)
  OBVIOUS
<1>8. A \cup B \cup C = {"dns", "ladder", "public"}
  OBVIOUS
<1> HIDE DEF A, B, C
<1>9. Series(a, U, A) /\ Series(b, V, B) /\ Series(c, W, C)
  BY <1>3, <1>4, <1>5 DEF A, B, C
<1>10. Series(a \o b, U \o V, A \cup B)
  BY <1>7, <1>9, SeriesJoined
<1>11. Series(a \o b \o c, U \o V \o W, A \cup B \cup C)
  BY <1>7, <1>9, <1>10, SeriesJoined
<1> QED BY <1>6, <1>8, <1>11

-----------------------------------------------------------------------------
(***************************************************************************)
(* Sections beside each other.                                             *)
(***************************************************************************)

-----------------------------------------------------------------------------
(* A section beside another.                                               *)

\* A piece that was moved to the right.
MovedBy(span, by) == [span EXCEPT !.from = @ + by, !.to = @ + by]

\* It says what it said.
LEMMA MovedIs ==
  ASSUME NEW N, NEW span \in SpansOf(N), NEW by \in Nat
  PROVE  LET moved == MovedBy(span, by) IN
         /\ moved \in SpansOf(N) /\ moved.what = span.what /\ Told(moved) = Told(span)
         /\ moved.from = span.from + by /\ moved.to = span.to + by
<1>1. span.what \in ReportMarks \cup N /\ span.from \in Nat /\ span.to \in Nat
  BY DEF SpansOf
<1> DEFINE moved == MovedBy(span, by)
           T == ReportMarks \cup N
           from == span.from + by
           to == span.to + by
<1>2. span \in [what : T, from : Nat, to : Nat] /\ from \in Nat /\ to \in Nat
  BY <1>1 DEF SpansOf
<1>3. moved = [span EXCEPT !.from = from, !.to = to]
  BY DEF MovedBy
<1> HIDE DEF moved, from, to, T
<1>4. moved \in [what : T, from : Nat, to : Nat]
      /\ moved.what = span.what /\ moved.from = from /\ moved.to = to
  BY <1>2, <1>3
<1>5. /\ moved \in SpansOf(N) /\ moved.what = span.what
      /\ moved.from = span.from + by /\ moved.to = span.to + by
  BY <1>4 DEF SpansOf, T, from, to
<1>6. Size(moved) = Size(span)
  BY <1>1, <1>5 DEF Size
<1>7. Told(moved) = Told(span)
  BY <1>5, <1>6 DEF Told
<1> QED BY <1>5, <1>7 DEF moved

\* What is written on one line, and what is written on another further to the right.
Merged(line, near, far, by, width) ==
  /\ line \in LinesOf(Names) /\ line.width <= width
  /\ Len(line.spans) = Len(near.spans) + Len(far.spans)
  /\ \A k \in 1 .. Len(line.spans) : line.spans[k].to <= line.width
  /\ \A k \in 1 .. Len(near.spans) :
       k \in 1 .. Len(line.spans) /\ line.spans[k] = near.spans[k]
  /\ \A k \in 1 .. Len(far.spans) :
       /\ Len(near.spans) + k \in 1 .. Len(line.spans)
       /\ line.spans[Len(near.spans) + k] = MovedBy(far.spans[k], by)
  /\ \A k \in 1 .. Len(line.spans) :
       \/ k \in 1 .. Len(near.spans) /\ line.spans[k] = near.spans[k]
       \/ /\ k \notin 1 .. Len(near.spans) /\ k - Len(near.spans) \in 1 .. Len(far.spans)
          /\ line.spans[k] = MovedBy(far.spans[k - Len(near.spans)], by)

\* The pieces of a line in order.
LEMMA CleanSpans ==
  ASSUME NEW line, Clean(line)
  PROVE  /\ line \in LinesOf(Names) /\ line.spans \in Seq(SpansOf(Names))
         /\ Len(line.spans) \in Nat /\ line.width \in Nat
         /\ \A k \in 1 .. Len(line.spans) :
              /\ line.spans[k] \in SpansOf(Names)
              /\ line.spans[k].from \in Nat /\ line.spans[k].to \in Nat
              /\ 1 <= line.spans[k].from /\ line.spans[k].from <= line.spans[k].to
              /\ line.spans[k].to <= line.width
<1>1. line \in LinesOf(Names)
  BY DEF Clean
<1>2. \A k \in 1 .. Len(line.spans) :
        line.spans[k].from \in 1 .. line.spans[k].to /\ line.spans[k].to <= line.width
  BY DEF Clean
<1> QED BY <1>1, <1>2, SpansOfNeat

\* What is written last ends last.
LEMMA LastEnds ==
  ASSUME NEW line, Clean(line), NEW k \in 1 .. Len(line.spans)
  PROVE  line.spans[k].to <= line.spans[Len(line.spans)].to
<1> DEFINE n == Len(line.spans)
           S == {m \in 1 .. n : line.spans[m].to > line.spans[n].to}
<1>1. n \in Nat /\ \A m \in 1 .. n : line.spans[m].to \in Nat /\ line.spans[m].from \in Nat
                                     /\ line.spans[m].from <= line.spans[m].to
  BY CleanSpans
<1>2. n \in 1 .. n
  BY <1>1
<1>3. ASSUME S # {} PROVE FALSE
  <2>1. IsFiniteSet(1 .. n)
    BY <1>1, FS_Interval
  <2>2. S \in SUBSET Nat /\ S \in SUBSET (1 .. n)
    BY <1>1
  <2>3. IsFiniteSet(S)
    BY <2>1, <2>2, FS_Subset
  <2> HIDE DEF S
  <2>4. PICK m \in S : \A j \in S : m >= j
    BY <1>3, <2>2, <2>3, GreatestExists
  <2>5. m \in 1 .. n /\ line.spans[m].to > line.spans[n].to
    BY <2>4 DEF S
  <2> HIDE DEF n
  <2>6. m # n
    BY <1>1, <2>5
  <2>7. m + 1 \in 2 .. n /\ m + 1 \in 1 .. n /\ m + 1 - 1 = m
    BY <1>1, <2>5, <2>6
  <2>8. line.spans[m].to < line.spans[m + 1].from
    <3>1. \A j \in 2 .. n : line.spans[j - 1].to < line.spans[j].from
      BY DEF Clean, n
    <3> DEFINE next == m + 1
    <3>2. next \in 2 .. n /\ next - 1 = m
      BY <1>1, <2>5, <2>7
    <3> HIDE DEF next
    <3>3. line.spans[next - 1].to < line.spans[next].from
      BY <3>1, <3>2
    <3> QED BY <3>2, <3>3 DEF next
  <2>9. line.spans[m + 1].to > line.spans[n].to
    <3> DEFINE this == line.spans[m].to
               next == m + 1
               from == line.spans[next].from
               to == line.spans[next].to
               edge == line.spans[n].to
    <3>1. this > edge /\ this < from
      BY <2>5, <2>8
    <3>2. next \in 1 .. n
      BY <2>7
    <3>3. this \in Nat /\ edge \in Nat
      BY <1>1, <2>5
    <3> HIDE DEF this, edge, next
    <3>5. from \in Nat /\ to \in Nat /\ from <= to
      BY <1>1, <1>2, <3>2
    <3> HIDE DEF from, to
    <3>4. to > edge
      BY <3>1, <3>3, <3>5
    <3> QED BY <3>4 DEF to, edge, next
  <2>10. m + 1 \in S
    BY <2>7, <2>9 DEF S, n
  <2>11. m >= m + 1 /\ m \in Nat
    BY <2>2, <2>4, <2>10
  <2> QED BY <2>11
<1>4. ~(line.spans[k].to > line.spans[n].to)
  BY <1>3
<1>5. line.spans[k].to \in Nat /\ line.spans[n].to \in Nat
  BY <1>1, <1>2
<1> QED BY <1>4, <1>5

\* The spaces a line ends with are dropped.
LEMMA TrimIs ==
  ASSUME NEW line, Clean(line), ~IsBlank(line), NEW width \in Nat, line.width <= width,
         NEW by \in Nat
  PROVE  Merged(TrimEnd(line), line, NewLine, by, width)
<1> DEFINE n == Len(line.spans)
           trimmed == TrimEnd(line)
<1>1. line \in LinesOf(Names) /\ line.spans \in Seq(SpansOf(Names))
     /\ n \in Nat /\ line.width \in Nat
  BY CleanSpans
<1>2. n \in 1 .. n
  <2>1. n # 0
    BY <1>1, EmptySeq DEF IsBlank
  <2> QED BY <1>1, <2>1
<1> DEFINE end == line.spans[n].to
<1>3. end \in Nat /\ end <= line.width
  BY <1>2, CleanSpans
<1>4. \A k \in 1 .. n : line.spans[k].to <= end
  BY LastEnds
<1>5. trimmed = [line EXCEPT !.width = end]
  BY DEF TrimEnd, Last
<1> HIDE DEF end
<1>6. trimmed.spans = line.spans /\ trimmed.width = end /\ trimmed \in LinesOf(Names)
  BY <1>1, <1>3, <1>5 DEF LinesOf
<1>7. end <= width
  BY <1>1, <1>3
<1>8. Len(NewLine.spans) = 0
  BY BlankLine
<1>9. n = n + Len(NewLine.spans)
  BY <1>1, <1>8
<1>10. \A k \in 1 .. Len(NewLine.spans) : FALSE
  BY <1>8
<1> HIDE DEF trimmed
<1>11. Len(trimmed.spans) = n
  BY <1>6
<1> QED BY <1>4, <1>6, <1>7, <1>9, <1>10, <1>11 DEF Merged, trimmed

\* The line of a section to the right of another's.
LEMMA BesideIs ==
  ASSUME NEW near, NEW far, Clean(near), Clean(far), NEW width \in Nat, near.width <= width
  PROVE  Merged(Beside(near, far, width + GUTTER + 1), near, far, width + 2,
                width + 2 + far.width)
<1> DEFINE line == Beside(near, far, width + GUTTER + 1)
           column == width + GUTTER + 1
           by == width + 2
           m == Len(near.spans)
           n == Len(far.spans)
           spans == [i \in DOMAIN far.spans |-> MovedBy(far.spans[i], by)]
<1>1. /\ near \in LinesOf(Names) /\ near.spans \in Seq(SpansOf(Names)) /\ m \in Nat
      /\ near.width \in Nat
      /\ \A k \in 1 .. m : near.spans[k].to \in Nat /\ near.spans[k].to <= near.width
  BY CleanSpans
<1>2. /\ far \in LinesOf(Names) /\ far.spans \in Seq(SpansOf(Names)) /\ n \in Nat
      /\ far.width \in Nat
      /\ \A k \in 1 .. n : /\ far.spans[k] \in SpansOf(Names) /\ far.spans[k].to \in Nat
                           /\ far.spans[k].to <= far.width
  BY CleanSpans
<1>3. PadTo(near, column).width = by
  <2>1. Max({near.width, column - 1}) = by
    <3>1. near.width \in Int /\ column - 1 \in Int /\ column - 1 = by /\ by >= near.width
      BY <1>1 DEF GUTTER
    <3>2. Max({near.width, column - 1})
            = IF near.width >= column - 1 THEN near.width ELSE column - 1
      BY <3>1, MaxOfTwo
    <3> QED BY <1>1, <3>1, <3>2
  <2>2. "width" \in DOMAIN near
    BY <1>1 DEF LinesOf
  <2> QED BY <2>1, <2>2 DEF PadTo
<1>4. line = [spans |-> near.spans \o spans, width |-> by + far.width]
  BY <1>3 DEF Beside, MovedBy
<1>5. by \in Nat
  OBVIOUS
<1>6. DOMAIN far.spans = 1 .. n
  BY <1>2, LenProperties
<1> HIDE DEF by, column, line
<1>7. \A k \in 1 .. n : /\ MovedBy(far.spans[k], by) \in SpansOf(Names)
                        /\ MovedBy(far.spans[k], by).to = far.spans[k].to + by
  BY <1>2, <1>5, MovedIs
<1>8. spans \in Seq(SpansOf(Names)) /\ Len(spans) = n
      /\ \A k \in 1 .. n : spans[k] = MovedBy(far.spans[k], by)
  BY <1>2, <1>6, <1>7
<1> HIDE DEF spans
<1> DEFINE all == near.spans \o spans
<1>0. near.spans \in Seq(SpansOf(Names)) /\ spans \in Seq(SpansOf(Names))
  BY <1>1, <1>8
<1>9. /\ all \in Seq(SpansOf(Names)) /\ Len(all) = m + n
      /\ \A k \in 1 .. m : k \in 1 .. Len(all) /\ all[k] = near.spans[k]
      /\ \A k \in 1 .. n : m + k \in 1 .. Len(all) /\ all[m + k] = spans[k]
      /\ \A k \in 1 .. Len(all) : \/ k \in 1 .. m /\ all[k] = near.spans[k]
                                  \/ k \notin 1 .. m /\ k - m \in 1 .. n /\ all[k] = spans[k - m]
  <2>1. /\ all \in Seq(SpansOf(Names)) /\ Len(all) = m + Len(spans)
        /\ \A k \in 1 .. m : k \in 1 .. Len(all) /\ all[k] = near.spans[k]
        /\ \A k \in 1 .. Len(spans) : m + k \in 1 .. Len(all) /\ all[m + k] = spans[k]
        /\ \A k \in 1 .. Len(all) :
             \/ k \in 1 .. m /\ all[k] = near.spans[k]
             \/ k \notin 1 .. m /\ k - m \in 1 .. Len(spans) /\ all[k] = spans[k - m]
    BY <1>0, Joined
  <2> HIDE DEF all
  <2> QED BY <1>8, <2>1
<1> HIDE DEF all
<1>10. line.spans = all /\ line.width = by + far.width /\ line \in LinesOf(Names)
  <2> DEFINE end == by + far.width
  <2>1. line = [spans |-> all, width |-> end]
    BY <1>4 DEF all
  <2>2. end \in Nat /\ all \in Seq(SpansOf(Names))
    BY <1>2, <1>5, <1>9
  <2> HIDE DEF end
  <2>3. line.spans = all /\ line.width = end /\ line \in LinesOf(Names)
    BY <2>1, <2>2 DEF LinesOf
  <2> QED BY <2>3 DEF end
<1>11. \A k \in 1 .. Len(all) : all[k].to <= line.width
  <2>1. \A k \in 1 .. m : near.spans[k].to <= by + far.width
    BY <1>1, <1>2 DEF by
  <2>2. \A k \in 1 .. n : spans[k].to <= by + far.width
    <3> SUFFICES ASSUME NEW k \in 1 .. n PROVE spans[k].to <= by + far.width
      OBVIOUS
    <3> DEFINE to == far.spans[k].to
    <3>1. to \in Nat /\ to <= far.width /\ far.width \in Nat
      BY <1>2
    <3>2. spans[k] = MovedBy(far.spans[k], by) /\ MovedBy(far.spans[k], by).to = to + by
      BY <1>7, <1>8
    <3> HIDE DEF to
    <3>3. to + by <= by + far.width
      BY <1>5, <3>1
    <3> QED BY <3>2, <3>3
  <2> QED BY <1>9, <1>10, <2>1, <2>2
<1>12. line.width <= by + far.width
  BY <1>2, <1>5, <1>10
<1>13. Merged(line, near, far, by, by + far.width)
  BY <1>8, <1>9, <1>10, <1>11, <1>12 DEF Merged
<1> QED BY <1>13 DEF by, line

\* A line of a block, blank below its last.
LineOf(block, i) == IF i <= Len(block) THEN block[i] ELSE NewLine
Offset(block, i) == Len(LineOf(block, i).spans)
Beneath(lines, width) == \A i \in 1 .. Len(lines) : lines[i].width <= width

\* A block is as wide as its widest line.
LEMMA BlockWidthIs ==
  ASSUME NEW lines \in Seq(LinesOf(Names))
  PROVE  BlockWidth(lines) \in Nat /\ Beneath(lines, BlockWidth(lines))
<1> DEFINE S == DOMAIN lines
           size == [i \in S |-> lines[i].width]
           sizes == {lines[i].width : i \in S}
           n == Len(lines)
           header == 0
<1>1. S = 1 .. n /\ n \in Nat
  BY LenProperties
<1>2. IsFiniteSet(S)
  BY <1>1, FS_Interval
<1>3. \A i \in S : lines[i].width \in Nat
  <2>1. \A i \in S : lines[i] \in LinesOf(Names)
    BY <1>1
  <2> QED BY <2>1, SpansOfNeat
<1>4. BlockWidth(lines) = Longest(sizes, header)
  BY DEF BlockWidth, Longest
<1> HIDE DEF S, n
<1>5. size \in [S -> Nat] /\ \A i \in S : size[i] = lines[i].width
  BY <1>3
<1>6. sizes = {size[i] : i \in S}
  OBVIOUS
<1>7. header \in Nat
  OBVIOUS
<1> HIDE DEF size, sizes, header
<1>8. Longest(sizes, header) \in Nat /\ \A i \in S : Longest(sizes, header) >= size[i]
  BY <1>2, <1>5, <1>6, <1>7, LongestIs
<1> DEFINE width == BlockWidth(lines)
<1>9. width \in Nat /\ \A i \in S : width >= size[i]
  BY <1>4, <1>8
<1> HIDE DEF width
<1>10. \A i \in S : lines[i].width <= width
  BY <1>3, <1>5, <1>9
<1> QED BY <1>1, <1>9, <1>10 DEF Beneath, width, n

\* Three columns further on nothing touches.
LEMMA MergedClean ==
  ASSUME terminal \in Terminals, NEW line, NEW near, NEW far, Clean(near), Clean(far),
         NEW w \in Nat, near.width <= w, NEW by \in Nat, by = w + 2, NEW width,
         Merged(line, near, far, by, width)
  PROVE  Clean(line)
<1> DEFINE m == Len(near.spans)
           n == Len(far.spans)
           p == Len(line.spans)
<1>1. m \in Nat /\ \A k \in 1 .. m : /\ near.spans[k].from \in Nat /\ near.spans[k].to \in Nat
                                     /\ 1 <= near.spans[k].from
                                     /\ near.spans[k].from <= near.spans[k].to
                                     /\ near.spans[k].to <= w
  BY CleanSpans
<1>2. n \in Nat /\ \A k \in 1 .. n : /\ far.spans[k] \in SpansOf(Names)
                                     /\ far.spans[k].from \in Nat /\ far.spans[k].to \in Nat
                                     /\ 1 <= far.spans[k].from
                                     /\ far.spans[k].from <= far.spans[k].to
  BY CleanSpans
<1> DEFINE Shifted(k) == MovedBy(far.spans[k], by)
<1>3. \A k \in 1 .. n : /\ Shifted(k).from = far.spans[k].from + by
                        /\ Shifted(k).to = far.spans[k].to + by
                        /\ Shifted(k).what = far.spans[k].what
  <2> SUFFICES ASSUME NEW k \in 1 .. n
               PROVE  /\ Shifted(k).from = far.spans[k].from + by
                      /\ Shifted(k).to = far.spans[k].to + by
                      /\ Shifted(k).what = far.spans[k].what
    OBVIOUS
  <2>1. far.spans[k] \in SpansOf(Names)
    BY <1>2
  <2> QED BY <2>1, MovedIs
<1>4. line \in LinesOf(Names) /\ p = m + n /\ \A k \in 1 .. p : line.spans[k].to <= line.width
  BY DEF Merged
<1>5. \A k \in 1 .. p : \/ k \in 1 .. m /\ line.spans[k] = near.spans[k]
                        \/ /\ k \notin 1 .. m /\ k - m \in 1 .. n
                           /\ line.spans[k] = Shifted(k - m)
  BY DEF Merged
<1> HIDE DEF m, n, p, Shifted
<1>6. ASSUME NEW k \in 1 .. p
      PROVE  line.spans[k].from \in 1 .. line.spans[k].to
  <2>1. CASE k \in 1 .. m /\ line.spans[k] = near.spans[k]
    BY <1>1, <2>1
  <2>2. CASE k - m \in 1 .. n /\ line.spans[k] = Shifted(k - m)
    <3> DEFINE j == k - m
    <3>1. j \in 1 .. n /\ line.spans[k] = Shifted(j)
      BY <2>2
    <3> HIDE DEF j
    <3>2. /\ line.spans[k].from = far.spans[j].from + by
          /\ line.spans[k].to = far.spans[j].to + by
      BY <1>3, <3>1
    <3>3. /\ far.spans[j].from \in Nat /\ far.spans[j].to \in Nat
          /\ 1 <= far.spans[j].from /\ far.spans[j].from <= far.spans[j].to
      BY <1>2, <3>1
    <3> QED BY <3>2, <3>3
  <2> QED BY <1>5, <2>1, <2>2
<1>7. ASSUME NEW k \in 2 .. p
      PROVE  /\ line.spans[k - 1].to < line.spans[k].from
             /\ Apart(line.spans[k - 1], line.spans[k])
  <2> DEFINE i == k - 1
  <2>1. i \in 1 .. p /\ k \in 1 .. p /\ k = i + 1
    BY <1>1, <1>2, <1>4, <1>7
  <2> HIDE DEF i
  <2>2. CASE k \in 1 .. m /\ line.spans[k] = near.spans[k]
    <3>1. i \in 1 .. m /\ k \in 2 .. m
      BY <1>1, <2>1, <2>2
    <3>2. line.spans[i] = near.spans[i]
      BY <1>1, <1>5, <2>1, <3>1
    <3>3. near.spans[k - 1].to < near.spans[k].from /\ Apart(near.spans[k - 1], near.spans[k])
      BY <3>1 DEF Clean, m
    <3> QED BY <2>2, <3>2, <3>3 DEF i
  <2>3. CASE k \notin 1 .. m /\ k - m \in 1 .. n /\ line.spans[k] = Shifted(k - m)
    <3> DEFINE j == k - m
    <3>1. j \in 1 .. n /\ line.spans[k] = Shifted(j) /\ k = m + j
      BY <1>1, <2>1, <2>3
    <3> HIDE DEF j
    <3>2. /\ line.spans[k].from = far.spans[j].from + by
          /\ line.spans[k].what = far.spans[j].what
      BY <1>3, <3>1
    <3>3. far.spans[j].from \in Nat /\ far.spans[j].from >= 1
      BY <1>2, <3>1
    <3>4. CASE i \in 1 .. m /\ line.spans[i] = near.spans[i]
      <4>1. line.spans[i].to \in Nat /\ line.spans[i].to <= w
        BY <1>1, <3>4
      <4>2. line.spans[k].from - line.spans[i].to > 2 /\ line.spans[i].to < line.spans[k].from
        BY <3>2, <3>3, <4>1
      <4>3. line.spans[k].from \in Nat
        BY <3>2, <3>3
      <4>4. line.spans[k].from - line.spans[i].to > 1
        BY <4>1, <4>2, <4>3
      <4>5. Apart(line.spans[i], line.spans[k])
        BY <4>2, <4>4 DEF Apart
      <4> QED BY <4>2, <4>5 DEF i
    <3>5. CASE i - m \in 1 .. n /\ line.spans[i] = Shifted(i - m)
      <4> DEFINE h == i - m
      <4>1. h \in 1 .. n /\ line.spans[i] = Shifted(h) /\ j = h + 1 /\ j \in 2 .. n /\ j - 1 = h
        BY <1>1, <1>2, <2>1, <3>1, <3>5
      <4> HIDE DEF h
      <4>2. /\ line.spans[i].to = far.spans[h].to + by
            /\ line.spans[i].what = far.spans[h].what
        BY <1>3, <4>1
      <4>3. far.spans[h].to \in Nat
        BY <1>2, <4>1
      <4>4. far.spans[j - 1].to < far.spans[j].from /\ Apart(far.spans[j - 1], far.spans[j])
        BY <4>1 DEF Clean, n
      <4>5. far.spans[h].to < far.spans[j].from /\ Apart(far.spans[h], far.spans[j])
        BY <4>1, <4>4
      <4>6. line.spans[i].to < line.spans[k].from
            /\ line.spans[k].from - line.spans[i].to = far.spans[j].from - far.spans[h].to
        BY <3>2, <3>3, <4>2, <4>3, <4>5
      <4>7. Apart(line.spans[i], line.spans[k])
        <5> DEFINE this == line.spans[i]
                   next == line.spans[k]
                   old == far.spans[h]
                   new == far.spans[j]
                   edge == Edge
        <5>1. Cramped(old, new) => Cramped(this, next)
          <6>1. /\ next.what = new.what /\ this.to = old.to + by
                /\ next.from = new.from + by /\ next.to = new.to + by
            BY <1>3, <3>1, <4>2
          <6>2. /\ old.to \in Nat /\ new.from \in Nat /\ new.to \in Nat
            BY <1>2, <3>1, <4>3
          <6>3. edge \in Nat
            BY RoomIs
          <6> HIDE DEF this, next, old, new, edge
          <6>4. old.to + (new.to - new.from + 1) >= edge =>
                  this.to + (next.to - next.from + 1) >= edge
            BY <6>1, <6>2, <6>3
          <6> QED BY <6>1, <6>4 DEF Cramped, Size, edge
        <5>2. this.what = old.what /\ next.what = new.what
          BY <3>2, <4>2
        <5>3. next.from - this.to = new.from - old.to /\ Apart(old, new)
          BY <4>5, <4>6
        <5> HIDE DEF this, next, old, new, edge
        <5>4. Apart(this, next)
          BY <5>1, <5>2, <5>3 DEF Apart
        <5> QED BY <5>4 DEF this, next
      <4> QED BY <4>6, <4>7 DEF i
    <3> QED BY <1>5, <2>1, <3>4, <3>5
  <2> QED BY <1>5, <2>1, <2>2, <2>3
<1> QED BY <1>4, <1>6, <1>7 DEF Clean, p

\* The lines of two blocks side by side: each is there, the second further to the right.
Mixed(lines, near, far, by) ==
  /\ \A i \in 1 .. Len(near) : i \in 1 .. Len(lines)
  /\ \A i \in 1 .. Len(near) : \A k \in 1 .. Len(near[i].spans) :
       k \in 1 .. Len(lines[i].spans) /\ lines[i].spans[k] = near[i].spans[k]
  /\ \A i \in 1 .. Len(far) : i \in 1 .. Len(lines)
  /\ \A i \in 1 .. Len(far) : \A k \in 1 .. Len(far[i].spans) :
       /\ Offset(near, i) + k \in 1 .. Len(lines[i].spans)
       /\ lines[i].spans[Offset(near, i) + k] = MovedBy(far[i].spans[k], by)
  /\ \A i \in 1 .. Len(lines) : i \in 1 .. Len(near) \/ i \in 1 .. Len(far)
  /\ \A i \in 1 .. Len(lines) : \A k \in 1 .. Len(lines[i].spans) :
       \/ /\ i \in 1 .. Len(near) /\ k \in 1 .. Len(near[i].spans)
          /\ lines[i].spans[k] = near[i].spans[k]
       \/ \E m \in Nat : /\ i \in 1 .. Len(far) /\ m \in 1 .. Len(far[i].spans)
                         /\ k = Offset(near, i) + m
                         /\ lines[i].spans[k] = MovedBy(far[i].spans[m], by)

\* Two blocks are put beside each other line by line.
LEMMA ColumnsMerged ==
  ASSUME NEW near, NEW far, Paper(near), Paper(far), Full(near), Full(far),
         NEW w \in Nat, Beneath(near, w), NEW u \in Nat, Beneath(far, u)
  PROVE  LET lines == Columns(near, far, w + GUTTER + 1) IN
         /\ lines \in Seq(LinesOf(Names))
         /\ \A i \in 1 .. Len(near) : i \in 1 .. Len(lines)
         /\ \A i \in 1 .. Len(far) : i \in 1 .. Len(lines)
         /\ \A i \in 1 .. Len(lines) : i \in 1 .. Len(near) \/ i \in 1 .. Len(far)
         /\ \A i \in 1 .. Len(lines) :
              Merged(lines[i], LineOf(near, i), LineOf(far, i), w + 2, w + 2 + u)
<1> DEFINE column == w + GUTTER + 1
           m == Len(near)
           n == Len(far)
           most == Max({m, n})
           Line(i) == IF IsBlank(LineOf(far, i)) THEN TrimEnd(LineOf(near, i))
                      ELSE Beside(LineOf(near, i), LineOf(far, i), column)
           lines == Columns(near, far, column)
<1>1. lines = [i \in 1 .. most |-> Line(i)]
  BY DEF Columns, LineOf
<1>2. m \in Nat /\ n \in Nat
  BY DEF Paper
<1>3. most \in Nat /\ most = IF m >= n THEN m ELSE n
  <2>1. m \in Int /\ n \in Int
    BY <1>2
  <2>2. Max({m, n}) = IF m >= n THEN m ELSE n
    BY <2>1, MaxOfTwo
  <2> QED BY <1>2, <2>2
<1> HIDE DEF most, m, n
<1>4. \A i \in 1 .. most : i \in 1 .. m \/ i \in 1 .. n
  BY <1>2, <1>3
<1>5. (\A i \in 1 .. m : i \in 1 .. most) /\ (\A i \in 1 .. n : i \in 1 .. most)
  BY <1>2, <1>3
<1>6. Clean(NewLine)
  <2>1. \A k \in 1 .. Len(NewLine.spans) : FALSE
    BY BlankLine
  <2>2. \A k \in 2 .. Len(NewLine.spans) : FALSE
    BY BlankLine
  <2> QED BY <2>1, <2>2, BlankLine DEF Clean
<1>7. ASSUME NEW i \in 1 .. most
      PROVE Merged(Line(i), LineOf(near, i), LineOf(far, i), w + 2, w + 2 + u)
  <2> DEFINE a == LineOf(near, i)
             b == LineOf(far, i)
  <2>1. CASE i \in 1 .. n
    <3>1. b = far[i]
      BY <1>2, <2>1 DEF LineOf, m, n
    <3>2. Clean(b) /\ ~IsBlank(b) /\ b.width \in Nat /\ b.width <= u
      BY <2>1, <3>1, CleanSpans DEF Paper, Full, Beneath, n
    <3>3. Clean(a) /\ a.width <= w
      <4>1. CASE i \in 1 .. m
        <5>1. a = near[i]
          BY <1>2, <4>1 DEF LineOf, m, n
        <5> QED BY <4>1, <5>1 DEF Paper, Beneath, m
      <4>2. CASE i \notin 1 .. m
        <5>1. a = NewLine
          BY <1>2, <4>2 DEF LineOf, m, n
        <5> QED BY <1>6, <5>1, BlankLine
      <4> QED BY <4>1, <4>2
    <3>4. Line(i) = Beside(a, b, column)
      BY <3>2
    <3> HIDE DEF a, b
    <3>5. Merged(Beside(a, b, w + GUTTER + 1), a, b, w + 2, w + 2 + b.width)
      BY <3>2, <3>3, BesideIs
    <3> DEFINE line == Beside(a, b, w + GUTTER + 1)
    <3> HIDE DEF line
    <3>6. line \in LinesOf(Names) /\ line.width <= w + 2 + b.width
      BY <3>5 DEF Merged, line
    <3>7. line.width \in Nat
      BY <3>6, SpansOfNeat
    <3>8. line.width <= w + 2 + u
      BY <3>2, <3>6, <3>7
    <3>9. Merged(line, a, b, w + 2, w + 2 + u)
      BY <3>5, <3>8 DEF Merged, line
    <3> QED BY <3>4, <3>9 DEF line, a, b
  <2>2. CASE i \notin 1 .. n
    <3>1. b = NewLine /\ IsBlank(b)
      BY <1>2, <2>2, BlankLine DEF LineOf, m, n
    <3>2. i \in 1 .. m
      BY <1>4, <2>2
    <3>3. a = near[i]
      BY <1>2, <3>2 DEF LineOf, m, n
    <3>4. Clean(a) /\ ~IsBlank(a) /\ a.width <= w
      BY <3>2, <3>3 DEF Paper, Full, Beneath, m
    <3>5. Line(i) = TrimEnd(a)
      BY <3>1
    <3> HIDE DEF a, b, Line
    <3> DEFINE width == w + 2 + u
               by == w + 2
    <3>6. width \in Nat /\ by \in Nat /\ a.width <= width
      BY <3>4, CleanSpans
    <3> HIDE DEF width, by
    <3>7. Merged(TrimEnd(a), a, NewLine, by, width)
      BY <3>4, <3>6, TrimIs
    <3> QED BY <3>1, <3>5, <3>7 DEF width, by, a, b
  <2> QED BY <2>1, <2>2
<1> HIDE DEF Line
<1>8. \A i \in 1 .. most : Line(i) \in LinesOf(Names)
  BY <1>7 DEF Merged
<1> HIDE DEF lines
<1>9. lines \in Seq(LinesOf(Names)) /\ Len(lines) = most /\ \A i \in 1 .. most : lines[i] = Line(i)
  BY <1>1, <1>3, <1>8
<1> QED BY <1>4, <1>5, <1>7, <1>9 DEF lines, m, n

\* They fit if their widths and the gutter do, and hold the pieces of both.
LEMMA ColumnsAre ==
  ASSUME terminal \in Terminals,
         NEW near, NEW far, Paper(near), Paper(far), Full(near), Full(far),
         NEW w \in Nat, Beneath(near, w), NEW u \in Nat, Beneath(far, u), w + GUTTER + u <= Edge
  PROVE  LET lines == Columns(near, far, w + GUTTER + 1) IN
         /\ Paper(lines) /\ Full(lines) /\ Beneath(lines, w + GUTTER + u)
         /\ Mixed(lines, near, far, w + 2)
<1> DEFINE lines == Columns(near, far, w + GUTTER + 1)
           by == w + 2
           width == w + 2 + u
<1>1. /\ lines \in Seq(LinesOf(Names))
      /\ \A i \in 1 .. Len(near) : i \in 1 .. Len(lines)
      /\ \A i \in 1 .. Len(far) : i \in 1 .. Len(lines)
      /\ \A i \in 1 .. Len(lines) : i \in 1 .. Len(near) \/ i \in 1 .. Len(far)
      /\ \A i \in 1 .. Len(lines) : Merged(lines[i], LineOf(near, i), LineOf(far, i), by, width)
  BY ColumnsMerged
<1>2. by \in Nat /\ width \in Nat /\ by = w + 2 /\ width = w + GUTTER + u /\ width <= Edge
  BY DEF GUTTER
<1> HIDE DEF lines, by, width
<1>3. Len(near) \in Nat /\ Len(far) \in Nat
  BY DEF Paper
<1>4. Clean(NewLine) /\ NewLine.width = 0 /\ Len(NewLine.spans) = 0
  <2>1. \A k \in 1 .. Len(NewLine.spans) : FALSE
    BY BlankLine
  <2>2. \A k \in 2 .. Len(NewLine.spans) : FALSE
    BY BlankLine
  <2> QED BY <2>1, <2>2, BlankLine DEF Clean
<1>5. ASSUME NEW i \in 1 .. Len(near)
      PROVE  LineOf(near, i) = near[i] /\ Clean(near[i]) /\ near[i].width <= w
  BY <1>3 DEF LineOf, Paper, Beneath
<1>6. ASSUME NEW i \in 1 .. Len(far)
      PROVE  LineOf(far, i) = far[i] /\ Clean(far[i])
  BY <1>3 DEF LineOf, Paper
<1>7. ASSUME NEW i \in 1 .. Len(lines), i \notin 1 .. Len(near) PROVE LineOf(near, i) = NewLine
  <2>1. i \in Nat /\ ~(i <= Len(near))
    BY <1>1, <1>3, <1>7
  <2> QED BY <2>1 DEF LineOf
<1>8. ASSUME NEW i \in 1 .. Len(lines), i \notin 1 .. Len(far) PROVE LineOf(far, i) = NewLine
  <2>1. i \in Nat /\ ~(i <= Len(far))
    BY <1>1, <1>3, <1>8
  <2> QED BY <2>1 DEF LineOf
<1>9. ASSUME NEW i \in 1 .. Len(lines)
      PROVE  /\ Clean(LineOf(near, i)) /\ LineOf(near, i).width <= w /\ Clean(LineOf(far, i))
  BY <1>4, <1>5, <1>6, <1>7, <1>8
<1>10. ASSUME NEW i \in 1 .. Len(lines)
       PROVE  Clean(lines[i]) /\ lines[i].width <= width /\ lines[i].width \in Nat
  <2> DEFINE line == lines[i]
             a == LineOf(near, i)
             b == LineOf(far, i)
  <2>1. Clean(a) /\ Clean(b) /\ a.width <= w /\ Merged(line, a, b, by, width)
    BY <1>1, <1>9
  <2> HIDE DEF line, a, b
  <2>2. Clean(line)
    BY <1>2, <2>1, MergedClean
  <2>3. line.width <= width
    BY <2>1 DEF Merged
  <2>4. line.width \in Nat
    BY <2>2, CleanSpans
  <2> QED BY <2>2, <2>3, <2>4 DEF line
<1>11. Edge \in Nat
  <2>1. terminal \in Nat
    BY PagesAssumption
  <2> QED BY <2>1, EdgeIs
<1>12. \A i \in 1 .. Len(lines) : Within(lines[i])
  <2>1. \A i \in 1 .. Len(lines) : ~(lines[i].width > Edge)
    BY <1>2, <1>10, <1>11
  <2> QED BY <2>1 DEF Within
<1>13. Paper(lines)
  BY <1>1, <1>10, <1>12 DEF Paper
<1>14. Beneath(lines, width)
  BY <1>10 DEF Beneath
<1>15. ASSUME NEW i \in 1 .. Len(near), NEW k \in 1 .. Len(near[i].spans)
       PROVE  k \in 1 .. Len(lines[i].spans) /\ lines[i].spans[k] = near[i].spans[k]
  BY <1>1, <1>5 DEF Merged
<1>16. ASSUME NEW i \in 1 .. Len(far), NEW k \in 1 .. Len(far[i].spans)
       PROVE  /\ Offset(near, i) + k \in 1 .. Len(lines[i].spans)
              /\ lines[i].spans[Offset(near, i) + k] = MovedBy(far[i].spans[k], by)
  <2> DEFINE a == LineOf(near, i)
             line == lines[i]
  <2>1. i \in 1 .. Len(lines) /\ LineOf(far, i) = far[i]
    BY <1>1, <1>6
  <2>2. Merged(line, a, far[i], by, width)
    BY <1>1, <2>1
  <2> HIDE DEF a, line
  <2>3. /\ Len(a.spans) + k \in 1 .. Len(line.spans)
        /\ line.spans[Len(a.spans) + k] = MovedBy(far[i].spans[k], by)
    BY <2>2 DEF Merged
  <2> QED BY <2>3 DEF Offset, a, line
<1>17. ASSUME NEW i \in 1 .. Len(lines), NEW k \in 1 .. Len(lines[i].spans)
       PROVE  \/ /\ i \in 1 .. Len(near) /\ k \in 1 .. Len(near[i].spans)
                 /\ lines[i].spans[k] = near[i].spans[k]
              \/ \E m \in Nat : /\ i \in 1 .. Len(far) /\ m \in 1 .. Len(far[i].spans)
                                /\ k = Offset(near, i) + m
                                /\ lines[i].spans[k] = MovedBy(far[i].spans[m], by)
  <2> DEFINE a == LineOf(near, i)
             b == LineOf(far, i)
  <2>1. \/ k \in 1 .. Len(a.spans) /\ lines[i].spans[k] = a.spans[k]
        \/ /\ k \notin 1 .. Len(a.spans) /\ k - Len(a.spans) \in 1 .. Len(b.spans)
           /\ lines[i].spans[k] = MovedBy(b.spans[k - Len(a.spans)], by)
    BY <1>1 DEF Merged
  <2>2. Len(a.spans) \in Nat /\ Len(b.spans) \in Nat
    BY <1>9, CleanSpans
  <2>3. CASE k \in 1 .. Len(a.spans) /\ lines[i].spans[k] = a.spans[k]
    <3>1. i \in 1 .. Len(near)
      <4>1. ASSUME i \notin 1 .. Len(near) PROVE FALSE
        BY <1>4, <1>7, <2>3, <4>1
      <4> QED BY <4>1
    <3> QED BY <1>5, <2>3, <3>1
  <2>4. CASE /\ k \notin 1 .. Len(a.spans) /\ k - Len(a.spans) \in 1 .. Len(b.spans)
             /\ lines[i].spans[k] = MovedBy(b.spans[k - Len(a.spans)], by)
    <3>1. i \in 1 .. Len(far)
      <4>1. ASSUME i \notin 1 .. Len(far) PROVE FALSE
        BY <1>4, <1>8, <2>4, <4>1
      <4> QED BY <4>1
    <3>2. b = far[i]
      BY <1>6, <3>1
    <3> DEFINE m == k - Len(a.spans)
    <3>3. m \in Nat /\ k = Len(a.spans) + m
      BY <2>2, <2>4
    <3> HIDE DEF m
    <3>4. m \in 1 .. Len(far[i].spans) /\ lines[i].spans[k] = MovedBy(far[i].spans[m], by)
      BY <2>4, <3>2 DEF m
    <3> QED BY <3>1, <3>3, <3>4 DEF Offset
  <2> QED BY <2>1, <2>3, <2>4
<1>18. Mixed(lines, near, far, by)
  BY <1>1, <1>15, <1>16, <1>17 DEF Mixed
<1>19. Full(lines)
  <2>1. ASSUME NEW i \in 1 .. Len(lines) PROVE \E k \in 1 .. Len(lines[i].spans) : TRUE
    <3>1. CASE i \in 1 .. Len(near)
      <4>1. ~IsBlank(near[i]) /\ near[i].spans \in Seq(SpansOf(Names)) /\ Len(near[i].spans) \in Nat
        BY <1>5, <3>1, CleanSpans DEF Full
      <4>2. 1 \in 1 .. Len(near[i].spans)
        BY <4>1, EmptySeq DEF IsBlank
      <4> QED BY <1>15, <3>1, <4>2
    <3>2. CASE i \in 1 .. Len(far)
      <4>1. ~IsBlank(far[i]) /\ far[i].spans \in Seq(SpansOf(Names)) /\ Len(far[i].spans) \in Nat
        BY <1>6, <3>2, CleanSpans DEF Full
      <4>2. 1 \in 1 .. Len(far[i].spans)
        BY <4>1, EmptySeq DEF IsBlank
      <4> QED BY <1>16, <3>2, <4>2
    <3> QED BY <1>1, <3>1, <3>2
  <2>2. ASSUME NEW i \in 1 .. Len(lines), IsBlank(lines[i]) PROVE FALSE
    <3>1. lines[i].spans = <<>> /\ Len(<<>>) = 0
      BY <2>2 DEF IsBlank
    <3> QED BY <2>1, <3>1
  <2> QED BY <2>2 DEF Full
<1> QED BY <1>2, <1>13, <1>14, <1>18, <1>19 DEF lines, by

\* The pieces of the right block, moved.
LEMMA MovedSpans ==
  ASSUME NEW far, Paper(far), NEW by \in Nat, NEW i \in 1 .. Len(far),
         NEW k \in 1 .. Len(far[i].spans)
  PROVE  LET moved == MovedBy(far[i].spans[k], by) IN
         /\ moved.what = far[i].spans[k].what /\ Told(moved) = Told(far[i].spans[k])
         /\ moved.from = far[i].spans[k].from + by
<1>1. Clean(far[i])
  BY DEF Paper
<1> DEFINE line == far[i]
<1>2. line.spans[k] \in SpansOf(Names)
  BY <1>1, CleanSpans
<1> HIDE DEF line
<1> DEFINE span == line.spans[k]
<1> HIDE DEF span
<1>3. span \in SpansOf(Names)
  BY <1>2 DEF span
<1>4. MovedBy(span, by).what = span.what /\ Told(MovedBy(span, by)) = Told(span)
      /\ MovedBy(span, by).from = span.from + by
  BY <1>3, MovedIs
<1> QED BY <1>4 DEF span, line

\* Where it is said.
Occurs(lines, i, k, what) ==
  /\ i \in 1 .. Len(lines) /\ k \in 1 .. Len(lines[i].spans)
  /\ lines[i].spans[k].what = what

\* What is told is there once.
LEMMA TellsOnce ==
  ASSUME NEW lines, NEW W, Tells(lines, W), NEW what, Shown(what),
         NEW i, NEW j, NEW k, NEW m, Occurs(lines, i, k, what), Occurs(lines, j, m, what)
  PROVE  i = j /\ k = m
<1>0. /\ i \in 1 .. Len(lines) /\ j \in 1 .. Len(lines)
      /\ k \in 1 .. Len(lines[i].spans) /\ m \in 1 .. Len(lines[j].spans)
      /\ lines[i].spans[k].what = what /\ lines[j].spans[m].what = what
  BY DEF Occurs
<1>1. \A p, q \in 1 .. Len(lines) :
        \A x \in 1 .. Len(lines[p].spans), y \in 1 .. Len(lines[q].spans) :
          Shown(lines[p].spans[x].what) /\ lines[p].spans[x].what = lines[q].spans[y].what
            => p = q /\ x = y
  BY DEF Tells
<1>2. \A q \in 1 .. Len(lines) : \A x \in 1 .. Len(lines[i].spans), y \in 1 .. Len(lines[q].spans) :
        Shown(lines[i].spans[x].what) /\ lines[i].spans[x].what = lines[q].spans[y].what
          => i = q /\ x = y
  BY <1>0, <1>1
<1>3. \A y \in 1 .. Len(lines[j].spans) :
        Shown(lines[i].spans[k].what) /\ lines[i].spans[k].what = lines[j].spans[y].what
          => i = j /\ k = y
  BY <1>0, <1>2
<1> QED BY <1>0, <1>3

\* Two blocks side by side say what each of them says.
LEMMA MixedTells ==
  ASSUME NEW lines, NEW near, NEW far, Paper(far), NEW by \in Nat,
         Mixed(lines, near, far, by), NEW V, NEW W, Tells(near, V), Tells(far, W), Distinct(V, W)
  PROVE  Tells(lines, V \cup W)
<1> DEFINE Near(i, k, j) == /\ i \in 1 .. Len(near) /\ j \in 1 .. Len(near[i].spans) /\ k = j
                            /\ lines[i].spans[k].what = near[i].spans[j].what
                            /\ Told(lines[i].spans[k]) = Told(near[i].spans[j])
           Far(i, k, j) == /\ i \in 1 .. Len(far) /\ j \in 1 .. Len(far[i].spans)
                           /\ k = Offset(near, i) + j
                           /\ lines[i].spans[k].what = far[i].spans[j].what
                           /\ Told(lines[i].spans[k]) = Told(far[i].spans[j])
<1>1. ASSUME NEW i \in 1 .. Len(lines), NEW k \in 1 .. Len(lines[i].spans)
      PROVE  (\E j : Near(i, k, j)) \/ (\E j : Far(i, k, j))
  <2>1. CASE /\ i \in 1 .. Len(near) /\ k \in 1 .. Len(near[i].spans)
             /\ lines[i].spans[k] = near[i].spans[k]
    <3>1. Near(i, k, k)
      BY <2>1
    <3> QED BY <3>1
  <2>2. CASE \E m \in Nat : /\ i \in 1 .. Len(far) /\ m \in 1 .. Len(far[i].spans)
                            /\ k = Offset(near, i) + m
                            /\ lines[i].spans[k] = MovedBy(far[i].spans[m], by)
    <3>1. PICK m \in Nat : /\ i \in 1 .. Len(far) /\ m \in 1 .. Len(far[i].spans)
                           /\ k = Offset(near, i) + m
                           /\ lines[i].spans[k] = MovedBy(far[i].spans[m], by)
      BY <2>2
    <3>2. /\ MovedBy(far[i].spans[m], by).what = far[i].spans[m].what
          /\ Told(MovedBy(far[i].spans[m], by)) = Told(far[i].spans[m])
      BY <3>1, MovedSpans
    <3>3. Far(i, k, m)
      BY <3>1, <3>2
    <3> QED BY <3>3
  <2> QED BY <2>1, <2>2 DEF Mixed
<1>2. ASSUME NEW i \in 1 .. Len(near), NEW k \in 1 .. Len(near[i].spans)
      PROVE  /\ i \in 1 .. Len(lines) /\ k \in 1 .. Len(lines[i].spans)
             /\ lines[i].spans[k] = near[i].spans[k]
  BY DEF Mixed
<1>3. ASSUME NEW i \in 1 .. Len(far), NEW k \in 1 .. Len(far[i].spans)
      PROVE  /\ i \in 1 .. Len(lines) /\ Offset(near, i) + k \in 1 .. Len(lines[i].spans)
             /\ lines[i].spans[Offset(near, i) + k].what = far[i].spans[k].what
             /\ Told(lines[i].spans[Offset(near, i) + k]) = Told(far[i].spans[k])
  <2>1. /\ i \in 1 .. Len(lines) /\ Offset(near, i) + k \in 1 .. Len(lines[i].spans)
        /\ lines[i].spans[Offset(near, i) + k] = MovedBy(far[i].spans[k], by)
    BY DEF Mixed
  <2>2. /\ MovedBy(far[i].spans[k], by).what = far[i].spans[k].what
        /\ Told(MovedBy(far[i].spans[k], by)) = Told(far[i].spans[k])
    BY MovedSpans
  <2> QED BY <2>1, <2>2
<1>4. ASSUME NEW i, NEW k, NEW j, Near(i, k, j), Shown(lines[i].spans[k].what)
      PROVE  Told(lines[i].spans[k]) \in V
  BY <1>4 DEF Tells
<1>5. ASSUME NEW i, NEW k, NEW j, Far(i, k, j), Shown(lines[i].spans[k].what)
      PROVE  Told(lines[i].spans[k]) \in W
  BY <1>5 DEF Tells
<1>6. \A i \in 1 .. Len(lines) : \A k \in 1 .. Len(lines[i].spans) :
        Shown(lines[i].spans[k].what) => Told(lines[i].spans[k]) \in V \cup W
  <2> HIDE DEF Near, Far
  <2> QED BY <1>1, <1>4, <1>5
<1>7. ASSUME NEW w \in V \cup W
      PROVE  \E i \in 1 .. Len(lines) : \E k \in 1 .. Len(lines[i].spans) :
               Shown(lines[i].spans[k].what) /\ Told(lines[i].spans[k]) = w
  <2>1. CASE w \in V
    <3>1. PICK i \in 1 .. Len(near) : \E k \in 1 .. Len(near[i].spans) :
                 Shown(near[i].spans[k].what) /\ Told(near[i].spans[k]) = w
      BY <2>1 DEF Tells
    <3>2. PICK k \in 1 .. Len(near[i].spans) :
                 Shown(near[i].spans[k].what) /\ Told(near[i].spans[k]) = w
      BY <3>1
    <3> QED BY <1>2, <3>2
  <2>2. CASE w \in W
    <3>1. PICK i \in 1 .. Len(far) : \E k \in 1 .. Len(far[i].spans) :
                 Shown(far[i].spans[k].what) /\ Told(far[i].spans[k]) = w
      BY <2>2 DEF Tells
    <3>2. PICK k \in 1 .. Len(far[i].spans) :
                 Shown(far[i].spans[k].what) /\ Told(far[i].spans[k]) = w
      BY <3>1
    <3> QED BY <1>3, <3>2
  <2> QED BY <2>1, <2>2
<1>8. ASSUME NEW i \in 1 .. Len(lines), NEW j \in 1 .. Len(lines),
             NEW k \in 1 .. Len(lines[i].spans), NEW m \in 1 .. Len(lines[j].spans),
             Shown(lines[i].spans[k].what), lines[i].spans[k].what = lines[j].spans[m].what
      PROVE  i = j /\ k = m
  <2> DEFINE what == lines[i].spans[k].what
  <2>0. Shown(what) /\ lines[i].spans[k].what = what /\ lines[j].spans[m].what = what
    BY <1>8
  <2> HIDE DEF what
  <2>1. \A a, b : Near(i, k, a) /\ Near(j, m, b) => i = j /\ k = m
    <3> SUFFICES ASSUME NEW a, NEW b, Near(i, k, a), Near(j, m, b) PROVE i = j /\ k = m
      OBVIOUS
    <3>1. Occurs(near, i, a, what) /\ Occurs(near, j, b, what)
      BY <2>0 DEF Occurs
    <3>2. k = a /\ m = b
      OBVIOUS
    <3> HIDE DEF Near, Far
    <3>3. i = j /\ a = b
      BY <2>0, <3>1, TellsOnce
    <3> QED BY <3>2, <3>3
  <2>2. \A a, b : Far(i, k, a) /\ Far(j, m, b) => i = j /\ k = m
    <3> SUFFICES ASSUME NEW a, NEW b, Far(i, k, a), Far(j, m, b) PROVE i = j /\ k = m
      OBVIOUS
    <3>1. Occurs(far, i, a, what) /\ Occurs(far, j, b, what)
      BY <2>0 DEF Occurs
    <3>2. k = Offset(near, i) + a /\ m = Offset(near, j) + b
      OBVIOUS
    <3> HIDE DEF Near, Far
    <3>3. i = j /\ a = b
      BY <2>0, <3>1, TellsOnce
    <3> QED BY <3>2, <3>3
  <2>3. Told(lines[i].spans[k])[1] = Told(lines[j].spans[m])[1]
    BY <1>8 DEF Told
  <2>4. \A a, b : ~(Near(i, k, a) /\ Far(j, m, b))
    <3> SUFFICES ASSUME NEW a, NEW b, Near(i, k, a), Far(j, m, b) PROVE FALSE
      OBVIOUS
    <3>1. Told(lines[i].spans[k]) \in V
      BY <1>4, <1>8
    <3>2. Told(lines[j].spans[m]) \in W
      BY <1>5, <1>8
    <3> QED BY <2>3, <3>1, <3>2 DEF Distinct
  <2>5. \A a, b : ~(Far(i, k, a) /\ Near(j, m, b))
    <3> SUFFICES ASSUME NEW a, NEW b, Far(i, k, a), Near(j, m, b) PROVE FALSE
      OBVIOUS
    <3>1. Told(lines[i].spans[k]) \in W
      BY <1>5, <1>8
    <3>2. Told(lines[j].spans[m]) \in V
      BY <1>4, <1>8
    <3> QED BY <2>3, <3>1, <3>2 DEF Distinct
  <2> HIDE DEF Near, Far
  <2> QED BY <1>1, <2>1, <2>2, <2>4, <2>5
<1> QED BY <1>6, <1>7, <1>8 DEF Tells

\* Times stay under their stages.
LEMMA MixedTimed ==
  ASSUME NEW lines, NEW near, NEW far, Paper(far), NEW by \in Nat,
         Mixed(lines, near, far, by), Timed(near), Timed(far)
  PROVE  Timed(lines)
<1>1. ASSUME NEW i \in 1 .. Len(lines), NEW k \in 1 .. Len(lines[i].spans),
             IsName(lines[i].spans[k].what), lines[i].spans[k].what.part = "timing"
      PROVE  i - 1 \in 1 .. Len(lines) /\ Under(lines[i].spans[k], lines[i - 1])
  <2> DEFINE p == i - 1
  <2>1. CASE /\ i \in 1 .. Len(near) /\ k \in 1 .. Len(near[i].spans)
             /\ lines[i].spans[k] = near[i].spans[k]
    <3>1. p \in 1 .. Len(near) /\ Under(near[i].spans[k], near[p])
      BY <1>1, <2>1 DEF Timed
    <3> HIDE DEF p
    <3>2. PICK m \in 1 .. Len(near[p].spans) :
            /\ IsName(near[p].spans[m].what) /\ near[p].spans[m].what.part = "stage"
            /\ near[p].spans[m].what.row = near[i].spans[k].what.row
            /\ near[p].spans[m].from = near[i].spans[k].from
      BY <3>1 DEF Under
    <3>3. /\ p \in 1 .. Len(lines) /\ m \in 1 .. Len(lines[p].spans)
          /\ lines[p].spans[m] = near[p].spans[m]
      BY <3>1, <3>2 DEF Mixed
    <3>4. Under(lines[i].spans[k], lines[p])
      BY <2>1, <3>2, <3>3 DEF Under
    <3>5. p \in 1 .. Len(lines) /\ Under(lines[i].spans[k], lines[p])
      BY <3>3, <3>4
    <3> QED BY <3>5 DEF p
  <2>2. CASE \E m \in Nat : /\ i \in 1 .. Len(far) /\ m \in 1 .. Len(far[i].spans)
                            /\ k = Offset(near, i) + m
                            /\ lines[i].spans[k] = MovedBy(far[i].spans[m], by)
    <3>1. PICK m \in Nat : /\ i \in 1 .. Len(far) /\ m \in 1 .. Len(far[i].spans)
                           /\ k = Offset(near, i) + m
                           /\ lines[i].spans[k] = MovedBy(far[i].spans[m], by)
      BY <2>2
    <3>2. /\ lines[i].spans[k].what = far[i].spans[m].what
          /\ lines[i].spans[k].from = far[i].spans[m].from + by
      BY <3>1, MovedSpans
    <3>3. p \in 1 .. Len(far) /\ Under(far[i].spans[m], far[p])
      BY <1>1, <3>1, <3>2 DEF Timed
    <3> HIDE DEF p
    <3>4. PICK q \in 1 .. Len(far[p].spans) :
            /\ IsName(far[p].spans[q].what) /\ far[p].spans[q].what.part = "stage"
            /\ far[p].spans[q].what.row = far[i].spans[m].what.row
            /\ far[p].spans[q].from = far[i].spans[m].from
      BY <3>3 DEF Under
    <3> DEFINE r == Offset(near, p) + q
    <3>5. /\ p \in 1 .. Len(lines) /\ r \in 1 .. Len(lines[p].spans)
          /\ lines[p].spans[r] = MovedBy(far[p].spans[q], by)
      BY <3>3, <3>4 DEF Mixed
    <3>6. /\ MovedBy(far[p].spans[q], by).what = far[p].spans[q].what
          /\ MovedBy(far[p].spans[q], by).from = far[p].spans[q].from + by
      <4>1. p \in 1 .. Len(far)
        BY <3>3
      <4>2. q \in 1 .. Len(far[p].spans)
        BY <3>4
      <4> QED BY <4>1, <4>2, MovedSpans
    <3> HIDE DEF r
    <3>7. Under(lines[i].spans[k], lines[p])
      BY <3>2, <3>4, <3>5, <3>6 DEF Under
    <3>8. p \in 1 .. Len(lines) /\ Under(lines[i].spans[k], lines[p])
      BY <3>5, <3>7
    <3> QED BY <3>8 DEF p
  <2> QED BY <2>1, <2>2 DEF Mixed
<1> QED BY <1>1 DEF Timed

\* A title is on the first of the lines, if it is on any.
TitleFirst(lines) ==
  \A i \in 2 .. Len(lines) : \A k \in 1 .. Len(lines[i].spans) :
    IsName(lines[i].spans[k].what) => lines[i].spans[k].what.row # "title"

\* The titles of both stand on the first line.
LEMMA MixedTitles ==
  ASSUME NEW lines, NEW near, NEW far, Paper(near), Paper(far), NEW by \in Nat,
         Mixed(lines, near, far, by), TitleFirst(near), TitleFirst(far)
  PROVE  TitleFirst(lines)
<1>1. Len(near) \in Nat /\ Len(far) \in Nat
  BY DEF Paper
<1>2. ASSUME NEW i \in 2 .. Len(lines), NEW k \in 1 .. Len(lines[i].spans),
             IsName(lines[i].spans[k].what)
      PROVE  lines[i].spans[k].what.row # "title"
  <2>1. CASE /\ i \in 1 .. Len(near) /\ k \in 1 .. Len(near[i].spans)
             /\ lines[i].spans[k] = near[i].spans[k]
    <3>1. i \in 2 .. Len(near)
      BY <1>1, <2>1
    <3> QED BY <1>2, <2>1, <3>1 DEF TitleFirst
  <2>2. CASE \E m \in Nat : /\ i \in 1 .. Len(far) /\ m \in 1 .. Len(far[i].spans)
                            /\ k = Offset(near, i) + m
                            /\ lines[i].spans[k] = MovedBy(far[i].spans[m], by)
    <3>1. PICK m \in Nat : /\ i \in 1 .. Len(far) /\ m \in 1 .. Len(far[i].spans)
                           /\ k = Offset(near, i) + m
                           /\ lines[i].spans[k] = MovedBy(far[i].spans[m], by)
      BY <2>2
    <3>2. lines[i].spans[k].what = far[i].spans[m].what
      BY <3>1, MovedSpans
    <3>3. i \in 2 .. Len(far)
      BY <1>1, <3>1
    <3> QED BY <1>2, <3>1, <3>2, <3>3 DEF TitleFirst
  <2>3. i \in 1 .. Len(lines)
    BY <1>2
  <2> QED BY <2>1, <2>2, <2>3 DEF Mixed
<1> QED BY <1>2 DEF TitleFirst

\* A block is there as a whole, below line "at" and further to the right by as much.
Kept(lines, body, at, by) ==
  /\ at \in Nat /\ by \in Nat
  /\ \A i \in 1 .. Len(body) : at + i \in 1 .. Len(lines)
  /\ \A i \in 1 .. Len(body) : \A k \in 1 .. Len(body[i].spans) :
       \E m \in 1 .. Len(lines[at + i].spans) :
         lines[at + i].spans[m] = MovedBy(body[i].spans[k], by)
  /\ \A i \in 1 .. Len(body) : \A k \in 1 .. Len(lines[at + i].spans) :
       IsName(lines[at + i].spans[k].what) /\ lines[at + i].spans[k].what.row = "title" => i = 1

\* A section in one piece stays so when lines follow.
LEMMA KeptBefore ==
  ASSUME NEW S, NEW a \in Seq(S), NEW b \in Seq(S), NEW body, NEW at, NEW by, Kept(a, body, at, by)
  PROVE  Kept(a \o b, body, at, by)
<1> DEFINE c == a \o b
<1>1. \A i \in 1 .. Len(a) : i \in 1 .. Len(c) /\ c[i] = a[i]
  BY Joined
<1> HIDE DEF c
<1>2. \A i \in 1 .. Len(body) : at + i \in 1 .. Len(c) /\ c[at + i] = a[at + i]
  BY <1>1 DEF Kept
<1>3. Kept(c, body, at, by)
  <2>1. at \in Nat /\ by \in Nat
    BY DEF Kept
  <2>2. ASSUME NEW i \in 1 .. Len(body), NEW k \in 1 .. Len(body[i].spans)
        PROVE  \E m \in 1 .. Len(c[at + i].spans) :
                 c[at + i].spans[m] = MovedBy(body[i].spans[k], by)
    <3>1. \E m \in 1 .. Len(a[at + i].spans) :
            a[at + i].spans[m] = MovedBy(body[i].spans[k], by)
      BY DEF Kept
    <3> QED BY <1>2, <3>1
  <2>3. ASSUME NEW i \in 1 .. Len(body), NEW k \in 1 .. Len(c[at + i].spans),
               IsName(c[at + i].spans[k].what), c[at + i].spans[k].what.row = "title"
        PROVE  i = 1
    <3> DEFINE line == a[at + i]
    <3>1. c[at + i] = line
      BY <1>2
    <3>2. k \in 1 .. Len(line.spans) /\ IsName(line.spans[k].what)
          /\ line.spans[k].what.row = "title"
      BY <2>3, <3>1
    <3> QED BY <3>2 DEF Kept
  <2> QED BY <1>2, <2>1, <2>2, <2>3 DEF Kept
<1> QED BY <1>3 DEF c

\* And when lines come before.
LEMMA KeptAfter ==
  ASSUME NEW S, NEW a \in Seq(S), NEW b \in Seq(S), NEW body, NEW at, NEW by, Kept(b, body, at, by)
  PROVE  Kept(a \o b, body, Len(a) + at, by)
<1> DEFINE c == a \o b
           n == Len(a)
           there == n + at
<1>1. n \in Nat /\ \A i \in 1 .. Len(b) : n + i \in 1 .. Len(c) /\ c[n + i] = b[i]
  BY Joined
<1>2. at \in Nat /\ by \in Nat
  BY DEF Kept
<1> HIDE DEF c, n
<1>3. ASSUME NEW i \in 1 .. Len(body) PROVE there + i \in 1 .. Len(c) /\ c[there + i] = b[at + i]
  <2>1. at + i \in 1 .. Len(b)
    BY DEF Kept
  <2>2. n + (at + i) \in 1 .. Len(c) /\ c[n + (at + i)] = b[at + i]
    BY <1>1, <2>1
  <2>3. n + (at + i) = there + i
    BY <1>1, <1>2
  <2> QED BY <2>2, <2>3
<1>4. there \in Nat
  BY <1>1, <1>2
<1> HIDE DEF there
<1>5. Kept(c, body, there, by)
  <2>1. there \in Nat /\ by \in Nat
    BY <1>4, <1>2
  <2>2. ASSUME NEW i \in 1 .. Len(body), NEW k \in 1 .. Len(body[i].spans)
        PROVE  \E m \in 1 .. Len(c[there + i].spans) :
                 c[there + i].spans[m] = MovedBy(body[i].spans[k], by)
    <3>1. \E m \in 1 .. Len(b[at + i].spans) :
            b[at + i].spans[m] = MovedBy(body[i].spans[k], by)
      BY DEF Kept
    <3> QED BY <1>3, <3>1
  <2>3. ASSUME NEW i \in 1 .. Len(body), NEW k \in 1 .. Len(c[there + i].spans),
               IsName(c[there + i].spans[k].what), c[there + i].spans[k].what.row = "title"
        PROVE  i = 1
    <3> DEFINE line == b[at + i]
    <3>1. c[there + i] = line
      BY <1>3
    <3>2. k \in 1 .. Len(line.spans) /\ IsName(line.spans[k].what)
          /\ line.spans[k].what.row = "title"
      BY <2>3, <3>1
    <3> QED BY <3>2 DEF Kept
  <2> QED BY <1>3, <2>1, <2>2, <2>3 DEF Kept
<1> QED BY <1>5 DEF c, n, there

\* Beside another, a block that was kept is, and so is the other.
LEMMA MixedKept ==
  ASSUME NEW lines, NEW near, NEW far, Paper(near), Paper(far), NEW by \in Nat,
         Mixed(lines, near, far, by), TitleFirst(lines)
  PROVE  /\ \A body, to : Kept(near, body, 0, to) => Kept(lines, body, 0, to)
         /\ Kept(lines, far, 0, by)
<1>1. \A i : i \in 1 .. Len(lines) /\ i # 1 => i \in 2 .. Len(lines)
  OBVIOUS
<1>2. \A i \in 1 .. Len(lines) : \A k \in 1 .. Len(lines[i].spans) :
        IsName(lines[i].spans[k].what) /\ lines[i].spans[k].what.row = "title" => i = 1
  BY <1>1 DEF TitleFirst
<1>3. ASSUME NEW body, NEW to, Kept(near, body, 0, to) PROVE Kept(lines, body, 0, to)
  <2>1. to \in Nat /\ 0 \in Nat
    BY <1>3 DEF Kept
  <2>2. ASSUME NEW i \in 1 .. Len(body)
        PROVE  /\ 0 + i = i /\ i \in 1 .. Len(near) /\ i \in 1 .. Len(lines)
               /\ \A k \in 1 .. Len(body[i].spans) : \E m \in 1 .. Len(near[i].spans) :
                    near[i].spans[m] = MovedBy(body[i].spans[k], to)
    <3>1. 0 + i = i
      OBVIOUS
    <3>2. i \in 1 .. Len(near)
      BY <1>3, <3>1 DEF Kept
    <3>3. i \in 1 .. Len(lines)
      BY <3>2 DEF Mixed
    <3>4. \A k \in 1 .. Len(body[i].spans) : \E m \in 1 .. Len(near[i].spans) :
            near[i].spans[m] = MovedBy(body[i].spans[k], to)
      <4>1. \A k \in 1 .. Len(body[i].spans) : \E m \in 1 .. Len(near[0 + i].spans) :
              near[0 + i].spans[m] = MovedBy(body[i].spans[k], to)
        BY <1>3 DEF Kept
      <4> DEFINE at == 0 + i
      <4>2. at = i
        BY <3>1
      <4> HIDE DEF at
      <4>3. \A k \in 1 .. Len(body[i].spans) : \E m \in 1 .. Len(near[at].spans) :
              near[at].spans[m] = MovedBy(body[i].spans[k], to)
        BY <4>1 DEF at
      <4> QED BY <4>2, <4>3
    <3> QED BY <3>1, <3>2, <3>3, <3>4
  <2>3. ASSUME NEW i \in 1 .. Len(body), NEW k \in 1 .. Len(body[i].spans)
        PROVE  \E m \in 1 .. Len(lines[i].spans) :
                 lines[i].spans[m] = MovedBy(body[i].spans[k], to)
    <3>1. PICK m \in 1 .. Len(near[i].spans) : near[i].spans[m] = MovedBy(body[i].spans[k], to)
      BY <2>2
    <3>2. m \in 1 .. Len(lines[i].spans) /\ lines[i].spans[m] = near[i].spans[m]
      BY <2>2, <3>1 DEF Mixed
    <3> QED BY <3>1, <3>2
  <2> QED BY <1>2, <2>1, <2>2, <2>3 DEF Kept
<1>4. Kept(lines, far, 0, by)
  <2>1. \A i \in 1 .. Len(far) : 0 + i = i /\ i \in 1 .. Len(lines)
    BY DEF Mixed
  <2>2. ASSUME NEW i \in 1 .. Len(far), NEW k \in 1 .. Len(far[i].spans)
        PROVE  \E m \in 1 .. Len(lines[i].spans) :
                 lines[i].spans[m] = MovedBy(far[i].spans[k], by)
    BY DEF Mixed
  <2> QED BY <1>2, <2>1, <2>2 DEF Kept
<1> QED BY <1>3, <1>4

\* A section is one piece of itself.
LEMMA KeptItself ==
  ASSUME NEW body, Paper(body), TitleFirst(body)
  PROVE  Kept(body, body, 0, 0)
<1>1. ASSUME NEW span \in SpansOf(Names) PROVE MovedBy(span, 0) = span
  <2> DEFINE zero == 0
             moved == MovedBy(span, zero)
  <2>1. zero \in Nat
    OBVIOUS
  <2>2. moved \in SpansOf(Names) /\ moved.what = span.what /\ moved.from = span.from + zero
        /\ moved.to = span.to + zero
    BY <2>1, MovedIs
  <2> HIDE DEF moved
  <2>3. span.from \in Nat /\ span.to \in Nat
    BY DEF SpansOf
  <2>4. moved.from = span.from /\ moved.to = span.to
    BY <2>2, <2>3
  <2>5. moved = span
    BY <2>2, <2>4 DEF SpansOf
  <2> QED BY <2>5 DEF moved
<1>2. \A i \in 1 .. Len(body) : 0 + i = i
  OBVIOUS
<1>3. ASSUME NEW i \in 1 .. Len(body), NEW k \in 1 .. Len(body[i].spans)
      PROVE  \E m \in 1 .. Len(body[i].spans) : body[i].spans[m] = MovedBy(body[i].spans[k], 0)
  <2> DEFINE line == body[i]
  <2>1. Clean(line)
    BY DEF Paper
  <2> HIDE DEF line
  <2>2. line.spans[k] \in SpansOf(Names)
    BY <2>1, CleanSpans DEF line
  <2>3. MovedBy(line.spans[k], 0) = line.spans[k]
    BY <1>1, <2>2
  <2> QED BY <2>3 DEF line
<1>4. \A i : i \in 1 .. Len(body) /\ i # 1 => i \in 2 .. Len(body)
  OBVIOUS
<1>5. \A i \in 1 .. Len(body) : \A k \in 1 .. Len(body[i].spans) :
        IsName(body[i].spans[k].what) /\ body[i].spans[k].what.row = "title" => i = 1
  BY <1>4 DEF TitleFirst
<1> QED BY <1>2, <1>3, <1>5 DEF Kept

=============================================================================
