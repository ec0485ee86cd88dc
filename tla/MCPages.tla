------------------------------- MODULE MCPages -------------------------------
(* Terminals on both sides of every threshold, the three glyph sets, and      *)
(* texts that fit, that fit one terminal and not another, and that fit none.  *)
EXTENDS Pages

MCTerminals == {30, 48, 66, 80, 91, 98, 140}

Set(mark, icon, connector, ellipsis, monochrome) ==
  [mark |-> mark, icon |-> icon, connector |-> connector, ellipsis |-> ellipsis,
   monochrome |-> monochrome]

MCGlyphs ==
  {Set(1, 0, 2, 1, FALSE), Set(1, 1, 2, 1, FALSE), Set(2, 0, 1, 3, TRUE)}

NoWifi == [ssid |-> 0, signal |-> 0, secondary |-> 0]

Wifi(ssid, signal, secondary) == [ssid |-> ssid, signal |-> signal, secondary |-> secondary]

Address(id, width, note) == [id |-> id, width |-> width, note |-> note]

Radio(wifi, display) ==
  [name |-> "en0", device |-> 3, display |-> display, status |-> 9, active |-> TRUE,
   other |-> FALSE, wifi |-> wifi, protocol |-> 0,
   ipv4 |-> <<Address("v4", 15, 4), Address("v4 more", 18, 10)>>, ipv6 |-> <<Address("v6", 28, 0)>>,
   endpoint |-> 0, handshake |-> 0, gateway |-> 11, mac |-> 17, mtu |-> 8]

Tunnel ==
  [name |-> "utun3", device |-> 5, display |-> 3, status |-> 2, active |-> TRUE,
   other |-> FALSE, wifi |-> NoWifi, protocol |-> 9, ipv4 |-> <<Address("v4", 13, 0)>>,
   ipv6 |-> <<>>, endpoint |-> 21, handshake |-> 17, gateway |-> 0, mac |-> 0, mtu |-> 0]

Idle(name) ==
  [name |-> name, device |-> 5, display |-> 0, status |-> 8, active |-> FALSE,
   other |-> TRUE, wifi |-> NoWifi, protocol |-> 0, ipv4 |-> <<>>, ipv6 |-> <<>>,
   endpoint |-> 0, handshake |-> 0, gateway |-> 0, mac |-> 17, mtu |-> 8]

MCInterfaces ==
  {<<>>, <<Radio(Wifi(9, 14, 32), 5), Idle("awdl0"), Idle("llw0")>>,
   <<Radio(Wifi(32, 14, 18), 54), Tunnel>>, <<Idle("awdl0"), Radio(Wifi(18, 0, 19), 5)>>}

Rung(name, size, outcome, ms) == [name |-> name, size |-> size, outcome |-> outcome, ms |-> ms]

Rungs(outcome, times) ==
  <<Rung("link", 4, "ok", 0), Rung("gateway", 7, "ok", times[1]),
    Rung("dns", 3, outcome, times[2]),
    Rung("http", 4, IF outcome = "ok" THEN "ok" ELSE "untried", times[3])>>

Reach(rungs, verdict, explanation, portal) ==
  [rungs |-> rungs, verdict |-> verdict, explanation |-> explanation, portal |-> portal]

MCReachability ==
  {Reach(<<>>, 0, 0, 0), Reach(Rungs("ok", <<4, 8, 5>>), 6, 17, 0),
   Reach(Rungs("ok", <<5, 8, 8>>), 14, 38, 47), Reach(Rungs("failed", <<4, 0, 0>>), 11, 42, 0)}

Line1(label, size, value, annotation) ==
  [Row(label, size, value) EXCEPT !.annotation = annotation]

MCPublic ==
  {<<>>, <<Row("ipv4", 4, 12), Row("location", 8, 12)>>,
   <<Line1("ipv4", 4, 12, 22), Line1("network", 7, 30, 17), Line1("location", 8, 24, 25),
     Line1("timezone", 8, 16, 30)>>}

MCDns == {<<Row("servers", 7, 24), Row("proxy", 5, 4)>>,
          <<Row("servers", 7, 11), Row("search", 6, 60), Row("proxy", 5, 4)>>}

MCReports ==
  {[kind |-> "report", interfaces |-> i, dns |-> d, reachability |-> r, public |-> p,
    age |-> a, update |-> u, family |-> f, all |-> FALSE] :
     i \in MCInterfaces, d \in MCDns, r \in MCReachability, p \in MCPublic,
     <<a, u, f>> \in {<<0, TRUE, "both">>, <<7, FALSE, "v4">>}}

TableRow(id, destination, gateway, interface, flags, expires) ==
  [id |-> id, destination |-> destination, gateway |-> gateway, interface |-> interface,
   flags |-> flags, expires |-> expires]

MCRoutes ==
  LET Default == TableRow("default", 7, 11, 3, 5, 0)
      Host == TableRow("host", 13, 17, 3, 9, 15)
      Six == TableRow("six", 43, 28, 6, 5, 0)
      Wide == TableRow("wide", 24, 39, 5, 5, 0)
  IN {[kind |-> "routes", groups |-> groups] :
        groups \in {<<<<>>, <<>>>>, <<<<Default, Host>>, <<>>>>, <<<<Default>>, <<Six>>>>,
                    <<<<Default, Host>>, <<Wide>>>>, <<<<>>, <<Wide, Six>>>>}}

Socket(id, address, service, owner, detail, pid) ==
  [id |-> id, address |-> address, service |-> service, owner |-> owner, detail |-> detail,
   pid |-> pid]

MCSockets ==
  LET Plain == Socket("plain", 14, 0, 9, 0, 3)
      Named == Socket("named", 10, 6, 5, 4, 5)
      Boxed == Socket("boxed", 30, 5, 24, 30, 5)
      Nobody == Socket("nobody", 9, 6, 1, 0, 1)
  IN {[kind |-> "listen", groups |-> groups, resolve |-> resolve] :
        groups \in {<<<<>>, <<>>, <<>>>>, <<<<Plain>>, <<>>, <<Nobody>>>>,
                    <<<<Named, Nobody>>, <<Plain>>, <<>>>>, <<<<Boxed>>, <<>>, <<Named>>>>},
        resolve \in BOOLEAN}

MCTables == MCRoutes \cup MCSockets
=============================================================================
