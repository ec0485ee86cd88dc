----------------------------- MODULE MCInventory -----------------------------
(* A Wi-Fi interface, the loopback, a tunnel, and a modem that a service    *)
(* dials and that may come and go.  The tunnel may own the default route of *)
(* either family.                                                           *)
EXTENDS Inventory

MCNames == <<"en0", "lo0", "modem", "utun3">>

MCPrefix ==
  [n \in ToSet(MCNames) |->
     CASE n \in {"en0", "modem"} -> "en" [] n = "lo0" -> "lo" [] OTHER -> "utun"]

Link(up, addresses, carrier) == [up |-> up, addresses |-> addresses, carrier |-> carrier]

Routable == {"linkLocal", "routable"}

MCLinks ==
  [n \in ToSet(MCNames) |->
     CASE n = "en0" -> {Link(TRUE, Routable, "yes"), Link(TRUE, Routable, "no")}
       [] n = "lo0" -> {Link(TRUE, Routable, "unknown")}
       [] n = "utun3" -> {Link(TRUE, Routable, "unknown"), Link(TRUE, {"linkLocal"}, "unknown")}
       [] OTHER -> {Absent, Link(TRUE, Routable, "unknown")}]

Owner(owner, router) == [owner |-> owner, router |-> router]

MCOwners ==
  [f \in Families |->
     IF f = "v4" THEN {NoOne, Owner("en0", "router4"), Owner("utun3", "none")}
     ELSE {NoOne, Owner("utun3", "tunnel6")}]

MCServices ==
  [s \in {"wifi", "old", "dial"} |->
     CASE s = "wifi" -> [device |-> "en0", hardware |-> "AirPort", named |-> TRUE]
       [] s = "old" -> [device |-> "en0", hardware |-> "none", named |-> FALSE]
       [] s = "dial" -> [device |-> "modem", hardware |-> "PPP", named |-> TRUE]]

Route(family, interface, cloned) ==
  [family |-> family, default |-> FALSE, cloned |-> cloned, interface |-> interface]

MCExtras ==
  {{}, {Route("v4", "utun3", FALSE), Route("v4", "en0", TRUE), Route("v6", "utun3", FALSE)}}

Asked(command, family, iface) ==
  [command |-> command, family |-> family, iface |-> iface, all |-> FALSE]

MCAskeds ==
  {Asked("report", "both", "none"), Asked("routes", "both", "en0"),
   Asked("routes", "v4", "none")}
=============================================================================
