------------------------------ MODULE MCLadder ------------------------------
(***************************************************************************)
(* Ladder on small instances: at most two interfaces, two addresses.       *)
(***************************************************************************)
EXTENDS Ladder

Iface(active, addresses, default, gateway) ==
  [active |-> active, addresses |-> addresses,
   is_default_route |-> default, gateway |-> gateway]

WithGateway == Iface(TRUE, {"global", "link_local"}, TRUE, "literal")
SelfAssigned == Iface(TRUE, {"link_local"}, TRUE, "literal")
Tunnel == Iface(TRUE, {"global"}, TRUE, "none")
Garbled == Iface(TRUE, {"global"}, TRUE, "garbage")
Unplugged == Iface(FALSE, {"global"}, FALSE, "none")

\* No interface, one that works, one DHCP never answered, a default route
\* without a gateway or with one that does not parse, and pairs of these in
\* either order.
Tables ==
  {<<>>, <<WithGateway>>, <<SelfAssigned>>, <<Tunnel>>, <<Unplugged>>,
   <<Tunnel, WithGateway>>, <<Garbled, WithGateway>>, <<Unplugged, WithGateway>>}

Servers == {{}, {"garbage"}, {"literal", "garbage"}}

=============================================================================
