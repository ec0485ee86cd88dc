------------------------------ MODULE MCListen ------------------------------
(***************************************************************************)
(* Listen on a machine with a container runtime's helper (process 1), a    *)
(* program of the user (2) and one of somebody else (3), around port 80.   *)
(***************************************************************************)
EXTENDS Listen

Socket(protocol, address, port, state, peer, uid, holders) ==
  [protocol |-> protocol, address |-> address, port |-> port, state |-> state,
   peer |-> peer, uid |-> uid, holders |-> holders]

MCSockets ==
  { Socket("tcp", "0.0.0.0", 80, "listen", FALSE, 501, {1}),
    Socket("tcp", "::", 80, "listen", FALSE, 501, {1}),
    Socket("tcp", "127.0.0.1", 80, "listen", FALSE, 501, {1, 2}),
    Socket("tcp", "192.168.1.24", 80, "established", TRUE, 501, {2}),
    Socket("udp", "0.0.0.0", 80, "none", FALSE, 0, {3}),
    Socket("udp", "::1", 53, "none", FALSE, 501, {2}) }

Publish(name, ip, protocol) ==
  [name |-> name, ports |-> {[ip |-> ip, public |-> 80, protocol |-> protocol]}]

MCAnswers ==
  { <<>>,
    <<Publish("web", "0.0.0.0", "tcp")>>,
    <<Publish("web", "0.0.0.0", "tcp"), Publish("api", "::", "tcp")>>,
    <<Publish("all", "", "udp"), Publish("api", "::", "tcp")>>,
    <<Publish("private", "127.0.0.1", "tcp"), Publish("web", "0.0.0.0", "tcp")>> }

Options(protocols, all, exposed, port, no_containers) ==
  [protocols |-> protocols, all |-> all, exposed |-> exposed, port |-> port,
   no_containers |-> no_containers]

MCOptionSets ==
  { Options({"tcp", "udp"}, FALSE, FALSE, 0, FALSE),
    Options({"tcp", "udp"}, TRUE, TRUE, 80, FALSE),
    Options({"tcp"}, FALSE, TRUE, 0, TRUE) }

=============================================================================
