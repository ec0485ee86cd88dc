------------------------------ MODULE MCDaemon ------------------------------
(***************************************************************************)
(* Daemon with two runtimes: OrbStack, which /var/run/docker.sock leads to *)
(* as well, and a plain Docker; each wedged, short, chunked or endless.    *)
(***************************************************************************)
EXTENDS Daemon

Env(docker_host, home, runtime_dir) ==
  [docker_host |-> docker_host, home |-> home, runtime_dir |-> runtime_dir]

MCEnvironments ==
  { Env("unset", TRUE, FALSE), Env("unix", TRUE, FALSE), Env("tcp", FALSE, TRUE) }

Leads(to) == [p \in Paths |-> IF p \in DOMAIN to THEN to[p] ELSE Nobody]

MCLayouts ==
  { Leads([orbstack |-> "one", system |-> "one"]),
    Leads([orbstack |-> "one", desktop |-> "two", system |-> "two"]),
    Leads([desktop |-> "two", podman |-> "two", system |-> "one"]),
    Leads([host |-> "two", colima |-> "one", podman |-> "one", system |-> "one"]),
    Leads([host |-> Nobody]) }

Reply(status, framing, parts, endless) ==
  [status |-> status, framing |-> framing, parts |-> parts, endless |-> endless]

MCReplies ==
  { Reply(200, "length", 2, FALSE), Reply(200, "chunked", 1, FALSE),
    Reply(200, "close", 2, FALSE), Reply(404, "length", 1, FALSE),
    Reply(200, "chunked", 9, TRUE) }

=============================================================================
