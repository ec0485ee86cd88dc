CONSTANTS
  Runs = {r1, r2, r3}
  Networks <- Places
  Gateway <- Routers
  Isp <- Isps
  VpnAsn = "AS-vpn"
  TTL = 2
  MaxTime = 2
  Overlap = 2
  Changes = {"roam", "tunnel", "crash"}
SPECIFICATION Spec
INVARIANTS ShownWithinTTL FileIsSound  PrivateRunsAskNothing
CHECK_DEADLOCK FALSE
SYMMETRY Symmetric
