----------------------------- MODULE MCGeoCache -----------------------------
(***************************************************************************)
(* GeoCache with a home and a cafe whose routers have the same address.    *)
(***************************************************************************)
EXTENDS GeoCache, TLC

Places == {"home", "cafe"}

Routers == [n \in Places |-> "en0@192.168.1.1"]
Isps == [n \in Places |-> IF n = "home" THEN "AS-home" ELSE "AS-cafe"]

Symmetric == Permutations(Runs)

=============================================================================
