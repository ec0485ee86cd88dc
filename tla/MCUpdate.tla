------------------------------ MODULE MCUpdate ------------------------------
(***************************************************************************)
(* Update on the ways a program can be installed.                          *)
(***************************************************************************)
EXTENDS Update, TLC

Install(linked, homebrew, atPath, atReal) ==
  [linked |-> linked, homebrew |-> homebrew,
   writable |-> ("path" :> atPath @@ "real" :> atReal)]

Plain == {Install(FALSE, FALSE, TRUE, TRUE)}
Managed == {Install(TRUE, TRUE, TRUE, TRUE)}

\* A link whose two directories may each be read-only.
Links == {Install(TRUE, FALSE, a, b) : a, b \in BOOLEAN}

Every == Plain \cup Managed \cup Links

Symmetric == Permutations(Updaters)

=============================================================================
