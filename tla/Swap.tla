-------------------------------- MODULE Swap --------------------------------
(***************************************************************************)
(* What `netinspect update` promises to whoever runs the program next: at  *)
(* any moment there is one whole program at its path.  An attempt replaces *)
(* it in one step, by a published one, or leaves it, and what it says of   *)
(* it is true; one that is killed says nothing, before that step or after. *)
(***************************************************************************)
CONSTANTS
  Updaters,  \* the attempts, each made once
  Versions   \* the versions there can be

VARIABLES
  program,   \* the version that runs
  verdict    \* what became of each attempt

Init == program \in Versions /\ verdict = [u \in Updaters |-> "open"]

Becomes(u, from, to) == verdict[u] = from /\ verdict' = [verdict EXCEPT ![u] = to]

Replace(u) == Becomes(u, "open", "swapped") /\ program' \in Versions

Say(u) ==
  /\ Becomes(u, "swapped", "replaced") \/ Becomes(u, "open", "left")
  /\ UNCHANGED program

Die(u) ==
  /\ \E from \in {"open", "swapped"} : Becomes(u, from, "killed")
  /\ UNCHANGED program

Next == \E u \in Updaters : Replace(u) \/ Say(u) \/ Die(u)

Spec == Init /\ [][Next]_<<program, verdict>>

=============================================================================
