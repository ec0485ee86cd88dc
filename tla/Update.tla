------------------------------- MODULE Update -------------------------------
(***************************************************************************)
(* `netinspect update` (src/update): attempts to replace the binary at the *)
(* path it was started as by the latest release.  Each is a sequence of    *)
(* I/O steps, every one of which may fail; a crash may fall between any    *)
(* two; other attempts may be under way, and releases come and go.         *)
(***************************************************************************)
EXTENDS Integers

CONSTANTS
  Updaters,  \* the attempts, each made once
  Newest,    \* bound on the versions: 1..Newest
  Layouts,   \* how the program may be installed: see Init
  Mishaps    \* what may go wrong: subset of {"crash", "io", "network"}

ASSUME UpdateAssumption ==
  /\ Newest \in Nat \ {0}
  /\ Layouts \subseteq [linked : BOOLEAN, homebrew : BOOLEAN,
                        writable : [{"path", "real"} -> BOOLEAN]]
  /\ Mishaps \subseteq {"crash", "io", "network"}

VARIABLES
  layout,    \* how it is installed
  target,    \* the file at the path the program is started as
  released,  \* the latest release
  pc,        \* how far each attempt is
  self,      \* the version it runs as, and whether with --force
  wanted,    \* the release it has picked
  archive,   \* what it downloaded
  scratch,   \* its file .netinspect-update-<pid>, next to the target
  outcome,   \* what it returns, and prints if it lives to
  unremoved  \* history: the attempts that could not remove their file

attempt == <<pc, self, wanted, archive, outcome>>
files == <<target, scratch, unremoved>>
vars == <<layout, files, released, attempt>>

Versions == 1..Newest

\* A file: a program of some version, with its bytes and its mode in order.
Program(version) == [version |-> version, whole |-> TRUE, executable |-> TRUE]
NoFile == [version |-> 0, whole |-> FALSE, executable |-> FALSE]
Files == [version : 0..Newest, whole : BOOLEAN, executable : BOOLEAN]

Releases == [version : Versions, pre : BOOLEAN, complete : BOOLEAN]

-----------------------------------------------------------------------------
\* In a linked layout the path is a symbolic link in another directory; `target`
\* is what it leads to until a rename puts a file in the place of the link.
Init ==
  /\ layout \in Layouts
  /\ \E version \in Versions : target = Program(version)
  /\ released \in Releases
  /\ pc = [u \in Updaters |-> "idle"]
  /\ self = [u \in Updaters |-> [version |-> 0, force |-> FALSE]]
  /\ wanted = [u \in Updaters |-> 0]
  /\ archive = [u \in Updaters |-> "none"]
  /\ scratch = [u \in Updaters |-> NoFile]
  /\ outcome = [u \in Updaters |-> "none"]
  /\ unremoved = {}

Goto(u, from, to) == pc[u] = from /\ pc' = [pc EXCEPT ![u] = to]

Returns(u, result) == outcome' = [outcome EXCEPT ![u] = result]

\* The directory of the path the program was started as.
PathWritable == layout.writable["path"]

\* What `locate` tries: the directory the path resolves to.
RealWritable == IF layout.linked THEN layout.writable["real"] ELSE PathWritable

-----------------------------------------------------------------------------
(* Where is it, and is there something to install?                         *)

Started(u) ==
  \E force \in BOOLEAN :
    self' = [self EXCEPT ![u] = [version |-> target.version, force |-> force]]

Locate(u) ==
  /\ ~layout.homebrew /\ RealWritable
  /\ Goto(u, "idle", "located")
  /\ Started(u)
  /\ UNCHANGED <<layout, files, released, wanted, archive, outcome>>

LocateRefuses(u) ==
  /\ layout.homebrew \/ ~RealWritable
  /\ Goto(u, "idle", "returning")
  /\ Started(u)
  /\ Returns(u, IF layout.homebrew THEN "managed" ELSE "not_writable")
  /\ UNCHANGED <<layout, files, released, wanted, archive>>

Offer(release, current) ==
  IF release.pre THEN "not_offered"
  ELSE IF release.version > current THEN "upgrade"
  ELSE IF release.version = current THEN "current" ELSE "downgrade"

Wants_Different(u) == Offer(released, self[u].version) # "current"

\* --force takes anything but what is already running.
Wants(u) ==
  LET offer == Offer(released, self[u].version)
  IN offer = "upgrade" \/ (offer # "current" /\ self[u].force)

List(u) ==
  /\ Wants(u) /\ released.complete
  /\ Goto(u, "located", "downloading")
  /\ wanted' = [wanted EXCEPT ![u] = released.version]
  /\ UNCHANGED <<layout, files, released, self, archive, outcome>>

\* Nothing to do, nothing it may take, or a release without all its assets.
ListRefuses(u) ==
  /\ ~Wants(u) \/ ~released.complete
  /\ Goto(u, "located", "returning")
  /\ Returns(u, IF Offer(released, self[u].version) = "current"
                 THEN "already_current" ELSE "error")
  /\ UNCHANGED <<layout, files, released, self, wanted, archive>>

-----------------------------------------------------------------------------
(* Fetch everything, and check it.                                         *)

\* Archive, checksums and signature; "hollow" is a release that verifies and
\* does not contain the program.
Download(u) ==
  /\ Goto(u, "downloading", "verifying")
  /\ \E bytes \in {"good", "hollow"} \cup
                  IF "network" \in Mishaps THEN {"damaged"} ELSE {} :
       archive' = [archive EXCEPT ![u] = bytes]
  /\ UNCHANGED <<layout, files, released, self, wanted, outcome>>

\* verify_checksum, verify_signature and extract.
Verify(u) ==
  /\ archive[u] = "good"
  /\ Goto(u, "verifying", "creating")
  /\ UNCHANGED <<layout, files, released, self, wanted, archive, outcome>>

VerifyFails(u) ==
  /\ archive[u] # "good"
  /\ Goto(u, "verifying", "returning") /\ Returns(u, "error")
  /\ UNCHANGED <<layout, files, released, self, wanted, archive>>

NetworkFails(u) ==
  /\ "network" \in Mishaps
  /\ \E from \in {"located", "downloading"} : Goto(u, from, "returning")
  /\ Returns(u, "error")
  /\ UNCHANGED <<layout, files, released, self, wanted, archive>>

-----------------------------------------------------------------------------
(* install::replace: a scratch file in the directory of the path, written, *)
(* flushed, made executable and renamed.                                   *)

Create(u) ==
  /\ PathWritable
  /\ Goto(u, "creating", "writing")
  /\ scratch' = [scratch EXCEPT ![u] = [NoFile EXCEPT !.version = wanted[u]]]
  /\ UNCHANGED <<layout, target, unremoved, released, self, wanted, archive, outcome>>

Write(u) ==
  /\ Goto(u, "writing", "written")
  /\ scratch' = [scratch EXCEPT ![u].whole = (archive[u] = "good")]
  /\ UNCHANGED <<layout, target, unremoved, released, self, wanted, archive, outcome>>

SetPermissions(u) ==
  /\ Goto(u, "written", "renaming")
  /\ scratch' = [scratch EXCEPT ![u].executable = TRUE]
  /\ UNCHANGED <<layout, target, unremoved, released, self, wanted, archive, outcome>>

\* One step to anyone who starts the program, and there is no way back from it.
Rename(u) ==
  /\ Goto(u, "renaming", "placed")
  /\ target' = scratch[u]
  /\ scratch' = [scratch EXCEPT ![u] = NoFile]
  /\ UNCHANGED <<layout, unremoved, released, self, wanted, archive, outcome>>

Finish_Strict(u) ==
  /\ Goto(u, "placed", "returning")
  /\ \E result \in {"updated", "error"} : Returns(u, result)
  /\ UNCHANGED <<layout, files, released, self, wanted, archive>>

\* A quarantine flag that cannot be stripped changes nothing.
Finish(u) ==
  /\ Goto(u, "placed", "returning") /\ Returns(u, "updated")
  /\ UNCHANGED <<layout, files, released, self, wanted, archive>>

ReplaceFails_Leaves(u) ==
  /\ \/ "io" \in Mishaps
     \/ pc[u] = "creating" /\ ~PathWritable
  /\ \E from \in {"creating", "writing", "written", "renaming"} : Goto(u, from, "returning")
  /\ Returns(u, "error")
  /\ UNCHANGED <<layout, files, released, self, wanted, archive>>

\* Any step fails, and Scratch removes its file; that may fail too, unnoticed.
ReplaceFails(u) ==
  /\ \/ "io" \in Mishaps
     \/ pc[u] = "creating" /\ ~PathWritable
  /\ \E from \in {"creating", "writing", "written", "renaming"} : Goto(u, from, "returning")
  /\ Returns(u, "error")
  /\ \/ scratch' = [scratch EXCEPT ![u] = NoFile] /\ UNCHANGED unremoved
     \/ /\ "io" \in Mishaps /\ scratch[u] # NoFile
        /\ unremoved' = unremoved \cup {u} /\ UNCHANGED scratch
  /\ UNCHANGED <<layout, target, released, self, wanted, archive>>

-----------------------------------------------------------------------------
\* main prints what `run` returned.
Announce(u) ==
  /\ Goto(u, "returning", "over")
  /\ UNCHANGED <<layout, files, released, self, wanted, archive, outcome>>

Crash(u) ==
  /\ "crash" \in Mishaps /\ pc[u] \notin {"idle", "over", "dead"}
  /\ pc' = [pc EXCEPT ![u] = "dead"]
  /\ UNCHANGED <<layout, files, released, self, wanted, archive, outcome>>

\* A release is published, withdrawn, or filled with its assets.
Publish ==
  /\ released' \in Releases \ {released}
  /\ UNCHANGED <<layout, files, attempt>>

-----------------------------------------------------------------------------
Step(u) ==
  \/ Locate(u) \/ LocateRefuses(u) \/ List(u) \/ ListRefuses(u)
  \/ Download(u) \/ Verify(u) \/ VerifyFails(u) \/ NetworkFails(u)
  \/ Create(u) \/ Write(u) \/ SetPermissions(u) \/ Rename(u) \/ Finish(u)
  \/ ReplaceFails(u) \/ Announce(u)

Next == Publish \/ \E u \in Updaters : Step(u) \/ Crash(u)

Spec == Init /\ [][Next]_vars

-----------------------------------------------------------------------------
(* Properties.                                                             *)

TypeOK ==
  /\ layout \in Layouts
  /\ target \in Files /\ released \in Releases
  /\ pc \in [Updaters -> {"idle", "located", "downloading", "verifying", "creating",
                          "writing", "written", "renaming", "placed", "returning",
                          "over", "dead"}]
  /\ self \in [Updaters -> [version : 0..Newest, force : BOOLEAN]]
  /\ wanted \in [Updaters -> 0..Newest]
  /\ archive \in [Updaters -> {"none", "good", "hollow", "damaged"}]
  /\ scratch \in [Updaters -> Files]
  /\ outcome \in [Updaters -> {"none", "managed", "not_writable", "already_current",
                               "error", "updated"}]
  /\ unremoved \subseteq Updaters

\* Whatever fails, and whoever else is at it: what stands at the path is a
\* whole program.  An attempt replaces it in one step and once; if it lives to
\* say what it did, that is the truth, and if it is killed it may have done either.
Runnable(file) == file.whole /\ file.executable

Verdict(u) ==
  CASE pc[u] = "dead" -> "killed"
    [] pc[u] = "over" -> IF outcome[u] = "updated" THEN "replaced" ELSE "left"
    [] pc[u] = "placed" \/ (pc[u] = "returning" /\ outcome[u] = "updated") -> "swapped"
    [] OTHER -> "open"

Replacement == INSTANCE Swap WITH
  program <- IF Runnable(target) THEN target.version ELSE 0,
  verdict <- [u \in Updaters |-> Verdict(u)]

SwapsOrLeaves == Replacement!Spec

\* The phases in which an attempt has a scratch file to work on.
Holding == {"writing", "written", "renaming"}

\* A scratch file outlives its attempt only if the attempt was killed before the
\* rename or failed and could not remove it, and never next to one that succeeded.
LeftoversAreExplained ==
  \A u \in Updaters : scratch[u] # NoFile /\ pc[u] \notin Holding =>
    /\ pc[u] = "dead" \/ u \in unremoved
    /\ outcome[u] # "updated"

\* Without --force what an attempt puts in place is newer than what it was started
\* as, whatever is published, withdrawn or installed while it is under way.
NoDowngrade ==
  [][\A u \in Updaters :
       Rename(u) /\ ~self[u].force => target'.version > self[u].version]_vars

=============================================================================
