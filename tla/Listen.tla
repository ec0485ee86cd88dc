------------------------------- MODULE Listen -------------------------------
(***************************************************************************)
(* `netinspect listen`: `listen` of src/main.rs over sys/macos/sockets.rs, *)
(* `annotate` of container/mod.rs and render/listen.rs.  The kernel's      *)
(* control blocks are dumped, TCP first and UDP after it; then each        *)
(* process is asked which blocks its descriptors lead to; the two are      *)
(* joined by the address of the block, filtered, counted, matched with     *)
(* what a container runtime says, and printed.  Sockets come and go all    *)
(* the while, and a freed block is used again for another socket.          *)
(***************************************************************************)
EXTENDS Integers, FiniteSets, SequencesExt, Arrange

CONSTANTS
  Slots,        \* addresses of protocol control blocks, in the dumps' order
  Pids,         \* processes
  Inspectable,  \* the processes this user may inspect
  Helpers,      \* the processes recognised as a container runtime's helper
  User,         \* current_uid
  Sockets,      \* the sockets that may be open, each at most once
  Answers,      \* what a container runtime may answer: lists of containers
  OptionSets,   \* the command lines
  LIMIT,        \* MAX_DESCRIPTORS
  MaxChanges    \* bound on the sockets opened and closed during the run

Addresses == <<"0.0.0.0", "127.0.0.1", "192.168.1.24", "::", "::1">>
Protocols == {"tcp", "udp"}
Unclaimed == ""       \* a row no container is known for
SomeContainer == "?"  \* a ContainerRef without a name

ASSUME ListenAssumption ==
  /\ IsFiniteSet(Slots) /\ IsFiniteSet(Sockets)
  /\ Slots \subseteq Nat /\ Pids \subseteq Nat \ {0}
  /\ Inspectable \subseteq Pids /\ Helpers \subseteq Pids
  /\ LIMIT \in Nat /\ MaxChanges \in Nat
  /\ \A s \in Sockets :
       /\ s.protocol \in Protocols /\ s.address \in ToSet(Addresses) /\ s.port \in Nat
       /\ s.state \in {"listen", "established", "none"} /\ s.peer \in BOOLEAN
       /\ s.holders \subseteq Pids
  /\ \A o \in OptionSets : o.protocols \subseteq Protocols
  /\ \A a \in Answers : /\ a \in Seq(ToSet(a))
                        /\ \A c \in ToSet(a) : c.name \notin {Unclaimed, SomeContainer}

VARIABLES
  live,      \* the kernel: which socket each control block is of
  unopened,  \* the sockets that can still be opened
  changes,   \* how many sockets were opened or closed
  options,   \* the command line
  pc,        \* how far the command is
  raw,       \* the dumped blocks: slot and socket
  todo,      \* the processes still to be inspected
  owners,    \* slot -> pid; 0 if nobody was found
  table,     \* table.sockets, in order
  summary,   \* table.summary
  answer,    \* the runtime's containers; Silent if none answered
  page,      \* what is printed
  lasting,   \* history: the sockets open all along
  taken      \* history: the blocks used again after they were dumped

world == <<live, unopened, changes, lasting, taken>>
vars == <<world, options, pc, raw, todo, owners, table, summary, answer, page>>

Free == [protocol |-> "none"]
Silent == <<[name |-> "nobody answered"]>>
NoPage == [groups |-> <<>>, exposed |-> 0, unattributed |-> 0]

-----------------------------------------------------------------------------
(* The pure parts.                                                         *)

Exposure(address) ==
  CASE address \in {"0.0.0.0", "::"} -> "wildcard"
    [] address \in {"127.0.0.1", "::1"} -> "loopback"
    [] OTHER -> "interface"

Groups == <<"wildcard", "interface", "loopback">>

IndexIn(seq, x) == CHOOSE i \in DOMAIN seq : seq[i] = x
Rank(s) == IndexIn(Groups, Exposure(s.address))

IsListening(s) == IF s.state = "none" THEN s.port # 0 /\ ~s.peer ELSE s.state = "listen"

\* The sort of `join`; it is stable over the order of the dumps.
Key(r) ==
  <<Rank(r.socket), r.socket.port, IndexIn(Addresses, r.socket.address),
    IF r.socket.protocol = "tcp" THEN 0 ELSE 1, r.slot>>

Before(a, b) ==
  \E i \in 1..5 : /\ Key(a)[i] < Key(b)[i]
                  /\ \A j \in 1..i - 1 : Key(a)[j] = Key(b)[j]

InOrder(rows) == Arranged(rows, {p \in rows \X rows : Before(p[1], p[2])})

Named(entry, byBlock) ==
  [slot |-> entry.slot, socket |-> entry.socket, pid |-> byBlock[entry.slot],
   container |-> Unclaimed]

Join_ByPort(entries, byBlock) ==
  LET Guess(e) == IF byBlock[e.slot] # 0 THEN byBlock[e.slot]
                  ELSE LET same == {f \in entries : /\ f.socket.port = e.socket.port
                                                    /\ byBlock[f.slot] # 0}
                       IN IF same = {} THEN 0 ELSE byBlock[(CHOOSE f \in same : TRUE).slot]
  IN InOrder({[Named(e, byBlock) EXCEPT !.pid = Guess(e)] : e \in entries})

Join(entries, byBlock) == InOrder({Named(e, byBlock) : e \in entries})

Passes(row, o) ==
  /\ o.port = 0 \/ row.socket.port = o.port
  /\ o.exposed => Exposure(row.socket.address) # "loopback"

Retain(rows, o) == Picked(rows, {i \in DOMAIN rows : Passes(rows[i], o)})

Summarise(rows) ==
  [wildcard |-> Cardinality({i \in DOMAIN rows : Exposure(rows[i].socket.address) = "wildcard"}),
   unattributed |-> Cardinality({i \in DOMAIN rows : rows[i].pid = 0})]

-----------------------------------------------------------------------------
(* The container runtime's answer.                                         *)

\* `parse`: any address but the two unspecified ones is dropped.
Published(port) == IF port.ip \in {"0.0.0.0", "::"} THEN {port.ip} ELSE ToSet(Addresses)

Claims_AnyAddress(container, s) ==
  \E port \in container.ports : port.public = s.port /\ port.protocol = s.protocol

Claims(container, s) ==
  \E port \in container.ports :
    /\ port.public = s.port /\ port.protocol = s.protocol
    /\ s.address \in Published(port)

\* The first container with a matching port.
Apply(rows, containers) ==
  [i \in DOMAIN rows |->
     LET claiming == {k \in DOMAIN containers : Claims(containers[k], rows[i].socket)}
     IN IF claiming = {} THEN rows[i]
        ELSE [rows[i] EXCEPT !.container =
                containers[CHOOSE k \in claiming : \A j \in claiming : k <= j].name]]

OnePublish(r, q) ==
  /\ r.pid # 0 /\ r.pid = q.pid
  /\ r.socket.port = q.socket.port /\ r.socket.protocol = q.socket.protocol

SamePublish_NextRow(rows) ==
  [i \in DOMAIN rows |->
     IF rows[i].container = Unclaimed /\ i > 1 /\ OnePublish(rows[i - 1], rows[i])
       THEN [rows[i] EXCEPT !.container = rows[i - 1].container] ELSE rows[i]]

\* A row without a container takes that of the first row of the same publish.
SamePublish(rows) ==
  [i \in DOMAIN rows |->
     LET known == {j \in DOMAIN rows : /\ rows[j].container # Unclaimed
                                       /\ OnePublish(rows[j], rows[i])}
     IN IF rows[i].container # Unclaimed \/ known = {} THEN rows[i]
        ELSE [rows[i] EXCEPT !.container =
                rows[CHOOSE j \in known : \A k \in known : j <= k].container]]

ApplyForwarders(rows) ==
  [i \in DOMAIN rows |->
     IF rows[i].container = Unclaimed /\ rows[i].pid \in Helpers
       THEN [rows[i] EXCEPT !.container = SomeContainer] ELSE rows[i]]

Resolve(rows, containers) ==
  IF containers = Silent THEN ApplyForwarders(rows) ELSE SamePublish(Apply(rows, containers))

-----------------------------------------------------------------------------
(* The printed table.                                                      *)

\* owner_mark, owner_name and detail_text: what kind of owner, which, and what
\* is said about it.
Owner(row) ==
  [mark |-> CASE row.container # Unclaimed -> "container"
              [] row.container = Unclaimed /\ row.pid # 0 ->
                   IF row.socket.uid = 0 THEN "privileged" ELSE "process"
              [] OTHER -> "none",
   name |-> IF row.container \notin {Unclaimed, SomeContainer} THEN <<"container", row.container>>
            ELSE IF row.pid # 0 THEN <<"process", row.pid>> ELSE <<"unknown">>,
   detail |-> IF row.container # Unclaimed THEN "image"
              ELSE IF row.pid # 0 /\ row.socket.uid # User THEN "user" ELSE ""]

Line(row) == [socket |-> row.socket, pid |-> row.pid, owner |-> Owner(row)]

\* Groups in order of exposure; one without rows is left out with its header.
Sections(rows) ==
  LET Of(group) == {i \in DOMAIN rows : Exposure(rows[i].socket.address) = group}
      shown == Picked(Groups, {n \in DOMAIN Groups : Of(Groups[n]) # {}})
      Lines(group) == [i \in 1..Cardinality(Of(group)) |-> Line(Picked(rows, Of(group))[i])]
  IN [i \in DOMAIN shown |-> [reach |-> shown[i], lines |-> Lines(shown[i])]]

\* The footer counts the exposed ports only when the firewall is off.
Render(rows, counted, firewall) ==
  [groups |-> Sections(rows), unattributed |-> counted.unattributed,
   exposed |-> IF firewall = "off" THEN counted.wildcard ELSE 0]

-----------------------------------------------------------------------------
Init ==
  /\ live \in [Slots -> Sockets \cup {Free}]
  /\ \A h, k \in Slots : h # k /\ live[h] = live[k] => live[h] = Free
  /\ unopened = {s \in Sockets : \A h \in Slots : live[h] # s}
  /\ changes = 0
  /\ options \in OptionSets
  /\ pc = "tcp"
  /\ raw = {} /\ todo = Inspectable /\ owners = [h \in Slots |-> 0]
  /\ table = <<>> /\ summary = Summarise(<<>>) /\ answer = Silent /\ page = NoPage
  /\ lasting = Sockets \ unopened
  /\ taken = {}

Goto(from, to) == pc = from /\ pc' = to

\* One of the two dumps, or a protocol that was not asked for.
Dump(protocol, to) ==
  /\ Goto(protocol, to)
  /\ raw' = raw \cup IF protocol \in options.protocols
                       THEN {[slot |-> h, socket |-> live[h]] :
                               h \in {k \in Slots : live[k].protocol = protocol}}
                       ELSE {}
  /\ UNCHANGED <<world, options, todo, owners, table, summary, answer, page>>

\* sysctl fails, or its buffer cannot be parsed: so does the command.
DumpFails ==
  /\ \E protocol \in options.protocols : Goto(protocol, "failed")
  /\ UNCHANGED <<world, options, raw, todo, owners, table, summary, answer, page>>

ListPids ==
  /\ Goto("retain", "owners")
  /\ raw' = IF options.all THEN raw ELSE {e \in raw : IsListening(e.socket)}
  /\ UNCHANGED <<world, options, todo, owners, table, summary, answer, page>>

\* pids_by_type fails: nobody is named, and that is all.
ListPidsFails ==
  /\ Goto("retain", "join")
  /\ raw' = IF options.all THEN raw ELSE {e \in raw : IsListening(e.socket)}
  /\ UNCHANGED <<world, options, todo, owners, table, summary, answer, page>>

Held(p) == {h \in Slots : live[h] # Free /\ p \in live[h].holders}

\* One process; of more than LIMIT descriptors only LIMIT are seen.  A block
\* that was already found under another process stays with that one.
Inspect(p) ==
  /\ pc = "owners" /\ p \in todo
  /\ todo' = todo \ {p}
  /\ \E seen \in SUBSET Held(p) :
       /\ Cardinality(seen) = IF Cardinality(Held(p)) <= LIMIT
                                THEN Cardinality(Held(p)) ELSE LIMIT
       /\ owners' = [h \in Slots |-> IF owners[h] = 0 /\ h \in seen THEN p ELSE owners[h]]
  /\ UNCHANGED <<world, options, pc, raw, table, summary, answer, page>>

OwnersListed ==
  /\ todo = {}
  /\ Goto("owners", "join")
  /\ UNCHANGED <<world, options, raw, todo, owners, table, summary, answer, page>>

Tabulate_CountsFirst ==
  /\ Goto("join", "containers")
  /\ LET joined == Join(raw, owners)
     IN /\ table' = Retain(joined, options)
        /\ summary' = Summarise(joined)
  /\ raw' = {} /\ owners' = [h \in Slots |-> 0]
  /\ UNCHANGED <<world, options, todo, answer, page>>

\* join, retain, and the summary of what is shown; the sources are dropped.
Tabulate ==
  /\ Goto("join", "containers")
  /\ table' = Retain(Join(raw, owners), options)
  /\ summary' = Summarise(table')
  /\ raw' = {} /\ owners' = [h \in Slots |-> 0]
  /\ UNCHANGED <<world, options, todo, answer, page>>

Annotate ==
  /\ ~options.no_containers
  /\ Goto("containers", "print")
  /\ answer' \in Answers \cup {Silent}
  /\ table' = Resolve(table, answer')
  /\ UNCHANGED <<world, options, raw, todo, owners, summary, page>>

SkipContainers ==
  /\ options.no_containers
  /\ Goto("containers", "print")
  /\ UNCHANGED <<world, options, raw, todo, owners, table, summary, answer, page>>

\* The firewall is read last.
ShowPage ==
  /\ Goto("print", "done")
  /\ \E firewall \in {"off", "other"} : page' = Render(table, summary, firewall)
  /\ UNCHANGED <<world, options, raw, todo, owners, table, summary, answer>>

-----------------------------------------------------------------------------
(* The other programs of the machine, as long as the command looks at them. *)

Looking == pc \in {"tcp", "udp", "retain", "owners"}

Open(h, s) ==
  /\ changes < MaxChanges /\ Looking
  /\ live[h] = Free /\ s \in unopened
  /\ live' = [live EXCEPT ![h] = s]
  /\ unopened' = unopened \ {s}
  /\ changes' = changes + 1
  /\ taken' = taken \cup ({h} \cap {e.slot : e \in raw})
  /\ UNCHANGED <<options, pc, raw, todo, owners, table, summary, answer, page, lasting>>

Close(h) ==
  /\ changes < MaxChanges /\ Looking
  /\ live[h] # Free
  /\ live' = [live EXCEPT ![h] = Free]
  /\ changes' = changes + 1
  /\ lasting' = lasting \ {live[h]}
  /\ UNCHANGED <<options, pc, raw, todo, owners, table, summary, answer, page, unopened, taken>>

-----------------------------------------------------------------------------
Step ==
  \/ Dump("tcp", "udp") \/ Dump("udp", "retain") \/ DumpFails
  \/ ListPids \/ ListPidsFails \/ \E p \in Pids : Inspect(p)
  \/ OwnersListed \/ Tabulate \/ Annotate \/ SkipContainers \/ ShowPage

Next ==
  \/ Step
  \/ \E h \in Slots : Close(h) \/ \E s \in Sockets : Open(h, s)

Spec == Init /\ [][Next]_vars
-----------------------------------------------------------------------------
(* Properties.                                                             *)

Rows == ToSet(table)
Printed == UNION {ToSet(page.groups[i].lines) : i \in DOMAIN page.groups}

TypeOK ==
  /\ live \in [Slots -> Sockets \cup {Free}] /\ unopened \subseteq Sockets
  /\ changes \in 0..MaxChanges /\ options \in OptionSets
  /\ pc \in {"tcp", "udp", "retain", "owners", "join", "containers", "print", "done", "failed"}
  /\ raw \subseteq [slot : Slots, socket : Sockets] /\ todo \subseteq Inspectable
  /\ owners \in [Slots -> Inspectable \cup {0}]
  /\ \A r \in Rows : r.socket \in Sockets /\ r.pid \in Inspectable \cup {0}
  /\ answer \in Answers \cup {Silent}
  /\ \A i \in DOMAIN page.groups : page.groups[i].lines # <<>>
  /\ lasting \subseteq Sockets /\ taken \subseteq Slots

Wanted(s) ==
  /\ s.protocol \in options.protocols /\ (options.all \/ IsListening(s))
  /\ options.port \in {0, s.port}
  /\ options.exposed => Exposure(s.address) # "loopback"

EveryListenerListed ==
  pc = "done" => \A s \in lasting : Wanted(s) =>
    \E i \in DOMAIN page.groups :
      /\ page.groups[i].reach = Exposure(s.address)
      /\ \E line \in ToSet(page.groups[i].lines) : line.socket = s

NameIsRight ==
  \A r \in Rows : r.pid # 0 /\ r.slot \notin taken => r.pid \in r.socket.holders

NamelessIsOthers ==
  LET Opened(p) == {s \in Sockets \ unopened : p \in s.holders}
  IN todo = {} => \A r \in Rows :
       r.pid = 0 /\ r.socket \in lasting =>
         \A p \in r.socket.holders \cap Inspectable : Cardinality(Opened(p)) > LIMIT

\* What the table says of a socket is true, whoever runs the command and
\* whatever else fails.  Every socket that was open all along and was asked for
\* is printed, in the group of its exposure.  The process named is one that held
\* this very socket, not one that shares its address and port (but for control
\* blocks used again after the dump).  Where nobody is named, the footer's
\* "owned by other users" is right: the processes that held it may not be
\* inspected, or have more descriptors than are listed (but for a run whose
\* process list failed).
RowsAreTrue == TypeOK /\ EveryListenerListed /\ NameIsRight /\ NamelessIsOthers

\* The footer counts what is on the page, although it was counted before the
\* containers were asked for and is printed after the firewall was read.
FooterDescribesPage ==
  pc = "done" =>
    /\ page.unattributed = Cardinality({l \in Printed : l.pid = 0})
    /\ page.exposed \in {0, Cardinality({l \in Printed : Exposure(l.socket.address) = "wildcard"})}

NoGuessBesideAnswer ==
  answer # Silent => \A r \in Rows : r.container # SomeContainer

\* The rows of one publish all show a container or none does: whatever the
\* order of rows, and whichever of them the answer matched.
PublishHalvesAgree ==
  \A r, q \in Rows : OnePublish(r, q) /\ r.container # Unclaimed => q.container # Unclaimed

PublishedThere(r) ==
  \E c \in ToSet(answer) : c.name = r.container /\
    \E port \in c.ports : /\ port.public = r.socket.port /\ port.protocol = r.socket.protocol
                          /\ port.ip \in {"", r.socket.address}

ClaimIsPublished ==
  answer # Silent => \A r \in Rows : r.container # Unclaimed =>
    \E q \in Rows : /\ (r = q \/ OnePublish(r, q))
                    /\ q.container = r.container /\ PublishedThere(q)

WildcardClaimsArePublished ==
  (answer # Silent /\ \A c \in ToSet(answer) : \A port \in c.ports :
                         port.ip \in {"", "0.0.0.0", "::"}) => ClaimIsPublished

\* When a runtime answered, a container is shown only where it was published, or
\* on the sibling row of that publish, and none on the strength of a helper's
\* name alone; as long as containers publish on all addresses of a family.
ClaimsAreFounded == NoGuessBesideAnswer /\ WildcardClaimsArePublished

-----------------------------------------------------------------------------
(* What the sources say of the matching and the matching does not do.      *)

\* "A published address must agree when the runtime gave one", and an absent
\* address stands for a publish on every address (src/container/mod.rs).
PublishedAddressAgrees == ClaimIsPublished

=============================================================================
