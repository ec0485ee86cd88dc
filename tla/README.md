# A formal model of netinspect

`netinspect` is a macOS command-line program that reports on the network a
machine is in: its interfaces, routes and DNS, whether it is online and if not
what is to blame, the public address it is seen from, the sockets that listen
on it, and whether a newer release of itself exists. This directory holds TLA+
models of the parts of it where *order*, *time*, *failure*, *changes of the
machine* and *concurrent runs* decide the result, TLC configurations that check
them on small instances, and proofs checked by TLAPS for every value of the
constants.

`PROJECT.json` maps each definition to the source lines it stands for, lists
the runs, the hazards of the code with the properties about them, a mutant of
the code for each property, the finding and the theorems. Paths below are
relative to the crate (`src/src/` in `PROJECT.json`).

## 1. Inventory

The program is one process per command. Within a process one thread does the
work: a current-thread Tokio runtime for the network, a signal handler that
sets a flag (`--watch`), and one short-lived reader thread per helper process.
Between processes, runs share two files (`geo.json`, `update.json`) and the
program's own binary, with no lock on any of them. Everything else is read from
the kernel and the system configuration, call by call, while the machine goes
on changing.

| Component | Source | State it keeps | Operations | Talks to |
|---|---|---|---|---|
| Reachability ladder | `probe/` | deadline, report, requests in flight | link, gateway, dns, http stages; `bounded` | Tokio timers, connector, resolver, HTTP client |
| Geo lookup and cache | `public/`, `measure` in `main.rs` | `geo.json`: fingerprint, date, observation, baseline | load, is_fresh, lookup, baseline_after, assemble, store | ladder (cancels the lookup), other runs through the file |
| Watch loop | `frame`, `watch`, `wait` in `main.rs`, `sys/mod.rs` | `Carried`, interrupt flag, terminal cursor | collect, measure, draw, wait, restore | signal handler, ladder, geo cache |
| Update check | `update/check.rs`, `refresh_update_check` in `main.rs` | `update.json` | load, due, footer, store | release server, other runs through the file |
| Self-update | `update/` | scratch file, binary at the path | locate, list, download, verify, extract, replace | release server, file system, other updates |
| Listen | `listen` in `main.rs`, `sys/macos/sockets.rs`, `render/listen.rs` | the table of one run | dump the blocks, list owners, join, filter, count, annotate, print | kernel, containers, firewall |
| Containers | `container/mod.rs`, `parse/http.rs` | the exchange with one daemon | candidates, ask, un-frame, apply, forwarders | daemon sockets |
| Walks over kernel dumps | `parse/pcb.rs`, `parse/rt_msg.rs` | offset, pending socket, current record | step over a header, a block, an address | – |
| Routing table | `sys/macos/routes.rs`, `render/routes.rs` | none | size, dump, filter, summarise, columns | kernel, interfaces |
| Interfaces and services | `sys/macos/interfaces.rs`, `services.rs` | none | enumerate, classify, status, gateway, rank | kernel, SystemConfiguration |
| SSID helpers | `sys/macos/wifi.rs`, `ssid_helper.rs`, `scan_record.rs` | child process, pipe, reader thread | spawn, poll, kill, reap, fall back | helper programs |
| Report renderer | `render/human.rs`, `render/layout.rs` | the page | rows, sections, ladder, packing | terminal |
| Other renderers, command line, DNS, VPN, firewall, bindings, model | rest of `render/`, `cli.rs`, `sys/`, `model.rs` | none | one read or one pure map each | – |

What is hard in each, and what makes it correct:

* **Ladder.** Four stages share one deadline (`GATEWAY_TIMEOUT + timeout`);
  each races its own timer against answers that may be ready at the same poll,
  and the runtime may poll late. Correct means: the total stays within the
  budget, a slow stage does not starve the last one, the first failure is the
  one that is blamed, stages behind it stay unset, an answer that is there is
  not reported as silence, and *online* or *portal* is only said on evidence.
* **Geo cache.** Read at the start of a run and overwritten at its end;
  overlapping runs overwrite each other, a kill can fall inside the write, and
  the machine moves and brings tunnels up or down. Correct means: an answer
  never outlives its TTL although hits are written back, the file can be relied
  on by the next run, the verdict about the tunnel is true of the traffic, a
  private run asks nobody and leaves no trace.
* **Watch.** An interrupt can arrive anywhere; a frame can fail with the
  cursor hidden; the address outlives the frame, and possibly the route, it
  was fetched for. Correct means: the interrupt is answered in bounded time,
  the cursor always comes back, the provider is asked once per stay on a
  route, and an old address is dated.
* **Update check.** Check-then-act on a shared file, failures that must be
  recorded, clocks that go backwards. Correct means: one request per interval,
  silence only when covered, no footer that offers what is already installed.
* **Self-update.** A dozen I/O steps, each of which may fail, crashes between
  any two, other updates under way. Correct means: the path always holds a
  whole program, replaced in one step; an attempt that lives to say what it did
  says the truth; a scratch file stays behind only where nobody was left to
  remove it; without `--force` only newer programs are installed.
* **Listen.** Two kernel snapshots taken one after the other are joined by
  addresses that the kernel uses again; process tables are cut at 4096 entries;
  the footer is counted before the page is complete. Correct means: a row tells
  the truth about its socket, nothing that was open all along is missing, the
  footer counts what is on the page, and a container is named only on grounds.
* **Containers.** Several sockets may lead to one daemon; the timeout is per
  read; a reply may be cut anywhere. Correct means: a cut list is never taken
  for the list, one daemon's failure does not hide another, the wait is bounded.
* **Walks.** Lengths chosen by the kernel drive the loops. Correct means: no
  byte outside the block at hand is looked at, the walk stays in step with the
  kernel's padding, every step advances, nothing sticks to a neighbour.
* **Interfaces and routes.** Facts are read one after the other while the
  machine changes. Correct means: a gateway is that of its interface, a usable
  interface is neither hidden nor outranked by a dead one, the table is whole.
* **SSID helpers.** A process that hangs, fills its pipe or leaves a
  grandchild behind. Correct means: the best source wins, only what the user
  allows is started, no child or thread is left, the wait is the timeout.
* **Report renderer.** Texts of any width on terminals of any width. Correct
  means: nothing is lost, nothing touches, the tables are grids.

## 2. Modules

| Module | Models | Abstract specification | Proofs |
|---|---|---|---|
| `Ladder` | `probe/` | `Verdict` | `NetworkProofs` |
| `GeoCache` | `measure` and `public/` for several runs | – | `NetworkProofs` |
| `Watch` | `frame`, `watch`, `wait`, the signal handler | – | `ScreenProofs` |
| `UpdateCheck` | `refresh_update_check`, `update/check.rs` for several runs | – | `UpdateProofs` |
| `Update` | `update/` for several updates | `Swap` | `UpdateProofs` |
| `Listen` over `Arrange` | the `listen` command with `apply`, `same_publish` and `apply_forwarders` | – | `SocketsProofs` |
| `Daemon` | the exchange with the container runtimes | – | `DaemonProofs` |
| `Walks` | the two walks over kernel dumps | – | `SocketsProofs` |
| `Ssid` | the search for the network's name, helpers included | – | `InterfacesProofs` |
| `Inventory` | interfaces, services, routes and the pages' choice among them | – | `InterfacesProofs` |
| `Pages` over `Layout` | the report and the two tables as they are laid out | – | `ScreenProofs`, `SectionProofs`, `ReportProofs` |

Most proof modules speak of two models each: `NetworkProofs` of whether the
machine is online and where it is seen from, `UpdateProofs` of the check for a
release and of its installation, `SocketsProofs` of what `Walks` decodes and
`Listen` shows, `InterfacesProofs` of the interfaces and of the name of the
network one of them is in, `ScreenProofs` of a watch and of what is laid out on
the screen. Since they extend both, the definitions that every model has carry a
prefix in one of them: `LadderInit`, `LadderSpec` and so on in `Ladder`,
`CheckInit`, `CheckSpec` in `UpdateCheck`, `WalkInit` in `Walks`, `InventoryInit`
in `Inventory`, `PageInit` in `Pages`. The proofs about pages take three modules,
each of which extends the one before: `ScreenProofs` (the tables, the lines of a
report, the rows of a block), `SectionProofs` (interfaces, the ladder, sections,
two sections beside each other) and `ReportProofs` (the whole page).

`MC*` modules only supply values of constants and symmetry; `Watch`, `Walks` and
`Ssid` need none and are checked directly.

A definition whose name has the form `Name_Variant` stands before `Name` and is
a plausible mistake in the code behind `Name`. It is never used by a
specification: it is the mutant that the property listed with it in
`PROJECT.json` must catch.

How the modules meet: `GeoCache` has the ladder only by how it ends, `Watch` has
the geo cache as the route and age of the answer on disk, `Listen` has the
runtime's answer that `Daemon` obtains and the socket list that `Walks` decodes,
`Pages` lays out what `Inventory` chooses. Each composes with the other through
that one value, so that they are checked apart.

### Ladder

Time is counted in ticks from the call of `Ladder::run`. `at` is the stage,
`until` the deadline of its `bounded`, `wake` the next moment the runtime has
a reason to poll, `flight` the requests, `answers` what came back whether or not
the ladder has looked at it, `reading` that a response is there and its body is
awaited, `report` the `Reachability` under construction. One action per way a
stage can end (`GatewayUp`, `GatewayDown`, `DnsResolved`, `DnsTimedOut`,
`HttpReplied`, ...); `Connected`, `LookedUp`, `Headers`, `Body`, `NoReply` and
`Tick` are the network and the clock. The runtime polls at most `Lag` ticks after
it was woken, which is what makes the race between an answer and its timer
visible: between the wake-up and the poll both can come true.

Who wins it depends on whose timer it is. `tokio::time::timeout` (`bounded`, the
connection, the two lookups) polls what it bounds before its timer, so that an
answer that is there counts, however late the poll. `net.rs:86` gives the request
a timer of the HTTP client as well, which polls the other way round: first the
timer, then the response, and again before each frame of the body. Whether it
fires in the very poll depends on whether the runtime has turned its clock, so
from `until` on the model has both: a complete reply that is read
(`HttpReplied`), one whose text is lost (`TextsRead`, since `unwrap_or_default`
makes the empty body of an error) and one that is not seen at all (`HttpFailed`).
`bounded`'s own timer wins only over a body that is still on its way.
`Classify` and `ClassifyFailure` are `classify` of `probe/http.rs` on
statuses, the presence of a Location and the shape of the body. `Verdict` states
what a caller gets: silence for at most `Bound`, then one report in which
everything before the named failure passed and nothing behind it is claimed.

### GeoCache

`Runs` are processes, each run of the program at most once. A run looks at the
interfaces (`LookAtInterfaces`), loads the file and perhaps starts a lookup
(`Load`), the lookup ends or not while the ladder runs (`LookupEnds`), the
ladder ends (`LadderEnds`), the answer is taken (`LookupTaken`), the file is
truncated and then written (`Truncate`, `Write`, `StoreFails`). `Crash` kills a
run anywhere. An observation keeps the ASN and, as history the program does not
have, where and when it was seen and whether it came through the tunnel. The
write of two overlapping runs can leave the tail of the longer record behind the
shorter one, so `Write` may produce an unreadable file when another record is
already there. `Changes` says what the world may do: `"midrun"` lets it change
in the middle of a run. The run leaves it out, which would be ten times as large
with it; the theorems include it. `VerdictsSound` has its two halves apart: an
alarm is never false, wherever the baseline was made; a reassurance can be, on a
machine that has moved since, and is claimed to be true only where the baseline is
of the network the machine is in. With `"midrun"` both suppose that no VPN came up
in the very run that made the baseline.

### Watch

One loop: `Start`, `Collect`, `Measure`, `FrameMade`, `Draw`, then slices of
sleep (`Sleep`, `Wake`) until `Again` or `Stop`; `FrameFails` is every `?` in
the frame; `Restore` is the way out. `Carry` is the update of `Carried`,
`AgeShown` the heading's age. Ages are counted in seconds while time runs in
ticks, so sub-second effects at second boundaries are visible.

### UpdateCheck and Update

`UpdateCheck`: `RunReport` (the printed report and its footer), `NotAllowed`,
`NotDue`, `Ask`, `Answered`, `Truncate`, `WriteOver`, `StoreFails`, `RunCrash`; the
world passes time, sets the clock back, releases, upgrades the program. `time`
is the wall clock the program reads, `elapsed` the time that really passed.

`Update`: one action per I/O step -- `Locate`, `List`, `Download`, `Verify`,
`Create`, `Write`, `SetPermissions`, `Rename` -- and for each group the ways it
refuses or fails; then `Finish` (`replace` keeps the file, strips the quarantine
flag and the attempt returns) and `Announce` (`main` says what was returned). A kill
(`Crash`) may fall between any two of them. `ReplaceFails` is a step of `replace`
that fails, and `Scratch` with it, whose removal may fail in its turn without a
word (install.rs:78): `unremoved` remembers where. `Swap` is what the user is
promised: one whole program at the path; each attempt replaces it in one step,
once, or leaves it, and says which if it lives to, while one that is killed may
have done either. `SwapsOrLeaves` is the refinement: a file that is not whole and
executable maps to version 0, which `Swap` has no state for, and the verdict of an
attempt is what it printed, or that it was killed.

A release that verifies is taken to be of the version it is listed as: the
signature binds an archive's bytes, not its name. Versions are compared as the
numbers before a `-`, since the code leaves what is behind it in the running
program's own version out (version.rs:130 has a test that says so).

### Listen

`live` is the kernel: which socket each protocol control block is of. Sockets
are opened and closed (`Open`, `Close`) between any two of the command's steps:
`Dump` of TCP and of UDP, `ListPids`, one `Inspect` per process, the join with
its filter, count and order (`Tabulate`), the containers (`Annotate`,
`SkipContainers`) and the page (`ShowPage`). A closed block may be used again for another
socket: `taken` remembers which were, `lasting` which sockets were open all
along. `Join` goes by the block's address, `Exposure` and `Rank` are the code's
grouping and order, `Claims`, `OnePublish`, `SamePublish` and `ApplyForwarders`
the matching with containers. What the code sorts and filters is defined by what
the result is (`Arrange`): the one sequence of these elements that is in the
order, the one that keeps these and their order. Nothing in it is recursive, so
that it can be reasoned about for tables of every length.

### Daemon

`SocketPaths` is the candidate list with `candidates`' test for existence;
`Connect`, `Read`, `ReadTooMuch`, `Closed`, `ReadTimesOut` are one exchange,
`Believe` and `Dismiss` its judgement by status and framing. A reply is counted
in units: head, parts of the body, last chunk. The daemon may stop, drip, be
cut off or never end.

### Walks

What a header says is chosen when the walk gets to it: any length and kind,
fitting or not. Lengths and offsets are bytes. `reach` is the end of the bytes
looked at, `fence` the end of what may be looked at; `blocks` remembers what the
kernel described, `written` where it put the next address.

### Ssid

The radio, the dynamic store, then the helpers. `Spawn`, `SeenExit`, `SleepOn`,
`TimeIsUp`, `TryWaitFails`, `Kill` and `Join` are `run` of `ssid_helper.rs`; the
reader thread is `Drain` and `ReaderEnds`; the child writes into a pipe of
bounded capacity, exits, or leaves a process that keeps the pipe open.

### Inventory

`worlds` is the machine with its history; `Change` may fall between any two
reads: `Enumerate`, `ListServices`, one `ReadService` each, `ReadPrimary` for
each family, one `Build` per interface in the order of the names (it reads the
carrier), `SortInterfaces`, `SizeTable`, `FillTable`. `stage` is how far the
collection is, `keys` are the services still to be read. `Sorted` is the set of
rearrangements that are in the order of `sort_interfaces`: as no two rows share a
name it has one member. `ShowReport` and `ShowRoutes` are what the two pages
choose: visible interfaces and tunnel shape, filter and split summary.

### Layout and Pages

Texts are numbers of columns. `Layout` is `render/layout.rs`, with each piece on
a line at its place; `Pages` lays out one block per step: `EmitRow` (stacked or
aligned), `InterfaceBlock`, `Ladder` and `NarrowLadder`, `Pack` for the short
sections, the measured columns of the two tables with `Truncate`.

## 3. Runs

Eleven runs pass, one for each component; `Listen_PublishedAddressAgrees` is a
finding (section 6).

| Run | Bounds | States | Shows |
|---|---|---|---|
| `MCLadder` | timeout 4, gateway timeout 1, poll delay 1; 8 interface tables, 3 DNS set-ups, 2 addresses | 0.3 million | `HttpNotSqueezed`, `VerdictIsJustified`, `AnswerBeatsTimer`, `Terminates`, `KeepsPromise` |
| `MCGeoCache` | 3 runs, 2 at a time, 2 networks, TTL 2, clock 0..2, moves and tunnels between runs, crashes | 1.0 million | `ShownWithinTTL`, `FileIsSound`, `VerdictsSound`, `PrivateRunsAskNothing` |
| `MCWatch` | 2 routes, interval 2, slice 1, second 2, frame up to 3, oversleep 1, TTL 2, ages up to 4 | 0.6 million | `InterruptAnswered`, `CursorGivenBack`, `OneLookupPerStay`, `HeadingIsHonest`, `Responsive` |
| `MCUpdateCheck` | 3 runs, 2 at a time, interval 2, clock 0..2, releases 1..2, all mishaps | 1.1 million | `FooterTellsTheNews`, `OncePerInterval`, `SilenceIsCovered` |
| `MCUpdate` | 2 updates, versions 1..2, every layout, all mishaps | 0.3 million | `LeftoversAreExplained`, `SwapsOrLeaves`, `NoDowngrade` |
| `MCListen` | 3 blocks, 3 processes of which one is another user's, 6 sockets, 5 answers, 3 command lines, limit 2, 2 changes | 1.7 million | `RowsAreTrue`, `FooterDescribesPage`, `PublishHalvesAgree`, `ClaimsAreFounded` |
| `MCDaemon` | 2 daemons, 4 arrangements of the paths, 3 environments, 5 replies, timeout 2, cap 4, reads of 1 or 2 | 127 thousand | `NeverPartial`, `ConclusionIsRight`, `WaitIsBounded` |
| `MCWalks` | buffers up to 264 bytes; claimed lengths on both sides of every limit of the parsers | 111 thousand | `InsideItsBlock`, `InStep`, `EverySocketComesOut` |
| `MCSsid` | timeouts 1 and 3, 3 units read, a pipe of 2, output up to 6, 6 ticks a helper | 230 thousand | `HelperIsOver`, `SourceIsRight`, `TimelyUnlessHeld` |
| `MCInventory` | Wi-Fi, loopback, a tunnel, a dialled modem that may come and go; 3 services, 3 and 2 owners of the families, 3 command lines, one change anywhere | 0.6 million | `GatewayIsItsOwn`, `UsableInterfacesLead`, `TunnelsAreReal`, `WholeTableOrNone` |
| `MCPages` | 7 terminals around the thresholds 40, 66 and the content edges, 3 glyph sets, 192 reports, 13 tables | 25 thousand | `EverythingIsReadable`, `PageKeepsShape`, `TablesAreGrids` |

Why these bounds are enough:

* *Ladder.* Timeout 4 is the smallest that can be halved twice, so the DNS
  share, its loss to a slow gateway and the rest left for HTTP all differ. The
  tables hold each reason a table can have no link or no gateway, and pairs in
  either order. Two addresses suffice for equal, overlapping, disjoint answers.
  A delay of one tick is what lets a timer expire before the poll.
* *GeoCache.* Three runs give a baseline, a run that writes a cached answer back
  and one that reads the result; two at a time is the smallest overlap, and
  every conflict on the file is between a reader and a writer or two writers.
  TTL 2 has an inside, an edge and an outside. Runs are interchangeable.
* *Watch.* The interval is two slices, so a wait has a first and a last slice; a
  frame can outlast a second, so the age crosses a second while it is made.
* *UpdateCheck, Update.* Interval 2 has an inside and an edge. Two updates are
  the smallest interference; two versions let a program meet an older and a
  newer release than its own.
* *Listen.* Both halves of a publish and a third socket fit; two changes are one
  socket closed and another opened on its block; the limit of 2 is passed by the
  helper's three sockets.
* *Daemon.* The cap is passed by the endless reply and reached by the longest
  whole one; two daemons let one fail while the other answers; the arrangements
  have one daemon under two names, and DOCKER_HOST.
* *Walks.* Lengths one short of, equal to and beyond each header and block, not
  multiples of eight or four; buffers that end inside a header, after a block,
  and after the trailer. Proved for all others.
* *Ssid.* Output shorter than, equal to and beyond what is read and what the
  pipe holds; timeouts below and above what a helper needs.
* *Inventory.* One change between any two reads is what tears a snapshot; the
  table can outgrow its buffer because the extra routes exceed the room. The
  four interfaces are one of each kind of name, and a tunnel that only its
  service gives away. Proved for all others.
* *Pages.* Each text has a value that fits every terminal, one that fits some
  and, where the code handles it, one that fits none; the longest name of an
  interface leaves its status no room. Proved for all others.

`CHECK_DEADLOCK FALSE` is set everywhere because each system really stops: a
ladder that returned, a watch that ended, a page that is printed, runs that are
each made once under a bounded clock.

Fairness, and why the code justifies it:

* `Ladder`: `WF(Tick)` and `WF(Step)`. Timers of the runtime fire and the tasks
  they wake are polled. The network owes nothing: none of its actions has fairness.
* `Watch`: `WF(Step)` and `WF(Tick)`. Sleeps end and measurements are bounded
  by the ladder and lookup timeouts; that a lookup is answered or a user
  interrupts is not assumed.
* `Daemon`: `WF(Step)` and `WF(Tick)`. Read timeouts fire; what a daemon does has
  no fairness. That the query ends follows from the cap on the body.
* `Ssid`: `WF(Run)`, `WF(Reader)` and `WF(Tick)`. The two threads are scheduled
  and sleeps end; a helper and what it leaves behind owe nothing, so the end is
  only promised while nothing else holds the pipe.
* `Inventory`: `WF(Step)`. System calls return; the machine need not change.
* The others state no fairness: they have no liveness property.

## 4. Proofs

All values of the constants are covered within the named assumptions
(`TimesAssumption`, `WorldAssumption`, ...), which TLC evaluates on its instances.
"States" gives the run's property that the theorem is about.

| Module | Theorem | States |
|---|---|---|
| `NetworkProofs` | `TypeCorrect`, `BudgetHolds`, `AttributionHolds` | `LadderTypeOK`, `WithinBudget`, `FirstFailureIsNamed` |
| | `HttpKeepsHalf`, `VerdictsAreJustified`, `AnswersBeatTimers` | `HttpNotSqueezed`, `VerdictIsJustified`, `AnswerBeatsTimer` |
| | `LadderKeepsPromise` | `KeepsPromise`: `Ladder` implements `Verdict` |
| | `GeoCacheTypeCorrect`, `AddressesAreFresh`, `GeoFileIsSound`, `PrivateRunsAreQuiet` | `TypeOK`, `ShownWithinTTL`, `FileIsSound`, `PrivateRunsAskNothing` |
| | `VerdictsAreSound` | `VerdictsSound`, also if the world changes in the middle of a run |
| `ScreenProofs` | `WatchTypeCorrect`, `InterruptsAreAnswered`, `CursorIsGivenBack`, `OneLookupIsMade`, `HeadingsAreHonest` | `TypeOK`, `InterruptAnswered`, `CursorGivenBack`, `OneLookupPerStay`, `HeadingIsHonest` |
| | `TablesAreGridsHolds` | `TablesAreGrids` |
| `ReportProofs` | `EverythingIsReadableHolds`, `PageKeepsShapeHolds` | `EverythingIsReadable`, `PageKeepsShape` |
| `UpdateProofs` | `UpdateCheckTypeCorrect`, `FooterIsHonest`, `SilenceHasGrounds` | `CheckTypeOK`, `FooterTellsTheNews`, `SilenceIsCovered` |
| | `AskedOncePerInterval` | `OncePerInterval` |
| | `UpdateTypeCorrect`, `LeftoversAreExplainedHolds`, `NoDowngradeHolds` | `TypeOK`, `LeftoversAreExplained`, `NoDowngrade` |
| | `UpdateSwapsOrLeaves` | `SwapsOrLeaves`: `Update` implements `Swap` |
| `InterfacesProofs` | `GatewaysAreTheirOwn`, `UsableLead`, `TunnelsHold` | `GatewayIsItsOwn`, `UsableInterfacesLead`, `TunnelsAreReal` |
| | `TableStaysWhole` | `TableIsWhole'` in every step, the safety half of `WholeTableOrNone` |
| | `SsidTypeCorrect`, `SourceChosenIsRight`, `HelpersAreOver` | `TypeOK`, `SourceIsRight`, `HelperIsOver` |
| | `TimeoutIsKept` | `OnTime`, the safety half of `TimelyUnlessHeld` |
| `DaemonProofs` | `ListsAreWhole`, `ConclusionHolds` | `NeverPartial`, `ConclusionIsRight` |
| | `SilenceIsEarned`, `PatienceHolds` | `SilenceMeansNobody` (part of `ConclusionIsRight`), `PatienceIsPerRead` (first half of `WaitIsBounded`) |
| `SocketsProofs` | `WalksTypeCorrect`, `WalksStayInside`, `WalksStayInStep`, `WalksAdvance` | `WalkTypeOK`, `InsideItsBlock`, `InStep`, `EveryStepAdvances` |
| | `WalksLoseNothing` | `EverySocketComesOut` |
| | `ListedRowsAreTrue`, `FooterIsOfItsPage`, `HalvesAgree`, `ClaimsHold` | `RowsAreTrue`, `FooterDescribesPage`, `PublishHalvesAgree`, `ClaimsAreFounded` |

Along which arguments:

* **Ladder.** Layers, each resting on the ones before it. `LadderTypeOK` is inductive
  by itself: every budget is a natural number because `Remaining` saturates.
  `Timing` says that the stage's timer is set no later than the deadline (plus
  the delays already suffered) and that `now` is no later than `wake + Lag`:
  `WithinBudget` alone says nothing of how far a stage about to start may go.
  `Shape` fixes at each stage the report field by field and which requests can
  have been answered (`AnswersSoFar`); `Judgement`, which is the two properties
  about verdicts at once, relates the report to those answers, read or not. The refinement needs all of them: a step that
  finishes the run is `Reply` because of `Shape`, a tick is `Wait` because of
  `Timing`, all others stutter.
* **GeoCache.** `GInv` says of every record, wherever it is -- on disk, loaded,
  found -- that its observation was asked over the route it is filed under and is
  no older than it says (`GoodCache`), and of every run which of its answers it
  may still hold (`RunOK`). The properties speak of the file or of the
  report; only what is *in flight* between load and store links them, because
  any run may be overtaken by another's write. A baseline is one network's own
  or the tunnel's (`GoodBaseline`). One that is not the tunnel's names a provider
  that is not the tunnel's either, so that an answer from the same is a leak,
  wherever it was made: alarms need nothing else. That a baseline went through no
  tunnel follows only while the world stands still in a run (`Standing`).
* **Watch.** `Heeded` bounds what has passed since the interrupt by what the
  frame, or the slice, has taken so far; `Visible` names the only two places the
  cursor shows; `Asked` says a lookup is always followed by carrying its route
  on, answered or not; `Dated` is the delicate one: a carried answer has an age
  of a second, or the wait is not over before the clock reaches the next second.
* **UpdateCheck.** `Founded`: what a record, on disk or on its way there, names without
  calling it a pre-release has been released. That the footer does not keep
  the news back needs `Spaced` below: undisturbed, what is on disk is what the
  server said last. `Dated`: while nobody has touched the clock, a record that
  says when it was made says when the server was really asked. For
  `OncePerInterval`, `Spaced`: while nothing was disturbed only one run is under
  way, and the latest request is the one recorded in the file or the one that
  the run under way is about to record. Requests alone say nothing about the
  next one; the file does, but not while it is being written.
* **Update.** `Progress(u)` says for each phase what is known of the archive and
  the scratch file: good before anything is created, whole once written,
  executable when `Rename` is next, and that a scratch file outside these phases is
  one a kill left or a failed removal. `Rename` is the one step that changes the
  path, and so puts a whole program there, of the version that was wanted; what
  is returned is settled after it (`Finish`), which is why the refinement needs
  that an attempt has no outcome before.
* **Ssid.** `Ordered`: the queue is always the rest of the policy's helpers, and
  all before it were asked in vain; `Reaped`: a child and a reader exist exactly
  while a helper is dealt with, and a polled one is within its limit.
* **Inventory.** `Inventoried`: each fact a row is built of held at *some* moment
  of the run (`Enumerated`, `Owning`, `Formed`), since no moment need have had
  them all. What held at *every* moment therefore went into the row whenever it
  was read, which is why the promises about usable interfaces speak of what
  could carry traffic throughout; and a gateway is the interface's own because
  name and router come out of one read. `Rank` is 0 exactly for active owners
  and 3 exactly for the inactive, so that the order of the list says who leads.
* **Daemon.** `Patient` counts what the current read has waited on top of a
  timeout for each read before; `Accounted`: every socket there is has still to
  be tried or was tried in vain. For the label, every path has a
  place, and the candidates in hand are a tail of the list in the order of the
  places, so that the more specific names of a daemon were tried before the one
  it goes by.
* **Walks.** `WInv` keeps the offsets within the buffer and on multiples of
  eight; `ConsumedIsOccupied` is the arithmetic fact that `1 + ((length - 1) | 3)`
  is what the kernel's rounding occupies, for every length of one byte. That
  every socket comes out rests on an invariant that relates the sockets put out
  and the pending one to the blocks passed, block by block.
* **Listen.** `IInv` has one part for each thing the command knows. `Kernel` and
  `Dumped` say what a dumped block may have become by now: the same socket, a
  closed one, or one that `taken` remembers. `Whole`: a socket open all along
  was in its dump and passed the filter. `Owned`: a process found for a block
  held the socket unless the block was taken, and a socket without a name has
  only owners that are still to be looked at, may not be, or have too many
  descriptors. `Tabled`, `Matched` and `Shown` carry this to the rows, to the
  containers and to the page. `PublishHalvesAgree` rests on `OnePublish` being an
  equivalence: whichever row of a publish was matched, all of them are claimed,
  and none by what stands on another publish.
* **Pages.** `PagesInv` is `GridInv` (the cells of a table stand in their places),
  `ReportInv` (what a report says so far) and `TableInv` (the lines of a table are
  parted by one blank line). All three are about lines, since a step only adds
  lines below those there are.
  *Tables.* `Fine` says where a cell must stand, given the measured widths, and
  `Written(line, last)` that the cells of a line are fine, end by `last` and leave
  the gap before each. It is enough that every row of every table is `Written`
  when it is made, column by column (`CellAfter`), and that nothing a line must
  look like changes once the columns are measured (`GridStays`). The rest is the
  arithmetic of `widths`: a column is as wide as its widest cell and the gap
  (`LongestIs`), and what the gateway gives up, or the spread adds, is exactly what
  the edge takes or leaves.
  *Reports.* Text is pushed on a line piece by piece: `Neat(line, last, N, W)` says
  that the pieces of a line have the names `N`, keep their distances, end by
  `last`, and *say* exactly `W`, each once. Lines below each other are a `Text`
  that says what both say, provided that what they say is `Distinct`, and it always
  is, because rows of a block, blocks of a page and titles have names of their own.
  So it is shown for a row in both its forms (`EmitRowText`), for the rows of a
  block, for an interface, for the ladder, whose times need that a stage is always
  far enough from the one before (`TimesFit`: at most 54 columns), for a title above
  a section. `pack` needs more than that nothing is lost: `Kept` says that a
  section stands in one piece somewhere on the page, moved to the right as a
  whole, and `Merged` and `Mixed` that a line of two sections is a line of the
  one and, from the gutter on, of the other. A finished report then says `PageSays`
  (`ReportStep`). `NothingIsLost` asks for each text by its name and size:
  `IsStated` leads from the one to the other, and `RowIsStated`, `TitleIsStated`,
  `RungIsStated`, `LadderIsStated` and `HeadIsStated` apply it to what there is.
  The heading is where two texts can touch: `StatusText` is the arithmetic of
  `push_right`, by which the status has a column before it unless name and status
  together reach the edge, the exception the property names.
  *Recursion.* `StageLines`, `TimeLines`, `NarrowLines`, `PackLines` and the
  flattening of blocks are recursive functions. That they obey their equations is
  proved (`CountingUp`, which builds a function a value at a time), and what holds
  of all of their values by looking for the least argument at which it does not
  (`LeastExists`): both need sets of numbers only.

Only model-checked:

* every liveness property (`Terminates`, `Responsive`, the second halves of
  `WaitIsBounded`, `TimelyUnlessHeld` and `WholeTableOrNone`): fairness and
  ENABLED are outside what the proof system handles.

Every invariant the passing runs check is a theorem.

Assumptions on the constants that the proofs use say what the code's types say
(a port is a number, a limit is one), that tables and services are finite, that
no two interfaces share a name and no two rows of a table are one and the same,
and that no container bears the name of one of the model's own markers. Of a
report (`ReportsAssumption`): its rows have values (a row without one is not made),
the rows of a block have labels of their own, an interface does not bear the name
of a section, the ladder has at most four rungs of the names and times that `rungs`
gives them, and a glyph is one column wide or two, with at least three for a mark
and a connector together, as in each of the three sets; of a route
(`PagesAssumption`), that its destination has at least one column.

`TypeOK` of `Listen`, `Daemon`, `Inventory` and `Pages` is checked as a part of
`RowsAreTrue`, `ConclusionIsRight`, `UsableInterfacesLead` and
`EverythingIsReadable`, and proved with the first three; that of the other
modules is a theorem of its own.

## 5. Not modelled, and why

* `sys/macos/dns.rs`, `vpn.rs`, `firewall.rs`, `cf.rs`, `sysinfo.rs`,
  `sys/unsupported.rs`: single reads of system configuration through foreign
  functions, without state or order of their own. The firewall's answer is an
  input of `Listen`.
* Of an interface: leases and the source of its addresses, MTU and MAC; of a
  route: flags, expiry and the kind of its gateway. They are copied from one
  read to the page, where `Pages` has their widths, and nothing else depends on
  them.
* `cli.rs` and the dispatch: flag rules checked by clap before anything runs;
  what they decide (the clamp of the interval, what disables probes, lookups,
  helpers and containers) appears as assumptions and inputs of the models.
* `render/theme.rs`, `reach.rs`, `json.rs`: colours, glyph tables, the words for
  a verdict and serialisation are pure maps; `Pages` keeps the widths they give.
* The values of the fields decoded by the walks; the text of what helpers print
  (only where in it the name is); the provider's answer beyond the ASN.
* HTTP, DNS and TLS themselves, the file system and the kernel: they appear by
  what the code can observe of them, and are marked external in the map.
* Checksums, signatures and archive formats: reduced to the verdict of
  `verify_checksum`, `verify_signature` and `extract`. The quarantine flag.
* Wording, latencies and layout other than columns. `install.sh`, `packaging/`,
  `fuzz/` and `tools/` are around the program, not in it.

## 6. Where the sources say more than the code does

Checked: `Listen_PublishedAddressAgrees`. `parse` of `container/mod.rs` keeps a
published address only when it is one of the two unspecified ones, and reads
every other as "published on every address". A container published on
127.0.0.1:80 alone is then shown on a row of 0.0.0.0:80, against the comment in
`apply` that a published address must agree. `ClaimsAreFounded` says what does
hold: with publishes on whole families every claim is founded.

Met on the way, and visible in the models without a run of their own; the property
named with each says what does hold:

* `probe/http.rs:49` announces a portal because "something answered on that URL
  and it was not the page". `net.rs:105` makes the empty body of one that broke off
  or that the client's timer cut off, and so a portal of the very page it looks
  for. `VerdictIsJustified`: another page, or a body that was cut off.
* `probe/resolve.rs:31`: the control lookup is made concurrently "so the extra
  signal costs no wall-clock time"; the stage waits for it after the probe host has
  been answered (`DnsJoined`), and may time out with it (`DnsTimedOut`).
  `AnswerBeatsTimer`: two lookups that ended count.
* `public/mod.rs:56`: the baseline is "what was seen with no VPN up"; a VPN that
  comes up between the look at the interfaces and the lookup is in it
  (`"midrun"`). `FileIsSound`: the run saw none, and there was none if the world
  stood still.
* `public/mod.rs:237`: guessing would "quietly reassure"; a machine that has moved
  since its baseline was made sees another provider with a tunnel that carries
  nothing, and is told the traffic goes through it. `VerdictsSound`: alarms are
  true, and reassurances where the baseline is from the same network.
* `update/version.rs:54`: an older release is "never taken without `--force`"; of
  two updates under way the one that listed the older release may rename last.
  `NoDowngrade`: it is newer than what *it* was started as.
* `render/layout.rs:146`: `push_right` leaves "at least one space after whatever is
  already on the line", but appends without one when the text does not fit. Rows
  ask `fits_right` first; headings do not (human.rs:276), and the status of an
  interface may touch a long name. `EverythingIsReadable` names that case as its
  one exception.
* `public/cache.rs:18`: the fingerprint "catches the times" the address changes;
  networks whose routers share an address have one fingerprint, and a cached
  answer may be shown in the wrong one. `ShownWithinTTL`: for less than a TTL.
* The repository's `README.md:195`: the heading says "how old the answer on
  screen is"; an answer from `geo.json` is dated by the frame that read it.
  `HeadingIsHonest` says what does hold: never older than it is.
* `main.rs:125`: the address is carried with the route it "was valid for"; after
  a failed lookup the old address stays beside the new route, dated.
* `main.rs:201`: "at most once a day"; overlapping runs both ask.
* `update/install.rs`: through a symbolic link the located file is judged and
  the link is replaced. `install.rs:68`: a failing step leaves "nothing behind";
  the removal may fail for the reason the step did, and goes unnoticed
  (`LeftoversAreExplained`).
* `render/routes.rs:92`: "Flags are five or six characters; the row has to end
  somewhere", and six columns are kept for them; `FLAGS` of
  `sys/macos/routes.rs` has fifteen letters, so that a route with seven or more
  set runs past the edge. `TablesAreGrids` therefore excepts longer flags.
* `render/human.rs:1050`: a narrow ladder is "wrapped"; the test at line 1061
  compares with an edge of at least 62 columns, which its four rungs do not
  reach, so that it runs on beyond a terminal narrower than itself. `Edge`, and
  so `PageKeepsShape`, has the code's 62 there.

Premises mark where the code's promise ends: `OncePerInterval` needs runs that do
not overlap and are not killed, `SplitAgreesWithPrimary` a machine that stood
still, both families asked for and no default routes but those of the primary
interfaces, `NameIsRight` blocks not used again after the dump, and
`LabelIsSpecific` allows for a daemon that failed under its own name, for one
that DOCKER_HOST names, and for Podman behind Docker Desktop's path.

## 7. Plan

What is left, in this order:

1. An abstract specification of `Listen` (the table of some moment between the
   first dump and the last inspection, but for reused blocks) and its refinement.
2. `Daemon` composed with `Listen`: the answer that `Annotate` takes as an input
   made by the exchange, so that a cut reply and a forwarder's guess meet.
3. The rules of `cli.rs` and of the dispatch that decide which component a
   command runs, once one of them has state to lose.
