-------------------------------- MODULE Pages --------------------------------
(***************************************************************************)
(* The pages as they are laid out: the report of render/human.rs, which    *)
(* aligns its rows, stacks them on a narrow terminal and packs its short   *)
(* sections side by side on a wide one, and the two tables, of             *)
(* render/routes.rs and render/listen.rs, whose columns are measured.      *)
(* Texts are numbers of columns; a page is built block by block.           *)
(***************************************************************************)
EXTENDS Layout

CONSTANTS
  Reports,   \* what there is to report: interfaces, dns, reachability, public, update
  Tables,    \* the tables there are to show, of routes and of sockets
  Terminals, \* the widths a terminal may have
  Glyphs     \* the glyph sets: how wide their marks are

\* The rows of a table, in whatever group.
RowsOf(shown) == UNION {ToSet(group) : group \in ToSet(shown.groups)}

IsSequence(s) == s \in Seq(ToSet(s))

\* Rows of a section: each has a name of its own, and a value.
IsRows(rows) ==
  /\ IsSequence(rows) /\ \A i, k \in DOMAIN rows : rows[i].label = rows[k].label => i = k
  /\ \A i \in DOMAIN rows :
       /\ rows[i].label # "title" /\ rows[i].value \in Nat \ {0}
       /\ {rows[i].size, rows[i].annotation, rows[i].continuation} \subseteq Nat

\* An age is a number of seconds in words, "106751991167300d 15h ago" at most.
\* The ladder has four rungs, "link", "gateway", "dns" and "http", and a time
\* of at most "30000 ms" for those that were tried.
IsLadder(rungs) ==
  /\ IsSequence(rungs) /\ Len(rungs) <= 4
  /\ \A i, k \in DOMAIN rungs : rungs[i].name = rungs[k].name => i = k
  /\ \A i \in DOMAIN rungs :
       /\ rungs[i].name # "title" /\ rungs[i].size \in 3 .. 7 /\ rungs[i].ms \in 0 .. 8
       /\ rungs[i].ms > 0 => rungs[i].outcome # "untried"

IsInterface(iface) ==
  /\ iface.name \notin {"dns", "ladder", "public"}
  /\ {iface.device, iface.status} \subseteq Nat \ {0}
  /\ {iface.display, iface.wifi.ssid, iface.wifi.signal, iface.wifi.secondary, iface.protocol,
      iface.endpoint, iface.handshake, iface.gateway, iface.mac, iface.mtu} \subseteq Nat
  /\ IsSequence(iface.ipv4) /\ IsSequence(iface.ipv6)
  /\ LET addresses == iface.ipv4 \o iface.ipv6 IN
       /\ \A i, k \in DOMAIN addresses : addresses[i].id = addresses[k].id => i = k
       /\ \A i \in DOMAIN addresses :
            /\ addresses[i].id \notin
                 {"title", "network", "protocol", "endpoint", "gateway", "hardware"}
            /\ addresses[i].width \in Nat \ {0} /\ addresses[i].note \in Nat

ASSUME ReportsAssumption ==
  /\ \A g \in Glyphs :
       /\ g.mark \in 1 .. 2 /\ g.connector \in 1 .. 2 /\ g.mark + g.connector >= 3
       /\ g.icon \in 0 .. 1
  /\ \A report \in Reports :
       /\ IsSequence(report.interfaces)
       /\ \A i \in DOMAIN report.interfaces : IsInterface(report.interfaces[i])
       /\ \A i, k \in DOMAIN report.interfaces :
            report.interfaces[i].name = report.interfaces[k].name => i = k
       /\ IsRows(report.dns) /\ IsRows(report.public) /\ report.age \in 0 .. 40
       /\ IsLadder(report.reachability.rungs)
       /\ report.reachability.rungs # <<>> =>
            /\ report.reachability.explanation \in Nat \ {0}
            /\ {report.reachability.verdict, report.reachability.portal} \subseteq Nat

ASSUME PagesAssumption ==
  /\ Terminals \subseteq Nat
  /\ \A g \in Glyphs : g.mark \in Nat /\ g.ellipsis \in 1 .. 3
  /\ \A report \in Reports : report.kind = "report"
  /\ \A shown \in Tables :
       /\ shown.kind \in {"routes", "listen"}
       /\ shown.groups \in Seq(Seq(RowsOf(shown))) /\ IsFiniteSet(RowsOf(shown))
       /\ \A r \in RowsOf(shown) :
            /\ r.id # "header" /\ \A q \in RowsOf(shown) : r.id = q.id => r = q
            /\ IF shown.kind = "routes"
               THEN /\ {r.destination, r.gateway, r.interface, r.flags, r.expires} \subseteq Nat
                    /\ r.destination > 0
               ELSE {r.address, r.service, r.owner, r.detail, r.pid} \subseteq Nat
       /\ shown.kind = "listen" => shown.resolve \in BOOLEAN

VARIABLES
  asked,     \* what is shown
  terminal,  \* how wide the terminal is
  glyphs,    \* the glyph set
  progress,  \* how far the page is
  queue,     \* the blocks still to be laid out
  sections,  \* history: the sections, before they are placed
  out        \* the lines so far

given == <<asked, terminal, glyphs>>
pageVars == <<given, progress, queue, sections, out>>

-----------------------------------------------------------------------------
(* What the width of the terminal decides.                                 *)

Narrow == terminal < NARROW_BELOW
HasRail == terminal >= RAIL_BELOW
Edge == ContentEdge(terminal)
ValueRoom == Less(Edge, VALUE_COL - 1)

-----------------------------------------------------------------------------
(* One row of the report: a label, a value, and reference material.        *)

Piece(block, row, part) == [block |-> block, row |-> row, part |-> part]

Row(label, size, value) ==
  [label |-> label, size |-> size, value |-> value, annotation |-> 0, continuation |-> 0]

PushRail(rail) ==
  IF rail /\ HasRail
  THEN PadTo(Push(PadTo(NewLine, RAIL_COL), [part |-> "rail"], 1), LABEL_COL)
  ELSE PadTo(NewLine, LABEL_COL)

\* Stacked: the label, and everything else below it.
Stacked(block, row, rail) ==
  LET Below(part, size) ==
        Push(PadTo(PushRail(rail), LABEL_COL + 4), Piece(block, row.label, part), size)
  IN (IF row.size = 0 THEN <<>>
      ELSE <<Push(PushRail(rail), Piece(block, row.label, "label"), row.size)>>)
     \o <<Below("value", row.value)>>
     \o (IF row.annotation = 0 THEN <<>> ELSE <<Below("annotation", row.annotation)>>)
     \o (IF row.continuation = 0 THEN <<>> ELSE <<Below("continuation", row.continuation)>>)

\* Aligned: a label that would touch the value, an annotation that does not
\* fit and a continuation each take a line of their own.
Aligned(block, row, rail) ==
  LET labelled == Push(PushRail(rail), Piece(block, row.label, "label"), row.size)
      alone == labelled.width + 2 > VALUE_COL
      valued == Push(PadTo(IF alone THEN PushRail(rail) ELSE labelled, VALUE_COL),
                     Piece(block, row.label, "value"), row.value)
      Own(part, size) ==
        IF size = 0 THEN <<>>
        ELSE <<Push(PadTo(PushRail(rail), VALUE_COL), Piece(block, row.label, part), size)>>
      annotated == PushRight(valued, Piece(block, row.label, "annotation"), row.annotation, Edge)
  IN (IF alone THEN <<labelled>> ELSE <<>>)
     \o (IF row.annotation > 0 /\ FitsRight(valued, row.annotation, Edge) THEN <<annotated>>
         ELSE <<valued>> \o Own("annotation", row.annotation))
     \o Own("continuation", row.continuation)

EmitRow_DropsWhatDoesNotFit(block, row, rail) ==
  IF Narrow THEN Stacked(block, row, rail)
  ELSE Aligned(block, [row EXCEPT !.annotation = IF row.value + @ + 2 <= ValueRoom THEN @ ELSE 0],
               rail)

EmitRow(block, row, rail) ==
  IF Narrow THEN Stacked(block, row, rail) ELSE Aligned(block, row, rail)

EmitRows(block, rows, rail) == FlattenSeq([i \in DOMAIN rows |-> EmitRow(block, rows[i], rail)])

-----------------------------------------------------------------------------
(* An interface.                                                           *)

\* The radio: its signal and the rest beside the name where they fit; the rest
\* below the name where they do not.
NetworkRow(wifi) ==
  LET separator == 3
      inline == /\ wifi.secondary > 0 /\ ~Narrow
                /\ wifi.signal + separator + wifi.secondary <= Less(ValueRoom, wifi.ssid + 2)
      beside == IF wifi.signal = 0 THEN wifi.secondary
                ELSE wifi.signal + separator + wifi.secondary
  IN [Row("network", 7, wifi.ssid) EXCEPT
        !.annotation = IF inline THEN beside ELSE wifi.signal,
        !.continuation = IF inline THEN 0 ELSE wifi.secondary]

\* The first address of a family carries the label.
AddressRows(addresses) ==
  [i \in DOMAIN addresses |->
     [Row(addresses[i].id, IF i = 1 THEN 4 ELSE 0, addresses[i].width)
        EXCEPT !.annotation = addresses[i].note]]

CollectRows(iface) ==
  (IF iface.wifi.ssid = 0 THEN <<>> ELSE <<NetworkRow(iface.wifi)>>)
  \o (IF iface.protocol = 0 THEN <<>> ELSE <<Row("protocol", 8, iface.protocol)>>)
  \o (IF asked.family = "v6" THEN <<>> ELSE AddressRows(iface.ipv4))
  \o (IF asked.family = "v4" THEN <<>> ELSE AddressRows(iface.ipv6))
  \o (IF iface.endpoint = 0 THEN <<>>
      ELSE <<[Row("endpoint", 8, iface.endpoint) EXCEPT !.annotation = iface.handshake]>>)
  \o (IF iface.gateway = 0 THEN <<>> ELSE <<Row("gateway", 7, iface.gateway)>>)
  \o (IF iface.mac = 0 THEN <<>>
      ELSE <<[Row("hardware", 8, iface.mac) EXCEPT !.annotation = iface.mtu]>>)

\* Without colour a status and a verdict stand in brackets.
Bracketed(size) == size + (IF glyphs.monochrome THEN 2 ELSE 0)

InterfaceHead(iface) ==
  LET Part(part) == Piece(iface.name, "head", part)
      icon == Push(PushRail(TRUE), Part("icon"), IF iface.other THEN 0 ELSE glyphs.icon)
      start == IF glyphs.icon = 0 \/ iface.other THEN icon ELSE Space(icon, 1)
      named == IF iface.display = 0 THEN start
               ELSE Space(Push(start, Part("display"), iface.display),
                          IF glyphs.monochrome THEN 3 ELSE 1)
      device == Push(named, Part("device"), iface.device)
      status == Bracketed(iface.status)
  IN IF Narrow THEN Push(Space(device, 2), Part("status"), status)
     ELSE PushRight(device, Part("status"), status, Edge)

InterfaceBlock(iface) ==
  <<InterfaceHead(iface)>>
  \o (IF iface.active THEN EmitRows(iface.name, CollectRows(iface), TRUE) ELSE <<>>)

-----------------------------------------------------------------------------
(* The sections.                                                           *)

Title(block, size, age) ==
  LET icon == Push(PadTo(NewLine, RAIL_COL), Piece(block, "title", "icon"), glyphs.icon)
      start == IF glyphs.icon = 0 \/ age > 0 THEN PadTo(NewLine, RAIL_COL) ELSE Space(icon, 1)
      titled == Push(start, Piece(block, "title", "title"), size)
  IN IF age = 0 THEN titled ELSE Push(Space(titled, 2), Piece(block, "title", "age"), age)

MarkFor(outcome) == IF outcome = "untried" THEN 1 ELSE glyphs.mark

Stage(line, rung) ==
  Push(Space(Push(line, Piece("ladder", rung.name, "stage"), rung.size), 1),
       Piece("ladder", rung.name, "mark"), MarkFor(rung.outcome))

Connect(line) ==
  Space(Push(Space(line, 1), Piece("ladder", "none", "connector"), glyphs.connector), 1)

BeforeStage(i, line) == IF i = 1 THEN line ELSE Connect(line)

\* The line of the stages, as it is after each.
StageLines(rungs) ==
  LET line[i \in 0 .. Len(rungs)] ==
        IF i = 0 THEN PadTo(NewLine, LABEL_COL)
        ELSE Stage(BeforeStage(i, line[i - 1]), rungs[i])
  IN line

\* Where a stage begins.
StageAt(rungs, i) == BeforeStage(i, StageLines(rungs)[i - 1]).width + 1

TimeLines(rungs) ==
  LET line[i \in 0 .. Len(rungs)] ==
        IF i = 0 THEN NewLine
        ELSE IF rungs[i].ms = 0 THEN line[i - 1]
        ELSE Push(PadTo(line[i - 1], StageAt(rungs, i)),
                  Piece("ladder", rungs[i].name, "timing"), rungs[i].ms)
  IN line

\* The stages on one line, and below each how long it took.
Ladder(rungs) ==
  LET timings == TimeLines(rungs)[Len(rungs)]
  IN <<StageLines(rungs)[Len(rungs)]>> \o (IF IsBlank(timings) THEN <<>> ELSE <<timings>>)

\* Wrapped, at the edge, and without the timings.
Wrapped(acc, i, rung) ==
  LET size == rung.size + 1 + MarkFor(rung.outcome)
  IN IF i > 1 /\ acc.line.width + size + 3 > Edge
     THEN [lines |-> Append(acc.lines, acc.line), line |-> Stage(PadTo(NewLine, LABEL_COL), rung)]
     ELSE [acc EXCEPT !.line = Stage(BeforeStage(i, @), rung)]

NarrowLines(rungs) ==
  LET acc[i \in 0 .. Len(rungs)] ==
        IF i = 0 THEN [lines |-> <<>>, line |-> PadTo(NewLine, LABEL_COL)]
        ELSE Wrapped(acc[i - 1], i, rungs[i])
  IN acc

NarrowLadder(rungs) ==
  LET all == NarrowLines(rungs)[Len(rungs)] IN Append(all.lines, all.line)

DnsSection == <<NewLine, Title("dns", 3, 0)>> \o EmitRows("dns", asked.dns, FALSE)

ReachabilitySection ==
  LET report == asked.reachability
      stages == IF Narrow THEN NarrowLadder(report.rungs) ELSE Ladder(report.rungs)
      verdict == EmitRow("ladder", Row("verdict", Bracketed(report.verdict), report.explanation),
                         FALSE)
      portal == IF report.portal = 0 THEN <<>>
                ELSE EmitRow("ladder", Row("sign in", 7, report.portal), FALSE)
  IN <<NewLine, Title("ladder", 12, 0)>> \o (stages \o (verdict \o portal))

PublicSection ==
  <<NewLine, Title("public", 14, asked.age)>> \o EmitRows("public", asked.public, FALSE)

Blocks ==
  <<DnsSection>>
  \o (IF asked.reachability.rungs = <<>> THEN <<>> ELSE <<ReachabilitySection>>)
  \o (IF asked.public = <<>> THEN <<>> ELSE <<PublicSection>>)

\* Each block goes to the right of the ones before it, or starts a row below.
\* The blank line a block opens with is given once for a row.
Placed(acc, block, edge) ==
  LET blank == block # <<>> /\ IsBlank(block[1])
      body == IF blank THEN Tail(block) ELSE block
      lead == IF blank THEN <<NewLine>> ELSE <<>>
      width == BlockWidth(body)
  IN IF acc.row # <<>> /\ acc.width + GUTTER + width <= edge
     THEN [out |-> acc.out, row |-> Columns(acc.row, body, acc.width + GUTTER + 1),
           width |-> acc.width + GUTTER + width]
     ELSE [out |-> acc.out \o acc.row \o lead, row |-> body, width |-> width]

PackLines(blocks, edge) ==
  LET acc[i \in 0 .. Len(blocks)] ==
        IF i = 0 THEN [out |-> <<>>, row |-> <<>>, width |-> 0]
        ELSE Placed(acc[i - 1], blocks[i], edge)
  IN acc

Pack(blocks, edge) ==
  LET all == PackLines(blocks, edge)[Len(blocks)] IN all.out \o all.row

-----------------------------------------------------------------------------
(* The two tables.                                                         *)

ROW_COL == 6
PROTO_WIDTH == 7
GAP == 2
SPREAD == 8

AllRows == RowsOf(asked)

\* The widest cell of a column, or its header.
Longest(sizes, header) == Max({header} \cup sizes)

\* What does not fit comes out of the gateway.
RouteWidths ==
  LET destination == Longest({r.destination : r \in AllRows}, 11) + GAP
      gateway == Longest({r.gateway : r \in AllRows}, 7) + GAP
      interface == Longest({r.interface : r \in AllRows}, 5) + GAP
      over == Less(destination + gateway + interface, Less(Edge, ROW_COL - 1 + 6))
  IN [destination |-> destination, interface |-> interface,
      gateway |-> IF over = 0 THEN gateway ELSE Max({Less(gateway, over), 7 + GAP})]

Truncate_LeavesRoom(size, room) == Min({size, Less(room, glyphs.ellipsis)})

Truncate(size, room) ==
  IF size <= room \/ room = 0 THEN size ELSE Less(room, glyphs.ellipsis) + glyphs.ellipsis

Cell(line, column, id, part, size) ==
  Push(PadTo(line, column), [block |-> asked.kind, row |-> id, part |-> part], size)

RouteCells(id, destination, gateway, interface, flags) ==
  LET w == RouteWidths
      first == Cell(NewLine, ROW_COL, id, "destination", destination)
      second == Cell(first, ROW_COL + w.destination, id, "gateway", gateway)
      third == Cell(second, ROW_COL + w.destination + w.gateway, id, "interface", interface)
  IN Cell(third, ROW_COL + w.destination + w.gateway + w.interface, id, "flags", flags)

RouteRow(route) ==
  LET cells == RouteCells(route.id, route.destination,
                          Truncate(route.gateway, Less(RouteWidths.gateway, GAP)),
                          route.interface, route.flags)
  IN IF route.expires = 0 THEN cells
     ELSE Push(Space(cells, 1), Piece("routes", route.id, "expires"), route.expires)

Heading(size) ==
  LET named == Space(Push(PadTo(NewLine, RAIL_COL), [part |-> "heading"], size), 1)
  IN Push(named, [part |-> "rule"], Less(Edge, MARGIN + (named.width - MARGIN)))

RouteGroup(rows) ==
  (IF out = <<>> THEN <<>> ELSE <<NewLine>>)
  \o <<Heading(4), NewLine, RouteCells("header", 11, 7, 5, 5)>>
  \o [i \in DOMAIN rows |-> RouteRow(rows[i])]

\* A service is named in the address column, and measured with it.
AddressSize(socket) ==
  socket.address + (IF asked.resolve /\ socket.service > 0 THEN 1 + socket.service ELSE 0)

MarkWidth == glyphs.mark + 1

\* What is left of the line is spread over the columns.
SocketWidths ==
  LET address == Longest({AddressSize(s) : s \in AllRows}, 7) + GAP
      owner == Longest({MarkWidth + s.owner : s \in AllRows}, 5) + GAP
      content == Longest({s.detail : s \in AllRows}, 0)
      detail == IF content = 0 THEN 0 ELSE content + GAP
      pid == Longest({s.pid : s \in AllRows}, 3)
      each == Less(Less(Edge, ROW_COL - 1 + PROTO_WIDTH + pid), address + owner + detail) \div 3
      spread == Min({each, SPREAD})
  IN [address |-> address + spread, owner |-> owner + spread,
      detail |-> IF detail = 0 THEN 0 ELSE detail + spread, pid |-> pid]

PidEnd ==
  LET w == SocketWidths
  IN ROW_COL + PROTO_WIDTH + w.address + w.owner + w.detail + w.pid - 1

SocketCells(id, proto, address, mark, owner, detail, pid) ==
  LET w == SocketWidths
      rail == Push(PadTo(NewLine, RAIL_COL), [part |-> "rail"], 1)
      first == Cell(rail, ROW_COL, id, "proto", proto)
      second == Cell(first, ROW_COL + PROTO_WIDTH, id, "address", address)
      third == Cell(Space(PadTo(second, ROW_COL + PROTO_WIDTH + w.address), mark),
                    0, id, "owner", owner)
      fourth == IF detail = 0 THEN third
                ELSE Cell(third, ROW_COL + PROTO_WIDTH + w.address + w.owner, id, "detail", detail)
  IN PushRight(fourth, Piece("listen", id, "pid"), pid, PidEnd)

SocketRow(socket) ==
  SocketCells(socket.id, 3, AddressSize(socket), MarkWidth, socket.owner, socket.detail, socket.pid)

SocketGroup(rows) ==
  LET title == Space(Push(PadTo(NewLine, RAIL_COL), [part |-> "rail"], 1), 2)
  IN <<NewLine,
       PushRight(Push(title, [part |-> "group"], 22), [part |-> "count"], 9, Edge),
       NewLine, SocketCells("header", 5, 7, 0, 5, 0, 3)>>
     \o [i \in DOMAIN rows |-> SocketRow(rows[i])]

-----------------------------------------------------------------------------
PageInit ==
  /\ asked \in Reports \cup Tables /\ terminal \in Terminals /\ glyphs \in Glyphs
  /\ progress = IF asked.kind = "report" THEN "header" ELSE "heading"
  /\ queue = IF asked.kind = "report" THEN asked.interfaces ELSE asked.groups
  /\ sections = <<>> /\ out = <<>>

GoOn(from, to) == progress = from /\ progress' = to /\ UNCHANGED given

Header ==
  /\ GoOn("header", "interfaces")
  /\ LET start == Space(Push(PadTo(NewLine, RAIL_COL), [part |-> "name"], 10), 1)
         named == Push(start, [part |-> "version"], 6)
         line == IF Narrow THEN Push(Space(named, 2), [part |-> "clock"], 13)
                 ELSE PushRight(named, [part |-> "clock"], 13, Edge)
         nobody == <<NewLine, Push(PadTo(NewLine, LABEL_COL), [part |-> "nobody"], 21)>>
     IN out' = <<line>> \o (IF Narrow THEN <<>> ELSE <<Rule(Edge)>>)
               \o (IF queue = <<>> THEN nobody ELSE <<>>)
  /\ UNCHANGED <<queue, sections>>

Collapsed(iface) == ~iface.active /\ ~asked.all

\* Consecutive collapsed interfaces are one list.
ShowInterface ==
  /\ progress = "interfaces" /\ queue # <<>>
  /\ LET before == Len(asked.interfaces) - Len(queue)
         listed == /\ before > 0 /\ Collapsed(Head(queue))
                   /\ Collapsed(asked.interfaces[before])
     IN out' = out \o (IF listed THEN <<>> ELSE <<NewLine>>) \o InterfaceBlock(Head(queue))
  /\ queue' = Tail(queue)
  /\ UNCHANGED <<given, progress, sections>>

Sections ==
  /\ GoOn("interfaces", "footer") /\ queue = <<>>
  /\ sections' = Blocks
  /\ out' = out \o (IF Narrow THEN FlattenSeq(sections') ELSE Pack(sections', Edge))
  /\ UNCHANGED queue

Footer ==
  /\ GoOn("footer", "done") /\ asked.kind = "report"
  /\ LET line == Push(Space(Push(PadTo(NewLine, RAIL_COL), [part |-> "arrow"], 1), 1),
                      [part |-> "available"], 16)
         size == 17 + (IF glyphs.monochrome THEN 2 ELSE 0)
         action == [part |-> "action"]
     IN out' = out \o
          (IF ~asked.update THEN <<>>
           ELSE IF Narrow THEN <<NewLine, line, Push(PadTo(NewLine, LABEL_COL), action, size)>>
           ELSE <<NewLine, Rule(Edge), PushRight(line, action, size, Edge)>>)
  /\ UNCHANGED <<queue, sections>>

TableHeading ==
  /\ GoOn("heading", "groups")
  /\ out' = IF asked.kind = "listen" THEN <<Heading(9)>> ELSE <<>>
  /\ UNCHANGED <<queue, sections>>

\* An empty group is left out, header and all.
ShowGroup ==
  /\ progress = "groups" /\ queue # <<>>
  /\ out' = out \o (IF Head(queue) = <<>> THEN <<>>
                    ELSE IF asked.kind = "routes" THEN RouteGroup(Head(queue))
                    ELSE SocketGroup(Head(queue)))
  /\ queue' = Tail(queue)
  /\ UNCHANGED <<given, progress, sections>>

TableFooter ==
  /\ GoOn("groups", "done") /\ queue = <<>>
  /\ LET Note(part, size) == Push(PadTo(NewLine, RAIL_COL), [part |-> part], size)
         nothing == IF AllRows # {} THEN <<>>
                    ELSE (IF out = <<>> THEN <<>> ELSE <<NewLine>>) \o <<Note("nothing", 9)>>
     IN out' = out \o nothing \o <<NewLine, Rule(Edge), Note("summary", 20)>>
  /\ UNCHANGED <<queue, sections>>

PageNext ==
  \/ Header \/ ShowInterface \/ Sections \/ Footer
  \/ TableHeading \/ ShowGroup \/ TableFooter

PageSpec == PageInit /\ [][PageNext]_pageVars

-----------------------------------------------------------------------------
Places == UNION {{<<i, k>> : k \in DOMAIN out[i].spans} : i \in DOMAIN out}
SpanAt(place) == out[place[1]].spans[place[2]]
Size(span) == span.to - span.from + 1
IsPiece(span) == "block" \in DOMAIN span.what
Pieces == {place \in Places : IsPiece(SpanAt(place))}
Part(span) == span.what.part

\* The type of the state; what a line holds is in order and within its width.
PageTypeOK ==
  /\ asked \in Reports \cup Tables /\ terminal \in Terminals /\ glyphs \in Glyphs
  /\ progress \in {"header", "interfaces", "footer", "heading", "groups", "done"}
  /\ \A i \in DOMAIN out : out[i].width \in Nat
  /\ \A place \in Places :
       /\ SpanAt(place).from \in 1 .. SpanAt(place).to
       /\ SpanAt(place).to <= out[place[1]].width
       /\ place[2] > 1 => SpanAt(<<place[1], place[2] - 1>>).to < SpanAt(place).from

Said(block, row, part) ==
  {Size(SpanAt(p)) : p \in {q \in Pieces : SpanAt(q).what = Piece(block, row, part)}}
Stated(block, row, part, size) == size > 0 => Said(block, row, part) = {size}

SectionsSayAll ==
  LET WholeRow(block, row) ==
        /\ Stated(block, row.label, "label", row.size)
        /\ Stated(block, row.label, "value", row.value)
        /\ Stated(block, row.label, "annotation", row.annotation)
      reach == asked.reachability
  IN /\ Stated("dns", "title", "title", 3)
     /\ \A i \in DOMAIN asked.dns : WholeRow("dns", asked.dns[i])
     /\ asked.public # <<>> =>
          /\ Stated("public", "title", "title", 14) /\ Stated("public", "title", "age", asked.age)
          /\ \A i \in DOMAIN asked.public : WholeRow("public", asked.public[i])
     /\ reach.rungs # <<>> =>
          /\ Stated("ladder", "title", "title", 12)
          /\ \A i \in DOMAIN reach.rungs :
               LET rung == reach.rungs[i] IN
                 /\ Stated("ladder", rung.name, "stage", rung.size)
                 /\ Stated("ladder", rung.name, "mark", MarkFor(rung.outcome))
                 /\ ~Narrow => Stated("ladder", rung.name, "timing", rung.ms)
          /\ Stated("ladder", "verdict", "label", Bracketed(reach.verdict))
          /\ Stated("ladder", "verdict", "value", reach.explanation)
          /\ Stated("ladder", "sign in", "value", reach.portal)

InterfacesSayAll ==
  \A i \in DOMAIN asked.interfaces :
    LET iface == asked.interfaces[i] IN
      /\ Stated(iface.name, "head", "display", iface.display)
      /\ Stated(iface.name, "head", "device", iface.device)
      /\ Stated(iface.name, "head", "status", Bracketed(iface.status))
      /\ iface.active =>
           /\ \A k \in DOMAIN CollectRows(iface) :
                LET row == CollectRows(iface)[k] IN
                  /\ Stated(iface.name, row.label, "label", row.size)
                  /\ Stated(iface.name, row.label, "value", row.value)
                  /\ Stated(iface.name, row.label, "annotation", row.annotation)
                  /\ Stated(iface.name, row.label, "continuation", row.continuation)
           /\ iface.wifi.ssid > 0 =>
                \E beside \in Said(iface.name, "network", "annotation") \cup {0},
                   below \in Said(iface.name, "network", "continuation") \cup {0} :
                  iface.wifi.signal + iface.wifi.secondary <= beside + below

NothingIsLost ==
  asked.kind = "report" =>
    /\ progress = "done" => SectionsSayAll /\ InterfacesSayAll
    /\ \A p, q \in Pieces :
         SpanAt(p).what = SpanAt(q).what => p = q \/ Part(SpanAt(p)) = "connector"

PiecesApart ==
  asked.kind = "report" => \A place \in Pieces : <<place[1], place[2] + 1>> \in Pieces =>
    LET this == SpanAt(place)
        next == SpanAt(<<place[1], place[2] + 1>>)
        between == next.from - this.to - 1
        crowded == Part(next) = "status" /\ ~Narrow /\ this.to + Size(next) >= Edge
    IN /\ between >= 1 \/ crowded
       /\ Part(next) = "annotation" \/ this.what.block # next.what.block => between >= 2

\* Whatever does not fit beside its label or its value is given a line of its
\* own.  On the finished report is, whole and once, the title of every section
\* with its age, every stage of the ladder with its mark and, unless the terminal
\* is narrow, its time, the verdict, its explanation and the page to sign in on,
\* the names and the status of every interface, and the label, the value and the
\* notes of every row; the icons of the glyph set are told apart but need not be
\* there.  Nothing touches what is before it: one column between two texts, two
\* before an annotation and between sections.  The one exception is a status for
\* which a long name leaves no room before the edge: it goes where the name ends.
EverythingIsReadable == PageTypeOK /\ NothingIsLost /\ PiecesApart

SectionsKeepShape ==
  progress = "footer" /\ ~Narrow =>
    \A b \in DOMAIN sections :
      LET block == Tail(sections[b])
          title == block[1].spans[1]
          home == CHOOSE p \in Pieces : SpanAt(p).what = title.what
          by == SpanAt(home).from - title.from
      IN /\ \A i \in DOMAIN block : \A k \in DOMAIN block[i].spans :
              [block[i].spans[k] EXCEPT !.from = @ + by, !.to = @ + by]
                \in ToSet(out[home[1] + i - 1].spans)
         /\ \A p \in Pieces :
              SpanAt(p).what.row = "title" /\ p[1] \in home[1] .. home[1] + Len(block) - 1
                => p[1] = home[1]

\* Where a text starts that has a line of its own.
Home(part) ==
  IF part = "label" THEN LABEL_COL ELSE IF Narrow THEN LABEL_COL + 4 ELSE VALUE_COL

WithinEdge ==
  asked.kind = "report" => \A i \in DOMAIN out :
    out[i].width > Edge =>
      \E k \in DOMAIN out[i].spans :
        LET span == out[i].spans[k] IN
          /\ IsPiece(span)
          /\ \/ k = Len(out[i].spans) /\ span.from <= Home(Part(span))
             \/ span.what.row = "head"

TimingsUnderStages ==
  \A p \in Pieces : Part(SpanAt(p)) = "timing" =>
    \E q \in Pieces :
      /\ q[1] = p[1] - 1 /\ Part(SpanAt(q)) = "stage"
      /\ SpanAt(q).what.row = SpanAt(p).what.row /\ SpanAt(q).from = SpanAt(p).from

OneBlankLine ==
  /\ \A i \in 2 .. Len(out) : ~(IsBlank(out[i]) /\ IsBlank(out[i - 1]))
  /\ progress = "done" => ~IsBlank(out[1]) /\ ~IsBlank(Last(out))

\* The page keeps its shape.  A section put beside another moves as a whole, and
\* sections that share a line have their titles on one line; a line runs past
\* the edge only for a text that is too wide for the room from its own column on,
\* or if it is the heading of an interface; every time in the ladder stands under
\* the stage it was measured for; one blank line separates two blocks, and none
\* opens or closes a page.
PageKeepsShape == SectionsKeepShape /\ WithinEdge /\ TimingsUnderStages /\ OneBlankLine

Cells(part) == {p \in Pieces : Part(SpanAt(p)) = part /\ SpanAt(p).what.block = asked.kind}

\* The mark is before the owner, and there is none in the header.
OwnerFrom(p) ==
  SpanAt(p).from - (IF SpanAt(p).what.row = "header" THEN 0 ELSE MarkWidth)

OneGrid ==
  asked.kind # "report" =>
    /\ \A part \in {"destination", "gateway", "interface", "flags", "address", "detail"} :
         \A p, q \in Cells(part) : SpanAt(p).from = SpanAt(q).from
    /\ \A p, q \in Cells("owner") : OwnerFrom(p) = OwnerFrom(q)
    /\ \A p, q \in Cells("pid") : SpanAt(p).to = SpanAt(q).to
    /\ \A p \in Pieces : <<p[1], p[2] + 1>> \in Pieces =>
         LET next == SpanAt(<<p[1], p[2] + 1>>) IN
           Part(next) # "expires" => next.from - SpanAt(p).to > GAP

TableFits ==
  asked.kind # "report" =>
    LET needed == IF asked.kind = "routes"
                  THEN RouteWidths.destination + 7 + GAP + RouteWidths.interface + 6
                  ELSE PROTO_WIDTH + Longest({AddressSize(s) : s \in AllRows}, 7) + GAP
                       + Longest({MarkWidth + s.owner : s \in AllRows}, 5) + GAP
                       + Longest({s.detail : s \in AllRows}, 0) + GAP
                       + Longest({s.pid : s \in AllRows}, 3)
    IN ROW_COL - 1 + needed <= Edge =>
         \A p \in Pieces :
           \/ Part(SpanAt(p)) = "expires" \/ (Part(SpanAt(p)) = "flags" /\ Size(SpanAt(p)) > 6)
           \/ SpanAt(p).to <= Edge

GatewayGivesWay ==
  asked.kind = "routes" =>
    \A p \in Cells("gateway"), r \in AllRows :
      SpanAt(p).what.row = r.id /\ Size(SpanAt(p)) < r.gateway =>
        LET w == RouteWidths IN
          ROW_COL - 1 + w.destination + w.gateway + w.interface + 6 >= Edge
          /\ Size(SpanAt(p)) = w.gateway - GAP

\* The tables are grids.  The cells of a column begin -- the pids end, the owners
\* follow the room for their marks, whether or not a row has one -- in one place
\* in every group and under their header, two columns from the cell before; a row
\* ends within the edge if its columns fit at their narrowest (an expiry, and
\* flags beyond the six that are reckoned with, come on top); a gateway is cut
\* only when the row would not fit otherwise and by no more than it takes, a
\* destination never.
TablesAreGrids == OneGrid /\ TableFits /\ GatewayGivesWay

=============================================================================
