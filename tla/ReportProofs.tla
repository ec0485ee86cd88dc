---------------------------- MODULE ReportProofs ----------------------------
(***************************************************************************)
(* The pages: a report, and the tables, are built from the top, a section  *)
(* or a row at a time, each in its place; what is on the page at any time  *)
(* can be read, and no piece is lost, repeated or out of its row.          *)
(***************************************************************************)
EXTENDS SectionProofs

-----------------------------------------------------------------------------
(***************************************************************************)
(* Sections in their places, in one column or in two.                      *)
(***************************************************************************)

\* One blank line, never two.
Parted(lines) == \A i \in 2 .. Len(lines) : ~(IsBlank(lines[i]) /\ IsBlank(lines[i - 1]))
Closed(lines) == Parted(lines) /\ (lines = <<>> \/ ~IsBlank(lines[Len(lines)]))

\* Lines none of which is blank are closed.
LEMMA FullIsClosed ==
  ASSUME NEW S, NEW a \in Seq(S), Full(a)
  PROVE  Closed(a)
<1>1. Len(a) \in Nat
  OBVIOUS
<1>2. \A i \in 2 .. Len(a) : i \in 1 .. Len(a)
  OBVIOUS
<1>3. a = <<>> \/ Len(a) \in 1 .. Len(a)
  BY <1>1, EmptySeq
<1> QED BY <1>2, <1>3 DEF Full, Closed, Parted

\* Lines that end with one that is not blank, or are followed by one, stay parted.
LEMMA PartedJoined ==
  ASSUME NEW S, NEW a \in Seq(S), NEW b \in Seq(S), Parted(a), Parted(b),
         a = <<>> \/ b = <<>> \/ ~IsBlank(a[Len(a)]) \/ ~IsBlank(b[1])
  PROVE  Parted(a \o b)
<1> DEFINE c == a \o b
           n == Len(a)
<1>1. /\ Len(c) = n + Len(b) /\ n \in Nat /\ Len(b) \in Nat
      /\ \A i \in 1 .. n : c[i] = a[i]
      /\ \A i \in 1 .. Len(b) : c[n + i] = b[i]
  BY Joined
<1>0. (a = <<>> => n = 0) /\ (b = <<>> => Len(b) = 0)
  BY EmptySeq
<1> HIDE DEF c
<1>2. ASSUME NEW i \in 2 .. Len(c), IsBlank(c[i]), IsBlank(c[i - 1]) PROVE FALSE
  <2> DEFINE j == i - 1
  <2>1. i = j + 1 /\ j \in 1 .. n + Len(b) /\ i \in 2 .. n + Len(b) /\ i - 1 = j
    BY <1>1
  <2> HIDE DEF j
  <2>2. IsBlank(c[i]) /\ IsBlank(c[j])
    BY <1>2 DEF j
  <2>3. CASE i <= n
    <3>1. i \in 2 .. n /\ i \in 1 .. n /\ j \in 1 .. n
      BY <1>1, <2>1, <2>3
    <3>2. IsBlank(a[i]) /\ IsBlank(a[j])
      BY <1>1, <2>2, <3>1
    <3>3. ~(IsBlank(a[i]) /\ IsBlank(a[i - 1]))
      BY <3>1 DEF Parted, n
    <3> QED BY <2>1, <3>2, <3>3
  <2>4. CASE j = n
    <3>1. n \in 1 .. n /\ 1 \in 1 .. Len(b) /\ n + 1 = i
      BY <1>1, <2>1, <2>4
    <3>2. IsBlank(a[n]) /\ IsBlank(b[1])
      BY <1>1, <2>2, <2>4, <3>1
    <3> QED BY <1>0, <3>1, <3>2 DEF n
  <2>5. CASE ~(i <= n) /\ j # n
    <3> DEFINE k == i - n
    <3>1. k \in 2 .. Len(b) /\ k \in 1 .. Len(b) /\ k - 1 \in 1 .. Len(b) /\ n + k = i
          /\ n + (k - 1) = j
      BY <1>1, <2>1, <2>5
    <3> HIDE DEF k
    <3>2. c[n + k] = b[k] /\ c[n + (k - 1)] = b[k - 1]
      BY <1>1, <3>1
    <3>3. IsBlank(b[k]) /\ IsBlank(b[k - 1])
      BY <2>2, <3>1, <3>2
    <3> QED BY <3>1, <3>3 DEF Parted
  <2> QED BY <2>3, <2>4, <2>5
<1>3. Parted(c)
  BY <1>2 DEF Parted
<1> QED BY <1>3 DEF c

\* What is closed may be followed by what is closed.
LEMMA ClosedJoined ==
  ASSUME NEW S, NEW a \in Seq(S), NEW b \in Seq(S), Closed(a), Closed(b)
  PROVE  Closed(a \o b)
<1> DEFINE c == a \o b
           n == Len(a)
<1>1. Parted(c)
  BY PartedJoined DEF Closed
<1>2. /\ c \in Seq(S) /\ Len(c) = n + Len(b) /\ n \in Nat /\ Len(b) \in Nat
      /\ \A i \in 1 .. n : c[i] = a[i]
      /\ \A i \in 1 .. Len(b) : c[n + i] = b[i]
  BY Joined
<1> HIDE DEF c
<1>3. CASE Len(b) = 0
  <2>1. Len(c) = n
    BY <1>2, <1>3
  <2>2. CASE n = 0
    <3>1. c = <<>>
      BY <1>2, <2>1, <2>2, EmptySeq
    <3> QED BY <1>1, <3>1 DEF Closed, c
  <2>3. CASE n # 0
    <3>1. n \in 1 .. n /\ a # <<>>
      BY <1>2, <2>3, EmptySeq DEF n
    <3>2. c[Len(c)] = a[n] /\ ~IsBlank(a[n])
      BY <1>2, <2>1, <3>1 DEF Closed, n
    <3>3. ~IsBlank(c[Len(c)])
      BY <3>2
    <3> QED BY <1>1, <3>3 DEF Closed, c
  <2> QED BY <2>2, <2>3
<1>4. CASE Len(b) # 0
  <2>1. Len(b) \in 1 .. Len(b) /\ b # <<>>
    BY <1>2, <1>4, EmptySeq
  <2>2. c[Len(c)] = b[Len(b)] /\ ~IsBlank(b[Len(b)])
    BY <1>2, <2>1 DEF Closed
  <2>3. ~IsBlank(c[Len(c)])
    BY <2>2
  <2> QED BY <1>1, <2>3 DEF Closed, c
<1> QED BY <1>3, <1>4

-----------------------------------------------------------------------------
(* The sections, packed.                                                   *)

\* What the first i sections say.
SaidBy(says, i) == UNION {says[k] : k \in 1 .. i}

\* Sections beside each other, as pack keeps them before it emits them, and
\* their width.
IsRow(lines, width) ==
  /\ Paper(lines) /\ Full(lines) /\ Timed(lines) /\ TitleFirst(lines)
  /\ 1 \in 1 .. Len(lines) /\ width \in Nat /\ Beneath(lines, width)
IsOut(lines) == Paper(lines) /\ Timed(lines) /\ Parted(lines)

\* A row of sections begins as one section without its blank line.
LEMMA RowAlone ==
  ASSUME NEW body, NEW W, Titled(body, W)
  PROVE  IsRow(body, BlockWidth(body)) /\ Tells(body, W)
<1>1. Paper(body) /\ Full(body) /\ Tells(body, W) /\ Timed(body) /\ 1 \in 1 .. Len(body)
  BY DEF Titled, Text
<1>2. TitleFirst(body)
  BY DEF Titled, TitleFirst
<1>3. BlockWidth(body) \in Nat /\ Beneath(body, BlockWidth(body))
  BY <1>1, BlockWidthIs DEF Paper
<1> QED BY <1>1, <1>2, <1>3 DEF IsRow

\* A section that fits joins the row: it moves as a whole and nothing in the
\* row is touched.
LEMMA RowBeside ==
  ASSUME terminal \in Terminals, NEW lines, NEW w, IsRow(lines, w), NEW V, Tells(lines, V),
         NEW body, NEW W, Titled(body, W), Distinct(V, W), w + GUTTER + BlockWidth(body) <= Edge
  PROVE  LET row == Columns(lines, body, w + GUTTER + 1) IN
         /\ IsRow(row, w + GUTTER + BlockWidth(body)) /\ Tells(row, V \cup W)
         /\ \A b, by : Kept(lines, b, 0, by) => Kept(row, b, 0, by)
         /\ Kept(row, body, 0, w + 2)
<1> DEFINE u == BlockWidth(body)
           row == Columns(lines, body, w + GUTTER + 1)
           by == w + 2
           width == w + GUTTER + u
<1>1. IsRow(body, u) /\ Tells(body, W)
  BY RowAlone
<1>0. width <= Edge
  OBVIOUS
<1>2. /\ Paper(lines) /\ Full(lines) /\ Timed(lines) /\ TitleFirst(lines) /\ w \in Nat
      /\ Beneath(lines, w) /\ 1 \in 1 .. Len(lines)
  BY DEF IsRow
<1> HIDE DEF u
<1>3. /\ Paper(body) /\ Full(body) /\ Timed(body) /\ TitleFirst(body) /\ u \in Nat
      /\ Beneath(body, u)
  BY <1>1 DEF IsRow
<1>4. Paper(row) /\ Full(row) /\ Beneath(row, width) /\ Mixed(row, lines, body, by)
  <2>1. w + GUTTER + u <= Edge
    BY <1>0
  <2> QED BY <1>2, <1>3, <2>1, ColumnsAre
<1>5. by \in Nat /\ width \in Nat
  BY <1>2, <1>3 DEF GUTTER
<1> HIDE DEF row, by, width
<1>6. Tells(row, V \cup W)
  BY <1>1, <1>3, <1>4, <1>5, MixedTells
<1>7. Timed(row)
  BY <1>2, <1>3, <1>4, <1>5, MixedTimed
<1>8. TitleFirst(row)
  BY <1>2, <1>3, <1>4, <1>5, MixedTitles
<1>9. /\ \A b, to : Kept(lines, b, 0, to) => Kept(row, b, 0, to)
      /\ Kept(row, body, 0, by)
  BY <1>2, <1>3, <1>4, <1>5, <1>8, MixedKept
<1>10. 1 \in 1 .. Len(row)
  BY <1>2, <1>4 DEF Mixed
<1>11. IsRow(row, width)
  BY <1>4, <1>5, <1>7, <1>8, <1>10 DEF IsRow
<1> QED BY <1>6, <1>9, <1>11 DEF row, by, width, u

\* A row is finished, and a blank line follows.
LEMMA OutNext ==
  ASSUME NEW lines, NEW row, NEW w, IsOut(lines), IsRow(row, w)
  PROVE  IsOut(lines \o row) /\ Closed(lines \o row)
<1> DEFINE S == LinesOf(Names)
           c == lines \o row
<1>1. lines \in Seq(S) /\ row \in Seq(S) /\ Parted(lines) /\ Full(row)
      /\ Paper(lines) /\ Paper(row) /\ Timed(lines) /\ Timed(row) /\ 1 \in 1 .. Len(row)
  BY DEF IsOut, IsRow, Paper
<1>2. Closed(row)
  BY <1>1, FullIsClosed
<1>3. ~IsBlank(row[1])
  BY <1>1 DEF Full
<1>4. Parted(c)
  BY <1>1, <1>2, <1>3, PartedJoined DEF Closed
<1>5. Paper(c)
  BY <1>1, PaperJoined
<1>6. Timed(c)
  BY <1>1, TimedJoined
<1>7. /\ Len(c) = Len(lines) + Len(row) /\ Len(lines) \in Nat /\ Len(row) \in Nat
      /\ \A i \in 1 .. Len(row) : c[Len(lines) + i] = row[i]
  BY <1>1, Joined
<1> HIDE DEF c
<1>8. ~IsBlank(c[Len(c)])
  <2>1. Len(row) \in 1 .. Len(row)
    BY <1>1, <1>7
  <2>2. c[Len(c)] = row[Len(row)]
    BY <1>7, <2>1
  <2> QED BY <1>1, <2>1, <2>2 DEF Full
<1> QED BY <1>4, <1>5, <1>6, <1>8 DEF IsOut, Closed, c

\* The blank line above a row says nothing.
LEMMA BlankIsOut ==
  ASSUME terminal \in Terminals
  PROVE  IsOut(<<NewLine>>) /\ Tells(<<NewLine>>, {})
<1> DEFINE line == NewLine
           lines == <<line>>
<1>1. line \in LinesOf(Names) /\ Len(line.spans) = 0 /\ line.width = 0
  BY BlankLine
<1> HIDE DEF line
<1>2. lines \in Seq(LinesOf(Names)) /\ Len(lines) = 1 /\ lines[1] = line
  BY <1>1
<1> HIDE DEF lines
<1>3. \A i \in 1 .. Len(lines) : lines[i] = line
  BY <1>2
<1>4. \A i \in 2 .. Len(lines) : FALSE
  BY <1>2
<1>5. Clean(line) /\ Within(line)
  <2>1. (\A k \in 1 .. Len(line.spans) : FALSE) /\ \A k \in 2 .. Len(line.spans) : FALSE
    BY <1>1
  <2>2. Clean(line)
    BY <1>1, <2>1 DEF Clean
  <2>3. Within(line)
    <3>1. Edge \in Nat
      <4>1. terminal \in Nat
        BY PagesAssumption
      <4> QED BY <4>1, EdgeIs
    <3>2. ~(line.width > Edge)
      BY <1>1, <3>1
    <3> QED BY <3>2 DEF Within
  <2> QED BY <2>2, <2>3
<1>6. Paper(lines)
  BY <1>2, <1>3, <1>5 DEF Paper
<1>7. Timed(lines)
  BY <1>1, <1>3 DEF Timed
<1>8. Parted(lines)
  BY <1>4 DEF Parted
<1>9. Tells(lines, {})
  <2>1. \A i \in 1 .. Len(lines) : \A k \in 1 .. Len(lines[i].spans) : FALSE
    BY <1>1, <1>3
  <2> QED BY <2>1 DEF Tells
<1> QED BY <1>6, <1>7, <1>8, <1>9 DEF IsOut, lines, line

\* The sections say different things: the next adds its own.
LEMMA SaidByNext ==
  ASSUME NEW blocks, NEW says, NEW B, Series(blocks, says, B), NEW i \in 1 .. Len(blocks)
  PROVE  /\ SaidBy(says, i) = SaidBy(says, i - 1) \cup says[i]
         /\ Distinct(SaidBy(says, i - 1), says[i])
<1>0. Len(blocks) \in Nat
  BY DEF Series
<1>1. \A k : k \in 1 .. i <=> k \in 1 .. (i - 1) \/ k = i
  BY <1>0
<1>2. SaidBy(says, i) = SaidBy(says, i - 1) \cup says[i]
  BY <1>1 DEF SaidBy
<1>3. ASSUME NEW v \in SaidBy(says, i - 1), NEW w \in says[i] PROVE v[1] # w[1]
  <2>1. PICK k \in 1 .. (i - 1) : v \in says[k]
    BY DEF SaidBy
  <2>2. k \in 1 .. Len(blocks) /\ k # i
    BY <1>0
  <2>3. Distinct(says[k], says[i])
    BY <2>2 DEF Series
  <2> QED BY <2>1, <2>3 DEF Distinct
<1> QED BY <1>2, <1>3 DEF Distinct

\* No section has said anything yet.
LEMMA NothingSaid == \A says : SaidBy(says, 0) = {}
<1>1. \A k : k \notin 1 .. 0
  OBVIOUS
<1> QED BY <1>1 DEF SaidBy

\* A section is its blank line and its body.
LEMMA SectionBody ==
  ASSUME NEW lines, NEW W, IsSection(lines, W)
  PROVE  /\ lines # <<>> /\ IsBlank(lines[1]) /\ Titled(Tail(lines), W)
         /\ lines = <<NewLine>> \o Tail(lines)
<1>1. Len(lines) # 0 /\ lines[1] = NewLine
  BY DEF IsSection
<1>2. lines # <<>>
  BY <1>1
<1> QED BY <1>1, <1>2, BlankLine DEF IsSection

\* Where the sections are that were placed.
Stays(lines, row, blocks, i) ==
  \A b \in 1 .. i : \/ \E at, by : Kept(lines, Tail(blocks[b]), at, by)
                    \/ \E by : Kept(row, Tail(blocks[b]), 0, by)
\* What was placed so far.
SoFar(acc, blocks, says, i) ==
  /\ IsOut(acc.out) /\ IsRow(acc.row, acc.width)
  /\ \E V, W : /\ Tells(acc.out, V) /\ Tells(acc.row, W) /\ Distinct(V, W)
               /\ V \cup W = SaidBy(says, i)
  /\ Stays(acc.out, acc.row, blocks, i)

\* What pack carries from one section to the next.
AccOf(lines, row, width) == [out |-> lines, row |-> row, width |-> width]

LEMMA AccIs ==
  \A lines, row, width : /\ AccOf(lines, row, width).out = lines
                         /\ AccOf(lines, row, width).row = row
                         /\ AccOf(lines, row, width).width = width
BY DEF AccOf

\* pack places the first section below a blank line.
LEMMA TheFirstPlaced ==
  ASSUME terminal \in Terminals, NEW blocks, NEW says, NEW B, Series(blocks, says, B),
         1 \in 1 .. Len(blocks)
  PROVE  LET acc == Placed([out |-> <<>>, row |-> <<>>, width |-> 0], blocks[1], Edge) IN
         SoFar(acc, blocks, says, 1)
<1> DEFINE block == blocks[1]
           body == Tail(block)
           width == BlockWidth(body)
           none == [out |-> <<>>, row |-> <<>>, width |-> 0]
           acc == Placed(none, block, Edge)
           first == <<NewLine>>
           W == says[1]
           blank == block # <<>> /\ IsBlank(block[1])
           lead == IF blank THEN <<NewLine>> ELSE <<>>
<1>1. IsSection(block, W)
  BY DEF Series
<1>2. blank /\ Titled(body, W)
  BY <1>1, SectionBody
<1>3. none.row = <<>> /\ none.out = <<>>
  OBVIOUS
<1> DEFINE start == none.out \o none.row \o lead
<1>4. acc = AccOf(start, body, width)
  BY <1>2, <1>3 DEF Placed, AccOf
<1>5. start = first
  <2>1. lead = first
    BY <1>2
  <2>2. first \in Seq(LinesOf(Names))
    BY BlankLine
  <2> HIDE DEF first, lead, none
  <2>3. <<>> \o <<>> = <<>> /\ <<>> \o first = first
    BY <2>2, ConcatEmptySeq, EmptySeq
  <2> QED BY <1>3, <2>1, <2>3
<1> HIDE DEF acc, start, width, body, block, W
<1>6. acc.out = first /\ acc.row = body /\ acc.width = width
  BY <1>4, <1>5, AccIs
<1>7. IsOut(first) /\ Tells(first, {})
  BY BlankIsOut
<1>8. IsRow(body, width) /\ Tells(body, W)
  BY <1>2, RowAlone DEF width
<1>9. SaidBy(says, 1) = {} \cup W /\ Distinct({}, W)
  <2>1. \A k : k \in 1 .. 1 <=> k = 1
    OBVIOUS
  <2> QED BY <2>1 DEF SaidBy, Distinct, W
<1>10. Kept(body, body, 0, 0)
  BY <1>8, KeptItself DEF IsRow
<1>11. Stays(first, body, blocks, 1)
  <2>1. \A b \in 1 .. 1 : Tail(blocks[b]) = body
    BY DEF body, block
  <2> QED BY <1>10, <2>1 DEF Stays
<1> HIDE DEF first
<1>12. \E V, U : /\ Tells(acc.out, V) /\ Tells(acc.row, U) /\ Distinct(V, U)
                 /\ V \cup U = SaidBy(says, 1)
  BY <1>6, <1>7, <1>8, <1>9
<1>13. SoFar(acc, blocks, says, 1)
  BY <1>6, <1>7, <1>8, <1>11, <1>12 DEF SoFar
<1> QED BY <1>13 DEF acc, block

\* pack puts a section that fits beside the row at hand.
LEMMA BesideSoFar ==
  ASSUME terminal \in Terminals, NEW blocks, NEW says, NEW B, Series(blocks, says, B),
         NEW i \in 2 .. Len(blocks), NEW acc, SoFar(acc, blocks, says, i - 1),
         acc.width + GUTTER + BlockWidth(Tail(blocks[i])) <= Edge
  PROVE  SoFar(Placed(acc, blocks[i], Edge), blocks, says, i)
<1> DEFINE block == blocks[i]
           body == Tail(block)
           width == BlockWidth(body)
           X == says[i]
           w == acc.width
           row == Columns(acc.row, body, w + GUTTER + 1)
           next == Placed(acc, block, Edge)
<1>0. Len(blocks) \in Nat /\ i \in 1 .. Len(blocks)
  BY DEF Series
<1>1. IsSection(block, X)
  BY <1>0 DEF Series
<1>2. block # <<>> /\ IsBlank(block[1]) /\ Titled(body, X)
  BY <1>1, SectionBody
<1>3. IsOut(acc.out) /\ IsRow(acc.row, w) /\ Stays(acc.out, acc.row, blocks, i - 1)
  BY DEF SoFar
<1>4. acc.row # <<>>
  <2>1. Len(acc.row) # 0
    BY <1>3 DEF IsRow
  <2> QED BY <2>1
<1>5. next = AccOf(acc.out, row, w + GUTTER + width)
  BY <1>2, <1>4 DEF Placed, AccOf
<1>6. PICK V, W : /\ Tells(acc.out, V) /\ Tells(acc.row, W) /\ Distinct(V, W)
                  /\ V \cup W = SaidBy(says, i - 1)
  BY DEF SoFar
<1>7. SaidBy(says, i) = SaidBy(says, i - 1) \cup X /\ Distinct(SaidBy(says, i - 1), X)
  BY <1>0, SaidByNext
<1>8. Distinct(W, X) /\ Distinct(V, W \cup X) /\ V \cup (W \cup X) = SaidBy(says, i)
  BY <1>6, <1>7 DEF Distinct
<1>9. w + GUTTER + BlockWidth(body) <= Edge
  OBVIOUS
<1> HIDE DEF w, body, row, next, X, block
<1> DEFINE lines == acc.row
<1> HIDE DEF lines
<1>10. IsRow(lines, w) /\ Tells(lines, W)
  BY <1>3, <1>6 DEF lines
<1>11. /\ IsRow(row, w + GUTTER + BlockWidth(body)) /\ Tells(row, W \cup X)
       /\ \A b, by : Kept(lines, b, 0, by) => Kept(row, b, 0, by)
       /\ Kept(row, body, 0, w + 2)
  <2>1. row = Columns(lines, body, w + GUTTER + 1)
    BY DEF row, lines
  <2>2. LET r == Columns(lines, body, w + GUTTER + 1) IN
        /\ IsRow(r, w + GUTTER + BlockWidth(body)) /\ Tells(r, W \cup X)
        /\ \A b, by : Kept(lines, b, 0, by) => Kept(r, b, 0, by)
        /\ Kept(r, body, 0, w + 2)
    BY <1>2, <1>8, <1>9, <1>10, RowBeside
  <2> QED BY <2>1, <2>2
<1>12. next.out = acc.out /\ next.row = row /\ next.width = w + GUTTER + BlockWidth(body)
  BY <1>5, AccIs
<1>13. Stays(acc.out, row, blocks, i)
  <2>1. ASSUME NEW b \in 1 .. i
        PROVE  \/ \E at, by : Kept(acc.out, Tail(blocks[b]), at, by)
               \/ \E by : Kept(row, Tail(blocks[b]), 0, by)
    <3>1. CASE b = i
      BY <1>11, <3>1 DEF body, block
    <3>2. CASE b # i
      <4>1. b \in 1 .. (i - 1)
        BY <1>0, <3>2
      <4>2. \/ \E at, by : Kept(acc.out, Tail(blocks[b]), at, by)
            \/ \E by : Kept(lines, Tail(blocks[b]), 0, by)
        BY <1>3, <4>1 DEF Stays, lines
      <4> QED BY <1>11, <4>2
    <3> QED BY <3>1, <3>2
  <2> QED BY <2>1 DEF Stays
<1>14. \E P, Q : /\ Tells(next.out, P) /\ Tells(next.row, Q) /\ Distinct(P, Q)
                 /\ P \cup Q = SaidBy(says, i)
  BY <1>6, <1>8, <1>11, <1>12
<1>15. SoFar(next, blocks, says, i)
  BY <1>3, <1>11, <1>12, <1>13, <1>14 DEF SoFar
<1> QED BY <1>15 DEF next, block

\* pack emits the row and opens another for a section that does not fit.
LEMMA BelowSoFar ==
  ASSUME terminal \in Terminals, NEW blocks, NEW says, NEW B, Series(blocks, says, B),
         NEW i \in 2 .. Len(blocks), NEW acc, SoFar(acc, blocks, says, i - 1),
         ~(acc.width + GUTTER + BlockWidth(Tail(blocks[i])) <= Edge)
  PROVE  SoFar(Placed(acc, blocks[i], Edge), blocks, says, i)
<1> DEFINE block == blocks[i]
           body == Tail(block)
           width == BlockWidth(body)
           X == says[i]
           next == Placed(acc, block, Edge)
           first == <<NewLine>>
           lead == IF block # <<>> /\ IsBlank(block[1]) THEN <<NewLine>> ELSE <<>>
           all == acc.out \o acc.row
           lines == all \o first
           S == LinesOf(Names)
<1>0. Len(blocks) \in Nat /\ i \in 1 .. Len(blocks)
  BY DEF Series
<1>1. IsSection(block, X)
  BY <1>0 DEF Series
<1>2. block # <<>> /\ IsBlank(block[1]) /\ Titled(body, X)
  BY <1>1, SectionBody
<1>3. IsOut(acc.out) /\ IsRow(acc.row, acc.width) /\ Stays(acc.out, acc.row, blocks, i - 1)
  BY DEF SoFar
<1>4. lead = first
  BY <1>2
<1>5. next = AccOf(all \o lead, body, width)
  BY <1>2 DEF Placed, AccOf
<1>6. next.out = lines /\ next.row = body /\ next.width = width
  <2> HIDE DEF next, lead, all, first, body, width
  <2>1. next = AccOf(lines, body, width)
    BY <1>4, <1>5
  <2> HIDE DEF lines
  <2> QED BY <2>1, AccIs
<1> HIDE DEF next
<1>7. PICK V, W : /\ Tells(acc.out, V) /\ Tells(acc.row, W) /\ Distinct(V, W)
                  /\ V \cup W = SaidBy(says, i - 1)
  BY DEF SoFar
<1>8. SaidBy(says, i) = SaidBy(says, i - 1) \cup X /\ Distinct(SaidBy(says, i - 1), X)
  BY <1>0, SaidByNext
<1>9. acc.out \in Seq(S) /\ acc.row \in Seq(S)
  BY <1>3 DEF IsOut, IsRow, Paper
<1>10. first \in Seq(S) /\ IsOut(first) /\ Tells(first, {})
  BY BlankIsOut DEF IsOut, Paper
<1> DEFINE before == acc.out
           row == acc.row
           w == acc.width
<1> HIDE DEF before, row, w
<1>11. IsOut(before) /\ IsRow(row, w) /\ before \in Seq(S) /\ row \in Seq(S)
       /\ Tells(before, V) /\ Tells(row, W) /\ all = before \o row
  BY <1>3, <1>7, <1>9 DEF before, row, w
<1> HIDE DEF all
<1>12. IsOut(all) /\ Closed(all) /\ all \in Seq(S)
  <2>1. IsOut(before \o row) /\ Closed(before \o row)
    BY <1>11, OutNext
  <2> QED BY <1>11, <2>1 DEF IsOut, Paper
<1>13. Tells(all, V \cup W)
  BY <1>7, <1>11, TellsJoined
<1> HIDE DEF lines, first, S
<1>14. Tells(lines, V \cup W)
  <2> DEFINE P == V \cup W
             none == {}
  <2>1. Distinct(P, none) /\ P \cup none = P
    BY DEF Distinct
  <2>2. Tells(all, P) /\ Tells(first, none)
    BY <1>10, <1>13
  <2> HIDE DEF P, none
  <2>3. Tells(all \o first, P \cup none)
    BY <1>10, <1>12, <2>1, <2>2, TellsJoined
  <2> QED BY <2>1, <2>3 DEF lines, P
<1>15. IsOut(lines)
  <2>1. Paper(all) /\ Paper(first) /\ Timed(all) /\ Timed(first) /\ Parted(first)
    BY <1>10, <1>12 DEF IsOut
  <2>2. Paper(lines)
    BY <2>1, PaperJoined DEF lines
  <2>3. Timed(lines)
    BY <1>10, <1>12, <2>1, TimedJoined DEF lines
  <2>4. Parted(all) /\ (all = <<>> \/ ~IsBlank(all[Len(all)]))
    BY <1>12 DEF Closed
  <2>5. Parted(lines)
    BY <1>10, <1>12, <2>1, <2>4, PartedJoined DEF lines
  <2> QED BY <2>2, <2>3, <2>5 DEF IsOut
<1>16. IsRow(body, width) /\ Tells(body, X)
  BY <1>2, RowAlone
<1> HIDE DEF body, width, X
<1>17. Kept(body, body, 0, 0)
  BY <1>16, KeptItself DEF IsRow
<1>18. Stays(lines, body, blocks, i)
  <2>1. ASSUME NEW b \in 1 .. i
        PROVE  \/ \E at, by : Kept(lines, Tail(blocks[b]), at, by)
               \/ \E by : Kept(body, Tail(blocks[b]), 0, by)
    <3>1. CASE b = i
      BY <1>17, <3>1 DEF body
    <3>2. CASE b # i
      <4>1. b \in 1 .. (i - 1)
        BY <1>0, <3>2
      <4> DEFINE old == Tail(blocks[b])
      <4>2. \/ \E at, by : Kept(before, old, at, by)
            \/ \E by : Kept(row, old, 0, by)
        BY <1>3, <4>1 DEF Stays, before, row
      <4> HIDE DEF old
      <4>3. \E at, by : Kept(all, old, at, by)
        BY <1>11, <4>2, KeptBefore, KeptAfter
      <4>4. \E at, by : Kept(all \o first, old, at, by)
        BY <1>10, <1>12, <4>3, KeptBefore
      <4> QED BY <4>4 DEF old, lines
    <3> QED BY <3>1, <3>2
  <2> QED BY <2>1 DEF Stays
<1>19. \E P, Q : /\ Tells(next.out, P) /\ Tells(next.row, Q) /\ Distinct(P, Q)
                 /\ P \cup Q = SaidBy(says, i)
  <2>1. V \cup W \cup X = SaidBy(says, i) /\ Distinct(V \cup W, X)
    BY <1>7, <1>8
  <2> QED BY <1>6, <1>14, <1>16, <2>1
<1>20. SoFar(next, blocks, says, i)
  BY <1>6, <1>15, <1>16, <1>18, <1>19 DEF SoFar
<1> QED BY <1>20 DEF next

\* pack before the first section.
Nowhere == AccOf(<<>>, <<>>, 0)
Accs == [out : Seq(LinesOf(Names)), row : Seq(LinesOf(Names)), width : Nat]
PackedTo(acc, blocks, says, i) ==
  acc \in Accs /\ (i = 0 => acc = Nowhere) /\ (i > 0 => SoFar(acc, blocks, says, i))

\* Placing a section takes pack from one section to the next.
LEMMA PlacedSoFar ==
  ASSUME terminal \in Terminals, NEW blocks, NEW says, NEW B, Series(blocks, says, B),
         NEW i \in 1 .. Len(blocks), NEW acc, PackedTo(acc, blocks, says, i - 1)
  PROVE  PackedTo(Placed(acc, blocks[i], Edge), blocks, says, i)
<1> DEFINE next == Placed(acc, blocks[i], Edge)
<1>0. Len(blocks) \in Nat
  BY DEF Series
<1>1. SoFar(next, blocks, says, i)
  <2>1. CASE i = 1
    <3>1. acc = [out |-> <<>>, row |-> <<>>, width |-> 0] /\ 1 \in 1 .. Len(blocks)
      BY <1>0, <2>1 DEF PackedTo, Nowhere, AccOf
    <3>2. LET first == Placed([out |-> <<>>, row |-> <<>>, width |-> 0], blocks[1], Edge) IN
          SoFar(first, blocks, says, 1)
      BY <3>1, TheFirstPlaced
    <3> QED BY <2>1, <3>1, <3>2
  <2>2. CASE i # 1
    <3>1. i \in 2 .. Len(blocks) /\ i - 1 > 0
      BY <1>0, <2>2
    <3>2. SoFar(acc, blocks, says, i - 1)
      BY <3>1 DEF PackedTo
    <3>3. CASE acc.width + GUTTER + BlockWidth(Tail(blocks[i])) <= Edge
      BY <3>1, <3>2, <3>3, BesideSoFar
    <3>4. CASE ~(acc.width + GUTTER + BlockWidth(Tail(blocks[i])) <= Edge)
      BY <3>1, <3>2, <3>4, BelowSoFar
    <3> QED BY <3>3, <3>4
  <2> QED BY <2>1, <2>2
<1>2. \E lines, row, width : next = AccOf(lines, row, width)
  BY DEF Placed, AccOf
<1>3. PICK lines, row, width : next = AccOf(lines, row, width)
  BY <1>2
<1> HIDE DEF next
<1>4. next.out = lines /\ next.row = row /\ next.width = width
  BY <1>3, AccIs
<1>5. lines \in Seq(LinesOf(Names)) /\ row \in Seq(LinesOf(Names)) /\ width \in Nat
  BY <1>1, <1>4 DEF SoFar, IsOut, IsRow, Paper
<1>6. next \in Accs
  BY <1>3, <1>5 DEF Accs, AccOf
<1>7. ~(i = 0) /\ i > 0
  BY <1>0
<1>8. PackedTo(next, blocks, says, i)
  BY <1>1, <1>6, <1>7 DEF PackedTo
<1> QED BY <1>8 DEF next

\* When pack is through with the sections it has placed them all.
LEMMA PackLinesAre ==
  ASSUME terminal \in Terminals, NEW blocks, NEW says, NEW B, Series(blocks, says, B),
         1 \in 1 .. Len(blocks)
  PROVE  SoFar(PackLines(blocks, Edge)[Len(blocks)], blocks, says, Len(blocks))
<1> DEFINE n == Len(blocks)
           first == [out |-> <<>>, row |-> <<>>, width |-> 0]
           Put(i, acc) == Placed(acc, blocks[i], Edge)
           step == [i \in 1 .. n |-> [acc \in Accs |->
                      IF PackedTo(acc, blocks, says, i - 1) THEN Put(i, acc) ELSE first]]
           all == PackLines(blocks, Edge)
<1>1. n \in Nat
  BY DEF Series
<1>2. PackedTo(first, blocks, says, 0) /\ first \in Accs
  <2>1. first = Nowhere
    BY DEF Nowhere, AccOf
  <2>2. first \in Accs
    BY DEF Accs
  <2>3. ~(0 > 0)
    OBVIOUS
  <2> QED BY <2>1, <2>2, <2>3 DEF PackedTo
<1>3. ASSUME NEW i \in 1 .. n, NEW acc, PackedTo(acc, blocks, says, i - 1)
      PROVE  PackedTo(Put(i, acc), blocks, says, i) /\ Put(i, acc) \in Accs
  <2>1. PackedTo(Placed(acc, blocks[i], Edge), blocks, says, i)
    BY <1>3, PlacedSoFar
  <2> QED BY <2>1 DEF PackedTo
<1>4. \A i \in 1 .. n : \A acc \in Accs : step[i][acc] \in Accs
  <2> HIDE DEF first, Put
  <2> QED BY <1>2, <1>3
<1> HIDE DEF first
<1>5. step \in Steps(Accs, n)
  <2>1. \A i \in 1 .. n : step[i] \in [Accs -> Accs]
    BY <1>4
  <2>2. DOMAIN step = 1 .. n
    OBVIOUS
  <2> QED BY <2>1, <2>2 DEF Steps
<1>6. \A i \in 1 .. n : \A acc \in Accs :
        PackedTo(acc, blocks, says, i - 1) => step[i][acc] = Put(i, acc)
  <2> HIDE DEF Put
  <2> QED OBVIOUS
<1> HIDE DEF step, n
<1>7. PICK f : Taken(f, Accs, first, n, step)
  BY <1>1, <1>2, <1>5, CountingExists
<1>8. f \in [0 .. n -> Accs] /\ f[0] = first /\ \A i \in 1 .. n : f[i] = step[i][f[i - 1]]
  BY <1>7 DEF Taken
<1> DEFINE P == {i \in 0 .. n : PackedTo(f[i], blocks, says, i)}
<1>9. 0 \in P
  BY <1>1, <1>2, <1>8
<1>10. ASSUME NEW i \in 1 .. n, i - 1 \in P PROVE i \in P /\ f[i] = Put(i, f[i - 1])
  <2> DEFINE acc == f[i - 1]
  <2>1. PackedTo(acc, blocks, says, i - 1)
    BY <1>10
  <2>2. acc \in Accs
    BY <2>1 DEF PackedTo
  <2>3. f[i] = step[i][acc]
    BY <1>8
  <2> HIDE DEF acc
  <2>4. f[i] = Put(i, acc)
    BY <1>6, <2>1, <2>2, <2>3
  <2>5. PackedTo(Put(i, acc), blocks, says, i)
    BY <1>3, <2>1
  <2> HIDE DEF Put
  <2>6. i \in 0 .. n
    BY <1>1
  <2> QED BY <2>4, <2>5, <2>6 DEF acc
<1>11. P = 0 .. n
  <2>1. P \in SUBSET (0 .. n)
    OBVIOUS
  <2> HIDE DEF P, Put
  <2> QED BY <1>1, <1>9, <1>10, <2>1, CountingUp
<1>12. ASSUME NEW i \in 1 .. n PROVE f[i] = Put(i, f[i - 1])
  <2>1. i - 1 \in 0 .. n
    BY <1>1
  <2>2. i - 1 \in P
    BY <1>11, <2>1
  <2> HIDE DEF P, Put
  <2> QED BY <1>10, <2>2
<1>13. f = [i \in 0 .. n |-> IF i = 0 THEN first ELSE Put(i, f[i - 1])]
  <2> DEFINE g == [i \in 0 .. n |-> IF i = 0 THEN first ELSE Put(i, f[i - 1])]
  <2>1. \A i \in 0 .. n : i = 0 \/ i \in 1 .. n
    BY <1>1
  <2> HIDE DEF Put, P
  <2>2. \A i \in 0 .. n : g[i] = f[i]
    BY <1>8, <1>12, <2>1
  <2> QED BY <1>8, <2>2
<1>14. all = [i \in 0 .. n |-> IF i = 0 THEN first ELSE Put(i, all[i - 1])]
  BY <1>13 DEF PackLines, n, first
<1> HIDE DEF all, Put
<1> DEFINE Q == {i \in 0 .. n : all[i] = f[i]}
<1>15. 0 \in Q
  BY <1>1, <1>8, <1>14
<1>16. ASSUME NEW i \in 1 .. n, i - 1 \in Q PROVE i \in Q
  <2>1. i \in 0 .. n /\ i # 0
    BY <1>1
  <2>2. all[i] = Put(i, all[i - 1])
    BY <1>14, <2>1
  <2>3. all[i - 1] = f[i - 1]
    BY <1>16
  <2>4. all[i] = f[i]
    BY <1>12, <2>2, <2>3
  <2> QED BY <2>1, <2>4
<1>17. Q = 0 .. n
  <2>1. Q \in SUBSET (0 .. n)
    OBVIOUS
  <2> HIDE DEF Q
  <2> QED BY <1>1, <1>15, <1>16, <2>1, CountingUp
<1>18. n \in 0 .. n /\ n > 0
  <2>1. n >= 1
    BY <1>1 DEF n
  <2> QED BY <1>1, <2>1
<1>19. PackedTo(f[n], blocks, says, n) /\ all[n] = f[n]
  BY <1>11, <1>17, <1>18
<1>20. SoFar(all[n], blocks, says, n)
  BY <1>18, <1>19 DEF PackedTo
<1> QED BY <1>20 DEF all, n

\* The sections as they stand on the page.
Sectioned(lines, W) == Paper(lines) /\ Timed(lines) /\ Closed(lines) /\ Tells(lines, W)

\* The packed sections say what the sections say, once, and each is there in
\* one piece.
LEMMA PackText ==
  ASSUME terminal \in Terminals, NEW blocks, NEW says, NEW B, Series(blocks, says, B),
         1 \in 1 .. Len(blocks)
  PROVE  /\ Sectioned(Pack(blocks, Edge), SaidBy(says, Len(blocks)))
         /\ \A b \in 1 .. Len(blocks) :
              \E at, by : Kept(Pack(blocks, Edge), Tail(blocks[b]), at, by)
<1> DEFINE n == Len(blocks)
           acc == PackLines(blocks, Edge)[n]
           lines == acc.out
           row == acc.row
           w == acc.width
           all == lines \o row
<1>1. SoFar(acc, blocks, says, n)
  BY PackLinesAre
<1>2. Pack(blocks, Edge) = all
  BY DEF Pack
<1> HIDE DEF acc, n
<1>3. IsOut(lines) /\ IsRow(row, w) /\ Stays(lines, row, blocks, n)
  BY <1>1 DEF SoFar
<1>4. PICK V, W : /\ Tells(lines, V) /\ Tells(row, W) /\ Distinct(V, W)
                  /\ V \cup W = SaidBy(says, n)
  BY <1>1 DEF SoFar
<1> HIDE DEF lines, row, w
<1>5. lines \in Seq(LinesOf(Names)) /\ row \in Seq(LinesOf(Names))
  BY <1>3 DEF IsOut, IsRow, Paper
<1>6. IsOut(all) /\ Closed(all)
  BY <1>3, OutNext
<1>7. Tells(all, V \cup W)
  BY <1>4, <1>5, TellsJoined
<1>8. ASSUME NEW b \in 1 .. n PROVE \E at, by : Kept(all, Tail(blocks[b]), at, by)
  <2> DEFINE old == Tail(blocks[b])
  <2>1. \/ \E at, by : Kept(lines, old, at, by)
        \/ \E by : Kept(row, old, 0, by)
    BY <1>3 DEF Stays
  <2> HIDE DEF old
  <2>2. \E at, by : Kept(all, old, at, by)
    BY <1>5, <2>1, KeptBefore, KeptAfter
  <2> QED BY <2>2 DEF old
<1> HIDE DEF all
<1>9. Sectioned(all, SaidBy(says, n))
  BY <1>4, <1>6, <1>7 DEF Sectioned, IsOut
<1> QED BY <1>2, <1>8, <1>9 DEF n

\* Lines below lines say what both say.
LEMMA SectionedJoined ==
  ASSUME NEW a, NEW b, NEW V, NEW W, Sectioned(a, V), Sectioned(b, W), Distinct(V, W)
  PROVE  Sectioned(a \o b, V \cup W)
<1>1. a \in Seq(LinesOf(Names)) /\ b \in Seq(LinesOf(Names)) /\ Paper(a) /\ Paper(b)
      /\ Timed(a) /\ Timed(b) /\ Closed(a) /\ Closed(b) /\ Tells(a, V) /\ Tells(b, W)
  BY DEF Sectioned, Paper
<1>2. Paper(a \o b)
  BY <1>1, PaperJoined
<1>3. Timed(a \o b)
  BY <1>1, TimedJoined
<1>4. Closed(a \o b)
  BY <1>1, ClosedJoined
<1>5. Tells(a \o b, V \cup W)
  BY <1>1, TellsJoined
<1> QED BY <1>2, <1>3, <1>4, <1>5 DEF Sectioned

\* A section by itself, blank line included.
LEMMA SectionIsSectioned ==
  ASSUME terminal \in Terminals, NEW lines, NEW W, IsSection(lines, W)
  PROVE  Sectioned(lines, W)
<1> DEFINE body == Tail(lines)
           first == <<NewLine>>
           all == first \o body
           none == {}
<1>1. Titled(body, W) /\ lines = all
  BY SectionBody
<1>2. IsRow(body, BlockWidth(body)) /\ Tells(body, W)
  BY <1>1, RowAlone
<1>3. IsOut(first) /\ Tells(first, none)
  BY BlankIsOut
<1> HIDE DEF first, none, body
<1>4. IsOut(all) /\ Closed(all)
  BY <1>2, <1>3, OutNext
<1>5. first \in Seq(LinesOf(Names)) /\ body \in Seq(LinesOf(Names))
  BY <1>2, <1>3 DEF IsOut, IsRow, Paper
<1>6. Distinct(none, W) /\ none \cup W = W
  BY DEF Distinct, none
<1>7. Tells(all, none \cup W)
  BY <1>2, <1>3, <1>5, <1>6, TellsJoined
<1> HIDE DEF all
<1>8. Sectioned(all, W)
  BY <1>4, <1>6, <1>7 DEF Sectioned, IsOut
<1> QED BY <1>1, <1>8

\* No lines say nothing.
LEMMA NothingSectioned == Sectioned(<<>>, {})
<1> DEFINE none == <<>>
<1>1. none \in Seq(LinesOf(Names)) /\ Len(none) = 0
  OBVIOUS
<1>2. (\A i \in 1 .. Len(none) : FALSE) /\ (\A i \in 2 .. Len(none) : FALSE)
  BY <1>1
<1>3. none = <<>>
  OBVIOUS
<1> HIDE DEF none
<1>4. Sectioned(none, {})
  BY <1>1, <1>2, <1>3 DEF Sectioned, Paper, Timed, Closed, Parted, Tells
<1> QED BY <1>4, <1>3

\* On a narrow terminal the sections are stacked, and say what each of them
\* says.
LEMMA StackText ==
  ASSUME terminal \in Terminals, NEW blocks, NEW says, NEW B, Series(blocks, says, B)
  PROVE  Sectioned(FlattenSeq(blocks), SaidBy(says, Len(blocks)))
<1> DEFINE S == LinesOf(Names)
           n == Len(blocks)
           good == {pair \in (0 .. n) \X Seq(S) : Sectioned(pair[2], SaidBy(says, pair[1]))}
<1>1. n \in Nat /\ blocks \in Seq(Seq(S))
  BY DEF Series
<1>2. \A i, lines : <<i, lines>> \in good
                      <=> i \in 0 .. n /\ lines \in Seq(S) /\ Sectioned(lines, SaidBy(says, i))
  OBVIOUS
<1> HIDE DEF good
<1>3. <<0, <<>>>> \in good
  <2>1. Sectioned(<<>>, SaidBy(says, 0))
    BY NothingSaid, NothingSectioned
  <2>2. 0 \in 0 .. n /\ <<>> \in Seq(S)
    BY <1>1
  <2> QED BY <1>2, <2>1, <2>2
<1>4. ASSUME NEW i \in 1 .. n, NEW lines \in Seq(S), <<i - 1, lines>> \in good
      PROVE  <<i, lines \o blocks[i]>> \in good
  <2> DEFINE block == blocks[i]
             V == SaidBy(says, i - 1)
             W == says[i]
             all == lines \o block
  <2>1. IsSection(block, W)
    BY DEF Series, n
  <2>2. Sectioned(lines, V)
    BY <1>2, <1>4
  <2>3. SaidBy(says, i) = V \cup W /\ Distinct(V, W)
    BY SaidByNext DEF n
  <2> HIDE DEF block, V, W
  <2>4. Sectioned(block, W)
    BY <2>1, SectionIsSectioned
  <2>5. Sectioned(all, V \cup W)
    BY <2>2, <2>3, <2>4, SectionedJoined
  <2> HIDE DEF all
  <2>6. all \in Seq(S) /\ i \in 0 .. n
    BY <1>1, <2>5 DEF Sectioned, Paper
  <2>7. <<i, all>> \in good
    BY <1>2, <2>3, <2>5, <2>6
  <2> QED BY <2>7 DEF all, block
<1> DEFINE m == Len(blocks)
<1> HIDE DEF S
<1>5. <<n, FlattenSeq(blocks)>> \in good
  <2>1. \A i \in 1 .. n, lines \in Seq(S) :
          <<i - 1, lines>> \in good => <<i, lines \o blocks[i]>> \in good
    BY <1>4
  <2>2. n = Len(blocks)
    OBVIOUS
  <2> HIDE DEF n
  <2> QED BY <1>1, <1>3, <2>1, <2>2, Flattened
<1> QED BY <1>2, <1>5 DEF n

-----------------------------------------------------------------------------
(* A report, from its header to its last line.                             *)

\* Lines that open with one that is not blank.
Begun(lines) == 1 \in 1 .. Len(lines) /\ ~IsBlank(lines[1])

\* What follows does not change how lines open.
LEMMA BegunJoined ==
  ASSUME NEW S, NEW a \in Seq(S), NEW b \in Seq(S), Begun(a)
  PROVE  Begun(a \o b)
<1> DEFINE all == a \o b
<1>1. 1 \in 1 .. Len(a) /\ ~IsBlank(a[1])
  BY DEF Begun
<1>2. 1 \in 1 .. Len(all) /\ all[1] = a[1]
  BY <1>1, Joined
<1> QED BY <1>1, <1>2 DEF Begun

\* Rows without a title are such lines too.
LEMMA ProseIsSectioned ==
  ASSUME NEW a, NEW W, Prose(a, W)
  PROVE  Sectioned(a, W)
<1>1. Paper(a) /\ Full(a) /\ Tells(a, W) /\ Quiet(a)
  BY DEF Prose, Text
<1>2. a \in Seq(LinesOf(Names))
  BY <1>1 DEF Paper
<1>3. Closed(a)
  BY <1>1, <1>2, FullIsClosed
<1>4. Timed(a)
  BY <1>1, QuietIsTimed
<1> QED BY <1>1, <1>3, <1>4 DEF Sectioned

\* Rows without a title, not packed, are as wide as their widest line.
LEMMA ProseIsRow ==
  ASSUME NEW a, NEW W, Prose(a, W), a # <<>>
  PROVE  IsRow(a, BlockWidth(a))
<1>1. Paper(a) /\ Full(a) /\ Quiet(a)
  BY DEF Prose, Text
<1>2. a \in Seq(LinesOf(Names))
  BY <1>1 DEF Paper
<1>3. Timed(a)
  BY <1>1, QuietIsTimed
<1>4. TitleFirst(a)
  <2>1. SUFFICES ASSUME NEW i \in 2 .. Len(a), NEW k \in 1 .. Len(a[i].spans),
                        IsName(a[i].spans[k].what)
                 PROVE  a[i].spans[k].what.row # "title"
    BY DEF TitleFirst
  <2>2. i \in 1 .. Len(a)
    BY <1>2
  <2>3. Calm(a[i].spans[k].what)
    BY <1>1, <2>2 DEF Quiet
  <2> QED BY <2>1, <2>3 DEF Calm
<1>5. 1 \in 1 .. Len(a)
  BY <1>2
<1>6. BlockWidth(a) \in Nat /\ Beneath(a, BlockWidth(a))
  BY <1>2, BlockWidthIs
<1> QED BY <1>1, <1>3, <1>4, <1>5, <1>6 DEF IsRow

\* A blank line, and lines that say W.
LEMMA AfterBlank ==
  ASSUME terminal \in Terminals, NEW a, NEW W, Prose(a, W), a # <<>>
  PROVE  Sectioned(<<NewLine>> \o a, W)
<1> DEFINE lead == <<NewLine>>
           all == lead \o a
           w == BlockWidth(a)
<1>1. IsOut(lead) /\ Tells(lead, {})
  BY BlankIsOut
<1>2. IsRow(a, w)
  BY ProseIsRow
<1>3. Tells(a, W)
  BY DEF Prose, Text
<1>4. lead \in Seq(LinesOf(Names)) /\ a \in Seq(LinesOf(Names))
  BY <1>1, <1>2 DEF IsOut, IsRow, Paper
<1> HIDE DEF lead, w
<1>5. IsOut(all) /\ Closed(all)
  BY <1>1, <1>2, OutNext
<1>6. Distinct({}, W)
  BY SaidNothing
<1>7. Tells(all, {} \cup W)
  BY <1>1, <1>3, <1>4, <1>6, TellsJoined
<1> HIDE DEF all
<1>8. {} \cup W = W
  OBVIOUS
<1>9. Sectioned(all, W)
  BY <1>5, <1>7, <1>8 DEF Sectioned, IsOut
<1> QED BY <1>9 DEF all, lead

\* What says nothing may follow.
LEMMA NothingMore ==
  ASSUME NEW a, NEW b, NEW W, Sectioned(a, W), Sectioned(b, {})
  PROVE  Sectioned(a \o b, W)
<1> DEFINE all == a \o b
<1>1. Distinct(W, {})
  BY SaidNothing
<1>2. Sectioned(all, W \cup {})
  BY <1>1, SectionedJoined
<1>3. W \cup {} = W
  OBVIOUS
<1> HIDE DEF all
<1>4. Sectioned(all, W)
  BY <1>2, <1>3
<1> QED BY <1>4 DEF all

\* Lines that say something are lines, of known width.
LEMMA SectionedIsLines ==
  ASSUME NEW a, NEW W, Sectioned(a, W)
  PROVE  a \in Seq(LinesOf(Names))
BY DEF Sectioned, Paper

\* A line of marks.
LEMMA MarkLine ==
  ASSUME terminal \in Terminals, NEW line, Ended(line, {}, {}), NEW what \in ReportMarks,
         NEW size \in Nat \ {0}, line.width + size <= Edge
  PROVE  LET near == Push(line, what, size)
             far == PushRight(line, what, size, Edge)
         IN /\ Prose(<<near>>, {}) /\ ~IsBlank(near)
            /\ Prose(<<far>>, {}) /\ ~IsBlank(far)
<1> DEFINE N == {}
           near == Push(line, what, size)
           padded == PadTo(line, Less(Edge, size) + 1)
           far == Push(padded, what, size)
<1>1. N \in SUBSET Names /\ OneBlock(N) /\ \A n \in N : Calm(n)
  BY DEF OneBlock
<1>2. what \in ReportMarks \cup N /\ size \in Nat
  OBVIOUS
<1>3. Ended(line, N, {}) /\ line \in LinesOf(N) /\ line.width \in Nat
  BY DEF Ended, Neat, LinesOf
<1>4. Ended(near, N, {}) /\ near.width = line.width + size
  BY <1>1, <1>2, <1>3, EndedMark
<1>5. Edge \in Nat
  BY RoomIs
<1>6. Less(Edge, size) \in Nat
  BY <1>2, <1>5, LessIs
<1>7. Less(Edge, size) + 1 \in Nat
  BY <1>6
<1>8. Ended(padded, N, {})
  BY <1>3, <1>7, EndedPad
<1>9. padded \in LinesOf(N)
  BY <1>8 DEF Ended, Neat
<1>10. Ended(far, N, {}) /\ far.width = Edge
  BY <1>1, <1>2, <1>3, EndedRight DEF PushRight
<1>11. ~IsBlank(near) /\ (near.width <= Edge => Within(near))
  BY <1>1, <1>2, <1>3, PushedLast
<1> HIDE DEF padded
<1>12. ~IsBlank(far) /\ (far.width <= Edge => Within(far))
  BY <1>1, <1>2, <1>9, PushedLast
<1> HIDE DEF near, far
<1>13. Within(near) /\ Within(far)
  BY <1>4, <1>5, <1>10, <1>11, <1>12
<1>14. Text(<<near>>, {}) /\ Quiet(<<near>>)
  BY <1>1, <1>4, <1>11, <1>13, EndedText
<1>15. Text(<<far>>, {}) /\ Quiet(<<far>>)
  BY <1>1, <1>10, <1>12, <1>13, EndedText
<1> QED BY <1>11, <1>12, <1>14, <1>15 DEF Prose, near, far, padded, PushRight

-----------------------------------------------------------------------------
(***************************************************************************)
(* What is above and below the sections, and the whole report.             *)
(***************************************************************************)

\* A piece of text that belongs to no row.
Mark(part) == [part |-> part]

\* The pieces of header and footer.
LEMMA ReportMarksAre ==
  \A part \in {"rule", "rail", "name", "version", "clock", "nobody",
               "arrow", "available", "action"} : Mark(part) \in ReportMarks
BY DEF ReportMarks, Mark

\* A line of such pieces stays one when another is pushed.
LEMMA EndedNone ==
  ASSUME NEW line, Ended(line, {}, {}), NEW what \in ReportMarks, NEW size \in Nat
  PROVE  /\ Ended(Push(line, what, size), {}, {})
         /\ Push(line, what, size).width = line.width + size
<1> DEFINE N == {}
<1>1. N \in SUBSET Names
  OBVIOUS
<1>2. Ended(line, N, {})
  OBVIOUS
<1> HIDE DEF N
<1>3. Ended(Push(line, what, size), N, {}) /\ Push(line, what, size).width = line.width + size
  BY <1>1, <1>2, EndedMark
<1> QED BY <1>3 DEF N

\* A line of marks that has come as far as w.
Runs(line, w) == Ended(line, {}, {}) /\ line.width = w

\* A line whose pieces run on from its left does so after another or after
\* spaces.
LEMMA RunsOn ==
  ASSUME NEW line, NEW w \in Nat, Runs(line, w), NEW what \in ReportMarks, NEW size \in Nat
  PROVE  Runs(Push(line, what, size), w + size) /\ Runs(Space(line, size), w + size)
<1>1. Ended(line, {}, {})
  BY DEF Runs
<1>2. /\ Ended(Push(line, what, size), {}, {})
      /\ Push(line, what, size).width = line.width + size
  BY <1>1, EndedNone
<1>3. /\ Ended(Space(line, size), {}, {})
      /\ Space(line, size).width = line.width + size
  BY <1>1, EndedSpace
<1> QED BY <1>2, <1>3 DEF Runs

\* The rule across the page.
LEMMA RuleText ==
  ASSUME terminal \in Terminals
  PROVE  Prose(<<Rule(Edge)>>, {})
<1> DEFINE start == PadTo(NewLine, RAIL_COL)
           what == Mark("rule")
           size == Less(Edge, MARGIN)
<1>1. Ended(start, {}, {}) /\ start.width = 2
  BY Margins
<1>2. what \in ReportMarks
  BY ReportMarksAre
<1>3. Edge \in 62 .. 96
  BY RoomIs
<1>4. size \in Nat /\ size = Edge - 2
  <2> HIDE DEF size
  <2>1. Edge \in Nat /\ MARGIN \in Nat /\ MARGIN = 2
    BY <1>3 DEF MARGIN
  <2>2. Less(Edge, MARGIN) \in Nat
          /\ Less(Edge, MARGIN) = IF Edge >= MARGIN THEN Edge - MARGIN ELSE 0
    BY <2>1, LessIs
  <2> QED BY <1>3, <2>1, <2>2 DEF size
<1> HIDE DEF start, what, size
<1>5. size \in Nat \ {0} /\ start.width + size <= Edge
  BY <1>1, <1>3, <1>4
<1>6. Prose(<<Push(start, what, size)>>, {})
  BY <1>1, <1>2, <1>5, MarkLine
<1> QED BY <1>6 DEF Rule, start, what, size, Mark

\* The line with the name of the program, its version and the time.
TopLine ==
  LET start == Space(Push(PadTo(NewLine, RAIL_COL), Mark("name"), 10), 1)
      named == Push(start, Mark("version"), 6)
  IN IF Narrow THEN Push(Space(named, 2), Mark("clock"), 13)
     ELSE PushRight(named, Mark("clock"), 13, Edge)

\* The line that says that there is no interface.
NobodyLine == Push(PadTo(NewLine, LABEL_COL), Mark("nobody"), 21)

\* The lines of the header.
HeaderLines(nobody) ==
  <<TopLine>> \o (IF Narrow THEN <<>> ELSE <<Rule(Edge)>>)
  \o (IF nobody THEN <<NewLine, NobodyLine>> ELSE <<>>)

\* The header's first line fits, whether or not the time is on the right of
\* it.
LEMMA TopLineText ==
  ASSUME terminal \in Terminals
  PROVE  Prose(<<TopLine>>, {}) /\ ~IsBlank(TopLine)
<1> DEFINE one == 1
           two == 2
           six == 6
           ten == 10
           thirteen == 13
           what == Mark("name")
           version == Mark("version")
           clock == Mark("clock")
           first == PadTo(NewLine, RAIL_COL)
           name == Push(first, what, ten)
           start == Space(name, one)
           named == Push(start, version, six)
           spaced == Space(named, two)
<1>1. Runs(first, two)
  BY Margins DEF Runs
<1>2. what \in ReportMarks /\ version \in ReportMarks /\ clock \in ReportMarks
  BY ReportMarksAre
<1>3. /\ one \in Nat /\ two \in Nat /\ six \in Nat /\ ten \in Nat /\ thirteen \in Nat \ {0}
      /\ two + ten \in Nat /\ two + ten + one \in Nat /\ two + ten + one + six \in Nat
  OBVIOUS
<1>4. two + ten + one + six = 19 /\ two = 2 /\ thirteen = 13
  OBVIOUS
<1> HIDE DEF first, what, version, clock, one, two, six, ten, thirteen
<1>5. Runs(name, two + ten)
  BY <1>1, <1>2, <1>3, RunsOn
<1> HIDE DEF name
<1>6. Runs(start, two + ten + one)
  BY <1>2, <1>3, <1>5, RunsOn
<1> HIDE DEF start
<1>7. Runs(named, two + ten + one + six)
  BY <1>2, <1>3, <1>6, RunsOn
<1> HIDE DEF named
<1>8. Runs(spaced, two + ten + one + six + two)
  BY <1>2, <1>3, <1>7, RunsOn
<1> HIDE DEF spaced
<1>9. Edge >= 62 /\ Edge \in Nat
  BY RoomIs
<1>10. Ended(named, {}, {}) /\ Ended(spaced, {}, {})
  BY <1>7, <1>8 DEF Runs
<1>11. named.width + thirteen <= Edge /\ spaced.width + thirteen <= Edge
  BY <1>3, <1>4, <1>7, <1>8, <1>9 DEF Runs
<1>12. Prose(<<Push(spaced, clock, thirteen)>>, {}) /\ ~IsBlank(Push(spaced, clock, thirteen))
  BY <1>2, <1>3, <1>10, <1>11, MarkLine
<1>13. /\ Prose(<<PushRight(named, clock, thirteen, Edge)>>, {})
       /\ ~IsBlank(PushRight(named, clock, thirteen, Edge))
  BY <1>2, <1>3, <1>10, <1>11, MarkLine
<1>14. CASE Narrow
  <2>1. TopLine = Push(spaced, clock, thirteen)
    BY <1>14 DEF TopLine, spaced, named, start, name, first, what, version, clock,
                 one, two, six, ten, thirteen
  <2> QED BY <2>1, <1>12
<1>15. CASE ~Narrow
  <2>1. TopLine = PushRight(named, clock, thirteen, Edge)
    BY <1>15 DEF TopLine, named, start, name, first, what, version, clock,
                 one, six, ten, thirteen
  <2> QED BY <2>1, <1>13
<1> QED BY <1>14, <1>15

\* The line of an empty report fits.
LEMMA NobodyText ==
  ASSUME terminal \in Terminals
  PROVE  Prose(<<NobodyLine>>, {})
<1> DEFINE first == PadTo(NewLine, LABEL_COL)
           what == Mark("nobody")
           size == 21
<1>1. Ended(first, {}, {}) /\ first.width = 4
  BY Margins
<1>2. what \in ReportMarks
  BY ReportMarksAre
<1>3. Edge >= 62 /\ Edge \in Nat /\ size \in Nat \ {0} /\ size = 21
  BY RoomIs
<1> HIDE DEF first, what, size
<1>4. first.width + size <= Edge
  BY <1>1, <1>3
<1>5. Prose(<<Push(first, what, size)>>, {})
  BY <1>1, <1>2, <1>3, <1>4, MarkLine
<1> QED BY <1>5 DEF NobodyLine, first, what, size

\* The header opens the page and says nothing of any section.
LEMMA HeaderText ==
  ASSUME terminal \in Terminals, NEW nobody \in BOOLEAN
  PROVE  Sectioned(HeaderLines(nobody), {}) /\ Begun(HeaderLines(nobody))
<1> DEFINE S == LinesOf(Names)
           a == <<TopLine>>
           b == IF Narrow THEN <<>> ELSE <<Rule(Edge)>>
           d == IF nobody THEN <<NewLine, NobodyLine>> ELSE <<>>
           ab == a \o b
<1>1. Sectioned(a, {})
  <2>1. Prose(a, {})
    BY TopLineText
  <2> HIDE DEF a
  <2> QED BY <2>1, ProseIsSectioned
<1>2. Begun(a)
  <2>1. ~IsBlank(a[1]) /\ 1 \in 1 .. Len(a)
    BY TopLineText
  <2> QED BY <2>1 DEF Begun
<1>3. Sectioned(b, {})
  <2>1. CASE Narrow
    BY <2>1, NothingSectioned
  <2>2. CASE ~Narrow
    <3> DEFINE rule == <<Rule(Edge)>>
    <3>1. Prose(rule, {})
      BY RuleText
    <3> HIDE DEF rule
    <3>2. Sectioned(rule, {})
      BY <3>1, ProseIsSectioned
    <3> QED BY <2>2, <3>2 DEF rule
  <2> QED BY <2>1, <2>2
<1>4. Sectioned(d, {})
  <2>1. CASE ~nobody
    BY <2>1, NothingSectioned
  <2>2. CASE nobody
    <3> DEFINE line == <<NobodyLine>>
    <3>1. Prose(line, {}) /\ line # <<>>
      BY NobodyText
    <3>2. d = <<NewLine>> \o line
      BY <2>2
    <3> HIDE DEF line, d
    <3>3. Sectioned(<<NewLine>> \o line, {})
      BY <3>1, AfterBlank
    <3> QED BY <3>2, <3>3
  <2> QED BY <2>1, <2>2
<1> HIDE DEF a, b, d
<1>5. Sectioned(ab, {})
  BY <1>1, <1>3, NothingMore
<1>6. Sectioned(ab \o d, {})
  <2> HIDE DEF ab
  <2> QED BY <1>5, <1>4, NothingMore
<1>7. a \in Seq(S) /\ b \in Seq(S) /\ d \in Seq(S) /\ ab \in Seq(S)
  <2> HIDE DEF ab
  <2> QED BY <1>1, <1>3, <1>4, <1>5, SectionedIsLines
<1>8. Begun(ab)
  BY <1>2, <1>7, BegunJoined
<1>9. Begun(ab \o d)
  <2> HIDE DEF ab
  <2> QED BY <1>8, <1>7, BegunJoined
<1> QED BY <1>6, <1>9 DEF HeaderLines, ab, a, b, d

\* The line of a newer release.
FooterLine ==
  Push(Space(Push(PadTo(NewLine, RAIL_COL), Mark("arrow"), 1), 1), Mark("available"), 16)
ActionSize == 17 + (IF glyphs.monochrome THEN 2 ELSE 0)
FooterLines ==
  IF Narrow
  THEN <<NewLine, FooterLine, Push(PadTo(NewLine, LABEL_COL), Mark("action"), ActionSize)>>
  ELSE <<NewLine, Rule(Edge), PushRight(FooterLine, Mark("action"), ActionSize, Edge)>>

\* Two lines, one by one.
LEMMA PairJoined ==
  ASSUME NEW S, NEW x \in S, NEW y \in S
  PROVE  <<x>> \o <<y>> = <<x, y>>
<1> DEFINE a == <<x>>
           b == <<y>>
           both == <<x, y>>
           all == a \o b
<1>1. a \in Seq(S) /\ Len(a) = 1 /\ a[1] = x
  OBVIOUS
<1>2. b \in Seq(S) /\ Len(b) = 1 /\ b[1] = y
  OBVIOUS
<1>3. both \in Seq(S) /\ Len(both) = 2 /\ both[1] = x /\ both[2] = y
  OBVIOUS
<1>4. a \in Seq(S) /\ b \in Seq(S) /\ 1 \in 1 .. Len(a) /\ 1 \in 1 .. Len(b)
  BY <1>1, <1>2
<1> HIDE DEF a, b, both
<1>5. /\ all \in Seq(S) /\ Len(all) = Len(a) + Len(b) /\ all[1] = a[1]
      /\ all[Len(a) + 1] = b[1]
  BY <1>4, Joined
<1> HIDE DEF all
<1>6. Len(all) = Len(both) /\ \A i \in 1 .. Len(all) : all[i] = both[i]
  BY <1>1, <1>2, <1>3, <1>5
<1>7. all = both
  BY <1>3, <1>5, <1>6, SeqEqual
<1> QED BY <1>7 DEF all, a, b, both

\* Three lines, one and two.
LEMMA ThreeLines ==
  ASSUME NEW S, NEW x \in S, NEW y \in S, NEW z \in S
  PROVE  <<x>> \o <<y, z>> = <<x, y, z>>
<1> DEFINE a == <<x>>
           b == <<y, z>>
           both == <<x, y, z>>
           all == a \o b
<1>1. a \in Seq(S) /\ Len(a) = 1 /\ a[1] = x
  OBVIOUS
<1>2. b \in Seq(S) /\ Len(b) = 2 /\ b[1] = y /\ b[2] = z
  OBVIOUS
<1>3. both \in Seq(S) /\ Len(both) = 3 /\ both[1] = x /\ both[2] = y /\ both[3] = z
  OBVIOUS
<1>4. a \in Seq(S) /\ b \in Seq(S) /\ 1 \in 1 .. Len(a) /\ 1 \in 1 .. Len(b) /\ 2 \in 1 .. Len(b)
  BY <1>1, <1>2
<1> HIDE DEF a, b, both
<1>5. /\ all \in Seq(S) /\ Len(all) = Len(a) + Len(b) /\ all[1] = a[1]
      /\ \A i \in 1 .. Len(b) : all[Len(a) + i] = b[i]
  BY <1>4, Joined
<1> HIDE DEF all
<1>6. all[Len(a) + 1] = b[1] /\ all[Len(a) + 2] = b[2]
  BY <1>4, <1>5
<1>7. Len(all) = Len(both) /\ \A i \in 1 .. Len(all) : all[i] = both[i]
  <2>1. Len(all) = 3 /\ all[1] = x /\ all[2] = y /\ all[3] = z
    BY <1>1, <1>2, <1>5, <1>6
  <2>2. ASSUME NEW i \in 1 .. 3 PROVE i = 1 \/ i = 2 \/ i = 3
    OBVIOUS
  <2> QED BY <1>3, <2>1, <2>2
<1>8. all = both
  BY <1>3, <1>5, <1>7, SeqEqual
<1> QED BY <1>8 DEF all, a, b, both

\* Two lines below a blank one.
LEMMA TwoLines ==
  ASSUME terminal \in Terminals, NEW x, NEW y, Prose(<<x>>, {}), Prose(<<y>>, {})
  PROVE  Sectioned(<<NewLine, x, y>>, {})
<1> DEFINE S == LinesOf(Names)
           a == <<x>>
           b == <<y>>
           ab == a \o b
<1>1. Prose(a, {}) /\ Prose(b, {}) /\ Distinct({}, {})
  BY SaidNothing
<1>2. a \in Seq(S) /\ b \in Seq(S)
  BY <1>1 DEF Prose, Text, Paper
<1>3. x \in S /\ y \in S
  BY <1>2
<1> DEFINE blank == NewLine
<1>4. blank \in S
  BY BlankLine
<1> HIDE DEF S, blank
<1>5. ab = <<x, y>>
  BY <1>3, PairJoined
<1>6. <<blank>> \o <<x, y>> = <<blank, x, y>>
  BY <1>3, <1>4, ThreeLines
<1>7. <<x, y>> # <<>>
  OBVIOUS
<1> HIDE DEF a, b
<1>8. Prose(ab, {} \cup {})
  BY <1>1, ProseJoined
<1>9. {} \cup {} = {}
  OBVIOUS
<1> HIDE DEF ab
<1>10. Prose(ab, {}) /\ ab # <<>>
  BY <1>5, <1>7, <1>8, <1>9
<1>11. Sectioned(<<NewLine>> \o ab, {})
  BY <1>10, AfterBlank
<1> QED BY <1>5, <1>6, <1>11 DEF blank

\* The footer fits, and says nothing of any section.
LEMMA FooterText ==
  ASSUME terminal \in Terminals
  PROVE  Sectioned(FooterLines, {})
<1> DEFINE one == 1
           two == 2
           sixteen == 16
           mark == Mark("arrow")
           what == Mark("available")
           action == Mark("action")
           first == PadTo(NewLine, RAIL_COL)
           arrow == Push(first, mark, one)
           start == Space(arrow, one)
           label == PadTo(NewLine, LABEL_COL)
           size == ActionSize
           line == FooterLine
<1>1. Runs(first, two) /\ Ended(label, {}, {}) /\ label.width = 4
  BY Margins DEF Runs
<1>2. mark \in ReportMarks /\ what \in ReportMarks /\ action \in ReportMarks
  BY ReportMarksAre
<1>3. Edge >= 62 /\ Edge \in Nat
  BY RoomIs
<1>4. size \in Nat \ {0} /\ size <= 19
  BY DEF ActionSize
<1>5. /\ one \in Nat /\ two \in Nat /\ sixteen \in Nat /\ sixteen \in Nat \ {0}
      /\ two + one \in Nat /\ two + one + one \in Nat /\ two + one + one = 4 /\ sixteen = 16
  OBVIOUS
<1> HIDE DEF first, label, mark, what, action, size, one, two, sixteen
<1>6. Runs(arrow, two + one)
  BY <1>1, <1>2, <1>5, RunsOn
<1> HIDE DEF arrow
<1>7. Runs(start, two + one + one)
  BY <1>2, <1>5, <1>6, RunsOn
<1> HIDE DEF start
<1>8. Ended(start, {}, {}) /\ start.width + sixteen <= Edge
  BY <1>3, <1>5, <1>7 DEF Runs
<1>9. line = Push(start, what, sixteen)
  BY DEF FooterLine, start, arrow, first, mark, what, one, sixteen
<1> HIDE DEF line
<1>10. Prose(<<Push(start, what, sixteen)>>, {})
  BY <1>2, <1>5, <1>8, MarkLine
<1>11. Runs(Push(start, what, sixteen), two + one + one + sixteen)
  BY <1>2, <1>5, <1>7, RunsOn
<1>12. Ended(line, {}, {}) /\ line.width = 20 /\ Prose(<<line>>, {})
  BY <1>5, <1>9, <1>10, <1>11 DEF Runs
<1>13. line.width + size <= Edge /\ label.width + size <= Edge
  BY <1>1, <1>3, <1>4, <1>12
<1>14. Prose(<<Push(label, action, size)>>, {})
  BY <1>1, <1>2, <1>4, <1>13, MarkLine
<1>15. Ended(line, {}, {})
  BY <1>12
<1>16. Prose(<<PushRight(line, action, size, Edge)>>, {})
  BY <1>2, <1>4, <1>13, <1>15, MarkLine
<1>17. CASE Narrow
  <2> DEFINE below == Push(label, action, size)
  <2>1. Prose(<<line>>, {}) /\ Prose(<<below>>, {})
    BY <1>12, <1>14
  <2>2. FooterLines = <<NewLine, line, below>>
    BY <1>17 DEF FooterLines, line, label, action, size
  <2> HIDE DEF below
  <2>3. Sectioned(<<NewLine, line, below>>, {})
    BY <2>1, TwoLines
  <2> QED BY <2>2, <2>3
<1>18. CASE ~Narrow
  <2> DEFINE rule == Rule(Edge)
             far == PushRight(line, action, size, Edge)
  <2>1. Prose(<<rule>>, {}) /\ Prose(<<far>>, {})
    BY <1>16, RuleText
  <2>2. FooterLines = <<NewLine, rule, far>>
    BY <1>18 DEF FooterLines, line, action, size
  <2> HIDE DEF rule, far
  <2>3. Sectioned(<<NewLine, rule, far>>, {})
    BY <2>1, TwoLines
  <2> QED BY <2>2, <2>3
<1> QED BY <1>17, <1>18

\* What the interfaces have to say that were shown.
FirstSay(i) == UNION {InterfaceSays(asked.interfaces[k]) : k \in 1 .. i}

\* The page is a report.
InReport ==
  asked \in Reports /\ terminal \in Terminals /\ glyphs \in Glyphs

\* The interfaces of a report have names of their own, none that of a section.
LEMMA InterfacesAre ==
  ASSUME asked \in Reports
  PROVE  LET n == Len(asked.interfaces) IN
         /\ n \in Nat /\ DOMAIN asked.interfaces = 1 .. n
         /\ asked.interfaces \in Seq(ToSet(asked.interfaces))
         /\ \A i, k \in 1 .. n :
              asked.interfaces[i].name = asked.interfaces[k].name => i = k
         /\ \A i \in 1 .. n : asked.interfaces[i].name \notin {"dns", "ladder", "public"}
<1> DEFINE ifaces == asked.interfaces
           n == Len(ifaces)
<1>1. IsSequence(ifaces)
  BY ReportsAssumption
<1>2. \A i \in DOMAIN ifaces : IsInterface(ifaces[i])
  BY ReportsAssumption
<1>3. \A i, k \in DOMAIN ifaces : ifaces[i].name = ifaces[k].name => i = k
  BY ReportsAssumption
<1> HIDE DEF ifaces
<1>4. ifaces \in Seq(ToSet(ifaces))
  BY <1>1 DEF IsSequence
<1> DEFINE S == ToSet(ifaces)
<1> HIDE DEF S
<1>5. n \in Nat /\ DOMAIN ifaces = 1 .. n
  BY <1>4 DEF S
<1>6. \A i \in 1 .. n : ifaces[i].name \notin {"dns", "ladder", "public"}
  BY <1>2, <1>5 DEF IsInterface
<1> QED BY <1>3, <1>4, <1>5, <1>6 DEF ifaces, n

\* What an interface says is said in its name.
LEMMA InterfaceSaysName ==
  ASSUME NEW iface, NEW w \in InterfaceSays(iface)
  PROVE  w[1].block = iface.name
<1>1. w \in HeadSays(iface) \/ w \in RowsSay(iface.name, CollectRows(iface))
  BY DEF InterfaceSays
<1>2. CASE w \in HeadSays(iface)
  <2>1. \E part \in {"icon", "display", "device", "status"} : w[1] = Piece(iface.name, "head", part)
    BY <1>2 DEF HeadSays, Saying
  <2> QED BY <2>1 DEF Piece
<1>3. CASE w \in RowsSay(iface.name, CollectRows(iface))
  <2>1. PICK i \in 1 .. Len(CollectRows(iface)) : w \in RowSays(iface.name, CollectRows(iface)[i])
    BY <1>3 DEF RowsSay
  <2> DEFINE block == iface.name
             row == CollectRows(iface)[i]
  <2>2. w \in RowSays(block, row)
    BY <2>1
  <2> HIDE DEF block, row
  <2>3. w[1].block = block
    BY <2>2, RowSaysName
  <2> QED BY <2>3 DEF block
<1> QED BY <1>1, <1>2, <1>3

\* What the first interfaces say is said in the name of one of them.
LEMMA FirstSayName ==
  ASSUME NEW i, NEW w \in FirstSay(i)
  PROVE  \E k \in 1 .. i : w[1].block = asked.interfaces[k].name
<1>1. PICK k \in 1 .. i : w \in InterfaceSays(asked.interfaces[k])
  BY DEF FirstSay
<1> DEFINE iface == asked.interfaces[k]
<1>2. w \in InterfaceSays(iface)
  BY <1>1
<1> HIDE DEF iface
<1>3. w[1].block = iface.name
  BY <1>2, InterfaceSaysName
<1> QED BY <1>3 DEF iface

\* An interface says what no other does.
LEMMA FirstSayNext ==
  ASSUME asked \in Reports, NEW i \in 1 .. Len(asked.interfaces)
  PROVE  LET W == InterfaceSays(asked.interfaces[i]) IN
         FirstSay(i) = FirstSay(i - 1) \cup W /\ Distinct(FirstSay(i - 1), W)
<1> DEFINE W == InterfaceSays(asked.interfaces[i])
           n == Len(asked.interfaces)
           Says(k) == InterfaceSays(asked.interfaces[k])
<1>1. /\ n \in Nat
      /\ \A k, m \in 1 .. n : asked.interfaces[m].name = asked.interfaces[k].name => m = k
  BY InterfacesAre
<1>2. i \in 1 .. n
  OBVIOUS
<1> HIDE DEF n
<1>3. 1 .. i = (1 .. i - 1) \cup {i}
  BY <1>1, <1>2
<1>4. FirstSay(i) = FirstSay(i - 1) \cup W
  <2>1. FirstSay(i) = UNION {Says(k) : k \in 1 .. i}
    BY DEF FirstSay
  <2>2. FirstSay(i - 1) = UNION {Says(k) : k \in 1 .. i - 1}
    BY DEF FirstSay
  <2>3. W = Says(i)
    OBVIOUS
  <2> HIDE DEF Says, W
  <2> QED BY <1>3, <2>1, <2>2, <2>3
<1>5. Distinct(FirstSay(i - 1), W)
  <2>1. SUFFICES ASSUME NEW v \in FirstSay(i - 1), NEW w \in W PROVE v[1] # w[1]
    BY DEF Distinct
  <2>2. PICK k \in 1 .. i - 1 : v[1].block = asked.interfaces[k].name
    BY FirstSayName
  <2> DEFINE iface == asked.interfaces[i]
  <2>3. w \in InterfaceSays(iface)
    OBVIOUS
  <2> HIDE DEF iface
  <2>4. w[1].block = iface.name
    BY <2>3, InterfaceSaysName
  <2>5. k \in 1 .. n /\ k # i
    BY <1>1, <1>2, <2>2
  <2>6. asked.interfaces[k].name # iface.name
    BY <1>1, <1>2, <2>5 DEF iface
  <2> QED BY <2>2, <2>4, <2>6
<1> QED BY <1>4, <1>5

\* What all the sections say.
SectionsSay == SaidBy(SectionSays, Len(SectionSays))

\* Interfaces and sections say different things.
LEMMA SectionsApart ==
  ASSUME InReport
  PROVE  Distinct(FirstSay(Len(asked.interfaces)), SectionsSay)
<1> DEFINE n == Len(asked.interfaces)
<1>1. \A i \in 1 .. n : asked.interfaces[i].name \notin {"dns", "ladder", "public"}
  BY InterfacesAre DEF InReport
<1>2. Series(Blocks, SectionSays, {"dns", "ladder", "public"})
  BY BlocksAre DEF InReport
<1>3. SUFFICES ASSUME NEW v \in FirstSay(n), NEW w \in SectionsSay PROVE v[1] # w[1]
  BY DEF Distinct
<1>4. PICK k \in 1 .. n : v[1].block = asked.interfaces[k].name
  BY FirstSayName
<1>5. PICK b \in 1 .. Len(Blocks) : w \in SectionSays[b]
  BY <1>2 DEF SectionsSay, SaidBy, Series
<1>6. w[1].block \in {"dns", "ladder", "public"}
  BY <1>2, <1>5 DEF Series
<1> QED BY <1>1, <1>4, <1>6

\* An interface in its place: a blank line before all but the first.
LEMMA InterfaceLines ==
  ASSUME InReport, NEW j \in 1 .. Len(asked.interfaces), NEW listed \in BOOLEAN
  PROVE  LET iface == asked.interfaces[j]
             lead == IF listed THEN <<>> ELSE <<NewLine>>
         IN Sectioned(lead \o InterfaceBlock(iface), InterfaceSays(iface))
<1> DEFINE iface == asked.interfaces[j]
           block == InterfaceBlock(iface)
           W == InterfaceSays(iface)
           blank == <<NewLine>>
<1>1. j \in DOMAIN asked.interfaces
  BY InterfacesAre DEF InReport
<1>2. Prose(block, W) /\ block # <<>>
  BY <1>1, InterfaceText DEF InReport
<1>3. terminal \in Terminals
  BY DEF InReport
<1> HIDE DEF iface
<1> HIDE DEF block, W
<1>4. CASE ~listed
  <2>1. Sectioned(blank \o block, W)
    BY <1>2, <1>3, AfterBlank
  <2> QED BY <1>4, <2>1 DEF block, W, iface
<1>5. CASE listed
  <2>1. Sectioned(block, W)
    BY <1>2, ProseIsSectioned
  <2>2. block \in Seq(LinesOf(Names))
    BY <2>1, SectionedIsLines
  <2>3. <<>> \o block = block
    <3> DEFINE S == LinesOf(Names)
    <3>1. block \in Seq(S)
      BY <2>2
    <3> HIDE DEF S
    <3> QED BY <3>1, ConcatEmptySeq
  <2> QED BY <1>5, <2>1, <2>3 DEF block, W, iface
<1> QED BY <1>4, <1>5

\* What a report must look like was settled when it was asked for.
LEMMA ReportStays ==
  ASSUME UNCHANGED given
  PROVE  /\ \A lines, W : Sectioned(lines, W)' <=> Sectioned(lines, W)
         /\ \A i : FirstSay(i)' = FirstSay(i)
         /\ SectionsSay' = SectionsSay
<1>1. asked' = asked /\ terminal' = terminal /\ glyphs' = glyphs
  BY DEF given
<1>2. Edge' = Edge /\ (Narrow' <=> Narrow)
  BY <1>1 DEF Edge, Narrow
<1>3. ValueRoom' = ValueRoom
  BY <1>2 DEF ValueRoom
<1>4. Names' = Names
  BY <1>1 DEF Names, BlockNames, RowNames
<1>5. ASSUME NEW lines, NEW W PROVE Sectioned(lines, W)' <=> Sectioned(lines, W)
  <2>1. ASSUME NEW line PROVE Within(line)' <=> Within(line)
    BY <1>2 DEF Within, Home
  <2>2. ASSUME NEW line PROVE Clean(line)' <=> Clean(line)
    <3>1. ASSUME NEW this, NEW next PROVE Apart(this, next)' <=> Apart(this, next)
      BY <1>2 DEF Apart, Cramped
    <3> QED BY <1>4, <3>1 DEF Clean
  <2>3. Paper(lines)' <=> Paper(lines)
    BY <1>4, <2>1, <2>2 DEF Paper
  <2> QED BY <2>3 DEF Sectioned
<1>6. ASSUME NEW iface PROVE InterfaceSays(iface)' = InterfaceSays(iface)
  <2>1. NetworkRow(iface.wifi)' = NetworkRow(iface.wifi)
    BY <1>2, <1>3 DEF NetworkRow
  <2>2. CollectRows(iface)' = CollectRows(iface)
    BY <1>1, <2>1 DEF CollectRows
  <2>3. HeadSays(iface)' = HeadSays(iface)
    BY <1>1 DEF HeadSays, Bracketed
  <2> QED BY <2>2, <2>3 DEF InterfaceSays
<1>7. ASSUME NEW i PROVE FirstSay(i)' = FirstSay(i)
  BY <1>1, <1>6 DEF FirstSay
<1>8. SectionsSay' = SectionsSay
  <2>1. DnsSays' = DnsSays
    BY <1>1 DEF DnsSays, TitleSays
  <2>2. PublicSays' = PublicSays
    BY <1>1 DEF PublicSays, TitleSays
  <2>3. LadderSays' = LadderSays
    <3>1. Rungs' = Rungs
      BY <1>1 DEF Rungs
    <3>2. ASSUME NEW i PROVE StagesSay(i)' = StagesSay(i) /\ TimesSay(i)' = TimesSay(i)
      BY <1>1, <3>1 DEF StagesSay, StageSays, TimesSay, TimeSays, MarkFor
    <3>3. RungsSay' = RungsSay
      BY <1>2, <3>1, <3>2 DEF RungsSay
    <3>4. VerdictRow' = VerdictRow /\ PortalRow' = PortalRow
      BY <1>1 DEF VerdictRow, PortalRow, Bracketed
    <3>5. TitleSays("ladder", 12, 0)' = TitleSays("ladder", 12, 0)
      BY <1>1 DEF TitleSays
    <3> QED BY <1>1, <3>3, <3>4, <3>5 DEF LadderSays
  <2>4. SectionSays' = SectionSays
    BY <1>1, <2>1, <2>2, <2>3 DEF SectionSays
  <2> QED BY <2>4 DEF SectionsSay
<1> QED BY <1>5, <1>7, <1>8

\* The interfaces that are still to be shown.
Remains(ifaces, todo, done) ==
  /\ done \in 0 .. Len(ifaces) /\ todo \in Seq(ToSet(ifaces)) /\ Len(todo) = Len(ifaces) - done
  /\ \A k \in 1 .. Len(todo) : todo[k] = ifaces[done + k]

\* A section is on the page.
OnPage(lines, section) ==
  LET body == Tail(section) IN
  /\ (\E S : body \in Seq(LinesOf(S))) /\ 1 \in 1 .. Len(body) /\ IsTitled(body[1])
  /\ \E at, by : Kept(lines, body, at, by)

\* What a report says.
PageSays == FirstSay(Len(asked.interfaces)) \cup SectionsSay

\* Everything that was shown so far is on the page.
ReportInv ==
  asked.kind = "report" =>
    /\ InReport /\ progress \in {"header", "interfaces", "footer", "done"}
    /\ progress = "header" => out = <<>> /\ queue = asked.interfaces
    /\ progress = "interfaces" =>
         Begun(out) /\ \E done : /\ Remains(asked.interfaces, queue, done)
                                 /\ Sectioned(out, FirstSay(done))
    /\ progress \in {"footer", "done"} => Begun(out) /\ Sectioned(out, PageSays)
    /\ progress = "footer" /\ ~Narrow => \A b \in DOMAIN sections : OnPage(out, sections[b])

\* The next interface in the queue is the next of the report.
LEMMA RemainsNext ==
  ASSUME NEW ifaces, NEW todo, NEW done, Remains(ifaces, todo, done), Len(ifaces) \in Nat,
         todo # <<>>
  PROVE  /\ done + 1 \in 1 .. Len(ifaces) /\ Head(todo) = ifaces[done + 1]
         /\ Len(ifaces) - Len(todo) = done
         /\ Remains(ifaces, Tail(todo), done + 1)
<1> DEFINE S == ToSet(ifaces)
           n == Len(ifaces)
           rest == Tail(todo)
<1>1. /\ done \in 0 .. n /\ todo \in Seq(S) /\ Len(todo) = n - done /\ n \in Nat
      /\ \A k \in 1 .. Len(todo) : todo[k] = ifaces[done + k]
  BY DEF Remains
<1> HIDE DEF S
<1>2. /\ Len(todo) \in Nat \ {0} /\ Head(todo) = todo[1]
      /\ rest \in Seq(S) /\ Len(rest) = Len(todo) - 1
      /\ \A i \in 1 .. Len(rest) : rest[i] = todo[i + 1]
  BY <1>1, HeadTailProperties
<1> HIDE DEF rest, n
<1>3. done + 1 \in 1 .. n /\ Head(todo) = ifaces[done + 1] /\ n - Len(todo) = done
  BY <1>1, <1>2
<1>4. ASSUME NEW k \in 1 .. Len(rest) PROVE rest[k] = ifaces[done + 1 + k]
  <2> DEFINE m == k + 1
  <2>1. m \in 1 .. Len(todo) /\ done + m = done + 1 + k /\ rest[k] = todo[m]
    BY <1>1, <1>2
  <2> HIDE DEF m
  <2> QED BY <1>1, <2>1
<1>5. done + 1 \in 0 .. n /\ Len(rest) = n - (done + 1)
  BY <1>1, <1>2, <1>3
<1>6. Remains(ifaces, rest, done + 1)
  BY <1>2, <1>4, <1>5 DEF Remains, S, n
<1> QED BY <1>3, <1>6 DEF n, rest

\* At first all of them are in the queue.
LEMMA RemainsAll ==
  ASSUME NEW ifaces, ifaces \in Seq(ToSet(ifaces))
  PROVE  Remains(ifaces, ifaces, 0)
<1> DEFINE S == ToSet(ifaces)
<1>1. ifaces \in Seq(S)
  OBVIOUS
<1> HIDE DEF S
<1>2. Len(ifaces) \in Nat
  BY <1>1
<1>3. \A k \in 1 .. Len(ifaces) : 0 + k = k
  BY <1>2
<1>4. 0 \in 0 .. Len(ifaces) /\ Len(ifaces) = Len(ifaces) - 0
  BY <1>2
<1> QED BY <1>1, <1>3, <1>4 DEF Remains, S

\* An empty queue: all of them were shown.
LEMMA RemainsNone ==
  ASSUME NEW ifaces, NEW done, Remains(ifaces, <<>>, done), Len(ifaces) \in Nat
  PROVE  done = Len(ifaces)
<1> DEFINE n == Len(ifaces)
           none == <<>>
<1>1. Len(none) = 0
  OBVIOUS
<1>2. done \in 0 .. n /\ Len(none) = n - done /\ n \in Nat
  BY DEF Remains
<1> HIDE DEF n, none
<1>3. done = n
  BY <1>1, <1>2
<1> QED BY <1>3 DEF n

\* Before the first interface nothing was said.
LEMMA NoneSaid == FirstSay(0) = {}
<1> DEFINE none == 1 .. 0
<1>1. \A k \in none : FALSE
  OBVIOUS
<1> HIDE DEF none
<1>2. UNION {InterfaceSays(asked.interfaces[k]) : k \in none} = {}
  BY <1>1
<1> QED BY <1>2 DEF FirstSay, none

\* A report begins with an empty page.
LEMMA ReportInitInv == PageInit => ReportInv
<1> SUFFICES ASSUME PageInit, asked.kind = "report" PROVE ReportInv
  BY DEF ReportInv
<1>1. InReport
  BY PagesAssumption DEF PageInit, InReport
<1>2. progress = "header" /\ out = <<>> /\ queue = asked.interfaces
  BY DEF PageInit
<1> QED BY <1>1, <1>2 DEF ReportInv

\* The interfaces follow the header.
LEMMA HeaderStep ==
  ASSUME InReport, progress = "header", out = <<>>, queue = asked.interfaces, Header
  PROVE  /\ Begun(out') /\ Remains(asked.interfaces, queue', 0)
         /\ Sectioned(out', FirstSay(0))
<1> DEFINE nobody == queue = <<>>
<1>1. out' = HeaderLines(nobody)
  BY DEF Header, HeaderLines, TopLine, NobodyLine, Mark
<1>2. terminal \in Terminals /\ nobody \in BOOLEAN
  BY DEF InReport
<1> HIDE DEF nobody
<1>3. Sectioned(out', {}) /\ Begun(out')
  BY <1>1, <1>2, HeaderText
<1>4. queue' = asked.interfaces
  BY DEF Header
<1>5. asked.interfaces \in Seq(ToSet(asked.interfaces))
  BY InterfacesAre DEF InReport
<1> DEFINE ifaces == asked.interfaces
<1>6. ifaces \in Seq(ToSet(ifaces)) /\ queue' = ifaces
  BY <1>4, <1>5
<1> HIDE DEF ifaces
<1>7. Remains(ifaces, queue', 0)
  BY <1>6, RemainsAll
<1> QED BY <1>3, <1>7, NoneSaid DEF ifaces

\* An interface is shown, and with it what it has to say.
LEMMA ShowInterfaceStep ==
  ASSUME InReport, Begun(out), NEW done, Remains(asked.interfaces, queue, done),
         Sectioned(out, FirstSay(done)), ShowInterface
  PROVE  /\ Begun(out') /\ Remains(asked.interfaces, queue', done + 1)
         /\ Sectioned(out', FirstSay(done + 1))
<1> DEFINE ifaces == asked.interfaces
           j == done + 1
           iface == ifaces[j]
           before == Len(ifaces) - Len(queue)
           listed == before > 0 /\ Collapsed(Head(queue)) /\ Collapsed(ifaces[before])
           lead == IF listed THEN <<>> ELSE <<NewLine>>
           block == InterfaceBlock(iface)
           W == InterfaceSays(iface)
           lines == lead \o block
           V == FirstSay(done)
<1>1. Len(ifaces) \in Nat
  BY InterfacesAre DEF InReport
<1>2. queue # <<>> /\ queue' = Tail(queue) /\ out' = out \o lead \o InterfaceBlock(Head(queue))
  BY DEF ShowInterface
<1>3. Remains(ifaces, queue, done)
  OBVIOUS
<1>4. j \in 1 .. Len(ifaces) /\ Head(queue) = iface /\ Remains(ifaces, queue', j)
  <2> HIDE DEF ifaces
  <2> QED BY <1>1, <1>2, <1>3, RemainsNext DEF ifaces
<1>5. done \in Nat /\ j - 1 = done
  BY <1>1 DEF Remains
<1>6. listed \in BOOLEAN
  BY DEF Collapsed
<1> HIDE DEF listed
<1>7. Sectioned(lines, W)
  <2>1. j \in 1 .. Len(asked.interfaces)
    BY <1>4
  <2> HIDE DEF j
  <2> QED BY <1>6, <2>1, InterfaceLines
<1>8. FirstSay(j) = V \cup W /\ Distinct(V, W)
  <2>1. j \in 1 .. Len(asked.interfaces)
    BY <1>4
  <2> HIDE DEF j
  <2>2. FirstSay(j) = FirstSay(j - 1) \cup W /\ Distinct(FirstSay(j - 1), W)
    BY <2>1, FirstSayNext DEF InReport
  <2> QED BY <1>5, <2>2
<1> DEFINE S == LinesOf(Names)
<1>9. lead \in Seq(S)
  BY BlankLine
<1>10. block \in Seq(S)
  <2>1. j \in DOMAIN asked.interfaces
    BY <1>4, InterfacesAre DEF InReport
  <2> HIDE DEF j
  <2>2. Prose(block, W)
    BY <2>1, InterfaceText DEF InReport
  <2> QED BY <2>2 DEF Prose, Text, Paper
<1>11. Sectioned(out, V)
  OBVIOUS
<1>12. out \in Seq(S)
  <2> HIDE DEF V
  <2> QED BY <1>11, SectionedIsLines
<1>13. out' = (out \o lead) \o block
  BY <1>2, <1>4
<1> HIDE DEF S, lead, block, W, V
<1>14. (out \o lead) \o block = out \o lines
  BY <1>9, <1>10, <1>12, ConcatAssociative DEF lines
<1>15. lines \in Seq(S)
  BY <1>9, <1>10, ConcatProperties
<1> HIDE DEF lines
<1>16. Sectioned(out \o lines, V \cup W)
  BY <1>7, <1>8, <1>11, SectionedJoined
<1>17. Begun(out \o lines)
  BY <1>12, <1>15, BegunJoined
<1> QED BY <1>4, <1>8, <1>13, <1>14, <1>16, <1>17 DEF j, ifaces

\* There always is a section, that of the name servers.
LEMMA BlocksThere ==
  ASSUME InReport
  PROVE  Series(Blocks, SectionSays, {"dns", "ladder", "public"}) /\ 1 \in 1 .. Len(Blocks)
<1>1. Series(Blocks, SectionSays, {"dns", "ladder", "public"})
  BY BlocksAre DEF InReport
<1> DEFINE x == DnsSection
           y == ReachabilitySection
           z == PublicSection
           T == {x, y, z}
           a == <<x>>
           b == IF asked.reachability.rungs = <<>> THEN <<>> ELSE <<y>>
           d == IF asked.public = <<>> THEN <<>> ELSE <<z>>
<1>2. Blocks = (a \o b) \o d
  BY DEF Blocks
<1> HIDE DEF x, y, z
<1>3. a \in Seq(T) /\ Len(a) = 1 /\ b \in Seq(T) /\ d \in Seq(T)
  <2>1. x \in T /\ y \in T /\ z \in T
    OBVIOUS
  <2> HIDE DEF T
  <2>2. <<x>> \in Seq(T) /\ <<y>> \in Seq(T) /\ <<z>> \in Seq(T) /\ <<>> \in Seq(T)
    BY <2>1
  <2>3. Len(<<x>>) = 1
    BY <2>1
  <2> QED BY <2>2, <2>3
<1>4. a \in Seq(T) /\ b \in Seq(T)
  BY <1>3
<1> DEFINE ab == a \o b
<1> HIDE DEF a, b, d, T
<1>5. ab \in Seq(T) /\ Len(ab) = 1 + Len(b) /\ Len(b) \in Nat
  <2>1. ab \in Seq(T) /\ Len(ab) = Len(a) + Len(b) /\ Len(b) \in Nat
    BY <1>4, Joined
  <2> HIDE DEF ab
  <2> QED BY <1>3, <2>1
<1>8. ab \in Seq(T) /\ d \in Seq(T)
  BY <1>3, <1>5
<1> HIDE DEF ab
<1>6. Len(ab \o d) = Len(ab) + Len(d) /\ Len(d) \in Nat
  BY <1>8, Joined
<1>7. Len(Blocks) = 1 + Len(b) + Len(d)
  BY <1>2, <1>5, <1>6 DEF ab
<1> QED BY <1>1, <1>5, <1>6, <1>7

\* The sections follow the interfaces.
LEMMA SectionsStep ==
  ASSUME InReport, Begun(out), NEW done, Remains(asked.interfaces, queue, done),
         Sectioned(out, FirstSay(done)), Sections
  PROVE  /\ Begun(out') /\ Sectioned(out', PageSays)
         /\ ~Narrow => \A b \in DOMAIN sections' : OnPage(out', sections'[b])
<1> DEFINE S == LinesOf(Names)
           n == Len(asked.interfaces)
           V == FirstSay(n)
           B == {"dns", "ladder", "public"}
           blocks == Blocks
           lines == IF Narrow THEN FlattenSeq(blocks) ELSE Pack(blocks, Edge)
           says == SectionSays
<1>1. queue = <<>> /\ sections' = blocks
      /\ out' = out \o (IF Narrow THEN FlattenSeq(sections') ELSE Pack(sections', Edge))
  BY DEF Sections, GoOn
<1>2. out' = out \o lines
  BY <1>1
<1>3. done = n
  <2> DEFINE ifaces == asked.interfaces
             m == Len(ifaces)
  <2>1. m \in Nat
    BY InterfacesAre DEF InReport
  <2>2. Remains(ifaces, <<>>, done)
    BY <1>1
  <2> HIDE DEF ifaces
  <2>3. done = m
    BY <2>1, <2>2, RemainsNone
  <2> QED BY <2>3 DEF ifaces
<1>4. Sectioned(out, V)
  BY <1>3
<1>5. Series(blocks, says, B) /\ 1 \in 1 .. Len(blocks) /\ terminal \in Terminals
  BY BlocksThere DEF InReport
<1>6. Distinct(V, SectionsSay)
  BY SectionsApart
<1>7. PageSays = V \cup SectionsSay
  BY DEF PageSays
<1>8. SectionsSay = SaidBy(says, Len(blocks))
  BY <1>5 DEF SectionsSay, Series
<1> HIDE DEF V, B, blocks, says, n
<1>9. Sectioned(FlattenSeq(blocks), SaidBy(says, Len(blocks)))
  BY <1>5, StackText
<1>10. /\ Sectioned(Pack(blocks, Edge), SaidBy(says, Len(blocks)))
       /\ \A b \in 1 .. Len(blocks) : \E at, by : Kept(Pack(blocks, Edge), Tail(blocks[b]), at, by)
  BY <1>5, PackText
<1>11. Sectioned(lines, SectionsSay)
  BY <1>8, <1>9, <1>10
<1>12. out \in Seq(S)
  <2> HIDE DEF S
  <2> QED BY <1>4, SectionedIsLines DEF S
<1>13. lines \in Seq(S)
  <2> HIDE DEF lines
  <2> QED BY <1>11, SectionedIsLines
<1> DEFINE all == out \o lines
<1> HIDE DEF lines, S
<1>14. Sectioned(all, V \cup SectionsSay)
  BY <1>4, <1>6, <1>11, SectionedJoined
<1>15. Begun(all)
  BY <1>12, <1>13, BegunJoined
<1>16. ASSUME ~Narrow, NEW b \in DOMAIN blocks PROVE OnPage(all, blocks[b])
  <2> DEFINE body == Tail(blocks[b])
  <2>1. b \in 1 .. Len(blocks) /\ lines = Pack(blocks, Edge)
    BY <1>5, <1>16 DEF Series, lines
  <2>2. IsSection(blocks[b], says[b])
    BY <1>5, <2>1 DEF Series
  <2>3. Titled(body, says[b])
    BY <2>2 DEF IsSection
  <2>4. PICK at, by : Kept(lines, body, at, by)
    BY <1>10, <2>1
  <2>5. body \in Seq(LinesOf(Names)) /\ 1 \in 1 .. Len(body) /\ IsTitled(body[1])
    BY <2>3 DEF Titled, Text, Paper
  <2> HIDE DEF body
  <2>6. Kept(all, body, Len(out) + at, by)
    BY <1>12, <1>13, <2>4, KeptAfter
  <2> HIDE DEF all
  <2> QED BY <2>5, <2>6 DEF OnPage, body
<1> QED BY <1>1, <1>2, <1>7, <1>14, <1>15, <1>16 DEF all

\* The footer adds nothing to what is said.
LEMMA FooterStep ==
  ASSUME InReport, Begun(out), Sectioned(out, PageSays), Footer
  PROVE  Begun(out') /\ Sectioned(out', PageSays)
<1> DEFINE S == LinesOf(Names)
<1>1. CASE ~asked.update
  <2>1. out \in Seq(S)
    <3> HIDE DEF S
    <3> QED BY SectionedIsLines DEF S
  <2> HIDE DEF S
  <2>2. out \o <<>> = out
    BY <2>1, ConcatEmptySeq
  <2>3. out' = out
    BY <1>1, <2>2 DEF Footer
  <2> QED BY <2>3
<1>2. CASE asked.update
  <2>1. out' = out \o FooterLines
    BY <1>2 DEF Footer, FooterLines, FooterLine, ActionSize, Mark
  <2>2. Sectioned(FooterLines, {})
    BY FooterText DEF InReport
  <2> DEFINE lines == FooterLines
             all == out \o lines
             W == PageSays
  <2>3. Sectioned(lines, {}) /\ Sectioned(out, W)
    BY <2>2
  <2> HIDE DEF lines, W, S
  <2>4. out \in Seq(S) /\ lines \in Seq(S)
    BY <2>3, SectionedIsLines DEF S
  <2>5. Sectioned(all, W)
    BY <2>3, NothingMore
  <2>6. Begun(all)
    BY <2>4, BegunJoined
  <2> QED BY <2>1, <2>5, <2>6 DEF all, lines, W
<1> QED BY <1>1, <1>2

\* Every step adds lines below those there are, in their order.
LEMMA ReportStep == ReportInv /\ [PageNext]_pageVars => ReportInv'
<1> SUFFICES ASSUME ReportInv, [PageNext]_pageVars PROVE ReportInv'
  OBVIOUS
<1>1. UNCHANGED given
  BY DEF PageNext, pageVars, GoOn, Header, ShowInterface, Sections, Footer,
         TableHeading, ShowGroup, TableFooter
<1>2. asked' = asked /\ terminal' = terminal /\ glyphs' = glyphs
  BY <1>1 DEF given
<1>3. CASE asked.kind # "report"
  BY <1>2, <1>3 DEF ReportInv
<1>4. CASE asked.kind = "report"
  <2>1. InReport /\ progress \in {"header", "interfaces", "footer", "done"}
    BY <1>4 DEF ReportInv
  <2>2. InReport' /\ (Narrow' <=> Narrow) /\ asked'.interfaces = asked.interfaces
    BY <1>2, <2>1 DEF InReport, Narrow
  <2>3. \A i : FirstSay(i)' = FirstSay(i)
    BY <1>1, ReportStays
  <2>4. PageSays' = PageSays
    <3>1. SectionsSay' = SectionsSay
      BY <1>1, ReportStays
    <3>2. asked.interfaces' = asked.interfaces
      BY <1>2
    <3>3. FirstSay(Len(asked.interfaces))' = FirstSay(Len(asked.interfaces))
      BY <2>3, <3>2 DEF FirstSay
    <3> QED BY <3>1, <3>3 DEF PageSays
  <2>5. \A W : Sectioned(out, W)' <=> Sectioned(out', W)
    <3>1. \A lines, W : Sectioned(lines, W)' <=> Sectioned(lines, W)
      BY <1>1, ReportStays
    <3> QED BY <3>1
  <2>6. CASE Header
    <3>1. progress = "header" /\ progress' = "interfaces"
      BY <2>6 DEF Header, GoOn
    <3>2. out = <<>> /\ queue = asked.interfaces
      BY <1>4, <3>1 DEF ReportInv
    <3>3. /\ Begun(out') /\ Remains(asked.interfaces, queue', 0)
          /\ Sectioned(out', FirstSay(0))
      BY <2>1, <2>6, <3>1, <3>2, HeaderStep
    <3> DEFINE done == 0
    <3>4. Remains(asked.interfaces, queue', done) /\ Sectioned(out', FirstSay(done))
      BY <3>3
    <3> HIDE DEF done
    <3>5. Remains(asked.interfaces, queue, done)' /\ Sectioned(out, FirstSay(done))'
      BY <1>2, <2>3, <2>5, <3>4 DEF Remains
    <3> QED BY <2>2, <3>1, <3>3, <3>5 DEF ReportInv
  <2>7. CASE ShowInterface
    <3>1. progress = "interfaces" /\ progress' = "interfaces"
      BY <2>7 DEF ShowInterface
    <3>2. PICK done : Remains(asked.interfaces, queue, done) /\ Sectioned(out, FirstSay(done))
      BY <1>4, <3>1 DEF ReportInv
    <3>3. Begun(out)
      BY <1>4, <3>1 DEF ReportInv
    <3> DEFINE next == done + 1
    <3>4. /\ Begun(out') /\ Remains(asked.interfaces, queue', next)
          /\ Sectioned(out', FirstSay(next))
      BY <2>1, <2>7, <3>2, <3>3, ShowInterfaceStep
    <3> HIDE DEF next
    <3>5. Remains(asked.interfaces, queue, next)' /\ Sectioned(out, FirstSay(next))'
      BY <1>2, <2>3, <2>5, <3>4 DEF Remains
    <3> QED BY <2>2, <3>1, <3>4, <3>5 DEF ReportInv
  <2>8. CASE Sections
    <3>1. progress = "interfaces" /\ progress' = "footer"
      BY <2>8 DEF Sections, GoOn
    <3>2. PICK done : Remains(asked.interfaces, queue, done) /\ Sectioned(out, FirstSay(done))
      BY <1>4, <3>1 DEF ReportInv
    <3>3. Begun(out)
      BY <1>4, <3>1 DEF ReportInv
    <3>4. /\ Begun(out') /\ Sectioned(out', PageSays)
          /\ ~Narrow => \A b \in DOMAIN sections' : OnPage(out', sections'[b])
      BY <2>1, <2>8, <3>2, <3>3, SectionsStep
    <3>5. Sectioned(out, PageSays)'
      BY <2>4, <2>5, <3>4
    <3> QED BY <2>2, <3>1, <3>4, <3>5 DEF ReportInv
  <2>9. CASE Footer
    <3>1. progress = "footer" /\ progress' = "done"
      BY <2>9 DEF Footer, GoOn
    <3>2. Begun(out) /\ Sectioned(out, PageSays)
      BY <1>4, <3>1 DEF ReportInv
    <3>3. Begun(out') /\ Sectioned(out', PageSays)
      BY <2>1, <2>9, <3>2, FooterStep
    <3>4. Sectioned(out, PageSays)'
      BY <2>4, <2>5, <3>3
    <3> QED BY <2>2, <3>1, <3>3, <3>4 DEF ReportInv
  <2>10. CASE UNCHANGED pageVars
    <3>1. progress' = progress /\ queue' = queue /\ out' = out /\ sections' = sections
      BY <2>10 DEF pageVars
    <3>2. Sectioned(out, PageSays)' <=> Sectioned(out, PageSays)
      BY <2>4, <2>5, <3>1
    <3>3. \A done : Sectioned(out, FirstSay(done))' <=> Sectioned(out, FirstSay(done))
      BY <2>3, <2>5, <3>1
    <3>4. CASE progress = "header"
      BY <1>2, <1>4, <2>2, <3>1, <3>4 DEF ReportInv
    <3>5. CASE progress = "interfaces"
      <4>1. PICK done : Remains(asked.interfaces, queue, done) /\ Sectioned(out, FirstSay(done))
        BY <1>4, <3>5 DEF ReportInv
      <4>2. Remains(asked.interfaces, queue, done)' /\ Sectioned(out, FirstSay(done))'
        BY <1>2, <3>1, <3>3, <4>1 DEF Remains
      <4>3. Begun(out)'
        BY <1>4, <3>1, <3>5 DEF ReportInv
      <4> QED BY <2>2, <3>1, <3>5, <4>2, <4>3 DEF ReportInv
    <3>6. CASE progress = "footer"
      <4>1. Begun(out) /\ Sectioned(out, PageSays)
            /\ (~Narrow => \A b \in DOMAIN sections : OnPage(out, sections[b]))
        BY <1>4, <3>6 DEF ReportInv
      <4> QED BY <2>2, <3>1, <3>2, <3>6, <4>1 DEF ReportInv
    <3>7. CASE progress = "done"
      <4>1. Begun(out) /\ Sectioned(out, PageSays)
        BY <1>4, <3>7 DEF ReportInv
      <4> QED BY <2>2, <3>1, <3>2, <3>7, <4>1 DEF ReportInv
    <3> QED BY <2>1, <3>4, <3>5, <3>6, <3>7
  <2>11. ~TableHeading /\ ~ShowGroup /\ ~TableFooter
    BY <2>1 DEF TableHeading, ShowGroup, TableFooter, GoOn
  <2> QED BY <2>6, <2>7, <2>8, <2>9, <2>10, <2>11 DEF PageNext
<1> QED BY <1>3, <1>4

-----------------------------------------------------------------------------
(* What is to be seen on a page like that.                                 *)

\* The places of a page are the lines and the pieces on them.
LEMMA PlacesAre ==
  ASSUME NEW S, out \in Seq(S), \A i \in 1 .. Len(out) : \E T : out[i].spans \in Seq(T)
  PROVE  /\ \A p \in Places : /\ p[1] \in 1 .. Len(out) /\ p[2] \in 1 .. Len(out[p[1]].spans)
                              /\ p = <<p[1], p[2]>> /\ SpanAt(p) = out[p[1]].spans[p[2]]
         /\ \A i \in 1 .. Len(out) : \A k \in 1 .. Len(out[i].spans) :
              /\ <<i, k>> \in Places /\ SpanAt(<<i, k>>) = out[i].spans[k]
              /\ <<i, k>>[1] = i /\ <<i, k>>[2] = k
         /\ \A p \in Places : p \in Pieces <=> IsName(SpanAt(p).what)
         /\ \A p \in Pieces : p \in Places /\ IsName(SpanAt(p).what)
<1>1. DOMAIN out = 1 .. Len(out)
  OBVIOUS
<1>2. \A i \in 1 .. Len(out) : DOMAIN out[i].spans = 1 .. Len(out[i].spans)
  OBVIOUS
<1>3. ASSUME NEW p \in Places
      PROVE  /\ p[1] \in 1 .. Len(out) /\ p[2] \in 1 .. Len(out[p[1]].spans)
             /\ p = <<p[1], p[2]>>
  <2>1. PICK i \in DOMAIN out : p \in {<<i, k>> : k \in DOMAIN out[i].spans}
    BY <1>3 DEF Places
  <2>2. PICK k \in DOMAIN out[i].spans : p = <<i, k>>
    BY <2>1
  <2>3. i \in 1 .. Len(out) /\ k \in 1 .. Len(out[i].spans)
    BY <1>1, <1>2, <2>1, <2>2
  <2> QED BY <2>2, <2>3
<1>4. ASSUME NEW i \in 1 .. Len(out), NEW k \in 1 .. Len(out[i].spans)
      PROVE  <<i, k>> \in Places
  <2>1. i \in DOMAIN out /\ k \in DOMAIN out[i].spans
    BY <1>1, <1>2
  <2> QED BY <2>1 DEF Places
<1> QED BY <1>3, <1>4 DEF SpanAt, Pieces, IsPiece, IsName

\* What every line of the page has.
LEMMA PaperLines ==
  ASSUME Paper(out)
  PROVE  /\ out \in Seq(LinesOf(Names)) /\ Len(out) \in Nat /\ DOMAIN out = 1 .. Len(out)
         /\ \A i \in 1 .. Len(out) :
              /\ Clean(out[i]) /\ Within(out[i]) /\ out[i].width \in Nat
              /\ out[i].spans \in Seq(SpansOf(Names)) /\ Len(out[i].spans) \in Nat
              /\ DOMAIN out[i].spans = 1 .. Len(out[i].spans)
<1>1. out \in Seq(LinesOf(Names)) /\ \A i \in 1 .. Len(out) : Clean(out[i]) /\ Within(out[i])
  BY DEF Paper
<1>2. ASSUME NEW i \in 1 .. Len(out)
      PROVE  /\ out[i].width \in Nat /\ out[i].spans \in Seq(SpansOf(Names))
             /\ Len(out[i].spans) \in Nat /\ DOMAIN out[i].spans = 1 .. Len(out[i].spans)
  <2> DEFINE line == out[i]
  <2>1. Clean(line)
    BY <1>1
  <2> HIDE DEF line
  <2>2. line \in LinesOf(Names)
    BY <2>1 DEF Clean
  <2>3. /\ line.spans \in Seq(SpansOf(Names)) /\ Len(line.spans) \in Nat /\ line.width \in Nat
        /\ DOMAIN line.spans = 1 .. Len(line.spans)
    BY <2>2, SpansOfNeat
  <2> QED BY <2>3 DEF line
<1>3. DOMAIN out = 1 .. Len(out) /\ Len(out) \in Nat
  <2> DEFINE S == LinesOf(Names)
  <2>1. out \in Seq(S)
    BY <1>1
  <2> HIDE DEF S
  <2> QED BY <2>1
<1> QED BY <1>1, <1>2, <1>3

\* The places of a report.
LEMMA PaperPlaces ==
  ASSUME Paper(out)
  PROVE  /\ \A p \in Places : /\ p[1] \in 1 .. Len(out) /\ p[2] \in 1 .. Len(out[p[1]].spans)
                              /\ p = <<p[1], p[2]>> /\ SpanAt(p) = out[p[1]].spans[p[2]]
         /\ \A i \in 1 .. Len(out) : \A k \in 1 .. Len(out[i].spans) :
              /\ <<i, k>> \in Places /\ SpanAt(<<i, k>>) = out[i].spans[k]
              /\ <<i, k>>[1] = i /\ <<i, k>>[2] = k
         /\ \A p \in Places : p \in Pieces <=> IsName(SpanAt(p).what)
         /\ \A p \in Pieces : p \in Places /\ IsName(SpanAt(p).what)
<1> DEFINE S == LinesOf(Names)
           T == SpansOf(Names)
<1>1. out \in Seq(S) /\ \A i \in 1 .. Len(out) : out[i].spans \in Seq(T)
  BY PaperLines
<1> HIDE DEF S, T
<1>2. \A i \in 1 .. Len(out) : \E U : out[i].spans \in Seq(U)
  BY <1>1
<1> QED BY <1>1, <1>2, PlacesAre

\* Pieces that stand apart on each line stand apart on the page, and within
\* its edge.
LEMMA ReportIsReadable ==
  ASSUME InReport, Paper(out), progress \in {"header", "interfaces", "footer", "done"}
  PROVE  PageTypeOK /\ PiecesApart /\ WithinEdge
<1>1. \A i \in DOMAIN out : out[i].width \in Nat
  BY PaperLines
<1>2. ASSUME NEW p \in Places
      PROVE  /\ SpanAt(p).from \in 1 .. SpanAt(p).to /\ SpanAt(p).to <= out[p[1]].width
             /\ p[2] > 1 => SpanAt(<<p[1], p[2] - 1>>).to < SpanAt(p).from
  <2> DEFINE i == p[1]
             k == p[2]
             line == out[i]
  <2>1. i \in 1 .. Len(out) /\ k \in 1 .. Len(line.spans) /\ SpanAt(p) = line.spans[k]
    BY PaperPlaces
  <2>2. Clean(line) /\ Len(line.spans) \in Nat
    BY <2>1, PaperLines
  <2>3. ASSUME k > 1 PROVE k - 1 \in 1 .. Len(line.spans) /\ k \in 2 .. Len(line.spans)
    BY <2>1, <2>2, <2>3
  <2>4. ASSUME k > 1 PROVE SpanAt(<<i, k - 1>>) = line.spans[k - 1]
    BY <2>1, <2>3, <2>4, PaperPlaces
  <2> HIDE DEF i, k, line
  <2>5. ASSUME k > 1 PROVE SpanAt(<<i, k - 1>>).to < SpanAt(p).from
    BY <2>1, <2>2, <2>3, <2>4, <2>5 DEF Clean
  <2>6. SpanAt(p).from \in 1 .. SpanAt(p).to /\ SpanAt(p).to <= line.width
    BY <2>1, <2>2 DEF Clean
  <2> QED BY <2>5, <2>6 DEF i, k, line
<1>3. PageTypeOK
  BY <1>1, <1>2 DEF PageTypeOK, InReport
<1>4. PiecesApart
  <2>1. SUFFICES ASSUME NEW p \in Pieces, <<p[1], p[2] + 1>> \in Pieces
                 PROVE  LET this == SpanAt(p)
                            next == SpanAt(<<p[1], p[2] + 1>>)
                            between == next.from - this.to - 1
                        IN /\ \/ between >= 1
                              \/ /\ Part(next) = "status" /\ ~Narrow
                                 /\ this.to + Size(next) >= Edge
                           /\ Part(next) = "annotation" \/ this.what.block # next.what.block
                                => between >= 2
    BY DEF PiecesApart
  <2> DEFINE i == p[1]
             k == p[2]
             j == k + 1
             q == <<i, j>>
             line == out[i]
             this == SpanAt(p)
             next == SpanAt(q)
  <2>2. p \in Places /\ IsName(this.what) /\ q \in Places /\ IsName(next.what)
    BY <2>1, PaperPlaces
  <2>3. i \in 1 .. Len(out) /\ k \in 1 .. Len(line.spans) /\ this = line.spans[k]
    BY <2>2, PaperPlaces
  <2>4. j \in 1 .. Len(line.spans) /\ next = line.spans[j]
    <3>1. /\ q[1] \in 1 .. Len(out) /\ q[2] \in 1 .. Len(out[q[1]].spans)
          /\ SpanAt(q) = out[q[1]].spans[q[2]]
      <4> HIDE DEF q
      <4> QED BY <2>2, PaperPlaces
    <3>2. q[1] = i /\ q[2] = j
      OBVIOUS
    <3> QED BY <3>1, <3>2
  <2>5. Clean(line) /\ Len(line.spans) \in Nat
    BY <2>3, PaperLines
  <2> HIDE DEF i, k, line, this, q, next
  <2>6. j \in 2 .. Len(line.spans) /\ j - 1 = k
    BY <2>3, <2>4, <2>5
  <2> HIDE DEF j
  <2>7. Apart(line.spans[j - 1], line.spans[j])
    BY <2>5, <2>6 DEF Clean
  <2>8. Apart(this, next)
    BY <2>3, <2>4, <2>6, <2>7
  <2>9. /\ next.what.part = "annotation" \/ this.what.block # next.what.block =>
             next.from - this.to > 2
        /\ \/ next.from - this.to > 1
           \/ next.what.part = "status" /\ ~Narrow /\ this.to + Size(next) >= Edge
    BY <2>2, <2>8 DEF Apart, Cramped
  <2>10. this.to \in Nat /\ next.from \in Nat
    <3>1. this.to \in Nat
      BY <2>3, <2>5, CleanSpans
    <3>2. next.from \in Nat
      BY <2>4, <2>5, CleanSpans
    <3> QED BY <3>1, <3>2
  <2>11. /\ next.what.part = "annotation" \/ this.what.block # next.what.block =>
              next.from - this.to - 1 >= 2
         /\ \/ next.from - this.to - 1 >= 1
            \/ next.what.part = "status" /\ ~Narrow /\ this.to + Size(next) >= Edge
    BY <2>9, <2>10
  <2> QED BY <2>11 DEF Part, this, next, q, i, j, k
<1>5. WithinEdge
  <2>1. SUFFICES ASSUME NEW i \in DOMAIN out, out[i].width > Edge
                 PROVE  \E k \in DOMAIN out[i].spans :
                          LET span == out[i].spans[k] IN
                            /\ IsPiece(span)
                            /\ \/ k = Len(out[i].spans) /\ span.from <= Home(Part(span))
                               \/ span.what.row = "head"
    BY DEF WithinEdge
  <2>2. Within(out[i]) /\ DOMAIN out[i].spans = 1 .. Len(out[i].spans)
    BY PaperLines
  <2> QED BY <2>1, <2>2 DEF Within, IsPiece, IsName, Part
<1> QED BY <1>3, <1>4, <1>5

\* Times under their stages on the page as in the ladder.
LEMMA TimesUnderStages ==
  ASSUME Paper(out), Timed(out)
  PROVE  TimingsUnderStages
<1>1. SUFFICES ASSUME NEW p \in Pieces, Part(SpanAt(p)) = "timing"
               PROVE  \E q \in Pieces :
                        /\ q[1] = p[1] - 1 /\ Part(SpanAt(q)) = "stage"
                        /\ SpanAt(q).what.row = SpanAt(p).what.row
                        /\ SpanAt(q).from = SpanAt(p).from
  BY DEF TimingsUnderStages
<1> DEFINE i == p[1]
           k == p[2]
           h == i - 1
           span == SpanAt(p)
<1>2. p \in Places /\ IsName(span.what)
  BY PaperPlaces
<1>3. i \in 1 .. Len(out) /\ k \in 1 .. Len(out[i].spans) /\ span = out[i].spans[k]
  BY <1>2, PaperPlaces
<1>4. span.what.part = "timing"
  BY <1>1 DEF Part
<1> HIDE DEF span, i, k
<1>5. h \in 1 .. Len(out) /\ Under(span, out[h])
  BY <1>2, <1>3, <1>4 DEF Timed
<1> HIDE DEF h
<1>6. PICK m \in 1 .. Len(out[h].spans) :
        /\ IsName(out[h].spans[m].what) /\ out[h].spans[m].what.part = "stage"
        /\ out[h].spans[m].what.row = span.what.row /\ out[h].spans[m].from = span.from
  BY <1>5 DEF Under
<1> DEFINE q == <<h, m>>
<1>7. q \in Places /\ SpanAt(q) = out[h].spans[m] /\ q[1] = h
  BY <1>5, <1>6, PaperPlaces
<1> HIDE DEF q
<1>8. q \in Pieces
  BY <1>6, <1>7, PaperPlaces
<1>9. /\ q[1] = p[1] - 1 /\ Part(SpanAt(q)) = "stage"
      /\ SpanAt(q).what.row = SpanAt(p).what.row /\ SpanAt(q).from = SpanAt(p).from
  BY <1>6, <1>7 DEF h, i, span, Part
<1> QED BY <1>8, <1>9

\* The last of the lines.
LEMMA LastIs ==
  ASSUME NEW S, NEW lines \in Seq(S)
  PROVE  Last(lines) = lines[Len(lines)]
BY DEF Last

\* Lines that are closed and begun have one blank line between two blocks and
\* none at either end.
LEMMA OneBlankIs ==
  ASSUME NEW S, out \in Seq(S), Closed(out), progress = "done" => Begun(out)
  PROVE  OneBlankLine
<1>1. \A i \in 2 .. Len(out) : ~(IsBlank(out[i]) /\ IsBlank(out[i - 1]))
  BY DEF Closed, Parted
<1>2. ASSUME progress = "done" PROVE ~IsBlank(out[1]) /\ ~IsBlank(Last(out))
  <2>1. 1 \in 1 .. Len(out) /\ ~IsBlank(out[1])
    BY <1>2 DEF Begun
  <2>2. out # <<>>
    <3>1. Len(<<>>) = 0
      OBVIOUS
    <3> QED BY <2>1, <3>1
  <2>3. ~IsBlank(out[Len(out)])
    BY <2>2 DEF Closed
  <2> QED BY <2>1, <2>3, LastIs
<1> QED BY <1>1, <1>2 DEF OneBlankLine

\* A piece occurs at its place.
LEMMA OccursAt ==
  ASSUME Paper(out), NEW p \in Places
  PROVE  Occurs(out, p[1], p[2], SpanAt(p).what)
<1>1. /\ p[1] \in 1 .. Len(out) /\ p[2] \in 1 .. Len(out[p[1]].spans)
      /\ SpanAt(p) = out[p[1]].spans[p[2]]
  BY PaperPlaces
<1> QED BY <1>1 DEF Occurs

\* Nothing that is shown is in two places.
LEMMA OnePlace ==
  ASSUME Paper(out), NEW W, Tells(out, W), NEW p \in Places,
         NEW q \in Places, NEW what, Shown(what),
         SpanAt(p).what = what, SpanAt(q).what = what
  PROVE  p = q
<1> DEFINE i == p[1]
           k == p[2]
           j == q[1]
           m == q[2]
<1>1. Occurs(out, i, k, what)
  BY OccursAt
<1>2. Occurs(out, j, m, what)
  BY OccursAt
<1>3. p = <<i, k>> /\ q = <<j, m>>
  BY PaperPlaces
<1> HIDE DEF i, k, j, m
<1>4. i = j /\ k = m
  BY <1>1, <1>2, TellsOnce
<1> QED BY <1>3, <1>4

\* What has to be said is there once, and whole.
LEMMA Sole ==
  ASSUME Paper(out), NEW W, Tells(out, W), NEW what, Shown(what), NEW size, <<what, size>> \in W
  PROVE  {Size(SpanAt(p)) : p \in {q \in Pieces : SpanAt(q).what = what}} = {size}
<1>1. PICK i \in 1 .. Len(out) : \E k \in 1 .. Len(out[i].spans) :
        Shown(out[i].spans[k].what) /\ Told(out[i].spans[k]) = <<what, size>>
  BY DEF Tells
<1>2. PICK k \in 1 .. Len(out[i].spans) : Told(out[i].spans[k]) = <<what, size>>
  BY <1>1
<1> DEFINE span == out[i].spans[k]
           p == <<i, k>>
<1>3. span.what = what /\ Size(span) = size
  BY <1>2 DEF Told
<1>4. p \in Places /\ SpanAt(p) = span
  BY PaperPlaces
<1> HIDE DEF span, p
<1>5. p \in Pieces
  BY <1>3, <1>4, PaperPlaces DEF Shown
<1>6. ASSUME NEW q \in Pieces, SpanAt(q).what = what PROVE Size(SpanAt(q)) = size
  <2>1. q \in Places
    BY PaperPlaces
  <2>2. SpanAt(p).what = what /\ SpanAt(q).what = what
    BY <1>3, <1>4, <1>6
  <2>3. p = q
    BY <1>4, <2>1, <2>2, OnePlace
  <2> QED BY <1>3, <1>4, <2>3
<1> DEFINE Q == {q \in Pieces : SpanAt(q).what = what}
<1>7. p \in Q /\ \A q \in Q : Size(SpanAt(q)) = size
  BY <1>3, <1>4, <1>5, <1>6
<1> HIDE DEF Q
<1>8. {Size(SpanAt(q)) : q \in Q} = {size}
  BY <1>7
<1> QED BY <1>8 DEF Q

\* A section on the page is there as it was laid out.
LEMMA SectionStands ==
  ASSUME Paper(out), NEW W, Tells(out, W), NEW section, OnPage(out, section)
  PROVE  LET block == Tail(section)
             title == block[1].spans[1]
             home == CHOOSE p \in Pieces : SpanAt(p).what = title.what
             by == SpanAt(home).from - title.from
         IN /\ \A i \in DOMAIN block : \A k \in DOMAIN block[i].spans :
                 [block[i].spans[k] EXCEPT !.from = @ + by, !.to = @ + by]
                   \in ToSet(out[home[1] + i - 1].spans)
            /\ \A p \in Pieces :
                 SpanAt(p).what.row = "title" /\ p[1] \in home[1] .. home[1] + Len(block) - 1
                   => p[1] = home[1]
<1> DEFINE block == Tail(section)
           title == block[1].spans[1]
           home == CHOOSE p \in Pieces : SpanAt(p).what = title.what
           by == SpanAt(home).from - title.from
<1>1. PICK S : block \in Seq(LinesOf(S))
  BY DEF OnPage
<1>2. 1 \in 1 .. Len(block) /\ IsTitled(block[1])
  BY DEF OnPage
<1>3. PICK at, far : Kept(out, block, at, far)
  BY DEF OnPage
<1> DEFINE first == block[1]
<1> HIDE DEF block
<1>4. Len(block) \in Nat /\ DOMAIN block = 1 .. Len(block) /\ first \in LinesOf(S)
  <2> DEFINE L == LinesOf(S)
  <2>1. block \in Seq(L)
    BY <1>1
  <2> HIDE DEF L
  <2> QED BY <1>2, <2>1 DEF L
<1>5. \A i \in 1 .. Len(block) : DOMAIN block[i].spans = 1 .. Len(block[i].spans)
  <2>1. SUFFICES ASSUME NEW i \in 1 .. Len(block)
                 PROVE  DOMAIN block[i].spans = 1 .. Len(block[i].spans)
    OBVIOUS
  <2> DEFINE line == block[i]
             L == LinesOf(S)
  <2>2. block \in Seq(L)
    BY <1>1
  <2> HIDE DEF L
  <2>3. line \in L
    BY <2>2
  <2> HIDE DEF line
  <2>4. line \in LinesOf(S)
    BY <2>3 DEF L
  <2>5. DOMAIN line.spans = 1 .. Len(line.spans)
    BY <2>4, SpansOfNeat
  <2> QED BY <2>5 DEF line
<1>6. /\ 1 \in 1 .. Len(first.spans) /\ IsName(title.what) /\ title.what.row = "title"
      /\ title.what.part # "connector"
  <2>1. title = first.spans[1]
    OBVIOUS
  <2>2. IsTitled(first)
    BY <1>2
  <2> HIDE DEF first, title
  <2>3. 1 \in 1 .. Len(first.spans)
    BY <2>2 DEF IsTitled
  <2> QED BY <2>1, <2>2, <2>3 DEF IsTitled
<1>7. title \in SpansOf(S)
  <2>1. title = first.spans[1]
    OBVIOUS
  <2> HIDE DEF first, title
  <2>2. first.spans[1] \in SpansOf(S)
    BY <1>4, <1>6, SpansOfNeat
  <2> QED BY <2>1, <2>2
<1>8. Shown(title.what)
  BY <1>6 DEF Shown
<1>9. at \in Nat /\ far \in Nat
  BY <1>3 DEF Kept
<1> DEFINE row == at + 1
<1>10. row \in 1 .. Len(out)
  BY <1>2, <1>3 DEF Kept
<1>11. PICK m \in 1 .. Len(out[row].spans) : out[row].spans[m] = MovedBy(title, far)
  <2>1. \A k \in 1 .. Len(block[1].spans) :
          \E m \in 1 .. Len(out[at + 1].spans) :
            out[at + 1].spans[m] = MovedBy(block[1].spans[k], far)
    BY <1>2, <1>3 DEF Kept
  <2> QED BY <1>6, <2>1
<1> HIDE DEF first, title
<1>12. /\ MovedBy(title, far).what = title.what
       /\ MovedBy(title, far).from = title.from + far /\ title.from \in Nat
  <2>1. MovedBy(title, far).what = title.what /\ MovedBy(title, far).from = title.from + far
    BY <1>7, <1>9, MovedIs
  <2> QED BY <1>7, <2>1 DEF SpansOf
<1> HIDE DEF row
<1> DEFINE p == <<row, m>>
<1>13. p \in Places /\ SpanAt(p) = out[row].spans[m] /\ p[1] = row
  BY <1>10, <1>11, PaperPlaces
<1> HIDE DEF p
<1>14. p \in Pieces /\ SpanAt(p).what = title.what
  BY <1>6, <1>11, <1>12, <1>13, PaperPlaces
<1>15. home \in Pieces /\ SpanAt(home).what = title.what
  BY <1>14
<1> HIDE DEF home
<1>16. home \in Places
  BY <1>15, PaperPlaces
<1> DEFINE what == title.what
<1>17. home = p
  <2>1. SpanAt(home).what = what /\ SpanAt(p).what = what /\ Shown(what)
    BY <1>8, <1>14, <1>15
  <2> HIDE DEF what
  <2> QED BY <1>13, <1>16, <2>1, OnePlace
<1>18. by = far /\ home[1] = at + 1
  <2>1. SpanAt(home).from = title.from + far /\ home[1] = row
    BY <1>11, <1>12, <1>13, <1>17
  <2> QED BY <1>9, <1>12, <2>1 DEF row
<1> HIDE DEF by
<1>19. ASSUME NEW i \in DOMAIN block, NEW k \in DOMAIN block[i].spans
       PROVE  [block[i].spans[k] EXCEPT !.from = @ + by, !.to = @ + by]
                \in ToSet(out[home[1] + i - 1].spans)
  <2> DEFINE n == at + i
             span == block[i].spans[k]
  <2>1. i \in 1 .. Len(block) /\ k \in 1 .. Len(block[i].spans)
    BY <1>4, <1>5
  <2>2. n \in 1 .. Len(out)
    BY <1>3, <2>1 DEF Kept
  <2>3. \E j \in 1 .. Len(out[n].spans) : out[n].spans[j] = MovedBy(span, far)
    BY <1>3, <2>1 DEF Kept
  <2>4. home[1] + i - 1 = n
    BY <1>4, <1>9, <1>18, <2>1
  <2> HIDE DEF n, span
  <2>5. DOMAIN out[n].spans = 1 .. Len(out[n].spans)
    BY <2>2, PaperLines
  <2>6. MovedBy(span, far) \in ToSet(out[n].spans)
    BY <2>3, <2>5 DEF ToSet
  <2>7. [span EXCEPT !.from = @ + by, !.to = @ + by] = MovedBy(span, far)
    BY <1>18 DEF MovedBy
  <2> QED BY <2>4, <2>6, <2>7 DEF span
<1>20. ASSUME NEW q \in Pieces, SpanAt(q).what.row = "title",
              q[1] \in home[1] .. home[1] + Len(block) - 1
       PROVE  q[1] = home[1]
  <2>1. q \in Places /\ IsName(SpanAt(q).what)
    BY PaperPlaces
  <2> DEFINE n == q[1]
             k == q[2]
             i == n - at
  <2>2. n \in 1 .. Len(out) /\ k \in 1 .. Len(out[n].spans) /\ SpanAt(q) = out[n].spans[k]
    BY <2>1, PaperPlaces
  <2>3. n \in Nat
    BY <2>2, PaperLines
  <2>4. n \in at + 1 .. at + 1 + Len(block) - 1
    BY <1>18, <1>20
  <2> HIDE DEF n, k
  <2>5. i \in 1 .. Len(block) /\ at + i = n
    BY <1>4, <1>9, <2>3, <2>4
  <2> HIDE DEF i
  <2>6. i = 1
    BY <1>3, <1>20, <2>1, <2>2, <2>5 DEF Kept
  <2> QED BY <1>18, <2>5, <2>6 DEF n
<1> QED BY <1>19, <1>20 DEF block, title, home, by

\* What is told is stated on the page.
LEMMA IsStated ==
  ASSUME Paper(out), NEW W, Tells(out, W), NEW block, NEW row, NEW part, part # "connector",
         NEW size, \A w \in Saying(Piece(block, row, part), size) : w \in W
  PROVE  Stated(block, row, part, size)
<1> SUFFICES ASSUME size > 0 PROVE Said(block, row, part) = {size}
  BY DEF Stated
<1> DEFINE what == Piece(block, row, part)
<1>1. Shown(what)
  BY DEF Shown, IsName, Piece
<1>2. <<what, size>> \in W
  BY <1>1 DEF Saying
<1> HIDE DEF what
<1>3. {Size(SpanAt(p)) : p \in {q \in Pieces : SpanAt(q).what = what}} = {size}
  BY <1>1, <1>2, Sole
<1> QED BY <1>3 DEF Said, what

\* What a row says is on the page: label, value, annotation and what follows.
RowStated(block, row) ==
  /\ Stated(block, row.label, "label", row.size)
  /\ Stated(block, row.label, "value", row.value)
  /\ Stated(block, row.label, "annotation", row.annotation)
  /\ Stated(block, row.label, "continuation", row.continuation)

\* A row that is told is stated.
LEMMA RowIsStated ==
  ASSUME Paper(out), NEW W, Tells(out, W), NEW block, NEW row,
         \A w \in RowSays(block, row) : w \in W
  PROVE  RowStated(block, row)
<1> DEFINE Says(part, size) == Saying(Piece(block, row.label, part), size)
<1>1. RowSays(block, row) = Says("label", row.size) \cup Says("value", row.value)
        \cup Says("annotation", row.annotation) \cup Says("continuation", row.continuation)
  BY DEF RowSays
<1> HIDE DEF Says
<1>2. /\ \A w \in Says("label", row.size) : w \in W
      /\ \A w \in Says("value", row.value) : w \in W
      /\ \A w \in Says("annotation", row.annotation) : w \in W
      /\ \A w \in Says("continuation", row.continuation) : w \in W
  BY <1>1
<1>3. ASSUME NEW part, part # "connector", NEW size, \A w \in Says(part, size) : w \in W
      PROVE  Stated(block, row.label, part, size)
  <2> DEFINE label == row.label
  <2>1. \A w \in Saying(Piece(block, label, part), size) : w \in W
    BY <1>3 DEF Says
  <2> HIDE DEF label
  <2>2. Stated(block, label, part, size)
    BY <1>3, <2>1, IsStated
  <2> QED BY <2>2 DEF label
<1>4. Stated(block, row.label, "label", row.size) /\ Stated(block, row.label, "value", row.value)
  BY <1>2, <1>3
<1>5. Stated(block, row.label, "annotation", row.annotation)
  BY <1>2, <1>3
<1>6. Stated(block, row.label, "continuation", row.continuation)
  BY <1>2, <1>3
<1> QED BY <1>4, <1>5, <1>6 DEF RowStated

\* Each row of a block is among what the block says.
LEMMA RowsSayIs ==
  ASSUME NEW block, NEW rows, NEW i \in 1 .. Len(rows)
  PROVE  \A w \in RowSays(block, rows[i]) : w \in RowsSay(block, rows)
BY DEF RowsSay

\* The rows of a block, one by one.
LEMMA RowsAre ==
  ASSUME NEW rows, RowsFine(rows)
  PROVE  /\ DOMAIN rows = 1 .. Len(rows) /\ Len(rows) \in Nat
         /\ \A i \in DOMAIN rows : i \in 1 .. Len(rows) /\ RowFine(rows[i])
<1>1. PICK S : rows \in Seq(S)
  BY DEF RowsFine
<1>2. DOMAIN rows = 1 .. Len(rows) /\ Len(rows) \in Nat
  BY <1>1
<1> QED BY <1>2 DEF RowsFine

\* The page says what the sections do.
LEMMA SectionsSaid ==
  ASSUME NEW a, NEW b, NEW d, NEW S, a \in Seq(S), b \in Seq(S), d \in Seq(S)
  PROVE  LET says == (a \o b) \o d IN
         /\ \A i \in 1 .. Len(a) : \A w \in a[i] : w \in SaidBy(says, Len(says))
         /\ \A i \in 1 .. Len(b) : \A w \in b[i] : w \in SaidBy(says, Len(says))
         /\ \A i \in 1 .. Len(d) : \A w \in d[i] : w \in SaidBy(says, Len(says))
<1> DEFINE ab == a \o b
           says == ab \o d
<1>1. /\ ab \in Seq(S) /\ \A i \in 1 .. Len(a) : i \in 1 .. Len(ab) /\ ab[i] = a[i]
      /\ \A i \in 1 .. Len(b) : Len(a) + i \in 1 .. Len(ab) /\ ab[Len(a) + i] = b[i]
  BY Joined
<1> HIDE DEF ab
<1>2. /\ \A i \in 1 .. Len(ab) : i \in 1 .. Len(says) /\ says[i] = ab[i]
      /\ \A i \in 1 .. Len(d) : Len(ab) + i \in 1 .. Len(says) /\ says[Len(ab) + i] = d[i]
  BY <1>1, Joined
<1> HIDE DEF says
<1>3. ASSUME NEW i \in 1 .. Len(a), NEW w \in a[i] PROVE w \in SaidBy(says, Len(says))
  <2>1. i \in 1 .. Len(says) /\ w \in says[i]
    BY <1>1, <1>2, <1>3
  <2> QED BY <2>1 DEF SaidBy
<1>4. ASSUME NEW i \in 1 .. Len(d), NEW w \in d[i] PROVE w \in SaidBy(says, Len(says))
  <2> DEFINE k == Len(ab) + i
  <2>1. k \in 1 .. Len(says) /\ w \in says[k]
    BY <1>2, <1>4
  <2> HIDE DEF k
  <2> QED BY <2>1 DEF SaidBy
<1>5. ASSUME NEW i \in 1 .. Len(b), NEW w \in b[i] PROVE w \in SaidBy(says, Len(says))
  <2> DEFINE k == Len(a) + i
  <2>1. k \in 1 .. Len(ab) /\ ab[k] = b[i]
    BY <1>1
  <2> HIDE DEF k
  <2>2. k \in 1 .. Len(says) /\ w \in says[k]
    BY <1>2, <1>5, <2>1
  <2> QED BY <2>2 DEF SaidBy
<1> QED BY <1>3, <1>4, <1>5 DEF says, ab

\* What the sections say is among what the page says.
LEMMA PageSaysSections ==
  /\ \A w \in DnsSays : w \in PageSays
  /\ Rungs # <<>> => \A w \in LadderSays : w \in PageSays
  /\ asked.public # <<>> => \A w \in PublicSays : w \in PageSays
<1> DEFINE x == DnsSays
           y == LadderSays
           z == PublicSays
           a == <<x>>
           b == IF asked.reachability.rungs = <<>> THEN <<>> ELSE <<y>>
           d == IF asked.public = <<>> THEN <<>> ELSE <<z>>
           S == {x, y, z}
           says == SectionSays
<1>1. says = (a \o b) \o d
  BY DEF SectionSays
<1> HIDE DEF x, y, z
<1>3. a \in Seq(S) /\ b \in Seq(S) /\ d \in Seq(S)
  <2>1. x \in S /\ y \in S /\ z \in S
    OBVIOUS
  <2> HIDE DEF S
  <2>2. <<x>> \in Seq(S) /\ <<y>> \in Seq(S) /\ <<z>> \in Seq(S) /\ <<>> \in Seq(S)
    BY <2>1
  <2> QED BY <2>2
<1>4. /\ Len(a) = 1 /\ a[1] = x
      /\ Rungs # <<>> => Len(b) = 1 /\ b[1] = y
      /\ asked.public # <<>> => Len(d) = 1 /\ d[1] = z
  BY DEF Rungs
<1> HIDE DEF a, b, d, S
<1> DEFINE all == (a \o b) \o d
<1>5. /\ \A i \in 1 .. Len(a) : \A w \in a[i] : w \in SaidBy(all, Len(all))
      /\ \A i \in 1 .. Len(b) : \A w \in b[i] : w \in SaidBy(all, Len(all))
      /\ \A i \in 1 .. Len(d) : \A w \in d[i] : w \in SaidBy(all, Len(all))
  BY <1>3, SectionsSaid
<1>6. says = all
  BY <1>1
<1> HIDE DEF all, says
<1>7. SaidBy(all, Len(all)) = SectionsSay
  BY <1>6 DEF SectionsSay, says
<1>8. /\ 1 \in 1 .. Len(a) /\ (Rungs # <<>> => 1 \in 1 .. Len(b))
      /\ asked.public # <<>> => 1 \in 1 .. Len(d)
  BY <1>4
<1>9. \A w \in x : w \in SectionsSay
  BY <1>4, <1>5, <1>7, <1>8
<1>10. Rungs # <<>> => \A w \in y : w \in SectionsSay
  BY <1>4, <1>5, <1>7, <1>8
<1>11. asked.public # <<>> => \A w \in z : w \in SectionsSay
  BY <1>4, <1>5, <1>7, <1>8
<1> QED BY <1>9, <1>10, <1>11 DEF PageSays, x, y, z

\* The rows of an interface are among what the page says.
LEMMA PageSaysInterfaces ==
  ASSUME InReport, NEW i \in 1 .. Len(asked.interfaces)
  PROVE  \A w \in InterfaceSays(asked.interfaces[i]) : w \in PageSays
<1>1. ASSUME NEW w \in InterfaceSays(asked.interfaces[i])
      PROVE  w \in FirstSay(Len(asked.interfaces))
  BY <1>1 DEF FirstSay
<1> QED BY <1>1 DEF PageSays

\* All rows of a block that is told are stated.
LEMMA RowsAreStated ==
  ASSUME Paper(out), NEW W, Tells(out, W), NEW block, NEW rows, RowsFine(rows),
         \A w \in RowsSay(block, rows) : w \in W
  PROVE  \A i \in DOMAIN rows : RowStated(block, rows[i])
<1> SUFFICES ASSUME NEW i \in DOMAIN rows PROVE RowStated(block, rows[i])
  OBVIOUS
<1> DEFINE row == rows[i]
<1>1. i \in 1 .. Len(rows)
  BY RowsAre
<1>2. \A w \in RowSays(block, row) : w \in W
  BY <1>1, RowsSayIs
<1> HIDE DEF row
<1>3. RowStated(block, row)
  BY <1>2, RowIsStated
<1> QED BY <1>3 DEF row

\* So is a title, with its age.
LEMMA TitleIsStated ==
  ASSUME Paper(out), NEW W, Tells(out, W), NEW block, NEW size, NEW age,
         \A w \in TitleSays(block, size, age) : w \in W
  PROVE  Stated(block, "title", "title", size) /\ Stated(block, "title", "age", age)
<1> DEFINE V == Saying(Piece(block, "title", "title"), size)
           U == Saying(Piece(block, "title", "age"), age)
           row == "title"
           title == "title"
           last == "age"
<1>1. (\A w \in V : w \in W) /\ (\A w \in U : w \in W)
  BY DEF TitleSays
<1>2. title # "connector" /\ last # "connector"
  OBVIOUS
<1>3. /\ \A w \in Saying(Piece(block, row, title), size) : w \in W
      /\ \A w \in Saying(Piece(block, row, last), age) : w \in W
  BY <1>1
<1> HIDE DEF V, U, row, title, last
<1>4. Stated(block, row, title, size)
  BY <1>2, <1>3, IsStated
<1>5. Stated(block, row, last, age)
  BY <1>2, <1>3, IsStated
<1> QED BY <1>4, <1>5 DEF row, title, last

\* And a stage: its name, its mark and, unless the terminal is narrow, its time.
LEMMA RungIsStated ==
  ASSUME Paper(out), NEW W, Tells(out, W), NEW i \in 1 .. Len(Rungs),
         \A w \in RungsSay : w \in W
  PROVE  /\ Stated("ladder", Rungs[i].name, "stage", Rungs[i].size)
         /\ Stated("ladder", Rungs[i].name, "mark", MarkFor(Rungs[i].outcome))
         /\ ~Narrow => Stated("ladder", Rungs[i].name, "timing", Rungs[i].ms)
<1> DEFINE name == Rungs[i].name
           mark == MarkFor(Rungs[i].outcome)
           size == Rungs[i].size
           ms == Rungs[i].ms
           block == "ladder"
           Says(part, length) == Saying(Piece(block, name, part), length)
<1>1. (\A w \in StageSays(i) : w \in W) /\ (~Narrow => \A w \in TimeSays(i) : w \in W)
  BY DEF RungsSay, StagesSay, TimesSay
<1>2. StageSays(i) = Says("stage", size) \cup Says("mark", mark) /\ TimeSays(i) = Says("timing", ms)
  BY DEF StageSays, TimeSays
<1>3. ASSUME NEW part, part # "connector", NEW length, \A w \in Says(part, length) : w \in W
      PROVE  Stated(block, name, part, length)
  <2>1. \A w \in Saying(Piece(block, name, part), length) : w \in W
    BY <1>3
  <2> HIDE DEF block, name, Says
  <2> QED BY <1>3, <2>1, IsStated
<1> HIDE DEF name, mark, size, ms, block, Says
<1>4. Stated(block, name, "stage", size)
  BY <1>1, <1>2, <1>3
<1>5. Stated(block, name, "mark", mark)
  BY <1>1, <1>2, <1>3
<1>6. ~Narrow => Stated(block, name, "timing", ms)
  BY <1>1, <1>2, <1>3
<1> QED BY <1>4, <1>5, <1>6 DEF name, mark, size, ms, block

\* The ladder is stated with its verdict and the page to sign in on.
LEMMA LadderIsStated ==
  ASSUME Paper(out), NEW W, Tells(out, W), \A w \in LadderSays : w \in W
  PROVE  LET reach == asked.reachability IN
         /\ Stated("ladder", "title", "title", 12)
         /\ Stated("ladder", "verdict", "label", Bracketed(reach.verdict))
         /\ Stated("ladder", "verdict", "value", reach.explanation)
         /\ Stated("ladder", "sign in", "value", reach.portal)
<1> DEFINE T == TitleSays("ladder", 12, 0)
           V == RowSays("ladder", VerdictRow)
           P == RowSays("ladder", PortalRow)
           portal == asked.reachability.portal
           block == "ladder"
<1>1. /\ \A w \in T : w \in W
      /\ \A w \in V : w \in W
      /\ portal # 0 => \A w \in P : w \in W
  BY DEF LadderSays
<1>2. Stated("ladder", "title", "title", 12)
  <2> DEFINE size == 12
             age == 0
  <2>1. \A w \in TitleSays(block, size, age) : w \in W
    BY <1>1
  <2> HIDE DEF size, age, block
  <2>2. Stated(block, "title", "title", size)
    BY <2>1, TitleIsStated
  <2> QED BY <2>2 DEF size, block
<1>3. RowStated("ladder", VerdictRow)
  <2> DEFINE row == VerdictRow
  <2>1. \A w \in RowSays(block, row) : w \in W
    BY <1>1
  <2> HIDE DEF row, block
  <2>2. RowStated(block, row)
    BY <2>1, RowIsStated
  <2> QED BY <2>2 DEF row, block
<1>4. portal # 0 => RowStated("ladder", PortalRow)
  <2> SUFFICES ASSUME portal # 0 PROVE RowStated("ladder", PortalRow)
    OBVIOUS
  <2> DEFINE row == PortalRow
  <2>1. \A w \in RowSays(block, row) : w \in W
    BY <1>1
  <2> HIDE DEF row, block, portal
  <2>2. RowStated(block, row)
    BY <2>1, RowIsStated
  <2> QED BY <2>2 DEF row, block
<1>5. /\ VerdictRow.label = "verdict" /\ VerdictRow.size = Bracketed(asked.reachability.verdict)
      /\ VerdictRow.value = asked.reachability.explanation
      /\ PortalRow.label = "sign in" /\ PortalRow.value = portal
  BY DEF VerdictRow, PortalRow, Row
<1>6. portal = 0 => Stated("ladder", "sign in", "value", portal)
  <2> HIDE DEF portal
  <2>1. portal = 0 => ~(portal > 0)
    OBVIOUS
  <2> QED BY <2>1 DEF Stated
<1>7. /\ Stated("ladder", "verdict", "label", Bracketed(asked.reachability.verdict))
      /\ Stated("ladder", "verdict", "value", asked.reachability.explanation)
  BY <1>3, <1>5 DEF RowStated
<1>8. Stated("ladder", "sign in", "value", portal)
  BY <1>4, <1>5, <1>6 DEF RowStated
<1> QED BY <1>2, <1>7, <1>8

\* The heading of an interface is stated.
LEMMA HeadIsStated ==
  ASSUME Paper(out), NEW W, Tells(out, W), NEW iface, \A w \in HeadSays(iface) : w \in W
  PROVE  /\ Stated(iface.name, "head", "display", iface.display)
         /\ Stated(iface.name, "head", "device", iface.device)
         /\ Stated(iface.name, "head", "status", Bracketed(iface.status))
<1> DEFINE block == iface.name
           row == "head"
           status == Bracketed(iface.status)
           Says(part, size) == Saying(Piece(block, row, part), size)
<1>1. /\ \A w \in Says("display", iface.display) : w \in W
      /\ \A w \in Says("device", iface.device) : w \in W
      /\ \A w \in Says("status", status) : w \in W
  BY DEF HeadSays
<1>2. ASSUME NEW part, part # "connector", NEW size, \A w \in Says(part, size) : w \in W
      PROVE  Stated(block, row, part, size)
  <2>1. \A w \in Saying(Piece(block, row, part), size) : w \in W
    BY <1>2
  <2> HIDE DEF block, row, Says
  <2> QED BY <1>2, <2>1, IsStated
<1> HIDE DEF block, row, status, Says
<1>3. Stated(block, row, "display", iface.display)
  BY <1>1, <1>2
<1>4. Stated(block, row, "device", iface.device)
  BY <1>1, <1>2
<1>5. Stated(block, row, "status", status)
  BY <1>1, <1>2
<1> QED BY <1>3, <1>4, <1>5 DEF block, row, status

\* The radio's signal and the rest are beside the name or below it.
LEMMA RadioIsSaid ==
  ASSUME InReport, NEW j \in DOMAIN asked.interfaces, asked.interfaces[j].wifi.ssid > 0,
         \A k \in DOMAIN CollectRows(asked.interfaces[j]) :
           RowStated(asked.interfaces[j].name, CollectRows(asked.interfaces[j])[k])
  PROVE  LET iface == asked.interfaces[j]
         IN \E beside \in Said(iface.name, "network", "annotation") \cup {0},
               below \in Said(iface.name, "network", "continuation") \cup {0} :
              iface.wifi.signal + iface.wifi.secondary <= beside + below
<1> DEFINE iface == asked.interfaces[j]
           block == iface.name
           wifi == iface.wifi
           rows == CollectRows(iface)
           row == NetworkRow(wifi)
<1>1. /\ wifi.ssid \in Nat /\ wifi.signal \in Nat /\ wifi.secondary \in Nat
  <2>1. IsInterface(iface)
    BY InterfaceIs DEF InReport
  <2> QED BY <2>1 DEF IsInterface
<1>2. /\ row.label = "network" /\ row.annotation \in Nat /\ row.continuation \in Nat
      /\ wifi.signal + wifi.secondary <= row.annotation + row.continuation
  <2> HIDE DEF wifi
  <2> QED BY <1>1, NetworkRowIs DEF InReport
<1>3. RowsFine(rows)
  BY CollectRowsFine DEF InReport
<1>4. Leads(row, rows)
  <2>1. wifi.ssid > 0
    OBVIOUS
  <2> QED BY <2>1, CollectRowsFine DEF InReport
<1>5. 1 \in DOMAIN rows /\ rows[1] = row
  <2>1. DOMAIN rows = 1 .. Len(rows)
    BY <1>3, RowsAre
  <2> QED BY <1>4, <2>1 DEF Leads
<1>6. \A k \in DOMAIN rows : RowStated(block, rows[k])
  OBVIOUS
<1> HIDE DEF block, rows, wifi, row
<1>8. RowStated(block, row)
  BY <1>5, <1>6
<1>9. /\ row.annotation > 0 => Said(block, "network", "annotation") = {row.annotation}
      /\ row.continuation > 0 => Said(block, "network", "continuation") = {row.continuation}
  BY <1>2, <1>8 DEF RowStated, Stated
<1> DEFINE A == Said(block, "network", "annotation") \cup {0}
           C == Said(block, "network", "continuation") \cup {0}
<1>10. row.annotation \in A /\ row.continuation \in C
  BY <1>2, <1>9
<1>11. \E beside \in A, below \in C : wifi.signal + wifi.secondary <= beside + below
  BY <1>2, <1>10
<1> QED BY <1>11 DEF block, wifi

\* A page that tells what a report says states all that its sections have to say.
LEMMA SectionsAreSaid ==
  ASSUME InReport, Paper(out), Tells(out, PageSays)
  PROVE  SectionsSayAll
<1> DEFINE W == PageSays
           reach == asked.reachability
<1>1. Tells(out, W)
  OBVIOUS
<1>2. ASSUME NEW block, NEW rows, RowsFine(rows), NEW size, NEW age,
             \A w \in TitleSays(block, size, age) \cup RowsSay(block, rows) : w \in W
      PROVE  /\ Stated(block, "title", "title", size) /\ Stated(block, "title", "age", age)
             /\ \A i \in DOMAIN rows : RowStated(block, rows[i])
  <2>1. \A w \in TitleSays(block, size, age) : w \in W
    BY <1>2
  <2>2. \A w \in RowsSay(block, rows) : w \in W
    BY <1>2
  <2> HIDE DEF W
  <2>3. Stated(block, "title", "title", size) /\ Stated(block, "title", "age", age)
    BY <1>1, <2>1, TitleIsStated
  <2>4. \A i \in DOMAIN rows : RowStated(block, rows[i])
    BY <1>1, <1>2, <2>2, RowsAreStated
  <2> QED BY <2>3, <2>4
<1>3. RowsFine(asked.dns) /\ RowsFine(asked.public)
  BY SectionRows DEF InReport
<1>4. /\ Stated("dns", "title", "title", 3)
      /\ \A i \in DOMAIN asked.dns : RowStated("dns", asked.dns[i])
  <2> DEFINE rows == asked.dns
             block == "dns"
             size == 3
             age == 0
  <2>1. \A w \in TitleSays(block, size, age) \cup RowsSay(block, rows) : w \in W
    BY PageSaysSections DEF DnsSays
  <2>2. RowsFine(rows)
    BY <1>3
  <2> HIDE DEF rows, block, size, age, W
  <2>3. /\ Stated(block, "title", "title", size)
        /\ \A i \in DOMAIN rows : RowStated(block, rows[i])
    BY <1>2, <2>1, <2>2
  <2> QED BY <2>3 DEF rows, block, size
<1>5. ASSUME asked.public # <<>>
      PROVE  /\ Stated("public", "title", "title", 14)
             /\ Stated("public", "title", "age", asked.age)
             /\ \A i \in DOMAIN asked.public : RowStated("public", asked.public[i])
  <2> DEFINE rows == asked.public
             block == "public"
             size == 14
             age == asked.age
  <2>1. \A w \in TitleSays(block, size, age) \cup RowsSay(block, rows) : w \in W
    BY <1>5, PageSaysSections DEF PublicSays
  <2>2. RowsFine(rows)
    BY <1>3
  <2> HIDE DEF rows, block, size, age, W
  <2>3. /\ Stated(block, "title", "title", size) /\ Stated(block, "title", "age", age)
        /\ \A i \in DOMAIN rows : RowStated(block, rows[i])
    BY <1>2, <2>1, <2>2
  <2> QED BY <2>3 DEF rows, block, size, age
<1>6. ASSUME reach.rungs # <<>>
      PROVE  /\ Stated("ladder", "title", "title", 12)
             /\ \A i \in DOMAIN reach.rungs :
                  LET rung == reach.rungs[i] IN
                    /\ Stated("ladder", rung.name, "stage", rung.size)
                    /\ Stated("ladder", rung.name, "mark", MarkFor(rung.outcome))
                    /\ ~Narrow => Stated("ladder", rung.name, "timing", rung.ms)
             /\ Stated("ladder", "verdict", "label", Bracketed(reach.verdict))
             /\ Stated("ladder", "verdict", "value", reach.explanation)
             /\ Stated("ladder", "sign in", "value", reach.portal)
  <2>1. \A w \in LadderSays : w \in W
    BY <1>6, PageSaysSections DEF Rungs
  <2>2. \A w \in RungsSay : w \in W
    BY <2>1 DEF LadderSays
  <2>3. DOMAIN Rungs = 1 .. Len(Rungs)
    BY RungsAre DEF InReport
  <2> HIDE DEF W
  <2>4. /\ Stated("ladder", "title", "title", 12)
        /\ Stated("ladder", "verdict", "label", Bracketed(reach.verdict))
        /\ Stated("ladder", "verdict", "value", reach.explanation)
        /\ Stated("ladder", "sign in", "value", reach.portal)
    BY <1>1, <2>1, LadderIsStated
  <2>5. \A i \in 1 .. Len(Rungs) :
          /\ Stated("ladder", Rungs[i].name, "stage", Rungs[i].size)
          /\ Stated("ladder", Rungs[i].name, "mark", MarkFor(Rungs[i].outcome))
          /\ ~Narrow => Stated("ladder", Rungs[i].name, "timing", Rungs[i].ms)
    BY <1>1, <2>2, RungIsStated
  <2> QED BY <2>3, <2>4, <2>5 DEF Rungs
<1> QED BY <1>4, <1>5, <1>6 DEF SectionsSayAll, RowStated

\* And all that its interfaces have to say.
LEMMA InterfacesAreSaid ==
  ASSUME InReport, Paper(out), Tells(out, PageSays)
  PROVE  InterfacesSayAll
<1> DEFINE W == PageSays
<1>1. SUFFICES ASSUME NEW i \in DOMAIN asked.interfaces
      PROVE LET iface == asked.interfaces[i] IN
        /\ Stated(iface.name, "head", "display", iface.display)
        /\ Stated(iface.name, "head", "device", iface.device)
        /\ Stated(iface.name, "head", "status", Bracketed(iface.status))
        /\ iface.active =>
             /\ \A k \in DOMAIN CollectRows(iface) : RowStated(iface.name, CollectRows(iface)[k])
             /\ iface.wifi.ssid > 0 =>
                  \E beside \in Said(iface.name, "network", "annotation") \cup {0},
                     below \in Said(iface.name, "network", "continuation") \cup {0} :
                    iface.wifi.signal + iface.wifi.secondary <= beside + below
  BY DEF InterfacesSayAll, RowStated
<1> DEFINE iface == asked.interfaces[i]
           block == iface.name
           rows == CollectRows(iface)
<1>2. Tells(out, W)
  OBVIOUS
<1>3. \A w \in InterfaceSays(iface) : w \in W
  <2>1. i \in 1 .. Len(asked.interfaces)
    BY InterfacesAre DEF InReport
  <2> QED BY <2>1, PageSaysInterfaces
<1>4. /\ Stated(block, "head", "display", iface.display)
      /\ Stated(block, "head", "device", iface.device)
      /\ Stated(block, "head", "status", Bracketed(iface.status))
  <2>1. \A w \in HeadSays(iface) : w \in W
    BY <1>3 DEF InterfaceSays
  <2> HIDE DEF W, iface
  <2> QED BY <1>2, <2>1, HeadIsStated
<1>5. ASSUME iface.active PROVE \A k \in DOMAIN rows : RowStated(block, rows[k])
  <2>1. \A w \in RowsSay(block, rows) : w \in W
    BY <1>3, <1>5 DEF InterfaceSays
  <2>2. RowsFine(rows)
    BY CollectRowsFine DEF InReport
  <2> HIDE DEF W, rows, block
  <2> QED BY <1>2, <2>1, <2>2, RowsAreStated
<1>6. ASSUME iface.active, iface.wifi.ssid > 0
      PROVE  \E beside \in Said(block, "network", "annotation") \cup {0},
                below \in Said(block, "network", "continuation") \cup {0} :
               iface.wifi.signal + iface.wifi.secondary <= beside + below
  BY <1>5, <1>6, RadioIsSaid
<1> QED BY <1>4, <1>5, <1>6

\* A finished report that tells what it should has lost nothing; at no time is
\* anything there twice.
LEMMA NothingLost ==
  ASSUME InReport, Paper(out), NEW W, Tells(out, W), progress = "done" => Tells(out, PageSays)
  PROVE  NothingIsLost
<1>1. ASSUME progress = "done" PROVE SectionsSayAll /\ InterfacesSayAll
  BY <1>1, SectionsAreSaid, InterfacesAreSaid
<1>2. ASSUME NEW p \in Pieces, NEW q \in Pieces, SpanAt(p).what = SpanAt(q).what
      PROVE  p = q \/ Part(SpanAt(p)) = "connector"
  <2> SUFFICES ASSUME Part(SpanAt(p)) # "connector" PROVE p = q
    OBVIOUS
  <2> DEFINE what == SpanAt(p).what
  <2>1. p \in Places /\ q \in Places /\ IsName(what)
    BY PaperPlaces
  <2>2. Shown(what) /\ SpanAt(p).what = what /\ SpanAt(q).what = what
    BY <1>2, <2>1 DEF Shown, Part
  <2> HIDE DEF what
  <2> QED BY <2>1, <2>2, OnePlace
<1> QED BY <1>1, <1>2 DEF NothingIsLost

\* What the invariant says of a report is what a reader sees.
LEMMA ReportFollows ==
  ASSUME ReportInv, asked.kind = "report"
  PROVE  EverythingIsReadable /\ PageKeepsShape
<1>1. InReport /\ progress \in {"header", "interfaces", "footer", "done"}
  BY DEF ReportInv
<1>2. PICK W : Sectioned(out, W)
  <2>1. CASE progress = "header"
    <3>1. out = <<>>
      BY <2>1 DEF ReportInv
    <3> QED BY <3>1, NothingSectioned
  <2>2. CASE progress # "header"
    BY <1>1, <2>2 DEF ReportInv
  <2> QED BY <2>1, <2>2
<1>3. Paper(out) /\ Timed(out) /\ Closed(out) /\ Tells(out, W)
  BY <1>2 DEF Sectioned
<1>4. progress = "done" => Begun(out) /\ Tells(out, PageSays)
  BY DEF ReportInv, Sectioned
<1>5. PageTypeOK /\ PiecesApart /\ WithinEdge
  BY <1>1, <1>3, ReportIsReadable
<1>6. NothingIsLost
  BY <1>1, <1>3, <1>4, NothingLost
<1>7. TimingsUnderStages
  BY <1>3, TimesUnderStages
<1>8. OneBlankLine
  <2> DEFINE S == LinesOf(Names)
  <2>1. out \in Seq(S)
    BY <1>3 DEF Paper
  <2> HIDE DEF S
  <2> QED BY <1>3, <1>4, <2>1, OneBlankIs
<1>9. SectionsKeepShape
  <2>1. SUFFICES ASSUME progress = "footer", ~Narrow, NEW b \in DOMAIN sections
                 PROVE  LET block == Tail(sections[b])
                            title == block[1].spans[1]
                            home == CHOOSE p \in Pieces : SpanAt(p).what = title.what
                            by == SpanAt(home).from - title.from
                        IN /\ \A i \in DOMAIN block : \A k \in DOMAIN block[i].spans :
                                [block[i].spans[k] EXCEPT !.from = @ + by, !.to = @ + by]
                                  \in ToSet(out[home[1] + i - 1].spans)
                           /\ \A p \in Pieces :
                                SpanAt(p).what.row = "title"
                                /\ p[1] \in home[1] .. home[1] + Len(block) - 1
                                  => p[1] = home[1]
    BY DEF SectionsKeepShape
  <2> DEFINE section == sections[b]
  <2>2. OnPage(out, section)
    BY <2>1 DEF ReportInv
  <2> HIDE DEF section
  <2>3. LET block == Tail(section)
            title == block[1].spans[1]
            home == CHOOSE p \in Pieces : SpanAt(p).what = title.what
            by == SpanAt(home).from - title.from
        IN /\ \A i \in DOMAIN block : \A k \in DOMAIN block[i].spans :
                [block[i].spans[k] EXCEPT !.from = @ + by, !.to = @ + by]
                  \in ToSet(out[home[1] + i - 1].spans)
           /\ \A p \in Pieces :
                SpanAt(p).what.row = "title" /\ p[1] \in home[1] .. home[1] + Len(block) - 1
                  => p[1] = home[1]
    BY <1>3, <2>2, SectionStands
  <2> QED BY <2>3 DEF section
<1> QED BY <1>5, <1>6, <1>7, <1>8, <1>9 DEF EverythingIsReadable, PageKeepsShape

-----------------------------------------------------------------------------
(***************************************************************************)
(* The tables, line by line.                                               *)
(***************************************************************************)

-----------------------------------------------------------------------------
(* The lines of a table that are not blank.                                *)

\* A line, and a line that something is written on.
Spread(line) == "spans" \in DOMAIN line /\ \E S : line.spans \in Seq(S)
Inked(line) == Spread(line) /\ ~IsBlank(line)

\* Ink does not go away, and whatever has a width leaves some.
LEMMA InkStays ==
  ASSUME NEW line, Spread(line), NEW what, NEW size, NEW column
  PROVE  /\ Spread(PadTo(line, column)) /\ Spread(Space(line, size))
         /\ Spread(Push(line, what, size))
         /\ size # 0 => Inked(Push(line, what, size))
         /\ Inked(line) => /\ Inked(PadTo(line, column)) /\ Inked(Space(line, size))
                           /\ Inked(Push(line, what, size))
<1> DEFINE padded == PadTo(line, column)
           spaced == Space(line, size)
           pushed == Push(line, what, size)
           span == [what |-> what, from |-> line.width + 1, to |-> line.width + size]
<1>1. "spans" \in DOMAIN padded /\ padded.spans = line.spans
  BY DEF Spread, PadTo
<1>2. "spans" \in DOMAIN spaced /\ spaced.spans = line.spans
  BY DEF Spread, Space
<1>3. PICK S : line.spans \in Seq(S)
  BY DEF Spread
<1> HIDE DEF padded, spaced
<1>4. Spread(padded) /\ (Inked(line) => Inked(padded))
  BY <1>1, <1>3 DEF Spread, Inked, IsBlank
<1>5. Spread(spaced) /\ (Inked(line) => Inked(spaced))
  BY <1>2, <1>3 DEF Spread, Inked, IsBlank
<1>6. CASE size = 0
  <2>1. pushed = line
    BY <1>6 DEF Push
  <2> QED BY <1>4, <1>5, <1>6, <2>1 DEF padded, spaced
<1>7. CASE size # 0
  <2> DEFINE spans == Append(line.spans, span)
             T == S \cup {span}
  <2>1. pushed = [spans |-> spans, width |-> line.width + size]
    BY <1>7 DEF Push
  <2> HIDE DEF span
  <2>2. line.spans \in Seq(T) /\ span \in T
    BY <1>3, SeqMonotonic
  <2> HIDE DEF T
  <2>3. spans \in Seq(T) /\ spans # <<>>
    BY <2>2, AppendProperties
  <2> HIDE DEF spans
  <2>4. "spans" \in DOMAIN pushed /\ pushed.spans = spans
    BY <2>1
  <2> HIDE DEF pushed
  <2>5. Inked(pushed)
    BY <2>3, <2>4 DEF Inked, Spread, IsBlank
  <2> QED BY <1>4, <1>5, <2>5 DEF padded, spaced, pushed, Inked
<1> QED BY <1>6, <1>7

\* An empty line is in order.
LEMMA NothingSpread == Spread(NewLine)
<1>1. "spans" \in DOMAIN NewLine /\ NewLine.spans = <<>>
  BY DEF NewLine
<1>2. <<>> \in Seq({})
  OBVIOUS
<1> QED BY <1>1, <1>2 DEF Spread

\* A mark on a line of its own.
LEMMA MarkInked ==
  ASSUME NEW what, NEW size, size # 0, NEW column
  PROVE  Inked(Push(PadTo(NewLine, column), what, size))
<1> DEFINE margin == PadTo(NewLine, column)
<1>1. Spread(margin)
  BY NothingSpread, InkStays
<1> HIDE DEF margin
<1>2. Inked(Push(margin, what, size))
  BY <1>1, InkStays
<1> QED BY <1>2 DEF margin

\* A line with a cell on it is not blank.
LEMMA CellInked ==
  ASSUME NEW line, Spread(line), NEW column, NEW id, NEW part, NEW size, Inked(line) \/ size # 0
  PROVE  Inked(Cell(line, column, id, part, size))
<1> DEFINE margin == PadTo(line, column)
           what == [block |-> asked.kind, row |-> id, part |-> part]
           cell == Push(margin, what, size)
<1>1. Spread(margin) /\ (Inked(line) => Inked(margin))
  BY InkStays
<1> HIDE DEF margin, what
<1>2. Inked(cell)
  BY <1>1, InkStays
<1> HIDE DEF cell
<1> QED BY <1>2 DEF Cell, cell, margin, what

\* Nor is a heading.
LEMMA HeadingInked ==
  ASSUME NEW size, size # 0
  PROVE  Inked(Heading(size))
<1> DEFINE heading == Push(PadTo(NewLine, RAIL_COL), [part |-> "heading"], size)
           named == Space(heading, 1)
           rest == Less(Edge, MARGIN + (named.width - MARGIN))
           line == Push(named, [part |-> "rule"], rest)
<1>1. Inked(heading)
  BY MarkInked
<1> HIDE DEF heading
<1>2. Inked(named)
  BY <1>1, InkStays DEF Inked
<1> HIDE DEF named, rest
<1>3. Inked(line)
  BY <1>2, InkStays DEF Inked
<1> QED BY <1>3 DEF Heading, heading, named, rest, line

\* Nor is a rule.
LEMMA RuleInked ==
  ASSUME terminal \in Terminals
  PROVE  Inked(Rule(Edge))
<1> DEFINE size == Less(Edge, MARGIN)
<1>1. Edge \in 62 .. 96
  BY EdgeIs, PagesAssumption
<1>2. size # 0
  BY <1>1, LessIs DEF MARGIN
<1> HIDE DEF size
<1>3. Inked(Push(PadTo(NewLine, RAIL_COL), [part |-> "rule"], size))
  BY <1>2, MarkInked
<1> QED BY <1>3 DEF Rule, size

\* Nor is a row of the routing table, which has a destination.
LEMMA RouteCellsInked ==
  ASSUME NEW id, NEW destination, destination # 0, NEW gateway, NEW interface, NEW flags
  PROVE  Inked(RouteCells(id, destination, gateway, interface, flags))
<1> DEFINE w == RouteWidths
           a == ROW_COL + w.destination
           b == ROW_COL + w.destination + w.gateway
           c == ROW_COL + w.destination + w.gateway + w.interface
           first == Cell(NewLine, ROW_COL, id, "destination", destination)
           second == Cell(first, a, id, "gateway", gateway)
           third == Cell(second, b, id, "interface", interface)
           fourth == Cell(third, c, id, "flags", flags)
<1>1. RouteCells(id, destination, gateway, interface, flags) = fourth
  BY DEF RouteCells
<1> HIDE DEF w, a, b, c
<1>2. Inked(first)
  BY NothingSpread, CellInked
<1> HIDE DEF first
<1>3. Inked(second)
  BY <1>2, CellInked DEF Inked
<1> HIDE DEF second
<1>4. Inked(third)
  BY <1>3, CellInked DEF Inked
<1> HIDE DEF third
<1>5. Inked(fourth)
  BY <1>4, CellInked DEF Inked
<1> HIDE DEF fourth
<1> QED BY <1>1, <1>5

\* Nor is the row of any route.
LEMMA RouteRowInked ==
  ASSUME asked \in Tables, asked.kind = "routes", NEW path \in AllRows
  PROVE  Inked(RouteRow(path))
<1> DEFINE gateway == Truncate(path.gateway, Less(RouteWidths.gateway, GAP))
           cells == RouteCells(path.id, path.destination, gateway, path.interface, path.flags)
           spaced == Space(cells, 1)
           row == Push(spaced, Piece("routes", path.id, "expires"), path.expires)
<1>1. path.destination \in Nat /\ path.destination > 0
  BY PagesAssumption DEF AllRows
<1>2. path.destination # 0
  BY <1>1
<1>3. RouteRow(path) = IF path.expires = 0 THEN cells ELSE row
  BY DEF RouteRow
<1> HIDE DEF gateway
<1>4. Inked(cells)
  BY <1>2, RouteCellsInked
<1> HIDE DEF cells
<1>5. Inked(spaced)
  BY <1>4, InkStays DEF Inked
<1> HIDE DEF spaced
<1>6. Inked(row)
  BY <1>5, InkStays DEF Inked
<1> HIDE DEF row
<1> QED BY <1>3, <1>4, <1>6

\* Nor is a row of the list of sockets, which has a protocol.
LEMMA SocketCellsInked ==
  ASSUME NEW id, NEW proto, NEW address, NEW mark, NEW owner, NEW detail, NEW pid
  PROVE  Inked(SocketCells(id, proto, address, mark, owner, detail, pid))
<1> DEFINE w == SocketWidths
           a == ROW_COL + PROTO_WIDTH
           b == ROW_COL + PROTO_WIDTH + w.address
           c == ROW_COL + PROTO_WIDTH + w.address + w.owner
           one == 1
           what == Piece("listen", id, "pid")
           rail == Push(PadTo(NewLine, RAIL_COL), [part |-> "rail"], one)
           first == Cell(rail, ROW_COL, id, "proto", proto)
           second == Cell(first, a, id, "address", address)
           padded == PadTo(second, b)
           spaced == Space(padded, mark)
           third == Cell(spaced, 0, id, "owner", owner)
           told == Cell(third, c, id, "detail", detail)
           fourth == IF detail = 0 THEN third ELSE told
           column == Less(PidEnd, pid) + 1
           shifted == PadTo(fourth, column)
           row == Push(shifted, what, pid)
<1>1. SocketCells(id, proto, address, mark, owner, detail, pid) = row
  BY DEF SocketCells, PushRight
<1>2. one # 0
  OBVIOUS
<1> HIDE DEF w, a, b, c, one, what, column
<1>3. Inked(rail)
  BY <1>2, MarkInked
<1> HIDE DEF rail
<1>4. Inked(first)
  BY <1>3, CellInked DEF Inked
<1> HIDE DEF first
<1>5. Inked(second)
  BY <1>4, CellInked DEF Inked
<1> HIDE DEF second
<1>6. Inked(padded)
  BY <1>5, InkStays DEF Inked
<1> HIDE DEF padded
<1>7. Inked(spaced)
  BY <1>6, InkStays DEF Inked
<1> HIDE DEF spaced
<1>8. Inked(third)
  BY <1>7, CellInked DEF Inked
<1> HIDE DEF third
<1>9. Inked(told)
  BY <1>8, CellInked DEF Inked
<1> HIDE DEF told
<1>10. Inked(fourth)
  BY <1>8, <1>9
<1> HIDE DEF fourth
<1>11. Inked(shifted)
  BY <1>10, InkStays DEF Inked
<1> HIDE DEF shifted
<1>12. Inked(row)
  BY <1>11, InkStays DEF Inked
<1> HIDE DEF row
<1> QED BY <1>1, <1>12

\* The line above a group of sockets.
GroupTitle ==
  LET title == Space(Push(PadTo(NewLine, RAIL_COL), [part |-> "rail"], 1), 2)
  IN  PushRight(Push(title, [part |-> "group"], 22), [part |-> "count"], 9, Edge)

\* It is not blank.
LEMMA GroupTitleInked == Inked(GroupTitle)
<1> DEFINE one == 1
           two == 2
           rail == Push(PadTo(NewLine, RAIL_COL), [part |-> "rail"], one)
           title == Space(rail, two)
           group == [part |-> "group"]
           long == 22
           named == Push(title, group, long)
           count == [part |-> "count"]
           short == 9
           column == Less(Edge, short) + 1
           padded == PadTo(named, column)
           line == Push(padded, count, short)
<1>1. GroupTitle = line
  BY DEF GroupTitle, PushRight
<1>2. one # 0
  OBVIOUS
<1> HIDE DEF one, two, group, long, count, short, column
<1>3. Inked(rail)
  BY <1>2, MarkInked
<1> HIDE DEF rail
<1>4. Inked(title)
  BY <1>3, InkStays DEF Inked
<1> HIDE DEF title
<1>5. Inked(named)
  BY <1>4, InkStays DEF Inked
<1> HIDE DEF named
<1>6. Inked(padded)
  BY <1>5, InkStays DEF Inked
<1> HIDE DEF padded
<1>7. Inked(line)
  BY <1>6, InkStays DEF Inked
<1> HIDE DEF line
<1> QED BY <1>1, <1>7

-----------------------------------------------------------------------------
(* A table keeps its blank lines.                                          *)

\* The rows of the groups that are still to be shown.
RowsLeft(groups) == UNION {ToSet(group) : group \in ToSet(groups)}

\* A table has a last line that is not blank, and when it has no line yet every
\* row is still to be shown.
TableInv ==
  asked.kind # "report" =>
    /\ Closed(out) /\ (out # <<>> => Begun(out))
    /\ progress = "heading" => out = <<>> /\ queue = asked.groups
    /\ progress = "groups" /\ out = <<>> => asked.kind = "routes" /\ RowsLeft(queue) = AllRows
    /\ progress = "done" => out # <<>>

\* Lines that end with a blank one are closed by the next that does not.
LEMMA ClosedByNext ==
  ASSUME NEW S, NEW a \in Seq(S), NEW b \in Seq(S), Parted(a), Closed(b), Begun(b)
  PROVE  Closed(a \o b)
<1> DEFINE c == a \o b
           n == Len(a)
<1>1. /\ Len(c) = n + Len(b) /\ n \in Nat /\ Len(b) \in Nat
      /\ \A i \in 1 .. Len(b) : c[n + i] = b[i]
  BY Joined
<1>2. 1 \in 1 .. Len(b) /\ ~IsBlank(b[1])
  BY DEF Begun
<1>3. b # <<>> /\ Len(b) \in 1 .. Len(b)
  BY <1>1, <1>2
<1>4. Parted(b) /\ ~IsBlank(b[Len(b)])
  BY <1>3 DEF Closed
<1>5. Parted(c)
  BY <1>2, <1>4, PartedJoined
<1>6. c[Len(c)] = b[Len(b)]
  BY <1>1, <1>3
<1> HIDE DEF c
<1>7. Closed(c)
  BY <1>4, <1>5, <1>6 DEF Closed
<1> QED BY <1>7 DEF c

\* Neither a blank line nor none at all is two blank ones.
LEMMA BlankIsParted == Parted(<<NewLine>>) /\ Parted(<<>>)
BY DEF Parted

\* What is between the blocks of a table.
LEMMA OneClosed ==
  ASSUME NEW x, Inked(x)
  PROVE  Closed(<<x>>) /\ Begun(<<x>>)
<1>1. ~IsBlank(x)
  BY DEF Inked
<1>2. Len(<<x>>) = 1 /\ <<x>>[1] = x
  OBVIOUS
<1> QED BY <1>1, <1>2 DEF Closed, Parted, Begun

\* Three lines with at most one blank among the first two.
LEMMA ThreeClosed ==
  ASSUME NEW x, NEW y, NEW z, ~IsBlank(x) \/ ~IsBlank(y), ~IsBlank(z)
  PROVE  Closed(<<x, y, z>>)
<1> DEFINE lines == <<x, y, z>>
<1>1. Len(lines) = 3 /\ lines[1] = x /\ lines[2] = y /\ lines[3] = z /\ lines # <<>>
  OBVIOUS
<1> HIDE DEF lines
<1>2. ASSUME NEW i \in 2 .. Len(lines) PROVE ~(IsBlank(lines[i]) /\ IsBlank(lines[i - 1]))
  <2>1. (i = 2 /\ i - 1 = 1) \/ (i = 3 /\ i - 1 = 2)
    BY <1>1
  <2> QED BY <1>1, <2>1
<1>3. Closed(lines)
  BY <1>1, <1>2 DEF Closed, Parted
<1> QED BY <1>3 DEF lines

\* Four lines with no two blank ones together.
LEMMA FourClosed ==
  ASSUME NEW x, NEW y, NEW w, NEW z, ~IsBlank(y), ~IsBlank(z)
  PROVE  Closed(<<x, y, w, z>>)
<1> DEFINE lines == <<x, y, w, z>>
<1>1. /\ Len(lines) = 4 /\ lines[1] = x /\ lines[2] = y /\ lines[3] = w /\ lines[4] = z
      /\ lines # <<>>
  OBVIOUS
<1> HIDE DEF lines
<1>2. ASSUME NEW i \in 2 .. Len(lines) PROVE ~(IsBlank(lines[i]) /\ IsBlank(lines[i - 1]))
  <2>1. (i = 2 /\ i - 1 = 1) \/ (i = 3 /\ i - 1 = 2) \/ (i = 4 /\ i - 1 = 3)
    BY <1>1
  <2> QED BY <1>1, <2>1
<1>3. Closed(lines)
  BY <1>1, <1>2 DEF Closed, Parted
<1> QED BY <1>3 DEF lines

\* A group of routes is closed, and the first opens the page.
LEMMA RouteGroupClosed ==
  ASSUME asked \in Tables, asked.kind = "routes", terminal \in Terminals, glyphs \in Glyphs,
         NEW rows \in Seq(AllRows)
  PROVE  Closed(RouteGroup(rows)) /\ (out = <<>> => Begun(RouteGroup(rows)))
<1> DEFINE lines == [i \in DOMAIN rows |-> RouteRow(rows[i])]
           head == RouteCells("header", 11, 7, 5, 5)
           title == Heading(4)
           mid == <<title, NewLine, head>>
           lead == IF out = <<>> THEN <<>> ELSE <<NewLine>>
           top == lead \o mid
<1>1. RouteGroup(rows) = top \o lines
  BY DEF RouteGroup
<1>2. InRoutes
  BY DEF InRoutes, InTable
<1>3. head \in GridLines /\ title \in GridLines /\ NewLine \in GridLines
  <2>1. head \in GridLines
    BY <1>2, RouteHeaderWritten
  <2> DEFINE four == 4
  <2>2. four \in Nat
    OBVIOUS
  <2> HIDE DEF four
  <2>3. Heading(four) \in GridLines
    BY <2>2, HeadingWritten
  <2>4. title = Heading(four)
    BY DEF four
  <2> HIDE DEF title, head
  <2> QED BY <2>1, <2>3, <2>4, NotesWritten
<1>4. Inked(head) /\ Inked(title)
  <2> DEFINE eleven == 11
             four == 4
  <2>1. eleven # 0 /\ four # 0
    OBVIOUS
  <2>2. head = RouteCells("header", eleven, 7, 5, 5) /\ title = Heading(four)
    OBVIOUS
  <2> HIDE DEF eleven, four, head, title
  <2>3. Inked(RouteCells("header", eleven, 7, 5, 5)) /\ Inked(Heading(four))
    BY <2>1, RouteCellsInked, HeadingInked
  <2> QED BY <2>2, <2>3
<1>5. \A path \in AllRows : Inked(RouteRow(path)) /\ RouteRow(path) \in GridLines
  BY <1>2, RouteRowInked, RouteRowWritten
<1>6. lines \in Seq(GridLines) /\ Full(lines)
  <2>1. DOMAIN rows = 1 .. Len(rows) /\ Len(rows) \in Nat
    BY LenProperties
  <2>2. \A i \in 1 .. Len(rows) : rows[i] \in AllRows
    BY ElementOfSeq
  <2>3. lines \in [1 .. Len(rows) -> GridLines] /\ \A i \in 1 .. Len(rows) : Inked(lines[i])
    BY <1>5, <2>1, <2>2
  <2> HIDE DEF lines
  <2>4. lines \in Seq(GridLines) /\ Len(lines) = Len(rows)
    BY <2>1, <2>3, LenProperties
  <2> QED BY <2>3, <2>4 DEF Full, Inked
<1> HIDE DEF lines, head, title
<1>7. Closed(lines)
  BY <1>6, FullIsClosed
<1>8. mid \in Seq(GridLines) /\ Closed(mid) /\ Begun(mid)
  <2>1. mid \in Seq(GridLines)
    BY <1>3
  <2>2. Closed(mid)
    BY <1>4, ThreeClosed DEF Inked
  <2>3. Len(mid) = 3 /\ mid[1] = title
    OBVIOUS
  <2> QED BY <1>4, <2>1, <2>2, <2>3 DEF Begun, Inked
<1> HIDE DEF mid
<1>9. lead \in Seq(GridLines) /\ Parted(lead)
  <2>1. <<NewLine>> \in Seq(GridLines) /\ <<>> \in Seq(GridLines)
    BY <1>3
  <2> QED BY <2>1, BlankIsParted
<1> HIDE DEF lead
<1>10. Closed(top) /\ top \in Seq(GridLines)
  <2>1. top \in Seq(GridLines)
    BY <1>8, <1>9, ConcatProperties
  <2> QED BY <1>8, <1>9, <2>1, ClosedByNext
<1>11. ASSUME out = <<>> PROVE Begun(top)
  <2>1. lead = <<>>
    BY <1>11 DEF lead
  <2>2. top = mid
    BY <1>8, <2>1, ConcatEmptySeq
  <2> QED BY <1>8, <2>2
<1> HIDE DEF top
<1>12. Closed(top \o lines) /\ (Begun(top) => Begun(top \o lines))
  BY <1>6, <1>7, <1>10, ClosedJoined, BegunJoined
<1> QED BY <1>1, <1>11, <1>12

\* A group of sockets is closed.
LEMMA SocketGroupClosed ==
  ASSUME asked \in Tables, asked.kind = "listen", terminal \in Terminals, glyphs \in Glyphs,
         NEW rows \in Seq(AllRows)
  PROVE  Closed(SocketGroup(rows))
<1> DEFINE lines == [i \in DOMAIN rows |-> SocketRow(rows[i])]
           head == SocketCells("header", 5, 7, 0, 5, 0, 3)
           mid == <<NewLine, GroupTitle, NewLine, head>>
<1>1. SocketGroup(rows) = mid \o lines
  BY DEF SocketGroup, GroupTitle
<1>2. InSockets
  BY DEF InSockets, InTable
<1>3. head \in GridLines /\ GroupTitle \in GridLines /\ NewLine \in GridLines
  <2>1. head \in GridLines
    BY <1>2, SocketHeaderWritten
  <2>2. GroupTitle \in GridLines
    BY GroupTitleWritten DEF GroupTitle
  <2> HIDE DEF head
  <2> QED BY <2>1, <2>2, NotesWritten
<1>4. Inked(head) /\ Inked(GroupTitle)
  BY SocketCellsInked, GroupTitleInked
<1>5. \A socket \in AllRows : Inked(SocketRow(socket)) /\ SocketRow(socket) \in GridLines
  <2>1. ASSUME NEW socket \in AllRows PROVE Inked(SocketRow(socket))
    BY SocketCellsInked DEF SocketRow
  <2>2. \A socket \in AllRows : SocketRow(socket) \in GridLines
    BY <1>2, SocketRowWritten
  <2> QED BY <2>1, <2>2
<1>6. lines \in Seq(GridLines) /\ Full(lines)
  <2>1. DOMAIN rows = 1 .. Len(rows) /\ Len(rows) \in Nat
    BY LenProperties
  <2>2. \A i \in 1 .. Len(rows) : rows[i] \in AllRows
    BY ElementOfSeq
  <2>3. lines \in [1 .. Len(rows) -> GridLines] /\ \A i \in 1 .. Len(rows) : Inked(lines[i])
    BY <1>5, <2>1, <2>2
  <2> HIDE DEF lines
  <2>4. lines \in Seq(GridLines) /\ Len(lines) = Len(rows)
    BY <2>1, <2>3, LenProperties
  <2> QED BY <2>3, <2>4 DEF Full, Inked
<1> HIDE DEF lines, head
<1>7. Closed(lines)
  BY <1>6, FullIsClosed
<1>8. mid \in Seq(GridLines) /\ Closed(mid)
  <2>1. mid \in Seq(GridLines)
    BY <1>3
  <2>2. Closed(mid)
    BY <1>4, FourClosed DEF Inked
  <2> QED BY <2>1, <2>2
<1> HIDE DEF mid
<1>9. Closed(mid \o lines)
  BY <1>6, <1>7, <1>8, ClosedJoined
<1> QED BY <1>1, <1>9

\* A table begins with an empty page.
LEMMA TableInitInv == PageInit => TableInv
<1> SUFFICES ASSUME PageInit, asked.kind # "report" PROVE TableInv
  BY DEF TableInv
<1>1. out = <<>> /\ queue = asked.groups /\ progress = "heading"
  BY DEF PageInit
<1>2. Closed(<<>>)
  BY DEF Closed, Parted
<1> QED BY <1>1, <1>2 DEF TableInv

\* What is still to be shown, when a group without rows is left out.
LEMMA RowsOfTail ==
  ASSUME NEW S, NEW groups \in Seq(Seq(S)), groups # <<>>, Head(groups) = <<>>
  PROVE  RowsLeft(Tail(groups)) = RowsLeft(groups)
<1> DEFINE rest == Tail(groups)
<1>1. Len(groups) \in Nat /\ Len(groups) \in 1 .. Len(groups) /\ 1 \in 1 .. Len(groups)
  BY LenProperties, EmptySeq
<1>2. /\ rest \in Seq(Seq(S)) /\ Len(rest) = Len(groups) - 1
      /\ \A i \in 1 .. Len(rest) : rest[i] = groups[i + 1]
      /\ Head(groups) = groups[1]
  BY HeadTailProperties
<1>3. DOMAIN groups = 1 .. Len(groups) /\ DOMAIN rest = 1 .. Len(rest)
  BY <1>2, LenProperties
<1> HIDE DEF rest
<1>4. ASSUME NEW r \in RowsLeft(rest) PROVE r \in RowsLeft(groups)
  <2>1. PICK i \in 1 .. Len(rest) : r \in ToSet(rest[i])
    BY <1>3 DEF RowsLeft, ToSet
  <2>2. i + 1 \in 1 .. Len(groups)
    BY <1>1, <1>2
  <2>3. r \in ToSet(groups[i + 1])
    BY <1>2, <2>1
  <2>4. groups[i + 1] \in ToSet(groups)
    BY <1>3, <2>2 DEF ToSet
  <2> QED BY <2>3, <2>4 DEF RowsLeft
<1>5. ASSUME NEW r \in RowsLeft(groups) PROVE r \in RowsLeft(rest)
  <2>1. PICK i \in 1 .. Len(groups) : r \in ToSet(groups[i])
    BY <1>3 DEF RowsLeft, ToSet
  <2>2. ToSet(<<>>) = {}
    BY DEF ToSet
  <2>3. i # 1
    BY <1>2, <2>1, <2>2
  <2>4. i - 1 \in 1 .. Len(rest) /\ i - 1 + 1 = i
    BY <1>1, <1>2, <2>3
  <2>5. r \in ToSet(rest[i - 1])
    BY <1>2, <2>1, <2>4
  <2>6. rest[i - 1] \in ToSet(rest)
    BY <1>3, <2>4 DEF ToSet
  <2> QED BY <2>5, <2>6 DEF RowsLeft
<1> QED BY <1>4, <1>5 DEF rest

\* A group is shown below what there is.
LEMMA ShowGroupKeeps ==
  ASSUME GridInv, TableInv, asked.kind # "report", ShowGroup
  PROVE  TableInv'
<1>1. asked \in Tables /\ terminal \in Terminals /\ glyphs \in Glyphs
  BY PagesAssumption DEF GridInv
<1>2. asked' = asked /\ progress = "groups" /\ progress' = "groups" /\ queue' = Tail(queue)
      /\ queue # <<>>
  BY DEF ShowGroup, given
<1>3. AllRows' = AllRows
  BY <1>2 DEF AllRows
<1>4. queue \in Seq(Seq(AllRows)) /\ Head(queue) \in Seq(AllRows) /\ out \in Seq(GridLines)
  BY <1>2, HeadTailProperties DEF GridInv
<1>5. Closed(out) /\ (out # <<>> => Begun(out)) /\ (out = <<>> => RowsLeft(queue) = AllRows)
  BY <1>2 DEF TableInv
<1> DEFINE lines == IF asked.kind = "routes" THEN RouteGroup(Head(queue))
                    ELSE SocketGroup(Head(queue))
<1>6. CASE Head(queue) = <<>>
  <2>1. out' = out \o <<>>
    BY <1>6 DEF ShowGroup
  <2>2. out' = out
    BY <1>4, <2>1, ConcatEmptySeq
  <2>3. RowsLeft(queue') = RowsLeft(queue)
    BY <1>2, <1>4, <1>6, RowsOfTail
  <2> QED BY <1>2, <1>3, <1>5, <2>2, <2>3 DEF TableInv
<1>7. CASE Head(queue) # <<>>
  <2>1. out' = out \o lines
    BY <1>7 DEF ShowGroup
  <2>2. asked.kind = "routes" \/ asked.kind = "listen"
    BY <1>1, PagesAssumption
  <2>3. lines \in Seq(GridLines)
    BY <1>1, <1>4, GroupsWritten
  <2>4. Closed(lines)
    BY <1>1, <1>4, <2>2, RouteGroupClosed, SocketGroupClosed
  <2>5. out = <<>> /\ asked.kind = "routes" => Begun(lines)
    BY <1>1, <1>4, RouteGroupClosed
  <2>6. out = <<>> => asked.kind = "routes"
    BY <1>2 DEF TableInv
  <2> HIDE DEF lines
  <2>7. Closed(out \o lines)
    BY <1>4, <1>5, <2>3, <2>4, ClosedJoined
  <2>8. Begun(out \o lines)
    <3>1. CASE out = <<>>
      <4>1. out \o lines = lines
        BY <2>3, <3>1, ConcatEmptySeq
      <4> QED BY <2>5, <2>6, <3>1, <4>1
    <3>2. CASE out # <<>>
      BY <1>4, <1>5, <2>3, <3>2, BegunJoined
    <3> QED BY <3>1, <3>2
  <2>9. Closed(out') /\ Begun(out')
    BY <2>1, <2>7, <2>8
  <2>10. out' # <<>>
    <3>1. 1 \in 1 .. Len(out')
      BY <2>9 DEF Begun
    <3> QED BY <3>1
  <2> QED BY <1>2, <2>9, <2>10 DEF TableInv
<1> QED BY <1>6, <1>7

\* The footer of a table closes the page.
LEMMA TableFooterKeeps ==
  ASSUME GridInv, TableInv, asked.kind # "report", TableFooter
  PROVE  TableInv'
<1>1. asked \in Tables /\ terminal \in Terminals /\ glyphs \in Glyphs
  BY PagesAssumption DEF GridInv
<1>2. asked' = asked /\ progress = "groups" /\ progress' = "done" /\ queue = <<>>
  BY DEF TableFooter, GoOn, given
<1>3. out \in Seq(GridLines) /\ Closed(out) /\ (out # <<>> => Begun(out))
      /\ (out = <<>> => RowsLeft(queue) = AllRows)
  BY <1>2 DEF TableInv, GridInv
<1> DEFINE nine == 9
           twenty == 20
           note == Push(PadTo(NewLine, RAIL_COL), [part |-> "nothing"], nine)
           summary == Push(PadTo(NewLine, RAIL_COL), [part |-> "summary"], twenty)
           rule == Rule(Edge)
           lead == IF out = <<>> THEN <<>> ELSE <<NewLine>>
           nothing == IF AllRows # {} THEN <<>> ELSE lead \o <<note>>
           last == <<NewLine, rule, summary>>
<1>4. out' = out \o nothing \o last
  BY DEF TableFooter
<1>5. nine # 0 /\ twenty # 0 /\ nine \in Nat /\ twenty \in Nat
  OBVIOUS
<1> HIDE DEF nine, twenty
<1>6. NewLine \in GridLines /\ note \in GridLines /\ rule \in GridLines /\ summary \in GridLines
  BY <1>1, <1>5, NotesWritten
<1>7. Inked(note) /\ Inked(rule) /\ Inked(summary)
  BY <1>1, <1>5, MarkInked, RuleInked
<1> HIDE DEF note, rule, summary
<1>8. last \in Seq(GridLines) /\ Closed(last)
  <2>1. last \in Seq(GridLines)
    BY <1>6
  <2>2. Closed(last)
    BY <1>7, ThreeClosed DEF Inked
  <2> QED BY <2>1, <2>2
<1> HIDE DEF last
<1>9. <<note>> \in Seq(GridLines) /\ Closed(<<note>>) /\ Begun(<<note>>)
  <2>1. <<note>> \in Seq(GridLines)
    BY <1>6
  <2> QED BY <1>7, <2>1, OneClosed
<1>10. lead \in Seq(GridLines) /\ Parted(lead)
  <2>1. <<NewLine>> \in Seq(GridLines) /\ <<>> \in Seq(GridLines)
    BY <1>6
  <2> QED BY <2>1, BlankIsParted
<1> DEFINE said == <<note>>
<1>11. said \in Seq(GridLines) /\ Closed(said) /\ Begun(said)
  BY <1>9
<1> HIDE DEF said, lead
<1>12. lead \o said \in Seq(GridLines) /\ Closed(lead \o said)
  BY <1>10, <1>11, ClosedByNext, ConcatProperties
<1>13. nothing \in Seq(GridLines) /\ Closed(nothing)
  <2>1. Closed(<<>>) /\ <<>> \in Seq(GridLines)
    BY DEF Closed, Parted
  <2> QED BY <1>12, <2>1 DEF said
<1>14. out = <<>> => Begun(nothing)
  <2>1. SUFFICES ASSUME out = <<>> PROVE Begun(nothing)
    OBVIOUS
  <2>2. RowsLeft(<<>>) = {}
    BY DEF RowsLeft, ToSet
  <2>3. AllRows = {}
    BY <1>2, <1>3, <2>1, <2>2
  <2>4. lead = <<>>
    BY <2>1 DEF lead
  <2>5. lead \o said = said
    BY <1>11, <2>4, ConcatEmptySeq
  <2> QED BY <1>11, <2>3, <2>5 DEF said
<1> HIDE DEF nothing
<1> DEFINE upto == out \o nothing
<1>15. upto \in Seq(GridLines) /\ Closed(upto)
  BY <1>3, <1>13, ClosedJoined, ConcatProperties
<1>16. Begun(upto)
  <2>1. CASE out = <<>>
    <3>1. upto = nothing
      BY <1>13, <2>1, ConcatEmptySeq
    <3> QED BY <1>14, <2>1, <3>1
  <2>2. CASE out # <<>>
    BY <1>3, <1>13, <2>2, BegunJoined
  <2> QED BY <2>1, <2>2
<1>17. out' = upto \o last
  BY <1>4
<1> HIDE DEF upto
<1>18. Closed(upto \o last) /\ Begun(upto \o last)
  BY <1>8, <1>15, <1>16, ClosedJoined, BegunJoined
<1>19. Closed(out') /\ Begun(out')
  BY <1>17, <1>18
<1>20. out' # <<>>
  <2>1. 1 \in 1 .. Len(out')
    BY <1>19 DEF Begun
  <2> QED BY <2>1
<1> QED BY <1>2, <1>19, <1>20 DEF TableInv

\* The heading of the list of sockets opens the page.
LEMMA TableHeadingKeeps ==
  ASSUME GridInv, TableInv, asked.kind # "report", TableHeading
  PROVE  TableInv'
<1>1. asked \in Tables /\ terminal \in Terminals
  BY PagesAssumption DEF GridInv
<1>2. asked' = asked /\ progress = "heading" /\ progress' = "groups" /\ queue' = queue
  BY DEF TableHeading, GoOn, given
<1>3. queue = asked.groups
  BY <1>2 DEF TableInv
<1>4. AllRows' = AllRows /\ RowsLeft(queue') = AllRows'
  BY <1>2, <1>3 DEF AllRows, RowsOf, RowsLeft
<1> DEFINE nine == 9
           heading == Heading(nine)
<1>5. asked.kind = "listen" => out' = <<heading>>
  BY DEF TableHeading
<1>6. nine # 0
  OBVIOUS
<1> HIDE DEF nine
<1>7. Inked(heading)
  BY <1>6, HeadingInked
<1> HIDE DEF heading
<1>8. asked.kind = "listen" => Closed(out') /\ Begun(out') /\ out' # <<>>
  <2>1. <<heading>> # <<>>
    OBVIOUS
  <2> QED BY <1>5, <1>7, <2>1, OneClosed
<1>9. asked.kind # "listen" => out' = <<>>
  BY DEF TableHeading
<1>10. Closed(<<>>)
  BY DEF Closed, Parted
<1>11. asked.kind = "routes" \/ asked.kind = "listen"
  BY <1>1, PagesAssumption
<1> QED BY <1>2, <1>4, <1>8, <1>9, <1>10, <1>11 DEF TableInv

\* Every step of a table adds closed lines below those there are.
LEMMA TableStep == GridInv /\ TableInv /\ [PageNext]_pageVars => TableInv'
<1> SUFFICES ASSUME GridInv, TableInv, [PageNext]_pageVars PROVE TableInv'
  OBVIOUS
<1>1. UNCHANGED given
  BY DEF PageNext, pageVars, GoOn, Header, ShowInterface, Sections, Footer,
         TableHeading, ShowGroup, TableFooter
<1>2. asked' = asked
  BY <1>1 DEF given
<1>3. CASE asked.kind = "report"
  BY <1>2, <1>3 DEF TableInv
<1>4. CASE asked.kind # "report"
  <2>1. progress \in {"heading", "groups", "done"}
    BY <1>4 DEF GridInv
  <2>2. ~Header /\ ~ShowInterface /\ ~Sections /\ ~Footer
    BY <1>4, <2>1 DEF Header, ShowInterface, Sections, Footer, GoOn
  <2>3. CASE UNCHANGED pageVars
    BY <1>2, <2>3 DEF pageVars, TableInv, AllRows
  <2> QED BY <1>4, <2>2, <2>3, TableHeadingKeeps, ShowGroupKeeps, TableFooterKeeps DEF PageNext
<1> QED BY <1>3, <1>4

-----------------------------------------------------------------------------
(***************************************************************************)
(* Both.                                                                   *)
(***************************************************************************)

\* The cells of a row follow each other.
LEMMA TableIsReadable ==
  ASSUME GridInv, asked.kind # "report"
  PROVE  PageTypeOK
<1>1. out \in Seq(GridLines) /\ DOMAIN out = 1 .. Len(out)
  BY LenProperties DEF GridInv
<1>2. \A i \in 1 .. Len(out) : out[i] \in Lines /\ Written(out[i], out[i].width)
  BY <1>1, ElementOfSeq DEF GridLines
<1>3. \A i \in 1 .. Len(out) : \E T : out[i].spans \in Seq(T)
  BY <1>2, SpansOfLine
<1>4. \A p \in Places : /\ p[1] \in 1 .. Len(out) /\ p[2] \in 1 .. Len(out[p[1]].spans)
                        /\ p = <<p[1], p[2]>> /\ SpanAt(p) = out[p[1]].spans[p[2]]
  BY <1>1, <1>3, PlacesAre
<1>5. \A p \in Pieces : p \in Places
  BY DEF Pieces
<1>6. PageTypeOK
  <2>1. \A i \in DOMAIN out : out[i].width \in Nat
    BY <1>1, <1>2 DEF Lines
  <2>2. ASSUME NEW p \in Places
        PROVE  /\ SpanAt(p).from \in 1 .. SpanAt(p).to
               /\ SpanAt(p).to <= out[p[1]].width
               /\ p[2] > 1 => SpanAt(<<p[1], p[2] - 1>>).to < SpanAt(p).from
    <3> DEFINE i == p[1]
               k == p[2]
               line == out[i]
    <3>1. i \in 1 .. Len(out) /\ k \in 1 .. Len(line.spans) /\ SpanAt(p) = line.spans[k]
      BY <1>4
    <3>2. Written(line, line.width)
      BY <1>2, <3>1
    <3>3. k \in Nat /\ (k > 1 => k \in 2 .. Len(line.spans))
      BY <3>1
    <3>4. SpanAt(<<i, k - 1>>) = line.spans[k - 1]
      BY DEF SpanAt
    <3> HIDE DEF i, k, line
    <3>5. /\ line.spans[k].from \in 1 .. line.spans[k].to /\ line.spans[k].to <= line.width
          /\ k > 1 => line.spans[k - 1].to < line.spans[k].from
      BY <3>1, <3>2, <3>3 DEF Written
    <3> QED BY <3>1, <3>4, <3>5 DEF i, k, line
  <2>3. progress \in {"heading", "groups", "done"}
    BY DEF GridInv
  <2> QED BY <2>1, <2>2, <2>3 DEF PageTypeOK, GridInv
<1> QED BY <1>6

\* What the promises say of a table.
LEMMA TableFollows ==
  ASSUME GridInv, TableInv, asked.kind # "report"
  PROVE  EverythingIsReadable /\ PageKeepsShape
<1>1. NothingIsLost /\ PiecesApart
  BY DEF NothingIsLost, PiecesApart
<1>2. progress \in {"heading", "groups", "done"} /\ out \in Seq(GridLines)
  BY DEF GridInv
<1>3. SectionsKeepShape
  BY <1>2 DEF SectionsKeepShape
<1>4. WithinEdge
  BY DEF WithinEdge
<1>5. TimingsUnderStages
  <2>1. ASSUME NEW p \in Pieces PROVE Part(SpanAt(p)) # "timing"
    <3>1. SpanAt(p).what \in CellNames
      BY PiecesAreFine
    <3> QED BY <3>1 DEF CellNames, Part
  <2> QED BY <2>1 DEF TimingsUnderStages
<1>6. Closed(out) /\ (progress = "done" => Begun(out))
  BY DEF TableInv
<1>7. OneBlankLine
  BY <1>2, <1>6, OneBlankIs
<1> QED BY <1>1, <1>3, <1>4, <1>5, <1>7, TableIsReadable DEF EverythingIsReadable, PageKeepsShape

\* What is true of the page at any time: that tables are grids, what a report
\* says so far, and that blocks are parted by one blank line.
PagesInv == GridInv /\ ReportInv /\ TableInv

\* A page of which this is true can be read, and has kept its shape.
LEMMA PagesFollow == PagesInv => EverythingIsReadable /\ PageKeepsShape
BY ReportFollows, TableFollows DEF PagesInv

\* It is true of every page, whatever is on it and however wide the terminal.
LEMMA PagesInvHolds == PageSpec => []PagesInv
<1>1. PageInit => PagesInv
  BY GridInitInv, ReportInitInv, TableInitInv DEF PagesInv
<1>2. PagesInv /\ [PageNext]_pageVars => PagesInv'
  BY GridStep, ReportStep, TableStep DEF PagesInv
<1> QED BY <1>1, <1>2, PTL DEF PageSpec

\* For every report, table, set of glyphs and terminal: a finished report holds,
\* whole and once, the title of each section with its age, every stage of the
\* ladder with its mark and, unless the terminal is narrow, its time, the verdict
\* with its explanation and the page to sign in on, the names and the status of
\* every interface, and label, value and notes of every row. Nothing touches what
\* is before it, but a status for which a long name leaves no room. This is the
\* promise of emit_row, the headings, the ladder and pack: what does not fit is
\* moved and never dropped.
THEOREM EverythingIsReadableHolds == PageSpec => []EverythingIsReadable
<1>1. PagesInv => EverythingIsReadable
  BY PagesFollow
<1> QED BY <1>1, PagesInvHolds, PTL

\* For every report, table, set of glyphs and terminal: sections beside each
\* other moved as a whole, a line runs past the edge only for a text that is too
\* wide from its own column on or if it is a heading, times stand under their
\* stages, and one blank line separates two blocks. This is what pack, ladder
\* and fits_right are for.
THEOREM PageKeepsShapeHolds == PageSpec => []PageKeepsShape
<1>1. PagesInv => PageKeepsShape
  BY PagesFollow
<1> QED BY <1>1, PagesInvHolds, PTL

=============================================================================
