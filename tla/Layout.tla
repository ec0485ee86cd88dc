------------------------------- MODULE Layout -------------------------------
(***************************************************************************)
(* Column arithmetic, render/layout.rs.  A line is what was written on it, *)
(* piece by piece with the columns each takes, and how far it has come;    *)
(* what a piece says is left out, how wide it is is not.  Columns count    *)
(* from 1.                                                                 *)
(***************************************************************************)
EXTENDS Integers, SequencesExt, FiniteSetsExt

MARGIN == 2
RAIL_COL == 3
LABEL_COL == 5
LABEL_WIDTH == 12
VALUE_COL == LABEL_COL + LABEL_WIDTH
CONTENT_MIN == 62
CONTENT_MAX == 96
NARROW_BELOW == 66
RAIL_BELOW == 40
GUTTER == 2

\* Subtraction that stops at zero.
Less(a, b) == Max({a - b, 0})

ContentEdge(terminal) == Min({Max({Less(terminal, MARGIN), CONTENT_MIN}), CONTENT_MAX})

-----------------------------------------------------------------------------
(* A line under construction.                                              *)

NewLine == [spans |-> <<>>, width |-> 0]

PadTo(line, column) == [line EXCEPT !.width = Max({@, column - 1})]

Space(line, count) == [line EXCEPT !.width = @ + count]

Push(line, what, size) ==
  IF size = 0 THEN line
  ELSE [spans |-> Append(line.spans,
                         [what |-> what, from |-> line.width + 1, to |-> line.width + size]),
        width |-> line.width + size]

PushRight(line, what, size, column) == Push(PadTo(line, Less(column, size) + 1), what, size)

FitsRight(line, size, column) == column >= size /\ column - size >= line.width + 2

Rule(edge) == Push(PadTo(NewLine, RAIL_COL), [part |-> "rule"], Less(edge, MARGIN))

-----------------------------------------------------------------------------
(* Blocks of finished lines.                                               *)

IsBlank(line) == line.spans = <<>>

BlockWidth(block) == Max({0} \cup {block[i].width : i \in DOMAIN block})

Beside_Trimmed(left, right, column) ==
  LET start == PadTo(left, column).width - right.spans[1].from + 1
      Moved(span) == [span EXCEPT !.from = @ + start, !.to = @ + start]
  IN [spans |-> left.spans \o [i \in DOMAIN right.spans |-> Moved(right.spans[i])],
      width |-> start + right.width]

\* A line put to the right of another, its own leading spaces included.
Beside(left, right, column) ==
  LET start == PadTo(left, column).width
      Moved(span) == [span EXCEPT !.from = @ + start, !.to = @ + start]
  IN [spans |-> left.spans \o [i \in DOMAIN right.spans |-> Moved(right.spans[i])],
      width |-> start + right.width]

TrimEnd(line) ==
  [line EXCEPT !.width = IF IsBlank(line) THEN 0 ELSE Last(line.spans).to]

Columns(left, right, column) ==
  LET LineOf(block, i) == IF i <= Len(block) THEN block[i] ELSE NewLine
  IN [i \in 1 .. Max({Len(left), Len(right)}) |->
        IF IsBlank(LineOf(right, i)) THEN TrimEnd(LineOf(left, i))
        ELSE Beside(LineOf(left, i), LineOf(right, i), column)]
=============================================================================
