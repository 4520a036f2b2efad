------------------------------- MODULE Layout -------------------------------
(***************************************************************************)
(* How an answer is laid out: rc-tui's markdown.rs turns its lines into    *)
(* prose, fenced code and boxed tables that know nothing of the terminal,  *)
(* and view.rs fits each resulting line to the viewport on every draw,     *)
(* alone, so that the lines of one table must come to the same widths      *)
(* independently.  The answer grows and the terminal is resized.           *)
(*                                                                         *)
(* A text is a sequence of glyphs: "s" a blank, "w" one two columns wide,  *)
(* "|" a cell border, "-" a horizontal one, "+" a corner, any other one    *)
(* column wide.  Styles and the inline marks are left out.                 *)
(***************************************************************************)
EXTENDS Integers, Sequences, FiniteSets, SequencesExt, FiniteSetsExt

CONSTANTS
  SourceLines, \* lines an answer may have: [kind, cells]
  Viewports,   \* widths of the terminal
  MaxLines     \* bound: lines of an answer

VARIABLES
  answer,      \* lines received so far
  viewport     \* columns of the terminal
layoutVars == <<answer, viewport>>

GUTTER == 2

Repeat(g, n) == [k \in 1..n |-> g]
Width(text) == FoldLeft(LAMBDA n, g : n + (IF g = "w" THEN 2 ELSE 1), 0, text)
Total(ns) == FoldLeft(LAMBDA a, b : a + b, 0, ns)
Most(S) == Max(S \cup {0})

-----------------------------------------------------------------------------
(* markdown.rs.  A line of the transcript is prose, or a border or a row of *)
(* a table; "of" tells tables apart.                                        *)
Prose(text) == [is |-> "prose", text |-> text, cells |-> <<>>, natural |-> <<>>, of |-> 0]

\* border_line; natural is what table_border reads back from it.
border_line(widths, of) ==
  [is |-> "border", cells |-> <<>>, natural |-> widths, of |-> of,
   text |-> <<"+">> \o FlattenSeq([c \in DOMAIN widths |-> Repeat("-", widths[c] + 2) \o <<"+">>])]

\* table_row_line: a missing cell is blank, every cell is padded to as many
\* characters as its column; natural is the width in columns, as table_cells
\* measures it.
table_row_line(cells, widths, of) ==
  LET text(c) == IF c <= Len(cells) THEN cells[c] ELSE <<>>
      padded(c) == text(c) \o Repeat("s", Most({widths[c] - Len(text(c))}))
  IN  [is |-> "row", of |-> of, cells |-> [c \in DOMAIN widths |-> text(c)],
       natural |-> [c \in DOMAIN widths |-> Width(padded(c))],
       text |-> <<"|">> \o FlattenSeq([c \in DOMAIN widths |-> <<"s">> \o padded(c) \o <<"s", "|">>])]

\* render_table: a column has as many characters as its longest cell; cells
\* beyond the header's are dropped.
Longest(c, texts) == Most({Len(t[c]) : t \in {x \in ToSet(texts) : c <= Len(x)}})
Boxed(rows, border) ==
  FlattenSeq([k \in DOMAIN rows |-> <<border, rows[k]>>])
    \o (IF Len(rows) = 1 THEN <<border>> ELSE <<>>) \o <<border>>
TableOf(texts, widths, of) ==
  Boxed([k \in DOMAIN texts |-> table_row_line(texts[k], widths, of)], border_line(widths, of))
render_table(header, rows, of) ==
  TableOf(<<header>> \o rows, [c \in DOMAIN header |-> Longest(c, <<header>> \o rows)], of)

TableBody(lines) ==
  LET ends == {k \in DOMAIN lines : lines[k].kind \notin {"row", "rule"}}
  IN  IF ends = {} THEN lines ELSE SubSeq(lines, 1, Min(ends) - 1)

\* The first line begins a table: the second is its rule, with as many cells.
BeginsTable(lines) ==
  /\ lines[1].kind \in {"row", "rule"} /\ Len(lines) > 1 /\ lines[2].kind = "rule"
  /\ Len(lines[2].cells) = Len(lines[1].cells)
Cells(lines) == [k \in DOMAIN lines |-> lines[k].cells]

\* parse_blocks, one block: what it becomes, how many lines it takes, and the mark
\* of the fence that is then open.  A line that opens a fence closes it if nothing
\* but the mark stands on it.
Took(out, lines, fence) == [out |-> out, lines |-> lines, fence |-> fence]
InFence(l, fence) ==
  IF l.kind = "fence" /\ l.cells = <<<<fence>>>> THEN Took(<<Prose(<<"+">>)>>, 1, "")
  ELSE Took(<<Prose(<<"|", "s">> \o FlattenSeq(l.cells))>>, 1, fence)
Table(header, rows, of) == Took(render_table(header, rows, of), 2 + Len(rows), "")
OneBlock(lines, fence, n) ==
  CASE fence # "" -> InFence(lines[1], fence)
    [] fence = "" /\ lines[1].kind = "fence" ->
         Took(<<Prose(<<"+", "s">> \o Tail(lines[1].cells[1]))>>, 1, lines[1].cells[1][1])
    [] fence = "" /\ BeginsTable(lines) ->
         Table(lines[1].cells, Cells(TableBody(Tail(Tail(lines)))), n + 1)
    [] OTHER -> Took(<<Prose(FlattenSeq(lines[1].cells))>>, 1, "")

\* parse_blocks, from the line after n
RECURSIVE parse_blocks(_, _, _)
Onward(lines, n, b) ==
  b.out \o parse_blocks(SubSeq(lines, b.lines + 1, Len(lines)), b.fence, n + b.lines)
parse_blocks(lines, fence, n) ==
  IF lines = <<>> THEN <<>> ELSE Onward(lines, n, OneBlock(lines, fence, n))

-----------------------------------------------------------------------------
(* view.rs.                                                                 *)
Blanks(text) == Most({n \in DOMAIN text : \A k \in 1..n : text[k] = "s"})
SkipBlanks(text) == SubSeq(text, Blanks(text) + 1, Len(text))

\* Where a row of a text that begins with ink ends, and where the next begins.
Cut(text, width) ==
  LET end == Most({n \in DOMAIN text : Width(SubSeq(text, 1, n)) <= width})
      blanks == {n \in 2..end : text[n] = "s"}
  IN  CASE end = Len(text) -> [end |-> end, next |-> end + 1]
        [] end < Len(text) /\ blanks # {} -> [end |-> Max(blanks) - 1, next |-> Max(blanks) + 1]
        [] OTHER -> [end |-> Max({end, 1}), next |-> Max({end, 1}) + 1]

\* Mutant of wrap_styled_spans: a row ends with a blank, so what it is broken at is skipped.
RECURSIVE WrapAtAnything(_, _)
SkippedAt(t, cut, width) ==
  <<SubSeq(t, 1, cut.end)>> \o WrapAtAnything(SkipBlanks(SubSeq(t, cut.end + 2, Len(t))), width)
WrapAtAnything(t, width) == IF t = <<>> THEN <<>> ELSE SkippedAt(t, Cut(t, width), width)

\* The rows of a text that begins with ink.
RECURSIVE Wrapped(_, _)
BrokenAt(t, cut, width) ==
  <<SubSeq(t, 1, cut.end)>> \o Wrapped(SkipBlanks(SubSeq(t, cut.next, Len(t))), width)
Wrapped(t, width) == IF t = <<>> THEN <<>> ELSE BrokenAt(t, Cut(t, width), width)

wrap_skipping(text, width) == IF SkipBlanks(text) = <<>> THEN <<<<>>>> ELSE WrapAtAnything(SkipBlanks(text), width)

wrap_styled_spans(text, width) == IF SkipBlanks(text) = <<>> THEN <<<<>>>> ELSE Wrapped(SkipBlanks(text), width)

\* constrained_table_widths: the columns grow in turn, up to their natural width.
Grown(st, c, desired) ==
  IF st.left > 0 /\ st.widths[c] < desired[c]
  THEN [widths |-> [st.widths EXCEPT ![c] = @ + 1], left |-> st.left - 1] ELSE st
RECURSIVE Widen(_, _, _)
Again(st, pass, desired) ==
  IF st.left = 0 \/ pass.left = st.left THEN st.widths ELSE Widen(pass.widths, desired, pass.left)
Pass(st, desired) ==
  FoldLeft(LAMBDA s, c : Grown(s, c, desired), st, [c \in DOMAIN desired |-> c])
Widened(st, desired) == Again(st, Pass(st, desired), desired)
Widen(widths, desired, left) == Widened([widths |-> widths, left |-> left], desired)

Constrainable(natural, width) == natural # <<>> /\ width - (3 * Len(natural) + 1) >= Len(natural)
Preferred(natural) == [c \in DOMAIN natural |-> Max({1, Min({natural[c], 8})})]
Within(natural, budget) ==
  IF Total(natural) <= budget THEN natural
  ELSE IF Total(Preferred(natural)) <= budget
       THEN Widen(Preferred(natural), natural, budget - Total(Preferred(natural)))
       ELSE Widen([c \in DOMAIN natural |-> 1], natural, budget - Len(natural))

constrained_table_widths(natural, width) == Within(natural, width - (3 * Len(natural) + 1))

\* render_constrained_row: as many rows as the cell with most of them.
Nth(wrapped, k) == IF k <= Len(wrapped) THEN wrapped[k] ELSE <<>>
Padded(text, width) ==
  <<"s">> \o text \o Repeat("s", Most({width - Width(text)})) \o <<"s", "|">>
Stacked(wrapped, widths) ==
  [k \in 1..Most({Len(wrapped[c]) : c \in DOMAIN wrapped}) |->
    <<"|">> \o FlattenSeq([c \in DOMAIN wrapped |-> Padded(Nth(wrapped[c], k), widths[c])])]
render_constrained_row(cells, widths) ==
  Stacked([c \in DOMAIN cells |-> wrap_styled_spans(cells[c], widths[c])], widths)

Fits(line, width) == Width(line.text) + GUTTER <= width
Narrowed(line, width) ==
  ~Fits(line, width) /\ line.is # "prose" /\ Constrainable(line.natural, width - GUTTER)

\* responsive_content_lines: the rows of the screen a line takes, without gutter.
Narrow(line, widths) ==
  IF line.is = "border" THEN <<border_line(widths, 0).text>>
  ELSE render_constrained_row(line.cells, widths)
responsive_content_lines(line, width) ==
  IF Fits(line, width) \/ width <= GUTTER THEN <<line.text>>
  ELSE IF Narrowed(line, width)
       THEN Narrow(line, constrained_table_widths(line.natural, width - GUTTER))
       ELSE wrap_styled_spans(line.text, width - GUTTER)

-----------------------------------------------------------------------------
LayoutInit == answer = <<>> /\ viewport \in Viewports

LineArrives(l) == Len(answer) < MaxLines /\ answer' = Append(answer, l) /\ UNCHANGED viewport
Resize(w) == w # viewport /\ viewport' = w /\ UNCHANGED answer

LayoutNext == (\E l \in SourceLines : LineArrives(l)) \/ (\E w \in Viewports : Resize(w))
LayoutSpec == LayoutInit /\ [][LayoutNext]_layoutVars

-----------------------------------------------------------------------------
Ink(text) == SelectSeq(text, LAMBDA g : g # "s")
Bar(row, c) ==
  CHOOSE b \in DOMAIN row : row[b] = "|" /\ Cardinality({n \in 1..b : row[n] = "|"}) = c
CellOf(row, c) == SubSeq(row, Bar(row, c) + 1, Bar(row, c + 1) - 1)

KeepsText(l, rows) ==
  IF ~Narrowed(l, viewport) THEN Ink(FlattenSeq(rows)) = Ink(l.text)
  ELSE l.is = "row" => \A c \in DOMAIN l.cells :
         Ink(FlattenSeq([n \in DOMAIN rows |-> CellOf(rows[n], c)])) = Ink(l.cells[c])
Meets(lines, rows, t) ==
  /\ \A k \in t : /\ Constrainable(lines[k].natural, viewport - GUTTER)
                  /\ "w" \notin ToSet(lines[k].text)
  => LET widths == UNION {{Width(r) : r \in ToSet(rows[k])} : k \in t}
     IN  Cardinality(widths) = 1 /\ \A w \in widths : w + GUTTER <= viewport
LaidOut(lines, rows) ==
  /\ \A k \in DOMAIN lines : KeepsText(lines[k], rows[k])
  /\ \A of \in {lines[k].of : k \in DOMAIN lines} \ {0} :
       Meets(lines, rows, {k \in DOMAIN lines : lines[k].of = of})
Drawn(lines) == LaidOut(lines, [k \in DOMAIN lines |-> responsive_content_lines(lines[k], viewport)])

\* "cells wrap internally and every border still meets" (responsive_content_lines).
\* At every width, whatever a line is broken into has its text, in order, and each
\* cell's text is under its own header; and if a table can be narrowed to the
\* terminal at all, every line of it comes to the same width and fits, as long
\* as no glyph is wider than one column.
LayoutSound == Drawn(parse_blocks(answer, "", 0))
=============================================================================
