------------------------------ MODULE Vt100Grid ------------------------------
(***************************************************************************)
(* The terminal emulator of the vt100 crate: what each control sequence    *)
(* does to a grid of cells and to the cursor.  A screen is a record        *)
(*                                                                         *)
(*   rows             the drawing rows, each with its cells and `wrapped'  *)
(*   row, col         the cursor, from zero; col = columns is "past the    *)
(*                    end", where a character in the last column leaves it *)
(*   srow, scol, sorigin, spen   the saved cursor                          *)
(*   top, bottom, origin         scroll region and origin mode             *)
(*   pen              the current drawing attributes                       *)
(*                                                                         *)
(* A cell is empty "e", a space "s", a narrow character "x", or a wide     *)
(* character "w" followed by its continuation "k"; its attributes are the   *)
(* pen it was drawn with.  Every operator takes a screen and returns the   *)
(* next one.  The scrollback is left out: a session's own                  *)
(* screen is always the live view, and only copies of it are scrolled.     *)
(***************************************************************************)
EXTENDS Vt100Pen

CONSTANT Pens  \* the pens in use

ASSUME PensAssumption == DefaultPen \in Pens

LowerOf(a, b) == IF a < b THEN a ELSE b
HigherOf(a, b) == IF a > b THEN a ELSE b
Minus(a, b) == IF a > b THEN a - b ELSE 0  \* saturating_sub

Repeat(Op(_), s, n) == FoldLeft(LAMBDA x, i : Op(x), s, [i \in 1 .. n |-> i])

Tuple(f) == <<>> \o f  \* f, a function on 1 .. n, held by TLC as a tuple

Empty(a) == [t |-> "e", a |-> a]
DefaultCell == Empty(DefaultPen)
NewRow(cols) == [cells |-> Tuple([i \in 1 .. cols |-> DefaultCell]), wrapped |-> FALSE]

Rows(s) == Len(s.rows)
Cols(s) == Len(s.rows[1].cells)
CellAt(s, row, col) == s.rows[row + 1].cells[col + 1]
HasContents(c) == c.t # "e"
Width(t) == IF t = "w" THEN 2 ELSE 1

NewScreen(size) ==
    [rows |-> Tuple([i \in 1 .. size[1] |-> NewRow(size[2])]),
     row |-> 0, col |-> 0, srow |-> 0, scol |-> 0,
     top |-> 0, bottom |-> size[1] - 1, origin |-> FALSE, sorigin |-> FALSE,
     pen |-> DefaultPen, spen |-> DefaultPen]

-----------------------------------------------------------------------------
(* Rows *)

SetCell(r, i, c) == [r EXCEPT !.cells[i + 1] = c]
Clear(r, i, a) == SetCell(r, i, Empty(a))

ClearRow(r, a) == [cells |-> Tuple([i \in DOMAIN r.cells |-> Empty(a)]), wrapped |-> FALSE]

(* The other half of a wide character keeps its own attributes.            *)
ClearWide(r, i) ==
    CASE r.cells[i + 1].t = "w" -> Clear(r, i + 1, r.cells[i + 2].a)
      [] r.cells[i + 1].t = "k" -> Clear(r, i - 1, r.cells[i].a)
      [] OTHER -> r

KeepsOtherHalf(r, i, a) ==  \* mutant: the other half of a wide character stays
    [Clear(r, i, a) EXCEPT
        !.wrapped = @ /\ i # Len(r.cells) - Width(r.cells[i + 1].t)]

Erase(r, i, a) ==
    [Clear(ClearWide(r, i), i, a) EXCEPT
        !.wrapped = @ /\ i # Len(r.cells) - Width(r.cells[i + 1].t)]

EraseRange(r, from, to, a) ==
    FoldLeft(LAMBDA x, i : Erase(x, i, a), r,
             [k \in 1 .. Minus(to + 1, from) |-> from + k - 1])

(* A wide character whose second half was cut off is cleared.              *)
CutWide(r) ==
    LET n == Len(r.cells)
    IN  IF r.cells[n].t = "w" THEN Clear(r, n - 1, r.cells[n].a) ELSE r

Cut(cells, cols) == SubSeq(cells \o NewRow(cols).cells, 1, cols)

ResizeRow(r, cols) ==
    CutWide([cells |-> Cut(r.cells, cols), wrapped |-> FALSE])

InsertBlank(r, i) == [cells |-> InsertAt(r.cells, i + 1, DefaultCell), wrapped |-> FALSE]
RemoveCell(r, i) == [cells |-> RemoveAt(ClearWide(r, i).cells, i + 1), wrapped |-> FALSE]

-----------------------------------------------------------------------------
(* The cursor *)

InRegion(s) == s.row \in s.top .. s.bottom
BottomFor(s, limited) == IF limited THEN s.bottom ELSE Rows(s) - 1
TopFor(s, limited) == IF limited THEN s.top ELSE 0
ColClamp(s) == [s EXCEPT !.col = LowerOf(@, Cols(s) - 1)]

SetPos(s, row, col) ==
    LET r == IF s.origin THEN row + s.top ELSE row
    IN  ColClamp([s EXCEPT !.row = HigherOf(LowerOf(r, BottomFor(s, s.origin)), TopFor(s, s.origin)),
                           !.col = col])

SaveCursor(s) ==
    [s EXCEPT !.srow = s.row, !.scol = s.col, !.sorigin = s.origin, !.spen = s.pen]
RestoreCursor(s) ==
    [s EXCEPT !.row = s.srow, !.col = s.scol, !.origin = s.sorigin, !.pen = s.spen]

RowDec(s, n) ==
    [s EXCEPT !.row = HigherOf(Minus(@, n), TopFor(s, InRegion(s)))]
RowInc(s, n) ==
    [s EXCEPT !.row = LowerOf(@ + n, BottomFor(s, InRegion(s)))]
RowSet(s, i) == [s EXCEPT !.row = LowerOf(i, Rows(s) - 1)]
ColInc(s, n) == ColClamp([s EXCEPT !.col = @ + n])
ColDec(s, n) == [s EXCEPT !.col = Minus(@, n)]
ColSet(s, i) == ColClamp([s EXCEPT !.col = i])
Tab(s) == ColSet(s, (s.col \div 8) * 8 + 8)

SetRegion(s, top, bottom) ==
    LET b == LowerOf(bottom, Rows(s) - 1)
        t == IF top < b THEN top ELSE 0
    IN  [s EXCEPT !.top = t, !.bottom = IF top < b THEN b ELSE Rows(s) - 1,
                  !.row = t, !.col = 0]

SetOrigin(s, mode) == SetPos([s EXCEPT !.origin = mode], 0, 0)

-----------------------------------------------------------------------------
(* Lines *)

ScrollUpOne(s) ==
    [s EXCEPT !.rows = RemoveAt(InsertAt(@, s.bottom + 2, NewRow(Cols(s))), s.top + 1)]
ScrollUp(s, n) == Repeat(ScrollUpOne, s, LowerOf(n, Rows(s) - s.top))

NoWrapAt(rows, i) == [rows EXCEPT ![i + 1].wrapped = FALSE]
(* Insert a line at row i and drop the last line of the region.            *)
InsertLineAt(s, i) ==
    [s EXCEPT !.rows = NoWrapAt(InsertAt(RemoveAt(@, s.bottom + 1), i + 1, NewRow(Cols(s))), s.bottom)]
ScrollDown(s, n) == Repeat(LAMBDA x : InsertLineAt(x, x.top), s, n)
InsertLines(s, n) == Repeat(LAMBDA x : InsertLineAt(x, x.row), s, n)
DeleteLineHere(s) ==
    [s EXCEPT !.rows = RemoveAt(InsertAt(@, s.bottom + 2, NewRow(Cols(s))), s.row + 1)]
DeleteLines(s, n) == Repeat(DeleteLineHere, s, LowerOf(n, Rows(s) - s.row))

(* row_inc_scroll(1), and whether a line scrolls away.                      *)
LineFeed(s) ==
    IF ~InRegion(s) THEN RowInc(s, 1)
    ELSE IF s.row = s.bottom THEN ScrollUp(s, 1) ELSE [s EXCEPT !.row = @ + 1]
Scrolls(s) == InRegion(s) /\ s.row = s.bottom

(* row_dec_scroll(1).                                                      *)
ReverseIndex(s) ==
    LET stuck == s.row = 0
        over == InRegion(s) /\ Minus(s.row, 1) < s.top
        up == RowDec(s, 1)
    IN  ScrollDown(up, (IF stuck THEN 1 ELSE 0)
                       + (IF over THEN s.top - Minus(s.row, 1) ELSE 0))

-----------------------------------------------------------------------------
(* Characters of a row *)

OnRow(s, Op(_)) == [s EXCEPT !.rows[s.row + 1] = Op(@)]

EraseChars(s, n) ==
    OnRow(s, LAMBDA r : EraseRange(r, s.col, LowerOf(s.col + n, Cols(s)) - 1, s.pen))
EraseRowForward(s) == OnRow(s, LAMBDA r : EraseRange(r, s.col, Cols(s) - 1, s.pen))
EraseRowBackward(s) ==
    OnRow(s, LAMBDA r : EraseRange(r, 0, LowerOf(s.col, Cols(s) - 1), s.pen))
EraseRow(s) == OnRow(s, LAMBDA r : ClearRow(r, s.pen))
ClearRows(s, from, to) ==
    [s EXCEPT !.rows = Tuple([i \in DOMAIN @ |-> IF i - 1 \in from .. to
                                                 THEN ClearRow(@[i], s.pen) ELSE @[i]])]
EraseForward(s) == EraseRowForward(ClearRows(s, s.row + 1, Rows(s) - 1))
EraseBackward(s) == EraseRowBackward(IF s.row = 0 THEN s ELSE ClearRows(s, 0, s.row - 1))
EraseAll(s) == ClearRows(s, 0, Rows(s) - 1)

(* Inserting inside a wide character keeps its continuation in place.      *)
InsertCells(s, n) ==
    LET wide == s.col < Cols(s) /\ CellAt(s, s.row, s.col).t = "k"
        One(r) == LET plain == IF wide THEN [r EXCEPT !.cells[s.col + 1].t = "e"] ELSE r
                      more == InsertBlank(plain, s.col)
                  IN  IF wide THEN [more EXCEPT !.cells[s.col + 1].t = "k"] ELSE more
    IN  OnRow(s, LAMBDA r : ResizeRow(Repeat(One, r, n), Cols(s)))

DeleteCells(s, n) ==
    OnRow(s, LAMBDA r : ResizeRow(Repeat(LAMBDA x : RemoveCell(x, s.col), r,
                                         LowerOf(n, Cols(s) - s.col)),
                                  Cols(s)))

-----------------------------------------------------------------------------
(* Printing *)

(* col_wrap: the row left behind is marked as wrapped if its last column   *)
(* is in use and the cursor has gone to the row below it.                  *)
ColWrap(s, w) ==
    IF s.col <= Cols(s) - w THEN s
    ELSE LET used == HasContents(CellAt(s, s.row, Cols(s) - 1))
             fed == LineFeed([s EXCEPT !.col = 0])
             left == IF Scrolls(s) THEN s.row - 1 ELSE s.row
         IN  [fed EXCEPT !.rows[left + 1].wrapped = used /\ left + 1 = fed.row]

(* The subtractions of a text printed: a wide character needs two columns, *)
(* and where a wrap scrolls, the line left behind is the one above.        *)
Underflows(s, t) ==
    \/ Width(t) > Cols(s)
    \/ s.col > Cols(s) - Width(t) /\ Scrolls(s) /\ s.row = 0

(* The cell is set; a wide character it cuts in half loses the other half. *)
PutOver(r, i, t, a) ==
    LET old == r.cells[i + 1].t
        left == IF old = "k" THEN Clear(r, i - 1, a) ELSE r
        right == IF old = "w" THEN SetCell(left, i + 1, [t |-> "s", a |-> a]) ELSE left
    IN  SetCell(right, i, [t |-> t, a |-> a])

(* The second half of a wide character, over what was there.               *)
PutContinuation(r, i, a) ==
    LET cutsWide == r.cells[i + 1].t = "w"
        right == IF cutsWide
                 THEN [Clear(r, i + 1, a) EXCEPT !.wrapped = @ /\ i + 2 # Len(r.cells)]
                 ELSE r
    IN  SetCell(right, i, [t |-> "k", a |-> DefaultPen])

PrintChar(s, t) ==
    LET at == ColWrap(s, Width(t))
        put == OnRow(at, LAMBDA r : PutOver(r, at.col, t, at.pen))
        whole == IF t = "w" THEN OnRow(put, LAMBDA r : PutContinuation(r, at.col + 1, at.pen))
                 ELSE put
    IN  [whole EXCEPT !.col = at.col + Width(t)]

(* A combining character joins the character before the cursor; only what  *)
(* it does to an empty cell can be told apart here.                        *)
AppendTo(r, i) ==
    LET j == IF r.cells[i + 1].t = "k" THEN i - 1 ELSE i
    IN  IF r.cells[j + 1].t = "e" THEN [r EXCEPT !.cells[j + 1].t = "s"] ELSE r
Combine(s) ==
    IF s.col > 0 THEN OnRow(s, LAMBDA r : AppendTo(r, s.col - 1))
    ELSE IF s.row > 0 /\ s.rows[s.row].wrapped
    THEN [s EXCEPT !.rows[s.row] = AppendTo(@, Cols(s) - 1)]
    ELSE s

-----------------------------------------------------------------------------
(* Resizing *)

ResizeRows(rows, size) ==
    Tuple([i \in 1 .. size[1] |-> IF i <= Len(rows) THEN ResizeRow(rows[i], size[2])
                                  ELSE NewRow(size[2])])

SetSize(s, size) ==
    LET b0 == IF s.bottom = Rows(s) - 1 THEN size[1] - 1 ELSE LowerOf(s.bottom, size[1] - 1)
    IN  [s EXCEPT
            !.rows = ResizeRows(@, size),
            !.bottom = b0, !.top = IF b0 < @ THEN 0 ELSE @,
            !.row = LowerOf(@, size[1] - 1), !.col = LowerOf(@, size[2] - 1),
            !.srow = LowerOf(@, size[1] - 1), !.scol = LowerOf(@, size[2] - 1)]

-----------------------------------------------------------------------------
(* Shape *)

(* Every position the operators use is inside the grid, as the unwraps and *)
(* indexings of the code expect.                                           *)
InShape(s) ==
    /\ \A i \in 1 .. Rows(s) : Len(s.rows[i].cells) = Cols(s)
    /\ s.row \in 0 .. Rows(s) - 1 /\ s.srow \in 0 .. Rows(s) - 1
    /\ s.col \in 0 .. Cols(s) /\ s.scol \in 0 .. Cols(s)
    /\ s.top \in 0 .. s.bottom /\ s.bottom \in 0 .. Rows(s) - 1
    /\ {s.pen, s.spen} \subseteq Pens

(* A wide character has its continuation after it, and only there.         *)
PairedRow(r) ==
    \A i \in DOMAIN r.cells :
        /\ r.cells[i].t = "w" => i < Len(r.cells) /\ r.cells[i + 1].t = "k"
        /\ r.cells[i].t = "k" => i > 1 /\ r.cells[i - 1].t = "w"
=============================================================================
