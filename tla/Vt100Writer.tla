----------------------------- MODULE Vt100Writer -----------------------------
(***************************************************************************)
(* The other direction of the vt100 crate: the control sequences that      *)
(* contents_formatted and contents_diff write so that another terminal     *)
(* shows the same screen, and what a terminal makes of them.  A sequence   *)
(* is a token; the writer's state is the text so far (out), where it       *)
(* believes the cursor is (row, col), the attributes it has set (pen), and *)
(* a run of blank cells not yet written (erase).                           *)
(***************************************************************************)
EXTENDS Vt100Grid

NoErase == [col |-> 0, a |-> DefaultPen, on |-> FALSE]
Writer(row, col, pen) == [out |-> <<>>, row |-> row, col |-> col, pen |-> pen,
                          erase |-> NoErase, skip |-> FALSE]

Token(op, n) == [op |-> op, n |-> n, to |-> <<0, 0>>]
Chr(t) == Token(t, 1)
Backspace == Token("bs", 1)
EraseChar(n) == Token("ech", n)
ClearRowForward == Token("el", 0)
ClearAttrs == [op |-> "sgr", params |-> <<>>]
MoveTo(row, col) == [op |-> "cup", n |-> 1, to |-> <<row, col>>]
Put(w, tokens) == [w EXCEPT !.out = @ \o tokens]

(* MoveFromTo.                                                             *)
Move(row, col, trow, tcol) ==
    IF trow = row + 1 /\ tcol = 0 THEN <<Token("crlf", 1)>>
    ELSE IF row = trow /\ col < tcol THEN <<Token("cuf", tcol - col)>>
    ELSE IF <<row, col>> # <<trow, tcol>> THEN <<MoveTo(trow, tcol)>>
    ELSE <<>>
MoveWriter(w, row, col) == [Put(w, Move(w.row, w.col, row, col)) EXCEPT !.row = row, !.col = col]

SetPen(w, a) == [Put(w, SgrDiff(a, w.pen)) EXCEPT !.pen = a]

-----------------------------------------------------------------------------
(* One row *)

OnNextLine(w, row, cols) == w.row + 1 = row /\ w.col >= cols

(* A run of blank cells is written as soon as something else follows.      *)
FlushErase(w, row, cols, wrapping, token) ==
    LET to == w.erase.col
        at == IF wrapping /\ OnNextLine(w, row, cols)
              THEN [Put(w, IF to > 0 THEN [i \in 1 .. to |-> Chr("s")]
                           ELSE <<Chr("s"), Backspace>>)
                    EXCEPT !.row = row, !.col = to]
              ELSE MoveWriter(w, row, to)
    IN  [Put(SetPen(at, w.erase.a), <<token>>) EXCEPT !.erase = NoErase]

(* One cell; `changed' is whether the reader's cell differs from it.       *)
WriteCell(w, row, cols, wrapping, col, cell, changed) ==
    IF w.skip THEN [w EXCEPT !.skip = FALSE]
    ELSE LET w1 == [w EXCEPT !.skip = cell.t = "w"]
             w2 == IF w1.erase.on /\ (HasContents(cell) \/ cell.a # w1.erase.a)
                   THEN FlushErase(w1, row, cols, wrapping, EraseChar(col - w1.erase.col))
                   ELSE w1
             stays == wrapping /\ w2.row + 1 = row /\ w2.col >= cols + 1 - Width(cell.t)
                      /\ col = 0
             w3 == IF stays THEN [w2 EXCEPT !.row = row, !.col = col] ELSE MoveWriter(w2, row, col)
         IN  IF ~changed THEN w2
             ELSE IF HasContents(cell)
             THEN [Put(SetPen(w3, cell.a), <<Chr(cell.t)>>) EXCEPT !.col = @ + Width(cell.t)]
             ELSE IF w2.erase.on THEN w2
             ELSE [w2 EXCEPT !.erase = [col |-> col, a |-> cell.a, on |-> TRUE]]

WriteCells(w, row, cells, wrapping, changed) ==
    LET end == FoldLeft(LAMBDA x, i :
                            WriteCell(x, row, Len(cells), wrapping, i - 1, cells[i], i \in changed),
                        w, [i \in DOMAIN cells |-> i])
    IN  [(IF end.erase.on THEN FlushErase(end, row, Len(cells), wrapping, ClearRowForward) ELSE end)
         EXCEPT !.skip = FALSE]

WriteRow(w, row, r, wrapping) ==
    LET blankFirst == wrapping /\ r.cells[1] = DefaultCell
        at == IF blankFirst
              THEN [Put(SetPen(w, DefaultPen), <<Chr("s"), Backspace, EraseChar(1)>>)
                    EXCEPT !.row = row, !.col = 0]
              ELSE w
    IN  WriteCells(at, row, r.cells, wrapping, {i \in DOMAIN r.cells : r.cells[i] # DefaultCell})

(* A row that is going from wrapped to not wrapped, or back, has its last  *)
(* character written again.                                                *)
RedrawEnd(w, row, r, pr) ==
    IF r.wrapped = pr.wrapped THEN w
    ELSE LET n == Len(r.cells)
             endCol == IF r.cells[n].t = "k" THEN n - 2 ELSE n - 1
             end == r.cells[endCol + 1]
             at == MoveWriter(w, row, endCol)
             cut == IF r.wrapped THEN at ELSE Put(at, <<EraseChar(1)>>)
         IN  IF HasContents(end)
             THEN [Put(SetPen(cut, end.a), <<Chr(end.t)>>) EXCEPT !.col = endCol + Width(end.t)]
             ELSE cut

WriteRowDiff(w, row, r, pr, wrapping, pwrapping) ==
    LET first == r.cells[1]
        joins == /\ wrapping /\ ~pwrapping /\ first = pr.cells[1]
                 /\ w.row + 1 = row /\ w.col >= Len(r.cells) + 1 - Width(first.t)
        at == IF joins
              THEN [Put(SetPen(w, first.a),
                        (IF HasContents(first) THEN <<Chr(first.t), Backspace>>
                         ELSE <<Chr("s"), Backspace>>)
                        \o (IF first.t = "w" THEN <<Backspace>> ELSE <<>>)
                        \o (IF HasContents(first) THEN <<>> ELSE <<EraseChar(1)>>))
                    EXCEPT !.row = row, !.col = 0]
              ELSE w
    IN  RedrawEnd(WriteCells(at, row, r.cells, wrapping,
                             {i \in DOMAIN r.cells : r.cells[i] # pr.cells[i]}),
                  row, r, pr)

-----------------------------------------------------------------------------
(* The cursor *)

LastCol(s, row) == IF CellAt(s, row, Cols(s) - 1).t = "k" THEN Cols(s) - 2 ELSE Cols(s) - 1
LastCell(s, row) == CellAt(s, row, LastCol(s, row))

PutsLastColumn(w, s) ==  \* mutant: past the end is taken for the last column
    Put(w, Move(w.row, w.col, s.row, LowerOf(s.col, Cols(s) - 1)))

(* Past the end of a row the cursor can only be put by writing the last    *)
(* character there again, or that of an earlier row and line feeds, or a   *)
(* space that is erased behind the cursor.                                 *)
WriteCursor(w, s) ==
    LET Redraw(row) ==
            Put(w, Move(w.row, w.col, row, LastCol(s, row))
                   \o SgrDiff(LastCell(s, row).a, w.pen) \o <<Chr(LastCell(s, row).t)>>
                   \o SgrDiff(w.pen, LastCell(s, row).a))
        full == {i \in 0 .. s.row : HasContents(LastCell(s, i))}
        from == CHOOSE i \in full : \A j \in full : j <= i
        end == CellAt(s, s.row, Cols(s) - 1)
    IN  IF <<w.row, w.col>> = <<s.row, s.col>> \/ s.col < Cols(s)
        THEN Put(w, Move(w.row, w.col, s.row, s.col))
        ELSE IF full = {}
        THEN Put(w, Move(w.row, w.col, s.row, Cols(s) - 1) \o <<Chr("s")>>
                    \o SgrDiff(end.a, w.pen)
                    \o <<Token("save", 1), Backspace, EraseChar(1), Token("restore", 1)>>
                    \o SgrDiff(w.pen, end.a))
        ELSE Put(IF from < s.row /\ w.row = from /\ w.col >= Cols(s) THEN w ELSE Redraw(from),
                 [i \in 1 .. s.row - from |-> Token("lf", 1)])

-----------------------------------------------------------------------------
(* Whole screens *)

WrapsInto(rows, i) == i > 1 /\ rows[i - 1].wrapped

contents_formatted(s) ==
    LET start == Put(Writer(0, 0, DefaultPen), <<ClearAttrs, MoveTo(0, 0), Token("ed", 0)>>)
        rows == FoldLeft(LAMBDA w, i : WriteRow(w, i - 1, s.rows[i], WrapsInto(s.rows, i)),
                         start, [i \in DOMAIN s.rows |-> i])
    IN  WriteCursor(rows, s).out \o SgrDiff(s.pen, rows.pen)

contents_diff(s, prev) ==
    LET rows == FoldLeft(LAMBDA w, i : WriteRowDiff(w, i - 1, s.rows[i], prev.rows[i],
                                                    WrapsInto(s.rows, i), WrapsInto(prev.rows, i)),
                         Writer(prev.row, prev.col, prev.pen), [i \in DOMAIN s.rows |-> i])
    IN  WriteCursor(rows, s).out \o SgrDiff(s.pen, rows.pen)

(* What a terminal does with a token.                                      *)
Perform(s, k) ==
    CASE k.op \in {"s", "x", "w"} -> PrintChar(s, k.op)
      [] k.op = "bs" -> ColDec(s, 1)
      [] k.op = "ech" -> EraseChars(s, k.n)
      [] k.op = "el" -> EraseRowForward(s)
      [] k.op = "ed" -> EraseForward(s)
      [] k.op = "cup" -> SetPos(s, k.to[1], k.to[2])
      [] k.op = "cuf" -> ColInc(s, k.n)
      [] k.op = "crlf" -> LineFeed(ColSet(s, 0))
      [] k.op = "lf" -> LineFeed(s)
      [] k.op = "save" -> SaveCursor(s)
      [] k.op = "restore" -> RestoreCursor(s)
      [] k.op = "sgr" -> [s EXCEPT !.pen = Sgr(@, k.params)]

Show(s, tokens) == FoldLeft(Perform, s, tokens)
=============================================================================
