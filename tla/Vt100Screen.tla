----------------------------- MODULE Vt100Screen -----------------------------
(***************************************************************************)
(* A session's screen: the program in the session sends control sequences, *)
(* the session is resized, and what the screen shows is sent elsewhere: a  *)
(* whole screen to an attached viewer, a browser or the next incarnation   *)
(* of tttt (contents_formatted), the differences from the last snapshot to *)
(* a terminal that follows (contents_diff).                                *)
(***************************************************************************)
EXTENDS Vt100Writer, FiniteSets

CONSTANTS
    Sizes,     \* the sizes <<rows, columns>> a session can have
    Renditions, \* the SGR sequences a program sends
    Printed,   \* the texts a program may have printed on its new screen
    MaxSteps   \* bound on the control sequences and resizes of a behaviour

ASSUME SizesAssumption == Sizes # {} /\ Sizes \subseteq Nat \X Nat
ASSUME PrintedAssumption == Printed \subseteq Seq({"s", "x", "w"})
ASSUME MaxStepsAssumption == MaxSteps \in Nat

VARIABLES
    screen,     \* the grid in use, and the drawing attributes
    hidden,     \* the other grid
    alternate,  \* whether the alternate grid is in use
    prev,       \* prev_screen: the screen of the last snapshot
    follower,   \* the terminal that was sent the differences so far
    panicked,   \* what made the emulator panic: a text printed, a size; "no"
    steps

vars == <<screen, hidden, alternate, prev, follower, panicked, steps>>

SizeOf(s) == <<Rows(s), Cols(s)>>

(* Nothing keeps a size from being small: tttt_pty_resize takes any, and a  *)
(* viewer of few rows leaves its session fewer.                             *)
Large == {z \in Sizes : z[1] > 1 /\ z[2] > 1}
Zero == {z \in Sizes : 0 \in {z[1], z[2]}}

Init ==
    \E z \in Large, text \in Printed :
        /\ screen = FoldLeft(PrintChar, NewScreen(z), text) /\ hidden = NewScreen(z)
        /\ alternate = FALSE
        /\ prev = screen /\ follower = screen
        /\ panicked = "no" /\ steps = 0

Count == steps < MaxSteps /\ steps' = steps + 1

(* The program sends a sequence that changes the grid in use.              *)
Do(next) == Count /\ screen' = next /\ UNCHANGED <<hidden, alternate, prev, follower>>

-----------------------------------------------------------------------------
(* Characters and control characters *)

Panic(why) ==
    panicked' = why /\ Count /\ UNCHANGED <<screen, hidden, alternate, prev, follower>>

PrintText == \E t \in {"s", "x", "w"} : ~Underflows(screen, t) /\ Do(PrintChar(screen, t))
PrintPanics == \E t \in {"s", "x", "w"} : Underflows(screen, t) /\ Panic("print")
CombineChar == Do(Combine(screen))
BackspaceChar == Do(ColDec(screen, 1))
TabChar == Do(Tab(screen))
LineFeedChar == Do(LineFeed(screen))
CarriageReturn == Do(ColSet(screen, 0))

-----------------------------------------------------------------------------
(* Cursor, region and attributes *)

MoveCursor ==
    \/ \E i \in 0 .. Rows(screen) - 1 : Do(RowSet(screen, i))
    \/ \E j \in 0 .. Cols(screen) - 1 : Do(ColSet(screen, j))
    \/ \E i \in 0 .. Rows(screen) - 1, j \in 0 .. Cols(screen) - 1 : Do(SetPos(screen, i, j))
    \/ Do(RowDec(screen, 1)) \/ Do(RowInc(screen, 1)) \/ Do(ColInc(screen, 1))

SaveOrRestore == Do(SaveCursor(screen)) \/ Do(RestoreCursor(screen))
ReverseIndexEsc == Do(ReverseIndex(screen))
ScrollRegion ==
    \E t, b \in 0 .. Rows(screen) - 1 : Do(SetRegion(screen, t, b))
OriginMode == \E mode \in BOOLEAN : Do(SetOrigin(screen, mode))
SelectRendition ==
    \E ps \in Renditions :
        Sgr(screen.pen, ps) \in Pens /\ Do([screen EXCEPT !.pen = Sgr(@, ps)])

-----------------------------------------------------------------------------
(* Erasing, inserting and deleting *)

EraseInDisplay == Do(EraseForward(screen)) \/ Do(EraseBackward(screen)) \/ Do(EraseAll(screen))
EraseInLine == Do(EraseRowForward(screen)) \/ Do(EraseRowBackward(screen)) \/ Do(EraseRow(screen))
EditChars == Do(InsertCells(screen, 1)) \/ Do(DeleteCells(screen, 1)) \/ Do(EraseChars(screen, 1))
EditLines ==
    \/ Do(InsertLines(screen, 1)) \/ Do(DeleteLines(screen, 1))
    \/ Do(ScrollUp(screen, 1)) \/ Do(ScrollDown(screen, 1))

-----------------------------------------------------------------------------
(* The alternate screen, reset and resize *)

(* Both grids keep their own cursors; the attributes belong to the screen. *)
WithAttrs(g, s) == [g EXCEPT !.pen = s.pen, !.spen = s.spen]

Cleared(g) == NewScreen(SizeOf(g))

Switch(to, from) ==
    /\ screen' = to /\ hidden' = from
    /\ Count /\ UNCHANGED <<prev, follower>>

(* DECSET 47 and 1049; entering a second time from the alternate grid      *)
(* stays in it.                                                            *)
EnterAlternate ==
    IF alternate THEN Do(screen)
    ELSE alternate' = TRUE /\ Switch(WithAttrs(hidden, screen), screen)
SaveAndEnterAlternate ==
    LET saved == SaveCursor(screen)
    IN  IF alternate THEN Do(WithAttrs(Cleared(screen), saved))
        ELSE alternate' = TRUE /\ Switch(WithAttrs(Cleared(hidden), saved), saved)

ExitAlternate ==
    IF ~alternate THEN Do(screen)
    ELSE alternate' = FALSE /\ Switch(WithAttrs(hidden, screen), screen)
ExitAlternateAndRestore ==
    IF ~alternate THEN Do(RestoreCursor(screen))
    ELSE alternate' = FALSE /\ Switch(RestoreCursor(WithAttrs(hidden, screen)), screen)

(* RIS.                                                                    *)
Reset ==
    /\ screen' = Cleared(screen) /\ hidden' = Cleared(screen) /\ alternate' = FALSE
    /\ Count /\ UNCHANGED <<prev, follower>>

(* tttt_pty_set_scrollback: a new parser, and so an empty screen.          *)
SetScrollback ==
    LET new == Cleared(screen)
    IN  /\ screen' = new /\ hidden' = new /\ alternate' = FALSE
        /\ prev' = new /\ follower' = new
        /\ Count

(* The screen is resized; the next snapshot is compared with the new       *)
(* screen, so a terminal that follows has to start again from it.          *)
Resize ==
    \E z \in Sizes \ ({SizeOf(screen)} \cup Zero) :
        /\ screen' = SetSize(screen, z) /\ hidden' = SetSize(hidden, z)
        /\ prev' = screen'
        /\ follower' = Show(NewScreen(z), contents_formatted(screen'))
        /\ Count /\ UNCHANGED alternate

(* No rows or no columns: their number less one underflows.  A build that  *)
(* does not check for overflow panics at the next character instead.       *)
ResizePanics == Zero # {} /\ Panic("size")

(* ScreenBuffer::contents_diff, and its output shown by the follower.      *)
Snapshot ==
    /\ prev # screen
    /\ follower' = Show(follower, contents_diff(screen, prev))
    /\ prev' = screen
    /\ UNCHANGED <<screen, hidden, alternate, steps>>

Sequence ==
    \/ PrintText \/ CombineChar \/ BackspaceChar \/ TabChar \/ LineFeedChar \/ CarriageReturn
    \/ MoveCursor \/ SaveOrRestore \/ ReverseIndexEsc \/ ScrollRegion \/ OriginMode
    \/ SelectRendition
    \/ EraseInDisplay \/ EraseInLine \/ EditChars \/ EditLines
    \/ EnterAlternate \/ SaveAndEnterAlternate \/ ExitAlternate \/ ExitAlternateAndRestore
    \/ Reset \/ SetScrollback \/ Resize \/ Snapshot

Next ==
    /\ panicked = "no"
    /\ \/ Sequence /\ UNCHANGED panicked
       \/ PrintPanics \/ ResizePanics

Spec == Init /\ [][Next]_vars

-----------------------------------------------------------------------------
(* Properties *)

(* Every cursor, saved cursor, region and row is inside its grid, whatever *)
(* was sent and however the session was resized: the indexings of the      *)
(* emulator cannot panic on a size of two rows and two columns or more.    *)
TypeOK ==
    /\ InShape(screen) /\ InShape(hidden) /\ SizeOf(hidden) = SizeOf(screen)
    /\ alternate \in BOOLEAN /\ steps \in 0 .. MaxSteps
    /\ InShape(prev) /\ InShape(follower)
    /\ panicked \in {"no", "print", "size"}
    /\ panicked = "print" => 1 \in {Rows(screen), Cols(screen)}

(* The emulator never panics, whatever size the session is given: the      *)
(* comments on its unwraps take every position for valid.                  *)
(* TLC refutes this, see the README.                                       *)
NeverPanics == panicked = "no"

(* A wide character always has its continuation after it and a             *)
(* continuation its character before it, in both grids: printing and       *)
(* erasing look for the other half without checking that it is there.      *)
WideCharsWhole ==
    \A s \in {screen, hidden, follower} : \A i \in DOMAIN s.rows : PairedRow(s.rows[i])

(* Cursor and saved cursor stay on the grid through resizes, and wide      *)
(* characters stay whole.                                                  *)
ScreenInv == TypeOK /\ WideCharsWhole

(* What can be seen of a screen, and what the program will draw with next. *)
Shown(s) == [cells |-> [i \in DOMAIN s.rows |-> s.rows[i].cells],
             at |-> <<s.row, s.col>>, pen |-> s.pen]

(* A new terminal that is sent contents_formatted shows the same cells,    *)
(* the same cursor, "past the end" included, and the same attributes:      *)
(* what an attached viewer sees, and a session after a live reload.        *)
ReproducesScreen ==
    Shown(Show(NewScreen(SizeOf(screen)), contents_formatted(screen))) = Shown(screen)

(* A terminal that is sent the differences of successive snapshots shows,  *)
(* after each, what was on the screen: no difference leaves something      *)
(* behind that a later one does not know of.                               *)
(* TLC refutes this, see the README.                                       *)
FollowerShowsSnapshot == Shown(follower) = Shown(prev)

(* The same of each snapshot, as long as no line runs on into the next.    *)
Unwrapped(s) == \A i \in DOMAIN s.rows : ~s.rows[i].wrapped
DiffShowsUnwrapped ==
    [][(follower' # follower /\ Shown(follower) = Shown(prev) /\ Unwrapped(prev) /\ Unwrapped(screen))
       => Shown(follower') = Shown(prev')]_vars
=============================================================================
