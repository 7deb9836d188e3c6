--------------------------- MODULE MouseSelection ---------------------------
(***************************************************************************)
(* The mouse in tttt's own terminal: the wheel scrolls the active session  *)
(* into its history, and a drag selects text, which is copied when the     *)
(* button is released.  Meanwhile the sessions print, so that rows of the  *)
(* screen are other lines of the output than they were.                    *)
(*                                                                         *)
(* A session is the number of lines that have left the top of its screen.  *)
(* A row is a whole line, the pane as high as the screen of the session;   *)
(* columns are left out.                                                   *)
(***************************************************************************)
EXTENDS Integers, FiniteSets, FiniteSetsExt

CONSTANTS
    Session, Root, None,
    Height,       \* rows of a screen
    Scrollback,   \* lines of history a session keeps
    Wheel,        \* lines the wheel scrolls (3)
    MaxLines,     \* bound on the lines that leave the screens
    MaxEvents     \* bound on the events of the mouse

Selection == [anchor : Nat, head : Nat]
Mark == [session : Session, line : Nat, wheel : BOOLEAN, cut : BOOLEAN]

\* What the constants must be; the module that instantiates this one assumes it.
ConstantsOk ==
    /\ Root \in Session /\ None \notin Session /\ None \notin Selection /\ None \notin Mark
    /\ {Height, Wheel} \subseteq Nat \ {0} /\ {Scrollback, MaxLines, MaxEvents} \subseteq Nat

VARIABLES
    off,      \* [Session -> lines that left its screen]
    active,   \* active_session
    offset,   \* scroll_offset
    sel,      \* selection: the rows of its anchor and its head
    base,     \* selection_scroll_base
    mark,     \* the line the user pressed on, its session, and whether the wheel moved since
    copied,   \* the last text copied, and what the user meant
    events

vars == <<off, active, offset, sel, base, mark, copied, events>>

Rows == 0 .. Height - 1
Less(a, b) == IF a > b THEN a - b ELSE 0

scrollback_count(s) == Min({off[s], Scrollback})
max_scroll_offset == scrollback_count(active)

compute_selection_scroll_compensation(from, now, manual) == Less(now, from) + manual

(* set_scrollback scrolls no further than the history goes.                *)
Shown == IF sel = None THEN offset
         ELSE compute_selection_scroll_compensation(base, max_scroll_offset, offset)
LineAt(row) == off[active] - Min({Shown, max_scroll_offset}) + row

Init ==
    /\ off = [s \in Session |-> 0]
    /\ active = Root
    /\ offset = 0 /\ sel = None /\ base = 0
    /\ mark = None /\ copied = None
    /\ events = 0

-----------------------------------------------------------------------------
Output(s, n) ==
    /\ MapThenSumSet(LAMBDA t : off[t], Session) + n <= MaxLines
    /\ off' = [off EXCEPT ![s] = @ + n]
    /\ UNCHANGED <<active, offset, sel, base, mark, copied, events>>

Event == events < MaxEvents /\ events' = events + 1

(* A key, the sidebar, or a click on another pane.  Neither the selection  *)
(* nor the scrolling is told.                                              *)
Switch(s) ==
    /\ Event
    /\ s # active /\ active' = s
    /\ UNCHANGED <<off, offset, sel, base, mark, copied>>

MousePress(row) ==
    /\ Event
    /\ sel' = [anchor |-> row, head |-> row]
    /\ offset' = 0
    /\ base' = max_scroll_offset
    /\ mark' = [session |-> active, line |-> off[active] + row, wheel |-> FALSE,
                cut |-> off[active] > Scrollback]
    /\ UNCHANGED <<off, active, copied>>

(* At the top and the bottom edge the view scrolls by one, the anchor with *)
(* it.                                                                     *)
Dragged(row) ==
    \/ /\ row = 0 /\ offset < max_scroll_offset
       /\ offset' = offset + 1
       /\ sel' = [anchor |-> sel.anchor + 1, head |-> row]
    \/ /\ row # 0 /\ row = Height - 1 /\ offset > 0
       /\ offset' = offset - 1
       /\ sel' = [anchor |-> Less(sel.anchor, 1), head |-> row]
    \/ /\ row = 0 => offset >= max_scroll_offset
       /\ row # 0 /\ row = Height - 1 => offset = 0
       /\ sel' = [sel EXCEPT !.head = row]
       /\ UNCHANGED offset

MouseDrag(row) ==
    /\ Event /\ sel # None
    /\ Dragged(row)
    /\ UNCHANGED <<off, active, base, mark, copied>>

(* extract_text: the rows between anchor and head; one that is not on the  *)
(* screen is copied as an empty line.                                      *)
Selected(row) == Min({sel.anchor, row}) .. Max({sel.anchor, row})
Extracted(row) == {LineAt(r) : r \in Selected(row) \cap Rows}
Meant(row) ==
    LET to == LineAt(row) IN Min({mark.line, to}) .. Max({mark.line, to})

(* What lets the rows be the lines they were when the button was pressed:  *)
(* the session is the same, the wheel did not turn, no line was dropped    *)
(* from the history, and the drag did not scroll back further than the     *)
(* history went when it began.                                             *)
Steady ==
    /\ active = mark.session /\ ~mark.wheel
    /\ ~mark.cut /\ off[active] <= Scrollback
    /\ offset <= base

(* A selection of one cell copies nothing.                                 *)
MouseRelease(row, oneCell) ==
    /\ Event /\ sel # None
    /\ oneCell => sel.anchor = row
    /\ copied' = IF oneCell THEN copied
                 ELSE [lines |-> Extracted(row), meant |-> Meant(row), steady |-> Steady,
                       whole |-> sel.anchor \in Rows, session |-> active, of |-> mark.session]
    /\ offset' = 0 /\ sel' = None /\ mark' = None
    /\ UNCHANGED <<off, active, base>>

Turned == IF mark = None THEN None ELSE [mark EXCEPT !.wheel = TRUE]

ScrollUp ==
    /\ Event /\ offset < max_scroll_offset
    /\ offset' = Min({offset + Wheel, max_scroll_offset})
    /\ mark' = Turned
    /\ UNCHANGED <<off, active, sel, base, copied>>

ScrollDown ==
    /\ Event /\ offset > 0
    /\ offset' = Less(offset, Wheel)
    /\ mark' = Turned
    /\ UNCHANGED <<off, active, sel, base, copied>>

-----------------------------------------------------------------------------
Next ==
    \/ \E s \in Session : Switch(s) \/ \E n \in 1 .. 2 : Output(s, n)
    \/ \E row \in Rows :
           MousePress(row) \/ MouseDrag(row) \/ \E oneCell \in BOOLEAN : MouseRelease(row, oneCell)
    \/ ScrollUp \/ ScrollDown

Spec == Init /\ [][Next]_vars

-----------------------------------------------------------------------------
(* Properties *)

TypeOK ==
    /\ active \in Session /\ offset \in 0 .. Scrollback /\ base \in 0 .. Scrollback
    /\ off \in [Session -> Nat]
    /\ sel \in {None} \cup Selection /\ mark \in {None} \cup Mark
    /\ sel = None <=> mark = None

(* Whatever is printed during a selection, its anchor stays on the line    *)
(* the user pressed on.                                                    *)
AnchorHolds == sel # None /\ Steady => LineAt(sel.anchor) = mark.line

(* Then the text copied is only of lines the user dragged over, and if the *)
(* anchor was still on the screen it is all of them.                       *)
CopiesMarked ==
    copied # None /\ copied.steady =>
        /\ copied.lines \subseteq copied.meant
        /\ copied.whole => copied.lines = copied.meant

(* Types hold, the anchor holds, and what was marked is copied.            *)
SelectionInv == TypeOK /\ AnchorHolds /\ CopiesMarked

(* All of it is copied, also if the drag scrolled the anchor off the       *)
(* screen.  TLC refutes this, see the README.                              *)
CopiesAll == copied # None /\ copied.steady => copied.lines = copied.meant

(* What is copied is of the session it was selected in.  TLC refutes this, *)
(* see the README.                                                         *)
CopiesOwn == copied # None => copied.session = copied.of

(* The anchor holds however far the drag scrolls.  TLC refutes this, see   *)
(* the README.                                                             *)
AnchorHoldsFar ==
    /\ sel # None /\ active = mark.session /\ ~mark.wheel
    /\ ~mark.cut /\ off[active] <= Scrollback
    => LineAt(sel.anchor) = mark.line
=============================================================================
