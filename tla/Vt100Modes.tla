----------------------------- MODULE Vt100Modes -----------------------------
(***************************************************************************)
(* What a session's screen remembers besides its cells: the pen, the input *)
(* modes, titles and bells, and how they are handed on.  The web console   *)
(* sends contents_formatted and input_mode_formatted to a browser's        *)
(* terminal over and over; state_diff brings a copy up to date; `tttt      *)
(* diag' collects the sequences that are not understood.  A terminal is a  *)
(* record                                                                  *)
(*                                                                         *)
(*   pen, cell         the pen, and the pen its one cell was drawn with    *)
(*   on                the modes that are on                               *)
(*   mouse, encoding   the mouse mode and its encoding, by their numbers,  *)
(*                     0 for none                                          *)
(*   title, icon       window title and icon name                          *)
(*   bells, flashes    audible_bell_count, visual_bell_count               *)
(*                                                                         *)
(* One cell stands for the grid, which Vt100Screen models.                 *)
(***************************************************************************)
EXTENDS Vt100Pen

CONSTANTS
    Renditions,  \* the SGR sequences a program sends
    Titles,      \* the titles a program sets
    NoTitle,     \* the empty title
    MaxSteps     \* bound on the sequences a program sends


VARIABLES
    screen,     \* the session's screen
    browser,    \* the terminal of a browser that views the session
    prev,       \* the screen of the last snapshot, and
    copy,       \* a terminal that is sent the difference of each snapshot
    tracking,   \* whether unhandled sequences are collected
    unhandled,  \* how many have been and were not taken yet,
    reported,   \* how many were taken, and
    sent,       \* how many the program sent
    steps

vars == <<screen, browser, prev, copy, tracking, unhandled, reported, sent, steps>>

Switches == {1, 25, 2004, 2026}
ModeOf == [n \in Switches |-> CASE n = 1 -> "cursor" [] n = 25 -> "hide"
                                [] n = 2004 -> "paste" [] n = 2026 -> "sync"]
MouseModes == {9, 1000, 1002, 1003}
Encodings == {1005, 1006}
DecModes == Switches \cup MouseModes \cup Encodings

NewTerminal ==
    [pen |-> DefaultPen, cell |-> DefaultPen, on |-> {}, mouse |-> 0, encoding |-> 0,
     title |-> NoTitle, icon |-> NoTitle, bells |-> 0, flashes |-> 0]

-----------------------------------------------------------------------------
(* What a terminal makes of a token *)

Mode(n, set) == [op |-> IF set THEN "decset" ELSE "decrst", n |-> n]
Keypad(set) == [op |-> IF set THEN "deckpam" ELSE "deckpnm"]
Osc(n, s) == [op |-> "osc", n |-> n, s |-> s]
Draw == [op |-> "draw"]
ClearAttrs == [op |-> "sgr", params |-> <<>>]

Switched(t, mode, set) == [t EXCEPT !.on = IF set THEN @ \cup {mode} ELSE @ \ {mode}]

(* Mode 25 shows the cursor, and the mode kept is that it is hidden.       *)
DecSwitch(t, n, set) == Switched(t, ModeOf[n], set = (n # 25))

decset(t, n) ==
    CASE n \in Switches -> DecSwitch(t, n, TRUE)
      [] n \in MouseModes -> [t EXCEPT !.mouse = n]
      [] n \in Encodings -> [t EXCEPT !.encoding = n]

(* Only the mouse mode in use can be turned off.                           *)
decrst(t, n) ==
    CASE n \in Switches -> DecSwitch(t, n, FALSE)
      [] n \in MouseModes -> [t EXCEPT !.mouse = IF @ = n THEN 0 ELSE @]
      [] n \in Encodings -> [t EXCEPT !.encoding = IF @ = n THEN 0 ELSE @]

osc(t, n, s) ==
    [t EXCEPT !.icon = IF n \in {0, 1} THEN s ELSE @, !.title = IF n \in {0, 2} THEN s ELSE @]

(* A reset keeps the titles and the counts of the bells.                   *)
ris(t) ==
    [NewTerminal EXCEPT !.title = t.title, !.icon = t.icon, !.bells = t.bells,
                        !.flashes = t.flashes]

Perform(t, k) ==
    CASE k.op = "sgr" -> [t EXCEPT !.pen = Sgr(@, k.params)]
      [] k.op = "draw" -> [t EXCEPT !.cell = t.pen]
      [] k.op = "decset" -> decset(t, k.n)
      [] k.op = "decrst" -> decrst(t, k.n)
      [] k.op = "deckpam" -> Switched(t, "keypad", TRUE)
      [] k.op = "deckpnm" -> Switched(t, "keypad", FALSE)
      [] k.op = "osc" -> osc(t, k.n, k.s)
      [] k.op = "bel" -> [t EXCEPT !.bells = @ + 1]
      [] k.op = "vb" -> [t EXCEPT !.flashes = @ + 1]
      [] k.op = "ris" -> ris(t)

Show(t, tokens) == FoldLeft(Perform, t, tokens)

-----------------------------------------------------------------------------
(* What is written for another terminal *)

HideCursor(t) == <<Mode(25, "hide" \notin t.on)>>

MouseDiff(n, old) ==
    CASE n = old -> <<>> [] n # old /\ n = 0 -> <<Mode(old, FALSE)>> [] OTHER -> <<Mode(n, TRUE)>>

contents_formatted(t) ==
    HideCursor(t) \o <<ClearAttrs>> \o SgrDiff(t.cell, DefaultPen) \o <<Draw>>
    \o SgrDiff(t.pen, t.cell)

contents_diff(t, old) ==
    (IF ("hide" \in t.on) = ("hide" \in old.on) THEN <<>> ELSE HideCursor(t))
    \o (IF t.cell = old.cell THEN SgrDiff(t.pen, old.pen)
        ELSE SgrDiff(t.cell, old.pen) \o <<Draw>> \o SgrDiff(t.pen, t.cell))

OnlyTurnsOn(t) ==  \* mutant: a mode that is off is not written, as for the mouse modes
    (IF "keypad" \in t.on THEN <<Keypad(TRUE)>> ELSE <<>>)
    \o (IF "paste" \in t.on THEN <<Mode(2004, TRUE)>> ELSE <<>>)
    \o MouseDiff(t.mouse, 0) \o MouseDiff(t.encoding, 0)

input_mode_formatted(t) ==
    <<Keypad("keypad" \in t.on), Mode(1, "cursor" \in t.on), Mode(2004, "paste" \in t.on)>>
    \o MouseDiff(t.mouse, 0) \o MouseDiff(t.encoding, 0)

input_mode_diff(t, old) ==
    LET Changed(mode, token) ==
            IF (mode \in t.on) = (mode \in old.on) THEN <<>> ELSE <<token>>
    IN  Changed("keypad", Keypad("keypad" \in t.on))
        \o Changed("cursor", Mode(1, "cursor" \in t.on))
        \o Changed("paste", Mode(2004, "paste" \in t.on))
        \o MouseDiff(t.mouse, old.mouse) \o MouseDiff(t.encoding, old.encoding)

title_diff(t, old) ==
    IF t.icon = t.title /\ <<t.icon, t.title>> # <<old.icon, old.title>> THEN <<Osc(0, t.icon)>>
    ELSE (IF t.icon = old.icon THEN <<>> ELSE <<Osc(1, t.icon)>>)
         \o (IF t.title = old.title THEN <<>> ELSE <<Osc(2, t.title)>>)

bells_diff(t, old) ==
    (IF t.bells = old.bells THEN <<>> ELSE <<[op |-> "bel"]>>)
    \o (IF t.flashes = old.flashes THEN <<>> ELSE <<[op |-> "vb"]>>)

state_diff(t, old) ==
    contents_diff(t, old) \o input_mode_diff(t, old) \o title_diff(t, old) \o bells_diff(t, old)

-----------------------------------------------------------------------------
(* The program, the browser and the copy *)

Init ==
    /\ screen = NewTerminal /\ browser = NewTerminal
    /\ prev = NewTerminal /\ copy = NewTerminal
    /\ tracking = TRUE /\ unhandled = 0 /\ reported = 0 /\ sent = 0
    /\ steps = 0

Count == steps < MaxSteps /\ steps' = steps + 1

(* n of the sequences sent are not understood.                             *)
Collect(n) ==
    /\ sent' = sent + n
    /\ unhandled' = IF tracking THEN unhandled + n ELSE unhandled

Do(token, n) ==
    /\ Count /\ screen' = Perform(screen, token) /\ Collect(n)
    /\ UNCHANGED <<browser, prev, copy, tracking, reported>>

DrawCell == Do(Draw, 0)
SelectRendition ==
    \E ps \in Renditions :
        Do([op |-> "sgr", params |-> ps], SgrRead(screen.pen, ps).unhandled)
PrivateMode == \E n \in DecModes, set \in BOOLEAN : Do(Mode(n, set), 0)
KeypadMode == \E set \in BOOLEAN : Do(Keypad(set), 0)
SetTitle == \E n \in 0 .. 2, s \in Titles : Do(Osc(n, s), 0)
Ring == \E op \in {"bel", "vb"} : Do([op |-> op], 0)

(* An unknown control character, escape, CSI, OSC or DCS sequence.         *)
Unknown ==
    Count /\ Collect(1) /\ UNCHANGED <<screen, browser, prev, copy, tracking, reported>>

(* RIS starts with a new screen, one that collects nothing.                *)
Reset ==
    /\ Count /\ screen' = ris(screen)
    /\ tracking' = FALSE /\ unhandled' = 0
    /\ UNCHANGED <<browser, prev, copy, reported, sent>>

(* The publisher's snapshot is shown by the browser.                       *)
Push ==
    /\ browser' = Show(browser, contents_formatted(screen) \o input_mode_formatted(screen))
    /\ UNCHANGED <<screen, prev, copy, tracking, unhandled, reported, sent, steps>>

Snapshot ==
    /\ prev # screen
    /\ copy' = Show(copy, state_diff(screen, prev)) /\ prev' = screen
    /\ UNCHANGED <<screen, browser, tracking, unhandled, reported, sent, steps>>

(* collect_report, after each recorded output.                             *)
TakeUnhandled ==
    /\ tracking /\ unhandled > 0
    /\ reported' = reported + unhandled /\ unhandled' = 0
    /\ UNCHANGED <<screen, browser, prev, copy, tracking, sent, steps>>

Next ==
    \/ DrawCell \/ SelectRendition \/ PrivateMode \/ KeypadMode \/ SetTitle \/ Ring
    \/ Unknown \/ Reset \/ Push \/ Snapshot \/ TakeUnhandled

Spec == Init /\ [][Next]_vars

-----------------------------------------------------------------------------
(* Properties *)

(* While sequences are collected, each that was not understood is reported *)
(* once or waits to be.                                                    *)
ReportsOnce == tracking => reported + unhandled = sent

(* Every sequence that is not understood is reported, as `tttt diag' says. *)
(* TLC refutes this, see the README.                                       *)
ReportsAll == reported + unhandled = sent

InputModes(t) == <<t.on \ {"sync"}, t.mouse, t.encoding>>

(* However often and whenever it is sent to, a browser's terminal draws    *)
(* with the session's colours, hides the cursor and encodes keys and       *)
(* pastes as the session wants, and reports the mouse in the way it asked  *)
(* for, if it did: nothing of an earlier screen is left behind.            *)
BrowserFollows ==
    [][Push => /\ ~LosesIntensity(screen.pen, screen.cell)
                  => <<browser'.pen, browser'.cell>> = <<screen.pen, screen.cell>>
               /\ browser'.on = screen.on \ {"sync"}
               /\ screen.mouse # 0 => browser'.mouse = screen.mouse
               /\ screen.encoding # 0 => browser'.encoding = screen.encoding]_vars

(* input_mode_formatted is sufficient to set a terminal's input modes.     *)
(* TLC refutes this, see the README.                                       *)
BrowserHasModes == [][Push => InputModes(browser') = InputModes(screen)]_vars

Agrees(t, s) == /\ <<t.pen, t.cell, t.title, t.icon>> = <<s.pen, s.cell, s.title, s.icon>>
                /\ InputModes(t) = InputModes(s)

(* A copy that is sent the difference of each snapshot has the pen, the    *)
(* cell, the modes and the titles of the last one, and rings when the      *)
(* session rang, whatever was changed and changed back in between.         *)
CopyFollows ==
    [][Snapshot /\ Agrees(copy, prev)
       /\ ~LosesIntensity(screen.pen, prev.pen) /\ ~LosesIntensity(screen.cell, prev.pen)
       /\ ~LosesIntensity(screen.pen, screen.cell)
       => /\ Agrees(copy', screen)
          /\ (copy'.bells # copy.bells) = (screen.bells # prev.bells)
          /\ (copy'.flashes # copy.flashes) = (screen.flashes # prev.flashes)]_vars
=============================================================================
