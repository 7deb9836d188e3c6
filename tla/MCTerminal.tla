----------------------------- MODULE MCTerminal -----------------------------
(* Terminals, for TLC: instances of Vt100Screen and of Vt100Modes, what a    *)
(* session's terminal shows, and of TerminalInput, what the user's keyboard  *)
(* sends.  A behaviour is one of one of the three, as part says.             *)
EXTENDS Vt100Screen

CONSTANTS title1, title2, untitled,
          Sessions, Window, MaxTokens, MaxTime, None
VARIABLES part,
          terminal, browser, last, copy, tracking, unhandled, reported, sent, modeSteps,
          program, typed, taken, cut, now, parser, app, pressedAt, paste, client

-----------------------------------------------------------------------------
(* Pens, texts (Filled are those that fill the grid), sizes and titles     *)

PlainAndBright == {DefaultPen, [DefaultPen EXCEPT !.bg = <<12>>, !.text = {"bold"}]}
BoldOnBlue == {<<>>, <<<<1>>, <<104>>>>}
TwoSizes == {<<2, 3>>, <<3, 2>>}
FewSizes == TwoSizes \cup {<<1, 2>>, <<0, 2>>}
TinySizes == {<<2, 2>>, <<1, 2>>, <<2, 1>>}
Filled == {<<>>, <<"x", "x", "x", "x", "x", "x">>, <<"x", "w", "w", "x">>, <<"w", "x", "x", "w">>}
Colours == {<<>>, <<<<1>>>>, <<<<2>>, <<95>>>>, <<<<22>>, <<38>>, <<5>>, <<200>>>>,
            <<<<48, 2, 1, 2, 3>>, <<7>>>>, <<<<38>>, <<7>>, <<4>>>>}

M == INSTANCE Vt100Modes WITH
        Renditions <- Colours, Titles <- {title1, title2}, NoTitle <- untitled,
        screen <- terminal, prev <- last, steps <- modeSteps

-----------------------------------------------------------------------------
(* The tokens of the keyboard, as bytes                                    *)

Mouse == <<"ESC", "[", "<", "P", "M">>
NoMouse == <<"ESC", "[", "<", "x", "M">>
Arrow == <<"ESC", "[", "A">>
Opening == <<"ESC", "[", "2", "0", "0", "~">>
Closing == <<"ESC", "[", "2", "0", "1", "~">>
Local == {<<"x">>, <<"ESC">>, <<"FS">>, <<"1">>, <<"d">>, <<"^C", "^C">>, Mouse, NoMouse}
Attach == {<<"x">>, <<"ESC">>, <<"FS">>, Arrow, Opening, Closing}

K == INSTANCE TerminalInput WITH LocalToken <- Local, AttachToken <- Attach
ASSUME KeysAssumption == K!ConstantsOk

-----------------------------------------------------------------------------
modes == <<terminal, browser, last, copy, tracking, unhandled, reported, sent, modeSteps>>
keys == <<program, typed, taken, cut, now, parser, app, pressedAt, paste, client>>

MCInit == /\ Init /\ M!Init /\ K!Init /\ part \in {"cells", "modes", "keys"}
          /\ part # "cells" => screen = NewScreen(<<2, 3>>)
          /\ part # "keys" => program = "tttt"
MCNext == \/ part = "cells" /\ Next /\ UNCHANGED <<part, modes, keys>>
          \/ part = "modes" /\ M!Next /\ UNCHANGED <<part, vars, keys>>
          \/ part = "keys" /\ K!Next /\ UNCHANGED <<part, vars, modes>>
MCSpec == MCInit /\ [][MCNext]_<<part, vars, modes, keys>>

(* The grid is well formed; each sequence that is not understood is        *)
(* reported once.                                                          *)
TerminalInv == ScreenInv /\ M!ReportsOnce

(* A browser has the colours, the cursor and the input modes, see          *)
(* Vt100Modes.                                                             *)
BrowserFollows == M!BrowserFollows

(* A copy that is sent differences has the cells, the pen, the modes and   *)
(* the titles of the last snapshot.                                        *)
CopyFollows == M!CopyFollows /\ DiffShowsUnwrapped

(* The parser is in its bounds, the ring of Ctrl+C counts right, an        *)
(* attached client detaches outside a paste and only there, but for what   *)
(* is behind a lone ESC.                                                   *)
KeysInv == K!InputInv /\ K!DetachesOutsidePaste

(* Keys, mouse reports and the prefix are understood as they were typed,   *)
(* however they are cut into reads.                                        *)
UnderstoodAsTyped == K!UnderstoodAsTyped

(* The same, and the detaching without its exception.  TLC refutes these,  *)
(* see the README.                                                         *)
IntroducerKept == K!IntroducerKept
DetachesAlways == K!DetachesAlways
=============================================================================
