------------------------------ MODULE Vt100Pen ------------------------------
(***************************************************************************)
(* Drawing attributes of the vt100 crate.  A pen is a record of a          *)
(* foreground, a background and the set of the text modes that are on; a   *)
(* colour is <<>> (the default), <<i>> (an index) or <<r, g, b>>.  Sgr is  *)
(* what a terminal makes of a "select graphic rendition" sequence, SgrDiff *)
(* what the other direction writes to get from one pen to another.         *)
(***************************************************************************)
EXTENDS Naturals, Sequences, SequencesExt

DefaultPen == [fg |-> <<>>, bg |-> <<>>, text |-> {}]

(* The text modes, in the order in which they are written.                 *)
TextModes == <<"bold", "italic", "underline", "inverse", "dim", "strikethrough">>
TextCode == [bold |-> 1, dim |-> 2, italic |-> 3, underline |-> 4, inverse |-> 7,
             strikethrough |-> 9]
OffCode(t) == IF t = "bold" THEN 22 ELSE 20 + TextCode[t]

TurnedOn(pen, n) ==
    [pen EXCEPT !.text = @ \cup {t \in DOMAIN TextCode : TextCode[t] = n}]
TurnedOff(pen, n) ==
    [pen EXCEPT !.text = @ \ {t \in DOMAIN TextCode : OffCode(t) = n}]

-----------------------------------------------------------------------------
(* Reading *)

KnownCodes == {TextCode[t] : t \in DOMAIN TextCode} \cup {OffCode(t) : t \in DOMAIN TextCode}
              \cup {0} \cup 30 .. 37 \cup {39} \cup 40 .. 47 \cup {49} \cup 90 .. 97 \cup 100 .. 107

(* One parameter that stands for itself.                                   *)
Plain(pen, n) ==
    CASE n = 0 -> DefaultPen
      [] n \in 1 .. 9 -> TurnedOn(pen, n)
      [] n \in 22 .. 29 -> TurnedOff(pen, n)
      [] n = 39 -> [pen EXCEPT !.fg = <<>>]
      [] n = 49 -> [pen EXCEPT !.bg = <<>>]
      [] n \in 30 .. 37 -> [pen EXCEPT !.fg = <<n - 30>>]
      [] n \in 40 .. 47 -> [pen EXCEPT !.bg = <<n - 40>>]
      [] n \in 90 .. 97 -> [pen EXCEPT !.fg = <<n - 82>>]
      [] n \in 100 .. 107 -> [pen EXCEPT !.bg = <<n - 92>>]

(* 38 and 48 are followed by 5 and an index, or by 2 and three values; e   *)
(* is what has been read of such a colour so far.                          *)
StartsColour(e) == e[1] \in {38, 48}
IsWhole(e) == Len(e) > 2 /\ <<e[2], Len(e)>> \in {<<5, 3>>, <<2, 5>>}
InByte(e) == \A i \in 3 .. Len(e) : e[i] < 256
Coloured(pen, e) ==
    IF e[1] = 38 THEN [pen EXCEPT !.fg = SubSeq(e, 3, Len(e))]
    ELSE [pen EXCEPT !.bg = SubSeq(e, 3, Len(e))]

Reader(pen) == [pen |-> pen, colour |-> <<>>, stop |-> FALSE, unhandled |-> 0]
Stop(st) == [st EXCEPT !.stop = TRUE]
NotHandled(st) == [st EXCEPT !.unhandled = @ + 1]

(* The next parameter belongs to a colour that has been begun.             *)
ReadColour(st, p) ==
    LET e == st.colour \o p
    IN  CASE Len(st.colour) = 1 /\ p \notin {<<2>>, <<5>>} -> Stop(NotHandled(st))
          [] Len(p) # 1 \/ ~InByte(e) -> Stop(st)
          [] IsWhole(e) -> [st EXCEPT !.pen = Coloured(@, e), !.colour = <<>>]
          [] OTHER -> [st EXCEPT !.colour = e]

ReadParam(st, p) ==
    CASE st.stop -> st
      [] st.colour # <<>> -> ReadColour(st, p)
      [] Len(p) = 1 /\ StartsColour(p) -> [st EXCEPT !.colour = p]
      [] Len(p) = 1 /\ p[1] \in KnownCodes -> [st EXCEPT !.pen = Plain(@, p[1])]
      [] StartsColour(p) /\ IsWhole(p) ->
            IF InByte(p) THEN [st EXCEPT !.pen = Coloured(@, p)] ELSE Stop(st)
      [] OTHER -> NotHandled(st)

(* A sequence of parameters, each with its subparameters.                  *)
SgrRead(pen, params) ==
    IF params = <<>> THEN Reader(DefaultPen) ELSE FoldLeft(ReadParam, Reader(pen), params)
Sgr(pen, params) == SgrRead(pen, params).pen

-----------------------------------------------------------------------------
(* Writing *)

ColourAsIndex(c, base) ==  \* mutant: bright colours are written as the plain ones
    IF c = <<>> THEN <<base + 9>> ELSE IF Len(c) = 1 THEN <<base + (c[1] % 8)>>
    ELSE <<base + 8, 2>> \o c

ColourParams(c, base) ==
    CASE c = <<>> -> <<base + 9>>
      [] Len(c) = 3 -> <<base + 8, 2>> \o c
      [] Len(c) = 1 /\ c[1] < 8 -> <<base + c[1]>>
      [] Len(c) = 1 /\ c[1] \in 8 .. 15 -> <<base + 52 + c[1]>>
      [] OTHER -> <<base + 8, 5>> \o c

TextParams(new, old) ==
    LET Param(t) == IF (t \in new.text) = (t \in old.text) THEN <<>>
                    ELSE <<IF t \in new.text THEN TextCode[t] ELSE OffCode(t)>>
    IN  FlattenSeq([i \in DOMAIN TextModes |-> Param(TextModes[i])])

(* write_escape_code_diff: nothing, or one sequence.                       *)
SgrDiff(new, old) ==
    LET params == (IF new.fg = old.fg THEN <<>> ELSE ColourParams(new.fg, 30))
                  \o (IF new.bg = old.bg THEN <<>> ELSE ColourParams(new.bg, 40))
                  \o TextParams(new, old)
        sgr(ps) == [op |-> "sgr", params |-> ps]
    IN  CASE new = old -> <<>>
          [] new # old /\ new = DefaultPen -> <<sgr(<<>>)>>
          [] OTHER -> <<sgr([i \in DOMAIN params |-> <<params[i]>>])>>

(* SGR 22 turns bold and dim off together: a difference that writes it for *)
(* one of them takes the other along, unless it is written after it.       *)
LosesIntensity(new, old) ==
    \/ "dim" \in old.text \ new.text /\ "bold" \in new.text
    \/ "bold" \in old.text \ new.text /\ "dim" \in new.text \cap old.text
=============================================================================
