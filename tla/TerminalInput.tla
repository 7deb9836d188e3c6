---------------------------- MODULE TerminalInput ----------------------------
(***************************************************************************)
(* The keyboard.  The terminal delivers what the user does as tokens, each *)
(* a few bytes: a key, a mouse report, the markers around a paste.  The    *)
(* program sees none of that: it reads as many bytes as happen to be there *)
(* and has to find the tokens again.  tttt itself does so with InputParser *)
(* (mouse reports, the prefix key, four quick Ctrl+C) and acts on what it  *)
(* finds; an attached client only looks for the key that detaches and must *)
(* not see one in pasted text.                                             *)
(*                                                                         *)
(* A byte is a string: "ESC", "[", "<", "2", "0", "1", "~", "M", "FS" (the *)
(* prefix key), "^C", letters; "P" is the well-formed parameters of a      *)
(* mouse report, "?" a command that leaves the active session as it is.    *)
(***************************************************************************)
EXTENDS Integers, Sequences, FiniteSets, SequencesExt

CONSTANTS
    LocalToken,    \* what the terminal of tttt may send
    AttachToken,   \* what the terminal of an attached client may send
    Sessions,      \* length of session_order
    Window,        \* the span of a burst of Ctrl+C, in ticks
    MaxTokens,     \* bound: tokens typed
    MaxTime,       \* bound: ticks
    None

\* What the constants must be; the module that instantiates this one assumes it.
ConstantsOk ==
    /\ \A t \in LocalToken \cup AttachToken : t \in Seq(STRING) /\ t # <<>>
    /\ Sessions \in 1..10
    /\ {Window, MaxTokens, MaxTime} \subseteq Nat

VARIABLES
    program,    \* who reads the keyboard: "tttt" or "attach"
    typed,      \* the tokens sent so far
    taken,      \* how many of their bytes were read
    cut,        \* a read ended inside the introducer of a mouse report
    now,
    parser,     \* InputParser: the armed prefix, mouse_buf, the Ctrl+C tracker
    app,        \* what tttt did: where keys go, what was delivered, why it ended
    pressedAt,  \* when Ctrl+C was pressed
    paste,      \* PasteMode of the attached client
    client      \* what the client did: keys sent on, whether it detached

localVars == <<parser, app, pressedAt>>
attachVars == <<paste, client>>
vars == <<program, typed, taken, cut, now, localVars, attachVars>>

Bytes == FlattenSeq(typed)
Unread == SubSeq(Bytes, taken + 1, Len(Bytes))
Introducer == <<"ESC", "[", "<">>
Digit(b) == CASE b = "0" -> 0 [] b = "1" -> 1 [] b = "2" -> 2 [] OTHER -> None

FreshParser == [armed |-> FALSE, held |-> <<>>,
                stamps |-> [i \in 0..3 |-> None], head |-> 0]
FreshApp == [active |-> 0, log |-> <<>>, hints |-> 0, ended |-> None]

Init ==
    /\ program \in {"tttt", "attach"}
    /\ typed = <<>>
    /\ taken = 0
    /\ cut = FALSE
    /\ now = 0
    /\ parser = FreshParser
    /\ app = FreshApp
    /\ pressedAt = <<>>
    /\ paste = [inside |-> FALSE, seen |-> 0]
    /\ client = [sent |-> <<>>, detached |-> FALSE]

-----------------------------------------------------------------------------
(* What the bytes of one read, behind those held back, are made of. *)

Starts(bytes, i) == IsPrefix(Introducer, SubSeq(bytes, i, Len(bytes)))
Terminators(bytes, i) == {j \in i + 3..Len(bytes) : bytes[j] = "M"}
Terminator(bytes, i) ==
    CHOOSE j \in Terminators(bytes, i) : \A k \in Terminators(bytes, i) : j <= k
parse_sgr_mouse(bytes, i) ==
    /\ Terminators(bytes, i) # {}
    /\ SubSeq(bytes, i + 3, Terminator(bytes, i) - 1) = <<"P">>

(* The items are bytes and mouse events; an unfinished report is held back. *)
Scan(bytes) ==
    LET from[i \in 1..Len(bytes) + 1] ==
            IF i > Len(bytes)
            THEN [items |-> <<>>, held |-> <<>>]
            ELSE IF ~Starts(bytes, i)
            THEN [from[i + 1] EXCEPT !.items = <<bytes[i]>> \o @]
            ELSE IF parse_sgr_mouse(bytes, i)
            THEN [from[Terminator(bytes, i) + 1] EXCEPT !.items = <<"mouse">> \o @]
            ELSE IF Terminators(bytes, i) = {}
            THEN [items |-> <<>>, held |-> SubSeq(bytes, i, Len(bytes))]
            ELSE [from[i + 1] EXCEPT !.items = <<bytes[i]>> \o @]
    IN from[1]

(* CtrlCTracker::record: a ring of four times. *)
Record(p, t) ==
    [p EXCEPT !.stamps[p.head] = t, !.head = (p.head + 1) % 4]
Burst(p) ==
    /\ \A i \in 0..3 : p.stamps[i] # None
    /\ \A i, j \in 0..3 : p.stamps[i] - p.stamps[j] <= Window

Deliver(a, item) == [a EXCEPT !.log = Append(@, <<a.active, item>>)]
Switch(a, n) == IF n < Sessions THEN [a EXCEPT !.active = n] ELSE a

(* The key after the prefix; an unknown one is discarded. *)
Command(a, b) ==
    CASE Digit(b) # None -> Switch(a, Digit(b))
      [] b = "n" -> [a EXCEPT !.active = (@ + 1) % Sessions]
      [] b = "p" -> [a EXCEPT !.active = (@ + Sessions - 1) % Sessions]
      [] b = "d" -> [a EXCEPT !.ended = "detach"]
      [] b = "r" -> [a EXCEPT !.ended = "reload"]
      [] b = "?" -> Deliver(a, "help")
      [] b = "FS" -> Deliver(a, "FS")
      [] OTHER -> a

(* process_raw_bytes and handle_input_event, for one item. *)
Handle(s, item) ==
    IF item = "mouse"
    THEN [s EXCEPT !.app = Deliver(@, "mouse")]
    ELSE IF s.parser.armed
    THEN [s EXCEPT !.parser.armed = FALSE, !.app = Command(@, item)]
    ELSE IF item = "FS"
    THEN [s EXCEPT !.parser.armed = TRUE]
    ELSE IF item = "^C"
    THEN LET p == Record(s.parser, now)
         IN [s EXCEPT !.parser = p,
                      !.pressedAt = Append(@, now),
                      !.app = [Deliver(@, item) EXCEPT
                                   !.hints = IF Burst(p) THEN @ + 1 ELSE @]]
    ELSE [s EXCEPT !.app = Deliver(@, item)]

(* The events behind one that ends the loop are dropped. *)
Obey(s, item) == IF s.app.ended = None THEN Handle(s, item) ELSE s

(* Mutant: the bytes held back are forgotten at the next read. *)
ForgetsHeld(bytes) ==
    LET scan == Scan(bytes)
    IN FoldLeft(Obey,
                [parser |-> [parser EXCEPT !.held = scan.held],
                 app |-> app, pressedAt |-> pressedAt],
                scan.items)

process(bytes) ==
    LET scan == Scan(parser.held \o bytes)
    IN FoldLeft(Obey,
                [parser |-> [parser EXCEPT !.held = scan.held],
                 app |-> app, pressedAt |-> pressedAt],
                scan.items)

(* A read that ends behind ESC or ESC [ of a mouse report. *)
CutsIntroducer(bytes, rest) ==
    \E k \in 1..2 : /\ k <= Len(bytes)
                    /\ SubSeq(bytes, Len(bytes) - k + 1, Len(bytes)) = SubSeq(Introducer, 1, k)
                    /\ IsPrefix(SubSeq(Introducer, k + 1, 3), rest)

-----------------------------------------------------------------------------
(* The paste markers: seen counts the bytes of the marker that ends the    *)
(* present state.  The "~" of the opening one is already pasted text.      *)

Marker(inside) == IF inside THEN <<"ESC", "[", "2", "0", "1", "~">>
                            ELSE <<"ESC", "[", "2", "0", "0">>

(* A mutant of PasteByte: a byte that is not of the marker changes nothing. *)
SkipsOthers(mode, b) ==
    LET marker == Marker(mode.inside)
    IN IF b # marker[mode.seen + 1] THEN mode
       ELSE IF mode.seen + 1 < Len(marker) THEN [mode EXCEPT !.seen = @ + 1]
       ELSE [inside |-> ~mode.inside, seen |-> 0]

PasteByte(mode, b) ==
    LET marker == Marker(mode.inside)
    IN IF b # marker[mode.seen + 1] THEN [mode EXCEPT !.seen = 0]
       ELSE IF mode.seen + 1 < Len(marker) THEN [mode EXCEPT !.seen = @ + 1]
       ELSE [inside |-> ~mode.inside, seen |-> 0]

process_paste_bytes(mode, bytes) ==
    FoldLeft(LAMBDA s, b :
                 [mode |-> PasteByte(s.mode, b),
                  detach |-> s.detach \/ (b = "FS" /\ ~s.mode.inside /\ s.mode.seen = 0)],
             [mode |-> mode, detach |-> FALSE], bytes)

-----------------------------------------------------------------------------
Type(token) ==
    /\ Len(typed) < MaxTokens
    /\ token \in (IF program = "tttt" THEN LocalToken ELSE AttachToken)
    /\ typed' = Append(typed, token)
    /\ UNCHANGED <<program, taken, cut, now, localVars, attachVars>>

Pass ==
    /\ program = "tttt"
    /\ now < MaxTime
    /\ now' = now + 1
    /\ UNCHANGED <<program, typed, taken, cut, localVars, attachVars>>

(* One read of tttt: n of the bytes that are there. *)
ReadLocal(n) ==
    /\ program = "tttt"
    /\ app.ended = None
    /\ LET bytes == SubSeq(Unread, 1, n)
           s == process(bytes)
       IN /\ parser' = s.parser
          /\ app' = s.app
          /\ pressedAt' = s.pressedAt
          /\ cut' = (cut \/ CutsIntroducer(parser.held \o bytes,
                                           SubSeq(Unread, n + 1, Len(Unread))))
    /\ taken' = taken + n
    /\ UNCHANGED <<program, typed, now, attachVars>>

(* One read of the attached client: sent on, unless it detaches. *)
ReadAttach(n) ==
    /\ program = "attach"
    /\ ~client.detached
    /\ LET bytes == SubSeq(Unread, 1, n)
           s == process_paste_bytes(paste, bytes)
       IN /\ paste' = s.mode
          /\ client' = IF s.detach THEN [client EXCEPT !.detached = TRUE]
                       ELSE [client EXCEPT !.sent = @ \o bytes]
    /\ taken' = taken + n
    /\ UNCHANGED <<program, typed, cut, now, localVars>>

Next ==
    \/ \E token \in LocalToken \cup AttachToken : Type(token)
    \/ Pass
    \/ \E n \in 1..Len(Unread) : ReadLocal(n) \/ ReadAttach(n)

Spec == Init /\ [][Next]_vars

-----------------------------------------------------------------------------
(* What the tokens mean, read one by one. *)

IsReport(token) == IsPrefix(Introducer, token) /\ parse_sgr_mouse(token, 1)

Meant(s, item) ==
    IF s.app.ended # None THEN s
    ELSE IF item = "mouse" THEN [s EXCEPT !.app = Deliver(@, "mouse")]
    ELSE IF s.armed THEN [armed |-> FALSE, app |-> Command(s.app, item)]
    ELSE IF item = "FS" THEN [s EXCEPT !.armed = TRUE]
    ELSE [s EXCEPT !.app = Deliver(@, item)]

Meaning ==
    FoldLeft(LAMBDA s, token :
                 FoldLeft(Meant, s, IF IsReport(token) THEN <<"mouse">> ELSE token),
             [armed |-> FALSE, app |-> FreshApp], typed).app

(* The i-th token lies behind a paste that was opened and not closed, as   *)
(* far as the client sees the markers.                                     *)
OpensPaste == Append(Marker(FALSE), "~")
PastedBut(i, unseen) ==
    \E j \in 1..i - 1 : /\ typed[j] = OpensPaste /\ j \notin unseen
                        /\ \A k \in j + 1..i - 1 : typed[k] = Marker(TRUE) => k \in unseen

DetachesBut(unseen) ==
    \E i \in 1..Len(typed) \ unseen :
        /\ typed[i] = <<"FS">>
        /\ Len(FlattenSeq(SubSeq(typed, 1, i))) <= taken
        /\ ~PastedBut(i, unseen)

(* A lone ESC, typed or pasted, takes the first byte of what follows with  *)
(* it, of a second ESC too.                                                *)
BehindEscape ==
    {i \in 2..Len(typed) :
        \E k \in 1..i - 1 : /\ \A j \in k..i - 1 : typed[j] = <<"ESC">>
                            /\ k = 1 \/ typed[k - 1] # <<"ESC">>
                            /\ (i - k) % 2 = 1}

(* The parser and the tracker hold what their types say (input.rs:212-231). *)
TypeOK ==
    /\ program \in {"tttt", "attach"}
    /\ typed \in Seq(LocalToken \cup AttachToken)
    /\ taken \in 0..Len(Bytes)
    /\ cut \in BOOLEAN
    /\ now \in 0..MaxTime
    /\ parser.armed \in BOOLEAN
    /\ parser.held = <<>> \/ Starts(parser.held, 1)
    /\ parser.stamps \in [0..3 -> 0..MaxTime \cup {None}]
    /\ parser.head \in 0..3
    /\ app.active \in 0..Sessions - 1
    /\ app.hints \in 0..Len(pressedAt)
    /\ app.ended \in {None, "detach", "reload"}
    /\ paste.inside \in BOOLEAN
    /\ paste.seen \in 0..Len(Marker(paste.inside)) - 1
    /\ client.detached \in BOOLEAN

(* However the bytes were split over the reads, tttt did what the tokens   *)
(* say, in their order and to the session that was active when each was    *)
(* typed: mouse reports are found again, and a report between the prefix   *)
(* and its key disturbs neither (InputParser::process).  Only a split      *)
(* inside the introducer is excepted, see IntroducerKept.                  *)
UnderstoodAsTyped ==
    (program = "tttt" /\ (Unread = <<>> \/ app.ended # None) /\ ~cut) =>
        [app EXCEPT !.hints = 0] = Meaning

(* mouse_buf is to keep "incomplete mouse sequences split across read()    *)
(* calls" (input.rs:216): also when the split is inside the introducer.    *)
(* TLC refutes this, see the README.                                       *)
IntroducerKept ==
    (program = "tttt" /\ (Unread = <<>> \/ app.ended # None)) =>
        [app EXCEPT !.hints = 0] = Meaning

(* The hint comes with each Ctrl+C that is the fourth within two seconds,  *)
(* and with no other: the ring forgets old presses in the right order      *)
(* (CtrlCTracker::record).                                                 *)
HintOnFour ==
    app.hints = Cardinality({k \in 4..Len(pressedAt) :
                                 pressedAt[k] - pressedAt[k - 3] <= Window})

(* The state of the parser is in its bounds and the ring counts right.     *)
InputInv == TypeOK /\ HintOnFour

(* The client detaches on the key outside pasted text and never on one     *)
(* inside it, however the markers were split over the reads                *)
(* (process_paste_bytes, whose state lives across reads).  Excepted is     *)
(* what comes right behind a lone ESC: that key, that opening and that end *)
(* of a paste are not seen.                                                *)
DetachesOutsidePaste ==
    (program = "attach" /\ (Unread = <<>> \/ client.detached)) =>
        (client.detached <=> DetachesBut(BehindEscape))

(* "Prefix key should trigger detach" and "Prefix key in paste should NOT  *)
(* trigger detach" (attach.rs:138, 181), without the exception.  TLC       *)
(* refutes this, see the README.                                           *)
DetachesAlways ==
    (program = "attach" /\ (Unread = <<>> \/ client.detached)) =>
        (client.detached <=> DetachesBut({}))

=============================================================================
