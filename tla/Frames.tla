------------------------------- MODULE Frames -------------------------------
(***************************************************************************)
(* What tttt's own terminal shows and what is recorded: the event loop     *)
(* reads the sessions, marks the display dirty and redraws it when the     *)
(* output pauses, while the user scrolls, selects and switches sessions,   *)
(* and tool calls read the sessions in other threads.  A session's output  *)
(* is a number of lines, chosen when it is read, as nobody sees it before; *)
(* what the user scrolls and selects (MouseSelection models it) and the    *)
(* sizes of the panes are a number too.  That a hint runs out and that the *)
(* uptime grows is seen in the next frame, and left out.                   *)
(***************************************************************************)
EXTENDS Integers, FiniteSets, FiniteSetsExt

CONSTANTS
    Session,     \* the sessions
    Root,        \* the one tttt was started with
    None,        \* no time, no session
    Debounce,    \* RENDER_DEBOUNCE_MS, and
    Latency,     \* four times as much, in units of time
    MaxLines,    \* bound on the lines all sessions print
    MaxSync,     \* bound on the beginnings of synchronised output
    MaxEvents    \* bound on the events of the user and the tool calls

\* What the constants must be; the module that instantiates this one assumes it.
ConstantsOk ==
    /\ Root \in Session /\ None \notin Session
    /\ Debounce \in Nat \ {0} /\ Latency \in Nat /\ Latency > Debounce
    /\ {MaxLines, MaxSync, MaxEvents} \subseteq Nat

VARIABLES
    total,      \* the lines each session's screen was given,
    logged,     \* how many of them were recorded
    ended,      \* the sessions whose end was noticed (their status)
    sync,       \* the sessions in synchronised output (mode 2026)
    active,     \* active_session
    pinned,     \* visible_sessions
    view,       \* scroll_offset, selection, hint and sizes: how often they changed
    dirty,      \* server_render_dirty
    first,      \* the age of first_dirty_time, and
    data,       \* that of last_pty_data_time, neither counted further than it matters
    flagged,    \* sidebar_dirty, tui_state.dirty or a changed list of sessions
    pending,    \* pending_switch
    frame,      \* what the terminal shows
    missed,     \* history: what has changed since the last frame without a mark
    pc,
    syncs, events

sessionVars == <<total, logged, sync, syncs, ended>>
timeVars == <<first, data>>
flagVars == <<flagged, pending>>
vars == <<sessionVars, active, pinned, view, dirty, timeVars, flagVars, frame, missed, pc, events>>

-----------------------------------------------------------------------------
compute_render_session_ids(a, visible) == {a} \cup visible

Blank == [active |-> None, lines |-> [s \in {} |-> 0], view |-> 0, help |-> FALSE]
Frame(a, help) ==
    [active |-> a, lines |-> [s \in compute_render_session_ids(a, pinned) |-> total[s]],
     view |-> view, help |-> help]

-----------------------------------------------------------------------------
(* Time and marks of dirt *)

Aged(age, most) == IF age \in {None, most} THEN age ELSE age + 1

MarkOutput ==
    /\ dirty' = TRUE
    /\ first' = IF dirty THEN first ELSE 0
    /\ data' = 0

OnlyAtLimit == dirty /\ first # None /\ first >= Latency  \* mutant: only at the limit

should_render_now ==
    /\ dirty
    /\ \/ data = None \/ data >= Debounce
       \/ first # None /\ first >= Latency

-----------------------------------------------------------------------------
Init ==
    /\ total = [s \in Session |-> 0]
    /\ logged = [s \in Session |-> 0] /\ sync = {} /\ syncs = 0 /\ ended = {}
    /\ active = Root /\ pinned = {}
    /\ view = 0
    /\ dirty = FALSE /\ first = None /\ data = None
    /\ flagged = FALSE /\ pending = None
    /\ frame = Frame(active, FALSE) /\ missed = {}
    /\ pc = "poll" /\ events = 0

-----------------------------------------------------------------------------
(* The programs in the sessions and the threads of the tool calls *)

Printed == MapThenSumSet(LAMBDA s : total[s], Session)

(* PtySession::pump_raw: what a session printed goes to its screen, the    *)
(* beginning or the end of a synchronised update included; some output     *)
(* leaves the screen as it was.  Then the end of the session is noticed.   *)
Pump(s, n, on) ==
    /\ s \notin ended
    /\ Printed + n <= MaxLines
    /\ total' = [total EXCEPT ![s] = @ + n]
    /\ sync' = IF on THEN sync \cup {s} ELSE sync \ {s}
    /\ syncs' = (IF on /\ s \notin sync THEN syncs + 1 ELSE syncs) /\ syncs' <= MaxSync
    /\ ended' \in {ended, ended \cup {s}}

(* The status is part of the list of sessions, which a change of marks.    *)
Noticed == ended' # ended

(* The event loop records what it pumps.                                   *)
PumpLogged(s, n, on) == Pump(s, n, on) /\ logged' = [logged EXCEPT ![s] = @ + n]

Request == events < MaxEvents /\ events' = events + 1

Changes(s, n, on) == n > 0 \/ on # (s \in sync)

(* PtySession::pump in a tool call.                                        *)
ToolReads(s, n, on) ==
    /\ Request
    /\ Pump(s, n, on) /\ UNCHANGED logged
    /\ missed' = IF s \in compute_render_session_ids(active, pinned) /\ Changes(s, n, on)
                 THEN missed \cup {"read"} ELSE missed
    /\ flagged' = (flagged \/ Noticed)
    /\ UNCHANGED <<active, pinned, view, dirty, timeVars, pending, frame, pc>>

(* A sidebar message, a highlight, a renamed session.                      *)
Flag ==
    /\ Request /\ ~flagged /\ flagged' = TRUE
    /\ UNCHANGED <<sessionVars, active, pinned, view, dirty, timeVars, pending>>
    /\ UNCHANGED <<frame, missed, pc>>

TuiSwitch(s) ==
    /\ Request /\ pending' = s /\ flagged' = TRUE
    /\ UNCHANGED <<sessionVars, active, pinned, view, dirty, timeVars, frame, missed, pc>>

-----------------------------------------------------------------------------
(* render_frame, as its callers use it *)

(* Mutant: the mark is taken away although nothing is drawn.               *)
ClearsMark(help) ==
    /\ dirty' = FALSE /\ first' = None
    /\ IF active \in sync THEN UNCHANGED <<frame, missed>>
       ELSE frame' = Frame(active, help) /\ missed' = {}

(* In synchronised output nothing is drawn and the mark stays.             *)
RenderAndMark(help) ==
    IF active \in sync THEN UNCHANGED <<frame, missed, dirty, first>>
    ELSE frame' = Frame(active, help) /\ missed' = {} /\ dirty' = FALSE /\ first' = None

(* A call that leaves the mark alone, after a change in the variables a    *)
(* frame is made of.                                                       *)
RenderOnly(help) ==
    IF active \in sync THEN UNCHANGED <<frame, missed>>
    ELSE frame' = Frame(active, help)' /\ missed' = {}

(* The terminal is cleared first.                                          *)
ClearAndRender == frame' = IF active \in sync THEN Blank ELSE Frame(active, FALSE)'

-----------------------------------------------------------------------------
(* The event loop: poll, the user's input, the active session, a frame,    *)
(* the other sessions                                                      *)

Poll(passes) ==
    /\ pc = "poll" /\ pc' = "input"
    /\ IF passes THEN /\ first' = Aged(first, Latency) /\ data' = Aged(data, Debounce)
       ELSE UNCHANGED timeVars
    /\ UNCHANGED <<sessionVars, active, pinned, view, dirty, flagVars, frame, missed, events>>

(* SIGWINCH: a size that is new changes the sizes of the sessions, which   *)
(* are part of their list.                                                 *)
HandleResize(changed) ==
    /\ pc = "input" /\ Request
    /\ view' = IF changed THEN view + 1 ELSE view
    /\ flagged' = (flagged \/ changed)
    /\ UNCHANGED <<sessionVars, active, pinned, dirty, timeVars, pending, pc>>
    /\ ClearAndRender
    /\ missed' = IF active \in sync THEN missed ELSE {}

NoInput ==
    /\ pc = "input" /\ pc' = "read"
    /\ UNCHANGED <<sessionVars, active, pinned, view, dirty, timeVars, flagVars>>
    /\ UNCHANGED <<frame, missed, events>>

(* handle_input_event, for an event that changes what is shown.            *)
User == pc = "input" /\ pc' = "read" /\ Request /\ UNCHANGED <<sessionVars, flagVars>>
UserMarks == User /\ dirty' = TRUE /\ UNCHANGED <<first, data, frame, missed>>

(* switch_to_session draws at once if it can.                              *)
Switch(s) ==
    /\ User
    /\ active' = s
    /\ IF s \in sync
       THEN /\ dirty' = TRUE /\ first' = (IF first = None THEN 0 ELSE first)
            /\ UNCHANGED <<frame, missed>>
       ELSE /\ dirty' = FALSE /\ first' = None /\ missed' = {}
            /\ frame' = Frame(s, FALSE)
    /\ UNCHANGED <<pinned, view, data>>

TogglePin(s) ==
    /\ UserMarks
    /\ pinned' = IF s \in pinned THEN pinned \ {s} ELSE pinned \cup {s}
    /\ UNCHANGED <<active, view>>

(* The hint, the wheel and the mouse.                                      *)
ChangeView == UserMarks /\ view' = view + 1 /\ UNCHANGED <<active, pinned>>

(* The display is cleared and drawn again; the mark stays.                 *)
force_redraw ==
    /\ User
    /\ dirty' = TRUE
    /\ UNCHANGED <<active, pinned, view, timeVars>>
    /\ ClearAndRender
    /\ missed' = IF active \in sync THEN missed ELSE {}

(* toggle_web stops the console, or starts it at the end of its dialog:    *)
(* text goes to the root session's screen, and a frame is drawn.           *)
inject_root_text ==
    /\ Printed < MaxLines
    /\ total' = [total EXCEPT ![Root] = @ + 1] /\ UNCHANGED <<logged, sync, syncs, ended>>
    /\ dirty' = TRUE
toggle_web ==
    /\ pc \in {"input", "help"} /\ pc' = "read" /\ Request
    /\ inject_root_text
    /\ UNCHANGED <<active, pinned, view, timeVars, flagVars>>
    /\ RenderOnly(FALSE)

(* The loop waits inside show_help for any key, and inside toggle_web for  *)
(* the keys of its dialog.                                                 *)
show_help ==
    /\ pc = "input" /\ pc' = "help" /\ Request
    /\ UNCHANGED <<sessionVars, active, pinned, view, dirty, timeVars, flagVars>>
    /\ RenderOnly(TRUE)

Dismiss ==
    /\ pc = "help" /\ pc' = "read"
    /\ UNCHANGED <<sessionVars, active, pinned, view, dirty, timeVars, flagVars, events>>
    /\ RenderOnly(FALSE)

(* The active session is read, then the flags are.                         *)
ReadFlags(read) ==
    LET marked == flagged \/ Noticed
        since == IF read /\ ~dirty THEN 0 ELSE first
    IN  /\ pc = "read" /\ pc' = "render"
        /\ data' = IF read THEN 0 ELSE data
        /\ dirty' = (dirty \/ read \/ marked)
        /\ first' = IF marked /\ since = None THEN 0 ELSE since
        /\ active' = IF flagged /\ pending # None THEN pending ELSE active
        /\ pending' = (IF flagged THEN None ELSE pending) /\ flagged' = FALSE
        /\ UNCHANGED <<pinned, view, frame, missed, events>>

ReadActive(n, on) == PumpLogged(active, n, on) /\ ReadFlags(TRUE)
NothingRead ==
    /\ ended' \in {ended, ended \cup {active}} /\ UNCHANGED <<total, logged, sync, syncs>>
    /\ ReadFlags(FALSE)

Render ==
    /\ pc = "render" /\ pc' = "rest"
    /\ IF should_render_now THEN RenderAndMark(FALSE)
       ELSE UNCHANGED <<frame, missed, dirty, first>>
    /\ UNCHANGED <<sessionVars, active, pinned, view, data, flagVars, events>>

(* resize_pty_to_min_and_redraw, for a viewer that came, was resized or    *)
(* left; a single pane is drawn if its size has changed.                   *)
ViewerResizes(changed) ==
    /\ pc = "rest" /\ Request
    /\ view' = IF changed THEN view + 1 ELSE view
    /\ flagged' = (flagged \/ changed)
    /\ UNCHANGED <<sessionVars, active, pinned, dirty, timeVars, pending, pc>>
    /\ IF changed \/ pinned # {} THEN RenderOnly(FALSE) ELSE UNCHANGED <<frame, missed>>

(* The sessions that are not active are read; output of one that is shown  *)
(* marks the display.                                                      *)
PumpOther(s, n, on) ==
    /\ pc = "rest" /\ s # active
    /\ PumpLogged(s, n, on)
    /\ IF s \in pinned THEN MarkOutput ELSE UNCHANGED <<dirty, first, data>>
    /\ flagged' = (flagged \/ Noticed)
    /\ UNCHANGED <<active, pinned, view, pending, frame, missed, pc, events>>

(* drain_web_status.                                                       *)
DrainWebStatus ==
    /\ pc = "rest" /\ Request
    /\ inject_root_text
    /\ UNCHANGED <<active, pinned, view, timeVars, flagVars, frame, missed, pc>>

(* check_session_exit, at the end of a round: the loop goes on with a      *)
(* session that runs, and marks nothing; it ends if there is none.         *)
CheckSessionExit ==
    /\ pc = "rest"
    /\ \/ active \notin ended /\ pc' = "poll" /\ UNCHANGED <<active, missed>>
       \/ /\ active \in ended /\ active' \in Session \ ended /\ pc' = "poll"
          /\ missed' = missed \cup {"ended"}
       \/ Session = ended /\ pc' = "end" /\ UNCHANGED <<active, missed>>
    /\ UNCHANGED <<sessionVars, pinned, view, dirty, timeVars, flagVars, frame, events>>

-----------------------------------------------------------------------------
Loop == NoInput \/ Dismiss \/ NothingRead \/ Render \/ CheckSessionExit

ReadsActive == NothingRead \/ \E n \in 0 .. MaxLines, on \in BOOLEAN : ReadActive(n, on)

Read == \E n \in 0 .. MaxLines, on \in BOOLEAN :
            ReadActive(n, on) \/ \E s \in Session : PumpOther(s, n, on) \/ ToolReads(s, n, on)

UserEvent ==
    \/ ChangeView \/ force_redraw \/ show_help \/ toggle_web
    \/ \E s \in Session : Switch(s) \/ TogglePin(s)

Resizes == \E changed \in BOOLEAN : HandleResize(changed) \/ ViewerResizes(changed)

Next == \/ Loop \/ Read \/ UserEvent \/ Flag \/ Resizes \/ DrainWebStatus
        \/ \E s \in Session : TuiSwitch(s)
        \/ \E passes \in BOOLEAN : Poll(passes)

Spec == Init /\ [][Next]_vars

(* The loop runs and time passes while it polls; a user reads the help and *)
(* goes on.                                                                *)
Fairness ==
    /\ WF_vars(NoInput \/ UserEvent) /\ WF_vars(Dismiss)
    /\ WF_vars(ReadsActive)
    /\ WF_vars(Render) /\ WF_vars(CheckSessionExit) /\ SF_vars(Poll(TRUE))

FairSpec == Spec /\ Fairness

-----------------------------------------------------------------------------
(* Properties *)

Age(most) == 0 .. most \cup {None}

TypeOK ==
    /\ total \in [Session -> Nat] /\ logged \in [Session -> Nat]
    /\ \A s \in Session : logged[s] <= total[s]
    /\ sync \subseteq Session /\ pinned \subseteq Session /\ active \in Session
    /\ view \in 0 .. events /\ events \in 0 .. MaxEvents
    /\ ended \subseteq Session /\ missed \subseteq {"read", "ended"}
    /\ dirty \in BOOLEAN /\ flagged \in BOOLEAN
    /\ first \in Age(Latency) /\ data \in Age(Debounce)
    /\ pending \in Session \cup {None}
    /\ pc \in {"poll", "input", "read", "render", "rest", "help", "end"}

(* If nothing is marked, the terminal shows the session that is active,    *)
(* the sessions that are pinned and the selection as they are, scrolled    *)
(* and sized as they are: a change of something shown leaves a mark until  *)
(* a frame is really drawn.  Two changes are excepted: what another thread *)
(* read, and the switch from a session that has ended.                     *)
ShownIsCurrent ==
    ~dirty /\ ~flagged /\ missed = {} /\ pc # "help" => frame = Frame(active, FALSE)

(* Types hold, and what is shown is current.                               *)
FramesInv == TypeOK /\ ShownIsCurrent

(* The same without the exceptions.  TLC refutes this, see the README.     *)
AllIsShown ==
    ~dirty /\ ~flagged /\ pc # "help" => frame = Frame(active, FALSE)

(* While the loop waits for a key that dismisses the help, the help is     *)
(* shown.  TLC refutes this, see the README.                               *)
HelpIsShown == pc = "help" => frame.help

(* A display that is dirty is drawn: a mark whose time is known is taken   *)
(* away by a frame, however long the output goes on, and any other when    *)
(* the output pauses, unless the session is in synchronised output.        *)
Drawn == ~dirty \/ active \in sync \/ pc = "end"
Redrawn ==
    /\ dirty /\ first # None ~> Drawn
    /\ (dirty ~> Drawn) \/ []<>(data = 0)

(* "Max latency exceeded: 200ms since the burst started, even if data is   *)
(* still arriving" (docs/technotes/001-render-pipeline-and-debouncing.md). *)
(* TLC refutes this, see the README.                                       *)
DrawnInTheEnd == dirty ~> Drawn

(* "All PTY output is automatically logged" (README.md:53): what a         *)
(* session's screen was given is recorded.  TLC refutes this, see the      *)
(* README.                                                                 *)
OutputLogged == logged = total
=============================================================================
