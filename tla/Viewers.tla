-------------------------------- MODULE Viewers --------------------------------
(***************************************************************************)
(* tttt attach: viewers connect over a socket, say how large they are, and *)
(* are sent the screen of a session whenever it has changed.  All they     *)
(* send is handled in the event loop, which also keeps the terminals of    *)
(* the sessions as small as the smallest viewer; a viewer that does not    *)
(* read is given up after 250 ms.  The client keeps a virtual screen that  *)
(* every update replaces.                                                  *)
(*                                                                         *)
(* Sizes are one number; a screen is a session, a version and a size.  The *)
(* steps the event loop takes in each round may come in any order here.    *)
(***************************************************************************)
EXTENDS Naturals, Sequences, FiniteSets, FiniteSetsExt

CONSTANTS
    Viewer, Session,
    First,         \* the session that is active at first
    MaxSize,       \* sizes are 1 .. MaxSize
    Cap,           \* messages a socket holds
    MaxOutput,     \* bound: changes of each screen
    MaxConnects,   \* bound: connections of each client
    MaxRequests,   \* bound: what each client asks for (resize, keys, switch)
    MaxLayouts,    \* bound: what the user of the main terminal does
    None

Size == 1 .. MaxSize

ASSUME FirstAssumption == First \in Session
ASSUME BoundAssumption ==
    {MaxSize, Cap} \subseteq Nat \ {0} /\ {MaxOutput, MaxConnects, MaxRequests, MaxLayouts} \subseteq Nat

VARIABLES
    total,      \* what the main terminal has room for
    ptyDims,    \* pty_dims, the size of a session shown alone
    active, pinned,   \* the session shown, and those pinned beside it
    alive,
    size, version,    \* of each session
    laidOut,    \* history: the sizes were computed after the panes last changed
    conn,       \* [Viewer -> the server's end of its connection]
    up, down,   \* [Viewer -> messages to and from the server]
    client,     \* [Viewer -> [state, cur, view, shows]]
    connects, requests, layouts

sessionVars == <<total, ptyDims, active, pinned, alive, size, version, laidOut>>
countVars == <<connects, requests, layouts>>
vars == <<sessionVars, conn, up, down, client, countVars>>

NoConn == [state |-> "none", session |-> None, dims |-> 0, sent |-> None]

Init ==
    /\ total = MaxSize /\ ptyDims = MaxSize
    /\ active = First /\ pinned = {} /\ alive = Session
    /\ size = [s \in Session |-> MaxSize] /\ version = [s \in Session |-> 0] /\ laidOut = TRUE
    /\ conn = [v \in Viewer |-> NoConn]
    /\ up = [v \in Viewer |-> <<>>] /\ down = [v \in Viewer |-> <<>>]
    /\ client \in [Viewer -> [state : {"out"}, cur : Size, view : {0}, shows : {None}]]
    /\ connects = [v \in Viewer |-> 0] /\ requests = [v \in Viewer |-> 0] /\ layouts = 0

-----------------------------------------------------------------------------
(* Sizes *)

(* compute_render_session_ids and compute_pane_layout.                     *)
Rendered(act, pins) == {s \in alive : s = act \/ s \in pins}
Cell(tot, n) == IF tot \div n > 0 THEN tot \div n ELSE 1

apply_pane_resize(tot, dims, act, pins) ==
    LET shown == Rendered(act, pins)
    IN  [s \in Session |-> IF s \in shown THEN Cell(tot, Cardinality(shown))
                           ELSE IF s \in alive THEN dims ELSE size[s]]

Connected(cs) == {v \in Viewer : cs[v].state = "connected"}

(* A mutant of calculate_min_dimensions: the terminal itself is forgotten. *)
OnlyViewers(cs) ==
    IF Connected(cs) = {} THEN ptyDims ELSE Min({cs[v].dims : v \in Connected(cs)})
calculate_min_dimensions(cs) == Min({total} \cup {cs[v].dims : v \in Connected(cs)})

Clamped(cs) ==
    LET sized == apply_pane_resize(total, ptyDims, active, pinned)
    IN  [s \in Session |-> IF s \in Rendered(active, pinned)
                           THEN Min({sized[s], calculate_min_dimensions(cs)}) ELSE sized[s]]

(* The sizes of all sessions after resize_pty_to_min_and_redraw: with      *)
(* panes, the layout's, cut to the smallest viewer; else the smallest      *)
(* size, if it is not the one recorded.                                    *)
Resized(cs) ==
    IF pinned # {} THEN Clamped(cs)
    ELSE IF calculate_min_dimensions(cs) = ptyDims THEN size
    ELSE [s \in Session |-> IF s \in alive THEN calculate_min_dimensions(cs) ELSE size[s]]

WindowSize(cs, v) ==
    IF pinned # {} /\ cs[v].session \in alive THEN Clamped(cs)[cs[v].session]
    ELSE calculate_min_dimensions(cs)

-----------------------------------------------------------------------------
(* Sending.  A message that does not fit breaks the connection.            *)

Room(v) == Len(down[v]) < Cap
Lost(c) == [c EXCEPT !.state = "failed"]

KeepsSent(c) == c  \* mutant of Invalidated
Invalidated(c) == [c EXCEPT !.sent = None]

(* resize_pty_to_min_and_redraw, given the connections as they are now.    *)
ResizePtyToMin(cs) ==
    /\ size' = Resized(cs)
    /\ ptyDims' = IF pinned = {} THEN calculate_min_dimensions(cs) ELSE ptyDims
    /\ conn' = [v \in Viewer |->
                  IF v \notin Connected(cs) THEN cs[v]
                  ELSE IF Room(v) THEN Invalidated(cs[v]) ELSE Lost(Invalidated(cs[v]))]
    /\ down' = [v \in Viewer |->
                  IF v \in Connected(cs) /\ Room(v)
                  THEN Append(down[v], [type |-> "window", size |-> WindowSize(cs, v)]) ELSE down[v]]
    /\ laidOut' = (laidOut \/ pinned # {} \/ ptyDims' # ptyDims)
    /\ UNCHANGED <<total, active, pinned, alive, version>>

-----------------------------------------------------------------------------
(* The event loop *)

(* A new viewer is taken for one that has just the room there is.          *)
Accept(v) ==
    /\ conn[v].state = "pending"
    /\ conn' = [conn EXCEPT ![v] =
                  [state |-> "connected", session |-> active, dims |-> size[active] + 1, sent |-> None]]
    /\ UNCHANGED <<sessionVars, up, down, client, countVars>>

Echo(s) ==
    IF s \in alive /\ version[s] < MaxOutput THEN [version EXCEPT ![s] = @ + 1] ELSE version

Process(v) ==
    /\ conn[v].state = "connected" /\ up[v] # <<>>
    /\ up' = [up EXCEPT ![v] = Tail(@)]
    /\ LET msg == Head(up[v])
       IN  \/ /\ msg.type = "key"
              /\ version' = Echo(conn[v].session)
              /\ UNCHANGED <<total, ptyDims, active, pinned, alive, size, laidOut, conn, down>>
           \/ /\ msg.type = "switch"
              /\ conn' = IF msg.session \in alive
                         THEN [conn EXCEPT ![v] = Invalidated([@ EXCEPT !.session = msg.session])] ELSE conn
              /\ UNCHANGED <<sessionVars, down>>
           \/ /\ msg.type = "resize"
              /\ ResizePtyToMin([conn EXCEPT ![v] = Invalidated([@ EXCEPT !.dims = msg.size])])
           \/ /\ msg.type = "detach"
              /\ conn' = [conn EXCEPT ![v] = Lost(@)]
              /\ UNCHANGED <<sessionVars, down>>
    /\ UNCHANGED <<client, countVars>>

(* The client has gone: a read returns nothing.                            *)
ReadEof(v) ==
    /\ conn[v].state = "connected" /\ up[v] = <<>> /\ client[v].state = "gone"
    /\ conn' = [conn EXCEPT ![v] = Lost(@)]
    /\ UNCHANGED <<sessionVars, up, down, client, countVars>>

(* A mutant of RemoveFailed: the sizes are left as they are.               *)
RemovesOnly ==
    /\ \E v \in Viewer : conn[v].state = "failed"
    /\ conn' = [v \in Viewer |-> IF conn[v].state = "failed" THEN [NoConn EXCEPT !.state = "closed"] ELSE conn[v]]
    /\ UNCHANGED <<sessionVars, up, down, client, countVars>>

RemoveFailed ==
    /\ \E v \in Viewer : conn[v].state = "failed"
    /\ ResizePtyToMin([v \in Viewer |->
           IF conn[v].state = "failed" THEN [NoConn EXCEPT !.state = "closed"] ELSE conn[v]])
    /\ UNCHANGED <<up, client, countVars>>

Content(s) == <<s, version[s], size[s]>>

(* update_viewers: what was sent last is recorded before it is sent.       *)
Update(v) ==
    LET s == conn[v].session
        c == [conn[v] EXCEPT !.sent = Content(s)]
    IN  /\ conn[v].state = "connected" /\ s \in alive /\ conn[v].sent # Content(s)
        /\ conn' = [conn EXCEPT ![v] = IF Room(v) THEN c ELSE Lost(c)]
        /\ down' = IF Room(v)
                   THEN [down EXCEPT ![v] = Append(@, [type |-> "screen", content |-> Content(s)])]
                   ELSE down
        /\ UNCHANGED <<sessionVars, up, client, countVars>>

-----------------------------------------------------------------------------
(* The sessions and the user of the main terminal *)

Output(s) ==
    /\ s \in alive /\ version[s] < MaxOutput /\ version' = Echo(s)
    /\ UNCHANGED <<total, ptyDims, active, pinned, alive, size, laidOut, conn, up, down, client, countVars>>

(* Panes that come and go without a word to the sessions: the end of one   *)
(* (sync_session_order, check_session_exit), a switch asked for by a tool, *)
(* and a live reload, after which nothing is pinned, pty_dims is the whole *)
(* room and every connection has ended.                                    *)
Shows(act, pins, live, dims) ==
    /\ layouts < MaxLayouts /\ layouts' = layouts + 1
    /\ active' = act /\ pinned' = pins /\ alive' = live /\ ptyDims' = dims
    /\ laidOut' = (laidOut /\ act = active /\ pins = pinned /\ dims = ptyDims)
    /\ UNCHANGED <<total, size, version, up, down, client, connects, requests>>

Kill(s) ==
    /\ s \in alive
    /\ \E next \in alive \ {s} :
        /\ s # active => next = active
        /\ Shows(next, pinned \ {s}, alive \ {s}, ptyDims)
    /\ UNCHANGED conn

TuiSwitch(s) == s \in alive \ {active} /\ Shows(s, pinned, alive, ptyDims) /\ UNCHANGED conn

Reload ==
    /\ Shows(active, {}, alive, total)
    /\ conn' = [v \in Viewer |-> IF conn[v].state = "none" THEN NoConn ELSE [NoConn EXCEPT !.state = "closed"]]

Lays(tot, dims, act, pins) ==
    /\ layouts < MaxLayouts /\ layouts' = layouts + 1
    /\ total' = tot /\ ptyDims' = dims /\ active' = act /\ pinned' = pins
    /\ size' = apply_pane_resize(tot, dims, act, pins) /\ laidOut' = TRUE
    /\ UNCHANGED <<alive, version, conn, up, down, client, connects, requests>>

SwitchToSession(s) == s \in alive \ {active} /\ Lays(total, ptyDims, s, pinned)
ToggleSticky(s) ==
    s \in alive /\ Lays(total, ptyDims, active, IF s \in pinned THEN pinned \ {s} ELSE pinned \cup {s})
HandleResize == \E n \in Size \ {total} : Lays(n, n, active, pinned)

-----------------------------------------------------------------------------
(* The client *)

In(v) == client[v].state = "in"
ClosedHere(v) == conn[v].state = "closed"

(* attach_connect_with_retry, and what run_attach_loop starts with.        *)
Connect(v) ==
    /\ client[v].state = "out" /\ conn[v].state \in {"none", "closed"}
    /\ connects[v] < MaxConnects /\ connects' = [connects EXCEPT ![v] = @ + 1]
    /\ conn' = [conn EXCEPT ![v] = [NoConn EXCEPT !.state = "pending"]]
    /\ client' = [client EXCEPT ![v] = [@ EXCEPT !.state = "in", !.view = client[v].cur, !.shows = None]]
    /\ up' = [up EXCEPT ![v] = <<[type |-> "resize", size |-> client[v].cur]>>]
    /\ down' = [down EXCEPT ![v] = <<>>]
    /\ UNCHANGED <<sessionVars, requests, layouts>>

Sends(v, msg) ==
    /\ In(v) /\ ~ClosedHere(v) /\ Len(up[v]) < Cap
    /\ requests[v] < MaxRequests /\ requests' = [requests EXCEPT ![v] = @ + 1]
    /\ up' = [up EXCEPT ![v] = Append(@, msg)]
    /\ UNCHANGED <<sessionVars, conn, down, connects, layouts>>

Type(v) == Sends(v, [type |-> "key"]) /\ UNCHANGED client
AskSwitch(v, s) == Sends(v, [type |-> "switch", session |-> s]) /\ UNCHANGED client

(* SIGWINCH: the virtual screen is blank until the server answers.         *)
Winch(v) ==
    \E n \in Size \ {client[v].cur} :
        /\ Sends(v, [type |-> "resize", size |-> n])
        /\ client' = [client EXCEPT ![v] = [@ EXCEPT !.cur = n, !.view = n, !.shows = None]]

Detach(v) ==
    /\ Sends(v, [type |-> "detach"])
    /\ client' = [client EXCEPT ![v] = [@ EXCEPT !.state = "gone"]]

Dies(v) ==
    /\ In(v) /\ client' = [client EXCEPT ![v].state = "gone"]
    /\ UNCHANGED <<sessionVars, conn, up, down, countVars>>

(* An update is drawn on a screen no larger than the terminal and the one  *)
(* before, which garbles a screen that is larger; a window size brings a   *)
(* blank screen of that size.                                              *)
Drawn(content, room) == IF content[3] <= room THEN content ELSE None

Canvas(v) == Min({client[v].cur, client[v].view})

Receive(v) ==
    /\ In(v) /\ down[v] # <<>>
    /\ down' = [down EXCEPT ![v] = Tail(@)]
    /\ LET msg == Head(down[v])
       IN  client' = [client EXCEPT ![v] =
                        IF msg.type = "window" THEN [@ EXCEPT !.view = msg.size, !.shows = None]
                        ELSE [@ EXCEPT !.view = Canvas(v), !.shows = Drawn(msg.content, Canvas(v))]]
    /\ UNCHANGED <<sessionVars, conn, up, countVars>>

Disconnected(v) ==
    /\ In(v) /\ ClosedHere(v) /\ down[v] = <<>>
    /\ client' = [client EXCEPT ![v].state = "out"]
    /\ UNCHANGED <<sessionVars, conn, up, down, countVars>>

-----------------------------------------------------------------------------
ServerNext == RemoveFailed \/ \E v \in Viewer : Accept(v) \/ Process(v) \/ ReadEof(v) \/ Update(v)
ClientNext(v) == Connect(v) \/ Receive(v) \/ Disconnected(v)
Asks(v) == Type(v) \/ Winch(v) \/ Detach(v) \/ Dies(v) \/ \E s \in Session : AskSwitch(v, s)

Next ==
    \/ ServerNext
    \/ \E v \in Viewer : ClientNext(v) \/ Asks(v)
    \/ \E s \in Session : Output(s) \/ Kill(s) \/ TuiSwitch(s) \/ SwitchToSession(s) \/ ToggleSticky(s)
    \/ HandleResize \/ Reload

(* Each round of the event loop does all of its steps.                     *)
Fairness ==
    /\ WF_vars(RemoveFailed)
    /\ \A v \in Viewer : /\ WF_vars(Accept(v)) /\ WF_vars(Process(v)) /\ WF_vars(ReadEof(v))
                         /\ WF_vars(Update(v)) /\ WF_vars(ClientNext(v))

Spec == Init /\ [][Next]_vars
FairSpec == Spec /\ Fairness

-----------------------------------------------------------------------------
(* Properties *)

(* Sizes stay on the host's screen, what is active or pinned is alive, and *)
(* the buffers of a connection hold no more than the kernel lets them.     *)
TypeOK ==
    /\ total \in Size /\ ptyDims \in 1 .. total
    /\ active \in alive /\ pinned \subseteq alive /\ alive \subseteq Session
    /\ size \in [Session -> Size] /\ version \in [Session -> 0 .. MaxOutput]
    /\ (\A s \in alive : size[s] <= total) /\ laidOut \in BOOLEAN
    /\ \A v \in Viewer :
        /\ conn[v].state \in {"none", "pending", "connected", "failed", "closed"}
        /\ conn[v].state = "connected" => conn[v].session \in Session
        /\ Len(up[v]) <= Cap /\ Len(down[v]) <= Cap
        /\ client[v].state \in {"out", "in", "gone"} /\ client[v].cur \in Size

(* A viewer ends up with the screen of its session as it is: no update is  *)
(* lost to the window sizes, resizes and switches it crosses.  A session   *)
(* that the main terminal has laid out since, or that the viewer switched  *)
(* to, may be larger than the size the client was told (attach.rs:689).    *)
Watches(v) == In(v) /\ conn[v].state = "connected" /\ conn[v].session \in alive
Fits(v) == layouts = 0 \/ size[conn[v].session] <= Canvas(v)
CatchesUp ==
    \A v \in Viewer :
        []<>(Watches(v) /\ Fits(v) => client[v].shows = Content(conn[v].session))

(* The same however the panes are laid out ("This ensures viewers with     *)
(* small screens (e.g. phones) see content that fits their terminal rather *)
(* than truncated/clipped output").                                        *)
(* TLC refutes this, see the README.                                       *)
NeverClipped ==
    \A v \in Viewer : []<>(Watches(v) => client[v].shows = Content(conn[v].session))

(* When the last viewer has left, however it left, every pane gets its     *)
(* room back, if the panes have been laid out since they last changed.     *)
Unwatched == \A v \in Viewer : conn[v].state \in {"none", "closed"}
PanesSized == \A s \in Rendered(active, pinned) : size[s] = Cell(total, Cardinality(Rendered(active, pinned)))
GrowsBack == []<>(Unwatched /\ laidOut => PanesSized)

(* "When the two diverge, apps inside the panes see the wrong size -       *)
(* keeping them computed in one place avoids that drift."                  *)
(* TLC refutes this, see the README.                                       *)
NoDrift == []<>(Unwatched => PanesSized)

(* With panes, a viewer that is resized or leaves changes the sizes of all *)
(* panes at once, and none of them is larger than any viewer.              *)
PanesFit ==
    [][pinned # {} /\ ptyDims' = ptyDims /\ layouts' = layouts /\ conn' # conn
       /\ (\E v \in Viewer : conn'[v].dims # conn[v].dims /\ conn[v].state # "pending")
       => \A v \in Connected(conn') : \A s \in Rendered(active, pinned) : size'[s] <= conn'[v].dims]_vars

(* The panes follow the viewers that come, are resized and leave.          *)
PanesFollow == GrowsBack /\ PanesFit

(* The session on display fits every viewer ("This ensures viewers with    *)
(* small screens (e.g. phones) see content that fits their terminal").     *)
(* TLC refutes this, see the README.                                       *)
FitsViewers ==
    []<>(\A v \in Connected(conn) : up[v] = <<>> => size[active] <= conn[v].dims)
=============================================================================
