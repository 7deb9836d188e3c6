------------------------------- MODULE Recording -------------------------------
(***************************************************************************)
(* What tttt writes down of its sessions, and `tttt replay`, which lists   *)
(* the recordings and plays them.  One database outlives every process     *)
(* that writes to it; session identifiers start again in each process, so  *)
(* an event carries the process's pid, and events of old databases carry   *)
(* none.                                                                   *)
(*                                                                         *)
(* A size is one number; what an output event holds is left out.           *)
(* Times are coarse: events can have the same one.  The clock never goes   *)
(* back here, and a write to the database succeeds or is given up.         *)
(***************************************************************************)
EXTENDS Naturals, Sequences, FiniteSets, FiniteSetsExt

CONSTANTS
    Sid,           \* session identifiers
    Process,       \* runs of tttt, by pid
    Size,
    DefaultSize,   \* 80x24, for a session nothing is known of
    LaunchSize,    \* what the terminal has room for when a session starts
    Gap,           \* GAP_THRESHOLD_MS
    Legacy,        \* times of the events an old database may hold, each in order
    MaxTime,       \* bound: the clock
    MaxEvents,     \* bound: events of one process
    MaxKeys,       \* bound: keys pressed in the replayer, and what else happens then
    MaxAdvance,    \* bound: time one tick of the player covers
    None

InTime(ts) == \A i, j \in DOMAIN ts : i < j => ts[i] <= ts[j]

\* What the constants must be.
ConstantsOk ==
    /\ None \notin Process /\ {DefaultSize, LaunchSize} \subseteq Size
    /\ {Gap, MaxTime, MaxEvents, MaxKeys} \subseteq Nat
    /\ MaxAdvance \in Nat \ {0}
    /\ \A ts \in Legacy : ts \in Seq(0 .. MaxTime) /\ InTime(ts)

ASSUME RecordingAssumption == ConstantsOk

VARIABLES
    now,
    events,     \* the table of events, in the order written
    rows,       \* the table of sessions: [Sid -> row or None]
    session,    \* [Process -> [Sid -> what the process has of it]]
    list,       \* the recordings the replayer lists
    view,       \* the replayer: closed, the list, or a recording
    keys        \* keys pressed, and other steps beside them

vars == <<now, events, rows, session, list, view, keys>>

NotYet == [state |-> "none", size |-> 0, due |-> FALSE]
Closed == [kind |-> "closed"]
Listing == [kind |-> "list"]

(* An old database has events without a pid, and a row for their session   *)
(* or not: events are older than the table of sessions.                    *)
Init ==
    /\ \E s \in Sid, ts \in Legacy :
        /\ events = [i \in DOMAIN ts |-> [sid |-> s, pid |-> None, resize |-> None, ts |-> ts[i]]]
        /\ rows \in [Sid -> {None, [pid |-> None, size |-> DefaultSize, started |-> 0, ended |-> None]}]
        /\ \A t \in Sid : rows[t] # None => t = s /\ ts # <<>>
        /\ now \in 0 .. MaxTime /\ \A i \in DOMAIN ts : ts[i] <= now
    /\ session = [p \in Process |-> [s \in Sid |-> NotYet]]
    /\ list = {} /\ view = Closed /\ keys = 0

Beside == IF view = Closed THEN UNCHANGED keys ELSE keys < MaxKeys /\ keys' = keys + 1

Clock == now < MaxTime /\ now' = now + 1 /\ Beside /\ UNCHANGED <<events, rows, session, list, view>>

-----------------------------------------------------------------------------
(* The processes that record.  An identifier is used once in a process.    *)

Has(p, s) == session[p][s]
Live(p, s) == Has(p, s).state = "live"
Room(p) == Cardinality({i \in DOMAIN events : events[i].pid = p}) < MaxEvents

log_event(p, s, resize) ==
    /\ Room(p)
    /\ events' = Append(events, [sid |-> s, pid |-> p, resize |-> resize, ts |-> now])

(* launch_root and pty_launch register the session once it is in the       *)
(* table; the key that creates a session (create_session) does not.        *)
Launch(p, s) ==
    /\ Has(p, s).state = "none"
    /\ \E registers \in BOOLEAN :
        session' = [session EXCEPT ![p][s] = [state |-> "live", size |-> LaunchSize, due |-> registers]]
    /\ UNCHANGED <<now, events, rows, list, view>>

log_session_start_with_dir(p, s) ==
    /\ Live(p, s) /\ Has(p, s).due
    /\ session' = [session EXCEPT ![p][s].due = FALSE]
    /\ rows' = [rows EXCEPT ![s] = [pid |-> p, size |-> Has(p, s).size, started |-> now, ended |-> None]]
    /\ UNCHANGED <<now, events, list, view>>

(* The event loop logs the output it reads.  (A tool that waits for the    *)
(* session or shows its screen reads output as well, and logs nothing.)    *)
LoopPumps(p, s) ==
    /\ Live(p, s) /\ log_event(p, s, None)
    /\ UNCHANGED <<now, rows, session, list, view>>

(* Sizes that the layout gives (apply_pane_resize) are logged.             *)
Resize(p, s) ==
    /\ Live(p, s)
    /\ \E z \in Size \ {Has(p, s).size} :
        /\ session' = [session EXCEPT ![p][s].size = z]
        /\ log_event(p, s, z)
    /\ UNCHANGED <<now, rows, list, view>>

(* The end is logged of a session that was on display; the row is the one  *)
(* the identifier has now, whichever process it belongs to.                *)
log_session_end(s) == rows' = IF rows[s] = None THEN rows ELSE [rows EXCEPT ![s].ended = now]

Exit(p, s) ==
    /\ Live(p, s) /\ session' = [session EXCEPT ![p][s].state = "over"]
    /\ log_session_end(s) \/ UNCHANGED rows
    /\ UNCHANGED <<now, events, list, view>>

-----------------------------------------------------------------------------
(* The list of recordings.  What a query selects is a set of places in the *)
(* table of events, which are in the order of their times.                 *)

OfSession(s) == {i \in DOMAIN events : events[i].sid = s}

query_events_with_pid(s, p) == {i \in OfSession(s) : p = None \/ events[i].pid = p}

query_events_in_range(s, from, to) ==
    {i \in OfSession(s) : events[i].pid = None /\ from <= events[i].ts /\ events[i].ts <= to}

list_sessions ==
    {[sid |-> s, pid |-> rows[s].pid, size |-> rows[s].size,
      from |-> rows[s].started, to |-> rows[s].ended, by |-> "pid"] : s \in {t \in Sid : rows[t] # None}}

WithEvents == {<<events[i].sid, events[i].pid>> : i \in DOMAIN events}

(* A mutant of list_orphan_session_ids: any row of the identifier will do. *)
WithoutRow == {o \in WithEvents : rows[o[1]] = None}

list_orphan_session_ids ==
    {o \in WithEvents : rows[o[1]] = None \/ rows[o[1]].pid # o[2]}

TimesOf(places) == {events[i].ts : i \in places}
Orphan(s, p, from, to, by) ==
    [sid |-> s, pid |-> p, size |-> DefaultSize, from |-> from, to |-> to, by |-> by]

infer_session_info(s, p) ==
    LET ts == TimesOf(query_events_with_pid(s, p)) IN Orphan(s, p, Min(ts), Max(ts), "pid")

(* Legacy events are cut where nothing was written for longer than Gap.    *)
Starts(ts) == {t \in ts : \A u \in ts : u < t => t - u > Gap}
Chunk(ts, t) == {u \in ts : t <= u /\ \A b \in Starts(ts) : b > t => u < b}

split_null_pid_orphan_into_chunks(s) ==
    LET ts == TimesOf({i \in OfSession(s) : events[i].pid = None})
    IN  {Orphan(s, None, t, Max(Chunk(ts, t)), "range") : t \in Starts(ts)}

list_orphan_session_chunks ==
    UNION {IF o[2] # None THEN {infer_session_info(o[1], o[2])}
           ELSE split_null_pid_orphan_into_chunks(o[1]) : o \in list_orphan_session_ids}

build_session_list == list_sessions \cup list_orphan_session_chunks

Selected(entry) ==
    IF entry.by = "pid" THEN query_events_with_pid(entry.sid, entry.pid)
    ELSE query_events_in_range(entry.sid, entry.from, entry.to)

-----------------------------------------------------------------------------
(* The player.  size is the size it is at; from is the size of the screen  *)
(* it started the recording with, the last time it did.                    *)

UpTo(places, i) == {j \in places : j <= i}
Nth(places, k) == CHOOSE i \in places : Cardinality(UpTo(places, i)) = k
Load(entry) ==
    [k \in 1 .. Cardinality(Selected(entry)) |-> events[Nth(Selected(entry), k)]]

Opened(entry) ==
    [kind |-> "replay", entry |-> entry, evs |-> Load(entry), idx |-> 0,
     size |-> entry.size, from |-> entry.size, playing |-> FALSE, pos |-> 0]

Stepped(v, target) ==
    LET resizes == {i \in 1 .. target : v.evs[i].resize # None}
    IN  [v EXCEPT !.idx = target, !.size = IF resizes = {} THEN @ ELSE v.evs[Max(resizes)].resize]

Restarted(v) == [v EXCEPT !.idx = 0, !.from = v.size]
From(v, backwards) == IF backwards THEN Restarted(v) ELSE v

seek_to_index(v, i) ==
    LET target == Min({i, Len(v.evs)}) IN Stepped(From(v, target < v.idx), target)

seek_to_timestamp(v, ts) ==
    Stepped(From(v, v.idx > 0 /\ v.evs[v.idx].ts > ts),
            Cardinality({i \in DOMAIN v.evs : v.evs[i].ts <= ts}))

Base(v) == IF v.evs = <<>> THEN 0 ELSE v.evs[1].ts
current_timestamp(v) == IF v.idx = 0 THEN 0 ELSE v.evs[v.idx].ts
Sub(a, b) == IF a > b THEN a - b ELSE 0

StepTo(v, i) ==
    LET w == seek_to_index(v, i)
    IN  [w EXCEPT !.playing = FALSE, !.pos = Sub(current_timestamp(w), Base(w))]

AtEnd(v) == IF v.idx >= Len(v.evs) THEN [v EXCEPT !.playing = FALSE] ELSE v

Replaying == view.kind = "replay"

(* A mutant of Tick: the playback time is not kept.                        *)
TicksFromStart ==
    /\ Replaying /\ view.playing
    /\ \E ms \in 1 .. MaxAdvance : view' = AtEnd(seek_to_timestamp(view, Base(view) + view.pos + ms))
    /\ UNCHANGED <<now, events, rows, session, list, keys>>

Tick ==
    /\ Replaying /\ view.playing
    /\ \E ms \in 1 .. MaxAdvance :
        view' = AtEnd(seek_to_timestamp([view EXCEPT !.pos = @ + ms], Base(view) + view.pos + ms))
    /\ UNCHANGED <<now, events, rows, session, list, keys>>

run_replay ==
    /\ view = Closed /\ view' = Listing /\ list' = build_session_list
    /\ UNCHANGED <<now, events, rows, session, keys>>

open_entry ==
    /\ view = Listing /\ \E entry \in list : view' = Opened(entry)
    /\ UNCHANGED <<now, events, rows, session, list, keys>>

Key(v) ==
    /\ Replaying /\ keys < MaxKeys /\ keys' = keys + 1 /\ view' = v
    /\ UNCHANGED <<now, events, rows, session, list>>

Back == Key(Listing)
PlayPause == Key([view EXCEPT !.playing = ~@])
Forward == \E n \in {1, 10} : Key(StepTo(view, view.idx + n))
Backward == \E n \in {1, 10} : Key(StepTo(view, Sub(view.idx, n)))
Home == Key([StepTo(view, 0) EXCEPT !.pos = 0])
End == Key(StepTo(view, Len(view.evs)))

-----------------------------------------------------------------------------
Records(p, s) ==
    \/ Launch(p, s) \/ log_session_start_with_dir(p, s)
    \/ LoopPumps(p, s) \/ Resize(p, s) \/ Exit(p, s)

Next ==
    \/ Clock
    \/ Beside /\ \E p \in Process, s \in Sid : Records(p, s)
    \/ run_replay \/ open_entry \/ Tick \/ Back \/ PlayPause \/ Forward \/ Backward \/ Home \/ End

(* The player ticks whenever no key is pressed for 16 ms.                  *)
Spec == Init /\ [][Next]_vars
FairSpec == Spec /\ WF_vars(Tick)

-----------------------------------------------------------------------------
(* Properties *)

Pid == {None} \cup Process
Event == [sid : Sid, pid : Pid, resize : {None} \cup Size, ts : Nat]
Row == [pid : Pid, size : Size, started : Nat, ended : {None} \cup Nat]
Own == [state : {"none", "live", "over"}, size : {0} \cup Size, due : BOOLEAN]
Entry == [sid : Sid, pid : Pid, size : Size, from : Nat, to : {None} \cup Nat, by : {"pid", "range"}]
Player == [kind : {"replay"}, entry : Entry, evs : Seq(Event), idx : Nat, size : Size, from : Size,
           playing : BOOLEAN, pos : Nat]

TypeOK ==
    /\ now \in 0 .. MaxTime /\ keys \in 0 .. MaxKeys
    /\ events \in Seq(Event)
    /\ rows \in [Sid -> {None} \cup Row]
    /\ session \in [Process -> [Sid -> Own]]
    /\ list \subseteq Entry
    /\ view \in {Closed, Listing} \cup Player
    /\ Replaying => view.idx \in 0 .. Len(view.evs)

(* Whatever identifiers processes reuse, whatever rows were replaced or    *)
(* never written: every event is in one recording of the list, and only in *)
(* one unless an old row without a pid claims all events of its session.   *)
ListedOnce ==
    \A i \in DOMAIN events :
        LET claims == {entry \in build_session_list : i \in Selected(entry)}
        IN  /\ claims # {}
            /\ Cardinality(claims) > 1 =>
                   rows[events[i].sid] # None /\ rows[events[i].sid].pid = None

(* The place in the recording and the playback time agree, so that playing *)
(* goes on where the last step, jump or pause left it.                     *)
PositionAgrees ==
    Replaying =>
        /\ view.idx > 0 => view.evs[view.idx].ts <= Base(view) + view.pos
        /\ view.idx < Len(view.evs) => view.evs[view.idx + 1].ts >= Base(view) + view.pos

(* What was logged is found again, once, and the player knows where it is. *)
RecordingInv == TypeOK /\ ListedOnce /\ PositionAgrees

(* A player that is left alone stops.                                      *)
PlaysOut == (Replaying /\ view.playing) ~> ~(Replaying /\ view.playing)

(* "If target is before current position, resets and replays from start":  *)
(* the start is the size the session was launched with.                    *)
(* TLC refutes this, see the README.                                       *)
SeekIsReplay == Replaying => view.from = view.entry.size
=============================================================================
