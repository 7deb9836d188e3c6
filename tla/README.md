# A verification development for tttt

tttt is a terminal multiplexer in which agents drive terminals: sessions run
children behind PTYs, and text reaches them from the user, from attached
viewers, from the web console, from MCP clients, from a scheduler of reminders
and cron jobs, and from watchers that inject text when a pattern appears. This
directory holds TLA+ modules of that program, the TLC configurations that check
them on small instances, and proofs checked by TLAPS. Paths in the text are
relative to the repository; `PROJECT.json` maps every definition to its lines.

1. Inventory · 2. Plan · 3. Modules and code · 4. Runs and bounds ·
5. Fairness · 6. Proofs · 7. Only model-checked · 8. Statements the code does
not keep · 9. Not modelled

## 1. Inventory

### Components

| Component | Where | State | Operations | Modules |
|---|---|---|---|---|
| Event loop | `src/app.rs` | active session, `session_order`, queues, render flags | one round of `run`: drain input, read the keyboard, pump, render, accept, viewers, watchers, one injection, session order, exit check, scheduler, deferred events, context refresh, delayed Enters | `InputPipeline`, `Schedule`, `Workspace`, `Watch`, `Viewers`, `Frames` |
| Pending input | `src/pending_input.rs` | per session: user bytes, scheduler texts with offset and chunk end | `send_scheduler`, `drain`, `drain_scheduler` | `InputPipeline` |
| Delayed Enters | `src/injected_enter.rs` | entries: session, text, input stamp, armed, checks | `drain_delayed_enters`, `input_matches` | `InputPipeline`, `MessageLifecycle` |
| Scheduler, context refresh | `crates/tttt-scheduler`, `src/app.rs` | reminders, cron jobs, deferred events, two-stage requests | add, remove, `tick`, defer, advance | `Schedule` |
| Notifications and waits | `crates/tttt-mcp/src/notification.rs`, `handler.rs` | watchers, last screens, fired flags; a waiting tool | `check_session`, `wait_for`, `wait_for_idle`, `get_screen` | `Watch` |
| Session manager | `crates/tttt-pty/src/manager.rs` | sessions, names, `next_id`, limit | add, name, kill, list, cleanup | `Workspace` |
| PTY backends | `crates/tttt-pty/src/session.rs`, `backend.rs`, `restored.rs` | status, child, master, pid | pump, poll status, kill, escalate, restore | `ProcessControl`, `Watch` |
| Live reload | `src/reload.rs`, `src/app.rs`, `src/main.rs` | the state file | save, exec, restore | `Workspace`, `Schedule`, `Watch`, `ProcessControl`, `Access` |
| MCP proxy | `crates/tttt-mcp/src/proxy.rs` | client: socket, readers, channel; server: pending queue, cancel token | forward, reconnect, re-initialise, cancel, drain | `McpProxy` |
| Viewers, attach | `crates/tttt-tui/src/viewer.rs`, `src/attach.rs` | per viewer: size, content hash, session; the client's screen | accept, update, resize, switch, detach | `Viewers` |
| Web console | `src/web/*` | snapshot, watch counts, viewers; token, password, server | publish, push, flush, control; start, stop, log in | `WebConsole`, `Access` |
| Terminal input | `crates/tttt-tui/src/input.rs`, `src/attach.rs` | prefix, held bytes, Ctrl+C ring, paste mode | `process`, `handle_event` | `TerminalInput` |
| Mouse | `src/app.rs`, `crates/tttt-tui` | scroll offset, selection, pin | press, drag, release, wheel, compensation | `MouseSelection` |
| Rendering | `src/app.rs` | dirty flags, debounce, popups | pump, mark, render | `Frames` |
| Recording, replay | `crates/tttt-log`, `src/replay_tui.rs` | sessions and events in SQLite; list, position, speed | log, end, migrate; list, open, step, seek, play | `Recording`, `Frames` |
| Terminal emulator | `crates/vt100` | grid, cursor, regions, pens, modes | control functions; `contents_formatted`, `contents_diff`, `input_mode_formatted` | `Vt100Grid`, `Vt100Pen`, `Vt100Writer`, `Vt100Screen`, `Vt100Modes` |
| Command line client | `src/ctl.rs`, `src/rate_limit.rs` | one connection, its read timeout | one or more tool calls a command | `Ctl` |
| Sandbox | `crates/tttt-sandbox` | | writes a profile | none, see section 9 |

### Interaction

The event loop is one thread. It owns pending input, delayed Enters, deferred
events, the injection queue, the viewers and the display. Each MCP connection,
the web server and the threads of the tool handlers run beside it and share,
each behind a mutex of its own, the session manager, the scheduler, the watcher
registry, the context refresh queue and the log. So the interleavings that
matter are between phases of a round (when the loop holds no session lock) and
the other threads, and between what one phase decided and what a later phase,
or a later round, does with it.

Text for a session travels through up to four queues. A reminder or cron
message that fires while the session is busy is *deferred*; one that is accepted
is put into the session's *scheduler queue* and written in chunks of
`TTTT_SCHED_CHUNK_BYTES` behind the user's bytes; when its last chunk is out, a
*delayed Enter* is recorded; the Enter is sent later, and repeated while the
child still shows the text and the terminal has received nothing else. A
notification waits in the *injection queue*, is typed in one write, and gets a
delayed Enter likewise.

What a session prints is read by whoever holds the session mutex: the loop, a
waiting tool, a context refresh. It goes to the emulator, and from there to the
terminal of tttt, to viewers, to browsers, to watchers and, if the reader
remembers to, into the log. Sizes flow the other way: the terminal, the layout
and the smallest viewer decide the size of the sessions.

A live reload saves the sessions (with their descriptors), cron jobs, watchers
and settings, clears close-on-exec and executes the new binary in the same
process. The other threads go on until the exec; every socket breaks with it.

### What is hard, and what correctness means

* Delayed Enters: an Enter pressed at the wrong time submits what somebody else
  was typing. Retries must follow only the entry's own Enter and must end.
* Paced writes: short writes, backpressure and dying children; texts must not be
  mixed, lost halfway and resumed, or repeated.
* Deferral: events of one round must not pile onto each other, nor wait for ever.
* Watchers: one-shot, restored by a reload, matched against differences.
* Sessions: refused launches, ids used up, exits between two looks of the loop,
  kills and launches while a reload is saving; the loop must not stay on a dead
  session, nor end while one runs, nor stay when none does.
* Proxy: requests in flight when the socket breaks; cancellation of the right call.
* Processes: what ends must be noticed, also by a restored session that is
  nobody's parent; what is killed must end.
* Viewers and web: frames out of order, stale hashes, counts that leak, sizes
  that stay small; credentials across restarts.
* Input: tokens cut into reads; a selection on a moving screen.
* Screen: indices at the margins; a follower that is sent differences.
* Recording: several processes, one database; a position that is both shown and
  played.

`PROJECT.json` lists the hazards one by one, each at its line, with the
properties that cover them.

## 2. Plan

All modules of the plan exist. It was carried out in this order: the input
pipeline with its abstract lifecycle; the schedule and watchers that feed it;
sessions and reload; proxy; viewers, web console; input; recording, frames;
the emulator; processes, the command line client and access.

The proofs followed, in the order of what matters: where a text is, whose Enter
is repeated and the refinement of the lifecycle; watchers; the session table and
its reload; the proxy; the web console; the schedule and the command line
client; sizes and panes; recordings, the display and selections (section 6). So
every safety property that a run checks is proved, except those of the emulator
and of `TerminalInput`, which rest on folds over data (section 7).

No module that is proved about uses `RECURSIVE`.

## 3. Modules and code

| Module | Models |
|---|---|
| `InputPipeline` | pending input, delayed Enters and the phases of the loop that move text |
| `MessageLifecycle` | abstract specification: the stages of one text and its Enters |
| `InputPipelineRefinement` | the refinement mapping from queues to stages |
| `InputPipelineProofs` | proofs: types; what arms an Enter; where a text is, and in whose turn; retries, and the refinement of the lifecycle |
| `Schedule` | reminders, cron jobs, deferral, context refresh, their reload |
| `Ctl`, `ScheduleProofs` | the command line client and what it reports; proofs about it and about `Schedule` |
| `Watch`, `WatchProofs` | the output of a session, its watchers and the waiting tools |
| `Workspace`, `WorkspaceProofs` | session manager, session order, active session, reload |
| `ProcessControl` | the processes behind one session, signals, exit detection |
| `McpProxy`, `McpProxyProofs` | the bridge from an agent's stdio to the server, both ends; the proofs are about `ProcessControl` too |
| `Viewers`, `ViewersProofs` | attached clients and who decides the sizes |
| `WebConsole`, `Access`, `WebConsoleProofs` | what browsers are shown; who gets in; proofs about both |
| `TerminalInput`, `MouseSelection` | keys, pastes and mouse reports; scrolling and selecting |
| `Frames`, `Recording`, `RecordingProofs` | when the display is drawn, which bytes are logged; database and replay; proofs about both and about `MouseSelection` |
| `Vt100Grid`, `Vt100Pen` | control functions on a grid; drawing attributes, as pure operators |
| `Vt100Writer` | what `contents_formatted` and `contents_diff` write |
| `Vt100Screen`, `Vt100Modes` | a screen and its followers; modes and their followers |
| `MC…` | instances for TLC |

The `MC` module of `McpProxy` also instantiates `ProcessControl`, that of
`WebConsole` `Access`, that of `Schedule` `Ctl`, that of `Recording` `Frames` and
`MouseSelection`, and `MCTerminal` `Vt100Screen`, `Vt100Modes` and `TerminalInput`.
These parts share nothing in the code either: a behaviour is one of one of them,
chosen initially by the variable `part`, so that one run checks them all.

### Input pipeline

* `pc` is the phase of `App::run`. A phase that takes the session mutex once
  per element (`HandleEvent`, `CheckDeferred`, `SendDeferred`, `Inject`) is one
  action per element, so that other threads act in between; the phases that hold
  it throughout (`drain_pending_input`, `drain_delayed_enters`) are split for
  readability and closed to other threads by `LockHeld`.
* `user` and `sched` are the two fields of `pending_input`. A text is its
  decoded length `Size`; an input is `offset`, `chunkEnd` and whether a gap
  applies before its next write; deadlines are choices made when the code looks
  at the clock.
* `lastInput` is `last_input_time` as a count of the writes that set it: the code
  compares it for equality with a stamp, and only a write changes it. Two writes
  at the same reading of the monotonic clock are taken to be told apart.
* A write may fail before or after the clock moves, may be cut short, and may
  take nothing. The child owns the screen: whether `input_matches` holds at a
  verification is its choice.
* `line`, `by` and `sent` are history: who typed into the child's input line
  since the last Enter, whose Enter that was, how many Enters a message got.

### Schedule

A round of the loop is `Tick`, one `HandleEvent` per event, `DrainDeferred`, and
the refreshes taken (`TakeRequests`), advanced one by one (`AdvanceRequest`) and
put back (`EndOfRefresh`), with MCP threads adding and removing between them.
What a drain has taken is in neither table while it runs. Deadlines
count down and the input clock counts up, capped at the threshold, so time needs
no bound. A delivery counts as typed at once; its chunks are `InputPipeline`'s.
A reload keeps the cron jobs under new identifiers and nothing else. Intervals
(`30s`, `5m`) are the constant `Interval`.

### Watch

Output is a sequence of marks, the screen its last `Height`. `pump` reads at
most `ReadMax`; the loop pumps and then compares the screen with each watcher's
last one; `wait_for`, `wait_for_idle` and `get_screen` are the threads of MCP
clients that pump and look between sleeps. The root session's injection watchers
are registered at startup and again when it is spawned anew. A reload registers the
watchers it saved again, without `match_whole_screen`; `ready` and `restored` are
history: whether a watcher was to look at the whole screen, and whether a reload
came since. The exit of the child is noticed by a pump, and a pump after it reads
nothing.

### Workspace, ProcessControl

`Workspace` has the manager's table, `names`, `next_id` and limit, the loop's
`order` and `active`, and a reload in three steps (save, clear close-on-exec,
exec and restore), each of which may fail; MCP threads act between them. A launch
starts the child first and may then be refused. A restored session knows one
pid, the foreground group when the state was saved.

`ProcessControl` looks inside one session: a shell and a job, signals that may
be ignored, the hangup when the master is closed or the leader exits, pids that
may be used again, `RealPty` and `RestoredPty`, and the kill with and without
escalation. `P!KilledEnd` speaks of what the code can reach: a session killed
through the tool is sent SIGTERM (or, as a real pty, portable-pty's kill) and its
terminal is closed.

### McpProxy

The client's main thread, one reader per connection that was ever opened, the
one channel they share, and in the server a reader and a handler per connection
with a queue and a cancel token. A reload breaks every connection and takes the
listener away for a while. What is written to a broken connection is lost or
fails, as the environment likes. `initialize` is repeated on a new connection. An
error of a reader does not say which connection it read, so the main thread may
replace one that is alive (`LeftOpen`). The cancel token is reset only for a
`tools/call` that the handler thread takes itself; what it drains behind a call,
or behind a request of another kind, meets the token as it is.

### Viewers, WebConsole, Access

A viewer's socket is a queue in each direction; the loop accepts, processes its
messages, updates it when the hash of its content has changed and drops it when
a write takes longer than 250 ms. Sizes are one number, and the terminal's panes
are what the layout gives them, cut to the smallest viewer. A client draws an
update on a screen of the smaller of its own size and the one it was told last
(`Canvas`); a session larger than that is drawn garbled (`Drawn`). It is told a
size only by `resize_pty_to_min_and_redraw`, not by the layouts of the main
terminal (a resize of the host, a pinned pane).

`WebConsole` has one publisher and, per browser, a push task and a reader task.
They share the viewer (what it watches, what it was sent) behind one mutex and
the socket behind another; a snapshot is immutable and may be old when used.
When a connection ends its push task is aborted, which waits for nothing: a poll
that has begun goes on, and may move the viewer after the reader has read it to
give its count back. `strayed` is a history variable that says so; `CountedFor`
is the session a connection is counted for.
`Access` is the web server's configuration, starting, stopping and refusing, the
three places where a token is made up, the reload that hands it on, and the page
(`app.js`) that logs in, reconnects, and guesses why it was refused. Credentials
are model values; hashing and comparing them is one equality.

### TerminalInput, MouseSelection, Ctl

`TerminalInput` chooses tokens (a key, a mouse report, a paste marker) and cuts
their bytes into reads anywhere. `process` is a fold over bytes with the fields
of `InputParser`; the attached client's loop is the other program of the module.
For the client the tokens include a lone ESC, typed or pasted: it takes the first
byte of what follows with it, so the key, the opening or the end of a paste behind
it is not seen (`BehindEscape`), and `DetachesOutsidePaste` says what holds then.
`UnderstoodAsTyped` compares what was recognised with the tokens typed, save when
a read ends inside the introducer of a mouse report (section 8).

`MouseSelection` numbers the lines of a session's output; a row of the screen is
one of them. The pin that follows output, the compensation for output under a
selection, and the copy at release are the operators of `app.rs`.

`Ctl` is one command after another, each a sequence of tool calls with a read
timeout; a call that was begun goes on in the server. The server may never
answer. A send is one call for each of its keys, and `cmd.next` is the key it is
at. A wait looks for its pattern in the whole text of the answer: the JSON around
the screen (`"screen"` stands for its keys, punctuation and the numbers of the
cursor) or the text of an error (`"ERROR"`). What JSON escapes in a screen, quotes,
backslashes and line ends, is left out: a pattern with one of them is not found
although it is shown.

### Frames, Recording

`Frames` has the display's dirty flags, `first_dirty_time`, the debounce and the
latency, the synchronized update mode, hint and help popups, resizes of the host
and of viewers, the texts of the web console, the ends of sessions, and who read how
much of a session. A frame is what it was drawn from. Every place that changes what
is on display is an action, also those that mark nothing: the frame that
`handle_resize`, `resize_pty_to_min_and_redraw`, `toggle_web` and `show_help` draw at
once (`RenderOnly`, suppressed in a synchronized update), and the switch of
`check_session_exit` from a session that has ended. `missed` is history: which
changes without a mark came since the last frame. A session may go on printing for
ever: a read may bring output that adds no line.
`Recording` is the database and `tttt replay`: which events are listed in which
recording, the position, the accumulated time, the speed, and the sizes. What a
query returns is a set of places in the table of events: those of a row of a
process, or, for a session without a row, all of them cut where it paused.

### Emulator

`Vt100Grid` and `Vt100Pen` translate the control functions as operators on
screens, `Vt100Writer` the two functions that write a screen as control
functions; a *token* is one control function. `Vt100Screen` applies every short
sequence of tokens and resizes to a grid filled in different ways and keeps a
follower that is sent the differences. Sizes may have one row or column, or none:
`panicked` says that the emulator panicked, at a text that wraps or is wide on one
row or column (`Underflows`) or at a size without rows or columns, and nothing
follows. `Vt100Modes` does the same for attributes,
input modes, titles and bells, with a browser, a copy and the diagnostics of
sequences that are not understood.

## 4. Runs and bounds

| Run | Shows | Bounds, and why they are enough |
|---|---|---|
| `one_session` | a text keeps one place, an entry is armed only after its own text and retries repeat only its own Enter (`OwnEnters`), and the queues implement `MessageLifecycle` | one paced reminder of 3 units in chunks of 2 (a full chunk, a last short one, a short write inside either), one injection, one keystroke and one foreign raw write (enough to invalidate a stamp, to wait under backpressure or to land between two chunks), two retries |
| `settles` | two scheduled texts for one session are never interleaved; every fired message leaves the queues | two texts of 2 units in chunks of 1, one deferring, one dropping; a second session so that the loop goes on when the first dies |
| `proxy` | calls are carried out and answered at most once, a cancel cuts short no call written after it but one that is drained while the token is still set, what was written to a living connection is answered, the end of the input ends the proxy unless a connection was left open with its reader; ends of processes are noticed and kills end them | two calls, one cancel, one reload, three connections (a reload costs one, a failing write at most another); a process prints once, two restores (the second meets a restored session) |
| `workspace` | table, names and order agree, a reload keeps what it saved, the loop finds a running session again and ends after the last | three ids for two places (a launch is refused, an id is used up, a place is used again), one name, one reload, one foreground job |
| `schedule` | deliveries keep their distance and the order of deferral, each reminder has one fate, all are served; commands say what was done, or found a text of the answer that is not of the screen (`CtlInv`), and end | two reminders close to each other, a waiting job slower than the idle threshold, one refresh, one keystroke, one reload; two commands, of which one may leave a call behind for the other |
| `terminal` | the grid stays well formed and printing panics only on one row or column, it is redrawn exactly, followers follow; what was typed is understood, an attached client detaches exactly outside a paste, but for what is right behind a lone ESC | grids 2×3 and 3×2 (a wide character fits, and is cut by a resize), resized to one row and to none as well, started empty or filled, 3 control functions after that: every pair of functions that disturb each other, and one to show it; four tokens (opening, ESC, end, key), two ticks |
| `watch` | one-shot watchers fire once, a ready prompt is noticed unless a reload restored its watcher, idle means silent, output is read | two marks of output, a screen of two, reads of one, one watcher of a pattern of two marks, one reload |
| `web` | counts agree with viewers until a push strays, viewers are shown a living session, moved only when they ask or must; public servers ask for a credential, reloads keep it, accepted pages get in | one viewer, two sessions, two requests; three tokens (given, and two made up), two starts, one reload |
| `viewers` | clients catch up unless the session was laid out larger than they were told, sessions grow back, panes fit | one client that connects twice, two sessions, sizes 1 and 2, two layouts |
| `recording` | events are listed once, positions are true, playing ends | one session identifier, two processes, an old database empty, without or with a pause |
| `display` | what is shown is current unless it is marked, but for two exceptions (`FramesInv`), what is dirty is redrawn (`Redrawn`); selections stay on their text | two sessions, one line and any output that adds none, one synchronized update, two events (a key, a resize, a tool call, a text of the console): a change, and what hides it; a latency of four debounces; for the mouse three rows, four lines of output, a history of three, four events |

The last run, `exit_drain`, refutes `Watch.FinalOutputShown`, which a comment in the
code states: output that is still in the terminal when the exit of the child is
noticed is never read. `PROJECT.json` quotes the comment under `findings`. The other
statements that TLC refutes are in section 8.

`RetryChecks` is 3 in the code and 2 here: 2 reaches a retry
after a retry. `MaxInjections` is 256 in the code and 1 here, so that the queue
fills. Deadlock is not checked in any run: every program here may really stop (the loop ends
when the user quits, a command when it has reported, a recording at its end), and
the counters of the bounds stop the environment.

The parameters of the modules allow more: several browsers and attached
clients, larger grids, longer outputs. Such instances take longer than a run is
meant to. A second attached client meets the first only in the smallest size,
which one client that comes twice, and leaves in every state, exercises as well.
Browsers meet in the watch counts, and there one does not stand for two: with two
of them a stray push takes the other one's count away. That the counts are right
up to such a push is proved for any number of browsers (section 6).

## 5. Fairness

* `InputPipeline.FairSpec` (`settles`): the loop's poll has a timeout, so some
  step of it is always taken. Deadlines are choices and time passes, hence strong
  fairness of `Inject`, of a drain that makes progress and of an Enter that is
  due; a drain that makes progress assumes that the child, or the operating
  system, in the end takes a byte or reports an error. A session nobody writes to
  becomes idle. Nothing is assumed of users, other threads or the ends of sessions.
* `Schedule`: weak fairness of the loop; strong fairness of time, which is
  enabled between rounds. MCP threads owe nothing.
* `Watch`: time passes; the loop and the waiting tools are strongly fair because
  they contend for one mutex, which each gives back before it sleeps.
* `Workspace`: the loop, a reload once begun and the detection of an exit go on.
* `McpProxy`: threads are scheduled and the new server opens its listener.
  `ProcessControl`: a process that was sent a deadly signal dies, the loop
  pumps, a kill once begun takes its steps. A process that ignores a signal need
  not die.
* `Viewers`: each round of the loop does its steps, the client's loop reads.
  `WebConsole`: the runtime polls the publisher and the two tasks of a
  connection. `Access`: the browser goes on with what the page awaits.
* `Frames`: the poll returns (with or without input), help is dismissed, the
  active session is read, a due frame drawn and the end of the active session
  looked for in each round; strong fairness of a poll in which time passes. `Recording`: the
  player's tick. `Ctl`: the read timeout passes and the client's own steps are
  taken; the server may never answer.

`terminal`, `one_session` and the counterexample of `exit_drain` use no fairness: the
latter ends in a state that is wrong.

## 6. Proofs

All theorems are of the specifications that TLC runs (`Spec`, or the `MCSpec` of
a module that joins two parts), for every value of the constants that the
modules' assumptions allow. The assumptions say that sets of messages, sessions
and viewers are finite where something is counted, that bounds are natural
numbers, and that `None` is none of the values it stands beside. Each invariant
below is inductive; an invariant of a run is a consequence of one.

| Module | Theorem | Statement of the run |
|---|---|---|
| `InputPipelineProofs` | `TypeCorrect` | `TypeOK` |
| | `ArmsOwnText`, `RetriesFollowOwnEnter`, `EntersAreOwn` | `OwnEnters`, which is `ArmedBySubmitting` and `RetryFollowsOwnEnter` |
| | `OnePlaceAlways`, `TextsInTurn` | `OnePlace`, `OneTextAtATime` |
| | `LifecycleImplemented` | `ImplementsLifecycle` |
| `ScheduleProofs` | `FatesKept`, `DeliveriesInTurn` | `ScheduleInv`, `DeliveredInTurn` |
| | `ReportsAreTrue` | `CtlInv` |
| `WatchProofs` | `OneShotsFireOnce`, `SilenceIsSilence` | `WatchInv`, `IdleMeansSilent` |
| `WorkspaceProofs` | `WorkspaceFits`, `SyncFollows`, `ReloadKeeps` | `WorkspaceInv`, `OrderFollows`, `ReloadKeepsSessions` |
| `McpProxyProofs` | `OutsideAlways`, `CancelsCutOwnCalls` | `OutsideInv`, `CancelIsLater` |
| `WebConsoleProofs` | `ConsoleAlways`, `ViewersMovedByRequest`, `ReloadsKeepAuth` | `ConsoleInv`, `MovedByRequest`, `ReloadKeepsAuth` |
| `ViewersProofs` | `SizesOnScreen`, `PanesAlwaysFit` | `TypeOK`; `PanesFit`, the safety part of `PanesFollow` |
| `RecordingProofs` | `RecordingsPlay` | `RecordingInv` |
| | `ShownCurrent`, `SelectionHolds`, `DisplayHolds` | `DisplayInv`, which is `FramesInv` and `SelectionInv` |

### Input pipeline

`TypeCorrect`. The inductive invariant is `TypeOK` with the fact that `ready` is
set only while the walk over the deferred list is at an existing element; without
it the delivery of a deferred message could not be typed. The part of `TypeOK`
that is about more than types is `Input`: `offset < chunkEnd <= Size`; it says
that the slice `data[offset..chunk_end]` is never out of bounds and never empty,
so that no drain can stall on a text. It rests on `ChunkLenBounds` and
`AdvancedType`, the arithmetic of `chunk_len` and of the advance after a short
write.

`ArmsOwnText`. The code arms an entry when the stamp it took after writing the
text still equals `last_input_time`. The invariant (`Stamp`) says what that
equality means: a stamp never exceeds the session's count; when it is equal, the
text of an entry that is not armed is on the input line, and for an armed entry
the line is empty and its own Enter was the last one. The proof goes through the
actions by the one fact they share (`StepEnters`): a step writes to at most one
session (`OneWrite`), keeps or drops entries, and adds an entry only with the
stamp of the write that put its text on the line.

`OnePlaceAlways`. That a message is in one queue is not inductive: it must also
be there once, and the queues of all keys count. `Apart` says so by sets: held
(deferred or waiting to be injected), being typed and typed messages, the ones
not fired yet, pairwise disjoint, each queue injective. Every step moves messages
forward only (`PlacesStep`), and this, not the invariant, is what the refinement
uses later.

`TextsInTurn` has the hypothesis `NoneByName`, that no text is addressed by a
session's name: addressed by name it goes to a queue of its own, and the statement
is false (section 8, last paragraph). The run `settles` has no names either. The
invariant: only the front of a queue has been written in part, and the queues of
names are empty.

`RetriesFollowOwnEnter` adds `Budget` to `Stamps` and `Apart`: an unarmed entry's
message has had no Enter, an armed one at most one more than its checks, and a
message without an entry that may still get one has had none. So an Enter that is
not the first belongs to an armed entry, and `Stamps` says what the session got
last.

`LifecycleImplemented` is the refinement: `Init` maps to `Begin`, and every step to
a step of `MessageLifecycle` or a stutter. `StageSets` replaces the mapping's
searches by the sets of `Apart`; the stage moves forward by `PlacesStep`, and a
step that sends an Enter is `Submit` by `Budget`.

### Schedule and commands

`ScheduleInductive` has the types, what each phase of a drain holds (`Phases`: what
was taken is in the loop's hands only while that drain runs), `OneFate` and the
refreshes. That a reminder has exactly one of seven fates is kept by moving it: for
each action the proof says which of the homes it leaves and which it enters, and
`JustOne` does the rest. A reminder may be deferred only once (`Once`), although a
cron job may be in the deferred list several times. For a refresh, `OnTime` says
that the time left until its restore is what is left of the delay since *its own*
`/clear`, and `OncePerReq` that no request is in two places, so that a restore is
never typed for another's. `DeliveriesInTurn` follows from which entry a step
delivers (`WhoIsDelivered`) and from what a step does to the order of the deferred
list (`OrderKept`): entries are taken from it or put behind it.

`CtlInductive`: the call of a command is there while it is awaited or was given up
(`CallsOK`). `SendsOK` is the heart of it: the keys typed for a send are the first
of its keys, one less than the one it is at until the call for that one is
answered well, and a call is answered well only after it typed. A call that was
given up may type later, but then its command has ended with an error, and no
later command is told its answer. `WaitsOK`: an answer speaks of what was on the
screen since the command began, and else holds only the texts around a screen
(`Framing`); so a wait that reports its pattern as found saw it, or the pattern is
one of those.

### Watch

`WatchInductive` has the terminal, the registry and the calls. Its heart is
`QuietAfterSilence`: when a running session's pipe is empty the last read is not
longer ago than the last write, because only a read empties the pipe and resets
that clock. `SilenceIsSilence` follows for whichever thread reads. `Spent` says that
a one-shot watcher that fired is removed and an unset one has not fired, which a
reload, a second registration and a respawn of the root all have to keep.

### Workspace

`WorkspaceInductive` joins the manager (`ManagerOK`), the loop (`LoopOK`) and what a
reload in progress has saved (`SavedOK`). `IdsAreFresh` alone is not kept by a
reload, which puts an old counter back while MCP threads launch: `SavedOK` says
that saved and shown identifiers are below the counter that was saved *after*
them, and that whoever is still there under a saved identifier has the saved
name. `SyncFollows` rests on `KeptInOrder` and `AscendingLists`, what
`reconcile_session_order` keeps of the order and how it adds the rest.

### Proxy and processes

`ProxyInductive`: a request is in one of nine kinds of places, at one connection at
most, once (`Tracked`); before the server's work it has not been carried out, past
it exactly once and not answered (`Counted`). A step keeps, loses or moves a
request (`Moved`), and nothing that was carried out moves back, so what is
written a second time has not been carried out. `ConnectionsOK` says who reads
which connection and that a connection that is greeted carries the greeting only,
else the reply to it could be taken for another. `Covered` is for
`CancelsCutOwnCalls`: whatever stands before a cancel, in the channel or on a
connection, was written before it, and a set token meets only such a call, or what
is drained while the thread holds one, or holds a request for which the token is not
reset. The theorem names that exception; `CancelHitsEarlier`, without it, is refuted
(section 8).
`CallsAtMostOnce` is the proxy's part of `OutsideAlways`; `ControlInductive` adds to
`ControlInv` only the types its steps need.

### Web console and access

`WebInductive` has the server (`ServerOK`), the connections (`ConnectionOK`) and the
exact counts: `watched[s]` is the number of viewers counted for `s`. One step moves
one connection (`ConnectionStep`), and either its count follows (`Recounts`,
`MovesToCounts`) or the step is the stray push. That snapshots, however old, list
only sessions that were created (`SnapOK`) is needed so that nobody is moved to
a session that never was. The attempt to prove the counts without the exception
failed at the push that ends its poll after `CloseRead`, and TLC showed it with
one browser, whose count leaks, and with two, where the other one's is taken away
(`CountsAlwaysAgree`, section 8).

`AccessInductive`: what the server asks for is what the configuration says
(`Stored`), because a token that is made up is stored before it is used; this holds
of the server before a reload as well, hence `ReloadsKeepAuth`. A page waits for
one of four things, and before it is loaded for nothing (`PageInv`).

### Sizes and panes

`ViewersInductive` has the sessions and their sizes (`SessionsOK`), the connections
(`ConnsOK`: one that is served has a session and a size, one that is unknown has
none), the sockets within their buffers and the clients. The sizes rest on the
arithmetic of the layout (`CellIs`: a pane is never empty and never wider than the
terminal) and on the least size of the viewers (`LeastIs`, by well-founded
induction). `PanesAlwaysFit` needs that a viewer that is removed takes its size
with it in the same step in which the panes are laid out.

### Recordings, display and selections

`RecordingInductive`: events are in the order of their times (`LogOK`), rows and
live sessions have their types (`TablesOK`), and wherever the player is, the last
event played is not later, and the next one not earlier, than the playback time
(`PlaceAgrees`). Every key and the tick keep that, because places only move over
events in order; `NthPlace` says that the n-th place of a set is what the code's
list has at that position, proved by induction over well-founded sets of numbers.
`Listed` is the part about the list: an event with a process is in the recording of
its row, one without is in exactly one chunk between two pauses. The exception,
an old row without a process that claims a session another process used again,
stands in `ListedOnce`.

`FramesInductive` adds to `ShownIsCurrent` only `SyncMarked`: while the active session is
in a synchronized update, in which nothing can be drawn, something is marked or
excepted. So the help that cannot be taken away, and the display that a resize
cleared, are drawn when the update ends. `ShownCurrent` keeps the exceptions of the
property, what a tool call read of a session on display and the switch from a session
that has ended: there is no mark in the code for either.

`SelectionInductive` adds `Straight`: unless the wheel turned, the anchor's row is
as far below the row that was pressed as the view was scrolled since, and the
pressed line is counted from where the screen began then. It holds in every
session; that the user still looks at the one that was pressed is needed only where
the text is copied (`SteadyLines`).

## 7. Only model-checked

* Liveness under fairness (`EventuallySettled`, `GetsInAndServed`, the answers of the proxy and
  the others) and everything that needs `ENABLED`.
* The emulator (`TerminalInv`, `ReproducesScreen`, `BrowserFollows`, `CopyFollows`)
  and `TerminalInput` (`KeysInv`, `UnderstoodAsTyped`): what a screen, a follower or
  a read is, is defined by folds over control functions and bytes, and would need
  induction over them with an operator as the induction hypothesis.
* The panes' growing back (`GrowsBack`, the other part of `PanesFollow`), which is
  liveness.

## 8. Statements the code does not keep

These definitions say what a comment, a document or a reader would expect; each
is stated in its module, and TLC refutes it. To reproduce one, put its name
into the run's cfg, under `PROPERTY` if it is an action or a temporal formula and
under `INVARIANT` if not; one of an instanced part needs a definition in the `MC`
module, such as `KeepsGood == A!KeepsGood`.

| Statement | Run | Why |
|---|---|---|
| `InputPipeline.UserInputFirst` | `one_session` | a fresh scheduled message is written before user bytes that wait under backpressure (`src/pending_input.rs:119`) |
| `InputPipeline.AcceptedWhenIdle` | `one_session` | the idle check and the delivery of a deferred event lock the session separately (`src/app.rs:3069`) |
| `InputPipeline.InjectionsApart` | `one_session` with `Injected = {i1, i2}`, `MaxInjections = 2` | the next injection is typed before the Enter of the one before (`src/app.rs:1903`) |
| `McpProxy.RequestRetried` | `proxy` | only the line whose write failed is written again; a request already written is lost with its connection (`crates/tttt-mcp/src/proxy.rs:312`) |
| `McpProxy.CancelHitsEarlier` | `proxy` | the token is not reset for a call that is drained behind a cancelled one, or behind a request that is not a `tools/call` (`crates/tttt-mcp/src/proxy.rs:538-569`) |
| `McpProxy.EofAlwaysEnds` | `proxy` | a second reconnection leaves a connection open with its reader (`crates/tttt-mcp/src/proxy.rs:300`) |
| `ProcessControl.NoOrphans` | `proxy` | a restored session is sent one SIGTERM and a hangup; `kill_with_escalation` is not called by the tool, and `AnyPty` does not forward it (`docs/user-stories/001-session-lifecycle.md:68`) |
| `ProcessControl.AlwaysNoticed` | `proxy` | a restored session that knows the pid of a job sees that job end or go on, not the shell; the probe by a read of no bytes never fails (`restored.rs:231`) |
| `ProcessControl.NothingSwallowed` | `proxy` | the probe of a restored session may read a byte and drop it |
| `ProcessControl.OwnOnly` | `proxy` | a saved pid that was used again gets the signal |
| `Workspace.SessionsSurvive` | `workspace` | a session launched by a tool while the state is being saved is lost, as all are if the exec fails after close-on-exec was cleared |
| `WebConsole.NeverLeftOut` | `web` | a viewer whose session is created and gone before it was published, or who asks for the root to be closed, is left with none |
| `WebConsole.CountsAlwaysAgree` | `web` | aborting the push task waits for nothing, and a poll it is in may move the viewer whose count is being given back (`src/web/mod.rs:512`) |
| `Access.KeepsGood` | `web` | the server comes back between a failed attempt and the probe: the page takes its credential for refused (`src/web/static/app.js`) |
| `Access.AsksForLogin` | `web` | whether a login is needed is read once, when the page is loaded |
| `Access.ReloadStartsRunning` | `web` | starting sets the port in the configuration before it succeeds, and giving up does not clear it |
| `Watch.FinalOutputShown` | `exit_drain` | `pump` reads nothing once the exit was noticed (`crates/tttt-pty/src/session.rs:118`) |
| `Watch.ReadyAcrossReloads` | `watch` | `match_whole_screen` is not saved (`src/reload.rs:94`) |
| `Viewers.NeverClipped` | `viewers` | a client is told its size only by `resize_pty_to_min_and_redraw`; a resize of the host or a pinned pane lays the session out larger (`src/attach.rs:689`) |
| `Viewers.NoDrift` | `viewers` | panes change with the end of a session, a switch by a tool or a reload without a layout |
| `Viewers.FitsViewers` | `viewers` | the same: the session that comes on display keeps its size |
| `Recording.SeekIsReplay` | `recording` | playing again from the start begins at the size reached, not at the launch size |
| `Frames.AllIsShown` | `display` | a tool call that reads a session in another thread leaves no mark, nor does `check_session_exit`, which goes on with another session after the frame of the round (`src/app.rs:2943`) |
| `Frames.DrawnInTheEnd` | `display` | a mark of a user's event has no first time, so the limit of the latency never comes while output goes on (`src/app.rs:1751`) |
| `Frames.HelpIsShown` | `display` | the help is not drawn in a synchronized update, and keys still dismiss it |
| `Frames.OutputLogged` | `display` | `Session::pump` in tool handlers drops the bytes it read, against "All PTY output is automatically logged" (`README.md:53`) |
| `TerminalInput.IntroducerKept` | `terminal` | a report cut inside `ESC` or `ESC [` is not held (`crates/tttt-tui/src/input.rs:216`) |
| `TerminalInput.DetachesAlways` | `terminal` | what follows a lone ESC is not looked at (`src/attach.rs:53-58`, `88-93`) |
| `MouseSelection.CopiesAll` | `display` | what a drag scrolled off the screen is not copied |
| `MouseSelection.CopiesOwn` | `display` | a switch of the session is not told to the selection |
| `MouseSelection.AnchorHoldsFar` | `display` | the anchor stops at row 0 when the drag scrolls on |
| `Ctl.PatternOnScreen` | `schedule` | the pattern is looked for in all of the answer (`src/ctl.rs:657`) |
| `Ctl.HasSessionTells` | `schedule` | the answer is searched for `pty-` and the id as it was typed, so `pty-pty-1` for `pty-1` |
| `Ctl.KilledIsGone` | `schedule` | an answer that says an error is reported as success |
| `Ctl.KillAllKills` | `schedule` | the list is read line by line, and it is one line |
| `Ctl.AnsweredOnce` | `schedule` | a rate-limit dialog is answered by the server after its client has given up, and by the next command too |
| `Ctl.EnterSubmitsOwn` | `schedule` | text and Enter are two calls (`src/ctl.rs:439`) |
| `Vt100Screen.NeverPanics` | `terminal` with `Sizes <- TinySizes` | with one row a wrap underflows (`crates/vt100/src/grid.rs:700`), with one column a wide character does (`screen.rs:896`) |
| `Vt100Screen.FollowerShowsSnapshot` | `terminal` | `contents_diff` treats a wrapped row as drawn when it was not (`crates/vt100/src/screen.rs:378`) |
| `Vt100Modes.ReportsAll` | `terminal` | sequences that came before a tool asked are not counted |
| `Vt100Modes.BrowserHasModes` | `terminal` | a mouse mode or encoding that was turned off is not written by `input_mode_formatted` |

Some of these statements are the repository's own words:

* `EofAlwaysEnds`: "Set to None when draining to allow the channel to close."
  (`crates/tttt-mcp/src/proxy.rs:247`). A `SocketError` does not say whose it is:
  when a failed write has already reconnected, the error of the old reader connects
  again and replaces a socket whose reader lives. At the end of stdin only the
  newest socket is shut; that reader keeps its sender, and the channel never closes.
* `PatternOnScreen`: "Pattern to wait for on screen" (`src/ctl.rs:139`). The answer is
  the JSON of `{"screen": .., "cursor": ..}` (`handler.rs:234`) or `ERROR: ..`
  (`ctl.rs:302-308`); a wait for "cursor" ends at once.
* `NeverPanics`: "we assume self.pos.row is always valid, and so prev_pos.row must be
  valid because it is always less than or equal to self.pos.row"
  (`crates/vt100/src/grid.rs:703-705`). Nothing refuses a size of one row or column:
  `handle_pty_resize` takes any number (`handler.rs:272-286`), and a viewer of two
  rows leaves its session one (`src/app.rs:3368`).
* `ReadyAcrossReloads`: "the agent can paint its ready screen before the first check,
  or paint the pattern across two checks, and a diff-only match would then never
  fire" (`notification.rs:30-34`). `SavedWatcher` has no `match_whole_screen`, and
  `restore_watchers` registers every watcher without it (`src/app.rs:1135`).
* `NeverClipped`: "This ensures viewers with small screens (e.g. phones) see content
  that fits their terminal rather than truncated/clipped output."
  (`src/app.rs:3355-3356`). `apply_pane_resize`, called on its own by `handle_resize`
  and by the toggle of a pinned pane (`src/app.rs:2783`), gives the sessions the size
  of the host again and tells no client.
* `DrawnInTheEnd`: "Max latency exceeded: RENDER_DEBOUNCE_MS * 4 (200ms) since the
  burst started, even if data is still arriving"
  (`docs/technotes/001-render-pipeline-and-debouncing.md:51-52`). Only output that
  finds the display clean sets `first_dirty_time`; after a key has marked it, output
  in every round keeps the frame from being drawn.
* `DetachesAlways`: "Prefix key should trigger detach" (`src/attach.rs:138`). A byte
  that does not go on with a marker is not looked at itself; ESC before a paste hides
  its opening in the same way, and pasted text that ends in ESC hides its end.

Met on the way, and in the models as the code has them: the sequence that turns
bold off turns dim off too, so a difference between two pens can lose one of
them (`Vt100Pen!LosesIntensity`); the expiry of a hint marks nothing; a session that never ends
its synchronized update keeps the display as it is; a deferred message addressed
by a name goes to a queue of its own and can be interleaved with one addressed
by the identifier (`src/app.rs:3071`, so `OneTextAtATime` is stated with `Name`
empty); a call may
wait for minutes when the client's read timeout is 30 seconds; a web server that
was public once asks for its token on loopback too.

## 9. Not modelled

* A size without rows or columns panics in `Vt100Screen` where its number less one
  is taken, as a build with overflow checks does; one without panics at the next
  character.
* What a frame looks like when a hint runs out or the uptime grows: it is seen in the
  next frame.
* What a frame or a widget looks like, the sidebar's messages, the scratchpad,
  the clipboard program, captures of a session, the dump of a session's state:
  each is a function of state that is modelled, or a list nobody else reads.
* Split panes in `MouseSelection`, and columns: one pane of whole rows.
* The tokenizer of the emulator is the `vte` crate; the emulator's scrollback
  holds copies of rows and is modelled as far as `MouseSelection` counts them.
* TextFSM templates, tool schemas, key names and the parsing of intervals, of
  configuration files and of arguments are pure conversions at the edge.
* TLS, the origin check, hashing of passwords and static files of the web server.
* The text log, and failures of writes to the logs, which every caller ignores.
* Commands of `tttt-ctl` that only show an answer, and the wait for a file.
* The sandbox crate writes a profile for the operating system: one string,
  built once.
