-------------------------------- MODULE Watch --------------------------------
(***************************************************************************)
(* The output of one session and those who look at it.  The child writes   *)
(* into its terminal at any time; whoever holds the mutex of the sessions  *)
(* reads what is there and puts it on the screen (pump).  The event loop   *)
(* pumps and then compares the screen with what each notification watcher  *)
(* saw last; the threads of MCP clients pump and look while they wait for  *)
(* a pattern (wait_for) or for silence (wait_for_idle).                    *)
(*                                                                         *)
(* Output is a sequence of marks: "o" and "p" are text, "c" clears the     *)
(* screen.  The screen holds the last Height marks.                        *)
(***************************************************************************)
EXTENDS Integers, Sequences, FiniteSets, SequencesExt, FiniteSetsExt

CONSTANTS
    Mark,         \* what the child may write
    Watcher,      \* registrations of notification watchers
    Pattern,      \* the text watchers and wait_for look for
    Height,       \* marks on the screen
    ReadMax,      \* marks one read returns at most (the 32 KiB buffer)
    Timeout,      \* ticks until wait_for and wait_for_idle give up
    Threshold,    \* ticks of silence that are idle
    MaxOutput,    \* bound: marks the child writes
    MaxFired,     \* bound: firings of a recurring watcher
    MaxReloads,   \* bound: live reloads
    None

ASSUME MarkAssumption == Mark \subseteq {"o", "p", "c"}
ASSUME PatternAssumption == Pattern \in Seq({"o", "p"}) /\ Pattern # <<>>
ASSUME BoundAssumption ==
    /\ {Height, ReadMax, Timeout, Threshold} \subseteq Nat \ {0}
    /\ {MaxOutput, MaxFired, MaxReloads} \subseteq Nat

VARIABLES
    child,      \* "running" or "exited"
    pipe,       \* written by the child and not read yet
    written,    \* how much the child has written
    silence,    \* ticks since the child last wrote
    status,     \* of the session: "running", "exited", or "gone" from the table
    screen,
    quiet,      \* ticks since output was last read (last_output_time)
    holder,     \* who holds the mutex between a read and what follows it
    loop,       \* where the event loop is: "pump" or "check"
    watch,      \* [Watcher -> the registration]
    fired,      \* [Watcher -> how often it queued its injection]
    call,       \* a call of a client that looks at the session
    reloads

childVars == <<child, written, silence>>
sessionVars == <<status, screen, quiet>>
watchVars == <<watch, fired>>
vars == <<childVars, pipe, sessionVars, holder, loop, watchVars, call, reloads>>

Kind == {"wait_for", "wait_for_idle", "idle_ignoring", "get_screen"}

ASSUME NoneAssumption == None \notin Kind \cup {"loop", "client"}

(* whole is match_whole_screen.  History: ready, whether the watcher was   *)
(* registered with it, and restored, whether by a reload since.            *)
Unset == [state |-> "unset", whole |-> FALSE, oneShot |-> TRUE, last |-> None,
          ready |-> FALSE, restored |-> FALSE]
NoCall == [kind |-> None, pc |-> "none", left |-> 0, last |-> None, stable |-> 0]

Waiting == call.pc \in {"look", "judge", "sleep"}

(* A watcher matches what is new on the screen or all of it, and goes away *)
(* when it has fired or stays.                                             *)
Registered(whole, oneShot) ==
    [state |-> "set", whole |-> whole, oneShot |-> oneShot, last |-> None,
     ready |-> whole, restored |-> FALSE]

(* A fresh agent may get a watcher that notices when it is ready, to be    *)
(* handed its instructions once.                                           *)
setup_startup_inject(ws) ==
    {ws} \cup {[ws EXCEPT ![w] = Registered(TRUE, TRUE)] : w \in {x \in Watcher : ws[x] = Unset}}

Ended(outcome) == [NoCall EXCEPT !.pc = outcome]

Init ==
    /\ child = "running" /\ pipe = <<>> /\ written = 0 /\ silence = 0
    /\ status = "running" /\ screen = <<>> /\ quiet = 0
    /\ holder = None /\ loop = "pump"
    /\ watch \in setup_startup_inject([w \in Watcher |-> Unset]) /\ fired = [w \in Watcher |-> 0]
    /\ call = NoCall
    /\ reloads = 0

-----------------------------------------------------------------------------
(* The child, and time *)

ChildWrites ==
    /\ child = "running" /\ written < MaxOutput
    /\ \E m \in Mark : pipe' = Append(pipe, m)
    /\ written' = written + 1 /\ silence' = 0
    /\ UNCHANGED <<child, sessionVars, holder, loop, watchVars, call, reloads>>

ChildExits ==
    /\ child = "running" /\ child' = "exited"
    /\ UNCHANGED <<written, silence, pipe, sessionVars, holder, loop, watchVars, call, reloads>>

Sooner(n) == IF n > 0 THEN n - 1 ELSE 0
Later(n) == IF n < Threshold THEN n + 1 ELSE n

Tick ==
    /\ silence' = Later(silence) /\ quiet' = Later(quiet)
    /\ call' = IF Waiting THEN [call EXCEPT !.left = Sooner(@), !.stable = Later(@)] ELSE call
    /\ UNCHANGED <<child, written, pipe, status, screen, holder, loop, watchVars, reloads>>

-----------------------------------------------------------------------------
(* Reading output *)

(* The screen once text has been printed on it: the last Height marks, of  *)
(* those that followed the last clear.                                     *)
Shown(s, text) ==
    LET all == s \o text
        gone == {n \in 0 .. Len(all) : /\ Len(all) - n <= Height
                                       /\ \A i \in n + 1 .. Len(all) : all[i] # "c"}
    IN  SubSeq(all, Min(gone) + 1, Len(all))

Occurs(text) ==
    \E i \in 1 .. (Len(text) + 1 - Len(Pattern)) : SubSeq(text, i, i + Len(Pattern) - 1) = Pattern

(* A mutant of ReadSome: reading output does not set last_output_time.     *)
ReadsUntimed ==
    LET n == IF Len(pipe) < ReadMax THEN Len(pipe) ELSE ReadMax
    IN  /\ IF status = "running" /\ n > 0
           THEN /\ screen' = Shown(screen, SubSeq(pipe, 1, n))
                /\ pipe' = SubSeq(pipe, n + 1, Len(pipe))
           ELSE UNCHANGED <<screen, pipe>>
        /\ UNCHANGED quiet

(* The read of pump; an exited session is not read any more.               *)
ReadSome ==
    LET n == IF Len(pipe) < ReadMax THEN Len(pipe) ELSE ReadMax
    IN  IF status = "running" /\ n > 0
        THEN /\ screen' = Shown(screen, SubSeq(pipe, 1, n))
             /\ pipe' = SubSeq(pipe, n + 1, Len(pipe))
             /\ quiet' = 0
        ELSE UNCHANGED <<screen, pipe, quiet>>

PumpRead(who) ==
    /\ holder = None /\ holder' = who
    /\ status # "gone" /\ ReadSome
    /\ UNCHANGED <<childVars, status, reloads>>

(* update_status, by when the child may have gone on.                      *)
StatusNow == IF status = "running" /\ child = "exited" THEN "exited" ELSE status

PumpDone(who) ==
    /\ holder = who /\ holder' = None
    /\ status' = StatusNow
    /\ UNCHANGED <<childVars, pipe, screen, quiet, reloads>>

-----------------------------------------------------------------------------
(* The event loop and the watchers *)

LoopReads ==
    /\ loop = "pump" /\ PumpRead("loop")
    /\ UNCHANGED <<loop, watchVars, call>>
LoopPumped ==
    /\ PumpDone("loop") /\ loop' = "check"
    /\ UNCHANGED <<watchVars, call>>

CommonPrefix(s, t) ==
    CHOOSE n \in 0 .. Len(s) :
        /\ n <= Len(t) /\ SubSeq(s, 1, n) = SubSeq(t, 1, n)
        /\ n < Len(s) /\ n < Len(t) => s[n + 1] # t[n + 1]
NewContent(prev, now) == SubSeq(now, CommonPrefix(prev, now) + 1, Len(now))

MatchesNew(w) ==  \* mutant: every watcher looks at new content only
    watch[w].last # None /\ Occurs(NewContent(watch[w].last, screen))

(* check_session: the first look of an ordinary watcher only takes a       *)
(* snapshot; later ones match what is new since the snapshot.              *)
Matches(w) ==
    IF watch[w].whole THEN Occurs(screen)
    ELSE watch[w].last # None /\ Occurs(NewContent(watch[w].last, screen))

KeepsFired(w, hit) ==  \* mutant: a one-shot watcher is not removed
    [watch[w] EXCEPT !.last = IF watch[w].whole THEN @ ELSE screen]

Checked(w, hit) ==
    IF hit /\ watch[w].oneShot THEN [watch[w] EXCEPT !.state = "removed", !.last = None]
    ELSE [watch[w] EXCEPT !.last = IF watch[w].whole THEN @ ELSE screen]

CheckWatchers ==
    /\ loop = "check" /\ holder = None
    /\ loop' = "pump"
    /\ IF status = "gone" THEN UNCHANGED watchVars
       ELSE LET due == {w \in Watcher : watch[w].state = "set"}
                hit == {w \in due : Matches(w) /\ fired[w] < MaxFired}
            IN  /\ watch' = [w \in Watcher |-> IF w \in due THEN Checked(w, w \in hit) ELSE watch[w]]
                /\ fired' = [w \in Watcher |-> fired[w] + (IF w \in hit THEN 1 ELSE 0)]
    /\ UNCHANGED <<childVars, pipe, sessionVars, holder, call, reloads>>

(* With the session gone the loop has nothing to pump.                     *)
LoopSkips ==
    /\ loop = "pump" /\ status = "gone" /\ holder = None
    /\ loop' = "check"
    /\ UNCHANGED <<childVars, pipe, sessionVars, holder, watchVars, call, reloads>>

(* The registry, for the tools of the MCP clients.                         *)
add_watcher(w, oneShot) ==
    /\ watch[w].state = "unset"
    /\ watch' = [watch EXCEPT ![w] = Registered(FALSE, oneShot)]
    /\ UNCHANGED <<childVars, pipe, sessionVars, holder, loop, fired, call, reloads>>
remove_watcher(w) == [watch EXCEPT ![w].state = "removed", ![w].last = None]

NotifyOnPrompt(w) == add_watcher(w, TRUE)
NotifyOnPattern(w) == add_watcher(w, FALSE)

NotifyCancel(w) ==
    /\ watch[w].state = "set"
    /\ watch' = remove_watcher(w)
    /\ UNCHANGED <<childVars, pipe, sessionVars, holder, loop, fired, call, reloads>>

-----------------------------------------------------------------------------
(* The call of an MCP client: wait_for, wait_for_idle (with an             *)
(* ignore_pattern: "idle_ignoring") or get_screen.                         *)

Call(kind) ==
    /\ call.pc = "none"
    /\ call' = [kind |-> kind, pc |-> "look", left |-> Timeout, last |-> None, stable |-> 0]
    /\ UNCHANGED <<childVars, pipe, sessionVars, holder, loop, watchVars, reloads>>

ClientReads ==
    /\ call.pc = "look" /\ PumpRead("client")
    /\ UNCHANGED <<loop, watchVars, call>>

(* What the look finds; a call that goes on looks at its deadline next.    *)
Filtered(s) == SelectSeq(s, LAMBDA m : m # "o")
Stable == IF call.last = Filtered(screen) THEN call.stable ELSE 0

Looked ==
    CASE call.kind = "wait_for" ->
            IF Occurs(screen) THEN Ended("answered") ELSE [call EXCEPT !.pc = "judge"]
      [] call.kind = "wait_for_idle" ->
            IF quiet >= Threshold THEN Ended("answered") ELSE [call EXCEPT !.pc = "judge"]
      [] call.kind = "idle_ignoring" ->
            IF Stable >= Threshold THEN Ended("answered")
            ELSE [call EXCEPT !.pc = "judge", !.last = Filtered(screen), !.stable = Stable]
      [] call.kind = "get_screen" -> Ended("answered")

(* get_screen pumps on, without giving the mutex back, until the session   *)
(* has exited or its time is up.                                           *)
PumpsOn == call.kind = "get_screen" /\ StatusNow = "running" /\ call.left > 0

ClientLooks ==
    /\ ~PumpsOn /\ PumpDone("client")
    /\ call' = Looked
    /\ UNCHANGED <<loop, watchVars>>

ClientPumpsOn ==
    /\ PumpsOn /\ holder = "client" /\ ReadSome
    /\ UNCHANGED <<childVars, status, holder, loop, watchVars, call, reloads>>

ClientJudges ==
    /\ call.pc = "judge"
    /\ call' = IF call.left = 0 THEN Ended("gave_up") ELSE [call EXCEPT !.pc = "sleep"]
    /\ UNCHANGED <<childVars, pipe, sessionVars, holder, loop, watchVars, reloads>>

(* Cancellation is looked at before each look.                             *)
ClientWakes ==
    /\ call.pc = "sleep"
    /\ call' \in {[call EXCEPT !.pc = "look"], Ended("gave_up")}
    /\ UNCHANGED <<childVars, pipe, sessionVars, holder, loop, watchVars, reloads>>

ClientFails ==
    /\ call.pc = "look" /\ holder = None /\ status = "gone"
    /\ call' = Ended("gave_up")
    /\ UNCHANGED <<childVars, pipe, sessionVars, holder, loop, watchVars, reloads>>

-----------------------------------------------------------------------------
(* The session is killed; tttt reloads itself *)

Closed == status' = "gone" /\ child' = "exited" /\ pipe' = <<>> /\ screen' = <<>>

Kill ==
    /\ holder = None /\ status # "gone" /\ Closed
    /\ UNCHANGED <<written, silence, quiet, holder, loop, watchVars, call, reloads>>

(* prepare_reload and restore_watchers: every watcher is registered again  *)
(* as an ordinary one without a snapshot, as match_whole_screen is not     *)
(* saved; the calls of clients end; an exited session is not restored.     *)
Restored(w) ==
    IF watch[w].state = "set"
    THEN [watch[w] EXCEPT !.whole = FALSE, !.last = None, !.restored = TRUE]
    ELSE watch[w]

restore_watchers == [w \in Watcher |-> Restored(w)]

ReloadWith(restored) ==
    /\ reloads < MaxReloads /\ reloads' = reloads + 1
    /\ loop = "pump" /\ holder = None
    /\ IF StatusNow = "running" THEN restored ELSE Closed
    /\ quiet' = 0
    /\ call' = IF Waiting THEN Ended("gave_up") ELSE call
    /\ UNCHANGED <<written, silence, holder, loop, fired>>

Reload ==
    /\ watch' = restore_watchers
    /\ ReloadWith(UNCHANGED <<status, child, pipe, screen>>)

(* A reload that starts the agent of the root session afresh: its terminal *)
(* and its process are replaced under the watchers that look at it.        *)
RespawnRoot ==
    /\ watch' \in setup_startup_inject(restore_watchers)
    /\ ReloadWith(child' = "running" /\ pipe' = <<>> /\ screen' = <<>> /\ status' = "running")

-----------------------------------------------------------------------------
LoopNext == LoopReads \/ LoopPumped \/ CheckWatchers \/ LoopSkips
ClientNext ==
    ClientReads \/ ClientLooks \/ ClientPumpsOn \/ ClientJudges \/ ClientWakes \/ ClientFails

Next ==
    \/ ChildWrites \/ ChildExits \/ Tick
    \/ LoopNext
    \/ \E kind \in Kind : Call(kind)
    \/ ClientNext
    \/ \E w \in Watcher : NotifyOnPrompt(w) \/ NotifyOnPattern(w) \/ NotifyCancel(w)
    \/ Kill \/ Reload \/ RespawnRoot

(* The loop runs and time passes.  A thread that wants the mutex gets it:  *)
(* the loop gives it back and sleeps in poll in every iteration.           *)
Fairness == WF_vars(Tick) /\ SF_vars(LoopNext) /\ SF_vars(ClientNext)

Spec == Init /\ [][Next]_vars
FairSpec == Spec /\ Fairness

-----------------------------------------------------------------------------
(* Properties *)

TypeOK ==
    /\ child \in {"running", "exited"} /\ pipe \in Seq(Mark) /\ written \in 0 .. MaxOutput
    /\ Len(pipe) <= written /\ {silence, quiet} \subseteq 0 .. Threshold
    /\ status \in {"running", "exited", "gone"} /\ (status # "running" => child = "exited")
    /\ screen \in Seq({"o", "p"}) /\ Len(screen) <= Height
    /\ holder \in {None, "loop", "client"} /\ loop \in {"pump", "check"}
    /\ \A w \in Watcher : /\ watch[w].state \in {"unset", "set", "removed"}
                          /\ watch[w].last # None => Len(watch[w].last) <= Height
    /\ fired \in [Watcher -> 0 .. MaxFired]
    /\ call.kind \in Kind \cup {None} /\ call.left \in 0 .. Timeout /\ call.stable \in 0 .. Threshold
    /\ reloads \in 0 .. MaxReloads

(* A one-shot watcher queues its text once at most, whatever happens on    *)
(* the screen afterwards and however often tttt reloads in between.        *)
OneShotOnce == \A w \in Watcher : watch[w].oneShot => fired[w] <= 1

(* The registry, the reads and the calls hold what they may, and a one-shot *)
(* watcher that has fired is gone for good (check_session).                *)
WatchInv == TypeOK /\ OneShotOnce

(* A watcher that was set up to notice that the agent is ready does so     *)
(* even if the ready screen was painted before the first check or across   *)
(* several: it is never left with the pattern on the screen for ever,      *)
(* except one that a reload has registered again (notification.rs:30-36).  *)
Overlooked(w) ==
    watch[w].state = "set" /\ watch[w].ready /\ Occurs(screen) /\ status # "gone"
ReadyNoticed == \A w \in Watcher : []<>~(Overlooked(w) /\ ~watch[w].restored)

(* The same across reloads.                                                *)
(* TLC refutes this, see the README.                                       *)
ReadyAcrossReloads == \A w \in Watcher : []<>~Overlooked(w)

(* Silence is reported only if the child has been silent: what it has      *)
(* written counts, whoever reads it, except what came after the read.      *)
IdleMeansSilent ==
    [][call.kind = "wait_for_idle" /\ call'.pc = "answered" /\ status = "running"
       => silence >= Threshold \/ pipe # <<>>]_vars

(* What is written is read while the session runs.                         *)
OutputIsRead == pipe # <<>> ~> (pipe = <<>> \/ status # "running")

(* What a running session writes comes to the loop and to the watchers.    *)
OutputNoticed == OutputIsRead /\ ReadyNoticed

(* get_screen of a session that has exited shows all that it wrote         *)
(* (handler.rs: "Poll until process exits and output is fully drained").   *)
FinalOutputShown ==
    [][call.kind = "get_screen" /\ call'.pc = "answered" /\ status' = "exited"
       => pipe' = <<>>]_vars
=============================================================================
