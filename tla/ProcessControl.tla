--------------------------- MODULE ProcessControl ---------------------------
(***************************************************************************)
(* The processes of one session: how tttt learns that they ended and how   *)
(* it ends them.  A session has a shell, tttt's child and the leader of    *)
(* the terminal's session, and the shell may run a job in a process group  *)
(* of its own in the foreground.  Until a live reload the session is a     *)
(* RealPty; after it a RestoredPty, which has the master's descriptor and, *)
(* as the child's pid, the foreground group of the moment of the reload.   *)
(*                                                                         *)
(* Signals, the hangup when the master is closed or the leader exits, and  *)
(* portable-pty's kill are the environment's.  A read of no bytes reports  *)
(* no error, as on Linux.                                                  *)
(***************************************************************************)
EXTENDS Naturals, FiniteSets

CONSTANTS
    None,
    MaxOutput,   \* bound: what the processes print
    MaxReloads,  \* bound: live reloads
    TermPolls,   \* polls after SIGTERM (3), and
    KillPolls    \* after SIGKILL (10)

\* What the constants must be; the module that instantiates this one assumes it.
ConstantsOk == /\ {MaxOutput, MaxReloads} \subseteq Nat
               /\ {TermPolls, KillPolls} \subseteq Nat \ {0}
               /\ None \notin {"shell", "job"}

VARIABLES
    run,       \* [Proc -> "none", "runs" or "dead"]
    ignores,   \* the signals each ignores
    sent,      \* the signals each was sent
    reused,    \* the pid of the job is another process's by now
    printed, unread,
    api,       \* kill_with_escalation is called, not kill_session
    backend,   \* AnyPty
    pid,       \* RestoredPty's child_pid
    open,      \* the descriptor of the master
    status,    \* SessionStatus, or "Removed"
    shown,     \* output given to the screen
    swallowed, \* output a probe read
    strayed,   \* a signal went to a stranger
    pc, polls, reloads

worldVars == <<run, ignores, sent, reused, printed>>
ptyVars == <<backend, pid>>
vars == <<worldVars, unread, api, ptyVars, open, status, shown, swallowed, strayed, pc, polls,
          reloads>>

Proc == {"shell", "job"}
Runs(p) == run[p] = "runs"
SlaveClosed == \A p \in Proc : ~Runs(p)

(* TIOCGPGRP                                                               *)
Foreground == IF ~Runs("shell") THEN None ELSE IF Runs("job") THEN "job" ELSE "shell"

Init ==
    /\ run = [shell |-> "runs", job |-> "none"]
    /\ ignores \in [Proc -> SUBSET {"TERM", "HUP"}]
    /\ sent = [p \in Proc |-> {}] /\ reused = FALSE
    /\ printed = 0 /\ unread = 0
    /\ api \in BOOLEAN
    /\ backend = "real" /\ pid = None /\ open = TRUE
    /\ status = "Running"
    /\ shown = 0 /\ swallowed = 0 /\ strayed = FALSE
    /\ pc = "idle" /\ polls = 0 /\ reloads = 0

-----------------------------------------------------------------------------
(* The processes *)

tttt == <<unread, api, ptyVars, open, status, shown, swallowed, strayed, pc, polls, reloads>>

StartJob ==
    /\ Runs("shell") /\ run["job"] = "none" /\ open
    /\ run' = [run EXCEPT !["job"] = "runs"]
    /\ UNCHANGED <<ignores, sent, reused, printed, tttt>>

(* A process ends by itself or by a signal it does not ignore; when the    *)
(* leader ends the foreground is hung up.                                  *)
Ends(p) ==
    /\ Runs(p)
    /\ run' = [run EXCEPT ![p] = "dead"]
    /\ sent' = IF p = "shell" /\ Runs("job") THEN [sent EXCEPT !["job"] = @ \cup {"HUP"}] ELSE sent
    /\ UNCHANGED <<ignores, reused, printed, tttt>>

Dies(p) == sent[p] \ ignores[p] # {} /\ Ends(p)

Prints ==
    /\ open /\ \E p \in Proc : Runs(p)
    /\ printed < MaxOutput
    /\ printed' = printed + 1 /\ unread' = unread + 1
    /\ UNCHANGED <<run, ignores, sent, reused, api, ptyVars, open, status, shown, swallowed>>
    /\ UNCHANGED <<strayed, pc, polls, reloads>>

(* A job that was waited for leaves its pid to another process.            *)
ReusePid ==
    /\ run["job"] = "dead" /\ ~reused /\ reused' = TRUE
    /\ UNCHANGED <<run, ignores, sent, printed, tttt>>

-----------------------------------------------------------------------------
(* Looking: try_wait, of the backend that is there *)

ProbeByte == backend = "restored" /\ pid = None /\ open

AtEnd(un) == un = 0 /\ SlaveClosed

OnlyWaits(un) == IF backend = "real" \/ pid = "shell" THEN ~Runs("shell") ELSE ~open  \* mutant: EIO is no data

(* Whether it reports an exit when un bytes are unread.  The child of a    *)
(* RealPty and a shell can be waited for; a job is not tttt's child, and   *)
(* reading no bytes tells nothing.                                         *)
Exited(un) ==
    CASE backend = "real" \/ pid = "shell" -> ~Runs("shell")
      [] pid = "job" -> ~open
      [] OTHER -> ~open \/ AtEnd(un)

(* The probe of a RestoredPty without a pid takes a byte.                  *)
TryWait(un) ==
    /\ swallowed' = IF ProbeByte /\ un > 0 THEN swallowed + 1 ELSE swallowed
    /\ unread' = IF ProbeByte /\ un > 0 THEN un - 1 ELSE un

Pumped == IF Exited(0) THEN "Exited" ELSE "Running"

(* pump_raw.  A closed descriptor is an error before anything is looked at. *)
Pump ==
    /\ pc = "idle" /\ status = "Running" /\ open
    /\ shown' = shown + unread
    /\ TryWait(0)
    /\ status' = Pumped
    /\ UNCHANGED <<worldVars, api, ptyVars, open, strayed, pc, polls, reloads>>

(* Output arrives between the read and the probe.                          *)
PumpInTwo ==
    /\ pc = "idle" /\ status = "Running" /\ ProbeByte
    /\ printed < MaxOutput /\ ~SlaveClosed
    /\ printed' = printed + 1
    /\ shown' = shown + unread
    /\ TryWait(1)
    /\ UNCHANGED <<run, ignores, sent, reused, api, ptyVars, open, status, strayed, pc, polls>>
    /\ UNCHANGED reloads

(* prepare_reload, restore_from_state: a session that runs is wrapped.     *)
(* The system call that finds the group may fail.                          *)
Reload ==
    /\ pc = "idle" /\ status = "Running" /\ open /\ reloads < MaxReloads
    /\ reloads' = reloads + 1
    /\ backend' = "restored" /\ pid' \in {Foreground, None}
    /\ UNCHANGED <<worldVars, unread, api, open, status, shown, swallowed, strayed, pc, polls>>

-----------------------------------------------------------------------------
(* Killing *)

Signalled(ps, sig) == [p \in Proc |-> IF p \in ps /\ Runs(p) THEN sent[p] \cup {sig} ELSE sent[p]]

(* The terminal hangs up when the last descriptor of its master is closed. *)
HungUp(s) == [p \in Proc |-> IF Runs(p) /\ (p = "shell" \/ Runs("shell")) THEN s[p] \cup {"HUP"}
                             ELSE s[p]]

(* Whose pid or process group it is                                        *)
Target == IF backend = "real" THEN "shell" ELSE IF pid # None THEN pid ELSE Foreground
Stray == Target = "job" /\ reused

LeavesMaster(s) == open' = open /\ sent' = s  \* mutant: nothing closes the descriptor

(* The session leaves the table and is dropped with its master.            *)
Dropped(s) == open' = FALSE /\ sent' = HungUp(s)

(* kill_session on a RealPty: portable-pty hangs the shell up and polls.   *)
KillReal ==
    /\ ~api /\ pc = "idle" /\ status = "Running" /\ backend = "real"
    /\ sent' = Signalled({"shell"}, "HUP")
    /\ pc' = "hup"
    /\ UNCHANGED <<run, ignores, reused, printed, unread, ptyVars, api, open, status, shown>>
    /\ UNCHANGED <<swallowed, strayed, polls, reloads>>

(* It kills the shell if it still runs; then the session is dropped.       *)
KilledReal ==
    /\ pc = "hup" /\ pc' = "idle"
    /\ status' = "Removed" /\ Dropped(Signalled({"shell"}, "KILL"))
    /\ UNCHANGED <<run, ignores, reused, printed, unread, ptyVars, api, shown, swallowed, strayed>>
    /\ UNCHANGED <<polls, reloads>>

(* kill_session on a RestoredPty: one SIGTERM.  Without a process to       *)
(* signal the call fails and the session stays.                            *)
KillRestored ==
    /\ ~api /\ pc = "idle" /\ status = "Running" /\ backend = "restored"
    /\ Target # None /\ (Runs(Target) \/ Target = "shell" \/ reused)
    /\ strayed' = (strayed \/ Stray)
    /\ status' = "Removed"
    /\ Dropped(Signalled({Target}, "TERM"))
    /\ UNCHANGED <<run, ignores, reused, printed, unread, ptyVars, api, shown, swallowed, pc>>
    /\ UNCHANGED <<polls, reloads>>

(* kill_with_escalation: SIGTERM to the group and polls,                   *)
Escalate ==
    /\ api /\ pc = "idle" /\ status = "Running" /\ open
    /\ Target # None
    /\ sent' = Signalled({Target}, "TERM")
    /\ strayed' = (strayed \/ Stray)
    /\ pc' = "term" /\ polls' = 0
    /\ UNCHANGED <<run, ignores, reused, printed, unread, ptyVars, api, open, status, shown>>
    /\ UNCHANGED <<swallowed, reloads>>

Reaped(most) ==
    /\ polls' = polls + 1
    /\ TryWait(unread)
    /\ pc' = IF Exited(unread) THEN "gone" ELSE IF polls' = most THEN "late" ELSE pc

PollTerm ==
    /\ pc = "term" /\ Reaped(TermPolls)
    /\ UNCHANGED <<worldVars, api, ptyVars, open, status, shown, strayed, reloads>>

Finally(s) == [p \in Proc |-> IF p = Target /\ Runs(p) THEN s[p] \cup {"KILL"} ELSE s[p]]

(* then SIGKILL and the close of the master, and polls,                    *)
SendKill ==
    /\ pc = "late" /\ open
    /\ pc' = "kill" /\ polls' = 0
    /\ open' = FALSE /\ sent' = HungUp(Finally(sent))
    /\ UNCHANGED <<run, ignores, reused, printed, unread, ptyVars, api, status, shown, swallowed>>
    /\ UNCHANGED <<strayed, reloads>>

PollKill ==
    /\ pc = "kill" /\ Reaped(KillPolls)
    /\ UNCHANGED <<worldVars, api, ptyVars, open, status, shown, strayed, reloads>>

(* and the return, whether they are gone or not.  It has no caller outside *)
(* the tests; here the backend is dropped after it.                        *)
Return ==
    /\ pc = "gone" \/ (pc = "late" /\ ~open)
    /\ pc' = "idle"
    /\ status' = "Removed" /\ Dropped(sent)
    /\ UNCHANGED <<run, ignores, reused, printed, unread, ptyVars, api, shown, swallowed, strayed>>
    /\ UNCHANGED <<polls, reloads>>

Kills == KillReal \/ KilledReal \/ KillRestored \/ Escalate \/ PollTerm \/ SendKill \/ PollKill
         \/ Return

-----------------------------------------------------------------------------
Next == \/ StartJob \/ Prints \/ ReusePid \/ \E p \in Proc : Ends(p)
        \/ Pump \/ PumpInTwo \/ Reload \/ Kills

Spec == Init /\ [][Next]_vars

(* A process that was sent a signal it does not ignore dies; the loop      *)
(* reads, and a kill that was begun goes on.                               *)
Fairness == /\ \A p \in Proc : WF_vars(Dies(p))
            /\ WF_vars(Pump) /\ WF_vars(KilledReal \/ PollTerm \/ SendKill \/ PollKill \/ Return)

FairSpec == Spec /\ Fairness

-----------------------------------------------------------------------------
(* Properties *)

TypeOK ==
    /\ unread + shown + swallowed = printed /\ printed <= MaxOutput
    /\ pid \in Proc \cup {None} /\ (backend = "real" => pid = None)
    /\ status \in {"Running", "Exited", "Removed"}
    /\ pc \in {"idle", "hup", "term", "late", "kill", "gone"}

(* A session that is said to have exited has no shell any more, whichever  *)
(* way tttt has of looking.                                                *)
ExitedIsGone == status = "Exited" => ~Runs("shell") /\ pid # "job"

ControlInv == TypeOK /\ ExitedIsGone

(* The end of all its processes is noticed.  A RestoredPty with the pid of *)
(* a job is excepted, see AlwaysNoticed.                                   *)
EndNoticed == (status = "Running" /\ SlaveClosed) ~> (status # "Running" \/ pid = "job")

(* A session that was killed leaves no process that heeds a hangup, and a  *)
(* RealPty no shell that does not; escalation leaves none it was for.      *)
KilledEnd ==
    /\ \A p \in Proc : status = "Removed" ~> (~Runs(p) \/ "HUP" \in ignores[p])
    /\ (status = "Removed" /\ (backend = "real" \/ (api /\ pid = "shell"))) ~> ~Runs("shell")

(* The processes of a killed session end ("Verify no orphan processes      *)
(* after session kill").  TLC refutes this: a restored session is sent one *)
(* SIGTERM and a hangup.                                                   *)
NoOrphans == status = "Removed" ~> ~Runs("shell")

(* The end of the processes is noticed without the exception.  TLC refutes *)
(* this, see the README: a RestoredPty cannot tell who has the terminal.   *)
AlwaysNoticed == (status = "Running" /\ SlaveClosed) ~> status # "Running"

(* What a process prints is put on the screen, and no look at whether it   *)
(* is alive takes it away.  TLC refutes this, see the README.              *)
NothingSwallowed == swallowed = 0

(* A signal reaches the session's processes and nobody else.  TLC refutes  *)
(* this, see the README.                                                   *)
OwnOnly == ~strayed
=============================================================================
