------------------------------ MODULE Schedule ------------------------------
(***************************************************************************)
(* What tttt types by the clock into its first session: reminders and cron *)
(* jobs of the scheduler, with the event loop's deferral while input is    *)
(* recent, and the two stages of a context refresh.  MCP threads add and   *)
(* remove entries at any time; a live reload keeps the cron jobs only.     *)
(*                                                                         *)
(* Deadlines are kept as the time left, the input clock as the time since, *)
(* so that the clock needs no bound.  The loop polls every few             *)
(* milliseconds and deadlines are whole seconds: time passes between turns *)
(* of the loop, of which there is at least one in every unit of time.  A   *)
(* message is handed to the paced input and counts as typed at once; its   *)
(* chunks are InputPipeline's.                                             *)
(***************************************************************************)
EXTENDS Naturals, Sequences, FiniteSets, SequencesExt, Functions

CONSTANTS
    Reminder, Delay,          \* reminders and their delay_seconds
    CronJob, Interval, Waits, \* cron jobs, their interval, and if_busy = wait
    Refresh,                  \* calls of tttt_clear_and_read_handoff_md
    ClearDelay, FollowupDelay,\* choose_delays
    Threshold,                \* SCHEDULER_INPUT_IDLE_THRESHOLD
    MaxTyped,                 \* bound: how often the user types
    MaxReloads,               \* bound: live reloads
    None

ASSUME EntryAssumption ==
    /\ Reminder \cap CronJob = {} /\ (Reminder \cup CronJob) \cap Refresh = {}
    /\ None \notin Nat
    /\ Delay \in [Reminder -> Nat] /\ Interval \in [CronJob -> Nat]
    /\ Waits \in [CronJob -> BOOLEAN]
    /\ {ClearDelay, FollowupDelay, MaxTyped, MaxReloads} \subseteq Nat
    /\ Threshold \in Nat \ {0}

VARIABLES
    quiet,                \* time since the session's last input, up to Threshold
    typed, alive,         \* how often the user typed; the session is in the manager
    reminders,            \* pending reminders and the time left of each
    jobs,                 \* cron jobs: id, the job itself, time left to next_fire
    nextCron,             \* next_cron_id
    pc, turned,           \* the event loop's phase; a turn has ended in this unit of time
    due,                  \* the events of a tick that are still to be handled
    deferred,             \* deferred_scheduler_events
    requests, taken,      \* context_refresh_queue, and what a drain has taken
    remaining,            \* requests the drain has looked at and has to put back
    unset,                \* entries no client has added yet
    reloads,
    handle,               \* history: the id a client was given for a job
    fate,                 \* history: how often a reminder was typed, whether it was lost
    cleared, restored     \* history: refreshes, time since their /clear; those restored

targetVars == <<quiet, typed, alive>>
schedVars == <<reminders, jobs, nextCron>>
loopVars == <<pc, turned, due>>
refreshVars == <<requests, taken, remaining, cleared, restored>>
vars == <<targetVars, schedVars, loopVars, deferred, refreshVars, unset, reloads, handle, fate>>

LowerOf(a, b) == IF a < b THEN a ELSE b
Less(n) == IF n = 0 THEN 0 ELSE n - 1

Init ==
    /\ quiet = 0 /\ typed = 0 /\ alive = TRUE
    /\ reminders = << >> /\ jobs = {} /\ nextCron = 1
    /\ pc = "input" /\ turned = FALSE
    /\ due = <<>> /\ deferred = <<>>
    /\ requests = <<>> /\ taken = <<>> /\ remaining = <<>>
    /\ unset = Reminder \cup CronJob \cup Refresh /\ reloads = 0
    /\ handle = << >>
    /\ fate = [r \in Reminder |-> [sent |-> 0, lost |-> FALSE, cancelled |-> FALSE]]
    /\ cleared = [q \in Refresh |-> None] /\ restored = {}

-----------------------------------------------------------------------------
(* The clock, the user and the target session *)

Sooner(q) == [q EXCEPT !.left = Less(@)]

PassTime ==
    /\ pc = "input" /\ turned /\ turned' = FALSE
    /\ quiet' = LowerOf(quiet + 1, Threshold)
    /\ reminders' = [r \in DOMAIN reminders |-> Less(reminders[r])]
    /\ jobs' = {[j EXCEPT !.left = Less(@)] : j \in jobs}
    /\ requests' = [i \in DOMAIN requests |-> Sooner(requests[i])]
    /\ cleared' = [q \in Refresh |-> IF cleared[q] = None THEN None
                                     ELSE LowerOf(cleared[q] + 1, FollowupDelay)]
    /\ UNCHANGED <<typed, alive, nextCron, pc, due, deferred, taken, remaining, restored, unset,
                   reloads, handle, fate>>

UserTypes ==
    /\ pc = "input" /\ alive /\ typed < MaxTyped
    /\ quiet' = 0 /\ typed' = typed + 1
    /\ UNCHANGED <<alive, schedVars, loopVars, deferred, refreshVars, unset, reloads, handle, fate>>

TargetKilled ==
    /\ alive /\ alive' = FALSE
    /\ UNCHANGED <<quiet, typed, schedVars, loopVars, deferred, refreshVars, unset, reloads,
                   handle, fate>>

-----------------------------------------------------------------------------
(* MCP threads: the tools of the scheduler and of the context refresh *)

add_reminder(r) ==
    [x \in DOMAIN reminders \cup {r} |-> IF x = r THEN Delay[r] ELSE reminders[x]]
remove_reminder(r) == [x \in DOMAIN reminders \ {r} |-> reminders[x]]
add_cron(c) == jobs \cup {[id |-> nextCron, job |-> c, left |-> Interval[c]]}
remove_cron(id) == {j \in jobs : j.id # id}

ReminderSet(r) ==
    /\ r \in unset /\ unset' = unset \ {r}
    /\ reminders' = add_reminder(r)
    /\ UNCHANGED <<targetVars, jobs, nextCron, loopVars, deferred, refreshVars, reloads,
                   handle, fate>>

(* A reminder that has fired is not found any more, deferred or not.       *)
ReminderCancel(r) ==
    /\ r \in DOMAIN reminders
    /\ reminders' = remove_reminder(r)
    /\ fate' = [fate EXCEPT ![r].cancelled = TRUE]
    /\ UNCHANGED <<targetVars, jobs, nextCron, loopVars, deferred, refreshVars, unset, reloads,
                   handle>>

CronCreate(c) ==
    /\ c \in unset /\ unset' = unset \ {c}
    /\ jobs' = add_cron(c)
    /\ handle' = [x \in DOMAIN handle \cup {c} |-> IF x = c THEN nextCron ELSE handle[x]]
    /\ nextCron' = nextCron + 1
    /\ UNCHANGED <<targetVars, reminders, loopVars, deferred, refreshVars, reloads, fate>>

(* The client deletes by the id it was given; which job has that id now is *)
(* for the scheduler to say.  A firing already deferred is not looked for. *)
CronDelete(c) ==
    /\ c \in DOMAIN handle
    /\ \E j \in jobs : j.id = handle[c]
    /\ jobs' = remove_cron(handle[c])
    /\ handle' = [x \in DOMAIN handle \ {c} |-> handle[x]]
    /\ UNCHANGED <<targetVars, reminders, nextCron, loopVars, deferred, refreshVars, unset,
                   reloads, fate>>

ClearAndReadHandoff(q) ==
    /\ q \in unset /\ unset' = unset \ {q}
    /\ requests' = Append(requests, [req |-> q, sent |-> FALSE, left |-> ClearDelay])
    /\ UNCHANGED <<targetVars, schedVars, loopVars, deferred, taken, remaining, cleared, restored,
                   reloads, handle, fate>>

-----------------------------------------------------------------------------
(* One turn of the event loop *)

EndOfInput ==
    /\ pc = "input" /\ pc' = "tick"
    /\ UNCHANGED <<targetVars, schedVars, turned, due, deferred, refreshVars, unset, reloads,
                   handle, fate>>

DueReminders == {r \in DOMAIN reminders : reminders[r] = 0}
DueJobs == {j \in jobs : j.left = 0}

Rearmed == {[j EXCEPT !.left = Interval[j.job]] : j \in DueJobs}

(* Scheduler::tick: the reminders, then the cron jobs in the order of a    *)
(* hash map.                                                               *)
Tick ==
    /\ pc = "tick" /\ pc' = "handle"
    /\ reminders' = [r \in DOMAIN reminders \ DueReminders |-> reminders[r]]
    /\ jobs' = (jobs \ DueJobs) \cup Rearmed
    /\ \E a \in SetToSeqs(DueReminders), b \in SetToSeqs({j.job : j \in DueJobs}) : due' = a \o b
    /\ UNCHANGED <<targetVars, nextCron, turned, deferred, refreshVars, unset, reloads, handle, fate>>

IdleRounded == quiet + 1 >= Threshold  \* mutant: the idle time is rounded up

(* input_idle_seconds() against the threshold.                             *)
IdleNow == quiet >= Threshold
DefersNone(e) == FALSE  \* mutant: a busy session loses its reminders too
Defers(e) == e \in CronJob => Waits[e]

Lost(es) == [r \in Reminder |-> IF r \in es THEN [fate[r] EXCEPT !.lost = TRUE] ELSE fate[r]]

(* send_scheduler: a message is itself input to the session.               *)
Delivers(e) ==
    /\ quiet' = 0
    /\ fate' = IF e \in Reminder THEN [fate EXCEPT ![e].sent = @ + 1] ELSE fate

LetsGo(es) == fate' = Lost(es) /\ UNCHANGED quiet

(* handle_scheduler_event: an event for a session that is gone is dropped. *)
HandleEvent ==
    /\ pc = "handle" /\ due # <<>> /\ due' = Tail(due)
    /\ LET e == Head(due)
       IN  \/ alive /\ IdleNow /\ Delivers(e) /\ UNCHANGED deferred
           \/ /\ alive /\ ~IdleNow /\ Defers(e)
              /\ deferred' = Append(deferred, e) /\ UNCHANGED <<quiet, fate>>
           \/ /\ alive => ~IdleNow /\ ~Defers(e)
              /\ LetsGo({e}) /\ UNCHANGED deferred
    /\ UNCHANGED <<typed, alive, schedVars, pc, turned, refreshVars, unset, reloads, handle>>

AllHandled ==
    /\ pc = "handle" /\ due = <<>> /\ pc' = "deferred"
    /\ UNCHANGED <<targetVars, schedVars, turned, due, deferred, refreshVars, unset, reloads,
                   handle, fate>>

(* drain_deferred_scheduler_events: the first event that is delivered      *)
(* makes the session busy for the others; a session that is gone counts as *)
(* idle, so its events are let go.                                         *)
DrainDeferred ==
    /\ pc = "deferred" /\ pc' = "refresh"
    /\ \/ ~alive /\ deferred' = <<>> /\ LetsGo(ToSet(deferred))
       \/ /\ alive /\ IdleNow /\ deferred # <<>>
          /\ deferred' = Tail(deferred) /\ Delivers(Head(deferred))
       \/ alive /\ ~(IdleNow /\ deferred # <<>>) /\ UNCHANGED <<quiet, deferred, fate>>
    /\ UNCHANGED <<typed, alive, schedVars, turned, due, refreshVars, unset, reloads, handle>>

TakeRequests ==
    /\ pc = "refresh" /\ requests # <<>> /\ pc' = "advance"
    /\ taken' = requests /\ requests' = <<>>
    /\ UNCHANGED <<targetVars, schedVars, turned, due, deferred, remaining, cleared, restored, unset,
                   reloads, handle, fate>>

NoRequests ==
    /\ pc = "refresh" /\ requests = <<>>
    /\ pc' = "input" /\ turned' = TRUE
    /\ UNCHANGED <<targetVars, schedVars, due, deferred, refreshVars, unset, reloads, handle, fate>>

(* advance_context_refresh_request: both stages may be due in one call.    *)
ClearsNow(q) == alive /\ ~q.sent /\ q.left = 0
Advance(q) ==
    IF ClearsNow(q) THEN [q EXCEPT !.sent = TRUE, !.left = FollowupDelay] ELSE q
Completes(q) == alive /\ Advance(q).sent /\ Advance(q).left = 0

AdvanceRequest ==
    /\ pc = "advance" /\ taken # <<>> /\ taken' = Tail(taken)
    /\ LET q == Head(taken)
       IN  /\ remaining' = IF Completes(q) THEN remaining ELSE Append(remaining, Advance(q))
           /\ quiet' = IF ClearsNow(q) \/ Completes(q) THEN 0 ELSE quiet
           /\ cleared' = IF ClearsNow(q) THEN [cleared EXCEPT ![q.req] = 0] ELSE cleared
           /\ restored' = IF Completes(q) THEN restored \cup {q.req} ELSE restored
    /\ UNCHANGED <<typed, alive, schedVars, loopVars, deferred, requests, unset, reloads, handle,
                   fate>>

ForgetsRest == requests  \* mutant: what is not complete is not put back
(* The incomplete requests go behind those that came meanwhile.            *)
PutBack == requests \o remaining

EndOfRefresh ==
    /\ pc = "advance" /\ taken = <<>>
    /\ requests' = PutBack /\ remaining' = <<>>
    /\ pc' = "input" /\ turned' = TRUE
    /\ UNCHANGED <<targetVars, schedVars, due, deferred, taken, cleared, restored, unset, reloads,
                   handle, fate>>

(* A live reload: restore_cron_jobs adds the saved jobs again, in the      *)
(* order the hash map gave them, with new ids and a new first interval.    *)
Reload ==
    /\ pc = "input" /\ reloads < MaxReloads
    /\ reloads' = reloads + 1
    /\ \E order \in SetToSeqs({j.job : j \in jobs}) :
          jobs' = {[id |-> i, job |-> order[i], left |-> Interval[order[i]]] :
                     i \in DOMAIN order}
    /\ nextCron' = Cardinality(jobs) + 1
    /\ fate' = Lost(DOMAIN reminders \cup ToSet(deferred))
    /\ reminders' = << >> /\ deferred' = <<>> /\ requests' = <<>> /\ quiet' = 0
    /\ UNCHANGED <<typed, alive, loopVars, taken, remaining, cleared, restored, unset, handle>>

-----------------------------------------------------------------------------

Loop ==
    \/ EndOfInput \/ Tick \/ HandleEvent \/ AllHandled \/ DrainDeferred
    \/ TakeRequests \/ NoRequests \/ AdvanceRequest \/ EndOfRefresh

Next ==
    \/ PassTime \/ UserTypes \/ TargetKilled \/ Loop \/ Reload
    \/ \E r \in Reminder : ReminderSet(r) \/ ReminderCancel(r)
    \/ \E c \in CronJob : CronCreate(c) \/ CronDelete(c)
    \/ \E q \in Refresh : ClearAndReadHandoff(q)

Spec == Init /\ [][Next]_vars

(* The loop's thread runs, and time passes however many turns it makes.    *)
Fairness == SF_vars(PassTime) /\ WF_vars(Loop)
FairSpec == Spec /\ Fairness

-----------------------------------------------------------------------------
(* Properties *)

RequestRecord == [req : Refresh, sent : BOOLEAN,
                  left : 0 .. (ClearDelay + FollowupDelay)]

(* Every variable has its type; a reminder is typed at most once.          *)
TypeOK ==
    /\ quiet \in 0 .. Threshold /\ typed \in 0 .. MaxTyped /\ alive \in BOOLEAN
    /\ DOMAIN reminders \subseteq Reminder
    /\ \A r \in DOMAIN reminders : reminders[r] \in 0 .. Delay[r]
    /\ jobs \subseteq [id : Nat, job : CronJob, left : Nat] /\ nextCron \in Nat \ {0}
    /\ \A j \in jobs : j.id \in 1 .. nextCron - 1 /\ j.left <= Interval[j.job]
    /\ pc \in {"input", "tick", "handle", "deferred", "refresh", "advance"} /\ turned \in BOOLEAN
    /\ {due, deferred} \subseteq Seq(Reminder \cup CronJob)
    /\ {requests, taken, remaining} \subseteq Seq(RequestRecord)
    /\ unset \subseteq Reminder \cup CronJob \cup Refresh /\ reloads \in 0 .. MaxReloads
    /\ DOMAIN handle \subseteq CronJob
    /\ fate \in [Reminder -> [sent : 0 .. 1, lost : BOOLEAN, cancelled : BOOLEAN]]
    /\ cleared \in [Refresh -> (0 .. FollowupDelay) \cup {None}] /\ restored \subseteq Refresh

(* A list in which no reminder is twice.                                   *)
Once(events) ==
    \A i, j \in DOMAIN events : events[i] = events[j] /\ events[i] \in Reminder => i = j

(* A reminder is always in exactly one place, and there once: not yet set, *)
(* pending in the scheduler, being handled, deferred, typed, cancelled or  *)
(* lost; and it is lost only with its session or through a live reload,    *)
(* never because the session was busy when it fired.                       *)
OneFate ==
    /\ Once(due) /\ Once(deferred)
    /\ \A r \in Reminder :
        /\ LET Count(b) == IF b THEN 1 ELSE 0
           IN  Count(r \in unset) + Count(r \in DOMAIN reminders) + Count(r \in ToSet(due))
               + Count(r \in ToSet(deferred)) + fate[r].sent
               + Count(fate[r].lost) + Count(fate[r].cancelled) = 1
        /\ fate[r].lost => ~alive \/ reloads > 0

(* The scheduler never types a reminder within the threshold of other      *)
(* input to the session: the user's, another message's, or a stage of a    *)
(* context refresh.                                                        *)
SpacedApart ==
    [][\A r \in Reminder : fate'[r].sent # fate[r].sent =>
          /\ quiet = Threshold
          /\ \A o \in Reminder \ {r} : fate'[o].sent = fate[o].sent]_vars

(* Deferred reminders leave the list in the order they came to it.         *)
DeferredInTurn ==
    [][\A i, j \in DOMAIN deferred :
          i < j /\ {deferred[i], deferred[j]} \subseteq Reminder
          => /\ fate'[deferred[j]].sent # fate[deferred[j]].sent => fate[deferred[i]].sent = 1
             /\ ~\E k, l \in DOMAIN deferred' :
                   k < l /\ deferred'[k] = deferred[j] /\ deferred'[l] = deferred[i]]_vars

(* How deliveries to a session follow one another.                         *)
DeliveredInTurn == SpacedApart /\ DeferredInTurn

(* A context refresh types its restore instruction only the whole          *)
(* followup_delay after its own /clear.                                    *)
RestoreAfterClear == \A q \in restored : cleared[q] = FollowupDelay

(* No reminder is lost or typed twice between the scheduler, the deferred  *)
(* events and the session, and a refresh keeps its delay.                  *)
ScheduleInv == TypeOK /\ OneFate /\ RestoreAfterClear

(* A cleared session is told to read its handoff, unless it is killed or   *)
(* tttt reloads meanwhile: the requests put back behind later ones and     *)
(* taken again are not lost.                                               *)
RefreshCompletes ==
    \A q \in Refresh : q \notin unset ~> q \in restored \/ ~alive \/ reloads > 0

(* A reminder that fired while the session was busy is typed once the user *)
(* stops, although every cron job types too; the jobs leave a gap longer   *)
(* than the threshold between them: a faster one starves it (README).      *)
ReminderServed == \A r \in Reminder : r \in ToSet(deferred) ~> r \notin ToSet(deferred)

(* Whoever keeps typing, reloading or firing, what was asked for is done.  *)
AllServed == RefreshCompletes /\ ReminderServed
=============================================================================
