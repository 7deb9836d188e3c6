--------------------------- MODULE InputPipeline ---------------------------
(***************************************************************************)
(* How text reaches the terminals of tttt's sessions: the keystrokes of    *)
(* the user, the raw writes of viewers, of the web console and of MCP      *)
(* clients, the scheduler's reminders and cron messages, and notification  *)
(* injections, each followed by a delayed Enter that may be retried.       *)
(*                                                                         *)
(* One thread, the event loop of App::run, owns every queue here and goes  *)
(* round the phases of `pc'.  Viewer, web and MCP threads share only the   *)
(* sessions with it, under one mutex: they act whenever the loop is not in *)
(* a phase that holds it.  A deadline is a choice the loop makes when it   *)
(* looks at it (due or not yet); the two seconds of input idleness are     *)
(* the state `idle', because later steps of a tick depend on it.           *)
(***************************************************************************)
EXTENDS Integers, Sequences, FiniteSets, SequencesExt

CONSTANTS
    Session,        \* identifiers of the sessions
    Name,           \* names sessions were launched under
    Owner,          \* [Name -> Session], the names table of SessionManager
    Rank,           \* [Session -> Nat], the place a session has in session_order
    Scheduled,      \* reminders and cron firings
    Injected,       \* notification texts
    Target,         \* [Message -> Key \cup {None}], where a message is sent
    Waits,          \* [Scheduled -> BOOLEAN], BusyPolicy::Wait (reminders: TRUE)
    Size,           \* [Scheduled -> Nat], decoded length, leading [ENTER] included
    ChunkBytes,     \* TTTT_SCHED_CHUNK_BYTES, 0 for unpaced writes
    RetryChecks,    \* RETRY_DELAYS.len()
    MaxInjections,  \* MAX_PENDING_INJECTIONS
    MaxTyped,       \* bound: keystrokes of the user
    MaxDirect,      \* bound: raw writes of other threads
    None

Message == Scheduled \cup Injected
Key == Session \cup Name

ASSUME MessageAssumption ==
    /\ IsFiniteSet(Message)
    /\ Scheduled \cap Injected = {}
    /\ None \notin Message \cup Key
    /\ Session \cap Name = {}

ASSUME TableAssumption ==
    /\ Owner \in [Name -> Session]
    /\ Rank \in [Session -> Nat]
    /\ Target \in [Message -> Key \cup {None}]
    /\ \A m \in Injected : Target[m] # None
    /\ Waits \in [Scheduled -> BOOLEAN]
    /\ Size \in [Scheduled -> Nat]
    /\ \A m \in Scheduled : Size[m] > 1

ASSUME LimitAssumption ==
    /\ ChunkBytes \in Nat
    /\ RetryChecks \in Nat
    /\ MaxInjections \in Nat
    /\ MaxTyped \in Nat
    /\ MaxDirect \in Nat

VARIABLES
    \* the sessions, shared under the mutex
    status,     \* "running", "exited", or "gone" from the table
    lastInput,  \* last_input_time, as the number of times it was set
    idle,       \* input_idle_seconds() >= SCHEDULER_INPUT_IDLE_THRESHOLD
    \* the event loop
    pc,         \* phase of the loop
    todo,       \* keys drain_pending_input has yet to visit
    pos,        \* position in the vector a phase walks over
    ready,      \* is_idle of the deferred event at pos, decided under an earlier lock
    listed,     \* the sessions in session_order
    user,       \* pending_input[s].user, as the number of bytes
    sched,      \* pending_input[k].scheduler
    deferred,   \* deferred_scheduler_events
    injections, \* pending_injection_queue
    enters,     \* pending_delayed_enters
    unfired,    \* messages that have not fired
    \* the children, and history
    line,       \* who typed into the child's input line since the last Enter
    by,         \* the message whose delayed Enter was the last Enter, or None
    sent,       \* how many delayed Enters were sent for a message
    typed, direct

sessionVars == <<status, lastInput, idle>>
queueVars   == <<user, sched, deferred, injections, enters>>
loopVars    == <<pc, todo, pos, ready, listed>>
childVars   == <<line, by, sent>>
boundVars   == <<typed, direct>>
vars == <<sessionVars, queueVars, loopVars, childVars, boundVars, unfired>>

Other == "other"    \* anyone but the messages: user, viewers, clients

-----------------------------------------------------------------------------
(* SessionManager::get_mut and the idle clock *)

Present(k) == IF k \in Session THEN status[k] # "gone"
              ELSE k \in Name /\ status[Owner[k]] # "gone"

Resolve(k) == IF k \in Session THEN k ELSE Owner[k]

Running(s) == status[s] = "running"

(* A write that reached the backend moves last_input_time. *)
Touch(s) == /\ lastInput' = [lastInput EXCEPT ![s] = @ + 1]
            /\ idle' = [idle EXCEPT ![s] = FALSE]

NoTouch == UNCHANGED <<lastInput, idle>>

TypeText(s, who) == /\ Touch(s)
                    /\ line' = [line EXCEPT ![s] = @ \cup {who}]
                    /\ UNCHANGED <<by, sent>>

PressEnter(s, m) == /\ Touch(s)
                    /\ line' = [line EXCEPT ![s] = {}]
                    /\ by' = [by EXCEPT ![s] = m]
                    /\ sent' = IF m = None THEN sent ELSE [sent EXCEPT ![m] = @ + 1]

NothingTyped == UNCHANGED childVars

(* PtySession::send_keys: refused by an exited session before the clock    *)
(* moves; a write that fails, or stalls halfway, has already moved it.     *)
SendFails(s) == /\ NothingTyped
                /\ IF Running(s) THEN Touch(s) ELSE NoTouch

-----------------------------------------------------------------------------
(* The delayed Enter of injected text *)

NewEnter(s, m) == [session |-> s, msg |-> m, inputAt |-> lastInput'[s],
                   armed |-> FALSE, checks |-> 0]

(* What pending_input holds for a session, looked up by its identifier.    *)
InputWaiting(s) == user[s] > 0 \/ sched[s] # <<>>

OwnedUnlessWaiting(e) == ~InputWaiting(e.session)  \* mutant: the stamp is not compared

(* Nothing was written to the session since, and nothing is about to be.   *)
Owned(e) == lastInput[e.session] = e.inputAt /\ ~InputWaiting(e.session)

ExhaustedLate(e) == e.checks > RetryChecks  \* mutant: one check too many

Exhausted(e) == e.checks = RetryChecks

-----------------------------------------------------------------------------
(* PendingInput: scheduler messages in paced chunks behind the user's bytes *)

ChunkLenUnbounded(rest) == ChunkBytes  \* mutant: the end of the text is ignored

ChunkLen(rest) == IF ChunkBytes = 0 \/ rest <= ChunkBytes THEN rest ELSE ChunkBytes

Fresh(m) == [msg |-> m, offset |-> 0, chunkEnd |-> ChunkLen(Size[m]), paced |-> FALSE]

EnqueueFirst(queue, input) == <<input>> \o queue  \* mutant: new texts jump the queue

Enqueue(queue, input) == Append(queue, input)

(* The child receives n more units of a scheduled text whose first offset  *)
(* units it has.  The first unit is the [ENTER] every such text opens with. *)
WriteUnits(s, m, offset, n) ==
    /\ UNCHANGED sent
    /\ IF n = 0
       THEN NoTouch /\ UNCHANGED <<line, by>>
       ELSE /\ Touch(s)
            /\ line' = [line EXCEPT ![s] = IF offset > 0 THEN @ \cup {m}
                                           ELSE IF n > 1 THEN {m} ELSE {}]
            /\ by' = [by EXCEPT ![s] = IF offset > 0 THEN @ ELSE None]

Advanced(input, n) ==
    LET reached == input.offset + n
    IN  [input EXCEPT !.offset = reached,
                      !.chunkEnd = IF reached = @ THEN @ + ChunkLen(Size[input.msg] - reached)
                                   ELSE @,
                      !.paced = TRUE]

(* One write attempt for the text at the front of the queue: it may be cut *)
(* short, or take nothing when the terminal pushes back.                   *)
WriteFront(k, queue) ==
    LET s == Resolve(k)
        input == Head(queue)
    IN  \E n \in 0 .. input.chunkEnd - input.offset :
          /\ WriteUnits(s, input.msg, input.offset, n)
          /\ IF input.offset + n = Size[input.msg]
             THEN /\ sched' = [sched EXCEPT ![k] = Tail(queue)]
                  /\ enters' = Append(enters, NewEnter(s, input.msg))
             ELSE /\ sched' = [sched EXCEPT ![k] = [queue EXCEPT ![1] = Advanced(input, n)]]
                  /\ UNCHANGED enters

(* drain_scheduler: nothing before next_write, else one attempt.           *)
DrainScheduler(k, queue) ==
    \/ Running(Resolve(k)) /\ WriteFront(k, queue)
    \/ /\ Head(queue).paced
       /\ sched' = [sched EXCEPT ![k] = queue]
       /\ NoTouch /\ NothingTyped /\ UNCHANGED enters

(* send_scheduler: queue the text under key k and attempt the first write; *)
(* the caller ignores an error.  Unpaced texts go out in one send_keys.    *)
SendScheduler(k, m) ==
    LET s == Resolve(k)
        queue == Enqueue(sched[k], Fresh(m))
    IN  /\ UNCHANGED user
        /\ IF ChunkBytes > 0
           THEN \/ DrainScheduler(k, queue)
                \/ /\ sched' = [sched EXCEPT ![k] = queue]
                   /\ NoTouch /\ NothingTyped /\ UNCHANGED enters
           ELSE /\ UNCHANGED sched
                /\ \/ /\ Running(s)
                      /\ WriteUnits(s, m, 0, Size[m])
                      /\ enters' = Append(enters, NewEnter(s, m))
                   \/ /\ Running(s)
                      /\ \E n \in 1 .. Size[m] - 1 : WriteUnits(s, m, 0, n)
                      /\ UNCHANGED enters
                   \/ SendFails(s) /\ UNCHANGED enters

-----------------------------------------------------------------------------
(* The event loop, App::run *)

Init ==
    /\ status = [s \in Session |-> "running"]
    /\ lastInput = [s \in Session |-> 0]
    /\ idle = [s \in Session |-> FALSE]
    /\ pc = "drain" /\ todo = {} /\ pos = 1 /\ ready = FALSE
    /\ listed = Session
    /\ user = [s \in Session |-> 0]
    /\ sched = [k \in Key |-> <<>>]
    /\ deferred = <<>> /\ injections = <<>> /\ enters = <<>>
    /\ unfired = Message
    /\ line = [s \in Session |-> {}]
    /\ by = [s \in Session |-> None]
    /\ sent = [m \in Message |-> 0]
    /\ typed = 0 /\ direct = 0

Goto(phase) == pc' = phase /\ UNCHANGED <<todo, pos, ready, listed>>

Queued == {k \in Key : sched[k] # <<>> \/ (k \in Session /\ user[k] > 0)}

LockHeld == pc \in {"drain", "redrain", "enters"}

(* drain_pending_input visits every key once, in any order, under the      *)
(* lock.  A key whose session is gone or has exited, or whose write fails  *)
(* because the child is gone, loses all it had queued.                     *)
DrainKey(k) ==
    /\ pc \in {"drain", "redrain"}
    /\ k \in todo
    /\ todo' = todo \ {k}
    /\ UNCHANGED <<status, pc, pos, ready, listed, deferred, injections, unfired, boundVars>>
    /\ \/ /\ user' = IF k \in Session THEN [user EXCEPT ![k] = 0] ELSE user
          /\ sched' = [sched EXCEPT ![k] = <<>>]
          /\ NoTouch /\ NothingTyped /\ UNCHANGED enters
       \/ /\ k \in Session /\ Running(k) /\ user[k] > 0
          /\ UNCHANGED <<sched, enters>>
          /\ \/ \E n \in 1 .. user[k] :
                   user' = [user EXCEPT ![k] = @ - n] /\ TypeText(k, Other)
             \/ UNCHANGED user /\ NoTouch /\ NothingTyped
       \/ /\ Present(k)
          /\ k \in Session => user[k] = 0
          /\ sched[k] # <<>>
          /\ UNCHANGED user
          /\ DrainScheduler(k, sched[k])

EndDrain ==
    /\ pc \in {"drain", "redrain"} /\ todo = {}
    /\ Goto(IF pc = "drain" THEN "input" ELSE "watch")
    /\ UNCHANGED <<sessionVars, queueVars, childVars, boundVars, unfired>>

(* Keystrokes for the active session, then a second drain_pending_input.   *)
UserInput(s) ==
    /\ pc = "input" /\ typed < MaxTyped
    /\ user' = [user EXCEPT ![s] = @ + 1]
    /\ typed' = typed + 1
    /\ pc' = "redrain" /\ todo' = {k \in Key : k = s \/ k \in Queued}
    /\ UNCHANGED <<sessionVars, pos, ready, listed, sched, deferred, injections, enters,
                   childVars, direct, unfired>>

(* The user quits or detaches, standard input ends, a reload is asked for. *)
Quit ==
    /\ pc = "input" /\ Goto("ended")
    /\ UNCHANGED <<sessionVars, queueVars, childVars, boundVars, unfired>>

(* Phases in which the loop found nothing to do.                           *)
Skip ==
    /\ \/ pc = "input" /\ Goto("watch")
       \/ pc = "watch" /\ Goto("inject")
       \/ pc = "inject" /\ Goto("sync")
    /\ UNCHANGED <<sessionVars, queueVars, childVars, boundVars, unfired>>

(* A watcher matched: queue_injection drops the newest when full.          *)
QueueInjection(m) ==
    /\ pc = "watch" /\ m \in unfired
    /\ unfired' = unfired \ {m}
    /\ injections' = IF Len(injections) >= MaxInjections THEN injections
                     ELSE Append(injections, m)
    /\ UNCHANGED <<sessionVars, loopVars, user, sched, deferred, enters, childVars, boundVars>>

(* One queued injection per tick, paced: its text goes out in one write.   *)
Inject ==
    /\ pc = "inject" /\ injections # <<>>
    /\ injections' = Tail(injections)
    /\ Goto("sync")
    /\ UNCHANGED <<status, user, sched, deferred, boundVars, unfired>>
    /\ LET m == Head(injections)
           s == Resolve(Target[m])
       IN  \/ /\ Running(s)
              /\ TypeText(s, m)
              /\ \/ enters' = Append(enters, NewEnter(s, m))
                 \/ UNCHANGED enters         \* stalled after part of the text
           \/ SendFails(s) /\ UNCHANGED enters

(* sync_session_order: what the table holds, in the order it had.          *)
SyncSessionOrder ==
    /\ pc = "sync" /\ pc' = "exit"
    /\ listed' = {s \in listed : Present(s)}
    /\ UNCHANGED <<sessionVars, todo, pos, ready, queueVars, childVars, boundVars, unfired>>

(* check_session_exit: the loop ends when the active session has exited    *)
(* and no listed one runs.                                                 *)
CheckSessionExit ==
    /\ pc = "exit"
    /\ Goto(IF \E s \in Session : Running(s) THEN "events" ELSE "ended")
    /\ UNCHANGED <<sessionVars, queueVars, childVars, boundVars, unfired>>

(* The session an event was set from, or the first of session_order.       *)
TargetKey(m) ==
    IF Target[m] # None THEN Target[m]
    ELSE IF listed = {} THEN None
    ELSE CHOOSE s \in listed : \A t \in listed : Rank[s] <= Rank[t]

(* handle_scheduler_event: lost without a session, deferred or dropped     *)
(* while the user types, else delivered under the session's identifier.    *)
HandleEvent(m) ==
    LET k == TargetKey(m)
    IN  /\ pc = "events" /\ m \in unfired
        /\ unfired' = unfired \ {m}
        /\ UNCHANGED <<status, loopVars, injections, boundVars>>
        /\ IF ~Present(k)
           THEN UNCHANGED <<lastInput, idle, user, sched, deferred, enters, childVars>>
           ELSE IF ~idle[Resolve(k)]
           THEN /\ deferred' = IF Waits[m] THEN Append(deferred, m) ELSE deferred
                /\ UNCHANGED <<lastInput, idle, user, sched, enters, childVars>>
           ELSE UNCHANGED deferred /\ SendScheduler(Resolve(k), m)

EndEvents ==
    /\ pc = "events" /\ pc' = "deferred" /\ pos' = 1
    /\ UNCHANGED <<sessionVars, todo, ready, listed, queueVars, childVars, boundVars, unfired>>

IdleOnlyPresent(k) == Present(k) /\ idle[Resolve(k)]  \* mutant: a lost session is never idle

(* drain_deferred_scheduler_events decides under one lock ...              *)
IdleForDeferred(k) == k # None /\ (Present(k) => idle[Resolve(k)])

CheckDeferred ==
    /\ pc = "deferred" /\ pos <= Len(deferred) /\ ~ready
    /\ IF IdleForDeferred(TargetKey(deferred[pos]))
       THEN ready' = TRUE /\ UNCHANGED pos
       ELSE pos' = pos + 1 /\ UNCHANGED ready
    /\ UNCHANGED <<sessionVars, pc, todo, listed, queueVars, childVars, boundVars, unfired>>

(* ... and delivers under another, to a queue named by the target as given. *)
DeferredQueue(k) == k

KeepDeferred == deferred  \* mutant: a delivered event stays in the list

StillDeferred == RemoveAt(deferred, pos)

SendDeferred ==
    /\ pc = "deferred" /\ ready
    /\ ready' = FALSE
    /\ deferred' = StillDeferred
    /\ UNCHANGED <<status, pc, todo, pos, listed, injections, boundVars, unfired>>
    /\ LET k == TargetKey(deferred[pos])
       IN  IF Present(k)
           THEN SendScheduler(DeferredQueue(k), deferred[pos])
           ELSE UNCHANGED <<lastInput, idle, user, sched, enters, childVars>>

EndDeferred ==
    /\ pc = "deferred" /\ pos > Len(deferred)
    /\ pc' = "enters" /\ pos' = 1
    /\ UNCHANGED <<sessionVars, todo, ready, listed, queueVars, childVars, boundVars, unfired>>

-----------------------------------------------------------------------------
(* drain_delayed_enters: one pass over the entries, under the lock *)

KeepEnter(e) == enters' = [enters EXCEPT ![pos] = e] /\ pos' = pos + 1

RemoveEnter == enters' = RemoveAt(enters, pos) /\ UNCHANGED pos

OnEnter(m) ==
    /\ pc = "enters" /\ pos <= Len(enters) /\ enters[pos].msg = m
    /\ UNCHANGED <<status, pc, todo, ready, listed, user, sched, deferred, injections,
                   boundVars, unfired>>

NotDue(m) == OnEnter(m) /\ KeepEnter(enters[pos]) /\ NoTouch /\ NothingTyped

(* The first Enter goes out even when the text is no longer alone on the   *)
(* line; only an Enter that still owns the input is verified later.        *)
FirstEnter(m) ==
    LET e == enters[pos]
        s == e.session
    IN  /\ OnEnter(m) /\ ~e.armed
        /\ \/ /\ Running(s)
              /\ PressEnter(s, m)
              /\ IF Owned(e)
                 THEN KeepEnter([e EXCEPT !.armed = TRUE, !.inputAt = lastInput'[s]])
                 ELSE RemoveEnter
           \/ RemoveEnter /\ SendFails(s)

(* Whether the prompt still shows the text (input_matches) and whether the *)
(* output was quiet since the last check are up to the child.              *)
RetryEnter(m) ==
    LET e == enters[pos]
        s == e.session
    IN  /\ OnEnter(m) /\ e.armed
        /\ Running(s) /\ Owned(e) /\ ~Exhausted(e)
        /\ \/ /\ KeepEnter([e EXCEPT !.checks = @ + 1])
              /\ NoTouch /\ NothingTyped
           \/ /\ Running(s)
              /\ PressEnter(s, m)
              /\ KeepEnter([e EXCEPT !.checks = @ + 1, !.inputAt = lastInput'[s]])
           \/ RemoveEnter /\ SendFails(s)

(* Session gone or exited, intervening input, no matching input, or the    *)
(* final check: every exit that sends nothing.                             *)
GiveUp(m) == /\ OnEnter(m) /\ enters[pos].armed
             /\ RemoveEnter /\ NoTouch /\ NothingTyped

EndEnters ==
    /\ pc = "enters" /\ pos > Len(enters)
    /\ pc' = "drain" /\ pos' = 1 /\ todo' = Queued
    /\ UNCHANGED <<sessionVars, ready, listed, queueVars, childVars, boundVars, unfired>>

-----------------------------------------------------------------------------
(* The other threads, the children and time *)

(* Raw writes of viewers, the web console and MCP clients; the bytes may   *)
(* hold an Enter.                                                          *)
DirectWrite(s) ==
    /\ ~LockHeld /\ direct < MaxDirect
    /\ direct' = direct + 1
    /\ \/ Running(s) /\ (TypeText(s, Other) \/ PressEnter(s, None))
       \/ SendFails(s)
    /\ UNCHANGED <<status, loopVars, queueVars, typed, unfired>>

(* A pump notices that the child has exited; a client kills the session.   *)
SessionEnds(s) ==
    /\ ~LockHeld
    /\ \/ Running(s) /\ status' = [status EXCEPT ![s] = "exited"]
       \/ status[s] # "gone" /\ status' = [status EXCEPT ![s] = "gone"]
    /\ UNCHANGED <<lastInput, idle, loopVars, queueVars, childVars, boundVars, unfired>>

BecomeIdle(s) ==
    /\ ~idle[s] /\ idle' = [idle EXCEPT ![s] = TRUE]
    /\ UNCHANGED <<status, lastInput, loopVars, queueVars, childVars, boundVars, unfired>>

ProcessEnter(m) == FirstEnter(m) \/ RetryEnter(m) \/ GiveUp(m)

Loop ==
    \/ \E k \in Key : DrainKey(k)
    \/ EndDrain
    \/ \E s \in Session : UserInput(s)
    \/ Quit \/ Skip
    \/ \E m \in Injected : QueueInjection(m)
    \/ Inject
    \/ SyncSessionOrder \/ CheckSessionExit
    \/ \E m \in Scheduled : HandleEvent(m)
    \/ EndEvents
    \/ CheckDeferred \/ SendDeferred \/ EndDeferred
    \/ \E m \in Message : NotDue(m) \/ ProcessEnter(m)
    \/ EndEnters

Environment == \E s \in Session : DirectWrite(s) \/ SessionEnds(s) \/ BecomeIdle(s)

Next == Loop \/ Environment

Spec == Init /\ [][Next]_vars

(* The loop's poll times out, so it keeps turning; time passes, so what is *)
(* looked at again and again is due in the end; a session left alone goes  *)
(* idle; a child that lives reads its input.                               *)
ScheduledProgress(k) == pc \in {"drain", "redrain"} /\ DrainKey(k) /\ <<user, sched>>' # <<user, sched>>

Fairness ==
    /\ WF_vars(Loop)
    /\ SF_vars(Inject)
    /\ \A k \in Key : SF_vars(ScheduledProgress(k))
    /\ \A m \in Message : SF_vars(ProcessEnter(m))
    /\ \A s \in Session : WF_vars(BecomeIdle(s))

FairSpec == Spec /\ Fairness

-----------------------------------------------------------------------------
(* Properties *)

Entry == [session : Session, msg : Message, inputAt : Nat, armed : BOOLEAN,
          checks : 0 .. RetryChecks]

Input == {i \in [msg : Scheduled, offset : Nat, chunkEnd : Nat, paced : BOOLEAN] :
            i.offset < i.chunkEnd /\ i.chunkEnd <= Size[i.msg]}

SessionTypeOK ==
    /\ status \in [Session -> {"running", "exited", "gone"}]
    /\ lastInput \in [Session -> Nat]
    /\ idle \in [Session -> BOOLEAN]

LoopTypeOK ==
    /\ pc \in {"drain", "input", "redrain", "watch", "inject", "sync", "exit", "events",
               "deferred", "enters", "ended"}
    /\ todo \in SUBSET Key
    /\ pos \in Nat \ {0}
    /\ ready \in BOOLEAN
    /\ listed \in SUBSET Session

QueueTypeOK ==
    /\ user \in [Session -> Nat]
    /\ sched \in [Key -> Seq(Input)]
    /\ deferred \in Seq(Scheduled)
    /\ injections \in Seq(Injected)
    /\ enters \in Seq(Entry)
    /\ unfired \in SUBSET Message

ChildTypeOK ==
    /\ line \in [Session -> SUBSET (Message \cup {Other})]
    /\ by \in [Session -> Message \cup {None}]
    /\ sent \in [Message -> Nat]

(* Every variable holds a value of its kind; a queued text always has an   *)
(* unsent chunk that ends within the text (SchedulerInput).                *)
TypeOK == /\ SessionTypeOK /\ LoopTypeOK /\ QueueTypeOK /\ ChildTypeOK
          /\ typed \in Nat /\ direct \in Nat

(* drain_delayed_enters presses Enter again only when the last thing the   *)
(* terminal received was the previous Enter of the same text: a retry      *)
(* never submits what someone else has typed in between.                   *)
RetryFollowsOwnEnter ==
    [][\A m \in Message :
          sent[m] > 0 /\ sent'[m] > sent[m] =>
             \E s \in Session : by[s] = m /\ line[s] = {} /\ lastInput'[s] = lastInput[s] + 1]_vars

(* Only an Enter that submitted its own text is verified and retried: an   *)
(* entry becomes armed in a step that pressed Enter on a line holding it.  *)
Armed(m) == \E i \in DOMAIN enters : enters[i].msg = m /\ enters[i].armed

ArmedBySubmitting ==
    [][\A i \in DOMAIN enters' :
          enters'[i].armed /\ ~Armed(enters'[i].msg) =>
             LET s == enters'[i].session
             IN  enters'[i].msg \in line[s] /\ line'[s] = {}]_vars

(* An Enter is repeated only for the text that its first press submitted.  *)
OwnEnters == ArmedBySubmitting /\ RetryFollowsOwnEnter

Places(m) ==
    {<<"deferred", i>> : i \in {j \in DOMAIN deferred : deferred[j] = m}}
      \cup {<<"injection", i>> : i \in {j \in DOMAIN injections : injections[j] = m}}
      \cup {<<"enter", i>> : i \in {j \in DOMAIN enters : enters[j].msg = m}}
      \cup {<<"unfired", 0>> : i \in {m} \cap unfired}
      \cup UNION {{<<k, i>> : i \in {j \in DOMAIN sched[k] : sched[k][j].msg = m}} : k \in Key}

(* A message is in one place at a time, from firing to its last Enter: it  *)
(* is never delivered twice, and the Enter never overtakes the text.       *)
OnePlace == \A m \in Message : Cardinality(Places(m)) <= 1

PartlySent(s) ==
    UNION {{<<k, i>> : i \in {j \in DOMAIN sched[k] : sched[k][j].offset > 0}} :
              k \in {key \in Key : Resolve(key) = s}}

(* "Scheduler continuations share the same per-session input drain": a     *)
(* session never receives chunks of two scheduled texts in turn.           *)
OneTextAtATime == \A s \in Session : Cardinality(PartlySent(s)) <= 1

(* "Scheduler writes cannot run while user input has priority": no unit of *)
(* a scheduled text is written to a session whose user bytes wait.         *)
(* TLC refutes this, see the README.                                       *)
UserInputFirst ==
    [][\A s \in Session, m \in Scheduled :
          m \in line'[s] /\ m \notin line[s] => user[s] = 0]_vars

(* "If the user typed something more recently, we defer or drop to avoid   *)
(* clobbering": a scheduled text is accepted only by an idle session.      *)
(* TLC refutes this, see the README.                                       *)
AcceptedWhenIdle ==
    [][\A k \in Key : Len(sched'[k]) > Len(sched[k]) => idle[Resolve(k)]]_vars

(* Each injected text is submitted by an Enter of its own: two of them     *)
(* never stand on one input line.                                          *)
(* TLC refutes this, see the README.                                       *)
InjectionsApart ==
    \A s \in Session : Cardinality(line[s] \cap Injected) <= 1

(* Once it has fired, a message is delivered, retried, given up or dropped *)
(* in the end: while the loop runs, no queue of it keeps it for ever.      *)
EventuallySettled == \A m \in Message : m \notin unfired ~> Places(m) = {} \/ pc = "ended"

=============================================================================
