------------------------------ MODULE WebConsole ------------------------------
(***************************************************************************)
(* The web console: one publisher task, and for every connected browser a  *)
(* task that pushes and a task that reads.  Every 50 ms the publisher      *)
(* renders the sessions somebody watches into an immutable snapshot; the   *)
(* tasks of a connection share the viewer (what it watches and what it was *)
(* sent last) behind one mutex and the socket behind another, so that what *)
(* is computed under the first may be sent in another order.               *)
(*                                                                         *)
(* Sessions are numbered as they are created; the screen of a session is   *)
(* its number and a version.                                               *)
(***************************************************************************)
EXTENDS Naturals, FiniteSets, FiniteSetsExt

CONSTANTS
    Sessions,      \* bound: sessions that are ever created
    Root,          \* the one tttt itself depends on
    Viewer,        \* connections
    MaxOutput,     \* bound: changes of each screen
    MaxConnects,   \* bound: times each connection is made
    MaxRequests,   \* bound: requests of each connection
    None

Session == 1 .. Sessions

ASSUME RootAssumption == Sessions \in Nat /\ Root \in Session
ASSUME NoneAssumption == None \notin Session
ASSUME ViewerAssumption == IsFiniteSet(Viewer)
ASSUME BoundAssumption == {MaxOutput, MaxConnects, MaxRequests} \subseteq Nat

VARIABLES
    alive,      \* sessions in the table of the session manager
    born,       \* how many were created
    version,    \* [Session -> the version of its screen]
    snap,       \* the published snapshot: [list, shot]
    watched,    \* [Session -> how many viewers watch it]
    viewer,     \* [Viewer -> [active, content, list, state]], sent last
    push,       \* [Viewer -> [pc, snap, out]], the pushing task
    reader,     \* [Viewer -> [pc, arg, snap, out]], the reading task
    fresh,      \* [Viewer -> a snapshot it has not taken is published]
    client,     \* [Viewer -> [screen, list]], what the browser shows
    connects, requests,
    strayed     \* history: an aborted push moved a viewer that had been read already

managerVars == <<alive, born, version>>
countVars == <<connects, requests, strayed>>
vars == <<managerVars, snap, watched, viewer, push, reader, fresh, client, countVars>>

Nothing == [list |-> None, screen |-> None]
NoSnap == [list |-> {}, shot |-> <<>>]
NewViewer == [active |-> None, content |-> None, list |-> None, state |-> "none"]
PushOff == [pc |-> "off", snap |-> NoSnap, out |-> Nothing]
ReaderIdle == [pc |-> "idle", arg |-> None, snap |-> NoSnap, out |-> Nothing]

Init ==
    /\ alive = {Root} /\ born = Root /\ version = [s \in Session |-> 0]
    /\ snap = NoSnap
    /\ watched = [s \in Session |-> 0]
    /\ viewer = [v \in Viewer |-> NewViewer]
    /\ push = [v \in Viewer |-> PushOff] /\ reader = [v \in Viewer |-> ReaderIdle]
    /\ fresh = [v \in Viewer |-> FALSE]
    /\ client = [v \in Viewer |-> Nothing]
    /\ connects = [v \in Viewer |-> 0] /\ requests = [v \in Viewer |-> 0]
    /\ strayed = FALSE

-----------------------------------------------------------------------------
(* Snapshots and what a viewer is sent *)

(* pick_default: the root session, else the first.                         *)
Default(list) ==
    IF list = {} THEN None ELSE IF Root \in list THEN Root ELSE Min(list)

build_snapshot ==
    [list |-> alive,
     shot |-> [s \in {t \in alive : watched[t] > 0} |-> <<s, version[s]>>]]

(* A mutant of retarget_watch: the new session is not counted.             *)
OnlyReleases(old, new) ==
    IF old # None /\ watched[old] > 0 THEN [watched EXCEPT ![old] = @ - 1] ELSE watched

retarget_watch(old, new) ==
    LET less == IF old # None /\ watched[old] > 0 THEN [watched EXCEPT ![old] = @ - 1] ELSE watched
    IN  CASE old = new -> watched
          [] old # new /\ new = None -> less
          [] old # new /\ new # None -> [less EXCEPT ![new] = @ + 1]

(* invalidate: whatever is on the screen will be sent again.               *)
Retargeted(view, s) == [view EXCEPT !.active = s, !.content = None]

(* Mutants of Repicked: a viewer stays with a session that is gone, or is  *)
(* given the default whatever it watches.                                  *)
KeepsDead(sn, view) == view
PrefersDefault(sn, view) ==
    IF view.active # Default(sn.list)
    THEN [Retargeted(view, Default(sn.list)) EXCEPT !.list = None]
    ELSE view

(* viewer_updates: a viewer whose session is gone is given another; then   *)
(* it is sent the list and the screen if they are not what it was sent.    *)
Repicked(sn, view) ==
    IF view.active \notin sn.list /\ view.active # Default(sn.list)
    THEN [Retargeted(view, Default(sn.list)) EXCEPT !.list = None]
    ELSE view

Screen(sn, view) == IF view.active \in DOMAIN sn.shot THEN sn.shot[view.active] ELSE None

Out(sn, view) ==
    [list |-> IF view.list = sn.list THEN None ELSE sn.list,
     screen |-> IF Screen(sn, view) = view.content THEN None ELSE Screen(sn, view)]

Sent(sn, view) ==
    [view EXCEPT !.list = sn.list,
                 !.content = IF Screen(sn, view) = None THEN @ ELSE Screen(sn, view)]

viewer_updates(v, sn) ==
    LET view == Repicked(sn, viewer[v])
    IN  /\ watched' = retarget_watch(viewer[v].active, view.active)
        /\ viewer' = [viewer EXCEPT ![v] = Sent(sn, view)]

NewOut(v, sn) == Out(sn, Repicked(sn, viewer[v]))

(* The browser: a message replaces the list or the screen.                 *)
Received(v, out) ==
    client' = [client EXCEPT ![v] =
                  [list |-> IF out.list = None THEN @.list ELSE out.list,
                   screen |-> IF out.screen = None THEN @.screen ELSE out.screen]]

-----------------------------------------------------------------------------
(* The rest of tttt: output, launches and kills *)

Output(s) ==
    /\ s \in alive /\ version[s] < MaxOutput
    /\ version' = [version EXCEPT ![s] = @ + 1]
    /\ UNCHANGED <<alive, born, snap, watched, viewer, push, reader, fresh, client, countVars>>

Launch ==
    /\ born < Sessions
    /\ born' = born + 1 /\ alive' = alive \cup {born + 1}
    /\ UNCHANGED <<version, snap, watched, viewer, push, reader, fresh, client, countVars>>

KillElsewhere(s) ==
    /\ s \in alive /\ alive' = alive \ {s}
    /\ UNCHANGED <<born, version, snap, watched, viewer, push, reader, fresh, client, countVars>>

-----------------------------------------------------------------------------
(* The publisher: connections are woken only if something has changed.     *)

Publish ==
    /\ build_snapshot # snap
    /\ snap' = build_snapshot
    /\ fresh' = [v \in Viewer |-> push[v].pc # "off"]
    /\ UNCHANGED <<managerVars, watched, viewer, push, reader, client, countVars>>

-----------------------------------------------------------------------------
(* The pushing task *)

PushTake(v) ==
    /\ push[v].pc = "take" \/ (push[v].pc = "wait" /\ fresh[v])
    /\ push' = [push EXCEPT ![v] = [@ EXCEPT !.pc = "compute", !.snap = snap]]
    /\ fresh' = [fresh EXCEPT ![v] = FALSE]
    /\ UNCHANGED <<managerVars, snap, watched, viewer, reader, client, countVars>>

(* After an abort the task still ends the poll it is in, even if by then   *)
(* the connection has been read, or is gone.                               *)
AfterCompute(v, out) ==
    CASE viewer[v].state # "open" -> PushOff
      [] viewer[v].state = "open" /\ out = Nothing -> [PushOff EXCEPT !.pc = "wait"]
      [] viewer[v].state = "open" /\ out # Nothing -> [PushOff EXCEPT !.pc = "send", !.out = out]

Read(v) == viewer[v].state = "none" \/ reader[v].pc = "drop"

PushCompute(v) ==
    /\ push[v].pc = "compute"
    /\ viewer_updates(v, push[v].snap)
    /\ strayed' = (strayed \/ (Read(v) /\ viewer'[v].active # viewer[v].active))
    /\ push' = [push EXCEPT ![v] = AfterCompute(v, NewOut(v, push[v].snap))]
    /\ UNCHANGED <<managerVars, snap, reader, fresh, client, connects, requests>>

PushSend(v) ==
    /\ push[v].pc = "send"
    /\ Received(v, push[v].out)
    /\ push' = [push EXCEPT ![v] = [PushOff EXCEPT !.pc = "wait"]]
    /\ UNCHANGED <<managerVars, snap, watched, viewer, reader, fresh, countVars>>

-----------------------------------------------------------------------------
(* The reading task *)

Open(v) == viewer[v].state = "open"
Idle(v) == Open(v) /\ reader[v].pc = "idle"
Asks(v) ==
    /\ Idle(v) /\ requests[v] < MaxRequests
    /\ requests' = [requests EXCEPT ![v] = @ + 1]
Goes(v, pc, arg) == reader' = [reader EXCEPT ![v] = [ReaderIdle EXCEPT !.pc = pc, !.arg = arg]]

Connect(v) ==
    LET active == Default(alive)
    IN  /\ viewer[v].state = "none" /\ push[v].pc = "off" /\ connects[v] < MaxConnects
        /\ connects' = [connects EXCEPT ![v] = @ + 1]
        /\ watched' = retarget_watch(None, active)
        /\ viewer' = [viewer EXCEPT ![v] = [NewViewer EXCEPT !.active = active, !.state = "open"]]
        /\ push' = [push EXCEPT ![v] = [PushOff EXCEPT !.pc = "take"]]
        /\ reader' = [reader EXCEPT ![v] = ReaderIdle]
        /\ client' = [client EXCEPT ![v] = Nothing]
        /\ UNCHANGED <<managerVars, snap, fresh, requests, strayed>>

(* SwitchSession: the table is looked at, then the viewer is changed, then *)
(* what is published is pushed at once (flush_viewer).                     *)
SwitchSession(v, s) ==
    /\ Asks(v) /\ client[v].list # None /\ s \in client[v].list
    /\ s \in alive /\ Goes(v, "switch", s)
    /\ UNCHANGED <<managerVars, snap, watched, viewer, push, fresh, client, connects, strayed>>

Watch(v, s) ==
    /\ watched' = retarget_watch(viewer[v].active, s)
    /\ viewer' = [viewer EXCEPT ![v] = Retargeted(@, s)]

Switched(v) ==
    /\ reader[v].pc = "switch"
    /\ Watch(v, reader[v].arg) /\ Goes(v, "flush", None)
    /\ UNCHANGED <<managerVars, snap, push, fresh, client, countVars>>

FlushTake(v) ==
    /\ reader[v].pc = "flush"
    /\ reader' = [reader EXCEPT ![v] = [ReaderIdle EXCEPT !.pc = "compute", !.snap = snap]]
    /\ UNCHANGED <<managerVars, snap, watched, viewer, push, fresh, client, countVars>>

FlushCompute(v) ==
    LET out == NewOut(v, reader[v].snap)
    IN  /\ reader[v].pc = "compute"
        /\ viewer_updates(v, reader[v].snap)
        /\ reader' = [reader EXCEPT ![v] =
                         IF out = Nothing THEN ReaderIdle ELSE [ReaderIdle EXCEPT !.pc = "send", !.out = out]]
        /\ UNCHANGED <<managerVars, snap, push, fresh, client, countVars>>

FlushSend(v) ==
    /\ reader[v].pc = "send"
    /\ Received(v, reader[v].out) /\ Goes(v, "idle", None)
    /\ UNCHANGED <<managerVars, snap, watched, viewer, push, fresh, countVars>>

(* CreateSession: the viewer is switched, and told after that; the browser *)
(* clears its screen when it is told.                                      *)
CreateSession(v) ==
    /\ Asks(v) /\ born < Sessions
    /\ born' = born + 1 /\ alive' = alive \cup {born + 1}
    /\ Goes(v, "created", born + 1)
    /\ UNCHANGED <<version, snap, watched, viewer, push, fresh, client, connects, strayed>>

Created(v) ==
    /\ reader[v].pc = "created"
    /\ Watch(v, reader[v].arg) /\ Goes(v, "ack", None)
    /\ UNCHANGED <<managerVars, snap, push, fresh, client, countVars>>

AckCreated(v) ==
    /\ reader[v].pc = "ack" /\ Goes(v, "idle", None)
    /\ client' = [client EXCEPT ![v].screen = None]
    /\ UNCHANGED <<managerVars, snap, watched, viewer, push, fresh, countVars>>

Killable(s) == s \in alive /\ s # Root

(* KillSession: refused for the root session; then, refused or not, a      *)
(* viewer that watches the session is switched to the first other one.     *)
KillSession(v, s) ==
    /\ Asks(v) /\ client[v].list # None /\ s \in client[v].list
    /\ alive' = IF Killable(s) THEN alive \ {s} ELSE alive
    /\ Goes(v, "killed", s)
    /\ UNCHANGED <<born, version, snap, watched, viewer, push, fresh, client, connects, strayed>>

Killed(v) ==
    LET others == alive \ {reader[v].arg}
        next == IF others = {} THEN None ELSE Min(others)
    IN  /\ reader[v].pc = "killed"
        /\ IF viewer[v].active = reader[v].arg THEN Watch(v, next) ELSE UNCHANGED <<watched, viewer>>
        /\ Goes(v, "idle", None)
        /\ UNCHANGED <<managerVars, snap, push, fresh, client, countVars>>

KeyInput(v) ==
    /\ Asks(v) /\ viewer[v].active \in alive /\ version[viewer[v].active] < MaxOutput
    /\ version' = [version EXCEPT ![viewer[v].active] = @ + 1]  \* the child echoes
    /\ UNCHANGED <<alive, born, snap, watched, viewer, push, reader, fresh, client, connects, strayed>>

(* The connection ends: the pushing task is aborted, which waits for       *)
(* nothing; the viewer is read; its session is given back.                 *)
Close(v) ==
    /\ Idle(v)
    /\ viewer' = [viewer EXCEPT ![v].state = "closing"]
    /\ \/ push' = [push EXCEPT ![v] = PushOff]
       \/ push[v].pc = "compute" /\ UNCHANGED push
    /\ UNCHANGED <<managerVars, snap, watched, reader, fresh, client, countVars>>

CloseRead(v) ==
    /\ viewer[v].state = "closing" /\ reader[v].pc = "idle"
    /\ Goes(v, "drop", viewer[v].active)
    /\ UNCHANGED <<managerVars, snap, watched, viewer, push, fresh, client, countVars>>

CloseDrop(v) ==
    /\ reader[v].pc = "drop"
    /\ watched' = retarget_watch(reader[v].arg, None)
    /\ viewer' = [viewer EXCEPT ![v].state = "none"]
    /\ Goes(v, "idle", None)
    /\ UNCHANGED <<managerVars, snap, push, fresh, client, countVars>>

-----------------------------------------------------------------------------
PushNext(v) == PushTake(v) \/ PushCompute(v) \/ PushSend(v)
ReaderNext(v) ==
    \/ Switched(v) \/ FlushTake(v) \/ FlushCompute(v) \/ FlushSend(v)
    \/ Created(v) \/ AckCreated(v) \/ Killed(v) \/ CloseRead(v) \/ CloseDrop(v)
Request(v) ==
    \/ \E s \in Session : SwitchSession(v, s) \/ KillSession(v, s)
    \/ CreateSession(v) \/ KeyInput(v) \/ Close(v)

Next ==
    \/ Launch \/ Publish
    \/ \E s \in Session : Output(s) \/ KillElsewhere(s)
    \/ \E v \in Viewer : Connect(v) \/ Request(v) \/ PushNext(v) \/ ReaderNext(v)

(* The runtime polls every task that can go on; the interval ticks.        *)
Fairness == WF_vars(Publish) /\ \A v \in Viewer : WF_vars(PushNext(v)) /\ WF_vars(ReaderNext(v))

Spec == Init /\ [][Next]_vars
FairSpec == Spec /\ Fairness

-----------------------------------------------------------------------------
(* Properties *)

TypeOK ==
    /\ born \in Session /\ alive \subseteq 1 .. born /\ version \in [Session -> 0 .. MaxOutput]
    /\ snap.list \subseteq Session /\ DOMAIN snap.shot \subseteq snap.list
    /\ watched \in [Session -> Nat]
    /\ \A v \in Viewer :
        /\ viewer[v].active \in 1 .. born \cup {None}
        /\ viewer[v].content # None => viewer[v].content[1] = viewer[v].active
        /\ push[v].pc \in {"off", "take", "compute", "send", "wait"}
        /\ reader[v].pc # "idle" => viewer[v].state # "none"
    /\ fresh \in [Viewer -> BOOLEAN]

(* The session for which a connection is counted in watched.               *)
CountedFor(v) ==
    IF reader[v].pc = "drop" THEN reader[v].arg
    ELSE IF viewer[v].state = "none" THEN None ELSE viewer[v].active

(* "Refcounts of sessions currently watched by connected viewers": each is *)
(* counted once, where it looks, so that what it watches is rendered and   *)
(* what nobody watches is not, over all requests, deaths and connections   *)
(* that end, however pushes and requests cross.                            *)
CountsAgree ==
    \A s \in Session : watched[s] = Cardinality({v \in Viewer : CountedFor(v) = s})

(* They agree until a push goes on after its connection was read.          *)
WebInv == TypeOK /\ (~strayed => CountsAgree)

(* "Drop this viewer's watch refcount so the publisher stops rendering     *)
(* sessions nobody is looking at" (web/mod.rs): the push task was aborted  *)
(* before that, which waits for nothing.  TLC refutes this, see the README.*)
CountsAlwaysAgree == CountsAgree

(* Whoever closes sessions, as long as there is one a browser ends up with *)
(* one that lives and shows its screen as it is now.  A connection that    *)
(* switches may be left with an older snapshot (flush_viewer takes it      *)
(* before it takes the viewer), one that creates with a session that was   *)
(* closed before it was published, one that asks to close the root without *)
(* any (NeverLeftOut): this is about the others, as long as no stray push  *)
(* has taken a count away.                                                 *)
OnlyLooks(v) ==
    /\ reader[v].pc \notin {"created", "switch"}
    /\ reader[v].pc = "killed" => reader[v].arg # Root
Served(v) ==
    /\ viewer[v].active \in alive
    /\ client[v].screen = <<viewer[v].active, version[viewer[v].active]>>
AlwaysServed ==
    \A v \in Viewer : [](OnlyLooks(v) /\ ~strayed) => []<>(Open(v) /\ alive # {} => Served(v))

(* As long as there is a session every viewer has one ("Without this the   *)
(* viewer freezes on a dead session", web/mod.rs).                         *)
(* TLC refutes this, see the README.                                       *)
NeverLeftOut == \A v \in Viewer : []<>(Open(v) /\ alive # {} => viewer[v].active \in alive)

(* A viewer is moved off a session that lives only by a request of its own,*)
(* or by a snapshot from before that session was created.                  *)
MovedByRequest ==
    [][\A v \in Viewer :
         /\ Open(v) /\ viewer'[v].state = "open" /\ viewer[v].active \in alive
         /\ viewer'[v].active # viewer[v].active
         => reader'[v] # reader[v] \/ viewer[v].active \notin push[v].snap.list]_vars
=============================================================================
