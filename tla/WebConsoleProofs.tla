-------------------------- MODULE WebConsoleProofs --------------------------
(***************************************************************************)
(* Proofs about WebConsole and Access for any sessions, viewers, tokens,   *)
(* starts and reloads: the counts of watched sessions are those of the     *)
(* viewers, a viewer is moved only when it asks or must, a public server   *)
(* asks for a credential, and a reload keeps it.                           *)
(***************************************************************************)
EXTENDS MCWebConsole, FiniteSetTheorems, WellFoundedInduction, TLAPS

-----------------------------------------------------------------------------
(* The first session of a list *)

LEMMA HasLeast ==
    ASSUME NEW T, T \subseteq Nat, T # {}
    PROVE  \E n \in T : \A k \in T : n <= k
<1> DEFINE R == OpToRel(<, Nat)
<1>1. IsWellFoundedOn(R, Nat)
  BY NatLessThanWellFounded
<1>2. \A x, y \in Nat : <<x, y>> \in R <=> x < y
  BY DEF OpToRel
<1> HIDE DEF R
<1>3. PICK x \in T : \A y \in T : ~(<<y, x>> \in R)
  BY <1>1, WFMin
<1>4. ASSUME NEW y \in T PROVE x <= y
  <2>1. ~(<<y, x>> \in R) /\ x \in Nat /\ y \in Nat
    BY <1>3
  <2>2. ~(y < x)
    BY <1>2, <2>1
  <2> QED BY <2>1, <2>2
<1> QED BY <1>4

LEMMA FirstOfList ==
    ASSUME NEW T, T \subseteq Nat, T # {}
    PROVE  Min(T) \in T
<1>1. \E n \in T : \A k \in T : n <= k
  BY HasLeast
<1> QED BY <1>1 DEF Min

LEMMA DefaultIsListed ==
    ASSUME NEW T, T \subseteq Nat
    PROVE  Default(T) \in T \cup {None}
BY FirstOfList DEF Default

-----------------------------------------------------------------------------
(* The inductive invariant *)

(* A snapshot shows sessions that were created, b of them so far, and of   *)
(* each its own screen.                                                    *)
SnapOK(sn, b) ==
    /\ sn.list \subseteq 1 .. b /\ DOMAIN sn.shot \subseteq sn.list
    /\ \A s \in DOMAIN sn.shot : sn.shot[s][1] = s

ViewOK(view, b) ==
    /\ DOMAIN view = {"active", "content", "list", "state"}
    /\ view.active \in 1 .. b \cup {None}
    /\ view.content # None => view.content[1] = view.active
    /\ view.state \in {"none", "open", "closing"}

PushOK(p, b) ==
    /\ DOMAIN p = {"pc", "snap", "out"}
    /\ p.pc \in {"off", "take", "compute", "send", "wait"} /\ SnapOK(p.snap, b)

ReaderOK(r, b) ==
    /\ DOMAIN r = {"pc", "arg", "snap", "out"}
    /\ r.arg \in Session \cup {None} /\ SnapOK(r.snap, b)
    /\ r.pc # "killed" => r.arg \in 1 .. b \cup {None}

(* The reading task works only for a connection that is open, until the    *)
(* end, when it gives back what it has read.                               *)
Paired(view, r) ==
    /\ r.pc \notin {"idle", "drop"} => view.state = "open"
    /\ r.pc = "drop" => view.state = "closing"

ServerOK ==
    /\ born \in Session /\ alive \subseteq 1 .. born
    /\ version \in [Session -> 0 .. MaxOutput]
    /\ SnapOK(snap, born)
    /\ watched \in [Session -> Nat]
    /\ fresh \in [Viewer -> BOOLEAN] /\ strayed \in BOOLEAN

ConnectionOK ==
    /\ DOMAIN viewer = Viewer /\ DOMAIN push = Viewer /\ DOMAIN reader = Viewer
    /\ \A v \in Viewer : /\ ViewOK(viewer[v], born) /\ PushOK(push[v], born)
                         /\ ReaderOK(reader[v], born) /\ Paired(viewer[v], reader[v])

WebInductive == ServerOK /\ ConnectionOK /\ (~strayed => CountsAgree)

LEMMA WebHolds == WebInductive => WebInv
<1> SUFFICES ASSUME WebInductive PROVE TypeOK
  BY DEF WebInductive, WebInv
<1>1. snap.list \subseteq Session
  BY RootAssumption DEF WebInductive, ServerOK, SnapOK, Session
<1>2. ASSUME NEW v \in Viewer
      PROVE  /\ viewer[v].active \in 1 .. born \cup {None}
             /\ viewer[v].content # None => viewer[v].content[1] = viewer[v].active
             /\ push[v].pc \in {"off", "take", "compute", "send", "wait"}
             /\ reader[v].pc # "idle" => viewer[v].state # "none"
  BY DEF WebInductive, ConnectionOK, ViewOK, PushOK, Paired
<1> QED BY <1>1, <1>2 DEF WebInductive, ServerOK, SnapOK, TypeOK

LEMMA WebStart == Init => WebInductive
<1> SUFFICES ASSUME Init PROVE WebInductive
  OBVIOUS
<1>1. Sessions \in Nat /\ Root \in Session /\ 0 \in 0 .. MaxOutput
  BY RootAssumption, BoundAssumption
<1>2. \A b : SnapOK(NoSnap, b)
  <2>1. DOMAIN <<>> = {}
    OBVIOUS
  <2> QED BY <2>1 DEF SnapOK, NoSnap
<1>3. ServerOK
  <2>1. born \in Session /\ alive \subseteq 1 .. born
    BY <1>1 DEF Init, Session
  <2>2. SnapOK(snap, born)
    BY <1>2 DEF Init
  <2> QED BY <1>1, <2>1, <2>2 DEF Init, ServerOK
<1>4. ConnectionOK
  BY <1>2 DEF Init, ConnectionOK, ViewOK, PushOK, ReaderOK, Paired, NewViewer, PushOff, ReaderIdle
<1>5. CountsAgree
  <2>1. \A s \in Session : {v \in Viewer : CountedFor(v) = s} = {}
    BY NoneAssumption DEF Init, CountedFor, NewViewer, ReaderIdle
  <2> QED BY <2>1, FS_EmptySet DEF Init, CountsAgree
<1> QED BY <1>3, <1>4, <1>5 DEF WebInductive

-----------------------------------------------------------------------------
(* The counts *)

(* Nobody is counted for another session than before.                      *)
NobodyMoves == \A u \in Viewer : CountedFor(u)' = CountedFor(u)

(* One connection is counted for another one.                              *)
MovesTo(v, n) ==
    /\ watched' = retarget_watch(CountedFor(v), n)
    /\ \A u \in Viewer : CountedFor(u)' = IF u = v THEN n ELSE CountedFor(u)

LEMMA NobodyMovesCounts ==
    ASSUME NobodyMoves, UNCHANGED watched, CountsAgree
    PROVE  CountsAgree'
<1>1. \A s \in Session : {v \in Viewer : CountedFor(v)' = s} = {v \in Viewer : CountedFor(v) = s}
  BY DEF NobodyMoves
<1> QED BY <1>1 DEF CountsAgree

LEMMA RetargetType ==
    ASSUME watched \in [Session -> Nat], NEW o \in Session \cup {None}, NEW n \in Session \cup {None}
    PROVE  retarget_watch(o, n) \in [Session -> Nat]
<1> DEFINE less == IF o # None /\ watched[o] > 0 THEN [watched EXCEPT ![o] = @ - 1] ELSE watched
<1>1. less \in [Session -> Nat]
  OBVIOUS
<1>2. retarget_watch(o, n) = IF o = n THEN watched ELSE IF n = None THEN less ELSE [less EXCEPT ![n] = @ + 1]
  BY DEF retarget_watch
<1> HIDE DEF less
<1> QED BY <1>1, <1>2

LEMMA MovesToCounts ==
    ASSUME watched \in [Session -> Nat], CountsAgree,
           NEW v \in Viewer, NEW n \in Session \cup {None}, MovesTo(v, n),
           CountedFor(v) \in Session \cup {None}
    PROVE  CountsAgree'
<1> DEFINE o == CountedFor(v)
           W(s) == {u \in Viewer : CountedFor(u) = s}
           X(s) == {u \in Viewer : CountedFor(u)' = s}
<1>1. \A s : IsFiniteSet(W(s))
  BY FS_Subset, ViewerAssumption
<1>2. \A s \in Session : watched[s] = Cardinality(W(s)) /\ watched[s] \in Nat
  BY DEF CountsAgree
<1>3. \A s : X(s) = IF s = n THEN W(s) \cup {v} ELSE W(s) \ {v}
  BY DEF MovesTo
<1>4. \A s : v \in W(s) <=> s = o
  OBVIOUS
<1>5. None \notin Session
  BY NoneAssumption
<1> HIDE DEF W, X
<1>6. \A s : /\ Cardinality(W(s) \cup {v}) = IF s = o THEN Cardinality(W(s)) ELSE Cardinality(W(s)) + 1
             /\ Cardinality(W(s) \ {v}) = IF s = o THEN Cardinality(W(s)) - 1 ELSE Cardinality(W(s))
  BY <1>1, <1>4, FS_AddElement, FS_RemoveElement
<1>7. o \in Session => watched[o] > 0
  <2>1. SUFFICES ASSUME o \in Session PROVE Cardinality(W(o)) # 0
    BY <1>2
  <2>2. W(o) # {}
    BY <1>4
  <2> QED BY <1>1, <2>2, FS_EmptySet
<1> HIDE DEF o
<1>8. watched' = retarget_watch(o, n)
  BY DEF MovesTo, o
<1>9. \A s \in Session : watched'[s] = Cardinality(X(s))
  <2> TAKE s \in Session
  <2>1. CASE o = n
    BY <1>2, <1>3, <1>6, <1>8, <2>1 DEF retarget_watch
  <2>2. CASE o # n
    <3>1. watched'[s] = (IF s = n THEN 1 ELSE 0) + (IF s = o THEN watched[s] - 1 ELSE watched[s])
      <4>1. CASE o = None
        BY <1>2, <1>5, <1>8, <2>2, <4>1 DEF retarget_watch, o
      <4>2. CASE o # None
        BY <1>2, <1>5, <1>7, <1>8, <2>2, <4>2 DEF retarget_watch, o
      <4> QED BY <4>1, <4>2
    <3> QED BY <1>2, <1>3, <1>6, <2>2, <3>1
  <2> QED BY <2>1, <2>2
<1> QED BY <1>9 DEF CountsAgree, X

-----------------------------------------------------------------------------
(* A step of one connection *)

LEMMA Later ==
    ASSUME NEW b \in Nat, NEW c \in Nat, b <= c
    PROVE  /\ \A sn : SnapOK(sn, b) => SnapOK(sn, c)
           /\ \A view : ViewOK(view, b) => ViewOK(view, c)
           /\ \A p : PushOK(p, b) => PushOK(p, c)
           /\ \A r : ReaderOK(r, b) => ReaderOK(r, c)
<1>1. 1 .. b \subseteq 1 .. c
  OBVIOUS
<1>2. \A sn : SnapOK(sn, b) => SnapOK(sn, c)
  BY <1>1 DEF SnapOK
<1> QED BY <1>1, <1>2 DEF ViewOK, PushOK, ReaderOK

LEMMA NoSnapOK == \A b : SnapOK(NoSnap, b)
<1>1. DOMAIN <<>> = {}
  OBVIOUS
<1> QED BY <1>1 DEF SnapOK, NoSnap

(* The others stay as they are.                                            *)
OnlyOf(v) ==
    /\ DOMAIN viewer' = Viewer /\ DOMAIN push' = Viewer /\ DOMAIN reader' = Viewer
    /\ \A u \in Viewer \ {v} :
          viewer'[u] = viewer[u] /\ push'[u] = push[u] /\ reader'[u] = reader[u]

EndsWell(v) ==
    /\ ViewOK(viewer'[v], born') /\ PushOK(push'[v], born')
    /\ ReaderOK(reader'[v], born') /\ Paired(viewer'[v], reader'[v])

(* The count of v follows it, or a stray push has moved it.                *)
Recounts(v) ==
    \/ strayed'
    \/ strayed' = strayed /\ UNCHANGED watched /\ CountedFor(v)' = CountedFor(v)
    \/ /\ strayed' = strayed
       /\ \E n \in Session \cup {None} :
             watched' = retarget_watch(CountedFor(v), n) /\ CountedFor(v)' = n

LEMMA CountedForSession ==
    ASSUME WebInductive, NEW v \in Viewer
    PROVE  CountedFor(v) \in Session \cup {None}
<1>1. born \in Session /\ ViewOK(viewer[v], born) /\ ReaderOK(reader[v], born)
  BY DEF WebInductive, ServerOK, ConnectionOK
<1>2. 1 .. born \subseteq Session
  BY <1>1, RootAssumption DEF Session
<1> QED BY <1>1, <1>2 DEF CountedFor, ViewOK, ReaderOK

LEMMA ConnectionStep ==
    ASSUME WebInductive, ServerOK', born <= born', NEW v \in Viewer,
           OnlyOf(v), EndsWell(v), Recounts(v)
    PROVE  WebInductive'
<1>1. ConnectionOK'
  <2>1. /\ \A view : ViewOK(view, born) => ViewOK(view, born')
        /\ \A p : PushOK(p, born) => PushOK(p, born')
        /\ \A r : ReaderOK(r, born) => ReaderOK(r, born')
    BY Later, RootAssumption DEF WebInductive, ServerOK, Session
  <2>2. ASSUME NEW u \in Viewer
        PROVE  /\ ViewOK(viewer'[u], born') /\ PushOK(push'[u], born')
               /\ ReaderOK(reader'[u], born') /\ Paired(viewer'[u], reader'[u])
    BY <2>1 DEF WebInductive, ConnectionOK, OnlyOf, EndsWell
  <2> QED BY <2>2 DEF ConnectionOK, OnlyOf
<1>2. \A u \in Viewer \ {v} : CountedFor(u)' = CountedFor(u)
  BY DEF OnlyOf, CountedFor
<1>3. ASSUME ~strayed' PROVE CountsAgree'
  <2>1. CASE strayed' = strayed /\ UNCHANGED watched /\ CountedFor(v)' = CountedFor(v)
    BY <1>2, <1>3, <2>1, NobodyMovesCounts DEF NobodyMoves, WebInductive
  <2>2. ASSUME strayed' = strayed, NEW n \in Session \cup {None},
               watched' = retarget_watch(CountedFor(v), n), CountedFor(v)' = n
        PROVE  CountsAgree'
    <3>1. MovesTo(v, n)
      BY <1>2, <2>2 DEF MovesTo
    <3> QED BY <1>3, <2>2, <3>1, MovesToCounts, CountedForSession DEF WebInductive, ServerOK
  <2> QED BY <1>3, <2>1, <2>2 DEF Recounts
<1> QED BY <1>1, <1>3 DEF WebInductive

(* What a step of one connection may leave to the rest.                    *)
ServerSame == UNCHANGED <<alive, born, version, snap, fresh>>

LEMMA ServerSameOK ==
    ASSUME WebInductive, ServerSame, watched' \in [Session -> Nat], strayed' \in BOOLEAN
    PROVE  ServerOK' /\ born <= born'
<1>1. born \in Nat
  BY RootAssumption DEF WebInductive, ServerOK, Session
<1> QED BY <1>1 DEF WebInductive, ServerOK, ServerSame

-----------------------------------------------------------------------------
(* What the tasks of a connection do to it *)

(* viewer_updates: a viewer is moved to a session of the snapshot, and is  *)
(* sent the screen of the session it watches.                              *)
LEMMA UpdatesView ==
    ASSUME NEW b \in Nat, NEW view, ViewOK(view, b), NEW sn, SnapOK(sn, b)
    PROVE  /\ ViewOK(Sent(sn, Repicked(sn, view)), b)
           /\ Sent(sn, Repicked(sn, view)).state = view.state
           /\ Sent(sn, Repicked(sn, view)).active = Repicked(sn, view).active
           /\ Repicked(sn, view).active # view.active => view.active \notin sn.list
<1> DEFINE next == Repicked(sn, view)
<1>1. Default(sn.list) \in 1 .. b \cup {None}
  <2>1. sn.list \subseteq Nat /\ sn.list \subseteq 1 .. b
    BY DEF SnapOK
  <2> QED BY <2>1, DefaultIsListed
<1>2. /\ ViewOK(next, b) /\ next.state = view.state
      /\ next.active # view.active => view.active \notin sn.list
  BY <1>1 DEF Repicked, Retargeted, ViewOK
<1> HIDE DEF next
<1>3. Screen(sn, next) # None => Screen(sn, next)[1] = next.active
  BY DEF Screen, SnapOK
<1>4. ViewOK(Sent(sn, next), b) /\ Sent(sn, next).state = next.state /\ Sent(sn, next).active = next.active
  BY <1>2, <1>3 DEF Sent, ViewOK
<1> QED BY <1>2, <1>4 DEF next

(* viewer_updates and retarget_watch change the count with the viewer.     *)
LEMMA UpdatesRecount ==
    ASSUME WebInductive, NEW v \in Viewer, NEW sn, SnapOK(sn, born), viewer_updates(v, sn)
    PROVE  /\ DOMAIN viewer' = Viewer /\ \A u \in Viewer \ {v} : viewer'[u] = viewer[u]
           /\ ViewOK(viewer'[v], born) /\ viewer'[v].state = viewer[v].state
           /\ watched' = retarget_watch(viewer[v].active, viewer'[v].active)
           /\ watched' \in [Session -> Nat]
           /\ viewer'[v].active \in Session \cup {None}
           /\ viewer'[v].active # viewer[v].active => viewer[v].active \notin sn.list
<1>1. born \in Nat /\ 1 .. born \subseteq Session /\ watched \in [Session -> Nat]
      /\ ViewOK(viewer[v], born) /\ DOMAIN viewer = Viewer
  BY RootAssumption DEF WebInductive, ServerOK, ConnectionOK, Session
<1> DEFINE next == Repicked(sn, viewer[v])
<1>2. /\ ViewOK(Sent(sn, next), born) /\ Sent(sn, next).state = viewer[v].state
      /\ Sent(sn, next).active = next.active
      /\ next.active # viewer[v].active => viewer[v].active \notin sn.list
  BY <1>1, UpdatesView
<1>3. /\ watched' = retarget_watch(viewer[v].active, next.active)
      /\ viewer' = [viewer EXCEPT ![v] = Sent(sn, next)]
  BY DEF viewer_updates
<1> HIDE DEF next
<1>4. /\ DOMAIN viewer' = Viewer /\ \A u \in Viewer \ {v} : viewer'[u] = viewer[u]
      /\ viewer'[v] = Sent(sn, next)
  BY <1>1, <1>3
<1>5. viewer[v].active \in Session \cup {None} /\ viewer'[v].active \in Session \cup {None}
  BY <1>1, <1>2, <1>4 DEF ViewOK
<1>6. watched' = retarget_watch(viewer[v].active, viewer'[v].active)
  BY <1>2, <1>3, <1>4
<1>7. watched' \in [Session -> Nat]
  BY <1>1, <1>5, <1>6, RetargetType
<1> QED BY <1>2, <1>4, <1>5, <1>6, <1>7

(* Watch, as a request does it.                                            *)
LEMMA WatchRecount ==
    ASSUME WebInductive, NEW v \in Viewer, NEW s \in 1 .. born \cup {None}, Watch(v, s)
    PROVE  /\ DOMAIN viewer' = Viewer /\ \A u \in Viewer \ {v} : viewer'[u] = viewer[u]
           /\ ViewOK(viewer'[v], born) /\ viewer'[v].state = viewer[v].state
           /\ viewer'[v].active = s
           /\ watched' = retarget_watch(viewer[v].active, s)
           /\ watched' \in [Session -> Nat] /\ s \in Session \cup {None}
<1>1. 1 .. born \subseteq Session /\ watched \in [Session -> Nat]
      /\ ViewOK(viewer[v], born) /\ DOMAIN viewer = Viewer
  BY RootAssumption DEF WebInductive, ServerOK, ConnectionOK, Session
<1>2. watched' \in [Session -> Nat]
  <2>1. viewer[v].active \in Session \cup {None} /\ s \in Session \cup {None}
    BY <1>1 DEF ViewOK
  <2> QED BY <1>1, <2>1, RetargetType DEF Watch
<1>3. /\ DOMAIN viewer' = Viewer /\ \A u \in Viewer \ {v} : viewer'[u] = viewer[u]
      /\ viewer'[v] = Retargeted(viewer[v], s)
  BY <1>1 DEF Watch
<1>4. ViewOK(Retargeted(viewer[v], s), born) /\ Retargeted(viewer[v], s).active = s
      /\ Retargeted(viewer[v], s).state = viewer[v].state
  BY <1>1 DEF Retargeted, ViewOK
<1> QED BY <1>1, <1>2, <1>3, <1>4 DEF Watch

(* The reading task goes to its next statement.                            *)
LEMMA GoesOn ==
    ASSUME WebInductive, NEW v \in Viewer, NEW b, NEW pc, NEW arg \in Session \cup {None}, Goes(v, pc, arg),
           pc # "killed" => arg \in 1 .. b \cup {None}
    PROVE  /\ DOMAIN reader' = Viewer /\ \A u \in Viewer \ {v} : reader'[u] = reader[u]
           /\ ReaderOK(reader'[v], b) /\ reader'[v].pc = pc /\ reader'[v].arg = arg
<1>1. DOMAIN reader = Viewer
  BY DEF WebInductive, ConnectionOK
<1>2. /\ DOMAIN reader' = Viewer /\ \A u \in Viewer \ {v} : reader'[u] = reader[u]
      /\ reader'[v] = [ReaderIdle EXCEPT !.pc = pc, !.arg = arg]
  BY <1>1 DEF Goes
<1> QED BY <1>2, NoSnapOK DEF ReaderOK, ReaderIdle

-----------------------------------------------------------------------------
(* The steps that leave the connections alone *)

Elsewhere == UNCHANGED <<watched, viewer, push, reader, strayed>>

LEMMA ElsewhereKeeps ==
    ASSUME WebInductive, Elsewhere, ServerOK', born <= born'
    PROVE  WebInductive'
<1>1. ConnectionOK'
  <2>1. /\ \A view : ViewOK(view, born) => ViewOK(view, born')
        /\ \A p : PushOK(p, born) => PushOK(p, born')
        /\ \A r : ReaderOK(r, born) => ReaderOK(r, born')
    BY Later, RootAssumption DEF WebInductive, ServerOK, Session
  <2> QED BY <2>1 DEF WebInductive, ConnectionOK, Elsewhere
<1>2. CountsAgree => CountsAgree'
  <2>1. \A v \in Viewer : CountedFor(v)' = CountedFor(v)
    BY DEF Elsewhere, CountedFor
  <2> QED BY <2>1, NobodyMovesCounts DEF NobodyMoves, Elsewhere
<1> QED BY <1>1, <1>2 DEF WebInductive, Elsewhere

(* One more session is created, or one is closed.                          *)
LEMMA SessionsChange ==
    ASSUME WebInductive, UNCHANGED <<version, snap, fresh>>,
           watched' \in [Session -> Nat], strayed' \in BOOLEAN,
           \/ born < Sessions /\ born' = born + 1 /\ alive' = alive \cup {born + 1}
           \/ born' = born /\ alive' \subseteq alive
    PROVE  ServerOK' /\ born <= born'
<1>1. born \in Nat /\ born \in Session /\ alive \subseteq 1 .. born /\ Sessions \in Nat
  BY RootAssumption DEF WebInductive, ServerOK, Session
<1>2. born' \in Session /\ born' \in Nat /\ born <= born' /\ alive' \subseteq 1 .. born'
  <2>1. CASE born < Sessions /\ born' = born + 1 /\ alive' = alive \cup {born + 1}
    <3>1. born + 1 \in Session /\ 1 .. born \subseteq 1 .. born + 1 /\ born + 1 \in 1 .. born + 1
      BY <1>1, <2>1 DEF Session
    <3> QED BY <1>1, <2>1, <3>1
  <2>2. CASE born' = born /\ alive' \subseteq alive
    BY <1>1, <2>2
  <2> QED BY <2>1, <2>2
<1>3. SnapOK(snap', born')
  BY <1>1, <1>2, Later DEF WebInductive, ServerOK
<1> QED BY <1>2, <1>3 DEF WebInductive, ServerOK

LEMMA OthersStep ==
    ASSUME WebInductive,
           Launch \/ Publish \/ (\E s \in Session : Output(s) \/ KillElsewhere(s))
           \/ (\E v \in Viewer : KeyInput(v))
    PROVE  WebInductive'
<1>1. /\ born \in Nat /\ alive \subseteq 1 .. born /\ 1 .. born \subseteq Session
      /\ version \in [Session -> 0 .. MaxOutput] /\ MaxOutput \in Nat
      /\ watched \in [Session -> Nat] /\ strayed \in BOOLEAN
  BY RootAssumption, BoundAssumption DEF WebInductive, ServerOK, Session
<1>2. CASE Launch
  <2>1. ServerOK' /\ born <= born'
    BY <1>1, <1>2, SessionsChange DEF Launch, countVars
  <2> QED BY <1>2, <2>1, ElsewhereKeeps DEF Launch, Elsewhere, countVars
<1>3. CASE Publish
  <2>1. SnapOK(build_snapshot, born)
    <3> DEFINE shown == {t \in alive : watched[t] > 0}
               shot == [s \in shown |-> <<s, version[s]>>]
    <3>1. DOMAIN shot \subseteq alive /\ \A s \in DOMAIN shot : shot[s][1] = s
      OBVIOUS
    <3>2. build_snapshot = [list |-> alive, shot |-> shot]
      BY DEF build_snapshot
    <3> HIDE DEF shot
    <3> QED BY <1>1, <3>1, <3>2 DEF SnapOK
  <2>2. ServerOK' /\ born' = born
    BY <1>3, <2>1 DEF Publish, WebInductive, ServerOK, managerVars, countVars
  <2> QED BY <1>1, <1>3, <2>2, ElsewhereKeeps DEF Publish, Elsewhere, countVars
<1>4. ASSUME NEW s \in Session, Output(s) PROVE WebInductive'
  <2>1. version' \in [Session -> 0 .. MaxOutput]
    BY <1>1, <1>4 DEF Output
  <2>2. ServerOK' /\ born' = born
    BY <1>4, <2>1 DEF Output, WebInductive, ServerOK, countVars
  <2> QED BY <1>1, <1>4, <2>2, ElsewhereKeeps DEF Output, Elsewhere, countVars
<1>5. ASSUME NEW s \in Session, KillElsewhere(s) PROVE WebInductive'
  <2>1. ServerOK' /\ born <= born'
    BY <1>1, <1>5, SessionsChange DEF KillElsewhere, countVars
  <2> QED BY <1>5, <2>1, ElsewhereKeeps DEF KillElsewhere, Elsewhere, countVars
<1>6. ASSUME NEW v \in Viewer, KeyInput(v) PROVE WebInductive'
  <2>1. version' \in [Session -> 0 .. MaxOutput]
    <3> DEFINE s == viewer[v].active
    <3>1. s \in Session /\ version[s] < MaxOutput /\ version' = [version EXCEPT ![s] = @ + 1]
      BY <1>1, <1>6 DEF KeyInput
    <3> HIDE DEF s
    <3> QED BY <1>1, <3>1
  <2>2. ServerOK' /\ born' = born
    BY <1>6, <2>1 DEF KeyInput, WebInductive, ServerOK
  <2> QED BY <1>1, <1>6, <2>2, ElsewhereKeeps DEF KeyInput, Elsewhere
<1> QED BY <1>2, <1>3, <1>4, <1>5, <1>6

-----------------------------------------------------------------------------
(* The pushing task *)

(* The task of one connection is replaced.                                 *)
LEMMA PushChanges ==
    ASSUME WebInductive, NEW v \in Viewer, NEW p, PushOK(p, born), push' = [push EXCEPT ![v] = p]
    PROVE  /\ DOMAIN push' = Viewer /\ \A u \in Viewer \ {v} : push'[u] = push[u]
           /\ PushOK(push'[v], born)
BY DEF WebInductive, ConnectionOK

(* The pushing task alone goes on.                                         *)
LEMMA PushOnly ==
    ASSUME WebInductive, NEW v \in Viewer, NEW p, PushOK(p, born), push' = [push EXCEPT ![v] = p],
           UNCHANGED <<managerVars, snap, watched, viewer, reader, strayed>>,
           fresh' \in [Viewer -> BOOLEAN]
    PROVE  WebInductive'
<1>1. ServerOK' /\ born <= born'
  BY RootAssumption DEF WebInductive, ServerOK, managerVars, Session
<1>2. OnlyOf(v)
  BY PushChanges DEF OnlyOf, WebInductive, ConnectionOK
<1>3. EndsWell(v)
  BY PushChanges DEF EndsWell, WebInductive, ConnectionOK, managerVars
<1>4. Recounts(v)
  BY DEF Recounts, CountedFor
<1> QED BY <1>1, <1>2, <1>3, <1>4, ConnectionStep

LEMMA PushTakeStep ==
    ASSUME WebInductive, NEW v \in Viewer, PushTake(v) PROVE WebInductive'
<1> DEFINE p == [push[v] EXCEPT !.pc = "compute", !.snap = snap]
<1>1. PushOK(push[v], born) /\ SnapOK(snap, born) /\ fresh \in [Viewer -> BOOLEAN]
  BY DEF WebInductive, ConnectionOK, ServerOK
<1>2. PushOK(p, born)
  BY <1>1 DEF PushOK
<1>3. push' = [push EXCEPT ![v] = p]
  BY DEF PushTake
<1>4. fresh' \in [Viewer -> BOOLEAN]
  BY <1>1 DEF PushTake
<1> HIDE DEF p
<1>5. UNCHANGED <<managerVars, snap, watched, viewer, reader, strayed>>
  BY DEF PushTake, countVars
<1> QED BY <1>2, <1>3, <1>4, <1>5, PushOnly

LEMMA PushSendStep ==
    ASSUME WebInductive, NEW v \in Viewer, PushSend(v) PROVE WebInductive'
<1> DEFINE p == [PushOff EXCEPT !.pc = "wait"]
<1>1. PushOK(p, born)
  BY NoSnapOK DEF PushOK, PushOff
<1>2. push' = [push EXCEPT ![v] = p]
  BY DEF PushSend
<1> HIDE DEF p
<1>3. /\ UNCHANGED <<managerVars, snap, watched, viewer, reader, strayed>>
      /\ fresh' \in [Viewer -> BOOLEAN]
  BY DEF PushSend, countVars, WebInductive, ServerOK
<1> QED BY <1>1, <1>2, <1>3, PushOnly

LEMMA PushComputeStep ==
    ASSUME WebInductive, NEW v \in Viewer, PushCompute(v) PROVE WebInductive'
<1> DEFINE sn == push[v].snap
           p == AfterCompute(v, NewOut(v, sn))
<1>1. SnapOK(sn, born) /\ viewer_updates(v, sn)
  BY DEF PushCompute, WebInductive, ConnectionOK, PushOK
<1>2. /\ push' = [push EXCEPT ![v] = p]
      /\ strayed' = (strayed \/ (Read(v) /\ viewer'[v].active # viewer[v].active))
      /\ UNCHANGED <<managerVars, snap, reader, fresh>>
  BY DEF PushCompute
<1>3. PushOK(p, born)
  <2>1. p.pc \in {"off", "wait", "send"} /\ p.snap = NoSnap /\ DOMAIN p = {"pc", "snap", "out"}
    BY DEF AfterCompute, PushOff
  <2> HIDE DEF p
  <2> QED BY <2>1, NoSnapOK DEF PushOK
<1> HIDE DEF p, sn
<1>4. /\ DOMAIN viewer' = Viewer /\ \A u \in Viewer \ {v} : viewer'[u] = viewer[u]
      /\ ViewOK(viewer'[v], born) /\ viewer'[v].state = viewer[v].state
      /\ watched' = retarget_watch(viewer[v].active, viewer'[v].active)
      /\ watched' \in [Session -> Nat] /\ viewer'[v].active \in Session \cup {None}
  BY <1>1, UpdatesRecount
<1>5. ServerOK' /\ born <= born' /\ born' = born
  <2>1. strayed' \in BOOLEAN
    BY <1>2
  <2> QED BY <1>2, <1>4, <2>1, ServerSameOK DEF ServerSame, managerVars
<1>6. OnlyOf(v)
  BY <1>2, <1>3, <1>4, PushChanges DEF OnlyOf, WebInductive, ConnectionOK
<1>7. EndsWell(v)
  <2>1. ReaderOK(reader'[v], born') /\ Paired(viewer'[v], reader'[v])
    BY <1>2, <1>4, <1>5 DEF WebInductive, ConnectionOK, Paired
  <2> QED BY <1>2, <1>3, <1>4, <1>5, <2>1, PushChanges DEF EndsWell
<1>8. Recounts(v)
  <2>1. CASE ~Read(v)
    <3>1. strayed' = strayed
      BY <1>2, <2>1 DEF WebInductive, ServerOK
    <3>2. CountedFor(v) = viewer[v].active /\ CountedFor(v)' = viewer'[v].active
      BY <1>2, <1>4, <2>1 DEF Read, CountedFor
    <3> QED BY <1>4, <3>1, <3>2 DEF Recounts
  <2>2. CASE Read(v) /\ viewer'[v].active # viewer[v].active
    BY <1>2, <2>2 DEF Recounts
  <2>3. CASE Read(v) /\ viewer'[v].active = viewer[v].active
    <3>1. strayed' = strayed
      BY <1>2, <2>3 DEF WebInductive, ServerOK
    <3>2. watched' = watched
      BY <1>4, <2>3 DEF retarget_watch
    <3>3. CountedFor(v)' = CountedFor(v)
      BY <1>2, <1>4, <2>3 DEF CountedFor
    <3> QED BY <3>1, <3>2, <3>3 DEF Recounts
  <2> QED BY <2>1, <2>2, <2>3
<1> QED BY <1>5, <1>6, <1>7, <1>8, ConnectionStep

-----------------------------------------------------------------------------
(* The reading task *)

(* The reading task alone goes on.                                         *)
LEMMA ReaderOnly ==
    ASSUME WebInductive, ServerOK', born <= born', NEW v \in Viewer,
           UNCHANGED <<watched, viewer, push, strayed>>,
           DOMAIN reader' = Viewer, \A u \in Viewer \ {v} : reader'[u] = reader[u],
           ReaderOK(reader'[v], born'), viewer[v].state = "open", reader'[v].pc # "drop"
    PROVE  WebInductive'
<1>1. OnlyOf(v)
  BY DEF OnlyOf, WebInductive, ConnectionOK
<1>2. EndsWell(v)
  <2>1. /\ \A view : ViewOK(view, born) => ViewOK(view, born')
        /\ \A p : PushOK(p, born) => PushOK(p, born')
    BY Later, RootAssumption DEF WebInductive, ServerOK, Session
  <2>2. Paired(viewer[v], reader'[v])
    BY DEF Paired
  <2> QED BY <2>1, <2>2 DEF EndsWell, WebInductive, ConnectionOK
<1>3. Recounts(v)
  <2>1. reader[v].pc # "drop"
    BY DEF WebInductive, ConnectionOK, Paired
  <2> QED BY <2>1 DEF Recounts, CountedFor
<1> QED BY <1>1, <1>2, <1>3, ConnectionStep

(* A statement of a request that changes nothing but what comes next.      *)
LEMMA GoesOnOnly ==
    ASSUME WebInductive, ServerOK', born <= born', NEW v \in Viewer,
           UNCHANGED <<watched, viewer, push, strayed>>, viewer[v].state = "open",
           NEW pc, pc # "drop", NEW arg \in Session \cup {None}, Goes(v, pc, arg),
           pc # "killed" => arg \in 1 .. born' \cup {None}
    PROVE  WebInductive'
<1>1. /\ DOMAIN reader' = Viewer /\ \A u \in Viewer \ {v} : reader'[u] = reader[u]
      /\ ReaderOK(reader'[v], born') /\ reader'[v].pc = pc
  BY GoesOn
<1> QED BY <1>1, ReaderOnly

LEMMA RequestStep ==
    ASSUME WebInductive, NEW v \in Viewer,
           (\E s \in Session : SwitchSession(v, s) \/ KillSession(v, s)) \/ CreateSession(v)
    PROVE  WebInductive'
<1>1. born \in Nat /\ alive \subseteq 1 .. born /\ watched \in [Session -> Nat] /\ strayed \in BOOLEAN
      /\ SnapOK(snap, born) /\ version \in [Session -> 0 .. MaxOutput] /\ Sessions \in Nat
  BY RootAssumption DEF WebInductive, ServerOK, Session
<1>2. ASSUME NEW s \in Session, SwitchSession(v, s) PROVE WebInductive'
  <2>1. UNCHANGED <<watched, viewer, push, strayed>> /\ ServerSame
    BY <1>2 DEF SwitchSession, Asks, ServerSame, managerVars
  <2>2. ServerOK' /\ born <= born' /\ born' = born
    BY <1>1, <2>1, ServerSameOK DEF ServerSame
  <2>3. viewer[v].state = "open" /\ s \in 1 .. born' \cup {None} /\ Goes(v, "switch", s)
    BY <1>1, <1>2, <2>2 DEF SwitchSession, Asks, Idle, Open
  <2> QED BY <2>1, <2>2, <2>3, GoesOnOnly
<1>3. ASSUME NEW s \in Session, KillSession(v, s) PROVE WebInductive'
  <2>1. UNCHANGED <<watched, viewer, push, strayed>> /\ UNCHANGED <<version, snap, fresh>>
        /\ born' = born /\ alive' \subseteq alive
    BY <1>3 DEF KillSession, Asks
  <2>2. ServerOK' /\ born <= born'
    BY <1>1, <2>1, SessionsChange
  <2>3. viewer[v].state = "open" /\ Goes(v, "killed", s)
    BY <1>3 DEF KillSession, Asks, Idle, Open
  <2> QED BY <2>1, <2>2, <2>3, GoesOnOnly
<1>4. CASE CreateSession(v)
  <2>1. UNCHANGED <<watched, viewer, push, strayed>> /\ UNCHANGED <<version, snap, fresh>>
        /\ born < Sessions /\ born' = born + 1 /\ alive' = alive \cup {born + 1}
    BY <1>4 DEF CreateSession, Asks
  <2>2. ServerOK' /\ born <= born'
    BY <1>1, <2>1, SessionsChange
  <2>3. viewer[v].state = "open" /\ Goes(v, "created", born + 1)
    BY <1>4 DEF CreateSession, Asks, Idle, Open
  <2>4. born + 1 \in 1 .. born' /\ born + 1 \in Session
    BY <1>1, <2>1 DEF Session
  <2> QED BY <2>1, <2>2, <2>3, <2>4, GoesOnOnly
<1> QED BY <1>2, <1>3, <1>4

LEMMA FlushStep ==
    ASSUME WebInductive, NEW v \in Viewer, FlushTake(v) \/ FlushSend(v) \/ AckCreated(v)
    PROVE  WebInductive'
<1>1. watched \in [Session -> Nat] /\ strayed \in BOOLEAN /\ SnapOK(snap, born)
      /\ Paired(viewer[v], reader[v]) /\ DOMAIN reader = Viewer
  BY DEF WebInductive, ServerOK, ConnectionOK
<1>2. UNCHANGED <<watched, viewer, push, strayed>> /\ ServerSame
  BY DEF FlushTake, FlushSend, AckCreated, ServerSame, managerVars, countVars
<1>3. ServerOK' /\ born <= born' /\ born' = born
  BY <1>1, <1>2, ServerSameOK DEF ServerSame
<1>4. viewer[v].state = "open"
  BY <1>1 DEF FlushTake, FlushSend, AckCreated, Paired
<1>5. CASE FlushTake(v)
  <2> DEFINE r == [ReaderIdle EXCEPT !.pc = "compute", !.snap = snap]
  <2>1. ReaderOK(r, born') /\ r.pc = "compute"
    BY <1>1, <1>3 DEF ReaderOK, ReaderIdle
  <2>2. reader' = [reader EXCEPT ![v] = r]
    BY <1>5 DEF FlushTake
  <2> HIDE DEF r
  <2>3. /\ DOMAIN reader' = Viewer /\ \A u \in Viewer \ {v} : reader'[u] = reader[u]
        /\ reader'[v] = r
    BY <1>1, <2>2
  <2> QED BY <1>2, <1>3, <1>4, <2>1, <2>3, ReaderOnly
<1>6. CASE FlushSend(v) \/ AckCreated(v)
  <2>1. Goes(v, "idle", None)
    BY <1>6 DEF FlushSend, AckCreated
  <2> QED BY <1>2, <1>3, <1>4, <2>1, GoesOnOnly
<1> QED BY <1>5, <1>6

LEMMA FlushComputeStep ==
    ASSUME WebInductive, NEW v \in Viewer, FlushCompute(v) PROVE WebInductive'
<1> DEFINE sn == reader[v].snap
           out == NewOut(v, sn)
           r == IF out = Nothing THEN ReaderIdle ELSE [ReaderIdle EXCEPT !.pc = "send", !.out = out]
<1>1. SnapOK(sn, born) /\ viewer_updates(v, sn) /\ reader[v].pc = "compute"
      /\ Paired(viewer[v], reader[v]) /\ DOMAIN reader = Viewer /\ DOMAIN push = Viewer
      /\ PushOK(push[v], born) /\ strayed \in BOOLEAN
  BY DEF FlushCompute, WebInductive, ConnectionOK, ReaderOK, ServerOK
<1>2. reader' = [reader EXCEPT ![v] = r] /\ push' = push /\ strayed' = strayed /\ ServerSame
  BY DEF FlushCompute, ServerSame, managerVars, countVars
<1>3. \A b : ReaderOK(r, b)
  <2>1. r.pc \in {"idle", "send"} /\ r.snap = NoSnap /\ r.arg = None
        /\ DOMAIN r = {"pc", "arg", "snap", "out"}
    BY DEF ReaderIdle
  <2> HIDE DEF r
  <2> QED BY <2>1, NoSnapOK DEF ReaderOK
<1>4. r.pc \in {"idle", "send"}
  BY DEF ReaderIdle
<1> HIDE DEF r, out, sn
<1>5. /\ DOMAIN viewer' = Viewer /\ \A u \in Viewer \ {v} : viewer'[u] = viewer[u]
      /\ ViewOK(viewer'[v], born) /\ viewer'[v].state = viewer[v].state
      /\ watched' = retarget_watch(viewer[v].active, viewer'[v].active)
      /\ watched' \in [Session -> Nat] /\ viewer'[v].active \in Session \cup {None}
  BY <1>1, UpdatesRecount
<1>6. /\ DOMAIN reader' = Viewer /\ \A u \in Viewer \ {v} : reader'[u] = reader[u]
      /\ reader'[v] = r
  BY <1>1, <1>2
<1>7. ServerOK' /\ born <= born' /\ born' = born
  BY <1>1, <1>2, <1>5, ServerSameOK DEF ServerSame
<1>8. viewer[v].state = "open"
  BY <1>1 DEF Paired
<1>9. OnlyOf(v)
  BY <1>1, <1>2, <1>5, <1>6 DEF OnlyOf
<1>10. EndsWell(v)
  BY <1>1, <1>2, <1>3, <1>4, <1>5, <1>6, <1>7, <1>8 DEF EndsWell, Paired
<1>11. Recounts(v)
  <2>1. CountedFor(v) = viewer[v].active /\ CountedFor(v)' = viewer'[v].active
    BY <1>1, <1>4, <1>5, <1>6, <1>8 DEF CountedFor
  <2> QED BY <1>2, <1>5, <2>1 DEF Recounts
<1> QED BY <1>7, <1>9, <1>10, <1>11, ConnectionStep

(* A request that makes the viewer watch a session, and goes on.           *)
LEMMA WatchAndGoOn ==
    ASSUME WebInductive, NEW v \in Viewer, NEW s \in 1 .. born \cup {None}, Watch(v, s),
           NEW pc, pc \notin {"drop", "killed"}, Goes(v, pc, None), ServerSame,
           UNCHANGED <<push, strayed>>, viewer[v].state = "open", reader[v].pc # "drop"
    PROVE  WebInductive'
<1>1. DOMAIN push = Viewer /\ PushOK(push[v], born) /\ strayed \in BOOLEAN
  BY DEF WebInductive, ConnectionOK, ServerOK
<1>2. /\ DOMAIN viewer' = Viewer /\ \A u \in Viewer \ {v} : viewer'[u] = viewer[u]
      /\ ViewOK(viewer'[v], born) /\ viewer'[v].state = viewer[v].state
      /\ viewer'[v].active = s
      /\ watched' = retarget_watch(viewer[v].active, s)
      /\ watched' \in [Session -> Nat] /\ s \in Session \cup {None}
  BY WatchRecount
<1>3. /\ DOMAIN reader' = Viewer /\ \A u \in Viewer \ {v} : reader'[u] = reader[u]
      /\ ReaderOK(reader'[v], born) /\ reader'[v].pc = pc
  BY GoesOn
<1>4. ServerOK' /\ born <= born' /\ born' = born
  BY <1>1, <1>2, ServerSameOK DEF ServerSame
<1>5. OnlyOf(v)
  BY <1>1, <1>2, <1>3 DEF OnlyOf
<1>6. EndsWell(v)
  BY <1>1, <1>2, <1>3, <1>4 DEF EndsWell, Paired
<1>7. Recounts(v)
  <2>1. CountedFor(v) = viewer[v].active /\ CountedFor(v)' = s
    BY <1>2, <1>3 DEF CountedFor
  <2> QED BY <1>2, <2>1 DEF Recounts
<1> QED BY <1>4, <1>5, <1>6, <1>7, ConnectionStep

LEMMA WatchStep ==
    ASSUME WebInductive, NEW v \in Viewer, Switched(v) \/ Created(v) \/ Killed(v)
    PROVE  WebInductive'
<1>1. alive \subseteq 1 .. born /\ watched \in [Session -> Nat] /\ strayed \in BOOLEAN
      /\ Paired(viewer[v], reader[v]) /\ ReaderOK(reader[v], born)
  BY DEF WebInductive, ServerOK, ConnectionOK
<1>2. ServerSame /\ UNCHANGED <<push, strayed>>
  BY DEF Switched, Created, Killed, ServerSame, managerVars, countVars
<1>3. viewer[v].state = "open" /\ reader[v].pc # "drop"
  BY <1>1 DEF Switched, Created, Killed, Paired
<1>4. CASE Switched(v) \/ Created(v)
  <2>1. reader[v].arg \in 1 .. born \cup {None}
    BY <1>1, <1>4 DEF Switched, Created, ReaderOK
  <2>2. Watch(v, reader[v].arg) /\ (Goes(v, "flush", None) \/ Goes(v, "ack", None))
    BY <1>4 DEF Switched, Created
  <2> QED BY <1>2, <1>3, <2>1, <2>2, WatchAndGoOn
<1>5. CASE Killed(v)
  <2> DEFINE others == alive \ {reader[v].arg}
             next == IF others = {} THEN None ELSE Min(others)
  <2>1. next \in 1 .. born \cup {None}
    <3>1. others \subseteq Nat /\ others \subseteq 1 .. born
      BY <1>1, 1 .. born \subseteq Nat
    <3> HIDE DEF others
    <3> QED BY <3>1, FirstOfList
  <2>2. /\ Goes(v, "idle", None)
        /\ IF viewer[v].active = reader[v].arg THEN Watch(v, next) ELSE UNCHANGED <<watched, viewer>>
    BY <1>5 DEF Killed
  <2> HIDE DEF next
  <2>3. CASE viewer[v].active = reader[v].arg
    BY <1>2, <1>3, <2>1, <2>2, <2>3, WatchAndGoOn
  <2>4. CASE viewer[v].active # reader[v].arg
    <3>1. ServerOK' /\ born <= born' /\ born' = born
      BY <1>1, <1>2, <2>2, <2>4, ServerSameOK DEF ServerSame
    <3> QED BY <1>2, <1>3, <2>2, <2>4, <3>1, GoesOnOnly
  <2> QED BY <2>3, <2>4
<1> QED BY <1>4, <1>5

-----------------------------------------------------------------------------
(* A connection begins and ends *)

LEMMA ConnectStep ==
    ASSUME WebInductive, NEW v \in Viewer, Connect(v) PROVE WebInductive'
<1> DEFINE active == Default(alive)
           view == [NewViewer EXCEPT !.active = active, !.state = "open"]
           p == [PushOff EXCEPT !.pc = "take"]
<1>1. /\ born \in Nat /\ alive \subseteq 1 .. born /\ 1 .. born \subseteq Session
      /\ watched \in [Session -> Nat] /\ strayed \in BOOLEAN
      /\ DOMAIN viewer = Viewer /\ DOMAIN reader = Viewer /\ Paired(viewer[v], reader[v])
  BY RootAssumption DEF WebInductive, ServerOK, ConnectionOK, Session
<1>2. active \in 1 .. born \cup {None}
  <2>1. alive \subseteq Nat
    BY <1>1, 1 .. born \subseteq Nat
  <2> QED BY <1>1, <2>1, DefaultIsListed
<1>3. ViewOK(view, born) /\ view.active = active /\ view.state = "open"
  BY <1>2 DEF ViewOK, NewViewer
<1>4. PushOK(p, born)
  BY NoSnapOK DEF PushOK, PushOff
<1>5. ReaderOK(ReaderIdle, born) /\ ReaderIdle.pc = "idle"
  BY NoSnapOK DEF ReaderOK, ReaderIdle
<1>6. /\ watched' = retarget_watch(None, active)
      /\ viewer' = [viewer EXCEPT ![v] = view] /\ push' = [push EXCEPT ![v] = p]
      /\ reader' = [reader EXCEPT ![v] = ReaderIdle]
      /\ ServerSame /\ strayed' = strayed /\ viewer[v].state = "none"
  BY DEF Connect, managerVars, ServerSame
<1> HIDE DEF active, view, p
<1>7. watched' \in [Session -> Nat]
  BY <1>1, <1>2, <1>6, RetargetType
<1>8. ServerOK' /\ born <= born' /\ born' = born
  BY <1>1, <1>6, <1>7, ServerSameOK DEF ServerSame
<1>9. viewer'[v] = view /\ reader'[v] = ReaderIdle
  BY <1>1, <1>6
<1>10. OnlyOf(v) /\ PushOK(push'[v], born)
  <2>1. /\ DOMAIN push' = Viewer /\ \A u \in Viewer \ {v} : push'[u] = push[u]
        /\ PushOK(push'[v], born)
    BY <1>4, <1>6, PushChanges
  <2> QED BY <1>1, <1>6, <2>1 DEF OnlyOf
<1>11. EndsWell(v)
  BY <1>3, <1>5, <1>8, <1>9, <1>10 DEF EndsWell, Paired
<1>12. Recounts(v)
  <2>1. CountedFor(v) = None /\ CountedFor(v)' = active
    BY <1>1, <1>3, <1>5, <1>6, <1>9 DEF CountedFor, Paired
  <2>2. active \in Session \cup {None}
    BY <1>1, <1>2
  <2> QED BY <1>6, <2>1, <2>2 DEF Recounts
<1> QED BY <1>8, <1>10, <1>11, <1>12, ConnectionStep

LEMMA CloseStep ==
    ASSUME WebInductive, NEW v \in Viewer, Close(v) PROVE WebInductive'
<1> DEFINE view == [viewer[v] EXCEPT !.state = "closing"]
<1>1. /\ watched \in [Session -> Nat] /\ strayed \in BOOLEAN
      /\ DOMAIN viewer = Viewer /\ DOMAIN reader = Viewer /\ DOMAIN push = Viewer
      /\ ViewOK(viewer[v], born) /\ ReaderOK(reader[v], born) /\ PushOK(push[v], born)
  BY DEF WebInductive, ServerOK, ConnectionOK
<1>2. ViewOK(view, born) /\ view.active = viewer[v].active /\ view.state = "closing"
  BY <1>1 DEF ViewOK
<1>3. /\ viewer' = [viewer EXCEPT ![v] = view] /\ viewer[v].state = "open" /\ reader[v].pc = "idle"
      /\ push' = [push EXCEPT ![v] = PushOff] \/ push' = push
      /\ ServerSame /\ UNCHANGED <<watched, reader, strayed>>
  BY DEF Close, Idle, Open, ServerSame, managerVars, countVars
<1> HIDE DEF view
<1>4. ServerOK' /\ born <= born' /\ born' = born
  BY <1>1, <1>3, ServerSameOK DEF ServerSame
<1>5. viewer'[v] = view /\ DOMAIN viewer' = Viewer /\ \A u \in Viewer \ {v} : viewer'[u] = viewer[u]
  BY <1>1, <1>3
<1>6. /\ DOMAIN push' = Viewer /\ \A u \in Viewer \ {v} : push'[u] = push[u]
      /\ PushOK(push'[v], born)
  <2>1. PushOK(PushOff, born)
    BY NoSnapOK DEF PushOK, PushOff
  <2>2. CASE push' = [push EXCEPT ![v] = PushOff]
    BY <2>1, <2>2, PushChanges
  <2>3. CASE push' = push
    BY <1>1, <2>3
  <2> QED BY <1>3, <2>2, <2>3
<1>7. OnlyOf(v)
  BY <1>1, <1>3, <1>5, <1>6 DEF OnlyOf
<1>8. EndsWell(v)
  BY <1>1, <1>2, <1>3, <1>4, <1>5, <1>6 DEF EndsWell, Paired
<1>9. Recounts(v)
  BY <1>2, <1>3, <1>5 DEF Recounts, CountedFor
<1> QED BY <1>4, <1>7, <1>8, <1>9, ConnectionStep

LEMMA CloseReadStep ==
    ASSUME WebInductive, NEW v \in Viewer, CloseRead(v) PROVE WebInductive'
<1>1. /\ watched \in [Session -> Nat] /\ strayed \in BOOLEAN
      /\ DOMAIN viewer = Viewer /\ DOMAIN push = Viewer
      /\ ViewOK(viewer[v], born) /\ PushOK(push[v], born)
      /\ CountedFor(v) \in Session \cup {None}
  BY CountedForSession DEF WebInductive, ServerOK, ConnectionOK
<1>2. /\ viewer[v].state = "closing" /\ reader[v].pc = "idle"
      /\ Goes(v, "drop", viewer[v].active)
      /\ ServerSame /\ UNCHANGED <<watched, viewer, push, strayed>>
  BY DEF CloseRead, ServerSame, managerVars, countVars
<1>3. /\ CountedFor(v) = viewer[v].active /\ viewer[v].active \in 1 .. born \cup {None}
      /\ viewer[v].active \in Session \cup {None}
  BY <1>1, <1>2 DEF CountedFor, ViewOK
<1>4. /\ DOMAIN reader' = Viewer /\ \A u \in Viewer \ {v} : reader'[u] = reader[u]
      /\ ReaderOK(reader'[v], born) /\ reader'[v].pc = "drop" /\ reader'[v].arg = viewer[v].active
  <2> DEFINE active == viewer[v].active
  <2>1. Goes(v, "drop", active) /\ active \in Session \cup {None} /\ active \in 1 .. born \cup {None}
    BY <1>2, <1>3
  <2> HIDE DEF active
  <2>2. /\ DOMAIN reader' = Viewer /\ \A u \in Viewer \ {v} : reader'[u] = reader[u]
        /\ ReaderOK(reader'[v], born) /\ reader'[v].pc = "drop" /\ reader'[v].arg = active
    BY <2>1, GoesOn
  <2> QED BY <2>2 DEF active
<1>5. ServerOK' /\ born <= born' /\ born' = born
  BY <1>1, <1>2, ServerSameOK DEF ServerSame
<1>6. OnlyOf(v) /\ EndsWell(v)
  BY <1>1, <1>2, <1>4, <1>5 DEF OnlyOf, EndsWell, Paired
<1>7. Recounts(v)
  <2>1. CountedFor(v)' = CountedFor(v)
    BY <1>3, <1>4 DEF CountedFor
  <2> QED BY <1>2, <2>1 DEF Recounts
<1> QED BY <1>5, <1>6, <1>7, ConnectionStep

LEMMA CloseDropStep ==
    ASSUME WebInductive, NEW v \in Viewer, CloseDrop(v) PROVE WebInductive'
<1> DEFINE view == [viewer[v] EXCEPT !.state = "none"]
<1>1. /\ watched \in [Session -> Nat] /\ strayed \in BOOLEAN
      /\ DOMAIN viewer = Viewer /\ DOMAIN push = Viewer
      /\ ViewOK(viewer[v], born) /\ PushOK(push[v], born)
      /\ CountedFor(v) \in Session \cup {None}
  BY CountedForSession DEF WebInductive, ServerOK, ConnectionOK
<1>2. ViewOK(view, born) /\ view.state = "none"
  BY <1>1 DEF ViewOK
<1>3. /\ reader[v].pc = "drop" /\ Goes(v, "idle", None)
      /\ watched' = retarget_watch(reader[v].arg, None)
      /\ viewer' = [viewer EXCEPT ![v] = view]
      /\ ServerSame /\ UNCHANGED <<push, strayed>>
  BY DEF CloseDrop, ServerSame, managerVars, countVars
<1> HIDE DEF view
<1>4. CountedFor(v) = reader[v].arg
  BY <1>3 DEF CountedFor
<1>5. watched' \in [Session -> Nat]
  BY <1>1, <1>3, <1>4, RetargetType
<1>6. /\ DOMAIN reader' = Viewer /\ \A u \in Viewer \ {v} : reader'[u] = reader[u]
      /\ ReaderOK(reader'[v], born) /\ reader'[v].pc = "idle"
  BY <1>3, GoesOn
<1>7. ServerOK' /\ born <= born' /\ born' = born
  BY <1>1, <1>3, <1>5, ServerSameOK DEF ServerSame
<1>8. viewer'[v] = view /\ DOMAIN viewer' = Viewer /\ \A u \in Viewer \ {v} : viewer'[u] = viewer[u]
  BY <1>1, <1>3
<1>9. OnlyOf(v) /\ EndsWell(v)
  BY <1>1, <1>2, <1>3, <1>6, <1>7, <1>8 DEF OnlyOf, EndsWell, Paired
<1>10. Recounts(v)
  <2>1. CountedFor(v)' = None
    BY <1>2, <1>6, <1>8 DEF CountedFor
  <2> QED BY <1>3, <1>4, <2>1 DEF Recounts
<1> QED BY <1>7, <1>9, <1>10, ConnectionStep

-----------------------------------------------------------------------------
(* Every step keeps it *)

LEMMA WebStep == WebInductive /\ [Next]_vars => WebInductive'
<1> SUFFICES ASSUME WebInductive, [Next]_vars PROVE WebInductive'
  OBVIOUS
<1>1. CASE Launch \/ Publish \/ (\E s \in Session : Output(s) \/ KillElsewhere(s))
  BY <1>1, OthersStep
<1>2. ASSUME NEW v \in Viewer, Connect(v) \/ Request(v) \/ PushNext(v) \/ ReaderNext(v)
      PROVE  WebInductive'
  <2>1. CASE Connect(v)
    BY <2>1, ConnectStep
  <2>2. CASE Request(v)
    <3>1. CASE (\E s \in Session : SwitchSession(v, s) \/ KillSession(v, s)) \/ CreateSession(v)
      BY <3>1, RequestStep
    <3>2. CASE KeyInput(v)
      BY <3>2, OthersStep
    <3>3. CASE Close(v)
      BY <3>3, CloseStep
    <3> QED BY <2>2, <3>1, <3>2, <3>3 DEF Request
  <2>3. CASE PushNext(v)
    BY <2>3, PushTakeStep, PushComputeStep, PushSendStep DEF PushNext
  <2>4. CASE ReaderNext(v)
    BY <2>4, WatchStep, FlushStep, FlushComputeStep, CloseReadStep, CloseDropStep DEF ReaderNext
  <2> QED BY <1>2, <2>1, <2>2, <2>3, <2>4
<1>3. CASE UNCHANGED vars
  <2>1. ServerOK' /\ born <= born'
    BY <1>3, RootAssumption DEF vars, managerVars, countVars, WebInductive, ServerOK, Session
  <2>2. Elsewhere
    BY <1>3 DEF vars, countVars, Elsewhere
  <2> QED BY <2>1, <2>2, ElsewhereKeeps
<1> QED BY <1>1, <1>2, <1>3 DEF Next

(* "Refcounts of sessions currently watched by connected viewers"          *)
(* (web/mod.rs): for every number of sessions and connections, each        *)
(* session's count is that of the connections that look at it, through all *)
(* requests, pushes, kills and connections that end in any order, until an *)
(* aborted push goes on after its connection was read.                     *)
THEOREM CountsFollowViewers == Spec => []WebInv
<1>1. WebInductive /\ [Next]_vars => WebInductive'
  BY WebStep
<1> QED BY WebStart, WebHolds, <1>1, PTL DEF Spec

-----------------------------------------------------------------------------
(* Who moves a viewer *)

Moved(v) ==
    /\ Open(v) /\ viewer'[v].state = "open" /\ viewer[v].active \in alive
    /\ viewer'[v].active # viewer[v].active

LEMMA MoverAsked ==
    ASSUME WebInductive, [Next]_vars, NEW v \in Viewer, Moved(v)
    PROVE  reader'[v] # reader[v] \/ viewer[v].active \notin push[v].snap.list
<1>1. viewer' # viewer
  BY DEF Moved
<1>2. DOMAIN viewer = Viewer /\ DOMAIN reader = Viewer /\ viewer[v].state = "open"
  BY DEF WebInductive, ConnectionOK, Moved, Open
<1>3. PICK u \in Viewer : \/ Connect(u) \/ Close(u) \/ PushCompute(u) \/ Switched(u)
                          \/ FlushCompute(u) \/ Created(u) \/ Killed(u) \/ CloseDrop(u)
  BY <1>1 DEF Next, vars, Request, PushNext, ReaderNext, Launch, Publish, Output, KillElsewhere,
              SwitchSession, KillSession, CreateSession, KeyInput, PushTake, PushSend, FlushTake,
              FlushSend, AckCreated, CloseRead
<1>4. CASE PushCompute(u)
  <2>1. viewer_updates(u, push[u].snap) /\ SnapOK(push[u].snap, born)
    BY <1>4 DEF PushCompute, WebInductive, ConnectionOK, PushOK
  <2>2. \A w \in Viewer \ {u} : viewer'[w] = viewer[w]
    BY <2>1, UpdatesRecount
  <2>3. viewer'[u].active # viewer[u].active => viewer[u].active \notin push[u].snap.list
    BY <2>1, UpdatesRecount
  <2> QED BY <2>2, <2>3 DEF Moved
<1>5. CASE Connect(u) \/ Close(u) \/ CloseDrop(u)
  <2>1. viewer' = [viewer EXCEPT ![u] = viewer'[u]]
        /\ (Connect(u) => viewer[u].state = "none")
        /\ (Close(u) => viewer'[u].active = viewer[u].active)
        /\ (CloseDrop(u) => viewer'[u].active = viewer[u].active)
    <3>1. DOMAIN viewer[u] = {"active", "content", "list", "state"}
      BY DEF WebInductive, ConnectionOK, ViewOK
    <3> QED BY <1>2, <1>5, <3>1 DEF Connect, Close, CloseDrop
  <2> QED BY <1>2, <1>5, <2>1 DEF Moved
<1>6. CASE Switched(u) \/ FlushCompute(u) \/ Created(u) \/ Killed(u)
  <2>1. u = v
    BY <1>2, <1>6 DEF Moved, Switched, FlushCompute, Created, Killed, Watch, viewer_updates
  <2>2. reader'[v].pc # reader[v].pc
    <3>1. CASE FlushCompute(u)
      <4>1. reader[v].pc = "compute"
        BY <2>1, <3>1 DEF FlushCompute
      <4>2. reader'[v].pc \in {"idle", "send"}
        BY <1>2, <2>1, <3>1 DEF FlushCompute, ReaderIdle
      <4> QED BY <4>1, <4>2
    <3>2. CASE Switched(u) \/ Created(u) \/ Killed(u)
      BY <1>2, <2>1, <3>2 DEF Switched, Created, Killed, Goes, ReaderIdle
    <3> QED BY <1>6, <3>1, <3>2
  <2> QED BY <2>2
<1> QED BY <1>3, <1>4, <1>5, <1>6

(* "Without this the viewer freezes on a dead session" (web/mod.rs): a     *)
(* viewer is moved off a session that lives only when it asked itself, or  *)
(* when the snapshot it is sent does not list that session yet.            *)
THEOREM ViewersMovedByRequest == Spec => MovedByRequest
<1> DEFINE Asked(v) == Moved(v) => reader'[v] # reader[v] \/ viewer[v].active \notin push[v].snap.list
<1>1. WebInductive /\ [Next]_vars => [\A v \in Viewer : Asked(v)]_vars
  BY MoverAsked
<1>2. WebInductive /\ [Next]_vars => WebInductive'
  BY WebStep
<1> HIDE DEF Asked
<1>3. Spec => [][\A v \in Viewer : Asked(v)]_vars
  BY WebStart, <1>1, <1>2, PTL DEF Spec
<1> QED BY <1>3 DEF MovedByRequest, Asked, Moved

-----------------------------------------------------------------------------
(* Access: the server *)

(* What a server asks for, as its configuration has it.                    *)
AuthOf(c) == [token |-> c.token, htpasswd |-> c.htpasswd # "none"]

ConfigOK ==
    /\ config \in [port : BOOLEAN, public : BOOLEAN, htpasswd : A!Htpasswd, token : Token \cup {None}]
    /\ minted \subseteq Token \ {Given} /\ config.token \in minted \cup {None, Given}

(* The server that runs, and the one that will run again after a reload,   *)
(* ask for what the configuration says now: what is made up is stored.     *)
Stored ==
    /\ boot # None => server = None /\ ~dialog
    /\ server # None => server.auth = AuthOf(config) /\ server.public = config.public
                        /\ ~A!Unprotected(config)
    /\ boot = "reload" /\ before # None => before = AuthOf(config) /\ ~A!Unprotected(config)

(* A start of the server stores what it asks for.                          *)
LEMMA StartStores ==
    ASSUME ConfigOK, NEW reading \in BOOLEAN, NEW c, A!start_web(c, reading), c.port,
           c \in [port : BOOLEAN, public : BOOLEAN, htpasswd : A!Htpasswd, token : Token \cup {None}],
           c.token = config.token
    PROVE  /\ ConfigOK'
           /\ server' # None => server'.auth = AuthOf(config') /\ server'.public = config'.public
                                /\ ~A!Unprotected(config')
           /\ ~A!Unprotected(c) => config' = c
<1>1. PICK started \in A!ensure_token(c) :
        /\ config' = started
        /\ \/ /\ \E auth \in A!resolved_auth(started), up \in BOOLEAN :
                     /\ server' = [public |-> started.public, auth |-> auth, up |-> up]
                     /\ minted' = minted \cup ({started.token, auth.token} \ {None, Given})
           \/ /\ server' = None
              /\ minted' = minted \cup ({started.token} \ {None, Given})
  BY DEF A!start_web
<1>2. /\ started \in [port : BOOLEAN, public : BOOLEAN, htpasswd : A!Htpasswd, token : Token \cup {None}]
      /\ ~A!Unprotected(started) /\ (~A!Unprotected(c) => started = c)
      /\ started.token = config.token \/ started.token \in Token \ {Given}
  <2>1. CASE A!Unprotected(c)
    <3>1. PICK t \in Token \ (minted \cup {Given}) : started = [c EXCEPT !.token = t]
      BY <2>1 DEF A!ensure_token
    <3>2. t # None
      BY <3>1, AccessAssumption DEF A!ConstantsOk
    <3> QED BY <2>1, <3>1, <3>2 DEF A!Unprotected
  <2>2. CASE ~A!Unprotected(c)
    BY <2>2 DEF A!ensure_token
  <2> QED BY <2>1, <2>2
<1>3. \A auth \in A!resolved_auth(started) : auth = AuthOf(started)
  BY <1>2 DEF A!resolved_auth, AuthOf
<1>4. minted' = minted \cup ({started.token} \ {None, Given})
  BY <1>1, <1>3 DEF AuthOf
<1>5. server' # None => server'.auth = AuthOf(started) /\ server'.public = started.public
  BY <1>1, <1>3
<1>6. ConfigOK'
  BY <1>1, <1>2, <1>4 DEF ConfigOK, A!Htpasswd
<1> QED BY <1>1, <1>2, <1>5, <1>6

LEMMA ServerStep ==
    ASSUME ConfigOK, Stored, [A!Next]_(A!vars)
    PROVE  /\ ConfigOK' /\ Stored'
           /\ boot = "reload" /\ server' # None /\ before # None => server'.auth = before
<1>1. None # "fresh" /\ None # "reload"
  BY AccessAssumption DEF A!ConstantsOk
<1>2. CASE A!start_web_from_config
  <2>1. boot # None /\ boot' = None /\ before' = before /\ server = None /\ ~dialog
    BY <1>2 DEF A!start_web_from_config, Stored
  <2>2. CASE config.port
    <3>1. A!start_web(config, FALSE)
      BY <1>2, <2>2 DEF A!start_web_from_config
    <3>2. /\ ConfigOK'
          /\ server' # None => server'.auth = AuthOf(config') /\ server'.public = config'.public
                               /\ ~A!Unprotected(config')
          /\ ~A!Unprotected(config) => config' = config
      BY <2>2, <3>1, StartStores DEF ConfigOK
    <3> QED BY <1>1, <2>1, <3>2 DEF Stored
  <2>3. CASE ~config.port
    <3>1. UNCHANGED <<config, server, minted, dialog>>
      BY <1>2, <2>3 DEF A!start_web_from_config
    <3> QED BY <1>1, <2>1, <3>1 DEF Stored, ConfigOK
  <2> QED BY <2>2, <2>3
<1>3. CASE A!stop_web
  <2>1. /\ boot = None /\ boot' = None /\ server' = None /\ minted' = minted
        /\ config' = [config EXCEPT !.port = FALSE]
    BY <1>3 DEF A!stop_web
  <2>2. ConfigOK'
    BY <2>1 DEF ConfigOK
  <2> QED BY <1>1, <2>1, <2>2 DEF Stored
<1>4. ASSUME NEW public \in BOOLEAN, NEW htpasswd \in A!Htpasswd, A!Submit(public, htpasswd)
      PROVE  /\ ConfigOK' /\ Stored' /\ boot # "reload"
  <2> DEFINE c == [config EXCEPT !.port = TRUE, !.public = public, !.htpasswd = htpasswd]
  <2>1. boot = None /\ boot' = None
    BY <1>4 DEF A!Submit, Stored
  <2>2. /\ c \in [port : BOOLEAN, public : BOOLEAN, htpasswd : A!Htpasswd, token : Token \cup {None}]
        /\ c.port /\ c.token = config.token
    BY <1>4 DEF ConfigOK
  <2>3. A!start_web(c, TRUE)
    BY <1>4 DEF A!Submit
  <2> HIDE DEF c
  <2>4. /\ ConfigOK'
        /\ server' # None => server'.auth = AuthOf(config') /\ server'.public = config'.public
                             /\ ~A!Unprotected(config')
    BY <2>2, <2>3, StartStores
  <2> QED BY <1>1, <2>1, <2>4 DEF Stored
<1>5. CASE A!Reload
  <2>1. /\ boot = None /\ server' = None /\ UNCHANGED <<config, minted, dialog>> /\ ~dialog
        /\ before' = IF server = None THEN None ELSE server.auth
    BY <1>5 DEF A!Reload
  <2> QED BY <1>1, <2>1 DEF Stored, ConfigOK
<1>6. CASE A!toggle_web
  <2>1. boot = None /\ boot' = None /\ UNCHANGED <<config, server, minted>>
    BY <1>6 DEF A!toggle_web
  <2> QED BY <1>1, <2>1 DEF Stored, ConfigOK
<1>7. CASE A!Cancel
  <2>1. ~dialog' /\ UNCHANGED <<config, server, minted, boot, before>>
    BY <1>7 DEF A!Cancel
  <2>2. boot = "reload" => server' = None
    BY <1>1, <2>1 DEF Stored
  <2> QED BY <1>1, <2>1, <2>2 DEF Stored, ConfigOK
<1>8. CASE A!PageNext \/ UNCHANGED A!vars
  <2>1. UNCHANGED <<config, server, minted, boot, before, dialog>>
    BY <1>8 DEF A!PageNext, A!PageStep, A!Load, A!Lost, A!Login, A!AuthInfo, A!Upgrade, A!OnClose,
                A!Probe, A!TimerFires, A!Page, A!vars, A!serverVars
  <2>2. boot = "reload" => server' = None
    BY <1>1, <2>1 DEF Stored
  <2> QED BY <1>1, <2>1, <2>2 DEF Stored, ConfigOK
<1> QED BY <1>2, <1>3, <1>4, <1>5, <1>6, <1>7, <1>8 DEF A!Next, A!ServerNext

-----------------------------------------------------------------------------
(* Access: the page *)

WaitsForWs(p) == p.ws # "none" /\ ~p.timer /\ ~p.login /\ p.fetch = None
WaitsForTimer(p) == p.ws = "none" /\ p.timer /\ ~p.login /\ p.fetch = None
WaitsForLogin(p) == p.ws = "none" /\ ~p.timer /\ p.login /\ p.fetch = None
WaitsForFetch(p) == p.ws = "none" /\ ~p.timer /\ ~p.login /\ p.fetch # None

PageOK(p) ==
    /\ DOMAIN p = DOMAIN A!NoPage
    /\ p.ws \in {"none", "connecting", "open", "closing"}
    /\ p.loaded => WaitsForWs(p) \/ WaitsForTimer(p) \/ WaitsForLogin(p) \/ WaitsForFetch(p)

(* What one statement makes of a page that waits for nothing any more.     *)
LEMMA PageGoesOn ==
    ASSUME NEW p, DOMAIN p = DOMAIN A!NoPage, p.ws = "none", ~p.timer, ~p.login, p.fetch = None
    PROVE  /\ \A c : PageOK(A!startWithCredential(p, c))
           /\ PageOK(A!Connected(p)) /\ PageOK(A!showLogin(p)) /\ PageOK(A!scheduleReconnect(p))
BY DEF A!startWithCredential, A!Connected, A!showLogin, A!scheduleReconnect, A!NoPage,
       PageOK, WaitsForWs, WaitsForTimer, WaitsForLogin, WaitsForFetch

LEMMA CutOffWaits ==
    ASSUME NEW p, PageOK(p) PROVE PageOK(A!CutOff(p))
BY DEF A!CutOff, A!NoPage, PageOK, WaitsForWs, WaitsForTimer, WaitsForLogin, WaitsForFetch

(* The page after one of its steps.                                        *)
LEMMA PageStepWaits ==
    ASSUME PageOK(page), page.loaded, A!PageNext
    PROVE  PageOK(page')
<1> USE DEF A!Page
<1>1. None # "info" /\ None # "probe"
  BY AccessAssumption DEF A!ConstantsOk
<1>2. CASE A!Load
  BY <1>1, <1>2 DEF A!Load, A!NoPage, PageOK, WaitsForFetch
<1>3. CASE A!Lost
  BY <1>3, CutOffWaits DEF A!Lost
<1>4. ASSUME NEW t, A!AuthInfo(t) PROVE PageOK(page')
  <2> DEFINE p == [page EXCEPT !.fetch = None, !.required = A!Up /\ A!Required(server.auth)]
  <2>1. DOMAIN p = DOMAIN A!NoPage /\ p.ws = "none" /\ ~p.timer /\ ~p.login /\ p.fetch = None
    BY <1>1, <1>4 DEF A!AuthInfo, A!NoPage, PageOK, WaitsForWs, WaitsForTimer, WaitsForLogin, WaitsForFetch
  <2>2. page' \in {A!startWithCredential(p, None), A!startWithCredential(p, t), A!showLogin(p)}
    BY <1>4 DEF A!AuthInfo
  <2> HIDE DEF p
  <2> QED BY <2>1, <2>2, PageGoesOn
<1>5. ASSUME NEW c, A!Login(c) PROVE PageOK(page')
  BY <1>5 DEF A!Login, A!startWithCredential, A!Connected, A!NoPage,
              PageOK, WaitsForWs, WaitsForTimer, WaitsForLogin, WaitsForFetch
<1>6. CASE A!Upgrade
  BY <1>6 DEF A!Upgrade, A!NoPage, PageOK, WaitsForWs, WaitsForTimer, WaitsForLogin, WaitsForFetch
<1>7. CASE A!OnClose
  <2> DEFINE p == [page EXCEPT !.ws = "none"]
  <2>1. DOMAIN p = DOMAIN A!NoPage /\ p.ws = "none" /\ ~p.timer /\ ~p.login /\ p.fetch = None
    BY <1>7 DEF A!OnClose, A!NoPage, PageOK, WaitsForWs, WaitsForTimer, WaitsForLogin, WaitsForFetch
  <2>2. page' \in {[page EXCEPT !.ws = "none", !.fetch = "probe"], A!scheduleReconnect(p)}
    BY <1>7 DEF A!OnClose, A!Closed
  <2>3. PageOK([page EXCEPT !.ws = "none", !.fetch = "probe"])
    BY <1>1, <1>7 DEF A!OnClose, A!NoPage, PageOK, WaitsForWs, WaitsForTimer, WaitsForLogin, WaitsForFetch
  <2> HIDE DEF p
  <2> QED BY <2>1, <2>2, <2>3, PageGoesOn
<1>8. CASE A!Probe
  <2> DEFINE p == [page EXCEPT !.fetch = None]
             q == [p EXCEPT !.credential = None]
  <2>1. /\ DOMAIN p = DOMAIN A!NoPage /\ p.ws = "none" /\ ~p.timer /\ ~p.login /\ p.fetch = None
        /\ DOMAIN q = DOMAIN A!NoPage /\ q.ws = "none" /\ ~q.timer /\ ~q.login /\ q.fetch = None
    BY <1>1, <1>8 DEF A!Probe, A!NoPage, PageOK, WaitsForWs, WaitsForTimer, WaitsForLogin, WaitsForFetch
  <2>2. page' \in {A!showLogin(q), A!scheduleReconnect(p)}
    BY <1>8 DEF A!Probe
  <2> HIDE DEF p, q
  <2> QED BY <2>1, <2>2, PageGoesOn
<1>9. CASE A!TimerFires
  <2> DEFINE p == [page EXCEPT !.timer = FALSE]
  <2>1. DOMAIN p = DOMAIN A!NoPage /\ p.ws = "none" /\ ~p.timer /\ ~p.login /\ p.fetch = None
    BY <1>9 DEF A!TimerFires, A!NoPage, PageOK, WaitsForWs, WaitsForTimer, WaitsForLogin, WaitsForFetch
  <2>2. page' \in {A!Connected(p), A!showLogin(p)}
    BY <1>9 DEF A!TimerFires
  <2> HIDE DEF p
  <2> QED BY <2>1, <2>2, PageGoesOn
<1> QED BY <1>2, <1>3, <1>4, <1>5, <1>6, <1>7, <1>8, <1>9 DEF A!PageNext, A!PageStep

(* Before it is loaded a page does nothing.                                *)
PageInv == PageOK(page) /\ (~page.loaded => page = A!NoPage)

LEMMA PageKeeps ==
    ASSUME PageInv, [A!Next]_(A!vars)
    PROVE  PageInv'
<1>1. CASE UNCHANGED page
  BY <1>1 DEF PageInv
<1>2. CASE page' = A!CutOff(page)
  <2>1. PageOK(page')
    BY <1>2, CutOffWaits DEF PageInv
  <2>2. A!CutOff(A!NoPage) = A!NoPage
    BY DEF A!CutOff, A!NoPage
  <2>3. page'.loaded = page.loaded
    BY <1>2 DEF A!CutOff, A!NoPage, PageInv, PageOK
  <2> QED BY <1>2, <2>1, <2>2, <2>3 DEF PageInv
<1>3. CASE A!PageNext /\ page.loaded
  <2>1. PageOK(page')
    BY <1>3, PageStepWaits DEF PageInv
  <2>2. page'.loaded
    BY <1>3 DEF A!PageNext, A!PageStep, A!Load, A!Lost, A!Login, A!AuthInfo, A!Upgrade, A!OnClose,
                A!Probe, A!TimerFires, A!Page, A!NoPage, A!CutOff, A!Closed, A!startWithCredential,
                A!Connected, A!showLogin, A!scheduleReconnect, PageInv, PageOK
  <2> QED BY <2>1, <2>2 DEF PageInv
<1>4. CASE A!PageNext /\ page = A!NoPage
  <2>1. None # "info" /\ None # "probe"
    BY AccessAssumption DEF A!ConstantsOk
  <2>2. A!Load
    BY <1>4, <2>1 DEF A!PageNext, A!PageStep, A!Lost, A!Login, A!AuthInfo, A!Upgrade, A!OnClose,
                A!Probe, A!TimerFires, A!NoPage
  <2> QED BY <2>1, <2>2 DEF A!Load, A!Page, A!NoPage, PageInv, PageOK, WaitsForFetch
<1>5. A!ServerNext => UNCHANGED page \/ page' = A!CutOff(page)
  BY DEF A!ServerNext, A!start_web_from_config, A!stop_web, A!toggle_web, A!Cancel, A!Reload, A!Submit
<1> QED BY <1>1, <1>2, <1>3, <1>4, <1>5 DEF A!Next, A!vars, PageInv

-----------------------------------------------------------------------------
(* Access: what follows *)

AccessInductive == ConfigOK /\ Stored /\ PageInv

LEMMA AccessHolds == AccessInductive => A!AccessInv
<1> SUFFICES ASSUME AccessInductive PROVE A!AccessInv
  OBVIOUS
<1>1. A!TypeOK
  BY DEF AccessInductive, ConfigOK, Stored, PageInv, PageOK, A!TypeOK
<1>2. A!PublicIsProtected
  <2> SUFFICES ASSUME server # None, server.public PROVE A!Required(server.auth)
    BY DEF A!PublicIsProtected
  <2>1. server.auth = AuthOf(config) /\ config.public /\ ~A!Unprotected(config)
    BY DEF AccessInductive, Stored
  <2>2. A!Required(AuthOf(config)) <=> config.token # None \/ config.htpasswd # "none"
    BY DEF AuthOf, A!Required
  <2> QED BY <2>1, <2>2 DEF A!Unprotected
<1>3. A!WaitsForOne
  BY DEF AccessInductive, PageInv, PageOK, A!WaitsForOne, A!WaitsFor,
         WaitsForWs, WaitsForTimer, WaitsForLogin, WaitsForFetch
<1> QED BY <1>1, <1>2, <1>3 DEF A!AccessInv

LEMMA AccessStart == A!Init => AccessInductive
<1> SUFFICES ASSUME A!Init PROVE AccessInductive
  OBVIOUS
<1>1. ConfigOK
  BY AccessAssumption DEF A!Init, A!ConstantsOk, ConfigOK
<1>2. Stored
  BY AccessAssumption DEF A!Init, A!ConstantsOk, Stored
<1>3. PageInv
  BY DEF A!Init, A!NoPage, PageInv, PageOK
<1> QED BY <1>1, <1>2, <1>3 DEF AccessInductive

LEMMA AccessStep == AccessInductive /\ [A!Next]_(A!vars) => AccessInductive'
BY ServerStep, PageKeeps DEF AccessInductive

(* "Binding to a non-loopback address without an htpasswd file             *)
(* auto-generates a random access token" (web/mod.rs), and a page waits    *)
(* for one thing: for all tokens, configurations, starts and reloads.      *)
THEOREM AccessAlways == A!Spec => []A!AccessInv
<1> USE DEF A!Spec
<1> QED BY AccessStart, AccessStep, AccessHolds, PTL

-----------------------------------------------------------------------------
(* The whole console, as it is run *)

LEMMA PartsStep ==
    ASSUME [MCNext]_<<part, vars, access>>
    PROVE  [Next]_vars /\ [A!Next]_(A!vars)
<1>1. UNCHANGED access => UNCHANGED A!vars
  BY DEF access, A!vars, A!serverVars
<1> QED BY <1>1 DEF MCNext

ConsoleInductive == WebInductive /\ AccessInductive

LEMMA ConsoleStep == ConsoleInductive /\ [MCNext]_<<part, vars, access>> => ConsoleInductive'
BY PartsStep, WebStep, AccessStep DEF ConsoleInductive

LEMMA ConsoleStart == MCInit => ConsoleInductive
BY WebStart, AccessStart DEF MCInit, ConsoleInductive

(* What the run checks of the counts and of access, for all constants.     *)
THEOREM ConsoleAlways == MCSpec => []ConsoleInv
<1>1. ConsoleInductive => ConsoleInv
  BY WebHolds, AccessHolds DEF ConsoleInductive, ConsoleInv
<1> QED BY ConsoleStart, ConsoleStep, <1>1, PTL DEF MCSpec

(* "open browser sessions keep working across reloads" (main.rs): the      *)
(* server that is started after a reload asks for what the one before did, *)
(* whichever way that one was started.                                     *)
THEOREM ReloadsKeepAuth == MCSpec => ReloadKeepsAuth
<1> DEFINE Kept == boot = "reload" /\ server' # None /\ before # None => server'.auth = before
<1>1. ConsoleInductive /\ [MCNext]_<<part, vars, access>> => [Kept]_(A!vars)
  BY PartsStep, ServerStep DEF ConsoleInductive, AccessInductive
<1> HIDE DEF Kept
<1>2. MCSpec => [][Kept]_(A!vars)
  BY ConsoleStart, ConsoleStep, <1>1, PTL DEF MCSpec
<1> QED BY <1>2 DEF Kept, ReloadKeepsAuth, A!ReloadKeepsAuth

=============================================================================
