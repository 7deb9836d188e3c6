----------------------------- MODULE ViewersProofs -----------------------------
(***************************************************************************)
(* Proofs about Viewers for any viewers, sessions, sizes and bounds: the   *)
(* sizes stay on the host's screen, connections stay in their bounds, and  *)
(* a viewer that is resized or leaves changes all panes at once.           *)
(***************************************************************************)
EXTENDS Viewers, SequenceTheorems, FiniteSetTheorems, WellFoundedInduction, TLAPS

-----------------------------------------------------------------------------
(* The least of a set, and the room of a pane *)

LEMMA LeastIs ==
    ASSUME NEW T, T \subseteq Nat, T # {}
    PROVE  Min(T) \in T /\ \A k \in T : Min(T) <= k
<1> DEFINE Below == OpToRel(<, Nat)
<1>1. IsWellFoundedOn(Below, Nat)
  BY NatLessThanWellFounded
<1>2. \A x, y \in Nat : <<x, y>> \in Below <=> x < y
  BY DEF OpToRel
<1> HIDE DEF Below
<1>3. PICK m \in T : \A k \in T : ~(<<k, m>> \in Below)
  BY <1>1, WFMin
<1>4. ASSUME NEW k \in T PROVE m <= k
  <2>1. k \in Nat /\ m \in Nat /\ ~(k < m)
    BY <1>2, <1>3
  <2> QED BY <2>1
<1>5. \E n \in T : \A k \in T : n <= k
  BY <1>4
<1> QED BY <1>5 DEF Min

LEMMA QuotientIs ==
    ASSUME NEW tot \in Nat, NEW n \in Nat \ {0}
    PROVE  tot \div n \in 0 .. tot
OBVIOUS

LEMMA CellIs ==
    ASSUME NEW tot \in Nat \ {0}, NEW n \in Nat \ {0}
    PROVE  Cell(tot, n) \in 1 .. tot
BY QuotientIs DEF Cell

-----------------------------------------------------------------------------
(* The inductive invariant *)

Screens == (Session \X (0 .. MaxOutput) \X Size) \cup {None}

ConnRecord == [state : {"none", "pending", "connected", "failed", "closed"},
               session : Session \cup {None}, dims : 0 .. MaxSize + 1, sent : Screens]
ClientRecord == [state : {"out", "in", "gone"}, cur : Size, view : Nat, shows : Screens]
UpMessage == [type : {"key", "detach"}] \cup [type : {"switch"}, session : Session]
             \cup [type : {"resize"}, size : Size]
DownMessage == [type : {"window"}, size : Nat] \cup [type : {"screen"}, content : Screens]

(* A connection that the event loop serves has a session and a size; one   *)
(* it does not know has none.                                              *)
ConnsOK(cs) ==
    /\ cs \in [Viewer -> ConnRecord]
    /\ \A v \in Viewer :
        /\ cs[v].state = "connected" => cs[v].session \in Session /\ cs[v].dims >= 1
        /\ cs[v].state \in {"none", "pending", "closed"} => cs[v].dims = 0

SessionsOK ==
    /\ total \in Size /\ ptyDims \in 1 .. total
    /\ active \in alive /\ pinned \subseteq alive /\ alive \subseteq Session
    /\ IsFiniteSet(pinned)
    /\ size \in [Session -> Size] /\ version \in [Session -> 0 .. MaxOutput]
    /\ (\A s \in alive : size[s] <= total) /\ laidOut \in BOOLEAN

SocketsOK ==
    /\ up \in [Viewer -> Seq(UpMessage)] /\ down \in [Viewer -> Seq(DownMessage)]
    /\ \A v \in Viewer : Len(up[v]) <= Cap /\ Len(down[v]) <= Cap

ClientsOK == client \in [Viewer -> ClientRecord]

ViewersInductive == SessionsOK /\ ConnsOK(conn) /\ SocketsOK /\ ClientsOK

LEMMA InductiveIsType == ViewersInductive => TypeOK
BY DEF ViewersInductive, SessionsOK, ConnsOK, SocketsOK, ClientsOK, ConnRecord, ClientRecord, TypeOK

LEMMA InitHolds == Init => ViewersInductive
<1> SUFFICES ASSUME Init PROVE ViewersInductive
  OBVIOUS
<1> USE BoundAssumption, FirstAssumption
<1>1. SessionsOK
  BY FS_EmptySet DEF Init, SessionsOK, Size
<1>2. ConnsOK(conn)
  BY DEF Init, ConnsOK, NoConn, ConnRecord, Screens
<1>3. SocketsOK
  BY DEF Init, SocketsOK
<1>4. ClientsOK
  BY DEF Init, ClientsOK, ClientRecord, Screens
<1> QED BY <1>1, <1>2, <1>3, <1>4 DEF ViewersInductive

-----------------------------------------------------------------------------
(* Sizes *)

LEMMA ShownIs ==
    ASSUME NEW act \in alive, NEW pins, IsFiniteSet(pins)
    PROVE  Cardinality(Rendered(act, pins)) \in Nat \ {0}
<1> DEFINE shown == Rendered(act, pins)
<1>1. shown \in SUBSET (pins \cup {act}) /\ act \in shown
  BY DEF Rendered
<1>2. IsFiniteSet(pins \cup {act})
  BY FS_AddElement
<1>3. IsFiniteSet(shown)
  BY <1>1, <1>2, FS_Subset
<1> HIDE DEF shown
<1>4. Cardinality(shown) \in Nat /\ Cardinality(shown) # 0
  BY <1>1, <1>3, FS_CardinalityType, FS_EmptySet
<1> QED BY <1>4 DEF shown

LEMMA LayoutIs ==
    ASSUME SessionsOK, NEW tot \in Size, NEW dims \in 1 .. tot, NEW act \in alive,
           NEW pins, IsFiniteSet(pins)
    PROVE  LET sized == apply_pane_resize(tot, dims, act, pins)
           IN  sized \in [Session -> Size] /\ \A s \in alive : sized[s] <= tot
<1> USE BoundAssumption
<1> DEFINE shown == Rendered(act, pins)
           n == Cardinality(shown)
           sized == apply_pane_resize(tot, dims, act, pins)
<1>1. Cell(tot, n) \in 1 .. tot
  BY ShownIs, CellIs DEF Size
<1>2. sized = [s \in Session |-> IF s \in shown THEN Cell(tot, n)
                                 ELSE IF s \in alive THEN dims ELSE size[s]]
  BY DEF apply_pane_resize
<1> HIDE DEF shown, n, sized
<1>3. \A s \in Session : size[s] \in Size
  BY DEF SessionsOK
<1>4. sized \in [Session -> Size] /\ \A s \in alive : sized[s] <= tot
  BY <1>1, <1>2, <1>3 DEF SessionsOK, Size
<1> QED BY <1>4 DEF sized

LEMMA SmallestIs ==
    ASSUME SessionsOK, NEW cs, ConnsOK(cs)
    PROVE  LET m == calculate_min_dimensions(cs)
           IN  m \in 1 .. total /\ \A v \in Connected(cs) : m <= cs[v].dims
<1> USE BoundAssumption
<1> DEFINE T == {total} \cup {cs[v].dims : v \in Connected(cs)}
<1>1. \A v \in Connected(cs) : cs[v].dims \in Nat \ {0}
  BY DEF ConnsOK, Connected, ConnRecord
<1>2. T \in SUBSET (Nat \ {0}) /\ total \in T /\ total \in Nat
  BY <1>1 DEF SessionsOK, Size
<1>3. Min(T) \in T /\ \A k \in T : Min(T) <= k
  BY <1>2, LeastIs
<1>4. calculate_min_dimensions(cs) = Min(T)
  BY DEF calculate_min_dimensions
<1>5. \A v \in Connected(cs) : cs[v].dims \in T
  OBVIOUS
<1> HIDE DEF T
<1> QED BY <1>2, <1>3, <1>4, <1>5

LEMMA ClampedIs ==
    ASSUME SessionsOK, NEW cs, ConnsOK(cs)
    PROVE  /\ Clamped(cs) \in [Session -> Size]
           /\ \A s \in alive : Clamped(cs)[s] <= total
           /\ \A s \in Rendered(active, pinned) : Clamped(cs)[s] <= calculate_min_dimensions(cs)
<1> USE BoundAssumption
<1> DEFINE sized == apply_pane_resize(total, ptyDims, active, pinned)
           m == calculate_min_dimensions(cs)
<1>1. sized \in [Session -> Size] /\ \A s \in alive : sized[s] <= total
  BY LayoutIs DEF SessionsOK
<1>2. m \in 1 .. total
  BY SmallestIs
<1>3. Clamped(cs) = [s \in Session |-> IF s \in Rendered(active, pinned)
                                       THEN Min({sized[s], m}) ELSE sized[s]]
  BY DEF Clamped
<1>4. Rendered(active, pinned) \subseteq Session /\ alive \subseteq Session /\ total \in Size
  BY DEF Rendered, SessionsOK
<1> HIDE DEF sized, m
<1>5. ASSUME NEW s \in Session
      PROVE  Min({sized[s], m}) \in {sized[s], m} /\ Min({sized[s], m}) <= sized[s]
             /\ Min({sized[s], m}) <= m
  <2>1. {sized[s], m} \in SUBSET Nat /\ {sized[s], m} # {}
    BY <1>1, <1>2, <1>4 DEF Size
  <2> QED BY <2>1, LeastIs
<1>6. \A s \in Session : sized[s] \in Size
  BY <1>1
<1>7. m \in Size
  BY <1>2, <1>4 DEF Size
<1>8. \A s \in Session : Min({sized[s], m}) \in Size
  BY <1>5, <1>6, <1>7
<1>9. \A s \in alive : Min({sized[s], m}) <= total
  BY <1>1, <1>2, <1>4, <1>5, <1>6, <1>8 DEF Size
<1>10. Clamped(cs) \in [Session -> Size]
  BY <1>3, <1>6, <1>8
<1> QED BY <1>1, <1>3, <1>4, <1>5, <1>9, <1>10 DEF m

LEMMA WindowIs ==
    ASSUME SessionsOK, NEW cs, ConnsOK(cs), NEW v \in Connected(cs)
    PROVE  WindowSize(cs, v) \in Nat
<1>1. calculate_min_dimensions(cs) \in Nat
  BY SmallestIs DEF SessionsOK, Size
<1>2. cs[v].session \in Session
  BY DEF ConnsOK, Connected
<1>3. Clamped(cs)[cs[v].session] \in Nat
  BY <1>2, ClampedIs DEF Size
<1> QED BY <1>1, <1>3 DEF WindowSize

(* resize_pty_to_min_and_redraw keeps all of it.                           *)
LEMMA ResizeKeeps ==
    ASSUME SessionsOK, SocketsOK, NEW cs, ConnsOK(cs), ResizePtyToMin(cs)
    PROVE  /\ SessionsOK' /\ ConnsOK(conn)'
           /\ down' \in [Viewer -> Seq(DownMessage)]
           /\ \A v \in Viewer : Len(down'[v]) <= Cap
<1> USE BoundAssumption
<1> DEFINE m == calculate_min_dimensions(cs)
<1>1. m \in 1 .. total
  BY SmallestIs
<1>2. total \in Size /\ alive \subseteq Session /\ size \in [Session -> Size]
      /\ \A s \in alive : size[s] <= total
  BY DEF SessionsOK
<1>3. size' \in [Session -> Size] /\ \A s \in alive : size'[s] <= total
  <2>1. CASE pinned # {}
    BY <2>1, ClampedIs DEF ResizePtyToMin, Resized
  <2>2. CASE pinned = {} /\ m = ptyDims
    BY <1>2, <2>2 DEF ResizePtyToMin, Resized
  <2>3. CASE pinned = {} /\ m # ptyDims
    <3>1. size' = [s \in Session |-> IF s \in alive THEN m ELSE size[s]]
      BY <2>3 DEF ResizePtyToMin, Resized
    <3> HIDE DEF m
    <3>2. m \in Size
      BY <1>1, <1>2 DEF Size
    <3> QED BY <1>1, <1>2, <3>1, <3>2
  <2> QED BY <2>1, <2>2, <2>3
<1>4. SessionsOK'
  <2>1. ptyDims' = IF pinned = {} THEN m ELSE ptyDims
    BY DEF ResizePtyToMin
  <2>2. UNCHANGED <<total, active, pinned, alive, version>> /\ laidOut' \in BOOLEAN
    BY DEF ResizePtyToMin, SessionsOK
  <2> HIDE DEF m
  <2> QED BY <1>1, <1>3, <2>1, <2>2 DEF SessionsOK
<1>5. ASSUME NEW v \in Viewer
      PROVE  LET c == IF v \notin Connected(cs) THEN cs[v]
                      ELSE IF Room(v) THEN Invalidated(cs[v]) ELSE Lost(Invalidated(cs[v]))
             IN  /\ c \in ConnRecord /\ c.session = cs[v].session /\ c.dims = cs[v].dims
                 /\ c.state = cs[v].state \/ (c.state = "failed" /\ cs[v].state = "connected")
  <2>1. cs[v] \in ConnRecord
    BY DEF ConnsOK
  <2>2. ASSUME NEW c \in ConnRecord
        PROVE  /\ Invalidated(c) \in ConnRecord /\ Lost(c) \in ConnRecord
               /\ Invalidated(c).session = c.session /\ Invalidated(c).dims = c.dims
               /\ Invalidated(c).state = c.state
               /\ Lost(c).session = c.session /\ Lost(c).dims = c.dims /\ Lost(c).state = "failed"
    BY DEF Invalidated, Lost, ConnRecord, Screens
  <2> QED BY <2>1, <2>2 DEF Connected
<1>6. ConnsOK(conn)'
  <2> DEFINE C(v) == IF v \notin Connected(cs) THEN cs[v]
                     ELSE IF Room(v) THEN Invalidated(cs[v]) ELSE Lost(Invalidated(cs[v]))
  <2>1. conn' = [v \in Viewer |-> C(v)]
    BY DEF ResizePtyToMin
  <2>2. \A v \in Viewer : /\ C(v) \in ConnRecord /\ C(v).session = cs[v].session /\ C(v).dims = cs[v].dims
                          /\ C(v).state = cs[v].state \/ (C(v).state = "failed" /\ cs[v].state = "connected")
    BY <1>5
  <2> HIDE DEF C
  <2> QED BY <2>1, <2>2 DEF ConnsOK
<1>7. ASSUME NEW v \in Viewer
      PROVE  down'[v] \in Seq(DownMessage) /\ Len(down'[v]) <= Cap
  <2>1. down[v] \in Seq(DownMessage) /\ Len(down[v]) <= Cap /\ Len(down[v]) \in Nat
    BY DEF SocketsOK
  <2>2. CASE v \in Connected(cs) /\ Room(v)
    <3> DEFINE msg == [type |-> "window", size |-> WindowSize(cs, v)]
    <3>1. msg \in DownMessage
      BY <2>2, WindowIs DEF DownMessage
    <3>2. down'[v] = Append(down[v], msg)
      BY <2>2 DEF ResizePtyToMin
    <3> HIDE DEF msg
    <3> QED BY <2>1, <2>2, <3>1, <3>2 DEF Room
  <2>3. CASE ~(v \in Connected(cs) /\ Room(v))
    BY <2>1, <2>3 DEF ResizePtyToMin
  <2> QED BY <2>2, <2>3
<1>8. down' = [v \in Viewer |-> down'[v]]
  BY DEF ResizePtyToMin
<1> QED BY <1>4, <1>6, <1>7, <1>8

-----------------------------------------------------------------------------
(* Every step keeps the invariant *)

LEMMA ContentIs ==
    ASSUME SessionsOK, NEW s \in alive
    PROVE  Content(s) \in Screens
BY DEF SessionsOK, Content, Screens

LEMMA ConnFields ==
    ASSUME NEW c \in ConnRecord
    PROVE  /\ Invalidated(c) \in ConnRecord /\ Lost(c) \in ConnRecord
           /\ Invalidated(c).session = c.session /\ Invalidated(c).dims = c.dims
           /\ Invalidated(c).state = c.state
           /\ Lost(c).session = c.session /\ Lost(c).dims = c.dims /\ Lost(c).state = "failed"
BY DEF Invalidated, Lost, ConnRecord, Screens

(* One connection changes.                                                 *)
LEMMA ConnChanges ==
    ASSUME ConnsOK(conn), NEW v \in Viewer, NEW c \in ConnRecord,
           c.state = "connected" => c.session \in Session /\ c.dims >= 1,
           c.state \in {"none", "pending", "closed"} => c.dims = 0
    PROVE  ConnsOK([conn EXCEPT ![v] = c])
BY DEF ConnsOK

LEMMA AppendUp ==
    ASSUME SocketsOK, NEW v \in Viewer, NEW msg \in UpMessage, Len(up[v]) < Cap,
           up' = [up EXCEPT ![v] = Append(@, msg)], UNCHANGED down
    PROVE  SocketsOK'
<1> USE BoundAssumption
<1>1. up[v] \in Seq(UpMessage) /\ Len(up[v]) \in Nat
  BY DEF SocketsOK
<1>2. Append(up[v], msg) \in Seq(UpMessage) /\ Len(Append(up[v], msg)) <= Cap
  BY <1>1
<1> QED BY <1>2 DEF SocketsOK

LEMMA TailUp ==
    ASSUME SocketsOK, NEW v \in Viewer, up[v] # <<>>
    PROVE  LET rest == [up EXCEPT ![v] = Tail(@)]
           IN  /\ Head(up[v]) \in UpMessage
               /\ rest \in [Viewer -> Seq(UpMessage)] /\ \A w \in Viewer : Len(rest[w]) <= Cap
<1> USE BoundAssumption
<1>1. up[v] \in Seq(UpMessage) /\ Len(up[v]) \in Nat /\ Len(up[v]) <= Cap
  BY DEF SocketsOK
<1>2. Tail(up[v]) \in Seq(UpMessage) /\ Len(Tail(up[v])) <= Cap /\ Head(up[v]) \in UpMessage
  BY <1>1
<1> QED BY <1>2 DEF SocketsOK

LEMMA AcceptKeeps ==
    ASSUME ViewersInductive, NEW v \in Viewer, Accept(v)
    PROVE  ViewersInductive'
<1> USE BoundAssumption
<1> DEFINE c == [state |-> "connected", session |-> active, dims |-> size[active] + 1, sent |-> None]
<1>1. size[active] \in Size /\ active \in Session
  BY DEF ViewersInductive, SessionsOK
<1>2. c \in ConnRecord /\ c.session \in Session /\ c.dims >= 1 /\ c.state = "connected"
  BY <1>1 DEF ConnRecord, Screens, Size
<1>3. conn' = [conn EXCEPT ![v] = c]
  BY DEF Accept
<1> HIDE DEF c
<1>4. ConnsOK(conn')
  BY <1>2, <1>3, ConnChanges DEF ViewersInductive
<1> QED BY <1>4 DEF ViewersInductive, Accept, SessionsOK, SocketsOK, ClientsOK, sessionVars

LEMMA EchoIs ==
    ASSUME SessionsOK, NEW s
    PROVE  Echo(s) \in [Session -> 0 .. MaxOutput]
<1> USE BoundAssumption
<1>1. CASE s \in alive /\ version[s] < MaxOutput
  <2>1. version[s] + 1 \in 0 .. MaxOutput
    BY <1>1 DEF SessionsOK
  <2> QED BY <1>1, <2>1 DEF Echo, SessionsOK
<1>2. CASE ~(s \in alive /\ version[s] < MaxOutput)
  BY <1>2 DEF Echo, SessionsOK
<1> QED BY <1>1, <1>2

LEMMA ProcessKeeps ==
    ASSUME ViewersInductive, NEW v \in Viewer, Process(v)
    PROVE  ViewersInductive'
<1> USE BoundAssumption
<1> PICK msg : msg = Head(up[v])
  OBVIOUS
<1>1. /\ SessionsOK /\ ConnsOK(conn) /\ SocketsOK /\ ClientsOK
      /\ conn[v] \in ConnRecord /\ conn[v].state = "connected" /\ up[v] # <<>>
      /\ conn[v].session \in Session /\ conn[v].dims >= 1
  BY DEF ViewersInductive, ConnsOK, Process
<1>2. msg \in UpMessage /\ up' \in [Viewer -> Seq(UpMessage)]
      /\ \A w \in Viewer : Len(up'[w]) <= Cap
  BY <1>1, TailUp DEF Process
<1>3. ClientsOK'
  BY <1>1 DEF Process, ClientsOK
<1>4. CASE msg.type = "key" /\ version' = Echo(conn[v].session)
           /\ UNCHANGED <<total, ptyDims, active, pinned, alive, size, laidOut, conn, down>>
  <2>1. SessionsOK'
    BY <1>1, <1>4, EchoIs DEF SessionsOK
  <2>2. SocketsOK' /\ ConnsOK(conn)'
    BY <1>1, <1>2, <1>4 DEF SocketsOK, ConnsOK
  <2> QED BY <1>3, <2>1, <2>2 DEF ViewersInductive
<1>5. CASE /\ msg.type = "switch"
           /\ conn' = IF msg.session \in alive
                      THEN [conn EXCEPT ![v] = Invalidated([@ EXCEPT !.session = msg.session])] ELSE conn
           /\ UNCHANGED <<sessionVars, down>>
  <2>1. SessionsOK'
    BY <1>1, <1>5 DEF SessionsOK, sessionVars
  <2>2. SocketsOK'
    BY <1>1, <1>2, <1>5 DEF SocketsOK
  <2>3. msg.session \in Session
    BY <1>2, <1>5 DEF UpMessage
  <2>4. ConnsOK(conn)'
    <3>1. CASE conn' = conn
      BY <1>1, <3>1 DEF ConnsOK
    <3>2. CASE conn' = [conn EXCEPT ![v] = Invalidated([@ EXCEPT !.session = msg.session])]
      <4> DEFINE b == [conn[v] EXCEPT !.session = msg.session]
      <4>1. b \in ConnRecord /\ b.session = msg.session /\ b.dims = conn[v].dims /\ b.state = "connected"
        BY <1>1, <2>3 DEF ConnRecord
      <4>2. conn' = [conn EXCEPT ![v] = Invalidated(b)]
        BY <3>2
      <4> HIDE DEF b
      <4>3. ConnsOK([conn EXCEPT ![v] = Invalidated(b)])
        BY <1>1, <2>3, <4>1, ConnChanges, ConnFields
      <4> QED BY <4>2, <4>3
    <3> QED BY <1>5, <3>1, <3>2
  <2> QED BY <1>3, <2>1, <2>2, <2>4 DEF ViewersInductive
<1>6. CASE /\ msg.type = "resize"
           /\ ResizePtyToMin([conn EXCEPT ![v] = Invalidated([@ EXCEPT !.dims = msg.size])])
  <2>1. msg.size \in Size
    BY <1>2, <1>6 DEF UpMessage
  <2> DEFINE b == [conn[v] EXCEPT !.dims = msg.size]
  <2>2. b \in ConnRecord /\ b.session = conn[v].session /\ b.dims = msg.size /\ b.state = "connected"
    BY <1>1, <2>1 DEF ConnRecord, Size
  <2>3. PICK cs : cs = [conn EXCEPT ![v] = Invalidated(b)]
    OBVIOUS
  <2>4. ResizePtyToMin(cs)
    BY <1>6, <2>3
  <2> HIDE DEF b
  <2>5. ConnsOK(cs)
    <3>1. msg.size >= 1
      BY <2>1 DEF Size
    <3> QED BY <1>1, <2>2, <2>3, <3>1, ConnChanges, ConnFields
  <2>6. /\ SessionsOK' /\ ConnsOK(conn)'
        /\ down' \in [Viewer -> Seq(DownMessage)]
        /\ \A w \in Viewer : Len(down'[w]) <= Cap
    BY <1>1, <2>4, <2>5, ResizeKeeps
  <2> QED BY <1>2, <1>3, <2>6 DEF ViewersInductive, SocketsOK
<1>7. CASE msg.type = "detach" /\ conn' = [conn EXCEPT ![v] = Lost(@)] /\ UNCHANGED <<sessionVars, down>>
  <2>1. SessionsOK'
    BY <1>1, <1>7 DEF SessionsOK, sessionVars
  <2>2. SocketsOK'
    BY <1>1, <1>2, <1>7 DEF SocketsOK
  <2>3. ConnsOK([conn EXCEPT ![v] = Lost(conn[v])])
    BY <1>1, ConnChanges, ConnFields
  <2> QED BY <1>3, <1>7, <2>1, <2>2, <2>3 DEF ViewersInductive
<1> QED BY <1>4, <1>5, <1>6, <1>7 DEF Process

LEMMA ReadEofKeeps ==
    ASSUME ViewersInductive, NEW v \in Viewer, ReadEof(v)
    PROVE  ViewersInductive'
<1>1. conn[v] \in ConnRecord
  BY DEF ViewersInductive, ConnsOK
<1>2. ConnsOK([conn EXCEPT ![v] = Lost(conn[v])])
  BY <1>1, ConnChanges, ConnFields DEF ViewersInductive
<1>3. ConnsOK(conn')
  BY <1>2 DEF ReadEof
<1> QED BY <1>3 DEF ViewersInductive, ReadEof, SessionsOK, SocketsOK, ClientsOK, sessionVars

LEMMA ClosedConn ==
    LET c == [NoConn EXCEPT !.state = "closed"]
        p == [NoConn EXCEPT !.state = "pending"]
    IN  /\ NoConn \in ConnRecord /\ NoConn.dims = 0 /\ NoConn.state = "none"
        /\ c \in ConnRecord /\ c.dims = 0 /\ c.state = "closed"
        /\ p \in ConnRecord /\ p.dims = 0 /\ p.state = "pending"
BY BoundAssumption DEF NoConn, ConnRecord, Screens

LEMMA RemoveFailedKeeps ==
    ASSUME ViewersInductive, RemoveFailed
    PROVE  ViewersInductive'
<1> DEFINE c == [NoConn EXCEPT !.state = "closed"]
<1>1. PICK cs : cs = [v \in Viewer |-> IF conn[v].state = "failed" THEN c ELSE conn[v]]
  OBVIOUS
<1>2. c \in ConnRecord /\ c.dims = 0 /\ c.state = "closed"
  BY ClosedConn
<1>3. ResizePtyToMin(cs) /\ UNCHANGED <<up, client>>
  BY <1>1 DEF RemoveFailed
<1> HIDE DEF c
<1>4. ConnsOK(cs)
  BY <1>1, <1>2 DEF ViewersInductive, ConnsOK
<1>5. /\ SessionsOK' /\ ConnsOK(conn)'
      /\ down' \in [Viewer -> Seq(DownMessage)]
      /\ \A w \in Viewer : Len(down'[w]) <= Cap
  BY <1>3, <1>4, ResizeKeeps DEF ViewersInductive
<1> QED BY <1>3, <1>5 DEF ViewersInductive, SocketsOK, ClientsOK

LEMMA UpdateKeeps ==
    ASSUME ViewersInductive, NEW v \in Viewer, Update(v)
    PROVE  ViewersInductive'
<1> USE BoundAssumption
<1> DEFINE s == conn[v].session
           c == [conn[v] EXCEPT !.sent = Content(s)]
           msg == [type |-> "screen", content |-> Content(s)]
<1>1. Content(s) \in Screens
  BY ContentIs DEF ViewersInductive, Update
<1>2. conn[v] \in ConnRecord /\ conn[v].session \in Session /\ conn[v].dims >= 1
      /\ conn[v].state = "connected"
  BY DEF ViewersInductive, ConnsOK, Update
<1>3. c \in ConnRecord /\ c.session = conn[v].session /\ c.dims = conn[v].dims /\ c.state = "connected"
  BY <1>1, <1>2 DEF ConnRecord
<1>4. msg \in DownMessage
  BY <1>1 DEF DownMessage
<1>5. /\ conn' = [conn EXCEPT ![v] = IF Room(v) THEN c ELSE Lost(c)]
      /\ down' = IF Room(v) THEN [down EXCEPT ![v] = Append(@, msg)] ELSE down
      /\ UNCHANGED <<sessionVars, up, client>>
  BY DEF Update
<1> HIDE DEF c, msg
<1>6. ConnsOK(conn')
  BY <1>2, <1>3, <1>5, ConnChanges, ConnFields DEF ViewersInductive
<1>7. SocketsOK'
  <2>1. down[v] \in Seq(DownMessage) /\ Len(down[v]) \in Nat
    BY DEF ViewersInductive, SocketsOK
  <2>2. Room(v) => Append(down[v], msg) \in Seq(DownMessage) /\ Len(Append(down[v], msg)) <= Cap
    BY <1>4, <2>1 DEF Room
  <2> QED BY <1>5, <2>2 DEF ViewersInductive, SocketsOK
<1> QED BY <1>5, <1>6, <1>7 DEF ViewersInductive, SessionsOK, ClientsOK, sessionVars

LEMMA OutputKeeps ==
    ASSUME ViewersInductive, NEW s \in Session, Output(s)
    PROVE  ViewersInductive'
<1>1. version' \in [Session -> 0 .. MaxOutput]
  BY EchoIs DEF ViewersInductive, Output
<1> QED BY <1>1 DEF ViewersInductive, Output, SessionsOK, ConnsOK, SocketsOK, ClientsOK

LEMMA ShowsKeeps ==
    ASSUME SessionsOK, NEW act, NEW pins, NEW live, NEW dims, Shows(act, pins, live, dims),
           act \in live, pins \subseteq live, live \subseteq alive, IsFiniteSet(pins),
           dims \in 1 .. total
    PROVE  SessionsOK'
BY DEF SessionsOK, Shows

LEMMA KillKeeps ==
    ASSUME ViewersInductive, NEW s \in Session, Kill(s)
    PROVE  ViewersInductive'
<1>1. PICK next \in alive \ {s} :
         Shows(next, pinned \ {s}, alive \ {s}, ptyDims)
  BY DEF Kill
<1>2. IsFiniteSet(pinned \ {s}) /\ pinned \ {s} \subseteq alive \ {s} /\ ptyDims \in 1 .. total
  BY FS_Subset DEF ViewersInductive, SessionsOK
<1>3. SessionsOK'
  BY <1>1, <1>2, ShowsKeeps DEF ViewersInductive
<1>4. UNCHANGED <<conn, up, down, client>>
  BY <1>1 DEF Kill, Shows
<1> QED BY <1>3, <1>4 DEF ViewersInductive, ConnsOK, SocketsOK, ClientsOK

LEMMA TuiSwitchKeeps ==
    ASSUME ViewersInductive, NEW s \in Session, TuiSwitch(s)
    PROVE  ViewersInductive'
<1>1. SessionsOK'
  BY ShowsKeeps DEF ViewersInductive, SessionsOK, TuiSwitch
<1>2. UNCHANGED <<conn, up, down, client>>
  BY DEF TuiSwitch, Shows
<1> QED BY <1>1, <1>2 DEF ViewersInductive, ConnsOK, SocketsOK, ClientsOK

LEMMA ReloadKeeps ==
    ASSUME ViewersInductive, Reload
    PROVE  ViewersInductive'
<1> USE BoundAssumption
<1>1. SessionsOK'
  <2>1. total \in 1 .. total /\ IsFiniteSet({}) /\ {} \subseteq alive /\ active \in alive
    BY FS_EmptySet DEF ViewersInductive, SessionsOK, Size
  <2> QED BY <2>1, ShowsKeeps DEF ViewersInductive, Reload
<1>2. UNCHANGED <<up, down, client>>
  BY DEF Reload, Shows
<1>3. ConnsOK(conn)'
  <2> DEFINE c == [NoConn EXCEPT !.state = "closed"]
  <2>1. /\ NoConn \in ConnRecord /\ NoConn.dims = 0 /\ NoConn.state = "none"
        /\ c \in ConnRecord /\ c.dims = 0 /\ c.state = "closed"
    BY ClosedConn
  <2>2. conn' = [v \in Viewer |-> IF conn[v].state = "none" THEN NoConn ELSE c]
    BY DEF Reload
  <2> HIDE DEF c
  <2> QED BY <2>1, <2>2 DEF ConnsOK
<1> QED BY <1>1, <1>2, <1>3 DEF ViewersInductive, SocketsOK, ClientsOK

LEMMA LaysKeeps ==
    ASSUME ViewersInductive, NEW tot \in Size, NEW dims \in 1 .. tot, NEW act \in alive,
           NEW pins, pins \subseteq alive, IsFiniteSet(pins), Lays(tot, dims, act, pins)
    PROVE  ViewersInductive'
<1>1. size' \in [Session -> Size] /\ \A s \in alive : size'[s] <= tot
  BY LayoutIs DEF ViewersInductive, Lays
<1>2. SessionsOK'
  BY <1>1 DEF ViewersInductive, SessionsOK, Lays
<1> QED BY <1>2 DEF ViewersInductive, ConnsOK, SocketsOK, ClientsOK, Lays

LEMMA UserKeeps ==
    ASSUME ViewersInductive,
           HandleResize \/ \E s \in Session : SwitchToSession(s) \/ ToggleSticky(s)
    PROVE  ViewersInductive'
<1> USE BoundAssumption
<1>1. total \in Size /\ ptyDims \in 1 .. total /\ active \in alive /\ pinned \subseteq alive
      /\ IsFiniteSet(pinned)
  BY DEF ViewersInductive, SessionsOK
<1>2. ASSUME NEW s \in Session, SwitchToSession(s) PROVE ViewersInductive'
  BY <1>1, <1>2, LaysKeeps DEF SwitchToSession
<1>3. ASSUME NEW s \in Session, ToggleSticky(s) PROVE ViewersInductive'
  <2> DEFINE pins == IF s \in pinned THEN pinned \ {s} ELSE pinned \cup {s}
  <2>1. pins \subseteq alive /\ Lays(total, ptyDims, active, pins)
    BY <1>1, <1>3 DEF ToggleSticky
  <2>2. IsFiniteSet(pinned \ {s}) /\ IsFiniteSet(pinned \cup {s})
    BY <1>1, FS_Subset, FS_AddElement
  <2>3. IsFiniteSet(pins)
    BY <2>2
  <2> QED BY <1>1, <2>1, <2>3, LaysKeeps
<1>4. CASE HandleResize
  <2>1. PICK n \in Size : Lays(n, n, active, pinned)
    BY <1>4 DEF HandleResize
  <2>2. n \in 1 .. n
    BY DEF Size
  <2> QED BY <1>1, <2>1, <2>2, LaysKeeps
<1> QED BY <1>2, <1>3, <1>4

LEMMA ClientFields ==
    ASSUME NEW v \in Viewer, ClientsOK
    PROVE  client[v] \in ClientRecord /\ client[v].cur \in Size /\ client[v].cur \in Nat
           /\ client[v].view \in Nat /\ None \in Screens
BY BoundAssumption DEF ClientsOK, ClientRecord, Size, Screens

LEMMA ConnectKeeps ==
    ASSUME ViewersInductive, NEW v \in Viewer, Connect(v)
    PROVE  ViewersInductive'
<1> USE BoundAssumption
<1> DEFINE c == [NoConn EXCEPT !.state = "pending"]
           k == [client[v] EXCEPT !.state = "in", !.view = client[v].cur, !.shows = None]
           msg == [type |-> "resize", size |-> client[v].cur]
<1>1. client[v] \in ClientRecord /\ client[v].cur \in Size /\ client[v].cur \in Nat /\ None \in Screens
  BY ClientFields DEF ViewersInductive
<1>2. c \in ConnRecord /\ c.dims = 0 /\ c.state = "pending"
  BY ClosedConn
<1>3. k \in ClientRecord
  BY <1>1 DEF ClientRecord
<1>4. msg \in UpMessage
  BY <1>1 DEF UpMessage
<1>5. /\ conn' = [conn EXCEPT ![v] = c] /\ client' = [client EXCEPT ![v] = k]
      /\ up' = [up EXCEPT ![v] = <<msg>>] /\ down' = [down EXCEPT ![v] = <<>>]
      /\ UNCHANGED sessionVars
  BY DEF Connect
<1> HIDE DEF c, k, msg
<1>6. ConnsOK(conn')
  BY <1>2, <1>5, ConnChanges DEF ViewersInductive
<1>7. SocketsOK'
  <2>1. <<msg>> \in Seq(UpMessage) /\ Len(<<msg>>) = 1
    BY <1>4
  <2>2. <<>> \in Seq(DownMessage) /\ Len(<<>>) = 0
    OBVIOUS
  <2>3. up' \in [Viewer -> Seq(UpMessage)] /\ down' \in [Viewer -> Seq(DownMessage)]
    BY <1>5, <2>1, <2>2 DEF ViewersInductive, SocketsOK
  <2>4. \A w \in Viewer : Len(up'[w]) <= Cap /\ Len(down'[w]) <= Cap
    BY <1>5, <2>1, <2>2 DEF ViewersInductive, SocketsOK
  <2> QED BY <2>3, <2>4 DEF SocketsOK
<1>8. ClientsOK'
  BY <1>3, <1>5 DEF ViewersInductive, ClientsOK
<1>9. SessionsOK'
  BY <1>5 DEF ViewersInductive, SessionsOK, sessionVars
<1> QED BY <1>6, <1>7, <1>8, <1>9 DEF ViewersInductive

LEMMA SendsKeeps ==
    ASSUME ViewersInductive, NEW v \in Viewer, NEW msg \in UpMessage, Sends(v, msg), ClientsOK'
    PROVE  ViewersInductive'
<1>1. SocketsOK'
  BY AppendUp DEF ViewersInductive, Sends
<1> QED BY <1>1 DEF ViewersInductive, Sends, SessionsOK, ConnsOK, sessionVars

LEMMA AsksKeeps ==
    ASSUME ViewersInductive, NEW v \in Viewer, Asks(v)
    PROVE  ViewersInductive'
<1>1. client[v] \in ClientRecord /\ client[v].cur \in Size /\ client[v].cur \in Nat /\ None \in Screens
  BY ClientFields DEF ViewersInductive
<1>2. ClientsOK
  BY DEF ViewersInductive
<1>3. CASE Type(v)
  <2>1. [type |-> "key"] \in UpMessage
    BY DEF UpMessage
  <2>2. ClientsOK'
    BY <1>2, <1>3 DEF Type, ClientsOK
  <2> QED BY <1>3, <2>1, <2>2, SendsKeeps DEF Type
<1>4. ASSUME NEW s \in Session, AskSwitch(v, s) PROVE ViewersInductive'
  <2>1. [type |-> "switch", session |-> s] \in UpMessage
    BY DEF UpMessage
  <2>2. ClientsOK'
    BY <1>2, <1>4 DEF AskSwitch, ClientsOK
  <2> QED BY <1>4, <2>1, <2>2, SendsKeeps DEF AskSwitch
<1>5. CASE Winch(v)
  <2>1. PICK n \in Size :
           /\ Sends(v, [type |-> "resize", size |-> n])
           /\ client' = [client EXCEPT ![v] = [@ EXCEPT !.cur = n, !.view = n, !.shows = None]]
    BY <1>5 DEF Winch
  <2> DEFINE k == [client[v] EXCEPT !.cur = n, !.view = n, !.shows = None]
  <2>2. k \in ClientRecord
    <3>1. n \in Nat
      BY BoundAssumption DEF Size
    <3> QED BY <1>1, <3>1 DEF ClientRecord
  <2>3. client' = [client EXCEPT ![v] = k]
    BY <2>1
  <2> HIDE DEF k
  <2>4. ClientsOK'
    BY <1>2, <2>2, <2>3 DEF ClientsOK
  <2>5. [type |-> "resize", size |-> n] \in UpMessage
    BY DEF UpMessage
  <2> QED BY <2>1, <2>4, <2>5, SendsKeeps
<1>6. CASE Detach(v)
  <2> DEFINE k == [client[v] EXCEPT !.state = "gone"]
  <2>1. k \in ClientRecord
    BY <1>1 DEF ClientRecord
  <2>2. client' = [client EXCEPT ![v] = k]
    BY <1>6 DEF Detach
  <2> HIDE DEF k
  <2>3. ClientsOK'
    BY <1>2, <2>1, <2>2 DEF ClientsOK
  <2>4. [type |-> "detach"] \in UpMessage
    BY DEF UpMessage
  <2> QED BY <1>6, <2>3, <2>4, SendsKeeps DEF Detach
<1>7. CASE Dies(v)
  <2> DEFINE k == [client[v] EXCEPT !.state = "gone"]
  <2>1. k \in ClientRecord
    BY <1>1 DEF ClientRecord
  <2>2. client' = [client EXCEPT ![v] = k]
    BY <1>7 DEF Dies
  <2> HIDE DEF k
  <2>3. ClientsOK'
    BY <1>2, <2>1, <2>2 DEF ClientsOK
  <2> QED BY <1>7, <2>3 DEF ViewersInductive, Dies, SessionsOK, ConnsOK, SocketsOK, sessionVars
<1> QED BY <1>3, <1>4, <1>5, <1>6, <1>7 DEF Asks

LEMMA ReceiveKeeps ==
    ASSUME ViewersInductive, NEW v \in Viewer, Receive(v)
    PROVE  ViewersInductive'
<1> USE BoundAssumption
<1> DEFINE msg == Head(down[v])
           blank == [client[v] EXCEPT !.view = msg.size, !.shows = None]
           drawn == [client[v] EXCEPT !.view = Canvas(v), !.shows = Drawn(msg.content, Canvas(v))]
<1>1. client[v] \in ClientRecord /\ client[v].cur \in Size /\ client[v].cur \in Nat
      /\ client[v].view \in Nat /\ None \in Screens
  BY ClientFields DEF ViewersInductive
<1>2. /\ down[v] \in Seq(DownMessage) /\ down[v] # <<>>
      /\ Len(down[v]) \in Nat /\ Len(down[v]) <= Cap
  BY DEF ViewersInductive, SocketsOK, Receive
<1>3. /\ msg \in DownMessage /\ Tail(down[v]) \in Seq(DownMessage) /\ Len(Tail(down[v])) <= Cap
  BY <1>2
<1>4. Canvas(v) \in Nat
  <2>1. {client[v].cur, client[v].view} \subseteq Nat /\ {client[v].cur, client[v].view} # {}
    BY <1>1
  <2> QED BY <2>1, LeastIs DEF Canvas
<1>5. /\ down' = [down EXCEPT ![v] = Tail(@)] /\ UNCHANGED <<sessionVars, conn, up>>
      /\ client' = [client EXCEPT ![v] = IF msg.type = "window" THEN blank ELSE drawn]
  BY DEF Receive
<1>6. msg.type = "window" => blank \in ClientRecord
  BY <1>1, <1>3 DEF ClientRecord, DownMessage
<1>7. msg.type # "window" => drawn \in ClientRecord
  <2>1. msg.type # "window" => msg.content \in Screens
    BY <1>3 DEF DownMessage
  <2>2. msg.type # "window" => Drawn(msg.content, Canvas(v)) \in Screens
    BY <1>1, <2>1 DEF Drawn
  <2> QED BY <1>1, <1>4, <2>2 DEF ClientRecord
<1> HIDE DEF msg, blank, drawn
<1>8. ClientsOK'
  BY <1>5, <1>6, <1>7 DEF ViewersInductive, ClientsOK
<1>9. SocketsOK'
  BY <1>3, <1>5 DEF ViewersInductive, SocketsOK
<1> QED BY <1>5, <1>8, <1>9 DEF ViewersInductive, SessionsOK, ConnsOK, sessionVars

LEMMA DisconnectedKeeps ==
    ASSUME ViewersInductive, NEW v \in Viewer, Disconnected(v)
    PROVE  ViewersInductive'
<1> DEFINE k == [client[v] EXCEPT !.state = "out"]
<1>1. client[v] \in ClientRecord
  BY ClientFields DEF ViewersInductive
<1>2. k \in ClientRecord
  BY <1>1 DEF ClientRecord
<1>3. client' = [client EXCEPT ![v] = k] /\ UNCHANGED <<sessionVars, conn, up, down>>
  BY DEF Disconnected
<1> HIDE DEF k
<1>4. ClientsOK'
  BY <1>2, <1>3 DEF ViewersInductive, ClientsOK
<1> QED BY <1>3, <1>4 DEF ViewersInductive, SessionsOK, ConnsOK, SocketsOK, sessionVars

LEMMA InvariantStep == ViewersInductive /\ [Next]_vars => ViewersInductive'
<1> SUFFICES ASSUME ViewersInductive, [Next]_vars PROVE ViewersInductive'
  OBVIOUS
<1>1. CASE ServerNext
  BY <1>1, RemoveFailedKeeps, AcceptKeeps, ProcessKeeps, ReadEofKeeps, UpdateKeeps DEF ServerNext
<1>2. ASSUME NEW v \in Viewer, ClientNext(v) \/ Asks(v) PROVE ViewersInductive'
  BY <1>2, ConnectKeeps, ReceiveKeeps, DisconnectedKeeps, AsksKeeps DEF ClientNext
<1>3. ASSUME NEW s \in Session, Output(s) \/ Kill(s) \/ TuiSwitch(s) PROVE ViewersInductive'
  BY <1>3, OutputKeeps, KillKeeps, TuiSwitchKeeps
<1>4. CASE HandleResize \/ \E s \in Session : SwitchToSession(s) \/ ToggleSticky(s)
  BY <1>4, UserKeeps
<1>5. CASE Reload
  BY <1>5, ReloadKeeps
<1>6. CASE UNCHANGED vars
  BY <1>6 DEF ViewersInductive, SessionsOK, ConnsOK, SocketsOK, ClientsOK, vars, sessionVars
<1> QED BY <1>1, <1>2, <1>3, <1>4, <1>5, <1>6 DEF Next

(* For any viewers, sessions and sizes: the sizes of the sessions stay on  *)
(* the host's screen through every resize, kill and reload, what is active *)
(* or pinned is alive, and no connection holds more than the kernel lets   *)
(* it.                                                                     *)
THEOREM SizesOnScreen == Spec => []TypeOK
BY InitHolds, InvariantStep, InductiveIsType, PTL DEF Spec

-----------------------------------------------------------------------------
(* The panes follow the viewers *)

(* With panes, the sizes after a resize_pty_to_min fit every viewer left.  *)
LEMMA ResizeFits ==
    ASSUME SessionsOK, NEW cs, ConnsOK(cs), ResizePtyToMin(cs), pinned # {},
           NEW v \in Connected(conn'), NEW s \in Rendered(active, pinned)
    PROVE  size'[s] <= conn'[v].dims
<1> USE BoundAssumption
<1>1. v \in Viewer /\ conn'[v].state = "connected"
  BY DEF Connected
<1>2. conn'[v] = IF v \notin Connected(cs) THEN cs[v]
                 ELSE IF Room(v) THEN Invalidated(cs[v]) ELSE Lost(Invalidated(cs[v]))
  BY <1>1 DEF ResizePtyToMin
<1>3. cs[v] \in ConnRecord /\ cs[v].dims \in Nat
  BY <1>1 DEF ConnsOK, ConnRecord
<1>4. v \in Connected(cs) /\ conn'[v].dims = cs[v].dims
  BY <1>1, <1>2, <1>3, ConnFields DEF Connected
<1>5. calculate_min_dimensions(cs) <= cs[v].dims /\ calculate_min_dimensions(cs) \in Nat
  BY <1>4, SmallestIs DEF SessionsOK, Size
<1>6. size'[s] <= calculate_min_dimensions(cs)
  BY ClampedIs DEF ResizePtyToMin, Resized
<1>7. size'[s] \in Nat
  <2>1. s \in Session /\ size' = Clamped(cs)
    BY DEF Rendered, SessionsOK, ResizePtyToMin, Resized
  <2> QED BY <2>1, ClampedIs DEF Size
<1> QED BY <1>3, <1>4, <1>5, <1>6, <1>7

DimsKept == \A v \in Viewer : conn[v].state # "pending" => conn'[v].dims = conn[v].dims

LEMMA OneConn ==
    ASSUME ConnsOK(conn), NEW v \in Viewer, NEW c, conn' = [conn EXCEPT ![v] = c],
           conn[v].state # "pending" => c.dims = conn[v].dims
    PROVE  DimsKept
BY DEF ConnsOK, DimsKept

LEMMA ProcessFits ==
    ASSUME ViewersInductive, NEW v \in Viewer, Process(v)
    PROVE  DimsKept \/ \E cs : ConnsOK(cs) /\ ResizePtyToMin(cs)
<1> DEFINE msg == Head(up[v])
<1>1. /\ ConnsOK(conn) /\ SocketsOK /\ conn[v] \in ConnRecord /\ conn[v].state = "connected"
      /\ conn[v].session \in Session /\ up[v] # <<>>
  BY DEF ViewersInductive, ConnsOK, Process
<1>2. msg \in UpMessage
  BY <1>1, TailUp
<1>3. CASE UNCHANGED conn
  BY <1>3 DEF DimsKept
<1>4. CASE conn' = [conn EXCEPT ![v] = Lost(@)]
  BY <1>1, <1>4, ConnFields, OneConn
<1>5. CASE msg.type = "switch" /\ conn' = [conn EXCEPT ![v] = Invalidated([@ EXCEPT !.session = msg.session])]
  <2> DEFINE b == [conn[v] EXCEPT !.session = msg.session]
  <2>1. msg.session \in Session
    BY <1>2, <1>5 DEF UpMessage
  <2>2. b \in ConnRecord /\ b.dims = conn[v].dims
    BY <1>1, <2>1 DEF ConnRecord
  <2>3. conn' = [conn EXCEPT ![v] = Invalidated(b)]
    BY <1>5
  <2> HIDE DEF b
  <2> QED BY <1>1, <2>2, <2>3, ConnFields, OneConn
<1>6. CASE /\ msg.type = "resize"
           /\ ResizePtyToMin([conn EXCEPT ![v] = Invalidated([@ EXCEPT !.dims = msg.size])])
  <2> DEFINE b == [conn[v] EXCEPT !.dims = msg.size]
             cs == [conn EXCEPT ![v] = Invalidated(b)]
  <2>1. msg.size \in Size /\ msg.size >= 1
    BY <1>2, <1>6, BoundAssumption DEF UpMessage, Size
  <2>2. b \in ConnRecord /\ b.session = conn[v].session /\ b.dims = msg.size /\ b.state = "connected"
    BY <1>1, <2>1, BoundAssumption DEF ConnRecord, Size
  <2>3. ResizePtyToMin(cs)
    BY <1>6
  <2> HIDE DEF b
  <2>4. ConnsOK(cs)
    BY <1>1, <2>1, <2>2, ConnChanges, ConnFields
  <2> HIDE DEF cs
  <2> QED BY <2>3, <2>4
<1> QED BY <1>3, <1>4, <1>5, <1>6 DEF Process

LEMMA HowDimsChange ==
    ASSUME ViewersInductive, [Next]_vars
    PROVE  \/ DimsKept
           \/ Connected(conn') = {}
           \/ \E cs : ConnsOK(cs) /\ ResizePtyToMin(cs)
<1>1. CASE UNCHANGED conn
  BY <1>1 DEF DimsKept
<1>2. ASSUME NEW v \in Viewer, Accept(v) PROVE DimsKept
  BY <1>2 DEF Accept, DimsKept, ViewersInductive, ConnsOK
<1>3. ASSUME NEW v \in Viewer, ReadEof(v) PROVE DimsKept
  <2>1. ConnsOK(conn) /\ conn[v] \in ConnRecord
    BY DEF ViewersInductive, ConnsOK
  <2> QED BY <1>3, <2>1, ConnFields, OneConn DEF ReadEof
<1>4. ASSUME NEW v \in Viewer, Update(v) PROVE DimsKept
  <2> DEFINE c == [conn[v] EXCEPT !.sent = Content(conn[v].session)]
  <2>1. ConnsOK(conn) /\ conn[v] \in ConnRecord
    BY DEF ViewersInductive, ConnsOK
  <2>2. c \in ConnRecord /\ c.dims = conn[v].dims
    <3>1. Content(conn[v].session) \in Screens
      BY <1>4, ContentIs DEF ViewersInductive, Update
    <3> QED BY <2>1, <3>1 DEF ConnRecord
  <2>3. conn' = [conn EXCEPT ![v] = IF Room(v) THEN c ELSE Lost(c)]
    BY <1>4 DEF Update
  <2> HIDE DEF c
  <2> QED BY <2>1, <2>2, <2>3, ConnFields, OneConn
<1>5. ASSUME NEW v \in Viewer, Connect(v) PROVE DimsKept
  <2> DEFINE c == [NoConn EXCEPT !.state = "pending"]
  <2>1. c.dims = 0
    BY ClosedConn
  <2>2. ConnsOK(conn) /\ conn[v].dims = 0
    BY <1>5 DEF ViewersInductive, ConnsOK, Connect
  <2>3. conn' = [conn EXCEPT ![v] = c]
    BY <1>5 DEF Connect
  <2> HIDE DEF c
  <2> QED BY <2>1, <2>2, <2>3, OneConn
<1>6. CASE RemoveFailed
  <2> DEFINE c == [NoConn EXCEPT !.state = "closed"]
             cs == [v \in Viewer |-> IF conn[v].state = "failed" THEN c ELSE conn[v]]
  <2>1. c \in ConnRecord /\ c.dims = 0 /\ c.state = "closed"
    BY ClosedConn
  <2>2. ResizePtyToMin(cs)
    BY <1>6 DEF RemoveFailed
  <2> HIDE DEF c
  <2>3. ConnsOK(cs)
    BY <2>1 DEF ViewersInductive, ConnsOK
  <2> HIDE DEF cs
  <2> QED BY <2>2, <2>3
<1>7. CASE Reload
  <2> DEFINE c == [NoConn EXCEPT !.state = "closed"]
  <2>1. c.state = "closed" /\ NoConn.state = "none"
    BY ClosedConn
  <2>2. conn' = [v \in Viewer |-> IF conn[v].state = "none" THEN NoConn ELSE c]
    BY <1>7 DEF Reload
  <2> HIDE DEF c
  <2> QED BY <2>1, <2>2 DEF Connected
<1>8. ASSUME NEW v \in Viewer, Receive(v) \/ Disconnected(v) \/ Asks(v)
      PROVE  UNCHANGED conn
  BY <1>8 DEF Receive, Disconnected, Asks, Type, Winch, Detach, Dies, AskSwitch, Sends
<1>9. ASSUME NEW s \in Session,
             Output(s) \/ Kill(s) \/ TuiSwitch(s) \/ SwitchToSession(s) \/ ToggleSticky(s)
      PROVE  UNCHANGED conn
  BY <1>9 DEF Output, Kill, TuiSwitch, SwitchToSession, ToggleSticky, Lays
<1>10. CASE HandleResize \/ UNCHANGED vars
  BY <1>1, <1>10 DEF HandleResize, Lays, vars
<1> QED BY <1>1, <1>2, <1>3, <1>4, <1>5, <1>6, <1>7, <1>8, <1>9, <1>10, ProcessFits
        DEF Next, ServerNext, ClientNext

(* For any viewers, sessions and sizes: while panes are shown, a viewer    *)
(* that says another size or leaves changes the sizes of all panes in that *)
(* step, and afterwards none of them is larger than any viewer.            *)
THEOREM PanesAlwaysFit == Spec => PanesFit
<1>1. ASSUME ViewersInductive, [Next]_vars, pinned # {},
             \E v \in Viewer : conn'[v].dims # conn[v].dims /\ conn[v].state # "pending",
             NEW v \in Connected(conn'), NEW s \in Rendered(active, pinned)
      PROVE  size'[s] <= conn'[v].dims
  BY <1>1, HowDimsChange, ResizeFits DEF DimsKept, ViewersInductive
<1>2. ViewersInductive /\ [Next]_vars =>
         [pinned # {} /\ ptyDims' = ptyDims /\ layouts' = layouts /\ conn' # conn
          /\ (\E v \in Viewer : conn'[v].dims # conn[v].dims /\ conn[v].state # "pending")
          => \A v \in Connected(conn') : \A s \in Rendered(active, pinned) : size'[s] <= conn'[v].dims]_vars
  BY <1>1
<1> QED BY <1>2, InitHolds, InvariantStep, PTL DEF Spec, PanesFit

=============================================================================
