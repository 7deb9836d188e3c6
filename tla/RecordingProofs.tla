---------------------------- MODULE RecordingProofs ----------------------------
(***************************************************************************)
(* Proofs about Recording, for any database, processes and sessions, and   *)
(* about the instances of Frames and of MouseSelection in MCRecording, for *)
(* any sessions: what was recorded is listed and played where the player   *)
(* says it is, what tttt shows is current, and a selection copies the text *)
(* it was dragged over.                                                    *)
(***************************************************************************)
EXTENDS MCRecording, SequenceTheorems, FiniteSetTheorems, NaturalsInduction, WellFoundedInduction, TLAPS

-----------------------------------------------------------------------------
(* Sets of numbers, and the places of a set one by one *)

LEMMA LeastOf ==
    ASSUME NEW T, T \subseteq Nat, T # {}
    PROVE  \E x \in T : \A y \in T : x <= y
<1>1. IsWellFoundedOn(OpToRel(<, Nat), Nat)
  BY NatLessThanWellFounded
<1>2. PICK x \in T : \A y \in T : <<y, x>> \notin OpToRel(<, Nat)
  BY <1>1, WFMin
<1>3. \A y \in T : ~(y < x)
  BY <1>2 DEF OpToRel
<1> QED BY <1>3

LEMMA MostOf ==
    ASSUME NEW T, T \subseteq Nat, T # {}, NEW b \in Nat, \A y \in T : y <= b
    PROVE  \E x \in T : \A y \in T : x >= y
<1> DEFINE U == {b - y : y \in T}
<1>1. U \subseteq Nat /\ U # {}
  <2>1. \A y \in T : b - y \in Nat
    OBVIOUS
  <2> QED BY <2>1
<1>2. PICK u \in U : \A w \in U : u <= w
  BY <1>1, LeastOf
<1>3. PICK x \in T : u = b - x
  BY <1>2
<1>4. \A y \in T : b - x <= b - y
  BY <1>2, <1>3
<1>5. \A y \in T : x >= y
  BY <1>4
<1> QED BY <1>5

LEMMA MaxOf ==
    ASSUME NEW T, T \subseteq Nat, T # {}, NEW b \in Nat, \A y \in T : y <= b
    PROVE  Max(T) \in T /\ \A y \in T : y <= Max(T)
<1>1. \E x \in T : \A y \in T : x >= y
  BY MostOf
<1>2. Max(T) \in T /\ \A y \in T : Max(T) >= y
  BY <1>1 DEF Max
<1> QED BY <1>2

LEMMA MinOf ==
    ASSUME NEW T, T \subseteq Nat, T # {}
    PROVE  Min(T) \in T
<1>1. \E x \in T : \A y \in T : x <= y
  BY LeastOf
<1> QED BY <1>1 DEF Min

(* A set of n places has a k-th one, and they come in order.               *)
Places(m) == SUBSET (1 .. m)

LEMMA UpToElement ==
    ASSUME NEW m \in Nat, NEW places \in Places(m), NEW i \in Int
    PROVE  /\ UpTo(places, i) \subseteq places
           /\ \A j \in places : j \in Nat \ {0} /\ j <= m /\ (j \in UpTo(places, i) <=> j <= i)
<1>1. \A j \in places : j \in 1 .. m
  BY DEF Places
<1>2. \A j \in 1 .. m : j \in Nat \ {0} /\ j <= m
  OBVIOUS
<1> QED BY <1>1, <1>2 DEF UpTo

LEMMA UpToIs ==
    ASSUME NEW m \in Nat, NEW places \in Places(m), NEW i \in Nat
    PROVE  /\ IsFiniteSet(places) /\ IsFiniteSet(UpTo(places, i))
           /\ Cardinality(places) \in Nat /\ Cardinality(UpTo(places, i)) \in Nat
           /\ \A k \in Nat : i <= k => Cardinality(UpTo(places, i)) <= Cardinality(UpTo(places, k))
<1>1. IsFiniteSet(1 .. m)
  BY FS_Interval
<1>2. IsFiniteSet(places)
  BY <1>1, FS_Subset DEF Places
<1>3. \A k \in Nat : IsFiniteSet(UpTo(places, k))
  <2> SUFFICES ASSUME NEW k \in Nat PROVE IsFiniteSet(UpTo(places, k))
    OBVIOUS
  <2>1. UpTo(places, k) \in SUBSET places
    BY UpToElement
  <2> QED BY <1>2, <2>1, FS_Subset
<1>4. ASSUME NEW k \in Nat, i <= k
      PROVE  Cardinality(UpTo(places, i)) <= Cardinality(UpTo(places, k))
  <2>1. ASSUME NEW j \in UpTo(places, i) PROVE j \in UpTo(places, k)
    <3>1. j \in places /\ j \in Nat /\ j <= i
      BY UpToElement
    <3>2. j <= k
      BY <1>4, <3>1
    <3> QED BY <3>1, <3>2, UpToElement
  <2>2. UpTo(places, i) \in SUBSET UpTo(places, k)
    BY <2>1
  <2> QED BY <1>3, <2>2, FS_Subset
<1> QED BY <1>2, <1>3, <1>4, FS_CardinalityType

LEMMA NthExists ==
    ASSUME NEW m \in Nat, NEW places \in Places(m), NEW k \in 1 .. Cardinality(places)
    PROVE  \E i \in places : Cardinality(UpTo(places, i)) = k
<1> DEFINE T == {i \in 0 .. m : k <= Cardinality(UpTo(places, i))}
<1>1. Cardinality(places) \in Nat /\ k \in Nat \ {0} /\ k <= Cardinality(places)
  <2>1. Cardinality(places) \in Nat
    BY UpToIs
  <2> QED BY <2>1
<1>2. UpTo(places, m) = places
  <2>1. \A j \in places : j <= m
    BY UpToElement
  <2> QED BY <2>1 DEF UpTo
<1>3. m \in T
  BY <1>1, <1>2
<1>4. T \subseteq Nat
  OBVIOUS
<1> HIDE DEF T
<1>5. PICK i \in T : \A j \in T : i <= j
  BY <1>3, <1>4, LeastOf
<1>6. i \in 0 .. m /\ k <= Cardinality(UpTo(places, i))
  BY <1>5 DEF T
<1>7. UpTo(places, 0) = {}
  <2>1. \A j \in places : ~(j <= 0)
    BY UpToElement
  <2> QED BY <2>1 DEF UpTo
<1>8. i # 0
  BY <1>1, <1>6, <1>7, FS_EmptySet
<1>9. i - 1 \in 0 .. m /\ i - 1 \notin T
  BY <1>5, <1>6, <1>8
<1>10. ~(k <= Cardinality(UpTo(places, i - 1)))
  BY <1>9 DEF T
<1>11. i \in places
  <2> SUFFICES ASSUME i \notin places PROVE FALSE
    OBVIOUS
  <2>1. \A j \in places : j <= i <=> j <= i - 1
    <3>1. \A j \in places : j # i /\ j \in Nat
      BY UpToElement
    <3> QED BY <1>6, <3>1
  <2>2. UpTo(places, i) = UpTo(places, i - 1)
    BY <2>1 DEF UpTo
  <2> QED BY <1>6, <1>10, <2>2
<1>12. UpTo(places, i) = UpTo(places, i - 1) \cup {i} /\ i \notin UpTo(places, i - 1)
  <2>1. \A j \in places : j <= i <=> j <= i - 1 \/ j = i
    <3>1. \A j \in places : j \in Nat
      BY UpToElement
    <3> QED BY <1>6, <3>1
  <2>2. ~(i <= i - 1)
    BY <1>6
  <2> QED BY <1>11, <2>1, <2>2 DEF UpTo
<1>16. i \in Nat /\ i - 1 \in Nat
  BY <1>6, <1>9
<1>13. /\ IsFiniteSet(UpTo(places, i - 1)) /\ Cardinality(UpTo(places, i - 1)) \in Nat
       /\ Cardinality(UpTo(places, i)) \in Nat
  BY <1>16, UpToIs
<1>14. Cardinality(UpTo(places, i)) = Cardinality(UpTo(places, i - 1)) + 1
  BY <1>12, <1>13, FS_AddElement
<1>15. Cardinality(UpTo(places, i)) = k
  BY <1>1, <1>6, <1>10, <1>13, <1>14
<1> QED BY <1>11, <1>15

LEMMA NthPlace ==
    ASSUME NEW m \in Nat, NEW places \in Places(m)
    PROVE  /\ Cardinality(places) \in Nat
           /\ \A k \in 1 .. Cardinality(places) : Nth(places, k) \in places
           /\ \A k, l \in 1 .. Cardinality(places) :
                  k < l => Nth(places, k) < Nth(places, l)
<1>1. Cardinality(places) \in Nat
  BY UpToIs
<1>2. ASSUME NEW k \in 1 .. Cardinality(places)
      PROVE  Nth(places, k) \in places /\ Cardinality(UpTo(places, Nth(places, k))) = k
  <2>1. \E i \in places : Cardinality(UpTo(places, i)) = k
    BY NthExists
  <2>2. \E i \in places : Cardinality(UpTo(places, i)) = k
    BY <2>1
  <2>3. /\ Nth(places, k) \in places
        /\ Cardinality(UpTo(places, Nth(places, k))) = k
    BY <2>2 DEF Nth
  <2> QED BY <2>3
<1>3. ASSUME NEW k \in 1 .. Cardinality(places), NEW l \in 1 .. Cardinality(places), k < l
      PROVE  Nth(places, k) < Nth(places, l)
  <2>1. Nth(places, k) \in Nat /\ Nth(places, l) \in Nat
    BY <1>2, UpToElement
  <2>2. Nth(places, l) <= Nth(places, k) => l <= k
    BY <1>2, <2>1, UpToIs
  <2> QED BY <1>1, <1>3, <2>1, <2>2
<1> QED BY <1>1, <1>2, <1>3

-----------------------------------------------------------------------------
(* The inductive invariant of Recording *)

(* Events are in the order of their times, in the table and in the player. *)
InOrder(evs) == \A i, j \in DOMAIN evs : i < j => evs[i].ts <= evs[j].ts
LogOK ==
    /\ events \in Seq(Event) /\ InOrder(events)
    /\ \A i \in DOMAIN events : events[i].ts <= now
    /\ now \in 0 .. MaxTime

TablesOK ==
    /\ rows \in [Sid -> {None} \cup Row]
    /\ session \in [Process -> [Sid -> Own]]
    /\ \A p \in Process, s \in Sid : session[p][s].state = "live" => session[p][s].size \in Size

PlayerOK(v) ==
    /\ v \in Player /\ InOrder(v.evs)
    /\ v.idx \in 0 .. Len(v.evs)
PlaceAgrees(v) ==
    /\ v.idx > 0 => v.evs[v.idx].ts <= Base(v) + v.pos
    /\ v.idx < Len(v.evs) => v.evs[v.idx + 1].ts >= Base(v) + v.pos
ViewOK ==
    /\ list \subseteq Entry /\ keys \in 0 .. MaxKeys
    /\ view \in {Closed, Listing} \cup Player
    /\ Replaying => PlayerOK(view) /\ PlaceAgrees(view)

RecordingInductive == LogOK /\ TablesOK /\ ViewOK

-----------------------------------------------------------------------------
(* The list: every event is in one recording *)

LEMMA EventIs ==
    ASSUME LogOK, NEW i \in DOMAIN events
    PROVE  /\ events[i].sid \in Sid /\ events[i].pid \in Pid
           /\ events[i].resize \in {None} \cup Size
           /\ events[i].ts \in Nat /\ events[i].ts <= now
<1>1. events[i] \in Event
  BY DEF LogOK
<1> QED BY <1>1 DEF Event, LogOK

LEMMA TimesAre ==
    ASSUME LogOK, NEW places \in SUBSET DOMAIN events
    PROVE  /\ TimesOf(places) \subseteq Nat
           /\ \A t \in TimesOf(places) : t <= now
           /\ now \in Nat
<1>1. \A i \in places : events[i].ts \in Nat /\ events[i].ts <= now
  BY EventIs
<1> QED BY <1>1 DEF TimesOf, LogOK

(* A chunk ends with the last of its events, ...                           *)
LEMMA ChunkIs ==
    ASSUME NEW b \in Nat, NEW ts \in SUBSET Nat, \A u \in ts : u <= b, NEW t \in Starts(ts)
    PROVE  /\ t \in ts /\ t \in Chunk(ts, t)
           /\ Max(Chunk(ts, t)) \in Chunk(ts, t)
           /\ \A u \in Chunk(ts, t) : u <= Max(Chunk(ts, t))
<1>1. t \in ts /\ t \in Nat
  BY DEF Starts
<1>2. Starts(ts) \subseteq Nat
  BY DEF Starts
<1>3. t \in Chunk(ts, t)
  BY <1>1, <1>2 DEF Chunk
<1>4. Chunk(ts, t) \subseteq Nat /\ \A u \in Chunk(ts, t) : u <= b
  BY DEF Chunk
<1>5. Chunk(ts, t) # {}
  BY <1>3
<1> HIDE DEF Chunk
<1>6. Max(Chunk(ts, t)) \in Chunk(ts, t) /\ \A u \in Chunk(ts, t) : u <= Max(Chunk(ts, t))
  BY <1>4, <1>5, MaxOf
<1> QED BY <1>1, <1>3, <1>6

(* ... every time is in one, ...                                           *)
LEMMA InSomeChunk ==
    ASSUME NEW b \in Nat, NEW ts \in SUBSET Nat, \A u \in ts : u <= b, NEW x \in ts
    PROVE  \E t \in Starts(ts) : x \in Chunk(ts, t)
<1> DEFINE Early == {t \in Starts(ts) : t <= x}
<1>1. PICK m \in ts : \A u \in ts : m <= u
  BY LeastOf
<1>2. m \in Starts(ts) /\ m <= x
  BY <1>1 DEF Starts
<1>3. Early \subseteq Nat /\ Early # {} /\ x \in Nat
  BY <1>2 DEF Starts
<1>4. \A t \in Early : t <= x
  OBVIOUS
<1> HIDE DEF Early
<1>5. PICK t \in Early : \A u \in Early : t >= u
  BY <1>3, <1>4, MostOf
<1>6. t \in Starts(ts) /\ t <= x /\ t \in Nat
  BY <1>3, <1>5 DEF Early
<1>7. ASSUME NEW c \in Starts(ts), c > t PROVE x < c
  <2>1. c \in Nat
    BY DEF Starts
  <2>2. c \notin Early
    BY <1>3, <1>5, <1>6, <1>7, <2>1
  <2> QED BY <1>3, <2>1, <2>2 DEF Early
<1>8. x \in Chunk(ts, t)
  BY <1>6, <1>7 DEF Chunk
<1> QED BY <1>6, <1>8

(* ... and in no other.                                                    *)
LEMMA InOneChunk ==
    ASSUME NEW b \in Nat, NEW ts \in SUBSET Nat, \A u \in ts : u <= b, NEW x \in Nat,
           NEW t \in Starts(ts), t <= x, x <= Max(Chunk(ts, t)),
           NEW w \in Starts(ts), w <= x, x <= Max(Chunk(ts, w))
    PROVE  t = w
<1>1. ASSUME NEW u \in Starts(ts), NEW c \in Starts(ts), u < c, c <= x,
             x <= Max(Chunk(ts, u))
      PROVE  FALSE
  <2>1. Max(Chunk(ts, u)) \in Chunk(ts, u)
    BY ChunkIs
  <2>2. Max(Chunk(ts, u)) \in Nat /\ Max(Chunk(ts, u)) < c
    BY <1>1, <2>1 DEF Chunk
  <2>3. c \in Nat
    BY DEF Starts
  <2> QED BY <1>1, <2>2, <2>3
<1>2. t \in Nat /\ w \in Nat
  BY DEF Starts
<1>3. ~(t < w) /\ ~(w < t)
  BY <1>1
<1> QED BY <1>2, <1>3
TimesWithout(s) == TimesOf({i \in OfSession(s) : events[i].pid = None})
ChunkEntry(s, t) ==
    Orphan(s, None, t, Max(Chunk(TimesWithout(s), t)), "range")

LEMMA TimesWithoutAre ==
    ASSUME LogOK, NEW s
    PROVE  /\ TimesWithout(s) \in SUBSET Nat /\ now \in Nat
           /\ \A t \in TimesWithout(s) : t <= now
           /\ \A i \in DOMAIN events :
                  events[i].sid = s /\ events[i].pid = None => events[i].ts \in TimesWithout(s)
<1>1. {i \in OfSession(s) : events[i].pid = None} \in SUBSET DOMAIN events
  BY DEF OfSession
<1> QED BY <1>1, TimesAre DEF TimesWithout, TimesOf, OfSession

(* Which events a recording of the list holds: one that has a row, ...     *)
LEMMA RowEntries ==
    ASSUME NEW entry \in list_sessions, NEW i \in DOMAIN events
    PROVE  \E s \in Sid :
               /\ rows[s] # None
               /\ entry = [sid |-> s, pid |-> rows[s].pid, size |-> rows[s].size,
                           from |-> rows[s].started, to |-> rows[s].ended, by |-> "pid"]
               /\ i \in Selected(entry) <=>
                      /\ events[i].sid = s
                      /\ rows[s].pid = None \/ events[i].pid = rows[s].pid
<1>1. PICK s \in Sid :
          /\ rows[s] # None
          /\ entry = [sid |-> s, pid |-> rows[s].pid, size |-> rows[s].size,
                      from |-> rows[s].started, to |-> rows[s].ended, by |-> "pid"]
  BY DEF list_sessions
<1>2. entry.by = "pid" /\ entry.sid = s /\ entry.pid = rows[s].pid
  BY <1>1
<1>3. Selected(entry) = query_events_with_pid(s, rows[s].pid)
  BY <1>2 DEF Selected
<1>4. i \in Selected(entry) <=>
          /\ events[i].sid = s
          /\ rows[s].pid = None \/ events[i].pid = rows[s].pid
  BY <1>3 DEF query_events_with_pid, OfSession
<1> QED BY <1>1, <1>4

(* ... and one that has none.                                              *)
LEMMA OrphanEntries ==
    ASSUME NEW entry \in list_orphan_session_chunks, NEW i \in DOMAIN events, i \in Selected(entry)
    PROVE  LET s == events[i].sid
               p == events[i].pid
           IN  /\ rows[s] = None \/ rows[s].pid # p
               /\ p # None => entry = infer_session_info(s, p)
               /\ p = None =>
                      \E t \in Starts(TimesWithout(s)) :
                          /\ t <= events[i].ts /\ events[i].ts <= Max(Chunk(TimesWithout(s), t))
                          /\ entry = ChunkEntry(s, t)
<1>1. PICK o \in list_orphan_session_ids :
          entry \in IF o[2] # None THEN {infer_session_info(o[1], o[2])}
                    ELSE split_null_pid_orphan_into_chunks(o[1])
  BY DEF list_orphan_session_chunks
<1>2. rows[o[1]] = None \/ rows[o[1]].pid # o[2]
  BY DEF list_orphan_session_ids
<1>3. CASE o[2] # None
  <2>1. entry = infer_session_info(o[1], o[2])
    BY <1>1, <1>3
  <2>2. entry.by = "pid" /\ entry.sid = o[1] /\ entry.pid = o[2]
    BY <2>1 DEF infer_session_info, Orphan
  <2>3. i \in query_events_with_pid(o[1], o[2])
    BY <2>2 DEF Selected
  <2>4. events[i].sid = o[1] /\ events[i].pid = o[2]
    BY <1>3, <2>3 DEF query_events_with_pid, OfSession
  <2> QED BY <1>2, <1>3, <2>1, <2>4
<1>4. CASE o[2] = None
  <2>1. PICK t \in Starts(TimesWithout(o[1])) : entry = ChunkEntry(o[1], t)
    BY <1>1, <1>4 DEF split_null_pid_orphan_into_chunks, TimesWithout, ChunkEntry
  <2>2. /\ entry.by = "range" /\ entry.sid = o[1] /\ entry.from = t
        /\ entry.to = Max(Chunk(TimesWithout(o[1]), t))
    BY <2>1 DEF ChunkEntry, Orphan
  <2>3. i \in query_events_in_range(o[1], t, Max(Chunk(TimesWithout(o[1]), t)))
    BY <2>2 DEF Selected
  <2>4. /\ events[i].sid = o[1] /\ events[i].pid = None
        /\ t <= events[i].ts /\ events[i].ts <= Max(Chunk(TimesWithout(o[1]), t))
    BY <2>3 DEF query_events_in_range, OfSession
  <2> QED BY <1>2, <1>4, <2>1, <2>4
<1> QED BY <1>3, <1>4

Claims(i) == {entry \in build_session_list : i \in Selected(entry)}

(* A recording there always is, ...                                        *)
LEMMA Claimed ==
    ASSUME LogOK, TablesOK, NEW i \in DOMAIN events
    PROVE  Claims(i) # {}
<1> DEFINE s == events[i].sid
           p == events[i].pid
<1>1. s \in Sid /\ p \in Pid /\ events[i].ts \in Nat
  BY EventIs
<1>2. CASE rows[s] # None /\ (rows[s].pid = None \/ rows[s].pid = p)
  <2> DEFINE entry == [sid |-> s, pid |-> rows[s].pid, size |-> rows[s].size,
                       from |-> rows[s].started, to |-> rows[s].ended, by |-> "pid"]
  <2>1. entry \in list_sessions
    BY <1>1, <1>2 DEF list_sessions
  <2>2. entry.by = "pid" /\ entry.sid = s /\ entry.pid = rows[s].pid
    OBVIOUS
  <2> HIDE DEF entry
  <2>3. i \in Selected(entry)
    BY <1>2, <2>2 DEF Selected, query_events_with_pid, OfSession
  <2> QED BY <2>1, <2>3 DEF Claims, build_session_list
<1>3. CASE rows[s] = None \/ rows[s].pid # p
  <2> DEFINE o == <<s, p>>
  <2>1. o \in list_orphan_session_ids /\ o[1] = s /\ o[2] = p
    BY <1>3 DEF list_orphan_session_ids, WithEvents
  <2> HIDE DEF o
  <2>2. CASE p # None
    <3>1. infer_session_info(s, p) \in list_orphan_session_chunks
      BY <2>1, <2>2 DEF list_orphan_session_chunks
    <3>2. LET entry == infer_session_info(s, p)
          IN  entry.by = "pid" /\ entry.sid = s /\ entry.pid = p
      BY DEF infer_session_info, Orphan
    <3>3. i \in Selected(infer_session_info(s, p))
      BY <3>2 DEF Selected, query_events_with_pid, OfSession
    <3> QED BY <3>1, <3>3 DEF Claims, build_session_list
  <2>3. CASE p = None
    <3>1. /\ TimesWithout(s) \in SUBSET Nat /\ now \in Nat
          /\ \A t \in TimesWithout(s) : t <= now
          /\ events[i].ts \in TimesWithout(s)
      BY <2>3, TimesWithoutAre
    <3>2. PICK t \in Starts(TimesWithout(s)) : events[i].ts \in Chunk(TimesWithout(s), t)
      BY <3>1, InSomeChunk
    <3>3. t <= events[i].ts /\ events[i].ts <= Max(Chunk(TimesWithout(s), t))
      <4>1. events[i].ts <= Max(Chunk(TimesWithout(s), t))
        BY <3>1, <3>2, ChunkIs
      <4> QED BY <3>2, <4>1 DEF Chunk
    <3>4. ChunkEntry(s, t) \in split_null_pid_orphan_into_chunks(s)
      BY DEF ChunkEntry, split_null_pid_orphan_into_chunks, TimesWithout
    <3>5. ChunkEntry(s, t) \in list_orphan_session_chunks
      BY <2>1, <2>3, <3>4 DEF list_orphan_session_chunks
    <3>6. LET entry == ChunkEntry(s, t)
          IN  /\ entry.by = "range" /\ entry.sid = s /\ entry.from = t
              /\ entry.to = Max(Chunk(TimesWithout(s), t))
      BY DEF ChunkEntry, Orphan
    <3>7. i \in Selected(ChunkEntry(s, t))
      BY <2>3, <3>3, <3>6 DEF Selected, query_events_in_range, OfSession
    <3> QED BY <3>5, <3>7 DEF Claims, build_session_list
  <2> QED BY <2>2, <2>3
<1> QED BY <1>2, <1>3

(* ... and only one unless a row without a pid claims the whole session.   *)
LEMMA ClaimedOnce ==
    ASSUME LogOK, TablesOK, NEW i \in DOMAIN events,
           rows[events[i].sid] = None \/ rows[events[i].sid].pid # None,
           NEW c \in Claims(i), NEW d \in Claims(i)
    PROVE  c = d
<1> DEFINE s == events[i].sid
           p == events[i].pid
<1>1. /\ i \in Selected(c) /\ i \in Selected(d)
      /\ c \in list_sessions \/ c \in list_orphan_session_chunks
      /\ d \in list_sessions \/ d \in list_orphan_session_chunks
  BY DEF Claims, build_session_list
<1>2. ASSUME NEW e \in list_sessions, i \in Selected(e)
      PROVE  /\ rows[s] # None /\ rows[s].pid = p
             /\ e = [sid |-> s, pid |-> rows[s].pid, size |-> rows[s].size,
                     from |-> rows[s].started, to |-> rows[s].ended, by |-> "pid"]
  BY <1>2, RowEntries
<1>3. ASSUME NEW e \in list_orphan_session_chunks, i \in Selected(e)
      PROVE  rows[s] = None \/ rows[s].pid # p
  BY <1>3, OrphanEntries
<1>4. CASE c \in list_sessions /\ d \in list_sessions
  BY <1>1, <1>2, <1>4
<1>5. CASE c \in list_orphan_session_chunks /\ d \in list_orphan_session_chunks
  <2>1. CASE p # None
    BY <1>1, <1>5, <2>1, OrphanEntries
  <2>2. CASE p = None
    <3>1. PICK t \in Starts(TimesWithout(s)) :
              /\ t <= events[i].ts /\ events[i].ts <= Max(Chunk(TimesWithout(s), t))
              /\ c = ChunkEntry(s, t)
      BY <1>1, <1>5, <2>2, OrphanEntries
    <3>2. PICK w \in Starts(TimesWithout(s)) :
              /\ w <= events[i].ts /\ events[i].ts <= Max(Chunk(TimesWithout(s), w))
              /\ d = ChunkEntry(s, w)
      BY <1>1, <1>5, <2>2, OrphanEntries
    <3>3. /\ TimesWithout(s) \in SUBSET Nat /\ now \in Nat
          /\ \A u \in TimesWithout(s) : u <= now
          /\ events[i].ts \in Nat
      BY TimesWithoutAre, EventIs
    <3>4. ASSUME NEW ts \in SUBSET Nat, \A u \in ts : u <= now, NEW x \in Nat,
                 t \in Starts(ts), t <= x, x <= Max(Chunk(ts, t)),
                 w \in Starts(ts), w <= x, x <= Max(Chunk(ts, w))
          PROVE  t = w
      BY <3>3, <3>4, InOneChunk
    <3>5. t = w
      BY <3>1, <3>2, <3>3, <3>4
    <3> QED BY <3>1, <3>2, <3>5
  <2> QED BY <2>1, <2>2
<1>6. ~(c \in list_sessions /\ d \in list_orphan_session_chunks)
  BY <1>1, <1>2, <1>3
<1>7. ~(d \in list_sessions /\ c \in list_orphan_session_chunks)
  BY <1>1, <1>2, <1>3
<1> QED BY <1>1, <1>4, <1>5, <1>6, <1>7

LEMMA Listed == LogOK /\ TablesOK => ListedOnce
<1> SUFFICES ASSUME LogOK, TablesOK, NEW i \in DOMAIN events
             PROVE  /\ Claims(i) # {}
                    /\ Cardinality(Claims(i)) > 1 =>
                           rows[events[i].sid] # None /\ rows[events[i].sid].pid = None
  BY DEF ListedOnce, Claims
<1>1. PICK c : c \in Claims(i)
  BY Claimed
<1>2. ASSUME rows[events[i].sid] = None \/ rows[events[i].sid].pid # None
      PROVE  ~(Cardinality(Claims(i)) > 1)
  <2>1. Claims(i) = {c}
    BY <1>1, <1>2, ClaimedOnce
  <2>2. Cardinality({c}) = 1
    BY FS_Singleton
  <2> QED BY <2>1, <2>2
<1> QED BY <1>1, <1>2

-----------------------------------------------------------------------------
(* The player: where a step, a jump or the passing of time leaves it *)

LEMMA LoadIs ==
    ASSUME LogOK, NEW entry
    PROVE  Load(entry) \in Seq(Event) /\ InOrder(Load(entry))
<1> DEFINE places == Selected(entry)
           n == Cardinality(places)
           evs == [k \in 1 .. n |-> events[Nth(places, k)]]
<1>1. Len(events) \in Nat /\ DOMAIN events = 1 .. Len(events)
  BY DEF LogOK
<1>2. places \in Places(Len(events))
  <2>1. places \subseteq DOMAIN events
    BY DEF Selected, query_events_with_pid, query_events_in_range, OfSession
  <2> QED BY <1>1, <2>1 DEF Places
<1>3. Load(entry) = evs
  BY DEF Load
<1> HIDE DEF places
<1>4. /\ n \in Nat
      /\ \A k \in 1 .. n : Nth(places, k) \in DOMAIN events
      /\ \A k, l \in 1 .. n : k < l => Nth(places, k) < Nth(places, l)
  <2>1. places \subseteq DOMAIN events
    BY <1>1, <1>2 DEF Places
  <2> QED BY <1>1, <1>2, <2>1, NthPlace
<1> HIDE DEF n
<1>5. \A k \in 1 .. n : events[Nth(places, k)] \in Event
  BY <1>4 DEF LogOK
<1>6. evs \in Seq(Event)
  BY <1>4, <1>5, SeqDef
<1>7. InOrder(evs)
  <2>1. \A k, l \in 1 .. n : k < l => events[Nth(places, k)].ts <= events[Nth(places, l)].ts
    BY <1>4 DEF LogOK, InOrder
  <2>2. DOMAIN evs = 1 .. n /\ \A k \in 1 .. n : evs[k] = events[Nth(places, k)]
    OBVIOUS
  <2> HIDE DEF evs
  <2> QED BY <2>1, <2>2 DEF InOrder
<1> QED BY <1>3, <1>6, <1>7

LEMMA TimesOfEvents ==
    ASSUME NEW evs \in Seq(Event)
    PROVE  \A i \in 1 .. Len(evs) : evs[i].ts \in Nat
<1>1. \A i \in 1 .. Len(evs) : evs[i] \in Event
  OBVIOUS
<1> QED BY <1>1 DEF Event

(* The number of events up to a time is the place of the last of them.     *)
LEMMA CountIs ==
    ASSUME NEW evs \in Seq(Event), InOrder(evs), NEW T \in Nat
    PROVE  LET n == Cardinality({i \in DOMAIN evs : evs[i].ts <= T})
           IN  /\ n \in 0 .. Len(evs)
               /\ n > 0 => evs[n].ts <= T
               /\ n < Len(evs) => evs[n + 1].ts >= T
<1> DEFINE Due == {i \in DOMAIN evs : evs[i].ts <= T}
           Late == {i \in DOMAIN evs : ~(evs[i].ts <= T)}
<1>1. Len(evs) \in Nat /\ DOMAIN evs = 1 .. Len(evs)
  OBVIOUS
<1>2. \A i \in 1 .. Len(evs) : evs[i].ts \in Nat
  BY TimesOfEvents
<1>3. CASE Late = {}
  <2>1. Due = 1 .. Len(evs)
    BY <1>1, <1>3
  <2>2. Cardinality(1 .. Len(evs)) = Len(evs)
    BY <1>1, FS_Interval
  <2>3. Cardinality(Due) = Len(evs)
    BY <2>1, <2>2
  <2>4. Len(evs) > 0 => evs[Len(evs)].ts <= T
    BY <1>1, <1>3
  <2>5. Len(evs) \in 0 .. Len(evs) /\ ~(Len(evs) < Len(evs))
    BY <1>1
  <2> QED BY <2>3, <2>4, <2>5
<1>4. CASE Late # {}
  <2>1. Late \in SUBSET Nat
    BY <1>1
  <2>2. PICK m \in Late : \A i \in Late : m <= i
    BY <1>4, <2>1, LeastOf
  <2>3. m \in 1 .. Len(evs) /\ ~(evs[m].ts <= T)
    BY <1>1, <2>2
  <2>4. \A i \in 1 .. Len(evs) : evs[i].ts <= T <=> i <= m - 1
    <3> SUFFICES ASSUME NEW i \in 1 .. Len(evs) PROVE evs[i].ts <= T <=> i <= m - 1
      OBVIOUS
    <3>1. i < m => evs[i].ts <= T
      BY <1>1, <2>2, <2>3
    <3>2. i >= m => ~(evs[i].ts <= T)
      BY <1>1, <1>2, <2>3 DEF InOrder
    <3> QED BY <2>3, <3>1, <3>2
  <2>5. Due = 1 .. m - 1
    BY <1>1, <2>3, <2>4
  <2>6. Cardinality(1 .. m - 1) = m - 1
    <3> DEFINE l == m - 1
    <3>1. l \in Nat /\ l \in Int /\ (1 > l <=> l = 0) /\ l - 1 + 1 = l
      BY <2>3
    <3> HIDE DEF l
    <3>2. Cardinality(1 .. l) = IF 1 > l THEN 0 ELSE l - 1 + 1
      BY <3>1, FS_Interval
    <3>3. Cardinality(1 .. l) = l
      BY <3>1, <3>2
    <3> QED BY <3>3 DEF l
  <2>7. Cardinality(Due) = m - 1
    BY <2>5, <2>6
  <2>8. m - 1 \in 0 .. Len(evs) /\ (m - 1 > 0 => evs[m - 1].ts <= T) /\ evs[m].ts >= T /\ m - 1 + 1 = m
    BY <1>1, <1>2, <2>3, <2>4
  <2> QED BY <2>7, <2>8
<1> QED BY <1>3, <1>4

(* To process events changes the size at most.                             *)
LEMMA SteppedIs ==
    ASSUME NEW v \in Player, NEW target \in 0 .. Len(v.evs)
    PROVE  LET w == Stepped(v, target)
           IN  /\ w \in Player /\ w.evs = v.evs /\ w.pos = v.pos /\ w.playing = v.playing
               /\ w.idx = target /\ w.kind = "replay"
<1> DEFINE resizes == {i \in 1 .. target : v.evs[i].resize # None}
           z == IF resizes = {} THEN v.size ELSE v.evs[Max(resizes)].resize
<1>1. v.evs \in Seq(Event) /\ Len(v.evs) \in Nat /\ v.size \in Size /\ v.kind = "replay"
  BY DEF Player
<1>2. target \in Nat /\ resizes \subseteq Nat /\ \A i \in resizes : i <= target
  BY <1>1
<1>3. z \in Size
  <2>1. CASE resizes = {}
    BY <1>1, <2>1
  <2>2. CASE resizes # {}
    <3>1. Max(resizes) \in resizes
      BY <1>2, <2>2, MaxOf
    <3>2. Max(resizes) \in 1 .. Len(v.evs) /\ v.evs[Max(resizes)].resize # None
      BY <1>1, <3>1
    <3>3. v.evs[Max(resizes)] \in Event
      <4>1. \A i \in 1 .. Len(v.evs) : v.evs[i] \in Event
        BY <1>1
      <4> QED BY <3>2, <4>1
    <3> QED BY <2>2, <3>2, <3>3 DEF Event
  <2> QED BY <2>1, <2>2
<1>4. Stepped(v, target) = [v EXCEPT !.idx = target, !.size = z]
  BY DEF Stepped
<1> HIDE DEF z, resizes
<1> QED BY <1>1, <1>2, <1>3, <1>4 DEF Player

LEMMA FromIs ==
    ASSUME NEW v \in Player, NEW backwards \in BOOLEAN
    PROVE  LET w == From(v, backwards)
           IN  w \in Player /\ w.evs = v.evs /\ w.pos = v.pos /\ w.playing = v.playing
  BY DEF From, Restarted, Player

LEMMA SeekIndex ==
    ASSUME NEW v, PlayerOK(v), NEW i \in Nat
    PROVE  LET w == seek_to_index(v, i)
           IN  /\ PlayerOK(w) /\ w.evs = v.evs
               /\ i = 0 => w.idx = 0
<1> DEFINE target == Min({i, Len(v.evs)})
           u == From(v, target < v.idx)
<1>1. v \in Player /\ Len(v.evs) \in Nat
  BY DEF PlayerOK, Player
<1>2. target \in 0 .. Len(v.evs) /\ (i = 0 => target = 0)
  <2>1. \E x \in {i, Len(v.evs)} : \A y \in {i, Len(v.evs)} : x <= y
    BY <1>1
  <2>2. target \in {i, Len(v.evs)} /\ \A y \in {i, Len(v.evs)} : target <= y
    BY <2>1 DEF Min
  <2> QED BY <1>1, <2>2
<1> HIDE DEF target
<1>3. u \in Player /\ u.evs = v.evs
  <2>1. (target < v.idx) \in BOOLEAN
    OBVIOUS
  <2> QED BY <1>1, <2>1, FromIs
<1> HIDE DEF u
<1>4. LET w == Stepped(u, target) IN w \in Player /\ w.evs = v.evs /\ w.idx = target
  BY <1>2, <1>3, SteppedIs
<1>5. seek_to_index(v, i) = Stepped(u, target)
  BY DEF seek_to_index, target, u
<1> QED BY <1>2, <1>4, <1>5 DEF PlayerOK

LEMMA SeekTime ==
    ASSUME NEW v, PlayerOK(v), NEW ts \in Nat
    PROVE  LET w == seek_to_timestamp(v, ts)
           IN  /\ PlayerOK(w) /\ w.evs = v.evs /\ w.pos = v.pos
               /\ w.idx > 0 => w.evs[w.idx].ts <= ts
               /\ w.idx < Len(w.evs) => w.evs[w.idx + 1].ts >= ts
<1> DEFINE back == v.idx > 0 /\ v.evs[v.idx].ts > ts
           target == Cardinality({i \in DOMAIN v.evs : v.evs[i].ts <= ts})
           u == From(v, back)
<1>1. v \in Player /\ v.evs \in Seq(Event) /\ InOrder(v.evs)
  BY DEF PlayerOK, Player
<1>2. /\ target \in 0 .. Len(v.evs)
      /\ target > 0 => v.evs[target].ts <= ts
      /\ target < Len(v.evs) => v.evs[target + 1].ts >= ts
  BY <1>1, CountIs
<1>3. seek_to_timestamp(v, ts) = Stepped(u, target)
  BY DEF seek_to_timestamp
<1> HIDE DEF target
<1>4. u \in Player /\ u.evs = v.evs /\ u.pos = v.pos
  <2>1. back \in BOOLEAN
    OBVIOUS
  <2> HIDE DEF back
  <2> QED BY <1>1, <2>1, FromIs
<1> HIDE DEF u
<1>5. LET w == Stepped(u, target)
      IN  w \in Player /\ w.evs = v.evs /\ w.idx = target /\ w.pos = v.pos
  BY <1>2, <1>4, SteppedIs
<1> QED BY <1>1, <1>2, <1>3, <1>5 DEF PlayerOK
LEMMA BaseIs ==
    ASSUME NEW v, PlayerOK(v)
    PROVE  /\ Base(v) \in Nat
           /\ v.evs # <<>> => Base(v) = v.evs[1].ts
           /\ \A i \in 1 .. Len(v.evs) : v.evs[i].ts \in Nat /\ Base(v) <= v.evs[i].ts
<1>1. v.evs \in Seq(Event) /\ InOrder(v.evs)
  BY DEF PlayerOK, Player
<1>2. Len(v.evs) \in Nat /\ DOMAIN v.evs = 1 .. Len(v.evs) /\ (v.evs # <<>> => 1 \in 1 .. Len(v.evs))
  BY <1>1
<1>3. \A i \in 1 .. Len(v.evs) : v.evs[i].ts \in Nat
  BY <1>1, TimesOfEvents
<1>4. \A i \in 1 .. Len(v.evs) : v.evs # <<>> /\ (i = 1 \/ 1 < i)
  BY <1>1
<1>5. \A i \in 1 .. Len(v.evs) : v.evs[1].ts <= v.evs[i].ts
  BY <1>1, <1>2, <1>3, <1>4 DEF InOrder
<1> QED BY <1>2, <1>3, <1>4, <1>5 DEF Base

LEMMA SameBase ==
    ASSUME NEW v, NEW w, w.evs = v.evs
    PROVE  Base(w) = Base(v)
  BY DEF Base

(* A step or a jump leaves the time at the event last processed.           *)
LEMMA StepToIs ==
    ASSUME NEW v, PlayerOK(v), NEW i \in Nat
    PROVE  LET w == StepTo(v, i)
           IN  /\ PlayerOK(w) /\ PlaceAgrees(w)
               /\ i = 0 => w.idx = 0
<1> DEFINE u == seek_to_index(v, i)
           pos == Sub(current_timestamp(u), Base(u))
           w == [u EXCEPT !.playing = FALSE, !.pos = pos]
<1>1. PlayerOK(u) /\ (i = 0 => u.idx = 0)
  BY SeekIndex
<1>2. StepTo(v, i) = w
  BY DEF StepTo
<1> HIDE DEF u
<1>3. /\ u \in Player /\ u.evs \in Seq(Event) /\ InOrder(u.evs)
      /\ u.idx \in 0 .. Len(u.evs) /\ Len(u.evs) \in Nat /\ DOMAIN u.evs = 1 .. Len(u.evs)
  BY <1>1 DEF PlayerOK, Player
<1>4. /\ Base(u) \in Nat
      /\ u.evs # <<>> => Base(u) = u.evs[1].ts
      /\ \A k \in 1 .. Len(u.evs) : u.evs[k].ts \in Nat /\ Base(u) <= u.evs[k].ts
  BY <1>1, BaseIs
<1>5. /\ pos \in Nat
      /\ u.idx > 0 => Base(u) + pos = u.evs[u.idx].ts
      /\ u.idx = 0 => pos = 0
  <2>1. CASE u.idx = 0
    BY <1>4, <2>1 DEF Sub, current_timestamp
  <2>2. CASE u.idx # 0
    <3>1. u.idx \in 1 .. Len(u.evs)
      BY <1>3, <2>2
    <3>2. current_timestamp(u) = u.evs[u.idx].ts
      BY <2>2 DEF current_timestamp
    <3>3. u.evs[u.idx].ts \in Nat /\ Base(u) <= u.evs[u.idx].ts
      BY <1>4, <3>1
    <3> QED BY <1>4, <2>2, <3>2, <3>3 DEF Sub
  <2> QED BY <2>1, <2>2
<1> HIDE DEF pos
<1>6. w \in Player /\ w.evs = u.evs /\ w.idx = u.idx /\ w.pos = pos
  BY <1>3, <1>5 DEF Player
<1>7. Base(w) = Base(u)
  BY <1>6, SameBase
<1> HIDE DEF w
<1>8. PlayerOK(w)
  BY <1>3, <1>6 DEF PlayerOK
<1>9. PlaceAgrees(w)
  <2>1. CASE u.idx = 0
    <3>1. u.idx < Len(u.evs) => u.evs # <<>> /\ 1 \in 1 .. Len(u.evs)
      BY <1>3
    <3> QED BY <1>4, <1>5, <1>6, <1>7, <2>1, <3>1 DEF PlaceAgrees
  <2>2. CASE u.idx # 0
    <3>1. u.idx > 0 /\ u.idx \in 1 .. Len(u.evs)
      BY <1>3, <2>2
    <3>2. u.idx < Len(u.evs) => u.idx + 1 \in 1 .. Len(u.evs) /\ u.idx < u.idx + 1
      BY <1>3
    <3>3. u.idx < Len(u.evs) => u.evs[u.idx].ts <= u.evs[u.idx + 1].ts
      BY <1>3, <3>1, <3>2 DEF InOrder
    <3>4. u.evs[u.idx].ts \in Nat
      BY <1>4, <3>1
    <3>5. u.idx < Len(u.evs) => u.evs[u.idx + 1].ts \in Nat
      BY <1>4, <3>2
    <3> QED BY <1>5, <1>6, <1>7, <3>1, <3>3, <3>4, <3>5 DEF PlaceAgrees
  <2> QED BY <2>1, <2>2
<1> QED BY <1>1, <1>2, <1>6, <1>8, <1>9

(* The time that passes takes along the events up to it.                   *)
LEMMA TickIs ==
    ASSUME NEW v, PlayerOK(v), NEW ms \in Nat
    PROVE  LET w == AtEnd(seek_to_timestamp([v EXCEPT !.pos = @ + ms], Base(v) + v.pos + ms))
           IN  PlayerOK(w) /\ PlaceAgrees(w)
<1> DEFINE u == [v EXCEPT !.pos = @ + ms]
           T == Base(v) + v.pos + ms
           x == seek_to_timestamp(u, T)
           w == AtEnd(x)
<1>1. v \in Player /\ v.pos \in Nat
  BY DEF PlayerOK, Player
<1>2. u \in Player /\ u.evs = v.evs /\ u.idx = v.idx /\ u.pos = v.pos + ms
  BY <1>1 DEF Player
<1>3. PlayerOK(u)
  BY <1>2 DEF PlayerOK
<1>4. Base(v) \in Nat
  BY BaseIs
<1>5. T \in Nat
  BY <1>1, <1>4
<1> HIDE DEF u
<1>6. /\ PlayerOK(x) /\ x.evs = u.evs /\ x.pos = u.pos
      /\ x.idx > 0 => x.evs[x.idx].ts <= T
      /\ x.idx < Len(x.evs) => x.evs[x.idx + 1].ts >= T
  BY <1>3, <1>5, SeekTime
<1> HIDE DEF x
<1>7. T = Base(v) + u.pos
  BY <1>1, <1>2, <1>4
<1>8. w \in Player /\ w.evs = x.evs /\ w.pos = x.pos /\ w.idx = x.idx
  BY <1>6 DEF AtEnd, PlayerOK, Player
<1>9. Base(w) = Base(v)
  BY <1>2, <1>6, <1>8, SameBase
<1> HIDE DEF w, T
<1>10. PlayerOK(w) /\ PlaceAgrees(w)
  BY <1>6, <1>7, <1>8, <1>9 DEF PlayerOK, PlaceAgrees
<1> QED BY <1>10 DEF w, x, u, T

LEMMA OpenedIs ==
    ASSUME LogOK, NEW entry \in Entry
    PROVE  PlayerOK(Opened(entry)) /\ PlaceAgrees(Opened(entry))
<1> DEFINE v == Opened(entry)
           evs == Load(entry)
<1>1. evs \in Seq(Event) /\ InOrder(evs) /\ Len(evs) \in Nat
  BY LoadIs
<1>2. entry.size \in Size
  BY DEF Entry
<1> HIDE DEF evs
<1>3. v \in Player /\ v.evs = evs /\ v.idx = 0 /\ v.pos = 0
  BY <1>1, <1>2 DEF Opened, Player, evs
<1> HIDE DEF v
<1>4. PlayerOK(v)
  BY <1>1, <1>3 DEF PlayerOK
<1>5. v.idx < Len(v.evs) => v.evs # <<>> /\ Base(v) = v.evs[1].ts
  BY <1>1, <1>3, <1>4, BaseIs
<1>6. Base(v) \in Nat
  BY <1>4, BaseIs
<1>7. PlaceAgrees(v)
  BY <1>1, <1>3, <1>5, <1>6 DEF PlaceAgrees
<1> QED BY <1>4, <1>7 DEF v

-----------------------------------------------------------------------------
(* Every step keeps the inductive invariant *)

LEMMA ListTyped ==
    ASSUME ConstantsOk, LogOK, TablesOK
    PROVE  build_session_list \subseteq Entry
<1>1. DefaultSize \in Size /\ {"pid", "range"} = {"range", "pid"}
  BY DEF ConstantsOk
<1>2. ASSUME NEW s \in Sid, NEW p \in Pid, NEW from \in Nat, NEW to \in Nat, NEW by \in {"pid", "range"}
      PROVE  Orphan(s, p, from, to, by) \in Entry
  BY <1>1 DEF Orphan, Entry
<1>3. ASSUME NEW s \in Sid, rows[s] # None
      PROVE  [sid |-> s, pid |-> rows[s].pid, size |-> rows[s].size,
              from |-> rows[s].started, to |-> rows[s].ended, by |-> "pid"] \in Entry
  <2>1. rows[s] \in Row
    BY <1>3 DEF TablesOK
  <2> QED BY <2>1 DEF Row, Entry
<1>4. list_sessions \subseteq Entry
  BY <1>3 DEF list_sessions
<1>5. ASSUME NEW o \in list_orphan_session_ids
      PROVE  /\ o[2] # None => infer_session_info(o[1], o[2]) \in Entry
             /\ split_null_pid_orphan_into_chunks(o[1]) \subseteq Entry
  <2>1. PICK i \in DOMAIN events : o = <<events[i].sid, events[i].pid>>
    BY DEF list_orphan_session_ids, WithEvents
  <2>2. o[1] = events[i].sid /\ o[2] = events[i].pid /\ o[1] \in Sid /\ o[2] \in Pid
    BY <2>1, EventIs
  <2>3. infer_session_info(o[1], o[2]) \in Entry
    <3> DEFINE places == query_events_with_pid(o[1], o[2])
               ts == TimesOf(places)
    <3>1. i \in places /\ places \in SUBSET DOMAIN events
      BY <2>2 DEF query_events_with_pid, OfSession
    <3> HIDE DEF places
    <3>2. ts \subseteq Nat /\ (\A t \in ts : t <= now) /\ now \in Nat
      BY <3>1, TimesAre
    <3>3. ts # {}
      BY <3>1 DEF TimesOf
    <3> HIDE DEF ts
    <3>4. Min(ts) \in Nat /\ Max(ts) \in Nat
      BY <3>2, <3>3, MinOf, MaxOf
    <3>5. Orphan(o[1], o[2], Min(ts), Max(ts), "pid") \in Entry
      BY <1>2, <2>2, <3>4
    <3> QED BY <3>5 DEF infer_session_info, ts, places
  <2>4. ASSUME NEW t \in Starts(TimesWithout(o[1]))
        PROVE  ChunkEntry(o[1], t) \in Entry
    <3>1. /\ TimesWithout(o[1]) \in SUBSET Nat /\ now \in Nat
          /\ \A u \in TimesWithout(o[1]) : u <= now
      BY TimesWithoutAre
    <3>2. t \in Nat /\ Max(Chunk(TimesWithout(o[1]), t)) \in Chunk(TimesWithout(o[1]), t)
      BY <3>1, ChunkIs
    <3>3. Max(Chunk(TimesWithout(o[1]), t)) \in Nat /\ None \in Pid
      BY <3>1, <3>2 DEF Chunk, Pid
    <3> QED BY <1>2, <2>2, <3>2, <3>3 DEF ChunkEntry
  <2>5. split_null_pid_orphan_into_chunks(o[1]) \subseteq Entry
    BY <2>4 DEF split_null_pid_orphan_into_chunks, ChunkEntry, TimesWithout
  <2> QED BY <2>3, <2>5
<1>6. list_orphan_session_chunks \subseteq Entry
  BY <1>5 DEF list_orphan_session_chunks
<1> QED BY <1>4, <1>6 DEF build_session_list

LEMMA NotReplaying == Closed.kind # "replay" /\ Listing.kind # "replay"
  BY DEF Closed, Listing

LEMMA RecordingAtFirst ==
    ASSUME ConstantsOk, Init
    PROVE  RecordingInductive
<1>1. PICK s \in Sid, ts \in Legacy :
          /\ events = [i \in DOMAIN ts |-> [sid |-> s, pid |-> None, resize |-> None, ts |-> ts[i]]]
          /\ rows \in [Sid -> {None, [pid |-> None, size |-> DefaultSize, started |-> 0, ended |-> None]}]
          /\ \A t \in Sid : rows[t] # None => t = s /\ ts # <<>>
          /\ now \in 0 .. MaxTime /\ \A i \in DOMAIN ts : ts[i] <= now
  BY DEF Init
<1>2. ts \in Seq(0 .. MaxTime) /\ InTime(ts) /\ MaxTime \in Nat /\ MaxKeys \in Nat /\ DefaultSize \in Size
  BY DEF ConstantsOk
<1>3. LogOK
  <2>1. Len(ts) \in Nat /\ DOMAIN ts = 1 .. Len(ts) /\ \A i \in 1 .. Len(ts) : ts[i] \in Nat
    BY <1>2
  <2>2. \A i \in 1 .. Len(ts) :
            [sid |-> s, pid |-> None, resize |-> None, ts |-> ts[i]] \in Event
    BY <2>1 DEF Event, Pid
  <2>3. /\ events = [i \in 1 .. Len(ts) |-> [sid |-> s, pid |-> None, resize |-> None, ts |-> ts[i]]]
        /\ DOMAIN events = 1 .. Len(ts)
        /\ \A i \in 1 .. Len(ts) : events[i].ts = ts[i]
    BY <1>1, <2>1
  <2>4. events \in Seq(Event)
    BY <2>1, <2>2, <2>3, SeqDef
  <2>5. InOrder(events)
    BY <1>2, <2>1, <2>3 DEF InOrder, InTime
  <2> QED BY <1>1, <2>1, <2>3, <2>4, <2>5 DEF LogOK
<1>4. TablesOK
  <2>1. [pid |-> None, size |-> DefaultSize, started |-> 0, ended |-> None] \in Row
    BY <1>2 DEF Row, Pid
  <2>2. rows \in [Sid -> {None} \cup Row]
    BY <1>1, <2>1
  <2>3. session = [p \in Process |-> [t \in Sid |-> NotYet]]
    BY DEF Init
  <2>4. NotYet \in Own /\ NotYet.state # "live"
    BY DEF NotYet, Own
  <2> QED BY <2>2, <2>3, <2>4 DEF TablesOK
<1>5. ViewOK
  <2>1. list = {} /\ view = Closed /\ keys = 0
    BY DEF Init
  <2> QED BY <1>2, <2>1, NotReplaying DEF ViewOK, Replaying
<1> QED BY <1>3, <1>4, <1>5 DEF RecordingInductive

(* What a step leaves alone.                                               *)
LEMMA LogStays == LogOK /\ UNCHANGED <<now, events>> => LogOK'
  BY DEF LogOK, InOrder
LEMMA TablesStay == TablesOK /\ UNCHANGED <<rows, session>> => TablesOK'
  BY DEF TablesOK
LEMMA PlaybackStays ==
    ASSUME ViewOK, UNCHANGED <<list, view>>, keys' \in 0 .. MaxKeys
    PROVE  ViewOK'
  BY DEF ViewOK, Replaying, PlayerOK, PlaceAgrees, InOrder, Base

LEMMA BesideIs ==
    ASSUME ViewOK, MaxKeys \in Nat, Beside
    PROVE  keys' \in 0 .. MaxKeys
  BY DEF ViewOK, Beside

LEMMA TimePasses ==
    ASSUME RecordingInductive, ConstantsOk, Clock
    PROVE  RecordingInductive'
<1>1. now' = now + 1 /\ now < MaxTime /\ MaxTime \in Nat /\ MaxKeys \in Nat
  BY DEF Clock, ConstantsOk
<1>2. LogOK'
  <2>1. events' = events /\ events \in Seq(Event) /\ now \in Nat
    BY DEF Clock, RecordingInductive, LogOK
  <2>2. \A i \in DOMAIN events : events[i].ts \in Nat /\ events[i].ts <= now
    BY EventIs DEF RecordingInductive
  <2>3. \A i \in DOMAIN events : events[i].ts <= now'
    BY <1>1, <2>1, <2>2
  <2>4. now' \in 0 .. MaxTime
    BY <1>1, <2>1
  <2>5. InOrder(events)
    BY DEF RecordingInductive, LogOK
  <2> QED BY <2>1, <2>3, <2>4, <2>5 DEF LogOK, InOrder
<1>3. TablesOK' /\ ViewOK'
  <2>1. UNCHANGED <<rows, session, list, view>> /\ Beside
    BY DEF Clock
  <2> QED BY <1>1, <2>1, TablesStay, PlaybackStays, BesideIs DEF RecordingInductive
<1> QED BY <1>2, <1>3 DEF RecordingInductive

(* An event goes to the end of the table, with the time of the now.      *)
LEMMA Logged ==
    ASSUME LogOK, NEW p \in Process, NEW s \in Sid, NEW z \in {None} \cup Size,
           log_event(p, s, z), UNCHANGED now
    PROVE  LogOK'
<1> DEFINE e == [sid |-> s, pid |-> p, resize |-> z, ts |-> now]
<1>1. events' = Append(events, e) /\ events \in Seq(Event) /\ now \in Nat
  BY DEF log_event, LogOK
<1>2. e \in Event
  BY <1>1 DEF Event, Pid
<1>3. e.ts = now
  OBVIOUS
<1> HIDE DEF e
<1>4. /\ events' \in Seq(Event) /\ Len(events) \in Nat /\ Len(events') = Len(events) + 1
      /\ events'[Len(events) + 1] = e /\ \A i \in 1 .. Len(events) : events'[i] = events[i]
  BY <1>1, <1>2
<1>5. DOMAIN events = 1 .. Len(events) /\ DOMAIN events' = 1 .. Len(events) + 1
  BY <1>1, <1>4
<1>6. \A i \in 1 .. Len(events) + 1 : i \in 1 .. Len(events) \/ i = Len(events) + 1
  BY <1>4
<1>7. \A i \in 1 .. Len(events) : events[i].ts <= now
  BY <1>5 DEF LogOK
<1>8. \A i \in 1 .. Len(events) + 1 : events'[i].ts <= now
  BY <1>1, <1>3, <1>4, <1>6, <1>7
<1>9. InOrder(events')
  <2> SUFFICES ASSUME NEW i \in 1 .. Len(events) + 1, NEW j \in 1 .. Len(events) + 1, i < j
               PROVE  events'[i].ts <= events'[j].ts
    BY <1>5 DEF InOrder
  <2>1. i \in 1 .. Len(events)
    BY <1>4
  <2>2. CASE j \in 1 .. Len(events)
    <3>1. events[i].ts <= events[j].ts
      BY <1>5, <2>1, <2>2 DEF LogOK, InOrder
    <3> QED BY <1>4, <2>1, <2>2, <3>1
  <2>3. CASE j = Len(events) + 1
    BY <1>3, <1>4, <1>7, <2>1, <2>3
  <2> QED BY <1>6, <2>2, <2>3
<1> QED BY <1>4, <1>5, <1>8, <1>9 DEF LogOK, InOrder

LEMMA OwnIs ==
    ASSUME TablesOK, NEW p \in Process, NEW s \in Sid, NEW o \in Own,
           o.state = "live" => o.size \in Size,
           session' = [session EXCEPT ![p][s] = o], UNCHANGED rows
    PROVE  TablesOK'
  BY DEF TablesOK

LEMMA Recorded ==
    ASSUME RecordingInductive, ConstantsOk, Beside, NEW p \in Process, NEW s \in Sid, Records(p, s)
    PROVE  RecordingInductive'
<1>1. /\ LogOK /\ TablesOK /\ ViewOK
      /\ MaxKeys \in Nat /\ LaunchSize \in Size
  BY DEF RecordingInductive, ConstantsOk
<1>2. UNCHANGED <<list, view, now>>
  BY DEF Records, Launch, log_session_start_with_dir, LoopPumps, Resize, Exit
<1>3. ViewOK'
  BY <1>1, <1>2, BesideIs, PlaybackStays
<1>4. session[p][s] \in Own
  BY <1>1 DEF TablesOK
<1>5. CASE Launch(p, s)
  <2>1. PICK registers \in BOOLEAN :
            session' = [session EXCEPT ![p][s] = [state |-> "live", size |-> LaunchSize, due |-> registers]]
    BY <1>5 DEF Launch
  <2>2. [state |-> "live", size |-> LaunchSize, due |-> registers] \in Own
    BY <1>1 DEF Own
  <2>3. UNCHANGED <<rows, events>>
    BY <1>5 DEF Launch
  <2>4. TablesOK'
    BY <1>1, <2>1, <2>2, <2>3, OwnIs
  <2> QED BY <1>1, <1>2, <1>3, <2>3, <2>4, LogStays DEF RecordingInductive
<1>6. CASE log_session_start_with_dir(p, s)
  <2> DEFINE row == [pid |-> p, size |-> Has(p, s).size, started |-> now, ended |-> None]
  <2>1. /\ Live(p, s) /\ session' = [session EXCEPT ![p][s].due = FALSE]
        /\ rows' = [rows EXCEPT ![s] = row] /\ UNCHANGED events
    BY <1>6 DEF log_session_start_with_dir
  <2>2. row \in Row
    <3>1. Has(p, s).size \in Size
      BY <1>1, <2>1 DEF Live, Has, TablesOK
    <3>2. now \in Nat
      BY <1>1 DEF LogOK
    <3> QED BY <3>1, <3>2 DEF Row, Pid
  <2> HIDE DEF row
  <2>3. rows' \in [Sid -> {None} \cup Row]
    BY <1>1, <2>1, <2>2 DEF TablesOK
  <2>4. /\ session' \in [Process -> [Sid -> Own]]
        /\ \A q \in Process, t \in Sid : session'[q][t].state = "live" => session'[q][t].size \in Size
    BY <1>1, <1>4, <2>1 DEF TablesOK, Own
  <2>5. TablesOK'
    BY <2>3, <2>4 DEF TablesOK
  <2> QED BY <1>1, <1>2, <1>3, <2>1, <2>5, LogStays DEF RecordingInductive
<1>7. CASE LoopPumps(p, s)
  <2>1. log_event(p, s, None) /\ UNCHANGED <<rows, session>>
    BY <1>7 DEF LoopPumps
  <2> QED BY <1>1, <1>2, <1>3, <2>1, Logged, TablesStay DEF RecordingInductive
<1>8. CASE Resize(p, s)
  <2>1. PICK z \in Size :
            session' = [session EXCEPT ![p][s].size = z] /\ log_event(p, s, z)
    BY <1>8 DEF Resize
  <2>2. UNCHANGED rows
    BY <1>8 DEF Resize
  <2>3. TablesOK'
    <3>1. [session[p][s] EXCEPT !.size = z] \in Own
      BY <1>4 DEF Own
    <3> QED BY <1>1, <1>4, <2>1, <2>2, <3>1 DEF TablesOK, Own
  <2> QED BY <1>1, <1>2, <1>3, <2>1, <2>3, Logged DEF RecordingInductive
<1>9. CASE Exit(p, s)
  <2>1. session' = [session EXCEPT ![p][s].state = "over"] /\ UNCHANGED events
    BY <1>9 DEF Exit
  <2>2. /\ session' \in [Process -> [Sid -> Own]]
        /\ \A q \in Process, t \in Sid : session'[q][t].state = "live" => session'[q][t].size \in Size
    BY <1>1, <1>4, <2>1 DEF TablesOK, Own
  <2>3. rows' \in [Sid -> {None} \cup Row]
    <3>1. CASE UNCHANGED rows
      BY <1>1, <3>1 DEF TablesOK
    <3>2. CASE log_session_end(s)
      <4>1. CASE rows[s] = None
        BY <1>1, <3>2, <4>1 DEF TablesOK, log_session_end
      <4>2. CASE rows[s] # None
        <5>1. rows[s] \in Row /\ now \in Nat
          BY <1>1, <4>2 DEF TablesOK, LogOK
        <5>2. [rows[s] EXCEPT !.ended = now] \in Row
          BY <5>1 DEF Row
        <5>3. rows' = [rows EXCEPT ![s] = [rows[s] EXCEPT !.ended = now]]
          BY <1>1, <3>2, <4>2 DEF log_session_end, TablesOK
        <5> QED BY <1>1, <5>2, <5>3 DEF TablesOK
      <4> QED BY <4>1, <4>2
    <3> QED BY <1>9, <3>1, <3>2 DEF Exit
  <2>4. TablesOK'
    BY <2>2, <2>3 DEF TablesOK
  <2> QED BY <1>1, <1>2, <1>3, <2>1, <2>4, LogStays DEF RecordingInductive
<1> QED BY <1>5, <1>6, <1>7, <1>8, <1>9 DEF Records

(* The replayer only reads what was recorded.                              *)
LEMMA Viewed ==
    ASSUME RecordingInductive, ConstantsOk, UNCHANGED <<now, events, rows, session>>,
           list' \subseteq Entry, keys' \in 0 .. MaxKeys,
           \/ view' \in {Closed, Listing}
           \/ PlayerOK(view') /\ PlaceAgrees(view')
    PROVE  RecordingInductive'
<1>1. LogOK' /\ TablesOK'
  BY LogStays, TablesStay DEF RecordingInductive
<1>2. CASE view' \in {Closed, Listing}
  <2>1. view'.kind # "replay"
    BY <1>2, NotReplaying
  <2>2. view' \in {Closed, Listing} \cup Player
    BY <1>2
  <2> QED BY <1>1, <2>1, <2>2 DEF RecordingInductive, ViewOK, Replaying
<1>3. CASE PlayerOK(view') /\ PlaceAgrees(view')
  <2>1. view' \in {Closed, Listing} \cup Player
    BY <1>3 DEF PlayerOK
  <2>2. ViewOK'
    BY <1>3, <2>1 DEF ViewOK, PlayerOK, PlaceAgrees, InOrder, Base
  <2> QED BY <1>1, <2>2 DEF RecordingInductive
<1> QED BY <1>2, <1>3

LEMMA PlayerNow ==
    ASSUME RecordingInductive, Replaying
    PROVE  /\ PlayerOK(view) /\ PlaceAgrees(view)
           /\ view \in Player /\ view.idx \in Nat /\ Len(view.evs) \in Nat
<1>1. PlayerOK(view) /\ PlaceAgrees(view)
  BY DEF RecordingInductive, ViewOK
<1> QED BY <1>1 DEF PlayerOK, Player

LEMMA Turned ==
    ASSUME RecordingInductive, ConstantsOk, NEW v, Key(v),
           \/ v = Listing
           \/ PlayerOK(v) /\ PlaceAgrees(v)
    PROVE  RecordingInductive'
<1>1. /\ view' = v /\ UNCHANGED <<now, events, rows, session, list>>
      /\ keys < MaxKeys /\ keys' = keys + 1
  BY DEF Key
<1>2. list' \subseteq Entry /\ keys' \in 0 .. MaxKeys
  BY <1>1 DEF RecordingInductive, ViewOK, ConstantsOk
<1> QED BY <1>1, <1>2, Viewed

LEMMA KeyPressed ==
    ASSUME RecordingInductive, ConstantsOk,
           \/ Back \/ PlayPause \/ Forward \/ Backward \/ Home \/ End
    PROVE  RecordingInductive'
<1>1. CASE Back
  BY <1>1, Turned DEF Back
<1>2. CASE PlayPause
  <2> DEFINE v == [view EXCEPT !.playing = ~@]
  <2>1. Key(v)
    BY <1>2 DEF PlayPause
  <2>2. PlayerOK(view) /\ PlaceAgrees(view) /\ view \in Player
    BY <2>1, PlayerNow DEF Key
  <2>3. v \in Player /\ v.evs = view.evs /\ v.idx = view.idx /\ v.pos = view.pos
    BY <2>2 DEF Player
  <2> HIDE DEF v
  <2>4. PlayerOK(v) /\ PlaceAgrees(v)
    BY <2>2, <2>3, SameBase DEF PlayerOK, PlaceAgrees
  <2> QED BY <2>1, <2>4, Turned
<1>3. ASSUME NEW i \in Nat, Key(StepTo(view, i)), Replaying
      PROVE  RecordingInductive'
  <2>1. PlayerOK(StepTo(view, i)) /\ PlaceAgrees(StepTo(view, i))
    BY <1>3, PlayerNow, StepToIs
  <2> QED BY <1>3, <2>1, Turned
<1>4. CASE Forward
  <2>1. PICK n \in {1, 10} : Key(StepTo(view, view.idx + n))
    BY <1>4 DEF Forward
  <2>2. Replaying /\ view.idx + n \in Nat
    BY <2>1, PlayerNow DEF Key
  <2> QED BY <1>3, <2>1, <2>2
<1>5. CASE Backward
  <2>1. PICK n \in {1, 10} : Key(StepTo(view, Sub(view.idx, n)))
    BY <1>5 DEF Backward
  <2>2. Replaying /\ Sub(view.idx, n) \in Nat
    BY <2>1, PlayerNow DEF Key, Sub
  <2> QED BY <1>3, <2>1, <2>2
<1>6. CASE End
  <2>1. Key(StepTo(view, Len(view.evs)))
    BY <1>6 DEF End
  <2>2. Replaying /\ Len(view.evs) \in Nat
    BY <2>1, PlayerNow DEF Key
  <2> QED BY <1>3, <2>1, <2>2
<1>7. CASE Home
  <2> DEFINE u == StepTo(view, 0)
             v == [u EXCEPT !.pos = 0]
  <2>1. Key(v)
    BY <1>7 DEF Home
  <2>2. PlayerOK(u) /\ u.idx = 0 /\ u \in Player
    <3>1. PlayerOK(view)
      BY <2>1, PlayerNow DEF Key
    <3> QED BY <3>1, StepToIs DEF PlayerOK
  <2> HIDE DEF u
  <2>3. v \in Player /\ v.evs = u.evs /\ v.idx = 0 /\ v.pos = 0
    BY <2>2 DEF Player
  <2> HIDE DEF v
  <2>4. PlayerOK(v)
    BY <2>2, <2>3 DEF PlayerOK
  <2>5. /\ Base(v) \in Nat /\ Len(v.evs) \in Nat /\ v.evs \in Seq(Event)
        /\ v.evs # <<>> => Base(v) = v.evs[1].ts
    BY <2>3, <2>4, BaseIs DEF Player
  <2>6. v.idx < Len(v.evs) => v.evs # <<>>
    BY <2>3, <2>5
  <2>7. PlaceAgrees(v)
    BY <2>3, <2>5, <2>6 DEF PlaceAgrees
  <2> QED BY <2>1, <2>4, <2>7, Turned
<1> QED BY <1>1, <1>2, <1>4, <1>5, <1>6, <1>7

LEMMA ListedOrPlayed ==
    ASSUME RecordingInductive, ConstantsOk,
           \/ run_replay \/ open_entry \/ Tick
    PROVE  RecordingInductive'
<1>1. LogOK /\ TablesOK /\ list \subseteq Entry /\ keys \in 0 .. MaxKeys
  BY DEF RecordingInductive, ViewOK
<1>2. CASE run_replay
  <2>1. /\ view' = Listing /\ list' = build_session_list
        /\ UNCHANGED <<now, events, rows, session, keys>>
    BY <1>2 DEF run_replay
  <2> QED BY <1>1, <2>1, ListTyped, Viewed
<1>3. CASE open_entry
  <2>1. PICK entry \in list : view' = Opened(entry)
    BY <1>3 DEF open_entry
  <2>2. UNCHANGED <<now, events, rows, session, list, keys>>
    BY <1>3 DEF open_entry
  <2>3. PlayerOK(view') /\ PlaceAgrees(view')
    BY <1>1, <2>1, OpenedIs
  <2> QED BY <1>1, <2>2, <2>3, Viewed
<1>4. CASE Tick
  <2>1. PICK ms \in 1 .. MaxAdvance :
            view' = AtEnd(seek_to_timestamp([view EXCEPT !.pos = @ + ms],
                                                    Base(view) + view.pos + ms))
    BY <1>4 DEF Tick
  <2>2. UNCHANGED <<now, events, rows, session, list, keys>> /\ Replaying
    BY <1>4 DEF Tick
  <2>3. ms \in Nat
    BY DEF ConstantsOk
  <2>4. PlayerOK(view)
    BY <2>2, PlayerNow
  <2>5. PlayerOK(view') /\ PlaceAgrees(view')
    BY <2>1, <2>3, <2>4, TickIs
  <2> QED BY <1>1, <2>2, <2>5, Viewed
<1> QED BY <1>2, <1>3, <1>4

LEMMA RecordingKept ==
    ASSUME RecordingInductive, ConstantsOk, [Next]_vars
    PROVE  RecordingInductive'
<1>1. CASE Clock
  BY <1>1, TimePasses
<1>2. CASE Beside /\ \E p \in Process, s \in Sid : Records(p, s)
  BY <1>2, Recorded
<1>3. CASE run_replay \/ open_entry \/ Tick
  BY <1>3, ListedOrPlayed
<1>4. CASE Back \/ PlayPause \/ Forward \/ Backward \/ Home \/ End
  BY <1>4, KeyPressed
<1>5. CASE UNCHANGED vars
  <2>1. UNCHANGED <<now, events, rows, session, list, view, keys>>
    BY <1>5 DEF vars
  <2>2. keys' \in 0 .. MaxKeys
    BY <2>1 DEF RecordingInductive, ViewOK
  <2> QED BY <2>1, <2>2, LogStays, TablesStay, PlaybackStays DEF RecordingInductive
<1> QED BY <1>1, <1>2, <1>3, <1>4, <1>5 DEF Next

(* Every event is in the list of recordings, once unless an old row claims *)
(* its whole session, and wherever the replayer is driven, the place it is *)
(* at and its playback time agree (sqlite.rs, replay_tui.rs).              *)
THEOREM RecordingsPlay == Spec \/ MCSpec => []RecordingInv
<1>1. Init => RecordingInductive
  BY RecordingAtFirst, RecordingAssumption
<1>2. RecordingInductive /\ [Next]_vars => RecordingInductive'
  BY RecordingKept, RecordingAssumption
<1>3. RecordingInductive => RecordingInv
  <2> SUFFICES ASSUME RecordingInductive PROVE RecordingInv
    OBVIOUS
  <2>1. ListedOnce
    BY Listed DEF RecordingInductive
  <2>2. PositionAgrees
    BY DEF RecordingInductive, ViewOK, PlaceAgrees, PositionAgrees
  <2>3. TypeOK
    BY DEF RecordingInductive, LogOK, TablesOK, ViewOK, PlayerOK, TypeOK
  <2> QED BY <2>1, <2>2, <2>3 DEF RecordingInv
<1>4. MCInit => Init
  BY DEF MCInit
<1>5. [MCNext]_<<part, vars, frames, selection>> => [Next]_vars
  BY DEF MCNext
<1> QED BY <1>1, <1>2, <1>3, <1>4, <1>5, PTL DEF Spec, MCSpec

-----------------------------------------------------------------------------
(* The inductive invariant of Frames *)

(* Nothing is marked and nothing is excepted.                              *)
Clean == ~dirty /\ ~flagged /\ missed = {}

(* In synchronised output, in which nothing can be drawn, something is     *)
(* marked: the help that is not taken away, or the display that is cleared *)
(* and not drawn, is drawn afterwards.                                     *)
SyncMarked == active \in sync => ~Clean

SessionsOK ==
    /\ total \in [Session -> Nat] /\ logged \in [Session -> Nat]
    /\ \A s \in Session : logged[s] <= total[s]
    /\ sync \subseteq Session /\ ended \subseteq Session
LoopOK ==
    /\ pinned \subseteq Session /\ active \in Session
    /\ shown \in 0 .. inputs /\ inputs \in 0 .. MaxInput
    /\ dirty \in BOOLEAN /\ flagged \in BOOLEAN
    /\ missed \subseteq {"read", "ended"}
    /\ first \in F!Age(Latency) /\ data \in F!Age(Debounce)
    /\ pending \in Session \cup {None}
    /\ pc \in {"poll", "input", "read", "render", "rest", "help", "end"}

FramesInductive == SessionsOK /\ LoopOK /\ F!ShownIsCurrent /\ SyncMarked

(* A frame is made of the sessions on display and of nothing else.         *)
LEMMA SameFrame ==
    ASSUME active' = active, pinned' = pinned, shown' = shown,
           \A s \in {active} \cup pinned : total'[s] = total[s]
    PROVE  F!Frame(active, FALSE)' = F!Frame(active, FALSE)
<1> DEFINE ids == F!compute_render_session_ids(active, pinned)
<1>1. ids = {active} \cup pinned /\ ids' = ids
  BY DEF F!compute_render_session_ids
<1>2. [s \in ids |-> total'[s]] = [s \in ids |-> total[s]]
  BY <1>1
<1> QED BY <1>1, <1>2 DEF F!Frame

(* Nothing that is active changes, and no mark is taken away.               *)
LEMMA NothingShown ==
    ASSUME FramesInductive,
           active' = active, pinned' = pinned, shown' = shown, frame' = frame,
           Clean' =>
               /\ Clean /\ (active \in sync' => active \in sync)
               /\ \A s \in {active} \cup pinned : total'[s] = total[s],
           pc = "help" <=> pc' = "help"
    PROVE  F!ShownIsCurrent' /\ SyncMarked'
<1> SUFFICES ASSUME Clean'
             PROVE  F!ShownIsCurrent' /\ SyncMarked'
  BY DEF F!ShownIsCurrent, SyncMarked, Clean
<1>1. F!Frame(active, FALSE)' = F!Frame(active, FALSE)
  BY SameFrame
<1> QED BY <1>1 DEF FramesInductive, F!ShownIsCurrent, SyncMarked, Clean

-----------------------------------------------------------------------------
(* What an action does to the parts of the state *)

(* Only the session that is read has more lines, and it is the one that    *)
(* enters or leaves synchronised output.                                   *)
LEMMA Pumped ==
    ASSUME SessionsOK, NEW s \in Session, NEW n \in 0 .. MaxLines, NEW on \in BOOLEAN,
           F!Pump(s, n, on), logged' = logged \/ logged' = [logged EXCEPT ![s] = @ + n]
    PROVE  /\ SessionsOK'
           /\ \A t \in Session \ {s} : total'[t] = total[t] /\ (t \in sync' <=> t \in sync)
<1>1. n \in Nat
  OBVIOUS
<1>2. /\ total' = [total EXCEPT ![s] = @ + n]
      /\ sync' = IF on THEN sync \cup {s} ELSE sync \ {s}
  BY DEF F!Pump
<1>3. /\ total' \in [Session -> Nat] /\ logged' \in [Session -> Nat]
      /\ sync' \subseteq Session /\ ended' \subseteq Session
  BY <1>1, <1>2 DEF SessionsOK, F!Pump
<1>4. ASSUME NEW t \in Session PROVE logged'[t] <= total'[t]
  <2>1. logged[t] \in Nat /\ total[t] \in Nat /\ logged[t] <= total[t]
    BY DEF SessionsOK
  <2>2. total'[t] = IF t = s THEN total[t] + n ELSE total[t]
    BY <1>2 DEF SessionsOK
  <2>3. \/ logged'[t] = logged[t]
        \/ t = s /\ logged'[t] = logged[t] + n
    BY DEF SessionsOK
  <2> QED BY <1>1, <2>1, <2>2, <2>3
<1>5. \A t \in Session \ {s} : total'[t] = total[t] /\ (t \in sync' <=> t \in sync)
  BY <1>2 DEF SessionsOK
<1> QED BY <1>3, <1>4, <1>5 DEF SessionsOK

(* A frame that is drawn is the frame, and otherwise the mark stays.       *)
LEMMA Drawn ==
    ASSUME active' \notin sync', frame' = F!Frame(active, FALSE)', pc' # "help"
    PROVE  F!ShownIsCurrent' /\ SyncMarked'
  BY DEF F!ShownIsCurrent, SyncMarked

LEMMA Marked ==
    ASSUME ~Clean'
    PROVE  F!ShownIsCurrent' /\ SyncMarked'
  BY DEF F!ShownIsCurrent, SyncMarked, Clean

LEMMA AgedOK ==
    ASSUME NEW most \in Nat, NEW age \in F!Age(most)
    PROVE  F!Aged(age, most) \in F!Age(most)
  BY DEF F!Aged, F!Age

-----------------------------------------------------------------------------
(* Every step *)

LEMMA FramesAtFirst == F!ConstantsOk /\ F!Init => FramesInductive
<1> SUFFICES ASSUME F!ConstantsOk, F!Init PROVE FramesInductive
  OBVIOUS
<1>1. SessionsOK
  BY DEF F!Init, SessionsOK
<1>2. LoopOK
  <2>1. 0 \in 0 .. MaxInput /\ None \in F!Age(Latency) /\ None \in F!Age(Debounce)
    BY DEF F!ConstantsOk, F!Age
  <2>2. /\ pinned = {} /\ active = Root /\ shown = 0 /\ inputs = 0 /\ pc = "poll"
        /\ dirty = FALSE /\ flagged = FALSE /\ missed = {}
        /\ first = None /\ data = None /\ pending = None
    BY DEF F!Init
  <2>3. dirty \in BOOLEAN /\ flagged \in BOOLEAN
    BY <2>2
  <2> QED BY <2>1, <2>2, <2>3 DEF F!ConstantsOk, LoopOK
<1>3. F!ShownIsCurrent /\ SyncMarked
  BY DEF F!Init, F!ShownIsCurrent, SyncMarked
<1> QED BY <1>1, <1>2, <1>3 DEF FramesInductive

LEMMA ToolStep ==
    ASSUME F!ConstantsOk, FramesInductive, NEW s \in Session, NEW n \in 0 .. MaxLines,
           NEW on \in BOOLEAN, F!ToolReads(s, n, on)
    PROVE  FramesInductive'
<1> USE DEF F!timeVars, F!flagVars
<1>1. SessionsOK /\ LoopOK
  BY DEF FramesInductive
<1>2. /\ SessionsOK'
      /\ \A t \in Session \ {s} : total'[t] = total[t] /\ (t \in sync' <=> t \in sync)
  <2>1. F!Pump(s, n, on) /\ logged' = logged
    BY DEF F!ToolReads
  <2> QED BY <1>1, <2>1, Pumped
<1>3. /\ active' = active /\ pinned' = pinned /\ shown' = shown /\ dirty' = dirty
      /\ first' = first /\ data' = data /\ flagged' \in BOOLEAN /\ pending' = pending
      /\ frame' = frame /\ pc' = pc /\ inputs < MaxInput /\ inputs' = inputs + 1
      /\ flagged => flagged'
      /\ missed' \in {missed, missed \cup {"read"}}
      /\ missed' = {} => \/ s \notin {active} \cup pinned
                         \/ ~F!Changes(s, n, on)
  BY <1>1 DEF F!ToolReads, F!Request, F!compute_render_session_ids, LoopOK
<1>4. LoopOK'
  BY <1>1, <1>3 DEF LoopOK, F!ConstantsOk
<1>5. F!ShownIsCurrent' /\ SyncMarked'
  <2> SUFFICES ASSUME Clean' PROVE F!ShownIsCurrent' /\ SyncMarked'
    BY Marked
  <2>1. Clean /\ (s \notin {active} \cup pinned \/ ~F!Changes(s, n, on))
    BY <1>3 DEF Clean
  <2>2. ~F!Changes(s, n, on) => total'[s] = total[s] /\ (s \in sync' => s \in sync)
    BY <1>1 DEF F!Changes, F!ToolReads, F!Pump, SessionsOK
  <2>3. \A t \in {active} \cup pinned : total'[t] = total[t] /\ (t \in sync' => t \in sync)
    BY <1>1, <1>2, <2>1, <2>2 DEF LoopOK
  <2> QED BY <1>3, <2>1, <2>3, NothingShown
<1> QED BY <1>2, <1>4, <1>5 DEF FramesInductive

(* A step in which no session is read and nothing that is active changes.   *)
LEMMA QuietStep ==
    ASSUME FramesInductive, LoopOK',
           total' = total, logged' = logged, sync' = sync, ended' \subseteq Session,
           active' = active, pinned' = pinned, shown' = shown, frame' = frame,
           Clean' => Clean, pc = "help" <=> pc' = "help"
    PROVE  FramesInductive'
<1>1. SessionsOK'
  BY DEF FramesInductive, SessionsOK
<1>2. F!ShownIsCurrent' /\ SyncMarked'
  BY NothingShown
<1> QED BY <1>1, <1>2 DEF FramesInductive

LEMMA FlagStep ==
    ASSUME F!ConstantsOk, FramesInductive, F!Flag \/ \E s \in Session : F!TuiSwitch(s)
    PROVE  FramesInductive'
<1> USE DEF F!sessionVars, F!timeVars, F!flagVars
<1>1. LoopOK
  BY DEF FramesInductive
<1>2. /\ total' = total /\ logged' = logged /\ sync' = sync
      /\ active' = active /\ pinned' = pinned /\ shown' = shown /\ frame' = frame
      /\ dirty' = dirty /\ missed' = missed /\ pc' = pc /\ first' = first /\ data' = data
      /\ inputs < MaxInput /\ inputs' = inputs + 1 /\ flagged' = TRUE
      /\ pending' \in {pending} \cup Session
  BY DEF F!Flag, F!TuiSwitch, F!Request
<1>3. LoopOK'
  BY <1>1, <1>2 DEF LoopOK, F!ConstantsOk
<1>4. ended' \subseteq Session
  BY DEF F!Flag, F!TuiSwitch, FramesInductive, SessionsOK
<1>5. ~Clean'
  BY <1>2 DEF Clean
<1> QED BY <1>2, <1>3, <1>4, <1>5, QuietStep

LEMMA PollStep ==
    ASSUME F!ConstantsOk, FramesInductive, NEW passes \in BOOLEAN, F!Poll(passes)
    PROVE  FramesInductive'
<1> USE DEF F!sessionVars, F!timeVars, F!flagVars
<1>1. LoopOK
  BY DEF FramesInductive
<1>2. /\ total' = total /\ logged' = logged /\ sync' = sync
      /\ active' = active /\ pinned' = pinned /\ shown' = shown /\ frame' = frame
      /\ dirty' = dirty /\ missed' = missed /\ pc = "poll" /\ pc' = "input"
      /\ inputs' = inputs /\ flagged' = flagged /\ pending' = pending
  BY DEF F!Poll
<1>3. first' \in {first, F!Aged(first, Latency)} /\ data' \in {data, F!Aged(data, Debounce)}
  BY DEF F!Poll
<1>4. first' \in F!Age(Latency) /\ data' \in F!Age(Debounce)
  BY <1>1, <1>3, AgedOK DEF LoopOK, F!ConstantsOk
<1>5. LoopOK'
  BY <1>1, <1>2, <1>4 DEF LoopOK
<1>6. ended' \subseteq Session /\ (Clean' => Clean)
  BY <1>2 DEF F!Poll, FramesInductive, SessionsOK, Clean
<1> QED BY <1>2, <1>5, <1>6, QuietStep

LEMMA NoInputStep ==
    ASSUME FramesInductive, F!NoInput
    PROVE  FramesInductive'
<1> USE DEF F!sessionVars, F!timeVars, F!flagVars
<1>1. LoopOK
  BY DEF FramesInductive
<1>2. /\ total' = total /\ logged' = logged /\ sync' = sync
      /\ active' = active /\ pinned' = pinned /\ shown' = shown /\ frame' = frame
      /\ dirty' = dirty /\ missed' = missed /\ pc = "input" /\ pc' = "read"
      /\ inputs' = inputs /\ flagged' = flagged /\ pending' = pending
      /\ first' = first /\ data' = data
  BY DEF F!NoInput
<1>3. LoopOK'
  BY <1>1, <1>2 DEF LoopOK
<1>4. ended' \subseteq Session /\ (Clean' => Clean)
  BY <1>2 DEF F!NoInput, FramesInductive, SessionsOK, Clean
<1> QED BY <1>2, <1>3, <1>4, QuietStep

(* A step in which no session is read.                                     *)
LEMMA Unread ==
    ASSUME SessionsOK, total' = total, logged' = logged, sync' = sync, ended' \subseteq Session
    PROVE  SessionsOK'
  BY DEF SessionsOK

(* What the user does to the display leaves the mark, ...                  *)
LEMMA UserStep ==
    ASSUME F!ConstantsOk, FramesInductive,
           F!ChangeView \/ \E s \in Session : F!TogglePin(s)
    PROVE  FramesInductive'
<1> USE DEF F!sessionVars, F!flagVars
<1>1. SessionsOK /\ LoopOK
  BY DEF FramesInductive
<1>2. /\ total' = total /\ logged' = logged /\ sync' = sync /\ ended' = ended
      /\ active' = active /\ dirty' = TRUE /\ missed' = missed /\ pc' = "read"
      /\ inputs < MaxInput /\ inputs' = inputs + 1
      /\ flagged' = flagged /\ pending' = pending /\ first' = first /\ data' = data
      /\ shown' = shown \/ shown' = shown + 1
  BY DEF F!ChangeView, F!TogglePin, F!UserMarks, F!User, F!Request
<1>3. pinned' \subseteq Session
  BY <1>1 DEF F!ChangeView, F!TogglePin, LoopOK
<1>4. LoopOK'
  BY <1>1, <1>2, <1>3 DEF LoopOK, F!ConstantsOk
<1> QED BY <1>1, <1>2, <1>4, Unread, Marked DEF FramesInductive, SessionsOK, Clean

(* ... or is drawn pc once.                                                *)
LEMMA SwitchStep ==
    ASSUME F!ConstantsOk, FramesInductive, NEW s \in Session, F!Switch(s)
    PROVE  FramesInductive'
<1> USE DEF F!sessionVars, F!flagVars
<1>1. SessionsOK /\ LoopOK
  BY DEF FramesInductive
<1>2. /\ total' = total /\ logged' = logged /\ sync' = sync /\ ended' = ended
      /\ active' = s /\ pc' = "read" /\ pinned' = pinned /\ shown' = shown
      /\ inputs < MaxInput /\ inputs' = inputs + 1
      /\ flagged' = flagged /\ pending' = pending /\ data' = data
  BY DEF F!Switch, F!User, F!Request
<1>3. CASE s \in sync
  <2>1. dirty' = TRUE /\ missed' = missed /\ first' \in {first, 0}
    BY <1>3 DEF F!Switch
  <2>2. first' \in F!Age(Latency)
    BY <1>1, <2>1 DEF LoopOK, F!Age, F!ConstantsOk
  <2>3. LoopOK'
    BY <1>1, <1>2, <2>1, <2>2 DEF LoopOK, F!ConstantsOk
  <2> QED BY <1>1, <1>2, <2>1, <2>3, Unread, Marked DEF FramesInductive, SessionsOK, Clean
<1>4. CASE s \notin sync
  <2>1. dirty' = FALSE /\ missed' = {} /\ first' = None /\ frame' = F!Frame(s, FALSE)
    BY <1>4 DEF F!Switch
  <2>2. first' \in F!Age(Latency)
    BY <2>1 DEF F!Age
  <2>3. dirty' \in BOOLEAN
    BY <2>1
  <2>4. LoopOK'
    BY <1>1, <1>2, <2>1, <2>2, <2>3 DEF LoopOK, F!ConstantsOk
  <2>5. frame' = F!Frame(active, FALSE)'
    BY <1>2, <2>1 DEF F!Frame, F!compute_render_session_ids
  <2>6. F!ShownIsCurrent' /\ SyncMarked'
    BY <1>2, <1>4, <2>5, Drawn
  <2> QED BY <1>1, <1>2, <2>4, <2>6, Unread DEF FramesInductive, SessionsOK
<1> QED BY <1>3, <1>4

LEMMA RedrawStep ==
    ASSUME F!ConstantsOk, FramesInductive, F!force_redraw
    PROVE  FramesInductive'
<1> USE DEF F!sessionVars, F!flagVars, F!timeVars
<1>1. SessionsOK /\ LoopOK
  BY DEF FramesInductive
<1>2. /\ total' = total /\ logged' = logged /\ sync' = sync /\ ended' = ended
      /\ active' = active /\ pc' = "read" /\ pinned' = pinned /\ shown' = shown
      /\ inputs < MaxInput /\ inputs' = inputs + 1 /\ dirty' = TRUE
      /\ flagged' = flagged /\ pending' = pending /\ first' = first /\ data' = data
  BY DEF F!force_redraw, F!User, F!Request
<1>3. missed' \in {missed, {}}
  BY DEF F!force_redraw
<1>4. LoopOK'
  BY <1>1, <1>2, <1>3 DEF LoopOK, F!ConstantsOk
<1> QED BY <1>1, <1>2, <1>4, Unread, Marked DEF FramesInductive, SessionsOK, Clean

(* The help is drawn over a display that was current, or not at all; when  *)
(* it is dismissed the display is drawn again, or the help was not.        *)
LEMMA HelpStep ==
    ASSUME F!ConstantsOk, FramesInductive, F!show_help
    PROVE  FramesInductive'
<1> USE DEF F!sessionVars, F!flagVars, F!timeVars
<1>1. SessionsOK /\ LoopOK
  BY DEF FramesInductive
<1>2. /\ total' = total /\ logged' = logged /\ sync' = sync /\ ended' = ended
      /\ active' = active /\ pinned' = pinned /\ shown' = shown
      /\ pc = "input" /\ pc' = "help"
      /\ inputs < MaxInput /\ inputs' = inputs + 1 /\ dirty' = dirty
      /\ flagged' = flagged /\ pending' = pending /\ first' = first /\ data' = data
  BY DEF F!show_help, F!Request
<1>3. CASE active \in sync
  <2>1. frame' = frame /\ missed' = missed
    BY <1>3 DEF F!show_help, F!RenderOnly
  <2>2. LoopOK'
    BY <1>1, <1>2, <2>1 DEF LoopOK, F!ConstantsOk
  <2>3. ~Clean'
    BY <1>2, <1>3, <2>1 DEF FramesInductive, SyncMarked, Clean
  <2> QED BY <1>1, <1>2, <2>2, <2>3, Unread, Marked DEF FramesInductive, SessionsOK
<1>4. CASE active \notin sync
  <2>1. missed' = {}
    BY <1>4 DEF F!show_help, F!RenderOnly
  <2>3. LoopOK'
    BY <1>1, <1>2, <2>1 DEF LoopOK, F!ConstantsOk
  <2>4. F!ShownIsCurrent' /\ SyncMarked'
    BY <1>2, <1>4 DEF F!ShownIsCurrent, SyncMarked
  <2> QED BY <1>1, <1>2, <2>3, <2>4, Unread DEF FramesInductive, SessionsOK
<1> QED BY <1>3, <1>4

LEMMA DismissStep ==
    ASSUME FramesInductive, F!Dismiss
    PROVE  FramesInductive'
<1> USE DEF F!sessionVars, F!flagVars, F!timeVars
<1>1. SessionsOK /\ LoopOK
  BY DEF FramesInductive
<1>2. /\ total' = total /\ logged' = logged /\ sync' = sync /\ ended' = ended
      /\ active' = active /\ pinned' = pinned /\ shown' = shown
      /\ pc = "help" /\ pc' = "read" /\ inputs' = inputs /\ dirty' = dirty
      /\ flagged' = flagged /\ pending' = pending /\ first' = first /\ data' = data
  BY DEF F!Dismiss
<1>3. CASE active \in sync
  <2>1. frame' = frame /\ missed' = missed
    BY <1>3 DEF F!Dismiss, F!RenderOnly
  <2>2. LoopOK'
    BY <1>1, <1>2, <2>1 DEF LoopOK
  <2>3. ~Clean'
    BY <1>2, <1>3, <2>1 DEF FramesInductive, SyncMarked, Clean
  <2> QED BY <1>1, <1>2, <2>2, <2>3, Unread, Marked DEF FramesInductive, SessionsOK
<1>4. CASE active \notin sync
  <2>1. missed' = {} /\ frame' = F!Frame(active, FALSE)'
    BY <1>4 DEF F!Dismiss, F!RenderOnly
  <2>3. LoopOK'
    BY <1>1, <1>2, <2>1 DEF LoopOK
  <2>5. F!ShownIsCurrent' /\ SyncMarked'
    BY <1>2, <1>4, <2>1, Drawn
  <2> QED BY <1>1, <1>2, <2>3, <2>5, Unread DEF FramesInductive, SessionsOK
<1> QED BY <1>3, <1>4

(* What is read marks the display, and so does what the flags stand for.   *)
LEMMA FlagsRead ==
    ASSUME F!ConstantsOk, LoopOK, NEW read \in BOOLEAN, F!ReadFlags(read)
    PROVE  /\ LoopOK'
           /\ read \/ flagged \/ F!Noticed => dirty'
           /\ pc = "read" /\ pc' = "render"
           /\ pinned' = pinned /\ shown' = shown /\ frame' = frame /\ missed' = missed
           /\ ~read /\ ~flagged /\ ~F!Noticed => active' = active /\ dirty' = dirty
<1> USE DEF F!sessionVars, F!flagVars, F!timeVars
<1>1. /\ pc = "read" /\ pc' = "render"
      /\ pinned' = pinned /\ shown' = shown /\ frame' = frame /\ missed' = missed
      /\ inputs' = inputs /\ flagged' = FALSE
      /\ dirty' = (dirty \/ read \/ flagged \/ F!Noticed)
      /\ active' = IF flagged /\ pending # None THEN pending ELSE active
      /\ pending' = IF flagged THEN None ELSE pending
      /\ data' = IF read THEN 0 ELSE data
      /\ first' \in {first, 0}
  BY DEF F!ReadFlags
<1>2. first' \in F!Age(Latency) /\ data' \in F!Age(Debounce)
  BY <1>1 DEF LoopOK, F!Age, F!ConstantsOk
<1>3. dirty' \in BOOLEAN /\ flagged' \in BOOLEAN
  BY <1>1
<1>4. active' \in Session /\ pending' \in Session \cup {None}
  BY <1>1 DEF LoopOK
<1>5. LoopOK'
  BY <1>1, <1>2, <1>3, <1>4 DEF LoopOK
<1>6. read \/ flagged \/ F!Noticed => dirty'
  BY <1>1
<1>7. ~read /\ ~flagged /\ ~F!Noticed => active' = active /\ dirty' = dirty
  BY <1>1 DEF LoopOK
<1> QED BY <1>1, <1>5, <1>6, <1>7

LEMMA ReadStep ==
    ASSUME F!ConstantsOk, FramesInductive, NEW n \in 0 .. MaxLines, NEW on \in BOOLEAN,
           F!ReadActive(n, on)
    PROVE  FramesInductive'
<1>1. SessionsOK /\ LoopOK /\ active \in Session
  BY DEF FramesInductive, LoopOK
<1>2. F!ReadFlags(TRUE)
  BY DEF F!ReadActive
<1>3. LoopOK' /\ dirty'
  BY <1>1, <1>2, FlagsRead
<1>4. F!Pump(active, n, on) /\ logged' = [logged EXCEPT ![active] = @ + n]
  BY DEF F!ReadActive, F!PumpLogged
<1>5. SessionsOK'
  BY <1>1, <1>4, Pumped
<1> QED BY <1>3, <1>5, Marked DEF FramesInductive, Clean

LEMMA NothingReadStep ==
    ASSUME F!ConstantsOk, FramesInductive, F!NothingRead
    PROVE  FramesInductive'
<1>1. SessionsOK /\ LoopOK
  BY DEF FramesInductive
<1>2. F!ReadFlags(FALSE)
  BY DEF F!NothingRead
<1>3. /\ total' = total /\ logged' = logged /\ sync' = sync
      /\ ended' \subseteq Session
  BY <1>1 DEF F!NothingRead, SessionsOK, LoopOK
<1>4. /\ LoopOK'
      /\ flagged \/ F!Noticed => dirty'
      /\ pc = "read" /\ pc' = "render"
      /\ pinned' = pinned /\ shown' = shown /\ frame' = frame /\ missed' = missed
      /\ ~flagged /\ ~F!Noticed => active' = active /\ dirty' = dirty
  BY <1>1, <1>2, FlagsRead
<1>5. CASE flagged \/ F!Noticed
  BY <1>1, <1>3, <1>4, <1>5, Unread, Marked DEF FramesInductive, Clean
<1>6. CASE ~(flagged \/ F!Noticed)
  BY <1>3, <1>4, <1>6, QuietStep DEF Clean
<1> QED BY <1>5, <1>6

LEMMA RenderStep ==
    ASSUME FramesInductive, F!Render
    PROVE  FramesInductive'
<1> USE DEF F!sessionVars, F!flagVars
<1>1. SessionsOK /\ LoopOK
  BY DEF FramesInductive
<1>2. /\ total' = total /\ logged' = logged /\ sync' = sync /\ ended' = ended
      /\ active' = active /\ pinned' = pinned /\ shown' = shown
      /\ pc = "render" /\ pc' = "rest" /\ inputs' = inputs
      /\ flagged' = flagged /\ pending' = pending /\ data' = data
  BY DEF F!Render
<1>3. CASE ~F!should_render_now \/ active \in sync
  <2>1. frame' = frame /\ missed' = missed /\ dirty' = dirty /\ first' = first
    BY <1>3 DEF F!Render, F!RenderAndMark
  <2>2. LoopOK'
    BY <1>1, <1>2, <2>1 DEF LoopOK
  <2> QED BY <1>1, <1>2, <2>1, <2>2, QuietStep DEF Clean, SessionsOK
<1>4. CASE F!should_render_now /\ active \notin sync
  <2>1. frame' = F!Frame(active, FALSE) /\ missed' = {} /\ dirty' = FALSE /\ first' = None
    BY <1>4 DEF F!Render, F!RenderAndMark
  <2>2. dirty' \in BOOLEAN /\ first' \in F!Age(Latency)
    BY <2>1 DEF F!Age
  <2>3. LoopOK'
    BY <1>1, <1>2, <2>1, <2>2 DEF LoopOK
  <2>4. F!Frame(active, FALSE)' = F!Frame(active, FALSE)
    BY <1>2, SameFrame
  <2>5. F!ShownIsCurrent' /\ SyncMarked'
    BY <1>2, <1>4, <2>1, <2>4, Drawn
  <2> QED BY <1>1, <1>2, <2>3, <2>5, Unread DEF FramesInductive, SessionsOK
<1> QED BY <1>3, <1>4

(* Output of a session that is not active marks the display if the session *)
(* is pinned, and else it is not on display.                               *)
LEMMA OtherStep ==
    ASSUME F!ConstantsOk, FramesInductive, NEW s \in Session, NEW n \in 0 .. MaxLines,
           NEW on \in BOOLEAN, F!PumpOther(s, n, on)
    PROVE  FramesInductive'
<1> USE DEF F!flagVars
<1>1. SessionsOK /\ LoopOK
  BY DEF FramesInductive
<1>2. /\ active' = active /\ pinned' = pinned /\ shown' = shown /\ frame' = frame
      /\ missed' = missed /\ pc = "rest" /\ pc' = pc /\ inputs' = inputs
      /\ flagged' \in BOOLEAN /\ (flagged => flagged') /\ pending' = pending /\ s # active
  BY <1>1 DEF F!PumpOther, LoopOK
<1>3. F!Pump(s, n, on) /\ logged' = [logged EXCEPT ![s] = @ + n]
  BY DEF F!PumpOther, F!PumpLogged
<1>4. /\ SessionsOK'
      /\ \A t \in Session \ {s} : total'[t] = total[t] /\ (t \in sync' <=> t \in sync)
  BY <1>1, <1>3, Pumped
<1>5. CASE s \in pinned
  <2>1. dirty' = TRUE /\ first' \in {first, 0} /\ data' = 0
    BY <1>5 DEF F!PumpOther, F!MarkOutput
  <2>2. first' \in F!Age(Latency) /\ data' \in F!Age(Debounce)
    BY <1>1, <2>1 DEF LoopOK, F!Age, F!ConstantsOk
  <2>3. LoopOK'
    BY <1>1, <1>2, <2>1, <2>2 DEF LoopOK
  <2> QED BY <1>4, <2>1, <2>3, Marked DEF FramesInductive, Clean
<1>6. CASE s \notin pinned
  <2>1. dirty' = dirty /\ first' = first /\ data' = data
    BY <1>6 DEF F!PumpOther
  <2>2. LoopOK'
    BY <1>1, <1>2, <2>1 DEF LoopOK
  <2>3. \A t \in {active} \cup pinned : total'[t] = total[t] /\ (t \in sync' <=> t \in sync)
    BY <1>1, <1>2, <1>4, <1>6 DEF LoopOK
  <2>4. F!ShownIsCurrent' /\ SyncMarked'
    BY <1>2, <2>1, <2>3, NothingShown DEF Clean
  <2> QED BY <1>4, <2>2, <2>4 DEF FramesInductive
<1> QED BY <1>5, <1>6

(* A step that changes the sizes is marked in the list of sessions, which  *)
(* is compared in the next round; one that draws shows what is current.    *)
LEMMA ResizeStep ==
    ASSUME F!ConstantsOk, FramesInductive, NEW changed \in BOOLEAN,
           F!HandleResize(changed) \/ F!ViewerResizes(changed)
    PROVE  FramesInductive'
<1> USE DEF F!sessionVars, F!flagVars, F!timeVars
<1>1. SessionsOK /\ LoopOK
  BY DEF FramesInductive
<1>2. /\ total' = total /\ logged' = logged /\ sync' = sync /\ ended' = ended
      /\ active' = active /\ pinned' = pinned /\ pc' = pc /\ pc \in {"input", "rest"}
      /\ inputs < MaxInput /\ inputs' = inputs + 1 /\ dirty' = dirty
      /\ pending' = pending /\ first' = first /\ data' = data
      /\ shown' = IF changed THEN shown + 1 ELSE shown
      /\ flagged' = (flagged \/ changed)
  BY DEF F!HandleResize, F!ViewerResizes, F!Request
<1>3. missed' \in {{}, missed}
  BY DEF F!HandleResize, F!ViewerResizes, F!RenderOnly
<1>4. LoopOK'
  <2>1. shown' \in 0 .. inputs' /\ inputs' \in 0 .. MaxInput
    BY <1>1, <1>2 DEF LoopOK, F!ConstantsOk
  <2>2. flagged' \in BOOLEAN /\ missed' \subseteq {"read", "ended"}
    BY <1>1, <1>2, <1>3 DEF LoopOK
  <2> QED BY <1>1, <1>2, <2>1, <2>2 DEF LoopOK
<1>5. CASE changed
  <2>1. ~Clean'
    BY <1>2, <1>5 DEF Clean
  <2> QED BY <1>1, <1>2, <1>4, <2>1, Unread, Marked DEF FramesInductive, SessionsOK
<1>6. CASE ~changed /\ frame' = frame /\ missed' = missed
  BY <1>1, <1>2, <1>4, <1>6, QuietStep DEF Clean, SessionsOK
<1>7. CASE ~changed /\ ~(frame' = frame /\ missed' = missed)
  <2>1. CASE active \notin sync
    <3>1. frame' = F!Frame(active, FALSE)'
      BY <1>7, <2>1 DEF F!HandleResize, F!ClearAndRender, F!ViewerResizes, F!RenderOnly
    <3>2. F!ShownIsCurrent' /\ SyncMarked'
      BY <1>2, <2>1, <3>1, Drawn
    <3> QED BY <1>1, <1>2, <1>4, <3>2, Unread DEF FramesInductive, SessionsOK
  <2>2. CASE active \in sync
    <3>1. ~Clean'
      BY <1>2, <1>7, <2>2 DEF F!HandleResize, F!ViewerResizes, F!RenderOnly,
                              FramesInductive, SyncMarked, Clean
    <3> QED BY <1>1, <1>2, <1>4, <3>1, Unread, Marked DEF FramesInductive, SessionsOK
  <2> QED BY <2>1, <2>2
<1> QED BY <1>5, <1>6, <1>7

(* Text that tttt itself gives the root session leaves the mark.           *)
LEMMA InjectStep ==
    ASSUME F!ConstantsOk, FramesInductive, F!toggle_web \/ F!DrainWebStatus
    PROVE  FramesInductive'
<1> USE DEF F!sessionVars, F!flagVars, F!timeVars
<1>1. SessionsOK /\ LoopOK
  BY DEF FramesInductive
<1>2. /\ total' = [total EXCEPT ![Root] = @ + 1] /\ logged' = logged
      /\ sync' = sync /\ ended' = ended /\ dirty' = TRUE
      /\ active' = active /\ pinned' = pinned /\ shown' = shown
      /\ inputs < MaxInput /\ inputs' = inputs + 1
      /\ flagged' = flagged /\ pending' = pending /\ first' = first /\ data' = data
      /\ missed' \in {{}, missed} /\ pc' \in {pc, "read"}
  BY DEF F!toggle_web, F!DrainWebStatus, F!inject_root_text, F!Request, F!RenderOnly
<1>3. LoopOK'
  <2>1. shown' \in 0 .. inputs' /\ inputs' \in 0 .. MaxInput
    BY <1>1, <1>2 DEF LoopOK, F!ConstantsOk
  <2>2. dirty' \in BOOLEAN /\ missed' \subseteq {"read", "ended"}
    BY <1>1, <1>2 DEF LoopOK
  <2>3. pc' \in {"poll", "input", "read", "render", "rest", "help", "end"}
    BY <1>1, <1>2 DEF LoopOK
  <2> QED BY <1>1, <1>2, <2>1, <2>2, <2>3 DEF LoopOK
<1>4. SessionsOK'
  <2>1. ASSUME NEW s \in Session PROVE total'[s] \in Nat /\ total'[s] >= total[s]
    <3>1. total'[s] = IF s = Root THEN total[s] + 1 ELSE total[s]
      BY <1>1, <1>2 DEF SessionsOK
    <3>2. total[s] \in Nat
      BY <1>1 DEF SessionsOK
    <3> QED BY <3>1, <3>2
  <2>2. total' \in [Session -> Nat] /\ \A s \in Session : logged'[s] <= total'[s]
    <3>1. DOMAIN total' = Session /\ total' = [s \in Session |-> total'[s]]
      BY <1>1, <1>2 DEF SessionsOK
    <3>2. ASSUME NEW s \in Session PROVE logged'[s] <= total'[s]
      BY <1>1, <1>2, <2>1 DEF SessionsOK
    <3> QED BY <2>1, <3>1, <3>2
  <2> QED BY <1>1, <1>2, <2>2 DEF SessionsOK
<1> QED BY <1>2, <1>3, <1>4, Marked DEF FramesInductive, Clean

(* The switch from a session that has ended is the exception it leaves.    *)
LEMMA ExitStep ==
    ASSUME FramesInductive, F!CheckSessionExit
    PROVE  FramesInductive'
<1> USE DEF F!sessionVars, F!flagVars, F!timeVars
<1>1. SessionsOK /\ LoopOK
  BY DEF FramesInductive
<1>2. /\ total' = total /\ logged' = logged /\ sync' = sync /\ ended' = ended
      /\ pinned' = pinned /\ shown' = shown /\ frame' = frame /\ inputs' = inputs
      /\ dirty' = dirty /\ first' = first /\ data' = data
      /\ flagged' = flagged /\ pending' = pending
      /\ pc = "rest" /\ pc' \in {"poll", "end"}
  BY DEF F!CheckSessionExit
<1>3. \/ active' \in Session /\ missed' = missed \cup {"ended"}
      \/ active' = active /\ missed' = missed
  BY DEF F!CheckSessionExit
<1>4. LoopOK'
  BY <1>1, <1>2, <1>3 DEF LoopOK
<1>5. CASE active' = active /\ missed' = missed
  BY <1>1, <1>2, <1>4, <1>5, QuietStep DEF Clean, SessionsOK
<1>6. CASE missed' = missed \cup {"ended"}
  <2>1. ~Clean'
    BY <1>6 DEF Clean
  <2> QED BY <1>1, <1>2, <1>4, <2>1, Unread, Marked DEF FramesInductive, SessionsOK
<1> QED BY <1>3, <1>5, <1>6

LEMMA FramesKept == F!ConstantsOk /\ FramesInductive /\ [F!Next]_F!vars => FramesInductive'
<1> SUFFICES ASSUME F!ConstantsOk, FramesInductive, [F!Next]_F!vars PROVE FramesInductive'
  OBVIOUS
<1>1. CASE F!Loop
  BY <1>1, NoInputStep, DismissStep, NothingReadStep, RenderStep, ExitStep DEF F!Loop
<1>2. CASE F!Read
  BY <1>2, ReadStep, OtherStep, ToolStep DEF F!Read
<1>3. CASE F!UserEvent
  BY <1>3, UserStep, RedrawStep, HelpStep, SwitchStep, InjectStep DEF F!UserEvent
<1>4. CASE F!Flag \/ \E s \in Session : F!TuiSwitch(s)
  BY <1>4, FlagStep
<1>5. CASE \E passes \in BOOLEAN : F!Poll(passes)
  BY <1>5, PollStep
<1>6. CASE UNCHANGED F!vars
  <2>1. LoopOK'
    BY <1>6 DEF F!vars, F!sessionVars, F!timeVars, F!flagVars, FramesInductive, LoopOK
  <2>2. /\ total' = total /\ logged' = logged /\ sync' = sync /\ ended' = ended
        /\ active' = active /\ pinned' = pinned /\ shown' = shown /\ frame' = frame
        /\ dirty' = dirty /\ flagged' = flagged /\ missed' = missed /\ pc' = pc
    BY <1>6 DEF F!vars, F!sessionVars, F!timeVars, F!flagVars
  <2> QED BY <2>1, <2>2, QuietStep DEF Clean, FramesInductive, SessionsOK
<1>7. CASE F!Resizes \/ F!DrainWebStatus
  BY <1>7, ResizeStep, InjectStep DEF F!Resizes
<1> QED BY <1>1, <1>2, <1>3, <1>4, <1>5, <1>6, <1>7 DEF F!Next

(* For any sessions, whatever they print, whoever reads them, whatever     *)
(* ends, is resized or is told by the console, and whatever the user does: *)
(* if nothing is marked the terminal shows what is on it as it is, unless  *)
(* since the last frame a tool call read one of the sessions shown or the  *)
(* loop left a session that had ended (render_frame and the marks of the   *)
(* event loop).                                                            *)
THEOREM ShownCurrent == F!Spec \/ MCSpec => []F!FramesInv
<1>1. F!Init => FramesInductive
  BY FramesAtFirst, FramesAssumption
<1>2. FramesInductive /\ [F!Next]_F!vars => FramesInductive'
  BY FramesKept, FramesAssumption
<1>3. FramesInductive => F!FramesInv
  BY DEF FramesInductive, SessionsOK, LoopOK, F!FramesInv, F!TypeOK
<1>4. MCInit => F!Init
  BY DEF MCInit
<1>5. [MCNext]_<<part, vars, frames, selection>> => [F!Next]_F!vars
  BY DEF MCNext, frames, F!vars, F!sessionVars, F!timeVars, F!flagVars
<1> QED BY <1>1, <1>2, <1>3, <1>4, <1>5, PTL DEF F!Spec, MCSpec

-----------------------------------------------------------------------------
(* The inductive invariant of MouseSelection                               *)

(* Unless the wheel turned, the anchor is as far below the row that was    *)
(* pressed as the view was scrolled, whatever session the drag is in; and  *)
(* the line pressed is counted from where the session's screen began then. *)
Straight ==
    sel # None /\ ~mark.wheel /\ ~mark.cut =>
        /\ off[mark.session] >= base /\ mark.line >= base
        /\ sel.anchor = (mark.line - base) + offset

SelectionInductive == S!TypeOK /\ Straight /\ S!CopiesMarked

LEMMA LeastAndMost ==
    \A a, b \in Int : /\ S!Min({a, b}) = IF a <= b THEN a ELSE b
                      /\ S!Max({a, b}) = IF a <= b THEN b ELSE a
<1> SUFFICES ASSUME NEW a \in Int, NEW b \in Int
             PROVE  /\ S!Min({a, b}) = IF a <= b THEN a ELSE b
                    /\ S!Max({a, b}) = IF a <= b THEN b ELSE a
  OBVIOUS
<1>1. \E x \in {a, b} : \A y \in {a, b} : x <= y
  BY SMT
<1>2. \E x \in {a, b} : \A y \in {a, b} : x >= y
  BY SMT
<1>3. S!Min({a, b}) \in {a, b} /\ \A y \in {a, b} : S!Min({a, b}) <= y
  BY <1>1 DEF S!Min
<1>4. S!Max({a, b}) \in {a, b} /\ \A y \in {a, b} : S!Max({a, b}) >= y
  BY <1>2 DEF S!Max
<1> QED BY <1>3, <1>4

(* How far a session can be scrolled.                                      *)
LEMMA ScrollBounds ==
    ASSUME S!TypeOK, NEW s \in Session
    PROVE  /\ off[s] \in Nat /\ S!scrollback_count(s) \in 0 .. Scrollback
           /\ S!scrollback_count(s) <= off[s]
           /\ off[s] <= Scrollback => S!scrollback_count(s) = off[s]
<1>1. off[s] \in Nat /\ Scrollback \in Nat
  BY SelectionAssumption DEF S!ConstantsOk, S!TypeOK
<1> QED BY <1>1, LeastAndMost DEF S!scrollback_count

(* While the selection is steady, a row is the line it was counted from    *)
(* the press, so the anchor is on the line that was pressed.               *)
LEMMA SteadyLines ==
    ASSUME S!TypeOK, Straight, sel # None, S!Steady
    PROVE  /\ \A row \in Int : S!LineAt(row) = (base - offset) + row
           /\ S!LineAt(sel.anchor) = mark.line
           /\ sel.anchor \in Nat /\ mark.line \in Nat /\ base - offset \in Int
<1>1. /\ focus \in Session /\ offset \in Nat /\ base \in Nat /\ mark # None
      /\ sel \in S!Selection /\ mark \in S!Mark
  BY SelectionAssumption DEF S!ConstantsOk, S!TypeOK
<1>2. sel.anchor \in Nat /\ mark.line \in Nat
  BY <1>1 DEF S!Selection, S!Mark
<1>3. /\ focus = mark.session /\ off[focus] <= Scrollback /\ offset <= base
      /\ off[focus] >= base /\ sel.anchor = (mark.line - base) + offset
  BY DEF S!Steady, Straight
<1>4. S!max_scroll_offset = off[focus] /\ off[focus] \in Nat
  BY <1>1, <1>3, ScrollBounds DEF S!max_scroll_offset
<1>5. S!Shown = (off[focus] - base) + offset
  BY <1>1, <1>3, <1>4 DEF S!Shown, S!compute_selection_scroll_compensation, S!Less
<1>6. S!Min({S!Shown, S!max_scroll_offset}) = (off[focus] - base) + offset
  <2>1. (off[focus] - base) + offset \in Int /\ (off[focus] - base) + offset <= off[focus]
    BY <1>1, <1>3, <1>4
  <2> QED BY <2>1, <1>4, <1>5, LeastAndMost
<1>7. \A row \in Int : S!LineAt(row) = (base - offset) + row
  BY <1>1, <1>4, <1>6 DEF S!LineAt
<1>8. S!LineAt(sel.anchor) = mark.line
  BY <1>1, <1>2, <1>3, <1>7
<1> QED BY <1>1, <1>2, <1>7, <1>8

(* Between two lines there is what is between the two chosen.                *)
LEMMA LinesBetween ==
    ASSUME NEW k \in Int, NEW a \in Int, NEW b \in Int
    PROVE  {k + r : r \in S!Min({a, b}) .. S!Max({a, b})}
               = S!Min({k + a, k + b}) .. S!Max({k + a, k + b})
<1> DEFINE low == IF a <= b THEN a ELSE b
           high == IF a <= b THEN b ELSE a
<1>1. /\ S!Min({a, b}) = low /\ S!Max({a, b}) = high
      /\ S!Min({k + a, k + b}) = k + low /\ S!Max({k + a, k + b}) = k + high
      /\ low \in Int /\ high \in Int
  BY LeastAndMost
<1> HIDE DEF low, high
<1>2. ASSUME NEW y \in k + low .. k + high
      PROVE  \E r \in low .. high : k + r = y
  <2>1. y - k \in low .. high /\ y - k \in Int /\ k + (y - k) = y
    BY <1>1
  <2> QED BY <2>1
<1>3. ASSUME NEW r \in low .. high
      PROVE  k + r \in k + low .. k + high
  BY <1>1
<1> QED BY <1>1, <1>2, <1>3

LEMMA SelectionAtFirst ==
    ASSUME S!Init
    PROVE  SelectionInductive
BY SelectionAssumption
   DEF S!Init, S!ConstantsOk, SelectionInductive, S!TypeOK, Straight, S!CopiesMarked

(* A press marks the line it is on.                                        *)
LEMMA PressMarks ==
    ASSUME SelectionInductive, NEW row \in S!Rows, S!MousePress(row)
    PROVE  SelectionInductive'
<1> USE SelectionAssumption DEF S!ConstantsOk
<1>1. S!TypeOK /\ S!CopiesMarked
  BY DEF SelectionInductive
<1>2. /\ row \in Nat /\ focus \in Session /\ off[focus] \in Nat
      /\ S!max_scroll_offset \in 0 .. Scrollback /\ S!max_scroll_offset <= off[focus]
      /\ off[focus] <= Scrollback => S!max_scroll_offset = off[focus]
  BY <1>1, ScrollBounds DEF S!TypeOK, S!Rows, S!max_scroll_offset
<1>3. /\ sel' = [anchor |-> row, head |-> row] /\ offset' = 0 /\ base' = S!max_scroll_offset
      /\ mark' = [session |-> focus, line |-> off[focus] + row, wheel |-> FALSE,
                  cut |-> off[focus] > Scrollback]
      /\ UNCHANGED <<off, focus, copied>>
  BY DEF S!MousePress
<1>4. /\ sel' \in S!Selection /\ sel'.anchor = row /\ sel' # None
      /\ mark' \in S!Mark /\ mark'.session = focus /\ mark'.line = off[focus] + row
      /\ (~mark'.cut => off[focus] <= Scrollback) /\ mark' # None
  <2> DEFINE far == off[focus] > Scrollback
             line == off[focus] + row
  <2>1. /\ mark' = [session |-> focus, line |-> line, wheel |-> FALSE, cut |-> far]
        /\ far \in BOOLEAN /\ line \in Nat /\ (~far => off[focus] <= Scrollback)
    BY <1>2, <1>3
  <2> HIDE DEF far
  <2>2. mark'.cut <=> far
    BY <2>1
  <2> HIDE DEF line
  <2>3. mark' \in S!Mark /\ mark'.session = focus /\ mark'.line = line
    BY <2>1, <1>2 DEF S!Mark
  <2>4. sel' \in S!Selection /\ sel'.anchor = row
    BY <1>2, <1>3 DEF S!Selection
  <2> QED BY <2>1, <2>2, <2>3, <2>4 DEF line
<1>5. S!TypeOK'
  BY <1>1, <1>2, <1>3, <1>4 DEF S!TypeOK
<1>6. Straight'
  BY <1>2, <1>3, <1>4 DEF Straight
<1>7. S!CopiesMarked'
  BY <1>1, <1>3 DEF S!CopiesMarked
<1> QED BY <1>5, <1>6, <1>7 DEF SelectionInductive

(* A drag moves the anchor with the view.                                  *)
LEMMA DragFollows ==
    ASSUME SelectionInductive, NEW row \in S!Rows, S!MouseDrag(row)
    PROVE  SelectionInductive'
<1> USE SelectionAssumption DEF S!ConstantsOk
<1>1. S!TypeOK /\ Straight /\ S!CopiesMarked
  BY DEF SelectionInductive
<1>2. /\ row \in Nat /\ focus \in Session /\ S!max_scroll_offset \in 0 .. Scrollback
      /\ offset \in 0 .. Scrollback /\ offset \in Nat /\ base \in Nat
      /\ sel # None /\ sel \in S!Selection /\ mark \in S!Mark
      /\ UNCHANGED <<off, focus, base, mark, copied>>
  BY <1>1, ScrollBounds DEF S!TypeOK, S!Rows, S!max_scroll_offset, S!MouseDrag
<1>3. sel.anchor \in Nat /\ mark.line \in Nat /\ mark.session \in Session
  BY <1>2 DEF S!Selection, S!Mark
<1>4. /\ sel' \in S!Selection /\ offset' \in 0 .. Scrollback
      /\ \/ sel'.anchor = sel.anchor + 1 /\ offset' = offset + 1
         \/ sel'.anchor = S!Less(sel.anchor, 1) /\ offset' = offset - 1 /\ offset > 0
         \/ sel'.anchor = sel.anchor /\ offset' = offset
  <2>1. S!Dragged(row)
    BY DEF S!MouseDrag
  <2>2. CASE /\ row = 0 /\ offset < S!max_scroll_offset
             /\ offset' = offset + 1
             /\ sel' = [anchor |-> sel.anchor + 1, head |-> row]
    BY <2>2, <1>2, <1>3 DEF S!Selection
  <2>3. CASE /\ row # 0 /\ row = Height - 1 /\ offset > 0
             /\ offset' = offset - 1
             /\ sel' = [anchor |-> S!Less(sel.anchor, 1), head |-> row]
    <3>1. S!Less(sel.anchor, 1) \in Nat
      BY <1>3 DEF S!Less
    <3> QED BY <2>3, <3>1, <1>2 DEF S!Selection
  <2>4. CASE sel' = [sel EXCEPT !.head = row] /\ UNCHANGED offset
    BY <2>4, <1>2 DEF S!Selection
  <2> QED BY <2>1, <2>2, <2>3, <2>4 DEF S!Dragged
<1>5. S!TypeOK'
  BY <1>1, <1>2, <1>4 DEF S!TypeOK
<1>6. Straight'
  <2> SUFFICES ASSUME ~mark.wheel, ~mark.cut
               PROVE  /\ off[mark.session] >= base /\ mark.line >= base
                      /\ sel'.anchor = (mark.line - base) + offset'
    BY <1>2 DEF Straight
  <2>1. /\ off[mark.session] >= base /\ mark.line >= base
        /\ sel.anchor = (mark.line - base) + offset
    BY <1>1, <1>2 DEF Straight
  <2>2. offset > 0 => S!Less(sel.anchor, 1) = sel.anchor - 1
    BY <2>1, <1>2, <1>3 DEF S!Less
  <2> QED BY <2>1, <2>2, <1>2, <1>3, <1>4
<1>7. S!CopiesMarked'
  BY <1>1, <1>2 DEF S!CopiesMarked
<1> QED BY <1>5, <1>6, <1>7 DEF SelectionInductive

(* A release copies lines that were marked, and all of them if the anchor  *)
(* is on the screen.                                                       *)
LEMMA ReleaseCopies ==
    ASSUME SelectionInductive, NEW row \in S!Rows, NEW oneCell \in BOOLEAN,
           S!MouseRelease(row, oneCell)
    PROVE  SelectionInductive'
<1> USE SelectionAssumption DEF S!ConstantsOk
<1>1. S!TypeOK /\ Straight /\ S!CopiesMarked
  BY DEF SelectionInductive
<1>2. /\ row \in Int /\ sel # None /\ Scrollback \in Nat
      /\ offset' = 0 /\ sel' = None /\ mark' = None /\ UNCHANGED <<off, focus, base>>
  BY DEF S!MouseRelease, S!Rows
<1>3. S!TypeOK'
  BY <1>1, <1>2 DEF S!TypeOK
<1>4. Straight'
  BY <1>2 DEF Straight
<1>5. S!CopiesMarked'
  <2>1. CASE oneCell
    BY <2>1, <1>1 DEF S!MouseRelease, S!CopiesMarked
  <2>2. CASE ~oneCell
    <3> DEFINE chosen == S!Selected(row)
               lines == {S!LineAt(r) : r \in chosen}
    <3>1. /\ copied'.lines = S!Extracted(row) /\ copied'.meant = S!Meant(row)
          /\ copied'.steady <=> S!Steady
          /\ copied'.whole <=> sel.anchor \in S!Rows
      <4>1. copied' = [lines |-> S!Extracted(row), meant |-> S!Meant(row), steady |-> S!Steady,
                       whole |-> sel.anchor \in S!Rows, session |-> focus,
                       of |-> mark.session]
        BY <2>2 DEF S!MouseRelease
      <4> QED BY <4>1
    <3>2. ASSUME S!Steady
          PROVE  /\ S!Extracted(row) \subseteq S!Meant(row)
                 /\ sel.anchor \in S!Rows => S!Extracted(row) = S!Meant(row)
      <4>1. /\ \A r \in Int : S!LineAt(r) = (base - offset) + r
            /\ S!LineAt(sel.anchor) = mark.line /\ sel.anchor \in Nat
            /\ base - offset \in Int
        BY <3>2, <1>1, <1>2, SteadyLines
      <4>2. S!LineAt(row) = (base - offset) + row
            /\ mark.line = (base - offset) + sel.anchor
        BY <4>1, <1>2
      <4>3. lines = S!Meant(row)
        <5>1. chosen \subseteq Int
          BY <4>1, <1>2, LeastAndMost DEF S!Selected
        <5>2. lines = {(base - offset) + r : r \in chosen}
          BY <4>1, <5>1
        <5>3. S!Meant(row) = {(base - offset) + r : r \in chosen}
          <6> DEFINE k == base - offset
          <6>1. S!Meant(row) = S!Min({k + sel.anchor, k + row}) .. S!Max({k + sel.anchor, k + row})
            BY <4>2 DEF S!Meant
          <6>2. k \in Int /\ sel.anchor \in Int /\ row \in Int
            BY <4>1, <1>2
          <6> HIDE DEF k
          <6>3. {k + r : r \in S!Min({sel.anchor, row}) .. S!Max({sel.anchor, row})} =
                    S!Min({k + sel.anchor, k + row}) .. S!Max({k + sel.anchor, k + row})
            BY <6>2, LinesBetween
          <6>4. chosen = S!Min({sel.anchor, row}) .. S!Max({sel.anchor, row})
            BY DEF S!Selected
          <6>5. S!Meant(row) = {k + r : r \in chosen}
            BY <6>1, <6>3, <6>4
          <6> QED BY <6>5 DEF k
        <5> QED BY <5>2, <5>3
      <4>4. S!Extracted(row) \subseteq lines
        BY DEF S!Extracted
      <4>5. ASSUME sel.anchor \in S!Rows
            PROVE  chosen \subseteq S!Rows
        <5>1. sel.anchor \in 0 .. Height - 1 /\ row \in 0 .. Height - 1 /\ Height \in Int
          BY <4>5 DEF S!Rows
        <5>2. chosen = IF sel.anchor <= row THEN sel.anchor .. row ELSE row .. sel.anchor
          BY <5>1, LeastAndMost DEF S!Selected
        <5> HIDE DEF chosen
        <5> QED BY <5>1, <5>2 DEF S!Rows
      <4>6. chosen \subseteq S!Rows => S!Extracted(row) = lines
        BY DEF S!Extracted
      <4> QED BY <4>3, <4>4, <4>5, <4>6
    <3> QED BY <3>1, <3>2 DEF S!CopiesMarked
  <2> QED BY <2>1, <2>2
<1> QED BY <1>3, <1>4, <1>5 DEF SelectionInductive

(* The wheel scrolls, and tells the mark.                                  *)
LEMMA WheelTurns ==
    ASSUME SelectionInductive, S!ScrollUp \/ S!ScrollDown
    PROVE  SelectionInductive'
<1> USE SelectionAssumption DEF S!ConstantsOk
<1>1. S!TypeOK /\ Straight /\ S!CopiesMarked
  BY DEF SelectionInductive
<1>2. /\ UNCHANGED <<off, focus, sel, base, copied>> /\ mark' = S!Turned
      /\ S!max_scroll_offset \in 0 .. Scrollback /\ offset \in 0 .. Scrollback
      /\ Scrollback \in Nat /\ Wheel \in Nat \ {0}
  BY <1>1, ScrollBounds DEF S!TypeOK, S!max_scroll_offset, S!ScrollUp, S!ScrollDown
<1>3. offset' \in 0 .. Scrollback
  <2>1. CASE S!ScrollUp
    <3>1. offset + Wheel \in Int /\ S!max_scroll_offset \in Int
      BY <1>2
    <3>2. offset' = IF offset + Wheel <= S!max_scroll_offset THEN offset + Wheel
                    ELSE S!max_scroll_offset
      BY <2>1, <3>1, LeastAndMost DEF S!ScrollUp
    <3> QED BY <3>2, <1>2
  <2>2. CASE S!ScrollDown
    BY <2>2, <1>2 DEF S!ScrollDown, S!Less
  <2> QED BY <2>1, <2>2
<1>4. /\ mark' \in {None} \cup S!Mark
      /\ mark' = None <=> mark = None
      /\ mark # None => mark'.wheel
  <2>1. CASE mark = None
    BY <2>1, <1>2 DEF S!Turned
  <2>2. CASE mark # None
    <3>1. mark \in S!Mark /\ mark' = [mark EXCEPT !.wheel = TRUE]
      BY <2>2, <1>1, <1>2 DEF S!Turned, S!TypeOK
    <3>2. mark' \in S!Mark
      BY <3>1 DEF S!Mark
    <3>3. mark'.wheel
      BY <3>1 DEF S!Mark
    <3> QED BY <2>2, <3>2, <3>3
  <2> QED BY <2>1, <2>2
<1>5. S!TypeOK'
  BY <1>1, <1>2, <1>3, <1>4 DEF S!TypeOK
<1>6. Straight'
  BY <1>1, <1>2, <1>4 DEF Straight, S!TypeOK
<1>7. S!CopiesMarked'
  BY <1>1, <1>2 DEF S!CopiesMarked
<1> QED BY <1>5, <1>6, <1>7 DEF SelectionInductive

(* The session prints, or another one is shown.                            *)
LEMMA OutputScrolls ==
    ASSUME SelectionInductive, NEW s \in Session,
           S!Switch(s) \/ \E n \in 1 .. 2 : S!Output(s, n)
    PROVE  SelectionInductive'
<1> USE SelectionAssumption DEF S!ConstantsOk
<1>1. S!TypeOK /\ Straight /\ S!CopiesMarked
  BY DEF SelectionInductive
<1>2. UNCHANGED <<offset, sel, base, mark, copied>> /\ focus' \in Session
  BY <1>1 DEF S!Switch, S!Output, S!TypeOK
<1>3. /\ off' \in [Session -> Nat]
      /\ \A t \in Session : off'[t] \in Nat /\ off[t] \in Nat /\ off'[t] >= off[t]
  <2>1. off \in [Session -> Nat]
    BY <1>1 DEF S!TypeOK
  <2>2. CASE S!Switch(s)
    BY <2>1, <2>2 DEF S!Switch
  <2>3. ASSUME NEW n \in 1 .. 2, S!Output(s, n)
        PROVE  /\ off' \in [Session -> Nat]
               /\ \A t \in Session : off'[t] \in Nat /\ off[t] \in Nat /\ off'[t] >= off[t]
    <3>1. off' = [off EXCEPT ![s] = @ + n]
      BY <2>3 DEF S!Output
    <3> QED BY <2>1, <3>1
  <2> QED BY <2>2, <2>3
<1>4. S!TypeOK'
  BY <1>1, <1>2, <1>3 DEF S!TypeOK
<1>5. Straight'
  <2>1. sel # None => mark.session \in Session /\ base \in Nat
    BY <1>1 DEF S!TypeOK, S!Mark
  <2> QED BY <2>1, <1>1, <1>2, <1>3 DEF Straight
<1>6. S!CopiesMarked'
  BY <1>1, <1>2 DEF S!CopiesMarked
<1> QED BY <1>4, <1>5, <1>6 DEF SelectionInductive

LEMMA SelectionKept ==
    ASSUME SelectionInductive, S!Next \/ UNCHANGED selection
    PROVE  SelectionInductive'
<1>1. CASE UNCHANGED selection
  BY <1>1 DEF selection, SelectionInductive, S!TypeOK, Straight, S!CopiesMarked
<1>2. CASE S!Next
  <2>1. ASSUME NEW row \in S!Rows,
               \/ S!MousePress(row) \/ S!MouseDrag(row)
               \/ \E oneCell \in BOOLEAN : S!MouseRelease(row, oneCell)
        PROVE  SelectionInductive'
    BY <2>1, PressMarks, DragFollows, ReleaseCopies
  <2>2. CASE S!ScrollUp \/ S!ScrollDown
    BY <2>2, WheelTurns
  <2>3. ASSUME NEW s \in Session, S!Switch(s) \/ \E n \in 1 .. 2 : S!Output(s, n)
        PROVE  SelectionInductive'
    BY <2>3, OutputScrolls
  <2> QED BY <1>2, <2>1, <2>2, <2>3 DEF S!Next
<1> QED BY <1>1, <1>2

(* The anchor of a selection stays on the line the user pressed on,        *)
(* whatever is printed and however the drag scrolls the view, and what is  *)
(* copied is what was marked.                                              *)
THEOREM SelectionHolds == S!Spec \/ MCSpec => []S!SelectionInv
<1>1. S!Init => SelectionInductive
  BY SelectionAtFirst
<1>2. SelectionInductive /\ [S!Next]_S!vars => SelectionInductive'
  BY SelectionKept DEF selection, S!vars
<1>3. SelectionInductive => S!SelectionInv
  BY SteadyLines DEF SelectionInductive, S!SelectionInv, S!AnchorHolds
<1>4. MCInit => S!Init
  BY DEF MCInit
<1>5. [MCNext]_<<part, vars, frames, selection>> => [S!Next]_S!vars
  BY DEF MCNext, selection, S!vars
<1> QED BY <1>1, <1>2, <1>3, <1>4, <1>5, PTL DEF S!Spec, MCSpec

-----------------------------------------------------------------------------
(* What the runs check of both: what tttt shows is current, and the anchor *)
(* of a selection stays on its line.                                       *)
THEOREM DisplayHolds == MCSpec => []DisplayInv
<1>1. F!FramesInv /\ S!SelectionInv => DisplayInv
  BY DEF DisplayInv
<1> QED BY <1>1, ShownCurrent, SelectionHolds, PTL
==============================================================================
