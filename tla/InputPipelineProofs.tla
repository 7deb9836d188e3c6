------------------------ MODULE InputPipelineProofs ------------------------
(***************************************************************************)
(* Proofs about InputPipeline for any sessions, messages and limits: its   *)
(* types; which Enters are verified and retried; where a message is; that  *)
(* Enters keep to their budget, and that the queues implement              *)
(* MessageLifecycle.                                                       *)
(***************************************************************************)
EXTENDS InputPipelineRefinement, SequenceTheorems, FiniteSetTheorems, WellFoundedInduction, TLAPS

-----------------------------------------------------------------------------
(* The operators the model is built from *)

(* Removing an element closes the gap and keeps everything else.           *)
LEMMA RemoveAtProperties ==
    ASSUME NEW S, NEW q \in Seq(S), NEW i \in 1 .. Len(q)
    PROVE  /\ RemoveAt(q, i) \in Seq(S)
           /\ Len(RemoveAt(q, i)) = Len(q) - 1
           /\ \A j \in 1 .. Len(q) - 1 :
                 RemoveAt(q, i)[j] = IF j < i THEN q[j] ELSE q[j + 1]
<1> DEFINE before == SubSeq(q, 1, i - 1)
           after == SubSeq(q, i + 1, Len(q))
<1>1. /\ before \in Seq(S)
      /\ Len(before) = i - 1
      /\ \A j \in 1 .. i - 1 : before[j] = q[j]
  <2>1. \A j \in 1 .. i - 1 : q[j] \in S
    BY ElementOfSeq
  <2>2. CASE i = 1
    <3>1. before = <<>>
      BY <2>2, SubSeqEmpty
    <3> QED BY <2>2, <3>1, EmptySeq
  <2>3. CASE i # 1
    BY <2>1, <2>3, SubSeqProperties
  <2> QED BY <2>2, <2>3
<1>2. /\ after \in Seq(S)
      /\ Len(after) = Len(q) - i
      /\ \A j \in 1 .. Len(q) - i : after[j] = q[i + j]
  <2>1. \A j \in i + 1 .. Len(q) : q[j] \in S
    BY ElementOfSeq
  <2>2. /\ SubSeq(q, i + 1, Len(q)) \in Seq(S)
        /\ Len(SubSeq(q, i + 1, Len(q))) =
              IF i + 1 <= Len(q) THEN Len(q) - (i + 1) + 1 ELSE 0
        /\ \A j \in 1 .. Len(q) - (i + 1) + 1 :
              SubSeq(q, i + 1, Len(q))[j] = q[(i + 1) + j - 1]
    BY <2>1, SubSeqProperties, LenProperties
  <2> QED BY <2>2, LenProperties
<1>3. RemoveAt(q, i) = before \o after
  BY DEF RemoveAt
<1> HIDE DEF before, after
<1>4. Len(q) \in Nat
  BY LenProperties
<1>5. /\ before \o after \in Seq(S)
      /\ Len(before \o after) = Len(before) + Len(after)
      /\ \A j \in 1 .. Len(before) + Len(after) :
            (before \o after)[j] = IF j <= Len(before) THEN before[j] ELSE after[j - Len(before)]
  BY <1>1, <1>2, ConcatProperties
<1>6. Len(before) + Len(after) = Len(q) - 1
  BY <1>1, <1>2, <1>4
<1>7. ASSUME NEW j \in 1 .. Len(q) - 1
      PROVE  (before \o after)[j] = IF j < i THEN q[j] ELSE q[j + 1]
  <2>1. CASE j < i
    BY <1>1, <1>4, <1>5, <1>6, <2>1
  <2>2. CASE ~(j < i)
    <3>1. j - (i - 1) \in 1 .. Len(q) - i
      BY <1>4, <2>2
    <3>2. i + (j - (i - 1)) = j + 1
      BY <1>4
    <3>3. after[j - (i - 1)] = q[j + 1]
      BY <1>2, <3>1, <3>2
    <3> QED BY <1>1, <1>4, <1>5, <1>6, <2>2, <3>3
  <2> QED BY <2>1, <2>2
<1> QED BY <1>3, <1>5, <1>6, <1>7

LEMMA ChunkLenBounds ==
    ASSUME NEW rest \in Nat \ {0}
    PROVE  ChunkLen(rest) \in 1 .. rest
BY LimitAssumption DEF ChunkLen

LEMMA FreshType ==
    ASSUME NEW m \in Scheduled
    PROVE  Fresh(m) \in Input
<1>1. Size[m] \in Nat \ {0}
  BY TableAssumption
<1>2. ChunkLen(Size[m]) \in 1 .. Size[m]
  BY <1>1, ChunkLenBounds
<1> QED BY <1>1, <1>2 DEF Fresh, Input

(* A text with units left always has an open, non-empty chunk.             *)
LEMMA AdvancedType ==
    ASSUME NEW input \in Input, NEW n \in 0 .. input.chunkEnd - input.offset,
           input.offset + n # Size[input.msg]
    PROVE  Advanced(input, n) \in Input
<1> DEFINE reached == input.offset + n
<1>1. /\ input.msg \in Scheduled /\ Size[input.msg] \in Nat
      /\ input.offset \in Nat /\ input.chunkEnd \in Nat
      /\ input.offset < input.chunkEnd /\ input.chunkEnd <= Size[input.msg]
  BY TableAssumption DEF Input
<1>2. Size[input.msg] - reached \in Nat \ {0}
  BY <1>1
<1>3. ChunkLen(Size[input.msg] - reached) \in 1 .. Size[input.msg] - reached
  BY <1>2, ChunkLenBounds
<1> DEFINE next == IF reached = input.chunkEnd
                   THEN input.chunkEnd + ChunkLen(Size[input.msg] - reached)
                   ELSE input.chunkEnd
<1>4. /\ next \in Nat /\ reached < next /\ next <= Size[input.msg]
      /\ reached \in Nat
  BY <1>1, <1>3
<1>5. input \in [msg : Scheduled, offset : Nat, chunkEnd : Nat, paced : BOOLEAN]
  BY DEF Input
<1>6. Advanced(input, n) =
         [input EXCEPT !.offset = reached, !.chunkEnd = next, !.paced = TRUE]
  BY DEF Advanced
<1> HIDE DEF next, reached
<1>7. /\ Advanced(input, n) \in
            [msg : Scheduled, offset : Nat, chunkEnd : Nat, paced : BOOLEAN]
      /\ Advanced(input, n).offset = reached
      /\ Advanced(input, n).chunkEnd = next
      /\ Advanced(input, n).msg = input.msg
  BY <1>4, <1>5, <1>6
<1> QED BY <1>4, <1>7 DEF Input

LEMMA PresentSession ==
    ASSUME NEW k, Present(k)
    PROVE  k \in Key /\ Resolve(k) \in Session
BY TableAssumption DEF Present, Resolve, Key

-----------------------------------------------------------------------------
(* What a write does to the session and its child *)

LEMMA TouchType ==
    ASSUME SessionTypeOK, NEW s \in Session, UNCHANGED status, Touch(s)
    PROVE  SessionTypeOK' /\ lastInput'[s] = lastInput[s] + 1
BY DEF SessionTypeOK, Touch

LEMMA TypeTextType ==
    ASSUME SessionTypeOK, ChildTypeOK, UNCHANGED status,
           NEW s \in Session, NEW who \in Message \cup {Other}, TypeText(s, who)
    PROVE  SessionTypeOK' /\ ChildTypeOK'
<1>1. SessionTypeOK'
  BY TouchType DEF TypeText
<1>2. ChildTypeOK'
  BY DEF TypeText, ChildTypeOK
<1> QED BY <1>1, <1>2

LEMMA PressEnterType ==
    ASSUME SessionTypeOK, ChildTypeOK, UNCHANGED status,
           NEW s \in Session, NEW m \in Message \cup {None}, PressEnter(s, m)
    PROVE  SessionTypeOK' /\ ChildTypeOK'
<1>1. SessionTypeOK'
  BY TouchType DEF PressEnter
<1>2. line' \in [Session -> SUBSET (Message \cup {Other})] /\ by' \in [Session -> Message \cup {None}]
  BY DEF PressEnter, ChildTypeOK
<1>3. sent' \in [Message -> Nat]
  BY DEF PressEnter, ChildTypeOK
<1> QED BY <1>1, <1>2, <1>3 DEF ChildTypeOK

LEMMA NothingTypedType ==
    ASSUME ChildTypeOK, NothingTyped
    PROVE  ChildTypeOK'
BY DEF NothingTyped, childVars, ChildTypeOK

LEMMA NoTouchType ==
    ASSUME SessionTypeOK, UNCHANGED status, NoTouch
    PROVE  SessionTypeOK'
BY DEF NoTouch, SessionTypeOK

LEMMA SendFailsType ==
    ASSUME SessionTypeOK, ChildTypeOK, UNCHANGED status, NEW s \in Session, SendFails(s)
    PROVE  SessionTypeOK' /\ ChildTypeOK'
BY NothingTypedType, NoTouchType, TouchType DEF SendFails

LEMMA WriteUnitsType ==
    ASSUME SessionTypeOK, ChildTypeOK, UNCHANGED status,
           NEW s \in Session, NEW m \in Scheduled, NEW offset, NEW n,
           WriteUnits(s, m, offset, n)
    PROVE  SessionTypeOK' /\ ChildTypeOK'
<1>1. SessionTypeOK'
  BY TouchType, NoTouchType DEF WriteUnits
<1>2. m \in Message
  BY DEF Message
<1>3. ChildTypeOK'
  BY <1>2 DEF WriteUnits, ChildTypeOK
<1> QED BY <1>1, <1>3

LEMMA NewEnterType ==
    ASSUME SessionTypeOK', NEW s \in Session, NEW m \in Message
    PROVE  NewEnter(s, m) \in Entry
BY LimitAssumption DEF NewEnter, Entry, SessionTypeOK

-----------------------------------------------------------------------------
(* What a write does to the queues *)

LEMMA AppendEnterType ==
    ASSUME QueueTypeOK, SessionTypeOK', NEW s \in Session, NEW m \in Message,
           enters' = Append(enters, NewEnter(s, m))
    PROVE  enters' \in Seq(Entry)
BY NewEnterType, AppendProperties DEF QueueTypeOK

LEMMA WriteFrontType ==
    ASSUME SessionTypeOK, ChildTypeOK, QueueTypeOK, UNCHANGED status,
           NEW k \in Key, Present(k), NEW queue \in Seq(Input), queue # <<>>,
           WriteFront(k, queue)
    PROVE  /\ SessionTypeOK' /\ ChildTypeOK'
           /\ sched' \in [Key -> Seq(Input)] /\ enters' \in Seq(Entry)
<1> DEFINE s == Resolve(k)
           input == Head(queue)
<1>1. s \in Session
  BY PresentSession
<1>2. input \in Input /\ Tail(queue) \in Seq(Input)
  BY HeadTailProperties
<1>3. input.msg \in Scheduled /\ input.msg \in Message
  BY <1>2 DEF Input, Message
<1>4. PICK n \in 0 .. input.chunkEnd - input.offset :
        /\ WriteUnits(s, input.msg, input.offset, n)
        /\ IF input.offset + n = Size[input.msg]
           THEN /\ sched' = [sched EXCEPT ![k] = Tail(queue)]
                /\ enters' = Append(enters, NewEnter(s, input.msg))
           ELSE /\ sched' = [sched EXCEPT ![k] = [queue EXCEPT ![1] = Advanced(input, n)]]
                /\ UNCHANGED enters
  BY DEF WriteFront
<1>5. SessionTypeOK' /\ ChildTypeOK'
  BY <1>1, <1>3, <1>4, WriteUnitsType
<1>6. CASE input.offset + n = Size[input.msg]
  <2>1. enters' \in Seq(Entry)
    BY <1>1, <1>3, <1>4, <1>5, <1>6, AppendEnterType
  <2>2. sched' \in [Key -> Seq(Input)]
    BY <1>2, <1>4, <1>6 DEF QueueTypeOK
  <2> QED BY <1>5, <2>1, <2>2
<1>7. CASE input.offset + n # Size[input.msg]
  <2>1. Advanced(input, n) \in Input
    BY <1>2, <1>7, AdvancedType
  <2>2. [queue EXCEPT ![1] = Advanced(input, n)] \in Seq(Input)
    BY <2>1, ExceptSeq, EmptySeq
  <2>3. sched' \in [Key -> Seq(Input)] /\ enters' \in Seq(Entry)
    BY <1>4, <1>7, <2>2 DEF QueueTypeOK
  <2> QED BY <1>5, <2>3
<1> QED BY <1>6, <1>7

LEMMA DrainSchedulerType ==
    ASSUME SessionTypeOK, ChildTypeOK, QueueTypeOK, UNCHANGED status,
           NEW k \in Key, Present(k), NEW queue \in Seq(Input), queue # <<>>,
           DrainScheduler(k, queue)
    PROVE  /\ SessionTypeOK' /\ ChildTypeOK'
           /\ sched' \in [Key -> Seq(Input)] /\ enters' \in Seq(Entry)
<1>1. CASE Running(Resolve(k)) /\ WriteFront(k, queue)
  BY <1>1, WriteFrontType
<1>2. CASE /\ sched' = [sched EXCEPT ![k] = queue]
           /\ NoTouch /\ NothingTyped /\ UNCHANGED enters
  BY <1>2, NoTouchType, NothingTypedType DEF QueueTypeOK
<1> QED BY <1>1, <1>2 DEF DrainScheduler

LEMMA SendSchedulerType ==
    ASSUME SessionTypeOK, ChildTypeOK, QueueTypeOK, UNCHANGED status,
           NEW k \in Key, Present(k), NEW m \in Scheduled, SendScheduler(k, m)
    PROVE  /\ SessionTypeOK' /\ ChildTypeOK'
           /\ sched' \in [Key -> Seq(Input)] /\ enters' \in Seq(Entry)
<1> DEFINE s == Resolve(k)
           queue == Enqueue(sched[k], Fresh(m))
<1>1. s \in Session /\ m \in Message
  BY PresentSession DEF Message
<1>2. queue \in Seq(Input) /\ queue # <<>>
  <2>1. sched[k] \in Seq(Input)
    BY DEF QueueTypeOK
  <2> QED BY <2>1, FreshType, AppendProperties, EmptySeq DEF Enqueue
<1> HIDE DEF queue
<1>3. CASE ChunkBytes > 0
  <2>1. CASE DrainScheduler(k, queue)
    BY <1>2, <2>1, DrainSchedulerType
  <2>2. CASE /\ sched' = [sched EXCEPT ![k] = queue]
             /\ NoTouch /\ NothingTyped /\ UNCHANGED enters
    BY <1>2, <2>2, NoTouchType, NothingTypedType DEF QueueTypeOK
  <2> QED BY <1>3, <2>1, <2>2 DEF SendScheduler, queue
<1>4. CASE ~(ChunkBytes > 0)
  <2>1. sched' \in [Key -> Seq(Input)]
    BY <1>4 DEF SendScheduler, QueueTypeOK
  <2>2. CASE WriteUnits(s, m, 0, Size[m]) /\ enters' = Append(enters, NewEnter(s, m))
    BY <1>1, <2>1, <2>2, WriteUnitsType, AppendEnterType
  <2>3. CASE (\E n \in 1 .. Size[m] - 1 : WriteUnits(s, m, 0, n)) /\ UNCHANGED enters
    BY <1>1, <2>1, <2>3, WriteUnitsType DEF QueueTypeOK
  <2>4. CASE SendFails(s) /\ UNCHANGED enters
    BY <1>1, <2>1, <2>4, SendFailsType DEF QueueTypeOK
  <2> QED BY <1>4, <2>2, <2>3, <2>4 DEF SendScheduler
<1> QED BY <1>3, <1>4

-----------------------------------------------------------------------------
(* Type correctness.  The position at which a deferred event is sent was   *)
(* chosen in an earlier step; it still lies in the list.                   *)

ReadyInRange == ready => pc = "deferred" /\ pos \in 1 .. Len(deferred)

TypeInv == TypeOK /\ ReadyInRange

LEMMA InitTypeInv == Init => TypeInv
<1> SUFFICES ASSUME Init PROVE TypeInv
  OBVIOUS
<1> USE DEF Init
<1>1. SessionTypeOK
  BY DEF SessionTypeOK
<1>2. LoopTypeOK
  <2>1. pc = "drain" /\ pos \in Nat \ {0}
    OBVIOUS
  <2>3. ready \in BOOLEAN
    BY Zenon
  <2>2. todo \in SUBSET Key /\ listed \in SUBSET Session
    OBVIOUS
  <2> QED BY <2>1, <2>2, <2>3 DEF LoopTypeOK
<1>3. QueueTypeOK
  <2>1. \A S : <<>> \in Seq(S)
    BY EmptySeq
  <2> QED BY <2>1 DEF QueueTypeOK
<1>4. ChildTypeOK
  BY DEF ChildTypeOK
<1>5. typed \in Nat /\ direct \in Nat /\ ~ready
  OBVIOUS
<1> QED BY <1>1, <1>2, <1>3, <1>4, <1>5 DEF TypeInv, TypeOK, ReadyInRange

(* The steps of the event loop. *)
LEMMA LoopTypeInv ==
    ASSUME TypeInv, Loop
    PROVE  TypeInv'
<1> USE DEF TypeInv, TypeOK
<1>1. ASSUME NEW k \in Key, DrainKey(k)
      PROVE  TypeInv'
  <2>1. /\ UNCHANGED <<status, pc, pos, ready, listed, deferred, injections, unfired, typed, direct>>
        /\ todo' = todo \ {k}
    BY <1>1 DEF DrainKey, boundVars
  <2>2. LoopTypeOK' /\ ReadyInRange'
    BY <2>1 DEF LoopTypeOK, ReadyInRange
  <2>3. /\ SessionTypeOK' /\ ChildTypeOK'
        /\ user' \in [Session -> Nat] /\ sched' \in [Key -> Seq(Input)] /\ enters' \in Seq(Entry)
    <3>1. CASE /\ user' = IF k \in Session THEN [user EXCEPT ![k] = 0] ELSE user
               /\ sched' = [sched EXCEPT ![k] = <<>>]
               /\ NoTouch /\ NothingTyped /\ UNCHANGED enters
      BY <2>1, <3>1, NoTouchType, NothingTypedType, EmptySeq DEF QueueTypeOK
    <3>2. CASE /\ k \in Session /\ Running(k) /\ user[k] > 0
               /\ UNCHANGED <<sched, enters>>
               /\ \/ \E n \in 1 .. user[k] :
                        user' = [user EXCEPT ![k] = @ - n] /\ TypeText(k, Other)
                  \/ UNCHANGED user /\ NoTouch /\ NothingTyped
      <4>1. user[k] \in Nat
        BY <3>2 DEF QueueTypeOK
      <4>2. CASE UNCHANGED user /\ NoTouch /\ NothingTyped
        BY <2>1, <3>2, <4>2, NoTouchType, NothingTypedType DEF QueueTypeOK
      <4>3. ASSUME NEW n \in 1 .. user[k],
                   user' = [user EXCEPT ![k] = @ - n], TypeText(k, Other)
            PROVE  /\ SessionTypeOK' /\ ChildTypeOK'
                   /\ user' \in [Session -> Nat]
        <5>1. user[k] - n \in Nat
          BY <4>1
        <5>2. user' \in [Session -> Nat]
          BY <4>3, <5>1 DEF QueueTypeOK
        <5> QED BY <2>1, <3>2, <4>3, <5>2, TypeTextType
      <4> QED BY <3>2, <4>2, <4>3 DEF QueueTypeOK
    <3>3. CASE /\ Present(k)
               /\ k \in Session => user[k] = 0
               /\ sched[k] # <<>>
               /\ UNCHANGED user
               /\ DrainScheduler(k, sched[k])
      BY <2>1, <3>3, DrainSchedulerType DEF QueueTypeOK
    <3> QED BY <1>1, <3>1, <3>2, <3>3 DEF DrainKey
  <2> QED BY <2>1, <2>2, <2>3 DEF QueueTypeOK
<1>2. ASSUME EndDrain \/ Quit \/ Skip \/ CheckSessionExit \/ EndEvents \/ EndDeferred
             \/ EndEnters \/ CheckDeferred \/ SyncSessionOrder
      PROVE  TypeInv'
  <2>1. UNCHANGED <<sessionVars, queueVars, childVars, boundVars, unfired>>
    BY <1>2 DEF EndDrain, Quit, Skip, CheckSessionExit, EndEvents, EndDeferred, EndEnters,
                CheckDeferred, SyncSessionOrder
  <2>2. SessionTypeOK' /\ ChildTypeOK' /\ QueueTypeOK' /\ typed' \in Nat /\ direct' \in Nat
    BY <2>1 DEF sessionVars, queueVars, childVars, boundVars, SessionTypeOK, ChildTypeOK, QueueTypeOK
  <2>3. Len(deferred) \in Nat /\ deferred' = deferred
    BY <2>1, LenProperties DEF queueVars, QueueTypeOK
  <2>4. LoopTypeOK'
    <3>1. ready' \in BOOLEAN
      BY <1>2, Zenon DEF LoopTypeOK, Goto, EndDrain, Quit, Skip, CheckSessionExit, EndEvents,
                         EndDeferred, EndEnters, CheckDeferred, SyncSessionOrder
    <3>2. todo' \in SUBSET Key /\ listed' \in SUBSET Session
      BY <1>2 DEF LoopTypeOK, Goto, EndDrain, Quit, Skip, CheckSessionExit, EndEvents,
                  EndDeferred, EndEnters, CheckDeferred, SyncSessionOrder, Queued
    <3>3. pos' \in Nat \ {0}
      BY <1>2 DEF LoopTypeOK, Goto, EndDrain, Quit, Skip, CheckSessionExit, EndEvents,
                  EndDeferred, EndEnters, CheckDeferred, SyncSessionOrder
    <3>4. pc' \in {pc, "input", "watch", "inject", "sync", "exit", "events", "deferred",
                   "enters", "drain", "ended"}
      BY <1>2 DEF Goto, EndDrain, Quit, Skip, CheckSessionExit, EndEvents,
                  EndDeferred, EndEnters, CheckDeferred, SyncSessionOrder
    <3> QED BY <3>1, <3>2, <3>3, <3>4 DEF LoopTypeOK
  <2>5. ReadyInRange'
    <3>1. CASE CheckDeferred
      <4>1. CASE pos <= Len(deferred) /\ pos' = pos /\ pc = "deferred" /\ pc' = pc
        <5>1. pos \in Nat \ {0}
          BY DEF LoopTypeOK
        <5>2. pos' \in 1 .. Len(deferred')
          BY <2>3, <4>1, <5>1
        <5> QED BY <4>1, <5>2 DEF ReadyInRange
      <4>2. CASE ~ready'
        BY <4>2 DEF ReadyInRange
      <4> QED BY <3>1, <4>1, <4>2 DEF CheckDeferred
    <3>2. CASE ~ready /\ ready' = ready
      BY <3>2 DEF ReadyInRange
    <3>3. ASSUME ~CheckDeferred
          PROVE  ready' = ready /\ (pc # "deferred" \/ pos > Len(deferred))
      BY <1>2, <3>3 DEF EndDrain, Quit, Skip, CheckSessionExit, SyncSessionOrder, Goto,
                        EndEvents, EndDeferred, EndEnters
    <3>4. ASSUME ~CheckDeferred
          PROVE  ~ready
      BY <2>3, <3>3, <3>4 DEF ReadyInRange, LoopTypeOK
    <3> QED BY <3>1, <3>2, <3>3, <3>4
  <2> QED BY <2>2, <2>4, <2>5
<1>3. ASSUME NEW s \in Session, UserInput(s)
      PROVE  TypeInv'
  BY <1>3 DEF UserInput, sessionVars, childVars, SessionTypeOK, LoopTypeOK, QueueTypeOK,
              ChildTypeOK, ReadyInRange
<1>4. ASSUME NEW m \in Injected, QueueInjection(m)
      PROVE  TypeInv'
  <2>1. injections' \in Seq(Injected)
    BY <1>4, AppendProperties DEF QueueInjection, QueueTypeOK
  <2> QED BY <1>4, <2>1 DEF QueueInjection, sessionVars, loopVars, childVars, boundVars,
                SessionTypeOK, LoopTypeOK, QueueTypeOK, ChildTypeOK, ReadyInRange
<1>5. ASSUME Inject
      PROVE  TypeInv'
  <2> DEFINE m == Head(injections)
             s == Resolve(Target[m])
  <2>1. m \in Injected /\ m \in Message /\ injections' \in Seq(Injected)
    BY <1>5, HeadTailProperties DEF Inject, QueueTypeOK, Message
  <2>2. s \in Session
    BY <2>1, TableAssumption DEF Resolve, Key
  <2> HIDE DEF m, s
  <2>3. UNCHANGED status
    BY <1>5 DEF Inject
  <2>4. SessionTypeOK' /\ ChildTypeOK' /\ enters' \in Seq(Entry)
    <3>1. CASE TypeText(s, m) /\ enters' = Append(enters, NewEnter(s, m))
      BY <2>1, <2>2, <2>3, <3>1, TypeTextType, AppendEnterType
    <3>2. CASE TypeText(s, m) /\ UNCHANGED enters
      BY <2>1, <2>2, <2>3, <3>2, TypeTextType DEF QueueTypeOK
    <3>3. CASE SendFails(s) /\ UNCHANGED enters
      BY <2>1, <2>2, <2>3, <3>3, SendFailsType DEF QueueTypeOK
    <3> QED BY <1>5, <3>1, <3>2, <3>3 DEF Inject, m, s
  <2>5. LoopTypeOK' /\ ReadyInRange'
    BY <1>5 DEF Inject, Goto, LoopTypeOK, ReadyInRange
  <2> QED BY <1>5, <2>1, <2>4, <2>5 DEF Inject, QueueTypeOK, boundVars
<1>6. ASSUME NEW m \in Scheduled, HandleEvent(m)
      PROVE  TypeInv'
  <2> DEFINE k == TargetKey(m)
  <2>1. UNCHANGED <<status, loopVars, injections, boundVars>> /\ unfired' = unfired \ {m}
    BY <1>6 DEF HandleEvent
  <2>2. /\ SessionTypeOK' /\ ChildTypeOK'
        /\ user' \in [Session -> Nat] /\ sched' \in [Key -> Seq(Input)]
        /\ deferred' \in Seq(Scheduled) /\ enters' \in Seq(Entry)
    <3>1. CASE ~Present(k)
      BY <1>6, <2>1, <3>1 DEF HandleEvent, childVars, SessionTypeOK, ChildTypeOK, QueueTypeOK
    <3>2. CASE Present(k) /\ ~idle[Resolve(k)]
      <4>1. deferred' \in Seq(Scheduled)
        <5>1. deferred \in Seq(Scheduled) /\ Append(deferred, m) \in Seq(Scheduled)
          BY AppendProperties DEF QueueTypeOK
        <5>2. deferred' \in {deferred, Append(deferred, m)}
          BY <1>6, <3>2 DEF HandleEvent
        <5> QED BY <5>1, <5>2
      <4> QED BY <1>6, <2>1, <3>2, <4>1
                 DEF HandleEvent, childVars, SessionTypeOK, ChildTypeOK, QueueTypeOK
    <3>3. CASE Present(k) /\ idle[Resolve(k)]
      <4>1. UNCHANGED deferred /\ SendScheduler(Resolve(k), m)
        BY <1>6, <3>3 DEF HandleEvent
      <4>2. Resolve(k) \in Key /\ Present(Resolve(k))
        BY <3>3, PresentSession DEF Key, Present, Resolve
      <4>3. UNCHANGED user
        BY <4>1 DEF SendScheduler
      <4> QED BY <2>1, <4>1, <4>2, <4>3, SendSchedulerType DEF QueueTypeOK
    <3> QED BY <3>1, <3>2, <3>3
  <2>3. LoopTypeOK'
    BY <2>1 DEF loopVars, LoopTypeOK
  <2>4. ReadyInRange'
    BY <1>6, <2>1 DEF HandleEvent, loopVars, ReadyInRange
  <2> QED BY <2>1, <2>2, <2>3, <2>4 DEF QueueTypeOK, boundVars
<1>7. ASSUME SendDeferred
      PROVE  TypeInv'
  <2> DEFINE m == deferred[pos]
             k == TargetKey(m)
  <2>1. pos \in 1 .. Len(deferred) /\ m \in Scheduled
    BY <1>7, ElementOfSeq DEF SendDeferred, ReadyInRange, QueueTypeOK
  <2>2. deferred' \in Seq(Scheduled)
    BY <1>7, <2>1, RemoveAtProperties DEF SendDeferred, StillDeferred, QueueTypeOK
  <2> HIDE DEF m
  <2>3. UNCHANGED <<status, pc, todo, pos, listed, injections, boundVars, unfired>> /\ ready' = FALSE
    BY <1>7 DEF SendDeferred
  <2>4. /\ SessionTypeOK' /\ ChildTypeOK'
        /\ user' \in [Session -> Nat] /\ sched' \in [Key -> Seq(Input)] /\ enters' \in Seq(Entry)
    <3>1. CASE Present(k)
      <4>1. SendScheduler(k, m)
        BY <1>7, <3>1 DEF SendDeferred, DeferredQueue, m
      <4>2. UNCHANGED user
        BY <4>1 DEF SendScheduler
      <4> QED BY <2>1, <2>3, <3>1, <4>1, <4>2, PresentSession, SendSchedulerType DEF QueueTypeOK
    <3>2. CASE ~Present(k)
      BY <1>7, <2>3, <3>2 DEF SendDeferred, m, childVars, SessionTypeOK, ChildTypeOK, QueueTypeOK
    <3> QED BY <3>1, <3>2
  <2> QED BY <2>2, <2>3, <2>4 DEF QueueTypeOK, LoopTypeOK, ReadyInRange, boundVars
<1>8. ASSUME NEW m \in Message, NotDue(m) \/ ProcessEnter(m)
      PROVE  TypeInv'
  <2> DEFINE e == enters[pos]
             s == e.session
  <2>1. /\ pc = "enters" /\ pos \in 1 .. Len(enters) /\ e.msg = m
        /\ UNCHANGED <<status, pc, todo, ready, listed, user, sched, deferred, injections,
                       boundVars, unfired>>
    BY <1>8, LenProperties DEF NotDue, ProcessEnter, FirstEnter, RetryEnter, GiveUp, OnEnter,
                               LoopTypeOK, QueueTypeOK
  <2>2. e \in Entry /\ s \in Session
    <3>1. enters \in Seq(Entry)
      BY DEF QueueTypeOK
    <3>2. e \in Entry
      BY <2>1, <3>1, ElementOfSeq
    <3> QED BY <3>2 DEF Entry
  <2>3. ASSUME RemoveEnter
        PROVE  enters' \in Seq(Entry) /\ pos' \in Nat \ {0}
    BY <2>1, <2>3, RemoveAtProperties DEF RemoveEnter, QueueTypeOK, LoopTypeOK
  <2>4. ASSUME NEW f \in Entry, enters' = [enters EXCEPT ![pos] = f], pos' = pos + 1
        PROVE  enters' \in Seq(Entry) /\ pos' \in Nat \ {0}
    BY <2>1, <2>4, ExceptSeq DEF QueueTypeOK, LoopTypeOK
  <2>5. SessionTypeOK' => \A t \in Session : lastInput'[t] \in Nat
    BY DEF SessionTypeOK
  <2> HIDE DEF e
  <2>6. /\ SessionTypeOK' /\ ChildTypeOK'
        /\ enters' \in Seq(Entry) /\ pos' \in Nat \ {0}
    <3>1. CASE NotDue(m)
      BY <2>1, <2>2, <2>4, <3>1, NoTouchType, NothingTypedType DEF NotDue, KeepEnter, e
    <3>2. CASE FirstEnter(m)
      <4>1. CASE PressEnter(s, m)
        <5>1. SessionTypeOK' /\ ChildTypeOK'
          BY <2>1, <2>2, <4>1, PressEnterType
        <5>2. CASE RemoveEnter
          BY <2>3, <5>1, <5>2
        <5>3. CASE KeepEnter([e EXCEPT !.armed = TRUE, !.inputAt = lastInput'[s]])
          <6>1. [e EXCEPT !.armed = TRUE, !.inputAt = lastInput'[s]] \in Entry
            BY <2>2, <2>5, <5>1 DEF Entry
          <6> QED BY <2>4, <5>1, <5>3, <6>1 DEF KeepEnter
        <5> QED BY <3>2, <4>1, <5>1, <5>2, <5>3, <2>2 DEF FirstEnter, e, KeepEnter, RemoveEnter
      <4>2. CASE RemoveEnter /\ SendFails(s)
        BY <2>1, <2>2, <2>3, <4>2, SendFailsType
      <4> QED BY <3>2, <4>1, <4>2 DEF FirstEnter, e
    <3>3. CASE RetryEnter(m)
      <4>1. e.checks + 1 \in 0 .. RetryChecks
        BY <2>2, <3>3, LimitAssumption DEF RetryEnter, Exhausted, Entry, e
      <4>2. CASE KeepEnter([e EXCEPT !.checks = @ + 1]) /\ NoTouch /\ NothingTyped
        <5>1. [e EXCEPT !.checks = @ + 1] \in Entry
          BY <2>2, <4>1 DEF Entry
        <5> QED BY <2>1, <2>4, <4>2, <5>1, NoTouchType, NothingTypedType DEF KeepEnter
      <4>3. CASE /\ PressEnter(s, m)
                 /\ KeepEnter([e EXCEPT !.checks = @ + 1, !.inputAt = lastInput'[s]])
        <5>1. SessionTypeOK' /\ ChildTypeOK'
          BY <2>1, <2>2, <4>3, PressEnterType
        <5>2. [e EXCEPT !.checks = @ + 1, !.inputAt = lastInput'[s]] \in Entry
          BY <2>2, <2>5, <4>1, <5>1 DEF Entry
        <5> QED BY <2>4, <4>3, <5>1, <5>2 DEF KeepEnter
      <4>4. CASE RemoveEnter /\ SendFails(s)
        BY <2>1, <2>2, <2>3, <4>4, SendFailsType
      <4> QED BY <3>3, <4>2, <4>3, <4>4 DEF RetryEnter, e
    <3>4. CASE GiveUp(m)
      BY <2>1, <2>3, <3>4, NoTouchType, NothingTypedType DEF GiveUp
    <3> QED BY <1>8, <3>1, <3>2, <3>3, <3>4 DEF ProcessEnter
  <2> QED BY <2>1, <2>6 DEF QueueTypeOK, LoopTypeOK, ReadyInRange, boundVars
<1> QED BY <1>1, <1>2, <1>3, <1>4, <1>5, <1>6, <1>7, <1>8 DEF Loop

(* The steps of other threads, children and time. *)
LEMMA EnvironmentTypeInv ==
    ASSUME TypeInv, Environment
    PROVE  TypeInv'
<1> USE DEF TypeInv, TypeOK
<1>1. PICK s \in Session : DirectWrite(s) \/ SessionEnds(s) \/ BecomeIdle(s)
  BY DEF Environment
<1>2. UNCHANGED <<loopVars, queueVars, unfired, typed>>
  BY <1>1 DEF DirectWrite, SessionEnds, BecomeIdle, boundVars
<1>3. LoopTypeOK' /\ QueueTypeOK' /\ ReadyInRange' /\ typed' \in Nat
  BY <1>2 DEF loopVars, queueVars, LoopTypeOK, QueueTypeOK, ReadyInRange
<1>4. CASE DirectWrite(s)
  <2>1. UNCHANGED status /\ direct' \in Nat
    BY <1>4 DEF DirectWrite
  <2>2. SessionTypeOK' /\ ChildTypeOK'
    BY <1>4, <2>1, TypeTextType, PressEnterType, SendFailsType DEF DirectWrite
  <2> QED BY <1>3, <2>1, <2>2
<1>5. CASE SessionEnds(s) \/ BecomeIdle(s)
  BY <1>3, <1>5 DEF SessionEnds, BecomeIdle, boundVars, childVars, SessionTypeOK, ChildTypeOK
<1> QED BY <1>1, <1>4, <1>5

(* TypeOK holds in every reachable state: in particular every queued text  *)
(* has an open chunk within its length, so drain_scheduler neither slices  *)
(* out of bounds nor stops making progress.                                *)
THEOREM TypeCorrect == Spec => []TypeOK
<1>1. TypeInv /\ [Next]_vars => TypeInv'
  <2> SUFFICES ASSUME TypeInv, [Next]_vars PROVE TypeInv'
    OBVIOUS
  <2>1. CASE Next
    BY <2>1, LoopTypeInv, EnvironmentTypeInv DEF Next
  <2>2. CASE UNCHANGED vars
    BY <2>2 DEF vars, sessionVars, queueVars, loopVars, childVars, boundVars, TypeInv, TypeOK,
                SessionTypeOK, LoopTypeOK, QueueTypeOK, ChildTypeOK, ReadyInRange
  <2> QED BY <2>1, <2>2
<1>2. TypeInv => TypeOK
  BY DEF TypeInv
<1> QED BY InitTypeInv, <1>1, <1>2, PTL DEF Spec

-----------------------------------------------------------------------------
(* Which Enters are verified and retried: the stamps that                  *)
(* injected_enter.rs compares with last_input_time.                        *)

(* While its stamp is current, an entry knows what stands on the line: its *)
(* text before the first Enter, nothing after it.                          *)
Stamp(e) ==
    LET s == e.session
    IN  /\ e.inputAt <= lastInput[s]
        /\ e.inputAt = lastInput[s] =>
              IF e.armed THEN line[s] = {} /\ by[s] = e.msg ELSE e.msg \in line[s]

Stamps == \A i \in DOMAIN enters : Stamp(enters[i])

-----------------------------------------------------------------------------
(* Every step writes to at most one session, and a write moves its clock.  *)

Written(s) ==
    /\ lastInput' = [lastInput EXCEPT ![s] = @ + 1]
    /\ \A t \in Session \ {s} : line'[t] = line[t] /\ by'[t] = by[t]

OneWrite == UNCHANGED <<lastInput, line, by>> \/ \E s \in Session : Written(s)

LEMMA TypeTextWrites ==
    ASSUME ChildTypeOK, NEW s \in Session, NEW who, TypeText(s, who)
    PROVE  Written(s) /\ line'[s] = line[s] \cup {who}
BY DEF TypeText, Touch, Written, ChildTypeOK

LEMMA PressEnterWrites ==
    ASSUME ChildTypeOK, NEW s \in Session, NEW m, PressEnter(s, m)
    PROVE  Written(s) /\ line'[s] = {} /\ by'[s] = m
BY DEF PressEnter, Touch, Written, ChildTypeOK

LEMMA SilentWrites ==
    ASSUME NoTouch, NothingTyped
    PROVE  OneWrite
BY DEF NoTouch, NothingTyped, childVars, OneWrite

LEMMA SendFailsWrites ==
    ASSUME NEW s \in Session, SendFails(s)
    PROVE  OneWrite
BY DEF SendFails, NoTouch, Touch, NothingTyped, childVars, OneWrite, Written

LEMMA WriteUnitsWrites ==
    ASSUME ChildTypeOK, NEW s \in Session, NEW m \in Scheduled,
           NEW offset \in Nat, NEW n \in Nat, WriteUnits(s, m, offset, n)
    PROVE  /\ OneWrite
           /\ n > 0 /\ offset + n > 1 => m \in line'[s]
<1>1. CASE n = 0
  BY <1>1 DEF WriteUnits, NoTouch, OneWrite
<1>2. CASE n # 0
  <2>1. Written(s)
    BY <1>2 DEF WriteUnits, Touch, Written, ChildTypeOK
  <2>2. line'[s] = IF offset > 0 THEN line[s] \cup {m} ELSE IF n > 1 THEN {m} ELSE {}
    BY <1>2 DEF WriteUnits, ChildTypeOK
  <2> QED BY <2>1, <2>2 DEF OneWrite
<1> QED BY <1>1, <1>2

-----------------------------------------------------------------------------
(* Where the entries of the next state come from *)

Kept(f) == \E j \in DOMAIN enters : enters[j] = f

NewlyTyped(f) == /\ ~f.armed
                 /\ f.inputAt = lastInput'[f.session]
                 /\ f.msg \in line'[f.session]

Pressed(f) == /\ f.armed
              /\ f.inputAt = lastInput'[f.session]
              /\ line'[f.session] = {} /\ by'[f.session] = f.msg
              /\ Armed(f.msg) \/ f.msg \in line[f.session]

Checked(f) == /\ UNCHANGED <<lastInput, line, by>>
              /\ \E j \in DOMAIN enters :
                    /\ enters[j].armed /\ f.armed
                    /\ f.session = enters[j].session
                    /\ f.msg = enters[j].msg
                    /\ f.inputAt = enters[j].inputAt

From(f) == Kept(f) \/ NewlyTyped(f) \/ Pressed(f) \/ Checked(f)

EntersStep == \A i \in DOMAIN enters' : From(enters'[i])

LEMMA EntersUnchanged ==
    ASSUME UNCHANGED enters
    PROVE  EntersStep
BY DEF EntersStep, From, Kept

LEMMA EntersAppended ==
    ASSUME QueueTypeOK, NEW s, NEW m, m \in line'[s],
           enters' = Append(enters, NewEnter(s, m)), NewEnter(s, m) \in Entry
    PROVE  EntersStep
<1> DEFINE f == NewEnter(s, m)
<1>1. NewlyTyped(f)
  BY DEF NewlyTyped, NewEnter
<1>2. enters \in Seq(Entry)
  BY DEF QueueTypeOK
<1> HIDE DEF f
<1>3. ASSUME NEW i \in DOMAIN enters'
      PROVE  enters'[i] = f \/ Kept(enters'[i])
  BY <1>2, AppendProperties, LenProperties DEF f, Kept
<1> QED BY <1>1, <1>3 DEF EntersStep, From

LEMMA EntersRemoved ==
    ASSUME QueueTypeOK, pos \in 1 .. Len(enters), RemoveEnter
    PROVE  EntersStep
<1>1. /\ enters \in Seq(Entry) /\ Len(enters) \in Nat
      /\ DOMAIN enters = 1 .. Len(enters)
  BY LenProperties DEF QueueTypeOK
<1>2. /\ enters' \in Seq(Entry) /\ Len(enters') = Len(enters) - 1
      /\ \A j \in 1 .. Len(enters) - 1 :
            enters'[j] = IF j < pos THEN enters[j] ELSE enters[j + 1]
  BY <1>1, RemoveAtProperties DEF RemoveEnter
<1>3. DOMAIN enters' = 1 .. Len(enters) - 1
  BY <1>2, LenProperties
<1>4. ASSUME NEW i \in 1 .. Len(enters) - 1
      PROVE  Kept(enters'[i])
  <2>1. i \in DOMAIN enters /\ i + 1 \in DOMAIN enters
    BY <1>1
  <2>2. enters'[i] = enters[i] \/ enters'[i] = enters[i + 1]
    BY <1>2
  <2> QED BY <2>1, <2>2 DEF Kept
<1> QED BY <1>3, <1>4 DEF EntersStep, From

LEMMA EntersReplaced ==
    ASSUME QueueTypeOK, pos \in 1 .. Len(enters), NEW f \in Entry, From(f), KeepEnter(f)
    PROVE  EntersStep
<1>1. enters \in Seq(Entry) /\ DOMAIN enters = 1 .. Len(enters)
  BY LenProperties DEF QueueTypeOK
<1>2. /\ enters' \in Seq(Entry) /\ Len(enters') = Len(enters)
      /\ \A j \in 1 .. Len(enters) : enters'[j] = IF j = pos THEN f ELSE enters[j]
  BY <1>1, ExceptSeq DEF KeepEnter
<1>3. DOMAIN enters' = 1 .. Len(enters)
  BY <1>2, LenProperties
<1> QED BY <1>1, <1>2, <1>3 DEF EntersStep, From, Kept

-----------------------------------------------------------------------------
(* Every step of the specification is of that kind *)

LEMMA WriteFrontEnters ==
    ASSUME SessionTypeOK, ChildTypeOK, QueueTypeOK, UNCHANGED status,
           NEW k \in Key, Present(k), NEW queue \in Seq(Input), queue # <<>>,
           WriteFront(k, queue)
    PROVE  OneWrite /\ EntersStep
<1> DEFINE s == Resolve(k)
           input == Head(queue)
<1>1. s \in Session
  BY PresentSession
<1>2. input \in Input
  BY HeadTailProperties
<1> HIDE DEF input
<1>3. /\ input.msg \in Scheduled /\ input.msg \in Message
      /\ input.offset \in Nat /\ input.chunkEnd \in Nat
      /\ input.offset < input.chunkEnd /\ input.chunkEnd <= Size[input.msg]
      /\ Size[input.msg] \in Nat /\ Size[input.msg] > 1
  BY <1>2, TableAssumption DEF Input, Message
<1>4. PICK n \in 0 .. input.chunkEnd - input.offset :
        /\ WriteUnits(s, input.msg, input.offset, n)
        /\ IF input.offset + n = Size[input.msg]
           THEN enters' = Append(enters, NewEnter(s, input.msg))
           ELSE UNCHANGED enters
  BY DEF WriteFront, input
<1>5. /\ OneWrite
      /\ n > 0 /\ input.offset + n > 1 => input.msg \in line'[s]
  BY <1>1, <1>3, <1>4, WriteUnitsWrites
<1>6. CASE input.offset + n = Size[input.msg]
  <2>1. n > 0 /\ input.offset + n > 1
    BY <1>3, <1>6
  <2>2. NewEnter(s, input.msg) \in Entry
    BY <1>1, <1>3, <1>4, WriteUnitsType, NewEnterType
  <2> QED BY <1>4, <1>5, <1>6, <2>1, <2>2, EntersAppended
<1>7. CASE input.offset + n # Size[input.msg]
  BY <1>4, <1>5, <1>7, EntersUnchanged
<1> QED BY <1>6, <1>7

LEMMA DrainSchedulerEnters ==
    ASSUME SessionTypeOK, ChildTypeOK, QueueTypeOK, UNCHANGED status,
           NEW k \in Key, Present(k), NEW queue \in Seq(Input), queue # <<>>,
           DrainScheduler(k, queue)
    PROVE  OneWrite /\ EntersStep
<1>1. CASE WriteFront(k, queue)
  BY <1>1, WriteFrontEnters
<1>2. CASE NoTouch /\ NothingTyped /\ UNCHANGED enters
  BY <1>2, SilentWrites, EntersUnchanged
<1> QED BY <1>1, <1>2 DEF DrainScheduler

LEMMA SendSchedulerEnters ==
    ASSUME SessionTypeOK, ChildTypeOK, QueueTypeOK, UNCHANGED status,
           NEW k \in Key, Present(k), NEW m \in Scheduled, SendScheduler(k, m)
    PROVE  OneWrite /\ EntersStep
<1> DEFINE s == Resolve(k)
           queue == Enqueue(sched[k], Fresh(m))
<1>1. s \in Session /\ m \in Message /\ Size[m] \in Nat /\ Size[m] > 1
  BY PresentSession, TableAssumption DEF Message
<1>2. queue \in Seq(Input) /\ queue # <<>>
  <2>1. sched[k] \in Seq(Input)
    BY DEF QueueTypeOK
  <2> QED BY <2>1, FreshType, AppendProperties, EmptySeq DEF Enqueue
<1> HIDE DEF queue
<1>3. CASE DrainScheduler(k, queue)
  BY <1>2, <1>3, DrainSchedulerEnters
<1>4. CASE NoTouch /\ NothingTyped /\ UNCHANGED enters
  BY <1>4, SilentWrites, EntersUnchanged
<1>5. CASE WriteUnits(s, m, 0, Size[m]) /\ enters' = Append(enters, NewEnter(s, m))
  <2>1. OneWrite /\ m \in line'[s]
    BY <1>1, <1>5, WriteUnitsWrites
  <2>2. NewEnter(s, m) \in Entry
    BY <1>1, <1>5, WriteUnitsType, NewEnterType
  <2> QED BY <1>5, <2>1, <2>2, EntersAppended
<1>6. CASE (\E n \in 1 .. Size[m] - 1 : WriteUnits(s, m, 0, n)) /\ UNCHANGED enters
  BY <1>1, <1>6, WriteUnitsWrites, EntersUnchanged
<1>7. CASE SendFails(s) /\ UNCHANGED enters
  BY <1>1, <1>7, SendFailsWrites, EntersUnchanged
<1> QED BY <1>3, <1>4, <1>5, <1>6, <1>7 DEF SendScheduler, queue

(* One pass over the delayed Enters. *)
LEMMA ProcessEnterEnters ==
    ASSUME TypeInv, Stamps, NEW m \in Message, NotDue(m) \/ ProcessEnter(m)
    PROVE  OneWrite /\ EntersStep
<1> DEFINE e == enters[pos]
           s == e.session
<1>1. QueueTypeOK /\ SessionTypeOK /\ ChildTypeOK /\ LoopTypeOK
  BY DEF TypeInv, TypeOK
<1>2. /\ pos \in 1 .. Len(enters) /\ DOMAIN enters = 1 .. Len(enters)
      /\ UNCHANGED status
  BY <1>1, LenProperties DEF NotDue, ProcessEnter, FirstEnter, RetryEnter, GiveUp, OnEnter,
                             LoopTypeOK, QueueTypeOK
<1>3. e \in Entry /\ s \in Session
  <2>1. enters \in Seq(Entry)
    BY <1>1 DEF QueueTypeOK
  <2>2. e \in Entry
    BY <1>2, <2>1, ElementOfSeq
  <2> QED BY <2>2 DEF Entry
<1>4. Stamp(e)
  BY <1>2 DEF Stamps
<1>5. Kept(e) /\ (e.armed => Armed(e.msg))
  BY <1>2 DEF Kept, Armed
<1>6. SessionTypeOK' => lastInput'[s] \in Nat
  BY <1>3 DEF SessionTypeOK
<1>7. ASSUME RemoveEnter PROVE EntersStep
  BY <1>1, <1>2, <1>7, EntersRemoved
<1>8. ASSUME NEW f \in Entry, From(f), KeepEnter(f) PROVE EntersStep
  BY <1>1, <1>2, <1>8, EntersReplaced
<1>9. CASE NotDue(m)
  BY <1>3, <1>5, <1>8, <1>9, SilentWrites DEF NotDue, From
<1>10. CASE FirstEnter(m)
  <2>1. CASE /\ PressEnter(s, m) /\ ~e.armed /\ e.msg = m
             /\ IF Owned(e)
                THEN KeepEnter([e EXCEPT !.armed = TRUE, !.inputAt = lastInput'[s]])
                ELSE RemoveEnter
    <3> DEFINE f == [e EXCEPT !.armed = TRUE, !.inputAt = lastInput'[s]]
    <3>1. Written(s) /\ line'[s] = {} /\ by'[s] = m
      BY <1>1, <1>3, <2>1, PressEnterWrites
    <3>2. SessionTypeOK'
      BY <1>1, <1>2, <1>3, <2>1, PressEnterType
    <3>3. CASE ~Owned(e)
      BY <1>3, <1>7, <2>1, <3>1, <3>3 DEF OneWrite
    <3>4. CASE Owned(e)
      <4>1. e.msg \in line[s]
        BY <1>4, <2>1, <3>4 DEF Owned, Stamp
      <4>2. /\ f \in Entry /\ f.session = s /\ f.msg = m /\ f.armed
            /\ f.inputAt = lastInput'[s]
        BY <1>3, <1>6, <2>1, <3>2 DEF Entry
      <4>3. From(f)
        BY <2>1, <3>1, <4>1, <4>2 DEF From, Pressed
      <4> QED BY <1>3, <1>8, <2>1, <3>1, <3>4, <4>2, <4>3 DEF OneWrite
    <3> QED BY <3>3, <3>4
  <2>2. CASE RemoveEnter /\ SendFails(s)
    BY <1>3, <1>7, <2>2, SendFailsWrites
  <2> QED BY <1>10, <2>1, <2>2 DEF FirstEnter, OnEnter
<1>11. CASE RetryEnter(m)
  <2>0. e.armed /\ e.msg = m /\ e.checks + 1 \in 0 .. RetryChecks
    BY <1>3, <1>11, LimitAssumption DEF RetryEnter, OnEnter, Exhausted, Entry
  <2>1. CASE KeepEnter([e EXCEPT !.checks = @ + 1]) /\ NoTouch /\ NothingTyped
    <3> DEFINE f == [e EXCEPT !.checks = @ + 1]
    <3>1. /\ f \in Entry /\ f.session = s /\ f.msg = e.msg
          /\ f.armed = e.armed /\ f.inputAt = e.inputAt
      BY <1>3, <2>0 DEF Entry
    <3>2. UNCHANGED <<lastInput, line, by>>
      BY <2>1 DEF NoTouch, NothingTyped, childVars
    <3>3. From(f)
      BY <1>2, <2>0, <3>1, <3>2 DEF From, Checked
    <3> QED BY <1>8, <2>1, <3>1, <3>3, SilentWrites
  <2>2. CASE /\ PressEnter(s, m)
             /\ KeepEnter([e EXCEPT !.checks = @ + 1, !.inputAt = lastInput'[s]])
    <3> DEFINE f == [e EXCEPT !.checks = @ + 1, !.inputAt = lastInput'[s]]
    <3>1. Written(s) /\ line'[s] = {} /\ by'[s] = m
      BY <1>1, <1>3, <2>2, PressEnterWrites
    <3>2. SessionTypeOK'
      BY <1>1, <1>2, <1>3, <2>2, PressEnterType
    <3>3. /\ f \in Entry /\ f.session = s /\ f.msg = m /\ f.armed
          /\ f.inputAt = lastInput'[s]
      BY <1>3, <1>6, <2>0, <3>2 DEF Entry
    <3>4. From(f)
      BY <1>5, <2>0, <3>1, <3>3 DEF From, Pressed
    <3> QED BY <1>3, <1>8, <2>2, <3>1, <3>3, <3>4 DEF OneWrite
  <2>3. CASE RemoveEnter /\ SendFails(s)
    BY <1>3, <1>7, <2>3, SendFailsWrites
  <2> QED BY <1>11, <2>1, <2>2, <2>3 DEF RetryEnter
<1>12. CASE GiveUp(m)
  BY <1>7, <1>12, SilentWrites DEF GiveUp
<1> QED BY <1>9, <1>10, <1>11, <1>12 DEF ProcessEnter

LEMMA StepEnters ==
    ASSUME TypeInv, Stamps, Next
    PROVE  OneWrite /\ EntersStep
<1>1. QueueTypeOK /\ SessionTypeOK /\ ChildTypeOK /\ LoopTypeOK
  BY DEF TypeInv, TypeOK
<1>2. ASSUME NEW k \in Key, DrainKey(k)
      PROVE  OneWrite /\ EntersStep
  <2>1. UNCHANGED status
    BY <1>2 DEF DrainKey
  <2>2. CASE NoTouch /\ NothingTyped /\ UNCHANGED enters
    BY <2>2, SilentWrites, EntersUnchanged
  <2>3. CASE k \in Session /\ TypeText(k, Other) /\ UNCHANGED enters
    BY <1>1, <2>3, TypeTextWrites, EntersUnchanged DEF OneWrite
  <2>4. CASE Present(k) /\ sched[k] # <<>> /\ DrainScheduler(k, sched[k])
    BY <1>1, <2>1, <2>4, DrainSchedulerEnters DEF QueueTypeOK
  <2> QED BY <1>2, <2>2, <2>3, <2>4 DEF DrainKey
<1>3. ASSUME \/ EndDrain \/ Quit \/ Skip \/ CheckSessionExit \/ EndEvents \/ EndDeferred
             \/ EndEnters \/ CheckDeferred \/ SyncSessionOrder
             \/ \E s \in Session : UserInput(s) \/ SessionEnds(s) \/ BecomeIdle(s)
             \/ \E m \in Injected : QueueInjection(m)
      PROVE  OneWrite /\ EntersStep
  <2>1. UNCHANGED <<lastInput, line, by, enters>>
    BY <1>3 DEF EndDrain, Quit, Skip, CheckSessionExit, EndEvents, EndDeferred, EndEnters,
                CheckDeferred, SyncSessionOrder, UserInput, SessionEnds, BecomeIdle,
                QueueInjection, sessionVars, queueVars, childVars
  <2> QED BY <2>1, EntersUnchanged DEF OneWrite
<1>4. CASE Inject
  <2> DEFINE m == Head(injections)
             s == Resolve(Target[m])
  <2>1. m \in Message
    BY <1>1, <1>4, HeadTailProperties DEF Inject, QueueTypeOK, Message
  <2>2. s \in Session
    BY <1>1, <1>4, HeadTailProperties, TableAssumption DEF Inject, QueueTypeOK, Message, Resolve, Key
  <2> HIDE DEF m, s
  <2>3. CASE TypeText(s, m) /\ enters' = Append(enters, NewEnter(s, m))
    <3>1. Written(s) /\ m \in line'[s]
      BY <1>1, <2>2, <2>3, TypeTextWrites
    <3>2. UNCHANGED status
      BY <1>4 DEF Inject
    <3>3. NewEnter(s, m) \in Entry
      BY <1>1, <2>1, <2>2, <2>3, <3>2, TypeTextType, NewEnterType
    <3> QED BY <1>1, <2>2, <2>3, <3>1, <3>3, EntersAppended DEF OneWrite
  <2>4. CASE TypeText(s, m) /\ UNCHANGED enters
    BY <1>1, <2>2, <2>4, TypeTextWrites, EntersUnchanged DEF OneWrite
  <2>5. CASE SendFails(s) /\ UNCHANGED enters
    BY <2>2, <2>5, SendFailsWrites, EntersUnchanged
  <2> QED BY <1>4, <2>3, <2>4, <2>5 DEF Inject, m, s
<1>5. ASSUME NEW m \in Scheduled, HandleEvent(m)
      PROVE  OneWrite /\ EntersStep
  <2> DEFINE k == TargetKey(m)
  <2>1. CASE UNCHANGED <<lastInput, enters, childVars>>
    BY <2>1, EntersUnchanged DEF OneWrite, childVars
  <2>2. CASE Present(k) /\ SendScheduler(Resolve(k), m)
    <3>1. Resolve(k) \in Key /\ Present(Resolve(k))
      BY <2>2, PresentSession DEF Key, Present, Resolve
    <3>2. UNCHANGED status
      BY <1>5 DEF HandleEvent
    <3> QED BY <1>1, <2>2, <3>1, <3>2, SendSchedulerEnters
  <2> QED BY <1>5, <2>1, <2>2 DEF HandleEvent
<1>6. CASE SendDeferred
  <2> DEFINE m == deferred[pos]
             k == TargetKey(m)
  <2>1. m \in Scheduled
    BY <1>1, <1>6, ElementOfSeq DEF SendDeferred, ReadyInRange, QueueTypeOK, TypeInv
  <2> HIDE DEF m
  <2>2. CASE UNCHANGED <<lastInput, enters, childVars>>
    BY <2>2, EntersUnchanged DEF OneWrite, childVars
  <2>3. CASE Present(k) /\ SendScheduler(k, m)
    <3>1. UNCHANGED status
      BY <1>6 DEF SendDeferred
    <3> QED BY <1>1, <2>1, <2>3, <3>1, PresentSession, SendSchedulerEnters
  <2> QED BY <1>6, <2>2, <2>3 DEF SendDeferred, DeferredQueue, m
<1>7. ASSUME NEW s \in Session, DirectWrite(s)
      PROVE  OneWrite /\ EntersStep
  <2>1. UNCHANGED enters
    BY <1>7 DEF DirectWrite, queueVars
  <2>2. CASE TypeText(s, Other) \/ PressEnter(s, None)
    BY <1>1, <2>1, <2>2, TypeTextWrites, PressEnterWrites, EntersUnchanged DEF OneWrite
  <2>3. CASE SendFails(s)
    BY <2>1, <2>3, SendFailsWrites, EntersUnchanged
  <2> QED BY <1>7, <2>2, <2>3 DEF DirectWrite
<1> QED BY <1>2, <1>3, <1>4, <1>5, <1>6, <1>7, ProcessEnterEnters DEF Next, Loop, Environment

-----------------------------------------------------------------------------
(* The stamps stay truthful, and only an Enter of its own text arms one. *)

LEMMA StampsPreserved ==
    ASSUME TypeInv, TypeInv', Stamps, OneWrite, EntersStep
    PROVE  Stamps'
<1> SUFFICES ASSUME NEW i \in DOMAIN enters'
             PROVE  Stamp(enters[i])'
  BY DEF Stamps
<1> DEFINE f == enters'[i]
           s == f.session
<1>1. f \in Entry /\ s \in Session
  <2>1. enters' \in Seq(Entry)
    BY DEF TypeInv, TypeOK, QueueTypeOK
  <2>2. f \in Entry
    BY <2>1, LenProperties, ElementOfSeq
  <2> QED BY <2>2 DEF Entry
<1>2. lastInput[s] \in Nat /\ lastInput'[s] \in Nat /\ lastInput \in [Session -> Nat]
  BY <1>1 DEF TypeInv, TypeOK, SessionTypeOK
<1> SUFFICES /\ f.inputAt <= lastInput'[s]
             /\ f.inputAt = lastInput'[s] =>
                   IF f.armed THEN line'[s] = {} /\ by'[s] = f.msg ELSE f.msg \in line'[s]
  BY DEF Stamp
<1> HIDE DEF f
<1>3. f.inputAt \in Nat /\ f.armed \in BOOLEAN
  BY <1>1 DEF Entry
<1>4. From(f)
  BY DEF EntersStep, f
<1>5. CASE Kept(f)
  <2>1. Stamp(f)
    BY <1>5 DEF Kept, Stamps
  <2>2. CASE UNCHANGED <<lastInput, line, by>>
    BY <2>1, <2>2 DEF Stamp
  <2>3. ASSUME NEW t \in Session, Written(t)
        PROVE  /\ f.inputAt <= lastInput'[s]
               /\ f.inputAt = lastInput'[s] =>
                     IF f.armed THEN line'[s] = {} /\ by'[s] = f.msg ELSE f.msg \in line'[s]
    <3>1. CASE s = t
      BY <1>2, <1>3, <2>1, <2>3, <3>1 DEF Stamp, Written
    <3>2. CASE s # t
      <4>1. lastInput'[s] = lastInput[s] /\ line'[s] = line[s] /\ by'[s] = by[s]
        BY <1>1, <1>2, <2>3, <3>2 DEF Written
      <4> QED BY <2>1, <4>1 DEF Stamp
    <3> QED BY <3>1, <3>2
  <2> QED BY <2>2, <2>3 DEF OneWrite
<1>6. CASE NewlyTyped(f)
  BY <1>2, <1>6 DEF NewlyTyped
<1>7. CASE Pressed(f)
  BY <1>2, <1>7 DEF Pressed
<1>8. CASE Checked(f)
  BY <1>8 DEF Checked, Stamps, Stamp
<1> QED BY <1>4, <1>5, <1>6, <1>7, <1>8 DEF From

EnterInv == TypeInv /\ Stamps

LEMMA EnterInvariant == Spec => []EnterInv
<1>1. Init => EnterInv
  <2>1. Init => TypeInv
    BY InitTypeInv
  <2>2. Init => Stamps
    BY EmptySeq, LenProperties DEF Init, Stamps
  <2> QED BY <2>1, <2>2 DEF EnterInv
<1>2. EnterInv /\ [Next]_vars => EnterInv'
  <2> SUFFICES ASSUME EnterInv, [Next]_vars PROVE EnterInv'
    OBVIOUS
  <2>1. CASE Next
    <3>1. TypeInv'
      BY <2>1, LoopTypeInv, EnvironmentTypeInv DEF Next, EnterInv
    <3>2. OneWrite /\ EntersStep
      BY <2>1, StepEnters DEF EnterInv
    <3> QED BY <3>1, <3>2, StampsPreserved DEF EnterInv
  <2>2. CASE UNCHANGED vars
    BY <2>2 DEF vars, sessionVars, queueVars, loopVars, childVars, boundVars, EnterInv, TypeInv,
                TypeOK, SessionTypeOK, LoopTypeOK, QueueTypeOK, ChildTypeOK, ReadyInRange,
                Stamps, Stamp
  <2> QED BY <2>1, <2>2
<1> QED BY <1>1, <1>2, PTL DEF Spec

(* drain_delayed_enters arms an entry for verification and retries only in *)
(* a step that pressed Enter on a line holding the entry's own text, and   *)
(* that cleared the line.                                                  *)
THEOREM ArmsOwnText == Spec => ArmedBySubmitting
<1> DEFINE Arms == \A i \in DOMAIN enters' :
                      enters'[i].armed /\ ~Armed(enters'[i].msg) =>
                         LET s == enters'[i].session
                         IN  enters'[i].msg \in line[s] /\ line'[s] = {}
<1>1. EnterInv /\ [Next]_vars => [Arms]_vars
  <2> SUFFICES ASSUME EnterInv, Next PROVE Arms
    OBVIOUS
  <2>1. EntersStep
    BY StepEnters DEF EnterInv
  <2> SUFFICES ASSUME NEW i \in DOMAIN enters', enters'[i].armed, ~Armed(enters'[i].msg)
               PROVE  LET s == enters'[i].session
                      IN  enters'[i].msg \in line[s] /\ line'[s] = {}
    OBVIOUS
  <2> DEFINE f == enters'[i]
  <2>2. From(f)
    BY <2>1 DEF EntersStep
  <2> HIDE DEF f
  <2>3. ~Kept(f) /\ ~Checked(f) /\ ~NewlyTyped(f)
    BY DEF f, Kept, Checked, NewlyTyped, Armed
  <2> QED BY <2>2, <2>3 DEF From, Pressed, f
<1>2. Spec => []EnterInv
  BY EnterInvariant
<1> QED BY <1>1, <1>2, PTL DEF Spec, ArmedBySubmitting

-----------------------------------------------------------------------------
(* Where a message is: in at most one of the queues, once; and a session is*)
(* typed one text at a time.                                               *)

-----------------------------------------------------------------------------
(* Queues of messages, and of records that carry one *)

MsgsOf(q) == {q[i].msg : i \in DOMAIN q}

OncePerMsg(q) == \A i, j \in DOMAIN q : q[i].msg = q[j].msg => i = j

LEMMA AppendMsgs ==
    ASSUME NEW S, NEW q \in Seq(S), NEW e \in S
    PROVE  /\ MsgsOf(Append(q, e)) = MsgsOf(q) \cup {e.msg}
           /\ OncePerMsg(q) /\ e.msg \notin MsgsOf(q) => OncePerMsg(Append(q, e))
<1> DEFINE p == Append(q, e)
<1>1. /\ p \in Seq(S) /\ Len(p) = Len(q) + 1
      /\ \A i \in 1 .. Len(q) : p[i] = q[i]
      /\ p[Len(q) + 1] = e
  BY AppendProperties
<1>2. Len(q) \in Nat /\ DOMAIN q = 1 .. Len(q) /\ DOMAIN p = 1 .. Len(q) + 1
  BY <1>1, LenProperties
<1> HIDE DEF p
<1>3. MsgsOf(p) = MsgsOf(q) \cup {e.msg}
  BY <1>1, <1>2 DEF MsgsOf
<1>4. OncePerMsg(q) /\ e.msg \notin MsgsOf(q) => OncePerMsg(p)
  <2> SUFFICES ASSUME OncePerMsg(q), e.msg \notin MsgsOf(q),
                      NEW i \in 1 .. Len(q) + 1, NEW j \in 1 .. Len(q) + 1,
                      p[i].msg = p[j].msg
               PROVE  i = j
    BY <1>2 DEF OncePerMsg
  <2>1. \A n \in 1 .. Len(q) : q[n].msg # e.msg
    BY <1>2 DEF MsgsOf
  <2> QED BY <1>1, <1>2, <2>1 DEF OncePerMsg
<1> QED BY <1>3, <1>4 DEF p

LEMMA TailMsgs ==
    ASSUME NEW S, NEW q \in Seq(S), q # <<>>, OncePerMsg(q)
    PROVE  /\ MsgsOf(Tail(q)) = MsgsOf(q) \ {Head(q).msg}
           /\ Head(q).msg \in MsgsOf(q)
           /\ OncePerMsg(Tail(q))
<1>1. /\ Tail(q) \in Seq(S) /\ Len(Tail(q)) = Len(q) - 1
      /\ \A i \in 1 .. Len(Tail(q)) : Tail(q)[i] = q[i + 1]
  BY HeadTailProperties
<1>2. Len(q) \in Nat \ {0} /\ DOMAIN q = 1 .. Len(q) /\ DOMAIN Tail(q) = 1 .. Len(q) - 1
  BY <1>1, LenProperties, EmptySeq
<1>3. Head(q) = q[1]
  OBVIOUS
<1>4. \A i \in 2 .. Len(q) : q[i].msg # Head(q).msg
  BY <1>2, <1>3 DEF OncePerMsg
<1>5. OncePerMsg(Tail(q))
  BY <1>1, <1>2 DEF OncePerMsg
<1>6. ASSUME NEW x PROVE x \in MsgsOf(Tail(q)) <=> x \in MsgsOf(q) /\ x # Head(q).msg
  <2>1. ASSUME x \in MsgsOf(Tail(q)) PROVE x \in MsgsOf(q) /\ x # Head(q).msg
    BY <1>1, <1>2, <1>4, <2>1 DEF MsgsOf
  <2>2. ASSUME x \in MsgsOf(q), x # Head(q).msg PROVE x \in MsgsOf(Tail(q))
    <3>1. PICK i \in 1 .. Len(q) : x = q[i].msg
      BY <1>2, <2>2 DEF MsgsOf
    <3>2. i - 1 \in 1 .. Len(q) - 1 /\ (i - 1) + 1 = i
      BY <1>2, <1>3, <2>2, <3>1
    <3> QED BY <1>1, <1>2, <3>1, <3>2 DEF MsgsOf
  <2> QED BY <2>1, <2>2
<1> QED BY <1>2, <1>3, <1>5, <1>6 DEF MsgsOf

LEMMA RemoveMsgs ==
    ASSUME NEW S, NEW q \in Seq(S), NEW n \in 1 .. Len(q), OncePerMsg(q)
    PROVE  /\ MsgsOf(RemoveAt(q, n)) = MsgsOf(q) \ {q[n].msg}
           /\ OncePerMsg(RemoveAt(q, n))
<1> DEFINE p == RemoveAt(q, n)
<1>1. /\ p \in Seq(S) /\ Len(p) = Len(q) - 1
      /\ \A j \in 1 .. Len(q) - 1 : p[j] = IF j < n THEN q[j] ELSE q[j + 1]
  BY RemoveAtProperties
<1>2. Len(q) \in Nat /\ DOMAIN q = 1 .. Len(q) /\ DOMAIN p = 1 .. Len(q) - 1
  BY <1>1, LenProperties
<1> HIDE DEF p
<1>3. \A i \in 1 .. Len(q) : i # n => q[i].msg # q[n].msg
  BY <1>2 DEF OncePerMsg
<1> DEFINE At(i) == IF i < n THEN i ELSE i + 1
<1>6. ASSUME NEW i \in 1 .. Len(q) - 1
      PROVE  At(i) \in 1 .. Len(q) /\ At(i) # n /\ p[i] = q[At(i)]
  BY <1>1, <1>2
<1>4. OncePerMsg(p)
  <2> SUFFICES ASSUME NEW i \in 1 .. Len(q) - 1, NEW j \in 1 .. Len(q) - 1, p[i].msg = p[j].msg
               PROVE  i = j
    BY <1>2 DEF OncePerMsg
  <2>1. At(i) = At(j)
    BY <1>2, <1>6 DEF OncePerMsg
  <2> QED BY <1>2, <2>1
<1>5. ASSUME NEW x PROVE x \in MsgsOf(p) <=> x \in MsgsOf(q) /\ x # q[n].msg
  <2>1. ASSUME x \in MsgsOf(p) PROVE x \in MsgsOf(q) /\ x # q[n].msg
    <3>1. PICK i \in 1 .. Len(q) - 1 : x = p[i].msg
      BY <1>2, <2>1 DEF MsgsOf
    <3> QED BY <1>2, <1>3, <1>6, <3>1 DEF MsgsOf
  <2>2. ASSUME x \in MsgsOf(q), x # q[n].msg PROVE x \in MsgsOf(p)
    <3>1. PICK i \in 1 .. Len(q) : x = q[i].msg
      BY <1>2, <2>2 DEF MsgsOf
    <3>2. CASE i < n
      <4>1. i \in 1 .. Len(q) - 1 /\ p[i] = q[i]
        BY <1>1, <1>2, <3>2
      <4> QED BY <1>2, <3>1, <4>1 DEF MsgsOf
    <3>3. CASE i > n
      <4>1. i - 1 \in 1 .. Len(q) - 1 /\ ~(i - 1 < n) /\ (i - 1) + 1 = i
        BY <1>2, <3>3
      <4> QED BY <1>1, <1>2, <3>1, <4>1 DEF MsgsOf
    <3> QED BY <2>2, <3>1, <3>2, <3>3
  <2> QED BY <2>1, <2>2
<1> QED BY <1>4, <1>5 DEF p

LEMMA ReplaceMsgs ==
    ASSUME NEW S, NEW q \in Seq(S), NEW n \in 1 .. Len(q), NEW e \in S, e.msg = q[n].msg
    PROVE  /\ MsgsOf([q EXCEPT ![n] = e]) = MsgsOf(q)
           /\ OncePerMsg(q) => OncePerMsg([q EXCEPT ![n] = e])
<1> DEFINE p == [q EXCEPT ![n] = e]
<1>1. /\ p \in Seq(S) /\ Len(p) = Len(q)
      /\ \A j \in 1 .. Len(q) : p[j] = IF j = n THEN e ELSE q[j]
  BY ExceptSeq
<1>2. DOMAIN q = 1 .. Len(q) /\ DOMAIN p = 1 .. Len(q)
  BY <1>1, LenProperties
<1> HIDE DEF p
<1>3. \A j \in 1 .. Len(q) : p[j].msg = q[j].msg
  BY <1>1
<1> QED BY <1>2, <1>3 DEF p, MsgsOf, OncePerMsg

(* The same for queues that hold the messages themselves.                  *)
LEMMA AppendElements ==
    ASSUME NEW S, NEW q \in Seq(S), NEW e \in S
    PROVE  /\ ToSet(Append(q, e)) = ToSet(q) \cup {e}
           /\ IsInjective(q) /\ e \notin ToSet(q) => IsInjective(Append(q, e))
<1> DEFINE p == Append(q, e)
<1>1. /\ p \in Seq(S) /\ Len(p) = Len(q) + 1
      /\ \A i \in 1 .. Len(q) : p[i] = q[i]
      /\ p[Len(q) + 1] = e
  BY AppendProperties
<1>2. Len(q) \in Nat /\ DOMAIN q = 1 .. Len(q) /\ DOMAIN p = 1 .. Len(q) + 1
  BY <1>1, LenProperties
<1> HIDE DEF p
<1>3. ToSet(p) = ToSet(q) \cup {e}
  BY <1>1, <1>2 DEF ToSet
<1>4. IsInjective(q) /\ e \notin ToSet(q) => IsInjective(p)
  <2> SUFFICES ASSUME IsInjective(q), e \notin ToSet(q),
                      NEW i \in 1 .. Len(q) + 1, NEW j \in 1 .. Len(q) + 1, p[i] = p[j]
               PROVE  i = j
    BY <1>2 DEF IsInjective
  <2>1. \A n \in 1 .. Len(q) : q[n] # e
    BY <1>2 DEF ToSet
  <2> QED BY <1>1, <1>2, <2>1 DEF IsInjective
<1> QED BY <1>3, <1>4 DEF p

LEMMA TailElements ==
    ASSUME NEW S, NEW q \in Seq(S), q # <<>>, IsInjective(q)
    PROVE  /\ ToSet(Tail(q)) = ToSet(q) \ {Head(q)}
           /\ Head(q) \in ToSet(q)
           /\ IsInjective(Tail(q))
<1>1. /\ Tail(q) \in Seq(S) /\ Len(Tail(q)) = Len(q) - 1
      /\ \A i \in 1 .. Len(Tail(q)) : Tail(q)[i] = q[i + 1]
  BY HeadTailProperties
<1>2. Len(q) \in Nat \ {0} /\ DOMAIN q = 1 .. Len(q) /\ DOMAIN Tail(q) = 1 .. Len(q) - 1
  BY <1>1, LenProperties, EmptySeq
<1>3. Head(q) = q[1]
  OBVIOUS
<1>4. \A i \in 2 .. Len(q) : q[i] # Head(q)
  BY <1>2, <1>3 DEF IsInjective
<1>5. IsInjective(Tail(q))
  BY <1>1, <1>2 DEF IsInjective
<1>6. ASSUME NEW x PROVE x \in ToSet(Tail(q)) <=> x \in ToSet(q) /\ x # Head(q)
  <2>1. ASSUME x \in ToSet(Tail(q)) PROVE x \in ToSet(q) /\ x # Head(q)
    BY <1>1, <1>2, <1>4, <2>1 DEF ToSet
  <2>2. ASSUME x \in ToSet(q), x # Head(q) PROVE x \in ToSet(Tail(q))
    <3>1. PICK i \in 1 .. Len(q) : x = q[i]
      BY <1>2, <2>2 DEF ToSet
    <3>2. i - 1 \in 1 .. Len(q) - 1 /\ (i - 1) + 1 = i
      BY <1>2, <1>3, <2>2, <3>1
    <3> QED BY <1>1, <1>2, <3>1, <3>2 DEF ToSet
  <2> QED BY <2>1, <2>2
<1>7. ToSet(Tail(q)) = ToSet(q) \ {Head(q)}
  BY <1>6
<1>8. Head(q) \in ToSet(q)
  <2>1. 1 \in DOMAIN q
    BY <1>2
  <2> QED BY <1>3, <2>1 DEF ToSet
<1> QED BY <1>5, <1>7, <1>8

LEMMA RemoveElements ==
    ASSUME NEW S, NEW q \in Seq(S), NEW n \in 1 .. Len(q), IsInjective(q)
    PROVE  /\ ToSet(RemoveAt(q, n)) = ToSet(q) \ {q[n]}
           /\ q[n] \in ToSet(q)
           /\ IsInjective(RemoveAt(q, n))
<1> DEFINE p == RemoveAt(q, n)
<1>1. /\ p \in Seq(S) /\ Len(p) = Len(q) - 1
      /\ \A j \in 1 .. Len(q) - 1 : p[j] = IF j < n THEN q[j] ELSE q[j + 1]
  BY RemoveAtProperties
<1>2. Len(q) \in Nat /\ DOMAIN q = 1 .. Len(q) /\ DOMAIN p = 1 .. Len(q) - 1
  BY <1>1, LenProperties
<1> HIDE DEF p
<1>3. \A i \in 1 .. Len(q) : i # n => q[i] # q[n]
  BY <1>2 DEF IsInjective
<1>4. IsInjective(p)
  <2> SUFFICES ASSUME NEW i \in 1 .. Len(q) - 1, NEW j \in 1 .. Len(q) - 1, p[i] = p[j]
               PROVE  i = j
    BY <1>2 DEF IsInjective
  <2> DEFINE At(x) == IF x < n THEN x ELSE x + 1
  <2>1. At(i) \in 1 .. Len(q) /\ At(j) \in 1 .. Len(q)
    BY <1>2
  <2>2. q[At(i)] = q[At(j)]
    BY <1>1
  <2>3. At(i) = At(j)
    BY <1>2, <2>1, <2>2 DEF IsInjective
  <2> QED BY <1>2, <2>3
<1>5. ASSUME NEW x PROVE x \in ToSet(p) <=> x \in ToSet(q) /\ x # q[n]
  <2>1. ASSUME x \in ToSet(p) PROVE x \in ToSet(q) /\ x # q[n]
    BY <1>1, <1>2, <1>3, <2>1 DEF ToSet
  <2>2. ASSUME x \in ToSet(q), x # q[n] PROVE x \in ToSet(p)
    <3>1. PICK i \in 1 .. Len(q) : x = q[i]
      BY <1>2, <2>2 DEF ToSet
    <3>2. CASE i < n
      BY <1>1, <1>2, <3>1, <3>2 DEF ToSet
    <3>3. CASE i > n
      <4>1. i - 1 \in 1 .. Len(q) - 1 /\ ~(i - 1 < n) /\ (i - 1) + 1 = i
        BY <1>2, <3>3
      <4> QED BY <1>1, <1>2, <3>1, <4>1 DEF ToSet
    <3> QED BY <2>2, <3>1, <3>2, <3>3
  <2> QED BY <2>1, <2>2
<1> QED BY <1>2, <1>4, <1>5 DEF p, ToSet

-----------------------------------------------------------------------------
(* The stages a message goes through, and that the queues of one stage     *)
(* share no message with those of another.                                 *)

HeldMsgs == ToSet(deferred) \cup ToSet(injections)
TypingMsgs == UNION {MsgsOf(sched[k]) : k \in Key}
EnterMsgs == MsgsOf(enters)

TypingApart ==
    /\ \A k \in Key : OncePerMsg(sched[k])
    /\ \A k, l \in Key : k # l => MsgsOf(sched[k]) \cap MsgsOf(sched[l]) = {}
    /\ OncePerMsg(enters)
    /\ EnterMsgs \cap TypingMsgs = {}

HeldApart ==
    /\ IsInjective(deferred) /\ IsInjective(injections)
    /\ ToSet(deferred) \cap ToSet(injections) = {}

StagesApart ==
    /\ unfired \cap (HeldMsgs \cup TypingMsgs \cup EnterMsgs) = {}
    /\ HeldMsgs \cap (TypingMsgs \cup EnterMsgs) = {}

Apart == TypingApart /\ HeldApart /\ StagesApart

-----------------------------------------------------------------------------
(* What a write does to the texts being typed and to the entries: M are    *)
(* the messages it may take from earlier stages.                           *)

EntersFrom(M) ==
    \A i \in DOMAIN enters' :
        Kept(enters'[i]) \/ (~enters'[i].armed /\ enters'[i].msg \in M)

TypingStep(M) ==
    /\ TypingApart'
    /\ TypingMsgs' \subseteq TypingMsgs \cup M
    /\ EntersFrom(TypingMsgs \cup M)

LEMMA KeptMsgs ==
    ASSUME NEW M, EntersFrom(M)
    PROVE  EnterMsgs' \subseteq EnterMsgs \cup M
BY DEF EntersFrom, Kept, EnterMsgs, MsgsOf

LEMMA EntersFromSame ==
    ASSUME NEW M, UNCHANGED enters
    PROVE  EntersFrom(M)
BY DEF EntersFrom, Kept

LEMMA EntersFromAppend ==
    ASSUME QueueTypeOK, NEW M, NEW s, NEW m \in M, NewEnter(s, m) \in Entry,
           enters' = Append(enters, NewEnter(s, m))
    PROVE  EntersFrom(M)
<1> DEFINE f == NewEnter(s, m)
<1>1. ~f.armed /\ f.msg = m
  BY DEF NewEnter
<1>2. enters \in Seq(Entry)
  BY DEF QueueTypeOK
<1> HIDE DEF f
<1>3. ASSUME NEW i \in DOMAIN enters'
      PROVE  enters'[i] = f \/ Kept(enters'[i])
  BY <1>2, AppendProperties, LenProperties DEF f, Kept
<1> QED BY <1>1, <1>3 DEF EntersFrom

LEMMA AppendEnterMsgs ==
    ASSUME QueueTypeOK, NEW s, NEW m, NewEnter(s, m) \in Entry,
           OncePerMsg(enters), m \notin EnterMsgs,
           enters' = Append(enters, NewEnter(s, m))
    PROVE  OncePerMsg(enters') /\ EnterMsgs' = EnterMsgs \cup {m}
<1>1. NewEnter(s, m).msg = m
  BY DEF NewEnter
<1>2. enters \in Seq(Entry)
  BY DEF QueueTypeOK
<1> QED BY <1>1, <1>2, AppendMsgs DEF EnterMsgs

(* One queue is replaced by what is left of it; what is gone from it may   *)
(* have an entry now.                                                      *)
LEMMA QueueReplaced ==
    ASSUME QueueTypeOK, TypingApart, NEW M, NEW k \in Key, NEW queue, NEW rest,
           sched' = [sched EXCEPT ![k] = rest],
           OncePerMsg(rest), MsgsOf(rest) \subseteq MsgsOf(queue),
           \A l \in Key \ {k} : MsgsOf(queue) \cap MsgsOf(sched[l]) = {},
           MsgsOf(queue) \cap EnterMsgs = {},
           MsgsOf(queue) \subseteq MsgsOf(sched[k]) \cup M,
           OncePerMsg(enters'), EntersFrom(MsgsOf(queue)),
           EnterMsgs' \subseteq EnterMsgs \cup (MsgsOf(queue) \ MsgsOf(rest))
    PROVE  TypingStep(M)
<1>1. \A l \in Key : sched'[l] = IF l = k THEN rest ELSE sched[l]
  BY DEF QueueTypeOK
<1>2. \A l \in Key : OncePerMsg(sched'[l])
  BY <1>1 DEF TypingApart
<1>3. \A j, l \in Key : j # l => MsgsOf(sched'[j]) \cap MsgsOf(sched'[l]) = {}
  BY <1>1 DEF TypingApart
<1>4. TypingMsgs' \subseteq (TypingMsgs \ MsgsOf(sched[k])) \cup MsgsOf(rest)
  BY <1>1 DEF TypingMsgs, TypingApart
<1>5. MsgsOf(sched[k]) \subseteq TypingMsgs
  BY DEF TypingMsgs
<1>6. \A x \in TypingMsgs \ MsgsOf(sched[k]) : x \notin MsgsOf(queue)
  BY DEF TypingMsgs
<1>7. EnterMsgs' \cap TypingMsgs' = {}
  BY <1>4, <1>6 DEF TypingApart
<1>8. TypingApart'
  BY <1>2, <1>3, <1>7 DEF TypingApart
<1>9. EntersFrom(TypingMsgs \cup M)
  BY <1>5 DEF EntersFrom
<1> QED BY <1>4, <1>5, <1>8, <1>9 DEF TypingStep

LEMMA AdvancedMsg ==
    ASSUME NEW input \in Input, NEW n
    PROVE  Advanced(input, n).msg = input.msg
<1>1. input \in [msg : Scheduled, offset : Nat, chunkEnd : Nat, paced : BOOLEAN]
  BY DEF Input
<1> QED BY <1>1 DEF Advanced

LEMMA WriteFrontPlaces ==
    ASSUME SessionTypeOK, ChildTypeOK, QueueTypeOK, UNCHANGED status, TypingApart,
           NEW M, NEW k \in Key, Present(k), NEW queue \in Seq(Input), queue # <<>>,
           OncePerMsg(queue),
           \A l \in Key \ {k} : MsgsOf(queue) \cap MsgsOf(sched[l]) = {},
           MsgsOf(queue) \cap EnterMsgs = {},
           MsgsOf(queue) \subseteq MsgsOf(sched[k]) \cup M,
           WriteFront(k, queue)
    PROVE  TypingStep(M) /\ UNCHANGED sent
<1> DEFINE s == Resolve(k)
           input == Head(queue)
<1>1. s \in Session
  BY PresentSession
<1>2. input \in Input /\ input = queue[1] /\ 1 \in 1 .. Len(queue)
  BY HeadTailProperties, EmptySeq
<1>3. input.msg \in Scheduled /\ input.msg \in Message
  BY <1>2 DEF Input, Message
<1>4. PICK n \in 0 .. input.chunkEnd - input.offset :
        /\ WriteUnits(s, input.msg, input.offset, n)
        /\ IF input.offset + n = Size[input.msg]
           THEN /\ sched' = [sched EXCEPT ![k] = Tail(queue)]
                /\ enters' = Append(enters, NewEnter(s, input.msg))
           ELSE /\ sched' = [sched EXCEPT ![k] = [queue EXCEPT ![1] = Advanced(input, n)]]
                /\ UNCHANGED enters
  BY DEF WriteFront
<1> HIDE DEF input
<1>5. UNCHANGED sent
  BY <1>4 DEF WriteUnits
<1>6. CASE input.offset + n = Size[input.msg]
  <2>1. /\ MsgsOf(Tail(queue)) = MsgsOf(queue) \ {input.msg}
        /\ input.msg \in MsgsOf(queue) /\ OncePerMsg(Tail(queue))
    BY TailMsgs DEF input
  <2>2. NewEnter(s, input.msg) \in Entry
    BY <1>1, <1>3, <1>4, WriteUnitsType, NewEnterType
  <2>3. OncePerMsg(enters') /\ EnterMsgs' = EnterMsgs \cup {input.msg}
    BY <1>4, <1>6, <2>1, <2>2, AppendEnterMsgs DEF TypingApart
  <2>4. EntersFrom(MsgsOf(queue))
    BY <1>4, <1>6, <2>1, <2>2, EntersFromAppend
  <2>5. EnterMsgs' \subseteq EnterMsgs \cup (MsgsOf(queue) \ MsgsOf(Tail(queue)))
    BY <2>1, <2>3
  <2> QED BY <1>4, <1>5, <1>6, <2>1, <2>3, <2>4, <2>5, QueueReplaced
<1>7. CASE input.offset + n # Size[input.msg]
  <2> DEFINE rest == [queue EXCEPT ![1] = Advanced(input, n)]
  <2>1. Advanced(input, n) \in Input /\ Advanced(input, n).msg = queue[1].msg
    BY <1>2, <1>7, AdvancedType, AdvancedMsg
  <2>2. MsgsOf(rest) = MsgsOf(queue) /\ OncePerMsg(rest)
    BY <1>2, <2>1, ReplaceMsgs
  <2>3. OncePerMsg(enters') /\ EnterMsgs' = EnterMsgs /\ EntersFrom(MsgsOf(queue))
    BY <1>4, <1>7, EntersFromSame DEF TypingApart, EnterMsgs
  <2> HIDE DEF rest
  <2>4. sched' = [sched EXCEPT ![k] = rest]
    BY <1>4, <1>7 DEF rest
  <2> QED BY <1>5, <2>2, <2>3, <2>4, QueueReplaced
<1> QED BY <1>6, <1>7

LEMMA DrainSchedulerPlaces ==
    ASSUME SessionTypeOK, ChildTypeOK, QueueTypeOK, UNCHANGED status, TypingApart,
           NEW M, NEW k \in Key, Present(k), NEW queue \in Seq(Input), queue # <<>>,
           OncePerMsg(queue),
           \A l \in Key \ {k} : MsgsOf(queue) \cap MsgsOf(sched[l]) = {},
           MsgsOf(queue) \cap EnterMsgs = {},
           MsgsOf(queue) \subseteq MsgsOf(sched[k]) \cup M,
           DrainScheduler(k, queue)
    PROVE  TypingStep(M) /\ UNCHANGED sent
<1>1. CASE WriteFront(k, queue)
  BY <1>1, WriteFrontPlaces
<1>2. CASE /\ sched' = [sched EXCEPT ![k] = queue]
           /\ NothingTyped /\ UNCHANGED enters
  <2>1. OncePerMsg(enters') /\ EnterMsgs' = EnterMsgs /\ EntersFrom(MsgsOf(queue))
    BY <1>2, EntersFromSame DEF TypingApart, EnterMsgs
  <2>2. UNCHANGED sent
    BY <1>2 DEF NothingTyped, childVars
  <2> QED BY <1>2, <2>1, <2>2, QueueReplaced
<1> QED BY <1>1, <1>2 DEF DrainScheduler

(* send_scheduler takes one message that is in neither stage.              *)
LEMMA SendSchedulerPlaces ==
    ASSUME SessionTypeOK, ChildTypeOK, QueueTypeOK, UNCHANGED status, TypingApart,
           NEW k \in Key, Present(k), NEW m \in Scheduled,
           m \notin TypingMsgs \cup EnterMsgs, SendScheduler(k, m)
    PROVE  TypingStep({m}) /\ UNCHANGED sent
<1> DEFINE s == Resolve(k)
           queue == Enqueue(sched[k], Fresh(m))
<1>1. s \in Session /\ m \in Message
  BY PresentSession DEF Message
<1>2. sched[k] \in Seq(Input) /\ Fresh(m) \in Input /\ Fresh(m).msg = m
  BY FreshType DEF QueueTypeOK, Fresh
<1>3. queue \in Seq(Input) /\ queue # <<>>
  BY <1>2, AppendProperties, EmptySeq DEF Enqueue
<1>4. MsgsOf(queue) = MsgsOf(sched[k]) \cup {m} /\ OncePerMsg(queue)
  <2>1. m \notin MsgsOf(sched[k])
    BY DEF TypingMsgs
  <2> QED BY <1>2, <2>1, AppendMsgs DEF Enqueue, TypingApart
<1> HIDE DEF queue
<1>5. \A l \in Key \ {k} : MsgsOf(queue) \cap MsgsOf(sched[l]) = {}
  BY <1>4 DEF TypingMsgs, TypingApart
<1>6. MsgsOf(queue) \cap EnterMsgs = {}
  BY <1>4 DEF TypingMsgs, TypingApart
<1>7. CASE DrainScheduler(k, queue)
  BY <1>3, <1>4, <1>5, <1>6, <1>7, DrainSchedulerPlaces
<1>8. CASE /\ sched' = [sched EXCEPT ![k] = queue]
           /\ NothingTyped /\ UNCHANGED enters
  <2>1. OncePerMsg(enters') /\ EnterMsgs' = EnterMsgs /\ EntersFrom(MsgsOf(queue))
    BY <1>8, EntersFromSame DEF TypingApart, EnterMsgs
  <2>2. UNCHANGED sent
    BY <1>8 DEF NothingTyped, childVars
  <2> QED BY <1>4, <1>5, <1>6, <1>8, <2>1, <2>2, QueueReplaced
<1>9. CASE UNCHANGED <<sched, sent, enters>>
  BY <1>9, EntersFromSame DEF TypingStep, TypingApart, TypingMsgs, EnterMsgs
<1>10. CASE /\ UNCHANGED <<sched, sent>> /\ WriteUnits(s, m, 0, Size[m])
            /\ enters' = Append(enters, NewEnter(s, m))
  <2>1. NewEnter(s, m) \in Entry
    BY <1>1, <1>10, WriteUnitsType, NewEnterType
  <2>2. OncePerMsg(enters') /\ EnterMsgs' = EnterMsgs \cup {m}
    BY <1>10, <2>1, AppendEnterMsgs DEF TypingApart
  <2>3. EntersFrom(TypingMsgs \cup {m})
    BY <1>10, <2>1, EntersFromAppend
  <2>4. TypingMsgs' = TypingMsgs
    BY <1>10 DEF TypingMsgs
  <2> QED BY <1>10, <2>2, <2>3, <2>4 DEF TypingStep, TypingApart
<1>11. /\ WriteUnits(s, m, 0, Size[m]) => UNCHANGED sent
       /\ \A n : WriteUnits(s, m, 0, n) => UNCHANGED sent
       /\ SendFails(s) => UNCHANGED sent
  BY DEF WriteUnits, SendFails, NothingTyped, childVars
<1> QED BY <1>7, <1>8, <1>9, <1>10, <1>11 DEF SendScheduler, queue

-----------------------------------------------------------------------------
(* Every step keeps the stages apart, and moves messages only forward.     *)

PlacesStep ==
    /\ Apart'
    /\ unfired' \subseteq unfired
    /\ HeldMsgs' \subseteq HeldMsgs \cup unfired
    /\ TypingMsgs' \subseteq TypingMsgs \cup HeldMsgs \cup unfired
    /\ EnterMsgs' \subseteq EnterMsgs \cup TypingMsgs \cup HeldMsgs \cup unfired

NewEntersUnarmed == EntersFrom(TypingMsgs \cup HeldMsgs \cup unfired)

LEMMA TypingStepPlaces ==
    ASSUME Apart, NEW M, M \subseteq unfired \cup HeldMsgs, TypingStep(M),
           HeldApart', HeldMsgs' \subseteq HeldMsgs \cup unfired,
           unfired' \subseteq unfired, unfired' \cap HeldMsgs' = {},
           M \cap (unfired' \cup HeldMsgs') = {}
    PROVE  PlacesStep /\ NewEntersUnarmed
<1>1. EnterMsgs' \subseteq EnterMsgs \cup TypingMsgs \cup M
  BY KeptMsgs DEF TypingStep
<1>2. TypingMsgs' \subseteq TypingMsgs \cup M /\ TypingApart'
  BY DEF TypingStep
<1>3. StagesApart'
  BY <1>1, <1>2 DEF StagesApart, Apart
<1>4. NewEntersUnarmed
  BY DEF TypingStep, EntersFrom, NewEntersUnarmed
<1> QED BY <1>1, <1>2, <1>3, <1>4 DEF PlacesStep, Apart

LEMMA TypingStepSame ==
    ASSUME TypingApart, UNCHANGED <<sched, enters>>
    PROVE  TypingStep({})
BY EntersFromSame DEF TypingStep, TypingApart, TypingMsgs, EnterMsgs

(* One entry is removed, or replaced by one of the same message.           *)
LEMMA EntersKeepPlaces ==
    ASSUME QueueTypeOK, Apart, pos \in 1 .. Len(enters),
           UNCHANGED <<sched, deferred, injections, unfired>>,
           RemoveEnter \/ \E f \in Entry : f.msg = enters[pos].msg /\ KeepEnter(f)
    PROVE  PlacesStep
<1>1. enters \in Seq(Entry)
  BY DEF QueueTypeOK
<1>2. OncePerMsg(enters') /\ EnterMsgs' \subseteq EnterMsgs
  <2>1. CASE RemoveEnter
    BY <1>1, <2>1, RemoveMsgs DEF RemoveEnter, Apart, TypingApart, EnterMsgs
  <2>2. ASSUME NEW f \in Entry, f.msg = enters[pos].msg, KeepEnter(f)
        PROVE  OncePerMsg(enters') /\ EnterMsgs' \subseteq EnterMsgs
    <3>1. enters' = [enters EXCEPT ![pos] = f] /\ OncePerMsg(enters)
      BY <2>2 DEF KeepEnter, Apart, TypingApart
    <3>2. /\ MsgsOf([enters EXCEPT ![pos] = f]) = MsgsOf(enters)
          /\ OncePerMsg(enters) => OncePerMsg([enters EXCEPT ![pos] = f])
      BY <1>1, <2>2, ReplaceMsgs
    <3>3. MsgsOf(enters') = MsgsOf(enters) /\ OncePerMsg(enters')
      BY <3>1, <3>2, Zenon
    <3> QED BY <3>3 DEF EnterMsgs
  <2> QED BY <2>1, <2>2
<1>3. UNCHANGED <<TypingMsgs, HeldMsgs, unfired>>
  BY DEF TypingMsgs, HeldMsgs
<1>4. TypingApart'
  BY <1>2, <1>3 DEF Apart, TypingApart
<1>5. HeldApart' /\ StagesApart'
  BY <1>2, <1>3 DEF Apart, HeldApart, StagesApart
<1> QED BY <1>2, <1>3, <1>4, <1>5 DEF PlacesStep, Apart

LEMMA ProcessEnterPlaces ==
    ASSUME TypeInv, Apart, NEW m \in Message, NotDue(m) \/ ProcessEnter(m)
    PROVE  PlacesStep
<1> DEFINE e == enters[pos]
           s == e.session
<1>1. QueueTypeOK /\ SessionTypeOK /\ ChildTypeOK /\ LoopTypeOK
  BY DEF TypeInv, TypeOK
<1>2. /\ pos \in 1 .. Len(enters) /\ DOMAIN enters = 1 .. Len(enters)
      /\ UNCHANGED <<status, sched, deferred, injections, unfired>>
  <2>1. OnEnter(m)
    BY DEF NotDue, ProcessEnter, FirstEnter, RetryEnter, GiveUp
  <2> QED BY <1>1, <2>1, LenProperties DEF OnEnter, LoopTypeOK, QueueTypeOK
<1>3. e \in Entry /\ s \in Session
  <2>1. enters \in Seq(Entry)
    BY <1>1 DEF QueueTypeOK
  <2>2. e \in Entry
    BY <1>2, <2>1, ElementOfSeq
  <2> QED BY <2>2 DEF Entry
<1>4. CASE NotDue(m)
  BY <1>1, <1>2, <1>3, <1>4, EntersKeepPlaces DEF NotDue
<1>5. CASE RemoveEnter
  BY <1>1, <1>2, <1>5, EntersKeepPlaces
<1>6. ASSUME PressEnter(s, m)
      PROVE  lastInput'[s] \in Nat
  <2>1. SessionTypeOK'
    BY <1>1, <1>2, <1>3, <1>6, PressEnterType
  <2> QED BY <1>3, <2>1 DEF SessionTypeOK
<1>7. CASE /\ PressEnter(s, m)
           /\ KeepEnter([e EXCEPT !.armed = TRUE, !.inputAt = lastInput'[s]])
  <2> DEFINE f == [e EXCEPT !.armed = TRUE, !.inputAt = lastInput'[s]]
  <2>1. f \in Entry /\ f.msg = e.msg
    BY <1>3, <1>6, <1>7 DEF Entry
  <2> QED BY <1>1, <1>2, <1>7, <2>1, EntersKeepPlaces
<1>8. ASSUME RetryEnter(m), ~RemoveEnter
      PROVE  PlacesStep
  <2>1. e.checks + 1 \in 0 .. RetryChecks
    BY <1>3, <1>8, LimitAssumption DEF RetryEnter, OnEnter, Exhausted, Entry
  <2>2. CASE KeepEnter([e EXCEPT !.checks = @ + 1])
    <3>1. [e EXCEPT !.checks = @ + 1] \in Entry /\ [e EXCEPT !.checks = @ + 1].msg = e.msg
      BY <1>3, <2>1 DEF Entry
    <3> QED BY <1>1, <1>2, <2>2, <3>1, EntersKeepPlaces
  <2>3. CASE /\ PressEnter(s, m)
             /\ KeepEnter([e EXCEPT !.checks = @ + 1, !.inputAt = lastInput'[s]])
    <3> DEFINE f == [e EXCEPT !.checks = @ + 1, !.inputAt = lastInput'[s]]
    <3>1. f \in Entry /\ f.msg = e.msg
      BY <1>3, <1>6, <2>1, <2>3 DEF Entry
    <3> QED BY <1>1, <1>2, <2>3, <3>1, EntersKeepPlaces
  <2> QED BY <1>8, <2>2, <2>3 DEF RetryEnter
<1>9. CASE FirstEnter(m)
  BY <1>5, <1>7, <1>9 DEF FirstEnter
<1>10. CASE GiveUp(m)
  BY <1>5, <1>10 DEF GiveUp
<1> QED BY <1>4, <1>5, <1>8, <1>9, <1>10 DEF ProcessEnter

(* The other steps add nothing but entries that are not armed. *)

QuietPlaces == PlacesStep /\ NewEntersUnarmed /\ UNCHANGED sent

LEMMA HeldSamePlaces ==
    ASSUME Apart, TypingStep({}), UNCHANGED <<deferred, injections, unfired>>
    PROVE  PlacesStep /\ NewEntersUnarmed
<1>1. HeldApart' /\ UNCHANGED HeldMsgs
  BY DEF Apart, HeldApart, HeldMsgs
<1>2. unfired' \cap HeldMsgs' = {}
  BY <1>1 DEF Apart, StagesApart
<1> QED BY <1>1, <1>2, TypingStepPlaces

LEMMA DrainKeyPlaces ==
    ASSUME TypeInv, Apart, NEW k \in Key, DrainKey(k)
    PROVE  QuietPlaces
<1>1. QueueTypeOK /\ SessionTypeOK /\ ChildTypeOK
  BY DEF TypeInv, TypeOK
<1>2. UNCHANGED <<status, deferred, injections, unfired>>
  BY DEF DrainKey
<1>3. /\ sched[k] \in Seq(Input) /\ OncePerMsg(sched[k]) /\ OncePerMsg(enters)
      /\ \A l \in Key \ {k} : MsgsOf(sched[k]) \cap MsgsOf(sched[l]) = {}
      /\ MsgsOf(sched[k]) \cap EnterMsgs = {}
  <2>1. MsgsOf(sched[k]) \subseteq TypingMsgs
    BY DEF TypingMsgs
  <2> QED BY <1>1, <2>1 DEF QueueTypeOK, Apart, TypingApart
<1>4. CASE sched' = [sched EXCEPT ![k] = <<>>] /\ NothingTyped /\ UNCHANGED enters
  <2>1. MsgsOf(<<>>) = {} /\ OncePerMsg(<<>>)
    BY EmptySeq DEF MsgsOf, OncePerMsg
  <2>2. EntersFrom(MsgsOf(sched[k])) /\ OncePerMsg(enters') /\ EnterMsgs' = EnterMsgs
    BY <1>3, <1>4, EntersFromSame DEF EnterMsgs
  <2>3. TypingStep({})
    BY <1>1, <1>3, <1>4, <2>1, <2>2, QueueReplaced DEF Apart
  <2> QED BY <1>2, <1>4, <2>3, HeldSamePlaces DEF QuietPlaces, NothingTyped, childVars
<1>5. CASE UNCHANGED <<sched, enters, sent>>
  BY <1>2, <1>5, TypingStepSame, HeldSamePlaces DEF QuietPlaces, Apart
<1>6. CASE Present(k) /\ sched[k] # <<>> /\ DrainScheduler(k, sched[k])
  <2>1. TypingStep({}) /\ UNCHANGED sent
    BY <1>1, <1>2, <1>3, <1>6, DrainSchedulerPlaces DEF Apart
  <2> QED BY <1>2, <2>1, HeldSamePlaces DEF QuietPlaces
<1>7. /\ \A s : TypeText(s, Other) => UNCHANGED sent
      /\ NothingTyped => UNCHANGED sent
  BY DEF TypeText, NothingTyped, childVars
<1> QED BY <1>4, <1>5, <1>6, <1>7 DEF DrainKey

LEMMA QueueInjectionPlaces ==
    ASSUME TypeInv, Apart, NEW m \in Injected, QueueInjection(m)
    PROVE  QuietPlaces
<1>1. /\ m \in unfired /\ unfired' = unfired \ {m}
      /\ injections' = injections \/ injections' = Append(injections, m)
      /\ UNCHANGED <<sched, deferred, enters, sent>>
  BY DEF QueueInjection, childVars
<1>2. injections \in Seq(Injected) /\ m \notin HeldMsgs
  BY <1>1 DEF TypeInv, TypeOK, QueueTypeOK, Apart, StagesApart
<1>3. /\ ToSet(injections') \subseteq ToSet(injections) \cup {m}
      /\ IsInjective(injections')
  <2>1. IsInjective(injections) /\ m \notin ToSet(injections)
    BY <1>2 DEF Apart, HeldApart, HeldMsgs
  <2>2. /\ ToSet(Append(injections, m)) = ToSet(injections) \cup {m}
        /\ IsInjective(Append(injections, m))
    BY <1>2, <2>1, AppendElements
  <2>3. CASE injections' = injections
    BY <2>1, <2>3
  <2>4. CASE injections' = Append(injections, m)
    BY <2>2, <2>4
  <2> QED BY <1>1, <2>3, <2>4
<1>4. HeldMsgs' \subseteq HeldMsgs \cup {m}
  BY <1>1, <1>3 DEF HeldMsgs
<1>5. HeldApart'
  BY <1>1, <1>2, <1>3 DEF Apart, HeldApart, HeldMsgs
<1>6. TypingStep({})
  BY <1>1, TypingStepSame DEF Apart
<1>7. unfired' \cap HeldMsgs' = {}
  BY <1>1, <1>4 DEF Apart, StagesApart
<1> QED BY <1>1, <1>4, <1>5, <1>6, <1>7, TypingStepPlaces DEF QuietPlaces

LEMMA InjectPlaces ==
    ASSUME TypeInv, Apart, Inject
    PROVE  QuietPlaces
<1> DEFINE m == Head(injections)
           s == Resolve(Target[m])
<1>1. QueueTypeOK /\ SessionTypeOK /\ ChildTypeOK
  BY DEF TypeInv, TypeOK
<1>2. /\ injections # <<>> /\ injections' = Tail(injections)
      /\ UNCHANGED <<status, sched, deferred, unfired>>
      /\ \/ TypeText(s, m) /\ (enters' = Append(enters, NewEnter(s, m)) \/ UNCHANGED enters)
         \/ SendFails(s) /\ UNCHANGED enters
  BY DEF Inject
<1>3. injections \in Seq(Injected) /\ m \in Injected /\ m \in Message
  BY <1>1, <1>2, HeadTailProperties DEF QueueTypeOK, Message
<1>4. s \in Session
  BY <1>3, TableAssumption DEF Resolve, Key, Message
<1>5. /\ ToSet(injections') = ToSet(injections) \ {m}
      /\ m \in ToSet(injections) /\ IsInjective(injections')
  BY <1>2, <1>3, TailElements DEF Apart, HeldApart
<1> HIDE DEF m, s
<1>6. /\ HeldMsgs' = HeldMsgs \ {m} /\ m \in HeldMsgs
      /\ HeldApart'
  BY <1>2, <1>5 DEF HeldMsgs, HeldApart, Apart
<1>7. UNCHANGED sent
  BY <1>2 DEF TypeText, SendFails, NothingTyped, childVars
<1>8. TypingStep({m})
  <2>1. CASE UNCHANGED enters
    BY <1>2, <2>1, TypingStepSame DEF Apart, TypingStep, EntersFrom
  <2>2. CASE TypeText(s, m) /\ enters' = Append(enters, NewEnter(s, m))
    <3>1. NewEnter(s, m) \in Entry
      BY <1>1, <1>2, <1>3, <1>4, <2>2, TypeTextType, NewEnterType
    <3>2. m \notin EnterMsgs /\ m \notin TypingMsgs
      BY <1>6 DEF Apart, StagesApart
    <3>3. OncePerMsg(enters') /\ EnterMsgs' = EnterMsgs \cup {m}
      BY <1>1, <2>2, <3>1, <3>2, AppendEnterMsgs DEF Apart, TypingApart
    <3>4. EntersFrom(TypingMsgs \cup {m})
      BY <1>1, <2>2, <3>1, EntersFromAppend
    <3>5. TypingMsgs' = TypingMsgs
      BY <1>2 DEF TypingMsgs
    <3> QED BY <1>2, <3>2, <3>3, <3>4, <3>5 DEF TypingStep, TypingApart, Apart
  <2> QED BY <1>2, <2>1, <2>2
<1>9. m \notin unfired
  BY <1>6 DEF Apart, StagesApart
<1>10. unfired' \cap HeldMsgs' = {}
  BY <1>2, <1>6 DEF Apart, StagesApart
<1> QED BY <1>2, <1>6, <1>7, <1>8, <1>9, <1>10, TypingStepPlaces DEF QuietPlaces

LEMMA HandleEventPlaces ==
    ASSUME TypeInv, Apart, NEW m \in Scheduled, HandleEvent(m)
    PROVE  QuietPlaces
<1> DEFINE k == TargetKey(m)
<1>1. QueueTypeOK /\ SessionTypeOK /\ ChildTypeOK
  BY DEF TypeInv, TypeOK
<1>2. /\ m \in unfired /\ unfired' = unfired \ {m}
      /\ UNCHANGED <<status, injections>>
      /\ \/ UNCHANGED <<sched, deferred, enters, sent>>
         \/ deferred' = Append(deferred, m) /\ UNCHANGED <<sched, enters, sent>>
         \/ Present(k) /\ UNCHANGED deferred /\ SendScheduler(Resolve(k), m)
  BY DEF HandleEvent, childVars
<1> HIDE DEF k
<1>3. m \notin HeldMsgs /\ m \notin TypingMsgs /\ m \notin EnterMsgs
  BY <1>2 DEF Apart, StagesApart
<1>4. CASE UNCHANGED <<sched, enters, sent>> /\ deferred' = Append(deferred, m)
  <2>1. deferred \in Seq(Scheduled)
    BY <1>1 DEF QueueTypeOK
  <2>2. ToSet(deferred') = ToSet(deferred) \cup {m} /\ IsInjective(deferred')
    BY <1>3, <1>4, <2>1, AppendElements DEF Apart, HeldApart, HeldMsgs
  <2>3. HeldMsgs' = HeldMsgs \cup {m} /\ HeldApart'
    BY <1>2, <1>3, <2>2 DEF HeldMsgs, Apart, HeldApart
  <2>4. TypingStep({})
    BY <1>4, TypingStepSame DEF Apart
  <2>5. unfired' \cap HeldMsgs' = {}
    BY <1>2, <2>3 DEF Apart, StagesApart
  <2> QED BY <1>2, <1>4, <2>3, <2>4, <2>5, TypingStepPlaces DEF QuietPlaces
<1>5. ASSUME UNCHANGED deferred
      PROVE  HeldApart' /\ HeldMsgs' = HeldMsgs /\ unfired' \cap HeldMsgs' = {}
  BY <1>2, <1>5 DEF HeldMsgs, Apart, HeldApart, StagesApart
<1>6. CASE UNCHANGED <<sched, deferred, enters, sent>>
  <2>1. TypingStep({})
    BY <1>6, TypingStepSame DEF Apart
  <2> QED BY <1>2, <1>5, <1>6, <2>1, TypingStepPlaces DEF QuietPlaces
<1>7. CASE Present(k) /\ UNCHANGED deferred /\ SendScheduler(Resolve(k), m)
  <2>1. Resolve(k) \in Key /\ Present(Resolve(k))
    BY <1>7, PresentSession DEF Key, Present, Resolve
  <2>2. TypingStep({m}) /\ UNCHANGED sent
    BY <1>1, <1>2, <1>3, <1>7, <2>1, SendSchedulerPlaces DEF Apart
  <2> QED BY <1>2, <1>3, <1>5, <1>7, <2>2, TypingStepPlaces DEF QuietPlaces
<1> QED BY <1>2, <1>4, <1>6, <1>7

LEMMA SendDeferredPlaces ==
    ASSUME TypeInv, Apart, SendDeferred
    PROVE  QuietPlaces
<1> DEFINE m == deferred[pos]
           k == TargetKey(m)
<1>1. QueueTypeOK /\ SessionTypeOK /\ ChildTypeOK
  BY DEF TypeInv, TypeOK
<1>2. pos \in 1 .. Len(deferred) /\ deferred \in Seq(Scheduled)
  BY <1>1 DEF SendDeferred, TypeInv, ReadyInRange, QueueTypeOK
<1>3. m \in Scheduled
  BY <1>2, ElementOfSeq
<1>4. /\ deferred' = RemoveAt(deferred, pos)
      /\ UNCHANGED <<status, injections, unfired>>
      /\ \/ UNCHANGED <<sched, enters, sent>>
         \/ Present(k) /\ SendScheduler(k, m)
  BY DEF SendDeferred, StillDeferred, DeferredQueue, childVars
<1>5. /\ ToSet(RemoveAt(deferred, pos)) = ToSet(deferred) \ {m}
      /\ m \in ToSet(deferred) /\ IsInjective(RemoveAt(deferred, pos))
  <2>1. IsInjective(deferred)
    BY DEF Apart, HeldApart
  <2> QED BY <1>2, <2>1, RemoveElements
<1> HIDE DEF m, k
<1>6. m \in HeldMsgs /\ HeldMsgs' = HeldMsgs \ {m} /\ HeldApart'
  <2>1. m \notin ToSet(injections)
    BY <1>5 DEF Apart, HeldApart
  <2>2. ToSet(deferred') = ToSet(deferred) \ {m} /\ IsInjective(deferred')
    BY <1>4, <1>5
  <2> QED BY <1>4, <1>5, <2>1, <2>2 DEF HeldMsgs, Apart, HeldApart
<1>7. m \notin unfired /\ m \notin TypingMsgs /\ m \notin EnterMsgs
  BY <1>6 DEF Apart, StagesApart
<1>8. unfired' \cap HeldMsgs' = {}
  BY <1>4, <1>6 DEF Apart, StagesApart
<1>9. CASE UNCHANGED <<sched, enters, sent>>
  <2>1. TypingStep({})
    BY <1>9, TypingStepSame DEF Apart
  <2> QED BY <1>4, <1>6, <1>8, <1>9, <2>1, TypingStepPlaces DEF QuietPlaces
<1>10. CASE Present(k) /\ SendScheduler(k, m)
  <2>1. TypingStep({m}) /\ UNCHANGED sent
    BY <1>1, <1>3, <1>4, <1>7, <1>10, PresentSession, SendSchedulerPlaces DEF Apart
  <2> QED BY <1>4, <1>6, <1>7, <1>8, <2>1, TypingStepPlaces DEF QuietPlaces
<1> QED BY <1>4, <1>9, <1>10

(* The steps that press no delayed Enter.                                  *)
LEMMA QuietStepPlaces ==
    ASSUME TypeInv, Apart, Next
    PROVE  QuietPlaces \/ \E m \in Message : NotDue(m) \/ ProcessEnter(m)
<1>1. ASSUME \/ EndDrain \/ Quit \/ Skip \/ CheckSessionExit \/ EndEvents \/ EndDeferred
             \/ EndEnters \/ CheckDeferred \/ SyncSessionOrder
             \/ \E s \in Session : UserInput(s) \/ SessionEnds(s) \/ BecomeIdle(s)
      PROVE  QuietPlaces
  <2>1. UNCHANGED <<sched, enters, deferred, injections, unfired, sent>>
    BY <1>1 DEF EndDrain, Quit, Skip, CheckSessionExit, EndEvents, EndDeferred, EndEnters,
                CheckDeferred, SyncSessionOrder, UserInput, SessionEnds, BecomeIdle,
                sessionVars, queueVars, childVars
  <2> QED BY <2>1, TypingStepSame, HeldSamePlaces DEF QuietPlaces, Apart
<1>2. ASSUME NEW s \in Session, DirectWrite(s)
      PROVE  QuietPlaces
  <2>1. UNCHANGED <<sched, enters, deferred, injections, unfired>>
    BY <1>2 DEF DirectWrite, queueVars
  <2>2. UNCHANGED sent
    BY <1>2 DEF DirectWrite, TypeText, PressEnter, SendFails, NothingTyped, childVars
  <2> QED BY <2>1, <2>2, TypingStepSame, HeldSamePlaces DEF QuietPlaces, Apart
<1> QED BY <1>1, <1>2, DrainKeyPlaces, QueueInjectionPlaces, InjectPlaces, HandleEventPlaces,
           SendDeferredPlaces DEF Next, Loop, Environment

LEMMA StepPlaces ==
    ASSUME TypeInv, Apart, [Next]_vars
    PROVE  PlacesStep
<1>1. CASE Next
  BY <1>1, QuietStepPlaces, ProcessEnterPlaces DEF QuietPlaces
<1>2. CASE UNCHANGED vars
  <2>1. UNCHANGED <<sched, enters, deferred, injections, unfired>>
    BY <1>2 DEF vars, queueVars
  <2> QED BY <2>1, TypingStepSame, HeldSamePlaces DEF Apart
<1> QED BY <1>1, <1>2

-----------------------------------------------------------------------------
(* A message is in one place at a time *)

PlaceInv == TypeInv /\ Apart

LEMMA TypeInvStep ==
    ASSUME TypeInv, [Next]_vars
    PROVE  TypeInv'
<1>1. CASE Next
  BY <1>1, LoopTypeInv, EnvironmentTypeInv DEF Next
<1>2. CASE UNCHANGED vars
  BY <1>2 DEF vars, sessionVars, queueVars, loopVars, childVars, boundVars, TypeInv,
              TypeOK, SessionTypeOK, LoopTypeOK, QueueTypeOK, ChildTypeOK, ReadyInRange
<1> QED BY <1>1, <1>2

LEMMA InitApart == Init => Apart
<1> SUFFICES ASSUME Init PROVE Apart
  OBVIOUS
<1>1. DOMAIN <<>> = {}
  BY EmptySeq, LenProperties
<1>2. MsgsOf(<<>>) = {} /\ OncePerMsg(<<>>) /\ ToSet(<<>>) = {} /\ IsInjective(<<>>)
  BY <1>1 DEF MsgsOf, OncePerMsg, ToSet, IsInjective
<1>3. deferred = <<>> /\ injections = <<>> /\ enters = <<>> /\ \A k \in Key : sched[k] = <<>>
  BY DEF Init
<1>4. HeldMsgs = {} /\ TypingMsgs = {} /\ EnterMsgs = {}
  BY <1>2, <1>3 DEF HeldMsgs, TypingMsgs, EnterMsgs
<1> QED BY <1>2, <1>3, <1>4 DEF Apart, TypingApart, HeldApart, StagesApart

LEMMA PlaceInvariant == Spec => []PlaceInv
<1>1. Init => PlaceInv
  BY InitTypeInv, InitApart DEF PlaceInv
<1>2. PlaceInv /\ [Next]_vars => PlaceInv'
  BY TypeInvStep, StepPlaces DEF PlaceInv, PlacesStep
<1> QED BY <1>1, <1>2, PTL DEF Spec

(* Any two places of a message are the same one.                           *)
LEMMA PlacesCoincide ==
    ASSUME Apart, NEW m, NEW p \in Places(m), NEW q \in Places(m)
    PROVE  p = q
<1> DEFINE D == {<<"deferred", i>> : i \in {j \in DOMAIN deferred : deferred[j] = m}}
           I == {<<"injection", i>> : i \in {j \in DOMAIN injections : injections[j] = m}}
           E == {<<"enter", i>> : i \in {j \in DOMAIN enters : enters[j].msg = m}}
           T == UNION {{<<k, i>> : i \in {j \in DOMAIN sched[k] : sched[k][j].msg = m}} : k \in Key}
           U == {<<"unfired", 0>> : i \in {m} \cap unfired}
<1>1. Places(m) = D \cup I \cup E \cup U \cup T
  BY DEF Places
<1>2. /\ D # {} => m \in ToSet(deferred)
      /\ I # {} => m \in ToSet(injections)
      /\ E # {} => m \in EnterMsgs
      /\ T # {} => m \in TypingMsgs
      /\ U # {} => m \in unfired
  <2>1. /\ D # {} => m \in ToSet(deferred)
        /\ I # {} => m \in ToSet(injections)
    BY DEF ToSet
  <2>2. E # {} => m \in EnterMsgs
    BY DEF EnterMsgs, MsgsOf
  <2>3. T # {} => m \in TypingMsgs
    <3> SUFFICES ASSUME NEW x \in T PROVE m \in TypingMsgs
      OBVIOUS
    <3>1. PICK k \in Key : \E i \in DOMAIN sched[k] : sched[k][i].msg = m
      OBVIOUS
    <3>2. m \in MsgsOf(sched[k])
      BY <3>1 DEF MsgsOf
    <3> QED BY <3>2 DEF TypingMsgs
  <2> QED BY <2>1, <2>2, <2>3
<1>3. \A x, y \in D : x = y
  BY DEF Apart, HeldApart, IsInjective
<1>4. \A x, y \in I : x = y
  BY DEF Apart, HeldApart, IsInjective
<1>5. \A x, y \in E : x = y
  BY DEF Apart, TypingApart, OncePerMsg
<1>6. \A x, y \in T : x = y
  <2> SUFFICES ASSUME NEW x \in T, NEW y \in T PROVE x = y
    OBVIOUS
  <2>1. PICK k \in Key : \E i \in DOMAIN sched[k] : x = <<k, i>> /\ sched[k][i].msg = m
    OBVIOUS
  <2>2. PICK l \in Key : \E j \in DOMAIN sched[l] : y = <<l, j>> /\ sched[l][j].msg = m
    OBVIOUS
  <2>3. m \in MsgsOf(sched[k]) /\ m \in MsgsOf(sched[l])
    BY <2>1, <2>2 DEF MsgsOf
  <2>4. k = l
    BY <2>3 DEF Apart, TypingApart
  <2> QED BY <2>1, <2>2, <2>4 DEF Apart, TypingApart, OncePerMsg
<1>7. \A x, y \in U : x = y
  OBVIOUS
<1> HIDE DEF D, I, E, T, U
<1> QED BY <1>1, <1>2, <1>3, <1>4, <1>5, <1>6, <1>7
        DEF Apart, TypingApart, HeldApart, StagesApart, HeldMsgs

(* A reminder, cron message or notification is in at most one queue, once: *)
(* what handle_scheduler_event, the deferred list, send_scheduler, the     *)
(* paced drain and drain_delayed_enters hand on is never typed twice, and  *)
(* its Enter is never queued before its last byte was written.             *)
THEOREM OnePlaceAlways == Spec => []OnePlace
<1>1. Apart => OnePlace
  <2> SUFFICES ASSUME Apart, NEW m \in Message PROVE Cardinality(Places(m)) <= 1
    BY DEF OnePlace
  <2>1. CASE Places(m) = {}
    BY <2>1, FS_EmptySet
  <2>2. CASE Places(m) # {}
    <3>1. PICK p : p \in Places(m)
      BY <2>2
    <3>2. Places(m) = {p}
      BY <3>1, PlacesCoincide
    <3> QED BY <3>2, FS_Singleton
  <2> QED BY <2>1, <2>2
<1> QED BY <1>1, PlaceInvariant, PTL DEF PlaceInv

-----------------------------------------------------------------------------
(* One text at a time.  Only the front of a queue is partly sent; that is  *)
(* enough when no session has a second queue, under a name of its.         *)

OnlyFront(q) == \A j \in DOMAIN q : q[j].offset > 0 => j = 1

(* Every reminder, cron job and notification names its session by identifier. *)
NoneByName == \A m \in Message : Target[m] \notin Name

PacingInv == /\ NoneByName
             /\ \A k \in Key : OnlyFront(sched[k])
             /\ \A k \in Name : sched[k] = <<>>

(* What a step may do to the queues: change one, of a session.             *)
OneQueueStep ==
    \/ UNCHANGED sched
    \/ \E k \in Key : \E rest : /\ sched' = [sched EXCEPT ![k] = rest]
                                /\ OnlyFront(rest)
                                /\ k \in Session \/ rest = <<>>

LEMMA LeastNatural ==
    ASSUME NEW T, T \subseteq Nat, T # {}
    PROVE  \E n \in T : \A k \in T : n <= k
<1> DEFINE R == OpToRel(<, Nat)
<1>1. IsWellFoundedOn(R, Nat)
  BY NatLessThanWellFounded
<1>2. \A x, y \in Nat : <<x, y>> \in R <=> x < y
  BY DEF OpToRel
<1> HIDE DEF R
<1>3. PICK x \in T : \A y \in T : ~(<<y, x>> \in R)
  BY <1>1, WFMin
<1>4. ASSUME NEW y \in T PROVE x <= y
  <2>1. ~(<<y, x>> \in R) /\ x \in Nat /\ y \in Nat
    BY <1>3
  <2>2. ~(y < x)
    BY <1>2, <2>1
  <2> QED BY <2>1, <2>2
<1> QED BY <1>4

(* An event aimed at no name goes to a session, if to any queue.           *)
LEMMA TargetSession ==
    ASSUME LoopTypeOK, NEW m \in Message, Target[m] \notin Name, TargetKey(m) # None
    PROVE  TargetKey(m) \in Session
<1>1. CASE Target[m] # None
  BY <1>1, TableAssumption DEF TargetKey, Key
<1>2. CASE Target[m] = None
  <2> DEFINE First(s) == \A t \in listed : Rank[s] <= Rank[t]
  <2>1. listed # {} /\ listed \subseteq Session
    BY <1>2 DEF TargetKey, LoopTypeOK
  <2> DEFINE T == {Rank[s] : s \in listed}
  <2>2. T \subseteq Nat /\ T # {}
    BY <2>1, TableAssumption
  <2>3. \E n \in T : \A k \in T : n <= k
    <3> HIDE DEF T
    <3> QED BY <2>2, LeastNatural
  <2>4. \E s \in listed : First(s)
    BY <2>3
  <2>5. (CHOOSE s \in listed : First(s)) \in listed
    <3> HIDE DEF First
    <3> QED BY <2>4
  <2>6. TargetKey(m) = CHOOSE s \in listed : First(s)
    BY <1>2, <2>1 DEF TargetKey
  <2> QED BY <2>1, <2>5, <2>6
<1> QED BY <1>1, <1>2

LEMMA OnlyFrontAppend ==
    ASSUME NEW q \in Seq(Input), NEW e \in Input, OnlyFront(q), e.offset = 0 \/ q = <<>>
    PROVE  OnlyFront(Append(q, e))
<1> DEFINE p == Append(q, e)
<1>1. /\ p \in Seq(Input) /\ Len(p) = Len(q) + 1
      /\ \A i \in 1 .. Len(q) : p[i] = q[i]
      /\ p[Len(q) + 1] = e
  BY AppendProperties
<1>2. Len(q) \in Nat /\ DOMAIN q = 1 .. Len(q) /\ DOMAIN p = 1 .. Len(q) + 1
      /\ (q = <<>> => Len(q) = 0)
  BY <1>1, LenProperties, EmptySeq
<1> HIDE DEF p
<1>3. ASSUME NEW j \in 1 .. Len(q) + 1, p[j].offset > 0 PROVE j = 1
  <2>1. CASE j \in 1 .. Len(q)
    BY <1>1, <1>2, <1>3, <2>1 DEF OnlyFront
  <2>2. CASE j = Len(q) + 1
    BY <1>1, <1>2, <1>3, <2>2
  <2> QED BY <1>2, <2>1, <2>2
<1> QED BY <1>2, <1>3 DEF OnlyFront, p

LEMMA WriteFrontPacing ==
    ASSUME NEW k \in Session, NEW queue \in Seq(Input), queue # <<>>,
           OnlyFront(queue), WriteFront(k, queue)
    PROVE  OneQueueStep
<1> DEFINE input == Head(queue)
<1>1. /\ Tail(queue) \in Seq(Input) /\ Len(Tail(queue)) = Len(queue) - 1
      /\ \A i \in 1 .. Len(Tail(queue)) : Tail(queue)[i] = queue[i + 1]
      /\ Len(queue) \in Nat \ {0} /\ DOMAIN queue = 1 .. Len(queue)
      /\ DOMAIN Tail(queue) = 1 .. Len(queue) - 1
  <2>1. /\ Tail(queue) \in Seq(Input) /\ Len(Tail(queue)) = Len(queue) - 1
        /\ \A i \in 1 .. Len(Tail(queue)) : Tail(queue)[i] = queue[i + 1]
    BY HeadTailProperties
  <2> QED BY <2>1, LenProperties, EmptySeq
<1>2. OnlyFront(Tail(queue))
  BY <1>1 DEF OnlyFront
<1>3. PICK n : \/ sched' = [sched EXCEPT ![k] = Tail(queue)]
               \/ sched' = [sched EXCEPT ![k] = [queue EXCEPT ![1] = Advanced(input, n)]]
  BY DEF WriteFront
<1> DEFINE rest == [queue EXCEPT ![1] = Advanced(input, n)]
<1>4. OnlyFront(rest)
  <2>1. DOMAIN rest = DOMAIN queue /\ \A j \in DOMAIN queue : j # 1 => rest[j] = queue[j]
    OBVIOUS
  <2> QED BY <2>1 DEF OnlyFront
<1>5. k \in Key
  BY DEF Key
<1> HIDE DEF rest
<1> QED BY <1>2, <1>3, <1>4, <1>5 DEF OneQueueStep, rest

LEMMA DrainSchedulerPacing ==
    ASSUME NEW k \in Session, NEW queue \in Seq(Input), queue # <<>>,
           OnlyFront(queue), DrainScheduler(k, queue)
    PROVE  OneQueueStep
<1>1. k \in Key
  BY DEF Key
<1>2. CASE sched' = [sched EXCEPT ![k] = queue]
  BY <1>1, <1>2 DEF OneQueueStep
<1> QED BY <1>2, WriteFrontPacing DEF DrainScheduler

LEMMA SendSchedulerPacing ==
    ASSUME QueueTypeOK, PacingInv, NEW k \in Session, NEW m \in Scheduled, SendScheduler(k, m)
    PROVE  OneQueueStep
<1> DEFINE queue == Enqueue(sched[k], Fresh(m))
<1>1. k \in Key /\ sched[k] \in Seq(Input) /\ OnlyFront(sched[k])
  BY DEF Key, QueueTypeOK, PacingInv
<1>2. Fresh(m) \in Input /\ Fresh(m).offset = 0
  BY FreshType DEF Fresh
<1>3. queue \in Seq(Input) /\ queue # <<>> /\ OnlyFront(queue)
  BY <1>1, <1>2, OnlyFrontAppend, AppendProperties, EmptySeq DEF Enqueue
<1> HIDE DEF queue
<1>4. CASE sched' = [sched EXCEPT ![k] = queue]
  BY <1>1, <1>3, <1>4 DEF OneQueueStep
<1>5. CASE UNCHANGED sched
  BY <1>5 DEF OneQueueStep
<1> QED BY <1>3, <1>4, <1>5, DrainSchedulerPacing DEF SendScheduler, queue

LEMMA StepPacing ==
    ASSUME TypeInv, PacingInv, [Next]_vars
    PROVE  OneQueueStep
<1>1. QueueTypeOK /\ LoopTypeOK
  BY DEF TypeInv, TypeOK
<1>2. ASSUME NEW k \in Key, DrainKey(k)
      PROVE  OneQueueStep
  <2>1. CASE sched' = [sched EXCEPT ![k] = <<>>]
    <3>1. OnlyFront(<<>>)
      BY EmptySeq, LenProperties DEF OnlyFront
    <3> QED BY <2>1, <3>1 DEF OneQueueStep
  <2>2. CASE UNCHANGED sched
    BY <2>2 DEF OneQueueStep
  <2>3. CASE sched[k] # <<>> /\ DrainScheduler(k, sched[k])
    <3>1. k \in Session /\ sched[k] \in Seq(Input) /\ OnlyFront(sched[k])
      BY <1>1, <2>3 DEF PacingInv, Key, QueueTypeOK
    <3> QED BY <2>3, <3>1, DrainSchedulerPacing
  <2> QED BY <1>2, <2>1, <2>2, <2>3 DEF DrainKey
<1>3. ASSUME NEW m \in Scheduled, HandleEvent(m)
      PROVE  OneQueueStep
  <2>1. CASE UNCHANGED sched
    BY <2>1 DEF OneQueueStep
  <2>2. CASE Present(TargetKey(m)) /\ SendScheduler(Resolve(TargetKey(m)), m)
    BY <1>1, <2>2, PresentSession, SendSchedulerPacing
  <2> QED BY <1>3, <2>1, <2>2 DEF HandleEvent
<1>4. CASE SendDeferred
  <2> DEFINE m == deferred[pos]
  <2>1. m \in Scheduled /\ m \in Message
    BY <1>1, <1>4, ElementOfSeq DEF SendDeferred, ReadyInRange, QueueTypeOK, TypeInv, Message
  <2> HIDE DEF m
  <2>2. CASE UNCHANGED sched
    BY <2>2 DEF OneQueueStep
  <2>3. CASE Present(TargetKey(m)) /\ SendScheduler(TargetKey(m), m)
    <3>1. TargetKey(m) # None
      BY <2>3, PresentSession, MessageAssumption
    <3>2. TargetKey(m) \in Session
      BY <1>1, <2>1, <3>1, TargetSession DEF PacingInv, NoneByName
    <3> QED BY <1>1, <2>1, <2>3, <3>2, SendSchedulerPacing
  <2> QED BY <1>4, <2>2, <2>3 DEF SendDeferred, DeferredQueue, m
<1>5. ASSUME \/ EndDrain \/ Quit \/ Skip \/ CheckSessionExit \/ EndEvents \/ EndDeferred
             \/ EndEnters \/ CheckDeferred \/ SyncSessionOrder \/ Inject
             \/ \E s \in Session : UserInput(s) \/ SessionEnds(s) \/ BecomeIdle(s) \/ DirectWrite(s)
             \/ \E m \in Injected : QueueInjection(m)
             \/ \E m \in Message : NotDue(m) \/ ProcessEnter(m)
             \/ UNCHANGED vars
      PROVE  OneQueueStep
  <2>1. UNCHANGED sched
    BY <1>5 DEF EndDrain, Quit, Skip, CheckSessionExit, EndEvents, EndDeferred, EndEnters,
                CheckDeferred, SyncSessionOrder, Inject, UserInput, SessionEnds, BecomeIdle,
                DirectWrite, QueueInjection, NotDue, ProcessEnter, FirstEnter, RetryEnter,
                GiveUp, OnEnter, queueVars, vars
  <2> QED BY <2>1 DEF OneQueueStep
<1> QED BY <1>2, <1>3, <1>4, <1>5 DEF Next, Loop, Environment

(* "Scheduler continuations share the same per-session input drain": when  *)
(* no reminder or cron event is aimed at a session by its name, a session  *)
(* never has two texts of which its terminal has received a part.          *)
THEOREM TextsInTurn ==
    ASSUME NoneByName
    PROVE  Spec => []OneTextAtATime
<1>1. Init => PacingInv
  <2>1. OnlyFront(<<>>)
    BY EmptySeq, LenProperties DEF OnlyFront
  <2> QED BY <2>1 DEF Init, PacingInv, Key
<1>2. PlaceInv /\ PacingInv /\ [Next]_vars => PacingInv'
  <2> SUFFICES ASSUME PlaceInv, PacingInv, [Next]_vars PROVE PacingInv'
    OBVIOUS
  <2>1. OneQueueStep
    BY StepPacing DEF PlaceInv
  <2>2. CASE UNCHANGED sched
    BY <2>2 DEF PacingInv
  <2>3. ASSUME NEW k \in Key, NEW rest, sched' = [sched EXCEPT ![k] = rest],
               OnlyFront(rest), k \in Session \/ rest = <<>>
        PROVE  PacingInv'
    <3>1. \A l \in Key : sched'[l] = IF l = k THEN rest ELSE sched[l]
      BY <2>3 DEF PlaceInv, TypeInv, TypeOK, QueueTypeOK
    <3>2. \A l \in Key : OnlyFront(sched'[l])
      BY <2>3, <3>1 DEF PacingInv
    <3>3. \A l \in Name : sched'[l] = <<>>
      BY <2>3, <3>1, MessageAssumption DEF PacingInv, Key
    <3> QED BY <3>2, <3>3 DEF PacingInv
  <2> QED BY <2>1, <2>2, <2>3 DEF OneQueueStep
<1>3. PacingInv => OneTextAtATime
  <2> SUFFICES ASSUME PacingInv, NEW s \in Session PROVE Cardinality(PartlySent(s)) <= 1
    BY DEF OneTextAtATime
  <2>1. PartlySent(s) \subseteq {<<s, 1>>}
    <3> SUFFICES ASSUME NEW x \in PartlySent(s) PROVE x = <<s, 1>>
      OBVIOUS
    <3>1. PICK k \in Key : /\ Resolve(k) = s
                           /\ \E i \in DOMAIN sched[k] : x = <<k, i>> /\ sched[k][i].offset > 0
      BY DEF PartlySent
    <3>2. k \notin Name
      BY <3>1, EmptySeq, LenProperties DEF PacingInv
    <3>3. k = s
      BY <3>1, <3>2 DEF Key, Resolve
    <3> QED BY <3>1, <3>3 DEF PacingInv, OnlyFront
  <2>2. PartlySent(s) = {} \/ PartlySent(s) = {<<s, 1>>}
    BY <2>1
  <2>3. Cardinality({}) = 0 /\ Cardinality({<<s, 1>>}) = 1
    BY FS_EmptySet, FS_Singleton
  <2> QED BY <2>2, <2>3
<1> QED BY <1>1, <1>2, <1>3, PlaceInvariant, PTL DEF Spec

-----------------------------------------------------------------------------
(* The Enters of a text never exceed its budget, a retry repeats nothing   *)
(* but the text's own Enter, and the queues implement MessageLifecycle.    *)

(* The entry of a text bounds the Enters it has had; a text without an     *)
(* entry yet has had none.                                                 *)
WithinBudget(e) == sent[e.msg] <= IF e.armed THEN 1 + e.checks ELSE 0

Budget ==
    /\ \A i \in DOMAIN enters : WithinBudget(enters[i])
    /\ \A m \in Message : m \in TypingMsgs \cup HeldMsgs \cup unfired => sent[m] = 0

LifecycleInv == TypeInv /\ Stamps /\ Apart /\ Budget

-----------------------------------------------------------------------------
(* The steps that press a delayed Enter *)

(* m has an entry, some Enters left, and gets one now: a retry finds its   *)
(* previous Enter as the last thing the child got.                         *)
Presses(m) ==
    /\ sent' = [sent EXCEPT ![m] = @ + 1]
    /\ m \in EnterMsgs /\ sent[m] <= RetryChecks
    /\ sent[m] > 0 => \E s \in Session : by[s] = m /\ line[s] = {} /\ lastInput'[s] = lastInput[s] + 1

(* The entries after a step of drain_delayed_enters: the others stay, and  *)
(* the one at pos is gone or has counted the Enter.                        *)
CountedAt(f) == f.msg = enters[pos].msg /\ sent'[f.msg] <= IF f.armed THEN 1 + f.checks ELSE 0

OthersKept ==
    \A i \in DOMAIN enters' :
        \/ CountedAt(enters'[i])
        \/ Kept(enters'[i]) /\ enters'[i].msg # enters[pos].msg

LEMMA RemovedKeepsOthers ==
    ASSUME QueueTypeOK, OncePerMsg(enters), pos \in 1 .. Len(enters), RemoveEnter
    PROVE  OthersKept
<1>1. enters \in Seq(Entry) /\ Len(enters) \in Nat /\ DOMAIN enters = 1 .. Len(enters)
  BY LenProperties DEF QueueTypeOK
<1>2. /\ enters' \in Seq(Entry) /\ Len(enters') = Len(enters) - 1
      /\ \A j \in 1 .. Len(enters) - 1 :
            enters'[j] = IF j < pos THEN enters[j] ELSE enters[j + 1]
  BY <1>1, RemoveAtProperties DEF RemoveEnter
<1>3. DOMAIN enters' = 1 .. Len(enters) - 1
  BY <1>2, LenProperties
<1>4. ASSUME NEW i \in 1 .. Len(enters) - 1
      PROVE  Kept(enters'[i]) /\ enters'[i].msg # enters[pos].msg
  BY <1>1, <1>2 DEF Kept, OncePerMsg
<1> QED BY <1>3, <1>4 DEF OthersKept

LEMMA ReplacedKeepsOthers ==
    ASSUME QueueTypeOK, OncePerMsg(enters), pos \in 1 .. Len(enters),
           NEW f \in Entry, CountedAt(f), KeepEnter(f)
    PROVE  OthersKept
<1>1. enters \in Seq(Entry) /\ DOMAIN enters = 1 .. Len(enters)
  BY LenProperties DEF QueueTypeOK
<1>2. /\ enters' \in Seq(Entry) /\ Len(enters') = Len(enters)
      /\ \A j \in 1 .. Len(enters) : enters'[j] = IF j = pos THEN f ELSE enters[j]
  BY <1>1, ExceptSeq DEF KeepEnter
<1>3. DOMAIN enters' = 1 .. Len(enters)
  BY <1>2, LenProperties
<1>4. ASSUME NEW i \in 1 .. Len(enters), i # pos
      PROVE  Kept(enters'[i]) /\ enters'[i].msg # enters[pos].msg
  BY <1>1, <1>2, <1>4 DEF Kept, OncePerMsg
<1> QED BY <1>2, <1>3, <1>4 DEF OthersKept

(* What one step of the pass does to the count of its message.             *)
LEMMA ProcessEnterCounts ==
    ASSUME LifecycleInv, NEW m \in Message, NotDue(m) \/ ProcessEnter(m)
    PROVE  /\ OthersKept /\ m = enters[pos].msg /\ pos \in DOMAIN enters
           /\ UNCHANGED sent \/ Presses(m)
<1> DEFINE e == enters[pos]
           s == e.session
<1>1. /\ QueueTypeOK /\ SessionTypeOK /\ ChildTypeOK /\ LoopTypeOK
      /\ OncePerMsg(enters)
  BY DEF LifecycleInv, TypeInv, TypeOK, Apart, TypingApart
<1>2. /\ OnEnter(m)
      /\ pos \in 1 .. Len(enters) /\ DOMAIN enters = 1 .. Len(enters)
      /\ UNCHANGED status /\ e.msg = m
  <2>1. OnEnter(m)
    BY DEF NotDue, ProcessEnter, FirstEnter, RetryEnter, GiveUp
  <2> QED BY <1>1, <2>1, LenProperties DEF OnEnter, LoopTypeOK, QueueTypeOK
<1>3. e \in Entry /\ s \in Session
  <2>1. enters \in Seq(Entry)
    BY <1>1 DEF QueueTypeOK
  <2>2. e \in Entry
    BY <1>2, <2>1, ElementOfSeq
  <2> QED BY <2>2 DEF Entry
<1>4. /\ Stamp(e) /\ m \in EnterMsgs
      /\ sent[m] \in Nat /\ sent[m] <= IF e.armed THEN 1 + e.checks ELSE 0
  BY <1>1, <1>2 DEF LifecycleInv, Stamps, EnterMsgs, MsgsOf, ChildTypeOK, Budget, WithinBudget
<1>5. ASSUME RemoveEnter PROVE OthersKept
  BY <1>1, <1>2, <1>5, RemovedKeepsOthers
<1>6. ASSUME NEW f \in Entry, CountedAt(f), KeepEnter(f) PROVE OthersKept
  BY <1>1, <1>2, <1>6, ReplacedKeepsOthers
<1>7. ASSUME PressEnter(s, m)
      PROVE  /\ lastInput'[s] \in Nat /\ lastInput'[s] = lastInput[s] + 1
             /\ sent' = [sent EXCEPT ![m] = @ + 1] /\ sent'[m] = sent[m] + 1
  <2>1. SessionTypeOK' /\ lastInput'[s] = lastInput[s] + 1
    BY <1>1, <1>2, <1>3, <1>7, TouchType DEF PressEnter
  <2>2. sent' = [sent EXCEPT ![m] = @ + 1]
    BY <1>7, MessageAssumption DEF PressEnter
  <2> QED BY <1>1, <1>3, <2>1, <2>2 DEF SessionTypeOK, ChildTypeOK
<1>8. SendFails(s) => UNCHANGED sent
  BY DEF SendFails, NothingTyped, childVars
<1>9. CASE NotDue(m)
  <2>1. UNCHANGED sent
    BY <1>9 DEF NotDue, NothingTyped, childVars
  <2>2. CountedAt(e)
    BY <1>2, <1>4, <2>1 DEF CountedAt
  <2> QED BY <1>2, <1>3, <1>6, <1>9, <2>1, <2>2 DEF NotDue
<1>10. CASE FirstEnter(m)
  <2>1. CASE RemoveEnter /\ SendFails(s)
    BY <1>2, <1>5, <1>8, <2>1
  <2>2. CASE PressEnter(s, m)
    <3>1. ~e.armed /\ sent[m] = 0
      BY <1>4, <1>10 DEF FirstEnter
    <3>2. Presses(m)
      BY <1>4, <1>7, <2>2, <3>1, LimitAssumption DEF Presses
    <3> DEFINE f == [e EXCEPT !.armed = TRUE, !.inputAt = lastInput'[s]]
    <3>3. CASE KeepEnter(f)
      <4>1. f \in Entry /\ f.msg = e.msg /\ f.armed /\ f.checks = e.checks /\ e.checks \in Nat
        <5>1. lastInput'[s] \in Nat
          BY <1>7, <2>2
        <5>2. f \in Entry /\ f.msg = e.msg /\ f.armed /\ f.checks = e.checks
          BY <1>3, <5>1 DEF Entry
        <5>3. e.checks \in Nat
          BY <1>3, LimitAssumption DEF Entry
        <5> QED BY <5>2, <5>3
      <4> HIDE DEF f
      <4>2. CountedAt(f)
        BY <1>2, <1>7, <2>2, <3>1, <4>1 DEF CountedAt
      <4> QED BY <1>2, <1>6, <3>2, <3>3, <4>1, <4>2
    <3>4. CASE RemoveEnter
      BY <1>2, <1>5, <3>2, <3>4
    <3> QED BY <1>10, <3>3, <3>4 DEF FirstEnter
  <2> QED BY <1>10, <2>1, <2>2 DEF FirstEnter
<1>11. CASE RetryEnter(m)
  <2>1. /\ e.armed /\ Owned(e) /\ e.checks \in Nat /\ e.checks < RetryChecks
        /\ e.checks + 1 \in 0 .. RetryChecks
    BY <1>3, <1>11, LimitAssumption DEF RetryEnter, Exhausted, Entry
  <2>2. by[s] = m /\ line[s] = {}
    BY <1>2, <1>4, <2>1 DEF Owned, Stamp
  <2>3. CASE RemoveEnter /\ SendFails(s)
    BY <1>2, <1>5, <1>8, <2>3
  <2>4. CASE KeepEnter([e EXCEPT !.checks = @ + 1]) /\ NothingTyped
    <3> DEFINE f == [e EXCEPT !.checks = @ + 1]
    <3>1. UNCHANGED sent
      BY <2>4 DEF NothingTyped, childVars
    <3>2. f \in Entry /\ f.msg = m /\ f.armed = e.armed /\ f.checks = e.checks + 1
      BY <1>2, <1>3, <2>1 DEF Entry
    <3>3. CountedAt(f)
      BY <1>2, <1>4, <2>1, <3>1, <3>2 DEF CountedAt
    <3> QED BY <1>2, <1>6, <2>4, <3>1, <3>2, <3>3
  <2>5. CASE /\ PressEnter(s, m)
             /\ KeepEnter([e EXCEPT !.checks = @ + 1, !.inputAt = lastInput'[s]])
    <3> DEFINE f == [e EXCEPT !.checks = @ + 1, !.inputAt = lastInput'[s]]
    <3>1. f \in Entry /\ f.msg = m /\ f.armed = e.armed /\ f.checks = e.checks + 1
      BY <1>2, <1>3, <1>7, <2>1, <2>5 DEF Entry
    <3> HIDE DEF f
    <3>2. CountedAt(f)
      BY <1>2, <1>4, <1>7, <2>1, <2>5, <3>1 DEF CountedAt
    <3>3. Presses(m)
      BY <1>3, <1>4, <1>7, <2>1, <2>2, <2>5, LimitAssumption DEF Presses
    <3> QED BY <1>2, <1>6, <2>5, <3>1, <3>2, <3>3 DEF f
  <2> QED BY <1>11, <2>3, <2>4, <2>5 DEF RetryEnter
<1>12. CASE GiveUp(m)
  <2>1. UNCHANGED sent
    BY <1>12 DEF GiveUp, NothingTyped, childVars
  <2> QED BY <1>2, <1>5, <1>12, <2>1 DEF GiveUp
<1> QED BY <1>9, <1>10, <1>11, <1>12 DEF ProcessEnter

LEMMA EntryMsgs ==
    ASSUME TypeInv, NEW i \in DOMAIN enters
    PROVE  enters[i] \in Entry /\ enters[i].msg \in Message /\ enters[i].msg \in EnterMsgs
<1>1. enters \in Seq(Entry)
  BY DEF TypeInv, TypeOK, QueueTypeOK
<1>2. enters[i] \in Entry
  BY <1>1, LenProperties, ElementOfSeq
<1> QED BY <1>2 DEF Entry, EnterMsgs, MsgsOf

LEMMA BudgetKept ==
    ASSUME LifecycleInv, [Next]_vars, TypeInv'
    PROVE  Budget'
<1>1. TypeInv /\ Apart /\ Budget /\ sent \in [Message -> Nat]
  BY DEF LifecycleInv, TypeInv, TypeOK, ChildTypeOK
<1>2. PlacesStep
  BY <1>1, StepPlaces
<1>3. /\ TypingMsgs' \cup HeldMsgs' \cup unfired' \subseteq TypingMsgs \cup HeldMsgs \cup unfired
      /\ EnterMsgs \cap (TypingMsgs \cup HeldMsgs \cup unfired) = {}
  BY <1>1, <1>2 DEF PlacesStep, Apart, TypingApart, StagesApart
<1>4. ASSUME NewEntersUnarmed, UNCHANGED sent
      PROVE  Budget'
  <2>1. ASSUME NEW i \in DOMAIN enters' PROVE WithinBudget(enters[i])'
    <3>1. enters'[i].msg \in Message
      <4>1. enters' \in Seq(Entry)
        BY DEF TypeInv, TypeOK, QueueTypeOK
      <4>2. enters'[i] \in Entry
        BY <4>1, LenProperties, ElementOfSeq
      <4> QED BY <4>2 DEF Entry
    <3>2. CASE Kept(enters'[i])
      <4>1. PICK j \in DOMAIN enters : enters[j] = enters'[i]
        BY <3>2 DEF Kept
      <4>2. WithinBudget(enters[j])
        BY <1>1 DEF Budget
      <4> QED BY <1>4, <4>1, <4>2 DEF WithinBudget
    <3>3. CASE /\ ~enters'[i].armed
               /\ enters'[i].msg \in TypingMsgs \cup HeldMsgs \cup unfired
      BY <1>1, <1>4, <3>1, <3>3 DEF Budget, WithinBudget
    <3> QED BY <1>4, <3>2, <3>3 DEF NewEntersUnarmed, EntersFrom
  <2> QED BY <1>1, <1>3, <1>4, <2>1 DEF Budget
<1>5. ASSUME NEW m \in Message, NotDue(m) \/ ProcessEnter(m)
      PROVE  Budget'
  <2>1. OthersKept /\ m = enters[pos].msg /\ m \in EnterMsgs
    BY <1>1, <1>5, ProcessEnterCounts, EntryMsgs
  <2>2. \A x \in Message : x # m => sent'[x] = sent[x]
    BY <1>1, <1>5, ProcessEnterCounts DEF Presses
  <2>3. ASSUME NEW i \in DOMAIN enters' PROVE WithinBudget(enters[i])'
    <3>1. CASE CountedAt(enters'[i])
      BY <3>1 DEF CountedAt, WithinBudget
    <3>2. CASE Kept(enters'[i]) /\ enters'[i].msg # m
      <4>1. PICK j \in DOMAIN enters : enters[j] = enters'[i]
        BY <3>2 DEF Kept
      <4>2. WithinBudget(enters[j]) /\ enters[j].msg \in Message
        BY <1>1, EntryMsgs DEF Budget
      <4> QED BY <2>2, <3>2, <4>1, <4>2 DEF WithinBudget
    <3> QED BY <2>1, <3>1, <3>2 DEF OthersKept
  <2>4. ASSUME NEW x \in Message, x \in TypingMsgs' \cup HeldMsgs' \cup unfired'
        PROVE  sent'[x] = 0
    BY <1>1, <1>3, <2>1, <2>2, <2>4 DEF Budget
  <2> QED BY <2>3, <2>4 DEF Budget
<1>6. CASE UNCHANGED vars
  BY <1>1, <1>6 DEF vars, queueVars, childVars, Budget, WithinBudget, TypingMsgs, HeldMsgs
<1>7. CASE Next
  BY <1>1, <1>4, <1>5, <1>7, QuietStepPlaces DEF QuietPlaces
<1> QED BY <1>6, <1>7

LEMMA LifecycleInvariant == Spec => []LifecycleInv
<1>1. Init => Budget
  <2> SUFFICES ASSUME Init PROVE Budget
    OBVIOUS
  <2>1. DOMAIN enters = {}
    BY EmptySeq, LenProperties DEF Init
  <2> QED BY <2>1 DEF Init, Budget
<1>2. Budget /\ EnterInv /\ PlaceInv /\ [Next]_vars /\ TypeInv' => Budget'
  BY BudgetKept DEF LifecycleInv, EnterInv, PlaceInv
<1>3. Spec => [](EnterInv /\ PlaceInv)
  BY EnterInvariant, PlaceInvariant, PTL
<1>4. EnterInv => TypeInv
  BY DEF EnterInv
<1>5. Spec => []Budget
  BY <1>1, <1>2, <1>3, <1>4, PTL DEF Spec
<1> QED BY <1>3, <1>5, PTL DEF LifecycleInv, EnterInv, PlaceInv

(* drain_delayed_enters sends another Enter for a text only while that     *)
(* text's previous Enter is the last thing its session received, whatever  *)
(* users, viewers, the scheduler and other injections write in between.    *)
THEOREM RetriesFollowOwnEnter == Spec => RetryFollowsOwnEnter
<1> DEFINE Follows == \A m \in Message :
              sent[m] > 0 /\ sent'[m] > sent[m] =>
                 \E s \in Session : by[s] = m /\ line[s] = {} /\ lastInput'[s] = lastInput[s] + 1
<1>1. LifecycleInv /\ [Next]_vars => [Follows]_vars
  <2> SUFFICES ASSUME LifecycleInv, Next, NEW m \in Message, sent[m] > 0, sent'[m] > sent[m]
               PROVE  \E s \in Session :
                         by[s] = m /\ line[s] = {} /\ lastInput'[s] = lastInput[s] + 1
    OBVIOUS
  <2>1. sent \in [Message -> Nat] /\ TypeInv /\ Apart
    BY DEF LifecycleInv, TypeInv, TypeOK, ChildTypeOK
  <2>2. ~UNCHANGED sent
    BY <2>1
  <2>3. PICK x \in Message : NotDue(x) \/ ProcessEnter(x)
    BY <2>1, <2>2, QuietStepPlaces DEF QuietPlaces
  <2>4. Presses(x)
    BY <2>2, <2>3, ProcessEnterCounts
  <2>5. x = m
    BY <2>1, <2>4 DEF Presses
  <2> QED BY <2>4, <2>5 DEF Presses
<1> QED BY <1>1, LifecycleInvariant, PTL DEF Spec, RetryFollowsOwnEnter

(* An Enter is verified and repeated only for the text that its first      *)
(* press submitted, and only while nobody typed anything else              *)
(* (drain_delayed_enters).                                                 *)
THEOREM EntersAreOwn == Spec => OwnEnters
BY ArmsOwnText, RetriesFollowOwnEnter DEF OwnEnters

-----------------------------------------------------------------------------
(* The queues implement the lifecycle *)

(* The stage of a message, by the queues it is in.                         *)
Staged(m) ==
    IF m \in unfired THEN "unfired"
    ELSE IF m \in HeldMsgs THEN "held"
    ELSE IF m \in TypingMsgs THEN "typing"
    ELSE IF m \in EnterMsgs THEN "typed"
    ELSE "over"

StagesAreSets == \A m : StageOf(m) = Staged(m)

LEMMA StageSets == StagesAreSets
<1> SUFFICES ASSUME NEW m PROVE StageOf(m) = Staged(m)
  BY DEF StagesAreSets
<1>1. Holds(deferred, m) \/ Holds(injections, m) <=> m \in HeldMsgs
  BY DEF Holds, HeldMsgs, ToSet
<1>2. (\E k \in Key : HoldsFor(sched[k], m)) <=> m \in TypingMsgs
  BY DEF HoldsFor, TypingMsgs, MsgsOf
<1>3. HoldsFor(enters, m) <=> m \in EnterMsgs
  BY DEF HoldsFor, EnterMsgs, MsgsOf
<1> QED BY <1>1, <1>2, <1>3 DEF StageOf, Staged

LEMMA StageMovesForward ==
    ASSUME Apart, PlacesStep, NEW m
    PROVE  StageOf(m)' \in {StageOf(m)} \cup Abstract!After(StageOf(m))
<1>1. StagesAreSets'
  BY StageSets, PTL
<1>2. StageOf(m)' = Staged(m)' /\ StageOf(m) = Staged(m)
  BY <1>1, StageSets DEF StagesAreSets
<1>3. Staged(m)' \in {Staged(m)} \cup Abstract!After(Staged(m))
  <2>1. /\ Abstract!After("unfired") = {"held", "typing", "typed", "over"}
        /\ Abstract!After("held") = {"typing", "typed", "over"}
        /\ Abstract!After("typing") = {"typed", "over"}
        /\ Abstract!After("typed") = {"over"}
    BY DEF Abstract!After
  <2>2. /\ unfired' \subseteq unfired
        /\ m \in HeldMsgs' => m \in HeldMsgs \cup unfired
        /\ m \in TypingMsgs' => m \in TypingMsgs \cup HeldMsgs \cup unfired
        /\ m \in EnterMsgs' => m \in EnterMsgs \cup TypingMsgs \cup HeldMsgs \cup unfired
    BY DEF PlacesStep
  <2>3. Staged(m)' = IF m \in unfired' THEN "unfired"
                     ELSE IF m \in HeldMsgs' THEN "held"
                     ELSE IF m \in TypingMsgs' THEN "typing"
                     ELSE IF m \in EnterMsgs' THEN "typed"
                     ELSE "over"
    BY DEF Staged
  <2>4. CASE m \in unfired
    BY <2>1, <2>3, <2>4 DEF Staged
  <2>5. CASE m \notin unfired /\ m \in HeldMsgs
    BY <2>1, <2>2, <2>3, <2>5 DEF Staged
  <2>6. CASE m \notin unfired /\ m \notin HeldMsgs /\ m \in TypingMsgs
    BY <2>1, <2>2, <2>3, <2>6 DEF Staged
  <2>7. CASE m \notin unfired /\ m \notin HeldMsgs /\ m \notin TypingMsgs
    BY <2>1, <2>2, <2>3, <2>7 DEF Staged
  <2> QED BY <2>4, <2>5, <2>6, <2>7
<1> QED BY <1>2, <1>3

LEMMA StepIsLifecycleStep ==
    ASSUME LifecycleInv, [Next]_vars
    PROVE  Abstract!Step
<1>1. TypeInv /\ Apart /\ sent \in [Message -> Nat]
  BY DEF LifecycleInv, TypeInv, TypeOK, ChildTypeOK
<1>2. PlacesStep
  BY <1>1, StepPlaces
<1>3. \A m \in Message : StageOf(m)' \in {StageOf(m)} \cup Abstract!After(StageOf(m))
  BY <1>1, <1>2, StageMovesForward
<1>4. UNCHANGED sent \/ \E m \in Message : Presses(m)
  <2>1. CASE Next
    BY <1>1, <2>1, QuietStepPlaces, ProcessEnterCounts DEF QuietPlaces
  <2>2. CASE UNCHANGED vars
    BY <2>2 DEF vars, childVars
  <2> QED BY <2>1, <2>2
<1>5. ASSUME NEW m \in Message, Presses(m)
      PROVE  Abstract!Submit(m)
  <2>1. m \notin unfired /\ m \notin HeldMsgs /\ m \notin TypingMsgs /\ m \in EnterMsgs
    BY <1>1, <1>5 DEF Presses, Apart, TypingApart, StagesApart
  <2>2. StageOf(m) = "typed"
    BY <2>1, StageSets DEF StagesAreSets, Staged
  <2>3. sent[m] < 1 + RetryChecks
    BY <1>1, <1>5, LimitAssumption DEF Presses
  <2> QED BY <1>5, <2>2, <2>3 DEF Presses, Abstract!Submit
<1> QED BY <1>3, <1>4, <1>5 DEF Abstract!Step

(* Whatever the loop, the drains, the retries and the ends of sessions do, *)
(* every message goes through deferral, paced writing and delayed Enters   *)
(* as MessageLifecycle promises: never back, never twice, with at most     *)
(* 1 + RETRY_DELAYS.len() Enters, none before its text is complete.        *)
THEOREM LifecycleImplemented == Spec => ImplementsLifecycle
<1>1. Init => Abstract!Begin
  BY StageSets DEF StagesAreSets, Staged, Init, Abstract!Begin
<1>2. LifecycleInv /\ [Next]_vars => Abstract!Step
  BY StepIsLifecycleStep
<1> QED BY <1>1, <1>2, LifecycleInvariant, PTL DEF Spec, ImplementsLifecycle, Abstract!Lifecycles
=============================================================================
