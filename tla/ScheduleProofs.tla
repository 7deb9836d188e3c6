--------------------------- MODULE ScheduleProofs ---------------------------
(***************************************************************************)
(* Proofs about Schedule for any reminders, cron jobs, refreshes and       *)
(* delays: every reminder has one fate, deliveries keep their distance and *)
(* their order, and a restore follows its own /clear.  And about the       *)
(* instance of Ctl in MCSchedule, for any sessions and waits: what a       *)
(* command reports was done, was.                                          *)
(***************************************************************************)
EXTENDS MCSchedule, SequenceTheorems, FiniteSetTheorems, TLAPS

-----------------------------------------------------------------------------
(* Lists *)

LEMMA AppendList ==
    ASSUME NEW S, NEW q \in Seq(S), NEW e \in S
    PROVE  LET p == Append(q, e)
           IN  /\ p \in Seq(S) /\ Len(p) = Len(q) + 1 /\ DOMAIN p = 1 .. Len(q) + 1
               /\ Len(q) \in Nat /\ DOMAIN q = 1 .. Len(q)
               /\ \A i \in 1 .. Len(q) : p[i] = q[i]
               /\ p[Len(q) + 1] = e
               /\ ToSet(p) = ToSet(q) \cup {e}
<1> DEFINE p == Append(q, e)
<1>1. /\ p \in Seq(S) /\ Len(p) = Len(q) + 1 /\ DOMAIN p = 1 .. Len(q) + 1
      /\ Len(q) \in Nat /\ DOMAIN q = 1 .. Len(q)
      /\ \A i \in 1 .. Len(q) : p[i] = q[i]
      /\ p[Len(q) + 1] = e
  OBVIOUS
<1> HIDE DEF p
<1>2. ToSet(p) = ToSet(q) \cup {e}
  <2>1. \A i \in DOMAIN p : i \in DOMAIN q \/ i = Len(q) + 1
    BY <1>1
  <2>2. \A i \in DOMAIN q : i \in DOMAIN p /\ p[i] = q[i]
    BY <1>1
  <2>3. Len(q) + 1 \in DOMAIN p
    BY <1>1
  <2> QED BY <1>1, <2>1, <2>2, <2>3 DEF ToSet
<1> QED BY <1>1, <1>2 DEF p

LEMMA TailList ==
    ASSUME NEW S, NEW q \in Seq(S), q # <<>>
    PROVE  LET p == Tail(q)
           IN  /\ p \in Seq(S) /\ Len(q) \in Nat \ {0} /\ DOMAIN q = 1 .. Len(q)
               /\ DOMAIN p = 1 .. Len(q) - 1 /\ Head(q) \in S /\ Head(q) = q[1]
               /\ \A i \in 1 .. Len(q) - 1 : p[i] = q[i + 1]
               /\ ToSet(q) = {Head(q)} \cup ToSet(p)
<1> DEFINE p == Tail(q)
<1>1. /\ p \in Seq(S) /\ Len(q) \in Nat \ {0} /\ DOMAIN q = 1 .. Len(q)
      /\ DOMAIN p = 1 .. Len(q) - 1 /\ Head(q) \in S /\ Head(q) = q[1]
      /\ \A i \in 1 .. Len(q) - 1 : p[i] = q[i + 1]
  OBVIOUS
<1> HIDE DEF p
<1>2. ToSet(q) = {Head(q)} \cup ToSet(p)
  <2>1. \A i \in DOMAIN q : i = 1 \/ (i - 1 \in DOMAIN p /\ p[i - 1] = q[i])
    BY <1>1
  <2>2. \A i \in DOMAIN p : i + 1 \in DOMAIN q /\ p[i] = q[i + 1]
    BY <1>1
  <2>3. 1 \in DOMAIN q
    BY <1>1
  <2> QED BY <1>1, <2>1, <2>2, <2>3 DEF ToSet
<1> QED BY <1>1, <1>2 DEF p

LEMMA ConcatList ==
    ASSUME NEW S, NEW q \in Seq(S), NEW r \in Seq(S)
    PROVE  LET p == q \o r
           IN  /\ p \in Seq(S) /\ Len(q) \in Nat /\ Len(r) \in Nat
               /\ DOMAIN q = 1 .. Len(q) /\ DOMAIN r = 1 .. Len(r)
               /\ DOMAIN p = 1 .. Len(q) + Len(r)
               /\ \A i \in DOMAIN q : p[i] = q[i]
               /\ \A i \in DOMAIN p : i \notin DOMAIN q =>
                     i - Len(q) \in DOMAIN r /\ p[i] = r[i - Len(q)]
               /\ ToSet(p) = ToSet(q) \cup ToSet(r)
<1> DEFINE p == q \o r
<1>1. /\ p \in Seq(S) /\ Len(q) \in Nat /\ Len(r) \in Nat
      /\ DOMAIN q = 1 .. Len(q) /\ DOMAIN r = 1 .. Len(r)
      /\ Len(p) = Len(q) + Len(r) /\ DOMAIN p = 1 .. Len(p)
      /\ \A i \in 1 .. Len(p) : p[i] = IF i <= Len(q) THEN q[i] ELSE r[i - Len(q)]
  OBVIOUS
<1> HIDE DEF p
<1>2. /\ \A i \in DOMAIN q : i \in DOMAIN p /\ p[i] = q[i]
      /\ \A i \in DOMAIN r : i + Len(q) \in DOMAIN p /\ p[i + Len(q)] = r[i]
      /\ \A i \in DOMAIN p : \/ i \in DOMAIN q
                             \/ i - Len(q) \in DOMAIN r /\ p[i] = r[i - Len(q)]
  BY <1>1
<1>3. ToSet(p) = ToSet(q) \cup ToSet(r)
  BY <1>2 DEF ToSet
<1> QED BY <1>1, <1>3 DEF p

LEMMA ListOfAll ==
    ASSUME NEW S, IsFiniteSet(S), NEW a \in SetToSeqs(S)
    PROVE  /\ a \in Seq(S)
           /\ \A i, j \in DOMAIN a : a[i] = a[j] => i = j
           /\ \A x \in S : \E i \in DOMAIN a : a[i] = x
<1> DEFINE n == Cardinality(S)
<1>1. n \in Nat
  BY FS_CardinalityType
<1>2. a \in [1 .. n -> S] /\ \A i, j \in 1 .. n : i # j => a[i] # a[j]
  BY DEF SetToSeqs
<1>3. IsFiniteSet(1 .. n) /\ Cardinality(1 .. n) = n
  <2> HIDE DEF n
  <2>1. 1 \in Int /\ n \in Int /\ (1 > n => n = 0)
    BY <1>1
  <2>2. Cardinality(1 .. n) = IF 1 > n THEN 0 ELSE n - 1 + 1
    BY <2>1, FS_Interval
  <2> QED BY <1>1, <2>1, <2>2, FS_Interval
<1>4. a \in Injection(1 .. n, S)
  BY <1>2 DEF Injection, IsInjective
<1>5. a \in Surjection(1 .. n, S)
  BY <1>3, <1>4, FS_Injection
<1>6. \A x \in S : \E i \in 1 .. n : a[i] = x
  BY <1>5 DEF Surjection
<1> HIDE DEF n
<1>7. a \in Seq(S)
  BY <1>1, <1>2
<1> QED BY <1>2, <1>6, <1>7

LEMMA OnceAppend ==
    ASSUME NEW S, NEW q \in Seq(S), NEW e \in S, Once(q), e \in Reminder => e \notin ToSet(q)
    PROVE  Once(Append(q, e))
<1> DEFINE p == Append(q, e)
<1>1. /\ DOMAIN p = 1 .. Len(q) + 1 /\ Len(q) \in Nat /\ DOMAIN q = 1 .. Len(q)
      /\ \A i \in 1 .. Len(q) : p[i] = q[i]
      /\ p[Len(q) + 1] = e
  BY AppendList
<1> HIDE DEF p
<1>2. \A i \in DOMAIN p : i \in DOMAIN q \/ i = Len(q) + 1
  BY <1>1
<1>3. \A i \in DOMAIN q : p[i] = q[i] /\ (e \in Reminder => p[i] # e)
  BY <1>1 DEF ToSet
<1> QED BY <1>1, <1>2, <1>3 DEF Once, p

LEMMA OnceTail ==
    ASSUME NEW S, NEW q \in Seq(S), q # <<>>, Once(q)
    PROVE  Once(Tail(q)) /\ (Head(q) \in Reminder => Head(q) \notin ToSet(Tail(q)))
<1> DEFINE p == Tail(q)
<1>1. /\ Len(q) \in Nat \ {0} /\ DOMAIN q = 1 .. Len(q)
      /\ DOMAIN p = 1 .. Len(q) - 1 /\ Head(q) = q[1]
      /\ \A i \in 1 .. Len(q) - 1 : p[i] = q[i + 1]
  BY TailList
<1> HIDE DEF p
<1>2. \A i \in DOMAIN p : i + 1 \in DOMAIN q /\ i + 1 # 1 /\ i \in Nat /\ p[i] = q[i + 1]
  BY <1>1
<1>3. 1 \in DOMAIN q
  BY <1>1
<1>4. Once(p)
  <2> SUFFICES ASSUME NEW i \in DOMAIN p, NEW j \in DOMAIN p, p[i] = p[j], p[i] \in Reminder
               PROVE  i = j
    BY DEF Once
  <2>1. i + 1 = j + 1
    BY <1>2 DEF Once
  <2> QED BY <1>2, <2>1
<1>5. Head(q) \in Reminder => Head(q) \notin ToSet(p)
  BY <1>1, <1>2, <1>3 DEF Once, ToSet
<1> QED BY <1>4, <1>5 DEF p

-----------------------------------------------------------------------------
(* The inductive invariant *)

Entry == Reminder \cup CronJob

(* What a drain has taken is in its hands only while it runs, and so are   *)
(* the events of a tick; the tables are finite.                            *)
Phases ==
    /\ due # <<>> => pc = "handle"
    /\ taken # <<>> \/ remaining # <<>> => pc = "advance"
    /\ IsFiniteSet(DOMAIN reminders) /\ IsFiniteSet(jobs)

Reqs(queue) == {q.req : q \in ToSet(queue)}

OncePerReq(queue) == \A i, j \in DOMAIN queue : queue[i].req = queue[j].req => i = j

(* The time left until the restore is what is left of the delay since the  *)
(* refresh's own /clear.                                                   *)
OnTime(q) ==
    /\ q.req \notin restored /\ q.req \notin unset
    /\ q.sent => /\ cleared[q.req] \in 0 .. FollowupDelay
                 /\ q.left = FollowupDelay - cleared[q.req]

AllOnTime(queue) == \A q \in ToSet(queue) : OnTime(q)

Refreshes ==
    /\ AllOnTime(requests) /\ AllOnTime(taken) /\ AllOnTime(remaining)
    /\ OncePerReq(requests) /\ OncePerReq(taken) /\ OncePerReq(remaining)
    /\ Reqs(requests) \cap Reqs(taken) = {} /\ Reqs(requests) \cap Reqs(remaining) = {}
    /\ Reqs(taken) \cap Reqs(remaining) = {}
    /\ restored \cap unset = {}
    /\ RestoreAfterClear

ScheduleInductive == TypeOK /\ Phases /\ OneFate /\ Refreshes

(* One of seven, the fifth of which is a number.                           *)
JustOne(unused, pending, handled, waiting, sent, lost, cancelled) ==
    /\ unused \/ pending \/ handled \/ waiting \/ sent = 1 \/ lost \/ cancelled
    /\ unused => ~pending /\ ~handled /\ ~waiting /\ sent # 1 /\ ~lost /\ ~cancelled
    /\ pending => ~handled /\ ~waiting /\ sent # 1 /\ ~lost /\ ~cancelled
    /\ handled => ~waiting /\ sent # 1 /\ ~lost /\ ~cancelled
    /\ waiting => sent # 1 /\ ~lost /\ ~cancelled
    /\ sent = 1 => ~lost /\ ~cancelled
    /\ lost => ~cancelled

OneHome(r) ==
    JustOne(r \in unset, r \in DOMAIN reminders, r \in ToSet(due), r \in ToSet(deferred),
            fate[r].sent, fate[r].lost, fate[r].cancelled)

(* OneFate without its sum.                                                *)
Homes ==
    /\ Once(due) /\ Once(deferred)
    /\ \A r \in Reminder : OneHome(r) /\ (fate[r].lost => ~alive \/ reloads > 0)

LEMMA FateIsHome == TypeOK => (OneFate <=> Homes)
<1> SUFFICES ASSUME TypeOK, NEW r \in Reminder
             PROVE  LET Count(b) == IF b THEN 1 ELSE 0
                    IN  (Count(r \in unset) + Count(r \in DOMAIN reminders)
                         + Count(r \in ToSet(due)) + Count(r \in ToSet(deferred))
                         + fate[r].sent + Count(fate[r].lost) + Count(fate[r].cancelled) = 1)
                        <=> OneHome(r)
  BY Zenon DEF OneFate, Homes
<1> DEFINE u == r \in unset
           p == r \in DOMAIN reminders
           d == r \in ToSet(due)
           f == r \in ToSet(deferred)
           s == fate[r].sent
           l == fate[r].lost
           c == fate[r].cancelled
           Count(b) == IF b THEN 1 ELSE 0
<1>1. u \in BOOLEAN /\ p \in BOOLEAN /\ d \in BOOLEAN /\ f \in BOOLEAN
  OBVIOUS
<1>2. l \in BOOLEAN /\ c \in BOOLEAN /\ s \in 0 .. 1
  BY DEF TypeOK
<1>3. OneHome(r) <=> JustOne(u, p, d, f, s, l, c)
  BY DEF OneHome
<1> HIDE DEF u, p, d, f, s, l, c
<1>4. (Count(u) + Count(p) + Count(d) + Count(f) + s + Count(l) + Count(c) = 1)
      <=> JustOne(u, p, d, f, s, l, c)
  BY <1>1, <1>2 DEF JustOne
<1> QED BY <1>3, <1>4 DEF u, p, d, f, s, l, c

LEMMA InitHolds == Init => ScheduleInductive
<1> SUFFICES ASSUME Init PROVE ScheduleInductive
  OBVIOUS
<1> USE EntryAssumption
<1>1. TypeOK
  <2>1. quiet \in 0 .. Threshold /\ typed \in 0 .. MaxTyped /\ alive \in BOOLEAN
    BY DEF Init
  <2>2. DOMAIN reminders = {} /\ DOMAIN handle = {} /\ jobs = {}
    BY DEF Init
  <2>7. /\ DOMAIN reminders \subseteq Reminder /\ DOMAIN handle \subseteq CronJob
        /\ \A r \in DOMAIN reminders : reminders[r] \in 0 .. Delay[r]
        /\ jobs \subseteq [id : Nat, job : CronJob, left : Nat]
        /\ \A j \in jobs : j.id \in 1 .. nextCron - 1 /\ j.left <= Interval[j.job]
    BY <2>2
  <2>3. {due, deferred} \subseteq Seq(Entry) /\ {requests, taken, remaining} \subseteq Seq(RequestRecord)
    BY DEF Init
  <2>4. fate \in [Reminder -> [sent : 0 .. 1, lost : BOOLEAN, cancelled : BOOLEAN]]
    BY DEF Init
  <2>5. cleared \in [Refresh -> (0 .. FollowupDelay) \cup {None}]
    BY DEF Init
  <2>6. /\ pc \in {"input", "tick", "handle", "deferred", "refresh", "advance"}
        /\ turned \in BOOLEAN /\ reloads = 0
    BY DEF Init
  <2>8. nextCron = 1 /\ unset = Reminder \cup CronJob \cup Refresh /\ restored = {}
    BY DEF Init
  <2> QED BY <2>1, <2>3, <2>4, <2>5, <2>6, <2>7, <2>8 DEF TypeOK, Entry
<1>2. Phases
  BY FS_EmptySet DEF Init, Phases
<1>3. OneFate
  BY DEF Init, OneFate, Once, ToSet
<1>4. Refreshes
  BY DEF Init, Refreshes, AllOnTime, OncePerReq, Reqs, ToSet, RestoreAfterClear
<1> QED BY <1>1, <1>2, <1>3, <1>4 DEF ScheduleInductive

-----------------------------------------------------------------------------
(* Types *)

LEMMA ReminderSetType ==
    ASSUME TypeOK, Phases, NEW r \in Reminder, ReminderSet(r)
    PROVE  TypeOK' /\ IsFiniteSet(DOMAIN reminders')
<1> USE EntryAssumption
<1>1. /\ DOMAIN reminders' = DOMAIN reminders \cup {r}
      /\ \A x \in DOMAIN reminders' : reminders'[x] = IF x = r THEN Delay[r] ELSE reminders[x]
  BY DEF ReminderSet, add_reminder
<1>2. Delay[r] \in 0 .. Delay[r]
  OBVIOUS
<1>3. TypeOK'
  BY <1>1, <1>2 DEF TypeOK, ReminderSet, targetVars, loopVars, refreshVars
<1>4. IsFiniteSet(DOMAIN reminders')
  BY <1>1, FS_AddElement DEF Phases
<1> QED BY <1>3, <1>4

LEMMA ReminderCancelType ==
    ASSUME TypeOK, Phases, NEW r \in Reminder, ReminderCancel(r)
    PROVE  TypeOK' /\ IsFiniteSet(DOMAIN reminders')
<1>1. /\ DOMAIN reminders' = DOMAIN reminders \ {r}
      /\ \A x \in DOMAIN reminders' : reminders'[x] = reminders[x]
  BY DEF ReminderCancel, remove_reminder
<1>2. fate' \in [Reminder -> [sent : 0 .. 1, lost : BOOLEAN, cancelled : BOOLEAN]]
  BY DEF TypeOK, ReminderCancel
<1>3. TypeOK'
  BY <1>1, <1>2 DEF TypeOK, ReminderCancel, targetVars, loopVars, refreshVars
<1>4. IsFiniteSet(DOMAIN reminders')
  BY <1>1, FS_RemoveElement, FS_Subset DEF Phases
<1> QED BY <1>3, <1>4

LEMMA CronCreateType ==
    ASSUME TypeOK, Phases, NEW c \in CronJob, CronCreate(c)
    PROVE  TypeOK' /\ IsFiniteSet(jobs')
<1> USE EntryAssumption
<1>1. /\ DOMAIN handle' = DOMAIN handle \cup {c}
      /\ jobs' = jobs \cup {[id |-> nextCron, job |-> c, left |-> Interval[c]]}
      /\ nextCron' = nextCron + 1
  BY DEF CronCreate, add_cron
<1>2. nextCron \in Nat \ {0}
  BY DEF TypeOK
<1>3. /\ jobs' \subseteq [id : Nat, job : CronJob, left : Nat]
      /\ \A j \in jobs' : j.id \in 1 .. nextCron' - 1 /\ j.left <= Interval[j.job]
  BY <1>1, <1>2 DEF TypeOK
<1>4. TypeOK'
  BY <1>1, <1>2, <1>3 DEF TypeOK, CronCreate, targetVars, loopVars, refreshVars
<1>5. IsFiniteSet(jobs')
  BY <1>1, FS_AddElement DEF Phases
<1> QED BY <1>4, <1>5

LEMMA CronDeleteType ==
    ASSUME TypeOK, Phases, NEW c \in CronJob, CronDelete(c)
    PROVE  TypeOK' /\ IsFiniteSet(jobs')
<1>1. jobs' \in SUBSET jobs
  BY DEF CronDelete, remove_cron
<1>2. DOMAIN handle' \in SUBSET DOMAIN handle
  BY DEF CronDelete
<1>3. TypeOK'
  BY <1>1, <1>2 DEF TypeOK, CronDelete, targetVars, loopVars, refreshVars
<1>4. IsFiniteSet(jobs')
  BY <1>1, FS_Subset DEF Phases
<1> QED BY <1>3, <1>4

LEMMA HandoffType ==
    ASSUME TypeOK, NEW q \in Refresh, ClearAndReadHandoff(q)
    PROVE  TypeOK'
<1> USE EntryAssumption
<1> DEFINE e == [req |-> q, sent |-> FALSE, left |-> ClearDelay]
<1>1. e \in RequestRecord
  BY DEF RequestRecord
<1>2. requests' \in Seq(RequestRecord)
  BY <1>1, AppendList DEF ClearAndReadHandoff, TypeOK
<1> QED BY <1>2 DEF TypeOK, ClearAndReadHandoff, targetVars, schedVars, loopVars

LEMMA PassTimeType ==
    ASSUME TypeOK, Phases, PassTime
    PROVE  TypeOK' /\ IsFiniteSet(DOMAIN reminders') /\ IsFiniteSet(jobs')
<1> USE EntryAssumption
<1>1. quiet' \in 0 .. Threshold
  BY DEF TypeOK, PassTime, LowerOf
<1>2. DOMAIN reminders' = DOMAIN reminders /\ \A r \in DOMAIN reminders : reminders'[r] \in 0 .. Delay[r]
  BY DEF TypeOK, PassTime, Less
<1>3. ASSUME NEW k \in jobs'
      PROVE  /\ k \in [id : Nat, job : CronJob, left : Nat]
             /\ k.id \in 1 .. nextCron - 1 /\ k.left <= Interval[k.job]
  <2>1. PICK j \in jobs : k = [j EXCEPT !.left = Less(@)]
    BY DEF PassTime
  <2>2. j \in [id : Nat, job : CronJob, left : Nat] /\ j.id \in 1 .. nextCron - 1
        /\ j.left <= Interval[j.job] /\ Interval[j.job] \in Nat
    BY DEF TypeOK
  <2>3. Less(j.left) \in Nat /\ Less(j.left) <= j.left
    BY <2>2 DEF Less
  <2>4. k = [j EXCEPT !.left = Less(j.left)]
    BY <2>1
  <2> QED BY <2>2, <2>3, <2>4
<1>4. requests' \in Seq(RequestRecord)
  <2>1. requests \in Seq(RequestRecord) /\ requests' = [i \in 1 .. Len(requests) |-> Sooner(requests[i])]
        /\ Len(requests) \in Nat
    BY DEF TypeOK, PassTime
  <2>2. ASSUME NEW q \in RequestRecord PROVE Sooner(q) \in RequestRecord
    BY DEF RequestRecord, Sooner, Less
  <2> QED BY <2>1, <2>2
<1>5. cleared' \in [Refresh -> (0 .. FollowupDelay) \cup {None}]
  BY DEF TypeOK, PassTime, LowerOf
<1>6. TypeOK'
  BY <1>1, <1>2, <1>3, <1>4, <1>5 DEF TypeOK, PassTime
<1>7. IsFiniteSet(jobs')
  <2> DEFINE Later(j) == [j EXCEPT !.left = Less(@)]
             f == [j \in jobs |-> Later(j)]
  <2>1. f \in Surjection(jobs, jobs')
    <3>1. jobs' = {Later(j) : j \in jobs}
      BY DEF PassTime
    <3> HIDE DEF Later
    <3> QED BY <3>1 DEF Surjection
  <2> QED BY <2>1, FS_Surjection DEF Phases
<1> QED BY <1>2, <1>6, <1>7 DEF Phases

LEMMA TickType ==
    ASSUME TypeOK, Phases, Tick
    PROVE  TypeOK' /\ IsFiniteSet(DOMAIN reminders') /\ IsFiniteSet(jobs')
<1> USE EntryAssumption
<1> DEFINE names == {j.job : j \in DueJobs}
<1>1. IsFiniteSet(DueReminders) /\ DueReminders \subseteq Reminder
  BY FS_Subset DEF Phases, DueReminders, TypeOK
<1>2. IsFiniteSet(DueJobs) /\ DueJobs \subseteq jobs
  BY FS_Subset DEF Phases, DueJobs
<1>3. IsFiniteSet(names) /\ names \subseteq CronJob
  <2> DEFINE f == [j \in DueJobs |-> j.job]
  <2>1. f \in Surjection(DueJobs, names)
    BY DEF Surjection
  <2> QED BY <1>2, <2>1, FS_Surjection DEF TypeOK
<1>4. due' \in Seq(Reminder \cup CronJob)
  <2> HIDE DEF names
  <2>1. PICK a \in SetToSeqs(DueReminders), b \in SetToSeqs(names) : due' = a \o b
    BY DEF Tick, names
  <2>2. Cardinality(DueReminders) \in Nat /\ Cardinality(names) \in Nat
    BY <1>1, <1>3, FS_CardinalityType
  <2>3. a \in [1 .. Cardinality(DueReminders) -> DueReminders] /\ b \in [1 .. Cardinality(names) -> names]
    BY DEF SetToSeqs
  <2>4. a \in Seq(Reminder \cup CronJob)
    <3>1. a \in [1 .. Cardinality(DueReminders) -> Reminder \cup CronJob]
      BY <1>1, <2>3
    <3> QED BY <2>2, <3>1
  <2>5. b \in Seq(Reminder \cup CronJob)
    <3>1. b \in [1 .. Cardinality(names) -> Reminder \cup CronJob]
      BY <1>3, <2>3
    <3> QED BY <2>2, <3>1
  <2> QED BY <2>1, <2>4, <2>5, ConcatList
<1>5. DOMAIN reminders' \subseteq DOMAIN reminders /\ \A r \in DOMAIN reminders' : reminders'[r] = reminders[r]
  BY DEF Tick
<1>6. ASSUME NEW k \in jobs'
      PROVE  /\ k \in [id : Nat, job : CronJob, left : Nat]
             /\ k.id \in 1 .. nextCron - 1 /\ k.left <= Interval[k.job]
  <2>1. CASE k \in jobs
    BY <2>1 DEF TypeOK
  <2>2. CASE k \in Rearmed
    <3>1. PICK j \in DueJobs : k = [j EXCEPT !.left = Interval[j.job]]
      BY <2>2 DEF Rearmed
    <3>2. j \in [id : Nat, job : CronJob, left : Nat] /\ j.id \in 1 .. nextCron - 1
          /\ Interval[j.job] \in Nat
      BY <1>2 DEF TypeOK
    <3> QED BY <3>1, <3>2
  <2> QED BY <2>1, <2>2 DEF Tick
<1>7. TypeOK'
  BY <1>4, <1>5, <1>6 DEF TypeOK, Tick, targetVars, refreshVars
<1>8. IsFiniteSet(jobs')
  <2> DEFINE Again(j) == [j EXCEPT !.left = Interval[j.job]]
             f == [j \in DueJobs |-> Again(j)]
  <2>1. f \in Surjection(DueJobs, Rearmed)
    <3>1. Rearmed = {Again(j) : j \in DueJobs}
      BY DEF Rearmed
    <3> HIDE DEF Again
    <3> QED BY <3>1 DEF Surjection
  <2>2. IsFiniteSet(Rearmed)
    BY <1>2, <2>1, FS_Surjection
  <2>3. IsFiniteSet(jobs \ DueJobs)
    BY FS_Subset DEF Phases
  <2> QED BY <2>2, <2>3, FS_Union DEF Tick
<1>9. IsFiniteSet(DOMAIN reminders')
  BY <1>5, FS_Subset DEF Phases
<1> QED BY <1>7, <1>8, <1>9

FateRecord == [sent : 0 .. 1, lost : BOOLEAN, cancelled : BOOLEAN]

LEMMA DeliversType ==
    ASSUME TypeOK, NEW e \in Entry, Delivers(e), e \in Reminder => fate[e].sent # 1
    PROVE  /\ quiet' \in 0 .. Threshold
           /\ fate' \in [Reminder -> [sent : 0 .. 1, lost : BOOLEAN, cancelled : BOOLEAN]]
           /\ \A r \in Reminder :
                 /\ fate'[r].lost = fate[r].lost /\ fate'[r].cancelled = fate[r].cancelled
                 /\ fate'[r].sent = IF r = e THEN 1 ELSE fate[r].sent
<1> USE EntryAssumption
<1>1. quiet' \in 0 .. Threshold
  BY DEF Delivers
<1>2. CASE e \in Reminder
  <2> DEFINE f == [sent |-> 1, lost |-> fate[e].lost, cancelled |-> fate[e].cancelled]
             g == [fate[e] EXCEPT !.sent = @ + 1]
  <2>1. fate \in [Reminder -> FateRecord] /\ fate[e] \in FateRecord
    BY <1>2 DEF TypeOK, FateRecord
  <2>2. fate[e].sent + 1 = 1
    BY <1>2, <2>1 DEF FateRecord
  <2>3. g = f /\ f \in FateRecord
    BY <2>1, <2>2 DEF FateRecord
  <2>4. fate' = [fate EXCEPT ![e] = g]
    BY <1>2 DEF Delivers
  <2> HIDE DEF f, g
  <2>5. fate' = [fate EXCEPT ![e] = f] /\ f \in FateRecord
    BY <2>3, <2>4
  <2>6. f.sent = 1 /\ f.lost = fate[e].lost /\ f.cancelled = fate[e].cancelled
    BY DEF f
  <2> QED BY <1>1, <1>2, <2>1, <2>5, <2>6 DEF FateRecord
<1>3. CASE e \notin Reminder
  BY <1>1, <1>3 DEF Delivers, TypeOK
<1> QED BY <1>2, <1>3

LEMMA LostType ==
    ASSUME TypeOK, NEW es
    PROVE  Lost(es) \in [Reminder -> [sent : 0 .. 1, lost : BOOLEAN, cancelled : BOOLEAN]]
BY DEF TypeOK, Lost

LEMMA LostFate ==
    ASSUME TypeOK, NEW es, NEW r \in Reminder
    PROVE  LET f == Lost(es)[r]
           IN  /\ f.sent = fate[r].sent /\ f.cancelled = fate[r].cancelled
               /\ f.lost <=> r \in es \/ fate[r].lost
<1>1. fate[r] \in FateRecord
  BY DEF TypeOK, FateRecord
<1>2. Lost(es)[r] = IF r \in es THEN [fate[r] EXCEPT !.lost = TRUE] ELSE fate[r]
  BY DEF Lost
<1>3. CASE r \in es
  BY <1>1, <1>2, <1>3 DEF FateRecord
<1>4. CASE r \notin es
  BY <1>1, <1>2, <1>4 DEF FateRecord
<1> QED BY <1>3, <1>4

LEMMA HandleEventType ==
    ASSUME TypeOK, Homes, HandleEvent
    PROVE  TypeOK'
<1> DEFINE e == Head(due)
<1>1. due \in Seq(Entry) /\ due # <<>> /\ deferred \in Seq(Entry)
  BY DEF HandleEvent, TypeOK, Entry
<1>2. e \in Entry /\ e \in ToSet(due) /\ due' \in Seq(Entry)
  BY <1>1, TailList DEF HandleEvent
<1>3. e \in Reminder => fate[e].sent # 1
  BY <1>2 DEF Homes, OneHome, JustOne
<1>4. /\ quiet' \in 0 .. Threshold
      /\ fate' \in [Reminder -> [sent : 0 .. 1, lost : BOOLEAN, cancelled : BOOLEAN]]
      /\ deferred' \in Seq(Entry)
  <2>1. CASE alive /\ IdleNow /\ Delivers(e) /\ UNCHANGED deferred
    BY <1>1, <1>2, <1>3, <2>1, DeliversType
  <2>2. CASE deferred' = Append(deferred, e) /\ UNCHANGED <<quiet, fate>>
    BY <1>1, <1>2, <2>2, AppendList DEF TypeOK
  <2>3. CASE LetsGo({e}) /\ UNCHANGED deferred
    BY <1>1, <2>3, LostType DEF TypeOK, LetsGo
  <2> QED BY <2>1, <2>2, <2>3 DEF HandleEvent
<1> QED BY <1>2, <1>4 DEF TypeOK, Entry, HandleEvent, schedVars, refreshVars

LEMMA DrainDeferredType ==
    ASSUME TypeOK, Homes, DrainDeferred
    PROVE  TypeOK'
<1>1. deferred \in Seq(Entry)
  BY DEF TypeOK, Entry
<1>2. /\ quiet' \in 0 .. Threshold
      /\ fate' \in [Reminder -> [sent : 0 .. 1, lost : BOOLEAN, cancelled : BOOLEAN]]
      /\ deferred' \in Seq(Entry)
  <2>1. CASE deferred' = <<>> /\ LetsGo(ToSet(deferred))
    BY <2>1, LostType DEF TypeOK, LetsGo
  <2>2. CASE deferred # <<>> /\ deferred' = Tail(deferred) /\ Delivers(Head(deferred))
    <3>1. Head(deferred) \in Entry /\ Head(deferred) \in ToSet(deferred) /\ deferred' \in Seq(Entry)
      BY <1>1, <2>2, TailList
    <3>2. Head(deferred) \in Reminder => fate[Head(deferred)].sent # 1
      BY <3>1 DEF Homes, OneHome, JustOne
    <3> QED BY <2>2, <3>1, <3>2, DeliversType
  <2>3. CASE UNCHANGED <<quiet, deferred, fate>>
    BY <1>1, <2>3 DEF TypeOK
  <2> QED BY <2>1, <2>2, <2>3 DEF DrainDeferred
<1> QED BY <1>2 DEF TypeOK, Entry, DrainDeferred, schedVars, refreshVars

LEMMA AdvanceType ==
    ASSUME NEW q \in RequestRecord
    PROVE  /\ Advance(q) \in RequestRecord /\ Advance(q).req = q.req
           /\ ClearsNow(q) => Advance(q).sent = TRUE /\ Advance(q).left = FollowupDelay
           /\ ~ClearsNow(q) => Advance(q) = q
<1>1. ASSUME NEW x \in RequestRecord
      PROVE  LET y == [x EXCEPT !.left = FollowupDelay]
             IN  y \in RequestRecord /\ y.req = x.req /\ y.sent = x.sent /\ y.left = FollowupDelay
  BY EntryAssumption DEF RequestRecord
<1> DEFINE b == [q EXCEPT !.sent = TRUE]
<1>2. b \in RequestRecord /\ b.req = q.req /\ b.sent = TRUE
  BY DEF RequestRecord
<1>4. CASE ClearsNow(q)
  <2>1. Advance(q) = [b EXCEPT !.left = FollowupDelay]
    BY <1>4 DEF Advance
  <2> HIDE DEF b
  <2> QED BY <1>1, <1>2, <1>4, <2>1
<1>5. CASE ~ClearsNow(q)
  BY <1>5 DEF Advance
<1> QED BY <1>4, <1>5

LEMMA AdvanceRequestType ==
    ASSUME TypeOK, AdvanceRequest
    PROVE  TypeOK'
<1> USE EntryAssumption
<1> DEFINE q == Head(taken)
<1>1. q \in RequestRecord /\ taken' \in Seq(RequestRecord)
  BY TailList DEF TypeOK, AdvanceRequest
<1>2. remaining' \in Seq(RequestRecord)
  BY <1>1, AdvanceType, AppendList DEF TypeOK, AdvanceRequest
<1>3. quiet' \in 0 .. Threshold
  BY DEF TypeOK, AdvanceRequest
<1>4. q.req \in Refresh
  BY <1>1 DEF RequestRecord
<1>5. cleared' \in [Refresh -> (0 .. FollowupDelay) \cup {None}] /\ restored' \subseteq Refresh
  BY <1>4 DEF TypeOK, AdvanceRequest
<1> QED BY <1>1, <1>2, <1>3, <1>5 DEF TypeOK, AdvanceRequest, schedVars, loopVars

LEMMA ReloadType ==
    ASSUME TypeOK, Phases, Reload
    PROVE  TypeOK' /\ IsFiniteSet(jobs')
<1> USE EntryAssumption
<1> DEFINE names == {j.job : j \in jobs}
<1>1. IsFiniteSet(names) /\ names \subseteq CronJob /\ Cardinality(names) <= Cardinality(jobs)
      /\ Cardinality(names) \in Nat /\ Cardinality(jobs) \in Nat
  <2> DEFINE f == [j \in jobs |-> j.job]
  <2>1. f \in Surjection(jobs, names)
    BY DEF Surjection
  <2>2. IsFiniteSet(jobs) /\ names \subseteq CronJob
    BY DEF Phases, TypeOK
  <2> HIDE DEF names, f
  <2>3. IsFiniteSet(names) /\ Cardinality(names) <= Cardinality(jobs)
    BY <2>1, <2>2, FS_Surjection
  <2> QED BY <2>2, <2>3, FS_CardinalityType
<1> HIDE DEF names
<1>2. PICK order \in SetToSeqs(names) :
         jobs' = {[id |-> i, job |-> order[i], left |-> Interval[order[i]]] : i \in DOMAIN order}
  BY DEF Reload, names
<1>3. order \in [1 .. Cardinality(names) -> names]
  BY DEF SetToSeqs
<1>4. ASSUME NEW k \in jobs'
      PROVE  /\ k \in [id : Nat, job : CronJob, left : Nat]
             /\ k.id \in 1 .. nextCron' - 1 /\ k.left <= Interval[k.job]
  <2>1. PICK i \in 1 .. Cardinality(names) :
           k = [id |-> i, job |-> order[i], left |-> Interval[order[i]]]
    BY <1>2, <1>3
  <2>2. order[i] \in CronJob /\ Interval[order[i]] \in Nat
    BY <1>1, <1>3
  <2>3. nextCron' - 1 = Cardinality(jobs)
    BY <1>1 DEF Reload
  <2> QED BY <1>1, <2>1, <2>2, <2>3
<1>5. nextCron' \in Nat \ {0}
  BY <1>1 DEF Reload
<1>6. IsFiniteSet(jobs')
  <2> DEFINE Job(i) == [id |-> i, job |-> order[i], left |-> Interval[order[i]]]
             f == [i \in 1 .. Cardinality(names) |-> Job(i)]
  <2>1. f \in Surjection(1 .. Cardinality(names), jobs')
    <3>1. jobs' = {Job(i) : i \in 1 .. Cardinality(names)}
      BY <1>2, <1>3
    <3> HIDE DEF Job
    <3> QED BY <3>1 DEF Surjection
  <2>2. IsFiniteSet(1 .. Cardinality(names))
    <3>1. 1 \in Int /\ Cardinality(names) \in Int
      BY <1>1
    <3> QED BY <3>1, FS_Interval
  <2> QED BY <2>1, <2>2, FS_Surjection
<1>7. fate' \in [Reminder -> [sent : 0 .. 1, lost : BOOLEAN, cancelled : BOOLEAN]]
  BY LostType DEF Reload
<1>8. DOMAIN reminders' = {} /\ deferred' = <<>> /\ requests' = <<>> /\ quiet' = 0
  BY DEF Reload
<1>9. TypeOK'
  <2>1. deferred' \in Seq(Reminder \cup CronJob) /\ requests' \in Seq(RequestRecord)
        /\ quiet' \in 0 .. Threshold
        /\ \A r \in DOMAIN reminders' : reminders'[r] \in 0 .. Delay[r]
    BY <1>8
  <2>2. /\ jobs' \subseteq [id : Nat, job : CronJob, left : Nat]
        /\ \A j \in jobs' : j.id \in 1 .. nextCron' - 1 /\ j.left <= Interval[j.job]
    BY <1>4
  <2>3. /\ typed' \in 0 .. MaxTyped /\ alive' \in BOOLEAN /\ turned' \in BOOLEAN
        /\ pc' \in {"input", "tick", "handle", "deferred", "refresh", "advance"}
        /\ due' \in Seq(Reminder \cup CronJob)
        /\ {taken, remaining}' \subseteq Seq(RequestRecord)
        /\ unset' \subseteq Reminder \cup CronJob \cup Refresh /\ DOMAIN handle' \subseteq CronJob
        /\ cleared' \in [Refresh -> (0 .. FollowupDelay) \cup {None}] /\ restored' \subseteq Refresh
    BY DEF TypeOK, Reload, loopVars
  <2>4. reloads' \in 0 .. MaxReloads
    BY DEF TypeOK, Reload
  <2> QED BY <1>5, <1>7, <1>8, <2>1, <2>2, <2>3, <2>4 DEF TypeOK
<1> QED BY <1>6, <1>9

LEMMA TypeStep ==
    ASSUME TypeOK, Phases, Homes, [Next]_vars
    PROVE  TypeOK'
<1> USE EntryAssumption
<1>1. CASE PassTime
  BY <1>1, PassTimeType
<1>2. CASE UserTypes
  BY <1>2 DEF TypeOK, UserTypes, schedVars, loopVars, refreshVars
<1>3. CASE TargetKilled
  BY <1>3 DEF TypeOK, TargetKilled, schedVars, loopVars, refreshVars
<1>4. CASE EndOfInput
  BY <1>4 DEF TypeOK, EndOfInput, targetVars, schedVars, refreshVars
<1>5. CASE Tick
  BY <1>5, TickType
<1>6. CASE HandleEvent
  BY <1>6, HandleEventType
<1>7. CASE AllHandled
  BY <1>7 DEF TypeOK, AllHandled, targetVars, schedVars, refreshVars
<1>8. CASE DrainDeferred
  BY <1>8, DrainDeferredType
<1>9. CASE TakeRequests
  BY <1>9 DEF TypeOK, TakeRequests, targetVars, schedVars
<1>10. CASE NoRequests
  BY <1>10 DEF TypeOK, NoRequests, targetVars, schedVars, refreshVars
<1>11. CASE AdvanceRequest
  BY <1>11, AdvanceRequestType
<1>12. CASE EndOfRefresh
  <2>1. requests' \in Seq(RequestRecord) /\ remaining' \in Seq(RequestRecord)
    BY <1>12, ConcatList DEF EndOfRefresh, PutBack, TypeOK
  <2> QED BY <1>12, <2>1 DEF TypeOK, EndOfRefresh, targetVars, schedVars
<1>13. CASE Reload
  BY <1>13, ReloadType
<1>14. CASE \E r \in Reminder : ReminderSet(r) \/ ReminderCancel(r)
  BY <1>14, ReminderSetType, ReminderCancelType
<1>15. CASE \E c \in CronJob : CronCreate(c) \/ CronDelete(c)
  BY <1>15, CronCreateType, CronDeleteType
<1>16. CASE \E q \in Refresh : ClearAndReadHandoff(q)
  BY <1>16, HandoffType
<1>17. CASE UNCHANGED vars
  BY <1>17 DEF TypeOK, vars, targetVars, schedVars, loopVars, refreshVars
<1> QED BY <1>1, <1>2, <1>3, <1>4, <1>5, <1>6, <1>7, <1>8, <1>9, <1>10, <1>11, <1>12, <1>13,
           <1>14, <1>15, <1>16, <1>17 DEF Next, Loop

(* The tables of the scheduler stay finite, and the event loop's hands are *)
(* empty outside their phase.                                              *)
LEMMA PhasesStep ==
    ASSUME TypeOK, Phases, [Next]_vars
    PROVE  Phases'
<1> DEFINE Hands == /\ due # <<>> => pc = "handle"
                    /\ taken # <<>> \/ remaining # <<>> => pc = "advance"
           Finite == IsFiniteSet(DOMAIN reminders) /\ IsFiniteSet(jobs)
<1>1. Hands'
  <2>1. CASE Tick \/ HandleEvent \/ AllHandled
    BY <2>1 DEF Tick, HandleEvent, AllHandled, Phases, refreshVars
  <2>2. CASE TakeRequests \/ NoRequests \/ AdvanceRequest \/ EndOfRefresh
    BY <2>2 DEF TakeRequests, NoRequests, AdvanceRequest, EndOfRefresh, Phases, loopVars, refreshVars
  <2>3. CASE EndOfInput \/ DrainDeferred
    BY <2>3 DEF EndOfInput, DrainDeferred, Phases, refreshVars
  <2>4. CASE UNCHANGED <<pc, due, taken, remaining>>
    BY <2>4 DEF Phases
  <2>5. CASE UNCHANGED vars
    BY <2>4, <2>5 DEF vars, loopVars, refreshVars
  <2>6. CASE PassTime \/ UserTypes \/ TargetKilled \/ Reload
    BY <2>4, <2>6 DEF PassTime, UserTypes, TargetKilled, Reload, loopVars, refreshVars
  <2>7. CASE \E r \in Reminder : ReminderSet(r) \/ ReminderCancel(r)
    BY <2>4, <2>7 DEF ReminderSet, ReminderCancel, loopVars, refreshVars
  <2>8. CASE \E c \in CronJob : CronCreate(c) \/ CronDelete(c)
    BY <2>4, <2>8 DEF CronCreate, CronDelete, loopVars, refreshVars
  <2>9. CASE \E q \in Refresh : ClearAndReadHandoff(q)
    BY <2>4, <2>9 DEF ClearAndReadHandoff, loopVars
  <2> QED BY <2>1, <2>2, <2>3, <2>5, <2>6, <2>7, <2>8, <2>9 DEF Next, Loop
<1>2. Finite'
  <2>1. CASE UNCHANGED <<reminders, jobs>>
    BY <2>1 DEF Phases
  <2>2. CASE Tick
    BY <2>2, TickType
  <2>3. CASE PassTime
    BY <2>3, PassTimeType
  <2>4. CASE Reload
    <3>1. DOMAIN reminders' = {}
      BY <2>4 DEF Reload
    <3> QED BY <2>4, <3>1, ReloadType, FS_EmptySet
  <2>5. CASE Loop /\ ~Tick
    BY <2>1, <2>5 DEF Loop, EndOfInput, HandleEvent, AllHandled, DrainDeferred, TakeRequests,
                      NoRequests, AdvanceRequest, EndOfRefresh, schedVars
  <2>6. CASE UserTypes \/ TargetKilled \/ UNCHANGED vars
    BY <2>1, <2>6 DEF UserTypes, TargetKilled, vars, schedVars
  <2>7. CASE \E r \in Reminder : ReminderSet(r) \/ ReminderCancel(r)
    BY <2>7, ReminderSetType, ReminderCancelType DEF Phases, ReminderSet, ReminderCancel
  <2>8. CASE \E c \in CronJob : CronCreate(c) \/ CronDelete(c)
    BY <2>8, CronCreateType, CronDeleteType DEF Phases, CronCreate, CronDelete
  <2>9. CASE \E q \in Refresh : ClearAndReadHandoff(q)
    BY <2>1, <2>9 DEF ClearAndReadHandoff, schedVars
  <2> QED BY <2>2, <2>3, <2>4, <2>5, <2>6, <2>7, <2>8, <2>9 DEF Next
<1> QED BY <1>1, <1>2 DEF Phases

-----------------------------------------------------------------------------
(* Every reminder has one fate *)

LEMMA TickHomes ==
    ASSUME TypeOK, Phases, Homes, Tick
    PROVE  Homes'
<1> USE EntryAssumption
<1> DEFINE names == {j.job : j \in DueJobs}
<1>1. PICK a \in SetToSeqs(DueReminders), b \in SetToSeqs(names) : due' = a \o b
  BY DEF Tick
<1>2. names \subseteq CronJob /\ DueReminders \subseteq Reminder
  BY DEF TypeOK, DueJobs, DueReminders
<1>3. IsFiniteSet(DueReminders) /\ IsFiniteSet(names)
  <2>1. IsFiniteSet(DueReminders) /\ IsFiniteSet(DueJobs)
    BY FS_Subset DEF Phases, DueReminders, DueJobs
  <2> DEFINE f == [j \in DueJobs |-> j.job]
  <2>2. f \in Surjection(DueJobs, names)
    BY DEF Surjection
  <2> QED BY <2>1, <2>2, FS_Surjection
<1> HIDE DEF names
<1>4. /\ a \in Seq(DueReminders)
      /\ \A i, j \in DOMAIN a : a[i] = a[j] => i = j
      /\ \A x \in DueReminders : \E i \in DOMAIN a : a[i] = x
  BY <1>3, ListOfAll
<1>5. b \in Seq(names)
  BY <1>3, ListOfAll
<1>6. /\ \A i \in DOMAIN a : i \in DOMAIN due' /\ due'[i] = a[i]
      /\ \A i \in DOMAIN due' : \/ i \in DOMAIN a
                                \/ i - Len(a) \in DOMAIN b /\ due'[i] = b[i - Len(a)]
  <2>1. a \in Seq(Entry) /\ b \in Seq(Entry)
    BY <1>2, <1>4, <1>5 DEF Entry
  <2>2. /\ Len(a) \in Nat /\ Len(b) \in Nat
        /\ DOMAIN a = 1 .. Len(a) /\ DOMAIN b = 1 .. Len(b)
        /\ DOMAIN due' = 1 .. Len(a) + Len(b)
        /\ \A i \in DOMAIN a : due'[i] = a[i]
        /\ \A i \in DOMAIN due' : i \notin DOMAIN a =>
              i - Len(a) \in DOMAIN b /\ due'[i] = b[i - Len(a)]
    BY <1>1, <2>1, ConcatList
  <2> QED BY <2>2
<1>7. \A i \in DOMAIN due' : due'[i] \in Reminder => i \in DOMAIN a /\ due'[i] = a[i] /\ a[i] \in DueReminders
  <2>1. \A i \in DOMAIN b : b[i] \in CronJob
    BY <1>2, <1>5
  <2>2. \A i \in DOMAIN a : a[i] \in DueReminders
    BY <1>4
  <2> QED BY <1>6, <2>1, <2>2
<1>8. Once(due')
  BY <1>4, <1>7 DEF Once
<1>9. \A r \in Reminder : r \in ToSet(due') <=> r \in DueReminders
  BY <1>4, <1>6, <1>7 DEF ToSet
<1>10. ToSet(due) = {}
  BY DEF Phases, Tick, ToSet
<1>11. DOMAIN reminders' = DOMAIN reminders \ DueReminders /\ DueReminders \subseteq DOMAIN reminders
  BY DEF Tick, DueReminders
<1>12. UNCHANGED <<unset, deferred, fate, alive, reloads>>
  BY DEF Tick, targetVars
<1>13. ASSUME NEW r \in Reminder
       PROVE  OneHome(r)' /\ (fate'[r].lost => ~alive' \/ reloads' > 0)
  <2>1. OneHome(r) /\ (fate[r].lost => ~alive \/ reloads > 0)
    BY DEF Homes
  <2> QED BY <1>9, <1>10, <1>11, <1>12, <2>1 DEF OneHome, JustOne
<1> QED BY <1>8, <1>12, <1>13 DEF Homes

LEMMA HandleEventHomes ==
    ASSUME TypeOK, Homes, HandleEvent
    PROVE  Homes'
<1> USE EntryAssumption
<1> DEFINE e == Head(due)
<1>1. due \in Seq(Entry) /\ due # <<>> /\ deferred \in Seq(Entry)
  BY DEF HandleEvent, TypeOK, Entry
<1>2. e \in Entry /\ ToSet(due) = {e} \cup ToSet(due')
  BY <1>1, TailList DEF HandleEvent
<1>3. Once(due') /\ (e \in Reminder => e \notin ToSet(due'))
  BY <1>1, OnceTail DEF HandleEvent, Homes
<1>4. e \in Reminder => /\ e \notin unset /\ e \notin DOMAIN reminders /\ e \notin ToSet(deferred)
                        /\ fate[e].sent # 1 /\ ~fate[e].lost /\ ~fate[e].cancelled
  BY <1>2 DEF Homes, OneHome, JustOne
<1>5. UNCHANGED <<unset, reminders, alive, reloads>>
  BY DEF HandleEvent, schedVars
<1> SUFFICES ASSUME NEW r \in Reminder
             PROVE  /\ Once(deferred')
                    /\ OneHome(r)' /\ (fate'[r].lost => ~alive \/ reloads > 0)
  BY <1>3, <1>5 DEF Homes, Once
<1>6. /\ Once(deferred)
      /\ OneHome(r) /\ (fate[r].lost => ~alive \/ reloads > 0)
  BY DEF Homes
<1> HIDE DEF e
<1>7. CASE Delivers(e) /\ UNCHANGED deferred
  <2>1. /\ fate'[r].lost = fate[r].lost /\ fate'[r].cancelled = fate[r].cancelled
        /\ fate'[r].sent = IF r = e THEN 1 ELSE fate[r].sent
    BY <1>2, <1>4, <1>7, DeliversType
  <2> QED BY <1>2, <1>3, <1>4, <1>5, <1>6, <1>7, <2>1 DEF OneHome, JustOne
<1>8. CASE deferred' = Append(deferred, e) /\ UNCHANGED <<quiet, fate>>
  <2>1. ToSet(deferred') = ToSet(deferred) \cup {e}
    BY <1>1, <1>2, <1>8, AppendList
  <2>2. Once(deferred')
    BY <1>1, <1>2, <1>4, <1>6, <1>8, OnceAppend
  <2> QED BY <1>2, <1>3, <1>4, <1>5, <1>6, <1>8, <2>1, <2>2 DEF OneHome, JustOne
<1>9. CASE (alive => ~IdleNow /\ ~Defers(e)) /\ LetsGo({e}) /\ UNCHANGED deferred
  <2>1. /\ fate'[r].sent = fate[r].sent /\ fate'[r].cancelled = fate[r].cancelled
        /\ fate'[r].lost <=> r = e \/ fate[r].lost
    BY <1>9, LostFate DEF LetsGo
  <2>2. r = e => ~alive
    BY <1>9 DEF Defers
  <2> QED BY <1>2, <1>3, <1>4, <1>5, <1>6, <1>9, <2>1, <2>2 DEF OneHome, JustOne
<1> QED BY <1>7, <1>8, <1>9 DEF HandleEvent, e

LEMMA DrainDeferredHomes ==
    ASSUME TypeOK, Homes, DrainDeferred
    PROVE  Homes'
<1> USE EntryAssumption
<1>1. deferred \in Seq(Entry)
  BY DEF TypeOK, Entry
<1>2. UNCHANGED <<unset, reminders, alive, reloads, due>>
  BY DEF DrainDeferred, schedVars
<1> SUFFICES ASSUME NEW r \in Reminder
             PROVE  /\ Once(deferred')
                    /\ OneHome(r)' /\ (fate'[r].lost => ~alive \/ reloads > 0)
  BY <1>2 DEF Homes, Once
<1>3. /\ Once(deferred)
      /\ OneHome(r) /\ (fate[r].lost => ~alive \/ reloads > 0)
  BY DEF Homes
<1>4. CASE ~alive /\ deferred' = <<>> /\ LetsGo(ToSet(deferred))
  <2>1. /\ fate'[r].sent = fate[r].sent /\ fate'[r].cancelled = fate[r].cancelled
        /\ fate'[r].lost <=> r \in ToSet(deferred) \/ fate[r].lost
    BY <1>4, LostFate DEF LetsGo
  <2>2. Once(deferred') /\ ToSet(deferred') = {}
    BY <1>4 DEF Once, ToSet
  <2> QED BY <1>2, <1>3, <1>4, <2>1, <2>2 DEF OneHome, JustOne
<1>5. CASE deferred # <<>> /\ deferred' = Tail(deferred) /\ Delivers(Head(deferred))
  <2> DEFINE e == Head(deferred)
  <2>1. e \in Entry /\ ToSet(deferred) = {e} \cup ToSet(deferred')
    BY <1>1, <1>5, TailList
  <2>2. Once(deferred') /\ (e \in Reminder => e \notin ToSet(deferred'))
    BY <1>1, <1>3, <1>5, OnceTail
  <2>3. e \in Reminder => /\ e \notin unset /\ e \notin DOMAIN reminders /\ e \notin ToSet(due)
                          /\ fate[e].sent # 1 /\ ~fate[e].lost /\ ~fate[e].cancelled
    BY <2>1 DEF Homes, OneHome, JustOne
  <2>4. /\ fate'[r].lost = fate[r].lost /\ fate'[r].cancelled = fate[r].cancelled
        /\ fate'[r].sent = IF r = e THEN 1 ELSE fate[r].sent
    BY <1>5, <2>1, <2>3, DeliversType
  <2> HIDE DEF e
  <2> QED BY <1>2, <1>3, <2>1, <2>2, <2>3, <2>4 DEF OneHome, JustOne
<1>6. CASE UNCHANGED <<quiet, deferred, fate>>
  BY <1>2, <1>3, <1>6 DEF OneHome
<1> QED BY <1>4, <1>5, <1>6 DEF DrainDeferred

LEMMA HomesStep ==
    ASSUME TypeOK, Phases, Homes, [Next]_vars
    PROVE  Homes'
<1> USE EntryAssumption
<1>1. ASSUME UNCHANGED <<deferred, fate, due, reloads>>, alive' => alive,
             DOMAIN reminders' = DOMAIN reminders,
             \A r \in Reminder : r \in unset' <=> r \in unset
      PROVE  Homes'
  <2> SUFFICES ASSUME NEW r \in Reminder
               PROVE  OneHome(r)' /\ (fate'[r].lost => ~alive' \/ reloads' > 0)
    BY <1>1 DEF Homes
  <2>1. OneHome(r) /\ (fate[r].lost => ~alive \/ reloads > 0)
    BY DEF Homes
  <2> QED BY <1>1, <2>1 DEF OneHome, JustOne
<1>2. CASE PassTime
  BY <1>1, <1>2 DEF PassTime, loopVars
<1>3. CASE UserTypes \/ TargetKilled
  BY <1>1, <1>3 DEF UserTypes, TargetKilled, schedVars, loopVars, TypeOK
<1>4. CASE Tick
  BY <1>4, TickHomes
<1>5. CASE HandleEvent
  BY <1>5, HandleEventHomes
<1>6. CASE DrainDeferred
  BY <1>6, DrainDeferredHomes
<1>7. CASE EndOfInput \/ AllHandled \/ TakeRequests \/ NoRequests \/ AdvanceRequest \/ EndOfRefresh
  BY <1>1, <1>7 DEF EndOfInput, AllHandled, TakeRequests, NoRequests, AdvanceRequest, EndOfRefresh,
                    targetVars, schedVars, loopVars, refreshVars
<1>8. CASE UNCHANGED vars
  BY <1>1, <1>8 DEF vars, targetVars, schedVars, loopVars
<1>9. CASE Reload
  <2>1. UNCHANGED <<unset, alive, due>> /\ DOMAIN reminders' = {} /\ deferred' = <<>>
        /\ reloads' = reloads + 1
    BY <1>9 DEF Reload, loopVars
  <2>2. Once(deferred') /\ ToSet(deferred') = {} /\ Once(due')
    BY <2>1 DEF Once, ToSet, Homes
  <2>3. ToSet(due) = {}
    BY <1>9 DEF Phases, Reload, ToSet
  <2>4. reloads \in Nat
    BY DEF TypeOK
  <2>5. ASSUME NEW r \in Reminder
        PROVE  OneHome(r)' /\ reloads' > 0
    <3>1. /\ fate'[r].sent = fate[r].sent /\ fate'[r].cancelled = fate[r].cancelled
          /\ fate'[r].lost <=> r \in DOMAIN reminders \cup ToSet(deferred) \/ fate[r].lost
      BY <1>9, LostFate DEF Reload
    <3>2. OneHome(r)
      BY DEF Homes
    <3> QED BY <2>1, <2>2, <2>4, <3>1, <3>2 DEF OneHome, JustOne
  <2> QED BY <2>2, <2>5 DEF Homes
<1>10. CASE \E x \in Reminder : ReminderSet(x)
  <2>1. PICK x \in Reminder : ReminderSet(x)
    BY <1>10
  <2>2. /\ DOMAIN reminders' = DOMAIN reminders \cup {x}
        /\ x \in unset /\ unset' = unset \ {x}
        /\ UNCHANGED <<deferred, fate, due, reloads, alive>>
    BY <2>1 DEF ReminderSet, add_reminder, targetVars, loopVars
  <2>3. ASSUME NEW r \in Reminder
        PROVE  OneHome(r)' /\ (fate'[r].lost => ~alive \/ reloads > 0)
    <3>1. OneHome(r) /\ (fate[r].lost => ~alive \/ reloads > 0)
      BY DEF Homes
    <3> QED BY <2>2, <3>1 DEF OneHome, JustOne
  <2> QED BY <2>2, <2>3 DEF Homes
<1>11. CASE \E x \in Reminder : ReminderCancel(x)
  <2>1. PICK x \in Reminder : ReminderCancel(x)
    BY <1>11
  <2>2. /\ DOMAIN reminders' = DOMAIN reminders \ {x}
        /\ x \in DOMAIN reminders
        /\ UNCHANGED <<deferred, unset, due, reloads, alive>>
    BY <2>1 DEF ReminderCancel, remove_reminder, targetVars, loopVars
  <2>3. ASSUME NEW r \in Reminder
        PROVE  OneHome(r)' /\ (fate'[r].lost => ~alive \/ reloads > 0)
    <3>1. OneHome(r) /\ (fate[r].lost => ~alive \/ reloads > 0)
      BY DEF Homes
    <3>2. /\ fate'[r].sent = fate[r].sent /\ fate'[r].lost = fate[r].lost
          /\ fate'[r].cancelled <=> r = x \/ fate[r].cancelled
      BY <2>1 DEF ReminderCancel, TypeOK
    <3> QED BY <2>2, <3>1, <3>2 DEF OneHome, JustOne
  <2> QED BY <2>2, <2>3 DEF Homes
<1>12. CASE \E c \in CronJob : CronCreate(c) \/ CronDelete(c)
  BY <1>1, <1>12 DEF CronCreate, CronDelete, targetVars, loopVars
<1>13. CASE \E q \in Refresh : ClearAndReadHandoff(q)
  BY <1>1, <1>13 DEF ClearAndReadHandoff, targetVars, schedVars, loopVars
<1> QED BY <1>2, <1>3, <1>4, <1>5, <1>6, <1>7, <1>8, <1>9, <1>10, <1>11, <1>12, <1>13
        DEF Next, Loop

-----------------------------------------------------------------------------
(* A refresh keeps its delay *)

LEMMA AppendRequest ==
    ASSUME NEW queue \in Seq(RequestRecord), NEW q \in RequestRecord,
           OncePerReq(queue), q.req \notin Reqs(queue)
    PROVE  OncePerReq(Append(queue, q)) /\ Reqs(Append(queue, q)) = Reqs(queue) \cup {q.req}
<1> DEFINE p == Append(queue, q)
<1>1. /\ DOMAIN p = 1 .. Len(queue) + 1 /\ Len(queue) \in Nat /\ DOMAIN queue = 1 .. Len(queue)
      /\ \A i \in 1 .. Len(queue) : p[i] = queue[i]
      /\ p[Len(queue) + 1] = q
      /\ ToSet(p) = ToSet(queue) \cup {q}
  BY AppendList
<1> HIDE DEF p
<1>2. \A i \in DOMAIN p : i \in DOMAIN queue \/ i = Len(queue) + 1
  BY <1>1
<1>3. \A i \in DOMAIN queue : p[i] = queue[i] /\ p[i].req # q.req
  BY <1>1 DEF Reqs, ToSet
<1>4. OncePerReq(p)
  BY <1>1, <1>2, <1>3 DEF OncePerReq
<1>5. Reqs(p) = Reqs(queue) \cup {q.req}
  BY <1>1 DEF Reqs
<1> QED BY <1>4, <1>5 DEF p

LEMMA TailRequests ==
    ASSUME NEW queue \in Seq(RequestRecord), queue # <<>>, OncePerReq(queue)
    PROVE  /\ OncePerReq(Tail(queue))
           /\ Head(queue) \in RequestRecord /\ Head(queue).req \notin Reqs(Tail(queue))
           /\ ToSet(queue) = {Head(queue)} \cup ToSet(Tail(queue))
           /\ Reqs(queue) = {Head(queue).req} \cup Reqs(Tail(queue))
<1> DEFINE p == Tail(queue)
           h == Head(queue)
<1>1. /\ Len(queue) \in Nat \ {0} /\ DOMAIN queue = 1 .. Len(queue)
      /\ DOMAIN p = 1 .. Len(queue) - 1 /\ h \in RequestRecord /\ h = queue[1]
      /\ \A i \in 1 .. Len(queue) - 1 : p[i] = queue[i + 1]
      /\ ToSet(queue) = {h} \cup ToSet(p)
  BY TailList
<1> HIDE DEF p, h
<1>2. \A i \in DOMAIN p : i + 1 \in DOMAIN queue /\ i + 1 # 1 /\ i \in Nat /\ p[i] = queue[i + 1]
  BY <1>1
<1>3. 1 \in DOMAIN queue
  BY <1>1
<1>4. OncePerReq(p)
  <2> SUFFICES ASSUME NEW i \in DOMAIN p, NEW j \in DOMAIN p, p[i].req = p[j].req
               PROVE  i = j
    BY DEF OncePerReq
  <2>1. i + 1 = j + 1
    BY <1>2 DEF OncePerReq
  <2> QED BY <1>2, <2>1
<1>5. \A i \in DOMAIN p : p[i].req # h.req
  BY <1>1, <1>2, <1>3 DEF OncePerReq
<1>6. h.req \notin Reqs(p)
  BY <1>5 DEF Reqs, ToSet
<1>7. Reqs(queue) = {h.req} \cup Reqs(p)
  BY <1>1 DEF Reqs
<1> QED BY <1>1, <1>4, <1>6, <1>7 DEF p, h

LEMMA ConcatRequests ==
    ASSUME NEW queue \in Seq(RequestRecord), NEW rest \in Seq(RequestRecord),
           OncePerReq(queue), OncePerReq(rest), Reqs(queue) \cap Reqs(rest) = {}
    PROVE  /\ OncePerReq(queue \o rest)
           /\ ToSet(queue \o rest) = ToSet(queue) \cup ToSet(rest)
<1> DEFINE p == queue \o rest
<1>1. /\ Len(queue) \in Nat /\ Len(rest) \in Nat
      /\ DOMAIN p = 1 .. Len(queue) + Len(rest)
      /\ \A i \in DOMAIN queue : p[i] = queue[i]
      /\ \A i \in DOMAIN p : i \notin DOMAIN queue =>
            i - Len(queue) \in DOMAIN rest /\ p[i] = rest[i - Len(queue)]
      /\ ToSet(p) = ToSet(queue) \cup ToSet(rest)
  BY ConcatList
<1> HIDE DEF p
<1>2. \A i \in DOMAIN queue : p[i].req \in Reqs(queue) /\ p[i].req \notin Reqs(rest)
  BY <1>1 DEF Reqs, ToSet
<1>3. \A i \in DOMAIN p : i \notin DOMAIN queue => p[i].req \in Reqs(rest)
  BY <1>1 DEF Reqs, ToSet
<1> SUFFICES ASSUME NEW i \in DOMAIN p, NEW j \in DOMAIN p, p[i].req = p[j].req
             PROVE  i = j
  BY <1>1 DEF OncePerReq, p
<1>4. CASE i \in DOMAIN queue
  BY <1>1, <1>2, <1>3, <1>4 DEF OncePerReq
<1>5. CASE i \notin DOMAIN queue
  <2>1. j \notin DOMAIN queue
    BY <1>2, <1>3, <1>5
  <2>2. i - Len(queue) = j - Len(queue)
    BY <1>1, <1>5, <2>1 DEF OncePerReq
  <2> QED BY <1>1, <2>2
<1> QED BY <1>4, <1>5

LEMMA EmptyRequests == OncePerReq(<<>>) /\ Reqs(<<>>) = {} /\ ToSet(<<>>) = {}
BY DEF OncePerReq, Reqs, ToSet

LEMMA PassTimeRefreshes ==
    ASSUME TypeOK, Phases, Refreshes, PassTime
    PROVE  Refreshes'
<1> USE EntryAssumption
<1>1. taken = <<>> /\ remaining = <<>> /\ taken' = <<>> /\ remaining' = <<>>
  BY DEF PassTime, Phases
<1>2. UNCHANGED <<restored, unset>>
  BY DEF PassTime
<1>3. /\ requests \in Seq(RequestRecord) /\ cleared \in [Refresh -> (0 .. FollowupDelay) \cup {None}]
      /\ restored \subseteq Refresh
  BY DEF TypeOK
<1>4. /\ DOMAIN requests' = DOMAIN requests
      /\ \A i \in DOMAIN requests : requests'[i] = Sooner(requests[i])
  BY DEF PassTime
<1>5. ASSUME NEW q \in RequestRecord
      PROVE  LET s == Sooner(q)
             IN  s.req = q.req /\ s.sent = q.sent /\ s.left = Less(q.left) /\ q.left \in Nat
  BY DEF RequestRecord, Sooner
<1>6. \A i \in DOMAIN requests : requests[i] \in RequestRecord /\ requests[i] \in ToSet(requests)
  BY <1>3 DEF ToSet
<1>7. OncePerReq(requests')
  BY <1>4, <1>5, <1>6 DEF OncePerReq, Refreshes
<1>8. ASSUME NEW s \in ToSet(requests')
      PROVE  OnTime(s)'
  <2>1. PICK i \in DOMAIN requests : s = Sooner(requests[i])
    BY <1>4 DEF ToSet
  <2> DEFINE q == requests[i]
  <2>2. q \in RequestRecord /\ OnTime(q)
    BY <1>6 DEF Refreshes, AllOnTime
  <2>3. s.req = q.req /\ s.sent = q.sent /\ s.left = Less(q.left) /\ q.left \in Nat
    BY <1>5, <2>1, <2>2
  <2>4. q.req \in Refresh
    BY <2>2 DEF RequestRecord
  <2> HIDE DEF q
  <2>5. cleared'[q.req] = IF cleared[q.req] = None THEN None
                          ELSE LowerOf(cleared[q.req] + 1, FollowupDelay)
    BY <2>4 DEF PassTime
  <2>6. ASSUME q.sent
        PROVE  cleared'[q.req] \in 0 .. FollowupDelay /\ Less(q.left) = FollowupDelay - cleared'[q.req]
    <3>1. cleared[q.req] \in 0 .. FollowupDelay /\ q.left = FollowupDelay - cleared[q.req]
      BY <2>2, <2>6 DEF OnTime
    <3>2. cleared'[q.req] = LowerOf(cleared[q.req] + 1, FollowupDelay)
      BY <2>5, <3>1
    <3> QED BY <3>1, <3>2 DEF LowerOf, Less
  <2> QED BY <1>2, <2>2, <2>3, <2>6 DEF OnTime
<1>9. RestoreAfterClear'
  <2> SUFFICES ASSUME NEW q \in restored
               PROVE  cleared'[q] = FollowupDelay
    BY <1>2 DEF RestoreAfterClear
  <2>1. q \in Refresh /\ cleared[q] = FollowupDelay
    BY <1>3 DEF Refreshes, RestoreAfterClear
  <2> QED BY <2>1 DEF PassTime, LowerOf
<1> QED BY <1>1, <1>2, <1>7, <1>8, <1>9, EmptyRequests DEF Refreshes, AllOnTime

LEMMA HandoffRefreshes ==
    ASSUME TypeOK, Refreshes, NEW r \in Refresh, ClearAndReadHandoff(r)
    PROVE  Refreshes'
<1> USE EntryAssumption
<1> DEFINE q == [req |-> r, sent |-> FALSE, left |-> ClearDelay]
<1>1. q \in RequestRecord /\ q.req = r /\ q.sent = FALSE
  BY DEF RequestRecord
<1>2. requests' = Append(requests, q) /\ requests \in Seq(RequestRecord)
  BY DEF ClearAndReadHandoff, TypeOK
<1> HIDE DEF q
<1>3. r \in unset /\ unset' = unset \ {r} /\ UNCHANGED <<taken, remaining, cleared, restored>>
  BY DEF ClearAndReadHandoff
<1>4. r \notin Reqs(requests) /\ r \notin Reqs(taken) /\ r \notin Reqs(remaining)
  BY <1>3 DEF Refreshes, AllOnTime, OnTime, Reqs
<1>5. OncePerReq(requests') /\ Reqs(requests') = Reqs(requests) \cup {r}
      /\ ToSet(requests') = ToSet(requests) \cup {q}
  BY <1>1, <1>2, <1>4, AppendRequest, AppendList DEF Refreshes
<1>6. ASSUME NEW x, OnTime(x)
      PROVE  OnTime(x)'
  BY <1>3, <1>6 DEF OnTime
<1>7. r \notin restored
  BY <1>3 DEF Refreshes
<1>8. OnTime(q)'
  BY <1>1, <1>3, <1>7 DEF OnTime
<1> QED BY <1>3, <1>4, <1>5, <1>6, <1>8 DEF Refreshes, AllOnTime, RestoreAfterClear

LEMMA TakeRefreshes ==
    ASSUME TypeOK, Phases, Refreshes, TakeRequests
    PROVE  Refreshes'
<1>1. taken = <<>> /\ remaining = <<>>
  BY DEF TakeRequests, Phases
<1>2. taken' = requests /\ requests' = <<>> /\ UNCHANGED <<remaining, cleared, restored, unset>>
  BY DEF TakeRequests
<1>3. ASSUME NEW q, OnTime(q)
      PROVE  OnTime(q)'
  BY <1>2, <1>3 DEF OnTime
<1> QED BY <1>1, <1>2, <1>3, EmptyRequests DEF Refreshes, AllOnTime, RestoreAfterClear

LEMMA AdvanceRefreshes ==
    ASSUME TypeOK, Refreshes, AdvanceRequest
    PROVE  Refreshes'
<1> USE EntryAssumption
<1> PICK q, a : q = Head(taken) /\ a = Advance(q)
  OBVIOUS
<1>1. /\ q \in RequestRecord /\ taken' = Tail(taken)
      /\ OncePerReq(taken') /\ q.req \notin Reqs(taken')
      /\ ToSet(taken) = {q} \cup ToSet(taken') /\ Reqs(taken) = {q.req} \cup Reqs(taken')
  BY TailRequests DEF AdvanceRequest, TypeOK, Refreshes
<1>2. /\ a \in RequestRecord /\ a.req = q.req
      /\ ClearsNow(q) => a.sent = TRUE /\ a.left = FollowupDelay
      /\ ~ClearsNow(q) => a = q
  BY <1>1, AdvanceType
<1>3. /\ remaining' = IF Completes(q) THEN remaining ELSE Append(remaining, a)
      /\ cleared' = IF ClearsNow(q) THEN [cleared EXCEPT ![q.req] = 0] ELSE cleared
      /\ restored' = IF Completes(q) THEN restored \cup {q.req} ELSE restored
      /\ UNCHANGED <<requests, unset>>
      /\ Completes(q) => a.sent /\ a.left = 0
  BY DEF AdvanceRequest, Completes
<1>4. /\ remaining \in Seq(RequestRecord) /\ cleared \in [Refresh -> (0 .. FollowupDelay) \cup {None}]
      /\ restored \subseteq Refresh /\ q.req \in Refresh
  BY <1>1 DEF TypeOK, RequestRecord
<1>5. OnTime(q)
  BY <1>1 DEF Refreshes, AllOnTime
<1>6. q.req \notin Reqs(requests) /\ q.req \notin Reqs(remaining)
  BY <1>1 DEF Refreshes
<1>7. \A x \in Refresh : cleared'[x] = IF ClearsNow(q) /\ x = q.req THEN 0 ELSE cleared[x]
  BY <1>3, <1>4
<1>8. ASSUME NEW x \in RequestRecord, x.req # q.req, OnTime(x)
      PROVE  OnTime(x)'
  <2>1. x.req \in Refresh
    BY DEF RequestRecord
  <2>2. cleared'[x.req] = cleared[x.req]
    BY <1>7, <1>8, <2>1
  <2>3. x.req \notin restored' /\ x.req \notin unset'
    BY <1>3, <1>8 DEF OnTime
  <2> QED BY <1>8, <2>2, <2>3 DEF OnTime
<1>9. a.sent => /\ cleared'[q.req] \in 0 .. FollowupDelay
                /\ a.left = FollowupDelay - cleared'[q.req]
  <2>1. CASE ClearsNow(q)
    <3>1. cleared'[q.req] = 0
      BY <1>4, <1>7, <2>1
    <3> QED BY <1>2, <2>1, <3>1
  <2>2. CASE ~ClearsNow(q)
    <3>1. cleared'[q.req] = cleared[q.req]
      BY <1>4, <1>7, <2>2
    <3> QED BY <1>2, <1>5, <2>2, <3>1 DEF OnTime
  <2> QED BY <2>1, <2>2
<1>10. ~Completes(q) => OnTime(a)'
  <2>1. ASSUME ~Completes(q)
        PROVE  q.req \notin restored' /\ q.req \notin unset'
    BY <1>3, <1>5, <2>1 DEF OnTime
  <2> QED BY <1>2, <1>9, <2>1 DEF OnTime
<1>11. OncePerReq(remaining') /\ Reqs(remaining') \subseteq Reqs(remaining) \cup {q.req}
       /\ ToSet(remaining') \subseteq ToSet(remaining) \cup {a}
       /\ (Completes(q) => remaining' = remaining)
  <2>1. CASE Completes(q)
    BY <1>3, <2>1 DEF Refreshes
  <2>2. CASE ~Completes(q)
    BY <1>2, <1>3, <1>4, <1>6, <2>2, AppendRequest, AppendList DEF Refreshes
  <2> QED BY <2>1, <2>2
<1>12. RestoreAfterClear' /\ restored' \cap unset' = {}
  <2>1. ASSUME NEW x \in restored'
        PROVE  cleared'[x] = FollowupDelay /\ x \notin unset'
    <3>1. CASE x \in restored
      <4>1. x # q.req /\ x \in Refresh
        BY <1>4, <1>5, <3>1 DEF OnTime
      <4>2. cleared'[x] = cleared[x]
        BY <1>7, <4>1
      <4> QED BY <1>3, <3>1, <4>2 DEF Refreshes, RestoreAfterClear
    <3>2. CASE x \notin restored
      <4>1. Completes(q) /\ x = q.req
        BY <1>3, <3>2
      <4>2. a.sent /\ a.left = 0
        BY <1>3, <4>1
      <4> QED BY <1>3, <1>5, <1>9, <4>1, <4>2 DEF OnTime
    <3> QED BY <3>1, <3>2
  <2> QED BY <2>1 DEF RestoreAfterClear
<1>13. AllOnTime(requests)' /\ AllOnTime(taken)' /\ AllOnTime(remaining)'
  <2>1. /\ requests \in Seq(RequestRecord) /\ taken' \in Seq(RequestRecord)
    BY <1>1, TailList DEF TypeOK, AdvanceRequest
  <2>2. ASSUME NEW x \in ToSet(requests) \cup ToSet(taken') \cup ToSet(remaining)
        PROVE  x \in RequestRecord /\ x.req # q.req /\ OnTime(x)
    <3>1. x \in RequestRecord
      BY <1>4, <2>1 DEF ToSet
    <3>2. x.req # q.req
      BY <1>1, <1>6 DEF Reqs
    <3>3. OnTime(x)
      BY <1>1 DEF Refreshes, AllOnTime
    <3> QED BY <3>1, <3>2, <3>3
  <2> QED BY <1>3, <1>8, <1>10, <1>11, <2>2 DEF AllOnTime
<1>14. /\ Reqs(requests') \cap Reqs(taken') = {} /\ Reqs(requests') \cap Reqs(remaining') = {}
       /\ Reqs(taken') \cap Reqs(remaining') = {} /\ OncePerReq(requests')
  BY <1>1, <1>3, <1>6, <1>11 DEF Refreshes
<1> QED BY <1>1, <1>11, <1>12, <1>13, <1>14 DEF Refreshes

LEMMA EndOfRefreshRefreshes ==
    ASSUME TypeOK, Refreshes, EndOfRefresh
    PROVE  Refreshes'
<1>1. /\ taken = <<>> /\ taken' = <<>> /\ remaining' = <<>> /\ requests' = requests \o remaining
      /\ UNCHANGED <<cleared, restored, unset>>
  BY DEF EndOfRefresh, PutBack
<1>2. OncePerReq(requests') /\ ToSet(requests') = ToSet(requests) \cup ToSet(remaining)
  BY <1>1, ConcatRequests DEF TypeOK, Refreshes
<1>3. ASSUME NEW q, OnTime(q)
      PROVE  OnTime(q)'
  BY <1>1, <1>3 DEF OnTime
<1> QED BY <1>1, <1>2, <1>3, EmptyRequests DEF Refreshes, AllOnTime, RestoreAfterClear

LEMMA RefreshesStep ==
    ASSUME TypeOK, Phases, Refreshes, [Next]_vars
    PROVE  Refreshes'
<1>1. ASSUME UNCHANGED <<taken, remaining, cleared, restored>>, unset' \in SUBSET unset,
             requests' \in {requests, <<>>}
      PROVE  Refreshes'
  <2>1. ASSUME NEW q, OnTime(q)
        PROVE  OnTime(q)'
    BY <1>1, <2>1 DEF OnTime
  <2> QED BY <1>1, <2>1, EmptyRequests DEF Refreshes, AllOnTime, RestoreAfterClear
<1>2. CASE PassTime
  BY <1>2, PassTimeRefreshes
<1>3. CASE TakeRequests
  BY <1>3, TakeRefreshes
<1>4. CASE AdvanceRequest
  BY <1>4, AdvanceRefreshes
<1>5. CASE EndOfRefresh
  BY <1>5, EndOfRefreshRefreshes
<1>6. CASE EndOfInput \/ Tick \/ HandleEvent \/ AllHandled \/ DrainDeferred \/ NoRequests
  BY <1>1, <1>6 DEF EndOfInput, Tick, HandleEvent, AllHandled, DrainDeferred, NoRequests, refreshVars
<1>7. CASE UserTypes \/ TargetKilled \/ Reload \/ UNCHANGED vars
  BY <1>1, <1>7 DEF UserTypes, TargetKilled, Reload, refreshVars, vars
<1>8. CASE \E r \in Reminder : ReminderSet(r) \/ ReminderCancel(r)
  BY <1>1, <1>8 DEF ReminderSet, ReminderCancel, refreshVars
<1>9. CASE \E c \in CronJob : CronCreate(c) \/ CronDelete(c)
  BY <1>1, <1>9 DEF CronCreate, CronDelete, refreshVars
<1>10. CASE \E q \in Refresh : ClearAndReadHandoff(q)
  BY <1>10, HandoffRefreshes
<1> QED BY <1>2, <1>3, <1>4, <1>5, <1>6, <1>7, <1>8, <1>9, <1>10 DEF Next, Loop

-----------------------------------------------------------------------------
(* The theorems *)

LEMMA InvariantStep == ScheduleInductive /\ [Next]_vars => ScheduleInductive'
<1> SUFFICES ASSUME ScheduleInductive, [Next]_vars PROVE ScheduleInductive'
  OBVIOUS
<1>1. TypeOK /\ Phases /\ Homes /\ Refreshes
  BY FateIsHome DEF ScheduleInductive
<1>2. TypeOK'
  BY <1>1, TypeStep
<1>3. (OneFate <=> Homes)'
  <2>1. TypeOK => (OneFate <=> Homes)
    BY FateIsHome
  <2> QED BY <1>2, <2>1, FateIsHome, PTL
<1>4. Homes' /\ Phases' /\ Refreshes'
  BY <1>1, HomesStep, PhasesStep, RefreshesStep
<1> QED BY <1>2, <1>3, <1>4 DEF ScheduleInductive

(* For any reminders, jobs and delays: a reminder set, fired, deferred,    *)
(* delivered, cancelled or dropped is in one place at any time and typed   *)
(* at most once, it is lost only with its session or through a reload; and *)
(* a refresh types its restore the whole delay after its own /clear.       *)
THEOREM FatesKept == Spec => []ScheduleInv
<1>1. ScheduleInductive => ScheduleInv
  BY DEF ScheduleInductive, ScheduleInv, Refreshes
<1> QED BY <1>1, InitHolds, InvariantStep, PTL DEF Spec

-----------------------------------------------------------------------------
(* Distance and order of the deliveries *)

Delivered(r) == fate'[r].sent # fate[r].sent

LEMMA WhoIsDelivered ==
    ASSUME TypeOK, Homes, [Next]_vars, NEW r \in Reminder, Delivered(r)
    PROVE  /\ quiet = Threshold
           /\ \A o \in Reminder \ {r} : ~Delivered(o)
           /\ \/ due # <<>> /\ r = Head(due)
              \/ deferred # <<>> /\ r = Head(deferred)
<1> USE EntryAssumption
<1>1. /\ quiet \in 0 .. Threshold /\ Threshold \in Nat
      /\ due \in Seq(Entry) /\ deferred \in Seq(Entry)
  BY DEF TypeOK, Entry
<1>2. \A es : fate' # Lost(es)
  BY LostFate DEF Delivered
<1>3. ASSUME NEW e \in Entry, Delivers(e), IdleNow, e \in Reminder => fate[e].sent # 1
      PROVE  quiet = Threshold /\ e = r /\ \A o \in Reminder \ {r} : ~Delivered(o)
  <2>1. \A x \in Reminder : x # e => ~Delivered(x)
    BY <1>3, DeliversType DEF Delivered
  <2>2. e = r
    BY <2>1
  <2> QED BY <1>1, <1>3, <2>1, <2>2 DEF IdleNow
<1>4. CASE HandleEvent
  <2>1. due # <<>> /\ IdleNow /\ Delivers(Head(due))
    BY <1>2, <1>4 DEF HandleEvent, LetsGo, Delivered
  <2>2. Head(due) \in Entry /\ Head(due) \in ToSet(due)
    BY <1>1, <2>1, TailList
  <2>3. Head(due) \in Reminder => fate[Head(due)].sent # 1
    BY <2>2 DEF Homes, OneHome, JustOne
  <2> QED BY <1>3, <2>1, <2>2, <2>3
<1>5. CASE DrainDeferred
  <2>1. deferred # <<>> /\ IdleNow /\ Delivers(Head(deferred))
    BY <1>2, <1>5 DEF DrainDeferred, LetsGo, Delivered
  <2>2. Head(deferred) \in Entry /\ Head(deferred) \in ToSet(deferred)
    BY <1>1, <2>1, TailList
  <2>3. Head(deferred) \in Reminder => fate[Head(deferred)].sent # 1
    BY <2>2 DEF Homes, OneHome, JustOne
  <2> QED BY <1>3, <2>1, <2>2, <2>3
<1>6. fate' # fate
  BY DEF Delivered
<1>7. \A x \in Reminder : ~ReminderCancel(x)
  <2> SUFFICES ASSUME NEW x \in Reminder, ReminderCancel(x) PROVE FALSE
    OBVIOUS
  <2>1. fate'[r].sent = fate[r].sent
    BY DEF ReminderCancel, TypeOK
  <2> QED BY <2>1 DEF Delivered
<1>8. ~Reload
  BY <1>2 DEF Reload
<1>9. ~PassTime /\ ~UserTypes /\ ~TargetKilled /\ ~UNCHANGED vars
  BY <1>6 DEF PassTime, UserTypes, TargetKilled, vars
<1>10. ~EndOfInput /\ ~Tick /\ ~AllHandled /\ ~TakeRequests /\ ~NoRequests /\ ~AdvanceRequest
       /\ ~EndOfRefresh
  BY <1>6 DEF EndOfInput, Tick, AllHandled, TakeRequests, NoRequests, AdvanceRequest, EndOfRefresh
<1>11. /\ \A x \in Reminder : ~ReminderSet(x)
       /\ \A c \in CronJob : ~CronCreate(c) /\ ~CronDelete(c)
       /\ \A q \in Refresh : ~ClearAndReadHandoff(q)
  BY <1>6 DEF ReminderSet, CronCreate, CronDelete, ClearAndReadHandoff
<1> QED BY <1>4, <1>5, <1>7, <1>8, <1>9, <1>10, <1>11 DEF Next, Loop

LEMMA HowDeferredChanges ==
    ASSUME [Next]_vars
    PROVE  \/ deferred' = deferred
           \/ deferred' = <<>>
           \/ deferred # <<>> /\ deferred' = Tail(deferred)
           \/ due # <<>> /\ deferred' = Append(deferred, Head(due))
<1>1. CASE HandleEvent
  BY <1>1 DEF HandleEvent
<1>2. CASE DrainDeferred
  BY <1>2 DEF DrainDeferred
<1>3. CASE PassTime \/ UserTypes \/ TargetKilled \/ Reload \/ UNCHANGED vars
  BY <1>3 DEF PassTime, UserTypes, TargetKilled, Reload, vars
<1>4. CASE EndOfInput \/ Tick \/ AllHandled \/ TakeRequests \/ NoRequests \/ AdvanceRequest
           \/ EndOfRefresh
  BY <1>4 DEF EndOfInput, Tick, AllHandled, TakeRequests, NoRequests, AdvanceRequest, EndOfRefresh
<1>5. CASE \E x \in Reminder : ReminderSet(x) \/ ReminderCancel(x)
  BY <1>5 DEF ReminderSet, ReminderCancel
<1>6. CASE \E c \in CronJob : CronCreate(c) \/ CronDelete(c)
  BY <1>6 DEF CronCreate, CronDelete
<1>7. CASE \E q \in Refresh : ClearAndReadHandoff(q)
  BY <1>7 DEF ClearAndReadHandoff
<1> QED BY <1>1, <1>2, <1>3, <1>4, <1>5, <1>6, <1>7 DEF Next, Loop

LEMMA OrderKept ==
    ASSUME TypeOK, Homes, [Next]_vars,
           NEW i \in DOMAIN deferred, NEW j \in DOMAIN deferred, i < j,
           deferred[i] \in Reminder, deferred[j] \in Reminder
    PROVE  /\ ~Delivered(deferred[j])
           /\ ~\E k, l \in DOMAIN deferred' :
                 k < l /\ deferred'[k] = deferred[j] /\ deferred'[l] = deferred[i]
<1>1. deferred \in Seq(Entry) /\ due \in Seq(Entry) /\ Once(deferred)
  BY DEF TypeOK, Entry, Homes
<1>2. DOMAIN deferred = 1 .. Len(deferred) /\ Len(deferred) \in Nat
  BY <1>1
<1>3. deferred[i] # deferred[j]
  BY <1>1, <1>2 DEF Once
<1>4. \A x \in DOMAIN deferred : /\ deferred[x] = deferred[i] => x = i
                                 /\ deferred[x] = deferred[j] => x = j
  BY <1>1 DEF Once
<1>5. deferred[i] \in ToSet(deferred) /\ deferred[j] \in ToSet(deferred)
  BY DEF ToSet
<1>6. \A r \in ToSet(deferred) : r \in Reminder => r \notin ToSet(due)
  BY DEF Homes, OneHome, JustOne
<1>7. ~Delivered(deferred[j])
  <2> SUFFICES ASSUME Delivered(deferred[j]) PROVE FALSE
    OBVIOUS
  <2>1. CASE due # <<>> /\ deferred[j] = Head(due)
    <3>1. Head(due) \in ToSet(due)
      BY <1>1, <2>1, TailList
    <3> QED BY <1>5, <1>6, <2>1, <3>1
  <2>2. CASE deferred # <<>> /\ deferred[j] = Head(deferred)
    <3>1. Head(deferred) = deferred[1] /\ 1 \in DOMAIN deferred
      BY <1>1, <1>2, <2>2, TailList
    <3>2. j = 1
      BY <1>4, <2>2, <3>1
    <3> QED BY <1>2, <3>2
  <2> QED BY <2>1, <2>2, WhoIsDelivered
<1>8. ASSUME NEW k \in DOMAIN deferred', NEW l \in DOMAIN deferred', k < l,
             deferred'[k] = deferred[j], deferred'[l] = deferred[i]
      PROVE  FALSE
  <2>1. CASE deferred' = deferred
    BY <1>2, <1>4, <1>8, <2>1
  <2>2. CASE deferred' = <<>>
    BY <1>8, <2>2
  <2>3. CASE deferred # <<>> /\ deferred' = Tail(deferred)
    <3>1. /\ DOMAIN deferred' = 1 .. Len(deferred) - 1
          /\ \A x \in 1 .. Len(deferred) - 1 : deferred'[x] = deferred[x + 1]
      BY <1>1, <2>3, TailList
    <3>2. k + 1 \in DOMAIN deferred /\ l + 1 \in DOMAIN deferred /\ k \in Nat /\ l \in Nat
      BY <1>2, <1>8, <3>1
    <3>3. k + 1 = j /\ l + 1 = i
      BY <1>4, <1>8, <3>1, <3>2
    <3> QED BY <1>2, <1>8, <3>2, <3>3
  <2>4. CASE due # <<>> /\ deferred' = Append(deferred, Head(due))
    <3>1. Head(due) \in Entry /\ Head(due) \in ToSet(due)
      BY <1>1, <2>4, TailList
    <3>2. /\ DOMAIN deferred' = 1 .. Len(deferred) + 1
          /\ \A x \in 1 .. Len(deferred) : deferred'[x] = deferred[x]
          /\ deferred'[Len(deferred) + 1] = Head(due)
      BY <1>1, <2>4, <3>1, AppendList
    <3>3. Head(due) # deferred[i]
      BY <1>5, <1>6, <3>1
    <3>4. l \in DOMAIN deferred /\ k \in DOMAIN deferred
      BY <1>2, <1>8, <3>2, <3>3
    <3>5. l = i /\ k = j
      BY <1>2, <1>4, <1>8, <3>2, <3>4
    <3> QED BY <1>2, <1>8, <3>5
  <2> QED BY <2>1, <2>2, <2>3, <2>4, HowDeferredChanges
<1> QED BY <1>7, <1>8

(* For any reminders, jobs and delays: the scheduler types a reminder only *)
(* into a session idle for the whole threshold and one at a time, and of   *)
(* two deferred reminders the later is neither typed nor moved before the  *)
(* earlier.                                                                *)
THEOREM DeliveriesInTurn == Spec => DeliveredInTurn
<1>1. ScheduleInductive /\ [Next]_vars =>
         [\A r \in Reminder : fate'[r].sent # fate[r].sent =>
             /\ quiet = Threshold
             /\ \A o \in Reminder \ {r} : fate'[o].sent = fate[o].sent]_vars
  BY FateIsHome, WhoIsDelivered DEF ScheduleInductive, Delivered
<1>2. ScheduleInductive /\ [Next]_vars =>
         [\A i, j \in DOMAIN deferred :
             i < j /\ {deferred[i], deferred[j]} \subseteq Reminder
             => /\ fate'[deferred[j]].sent # fate[deferred[j]].sent => fate[deferred[i]].sent = 1
                /\ ~\E k, l \in DOMAIN deferred' :
                      k < l /\ deferred'[k] = deferred[j] /\ deferred'[l] = deferred[i]]_vars
  BY FateIsHome, OrderKept DEF ScheduleInductive, Delivered
<1>3. Spec => SpacedApart
  BY <1>1, InitHolds, InvariantStep, PTL DEF Spec, SpacedApart
<1>4. Spec => DeferredInTurn
  BY <1>2, InitHolds, InvariantStep, PTL DEF Spec, DeferredInTurn
<1> QED BY <1>3, <1>4 DEF DeliveredInTurn

-----------------------------------------------------------------------------
(* The inductive invariant of Ctl *)

Call == calls[cmd.n]
Called == cmd.n \in C!Command /\ Call # None

(* A call that types has keys to type, one at a time.                      *)
KeysFit(call) ==
    /\ call.tool = "send_keys" => \E key \in C!Key : call.keys = <<key>>
    /\ call.tool = "rate_limit" => call.keys \in {<<"a", "prompt">>, <<"prompt">>}

(* A call belongs to a command that was run; the one of the command is     *)
(* there while its answer is awaited, or it was given up.                  *)
CallsOK ==
    /\ \A n \in C!Command : calls[n] # None => n <= cmd.n /\ KeysFit(calls[n])
    /\ stage # "idle" \/ cmd.kind # None => cmd.n \in C!Command /\ cmd.kind \in C!Kinds
    /\ cmd.kind # "send" => cmd.keys = <<>>
    /\ stage = "sleep" => cmd.kind = "wait"
    /\ stage = "await" => Called
    /\ stage \in {"call", "pause", "sleep"} => calls[cmd.n] = None
    /\ Called => Call.session = cmd.session /\ Call.tool = C!ToolOf(cmd.kind)
    /\ stage = "idle" /\ Called => cmd.code = 1

(* How many of its keys a send has typed: one less than the key it is at,  *)
(* until the call for that key is answered, which happens only once it is  *)
(* typed.                                                                  *)
SendsOK ==
    cmd.kind = "send" =>
        /\ cmd.keys \in C!Keys /\ cmd.next \in DOMAIN cmd.keys
        /\ \E k \in 0 .. Len(cmd.keys) : C!TypedFirst(k)
        /\ stage \in {"call", "pause"} => C!TypedFirst(cmd.next - 1)
        /\ stage = "idle" /\ cmd.code = 0 => C!TypedFirst(Len(cmd.keys))
        /\ Called =>
            /\ Call.keys = <<cmd.keys[cmd.next]>>
            /\ Call.result = None => C!TypedFirst(cmd.next - 1)
            /\ Call.result # None /\ ~Call.result.ok => C!TypedFirst(cmd.next - 1)
            /\ Call.result # None /\ Call.result.ok => C!TypedFirst(cmd.next)

(* The answer to a wait has what its session showed since it began, and    *)
(* the texts around the screen.                                            *)
WaitsOK ==
    /\ screen[cmd.session] \subseteq seen
    /\ cmd.kind = "wait" /\ Called /\ Call.result # None
          => Call.result.has \subseteq seen \cup C!Framing
    /\ C!FoundWasShown

CtlInductive == C!TypeOK /\ CallsOK /\ SendsOK /\ WaitsOK

-----------------------------------------------------------------------------
(* What was typed, and one key more *)

Stroke(m) == [by : 1 .. m, key : C!Key]

(* A command that has not been run has typed nothing.                      *)
LEMMA NothingTyped ==
    ASSUME NEW m \in Nat, NEW line \in Seq(Stroke(m)), NEW n \in Nat, n > m, NEW keys
    PROVE  C!TypesFirst(line, n, keys, 0)
<1> DEFINE own == {i \in DOMAIN line : line[i].by = n}
           at == [i \in 1 .. 0 |-> i]
<1>1. own = {}
  <2> SUFFICES ASSUME NEW i \in DOMAIN line, line[i].by = n PROVE FALSE
    OBVIOUS
  <2>1. line[i] \in Stroke(m)
    OBVIOUS
  <2> QED BY <2>1 DEF Stroke
<1>2. 1 .. 0 = {}
  OBVIOUS
<1>3. at \in [1 .. 0 -> own]
  BY <1>2
<1>4. /\ \A i, j \in 1 .. 0 : i < j => at[i] < at[j]
      /\ \A i \in own : \E j \in 1 .. 0 : at[j] = i
      /\ \A i \in 1 .. 0 : line[at[i]].key = keys[i]
  BY <1>1, <1>2
<1> QED BY <1>3, <1>4 DEF C!TypesFirst

(* A key that another command types changes nothing for this one, ...      *)
LEMMA OthersKey ==
    ASSUME NEW m \in Nat, NEW line \in Seq(Stroke(m)), NEW e \in Stroke(m), NEW n, e.by # n,
           NEW keys, NEW k \in Nat, C!TypesFirst(line, n, keys, k)
    PROVE  C!TypesFirst(Append(line, e), n, keys, k)
<1> DEFINE own == {i \in DOMAIN line : line[i].by = n}
           more == Append(line, e)
           mine == {i \in DOMAIN more : more[i].by = n}
<1>1. /\ Len(line) \in Nat /\ Len(more) = Len(line) + 1
      /\ DOMAIN line = 1 .. Len(line) /\ DOMAIN more = 1 .. Len(line) + 1
      /\ \A i \in 1 .. Len(line) : more[i] = line[i]
      /\ more[Len(line) + 1] = e
  OBVIOUS
<1>2. mine = own
  BY <1>1
<1>3. PICK at \in [1 .. k -> own] :
          /\ \A i, j \in 1 .. k : i < j => at[i] < at[j]
          /\ \A i \in own : \E j \in 1 .. k : at[j] = i
          /\ \A i \in 1 .. k : line[at[i]].key = keys[i]
  BY DEF C!TypesFirst
<1>4. \A i \in 1 .. k : at[i] \in 1 .. Len(line) /\ more[at[i]] = line[at[i]]
  BY <1>1, <1>3
<1>5. at \in [1 .. k -> mine]
  BY <1>2, <1>3
<1>6. /\ \A i \in mine : \E j \in 1 .. k : at[j] = i
      /\ \A i \in 1 .. k : more[at[i]].key = keys[i]
  BY <1>2, <1>3, <1>4
<1> HIDE DEF more
<1>7. C!TypesFirst(more, n, keys, k)
  BY <1>3, <1>5, <1>6 DEF C!TypesFirst
<1> QED BY <1>7 DEF more

(* ... and the next of its own makes one more.                             *)
LEMMA OwnKey ==
    ASSUME NEW m \in Nat, NEW line \in Seq(Stroke(m)), NEW e \in Stroke(m), NEW n, e.by = n,
           NEW keys, NEW k \in Nat, C!TypesFirst(line, n, keys, k), e.key = keys[k + 1]
    PROVE  C!TypesFirst(Append(line, e), n, keys, k + 1)
<1> DEFINE own == {i \in DOMAIN line : line[i].by = n}
           more == Append(line, e)
           mine == {i \in DOMAIN more : more[i].by = n}
           last == Len(line) + 1
<1>1. /\ Len(line) \in Nat
      /\ DOMAIN line = 1 .. Len(line) /\ DOMAIN more = 1 .. last
      /\ \A i \in 1 .. Len(line) : more[i] = line[i]
      /\ more[last] = e
  OBVIOUS
<1>2. mine = own \cup {last}
  BY <1>1
<1>3. PICK at \in [1 .. k -> own] :
          /\ \A i, j \in 1 .. k : i < j => at[i] < at[j]
          /\ \A i \in own : \E j \in 1 .. k : at[j] = i
          /\ \A i \in 1 .. k : line[at[i]].key = keys[i]
  BY DEF C!TypesFirst
<1>4. \A i \in 1 .. k : at[i] \in 1 .. Len(line) /\ at[i] < last /\ more[at[i]] = line[at[i]]
  BY <1>1, <1>3
<1> DEFINE now_ == [i \in 1 .. k + 1 |-> IF i = k + 1 THEN last ELSE at[i]]
<1> HIDE DEF more, last
<1>5. /\ now_ \in [1 .. k + 1 -> mine]
      /\ \A i \in 1 .. k : now_[i] = at[i]
      /\ now_[k + 1] = last
  BY <1>2, <1>3
<1>6. \A i \in 1 .. k + 1 : i = k + 1 \/ i \in 1 .. k
  OBVIOUS
<1> HIDE DEF now_
<1>7. \A i, j \in 1 .. k + 1 : i < j => now_[i] < now_[j]
  <2> SUFFICES ASSUME NEW i \in 1 .. k + 1, NEW j \in 1 .. k + 1, i < j
               PROVE  now_[i] < now_[j]
    OBVIOUS
  <2>1. i \in 1 .. k
    OBVIOUS
  <2>2. CASE j = k + 1
    BY <2>1, <2>2, <1>4, <1>5
  <2>3. CASE j # k + 1
    BY <2>1, <2>3, <1>3, <1>5, <1>6
  <2> QED BY <2>2, <2>3
<1>8. \A i \in mine : \E j \in 1 .. k + 1 : now_[j] = i
  <2> SUFFICES ASSUME NEW i \in mine PROVE \E j \in 1 .. k + 1 : now_[j] = i
    OBVIOUS
  <2>1. CASE i = last
    BY <2>1, <1>5
  <2>2. CASE i # last
    <3>1. PICK j \in 1 .. k : at[j] = i
      BY <2>2, <1>2, <1>3
    <3>2. j \in 1 .. k + 1
      OBVIOUS
    <3> QED BY <3>1, <3>2, <1>5
  <2> QED BY <2>1, <2>2
<1>9. \A i \in 1 .. k + 1 : more[now_[i]].key = keys[i]
  <2> SUFFICES ASSUME NEW i \in 1 .. k + 1 PROVE more[now_[i]].key = keys[i]
    OBVIOUS
  <2>1. CASE i = k + 1
    BY <2>1, <1>1, <1>5
  <2>2. CASE i # k + 1
    BY <2>2, <1>3, <1>4, <1>5, <1>6
  <2> QED BY <2>1, <2>2
<1>10. C!TypesFirst(more, n, keys, k + 1)
  BY <1>5, <1>7, <1>8, <1>9 DEF C!TypesFirst
<1> QED BY <1>10 DEF more

-----------------------------------------------------------------------------
(* What a tool does to its call and to its session *)

Types(n, s, key) == entered' = [entered EXCEPT ![s] = Append(@, [by |-> n, key |-> key])]

ServerStep(n, old, new) ==
    /\ old \in C!ToolCall /\ new \in C!ToolCall /\ old = calls[n] /\ old.result = None
    /\ calls' = [calls EXCEPT ![n] = new]
    /\ new.tool = old.tool /\ new.session = old.session /\ KeysFit(new)
    /\ UNCHANGED <<screen, cmd, stage, seen>>
    /\ old.tool = "send_keys" => new.keys = old.keys /\ new.result # None
    /\ \/ entered' = entered /\ (old.tool = "send_keys" => ~new.result.ok)
       \/ \E key \in C!Key :
              /\ Types(n, old.session, key)
              /\ old.tool = "send_keys" => old.keys = <<key>> /\ new.result.ok
    /\ old.tool = "get_screen" /\ new.result # None
          => new.result.has \subseteq screen[old.session] \cup C!Framing

(* A call with another answer, wait or list of keys.                       *)
LEMMA CallFields ==
    ASSUME NEW table_ \in [C!Command -> {None} \cup C!ToolCall], NEW n \in C!Command,
           table_[n] \in C!ToolCall
    PROVE  /\ \A r \in C!Reply :
                LET new == [table_[n] EXCEPT !.result = r]
                IN  /\ new \in C!ToolCall /\ new.tool = table_[n].tool
                    /\ new.session = table_[n].session /\ new.keys = table_[n].keys
                    /\ new.result = r /\ new.result # None
                    /\ [table_ EXCEPT ![n].result = r] = [table_ EXCEPT ![n] = new]
           /\ \A l \in {None} \cup 0 .. LimitWait :
                LET new == [table_[n] EXCEPT !.left = l]
                IN  /\ new \in C!ToolCall /\ new.tool = table_[n].tool
                    /\ new.session = table_[n].session /\ new.keys = table_[n].keys
                    /\ new.result = table_[n].result
                    /\ [table_ EXCEPT ![n].left = l] = [table_ EXCEPT ![n] = new]
           /\ \A ks \in {<<k>> : k \in C!Key} :
                LET new == [table_[n] EXCEPT !.keys = ks]
                IN  /\ new \in C!ToolCall /\ new.tool = table_[n].tool
                    /\ new.session = table_[n].session /\ new.keys = ks
                    /\ new.result = table_[n].result
                    /\ [table_ EXCEPT ![n].keys = ks] = [table_ EXCEPT ![n] = new]
<1>1. None \notin C!Reply
  BY CtlAssumption DEF C!ConstantsOk
<1>2. table_[n] \in [tool : C!Tool, session : Session,
                     keys : {<<>>, <<"a", "prompt">>} \cup {<<k>> : k \in C!Key},
                     left : {None} \cup 0 .. LimitWait, result : {None} \cup C!Reply]
  BY DEF C!ToolCall
<1> QED BY <1>1, <1>2 DEF C!ToolCall

(* The keys a call types are appended to what was typed.                   *)
LEMMA TypedAppends ==
    ASSUME C!TypeOK, NEW n, NEW s \in Session, NEW key, C!Typed(s, n, <<key>>)
    PROVE  Types(n, s, key)
<1> DEFINE one == [i \in DOMAIN <<key>> |-> [by |-> n, key |-> <<key>>[i]]]
<1>1. one = <<[by |-> n, key |-> key]>>
  OBVIOUS
<1>2. entered[s] \in Seq(Stroke(cmd.n))
  BY DEF C!TypeOK, Stroke
<1>3. entered[s] \o <<[by |-> n, key |-> key]>> = Append(entered[s], [by |-> n, key |-> key])
  BY <1>2
<1>4. entered' = [entered EXCEPT ![s] = @ \o one]
  BY DEF C!Typed
<1> HIDE DEF one
<1> QED BY <1>1, <1>3, <1>4 DEF Types

(* Every tool takes such a step, with the call it serves.                  *)
LEMMA ToolSteps ==
    ASSUME C!TypeOK, CallsOK, NEW n \in C!Command, C!Tools(n)
    PROVE  \E new : ServerStep(n, calls[n], new)
<1> DEFINE old == calls[n]
<1> USE CtlAssumption DEF C!ConstantsOk
<1>1. /\ old \in C!ToolCall /\ old.result = None /\ KeysFit(old) /\ n <= cmd.n
      /\ UNCHANGED <<cmd, stage, seen>>
  <2>1. calls \in [C!Command -> {None} \cup C!ToolCall]
    BY DEF C!TypeOK
  <2>2. old # None /\ old.result = None /\ UNCHANGED <<cmd, stage, seen>>
    BY DEF C!Tools, C!Launch, C!SendKeys, C!KillSession, C!ListSessions, C!GetScreen,
           C!ResizeOrWait, C!ReadLimit, C!LimitOver, C!Pending, C!Serves
  <2> QED BY <2>1, <2>2 DEF CallsOK
<1>2. /\ calls \in [C!Command -> {None} \cup C!ToolCall] /\ screen \in [Session -> SUBSET C!Text]
      /\ old.session \in Session
  BY <1>1 DEF C!TypeOK, C!ToolCall
<1>3. /\ C!Error \in C!Reply /\ ~C!Error.ok /\ C!Error.has \subseteq C!Framing
      /\ \A has \in (SUBSET Session) \cup SUBSET (C!Text \cup C!Framing) :
            [ok |-> TRUE, has |-> has] \in C!Reply /\ [ok |-> TRUE, has |-> has].ok
  BY DEF C!Error, C!Reply, C!Framing
<1>4. ASSUME \/ C!Fails(n)
             \/ calls' = [calls EXCEPT ![n].result = C!Error] /\ UNCHANGED C!worldVars
      PROVE  \E new : ServerStep(n, old, new)
  <2>1. calls' = [calls EXCEPT ![n].result = C!Error] /\ UNCHANGED C!worldVars
    BY <1>4 DEF C!Fails
  <2> DEFINE new == [old EXCEPT !.result = C!Error]
  <2>2. /\ new \in C!ToolCall /\ new.tool = old.tool /\ new.session = old.session
        /\ new.keys = old.keys /\ new.result = C!Error /\ new.result # None
        /\ calls' = [calls EXCEPT ![n] = new]
    BY <2>1, <1>1, <1>2, <1>3, CallFields
  <2> HIDE DEF new
  <2>3. KeysFit(new)
    BY <1>1, <2>2 DEF KeysFit
  <2> QED BY <1>1, <1>3, <2>1, <2>2, <2>3 DEF ServerStep, C!worldVars
<1>5. ASSUME NEW has \in (SUBSET Session) \cup SUBSET (C!Text \cup C!Framing), C!Answer(n, has),
             UNCHANGED screen,
             \/ UNCHANGED entered /\ old.tool # "send_keys"
             \/ \E key \in C!Key : Types(n, old.session, key)
                                   /\ (old.tool = "send_keys" => old.keys = <<key>>),
             old.tool = "get_screen" => has \subseteq screen[old.session] \cup C!Framing
      PROVE  \E new : ServerStep(n, old, new)
  <2> DEFINE r == [ok |-> TRUE, has |-> has]
             new == [old EXCEPT !.result = r]
  <2>1. r \in C!Reply /\ r.ok /\ r.has = has
    BY <1>3
  <2>2. calls' = [calls EXCEPT ![n].result = r]
    BY <1>5 DEF C!Answer
  <2> HIDE DEF r
  <2>3. /\ new \in C!ToolCall /\ new.tool = old.tool /\ new.session = old.session
        /\ new.keys = old.keys /\ new.result = r /\ new.result # None
        /\ calls' = [calls EXCEPT ![n] = new]
    BY <2>1, <2>2, <1>1, <1>2, CallFields
  <2> HIDE DEF new
  <2>4. KeysFit(new)
    BY <1>1, <2>3 DEF KeysFit
  <2> QED BY <1>1, <1>5, <2>1, <2>3, <2>4 DEF ServerStep
<1>6. CASE C!Launch(n)
  BY <1>6, <1>4, <1>5, <1>1 DEF C!Launch, C!Pending
<1>7. CASE C!SendKeys(n)
  <2>1. old.tool = "send_keys"
    BY <1>7 DEF C!SendKeys, C!Pending
  <2>2. PICK key \in C!Key : old.keys = <<key>>
    BY <1>1, <2>1 DEF KeysFit
  <2>3. CASE C!Fails(n)
    BY <2>3, <1>4
  <2>4. CASE ~C!Fails(n)
    <3>1. C!Typed(old.session, n, <<key>>) /\ C!Answer(n, {}) /\ UNCHANGED screen
      BY <2>4, <2>2, <1>7 DEF C!SendKeys
    <3>2. Types(n, old.session, key)
      BY <3>1, <1>2, TypedAppends
    <3> QED BY <3>1, <3>2, <2>1, <2>2, <1>5
  <2> QED BY <2>3, <2>4
<1>8. CASE C!KillSession(n)
  BY <1>8, <1>4, <1>5, <1>1 DEF C!KillSession, C!Pending
<1>9. CASE C!ListSessions(n)
  <2>1. C!Answer(n, {s \in Session : C!Present(s)}) /\ UNCHANGED <<screen, entered>>
        /\ old.tool = "list"
    BY <1>9 DEF C!ListSessions, C!Pending, C!worldVars
  <2> QED BY <2>1, <1>5
<1>10. CASE C!GetScreen(n)
  <2>1. old.tool = "get_screen"
    BY <1>10 DEF C!GetScreen, C!Pending
  <2>2. CASE C!Present(old.session)
    <3>1. C!Answer(n, {"screen"} \cup screen[old.session]) /\ UNCHANGED <<screen, entered>>
      BY <1>10, <2>2 DEF C!GetScreen, C!worldVars
    <3>2. /\ {"screen"} \cup screen[old.session] \in SUBSET (C!Text \cup C!Framing)
          /\ {"screen"} \cup screen[old.session] \subseteq screen[old.session] \cup C!Framing
      BY <1>2 DEF C!Framing
    <3> QED BY <2>1, <3>1, <3>2, <1>5
  <2>3. CASE ~C!Present(old.session)
    BY <1>10, <2>3, <1>4 DEF C!GetScreen
  <2> QED BY <2>2, <2>3
<1>11. CASE C!ResizeOrWait(n)
  BY <1>11, <1>4, <1>5, <1>1 DEF C!ResizeOrWait, C!Pending, C!worldVars
<1>12. CASE C!ReadLimit(n)
  <2>1. old.tool = "rate_limit" /\ UNCHANGED C!worldVars
    BY <1>12 DEF C!ReadLimit, C!Pending
  <2>2. CASE calls' = [calls EXCEPT ![n].result = C!Error]
    BY <2>1, <2>2, <1>4
  <2>3. CASE C!Answer(n, {})
    BY <2>1, <2>3, <1>5 DEF C!worldVars
  <2>4. CASE calls' = [calls EXCEPT ![n].left = LimitWait]
    <3> DEFINE new == [old EXCEPT !.left = LimitWait]
    <3>1. LimitWait \in {None} \cup 0 .. LimitWait
      OBVIOUS
    <3>2. /\ new \in C!ToolCall /\ new.tool = old.tool /\ new.session = old.session
          /\ new.keys = old.keys /\ new.result = old.result
          /\ calls' = [calls EXCEPT ![n] = new]
      BY <3>1, <2>4, <1>1, <1>2, CallFields
    <3> HIDE DEF new
    <3>3. KeysFit(new)
      BY <1>1, <3>2 DEF KeysFit
    <3> QED BY <1>1, <2>1, <3>2, <3>3 DEF ServerStep, C!worldVars
  <2> QED BY <1>12, <2>2, <2>3, <2>4 DEF C!ReadLimit
<1>13. CASE C!LimitOver(n)
  <2>1. old.tool = "rate_limit" /\ old.keys \in {<<"a", "prompt">>, <<"prompt">>}
    BY <1>13, <1>1 DEF C!LimitOver, C!Pending, KeysFit
  <2>2. CASE C!Fails(n)
    BY <2>2, <1>4
  <2>3. CASE ~C!Fails(n)
    <3> DEFINE key == Head(old.keys)
    <3>1. key \in C!Key /\ (Len(old.keys) # 1 => Tail(old.keys) = <<"prompt">>)
      <4>1. CASE old.keys = <<"a", "prompt">>
        BY <4>1 DEF C!Key
      <4>2. CASE old.keys = <<"prompt">>
        BY <4>2 DEF C!Key
      <4> QED BY <2>1, <4>1, <4>2
    <3>2. /\ C!Typed(old.session, n, <<key>>) /\ UNCHANGED screen
          /\ \/ C!Answer(n, {})
             \/ Len(old.keys) # 1 /\ calls' = [calls EXCEPT ![n].keys = Tail(@)]
      BY <1>13, <2>3 DEF C!LimitOver
    <3> HIDE DEF key
    <3>3. Types(n, old.session, key)
      BY <3>2, <1>2, TypedAppends
    <3>4. CASE C!Answer(n, {})
      BY <3>1, <3>2, <3>3, <3>4, <2>1, <1>5
    <3>5. CASE Len(old.keys) # 1 /\ calls' = [calls EXCEPT ![n].keys = Tail(@)]
      <4> DEFINE new == [old EXCEPT !.keys = <<"prompt">>]
      <4>1. calls' = [calls EXCEPT ![n].keys = <<"prompt">>]
        BY <3>1, <3>5
      <4>2. <<"prompt">> \in {<<k>> : k \in C!Key}
        BY DEF C!Key
      <4>3. /\ new \in C!ToolCall /\ new.tool = old.tool /\ new.session = old.session
            /\ new.keys = <<"prompt">> /\ new.result = old.result
            /\ calls' = [calls EXCEPT ![n] = new]
        BY <4>1, <4>2, <1>1, <1>2, CallFields
      <4> HIDE DEF new
      <4>4. KeysFit(new)
        BY <2>1, <4>3 DEF KeysFit
      <4> QED BY <1>1, <2>1, <3>1, <3>2, <3>3, <4>3, <4>4 DEF ServerStep
    <3> QED BY <3>2, <3>4, <3>5
  <2> QED BY <2>2, <2>3
<1> QED BY <1>6, <1>7, <1>8, <1>9, <1>10, <1>11, <1>12, <1>13 DEF C!Tools

-----------------------------------------------------------------------------
(* The invariant of Ctl is kept by the tools, ...                          *)

(* The keys of a send, and the one it is at.                               *)
LEMMA KeysOfSend ==
    ASSUME NEW keys \in C!Keys, NEW at \in DOMAIN keys
    PROVE  /\ Len(keys) \in {1, 2} /\ at \in 1 .. Len(keys) /\ keys[at] \in C!Key
           /\ at \in Nat /\ at - 1 \in Nat /\ (at - 1) + 1 = at /\ Len(keys) \in Nat
           /\ at \in 0 .. Len(keys) /\ at - 1 \in 0 .. Len(keys) /\ at \in {1, 2}
           /\ keys # <<>> /\ DOMAIN keys = 1 .. Len(keys)
<1>1. CASE keys = <<"text">>
  BY <1>1 DEF C!Key
<1>2. CASE keys = <<"enter">>
  BY <1>2 DEF C!Key
<1>3. CASE keys = <<"text", "enter">>
  BY <1>3 DEF C!Key
<1> QED BY <1>1, <1>2, <1>3 DEF C!Keys

LEMMA TypedOn ==
    ASSUME C!TypeOK, NEW n \in 1 .. cmd.n, NEW s \in Session, NEW key \in C!Key,
           Types(n, s, key), cmd' = cmd
    PROVE  /\ entered' \in [Session -> Seq(Stroke(cmd.n))]
           /\ \A k \in Nat : C!TypedFirst(k) /\ n # cmd.n => C!TypedFirst(k)'
           /\ \A k \in Nat : /\ C!TypedFirst(k) /\ n = cmd.n /\ s = cmd.session
                             /\ key = cmd.keys[k + 1]
                             => C!TypedFirst(k + 1)'
<1> DEFINE e == [by |-> n, key |-> key]
           line == entered[cmd.session]
<1>1. entered \in [Session -> Seq(Stroke(cmd.n))] /\ cmd.session \in Session /\ cmd.n \in Nat
  <2>1. cmd.n \in 0 .. MaxCommands /\ cmd.session \in Session
    BY DEF C!TypeOK
  <2>2. MaxCommands \in Nat
    BY CtlAssumption DEF C!ConstantsOk
  <2>3. entered \in [Session -> Seq(Stroke(cmd.n))]
    BY DEF C!TypeOK, Stroke
  <2> QED BY <2>1, <2>2, <2>3
<1>2. e \in Stroke(cmd.n) /\ e.by = n /\ e.key = key
  BY DEF Stroke
<1> HIDE DEF e
<1>3. entered' = [entered EXCEPT ![s] = Append(@, e)]
  BY DEF Types, e
<1>4. entered' \in [Session -> Seq(Stroke(cmd.n))]
  BY <1>1, <1>2, <1>3
<1>5. line \in Seq(Stroke(cmd.n))
  BY <1>1
<1>6. entered'[cmd.session] = IF s = cmd.session THEN Append(line, e) ELSE line
  BY <1>1, <1>3
<1> HIDE DEF line
<1>7. ASSUME NEW k \in Nat, C!TypedFirst(k), n # cmd.n
      PROVE  C!TypedFirst(k)'
  <2>1. C!TypesFirst(line, cmd.n, cmd.keys, k)
    BY <1>7 DEF C!TypedFirst, line
  <2>2. C!TypesFirst(Append(line, e), cmd.n, cmd.keys, k)
    BY <2>1, <1>1, <1>2, <1>5, <1>7, OthersKey
  <2>3. C!TypesFirst(entered'[cmd.session], cmd.n, cmd.keys, k)
    BY <2>1, <2>2, <1>6
  <2> QED BY <2>3 DEF C!TypedFirst
<1>8. ASSUME NEW k \in Nat, C!TypedFirst(k), n = cmd.n, s = cmd.session, key = cmd.keys[k + 1]
      PROVE  C!TypedFirst(k + 1)'
  <2>1. C!TypesFirst(line, cmd.n, cmd.keys, k)
    BY <1>8 DEF C!TypedFirst, line
  <2>2. C!TypesFirst(Append(line, e), cmd.n, cmd.keys, k + 1)
    BY <2>1, <1>1, <1>2, <1>5, <1>8, OwnKey
  <2>3. C!TypesFirst(entered'[cmd.session], cmd.n, cmd.keys, k + 1)
    BY <2>2, <1>6, <1>8
  <2> QED BY <2>3 DEF C!TypedFirst
<1> QED BY <1>4, <1>7, <1>8

LEMMA CtlByTools ==
    ASSUME CtlInductive, NEW n \in C!Command, C!Tools(n)
    PROVE  CtlInductive'
<1> USE CtlAssumption DEF C!ConstantsOk
<1>0. C!TypeOK /\ CallsOK /\ SendsOK /\ WaitsOK
  BY DEF CtlInductive
<1> DEFINE old == calls[n]
<1>1. PICK new : ServerStep(n, old, new)
  BY <1>0, ToolSteps
<1>2. /\ old \in C!ToolCall /\ new \in C!ToolCall /\ old.result = None
      /\ calls' = [calls EXCEPT ![n] = new] /\ UNCHANGED <<screen, cmd, stage, seen>>
      /\ new.tool = old.tool /\ new.session = old.session /\ KeysFit(new)
  BY <1>1 DEF ServerStep
<1>3. /\ calls \in [C!Command -> {None} \cup C!ToolCall] /\ old # None /\ new # None
      /\ calls'[n] = new /\ \A m \in C!Command \ {n} : calls'[m] = calls[m]
      /\ n \in 1 .. cmd.n /\ cmd.n \in Nat /\ old.session \in Session
      /\ cmd.session \in Session
  BY <1>0, <1>2 DEF C!TypeOK, CallsOK, C!Command, C!ToolCall
<1>4. /\ entered' \in [Session -> Seq(Stroke(cmd.n))]
      /\ \A k \in Nat : C!TypedFirst(k) /\ n # cmd.n => C!TypedFirst(k)'
  <2>1. CASE entered' = entered
    BY <2>1, <1>0, <1>2 DEF C!TypedFirst, C!TypeOK, Stroke
  <2>2. CASE entered' # entered
    <3>1. PICK key \in C!Key : Types(n, old.session, key)
      BY <2>2, <1>1 DEF ServerStep
    <3> QED BY <3>1, <1>0, <1>2, <1>3, TypedOn
  <2> QED BY <2>1, <2>2
<1> HIDE DEF old
<1>5. C!TypeOK'
  <2>1. calls' \in [C!Command -> {None} \cup C!ToolCall]
    BY <1>2, <1>3
  <2>2. (stage = "await" => calls[cmd.n] # None)'
    BY <1>0, <1>2, <1>3 DEF CallsOK, Called, Call
  <2>3. entered' \in [Session -> Seq([by : 1 .. cmd'.n, key : C!Key])]
    BY <1>2, <1>4 DEF Stroke
  <2> QED BY <2>1, <2>2, <2>3, <1>0, <1>2 DEF C!TypeOK
<1>6. Called' <=> Called
  BY <1>2, <1>3 DEF Called, Call, old
<1>7. CallsOK'
  BY <1>0, <1>2, <1>3, <1>6 DEF CallsOK, Called, Call, C!Command, old
<1>8. SendsOK'
  <2> SUFFICES ASSUME cmd.kind = "send" PROVE SendsOK'
    BY <1>2 DEF SendsOK
  <2>1. cmd.keys \in C!Keys /\ cmd.next \in DOMAIN cmd.keys /\ cmd.next - 1 \in Nat
        /\ cmd.next \in 0 .. Len(cmd.keys) /\ cmd.next - 1 \in 0 .. Len(cmd.keys)
        /\ Len(cmd.keys) \in Nat /\ (cmd.next - 1) + 1 = cmd.next /\ cmd.next \in Nat
    BY <1>0, KeysOfSend DEF SendsOK
  <2>2. CASE n # cmd.n
    <3>1. /\ \A k \in Nat : C!TypedFirst(k) => C!TypedFirst(k)'
          /\ Called => Call' = Call
      BY <2>2, <1>2, <1>3, <1>4 DEF Called, Call
    <3>2. \E k \in 0 .. Len(cmd.keys) : C!TypedFirst(k)'
      BY <3>1, <2>1, <1>0 DEF SendsOK
    <3> QED BY <3>1, <3>2, <2>1, <1>0, <1>2, <1>6 DEF SendsOK
  <2>3. CASE n = cmd.n
    <3>1. /\ Called /\ Call = old /\ Call' = new
          /\ old.tool = "send_keys" /\ old.session = cmd.session
          /\ stage \notin {"call", "pause"} /\ ~(stage = "idle" /\ cmd.code = 0)
      BY <2>3, <1>0, <1>2, <1>3 DEF Called, Call, CallsOK, C!ToolOf, C!Command, old
    <3>2. /\ old.keys = <<cmd.keys[cmd.next]>> /\ C!TypedFirst(cmd.next - 1)
      BY <3>1, <1>0, <1>2 DEF SendsOK
    <3>3. new.keys = old.keys /\ new.result # None
      BY <3>1, <1>1 DEF ServerStep
    <3>4. /\ ~new.result.ok => C!TypedFirst(cmd.next - 1)'
          /\ new.result.ok => C!TypedFirst(cmd.next)'
      <4>1. ASSUME entered' = entered
            PROVE  C!TypedFirst(cmd.next - 1)'
        BY <4>1, <3>2, <1>2 DEF C!TypedFirst
      <4>2. ASSUME NEW key \in C!Key, Types(n, old.session, key), old.keys = <<key>>, new.result.ok
            PROVE  C!TypedFirst(cmd.next)'
        <5>1. key = cmd.keys[(cmd.next - 1) + 1]
          BY <4>2, <3>2, <2>1
        <5>2. C!TypedFirst((cmd.next - 1) + 1)'
          BY <5>1, <4>2, <3>1, <3>2, <2>1, <2>3, <1>0, <1>2, <1>3, TypedOn
        <5> QED BY <5>2, <2>1, <1>2
      <4> QED BY <4>1, <4>2, <3>1, <1>1, <1>2 DEF ServerStep
    <3>5. \E k \in 0 .. Len(cmd.keys) : C!TypedFirst(k)'
      <4>1. CASE new.result.ok
        BY <4>1, <3>4, <2>1, <1>2 DEF C!TypedFirst
      <4>2. CASE ~new.result.ok
        BY <4>2, <3>4, <2>1, <1>2 DEF C!TypedFirst
      <4> QED BY <4>1, <4>2
    <3> QED BY <3>1, <3>2, <3>3, <3>4, <3>5, <2>1, <1>2 DEF SendsOK
  <2> QED BY <2>2, <2>3
<1>9. WaitsOK'
  <2>1. CASE cmd.kind = "wait" /\ Called /\ n = cmd.n
    <3>1. old.tool = "get_screen" /\ old.session = cmd.session /\ Call' = new
      BY <2>1, <1>0, <1>2, <1>3 DEF Called, Call, CallsOK, C!ToolOf, old
    <3>2. new.result # None => new.result.has \subseteq screen[cmd.session] \cup C!Framing
      BY <3>1, <1>1 DEF ServerStep
    <3> QED BY <3>1, <3>2, <1>0, <1>2 DEF WaitsOK, C!FoundWasShown, C!Found
  <2>2. CASE ~(cmd.kind = "wait" /\ Called /\ n = cmd.n)
    <3>1. cmd.kind = "wait" /\ Called => Call' = Call
      BY <2>2, <1>2, <1>3 DEF Called, Call
    <3> QED BY <3>1, <1>0, <1>2, <1>6 DEF WaitsOK, C!FoundWasShown, C!Found
  <2> QED BY <2>1, <2>2
<1> QED BY <1>5, <1>7, <1>8, <1>9 DEF CtlInductive

-----------------------------------------------------------------------------
(* ... by time and by the sessions, ...                                    *)

(* The tools of the commands that type, look and read a limit.             *)
LEMMA ToolsOf ==
    ASSUME NEW kind \in C!Kinds
    PROVE  /\ C!ToolOf(kind) \in C!Tool
           /\ C!ToolOf(kind) = "send_keys" <=> kind = "send"
           /\ C!ToolOf(kind) = "get_screen" <=> kind = "wait"
           /\ C!ToolOf(kind) = "rate_limit" <=> kind = "rate_limit"
<1>1. CASE kind = "send"
  BY <1>1, ZenonT(20) DEF C!ToolOf, C!Tool
<1> QED BY DEF C!ToolOf, C!Kinds, C!Tool

SameCall(m) ==
    /\ calls[m] = None <=> calls'[m] = None
    /\ calls[m] # None =>
           /\ calls'[m].tool = calls[m].tool /\ calls'[m].session = calls[m].session
           /\ calls'[m].keys = calls[m].keys /\ calls'[m].result = calls[m].result

SameCommand ==
    /\ cmd'.n = cmd.n /\ cmd'.kind = cmd.kind /\ cmd'.session = cmd.session
    /\ cmd'.keys = cmd.keys /\ cmd'.pattern = cmd.pattern
    /\ cmd'.next = cmd.next /\ cmd'.said = cmd.said /\ cmd'.code = cmd.code

LEMMA CtlByWorld ==
    ASSUME CtlInductive, SameCommand, UNCHANGED <<entered, stage>>, C!TypeOK',
           \A m \in C!Command : SameCall(m),
           seen \subseteq seen', screen'[cmd.session] \subseteq seen'
    PROVE  CtlInductive'
<1>1. C!TypeOK /\ CallsOK /\ SendsOK /\ WaitsOK
  BY DEF CtlInductive
<1>2. Called' <=> Called
  BY DEF Called, SameCommand, SameCall, Call
<1>3. Called => /\ Call'.tool = Call.tool /\ Call'.session = Call.session
                /\ Call'.keys = Call.keys /\ Call'.result = Call.result
  BY DEF Called, SameCommand, SameCall, Call
<1>4. CallsOK'
  <2>1. \A m \in C!Command : calls'[m] # None => m <= cmd'.n /\ KeysFit(calls'[m])
    BY <1>1 DEF CallsOK, SameCall, SameCommand, KeysFit
  <2>2. stage \in {"call", "pause", "sleep"} => calls'[cmd.n] = None
    BY <1>1 DEF CallsOK, SameCall
  <2> QED BY <2>1, <2>2, <1>1, <1>2, <1>3 DEF CallsOK, SameCommand
<1>5. \A k : C!TypedFirst(k)' <=> C!TypedFirst(k)
  BY DEF C!TypedFirst, SameCommand
<1>6. SendsOK'
  <2> SUFFICES ASSUME cmd.kind = "send" PROVE SendsOK'
    BY DEF SendsOK, SameCommand
  <2>1. \E k \in 0 .. Len(cmd'.keys) : C!TypedFirst(k)'
    BY <1>1, <1>5 DEF SendsOK, SameCommand
  <2>2. /\ C!TypedFirst(cmd.next - 1) => C!TypedFirst(cmd.next - 1)'
        /\ C!TypedFirst(cmd.next) => C!TypedFirst(cmd.next)'
        /\ C!TypedFirst(Len(cmd.keys)) => C!TypedFirst(Len(cmd.keys))'
    BY DEF C!TypedFirst, SameCommand
  <2> QED BY <2>1, <2>2, <1>1, <1>2, <1>3 DEF SendsOK, SameCommand
<1>7. WaitsOK'
  BY <1>1, <1>2, <1>3 DEF WaitsOK, SameCommand, C!FoundWasShown, C!Found
<1> QED BY <1>4, <1>6, <1>7 DEF CtlInductive

LEMMA CtlByTime ==
    ASSUME CtlInductive, C!Tick
    PROVE  CtlInductive'
<1> USE CtlAssumption DEF C!ConstantsOk
<1>1. C!TypeOK /\ CallsOK /\ WaitsOK
  BY DEF CtlInductive
<1>2. calls \in [C!Command -> {None} \cup C!ToolCall]
  BY <1>1 DEF C!TypeOK
<1>3. UNCHANGED <<table, screen, entered, stage, seen>>
  BY DEF C!Tick, C!worldVars
<1>4. SameCommand /\ cmd' \in [n : 0 .. MaxCommands, kind : C!Kinds \cup {None}, session : Session,
                               keys : C!Keys \cup {<<>>}, pattern : C!Pattern \cup {None},
                               next : {1, 2},
                               since : 0 .. WaitTimeout + 1, asked : 0 .. ReadTimeout,
                               said : {None, "error", "done", "found", "timeout"}, code : {0, 1}]
  <2>1. cmd \in [n : 0 .. MaxCommands, kind : C!Kinds \cup {None}, session : Session,
                 keys : C!Keys \cup {<<>>}, pattern : C!Pattern \cup {None},
                 next : {1, 2}, since : 0 .. WaitTimeout + 1, asked : 0 .. ReadTimeout,
                 said : {None, "error", "done", "found", "timeout"}, code : {0, 1}]
    BY <1>1 DEF C!TypeOK
  <2>2. cmd' = [cmd EXCEPT !.since = C!Older(cmd.since, WaitTimeout + 1),
                           !.asked = C!Older(cmd.asked, ReadTimeout)]
    BY DEF C!Tick
  <2>3. /\ C!Older(cmd.since, WaitTimeout + 1) \in 0 .. WaitTimeout + 1
        /\ C!Older(cmd.asked, ReadTimeout) \in 0 .. ReadTimeout
    BY <2>1 DEF C!Older
  <2> QED BY <2>1, <2>2, <2>3 DEF SameCommand
<1>5. ASSUME NEW m \in C!Command
      PROVE  SameCall(m) /\ calls'[m] \in {None} \cup C!ToolCall
  <2>1. calls'[m] = IF calls[m] = None \/ calls[m].left \in {None, 0} THEN calls[m]
                    ELSE [calls[m] EXCEPT !.left = calls[m].left - 1]
    BY DEF C!Tick
  <2>2. CASE calls[m] = None \/ calls[m].left \in {None, 0}
    BY <2>1, <2>2, <1>2 DEF SameCall
  <2>3. CASE ~(calls[m] = None \/ calls[m].left \in {None, 0})
    <3>1. calls[m] \in C!ToolCall /\ calls[m].left \in {None} \cup 0 .. LimitWait
      BY <2>3, <1>2 DEF C!ToolCall
    <3> DEFINE l == calls[m].left - 1
    <3>2. l \in 0 .. LimitWait
      BY <2>3, <3>1
    <3> HIDE DEF l
    <3>3. LET new == [calls[m] EXCEPT !.left = l]
          IN  /\ new \in C!ToolCall /\ new.tool = calls[m].tool
              /\ new.session = calls[m].session /\ new.keys = calls[m].keys
              /\ new.result = calls[m].result
      BY <3>1, <3>2, <1>2, CallFields
    <3>4. calls'[m] = [calls[m] EXCEPT !.left = l]
      BY <2>1, <2>3 DEF l
    <3> DEFINE new == [calls[m] EXCEPT !.left = l]
    <3>5. /\ new \in C!ToolCall /\ new.tool = calls[m].tool
          /\ new.session = calls[m].session /\ new.keys = calls[m].keys
          /\ new.result = calls[m].result /\ calls'[m] = new
      BY <3>3, <3>4
    <3> HIDE DEF new
    <3> QED BY <3>5, <2>3 DEF SameCall
  <2> QED BY <2>2, <2>3
<1>6. calls' \in [C!Command -> {None} \cup C!ToolCall]
  <2>1. calls' = [m \in C!Command |-> calls'[m]]
    BY DEF C!Tick
  <2> QED BY <2>1, <1>5
<1>7. C!TypeOK'
  <2>1. entered' \in [Session -> Seq([by : 1 .. cmd'.n, key : C!Key])]
    BY <1>1, <1>3, <1>4 DEF C!TypeOK, SameCommand
  <2>2. (stage = "await" => calls[cmd.n] # None)'
    BY <1>1, <1>3, <1>4, <1>5 DEF CallsOK, Called, Call, SameCall, SameCommand
  <2> QED BY <2>1, <2>2, <1>1, <1>3, <1>4, <1>6 DEF C!TypeOK
<1> QED BY <1>1, <1>3, <1>4, <1>5, <1>7, CtlByWorld DEF WaitsOK

LEMMA CtlBySessions ==
    ASSUME CtlInductive, NEW s \in Session,
           C!SessionExits(s) \/ \E texts \in {{}, {"p"}, {"limit"}} : C!Shows(s, texts)
    PROVE  CtlInductive'
<1>1. C!TypeOK /\ CallsOK /\ WaitsOK
  BY DEF CtlInductive
<1>2. UNCHANGED <<entered, cmd, stage, calls>>
  BY DEF C!SessionExits, C!Shows
<1>3. /\ screen' \in [Session -> SUBSET C!Text]
      /\ seen \subseteq seen' /\ screen'[cmd.session] \subseteq seen'
  <2>1. CASE C!SessionExits(s)
    BY <2>1, <1>1 DEF C!SessionExits, C!TypeOK, WaitsOK
  <2>2. ASSUME NEW texts \in {{}, {"p"}, {"limit"}}, C!Shows(s, texts)
        PROVE  /\ screen' \in [Session -> SUBSET C!Text]
               /\ seen \subseteq seen' /\ screen'[cmd.session] \subseteq seen'
    <3>1. screen \in [Session -> SUBSET C!Text] /\ texts \in SUBSET C!Text
      BY <1>1 DEF C!TypeOK, C!Text
    <3>2. /\ screen' = [screen EXCEPT ![s] = texts]
          /\ seen' = IF s = cmd.session THEN seen \cup texts ELSE seen
      BY <2>2 DEF C!Shows
    <3>3. cmd.session \in Session
      BY <1>1 DEF C!TypeOK
    <3> QED BY <3>1, <3>2, <3>3, <1>1 DEF WaitsOK
  <2> QED BY <2>1, <2>2
<1>4. C!TypeOK'
  BY <1>1, <1>2, <1>3 DEF C!TypeOK
<1>5. SameCommand /\ \A m \in C!Command : SameCall(m)
  BY <1>2 DEF SameCommand, SameCall
<1> QED BY <1>2, <1>3, <1>4, <1>5, CtlByWorld

-----------------------------------------------------------------------------
(* ... and by the client.                                                  *)

Commands ==
    [n : 0 .. MaxCommands, kind : C!Kinds \cup {None}, session : Session,
     keys : C!Keys \cup {<<>>}, pattern : C!Pattern \cup {None}, next : {1, 2},
     since : 0 .. WaitTimeout + 1, asked : 0 .. ReadTimeout,
     said : {None, "error", "done", "found", "timeout"}, code : {0, 1}]

LEMMA TypesByClient ==
    ASSUME C!TypeOK, UNCHANGED <<screen, entered>>, cmd' \in Commands, cmd'.n >= cmd.n,
           calls' \in [C!Command -> {None} \cup C!ToolCall],
           stage' \in {"idle", "call", "await", "pause", "sleep"},
           stage' = "await" => calls'[cmd'.n] # None
    PROVE  C!TypeOK'
<1>1. /\ entered \in [Session -> Seq([by : 1 .. cmd.n, key : C!Key])]
      /\ screen \in [Session -> SUBSET C!Text] /\ cmd \in Commands
  BY DEF C!TypeOK, Commands
<1>2. cmd.n \in Nat /\ cmd'.n \in Nat
  BY <1>1, CtlAssumption DEF C!ConstantsOk, Commands
<1>3. [by : 1 .. cmd.n, key : C!Key] \subseteq [by : 1 .. cmd'.n, key : C!Key]
  BY <1>2
<1>4. Seq([by : 1 .. cmd.n, key : C!Key]) \subseteq Seq([by : 1 .. cmd'.n, key : C!Key])
  <2> SUFFICES ASSUME NEW A, NEW B, A \subseteq B, NEW q \in Seq(A) PROVE q \in Seq(B)
    BY <1>3
  <2>1. Len(q) \in Nat /\ q \in [1 .. Len(q) -> B]
    OBVIOUS
  <2> QED BY <2>1
<1>5. entered \in [Session -> Seq([by : 1 .. cmd'.n, key : C!Key])]
  BY <1>1, <1>4
<1> QED BY <1>1, <1>5 DEF C!TypeOK, Commands

LEMMA CtlByRun ==
    ASSUME CtlInductive, NEW kind \in C!Kinds, NEW s \in Session,
           NEW keys \in IF kind = "send" THEN C!Keys ELSE {<<>>},
           NEW pattern \in IF kind = "wait" THEN C!Pattern ELSE {None},
           C!Run(kind, s, keys, pattern)
    PROVE  CtlInductive'
<1>1. C!TypeOK /\ CallsOK /\ WaitsOK
  BY DEF CtlInductive
<1>2. /\ cmd \in Commands /\ cmd.n \in Nat /\ cmd.n < MaxCommands /\ cmd.n + 1 \in C!Command
      /\ calls \in [C!Command -> {None} \cup C!ToolCall] /\ MaxCommands \in Nat
      /\ None \notin C!Kinds
  BY <1>1, CtlAssumption DEF C!ConstantsOk, C!TypeOK, Commands, C!Run, C!Command
<1>3. /\ UNCHANGED <<table, screen, entered, calls>> /\ seen' = screen[s]
      /\ stage' \in {"call", "idle"}
  BY DEF C!Run, C!worldVars
<1>4. /\ cmd' \in Commands /\ cmd'.n = cmd.n + 1 /\ cmd'.kind = kind /\ cmd'.session = s
      /\ cmd'.keys = keys /\ cmd'.next = 1
      /\ stage' = "idle" => cmd'.code = 1 /\ cmd'.said = "error"
  <2>1. keys \in C!Keys \cup {<<>>}
    BY DEF C!Keys
  <2>2. 0 \in 0 .. WaitTimeout + 1 /\ 0 \in 0 .. ReadTimeout
    BY CtlAssumption DEF C!ConstantsOk
  <2> DEFINE run == C!Asked(kind, s, keys, pattern)
             failed == [run EXCEPT !.said = "error", !.code = 1]
  <2>3. cmd.n + 1 \in 0 .. MaxCommands
    BY <1>2 DEF C!Command
  <2>4. /\ run \in Commands /\ run.n = cmd.n + 1 /\ run.kind = kind /\ run.session = s
        /\ run.keys = keys /\ run.next = 1
    <3>1. run = [n |-> cmd.n + 1, kind |-> kind, session |-> s, keys |-> keys,
                 pattern |-> pattern, next |-> 1, since |-> 0, asked |-> 0, said |-> None, code |-> 0]
      BY DEF C!Asked
    <3>2. run \in Commands
      BY <3>1, <2>1, <2>2, <2>3 DEF Commands
    <3> HIDE DEF run
    <3> QED BY <3>1, <3>2
  <2>5. \/ stage' = "call" /\ cmd' = run
        \/ stage' = "idle" /\ cmd' = failed
    BY DEF C!Run
  <2> HIDE DEF run
  <2>6. /\ failed \in Commands /\ failed.n = run.n /\ failed.kind = run.kind
        /\ failed.session = run.session /\ failed.keys = run.keys /\ failed.next = run.next
        /\ failed.code = 1 /\ failed.said = "error"
    BY <2>4 DEF Commands
  <2> HIDE DEF failed
  <2> QED BY <2>4, <2>5, <2>6
<1>5. calls[cmd.n + 1] = None
  BY <1>1, <1>2 DEF CallsOK
<1>6. ~Called' /\ calls'[cmd'.n] = None
  BY <1>3, <1>4, <1>5 DEF Called, Call
<1>7. C!TypeOK'
  BY <1>1, <1>2, <1>3, <1>4, TypesByClient
<1>8. CallsOK'
  <2>1. \A m \in C!Command : calls'[m] # None => m <= cmd'.n /\ KeysFit(calls'[m])
    BY <1>1, <1>2, <1>3, <1>4 DEF CallsOK, C!Command
  <2>2. cmd'.kind # "send" => cmd'.keys = <<>>
    BY <1>4
  <2> QED BY <2>1, <2>2, <1>2, <1>3, <1>4, <1>6 DEF CallsOK
<1>9. SendsOK'
  <2> SUFFICES ASSUME kind = "send" PROVE SendsOK'
    BY <1>4 DEF SendsOK
  <2>1. keys \in C!Keys /\ 1 \in DOMAIN keys
    BY DEF C!Keys
  <2>2. entered[s] \in Seq(Stroke(cmd.n))
    BY <1>1 DEF C!TypeOK, Stroke
  <2>3. C!TypesFirst(entered[s], cmd.n + 1, keys, 0)
    BY <1>2, <2>2, NothingTyped
  <2>4. C!TypedFirst(0)'
    BY <2>3, <1>3, <1>4 DEF C!TypedFirst
  <2>5. 0 \in 0 .. Len(keys) /\ 1 - 1 = 0
    BY <2>1, KeysOfSend
  <2>6. \E k \in 0 .. Len(cmd'.keys) : C!TypedFirst(k)'
    BY <2>4, <2>5, <1>4
  <2>7. stage' \in {"call", "pause"} => C!TypedFirst(cmd.next - 1)'
    BY <2>3, <2>5, <1>3, <1>4 DEF C!TypedFirst
  <2> QED BY <2>1, <2>6, <2>7, <1>4, <1>6 DEF SendsOK
<1>10. WaitsOK'
  BY <1>3, <1>4, <1>6 DEF WaitsOK, C!FoundWasShown, C!Found
<1> QED BY <1>7, <1>8, <1>9, <1>10 DEF CtlInductive

(* What a step of the client leaves alone, and what it makes of the call.  *)
LEMMA CtlByCall ==
    ASSUME CtlInductive, C!call_tool
    PROVE  CtlInductive'
<1>1. C!TypeOK /\ CallsOK /\ SendsOK /\ WaitsOK
  BY DEF CtlInductive
<1>2. /\ cmd \in Commands /\ cmd.n \in Nat /\ cmd.n \in C!Command
      /\ calls \in [C!Command -> {None} \cup C!ToolCall]
      /\ cmd.kind \in C!Kinds /\ cmd.session \in Session
      /\ stage = "call" /\ stage' = "await" /\ calls[cmd.n] = None
      /\ UNCHANGED <<table, screen, entered, seen>>
      /\ None \notin C!ToolCall /\ None \notin C!Kinds
  BY <1>1, CtlAssumption
     DEF C!ConstantsOk, C!TypeOK, CallsOK, C!call_tool, C!Client, C!worldVars, C!Command, Commands
<1> DEFINE ks == IF cmd.kind = "rate_limit" THEN <<"a", "prompt">>
                 ELSE IF cmd.keys = <<>> THEN <<>> ELSE <<cmd.keys[cmd.next]>>
           new == [tool |-> C!ToolOf(cmd.kind), session |-> cmd.session, keys |-> ks,
                   left |-> None, result |-> None]
<1>3. /\ cmd.kind = "send" => ks = <<cmd.keys[cmd.next]>> /\ cmd.keys[cmd.next] \in C!Key
      /\ cmd.kind = "rate_limit" => ks = <<"a", "prompt">>
      /\ cmd.kind \notin {"send", "rate_limit"} => ks = <<>>
  <2>1. CASE cmd.kind = "send"
    <3>1. cmd.keys \in C!Keys /\ cmd.next \in DOMAIN cmd.keys
      BY <2>1, <1>1 DEF SendsOK
    <3>2. cmd.keys # <<>> /\ cmd.keys[cmd.next] \in C!Key
      BY <3>1, KeysOfSend
    <3> QED BY <2>1, <3>2
  <2>2. CASE cmd.kind # "send"
    BY <2>2, <1>1 DEF CallsOK
  <2> QED BY <2>1, <2>2
<1> HIDE DEF ks
<1>4. ks \in {<<>>, <<"a", "prompt">>} \cup {<<k>> : k \in C!Key}
  BY <1>3
<1>5. /\ new \in C!ToolCall /\ new.tool = C!ToolOf(cmd.kind) /\ new.session = cmd.session
      /\ new.keys = ks /\ new.result = None
  BY <1>2, <1>4, ToolsOf DEF C!ToolCall
<1>6. calls' = [calls EXCEPT ![cmd.n] = new]
  BY DEF C!call_tool, ks
<1> HIDE DEF new
<1>7. KeysFit(new)
  BY <1>2, <1>3, <1>5, ToolsOf DEF KeysFit
<1>8. /\ cmd' \in Commands /\ cmd'.n = cmd.n /\ cmd'.kind = cmd.kind /\ cmd'.session = cmd.session
      /\ cmd'.keys = cmd.keys /\ cmd'.next = cmd.next
  <2>1. cmd' = [cmd EXCEPT !.asked = 0]
    BY DEF C!call_tool
  <2>2. 0 \in 0 .. ReadTimeout
    BY CtlAssumption DEF C!ConstantsOk
  <2> QED BY <1>2, <2>1, <2>2 DEF Commands
<1>9. /\ calls' \in [C!Command -> {None} \cup C!ToolCall] /\ calls'[cmd.n] = new /\ new # None
      /\ \A m \in C!Command \ {cmd.n} : calls'[m] = calls[m]
  BY <1>2, <1>5, <1>6
<1>10. Called' /\ Call' = new
  BY <1>2, <1>8, <1>9 DEF Called, Call
<1>11. C!TypeOK'
  BY <1>1, <1>2, <1>8, <1>9, TypesByClient
<1>12. CallsOK'
  <2>1. \A m \in C!Command : calls'[m] # None => m <= cmd'.n /\ KeysFit(calls'[m])
    BY <1>1, <1>2, <1>7, <1>8, <1>9 DEF CallsOK
  <2> QED BY <2>1, <1>1, <1>2, <1>5, <1>8, <1>10 DEF CallsOK
<1>13. SendsOK'
  <2> SUFFICES ASSUME cmd.kind = "send" PROVE SendsOK'
    BY <1>8 DEF SendsOK
  <2>1. /\ \A k \in 0 .. Len(cmd.keys) : C!TypedFirst(k) => C!TypedFirst(k)'
        /\ C!TypedFirst(cmd.next - 1) => C!TypedFirst(cmd.next - 1)'
    BY <1>2, <1>8 DEF C!TypedFirst
  <2>2. \E k \in 0 .. Len(cmd'.keys) : C!TypedFirst(k)'
    BY <2>1, <1>1, <1>8 DEF SendsOK
  <2>3. C!TypedFirst(cmd.next - 1)'
    BY <2>1, <1>1, <1>2 DEF SendsOK
  <2> QED BY <2>2, <2>3, <1>1, <1>2, <1>3, <1>5, <1>8, <1>10 DEF SendsOK
<1>14. WaitsOK'
  BY <1>1, <1>2, <1>5, <1>8, <1>10 DEF WaitsOK, C!FoundWasShown, C!Found
<1> QED BY <1>11, <1>12, <1>13, <1>14 DEF CtlInductive

(* What a command makes of an answer, by the kind of the command.          *)
LEMMA Conclusions ==
    ASSUME NEW result, cmd.kind \in C!Kinds, C!Concluded(result)
    PROVE  /\ cmd.kind = "send" => C!Sent(result)
           /\ cmd.kind = "wait" => C!Looked(result)
           /\ cmd.kind \notin {"send", "wait"} =>
                  \E c \in {0, 1}, said \in {None, "error", "done"} : C!exit(c, said)
<1>1. CASE cmd.kind = "send"
  BY <1>1, ZenonT(30) DEF C!Concluded
<1>2. CASE cmd.kind = "wait"
  BY <1>2, ZenonT(30) DEF C!Concluded
<1>3. CASE cmd.kind \in {"kill", "resize"}
  <2>1. C!exit(0, "done")
    BY <1>3, ZenonT(30) DEF C!Concluded
  <2> QED BY <2>1, <1>3
<1>4. CASE cmd.kind = "has_session"
  <2>1. C!exit(1, None)
    BY <1>4, ZenonT(30) DEF C!Concluded
  <2> QED BY <2>1, <1>4
<1>5. CASE cmd.kind \notin {"send", "wait", "kill", "resize", "has_session"}
  <2>1. C!exit(0, IF result.ok THEN None ELSE "error")
    BY <1>5, ZenonT(30) DEF C!Concluded
  <2> QED BY <2>1, <1>5
<1> QED BY <1>1, <1>2, <1>3, <1>4, <1>5

(* A step of the client that ends the command, goes on or looks again      *)
(* types nothing; the call stays, or it is answered and gone.              *)
LEMMA CtlByClient ==
    ASSUME CtlInductive, C!TimesOut \/ C!Receive \/ C!Resume
    PROVE  CtlInductive'
<1>1. C!TypeOK /\ CallsOK /\ SendsOK /\ WaitsOK
  BY DEF CtlInductive
<1>2. /\ cmd \in Commands /\ cmd.n \in Nat /\ cmd.n \in C!Command /\ cmd.kind \in C!Kinds
      /\ calls \in [C!Command -> {None} \cup C!ToolCall] /\ cmd.session \in Session
      /\ UNCHANGED <<table, screen, entered, seen>>
  <2>1. stage # "idle" /\ UNCHANGED <<table, screen, entered, seen>>
    BY DEF C!TimesOut, C!Receive, C!Resume, C!Client, C!worldVars
  <2>2. cmd \in Commands /\ calls \in [C!Command -> {None} \cup C!ToolCall]
    BY <1>1 DEF C!TypeOK, Commands
  <2>3. cmd.n \in C!Command /\ cmd.kind \in C!Kinds
    BY <1>1, <2>1 DEF CallsOK
  <2> QED BY <2>1, <2>2, <2>3, CtlAssumption DEF Commands, C!Command, C!ConstantsOk
<1> DEFINE Ended(c, said) ==
               /\ stage' = "idle" /\ cmd' \in Commands /\ cmd'.next = cmd.next
               /\ cmd'.code = c /\ cmd'.said = said
           Same ==
               /\ cmd'.n = cmd.n /\ cmd'.kind = cmd.kind
               /\ cmd'.session = cmd.session /\ cmd'.keys = cmd.keys
               /\ cmd'.pattern = cmd.pattern
<1>3. ASSUME NEW c \in {0, 1}, NEW said \in {None, "error", "done", "found", "timeout"}, C!exit(c, said)
      PROVE  Ended(c, said) /\ Same
  BY <1>2, <1>3 DEF C!exit, Commands
<1>4. ASSUME Same
      PROVE  \A k : C!TypesFirst(entered'[cmd'.session], cmd'.n, cmd'.keys, k) <=> C!TypedFirst(k)
  BY <1>4, <1>2 DEF C!TypedFirst
<1>5. CASE C!TimesOut
  <2>1. /\ stage = "await" /\ C!exit(1, "error") /\ UNCHANGED calls /\ Call.result = None
    BY <1>5 DEF C!TimesOut, Call
  <2>2. Ended(1, "error") /\ Same
    BY <2>1, <1>3
  <2>3. Called /\ Called' /\ Call' = Call
    BY <2>1, <2>2, <1>1, <1>2 DEF CallsOK, Called, Call
  <2>4. C!TypeOK'
    BY <2>1, <2>2, <1>1, <1>2, TypesByClient
  <2>5. CallsOK'
    BY <2>1, <2>2, <2>3, <1>1, <1>2 DEF CallsOK
  <2>6. SendsOK'
    <3> SUFFICES ASSUME cmd.kind = "send" PROVE SendsOK'
      BY <2>2 DEF SendsOK
    <3>1. \E k \in 0 .. Len(cmd'.keys) : C!TypedFirst(k)'
      BY <1>1, <1>4, <2>2 DEF SendsOK, C!TypedFirst
    <3>2. C!TypedFirst(cmd.next - 1)'
      BY <1>1, <1>4, <2>1, <2>2, <2>3 DEF SendsOK, C!TypedFirst
    <3> QED BY <3>1, <3>2, <1>1, <2>1, <2>2, <2>3 DEF SendsOK
  <2>7. WaitsOK'
    BY <1>1, <1>2, <2>1, <2>2, <2>3 DEF WaitsOK, C!FoundWasShown, C!Found
  <2> QED BY <2>4, <2>5, <2>6, <2>7 DEF CtlInductive
<1>6. CASE C!Receive
  <2> DEFINE result == Call.result
  <2>1. /\ stage = "await" /\ result # None /\ C!Concluded(result)
        /\ calls' = [calls EXCEPT ![cmd.n] = None] /\ Called
    BY <1>6, <1>1 DEF C!Receive, CallsOK, Call
  <2>2. /\ cmd.kind = "send" => C!Sent(result)
        /\ cmd.kind = "wait" => C!Looked(result)
        /\ cmd.kind \notin {"send", "wait"} =>
               \E c \in {0, 1}, said \in {None, "error", "done"} : C!exit(c, said)
    BY <2>1, <1>2, Conclusions
  <2>3. /\ calls' \in [C!Command -> {None} \cup C!ToolCall] /\ calls'[cmd.n] = None
        /\ \A m \in C!Command \ {cmd.n} : calls'[m] = calls[m]
    BY <2>1, <1>2
  <2> DEFINE Paused ==
                 /\ stage' = "pause" /\ cmd' \in Commands
                 /\ cmd.next < Len(cmd.keys) /\ cmd'.next = cmd.next + 1
             Typing ==
                 \/ \E said \in {None, "error"} : Ended(1, said)
                 \/ Ended(0, None) /\ C!TypedFirst(Len(cmd.keys))
                 \/ Paused /\ C!TypedFirst(cmd.next)
             Looking ==
                 \/ Ended(0, "found") /\ cmd.pattern \in seen \cup C!Framing
                 \/ Ended(1, "timeout")
                 \/ stage' = "sleep" /\ cmd' = cmd
  <2>4. cmd.kind = "send" => Same /\ Typing
    <3> SUFFICES ASSUME cmd.kind = "send" PROVE Same /\ Typing
      OBVIOUS
    <3>1. cmd.keys \in C!Keys /\ cmd.next \in DOMAIN cmd.keys /\ C!Sent(result)
      BY <1>1, <2>2 DEF SendsOK
    <3>2. cmd.next \in 1 .. Len(cmd.keys) /\ Len(cmd.keys) \in {1, 2}
      BY <3>1, KeysOfSend
    <3>3. CASE ~result.ok
      <4>1. C!exit(1, "error")
        BY <3>1, <3>3 DEF C!Sent
      <4> QED BY <4>1, <1>3
    <3>4. CASE result.ok
      <4>1. C!TypedFirst(cmd.next)
        BY <3>4, <1>1, <2>1 DEF SendsOK
      <4>2. CASE cmd.next < Len(cmd.keys)
        <5>1. stage' = "pause" /\ cmd' = [cmd EXCEPT !.next = cmd.next + 1]
          BY <4>2, <3>1, <3>4 DEF C!Sent
        <5>2. cmd.next + 1 \in {1, 2}
          <6>1. cmd.next \in {1, 2}
            BY <1>2 DEF Commands
          <6>2. \A i \in {1, 2}, l \in {1, 2} : i < l => i + 1 \in {1, 2}
            OBVIOUS
          <6> QED BY <6>1, <6>2, <4>2, <3>2
        <5>3. Paused /\ Same
          BY <4>2, <5>1, <5>2, <1>2 DEF Commands
        <5> QED BY <5>3, <4>1
      <4>3. CASE ~(cmd.next < Len(cmd.keys))
        <5>1. C!exit(0, None)
          BY <4>3, <3>1, <3>4 DEF C!Sent
        <5>2. cmd.next = Len(cmd.keys)
          BY <4>3, <3>2
        <5> QED BY <5>1, <5>2, <4>1, <1>3
      <4> QED BY <4>2, <4>3
    <3> QED BY <3>3, <3>4
  <2>5. cmd.kind = "wait" => Same /\ Looking
    <3> SUFFICES ASSUME cmd.kind = "wait", C!Looked(result) PROVE Same /\ Looking
      BY <2>2
    <3>1. result.has \subseteq seen \cup C!Framing
      BY <1>1, <2>1 DEF WaitsOK
    <3>2. CASE cmd.pattern \in result.has
      <4>1. C!exit(0, "found")
        BY <3>2 DEF C!Looked
      <4> QED BY <4>1, <3>1, <3>2, <1>3
    <3>3. CASE cmd.pattern \notin result.has /\ C!Expired
      <4>1. C!exit(1, "timeout")
        BY <3>3 DEF C!Looked
      <4> QED BY <4>1, <1>3
    <3>4. CASE cmd.pattern \notin result.has /\ ~C!Expired
      BY <3>4 DEF C!Looked
    <3> QED BY <3>2, <3>3, <3>4
  <2>6. cmd.kind \notin {"send", "wait"} =>
            Same /\ \E c \in {0, 1}, said \in {None, "error", "done"} : Ended(c, said)
    BY <2>2, <1>3
  <2>7. /\ Same /\ cmd' \in Commands /\ stage' \in {"idle", "pause", "sleep"}
        /\ stage' = "sleep" => cmd.kind = "wait"
    BY <2>4, <2>5, <2>6, <1>2
  <2>8. ~Called' /\ calls'[cmd'.n] = None
    BY <2>3, <2>7 DEF Called, Call
  <2>9. C!TypeOK'
    BY <2>3, <2>7, <1>1, <1>2, TypesByClient
  <2>10. CallsOK'
    <3>1. \A m \in C!Command : calls'[m] # None => m <= cmd'.n /\ KeysFit(calls'[m])
      BY <2>3, <2>7, <1>1 DEF CallsOK
    <3> QED BY <3>1, <2>7, <2>8, <1>1, <1>2 DEF CallsOK
  <2>11. SendsOK'
    <3> SUFFICES ASSUME cmd.kind = "send" PROVE SendsOK'
      BY <2>7 DEF SendsOK
    <3>1. \E k \in 0 .. Len(cmd'.keys) : C!TypedFirst(k)'
      BY <1>1, <1>4, <2>7 DEF SendsOK, C!TypedFirst
    <3>2. cmd.keys \in C!Keys /\ cmd.next \in DOMAIN cmd.keys /\ Typing
      BY <1>1, <2>4 DEF SendsOK
    <3>3. /\ cmd.next \in 1 .. Len(cmd.keys) /\ Len(cmd.keys) \in {1, 2}
          /\ DOMAIN cmd.keys = 1 .. Len(cmd.keys)
      BY <3>2, KeysOfSend
    <3>4. cmd'.next \in DOMAIN cmd'.keys
      <4>1. cmd'.next \in 1 .. Len(cmd.keys)
        BY <3>2, <3>3
      <4> QED BY <4>1, <2>7, <3>3
    <3>5. stage' = "pause" => C!TypedFirst(cmd.next - 1)'
      <4> SUFFICES ASSUME stage' = "pause" PROVE C!TypedFirst(cmd.next - 1)'
        OBVIOUS
      <4>1. C!TypedFirst(cmd.next) /\ cmd'.next - 1 = cmd.next
        BY <3>2, <3>3
      <4> QED BY <4>1, <1>4, <2>7 DEF C!TypedFirst
    <3>6. stage' = "idle" /\ cmd'.code = 0 => C!TypedFirst(Len(cmd.keys))'
      BY <3>2, <1>4, <2>7 DEF C!TypedFirst
    <3> QED BY <3>1, <3>2, <3>4, <3>5, <3>6, <2>7, <2>8 DEF SendsOK
  <2>12. WaitsOK'
    BY <2>5, <2>7, <2>8, <1>1, <1>2 DEF WaitsOK, C!FoundWasShown, C!Found
  <2> QED BY <2>9, <2>10, <2>11, <2>12 DEF CtlInductive
<1>7. CASE C!Resume
  <2>1. stage \in {"pause", "sleep"} /\ stage' = "call" /\ UNCHANGED <<cmd, calls>>
    BY <1>7 DEF C!Resume
  <2>2. (Called' <=> Called) /\ Call' = Call
    BY <2>1 DEF Called, Call
  <2>3. C!TypeOK'
    BY <2>1, <1>1, <1>2, TypesByClient
  <2>4. CallsOK'
    BY <2>1, <2>2, <1>1, <1>2 DEF CallsOK
  <2>5. SendsOK'
    BY <2>1, <2>2, <1>1, <1>2 DEF SendsOK, CallsOK, C!TypedFirst
  <2>6. WaitsOK'
    BY <2>1, <2>2, <1>1, <1>2 DEF WaitsOK, C!FoundWasShown, C!Found
  <2> QED BY <2>3, <2>4, <2>5, <2>6 DEF CtlInductive
<1> QED BY <1>5, <1>6, <1>7

-----------------------------------------------------------------------------
(* Initially, and in every step of the instance                            *)

LEMMA CtlAtFirst ==
    ASSUME C!Init
    PROVE  CtlInductive
<1>1. /\ None \notin C!Kinds /\ MaxCommands \in Nat /\ Root \in Session
      /\ 0 \in 0 .. WaitTimeout + 1 /\ 0 \in 0 .. ReadTimeout
  BY CtlAssumption DEF C!ConstantsOk
<1>2. /\ cmd = C!NoCommand /\ stage = "idle" /\ seen = {}
      /\ screen = [s \in Session |-> {}] /\ entered = [s \in Session |-> <<>>]
      /\ calls = [n \in C!Command |-> None]
  BY DEF C!Init
<1>3. cmd \in Commands /\ cmd.n = 0 /\ cmd.kind = None /\ cmd.keys = <<>> /\ cmd.session = Root
  BY <1>1, <1>2 DEF C!NoCommand, Commands
<1>4. C!TypeOK
  <2>1. <<>> \in Seq([by : 1 .. cmd.n, key : C!Key])
    OBVIOUS
  <2>2. entered \in [Session -> Seq([by : 1 .. cmd.n, key : C!Key])]
    BY <1>2, <2>1
  <2> QED BY <1>2, <1>3, <2>2 DEF C!TypeOK, Commands
<1>5. ~Called
  BY <1>2, <1>3 DEF Called, C!Command
<1>6. CallsOK
  BY <1>2, <1>3, <1>5 DEF CallsOK
<1>7. SendsOK
  BY <1>1, <1>3 DEF SendsOK, C!Kinds
<1>8. WaitsOK
  BY <1>1, <1>2, <1>3, <1>5 DEF WaitsOK, C!FoundWasShown, C!Found, C!Kinds
<1> QED BY <1>4, <1>6, <1>7, <1>8 DEF CtlInductive

LEMMA CtlKept ==
    ASSUME CtlInductive, C!Next \/ UNCHANGED ctl
    PROVE  CtlInductive'
<1>1. CASE UNCHANGED ctl
  <2>1. UNCHANGED <<screen, entered, cmd, stage, calls, seen>>
    BY <1>1 DEF ctl
  <2>2. /\ C!TypeOK' /\ SameCommand /\ (\A m \in C!Command : SameCall(m))
        /\ seen \subseteq seen' /\ screen'[cmd.session] \subseteq seen'
    BY <2>1 DEF CtlInductive, C!TypeOK, SameCommand, SameCall, WaitsOK
  <2> QED BY <2>1, <2>2, CtlByWorld
<1>2. CASE C!Next
  <2>1. CASE C!Tick
    BY <2>1, CtlByTime
  <2>2. CASE \E s \in Session :
                 C!SessionExits(s) \/ \E texts \in {{}, {"p"}, {"limit"}} : C!Shows(s, texts)
    BY <2>2, CtlBySessions
  <2>3. CASE \E n \in C!Command : C!Tools(n)
    BY <2>3, CtlByTools
  <2>4. CASE \E kind \in C!Kinds, s \in Session :
                 \E keys \in (IF kind = "send" THEN C!Keys ELSE {<<>>}),
                    pattern \in (IF kind = "wait" THEN C!Pattern ELSE {None}) :
                        C!Run(kind, s, keys, pattern)
    BY <2>4, CtlByRun
  <2>5. CASE C!call_tool
    BY <2>5, CtlByCall
  <2>6. CASE C!TimesOut \/ C!Receive \/ C!Resume
    BY <2>6, CtlByClient
  <2> QED BY <1>2, <2>1, <2>2, <2>3, <2>4, <2>5, <2>6 DEF C!Next
<1> QED BY <1>1, <1>2

(* What a command of tttt-ctl reports was done: a send that succeeds has   *)
(* typed all of its keys, once and in order, one that fails has typed the  *)
(* first of them at most; a pattern that was found was shown.              *)
THEOREM ReportsAreTrue == C!Spec \/ MCSpec => []CtlInv
<1>1. C!Init => CtlInductive
  BY CtlAtFirst
<1>2. CtlInductive /\ [C!Next]_C!vars => CtlInductive'
  BY CtlKept DEF ctl, C!vars, C!worldVars
<1>3. CtlInductive => CtlInv
  BY DEF CtlInductive, SendsOK, WaitsOK, CtlInv, C!CtlInv, C!SentIsTyped
<1>4. MCInit => C!Init
  BY DEF MCInit
<1>5. [MCNext]_<<part, vars, ctl>> => [C!Next]_C!vars
  BY DEF MCNext, ctl, C!vars, C!worldVars
<1> QED BY <1>1, <1>2, <1>3, <1>4, <1>5, PTL DEF C!Spec, MCSpec
=============================================================================
