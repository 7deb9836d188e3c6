----------------------------- MODULE WatchProofs -----------------------------
(***************************************************************************)
(* Proofs about Watch for any number of watchers, any pattern, screen and  *)
(* timeouts: what a one-shot watcher may do, and that silence is reported  *)
(* only of a silent child.                                                 *)
(***************************************************************************)
EXTENDS Watch, SequenceTheorems, WellFoundedInduction, TLAPS

-----------------------------------------------------------------------------
(* The operators the model is built from *)

LEMMA HasLeast ==
    ASSUME NEW T, T \subseteq Nat, T # {}
    PROVE  \E n \in T : \A k \in T : n <= k
<1> DEFINE R == OpToRel(<, Nat)
<1>1. IsWellFoundedOn(R, Nat)
  BY NatLessThanWellFounded
<1>2. \A x, y \in Nat : <<x, y>> \in R <=> x < y
  BY DEF OpToRel
<1> HIDE DEF R
<1>3. PICK x \in T : \A y \in T : ~(<<y, x>> \in R)
  BY <1>1, WFMin
<1>4. ASSUME NEW y \in T PROVE x <= y
  <2>1. ~(<<y, x>> \in R) /\ x \in Nat /\ y \in Nat
    BY <1>3
  <2>2. ~(y < x)
    BY <1>2, <2>1
  <2> QED BY <2>1, <2>2
<1> QED BY <1>4

LEMMA MinIsLeast ==
    ASSUME NEW T, T \subseteq Nat, T # {}
    PROVE  Min(T) \in T /\ \A k \in T : Min(T) <= k
<1>1. \E n \in T : \A k \in T : n <= k
  BY HasLeast
<1> QED BY <1>1 DEF Min

LEMMA SubSeqOf ==
    ASSUME NEW S, NEW q \in Seq(S), NEW m \in 1 .. Len(q) + 1, NEW n \in 0 .. Len(q)
    PROVE  /\ SubSeq(q, m, n) \in Seq(S)
           /\ Len(SubSeq(q, m, n)) = IF m <= n THEN n - m + 1 ELSE 0
           /\ \A i \in 1 .. n - m + 1 : SubSeq(q, m, n)[i] = q[m + i - 1]
<1>1. Len(q) \in Nat
  BY LenProperties
<1>2. \A i \in m .. n : q[i] \in S
  BY <1>1, ElementOfSeq
<1> QED BY <1>1, <1>2, SubSeqProperties

Text == {"o", "p"}

(* What is shown fits the screen and holds no clear.                       *)
LEMMA ShownType ==
    ASSUME NEW s \in Seq(Text), NEW text \in Seq(Mark)
    PROVE  Shown(s, text) \in Seq(Text) /\ Len(Shown(s, text)) <= Height
<1> DEFINE all == s \o text
           n == Len(all)
           gone == {k \in 0 .. n : n - k <= Height /\ \A i \in k + 1 .. n : all[i] # "c"}
           start == Min(gone)
<1>1. s \in Seq({"o", "p", "c"}) /\ text \in Seq({"o", "p", "c"})
  <2>1. Text \subseteq {"o", "p", "c"}
    BY DEF Text
  <2> QED BY <2>1, MarkAssumption, SeqMonotonic
<1>2. all \in Seq({"o", "p", "c"}) /\ n \in Nat
  BY <1>1, ConcatProperties, LenProperties
<1>3. Height \in Nat
  BY BoundAssumption
<1> HIDE DEF all, n
<1>4. n \in gone
  <2>1. n \in 0 .. n /\ n - n <= Height /\ n + 1 .. n = {}
    BY <1>2, <1>3
  <2> QED BY <2>1
<1>5. start \in gone
  <2>1. gone \subseteq Nat /\ gone # {}
    <3>1. gone \subseteq 0 .. n /\ 0 .. n \subseteq Nat
      BY <1>2
    <3> QED BY <1>4, <3>1
  <2> HIDE DEF gone
  <2>2. Min(gone) \in gone
    BY <2>1, MinIsLeast
  <2> QED BY <2>2
<1> HIDE DEF start
<1>6. start \in 0 .. n /\ n - start <= Height /\ \A i \in start + 1 .. n : all[i] # "c"
  BY <1>5
<1>7. Shown(s, text) = SubSeq(all, start + 1, n)
  BY DEF Shown, all, n, start
<1> HIDE DEF gone
<1> DEFINE kept == SubSeq(all, start + 1, n)
<1>8. /\ kept \in Seq({"o", "p", "c"})
      /\ Len(kept) = IF start + 1 <= n THEN n - (start + 1) + 1 ELSE 0
      /\ \A i \in 1 .. n - (start + 1) + 1 : kept[i] = all[(start + 1) + i - 1]
  BY <1>2, <1>6, SubSeqOf DEF n
<1>9. Len(kept) = n - start
  BY <1>2, <1>6, <1>8
<1>10. ASSUME NEW i \in 1 .. Len(kept) PROVE kept[i] \in Text
  <2>1. kept[i] = all[start + i] /\ start + i \in start + 1 .. n
    BY <1>2, <1>6, <1>8, <1>9
  <2>2. kept[i] \in {"o", "p", "c"}
    BY <1>8, ElementOfSeq
  <2> QED BY <1>6, <2>1, <2>2 DEF Text
<1> HIDE DEF kept
<1>11. kept \in Seq(Text)
  <2>1. kept \in [1 .. Len(kept) -> Text] /\ Len(kept) \in Nat
    BY <1>8, <1>10, LenProperties
  <2> QED BY <2>1, SeqDef
<1> QED BY <1>2, <1>3, <1>6, <1>7, <1>9, <1>11 DEF kept

Bounds == /\ Height \in Nat \ {0} /\ ReadMax \in Nat \ {0} /\ Timeout \in Nat \ {0}
          /\ Threshold \in Nat \ {0}
          /\ MaxOutput \in Nat /\ MaxFired \in Nat /\ MaxReloads \in Nat

LEMMA NaturalBounds == Bounds
BY BoundAssumption DEF Bounds

-----------------------------------------------------------------------------
(* The child, its terminal and the clocks *)

TerminalOK ==
    /\ child \in {"running", "exited"} /\ written \in 0 .. MaxOutput
    /\ pipe \in Seq(Mark) /\ Len(pipe) <= written
    /\ silence \in 0 .. Threshold /\ quiet \in 0 .. Threshold
    /\ status \in {"running", "exited", "gone"} /\ (status # "running" => child = "exited")
    /\ screen \in Seq(Text) /\ Len(screen) <= Height
    /\ loop \in {"pump", "check"} /\ reloads \in 0 .. MaxReloads

(* Once all that the child has written is read, the last read is not       *)
(* longer ago than the last write.                                         *)
QuietAfterSilence == status = "running" /\ pipe = <<>> => quiet <= silence

(* A registration: an unused one has not fired, and a one-shot one that    *)
(* has is removed.                                                         *)
WatchRecord ==
    [state : {"unset", "set", "removed"}, whole : BOOLEAN, oneShot : BOOLEAN,
     last : {None} \cup Seq(Text),
     ready : BOOLEAN, restored : BOOLEAN]

Spent(ws, fs) ==
    \A w \in Watcher : /\ ws[w].last # None => Len(ws[w].last) <= Height
                       /\ ws[w].state = "unset" => fs[w] = 0
                       /\ ws[w].oneShot => fs[w] = 0 \/ (fs[w] = 1 /\ ws[w].state = "removed")

WatchersOK ==
    /\ watch \in [Watcher -> WatchRecord] /\ fired \in [Watcher -> 0 .. MaxFired]
    /\ Spent(watch, fired)

(* A call that looks is of a kind, and the client holds the sessions only  *)
(* for a look.                                                             *)
CallOK(c) ==
    /\ DOMAIN c = {"kind", "pc", "left", "last", "stable"}
    /\ c.kind \in Kind \cup {None}
    /\ c.pc \in {"none", "look", "judge", "sleep", "answered", "gave_up"}
    /\ c.left \in 0 .. Timeout /\ c.stable \in 0 .. Threshold
    /\ c.kind \in Kind <=> c.pc \in {"look", "judge", "sleep"}

CallsOK ==
    /\ CallOK(call)
    /\ holder \in {None, "loop", "client"} /\ (holder = "client" => call.pc = "look")

WatchInductive == TerminalOK /\ QuietAfterSilence /\ WatchersOK /\ CallsOK

LEMMA EndedOK == ASSUME NEW o \in {"answered", "gave_up"} PROVE CallOK(Ended(o)) /\ Ended(o).pc = o
<1>1. 0 \in 0 .. Timeout /\ 0 \in 0 .. Threshold
  BY NaturalBounds DEF Bounds
<1> QED BY <1>1, NoneAssumption DEF CallOK, Ended, NoCall

LEMMA RegisteredOK ==
    ASSUME NEW a \in BOOLEAN, NEW b \in BOOLEAN
    PROVE  /\ Registered(a, b) \in WatchRecord
           /\ Registered(a, b).last = None /\ Registered(a, b).state = "set"
BY DEF Registered, WatchRecord

(* Registering an unused watcher keeps the registry as it should be.       *)
LEMMA SetupOK ==
    ASSUME NEW ws \in [Watcher -> WatchRecord], NEW fs, Spent(ws, fs),
           NEW new \in setup_startup_inject(ws)
    PROVE  new \in [Watcher -> WatchRecord] /\ Spent(new, fs)
<1>1. CASE new = ws
  BY <1>1
<1>2. ASSUME NEW x \in Watcher, ws[x] = Unset, new = [ws EXCEPT ![x] = Registered(TRUE, TRUE)]
      PROVE  new \in [Watcher -> WatchRecord] /\ Spent(new, fs)
  <2>1. /\ Registered(TRUE, TRUE) \in WatchRecord
        /\ Registered(TRUE, TRUE).last = None /\ Registered(TRUE, TRUE).state = "set"
    BY RegisteredOK
  <2>2. ws[x].state = "unset"
    BY <1>2 DEF Unset
  <2>3. fs[x] = 0
    BY <2>2 DEF Spent
  <2>4. \A w \in Watcher : new[w] = IF w = x THEN Registered(TRUE, TRUE) ELSE ws[w]
    BY <1>2
  <2>5. new \in [Watcher -> WatchRecord]
    BY <1>2, <2>1
  <2>6. Spent(new, fs)
    BY <2>1, <2>3, <2>4 DEF Spent
  <2> QED BY <2>5, <2>6
<1> QED BY <1>1, <1>2 DEF setup_startup_inject

LEMMA InitInductive == Init => WatchInductive
<1> SUFFICES ASSUME Init PROVE WatchInductive
  OBVIOUS
<1> USE NaturalBounds DEF Bounds
<1>1. <<>> \in Seq(Mark) /\ <<>> \in Seq(Text) /\ Len(<<>>) = 0
  BY EmptySeq
<1>2. TerminalOK /\ QuietAfterSilence
  BY <1>1 DEF Init, TerminalOK, QuietAfterSilence
<1>3. WatchersOK
  <2> DEFINE none == [w \in Watcher |-> Unset]
  <2>1. none \in [Watcher -> WatchRecord]
    BY DEF Unset, WatchRecord
  <2>2. fired \in [Watcher -> 0 .. MaxFired] /\ \A w \in Watcher : fired[w] = 0
    BY DEF Init
  <2>3. Spent(none, fired)
    BY <2>2 DEF Spent, Unset
  <2>4. watch \in setup_startup_inject(none)
    BY DEF Init
  <2> HIDE DEF none
  <2>5. watch \in [Watcher -> WatchRecord] /\ Spent(watch, fired)
    BY <2>1, <2>3, <2>4, SetupOK
  <2> QED BY <2>2, <2>5 DEF WatchersOK
<1>4. CallsOK
  BY NoneAssumption DEF Init, CallsOK, CallOK, NoCall
<1> QED BY <1>2, <1>3, <1>4 DEF WatchInductive

-----------------------------------------------------------------------------
(* What each step does to the terminal *)

Terminal == TerminalOK /\ QuietAfterSilence

(* Reading puts on the screen what it takes from the pipe, and the read is *)
(* what was quiet last.                                                    *)
LEMMA ReadTerminal ==
    ASSUME Terminal, ReadSome, UNCHANGED <<childVars, status, loop, reloads>>
    PROVE  Terminal'
<1> USE NaturalBounds DEF Bounds
<1> DEFINE n == IF Len(pipe) < ReadMax THEN Len(pipe) ELSE ReadMax
<1>1. Len(pipe) \in Nat /\ n \in 0 .. Len(pipe)
  BY LenProperties DEF Terminal, TerminalOK
<1>2. CASE status = "running" /\ n > 0
  <2>1. screen' = Shown(screen, SubSeq(pipe, 1, n)) /\ pipe' = SubSeq(pipe, n + 1, Len(pipe)) /\ quiet' = 0
    BY <1>2 DEF ReadSome
  <2> HIDE DEF n
  <2>2. SubSeq(pipe, 1, n) \in Seq(Mark)
    BY <1>1, <1>2, SubSeqOf DEF Terminal, TerminalOK
  <2>3. screen' \in Seq(Text) /\ Len(screen') <= Height
    BY <2>1, <2>2, ShownType DEF Terminal, TerminalOK
  <2>4. /\ SubSeq(pipe, n + 1, Len(pipe)) \in Seq(Mark)
        /\ Len(SubSeq(pipe, n + 1, Len(pipe)))
             = IF n + 1 <= Len(pipe) THEN Len(pipe) - (n + 1) + 1 ELSE 0
    BY <1>1, <1>2, SubSeqOf DEF Terminal, TerminalOK
  <2>5. pipe' \in Seq(Mark) /\ Len(pipe') <= Len(pipe)
    BY <1>1, <1>2, <2>1, <2>4
  <2>6. Len(pipe') <= written /\ Len(pipe') \in Nat
    BY <1>1, <2>5, LenProperties DEF Terminal, TerminalOK
  <2>7. TerminalOK'
    BY <2>1, <2>3, <2>5, <2>6 DEF Terminal, TerminalOK, childVars
  <2>8. QuietAfterSilence'
    BY <2>1 DEF Terminal, TerminalOK, QuietAfterSilence, childVars
  <2> QED BY <2>7, <2>8 DEF Terminal
<1>3. CASE ~(status = "running" /\ n > 0)
  <2>1. UNCHANGED <<screen, pipe, quiet>>
    BY <1>3 DEF ReadSome
  <2> QED BY <2>1 DEF Terminal, TerminalOK, QuietAfterSilence, childVars
<1> QED BY <1>2, <1>3

(* Nothing else that leaves the clocks alone lets the screen say more.     *)
LEMMA StatusTerminal ==
    ASSUME Terminal, status' = StatusNow, loop' \in {"pump", "check"},
           UNCHANGED <<childVars, pipe, screen, quiet, reloads>>
    PROVE  Terminal'
BY DEF Terminal, TerminalOK, QuietAfterSilence, StatusNow, childVars

LEMMA ClosedTerminal ==
    ASSUME Terminal, Closed, loop' = loop, UNCHANGED <<written, silence>>,
           quiet' \in 0 .. Threshold, reloads' \in 0 .. MaxReloads
    PROVE  Terminal'
<1>1. <<>> \in Seq(Mark) /\ <<>> \in Seq(Text) /\ Len(<<>>) = 0
  BY EmptySeq
<1> QED BY <1>1, NaturalBounds DEF Bounds, Closed, Terminal, TerminalOK, QuietAfterSilence

(* A reload starts the clock of the last read.                             *)
LEMMA ReloadTerminal ==
    ASSUME Terminal, Reload \/ RespawnRoot
    PROVE  Terminal'
<1> USE NaturalBounds DEF Bounds
<1>1. /\ reloads' \in 0 .. MaxReloads /\ quiet' = 0 /\ loop' = loop
      /\ UNCHANGED <<written, silence>>
  BY DEF Reload, RespawnRoot, ReloadWith, Terminal, TerminalOK
<1>2. <<>> \in Seq(Mark) /\ <<>> \in Seq(Text) /\ Len(<<>>) = 0
  BY EmptySeq
<1>3. CASE Closed
  BY <1>1, <1>3, ClosedTerminal
<1>4. CASE UNCHANGED <<status, child, pipe, screen>>
  BY <1>1, <1>4 DEF Terminal, TerminalOK, QuietAfterSilence
<1>5. CASE child' = "running" /\ pipe' = <<>> /\ screen' = <<>> /\ status' = "running"
  BY <1>1, <1>2, <1>5 DEF Terminal, TerminalOK, QuietAfterSilence
<1> QED BY <1>3, <1>4, <1>5 DEF Reload, RespawnRoot, ReloadWith

LEMMA ChildTerminal ==
    ASSUME Terminal, ChildWrites \/ ChildExits \/ Tick
    PROVE  Terminal'
<1> USE NaturalBounds DEF Bounds
<1>1. CASE ChildWrites
  <2>1. PICK m \in Mark : pipe' = Append(pipe, m)
    BY <1>1 DEF ChildWrites
  <2>2. pipe' \in Seq(Mark) /\ Len(pipe') = Len(pipe) + 1 /\ pipe' # <<>>
    BY <2>1, AppendProperties, EmptySeq DEF Terminal, TerminalOK
  <2>3. Len(pipe) \in Nat
    BY LenProperties DEF Terminal, TerminalOK
  <2> QED BY <1>1, <2>2, <2>3 DEF ChildWrites, Terminal, TerminalOK, QuietAfterSilence, sessionVars
<1>2. CASE ChildExits
  BY <1>2 DEF ChildExits, Terminal, TerminalOK, QuietAfterSilence, sessionVars
<1>3. CASE Tick
  <2>1. \A n \in 0 .. Threshold : Later(n) \in 0 .. Threshold
    BY DEF Later
  <2>2. \A m, n \in 0 .. Threshold : m <= n => Later(m) <= Later(n)
    BY DEF Later
  <2> QED BY <1>3, <2>1, <2>2 DEF Tick, Terminal, TerminalOK, QuietAfterSilence
<1> QED BY <1>1, <1>2, <1>3

LEMMA TerminalStep ==
    ASSUME Terminal, [Next]_vars
    PROVE  Terminal'
<1>1. CASE ChildWrites \/ ChildExits \/ Tick
  BY <1>1, ChildTerminal
<1>2. CASE LoopReads \/ ClientReads \/ ClientPumpsOn
  BY <1>2, ReadTerminal DEF LoopReads, ClientReads, ClientPumpsOn, PumpRead
<1>3. CASE LoopPumped \/ ClientLooks
  <2>1. /\ status' = StatusNow /\ loop' \in {"pump", "check"}
        /\ UNCHANGED <<childVars, pipe, screen, quiet, reloads>>
    BY <1>3 DEF LoopPumped, ClientLooks, PumpDone, Terminal, TerminalOK
  <2> QED BY <2>1, StatusTerminal
<1>4. CASE CheckWatchers \/ LoopSkips
  BY <1>4 DEF CheckWatchers, LoopSkips, sessionVars, childVars, Terminal, TerminalOK, QuietAfterSilence
<1>5. CASE ClientJudges \/ ClientWakes \/ ClientFails
  BY <1>5 DEF ClientJudges, ClientWakes, ClientFails, sessionVars, childVars, Terminal, TerminalOK,
              QuietAfterSilence
<1>6. ASSUME NEW kind \in Kind, Call(kind) PROVE Terminal'
  BY <1>6 DEF Call, sessionVars, childVars, Terminal, TerminalOK, QuietAfterSilence
<1>7. ASSUME NEW w \in Watcher, NotifyOnPrompt(w) \/ NotifyOnPattern(w) \/ NotifyCancel(w)
      PROVE Terminal'
  BY <1>7 DEF NotifyOnPrompt, NotifyOnPattern, NotifyCancel, add_watcher, sessionVars, childVars,
              Terminal, TerminalOK, QuietAfterSilence
<1>8. CASE Kill
  <2>1. Closed /\ loop' = loop /\ UNCHANGED <<written, silence>> /\ quiet' = quiet /\ reloads' = reloads
    BY <1>8 DEF Kill
  <2>2. quiet' \in 0 .. Threshold /\ reloads' \in 0 .. MaxReloads
    BY <2>1 DEF Terminal, TerminalOK
  <2> QED BY <2>1, <2>2, ClosedTerminal
<1>9. CASE Reload \/ RespawnRoot
  BY <1>9, ReloadTerminal
<1>10. CASE UNCHANGED vars
  BY <1>10 DEF vars, sessionVars, childVars, Terminal, TerminalOK, QuietAfterSilence
<1> QED BY <1>1, <1>2, <1>3, <1>4, <1>5, <1>6, <1>7, <1>8, <1>9, <1>10 DEF Next, LoopNext, ClientNext

-----------------------------------------------------------------------------
(* What each step does to the watchers *)

(* A check removes the one-shot watchers that fire and hands the others    *)
(* what is on the screen.                                                  *)
LEMMA CheckedWatchers ==
    ASSUME Terminal, WatchersOK, CheckWatchers
    PROVE  WatchersOK'
<1> USE NaturalBounds DEF Bounds
<1>1. CASE UNCHANGED watchVars
  BY <1>1 DEF watchVars, WatchersOK, Spent
<1>2. CASE status # "gone"
  <2> DEFINE due == {w \in Watcher : watch[w].state = "set"}
             hit == {w \in due : Matches(w) /\ fired[w] < MaxFired}
  <2>1. /\ watch' = [w \in Watcher |-> IF w \in due THEN Checked(w, w \in hit) ELSE watch[w]]
        /\ fired' = [w \in Watcher |-> fired[w] + (IF w \in hit THEN 1 ELSE 0)]
    BY <1>2 DEF CheckWatchers
  <2>2. hit \subseteq due /\ \A w \in hit : fired[w] < MaxFired
    OBVIOUS
  <2> HIDE DEF hit
  <2>3. ASSUME NEW w \in Watcher
        PROVE  /\ watch'[w] \in WatchRecord /\ fired'[w] \in 0 .. MaxFired
               /\ watch'[w].last # None => Len(watch'[w].last) <= Height
               /\ watch'[w].state = "unset" => fired'[w] = 0
               /\ watch'[w].oneShot => fired'[w] = 0 \/ (fired'[w] = 1 /\ watch'[w].state = "removed")
    <3>1. watch[w] \in WatchRecord /\ fired[w] \in 0 .. MaxFired
      BY DEF WatchersOK
    <3>2. /\ watch[w].last # None => Len(watch[w].last) <= Height
          /\ watch[w].state = "unset" => fired[w] = 0
          /\ watch[w].oneShot => fired[w] = 0 \/ (fired[w] = 1 /\ watch[w].state = "removed")
      BY DEF WatchersOK, Spent
    <3>3. screen \in Seq(Text) /\ Len(screen) <= Height
      BY DEF Terminal, TerminalOK
    <3>4. CASE w \notin due
      <4>1. watch'[w] = watch[w] /\ fired'[w] = fired[w]
        BY <2>1, <2>2, <3>1, <3>4
      <4> QED BY <3>1, <3>2, <4>1
    <3>5. CASE w \in due /\ w \in hit /\ watch[w].oneShot
      <4>1. watch'[w] = [watch[w] EXCEPT !.state = "removed", !.last = None] /\ fired'[w] = fired[w] + 1
        BY <2>1, <3>5 DEF Checked
      <4>2. fired[w] = 0 /\ fired'[w] = 1 /\ 1 <= MaxFired
        BY <2>2, <3>1, <3>2, <3>5, <4>1
      <4>3. watch'[w] \in WatchRecord /\ watch'[w].last = None /\ watch'[w].state = "removed"
        BY <3>1, <4>1 DEF WatchRecord
      <4> QED BY <4>2, <4>3
    <3>6. CASE w \in due /\ ~(w \in hit /\ watch[w].oneShot)
      <4>1. /\ watch'[w] = [watch[w] EXCEPT !.last = IF watch[w].whole THEN @ ELSE screen]
            /\ fired'[w] = fired[w] + (IF w \in hit THEN 1 ELSE 0)
        BY <2>1, <3>6 DEF Checked
      <4>2. fired'[w] \in 0 .. MaxFired /\ (watch[w].oneShot => fired'[w] = fired[w])
        BY <2>2, <3>1, <3>6, <4>1
      <4>3. watch'[w] \in WatchRecord /\ (watch'[w].last # None => Len(watch'[w].last) <= Height)
        BY <3>1, <3>2, <3>3, <4>1 DEF WatchRecord
      <4>4. /\ watch'[w].state = "set" /\ watch[w].state = "set"
            /\ watch'[w].oneShot = watch[w].oneShot
        BY <3>1, <3>6, <4>1 DEF WatchRecord
      <4> QED BY <3>2, <4>2, <4>3, <4>4
    <3> HIDE DEF due
    <3> QED BY <3>4, <3>5, <3>6
  <2> QED BY <2>1, <2>3 DEF WatchersOK, Spent
<1> QED BY <1>1, <1>2 DEF CheckWatchers

LEMMA RegistryWatchers ==
    ASSUME WatchersOK, NEW w \in Watcher,
           NotifyOnPrompt(w) \/ NotifyOnPattern(w) \/ NotifyCancel(w)
    PROVE  WatchersOK'
<1>1. watch[w] \in WatchRecord /\ fired' = fired
  BY DEF WatchersOK, NotifyOnPrompt, NotifyOnPattern, NotifyCancel, add_watcher
<1>2. ASSUME NEW o \in BOOLEAN, add_watcher(w, o) PROVE WatchersOK'
  <2>1. watch[w].state = "unset" /\ watch' = [watch EXCEPT ![w] = Registered(FALSE, o)]
    BY <1>2 DEF add_watcher
  <2>2. /\ Registered(FALSE, o) \in WatchRecord
        /\ Registered(FALSE, o).last = None /\ Registered(FALSE, o).state = "set"
    BY RegisteredOK
  <2>3. fired[w] = 0
    BY <2>1 DEF WatchersOK, Spent
  <2>4. watch' \in [Watcher -> WatchRecord]
    BY <2>1, <2>2 DEF WatchersOK
  <2>5. \A x \in Watcher : watch'[x] = IF x = w THEN Registered(FALSE, o) ELSE watch[x]
    BY <2>1 DEF WatchersOK
  <2> QED BY <1>1, <2>2, <2>3, <2>4, <2>5 DEF WatchersOK, Spent
<1>3. CASE NotifyCancel(w)
  <2> DEFINE gone == [watch[w] EXCEPT !.state = "removed", !.last = None]
  <2>1. watch[w].state = "set" /\ watch' = [watch EXCEPT ![w] = gone]
    BY <1>3 DEF NotifyCancel, remove_watcher, WatchersOK
  <2>2. gone \in WatchRecord /\ gone.last = None /\ gone.state = "removed"
        /\ gone.oneShot = watch[w].oneShot
    BY <1>1 DEF WatchRecord
  <2> HIDE DEF gone
  <2>3. watch' \in [Watcher -> WatchRecord]
    BY <2>1, <2>2 DEF WatchersOK
  <2>4. \A x \in Watcher : watch'[x] = IF x = w THEN gone ELSE watch[x]
    BY <2>1 DEF WatchersOK
  <2> QED BY <1>1, <2>2, <2>3, <2>4 DEF WatchersOK, Spent
<1> QED BY <1>2, <1>3 DEF NotifyOnPrompt, NotifyOnPattern

(* A watcher that fired before a reload is still gone after it.            *)
LEMMA RestoredWatchers ==
    ASSUME WatchersOK
    PROVE  restore_watchers \in [Watcher -> WatchRecord] /\ Spent(restore_watchers, fired)
<1>1. ASSUME NEW w \in Watcher
      PROVE  /\ Restored(w) \in WatchRecord /\ Restored(w).oneShot = watch[w].oneShot
             /\ Restored(w).last # None => Restored(w).last = watch[w].last
             /\ Restored(w).state = watch[w].state
  <2>1. watch[w] \in WatchRecord
    BY DEF WatchersOK
  <2> QED BY <2>1 DEF Restored, WatchRecord
<1>2. \A w \in Watcher : restore_watchers[w] = Restored(w)
  BY DEF restore_watchers
<1>3. restore_watchers \in [Watcher -> WatchRecord]
  BY <1>1 DEF restore_watchers
<1>4. Spent(restore_watchers, fired)
  BY <1>1, <1>2 DEF WatchersOK, Spent
<1> QED BY <1>3, <1>4

LEMMA WatchersStep ==
    ASSUME Terminal, WatchersOK, [Next]_vars
    PROVE  WatchersOK'
<1>1. ASSUME UNCHANGED watchVars PROVE WatchersOK'
  BY <1>1 DEF watchVars, WatchersOK, Spent
<1>2. CASE UNCHANGED vars \/ ChildWrites \/ ChildExits \/ Tick \/ Kill
  BY <1>1, <1>2 DEF vars, ChildWrites, ChildExits, Tick, Kill
<1>3. CASE LoopReads \/ LoopPumped \/ LoopSkips \/ ClientNext
  BY <1>1, <1>3 DEF LoopReads, LoopPumped, LoopSkips, ClientNext, ClientReads, ClientLooks,
                    ClientPumpsOn, ClientJudges, ClientWakes, ClientFails
<1>4. CASE CheckWatchers
  BY <1>4, CheckedWatchers
<1>5. CASE \E kind \in Kind : Call(kind)
  BY <1>1, <1>5 DEF Call
<1>6. CASE \E w \in Watcher : NotifyOnPrompt(w) \/ NotifyOnPattern(w) \/ NotifyCancel(w)
  BY <1>6, RegistryWatchers
<1>7. CASE Reload
  <2>1. watch' = restore_watchers /\ fired' = fired
    BY <1>7 DEF Reload, ReloadWith
  <2> QED BY <2>1, RestoredWatchers DEF WatchersOK
<1>8. CASE RespawnRoot
  <2>1. watch' \in setup_startup_inject(restore_watchers) /\ fired' = fired
    BY <1>8 DEF RespawnRoot, ReloadWith
  <2>2. restore_watchers \in [Watcher -> WatchRecord] /\ Spent(restore_watchers, fired)
    BY RestoredWatchers
  <2>3. watch' \in [Watcher -> WatchRecord] /\ Spent(watch', fired)
    BY <2>1, <2>2, SetupOK
  <2> QED BY <2>1, <2>3 DEF WatchersOK
<1> QED BY <1>2, <1>3, <1>4, <1>5, <1>6, <1>7, <1>8 DEF Next, LoopNext

-----------------------------------------------------------------------------
(* What each step does to the call and to who holds the sessions *)

LEMMA LookedOK ==
    ASSUME CallOK(call), call.pc = "look"
    PROVE  CallOK(Looked)
<1>1. CallOK(Ended("answered"))
  BY EndedOK
<1>2. CallOK([call EXCEPT !.pc = "judge"])
  BY DEF CallOK
<1>3. Stable \in 0 .. Threshold
  BY NaturalBounds DEF Bounds, Stable, CallOK
<1>4. CallOK([call EXCEPT !.pc = "judge", !.last = Filtered(screen), !.stable = Stable])
  BY <1>3 DEF CallOK
<1>5. call.kind \in Kind
  BY DEF CallOK
<1> QED BY <1>1, <1>2, <1>4, <1>5 DEF Looked, Kind

LEMMA CallsStep ==
    ASSUME Terminal, CallsOK, [Next]_vars
    PROVE  CallsOK'
<1> USE NaturalBounds DEF Bounds
<1>0. CallOK(Ended("gave_up")) /\ Ended("gave_up").pc = "gave_up"
  BY EndedOK
<1>1. ASSUME UNCHANGED <<call, holder>> PROVE CallsOK'
  BY <1>1 DEF CallsOK, CallOK
<1>2. CASE UNCHANGED vars \/ ChildWrites \/ ChildExits \/ Kill \/ CheckWatchers \/ LoopSkips
           \/ ClientPumpsOn
  BY <1>1, <1>2 DEF vars, ChildWrites, ChildExits, Kill, CheckWatchers, LoopSkips, ClientPumpsOn
<1>3. CASE Tick
  BY <1>3 DEF Tick, CallsOK, CallOK, Waiting, Sooner, Later
<1>4. CASE LoopReads \/ LoopPumped \/ ClientReads
  <2>1. call' = call /\ holder' \in {None, "loop", "client"}
        /\ (holder' = "client" => call.pc = "look")
    BY <1>4, NoneAssumption DEF LoopReads, LoopPumped, ClientReads, PumpRead, PumpDone
  <2> QED BY <2>1 DEF CallsOK, CallOK
<1>5. CASE \E kind \in Kind : Call(kind)
  <2>1. /\ call.pc = "none" /\ holder' = holder
        /\ \E kind \in Kind :
             call' = [kind |-> kind, pc |-> "look", left |-> Timeout, last |-> None, stable |-> 0]
    BY <1>5 DEF Call
  <2>2. CallOK(call')
    BY <2>1 DEF CallOK
  <2> QED BY <2>1, <2>2 DEF CallsOK
<1>6. CASE ClientLooks
  <2>1. holder = "client" /\ holder' = None /\ call' = Looked
    BY <1>6 DEF ClientLooks, PumpDone
  <2>2. CallOK(call') /\ holder' \in {None, "loop", "client"} /\ holder' # "client"
    BY <2>1, LookedOK, NoneAssumption DEF CallsOK
  <2> QED BY <2>2 DEF CallsOK, CallOK
<1>7. CASE ClientJudges \/ ClientWakes \/ ClientFails
  <2>1. holder # "client" /\ holder' = holder
    BY <1>7, NoneAssumption DEF ClientJudges, ClientWakes, ClientFails, CallsOK
  <2>2. call' \in {Ended("gave_up"), [call EXCEPT !.pc = "sleep"], [call EXCEPT !.pc = "look"]}
        /\ call.pc \in {"look", "judge", "sleep"}
    BY <1>7 DEF ClientJudges, ClientWakes, ClientFails
  <2>3. CallOK([call EXCEPT !.pc = "sleep"]) /\ CallOK([call EXCEPT !.pc = "look"])
    BY <2>2 DEF CallsOK, CallOK
  <2>4. CallOK(call')
    BY <1>0, <2>2, <2>3
  <2> QED BY <2>1, <2>4 DEF CallsOK, CallOK
<1>8. CASE \E w \in Watcher : NotifyOnPrompt(w) \/ NotifyOnPattern(w) \/ NotifyCancel(w)
  BY <1>1, <1>8 DEF NotifyOnPrompt, NotifyOnPattern, NotifyCancel, add_watcher
<1>9. CASE Reload \/ RespawnRoot
  <2>1. holder' = holder /\ holder # "client" /\ call' \in {call, Ended("gave_up")}
    BY <1>9, NoneAssumption DEF Reload, RespawnRoot, ReloadWith
  <2>2. CallOK(call')
    BY <1>0, <2>1 DEF CallsOK
  <2> QED BY <2>1, <2>2 DEF CallsOK, CallOK
<1> QED BY <1>2, <1>3, <1>4, <1>5, <1>6, <1>7, <1>8, <1>9 DEF Next, LoopNext, ClientNext

-----------------------------------------------------------------------------
(* The theorems *)

(* The terminal, the registry and the calls stay consistent with each      *)
(* other under every interleaving of the child, the loop and a client.     *)
THEOREM WatchAlwaysInductive == Spec => []WatchInductive
<1>1. Init => WatchInductive
  BY InitInductive
<1>2. WatchInductive /\ [Next]_vars => WatchInductive'
  BY TerminalStep, WatchersStep, CallsStep DEF WatchInductive, Terminal
<1> QED BY <1>1, <1>2, PTL DEF Spec

(* The registry, the reads and the calls hold what they may, and a         *)
(* one-shot watcher queues its text once at most (check_session), for any  *)
(* number of watchers, firings and reloads.                                *)
THEOREM OneShotsFireOnce == Spec => []WatchInv
<1>1. WatchInductive => WatchInv
  <2> SUFFICES ASSUME WatchInductive PROVE WatchInv
    OBVIOUS
  <2>1. TypeOK
    BY DEF WatchInductive, TerminalOK, WatchersOK, WatchRecord, Spent, CallsOK, CallOK, TypeOK, Text
  <2>2. OneShotOnce
    BY DEF WatchInductive, WatchersOK, Spent, OneShotOnce
  <2> QED BY <2>1, <2>2 DEF WatchInv
<1> QED BY <1>1, WatchAlwaysInductive, PTL

(* wait_for_idle of a running session answers only when the child has been *)
(* silent for the threshold or has written since the read: whoever reads   *)
(* the output, the clock of the last read never runs ahead of the silence  *)
(* once everything is read.                                                *)
THEOREM SilenceIsSilence == Spec => IdleMeansSilent
<1> DEFINE Answers == call.kind = "wait_for_idle" /\ call'.pc = "answered" /\ status = "running"
                      => silence >= Threshold \/ pipe # <<>>
<1>1. WatchInductive /\ [Next]_vars => [Answers]_vars
  <2> SUFFICES ASSUME WatchInductive, Next, call.kind = "wait_for_idle", call'.pc = "answered",
                      status = "running", pipe = <<>>
               PROVE  silence >= Threshold
    OBVIOUS
  <2>1. call.pc # "answered" /\ CallOK(call)
    BY DEF WatchInductive, CallsOK, CallOK, Kind
  <2>2. Ended("gave_up").pc # "answered"
    BY EndedOK
  <2>3. ClientLooks
    <3>1. call' # call /\ call' # Ended("gave_up") /\ call'.pc \notin {"look", "judge", "sleep"}
      BY <2>1, <2>2
    <3>2. ~Tick
      BY <2>1 DEF Tick, Waiting, CallOK
    <3>3. ~(ClientJudges \/ ClientWakes \/ ClientFails)
      BY <2>1, <3>1 DEF ClientJudges, ClientWakes, ClientFails, CallOK
    <3>4. ~\E kind \in Kind : Call(kind)
      BY <3>1 DEF Call
    <3>5. ~(Reload \/ RespawnRoot)
      BY <3>1 DEF Reload, RespawnRoot, ReloadWith
    <3> QED BY <3>1, <3>2, <3>3, <3>4, <3>5
          DEF Next, LoopNext, ClientNext, ChildWrites, ChildExits, LoopReads, LoopPumped,
              CheckWatchers, LoopSkips, ClientReads, ClientPumpsOn, NotifyOnPrompt,
              NotifyOnPattern, NotifyCancel, add_watcher, Kill
  <2>4. quiet >= Threshold
    <3>1. call' = IF quiet >= Threshold THEN Ended("answered") ELSE [call EXCEPT !.pc = "judge"]
      BY <2>3 DEF ClientLooks, Looked
    <3>2. [call EXCEPT !.pc = "judge"].pc = "judge"
      BY <2>1 DEF CallOK
    <3> QED BY <3>1, <3>2
  <2> QED BY <2>4, NaturalBounds
          DEF Bounds, WatchInductive, QuietAfterSilence, TerminalOK
<1> QED BY <1>1, WatchAlwaysInductive, PTL DEF Spec, IdleMeansSilent

=============================================================================
