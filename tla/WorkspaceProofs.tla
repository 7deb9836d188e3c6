--------------------------- MODULE WorkspaceProofs ---------------------------
(***************************************************************************)
(* Proofs about Workspace for any names, any limit of sessions and any     *)
(* number of reloads: the table, the names, the counter and the order of   *)
(* the sessions fit together, and what a sync and a reload keep.           *)
(***************************************************************************)
EXTENDS Workspace, SequenceTheorems, FiniteSetTheorems, TLAPS

-----------------------------------------------------------------------------
(* The operators the model is built from *)

(* A number's rank in a finite set is its place in the ascending order.    *)
LEMMA RankIsOneToOne ==
    ASSUME NEW S \in SUBSET Nat, IsFiniteSet(S)
    PROVE  LET Rank(x) == Cardinality({m \in S : m < x})
           IN  /\ Cardinality(S) \in Nat
               /\ \A x \in S : Rank(x) \in 0 .. Cardinality(S) - 1
               /\ \A x, y \in S : x < y => Rank(x) < Rank(y)
               /\ \A k \in 0 .. Cardinality(S) - 1 : \E x \in S : Rank(x) = k
<1> DEFINE Below(x) == {m \in S : m < x}
           n == Cardinality(S)
<1>1. n \in Nat
  BY FS_CardinalityType
<1>2. ASSUME NEW x \in S
      PROVE  IsFiniteSet(Below(x)) /\ Cardinality(Below(x)) \in 0 .. n - 1
  <2>1. IsFiniteSet(S \ {x}) /\ Cardinality(S \ {x}) = n - 1
    BY FS_RemoveElement
  <2>2. Below(x) \in SUBSET (S \ {x})
    OBVIOUS
  <2> HIDE DEF Below
  <2>3. IsFiniteSet(Below(x)) /\ Cardinality(Below(x)) <= n - 1
    BY <2>1, <2>2, FS_Subset
  <2>4. Cardinality(Below(x)) \in Nat
    BY <2>3, FS_CardinalityType
  <2> QED BY <1>1, <2>3, <2>4
<1>3. ASSUME NEW x \in S, NEW y \in S, x < y
      PROVE  Cardinality(Below(x)) < Cardinality(Below(y))
  <2>1. Below(x) \cup {x} \in SUBSET Below(y) /\ x \notin Below(x)
    <3>1. x \in Nat /\ y \in Nat /\ \A m \in S : m \in Nat
      OBVIOUS
    <3>2. \A m \in S : m < x => m < y
      BY <1>3, <3>1
    <3>3. ~(x < x)
      BY <3>1
    <3> QED BY <1>3, <3>2, <3>3
  <2>2. IsFiniteSet(Below(x)) /\ IsFiniteSet(Below(y)) /\ Cardinality(Below(x)) \in Nat
        /\ Cardinality(Below(y)) \in Nat
    BY <1>1, <1>2
  <2> HIDE DEF Below
  <2>3. Cardinality(Below(x) \cup {x}) = Cardinality(Below(x)) + 1
    BY <2>1, <2>2, FS_AddElement
  <2>4. Cardinality(Below(x) \cup {x}) <= Cardinality(Below(y))
    BY <2>1, <2>2, FS_Subset
  <2> QED BY <2>2, <2>3, <2>4
<1> DEFINE rank == [x \in S |-> Cardinality(Below(x))]
<1>4. \A k \in 0 .. n - 1 : \E x \in S : Cardinality(Below(x)) = k
  <2> HIDE DEF Below
  <2>1. rank \in [S -> 0 .. n - 1]
    BY <1>2
  <2>2. \A x, y \in S : rank[x] = rank[y] => x = y
    <3> SUFFICES ASSUME NEW x \in S, NEW y \in S, rank[x] = rank[y] PROVE x = y
      OBVIOUS
    <3>1. rank[x] \in Nat /\ x \in Nat /\ y \in Nat
      BY <1>1, <2>1
    <3>2. ~(x < y) /\ ~(y < x)
      BY <1>3, <3>1
    <3> QED BY <3>1, <3>2
  <2>3. rank \in Injection(S, 0 .. n - 1)
    BY <2>1, <2>2 DEF Injection, IsInjective
  <2>4. IsFiniteSet(0 .. n - 1) /\ Cardinality(0 .. n - 1) = n
    <3>1. 0 \in Int /\ n - 1 \in Int
      BY <1>1
    <3>2. IsFiniteSet(0 .. n - 1) /\ Cardinality(0 .. n - 1) = IF 0 > n - 1 THEN 0 ELSE (n - 1) - 0 + 1
      BY <3>1, FS_Interval
    <3> HIDE DEF n
    <3> QED BY <1>1, <3>2
  <2>5. rank \in Surjection(S, 0 .. n - 1)
    BY <2>3, <2>4, FS_Injection
  <2> QED BY <2>5 DEF Surjection
<1> QED BY <1>1, <1>2, <1>3, <1>4

(* Ascending lists a finite set of numbers, each once and in their order.  *)
LEMMA AscendingLists ==
    ASSUME NEW S \in SUBSET Nat, IsFiniteSet(S)
    PROVE  LET up == Ascending(S)
           IN  /\ Cardinality(S) \in Nat /\ up \in [1 .. Cardinality(S) -> S]
               /\ \A k, l \in 1 .. Cardinality(S) : k < l => up[k] < up[l]
               /\ \A x \in S : \E k \in 1 .. Cardinality(S) : up[k] = x
<1> DEFINE Rank(x) == Cardinality({m \in S : m < x})
           n == Cardinality(S)
           up == Ascending(S)
<1>1. /\ n \in Nat
      /\ \A x \in S : Rank(x) \in 0 .. n - 1
      /\ \A x, y \in S : x < y => Rank(x) < Rank(y)
      /\ \A k \in 0 .. n - 1 : \E x \in S : Rank(x) = k
  BY RankIsOneToOne
<1>2. up = [k \in 1 .. n |-> CHOOSE x \in S : Rank(x) = k - 1]
  BY DEF Ascending
<1> HIDE DEF Rank, n, up
<1>3. ASSUME NEW k \in 1 .. n PROVE up[k] \in S /\ Rank(up[k]) = k - 1
  <2>1. k - 1 \in 0 .. n - 1
    BY <1>1
  <2>2. \E x \in S : Rank(x) = k - 1
    BY <1>1, <2>1
  <2>3. up[k] = CHOOSE x \in S : Rank(x) = k - 1
    BY <1>2
  <2> QED BY <2>2, <2>3
<1>4. \A x, y \in S : Rank(x) <= Rank(y) => x <= y
  <2> SUFFICES ASSUME NEW x \in S, NEW y \in S, Rank(x) <= Rank(y) PROVE x <= y
    OBVIOUS
  <2>1. x \in Nat /\ y \in Nat /\ Rank(x) \in Nat /\ Rank(y) \in Nat
    BY <1>1
  <2>2. ~(y < x)
    BY <1>1, <2>1
  <2> QED BY <2>1, <2>2
<1>5. up \in [1 .. n -> S]
  BY <1>2, <1>3
<1>6. ASSUME NEW k \in 1 .. n, NEW l \in 1 .. n, k < l PROVE up[k] < up[l]
  <2>1. up[k] \in Nat /\ up[l] \in Nat /\ Rank(up[k]) = k - 1 /\ Rank(up[l]) = l - 1
    BY <1>3
  <2>2. up[k] # up[l]
    BY <1>6, <2>1
  <2>3. up[k] <= up[l]
    BY <1>3, <1>4, <1>6, <2>1
  <2> QED BY <2>1, <2>2, <2>3
<1>7. ASSUME NEW x \in S PROVE \E k \in 1 .. n : up[k] = x
  <2> DEFINE k == Rank(x) + 1
  <2>1. k \in 1 .. n /\ Rank(x) = k - 1
    BY <1>1
  <2>2. up[k] \in S /\ Rank(up[k]) = Rank(x)
    BY <1>3, <2>1
  <2>3. up[k] <= x /\ x <= up[k] /\ x \in Nat /\ up[k] \in Nat
    <3>1. Rank(x) \in Nat /\ Rank(x) <= Rank(up[k]) /\ Rank(up[k]) <= Rank(x)
      BY <1>1, <2>2
    <3> HIDE DEF k
    <3> QED BY <1>4, <2>2, <3>1
  <2>4. up[k] = x
    BY <2>3
  <2> QED BY <2>1, <2>4
<1> QED BY <1>1, <1>5, <1>6, <1>7 DEF n, up

(* Kept keeps what is in the set, in the order it was in.                  *)
InOrder(s, t, S) ==
    \A i, j \in DOMAIN s : i < j /\ {s[i], s[j]} \subseteq S =>
        \E k, l \in DOMAIN t : k < l /\ t[k] = s[i] /\ t[l] = s[j]

LEMMA KeptInOrder ==
    ASSUME NEW T, NEW s \in Seq(T), NEW S
    PROVE  /\ Kept(s, S) \in Seq(T) /\ ToSet(Kept(s, S)) = ToSet(s) \cap S
           /\ IsInjective(s) => IsInjective(Kept(s, S))
           /\ InOrder(s, Kept(s, S), S)
<1> DEFINE at == {i \in DOMAIN s : s[i] \in S}
           n == Cardinality(at)
           up == Ascending(at)
           kept == Kept(s, S)
<1>1. Len(s) \in Nat /\ DOMAIN s = 1 .. Len(s) /\ \A i \in DOMAIN s : s[i] \in T
  BY LenProperties, ElementOfSeq
<1>2. at \in SUBSET Nat /\ at \subseteq DOMAIN s /\ IsFiniteSet(at)
  <2>1. IsFiniteSet(1 .. Len(s)) /\ 1 .. Len(s) \subseteq Nat
    BY <1>1, FS_Interval
  <2>2. at \in SUBSET (1 .. Len(s))
    BY <1>1
  <2> HIDE DEF at
  <2> QED BY <1>1, <2>1, <2>2, FS_Subset
<1>3. \A i \in at : s[i] \in S
  OBVIOUS
<1>4. \A i \in DOMAIN s : s[i] \in S => i \in at
  OBVIOUS
<1>5. kept = [k \in 1 .. n |-> s[up[k]]]
  BY DEF Kept
<1> HIDE DEF at
<1>6. /\ n \in Nat /\ up \in [1 .. n -> at]
      /\ \A k, l \in 1 .. n : k < l => up[k] < up[l]
      /\ \A i \in at : \E k \in 1 .. n : up[k] = i
  BY <1>2, AscendingLists
<1> HIDE DEF n, up, kept
<1>7. \A k \in 1 .. n : kept[k] = s[up[k]] /\ up[k] \in at /\ kept[k] \in T \cap S
  BY <1>1, <1>2, <1>3, <1>5, <1>6
<1>8. kept \in Seq(T) /\ DOMAIN kept = 1 .. n
  <2>1. kept \in [1 .. n -> T]
    BY <1>5, <1>7
  <2> QED BY <1>6, <2>1, SeqDef
<1>9. ToSet(kept) = ToSet(s) \cap S
  <2>1. ASSUME NEW x \in ToSet(kept) PROVE x \in ToSet(s) \cap S
    <3>1. PICK k \in 1 .. n : x = kept[k]
      BY <1>8 DEF ToSet
    <3> QED BY <1>2, <1>7, <3>1 DEF ToSet
  <2>2. ASSUME NEW x \in ToSet(s) \cap S PROVE x \in ToSet(kept)
    <3>1. PICK i \in DOMAIN s : x = s[i]
      BY DEF ToSet
    <3>2. i \in at
      BY <1>4, <3>1
    <3>3. PICK k \in 1 .. n : up[k] = i
      BY <1>6, <3>2
    <3> QED BY <1>7, <1>8, <3>1, <3>3 DEF ToSet
  <2> QED BY <2>1, <2>2
<1>10. ASSUME IsInjective(s) PROVE IsInjective(kept)
  <2> SUFFICES ASSUME NEW k \in 1 .. n, NEW l \in 1 .. n, kept[k] = kept[l] PROVE k = l
    BY <1>8 DEF IsInjective
  <2>1. up[k] = up[l]
    <3>1. \A i, j \in at : s[i] = s[j] => i = j
      BY <1>2, <1>10 DEF IsInjective
    <3> QED BY <1>7, <3>1
  <2>2. up[k] \in Nat
    BY <1>2, <1>7
  <2>3. ~(k < l) /\ ~(l < k)
    BY <1>6, <2>1, <2>2
  <2> QED BY <2>3
<1>11. InOrder(s, kept, S)
  <2> SUFFICES ASSUME NEW i \in DOMAIN s, NEW j \in DOMAIN s, i < j, s[i] \in S, s[j] \in S
               PROVE  \E k, l \in 1 .. n : k < l /\ kept[k] = s[i] /\ kept[l] = s[j]
    BY <1>8 DEF InOrder
  <2>1. PICK k \in 1 .. n : up[k] = i
    BY <1>4, <1>6
  <2>2. PICK l \in 1 .. n : up[l] = j
    BY <1>4, <1>6
  <2>3. k < l
    <3>1. i \in Nat /\ j \in Nat /\ ~(j < i) /\ i # j
      BY <1>1
    <3>2. ~(l < k) /\ k # l
      BY <1>6, <2>1, <2>2, <3>1
    <3> QED BY <3>2
  <2> QED BY <1>7, <2>1, <2>2, <2>3
<1> QED BY <1>8, <1>9, <1>10, <1>11 DEF kept

(* What a reconciled order holds: the sessions there are, once each, those *)
(* it held before in the order they had.                                   *)
LEMMA ReconciledOrder ==
    ASSUME NEW current \in Seq(Nat), IsInjective(current),
           NEW actual \in SUBSET Nat, IsFiniteSet(actual)
    PROVE  LET new == reconcile_session_order(current, actual)
           IN  /\ new \in Seq(Nat) /\ ToSet(new) = actual /\ IsInjective(new)
               /\ InOrder(current, new, actual)
<1> DEFINE old == Kept(current, actual)
           fresh == actual \ ToSet(current)
           up == Ascending(fresh)
           n == Cardinality(fresh)
           new == reconcile_session_order(current, actual)
<1>1. /\ old \in Seq(Nat) /\ ToSet(old) = ToSet(current) \cap actual
      /\ IsInjective(old) /\ InOrder(current, old, actual)
  BY KeptInOrder
<1>2. fresh \in SUBSET Nat /\ IsFiniteSet(fresh)
  BY FS_Subset
<1>3. new = old \o up
  BY DEF reconcile_session_order
<1>4. fresh = actual \ ToSet(current)
  OBVIOUS
<1> HIDE DEF old, fresh, new
<1>5. /\ n \in Nat /\ up \in [1 .. n -> fresh]
      /\ \A k, l \in 1 .. n : k < l => up[k] < up[l]
      /\ \A x \in fresh : \E k \in 1 .. n : up[k] = x
  BY <1>2, AscendingLists
<1> HIDE DEF n, up
<1>6. up \in Seq(Nat) /\ Len(up) = n
  <2>1. up \in [1 .. n -> Nat]
    BY <1>2, <1>5
  <2> QED BY <1>5, <2>1, SeqDef, LenProperties
<1>7. /\ new \in Seq(Nat) /\ Len(new) = Len(old) + n
      /\ Len(old) \in Nat /\ DOMAIN old = 1 .. Len(old) /\ DOMAIN new = 1 .. Len(old) + n
      /\ \A i \in 1 .. Len(old) + n :
            new[i] = IF i <= Len(old) THEN old[i] ELSE up[i - Len(old)]
  <2>1. old \o up \in Seq(Nat) /\ Len(old \o up) = Len(old) + n
        /\ \A i \in 1 .. Len(old) + n : (old \o up)[i] = IF i <= Len(old) THEN old[i] ELSE up[i - Len(old)]
    BY <1>1, <1>6, ConcatProperties
  <2> QED BY <1>1, <1>3, <2>1, LenProperties
<1>8. \A i \in 1 .. Len(old) : old[i] \in ToSet(current) \cap actual
  BY <1>1, <1>7 DEF ToSet
<1>9. \A k \in 1 .. n : up[k] \in fresh /\ up[k] \in Nat
  BY <1>2, <1>5
<1>10. ToSet(new) = actual
  <2>1. ASSUME NEW x \in ToSet(new) PROVE x \in actual
    <3>1. PICK i \in 1 .. Len(old) + n : x = new[i]
      BY <1>7 DEF ToSet
    <3>2. CASE i <= Len(old)
      BY <1>5, <1>7, <1>8, <3>1, <3>2
    <3>3. CASE i > Len(old)
      <4>1. i - Len(old) \in 1 .. n /\ x = up[i - Len(old)]
        BY <1>5, <1>7, <3>1, <3>3
      <4> QED BY <1>4, <1>9, <4>1
    <3> QED BY <1>5, <1>7, <3>2, <3>3
  <2>2. ASSUME NEW x \in actual PROVE x \in ToSet(new)
    <3>1. CASE x \in ToSet(current)
      <4>1. PICK i \in 1 .. Len(old) : x = old[i]
        BY <1>1, <1>7, <3>1 DEF ToSet
      <4>2. i \in 1 .. Len(old) + n /\ new[i] = x
        BY <1>5, <1>7, <4>1
      <4> QED BY <1>7, <4>2 DEF ToSet
    <3>2. CASE x \notin ToSet(current)
      <4>1. PICK k \in 1 .. n : up[k] = x
        BY <1>4, <1>5, <3>2
      <4> DEFINE i == k + Len(old)
      <4>2. i \in 1 .. Len(old) + n /\ ~(i <= Len(old)) /\ i - Len(old) = k
        BY <1>5, <1>7
      <4> HIDE DEF i
      <4>3. new[i] = x
        BY <1>7, <4>1, <4>2
      <4> QED BY <1>7, <4>2, <4>3 DEF ToSet
    <3> QED BY <3>1, <3>2
  <2> QED BY <2>1, <2>2
<1>11. IsInjective(new)
  <2> SUFFICES ASSUME NEW i \in 1 .. Len(old) + n, NEW j \in 1 .. Len(old) + n, i < j
               PROVE  new[i] # new[j]
    BY <1>5, <1>7 DEF IsInjective
  <2>1. CASE j <= Len(old)
    <3>1. i \in 1 .. Len(old) /\ j \in 1 .. Len(old) /\ new[i] = old[i] /\ new[j] = old[j] /\ i # j
      BY <1>5, <1>7, <2>1
    <3> QED BY <1>1, <1>7, <3>1 DEF IsInjective
  <2>2. CASE i <= Len(old) /\ j > Len(old)
    <3>1. /\ i \in 1 .. Len(old) /\ new[i] = old[i]
          /\ j - Len(old) \in 1 .. n /\ new[j] = up[j - Len(old)]
      BY <1>5, <1>7, <2>2
    <3> QED BY <1>4, <1>8, <1>9, <3>1
  <2>3. CASE i > Len(old)
    <3>1. /\ i - Len(old) \in 1 .. n /\ j - Len(old) \in 1 .. n /\ i - Len(old) < j - Len(old)
          /\ ~(i <= Len(old)) /\ ~(j <= Len(old))
      BY <1>5, <1>7, <2>3
    <3>2. new[i] = up[i - Len(old)] /\ new[j] = up[j - Len(old)]
      BY <1>7, <3>1
    <3>3. new[i] < new[j] /\ new[i] \in Nat
      BY <1>5, <1>9, <3>1, <3>2
    <3> QED BY <1>9, <3>1, <3>2, <3>3
  <2> QED BY <1>5, <1>7, <2>1, <2>2, <2>3
<1>13. ASSUME NEW i \in 1 .. Len(old)
       PROVE  i \in 1 .. Len(old) + n /\ new[i] = old[i]
  <2>1. i \in 1 .. Len(old) + n /\ i <= Len(old)
    BY <1>5, <1>7
  <2> QED BY <1>7, <2>1
<1>12. InOrder(current, new, actual)
  <2> SUFFICES ASSUME NEW i \in DOMAIN current, NEW j \in DOMAIN current, i < j,
                      {current[i], current[j]} \subseteq actual
               PROVE  \E k, l \in DOMAIN new : k < l /\ new[k] = current[i] /\ new[l] = current[j]
    BY DEF InOrder
  <2>1. PICK k, l \in 1 .. Len(old) : k < l /\ old[k] = current[i] /\ old[l] = current[j]
    BY <1>1, <1>7 DEF InOrder
  <2>2. new[k] = current[i] /\ new[l] = current[j]
    BY <1>13, <2>1
  <2>3. k \in 1 .. Len(old) + n /\ l \in 1 .. Len(old) + n
    BY <1>13, <2>1
  <2> QED BY <1>7, <2>1, <2>2, <2>3
<1> QED BY <1>7, <1>10, <1>11, <1>12 DEF new

LEMMA IdsAreNumbers ==
    /\ Id \subseteq Nat \ {0} /\ IsFiniteSet(Id) /\ MaxId \in Nat \ {0}
    /\ None \notin Name /\ None \notin Id
<1>1. MaxId \in Nat \ {0} /\ 1 \in Int /\ MaxId \in Int
  BY BoundAssumption
<1>2. IsFiniteSet(1 .. MaxId)
  BY <1>1, FS_Interval
<1> QED BY <1>1, <1>2, NameAssumption DEF Id

-----------------------------------------------------------------------------
(* The inductive invariant *)

TableOK(t) == DOMAIN t \subseteq Id /\ \A id \in DOMAIN t : t[id] \in SessionRecord

(* The manager: its sessions, their names and the counter.                 *)
ManagerOK ==
    /\ TableOK(table) /\ Cardinality(Ids) <= MaxSessions
    /\ DOMAIN names \subseteq Name /\ NamesAgree
    /\ nextId \in 1 .. MaxId + 1 /\ IdsAreFresh

(* The loop: an id in its order has been handed out, whether or not the    *)
(* session is still there.                                                 *)
LoopOK ==
    /\ order \in Seq(Id) /\ IsInjective(order) /\ \A id \in ToSet(order) : id < nextId
    /\ active \in Id /\ pending \in Id \cup {None} /\ lost \subseteq Id
    /\ pc \in {"input", "switch", "sync", "exit"}
    /\ mode \in {"run", "saving", "cleared", "gone"}

(* What is being saved: sessions under ids that no session gets any more,  *)
(* with the names they have as long as they are there.  The counter is     *)
(* read after the sessions, and nothing that is saved or shown is beyond   *)
(* it.                                                                     *)
SavedOK ==
    /\ DOMAIN saved = {"sessions", "next", "restart"}
    /\ mode \in {"saving", "cleared"} =>
          /\ TableOK(saved.sessions)
          /\ \A id \in DOMAIN saved.sessions :
                id < nextId /\ (id \in Ids => saved.sessions[id].name = table[id].name)
    /\ mode = "cleared" =>
          /\ saved.next \in 1 .. MaxId + 1 /\ saved.next <= nextId
          /\ \A id \in DOMAIN saved.sessions : id < saved.next
          /\ \A id \in ToSet(order) : id < saved.next

WorkspaceInductive == ManagerOK /\ LoopOK /\ SavedOK

LEMMA InitInductive == Init => WorkspaceInductive
<1> SUFFICES ASSUME Init PROVE WorkspaceInductive
  OBVIOUS
<1>1. 1 \in Id /\ 2 \in 1 .. MaxId + 1 /\ None \notin Name
  BY IdsAreNumbers DEF Id
<1>2. ManagerOK
  <2>1. DOMAIN table = {1} /\ table[1] = Session(None, TRUE) /\ DOMAIN names = {} /\ nextId = 2
    BY DEF Init
  <2>2. Session(None, TRUE) \in SessionRecord /\ Session(None, TRUE).name = None
    BY DEF Session, SessionRecord
  <2>3. Cardinality({1}) = 1 /\ MaxSessions \in Nat \ {0}
    BY FS_Singleton, BoundAssumption
  <2>4. Ids = {1} /\ \A id \in Ids : id = 1
    BY <2>1 DEF Ids
  <2>5. Cardinality(Ids) <= MaxSessions
    BY <2>3, <2>4
  <2>6. TableOK(table)
    BY <1>1, <2>1, <2>2, <2>4 DEF TableOK, Ids
  <2>7. NamesAgree
    BY <2>1, <2>2, <2>4 DEF NamesAgree
  <2>8. IdsAreFresh
    BY <2>1, <2>4 DEF IdsAreFresh
  <2> QED BY <1>1, <2>1, <2>5, <2>6, <2>7, <2>8 DEF ManagerOK
<1>3. LoopOK
  <2>1. order \in Seq(Id) /\ DOMAIN order = {1} /\ order[1] = 1
    BY <1>1 DEF Init
  <2>2. IsInjective(order) /\ ToSet(order) = {1}
    BY <2>1 DEF IsInjective, ToSet
  <2> QED BY <1>1, <2>1, <2>2 DEF Init, LoopOK
<1>4. SavedOK
  BY DEF Init, SavedOK, NothingSaved
<1> QED BY <1>2, <1>3, <1>4 DEF WorkspaceInductive

-----------------------------------------------------------------------------
(* The manager's operations *)

(* A launch gives out the next id, to a new session or to none.            *)
LEMMA AddManager ==
    ASSUME ManagerOK, NEW name \in Name \cup {None}, Add(name)
    PROVE  /\ ManagerOK' /\ nextId' = nextId + 1 /\ nextId \in Id
           /\ \A id \in DOMAIN table' : (id \in Ids /\ table'[id] = table[id]) \/ id = nextId
<1>1. nextId \in Id /\ nextId' = nextId + 1 /\ nextId' \in 1 .. MaxId + 1 /\ nextId \notin Ids
      /\ \A id \in Ids : id < nextId'
  <2>1. nextId \in Nat /\ MaxId \in Nat /\ nextId \in 1 .. MaxId /\ nextId' = nextId + 1
    BY IdsAreNumbers DEF ManagerOK, Add
  <2>2. \A id \in Ids : id \in Nat /\ id < nextId
    BY IdsAreNumbers DEF ManagerOK, IdsAreFresh, TableOK, Ids
  <2> QED BY <2>1, <2>2 DEF Id
<1>2. CASE Refused(name)
  BY <1>1, <1>2 DEF Add, ManagerOK, TableOK, NamesAgree, IdsAreFresh, Ids
<1>3. CASE ~Refused(name)
  <2> DEFINE new == Session(name, FALSE)
  <2>1. new \in SessionRecord /\ new.name = name
    BY DEF Session, SessionRecord
  <2> HIDE DEF new
  <2>2. /\ table' = With(table, nextId, new)
        /\ names' = IF name = None THEN names ELSE With(names, name, nextId)
    BY <1>3 DEF Add, new
  <2>3. DOMAIN table' = Ids \cup {nextId} /\ table'[nextId] = new
        /\ \A id \in Ids : table'[id] = table[id]
    BY <1>1, <2>2 DEF With, Ids
  <2>4. TableOK(table)'
    BY <1>1, <2>1, <2>3 DEF ManagerOK, TableOK, Ids
  <2>5. Cardinality(DOMAIN table') <= MaxSessions
    <3>1. IsFiniteSet(Ids)
      BY IdsAreNumbers, FS_Subset DEF ManagerOK, TableOK, Ids
    <3>2. Cardinality(Ids) \in Nat /\ MaxSessions \in Nat /\ ~(Cardinality(Ids) >= MaxSessions)
      BY <1>3, <3>1, FS_CardinalityType, BoundAssumption DEF Refused
    <3>3. Cardinality(Ids \cup {nextId}) = Cardinality(Ids) + 1
      BY <1>1, <3>1, FS_AddElement
    <3> QED BY <2>3, <3>2, <3>3
  <2>6. CASE name = None
    <3>1. names' = names
      BY <2>2, <2>6
    <3>2. NamesAgree'
      BY <1>1, <2>1, <2>3, <2>6, <3>1 DEF ManagerOK, NamesAgree, Ids
    <3> QED BY <1>1, <2>3, <2>4, <2>5, <3>1, <3>2 DEF ManagerOK, IdsAreFresh, Ids
  <2>7. CASE name # None
    <3>1. /\ DOMAIN names' = DOMAIN names \cup {name} /\ names'[name] = nextId
          /\ \A m \in DOMAIN names : m # name => names'[m] = names[m]
      BY <2>2, <2>7 DEF With
    <3>2. name \notin DOMAIN names /\ name \in Name
      BY <1>3, <2>7 DEF Refused
    <3>3. NamesAgree'
      BY <1>1, <2>1, <2>3, <3>1, <3>2 DEF ManagerOK, NamesAgree, Ids
    <3>4. DOMAIN names' \subseteq Name
      BY <3>1, <3>2 DEF ManagerOK
    <3> QED BY <1>1, <2>3, <2>4, <2>5, <3>3, <3>4 DEF ManagerOK, IdsAreFresh, Ids
  <2> QED BY <1>1, <2>3, <2>6, <2>7
<1> QED BY <1>2, <1>3

(* A kill frees the place and the name.                                    *)
LEMMA KillManager ==
    ASSUME ManagerOK, NEW k, KillSession(k), nextId' = nextId
    PROVE  /\ ManagerOK'
           /\ \A id \in DOMAIN table' : id \in Ids /\ table'[id] = table[id]
<1>1. DOMAIN table' = Ids \ {k} /\ \A id \in Ids \ {k} : table'[id] = table[id]
  BY DEF KillSession, Without, Ids
<1>2. /\ DOMAIN names' = {m \in DOMAIN names : names[m] # k}
      /\ \A m \in DOMAIN names' : names'[m] = names[m]
  BY DEF KillSession, ReleaseNames
<1>3. Cardinality(DOMAIN table') <= MaxSessions
  <2>1. IsFiniteSet(Ids) /\ Ids \ {k} \in SUBSET Ids
    BY IdsAreNumbers, FS_Subset DEF ManagerOK, TableOK, Ids
  <2>2. IsFiniteSet(Ids \ {k}) /\ Cardinality(Ids \ {k}) <= Cardinality(Ids)
    BY <2>1, FS_Subset
  <2>3. Cardinality(Ids) \in Nat /\ Cardinality(Ids \ {k}) \in Nat /\ MaxSessions \in Nat
    BY <2>1, <2>2, FS_CardinalityType, BoundAssumption
  <2> QED BY <1>1, <2>2, <2>3 DEF ManagerOK
<1>4. NamesAgree'
  BY <1>1, <1>2 DEF ManagerOK, NamesAgree, Ids
<1>5. TableOK(table)' /\ IdsAreFresh' /\ DOMAIN names' \subseteq Name
  BY <1>1, <1>2 DEF ManagerOK, TableOK, IdsAreFresh, Ids
<1> QED BY <1>1, <1>3, <1>4, <1>5 DEF ManagerOK, Ids

(* What happens to children changes no id and no name.                     *)
ChildStep(id) == StartJob(id) \/ EndJob(id) \/ ShellExits(id) \/ Detect(id)

LEMMA ChildManager ==
    ASSUME ManagerOK, NEW k \in Id, ChildStep(k)
    PROVE  /\ ManagerOK' /\ DOMAIN table' = Ids
           /\ \A id \in Ids : table'[id].name = table[id].name
<1>1. k \in Ids /\ names' = names /\ nextId' = nextId
  BY DEF ChildStep, StartJob, EndJob, ShellExits, Detect, IsRunning
<1>2. table[k] \in SessionRecord
  BY <1>1 DEF ManagerOK, TableOK, Ids
<1>3. \E s \in SessionRecord : s.name = table[k].name /\ table' = [table EXCEPT ![k] = s]
  <2> DEFINE a == [table[k] EXCEPT !.job = TRUE]
             b == [table[k] EXCEPT !.job = FALSE]
             c == [table[k] EXCEPT !.alive = FALSE, !.job = FALSE]
             d == [table[k] EXCEPT !.status = "exited"]
  <2>1. \A s \in {a, b, c, d} : s \in SessionRecord /\ s.name = table[k].name
    BY <1>2 DEF SessionRecord
  <2>2. CASE StartJob(k)
    BY <2>1, <2>2 DEF StartJob
  <2>3. CASE EndJob(k)
    BY <2>1, <2>3 DEF EndJob
  <2>4. CASE ShellExits(k)
    <3>1. table' = [table EXCEPT ![k] = c]
      BY <1>1, <2>4 DEF ShellExits, Ids
    <3> QED BY <2>1, <3>1
  <2>5. CASE Detect(k)
    BY <2>1, <2>5 DEF Detect
  <2> QED BY <2>2, <2>3, <2>4, <2>5 DEF ChildStep
<1>4. /\ DOMAIN table' = Ids
      /\ \A id \in Ids : table'[id].name = table[id].name /\ table'[id] \in SessionRecord
  <2>1. PICK s \in SessionRecord : s.name = table[k].name /\ table' = [table EXCEPT ![k] = s]
    BY <1>3
  <2>2. DOMAIN table' = Ids /\ \A id \in Ids : table'[id] = IF id = k THEN s ELSE table[id]
    BY <2>1 DEF Ids
  <2> QED BY <2>1, <2>2 DEF ManagerOK, TableOK, Ids
<1>5. NamesAgree'
  BY <1>1, <1>4 DEF ManagerOK, NamesAgree, Ids
<1> QED BY <1>1, <1>4, <1>5 DEF ManagerOK, TableOK, IdsAreFresh, Ids

-----------------------------------------------------------------------------
(* What a step of the manager's leaves of the loop and of what is saved    *)

(* The manager goes on while the reload saves its state: it may kill what  *)
(* is saved, and what it adds has an id of its own.                        *)
LEMMA SavedKept ==
    ASSUME ManagerOK, LoopOK, SavedOK, UNCHANGED <<order, mode, saved>>,
           nextId' \in Nat, nextId' >= nextId,
           \A id \in DOMAIN table' : (id \in Ids /\ table'[id].name = table[id].name) \/ id = nextId
    PROVE  SavedOK'
<1>1. nextId \in Nat
  BY IdsAreNumbers DEF ManagerOK
<1>2. ASSUME mode \in {"saving", "cleared"}, NEW id \in DOMAIN saved.sessions
      PROVE  id < nextId' /\ (id \in DOMAIN table' => saved.sessions[id].name = table'[id].name)
  <2>1. id < nextId /\ id \in Nat
    BY <1>2, IdsAreNumbers DEF SavedOK, TableOK
  <2>2. id < nextId' /\ id # nextId
    BY <1>1, <2>1
  <2> QED BY <1>2, <2>2 DEF SavedOK
<1>3. mode = "cleared" => saved.next <= nextId'
  BY <1>1, IdsAreNumbers DEF SavedOK
<1> QED BY <1>2, <1>3 DEF SavedOK, Ids

LEMMA OrderOfNumbers ==
    ASSUME LoopOK
    PROVE  /\ order \in Seq(Nat) /\ ToSet(order) \subseteq Id
           /\ DOMAIN order = 1 .. Len(order) /\ Len(order) \in Nat
<1>1. Id \subseteq Nat
  BY IdsAreNumbers
<1>2. order \in Seq(Nat)
  BY <1>1, SeqMonotonic DEF LoopOK
<1>3. DOMAIN order = 1 .. Len(order) /\ Len(order) \in Nat
  BY <1>2, LenProperties
<1>4. ToSet(order) \subseteq Id
  BY <1>3, ElementOfSeq DEF LoopOK, ToSet
<1> QED BY <1>2, <1>3, <1>4

LEMMA LoopKept ==
    ASSUME ManagerOK, LoopOK, UNCHANGED <<order, active, pc, mode, lost>>,
           nextId' \in Nat, nextId' >= nextId, pending' \in Id \cup {None}
    PROVE  LoopOK'
<1>1. nextId \in Nat /\ \A id \in ToSet(order) : id < nextId /\ id \in Nat
  <2>1. ToSet(order) \subseteq Id /\ \A id \in ToSet(order) : id < nextId
    BY OrderOfNumbers DEF LoopOK
  <2>2. nextId \in Nat
    BY IdsAreNumbers DEF ManagerOK
  <2> QED BY <2>1, <2>2, IdsAreNumbers
<1>2. \A id \in ToSet(order) : id < nextId'
  BY <1>1
<1> QED BY <1>2 DEF LoopOK

LEMMA ThreadsStep ==
    ASSUME WorkspaceInductive,
           \/ \E name \in Name \cup {None} : McpLaunch(name)
           \/ \E id \in Id : McpKill(id) \/ McpSwitch(id) \/ ChildStep(id)
    PROVE  WorkspaceInductive'
<1> USE DEF WorkspaceInductive
<1>0. nextId \in Nat /\ pending \in Id \cup {None}
  BY IdsAreNumbers DEF ManagerOK, LoopOK
<1>1. ASSUME NEW name \in Name \cup {None}, McpLaunch(name) PROVE WorkspaceInductive'
  <2>1. Add(name) /\ UNCHANGED <<loopVars, pending, reloadVars, lost>>
    BY <1>1 DEF McpLaunch
  <2>2. /\ ManagerOK' /\ nextId' = nextId + 1
        /\ \A id \in DOMAIN table' : (id \in Ids /\ table'[id] = table[id]) \/ id = nextId
    BY <2>1, AddManager
  <2>3. nextId' \in Nat /\ nextId' >= nextId
    BY <1>0, <2>2
  <2>4. SavedOK'
    BY <2>1, <2>2, <2>3, SavedKept DEF loopVars, reloadVars
  <2>5. LoopOK'
    BY <1>0, <2>1, <2>3, LoopKept DEF loopVars, reloadVars
  <2> QED BY <2>2, <2>4, <2>5
<1>2. ASSUME NEW k \in Id, McpKill(k) PROVE WorkspaceInductive'
  <2>1. KillSession(k) /\ nextId' = nextId /\ UNCHANGED <<loopVars, pending, reloadVars, lost>>
    BY <1>2 DEF McpKill
  <2>2. ManagerOK' /\ \A id \in DOMAIN table' : id \in Ids /\ table'[id] = table[id]
    BY <2>1, KillManager
  <2>3. nextId' \in Nat /\ nextId' >= nextId
    BY <1>0, <2>1
  <2>4. SavedOK'
    BY <2>1, <2>2, <2>3, SavedKept DEF loopVars, reloadVars
  <2>5. LoopOK'
    BY <1>0, <2>1, <2>3, LoopKept DEF loopVars, reloadVars
  <2> QED BY <2>2, <2>4, <2>5
<1>3. ASSUME NEW k \in Id, McpSwitch(k) PROVE WorkspaceInductive'
  <2>1. UNCHANGED <<table, names, nextId, loopVars, reloadVars, lost>> /\ pending' = k
    BY <1>3 DEF McpSwitch
  <2> QED BY <2>1 DEF ManagerOK, NamesAgree, IdsAreFresh, Ids, LoopOK, SavedOK, loopVars, reloadVars
<1>4. ASSUME NEW k \in Id, ChildStep(k) PROVE WorkspaceInductive'
  <2>1. UNCHANGED <<names, nextId, loopVars, pending, reloadVars, lost>>
    BY <1>4 DEF ChildStep, StartJob, EndJob, ShellExits, Detect
  <2>2. ManagerOK' /\ DOMAIN table' = Ids /\ \A id \in Ids : table'[id].name = table[id].name
    BY <1>4, ChildManager
  <2>3. nextId' \in Nat /\ nextId' >= nextId
    BY <1>0, <2>1
  <2>4. SavedOK'
    BY <2>1, <2>2, <2>3, SavedKept DEF loopVars, reloadVars
  <2>5. LoopOK'
    BY <1>0, <2>1, <2>3, LoopKept DEF loopVars, reloadVars
  <2> QED BY <2>2, <2>4, <2>5
<1> QED BY <1>1, <1>2, <1>3, <1>4

-----------------------------------------------------------------------------
(* The event loop *)

(* The session created last is the last in the order.                      *)
LEMMA CreateStep ==
    ASSUME WorkspaceInductive, UserCreates
    PROVE  WorkspaceInductive'
<1> USE DEF WorkspaceInductive
<1>1. /\ Add(None) /\ mode = "run" /\ UNCHANGED <<pc, pending, reloadVars, lost>>
      /\ IF Refused(None) THEN UNCHANGED <<order, active>>
         ELSE order' = Append(order, nextId) /\ active' = nextId
  BY DEF UserCreates, At
<1>2. ManagerOK' /\ nextId' = nextId + 1 /\ nextId \in Id
  BY <1>1, AddManager
<1>3. nextId \in Nat /\ nextId' \in Nat /\ nextId' >= nextId
  BY <1>2, IdsAreNumbers
<1>4. mode' = "run" /\ saved' = saved
  BY <1>1 DEF reloadVars
<1>5. SavedOK'
  BY <1>4 DEF SavedOK
<1>6. CASE Refused(None)
  BY <1>1, <1>2, <1>3, <1>5, <1>6, LoopKept DEF reloadVars, LoopOK
<1>7. CASE ~Refused(None)
  <2>1. order' = Append(order, nextId) /\ active' = nextId
    BY <1>1, <1>7
  <2>2. /\ order' \in Seq(Id) /\ Len(order') = Len(order) + 1
        /\ \A i \in 1 .. Len(order) : order'[i] = order[i]
        /\ order'[Len(order) + 1] = nextId
    BY <1>2, <2>1, AppendProperties DEF LoopOK
  <2>3. /\ DOMAIN order = 1 .. Len(order) /\ Len(order) \in Nat
        /\ DOMAIN order' = 1 .. Len(order) + 1
    BY <2>2, OrderOfNumbers, LenProperties
  <2>4. \A i \in 1 .. Len(order) : order[i] < nextId /\ order[i] \in Nat
    BY <2>3, OrderOfNumbers, IdsAreNumbers DEF LoopOK, ToSet
  <2>5. IsInjective(order')
    <3> SUFFICES ASSUME NEW i \in 1 .. Len(order) + 1, NEW j \in 1 .. Len(order) + 1,
                        order'[i] = order'[j]
                 PROVE  i = j
      BY <2>3 DEF IsInjective
    <3>1. \A a, b \in 1 .. Len(order) : order[a] = order[b] => a = b
      BY <2>3 DEF LoopOK, IsInjective
    <3>2. \A a \in 1 .. Len(order) : order[a] # nextId
      BY <1>3, <2>4
    <3> QED BY <2>2, <2>3, <3>1, <3>2
  <2>6. \A id \in ToSet(order') : id < nextId'
    <3>1. \A i \in 1 .. Len(order) + 1 : order'[i] < nextId'
      BY <1>2, <1>3, <2>2, <2>3, <2>4
    <3> QED BY <2>3, <3>1 DEF ToSet
  <2>7. LoopOK'
    BY <1>1, <1>2, <1>4, <2>1, <2>2, <2>5, <2>6 DEF LoopOK
  <2> QED BY <1>2, <1>5, <2>7
<1> QED BY <1>6, <1>7

(* What a sync makes of the order.                                         *)
LEMMA SyncOrder ==
    ASSUME WorkspaceInductive, SyncSessionOrder
    PROVE  /\ order' \in Seq(Id) /\ ToSet(order') = Ids /\ IsInjective(order')
           /\ InOrder(order, order', Ids)
<1> USE DEF WorkspaceInductive
<1>1. order \in Seq(Nat) /\ IsInjective(order)
  BY OrderOfNumbers DEF LoopOK
<1>2. Ids \in SUBSET Nat /\ Ids \subseteq Id /\ IsFiniteSet(Ids)
  BY IdsAreNumbers, FS_Subset DEF ManagerOK, TableOK, Ids
<1>3. order' = reconcile_session_order(order, Ids)
  BY DEF SyncSessionOrder
<1>4. /\ order' \in Seq(Nat) /\ ToSet(order') = Ids /\ IsInjective(order')
      /\ InOrder(order, order', Ids)
  <2> HIDE DEF WorkspaceInductive
  <2> QED BY <1>1, <1>2, <1>3, ReconciledOrder
<1>5. order' \in Seq(Id)
  <2>1. Len(order') \in Nat /\ order' \in [1 .. Len(order') -> Nat]
    BY <1>4, LenProperties
  <2>2. \A i \in 1 .. Len(order') : order'[i] \in Id
    BY <1>2, <1>4, <2>1 DEF ToSet
  <2>3. order' \in [1 .. Len(order') -> Id]
    BY <2>1, <2>2
  <2> QED BY <2>1, <2>3, SeqDef
<1> QED BY <1>4, <1>5

LEMMA LoopStep ==
    ASSUME WorkspaceInductive, Loop \/ UserSwitches
    PROVE  WorkspaceInductive'
<1> USE DEF WorkspaceInductive
<1>1. UNCHANGED <<table, names, nextId, saved>> /\ mode = "run" /\ mode' \in {"run", "gone"}
  BY DEF Loop, UserSwitches, Iterate, TakePendingSwitch, SyncSessionOrder, CheckSessionExit, At, reloadVars
<1>2. ManagerOK' /\ SavedOK'
  BY <1>1 DEF ManagerOK, NamesAgree, IdsAreFresh, Ids, SavedOK
<1>3. CASE UserSwitches \/ Iterate \/ TakePendingSwitch
  <2>1. UNCHANGED <<order, nextId, mode, lost>>
    BY <1>3 DEF UserSwitches, Iterate, TakePendingSwitch, reloadVars
  <2>2. active' \in Id /\ pending' \in Id \cup {None} /\ pc' \in {"input", "switch", "sync", "exit"}
    BY <1>3 DEF UserSwitches, Iterate, TakePendingSwitch, LoopOK, ManagerOK, TableOK, Ids
  <2> QED BY <1>2, <2>1, <2>2 DEF LoopOK
<1>4. CASE SyncSessionOrder
  <2>1. order' \in Seq(Id) /\ ToSet(order') = Ids /\ IsInjective(order')
    BY <1>4, SyncOrder
  <2>2. UNCHANGED <<active, pending, mode, lost, nextId>> /\ pc' = "exit"
    BY <1>4 DEF SyncSessionOrder, reloadVars
  <2>3. \A id \in ToSet(order') : id < nextId'
    BY <2>1, <2>2 DEF ManagerOK, IdsAreFresh
  <2> QED BY <1>2, <2>1, <2>2, <2>3 DEF LoopOK
<1>5. CASE CheckSessionExit
  <2>1. UNCHANGED <<order, pending, nextId>> /\ pc' = "input"
    BY <1>5 DEF CheckSessionExit
  <2>2. lost' \subseteq Id
    BY <1>5 DEF CheckSessionExit, LoopOK, Alive, ManagerOK, TableOK, Ids
  <2>3. active' \in Id
    <3>1. CASE active' = active
      BY <3>1 DEF LoopOK
    <3>2. CASE Candidates # <<>> /\ active' = Head(Candidates)
      <4>1. Candidates \in Seq(Id)
        BY KeptInOrder DEF Candidates, LoopOK
      <4> QED BY <3>2, <4>1, HeadTailProperties
    <3> QED BY <1>5, <3>1, <3>2 DEF CheckSessionExit
  <2> QED BY <1>1, <1>2, <2>1, <2>2, <2>3 DEF LoopOK
<1> QED BY <1>3, <1>4, <1>5 DEF Loop

-----------------------------------------------------------------------------
(* The live reload *)

LEMMA BeginStep ==
    ASSUME WorkspaceInductive, NEW restart \in BOOLEAN, BeginReload(restart)
    PROVE  WorkspaceInductive'
<1> USE DEF WorkspaceInductive
<1> DEFINE copy == [id \in Ids |-> [table[id] EXCEPT !.tracked = IF table[id].job THEN "job" ELSE "shell"]]
<1>1. /\ UNCHANGED <<table, names, nextId, loopVars, pending, lost>> /\ mode' = "saving"
      /\ saved' = [sessions |-> copy, next |-> 0, restart |-> restart]
  BY DEF BeginReload
<1>2. DOMAIN copy = Ids /\ \A id \in Ids : copy[id] \in SessionRecord /\ copy[id].name = table[id].name
  BY DEF ManagerOK, TableOK, Ids, SessionRecord
<1> HIDE DEF copy
<1>3. ManagerOK'
  BY <1>1 DEF ManagerOK, NamesAgree, IdsAreFresh, Ids
<1>4. LoopOK'
  BY <1>1 DEF LoopOK, loopVars
<1>5. SavedOK'
  <2>1. DOMAIN saved' = {"sessions", "next", "restart"} /\ saved'.sessions = copy
    BY <1>1
  <2>2. TableOK(copy) /\ \A id \in DOMAIN copy : id < nextId
    BY <1>2 DEF TableOK, ManagerOK, IdsAreFresh, Ids
  <2> QED BY <1>1, <1>2, <2>1, <2>2 DEF SavedOK, Ids
<1> QED BY <1>3, <1>4, <1>5

(* The counter that is read covers what is saved and what the order shows. *)
LEMMA CounterStep ==
    ASSUME WorkspaceInductive, SaveCounter
    PROVE  WorkspaceInductive'
<1> USE DEF WorkspaceInductive
<1>1. /\ UNCHANGED <<table, names, nextId, loopVars, pending>> /\ mode = "saving"
      /\ saved' = [saved EXCEPT !.next = nextId]
      /\ mode' \in {"cleared", "gone"} /\ lost' \subseteq Id
  BY DEF SaveCounter, LoopOK, Alive, ManagerOK, TableOK, Ids
<1>2. ManagerOK'
  BY <1>1 DEF ManagerOK, NamesAgree, IdsAreFresh, Ids
<1>3. LoopOK'
  BY <1>1 DEF LoopOK, loopVars
<1>4. /\ DOMAIN saved' = {"sessions", "next", "restart"} /\ saved'.sessions = saved.sessions
      /\ saved'.next = nextId
  BY <1>1 DEF SavedOK
<1>5. nextId \in 1 .. MaxId + 1 /\ nextId <= nextId /\ \A id \in ToSet(order) : id < nextId
  BY IdsAreNumbers DEF ManagerOK, LoopOK
<1>6. SavedOK'
  BY <1>1, <1>4, <1>5 DEF SavedOK, Ids, loopVars
<1> QED BY <1>2, <1>3, <1>6

(* What is restored: the sessions that run and are there, with their names *)
(* and under their ids.                                                    *)
LEMMA RestoredTable ==
    ASSUME WorkspaceInductive, mode = "cleared", restore_sessions
    PROVE  /\ DOMAIN table' = Restored /\ Restored \subseteq Ids \cap DOMAIN saved.sessions
           /\ \A id \in Restored : table'[id] \in SessionRecord /\ table'[id].name = table[id].name
           /\ DOMAIN names' = {table[id].name : id \in Restored} \ {None}
           /\ \A id \in Restored : table[id].name # None => names'[table[id].name] = id
           /\ nextId' = saved.next
<1> USE DEF WorkspaceInductive
<1>1. Restored \subseteq Ids \cap DOMAIN saved.sessions
  BY DEF Restored
<1>2. /\ table' = [id \in Restored |-> RestoredSession(id)] /\ names' = NamesOf(table')
      /\ nextId' = saved.next
  BY DEF restore_sessions, NextIdRestored
<1>3. ASSUME NEW id \in Restored
      PROVE  RestoredSession(id) \in SessionRecord /\ RestoredSession(id).name = table[id].name
  <2> DEFINE s == [saved.sessions[id] EXCEPT !.alive = table[id].alive, !.job = table[id].job]
  <2>1. /\ saved.sessions[id] \in SessionRecord /\ table[id] \in SessionRecord
        /\ saved.sessions[id].name = table[id].name
    BY <1>1 DEF SavedOK, ManagerOK, TableOK, Ids
  <2>2. s \in SessionRecord /\ s.name = table[id].name
    BY <2>1 DEF SessionRecord
  <2> HIDE DEF s
  <2>3. Respawn(s) \in SessionRecord /\ Respawn(s).name = table[id].name
    BY <2>2 DEF Respawn, SessionRecord
  <2>4. RestoredSession(id) = IF saved.restart /\ s.root THEN Respawn(s) ELSE s
    BY DEF RestoredSession, s
  <2> QED BY <2>2, <2>3, <2>4
<1>4. DOMAIN table' = Restored /\ \A id \in Restored :
         table'[id] \in SessionRecord /\ table'[id].name = table[id].name
  BY <1>2, <1>3
<1>5. DOMAIN names' = {table[id].name : id \in Restored} \ {None}
  <2>1. DOMAIN names' = {table'[id].name : id \in DOMAIN table'} \ {None}
    BY <1>2 DEF NamesOf
  <2> QED BY <1>4, <2>1
<1>6. ASSUME NEW id \in Restored, table[id].name # None PROVE names'[table[id].name] = id
  <2> DEFINE n == table[id].name
  <2>1. n \in {table'[x].name : x \in DOMAIN table'} \ {None}
    BY <1>4, <1>6
  <2>2. names'[n] = CHOOSE x \in DOMAIN table' : table'[x].name = n
    BY <1>2, <2>1 DEF NamesOf
  <2>3. \A x \in DOMAIN table' : table'[x].name = n => x = id
    <3> SUFFICES ASSUME NEW x \in Restored, table[x].name = n PROVE x = id
      BY <1>4
    <3>1. names[n] = x /\ names[n] = id
      BY <1>1, <1>6 DEF ManagerOK, NamesAgree
    <3> QED BY <3>1
  <2>4. id \in DOMAIN table' /\ table'[id].name = n
    BY <1>4
  <2> QED BY <2>2, <2>3, <2>4
<1> QED BY <1>1, <1>2, <1>4, <1>5, <1>6

LEMMA RestoreStep ==
    ASSUME WorkspaceInductive, ExecAndRestore
    PROVE  WorkspaceInductive'
<1> USE DEF WorkspaceInductive
<1>1. /\ mode = "cleared" /\ restore_sessions /\ RestoreActive
      /\ pending' = None /\ pc' = "input" /\ mode' = "run" /\ saved' = NothingSaved
      /\ lost' = lost \cup (Alive \ Restored) /\ order' = order
  BY DEF ExecAndRestore
<1>2. /\ DOMAIN table' = Restored /\ Restored \subseteq Ids \cap DOMAIN saved.sessions
      /\ \A id \in Restored : table'[id] \in SessionRecord /\ table'[id].name = table[id].name
      /\ DOMAIN names' = {table[id].name : id \in Restored} \ {None}
      /\ \A id \in Restored : table[id].name # None => names'[table[id].name] = id
      /\ nextId' = saved.next
  <2> HIDE DEF WorkspaceInductive
  <2> QED BY <1>1, RestoredTable
<1>3. ManagerOK'
  <2>1. TableOK(table)'
    BY <1>2 DEF ManagerOK, TableOK, Ids
  <2>2. Cardinality(DOMAIN table') <= MaxSessions
    <3>1. IsFiniteSet(Ids) /\ Restored \in SUBSET Ids
      BY <1>2, IdsAreNumbers, FS_Subset DEF ManagerOK, TableOK, Ids
    <3>2. IsFiniteSet(Restored) /\ Cardinality(Restored) <= Cardinality(Ids)
      BY <3>1, FS_Subset
    <3>3. Cardinality(Ids) \in Nat /\ Cardinality(Restored) \in Nat /\ MaxSessions \in Nat
      BY <3>1, <3>2, FS_CardinalityType, BoundAssumption
    <3> QED BY <1>2, <3>2, <3>3 DEF ManagerOK
  <2>3. DOMAIN names' \subseteq Name
    <3>1. \A id \in Restored : table[id].name \in Name \cup {None}
      BY <1>2 DEF ManagerOK, TableOK, Ids, SessionRecord
    <3> QED BY <1>2, <3>1
  <2>4. NamesAgree'
    BY <1>2 DEF NamesAgree, Ids
  <2>5. nextId' \in 1 .. MaxId + 1 /\ \A id \in Restored : id < nextId'
    BY <1>1, <1>2 DEF SavedOK
  <2> QED BY <1>2, <2>1, <2>2, <2>3, <2>4, <2>5 DEF ManagerOK, IdsAreFresh, Ids
<1>4. LoopOK'
  <2>1. active' \in Id
    <3> DEFINE root == {id \in DOMAIN saved.sessions : saved.sessions[id].root}
    <3>1. DOMAIN saved.sessions \subseteq Id
      BY <1>1 DEF SavedOK, TableOK
    <3>2. active' = IF saved.restart /\ root # {} THEN CHOOSE id \in root : TRUE ELSE active
      BY <1>1 DEF RestoreActive
    <3>3. root # {} => (CHOOSE id \in root : TRUE) \in Id
      BY <3>1
    <3> HIDE DEF root
    <3> QED BY <3>2, <3>3 DEF LoopOK
  <2>2. \A id \in ToSet(order) : id < nextId'
    BY <1>1, <1>2 DEF SavedOK
  <2>3. lost' \subseteq Id
    BY <1>1 DEF LoopOK, Alive, ManagerOK, TableOK, Ids
  <2> QED BY <1>1, <2>1, <2>2, <2>3 DEF LoopOK
<1>5. SavedOK'
  BY <1>1 DEF SavedOK, NothingSaved
<1> QED BY <1>3, <1>4, <1>5

LEMMA FailStep ==
    ASSUME WorkspaceInductive, ExecFails \/ UNCHANGED vars
    PROVE  WorkspaceInductive'
<1> USE DEF WorkspaceInductive
<1>1. CASE ExecFails
  <2>1. /\ UNCHANGED <<table, names, nextId, loopVars, pending, saved>> /\ mode' = "gone"
        /\ lost' \subseteq Id
    BY <1>1 DEF ExecFails, LoopOK, Alive, ManagerOK, TableOK, Ids
  <2> QED BY <2>1 DEF ManagerOK, NamesAgree, IdsAreFresh, Ids, LoopOK, SavedOK, loopVars
<1>2. CASE UNCHANGED vars
  BY <1>2 DEF vars, loopVars, reloadVars, ManagerOK, NamesAgree, IdsAreFresh, Ids, LoopOK, SavedOK
<1> QED BY <1>1, <1>2

-----------------------------------------------------------------------------
(* The theorems *)

LEMMA InductiveStep == WorkspaceInductive /\ [Next]_vars => WorkspaceInductive'
<1> SUFFICES ASSUME WorkspaceInductive, [Next]_vars PROVE WorkspaceInductive'
  OBVIOUS
<1>1. CASE Loop \/ UserSwitches
  BY <1>1, LoopStep
<1>2. CASE UserCreates
  BY <1>2, CreateStep
<1>3. CASE \/ \E name \in Name \cup {None} : McpLaunch(name)
           \/ \E id \in Id : McpKill(id) \/ McpSwitch(id) \/ ChildStep(id)
  BY <1>3, ThreadsStep
<1>4. CASE \E restart \in BOOLEAN : BeginReload(restart)
  BY <1>4, BeginStep
<1>5. CASE SaveCounter
  BY <1>5, CounterStep
<1>6. CASE ExecAndRestore
  BY <1>6, RestoreStep
<1>7. CASE ExecFails \/ UNCHANGED vars
  BY <1>7, FailStep
<1> QED BY <1>1, <1>2, <1>3, <1>4, <1>5, <1>6, <1>7 DEF Next, ChildStep

(* The manager, the loop and what a reload saves fit together in every     *)
(* interleaving of the event loop with the MCP threads.                    *)
THEOREM WorkspaceAlwaysInductive == Spec => []WorkspaceInductive
BY InitInductive, InductiveStep, PTL DEF Spec

(* The session table, the map of names and the counter of SessionManager   *)
(* agree, for any names, limits and number of reloads.                     *)
THEOREM WorkspaceFits == Spec => []WorkspaceInv
<1>1. WorkspaceInductive => WorkspaceInv
  <2> SUFFICES ASSUME WorkspaceInductive PROVE WorkspaceInv
    OBVIOUS
  <2>1. ToSet(order) \subseteq Id
    BY OrderOfNumbers DEF WorkspaceInductive
  <2> QED BY <2>1 DEF WorkspaceInductive, ManagerOK, LoopOK, TableOK, Ids, WorkspaceInv, TypeOK
<1> QED BY <1>1, WorkspaceAlwaysInductive, PTL

(* A sync (reconcile_session_order) leaves exactly the sessions there are, *)
(* once each, and those that stay in the order they had.                   *)
THEOREM SyncFollows == Spec => OrderFollows
<1> DEFINE Follows ==
      At("sync") /\ pc' = "exit" =>
          /\ ToSet(order') = Ids /\ IsInjective(order')
          /\ \A i, j \in DOMAIN order : i < j /\ {order[i], order[j]} \subseteq Ids =>
                \E k, l \in DOMAIN order' :
                    k < l /\ order'[k] = order[i] /\ order'[l] = order[j]
<1>1. WorkspaceInductive /\ [Next]_vars => [Follows]_vars
  <2> SUFFICES ASSUME WorkspaceInductive, Next, At("sync"), pc' = "exit" PROVE Follows
    OBVIOUS
  <2>1. SyncSessionOrder
    BY DEF At, Next, Loop, Iterate, TakePendingSwitch, CheckSessionExit, UserCreates, UserSwitches,
           McpLaunch, McpKill, McpSwitch, StartJob, EndJob, ShellExits, Detect, BeginReload,
           SaveCounter, ExecAndRestore, ExecFails, loopVars
  <2>2. ToSet(order') = Ids /\ IsInjective(order') /\ InOrder(order, order', Ids)
    BY <2>1, SyncOrder
  <2> QED BY <2>2 DEF InOrder
<1> QED BY <1>1, WorkspaceAlwaysInductive, PTL DEF Spec, OrderFollows

(* A reload that succeeds keeps every session that was saved as running    *)
(* and is still there, with its id, its name and its place: whatever the   *)
(* MCP threads launched and killed while the state was saved.              *)
THEOREM ReloadKeeps == Spec => ReloadKeepsSessions
<1> DEFINE Keeps ==
      mode = "cleared" /\ mode' = "run" =>
          \A id \in Ids \cap DOMAIN saved.sessions :
              saved.sessions[id].status = "running" =>
                  /\ id \in DOMAIN table' /\ table'[id].name = table[id].name
                  /\ table[id].name # None => names'[table[id].name] = id
                  /\ id \in ToSet(order) => id \in ToSet(order')
<1>1. WorkspaceInductive /\ [Next]_vars => [Keeps]_vars
  <2> SUFFICES ASSUME WorkspaceInductive, Next, mode = "cleared", mode' = "run",
                      NEW id \in Ids \cap DOMAIN saved.sessions,
                      saved.sessions[id].status = "running"
               PROVE  /\ id \in DOMAIN table' /\ table'[id].name = table[id].name
                      /\ table[id].name # None => names'[table[id].name] = id
                      /\ id \in ToSet(order) => id \in ToSet(order')
    OBVIOUS
  <2>1. ExecAndRestore
    BY DEF At, Next, Loop, Iterate, TakePendingSwitch, SyncSessionOrder, CheckSessionExit,
           UserCreates, UserSwitches, McpLaunch, McpKill, McpSwitch, StartJob, EndJob, ShellExits,
           Detect, BeginReload, SaveCounter, ExecFails, reloadVars
  <2>2. restore_sessions /\ order' = order
    BY <2>1 DEF ExecAndRestore
  <2>3. /\ DOMAIN table' = Restored
        /\ \A x \in Restored : table'[x].name = table[x].name
        /\ \A x \in Restored : table[x].name # None => names'[table[x].name] = x
    BY <2>2, RestoredTable
  <2>4. id \in Restored
    BY DEF Restored
  <2> QED BY <2>2, <2>3, <2>4
<1> QED BY <1>1, WorkspaceAlwaysInductive, PTL DEF Spec, ReloadKeepsSessions

=============================================================================
