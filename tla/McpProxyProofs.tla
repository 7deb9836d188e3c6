---------------------------- MODULE McpProxyProofs ----------------------------
(***************************************************************************)
(* Proofs about McpProxy and ProcessControl for any requests, connections, *)
(* cancels and reloads: a tool call is carried out and answered at most    *)
(* once, a cancel is not in the token any more when the handler takes the  *)
(* next one, and a session said to have exited has no shell any more.      *)
(***************************************************************************)
EXTENDS MCMcpProxy, SequenceTheorems, TLAPS

-----------------------------------------------------------------------------
(* Where a request is *)

Once(q, m) == \A i, j \in DOMAIN q : q[i] = m /\ q[j] = m => i = j

(* The places, those of the proxy and the agent and those of a connection; *)
(* in the first ones a request has not been carried out yet.               *)
Single == {"unsent", "line", "retry", "response"}
Before == {"unsent", "line", "retry", "up", "inbox", "work"}
Place == Single \cup Before \cup {"held", "down"}

Holds(p, c, r) ==
    \/ p = "unsent" /\ r \in unsent
    \/ p = "line" /\ Line(r) \in ToSet(chan)
    \/ p = "retry" /\ r = retry
    \/ p = "up" /\ r \in ToSet(up[c])
    \/ p = "inbox" /\ r \in ToSet(inbox[c])
    \/ p = "work" /\ r = work[c]
    \/ p = "held" /\ r = held[c] /\ work[c] = "drain"
    \/ p = "down" /\ r \in ToSet(down[c])
    \/ p = "response" /\ Response(r) \in ToSet(chan)

(* A request is in one place.                                              *)
OnePlace(r) ==
    \A p, q \in Place, c, d \in Conn :
        Holds(p, c, r) /\ Holds(q, d, r) => p = q /\ (p \in Single \/ c = d)

(* It has been carried out once if it is past the server, and it has not   *)
(* been answered as long as it is anywhere.                                *)
Counted(r) ==
    /\ runs[r] \in 0 .. 1 /\ answers[r] \in 0 .. runs[r]
    /\ \A p \in Place, c \in Conn : Holds(p, c, r) =>
          IF p \in Before THEN runs[r] = 0 ELSE runs[r] = 1 /\ answers[r] = 0

Queued(r) ==
    /\ Once(chan, Line(r)) /\ Once(chan, Response(r))
    /\ \A c \in Conn : Once(up[c], r) /\ Once(inbox[c], r) /\ Once(down[c], r)

Tracked == \A r \in Request : OnePlace(r) /\ Counted(r) /\ Queued(r)

-----------------------------------------------------------------------------
(* The rest of the inductive invariant *)

Message == Request \cup {Init_, Cancel}

TypesOK ==
    /\ unsent \subseteq Request /\ excused \subseteq Request \ unsent
    /\ aborted \subseteq Request \ unsent
    /\ cancels \in 0 .. MaxCancels /\ reloads \in 0 .. MaxReloads
    /\ answers \in [Request -> Nat] /\ runs \in [Request -> Nat]
    /\ chan \in Seq(Event)
    /\ mode \in {"run", "connect", "reinit", "done", "failed"}
    /\ retry \in Request \cup {Cancel, None}
    /\ retry # None => mode \in {"connect", "reinit"}
    /\ draining \in BOOLEAN /\ listening \in BOOLEAN
    /\ sock \in Conn /\ readers \subseteq Conn
    /\ link \in [Conn -> {"unused", "open", "shut", "closed", "lost"}]
    /\ up \in [Conn -> Seq(Message)] /\ inbox \in [Conn -> Seq(Message \cup {Eof})]
    /\ down \in [Conn -> Seq(Request \cup {Init_})]
    /\ work \in [Conn -> Request \cup {Init_, "recv", "drain"}]
    /\ held \in [Conn -> Request \cup {Init_, None}]
    /\ \A c \in Conn : /\ held[c] = None <=> work[c] = "recv"
                       /\ work[c] \notin {"recv", "drain"} => held[c] = work[c]
    /\ token \in [Conn -> BOOLEAN]

(* Nothing is on a connection that is not used, and nothing but the        *)
(* greeting on one that is greeted: it is in one of five places, or the    *)
(* connection was lost.                                                    *)
Empty(c) == up[c] = <<>> /\ inbox[c] = <<>> /\ work[c] = "recv" /\ down[c] = <<>>

Greeted(c) ==
    \/ Empty(c)
    \/ up[c] = <<Init_>> /\ inbox[c] = <<>> /\ work[c] = "recv" /\ down[c] = <<>>
    \/ up[c] = <<>> /\ inbox[c] = <<Init_>> /\ work[c] = "recv" /\ down[c] = <<>>
    \/ up[c] = <<>> /\ inbox[c] = <<>> /\ work[c] = Init_ /\ down[c] = <<>>
    \/ up[c] = <<>> /\ inbox[c] = <<>> /\ work[c] = "drain" /\ held[c] = Init_ /\ down[c] = <<>>
    \/ up[c] = <<>> /\ inbox[c] = <<>> /\ work[c] = "recv" /\ down[c] = <<Init_>>

(* The answer to the greeting is read before there is a reader.            *)
NoGreeting(c) ==
    Init_ \notin ToSet(up[c]) \cup ToSet(inbox[c]) \cup ToSet(down[c]) \cup {held[c]}

ConnectionsOK ==
    /\ \A c \in Conn : /\ link[c] = "unused" => Empty(c)
                       /\ c \in readers => NoGreeting(c) /\ link[c] # "unused"
    /\ link[sock] # "unused"
    /\ mode = "reinit" => Greeted(sock) /\ link[sock] \in {"open", "lost"} /\ sock \notin readers
    /\ ~draining /\ link[sock] = "open" /\ mode # "reinit" => sock \in readers

(* A cancel comes after the requests that were written before it: one that *)
(* is not excused follows every cancel in the channel, and is on no        *)
(* connection ahead of one; nor is it the one the handler thread has taken *)
(* when the token is set.                                                  *)
ChannelCovered ==
    \A i \in DOMAIN chan : chan[i] = Line(Cancel) =>
        \A r \in Request \ (unsent \cup excused) :
            \E j \in DOMAIN chan : j > i /\ chan[j] = Line(r)

ConnectionCovered(c) ==
    /\ \A i \in DOMAIN up[c] : up[c][i] = Cancel =>
          /\ \A j \in 1 .. i - 1 : up[c][j] \in Request => up[c][j] \in excused
          /\ \A r \in Request : r \in ToSet(inbox[c]) \/ r = held[c] => r \in excused
    /\ token[c] /\ held[c] \in ToolCall => held[c] \in excused

Covered == ChannelCovered /\ \A c \in Conn : ConnectionCovered(c)

ProxyInductive == TypesOK /\ Tracked /\ ConnectionsOK /\ Covered

-----------------------------------------------------------------------------
(* Sequences as queues *)

LEMMA AppendQueue ==
    ASSUME NEW S, NEW q \in Seq(S), NEW e \in S
    PROVE  /\ Append(q, e) \in Seq(S) /\ ToSet(Append(q, e)) = ToSet(q) \cup {e}
           /\ \A m : Once(q, m) /\ (m # e \/ m \notin ToSet(q)) => Once(Append(q, e), m)
<1> DEFINE p == Append(q, e)
<1>1. /\ p \in Seq(S) /\ Len(p) = Len(q) + 1 /\ p[Len(q) + 1] = e
      /\ \A i \in 1 .. Len(q) : p[i] = q[i]
  BY AppendProperties
<1>2. Len(q) \in Nat /\ DOMAIN q = 1 .. Len(q) /\ DOMAIN p = 1 .. Len(q) + 1
  BY <1>1, LenProperties
<1> HIDE DEF p
<1>3. ToSet(p) = ToSet(q) \cup {e}
  <2>1. ASSUME NEW x \in ToSet(p) PROVE x \in ToSet(q) \cup {e}
    <3>1. PICK i \in 1 .. Len(q) + 1 : x = p[i]
      BY <1>2 DEF ToSet
    <3>2. i \in 1 .. Len(q) \/ i = Len(q) + 1
      BY <1>2
    <3> QED BY <1>1, <1>2, <3>1, <3>2 DEF ToSet
  <2>2. e \in ToSet(p)
    <3>1. Len(q) + 1 \in DOMAIN p
      BY <1>2
    <3> QED BY <1>1, <3>1 DEF ToSet
  <2>3. ASSUME NEW x \in ToSet(q) PROVE x \in ToSet(p)
    <3>1. PICK i \in 1 .. Len(q) : x = q[i]
      BY <1>2 DEF ToSet
    <3>2. i \in DOMAIN p /\ p[i] = x
      BY <1>1, <1>2, <3>1
    <3> QED BY <3>2 DEF ToSet
  <2> QED BY <2>1, <2>2, <2>3
<1>4. ASSUME NEW m, Once(q, m), m # e \/ m \notin ToSet(q) PROVE Once(p, m)
  <2> SUFFICES ASSUME NEW i \in 1 .. Len(q) + 1, NEW j \in 1 .. Len(q) + 1, p[i] = m, p[j] = m
               PROVE  i = j
    BY <1>2 DEF Once
  <2>1. \A k \in 1 .. Len(q) : q[k] \in ToSet(q)
    BY <1>2 DEF ToSet
  <2>2. \A k, l \in 1 .. Len(q) : q[k] = m /\ q[l] = m => k = l
    BY <1>2, <1>4 DEF Once
  <2>3. \A k \in 1 .. Len(q) + 1 : k \in 1 .. Len(q) \/ k = Len(q) + 1
    BY <1>2
  <2> QED BY <1>1, <1>4, <2>1, <2>2, <2>3
<1> QED BY <1>1, <1>3, <1>4 DEF p

LEMMA TailQueue ==
    ASSUME NEW S, NEW q \in Seq(S), q # <<>>
    PROVE  /\ Head(q) \in S /\ Head(q) \in ToSet(q) /\ Tail(q) \in Seq(S)
           /\ ToSet(q) = ToSet(Tail(q)) \cup {Head(q)}
           /\ \A m : Once(q, m) => Once(Tail(q), m) /\ (m = Head(q) => m \notin ToSet(Tail(q)))
<1>1. /\ Tail(q) \in Seq(S) /\ Len(Tail(q)) = Len(q) - 1
      /\ \A i \in 1 .. Len(Tail(q)) : Tail(q)[i] = q[i + 1]
  BY HeadTailProperties
<1>2. /\ Len(q) \in Nat \ {0} /\ DOMAIN q = 1 .. Len(q) /\ DOMAIN Tail(q) = 1 .. Len(q) - 1
      /\ \A i \in 1 .. Len(q) : q[i] \in S
  BY <1>1, LenProperties, EmptySeq, ElementOfSeq
<1>3. Head(q) = q[1] /\ 1 \in DOMAIN q /\ Head(q) \in S
  BY <1>2
<1> DEFINE t == Tail(q)
<1>4. t \in Seq(S) /\ DOMAIN t = 1 .. Len(q) - 1 /\ \A i \in 1 .. Len(q) - 1 : t[i] = q[i + 1]
  BY <1>1, <1>2
<1> HIDE DEF t
<1>5. \A i \in 1 .. Len(q) : i = 1 \/ (i - 1 \in 1 .. Len(q) - 1 /\ t[i - 1] = q[i])
  BY <1>2, <1>4
<1>6. \A i \in 1 .. Len(q) - 1 : i + 1 \in 1 .. Len(q) /\ i + 1 # 1
  BY <1>2
<1>7. ToSet(q) = ToSet(t) \cup {Head(q)}
  <2>1. ASSUME NEW x \in ToSet(q) PROVE x \in ToSet(t) \cup {Head(q)}
    <3>1. PICK i \in 1 .. Len(q) : x = q[i]
      BY <1>2 DEF ToSet
    <3> QED BY <1>3, <1>4, <1>5, <3>1 DEF ToSet
  <2>2. ASSUME NEW x \in ToSet(t) PROVE x \in ToSet(q)
    <3>1. PICK i \in 1 .. Len(q) - 1 : x = t[i]
      BY <1>4 DEF ToSet
    <3> QED BY <1>2, <1>4, <1>6, <3>1 DEF ToSet
  <2> QED BY <1>3, <2>1, <2>2 DEF ToSet
<1>8. ASSUME NEW m, Once(q, m) PROVE Once(t, m) /\ (m = Head(q) => m \notin ToSet(t))
  <2>1. \A i, j \in 1 .. Len(q) : q[i] = m /\ q[j] = m => i = j
    BY <1>2, <1>8 DEF Once
  <2>2. ASSUME NEW i \in 1 .. Len(q) - 1, NEW j \in 1 .. Len(q) - 1, t[i] = m, t[j] = m
        PROVE  i = j
    <3>1. i + 1 = j + 1
      BY <1>4, <1>6, <2>1, <2>2
    <3> QED BY <3>1
  <2>3. ASSUME m = Head(q), NEW i \in 1 .. Len(q) - 1 PROVE t[i] # m
    BY <1>2, <1>3, <1>4, <1>6, <2>1, <2>3
  <2> QED BY <1>4, <2>2, <2>3 DEF Once, ToSet
<1> QED BY <1>3, <1>4, <1>7, <1>8 DEF t, ToSet

LEMMA EmptyQueue ==
    <<>> \in Seq({}) /\ ToSet(<<>>) = {} /\ \A S : <<>> \in Seq(S)
    /\ \A m : Once(<<>>, m)
BY EmptySeq DEF ToSet, Once

LEMMA OneQueue ==
    ASSUME NEW S, NEW e \in S
    PROVE  /\ <<e>> \in Seq(S) /\ ToSet(<<e>>) = {e} /\ <<e>> # <<>>
           /\ \A m : Once(<<e>>, m) /\ Head(<<e>>) = e /\ Tail(<<e>>) = <<>>
BY DEF ToSet, Once

(* The queues f of the connections become g: e is written on k, or the     *)
(* head of what is on k is read.                                           *)
WrittenOn(S, f, k, e, g) ==
    f \in [Conn -> Seq(S)] /\ k \in Conn /\ e \in S /\ g = [f EXCEPT ![k] = Append(@, e)]

ReadFrom(S, f, k, g) ==
    f \in [Conn -> Seq(S)] /\ k \in Conn /\ f[k] # <<>> /\ g = [f EXCEPT ![k] = Tail(@)]

LEMMA AppendAt ==
    ASSUME NEW S, NEW f, NEW k, NEW e, NEW g, WrittenOn(S, f, k, e, g)
    PROVE  /\ g \in [Conn -> Seq(S)] /\ g[k] = Append(f[k], e)
           /\ \A c \in Conn : c # k => g[c] = f[c]
           /\ ToSet(g[k]) = ToSet(f[k]) \cup {e}
           /\ \A c \in Conn : \A m : Once(f[c], m) /\ (c = k /\ m = e => m \notin ToSet(f[c]))
                                   => Once(g[c], m)
<1>1. /\ f \in [Conn -> Seq(S)] /\ k \in Conn /\ e \in S /\ g = [f EXCEPT ![k] = Append(@, e)]
      /\ f[k] \in Seq(S)
  BY DEF WrittenOn
<1>2. /\ Append(f[k], e) \in Seq(S) /\ ToSet(Append(f[k], e)) = ToSet(f[k]) \cup {e}
      /\ \A m : Once(f[k], m) /\ (m # e \/ m \notin ToSet(f[k])) => Once(Append(f[k], e), m)
  BY <1>1, AppendQueue
<1>3. g[k] = Append(f[k], e) /\ \A c \in Conn : c # k => g[c] = f[c]
  BY <1>1
<1>4. g \in [Conn -> Seq(S)]
  BY <1>1, <1>2
<1> QED BY <1>2, <1>3, <1>4

HeadTaken(S, f, k, g) ==
    /\ g \in [Conn -> Seq(S)] /\ g[k] = Tail(f[k])
    /\ \A c \in Conn : c # k => g[c] = f[c]
    /\ Head(f[k]) \in S /\ Head(f[k]) \in ToSet(f[k])
    /\ ToSet(f[k]) = ToSet(g[k]) \cup {Head(f[k])}
    /\ \A m : Once(f[k], m) /\ m = Head(f[k]) => m \notin ToSet(g[k])
    /\ \A c \in Conn : \A m : Once(f[c], m) => Once(g[c], m)

LEMMA TailAt ==
    ASSUME NEW S, NEW f, NEW k, NEW g, ReadFrom(S, f, k, g)
    PROVE  HeadTaken(S, f, k, g)
<1>1. /\ f \in [Conn -> Seq(S)] /\ k \in Conn /\ f[k] # <<>> /\ g = [f EXCEPT ![k] = Tail(@)]
      /\ f[k] \in Seq(S)
  BY DEF ReadFrom
<1>2. /\ Head(f[k]) \in S /\ Head(f[k]) \in ToSet(f[k]) /\ Tail(f[k]) \in Seq(S)
      /\ ToSet(f[k]) = ToSet(Tail(f[k])) \cup {Head(f[k])}
      /\ \A m : Once(f[k], m) => Once(Tail(f[k]), m) /\ (m = Head(f[k]) => m \notin ToSet(Tail(f[k])))
  BY <1>1, TailQueue
<1>3. g[k] = Tail(f[k]) /\ \A c \in Conn : c # k => g[c] = f[c]
  BY <1>1
<1>4. g \in [Conn -> Seq(S)]
  BY <1>1, <1>2
<1>5. \A c \in Conn : \A m : Once(f[c], m) => Once(g[c], m)
  BY <1>2, <1>3
<1> QED BY <1>2, <1>3, <1>4, <1>5 DEF HeadTaken

-----------------------------------------------------------------------------
(* A request stays where it is, is lost, or moves from one place to        *)
(* another                                                                 *)

LEMMA Stays ==
    ASSUME NEW r \in Request, OnePlace(r), Counted(r),
           \A p \in Place, c \in Conn : Holds(p, c, r)' => Holds(p, c, r),
           runs'[r] = runs[r], answers'[r] = answers[r]
    PROVE  OnePlace(r)' /\ Counted(r)'
<1>1. \A p, q \in Place, c, d \in Conn :
        Holds(p, c, r)' /\ Holds(q, d, r)' => p = q /\ (p \in Single \/ c = d)
  BY DEF OnePlace
<1>2. /\ runs'[r] \in 0 .. 1 /\ answers'[r] \in 0 .. runs'[r]
      /\ \A p \in Place, c \in Conn : Holds(p, c, r)' =>
           IF p \in Before THEN runs'[r] = 0 ELSE runs'[r] = 1 /\ answers'[r] = 0
  BY DEF Counted
<1>3. OnePlace(r)'
  BY <1>1 DEF OnePlace
<1>4. Counted(r)'
  BY <1>2 DEF Counted
<1> QED BY <1>3, <1>4

Moved(r, from, to, k) ==
    /\ Holds(from, k, r)
    /\ \A p \in Place, c \in Conn : Holds(p, c, r)' =>
          \/ p = to /\ (p \in Single \/ c = k)
          \/ Holds(p, c, r) /\ ~(p = from /\ (p \in Single \/ c = k))
    /\ to \in Before => from \in Before
    /\ runs'[r] = IF from \in Before /\ to \notin Before THEN runs[r] + 1 ELSE runs[r]
    /\ answers'[r] = answers[r]

LEMMA Moves ==
    ASSUME NEW r \in Request, OnePlace(r), Counted(r), NEW p0 \in Place, NEW p1 \in Place,
           NEW k \in Conn, Moved(r, p0, p1, k)
    PROVE  OnePlace(r)' /\ Counted(r)'
<1>1. \A p \in Place, c \in Conn :
        Holds(p, c, r) => p = p0 /\ (p \in Single \/ c = k)
  BY DEF OnePlace, Moved
<1>2. \A p \in Place, c \in Conn : Holds(p, c, r)' => p = p1 /\ (p \in Single \/ c = k)
  BY <1>1 DEF Moved
<1>3. \A p, q \in Place, c, d \in Conn :
        Holds(p, c, r)' /\ Holds(q, d, r)' => p = q /\ (p \in Single \/ c = d)
  BY <1>2
<1>4. IF p0 \in Before THEN runs[r] = 0 /\ answers[r] = 0 ELSE runs[r] = 1 /\ answers[r] = 0
  BY DEF Counted, Moved
<1>5. /\ runs'[r] \in 0 .. 1 /\ answers'[r] \in 0 .. runs'[r]
      /\ IF p1 \in Before THEN runs'[r] = 0 ELSE runs'[r] = 1 /\ answers'[r] = 0
  BY <1>4 DEF Moved
<1>6. OnePlace(r)'
  BY <1>3 DEF OnePlace
<1>7. Counted(r)'
  BY <1>2, <1>5 DEF Counted
<1> QED BY <1>6, <1>7

LEMMA AnEvent ==
    /\ \A m \in Request \cup {Cancel} : Line(m) \in Event
    /\ \A m \in Request : Response(m) \in Event
    /\ SocketError \in Event /\ StdinEof \in Event
    /\ \A m, n : (Line(m) = Line(n) => m = n) /\ (Response(m) = Response(n) => m = n)
    /\ \A m, n : Line(m) # Response(n) /\ Line(m) # SocketError /\ Line(m) # StdinEof
                 /\ Response(m) # SocketError /\ Response(m) # StdinEof
<1>1. \A m, n : Line(m) = Line(n) => m = n
  <2> TAKE m, n
  <2>1. Line(m).msg = m /\ Line(n).msg = n
    BY DEF Line
  <2> QED BY <2>1
<1>2. \A m, n : Response(m) = Response(n) => m = n
  <2> TAKE m, n
  <2>1. Response(m).msg = m /\ Response(n).msg = n
    BY DEF Response
  <2> QED BY <2>1
<1>3. \A m, n : /\ Line(m) # Response(n) /\ Line(m) # SocketError /\ Line(m) # StdinEof
                /\ Response(m) # SocketError /\ Response(m) # StdinEof
  <2> TAKE m, n
  <2>1. /\ Line(m).type = "line" /\ Response(n).type = "response" /\ Response(m).type = "response"
        /\ SocketError.type = "error" /\ StdinEof.type = "eof"
    BY DEF Line, Response, SocketError, StdinEof
  <2> QED BY <2>1
<1> QED BY <1>1, <1>2, <1>3 DEF Event

LEMMA ChannelAppend ==
    ASSUME TypesOK, ChannelCovered, NEW e \in Event, e # Line(Cancel),
           chan' = Append(chan, e), UNCHANGED <<unsent, excused>>
    PROVE  ChannelCovered'
<1>1. chan \in Seq(Event)
  BY DEF TypesOK
<1>2. /\ chan' \in Seq(Event) /\ Len(chan') = Len(chan) + 1 /\ chan'[Len(chan) + 1] = e
      /\ \A i \in 1 .. Len(chan) : chan'[i] = chan[i]
  BY <1>1, AppendProperties
<1>3. Len(chan) \in Nat /\ DOMAIN chan = 1 .. Len(chan) /\ DOMAIN chan' = 1 .. Len(chan) + 1
  BY <1>1, <1>2, LenProperties
<1>4. ASSUME NEW i \in 1 .. Len(chan) + 1, chan'[i] = Line(Cancel),
             NEW r \in Request \ (unsent \cup excused)
      PROVE  \E j \in 1 .. Len(chan) + 1 : j > i /\ chan'[j] = Line(r)
  <2>1. i \in 1 .. Len(chan) /\ chan[i] = Line(Cancel)
    BY <1>2, <1>3, <1>4
  <2>2. PICK j \in 1 .. Len(chan) : j > i /\ chan[j] = Line(r)
    BY <1>3, <2>1 DEF ChannelCovered
  <2> QED BY <1>2, <1>3, <2>2
<1> QED BY <1>3, <1>4 DEF ChannelCovered

LEMMA ChannelTail ==
    ASSUME TypesOK, ChannelCovered, chan # <<>>, chan' = Tail(chan), UNCHANGED <<unsent, excused>>
    PROVE  ChannelCovered'
<1>1. chan \in Seq(Event)
  BY DEF TypesOK
<1>2. /\ chan' \in Seq(Event) /\ Len(chan') = Len(chan) - 1
      /\ \A i \in 1 .. Len(chan') : chan'[i] = chan[i + 1]
  BY <1>1, HeadTailProperties
<1>3. Len(chan) \in Nat \ {0} /\ DOMAIN chan = 1 .. Len(chan) /\ DOMAIN chan' = 1 .. Len(chan) - 1
  BY <1>1, <1>2, LenProperties, EmptySeq
<1>4. ASSUME NEW i \in 1 .. Len(chan) - 1, chan'[i] = Line(Cancel),
             NEW r \in Request \ (unsent \cup excused)
      PROVE  \E j \in 1 .. Len(chan) - 1 : j > i /\ chan'[j] = Line(r)
  <2>1. i + 1 \in 1 .. Len(chan) /\ chan[i + 1] = Line(Cancel)
    BY <1>2, <1>3, <1>4
  <2>2. PICK j \in 1 .. Len(chan) : j > i + 1 /\ chan[j] = Line(r)
    BY <1>3, <1>4, <2>1 DEF ChannelCovered
  <2>3. PICK k \in 1 .. Len(chan) - 1 : k + 1 = j
    <3>1. j - 1 \in 1 .. Len(chan) - 1 /\ (j - 1) + 1 = j
      BY <1>3, <2>2
    <3> QED BY <3>1
  <2>4. chan'[k] = Line(r) /\ k > i
    BY <1>2, <1>3, <2>2, <2>3
  <2> QED BY <2>4
<1>5. unsent' = unsent /\ excused' = excused /\ DOMAIN chan' = 1 .. Len(chan) - 1
  BY <1>3
<1> QED BY <1>4, <1>5 DEF ChannelCovered

LEMMA Unmoved ==
    ASSUME Tracked, UNCHANGED <<unsent, answers, runs, up, down, inbox, work, held>>,
           retry' \in {retry, None},
           \A r \in Request : /\ Line(r) \in ToSet(chan') => Line(r) \in ToSet(chan)
                              /\ Response(r) \in ToSet(chan') => Response(r) \in ToSet(chan)
                              /\ Once(chan', Line(r)) /\ Once(chan', Response(r))
    PROVE  Tracked'
<1> SUFFICES ASSUME NEW r \in Request PROVE OnePlace(r)' /\ Counted(r)' /\ Queued(r)'
  BY DEF Tracked
<1>1. OnePlace(r) /\ Counted(r) /\ Queued(r)
  BY DEF Tracked
<1>2. \A p \in Place, c \in Conn : Holds(p, c, r)' => Holds(p, c, r)
  BY RequestAssumption DEF Holds
<1>3. OnePlace(r)' /\ Counted(r)'
  BY <1>1, <1>2, Stays
<1>4. Queued(r)'
  BY <1>1 DEF Queued
<1> QED BY <1>3, <1>4

-----------------------------------------------------------------------------
(* The agent's steps *)

LEMMA SendRequestKeeps ==
    ASSUME ProxyInductive, NEW r0 \in Request, SendRequest(r0)
    PROVE  ProxyInductive'
<1> USE DEF agentVars, proxyVars, sockVars, serverVars, historyVars
<1>1. /\ unsent' = unsent \ {r0} /\ r0 \in unsent /\ chan' = Append(chan, Line(r0))
      /\ UNCHANGED <<cancels, answers, mode, retry, draining, sock, readers, sockVars, serverVars,
                     historyVars>>
  BY DEF SendRequest
<1>2. chan \in Seq(Event) /\ Line(r0) \in Event
  BY AnEvent DEF ProxyInductive, TypesOK
<1>3. /\ chan' \in Seq(Event) /\ ToSet(chan') = ToSet(chan) \cup {Line(r0)}
      /\ \A m : Once(chan, m) /\ (m # Line(r0) \/ m \notin ToSet(chan)) => Once(chan', m)
  BY <1>1, <1>2, AppendQueue
<1>4. TypesOK'
  BY <1>1, <1>3 DEF ProxyInductive, TypesOK
<1>5. ASSUME NEW r \in Request PROVE OnePlace(r)' /\ Counted(r)'
  <2> DEFINE k == sock
  <2>1. OnePlace(r) /\ Counted(r) /\ k \in Conn
    BY DEF ProxyInductive, Tracked, TypesOK
  <2>2. runs'[r] = runs[r] /\ answers'[r] = answers[r]
    BY <1>1
  <2>3. CASE r = r0
    <3>1. Moved(r, "unsent", "line", k)
      BY <1>1, <1>3, <2>2, <2>3, AnEvent DEF Moved, Holds, Single, Before
    <3> QED BY <2>1, <3>1, Moves DEF Place, Single
  <2>4. CASE r # r0
    <3>1. \A p \in Place, c \in Conn : Holds(p, c, r)' => Holds(p, c, r)
      BY <1>1, <1>3, <2>4, AnEvent DEF Holds
    <3> QED BY <2>1, <2>2, <3>1, Stays
  <2> QED BY <2>3, <2>4
<1>6. ASSUME NEW r \in Request PROVE Queued(r)'
  <2>1. Queued(r) /\ OnePlace(r0)
    BY DEF ProxyInductive, Tracked
  <2>2. Line(r0) \notin ToSet(chan)
    <3>1. Holds("unsent", sock, r0) /\ "unsent" \in Place /\ "line" \in Place /\ sock \in Conn
      BY <1>1 DEF Holds, Place, Single, ProxyInductive, TypesOK
    <3>2. ~Holds("line", sock, r0)
      BY <2>1, <3>1 DEF OnePlace
    <3> QED BY <3>2 DEF Holds
  <2>3. Once(chan', Line(r)) /\ Once(chan', Response(r))
    BY <1>3, <2>1, <2>2 DEF Queued
  <2> QED BY <1>1, <2>1, <2>3 DEF Queued
<1>7. ConnectionsOK'
  BY <1>1 DEF ProxyInductive, ConnectionsOK, Empty, Greeted, NoGreeting
<1>8. ChannelCovered'
  <2>1. /\ Len(chan') = Len(chan) + 1 /\ chan'[Len(chan) + 1] = Line(r0)
        /\ \A i \in 1 .. Len(chan) : chan'[i] = chan[i]
    BY <1>1, <1>2, AppendProperties
  <2>2. Len(chan) \in Nat /\ DOMAIN chan = 1 .. Len(chan) /\ DOMAIN chan' = 1 .. Len(chan) + 1
    BY <1>2, <1>3, <2>1, LenProperties
  <2>3. ASSUME NEW i \in 1 .. Len(chan) + 1, chan'[i] = Line(Cancel),
               NEW r \in Request \ (unsent' \cup excused)
        PROVE  \E j \in 1 .. Len(chan) + 1 : j > i /\ chan'[j] = Line(r)
    <3>1. i \in 1 .. Len(chan) /\ chan[i] = Line(Cancel)
      BY <2>1, <2>2, <2>3, AnEvent, RequestAssumption
    <3>2. CASE r = r0
      BY <2>1, <2>2, <3>1, <3>2
    <3>3. CASE r # r0
      <4>1. r \in Request \ (unsent \cup excused)
        BY <1>1, <3>3
      <4>2. PICK j \in 1 .. Len(chan) : j > i /\ chan[j] = Line(r)
        BY <2>2, <3>1, <4>1 DEF ProxyInductive, Covered, ChannelCovered
      <4> QED BY <2>1, <2>2, <4>2
    <3> QED BY <3>2, <3>3
  <2> QED BY <1>1, <2>2, <2>3 DEF ChannelCovered
<1>9. \A c \in Conn : ConnectionCovered(c)'
  BY <1>1 DEF ProxyInductive, Covered, ConnectionCovered
<1> QED BY <1>4, <1>5, <1>6, <1>7, <1>8, <1>9 DEF ProxyInductive, Tracked, Covered

LEMMA SendCancelKeeps ==
    ASSUME ProxyInductive, SendCancel
    PROVE  ProxyInductive'
<1> USE DEF agentVars, proxyVars, sockVars, serverVars, historyVars
<1>1. /\ cancels < MaxCancels /\ cancels' = cancels + 1 /\ excused' = Request \ unsent
      /\ chan' = Append(chan, Line(Cancel))
      /\ UNCHANGED <<unsent, answers, mode, retry, draining, sock, readers, sockVars, serverVars,
                     writtenOn, runs, aborted>>
  BY DEF SendCancel
<1>2. chan \in Seq(Event) /\ Line(Cancel) \in Event
  BY AnEvent DEF ProxyInductive, TypesOK
<1>3. /\ chan' \in Seq(Event) /\ ToSet(chan') = ToSet(chan) \cup {Line(Cancel)}
      /\ \A m : Once(chan, m) /\ m # Line(Cancel) => Once(chan', m)
  BY <1>1, <1>2, AppendQueue
<1>4. TypesOK'
  BY <1>1, <1>3, BoundAssumption DEF ProxyInductive, TypesOK
<1>5. Tracked'
  <2>1. \A r \in Request : /\ Line(r) \in ToSet(chan') => Line(r) \in ToSet(chan)
                           /\ Response(r) \in ToSet(chan') => Response(r) \in ToSet(chan)
                           /\ Once(chan', Line(r)) /\ Once(chan', Response(r))
    BY <1>3, AnEvent, RequestAssumption DEF ProxyInductive, Tracked, Queued
  <2> QED BY <1>1, <2>1, Unmoved DEF ProxyInductive
<1>6. ConnectionsOK'
  BY <1>1 DEF ProxyInductive, ConnectionsOK, Empty, Greeted, NoGreeting
<1>7. Covered'
  <2>1. ChannelCovered'
    BY <1>1 DEF ChannelCovered
  <2>2. ASSUME NEW c \in Conn PROVE ConnectionCovered(c)'
    <3>1. ConnectionCovered(c) /\ excused \subseteq excused'
      BY <1>1 DEF ProxyInductive, Covered, TypesOK
    <3> QED BY <1>1, <3>1 DEF ConnectionCovered
  <2> QED BY <2>1, <2>2 DEF Covered
<1> QED BY <1>4, <1>5, <1>6, <1>7 DEF ProxyInductive

LEMMA CloseStdinKeeps ==
    ASSUME ProxyInductive, CloseStdin
    PROVE  ProxyInductive'
<1> USE DEF agentVars, proxyVars, sockVars, serverVars, historyVars
<1>1. /\ chan' = Append(chan, StdinEof)
      /\ UNCHANGED <<agentVars, mode, retry, draining, sock, readers, sockVars, serverVars,
                     historyVars>>
  BY DEF CloseStdin
<1>2. chan \in Seq(Event) /\ StdinEof \in Event
  BY AnEvent DEF ProxyInductive, TypesOK
<1>3. /\ chan' \in Seq(Event) /\ ToSet(chan') = ToSet(chan) \cup {StdinEof}
      /\ \A m : Once(chan, m) /\ m # StdinEof => Once(chan', m)
  BY <1>1, <1>2, AppendQueue
<1>4. TypesOK'
  BY <1>1, <1>3 DEF ProxyInductive, TypesOK
<1>5. Tracked'
  <2>1. \A r \in Request : /\ Line(r) \in ToSet(chan') => Line(r) \in ToSet(chan)
                           /\ Response(r) \in ToSet(chan') => Response(r) \in ToSet(chan)
                           /\ Once(chan', Line(r)) /\ Once(chan', Response(r))
    BY <1>3, AnEvent DEF ProxyInductive, Tracked, Queued
  <2> QED BY <1>1, <2>1, Unmoved DEF ProxyInductive
<1>6. ConnectionsOK'
  BY <1>1 DEF ProxyInductive, ConnectionsOK, Empty, Greeted, NoGreeting
<1>7. ChannelCovered'
  BY <1>1, <1>2, AnEvent, ChannelAppend DEF ProxyInductive, Covered
<1>8. \A c \in Conn : ConnectionCovered(c)'
  BY <1>1 DEF ProxyInductive, Covered, ConnectionCovered
<1> QED BY <1>4, <1>5, <1>6, <1>7, <1>8 DEF ProxyInductive, Covered

-----------------------------------------------------------------------------
(* The steps of the main thread *)

LEMMA Received ==
    ASSUME TypesOK, NEW type, Receive(type)
    PROVE  /\ mode = "run" /\ retry = None /\ chan # <<>>
           /\ Head(chan) \in ToSet(chan) /\ chan' \in Seq(Event) /\ chan' = Tail(chan)
           /\ ToSet(chan) = ToSet(chan') \cup {Head(chan)}
           /\ \A m : Once(chan, m) => Once(chan', m) /\ (m = Head(chan) => m \notin ToSet(chan'))
           /\ type = "line" =>
                Head(chan).msg \in Request \cup {Cancel} /\ Head(chan) = Line(Head(chan).msg)
           /\ type = "response" =>
                Head(chan).msg \in Request /\ Head(chan) = Response(Head(chan).msg)
<1>1. mode = "run" /\ chan # <<>> /\ Head(chan).type = type /\ chan' = Tail(chan)
  BY DEF Receive
<1>2. chan \in Seq(Event) /\ retry = None
  BY <1>1 DEF TypesOK
<1>3. /\ Head(chan) \in Event /\ Head(chan) \in ToSet(chan) /\ chan' \in Seq(Event)
      /\ ToSet(chan) = ToSet(chan') \cup {Head(chan)}
      /\ \A m : Once(chan, m) => Once(chan', m) /\ (m = Head(chan) => m \notin ToSet(chan'))
  BY <1>1, <1>2, TailQueue
<1>4. ASSUME NEW e \in Event
      PROVE  /\ e.type = "line" => e.msg \in Request \cup {Cancel} /\ e = Line(e.msg)
             /\ e.type = "response" => e.msg \in Request /\ e = Response(e.msg)
  BY DEF Event, Line, Response, SocketError, StdinEof
<1> QED BY <1>1, <1>2, <1>3, <1>4

LEMMA HandleSocketErrorKeeps ==
    ASSUME ProxyInductive, HandleSocketError
    PROVE  ProxyInductive'
<1> USE DEF agentVars, proxyVars, sockVars, serverVars, historyVars
<1>1. /\ Receive("error") /\ mode' = IF draining THEN mode ELSE "connect"
      /\ UNCHANGED <<agentVars, retry, draining, sock, readers, sockVars, serverVars, historyVars>>
  BY DEF HandleSocketError
<1>2. /\ mode = "run" /\ retry = None /\ chan # <<>> /\ chan' \in Seq(Event) /\ chan' = Tail(chan)
      /\ ToSet(chan) = ToSet(chan') \cup {Head(chan)}
      /\ \A m : Once(chan, m) => Once(chan', m)
  BY <1>1, Received DEF ProxyInductive
<1>3. TypesOK'
  BY <1>1, <1>2 DEF ProxyInductive, TypesOK
<1>4. Tracked'
  <2>1. \A r \in Request : Once(chan', Line(r)) /\ Once(chan', Response(r))
    BY <1>2 DEF ProxyInductive, Tracked, Queued
  <2> QED BY <1>1, <1>2, <2>1, Unmoved DEF ProxyInductive
<1>5. ConnectionsOK'
  BY <1>1, <1>2 DEF ProxyInductive, ConnectionsOK, Empty, Greeted, NoGreeting
<1>6. ChannelCovered'
  BY <1>1, <1>2, ChannelTail DEF ProxyInductive, Covered
<1>7. \A c \in Conn : ConnectionCovered(c)'
  BY <1>1 DEF ProxyInductive, Covered, ConnectionCovered
<1> QED BY <1>3, <1>4, <1>5, <1>6, <1>7 DEF ProxyInductive, Covered

LEMMA HandleStdinEofKeeps ==
    ASSUME ProxyInductive, HandleStdinEof
    PROVE  ProxyInductive'
<1> USE DEF agentVars, proxyVars, sockVars, serverVars, historyVars
<1>1. /\ Receive("eof") /\ draining' = TRUE
      /\ link' = [link EXCEPT ![sock] = IF @ = "open" THEN "shut" ELSE @]
      /\ UNCHANGED <<agentVars, mode, retry, sock, readers, up, down, serverVars, historyVars>>
  BY DEF HandleStdinEof
<1>2. /\ mode = "run" /\ retry = None /\ chan # <<>> /\ chan' \in Seq(Event) /\ chan' = Tail(chan)
      /\ ToSet(chan) = ToSet(chan') \cup {Head(chan)}
      /\ \A m : Once(chan, m) => Once(chan', m)
  BY <1>1, Received DEF ProxyInductive
<1>3. TypesOK'
  BY <1>1, <1>2 DEF ProxyInductive, TypesOK
<1>4. Tracked'
  <2>1. \A r \in Request : Once(chan', Line(r)) /\ Once(chan', Response(r))
    BY <1>2 DEF ProxyInductive, Tracked, Queued
  <2> QED BY <1>1, <1>2, <2>1, Unmoved DEF ProxyInductive
<1>5. ConnectionsOK'
  <2>1. /\ link \in [Conn -> {"unused", "open", "shut", "closed", "lost"}]
        /\ \A c \in Conn : link[c] = "unused" <=> link'[c] = "unused"
    BY <1>1 DEF ProxyInductive, TypesOK
  <2> QED BY <1>1, <1>2, <2>1
          DEF ProxyInductive, TypesOK, ConnectionsOK, Empty, Greeted, NoGreeting
<1>6. ChannelCovered'
  BY <1>1, <1>2, ChannelTail DEF ProxyInductive, Covered
<1>7. \A c \in Conn : ConnectionCovered(c)'
  BY <1>1 DEF ProxyInductive, Covered, ConnectionCovered
<1> QED BY <1>3, <1>4, <1>5, <1>6, <1>7 DEF ProxyInductive, Covered

LEMMA ForwardResponseKeeps ==
    ASSUME ProxyInductive, ForwardResponse
    PROVE  ProxyInductive'
<1> USE DEF agentVars, proxyVars, sockVars, serverVars, historyVars
<1> DEFINE r0 == Head(chan).msg
<1>1. /\ Receive("response")
      /\ answers' = IF r0 \in Request THEN [answers EXCEPT ![r0] = @ + 1] ELSE answers
      /\ UNCHANGED <<unsent, cancels, mode, retry, draining, sock, readers, sockVars, serverVars,
                     historyVars>>
  BY DEF ForwardResponse
<1>2. /\ mode = "run" /\ retry = None /\ chan # <<>> /\ chan' \in Seq(Event) /\ chan' = Tail(chan)
      /\ ToSet(chan) = ToSet(chan') \cup {Head(chan)} /\ Head(chan) \in ToSet(chan)
      /\ \A m : Once(chan, m) => Once(chan', m) /\ (m = Head(chan) => m \notin ToSet(chan'))
      /\ r0 \in Request /\ Head(chan) = Response(r0)
  BY <1>1, Received DEF ProxyInductive
<1> HIDE DEF r0
<1>3. TypesOK'
  <2>1. answers' \in [Request -> Nat]
    BY <1>1, <1>2 DEF ProxyInductive, TypesOK
  <2> QED BY <1>1, <1>2, <2>1 DEF ProxyInductive, TypesOK
<1>4. ASSUME NEW r \in Request PROVE OnePlace(r)' /\ Counted(r)' /\ Queued(r)'
  <2>1. OnePlace(r) /\ Counted(r) /\ Queued(r) /\ sock \in Conn
    BY DEF ProxyInductive, Tracked, TypesOK
  <2>2. Queued(r)'
    BY <1>1, <1>2, <2>1 DEF Queued
  <2>3. \A p \in Place, c \in Conn : Holds(p, c, r)' => Holds(p, c, r)
    BY <1>1, <1>2 DEF Holds
  <2>4. CASE r # r0
    <3>1. runs'[r] = runs[r] /\ answers'[r] = answers[r]
      BY <1>1, <1>2, <2>4 DEF ProxyInductive, TypesOK
    <3> QED BY <2>1, <2>2, <2>3, <3>1, Stays
  <2>5. CASE r = r0
    <3>1. Holds("response", sock, r) /\ "response" \in Place \ Before
      BY <1>2, <2>5 DEF Holds, Place, Single, Before
    <3>2. runs[r] = 1 /\ answers[r] = 0
      BY <2>1, <3>1 DEF Counted
    <3>3. \A p \in Place, c \in Conn : Holds(p, c, r) => p = "response"
      BY <2>1, <3>1 DEF OnePlace
    <3>4. ~ \E c \in Conn : Holds("response", c, r)'
      BY <1>2, <2>1, <2>5 DEF Holds, Queued
    <3>5. \A p \in Place, c \in Conn : ~ Holds(p, c, r)'
      BY <2>3, <3>3, <3>4
    <3>6. runs'[r] = 1 /\ answers'[r] = 1
      BY <1>1, <1>2, <2>5, <3>2 DEF ProxyInductive, TypesOK
    <3>7. OnePlace(r)'
      BY <3>5 DEF OnePlace
    <3>8. Counted(r)'
      BY <3>5, <3>6 DEF Counted
    <3> QED BY <2>2, <3>7, <3>8
  <2> QED BY <2>4, <2>5
<1>5. ConnectionsOK'
  BY <1>1, <1>2 DEF ProxyInductive, ConnectionsOK, Empty, Greeted, NoGreeting
<1>6. ChannelCovered'
  BY <1>1, <1>2, ChannelTail DEF ProxyInductive, Covered
<1>7. \A c \in Conn : ConnectionCovered(c)'
  BY <1>1 DEF ProxyInductive, Covered, ConnectionCovered
<1> QED BY <1>3, <1>4, <1>5, <1>6, <1>7 DEF ProxyInductive, Covered, Tracked

(* A request that the server has, or that travels to it, is not with the   *)
(* agent or the proxy.                                                     *)
LEMMA OnlyThere ==
    ASSUME TypesOK, Tracked, NEW c \in Conn, NEW r \in Request,
           r \in ToSet(up[c]) \cup ToSet(inbox[c]) \cup {held[c]}
    PROVE  r \notin unsent /\ Line(r) \notin ToSet(chan) /\ r # retry
<1>1. \E p \in {"up", "inbox", "work", "held"} : Holds(p, c, r)
  <2>1. CASE held[c] = r
    <3>1. held[c] # None
      BY <2>1, RequestAssumption
    <3>2. work[c] = "drain" \/ work[c] = held[c]
      BY <3>1 DEF TypesOK
    <3> QED BY <2>1, <3>2 DEF Holds
  <2> QED BY <2>1 DEF Holds
<1>2. PICK p \in {"up", "inbox", "work", "held"} : Holds(p, c, r)
  BY <1>1
<1>3. \A q \in {"unsent", "line", "retry"} : ~ Holds(q, c, r)
  <2> TAKE q \in {"unsent", "line", "retry"}
  <2>1. p \in Place /\ q \in Place /\ p # q
    BY <1>2 DEF Place, Single, Before
  <2> QED BY <1>2, <2>1 DEF Tracked, OnePlace
<1> QED BY <1>3 DEF Holds

LEMMA WriteCovered ==
    ASSUME TypesOK, NEW k \in Conn, ConnectionCovered(k), NEW m \in Message,
           up' = [up EXCEPT ![k] = Append(@, m)],
           m = Cancel => \A r \in Request :
              r \in ToSet(up[k]) \cup ToSet(inbox[k]) \cup {held[k]} => r \in excused,
           UNCHANGED <<inbox, work, held, token, excused>>
    PROVE  ConnectionCovered(k)'
<1>1. up[k] \in Seq(Message) /\ up'[k] = Append(up[k], m)
  BY DEF TypesOK
<1>2. /\ Len(up'[k]) = Len(up[k]) + 1 /\ up'[k][Len(up[k]) + 1] = m
      /\ \A i \in 1 .. Len(up[k]) : up'[k][i] = up[k][i]
      /\ Len(up[k]) \in Nat
  BY <1>1, AppendProperties, LenProperties
<1>3. /\ DOMAIN up[k] = 1 .. Len(up[k]) /\ DOMAIN up'[k] = 1 .. Len(up[k]) + 1
      /\ \A i \in 1 .. Len(up[k]) : up[k][i] \in ToSet(up[k])
  BY <1>1, <1>2, LenProperties, AppendProperties DEF ToSet
<1>4. ASSUME NEW i \in 1 .. Len(up[k]) + 1, up'[k][i] = Cancel
      PROVE  /\ \A j \in 1 .. i - 1 : up'[k][j] \in Request => up'[k][j] \in excused
             /\ \A r \in Request : r \in ToSet(inbox[k]) \/ r = held[k] => r \in excused
  <2>1. CASE i \in 1 .. Len(up[k])
    <3>1. \A j \in 1 .. i - 1 : j \in 1 .. Len(up[k])
      BY <1>2, <2>1
    <3> QED BY <1>2, <1>3, <1>4, <2>1, <3>1 DEF ConnectionCovered
  <2>2. CASE i = Len(up[k]) + 1
    <3>1. \A j \in 1 .. i - 1 : j \in 1 .. Len(up[k])
      BY <1>2, <2>2
    <3> QED BY <1>2, <1>3, <1>4, <2>2, <3>1
  <2> QED BY <1>2, <2>1, <2>2
<1>5. token'[k] /\ held'[k] \in ToolCall => held'[k] \in excused'
  BY DEF ConnectionCovered
<1> QED BY <1>3, <1>4, <1>5 DEF ConnectionCovered

LEMMA ForwardLineKeeps ==
    ASSUME ProxyInductive, ForwardLine
    PROVE  ProxyInductive'
<1> USE DEF agentVars, proxyVars, sockVars, serverVars, historyVars
<1> DEFINE m == Head(chan).msg
<1>1. /\ Receive("line")
      /\ IF link[sock] = "open"
         THEN Write(sock, m) /\ UNCHANGED <<mode, retry>>
         ELSE mode' = "connect" /\ retry' = m /\ UNCHANGED <<up, writtenOn>>
      /\ UNCHANGED <<agentVars, draining, sock, readers, link, down, serverVars,
                     runs, excused, aborted>>
  BY DEF ForwardLine
<1>2. /\ mode = "run" /\ retry = None /\ chan # <<>> /\ chan' \in Seq(Event) /\ chan' = Tail(chan)
      /\ ToSet(chan) = ToSet(chan') \cup {Head(chan)} /\ Head(chan) \in ToSet(chan)
      /\ \A e : Once(chan, e) => Once(chan', e) /\ (e = Head(chan) => e \notin ToSet(chan'))
      /\ m \in Request \cup {Cancel} /\ Head(chan) = Line(m)
  BY <1>1, Received DEF ProxyInductive
<1>3. chan[1] = Line(m) /\ 1 \in DOMAIN chan
  BY <1>2, EmptySeq, LenProperties DEF ProxyInductive, TypesOK
<1> HIDE DEF m
<1>4. ChannelCovered'
  BY <1>1, <1>2, ChannelTail DEF ProxyInductive, Covered
<1>5. m \in Message /\ m # Init_ /\ sock \in Conn /\ (m \in Request => m \notin {Cancel, None})
      /\ up \in [Conn -> Seq(Message)]
  BY <1>2, RequestAssumption DEF Message, ProxyInductive, TypesOK, Cancel, Init_
<1>6. \A r \in Request : /\ OnePlace(r) /\ Counted(r) /\ Queued(r)
                         /\ runs'[r] = runs[r] /\ answers'[r] = answers[r]
  BY <1>1 DEF ProxyInductive, Tracked
<1>7. CASE link[sock] = "open"
  <2>1. /\ up' = [up EXCEPT ![sock] = Append(@, m)] /\ UNCHANGED <<mode, retry>>
    BY <1>1, <1>7 DEF Write
  <2>2. /\ up' \in [Conn -> Seq(Message)] /\ up'[sock] = Append(up[sock], m)
        /\ \A c \in Conn : c # sock => up'[c] = up[c]
        /\ ToSet(up'[sock]) = ToSet(up[sock]) \cup {m}
        /\ \A c \in Conn : \A r : Once(up[c], r) /\ (c = sock /\ r = m => r \notin ToSet(up[c]))
                                => Once(up'[c], r)
    <3>1. WrittenOn(Message, up, sock, m, up')
      BY <1>5, <2>1 DEF WrittenOn
    <3> QED BY <3>1, AppendAt
  <2>3. TypesOK'
    BY <1>1, <1>2, <2>1, <2>2 DEF ProxyInductive, TypesOK
  <2>4. ASSUME NEW r \in Request PROVE OnePlace(r)' /\ Counted(r)' /\ Queued(r)'
    <3>1. CASE r = m
      <4>1. Moved(r, "line", "up", sock)
        <5>1. Holds("line", sock, r) /\ Line(r) \notin ToSet(chan')
          BY <1>2, <1>6, <3>1 DEF Holds, Queued
        <5>2. \A p \in Place, c \in Conn : Holds(p, c, r)' =>
                \/ p = "up" /\ c = sock
                \/ Holds(p, c, r) /\ p # "line"
          BY <1>1, <1>2, <2>1, <2>2, <5>1 DEF Holds
        <5> QED BY <1>6, <5>1, <5>2 DEF Moved, Before
      <4>2. OnePlace(r)' /\ Counted(r)'
        BY <1>5, <1>6, <4>1, Moves DEF Place, Single, Before
      <4>3. \A c \in Conn : r \notin ToSet(up[c])
        BY <1>2, <3>1, OnlyThere DEF ProxyInductive
      <4>4. Queued(r)'
        BY <1>1, <1>2, <1>6, <2>2, <4>3 DEF Queued
      <4> QED BY <4>2, <4>4
    <3>2. CASE r # m
      <4>1. \A p \in Place, c \in Conn : Holds(p, c, r)' => Holds(p, c, r)
        BY <1>1, <1>2, <2>1, <2>2, <3>2 DEF Holds
      <4>2. OnePlace(r)' /\ Counted(r)'
        BY <1>6, <4>1, Stays
      <4>3. Queued(r)'
        BY <1>1, <1>2, <1>6, <2>2, <3>2 DEF Queued
      <4> QED BY <4>2, <4>3
    <3> QED BY <3>1, <3>2
  <2>5. ConnectionsOK'
    BY <1>1, <1>2, <1>5, <1>7, <2>1, <2>2 DEF ProxyInductive, ConnectionsOK, Empty, NoGreeting
  <2>6. ASSUME NEW c \in Conn PROVE ConnectionCovered(c)'
    <3>1. CASE c = sock
      <4>1. ASSUME m = Cancel, NEW r \in Request,
                   r \in ToSet(up[sock]) \cup ToSet(inbox[sock]) \cup {held[sock]}
            PROVE  r \in excused
        <5>1. r \notin unsent /\ Line(r) \notin ToSet(chan)
          BY <1>5, <4>1, OnlyThere DEF ProxyInductive
        <5>2. ASSUME r \notin excused PROVE Line(r) \in ToSet(chan)
          BY <1>3, <4>1, <5>1, <5>2 DEF ProxyInductive, Covered, ChannelCovered, ToSet
        <5> QED BY <5>1, <5>2
      <4>2. UNCHANGED <<inbox, work, held, token, excused>>
        BY <1>1
      <4>3. ConnectionCovered(sock) /\ TypesOK
        BY <1>5 DEF ProxyInductive, Covered
      <4> QED BY <1>5, <2>1, <3>1, <4>1, <4>2, <4>3, WriteCovered
    <3>2. CASE c # sock
      BY <1>1, <2>2, <3>2 DEF ProxyInductive, Covered, ConnectionCovered
    <3> QED BY <3>1, <3>2
  <2> QED BY <1>4, <2>3, <2>4, <2>5, <2>6 DEF ProxyInductive, Covered, Tracked
<1>8. CASE link[sock] # "open"
  <2>1. mode' = "connect" /\ retry' = m /\ up' = up
    BY <1>1, <1>8
  <2>2. TypesOK'
    BY <1>1, <1>2, <2>1 DEF ProxyInductive, TypesOK
  <2>3. ASSUME NEW r \in Request PROVE OnePlace(r)' /\ Counted(r)' /\ Queued(r)'
    <3>1. Queued(r)'
      BY <1>1, <1>2, <1>6, <2>1 DEF Queued
    <3>2. CASE r = m
      <4>1. Moved(r, "line", "retry", sock)
        <5>1. Holds("line", sock, r) /\ Line(r) \notin ToSet(chan')
          BY <1>2, <1>6, <3>2 DEF Holds, Queued
        <5>2. \A p \in Place, c \in Conn : Holds(p, c, r)' =>
                p = "retry" \/ (Holds(p, c, r) /\ p # "line")
          BY <1>1, <1>2, <2>1, <5>1 DEF Holds
        <5> QED BY <1>6, <5>1, <5>2 DEF Moved, Before, Single
      <4>2. OnePlace(r)' /\ Counted(r)'
        BY <1>5, <1>6, <4>1, Moves DEF Place, Single, Before
      <4> QED BY <3>1, <4>2
    <3>3. CASE r # m
      <4>1. \A p \in Place, c \in Conn : Holds(p, c, r)' => Holds(p, c, r)
        BY <1>1, <1>2, <2>1, <3>3 DEF Holds
      <4> QED BY <1>6, <3>1, <4>1, Stays
    <3> QED BY <3>2, <3>3
  <2>4. ConnectionsOK'
    BY <1>1, <1>8, <2>1 DEF ProxyInductive, ConnectionsOK, Empty, NoGreeting
  <2>5. \A c \in Conn : ConnectionCovered(c)'
    BY <1>1, <2>1 DEF ProxyInductive, Covered, ConnectionCovered
  <2> QED BY <1>4, <2>2, <2>3, <2>4, <2>5 DEF ProxyInductive, Covered, Tracked
<1> QED BY <1>7, <1>8

LEMMA QuietKeeps ==
    ASSUME ProxyInductive, GiveUpConnecting \/ Terminate \/ Listen
    PROVE  ProxyInductive'
<1> USE DEF agentVars, proxyVars, sockVars, serverVars, historyVars
<1>1. /\ UNCHANGED <<agentVars, chan, draining, sock, readers, sockVars, inbox, work, held, token,
                     reloads, historyVars>>
      /\ listening' \in BOOLEAN /\ retry' \in {retry, None}
      /\ mode' \in {"run", "connect", "reinit", "done", "failed"}
      /\ (retry' = None \/ mode' = mode) /\ (mode' = "reinit" => mode = "reinit")
      /\ (mode = "reinit" => mode' = "reinit")
  BY DEF GiveUpConnecting, Terminate, Listen, ProxyInductive, TypesOK
<1>2. TypesOK'
  BY <1>1 DEF ProxyInductive, TypesOK
<1>3. Tracked'
  <2>1. \A r \in Request : Once(chan', Line(r)) /\ Once(chan', Response(r))
    BY <1>1 DEF ProxyInductive, Tracked, Queued
  <2> QED BY <1>1, <2>1, Unmoved DEF ProxyInductive
<1>4. ConnectionsOK'
  BY <1>1 DEF ProxyInductive, ConnectionsOK, Empty, Greeted, NoGreeting
<1>5. ChannelCovered'
  BY <1>1 DEF ProxyInductive, Covered, ChannelCovered
<1>6. \A c \in Conn : ConnectionCovered(c)'
  BY <1>1 DEF ProxyInductive, Covered, ConnectionCovered
<1> QED BY <1>2, <1>3, <1>4, <1>5, <1>6 DEF ProxyInductive, Covered

LEMMA ConnectKeeps ==
    ASSUME ProxyInductive, Connect
    PROVE  ProxyInductive'
<1> USE DEF agentVars, proxyVars, sockVars, serverVars, historyVars
<1>1. PICK k \in Conn :
        /\ link[k] = "unused" /\ sock' = k
        /\ link' = [link EXCEPT ![k] = "open",
                                ![sock] = IF @ = "open" /\ sock \notin readers THEN "shut" ELSE @]
        /\ up' = [up EXCEPT ![k] = <<Init_>>]
  BY DEF Connect
<1>2. /\ mode = "connect" /\ mode' = "reinit"
      /\ UNCHANGED <<agentVars, chan, retry, draining, readers, down, serverVars, historyVars>>
  BY DEF Connect
<1>3. /\ Empty(k) /\ k # sock /\ k \notin readers /\ sock \in Conn
      /\ up \in [Conn -> Seq(Message)]
      /\ link \in [Conn -> {"unused", "open", "shut", "closed", "lost"}]
  BY <1>1 DEF ProxyInductive, ConnectionsOK, TypesOK
<1>4. /\ link' \in [Conn -> {"unused", "open", "shut", "closed", "lost"}]
      /\ link'[k] = "open"
      /\ \A c \in Conn : c # k => (link'[c] = "unused" <=> link[c] = "unused")
  BY <1>1, <1>3
<1>5. /\ <<Init_>> \in Seq(Message) /\ ToSet(<<Init_>>) = {Init_} /\ \A m : Once(<<Init_>>, m)
  BY OneQueue DEF Message
<1>6. /\ up' \in [Conn -> Seq(Message)] /\ up'[k] = <<Init_>>
      /\ \A c \in Conn : c # k => up'[c] = up[c]
  BY <1>1, <1>3, <1>5
<1>7. TypesOK'
  BY <1>1, <1>2, <1>4, <1>6 DEF ProxyInductive, TypesOK
<1>8. ASSUME NEW r \in Request PROVE OnePlace(r)' /\ Counted(r)' /\ Queued(r)'
  <2>1. OnePlace(r) /\ Counted(r) /\ Queued(r) /\ r # Init_
    BY RequestAssumption DEF ProxyInductive, Tracked
  <2>2. \A p \in Place, c \in Conn : Holds(p, c, r)' => Holds(p, c, r)
    BY <1>2, <1>5, <1>6, <2>1 DEF Holds
  <2>3. runs'[r] = runs[r] /\ answers'[r] = answers[r]
    BY <1>2
  <2>4. Queued(r)'
    BY <1>2, <1>5, <1>6, <2>1 DEF Queued
  <2> QED BY <2>1, <2>2, <2>3, <2>4, Stays
<1>9. ConnectionsOK'
  <2>1. \A c \in Conn : c # k => /\ Empty(c) => Empty(c)'
                                 /\ NoGreeting(c) => NoGreeting(c)'
    BY <1>2, <1>6 DEF Empty, NoGreeting
  <2>2. Greeted(k)'
    BY <1>2, <1>3, <1>6 DEF Greeted, Empty
  <2>3. sock' = k /\ readers' = readers /\ mode' = "reinit"
    BY <1>1, <1>2
  <2>4. \A c \in Conn : /\ link'[c] = "unused" => Empty(c)'
                        /\ c \in readers' => NoGreeting(c)' /\ link'[c] # "unused"
    BY <1>3, <1>4, <2>1, <2>3 DEF ProxyInductive, ConnectionsOK
  <2> QED BY <1>3, <1>4, <2>2, <2>3, <2>4 DEF ConnectionsOK
<1>10. ChannelCovered'
  BY <1>2 DEF ProxyInductive, Covered, ChannelCovered
<1>11. ASSUME NEW c \in Conn PROVE ConnectionCovered(c)'
  <2>1. CASE c = k
    <3>1. \A i \in DOMAIN up'[c] : up'[c][i] # Cancel
      BY <1>5, <1>6, <2>1 DEF ToSet, Cancel, Init_
    <3>2. held'[c] \notin ToolCall
      BY <1>2, <1>3, <2>1, RequestAssumption DEF Empty, ProxyInductive, TypesOK
    <3> QED BY <3>1, <3>2 DEF ConnectionCovered
  <2>2. CASE c # k
    BY <1>2, <1>6, <2>2 DEF ProxyInductive, Covered, ConnectionCovered
  <2> QED BY <2>1, <2>2
<1> QED BY <1>7, <1>8, <1>9, <1>10, <1>11 DEF ProxyInductive, Covered, Tracked

LEMMA ReinitializeKeeps ==
    ASSUME ProxyInductive, Reinitialize
    PROVE  ProxyInductive'
<1> USE DEF agentVars, proxyVars, sockVars, serverVars, historyVars
<1> DEFINE answered == down[sock] # <<>>
           rewritten == answered /\ link[sock] = "open" /\ retry # None
<1>1. /\ mode = "reinit" /\ (answered \/ Gone(sock)) /\ retry' = None
      /\ down' = IF answered THEN [down EXCEPT ![sock] = Tail(@)] ELSE down
      /\ IF rewritten THEN Write(sock, retry) ELSE up' = up
      /\ readers' = IF answered /\ link[sock] = "open" THEN readers \cup {sock} ELSE readers
      /\ mode' \in {"run", "failed"}
      /\ UNCHANGED <<agentVars, chan, draining, sock, link, serverVars, runs, excused, aborted>>
  BY DEF Reinitialize
<1>2. /\ Greeted(sock) /\ link[sock] \in {"open", "lost"} /\ sock \in Conn
      /\ up \in [Conn -> Seq(Message)] /\ down \in [Conn -> Seq(Request \cup {Init_})]
      /\ retry \in Request \cup {Cancel, None}
  BY <1>1 DEF ProxyInductive, ConnectionsOK, TypesOK
<1>3. answered => /\ up[sock] = <<>> /\ inbox[sock] = <<>> /\ work[sock] = "recv"
                  /\ down[sock] = <<Init_>> /\ held[sock] = None
  BY <1>2 DEF Greeted, Empty, ProxyInductive, TypesOK
<1>4. /\ down' \in [Conn -> Seq(Request \cup {Init_})]
      /\ \A c \in Conn : c # sock => down'[c] = down[c]
      /\ answered => down'[sock] = <<>>
      /\ \A c \in Conn : ToSet(down'[c]) \subseteq ToSet(down[c])
      /\ \A c \in Conn : \A m : Once(down[c], m) => Once(down'[c], m)
  <2>1. CASE answered
    <3>1. ReadFrom(Request \cup {Init_}, down, sock, down')
      BY <1>1, <1>2, <2>1 DEF ReadFrom
    <3>2. /\ down' \in [Conn -> Seq(Request \cup {Init_})] /\ down'[sock] = Tail(down[sock])
          /\ \A c \in Conn : c # sock => down'[c] = down[c]
          /\ Head(down[sock]) \in Request \cup {Init_} /\ Head(down[sock]) \in ToSet(down[sock])
          /\ ToSet(down[sock]) = ToSet(down'[sock]) \cup {Head(down[sock])}
          /\ \A m : Once(down[sock], m) /\ m = Head(down[sock]) => m \notin ToSet(down'[sock])
          /\ \A c \in Conn : \A m : Once(down[c], m) => Once(down'[c], m)
      <4>1. HeadTaken(Request \cup {Init_}, down, sock, down')
        BY <3>1, TailAt
      <4> QED BY <4>1 DEF HeadTaken
    <3>3. Tail(<<Init_>>) = <<>>
      BY OneQueue
    <3> QED BY <1>3, <2>1, <3>2, <3>3
  <2>2. CASE ~ answered
    BY <1>1, <1>2, <2>2
  <2> QED BY <2>1, <2>2
<1>5. rewritten => /\ up' = [up EXCEPT ![sock] = Append(@, retry)]
                   /\ retry \in Request \cup {Cancel} /\ answered
  BY <1>1, <1>2 DEF Write
<1>6. /\ up' \in [Conn -> Seq(Message)] /\ \A c \in Conn : c # sock => up'[c] = up[c]
      /\ ~ rewritten => up' = up
      /\ rewritten => /\ ToSet(up'[sock]) = {retry}
                      /\ \A c \in Conn : \A m : Once(up[c], m) => Once(up'[c], m)
  <2>1. CASE rewritten
    <3>1. WrittenOn(Message, up, sock, retry, up')
      BY <1>2, <1>5, <2>1 DEF WrittenOn, Message
    <3>2. /\ up' \in [Conn -> Seq(Message)] /\ up'[sock] = Append(up[sock], retry)
          /\ \A c \in Conn : c # sock => up'[c] = up[c]
          /\ ToSet(up'[sock]) = ToSet(up[sock]) \cup {retry}
          /\ \A c \in Conn : \A m : Once(up[c], m) /\ (c = sock /\ m = retry => m \notin ToSet(up[c]))
                                  => Once(up'[c], m)
      BY <3>1, AppendAt
    <3>3. ToSet(up[sock]) = {}
      BY <1>3, <1>5, <2>1, EmptyQueue
    <3> QED BY <2>1, <3>2, <3>3
  <2>2. CASE ~ rewritten
    BY <1>1, <1>2, <2>2
  <2> QED BY <2>1, <2>2
<1> HIDE DEF answered, rewritten
<1>7. TypesOK'
  BY <1>1, <1>2, <1>4, <1>6 DEF ProxyInductive, TypesOK
<1>8. ASSUME NEW r \in Request PROVE OnePlace(r)' /\ Counted(r)' /\ Queued(r)'
  <2>1. OnePlace(r) /\ Counted(r) /\ Queued(r) /\ r # None
    BY RequestAssumption DEF ProxyInductive, Tracked
  <2>2. runs'[r] = runs[r] /\ answers'[r] = answers[r]
    BY <1>1
  <2>3. Queued(r)'
    <3>1. \A c \in Conn : Once(up'[c], r)
      BY <1>6, <2>1 DEF Queued
    <3> QED BY <1>1, <1>4, <2>1, <3>1 DEF Queued
  <2>4. CASE rewritten /\ r = retry
    <3>1. Moved(r, "retry", "up", sock)
      <4>1. \A p \in Place, c \in Conn : Holds(p, c, r)' =>
              \/ p = "up" /\ c = sock
              \/ Holds(p, c, r) /\ p # "retry"
        BY <1>1, <1>4, <1>6, <2>1, <2>4 DEF Holds
      <4>2. Holds("retry", sock, r)
        BY <2>4 DEF Holds
      <4> QED BY <2>2, <4>1, <4>2 DEF Moved, Before
    <3> QED BY <1>2, <2>1, <2>3, <3>1, Moves DEF Place, Single, Before
  <2>5. CASE ~ (rewritten /\ r = retry)
    <3>1. \A p \in Place, c \in Conn : Holds(p, c, r)' => Holds(p, c, r)
      BY <1>1, <1>4, <1>6, <2>1, <2>5 DEF Holds
    <3> QED BY <2>1, <2>2, <2>3, <3>1, Stays
  <2> QED BY <2>4, <2>5
<1>9. ConnectionsOK'
  <2>1. \A c \in Conn : c # sock => /\ Empty(c) => Empty(c)'
                                    /\ NoGreeting(c) => NoGreeting(c)'
    BY <1>1, <1>4, <1>6 DEF Empty, NoGreeting
  <2>2. answered => NoGreeting(sock)'
    <3>1. answered => ToSet(up'[sock]) \subseteq {retry}
      BY <1>3, <1>6, EmptyQueue
    <3>2. Init_ # None /\ Init_ # Cancel /\ Init_ \notin Request
      BY RequestAssumption DEF Init_, Cancel
    <3>3. Init_ # retry
      BY <1>2, <3>2
    <3> QED BY <1>1, <1>3, <1>4, <3>1, <3>2, <3>3, EmptyQueue DEF NoGreeting
  <2>3. link[sock] = "open" => answered
    BY <1>1 DEF Gone, answered
  <2>4. /\ link' = link /\ sock' = sock /\ draining' = draining /\ mode' # "reinit"
        /\ link[sock] # "unused" /\ sock \notin readers
    BY <1>1, <1>2 DEF ProxyInductive, ConnectionsOK
  <2>5. readers' = readers \/ (readers' = readers \cup {sock} /\ answered)
    BY <1>1
  <2>6. \A c \in Conn : /\ link'[c] = "unused" => Empty(c)'
                        /\ c \in readers' => NoGreeting(c)' /\ link'[c] # "unused"
    BY <2>1, <2>2, <2>4, <2>5 DEF ProxyInductive, ConnectionsOK
  <2>7. link[sock] = "open" => sock \in readers'
    BY <1>1, <2>3
  <2> QED BY <2>4, <2>6, <2>7 DEF ConnectionsOK
<1>10. ChannelCovered'
  BY <1>1 DEF ProxyInductive, Covered, ChannelCovered
<1>11. ASSUME NEW c \in Conn PROVE ConnectionCovered(c)'
  <2>1. ConnectionCovered(c) /\ TypesOK
    BY DEF ProxyInductive, Covered
  <2>2. CASE rewritten /\ c = sock
    <3>1. \A r \in Request : r \notin ToSet(up[sock]) \cup ToSet(inbox[sock]) \cup {held[sock]}
      BY <1>3, <1>5, <2>2, EmptyQueue, RequestAssumption
    <3>2. retry \in Message /\ up' = [up EXCEPT ![sock] = Append(@, retry)]
      BY <1>5, <2>2 DEF Message
    <3>3. UNCHANGED <<inbox, work, held, token, excused>>
      BY <1>1
    <3> QED BY <1>2, <2>1, <2>2, <3>1, <3>2, <3>3, WriteCovered
  <2>3. CASE ~ (rewritten /\ c = sock)
    <3>1. up'[c] = up[c]
      BY <1>6, <2>3
    <3> QED BY <1>1, <2>1, <3>1 DEF ConnectionCovered
  <2> QED BY <2>2, <2>3
<1> QED BY <1>7, <1>8, <1>9, <1>10, <1>11 DEF ProxyInductive, Covered, Tracked

-----------------------------------------------------------------------------
(* The steps of the readers and of the server *)

LEMMA ReloadKeeps ==
    ASSUME ProxyInductive, Reload
    PROVE  ProxyInductive'
<1> USE DEF agentVars, proxyVars, sockVars, serverVars, historyVars
<1>1. /\ reloads < MaxReloads /\ reloads' = reloads + 1 /\ listening' = FALSE
      /\ link' = [c \in Conn |-> IF Served(c) THEN "lost" ELSE link[c]]
      /\ up' = [c \in Conn |-> <<>>] /\ inbox' = [c \in Conn |-> <<>>]
      /\ work' = [c \in Conn |-> "recv"] /\ held' = [c \in Conn |-> None]
      /\ token' = [c \in Conn |-> FALSE]
      /\ UNCHANGED <<agentVars, proxyVars, down, historyVars>>
  BY DEF Reload
<1>2. link \in [Conn -> {"unused", "open", "shut", "closed", "lost"}] /\ sock \in Conn
  BY DEF ProxyInductive, TypesOK
<1>3. /\ link' \in [Conn -> {"unused", "open", "shut", "closed", "lost"}]
      /\ \A c \in Conn : /\ link'[c] = "unused" <=> link[c] = "unused"
                         /\ link'[c] \notin {"open", "shut"}
                         /\ link[c] \in {"open", "lost"} => link'[c] = "lost"
  BY <1>1, <1>2 DEF Served
<1>4. \A c \in Conn : /\ up'[c] = <<>> /\ inbox'[c] = <<>> /\ work'[c] = "recv"
                      /\ held'[c] = None /\ token'[c] = FALSE /\ down'[c] = down[c]
  BY <1>1
<1>5. TypesOK'
  <2>1. \A S : <<>> \in Seq(S)
    BY EmptyQueue
  <2>2. up' \in [Conn -> Seq(Message)] /\ inbox' \in [Conn -> Seq(Message \cup {Eof})]
    BY <1>1, <2>1
  <2>3. /\ work' \in [Conn -> Request \cup {Init_, "recv", "drain"}]
        /\ held' \in [Conn -> Request \cup {Init_, None}] /\ token' \in [Conn -> BOOLEAN]
    BY <1>1
  <2>4. reloads' \in 0 .. MaxReloads
    BY <1>1, BoundAssumption DEF ProxyInductive, TypesOK
  <2> QED BY <1>1, <1>3, <1>4, <2>2, <2>3, <2>4 DEF ProxyInductive, TypesOK
<1>6. ASSUME NEW r \in Request PROVE OnePlace(r)' /\ Counted(r)' /\ Queued(r)'
  <2>1. OnePlace(r) /\ Counted(r) /\ Queued(r) /\ r \notin {None, "recv", "drain"}
    BY RequestAssumption DEF ProxyInductive, Tracked
  <2>2. \A p \in Place, c \in Conn : Holds(p, c, r)' => Holds(p, c, r)
    BY <1>1, <1>4, <2>1, EmptyQueue DEF Holds
  <2>3. runs'[r] = runs[r] /\ answers'[r] = answers[r]
    BY <1>1
  <2>4. Queued(r)'
    BY <1>1, <1>4, <2>1, EmptyQueue DEF Queued
  <2> QED BY <2>1, <2>2, <2>3, <2>4, Stays
<1>7. ConnectionsOK'
  <2>1. \A c \in Conn : /\ Empty(c) => Empty(c)'
                        /\ NoGreeting(c) => NoGreeting(c)'
                        /\ Greeted(c) => Greeted(c)'
    BY <1>4, EmptyQueue, RequestAssumption DEF Empty, NoGreeting, Greeted
  <2>2. sock' = sock /\ readers' = readers /\ mode' = mode /\ draining' = draining
    BY <1>1
  <2>3. /\ \A c \in Conn : /\ link'[c] = "unused" => Empty(c)'
                           /\ c \in readers' => NoGreeting(c)' /\ link'[c] # "unused"
        /\ link'[sock'] # "unused"
    BY <1>2, <1>3, <2>1, <2>2 DEF ProxyInductive, ConnectionsOK
  <2>4. mode' = "reinit" => /\ Greeted(sock)' /\ link'[sock'] \in {"open", "lost"}
                            /\ sock' \notin readers'
    <3>1. PICK s \in Conn : s = sock
      BY <1>2
    <3> QED BY <1>3, <2>1, <2>2, <3>1 DEF ProxyInductive, ConnectionsOK
  <2> QED BY <1>2, <1>3, <2>2, <2>3, <2>4 DEF ConnectionsOK
<1>8. ChannelCovered'
  BY <1>1 DEF ProxyInductive, Covered, ChannelCovered
<1>9. \A c \in Conn : ConnectionCovered(c)'
  <2>1. DOMAIN <<>> = {}
    BY EmptySeq
  <2> QED BY <1>4, <2>1 DEF ConnectionCovered
<1> QED BY <1>5, <1>6, <1>7, <1>8, <1>9 DEF ProxyInductive, Covered, Tracked

LEMMA ReaderStepKeeps ==
    ASSUME ProxyInductive, NEW k \in Conn, ReaderStep(k)
    PROVE  ProxyInductive'
<1> USE DEF agentVars, proxyVars, sockVars, serverVars, historyVars
<1>1. /\ k \in readers
      /\ UNCHANGED <<agentVars, mode, retry, draining, sock, link, up, serverVars, historyVars>>
  BY DEF ReaderStep
<1>2. NoGreeting(k) /\ link[k] # "unused" /\ (mode = "reinit" => k # sock) /\ sock \in Conn
  BY <1>1 DEF ProxyInductive, ConnectionsOK, TypesOK
<1>3. chan \in Seq(Event) /\ down \in [Conn -> Seq(Request \cup {Init_})]
  BY DEF ProxyInductive, TypesOK
<1>4. \A c \in Conn : ConnectionCovered(c)'
  BY <1>1 DEF ProxyInductive, Covered, ConnectionCovered
<1>5. CASE down[k] # <<>>
  <2> DEFINE r0 == Head(down[k])
  <2>1. /\ chan' = Append(chan, Response(r0)) /\ down' = [down EXCEPT ![k] = Tail(@)]
        /\ readers' = readers
    BY <1>5 DEF ReaderStep
  <2>2. ReadFrom(Request \cup {Init_}, down, k, down')
    BY <1>3, <1>5, <2>1 DEF ReadFrom
  <2>3. /\ down' \in [Conn -> Seq(Request \cup {Init_})] /\ down'[k] = Tail(down[k])
        /\ \A c \in Conn : c # k => down'[c] = down[c]
        /\ Head(down[k]) \in Request \cup {Init_} /\ Head(down[k]) \in ToSet(down[k])
        /\ ToSet(down[k]) = ToSet(down'[k]) \cup {Head(down[k])}
        /\ \A m : Once(down[k], m) /\ m = Head(down[k]) => m \notin ToSet(down'[k])
        /\ \A c \in Conn : \A m : Once(down[c], m) => Once(down'[c], m)
    <3>1. HeadTaken(Request \cup {Init_}, down, k, down')
      BY <2>2, TailAt
    <3> QED BY <3>1 DEF HeadTaken
  <2>4. r0 \in Request
    BY <1>2, <2>3 DEF NoGreeting
  <2> HIDE DEF r0
  <2>5. r0 \in ToSet(down[k]) /\ ToSet(down[k]) = ToSet(down'[k]) \cup {r0}
        /\ (Once(down[k], r0) => r0 \notin ToSet(down'[k]))
    BY <2>3 DEF r0
  <2>6. Response(r0) \in Event
    BY <2>4, AnEvent
  <2>7. /\ chan' \in Seq(Event) /\ ToSet(chan') = ToSet(chan) \cup {Response(r0)}
        /\ \A m : Once(chan, m) /\ (m # Response(r0) \/ m \notin ToSet(chan)) => Once(chan', m)
    BY <1>3, <2>1, <2>6, AppendQueue
  <2>8. TypesOK'
    BY <1>1, <2>1, <2>3, <2>7 DEF ProxyInductive, TypesOK
  <2>9. ASSUME NEW r \in Request PROVE OnePlace(r)' /\ Counted(r)' /\ Queued(r)'
    <3>1. OnePlace(r) /\ Counted(r) /\ Queued(r)
      BY DEF ProxyInductive, Tracked
    <3>2. runs'[r] = runs[r] /\ answers'[r] = answers[r]
      BY <1>1
    <3>3. CASE r = r0
      <4>1. Holds("down", k, r) /\ "down" \in Place /\ "response" \in Place
        BY <2>5, <3>3 DEF Holds, Place, Single
      <4>2. Moved(r, "down", "response", k)
        BY <1>1, <2>1, <2>3, <2>5, <2>7, <3>1, <3>2, <3>3, <4>1, AnEvent
           DEF Moved, Holds, Queued, Before, Single
      <4>3. OnePlace(r)' /\ Counted(r)'
        BY <3>1, <4>1, <4>2, Moves
      <4>4. Response(r) \notin ToSet(chan)
        BY <3>1, <4>1 DEF OnePlace, Holds
      <4>5. Queued(r)'
        BY <1>1, <2>3, <2>7, <3>1, <4>4, AnEvent DEF Queued
      <4> QED BY <4>3, <4>5
    <3>4. CASE r # r0
      <4>1. \A p \in Place, c \in Conn : Holds(p, c, r)' => Holds(p, c, r)
        BY <1>1, <2>1, <2>3, <2>5, <2>7, <3>4, AnEvent DEF Holds
      <4>2. Queued(r)'
        BY <1>1, <2>3, <2>7, <3>1, <3>4, AnEvent DEF Queued
      <4> QED BY <3>1, <3>2, <4>1, <4>2, Stays
    <3> QED BY <3>3, <3>4
  <2>10. ConnectionsOK'
    <3>1. \A c \in Conn : c # k => /\ Empty(c) => Empty(c)'
                                   /\ NoGreeting(c) => NoGreeting(c)'
                                   /\ Greeted(c) => Greeted(c)'
      BY <1>1, <2>3 DEF Empty, NoGreeting, Greeted
    <3>2. NoGreeting(k)'
      BY <1>1, <1>2, <2>5 DEF NoGreeting
    <3>3. PICK s \in Conn : s = sock
      BY <1>2
    <3> QED BY <1>1, <1>2, <2>1, <3>1, <3>2, <3>3 DEF ProxyInductive, ConnectionsOK
  <2>11. ChannelCovered'
    BY <1>1, <2>1, <2>6, AnEvent, ChannelAppend DEF ProxyInductive, Covered
  <2> QED BY <1>4, <2>8, <2>9, <2>10, <2>11 DEF ProxyInductive, Covered, Tracked
<1>6. CASE down[k] = <<>>
  <2>1. Gone(k) /\ chan' = Append(chan, SocketError) /\ readers' = readers \ {k} /\ down' = down
    BY <1>6 DEF ReaderStep
  <2>2. /\ chan' \in Seq(Event) /\ ToSet(chan') = ToSet(chan) \cup {SocketError}
        /\ \A m : Once(chan, m) /\ m # SocketError => Once(chan', m)
    BY <1>3, <2>1, AnEvent, AppendQueue
  <2>3. TypesOK'
    BY <1>1, <2>1, <2>2 DEF ProxyInductive, TypesOK
  <2>4. Tracked'
    <3>1. \A r \in Request : /\ Line(r) \in ToSet(chan') => Line(r) \in ToSet(chan)
                             /\ Response(r) \in ToSet(chan') => Response(r) \in ToSet(chan)
                             /\ Once(chan', Line(r)) /\ Once(chan', Response(r))
      BY <2>2, AnEvent DEF ProxyInductive, Tracked, Queued
    <3> QED BY <1>1, <2>1, <3>1, Unmoved DEF ProxyInductive
  <2>5. ConnectionsOK'
    <3>1. \A c \in Conn : /\ Empty(c) => Empty(c)'
                          /\ NoGreeting(c) => NoGreeting(c)'
                          /\ Greeted(c) => Greeted(c)'
      BY <1>1, <2>1 DEF Empty, NoGreeting, Greeted
    <3>2. PICK s \in Conn : s = sock
      BY <1>2
    <3> QED BY <1>1, <1>2, <2>1, <3>1, <3>2 DEF ProxyInductive, ConnectionsOK, Gone
  <2>6. ChannelCovered'
    BY <1>1, <2>1, AnEvent, ChannelAppend DEF ProxyInductive, Covered
  <2> QED BY <1>4, <2>3, <2>4, <2>5, <2>6 DEF ProxyInductive, Covered
<1> QED BY <1>5, <1>6

LEMMA ServerReadKeeps ==
    ASSUME ProxyInductive, NEW k \in Conn, ServerRead(k)
    PROVE  ProxyInductive'
<1> USE DEF agentVars, proxyVars, sockVars, serverVars, historyVars
<1>1. /\ link[k] \in {"open", "shut"}
      /\ UNCHANGED <<agentVars, proxyVars, link, down, listening, work, held, reloads, historyVars>>
  BY DEF ServerRead, Served
<1>2. /\ up \in [Conn -> Seq(Message)] /\ inbox \in [Conn -> Seq(Message \cup {Eof})]
      /\ token \in [Conn -> BOOLEAN] /\ sock \in Conn
  BY DEF ProxyInductive, TypesOK
<1>3. ChannelCovered'
  BY <1>1 DEF ProxyInductive, Covered, ChannelCovered
<1>4. \A r \in Request : /\ OnePlace(r) /\ Counted(r) /\ Queued(r) /\ r \notin {Eof, Init_, Cancel}
                         /\ runs'[r] = runs[r] /\ answers'[r] = answers[r]
  BY <1>1, RequestAssumption DEF ProxyInductive, Tracked
<1>5. Eof \notin {Init_, Cancel} /\ Init_ # Cancel
  BY DEF Eof, Init_, Cancel
<1>6. CASE up[k] # <<>>
  <2> DEFINE m == Head(up[k])
  <2>1. /\ inbox' = [inbox EXCEPT ![k] = Append(@, m)] /\ up' = [up EXCEPT ![k] = Tail(@)]
        /\ token' = [token EXCEPT ![k] = @ \/ m = Cancel]
    BY <1>6 DEF ServerRead
  <2>2. ReadFrom(Message, up, k, up')
    BY <1>2, <1>6, <2>1 DEF ReadFrom
  <2>3. /\ up' \in [Conn -> Seq(Message)] /\ up'[k] = Tail(up[k])
        /\ \A c \in Conn : c # k => up'[c] = up[c]
        /\ Head(up[k]) \in Message /\ Head(up[k]) \in ToSet(up[k])
        /\ ToSet(up[k]) = ToSet(up'[k]) \cup {Head(up[k])}
        /\ \A x : Once(up[k], x) /\ x = Head(up[k]) => x \notin ToSet(up'[k])
        /\ \A c \in Conn : \A x : Once(up[c], x) => Once(up'[c], x)
    <3>1. HeadTaken(Message, up, k, up')
      BY <2>2, TailAt
    <3> QED BY <3>1 DEF HeadTaken
  <2>4. /\ m \in Message /\ m \in ToSet(up[k]) /\ ToSet(up[k]) = ToSet(up'[k]) \cup {m}
        /\ (Once(up[k], m) => m \notin ToSet(up'[k]))
    BY <2>3
  <2>5. /\ Len(up'[k]) = Len(up[k]) - 1 /\ Len(up[k]) \in Nat \ {0} /\ up[k][1] = m
        /\ \A i \in 1 .. Len(up[k]) - 1 : up'[k][i] = up[k][i + 1]
        /\ DOMAIN up[k] = 1 .. Len(up[k]) /\ DOMAIN up'[k] = 1 .. Len(up[k]) - 1
    <3>1. up[k] \in Seq(Message) /\ up'[k] = Tail(up[k])
      BY <1>2, <2>3
    <3>2. /\ Len(Tail(up[k])) = Len(up[k]) - 1
          /\ \A i \in 1 .. Len(Tail(up[k])) : Tail(up[k])[i] = up[k][i + 1]
          /\ Tail(up[k]) \in Seq(Message)
      BY <1>6, <3>1, HeadTailProperties
    <3>3. Len(up[k]) \in Nat \ {0}
      BY <1>6, <3>1, EmptySeq, LenProperties
    <3> QED BY <3>1, <3>2, <3>3, LenProperties
  <2> HIDE DEF m
  <2>6. WrittenOn(Message \cup {Eof}, inbox, k, m, inbox')
    BY <1>2, <2>1, <2>4 DEF WrittenOn
  <2>7. /\ inbox' \in [Conn -> Seq(Message \cup {Eof})] /\ inbox'[k] = Append(inbox[k], m)
        /\ \A c \in Conn : c # k => inbox'[c] = inbox[c]
        /\ ToSet(inbox'[k]) = ToSet(inbox[k]) \cup {m}
        /\ \A c \in Conn : \A x : Once(inbox[c], x) /\ (c = k /\ x = m => x \notin ToSet(inbox[c]))
                                => Once(inbox'[c], x)
    BY <2>6, AppendAt
  <2>8. /\ token' \in [Conn -> BOOLEAN]
        /\ \A c \in Conn : c # k => token'[c] = token[c]
        /\ token'[k] => token[k] \/ m = Cancel
    BY <1>2, <2>1
  <2>9. TypesOK'
    BY <1>1, <2>3, <2>7, <2>8 DEF ProxyInductive, TypesOK
  <2>10. ASSUME NEW r \in Request PROVE OnePlace(r)' /\ Counted(r)' /\ Queued(r)'
    <3>1. OnePlace(r) /\ Counted(r) /\ Queued(r) /\ runs'[r] = runs[r] /\ answers'[r] = answers[r]
      BY <1>4
    <3>2. CASE r = m
      <4>1. Holds("up", k, r) /\ "up" \in Place /\ "inbox" \in Place
        BY <2>4, <3>2 DEF Holds, Place, Before
      <4>2. Moved(r, "up", "inbox", k)
        <5>1. r \notin ToSet(up'[k])
          BY <2>3, <2>4, <3>1, <3>2 DEF Queued
        <5>2. ASSUME NEW p \in Place, NEW c \in Conn, Holds(p, c, r)'
              PROVE  (p = "inbox" /\ c = k) \/ (Holds(p, c, r) /\ ~(p = "up" /\ c = k))
          <6>1. CASE p = "up"
            BY <2>3, <5>1, <5>2, <6>1 DEF Holds
          <6>2. CASE p = "inbox"
            BY <2>7, <5>2, <6>2 DEF Holds
          <6>3. CASE p \notin {"up", "inbox"}
            BY <1>1, <5>2, <6>3 DEF Holds
          <6> QED BY <6>1, <6>2, <6>3
        <5> QED BY <3>1, <4>1, <5>2 DEF Moved, Before, Single
      <4>3. OnePlace(r)' /\ Counted(r)'
        BY <3>1, <4>1, <4>2, Moves
      <4>4. r \notin ToSet(inbox[k])
        BY <3>1, <4>1 DEF OnePlace, Holds
      <4>5. Queued(r)'
        BY <1>1, <2>3, <2>7, <3>1, <4>4 DEF Queued
      <4> QED BY <4>3, <4>5
    <3>3. CASE r # m
      <4>1. \A p \in Place, c \in Conn : Holds(p, c, r)' => Holds(p, c, r)
        BY <1>1, <2>3, <2>4, <2>7, <3>3 DEF Holds
      <4>2. Queued(r)'
        BY <1>1, <2>3, <2>7, <3>1, <3>3 DEF Queued
      <4> QED BY <3>1, <4>1, <4>2, Stays
    <3> QED BY <3>2, <3>3
  <2>11. ConnectionsOK'
    <3>1. \A c \in Conn : c # k => /\ Empty(c) => Empty(c)'
                                   /\ NoGreeting(c) => NoGreeting(c)'
                                   /\ Greeted(c) => Greeted(c)'
      BY <1>1, <2>3, <2>7 DEF Empty, NoGreeting, Greeted
    <3>2. NoGreeting(k) => NoGreeting(k)'
      BY <1>1, <2>4, <2>7 DEF NoGreeting
    <3>3. Greeted(k) => Greeted(k)'
      <4>1. ASSUME Greeted(k)
            PROVE up[k] = <<Init_>> /\ inbox[k] = <<>> /\ work[k] = "recv" /\ down[k] = <<>>
        BY <1>6, <4>1 DEF Greeted, Empty
      <4>2. Head(<<Init_>>) = Init_ /\ Tail(<<Init_>>) = <<>> /\ Append(<<>>, Init_) = <<Init_>>
        BY OneQueue
      <4>3. ASSUME Greeted(k)
            PROVE  up'[k] = <<>> /\ inbox'[k] = <<Init_>> /\ work'[k] = "recv" /\ down'[k] = <<>>
        BY <1>1, <2>3, <2>7, <4>1, <4>2, <4>3 DEF m
      <4> QED BY <4>3 DEF Greeted
    <3>4. PICK s \in Conn : s = sock
      BY <1>2
    <3> QED BY <1>1, <3>1, <3>2, <3>3, <3>4 DEF ProxyInductive, ConnectionsOK
  <2>12. ASSUME NEW c \in Conn PROVE ConnectionCovered(c)'
    <3>1. CASE c = k
      <4>1. \A i \in 1 .. Len(up[k]) : up[k][i] = Cancel =>
              /\ \A j \in 1 .. i - 1 : up[k][j] \in Request => up[k][j] \in excused
              /\ \A r \in Request : r \in ToSet(inbox[k]) \/ r = held[k] => r \in excused
        BY <2>5 DEF ProxyInductive, Covered, ConnectionCovered
      <4>2. ASSUME NEW i \in 1 .. Len(up[k]) - 1, up'[k][i] = Cancel
            PROVE  /\ \A j \in 1 .. i - 1 : up'[k][j] \in Request => up'[k][j] \in excused
                   /\ \A r \in Request : r \in ToSet(inbox'[k]) \/ r = held[k] => r \in excused
        <5>1. i + 1 \in 1 .. Len(up[k]) /\ up[k][i + 1] = Cancel /\ 1 \in 1 .. (i + 1) - 1
          BY <2>5, <4>2
        <5>2. \A j \in 1 .. i - 1 : j + 1 \in 1 .. (i + 1) - 1 /\ j \in 1 .. Len(up[k]) - 1
          BY <2>5
        <5>3. m \in Request => m \in excused
          BY <2>5, <4>1, <5>1
        <5>4. \A r \in Request : r \in ToSet(inbox[k]) \/ r = held[k] => r \in excused
          BY <4>1, <5>1
        <5>5. \A j \in 1 .. i - 1 : up'[k][j] = up[k][j + 1]
          BY <2>5, <5>2
        <5>6. \A j \in 1 .. i - 1 : up[k][j + 1] \in Request => up[k][j + 1] \in excused
          BY <4>1, <5>1, <5>2
        <5> QED BY <2>7, <5>3, <5>4, <5>5, <5>6
      <4>3. ASSUME token'[k], held[k] \in ToolCall PROVE held[k] \in excused
        <5>1. CASE token[k]
          BY <4>3, <5>1 DEF ProxyInductive, Covered, ConnectionCovered
        <5>2. CASE m = Cancel
          <6>1. held[k] \in Request
            BY <4>3, RequestAssumption
          <6>2. 1 \in 1 .. Len(up[k])
            BY <2>5
          <6> QED BY <2>5, <4>1, <5>2, <6>1, <6>2
        <5> QED BY <2>8, <4>3, <5>1, <5>2
      <4> QED BY <1>1, <2>5, <3>1, <4>2, <4>3 DEF ConnectionCovered
    <3>2. CASE c # k
      BY <1>1, <2>3, <2>7, <2>8, <3>2 DEF ProxyInductive, Covered, ConnectionCovered
    <3> QED BY <3>1, <3>2
  <2> QED BY <1>3, <2>9, <2>10, <2>11, <2>12 DEF ProxyInductive, Covered, Tracked
<1>7. CASE up[k] = <<>>
  <2>1. /\ link[k] = "shut" \/ ~Running
        /\ inbox' = [inbox EXCEPT ![k] = Append(@, Eof)] /\ up' = up /\ token' = token
    BY <1>7 DEF ServerRead
  <2>2. WrittenOn(Message \cup {Eof}, inbox, k, Eof, inbox')
    BY <1>2, <2>1 DEF WrittenOn
  <2>3. /\ inbox' \in [Conn -> Seq(Message \cup {Eof})] /\ inbox'[k] = Append(inbox[k], Eof)
        /\ \A c \in Conn : c # k => inbox'[c] = inbox[c]
        /\ ToSet(inbox'[k]) = ToSet(inbox[k]) \cup {Eof}
        /\ \A c \in Conn : \A x : Once(inbox[c], x) /\ (c = k /\ x = Eof => x \notin ToSet(inbox[c]))
                                => Once(inbox'[c], x)
    BY <2>2, AppendAt
  <2>4. TypesOK'
    BY <1>1, <2>1, <2>3 DEF ProxyInductive, TypesOK
  <2>5. ASSUME NEW r \in Request PROVE OnePlace(r)' /\ Counted(r)' /\ Queued(r)'
    <3>1. \A p \in Place, c \in Conn : Holds(p, c, r)' => Holds(p, c, r)
      BY <1>1, <1>4, <2>1, <2>3 DEF Holds
    <3>2. Queued(r)'
      BY <1>1, <1>4, <2>1, <2>3 DEF Queued
    <3> QED BY <1>4, <3>1, <3>2, Stays
  <2>6. ConnectionsOK'
    <3>1. \A c \in Conn : c # k => /\ Empty(c) => Empty(c)'
                                   /\ NoGreeting(c) => NoGreeting(c)'
                                   /\ Greeted(c) => Greeted(c)'
      BY <1>1, <2>1, <2>3 DEF Empty, NoGreeting, Greeted
    <3>2. NoGreeting(k) => NoGreeting(k)'
      BY <1>1, <1>5, <2>1, <2>3 DEF NoGreeting
    <3>3. mode = "reinit" => k # sock
      BY <1>1, <2>1 DEF ProxyInductive, ConnectionsOK, Running
    <3>4. PICK s \in Conn : s = sock
      BY <1>2
    <3> QED BY <1>1, <3>1, <3>2, <3>3, <3>4 DEF ProxyInductive, ConnectionsOK
  <2>7. \A c \in Conn : ConnectionCovered(c)'
    <3>1. \A c \in Conn : ToSet(inbox'[c]) \subseteq ToSet(inbox[c]) \cup {Eof}
      BY <2>3
    <3> QED BY <1>1, <1>4, <2>1, <3>1 DEF ProxyInductive, Covered, ConnectionCovered
  <2> QED BY <1>3, <2>4, <2>5, <2>6, <2>7 DEF ProxyInductive, Covered, Tracked
<1> QED BY <1>6, <1>7

LEMMA ServerTakeKeeps ==
    ASSUME ProxyInductive, NEW k \in Conn, ServerTake(k)
    PROVE  ProxyInductive'
<1> USE DEF agentVars, proxyVars, sockVars, serverVars, historyVars
<1> DEFINE m == Head(inbox[k])
<1>1. /\ link[k] \in {"open", "shut"} /\ work[k] = "recv" /\ inbox[k] # <<>>
      /\ inbox' = [inbox EXCEPT ![k] = Tail(@)]
      /\ IF m = Eof
         THEN link' = [link EXCEPT ![k] = "closed"] /\ UNCHANGED <<work, held, token>>
         ELSE IF m = Cancel
         THEN UNCHANGED <<link, work, held, token>>
         ELSE /\ held' = [held EXCEPT ![k] = m] /\ work' = [work EXCEPT ![k] = m]
              /\ token' = Armed(k, m) /\ link' = link
      /\ UNCHANGED <<agentVars, proxyVars, up, down, listening, reloads, historyVars>>
  BY DEF ServerTake, Served
<1>2. /\ inbox \in [Conn -> Seq(Message \cup {Eof})] /\ token \in [Conn -> BOOLEAN]
      /\ sock \in Conn /\ work \in [Conn -> Request \cup {Init_, "recv", "drain"}]
      /\ held \in [Conn -> Request \cup {Init_, None}] /\ held[k] = None
      /\ link \in [Conn -> {"unused", "open", "shut", "closed", "lost"}]
  BY <1>1 DEF ProxyInductive, TypesOK
<1>3. ReadFrom(Message \cup {Eof}, inbox, k, inbox')
  BY <1>1, <1>2 DEF ReadFrom
<1>4. /\ inbox' \in [Conn -> Seq(Message \cup {Eof})] /\ inbox'[k] = Tail(inbox[k])
      /\ \A c \in Conn : c # k => inbox'[c] = inbox[c]
      /\ Head(inbox[k]) \in Message \cup {Eof} /\ Head(inbox[k]) \in ToSet(inbox[k])
      /\ ToSet(inbox[k]) = ToSet(inbox'[k]) \cup {Head(inbox[k])}
      /\ \A x : Once(inbox[k], x) /\ x = Head(inbox[k]) => x \notin ToSet(inbox'[k])
      /\ \A c \in Conn : \A x : Once(inbox[c], x) => Once(inbox'[c], x)
  <2>1. HeadTaken(Message \cup {Eof}, inbox, k, inbox')
    BY <1>3, TailAt
  <2> QED BY <2>1 DEF HeadTaken
<1>5. /\ m \in Message \cup {Eof} /\ m \in ToSet(inbox[k])
      /\ ToSet(inbox[k]) = ToSet(inbox'[k]) \cup {m}
      /\ (Once(inbox[k], m) => m \notin ToSet(inbox'[k]))
  BY <1>4
<1>6. Greeted(k) => /\ up[k] = <<>> /\ inbox[k] = <<Init_>> /\ inbox'[k] = <<>> /\ down[k] = <<>>
                    /\ m = Init_
  <2>1. Head(<<Init_>>) = Init_ /\ Tail(<<Init_>>) = <<>>
    BY OneQueue
  <2> HAVE Greeted(k)
  <2>2. up[k] = <<>> /\ inbox[k] = <<Init_>> /\ down[k] = <<>>
    BY <1>1 DEF Greeted, Empty
  <2>3. inbox'[k] = Tail(inbox[k])
    BY <1>4
  <2>4. inbox'[k] = Tail(<<Init_>>) /\ m = Head(<<Init_>>)
    BY <2>2, <2>3
  <2> HIDE DEF m
  <2> QED BY <2>1, <2>2, <2>4
<1> HIDE DEF m
<1>7. Eof \notin {Init_, Cancel} /\ Init_ # Cancel /\ Init_ \notin {"recv", "drain"}
      /\ {Init_, Cancel, Eof, None, "recv", "drain"} \cap Request = {}
      /\ None \notin {Init_, Cancel, Eof} /\ ToolCall \subseteq Request
  BY RequestAssumption DEF Eof, Init_, Cancel
<1>8. \A r \in Request : /\ OnePlace(r) /\ Counted(r) /\ Queued(r)
                         /\ runs'[r] = runs[r] /\ answers'[r] = answers[r]
  BY <1>1 DEF ProxyInductive, Tracked
<1>9. ASSUME NEW r \in Request PROVE Queued(r)'
  BY <1>1, <1>4, <1>8 DEF Queued
<1>10. \A c \in Conn : c # k => /\ work'[c] = work[c] /\ held'[c] = held[c]
                                /\ token'[c] = token[c] /\ link'[c] = link[c]
  BY <1>1, <1>2 DEF Armed
<1>11. ChannelCovered'
  BY <1>1 DEF ProxyInductive, Covered, ChannelCovered
<1>12. \A c \in Conn : c # k => /\ Empty(c) => Empty(c)'
                                /\ NoGreeting(c) => NoGreeting(c)'
                                /\ Greeted(c) => Greeted(c)'
                                /\ ConnectionCovered(c) => ConnectionCovered(c)'
  BY <1>1, <1>4, <1>10 DEF Empty, NoGreeting, Greeted, ConnectionCovered
<1>13. PICK s \in Conn : s = sock
  BY <1>2
<1>14. \A c \in Conn : ConnectionCovered(c)
  BY DEF ProxyInductive, Covered
<1>15. CASE m \in {Eof, Cancel}
  <2>1. /\ UNCHANGED <<work, held, token>> /\ (link' = link \/ link' = [link EXCEPT ![k] = "closed"])
    BY <1>1, <1>15
  <2>2. link' \in [Conn -> {"unused", "open", "shut", "closed", "lost"}]
    BY <1>2, <2>1
  <2>3. TypesOK'
    BY <1>1, <1>4, <2>1, <2>2 DEF ProxyInductive, TypesOK
  <2>4. ASSUME NEW r \in Request PROVE OnePlace(r)' /\ Counted(r)'
    <3>1. \A p \in Place, c \in Conn : Holds(p, c, r)' => Holds(p, c, r)
      BY <1>1, <1>4, <1>5, <2>1 DEF Holds
    <3> QED BY <1>8, <3>1, Stays
  <2>5. ConnectionsOK'
    <3>1. ~ Greeted(k)
      BY <1>6, <1>7, <1>15
    <3>2. NoGreeting(k) => NoGreeting(k)'
      BY <1>1, <1>5, <2>1 DEF NoGreeting
    <3>3. link'[k] = link[k] \/ link'[k] = "closed"
      BY <1>2, <2>1
    <3> QED BY <1>1, <1>10, <1>12, <1>13, <3>1, <3>2, <3>3 DEF ProxyInductive, ConnectionsOK
  <2>6. ConnectionCovered(k)'
    BY <1>1, <1>5, <1>14, <2>1 DEF ConnectionCovered
  <2> QED BY <1>9, <1>11, <1>12, <1>14, <2>3, <2>4, <2>5, <2>6
          DEF ProxyInductive, Covered, Tracked
<1>16. CASE m \notin {Eof, Cancel}
  <2>1. /\ held' = [held EXCEPT ![k] = m] /\ work' = [work EXCEPT ![k] = m]
        /\ token' = [token EXCEPT ![k] = @ /\ m \notin ToolCall] /\ link' = link
    BY <1>1, <1>16 DEF Armed
  <2>2. /\ m \in Request \cup {Init_}
        /\ work' \in [Conn -> Request \cup {Init_, "recv", "drain"}] /\ work'[k] = m
        /\ held' \in [Conn -> Request \cup {Init_, None}] /\ held'[k] = m
        /\ token' \in [Conn -> BOOLEAN] /\ (token'[k] => m \notin ToolCall)
    BY <1>2, <1>5, <1>16, <2>1 DEF Message
  <2>3. m \notin {None, "recv", "drain"}
    BY <1>7, <2>2
  <2>4. TypesOK'
    <3>1. \A c \in Conn : /\ held'[c] = None <=> work'[c] = "recv"
                          /\ work'[c] \notin {"recv", "drain"} => held'[c] = work'[c]
      BY <1>10, <2>2, <2>3 DEF ProxyInductive, TypesOK
    <3> QED BY <1>1, <1>4, <2>1, <2>2, <3>1 DEF ProxyInductive, TypesOK
  <2>5. ASSUME NEW r \in Request PROVE OnePlace(r)' /\ Counted(r)'
    <3>1. CASE r = m
      <4>1. Holds("inbox", k, r) /\ "inbox" \in Place /\ "work" \in Place
        BY <1>5, <3>1 DEF Holds, Place, Before
      <4>2. \A p \in Place, c \in Conn : Holds(p, c, r)' =>
              (p = "work" /\ c = k) \/ (Holds(p, c, r) /\ ~(p = "inbox" /\ c = k))
        BY <1>1, <1>4, <1>5, <1>8, <1>10, <2>2, <2>3, <3>1 DEF Holds, Queued
      <4>3. Moved(r, "inbox", "work", k)
        BY <1>8, <4>1, <4>2 DEF Moved, Before, Single
      <4> QED BY <1>8, <4>1, <4>3, Moves
    <3>2. CASE r # m
      <4>1. \A p \in Place, c \in Conn : Holds(p, c, r)' => Holds(p, c, r)
        BY <1>1, <1>4, <1>5, <1>10, <2>2, <2>3, <3>2 DEF Holds
      <4> QED BY <1>8, <4>1, Stays
    <3> QED BY <3>1, <3>2
  <2>6. ConnectionsOK'
    <3>1. NoGreeting(k) => NoGreeting(k)'
      BY <1>1, <1>5, <2>2 DEF NoGreeting
    <3>2. Greeted(k) => Greeted(k)'
      BY <1>1, <1>6, <2>2 DEF Greeted
    <3> QED BY <1>1, <1>12, <1>13, <2>1, <3>1, <3>2 DEF ProxyInductive, ConnectionsOK
  <2>7. ConnectionCovered(k)'
    BY <1>1, <1>5, <1>14, <2>2 DEF ConnectionCovered
  <2> QED BY <1>9, <1>11, <1>12, <1>14, <2>4, <2>5, <2>6, <2>7
          DEF ProxyInductive, Covered, Tracked
<1> QED BY <1>15, <1>16

LEMMA ProcessKeeps ==
    ASSUME ProxyInductive, NEW k \in Conn, Process(k)
    PROVE  ProxyInductive'
<1> USE DEF agentVars, proxyVars, sockVars, serverVars, historyVars
<1> DEFINE m == work[k]
<1>1. /\ link[k] \in {"open", "shut"} /\ m = held[k] /\ held[k] # None
      /\ runs' = IF m \in Request THEN [runs EXCEPT ![m] = @ + 1] ELSE runs
      /\ aborted' \subseteq aborted \cup (ToolCall \cap {m})
      /\ work' = [work EXCEPT ![k] = "drain"]
      /\ UNCHANGED <<agentVars, proxyVars, sockVars, listening, inbox, held, token, reloads,
                     writtenOn, excused>>
  BY DEF Process, Served, Returns
<1>2. /\ work \in [Conn -> Request \cup {Init_, "recv", "drain"}]
      /\ held \in [Conn -> Request \cup {Init_, None}]
      /\ sock \in Conn /\ runs \in [Request -> Nat]
  BY DEF ProxyInductive, TypesOK
<1>3. m \in Request \cup {Init_} /\ m \notin {"recv", "drain"} /\ ToolCall \subseteq Request
      /\ {"recv", "drain"} \cap Request = {}
  BY <1>1, <1>2, RequestAssumption DEF Init_
<1> HIDE DEF m
<1>4. /\ work' \in [Conn -> Request \cup {Init_, "recv", "drain"}] /\ work'[k] = "drain"
      /\ \A c \in Conn : c # k => work'[c] = work[c]
  BY <1>1, <1>2
<1>5. /\ runs' \in [Request -> Nat]
      /\ \A r \in Request : runs'[r] = IF r = m THEN runs[r] + 1 ELSE runs[r]
  BY <1>1, <1>2
<1>6. \A r \in Request : OnePlace(r) /\ Counted(r) /\ Queued(r) /\ answers'[r] = answers[r]
  BY <1>1 DEF ProxyInductive, Tracked
<1>7. TypesOK'
  <2>1. m \in Request => m \notin unsent
    BY <1>1, OnlyThere DEF ProxyInductive
  <2>2. aborted' \subseteq Request \ unsent
    BY <1>1, <1>3, <2>1 DEF ProxyInductive, TypesOK
  <2>3. \A c \in Conn : /\ held'[c] = None <=> work'[c] = "recv"
                        /\ work'[c] \notin {"recv", "drain"} => held'[c] = work'[c]
    BY <1>1, <1>4 DEF ProxyInductive, TypesOK
  <2> QED BY <1>1, <1>4, <1>5, <2>2, <2>3 DEF ProxyInductive, TypesOK
<1>8. ASSUME NEW r \in Request PROVE OnePlace(r)' /\ Counted(r)' /\ Queued(r)'
  <2>1. Queued(r)'
    BY <1>1, <1>6 DEF Queued
  <2>2. CASE r = m
    <3>1. Holds("work", k, r) /\ "work" \in Place /\ "held" \in Place
      BY <2>2 DEF Holds, Place, Before, m
    <3>2. \A p \in Place, c \in Conn : Holds(p, c, r)' =>
            (p = "held" /\ c = k) \/ (Holds(p, c, r) /\ ~(p = "work" /\ c = k))
      BY <1>1, <1>3, <1>4, <2>2 DEF Holds
    <3>3. Moved(r, "work", "held", k)
      BY <1>5, <1>6, <2>2, <3>1, <3>2 DEF Moved, Before, Single
    <3> QED BY <1>6, <2>1, <3>1, <3>3, Moves
  <2>3. CASE r # m
    <3>1. \A p \in Place, c \in Conn : Holds(p, c, r)' => Holds(p, c, r)
      BY <1>1, <1>3, <1>4, <2>3 DEF Holds
    <3>2. runs'[r] = runs[r]
      BY <1>5, <2>3
    <3> QED BY <1>6, <2>1, <3>1, <3>2, Stays
  <2> QED BY <2>2, <2>3
<1>9. ConnectionsOK'
  <2>1. \A c \in Conn : /\ c # k /\ Empty(c) => Empty(c)'
                        /\ NoGreeting(c) => NoGreeting(c)'
                        /\ c # k /\ Greeted(c) => Greeted(c)'
    BY <1>1, <1>4 DEF Empty, NoGreeting, Greeted
  <2>2. Greeted(k) => Greeted(k)'
    BY <1>1, <1>3, <1>4 DEF Greeted, Empty, m
  <2>3. PICK s \in Conn : s = sock
    BY <1>2
  <2> QED BY <1>1, <2>1, <2>2, <2>3 DEF ProxyInductive, ConnectionsOK
<1>10. ChannelCovered'
  BY <1>1 DEF ProxyInductive, Covered, ChannelCovered
<1>11. \A c \in Conn : ConnectionCovered(c)'
  BY <1>1, <1>3, <1>4 DEF ProxyInductive, Covered, ConnectionCovered
<1> QED BY <1>7, <1>8, <1>9, <1>10, <1>11 DEF ProxyInductive, Covered, Tracked

LEMMA DrainPendingKeeps ==
    ASSUME ProxyInductive, NEW k \in Conn, DrainPending(k)
    PROVE  ProxyInductive'
<1> USE DEF agentVars, proxyVars, sockVars, serverVars, historyVars
<1>1. /\ link[k] \in {"open", "shut"} /\ work[k] = "drain"
      /\ UNCHANGED <<agentVars, proxyVars, link, up, listening, token, reloads,
                     writtenOn, excused>>
  BY DEF DrainPending, Served
<1>2. /\ work \in [Conn -> Request \cup {Init_, "recv", "drain"}]
      /\ held \in [Conn -> Request \cup {Init_, None}] /\ held[k] # None
      /\ inbox \in [Conn -> Seq(Message \cup {Eof})]
      /\ down \in [Conn -> Seq(Request \cup {Init_})]
      /\ sock \in Conn /\ runs \in [Request -> Nat]
  BY <1>1 DEF ProxyInductive, TypesOK
<1>3. /\ ToolCall \subseteq Request /\ Eof \notin {Init_, Cancel} /\ Init_ # Cancel
      /\ {"recv", "drain", None, Eof, Init_, Cancel} \cap Request = {}
      /\ Init_ \notin {"recv", "drain"} /\ None # Init_
  BY RequestAssumption DEF Init_, Cancel, Eof
<1>4. \A r \in Request : OnePlace(r) /\ Counted(r) /\ Queued(r) /\ answers'[r] = answers[r]
  BY <1>1 DEF ProxyInductive, Tracked
<1>5. PICK s \in Conn : s = sock
  BY <1>2
<1>6. ChannelCovered'
  BY <1>1 DEF ProxyInductive, Covered, ChannelCovered
<1>7. CASE inbox[k] # <<>> /\ Head(inbox[k]) # Eof
  <2> DEFINE m == Head(inbox[k])
  <2>1. /\ inbox' = [inbox EXCEPT ![k] = Tail(@)] /\ UNCHANGED <<work, held>>
        /\ IF m = Cancel
           THEN UNCHANGED <<runs, aborted, down>>
           ELSE /\ runs' = IF m \in Request THEN [runs EXCEPT ![m] = @ + 1] ELSE runs
                /\ aborted' \subseteq aborted \cup (ToolCall \cap {m})
                /\ down' = [down EXCEPT ![k] = Append(@, m)]
    BY <1>7 DEF DrainPending, Returns
  <2>2. ReadFrom(Message \cup {Eof}, inbox, k, inbox')
    BY <1>2, <1>7, <2>1 DEF ReadFrom
  <2>3. /\ inbox' \in [Conn -> Seq(Message \cup {Eof})] /\ inbox'[k] = Tail(inbox[k])
        /\ \A c \in Conn : c # k => inbox'[c] = inbox[c]
        /\ Head(inbox[k]) \in Message \cup {Eof} /\ Head(inbox[k]) \in ToSet(inbox[k])
        /\ ToSet(inbox[k]) = ToSet(inbox'[k]) \cup {Head(inbox[k])}
        /\ \A x : Once(inbox[k], x) /\ x = Head(inbox[k]) => x \notin ToSet(inbox'[k])
        /\ \A c \in Conn : \A x : Once(inbox[c], x) => Once(inbox'[c], x)
    <3>1. HeadTaken(Message \cup {Eof}, inbox, k, inbox')
      BY <2>2, TailAt
    <3> QED BY <3>1 DEF HeadTaken
  <2>4. /\ m \in Message /\ m \in ToSet(inbox[k])
        /\ ToSet(inbox[k]) = ToSet(inbox'[k]) \cup {m}
        /\ (Once(inbox[k], m) => m \notin ToSet(inbox'[k]))
    BY <1>7, <2>3
  <2>5. m \in Request \/ m = Init_ \/ m = Cancel
    BY <2>4 DEF Message
  <2> HIDE DEF m
  <2>6. /\ down' \in [Conn -> Seq(Request \cup {Init_})]
        /\ \A c \in Conn : c # k => down'[c] = down[c]
        /\ ToSet(down'[k]) = ToSet(down[k]) \cup (IF m = Cancel THEN {} ELSE {m})
        /\ \A c \in Conn : \A x : Once(down[c], x) /\ (c = k /\ x = m => x \notin ToSet(down[c]))
                                => Once(down'[c], x)
    <3>1. CASE m = Cancel
      BY <1>2, <2>1, <3>1
    <3>2. CASE m # Cancel
      <4>1. WrittenOn(Request \cup {Init_}, down, k, m, down')
        BY <1>2, <2>1, <2>5, <3>2 DEF WrittenOn
      <4>2. /\ down' \in [Conn -> Seq(Request \cup {Init_})] /\ down'[k] = Append(down[k], m)
            /\ \A c \in Conn : c # k => down'[c] = down[c]
            /\ ToSet(down'[k]) = ToSet(down[k]) \cup {m}
            /\ \A c \in Conn : \A x : Once(down[c], x) /\ (c = k /\ x = m => x \notin ToSet(down[c]))
                                    => Once(down'[c], x)
        BY <4>1, AppendAt
      <4> QED BY <3>2, <4>2
    <3> QED BY <3>1, <3>2
  <2>7. /\ runs' \in [Request -> Nat]
        /\ \A r \in Request : runs'[r] = IF r = m THEN runs[r] + 1 ELSE runs[r]
    BY <1>2, <1>3, <2>1, <2>5
  <2>8. TypesOK'
    <3>1. m \in Request => m \notin unsent
      BY <2>4, OnlyThere DEF ProxyInductive
    <3>2. aborted' \subseteq Request \ unsent
      BY <1>3, <2>1, <3>1 DEF ProxyInductive, TypesOK
    <3> QED BY <1>1, <2>1, <2>3, <2>6, <2>7, <3>2 DEF ProxyInductive, TypesOK
  <2>9. ASSUME NEW r \in Request PROVE OnePlace(r)' /\ Counted(r)' /\ Queued(r)'
    <3>1. CASE r = m
      <4>1. Holds("inbox", k, r) /\ "inbox" \in Place /\ "down" \in Place
        BY <2>4, <3>1 DEF Holds, Place, Before
      <4>2. \A p \in Place, c \in Conn : Holds(p, c, r)' =>
              (p = "down" /\ c = k) \/ (Holds(p, c, r) /\ ~(p = "inbox" /\ c = k))
        BY <1>1, <1>4, <2>1, <2>3, <2>4, <2>6, <3>1 DEF Holds, Queued
      <4>3. Moved(r, "inbox", "down", k)
        BY <1>4, <2>7, <3>1, <4>1, <4>2 DEF Moved, Before, Single
      <4>4. OnePlace(r)' /\ Counted(r)'
        BY <1>4, <4>1, <4>3, Moves
      <4>5. r \notin ToSet(down[k])
        BY <1>4, <4>1 DEF OnePlace, Holds
      <4>6. Queued(r)'
        BY <1>1, <1>4, <2>3, <2>6, <4>5 DEF Queued
      <4> QED BY <4>4, <4>6
    <3>2. CASE r # m
      <4>1. \A p \in Place, c \in Conn : Holds(p, c, r)' => Holds(p, c, r)
        BY <1>1, <2>1, <2>3, <2>4, <2>6, <3>2 DEF Holds
      <4>2. Queued(r)'
        BY <1>1, <1>4, <2>3, <2>6, <3>2 DEF Queued
      <4>3. runs'[r] = runs[r]
        BY <2>7, <3>2
      <4> QED BY <1>4, <4>1, <4>2, <4>3, Stays
    <3> QED BY <3>1, <3>2
  <2>10. ConnectionsOK'
    <3>1. \A c \in Conn : c # k => /\ Empty(c) => Empty(c)'
                                   /\ NoGreeting(c) => NoGreeting(c)'
                                   /\ Greeted(c) => Greeted(c)'
      BY <1>1, <2>1, <2>3, <2>6 DEF Empty, NoGreeting, Greeted
    <3>2. NoGreeting(k) => NoGreeting(k)'
      BY <1>1, <2>1, <2>4, <2>6 DEF NoGreeting
    <3>3. ~ Greeted(k)
      BY <1>1, <1>3, <1>7 DEF Greeted, Empty
    <3> QED BY <1>1, <1>5, <3>1, <3>2, <3>3 DEF ProxyInductive, ConnectionsOK
  <2>11. \A c \in Conn : ConnectionCovered(c)'
    <3>1. \A c \in Conn : ToSet(inbox'[c]) \subseteq ToSet(inbox[c])
      BY <2>3, <2>4
    <3> QED BY <1>1, <2>1, <3>1 DEF ProxyInductive, Covered, ConnectionCovered
  <2> QED BY <1>6, <2>8, <2>9, <2>10, <2>11 DEF ProxyInductive, Covered, Tracked
<1>8. CASE ~ (inbox[k] # <<>> /\ Head(inbox[k]) # Eof)
  <2> DEFINE m == held[k]
  <2>1. /\ down' = [down EXCEPT ![k] = Append(@, m)]
        /\ work' = [work EXCEPT ![k] = "recv"] /\ held' = [held EXCEPT ![k] = None]
        /\ UNCHANGED <<inbox, runs, aborted>>
    BY <1>8 DEF DrainPending
  <2>2. m \in Request \cup {Init_}
    BY <1>2
  <2>3. Greeted(k) => /\ up[k] = <<>> /\ inbox[k] = <<>> /\ m = Init_ /\ down[k] = <<>>
    BY <1>1, <1>3 DEF Greeted, Empty
  <2>4. NoGreeting(k) => m # Init_ /\ Init_ \notin ToSet(down[k])
    BY DEF NoGreeting
  <2>5. \A r \in Request : r = m => Holds("held", k, r)
    BY <1>1 DEF Holds
  <2>6. \A r \in Request : Holds("held", k, r) => r = m
    BY DEF Holds
  <2> HIDE DEF m
  <2>7. WrittenOn(Request \cup {Init_}, down, k, m, down')
    BY <1>2, <2>1, <2>2 DEF WrittenOn
  <2>8. /\ down' \in [Conn -> Seq(Request \cup {Init_})] /\ down'[k] = Append(down[k], m)
        /\ \A c \in Conn : c # k => down'[c] = down[c]
        /\ ToSet(down'[k]) = ToSet(down[k]) \cup {m}
        /\ \A c \in Conn : \A x : Once(down[c], x) /\ (c = k /\ x = m => x \notin ToSet(down[c]))
                                => Once(down'[c], x)
    BY <2>7, AppendAt
  <2>9. /\ work' \in [Conn -> Request \cup {Init_, "recv", "drain"}] /\ work'[k] = "recv"
        /\ held' \in [Conn -> Request \cup {Init_, None}] /\ held'[k] = None
        /\ \A c \in Conn : c # k => work'[c] = work[c] /\ held'[c] = held[c]
    BY <1>2, <2>1
  <2>10. TypesOK'
    <3>1. \A c \in Conn : /\ held'[c] = None <=> work'[c] = "recv"
                          /\ work'[c] \notin {"recv", "drain"} => held'[c] = work'[c]
      BY <2>9 DEF ProxyInductive, TypesOK
    <3> QED BY <1>1, <2>1, <2>8, <2>9, <3>1 DEF ProxyInductive, TypesOK
  <2>11. ASSUME NEW r \in Request PROVE OnePlace(r)' /\ Counted(r)' /\ Queued(r)'
    <3>1. runs'[r] = runs[r]
      BY <2>1
    <3>2. CASE r = m
      <4>1. Holds("held", k, r) /\ "held" \in Place /\ "down" \in Place
        BY <2>5, <3>2 DEF Place, Single
      <4>2. \A p \in Place, c \in Conn : Holds(p, c, r)' =>
              (p = "down" /\ c = k) \/ (Holds(p, c, r) /\ ~(p = "held" /\ c = k))
        BY <1>1, <1>3, <2>1, <2>8, <2>9 DEF Holds
      <4>3. Moved(r, "held", "down", k)
        BY <1>4, <3>1, <4>1, <4>2 DEF Moved, Before, Single
      <4>4. OnePlace(r)' /\ Counted(r)'
        BY <1>4, <4>1, <4>3, Moves
      <4>5. r \notin ToSet(down[k])
        BY <1>4, <4>1 DEF OnePlace, Holds
      <4>6. Queued(r)'
        BY <1>1, <1>4, <2>1, <2>8, <4>5 DEF Queued
      <4> QED BY <4>4, <4>6
    <3>3. CASE r # m
      <4>1. \A p \in Place, c \in Conn : Holds(p, c, r)' => Holds(p, c, r)
        BY <1>1, <1>3, <2>1, <2>8, <2>9, <3>3 DEF Holds
      <4>2. Queued(r)'
        BY <1>1, <1>4, <2>1, <2>8, <3>3 DEF Queued
      <4> QED BY <1>4, <3>1, <4>1, <4>2, Stays
    <3> QED BY <3>2, <3>3
  <2>12. ConnectionsOK'
    <3>1. \A c \in Conn : c # k => /\ Empty(c) => Empty(c)'
                                   /\ NoGreeting(c) => NoGreeting(c)'
                                   /\ Greeted(c) => Greeted(c)'
      BY <1>1, <2>1, <2>8, <2>9 DEF Empty, NoGreeting, Greeted
    <3>2. NoGreeting(k) => NoGreeting(k)'
      BY <1>1, <1>3, <2>1, <2>4, <2>8, <2>9 DEF NoGreeting
    <3>3. Greeted(k) => Greeted(k)'
      <4>1. Append(<<>>, Init_) = <<Init_>>
        OBVIOUS
      <4> QED BY <1>1, <2>1, <2>3, <2>8, <2>9, <4>1 DEF Greeted
    <3> QED BY <1>1, <1>5, <3>1, <3>2, <3>3 DEF ProxyInductive, ConnectionsOK
  <2>13. \A c \in Conn : ConnectionCovered(c)'
    <3>1. \A c \in Conn : held'[c] = held[c] \/ held'[c] = None
      BY <2>9
    <3>2. \A c \in Conn : work'[c] = work[c] \/ work'[c] \notin ToolCall
      BY <1>3, <2>9
    <3> QED BY <1>1, <1>3, <2>1, <3>1, <3>2 DEF ProxyInductive, Covered, ConnectionCovered
  <2> QED BY <1>6, <2>10, <2>11, <2>12, <2>13 DEF ProxyInductive, Covered, Tracked
<1> QED BY <1>7, <1>8

-----------------------------------------------------------------------------
(* The invariant *)

LEMMA ProxyStart == Init => ProxyInductive
<1> SUFFICES ASSUME Init PROVE ProxyInductive
  OBVIOUS
<1>1. 1 \in Conn
  BY BoundAssumption DEF Conn
<1>2. DOMAIN <<>> = {} /\ ToSet(<<>>) = {} /\ (\A S : <<>> \in Seq(S)) /\ \A m : Once(<<>>, m)
  BY EmptyQueue, EmptySeq
<1>3. /\ {None, Init_, Cancel, Eof, "recv", "drain"} \cap Request = {}
      /\ None \notin {Init_, Cancel, Eof} /\ ToolCall \subseteq Request
      /\ MaxCancels \in Nat /\ MaxReloads \in Nat
  BY RequestAssumption, BoundAssumption
<1>4. TypesOK
  <2>1. /\ up \in [Conn -> Seq(Message)] /\ inbox \in [Conn -> Seq(Message \cup {Eof})]
        /\ down \in [Conn -> Seq(Request \cup {Init_})] /\ chan \in Seq(Event)
    BY <1>2 DEF Init
  <2>2. /\ link \in [Conn -> {"unused", "open", "shut", "closed", "lost"}]
        /\ work \in [Conn -> Request \cup {Init_, "recv", "drain"}]
        /\ held \in [Conn -> Request \cup {Init_, None}]
        /\ token \in [Conn -> BOOLEAN]
        /\ \A c \in Conn : work[c] = "recv" /\ held[c] = None
    BY DEF Init
  <2>3. answers \in [Request -> Nat] /\ runs \in [Request -> Nat]
    BY DEF Init
  <2>4. cancels \in 0 .. MaxCancels /\ reloads \in 0 .. MaxReloads
    BY <1>3 DEF Init
  <2>5. /\ unsent \subseteq Request /\ excused \subseteq Request \ unsent
        /\ aborted \subseteq Request \ unsent /\ retry = None /\ mode = "run"
        /\ draining \in BOOLEAN /\ listening \in BOOLEAN /\ sock \in Conn /\ readers \subseteq Conn
    BY <1>1 DEF Init
  <2> QED BY <2>1, <2>2, <2>3, <2>4, <2>5 DEF TypesOK
<1>5. ASSUME NEW r \in Request PROVE OnePlace(r) /\ Counted(r) /\ Queued(r)
  <2>1. \A p \in Place, c \in Conn : Holds(p, c, r) => p = "unsent"
    BY <1>2, <1>3 DEF Init, Holds
  <2>2. OnePlace(r)
    BY <2>1 DEF OnePlace, Single
  <2>3. Counted(r)
    BY <2>1 DEF Counted, Init, Before
  <2>4. Queued(r)
    BY <1>2 DEF Queued, Init
  <2> QED BY <2>2, <2>3, <2>4
<1>6. ConnectionsOK
  BY <1>1, <1>2, <1>3 DEF Init, ConnectionsOK, Empty, NoGreeting
<1>7. Covered
  BY <1>2, <1>3 DEF Init, Covered, ChannelCovered, ConnectionCovered
<1> QED BY <1>4, <1>5, <1>6, <1>7 DEF ProxyInductive, Tracked

LEMMA ProxyStep == ProxyInductive /\ [Next]_vars => ProxyInductive'
<1> SUFFICES ASSUME ProxyInductive, [Next]_vars PROVE ProxyInductive'
  OBVIOUS
<1>1. CASE \E r \in Request : SendRequest(r)
  BY <1>1, SendRequestKeeps
<1>2. CASE SendCancel
  BY <1>2, SendCancelKeeps
<1>3. CASE CloseStdin
  BY <1>3, CloseStdinKeeps
<1>4. CASE MainThread
  BY <1>4, ForwardLineKeeps, ForwardResponseKeeps, HandleSocketErrorKeeps, HandleStdinEofKeeps,
     ConnectKeeps, ReinitializeKeeps, QuietKeeps DEF MainThread
<1>5. CASE GiveUpConnecting \/ Listen
  BY <1>5, QuietKeeps
<1>6. CASE \E c \in Conn : ReaderStep(c) \/ ServerThreads(c)
  BY <1>6, ReaderStepKeeps, ServerReadKeeps, ServerTakeKeeps, ProcessKeeps, DrainPendingKeeps
     DEF ServerThreads
<1>7. CASE Reload
  BY <1>7, ReloadKeeps
<1>8. CASE UNCHANGED vars
  <2> USE DEF vars, agentVars, proxyVars, sockVars, serverVars, historyVars
  <2>1. TypesOK'
    BY <1>8 DEF ProxyInductive, TypesOK
  <2>2. Tracked'
    <3>1. \A r \in Request : Once(chan', Line(r)) /\ Once(chan', Response(r))
      BY <1>8 DEF ProxyInductive, Tracked, Queued
    <3> QED BY <1>8, <3>1, Unmoved DEF ProxyInductive
  <2>3. ConnectionsOK'
    BY <1>8 DEF ProxyInductive, ConnectionsOK, Empty, Greeted, NoGreeting
  <2>4. ChannelCovered'
    BY <1>8 DEF ProxyInductive, Covered, ChannelCovered
  <2>5. \A c \in Conn : ConnectionCovered(c)'
    BY <1>8 DEF ProxyInductive, Covered, ConnectionCovered
  <2> QED BY <2>1, <2>2, <2>3, <2>4, <2>5 DEF ProxyInductive, Covered
<1> QED BY <1>1, <1>2, <1>3, <1>4, <1>5, <1>6, <1>7, <1>8 DEF Next

LEMMA ProxyHolds == ProxyInductive => ProxyInv
<1> SUFFICES ASSUME ProxyInductive PROVE ProxyInv
  OBVIOUS
<1>1. TypeOK
  <2>1. \A e \in ToSet(chan) : e \in Event
    BY ElementOfSeq DEF ProxyInductive, TypesOK, ToSet
  <2>2. /\ excused \cup aborted \subseteq Request \ unsent
        /\ {draining, listening} \subseteq BOOLEAN
        /\ \A c \in Conn :
              /\ link[c] \in {"unused", "open", "shut", "closed", "lost"}
              /\ work[c] \in {"recv", "drain", Init_} \cup Request
              /\ held[c] = None <=> work[c] = "recv"
    BY DEF ProxyInductive, TypesOK
  <2> QED BY <2>1, <2>2 DEF ProxyInductive, TypesOK, TypeOK
<1>2. AtMostOnce
  BY DEF ProxyInductive, Tracked, Counted, AtMostOnce
<1>3. AnswersAreRead
  BY DEF ProxyInductive, ConnectionsOK, AnswersAreRead
<1> QED BY <1>1, <1>2, <1>3 DEF ProxyInv

LEMMA CancelStep ==
    ASSUME ProxyInductive, [Next]_vars, NEW r \in aborted' \ aborted
    PROVE  \/ r \in excused
           \/ \E c \in Conn : /\ work[c] = "drain" /\ Head(inbox[c]) = r
                              /\ held[c] \in ToolCall => held[c] \in excused
<1> USE DEF agentVars, proxyVars, sockVars, serverVars, historyVars
<1>1. \E k \in Conn : Process(k) \/ DrainPending(k)
  BY DEF Next, vars, SendRequest, SendCancel, CloseStdin, MainThread, ForwardLine, ForwardResponse,
     HandleSocketError, HandleStdinEof, Connect, Reinitialize, Terminate, GiveUpConnecting,
     ReaderStep, ServerThreads, ServerRead, ServerTake, Reload, Listen
<1>2. PICK k \in Conn : Process(k) \/ DrainPending(k)
  BY <1>1
<1>3. token[k] /\ held[k] \in ToolCall => held[k] \in excused
  BY DEF ProxyInductive, Covered, ConnectionCovered
<1>4. CASE Process(k)
  <2>1. r = held[k] /\ r \in ToolCall /\ token[k]
    BY <1>4 DEF Process, Returns
  <2> QED BY <1>3, <2>1
<1>5. CASE DrainPending(k)
  <2>1. work[k] = "drain" /\ r = Head(inbox[k]) /\ token[k]
    BY <1>5 DEF DrainPending, Returns
  <2> QED BY <1>3, <2>1
<1> QED BY <1>2, <1>4, <1>5

(* A tool call is carried out and answered at most once, whatever is       *)
(* written again, reconnected or reloaded, and while requests go out       *)
(* somebody reads the answers (run_proxy).                                 *)
THEOREM CallsAtMostOnce == Spec => []ProxyInv
<1>1. Spec => []ProxyInductive
  BY ProxyStart, ProxyStep, PTL DEF Spec
<1> QED BY <1>1, ProxyHolds, PTL

-----------------------------------------------------------------------------
(* The processes *)

(* A session is said to have exited by a look of which the kind is known:  *)
(* a backend of tttt's own child has no other pid.                         *)
ControlInductive ==
    /\ P!ControlInv
    /\ {printed, unread, shown, swallowed} \subseteq Nat
    /\ run \in [P!Proc -> {"none", "runs", "dead"}]
    /\ backend \in {"real", "restored"}

LEMMA ControlStart == P!Init => ControlInductive
BY ControlAssumption DEF P!Init, ControlInductive, P!ControlInv, P!TypeOK, P!ExitedIsGone, P!Proc,
   P!ConstantsOk

LEMMA ControlStep == ControlInductive /\ [P!Next]_processes => ControlInductive'
<1> SUFFICES ASSUME ControlInductive, [P!Next]_processes PROVE ControlInductive'
  OBVIOUS
<1> USE ControlAssumption DEF ControlInductive, P!ControlInv, P!TypeOK, P!ExitedIsGone, P!Proc,
        P!Runs, P!ConstantsOk, P!worldVars, P!ptyVars, P!tttt
<1>1. CASE P!StartJob
  BY <1>1 DEF P!StartJob
<1>2. CASE P!Prints
  BY <1>2 DEF P!Prints
<1>3. CASE P!ReusePid
  BY <1>3 DEF P!ReusePid
<1>4. CASE \E p \in P!Proc : P!Ends(p)
  BY <1>4 DEF P!Ends
<1>5. CASE P!Pump
  BY <1>5 DEF P!Pump, P!Pumped, P!TryWait, P!ProbeByte, P!Exited, P!AtEnd, P!SlaveClosed
<1>6. CASE P!PumpInTwo
  BY <1>6 DEF P!PumpInTwo, P!TryWait, P!ProbeByte
<1>7. CASE P!Reload
  BY <1>7 DEF P!Reload, P!Foreground
<1>8. CASE P!Kills
  <2>1. CASE P!KillReal
    BY <2>1 DEF P!KillReal
  <2>2. CASE P!KilledReal
    BY <2>2 DEF P!KilledReal, P!Dropped
  <2>3. CASE P!KillRestored
    BY <2>3 DEF P!KillRestored, P!Dropped
  <2>4. CASE P!Escalate
    BY <2>4 DEF P!Escalate
  <2>5. CASE P!PollTerm
    BY <2>5 DEF P!PollTerm, P!Reaped, P!TryWait
  <2>6. CASE P!SendKill
    BY <2>6 DEF P!SendKill
  <2>7. CASE P!PollKill
    BY <2>7 DEF P!PollKill, P!Reaped, P!TryWait
  <2>8. CASE P!Return
    BY <2>8 DEF P!Return, P!Dropped
  <2> QED BY <1>8, <2>1, <2>2, <2>3, <2>4, <2>5, <2>6, <2>7, <2>8 DEF P!Kills
<1>9. CASE UNCHANGED processes
  BY <1>9 DEF processes
<1> QED BY <1>1, <1>2, <1>3, <1>4, <1>5, <1>6, <1>7, <1>8, <1>9 DEF P!Next

-----------------------------------------------------------------------------
(* Both, as TLC runs them *)

LEMMA OutsideStep ==
    ProxyInductive /\ ControlInductive /\ [MCNext]_<<part, vars, processes>>
        => (ProxyInductive /\ ControlInductive)'
<1> SUFFICES ASSUME ProxyInductive, ControlInductive, [MCNext]_<<part, vars, processes>>
             PROVE  [Next]_vars /\ [P!Next]_processes
  BY ProxyStep, ControlStep
<1> QED BY DEF MCNext

(* The agent's calls and the sessions' processes are what the server says  *)
(* of them: no call is carried out or answered twice, and no session is    *)
(* called exited while its shell runs (run_proxy, AnyPty::try_wait).       *)
THEOREM OutsideAlways == MCSpec => []OutsideInv
<1>1. MCInit => ProxyInductive /\ ControlInductive
  BY ProxyStart, ControlStart DEF MCInit
<1>2. ProxyInductive /\ ControlInductive => OutsideInv
  BY ProxyHolds DEF OutsideInv, ControlInductive
<1>3. MCSpec => MCInit /\ [][MCNext]_<<part, vars, processes>>
  BY PTL DEF MCSpec
<1> QED BY <1>1, <1>2, <1>3, OutsideStep, PTL

(* A cancel cuts short no call that was written after it, except what is   *)
(* drained while its token is still set: the token is reset before the     *)
(* handler thread works on the next tools/call it takes itself, and when   *)
(* it drains behind one, that call was cancelled (handle_proxy_client).    *)
THEOREM CancelsCutOwnCalls == Spec => CancelIsLater
<1>1. Spec => []ProxyInductive
  BY ProxyStart, ProxyStep, PTL DEF Spec
<1>2. ProxyInductive /\ [Next]_vars =>
        [\A r \in aborted' \ aborted :
         \/ r \in excused
         \/ \E c \in Conn : /\ work[c] = "drain" /\ Head(inbox[c]) = r
                            /\ held[c] \in ToolCall => held[c] \in excused]_vars
  BY CancelStep
<1> QED BY <1>1, <1>2, PTL DEF Spec, CancelIsLater

=============================================================================
