-------------------------------- MODULE Ctl --------------------------------
(***************************************************************************)
(* tttt-ctl: a command line that turns each command into tool calls on the *)
(* MCP socket and reports what came of them with its last line and its     *)
(* exit code.  Scripts run one command after another; the sessions live    *)
(* on meanwhile, and a tool call that was begun goes on in the server when *)
(* its client has given up.                                                *)
(*                                                                         *)
(* Time is in units of the client's read timeout.  "p" is a text programs  *)
(* print; "screen" stands for what the JSON of an answer has around the    *)
(* screen (its keys, its punctuation, the numbers of the cursor), "ERROR"  *)
(* for the text of an answer that failed.  What JSON escapes in a screen   *)
(* (quotes, backslashes, line ends) is left out, as are commands that only *)
(* display an answer (screen, list, status, the notifications) and the     *)
(* wait for a file.                                                        *)
(***************************************************************************)
EXTENDS Naturals, Sequences, FiniteSets

CONSTANTS
    Session, Root, None,
    ReadTimeout,   \* of the socket (30 s)
    LimitWait,     \* until a rate limit is over
    WaitTimeout,   \* of a wait for a pattern
    MaxCommands    \* bound: commands run

Kinds == {"launch", "send", "kill", "kill_all", "resize", "wait", "wait_idle", "rate_limit",
          "has_session"}
Tool == {"launch", "send_keys", "kill", "list", "resize", "get_screen", "wait_for_idle", "rate_limit"}
Text == {"p", "limit"}
Framing == {"screen", "ERROR"}
Pattern == {"p"} \cup Framing
Key == {"text", "enter", "a", "prompt"}

\* A tool call in the server: what it was given, the wait it is in, its answer.
Reply == [ok : BOOLEAN, has : (SUBSET Session) \cup SUBSET (Text \cup Framing)]
ToolCall == [tool : Tool, session : Session, keys : {<<>>, <<"a", "prompt">>} \cup {<<k>> : k \in Key},
             left : {None} \cup 0 .. LimitWait, result : {None} \cup Reply]

\* What the constants must be; the module that instantiates this one assumes it.
ConstantsOk ==
    /\ Root \in Session
    /\ None \notin Session \cup Kinds \cup {"found"} /\ None \notin Reply /\ None \notin ToolCall
    /\ {ReadTimeout, LimitWait, WaitTimeout} \subseteq Nat \ {0}
    /\ MaxCommands \in Nat

VARIABLES
    table,    \* [Session -> "none", "running", "exited" or "killed"]
    screen,   \* [Session -> what it shows]
    typed,    \* [Session -> what was typed into it, each with the command it is from]
    cmd,      \* the command, how long ago it began and asked, what came of it
    pc,       \* "idle", "call", "await", "pause" or "sleep"
    calls,    \* [command -> its tool call in the server, None before and after]
    seen      \* what the session of the command showed since it began

worldVars == <<table, screen, typed>>
vars == <<worldVars, cmd, pc, calls, seen>>

Command == 1 .. MaxCommands

NoCommand == [n |-> 0, kind |-> None, session |-> Root, keys |-> <<>>, pattern |-> None, next |-> 1,
              since |-> 0, asked |-> 0, said |-> None, code |-> 0]

Init ==
    /\ table = [s \in Session |-> IF s = Root THEN "running" ELSE "none"]
    /\ screen = [s \in Session |-> {}] /\ typed = [s \in Session |-> <<>>]
    /\ cmd = NoCommand /\ pc = "idle"
    /\ calls = [n \in Command |-> None]
    /\ seen = {}

-----------------------------------------------------------------------------
(* The sessions, and time *)

Older(age, most) == IF age < most THEN age + 1 ELSE age

Tick ==
    /\ cmd' = [cmd EXCEPT !.since = Older(@, WaitTimeout + 1), !.asked = Older(@, ReadTimeout)]
    /\ calls' = [n \in Command |->
                    IF calls[n] = None \/ calls[n].left \in {None, 0} THEN calls[n]
                    ELSE [calls[n] EXCEPT !.left = @ - 1]]
    /\ UNCHANGED <<worldVars, pc, seen>>

Shows(s, texts) ==
    /\ table[s] = "running" /\ screen[s] # texts
    /\ screen' = [screen EXCEPT ![s] = texts]
    /\ seen' = IF s = cmd.session THEN seen \cup texts ELSE seen
    /\ UNCHANGED <<table, typed, cmd, pc, calls>>

SessionExits(s) ==
    /\ s # Root /\ table[s] = "running"
    /\ table' = [table EXCEPT ![s] = "exited"]
    /\ UNCHANGED <<screen, typed, cmd, pc, calls, seen>>

-----------------------------------------------------------------------------
(* The tools, in threads of the server *)

Present(s) == table[s] \in {"running", "exited"}

Error == [ok |-> FALSE, has |-> {"ERROR"}]
Answer(n, what) == calls' = [calls EXCEPT ![n].result = [ok |-> TRUE, has |-> what]]
Fails(n) == calls' = [calls EXCEPT ![n].result = Error] /\ UNCHANGED worldVars
Pending(n, tool) == calls[n] # None /\ calls[n].tool = tool /\ calls[n].result = None
Serves == UNCHANGED <<cmd, pc, seen>>

Typed(s, n, keys) ==
    typed' = [typed EXCEPT ![s] = @ \o [i \in DOMAIN keys |-> [by |-> n, key |-> keys[i]]]]

Launch(n) ==
    /\ Pending(n, "launch") /\ Serves
    /\ \/ \E s \in Session :
              /\ table[s] = "none" /\ table' = [table EXCEPT ![s] = "running"]
              /\ UNCHANGED <<screen, typed>> /\ Answer(n, {})
       \/ Fails(n)

(* A session that does not run refuses keys; a full terminal does too.     *)
SendKeys(n) ==
    /\ Pending(n, "send_keys") /\ Serves
    /\ \/ /\ table[calls[n].session] = "running"
          /\ Typed(calls[n].session, n, calls[n].keys) /\ Answer(n, {})
          /\ UNCHANGED <<table, screen>>
       \/ Fails(n)

(* A kill fails if there is no such session, or no process to signal.      *)
KillSession(n) ==
    /\ Pending(n, "kill") /\ Serves
    /\ \/ /\ Present(calls[n].session)
          /\ table' = [table EXCEPT ![calls[n].session] = "killed"]
          /\ UNCHANGED <<screen, typed>> /\ Answer(n, {})
       \/ Fails(n)

ListSessions(n) ==
    /\ Pending(n, "list") /\ Serves /\ UNCHANGED worldVars
    /\ Answer(n, {s \in Session : Present(s)})

(* The answer is the text of {"screen": ..., "cursor": ...}.               *)
GetScreen(n) ==
    /\ Pending(n, "get_screen") /\ Serves
    /\ IF Present(calls[n].session)
       THEN Answer(n, {"screen"} \cup screen[calls[n].session]) /\ UNCHANGED worldVars
       ELSE Fails(n)

(* Both do nothing here that others see, and may fail.                     *)
ResizeOrWait(n) ==
    /\ Pending(n, "resize") \/ Pending(n, "wait_for_idle")
    /\ Serves
    /\ \/ Present(calls[n].session) /\ Answer(n, {}) /\ UNCHANGED worldVars
       \/ Fails(n)

(* A dialog with a time that can be read                                   *)
Limited(s) == "limit" \in screen[s]

(* The dialog is read once and its time waited for without the lock, ...   *)
ReadLimit(n) ==
    /\ Pending(n, "rate_limit") /\ calls[n].left = None /\ Serves
    /\ UNCHANGED worldVars
    /\ IF ~Present(calls[n].session) THEN calls' = [calls EXCEPT ![n].result = Error]
       ELSE IF ~Limited(calls[n].session) THEN Answer(n, {})
       ELSE calls' = [calls EXCEPT ![n].left = LimitWait]

(* ... then the answer and, two seconds later, the prompt are typed into   *)
(* whatever the session shows by then.                                     *)
LimitOver(n) ==
    /\ Pending(n, "rate_limit") /\ calls[n].left = 0 /\ Serves
    /\ \/ LET keys == calls[n].keys
          IN  /\ table[calls[n].session] = "running"
              /\ Typed(calls[n].session, n, <<Head(keys)>>) /\ UNCHANGED <<table, screen>>
              /\ IF Len(keys) = 1 THEN Answer(n, {})
                 ELSE calls' = [calls EXCEPT ![n].keys = Tail(@)]
       \/ Fails(n)

Tools(n) == \/ Launch(n) \/ SendKeys(n) \/ KillSession(n) \/ ListSessions(n) \/ GetScreen(n)
            \/ ResizeOrWait(n) \/ ReadLimit(n) \/ LimitOver(n)

-----------------------------------------------------------------------------
(* The client *)

Client == UNCHANGED <<worldVars, seen>>

ToolOf(kind) ==
    CASE kind = "send" -> "send_keys"
      [] kind \in {"kill_all", "has_session"} -> "list"
      [] kind = "wait" -> "get_screen"
      [] kind = "wait_idle" -> "wait_for_idle"
      [] OTHER -> kind

(* Text and Enter are two calls if both are asked for; next is the one to  *)
(* be made.                                                                *)
Asked(kind, s, keys, pattern) ==
    [n |-> cmd.n + 1, kind |-> kind, session |-> s, keys |-> keys, pattern |-> pattern, next |-> 1,
     since |-> 0, asked |-> 0, said |-> None, code |-> 0]

(* A command without a server, or with a session it cannot name, ends at   *)
(* once.                                                                   *)
Run(kind, s, keys, pattern) ==
    /\ pc = "idle" /\ cmd.n < MaxCommands
    /\ \/ pc' = "call" /\ cmd' = Asked(kind, s, keys, pattern)
       \/ pc' = "idle" /\ cmd' = [Asked(kind, s, keys, pattern) EXCEPT !.said = "error", !.code = 1]
    /\ seen' = screen[s]
    /\ UNCHANGED <<worldVars, calls>>

call_tool ==
    /\ pc = "call" /\ pc' = "await"
    /\ calls' = [calls EXCEPT ![cmd.n] =
                    [tool |-> ToolOf(cmd.kind), session |-> cmd.session,
                     keys |-> IF cmd.kind = "rate_limit" THEN <<"a", "prompt">>
                              ELSE IF cmd.keys = <<>> THEN <<>> ELSE <<cmd.keys[cmd.next]>>,
                     left |-> None, result |-> None]]
    /\ cmd' = [cmd EXCEPT !.asked = 0]
    /\ Client

exit(code, said) == pc' = "idle" /\ cmd' = [cmd EXCEPT !.code = code, !.said = said]

(* recv_msg times out: the command gives up, the tool call does not.       *)
TimesOut ==
    /\ pc = "await" /\ calls[cmd.n].result = None
    /\ cmd.asked = ReadTimeout
    /\ exit(1, "error") /\ UNCHANGED calls /\ Client

SwallowsErrors(result) ==  \* mutant: the answer to the text is not looked at
    IF cmd.next < Len(cmd.keys)
    THEN pc' = "pause" /\ cmd' = [cmd EXCEPT !.next = @ + 1]
    ELSE exit(0, None)

(* cmd_send: an error is reported, at either call.                         *)
Sent(result) ==
    IF ~result.ok THEN exit(1, "error")
    ELSE IF cmd.next < Len(cmd.keys)
    THEN pc' = "pause" /\ cmd' = [cmd EXCEPT !.next = @ + 1]
    ELSE exit(0, None)

AtDeadline == cmd.since = WaitTimeout  \* mutant: the deadline itself must be hit

Expired == cmd.since > WaitTimeout

(* cmd_wait: the pattern is looked for in all of the answer's text.        *)
Looked(result) ==
    IF cmd.pattern \in result.has THEN exit(0, "found")
    ELSE IF Expired THEN exit(1, "timeout")
    ELSE pc' = "sleep" /\ UNCHANGED cmd

(* What a command makes of an answer.  kill and resize say that it is done *)
(* whatever the answer; kill --all and has-session look for words in the   *)
(* list that a line of JSON does not have.                                 *)
Concluded(result) ==
    CASE cmd.kind = "send" -> Sent(result)
      [] cmd.kind = "wait" -> Looked(result)
      [] cmd.kind \in {"kill", "resize"} -> exit(0, "done")
      [] cmd.kind = "has_session" -> exit(1, None)
      [] OTHER -> exit(0, IF result.ok THEN None ELSE "error")

Receive ==
    /\ pc = "await" /\ calls[cmd.n].result # None
    /\ Concluded(calls[cmd.n].result)
    /\ calls' = [calls EXCEPT ![cmd.n] = None]
    /\ Client

(* 200 ms between the text and Enter, or the interval between two looks.   *)
Resume ==
    /\ pc = "pause" \/ (pc = "sleep" /\ cmd.asked > 0)
    /\ pc' = "call"
    /\ UNCHANGED <<cmd, calls>> /\ Client

-----------------------------------------------------------------------------
Keys == {<<"text">>, <<"enter">>, <<"text", "enter">>}

Next ==
    \/ Tick
    \/ \E s \in Session : SessionExits(s) \/ \E texts \in {{}, {"p"}, {"limit"}} : Shows(s, texts)
    \/ \E n \in Command : Tools(n)
    \/ \E kind \in Kinds, s \in Session :
           \E keys \in (IF kind = "send" THEN Keys ELSE {<<>>}),
              pattern \in (IF kind = "wait" THEN Pattern ELSE {None}) : Run(kind, s, keys, pattern)
    \/ call_tool \/ TimesOut \/ Receive \/ Resume

Spec == Init /\ [][Next]_vars

(* The client and the clock go on; the server may never answer.            *)
Fairness == WF_vars(Tick) /\ WF_vars(call_tool \/ TimesOut \/ Receive \/ Resume)
FairSpec == Spec /\ Fairness

-----------------------------------------------------------------------------
(* Properties *)

TypeOK ==
    /\ cmd \in [n : 0 .. MaxCommands, kind : Kinds \cup {None}, session : Session,
               keys : Keys \cup {<<>>}, pattern : Pattern \cup {None}, next : {1, 2},
               since : 0 .. WaitTimeout + 1, asked : 0 .. ReadTimeout,
               said : {None, "error", "done", "found", "timeout"}, code : {0, 1}]
    /\ pc \in {"idle", "call", "await", "pause", "sleep"}
    /\ screen \in [Session -> SUBSET Text]
    /\ typed \in [Session -> Seq([by : 1 .. cmd.n, key : Key])]
    /\ calls \in [Command -> {None} \cup ToolCall]
    /\ pc = "await" => calls[cmd.n] # None

(* What command n typed, among the keys in line, are the first k of keys,  *)
(* in order.                                                               *)
TypesFirst(line, n, keys, k) ==
    LET own == {i \in DOMAIN line : line[i].by = n}
    IN  \E at \in [1 .. k -> own] :
            /\ \A i, j \in 1 .. k : i < j => at[i] < at[j]
            /\ \A i \in own : \E j \in 1 .. k : at[j] = i
            /\ \A i \in 1 .. k : line[at[i]].key = keys[i]
TypedFirst(k) == TypesFirst(typed[cmd.session], cmd.n, cmd.keys, k)

(* A send that reports success has typed all it was asked for, in order    *)
(* and once; one that has not got so far has typed a part from the         *)
(* beginning, never an Enter without the text ("a swallowed error here     *)
(* means callers think keys were delivered when they were not", ctl.rs).   *)
SentIsTyped ==
    cmd.kind = "send" =>
        /\ (pc = "idle" /\ cmd.code = 0) => TypedFirst(Len(cmd.keys))
        /\ \E k \in 0 .. Len(cmd.keys) : TypedFirst(k)

(* A pattern that was found was on the screen while the command ran, or is *)
(* a text of the answer that is not of the screen.                         *)
Found == cmd.kind = "wait" /\ pc = "idle" /\ cmd.said = "found"
FoundWasShown == Found => cmd.pattern \in seen \cup Framing

CtlInv == TypeOK /\ SentIsTyped /\ FoundWasShown

(* Every command ends, whatever the server does.                           *)
CommandEnds == \A n \in Command : cmd.n = n ~> (pc = "idle" \/ cmd.n > n)

(* has-session "exits 0 if yes, 1 if no".  TLC refutes this, as the rest   *)
(* below; see the README.                                                  *)
HasSessionTells ==
    cmd.kind = "has_session" /\ pc = "idle" /\ cmd.session = Root => cmd.code = 0

(* wait --pattern: "Pattern to wait for on screen" (ctl.rs).               *)
PatternOnScreen == Found => cmd.pattern \in seen

(* A session that kill reports killed is gone.                             *)
KilledIsGone ==
    [][cmd.kind = "kill" /\ Receive /\ cmd'.said = "done" => table[cmd.session] = "none"]_vars

(* kill --all kills "all non-root sessions".                               *)
KillAllKills ==
    [][cmd.kind = "kill_all" /\ Receive /\ cmd'.code = 0 =>
           \A s \in Session \ {Root} : s \in calls[cmd.n].result.has => table[s] # "running"]_vars

(* A rate-limit dialog is answered once, though the client gives up while  *)
(* the server still waits for the dialog.                                  *)
AnsweredOnce ==
    \A s \in Session : Len(SelectSeq(typed[s], LAMBDA k : k.key = "a")) <= 1

(* The Enter of a command submits what the same command typed.             *)
EnterSubmitsOwn ==
    \A s \in Session : \A i \in 2 .. Len(typed[s]) :
        typed[s][i].key = "enter" => typed[s][i - 1].by = typed[s][i].by
=============================================================================
