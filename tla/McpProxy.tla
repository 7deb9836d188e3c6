------------------------------ MODULE McpProxy ------------------------------
(***************************************************************************)
(* The bridge between an agent's stdio and the server inside tttt: the     *)
(* proxy process (run_proxy, its reader threads and their one channel),    *)
(* the Unix sockets, and in the server two threads for each connection, a  *)
(* reader and a handler (handle_proxy_client).  A live reload replaces the *)
(* server: it breaks every connection and takes the listener away for a    *)
(* while.                                                                  *)
(***************************************************************************)
EXTENDS Naturals, Sequences, SequencesExt

CONSTANTS
    Request,     \* requests of the agent, each with an identifier of its own
    ToolCall,    \* those that are tools/call; the rest are answered at once
    MaxConn,     \* bound: connections the proxy makes
    MaxReloads,  \* bound: live reloads of the server
    MaxCancels,  \* bound: cancel notifications of the agent
    None

Conn == 1 .. MaxConn
Init_ == "init"       \* the initialize request of reinitialize
Cancel == "cancel"    \* notifications/cancelled; its requestId is never read
Eof == "eof"

ASSUME RequestAssumption ==
    /\ ToolCall \subseteq Request
    /\ {None, Init_, Cancel, Eof, "recv", "drain"} \cap Request = {}
    /\ None \notin {Init_, Cancel, Eof}

ASSUME BoundAssumption ==
    MaxConn \in Nat \ {0} /\ MaxReloads \in Nat /\ MaxCancels \in Nat

VARIABLES
    \* the agent
    unsent,     \* requests it has not written to the proxy's stdin
    cancels,    \* how many cancel notifications it has written
    answers,    \* how often the proxy wrote an answer to a request
    \* the proxy process
    chan,       \* ProxyEvents waiting for the main thread
    mode,       \* "run", "connect", "reinit", "done" or "failed"
    retry,      \* the line whose write failed, None after a SocketError
    draining,   \* stdin has ended and master_tx is dropped
    sock,       \* the connection `socket' refers to
    readers,    \* connections with a live spawn_socket_reader thread
    \* the sockets
    link,       \* "unused", "open", "shut" (for writing), "closed" by the
                \* handler at the end of input, or "lost" in a reload
    up, down,   \* what travels to the server and to the proxy
    \* the server
    listening,  \* the socket path can be connected to
    inbox,      \* TuiSocketEvents waiting for the handler thread
    work,       \* what the handler thread is doing for a connection
    held,       \* the response it sends after it has drained its inbox
    token,      \* cancel_token
    reloads,
    \* history
    writtenOn,  \* the connection a request was last written to
    runs,       \* how often a request was processed
    excused,    \* requests followed by a cancel notification
    aborted     \* tool calls that ended because they saw the token

agentVars == <<unsent, cancels, answers>>
proxyVars == <<chan, mode, retry, draining, sock, readers>>
sockVars == <<link, up, down>>
serverVars == <<listening, inbox, work, held, token, reloads>>
historyVars == <<writtenOn, runs, excused, aborted>>
vars == <<agentVars, proxyVars, sockVars, serverVars, historyVars>>

Line(msg) == [type |-> "line", msg |-> msg]
Response(msg) == [type |-> "response", msg |-> msg]
SocketError == [type |-> "error", msg |-> None]
StdinEof == [type |-> "eof", msg |-> None]

Init ==
    /\ unsent = Request /\ cancels = 0 /\ answers = [r \in Request |-> 0]
    /\ chan = <<>> /\ mode = "run" /\ retry = None /\ draining = FALSE
    /\ sock = 1 /\ readers = {1}
    /\ link = [c \in Conn |-> IF c = 1 THEN "open" ELSE "unused"]
    /\ up = [c \in Conn |-> <<>>] /\ down = [c \in Conn |-> <<>>]
    /\ listening = TRUE
    /\ inbox = [c \in Conn |-> <<>>]
    /\ work = [c \in Conn |-> "recv"]
    /\ held = [c \in Conn |-> None]
    /\ token = [c \in Conn |-> FALSE]
    /\ reloads = 0
    /\ writtenOn = [r \in Request |-> 0] /\ runs = [r \in Request |-> 0]
    /\ excused = {} /\ aborted = {}

Gone(c) == link[c] \in {"closed", "lost"}
Running == mode \notin {"done", "failed"}

-----------------------------------------------------------------------------
(* The agent, through the proxy's stdin thread *)

StdinOpen == Running /\ ~draining /\ StdinEof \notin ToSet(chan)

SendRequest(r) ==
    /\ StdinOpen /\ r \in unsent
    /\ unsent' = unsent \ {r}
    /\ chan' = Append(chan, Line(r))
    /\ UNCHANGED <<cancels, answers, mode, retry, draining, sock, readers, sockVars, serverVars,
                   historyVars>>

SendCancel ==
    /\ StdinOpen /\ cancels < MaxCancels /\ unsent # Request
    /\ cancels' = cancels + 1
    /\ chan' = Append(chan, Line(Cancel))
    /\ excused' = Request \ unsent
    /\ UNCHANGED <<unsent, answers, mode, retry, draining, sock, readers, sockVars, serverVars,
                   writtenOn, runs, aborted>>

CloseStdin ==
    /\ StdinOpen
    /\ chan' = Append(chan, StdinEof)
    /\ UNCHANGED <<agentVars, mode, retry, draining, sock, readers, sockVars, serverVars,
                   historyVars>>

-----------------------------------------------------------------------------
(* The main thread of run_proxy *)

Receive(type) == mode = "run" /\ chan # <<>> /\ Head(chan).type = type /\ chan' = Tail(chan)

Write(c, msg) ==
    /\ up' = [up EXCEPT ![c] = Append(@, msg)]
    /\ writtenOn' = IF msg \in Request THEN [writtenOn EXCEPT ![msg] = c] ELSE writtenOn

ResendLast ==  \* mutant: the last line written is kept, to be written again after an error
    /\ Receive("line")
    /\ retry' = Head(chan).msg
    /\ IF link[sock] = "open"
       THEN Write(sock, Head(chan).msg) /\ UNCHANGED mode
       ELSE mode' = "connect" /\ UNCHANGED <<up, writtenOn>>
    /\ UNCHANGED <<agentVars, draining, sock, readers, link, down, serverVars,
                   runs, excused, aborted>>

(* A line for the socket; a write fails once the server has closed it.     *)
ForwardLine ==
    /\ Receive("line")
    /\ IF link[sock] = "open"
       THEN Write(sock, Head(chan).msg) /\ UNCHANGED <<mode, retry>>
       ELSE /\ mode' = "connect" /\ retry' = Head(chan).msg
            /\ UNCHANGED <<up, writtenOn>>
    /\ UNCHANGED <<agentVars, draining, sock, readers, link, down, serverVars,
                   runs, excused, aborted>>

ForwardResponse ==
    /\ Receive("response")
    /\ LET r == Head(chan).msg
       IN  answers' = IF r \in Request THEN [answers EXCEPT ![r] = @ + 1] ELSE answers
    /\ UNCHANGED <<unsent, cancels, mode, retry, draining, sock, readers, sockVars, serverVars,
                   historyVars>>

(* Which connection a reader lost is not said: any error means reconnect.  *)
HandleSocketError ==
    /\ Receive("error")
    /\ mode' = IF draining THEN mode ELSE "connect"
    /\ UNCHANGED <<agentVars, retry, draining, sock, readers, sockVars, serverVars,
                   historyVars>>

EofKeepsSocket ==  \* mutant: the socket is not shut down
    /\ Receive("eof")
    /\ draining' = TRUE
    /\ UNCHANGED <<agentVars, mode, retry, sock, readers, sockVars, serverVars, historyVars>>

HandleStdinEof ==
    /\ Receive("eof")
    /\ draining' = TRUE
    /\ link' = [link EXCEPT ![sock] = IF @ = "open" THEN "shut" ELSE @]
    /\ UNCHANGED <<agentVars, mode, retry, sock, readers, up, down, serverVars, historyVars>>

(* connect_with_retry and the request of reinitialize.  The old socket is  *)
(* dropped, but a reader of it that still lives keeps it open.             *)
Connect ==
    /\ mode = "connect" /\ listening
    /\ \E c \in Conn :
          /\ link[c] = "unused" /\ \A d \in Conn : link[d] = "unused" => c <= d
          /\ sock' = c
          /\ link' = [link EXCEPT ![c] = "open",
                                  ![sock] = IF @ = "open" /\ sock \notin readers THEN "shut" ELSE @]
          /\ up' = [up EXCEPT ![c] = <<Init_>>]
    /\ mode' = "reinit"
    /\ UNCHANGED <<agentVars, chan, retry, draining, readers, down, serverVars, historyVars>>

(* All attempts were refused.  After a failed write that ends the proxy.   *)
GiveUpConnecting ==
    /\ mode = "connect" /\ ~listening
    /\ mode' = IF retry = None THEN "run" ELSE "failed"
    /\ retry' = None
    /\ UNCHANGED <<agentVars, chan, draining, sock, readers, sockVars, serverVars,
                   historyVars>>

(* reinitialize waits for its answer or the end of the connection.  With   *)
(* the answer a reader is spawned and the line whose write failed is       *)
(* written again: if either fails while a line waits, the proxy ends.      *)
Reinitialize ==
    LET answered == down[sock] # <<>>
    IN  /\ mode = "reinit" /\ (answered \/ Gone(sock))
        /\ down' = IF answered THEN [down EXCEPT ![sock] = Tail(@)] ELSE down
        /\ IF answered /\ link[sock] = "open"
           THEN /\ readers' = readers \cup {sock}
                /\ mode' = "run"
                /\ IF retry = None THEN UNCHANGED <<up, writtenOn>> ELSE Write(sock, retry)
           ELSE /\ mode' = IF retry = None THEN "run" ELSE "failed"
                /\ UNCHANGED <<readers, up, writtenOn>>
        /\ retry' = None
        /\ UNCHANGED <<agentVars, chan, draining, sock, link, serverVars, runs, excused, aborted>>

(* The channel closes when every sender is gone: stdin thread, master_tx   *)
(* and all the readers.                                                    *)
Terminate ==
    /\ mode = "run" /\ draining /\ chan = <<>> /\ readers = {}
    /\ mode' = "done"
    /\ UNCHANGED <<agentVars, chan, retry, draining, sock, readers, sockVars, serverVars,
                   historyVars>>

(* spawn_socket_reader: what has arrived is read before the end is seen.   *)
ReaderStep(c) ==
    /\ Running /\ c \in readers
    /\ \/ /\ down[c] # <<>>
          /\ chan' = Append(chan, Response(Head(down[c])))
          /\ down' = [down EXCEPT ![c] = Tail(@)]
          /\ UNCHANGED readers
       \/ /\ down[c] = <<>> /\ Gone(c)
          /\ chan' = Append(chan, SocketError)
          /\ readers' = readers \ {c}
          /\ UNCHANGED down
    /\ UNCHANGED <<agentVars, mode, retry, draining, sock, link, up, serverVars, historyVars>>

-----------------------------------------------------------------------------
(* The server *)

Served(c) == link[c] \in {"open", "shut"}

(* spawn_tui_socket_reader: a cancel notification sets the token at once.  *)
ServerRead(c) ==
    /\ Served(c) /\ Eof \notin ToSet(inbox[c])
    /\ IF up[c] # <<>>
       THEN /\ inbox' = [inbox EXCEPT ![c] = Append(@, Head(up[c]))]
            /\ token' = [token EXCEPT ![c] = @ \/ Head(up[c]) = Cancel]
            /\ up' = [up EXCEPT ![c] = Tail(@)]
       ELSE /\ link[c] = "shut" \/ ~Running
            /\ inbox' = [inbox EXCEPT ![c] = Append(@, Eof)]
            /\ UNCHANGED <<token, up>>
    /\ UNCHANGED <<agentVars, proxyVars, link, down, listening, work, held, reloads,
                   historyVars>>

TokenKept(c, r) == token  \* mutant: the token of the last call is not reset

Armed(c, r) == [token EXCEPT ![c] = @ /\ r \notin ToolCall]

(* The outer loop of handle_proxy_client.                                  *)
ServerTake(c) ==
    /\ Served(c) /\ work[c] = "recv" /\ inbox[c] # <<>>
    /\ LET m == Head(inbox[c])
       IN  /\ inbox' = [inbox EXCEPT ![c] = Tail(@)]
           /\ IF m = Eof
              THEN /\ link' = [link EXCEPT ![c] = "closed"]
                   /\ UNCHANGED <<work, held, token>>
              ELSE IF m = Cancel
              THEN UNCHANGED <<link, work, held, token>>
              ELSE /\ held' = [held EXCEPT ![c] = m]
                   /\ work' = [work EXCEPT ![c] = m]
                   /\ token' = Armed(c, m)
                   /\ UNCHANGED link
    /\ UNCHANGED <<agentVars, proxyVars, up, down, listening, reloads, historyVars>>

(* process_jsonrpc_request; a tool call that waits ends once it sees the   *)
(* token, and may have ended before.                                       *)
Returns(c, r) ==
    /\ runs' = IF r \in Request THEN [runs EXCEPT ![r] = @ + 1] ELSE runs
    /\ \/ UNCHANGED aborted
       \/ r \in ToolCall /\ token[c] /\ aborted' = aborted \cup {r}

(* The call returns, in its own time or because it has seen the token.     *)
Process(c) ==
    /\ Served(c) /\ work[c] = held[c] /\ held[c] # None
    /\ Returns(c, work[c])
    /\ work' = [work EXCEPT ![c] = "drain"]
    /\ UNCHANGED <<agentVars, proxyVars, sockVars, listening, inbox, held, token, reloads,
                   writtenOn, excused>>

(* What arrived while the call ran is processed first, without touching    *)
(* the token; then the response of the call is sent.                       *)
DrainPending(c) ==
    /\ Served(c) /\ work[c] = "drain"
    /\ IF inbox[c] # <<>> /\ Head(inbox[c]) # Eof
       THEN LET m == Head(inbox[c])
            IN  /\ inbox' = [inbox EXCEPT ![c] = Tail(@)]
                /\ IF m = Cancel
                   THEN UNCHANGED <<runs, aborted, down>>
                   ELSE /\ Returns(c, m)
                        /\ down' = [down EXCEPT ![c] = Append(@, m)]
                /\ UNCHANGED <<work, held>>
       ELSE /\ down' = [down EXCEPT ![c] = Append(@, held[c])]
            /\ work' = [work EXCEPT ![c] = "recv"]
            /\ held' = [held EXCEPT ![c] = None]
            /\ UNCHANGED <<inbox, runs, aborted>>
    /\ UNCHANGED <<agentVars, proxyVars, link, up, listening, token, reloads,
                   writtenOn, excused>>

(* execute_reload: execv closes every connection; what the server had not  *)
(* read, was working on or held back is gone, what it sent is not.         *)
Reload ==
    /\ listening /\ reloads < MaxReloads
    /\ listening' = FALSE /\ reloads' = reloads + 1
    /\ link' = [c \in Conn |-> IF Served(c) THEN "lost" ELSE link[c]]
    /\ up' = [c \in Conn |-> <<>>] /\ inbox' = [c \in Conn |-> <<>>]
    /\ work' = [c \in Conn |-> "recv"] /\ held' = [c \in Conn |-> None]
    /\ token' = [c \in Conn |-> FALSE]
    /\ UNCHANGED <<agentVars, proxyVars, down, historyVars>>

(* start_mcp_listener in the new process image.                            *)
Listen ==
    /\ ~listening /\ listening' = TRUE
    /\ UNCHANGED <<agentVars, proxyVars, sockVars, inbox, work, held, token, reloads,
                   historyVars>>

-----------------------------------------------------------------------------

MainThread ==
    \/ ForwardLine \/ ForwardResponse \/ HandleSocketError \/ HandleStdinEof
    \/ Connect \/ Reinitialize \/ Terminate

ServerThreads(c) == ServerRead(c) \/ ServerTake(c) \/ Process(c) \/ DrainPending(c)

Next ==
    \/ (\E r \in Request : SendRequest(r)) \/ SendCancel \/ CloseStdin
    \/ MainThread \/ GiveUpConnecting
    \/ \E c \in Conn : ReaderStep(c) \/ ServerThreads(c)
    \/ Reload \/ Listen

Spec == Init /\ [][Next]_vars

(* Threads are scheduled, tool calls return (each has a timeout), and a    *)
(* reload that starts brings the listener back.                            *)
Fairness ==
    /\ WF_vars(MainThread) /\ WF_vars(Listen)
    /\ \A c \in Conn : WF_vars(ReaderStep(c)) /\ WF_vars(ServerThreads(c))

FairSpec == Spec /\ Fairness

-----------------------------------------------------------------------------
(* Properties *)

Event == {Line(m) : m \in Request \cup {Cancel}}
         \cup {Response(m) : m \in Request} \cup {SocketError, StdinEof}

(* Types; a line waits to be written again only while the proxy is         *)
(* reconnecting for it.                                                    *)
TypeOK ==
    /\ unsent \subseteq Request /\ excused \cup aborted \subseteq Request \ unsent
    /\ cancels \in 0 .. MaxCancels /\ reloads \in 0 .. MaxReloads
    /\ \A e \in ToSet(chan) : e \in Event
    /\ mode \in {"run", "connect", "reinit", "done", "failed"}
    /\ retry # None => mode \in {"connect", "reinit"}
    /\ sock \in Conn /\ readers \subseteq Conn
    /\ \A c \in Conn :
          /\ link[c] \in {"unused", "open", "shut", "closed", "lost"}
          /\ work[c] \in {"recv", "drain", Init_} \cup Request
          /\ held[c] = None <=> work[c] = "recv"
    /\ token \in [Conn -> BOOLEAN] /\ {draining, listening} \subseteq BOOLEAN

(* A tool call acts on terminals, so none may be carried out twice or      *)
(* answered twice, however often the proxy reconnects and writes again.    *)
AtMostOnce == \A r \in Request : runs[r] <= 1 /\ answers[r] <= runs[r]

(* While requests go to a connection, a reader thread waits for its        *)
(* answers: the writing side and the reading side are replaced together.   *)
AnswersAreRead ==
    mode = "run" /\ ~draining /\ link[sock] = "open" => sock \in readers

(* The proxy and the server agree on the calls: none is carried out twice, *)
(* and while requests go out somebody reads the answers (run_proxy).       *)
ProxyInv == TypeOK /\ AtMostOnce /\ AnswersAreRead

(* A cancel cuts short the calls it came after.  The token is reset only   *)
(* for a tools/call that the handler thread takes itself, so there is one  *)
(* exception: what is drained behind a call that was cancelled, or behind  *)
(* a request that resets nothing, meets the token that is still set.  From *)
(* the next call the thread takes on, nothing is left of it.               *)
CancelIsLater ==
    [][\A r \in aborted' \ aborted :
         \/ r \in excused
         \/ \E c \in Conn : /\ work[c] = "drain" /\ Head(inbox[c]) = r
                            /\ held[c] \in ToolCall => held[c] \in excused]_vars

(* Every call that is cut short was written before the cancel.             *)
(* TLC refutes this, see the README.                                       *)
CancelHitsEarlier == [][aborted' \subseteq excused]_vars

(* A request that was written is answered unless a reload took its         *)
(* connection: the end of the input and a reconnection lose nothing.       *)
WrittenAnswered ==
    \A r \in Request, c \in Conn :
        writtenOn[r] = c ~> answers[r] = 1 \/ link[c] = "lost" \/ mode = "failed"

(* A connection that was replaced while its reader was alive: nothing      *)
(* shuts it, and the reader holds a sender of the channel.                 *)
LeftOpen == \E c \in readers \ {sock} : link[c] = "open"

(* The end of the input ends the proxy, also after reloads and             *)
(* reconnections, unless a connection was left open with its reader.       *)
EofTerminates == draining /\ ~LeftOpen ~> mode = "done"

(* The comments of run_proxy: at the end of the input master_tx is dropped *)
(* "to allow the channel to close", so the proxy ends.                     *)
(* TLC refutes this: after a failed write has reconnected, the error of    *)
(* the old reader connects once more and leaves a reader behind.           *)
EofAlwaysEnds == draining ~> mode = "done"

(* The comment above run_proxy: on a disconnection the proxy reconnects    *)
(* and retries the current request, so every request is answered.          *)
(* TLC refutes this, see the README.                                       *)
RequestRetried ==
    \A r \in Request : r \notin unsent ~> answers[r] = 1 \/ mode = "failed"

=============================================================================
