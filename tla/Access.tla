------------------------------- MODULE Access -------------------------------
(***************************************************************************)
(* Who gets in at the web console: starting and stopping the server from   *)
(* the configuration, the dialog of the hotkey or after a live reload, the *)
(* token it makes up, and the page that logs in, loses its connection and  *)
(* tries again.                                                            *)
(*                                                                         *)
(* A credential is a token, the password of the htpasswd file or a wrong   *)
(* one; how it is encoded, hashed and compared is left out, and so are TLS *)
(* and the check of the page's origin, which a page from this server       *)
(* passes.                                                                 *)
(***************************************************************************)
EXTENDS Naturals

CONSTANTS
    None,
    Token,       \* access tokens
    Given,       \* the one the user may choose
    Password, Wrong,
    MaxStarts,   \* bound: times the user starts or stops the server
    MaxReloads   \* bound: live reloads

\* What the constants must be; the module that instantiates this one assumes it.
ConstantsOk == /\ Given \in Token /\ None \notin Token \cup {"fresh", "reload", "info", "probe"}
               /\ {Password, Wrong} \cap (Token \cup {None}) = {} /\ Password # Wrong
               /\ {MaxStarts, MaxReloads} \subseteq Nat

VARIABLES
    config,   \* [port, public, htpasswd, token] of the Config
    server,   \* [public, auth, up] of the running server, or None: web_handle
    minted,   \* tokens made up so far
    boot,     \* the program starts: "fresh", "reload" or None
    before,   \* the auth of the server that ran when the program was reloaded
    dialog,   \* the dialog is open
    starts, reloads,
    page      \* [loaded, ws, opened, credential, required, timer, login, fetch]

serverVars == <<config, server, minted, boot, before, dialog, starts, reloads>>
vars == <<serverVars, page>>

Htpasswd == {"none", "good", "bad"}

NoPage == [loaded |-> FALSE, ws |-> "none", opened |-> FALSE, credential |-> None,
           required |-> FALSE, timer |-> FALSE, login |-> FALSE, fetch |-> None]

Init ==
    /\ config \in [port : BOOLEAN, public : BOOLEAN, htpasswd : Htpasswd, token : {None, Given}]
    /\ server = None /\ boot = "fresh" /\ before = None
    /\ minted = {} /\ dialog = FALSE
    /\ starts = 0 /\ reloads = 0
    /\ page = NoPage

-----------------------------------------------------------------------------
(* Authentication *)

Required(auth) == auth.token # None \/ auth.htpasswd
Verified(credential) == credential = Password

(* Either credential grants access.                                        *)
check_request(auth, credential) ==
    \/ ~Required(auth)
    \/ auth.token # None /\ credential = auth.token
    \/ auth.htpasswd /\ Verified(credential)

-----------------------------------------------------------------------------
(* The server *)

Unprotected(c) == c.public /\ c.htpasswd = "none" /\ c.token = None

NeverStores(c) == {c}  \* mutant: the token is made up when the server starts

(* The configuration with the token that is made up for it                 *)
ensure_token(c) ==
    IF c.port /\ Unprotected(c)
    THEN {[c EXCEPT !.token = t] : t \in Token \ (minted \cup {Given})} ELSE {c}

resolved_auth(c) ==
    LET auth(t) == [token |-> t, htpasswd |-> c.htpasswd # "none"]
    IN  IF Unprotected(c) THEN {auth(t) : t \in Token \ (minted \cup {Given})} ELSE {auth(c.token)}

(* A connection of the page to the server that goes away closes.           *)
CutOff(p) == IF p.ws \in {"connecting", "open"} THEN [p EXCEPT !.ws = "closing"] ELSE p

(* start_web.  The configuration is changed first, and stays so if the     *)
(* server cannot be started; that the port is taken is found out later, in *)
(* the server's thread.                                                    *)
start_web(c, reading) ==
    \E started \in ensure_token(c) :
        /\ config' = started
        /\ \/ /\ started.htpasswd # "bad"
              /\ \E auth \in resolved_auth(started), up \in BOOLEAN :
                     /\ server' = [public |-> started.public, auth |-> auth, up |-> up]
                     /\ minted' = minted \cup ({started.token, auth.token} \ {None, Given})
              /\ dialog' = FALSE
           \/ /\ server' = None /\ dialog' = reading
              /\ minted' = minted \cup ({started.token} \ {None, Given})

(* The program starts, anew or after a reload.                             *)
start_web_from_config ==
    /\ boot # None /\ boot' = None
    /\ IF config.port THEN start_web(config, FALSE)
       ELSE UNCHANGED <<config, server, minted, dialog>>
    /\ UNCHANGED <<before, starts, reloads, page>>

stop_web ==
    /\ boot = None /\ ~dialog /\ server # None
    /\ server' = None
    /\ config' = [config EXCEPT !.port = FALSE]
    /\ page' = CutOff(page)
    /\ UNCHANGED <<minted, boot, before, dialog, starts, reloads>>

toggle_web ==
    /\ boot = None /\ ~dialog /\ server = None /\ starts < MaxStarts
    /\ starts' = starts + 1
    /\ dialog' = TRUE
    /\ UNCHANGED <<config, server, minted, boot, before, reloads, page>>

(* The dialog accepts a host and an htpasswd file that exists, good or bad; *)
(* the token stays what it is.                                             *)
Submit(public, htpasswd) ==
    /\ dialog
    /\ start_web([config EXCEPT !.port = TRUE, !.public = public, !.htpasswd = htpasswd], TRUE)
    /\ UNCHANGED <<boot, before, starts, reloads, page>>

Cancel ==
    /\ dialog /\ dialog' = FALSE
    /\ UNCHANGED <<config, server, minted, boot, before, starts, reloads, page>>

(* A live reload; the configuration is saved with the state.               *)
Reload ==
    /\ boot = None /\ ~dialog /\ reloads < MaxReloads
    /\ reloads' = reloads + 1
    /\ boot' = "reload" /\ server' = None
    /\ before' = IF server = None THEN None ELSE server.auth
    /\ page' = CutOff(page)
    /\ UNCHANGED <<config, minted, dialog, starts>>

ServerNext == \/ start_web_from_config \/ stop_web \/ toggle_web \/ Cancel \/ Reload
              \/ \E public \in BOOLEAN, htpasswd \in Htpasswd : Submit(public, htpasswd)

-----------------------------------------------------------------------------
(* The page, in a browser *)

Up == server # None /\ server.up
Page(p) == page' = p /\ UNCHANGED serverVars

Connected(p) == [p EXCEPT !.ws = "connecting", !.opened = FALSE]
startWithCredential(p, c) == Connected([p EXCEPT !.credential = c, !.login = FALSE])
scheduleReconnect(p) == [p EXCEPT !.timer = TRUE]
showLogin(p) == [p EXCEPT !.login = TRUE]

(* The page is opened, with the token of a URL or without.                 *)
Load == /\ Up /\ page.fetch # "info"
        /\ Page([NoPage EXCEPT !.loaded = TRUE, !.fetch = "info"])

TokenOfUrl == {None} \cup minted \cup {Given}

(* What it learns at first; the server may be gone again.                  *)
AuthInfo(urlToken) ==
    /\ page.fetch = "info"
    /\ LET p == [page EXCEPT !.fetch = None, !.required = Up /\ Required(server.auth)]
       IN  Page(IF Up /\ ~Required(server.auth) THEN startWithCredential(p, None)
                ELSE IF urlToken # None THEN startWithCredential(p, urlToken)
                ELSE showLogin(p))

Login(c) == /\ page.login
            /\ Page(startWithCredential(page, c))

(* ws_handler                                                              *)
Upgrade ==
    /\ page.ws = "connecting"
    /\ Page(IF Up /\ check_request(server.auth, page.credential)
            THEN [page EXCEPT !.ws = "open", !.opened = TRUE]
            ELSE [page EXCEPT !.ws = "closing"])

(* The network fails.                                                      *)
Lost == page.ws = "open" /\ Page(CutOff(page))

(* onclose.  A connection that never opened makes it ask whether the       *)
(* server is there, which would mean that the credential is wrong.         *)
Closed(p) ==
    IF ~p.opened /\ p.credential # None THEN [p EXCEPT !.ws = "none", !.fetch = "probe"]
    ELSE scheduleReconnect([p EXCEPT !.ws = "none"])

OnClose == page.ws = "closing" /\ Page(Closed(page))

Probe ==
    /\ page.fetch = "probe"
    /\ LET p == [page EXCEPT !.fetch = None]
       IN  Page(IF Up THEN showLogin([p EXCEPT !.credential = None]) ELSE scheduleReconnect(p))

(* The timer of scheduleReconnect.  It never comes to the form: a page that *)
(* needs a credential has one whenever it waits.                            *)
TimerFires ==
    /\ page.timer
    /\ LET p == [page EXCEPT !.timer = FALSE]
       IN  Page(IF p.credential # None \/ ~p.required THEN Connected(p) ELSE showLogin(p))

PageStep == \/ \E t \in TokenOfUrl : AuthInfo(t)
            \/ Upgrade \/ OnClose \/ Probe \/ TimerFires

PageNext == \/ Load \/ Lost \/ PageStep
            \/ \E c \in minted \cup {Given, Password, Wrong} : Login(c)

-----------------------------------------------------------------------------
Next == ServerNext \/ PageNext

Spec == Init /\ [][Next]_vars

(* The browser goes on; users log in or do not.                            *)
Fairness == WF_vars(PageStep)
FairSpec == Spec /\ Fairness

-----------------------------------------------------------------------------
(* Properties *)

TypeOK ==
    /\ minted \subseteq Token \ {Given}
    /\ config.token \in minted \cup {None, Given}
    /\ page.ws \in {"none", "connecting", "open", "closing"}
    /\ boot # None => server = None /\ ~dialog

(* A server that can be reached from elsewhere asks for a credential       *)
(* ("Binding to a non-loopback address without an htpasswd file            *)
(* auto-generates a random access token", web/mod.rs), however it came to  *)
(* be started.                                                             *)
PublicIsProtected == server # None /\ server.public => Required(server.auth)

WaitsFor ==
    (IF page.ws = "none" THEN {} ELSE {"ws"}) \cup (IF page.timer THEN {"timer"} ELSE {})
    \cup (IF page.login THEN {"login"} ELSE {}) \cup (IF page.fetch = None THEN {} ELSE {"fetch"})

(* A page that was opened waits for exactly one thing: no second           *)
(* connection is begun over a first, and it is never left with none.       *)
WaitsForOne == page.loaded => \E w \in {"ws", "timer", "login", "fetch"} : WaitsFor = {w}

AccessInv == TypeOK /\ PublicIsProtected /\ WaitsForOne

(* "open browser sessions keep working across reloads" (main.rs): the      *)
(* server that is started after a reload asks for what the one before did. *)
ReloadKeepsAuth ==
    [][boot = "reload" /\ server' # None /\ before # None => server'.auth = before]_vars

(* A page that is not opened anew, with a credential that is accepted,     *)
(* gets in again and again.                                                *)
AcceptedGetsIn ==
    <>[](/\ page.loaded /\ page.fetch # "info" /\ ~page.login
         /\ Up /\ check_request(server.auth, page.credential)) => []<>(page.ws = "open")

(* The page throws a credential away only if it was refused.  TLC refutes  *)
(* this, see the README.                                                   *)
KeepsGood ==
    [][page.credential # None /\ page'.credential = None /\ Up
       => ~check_request(server.auth, page.credential) \/ page'.fetch = "info"]_vars

(* A page whose credential is not accepted asks for another one.  TLC      *)
(* refutes this, see the README.                                           *)
AsksForLogin ==
    <>[](page.loaded /\ page.fetch # "info" /\ Up /\ ~check_request(server.auth, page.credential))
        => <>(page.login)

(* A reload starts no server that was not running before.  TLC refutes     *)
(* this, see the README.                                                   *)
ReloadStartsRunning == [][boot = "reload" /\ server' # None => before # None]_vars
=============================================================================
