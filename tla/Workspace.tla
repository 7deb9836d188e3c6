----------------------------- MODULE Workspace -----------------------------
(***************************************************************************)
(* The sessions of one tttt process: the session manager shared with the   *)
(* MCP threads, the event loop's copy of the session order and its active  *)
(* session, and the live reload that writes them to a file and executes    *)
(* the new binary in the same process.  The MCP threads go on while the    *)
(* reload saves its state.                                                 *)
(*                                                                         *)
(* A session runs a shell, which may run a job in the foreground of its    *)
(* terminal; a restored session knows one pid, the group that was in the   *)
(* foreground when the state was saved.                                    *)
(***************************************************************************)
EXTENDS Naturals, Sequences, FiniteSets, SequencesExt, Functions

CONSTANTS
    Name,         \* names a client may give to a session
    MaxSessions,  \* SessionManager.max_sessions
    MaxId,        \* bound: ids handed out
    MaxReloads,   \* bound: live reloads
    MaxJobs,      \* bound: foreground jobs started
    None

ASSUME NameAssumption == None \notin Name /\ Name \cap Nat = {} /\ None \notin Nat
ASSUME BoundAssumption ==
    /\ MaxSessions \in Nat \ {0} /\ MaxId \in Nat \ {0}
    /\ MaxReloads \in Nat /\ MaxJobs \in Nat

Id == 1 .. MaxId  \* pty-1, pty-2, ...

VARIABLES
    table,    \* SessionManager.sessions: a function from ids to sessions
    names,    \* SessionManager.names: a function from names to ids
    nextId,   \* SessionManager.next_id
    order,    \* App.session_order
    active,   \* App.active_session
    pending,  \* TuiState.pending_switch
    pc,       \* where the event loop is: "input", "switch", "sync", "exit"
    mode,     \* "run", "saving", "cleared" or "gone"
    saved,    \* the SavedState being written
    reloads, jobs,
    lost      \* history: sessions whose shell was alive when they were dropped

loopVars == <<order, active, pc>>
reloadVars == <<mode, saved, reloads>>
vars == <<table, names, nextId, loopVars, pending, reloadVars, jobs, lost>>

Session(name, root) ==
    [name |-> name, root |-> root, status |-> "running",
     alive |-> TRUE, job |-> FALSE, tracked |-> "shell"]

NothingSaved == [sessions |-> << >>, next |-> 0, restart |-> FALSE]

Init ==
    /\ table = [id \in {1} |-> Session(None, TRUE)] /\ names = << >> /\ nextId = 2
    /\ order = <<1>> /\ active = 1 /\ pending = None /\ pc = "input"
    /\ mode = "run" /\ saved = NothingSaved /\ reloads = 0 /\ jobs = 0
    /\ lost = {}

Ids == DOMAIN table
Up == mode # "gone"
IsRunning(id) == id \in Ids /\ table[id].status = "running"
With(f, x, y) == [z \in DOMAIN f \cup {x} |-> IF z = x THEN y ELSE f[z]]
Without(f, x) == [z \in DOMAIN f \ {x} |-> f[z]]

-----------------------------------------------------------------------------
(* Children *)

StartJob(id) ==
    /\ Up /\ id \in Ids /\ table[id].alive /\ ~table[id].job /\ jobs < MaxJobs
    /\ table' = [table EXCEPT ![id].job = TRUE]
    /\ jobs' = jobs + 1
    /\ UNCHANGED <<names, nextId, loopVars, pending, reloadVars, lost>>

EndJob(id) ==
    /\ Up /\ id \in Ids /\ table[id].job
    /\ table' = [table EXCEPT ![id].job = FALSE]
    /\ UNCHANGED <<names, nextId, loopVars, pending, reloadVars, jobs, lost>>

ShellExits(id) ==
    /\ Up /\ id \in Ids /\ table[id].alive
    /\ table' = [table EXCEPT ![id].alive = FALSE, ![id].job = FALSE]
    /\ UNCHANGED <<names, nextId, loopVars, pending, reloadVars, jobs, lost>>

(* update_status, after any pump: try_wait sees the exit of a child; of a  *)
(* pid that is no child of tttt (ECHILD) it assumes that it still runs.    *)
Detect(id) ==
    /\ Up /\ IsRunning(id) /\ ~table[id].alive /\ table[id].tracked = "shell"
    /\ table' = [table EXCEPT ![id].status = "exited"]
    /\ UNCHANGED <<names, nextId, loopVars, pending, reloadVars, jobs, lost>>

-----------------------------------------------------------------------------
(* The session manager, called under its lock *)

(* generate_id and add_session or add_session_with_name: a refused session *)
(* has used up its id.                                                     *)
Refused(name) == name \in DOMAIN names \/ Cardinality(Ids) >= MaxSessions

Add(name) ==
    /\ nextId <= MaxId /\ nextId' = nextId + 1
    /\ IF Refused(name)
       THEN UNCHANGED <<table, names>>
       ELSE /\ table' = With(table, nextId, Session(name, FALSE))
            /\ names' = IF name = None THEN names ELSE With(names, name, nextId)

KillForgetsName(id) == UNCHANGED names  \* mutant: the name is not released

ReleaseNames(id) ==
    names' = [n \in {m \in DOMAIN names : names[m] # id} |-> names[n]]

(* kill_session signals the pid it knows: when that was a job that has     *)
(* ended the signal fails, and the session stays.                          *)
KillFails(id) == IsRunning(id) /\ table[id].tracked = "job" /\ ~table[id].job

KillSession(id) ==
    /\ id \in Ids /\ ~KillFails(id)
    /\ table' = Without(table, id)
    /\ ReleaseNames(id)

-----------------------------------------------------------------------------
(* MCP threads *)

McpLaunch(name) ==
    /\ Up /\ Add(name)
    /\ UNCHANGED <<loopVars, pending, reloadVars, jobs, lost>>

McpKill(id) ==
    /\ Up /\ KillSession(id)
    /\ UNCHANGED <<nextId, loopVars, pending, reloadVars, jobs, lost>>

McpSwitch(id) ==
    /\ Up /\ id \in Ids
    /\ pending' = id
    /\ UNCHANGED <<table, names, nextId, loopVars, reloadVars, jobs, lost>>

-----------------------------------------------------------------------------
(* The event loop *)

At(step) == mode = "run" /\ pc = step

(* create_session from the keyboard; it is named by no one.                *)
UserCreates ==
    /\ At("input") /\ Add(None)
    /\ IF Refused(None)
       THEN UNCHANGED <<order, active>>
       ELSE order' = Append(order, nextId) /\ active' = nextId
    /\ UNCHANGED <<pc, pending, reloadVars, jobs, lost>>

(* switch_to_session, for a digit, next, previous or a click.              *)
UserSwitches ==
    /\ At("input")
    /\ \E id \in ToSet(order) \cap Ids : active' = id
    /\ UNCHANGED <<table, names, nextId, order, pc, pending, reloadVars, jobs, lost>>

Iterate ==
    /\ At("input") /\ pc' = "switch"
    /\ UNCHANGED <<table, names, nextId, order, active, pending, reloadVars, jobs, lost>>

TakePendingSwitch ==
    /\ At("switch") /\ pc' = "sync"
    /\ active' = IF pending = None THEN active ELSE pending
    /\ pending' = None
    /\ UNCHANGED <<table, names, nextId, order, reloadVars, jobs, lost>>

(* A set of numbers in increasing order.                                   *)
Ascending(S) ==
    [k \in 1 .. Cardinality(S) |-> CHOOSE n \in S : Cardinality({m \in S : m < n}) = k - 1]

(* What a sequence has of a set, in the order of the sequence.             *)
Kept(seq, S) ==
    LET at == {i \in DOMAIN seq : seq[i] \in S}
    IN  [k \in 1 .. Cardinality(at) |-> seq[Ascending(at)[k]]]

OnlyAppends(current, actual) ==  \* mutant: sessions that are gone stay in the order
    current \o Ascending(actual \ ToSet(current))

reconcile_session_order(current, actual) ==
    Kept(current, actual) \o Ascending(actual \ ToSet(current))

SyncSessionOrder ==
    /\ At("sync") /\ pc' = "exit"
    /\ order' = reconcile_session_order(order, Ids)
    /\ UNCHANGED <<table, names, nextId, active, pending, reloadVars, jobs, lost>>

AnyOther == Kept(order, Id \ {active})  \* mutant: running or not

Candidates == Kept(order, {id \in Ids \ {active} : IsRunning(id)})

Alive == {id \in Ids : table[id].alive}

(* check_session_exit with compute_exit_action.                            *)
CheckSessionExit ==
    /\ At("exit")
    /\ pc' = "input"
    /\ IF IsRunning(active)
       THEN UNCHANGED <<active, mode, lost>>
       ELSE IF Candidates # <<>>
       THEN active' = Head(Candidates) /\ UNCHANGED <<mode, lost>>
       ELSE /\ mode' = "gone" /\ lost' = lost \cup Alive
            /\ UNCHANGED active
    /\ UNCHANGED <<table, names, nextId, order, pending, saved, reloads, jobs>>

-----------------------------------------------------------------------------
(* Live reload *)

(* SIGUSR1, SIGUSR2 or the key end the loop; prepare_reload copies the     *)
(* session table, with the foreground group of each terminal as its pid.   *)
BeginReload(restart) ==
    /\ At("input") /\ reloads < MaxReloads
    /\ reloads' = reloads + 1 /\ mode' = "saving"
    /\ saved' = [sessions |-> [id \in Ids |->
                    [table[id] EXCEPT !.tracked = IF table[id].job THEN "job" ELSE "shell"]],
                 next |-> 0, restart |-> restart]
    /\ UNCHANGED <<table, names, nextId, loopVars, pending, jobs, lost>>

(* The id counter is read later, under a lock of its own; then every saved *)
(* descriptor is made to survive exec, which fails if one has been closed. *)
SaveCounter ==
    /\ mode = "saving"
    /\ saved' = [saved EXCEPT !.next = nextId]
    /\ IF DOMAIN saved.sessions \subseteq Ids
       THEN mode' = "cleared" /\ UNCHANGED lost
       ELSE mode' = "gone" /\ lost' = lost \cup Alive
    /\ UNCHANGED <<table, names, nextId, loopVars, pending, reloads, jobs>>

(* Those that run and whose descriptor is still open are restored.         *)
Restored == {id \in DOMAIN saved.sessions \cap Ids : saved.sessions[id].status = "running"}

Respawn(s) == [s EXCEPT !.alive = TRUE, !.job = FALSE, !.tracked = "shell"]

RestoredSession(id) ==
    LET s == [saved.sessions[id] EXCEPT !.alive = table[id].alive, !.job = table[id].job]
    IN  IF saved.restart /\ s.root THEN Respawn(s) ELSE s

NextIdRestored == saved.next

NamesOf(t) == [n \in {t[id].name : id \in DOMAIN t} \ {None} |->
                 CHOOSE id \in DOMAIN t : t[id].name = n]

(* respawn_root_session makes the root active, restored or not.            *)
RestoreActive ==
    LET root == {id \in DOMAIN saved.sessions : saved.sessions[id].root}
    IN  active' = IF saved.restart /\ root # {} THEN CHOOSE id \in root : TRUE ELSE active

RestoreUnnamed ==  \* mutant: sessions are restored without their names
    /\ table' = [id \in Restored |-> [RestoredSession(id) EXCEPT !.name = None]]
    /\ names' = NamesOf(table')
    /\ nextId' = NextIdRestored

restore_sessions ==
    /\ table' = [id \in Restored |-> RestoredSession(id)]
    /\ names' = NamesOf(table')
    /\ nextId' = NextIdRestored

(* execv, and what the new process does before its event loop begins: the  *)
(* sessions, then a fresh agent if that was asked for.                     *)
ExecAndRestore ==
    /\ mode = "cleared"
    /\ restore_sessions /\ RestoreActive
    /\ pending' = None /\ pc' = "input" /\ mode' = "run" /\ saved' = NothingSaved
    /\ lost' = lost \cup (Alive \ Restored)
    /\ UNCHANGED <<order, reloads, jobs>>

(* The binary is gone or execv fails: main goes on to its normal exit.     *)
ExecFails ==
    /\ mode = "cleared"
    /\ mode' = "gone" /\ lost' = lost \cup Alive
    /\ UNCHANGED <<table, names, nextId, loopVars, pending, saved, reloads, jobs>>

-----------------------------------------------------------------------------

Loop == Iterate \/ TakePendingSwitch \/ SyncSessionOrder \/ CheckSessionExit

Next ==
    \/ Loop \/ UserCreates \/ UserSwitches
    \/ \E name \in Name \cup {None} : McpLaunch(name)
    \/ \E id \in Id : \/ McpKill(id) \/ McpSwitch(id)
                      \/ StartJob(id) \/ EndJob(id) \/ ShellExits(id) \/ Detect(id)
    \/ \E restart \in BOOLEAN : BeginReload(restart)
    \/ SaveCounter \/ ExecAndRestore \/ ExecFails

Spec == Init /\ [][Next]_vars

(* The event loop turns, pumps every session and finishes a reload.        *)
Fairness ==
    /\ WF_vars(Loop) /\ WF_vars(SaveCounter) /\ WF_vars(ExecAndRestore)
    /\ \A id \in Id : WF_vars(Detect(id))

FairSpec == Spec /\ Fairness

-----------------------------------------------------------------------------
(* Properties *)

SessionRecord ==
    [name : Name \cup {None}, root : BOOLEAN, status : {"running", "exited"},
     alive : BOOLEAN, job : BOOLEAN, tracked : {"shell", "job"}]

(* Types, and the limits the manager keeps.                                *)
TypeOK ==
    /\ Ids \subseteq Id /\ Cardinality(Ids) <= MaxSessions
    /\ \A id \in Ids : table[id] \in SessionRecord
    /\ DOMAIN names \subseteq Name /\ nextId \in 1 .. MaxId + 1
    /\ ToSet(order) \subseteq Id /\ IsInjective(order)
    /\ active \in Id /\ pending \in Id \cup {None} /\ lost \subseteq Id
    /\ pc \in {"input", "switch", "sync", "exit"}
    /\ mode \in {"run", "saving", "cleared", "gone"}

(* The names map and the sessions' own names stay the same relation, over  *)
(* kills, refused launches and reloads: a name reaches the session that    *)
(* bears it, and a name that is free can be given again.                   *)
NamesAgree ==
    /\ \A n \in DOMAIN names : names[n] \in Ids /\ table[names[n]].name = n
    /\ \A id \in Ids : table[id].name # None =>
          table[id].name \in DOMAIN names /\ names[table[id].name] = id

(* The next id is the id of no session, so a launch never replaces a       *)
(* session in the manager's map: the reason restore_sessions advances the  *)
(* counter.                                                                *)
IdsAreFresh == \A id \in Ids : id < nextId

(* The table, the names and the counter of SessionManager fit together.    *)
WorkspaceInv == TypeOK /\ NamesAgree /\ IdsAreFresh

(* A sync leaves the order with exactly the sessions there are, once each, *)
(* and those it keeps in the places they had.                              *)
OrderFollows ==
    [][At("sync") /\ pc' = "exit" =>
          /\ ToSet(order') = Ids /\ IsInjective(order')
          /\ \A i, j \in DOMAIN order : i < j /\ {order[i], order[j]} \subseteq Ids =>
                \E k, l \in DOMAIN order' :
                    k < l /\ order'[k] = order[i] /\ order'[l] = order[j]]_vars

(* A reload that succeeds keeps every session that was saved as running    *)
(* and not killed since, with its id, its name and its place in the order. *)
ReloadKeepsSessions ==
    [][mode = "cleared" /\ mode' = "run" =>
          \A id \in Ids \cap DOMAIN saved.sessions :
              saved.sessions[id].status = "running" =>
                  /\ id \in DOMAIN table' /\ table'[id].name = table[id].name
                  /\ table[id].name # None => names'[table[id].name] = id
                  /\ id \in ToSet(order) => id \in ToSet(order')]_vars

(* While a session goes on running, the active session is again and again  *)
(* a running one, whatever is killed, restored or switched to meanwhile.   *)
FindsRunning ==
    \A id \in Id :
        <>[](IsRunning(id) /\ id \in ToSet(order)) => []<>(IsRunning(active) \/ ~Up)

(* When every shell has exited, and tttt knew the pids of the shells, it   *)
(* ends.                                                                   *)
EndsAfterLast ==
    <>[](\A id \in Ids : ~table[id].alive /\ table[id].tracked = "shell") => <>(~Up)

(* The loop goes on with a session that runs and ends without one.         *)
FollowsSessions == FindsRunning /\ EndsAfterLast

(* README.md, Live Reload: a reload replaces the binary while preserving   *)
(* all PTY sessions; a session ends only when it exits or is killed.       *)
(* TLC refutes this, see the README.                                       *)
SessionsSurvive == [][(mode \in {"saving", "cleared"}) => lost' = lost]_vars

=============================================================================
