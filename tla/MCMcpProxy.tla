----------------------------- MODULE MCMcpProxy -----------------------------
(* What is outside the program and lives on when it reloads itself, for     *)
(* TLC: instances of McpProxy, the agents' connections, and of              *)
(* ProcessControl, the sessions' processes.  A behaviour is one of the one  *)
(* or the other, as part says.                                              *)
EXTENDS McpProxy

CONSTANTS MaxPrinted, MaxRestores, TermPolls, KillPolls
VARIABLES part, run, ignores, sent, reused, printed, unread, api, backend, pid, open, status,
          shown, swallowed, strayed, pc, polls, restores

P == INSTANCE ProcessControl WITH MaxOutput <- MaxPrinted, MaxReloads <- MaxRestores,
                                  reloads <- restores
ASSUME ControlAssumption == P!ConstantsOk

processes == <<run, ignores, sent, reused, printed, unread, api, backend, pid, open, status, shown,
               swallowed, strayed, pc, polls, restores>>

MCInit == Init /\ P!Init /\ part \in {"proxy", "processes"}
          /\ (part = "proxy" => ~api /\ \A p \in P!Proc : ignores[p] = {})
MCNext == \/ part = "proxy" /\ Next /\ UNCHANGED <<part, processes>>
          \/ part = "processes" /\ P!Next /\ UNCHANGED <<part, vars>>
(* Fairness of the part that runs; in the other its actions are not enabled. *)
MCSpec ==
    /\ MCInit /\ [][MCNext]_<<part, vars, processes>>
    /\ WF_vars(part = "proxy" /\ MainThread) /\ WF_vars(part = "proxy" /\ Listen)
    /\ \A c \in Conn : /\ WF_vars(part = "proxy" /\ ReaderStep(c))
                       /\ WF_vars(part = "proxy" /\ ServerThreads(c))
    /\ \A p \in P!Proc : WF_processes(part = "processes" /\ P!Dies(p))
    /\ WF_processes(part = "processes" /\ P!Pump)
    /\ WF_processes(part = "processes"
                    /\ (P!KilledReal \/ P!PollTerm \/ P!SendKill \/ P!PollKill \/ P!Return))

(* The agent's calls, see McpProxy; what tttt says of its processes, see   *)
(* ProcessControl.                                                         *)
OutsideInv == ProxyInv /\ P!ControlInv

(* What was written is answered, and the end of the input ends the proxy   *)
(* unless a connection was left open, see McpProxy.                        *)
CallsEnd == WrittenAnswered /\ EofTerminates

(* The end of a session's processes is noticed, see ProcessControl.        *)
EndNoticed == P!EndNoticed

(* A killed session leaves no process it could end, see ProcessControl.    *)
KilledEnd == P!KilledEnd

(* No process outlives its session.  TLC refutes this.                     *)
NoOrphans == P!NoOrphans
=============================================================================
