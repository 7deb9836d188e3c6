----------------------------- MODULE MCWebConsole -----------------------------
(* The web console for TLC: instances of WebConsole, what the viewers of a  *)
(* running server are shown, and of Access, who gets in.  A behaviour is    *)
(* one of the one or the other, as part says.                               *)
EXTENDS WebConsole

CONSTANTS v1, v2, Token, Given, Password, Wrong, MaxStarts, MaxReloads
VARIABLES part, config, server, minted, boot, before, dialog, starts, reloads, page

A == INSTANCE Access
ASSUME AccessAssumption == A!ConstantsOk

access == <<config, server, minted, boot, before, dialog, starts, reloads, page>>

MCInit == /\ Init /\ A!Init /\ part \in {"viewers", "access"}
          /\ (part = "viewers" => config = [port |-> TRUE, public |-> FALSE, htpasswd |-> "none",
                                           token |-> None])
MCNext == \/ part = "viewers" /\ Next /\ UNCHANGED <<part, access>>
          \/ part = "access" /\ A!Next /\ UNCHANGED <<part, vars>>
(* Fairness of the part that runs; in the other its actions are not enabled. *)
MCSpec ==
    /\ MCInit /\ [][MCNext]_<<part, vars, access>>
    /\ WF_vars(part = "viewers" /\ Publish)
    /\ \A v \in Viewer : /\ WF_vars(part = "viewers" /\ PushNext(v))
                         /\ WF_vars(part = "viewers" /\ ReaderNext(v))
    /\ WF_access(part = "access" /\ A!PageStep)

(* The viewers' counts, see WebConsole; a public server asks for a          *)
(* credential and a page waits for one thing, see Access.                   *)
ConsoleInv == WebInv /\ A!AccessInv

(* A reload keeps the credential, see Access.                               *)
ReloadKeepsAuth == A!ReloadKeepsAuth

(* A page with an accepted credential gets in, see Access, and who is in is *)
(* shown a living session as it is, see WebConsole.                         *)
GetsInAndServed == A!AcceptedGetsIn /\ AlwaysServed
=============================================================================
