----------------------------- MODULE MCSchedule -----------------------------
(* What drives sessions with nobody at the keyboard, for TLC: instances of  *)
(* Schedule, and of Ctl, the command line scripts use.  A behaviour is one  *)
(* of the one or the other, as part says.  One unit of time of Schedule is  *)
(* the idle threshold, two seconds.                                         *)
EXTENDS Schedule

CONSTANTS r1, r2, c1,
          Session, Root, ReadTimeout, LimitWait, WaitTimeout, MaxCommands
VARIABLES part, table, screen, entered, cmd, stage, calls, seen

Delays == r1 :> 1 @@ r2 :> 2
SlowJob == c1 :> 2
Wait == c1 :> TRUE

C == INSTANCE Ctl WITH typed <- entered, pc <- stage
ASSUME CtlAssumption == C!ConstantsOk

ctl == <<table, screen, entered, cmd, stage, calls, seen>>

MCInit == Init /\ C!Init /\ part \in {"schedule", "ctl"}
MCNext == \/ part = "schedule" /\ Next /\ UNCHANGED <<part, ctl>>
          \/ part = "ctl" /\ C!Next /\ UNCHANGED <<part, vars>>
(* Fairness of the part that runs; in the other its actions are not enabled. *)
MCSpec == /\ MCInit /\ [][MCNext]_<<part, vars, ctl>>
          /\ SF_vars(part = "schedule" /\ PassTime) /\ WF_vars(part = "schedule" /\ Loop)
          /\ WF_ctl(part = "ctl" /\ C!Tick)
          /\ WF_ctl(part = "ctl" /\ (C!call_tool \/ C!TimesOut \/ C!Receive \/ C!Resume))

(* What a send of tttt-ctl reports was typed, was; what a wait reports was *)
(* found, was shown or is in the text around the screen.                   *)
CtlInv == C!CtlInv

(* Every command of tttt-ctl ends, whatever the server does.               *)
CommandEnds == C!CommandEnds

(* What a wait of tttt-ctl reports was found, was on the screen.  TLC      *)
(* refutes this.                                                           *)
PatternOnScreen == C!PatternOnScreen
=============================================================================
