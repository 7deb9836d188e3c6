-------------------------- MODULE MessageLifecycle --------------------------
(***************************************************************************)
(* What App promises about one piece of text it types into a session on    *)
(* behalf of a reminder, a cron job or a notification, whatever queues the *)
(* text goes through: it fires once, waits at most once, is written once,  *)
(* and only then gets its Enters, of which there is a fixed budget.  It    *)
(* never goes back, and it may be given up at any stage.                   *)
(***************************************************************************)
EXTENDS Naturals

CONSTANTS Message, MaxEnters

VARIABLES stage, enterCount

Stages == {"unfired", "held", "typing", "typed", "over"}

TypeInvariant == /\ stage \in [Message -> Stages]
                 /\ enterCount \in [Message -> 0 .. MaxEnters]

Begin == /\ stage = [m \in Message |-> "unfired"]
         /\ enterCount = [m \in Message |-> 0]

After(place) == CASE place = "unfired" -> {"held", "typing", "typed", "over"}
                  [] place = "held"    -> {"typing", "typed", "over"}
                  [] place = "typing"  -> {"typed", "over"}
                  [] place = "typed"   -> {"over"}
                  [] OTHER             -> {}

(* One Enter for m, whose text is complete and has not been given up. *)
Submit(m) == /\ stage[m] = "typed" /\ enterCount[m] < MaxEnters
             /\ enterCount' = [enterCount EXCEPT ![m] = @ + 1]

(* A step of the system may move several texts: a queue that fails loses   *)
(* all it holds.                                                           *)
Step == /\ \A m \in Message : stage'[m] \in {stage[m]} \cup After(stage[m])
        /\ UNCHANGED enterCount \/ \E m \in Message : Submit(m)

Lifecycles == Begin /\ [][Step]_<<stage, enterCount>>

=============================================================================
