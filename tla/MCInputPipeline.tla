-------------------------- MODULE MCInputPipeline --------------------------
(* Small instances of InputPipeline. *)
EXTENDS InputPipelineRefinement

CONSTANTS s1, s2, n1, r1, c1, i1, i2

(* Session s1 was launched under the name n1. *)
MCOwner == [n \in Name |-> s1]
MCRank == [s \in Session |-> IF s = s1 THEN 1 ELSE 2]

(* Everything is sent to s1, by identifier. *)
ToOne == [m \in Message |-> s1]

(* Reminders wait for an idle session, cron messages are dropped. *)
MCWaits == [m \in Scheduled |-> m = r1]

MCSize == [m \in Scheduled |-> 3]
ShortSize == [m \in Scheduled |-> 2]

=============================================================================
