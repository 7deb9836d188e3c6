----------------------- MODULE InputPipelineRefinement -----------------------
(***************************************************************************)
(* The queues of InputPipeline implement the lifecycle of a message: the   *)
(* place a message is in determines its stage.                             *)
(***************************************************************************)
EXTENDS InputPipeline

Holds(queue, m) == \E i \in DOMAIN queue : queue[i] = m

HoldsFor(queue, m) == \E i \in DOMAIN queue : queue[i].msg = m

StageOf(m) ==
    IF m \in unfired THEN "unfired"
    ELSE IF Holds(deferred, m) \/ Holds(injections, m) THEN "held"
    ELSE IF \E k \in Key : HoldsFor(sched[k], m) THEN "typing"
    ELSE IF HoldsFor(enters, m) THEN "typed"
    ELSE "over"

Abstract == INSTANCE MessageLifecycle
                WITH MaxEnters <- 1 + RetryChecks,
                     stage <- [m \in Message |-> StageOf(m)],
                     enterCount <- sent

(* However the loop, the drains, the retries and the sessions' ends        *)
(* interleave, every message goes through deferral, paced writing and      *)
(* delayed Enters as MessageLifecycle promises.                            *)
ImplementsLifecycle == Abstract!Lifecycles

=============================================================================
