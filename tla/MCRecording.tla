---------------------------- MODULE MCRecording ----------------------------
(* What users see, for TLC: instances of Recording, the history, of Frames,  *)
(* the display, and of MouseSelection.  A behaviour is one of one of the     *)
(* three, as part says.                                                      *)
EXTENDS Recording

CONSTANTS s1, p1, p2, Session, Root, Debounce, Latency, MaxLines, MaxSync, MaxInput,
          Height, Scrollback, Wheel, MaxScrolled, MaxMouse,
          Parts  \* of "recording", "frames" and "mouse", those of the run
VARIABLES part, total, logged, sync, ended, active, pinned, shown, dirty, first, data, flagged, pending,
          frame, missed, pc, syncs, inputs,
          off, focus, offset, sel, base, mark, copied, clicks

(* An empty database, events close together, and a session with a pause.   *)
OldDatabases == {<<>>, <<0, 1>>, <<0, 2>>}

F == INSTANCE Frames WITH MaxEvents <- MaxInput, view <- shown, events <- inputs
S == INSTANCE MouseSelection WITH active <- focus, events <- clicks,
                                  MaxLines <- MaxScrolled, MaxEvents <- MaxMouse
ASSUME FramesAssumption == F!ConstantsOk
ASSUME SelectionAssumption == S!ConstantsOk
ASSUME PartsAssumption == Parts \subseteq {"recording", "frames", "mouse"}

frames == <<total, logged, sync, ended, active, pinned, shown, dirty, first, data, flagged, pending,
            frame, missed, pc, syncs, inputs>>
selection == <<off, focus, offset, sel, base, mark, copied, clicks>>

MCInit == /\ Init /\ F!Init /\ S!Init /\ part \in Parts
          /\ part # "recording" => events = <<>> /\ now = 0
MCNext == \/ part = "recording" /\ Next /\ UNCHANGED <<part, frames, selection>>
          \/ part = "frames" /\ F!Next /\ UNCHANGED <<part, vars, selection>>
          \/ part = "mouse" /\ S!Next /\ UNCHANGED <<part, vars, frames>>
(* Fairness of the part that runs; in the others its actions are not enabled. *)
MCSpec == /\ MCInit /\ [][MCNext]_<<part, vars, frames, selection>>
          /\ WF_vars(part = "recording" /\ Tick)
          /\ WF_frames(part = "frames" /\ (F!NoInput \/ F!UserEvent))
          /\ WF_frames(part = "frames" /\ F!Dismiss)
          /\ WF_frames(part = "frames" /\ F!ReadsActive)
          /\ WF_frames(part = "frames" /\ F!Render)
          /\ WF_frames(part = "frames" /\ F!CheckSessionExit)
          /\ SF_frames(part = "frames" /\ F!Poll(TRUE))

(* What is shown is current, the anchor of a selection stays on its line,  *)
(* and what was marked is copied.                                          *)
DisplayInv == F!FramesInv /\ S!SelectionInv

(* A display that is dirty is drawn.                                       *)
Redrawn == F!Redrawn

(* The same however long the output goes on.  TLC refutes this, see the    *)
(* README.                                                                 *)
DrawnInTheEnd == F!DrawnInTheEnd
=============================================================================
