----------------------------- MODULE MCVideoOut -----------------------------
(***************************************************************************)
(* Model checking instance of the VO thread and of the render API.  They   *)
(* do not interact here: in a behaviour one of them is used, and the other *)
(* is idle.                                                                *)
(*   VideoOut: a frame with a duration that may be dropped, and display-   *)
(* synced frames for none and for two vsyncs.                              *)
(*   RenderApi: with and without advanced control.                         *)
(***************************************************************************)
EXTENDS RenderApi, Integers, Sequences

CONSTANTS Parts, Kinds, Commands, RedrawInterval, MaxTime, MaxFrames, MaxCommands

Kind(ds, vsyncs, duration) ==
  [display_synced |-> ds, num_vsyncs |-> vsyncs, duration |-> duration, can_drop |-> TRUE]
Timed == Kind(FALSE, 1, 1)
MCKinds == {Timed, Kind(TRUE, 0, 0), Kind(TRUE, 2, 0)}
LiveKinds == {Timed, Kind(TRUE, 2, 0)}

VARIABLES in, vo, core, now, commands, shown, mark
video == <<in, vo, core, now, commands, shown, mark>>
Video == INSTANCE VideoOut

ASSUME VideoAssumed == Assumption /\ Video!VideoOutAssumption

VARIABLE part       (* the one that is used                                *)
allvars == <<vars, video, part>>

AllInit ==
  /\ part \in Parts
  /\ Init /\ Video!Init /\ (part = "video" => ctx.advanced_control)

InVideo(A) == part = "video" /\ A /\ UNCHANGED <<vars, part>>
InRender(A) == part = "render" /\ A /\ UNCHANGED <<video, part>>
AllNext == InVideo(Video!Next) \/ InRender(Next)

(* The fairness of VideoOut.                                               *)
AllSpec ==
  /\ AllInit /\ [][AllNext]_allvars
  /\ WF_video(part = "video" /\ Video!VOThread) /\ WF_video(part = "video" /\ Video!Tick)
  /\ WF_video(part = "video" /\ Video!WaitFrameReturns)
-----------------------------------------------------------------------------
(* The types of both.                                                      *)
TypesOK == TypeOK /\ Video!TypeOK

(* A frame is shown for each of its vsyncs (see VideoOut).                 *)
VsyncsKept == Video!VsyncsKept

(* No frame is drawn after a seek or a reconfiguration (see VideoOut).     *)
NoStaleFrame ==
  [][\A n \in DOMAIN shown : shown'[n] < shown[n] => n > mark]_allvars

(* vo.c:816: "Make vo issue a wakeup once vo_still_displaying() becomes    *)
(* false."                                                                 *)
DoneTold == Video!DoneTold

(* The VO thread and the player core do not sleep on what the other waits  *)
(* for (see VideoOut).                                                     *)
Served == Video!Served
=============================================================================
