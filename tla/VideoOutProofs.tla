--------------------------- MODULE VideoOutProofs ---------------------------
(***************************************************************************)
(* Proofs about the two components of MCVideoOut:                          *)
(*   RenderApi, for any formats and any number of images: the context      *)
(* outlives all that use it, frames are rendered in their format, and      *)
(* nobody waits for what will not come;                                    *)
(*   VideoOut, for any frames, commands and times: a frame is drawn once   *)
(* for each of its vsyncs, and no frame of before a reset is drawn.        *)
(***************************************************************************)
EXTENDS MCVideoOut, SequenceTheorems, TLAPS

-----------------------------------------------------------------------------
(* The render API.                                                         *)

Running == {"idle", "update", "flip", "swap", "shot"}

(* The VO has the context from its creation to uninit(), which holds the   *)
(* lock until it has interrupted the queue, and the player waits for that. *)
VOAgrees ==
  /\ ctx.in_use <=> vo_thread.pc \in Running \cup {"preinit", "uninit"}
  /\ ctx.vo => ctx.in_use
  /\ ctx.locked <=> VOIs("interrupt")
  /\ player.pc = "none" <=> VOIs("none")
  /\ player.pc = "playing" => vo_thread.pc \in Running \cup {"preinit"}
  /\ player.pc = "decoder" => vo_thread.pc \in Running
  /\ vo_thread.current # None => vo_thread.pc \in Running
  /\ ctx.next_frame # NoFrame => vo_thread.pc \in {"update", "flip"}

(* A call in the queue has its caller, the decoder only runs until it was  *)
(* stopped, and has no image while it asks for one.                        *)
WorkAgrees ==
  /\ "get_image" \in work <=> decoder.pc = "asks"
  /\ "screenshot" \in work <=> VOIs("shot")
  /\ decoder.pc # "idle" => player.pc \in {"playing", "decoder"}
  /\ decoder.image # None => decoder.pc = "has"

(* What the render thread does.                                            *)
UserAgrees ==
  /\ ctx.set => user.pc \notin {"kill", "free", "process", "barrier"}
  /\ ~ctx.alive => ~ctx.set /\ user.pc = "barrier"
  /\ user.pc = "barrier" => ~ctx.in_use
  /\ user.frame # NoFrame => user.pc = "render"
  /\ "user" \in asleep => user.pc = "present"
  /\ user.waits => vo_thread.pc \in {"update", "flip"} /\ ctx.next_frame = NoFrame

(* A frame has the format of the VO, and so has the renderer, if it is not *)
(* to be configured again.                                                 *)
FormatAgrees ==
  /\ \A frame \in {ctx.next_frame, ctx.cur_frame} :
       frame.image # None => frame.params = ctx.img_params
  /\ ~ctx.need_reconfig => renderer = ctx.img_params

IInv ==
  /\ TypeOK /\ VOAgrees /\ WorkAgrees /\ UserAgrees /\ FormatAgrees
  /\ ContextKept /\ RightFormat /\ Answered
-----------------------------------------------------------------------------
(* Every step keeps what is true of the VO, its context and the player.    *)
LEMMA VOStep ==
  ASSUME Assumption, TypeOK, VOAgrees, WorkAgrees, [Next]_vars PROVE VOAgrees'
<1> USE DEF TypeOK, Context, ThreadsOK, UserStates, VOStates, PlayerStates,
      DecoderStates, VOAgrees, Running, VOIs, VOTo, UserIs, UserTo, WorkAgrees
<1>1. CASE Preinit BY <1>1 DEF Preinit
<1>2. ASSUME NEW params \in Params, Reconfig(params) PROVE VOAgrees'
  BY <1>2 DEF Reconfig
<1>3. CASE Reset BY <1>3 DEF Reset
<1>4. CASE DrawNew BY <1>4 DEF DrawNew, Draw
<1>5. CASE Redraw BY <1>5 DEF Redraw, Draw
<1>6. CASE Update BY <1>6 DEF Update
<1>7. CASE Flip BY <1>7 DEF Flip, Presents
<1>8. CASE FlipTimeout
  <2>1. CASE ctx.next_frame # NoFrame
    <3>1. DropsFrame BY <1>8, <2>1 DEF FlipTimeout, TimesOut
    <3>2. VOIs("flip") /\ UNCHANGED <<work, renderer, player, decoder, images>>
      BY <1>8 DEF FlipTimeout
    <3> QED BY <3>1, <3>2 DEF DropsFrame
  <2>2. CASE ctx.next_frame = NoFrame
    BY <1>8, <2>2 DEF FlipTimeout, TimesOut, Presents
  <2> QED BY <2>1, <2>2
<1>9. CASE Swapped BY <1>9 DEF Swapped
<1>10. CASE SwapTimeout BY <1>10 DEF SwapTimeout
<1>11. CASE Screenshot BY <1>11 DEF Screenshot
<1>12. CASE Terminate BY <1>12 DEF Terminate
<1>13. CASE Uninit BY <1>13 DEF Uninit
<1>14. CASE Interrupt BY <1>14 DEF Interrupt
<1>15. CASE CreateVO BY <1>15 DEF CreateVO
<1>16. CASE StopVideo BY <1>16 DEF StopVideo
<1>17. CASE StopDecoder BY <1>17 DEF StopDecoder
<1>18. CASE VOGone BY <1>18 DEF VOGone
<1>19. CASE NothingToKill BY <1>19 DEF NothingToKill
<1>20. CASE Decode BY <1>20 DEF Decode, Unused
<1>21. CASE UpdateContext BY <1>21 DEF UpdateContext, Process
<1>22. CASE HasFrame BY <1>22 DEF HasFrame
<1>23. CASE Rendered BY <1>23 DEF Rendered
<1>24. CASE Present BY <1>24 DEF Present
<1>25. CASE ReportSwap BY <1>25 DEF ReportSwap
<1>26. ASSUME NEW block \in BOOLEAN, Render(block) PROVE VOAgrees'
  BY <1>26 DEF Render, NeedsReconfig
<1>27. CASE Free BY <1>27 DEF Free
<1>28. CASE Kill BY <1>28 DEF Kill
<1>29. CASE InUse BY <1>29 DEF InUse
<1>30. CASE FreeProcess BY <1>30 DEF FreeProcess, Process, Queued
<1>31. CASE Destroy BY <1>31 DEF Destroy, Barrier
<1>32. CASE UNCHANGED vars BY <1>32 DEF vars
<1> QED
    BY <1>1, <1>2, <1>3, <1>4, <1>5, <1>6, <1>7, <1>8, <1>9, <1>10, <1>11, <1>12,
     <1>13, <1>14, <1>15, <1>16, <1>17, <1>18, <1>19, <1>20, <1>21, <1>22, <1>23,
     <1>24, <1>25, <1>26, <1>27, <1>28, <1>29, <1>30, <1>31, <1>32, ZenonT(60)
  DEF Next, VO, Core, User
-----------------------------------------------------------------------------
(* Process takes all calls out of the queue, and lets the callers go on.   *)
LEMMA WorkStep ==
  ASSUME Assumption, TypeOK, VOAgrees, WorkAgrees, UserAgrees, [Next]_vars
  PROVE  WorkAgrees'
<1> USE DEF TypeOK, Context, ThreadsOK, UserStates, VOStates, PlayerStates,
      DecoderStates, VOAgrees, Running, VOIs, VOTo, UserIs, UserTo, WorkAgrees,
      UserAgrees
<1>1. CASE Preinit BY <1>1 DEF Preinit
<1>2. ASSUME NEW params \in Params, Reconfig(params) PROVE WorkAgrees'
  BY <1>2 DEF Reconfig
<1>3. CASE Reset BY <1>3 DEF Reset
<1>4. CASE DrawNew BY <1>4 DEF DrawNew, Draw
<1>5. CASE Redraw BY <1>5 DEF Redraw, Draw
<1>6. CASE Update BY <1>6 DEF Update
<1>7. CASE Flip BY <1>7 DEF Flip, Presents
<1>8. CASE FlipTimeout
  <2>1. CASE ctx.next_frame # NoFrame
    <3>1. DropsFrame BY <1>8, <2>1 DEF FlipTimeout, TimesOut
    <3>2. VOIs("flip") /\ UNCHANGED <<work, renderer, player, decoder, images>>
      BY <1>8 DEF FlipTimeout
    <3> QED BY <3>1, <3>2 DEF DropsFrame
  <2>2. CASE ctx.next_frame = NoFrame
    BY <1>8, <2>2 DEF FlipTimeout, TimesOut, Presents
  <2> QED BY <2>1, <2>2
<1>9. CASE Swapped BY <1>9 DEF Swapped
<1>10. CASE SwapTimeout BY <1>10 DEF SwapTimeout
<1>11. CASE Screenshot BY <1>11 DEF Screenshot
<1>12. CASE Terminate BY <1>12 DEF Terminate
<1>13. CASE Uninit BY <1>13 DEF Uninit
<1>14. CASE Interrupt BY <1>14 DEF Interrupt
<1>15. CASE CreateVO BY <1>15 DEF CreateVO
<1>16. CASE StopVideo BY <1>16 DEF StopVideo
<1>17. CASE StopDecoder BY <1>17 DEF StopDecoder
<1>18. CASE VOGone BY <1>18 DEF VOGone
<1>19. CASE NothingToKill BY <1>19 DEF NothingToKill
<1>20. CASE Decode BY <1>20 DEF Decode, Unused
<1>21. CASE UpdateContext
  <2>1. CASE "get_image" \in work BY <1>21, <2>1 DEF UpdateContext, Process
  <2>2. CASE "get_image" \notin work BY <1>21, <2>2 DEF UpdateContext, Process
  <2> QED BY <2>1, <2>2
<1>22. CASE HasFrame BY <1>22 DEF HasFrame
<1>23. CASE Rendered BY <1>23 DEF Rendered
<1>24. CASE Present BY <1>24 DEF Present
<1>25. CASE ReportSwap BY <1>25 DEF ReportSwap
<1>26. ASSUME NEW block \in BOOLEAN, Render(block) PROVE WorkAgrees'
  BY <1>26 DEF Render, NeedsReconfig
<1>27. CASE Free BY <1>27 DEF Free
<1>28. CASE Kill BY <1>28 DEF Kill
<1>29. CASE InUse BY <1>29 DEF InUse
<1>30. CASE FreeProcess
  <2>1. CASE "get_image" \in work BY <1>30, <2>1 DEF FreeProcess, Process, Queued
  <2>2. CASE "get_image" \notin work BY <1>30, <2>2 DEF FreeProcess, Process, Queued
  <2> QED BY <2>1, <2>2
<1>31. CASE Destroy BY <1>31 DEF Destroy, Barrier
<1>32. CASE UNCHANGED vars BY <1>32 DEF vars
<1> QED
    BY <1>1, <1>2, <1>3, <1>4, <1>5, <1>6, <1>7, <1>8, <1>9, <1>10, <1>11, <1>12,
     <1>13, <1>14, <1>15, <1>16, <1>17, <1>18, <1>19, <1>20, <1>21, <1>22, <1>23,
     <1>24, <1>25, <1>26, <1>27, <1>28, <1>29, <1>30, <1>31, <1>32, ZenonT(60)
  DEF Next, VO, Core, User
-----------------------------------------------------------------------------
(* The render thread waits only for a frame it has taken from the VO, and  *)
(* frees the context only when the VO has given it back.                   *)
LEMMA UserStep ==
  ASSUME Assumption, TypeOK, VOAgrees, WorkAgrees, UserAgrees, [Next]_vars
  PROVE  UserAgrees'
<1> USE DEF TypeOK, Context, ThreadsOK, UserStates, VOStates, PlayerStates,
      DecoderStates, VOAgrees, Running, VOIs, VOTo, UserIs, UserTo, UserAgrees,
      WorkAgrees
<1>1. CASE Preinit BY <1>1 DEF Preinit
<1>2. ASSUME NEW params \in Params, Reconfig(params) PROVE UserAgrees'
  BY <1>2 DEF Reconfig
<1>3. CASE Reset BY <1>3 DEF Reset
<1>4. CASE DrawNew BY <1>4 DEF DrawNew, Draw
<1>5. CASE Redraw BY <1>5 DEF Redraw, Draw
<1>6. CASE Update BY <1>6 DEF Update
<1>7. CASE Flip BY <1>7 DEF Flip, Presents
<1>8. CASE FlipTimeout
  <2>1. CASE ctx.next_frame # NoFrame
    <3>1. DropsFrame BY <1>8, <2>1 DEF FlipTimeout, TimesOut
    <3>2. VOIs("flip") /\ UNCHANGED <<work, renderer, player, decoder, images>>
      BY <1>8 DEF FlipTimeout
    <3> QED BY <3>1, <3>2 DEF DropsFrame
  <2>2. CASE ctx.next_frame = NoFrame
    BY <1>8, <2>2 DEF FlipTimeout, TimesOut, Presents
  <2> QED BY <2>1, <2>2
<1>9. CASE Swapped BY <1>9 DEF Swapped
<1>10. CASE SwapTimeout BY <1>10 DEF SwapTimeout
<1>11. CASE Screenshot BY <1>11 DEF Screenshot
<1>12. CASE Terminate BY <1>12 DEF Terminate
<1>13. CASE Uninit BY <1>13 DEF Uninit
<1>14. CASE Interrupt BY <1>14 DEF Interrupt
<1>15. CASE CreateVO BY <1>15 DEF CreateVO
<1>16. CASE StopVideo BY <1>16 DEF StopVideo
<1>17. CASE StopDecoder BY <1>17 DEF StopDecoder
<1>18. CASE VOGone BY <1>18 DEF VOGone
<1>19. CASE NothingToKill BY <1>19 DEF NothingToKill
<1>20. CASE Decode BY <1>20 DEF Decode, Unused
<1>21. CASE UpdateContext BY <1>21 DEF UpdateContext, Process
<1>22. CASE HasFrame BY <1>22 DEF HasFrame
<1>23. CASE Rendered BY <1>23 DEF Rendered
<1>24. CASE Present BY <1>24 DEF Present
<1>25. CASE ReportSwap BY <1>25 DEF ReportSwap
<1>26. ASSUME NEW block \in BOOLEAN, Render(block) PROVE UserAgrees'
  BY <1>26 DEF Render, NeedsReconfig
<1>27. CASE Free BY <1>27 DEF Free
<1>28. CASE Kill BY <1>28 DEF Kill
<1>29. CASE InUse BY <1>29 DEF InUse
<1>30. CASE FreeProcess BY <1>30 DEF FreeProcess, Process, Queued
<1>31. CASE Destroy
  BY <1>31, SMTT(40) DEF Destroy, Barrier
<1>32. CASE UNCHANGED vars BY <1>32 DEF vars
<1> QED
    BY <1>1, <1>2, <1>3, <1>4, <1>5, <1>6, <1>7, <1>8, <1>9, <1>10, <1>11, <1>12,
     <1>13, <1>14, <1>15, <1>16, <1>17, <1>18, <1>19, <1>20, <1>21, <1>22, <1>23,
     <1>24, <1>25, <1>26, <1>27, <1>28, <1>29, <1>30, <1>31, <1>32, ZenonT(60)
  DEF Next, VO, Core, User
-----------------------------------------------------------------------------
(* Where the format changes, the frames of the old one are dropped.        *)
LEMMA FormatStep ==
  ASSUME Assumption, TypeOK, VOAgrees, FormatAgrees, [Next]_vars PROVE FormatAgrees'
<1> USE DEF TypeOK, Context, ThreadsOK, UserStates, VOStates, PlayerStates,
      DecoderStates, VOAgrees, Running, VOIs, VOTo, UserIs, UserTo, FormatAgrees
<1>1. CASE Preinit BY <1>1 DEF Preinit
<1>2. ASSUME NEW params \in Params, Reconfig(params) PROVE FormatAgrees'
  BY <1>2 DEF Reconfig, NoFrame
<1>3. CASE Reset BY <1>3 DEF Reset
<1>4. CASE DrawNew BY <1>4 DEF DrawNew, Draw
<1>5. CASE Redraw BY <1>5 DEF Redraw, Draw
<1>6. CASE Update BY <1>6 DEF Update
<1>7. CASE Flip BY <1>7 DEF Flip, Presents
<1>8. CASE FlipTimeout
  <2>1. CASE ctx.next_frame # NoFrame
    <3>1. DropsFrame BY <1>8, <2>1 DEF FlipTimeout, TimesOut
    <3>2. VOIs("flip") /\ UNCHANGED <<work, renderer, player, decoder, images>>
      BY <1>8 DEF FlipTimeout
    <3> QED BY <3>1, <3>2 DEF DropsFrame, NoFrame
  <2>2. CASE ctx.next_frame = NoFrame
    BY <1>8, <2>2 DEF FlipTimeout, TimesOut, Presents
  <2> QED BY <2>1, <2>2
<1>9. CASE Swapped BY <1>9 DEF Swapped
<1>10. CASE SwapTimeout BY <1>10 DEF SwapTimeout
<1>11. CASE Screenshot BY <1>11 DEF Screenshot
<1>12. CASE Terminate BY <1>12 DEF Terminate
<1>13. CASE Uninit
  BY <1>13 DEF Uninit, NoFrame
<1>14. CASE Interrupt BY <1>14 DEF Interrupt
<1>15. CASE CreateVO BY <1>15 DEF CreateVO
<1>16. CASE StopVideo BY <1>16 DEF StopVideo
<1>17. CASE StopDecoder BY <1>17 DEF StopDecoder
<1>18. CASE VOGone BY <1>18 DEF VOGone
<1>19. CASE NothingToKill BY <1>19 DEF NothingToKill
<1>20. CASE Decode BY <1>20 DEF Decode, Unused
<1>21. CASE UpdateContext BY <1>21 DEF UpdateContext, Process
<1>22. CASE HasFrame BY <1>22 DEF HasFrame
<1>23. CASE Rendered BY <1>23 DEF Rendered
<1>24. CASE Present BY <1>24 DEF Present
<1>25. CASE ReportSwap BY <1>25 DEF ReportSwap
<1>26. ASSUME NEW block \in BOOLEAN, Render(block) PROVE FormatAgrees'
  <2>1. CASE ctx.next_frame # NoFrame BY <1>26, <2>1 DEF Render, NeedsReconfig, NoFrame
  <2>2. CASE ctx.next_frame = NoFrame BY <1>26, <2>2 DEF Render, NeedsReconfig, NoFrame
  <2> QED BY <2>1, <2>2
<1>27. CASE Free BY <1>27 DEF Free
<1>28. CASE Kill BY <1>28 DEF Kill
<1>29. CASE InUse BY <1>29 DEF InUse
<1>30. CASE FreeProcess BY <1>30 DEF FreeProcess, Process, Queued
<1>31. CASE Destroy
  BY <1>31 DEF Destroy, NoFrame
<1>32. CASE UNCHANGED vars BY <1>32 DEF vars
<1> QED
    BY <1>1, <1>2, <1>3, <1>4, <1>5, <1>6, <1>7, <1>8, <1>9, <1>10, <1>11, <1>12,
     <1>13, <1>14, <1>15, <1>16, <1>17, <1>18, <1>19, <1>20, <1>21, <1>22, <1>23,
     <1>24, <1>25, <1>26, <1>27, <1>28, <1>29, <1>30, <1>31, <1>32, ZenonT(60)
  DEF Next, VO, Core, User
-----------------------------------------------------------------------------
(* The empty frame is a frame.                                             *)
LEMMA EmptyFrame == NoFrame \in Frame BY DEF NoFrame, Frame

(* The types: first those of the context, then those of all that use it.   *)
LEMMA ContextStep ==
  ASSUME ctx \in Context, NoFrame \in Frame, decoder.image \in Images \cup {None},
         vo_thread.current \in Images \cup {None}, [Next]_vars
  PROVE  ctx' \in Context
<1> USE DEF Context, VOIs, VOTo, UserIs, UserTo
<1>1. CASE Preinit BY <1>1 DEF Preinit
<1>2. ASSUME NEW params \in Params, Reconfig(params) PROVE ctx' \in Context
  BY <1>2 DEF Reconfig
<1>3. CASE Reset BY <1>3 DEF Reset
<1>4. CASE DrawNew
  BY <1>4, ZenonT(60) DEF DrawNew, Draw, Frame
<1>5. CASE Redraw
  <2>1. PICK redraw \in BOOLEAN : Draw(vo_thread.current, redraw) BY <1>5 DEF Redraw
  <2> QED BY <2>1, ZenonT(60) DEF Draw, Frame
<1>6. CASE Update BY <1>6 DEF Update
<1>7. CASE Flip BY <1>7 DEF Flip, Presents
<1>8. CASE FlipTimeout
  <2>1. CASE ctx.next_frame # NoFrame
    <3>1. DropsFrame BY <1>8, <2>1 DEF FlipTimeout, TimesOut
    <3>2. VOIs("flip") /\ UNCHANGED <<work, renderer, player, decoder, images>>
      BY <1>8 DEF FlipTimeout
    <3> QED BY <3>1, <3>2 DEF DropsFrame
  <2>2. CASE ctx.next_frame = NoFrame
    BY <1>8, <2>2 DEF FlipTimeout, TimesOut, Presents
  <2> QED BY <2>1, <2>2
<1>9. CASE Swapped BY <1>9 DEF Swapped
<1>10. CASE SwapTimeout BY <1>10 DEF SwapTimeout
<1>11. CASE Screenshot BY <1>11 DEF Screenshot
<1>12. CASE Terminate BY <1>12 DEF Terminate
<1>13. CASE Uninit BY <1>13 DEF Uninit
<1>14. CASE Interrupt BY <1>14 DEF Interrupt
<1>15. CASE CreateVO BY <1>15 DEF CreateVO
<1>16. CASE StopVideo BY <1>16 DEF StopVideo
<1>17. CASE StopDecoder BY <1>17 DEF StopDecoder
<1>18. CASE VOGone BY <1>18 DEF VOGone
<1>19. CASE NothingToKill BY <1>19 DEF NothingToKill
<1>20. CASE Decode BY <1>20 DEF Decode, Unused
<1>21. CASE UpdateContext BY <1>21 DEF UpdateContext, Process
<1>22. CASE HasFrame BY <1>22 DEF HasFrame
<1>23. CASE Rendered BY <1>23 DEF Rendered
<1>24. CASE Present BY <1>24 DEF Present
<1>25. CASE ReportSwap BY <1>25 DEF ReportSwap
<1>26. ASSUME NEW block \in BOOLEAN, Render(block) PROVE ctx' \in Context
  BY <1>26, ZenonT(60) DEF Render, NeedsReconfig
<1>27. CASE Free BY <1>27 DEF Free
<1>28. CASE Kill BY <1>28 DEF Kill
<1>29. CASE InUse BY <1>29 DEF InUse
<1>30. CASE FreeProcess BY <1>30 DEF FreeProcess, Process, Queued
<1>31. CASE Destroy BY <1>31 DEF Destroy, Barrier
<1>32. CASE UNCHANGED vars BY <1>32 DEF vars
<1> QED
    BY <1>1, <1>2, <1>3, <1>4, <1>5, <1>6, <1>7, <1>8, <1>9, <1>10, <1>11, <1>12,
     <1>13, <1>14, <1>15, <1>16, <1>17, <1>18, <1>19, <1>20, <1>21, <1>22, <1>23,
     <1>24, <1>25, <1>26, <1>27, <1>28, <1>29, <1>30, <1>31, <1>32, Zenon
  DEF Next, VO, Core, User
-----------------------------------------------------------------------------
(* Each thread and the images keep their types; a call has its thread.     *)
LEMMA ThreadsStep ==
  ASSUME ctx.next_frame \in Frame, ctx.cur_frame \in Frame, NoFrame \in Frame,
         ctx.img_params \in Params \cup {None}, ctx.in_use \in BOOLEAN, ThreadsOK,
         [Next]_vars
  PROVE  ThreadsOK'
<1> USE DEF ThreadsOK, VOIs, VOTo, UserIs, UserTo
<1>1. CASE Preinit BY <1>1 DEF Preinit, VOStates
<1>2. ASSUME NEW params \in Params, Reconfig(params) PROVE ThreadsOK'
  BY <1>2 DEF Reconfig, Signals, Dropped, VOStates
<1>3. CASE Reset BY <1>3 DEF Reset
<1>4. CASE DrawNew BY <1>4 DEF DrawNew, Draw, Signals, Dropped, VOStates, DecoderStates
<1>5. CASE Redraw BY <1>5 DEF Redraw, Draw, VOStates
<1>6. CASE Update BY <1>6 DEF Update, VOStates
<1>7. CASE Flip
  <2>1. user' \in UserStates BY <1>7, ZenonT(60) DEF Flip, Presents, UserStates
  <2>2. vo_thread' \in VOStates BY <1>7 DEF Flip, Presents, VOStates
  <2> QED BY <1>7, <2>1, <2>2 DEF Flip, Presents
<1>8. CASE FlipTimeout
  <2>1. user' \in UserStates
    BY <1>8, ZenonT(60) DEF FlipTimeout, TimesOut, DropsFrame, Presents, UserStates
  <2>2. vo_thread' \in VOStates
    BY <1>8 DEF FlipTimeout, TimesOut, DropsFrame, Presents, VOStates
  <2>3. asleep' \subseteq {"vo", "user"}
    BY <1>8 DEF FlipTimeout, TimesOut, DropsFrame, Presents
  <2>4. signalled' \in BOOLEAN BY <1>8 DEF FlipTimeout, Signals, Dropped
  <2> QED BY <1>8, <2>1, <2>2, <2>3, <2>4 DEF FlipTimeout
<1>9. CASE Swapped BY <1>9 DEF Swapped, VOStates
<1>10. CASE SwapTimeout BY <1>10 DEF SwapTimeout, VOStates
<1>11. CASE Screenshot BY <1>11 DEF Screenshot, VOStates
<1>12. CASE Terminate BY <1>12 DEF Terminate, Signals, Dropped, VOStates
<1>13. CASE Uninit BY <1>13 DEF Uninit, Signals, Dropped, VOStates
<1>14. CASE Interrupt BY <1>14 DEF Interrupt, VOStates
<1>15. CASE CreateVO BY <1>15 DEF CreateVO, VOStates, PlayerStates
<1>16. CASE StopVideo BY <1>16 DEF StopVideo, PlayerStates
<1>17. CASE StopDecoder
  BY <1>17 DEF StopDecoder, Signals, Dropped, PlayerStates, DecoderStates
<1>18. CASE VOGone BY <1>18 DEF VOGone, VOStates, PlayerStates
<1>19. CASE NothingToKill BY <1>19 DEF NothingToKill, PlayerStates
<1>20. CASE Decode
  <2>1. decoder' \in DecoderStates BY <1>20 DEF Decode, Unused, DecoderStates
  <2>2. work' \subseteq {"screenshot", "get_image"} BY <1>20 DEF Decode
  <2>3. signalled' \in BOOLEAN BY <1>20 DEF Decode
  <2> QED BY <1>20, <2>1, <2>2, <2>3 DEF Decode
<1>21. CASE UpdateContext
  <2>1. user' \in UserStates BY <1>21 DEF UpdateContext, UserStates
  <2>2. vo_thread' \in VOStates BY <1>21 DEF UpdateContext, Process, VOStates
  <2>3. decoder' \in DecoderStates BY <1>21 DEF UpdateContext, Process, DecoderStates
  <2>4. images' \subseteq Images BY <1>21 DEF UpdateContext, Process
  <2> QED BY <1>21, <2>1, <2>2, <2>3, <2>4 DEF UpdateContext, Process
<1>22. CASE HasFrame BY <1>22 DEF HasFrame, UserStates
<1>23. CASE Rendered BY <1>23 DEF Rendered, Signals, Dropped, UserStates
<1>24. CASE Present BY <1>24 DEF Present, UserStates
<1>25. CASE ReportSwap BY <1>25 DEF ReportSwap
<1>26. ASSUME NEW block \in BOOLEAN, Render(block) PROVE ThreadsOK'
  BY <1>26 DEF Render, NeedsReconfig, Signals, Dropped, UserStates
<1>27. CASE Free BY <1>27 DEF Free, UserStates
<1>28. CASE Kill BY <1>28 DEF Kill, UserStates, PlayerStates
<1>29. CASE InUse BY <1>29 DEF InUse, UserStates
<1>30. CASE FreeProcess
  BY <1>30 DEF FreeProcess, Process, Queued, UserStates, VOStates, DecoderStates
<1>31. CASE Destroy BY <1>31 DEF Destroy, Barrier
<1>32. CASE UNCHANGED vars BY <1>32 DEF vars, Queued
<1> QED
    BY <1>1, <1>2, <1>3, <1>4, <1>5, <1>6, <1>7, <1>8, <1>9, <1>10, <1>11, <1>12,
     <1>13, <1>14, <1>15, <1>16, <1>17, <1>18, <1>19, <1>20, <1>21, <1>22, <1>23,
     <1>24, <1>25, <1>26, <1>27, <1>28, <1>29, <1>30, <1>31, <1>32, Zenon
  DEF Next, VO, Core, User
-----------------------------------------------------------------------------
(* When Destroy is enabled the VO is gone or has left the locked region of *)
(* uninit(), and the decoder was stopped before it; so nobody holds an     *)
(* image, and all of them are freed with the queue.                        *)
LEMMA KeptStep ==
  ASSUME Assumption, TypeOK, VOAgrees, WorkAgrees, UserAgrees, ContextKept,
         [Next]_vars
  PROVE  ContextKept'
<1> USE DEF TypeOK, Context, ThreadsOK, UserStates, VOStates, PlayerStates,
      DecoderStates, VOAgrees, Running, VOIs, VOTo, UserIs, UserTo, WorkAgrees,
      UserAgrees, ContextKept
<1>1. CASE Preinit BY <1>1 DEF Preinit
<1>2. ASSUME NEW params \in Params, Reconfig(params) PROVE ContextKept'
  BY <1>2 DEF Reconfig
<1>3. CASE Reset BY <1>3 DEF Reset
<1>4. CASE DrawNew BY <1>4 DEF DrawNew, Draw
<1>5. CASE Redraw BY <1>5 DEF Redraw, Draw
<1>6. CASE Update BY <1>6 DEF Update
<1>7. CASE Flip BY <1>7 DEF Flip, Presents
<1>8. CASE FlipTimeout
  <2>1. CASE ctx.next_frame # NoFrame
    <3>1. DropsFrame BY <1>8, <2>1 DEF FlipTimeout, TimesOut
    <3>2. VOIs("flip") /\ UNCHANGED <<work, renderer, player, decoder, images>>
      BY <1>8 DEF FlipTimeout
    <3> QED BY <3>1, <3>2 DEF DropsFrame
  <2>2. CASE ctx.next_frame = NoFrame
    BY <1>8, <2>2 DEF FlipTimeout, TimesOut, Presents
  <2> QED BY <2>1, <2>2
<1>9. CASE Swapped BY <1>9 DEF Swapped
<1>10. CASE SwapTimeout BY <1>10 DEF SwapTimeout
<1>11. CASE Screenshot BY <1>11 DEF Screenshot
<1>12. CASE Terminate BY <1>12 DEF Terminate
<1>13. CASE Uninit BY <1>13 DEF Uninit
<1>14. CASE Interrupt BY <1>14 DEF Interrupt
<1>15. CASE CreateVO BY <1>15 DEF CreateVO
<1>16. CASE StopVideo BY <1>16 DEF StopVideo
<1>17. CASE StopDecoder BY <1>17 DEF StopDecoder
<1>18. CASE VOGone BY <1>18 DEF VOGone
<1>19. CASE NothingToKill BY <1>19 DEF NothingToKill
<1>20. CASE Decode BY <1>20 DEF Decode, Unused
<1>21. CASE UpdateContext BY <1>21 DEF UpdateContext, Process
<1>22. CASE HasFrame BY <1>22 DEF HasFrame
<1>23. CASE Rendered BY <1>23 DEF Rendered
<1>24. CASE Present BY <1>24 DEF Present
<1>25. CASE ReportSwap BY <1>25 DEF ReportSwap
<1>26. ASSUME NEW block \in BOOLEAN, Render(block) PROVE ContextKept'
  BY <1>26 DEF Render, NeedsReconfig
<1>27. CASE Free BY <1>27 DEF Free
<1>28. CASE Kill BY <1>28 DEF Kill
<1>29. CASE InUse BY <1>29 DEF InUse
<1>30. CASE FreeProcess BY <1>30 DEF FreeProcess, Process, Queued
<1>31. CASE Destroy
  <2>1. vo_thread.pc \in {"none", "gone"} /\ ~ctx.in_use /\ ~ctx.vo
    BY <1>31 DEF Destroy, Barrier
  <2>2. work' = {} /\ decoder.pc = "idle" /\ UNCHANGED <<user, vo_thread, decoder>>
    BY <1>31, <2>1 DEF Destroy
  <2>3. ctx' = [ctx EXCEPT !.cur_frame = NoFrame, !.alive = FALSE] BY <1>31 DEF Destroy
  <2>4. Held' = {None}
    <3>1. vo_thread.current = None /\ decoder.image = None BY <2>1, <2>2
    <3>2. ctx.next_frame = NoFrame /\ user.frame = NoFrame BY <1>31, <2>1 DEF Destroy
    <3> QED BY <2>2, <2>3, <3>1, <3>2 DEF Held, NoFrame
  <2>5. images' = {} BY <1>31, <2>4 DEF Destroy, Assumption
  <2> QED BY <2>1, <2>2, <2>3, <2>5
<1>32. CASE UNCHANGED vars BY <1>32 DEF vars
<1> QED
    BY <1>1, <1>2, <1>3, <1>4, <1>5, <1>6, <1>7, <1>8, <1>9, <1>10, <1>11, <1>12,
     <1>13, <1>14, <1>15, <1>16, <1>17, <1>18, <1>19, <1>20, <1>21, <1>22, <1>23,
     <1>24, <1>25, <1>26, <1>27, <1>28, <1>29, <1>30, <1>31, <1>32, ZenonT(60)
  DEF Next, VO, Core, User
-----------------------------------------------------------------------------
(* Only Render gives the render thread a frame, and configures for it.     *)
LEMMA RightStep ==
  ASSUME TypeOK, UserAgrees, FormatAgrees, RightFormat, [Next]_vars PROVE RightFormat'
<1> USE DEF TypeOK, Context, ThreadsOK, UserStates, VOStates, PlayerStates,
      DecoderStates, UserAgrees, FormatAgrees, RightFormat, VOIs, VOTo, UserIs, UserTo
<1>1. CASE Preinit BY <1>1 DEF Preinit
<1>2. ASSUME NEW params \in Params, Reconfig(params) PROVE RightFormat'
  BY <1>2 DEF Reconfig
<1>3. CASE Reset BY <1>3 DEF Reset
<1>4. CASE DrawNew BY <1>4 DEF DrawNew, Draw
<1>5. CASE Redraw BY <1>5 DEF Redraw, Draw
<1>6. CASE Update BY <1>6 DEF Update
<1>7. CASE Flip BY <1>7 DEF Flip, Presents
<1>8. CASE FlipTimeout
  <2>1. CASE ctx.next_frame # NoFrame
    <3>1. DropsFrame BY <1>8, <2>1 DEF FlipTimeout, TimesOut
    <3>2. VOIs("flip") /\ UNCHANGED <<work, renderer, player, decoder, images>>
      BY <1>8 DEF FlipTimeout
    <3> QED BY <3>1, <3>2 DEF DropsFrame
  <2>2. CASE ctx.next_frame = NoFrame
    BY <1>8, <2>2 DEF FlipTimeout, TimesOut, Presents
  <2> QED BY <2>1, <2>2
<1>9. CASE Swapped BY <1>9 DEF Swapped
<1>10. CASE SwapTimeout BY <1>10 DEF SwapTimeout
<1>11. CASE Screenshot BY <1>11 DEF Screenshot
<1>12. CASE Terminate BY <1>12 DEF Terminate
<1>13. CASE Uninit BY <1>13 DEF Uninit
<1>14. CASE Interrupt BY <1>14 DEF Interrupt
<1>15. CASE CreateVO BY <1>15 DEF CreateVO
<1>16. CASE StopVideo BY <1>16 DEF StopVideo
<1>17. CASE StopDecoder BY <1>17 DEF StopDecoder
<1>18. CASE VOGone BY <1>18 DEF VOGone
<1>19. CASE NothingToKill BY <1>19 DEF NothingToKill
<1>20. CASE Decode BY <1>20 DEF Decode, Unused
<1>21. CASE UpdateContext BY <1>21 DEF UpdateContext, Process
<1>22. CASE HasFrame BY <1>22 DEF HasFrame
<1>23. CASE Rendered BY <1>23 DEF Rendered
<1>24. CASE Present BY <1>24 DEF Present
<1>25. CASE ReportSwap BY <1>25 DEF ReportSwap
<1>26. ASSUME NEW block \in BOOLEAN, Render(block) PROVE RightFormat'
  BY <1>26 DEF Render, NeedsReconfig
<1>27. CASE Free BY <1>27 DEF Free
<1>28. CASE Kill BY <1>28 DEF Kill
<1>29. CASE InUse BY <1>29 DEF InUse
<1>30. CASE FreeProcess BY <1>30 DEF FreeProcess, Process, Queued
<1>31. CASE Destroy BY <1>31 DEF Destroy, Barrier
<1>32. CASE UNCHANGED vars BY <1>32 DEF vars
<1> QED
    BY <1>1, <1>2, <1>3, <1>4, <1>5, <1>6, <1>7, <1>8, <1>9, <1>10, <1>11, <1>12,
     <1>13, <1>14, <1>15, <1>16, <1>17, <1>18, <1>19, <1>20, <1>21, <1>22, <1>23,
     <1>24, <1>25, <1>26, <1>27, <1>28, <1>29, <1>30, <1>31, <1>32, ZenonT(60)
  DEF Next, VO, Core, User
-----------------------------------------------------------------------------
(* Whoever puts something into the queue, or an image that nobody holds    *)
(* any more, signals; and the VO leaves flip_page() only after it has      *)
(* let the render thread go.                                               *)
LEMMA AnsweredStep ==
  ASSUME Assumption, TypeOK, VOAgrees, WorkAgrees, UserAgrees, Answered, [Next]_vars
  PROVE  Answered'
<1> USE DEF TypeOK, Context, ThreadsOK, UserStates, VOStates, PlayerStates,
      DecoderStates, VOAgrees, Running, VOIs, VOTo, UserIs, UserTo, WorkAgrees,
      UserAgrees, Answered, Queued, Held
<1>1. CASE Preinit BY <1>1 DEF Preinit
<1>2. ASSUME NEW params \in Params, Reconfig(params) PROVE Answered'
  BY <1>2 DEF Reconfig, Signals, Dropped
<1>3. CASE Reset BY <1>3 DEF Reset
<1>4. CASE DrawNew BY <1>4 DEF DrawNew, Draw, Signals, Dropped
<1>5. CASE Redraw
  <2>1. PICK redraw \in BOOLEAN : Draw(vo_thread.current, redraw) BY <1>5 DEF Redraw
  <2>2. Held \subseteq Held' \cup {None} BY <1>5, <2>1 DEF Redraw, Draw, NoFrame
  <2> QED BY <1>5, <2>1, <2>2 DEF Redraw, Draw, Assumption
<1>6. CASE Update BY <1>6 DEF Update
<1>7. CASE Flip BY <1>7 DEF Flip, Presents
<1>8. CASE FlipTimeout
  <2>1. Queued' => signalled' \/ ~ctx'.set
    <3>1. UNCHANGED <<work, images>> /\ Signals BY <1>8 DEF FlipTimeout
    <3>2. ctx'.set = ctx.set BY <1>8, ZenonT(60) DEF FlipTimeout, TimesOut, DropsFrame, Presents
    <3> HIDE DEF Held
    <3> QED BY <3>1, <3>2 DEF Signals, Dropped
  <2>2. CASE ctx.next_frame # NoFrame
    <3>1. DropsFrame BY <1>8, <2>2 DEF FlipTimeout, TimesOut
    <3>2. VOIs("flip") /\ UNCHANGED <<work, renderer, player, decoder, images>>
      BY <1>8 DEF FlipTimeout
    <3> QED BY <2>1, <3>1, <3>2 DEF DropsFrame
  <2>3. CASE ctx.next_frame = NoFrame
    BY <1>8, <2>1, <2>3 DEF FlipTimeout, TimesOut, Presents
  <2> QED BY <2>2, <2>3
<1>9. CASE Swapped BY <1>9 DEF Swapped
<1>10. CASE SwapTimeout BY <1>10 DEF SwapTimeout
<1>11. CASE Screenshot BY <1>11 DEF Screenshot
<1>12. CASE Terminate BY <1>12 DEF Terminate, Signals, Dropped
<1>13. CASE Uninit BY <1>13 DEF Uninit, Signals, Dropped
<1>14. CASE Interrupt BY <1>14 DEF Interrupt
<1>15. CASE CreateVO BY <1>15 DEF CreateVO
<1>16. CASE StopVideo BY <1>16 DEF StopVideo
<1>17. CASE StopDecoder BY <1>17 DEF StopDecoder, Signals, Dropped
<1>18. CASE VOGone BY <1>18 DEF VOGone
<1>19. CASE NothingToKill BY <1>19 DEF NothingToKill
<1>20. CASE Decode
  <2>1. Queued' => signalled' \/ ~ctx'.set
    BY <1>20 DEF Decode, Unused, Assumption
  <2> QED BY <1>20, <2>1 DEF Decode
<1>21. CASE UpdateContext
  <2>1. work' = {} /\ images' \subseteq Held'
    <3>1. UNCHANGED vo_thread.current BY <1>21 DEF UpdateContext, Process
    <3>2. CASE "get_image" \in work
      BY <1>21, <3>1, <3>2 DEF UpdateContext, Process, Assumption
    <3>3. CASE "get_image" \notin work
      BY <1>21, <3>1, <3>3 DEF UpdateContext, Process
    <3> QED BY <3>2, <3>3
  <2>2. ~Queued' BY <2>1
  <2> QED BY <1>21, <2>2 DEF UpdateContext, Process
<1>22. CASE HasFrame BY <1>22 DEF HasFrame
<1>23. CASE Rendered BY <1>23 DEF Rendered, Signals, Dropped
<1>24. CASE Present BY <1>24 DEF Present
<1>25. CASE ReportSwap BY <1>25 DEF ReportSwap
<1>26. ASSUME NEW block \in BOOLEAN, Render(block) PROVE Answered'
  BY <1>26 DEF Render, NeedsReconfig, Signals, Dropped
<1>27. CASE Free BY <1>27 DEF Free
<1>28. CASE Kill BY <1>28 DEF Kill
<1>29. CASE InUse BY <1>29 DEF InUse
<1>30. CASE FreeProcess BY <1>30 DEF FreeProcess, Process, Queued
<1>31. CASE Destroy BY <1>31 DEF Destroy, Barrier
<1>32. CASE UNCHANGED vars BY <1>32 DEF vars, Queued
<1> QED
    BY <1>1, <1>2, <1>3, <1>4, <1>5, <1>6, <1>7, <1>8, <1>9, <1>10, <1>11, <1>12,
     <1>13, <1>14, <1>15, <1>16, <1>17, <1>18, <1>19, <1>20, <1>21, <1>22, <1>23,
     <1>24, <1>25, <1>26, <1>27, <1>28, <1>29, <1>30, <1>31, <1>32, ZenonT(60)
  DEF Next, VO, Core, User
-----------------------------------------------------------------------------
(* Initially there is no VO, and everything is announced.                  *)
LEMMA InitInv == ASSUME Assumption, Init PROVE IInv
<1>1. TypeOK
  BY EmptyFrame
  DEF Init, TypeOK, Context, ThreadsOK, UserStates, VOStates, PlayerStates,
      DecoderStates, VOIs
<1>2. VOAgrees /\ WorkAgrees /\ UserAgrees
  BY DEF Init, VOAgrees, WorkAgrees, UserAgrees, Running, VOIs
<1>3. FormatAgrees /\ RightFormat BY DEF Init, FormatAgrees, RightFormat, NoFrame
<1>4. ContextKept /\ Answered BY DEF Init, ContextKept, Answered, VOIs
<1> QED BY <1>1, <1>2, <1>3, <1>4 DEF IInv

(* Every step keeps all parts of the invariant, in the order of the lemmas.*)
LEMMA InvStep == ASSUME Assumption, IInv, [Next]_vars PROVE IInv'
<1> USE DEF IInv
<1>1. VOAgrees' /\ WorkAgrees' /\ UserAgrees' BY VOStep, WorkStep, UserStep
<1>2. FormatAgrees' /\ RightFormat' BY FormatStep, RightStep
<1>3. ContextKept' /\ Answered' BY KeptStep, AnsweredStep
<1>4. ctx' \in Context /\ ThreadsOK'
  <2>1. ctx \in Context /\ ThreadsOK BY DEF TypeOK
  <2>2. /\ decoder.image \in Images \cup {None}
        /\ vo_thread.current \in Images \cup {None}
    BY <2>1 DEF ThreadsOK, DecoderStates, VOStates
  <2>3. /\ ctx.next_frame \in Frame /\ ctx.cur_frame \in Frame
        /\ ctx.img_params \in Params \cup {None} /\ ctx.in_use \in BOOLEAN
    BY <2>1 DEF Context
  <2> QED BY <2>1, <2>2, <2>3, EmptyFrame, ContextStep, ThreadsStep
<1>5. TypeOK' BY <1>1, <1>4 DEF TypeOK, VOAgrees, VOIs
<1> QED BY <1>1, <1>2, <1>3, <1>5

(* The invariant is inductive: whatever the VO thread, the player and the  *)
(* application do next, vo_libmpv.c keeps them in agreement.               *)
THEOREM Invariance == ASSUME Assumption PROVE Spec => []IInv
<1>1. Init => IInv BY InitInv
<1>2. IInv /\ [Next]_vars => IInv' BY InvStep
<1> QED BY <1>1, <1>2, PTL DEF Spec

(* mpv_render_context_free() destroys the context after the VO, the calls  *)
(* from other threads and the last image of dr_helper.                     *)
THEOREM ContextOutlivesUsers == ASSUME Assumption PROVE Spec => []ContextKept
<1>1. IInv => ContextKept BY DEF IInv
<1> QED BY <1>1, Invariance, PTL

(* No frame is rendered by a renderer that was configured for another      *)
(* format (need_reconfig of vo_libmpv.c).                                  *)
THEOREM RenderedInFormat == ASSUME Assumption PROVE Spec => []RightFormat
<1>1. IInv => RightFormat BY DEF IInv
<1> QED BY <1>1, Invariance, PTL

(* The waits of vo_libmpv.c that have no timeout end, and what others want *)
(* of the render thread has been announced to it.                          *)
THEOREM NobodyForgotten == ASSUME Assumption PROVE Spec => []Answered
<1>1. IInv => Answered BY DEF IInv
<1> QED BY <1>1, Invariance, PTL

-----------------------------------------------------------------------------
(* The VO thread.                                                          *)

(* What the two threads remember.                                          *)
Inner ==
  [need_wakeup : BOOLEAN, hasframe : BOOLEAN, hasframe_rendered : BOOLEAN,
   request_redraw : BOOLEAN, want_redraw : BOOLEAN, paused : BOOLEAN, wakeup_on_done : BOOLEAN,
   current_frame : Video!Frame \cup {Video!None}, frame_queued : Video!Frame \cup {Video!None}, wakeup_pts : Nat,
   rendering : BOOLEAN, dropped_frame : BOOLEAN, base_vsync : BOOLEAN,
   expecting_vsync : BOOLEAN, config_ok : BOOLEAN]
VOPositions ==
  {"dispatch", "render", "draw", "flip", "after", "act", "waitdone", "wait", "waited", "exited"}
VOState ==
  [pc : VOPositions, working : BOOLEAN, now : Nat, wait_until : Nat, redraw : BOOLEAN,
   wakeup_on_done : BOOLEAN, wakeup_core_after : Nat, can_queue : BOOLEAN, target : Nat,
   previous_redraw_time : Nat, want_redraw : BOOLEAN]
CoreState ==
  [pc : {"idle", "queue", "wait", "run", "gone"}, woken : BOOLEAN,
   request : {"none", "reconfig", "destroy"}, promised : {"none", "ready", "done"},
   pts : Int, frames : Nat]

Typed ==
  /\ in \in Inner /\ vo \in VOState /\ core \in CoreState
  /\ now \in 0 .. MaxTime /\ commands \in 0 .. MaxCommands
  /\ shown \in Seq(Nat) /\ mark \in Nat

(* The core comes back with a frame, or waits for the VO thread to run     *)
(* something.                                                              *)
CoreWaits ==
  /\ core.frames <= MaxFrames
  /\ core.pc = "queue" => Video!HasRoom /\ core.frames < MaxFrames
  /\ core.request # "none" => core.pc = "run"

(* Each frame since the last reset is drawn as often as it still has to    *)
(* be, unless it is over; a frame of before is not repeated.               *)
FramesCounted ==
  /\ Len(shown) = core.frames /\ mark <= core.frames
  /\ in.current_frame.id <= core.frames
  /\ in.frame_queued # Video!None =>
       /\ in.frame_queued.id = core.frames /\ mark < core.frames
       /\ shown[core.frames] = Video!Larger(in.frame_queued.num_vsyncs, 1)
       /\ in.current_frame.id < core.frames
       /\ in.current_frame # Video!None => in.current_frame.num_vsyncs = 0
  /\ in.current_frame # Video!None =>
       IF mark < in.current_frame.id
       THEN shown[in.current_frame.id] = in.current_frame.num_vsyncs
       ELSE in.current_frame.num_vsyncs = 0 /\ ~in.current_frame.display_synced
  /\ \A n \in 1 .. core.frames :
       n > mark /\ n # in.current_frame.id /\ n # in.frame_queued.id => shown[n] = 0

VInv == Typed /\ CoreWaits /\ FramesCounted

-----------------------------------------------------------------------------
LEMMA NoFrameIs == Video!None.id = 0 /\ Video!None \notin Video!Frame
BY DEF Video!None, Video!Frame

LEMMA UsedFrame ==
  ASSUME NEW f \in Video!Frame
  PROVE  /\ Video!Used(f) \in Video!Frame /\ Video!Used(f).id = f.id /\ Video!Used(f).display_synced = f.display_synced
         /\ Video!Used(f).num_vsyncs = Video!Larger(f.num_vsyncs - 1, 0)
BY DEF Video!Used, Video!Frame, Video!Larger

LEMMA NoRepeatsFrame ==
  ASSUME NEW f \in Video!Frame
  PROVE  /\ Video!NoRepeats(f) \in Video!Frame /\ Video!NoRepeats(f).id = f.id
         /\ Video!NoRepeats(f).num_vsyncs = 0 /\ ~Video!NoRepeats(f).display_synced
BY DEF Video!NoRepeats, Video!Frame

LEMMA Forgets ==
  ASSUME NEW i \in Inner
  PROVE  /\ Video!forget_frames(i) \in Inner /\ Video!forget_frames(i).frame_queued = Video!None
         /\ Video!forget_frames(i).config_ok = i.config_ok
         /\ Video!forget_frames(i).current_frame =
              IF i.current_frame = Video!None THEN Video!None ELSE Video!NoRepeats(i.current_frame)
<1>1. i.current_frame # Video!None => Video!NoRepeats(i.current_frame) \in Video!Frame BY NoRepeatsFrame DEF Inner
<1> QED BY <1>1 DEF Video!forget_frames, Inner

LEMMA Resets ==
  ASSUME NEW i \in Inner
  PROVE  /\ Video!reset_vsync_timings(i) \in Inner
         /\ Video!reset_vsync_timings(i).frame_queued = i.frame_queued
         /\ Video!reset_vsync_timings(i).config_ok = i.config_ok
         /\ Video!reset_vsync_timings(i).current_frame = i.current_frame
BY DEF Video!reset_vsync_timings, Inner

LEMMA WakesUp ==
  ASSUME NEW i \in Inner
  PROVE  /\ Video!wakeup_locked(i) \in Inner
         /\ Video!wakeup_locked(i).frame_queued = i.frame_queued
         /\ Video!wakeup_locked(i).config_ok = i.config_ok
         /\ Video!wakeup_locked(i).current_frame = i.current_frame
BY DEF Video!wakeup_locked, Inner

LEMMA Iterates ==
  ASSUME NEW time \in Nat, NEW want \in BOOLEAN PROVE Video!Iteration(time, want) \in VOState
BY DEF Video!Iteration, VOState, VOPositions

(* Most steps do not touch the frames.                                     *)
Unmoved ==
  /\ in'.current_frame = in.current_frame /\ in'.frame_queued = in.frame_queued
  /\ in'.config_ok = in.config_ok /\ core'.frames = core.frames /\ UNCHANGED <<shown, mark>>

LEMMA SameFrames == ASSUME FramesCounted, Unmoved PROVE FramesCounted'
BY DEF FramesCounted, Unmoved

LEMMA SameCore ==
  ASSUME CoreWaits, Unmoved, core'.pc = core.pc, core'.request = core.request PROVE CoreWaits'
BY DEF CoreWaits, Unmoved, Video!HasRoom

LEMMA Keeps ==
  ASSUME VInv, Unmoved, Typed', core'.pc = core.pc, core'.request = core.request PROVE VInv'
BY SameFrames, SameCore DEF VInv

-----------------------------------------------------------------------------
(* The player core                                                         *)

LEMMA IsReadyStep ==
  ASSUME Video!VideoOutAssumption, VInv, NEW pts \in {-1} \cup (1 .. MaxTime), Video!IsReady(pts) PROVE VInv'
<1> USE DEF VInv
<1> DEFINE r == Video!Ready(pts)
           timer == Video!HasRoom /\ pts >= 0 /\ (in.wakeup_pts = 0 \/ pts < in.wakeup_pts)
           i == [in EXCEPT !.wakeup_pts = IF timer THEN pts ELSE @]
<1>1. /\ Video!Idle /\ core.frames < MaxFrames
      /\ in' = IF timer /\ ~r THEN Video!wakeup_locked(i) ELSE i
      /\ core' = [core EXCEPT !.pc = IF r THEN "queue" ELSE "idle", !.woken = r,
                              !.promised = IF r THEN "none" ELSE "ready", !.pts = pts]
      /\ UNCHANGED <<vo, now, commands, shown, mark>>
  BY DEF Video!IsReady
<1>2. MaxTime \in Nat BY DEF Video!VideoOutAssumption
<1>3. pts \in Int /\ (timer => pts \in Nat) BY <1>2
<1>4. i \in Inner /\ i.frame_queued = in.frame_queued /\ i.current_frame = in.current_frame /\ i.config_ok = in.config_ok
  BY <1>3 DEF Typed, Inner
<1> HIDE DEF i, timer
<1>5. in' \in Inner /\ in'.frame_queued = in.frame_queued /\ in'.current_frame = in.current_frame /\ in'.config_ok = in.config_ok
  BY <1>1, <1>4, WakesUp
<1>6. r \in BOOLEAN BY DEF Video!Ready, Video!HasRoom, Typed, Inner
<1>7. r => Video!HasRoom BY DEF Video!Ready
<1> HIDE DEF r
<1>8. /\ core' \in CoreState /\ core'.frames = core.frames /\ core'.request = core.request
      /\ core'.pc = IF r THEN "queue" ELSE "idle"
  BY <1>1, <1>3, <1>6 DEF Typed, CoreState
<1>9. Unmoved BY <1>1, <1>5, <1>8 DEF Unmoved
<1>10. Typed' BY <1>1, <1>5, <1>8 DEF Typed
<1>11. CoreWaits' BY <1>1, <1>5, <1>7, <1>8 DEF CoreWaits, Video!HasRoom, Video!Idle
<1> QED BY <1>9, <1>10, <1>11, SameFrames

LEMMA QueueStep == ASSUME Video!VideoOutAssumption, VInv, NEW kind \in Kinds, Video!Queue(kind) PROVE VInv'
<1> USE DEF VInv
<1> DEFINE frame == [id |-> core.frames + 1, pts |-> IF core.pts < 0 THEN now ELSE core.pts,
                     duration |-> kind.duration, num_vsyncs |-> kind.num_vsyncs,
                     display_synced |-> kind.display_synced, can_drop |-> kind.can_drop]
           i == [in EXCEPT !.hasframe = TRUE, !.frame_queued = frame,
                           !.wakeup_pts = IF frame.display_synced THEN 0
                                          ELSE frame.pts + Video!Larger(frame.duration, 0)]
<1>1. /\ core.pc = "queue" /\ in' = Video!wakeup_locked(i)
      /\ core' = [core EXCEPT !.pc = "idle", !.frames = @ + 1]
      /\ shown' = Append(shown, Video!Larger(kind.num_vsyncs, 1))
      /\ UNCHANGED <<vo, now, commands, mark>>
  BY DEF Video!Queue
<1>2. /\ kind.display_synced \in BOOLEAN /\ kind.num_vsyncs \in Nat
      /\ kind.duration \in Nat \cup {-1} /\ kind.can_drop \in BOOLEAN
  BY DEF Video!VideoOutAssumption
<1>3. core.frames \in Nat /\ core.pts \in Int /\ now \in Nat /\ core.request = "none" /\ core.frames < MaxFrames /\ Video!HasRoom
  BY <1>1 DEF Typed, CoreState, CoreWaits
<1>4. frame \in Video!Frame /\ frame.id = core.frames + 1 /\ frame.num_vsyncs = kind.num_vsyncs
      /\ frame.pts \in Nat /\ frame.duration \in Int /\ frame.display_synced \in BOOLEAN
  BY <1>2, <1>3 DEF Video!Frame
<1> HIDE DEF frame
<1>5. i \in Inner /\ i.frame_queued = frame /\ i.current_frame = in.current_frame /\ i.config_ok = in.config_ok
  <2>1. (IF frame.display_synced THEN 0 ELSE frame.pts + Video!Larger(frame.duration, 0)) \in Nat BY <1>4 DEF Video!Larger
  <2>2. in \in Inner BY DEF Typed
  <2> QED BY <1>4, <2>1, <2>2 DEF Inner
<1> HIDE DEF i
<1>6. in' \in Inner /\ in'.frame_queued = frame /\ in'.current_frame = in.current_frame
  BY <1>1, <1>5, WakesUp
<1>7. core' \in CoreState /\ core'.frames = core.frames + 1 /\ core'.pc = "idle" /\ core'.request = core.request
  <2>1. core \in CoreState /\ core.frames + 1 \in Nat BY <1>3 DEF Typed
  <2> QED BY <1>1, <2>1 DEF CoreState
<1>8. Video!Larger(kind.num_vsyncs, 1) \in Nat BY <1>2 DEF Video!Larger
<1>9. /\ shown' \in Seq(Nat) /\ Len(shown') = core.frames + 1 /\ shown'[core.frames + 1] = Video!Larger(kind.num_vsyncs, 1)
      /\ \A n \in 1 .. core.frames : shown'[n] = shown[n]
  BY <1>1, <1>3, <1>8 DEF Typed, FramesCounted
<1>10. Typed' BY <1>1, <1>6, <1>7, <1>9 DEF Typed
<1>11. CoreWaits' BY <1>3, <1>7, Video!VideoOutAssumption DEF CoreWaits, Video!VideoOutAssumption
<1>12. in.frame_queued = Video!None /\ (in.current_frame # Video!None => in.current_frame.num_vsyncs = 0)
  BY <1>3 DEF Video!HasRoom, Typed, Inner, Video!Frame
<1>13. FramesCounted'
  <2>1. in.current_frame.id \in Nat /\ (in.current_frame # Video!None => in.current_frame.id > 0)
    BY NoFrameIs DEF Typed, Inner, Video!Frame
  <2>2. mark \in Nat /\ mark <= core.frames /\ in.current_frame.id <= core.frames BY DEF Typed, FramesCounted
  <2>3. frame # Video!None BY <1>4, NoFrameIs
  <2>4. \A n \in 1 .. core.frames + 1 : n \in 1 .. core.frames \/ n = core.frames + 1 BY <1>3
  <2>5. \A n \in 1 .. core.frames + 1 :
          n > mark /\ n # in.current_frame.id /\ n # core.frames + 1 => shown'[n] = 0
    <3> SUFFICES ASSUME NEW n \in 1 .. core.frames, n > mark, n # in.current_frame.id PROVE shown[n] = 0
      BY <1>9, <2>4
    <3>1. n # Video!None.id BY NoFrameIs
    <3> QED BY <1>12, <3>1 DEF FramesCounted
  <2>6. in.current_frame # Video!None =>
          IF mark < in.current_frame.id
          THEN shown'[in.current_frame.id] = in.current_frame.num_vsyncs
          ELSE in.current_frame.num_vsyncs = 0 /\ ~in.current_frame.display_synced
    <3>1. in.current_frame # Video!None => in.current_frame.id \in 1 .. core.frames BY <1>3, <2>1, <2>2
    <3> QED BY <1>9, <3>1 DEF FramesCounted
  <2>7. Len(shown') = core'.frames /\ mark' <= core'.frames /\ in'.current_frame.id < core'.frames
    BY <1>1, <1>3, <1>6, <1>7, <1>9, <2>1, <2>2
  <2>8. /\ in'.frame_queued.id = core'.frames /\ mark' < core'.frames
        /\ shown'[core'.frames] = Video!Larger(in'.frame_queued.num_vsyncs, 1)
        /\ in'.current_frame # Video!None => in'.current_frame.num_vsyncs = 0
    BY <1>1, <1>3, <1>4, <1>6, <1>7, <1>9, <1>12, <2>2
  <2>9. \A n \in 1 .. core'.frames :
          n > mark' /\ n # in'.current_frame.id /\ n # in'.frame_queued.id => shown'[n] = 0
    BY <1>1, <1>4, <1>6, <1>7, <2>5
  <2>10. in'.current_frame # Video!None =>
          IF mark' < in'.current_frame.id
          THEN shown'[in'.current_frame.id] = in'.current_frame.num_vsyncs
          ELSE in'.current_frame.num_vsyncs = 0 /\ ~in'.current_frame.display_synced
    BY <1>1, <1>6, <2>6
  <2>11. in'.current_frame.id <= core'.frames BY <1>3, <1>6, <1>7, <2>1, <2>2
  <2> QED BY <2>7, <2>8, <2>9, <2>10, <2>11 DEF FramesCounted
<1> QED BY <1>10, <1>11, <1>13

(* A reset: the frames so far are over, and the current one, if it is      *)
(* kept, is not repeated.                                                  *)
LEMMA OverFrames ==
  ASSUME VInv, in'.frame_queued = Video!None, core'.frames = core.frames, shown' = shown, mark' = core.frames,
         in'.current_frame = Video!None \/ (in.current_frame # Video!None /\ in'.current_frame = Video!NoRepeats(in.current_frame))
  PROVE  FramesCounted'
<1>1. core.frames \in Nat /\ in.current_frame \in Video!Frame \cup {Video!None} BY DEF VInv, Typed, CoreState, Inner
<1>2. in.current_frame.id <= core.frames /\ Len(shown) = core.frames BY DEF VInv, FramesCounted
<1>3. in'.current_frame.id \in Nat /\ in'.current_frame.id <= core.frames
  BY <1>1, <1>2, NoRepeatsFrame, NoFrameIs DEF Video!Frame
<1>4. in'.current_frame # Video!None => in'.current_frame.num_vsyncs = 0 /\ ~in'.current_frame.display_synced
  BY <1>1, NoRepeatsFrame
<1>5. ~(core.frames < in'.current_frame.id) BY <1>1, <1>3
<1>6. \A n \in 1 .. core.frames : ~(n > core.frames) BY <1>1
<1> QED BY <1>1, <1>2, <1>3, <1>4, <1>5, <1>6 DEF FramesCounted

LEMMA SeekResetStep == ASSUME Video!VideoOutAssumption, VInv, Video!SeekReset PROVE VInv'
<1> USE DEF VInv
<1> DEFINE f == Video!forget_frames(in)
           i == Video!reset_vsync_timings(f)
<1>1. /\ Video!Idle /\ core.pc = "idle" /\ commands' = commands + 1 /\ commands < MaxCommands /\ in' = Video!wakeup_locked(i)
      /\ core' = [core EXCEPT !.promised = "none", !.woken = TRUE]
      /\ mark' = core.frames /\ UNCHANGED <<vo, now, shown>>
  BY DEF Video!SeekReset, Video!Command, Video!Idle
<1>2. in \in Inner BY DEF Typed
<1>3. f \in Inner /\ f.frame_queued = Video!None /\ f.config_ok = in.config_ok
      /\ f.current_frame = IF in.current_frame = Video!None THEN Video!None ELSE Video!NoRepeats(in.current_frame)
  BY <1>2, Forgets
<1> HIDE DEF f
<1>4. i \in Inner /\ i.frame_queued = f.frame_queued /\ i.config_ok = f.config_ok /\ i.current_frame = f.current_frame
  BY <1>3, Resets
<1> HIDE DEF i
<1>5. /\ in' \in Inner /\ in'.frame_queued = i.frame_queued /\ in'.config_ok = i.config_ok
      /\ in'.current_frame = i.current_frame
  BY <1>1, <1>4, WakesUp
<1>6. /\ core' \in CoreState /\ core'.frames = core.frames /\ core'.pc = core.pc /\ core'.request = core.request
      /\ core.frames \in Nat
  BY <1>1 DEF Typed, CoreState
<1>7. Typed' BY <1>1, <1>5, <1>6, Video!VideoOutAssumption DEF Typed, Video!VideoOutAssumption
<1>8. CoreWaits' BY <1>1, <1>6 DEF CoreWaits
<1>9. FramesCounted' BY <1>1, <1>3, <1>4, <1>5, <1>6, OverFrames
<1> QED BY <1>7, <1>8, <1>9

(* What an operation on in does that is not about frames.                  *)
LEMMA SetPausedStep == ASSUME Video!VideoOutAssumption, VInv, Video!SetPaused PROVE VInv'
<1> USE DEF VInv
<1> DEFINE paused == ~in.paused
           redraw == in.request_redraw \/ (~in.paused /\ in.dropped_frame)
           f == [in EXCEPT !.paused = paused, !.request_redraw = redraw]
           i == Video!reset_vsync_timings(f)
<1>1. /\ commands' = commands + 1 /\ commands < MaxCommands /\ in' = Video!wakeup_locked(i)
      /\ core' = [core EXCEPT !.woken = @ \/ (~in.paused /\ in.dropped_frame)]
      /\ UNCHANGED <<vo, now, shown, mark>>
  BY DEF Video!SetPaused, Video!Command
<1>2. in \in Inner BY DEF Typed
<1>3. f \in Inner /\ f.frame_queued = in.frame_queued /\ f.config_ok = in.config_ok /\ f.current_frame = in.current_frame
  <2>1. paused \in BOOLEAN /\ redraw \in BOOLEAN OBVIOUS
  <2> HIDE DEF paused, redraw
  <2> QED BY <1>2, <2>1 DEF Inner
<1> HIDE DEF f
<1>4. i \in Inner /\ i.frame_queued = f.frame_queued /\ i.config_ok = f.config_ok /\ i.current_frame = f.current_frame
  BY <1>3, Resets
<1> HIDE DEF i
<1>5. /\ in' \in Inner /\ in'.frame_queued = i.frame_queued /\ in'.config_ok = i.config_ok
      /\ in'.current_frame = i.current_frame
  BY <1>1, <1>4, WakesUp
<1>6. in.paused \in BOOLEAN /\ in.dropped_frame \in BOOLEAN BY <1>2 DEF Inner
<1>7. core' \in CoreState /\ core'.frames = core.frames /\ core'.pc = core.pc /\ core'.request = core.request
  BY <1>1, <1>6 DEF Typed, CoreState
<1>8. Typed' BY <1>1, <1>5, <1>7, Video!VideoOutAssumption DEF Typed, Video!VideoOutAssumption
<1>9. Unmoved BY <1>1, <1>3, <1>4, <1>5, <1>7 DEF Unmoved
<1> QED BY <1>7, <1>8, <1>9, Keeps

LEMMA RedrawStep == ASSUME Video!VideoOutAssumption, VInv, Video!Redraw PROVE VInv'
<1> USE DEF VInv
<1> DEFINE f == [in EXCEPT !.request_redraw = TRUE, !.want_redraw = FALSE]
<1>1. /\ commands' = commands + 1 /\ commands < MaxCommands /\ in' = IF in.request_redraw THEN in ELSE Video!wakeup_locked(f)
      /\ UNCHANGED <<vo, now, shown, mark, core>>
  BY DEF Video!Redraw, Video!Command
<1>2. in \in Inner BY DEF Typed
<1>3. f \in Inner /\ f.frame_queued = in.frame_queued /\ f.config_ok = in.config_ok /\ f.current_frame = in.current_frame
  BY <1>2 DEF Inner
<1> HIDE DEF f
<1>5. /\ in' \in Inner /\ in'.frame_queued = in.frame_queued /\ in'.config_ok = in.config_ok
      /\ in'.current_frame = in.current_frame
  BY <1>1, <1>2, <1>3, WakesUp
<1>8. Typed' BY <1>1, <1>5, Video!VideoOutAssumption DEF Typed, Video!VideoOutAssumption
<1>9. Unmoved BY <1>1, <1>5 DEF Unmoved
<1> QED BY <1>1, <1>8, <1>9, Keeps

LEMMA RequestDoneStep == ASSUME Video!VideoOutAssumption, VInv, Video!RequestDone PROVE VInv'
<1> USE DEF VInv
<1>1. /\ commands' = commands + 1 /\ commands < MaxCommands /\ in' = [in EXCEPT !.wakeup_on_done = @ \/ Video!still_displaying]
      /\ core' = [core EXCEPT !.woken = ~Video!still_displaying, !.promised = IF Video!still_displaying THEN "done" ELSE "none"]
      /\ UNCHANGED <<vo, now, shown, mark>>
  BY DEF Video!RequestDone, Video!Command
<1>2. in \in Inner /\ core \in CoreState BY DEF Typed
<1>3. Video!still_displaying \in BOOLEAN BY DEF Video!still_displaying
<1>5. /\ in' \in Inner /\ in'.frame_queued = in.frame_queued /\ in'.config_ok = in.config_ok
      /\ in'.current_frame = in.current_frame
  BY <1>1, <1>2, <1>3 DEF Inner
<1>7. core' \in CoreState /\ core'.frames = core.frames /\ core'.pc = core.pc /\ core'.request = core.request
  BY <1>1, <1>2, <1>3 DEF CoreState
<1>8. Typed' BY <1>1, <1>5, <1>7, Video!VideoOutAssumption DEF Typed, Video!VideoOutAssumption
<1>9. Unmoved BY <1>1, <1>5, <1>7 DEF Unmoved
<1> QED BY <1>7, <1>8, <1>9, Keeps

LEMMA WaitFrameStep == ASSUME Video!VideoOutAssumption, VInv, Video!WaitFrame PROVE VInv'
<1> USE DEF VInv
<1>1. /\ core.pc = "idle" /\ commands' = commands + 1 /\ commands < MaxCommands /\ core' = [core EXCEPT !.pc = "wait"]
      /\ UNCHANGED <<in, vo, now, shown, mark>>
  BY DEF Video!WaitFrame, Video!Command, Video!Idle
<1>2. core' \in CoreState /\ core'.frames = core.frames /\ core'.pc = "wait" /\ core'.request = core.request
  BY <1>1 DEF Typed, CoreState
<1>3. Typed' BY <1>1, <1>2, Video!VideoOutAssumption DEF Typed, Video!VideoOutAssumption
<1>4. CoreWaits' BY <1>1, <1>2 DEF CoreWaits
<1>5. Unmoved BY <1>1, <1>2 DEF Unmoved
<1> QED BY <1>3, <1>4, <1>5, SameFrames

LEMMA WaitFrameReturnsStep == ASSUME VInv, Video!WaitFrameReturns PROVE VInv'
<1> USE DEF VInv
<1>1. core.pc = "wait" /\ core' = [core EXCEPT !.pc = "idle"] /\ UNCHANGED <<in, vo, now, commands, shown, mark>>
  BY DEF Video!WaitFrameReturns
<1>2. core' \in CoreState /\ core'.frames = core.frames /\ core'.pc = "idle" /\ core'.request = core.request
  BY <1>1 DEF Typed, CoreState
<1>3. Typed' BY <1>1, <1>2 DEF Typed
<1>4. CoreWaits' BY <1>1, <1>2 DEF CoreWaits
<1>5. Unmoved BY <1>1, <1>2 DEF Unmoved
<1> QED BY <1>3, <1>4, <1>5, SameFrames

LEMMA DispatchStep ==
  ASSUME VInv, NEW request \in {"reconfig", "destroy"}, Video!Dispatch(request), commands' \in 0 .. MaxCommands,
         UNCHANGED <<vo, now, shown, mark>>
  PROVE  VInv'
<1> USE DEF VInv
<1>1. /\ core' = [core EXCEPT !.pc = "run", !.request = request, !.promised = "none", !.woken = TRUE]
      /\ in' = Video!wakeup_locked(in)
  BY DEF Video!Dispatch
<1>2. core' \in CoreState /\ core'.frames = core.frames /\ core'.pc = "run" BY <1>1 DEF Typed, CoreState
<1>3. /\ in' \in Inner /\ in'.frame_queued = in.frame_queued /\ in'.config_ok = in.config_ok
      /\ in'.current_frame = in.current_frame
  BY <1>1, WakesUp DEF Typed
<1>4. Typed' BY <1>2, <1>3 DEF Typed
<1>5. CoreWaits' BY <1>2 DEF CoreWaits
<1>6. Unmoved BY <1>2, <1>3 DEF Unmoved
<1> QED BY <1>4, <1>5, <1>6, SameFrames

LEMMA RequestStep ==
  ASSUME Video!VideoOutAssumption, VInv, Video!Reconfig \/ Video!ReconfigAgain \/ Video!Destroy PROVE VInv'
<1>1. commands \in 0 .. MaxCommands /\ MaxCommands \in Nat BY DEF VInv, Typed, Video!VideoOutAssumption
<1>2. CASE Video!Reconfig BY <1>1, <1>2, DispatchStep DEF Video!Reconfig
<1>3. CASE Video!ReconfigAgain BY <1>1, <1>3, DispatchStep DEF Video!ReconfigAgain, Video!Command
<1>4. CASE Video!Destroy BY <1>1, <1>4, DispatchStep DEF Video!Destroy, Video!Command
<1> QED BY <1>2, <1>3, <1>4

LEMMA CoreStep == ASSUME Video!VideoOutAssumption, VInv, Video!Core PROVE VInv'
BY SeekResetStep, SetPausedStep, RedrawStep, RequestDoneStep, WaitFrameStep, RequestStep, IsReadyStep DEF Video!Core

-----------------------------------------------------------------------------
(* The VO thread                                                           *)

LEMMA Wakes ==
  ASSUME VInv, NEW if \in BOOLEAN, Video!wakeup_core(if)
  PROVE  /\ core' \in CoreState /\ core'.frames = core.frames /\ core'.pc = core.pc
         /\ core'.request = core.request
<1>1. core \in CoreState /\ core' = [core EXCEPT !.woken = @ \/ if] BY DEF VInv, Typed, Video!wakeup_core
<1>2. (core.woken \/ if) \in BOOLEAN OBVIOUS
<1> QED BY <1>1, <1>2 DEF CoreState

LEMMA ProcessDispatchStep == ASSUME VInv, Video!ProcessDispatch PROVE VInv'
<1> USE DEF VInv
<1>1. in \in Inner /\ vo \in VOState /\ core \in CoreState /\ UNCHANGED <<now, commands, shown>> /\ core.frames \in Nat
  BY DEF Typed, Video!ProcessDispatch, CoreState
<1>2. PICK exposed \in BOOLEAN :
        vo' = [vo EXCEPT !.pc = IF core.request = "destroy" THEN "exited" ELSE "render",
                         !.want_redraw = @ \/ exposed]
  BY DEF Video!ProcessDispatch
<1>3. vo' \in VOState
  <2>1. (vo.want_redraw \/ exposed) \in BOOLEAN OBVIOUS
  <2>2. (IF core.request = "destroy" THEN "exited" ELSE "render") \in VOPositions BY DEF VOPositions
  <2> QED BY <1>1, <1>2, <2>1, <2>2 DEF VOState
<1>4. CASE core.request = "none"
  <2>1. UNCHANGED <<in, core, mark>> BY <1>4 DEF Video!ProcessDispatch
  <2>2. Typed' BY <1>1, <1>3, <2>1 DEF Typed
  <2>3. Unmoved BY <1>1, <2>1 DEF Unmoved
  <2> QED BY <2>1, <2>2, <2>3, Keeps
<1>5. ASSUME in'.frame_queued = Video!None, in'.current_frame = Video!None, in' \in Inner, mark' = core.frames,
             core' \in CoreState, core'.frames = core.frames, core'.pc \in {"idle", "gone"}, core'.request = "none"
      PROVE  VInv'
  <2>1. Typed' BY <1>1, <1>3, <1>5 DEF Typed
  <2>2. CoreWaits' BY <1>5 DEF CoreWaits
  <2>3. FramesCounted' BY <1>1, <1>5, OverFrames
  <2> QED BY <2>1, <2>2, <2>3
<1>6. CASE core.request = "reconfig"
  <2>1. PICK ok \in BOOLEAN :
          in' = Video!reset_vsync_timings(Video!forget_frames([in EXCEPT !.config_ok = ok, !.current_frame = Video!None]))
    BY <1>6 DEF Video!ProcessDispatch
  <2> DEFINE i == [in EXCEPT !.config_ok = ok, !.current_frame = Video!None]
  <2>2. i \in Inner /\ i.current_frame = Video!None BY <1>1 DEF Inner
  <2> HIDE DEF i
  <2>3. Video!forget_frames(i) \in Inner /\ Video!forget_frames(i).frame_queued = Video!None /\ Video!forget_frames(i).current_frame = Video!None
    BY <2>2, Forgets
  <2>4. in' \in Inner /\ in'.frame_queued = Video!None /\ in'.current_frame = Video!None BY <2>1, <2>3, Resets DEF i
  <2>5. core' = [core EXCEPT !.pc = "idle", !.request = "none"] /\ mark' = core.frames
    BY <1>6 DEF Video!ProcessDispatch
  <2>6. core' \in CoreState /\ core'.frames = core.frames /\ core'.pc = "idle" /\ core'.request = "none"
    BY <1>1, <2>5 DEF CoreState
  <2> QED BY <1>5, <2>4, <2>5, <2>6
<1>7. CASE core.request = "destroy"
  <2>1. in' = [Video!forget_frames(in) EXCEPT !.current_frame = Video!None] BY <1>7 DEF Video!ProcessDispatch
  <2>3. Video!forget_frames(in) \in Inner /\ Video!forget_frames(in).frame_queued = Video!None
    BY <1>1, Forgets
  <2>4. in' \in Inner /\ in'.frame_queued = Video!None /\ in'.current_frame = Video!None BY <2>1, <2>3 DEF Inner
  <2>5. core' = [core EXCEPT !.pc = "gone", !.request = "none"] /\ mark' = core.frames
    BY <1>7 DEF Video!ProcessDispatch
  <2>6. core' \in CoreState /\ core'.frames = core.frames /\ core'.pc = "gone" /\ core'.request = "none"
    BY <1>1, <2>5 DEF CoreState
  <2> QED BY <1>5, <2>4, <2>5, <2>6
<1> QED BY <1>1, <1>4, <1>6, <1>7 DEF CoreState

(* The end of both critical sections of render_frame().                    *)
LEMMA Finishes ==
  ASSUME NEW i \in Inner, vo \in VOState, Video!Finish(i)
  PROVE  /\ in' \in Inner /\ vo' \in VOState
         /\ in'.frame_queued = i.frame_queued /\ in'.config_ok = i.config_ok /\ in'.current_frame = i.current_frame
<1> DEFINE more == \/ i.current_frame # Video!None /\ i.current_frame.num_vsyncs > 0 /\ i.current_frame.display_synced
                   \/ i.frame_queued # Video!None /\ i.frame_queued.display_synced
           redraw == i.request_redraw /\ i.frame_queued = Video!None
<1>1. in' = [i EXCEPT !.request_redraw = redraw] BY DEF Video!Finish
<1>2. vo' = [vo EXCEPT !.pc = "after", !.working = more, !.can_queue = FALSE, !.target = 0] BY DEF Video!Finish
<1>3. redraw \in BOOLEAN OBVIOUS
<1>4. more \in BOOLEAN OBVIOUS
<1> HIDE DEF more, redraw
<1>5. vo' \in VOState BY <1>2, <1>4 DEF VOState, VOPositions
<1>6. /\ in' \in Inner /\ in'.frame_queued = i.frame_queued /\ in'.config_ok = i.config_ok
      /\ in'.current_frame = i.current_frame
  BY <1>1, <1>3 DEF Inner
<1> QED BY <1>5, <1>6

LEMMA QuietStep == ASSUME VInv, Video!RenderNothing \/ Video!Draw \/ Video!Wait PROVE VInv'
<1> USE DEF VInv
<1>1. in \in Inner /\ vo \in VOState BY DEF Typed
<1>2. CASE Video!RenderNothing
  <2>1. vo' \in VOState BY <1>1, <1>2 DEF Video!RenderNothing, VOState, VOPositions
  <2>2. UNCHANGED <<in, core, now, commands, shown, mark>> BY <1>2 DEF Video!RenderNothing
  <2>3. Typed' /\ Unmoved BY <2>1, <2>2 DEF Typed, Unmoved
  <2> QED BY <2>2, <2>3, Keeps
<1>3. CASE Video!Draw
  <2>1. vo' \in VOState BY <1>1, <1>3 DEF Video!Draw, VOState, VOPositions
  <2>2. UNCHANGED <<in, now, commands, shown, mark>> /\ Video!wakeup_core(Video!CanQueue) BY <1>3 DEF Video!Draw
  <2>3. Video!CanQueue \in BOOLEAN BY <1>1 DEF Video!CanQueue, VOState
  <2>4. /\ core' \in CoreState /\ core'.frames = core.frames /\ core'.pc = core.pc /\ core'.request = core.request
    BY <2>2, <2>3, Wakes
  <2>5. Typed' /\ Unmoved BY <2>1, <2>2, <2>4 DEF Typed, Unmoved
  <2> QED BY <2>2, <2>4, <2>5, Keeps
<1>4. CASE Video!Wait
  <2>1. vo' \in VOState BY <1>1, <1>4 DEF Video!Wait, VOState, VOPositions
  <2>2. UNCHANGED <<in, core, now, commands, shown, mark>> BY <1>4 DEF Video!Wait
  <2>3. Typed' /\ Unmoved BY <2>1, <2>2 DEF Typed, Unmoved
  <2> QED BY <2>2, <2>3, Keeps
<1> QED BY <1>2, <1>3, <1>4

LEMMA FlipPageStep == ASSUME VInv, Video!FlipPage PROVE VInv'
<1> USE DEF VInv
<1>1. in \in Inner /\ vo \in VOState /\ UNCHANGED <<core, now, commands, shown, mark>> BY DEF Typed, Video!FlipPage
<1>2. PICK dropped \in BOOLEAN :
        LET i == [in EXCEPT !.rendering = FALSE, !.dropped_frame = dropped] IN
        Video!Finish(IF i.expecting_vsync THEN [i EXCEPT !.base_vsync = TRUE] ELSE Video!reset_vsync_timings(i))
  BY DEF Video!FlipPage
<1> DEFINE i == [in EXCEPT !.rendering = FALSE, !.dropped_frame = dropped]
           j == IF i.expecting_vsync THEN [i EXCEPT !.base_vsync = TRUE] ELSE Video!reset_vsync_timings(i)
<1>3. Video!Finish(j) BY <1>2
<1>4. i \in Inner /\ i.frame_queued = in.frame_queued /\ i.config_ok = in.config_ok /\ i.current_frame = in.current_frame
  BY <1>1 DEF Inner
<1> HIDE DEF i
<1>5. j \in Inner /\ j.frame_queued = i.frame_queued /\ j.config_ok = i.config_ok /\ j.current_frame = i.current_frame
  <2>1. CASE i.expecting_vsync BY <1>4, <2>1 DEF Inner
  <2>2. CASE ~i.expecting_vsync BY <1>4, <2>2, Resets
  <2> QED BY <2>1, <2>2
<1> HIDE DEF j
<1>6. /\ in' \in Inner /\ vo' \in VOState
      /\ in'.frame_queued = j.frame_queued /\ in'.config_ok = j.config_ok /\ in'.current_frame = j.current_frame
  BY <1>1, <1>3, <1>5, Finishes
<1>7. Typed' BY <1>1, <1>6 DEF Typed
<1>8. Unmoved BY <1>1, <1>4, <1>5, <1>6 DEF Unmoved
<1> QED BY <1>1, <1>7, <1>8, Keeps

LEMMA WaitedStep == ASSUME VInv, Video!Waited PROVE VInv'
<1> USE DEF VInv
<1>1. in \in Inner /\ vo \in VOState /\ UNCHANGED <<core, now, commands, shown, mark>> BY DEF Typed, Video!Waited
<1>2. in' = [in EXCEPT !.need_wakeup = FALSE] /\ vo' = Video!Iteration(vo.previous_redraw_time, vo.want_redraw)
  BY DEF Video!Waited
<1>3. vo' \in VOState BY <1>1, <1>2, Iterates DEF VOState
<1>4. /\ in' \in Inner /\ in'.frame_queued = in.frame_queued /\ in'.config_ok = in.config_ok
      /\ in'.current_frame = in.current_frame
  BY <1>1, <1>2 DEF Inner
<1>5. Typed' /\ Unmoved BY <1>1, <1>3, <1>4 DEF Typed, Unmoved
<1> QED BY <1>1, <1>5, Keeps

LEMMA WaitDoneStep == ASSUME VInv, Video!WaitDone PROVE VInv'
<1> USE DEF VInv
<1>1. in \in Inner /\ vo \in VOState /\ UNCHANGED <<now, commands, shown, mark>> BY DEF Typed, Video!WaitDone
<1>2. (in' = in \/ in' = [in EXCEPT !.need_wakeup = TRUE]) /\ vo' = [vo EXCEPT !.pc = "wait"] /\ Video!wakeup_core(TRUE)
  BY DEF Video!WaitDone
<1>3. vo' \in VOState BY <1>1, <1>2 DEF VOState, VOPositions
<1>4. /\ in' \in Inner /\ in'.frame_queued = in.frame_queued /\ in'.config_ok = in.config_ok
      /\ in'.current_frame = in.current_frame
  BY <1>1, <1>2 DEF Inner
<1>5. /\ core' \in CoreState /\ core'.frames = core.frames /\ core'.pc = core.pc /\ core'.request = core.request
  BY <1>2, Wakes
<1>6. Typed' /\ Unmoved BY <1>1, <1>3, <1>4, <1>5 DEF Typed, Unmoved
<1> QED BY <1>5, <1>6, Keeps

LEMMA TickStep == ASSUME Video!VideoOutAssumption, VInv, Video!Tick PROVE VInv'
<1>1. UNCHANGED <<in, vo, core, commands, shown, mark>> /\ now' \in 0 .. MaxTime
  BY DEF Video!Tick, Video!VideoOutAssumption, VInv, Typed
<1>2. Typed' /\ Unmoved BY <1>1 DEF VInv, Typed, Unmoved
<1> QED BY <1>1, <1>2, Keeps

LEMMA AfterRenderStep == ASSUME Video!VideoOutAssumption, VInv, Video!AfterRender PROVE VInv'
<1> USE DEF VInv
<1>1. in \in Inner /\ vo \in VOState /\ now \in Nat /\ UNCHANGED <<now, commands, shown, mark>>
  BY DEF Typed, Video!AfterRender
<1>2. Video!Done \in BOOLEAN /\ vo.want_redraw \in BOOLEAN /\ in.request_redraw \in BOOLEAN BY <1>1 DEF Video!Done, VOState, Inner
<1>3. Video!Larger(Video!get_current_frame_end, 0) \in Nat
  BY <1>1 DEF Video!get_current_frame_end, Inner, Video!Frame, Video!Larger
<1> DEFINE expired == in.wakeup_pts > 0 /\ in.wakeup_pts <= now
           want == in.want_redraw \/ vo.want_redraw
           on_done == in.wakeup_on_done /\ ~Video!Done
           pts == IF expired THEN 0 ELSE in.wakeup_pts
           wait_until == IF vo.working THEN now
                         ELSE IF in.wakeup_pts > now THEN Video!Smaller(in.wakeup_pts, Video!Never) ELSE Video!Never
           after == IF Video!Done THEN Video!Larger(Video!get_current_frame_end, 0) ELSE 0
<1>4. /\ in' = [in EXCEPT !.want_redraw = want, !.wakeup_on_done = on_done, !.wakeup_pts = pts]
      /\ Video!wakeup_core(expired \/ vo.want_redraw)
      /\ vo' = [vo EXCEPT !.pc = "act", !.now = now, !.want_redraw = FALSE, !.redraw = in.request_redraw,
                          !.wait_until = wait_until, !.wakeup_on_done = Video!Done, !.wakeup_core_after = after]
  BY DEF Video!AfterRender
<1>5. want \in BOOLEAN /\ on_done \in BOOLEAN /\ pts \in Nat BY <1>1 DEF Inner
<1>6. wait_until \in Nat
  <2>1. in.wakeup_pts \in Nat /\ Video!Never \in Nat BY <1>1 DEF Video!Never, Video!VideoOutAssumption, Inner
  <2> QED BY <1>1, <2>1 DEF Video!Smaller
<1>7. after \in Nat BY <1>3
<1>8. (expired \/ vo.want_redraw) \in BOOLEAN OBVIOUS
<1>9. core' \in CoreState /\ core'.frames = core.frames /\ core'.pc = core.pc /\ core'.request = core.request
  BY <1>4, <1>8, Wakes
<1> HIDE DEF want, on_done, pts, wait_until, after, expired
<1>10. vo' \in VOState BY <1>1, <1>2, <1>4, <1>6, <1>7 DEF VOState, VOPositions
<1>11. /\ in' \in Inner /\ in'.frame_queued = in.frame_queued /\ in'.config_ok = in.config_ok
       /\ in'.current_frame = in.current_frame
  BY <1>1, <1>4, <1>5, ZenonT(60) DEF Inner
<1>12. Typed' /\ Unmoved BY <1>1, <1>9, <1>10, <1>11 DEF Typed, Unmoved
<1> QED BY <1>9, <1>12, Keeps

LEMMA ActStep == ASSUME Video!VideoOutAssumption, VInv, Video!Act PROVE VInv'
<1> USE DEF VInv
<1>1. in \in Inner /\ vo \in VOState /\ UNCHANGED <<core, now, commands, shown, mark>> BY DEF Typed, Video!Act
<1>2. vo.now \in Nat /\ vo.previous_redraw_time \in Nat /\ vo.want_redraw \in BOOLEAN /\ RedrawInterval \in Nat
  BY <1>1 DEF VOState, Video!VideoOutAssumption
<1>3. vo' \in VOState
  <2>1. \/ vo' = Video!Iteration(vo.now, vo.want_redraw)
        \/ vo' = [vo EXCEPT !.pc = "wait", !.wait_until = vo.now + RedrawInterval, !.wakeup_on_done = FALSE]
        \/ \E exposed \in BOOLEAN : vo' = Video!Iteration(vo.previous_redraw_time, exposed)
        \/ vo' = [vo EXCEPT !.pc = IF vo.wakeup_on_done THEN "waitdone" ELSE "wait"]
    BY DEF Video!Act
  <2>2. vo.now + RedrawInterval \in Nat BY <1>2
  <2>3. ASSUME NEW pc \in {"waitdone", "wait"}, vo' = [vo EXCEPT !.pc = pc] PROVE vo' \in VOState
    BY <1>1, <2>3 DEF VOState, VOPositions
  <2>4. ASSUME vo' = [vo EXCEPT !.pc = "wait", !.wait_until = vo.now + RedrawInterval, !.wakeup_on_done = FALSE]
        PROVE  vo' \in VOState
    BY <1>1, <2>2, <2>4 DEF VOState, VOPositions
  <2> QED BY <1>2, <2>1, <2>3, <2>4, Iterates
<1>4. /\ in' \in Inner /\ in'.frame_queued = in.frame_queued /\ in'.config_ok = in.config_ok
      /\ in'.current_frame = in.current_frame
  <2> DEFINE dropped == in.dropped_frame /\ in.current_frame = Video!None
  <2>1. in' = in \/ in' = [in EXCEPT !.request_redraw = FALSE, !.dropped_frame = dropped] BY DEF Video!Act
  <2>2. dropped \in BOOLEAN OBVIOUS
  <2> HIDE DEF dropped
  <2> QED BY <1>1, <2>1, <2>2 DEF Inner
<1>5. Typed' /\ Unmoved BY <1>1, <1>3, <1>4 DEF Typed, Unmoved
<1> QED BY <1>1, <1>5, Keeps

(* The frame that is drawn: the one queued, or the current one again.      *)
DrawnNow(f) ==
  IF in.frame_queued # Video!None THEN f = in.frame_queued
  ELSE f = in.current_frame /\ f # Video!None /\ Video!Repeats(f)

(* It was queued after the last reset and has still to be drawn.           *)
LEMMA DrawsDue ==
  ASSUME VInv, NEW f, DrawnNow(f)
  PROVE  /\ f \in Video!Frame /\ f # Video!None /\ f.id \in 1 .. core.frames /\ mark < f.id
         /\ shown[f.id] = Video!Larger(f.num_vsyncs, 1) /\ shown[f.id] \in Nat
<1> USE DEF VInv
<1>1. core.frames \in Nat /\ mark \in Nat /\ in.current_frame \in Video!Frame \cup {Video!None}
      /\ in.frame_queued \in Video!Frame \cup {Video!None} /\ shown \in Seq(Nat) /\ Len(shown) = core.frames
  BY DEF Typed, CoreState, Inner, FramesCounted
<1>2. /\ f \in Video!Frame /\ f # Video!None /\ f.id \in 1 .. core.frames /\ mark < f.id /\ shown[f.id] = Video!Larger(f.num_vsyncs, 1)
  <2>1. CASE in.frame_queued # Video!None
    <3>1. f = in.frame_queued BY <2>1 DEF DrawnNow
    <3>2. f.id = core.frames /\ mark < core.frames /\ shown[core.frames] = Video!Larger(f.num_vsyncs, 1)
      BY <2>1, <3>1 DEF FramesCounted
    <3> QED BY <1>1, <2>1, <3>1, <3>2
  <2>2. CASE in.frame_queued = Video!None
    <3>1. f = in.current_frame /\ f # Video!None /\ f.display_synced /\ f.num_vsyncs >= 1 BY <2>2 DEF DrawnNow, Video!Repeats
    <3>2. f \in Video!Frame /\ f.id \in Nat \ {0} /\ f.num_vsyncs \in Nat BY <1>1, <3>1 DEF Video!Frame
    <3>3. mark < f.id /\ shown[f.id] = f.num_vsyncs BY <3>1 DEF FramesCounted
    <3>4. f.id <= core.frames BY <3>1 DEF FramesCounted
    <3>5. f.num_vsyncs = Video!Larger(f.num_vsyncs, 1) BY <3>1, <3>2 DEF Video!Larger
    <3> QED BY <1>1, <3>1, <3>2, <3>3, <3>4, <3>5
  <2> QED BY <2>1, <2>2
<1>3. shown[f.id] \in Nat BY <1>1, <1>2
<1> QED BY <1>2, <1>3

LEMMA RenderFrames ==
  ASSUME VInv, NEW f, DrawnNow(f), Video!Drawn(f), core'.frames = core.frames, mark' = mark,
         in'.current_frame = Video!Used(f), in'.frame_queued = Video!None
  PROVE  FramesCounted' /\ shown' \in Seq(Nat)
<1> USE DEF VInv
<1>1. core.frames \in Nat /\ mark \in Nat /\ in.current_frame \in Video!Frame \cup {Video!None}
      /\ in.frame_queued \in Video!Frame \cup {Video!None} /\ shown \in Seq(Nat) /\ Len(shown) = core.frames
      /\ mark <= core.frames
  BY DEF Typed, CoreState, Inner, FramesCounted
<1>2. /\ f \in Video!Frame /\ f # Video!None /\ f.id \in 1 .. core.frames /\ mark < f.id
      /\ shown[f.id] = Video!Larger(f.num_vsyncs, 1) /\ shown[f.id] \in Nat
  BY DrawsDue
<1>3. Video!Used(f) \in Video!Frame /\ Video!Used(f).id = f.id /\ Video!Used(f).num_vsyncs = Video!Larger(f.num_vsyncs - 1, 0) /\ Video!Used(f) # Video!None
  BY <1>2, UsedFrame, NoFrameIs
<1>4. f.num_vsyncs \in Nat BY <1>2 DEF Video!Frame
<1>5. shown[f.id] - 1 = Video!Used(f).num_vsyncs /\ Video!Used(f).num_vsyncs \in Nat BY <1>2, <1>3, <1>4 DEF Video!Larger
<1>6. shown' = [shown EXCEPT ![f.id] = Video!Used(f).num_vsyncs] BY <1>5 DEF Video!Drawn
<1>7. /\ shown' \in Seq(Nat) /\ Len(shown') = core.frames /\ shown'[f.id] = Video!Used(f).num_vsyncs
      /\ \A n \in 1 .. core.frames : n # f.id => shown'[n] = shown[n]
  BY <1>1, <1>2, <1>5, <1>6
<1>8. ASSUME NEW n \in 1 .. core.frames, n > mark, n # f.id PROVE shown'[n] = 0
  <2>1. shown'[n] = shown[n] BY <1>7, <1>8
  <2>2. CASE in.frame_queued # Video!None
    <3>1. f = in.frame_queued /\ f.id = core.frames BY <2>2 DEF DrawnNow, FramesCounted
    <3>2. CASE n = in.current_frame.id
      <4>1. in.current_frame # Video!None BY <3>2, NoFrameIs
      <4>2. in.current_frame.num_vsyncs = 0 BY <2>2, <4>1 DEF FramesCounted
      <4>3. shown[n] = in.current_frame.num_vsyncs BY <1>1, <1>8, <3>2, <4>1 DEF FramesCounted
      <4> QED BY <2>1, <4>2, <4>3
    <3>3. CASE n # in.current_frame.id BY <1>8, <2>1, <3>1, <3>3 DEF FramesCounted
    <3> QED BY <3>2, <3>3
  <2>3. CASE in.frame_queued = Video!None
    <3>1. f = in.current_frame BY <2>3 DEF DrawnNow
    <3>2. n # in.frame_queued.id BY <2>3, NoFrameIs
    <3> QED BY <1>8, <2>1, <3>1, <3>2 DEF FramesCounted
  <2> QED BY <2>2, <2>3
<1>9. f.id <= core.frames BY <1>1, <1>2
<1>10. \A n \in 1 .. core'.frames :
         n > mark' /\ n # in'.current_frame.id /\ n # in'.frame_queued.id => shown'[n] = 0
  BY <1>3, <1>8
<1>11. IF mark' < in'.current_frame.id
       THEN shown'[in'.current_frame.id] = in'.current_frame.num_vsyncs
       ELSE in'.current_frame.num_vsyncs = 0 /\ ~in'.current_frame.display_synced
  BY <1>2, <1>3, <1>7
<1> QED BY <1>1, <1>3, <1>7, <1>9, <1>10, <1>11 DEF FramesCounted

LEMMA RenderStep == ASSUME VInv, Video!Render PROVE VInv'
<1> USE DEF VInv
<1>1. in \in Inner /\ vo \in VOState /\ core \in CoreState /\ UNCHANGED <<now, commands, mark>>
  BY DEF Typed, Video!Render
<1> DEFINE f == IF in.frame_queued # Video!None THEN in.frame_queued ELSE in.current_frame
           use_vsync == f.display_synced /\ ~in.paused
<1>2. DrawnNow(f) BY DEF Video!Render, DrawnNow
<1>3. PICK drop \in BOOLEAN :
        LET i == [in EXCEPT !.current_frame = Video!Used(f), !.frame_queued = Video!None,
                            !.dropped_frame = drop, !.expecting_vsync = use_vsync] IN
        /\ Video!Drawn(f)
        /\ IF drop
           THEN Video!Finish(i) /\ Video!wakeup_core(TRUE)
           ELSE /\ in' = [i EXCEPT !.rendering = TRUE, !.hasframe_rendered = TRUE, !.request_redraw = FALSE]
                /\ vo' = [vo EXCEPT !.pc = "draw", !.can_queue = Video!Used(f).num_vsyncs < 1 \/ ~use_vsync,
                                    !.target = IF f.display_synced THEN 0 ELSE f.pts]
                /\ UNCHANGED core
  BY DEF Video!Render
<1> DEFINE i == [in EXCEPT !.current_frame = Video!Used(f), !.frame_queued = Video!None,
                           !.dropped_frame = drop, !.expecting_vsync = use_vsync]
           can_queue == Video!Used(f).num_vsyncs < 1 \/ ~use_vsync
           target == IF f.display_synced THEN 0 ELSE f.pts
<1>4. /\ Video!Drawn(f)
      /\ IF drop
         THEN Video!Finish(i) /\ Video!wakeup_core(TRUE)
         ELSE /\ in' = [i EXCEPT !.rendering = TRUE, !.hasframe_rendered = TRUE, !.request_redraw = FALSE]
              /\ vo' = [vo EXCEPT !.pc = "draw", !.can_queue = can_queue, !.target = target]
              /\ UNCHANGED core
  BY <1>3
<1>5. f \in Video!Frame BY <1>2, DrawsDue
<1>6. can_queue \in BOOLEAN /\ target \in Nat /\ use_vsync \in BOOLEAN /\ Video!Used(f) \in Video!Frame
  BY <1>5, UsedFrame DEF Video!Frame
<1>7. i \in Inner /\ i.current_frame = Video!Used(f) /\ i.frame_queued = Video!None /\ i.config_ok = in.config_ok
  <2> HIDE DEF f, use_vsync
  <2> QED BY <1>1, <1>6 DEF Inner
<1> HIDE DEF i, can_queue, target, f
<1>8. /\ in' \in Inner /\ in'.current_frame = Video!Used(f) /\ in'.frame_queued = Video!None /\ in'.config_ok = in.config_ok
      /\ vo' \in VOState
      /\ core' \in CoreState /\ core'.frames = core.frames /\ core'.pc = core.pc /\ core'.request = core.request
  <2>1. CASE drop
    <3>1. Video!Finish(i) /\ Video!wakeup_core(TRUE) BY <1>4, <2>1
    <3>2. core' \in CoreState /\ core'.frames = core.frames /\ core'.pc = core.pc /\ core'.request = core.request
      BY <3>1, Wakes
    <3> QED BY <1>1, <1>7, <3>1, <3>2, Finishes
  <2>2. CASE ~drop
    <3>1. /\ in' = [i EXCEPT !.rendering = TRUE, !.hasframe_rendered = TRUE, !.request_redraw = FALSE]
          /\ vo' = [vo EXCEPT !.pc = "draw", !.can_queue = can_queue, !.target = target]
          /\ UNCHANGED core
      BY <1>4, <2>2
    <3>2. in' \in Inner /\ in'.current_frame = Video!Used(f) /\ in'.frame_queued = Video!None /\ in'.config_ok = in.config_ok
      BY <1>7, <3>1 DEF Inner
    <3>3. vo' \in VOState BY <1>1, <1>6, <3>1 DEF VOState, VOPositions
    <3> QED BY <1>1, <3>1, <3>2, <3>3
  <2> QED BY <2>1, <2>2
<1>9. FramesCounted' /\ shown' \in Seq(Nat) BY <1>1, <1>2, <1>4, <1>8, RenderFrames
<1>10. Typed' BY <1>1, <1>8, <1>9 DEF Typed
<1>11. CoreWaits'
  <2>1. core.pc = "queue" => in.frame_queued = Video!None /\ ~(in.current_frame # Video!None /\ Video!Repeats(in.current_frame))
    <3>1. in.current_frame # Video!None => in.current_frame.num_vsyncs \in Nat BY <1>1 DEF Inner, Video!Frame
    <3> QED BY <3>1 DEF CoreWaits, Video!HasRoom, Video!Repeats
  <2>2. core.pc # "queue" BY <1>2, <2>1 DEF DrawnNow, f
  <2> QED BY <1>8, <2>2 DEF CoreWaits
<1> QED BY <1>9, <1>10, <1>11

-----------------------------------------------------------------------------
LEMMA VideoInit == ASSUME Video!VideoOutAssumption, Video!Init PROVE VInv
<1>1. Video!Iteration(0, FALSE) \in VOState BY Iterates
<1>2. Typed
  <2>1. in \in Inner BY DEF Video!Init, Inner
  <2>2. core \in CoreState BY DEF Video!Init, CoreState
  <2>3. shown \in Seq(Nat) /\ mark \in Nat /\ now = 1 /\ commands = 0 BY DEF Video!Init
  <2>4. 1 \in 0 .. MaxTime /\ 0 \in 0 .. MaxCommands BY DEF Video!VideoOutAssumption
  <2> QED BY <1>1, <2>1, <2>2, <2>3, <2>4 DEF Video!Init, Typed
<1>3. CoreWaits BY DEF Video!Init, Video!VideoOutAssumption, CoreWaits
<1>4. FramesCounted
  <2>1. Len(shown) = 0 /\ core.frames = 0 /\ mark = 0 /\ in.current_frame = Video!None /\ in.frame_queued = Video!None BY DEF Video!Init
  <2>2. \A n \in 1 .. 0 : FALSE OBVIOUS
  <2> QED BY <2>1, <2>2, NoFrameIs DEF FramesCounted
<1> QED BY <1>2, <1>3, <1>4 DEF VInv

LEMMA VideoStep == ASSUME Video!VideoOutAssumption, VInv, [Video!Next]_(Video!vars) PROVE VInv'
<1>1. CASE Video!VOThread
  BY <1>1, ProcessDispatchStep, QuietStep, RenderStep, FlipPageStep, AfterRenderStep, ActStep, WaitDoneStep, WaitedStep
  DEF Video!VOThread
<1>2. CASE UNCHANGED Video!vars
  <2>1. Typed' /\ Unmoved BY <1>2 DEF VInv, Typed, Unmoved, Video!vars
  <2> QED BY <1>2, <2>1, Keeps DEF Video!vars
<1> QED BY <1>1, <1>2, CoreStep, WaitFrameReturnsStep, TickStep, QueueStep DEF Video!Next

LEMMA VideoTypes == ASSUME Video!VideoOutAssumption, VInv PROVE Video!TypeOK
<1>1. in \in Inner /\ vo.pc \in VOPositions /\ core.pc \in {"idle", "queue", "wait", "run", "gone"} /\ core.frames \in Nat
  BY DEF VInv, Typed, VOState, CoreState
<1>2. core.frames \in 0 .. MaxFrames BY <1>1 DEF VInv, CoreWaits, Video!VideoOutAssumption
<1> QED BY <1>1, <1>2 DEF VInv, Typed, Video!TypeOK, Inner, VOPositions, CoreWaits

LEMMA VideoVsyncs == ASSUME VInv PROVE Video!VsyncsKept
<1> SUFFICES ASSUME NEW n \in DOMAIN shown
             PROVE  shown[n] >= 0 /\ (n > mark /\ n < in.current_frame.id => shown[n] = 0)
  BY DEF Video!VsyncsKept
<1>1. n \in 1 .. core.frames /\ shown[n] \in Nat /\ core.frames \in Nat
  BY DEF VInv, Typed, FramesCounted, CoreState
<1>2. in.current_frame.id < core.frames \/ in.frame_queued = Video!None BY DEF VInv, FramesCounted
<1>3. in.current_frame.id \in Nat BY NoFrameIs DEF VInv, Typed, Inner, Video!Frame
<1>4. ASSUME n > mark, n < in.current_frame.id PROVE shown[n] = 0
  <2>1. n # in.frame_queued.id
    <3>1. CASE in.frame_queued = Video!None BY <1>1, <3>1, NoFrameIs
    <3>2. CASE in.frame_queued # Video!None
      <4>1. in.frame_queued.id = core.frames /\ in.current_frame.id < core.frames BY <3>2 DEF VInv, FramesCounted
      <4> QED BY <1>1, <1>3, <1>4, <4>1
    <3> QED BY <3>1, <3>2
  <2>2. n # in.current_frame.id BY <1>1, <1>3, <1>4
  <2> QED BY <1>1, <1>4, <2>1, <2>2 DEF VInv, FramesCounted
<1> QED BY <1>1, <1>4

LEMMA VideoFresh ==
  ASSUME VInv, [Video!Next]_(Video!vars), NEW n \in DOMAIN shown, shown'[n] < shown[n] PROVE n > mark
<1>1. shown \in Seq(Nat) /\ mark \in Nat BY DEF VInv, Typed
<1>2. n \in 1 .. Len(shown) /\ shown[n] \in Nat BY <1>1
<1>3. CASE UNCHANGED shown BY <1>2, <1>3
<1>4. CASE Video!Render
  <2> DEFINE f == IF in.frame_queued # Video!None THEN in.frame_queued ELSE in.current_frame
  <2>1. DrawnNow(f) /\ Video!Drawn(f) BY <1>4 DEF Video!Render, DrawnNow
  <2> HIDE DEF f
  <2>2. f.id \in Nat /\ mark < f.id
    <3>1. f.id \in 1 .. core.frames /\ mark < f.id BY <2>1, DrawsDue
    <3>2. core.frames \in Nat BY DEF VInv, Typed, CoreState
    <3> QED BY <3>1, <3>2
  <2>3. n = f.id \/ shown'[n] = shown[n] BY <2>1, <1>1, <1>2 DEF Video!Drawn
  <2> QED BY <1>1, <1>2, <2>2, <2>3
<1>5. CASE \E kind \in Kinds : Video!Queue(kind)
  <2>1. PICK x : shown' = Append(shown, x) BY <1>5 DEF Video!Queue
  <2>2. shown'[n] = shown[n] BY <1>1, <1>2, <2>1
  <2> QED BY <1>2, <2>2
<1> QED
  <2>1. Video!VOThread => Video!Render \/ UNCHANGED shown
    BY DEF Video!VOThread, Video!ProcessDispatch, Video!RenderNothing, Video!Draw, Video!FlipPage, Video!AfterRender, Video!Act, Video!WaitDone,
           Video!Wait, Video!Waited
  <2>2. Video!Core => UNCHANGED shown
    BY DEF Video!Core, Video!SeekReset, Video!SetPaused, Video!Redraw, Video!RequestDone, Video!WaitFrame, Video!Reconfig, Video!ReconfigAgain,
           Video!Destroy, Video!Command, Video!IsReady
  <2> QED BY <1>3, <1>4, <1>5, <2>1, <2>2, SMTT(40) DEF Video!Next, Video!WaitFrameReturns, Video!Tick, Video!vars
-----------------------------------------------------------------------------
(* The two together: in a behaviour one of them is used.                   *)

AllInv == IInv /\ VInv

LEMMA EachStep == ASSUME [AllNext]_allvars PROVE [Next]_vars /\ [Video!Next]_(Video!vars)
<1>1. UNCHANGED video => UNCHANGED Video!vars BY DEF video, Video!vars
<1> QED BY <1>1 DEF AllNext, InVideo, InRender, allvars

THEOREM AllInvariant == AllSpec => []AllInv
<1>1. AllInit => AllInv BY InitInv, VideoInit, VideoAssumed DEF AllInit, AllInv
<1>2. AllInv /\ [AllNext]_allvars => AllInv' BY EachStep, InvStep, VideoStep, VideoAssumed DEF AllInv
<1> QED BY <1>1, <1>2, PTL DEF AllSpec

(* All three parts: what vo_libmpv.c owes to the application and to the    *)
(* player, the context, the format of frames and the answers.              *)
THEOREM ApiSound == AllSpec => []Sound
<1>1. AllInv => Sound BY DEF AllInv, IInv, Sound
<1> QED BY <1>1, AllInvariant, PTL

(* The types of both.  In particular vo_queue_frame()'s assertion holds:   *)
(* after vo_is_ready_for_frame() has returned true there is room for a     *)
(* frame, whatever the VO thread does until the core comes back with it.   *)
THEOREM TypesKept == AllSpec => []TypesOK
<1>1. AllInv => TypesOK BY VideoTypes, VideoAssumed DEF AllInv, IInv, TypesOK
<1> QED BY <1>1, AllInvariant, PTL

(* Each frame is drawn or dropped for each of its vsyncs before the next   *)
(* one is: render_frame() and vo_is_ready_for_frame() agree on when a      *)
(* frame is over.                                                          *)
THEOREM VsyncsDrawn == AllSpec => []VsyncsKept
<1>1. AllInv => VsyncsKept BY VideoVsyncs DEF AllInv, VsyncsKept
<1> QED BY <1>1, AllInvariant, PTL

(* After a seek or a reconfiguration render_frame() draws no frame that    *)
(* was queued before: forget_frames() takes the queued one away and the    *)
(* repetitions of the current one.                                         *)
THEOREM NoneStale == AllSpec => NoStaleFrame
<1>1. AllInv /\ [AllNext]_allvars
        => [\A n \in DOMAIN shown : shown'[n] < shown[n] => n > mark]_allvars
  BY EachStep, VideoFresh DEF AllInv
<1> QED BY <1>1, AllInvariant, PTL DEF AllSpec, NoStaleFrame
=============================================================================
