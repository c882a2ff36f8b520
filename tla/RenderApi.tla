----------------------------- MODULE RenderApi -----------------------------
(***************************************************************************)
(* video/out/vo_libmpv.c: the application renders the video itself.  The   *)
(* VO thread hands over one frame at a time and waits, with a timeout,     *)
(* until it was rendered and presented; the render thread of the           *)
(* application waits, without one, until the frame may be presented.  With *)
(* advanced control the render thread also takes screenshots and allocates *)
(* and frees the images of the decoder (video/out/dr_helper.c), which      *)
(* other threads ask for through a dispatch queue.  The application may    *)
(* free the context at any time, which ends the video output.              *)
(*                                                                         *)
(* An action is a critical section of ctx->lock, or a step outside it.  An *)
(* image that nobody holds any more is a request to free it in the queue.  *)
(* Left out: need_resize, need_reset and need_update_external, which only  *)
(* concern the backend, and images that commands hold while they write a   *)
(* screenshot.                                                             *)
(***************************************************************************)
EXTENDS FiniteSets

CONSTANTS
  Params,         (* video formats                                         *)
  Images          (* those that exist at the same time                     *)

None == "none"
NoFrame == [image |-> None, params |-> None, redraw |-> TRUE, null |-> TRUE]

Assumption == None \notin Params \cup Images

VARIABLES
  ctx,            (* struct mpv_render_context; whether it is "set" for new*)
                  (* VOs, "locked" by uninit(), "alive".  The counters are *)
                  (* kept as what they are compared for: flip_count > 0 is *)
                  (* "reports"; and while the VO shows a frame, ~redrawing *)
                  (* and expected_flip_count > flip_count is "expects"     *)
  work,           (* synchronous calls in ctx->dispatch                    *)
  asleep,         (* who waits for ctx->video_wait                         *)
  signalled,      (* update() since the last mpv_render_context_update()   *)
  renderer,       (* the format that the render backend is configured for  *)
  user,           (* the render thread: "wants" to render, has a "frame",  *)
                  (* and "waits": wait_present_count > present_count       *)
  vo_thread,      (* what it does, and in->current_frame                   *)
  player,         (* the core: what it does with the VO, and do_kill()     *)
  decoder,        (* what it does, and the image it made                   *)
  images          (* dr_in_flight: images of dr_helper                     *)

vars == <<ctx, work, asleep, signalled, renderer, user, vo_thread, player, decoder,
          images>>

Init ==
  /\ \E advanced_control \in BOOLEAN :
       ctx = [advanced_control |-> advanced_control, set |-> TRUE, in_use |-> FALSE,
              vo |-> FALSE, next_frame |-> NoFrame, cur_frame |-> NoFrame,
              expects |-> FALSE, reports |-> FALSE,
              img_params |-> None, need_reconfig |-> FALSE, interrupted |-> FALSE, locked |-> FALSE, alive |-> TRUE]
  /\ work = {} /\ asleep = {} /\ signalled = TRUE
  /\ renderer = None
  /\ user = [pc |-> "idle", wants |-> FALSE, frame |-> NoFrame, waits |-> FALSE]
  /\ vo_thread = [pc |-> "none", current |-> None]
  /\ player = [pc |-> "none", kill |-> FALSE]
  /\ decoder = [pc |-> "idle", image |-> None] /\ images = {}

Held == {vo_thread.current, ctx.next_frame.image, ctx.cur_frame.image, user.frame.image,
         decoder.image}

(* Whoever drops the last reference to an image puts it into the queue,    *)
(* which calls update().                                                   *)
Dropped == \E i \in images : i \in Held /\ i \notin Held'
Signals == signalled' = (signalled \/ Dropped)

VOIs(pc) == vo_thread.pc = pc
VOTo(pc) == vo_thread' = [vo_thread EXCEPT !.pc = pc]
UserIs(pc) == user.pc = pc /\ ctx.alive
UserTo(pc) == user' = [user EXCEPT !.pc = pc]
-----------------------------------------------------------------------------
(* The VO thread.                                                          *)

(* preinit(), after the context was acquired                               *)
Preinit ==
  /\ VOIs("preinit") /\ VOTo("idle")
  /\ ctx' = [ctx EXCEPT !.vo = TRUE]
  /\ UNCHANGED <<work, asleep, signalled, renderer, user, player, decoder, images>>

(* run_reconfig() of vo.c with reconfig()                                  *)
Reconfig(params) ==
  /\ VOIs("idle") /\ player.pc = "playing"
  /\ ctx' = [ctx EXCEPT !.cur_frame = NoFrame, !.img_params = params, !.need_reconfig = TRUE]
  /\ vo_thread' = [vo_thread EXCEPT !.current = None]
  /\ asleep' = {}
  /\ UNCHANGED <<work, renderer, user, player, decoder, images>>
  /\ Signals

(* control(): forget_frames() for VOCTRL_RESET                             *)
Reset ==
  /\ VOIs("idle") /\ asleep' = {}
  /\ UNCHANGED <<ctx, work, signalled, renderer, user, vo_thread, player, decoder, images>>

(* draw_frame() with a new frame, or with the current one, or an empty one,*)
(* again; a redraw of a frame that was dropped is not marked as one.       *)
Draw(image, redraw) ==
  /\ VOIs("idle") /\ ctx.img_params # None
  /\ vo_thread' = [pc |-> "update", current |-> image]
  /\ ctx' = [ctx EXCEPT
       !.next_frame = [image |-> image, params |-> ctx.img_params,
                       redraw |-> redraw \/ image = None, null |-> FALSE],
       !.expects = ~(redraw \/ image = None)]
  /\ UNCHANGED <<work, asleep, renderer, user, player, images>>
DrawNew ==
  /\ decoder.pc = "has" /\ decoder' = [pc |-> "idle", image |-> None]
  /\ Draw(decoder.image, FALSE) /\ Signals
Redraw ==
  /\ \E redraw \in BOOLEAN : Draw(vo_thread.current, redraw)
  /\ UNCHANGED <<decoder, signalled>>

Update ==
  /\ VOIs("update") /\ VOTo("flip") /\ signalled' = TRUE
  /\ UNCHANGED <<ctx, work, asleep, renderer, user, player, decoder, images>>

(* flip_page(): the frame was rendered, and may be presented.              *)
Presents ==
  LET waits == ctx.reports /\ ctx.expects
  IN /\ user' = [user EXCEPT !.waits = FALSE]
     /\ VOTo(IF waits THEN "swap" ELSE "idle")
     /\ asleep' = IF waits THEN {"vo"} ELSE {}
     /\ ctx' = [ctx EXCEPT !.expects = waits]

(* It was not: present_count += 2.                                         *)
DropsFrame ==
  /\ user' = [user EXCEPT !.waits = FALSE]
  /\ ctx' = [ctx EXCEPT !.cur_frame = ctx.next_frame,
                        !.next_frame = NoFrame, !.expects = FALSE]
  /\ VOTo("idle") /\ asleep' = {}

Flip ==
  /\ VOIs("flip") /\ "vo" \notin asleep
  /\ IF ctx.next_frame # NoFrame
     THEN asleep' = asleep \cup {"vo"} /\ UNCHANGED <<ctx, vo_thread, user>>
     ELSE Presents
  /\ UNCHANGED <<work, signalled, renderer, player, decoder, images>>

(* The timeout of flip_page() may have been reached when it starts to wait.*)
(* When it gets the lock back, the frame may have been rendered just now.  *)
JustGivesUp ==                                       (* mutant of TimesOut *)
  IF ctx.next_frame # NoFrame THEN DropsFrame
  ELSE VOTo("idle") /\ asleep' = asleep \ {"vo"} /\ UNCHANGED <<ctx, user>>
TimesOut == IF ctx.next_frame # NoFrame THEN DropsFrame ELSE Presents
FlipTimeout ==
  /\ VOIs("flip") /\ TimesOut
  /\ UNCHANGED <<work, renderer, player, decoder, images>>
  /\ Signals

Swapped ==
  /\ VOIs("swap") /\ "vo" \notin asleep
  /\ IF ctx.expects THEN asleep' = asleep \cup {"vo"} /\ UNCHANGED vo_thread
     ELSE VOTo("idle") /\ UNCHANGED asleep
  /\ UNCHANGED <<ctx, work, signalled, renderer, user, player, decoder, images>>

SwapTimeout ==
  /\ VOIs("swap")
  /\ VOTo("idle") /\ asleep' = asleep \ {"vo"} /\ ctx' = [ctx EXCEPT !.expects = FALSE]
  /\ UNCHANGED <<work, signalled, renderer, user, player, decoder, images>>

(* VOCTRL_SCREENSHOT, on the render thread                                 *)
Screenshot ==
  /\ VOIs("idle") /\ ctx.advanced_control /\ player.pc = "playing"
  /\ work' = work \cup {"screenshot"} /\ signalled' = TRUE /\ VOTo("shot")
  /\ UNCHANGED <<ctx, asleep, renderer, user, player, decoder, images>>

(* The end of vo_thread(), and uninit() in two steps under ctx->lock       *)
Terminate ==
  /\ VOIs("idle") /\ player.pc = "vo"
  /\ vo_thread' = [pc |-> "uninit", current |-> None]
  /\ UNCHANGED <<ctx, work, asleep, renderer, user, player, decoder, images>>
  /\ Signals

Uninit ==
  /\ VOIs("uninit") /\ VOTo("interrupt")
  /\ ctx' = [ctx EXCEPT !.cur_frame = NoFrame, !.img_params = None, !.vo = FALSE,
                        !.need_reconfig = TRUE, !.in_use = FALSE, !.locked = TRUE]
  /\ asleep' = {}
  /\ UNCHANGED <<work, renderer, user, player, decoder, images>>
  /\ Signals

Interrupt ==
  /\ VOIs("interrupt") /\ VOTo("gone")
  /\ ctx' = [ctx EXCEPT !.interrupted = TRUE, !.locked = FALSE]
  /\ UNCHANGED <<work, asleep, signalled, renderer, user, player, decoder, images>>
-----------------------------------------------------------------------------
(* The player core and its other threads.                                  *)

(* mp_client_api_acquire_render_context() of a new VO                      *)
CreateVO ==
  /\ player.pc = "none" /\ ctx.set /\ ~ctx.in_use
  /\ ctx' = [ctx EXCEPT !.in_use = TRUE]
  /\ VOTo("preinit") /\ player' = [player EXCEPT !.pc = "playing"]
  /\ UNCHANGED <<work, asleep, signalled, renderer, user, decoder, images>>

(* uninit_video_out(): the decoder first, then the VO                      *)
StopVideo ==
  /\ player.pc = "playing" /\ ~VOIs("preinit")
  /\ player' = [player EXCEPT !.pc = "decoder"]
  /\ UNCHANGED <<ctx, work, asleep, signalled, renderer, user, vo_thread, decoder, images>>

StopDecoder ==
  /\ player.pc = "decoder" /\ decoder.pc # "asks"
  /\ player' = [player EXCEPT !.pc = "vo"]
  /\ decoder' = [pc |-> "idle", image |-> None]
  /\ UNCHANGED <<ctx, work, asleep, renderer, user, vo_thread, images>>
  /\ Signals

VOGone ==
  /\ player.pc = "vo" /\ VOIs("gone") /\ VOTo("none")
  /\ player' = [player EXCEPT !.pc = "none"]
  /\ UNCHANGED <<ctx, work, asleep, signalled, renderer, user, decoder, images>>

(* do_kill(), if there is no VO                                            *)
NothingToKill ==
  /\ player.kill /\ player.pc = "none"
  /\ player' = [player EXCEPT !.kill = FALSE]
  /\ UNCHANGED <<ctx, work, asleep, signalled, renderer, user, vo_thread, decoder, images>>

(* dr_helper_get_image(), or an image of the decoder's own                 *)
Unused == Images \ (images \cup Held)
Decode ==
  /\ player.pc = "playing" /\ ~VOIs("preinit") /\ decoder.pc = "idle" /\ Unused # {}
  /\ IF ctx.advanced_control
     THEN /\ decoder' = [decoder EXCEPT !.pc = "asks"]
          /\ work' = work \cup {"get_image"} /\ signalled' = TRUE
     ELSE /\ \E i \in Unused : decoder' = [pc |-> "has", image |-> i]
          /\ UNCHANGED <<work, signalled>>
  /\ UNCHANGED <<ctx, asleep, renderer, user, vo_thread, player, images>>
-----------------------------------------------------------------------------
(* The render thread.                                                      *)

Queued == work # {} \/ images \ Held # {}

(* mp_dispatch_queue_process() with sync_get_image(), dr_thread_free() and *)
(* run_control_on_render_thread()                                          *)
Process ==
  /\ work' = {}
  /\ IF "get_image" \in work
     THEN \E i \in Images \ ((images \cap Held) \cup Held) :
            /\ decoder' = [pc |-> "has", image |-> i]
            /\ images' = (images \cap Held) \cup {i}
     ELSE images' = images \cap Held /\ UNCHANGED decoder
  /\ VOTo(IF "screenshot" \in work THEN "idle" ELSE vo_thread.pc)

(* mpv_render_context_update()                                             *)
UpdateContext ==
  /\ UserIs("idle") /\ Process /\ UserTo("check") /\ signalled' = FALSE
  /\ ctx' = [ctx EXCEPT !.interrupted = FALSE]
  /\ UNCHANGED <<asleep, renderer, player>>
HasFrame ==
  /\ UserIs("check") /\ ~ctx.locked
  /\ user' = [user EXCEPT !.pc = "idle", !.wants = ctx.next_frame # NoFrame]
  /\ UNCHANGED <<ctx, work, asleep, signalled, renderer, vo_thread, player, decoder, images>>

(* mpv_render_context_render(), with or without BLOCK_FOR_TARGET_TIME      *)
ReconfigNever == FALSE                        (* mutant of NeedsReconfig   *)
NeedsReconfig == ctx.need_reconfig
Render(block) ==
  /\ UserIs("idle") /\ ~ctx.locked
  /\ LET new == ctx.next_frame # NoFrame
         frame == IF new THEN ctx.next_frame ELSE ctx.cur_frame IN
     /\ user' = [pc |-> "render", wants |-> FALSE, frame |-> frame,
                 waits |-> new /\ ~frame.redraw /\ block]
     /\ ctx' = [ctx EXCEPT !.next_frame = NoFrame, !.cur_frame = frame,
                           !.need_reconfig = FALSE]
     /\ asleep' = IF new THEN {} ELSE asleep
  /\ renderer' = IF NeedsReconfig THEN ctx.img_params ELSE renderer
  /\ UNCHANGED <<work, vo_thread, player, decoder, images>>
  /\ Signals

Rendered ==
  /\ UserIs("render")
  /\ user' = [user EXCEPT !.pc = "present", !.frame = NoFrame]
  /\ UNCHANGED <<ctx, work, asleep, renderer, vo_thread, player, decoder, images>>
  /\ Signals

Present ==
  /\ UserIs("present") /\ ~ctx.locked /\ "user" \notin asleep
  /\ IF user.waits THEN asleep' = asleep \cup {"user"} /\ UNCHANGED user
     ELSE UserTo("idle") /\ UNCHANGED asleep
  /\ UNCHANGED <<ctx, work, signalled, renderer, vo_thread, player, decoder, images>>

ReportSwap ==
  /\ UserIs("idle") /\ ~ctx.locked
  /\ ctx' = [ctx EXCEPT !.reports = TRUE, !.expects = FALSE] /\ asleep' = {}
  /\ UNCHANGED <<work, signalled, renderer, user, vo_thread, player, decoder, images>>

(* mpv_render_context_free(): no VO can acquire the context any more; the  *)
(* one that has it is killed, and the queue processed meanwhile.           *)
Free ==
  /\ UserIs("idle") /\ UserTo("kill")
  /\ ctx' = [ctx EXCEPT !.set = FALSE]
  /\ UNCHANGED <<work, asleep, signalled, renderer, vo_thread, player, decoder, images>>
Kill ==
  /\ UserIs("kill") /\ UserTo(IF ctx.in_use THEN "free" ELSE "barrier")
  /\ player' = [player EXCEPT !.kill = ctx.in_use]
  /\ UNCHANGED <<ctx, work, asleep, signalled, renderer, vo_thread, decoder, images>>

(* while (in_use) mp_dispatch_queue_process(dispatch, INFINITY)            *)
InUse ==
  /\ UserIs("free") /\ UserTo(IF ctx.in_use THEN "process" ELSE "barrier")
  /\ UNCHANGED <<ctx, work, asleep, signalled, renderer, vo_thread, player, decoder, images>>
FreeProcess ==
  /\ UserIs("process") /\ (Queued \/ ctx.interrupted) /\ Process /\ UserTo("free")
  /\ ctx' = [ctx EXCEPT !.interrupted = FALSE]
  /\ UNCHANGED <<asleep, signalled, renderer, player>>

(* The barrier, and the destruction of the context                         *)
NoBarrier == TRUE                                     (* mutant of Barrier *)
Barrier == ~ctx.locked
Destroy ==
  /\ UserIs("barrier") /\ Barrier
  /\ ctx' = [ctx EXCEPT !.cur_frame = NoFrame, !.alive = FALSE]
  /\ work' = {}
  /\ UNCHANGED <<asleep, signalled, renderer, user, vo_thread, player, decoder>>
  /\ images' = images \cap Held'
-----------------------------------------------------------------------------
VO ==
  \/ Preinit \/ \E params \in Params : Reconfig(params)
  \/ Reset \/ DrawNew \/ Redraw \/ Update \/ Flip \/ FlipTimeout \/ Swapped \/ SwapTimeout
  \/ Screenshot \/ Terminate \/ Uninit \/ Interrupt

Core == CreateVO \/ StopVideo \/ StopDecoder \/ VOGone \/ NothingToKill \/ Decode

User ==
  \/ UpdateContext \/ HasFrame \/ Rendered \/ Present \/ ReportSwap
  \/ \E block \in BOOLEAN : Render(block)
  \/ Free \/ Kill \/ InUse \/ FreeProcess \/ Destroy

Next == VO \/ Core \/ User

Spec == Init /\ [][Next]_vars
-----------------------------------------------------------------------------
Frame == [image : Images \cup {None}, params : Params \cup {None}, redraw : BOOLEAN,
          null : BOOLEAN]

Context ==
  [advanced_control : BOOLEAN, set : BOOLEAN, in_use : BOOLEAN, vo : BOOLEAN,
   next_frame : Frame, cur_frame : Frame, expects : BOOLEAN, reports : BOOLEAN,
   img_params : Params \cup {None}, need_reconfig : BOOLEAN, interrupted : BOOLEAN,
   locked : BOOLEAN, alive : BOOLEAN]

UserStates ==
  [pc : {"idle", "check", "render", "present", "kill", "free", "process", "barrier"},
   wants : BOOLEAN, frame : Frame, waits : BOOLEAN]
VOStates ==
  [pc : {"none", "preinit", "idle", "update", "flip", "swap", "shot", "uninit", "interrupt",
         "gone"},
   current : Images \cup {None}]
PlayerStates == [pc : {"none", "playing", "decoder", "vo"}, kill : BOOLEAN]
DecoderStates == [pc : {"idle", "asks", "has"}, image : Images \cup {None}]

ThreadsOK ==
  /\ work \subseteq {"screenshot", "get_image"} /\ asleep \subseteq {"vo", "user"}
  /\ signalled \in BOOLEAN /\ renderer \in Params \cup {None}
  /\ user \in UserStates /\ vo_thread \in VOStates
  /\ player \in PlayerStates /\ decoder \in DecoderStates /\ images \subseteq Images

(* The fields keep their types; and the assertion of draw_frame() holds:   *)
(* when the VO has a frame to draw, the last one is not left over.         *)
TypeOK == ctx \in Context /\ ThreadsOK /\ (VOIs("idle") => ctx.next_frame = NoFrame)

(* The context outlives all that use it.  When it is freed, no VO has it,  *)
(* no thread waits for a call in its queue, and no image of dr_helper is   *)
(* left (dr_helper.c:31: "All references must have been freed on           *)
(* destruction, or we'll have dangling pointers").                         *)
ContextKept ==
  ~ctx.alive =>
    /\ vo_thread.pc \in {"none", "gone"} /\ ~ctx.in_use /\ ~ctx.vo
    /\ work = {} /\ decoder.pc # "asks" /\ images = {}

(* A frame is rendered by a renderer that was configured for its format,   *)
(* though the VO may be configured again or destroyed meanwhile.           *)
RightFormat ==
  user.pc = "render" /\ user.frame.image # None => renderer = user.frame.params

(* Nobody waits for what will not come.  A frame and what is in the queue  *)
(* have been announced with update(), unless the context is being freed,   *)
(* which processes the queue itself.  mpv_render_context_render() waits    *)
(* without a timeout, but only for a VO thread that is about to present    *)
(* the frame, or to give it up.  And mpv_render_context_free() only waits  *)
(* in the queue if there is something in it, if the VO will interrupt it,  *)
(* or has done so; and a VO that still uses the context is being ended.    *)
Answered ==
  /\ VOIs("flip") /\ ctx.next_frame # NoFrame => signalled \/ user.wants \/ user.pc = "check"
  /\ Queued => signalled \/ ~ctx.set
  /\ "user" \in asleep => user.waits /\ vo_thread.pc \in {"update", "flip"}
  /\ user.pc = "process" =>
       ctx.in_use \/ VOIs("interrupt") \/ ctx.interrupted \/ Queued
  /\ user.pc \in {"free", "process"} /\ ctx.in_use =>
       player.kill \/ player.pc \in {"decoder", "vo"}

(* What vo_libmpv.c owes to the application and to the player.             *)
Sound == ContextKept /\ RightFormat /\ Answered
=============================================================================
