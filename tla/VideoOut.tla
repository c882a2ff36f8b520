------------------------------ MODULE VideoOut ------------------------------
(***************************************************************************)
(* video/out/vo.c: the VO thread shows the frames that the player core     *)
(* queues one at a time, and wakes up the core when it can take the next   *)
(* one, when its timer has expired, or when it is done with a frame.       *)
(*                                                                         *)
(* "in" is what in->lock protects, "vo" the VO thread, "core" the player.  *)
(* A step of the VO thread is one critical section or one wait.  A frame   *)
(* is shown at a time (pts, duration), or display-synced for a number of   *)
(* vsyncs.  The clock ticks between any two steps.                         *)
(*                                                                         *)
(* The driver has no capability flags and uses vo_wait_default(); a vsync  *)
(* interval is known, and there are too few frames for the estimation of   *)
(* it to begin.                                                            *)
(***************************************************************************)
EXTENDS Integers, Sequences

CONSTANTS
  Kinds,          (* frames: [display_synced, num_vsyncs, duration, can_drop] *)
  Commands,       (* what the core may do besides showing frames           *)
  RedrawInterval, (* least time between two redraws                        *)
  MaxTime, MaxFrames, MaxCommands     (* bounds                            *)

None == [id |-> 0]
Never == MaxTime + RedrawInterval + 1

VideoOutAssumption ==
  /\ Kinds \subseteq [display_synced : BOOLEAN, num_vsyncs : Nat,
                      duration : Nat \cup {-1}, can_drop : BOOLEAN]
  /\ Commands \subseteq {"seek", "pause", "redraw", "done", "wait", "reconfig", "destroy"}
  /\ {RedrawInterval, MaxTime, MaxFrames, MaxCommands} \subseteq Nat /\ MaxTime > 0

VARIABLES in, vo, core, now,
  commands,     (* bound counter                                           *)
  shown,        (* history: how often frame n is still to be drawn         *)
  mark          (* history: last frame queued before the last reset        *)

vars == <<in, vo, core, now, commands, shown, mark>>

(* The VO thread at the start of an iteration                              *)
Iteration(previous_redraw_time, want_redraw) ==
  [pc |-> "dispatch", working |-> FALSE, now |-> 0, wait_until |-> 0, redraw |-> FALSE,
   wakeup_on_done |-> FALSE, wakeup_core_after |-> 0, can_queue |-> FALSE, target |-> 0,
   previous_redraw_time |-> previous_redraw_time, want_redraw |-> want_redraw]

Init ==
  /\ in = [need_wakeup |-> FALSE, hasframe |-> FALSE, hasframe_rendered |-> FALSE,
           request_redraw |-> FALSE, want_redraw |-> FALSE, paused |-> FALSE,
           wakeup_on_done |-> FALSE, current_frame |-> None, frame_queued |-> None,
           wakeup_pts |-> 0, rendering |-> FALSE, dropped_frame |-> FALSE,
           base_vsync |-> FALSE, expecting_vsync |-> FALSE, config_ok |-> FALSE]
  /\ vo = Iteration(0, FALSE)
  /\ core = [pc |-> "idle", woken |-> TRUE, request |-> "none",
             promised |-> "none", pts |-> 0, frames |-> 0]
  /\ now = 1 /\ commands = 0 /\ shown = <<>> /\ mark = 0

Larger(a, b) == IF a > b THEN a ELSE b
Smaller(a, b) == IF a < b THEN a ELSE b

(* reset_vsync_timings()                                                   *)
reset_vsync_timings(i) == [i EXCEPT !.base_vsync = FALSE, !.expecting_vsync = FALSE]

(* forget_frames()                                                         *)
NoRepeats(frame) == [frame EXCEPT !.num_vsyncs = 0, !.display_synced = FALSE]

forget_current(i) ==                              (* mutant of forget_frames *)
  [i EXCEPT !.hasframe = FALSE, !.hasframe_rendered = FALSE,
            !.current_frame = IF @ = None THEN None ELSE NoRepeats(@)]
forget_frames(i) ==
  [i EXCEPT !.hasframe = FALSE, !.hasframe_rendered = FALSE, !.frame_queued = None,
            !.current_frame = IF @ = None THEN None ELSE NoRepeats(@)]

NoWakeup(i) == i                            (* mutant of wakeup_locked *)
wakeup_locked(i) == [i EXCEPT !.need_wakeup = TRUE]

get_current_frame_end ==
  LET f == in.current_frame IN
  IF f = None THEN -1 ELSE f.pts + Larger(f.duration, 0)

(* still_displaying(): a display-synced frame by its vsyncs, else by time. *)
still_displaying ==
  /\ in.hasframe
  /\ \/ in.rendering \/ in.frame_queued # None
     \/ IF in.base_vsync /\ in.current_frame # None /\ in.current_frame.display_synced
        THEN in.current_frame.num_vsyncs > 0
        ELSE now < get_current_frame_end

(* vo_is_ready_for_frame() without the timer                               *)
HasRoom == /\ in.config_ok /\ in.frame_queued = None
           /\ in.current_frame # None => in.current_frame.num_vsyncs < 1

ReadyEarly(pts) ==                                     (* mutant of Ready *)
  in.config_ok /\ in.frame_queued = None /\ pts <= now
Ready(pts) == HasRoom /\ pts <= now

-----------------------------------------------------------------------------
(* The player core.  A promise of the VO ends with the next wakeup, or     *)
(* when the core changes the state itself.                                 *)

Idle == core.pc = "idle" /\ now < MaxTime

(* vo_is_ready_for_frame(); pts is -1 to disable timing                    *)
IsReady(pts) ==
  /\ Idle /\ core.frames < MaxFrames /\ core.woken
  /\ LET r == Ready(pts)
         timer == HasRoom /\ pts >= 0 /\ (in.wakeup_pts = 0 \/ pts < in.wakeup_pts)
         i == [in EXCEPT !.wakeup_pts = IF timer THEN pts ELSE @] IN
     /\ in' = IF timer /\ ~r THEN wakeup_locked(i) ELSE i
     /\ core' = [core EXCEPT !.pc = IF r THEN "queue" ELSE "idle", !.woken = r,
                             !.promised = IF r THEN "none" ELSE "ready", !.pts = pts]
  /\ UNCHANGED <<vo, now, commands, shown, mark>>

(* vo_queue_frame(), after vo_is_ready_for_frame() has returned TRUE       *)
Queue(kind) ==
  /\ core.pc = "queue"
  /\ LET frame == [id |-> core.frames + 1, pts |-> IF core.pts < 0 THEN now ELSE core.pts,
                   duration |-> kind.duration, num_vsyncs |-> kind.num_vsyncs,
                   display_synced |-> kind.display_synced, can_drop |-> kind.can_drop] IN
     /\ frame.pts + kind.duration <= MaxTime
     /\ in' = wakeup_locked(
                [in EXCEPT !.hasframe = TRUE, !.frame_queued = frame,
                           !.wakeup_pts = IF frame.display_synced THEN 0
                                          ELSE frame.pts + Larger(frame.duration, 0)])
  /\ core' = [core EXCEPT !.pc = "idle", !.frames = @ + 1]
  /\ shown' = Append(shown, Larger(kind.num_vsyncs, 1))
  /\ UNCHANGED <<vo, now, commands, mark>>

Command(c) ==
  /\ Idle /\ c \in Commands /\ commands < MaxCommands
  /\ commands' = commands + 1
  /\ UNCHANGED <<vo, now, shown>>

(* vo_seek_reset()                                                         *)
SeekReset ==
  /\ Command("seek")
  /\ in' = wakeup_locked(reset_vsync_timings(forget_frames(in)))
  /\ core' = [core EXCEPT !.promised = "none", !.woken = TRUE]
  /\ mark' = core.frames

(* vo_set_paused()                                                         *)
SetPaused ==
  /\ Command("pause")
  /\ in' = wakeup_locked(reset_vsync_timings(
             [in EXCEPT !.paused = ~@,
                        !.request_redraw = @ \/ (~in.paused /\ in.dropped_frame)]))
  /\ core' = [core EXCEPT !.woken = @ \/ (~in.paused /\ in.dropped_frame)]
  /\ UNCHANGED mark

(* vo_redraw()                                                             *)
Redraw ==
  /\ Command("redraw")
  /\ in' = IF in.request_redraw THEN in
           ELSE wakeup_locked([in EXCEPT !.request_redraw = TRUE, !.want_redraw = FALSE])
  /\ UNCHANGED <<core, mark>>

(* vo_request_wakeup_on_done()                                             *)
RequestDone ==
  /\ Command("done") /\ core.woken
  /\ in' = [in EXCEPT !.wakeup_on_done = @ \/ still_displaying]
  /\ core' = [core EXCEPT !.woken = ~still_displaying,
                          !.promised = IF still_displaying THEN "done" ELSE "none"]
  /\ UNCHANGED mark

(* vo_wait_frame()                                                         *)
WaitFrame ==
  /\ Command("wait")
  /\ core' = [core EXCEPT !.pc = "wait"]
  /\ UNCHANGED <<in, mark>>

WaitFrameReturns ==
  /\ core.pc = "wait" /\ in.frame_queued = None /\ ~in.rendering
  /\ core' = [core EXCEPT !.pc = "idle"]
  /\ UNCHANGED <<in, vo, now, commands, shown, mark>>

(* vo_reconfig() and vo_destroy(): mp_dispatch_run() on the VO thread      *)
Dispatch(request) ==
  /\ core' = [core EXCEPT !.pc = "run", !.request = request, !.promised = "none",
                          !.woken = TRUE]
  /\ in' = wakeup_locked(in)

Reconfig == Idle /\ ~in.config_ok /\ Dispatch("reconfig")
                 /\ UNCHANGED <<vo, now, commands, shown, mark>>
ReconfigAgain == Command("reconfig") /\ Dispatch("reconfig") /\ UNCHANGED mark
Destroy == Command("destroy") /\ Dispatch("destroy") /\ UNCHANGED mark

-----------------------------------------------------------------------------
(* The VO thread *)

wakeup_core(if) == core' = [core EXCEPT !.woken = @ \/ if]

(* mp_dispatch_queue_process() with run_reconfig() or terminate_vo(), and  *)
(* VOCTRL_CHECK_EVENTS, in which the driver may want a redraw              *)
ProcessDispatch ==
  /\ vo.pc = "dispatch"
  /\ CASE core.request = "none" -> UNCHANGED <<in, core, mark>>
       [] core.request = "reconfig" ->
            /\ \E ok \in BOOLEAN :
                 in' = reset_vsync_timings(forget_frames(
                         [in EXCEPT !.config_ok = ok, !.current_frame = None]))
            /\ core' = [core EXCEPT !.pc = "idle", !.request = "none"]
            /\ mark' = core.frames
       [] core.request = "destroy" ->
            /\ in' = [forget_frames(in) EXCEPT !.current_frame = None]
            /\ core' = [core EXCEPT !.pc = "gone", !.request = "none"]
            /\ mark' = core.frames
  /\ \E exposed \in BOOLEAN :
       vo' = [vo EXCEPT !.pc = IF core.request = "destroy" THEN "exited" ELSE "render",
                        !.want_redraw = @ \/ exposed]
  /\ UNCHANGED <<now, commands, shown>>

Drawn(f) == shown' = [shown EXCEPT ![f.id] = @ - 1]

(* A new frame, or the next vsync of the current one                       *)
RepeatsAlways(f) == in.hasframe /\ f.display_synced   (* mutant of Repeats *)
Repeats(f) == ~in.paused /\ in.hasframe /\ f.display_synced /\ f.num_vsyncs >= 1

Used(f) == [f EXCEPT !.num_vsyncs = Larger(@ - 1, 0)]

(* What follows the drawing in the same critical section                   *)
Finish(i) ==
  LET f == i.current_frame
      more == \/ f # None /\ f.num_vsyncs > 0 /\ f.display_synced
              \/ i.frame_queued # None /\ i.frame_queued.display_synced IN
  /\ in' = [i EXCEPT !.request_redraw = @ /\ i.frame_queued = None]
  /\ vo' = [vo EXCEPT !.pc = "after", !.working = more, !.can_queue = FALSE, !.target = 0]

(* render_frame() has nothing to do.                                       *)
RenderNothing ==
  /\ vo.pc = "render" /\ in.frame_queued = None
  /\ in.current_frame # None => ~Repeats(in.current_frame)
  /\ vo' = [vo EXCEPT !.pc = "after", !.working = FALSE]
  /\ UNCHANGED <<in, core, now, commands, shown, mark>>

(* The first critical section of render_frame(), up to draw_frame().       *)
(* recent: the last vsync was less than 100 ms ago.                        *)
Render ==
  /\ vo.pc = "render"
  /\ in.frame_queued # None \/ (in.current_frame # None /\ Repeats(in.current_frame))
  /\ \E recent \in BOOLEAN :
       LET f == IF in.frame_queued # None THEN in.frame_queued ELSE in.current_frame
           late == /\ f.duration >= 0 /\ f.pts + f.duration < now /\ f.can_drop
                   /\ recent /\ in.hasframe_rendered
           drop == ~in.paused /\ IF f.display_synced THEN f.num_vsyncs < 1 ELSE late
           use_vsync == f.display_synced /\ ~in.paused
           i == [in EXCEPT !.current_frame = Used(f), !.frame_queued = None,
                           !.dropped_frame = drop, !.expecting_vsync = use_vsync] IN
       /\ Drawn(f)
       /\ IF drop
          THEN Finish(i) /\ wakeup_core(TRUE)
          ELSE /\ in' = [i EXCEPT !.rendering = TRUE, !.hasframe_rendered = TRUE,
                                  !.request_redraw = FALSE]
               /\ vo' = [vo EXCEPT !.pc = "draw",
                           !.can_queue = Used(f).num_vsyncs < 1 \/ ~use_vsync,
                           !.target = IF f.display_synced THEN 0 ELSE f.pts]
               /\ UNCHANGED core
  /\ UNCHANGED <<now, commands, mark>>

(* wakeup_core() and draw_frame()                                          *)
CanQueue == vo.can_queue

Draw ==
  /\ vo.pc = "draw"
  /\ wakeup_core(CanQueue)
  /\ vo' = [vo EXCEPT !.pc = "flip"]
  /\ UNCHANGED <<in, now, commands, shown, mark>>

(* wait_until(), flip_page() and the second critical section; the driver   *)
(* may have reported drops.                                                *)
FlipPage ==
  /\ vo.pc = "flip" /\ now >= vo.target
  /\ \E dropped \in BOOLEAN :
       LET i == [in EXCEPT !.rendering = FALSE, !.dropped_frame = dropped] IN
       Finish(IF i.expecting_vsync THEN [i EXCEPT !.base_vsync = TRUE]
              ELSE reset_vsync_timings(i))
  /\ UNCHANGED <<core, now, commands, shown, mark>>

(* The critical section of vo_thread() after rendering                     *)
Done == ~vo.working /\ ~in.rendering /\ in.frame_queued = None /\ in.wakeup_on_done

AfterRender ==
  /\ vo.pc = "after"
  /\ LET expired == in.wakeup_pts > 0 /\ in.wakeup_pts <= now
           i == [in EXCEPT !.want_redraw = @ \/ vo.want_redraw,
                           !.wakeup_on_done = @ /\ ~Done,
                           !.wakeup_pts = IF expired THEN 0 ELSE @] IN
       /\ in' = i
       /\ wakeup_core(expired \/ vo.want_redraw)
       /\ vo' = [vo EXCEPT
            !.pc = "act", !.now = now, !.want_redraw = FALSE, !.redraw = in.request_redraw,
            !.wait_until = IF vo.working THEN now
                           ELSE IF in.wakeup_pts > now THEN Smaller(in.wakeup_pts, Never)
                           ELSE Never,
            !.wakeup_on_done = Done,
            !.wakeup_core_after = IF Done THEN Larger(get_current_frame_end, 0) ELSE 0]
  /\ UNCHANGED <<now, commands, shown, mark>>

(* The branches that follow.  do_redraw() only draws if configured.  A     *)
(* VOCTRL may have made the driver want a redraw.                          *)
Act ==
  /\ vo.pc = "act"
  /\ LET asleep == vo.wait_until > vo.now IN
     IF asleep /\ vo.redraw
     THEN IF vo.previous_redraw_time + RedrawInterval <= vo.now
          THEN /\ vo' = Iteration(vo.now, vo.want_redraw)
               /\ in' = IF ~in.config_ok THEN in
                        ELSE [in EXCEPT !.request_redraw = FALSE,
                                        !.dropped_frame = @ /\ in.current_frame = None]
          ELSE /\ vo' = [vo EXCEPT !.pc = "wait", !.wait_until = vo.now + RedrawInterval,
                                   !.wakeup_on_done = FALSE]
               /\ UNCHANGED in
     ELSE /\ \E exposed \in BOOLEAN :
               vo' = IF ~asleep \/ exposed
                     THEN Iteration(vo.previous_redraw_time, exposed)
                     ELSE [vo EXCEPT !.pc = IF vo.wakeup_on_done THEN "waitdone" ELSE "wait"]
          /\ UNCHANGED in
  /\ UNCHANGED <<core, now, commands, shown, mark>>

(* wait_vo() until the frame is done, and the wakeup that was asked for    *)
WaitDone ==
  /\ vo.pc = "waitdone"
  /\ IF vo.wait_until >= vo.wakeup_core_after
     THEN /\ in.need_wakeup \/ now >= vo.wakeup_core_after
          /\ in' = [in EXCEPT !.need_wakeup = TRUE]
     ELSE UNCHANGED in
  /\ wakeup_core(TRUE)
  /\ vo' = [vo EXCEPT !.pc = "wait"]
  /\ UNCHANGED <<now, commands, shown, mark>>

(* wait_vo(): the wait, and the critical section that ends it              *)
Wait ==
  /\ vo.pc = "wait" /\ (in.need_wakeup \/ now >= vo.wait_until)
  /\ vo' = [vo EXCEPT !.pc = "waited"]
  /\ UNCHANGED <<in, core, now, commands, shown, mark>>

Waited ==
  /\ vo.pc = "waited"
  /\ in' = [in EXCEPT !.need_wakeup = FALSE]
  /\ vo' = Iteration(vo.previous_redraw_time, vo.want_redraw)
  /\ UNCHANGED <<core, now, commands, shown, mark>>

Tick == now < MaxTime /\ now' = now + 1 /\ UNCHANGED <<in, vo, core, commands, shown, mark>>

-----------------------------------------------------------------------------
VOThread == \/ ProcessDispatch \/ RenderNothing \/ Render \/ Draw \/ FlipPage
            \/ AfterRender \/ Act \/ WaitDone \/ Wait \/ Waited

Core == \/ SeekReset \/ SetPaused \/ Redraw \/ RequestDone \/ WaitFrame
        \/ Reconfig \/ ReconfigAgain \/ Destroy
        \/ \E pts \in {-1} \cup (1 .. MaxTime) : IsReady(pts)

Next == \/ VOThread \/ Core \/ WaitFrameReturns \/ Tick
        \/ \E kind \in Kinds : Queue(kind)

(* The VO thread runs and time passes.  The core only has to return from   *)
(* a wait that is over.                                                    *)
Spec == /\ Init /\ [][Next]_vars
        /\ WF_vars(VOThread) /\ WF_vars(Tick) /\ WF_vars(WaitFrameReturns)

-----------------------------------------------------------------------------
Frame == [id : Nat \ {0}, pts : Nat, duration : Nat \cup {-1}, num_vsyncs : Nat,
          display_synced : BOOLEAN, can_drop : BOOLEAN]

(* The fields keep their types, and the assertion in vo_queue_frame()      *)
(* holds: what vo_is_ready_for_frame() found under the lock is still true  *)
(* when the core comes back with a frame.                                  *)
TypeOK ==
  /\ {in.need_wakeup, in.hasframe, in.hasframe_rendered, in.request_redraw,
      in.want_redraw, in.paused, in.wakeup_on_done, in.rendering, in.dropped_frame,
      in.base_vsync, in.expecting_vsync, in.config_ok} \subseteq BOOLEAN
  /\ {in.current_frame, in.frame_queued} \subseteq Frame \cup {None} /\ in.wakeup_pts \in Nat
  /\ vo.pc \in {"dispatch", "render", "draw", "flip", "after", "act", "waitdone", "wait",
               "waited", "exited"}
  /\ core.pc \in {"idle", "queue", "wait", "run", "gone"}
  /\ core.pc = "queue" => HasRoom
  /\ core.frames \in 0 .. MaxFrames /\ now \in 0 .. MaxTime /\ commands \in 0 .. MaxCommands

(* A frame is drawn or dropped for each of its vsyncs, before the next one *)
(* is, unless a reset comes between.                                       *)
VsyncsKept ==
  \A n \in DOMAIN shown :
    /\ shown[n] >= 0
    /\ n > mark /\ n < in.current_frame.id => shown[n] = 0

(* After vo_seek_reset() or vo_reconfig() no frame queued before is drawn  *)
(* or repeated, other than as a redraw.                                    *)
NoStaleFrame ==
  [][\A n \in DOMAIN shown : shown'[n] < shown[n] => n > mark]_vars

(* vo.c:816: "Make vo issue a wakeup once vo_still_displaying() becomes    *)
(* false."                                                                 *)
DoneTold ==
  core.promised = "done" /\ ~still_displaying
    ~> (core.woken \/ core.promised # "done" \/ still_displaying)

(* The VO thread sleeps on nothing.  vo.c:829: "If the VO is not ready     *)
(* yet, the function will return false, and the VO will call the wakeup    *)
(* callback once it's ready."  vo_wait_frame(), vo_reconfig() and          *)
(* vo_destroy() return.  vo_redraw() leads to a redraw, or to a frame      *)
(* drawn anyway, unless its time is after the end of the modelled time.    *)
Served ==
  /\ core.promised = "ready" /\ HasRoom /\ core.pts <= now
       ~> (core.woken \/ core.promised # "ready" \/ ~HasRoom)
  /\ core.pc \in {"wait", "run"} ~> core.pc \notin {"wait", "run"}
  /\ in.request_redraw /\ in.config_ok
       ~> (\/ ~in.request_redraw \/ ~in.config_ok \/ vo.pc = "exited"
           \/ vo.wait_until > MaxTime /\ vo.wait_until < Never)
=============================================================================
