---------------------------- MODULE AudioBuffer -----------------------------
(***************************************************************************)
(* audio/out/buffer.c: what lies between the player core and an audio      *)
(* driver.  The core puts audio into a queue and starts, pauses, drains    *)
(* and resets the output.  With a push driver (it has write()) the AO      *)
(* thread moves the audio to the device; a pull driver takes it with       *)
(* ao_read_data() from a thread of its own.                                *)
(*                                                                         *)
(* "p" is the buffer_state, "ao" the AO thread, "dev" the device and its   *)
(* driver, "core" the player core with the steps left of its call.  A step *)
(* is one critical section, or one driver call made without the lock.      *)
(* Samples are counted.  A timed wait may end at any time.                 *)
(***************************************************************************)
EXTENDS Integers, Sequences, FiniteSets

CONSTANTS
  Drivers,        (* kinds of AO; see DriverKind                           *)
  FrameSize,      (* samples of a frame                                    *)
  DeviceBuffer,   (* samples the device can hold                           *)
  Commands,       (* what the core may call                                *)
  MaxFrames, MaxCommands     (* bounds                                     *)

(* Which callbacks the driver has (set_pause() may fail if write() exists),*)
(* whether it is a pull driver that calls ao_stop_streaming(), the         *)
(* AO_INIT_STREAM_SILENCE flag, whether it does not run in real time, and  *)
(* whether write() may fail.                                               *)
DriverKind == [write : BOOLEAN, set_pause : BOOLEAN, reset : BOOLEAN, stops_at_eof : BOOLEAN,
               stream_silence : BOOLEAN, untimed : BOOLEAN, write_fails : BOOLEAN]

Calls == {"start", "reset", "pause", "pause_eof", "unpause", "drain", "uninit"}

ASSUME AudioBufferAssumption ==
  /\ Drivers \subseteq DriverKind
  /\ \A d \in Drivers : d.write => d.reset /\ ~d.stops_at_eof
  /\ {FrameSize, DeviceBuffer} \subseteq Nat \ {0}
  /\ Commands \subseteq Calls
  /\ {MaxFrames, MaxCommands} \subseteq Nat

VARIABLES
  driver,         (* the kind of AO that was opened                        *)
  p, ao, dev, core,
  queue,          (* the async queue: "audio" and "eof" frames             *)
  waiting,        (* the reader of the queue found it empty                *)
  frames, commands,   (* bound counters                                    *)
  owed            (* history: samples that pausing has discarded           *)

dvars == <<p, ao, dev, core, queue, waiting, frames, commands, owed>>
vars == <<dvars, driver>>

Push == driver.write
HasSetPause == driver.set_pause
HasReset == driver.reset
StopsAtEof == driver.stops_at_eof
StreamSilence == driver.stream_silence
Untimed == driver.untimed
WriteFails == driver.write_fails

Init ==
  /\ driver \in Drivers
  /\ p = [playing |-> FALSE, paused |-> FALSE, hw_paused |-> FALSE,
          streaming |-> ~Push /\ StreamSilence, recover_pause |-> FALSE, prepause |-> 0,
          pending |-> 0, need_wakeup |-> FALSE, terminate |-> FALSE]
  /\ ao = [pc |-> IF Push THEN "play" ELSE "done", retry |-> FALSE, timeout |-> FALSE]
  /\ dev = [started |-> ~Push /\ StreamSilence, paused |-> FALSE, buf |-> 0, eof |-> FALSE]
  /\ core = [todo |-> <<>>, told |-> FALSE, seen |-> FALSE]
  /\ queue = <<>> /\ waiting = FALSE
  /\ frames = 0 /\ commands = 0 /\ owed = 0

Smaller(a, b) == IF a < b THEN a ELSE b

(* ao_wakeup(); the AO thread looks at the flag                            *)
WakeupNever(i) == i                                (* mutant of ao_wakeup  *)
ao_wakeup(i) == [i EXCEPT !.need_wakeup = TRUE]

(* wakeup_cb() and the broadcast of p->wakeup, which ends a wait of drain  *)
NotifyNobody(c) == c                                   (* mutant of Notify *)
Notify(c) ==
  [c EXCEPT !.told = TRUE,
            !.todo = IF @ # <<>> /\ Head(@) = "drain_wait"
                     THEN <<"drain_check">> \o Tail(@) ELSE @]

(* The device after driver->reset()                                        *)
Silent == [started |-> FALSE, paused |-> FALSE, buf |-> 0, eof |-> FALSE]

(* read_buffer(): as much as there is, up to "samples".  An EOF is passed  *)
(* over, and reported if nothing has come after it.                        *)
read_buffer(samples) ==
  LET Audio(k) == p.pending + FrameSize * Cardinality({i \in 1 .. k : queue[i] = "audio"})
      enough == {k \in 0 .. Len(queue) : Audio(k) >= samples}
      used == IF enough = {} THEN Len(queue)
              ELSE CHOOSE k \in enough : \A j \in enough : k <= j
      pos == Smaller(samples, Audio(used)) IN
  IF p.playing /\ ~p.paused
  THEN [pos |-> pos, pending |-> Audio(used) - pos,
        queue |-> SubSeq(queue, used + 1, Len(queue)), empty |-> enough = {},
        eof |-> enough = {} /\ queue # <<>> /\ queue[Len(queue)] = "eof"]
  ELSE [pos |-> 0, pending |-> p.pending, queue |-> queue, empty |-> waiting, eof |-> FALSE]

-----------------------------------------------------------------------------
(* The player core: a call, and the steps that are left of it.             *)

At(step) == core.todo # <<>> /\ Head(core.todo) = step
Continue(steps) == [core EXCEPT !.todo = steps \o Tail(@)]
If(condition, steps) == IF condition THEN steps ELSE <<>>

(* The core adds a frame to the queue, which wakes up a reader.            *)
Feed(frame) ==
  /\ core.todo = <<>> /\ frames < MaxFrames /\ ~p.terminate
  /\ queue' = Append(queue, frame)
  /\ p' = IF Push /\ waiting THEN ao_wakeup(p) ELSE p
  /\ waiting' = FALSE /\ frames' = frames + 1
  /\ UNCHANGED <<ao, dev, core, commands, owed>>

(* The core, told that something has happened, calls ao_is_playing().      *)
Look ==
  /\ core.todo = <<>> /\ core.told
  /\ core' = [core EXCEPT !.told = FALSE, !.seen = p.playing]
  /\ UNCHANGED <<p, ao, dev, queue, waiting, frames, commands, owed>>

(* ao_is_playing() precedes ao_drain(), in the core or ao_set_paused()     *)
Call(c) ==
  /\ core.todo = <<>> /\ commands < MaxCommands /\ ~p.terminate /\ c \in Commands
  /\ c = "drain" => p.playing /\ ~p.paused
  /\ core' = [core EXCEPT !.todo =
               IF c = "pause_eof" THEN If(p.playing, <<"drain">>) \o <<"pause">> ELSE <<c>>]
  /\ commands' = commands + 1
  /\ UNCHANGED <<p, ao, dev, queue, waiting, frames, owed>>

(* ao_start()                                                              *)
DoStart == ~Push /\ ~p.paused /\ ~p.streaming
Start ==
  /\ At("start")
  /\ p' = [p EXCEPT !.playing = TRUE, !.streaming = @ \/ DoStart]
  /\ core' = [Continue(If(DoStart, <<"driver_start">>) \o <<"wakeup">>) EXCEPT !.seen = TRUE]
  /\ UNCHANGED <<ao, dev, queue, waiting, frames, commands, owed>>

(* ao_reset()                                                              *)
Reset ==
  /\ At("reset")
  /\ LET resets == ~StreamSilence /\ HasReset IN
     /\ p' = [p EXCEPT !.pending = 0, !.streaming = @ /\ ~resets, !.playing = FALSE,
                       !.recover_pause = FALSE, !.hw_paused = FALSE]
     /\ dev' = IF Push /\ resets THEN Silent ELSE dev
     /\ core' = [Continue(If(~Push /\ resets, <<"driver_reset">>) \o If(p.playing, <<"wakeup">>))
                 EXCEPT !.seen = FALSE]
  /\ queue' = <<>> /\ waiting' = FALSE /\ owed' = 0
  /\ UNCHANGED <<ao, frames, commands>>

(* ao_set_paused(): the part under the lock                                *)
RecoverNever == FALSE                                (* mutant of Recovers *)
Recovers == ~Untimed

CanPause == (p.playing \/ ~Push) /\ ~p.paused
StopsNever == FALSE                               (* mutant of StopsDriver *)
StopsDriver == CanPause /\ p.streaming /\ ~StreamSilence

PauseHw ==
  /\ StopsDriver /\ Push /\ HasSetPause
  /\ p' = [p EXCEPT !.paused = TRUE, !.hw_paused = TRUE,
                    !.prepause = IF p.recover_pause THEN @ ELSE dev.buf]
  /\ dev' = [dev EXCEPT !.paused = TRUE]
  /\ core' = Continue(<<"wakeup">>) /\ UNCHANGED owed
PauseByReset ==
  /\ StopsDriver /\ Push
  /\ p' = [p EXCEPT !.paused = TRUE, !.streaming = FALSE, !.recover_pause = Recovers,
                    !.prepause = IF p.recover_pause THEN @ ELSE dev.buf]
  /\ dev' = Silent
  /\ owed' = IF Untimed THEN owed ELSE owed + dev.buf
  /\ core' = Continue(<<"wakeup">>)
PausePull ==
  /\ StopsDriver /\ ~Push /\ (HasReset \/ HasSetPause)
  /\ p' = [p EXCEPT !.paused = TRUE, !.streaming = FALSE, !.hw_paused = HasSetPause]
  /\ core' = Continue(<<IF HasSetPause THEN "driver_pause" ELSE "driver_reset", "wakeup">>)
  /\ UNCHANGED <<dev, owed>>
PauseOnly ==
  /\ ~StopsDriver \/ (~Push /\ ~HasReset /\ ~HasSetPause)
  /\ p' = [p EXCEPT !.paused = TRUE]
  /\ core' = Continue(If(CanPause, <<"wakeup">>))
  /\ UNCHANGED <<dev, owed>>
Pause ==
  /\ At("pause")
  /\ PauseHw \/ PauseByReset \/ PausePull \/ PauseOnly
  /\ UNCHANGED <<ao, queue, waiting, frames, commands>>

Unpause ==
  /\ At("unpause")
  /\ LET resumes == p.playing /\ p.paused
         change == resumes /\ ~Push /\ ~p.streaming IN
     /\ p' = [p EXCEPT !.paused = FALSE, !.hw_paused = @ /\ ~resumes,
                       !.streaming = @ \/ (resumes /\ ~Push)]
     /\ dev' = [dev EXCEPT !.paused = @ /\ ~(resumes /\ Push /\ p.hw_paused)]
     /\ core' = Continue(
                  If(change, <<IF p.hw_paused THEN "driver_unpause" ELSE "driver_start">>)
                  \o If(resumes, <<"wakeup">>))
  /\ UNCHANGED <<ao, queue, waiting, frames, commands, owed>>

(* ao_drain(): the loop condition; unlocked, ao_get_delay(); the wait      *)
Drain ==
  /\ At("drain")
  /\ core' = Continue(IF ~p.paused /\ p.playing THEN <<"drain_delay">> ELSE <<"drained", "reset">>)
  /\ UNCHANGED <<p, ao, dev, queue, waiting, frames, commands, owed>>
DrainStep(from, to) ==
  /\ At(from)
  /\ core' = Continue(to)
  /\ UNCHANGED <<p, ao, dev, queue, waiting, frames, commands, owed>>
Restart == If(~p.playing /\ \E i \in 1 .. Len(queue) : queue[i] = "audio", <<"start">>)
DrainTimeout == DrainStep("drain_wait", <<"reset">>)
DrainLoop ==
  \/ Drain \/ DrainTimeout
  \/ DrainStep("drain_delay", <<"drain_wait">>)
  \/ DrainStep("drain_check", Restart \o <<"drain">>)
  \/ DrainStep("drained", <<>>)

(* The driver calls without the lock.  Drivers wait for their callback in  *)
(* reset(); start() also resumes.                                          *)
Driver(step) ==
  /\ At(step)
  /\ \/ step = "driver_start" /\ dev' = [dev EXCEPT !.started = TRUE, !.paused = FALSE]
     \/ step = "driver_reset" /\ ~dev.eof /\ dev' = Silent
     \/ step = "driver_pause" /\ dev' = [dev EXCEPT !.paused = TRUE]
     \/ step = "driver_unpause" /\ dev' = [dev EXCEPT !.paused = FALSE]
  /\ core' = Continue(<<>>)
  /\ UNCHANGED <<p, ao, queue, waiting, frames, commands, owed>>
DriverCall == \E step \in {"driver_start", "driver_reset", "driver_pause", "driver_unpause"} : Driver(step)

Wakeup ==
  /\ At("wakeup")
  /\ p' = ao_wakeup(p) /\ core' = Continue(<<>>)
  /\ UNCHANGED <<ao, dev, queue, waiting, frames, commands, owed>>

(* ao_uninit() tells the AO thread to end, joins it, and ends the driver.  *)
Uninit ==
  /\ At("uninit")
  /\ p' = [p EXCEPT !.terminate = TRUE] /\ core' = Continue(<<"join">>)
  /\ UNCHANGED <<ao, dev, queue, waiting, frames, commands, owed>>
Join ==
  /\ At("join") /\ ao.pc = "done" /\ ~dev.eof
  /\ core' = Continue(<<>>) /\ dev' = Silent
  /\ UNCHANGED <<p, ao, queue, waiting, frames, commands, owed>>

-----------------------------------------------------------------------------
(* The AO thread: ao_thread() with ao_play_data()                          *)

Wants == (p.playing /\ ~p.paused) \/ StreamSilence
Underrun == p.streaming /\ ~dev.started /\ ~Untimed
SpaceOver == DeviceBuffer + 1 - dev.buf                (* mutant of Space *)
Space == DeviceBuffer - dev.buf

(* the label eof: the driver has stopped, or never says so                 *)
EndOfAudio(i, playing) ==
  IF Untimed \/ ~playing \/ StreamSilence
  THEN [i EXCEPT !.streaming = playing /\ ~Untimed, !.playing = FALSE] ELSE i

(* the timeout that the state after ao_play_data() leads to                *)
Timed(i) == i.streaming /\ (~i.paused \/ StreamSilence)
Decision(retry) == [pc |-> "decide", retry |-> retry, timeout |-> ~retry /\ Timed(p')]

PlayNothing ==
  /\ ao.pc = "play" /\ (~Wants \/ (~Underrun /\ Space = 0))
  /\ UNCHANGED p /\ ao' = Decision(FALSE)
  /\ UNCHANGED <<dev, core, queue, waiting, frames, commands, owed>>

PlayUnderrun ==
  /\ ao.pc = "play" /\ Wants /\ Underrun
  /\ p' = EndOfAudio(p, FALSE) /\ ao' = Decision(TRUE)
  /\ core' = Notify(core)
  /\ UNCHANGED <<dev, queue, waiting, frames, commands, owed>>

(* silence for the audio that a pause discarded, then the audio            *)
PlayWrite ==
  /\ ao.pc = "play" /\ Wants /\ ~Underrun /\ Space > 0
  /\ LET recovered == IF p.recover_pause THEN Smaller(p.prepause, Space) ELSE 0
         r == read_buffer(Space)
         pads == p.paused \/ (StreamSilence /\ ~p.playing)
         samples == IF recovered > 0 THEN recovered ELSE IF pads THEN Space ELSE r.pos
         eof == recovered = 0 /\ r.eof
         starts == samples > 0 /\ ~p.streaming
         i == [p EXCEPT !.recover_pause = FALSE, !.streaming = @ \/ starts,
                        !.pending = IF recovered > 0 THEN @ ELSE r.pending] IN
     /\ p' = IF eof THEN EndOfAudio(i, dev.started \/ starts) ELSE i
     /\ ao' = Decision(eof \/ (samples > 0 /\ (samples < Space \/ Untimed)))
     /\ core' = IF eof THEN Notify(core) ELSE core
     /\ IF recovered > 0 THEN UNCHANGED <<queue, waiting>>
        ELSE queue' = r.queue /\ waiting' = r.empty
     /\ \E written \in {samples} \cup (IF WriteFails THEN {0} ELSE {}) :
          dev' = [dev EXCEPT !.started = @ \/ starts,
                             !.buf = IF Untimed THEN 0 ELSE @ + written]
     /\ owed' = owed - recovered
  /\ UNCHANGED <<frames, commands>>

(* the end of an iteration, under pt_lock                                  *)
Decide ==
  /\ ao.pc = "decide"
  /\ LET next == IF p.terminate THEN "done"
                 ELSE IF ~p.need_wakeup /\ ~ao.retry THEN "wait" ELSE "play" IN
     /\ ao' = [ao EXCEPT !.pc = next]
     /\ p' = [p EXCEPT !.need_wakeup = @ /\ next # "play"]
  /\ UNCHANGED <<dev, core, queue, waiting, frames, commands, owed>>

Wake ==
  /\ ao.pc = "wait" /\ (p.need_wakeup \/ p.terminate \/ ao.timeout)
  /\ ao' = [ao EXCEPT !.pc = "play"]
  /\ p' = [p EXCEPT !.need_wakeup = FALSE]
  /\ UNCHANGED <<dev, core, queue, waiting, frames, commands, owed>>

AOThread == PlayNothing \/ PlayUnderrun \/ PlayWrite \/ Decide \/ Wake

-----------------------------------------------------------------------------
(* The device of a push driver plays, and stops when it has nothing left.  *)

Running == dev.started /\ ~dev.paused
DevicePlay ==
  /\ Push /\ Running
  /\ dev' = IF dev.buf > 0 THEN [dev EXCEPT !.buf = @ - 1] ELSE [dev EXCEPT !.started = FALSE]
  /\ UNCHANGED <<p, ao, core, queue, waiting, frames, commands, owed>>

(* A pull driver: ao_read_data() for a whole device buffer; after an EOF   *)
(* it may stop asking for data and then say so with ao_stop_streaming().   *)
ReadEnds(pos) == pos < DeviceBuffer /\ p.playing /\ ~p.paused
ReadData ==
  /\ ~Push /\ Running /\ ~dev.eof
  /\ LET r == read_buffer(DeviceBuffer) IN
     /\ p' = [p EXCEPT !.pending = r.pending, !.playing = @ /\ ~ReadEnds(r.pos)]
     /\ core' = IF ReadEnds(r.pos) THEN Notify(core) ELSE core
     /\ queue' = r.queue /\ waiting' = r.empty
     /\ dev' = [dev EXCEPT !.eof = StopsAtEof /\ r.eof]
  /\ UNCHANGED <<ao, frames, commands, owed>>

StopStreaming ==
  /\ dev.eof
  /\ p' = [p EXCEPT !.streaming = FALSE]
  /\ dev' = [dev EXCEPT !.eof = FALSE, !.started = FALSE]
  /\ UNCHANGED <<ao, core, queue, waiting, frames, commands, owed>>

CoreStep == \/ Start \/ Reset \/ Pause \/ Unpause \/ DrainLoop
            \/ DriverCall \/ Wakeup \/ Uninit \/ Join
Device == DevicePlay \/ ReadData \/ StopStreaming

Next ==
  /\ \/ \E frame \in {"audio", "eof"} : Feed(frame)
     \/ Look \/ (\E c \in Calls : Call(c)) \/ CoreStep \/ AOThread \/ Device
  /\ UNCHANGED driver

(* The scheduler runs a thread that can run, a call is carried through,    *)
(* and a device that has been started goes on playing.                     *)
Fairness == WF_dvars(CoreStep) /\ WF_dvars(AOThread) /\ WF_dvars(Device)
Spec == Init /\ [][Next]_vars /\ Fairness

-----------------------------------------------------------------------------
(* The state has the types of the code.                                    *)
TypeOK ==
  /\ p \in [playing : BOOLEAN, paused : BOOLEAN, hw_paused : BOOLEAN, streaming : BOOLEAN,
            recover_pause : BOOLEAN, prepause : 0 .. DeviceBuffer, pending : 0 .. FrameSize - 1,
            need_wakeup : BOOLEAN, terminate : BOOLEAN]
  /\ ao \in [pc : {"play", "decide", "wait", "done"}, retry : BOOLEAN, timeout : BOOLEAN]
  /\ dev \in [started : BOOLEAN, paused : BOOLEAN, buf : 0 .. DeviceBuffer, eof : BOOLEAN]
  /\ queue \in Seq({"audio", "eof"}) /\ {waiting, core.told, core.seen} \subseteq BOOLEAN
  /\ owed \in Nat

Quiet == core.todo = <<>>
(* If pausing has discarded what was in the device, the same time of       *)
(* silence is played when playback goes on, however often it is paused,    *)
(* so that audio does not run ahead of the video.  Silence that has been   *)
(* taken out of what is to be recovered counts as played, also if the      *)
(* driver then fails to write it.                                          *)
SyncKept == ~Untimed => owed = IF p.recover_pause THEN p.prepause ELSE 0

(* Playback that ends by itself, by an EOF or an underrun, is never hidden *)
(* from the core: it has been told since it last looked.                   *)
EndTold == core.seen /\ ~p.playing => core.told

(* The device of a playing, unpaused pull output asks for audio.           *)
Restarted ==
  Quiet /\ ~Push /\ p.playing /\ ~p.paused /\ ~p.terminate => p.streaming /\ Running

(* The device does what was last asked for, with every way of pausing      *)
(* (set_pause(), reset()) and although driver calls of pull outputs come   *)
(* after the lock: while paused no audio is heard, and a device that is to *)
(* play runs.  Not so for a driver that stops by itself: its               *)
(* ao_stop_streaming() may clear "streaming" of a device just started.     *)
DeviceFollows ==
  ~StopsAtEof =>
    /\ Quiet /\ p.paused /\ ~StreamSilence /\ (HasReset \/ HasSetPause)
         => ~Running \/ (Push /\ dev.buf = 0)
    /\ Restarted

(* Audio in the queue is taken while playback goes on; playback does not   *)
(* stay on for ever when nothing is added to the queue; and every call of  *)
(* the core returns, ao_drain() and ao_uninit() too.  (With streamed       *)
(* silence ao_drain() may restart a device that underruns each time.)      *)
Served ==
  /\ (p.playing /\ ~p.paused /\ queue # <<>>)
       ~> (queue = <<>> \/ ~p.playing \/ p.paused \/ p.terminate \/ StopsAtEof)
  /\ (p.playing /\ p.streaming /\ ~Untimed /\ ~StreamSilence)
       ~> (~p.playing \/ p.paused \/ p.terminate \/ StopsAtEof)
  /\ ~Quiet ~> (Quiet \/ StreamSilence)
=============================================================================
