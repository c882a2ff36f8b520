----------------------------- MODULE AsyncQueue -----------------------------
(***************************************************************************)
(* filters/f_async_queue.c: a bounded FIFO of frames between two filter    *)
(* graphs that run on different threads.  It is reached through an input   *)
(* filter (process_in, producer) and an output filter (process_out,        *)
(* consumer), and a third party resets, resumes and reconfigures it.       *)
(*                                                                         *)
(* An action is one critical section of q->lock, or one step of a filter   *)
(* graph next to an access filter.  wake[f] says that f has been woken up  *)
(* or has a changed pin: its process() will be called.                     *)
(*                                                                         *)
(* Frames are numbered in the order in which the source produces them.     *)
(* max_bytes and max_duration are left out: like max_samples they only     *)
(* make a queue with frames in it full.                                    *)
(***************************************************************************)
EXTENDS Integers, SequencesExt

CONSTANTS
  Samples,      (* Samples[n]: audio samples in frame n, 0 if signaling    *)
  Configs,      (* cfg values: [sample_unit, max_samples]                  *)
  MaxResets,    (* bound: resets of the queue                              *)
  MaxFilterResets, (* bound: resets and destructions of each filter        *)
  MaxConfigs,   (* bound: calls of mp_async_queue_set_config()             *)
  NoFrame

ASSUME AsyncQueueAssumption ==
  /\ Samples \in Seq(Nat)
  /\ Configs \subseteq [sample_unit : {"frame", "samples"}, max_samples : Nat \ {0}]
  /\ Configs # {} /\ {MaxResets, MaxFilterResets, MaxConfigs} \subseteq Nat
  /\ NoFrame \notin Nat

VARIABLES
  cfg, active, reading, samples_size,
  frames,          (* q->frames: new frames first, taken from the end      *)
  conn,            (* q->conn: whether the access filter exists            *)
  notify,          (* the notifier is set                                  *)
  data,            (* frame on the pin of each access filter               *)
  data_requested,  (* request on it                                        *)
  wake,            (* process() of that filter is due; also the notifier's *)
  resetting,       (* filters still to be reset by the API user            *)
  produced,        (* frames the source has handed out                     *)
  delivered,       (* history: frames read by the consumer                 *)
  dropped,         (* history: frames discarded                            *)
  resets,          (* bound counters: "queue", "in" and "out"              *)
  configs,
  mark,            (* history: frames produced before the last resume      *)
  hasty,           (* history: that resume came before a filter was reset  *)
  shrunk,          (* history: a configuration was set over queued frames  *)
  told,            (* history: the notifier ran since the queue ran empty  *)
  null_wakeup      (* history: mp_filter_wakeup(NULL) was called           *)

queue == <<cfg, active, reading, samples_size, frames>>
pins == <<data, data_requested>>
user == <<resetting, resets, configs, mark, hasty, shrunk>>
vars == <<queue, conn, notify, pins, wake, user, produced, delivered, dropped,
          told, null_wakeup>>

Ends == {"in", "out"}
Frames == DOMAIN Samples

frame_get_samples(unit, n) ==
  IF Samples[n] = 0 THEN 0 ELSE IF unit = "samples" THEN Samples[n] ELSE 1

(* The samples of the frames in s, of which no two are the same.           *)
TotalSamples(unit, s) ==
  Cardinality(UNION {{n} \X (1 .. frame_get_samples(unit, n)) : n \in Range(s)})

(* account_frame(): samples_size after adding or removing frame n.         *)
Account(n, dir) ==
  samples_size + dir * frame_get_samples(cfg.sample_unit, n)

IsFull(size) == size >= cfg.max_samples

Init ==
  /\ cfg \in Configs
  /\ active = FALSE /\ reading = FALSE /\ samples_size = 0 /\ frames = <<>>
  /\ conn = [e \in Ends |-> FALSE] /\ notify = FALSE
  /\ data = [e \in Ends |-> NoFrame]
  /\ data_requested = [e \in Ends |-> FALSE]
  /\ wake = [e \in Ends \cup {"notify"} |-> FALSE]
  /\ resetting = {} /\ resets = [e \in Ends \cup {"queue"} |-> 0] /\ configs = 0
  /\ produced = 0 /\ delivered = <<>> /\ dropped = {} /\ mark = 0 /\ hasty = FALSE
  /\ shrunk = FALSE /\ told = TRUE /\ null_wakeup = FALSE

Drop(s) == dropped' = dropped \cup (s \ {NoFrame})

(* wake with process() of self done, and the connected filters of "who",   *)
(* or the notifier, woken up.                                              *)
WakeAll(self, who) ==
  wake' = [f \in DOMAIN wake |->
             \/ f \in who /\ (f = "notify" \/ conn[f])
             \/ f # self /\ wake[f]]

-----------------------------------------------------------------------------
(* The input filter *)

NotifyIfEmpty == IF notify /\ frames = <<>> THEN {"notify"} ELSE {}
InsertLast(n) == Append(frames, n)                    (* mutant of Insert *)
Insert(n) == <<n>> \o frames
HasRoom == ~IsFull(samples_size)

(* mp_pin_out_read() and what follows; the last request is for the next.   *)
Accept ==
  LET n == data["in"]
      size == Account(n, 1) IN
  /\ frames' = Insert(n)
  /\ samples_size' = size
  /\ data' = [data EXCEPT !["in"] = NoFrame]
  /\ data_requested' = [data_requested EXCEPT !["in"] = ~IsFull(size)]
  /\ WakeAll("in", {"out"} \cup IF notify /\ IsFull(size) THEN {"notify"} ELSE {})
  /\ told' = TRUE
  /\ UNCHANGED dropped

(* Nothing is taken from the pin; possibly a request is left on it.        *)
TakeNothing(request) ==
  /\ data_requested' = [data_requested EXCEPT !["in"] = @ \/ request]
  /\ WakeAll("in", NotifyIfEmpty)
  /\ UNCHANGED <<frames, samples_size, data, dropped, told>>

(* A frame requested before an asynchronous reset cannot be used.          *)
Discard ==
  /\ Drop({data["in"]})
  /\ data' = [data EXCEPT !["in"] = NoFrame]
  /\ WakeAll("in", NotifyIfEmpty)
  /\ UNCHANGED <<frames, samples_size, data_requested, told>>

ProcessIn ==
  /\ conn["in"] /\ wake["in"]
  /\ \/ ~reading /\ Discard
     \/ reading /\ HasRoom /\ data["in"] # NoFrame /\ Accept
     \/ reading /\ (HasRoom => data["in"] = NoFrame) /\ TakeNothing(HasRoom)
  /\ UNCHANGED <<cfg, active, reading, conn, notify, user, produced, delivered,
                 null_wakeup>>

-----------------------------------------------------------------------------
(* The output filter *)

StartsReading == active /\ ~reading

WokenByOutput(takes) == IF StartsReading \/ takes THEN {"in"} ELSE {}

(* Only the wakeup for a frame taken checks that there is an input filter. *)
ProcessOut ==
  /\ conn["out"] /\ wake["out"]
  /\ LET asked == data_requested["out"]
         takes == asked /\ active /\ frames # <<>> IN
     /\ reading' = (reading \/ (asked /\ StartsReading))
     /\ null_wakeup' = (asked /\ StartsReading /\ ~conn["in"])
     /\ WakeAll("out", IF asked THEN WokenByOutput(takes) ELSE {})
     /\ IF takes
        THEN LET n == Last(frames) IN
             /\ frames' = Front(frames)
             /\ samples_size' = Account(n, -1)
             /\ data' = [data EXCEPT !["out"] = n]
             /\ data_requested' = [data_requested EXCEPT !["out"] = FALSE]
             /\ told' = (told /\ Len(frames) > 1)
        ELSE UNCHANGED <<frames, samples_size, pins, told>>
  /\ UNCHANGED <<cfg, active, conn, notify, user, produced, delivered, dropped>>

-----------------------------------------------------------------------------
(* The filters around them, in the two graphs *)

SourceFeeds ==
  /\ conn["in"] /\ data_requested["in"] /\ produced < Len(Samples)
  /\ produced' = produced + 1
  /\ data' = [data EXCEPT !["in"] = produced + 1]
  /\ data_requested' = [data_requested EXCEPT !["in"] = FALSE]
  /\ WakeAll("none", {"in"})
  /\ UNCHANGED <<queue, conn, notify, user, delivered, dropped, told, null_wakeup>>

ConsumerRequests ==
  /\ conn["out"] /\ data["out"] = NoFrame /\ ~data_requested["out"]
  /\ data_requested' = [data_requested EXCEPT !["out"] = TRUE]
  /\ WakeAll("none", {"out"})
  /\ UNCHANGED <<queue, conn, notify, data, user, produced, delivered, dropped,
                 told, null_wakeup>>

ConsumerReads ==
  /\ data["out"] # NoFrame
  /\ delivered' = Append(delivered, data["out"])
  /\ data' = [data EXCEPT !["out"] = NoFrame]
  /\ UNCHANGED <<queue, conn, notify, data_requested, wake, user, produced,
                 dropped, told, null_wakeup>>

NotifyRuns ==
  /\ wake["notify"]
  /\ WakeAll("notify", {})
  /\ told' = (told \/ frames = <<>>)
  /\ UNCHANGED <<queue, conn, notify, pins, user, produced, delivered, dropped,
                 null_wakeup>>

-----------------------------------------------------------------------------
(* The API user *)

(* mp_async_queue_reset()                                                  *)
ClearedNot == frames                                 (* mutant of Cleared *)
Cleared == <<>>

Reset ==
  /\ resets["queue"] < MaxResets
  /\ resets' = [resets EXCEPT !["queue"] = @ + 1]
  /\ resetting' = {e \in Ends : conn[e]}
  /\ active' = FALSE /\ reading' = FALSE
  /\ frames' = Cleared /\ samples_size' = 0
  /\ Drop(Range(frames))
  /\ told' = (told /\ frames = <<>>)
  /\ WakeAll("none", Ends)
  /\ UNCHANGED <<cfg, conn, notify, pins, produced, delivered, configs, mark,
                 hasty, shrunk, null_wakeup>>

(* mp_async_queue_resume()                                                 *)
Resume ==
  /\ ~active
  /\ active' = TRUE
  /\ mark' = produced /\ hasty' = (resetting # {})
  /\ WakeAll("none", {"out"})
  /\ UNCHANGED <<cfg, reading, samples_size, frames, conn, notify, pins,
                 resetting, resets, configs, shrunk, produced, delivered,
                 dropped, told, null_wakeup>>

(* mp_async_queue_resume_reading()                                         *)
ResumeReading ==
  /\ ~(active /\ reading)
  /\ active' = TRUE /\ reading' = TRUE
  /\ IF active THEN UNCHANGED <<mark, hasty>>
               ELSE mark' = produced /\ hasty' = (resetting # {})
  /\ WakeAll("none", Ends)
  /\ UNCHANGED <<cfg, samples_size, frames, conn, notify, pins, resetting,
                 resets, configs, shrunk, produced, delivered, dropped, told,
                 null_wakeup>>

(* mp_async_queue_set_config()                                             *)
RecomputeNever(new) == samples_size                  (* mutant of Recompute *)
Recompute(new) ==
  IF new.sample_unit # cfg.sample_unit
  THEN TotalSamples(new.sample_unit, frames) ELSE samples_size

SetConfig(new) ==
  /\ configs < MaxConfigs /\ new # cfg
  /\ configs' = configs + 1
  /\ cfg' = new
  /\ samples_size' = Recompute(new)
  /\ shrunk' = (shrunk \/ frames # <<>>)
  /\ UNCHANGED <<active, reading, frames, conn, notify, pins, wake, resetting,
                 resets, mark, hasty, produced, delivered, dropped, told, null_wakeup>>

(* mp_filter_reset() of an access filter with its graph: the pin is        *)
(* emptied, and reset() of the input filter requests data again.           *)
AsksNoMore(e) == FALSE                               (* mutant of AsksAgain *)
AsksAgain(e) == e = "in" /\ reading

ResetFilter(e) ==
  /\ conn[e] /\ resets[e] < MaxFilterResets
  /\ resets' = [resets EXCEPT ![e] = @ + 1]
  /\ resetting' = resetting \ {e}
  /\ Drop({data[e]})
  /\ data' = [data EXCEPT ![e] = NoFrame]
  /\ data_requested' = [data_requested EXCEPT ![e] = FALSE]
  /\ WakeAll("none", IF AsksAgain(e) THEN {e} ELSE {})
  /\ UNCHANGED <<queue, conn, notify, configs, mark, hasty, shrunk, produced,
                 delivered, told, null_wakeup>>

(* mp_async_queue_create_filter(); connecting the pin schedules both ends. *)
CreateFilter(e) ==
  /\ ~conn[e]
  /\ conn' = [conn EXCEPT ![e] = TRUE]
  /\ wake' = [wake EXCEPT ![e] = TRUE]
  /\ UNCHANGED <<queue, notify, pins, user, produced, delivered, dropped, told,
                 null_wakeup>>

(* destroy(): the pin goes with the filter, its notifier as well.          *)
DestroyFilter(e) ==
  /\ conn[e] /\ resets[e] < MaxFilterResets
  /\ resets' = [resets EXCEPT ![e] = @ + 1]
  /\ resetting' = resetting \ {e}
  /\ conn' = [conn EXCEPT ![e] = FALSE]
  /\ notify' = (notify /\ e = "out")
  /\ Drop({data[e]})
  /\ data' = [data EXCEPT ![e] = NoFrame]
  /\ data_requested' = [data_requested EXCEPT ![e] = FALSE]
  /\ WakeAll(e, {})
  /\ UNCHANGED <<queue, configs, mark, hasty, shrunk, produced, delivered,
                 told, null_wakeup>>

(* mp_async_queue_set_notifier()                                           *)
SetNotifier ==
  /\ conn["in"] /\ ~notify
  /\ notify' = TRUE
  /\ WakeAll("none", {"notify"})
  /\ UNCHANGED <<queue, conn, pins, user, produced, delivered, dropped, told,
                 null_wakeup>>

-----------------------------------------------------------------------------
Next ==
  /\ ~null_wakeup
  /\ \/ ProcessIn \/ ProcessOut
     \/ SourceFeeds \/ ConsumerRequests \/ ConsumerReads \/ NotifyRuns
     \/ Reset \/ Resume \/ ResumeReading \/ SetNotifier
     \/ \E new \in Configs : SetConfig(new)
     \/ \E e \in Ends : ResetFilter(e) \/ CreateFilter(e) \/ DestroyFilter(e)

(* Both graphs are run when woken up, and the source answers requests.     *)
(* The consumer and the API user are not obliged to do anything.           *)
Fairness == /\ WF_vars(~null_wakeup /\ ProcessIn)
            /\ WF_vars(~null_wakeup /\ ProcessOut)
            /\ WF_vars(~null_wakeup /\ SourceFeeds)
            /\ WF_vars(~null_wakeup /\ NotifyRuns)

Spec == Init /\ [][Next]_vars /\ Fairness

-----------------------------------------------------------------------------
Frame == Frames \cup {NoFrame}

(* The limit holds.  account_frame() keeps the sum over the queued frames, *)
(* in the unit that is configured now, also when the unit changes.  It is  *)
(* overshot by the contents of one frame at most (f_async_queue.h:116),    *)
(* unless a smaller limit was set over queued frames; and no frame gets in *)
(* between a reset and a resume (f_async_queue.h:41).                      *)
Bounded ==
  /\ samples_size = TotalSamples(cfg.sample_unit, frames)
  /\ ~active => frames = <<>> /\ ~reading
  /\ ~shrunk /\ frames # <<>> =>
       ~IsFull(samples_size - frame_get_samples(cfg.sample_unit, Head(frames)))

(* The variables have the types of the code.                               *)
Types ==
  /\ cfg \in Configs /\ frames \in Seq(Frames) /\ samples_size \in Nat
  /\ conn \in [Ends -> BOOLEAN] /\ data \in [Ends -> Frame]
  /\ data_requested \in [Ends -> BOOLEAN]
  /\ wake \in [Ends \cup {"notify"} -> BOOLEAN]
  /\ resetting \subseteq Ends /\ configs \in 0 .. MaxConfigs
  /\ resets \in [Ends \cup {"queue"} -> 0 .. MaxResets + MaxFilterResets]
  /\ {produced, mark} \subseteq 0 .. Len(Samples) /\ dropped \subseteq Frames
  /\ delivered \in Seq(Frames)
  /\ {active, reading, notify, hasty, shrunk, told, null_wakeup} \subseteq BOOLEAN

(* The types of the variables, and the limit.                              *)
TypeOK == Types /\ Bounded

InPin(e) == IF data[e] = NoFrame THEN <<>> ELSE <<data[e]>>

(* From the consumer's end back to the source.                             *)
Pipeline == delivered \o InPin("out") \o Reverse(frames) \o InPin("in")

(* A FIFO: between the two graphs no frame overtakes another, is           *)
(* duplicated, or gets lost other than through a reset.                    *)
InOrder ==
  /\ \A i, j \in DOMAIN Pipeline : i < j => Pipeline[i] < Pipeline[j]
  /\ Range(Pipeline) \cup dropped = 1 .. produced
  /\ Range(Pipeline) \cap dropped = {}

(* f_async_queue.h:73: if the filters are reset before the queue is        *)
(* resumed, no frame of the time before is in the pipeline any more.       *)
NoStaleFrame ==
  active /\ ~hasty =>
    \A n \in Range(InPin("out") \o frames \o InPin("in")) : n > mark

(* A request of the consumer is served as long as the source has frames,   *)
(* in whatever order the queue and the filters were reset, destroyed and   *)
(* created before.  The notifier is woken up after the queue ran empty,    *)
(* unless new data is fed before that (f_async_queue.h:92).                *)
Wanted == /\ active /\ conn["in"] /\ conn["out"] /\ data_requested["out"]
          /\ (produced < Len(Samples) \/ frames # <<>>)
Served ==
  /\ Wanted ~> (data["out"] # NoFrame \/ ~Wanted \/ null_wakeup)
  /\ (~told /\ notify) ~> (told \/ ~notify \/ null_wakeup)

=============================================================================
