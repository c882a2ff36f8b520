------------------------------- MODULE Demux -------------------------------
(***************************************************************************)
(* demux/demux.c: the demuxer thread, which reads packets ahead and seeks, *)
(* and the player: decoders that take packets, seeks and track switches.   *)
(* An action of the player is one call under in->lock.  The thread keeps   *)
(* the lock from one blocking operation of the file format to the next; an *)
(* action of the thread is such a stretch, or the operation in between,    *)
(* while the lock is dropped: then the player can do anything.             *)
(***************************************************************************)
EXTENDS DemuxCache

CONSTANTS
  Switchable,      (* streams that are selected and deselected later       *)
  Targets,         (* pts of seeks by the player                           *)
  min_secs,        (* option demuxer-readahead-secs                        *)
  Uses             (* what can be asked of a demuxer in a behaviour: the   *)
                   (* streams selected at first, the options max_bytes and *)
                   (* max_bytes_bw, and bounds: how often the player seeks *)
                   (* and switches.  Records of these fields               *)

ASSUME DemuxAssumption ==
  /\ File \in Seq([stream : Streams, key : BOOLEAN])
  /\ Types \in Seq({"video", "audio", "sub"})
  /\ Switchable \subseteq Streams
  /\ Targets \subseteq Nat \ {0} /\ donate_fw \in BOOLEAN
  /\ {MaxRanges, min_secs} \subseteq Nat
  /\ Uses \subseteq [selected : SUBSET Streams, max_bytes : Nat, max_bytes_bw : Nat,
                   seeks : Nat, switches : Nat]

VARIABLES
  d,               (* struct demux_internal: see DemuxCache                *)
  pc,              (* thread: "start", "wait", "read", "got", "seek" and   *)
                   (* "switch": in read_packet(), execute_seek() and       *)
                   (* execute_trackswitch()                                *)
  pkt, at_eof,     (* locals of read_packet()                              *)
  seek_to,         (* local pts of execute_seek()                          *)
  low,             (* [pos, enabled]: next packet of the file format, and  *)
                   (* the streams it does not discard                      *)
  seeks, switches, (* bounds: how many are left                            *)
  time,            (* get_current_time() of the player                     *)
  goal,            (* history: goal[s]: where stream s was told to start   *)
  stale,           (* history: streams whose refreshing flag outlived the  *)
                   (* queue that it was about                              *)
  overran,         (* history: streams ended because the queues were full  *)
  ignored,         (* history: a request to read was, and none came since  *)
  unheard          (* history: waiting decoders that a join gave a packet   *)

player == <<seeks, switches, time, goal, stale>>
thread == <<pkt, at_eof, seek_to, low>>
known == <<overran, ignored, unheard>>
vars == <<d, pc, thread, player, known>>

NewStream(selected) ==
  [selected |-> selected, refreshing |-> FALSE, eof |-> FALSE,
   need_wakeup |-> TRUE, reader_head |-> NOPTS, skip_to_keyframe |-> FALSE,
   base_ts |-> NOPTS, last_ret_dts |-> NOPTS,
   reader |-> "ready"]       (* the decoder: asks when "ready", else idle  *)

(* After demux_open(), which calls update_opts() (max_bytes_bw), the        *)
(* selection of tracks and demux_start_thread().                           *)
Init ==
  /\ \E use \in Uses, seekable \in BOOLEAN :
       /\ d = [ds |-> [s \in Streams |-> NewStream(s \in use.selected)],
               ranges |-> <<NewRange>>, seekable_cache |-> seekable,
               max_bytes |-> use.max_bytes,
               max_bytes_bw |-> IF seekable THEN use.max_bytes_bw ELSE 0,
               reading |-> FALSE, eof |-> FALSE, seeking |-> FALSE,
               seek_pts |-> NOPTS, after_seek |-> TRUE,
               after_seek_to_start |-> TRUE, blocked |-> FALSE,
               tracks_switched |-> TRUE, asleep |-> FALSE]
       /\ seeks = use.seeks /\ switches = use.switches
  /\ pc = "start" /\ pkt = NOPTS /\ at_eof = FALSE /\ seek_to = NOPTS
  /\ low = [pos |-> 1, enabled |-> {}]
  /\ time = 1
  /\ goal = [s \in Streams |-> 1] /\ stale = {} /\ overran = {} /\ ignored = FALSE
  /\ unheard = {}
-----------------------------------------------------------------------------
(* The demuxer thread.                                                     *)

mark_stream_eof(e, s) ==
  IF e.ds[s].eof THEN e
  ELSE wakeup_ds(adjust_seek_range_on_packet([e EXCEPT !.ds[s].eof = TRUE], s, NOPTS), s)

MarkIf(ends, e, s) == IF ends THEN mark_stream_eof(e, s) ELSE e
Dry(e, s) == e.ds[s].reader_head = NOPTS

(* read_packet() before it reads: ended lazy streams, then the reasons to  *)
(* read.                                                                   *)
EndLazy(e) ==
  FoldLeft(LAMBDA x, s : MarkIf(~Eager(x, s), x, s), [e EXCEPT !.reading = FALSE], InOrder)
ReadMore(e) == \E s \in Streams : Eager(e, s) /\ Dry(e, s)
PrefetchMore(e) ==
  \E s \in Streams :
    LET last == Queue(e, s).last_ts  base == e.ds[s].base_ts
    IN /\ Eager(e, s) /\ last # NOPTS /\ base # NOPTS
       /\ last >= base /\ last - base < min_secs
RefreshMore(e) == \E s \in Streams : e.ds[s].refreshing
Full(e) == ForwardBytes(e) >= e.max_bytes

ReadStarted(e) ==
  [e EXCEPT !.reading = TRUE, !.after_seek = FALSE, !.after_seek_to_start = FALSE,
            !.ranges[Len(e.ranges)].streams =
              [s \in Streams |->
                 IF e.after_seek_to_start
                 THEN [@[s] EXCEPT !.is_bof = e.ds[s].selected /\ ~e.ds[s].refreshing]
                 ELSE @[s]]]

NoOverflow(e) == e                                    (* mutant of Overflow *)
Overflow(e) == FoldLeft(LAMBDA x, s : MarkIf(Dry(x, s), x, s), e, InOrder)

Sleep(e) == d' = [e EXCEPT !.asleep = TRUE] /\ pc' = "wait" /\ UNCHANGED seek_to

(* The first thing in thread_work() that there is to do.                   *)
thread_work(e) ==
  LET lazy == EndLazy(e) IN
  \/ /\ e.tracks_switched
     /\ d' = [e EXCEPT !.tracks_switched = FALSE]
     /\ pc' = "switch" /\ UNCHANGED <<seek_to, overran>>
  \/ /\ ~e.tracks_switched /\ e.seeking
     /\ d' = [e EXCEPT !.eof = FALSE, !.seeking = FALSE, !.after_seek = TRUE,
                       !.after_seek_to_start = e.seek_pts <= 1]
     /\ pc' = "seek" /\ seek_to' = e.seek_pts /\ UNCHANGED overran
  \/ /\ ~e.tracks_switched /\ ~e.seeking /\ (~e.reading \/ e.blocked)
     /\ Sleep([e EXCEPT !.reading = FALSE]) /\ UNCHANGED overran
  \/ /\ ~e.tracks_switched /\ ~e.seeking /\ e.reading /\ ~e.blocked
     /\ \/ /\ Full(lazy) /\ ReadMore(lazy)         (* everyone would wait   *)
           /\ Sleep(Overflow(lazy))
           /\ overran' = overran \cup {s \in Streams : Dry(lazy, s)}
        \/ /\ IF Full(lazy) THEN ~ReadMore(lazy)
              ELSE ~(ReadMore(lazy) \/ PrefetchMore(lazy) \/ RefreshMore(lazy))
           /\ Sleep(lazy) /\ UNCHANGED overran
        \/ /\ ~Full(lazy)
           /\ ReadMore(lazy) \/ PrefetchMore(lazy) \/ RefreshMore(lazy)
           /\ d' = ReadStarted(lazy)
           /\ pc' = "read" /\ UNCHANGED <<seek_to, overran>>

Wake ==
  /\ pc = "start" \/ (pc = "wait" /\ ~d.asleep)
  /\ thread_work(d)
  /\ UNCHANGED <<pkt, at_eof, low, player, ignored, unheard>>

(* Unlocked: a queued seek makes the read fail at once.                    *)
NextPacket == MinPts({p \in DOMAIN File : p >= low.pos /\ File[p].stream \in low.enabled})

ReadFile ==
  /\ pc = "read"
  /\ pkt' = IF d.seeking THEN NOPTS ELSE NextPacket
  /\ at_eof' = (pkt' = NOPTS)
  /\ low' = [low EXCEPT !.pos = IF d.seeking THEN @
                                ELSE IF pkt' = NOPTS THEN Len(File) + 1 ELSE pkt' + 1]
  /\ pc' = "got"
  /\ UNCHANGED <<d, seek_to, player, known>>

AppendPacket(e, s, p) ==
  LET q == Queue(e, s)
      taken == [q EXCEPT !.pkts = Append(@, p), !.last_dts = p, !.last_ts = p]
      ds == [e.ds[s] EXCEPT
               !.reader_head = IF @ = NOPTS /\ (e.ds[s].skip_to_keyframe => Key(p))
                               THEN p ELSE @,
               !.skip_to_keyframe = @ /\ (e.ds[s].reader_head # NOPTS \/ ~Key(p)),
               !.eof = FALSE,
               !.base_ts = IF @ = NOPTS THEN p ELSE @]
      e1 == prune_old_packets(adjust_seek_range_on_packet(
              [SetQueue(e, s, taken) EXCEPT !.ds[s] = ds, !.eof = FALSE], s, p))
  IN IF Dry(e1, s) THEN e1 ELSE wakeup_ds(e1, s)

(* Packets of before a seek or of a deselected stream are dropped; those   *)
(* of a refreshing stream up to the one where it left off.                 *)
Dropped(e, s) == ~e.ds[s].selected \/ e.seeking

OnePastLast(e, s, p) == p <= Queue(e, s).last_dts     (* mutant of Rereads  *)
Rereads(e, s, p) == p < Queue(e, s).last_dts

add_packet_locked(d0, p) ==
  LET s == File[p].stream
      e == [d0 EXCEPT !.after_seek = FALSE, !.after_seek_to_start = FALSE]
  IN IF Dropped(e, s) THEN e
     ELSE IF e.ds[s].refreshing THEN [e EXCEPT !.ds[s].refreshing = Rereads(e, s, p)]
     ELSE AppendPacket(e, s, p)

(* The rest of read_packet(), locked again; the end of the file counts     *)
(* unless a seek has come.                                                 *)
NeverSuperseded(e) == FALSE                         (* mutant of Superseded *)
Superseded(e) == e.seeking

Finished(e) ==
  IF Superseded(e) THEN e
  ELSE [IF at_eof THEN FoldLeft(mark_stream_eof, e, InOrder) ELSE e
        EXCEPT !.eof = at_eof, !.reading = ~at_eof]

ReadDone ==
  /\ pc = "got"
  /\ LET e == IF pkt = NOPTS THEN d ELSE add_packet_locked(d, pkt)
         joined == e.seeking /\ ~d.seeking
     IN /\ thread_work(Finished(e))
        /\ unheard' = IF joined
                      THEN unheard \cup {s \in Streams : e.ds[s].reader = "wait" /\ ~Dry(e, s)}
                      ELSE unheard
  /\ pkt' = NOPTS /\ at_eof' = FALSE
  /\ UNCHANGED <<low, player, ignored>>

(* A file format seeks to the last keyframe of the video up to the target. *)
Landing(t) ==
  Max({1} \cup {p \in DOMAIN File : p <= t /\ Key(p) /\ Types[File[p].stream] = "video"})

SeekDone ==
  /\ pc = "seek"
  /\ low' = [low EXCEPT !.pos = Landing(seek_to)]
  /\ seek_to' = NOPTS /\ pc' = "start"
  /\ UNCHANGED <<d, pkt, at_eof, player, known>>

(* switched_tracks(): the file format asks which streams are selected.     *)
SwitchDone ==
  /\ pc = "switch"
  /\ low' = [low EXCEPT !.enabled = Selected(d)]
  /\ pc' = "start"
  /\ UNCHANGED <<d, pkt, at_eof, seek_to, player, known>>
-----------------------------------------------------------------------------
(* The decoder of stream s: dequeue_packet().                              *)

Advanced(e, s) ==
  MinPts({p \in ToSet(Queue(e, s).pkts) : p > e.ds[s].reader_head})

Requested(e) ==
  IF ~e.reading /\ ~e.eof THEN [e EXCEPT !.reading = TRUE, !.asleep = FALSE] ELSE e

Dequeue(s) ==
  LET e == [Requested(d) EXCEPT !.ds[s].need_wakeup = Dry(d, s)]
      p == d.ds[s].reader_head
  IN
  /\ d.ds[s].selected /\ d.ds[s].reader = "ready"
  /\ \/ /\ d.blocked
        /\ d' = [d EXCEPT !.ds[s].reader = "wait"]
        /\ UNCHANGED time
     \/ /\ ~d.blocked /\ Dry(d, s)
        /\ LET eof == d.ds[s].eof \/ ~Eager(d, s)
           IN d' = [e EXCEPT !.ds[s].eof = eof,
                             !.ds[s].reader = IF eof THEN "eof" ELSE "wait"]
        /\ UNCHANGED time
     \/ /\ ~d.blocked /\ ~Dry(d, s)
        /\ d' = prune_old_packets([e EXCEPT !.ds[s].reader_head = Advanced(d, s),
                                            !.ds[s].last_ret_dts = p,
                                            !.ds[s].base_ts = p])
        /\ time' = IF Eager(d, s) THEN p ELSE time
  /\ ignored' = ((ignored \/ (d'.ds[s].reader = "wait" /\ ~d.blocked)) /\ ~d'.reading)
  /\ unheard' = unheard \ {s}
  /\ UNCHANGED <<pc, thread, seeks, switches, goal, stale, overran>>
-----------------------------------------------------------------------------
(* The player.                                                             *)

ReaderCleared(ds) ==
  [ds EXCEPT !.reader_head = NOPTS, !.eof = FALSE, !.need_wakeup = TRUE,
             !.base_ts = NOPTS, !.skip_to_keyframe = FALSE, !.last_ret_dts = NOPTS]

find_cache_seek_range(e, t) ==
  {n \in DOMAIN e.ranges :
     LET r == e.ranges[n]
     IN /\ e.seekable_cache /\ r.seek_start # NOPTS
        /\ t >= r.seek_start \/ r.is_bof
        /\ t <= r.seek_end \/ r.is_eof}

(* Everybody goes to where the (first) video stream has a keyframe, unless *)
(* the seek is exact: then the player skips what it does not need.         *)
adjust_cache_seek_target(e, r, t, hr) ==
  LET videos == {s \in Selected(e) : Types[s] = "video"}
      target == find_seek_target(r.streams[Min(videos)], t)
  IN IF hr \/ videos = {} THEN t ELSE IF target = NOPTS THEN t ELSE target

execute_cache_seek(e, n, t0, hr) ==
  LET r == e.ranges[n]
      t == adjust_cache_seek_target(e, r, t0, hr)
      moved == [e EXCEPT !.ds = [s \in Streams |->
                  LET target == find_seek_target(r.streams[s], t)
                  IN [@[s] EXCEPT !.reader_head = target,
                                  !.skip_to_keyframe = (target = NOPTS),
                                  !.base_ts = IF target = NOPTS THEN @ ELSE target]]]
      resumed == switch_current_range(moved, RemoveAt(Front(e.ranges), n), r)
  IN IF n = Len(e.ranges) THEN moved
     ELSE [resumed EXCEPT !.seeking = TRUE, !.seek_pts = r.seek_end - 1,
             !.ds = [s \in Streams |->
                       [@[s] EXCEPT !.refreshing = e.ds[s].selected]]]

WakeAll(e) == FoldLeft(wakeup_ds, e, InOrder)

Cleared(e) ==
  [e EXCEPT !.eof = FALSE, !.reading = FALSE, !.blocked = TRUE,
            !.ds = [s \in Streams |-> ReaderCleared(@[s])]]

(* seek() of the player: demux_seek(SEEK_BLOCK), which is queue_seek(); it *)
(* then resets its decoders and calls demux_block_reading().               *)
Seek(t, hr) ==
  LET ranges == find_cache_seek_range(d, t)
      n == Min(ranges)
      fresh == [switch_to_fresh_cache_range(Cleared(d)) EXCEPT
                  !.seeking = TRUE, !.seek_pts = t]
      e == IF ranges # {} THEN execute_cache_seek(Cleared(d), n, t, hr) ELSE fresh
  IN
  /\ ~d.blocked /\ seeks > 0
  /\ d' = [WakeAll(e) EXCEPT !.asleep = FALSE]
  /\ seeks' = seeks - 1
  /\ time' = t /\ goal' = [s \in Streams |-> t]
  /\ stale' = IF ranges = {} THEN {s \in Streams : fresh.ds[s].refreshing}
              ELSE IF n = Len(d.ranges) THEN stale ELSE {}
  /\ UNCHANGED <<pc, thread, switches, known>>

demux_block_reading ==
  /\ d.blocked
  /\ d' = [WakeAll([d EXCEPT !.blocked = FALSE,
                             !.ds = [s \in Streams |->
                                       [@[s] EXCEPT !.need_wakeup = TRUE]]])
           EXCEPT !.asleep = FALSE]
  /\ UNCHANGED <<pc, thread, player, known>>

(* update_stream_selection_state(): the state of the reader and the data   *)
(* of a stream that is not wanted any more go.                             *)
Reselected(e, s) ==
  LET e1 == [e EXCEPT !.ds[s] = [ReaderCleared(@) EXCEPT !.refreshing = FALSE],
                      !.blocked = @ /\ Selected(e) # {}]
      emptied(r) == IF e.ds[s].selected THEN r ELSE [r EXCEPT !.streams[s] = NewQueue]
  IN wakeup_ds(free_empty_cached_ranges(
       [e1 EXCEPT !.ranges = [n \in DOMAIN @ |-> update_seek_ranges(e1, emptied(@[n]))]]), s)

(* initiate_refresh_seek(): back to where the readers are.  Unless s is    *)
(* the only stream, all data are read again.                               *)
Alone(e, s) == Selected(e) = {s}
StartPts(e, pts) ==
  MinPts({pts} \cup {e.ds[s].base_ts : s \in {t \in Selected(e) : Types[t] # "sub"}})

Returned(e, s) == e.ds[s].selected /\ e.ds[s].last_ret_dts # NOPTS
Discarded(e) ==
  LET queue(s) == [NewQueue EXCEPT !.last_dts =
                     IF Returned(e, s) THEN e.ds[s].last_ret_dts ELSE @]
  IN UpdateCurrent(
       [e EXCEPT !.ds = [s \in Streams |->
                   [@[s] EXCEPT !.reader_head = NOPTS, !.eof = FALSE, !.need_wakeup = TRUE,
                                !.refreshing = @ \/ Returned(e, s)]],
                 !.ranges[Len(e.ranges)].streams = [s \in Streams |-> queue(s)]])

initiate_refresh_seek(e, s, pts) ==
  LET start == StartPts(e, pts)
  IN IF start = NOPTS THEN e
     ELSE [IF Alone(e, s) THEN e ELSE Discarded(e) EXCEPT
             !.seeking = TRUE,
             !.seek_pts = IF Alone(e, s) THEN start ELSE start - 1]

(* refresh_track(): not right after a seek, with exceptions.               *)
Refreshes(e, s) ==
  LET video == \E t \in Selected(e) : Types[t] = "video"
      avoid == video /\ ~(e.after_seek /\ ~e.after_seek_to_start)
  IN ~e.after_seek \/ (Types[s] # "video" /\ ~avoid)

(* demuxer_select_track() with the current time, from a track switch.      *)
demuxer_select_track(s) ==
  LET selected == ~d.ds[s].selected
      e == [Reselected([d EXCEPT !.ds[s].selected = selected], s)
              EXCEPT !.tracks_switched = TRUE]
      refresh == selected /\ Refreshes(e, s)
  IN
  /\ ~d.blocked /\ switches > 0
  /\ d' = [IF refresh THEN initiate_refresh_seek(e, s, time) ELSE e
           EXCEPT !.asleep = FALSE]
  /\ switches' = switches - 1
  /\ goal' = [goal EXCEPT ![s] = time]
  /\ stale' = IF refresh
              THEN stale \cup {t \in Streams : e.ds[t].refreshing /\ ~Returned(e, t)}
              ELSE stale \ {s}
  /\ UNCHANGED <<pc, thread, seeks, time, known>>

Next ==
  \/ Wake \/ ReadFile \/ ReadDone \/ SeekDone \/ SwitchDone
  \/ \E s \in Streams : Dequeue(s)
  \/ \E t \in Targets, hr \in BOOLEAN : Seek(t, hr)
  \/ demux_block_reading
  \/ \E s \in Switchable : demuxer_select_track(s)

(* Somebody other than the user of the player has to go on: the thread, a  *)
(* decoder that was woken up and finds no packet, or the rest of a seek.   *)
(* It then does, that is, weak fairness of all these steps.  A decoder may *)
(* leave packets where they are, as the filters behind it are full.  (Both *)
(* are written out: TLC would take long to find out whether the steps are  *)
(* ENABLED.)                                                               *)
Busy ==
  \/ pc # "wait" \/ ~d.asleep \/ d.blocked
  \/ \E s \in Streams : d.ds[s].selected /\ d.ds[s].reader = "ready" /\ Dry(d, s)
OfUser == <<seeks, switches>>
Fairness == []<>~Busy \/ []<><<UNCHANGED OfUser>>_vars

Spec == Init /\ [][Next]_vars /\ Fairness
-----------------------------------------------------------------------------
Packets(s) == {p \in DOMAIN File : File[p].stream = s}
AV == {s \in Streams : Types[s] # "sub"}

(* The packets of s from the first to the last that the sequence has.      *)
Consecutive(q, s) ==
  q # <<>> => q = SelectSeq([p \in DOMAIN File |-> p],
                          LAMBDA p : File[p].stream = s /\ Head(q) <= p /\ p <= Last(q))

(* The variables have the types of the code; in particular a reader stands *)
(* at a packet of the current range, or nowhere ("reader_head: points to   *)
(* current decoder position"), however ranges are pruned, joined, freed or *)
(* switched.                                                               *)
TypeOK ==
  /\ d.ds \in [Streams -> [selected : BOOLEAN, refreshing : BOOLEAN, eof : BOOLEAN,
                need_wakeup : BOOLEAN, reader_head : 0..Len(File),
                skip_to_keyframe : BOOLEAN, base_ts : 0..Len(File),
                last_ret_dts : 0..Len(File), reader : {"ready", "wait", "eof"}]]
  /\ pc \in {"start", "wait", "read", "got", "seek", "switch"}
  /\ Len(d.ranges) \in 1..MaxRanges
  /\ \A s \in Streams : d.ds[s].reader_head \in ToSet(Queue(d, s).pkts) \cup {NOPTS}

(* A range is what the file has there: no queue of video or audio in it    *)
(* lacks, repeats or reorders a packet, so that a seek into it may rely on *)
(* seek_start and seek_end.  (Except after an overflow: demux.c sets is_eof*)
(* of a queue at an overflow, too, and the range is continued elsewhere.)  *)
CacheSound ==
  \A n \in DOMAIN d.ranges, s \in AV :
    s \notin overran => Consecutive(d.ranges[n].streams[s].pkts, s)

(* A decoder of video or audio gets one packet after the other, through    *)
(* cached ranges, joins, and refresh seeks for the sake of other streams;  *)
(* and after a seek, or a selection of its track, it starts no later than  *)
(* the time that was asked for.                                            *)
FirstFrom(s, t) == MinPts({p \in Packets(s) : p >= t})
Gapless ==
  [][\A s \in AV \ overran :
       LET last == d.ds[s].last_ret_dts  ret == d'.ds[s].last_ret_dts
       IN ret # NOPTS /\ ret # last =>
            IF last # NOPTS THEN ret = FirstFrom(s, last + 1)
            ELSE s \notin stale => \A p \in Packets(s) : p < ret => p < goal[s]]_vars

(* A decoder of video or audio that was told EOF has had all packets to    *)
(* the end of the file from where it was to start: neither an abandoned    *)
(* read, nor a track switch, nor the end of an earlier read ends it.  The  *)
(* exception: a refresh seek at the end of the file leaves a queue empty,  *)
(* which then counts as complete, and a seek into that range finds nothing.*)
Bare(s) ==
  d.ds[s].last_ret_dts = NOPTS /\ Queue(d, s).pkts = <<>> /\ Queue(d, s).last_dts # NOPTS
EofTrue ==
  \A s \in AV \ (overran \cup stale) :
    d.ds[s].reader = "eof" /\ ~Bare(s) =>
      \A p \in Packets(s) : p <= d.ds[s].last_ret_dts \/ p < goal[s]

(* A decoder that waits for a packet is called back, with a packet or EOF, *)
(* also if the queues of other streams are full and their decoders take    *)
(* nothing before this one goes on.  There are two exceptions, both of the *)
(* code: its request was ignored (see Heard), or ranges were joined while  *)
(* it waited: attempt_range_joining() puts its reader at a packet of the   *)
(* other range (demux.c:1930) without the wakeup_ds() that the comment at  *)
(* demux.c:878 demands, and with that packet there may be no reason to     *)
(* read another one, which would call it.                                  *)
Waiting(s) == d.ds[s].reader = "wait"
Served == \A s \in Streams : Waiting(s) ~> (~Waiting(s) \/ ignored \/ s \in unheard)

(* demux.c:2965: "Poll the demuxer queue, and if there's a packet, return  *)
(* it.  Otherwise, just make the demuxer thread read packets for this      *)
(* stream, and if there's at least one packet, call the wakeup callback":  *)
(* the thread does not sleep while a decoder waits.                        *)
Heard == pc = "wait" /\ d.asleep /\ ~d.blocked => \A s \in Streams : ~Waiting(s)
=============================================================================
