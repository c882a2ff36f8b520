----------------------------- MODULE DemuxCache -----------------------------
(***************************************************************************)
(* demux/demux.c: the packet cache, as operators on the state `d' of a     *)
(* demuxer (struct demux_internal; everything in it is changed under       *)
(* in->lock).  The cache is a list of ranges, each with one packet queue   *)
(* per stream; the last one is current: packets are appended to it and the *)
(* readers stand in it.                                                    *)
(*                                                                         *)
(* A packet is its position in File, which also is its pts, its dts and    *)
(* its pos: timestamps grow strictly, so that correct_dts holds, and are   *)
(* counted in units of a second, one packet per second.  A packet has size *)
(* 1.  Backward demuxing, attached pictures, segments, recording, the disk *)
(* cache and seek_preroll are left out, and the seek index: it only makes  *)
(* the search for a packet faster.                                         *)
(***************************************************************************)
EXTENDS Integers, SequencesExt

CONSTANTS
  File,            (* File[p]: [stream, key] of packet p                   *)
  Types,           (* Types[s]: "video", "audio" or "sub"                  *)
  MaxRanges,       (* MAX_SEEK_RANGES                                      *)
  donate_fw        (* option demuxer-donate-buffer                         *)

NOPTS == 0         (* MP_NOPTS_VALUE: below every timestamp; NULL packet   *)
Streams == DOMAIN Types
InOrder == [s \in Streams |-> s]
Key(p) == File[p].key

NewQueue ==
  [pkts |-> <<>>, keyframe_latest |-> NOPTS, seek_start |-> NOPTS,
   seek_end |-> NOPTS, last_pruned |-> NOPTS, last_dts |-> NOPTS,
   last_ts |-> NOPTS, is_bof |-> FALSE, is_eof |-> FALSE]

NewRange ==
  [streams |-> [s \in Streams |-> NewQueue], seek_start |-> NOPTS,
   seek_end |-> NOPTS, is_bof |-> FALSE, is_eof |-> FALSE]

Current(d) == Last(d.ranges)
Queue(d, s) == Current(d).streams[s]
SetQueue(d, s, q) == [d EXCEPT !.ranges[Len(d.ranges)].streams[s] = q]
SetCurrent(d, r) == [d EXCEPT !.ranges[Len(d.ranges)] = r]

Selected(d) == {s \in Streams : d.ds[s].selected}

(* Subtitles are read eagerly only if nothing else is.                     *)
Eager(d, s) ==
  s \in Selected(d) /\ (Types[s] = "sub" => \A t \in Selected(d) : Types[t] = "sub")

Bytes(d) ==
  MapThenSumSet(LAMBDA x : Len(d.ranges[x[1]].streams[x[2]].pkts),
                (DOMAIN d.ranges) \X Streams)

get_forward_buffered_bytes(d, s) ==
  IF d.ds[s].reader_head = NOPTS THEN 0
  ELSE Cardinality({p \in ToSet(Queue(d, s).pkts) : p >= d.ds[s].reader_head})
ForwardBytes(d) == MapThenSumSet(LAMBDA s : get_forward_buffered_bytes(d, s), Streams)

MinPts(S) == IF S \ {NOPTS} = {} THEN NOPTS ELSE Min(S \ {NOPTS})
MaxPts(S) == Max(S \cup {NOPTS})

(* The part of the file that all eager queues of the range have; a pruned  *)
(* subtitle excludes its own time, too (the code adds 0.1 s).              *)
update_seek_ranges(d, r) ==
  LET q == r.streams
      eager == {s \in Streams : Eager(d, s)}
      bof == \A s \in eager : q[s].is_bof
      eof == \A s \in eager : q[s].is_eof
      start == IF bof THEN MinPts({q[s].seek_start : s \in eager})
               ELSE MaxPts({q[s].seek_start : s \in {t \in eager : ~q[t].is_bof}})
      end == IF eof THEN MaxPts({q[s].seek_end : s \in eager})
             ELSE MinPts({q[s].seek_end : s \in {t \in eager : ~q[t].is_eof}})
      pruned == {q[s].last_pruned + 1 : s \in
                   {t \in Selected(d) \ eager : q[t].last_pruned # NOPTS}}
      first == IF start = NOPTS THEN NOPTS ELSE Max({start} \cup pruned)
      broken ==
        \/ \E s \in eager :
             /\ q[s].seek_start >= q[s].seek_end
             /\ ~(q[s].is_eof /\ q[s].pkts = <<>>)
             /\ q[s].seek_start # q[s].seek_end \/ q[s].seek_start = NOPTS
        \/ first >= end /\ ~(bof /\ eof)
  IN [r EXCEPT !.is_bof = bof, !.is_eof = eof,
               !.seek_start = IF broken THEN NOPTS ELSE first,
               !.seek_end = IF broken THEN NOPTS ELSE end]

UpdateCurrent(d) == SetCurrent(d, update_seek_ranges(d, Current(d)))

remove_head_packets(q, n) ==
  [q EXCEPT !.pkts = SubSeq(@, n + 1, Len(@)),
            !.is_bof = @ /\ n = 0,
            !.keyframe_latest =
               IF \E i \in 1..n : q.pkts[i] = @ THEN NOPTS ELSE @]

clear_cached_range(d, r) ==
  update_seek_ranges(d, [r EXCEPT !.streams = [s \in Streams |-> NewQueue]])

(* All empty ranges but the current one go, and the shortest one if there  *)
(* are too many.                                                           *)
free_empty_cached_ranges(d) ==
  LET kept == SelectSeq(Front(d.ranges), LAMBDA r :
                          r.seek_start # NOPTS /\ d.seekable_cache)
      size(n) == kept[n].seek_end - kept[n].seek_start
      worst == CHOOSE n \in DOMAIN kept : \A m \in DOMAIN kept :
                 size(n) < size(m) \/ (size(n) = size(m) /\ n >= m)
  IN [d EXCEPT !.ranges =
        Append(IF Len(kept) >= MaxRanges THEN RemoveAt(kept, worst) ELSE kept,
               Current(d))]

(* Tell the reader of s that its state has changed; its decoder will call  *)
(* again.  in->wakeup is signalled as well.                                *)
wakeup_ds(d, s) ==
  IF ~d.ds[s].need_wakeup THEN d
  ELSE [d EXCEPT !.ds[s].need_wakeup = FALSE, !.ds[s].reader = "ready",
                 !.asleep = FALSE]

Keyframes(q) == {p \in ToSet(q.pkts) : Key(p)}

(* compute_keyframe_times(): the time of the last packet of the block that *)
(* starts with keyframe k; k itself is the first.                          *)
BlockEnd(q, k) ==
  Max({p \in ToSet(q.pkts) : p >= k /\ \A j \in Keyframes(q) : j > k => p < j})

(* The last keyframe up to pts, or else the first one (SEEK_FORWARD is not *)
(* modelled).                                                              *)
find_seek_target(q, pts) ==
  LET upto == {k \in Keyframes(q) : k <= pts}
  IN IF upto # {} THEN Max(upto) ELSE MinPts(Keyframes(q))
-----------------------------------------------------------------------------
(* Joining the current range with one that it has grown into.              *)

Overlaps(d, n) ==
  /\ Current(d).seek_start <= d.ranges[n].seek_start
  /\ Current(d).seek_end > d.ranges[n].seek_start

(* The range whose beginning is closest to the end of the current one.     *)
JoinCandidate(d) ==
  CHOOSE n \in 1..Len(d.ranges) - 1 :
    /\ Overlaps(d, n)
    /\ \A m \in 1..Len(d.ranges) - 1 :
         Overlaps(d, m) =>
           \/ d.ranges[n].seek_start > d.ranges[m].seek_start
           \/ d.ranges[n].seek_start = d.ranges[m].seek_start /\ n <= m

(* Heads of q2 that the search for the last packet of q1 removes.          *)
KeepsOverlap(q1, q2) == {}                             (* mutant of Overlap *)
Overlap(q1, q2) ==
  IF q1.pkts = <<>> THEN {} ELSE {p \in ToSet(q2.pkts) : p <= Last(q1.pkts)}

(* The search gives up at the last keyframe of q2.                         *)
Joinable(d, s, q1, q2) ==
  q1.pkts # <<>> =>
    LET end == Last(q1.pkts)
        beyond == ToSet(q2.pkts) \ Overlap(q1, q2)
        seen == Overlap(q1, q2) \cup
                (IF end \in ToSet(q2.pkts) \/ beyond = {} THEN {} ELSE {Min(beyond)})
    IN /\ q2.keyframe_latest \notin seen
       /\ Eager(d, s) => end \in ToSet(q2.pkts)

JoinQueues(q1, q2) ==
  LET rest == SubSeq(q2.pkts, Cardinality(Overlap(q1, q2)) + 1, Len(q2.pkts))
  IN [q1 EXCEPT !.pkts = @ \o rest, !.seek_end = q2.seek_end,
                !.last_dts = q2.last_dts, !.last_ts = q2.last_ts,
                !.keyframe_latest = q2.keyframe_latest, !.is_eof = q2.is_eof]

JoinPoint(q1, q2) == MinPts(ToSet(q2.pkts) \ Overlap(q1, q2))

(* Whatever comes of it, the other range is gone.  A demuxer that joins    *)
(* has to continue behind it: a seek to just before its end is queued, and *)
(* the packets that are there already are to be skipped (refreshing).      *)
Join(d, n) ==
  LET cur == Current(d).streams
      next == d.ranges[n].streams
      queues == [s \in Streams |-> JoinQueues(cur[s], next[s])]
  IN UpdateCurrent(
       [d EXCEPT !.ranges[Len(d.ranges)].streams = queues,
                 !.ds = [s \in Streams |->
                   [@[s] EXCEPT !.reader_head =
                      IF d.ds[s].selected /\ @ = NOPTS
                      THEN JoinPoint(cur[s], next[s]) ELSE @,
                      !.skip_to_keyframe = FALSE,
                      !.refreshing = d.ds[s].selected]],
                 !.seeking = TRUE, !.seek_pts = d.ranges[n].seek_end - 1])

attempt_range_joining(d) ==
  IF ~\E n \in 1..Len(d.ranges) - 1 : Overlaps(d, n) THEN d
  ELSE LET n == JoinCandidate(d)
           next == d.ranges[n].streams
           works == \A s \in Streams : Joinable(d, s, Queue(d, s), next[s])
           joined == IF works THEN Join(d, n) ELSE d
       IN free_empty_cached_ranges(
            [joined EXCEPT !.ranges[n] = clear_cached_range(joined, @)])
-----------------------------------------------------------------------------
(* A packet has been appended, or with dp = NOPTS the stream is at its     *)
(* end: a keyframe or the end completes the block before it, and makes it  *)
(* seekable.                                                               *)
adjust_seek_range_on_packet(d, s, dp) ==
  IF ~d.seekable_cache THEN d ELSE
  LET q == Queue(d, s)
      closing == IF dp = NOPTS THEN TRUE ELSE Key(dp)
      kf == q.keyframe_latest
      block == closing /\ kf # NOPTS
      first == block /\ q.seek_start = NOPTS
      longer == block /\ BlockEnd(q, kf) > q.seek_end
      update == \/ q.is_eof # (dp = NOPTS)
                \/ first
                \/ longer /\ (Current(d).seek_end = NOPTS
                                \/ q.seek_end <= Current(d).seek_end)
      adjusted == SetQueue(d, s,
        [q EXCEPT !.is_eof = (dp = NOPTS),
                  !.keyframe_latest = IF closing THEN dp ELSE @,
                  !.seek_start = IF first THEN kf ELSE @,
                  !.is_bof = @ /\ (first => kf <= 2),   (* BOF_START_TOLERANCE *)
                  !.seek_end = IF longer THEN BlockEnd(q, kf) ELSE @])
  IN IF update /\ Eager(d, s) THEN attempt_range_joining(UpdateCurrent(adjusted))
     ELSE adjusted

(* The reader stands in the current range.  An older one may have a packet *)
(* of the same position, but that is another packet.                       *)
NoReaderAt(d, s, p) == FALSE                          (* mutant of ReaderAt *)
ReaderAt(d, s, p) == Len(d.ranges) = 1 /\ p = d.ds[s].reader_head

(* Packets of the least recently used range, behind the reader.            *)
Prunable(d, s) ==
  LET q == d.ranges[1].streams[s]
  IN q.pkts # <<>> /\ ~ReaderAt(d, s, Head(q.pkts))

PruneAlways(d, s) ==
  LET q == d.ranges[1].streams[s]
  IN ~d.seekable_cache \/ q.seek_start = NOPTS \/ ~Key(Head(q.pkts))

(* The first stream that cannot be kept anyway, or else the one that       *)
(* begins first.                                                           *)
EarliestStream(d) ==
  LET able == {s \in Streams : Prunable(d, s)}
      always == {s \in able : PruneAlways(d, s)}
      start(s) == d.ranges[1].streams[s].seek_start
  IN IF always # {} THEN Min(always)
     ELSE CHOOSE s \in able : \A t \in able :
            start(s) < start(t) \/ (start(s) = start(t) /\ s <= t)

(* How many heads go: up to the reader, and if the cache is seekable up to *)
(* the next keyframe.                                                      *)
PruneLength(d, s) ==
  LET pkts == d.ranges[1].streams[s].pkts
      stop(i) == \/ ReaderAt(d, s, pkts[i])
                 \/ d.seekable_cache /\ Key(pkts[i]) /\ i > 1
  IN Min({i \in DOMAIN pkts : stop(i)} \cup {Len(pkts) + 1}) - 1

PruneStream(d, s) ==
  LET r == d.ranges[1]
      q == r.streams[s]
      n == PruneLength(d, s)
      keys == \E i \in 1..n : Key(q.pkts[i])
      shorter == remove_head_packets(q, n)
      start == MinPts(Keyframes(shorter))
      pruned == [shorter EXCEPT
                   !.last_pruned = IF q.seek_start # NOPTS THEN q.seek_start ELSE @,
                   !.seek_start = start]
      update == keys /\ ~(start # NOPTS /\ (r.seek_start = NOPTS \/ start <= r.seek_start))
      range == [r EXCEPT !.streams[s] = IF keys THEN pruned ELSE shorter]
      d1 == [d EXCEPT !.ranges[1] = IF update THEN update_seek_ranges(d, range) ELSE range]
  IN IF Len(d.ranges) > 1 /\ d1.ranges[1].seek_start = NOPTS
     THEN free_empty_cached_ranges(d1) ELSE d1

MaxBackward(d) ==
  LET unused == d.max_bytes - (ForwardBytes(d) + 1)
  IN d.max_bytes_bw + IF d.max_bytes_bw > 0 /\ unused > 0 /\ donate_fw THEN unused ELSE 0

RECURSIVE prune_old_packets(_)
prune_old_packets(d) ==
  IF \/ Bytes(d) - ForwardBytes(d) <= MaxBackward(d)
     \/ \A s \in Streams : ~Prunable(d, s)
  THEN d
  ELSE prune_old_packets(PruneStream(d, EarliestStream(d)))

(* The current range is put aside for r; what cannot be reached by seeking *)
(* is removed from it.                                                     *)
switch_current_range(d, others, r) ==
  LET old == Current(d)
      junk(q) == Min({i \in DOMAIN q.pkts : Key(q.pkts[i])} \cup {Len(q.pkts) + 1}) - 1
      kept == [old EXCEPT !.streams =
                 [s \in Streams |-> remove_head_packets(@[s], junk(@[s]))]]
  IN free_empty_cached_ranges(
       [d EXCEPT !.ranges = others \o <<kept, r>>,
                 !.ds = [s \in Streams |->
                           [@[s] EXCEPT !.refreshing = FALSE, !.eof = FALSE]]])

switch_to_fresh_cache_range(d) ==
  IF ~d.seekable_cache
  THEN SetCurrent(d, clear_cached_range(d, Current(d)))
  ELSE switch_current_range(d, Front(d.ranges), NewRange)
=============================================================================
