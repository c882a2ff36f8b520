------------------------------ MODULE MCDemux ------------------------------
(* Model checking instance of Demux: a video with keyframes, audio, and    *)
(* one subtitle.  Either the player seeks twice, with room for the whole   *)
(* file, or it seeks once and switches the audio track, with little room.  *)
EXTENDS Demux

V(key) == [stream |-> 1, key |-> key]
A == [stream |-> 2, key |-> TRUE]
S == [stream |-> 3, key |-> TRUE]
MCFile == <<V(TRUE), S, V(TRUE), A, V(FALSE), A, V(TRUE), A, V(TRUE)>>
MCTypes == <<"video", "audio", "sub">>
Use(selected, n, m, fw, bw) ==
  [selected |-> selected, seeks |-> n, switches |-> m,
   max_bytes |-> fw, max_bytes_bw |-> bw]
MCUses == {Use({1, 2, 3}, 2, 0, 8, 8), Use({1, 2}, 2, 1, 8, 8), Use({1}, 1, 1, 4, 2)}
HeardUses == {Use({1, 3}, 1, 1, 4, 2)}
=============================================================================
