--------------------------- MODULE MCAudioBuffer ----------------------------
(* Model checking instance of AudioBuffer: push drivers with and without   *)
(* set_pause(), streaming silence or untimed, and pull drivers.            *)
EXTENDS AudioBuffer

Kind(write, set_pause, reset) ==
  [write |-> write, set_pause |-> set_pause, reset |-> reset,
   stops_at_eof |-> FALSE, stream_silence |-> FALSE, untimed |-> FALSE,
   write_fails |-> write]
PushDriver == Kind(TRUE, TRUE, TRUE)
PullDriver == Kind(FALSE, TRUE, TRUE)
Stopping == [PullDriver EXCEPT !.stops_at_eof = TRUE]

MCDrivers ==
  {PushDriver, [PushDriver EXCEPT !.stream_silence = TRUE, !.write_fails = FALSE],
   [PushDriver EXCEPT !.untimed = TRUE], PullDriver, Kind(FALSE, FALSE, TRUE), Stopping}
StoppingDrivers == {Stopping}
=============================================================================
