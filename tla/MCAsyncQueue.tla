---------------------------- MODULE MCAsyncQueue ----------------------------
(* Model checking instance of AsyncQueue: audio frames of different sizes  *)
(* and a signaling frame, counted in frames or in samples.                 *)
EXTENDS AsyncQueue

MCSamples == <<2, 0, 3>>
Config(unit, max) == [sample_unit |-> unit, max_samples |-> max]
MCConfigs == {Config("frame", 2), Config("samples", 3)}
=============================================================================
