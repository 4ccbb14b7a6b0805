---------------------------- MODULE MCTaskStream ----------------------------
(* TaskStream for TLC: the single process, workers whose messages all arrive, *)
(* and workers whose messages may be lost, each with its own bounds.          *)
EXTENDS TaskStream

Install(bridged, lossy, rs, ts, ss, cs, ms) ==
    [ bridged |-> bridged, lossy |-> lossy, maxRuns |-> rs, maxTokens |-> ts,
      maxSegments |-> ss, maxConnects |-> cs, maxInFlight |-> ms ]

SingleProcess == Install(FALSE, FALSE, 2, 2, 2, 2, 1)
WholeBridge   == Install(TRUE, FALSE, 2, 2, 2, 0, 2)
LossyTokens   == Install(TRUE, TRUE, 1, 2, 1, 1, 1)
LossyRuns     == Install(TRUE, TRUE, 2, 1, 1, 1, 1)

AllDeployments == {SingleProcess, WholeBridge, LossyTokens, LossyRuns}
=============================================================================
