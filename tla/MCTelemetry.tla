----------------------------- MODULE MCTelemetry -----------------------------
(* Instances of TelemetryPipeline for TLC. *)
EXTENDS TelemetryPipeline, TLC

CONSTANTS k1, k2

MCKeys == {k1, k2}
\* Readings of two metrics, interleaved.
MCKeyOf == 1 :> k1 @@ 2 :> k2 @@ 3 :> k1
=============================================================================
