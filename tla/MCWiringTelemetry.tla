------------------------- MODULE MCWiringTelemetry -------------------------
(* WiringTelemetry with interchangeable engagements. *)
EXTENDS WiringTelemetry, TLC

EngagementSymmetry == Permutations(Engagements)
=============================================================================
