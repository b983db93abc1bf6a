---------------------------- MODULE MCTelemetry -----------------------------
(* Small instances of Telemetry: constants for the configuration.          *)
EXTENDS Telemetry, TLC

CONSTANTS w1, w2, primary, discovered

TwoWorkers == {w1, w2}
TwoModels == {primary, discovered}

=============================================================================
