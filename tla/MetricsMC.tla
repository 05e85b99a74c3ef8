----------------------------- MODULE MetricsMC -----------------------------
(* Metrics for TLC.                                                          *)
EXTENDS Metrics, TLC

\* The penalties of the code in seconds.
KindsOfErrors == {"timeout", "http5xx", "http4xx"}
Bases == ("timeout" :> 30) @@ ("http5xx" :> 15) @@ ("http4xx" :> 5)
=============================================================================
