-------------------------- MODULE EndpointHealthMC --------------------------
(* EndpointHealth for TLC.                                                  *)
EXTENDS EndpointHealth

CONSTANTS a, b
=============================================================================
