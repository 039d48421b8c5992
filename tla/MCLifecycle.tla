---------------------------- MODULE MCLifecycle ----------------------------
(* Two clients of the metrics server, so that one can wait behind another  *)
(* that says nothing or leaves, and two signals, so that one can interrupt *)
(* a thread that the first did not reach.                                  *)
EXTENDS Lifecycle
=============================================================================
