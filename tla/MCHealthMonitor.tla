-------------------------- MODULE MCHealthMonitor --------------------------
(* Names for the pods of a small instance of HealthMonitor. *)
EXTENDS HealthMonitor

CONSTANTS w1, w2, a1
=============================================================================
