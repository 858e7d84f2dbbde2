------------------------------ MODULE MCMonitor ------------------------------
(* An instance of LiveMonitor for TLC.                                      *)
EXTENDS LiveMonitor

\* Later rows are younger.
MCCreatedAt == [e \in Event |-> e]
=============================================================================
