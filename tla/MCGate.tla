------------------------------- MODULE MCGate -------------------------------
(* Instances of GateServer for TLC: which scans are made, of which kind.    *)
EXTENDS GateServer, TLC

\* A phone with the single menu of older builds.
MCKindLegacy == (1 :> "GERBANG") @@ (2 :> "GERBANG")
=============================================================================
