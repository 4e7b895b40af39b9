----------------------------- MODULE MCMapStore -----------------------------
(* Instances of the map store for TLC. *)
EXTENDS MapStore, TLC

CONSTANTS p1, p2, p3

ScanAndRebuild == p1 :> "scan" @@ p2 :> "rebuild"

OneScan == p1 :> "scan"

ScanEnsureRebuild == p1 :> "scan" @@ p2 :> "ensure" @@ p3 :> "rebuild"
=============================================================================
