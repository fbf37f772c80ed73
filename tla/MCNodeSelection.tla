--------------------------- MODULE MCNodeSelection ---------------------------
(***************************************************************************)
(* Nodes and zones for TLC.                                                *)
(***************************************************************************)
EXTENDS SelectionHistory, TLC

SixNodes   == 1..6
ThreeZones == 1 :> "a" @@ 2 :> "a" @@ 3 :> "a" @@ 4 :> "b" @@ 5 :> "b" @@ 6 :> "c"

=============================================================================
