--------------------------- MODULE MCSyncRotation ---------------------------
(***************************************************************************)
(* Values of the constants of SyncRotation for TLC.                        *)
(***************************************************************************)
EXTENDS SyncRotation

CONSTANTS ticker, request

TwoEach == [s \in Syncs |-> IF s = ticker THEN 2 ELSE 1]
=============================================================================
