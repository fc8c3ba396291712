------------------------------ MODULE MCAssistant ------------------------------
(***************************************************************************)
(* Symmetry is not used: Assistant_chat checks a liveness property.        *)
(***************************************************************************)
EXTENDS Assistant
=============================================================================
