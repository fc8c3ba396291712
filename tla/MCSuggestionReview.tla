------------------------- MODULE MCSuggestionReview -------------------------
(***************************************************************************)
(* Two suggestions of one organization, and a second organization.         *)
(***************************************************************************)
EXTENDS SuggestionReview

MCHome == [s \in Suggestions |-> "org"]
=============================================================================
