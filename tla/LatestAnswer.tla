---------------------------- MODULE LatestAnswer ----------------------------
(***************************************************************************)
(* What a screen that can ask again before it was answered promises: an    *)
(* answer is shown only if nothing was asked after it.  PagedList          *)
(* implements it with a request id (hooks/use-paged-list.ts).              *)
(***************************************************************************)
EXTENDS Naturals

VARIABLES
  asked,  \* questions so far
  shown   \* the question the screen shows the answer of, 0 for none

Init == asked = 0 /\ shown = 0

Ask == asked' = asked + 1 /\ UNCHANGED shown
Show == asked > 0 /\ shown' = asked /\ UNCHANGED asked
\* The screen is opened anew.
Clear == shown' = 0 /\ UNCHANGED asked

Next == Ask \/ Show \/ Clear

Spec == Init /\ [][Next]_<<asked, shown>>
=============================================================================
