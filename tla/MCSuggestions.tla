---------------------------- MODULE MCSuggestions ----------------------------
(***************************************************************************)
(* Values of the constants of Suggestions for TLC.  ann and bob are at     *)
(* acme; ann writes m1; bob, a contact with a deal, writes m2 to her.      *)
(***************************************************************************)
EXTENDS Suggestions, TLC

CONSTANTS ann, bob, acme, m1, m2, e1, e2, e3, deal

AtAcme == [a \in Addresses |-> acme]
BobWritesLast == [m \in Messages |-> IF m = m1 THEN ann ELSE bob]
ToAnn == [m \in Messages |-> IF m = m1 THEN {} ELSE {ann}]
AtOneTime == [m \in Messages |-> 1]
BobKnown == [e \in {e1} |-> bob]
BobsDeal == {<<deal, e1>>}
Symmetry == Permutations(Workers) \cup Permutations({e2, e3})
=============================================================================
