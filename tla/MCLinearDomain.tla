--------------------------- MODULE MCLinearDomain ---------------------------
(* LinearDomain with two explicit signals and one driven signal.           *)
EXTENDS LinearDomain

CONSTANTS v, w, d, t

\* Two rules, so that a metadata change moves the anchor and the slope.
TwoRules == {[start |-> 0, delta |-> 1], [start |-> 2, delta |-> 2]}

\* The valueIndex the metadata builder writes.
Built == {0}
=============================================================================
