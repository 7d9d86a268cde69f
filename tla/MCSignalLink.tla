---------------------------- MODULE MCSignalLink ----------------------------
(* SignalLink with value signals that share one domain signal.              *)
EXTENDS SignalLink

CONSTANTS v, w, t, none

\* Two value signals, or one, on the domain signal t.
TwoValues == {v, w, t}
OneValue == {v, t}

TableOfTwo == [s \in TwoValues |-> t]
TableOfOne == [s \in OneValue |-> t]

\* The domain signal is linear.
LinearT == {t}
=============================================================================
