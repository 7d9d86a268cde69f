-------------------------- MODULE MCForeignSource ---------------------------
(* ForeignSource with one value signal and its domain signal.              *)
EXTENDS ForeignSource

CONSTANTS v, t, none

ValueAndDomain == {v, t}
DomainT == [s \in ValueAndDomain |-> t]
LinearT == {t}
=============================================================================
