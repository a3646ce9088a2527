----------------------------- MODULE MCProtection -----------------------------
(* Instances of Protection for TLC.                                        *)
EXTENDS Protection

CONSTANTS w1, w2

\* A position from elsewhere, of either direction, or none.
SomeOther == {-2, 0, 2}
===============================================================================
