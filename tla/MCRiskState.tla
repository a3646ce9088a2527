------------------------------ MODULE MCRiskState ------------------------------
(* Instances of RiskState and of its composition with the handlers.        *)
EXTENDS DrawdownGate

CONSTANTS u1, u2, h1
===============================================================================
