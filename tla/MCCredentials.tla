----------------------------- MODULE MCCredentials -----------------------------
(* Instances of Credentials for TLC.                                       *)
EXTENDS Credentials

CONSTANTS main, alt, o1, o2, h1
===============================================================================
