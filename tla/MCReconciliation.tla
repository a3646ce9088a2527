--------------------------- MODULE MCReconciliation ---------------------------
(* Instances of Reconciliation for TLC.                                    *)
EXTENDS Reconciliation, TLC

CONSTANTS entry, pair, stop, byHand, close

MCOrder == {entry, pair, stop, byHand, close}

MCRole == entry :> "entry" @@ pair :> "attached" @@ stop :> "standalone"
            @@ byHand :> "manual" @@ close :> "close"

MCLots == entry :> 2 @@ pair :> 1 @@ stop :> 1 @@ byHand :> 1 @@ close :> 1

\* One of the code's four types is enough to fail, or to change between its two
\* queries.
MCAlgoTypes == <<"conditional">>
MCAlgoType == pair :> "conditional" @@ stop :> "conditional"
===============================================================================
