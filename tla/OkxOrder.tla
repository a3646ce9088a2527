------------------------------- MODULE OkxOrder -------------------------------
(***************************************************************************)
(* From a broker order request to the parameters of an OKX SWAP order.     *)
(*                                                                         *)
(* Decimals are integers in a unit small enough that prices, sizes and     *)
(* notionals of a request are exact; the instrument's tick and lot are     *)
(* multiples of that unit.  Every check that fails raises a ValueError,    *)
(* which rejects the command, so checks are one conjunction.               *)
(***************************************************************************)
EXTENDS CommandGates, Rounding

CONSTANTS Tick, Lot, MinSize, ContractValue  \* the instrument's rules

ASSUME RulesAssumption == {Tick, Lot, MinSize, ContractValue} \subseteq Nat \ {0}

-------------------------------------------------------------------------------
(* Rounding.                                                               *)

\* Mutation of RoundToTick: the directions are exchanged.
RoundToTickAway(n, d, side) ==
  IF side = "buy" THEN CeilTo(n, d, Tick) ELSE FloorTo(n, d, Tick)

\* _round_to_tick: never a worse price than asked for, for the one who trades.
RoundToTick(n, d, side) ==
  IF side = "buy" THEN FloorTo(n, d, Tick) ELSE CeilTo(n, d, Tick)

-------------------------------------------------------------------------------
(* The parts of the order.                                                 *)

OkxSide(r) ==
  IF (r.side = "long") = (r.effect = "open") THEN "buy" ELSE "sell"

Opposite(r) == IF r.side = "long" THEN "sell" ELSE "buy"

\* A real market entry becomes an IOC limit order.
BoundedEntry(r) == r.mode = "real" /\ r.effect = "open" /\ r.type = "market"
OkxType(r) == IF BoundedEntry(r) THEN "ioc" ELSE r.type

\* The price a notional is converted with.
SizingPrice(r) ==
  IF r.type = "limit" /\ r.limitPrice # None THEN r.limitPrice ELSE r.priceReference

\* Mutation of OkxSize: the lot is rounded up.
OkxSizeRoundedUp(r) ==
  IF r.quantity # None THEN CeilTo(r.quantity, 1, Lot)
  ELSE CeilTo(r.notional, SizingPrice(r) * ContractValue, Lot)

OkxSize(r) ==
  IF r.quantity # None THEN FloorTo(r.quantity, 1, Lot)
  ELSE FloorTo(r.notional, SizingPrice(r) * ContractValue, Lot)

SizeValid(r) ==
  /\ r.quantity # None \/ (r.notional # None /\ SizingPrice(r) # None)
  /\ OkxSize(r) > 0
  /\ OkxSize(r) >= MinSize

\* The entry's worst price as a fraction over 10000.
SlippageBound(r) ==
  r.priceReference * (IF OkxSide(r) = "buy" THEN 10000 + r.maxSlippageBps
                                            ELSE 10000 - r.maxSlippageBps)

OkxPrice(r) ==
  IF OkxType(r) = "ioc" THEN RoundToTick(SlippageBound(r), 10000, OkxSide(r))
  ELSE IF OkxType(r) = "limit" THEN RoundToTick(r.limitPrice, 1, OkxSide(r))
  ELSE None

PriceValid(r) ==
  /\ r.type = "limit" => r.limitPrice # None
  /\ BoundedEntry(r) => r.priceReference # None /\ r.maxSlippageBps # None

\* The attached stop loss and take profit close the position; of several targets
\* only the first is sent.
StopLoss(r) == RoundToTick(r.stopLoss, 1, Opposite(r))
TakeProfit(r) == RoundToTick(Head(r.takeProfit), 1, Opposite(r))

\* What the two are compared with: the limit price, else the reference.
EntryReference(r) == IF r.limitPrice # None THEN r.limitPrice ELSE r.priceReference

Attached(r) == r.effect = "open" /\ r.stopLoss # None

\* Mutation of StopLossValid: the price is compared on the wrong side of a short.
StopLossValidLongOnly(r) ==
  EntryReference(r) # None =>
    (r.side = "long" => StopLoss(r) < EntryReference(r))

StopLossValid(r) ==
  EntryReference(r) # None =>
    IF r.side = "long" THEN StopLoss(r) < EntryReference(r)
                       ELSE StopLoss(r) > EntryReference(r)

\* Mutation of TakeProfitValid: equality passes.
TakeProfitValidEqual(r) ==
  r.takeProfit # <<>> /\ EntryReference(r) # None =>
    IF r.side = "long" THEN TakeProfit(r) >= EntryReference(r)
                       ELSE TakeProfit(r) <= EntryReference(r)

TakeProfitValid(r) ==
  r.takeProfit # <<>> /\ EntryReference(r) # None =>
    IF r.side = "long" THEN TakeProfit(r) > EntryReference(r)
                       ELSE TakeProfit(r) < EntryReference(r)

\* okx_swap_order_params does not raise.
OkxValid(r) ==
  /\ r.type \in {"market", "limit"}
  /\ r.margin \in MarginModes
  /\ SizeValid(r)
  /\ PriceValid(r)
  /\ r.mode = "real" /\ r.effect = "open" => r.stopLoss # None /\ r.takeProfit # <<>>
  /\ Attached(r) => StopLossValid(r) /\ TakeProfitValid(r)

OkxParams(r) ==
  [side |-> OkxSide(r), type |-> OkxType(r), size |-> OkxSize(r), price |-> OkxPrice(r),
   margin |-> r.margin, reduceOnly |-> r.effect # "open",
   stopLoss |-> IF Attached(r) THEN StopLoss(r) ELSE None,
   takeProfit |-> IF Attached(r) /\ r.takeProfit # <<>> THEN TakeProfit(r) ELSE None]

-------------------------------------------------------------------------------
(* The leverage.                                                           *)

\* _integer_leverage_text, of a leverage in tenths: whole, at least 1, never below
\* what was asked for.
WholeLeverage(r) == IF r.leverage <= 10 THEN 1 ELSE CeilTo(r.leverage, 10, 1)

===============================================================================
