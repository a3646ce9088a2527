----------------------------- MODULE BinanceOrder -----------------------------
(***************************************************************************)
(* From a broker order request to the parameters of a Binance USD-M        *)
(* Futures order test, against the symbol's filters.  Numbers are as in    *)
(* OkxOrder.                                                               *)
(***************************************************************************)
EXTENDS CommandGates, Rounding

CONSTANT Filters  \* the symbol's rules, a record

Unset == -1  \* a filter value the exchange does not give

ASSUME FiltersAssumption ==
  /\ {Filters.tick, Filters.step, Filters.minQty, Filters.maxQty} \subseteq Nat \ {0}
  /\ {Filters.minPrice, Filters.maxPrice, Filters.marketStep, Filters.marketMinQty,
      Filters.marketMaxQty, Filters.minNotional} \subseteq Nat \cup {Unset}

-------------------------------------------------------------------------------
(* The symbol's rules.                                                     *)

\* Python's `or`: a market filter that is absent or zero falls back.
MarketOr(market, other) == IF market \in {Unset, 0} THEN other ELSE market

Step(r) == IF r.type = "market" THEN MarketOr(Filters.marketStep, Filters.step) ELSE Filters.step
MinQty(r) ==
  IF r.type = "market" THEN MarketOr(Filters.marketMinQty, Filters.minQty) ELSE Filters.minQty
MaxQty(r) ==
  IF r.type = "market" THEN MarketOr(Filters.marketMaxQty, Filters.maxQty) ELSE Filters.maxQty

-------------------------------------------------------------------------------
(* The parts of the order.                                                 *)

BinanceSide(r) ==
  IF (r.side = "long" /\ r.effect = "open") \/ (r.side = "short" /\ r.effect # "open")
  THEN "BUY" ELSE "SELL"

BinanceType(r) ==
  CASE r.type = "limit" -> "LIMIT"
    [] r.type = "market" -> "MARKET"
    [] r.type = "stop_limit" -> "STOP"
    [] r.type \in {"stop", "stop_market"} -> "STOP_MARKET"

BinanceQuantity(r) == FloorTo(r.quantity, 1, Step(r))

\* Mutation of QuantityValid: the bounds are those of limit orders.
QuantityValidLotSize(r) ==
  BinanceQuantity(r) > 0
    /\ BinanceQuantity(r) >= Filters.minQty /\ BinanceQuantity(r) <= Filters.maxQty

QuantityValid(r) ==
  BinanceQuantity(r) > 0
    /\ BinanceQuantity(r) >= MinQty(r) /\ BinanceQuantity(r) <= MaxQty(r)

\* Mutation of BinanceRounded: every price is rounded down.
BinanceRoundedDown(price, side) == FloorTo(price, 1, Filters.tick)

\* _round_to_tick.
BinanceRounded(price, side) ==
  IF side = "BUY" THEN FloorTo(price, 1, Filters.tick) ELSE CeilTo(price, 1, Filters.tick)

\* _normalized_price of a price that is present.
BinancePrice(price, r) == BinanceRounded(price, BinanceSide(r))

BinancePriceValid(price, r) ==
  price # None =>
    /\ Filters.minPrice # Unset => BinancePrice(price, r) >= Filters.minPrice
    /\ Filters.maxPrice # Unset => BinancePrice(price, r) <= Filters.maxPrice

\* Mutation of NotionalValid: what was asked for is compared, before rounding.
NotionalValidBeforeRounding(r) ==
  Filters.minNotional # Unset =>
    IF r.limitPrice # None THEN r.limitPrice * r.quantity >= Filters.minNotional
    ELSE r.notional # None /\ r.notional >= Filters.minNotional

\* _validate_min_notional: a market order is taken at the notional it states.
NotionalValid(r) ==
  Filters.minNotional # Unset =>
    IF r.limitPrice # None
    THEN BinancePrice(r.limitPrice, r) * BinanceQuantity(r) >= Filters.minNotional
    ELSE r.notional # None /\ r.notional >= Filters.minNotional

\* binance_usdm_futures_order_test_params does not raise; without a quantity every
\* order type does.
BinanceValid(r) ==
  /\ Filters.trading
  /\ BinanceType(r) \in Filters.orderTypes
  /\ r.timeInForce # Absent => r.timeInForce \in Filters.timeInForce
  /\ r.quantity # None
  /\ QuantityValid(r)
  /\ BinancePriceValid(r.limitPrice, r)
  /\ BinancePriceValid(r.stopPrice, r)
  /\ NotionalValid(r)

BinanceParams(r) ==
  [side |-> BinanceSide(r), type |-> BinanceType(r), quantity |-> BinanceQuantity(r),
   reduceOnly |-> r.effect # "open",
   price |-> IF r.type \in {"limit", "stop_limit"} THEN BinancePrice(r.limitPrice, r) ELSE None,
   stopPrice |-> IF r.type \in {"stop", "stop_limit", "stop_market"}
                 THEN BinancePrice(r.stopPrice, r) ELSE None,
   timeInForce |-> IF r.type \in {"limit", "stop_limit"} THEN First(r.timeInForce, "GTC")
                   ELSE Absent]

===============================================================================
