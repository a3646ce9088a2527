------------------------------ MODULE MCPreflight ------------------------------
(* Instances of Preflight for TLC.                                         *)
EXTENDS Preflight

CONSTANTS Prices, Quantities, Notionals, Slippages

\* An OKX market entry, and the other commands the executor is meant for.
OkxEntryCommand ==
  [secretFields |-> FALSE, provider |-> "okx", mode |-> "real", source |-> "provider",
   attested |-> TRUE, adapter |-> OkxOrderAdapter, market |-> "okx_swap",
   marginMode |-> "cross", marginType |-> Absent, tdMode |-> Absent,
   positionMode |-> Absent, closePosition |-> Absent, reduceOnly |-> Absent,
   symbol |-> "BTCUSDT", side |-> "long", effect |-> "open", type |-> "market",
   quantity |-> 7, notional |-> None, limitPrice |-> None, stopPrice |-> None,
   stopLoss |-> 8, takeProfit |-> <<18>>, priceReference |-> 13,
   maxSlippageBps |-> 3000, timeInForce |-> Absent, leverage |-> 15]
BinanceCommand ==
  [OkxEntryCommand EXCEPT !.provider = "binance", !.adapter = BinanceTestAdapter,
     !.market = "usdm_futures", !.type = "limit", !.limitPrice = 11]
OkxCloseCommand ==
  [OkxEntryCommand EXCEPT !.effect = "close", !.reduceOnly = "true"]
PrecheckCommand ==
  [OkxEntryCommand EXCEPT !.adapter = OkxPrecheckAdapter, !.mode = "external_paper"]
PaperCommand ==
  [OkxEntryCommand EXCEPT !.adapter = Absent, !.mode = "external_paper"]

Bases == {OkxEntryCommand, BinanceCommand, OkxCloseCommand, PrecheckCommand, PaperCommand}

\* Each of a base's fields with each of its other values.
FlagValues == {"true", "false"}
Variants(c) ==
  UNION {
    {[c EXCEPT !.secretFields = TRUE], [c EXCEPT !.source = "local"],
     [c EXCEPT !.attested = FALSE], [c EXCEPT !.marginMode = Absent],
     [c EXCEPT !.symbol = Absent], [c EXCEPT !.leverage = None],
     [c EXCEPT !.quantity = None], [c EXCEPT !.quantity = Bad],
     [c EXCEPT !.takeProfit = <<>>], [c EXCEPT !.takeProfit = <<18, Bad>>]},
    {[c EXCEPT !.provider = v] : v \in {"okx", "binance", Absent}},
    {[c EXCEPT !.mode = v] : v \in {"real", "external_paper", "paper"}},
    {[c EXCEPT !.adapter = v] :
       v \in {OkxOrderAdapter, OkxPrecheckAdapter, BinanceTestAdapter, Absent}},
    {[c EXCEPT !.market = v] : v \in {"usdm_futures", "spot", Absent}},
    {[c EXCEPT !.marginType = "isolated"], [c EXCEPT !.tdMode = "isolated"]},
    {[c EXCEPT !.positionMode = v] : v \in {"one_way", "hedge"}},
    {[c EXCEPT !.closePosition = v] : v \in FlagValues},
    {[c EXCEPT !.reduceOnly = v] : v \in FlagValues \cup {Absent}},
    {[c EXCEPT !.side = v] : v \in {"short", "none"}},
    {[c EXCEPT !.effect = v] : v \in Effects \cup {"none"}},
    {[c EXCEPT !.type = v] : v \in SupportedOrderTypes \cup {"none"}}}

Permissive ==
  [kind |-> "policy", enabled |-> "true", killSwitch |-> "false", paperOnly |-> "false"]

\* The commands under a policy that lets them pass.
Permitted(commands) ==
  [command : commands, enabled : {TRUE}, policy : {Permissive}, rewrite : {Permissive}]

\* Commands that differ from a base in up to two fields; a few without the
\* option to place orders, or under every policy and rewrite of it.
GateInputs ==
  LET near == UNION {Variants(b) : b \in Bases}
  IN  Permitted(UNION {Variants(c) : c \in near})
        \cup {[i EXCEPT !.enabled = FALSE] : i \in Permitted(near)}
PolicyInputs ==
  [command : Bases \cup {[b EXCEPT !.attested = FALSE] : b \in Bases},
   enabled : {TRUE}, policy : PolicyFiles, rewrite : PolicyFiles]

\* The numbers an order is made of: every size with every price it can be computed
\* with, under triggers that pass; every trigger with every price it is compared with.
Optional(S) == S \cup {None}
Priced(base, types) ==
  {[base EXCEPT !.side = s, !.effect = e, !.type = t, !.limitPrice = l,
                !.priceReference = p] :
     s \in {"long", "short"}, e \in {"open", "reduce"}, t \in types,
     l \in Optional(Prices), p \in Optional(Prices)}
Sized(commands) ==
  {[c EXCEPT !.quantity = q[1], !.notional = q[2]] :
     c \in commands,
     q \in (Optional(Quantities) \X {None}) \cup ({None} \X Notionals)}
Triggered(commands) ==
  {[c EXCEPT !.stopLoss = sl, !.takeProfit = <<tp>>, !.maxSlippageBps = b] :
     c \in commands, sl \in Prices, tp \in Prices, b \in Slippages}
PassingTriggers(c) ==
  IF c.side = "long" THEN c ELSE [c EXCEPT !.stopLoss = 18, !.takeProfit = <<8>>]

OkxPriced == Priced(OkxEntryCommand, {"market", "limit"})
BinancePriced ==
  {[c EXCEPT !.stopPrice = c.priceReference] :
     c \in Priced(BinanceCommand, SupportedOrderTypes)}
NumberInputs ==
  Permitted(Sized({PassingTriggers(c) : c \in OkxPriced}))
    \cup Permitted(Triggered(OkxPriced)) \cup Permitted(Sized(BinancePriced))

AllInputs == GateInputs \cup PolicyInputs \cup NumberInputs

MCFilters ==
  [trading |-> TRUE, orderTypes |-> {"LIMIT", "MARKET", "STOP", "STOP_MARKET"},
   timeInForce |-> {"GTC", "IOC"}, tick |-> 4, minPrice |-> 8, maxPrice |-> 16,
   step |-> 2, minQty |-> 4, maxQty |-> 10, marketStep |-> 3, marketMinQty |-> 0,
   marketMaxQty |-> 6, minNotional |-> 50]
===============================================================================
