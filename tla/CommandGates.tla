----------------------------- MODULE CommandGates -----------------------------
(***************************************************************************)
(* The gates that look at a command and at the local policy file, and the  *)
(* broker order request that is built from the command.  The credential    *)
(* gates are in Credentials, the drawdown stops in RiskState.              *)
(*                                                                         *)
(* A command and its commandPayload are one record here; a field that is   *)
(* read under several names is one field unless two parts of the code      *)
(* look for different names.                                               *)
(***************************************************************************)
EXTENDS Integers, Sequences

None == 0           \* no number
Bad == -1           \* a number that is not positive and finite, or no number at all
Absent == "absent"  \* no text, no flag

OkxOrderAdapter == "okx_swap_mainnet_order"
OkxPrecheckAdapter == "okx_swap_mainnet_order_precheck"
BinanceTestAdapter == "binance_usdm_futures_mainnet_order_test"
ValidateOnlyRealAdapters == {OkxPrecheckAdapter, BinanceTestAdapter}
RealOrderAdapters == {OkxOrderAdapter}

FuturesMarkets == {"okx_swap", "usdm_futures"}
MarginModes == {"cross", "isolated"}
SupportedOrderTypes == {"limit", "market", "stop", "stop_limit", "stop_market"}
Effects == {"open", "reduce", "close"}

\* _first over two names.
First(a, b) == IF a # Absent THEN a ELSE b

-------------------------------------------------------------------------------
(* The policy file.  Its flags default to TRUE.                            *)

Flags == {"true", "false", Absent}
PolicyFiles ==
  [kind : {"policy"}, enabled : Flags, killSwitch : Flags, paperOnly : Flags]
    \cup [kind : {"missing", "unreadable"}, enabled : {Absent}, killSwitch : {Absent},
          paperOnly : {Absent}]

\* Mutation of IsSet: a missing key is off.
IsSetMissingOff(flag) == flag = "true"

IsSet(flag) == flag # "false"

\* read_risk_policy does not raise; a disabled policy must keep its kill switch.
Loads(f) ==
  /\ f.kind # "unreadable"
  /\ f.kind = "policy" => IsSet(f.enabled) \/ IsSet(f.killSwitch)

\* Mutation of PolicyPasses: a disabled policy checks nothing.
PolicyPassesDisabled(f, mode) ==
  /\ f.kind = "policy"
  /\ IsSet(f.enabled) => ~IsSet(f.killSwitch) /\ (mode = "real" => ~IsSet(f.paperOnly))

\* What evaluate_command_risk asks of the policy.
PolicyPasses(f, mode) ==
  /\ f.kind = "policy"
  /\ IsSet(f.enabled)
  /\ ~IsSet(f.killSwitch)
  /\ mode = "real" => ~IsSet(f.paperOnly)

-------------------------------------------------------------------------------
(* The command.                                                            *)

\* Mutation of FuturesPasses: only opening commands are looked at.
FuturesPassesOpenOnly(c) ==
  c.market \in FuturesMarkets =>
    /\ First(c.marginMode, c.marginType) \in MarginModes
    /\ c.positionMode \in {"one_way", Absent}
    /\ c.closePosition # "true"
    /\ c.effect = "open" => c.reduceOnly # "true"

\* _evaluate_futures_risk.
FuturesPasses(c) ==
  c.market \in FuturesMarkets =>
    /\ First(c.marginMode, c.marginType) \in MarginModes
    /\ c.positionMode \in {"one_way", Absent}
    /\ c.closePosition # "true"
    /\ c.effect = "open" => c.reduceOnly # "true"
    /\ c.effect \in {"reduce", "close"} => c.reduceOnly # "false"

\* evaluate_command_risk.
RiskPasses(c, f) ==
  /\ PolicyPasses(f, c.mode)
  /\ c.mode = "real" => c.attested
  /\ c.market # Absent
  /\ FuturesPasses(c)

\* preflight_command's checks before and after the risk evaluation.
CommandValid(c) ==
  /\ ~c.secretFields
  /\ c.provider # Absent
  /\ c.mode \in {"external_paper", "real"}
  /\ c.source = "provider"

\* Mutation of AdapterAllowed: the order adapter needs no enablement.
AdapterAllowedAlways(c, enabled) ==
  c.mode = "real" => c.adapter \in ValidateOnlyRealAdapters \cup RealOrderAdapters

AdapterAllowed(c, enabled) ==
  c.mode = "real" =>
    /\ c.adapter \in ValidateOnlyRealAdapters \cup RealOrderAdapters
    /\ c.adapter \in RealOrderAdapters => enabled

-------------------------------------------------------------------------------
(* build_order_request.                                                    *)

NumberFields == {"quantity", "notional", "limitPrice", "stopPrice", "stopLoss",
                 "priceReference", "maxSlippageBps", "leverage"}

\* It does not raise.
RequestValid(c) ==
  /\ c.symbol # Absent
  /\ c.side \in {"long", "short"}
  /\ c.effect \in Effects
  /\ c.type \in SupportedOrderTypes
  /\ \A field \in NumberFields : c[field] # Bad
  /\ \A i \in DOMAIN c.takeProfit : c.takeProfit[i] # Bad
  /\ c.type \in {"limit", "stop_limit"} => c.limitPrice # None
  /\ c.type \in {"stop", "stop_limit", "stop_market"} => c.stopPrice # None
  /\ c.quantity # None \/ c.notional # None

BuildRequest(c) ==
  [mode |-> c.mode, side |-> c.side, effect |-> c.effect, type |-> c.type,
   quantity |-> c.quantity, notional |-> c.notional, limitPrice |-> c.limitPrice,
   stopPrice |-> c.stopPrice, stopLoss |-> c.stopLoss, takeProfit |-> c.takeProfit,
   priceReference |-> c.priceReference, maxSlippageBps |-> c.maxSlippageBps,
   timeInForce |-> c.timeInForce, margin |-> First(c.marginMode, c.tdMode),
   leverage |-> c.leverage]

===============================================================================
