------------------------------- MODULE Preflight -------------------------------
(***************************************************************************)
(* preflight_command: one leased command passes the gates, is turned into  *)
(* an order request and then into an order, and reaches the broker.        *)
(*                                                                         *)
(* The operator may rewrite the policy file once at any time, and an       *)
(* earlier command may have left any leverage at the broker.  Credentials  *)
(* and drawdown stops, which have modules of their own, reject at will     *)
(* here; so does the broker, and its answer to what it has accepted may be *)
(* lost or unusable.  Repetition of the command is CommandExecution's, so  *)
(* no lookup finds an order here.                                          *)
(***************************************************************************)
EXTENDS OkxOrder, BinanceOrder

CONSTANTS
  Inputs,  \* a leased command, the policy file it meets, its rewrite, and the option
           \* --enable-real-orders
  Levers   \* the leverages of the instrument

ASSUME LeversAssumption == Levers \subseteq Nat \ {0} /\ Levers # {}
ASSUME InputsAssumption ==
  \A i \in Inputs :
    /\ {i.policy, i.rewrite} \subseteq PolicyFiles
    /\ i.enabled \in BOOLEAN
    /\ \A field \in NumberFields : i.command[field] \in Nat \cup {Bad}
    /\ i.command.takeProfit \in Seq(Nat \cup {Bad})
    /\ i.command.reduceOnly \in Flags

VARIABLES
  command,
  enabled,   \* the executor runs with --enable-real-orders
  policy,    \* risk-policy.json
  rewrite,   \* what the operator rewrites it to; the same if it is left alone
  pc,
  leverage,  \* at the broker, of the instrument
  sent,      \* the order that reached the broker, if one did
  response,  \* what place_order came back with
  result,    \* what the handler ends with
  \* history
  cleared    \* the policy of the last evaluation

inputs == <<command, enabled, rewrite>>
vars == <<inputs, policy, pc, leverage, sent, response, result, cleared>>

Steps == {"gates", "final", "adapter", "leverage", "place", "answer", "done"}
Results == {"none", "rejected", "acknowledged", "raised"}
Responses == {"none", "order", "unusable", "lost"}

Init ==
  /\ \E i \in Inputs :
       /\ command = i.command /\ enabled = i.enabled
       /\ policy = i.policy /\ rewrite = i.rewrite
  /\ pc = "gates"
  /\ leverage \in Levers
  /\ sent = <<>>
  /\ response = "none"
  /\ result = "none"
  /\ cleared = policy

request == BuildRequest(command)
Real == command.mode = "real"

\* risk init --force: the operator writes a file.
RewritePolicy ==
  /\ pc # "done"
  /\ policy # rewrite
  /\ policy' = rewrite
  /\ UNCHANGED <<inputs, pc, leverage, sent, response, result, cleared>>

\* Mutation of End: the decision is not returned.
EndSilent(status) == pc' = "done" /\ UNCHANGED result

End(status) == pc' = "done" /\ result' = status
Reject == End("rejected")
Go(step) == pc' = step /\ UNCHANGED result

\* A call of the broker fails: a ValueError for a refusal or an answer that does not
\* decode, any other exception for one that does not come.
Fail == Reject \/ End("raised")

-------------------------------------------------------------------------------
(* The gates.                                                              *)

\* The policy is read outside preflight_command: the exception ends the handler.
PolicyRaises ==
  /\ pc = "gates"
  /\ ~Loads(policy)
  /\ End("raised")
  /\ UNCHANGED <<inputs, policy, leverage, sent, response, cleared>>

FirstGatesPass ==
  /\ CommandValid(command)
  /\ RiskPasses(command, policy)
  /\ RequestValid(command)
  /\ AdapterAllowed(command, enabled)

Gates ==
  /\ pc = "gates"
  /\ Loads(policy)
  /\ cleared' = policy
  /\ IF FirstGatesPass
     THEN Go(IF Real /\ command.adapter \in RealOrderAdapters THEN "final" ELSE "adapter")
     ELSE Reject
  /\ UNCHANGED <<inputs, policy, leverage, sent, response>>

\* The credential gates, and the drawdown stops of either evaluation; their files
\* are read, and may raise, before the first.
OtherGatesReject ==
  /\ pc \in {"gates", "final"}
  /\ Loads(policy)
  /\ Reject \/ (pc = "gates" /\ End("raised"))
  /\ UNCHANGED <<inputs, policy, leverage, sent, response, cleared>>

\* Mutation of FinalEvaluate: the policy of the first evaluation is used.
FinalEvaluateStale ==
  /\ pc = "final"
  /\ cleared' = policy
  /\ Go("adapter")
  /\ UNCHANGED <<inputs, policy, leverage, sent, response>>

\* The policy is reloaded for an adapter that places orders.
FinalEvaluate ==
  /\ pc = "final"
  /\ cleared' = policy
  /\ IF Loads(policy) /\ RiskPasses(command, policy) THEN Go("adapter") ELSE Reject
  /\ UNCHANGED <<inputs, policy, leverage, sent, response>>

-------------------------------------------------------------------------------
(* The adapters.                                                           *)

\* Mutation of AfterAdapter: a real command is acknowledged after validation.
AfterAdapterAcknowledges == End("acknowledged")

\* What follows an adapter that has no objection.
AfterAdapter ==
  End(IF Real /\ command.adapter \in ValidateOnlyRealAdapters
      THEN "rejected" ELSE "acknowledged")

Order(adapter, params) == <<[adapter |-> adapter, params |-> params]>>

\* DisabledBrokerAdapter, for a command that names none of the adapters.
PrepareDisabled ==
  /\ pc = "adapter"
  /\ command.adapter \notin ValidateOnlyRealAdapters \cup RealOrderAdapters
  /\ AfterAdapter
  /\ UNCHANGED <<inputs, policy, leverage, sent, response, cleared>>

PrepareBinanceTest ==
  /\ pc = "adapter"
  /\ command.adapter = BinanceTestAdapter
  /\ IF command.provider = "binance" /\ Real /\ BinanceValid(request)
     THEN sent' = Order(BinanceTestAdapter, BinanceParams(request)) /\ (AfterAdapter \/ Fail)
     ELSE Reject /\ UNCHANGED sent
  /\ UNCHANGED <<inputs, policy, leverage, response, cleared>>

\* An account in futures mode has no precheck; it is skipped.
PrepareOkxPrecheck ==
  /\ pc = "adapter"
  /\ command.adapter = OkxPrecheckAdapter
  /\ IF command.provider = "okx" /\ OkxValid(request)
     THEN /\ sent' \in {sent, Order(OkxPrecheckAdapter, OkxParams(request))}
          /\ AfterAdapter \/ Fail
     ELSE Reject /\ UNCHANGED sent
  /\ UNCHANGED <<inputs, policy, leverage, response, cleared>>

ChooseOkxOrder ==
  /\ pc = "adapter"
  /\ command.adapter = OkxOrderAdapter
  /\ IF command.provider = "okx" /\ Real THEN Go("leverage") ELSE Reject
  /\ UNCHANGED <<inputs, policy, leverage, sent, response, cleared>>

\* Mutation of SetLeverage: the broker's answer is not compared.
SetLeverageUnverified ==
  /\ pc = "leverage"
  /\ IF request.leverage = None THEN Go("place") /\ UNCHANGED leverage
     ELSE IF request.margin \notin MarginModes THEN Reject /\ UNCHANGED leverage
     ELSE leverage' \in Levers /\ Go("place")
  /\ UNCHANGED <<inputs, policy, sent, response, cleared>>

\* The broker answers with the leverage it has granted, or the answer is no use.
\* The leverage stays, whatever becomes of the order.
SetLeverage ==
  /\ pc = "leverage"
  /\ IF request.leverage = None THEN Go("place") /\ UNCHANGED leverage
     ELSE IF request.margin \notin MarginModes THEN Reject /\ UNCHANGED leverage
     ELSE /\ leverage' \in Levers
          /\ \/ leverage' = WholeLeverage(request) /\ Go("place")
             \/ Fail
  /\ UNCHANGED <<inputs, policy, sent, response, cleared>>

\* The broker accepts the order, whatever the caller learns of it.
PlaceOkx ==
  /\ pc = "place"
  /\ IF OkxValid(request)
     THEN /\ sent' = Order(OkxOrderAdapter, OkxParams(request))
          /\ response' \in Responses \ {"none"}
          /\ Go("answer")
     ELSE Reject /\ UNCHANGED <<sent, response>>
  /\ UNCHANGED <<inputs, policy, leverage, cleared>>

\* Mutation of TakeAnswer: a ValueError of the verification is not caught.
TakeAnswerUnsafe ==
  /\ pc = "answer"
  /\ \/ response = "order" /\ (AfterAdapter \/ Reject)
     \/ response = "unusable" /\ Reject
     \/ response \in {"order", "lost"} /\ End("raised")
  /\ UNCHANGED <<inputs, policy, leverage, sent, response, cleared>>

\* An answer with another code, without data or without ordId raises a ValueError.
\* With an ordId the protection is verified, where only other exceptions get out.
TakeAnswer ==
  /\ pc = "answer"
  /\ \/ response = "order" /\ AfterAdapter
     \/ response = "unusable" /\ Reject
     \/ response \in {"order", "lost"} /\ End("raised")
  /\ UNCHANGED <<inputs, policy, leverage, sent, response, cleared>>

\* A secret cannot be resolved; the account, the instrument, the leverage, the
\* precheck, the test or the order itself is refused, or the call fails.
BrokerFails ==
  /\ pc \in {"adapter", "leverage", "place"}
  /\ command.adapter \in ValidateOnlyRealAdapters \cup RealOrderAdapters
  /\ Fail
  /\ UNCHANGED <<inputs, policy, leverage, sent, response, cleared>>

Next ==
  \/ RewritePolicy
  \/ PolicyRaises \/ Gates \/ OtherGatesReject \/ FinalEvaluate
  \/ PrepareDisabled \/ PrepareBinanceTest \/ PrepareOkxPrecheck
  \/ ChooseOkxOrder \/ SetLeverage \/ PlaceOkx \/ TakeAnswer
  \/ BrokerFails

Spec == Init /\ [][Next]_vars

-------------------------------------------------------------------------------
(* Properties of the gates.                                                *)

\* Types of the variables.
TypeOK ==
  /\ {policy, rewrite, cleared} \subseteq PolicyFiles
  /\ pc \in Steps
  /\ leverage \in Levers
  /\ Len(sent) <= 1
  /\ response \in Responses
  /\ result \in Results
  /\ pc = "done" <=> result # "none"

\* An order reached a broker through this adapter.
SentBy(adapter) == sent # <<>> /\ sent[1].adapter = adapter
SentToOkx == SentBy(OkxOrderAdapter) \/ SentBy(OkxPrecheckAdapter)

\* The policy f is at least as strict as g: missing, unreadable or disabled, or
\* with one more restriction or one key less than a readable file.
Stricter(f, g) ==
  \/ f.kind # "policy" \/ f.enabled = "false"
  \/ /\ Loads(g) /\ g.kind = "policy"
     /\ f.enabled \in {g.enabled, Absent}
     /\ f.killSwitch \in {g.killSwitch, "true", Absent}
     /\ f.paperOnly \in {g.paperOnly, "true", Absent}

\* No rewrite that makes the policy stricter lets a command through that the
\* policy held back: neither a key that is left out nor a policy that is
\* disabled or taken away relaxes anything.
StricterNeverPasses ==
  Stricter(rewrite, policy) /\ Loads(rewrite) /\ RiskPasses(command, rewrite) =>
    RiskPasses(command, policy)

\* docs/RISK_POLICY.md's list and its condition on real orders.
\* An order is placed only for a real, attested command that names the placing
\* adapter of an enabled executor, and only when the policy of the reload was
\* there, enabled, without kill switch and not for paper only.
PlacedOnlyWhenAllowed ==
  SentBy(OkxOrderAdapter) =>
    /\ command.mode = "real" /\ command.attested /\ command.provider = "okx"
    /\ command.adapter = OkxOrderAdapter /\ enabled
    /\ cleared.kind = "policy"
    /\ cleared.enabled # "false" /\ cleared.killSwitch = "false" /\ cleared.paperOnly = "false"

\* The broker has the order of this command and said so.
OrderNamed == SentBy(OkxOrderAdapter) /\ response = "order"

\* What YTM learns of a real command is what the broker has said: it is acknowledged
\* only with an order that the broker named, and rejected only without one.  So a
\* command that was only validated is not acknowledged, and an order that exists is
\* rejected only if the answer did not name it, never for its protection.
AcknowledgedTruthfully ==
  command.mode = "real" =>
    /\ result = "acknowledged" => OrderNamed
    /\ result = "rejected" => ~OrderNamed

\* What is sent to a broker of a futures command has the reduce-only flag that
\* the command states, if it states one, and never the flag of an open order
\* for a reduce or close command.
ReduceOnlyHonoured ==
  sent # <<>> /\ command.market \in FuturesMarkets =>
    /\ command.reduceOnly # Absent => (sent[1].params.reduceOnly <=> command.reduceOnly = "true")
    /\ sent[1].params.reduceOnly <=> command.effect # "open"

\* An order that names a leverage is placed under it, rounded up, whatever an
\* earlier command has left at the broker and whatever the broker grants.
LeverageAsNamed ==
  SentBy(OkxOrderAdapter) /\ command.leverage # None =>
    /\ leverage * 10 >= command.leverage
    /\ leverage > 1 => (leverage - 1) * 10 < command.leverage

-------------------------------------------------------------------------------
(* Properties of what is sent to OKX.                                      *)

order == sent[1].params
OkxEntry == SentToOkx /\ command.mode = "real" /\ command.effect = "open"

\* A real market entry is sent with a price, and the price is within
\* maxSlippageBps of the reference after rounding to the tick.
SlippageBounded ==
  OkxEntry /\ command.type = "market" =>
    /\ order.type = "ioc"
    /\ IF order.side = "buy"
       THEN order.price * 10000 <= command.priceReference * (10000 + command.maxSlippageBps)
       ELSE order.price * 10000 >= command.priceReference * (10000 - command.maxSlippageBps)

\* The size is a whole number of lots and never more than asked for: not more
\* contracts, and not more notional at the price it was computed with.
SizeWithinRequest ==
  SentToOkx =>
    /\ order.size % Lot = 0 /\ order.size >= MinSize
    /\ IF command.quantity # None THEN order.size <= command.quantity
       ELSE order.size * SizingPrice(request) * ContractValue <= command.notional

\* The two triggers of a real entry lie on opposite sides of its position: after
\* rounding, a long is stopped below where it takes profit, a short above.
TriggersOrdered ==
  OkxEntry =>
    IF command.side = "long" THEN order.stopLoss < order.takeProfit
                             ELSE order.stopLoss > order.takeProfit

\* A real limit entry takes profit beyond the price it is sent with: rounding
\* moves the price away from the target, never across it.
TakeProfitBeyondLimit ==
  OkxEntry /\ command.type = "limit" =>
    IF command.side = "long" THEN order.takeProfit > order.price
                             ELSE order.takeProfit < order.price

\* The stop loss of a real limit entry is below the entry price of a long and
\* above that of a short (the messages of _validate_stop_loss_side).
StopLossBeyondEntry ==
  OkxEntry /\ command.type = "limit" =>
    IF command.side = "long" THEN order.stopLoss < order.price
                             ELSE order.stopLoss > order.price

-------------------------------------------------------------------------------
(* Properties of what is sent to Binance.                                  *)

\* Rounding carries no number across a filter it was to meet: the quantity is not
\* more than asked for, meets each filter for market orders that is given if it is
\* one, and otherwise the general filter; a limit price is on the tick, within the
\* bounds, no worse than asked for, and worth the minimum with the rounded quantity.
FiltersRespected ==
  SentBy(BinanceTestAdapter) =>
    LET market == command.type = "market"
    IN  /\ order.quantity <= command.quantity
        /\ IF market /\ Filters.marketStep > 0
           THEN order.quantity % Filters.marketStep = 0
           ELSE order.quantity % Filters.step = 0
        /\ IF market /\ Filters.marketMinQty > 0
           THEN order.quantity >= Filters.marketMinQty
           ELSE order.quantity >= Filters.minQty
        /\ IF market /\ Filters.marketMaxQty > 0
           THEN order.quantity <= Filters.marketMaxQty
           ELSE order.quantity <= Filters.maxQty
        /\ command.type \in {"limit", "stop_limit"} =>
             /\ order.price % Filters.tick = 0
             /\ Filters.minPrice # Unset => order.price >= Filters.minPrice
             /\ Filters.maxPrice # Unset => order.price <= Filters.maxPrice
             /\ Filters.minNotional # Unset =>
                  order.price * order.quantity >= Filters.minNotional
             /\ IF order.side = "BUY" THEN order.price <= command.limitPrice
                                      ELSE order.price >= command.limitPrice

===============================================================================
