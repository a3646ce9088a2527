---------------------------- MODULE PreflightProofs ----------------------------
(***************************************************************************)
(* Theorems about Preflight, for any commands, policies and instruments:   *)
(* what rounding does, what a request that passed looks like, and what an  *)
(* order that reached a broker has behind it.                              *)
(***************************************************************************)
EXTENDS Preflight, TLAPS

-------------------------------------------------------------------------------
(* Rounding.                                                               *)

\* Arithmetic that the provers do best on its own.
LEMMA ProductRegroup ==
  ASSUME NEW a \in Int, NEW b \in Int, NEW c \in Int
  PROVE  a * (b * c) = (a * c) * b
  BY SMTT(20)

LEMMA ProductPositive ==
  ASSUME NEW a \in Nat \ {0}, NEW b \in Nat \ {0}
  PROVE  a * b \in Nat \ {0}
  BY SMTT(20)

LEMMA ProductWhole ==
  ASSUME NEW a \in Int, NEW s \in Nat \ {0}
  PROVE  (a * s) % s = 0
  BY SMTT(20)

LEMMA NegativeProduct ==
  ASSUME NEW a \in Int, NEW b \in Int
  PROVE  a * b \in Int /\ (-a) * b = -(a * b)
  BY SMTT(20)

LEMMA NegativeWhole ==
  ASSUME NEW a \in Int, NEW s \in Nat \ {0}, a % s = 0
  PROVE  (-a) % s = 0
  <1> DEFINE q == a \div s
  <1>1. q \in Int /\ a = q * s
    BY SMTT(20)
  <1> HIDE DEF q
  <1>2. -q \in Int /\ -a = (-q) * s
    BY <1>1, NegativeProduct
  <1>3. QED
    BY <1>2, ProductWhole, Zenon

\* Rounding down to a step of n/d is whole steps, at most n/d.
LEMMA FloorFacts ==
  ASSUME NEW n \in Int, NEW d \in Nat \ {0}, NEW step \in Nat \ {0}
  PROVE  /\ FloorTo(n, d, step) \in Int
         /\ FloorTo(n, d, step) * d <= n
         /\ n < FloorTo(n, d, step) * d + d * step
         /\ FloorTo(n, d, step) % step = 0
  <1> DEFINE width == d * step
  <1> DEFINE whole == n \div width
  <1>1. width \in Nat \ {0}
    BY ProductPositive
  <1>2. /\ whole \in Int
        /\ whole * width <= n
        /\ n < whole * width + width
    BY <1>1
  <1> HIDE DEF whole
  <1>3. whole * width = (whole * step) * d
    BY <1>2, ProductRegroup
  <1>4. whole * step \in Int /\ (whole * step) % step = 0
    BY <1>2, ProductWhole, NegativeProduct
  <1> HIDE DEF width
  <1>5. FloorTo(n, d, step) = whole * step
    BY DEF FloorTo, width, whole
  <1>6. QED
    BY <1>2, <1>3, <1>4, <1>5 DEF width

\* Rounding up is whole steps, at least n/d.
LEMMA CeilFacts ==
  ASSUME NEW n \in Int, NEW d \in Nat \ {0}, NEW step \in Nat \ {0}
  PROVE  /\ CeilTo(n, d, step) \in Int
         /\ CeilTo(n, d, step) * d >= n
         /\ CeilTo(n, d, step) * d < n + d * step
         /\ CeilTo(n, d, step) % step = 0
  <1> DEFINE floor == FloorTo(-n, d, step)
  <1> DEFINE width == d * step
  <1>1. /\ floor \in Int
        /\ floor * d <= -n
        /\ -n < floor * d + width
        /\ floor % step = 0
    BY FloorFacts
  <1>2. width \in Nat
    BY ProductPositive
  <1> HIDE DEF floor, width
  <1>3. floor * d \in Int /\ (-floor) * d = -(floor * d)
    BY <1>1, NegativeProduct
  <1>4. (-floor) % step = 0
    BY <1>1, NegativeWhole
  <1>5. CeilTo(n, d, step) = -floor
    BY DEF CeilTo, floor
  <1>6. (-floor) * d >= n /\ (-floor) * d < n + width
    BY <1>1, <1>2, <1>3
  <1>7. QED
    BY <1>1, <1>3, <1>4, <1>5, <1>6 DEF width

\* _round_to_tick of the OKX adapter never asks for a worse price.
LEMMA RoundToTickFacts ==
  ASSUME NEW n \in Int, NEW d \in Nat \ {0}, NEW side \in {"buy", "sell"}
  PROVE  /\ RoundToTick(n, d, side) \in Int
         /\ side = "buy" => RoundToTick(n, d, side) * d <= n
         /\ side = "sell" => RoundToTick(n, d, side) * d >= n
  <1>1. Tick \in Nat \ {0}
    BY RulesAssumption
  <1>2. QED
    BY <1>1, FloorFacts, CeilFacts DEF RoundToTick

\* _round_to_tick of the Binance adapter neither, and stays on the tick.
LEMMA BinanceRoundedFacts ==
  ASSUME NEW n \in Int, NEW side
  PROVE  /\ BinanceRounded(n, side) \in Int
         /\ BinanceRounded(n, side) % Filters.tick = 0
         /\ IF side = "BUY" THEN BinanceRounded(n, side) <= n ELSE BinanceRounded(n, side) >= n
  <1> DEFINE tick == Filters.tick
  <1>1. tick \in Nat \ {0} /\ 1 \in Nat \ {0}
    BY FiltersAssumption
  <1> HIDE DEF tick
  <1>2. /\ FloorTo(n, 1, tick) \in Int
        /\ FloorTo(n, 1, tick) * 1 <= n
        /\ FloorTo(n, 1, tick) % tick = 0
    BY <1>1, FloorFacts
  <1>3. /\ CeilTo(n, 1, tick) \in Int
        /\ CeilTo(n, 1, tick) * 1 >= n
        /\ CeilTo(n, 1, tick) % tick = 0
    BY <1>1, CeilFacts
  <1>4. QED
    BY <1>2, <1>3 DEF BinanceRounded, tick

-------------------------------------------------------------------------------
(* What every reachable state has behind it.                               *)

\* The command is one that YTM leased.
Leased == \E i \in Inputs : command = i.command

\* All gates have let the command pass under the policy last evaluated.
Passed ==
  /\ CommandValid(command)
  /\ RequestValid(command)
  /\ RiskPasses(command, cleared)
  /\ AdapterAllowed(command, enabled)

\* What has reached a broker is a request that suits it, from its adapter.
SentInv ==
  sent # <<>> =>
    /\ Passed
    /\ \/ /\ command.adapter = BinanceTestAdapter /\ Real /\ BinanceValid(request)
          /\ sent = Order(BinanceTestAdapter, BinanceParams(request))
          /\ pc = "done"
       \/ /\ command.adapter = OkxPrecheckAdapter /\ OkxValid(request)
          /\ sent = Order(OkxPrecheckAdapter, OkxParams(request))
          /\ pc = "done"
       \/ /\ command.adapter = OkxOrderAdapter /\ Real /\ command.provider = "okx"
          /\ OkxValid(request)
          /\ sent = Order(OkxOrderAdapter, OkxParams(request))
          /\ pc \in {"answer", "done"}
          /\ result = "rejected" => response # "order"
          /\ request.leverage # None => leverage = WholeLeverage(request)

\* A handler between the gates and its end; a real command is acknowledged only
\* with an order that the broker named.
ProgressInv ==
  /\ pc \in {"final", "adapter", "leverage", "place", "answer"} => Passed
  /\ pc \in {"leverage", "place"} =>
       Real /\ command.provider = "okx" /\ command.adapter = OkxOrderAdapter
  /\ pc = "place" /\ request.leverage # None => leverage = WholeLeverage(request)
  /\ pc = "answer" => SentBy(OkxOrderAdapter)
  /\ result = "acknowledged" /\ Real => OrderNamed

PreflightInv == TypeOK /\ Leased /\ SentInv /\ ProgressInv

\* The initial states have it.
LEMMA InitInv ==
  ASSUME Init
  PROVE  PreflightInv
  BY InputsAssumption
  DEF Init, PreflightInv, TypeOK, Leased, SentInv, ProgressInv, Steps, Results, Responses, request, Real

\* An order is one record.
LEMMA OrderFacts ==
  ASSUME NEW adapter, NEW params
  PROVE  /\ Order(adapter, params) # <<>>
         /\ Len(Order(adapter, params)) = 1
         /\ Order(adapter, params)[1].adapter = adapter
         /\ Order(adapter, params)[1].params = params
  BY DEF Order

\* Every step keeps it.
LEMMA StepInv ==
  ASSUME PreflightInv, [Next]_vars
  PROVE  PreflightInv'
  <1> USE DEF PreflightInv, TypeOK, Steps, Results, Responses, inputs, End, Reject, Go, Fail
  <1>1. CASE RewritePolicy
    BY <1>1
    DEF RewritePolicy, Leased, SentInv, ProgressInv, Passed, Real, request, SentBy,
        OrderNamed
  <1>2. CASE PolicyRaises
    BY <1>2
    DEF PolicyRaises, Leased, SentInv, ProgressInv, Passed, Real, request, SentBy,
        OrderNamed
  <1>3. CASE Gates
    <2>1. sent = <<>> /\ sent' = <<>>
      BY <1>3 DEF Gates, SentInv
    <2>2. FirstGatesPass => Passed'
      BY <1>3 DEF Gates, FirstGatesPass, Passed
    <2>3. TypeOK' /\ Leased'
      BY <1>3 DEF Gates, Leased
    <2>4. ProgressInv'
      BY <1>3, <2>2 DEF Gates, ProgressInv
    <2>5. QED
      BY <2>1, <2>3, <2>4 DEF SentInv
  <1>4. CASE OtherGatesReject
    <2>1. sent = <<>> /\ sent' = <<>>
      BY <1>4 DEF OtherGatesReject, SentInv
    <2>2. QED
      BY <1>4, <2>1 DEF OtherGatesReject, Leased, SentInv, ProgressInv
  <1>5. CASE FinalEvaluate
    <2>1. sent = <<>> /\ sent' = <<>>
      BY <1>5 DEF FinalEvaluate, SentInv
    <2>2. RiskPasses(command, policy) => Passed'
      BY <1>5 DEF FinalEvaluate, ProgressInv, Passed
    <2>3. TypeOK' /\ Leased'
      BY <1>5 DEF FinalEvaluate, Leased
    <2>4. ProgressInv'
      BY <1>5, <2>2 DEF FinalEvaluate, ProgressInv
    <2>5. QED
      BY <2>1, <2>3, <2>4 DEF SentInv
  <1>6. CASE PrepareDisabled
    <2>1. sent = <<>> /\ sent' = <<>>
      BY <1>6 DEF PrepareDisabled, SentInv
    <2>2. ~Real
      BY <1>6 DEF PrepareDisabled, ProgressInv, Passed, AdapterAllowed, Real
    <2>3. QED
      BY <1>6, <2>1, <2>2
      DEF PrepareDisabled, AfterAdapter, Leased, SentInv, ProgressInv, Real
  <1>7. CASE PrepareBinanceTest
    <2>1. CASE command.provider = "binance" /\ Real /\ BinanceValid(request)
      <3>1. /\ sent' = Order(BinanceTestAdapter, BinanceParams(request))
            /\ result' \in {"rejected", "raised"}
        BY <1>7, <2>1 DEF PrepareBinanceTest, AfterAdapter, ValidateOnlyRealAdapters
      <3>2. Passed'
        BY <1>7 DEF PrepareBinanceTest, ProgressInv, Passed
      <3>3. SentInv'
        BY <1>7, <2>1, <3>1, <3>2 DEF PrepareBinanceTest, SentInv, Real, request, AfterAdapter
      <3>4. Len(sent') = 1
        BY <3>1, OrderFacts
      <3>5. TypeOK' /\ Leased'
        BY <1>7, <2>1, <3>1, <3>4 DEF PrepareBinanceTest, Leased, AfterAdapter
      <3>6. pc' = "done"
        BY <1>7, <2>1 DEF PrepareBinanceTest, AfterAdapter
      <3>7. ProgressInv'
        BY <3>1, <3>6 DEF ProgressInv
      <3>8. QED
        BY <3>3, <3>5, <3>7
    <2>2. CASE ~(command.provider = "binance" /\ Real /\ BinanceValid(request))
      BY <1>7, <2>2 DEF PrepareBinanceTest, Leased, SentInv, ProgressInv
    <2>3. QED
      BY <2>1, <2>2
  <1>8. CASE PrepareOkxPrecheck
    <2>1. CASE command.provider = "okx" /\ OkxValid(request)
      <3>1. /\ sent = <<>> /\ pc' = "done"
            /\ sent' \in {<<>>, Order(OkxPrecheckAdapter, OkxParams(request))}
            /\ result' \in {"rejected", "raised"} \/ (result' = "acknowledged" /\ ~Real)
        BY <1>8, <2>1
        DEF PrepareOkxPrecheck, AfterAdapter, ValidateOnlyRealAdapters, SentInv
      <3>2. Passed'
        BY <1>8 DEF PrepareOkxPrecheck, ProgressInv, Passed
      <3>3. SentInv'
        <4>1. /\ command' = command /\ request' = request /\ Real' = Real
              /\ command.adapter = OkxPrecheckAdapter
          BY <1>8, <2>1 DEF PrepareOkxPrecheck, Real, request, AfterAdapter
        <4>2. CASE sent' = <<>>
          BY <4>2 DEF SentInv
        <4>3. CASE sent' = Order(OkxPrecheckAdapter, OkxParams(request))
          BY <2>1, <3>1, <3>2, <4>1, <4>3 DEF SentInv
        <4>4. QED
          BY <3>1, <4>2, <4>3
      <3>4. Len(sent') <= 1
        <4>1. CASE sent' = <<>>
          BY <4>1
        <4>2. CASE sent' = Order(OkxPrecheckAdapter, OkxParams(request))
          <5>1. Len(sent') = 1
            BY <4>2, OrderFacts
          <5>2. QED
            BY <5>1
        <4>3. QED
          BY <3>1, <4>1, <4>2
      <3>5. TypeOK' /\ Leased'
        BY <1>8, <2>1, <3>1, <3>4 DEF PrepareOkxPrecheck, Leased, AfterAdapter
      <3>6. Real' = Real
        BY <1>8, <2>1 DEF PrepareOkxPrecheck, AfterAdapter, Real
      <3>7. ProgressInv'
        BY <3>1, <3>6 DEF ProgressInv
      <3>8. QED
        BY <3>3, <3>5, <3>7
    <2>2. CASE ~(command.provider = "okx" /\ OkxValid(request))
      BY <1>8, <2>2 DEF PrepareOkxPrecheck, Leased, SentInv, ProgressInv
    <2>3. QED
      BY <2>1, <2>2
  <1>9. CASE ChooseOkxOrder
    BY <1>9 DEF ChooseOkxOrder, Leased, SentInv, ProgressInv, Passed, Real, request
  <1>10. CASE SetLeverage
    BY <1>10 DEF SetLeverage, Leased, SentInv, ProgressInv, Passed, Real, request
  <1>11. CASE PlaceOkx
    <2>1. CASE OkxValid(request)
      <3>1. /\ sent' = Order(OkxOrderAdapter, OkxParams(request))
            /\ pc' = "answer" /\ result' = result
        BY <1>11, <2>1 DEF PlaceOkx
      <3>2. Passed'
        BY <1>11 DEF PlaceOkx, ProgressInv, Passed
      <3>3. SentInv'
        BY <1>11, <2>1, <3>1, <3>2 DEF PlaceOkx, SentInv, ProgressInv, Real, request
      <3>4. /\ Len(sent') = 1 /\ sent' # <<>>
            /\ sent'[1].adapter = OkxOrderAdapter
        BY <3>1, OrderFacts
      <3>5. TypeOK' /\ Leased'
        BY <1>11, <2>1, <3>1, <3>4 DEF PlaceOkx, Leased
      <3>6. ProgressInv'
        BY <1>11, <3>1, <3>2, <3>4 DEF PlaceOkx, ProgressInv, SentBy
      <3>7. QED
        BY <3>3, <3>5, <3>6
    <2>2. CASE ~OkxValid(request)
      BY <1>11, <2>2 DEF PlaceOkx, Leased, SentInv, ProgressInv
    <2>3. QED
      BY <2>1, <2>2
  <1>12. CASE TakeAnswer
    <2>1. /\ command' = command /\ sent' = sent /\ response' = response
          /\ Passed' = Passed /\ request' = request /\ Real' = Real
          /\ leverage' = leverage /\ pc = "answer" /\ pc' = "done"
      BY <1>12 DEF TakeAnswer, AfterAdapter, Passed, request, Real
    <2>2. /\ result' \in {"acknowledged", "rejected", "raised"}
          /\ result' = "rejected" => response # "order"
          /\ result' = "acknowledged" => response = "order"
      <3>1. command.adapter \notin ValidateOnlyRealAdapters
        BY <2>1 DEF ProgressInv, SentInv, SentBy, ValidateOnlyRealAdapters,
              OkxOrderAdapter, OkxPrecheckAdapter, BinanceTestAdapter
      <3>2. QED
        BY <1>12, <3>1 DEF TakeAnswer, AfterAdapter
    <2>3. TypeOK' /\ Leased'
      BY <1>12, <2>1, <2>2 DEF TakeAnswer, Leased
    <2>4. SentInv'
      BY <2>1, <2>2 DEF SentInv
    <2>5. ProgressInv'
      BY <2>1, <2>2 DEF ProgressInv, OrderNamed, SentBy
    <2>6. QED
      BY <2>3, <2>4, <2>5
  <1>13. CASE BrokerFails
    <2>1. sent = <<>> /\ sent' = <<>>
      BY <1>13 DEF BrokerFails, SentInv
    <2>2. QED
      BY <1>13, <2>1 DEF BrokerFails, Leased, SentInv, ProgressInv
  <1>14. CASE UNCHANGED vars
    BY <1>14 DEF vars, Leased, SentInv, ProgressInv, Passed, Real, request, SentBy,
        OrderNamed
  <1>15. QED
    BY <1>1, <1>2, <1>3, <1>4, <1>5, <1>6, <1>7, <1>8, <1>9, <1>10, <1>11, <1>12, <1>13,
       <1>14
    DEF Next

\* Every reachable state has it.
THEOREM Invariant == Spec => []PreflightInv
  <1>1. Init => PreflightInv
    BY InitInv
  <1>2. PreflightInv /\ [Next]_vars => PreflightInv'
    BY StepInv
  <1>3. QED
    BY <1>1, <1>2, PTL DEF Spec

-------------------------------------------------------------------------------
(* What follows from it about one order.                                   *)

\* The numbers of a command that passed.
LEMMA CommandNumbers ==
  ASSUME PreflightInv, sent # <<>>
  PROVE  /\ {command.quantity, command.notional, command.limitPrice, command.stopPrice,
             command.stopLoss, command.priceReference, command.maxSlippageBps,
             command.leverage} \subseteq Nat
         /\ command.takeProfit \in Seq(Nat)
         /\ command.reduceOnly \in Flags
         /\ command.side \in {"long", "short"} /\ command.effect \in Effects
  <1>1. Passed /\ Leased
    BY DEF PreflightInv, SentInv
  <1>2. /\ \A field \in NumberFields : command[field] \in Nat \cup {Bad}
        /\ command.takeProfit \in Seq(Nat \cup {Bad})
        /\ command.reduceOnly \in Flags
    BY <1>1, InputsAssumption DEF Leased
  <1>3. \A field \in NumberFields : command[field] \in Nat
    BY <1>1, <1>2 DEF Passed, RequestValid
  <1>4. command.takeProfit \in Seq(Nat)
    BY <1>1, <1>2 DEF Passed, RequestValid
  <1>5. QED
    BY <1>1, <1>2, <1>3, <1>4 DEF NumberFields, Passed, RequestValid

\* An order through an OKX adapter has the parameters of a valid request.
LEMMA OkxSent ==
  ASSUME PreflightInv, SentToOkx
  PROVE  /\ sent # <<>> /\ Passed /\ OkxValid(request)
         /\ order = OkxParams(request)
  BY OrderFacts
  DEF PreflightInv, SentInv, SentToOkx, SentBy, order, OkxOrderAdapter, OkxPrecheckAdapter,
      BinanceTestAdapter

LEMMA BinanceSent ==
  ASSUME PreflightInv, SentBy(BinanceTestAdapter)
  PROVE  /\ sent # <<>> /\ Passed /\ BinanceValid(request)
         /\ order = BinanceParams(request)
  BY OrderFacts
  DEF PreflightInv, SentInv, SentBy, order, OkxOrderAdapter, OkxPrecheckAdapter,
      BinanceTestAdapter

\* A placed order.
LEMMA OkxPlaced ==
  ASSUME PreflightInv, SentBy(OkxOrderAdapter)
  PROVE  /\ Passed /\ Real /\ command.provider = "okx" /\ command.adapter = OkxOrderAdapter
         /\ result = "rejected" => response # "order"
         /\ request.leverage # None => leverage = WholeLeverage(request)
  BY OrderFacts
  DEF PreflightInv, SentInv, SentBy, OkxOrderAdapter, OkxPrecheckAdapter, BinanceTestAdapter

-------------------------------------------------------------------------------
(* Theorems about the gates.                                               *)

\* Every reachable state is well typed, and a handler that is done has a result.
THEOREM TypeCorrect == Spec => []TypeOK
  <1>1. PreflightInv => TypeOK
    BY DEF PreflightInv
  <1>2. QED
    BY <1>1, Invariant, PTL

\* For any policy and rewrite: making the policy file stricter lets nothing pass
\* that was held back (risk.py's defaults and its refusal of a disabled policy
\* without kill switch).
THEOREM StricterCorrect == Spec => []StricterNeverPasses
  <1>1. PreflightInv => StricterNeverPasses
    <2>1. ASSUME PreflightInv, Stricter(rewrite, policy), Loads(rewrite),
                 RiskPasses(command, rewrite)
          PROVE  RiskPasses(command, policy)
      <3>1. PolicyPasses(rewrite, command.mode)
        BY <2>1 DEF RiskPasses
      <3>2. /\ Loads(policy) /\ policy.kind = "policy"
            /\ rewrite.enabled \in {policy.enabled, Absent}
            /\ rewrite.killSwitch \in {policy.killSwitch, "true", Absent}
            /\ rewrite.paperOnly \in {policy.paperOnly, "true", Absent}
        BY <2>1, <3>1 DEF Stricter, PolicyPasses, IsSet
      <3>3. PolicyPasses(policy, command.mode)
        BY <3>1, <3>2 DEF PolicyPasses, IsSet, Loads, Absent
      <3>4. QED
        BY <2>1, <3>3 DEF RiskPasses
    <2>2. QED
      BY <2>1 DEF StricterNeverPasses
  <1>2. QED
    BY <1>1, Invariant, PTL

\* An order is placed only under what docs/RISK_POLICY.md asks for, with the
\* policy of the reload (preflight_command's order of gates).
THEOREM PlacementGuarded == Spec => []PlacedOnlyWhenAllowed
  <1>1. PreflightInv => PlacedOnlyWhenAllowed
    BY OkxPlaced
    DEF PlacedOnlyWhenAllowed, Passed, Real, RiskPasses, PolicyPasses, IsSet,
        AdapterAllowed, RealOrderAdapters, FuturesPasses
  <1>2. QED
    BY <1>1, Invariant, PTL

\* What preflight_command answers of a real command is what the broker has said of
\* its order: a rejection leaves an order behind only if the answer did not name it.
THEOREM AnswerTruthful == Spec => []AcknowledgedTruthfully
  <1>1. PreflightInv => AcknowledgedTruthfully
    BY OkxPlaced DEF AcknowledgedTruthfully, OrderNamed, PreflightInv, ProgressInv, Real
  <1>2. QED
    BY <1>1, Invariant, PTL

\* The flag that _evaluate_futures_risk lets pass is the flag the adapter sends.
THEOREM ReduceOnlyCorrect == Spec => []ReduceOnlyHonoured
  <1>1. PreflightInv => ReduceOnlyHonoured
    <2>1. ASSUME PreflightInv, sent # <<>>
          PROVE  sent[1].params.reduceOnly = (command.effect # "open")
      BY <2>1, OrderFacts
      DEF PreflightInv, SentInv, OkxParams, BinanceParams, request, BuildRequest
    <2>2. ASSUME PreflightInv, sent # <<>>
          PROVE  FuturesPasses(command) /\ command.effect \in Effects
                   /\ command.reduceOnly \in Flags
      BY <2>2, CommandNumbers DEF PreflightInv, SentInv, Passed, RiskPasses
    <2>3. QED
      BY <2>1, <2>2 DEF ReduceOnlyHonoured, FuturesPasses, Effects, Flags
  <1>2. QED
    BY <1>1, Invariant, PTL

\* An order that names a leverage is placed only after _verified_set_leverage has
\* confirmed it, rounded up.
THEOREM LeverageCorrect == Spec => []LeverageAsNamed
  <1>1. PreflightInv => LeverageAsNamed
    <2>1. ASSUME PreflightInv, SentBy(OkxOrderAdapter), command.leverage # None
          PROVE  /\ leverage * 10 >= command.leverage
                 /\ leverage > 1 => (leverage - 1) * 10 < command.leverage
      <3> DEFINE l == command.leverage
      <3>1. l \in Nat
        BY <2>1, CommandNumbers DEF SentBy
      <3>2. leverage = IF l <= 10 THEN 1 ELSE CeilTo(l, 10, 1)
        BY <2>1, OkxPlaced DEF request, BuildRequest, WholeLeverage
      <3> HIDE DEF l
      <3>3. /\ CeilTo(l, 10, 1) \in Int
            /\ CeilTo(l, 10, 1) * 10 >= l
            /\ CeilTo(l, 10, 1) * 10 < l + 10 * 1
        BY <3>1, CeilFacts
      <3>4. QED
        BY <3>1, <3>2, <3>3 DEF l
    <2>2. QED
      BY <2>1 DEF LeverageAsNamed
  <1>2. QED
    BY <1>1, Invariant, PTL

-------------------------------------------------------------------------------
(* Theorems about the numbers sent to OKX.                                 *)

\* The fields of the parameters and of the request, in one place.
LEMMA OkxFields ==
  ASSUME PreflightInv, SentToOkx
  PROVE  /\ order.side = OkxSide(request) /\ order.side \in {"buy", "sell"}
         /\ order.type = OkxType(request) /\ order.price = OkxPrice(request)
         /\ order.size = OkxSize(request)
         /\ Attached(request) => order.stopLoss = StopLoss(request)
         /\ Attached(request) /\ request.takeProfit # <<>> =>
              order.takeProfit = TakeProfit(request)
  BY OkxSent DEF OkxParams, OkxSide

\* A real entry has a stop loss and a take profit, and a price that both were
\* compared with.
LEMMA EntryFacts ==
  ASSUME PreflightInv, OkxEntry
  PROVE  /\ SentToOkx /\ Attached(request) /\ request.takeProfit # <<>>
         /\ StopLossValid(request) /\ TakeProfitValid(request)
         /\ EntryReference(request) \in Nat \ {0}
         /\ command.type = "limit" => EntryReference(request) = command.limitPrice
         /\ command.type \in {"limit", "market"}
  <1>1. /\ SentToOkx /\ sent # <<>> /\ OkxValid(request)
        /\ command.mode = "real" /\ command.effect = "open"
    BY OkxSent DEF OkxEntry
  <1>2. {command.limitPrice, command.priceReference} \subseteq Nat
    BY <1>1, CommandNumbers
  <1>3. /\ request.mode = "real" /\ request.effect = "open" /\ request.type = command.type
        /\ request.limitPrice = command.limitPrice
        /\ request.priceReference = command.priceReference
    BY <1>1 DEF request, BuildRequest
  <1>4. Attached(request) /\ request.takeProfit # <<>>
    BY <1>1, <1>3 DEF OkxValid, Attached
  <1>5. request.limitPrice # None \/ request.priceReference # None
    BY <1>1, <1>3 DEF OkxValid, PriceValid, BoundedEntry
  <1>6. request.type = "limit" => request.limitPrice # None
    BY <1>1 DEF OkxValid, PriceValid
  <1>7. QED
    BY <1>1, <1>2, <1>3, <1>4, <1>5, <1>6 DEF OkxValid, EntryReference, None

\* _bounded_market_limit_price and _round_to_tick together stay within the slippage
\* that the command allows, for any tick.
THEOREM SlippageCorrect == Spec => []SlippageBounded
  <1>1. ASSUME PreflightInv, OkxEntry, command.type = "market"
        PROVE  /\ order.type = "ioc"
               /\ IF order.side = "buy"
                  THEN order.price * 10000
                         <= command.priceReference * (10000 + command.maxSlippageBps)
                  ELSE order.price * 10000
                         >= command.priceReference * (10000 - command.maxSlippageBps)
    <2>1. sent # <<>> /\ SentToOkx
      BY <1>1, OkxSent DEF OkxEntry
    <2>2. OkxType(request) = "ioc"
      BY <1>1 DEF OkxType, BoundedEntry, OkxEntry, request, BuildRequest
    <2>3. /\ order.type = "ioc" /\ order.side = OkxSide(request)
          /\ order.side \in {"buy", "sell"}
          /\ order.price = RoundToTick(SlippageBound(request), 10000, order.side)
      BY <1>1, <2>1, <2>2, OkxFields DEF OkxPrice
    <2>4. command.priceReference \in Nat /\ command.maxSlippageBps \in Nat
      BY <1>1, <2>1, CommandNumbers
    <2>5. SlippageBound(request) = command.priceReference
            * (IF order.side = "buy" THEN 10000 + command.maxSlippageBps
                                     ELSE 10000 - command.maxSlippageBps)
      BY <2>3 DEF SlippageBound, request, BuildRequest
    <2> DEFINE bps == IF order.side = "buy" THEN 10000 + command.maxSlippageBps
                                            ELSE 10000 - command.maxSlippageBps
    <2> DEFINE bound == command.priceReference * bps
    <2>6. bps \in Int
      BY <2>4
    <2> HIDE DEF bps
    <2>7. bound \in Int
      BY <2>4, <2>6, NegativeProduct
    <2>8. SlippageBound(request) = bound
      BY <2>5 DEF bps
    <2> HIDE DEF bound
    <2>9. IF order.side = "buy" THEN order.price * 10000 <= bound ELSE order.price * 10000 >= bound
      <3> DEFINE side == order.side
      <3> DEFINE scale == 10000
      <3>1. side \in {"buy", "sell"} /\ scale \in Nat \ {0}
              /\ order.price = RoundToTick(bound, scale, side)
        BY <2>3, <2>8
      <3> HIDE DEF side, scale
      <3>2. /\ side = "buy" => RoundToTick(bound, scale, side) * scale <= bound
            /\ side = "sell" => RoundToTick(bound, scale, side) * scale >= bound
        BY <2>7, <3>1, RoundToTickFacts
      <3>3. IF side = "buy" THEN order.price * scale <= bound ELSE order.price * scale >= bound
        BY <3>1, <3>2
      <3>4. QED
        BY <3>3 DEF side, scale
    <2>10. QED
      BY <2>3, <2>9 DEF bound, bps
  <1>2. PreflightInv => SlippageBounded
    BY <1>1 DEF SlippageBounded
  <1>3. QED
    BY <1>2, Invariant, PTL

\* _size never asks for more than the command does, in contracts or in notional,
\* for any lot and contract value.
THEOREM SizeCorrect == Spec => []SizeWithinRequest
  <1>1. ASSUME PreflightInv, SentToOkx
        PROVE  /\ order.size % Lot = 0 /\ order.size >= MinSize
               /\ IF command.quantity # None THEN order.size <= command.quantity
                  ELSE order.size * SizingPrice(request) * ContractValue <= command.notional
    <2>1. sent # <<>> /\ SizeValid(request) /\ order.size = OkxSize(request)
      BY <1>1, OkxSent, OkxFields DEF OkxValid
    <2>2. {command.quantity, command.notional, command.limitPrice, command.priceReference}
            \subseteq Nat
      BY <1>1, <2>1, CommandNumbers
    <2>3. /\ request.quantity = command.quantity /\ request.notional = command.notional
          /\ SizingPrice(request) \in Nat
      BY <2>2 DEF request, BuildRequest, SizingPrice
    <2>4. Lot \in Nat \ {0} /\ ContractValue \in Nat \ {0} /\ 1 \in Nat \ {0}
      BY RulesAssumption
    <2>5. CASE command.quantity # None
      <3>1. order.size = FloorTo(command.quantity, 1, Lot)
        BY <2>1, <2>3, <2>5 DEF OkxSize
      <3>2. /\ order.size \in Int /\ order.size * 1 <= command.quantity
            /\ order.size % Lot = 0
        <4>1. /\ FloorTo(command.quantity, 1, Lot) \in Int
              /\ FloorTo(command.quantity, 1, Lot) * 1 <= command.quantity
              /\ FloorTo(command.quantity, 1, Lot) % Lot = 0
          BY <2>2, <2>4, FloorFacts
        <4>2. QED
          BY <3>1, <4>1
      <3>3. QED
        BY <2>1, <2>5, <3>2 DEF SizeValid
    <2>6. CASE command.quantity = None
      <3> DEFINE price == SizingPrice(request)
      <3>1. price \in Nat \ {0}
        BY <2>1, <2>3, <2>6 DEF SizeValid, None
      <3> DEFINE divisor == price * ContractValue
      <3>2. order.size = FloorTo(command.notional, divisor, Lot)
        BY <2>1, <2>3, <2>6 DEF OkxSize
      <3> HIDE DEF price
      <3>3. divisor \in Nat \ {0}
        BY <2>4, <3>1, ProductPositive
      <3>4. /\ order.size \in Int /\ order.size * divisor <= command.notional
            /\ order.size % Lot = 0
        <4> HIDE DEF divisor
        <4>1. /\ FloorTo(command.notional, divisor, Lot) \in Int
              /\ FloorTo(command.notional, divisor, Lot) * divisor <= command.notional
              /\ FloorTo(command.notional, divisor, Lot) % Lot = 0
          BY <2>2, <2>4, <3>3, FloorFacts
        <4>2. QED
          BY <3>2, <4>1
      <3>5. order.size * divisor = (order.size * price) * ContractValue
        <4>1. order.size * (ContractValue * price) = (order.size * price) * ContractValue
          BY <2>4, <3>1, <3>4, ProductRegroup
        <4>2. ContractValue * price = price * ContractValue
          BY <2>4, <3>1
        <4>3. QED
          BY <4>1, <4>2
      <3> HIDE DEF divisor
      <3>6. (order.size * price) * ContractValue <= command.notional
        BY <3>4, <3>5
      <3>7. QED
        BY <2>1, <2>6, <3>4, <3>6 DEF SizeValid, price
    <2>7. QED
      BY <2>5, <2>6
  <1>2. PreflightInv => SizeWithinRequest
    BY <1>1 DEF SizeWithinRequest
  <1>3. QED
    BY <1>2, Invariant, PTL

\* _validate_stop_loss_side and _validate_take_profit_side between them keep the
\* triggers of a real entry apart.
THEOREM TriggersCorrect == Spec => []TriggersOrdered
  <1>1. ASSUME PreflightInv, OkxEntry
        PROVE  IF command.side = "long" THEN order.stopLoss < order.takeProfit
                                        ELSE order.stopLoss > order.takeProfit
    <2>1. sent # <<>> /\ request.stopLoss = command.stopLoss
            /\ request.takeProfit = command.takeProfit /\ request.side = command.side
      BY <1>1, OkxSent DEF OkxEntry, request, BuildRequest
    <2>2. command.stopLoss \in Nat /\ command.takeProfit \in Seq(Nat)
      BY <1>1, <2>1, CommandNumbers
    <2>3. Head(request.takeProfit) \in Nat /\ request.stopLoss \in Nat
      BY <1>1, <2>1, <2>2, EntryFacts
    <2>4. StopLoss(request) \in Int /\ TakeProfit(request) \in Int
      BY <2>3, RoundToTickFacts DEF StopLoss, TakeProfit, Opposite
    <2>5. order.stopLoss = StopLoss(request) /\ order.takeProfit = TakeProfit(request)
      BY <1>1, EntryFacts, OkxFields
    <2>6. QED
      BY <1>1, <2>1, <2>4, <2>5, EntryFacts DEF StopLossValid, TakeProfitValid, None
  <1>2. PreflightInv => TriggersOrdered
    BY <1>1 DEF TriggersOrdered
  <1>3. QED
    BY <1>2, Invariant, PTL

\* Rounding of the limit price and of the target are on the same side of what was
\* compared.
THEOREM TakeProfitCorrect == Spec => []TakeProfitBeyondLimit
  <1>1. ASSUME PreflightInv, OkxEntry, command.type = "limit"
        PROVE  IF command.side = "long" THEN order.takeProfit > order.price
                                        ELSE order.takeProfit < order.price
    <2>1. /\ sent # <<>> /\ request.takeProfit = command.takeProfit
          /\ request.side = command.side /\ request.effect = "open"
          /\ request.type = "limit" /\ request.limitPrice = command.limitPrice
      BY <1>1, OkxSent DEF OkxEntry, request, BuildRequest
    <2>2. /\ command.limitPrice \in Nat /\ command.takeProfit \in Seq(Nat)
          /\ command.side \in {"long", "short"}
      BY <1>1, <2>1, CommandNumbers
    <2>3. Head(request.takeProfit) \in Nat
      BY <1>1, <2>1, <2>2, EntryFacts
    <2>4. TakeProfit(request) \in Int
      BY <2>3, RoundToTickFacts DEF TakeProfit, Opposite
    <2> DEFINE side == OkxSide(request)
    <2>5. /\ side \in {"buy", "sell"}
          /\ side = "buy" <=> command.side = "long"
      BY <2>1, <2>2 DEF OkxSide
    <2>6. order.price = RoundToTick(command.limitPrice, 1, side)
      BY <1>1, <2>1, EntryFacts, OkxFields DEF OkxPrice, OkxType, BoundedEntry
    <2> HIDE DEF side
    <2> DEFINE limit == command.limitPrice
    <2>7. /\ order.price \in Int
          /\ side = "buy" => order.price <= limit
          /\ side = "sell" => order.price >= limit
      <3>1. limit \in Int /\ 1 \in Nat \ {0} /\ order.price = RoundToTick(limit, 1, side)
        BY <2>2, <2>6
      <3> HIDE DEF limit
      <3>2. /\ RoundToTick(limit, 1, side) \in Int
            /\ side = "buy" => RoundToTick(limit, 1, side) * 1 <= limit
            /\ side = "sell" => RoundToTick(limit, 1, side) * 1 >= limit
        BY <2>5, <3>1, RoundToTickFacts
      <3>3. QED
        BY <3>1, <3>2
    <2>8. order.takeProfit = TakeProfit(request)
      BY <1>1, EntryFacts, OkxFields
    <2>9. IF command.side = "long" THEN TakeProfit(request) > command.limitPrice
                                   ELSE TakeProfit(request) < command.limitPrice
      BY <1>1, <2>1, EntryFacts DEF TakeProfitValid, None
    <2>10. QED
      BY <2>2, <2>4, <2>5, <2>7, <2>8, <2>9
  <1>2. PreflightInv => TakeProfitBeyondLimit
    BY <1>1 DEF TakeProfitBeyondLimit
  <1>3. QED
    BY <1>2, Invariant, PTL

-------------------------------------------------------------------------------
(* The theorem about the numbers sent to Binance.                          *)

\* Python's `or` takes the market filter whenever there is a positive one.
LEMMA MarketFilters ==
  LET market == request.type = "market"
  IN  /\ {Step(request), MinQty(request), MaxQty(request)} \subseteq Nat \ {0}
      /\ Step(request) = IF market /\ Filters.marketStep > 0
                         THEN Filters.marketStep ELSE Filters.step
      /\ MinQty(request) = IF market /\ Filters.marketMinQty > 0
                           THEN Filters.marketMinQty ELSE Filters.minQty
      /\ MaxQty(request) = IF market /\ Filters.marketMaxQty > 0
                           THEN Filters.marketMaxQty ELSE Filters.maxQty
  BY FiltersAssumption DEF Step, MinQty, MaxQty, MarketOr, Unset

\* What _normalized_quantity, _normalized_price and _validate_min_notional have
\* established still holds of the numbers that are sent, for any filters.
THEOREM FiltersCorrect == Spec => []FiltersRespected
  <1>1. ASSUME PreflightInv, SentBy(BinanceTestAdapter)
        PROVE  /\ order.quantity \in Int
               /\ order.quantity % Step(request) = 0
               /\ order.quantity >= MinQty(request)
               /\ order.quantity <= MaxQty(request)
               /\ order.quantity <= command.quantity
               /\ request.type = command.type
    <2>1. /\ sent # <<>> /\ order.quantity = BinanceQuantity(request)
          /\ QuantityValid(request) /\ command.quantity # None
          /\ request.quantity = command.quantity /\ request.type = command.type
      BY <1>1, BinanceSent DEF BinanceParams, BinanceValid, request, BuildRequest
    <2>2. command.quantity \in Nat /\ 1 \in Nat \ {0}
      BY <1>1, <2>1, CommandNumbers
    <2> DEFINE quantity == command.quantity
    <2> DEFINE step == Step(request)
    <2>3. order.quantity = FloorTo(quantity, 1, step)
      BY <2>1 DEF BinanceQuantity
    <2>4. quantity \in Int /\ step \in Nat \ {0}
      BY <2>2, MarketFilters
    <2> HIDE DEF quantity, step
    <2>5. /\ FloorTo(quantity, 1, step) \in Int
          /\ FloorTo(quantity, 1, step) * 1 <= quantity
          /\ FloorTo(quantity, 1, step) % step = 0
      BY <2>2, <2>4, FloorFacts
    <2>6. order.quantity \in Int /\ order.quantity <= quantity /\ order.quantity % step = 0
      BY <2>3, <2>4, <2>5
    <2>7. order.quantity >= MinQty(request) /\ order.quantity <= MaxQty(request)
      BY <2>1 DEF QuantityValid
    <2>8. QED
      BY <2>1, <2>6, <2>7 DEF quantity, step
  <1>2. ASSUME PreflightInv, SentBy(BinanceTestAdapter), command.type \in {"limit", "stop_limit"}
        PROVE  /\ order.price % Filters.tick = 0
               /\ Filters.minPrice # Unset => order.price >= Filters.minPrice
               /\ Filters.maxPrice # Unset => order.price <= Filters.maxPrice
               /\ Filters.minNotional # Unset =>
                    order.price * order.quantity >= Filters.minNotional
               /\ IF order.side = "BUY" THEN order.price <= command.limitPrice
                                        ELSE order.price >= command.limitPrice
    <2>1. /\ sent # <<>> /\ BinanceValid(request) /\ Passed
          /\ order.quantity = BinanceQuantity(request) /\ order.side = BinanceSide(request)
          /\ order.price = BinancePrice(command.limitPrice, request)
          /\ request.limitPrice = command.limitPrice
      BY <1>2, BinanceSent DEF BinanceParams, request, BuildRequest
    <2>2. command.limitPrice \in Nat /\ command.limitPrice # None
      BY <1>2, <2>1, CommandNumbers DEF Passed, RequestValid
    <2>3. order.price = BinanceRounded(command.limitPrice, order.side)
      BY <2>1 DEF BinancePrice
    <2>4. /\ order.price % Filters.tick = 0
          /\ IF order.side = "BUY" THEN order.price <= command.limitPrice
                                   ELSE order.price >= command.limitPrice
      BY <2>2, <2>3, BinanceRoundedFacts
    <2>5. QED
      BY <2>1, <2>2, <2>4 DEF BinanceValid, BinancePriceValid, NotionalValid
  <1>3. PreflightInv => FiltersRespected
    BY <1>1, <1>2, MarketFilters DEF FiltersRespected
  <1>4. QED
    BY <1>3, Invariant, PTL

===============================================================================
