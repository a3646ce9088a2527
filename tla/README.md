# A TLA+ development of the YTM executor

`ytm-executor` leases trading commands from YTM Cloud, checks them against local
policy, and for one adapter places real orders at OKX. This directory models the
parts of it that keep state or decide something, checks them with TLC on small
instances, and proves the most important properties with TLAPS for every instance.
Paths below are relative to the repository; `okx_swap.py:142` means
`src/ytm_executor/okx_swap.py`, line 142.

## The system

| Component | State | Operations | Model |
|---|---|---|---|
| Command execution (`cli.py`, `preflight.py`, `execution_store.py`, `client.py`) | `executions.json`, `risk-policy.json`, the handler's progress | lease, answer from the store, gates, policy reload, prepare, lookup, place, verify, store, report | `CommandExecution`, `CommandOutcome` |
| Drawdown state and stops (`risk.py`, reconciliation loop in `cli.py`) | `risk-state.json` | update from a snapshot; the daily and total stops, evaluated twice by a handler | `RiskState`, `DrawdownGate` |
| Gates on the command's content (`preflight.py`, `risk.py`, `adapters.py`) | `risk-policy.json`, the handler's progress | policy and its reload, attestation, futures checks, `build_order_request`, choice of the adapter | `CommandGates`, `Preflight` |
| OKX order normalisation (`okx_swap.py`) | the leverage at the broker | `okx_swap_order_params`, `set_leverage` | `OkxOrder`, `Rounding`, `Preflight` |
| Binance order test (`binance_futures.py`) | none | the symbol's filters, `binance_usdm_futures_order_test_params` | `BinanceOrder`, `Rounding`, `Preflight` |
| OKX protection (`okx_swap.py`) | the broker's orders, stops and position | verify, remediate | `Protection` |
| Reconciliation snapshot (`reconciliation.py`, `cli.py`) | the capture under way | the queries in their order, close-source inference, upload | `Reconciliation` |
| Credentials and validation (`secret_store.py`, `validation.py`, `validation_store.py`) | `secrets.json`, `validations.json` | `broker add`, `broker validate`, the credential gates | `Credentials` |
| Heartbeat, enrollment, secret-field guard, command line, packaging | written once, or none | | not modelled |

How they interact. A handler is one sequential run of `_process_lease_response`, but
several run at once: the loop of `run`, a `run --once` beside it, and, after a lease
has expired, the same command again in another process. They share four JSON files
that nothing locks and that every writer truncates and rewrites in place (module
`JsonFile`), and they talk to YTM and to the broker over calls that may be lost, late
or answered unusably. The operator rewrites the policy and the credentials meanwhile,
and the reconciliation thread rewrites the drawdown state.

What is hard in this code, and what would be right:

- An order must not be placed twice, whether the process dies after `place_order`, the
  report is lost, or another process has the same command. The only defences are the
  store, the lookup by `clOrdId` and the broker's refusal of a repeated `clOrdId`.
- "acknowledged" must be true of the broker, and an order that the broker has named must
  not be called rejected.
- The kill switch must be the last word before a real order, although the policy was
  read earlier.
- A loss that was recorded must stop real commands, on the right day, and the absence
  of a record must stop them too.
- An open position without a stop must be flagged, although fills, activation and
  closing happen between the queries, and a stop must not be claimed that never was.
- The drawdown state and the clock are read once and the policy twice: whatever falls
  between, no order may be placed against a loss the handler could have seen.
- No default and no missing key of the policy may relax what an explicit one forbade.
- Rounding to tick, lot and step must not carry a price or a size across a limit it was
  validated against, and a leverage must be the one the command names.
- A snapshot is put together from queries at different times: nothing may fall between
  two of them, and a fill must not be labelled with what did not close the position.
- Validation must be recent, whatever races on its file.

## Modules

`JsonFile` says what a rewrite in place does: a file is intact, empty (truncated) or
mixed (two writers overlapped), and a read of anything but an intact file raises.

`CommandExecution` has one action per step of a handler that ends at a network call or
a file access, so that other processes may act between any two. Pure gates are one step
with the read they use. `pc[w]` follows `_process_lease_response`: `cache` (the store,
`cli.py:367-381`), `policy` (first evaluation), `final` (the reload of
`preflight.py:128-156`), `prepare`, `lookup`, `place`, `verify` (the adapter,
`okx_swap.py:112-187`), `put`, `truncate`, `write` (`execution_store.py:48-58`) and
`report`. A `ValueError` is a rejection; any other exception ends the handler without a
result, and the loop goes on (`cli.py:272-275`). YTM leases a command until it has an
answer; leases expire at any time. The broker counts the orders accepted for each
client order id; `BrokerDedups` says whether it refuses one it has seen.

`CommandOutcome` is the abstract specification: per command, at most one order and
one answer, "acknowledged" for a placing command only with an order. `CommandExecution`
implements it: `Outcome` is an instance of `CommandOutcome` WITH its orders and answers
given by those of `CommandExecution`, and `ImplementsOutcome` is its specification.

`RiskState` splits an update into capture, read-and-compute, truncate and write, because
the snapshot is taken before the file is read, and two updaters may overlap. `NextState`
is the update itself, with Python's `or` kept (`PyOr`: zero counts as absent).
`StopsPass` is what a handler finds when it reads the file. History variables record the
equities of the updates that reached the file.

`DrawdownGate` extends `RiskState` with handlers and the operator, and composes the two:
a handler reads the policy, the state and the clock in three steps, decides, reloads the
policy and decides again with the state and the date it already has
(`preflight.py:128-146`). Of the policy only "carries its limits" is kept.

`Protection` has one command's entry with attached stop and take profit. The broker
fills (at once, or later while the entry rests), activates the attached stop, and closes
positions. A handler queries pending algo orders, then the net position, then places a
standalone stop under a client order id derived from the entry. The queries of the four
algo order types (`okx_swap.py:16`) are one step. The rest of the handler is kept only as far as its repetition
matters. Sizes are lots, the entry is a long; a short is symmetric.

`Credentials` has `broker add` and `broker validate` as steps on their files, and the
three gates of a handler (`ListCredentials`, `Gate`, `Resolve`), each reading a file at
its own time. Secrets are numbers in order of entry. The broker honours some; revoking
one ends that. `checkedAt` is the time before the calls, as in `validation.py:64-75`.

`Preflight` is one run of `preflight_command` with all the content it decides on:
`Gates` (everything up to `preflight.py:127`), `FinalEvaluate` (the reload), one action
per adapter, and for the placing one the leverage, the order (`PlaceOkx`) and what the
handler makes of the answer (`TakeAnswer`) apart. An order that the broker accepted may
come back named, without code, data or `ordId` (a `ValueError`, hence "rejected"), or not
at all (another exception: no answer to YTM). Every other call may be refused or fail
(`BrokerFails`, `Fail`). The operator may rewrite the policy at any time, and the leverage at the broker
is what an earlier command left. A command and its `commandPayload` are one record.
It rests on pure modules: `CommandGates` (the policy file with its defaults,
`evaluate_command_risk` without the stops, `build_order_request`), `OkxOrder` and
`BinanceOrder` (from a request to an order's parameters, decimals as integers of a small
unit, every check that raises as a conjunct), and `Rounding`. `CommandExecution` has
these gates as one nondeterministic rejection; here the repetition of a command is left
out instead, and with it the lookup of its earlier order.

`Reconciliation` has a broker on one side, with entries, closes, closes by hand, attached
pairs and standalone stops on one instrument, and the capture on the other: one action
per query, in the order of `capture_snapshot`, so that fills, triggers and cancellations
fall between any two. A failing algo query is an empty one and a warning
(`QueryUnavailable`), any other ends the cycle (`QueryFails`). The labels are computed as
in the code: items in the order pending, history, algo orders, and the later override.
What the broker's items say is external: a live attached pair names its parent's order
id and does not say `reduceOnly`; a triggered algo order names the order it created.

`MC*` modules give TLC its constants. `*Proofs` modules hold the theorems.

## Runs

| Run | Checks | Bounds |
|---|---|---|
| `exec_single` | types; at most one order per command without the broker's help; kill switch; stored results survive and are not turned into rejections; no order after the answer; every command is answered | one process, two placing commands and a paper one, 2 faults, 2 policy rewrites |
| `exec_pair` | acknowledged orders exist; the executor implements `CommandOutcome` | two processes, two placing commands, every kind of fault, 2 faults |
| `exec_accepted_rejected` | violated: an accepted order is reported as rejected | one process, one fault |
| `risk_single` | types; the two stops hold for recorded losses; a loss recorded before a handler read the state blocks its order; the file comes to hold an equity that rests | one updater, one handler, 3 equities, 3 moves, 2 days, 2 faults, 1 policy edit |
| `risk_pair` | a day without an update blocks real commands, and no order is placed under a daily limit for such a day | two updaters, one handler, torn writes |
| `risk_zero_equity` | violated: total drawdown stop with an equity of zero | one move |
| `preflight` | types; a stricter policy never lets more pass; placed only when allowed; acknowledged only with an order the broker named and rejected only without one; reduce-only honoured; leverage as named; slippage, size, order of the triggers, take profit beyond the sent price; Binance filters | five usual commands with every pair of deviations under a policy that lets them pass; the usual commands under every policy file and every rewrite of it; every size (3 quantities, 2 notionals) with every pair of prices (4 each), and every pair of triggers and both slippages with every pair of prices |
| `okx_stop_inside_entry` | violated: a stop loss not beyond the sent price | the same numbers |
| `protection` | types; claims are backed; exposure is reported and settled | two handlers, 2 lots, positions of either direction from elsewhere, 3 faults |
| `reconciliation` | types; labels are true and complete; the fills explain the position; no order falls between two queries; every close is labelled in the end | one order of each kind, 5 events at the broker, 1 fault, one algo type |
| `credentials` | types; an account was read recently; recorded failures keep the gate shut | one operator, two names, 2 secrets, 3 moments, 1 fault |
| `cred_not_validated` | violated: a secret that was never validated is used | no fault |

Why these bounds. Two commands and two processes are enough for every pair of steps of
two handlers to interleave on one command or on one file. Two faults are needed for the
deepest cases: a crash after the placement and another before the retry is done. Two
policy rewrites let the kill switch go on and off again around one handler. Two days
and three moves let a loss be recorded, survive midnight and be recorded again.
Prices that are no multiples of the tick and lie on both sides of one are what rounding
is about; a size never depends on a trigger nor a trigger on a size, so the two are varied
apart. Two deviations from a usual command let one gate hide what another lets pass.
Five events are an entry, a close of it and one more trigger or cancellation in the same
capture; the algo types differ only in name, so one of the four is enough to change
between its two queries. `Filters` of `preflight` has a market step that differs, a
market minimum of zero and a binding minimum notional. The theorems below remove the bounds from most of the safety properties.

`CHECK_DEADLOCK FALSE` appears only for `Preflight`, whose one handler ends. Elsewhere
a process can always lease again, capture again or find nothing to do.

Constants that matter:

- `exec_single` has a broker that accepts duplicates, truthful lookups and no request
  that outlives its call; `exec_pair` has the opposite. With two processes and a broker
  that accepts duplicates, two orders are possible: both look up before either places.
- `exec_single` leaves out `tear`. With it, `StoredResultsSurvive` fails: a process that
  dies between the truncation and the write of `executions.json` loses every stored
  result and leaves a file that each later command raises on, so `EveryCommandAnswered`
  fails too.
- `exec_single` also leaves out `abort`. A policy file torn by a dying rewrite ends each handler
  at its first read without any result (`cli.py:382`), where docs/RISK_POLICY.md:9-12
  says commands are rejected when policy parsing fails; the reload inside preflight does
  reject.
- `risk_single` has one updater. With two, the older snapshot may be written last and
  `DailyLossStops` fails; with `tear`, or with a first equity of zero, the file is one that
  no later update can read, and `EventuallyCurrent` fails.
- `Protection` tells entries that rest after `place_order` returned (`resting`). For those
  `pending_activation` is stored for good, and a later fill is not looked at again, so
  `ExposureReported` and `ExposureSettled` except them. They also except a command that a
  gate rejects on repetition, which is the subject of `exec_accepted_rejected`.
- `risk_single` also has the handler of `DrawdownGate`; `RecordedLossBlocksOrder` counts
  what was recorded when the state was read. A loss recorded after that does not stop the
  order under way, and the order may be placed on a later date than the one it was
  evaluated for.
- `AcknowledgedTruthfully` does not say that an order which exists is never rejected: an
  answer that does not name it rejects (`okx_swap.py:147-154`, `preflight.py:165-170`). It
  says that nothing else does, not the verification of the protection for one.
- `Preflight` has one handler. Between the confirmation of a leverage and the placement
  another process may set another one; and a command that names none is placed under
  whatever was left. `LeverageAsNamed` speaks of neither.
- `LabelsTruthful` allows one wrong label: when an algo query was unavailable, the fill of
  a triggered stop is labelled as closed by hand, in a snapshot uploaded as `ok`.
- `credentials` has one operator: with two racing on `validations.json` a recorded failure can be
  lost, so `VerdictHonoured` needs it. `AccountReadRecently` does not, and is proved for
  any number.

## Fairness

`CommandExecution`: weak fairness of each process's handling and leasing (the loop of
`run` never stops and a supervisor restarts a dead process), of lease expiry, and of
finishing a policy rewrite that has begun. No fairness for faults, the operator's
rewrites or the broker's late receipt. Faults are bounded, so `EveryCommandAnswered` says that finitely many
do not keep a command from an answer.
`RiskState`: weak fairness of the updater (the reconciliation loop, `cli.py:335-348`,
catches every exception and repeats). `Protection`: weak fairness of each handler's own
steps, none for the broker: `ExposureSettled` does not rely on a stop ever becoming
active. `Reconciliation`: weak fairness of a query or an upload, the same loop as
`RiskState`'s; events and faults are bounded, so `EventuallyLabelled` says that a snapshot
taken after the last of them corrects every label.

## What is proved

All for every value of the constants, from the named assumptions of the modules (sets
of the right shape, bounds that are naturals).

- `CommandExecutionProofs`. `TypeCorrect`. `AcknowledgedOrdersExist`: an acknowledgement
  means an order, because every step to `verify` has seen or made one and no step takes
  one away. `KillSwitchHolds`, from `BlockInv`: a process counts as blocked only while
  the file forbids real orders, so the reload that lets it pass finds it unblocked.
  `RepeatsPlaceOnce` and `AnswersAreFinal`, for one process with truthful lookups
  (`OneFaithfulWorker`), from `SingleInv`: the invariant adds that a process about to
  place has found no order and nobody else can make one. `DedupPlacesOnce`, for any
  number of processes with a broker that refuses duplicates. Under either assumption the
  program implements `CommandOutcome` (`OutcomeImplemented`, `OutcomeImplementedAlone`):
  each step maps to a step of it or to a stutter as long as no command has two orders
  (`OutcomeStep`). `StoredStaysAcknowledged`, for one process under every fault, from
  `RejectInv`: past the cache a command is not in the store, and only an acknowledgement
  gets as far as `put`; without the last part the invariant is not inductive, since
  nothing would keep a rejection from being stored. `StoreSurvives`, for one process
  without `tear`, from `SurviveInv`: what is about to be written holds everything that
  was stored.
- `RiskStateProofs`. `TypeCorrect`. `NewDayBlocked`, for any number of updaters and torn
  writes, from `NewDayInv`: a loss in the file or in a state about to be written belongs
  to a day with a recorded update, or to the update under way. `DailyLossBlocked` and
  `TotalDrawdownBlocked`, for one updater (and equities that are not zero), from
  `DailyInv` and `TotalInv`: an intact file tells exactly the recorded history, and the
  state about to be written tells the history including its own update. The lemmas on
  `NextState` say what an update does to each field.
- `DrawdownGateProofs`. `RiskStateImplemented`: an execution with handlers and policy edits
  is one of `RiskState`, since they leave its variables alone; so the three invariants
  above hold here too, and the proofs cite them. `OrderDayCorrect`, for any updaters,
  handlers and edits, from `ViewInv`: a handler's copy of the state has a loss only for a
  day with a recorded update, and such a day stays one. `RecordedLossCorrect`, for one
  updater and equities that are not zero, from `DueInv`: the copy shows what had been
  recorded when it was read. Both need `PassedInv`: an order that is placed under the
  limits has passed the stops on the copy and the date its handler holds, which is what
  the second evaluation with the first one's inputs amounts to.
- `PreflightProofs`, for any commands, policy files, instruments and filters. The lemmas
  `FloorFacts` and `CeilFacts` say what rounding to a step does. `PreflightInv` is
  inductive: a handler past the gates has passed them under the policy last evaluated
  (`Passed`), a handler about to place runs under the leverage its command names, and
  what was sent are the parameters of a valid request, rejected only when the answer did
  not name the order (`SentInv`), while an acknowledgement of a real command has an order
  that was named (`ProgressInv`). From it follow the
  properties of the gates (`StricterCorrect`, `PlacementGuarded`, `AnswerTruthful`,
  `ReduceOnlyCorrect`, `LeverageCorrect`) and of the numbers (`SlippageCorrect`,
  `SizeCorrect`, `TriggersCorrect`, `TakeProfitCorrect`, `FiltersCorrect`; the last speaks
  of the exchange's filters themselves, and `MarketFilters` says which of them the model
  reads). They need
  only that numbers are naturals or unusable, and that ticks, lots and steps are positive.
- `ProtectionProofs`, for any handlers, sizes, faults and positions from elsewhere.
  `TypeCorrect`. `ClaimsCorrect`, from `ClaimInv`: an entry the broker does not have has
  no fill and no attachment to become active, and what has been live or placed once stays
  so recorded (`StopsStep`, `DecisionsStep`). `ExposureCorrect`, from `ExposureInv`: once
  the entry has ended, the position can only be closed (`ClosedStays`), so what a handler
  read of it, and a stop placed on that strength, still covers what is left.
- `ReconciliationProofs`, for any orders, sizes, list of distinct algo types, events and
  faults. `TypeCorrect`. `QueryOrder`, `QueryKind` and `AnswerAt` say which query stands
  where and that none is asked twice. The invariants speak of a capture under way, answer
  by answer: `SoundInv`, that an item still says what the broker would say today, or
  labels no order id, because orders that are over stay as they are; and `FullInv`, which
  of the orders noted at the beginning (`BeforeInv`) each answer has in it, or leaves to a
  later one because they are over by now. From them `PositionCorrect` (the position is
  asked for first and the fills last, and fills are for good), `NothingMissingCorrect`
  (each history is asked for after what is pending), `LabelsTrue` and
  `LabelsCompleteCorrect`: an order can only be labelled by the order queries and by the
  history of its own algo type, which comes last and is truthful (`LabellingItem`,
  `LastWord`). The order of the queries is what all four rest on.
- `CredentialsProofs`. `TypeCorrect`. `AccountRead`, from `ReadInv`: no summary that
  passed, in the file, in an operator's copy of it or about to be put, is newer than the
  last time the broker let an account be read. That survives races and torn files,
  because they only bring back older summaries. `VerdictCorrect`, for one operator and
  every fault, from `VerdictInv`: a file that can be read tells the latest verdict of each
  name, and what is about to be written tells them with its own.

The properties themselves are seldom inductive: they speak of a file, an answer or a
stop at one moment, while what makes them true is what every process carries towards it.
Hence each strengthening speaks of the shared state and of the copies in flight. TLC has
checked each of them on the instances of the runs.

Every safety invariant and action property of a passing run is proved. Only model-checked
are the four liveness properties, `EveryCommandAnswered`, `EventuallyCurrent`,
`ExposureSettled` and `EventuallyLabelled`: fairness is outside the prover.

Where a theorem assumes more than the named assumptions, it is for a reason the runs can
show. `OneWorker`, `OneUpdater` and `OneOperator` exclude two processes that rewrite one
file at once, which nothing in the code prevents but which loses what one of them wrote;
`"tear" \notin Fault` excludes a death inside a rewrite; equities other than zero exclude
the finding of `risk_zero_equity`; and without truthful lookups or a broker that refuses
duplicates a second order is possible.

## Disagreements found

- A transport error while protection is verified leaves an accepted order without a
  stored result; the next lease runs all gates before the lookup and may reject
  (`okx_swap.py:567`; README.md and docs/PROTOCOL.md say otherwise). Run
  `exec_accepted_rejected`.
- An equity of zero is taken for a missing one (`risk.py:212`). Run `risk_zero_equity`.
- The stop loss is validated against the price before rounding (`okx_swap.py:999`). Run
  `okx_stop_inside_entry`.
- An entry that nets another position to zero is reported with reason
  `parent_order_not_filled` (`okx_swap.py:525`), although it has filled. Nothing is exposed
  then, so no property of `Protection` speaks of it.
- The validation gate looks at the latest summary of the provider, whichever secret it
  speaks of (`preflight.py:223`). Run `cred_not_validated`.
- README.md:300 and SECURITY.md:68 say that real commands are rejected locally; with
  `--enable-real-orders` they are acknowledged, as docs/PROTOCOL.md says. Plain in
  `exec_pair`, whose placing commands are real.
- docs/RISK_POLICY.md:17 says that futures commands with unsupported semantics are
  rejected. The checks run only for markets named `okx_swap` or `usdm_futures`
  (`risk.py:356`), and the adapter is chosen by its own field: a command for another market
  that names the OKX adapter skips them. `ReduceOnlyHonoured` is restricted accordingly.
- The gate reads `marginMode` or `marginType`, the adapter `marginMode`, `mgnMode` or
  `tdMode` (`risk.py:359`, `adapters.py:117`); the model keeps both readings.
- Of several take-profit targets only the first is sent (`okx_swap.py:908-944`). A buy
  price below one tick rounds to zero, and a slippage of 10000 bps or more makes a sell
  bound that is not positive. A Binance market order is compared with `minNotional` at the
  notional it states, not at a price, so `FiltersRespected` speaks of the minimum for limit
  orders only.

## Not modelled

- The text of messages, redaction and `guards.py`: filters over strings.
- Enrollment and `state.py`: one request and one file, before anything else runs.
- The heartbeat: reads and posts, no local change, nothing depends on it.
- The master key's creation (`secret_store.py:128`). It happens once, in the first
  `broker add`; two first ones at the same time leave a secret that no key opens, and no
  document promises otherwise. What each broker's validation requests look like.
- An equity below zero. `_snapshot_usd_equity` raises (`risk.py:579`) and the update leaves
  the file as it is, like one that dies in `RiskState`'s `read` step; but while it lasts the
  last equity stays in force, and neither stop sees it.
- The conversion of Binance's numbers to `float`, and the digits of decimal texts.
- The limit of 100 items per query of a snapshot, and the fields that are only copied.
- Reduce and close commands through `Protection`: they carry no attached stop and are
  `not_required`.

## Plan

What is left, in the order of what matters most.

1. Abstract specifications of a snapshot (an atomic picture of some moment of the capture)
   and of the drawdown file (one register), and the proofs that `Reconciliation` and
   `RiskState` implement them.
2. The safety half of the liveness arguments: that no step increases the distance of a
   handler to its answer unless a fault, an expired lease or an edit is used up, which
   leaves only fairness to TLC.
3. `Reconciliation` with the limit of 100 items per query.
