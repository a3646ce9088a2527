---------------------------- MODULE Reconciliation ----------------------------
(***************************************************************************)
(* The OKX reconciliation snapshot: several read-only queries, one after   *)
(* the other, of an account that goes on trading, put together into one    *)
(* document whose closing fills say what closed the position.              *)
(*                                                                         *)
(* One instrument with a net long position.  Orders are the executor's     *)
(* entries and closes, closes made by hand at the broker, attached         *)
(* stop-loss/take-profit pairs and standalone remediation stops; the last  *)
(* two are algo orders whose trigger creates an order that fills at once.  *)
(* The account's history stays below the 100 items of a query.             *)
(***************************************************************************)
EXTENDS Integers, Sequences, FiniteSetsExt, SequencesExt

CONSTANTS
  Order,      \* orders and algo orders
  Role,       \* [Order -> Roles]
  Lots,       \* [Order -> Nat]: what each of them fills
  Parent,     \* the entry that attached pairs belong to
  AlgoTypes,  \* the types algo orders are queried by, one after the other
  AlgoType,   \* [Order -> AlgoTypes], of those that are algo orders
  Fault,      \* the kinds of fault that may occur, a subset of Faults
  MaxFaults,  \* bound on the number of faults
  MaxEvents   \* bound on what happens at the broker

Roles == {"entry", "close", "manual", "attached", "standalone"}

\* "query"   the balance, a position, order or fill query fails
\* "algo"    an algo query fails
\* "upload"  the snapshot never reaches YTM
Faults == {"query", "algo", "upload"}

Algos == {o \in Order : Role[o] \in {"attached", "standalone"}}
Closing == {o \in Order : Role[o] # "entry"}

ASSUME RoleAssumption == Role \in [Order -> Roles]
ASSUME LotsAssumption == Lots \in [Order -> Nat \ {0}]
ASSUME AlgoTypesAssumption ==
  /\ AlgoTypes \in Seq(ToSet(AlgoTypes))
  /\ \A i, j \in DOMAIN AlgoTypes : AlgoTypes[i] = AlgoTypes[j] => i = j
ASSUME AlgoTypeAssumption == \A o \in Algos : AlgoType[o] \in ToSet(AlgoTypes)
ASSUME ParentAssumption == Parent \in Order /\ Role[Parent] = "entry"
ASSUME FaultAssumption == Fault \subseteq Faults
ASSUME BoundAssumption == MaxFaults \in Nat /\ MaxEvents \in Nat

None == "none"

VARIABLES
  \* the broker
  state,     \* of each order: "absent", "live", "filled" or "cancelled"
  side,      \* what a triggered algo order was: "sl", "tp" or None
  told,      \* the order it created says so too
  events,
  \* the executor
  answers,   \* the answers of the capture under way, in the order of Queries
  warnings,  \* the queries that were unavailable
  \* YTM Cloud
  label,     \* the close source last uploaded for each fill, or None
  faults,
  \* history
  before     \* what existed, and what had filled, when the capture began

brokerVars == <<state, side, told, events>>
captureVars == <<answers, warnings, before>>
vars == <<brokerVars, captureVars, label, faults>>

Filled == {o \in Order : state[o] = "filled"}
NetLots(S) ==
  MapThenSumSet(LAMBDA o : IF o \in Closing THEN -Lots[o] ELSE Lots[o], S)
Position == NetLots(Filled)

-------------------------------------------------------------------------------
(* The broker (external).                                                  *)

Event ==
  /\ events < MaxEvents
  /\ events' = events + 1

\* An entry may be placed at any time; what closes needs a position.
Accept(o) ==
  /\ Event
  /\ state[o] = "absent"
  /\ Role[o] # "attached"
  /\ o \in Closing => Position >= Lots[o]
  /\ state' = [state EXCEPT ![o] = "live"]
  /\ UNCHANGED <<side, told, captureVars, label, faults>>

\* A fill of the parent entry makes the attached pair live.
Fill(o) ==
  /\ Event
  /\ state[o] = "live" /\ o \notin Algos
  /\ o \in Closing => Position >= Lots[o]
  /\ state' = [p \in Order |->
       IF p = o THEN "filled"
       ELSE IF o = Parent /\ Role[p] = "attached" /\ state[p] = "absent" THEN "live"
       ELSE state[p]]
  /\ UNCHANGED <<side, told, captureVars, label, faults>>

Trigger(o) ==
  /\ Event
  /\ state[o] = "live" /\ o \in Algos
  /\ Position >= Lots[o]
  /\ state' = [state EXCEPT ![o] = "filled"]
  /\ \E s \in IF Role[o] = "attached" THEN {"sl", "tp"} ELSE {"sl"} :
       side' = [side EXCEPT ![o] = s]
  /\ \E t \in BOOLEAN : told' = [told EXCEPT ![o] = t]
  /\ UNCHANGED <<captureVars, label, faults>>

Cancel(o) ==
  /\ Event
  /\ state[o] = "live"
  /\ state' = [state EXCEPT ![o] = "cancelled"]
  /\ UNCHANGED <<side, told, captureVars, label, faults>>

\* What the broker's items say.  Only orders of the executor carry a client order
\* id with its prefix; a live attached pair names its parent's order id, a
\* triggered algo order the order it created; pairs do not say reduceOnly.
OrderItem(o) ==
  [order |-> o, refs |-> {<<"order", o>>}, own |-> Role[o] \in {"entry", "close"},
   reduceOnly |-> o \in Closing, actualSide |-> IF told[o] THEN side[o] ELSE None]

AlgoItem(o) ==
  [order |-> o,
   refs |-> {<<"algo", o>>} \cup
            (IF state[o] = "filled" THEN {<<"order", o>>}
             ELSE IF Role[o] = "attached" THEN {<<"order", Parent>>} ELSE {}),
   own |-> FALSE, reduceOnly |-> Role[o] = "standalone", actualSide |-> side[o]]

FillItem(o) ==
  [order |-> o, refs |-> {<<"order", o>>}, own |-> Role[o] \in {"entry", "close"},
   reduceOnly |-> FALSE, actualSide |-> None]

\* The items of one query, from the orders in the states it asks for.
PendingOrders == {OrderItem(o) : o \in {p \in Order \ Algos : state[p] = "live"}}
OrdersHistory ==
  {OrderItem(o) : o \in {p \in Order : state[p] = "filled"
                           \/ (state[p] = "cancelled" /\ p \notin Algos)}}
PendingAlgos(t) == {AlgoItem(o) : o \in {p \in Algos : AlgoType[p] = t /\ state[p] = "live"}}
AlgosHistory(t) ==
  {AlgoItem(o) : o \in {p \in Algos : AlgoType[p] = t
                          /\ state[p] \in {"filled", "cancelled"}}}
FillsHistory == {FillItem(o) : o \in Filled}

-------------------------------------------------------------------------------
(* The labels.                                                             *)

\* Mutation of InferCloseSource: the client order id is not looked at.
InferCloseSourceAnyClient(item) ==
  CASE item.actualSide = "tp" -> "take_profit"
    [] item.actualSide = "sl" -> "stop_loss"
    [] item.actualSide = None /\ item.reduceOnly -> "provider_manual"
    [] OTHER -> None

\* Mutation of InferCloseSource: the side is passed on as the broker writes it.
InferCloseSourceRaw(item) ==
  IF item.actualSide # None THEN item.actualSide
  ELSE IF item.reduceOnly /\ ~item.own THEN "provider_manual" ELSE None

\* _infer_close_source: what the item says, else a reduce-only order that is not
\* the executor's was made by hand.
InferCloseSource(item) ==
  CASE item.actualSide = "tp" -> "take_profit"
    [] item.actualSide = "sl" -> "stop_loss"
    [] item.actualSide = None /\ item.reduceOnly /\ ~item.own -> "provider_manual"
    [] OTHER -> None

\* The items of a part of the answers that label a reference.
Labelling(items, ref) == {i \in items : ref \in i.refs /\ InferCloseSource(i) # None}

\* Mutation of CloseSourceOf: the first label of a reference stays.
CloseSourceOfFirst(parts, ref) ==
  LET labelling == {n \in DOMAIN parts : Labelling(parts[n], ref) # {}}
  IN IF labelling = {} THEN None
     ELSE InferCloseSource(CHOOSE i \in Labelling(parts[Min(labelling)], ref) : TRUE)

\* _close_sources_by_order_ref at one reference: later items override.
CloseSourceOf(parts, ref) ==
  LET labelling == {n \in DOMAIN parts : Labelling(parts[n], ref) # {}}
  IN IF labelling = {} THEN None
     ELSE InferCloseSource(CHOOSE i \in Labelling(parts[Max(labelling)], ref) : TRUE)

\* _fill_close_source; a fill names only its order.
FillCloseSource(item, parts) ==
  IF InferCloseSource(item) # None THEN InferCloseSource(item)
  ELSE CloseSourceOf(parts, CHOOSE r \in item.refs : TRUE)

-------------------------------------------------------------------------------
(* The capture.                                                            *)

\* A query is a name and, of the algo queries, a type.
Ask(name) == <<name, None>>

\* The two queries of each algo type.
AlgoQueries ==
  [n \in 1..(2 * Len(AlgoTypes)) |->
     <<IF n % 2 = 1 THEN "algos_pending" ELSE "algos_history", AlgoTypes[(n + 1) \div 2]>>]

\* Mutations of Queries: fills before positions; history before pending orders.
QueriesFillsFirst ==
  <<Ask("fills"), Ask("positions"), Ask("pending"), Ask("history")>> \o AlgoQueries
QueriesHistoryFirst ==
  <<Ask("positions"), Ask("history"), Ask("pending")>> \o AlgoQueries \o <<Ask("fills")>>

\* The queries of capture_snapshot, in its order; the balance is RiskState's.
Queries ==
  <<Ask("positions"), Ask("pending"), Ask("history")>> \o AlgoQueries \o <<Ask("fills")>>

Reply(q) ==
  CASE q[1] = "positions" -> Position
    [] q[1] = "pending" -> PendingOrders
    [] q[1] = "history" -> OrdersHistory
    [] q[1] = "algos_pending" -> PendingAlgos(q[2])
    [] q[1] = "algos_history" -> AlgosHistory(q[2])
    [] q[1] = "fills" -> FillsHistory

NextQuery == Queries[Len(answers) + 1]
Capturing == Len(answers) < Len(Queries)
Complete == Len(answers) = Len(Queries)

Nothing == [existed |-> {}, filled |-> {}]

Init ==
  /\ state = [o \in Order |-> "absent"]
  /\ side = [o \in Order |-> None]
  /\ told = [o \in Order |-> FALSE]
  /\ events = 0
  /\ answers = <<>>
  /\ warnings = {}
  /\ before = Nothing
  /\ label = [o \in Order |-> None]
  /\ faults = 0

Faulty(kind) ==
  /\ kind \in Fault
  /\ faults < MaxFaults
  /\ faults' = faults + 1

\* Bookkeeping: the first query marks the beginning of the capture.
MarkBefore ==
  before' = IF answers = <<>>
            THEN [existed |-> {o \in Order : state[o] # "absent"}, filled |-> Filled]
            ELSE before

Query ==
  /\ Capturing
  /\ answers' = Append(answers, Reply(NextQuery))
  /\ MarkBefore
  /\ UNCHANGED <<brokerVars, warnings, label, faults>>

\* _optional_okx_response_data: a failing algo query is an empty one, and a warning.
QueryUnavailable ==
  /\ Capturing
  /\ NextQuery \in ToSet(AlgoQueries)
  /\ Faulty("algo")
  /\ answers' = Append(answers, {})
  /\ warnings' = warnings \cup {NextQuery}
  /\ MarkBefore
  /\ UNCHANGED <<brokerVars, label>>

StartOver == answers' = <<>> /\ warnings' = {} /\ before' = Nothing

\* Any other failing query raises; the loop prints it and starts again.
QueryFails ==
  /\ Capturing
  /\ NextQuery \notin ToSet(AlgoQueries)
  /\ Faulty("query")
  /\ StartOver
  /\ UNCHANGED <<brokerVars, label>>

Answer(q) == answers[CHOOSE i \in DOMAIN Queries : Queries[i] = q]

\* The parts close sources are inferred from, in the order of the code.
Parts == <<Answer(Ask("pending")), Answer(Ask("history"))>>
           \o [n \in DOMAIN AlgoQueries |-> Answer(AlgoQueries[n])]

FillsOf == {i.order : i \in Answer(Ask("fills"))}
Labels ==
  [o \in FillsOf |-> FillCloseSource(CHOOSE i \in Answer(Ask("fills")) : i.order = o, Parts)]

\* The complete snapshot is uploaded with status "ok", warnings or not.
Upload ==
  /\ Complete
  /\ LET labels == Labels
     IN label' = [o \in Order |-> IF o \in DOMAIN labels THEN labels[o] ELSE label[o]]
  /\ StartOver
  /\ UNCHANGED <<brokerVars, faults>>

UploadLost ==
  /\ Complete
  /\ Faulty("upload")
  /\ StartOver
  /\ UNCHANGED <<brokerVars, label>>

Next ==
  \/ \E o \in Order : Accept(o) \/ Fill(o) \/ Trigger(o) \/ Cancel(o)
  \/ Query \/ QueryUnavailable \/ QueryFails
  \/ Upload \/ UploadLost

Spec == Init /\ [][Next]_vars

\* The reconciliation loop repeats for ever; its calls end.
FairSpec == Spec /\ WF_vars(Query \/ Upload)

-------------------------------------------------------------------------------
(* Properties of a complete snapshot.                                      *)

\* Types of the variables.
TypeOK ==
  /\ state \in [Order -> {"absent", "live", "filled", "cancelled"}]
  /\ side \in [Order -> {"sl", "tp", None}]
  /\ told \in [Order -> BOOLEAN]
  /\ Len(answers) <= Len(Queries)
  /\ warnings \subseteq ToSet(AlgoQueries)
  /\ before.filled \subseteq before.existed /\ before.existed \subseteq Order
  /\ label \in [Order -> {"take_profit", "stop_loss", "provider_manual", None}]
  /\ faults \in 0..MaxFaults
  /\ events \in 0..MaxEvents

\* What closed the position; the executor's own orders have no label.
CloseSource(o) ==
  CASE side[o] = "tp" -> "take_profit"
    [] side[o] = "sl" -> "stop_loss"
    [] Role[o] = "manual" -> "provider_manual"
    [] OTHER -> None

\* A fill has its true label or none.  Only when an algo query was unavailable may
\* one be wrong, and then only for a triggered algo order whose own record does
\* not tell its side: it is taken for a close by hand.
LabelsTruthful ==
  Complete =>
    LET labels == Labels
    IN \A o \in FillsOf :
         \/ labels[o] \in {CloseSource(o), None}
         \/ /\ warnings # {} /\ o \in Algos /\ ~told[o]
            /\ labels[o] = "provider_manual"

\* What had filled when the capture began is labelled, whatever trades, triggers
\* and cancellations fall between the queries, unless a warning says otherwise.
LabelsComplete ==
  Complete /\ warnings = {} =>
    LET labels == Labels IN \A o \in before.filled : labels[o] = CloseSource(o)

\* The fills of a snapshot explain its position: some of them add up to it.  The
\* position is never ahead of the fills YTM applies.
PositionExplained ==
  Complete => \E S \in SUBSET FillsOf : NetLots(S) = Answer(Ask("positions"))

\* No order that existed when the capture began is missing from the snapshot, be
\* it filled, triggered or cancelled between two queries.
Reported == UNION {{i.order : i \in Parts[n]} : n \in DOMAIN Parts}
NothingMissing == Complete /\ warnings = {} => before.existed \subseteq Reported

\* YTM comes to know what closed each position, although single snapshots may
\* miss it or get it wrong.
EventuallyLabelled ==
  <>[](\A o \in Filled : label[o] = CloseSource(o))

-------------------------------------------------------------------------------
(* The inductive invariants behind them: what the answers so far have in     *)
(* them while the account trades on.                                         *)

\* An order that is over stays as it is; the broker's items about it too.
Over(o) == state[o] \in {"filled", "cancelled"}

OrdersIn(items) == {i.order : i \in items}

\* A side is known of the triggered algo orders, and of nothing else.
SideInv ==
  /\ \A o \in Order : side[o] # None <=> o \in Algos /\ state[o] = "filled"
  /\ \A o \in Order : told[o] => o \in Algos /\ state[o] = "filled"

\* What a capture noted when it began still exists, and is still filled.
BeforeInv ==
  /\ answers = <<>> => before = Nothing /\ warnings = {}
  /\ before.existed \subseteq {o \in Order : state[o] # "absent"}
  /\ before.filled \subseteq Filled

\* Every item of the answer to q still says what the broker would say of its
\* order today, or is one that labels no order id.
Sound(q, answer) ==
  /\ q[1] = "positions" => \E S \in SUBSET Filled : NetLots(S) = answer
  /\ q[1] = "pending" =>
       \A i \in answer : i.order \in Order \ Algos /\ i = OrderItem(i.order)
  /\ q[1] = "history" =>
       \A i \in answer :
         /\ i.order \in Order /\ Over(i.order) /\ i = OrderItem(i.order)
         /\ i.order \in Algos => state[i.order] = "filled"
  /\ q[1] = "algos_pending" =>
       \A i \in answer :
         /\ i.actualSide = None
         /\ i.reduceOnly => \A o \in Order : <<"order", o>> \notin i.refs
  /\ q[1] = "algos_history" =>
       \A i \in answer :
         /\ i.order \in Algos /\ AlgoType[i.order] = q[2]
         /\ Over(i.order) /\ i = AlgoItem(i.order)
  /\ q[1] = "fills" =>
       \A i \in answer : i.order \in Filled /\ i = FillItem(i.order)
SoundInv == \A n \in DOMAIN answers : Sound(Queries[n], answers[n])

\* What the n-th answer has in it of the orders that existed when the capture
\* began, of those that had filled, and of the algo orders of its type that
\* the order history told of.
Full(n) ==
  LET q == Queries[n]
      has == OrdersIn(answers[n])
      typed == {o \in Algos : AlgoType[o] = q[2]}
  IN /\ q[1] = "pending" =>
          \A o \in before.existed \ Algos : o \in has \/ Over(o)
     /\ q[1] = "history" =>
          /\ before.existed \ Algos \subseteq OrdersIn(answers[n - 1]) \cup has
          /\ before.filled \subseteq has
     /\ q[1] = "algos_pending" /\ warnings = {} =>
          \A o \in before.existed \cap typed : o \in has \/ Over(o)
     /\ q[1] = "algos_history" /\ warnings = {} =>
          /\ before.existed \cap typed \subseteq OrdersIn(answers[n - 1]) \cup has
          /\ (before.filled \cup OrdersIn(answers[3])) \cap typed \subseteq has
     /\ q[1] = "fills" =>
          /\ before.filled \subseteq has
          /\ \E S \in SUBSET has : NetLots(S) = answers[1]
FullInv == \A n \in DOMAIN answers : Full(n)

===============================================================================
