--------------------------- MODULE DrawdownGateProofs ---------------------------
(***************************************************************************)
(* Theorems about DrawdownGate, for any updaters and handlers, equities,   *)
(* limits, faults and bounds; what a recorded loss blocks is proved for    *)
(* one updater.                                                            *)
(***************************************************************************)
EXTENDS DrawdownGate, RiskStateProofs

\* A step of the composition is a step of RiskState or leaves its variables alone.
LEMMA RiskStateStep ==
  ASSUME [GateNext]_gateVars
  PROVE  [Next]_vars
  BY DEF GateNext, gateVars, Handle, ReadPolicy, ReadDrawdown, Evaluate, FinalEvaluate,
         PlaceOrder, EditLimits

\* The handlers and the operator's edits of the limits leave the updaters and the
\* file as RiskState describes them: its theorems hold of the composition.
THEOREM RiskStateImplemented == GateSpec => Spec
  <1>1. GateInit => Init
    BY DEF GateInit
  <1>2. [GateNext]_gateVars => [Next]_vars
    BY RiskStateStep
  <1>3. QED
    BY <1>1, <1>2, PTL DEF GateSpec, Spec

-------------------------------------------------------------------------------
\* Every step keeps the variables' types.
LEMMA GateTypeStep ==
  ASSUME GateTypeOK, [GateNext]_gateVars
  PROVE  GateTypeOK'
  <1> USE DEF policyVars, handlerVars, HandlerSteps
  <1>1. TypeOK'
    BY RiskStateStep, TypeStep DEF GateTypeOK
  <1>2. EmptyState \in States /\ 0 \in Days
    BY EmptyType, BoundAssumption DEF Days
  <1>3. ASSUME NEW h \in Handler, Leave(h)
        PROVE  /\ hpc' \in [Handler -> HandlerSteps]
               /\ policyRead' \in [Handler -> BOOLEAN]
               /\ view' \in [Handler -> States]
               /\ timestamp' \in [Handler -> Days]
               /\ dailyDue' \in [Handler -> Days \cup {NoDay}]
               /\ totalDue' \in [Handler -> BOOLEAN]
    BY <1>2, <1>3 DEF Leave, GateTypeOK
  <1>4. CASE Next /\ UNCHANGED <<policyVars, handlerVars>>
    BY <1>1, <1>4 DEF GateTypeOK
  <1>5. ASSUME NEW h \in Handler, ReadPolicy(h)
        PROVE  GateTypeOK'
    BY <1>1, <1>5 DEF ReadPolicy, GateTypeOK
  <1>6. ASSUME NEW h \in Handler, ReadDrawdown(h)
        PROVE  GateTypeOK'
    <2>1. CASE Loadable(file)
      <3>1. file.value \in States /\ lastDay \in Days
        BY DEF GateTypeOK, TypeOK, JsonFiles
      <3>2. (IF RecordedDailyLoss THEN lastDay ELSE NoDay) \in Days \cup {NoDay}
        BY <3>1
      <3>3. RecordedDrawdown \in BOOLEAN
        BY DEF RecordedDrawdown
      <3>4. dailyDue' \in [Handler -> Days \cup {NoDay}]
        BY <1>6, <2>1, <3>2 DEF ReadDrawdown, GateTypeOK
      <3>5. totalDue' \in [Handler -> BOOLEAN]
        BY <1>6, <2>1, <3>3 DEF ReadDrawdown, GateTypeOK
      <3>6. QED
        BY <1>1, <1>6, <2>1, <3>1, <3>4, <3>5 DEF ReadDrawdown, GateTypeOK
    <2>2. CASE ~Loadable(file)
      BY <1>1, <1>3, <1>6, <2>2 DEF ReadDrawdown, GateTypeOK
    <2>3. QED
      BY <2>1, <2>2
  <1>7. ASSUME NEW h \in Handler, Evaluate(h)
        PROVE  GateTypeOK'
    <2>1. today \in Days
      BY DEF GateTypeOK, TypeOK
    <2>2. QED
      BY <1>1, <1>3, <1>7, <2>1 DEF Evaluate, GateTypeOK
  <1>8. ASSUME NEW h \in Handler, FinalEvaluate(h) \/ PlaceOrder(h)
        PROVE  GateTypeOK'
    BY <1>1, <1>3, <1>8 DEF FinalEvaluate, PlaceOrder, GateTypeOK
  <1>9. CASE EditLimits
    BY <1>1, <1>9, BoundAssumption, EditAssumption DEF EditLimits, GateTypeOK
  <1>10. CASE UNCHANGED gateVars
    BY <1>1, <1>10 DEF gateVars, GateTypeOK
  <1>11. QED
    BY <1>4, <1>5, <1>6, <1>7, <1>8, <1>9, <1>10 DEF GateNext, Handle

\* The variables have their types in every execution of the composition.
THEOREM GateTypeCorrect == GateSpec => []GateTypeOK
  <1>1. ASSUME GateInit
        PROVE  GateTypeOK
    BY <1>1, TypeInit, EmptyType, BoundAssumption, EditAssumption
    DEF GateInit, GateTypeOK, HandlerSteps, Days
  <1>2. GateTypeOK /\ [GateNext]_gateVars => GateTypeOK'
    BY GateTypeStep
  <1>3. QED
    BY <1>1, <1>2, PTL DEF GateSpec

-------------------------------------------------------------------------------
\* A handler reaches the placement under the limits only by passing them.
LEMMA PassedStep ==
  ASSUME GateTypeOK, PassedInv, [GateNext]_gateVars
  PROVE  PassedInv'
  <1> USE DEF GateTypeOK, PassedInv, PlacesUnderLimits, policyVars, handlerVars
  <1>1. ASSUME NEW h \in Handler, Leave(h)
        PROVE  PassedInv'
    BY <1>1 DEF Leave
  <1>2. ASSUME NEW h \in Handler, ReadPolicy(h)
        PROVE  PassedInv'
    BY <1>2 DEF ReadPolicy
  <1>3. ASSUME NEW h \in Handler, ReadDrawdown(h)
        PROVE  PassedInv'
    BY <1>1, <1>3 DEF ReadDrawdown
  <1>4. ASSUME NEW h \in Handler, Evaluate(h)
        PROVE  PassedInv'
    BY <1>1, <1>4 DEF Evaluate
  <1>5. ASSUME NEW h \in Handler, FinalEvaluate(h)
        PROVE  PassedInv'
    <2>1. CASE DrawdownPasses(limited, view[h], timestamp[h])
      <3>1. /\ UNCHANGED <<view, timestamp>>
            /\ hpc' = [hpc EXCEPT ![h] = "place"]
            /\ policyRead' = [policyRead EXCEPT ![h] = limited]
        BY <1>5, <2>1 DEF FinalEvaluate
      <3>2. limited => DrawdownPasses(TRUE, view[h], timestamp[h])
        BY <2>1 DEF DrawdownPasses
      <3>3. QED
        BY <3>1, <3>2
    <2>2. CASE ~DrawdownPasses(limited, view[h], timestamp[h])
      BY <1>1, <1>5, <2>2 DEF FinalEvaluate
    <2>3. QED
      BY <2>1, <2>2
  <1>6. ASSUME NEW h \in Handler, PlaceOrder(h)
        PROVE  PassedInv'
    BY <1>1, <1>6 DEF PlaceOrder
  <1>7. CASE (Next /\ UNCHANGED <<policyVars, handlerVars>>) \/ EditLimits
              \/ UNCHANGED gateVars
    BY <1>7 DEF EditLimits, gateVars
  <1>8. QED
    BY <1>2, <1>3, <1>4, <1>5, <1>6, <1>7 DEF GateNext, Handle

\* What a step makes of the state a handler holds and of what was due when it was
\* read: nothing, the blanks, or the file and what is due now.
LEMMA ViewStep ==
  ASSUME GateTypeOK, [GateNext]_gateVars, NEW h \in Handler
  PROVE  \/ /\ view'[h] = view[h] /\ dailyDue'[h] = dailyDue[h]
            /\ totalDue'[h] = totalDue[h]
         \/ /\ view'[h] = EmptyState /\ dailyDue'[h] = NoDay /\ totalDue'[h] = FALSE
         \/ /\ Readable(file) /\ view'[h] = file.value
            /\ dailyDue'[h] = IF RecordedDailyLoss THEN lastDay ELSE NoDay
            /\ totalDue'[h] = RecordedDrawdown
            /\ UNCHANGED vars
  <1> USE DEF GateTypeOK, policyVars, handlerVars
  <1>1. CASE UNCHANGED <<view, dailyDue, totalDue>>
    BY <1>1
  <1>2. ASSUME NEW g \in Handler, Leave(g)
        PROVE  \/ /\ view'[h] = view[h] /\ dailyDue'[h] = dailyDue[h]
                  /\ totalDue'[h] = totalDue[h]
               \/ /\ view'[h] = EmptyState /\ dailyDue'[h] = NoDay
                  /\ totalDue'[h] = FALSE
    BY <1>2 DEF Leave
  <1>3. ASSUME NEW g \in Handler, ReadDrawdown(g), ~Leave(g)
        PROVE  \/ /\ view'[h] = view[h] /\ dailyDue'[h] = dailyDue[h]
                  /\ totalDue'[h] = totalDue[h]
               \/ /\ Readable(file) /\ view'[h] = file.value
                  /\ dailyDue'[h] = IF RecordedDailyLoss THEN lastDay ELSE NoDay
                  /\ totalDue'[h] = RecordedDrawdown
                  /\ UNCHANGED vars
    <2>1. /\ Readable(file) /\ UNCHANGED vars
          /\ view' = [view EXCEPT ![g] = file.value]
          /\ dailyDue' = [dailyDue EXCEPT ![g] =
                            IF RecordedDailyLoss THEN lastDay ELSE NoDay]
          /\ totalDue' = [totalDue EXCEPT ![g] = RecordedDrawdown]
      BY <1>3 DEF ReadDrawdown, Loadable
    <2>2. CASE g = h
      BY <2>1, <2>2
    <2>3. CASE g # h
      BY <2>1, <2>3
    <2>4. QED
      BY <2>2, <2>3
  <1>4. QED
    BY <1>1, <1>2, <1>3
    DEF GateNext, Handle, ReadPolicy, Evaluate, FinalEvaluate, PlaceOrder, EditLimits,
        gateVars

-------------------------------------------------------------------------------
\* A day with a recorded update keeps it.
LEMMA OpenSeenStays ==
  ASSUME TypeOK, [Next]_vars, NEW d \in Days, openSeen[d] # NoEquity
  PROVE  openSeen'[d] # NoEquity
  <1>1. ASSUME NEW u \in Updater, WriteState(u)
        PROVE  openSeen'[d] # NoEquity
    BY <1>1 DEF WriteState, TrackSeen, historyVars, TypeOK
  <1>2. QED
    BY <1>1
    DEF Next, Update, Capture, CaptureMissing, ReadState, TruncateState, Crash, Move,
        NewDay, historyVars, vars

\* A handler's state shows losses of recorded days only.
LEMMA ViewInvStep ==
  ASSUME GateTypeOK, NewDayInv, ViewInv, [GateNext]_gateVars
  PROVE  ViewInv'
  <1>1. PassedInv'
    BY PassedStep DEF ViewInv
  <1>2. ASSUME NEW h \in Handler, NEW d \in Days, view'[h].losses[d] # NoEquity
        PROVE  openSeen'[d] # NoEquity
    <2>1. TypeOK /\ [Next]_vars
      BY RiskStateStep DEF GateTypeOK
    <2>2. view'[h] # EmptyState
      BY <1>2 DEF EmptyState
    <2>3. CASE view'[h] = view[h]
      BY <1>2, <2>1, <2>3, OpenSeenStays DEF ViewInv
    <2>4. CASE view'[h] = file.value
      BY <1>2, <2>1, <2>4, OpenSeenStays DEF NewDayInv
    <2>5. QED
      BY <2>2, <2>3, <2>4, ViewStep
  <1>3. QED
    BY <1>1, <1>2 DEF ViewInv

\* An order placed under a daily limit was evaluated for a day with a recorded
\* update: for any updaters that race, crash or are torn, and any edits of the
\* policy and midnights between the handler's reads.
THEOREM OrderDayCorrect == GateSpec => []OrderDayRecorded
  <1>1. ASSUME GateInit
        PROVE  ViewInv
    BY <1>1 DEF GateInit, ViewInv, PassedInv, PlacesUnderLimits, EmptyState
  <1>2. GateTypeOK /\ NewDayInv /\ ViewInv /\ [GateNext]_gateVars => ViewInv'
    BY ViewInvStep
  <1>3. GateTypeOK /\ ViewInv => OrderDayRecorded
    BY DEF GateTypeOK, ViewInv, PassedInv, DrawdownPasses, DailyStop, OrderDayRecorded
  <1>4. QED
    BY <1>1, <1>2, <1>3, RiskStateImplemented, NewDayInvariant, GateTypeCorrect, PTL
    DEF GateSpec

-------------------------------------------------------------------------------
\* With one updater, a handler's state shows the losses that were due when it was
\* read.
LEMMA DueInvStep ==
  ASSUME GateTypeOK, DailyInv, TotalInv, DueInv, [GateNext]_gateVars
  PROVE  DueInv'
  <1>1. PassedInv'
    BY PassedStep DEF DueInv
  <1>2. ASSUME NEW h \in Handler, dailyDue'[h] # NoDay
        PROVE  MaxDailyLoss # NoLimit /\ view'[h].losses[dailyDue'[h]] >= MaxDailyLoss
    <2>1. CASE view'[h] = view[h] /\ dailyDue'[h] = dailyDue[h]
      BY <1>2, <2>1 DEF DueInv
    <2>2. CASE /\ Readable(file) /\ view'[h] = file.value
               /\ dailyDue'[h] = IF RecordedDailyLoss THEN lastDay ELSE NoDay
      <3>1. RecordedDailyLoss /\ dailyDue'[h] = lastDay
        BY <1>2, <2>2
      <3>2. file.value.losses[lastDay] >= MaxDailyLoss
        BY <2>2, <3>1, RecordedLoss DEF GateTypeOK, RecordedDailyLoss
      <3>3. QED
        BY <2>2, <3>1, <3>2 DEF RecordedDailyLoss
    <2>3. QED
      BY <1>2, <2>1, <2>2, ViewStep
  <1>3. ASSUME NEW h \in Handler, totalDue'[h]
        PROVE  /\ MaxTotalDrawdown # NoLimit
               /\ view'[h].initial - view'[h].current >= MaxTotalDrawdown
    <2>1. CASE view'[h] = view[h] /\ totalDue'[h] = totalDue[h]
      BY <1>3, <2>1 DEF DueInv
    <2>2. CASE Readable(file) /\ view'[h] = file.value /\ totalDue'[h] = RecordedDrawdown
      <3>1. RecordedDrawdown
        BY <1>3, <2>2
      <3>2. view'[h].initial = firstSeen /\ view'[h].current = lastSeen
        BY <2>2 DEF TotalInv
      <3>3. QED
        BY <3>1, <3>2 DEF RecordedDrawdown
    <2>3. QED
      BY <1>3, <2>1, <2>2, ViewStep
  <1>4. QED
    BY <1>1, <1>2, <1>3 DEF DueInv

\* With one updater and equities that are not zero: a loss or a drawdown that had
\* been recorded when the handler read the state blocks its order under the
\* limits of the reloaded policy, whatever happens after that read.
THEOREM RecordedLossCorrect ==
  ASSUME OneUpdater, 0 \notin Equity
  PROVE  GateSpec => []RecordedLossBlocksOrder
  <1>1. ASSUME GateInit
        PROVE  DueInv
    BY <1>1 DEF GateInit, DueInv, PassedInv, PlacesUnderLimits
  <1>2. GateTypeOK /\ DailyInv /\ TotalInv /\ DueInv /\ [GateNext]_gateVars => DueInv'
    BY DueInvStep
  <1>3. ASSUME GateTypeOK, DueInv, NEW h \in Handler, PlacesUnderLimits(h)
        PROVE  dailyDue[h] # timestamp[h] /\ ~totalDue[h]
    <2>1. ~DailyStop(view[h], timestamp[h]) /\ ~TotalStop(view[h])
      BY <1>3 DEF DueInv, PassedInv, DrawdownPasses
    <2>2. timestamp[h] # NoDay
      BY <1>3 DEF GateTypeOK, Days, NoDay
    <2>3. dailyDue[h] = timestamp[h] => DailyStop(view[h], timestamp[h])
      BY <1>3, <2>2 DEF DueInv, DailyStop
    <2>4. totalDue[h] => TotalStop(view[h])
      BY <1>3 DEF DueInv, TotalStop
    <2>5. QED
      BY <2>1, <2>3, <2>4
  <1>4. GateTypeOK /\ DueInv => RecordedLossBlocksOrder
    BY <1>3 DEF RecordedLossBlocksOrder
  <1>5. QED
    BY <1>1, <1>2, <1>4, RiskStateImplemented, DailyInvariant, TotalInvariant,
       GateTypeCorrect, PTL
    DEF GateSpec

===============================================================================
