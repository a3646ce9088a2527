---------------------------- MODULE RiskStateProofs ----------------------------
(***************************************************************************)
(* Theorems about RiskState, for any updaters, equities, limits, faults    *)
(* and bounds; the stops on a recorded loss are proved for one updater.    *)
(***************************************************************************)
EXTENDS RiskState, TLAPS

\* Writing a document leaves a file of the right type, whatever lies beneath.
LEMMA WrittenType ==
  ASSUME NEW V, NEW f \in JsonFiles(V), NEW v \in V, NEW blank \in V,
         NEW g \in Written(f, v, blank)
  PROVE  g \in JsonFiles(V)
  BY DEF JsonFiles, Written, Intact

\* The state without any record is a state.
LEMMA EmptyType == EmptyState \in States
  BY DEF EmptyState, States, OptionalEquity

\* An update of a state is a state.
LEMMA NextStateType ==
  ASSUME NEW s \in States, NEW e \in OptionalEquity, NEW day \in Days
  PROVE  NextState(s, e, day) \in States
  <1> USE EquityAssumption DEF OptionalEquity, NoEquity
  <1> DEFINE opens == IF e = NoEquity \/ s.opens[day] # NoEquity THEN s.opens
                      ELSE [s.opens EXCEPT ![day] = e]
             losses == IF e = NoEquity THEN s.losses
                       ELSE [s.losses EXCEPT ![day] = Loss(opens[day], e)]
  <1>1. /\ s.initial \in OptionalEquity /\ s.current \in OptionalEquity
        /\ s.opens \in [Days -> OptionalEquity]
        /\ s.losses \in [Days -> Nat \cup {NoEquity}]
    BY DEF States
  <1>2. PyOr(s.initial, e) \in OptionalEquity /\ PyOr(e, s.current) \in OptionalEquity
    BY <1>1 DEF PyOr
  <1>3. opens \in [Days -> OptionalEquity]
    BY <1>1
  <1>4. losses \in [Days -> Nat \cup {NoEquity}]
    <2>1. e # NoEquity => opens[day] \in Nat /\ e \in Nat
      BY <1>1
    <2>2. e # NoEquity => Loss(opens[day], e) \in Nat
      BY <2>1 DEF Loss
    <2> HIDE DEF opens
    <2>3. QED
      BY <1>1, <2>2
  <1>5. NextState(s, e, day) =
          [initial |-> PyOr(s.initial, e), current |-> PyOr(e, s.current),
           opens |-> opens, losses |-> losses]
    BY DEF NextState, Loss
  <1>6. QED
    BY <1>2, <1>3, <1>4, <1>5 DEF States

\* An update without an equity leaves the days alone.
LEMMA NextStateSame ==
  ASSUME NEW s \in States, NEW e \in OptionalEquity, e = NoEquity, NEW day \in Days
  PROVE  /\ NextState(s, e, day).opens = s.opens
         /\ NextState(s, e, day).losses = s.losses
  BY DEF NextState

\* Any other sets the day's opening equity once, and its loss.
LEMMA NextStateDay ==
  ASSUME NEW s \in States, NEW e \in OptionalEquity, e # NoEquity, NEW day \in Days
  PROVE  /\ NextState(s, e, day).opens =
              [s.opens EXCEPT ![day] = IF s.opens[day] = NoEquity THEN e ELSE s.opens[day]]
         /\ NextState(s, e, day).losses =
              [s.losses EXCEPT ![day] = Loss(NextState(s, e, day).opens[day], e)]
  BY DEF NextState, Loss, States

\* Every step keeps the variables' types.
LEMMA TypeStep ==
  ASSUME TypeOK, [Next]_vars
  PROVE  TypeOK'
  <1> USE EquityAssumption, FaultAssumption, BoundAssumption
  <1> USE DEF TypeOK, updaterVars, historyVars, worldVars, Steps
  <1>0. /\ EmptyState \in States
        /\ NoEquity \in OptionalEquity /\ Equity \subseteq OptionalEquity
        /\ 0 \in Days
    BY EmptyType DEF OptionalEquity, Days
  <1>1. ASSUME NEW u \in Updater, Finish(u)
        PROVE  /\ pc' \in [Updater -> Steps]
               /\ captured' \in [Updater -> OptionalEquity]
               /\ next' \in [Updater -> States]
               /\ stamped' \in [Updater -> Days]
    BY <1>0, <1>1 DEF Finish
  <1>2. ASSUME NEW u \in Updater, Capture(u)
        PROVE  TypeOK'
    BY <1>0, <1>2 DEF Capture
  <1>3. ASSUME NEW u \in Updater, CaptureMissing(u)
        PROVE  TypeOK'
    BY <1>0, <1>3 DEF CaptureMissing, Faulty
  <1>4. ASSUME NEW u \in Updater, ReadState(u)
        PROVE  TypeOK'
    <2>1. CASE ~Loadable(file)
      BY <1>1, <1>4, <2>1 DEF ReadState
    <2>2. CASE Loadable(file)
      <3>1. NextState(file.value, captured[u], today) \in States
        BY NextStateType DEF JsonFiles
      <3>2. QED
        BY <1>4, <2>2, <3>1 DEF ReadState
    <2>3. QED
      BY <2>1, <2>2
  <1>5. ASSUME NEW u \in Updater, TruncateState(u)
        PROVE  TypeOK'
    BY <1>0, <1>5 DEF TruncateState, Truncated, JsonFiles
  <1>6. ASSUME NEW u \in Updater, WriteState(u)
        PROVE  TypeOK'
    <2>1. file' \in JsonFiles(States)
      BY <1>0, <1>6, WrittenType DEF WriteState
    <2>2. /\ firstSeen' \in OptionalEquity
          /\ openSeen' \in [Days -> OptionalEquity]
          /\ lastSeen' \in OptionalEquity
          /\ lastDay' \in Days
      BY <1>6 DEF WriteState, TrackSeen
    <2>3. QED
      BY <1>1, <1>6, <2>1, <2>2 DEF WriteState
  <1>7. ASSUME NEW u \in Updater, Crash(u)
        PROVE  TypeOK'
    BY <1>1, <1>7 DEF Crash, Faulty
  <1>8. ASSUME NEW e \in Equity, Move(e)
        PROVE  TypeOK'
    BY <1>8 DEF Move
  <1>9. CASE NewDay
    BY <1>9 DEF NewDay, Days
  <1>10. CASE UNCHANGED vars
    BY <1>10 DEF vars
  <1>11. QED
    BY <1>2, <1>3, <1>4, <1>5, <1>6, <1>7, <1>8, <1>9, <1>10 DEF Next, Update

\* The program starts with its types.
LEMMA TypeInit ==
  ASSUME Init
  PROVE  TypeOK
  BY EmptyType, EquityAssumption, BoundAssumption
  DEF Init, TypeOK, Intact, JsonFiles, OptionalEquity, Days, Steps

\* The variables have their types in every execution.
THEOREM TypeCorrect == Spec => []TypeOK
  <1>1. Init => TypeOK
    BY TypeInit
  <1>2. TypeOK /\ [Next]_vars => TypeOK'
    BY TypeStep
  <1>3. QED
    BY <1>1, <1>2, PTL DEF Spec

-------------------------------------------------------------------------------
(* A day without an update.                                                *)

\* A state that is written is the file's, or the file is blank.
LEMMA WrittenValue ==
  ASSUME NEW f, NEW v, NEW blank, NEW g \in Written(f, v, blank)
  PROVE  /\ g = Intact(v) \/ g = [text |-> "mixed", value |-> blank]
         /\ f.text = "empty" => g = Intact(v)
  BY DEF Written

\* Every step keeps the strengthened invariant.
LEMMA NewDayStep ==
  ASSUME TypeOK, NewDayInv, [Next]_vars
  PROVE  NewDayInv'
  <1> USE DEF updaterVars, historyVars, worldVars
  <1> DEFINE FileSays == \A d \in Days : file.value.losses[d] # NoEquity => openSeen[d] # NoEquity
             NextSays(u) == \A d \in Days :
               pc[u] \in {"truncate", "write"} /\ next[u].losses[d] # NoEquity =>
                 openSeen[d] # NoEquity \/ (d = stamped[u] /\ captured[u] # NoEquity)
  <1>1. FileSays /\ \A u \in Updater : NextSays(u)
    BY DEF NewDayInv
  <1>2. ASSUME FileSays', \A u \in Updater : NextSays(u)'
        PROVE  NewDayInv'
    <2>1. today' \in Days
      BY TypeStep DEF TypeOK
    <2>2. NewDayFailsClosed'
      BY <1>2, <2>1 DEF NewDayFailsClosed, StopsPass, DailyStop
    <2>3. QED
      BY <1>2, <2>2 DEF NewDayInv
  <1>3. \A d \in Days : EmptyState.losses[d] = NoEquity
    BY DEF EmptyState
  \* An updater that starts or ends has no state to write; the others keep theirs.
  <1>4. ASSUME NEW u \in Updater, pc'[u] \in {"idle", "read"},
               \A v \in Updater \ {u} :
                 UNCHANGED <<pc[v], next[v], stamped[v], captured[v]>>,
               UNCHANGED <<file, openSeen>>
        PROVE  NewDayInv'
    BY <1>1, <1>2, <1>4
  <1>5. ASSUME UNCHANGED <<pc, next, stamped, captured, file, openSeen>>
        PROVE  NewDayInv'
    BY <1>1, <1>2, <1>5
  <1>6. ASSUME NEW u \in Updater, Capture(u) \/ CaptureMissing(u)
        PROVE  NewDayInv'
    BY <1>4, <1>6 DEF Capture, CaptureMissing, TypeOK
  <1>7. ASSUME NEW u \in Updater, ReadState(u)
        PROVE  NewDayInv'
    <2>1. CASE ~Loadable(file)
      BY <1>4, <1>7, <2>1 DEF ReadState, Finish, TypeOK
    <2>2. CASE Loadable(file)
      <3> DEFINE t == NextState(file.value, captured[u], today)
      <3>1. /\ pc' = [pc EXCEPT ![u] = "truncate"]
            /\ next' = [next EXCEPT ![u] = t]
            /\ stamped' = [stamped EXCEPT ![u] = today]
            /\ UNCHANGED <<captured, file, openSeen>>
        BY <1>7, <2>2 DEF ReadState
      <3>2. \A d \in Days : t.losses[d] # NoEquity =>
              file.value.losses[d] # NoEquity \/ (d = today /\ captured[u] # NoEquity)
        <4>1. /\ file.value \in States /\ captured[u] \in OptionalEquity /\ today \in Days
              /\ file.value.losses \in [Days -> Nat \cup {NoEquity}]
          BY DEF TypeOK, JsonFiles, States
        <4>2. captured[u] = NoEquity => t.losses = file.value.losses
          BY <4>1, NextStateSame
        <4>3. captured[u] # NoEquity =>
                t.losses = [file.value.losses EXCEPT ![today] =
                              Loss(t.opens[today], captured[u])]
          BY <4>1, NextStateDay
        <4> HIDE DEF t
        <4>4. QED
          BY <4>1, <4>2, <4>3
      <3> HIDE DEF t
      <3>3. FileSays'
        BY <1>1, <3>1
      <3>4. NextSays(u)'
        BY <1>1, <3>1, <3>2 DEF TypeOK
      <3>5. \A v \in Updater \ {u} : NextSays(v)'
        BY <1>1, <3>1 DEF TypeOK
      <3>6. QED
        BY <1>1, <1>2, <3>3, <3>4, <3>5
    <2>3. QED
      BY <2>1, <2>2
  <1>8. ASSUME NEW u \in Updater, TruncateState(u)
        PROVE  NewDayInv'
    <2>1. FileSays'
      BY <1>3, <1>8 DEF TruncateState, Truncated
    <2>2. \A v \in Updater : NextSays(v)'
      BY <1>1, <1>8 DEF TruncateState, TypeOK
    <2>3. QED
      BY <1>1, <1>2, <2>1, <2>2
  <1>9. ASSUME NEW u \in Updater, WriteState(u)
        PROVE  NewDayInv'
    <2>1. \A d \in Days : openSeen[d] # NoEquity => openSeen'[d] # NoEquity
      BY <1>9 DEF WriteState, TrackSeen, TypeOK
    <2>2. captured[u] # NoEquity => openSeen'[stamped[u]] # NoEquity
      BY <1>9 DEF WriteState, TrackSeen, TypeOK
    <2>3. file'.value \in {next[u], EmptyState}
      BY <1>9, WrittenValue DEF WriteState, Intact
    <2>4. FileSays'
      BY <1>1, <1>3, <1>9, <2>1, <2>2, <2>3 DEF WriteState
    <2>5. \A v \in Updater : NextSays(v)'
      BY <1>1, <1>9, <2>1 DEF WriteState, Finish, TypeOK
    <2>6. QED
      BY <1>1, <1>2, <2>4, <2>5
  <1>10. ASSUME NEW u \in Updater, Crash(u)
         PROVE  NewDayInv'
    BY <1>4, <1>10 DEF Crash, Finish, TypeOK
  <1>11. ASSUME NEW e \in Equity, Move(e)
         PROVE  NewDayInv'
    BY <1>5, <1>11 DEF Move
  <1>12. CASE NewDay
    BY <1>5, <1>12 DEF NewDay
  <1>13. CASE UNCHANGED vars
    BY <1>5, <1>13 DEF vars
  <1>14. QED
    BY <1>6, <1>7, <1>8, <1>9, <1>10, <1>11, <1>12, <1>13 DEF Next, Update

\* A loss in the file always belongs to a day with a recorded update.
LEMMA NewDayInvariant == Spec => []NewDayInv
  <1>1. ASSUME Init
        PROVE  NewDayInv
    <2>1. 0 \in Days /\ \A d \in Days : EmptyState.losses[d] = NoEquity
      BY BoundAssumption DEF Days, EmptyState
    <2>2. QED
      BY <1>1, <2>1
      DEF Init, NewDayInv, NewDayFailsClosed, StopsPass, DailyStop, Intact
  <1>2. TypeOK /\ NewDayInv /\ [Next]_vars => NewDayInv'
    BY NewDayStep
  <1>3. QED
    BY <1>1, <1>2, TypeCorrect, PTL DEF Spec

\* Whatever races, crashes or is torn: no real command passes the daily stop on a
\* day for which no update has been recorded.
THEOREM NewDayBlocked == Spec => []NewDayFailsClosed
  <1>1. NewDayInv => NewDayFailsClosed
    BY DEF NewDayInv
  <1>2. QED
    BY <1>1, NewDayInvariant, PTL

-------------------------------------------------------------------------------
(* The recorded losses, with one updater.                                  *)

\* Loss is not negative and at least the difference.
LEMMA LossBound ==
  ASSUME NEW a \in Int, NEW b \in Int
  PROVE  Loss(a, b) \in Nat /\ Loss(a, b) >= a - b
  BY DEF Loss

\* Every step of the one updater keeps what the file says of the day.
LEMMA DailyStep ==
  ASSUME OneUpdater, TypeOK, DailyInv, [Next]_vars
  PROVE  DailyInv'
  <1> USE DEF updaterVars, historyVars, worldVars
  <1> DEFINE Told(s) == /\ s.opens = openSeen
                        /\ lastSeen # NoEquity =>
                             s.losses[lastDay] = Loss(openSeen[lastDay], lastSeen)
             FileSays == Readable(file) => Told(file.value)
             NextSays(u) ==
               /\ pc[u] = "write" => file.text = "empty"
               /\ pc[u] \in {"truncate", "write"} =>
                    IF captured[u] = NoEquity THEN Told(next[u])
                    ELSE /\ next[u].opens = [openSeen EXCEPT ![stamped[u]] =
                                               IF @ = NoEquity THEN captured[u] ELSE @]
                         /\ next[u].losses[stamped[u]] =
                              Loss(next[u].opens[stamped[u]], captured[u])
  <1>1. FileSays /\ \A u \in Updater : NextSays(u)
    BY DEF DailyInv
  <1>2. ASSUME FileSays', \A u \in Updater : NextSays(u)'
        PROVE  DailyInv'
    BY <1>2 DEF DailyInv
  \* An updater that starts or ends has no state to write.
  <1>3. ASSUME NEW u \in Updater, pc'[u] \in {"idle", "read"},
               UNCHANGED <<file, historyVars>>
        PROVE  DailyInv'
    <2>1. \A v \in Updater : v = u
      BY DEF OneUpdater
    <2>2. FileSays'
      BY <1>1, <1>3
    <2>3. \A v \in Updater : NextSays(v)'
      BY <1>3, <2>1
    <2>4. QED
      BY <1>2, <2>2, <2>3
  <1>4. ASSUME UNCHANGED <<pc, next, stamped, captured, file, historyVars>>
        PROVE  DailyInv'
    BY <1>1, <1>2, <1>4
  <1>5. ASSUME NEW u \in Updater, Capture(u) \/ CaptureMissing(u)
        PROVE  DailyInv'
    BY <1>3, <1>5 DEF Capture, CaptureMissing, TypeOK
  <1>6. ASSUME NEW u \in Updater, ReadState(u)
        PROVE  DailyInv'
    <2>1. CASE ~Loadable(file)
      BY <1>3, <1>6, <2>1 DEF ReadState, Finish, TypeOK
    <2>2. CASE Loadable(file)
      <3> DEFINE t == NextState(file.value, captured[u], today)
      <3>1. /\ pc'[u] = "truncate" /\ next'[u] = t /\ stamped'[u] = today
            /\ UNCHANGED <<captured, file, historyVars>>
        BY <1>6, <2>2 DEF ReadState, TypeOK
      <3>2. Told(file.value)
        BY <1>1, <2>2 DEF Loadable
      <3>3. /\ file.value \in States /\ captured[u] \in OptionalEquity /\ today \in Days
            /\ file.value.losses \in [Days -> Nat \cup {NoEquity}]
        BY DEF TypeOK, JsonFiles, States
      <3>4. /\ captured[u] = NoEquity =>
                 t.opens = file.value.opens /\ t.losses = file.value.losses
            /\ captured[u] # NoEquity =>
                 /\ t.opens = [file.value.opens EXCEPT ![today] =
                                 IF file.value.opens[today] = NoEquity
                                 THEN captured[u] ELSE file.value.opens[today]]
                 /\ t.losses = [file.value.losses EXCEPT ![today] =
                                  Loss(t.opens[today], captured[u])]
        <4>1. CASE captured[u] = NoEquity
          BY <3>3, <4>1, NextStateSame
        <4>2. CASE captured[u] # NoEquity
          BY <3>3, <4>2, NextStateDay
        <4>3. QED
          BY <4>1, <4>2
      <3> HIDE DEF t
      <3>5. captured[u] # NoEquity => t.losses[today] = Loss(t.opens[today], captured[u])
        BY <3>3, <3>4
      <3>6. NextSays(u)'
        BY <3>1, <3>2, <3>4, <3>5
      <3>7. \A v \in Updater : NextSays(v)'
        <4>1. \A v \in Updater : v = u
          BY DEF OneUpdater
        <4> HIDE DEF NextSays
        <4>2. QED
          BY <3>6, <4>1
      <3>8. QED
        BY <1>1, <1>2, <3>1, <3>7
    <2>3. QED
      BY <2>1, <2>2
  <1>7. ASSUME NEW u \in Updater, TruncateState(u)
        PROVE  DailyInv'
    <2>1. /\ pc[u] = "truncate" /\ file'.text = "empty"
          /\ UNCHANGED <<captured, next, stamped, historyVars>>
      BY <1>7 DEF TruncateState, Truncated
    <2>2. FileSays'
      BY <2>1 DEF Readable
    <2>3. NextSays(u)'
      BY <1>1, <2>1
    <2>4. \A v \in Updater : NextSays(v)'
      <3>1. \A v \in Updater : v = u
        BY DEF OneUpdater
      <3> HIDE DEF NextSays
      <3>2. QED
        BY <2>3, <3>1
    <2>5. QED
      BY <1>2, <2>2, <2>4
  <1>8. ASSUME NEW u \in Updater, WriteState(u)
        PROVE  DailyInv'
    <2>1. pc[u] = "write" /\ file.text = "empty" /\ pc'[u] = "idle"
      BY <1>1, <1>8 DEF WriteState, Finish, TypeOK
    <2>2. file' = Intact(next[u])
      BY <1>8, <2>1, WrittenValue DEF WriteState
    <2>3. CASE captured[u] = NoEquity
      <3>1. UNCHANGED historyVars
        BY <1>8, <2>3 DEF WriteState, TrackSeen
      <3>2. FileSays'
        BY <1>1, <2>1, <2>2, <2>3, <3>1 DEF Intact
      <3>3. QED
        BY <1>2, <2>1, <3>2 DEF OneUpdater
    <2>4. CASE captured[u] # NoEquity
      <3>1. /\ openSeen' = [openSeen EXCEPT ![stamped[u]] =
                              IF @ = NoEquity THEN captured[u] ELSE @]
            /\ lastSeen' = captured[u] /\ lastDay' = stamped[u]
        BY <1>8, <2>4 DEF WriteState, TrackSeen
      <3>2. FileSays'
        BY <1>1, <2>1, <2>2, <2>4, <3>1 DEF Intact
      <3>3. QED
        BY <1>2, <2>1, <3>2 DEF OneUpdater
    <2>5. QED
      BY <2>3, <2>4
  <1>9. ASSUME NEW u \in Updater, Crash(u)
        PROVE  DailyInv'
    BY <1>3, <1>9 DEF Crash, Finish, TypeOK
  <1>10. ASSUME NEW e \in Equity, Move(e)
         PROVE  DailyInv'
    BY <1>4, <1>10 DEF Move
  <1>11. CASE NewDay
    BY <1>4, <1>11 DEF NewDay
  <1>12. CASE UNCHANGED vars
    BY <1>4, <1>12 DEF vars
  <1>13. QED
    BY <1>5, <1>6, <1>7, <1>8, <1>9, <1>10, <1>11, <1>12 DEF Next, Update

\* With one updater the file always tells the daily history.
LEMMA DailyInvariant ==
  ASSUME OneUpdater
  PROVE  Spec => []DailyInv
  <1>1. Init => DailyInv
    BY DEF Init, DailyInv, Intact, EmptyState
  <1>2. TypeOK /\ DailyInv /\ [Next]_vars => DailyInv'
    BY DailyStep
  <1>3. QED
    BY <1>1, <1>2, TypeCorrect, PTL DEF Spec

\* What the file says of a recorded loss that has reached the limit.
LEMMA RecordedLoss ==
  ASSUME TypeOK, DailyInv, Readable(file), lastSeen # NoEquity,
         openSeen[lastDay] - lastSeen >= MaxDailyLoss
  PROVE  file.value.losses[lastDay] >= MaxDailyLoss
  <1>1. file.value.losses[lastDay] = Loss(openSeen[lastDay], lastSeen)
    BY DEF DailyInv
  <1>2. openSeen[lastDay] \in Int /\ lastSeen \in Int
    <2>1. OptionalEquity \subseteq Int
      BY EquityAssumption DEF OptionalEquity, NoEquity
    <2>2. /\ openSeen \in [Days -> OptionalEquity] /\ lastDay \in Days
          /\ lastSeen \in OptionalEquity
      BY DEF TypeOK
    <2>3. QED
      BY <2>1, <2>2
  <1>3. /\ Loss(openSeen[lastDay], lastSeen) \in Nat
        /\ Loss(openSeen[lastDay], lastSeen) >= openSeen[lastDay] - lastSeen
    BY <1>2, LossBound
  <1>4. QED
    BY <1>1, <1>2, <1>3, LimitAssumption

\* With one updater, crashes and torn writes included: once a loss of the daily
\* limit has been recorded, no real command passes for the rest of that day.
THEOREM DailyLossBlocked ==
  ASSUME OneUpdater
  PROVE  Spec => []DailyLossStops
  <1>1. TypeOK /\ DailyInv => DailyLossStops
    BY RecordedLoss DEF DailyLossStops, StopsPass, DailyStop, Loadable
  <1>2. QED
    BY <1>1, TypeCorrect, DailyInvariant, PTL

-------------------------------------------------------------------------------
(* The total drawdown, with one updater and equities that are not zero.    *)

\* The initial equity is set once and the current one follows, if no equity is
\* zero.
LEMMA NextStateTotals ==
  ASSUME 0 \notin Equity, NEW s \in States, NEW e \in OptionalEquity, NEW day
  PROVE  /\ NextState(s, e, day).initial = IF s.initial = NoEquity THEN e ELSE s.initial
         /\ NextState(s, e, day).current = IF e = NoEquity THEN s.current ELSE e
  <1>1. /\ NextState(s, e, day).initial = PyOr(s.initial, e)
        /\ NextState(s, e, day).current = PyOr(e, s.current)
    BY DEF NextState
  <1>2. s.initial \in OptionalEquity
    BY DEF States
  <1>3. \A a \in OptionalEquity : a = NoEquity \/ (a > 0 /\ a # NoEquity)
    BY EquityAssumption DEF OptionalEquity, NoEquity
  <1>4. ASSUME NEW a \in OptionalEquity, NEW b
        PROVE  PyOr(a, b) = IF a = NoEquity THEN b ELSE a
    BY <1>3 DEF PyOr, NoEquity
  <1>5. QED
    BY <1>1, <1>2, <1>4

\* Every step of the one updater keeps what the file says of the account.
LEMMA TotalStep ==
  ASSUME OneUpdater, 0 \notin Equity, TypeOK, TotalInv, [Next]_vars
  PROVE  TotalInv'
  <1> USE DEF updaterVars, historyVars, worldVars
  <1> DEFINE FileSays ==
               Readable(file) =>
                 file.value.initial = firstSeen /\ file.value.current = lastSeen
             NextSays(u) ==
               /\ pc[u] = "write" => file.text = "empty"
               /\ pc[u] \in {"truncate", "write"} =>
                    /\ next[u].initial = IF firstSeen = NoEquity THEN captured[u] ELSE firstSeen
                    /\ next[u].current = IF captured[u] = NoEquity THEN lastSeen ELSE captured[u]
  <1>1. FileSays /\ \A u \in Updater : NextSays(u)
    BY DEF TotalInv
  <1>2. ASSUME FileSays', \A u \in Updater : NextSays(u)'
        PROVE  TotalInv'
    BY <1>2 DEF TotalInv
  \* What holds of one updater holds of all.
  <1>3. ASSUME NEW u \in Updater, NextSays(u)'
        PROVE  \A v \in Updater : NextSays(v)'
    <2>1. \A v \in Updater : v = u
      BY DEF OneUpdater
    <2> HIDE DEF NextSays
    <2>2. QED
      BY <1>3, <2>1
  \* An updater that starts or ends has no state to write.
  <1>4. ASSUME NEW u \in Updater, pc'[u] \in {"idle", "read"},
               UNCHANGED <<file, historyVars>>
        PROVE  TotalInv'
    <2>1. FileSays' /\ NextSays(u)'
      BY <1>1, <1>4
    <2>2. QED
      BY <1>2, <1>3, <2>1
  <1>5. ASSUME UNCHANGED <<pc, next, stamped, captured, file, historyVars>>
        PROVE  TotalInv'
    BY <1>1, <1>2, <1>5
  <1>6. ASSUME NEW u \in Updater, Capture(u) \/ CaptureMissing(u)
        PROVE  TotalInv'
    BY <1>4, <1>6 DEF Capture, CaptureMissing, TypeOK
  <1>7. ASSUME NEW u \in Updater, ReadState(u)
        PROVE  TotalInv'
    <2>1. CASE ~Loadable(file)
      BY <1>4, <1>7, <2>1 DEF ReadState, Finish, TypeOK
    <2>2. CASE Loadable(file)
      <3> DEFINE t == NextState(file.value, captured[u], today)
      <3>1. /\ pc'[u] = "truncate" /\ next'[u] = t
            /\ UNCHANGED <<captured, file, historyVars>>
        BY <1>7, <2>2 DEF ReadState, TypeOK
      <3>2. file.value.initial = firstSeen /\ file.value.current = lastSeen
        BY <1>1, <2>2 DEF Loadable
      <3>3. file.value \in States /\ captured[u] \in OptionalEquity
        BY DEF TypeOK, JsonFiles
      <3>4. /\ t.initial = IF file.value.initial = NoEquity THEN captured[u]
                           ELSE file.value.initial
            /\ t.current = IF captured[u] = NoEquity THEN file.value.current
                           ELSE captured[u]
        BY <3>3, NextStateTotals
      <3> HIDE DEF t
      <3>5. FileSays' /\ NextSays(u)'
        BY <1>1, <3>1, <3>2, <3>4
      <3>6. QED
        BY <1>2, <1>3, <3>5
    <2>3. QED
      BY <2>1, <2>2
  <1>8. ASSUME NEW u \in Updater, TruncateState(u)
        PROVE  TotalInv'
    <2>1. /\ pc[u] = "truncate" /\ file'.text = "empty"
          /\ UNCHANGED <<captured, next, historyVars>>
      BY <1>8 DEF TruncateState, Truncated
    <2>2. FileSays' /\ NextSays(u)'
      BY <1>1, <2>1 DEF Readable
    <2>3. QED
      BY <1>2, <1>3, <2>2
  <1>9. ASSUME NEW u \in Updater, WriteState(u)
        PROVE  TotalInv'
    <2>1. pc[u] = "write" /\ file.text = "empty" /\ pc'[u] = "idle"
      BY <1>1, <1>9 DEF WriteState, Finish, TypeOK
    <2>2. file'.value = next[u]
      BY <1>9, <2>1, WrittenValue DEF WriteState, Intact
    <2>3. FileSays'
      BY <1>1, <1>9, <2>1, <2>2 DEF WriteState, TrackSeen
    <2>4. NextSays(u)'
      BY <2>1
    <2>5. QED
      BY <1>2, <1>3, <2>3, <2>4
  <1>10. ASSUME NEW u \in Updater, Crash(u)
         PROVE  TotalInv'
    BY <1>4, <1>10 DEF Crash, Finish, TypeOK
  <1>11. ASSUME NEW e \in Equity, Move(e)
         PROVE  TotalInv'
    BY <1>5, <1>11 DEF Move
  <1>12. CASE NewDay
    BY <1>5, <1>12 DEF NewDay
  <1>13. CASE UNCHANGED vars
    BY <1>5, <1>13 DEF vars
  <1>14. QED
    BY <1>6, <1>7, <1>8, <1>9, <1>10, <1>11, <1>12, <1>13 DEF Next, Update

\* Then the file always tells the account's history.
LEMMA TotalInvariant ==
  ASSUME OneUpdater, 0 \notin Equity
  PROVE  Spec => []TotalInv
  <1>1. Init => TotalInv
    BY DEF Init, TotalInv, Intact, EmptyState
  <1>2. TypeOK /\ TotalInv /\ [Next]_vars => TotalInv'
    BY TotalStep
  <1>3. QED
    BY <1>1, <1>2, TypeCorrect, PTL DEF Spec

\* With one updater and equities that are not zero, crashes and torn writes
\* included: while the recorded equity lies the total limit below the first one,
\* no real command passes.
THEOREM TotalDrawdownBlocked ==
  ASSUME OneUpdater, 0 \notin Equity
  PROVE  Spec => []TotalDrawdownStops
  <1>1. TotalInv => TotalDrawdownStops
    BY DEF TotalInv, TotalDrawdownStops, StopsPass, Loadable, TotalStop
  <1>2. QED
    BY <1>1, TotalInvariant, PTL

===============================================================================
