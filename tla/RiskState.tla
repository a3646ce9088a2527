------------------------------- MODULE RiskState -------------------------------
(***************************************************************************)
(* The local drawdown state and the stops that read it.                    *)
(*                                                                         *)
(* An updater captures the account's equity from the broker and folds it   *)
(* into risk-state.json: the reconciliation thread of `run --reconcile-okx`,*)
(* `run --once --reconcile-okx` or `reconciliation capture-okx`.  Updaters  *)
(* share the file without a lock.  The stops are evaluated by whichever    *)
(* process handles a command, on the state it reads from the file.         *)
(* Equities are natural numbers; -1 stands for Python's None.              *)
(***************************************************************************)
EXTENDS Integers, JsonFile

CONSTANTS
  Updater,           \* threads and processes that update the file
  Equity,            \* the equities the account may have, a subset of Nat
  MaxDailyLoss,      \* the policy's maxDailyLoss, or NoLimit
  MaxTotalDrawdown,  \* the policy's maxTotalDrawdown, or NoLimit
  Fault,             \* the kinds of fault that may occur, a subset of Faults
  MaxFaults,         \* bound on the number of faults
  MaxMoves,          \* bound on the number of changes of the equity
  MaxDay             \* the last day

\* "crash"    an updater dies, but not while it rewrites the file
\* "tear"     an updater dies between truncating and writing the file
\* "missing"  a snapshot holds no USDT or USD balance
Faults == {"crash", "tear", "missing"}

NoEquity == -1
NoLimit == 0

ASSUME EquityAssumption == Equity \subseteq Nat
ASSUME LimitAssumption == MaxDailyLoss \in Nat /\ MaxTotalDrawdown \in Nat
ASSUME FaultAssumption == Fault \subseteq Faults
ASSUME BoundAssumption == MaxFaults \in Nat /\ MaxMoves \in Nat /\ MaxDay \in Nat

Days == 0..MaxDay
OptionalEquity == Equity \cup {NoEquity}

\* The document of risk-state.json.  A loss is a difference of two equities.
States == [initial : OptionalEquity, current : OptionalEquity,
           opens : [Days -> OptionalEquity], losses : [Days -> Nat \cup {NoEquity}]]

EmptyState == [initial |-> NoEquity, current |-> NoEquity,
               opens  |-> [d \in Days |-> NoEquity],
               losses |-> [d \in Days |-> NoEquity]]

VARIABLES
  equity,    \* the account's equity at the broker
  today,     \* the date, UTC
  file,      \* risk-state.json
  pc,        \* the next step of each updater
  captured,  \* the equity in each updater's snapshot
  next,      \* the state each updater is about to write
  stamped,   \* the date for which it computed that state
  faults, moves,
  \* history
  firstSeen, \* the equity of the first update
  openSeen,  \* the equity of the first update of each day
  lastSeen,  \* the equity of the latest update
  lastDay    \* the date of the latest update

updaterVars == <<pc, captured, next, stamped>>
historyVars == <<firstSeen, openSeen, lastSeen, lastDay>>
worldVars == <<equity, today, moves>>
vars == <<worldVars, file, updaterVars, faults, historyVars>>

Steps == {"idle", "read", "truncate", "write"}

-------------------------------------------------------------------------------
(* The pure parts of the update and of the stops.                          *)

\* Python's `a or b` on Decimals and None: a zero is as good as nothing.
PyOr(a, b) == IF a > 0 THEN a ELSE b

\* Mutation of NextState: the recorded current equity is preferred to the new.
NextStateKeepsCurrent(s, e, day) ==
  LET opens == IF e = NoEquity \/ s.opens[day] # NoEquity THEN s.opens
               ELSE [s.opens EXCEPT ![day] = e]
  IN [initial |-> PyOr(s.initial, e), current |-> PyOr(s.current, e),
      opens |-> opens, losses |-> s.losses]

\* Mutation of NextState: a gain is recorded as a negative loss.
NextStateSigned(s, e, day) ==
  LET opens == IF e = NoEquity \/ s.opens[day] # NoEquity THEN s.opens
               ELSE [s.opens EXCEPT ![day] = e]
  IN [initial |-> PyOr(s.initial, e), current |-> PyOr(e, s.current),
      opens |-> opens,
      losses |-> IF e = NoEquity THEN s.losses
                 ELSE [s.losses EXCEPT ![day] = opens[day] - e]]

\* Mutation of NextState: the day's opening equity follows each update.
NextStateMovesOpen(s, e, day) ==
  [initial |-> PyOr(s.initial, e), current |-> PyOr(e, s.current),
   opens |-> IF e = NoEquity THEN s.opens ELSE [s.opens EXCEPT ![day] = e],
   losses |-> IF e = NoEquity THEN s.losses ELSE [s.losses EXCEPT ![day] = 0]]

\* Mutation of NextState: the initial equity follows each update.
NextStateMovesInitial(s, e, day) ==
  [initial |-> PyOr(e, s.initial), current |-> PyOr(e, s.current),
   opens |-> s.opens, losses |-> s.losses]

\* update_risk_state_from_reconciliation_snapshot: the state after a snapshot
\* with equity e (None if it has no USD balance) on a day.
NextState(s, e, day) ==
  LET opens == IF e = NoEquity \/ s.opens[day] # NoEquity THEN s.opens
               ELSE [s.opens EXCEPT ![day] = e]
      loss  == opens[day] - e
  IN [initial |-> PyOr(s.initial, e),
      current |-> PyOr(e, s.current),
      opens   |-> opens,
      losses  |-> IF e = NoEquity THEN s.losses
                  ELSE [s.losses EXCEPT ![day] = IF loss > 0 THEN loss ELSE 0]]

\* read_risk_state accepts the file: it decodes, and the initial and the current
\* equity are absent or positive.  Anything else raises a ValueError.
Loadable(f) == Readable(f) /\ f.value.initial # 0 /\ f.value.current # 0

\* Mutations of the stops: a missing loss passes; the comparison is strict.
DailyStopPassesMissing(s, day) ==
  MaxDailyLoss # NoLimit /\ s.losses[day] # NoEquity /\ s.losses[day] >= MaxDailyLoss
TotalStopStrict(s) ==
  \/ MaxTotalDrawdown # NoLimit /\ NoEquity \in {s.initial, s.current}
  \/ MaxTotalDrawdown # NoLimit /\ s.initial - s.current > MaxTotalDrawdown

\* evaluate_command_risk for a real command: the daily stop and the total stop,
\* either of which blocks when the state it needs is missing.
DailyStop(s, day) ==
  /\ MaxDailyLoss # NoLimit
  /\ s.losses[day] = NoEquity \/ s.losses[day] >= MaxDailyLoss

TotalStop(s) ==
  /\ MaxTotalDrawdown # NoLimit
  /\ \/ NoEquity \in {s.initial, s.current}
     \/ s.initial - s.current >= MaxTotalDrawdown

\* A process that reads the file now lets a real command pass.  A read that
\* raises leaves the handler before any decision.
StopsPass == Loadable(file) /\ ~DailyStop(file.value, today) /\ ~TotalStop(file.value)

-------------------------------------------------------------------------------
Init ==
  /\ equity \in Equity
  /\ today = 0
  /\ file = Intact(EmptyState)
  /\ pc = [u \in Updater |-> "idle"]
  /\ captured = [u \in Updater |-> NoEquity]
  /\ next = [u \in Updater |-> EmptyState]
  /\ stamped = [u \in Updater |-> 0]
  /\ faults = 0
  /\ moves = 0
  /\ firstSeen = NoEquity
  /\ openSeen = [d \in Days |-> NoEquity]
  /\ lastSeen = NoEquity
  /\ lastDay = 0

Faulty(kind) ==
  /\ kind \in Fault
  /\ faults < MaxFaults
  /\ faults' = faults + 1

\* The update ends: it returned (the upload that follows changes only YTM), or
\* its exception was printed by the loop, or its process died.
Finish(u) ==
  /\ pc' = [pc EXCEPT ![u] = "idle"]
  /\ captured' = [captured EXCEPT ![u] = NoEquity]
  /\ next' = [next EXCEPT ![u] = EmptyState]
  /\ stamped' = [stamped EXCEPT ![u] = 0]

\* capture_snapshot and _snapshot_usd_equity.
Capture(u) ==
  /\ pc[u] = "idle"
  /\ pc' = [pc EXCEPT ![u] = "read"]
  /\ captured' = [captured EXCEPT ![u] = equity]
  /\ UNCHANGED <<worldVars, file, next, stamped, faults, historyVars>>

CaptureMissing(u) ==
  /\ pc[u] = "idle"
  /\ Faulty("missing")
  /\ pc' = [pc EXCEPT ![u] = "read"]
  /\ captured' = [captured EXCEPT ![u] = NoEquity]
  /\ UNCHANGED <<worldVars, file, next, stamped, historyVars>>

\* The state is read, the clock after it, and the next state computed.
ReadState(u) ==
  /\ pc[u] = "read"
  /\ IF Loadable(file)
     THEN /\ pc' = [pc EXCEPT ![u] = "truncate"]
          /\ next' = [next EXCEPT ![u] = NextState(file.value, captured[u], today)]
          /\ stamped' = [stamped EXCEPT ![u] = today]
          /\ UNCHANGED captured
     ELSE Finish(u)
  /\ UNCHANGED <<worldVars, file, faults, historyVars>>

TruncateState(u) ==
  /\ pc[u] = "truncate"
  /\ file' = Truncated(EmptyState)
  /\ pc' = [pc EXCEPT ![u] = "write"]
  /\ UNCHANGED <<worldVars, captured, next, stamped, faults, historyVars>>

\* Bookkeeping: an update with an equity has reached the file.
TrackSeen(u) ==
  IF captured[u] = NoEquity THEN UNCHANGED historyVars
  ELSE /\ firstSeen' = IF firstSeen = NoEquity THEN captured[u] ELSE firstSeen
       /\ openSeen' = [openSeen EXCEPT ![stamped[u]] =
                         IF @ = NoEquity THEN captured[u] ELSE @]
       /\ lastSeen' = captured[u]
       /\ lastDay' = stamped[u]

WriteState(u) ==
  /\ pc[u] = "write"
  /\ file' \in Written(file, next[u], EmptyState)
  /\ TrackSeen(u)
  /\ Finish(u)
  /\ UNCHANGED <<worldVars, faults>>

Crash(u) ==
  /\ pc[u] # "idle"
  /\ Faulty(IF pc[u] = "write" THEN "tear" ELSE "crash")
  /\ Finish(u)
  /\ UNCHANGED <<worldVars, file, historyVars>>

\* Trading moves the equity; a day ends.
Move(e) ==
  /\ e # equity
  /\ moves < MaxMoves
  /\ moves' = moves + 1
  /\ equity' = e
  /\ UNCHANGED <<today, file, updaterVars, faults, historyVars>>

NewDay ==
  /\ today < MaxDay
  /\ today' = today + 1
  /\ UNCHANGED <<equity, moves, file, updaterVars, faults, historyVars>>

Update(u) ==
  Capture(u) \/ ReadState(u) \/ TruncateState(u) \/ WriteState(u)

Next ==
  \/ \E u \in Updater : Update(u) \/ CaptureMissing(u) \/ Crash(u)
  \/ \E e \in Equity : Move(e)
  \/ NewDay

Spec == Init /\ [][Next]_vars

\* The reconciliation loop repeats for ever and each of its calls ends.
FairSpec == Spec /\ \A u \in Updater : WF_vars(Update(u))

-------------------------------------------------------------------------------
(* Properties.                                                             *)

\* Types of the variables.
TypeOK ==
  /\ equity \in Equity
  /\ today \in Days
  /\ file \in JsonFiles(States)
  /\ pc \in [Updater -> Steps]
  /\ captured \in [Updater -> OptionalEquity]
  /\ next \in [Updater -> States]
  /\ stamped \in [Updater -> Days]
  /\ faults \in 0..MaxFaults
  /\ moves \in 0..MaxMoves
  /\ firstSeen \in OptionalEquity
  /\ openSeen \in [Days -> OptionalEquity]
  /\ lastSeen \in OptionalEquity
  /\ lastDay \in Days

\* Once the executor has recorded an equity that lies the allowed drawdown below
\* the first one it recorded, no real command passes until a later update.
TotalDrawdownStops ==
  /\ MaxTotalDrawdown # NoLimit
  /\ lastSeen # NoEquity
  /\ firstSeen - lastSeen >= MaxTotalDrawdown
  => ~StopsPass

\* The same for the loss since the first equity recorded on the current day.
DailyLossStops ==
  /\ MaxDailyLoss # NoLimit
  /\ lastSeen # NoEquity /\ lastDay = today
  /\ openSeen[today] - lastSeen >= MaxDailyLoss
  => ~StopsPass

\* With a daily limit, no real command passes on a day for which no update has
\* been recorded: yesterday's state does not carry over (docs/RISK_POLICY.md:
\* no live state yet, so real commands fail closed).
NewDayFailsClosed ==
  MaxDailyLoss # NoLimit /\ openSeen[today] = NoEquity => ~StopsPass

\* Its inductive strengthening: a loss in the file, or in a state about to be
\* written, belongs to a day with a recorded update or to the update under way.
NewDayInv ==
  /\ NewDayFailsClosed
  /\ \A d \in Days : file.value.losses[d] # NoEquity => openSeen[d] # NoEquity
  /\ \A u \in Updater : \A d \in Days :
       pc[u] \in {"truncate", "write"} /\ next[u].losses[d] # NoEquity =>
         openSeen[d] # NoEquity \/ (d = stamped[u] /\ captured[u] # NoEquity)

\* One process updates the file.
OneUpdater == \A u, v \in Updater : u = v

Loss(open, e) == IF open - e > 0 THEN open - e ELSE 0

\* For one updater: the file, when it can be read, tells the daily history, and
\* so does a state about to be written, including its own update.
DailyInv ==
  /\ Readable(file) =>
       /\ file.value.opens = openSeen
       /\ lastSeen # NoEquity =>
            file.value.losses[lastDay] = Loss(openSeen[lastDay], lastSeen)
  /\ \A u \in Updater :
       /\ pc[u] = "write" => file.text = "empty"
       /\ pc[u] \in {"truncate", "write"} =>
            IF captured[u] = NoEquity
            THEN /\ next[u].opens = openSeen
                 /\ lastSeen # NoEquity =>
                      next[u].losses[lastDay] = Loss(openSeen[lastDay], lastSeen)
            ELSE /\ next[u].opens = [openSeen EXCEPT ![stamped[u]] =
                                       IF @ = NoEquity THEN captured[u] ELSE @]
                 /\ next[u].losses[stamped[u]] =
                      Loss(next[u].opens[stamped[u]], captured[u])

\* For one updater and positive equities: the same of the total drawdown.
TotalInv ==
  /\ Readable(file) =>
       file.value.initial = firstSeen /\ file.value.current = lastSeen
  /\ \A u \in Updater :
       /\ pc[u] = "write" => file.text = "empty"
       /\ pc[u] \in {"truncate", "write"} =>
            /\ next[u].initial = IF firstSeen = NoEquity THEN captured[u] ELSE firstSeen
            /\ next[u].current = IF captured[u] = NoEquity THEN lastSeen ELSE captured[u]

\* When the equity rests, the file comes to hold it and keeps doing so.
EventuallyCurrent ==
  <>[](Readable(file) => file.value.current = equity) /\ []<>Readable(file)

===============================================================================
