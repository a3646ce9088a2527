----------------------------- MODULE DrawdownGate -----------------------------
(***************************************************************************)
(* RiskState composed with the handlers of real commands that read it.     *)
(*                                                                         *)
(* A handler reads the policy, then the drawdown state, then the clock,    *)
(* and decides twice: once before the adapter is chosen and once more with *)
(* the policy as it is then, but with the state and the date it already    *)
(* has.  Updaters, midnight and the operator act between these steps.  Of  *)
(* the policy only its two limits matter here: they are in the file or     *)
(* not.  The kill switch is CommandExecution's.                            *)
(***************************************************************************)
EXTENDS RiskState

CONSTANTS
  Handler,   \* processes that handle commands for the placing adapter
  MaxEdits   \* bound on the number of policy rewrites

ASSUME EditAssumption == MaxEdits \in Nat

VARIABLES
  limited,     \* risk-policy.json carries the two limits
  edits,
  hpc,         \* the next step of each handler
  policyRead,  \* the policy each handler has read carries them
  view,        \* the drawdown state each handler has read
  timestamp,   \* the date it evaluates for
  \* history, taken when the handler read the state
  dailyDue,    \* the day whose recorded loss had reached the limit, or NoDay
  totalDue     \* the recorded equity lay the whole drawdown below the first

policyVars == <<limited, edits>>
handlerVars == <<hpc, policyRead, view, timestamp, dailyDue, totalDue>>
gateVars == <<vars, policyVars, handlerVars>>

HandlerSteps == {"idle", "state", "evaluate", "final", "place"}
NoDay == -1

-------------------------------------------------------------------------------
(* What the recorded history asked for (not the file: see RiskState).      *)

RecordedDailyLoss == MaxDailyLoss # NoLimit /\ lastSeen # NoEquity
                       /\ openSeen[lastDay] - lastSeen >= MaxDailyLoss

RecordedDrawdown == MaxTotalDrawdown # NoLimit /\ lastSeen # NoEquity
                      /\ firstSeen - lastSeen >= MaxTotalDrawdown

\* evaluate_command_risk under a policy that carries the limits or does not.
DrawdownPasses(carries, s, day) == carries => ~DailyStop(s, day) /\ ~TotalStop(s)

-------------------------------------------------------------------------------
GateInit ==
  /\ Init
  /\ limited \in BOOLEAN
  /\ edits = 0
  /\ hpc = [h \in Handler |-> "idle"]
  /\ policyRead = [h \in Handler |-> FALSE]
  /\ view = [h \in Handler |-> EmptyState]
  /\ timestamp = [h \in Handler |-> 0]
  /\ dailyDue = [h \in Handler |-> NoDay]
  /\ totalDue = [h \in Handler |-> FALSE]

\* The handler ends: the command is rejected, or an exception leaves it, or the
\* order has been placed.
Leave(h) ==
  /\ hpc' = [hpc EXCEPT ![h] = "idle"]
  /\ policyRead' = [policyRead EXCEPT ![h] = FALSE]
  /\ view' = [view EXCEPT ![h] = EmptyState]
  /\ timestamp' = [timestamp EXCEPT ![h] = 0]
  /\ dailyDue' = [dailyDue EXCEPT ![h] = NoDay]
  /\ totalDue' = [totalDue EXCEPT ![h] = FALSE]

\* _process_lease_response reads the policy.
ReadPolicy(h) ==
  /\ hpc[h] = "idle"
  /\ hpc' = [hpc EXCEPT ![h] = "state"]
  /\ policyRead' = [policyRead EXCEPT ![h] = limited]
  /\ UNCHANGED <<vars, policyVars, view, timestamp, dailyDue, totalDue>>

\* It reads the drawdown state for preflight_command's arguments.
ReadDrawdown(h) ==
  /\ hpc[h] = "state"
  /\ IF Loadable(file)
     THEN /\ hpc' = [hpc EXCEPT ![h] = "evaluate"]
          /\ view' = [view EXCEPT ![h] = file.value]
          /\ dailyDue' = [dailyDue EXCEPT ![h] =
                            IF RecordedDailyLoss THEN lastDay ELSE NoDay]
          /\ totalDue' = [totalDue EXCEPT ![h] = RecordedDrawdown]
          /\ UNCHANGED <<policyRead, timestamp>>
     ELSE Leave(h)
  /\ UNCHANGED <<vars, policyVars>>

\* preflight_command takes the time, and the first evaluation follows.
Evaluate(h) ==
  /\ hpc[h] = "evaluate"
  /\ IF DrawdownPasses(policyRead[h], view[h], today)
     THEN /\ hpc' = [hpc EXCEPT ![h] = "final"]
          /\ timestamp' = [timestamp EXCEPT ![h] = today]
          /\ UNCHANGED <<policyRead, view, dailyDue, totalDue>>
     ELSE Leave(h)
  /\ UNCHANGED <<vars, policyVars>>

\* Mutation of FinalEvaluate: the policy is reloaded for its kill switch only.
FinalEvaluateKillSwitch(h) ==
  /\ hpc[h] = "final"
  /\ hpc' = [hpc EXCEPT ![h] = "place"]
  /\ policyRead' = [policyRead EXCEPT ![h] = limited]
  /\ UNCHANGED <<vars, policyVars, view, timestamp, dailyDue, totalDue>>

\* The policy is reloaded; the state and the time are those read before.
FinalEvaluate(h) ==
  /\ hpc[h] = "final"
  /\ IF DrawdownPasses(limited, view[h], timestamp[h])
     THEN /\ hpc' = [hpc EXCEPT ![h] = "place"]
          /\ policyRead' = [policyRead EXCEPT ![h] = limited]
          /\ UNCHANGED <<view, timestamp, dailyDue, totalDue>>
     ELSE Leave(h)
  /\ UNCHANGED <<vars, policyVars>>

\* The adapter places the order.
PlaceOrder(h) ==
  /\ hpc[h] = "place"
  /\ Leave(h)
  /\ UNCHANGED <<vars, policyVars>>

\* The operator rewrites the policy with or without its limits.
EditLimits ==
  /\ edits < MaxEdits
  /\ edits' = edits + 1
  /\ limited' = ~limited
  /\ UNCHANGED <<vars, handlerVars>>

Handle(h) ==
  ReadPolicy(h) \/ ReadDrawdown(h) \/ Evaluate(h) \/ FinalEvaluate(h) \/ PlaceOrder(h)

GateNext ==
  \/ Next /\ UNCHANGED <<policyVars, handlerVars>>
  \/ \E h \in Handler : Handle(h)
  \/ EditLimits

GateSpec == GateInit /\ [][GateNext]_gateVars

GateFairSpec == GateSpec /\ \A u \in Updater : WF_vars(Update(u))

-------------------------------------------------------------------------------
(* Properties of a handler that is about to place an order.                *)

\* Types of the variables.
GateTypeOK ==
  /\ TypeOK
  /\ limited \in BOOLEAN
  /\ edits \in 0..MaxEdits
  /\ hpc \in [Handler -> HandlerSteps]
  /\ policyRead \in [Handler -> BOOLEAN]
  /\ view \in [Handler -> States]
  /\ timestamp \in [Handler -> Days]
  /\ dailyDue \in [Handler -> Days \cup {NoDay}]
  /\ totalDue \in [Handler -> BOOLEAN]

\* The handler places an order and the policy it read last carries the limits.
PlacesUnderLimits(h) == hpc[h] = "place" /\ policyRead[h]

\* An order placed under a daily limit was evaluated for a day with a recorded
\* update, even when midnight or an edit of the policy falls between the reads
\* of the policy, of the state and of the clock, and whatever updaters race.
OrderDayRecorded ==
  MaxDailyLoss # NoLimit =>
    \A h \in Handler : PlacesUnderLimits(h) => openSeen[timestamp[h]] # NoEquity

\* A loss that was recorded before the handler read the state keeps the order
\* from being placed under the limits of the reloaded policy, although neither
\* the state nor the clock is read again (preflight.py:137-146).
RecordedLossBlocksOrder ==
  \A h \in Handler : PlacesUnderLimits(h) =>
    dailyDue[h] # timestamp[h] /\ ~totalDue[h]

\* An order that is placed under the limits has passed the stops, on the state
\* and the date that its handler holds.
PassedInv ==
  \A h \in Handler : PlacesUnderLimits(h) =>
    DrawdownPasses(TRUE, view[h], timestamp[h])

\* The inductive strengthening of OrderDayRecorded, beside NewDayInv: a loss in
\* the state that a handler holds belongs to a day with a recorded update.
ViewInv ==
  /\ PassedInv
  /\ \A h \in Handler : \A d \in Days :
       view[h].losses[d] # NoEquity => openSeen[d] # NoEquity

\* The inductive strengthening of RecordedLossBlocksOrder, beside DailyInv and
\* TotalInv: the state that a handler holds shows what had been recorded.
DueInv ==
  /\ PassedInv
  /\ \A h \in Handler : dailyDue[h] # NoDay =>
       MaxDailyLoss # NoLimit /\ view[h].losses[dailyDue[h]] >= MaxDailyLoss
  /\ \A h \in Handler : totalDue[h] =>
       MaxTotalDrawdown # NoLimit /\ view[h].initial - view[h].current >= MaxTotalDrawdown

===============================================================================
