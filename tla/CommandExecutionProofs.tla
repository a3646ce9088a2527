------------------------ MODULE CommandExecutionProofs ------------------------
(***************************************************************************)
(* Theorems about CommandExecution, for every set of commands and workers, *)
(* every kind of fault and every bound.                                    *)
(***************************************************************************)
EXTENDS CommandExecution, TLAPS

\* Writing a document leaves a file of the right type, whatever lies beneath.
LEMMA WrittenType ==
  ASSUME NEW V, NEW f \in JsonFiles(V), NEW v \in V, NEW blank \in V,
         NEW g \in Written(f, v, blank)
  PROVE  g \in JsonFiles(V)
  BY DEF JsonFiles, Written, Intact

\* Every step keeps the variables' types.
LEMMA TypeStep ==
  ASSUME TypeOK, [Next]_vars
  PROVE  TypeOK'
  <1> USE KindAssumption, EnabledAssumption, BrokerAssumption, FaultAssumption,
          BoundAssumption
  <1> USE DEF TypeOK, None, Policies, Statuses, Steps, Deciding, ytmVars, brokerVars,
              policyVars, workerVars, historyVars
  <1>1. ASSUME NEW w \in Worker, NEW c \in Command, Lease(w, c)
        PROVE TypeOK'
    BY <1>1 DEF Lease
  <1>2. ASSUME NEW w \in Worker, NEW c \in Command, LoseLease(w, c)
        PROVE TypeOK'
    BY <1>2 DEF LoseLease, Faulty
  <1>3. ASSUME NEW w \in Worker, EmptyLease(w)
        PROVE TypeOK'
    BY <1>3 DEF EmptyLease, vars
  <1>4. ASSUME NEW w \in Worker, CheckCache(w)
        PROVE TypeOK'
    BY <1>4 DEF CheckCache, Finish, Decide, Go
  <1>5. ASSUME NEW w \in Worker, CheckPolicy(w)
        PROVE TypeOK'
    BY <1>5 DEF CheckPolicy, Finish, Decide, Go
  <1>6. ASSUME NEW w \in Worker, ReloadPolicy(w)
        PROVE TypeOK'
    BY <1>6 DEF ReloadPolicy, Decide, Go
  <1>7. ASSUME NEW w \in Worker, Prepare(w)
        PROVE TypeOK'
    BY <1>7 DEF Prepare, Decide, Go
  <1>8. ASSUME NEW w \in Worker, Lookup(w)
        PROVE TypeOK'
    BY <1>8 DEF Lookup, Go
  <1>9. ASSUME NEW w \in Worker, MisreadLookup(w)
        PROVE TypeOK'
    BY <1>9 DEF MisreadLookup, Faulty, Go
  <1>10. ASSUME NEW w \in Worker, PlaceAccepted(w)
         PROVE TypeOK'
    BY <1>10 DEF PlaceAccepted, Accept, Go
  <1>11. ASSUME NEW w \in Worker, PlaceRefused(w)
         PROVE TypeOK'
    BY <1>11 DEF PlaceRefused, Decide
  <1>12. ASSUME NEW w \in Worker, PlaceMisread(w)
         PROVE TypeOK'
    BY <1>12 DEF PlaceMisread, Faulty, Accept, Decide
  <1>13. ASSUME NEW w \in Worker, PlaceDelayed(w)
         PROVE TypeOK'
    BY <1>13 DEF PlaceDelayed, Faulty, Finish
  <1>14. ASSUME NEW c \in Command, BrokerReceives(c)
         PROVE TypeOK'
    BY <1>14 DEF BrokerReceives, Accept
  <1>15. ASSUME NEW w \in Worker, VerifyProtection(w)
         PROVE TypeOK'
    BY <1>15 DEF VerifyProtection, Decide
  <1>16. ASSUME NEW w \in Worker, TransportError(w)
         PROVE TypeOK'
    BY <1>16 DEF TransportError, Faulty, Finish
  <1>17. ASSUME NEW w \in Worker, PutRead(w)
         PROVE TypeOK'
    BY <1>17 DEF PutRead, Finish, JsonFiles
  <1>18. ASSUME NEW w \in Worker, PutTruncate(w)
         PROVE TypeOK'
    BY <1>18 DEF PutTruncate, Go, JsonFiles, Truncated
  <1>19. ASSUME NEW w \in Worker, PutWrite(w)
         PROVE TypeOK'
    <2>1. store' \in JsonFiles(SUBSET Command)
      BY <1>19, WrittenType DEF PutWrite
    <2>2. cmd[w] \in Command
      BY <1>19 DEF PutWrite
    <2>3. QED
      BY <1>19, <2>1, <2>2 DEF PutWrite, Go
  <1>20. ASSUME NEW w \in Worker, Report(w)
         PROVE TypeOK'
    BY <1>20 DEF Report, Finish
  <1>21. ASSUME NEW w \in Worker, LoseReport(w)
         PROVE TypeOK'
    BY <1>21 DEF LoseReport, Faulty, Finish
  <1>22. ASSUME NEW w \in Worker, Crash(w)
         PROVE TypeOK'
    BY <1>22 DEF Crash, Faulty, Finish
  <1>23. ASSUME NEW c \in Command, ExpireLease(c)
         PROVE TypeOK'
    BY <1>23 DEF ExpireLease
  <1>24. ASSUME NEW p \in Policies, BeginEdit(p)
         PROVE TypeOK'
    BY <1>24 DEF BeginEdit, TrackBlocked, JsonFiles, Truncated
  <1>25. CASE FinishEdit
    <2>1. policy' \in JsonFiles(Policies)
      BY <1>25, WrittenType DEF FinishEdit
    <2>2. QED
      BY <1>25, <2>1 DEF FinishEdit, TrackBlocked
  <1>26. CASE AbortEdit
    BY <1>26 DEF AbortEdit, Faulty
  <1>27. CASE UNCHANGED vars
    BY <1>27 DEF vars
  <1>28. QED
    BY <1>1, <1>2, <1>3, <1>4, <1>5, <1>6, <1>7, <1>8, <1>9, <1>10, <1>11,
       <1>12, <1>13, <1>14, <1>15, <1>16, <1>17, <1>18, <1>19, <1>20, <1>21,
       <1>22, <1>23, <1>24, <1>25, <1>26, <1>27
    DEF Next, Work, Handle, Fail, Environment

\* The variables have their types, a busy worker has a command and a worker that
\* stores or reports has a decision, in every execution of the program.
THEOREM TypeCorrect == Spec => []TypeOK
  <1>1. Init => TypeOK
    BY KindAssumption, BoundAssumption
    DEF Init, TypeOK, None, Policies, Statuses, Steps, Deciding, JsonFiles, Intact
  <1>2. TypeOK /\ [Next]_vars => TypeOK'
    BY TypeStep
  <1>3. QED
    BY <1>1, <1>2, PTL DEF Spec

-------------------------------------------------------------------------------
\* No step takes an order away from the broker.
LEMMA OrdersGrow ==
  ASSUME TypeOK, [Next]_vars
  PROVE  \A c \in Command : orders'[c] >= orders[c]
  <1> USE DEF TypeOK, ytmVars, brokerVars, Accept
  <1>1. CASE UNCHANGED orders
    BY <1>1
  <1>2. ASSUME NEW w \in Worker, PlaceAccepted(w)
        PROVE  \A c \in Command : orders'[c] >= orders[c]
    BY <1>2 DEF PlaceAccepted
  <1>3. ASSUME NEW w \in Worker, PlaceMisread(w)
        PROVE  \A c \in Command : orders'[c] >= orders[c]
    BY <1>3 DEF PlaceMisread
  <1>4. ASSUME NEW d \in Command, BrokerReceives(d)
        PROVE  \A c \in Command : orders'[c] >= orders[c]
    BY <1>4 DEF BrokerReceives
  <1>5. QED
    BY <1>1, <1>2, <1>3, <1>4
    DEF Next, Work, Environment, Handle, Fail, vars, Lease, LoseLease, EmptyLease,
        ExpireLease, CheckCache, CheckPolicy, ReloadPolicy, Prepare, Lookup,
        MisreadLookup, PlaceRefused, PlaceDelayed, VerifyProtection,
        TransportError, PutRead, PutTruncate, PutWrite, Report, LoseReport, Crash,
        BeginEdit, FinishEdit, AbortEdit

\* An order found, placed, stored or reported is an order the broker holds.
LEMMA OrderStep ==
  ASSUME TypeOK, OrderInv, [Next]_vars
  PROVE  OrderInv'
  <1> USE KindAssumption DEF TypeOK, OrderInv, AcknowledgedHasOrder,
          PlacingCommand, None, Statuses, Deciding, ytmVars, brokerVars, policyVars,
          workerVars, historyVars
  <1>1. /\ \A c \in Command : orders[c] \in Nat /\ orders'[c] \in Nat
        /\ \A c \in Command : orders[c] > 0 => orders'[c] > 0
    BY TypeStep, OrdersGrow
  <1>2. ASSUME NEW w \in Worker, NEW c \in Command, Lease(w, c) \/ LoseLease(w, c)
        PROVE  OrderInv'
    BY <1>2 DEF Lease, LoseLease
  <1>3. ASSUME NEW w \in Worker, CheckCache(w) \/ CheckPolicy(w) \/ ReloadPolicy(w)
        PROVE  OrderInv'
    BY <1>3 DEF CheckCache, CheckPolicy, ReloadPolicy, Finish, Decide, Go
  <1>4. ASSUME NEW w \in Worker, Prepare(w) \/ Lookup(w) \/ MisreadLookup(w)
        PROVE  OrderInv'
    BY <1>4 DEF Prepare, Lookup, MisreadLookup, Decide, Go
  <1>5. ASSUME NEW w \in Worker, PlaceAccepted(w) \/ PlaceMisread(w)
        PROVE  OrderInv'
    <2>1. cmd[w] \in Command /\ orders'[cmd[w]] > 0
      BY <1>1, <1>5 DEF PlaceAccepted, PlaceMisread, Accept
    <2>2. UNCHANGED <<answer, cmd, snapshot, store>>
      BY <1>5 DEF PlaceAccepted, PlaceMisread, Decide, Go
    <2>3. AcknowledgedHasOrder' /\ \A c \in store'.value : orders'[c] > 0
      BY <1>1, <2>2 DEF JsonFiles
    <2>4. \A v \in Worker : \A c \in snapshot'[v] : orders'[c] > 0
      BY <1>1, <2>2
    <2>5. CASE PlaceAccepted(w)
      BY <1>1, <2>1, <2>2, <2>3, <2>4, <2>5 DEF PlaceAccepted, Go
    <2>6. CASE PlaceMisread(w)
      BY <1>1, <2>1, <2>2, <2>3, <2>4, <2>6 DEF PlaceMisread, Decide
    <2>7. QED
      BY <1>5, <2>5, <2>6
  <1>6. ASSUME NEW w \in Worker, PlaceRefused(w) \/ PlaceDelayed(w)
        PROVE  OrderInv'
    <2>1. CASE PlaceRefused(w)
      BY <2>1 DEF PlaceRefused, Decide
    <2>2. CASE PlaceDelayed(w)
      BY <2>2 DEF PlaceDelayed, Finish
    <2>3. QED
      BY <1>6, <2>1, <2>2
  <1>7. ASSUME NEW c \in Command, BrokerReceives(c) \/ ExpireLease(c)
        PROVE  OrderInv'
    <2>1. UNCHANGED <<answer, workerVars, store>>
      BY <1>7 DEF BrokerReceives, ExpireLease
    <2>2. AcknowledgedHasOrder' /\ \A d \in store'.value : orders'[d] > 0
      BY <1>1, <2>1 DEF JsonFiles
    <2>3. \A v \in Worker : \A d \in snapshot'[v] : orders'[d] > 0
      BY <1>1, <2>1
    <2>4. inflight' \subseteq PlacingCommand
      BY <1>7 DEF BrokerReceives, ExpireLease
    <2>5. QED
      BY <1>1, <2>1, <2>2, <2>3, <2>4
  <1>8. ASSUME NEW w \in Worker, VerifyProtection(w) \/ TransportError(w)
        PROVE  OrderInv'
    BY <1>8 DEF VerifyProtection, TransportError, Decide, Finish
  <1>9. ASSUME NEW w \in Worker, PutRead(w) \/ PutTruncate(w)
        PROVE  OrderInv'
    <2>1. CASE PutRead(w)
      <3>1. \A v \in Worker : \A c \in snapshot'[v] : orders[c] > 0
        BY <2>1 DEF PutRead, Finish
      <3>2. QED
        BY <2>1, <3>1 DEF PutRead, Finish
    <2>2. CASE PutTruncate(w)
      BY <2>2 DEF PutTruncate, Truncated, Go
    <2>3. QED
      BY <1>9, <2>1, <2>2
  <1>10. ASSUME NEW w \in Worker, PutWrite(w)
         PROVE  OrderInv'
    <2>1. store'.value \subseteq snapshot[w]
      BY <1>10 DEF PutWrite, Written, Intact
    <2>2. \A c \in store'.value : orders[c] > 0
      BY <2>1
    <2>3. QED
      BY <1>10, <2>2 DEF PutWrite, Go
  <1>11. ASSUME NEW w \in Worker, Report(w) \/ LoseReport(w) \/ Crash(w)
         PROVE  OrderInv'
    BY <1>11 DEF Report, LoseReport, Crash, Finish
  <1>12. CASE FinishEdit \/ AbortEdit \/ \E p \in Policies : BeginEdit(p)
    BY <1>12 DEF BeginEdit, FinishEdit, AbortEdit
  <1>13. CASE UNCHANGED vars \/ \E w \in Worker : EmptyLease(w)
    BY <1>13 DEF vars, EmptyLease
  <1>14. QED
    BY <1>2, <1>3, <1>4, <1>5, <1>6, <1>7, <1>8, <1>9, <1>10, <1>11, <1>12, <1>13
    DEF Next, Work, Handle, Fail, Environment

\* YTM is told "acknowledged" for a placing command only if the broker holds its
\* order: for any number of workers, under every fault of the model.
THEOREM AcknowledgedOrdersExist == Spec => []AcknowledgedHasOrder
  <1>1. Init => OrderInv
    BY DEF Init, OrderInv, AcknowledgedHasOrder, PlacingCommand, None, Intact
  <1>2. TypeOK /\ OrderInv /\ [Next]_vars => OrderInv'
    BY OrderStep
  <1>3. OrderInv => AcknowledgedHasOrder
    BY DEF OrderInv
  <1>4. QED
    BY <1>1, <1>2, <1>3, TypeCorrect, PTL DEF Spec

-------------------------------------------------------------------------------
\* A policy that has forbidden real orders since before a worker's reload keeps
\* that worker away from the placement.
LEMMA BlockStep ==
  ASSUME TypeOK, BlockInv, [Next]_vars
  PROVE  BlockInv'
  <1> USE KindAssumption DEF TypeOK, BlockInv, KillSwitchStopsPlacement, ForbidsReal,
          Readable, PlacingCommand, BeforeReload, None, ytmVars, brokerVars, policyVars,
          workerVars, historyVars
  <1>1. ASSUME NEW w \in Worker, NEW c \in Command, Lease(w, c) \/ LoseLease(w, c)
        PROVE  BlockInv'
    BY <1>1 DEF Lease, LoseLease
  <1>2. ASSUME NEW w \in Worker, CheckCache(w) \/ CheckPolicy(w)
        PROVE  BlockInv'
    BY <1>2 DEF CheckCache, CheckPolicy, Finish, Decide, Go
  <1>3. ASSUME NEW w \in Worker, ReloadPolicy(w)
        PROVE  BlockInv'
    BY <1>3 DEF ReloadPolicy, Permits, Decide, Go
  <1>4. ASSUME NEW w \in Worker, Prepare(w) \/ Lookup(w) \/ MisreadLookup(w)
        PROVE  BlockInv'
    BY <1>4 DEF Prepare, Lookup, MisreadLookup, Decide, Go
  <1>5. ASSUME NEW w \in Worker,
               \/ PlaceAccepted(w) \/ PlaceMisread(w)
               \/ PlaceRefused(w) \/ PlaceDelayed(w)
        PROVE  BlockInv'
    BY <1>5 DEF PlaceAccepted, PlaceMisread, PlaceRefused, PlaceDelayed, Decide, Go,
                Finish
  <1>6. ASSUME NEW c \in Command, BrokerReceives(c) \/ ExpireLease(c)
        PROVE  BlockInv'
    BY <1>6 DEF BrokerReceives, ExpireLease
  <1>7. ASSUME NEW w \in Worker, VerifyProtection(w) \/ TransportError(w)
        PROVE  BlockInv'
    BY <1>7 DEF VerifyProtection, TransportError, Decide, Finish
  <1>8. ASSUME NEW w \in Worker, PutRead(w) \/ PutTruncate(w) \/ PutWrite(w)
        PROVE  BlockInv'
    BY <1>8 DEF PutRead, PutTruncate, PutWrite, Finish, Go
  <1>9. ASSUME NEW w \in Worker, Report(w) \/ LoseReport(w) \/ Crash(w)
        PROVE  BlockInv'
    BY <1>9 DEF Report, LoseReport, Crash, Finish
  <1>10. CASE FinishEdit \/ \E p \in Policies : BeginEdit(p)
    BY <1>10 DEF BeginEdit, FinishEdit, TrackBlocked
  <1>11. CASE AbortEdit
    BY <1>11 DEF AbortEdit
  <1>12. CASE UNCHANGED vars \/ \E w \in Worker : EmptyLease(w)
    BY <1>12 DEF vars, EmptyLease
  <1>13. QED
    BY <1>1, <1>2, <1>3, <1>4, <1>5, <1>6, <1>7, <1>8, <1>9, <1>10, <1>11, <1>12
    DEF Next, Work, Handle, Fail, Environment

\* Once the policy forbids real orders, no worker that has yet to reload it gets
\* to prepare or place one, unless the policy permits them again in between.
THEOREM KillSwitchHolds == Spec => []KillSwitchStopsPlacement
  <1>1. Init => BlockInv
    BY DEF Init, BlockInv, KillSwitchStopsPlacement
  <1>2. TypeOK /\ BlockInv /\ [Next]_vars => BlockInv'
    BY BlockStep
  <1>3. BlockInv => KillSwitchStopsPlacement
    BY DEF BlockInv
  <1>4. QED
    BY <1>1, <1>2, <1>3, TypeCorrect, PTL DEF Spec

-------------------------------------------------------------------------------
\* One worker whose lookups are true places each command once and never after its
\* answer, even with a broker that refuses no duplicate.
LEMMA SingleStep ==
  ASSUME OneFaithfulWorker, TypeOK, SingleInv, [Next]_vars
  PROVE  SingleInv'
  <1> USE DEF OneFaithfulWorker, OneWorker, TypeOK, SingleInv, OneOrderPerCommand, None,
          ytmVars, brokerVars, policyVars, workerVars, historyVars
  <1>1. ASSUME NEW w \in Worker, NEW c \in Command, Lease(w, c) \/ LoseLease(w, c)
        PROVE  SingleInv'
    BY <1>1 DEF Lease, LoseLease, Leasable
  <1>2. ASSUME NEW w \in Worker, CheckCache(w) \/ CheckPolicy(w) \/ ReloadPolicy(w)
        PROVE  SingleInv'
    BY <1>2 DEF CheckCache, CheckPolicy, ReloadPolicy, Finish, Decide, Go
  <1>3. ASSUME NEW w \in Worker, Prepare(w) \/ Lookup(w)
        PROVE  SingleInv'
    BY <1>3 DEF Prepare, Lookup, Decide, Go
  <1>4. ASSUME NEW w \in Worker, MisreadLookup(w) \/ PlaceDelayed(w)
        PROVE  FALSE
    BY <1>4 DEF MisreadLookup, PlaceDelayed, Faulty
  <1>5. ASSUME NEW w \in Worker, PlaceAccepted(w) \/ PlaceMisread(w)
        PROVE  SingleInv'
    BY <1>5 DEF PlaceAccepted, PlaceMisread, Accept, Decide, Go
  <1>6. ASSUME NEW w \in Worker,
               PlaceRefused(w) \/ VerifyProtection(w) \/ TransportError(w)
        PROVE  SingleInv'
    BY <1>6 DEF PlaceRefused, VerifyProtection, TransportError, Decide, Finish
  <1>7. ASSUME NEW c \in Command, BrokerReceives(c) \/ ExpireLease(c)
        PROVE  SingleInv'
    BY <1>7 DEF BrokerReceives, ExpireLease
  <1>8. ASSUME NEW w \in Worker, PutRead(w) \/ PutTruncate(w) \/ PutWrite(w)
        PROVE  SingleInv'
    BY <1>8 DEF PutRead, PutTruncate, PutWrite, Finish, Go
  <1>9. ASSUME NEW w \in Worker, Report(w) \/ LoseReport(w) \/ Crash(w)
        PROVE  SingleInv'
    BY <1>9 DEF Report, LoseReport, Crash, Finish
  <1>10. CASE FinishEdit \/ AbortEdit \/ \E p \in Policies : BeginEdit(p)
    BY <1>10 DEF BeginEdit, FinishEdit, AbortEdit
  <1>11. CASE UNCHANGED vars \/ \E w \in Worker : EmptyLease(w)
    BY <1>11 DEF vars, EmptyLease
  <1>12. QED
    BY <1>1, <1>2, <1>3, <1>4, <1>5, <1>6, <1>7, <1>8, <1>9, <1>10, <1>11
    DEF Next, Work, Handle, Fail, Environment

\* The invariant behind the next two theorems.
LEMMA SingleInvariant ==
  ASSUME OneFaithfulWorker
  PROVE  Spec => []SingleInv
  <1>1. Init => SingleInv
    BY DEF Init, SingleInv, OneOrderPerCommand, None
  <1>2. TypeOK /\ SingleInv /\ [Next]_vars => SingleInv'
    BY SingleStep
  <1>3. QED
    BY <1>1, <1>2, TypeCorrect, PTL DEF Spec

\* Repeating a command never repeats its order: crashes, lost results and expired
\* leases included, the lookup by client order id alone is enough.
THEOREM RepeatsPlaceOnce ==
  ASSUME OneFaithfulWorker
  PROVE  Spec => []OneOrderPerCommand
  <1>1. SingleInv => OneOrderPerCommand
    BY DEF SingleInv
  <1>2. QED
    BY <1>1, SingleInvariant, PTL

\* Nothing reaches the broker for a command that YTM has an answer for.
THEOREM AnswersAreFinal ==
  ASSUME OneFaithfulWorker
  PROVE  Spec => NoOrderAfterAnswer
  <1>1. TypeOK /\ SingleInv /\ [Next]_vars =>
          [\A c \in Command : answer[c] # None => orders'[c] = orders[c]]_vars
    <2> SUFFICES ASSUME TypeOK, SingleInv, [Next]_vars,
                        NEW c \in Command, answer[c] # None
                 PROVE  orders'[c] = orders[c]
      OBVIOUS
    <2> USE DEF TypeOK, SingleInv, ytmVars, brokerVars, Accept
    <2>1. CASE UNCHANGED orders
      BY <2>1
    <2>2. ASSUME NEW w \in Worker, PlaceAccepted(w) \/ PlaceMisread(w)
          PROVE  orders'[c] = orders[c]
      BY <2>2 DEF PlaceAccepted, PlaceMisread
    <2>3. ASSUME NEW d \in Command, BrokerReceives(d)
          PROVE  orders'[c] = orders[c]
      BY <2>3 DEF BrokerReceives
    <2>4. QED
      BY <2>1, <2>2, <2>3
      DEF Next, Work, Environment, Handle, Fail, vars, Lease, LoseLease, EmptyLease,
          ExpireLease, CheckCache, CheckPolicy, ReloadPolicy, Prepare, Lookup,
          MisreadLookup, PlaceRefused, PlaceDelayed, VerifyProtection,
          TransportError, PutRead, PutTruncate, PutWrite, Report, LoseReport, Crash,
          BeginEdit, FinishEdit, AbortEdit
  <1>2. QED
    BY <1>1, SingleInvariant, TypeCorrect, PTL DEF Spec, NoOrderAfterAnswer

-------------------------------------------------------------------------------
\* One worker rejects only commands that are not in the store, and stores only
\* commands that have not been rejected.
LEMMA RejectStep ==
  ASSUME OneWorker, TypeOK, RejectInv, [Next]_vars
  PROVE  RejectInv'
  <1> USE DEF OneWorker, TypeOK, RejectInv, StoredNeverRejected, Readable, None,
          Statuses, ytmVars, brokerVars, policyVars, workerVars, historyVars
  <1>1. ASSUME NEW w \in Worker, NEW c \in Command, Lease(w, c) \/ LoseLease(w, c)
        PROVE  RejectInv'
    BY <1>1 DEF Lease, LoseLease, Leasable
  <1>2. ASSUME NEW w \in Worker, CheckCache(w) \/ CheckPolicy(w) \/ ReloadPolicy(w)
        PROVE  RejectInv'
    BY <1>2 DEF CheckCache, CheckPolicy, ReloadPolicy, Finish, Decide, Go
  <1>3. ASSUME NEW w \in Worker, Prepare(w) \/ Lookup(w) \/ MisreadLookup(w)
        PROVE  RejectInv'
    BY <1>3 DEF Prepare, Lookup, MisreadLookup, Decide, Go
  <1>4. ASSUME NEW w \in Worker,
               \/ PlaceAccepted(w) \/ PlaceMisread(w)
               \/ PlaceRefused(w) \/ PlaceDelayed(w)
        PROVE  RejectInv'
    BY <1>4 DEF PlaceAccepted, PlaceMisread, PlaceRefused, PlaceDelayed, Decide, Go,
                Finish
  <1>5. ASSUME NEW c \in Command, BrokerReceives(c) \/ ExpireLease(c)
        PROVE  RejectInv'
    BY <1>5 DEF BrokerReceives, ExpireLease
  <1>6. ASSUME NEW w \in Worker, VerifyProtection(w) \/ TransportError(w)
        PROVE  RejectInv'
    BY <1>6 DEF VerifyProtection, TransportError, Decide, Finish
  <1>7. ASSUME NEW w \in Worker, PutRead(w) \/ PutTruncate(w)
        PROVE  RejectInv'
    BY <1>7 DEF PutRead, PutTruncate, Truncated, Finish, Go
  <1>8. ASSUME NEW w \in Worker, PutWrite(w)
        PROVE  RejectInv'
    <2>1. store'.value \subseteq snapshot[w]
      BY <1>8 DEF PutWrite, Written, Intact
    <2>2. QED
      BY <1>8, <2>1 DEF PutWrite, Go, Deciding
  <1>9. ASSUME NEW w \in Worker, Report(w)
        PROVE  RejectInv'
    BY <1>9 DEF Report, Finish
  <1>10. ASSUME NEW w \in Worker, LoseReport(w) \/ Crash(w)
         PROVE  RejectInv'
    BY <1>10 DEF LoseReport, Crash, Finish
  <1>11. CASE FinishEdit \/ AbortEdit \/ \E p \in Policies : BeginEdit(p)
    BY <1>11 DEF BeginEdit, FinishEdit, AbortEdit
  <1>12. CASE UNCHANGED vars \/ \E w \in Worker : EmptyLease(w)
    BY <1>12 DEF vars, EmptyLease
  <1>13. QED
    BY <1>1, <1>2, <1>3, <1>4, <1>5, <1>6, <1>7, <1>8, <1>9, <1>10, <1>11, <1>12
    DEF Next, Work, Handle, Fail, Environment

\* YTM never learns that a command whose acknowledgement is stored was rejected:
\* for one worker under every fault of the model, torn writes included.
THEOREM StoredStaysAcknowledged ==
  ASSUME OneWorker
  PROVE  Spec => []StoredNeverRejected
  <1>1. Init => RejectInv
    BY DEF Init, RejectInv, StoredNeverRejected, Intact, None
  <1>2. TypeOK /\ RejectInv /\ [Next]_vars => RejectInv'
    BY RejectStep
  <1>3. RejectInv => StoredNeverRejected
    BY DEF RejectInv
  <1>4. QED
    BY <1>1, <1>2, <1>3, TypeCorrect, PTL DEF Spec

-------------------------------------------------------------------------------
\* Between its read and its write of the store, one worker holds every record
\* that has been stored.
LEMMA SurviveStep ==
  ASSUME OneWorker, "tear" \notin Fault, TypeOK, SurviveInv, [Next]_vars
  PROVE  SurviveInv'
  <1> USE DEF OneWorker, TypeOK, SurviveInv, StoredResultsSurvive, Readable, None,
          ytmVars, brokerVars, policyVars, workerVars, historyVars
  <1>1. ASSUME NEW w \in Worker, NEW c \in Command, Lease(w, c) \/ LoseLease(w, c)
        PROVE  SurviveInv'
    BY <1>1 DEF Lease, LoseLease
  <1>2. ASSUME NEW w \in Worker, CheckCache(w) \/ CheckPolicy(w) \/ ReloadPolicy(w)
        PROVE  SurviveInv'
    BY <1>2 DEF CheckCache, CheckPolicy, ReloadPolicy, Finish, Decide, Go
  <1>3. ASSUME NEW w \in Worker, Prepare(w) \/ Lookup(w) \/ MisreadLookup(w)
        PROVE  SurviveInv'
    BY <1>3 DEF Prepare, Lookup, MisreadLookup, Decide, Go
  <1>4. ASSUME NEW w \in Worker,
               \/ PlaceAccepted(w) \/ PlaceMisread(w)
               \/ PlaceRefused(w) \/ PlaceDelayed(w)
        PROVE  SurviveInv'
    BY <1>4 DEF PlaceAccepted, PlaceMisread, PlaceRefused, PlaceDelayed, Decide, Go,
                Finish
  <1>5. ASSUME NEW c \in Command, BrokerReceives(c) \/ ExpireLease(c)
        PROVE  SurviveInv'
    BY <1>5 DEF BrokerReceives, ExpireLease
  <1>6. ASSUME NEW w \in Worker, VerifyProtection(w) \/ TransportError(w)
        PROVE  SurviveInv'
    BY <1>6 DEF VerifyProtection, TransportError, Decide, Finish
  <1>7. ASSUME NEW w \in Worker, PutRead(w) \/ PutTruncate(w)
        PROVE  SurviveInv'
    BY <1>7 DEF PutRead, PutTruncate, Truncated, Finish, Go
  <1>8. ASSUME NEW w \in Worker, PutWrite(w)
        PROVE  SurviveInv'
    <2>1. store' = Intact(snapshot[w]) /\ pc' = [pc EXCEPT ![w] = "report"]
      BY <1>8 DEF PutWrite, Written, Go
    <2>2. recorded' \subseteq snapshot[w]
      BY <1>8 DEF PutWrite
    <2>3. QED
      BY <2>1, <2>2 DEF Intact
  <1>9. ASSUME NEW w \in Worker, Report(w) \/ LoseReport(w) \/ Crash(w)
        PROVE  SurviveInv'
    <2>1. pc[w] # "write" /\ UNCHANGED <<store, recorded>>
      BY <1>9 DEF Report, LoseReport, Crash, Faulty
    <2>2. Finish(w)
      BY <1>9 DEF Report, LoseReport, Crash
    <2>3. QED
      BY <2>1, <2>2 DEF Finish
  <1>10. CASE FinishEdit \/ AbortEdit \/ \E p \in Policies : BeginEdit(p)
    BY <1>10 DEF BeginEdit, FinishEdit, AbortEdit
  <1>11. CASE UNCHANGED vars \/ \E w \in Worker : EmptyLease(w)
    BY <1>11 DEF vars, EmptyLease
  <1>12. QED
    BY <1>1, <1>2, <1>3, <1>4, <1>5, <1>6, <1>7, <1>8, <1>9, <1>10, <1>11
    DEF Next, Work, Handle, Fail, Environment

\* What has been stored is never lost, unless two workers write the store at once
\* or one dies in the middle of a write.
THEOREM StoreSurvives ==
  ASSUME OneWorker, "tear" \notin Fault
  PROVE  Spec => []StoredResultsSurvive
  <1>1. Init => SurviveInv
    BY DEF Init, SurviveInv, StoredResultsSurvive, Readable, Intact
  <1>2. TypeOK /\ SurviveInv /\ [Next]_vars => SurviveInv'
    BY SurviveStep
  <1>3. SurviveInv => StoredResultsSurvive
    BY DEF SurviveInv
  <1>4. QED
    BY <1>1, <1>2, <1>3, TypeCorrect, PTL DEF Spec

-------------------------------------------------------------------------------
\* With a broker that refuses a repeated client order id, every step places at
\* most the first order of a command.
LEMMA DedupStep ==
  ASSUME BrokerDedups = TRUE, TypeOK, OneOrderPerCommand, [Next]_vars
  PROVE  OneOrderPerCommand'
  <1> USE DEF TypeOK, OneOrderPerCommand, ytmVars, brokerVars, Accept, BrokerAccepts
  <1>1. CASE UNCHANGED orders
    BY <1>1
  <1>2. ASSUME NEW w \in Worker, PlaceAccepted(w) \/ PlaceMisread(w)
        PROVE  OneOrderPerCommand'
    BY <1>2 DEF PlaceAccepted, PlaceMisread
  <1>3. ASSUME NEW d \in Command, BrokerReceives(d)
        PROVE  OneOrderPerCommand'
    BY <1>3 DEF BrokerReceives
  <1>4. QED
    BY <1>1, <1>2, <1>3
    DEF Next, Work, Environment, Handle, Fail, vars, Lease, LoseLease, EmptyLease,
        ExpireLease, CheckCache, CheckPolicy, ReloadPolicy, Prepare, Lookup,
        MisreadLookup, PlaceRefused, PlaceDelayed, VerifyProtection,
        TransportError, PutRead, PutTruncate, PutWrite, Report, LoseReport, Crash,
        BeginEdit, FinishEdit, AbortEdit

\* Such a broker holds one order at most for each command, whatever number of
\* executor processes ask for it and however late a request arrives.
THEOREM DedupPlacesOnce ==
  ASSUME BrokerDedups = TRUE
  PROVE  Spec => []OneOrderPerCommand
  <1>1. Init => OneOrderPerCommand
    BY DEF Init, OneOrderPerCommand
  <1>2. TypeOK /\ OneOrderPerCommand /\ [Next]_vars => OneOrderPerCommand'
    BY DedupStep
  <1>3. QED
    BY <1>1, <1>2, TypeCorrect, PTL DEF Spec

\* Each step of the executor is a step of the abstract specification, or stutters
\* there, as long as no command has two orders.
LEMMA OutcomeStep ==
  ASSUME TypeOK, OrderInv, OneOrderPerCommand, [Next]_vars, OneOrderPerCommand'
  PROVE  [Outcome!Next]_(Outcome!vars)
  <1> USE DEF TypeOK, ytmVars, brokerVars, Outcome!vars, Outcome!Next
  <1>1. CASE UNCHANGED <<orders, answer>>
    BY <1>1
  <1>2. ASSUME NEW c \in Command, c \in PlacingCommand, Accept(c), UNCHANGED answer
        PROVE  Outcome!Place(c)
    <2>1. orders[c] \in Nat /\ orders'[c] = orders[c] + 1 /\ orders'[c] <= 1
      BY <1>2 DEF Accept, OneOrderPerCommand
    <2>2. orders[c] = 0 /\ orders[c] + 1 = 1
      BY <2>1
    <2>3. QED
      BY <1>2, <2>2 DEF Accept, Outcome!Place
  <1>3. ASSUME NEW w \in Worker, PlaceAccepted(w) \/ PlaceMisread(w)
        PROVE  Outcome!Place(cmd[w]) /\ cmd[w] \in Command
    <2>1. cmd[w] \in Command /\ cmd[w] \in PlacingCommand
      BY <1>3 DEF PlaceAccepted, PlaceMisread, OrderInv
    <2>2. Accept(cmd[w]) /\ UNCHANGED answer
      BY <1>3 DEF PlaceAccepted, PlaceMisread
    <2>3. QED
      BY <1>2, <2>1, <2>2
  <1>4. ASSUME NEW c \in Command, BrokerReceives(c)
        PROVE  Outcome!Place(c) \/ UNCHANGED <<orders, answer>>
    BY <1>2, <1>4 DEF BrokerReceives, OrderInv
  <1>5. ASSUME NEW w \in Worker, Report(w)
        PROVE  [Outcome!Next]_(Outcome!vars)
    <2>1. /\ cmd[w] \in Command /\ decision[w] \in Statuses
          /\ answer' = [answer EXCEPT ![cmd[w]] =
                          IF @ = None THEN decision[w] ELSE @]
          /\ UNCHANGED orders
      BY <1>5 DEF Report, Deciding
    <2>2. CASE answer[cmd[w]] # None
      BY <2>1, <2>2
    <2>3. CASE answer[cmd[w]] = None /\ decision[w] = "rejected"
      BY <2>1, <2>3 DEF Outcome!Reject, None
    <2>4. CASE answer[cmd[w]] = None /\ decision[w] = "acknowledged"
      <3>1. cmd[w] \in PlacingCommand => orders[cmd[w]] = 1
        BY <1>5, <2>1, <2>4 DEF Report, OrderInv, OneOrderPerCommand
      <3>2. Outcome!Acknowledge(cmd[w])
        BY <2>1, <2>4, <3>1 DEF Outcome!Acknowledge, None
      <3>3. QED
        BY <2>1, <3>2
    <2>5. QED
      BY <2>1, <2>2, <2>3, <2>4 DEF Statuses
  <1>6. QED
    BY <1>1, <1>3, <1>4, <1>5
    DEF Next, Work, Environment, Handle, Fail, vars, Lease, LoseLease, EmptyLease,
        ExpireLease, CheckCache, CheckPolicy, ReloadPolicy, Prepare, Lookup,
        MisreadLookup, PlaceRefused, PlaceDelayed, VerifyProtection,
        TransportError, PutRead, PutTruncate, PutWrite, LoseReport, Crash,
        BeginEdit, FinishEdit, AbortEdit

\* With such a broker, any number of executor processes under every fault of the
\* model implements CommandOutcome.
THEOREM OutcomeImplemented ==
  ASSUME BrokerDedups = TRUE
  PROVE  Spec => ImplementsOutcome
  <1>1. Init => Outcome!Init /\ OrderInv /\ OneOrderPerCommand
    BY DEF Init, Outcome!Init, OrderInv, AcknowledgedHasOrder, PlacingCommand,
           OneOrderPerCommand, None, Intact
  <1>2. TypeOK /\ OrderInv /\ [Next]_vars => OrderInv'
    BY OrderStep
  <1>3. TypeOK /\ OneOrderPerCommand /\ [Next]_vars => OneOrderPerCommand'
    BY DedupStep
  <1>4. TypeOK /\ OrderInv /\ OneOrderPerCommand /\ [Next]_vars /\ OneOrderPerCommand'
          => [Outcome!Next]_(Outcome!vars)
    BY OutcomeStep
  <1>5. QED
    BY <1>1, <1>2, <1>3, <1>4, TypeCorrect, PTL
    DEF Spec, ImplementsOutcome, Outcome!Spec

\* One process with truthful lookups implements it as well, and needs no help from
\* the broker.
THEOREM OutcomeImplementedAlone ==
  ASSUME OneFaithfulWorker
  PROVE  Spec => ImplementsOutcome
  <1>1. Init => Outcome!Init /\ OrderInv
    BY DEF Init, Outcome!Init, OrderInv, AcknowledgedHasOrder, PlacingCommand,
           None, Intact
  <1>2. TypeOK /\ OrderInv /\ [Next]_vars => OrderInv'
    BY OrderStep
  <1>3. SingleInv => OneOrderPerCommand
    BY DEF SingleInv
  <1>4. SingleInv' => OneOrderPerCommand'
    BY DEF SingleInv
  <1>5. TypeOK /\ OrderInv /\ OneOrderPerCommand /\ [Next]_vars /\ OneOrderPerCommand'
          => [Outcome!Next]_(Outcome!vars)
    BY OutcomeStep
  <1>6. QED
    BY <1>1, <1>2, <1>3, <1>4, <1>5, TypeCorrect, SingleInvariant, PTL
    DEF Spec, ImplementsOutcome, Outcome!Spec

===============================================================================
