---------------------------- MODULE ProtectionProofs ----------------------------
(***************************************************************************)
(* Theorems about Protection, for any number of handlers, any size of the  *)
(* entry, any positions from elsewhere, every kind of fault and any bound. *)
(***************************************************************************)
EXTENDS Protection, TLAPS

\* Every step keeps the variables' types.
LEMMA TypeStep ==
  ASSUME TypeOK, [Next]_vars
  PROVE  TypeOK'
  <1> USE SizeAssumption, FaultAssumption, BoundAssumption
  <1> USE DEF TypeOK, Steps, Answers, ProtectionStatuses, None, brokerVars, workerVars
  <1>1. ASSUME NEW w \in Worker, Place(w)
        PROVE  TypeOK'
    <2>1. PICK n \in 0..Size : filled' = n /\ position' = position + n
      BY <1>1 DEF Place
    <2>2. position' \in Int /\ filled' \in 0..Size
      BY <2>1
    <2>3. QED
      BY <1>1, <2>2 DEF Place, AfterResponse, Go
  <1>2. ASSUME NEW w \in Worker, Recover(w)
        PROVE  TypeOK'
    BY <1>2 DEF Recover, AfterResponse, Go
  <1>3. ASSUME NEW w \in Worker, Replay(w) \/ Refuse(w)
        PROVE  TypeOK'
    BY <1>3 DEF Replay, Refuse, Faulty, Decide
  <1>4. ASSUME NEW w \in Worker, QueryPending(w)
        PROVE  TypeOK'
    BY <1>4 DEF QueryPending, Decide, Go
  <1>5. ASSUME NEW w \in Worker, QueryPosition(w)
        PROVE  TypeOK'
    BY <1>5 DEF QueryPosition, Decide
  <1>6. ASSUME NEW w \in Worker, QueryFails(w)
        PROVE  TypeOK'
    BY <1>6 DEF QueryFails, Faulty, Decide
  <1>7. ASSUME NEW w \in Worker, Remediate(w) \/ RemediateLost(w)
        PROVE  TypeOK'
    <2>1. stop' \in Nat /\ stopIds' \in Nat
      BY <1>7 DEF Remediate, RemediateLost, PlaceStop, Magnitude
    <2>2. CASE Remediate(w)
      BY <2>1, <2>2 DEF Remediate, Decide
    <2>3. CASE RemediateLost(w)
      BY <2>1, <2>3 DEF RemediateLost, Faulty, Finish
    <2>4. QED
      BY <1>7, <2>2, <2>3
  <1>8. ASSUME NEW w \in Worker, RemediateFails(w)
        PROVE  TypeOK'
    BY <1>8 DEF RemediateFails, Decide
  <1>9. ASSUME NEW w \in Worker, Store(w)
        PROVE  TypeOK'
    BY <1>9 DEF Store, Go
  <1>10. ASSUME NEW w \in Worker, Report(w) \/ LoseReport(w) \/ Lose(w)
         PROVE  TypeOK'
    BY <1>10 DEF Report, LoseReport, Lose, Faulty, Finish
  <1>11. CASE Fill \/ EndOrder \/ Activate \/ Close
    BY <1>11 DEF Fill, EndOrder, Activate, Close
  <1>12. CASE UNCHANGED vars \/ \E w \in Worker : EmptyLease(w)
    BY <1>12 DEF EmptyLease, vars
  <1>13. QED
    BY <1>1, <1>2, <1>3, <1>4, <1>5, <1>6, <1>7, <1>8, <1>9, <1>10, <1>11, <1>12
    DEF Next, Handle, Fail, Broker

\* The variables have their types, a handler that stores or reports has a decision
\* and one that remediates has seen a position, in every execution.
THEOREM TypeCorrect == Spec => []TypeOK
  <1>1. ASSUME Init
        PROVE  TypeOK
    <2> USE <1>1 DEF Init
    <2>1. filled \in 0..Size /\ position \in Int /\ faults \in 0..MaxFaults
      BY SizeAssumption, OthersAssumption, BoundAssumption
    <2>2. /\ order \in {"none", "open", "ended"} /\ stop \in Nat /\ stopIds \in Nat
          /\ attached \in {"waiting", "refused", "live", "used"}
          /\ stored \in Answers /\ answer \in Answers /\ resting \in BOOLEAN
      BY DEF Answers
    <2>3. /\ pc \in [Worker -> Steps] /\ seen \in [Worker -> Int]
          /\ status \in [Worker -> Answers]
      BY DEF Steps, Answers
    <2>4. QED
      BY <2>1, <2>2, <2>3 DEF TypeOK
  <1>2. TypeOK /\ [Next]_vars => TypeOK'
    BY TypeStep
  <1>3. QED
    BY <1>1, <1>2, PTL DEF Spec

-------------------------------------------------------------------------------
\* A decision is new only if a handler has just taken it: storing, reporting and
\* replaying pass on decisions that are there.
LEMMA DecisionsStep ==
  ASSUME TypeOK, [Next]_vars
  PROVE  \/ Decisions' \subseteq Decisions \cup {None, "rejected", "unprotected",
                                                 "verification_failed"}
         \/ \E w \in Worker : /\ QueryPending(w) /\ attached = "live"
                              /\ Decisions' \subseteq Decisions \cup {"protected"}
         \/ \E w \in Worker : /\ QueryPosition(w) /\ position = 0
                              /\ Decisions' \subseteq Decisions \cup {"pending_activation"}
         \/ \E w \in Worker : /\ Remediate(w)
                              /\ Decisions' \subseteq Decisions \cup {"protected_remediated"}
  <1> USE DEF TypeOK, Decisions
  <1> DEFINE Dull == {None, "rejected", "unprotected", "verification_failed"}
  <1>1. ASSUME UNCHANGED <<answer, stored, status>>
        PROVE  Decisions' \subseteq Decisions
    BY <1>1
  <1>2. ASSUME NEW w \in Worker, NEW s, UNCHANGED <<answer, stored>>,
               status' = [status EXCEPT ![w] = s]
        PROVE  Decisions' \subseteq Decisions \cup {s}
    BY <1>2
  <1>3. ASSUME NEW w \in Worker, Place(w) \/ Recover(w)
        PROVE  Decisions' \subseteq Decisions
    BY <1>1, <1>3 DEF Place, Recover, AfterResponse, Go
  <1>4. ASSUME NEW w \in Worker, Replay(w)
        PROVE  Decisions' \subseteq Decisions
    BY <1>2, <1>4 DEF Replay, Decide
  <1>5. ASSUME NEW w \in Worker, Refuse(w) \/ QueryFails(w) \/ RemediateFails(w)
        PROVE  Decisions' \subseteq Decisions \cup Dull
    BY <1>2, <1>5 DEF Refuse, QueryFails, RemediateFails, Decide
  <1>6. ASSUME NEW w \in Worker, RemediateLost(w) \/ LoseReport(w) \/ Lose(w)
        PROVE  Decisions' \subseteq Decisions \cup Dull
    BY <1>2, <1>6 DEF RemediateLost, LoseReport, Lose, Finish
  <1>7. ASSUME NEW w \in Worker, Store(w)
        PROVE  Decisions' \subseteq Decisions
    BY <1>7 DEF Store, Go
  <1>8. ASSUME NEW w \in Worker, Report(w)
        PROVE  Decisions' \subseteq Decisions \cup Dull
    BY <1>8 DEF Report, Finish
  <1>9. ASSUME NEW w \in Worker, QueryPending(w)
        PROVE  \/ Decisions' \subseteq Decisions
               \/ attached = "live" /\ Decisions' \subseteq Decisions \cup {"protected"}
    BY <1>1, <1>2, <1>9 DEF QueryPending, Decide, Go
  <1>10. ASSUME NEW w \in Worker, QueryPosition(w)
         PROVE  \/ Decisions' \subseteq Decisions
                \/ /\ position = 0
                   /\ Decisions' \subseteq Decisions \cup {"pending_activation"}
    BY <1>1, <1>2, <1>10 DEF QueryPosition, Decide
  <1>11. ASSUME NEW w \in Worker, Remediate(w)
         PROVE  Decisions' \subseteq Decisions \cup {"protected_remediated"}
    BY <1>2, <1>11 DEF Remediate, Decide
  <1>12. ASSUME Broker \/ UNCHANGED vars \/ \E w \in Worker : EmptyLease(w)
         PROVE  Decisions' \subseteq Decisions
    BY <1>1, <1>12
    DEF Broker, Fill, EndOrder, Activate, Close, EmptyLease, vars, workerVars
  <1>13. QED
    BY <1>3, <1>4, <1>5, <1>6, <1>7, <1>8, <1>9, <1>10, <1>11, <1>12
    DEF Next, Handle, Fail

\* An attached stop that has been active stays so or is used up, standalone stops
\* are only added, and an entry the broker does not have is untouched.
LEMMA StopsStep ==
  ASSUME TypeOK, ClaimInv, [Next]_vars
  PROVE  /\ attached \in {"live", "used"} /\ order # "none" =>
              attached' \in {"live", "used"}
         /\ stopIds' >= stopIds
         /\ order' = "none" => order = "none" /\ filled' = 0 /\ attached' = "waiting"
  <1> USE DEF TypeOK, ClaimInv, brokerVars
  <1>1. CASE UNCHANGED brokerVars
    BY <1>1
  <1>2. ASSUME NEW w \in Worker, Place(w)
        PROVE  order = "none" /\ order' # "none" /\ UNCHANGED stopIds
    BY <1>2 DEF Place
  <1>3. ASSUME NEW w \in Worker, Recover(w)
        PROVE  UNCHANGED brokerVars
    BY <1>3 DEF Recover
  <1>4. ASSUME NEW w \in Worker, Remediate(w) \/ RemediateLost(w)
        PROVE  UNCHANGED <<order, filled, attached>> /\ stopIds' >= stopIds
    BY <1>4 DEF Remediate, RemediateLost, PlaceStop
  <1>5. CASE Fill \/ EndOrder \/ Activate \/ Close
    BY <1>5 DEF Fill, EndOrder, Activate, Close
  <1>6. QED
    BY <1>1, <1>2, <1>3, <1>4, <1>5
    DEF Next, Handle, Fail, Broker, vars, EmptyLease, Replay, Refuse, QueryPending,
        QueryPosition, QueryFails, RemediateFails, Store, Report, LoseReport, Lose

\* No step makes a claim that the broker's state does not back.
LEMMA ClaimStep ==
  ASSUME TypeOK, ClaimInv, [Next]_vars
  PROVE  ClaimInv'
  <1> USE DEF ClaimInv, ClaimsBacked
  <1>1. \A s \in Decisions : s = "protected" => order # "none"
    OBVIOUS
  <1>2. "protected" \in Decisions => attached' \in {"live", "used"}
    BY <1>1, StopsStep
  <1>3. "protected_remediated" \in Decisions => stopIds' > 0
    BY StopsStep, TypeStep DEF TypeOK
  <1>4. ASSUME NEW w \in Worker, QueryPending(w), attached = "live"
        PROVE  attached' = "live"
    BY <1>4 DEF QueryPending, brokerVars
  <1>5. ASSUME NEW w \in Worker, Remediate(w)
        PROVE  stopIds' > 0
    BY <1>5 DEF Remediate, PlaceStop
  <1>6. ClaimsBacked'
    BY <1>2, <1>3, <1>4, <1>5, DecisionsStep DEF None
  <1>7. QED
    BY <1>6, StopsStep

\* Claims of protection are backed by the broker, for any handlers that overlap,
\* are cut off or are repeated.
THEOREM ClaimsCorrect == Spec => []ClaimsBacked
  <1>1. Init => ClaimInv
    BY DEF Init, ClaimInv, ClaimsBacked, Decisions, None
  <1>2. TypeOK /\ ClaimInv /\ [Next]_vars => ClaimInv'
    BY ClaimStep
  <1>3. ClaimInv => ClaimsBacked
    BY DEF ClaimInv
  <1>4. QED
    BY <1>1, <1>2, <1>3, TypeCorrect, PTL DEF Spec

-------------------------------------------------------------------------------
\* The part of ExposureInv about the position and what handlers have read of it.
Settled ==
  /\ order = "none" =>
       /\ ~resting /\ stopIds = 0 /\ answer = None /\ stored = None
       /\ \A w \in Worker : pc[w] = "idle"
  /\ \A w \in Worker : pc[w] = "idle" => status[w] = None
  /\ ~resting =>
       /\ order # "open"
       /\ attached = "used" => position = 0
       /\ stopIds > 0 => position = 0 \/ stop = Magnitude(position)
       /\ \A w \in Worker : pc[w] = "remediate" => position \in {0, seen[w]}

\* Every step keeps it.
LEMMA SettledStep ==
  ASSUME TypeOK, ExposureInv, [Next]_vars
  PROVE  Settled'
  <1> USE DEF TypeOK, ExposureInv, ClaimInv, Settled, brokerVars, workerVars, None
  <1>1. ASSUME NEW w \in Worker, Place(w)
        PROVE  Settled'
    <2>1. order' # "none" /\ order' \in {"open", "ended"} /\ (order' = "open" => resting')
      BY <1>1 DEF Place
    <2>2. attached' # "used" /\ stopIds' = 0
      BY <1>1 DEF Place, AfterResponse
    <2>3. /\ pc' = [pc EXCEPT ![w] = IF pc'[w] = "positions" THEN "positions" ELSE "pending"]
          /\ UNCHANGED status
      BY <1>1 DEF Place, AfterResponse, Go
    <2>4. \A v \in Worker : pc'[v] # "remediate" /\ status'[v] = None
      BY <1>1, <2>3 DEF Place
    <2>5. QED
      BY <2>1, <2>2, <2>4
  <1>2. ASSUME NEW w \in Worker, Recover(w)
        PROVE  Settled'
    BY <1>2 DEF Recover, AfterResponse, Go
  <1>3. ASSUME NEW w \in Worker, Replay(w) \/ Refuse(w)
        PROVE  Settled'
    BY <1>3 DEF Replay, Refuse, Decide
  <1>4. ASSUME NEW w \in Worker, QueryPending(w) \/ QueryPosition(w) \/ QueryFails(w)
        PROVE  Settled'
    BY <1>4 DEF QueryPending, QueryPosition, QueryFails, Decide, Go
  <1>5. ASSUME NEW w \in Worker, Remediate(w) \/ RemediateLost(w)
        PROVE  Settled'
    <2>1. order # "none" /\ UNCHANGED <<order, filled, position, attached, resting>>
      BY <1>5 DEF Remediate, RemediateLost
    <2>2. stop' = Magnitude(seen[w]) /\ pc[w] = "remediate"
      BY <1>5 DEF Remediate, RemediateLost
    <2>3. ~resting => position' = 0 \/ stop' = Magnitude(position')
      BY <2>1, <2>2 DEF Magnitude
    <2>4. \A v \in Worker :
            /\ pc'[v] = "idle" => status'[v] = None
            /\ pc'[v] = "remediate" => pc[v] = "remediate"
      BY <1>5 DEF Remediate, RemediateLost, Decide, Finish
    <2>5. \A v \in Worker : pc'[v] = "remediate" => seen'[v] = seen[v]
      BY <1>5 DEF Remediate, RemediateLost, Decide, Finish
    <2>6. ~resting => \A v \in Worker : pc'[v] = "remediate" => position' \in {0, seen'[v]}
      BY <2>1, <2>4, <2>5
    <2>7. order' # "none" /\ (~resting => order' # "open")
      BY <2>1
    <2>8. ~resting => (attached' = "used" => position' = 0)
      BY <2>1
    <2>9. ~resting' => ~resting
      BY <2>1
    <2>10. QED
      BY <2>3, <2>4, <2>6, <2>7, <2>8, <2>9
  <1>6. ASSUME NEW w \in Worker, RemediateFails(w) \/ Store(w)
        PROVE  Settled'
    BY <1>6 DEF RemediateFails, Store, Decide, Go
  <1>7. ASSUME NEW w \in Worker, Report(w) \/ LoseReport(w) \/ Lose(w)
        PROVE  Settled'
    BY <1>7 DEF Report, LoseReport, Lose, Finish
  <1>8. CASE Fill \/ EndOrder \/ Activate
    BY <1>8 DEF Fill, EndOrder, Activate
  <1>9. CASE Close
    BY <1>9 DEF Close
  <1>10. CASE UNCHANGED vars \/ \E w \in Worker : EmptyLease(w)
    BY <1>10 DEF EmptyLease, vars
  <1>11. QED
    BY <1>1, <1>2, <1>3, <1>4, <1>5, <1>6, <1>7, <1>8, <1>9, <1>10
    DEF Next, Handle, Fail, Broker

\* Once the entry has ended, a position that is closed stays closed.
LEMMA ClosedStays ==
  ASSUME TypeOK, ExposureInv, [Next]_vars, order # "none", ~resting, position = 0
  PROVE  position' = 0
  BY DEF ExposureInv, Next, Handle, Fail, Broker, Place, Recover, Replay, Refuse,
         QueryPending, QueryPosition, QueryFails, Remediate, RemediateFails,
         RemediateLost, Store, Report, LoseReport, Lose, Fill, EndOrder, Activate, Close,
         EmptyLease, vars, brokerVars

\* Only a placement decides whether the entry rests, and no handler has taken a
\* decision before it.
LEMMA RestingStep ==
  ASSUME TypeOK, ExposureInv, [Next]_vars
  PROVE  \/ resting' = resting /\ (order = "none" => order' = "none")
         \/ Decisions' \subseteq {None}
  <1> USE DEF ExposureInv, brokerVars
  <1>1. ASSUME NEW w \in Worker, Place(w)
        PROVE  Decisions' \subseteq {None}
    BY <1>1 DEF Place, AfterResponse, Go, Decisions
  <1>2. QED
    BY <1>1
    DEF Next, Handle, Fail, Broker, Recover, Replay, Refuse, QueryPending, QueryPosition,
        QueryFails, Remediate, RemediateFails, RemediateLost, Store, Report, LoseReport,
        Lose, Fill, EndOrder, Activate, Close, EmptyLease, vars

\* A decision that relies on a closed position is taken when it is closed, and
\* every other part of ExposureInv is kept too.
LEMMA ExposureStep ==
  ASSUME TypeOK, ExposureInv, [Next]_vars
  PROVE  ExposureInv'
  <1>1. ClaimInv' /\ Settled'
    BY ClaimStep, SettledStep DEF ExposureInv
  <1>2. ASSUME ~resting', "pending_activation" \in Decisions'
        PROVE  position' = 0
    <2>1. ~resting /\ (order = "none" => order' = "none")
      BY <1>2, RestingStep DEF None
    <2>2. order # "none"
      <3>1. order' = "none" => Decisions' \subseteq {None}
        BY <1>1 DEF Settled, Decisions
      <3>2. QED
        BY <1>2, <2>1, <3>1 DEF None
    <2>3. CASE "pending_activation" \in Decisions
      BY <2>1, <2>2, <2>3, ClosedStays DEF ExposureInv
    <2>4. CASE "pending_activation" \notin Decisions
      <3>1. position = 0
        BY <1>2, <2>4, DecisionsStep DEF None
      <3>2. QED
        BY <2>1, <2>2, <3>1, ClosedStays
    <2>5. QED
      BY <2>3, <2>4
  <1>3. QED
    BY <1>1, <1>2 DEF ExposureInv, Settled

\* An exposed position is reported to YTM with a status that asks for action, for
\* any positions from elsewhere that were open before.
THEOREM ExposureCorrect == Spec => []ExposureReported
  <1>1. Init => ExposureInv
    BY DEF Init, ExposureInv, ClaimInv, ClaimsBacked, Decisions, None
  <1>2. TypeOK /\ ExposureInv /\ [Next]_vars => ExposureInv'
    BY ExposureStep
  <1>3. ASSUME TypeOK, ExposureInv, answer \in ProtectionStatuses, ~resting, ~Covered
        PROVE  answer \in Flags
    <2>1. answer \in Decisions
      BY DEF Decisions
    <2>2. answer # "pending_activation"
      BY <1>3, <2>1 DEF ExposureInv, Covered
    <2>3. answer # "protected"
      BY <1>3, <2>1 DEF ExposureInv, ClaimInv, ClaimsBacked, Covered
    <2>4. answer # "protected_remediated"
      <3>1. answer = "protected_remediated" => position = 0 \/ stop = Magnitude(position)
        BY <1>3, <2>1 DEF ExposureInv, ClaimInv, ClaimsBacked
      <3>2. QED
        BY <1>3, <3>1 DEF Covered, TypeOK
    <2>5. QED
      BY <1>3, <2>2, <2>3, <2>4 DEF ProtectionStatuses, Flags
  <1>4. QED
    BY <1>1, <1>2, <1>3, TypeCorrect, PTL DEF Spec, ExposureReported

===============================================================================
