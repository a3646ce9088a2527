------------------------------ MODULE Protection ------------------------------
(***************************************************************************)
(* The protection of a real OKX entry: what is done after place_order, or  *)
(* after the lookup that found the order of an earlier attempt.            *)
(*                                                                         *)
(* One command, whose long entry carries an attached stop loss and take    *)
(* profit.  A handler verifies it in separate calls to the broker, which   *)
(* fills orders, activates attached stops and closes positions meanwhile.  *)
(* Handlers repeat when a lease expires, so that two processes may be in   *)
(* the middle of the same command.  Sizes are lots; positions are net, one *)
(* per instrument, negative when short.                                    *)
(***************************************************************************)
EXTENDS Integers

CONSTANTS
  Worker,      \* processes that handle the command
  Size,        \* size of the entry
  Others,      \* positions that may already be open on the instrument
  Fault,       \* the kinds of fault that may occur, a subset of Faults
  MaxFaults    \* bound on the number of faults

\* "query"   a query answers with an error, a ValueError
\* "lost"    another exception, or a crash: the handler leaves no decision
\* "report"  the result never reaches YTM
\* "gate"    a gate that passed before refuses the command when it is repeated
Faults == {"query", "lost", "report", "gate"}

ASSUME SizeAssumption == Size \in Nat \ {0}
ASSUME OthersAssumption == Others \subseteq Int
ASSUME FaultAssumption == Fault \subseteq Faults
ASSUME BoundAssumption == MaxFaults \in Nat

None == "none"

\* What an acknowledgement says of the protection.
ProtectionStatuses == {"protected", "protected_remediated", "pending_activation",
                       "unprotected", "verification_failed"}

\* The statuses that ask the operator to act.
Flags == {"unprotected", "verification_failed"}

Answers == ProtectionStatuses \cup {"rejected", None}

VARIABLES
  \* the broker
  order,     \* "none" before the entry is accepted, "open" while it may fill
             \* and "ended"
  filled,    \* lots of the entry that have been filled
  position,  \* the net position on the instrument
  attached,  \* the attached stop: "waiting" for a fill, "refused", "live", "used"
  stop,      \* lots of the standalone stop that is live
  stopIds,   \* number of standalone stops accepted under its client order id
  \* the executor
  stored,    \* the protection status in the execution store
  pc, seen, status,  \* of each handler: step, position it has read, decision
  \* YTM Cloud
  answer,    \* the first result recorded for the command
  faults,
  resting    \* history: the entry could still fill when place_order returned

brokerVars == <<order, filled, position, attached, stop, stopIds>>
workerVars == <<pc, seen, status>>
vars == <<brokerVars, stored, workerVars, answer, faults, resting>>

Steps == {"idle", "pending", "positions", "remediate", "store", "report"}

Init ==
  /\ order = "none"
  /\ filled = 0
  /\ position \in Others
  /\ attached = "waiting"
  /\ stop = 0
  /\ stopIds = 0
  /\ stored = None
  /\ pc = [w \in Worker |-> "idle"]
  /\ seen = [w \in Worker |-> 0]
  /\ status = [w \in Worker |-> None]
  /\ answer = None
  /\ faults = 0
  /\ resting = FALSE

Faulty(kind) ==
  /\ kind \in Fault
  /\ faults < MaxFaults
  /\ faults' = faults + 1

Go(w, step) ==
  /\ pc' = [pc EXCEPT ![w] = step]
  /\ UNCHANGED <<seen, status>>

Decide(w, s, step) ==
  /\ pc' = [pc EXCEPT ![w] = step]
  /\ status' = [status EXCEPT ![w] = s]
  /\ UNCHANGED seen

Finish(w) ==
  /\ pc' = [pc EXCEPT ![w] = "idle"]
  /\ seen' = [seen EXCEPT ![w] = 0]
  /\ status' = [status EXCEPT ![w] = None]

-------------------------------------------------------------------------------
(* Reaching the verification.                                              *)

\* The refusal of an attached stop is in the response's attachAlgoOrds, or the
\* response does not speak of it.
AfterResponse(w) ==
  \/ attached' = "refused" /\ Go(w, "positions")
  \/ Go(w, "pending")

\* The broker accepts the entry and its attachment, or refuses the attachment
\* alone.  An IOC entry, or a limit entry that fills at once, has ended when the
\* call returns; any other entry rests and may fill later.
Place(w) ==
  /\ pc[w] = "idle"
  /\ answer = None /\ stored = None /\ order = "none"
  /\ attached' \in {"waiting", "refused"}
  /\ order' \in {"open", "ended"}
  /\ resting' = (order' = "open")
  /\ \E n \in 0..Size :
       /\ filled' = n
       /\ position' = position + n
  /\ AfterResponse(w)
  /\ UNCHANGED <<stop, stopIds, stored, answer, faults>>

\* The command again: the lookup by client order id finds the entry.
Recover(w) ==
  /\ pc[w] = "idle"
  /\ answer = None /\ stored = None /\ order # "none"
  /\ UNCHANGED attached
  /\ AfterResponse(w)
  /\ UNCHANGED <<order, filled, position, stop, stopIds, stored, answer, faults, resting>>

\* The command again: its result is in the store and is only reported.
Replay(w) ==
  /\ pc[w] = "idle"
  /\ answer = None /\ stored # None
  /\ Decide(w, stored, "report")
  /\ UNCHANGED <<brokerVars, stored, answer, faults, resting>>

\* The command again: it is rejected before the lookup.
Refuse(w) ==
  /\ pc[w] = "idle"
  /\ answer = None /\ stored = None /\ order # "none"
  /\ Faulty("gate")
  /\ Decide(w, "rejected", "report")
  /\ UNCHANGED <<brokerVars, stored, answer, resting>>

\* YTM does not lease an answered command again.
EmptyLease(w) ==
  /\ pc[w] = "idle"
  /\ answer # None
  /\ UNCHANGED vars

-------------------------------------------------------------------------------
(* Verification and remediation.                                           *)

\* The pending algo orders of each type: only the attached stop matches.  The
\* standalone one has another client order id and no linked order.
QueryPending(w) ==
  /\ pc[w] = "pending"
  /\ IF attached = "live" THEN Decide(w, "protected", "store")
                          ELSE Go(w, "positions")
  /\ UNCHANGED <<brokerVars, stored, answer, faults, resting>>

\* Mutation of QueryPosition: an open position is taken for a sign that the
\* attached stop will become active.
QueryPositionTrusts(w) ==
  /\ pc[w] = "positions"
  /\ Decide(w, "pending_activation", "store")
  /\ UNCHANGED <<brokerVars, stored, answer, faults, resting>>

\* The first open position of the instrument, whichever order opened it.
QueryPosition(w) ==
  /\ pc[w] = "positions"
  /\ IF position = 0 THEN Decide(w, "pending_activation", "store")
     ELSE /\ pc' = [pc EXCEPT ![w] = "remediate"]
          /\ seen' = [seen EXCEPT ![w] = position]
          /\ UNCHANGED status
  /\ UNCHANGED <<brokerVars, stored, answer, faults, resting>>

QueryFails(w) ==
  /\ pc[w] \in {"pending", "positions"}
  /\ Faulty("query")
  /\ Decide(w, "verification_failed", "store")
  /\ UNCHANGED <<brokerVars, stored, answer, resting>>

\* The broker accepts one standalone stop under the client order id that the
\* executor derives from the entry's two ids.
PlaceStop ==
  /\ stopIds = 0
  /\ stopIds' = stopIds + 1

Magnitude(n) == IF n < 0 THEN -n ELSE n

\* place_algo_order with the size of the position that was read, on the side
\* that closes it.
Remediate(w) ==
  /\ pc[w] = "remediate"
  /\ PlaceStop
  /\ stop' = Magnitude(seen[w])
  /\ Decide(w, "protected_remediated", "store")
  /\ UNCHANGED <<order, filled, position, attached, stored, answer, faults, resting>>

\* Mutations of RemediateFails: the response's codes are not looked at; the
\* decision is not filled in.
RemediateFailsUnchecked(w) ==
  /\ pc[w] = "remediate"
  /\ Decide(w, "protected_remediated", "store")
  /\ UNCHANGED <<brokerVars, stored, answer, faults, resting>>

RemediateFailsSilent(w) ==
  /\ pc[w] = "remediate"
  /\ Go(w, "store")
  /\ UNCHANGED <<brokerVars, stored, answer, faults, resting>>

\* The broker refuses the stop; or it accepts it and the response is not usable.
RemediateFails(w) ==
  /\ pc[w] = "remediate"
  /\ Decide(w, "unprotected", "store")
  /\ UNCHANGED <<brokerVars, stored, answer, faults, resting>>

\* The stop is accepted and the handler ends without a decision.
RemediateLost(w) ==
  /\ pc[w] = "remediate"
  /\ Faulty("lost")
  /\ PlaceStop
  /\ stop' = Magnitude(seen[w])
  /\ Finish(w)
  /\ UNCHANGED <<order, filled, position, attached, stored, answer, resting>>

-------------------------------------------------------------------------------
(* The rest of the handler; CommandExecution has it in detail.             *)

Store(w) ==
  /\ pc[w] = "store"
  /\ stored' = status[w]
  /\ Go(w, "report")
  /\ UNCHANGED <<brokerVars, answer, faults, resting>>

Report(w) ==
  /\ pc[w] = "report"
  /\ answer' = IF answer = None THEN status[w] ELSE answer
  /\ Finish(w)
  /\ UNCHANGED <<brokerVars, stored, faults, resting>>

LoseReport(w) ==
  /\ pc[w] = "report"
  /\ Faulty("report")
  /\ Finish(w)
  /\ UNCHANGED <<brokerVars, stored, answer, resting>>

\* An exception that is not a ValueError, or the death of the process.
Lose(w) ==
  /\ pc[w] # "idle"
  /\ Faulty("lost")
  /\ Finish(w)
  /\ UNCHANGED <<brokerVars, stored, answer, resting>>

-------------------------------------------------------------------------------
(* The broker.                                                             *)

Fill ==
  /\ order = "open" /\ filled < Size
  /\ filled' = filled + 1
  /\ position' = position + 1
  /\ UNCHANGED <<order, attached, stop, stopIds, stored, workerVars, answer, faults, resting>>

EndOrder ==
  /\ order = "open"
  /\ order' = "ended"
  /\ UNCHANGED <<filled, position, attached, stop, stopIds, stored, workerVars,
                 answer, faults, resting>>

\* Some time after a fill the attached stop becomes active.
Activate ==
  /\ attached = "waiting" /\ filled > 0
  /\ attached' = "live"
  /\ UNCHANGED <<order, filled, position, stop, stopIds, stored, workerVars,
                 answer, faults, resting>>

\* A stop that triggers, or the operator, closes the position; the stops that
\* were live for it are used up.
Close ==
  /\ position # 0
  /\ position' = 0
  /\ attached' = IF attached = "live" THEN "used" ELSE attached
  /\ stop' = 0
  /\ UNCHANGED <<order, filled, stopIds, stored, workerVars, answer, faults, resting>>

Handle(w) ==
  \/ Place(w) \/ Recover(w) \/ Replay(w)
  \/ QueryPending(w) \/ QueryPosition(w)
  \/ Remediate(w) \/ RemediateFails(w)
  \/ Store(w) \/ Report(w)

Fail(w) ==
  Refuse(w) \/ QueryFails(w) \/ RemediateLost(w) \/ LoseReport(w) \/ Lose(w)

Broker == Fill \/ EndOrder \/ Activate \/ Close

Next == (\E w \in Worker : EmptyLease(w) \/ Handle(w) \/ Fail(w)) \/ Broker

Spec == Init /\ [][Next]_vars

\* A worker keeps leasing the command until it is answered, and its calls end.
FairSpec == Spec /\ \A w \in Worker : WF_vars(Handle(w))

-------------------------------------------------------------------------------
(* Properties.                                                             *)

\* Types of the variables; a handler that stores or reports has a decision, one
\* that remediates has seen a position.
TypeOK ==
  /\ order \in {"none", "open", "ended"}
  /\ filled \in 0..Size
  /\ position \in Int
  /\ attached \in {"waiting", "refused", "live", "used"}
  /\ stop \in Nat /\ stopIds \in Nat
  /\ stored \in Answers
  /\ pc \in [Worker -> Steps]
  /\ seen \in [Worker -> Int]
  /\ status \in [Worker -> Answers]
  /\ answer \in Answers
  /\ faults \in 0..MaxFaults
  /\ resting \in BOOLEAN
  /\ \A w \in Worker : pc[w] \in {"store", "report"} => status[w] # None
  /\ \A w \in Worker : pc[w] = "remediate" => seen[w] # 0

\* The handlers' decisions, stored and reported ones included.
Decisions == {answer, stored} \cup {status[w] : w \in Worker}

\* A stop that covers the open position is live.
Covered == position = 0 \/ attached = "live" \/ stop >= Magnitude(position)

\* What is claimed of a stop has been true: wherever handlers were cut off,
\* repeated or refused, "protected" is decided, stored or reported only if the
\* attached stop has become active, and "protected_remediated" only if the broker
\* has accepted a standalone one.
ClaimsBacked ==
  \A s \in Decisions :
    /\ s = "protected" => attached \in {"live", "used"}
    /\ s = "protected_remediated" => stopIds > 0

\* The inductive strengthening of ClaimsBacked: an entry that the broker does not
\* have has no fill and no attachment that could become active.
ClaimInv ==
  /\ ClaimsBacked
  /\ order = "none" => filled = 0 /\ attached = "waiting"

\* Unless the entry was still resting when it was placed, an open position that
\* no stop covers has been reported with a status that asks for action
\* (docs/PROTOCOL.md: protection that is missing while a position is open is
\* reported as unprotected), or the command was rejected when it was repeated.
ExposureReported ==
  answer \in ProtectionStatuses /\ ~resting /\ ~Covered => answer \in Flags

\* The inductive strengthening of ExposureReported.  Before the entry there is
\* nothing to handle; once it has ended the position can only be closed, so that
\* what a handler has read of it, and any stop placed on that strength, still
\* covers what is left.
ExposureInv ==
  /\ ClaimInv
  /\ order = "none" =>
       /\ ~resting /\ stopIds = 0 /\ answer = None /\ stored = None
       /\ \A w \in Worker : pc[w] = "idle"
  /\ \A w \in Worker : pc[w] = "idle" => status[w] = None
  /\ ~resting =>
       /\ order # "open"
       /\ attached = "used" => position = 0
       /\ stopIds > 0 => position = 0 \/ stop = Magnitude(position)
       /\ \A w \in Worker : pc[w] = "remediate" => position \in {0, seen[w]}
       /\ "pending_activation" \in Decisions => position = 0

\* Such a position does not stay unreported, whatever is lost on the way.
ExposureSettled ==
  <>[](resting \/ Covered \/ answer \in Flags \cup {"rejected"})

===============================================================================
