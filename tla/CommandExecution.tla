--------------------------- MODULE CommandExecution ---------------------------
(***************************************************************************)
(* How leased commands become broker orders and recorded results.          *)
(*                                                                         *)
(* A worker is a process that leases commands and handles them one at a    *)
(* time: the lease loop of `ytm-executor run`, or a `run --once` that an   *)
(* operator starts beside it.  Workers share the policy file and the       *)
(* execution store; nothing locks either.  YTM Cloud (leases and recorded  *)
(* results) and the broker (orders keyed by client order id) are external. *)
(* A worker step ends at a network call or a file access, so other         *)
(* workers, the operator, YTM and the broker may act between two steps.    *)
(***************************************************************************)
EXTENDS Naturals, JsonFile

CONSTANTS
  Command,        \* command ids
  Kind,           \* [Command -> Kinds]: execution mode and requested adapter
  Worker,         \* processes that lease commands
  Enabled,        \* workers started with --enable-real-orders
  BrokerDedups,   \* does the broker refuse a client order id it has seen?
  Fault,          \* the kinds of fault that may occur, a subset of Faults
  MaxFaults,      \* bound on the number of faults
  MaxEdits        \* bound on the number of policy rewrites

\* "paper": external_paper; the others are real: a validate-only adapter, the
\* placing adapter okx_swap_mainnet_order, or no adapter allowed for real.
Kinds == {"paper", "validate", "place", "unsupported"}

\* "lease"     the lease response is lost after YTM granted the lease
\* "transport" a broker call raises an exception that is not a ValueError
\* "lookup"    get_order answers with an error although the order exists
\* "response"  place_order is accepted, but its response is not usable
\* "delay"     place_order times out here and reaches the broker later
\* "report"    the result never reaches YTM
\* "crash"     a worker dies, but not while it rewrites the execution store
\* "tear"      a worker dies between truncating and writing that store
\* "abort"     the policy rewrite dies between truncating and writing
Faults == {"lease", "transport", "lookup", "response", "delay", "report",
           "crash", "tear", "abort"}

ASSUME KindAssumption == Kind \in [Command -> Kinds]
ASSUME EnabledAssumption == Enabled \subseteq Worker
ASSUME BrokerAssumption == BrokerDedups \in BOOLEAN
ASSUME FaultAssumption == Fault \subseteq Faults
ASSUME BoundAssumption == MaxFaults \in Nat /\ MaxEdits \in Nat

None == "none"   \* no command, no decision, no answer, no edit

\* Policies by what they permit: "open" permits real and paper commands,
\* "paper_only" only paper ones; "closed" is missing, disabled or kill-switched.
Policies == {"open", "paper_only", "closed"}

Statuses == {"acknowledged", "rejected"}

Steps == {"idle", "cache", "policy", "final", "prepare", "lookup", "place",
          "verify", "put", "truncate", "write", "report"}

\* The steps that follow a decision.
Deciding == {"put", "truncate", "write", "report"}

VARIABLES
  \* YTM Cloud
  leased,     \* commands with a lease that has not expired
  answer,     \* the result YTM has recorded for each command
  \* the broker
  orders,     \* number of orders accepted under each command's client order id
  inflight,   \* place_order requests given up here and still under way
  \* files on the executor's host
  policy,     \* risk-policy.json
  edit,       \* the policy a rewrite that has truncated the file will write
  store,      \* executions.json: the commands with a stored acknowledgement
  \* workers
  pc,         \* the next step of each worker
  cmd,        \* the command each worker handles
  decision,   \* its preflight decision
  snapshot,   \* the records LocalExecutionStore.put has read
  \* bounds and history
  faults, edits,
  blocked,    \* workers for which the policy has forbidden real orders without
              \* a break since before they reloaded it
  recorded    \* commands whose put has completed

ytmVars     == <<leased, answer>>
brokerVars  == <<orders, inflight>>
policyVars  == <<policy, edit, edits>>
workerVars  == <<pc, cmd, decision, snapshot>>
historyVars == <<blocked, recorded>>
vars == <<ytmVars, brokerVars, policyVars, store, workerVars, faults, historyVars>>

-------------------------------------------------------------------------------
Init ==
  /\ leased = {}
  /\ answer = [c \in Command |-> None]
  /\ orders = [c \in Command |-> 0]
  /\ inflight = {}
  /\ policy \in {Intact(p) : p \in Policies}
  /\ edit = None
  /\ store = Intact({})
  /\ pc = [w \in Worker |-> "idle"]
  /\ cmd = [w \in Worker |-> None]
  /\ decision = [w \in Worker |-> None]
  /\ snapshot = [w \in Worker |-> {}]
  /\ faults = 0
  /\ edits = 0
  /\ blocked = {}
  /\ recorded = {}

Faulty(kind) ==
  /\ kind \in Fault
  /\ faults < MaxFaults
  /\ faults' = faults + 1

Go(w, step) ==
  /\ pc' = [pc EXCEPT ![w] = step]
  /\ UNCHANGED <<cmd, decision, snapshot>>

Decide(w, status, step) ==
  /\ pc' = [pc EXCEPT ![w] = step]
  /\ decision' = [decision EXCEPT ![w] = status]
  /\ UNCHANGED <<cmd, snapshot>>

\* The handler ends here: it returned, or an exception reached the loop of
\* `run` (which prints it, waits and leases again), or the process died.
Finish(w) ==
  /\ pc' = [pc EXCEPT ![w] = "idle"]
  /\ cmd' = [cmd EXCEPT ![w] = None]
  /\ decision' = [decision EXCEPT ![w] = None]
  /\ snapshot' = [snapshot EXCEPT ![w] = {}]

-------------------------------------------------------------------------------
(* Leasing.                                                                *)

Leasable(c) == c \notin leased /\ answer[c] = None

Permits(p, c) == p = "open" \/ (p = "paper_only" /\ Kind[c] = "paper")

\* The policy file as it stands forbids real orders.
ForbidsReal == ~Readable(policy) \/ policy.value # "open"

Lease(w, c) ==
  /\ pc[w] = "idle"
  /\ Leasable(c)
  /\ leased' = leased \cup {c}
  /\ pc' = [pc EXCEPT ![w] = "cache"]
  /\ cmd' = [cmd EXCEPT ![w] = c]
  /\ blocked' = IF ForbidsReal THEN blocked \cup {w} ELSE blocked \ {w}
  /\ UNCHANGED <<answer, brokerVars, policyVars, store, decision, snapshot,
                 faults, recorded>>

LoseLease(w, c) ==
  /\ pc[w] = "idle"
  /\ Leasable(c)
  /\ Faulty("lease")
  /\ leased' = leased \cup {c}
  /\ UNCHANGED <<answer, brokerVars, policyVars, store, workerVars, historyVars>>

\* item: null, and the loop polls again.
EmptyLease(w) ==
  /\ pc[w] = "idle"
  /\ \A c \in Command : ~Leasable(c)
  /\ UNCHANGED vars

ExpireLease(c) ==
  /\ c \in leased
  /\ leased' = leased \ {c}
  /\ UNCHANGED <<answer, brokerVars, policyVars, store, workerVars, faults,
                 historyVars>>

-------------------------------------------------------------------------------
(* Preflight: the gates before any broker call.                            *)

\* Mutation of CheckCache: the cache is read, but its record is ignored.
CheckCacheIgnored(w) ==
  /\ pc[w] = "cache"
  /\ IF Readable(store) THEN Go(w, "policy") ELSE Finish(w)
  /\ UNCHANGED <<ytmVars, brokerVars, policyVars, store, faults, historyVars>>

\* A command whose acknowledgement is stored is answered from the store.  An
\* unreadable store raises out of the handler and nothing is reported.
CheckCache(w) ==
  /\ pc[w] = "cache"
  /\ IF ~Readable(store) THEN Finish(w)
     ELSE IF cmd[w] \in store.value THEN Decide(w, "acknowledged", "report")
     ELSE Go(w, "policy")
  /\ UNCHANGED <<ytmVars, brokerVars, policyVars, store, faults, historyVars>>

\* The gates on the leased command that the policy does not decide: the mode
\* and adapter that preflight lets through, and --enable-real-orders.
AdapterAllowed(w) ==
  /\ Kind[cmd[w]] # "unsupported"
  /\ Kind[cmd[w]] = "place" => w \in Enabled

\* read_risk_policy and the local gates, all pure after the read.  A policy
\* that does not parse raises out of the handler.  Rejecting is always possible:
\* the credential, its validation, the drawdown state and the order request are
\* gates too.
CheckPolicy(w) ==
  /\ pc[w] = "policy"
  /\ \/ ~Readable(policy) /\ Finish(w)
     \/ Readable(policy) /\ Decide(w, "rejected", "report")
     \/ /\ Readable(policy)
        /\ Permits(policy.value, cmd[w])
        /\ AdapterAllowed(w)
        /\ Go(w, IF Kind[cmd[w]] = "place" THEN "final" ELSE "prepare")
  /\ UNCHANGED <<ytmVars, brokerVars, policyVars, store, faults, historyVars>>

\* Mutations of ReloadPolicy: the reload is dropped; its rejection is not built.
ReloadPolicyDropped(w) ==
  /\ pc[w] = "final"
  /\ Go(w, "prepare")
  /\ UNCHANGED <<ytmVars, brokerVars, policyVars, store, faults, historyVars>>

ReloadPolicySilent(w) ==
  /\ pc[w] = "final"
  /\ Go(w, IF Readable(policy) /\ Permits(policy.value, cmd[w])
           THEN "prepare" ELSE "report")
  /\ UNCHANGED <<ytmVars, brokerVars, policyVars, store, faults, historyVars>>

\* The placing adapter's policy reload.  Here a policy that does not parse is a
\* rejection.  The drawdown state and the clock are not read again, so nothing
\* else can change the first evaluation's answer.
ReloadPolicy(w) ==
  /\ pc[w] = "final"
  /\ IF Readable(policy) /\ Permits(policy.value, cmd[w])
     THEN Go(w, "prepare")
     ELSE Decide(w, "rejected", "report")
  /\ UNCHANGED <<ytmVars, brokerVars, policyVars, store, faults, historyVars>>

-------------------------------------------------------------------------------
(* The adapter: broker calls.                                              *)

\* Mutation of Prepare: the placing adapter acknowledges after the precheck.
PrepareAcknowledges(w) ==
  /\ pc[w] = "prepare"
  /\ \E d \in Statuses : Decide(w, d, "report")
  /\ UNCHANGED <<ytmVars, brokerVars, policyVars, store, faults, historyVars>>

\* Account configuration, instrument rules, leverage, normalisation, precheck.
\* A ValueError among them rejects the command.  Without an adapter to place
\* with, the decision follows at once.
Prepare(w) ==
  /\ pc[w] = "prepare"
  /\ \/ Decide(w, "rejected", "report")
     \/ Kind[cmd[w]] = "paper" /\ Decide(w, "acknowledged", "report")
     \/ Kind[cmd[w]] = "place" /\ Go(w, "lookup")
  /\ UNCHANGED <<ytmVars, brokerVars, policyVars, store, faults, historyVars>>

\* Mutation of Lookup: the order found is not used.
LookupUnused(w) ==
  /\ pc[w] = "lookup"
  /\ Go(w, "place")
  /\ UNCHANGED <<ytmVars, brokerVars, policyVars, store, faults, historyVars>>

\* get_order by clOrdId: an order already there is taken for this command's.
Lookup(w) ==
  /\ pc[w] = "lookup"
  /\ Go(w, IF orders[cmd[w]] > 0 THEN "verify" ELSE "place")
  /\ UNCHANGED <<ytmVars, brokerVars, policyVars, store, faults, historyVars>>

\* The lookup swallows a ValueError and answers "no such order".
MisreadLookup(w) ==
  /\ pc[w] = "lookup"
  /\ Faulty("lookup")
  /\ Go(w, "place")
  /\ UNCHANGED <<ytmVars, brokerVars, policyVars, store, historyVars>>

BrokerAccepts(c) == BrokerDedups => orders[c] = 0

Accept(c) == orders' = [orders EXCEPT ![c] = @ + 1]

PlaceAccepted(w) ==
  /\ pc[w] = "place"
  /\ BrokerAccepts(cmd[w])
  /\ Accept(cmd[w])
  /\ Go(w, "verify")
  /\ UNCHANGED <<ytmVars, inflight, policyVars, store, faults, historyVars>>

\* Mutation of PlaceRefused: the response's codes are not looked at.
PlaceRefusedUnchecked(w) ==
  /\ pc[w] = "place"
  /\ Go(w, "verify")
  /\ UNCHANGED <<ytmVars, brokerVars, policyVars, store, faults, historyVars>>

\* The broker refuses: a business rule, or a client order id it has seen.
PlaceRefused(w) ==
  /\ pc[w] = "place"
  /\ Decide(w, "rejected", "report")
  /\ UNCHANGED <<ytmVars, brokerVars, policyVars, store, faults, historyVars>>

\* Accepted, but the response has another code, does not decode or lacks ordId:
\* a ValueError, hence a rejection.
PlaceMisread(w) ==
  /\ pc[w] = "place"
  /\ BrokerAccepts(cmd[w])
  /\ Faulty("response")
  /\ Accept(cmd[w])
  /\ Decide(w, "rejected", "report")
  /\ UNCHANGED <<ytmVars, inflight, policyVars, store, historyVars>>

PlaceDelayed(w) ==
  /\ pc[w] = "place"
  /\ Faulty("delay")
  /\ inflight' = inflight \cup {cmd[w]}
  /\ Finish(w)
  /\ UNCHANGED <<ytmVars, orders, policyVars, store, historyVars>>

BrokerReceives(c) ==
  /\ c \in inflight
  /\ inflight' = inflight \ {c}
  /\ IF BrokerAccepts(c) THEN Accept(c) ELSE UNCHANGED orders
  /\ UNCHANGED <<ytmVars, policyVars, store, workerVars, faults, historyVars>>

\* Protection is verified or remediated; a ValueError there is folded into the
\* payload, so the decision is an acknowledgement either way.
VerifyProtection(w) ==
  /\ pc[w] = "verify"
  /\ Decide(w, "acknowledged", "put")
  /\ UNCHANGED <<ytmVars, brokerVars, policyVars, store, faults, historyVars>>

\* Mutation of TransportError: the loop does not catch it and the process stays
\* down.
TransportErrorExits(w) ==
  /\ pc[w] \in {"prepare", "lookup", "place", "verify"}
  /\ Faulty("transport")
  /\ Go(w, "exited")
  /\ UNCHANGED <<ytmVars, brokerVars, policyVars, store, historyVars>>

\* Any other exception of a broker call leaves the handler without a decision.
TransportError(w) ==
  /\ pc[w] \in {"prepare", "lookup", "place", "verify"}
  /\ Faulty("transport")
  /\ Finish(w)
  /\ UNCHANGED <<ytmVars, brokerVars, policyVars, store, historyVars>>

-------------------------------------------------------------------------------
(* Storing and reporting.                                                  *)

\* Mutation of PutRead: put writes its own record only.
PutReadForgets(w) ==
  /\ pc[w] = "put"
  /\ pc' = [pc EXCEPT ![w] = "truncate"]
  /\ snapshot' = [snapshot EXCEPT ![w] = {cmd[w]}]
  /\ UNCHANGED <<cmd, decision>>
  /\ UNCHANGED <<ytmVars, brokerVars, policyVars, store, faults, historyVars>>

\* put reads the whole file and adds its record.  An unreadable file raises:
\* the order is placed, but nothing is stored or reported.
PutRead(w) ==
  /\ pc[w] = "put"
  /\ IF Readable(store)
     THEN /\ pc' = [pc EXCEPT ![w] = "truncate"]
          /\ snapshot' = [snapshot EXCEPT ![w] = store.value \cup {cmd[w]}]
          /\ UNCHANGED <<cmd, decision>>
     ELSE Finish(w)
  /\ UNCHANGED <<ytmVars, brokerVars, policyVars, store, faults, historyVars>>

PutTruncate(w) ==
  /\ pc[w] = "truncate"
  /\ store' = Truncated({})
  /\ Go(w, "write")
  /\ UNCHANGED <<ytmVars, brokerVars, policyVars, faults, historyVars>>

PutWrite(w) ==
  /\ pc[w] = "write"
  /\ store' \in Written(store, snapshot[w], {})
  /\ recorded' = recorded \cup {cmd[w]}
  /\ Go(w, "report")
  /\ UNCHANGED <<ytmVars, brokerVars, policyVars, faults, blocked>>

\* Mutation of Report: a rejection that has been reported is tried again.
ReportRetries(w) ==
  /\ pc[w] = "report"
  /\ answer' = [answer EXCEPT ![cmd[w]] = IF @ = None THEN decision[w] ELSE @]
  /\ leased' = leased \ {cmd[w]}
  /\ IF decision[w] = "rejected" /\ Kind[cmd[w]] = "place"
     THEN Go(w, "lookup") ELSE Finish(w)
  /\ UNCHANGED <<brokerVars, policyVars, store, faults, historyVars>>

\* YTM keeps the first result it records for a command.  When the response to
\* this POST is lost the handler ends in the same way.
Report(w) ==
  /\ pc[w] = "report"
  /\ answer' = [answer EXCEPT ![cmd[w]] = IF @ = None THEN decision[w] ELSE @]
  /\ leased' = leased \ {cmd[w]}
  /\ Finish(w)
  /\ UNCHANGED <<brokerVars, policyVars, store, faults, historyVars>>

LoseReport(w) ==
  /\ pc[w] = "report"
  /\ Faulty("report")
  /\ Finish(w)
  /\ UNCHANGED <<ytmVars, brokerVars, policyVars, store, historyVars>>

\* The process dies and its supervisor starts it again.
Crash(w) ==
  /\ pc[w] # "idle"
  /\ Faulty(IF pc[w] = "write" THEN "tear" ELSE "crash")
  /\ Finish(w)
  /\ UNCHANGED <<ytmVars, brokerVars, policyVars, store, historyVars>>

-------------------------------------------------------------------------------
(* The operator rewrites the policy: `ytm-executor risk init --force`.     *)

BeforeReload == {"cache", "policy", "final"}

\* Bookkeeping of blocked after a change of the policy file.
TrackBlocked ==
  blocked' = IF ForbidsReal' THEN blocked \cup {w \in Worker : pc[w] \in BeforeReload}
             ELSE {}

BeginEdit(p) ==
  /\ edit = None
  /\ edits < MaxEdits
  /\ edits' = edits + 1
  /\ edit' = p
  /\ policy' = Truncated("closed")
  /\ TrackBlocked
  /\ UNCHANGED <<ytmVars, brokerVars, store, workerVars, faults, recorded>>

FinishEdit ==
  /\ edit # None
  /\ edit' = None
  /\ policy' \in Written(policy, edit, "closed")
  /\ TrackBlocked
  /\ UNCHANGED <<ytmVars, brokerVars, edits, store, workerVars, faults, recorded>>

AbortEdit ==
  /\ edit # None
  /\ Faulty("abort")
  /\ edit' = None
  /\ UNCHANGED <<ytmVars, brokerVars, policy, edits, store, workerVars, historyVars>>

-------------------------------------------------------------------------------
\* The steps of a worker that need no fault.
Handle(w) ==
  \/ CheckCache(w) \/ CheckPolicy(w) \/ ReloadPolicy(w)
  \/ Prepare(w) \/ Lookup(w) \/ PlaceAccepted(w) \/ PlaceRefused(w)
  \/ VerifyProtection(w)
  \/ PutRead(w) \/ PutTruncate(w) \/ PutWrite(w) \/ Report(w)

Fail(w) ==
  \/ MisreadLookup(w) \/ PlaceMisread(w) \/ PlaceDelayed(w)
  \/ TransportError(w) \/ LoseReport(w) \/ Crash(w)

Work(w) ==
  \/ \E c \in Command : Lease(w, c) \/ LoseLease(w, c)
  \/ EmptyLease(w)
  \/ Handle(w)
  \/ Fail(w)

Environment ==
  \/ \E c \in Command : ExpireLease(c) \/ BrokerReceives(c)
  \/ \E p \in Policies : BeginEdit(p)
  \/ FinishEdit
  \/ AbortEdit

Next == (\E w \in Worker : Work(w)) \/ Environment

Spec == Init /\ [][Next]_vars

\* The lease loop never stops and waits on nothing but the calls it makes, each
\* of which ends (responses and time-outs); YTM lets leases expire; a policy
\* rewrite that has started ends.  Faults and further edits are not owed.
Fairness ==
  /\ \A w \in Worker : WF_vars(Handle(w))
  /\ \A w \in Worker : WF_vars(\E c \in Command : Lease(w, c))
  /\ \A c \in Command : WF_vars(ExpireLease(c))
  /\ WF_vars(FinishEdit)

FairSpec == Spec /\ Fairness

-------------------------------------------------------------------------------
(* Properties.                                                             *)

\* Types of the variables; a worker that is busy has a command, and one that
\* stores or reports has a decision.
TypeOK ==
  /\ leased \subseteq Command
  /\ answer \in [Command -> Statuses \cup {None}]
  /\ orders \in [Command -> Nat]
  /\ inflight \subseteq Command
  /\ policy \in JsonFiles(Policies)
  /\ edit \in Policies \cup {None}
  /\ store \in JsonFiles(SUBSET Command)
  /\ pc \in [Worker -> Steps]
  /\ cmd \in [Worker -> Command \cup {None}]
  /\ decision \in [Worker -> Statuses \cup {None}]
  /\ snapshot \in [Worker -> SUBSET Command]
  /\ faults \in 0..MaxFaults
  /\ edits \in 0..MaxEdits
  /\ blocked \subseteq Worker
  /\ recorded \subseteq Command
  /\ \A w \in Worker : pc[w] # "idle" => cmd[w] \in Command
  /\ \A w \in Worker : pc[w] \in Deciding => decision[w] \in Statuses

PlacingCommand == {c \in Command : Kind[c] = "place"}

\* If YTM has recorded "acknowledged" for a command that asks for a real order,
\* the broker holds that order: whatever crashed, was retried, was answered from
\* the store or was found by the lookup, _process_lease_response never reports
\* order_submitted for an order that does not exist.
AcknowledgedHasOrder ==
  \A c \in PlacingCommand : answer[c] = "acknowledged" => orders[c] > 0

\* The inductive strengthening of AcknowledgedHasOrder: whatever can still turn
\* into an acknowledgement of a placing command (a worker past the lookup or the
\* placement, a decision, a stored or about to be stored record) has its order.
OrderInv ==
  /\ AcknowledgedHasOrder
  /\ \A w \in Worker :
       pc[w] \in {"final", "lookup", "place", "verify", "put", "truncate", "write"}
         => cmd[w] \in PlacingCommand
  /\ \A w \in Worker :
       pc[w] \in {"verify", "put", "truncate", "write"} => orders[cmd[w]] > 0
  /\ \A w \in Worker :
       /\ pc[w] = "report" /\ decision[w] = "acknowledged"
       /\ cmd[w] \in PlacingCommand
       => orders[cmd[w]] > 0
  /\ \A w \in Worker : \A c \in snapshot[w] : orders[c] > 0
  /\ \A c \in store.value : orders[c] > 0
  /\ inflight \subseteq PlacingCommand

\* Leases, crashes, restarts and lost results repeat the handling of a command,
\* never its order: the cache, the lookup by clOrdId and the broker's refusal of
\* a repeated clOrdId leave at most one order per command.
OneOrderPerCommand == \A c \in Command : orders[c] <= 1

\* One process handles the commands.
OneWorker == \A v, w \in Worker : v = w

\* One process handles the commands, get_order tells it the truth and no request
\* outlives the call that sent it.  Then the broker need not refuse duplicates.
OneFaithfulWorker ==
  /\ OneWorker
  /\ {"lookup", "delay"} \cap Fault = {}

\* The inductive strengthening for that case: no request is under way, a worker
\* about to place has no order yet, and a command being handled has no answer.
SingleInv ==
  /\ OneOrderPerCommand
  /\ inflight = {}
  /\ \A w \in Worker : pc[w] = "place" => orders[cmd[w]] = 0
  /\ \A w \in Worker : pc[w] # "idle" => answer[cmd[w]] = None

\* A worker for which the policy has forbidden real orders without a break since
\* before its reload never reaches the calls that prepare and place a real
\* order: the reload in preflight_command is the last gate and it is not passed
\* on the strength of the earlier read.
KillSwitchStopsPlacement ==
  \A w \in blocked :
    cmd[w] \in PlacingCommand => pc[w] \notin {"prepare", "lookup", "place"}

\* Its inductive strengthening: a worker is blocked only while the file forbids
\* real orders.
BlockInv ==
  /\ KillSwitchStopsPlacement
  /\ blocked # {} => ForbidsReal

\* Once an acknowledgement is in the execution store, YTM never learns
\* "rejected" for that command, although the policy and every other gate may
\* have changed when it is leased again.
StoredNeverRejected ==
  Readable(store) => \A c \in store.value : answer[c] # "rejected"

\* Its inductive strengthening for one worker: a command being handled has no
\* answer, a command past the cache is not in the store, and what is about to be
\* stored has not been rejected.
RejectInv ==
  /\ StoredNeverRejected
  /\ \A w \in Worker : pc[w] # "idle" => answer[cmd[w]] = None
  /\ \A w \in Worker :
       \/ pc[w] \in {"policy", "final", "prepare", "lookup", "place"}
       \/ pc[w] = "report" /\ decision[w] = "rejected"
       => (Readable(store) => cmd[w] \notin store.value)
  /\ \A w \in Worker : pc[w] \in {"put", "truncate", "write"} =>
       decision[w] = "acknowledged"
  /\ \A w \in Worker : pc[w] \in {"truncate", "write"} =>
       \A c \in snapshot[w] : answer[c] # "rejected"

\* YTM never learns "rejected" for a command whose order the broker accepted
\* (docs/PROTOCOL.md, README: an accepted provider order is not turned into a
\* rejected command).
AcceptedNeverRejected ==
  \A c \in Command : orders[c] > 0 => answer[c] # "rejected"

\* Every result that put has stored is in the store, and readable, whenever no
\* put is between its truncation and its write.
StoredResultsSurvive ==
  (\A w \in Worker : pc[w] # "write") =>
    Readable(store) /\ recorded \subseteq store.value

\* Its inductive strengthening for one worker: what is about to be written holds
\* everything that has been stored.
SurviveInv ==
  /\ StoredResultsSurvive
  /\ \A w \in Worker : pc[w] = "write" => store.text = "empty"
  /\ \A w \in Worker : pc[w] \in {"truncate", "write"} =>
       recorded \cup {cmd[w]} \subseteq snapshot[w]

\* Once YTM has an answer for a command, no further order for it reaches the
\* broker.
NoOrderAfterAnswer ==
  [][\A c \in Command : answer[c] # None => orders'[c] = orders[c]]_vars

\* Every command gets an answer, provided faults are finitely many.
EveryCommandAnswered == \A c \in Command : <>(answer[c] # None)

\* The executor implements CommandOutcome: orders and answers change only as the
\* abstract specification allows.
Outcome == INSTANCE CommandOutcome WITH
  Command <- Command, PlacingCommand <- PlacingCommand,
  orders <- orders, answer <- answer
ImplementsOutcome == Outcome!Spec

===============================================================================
