---------------------------- MODULE CommandOutcome ----------------------------
(***************************************************************************)
(* What the executor promises its two partners about a set of commands,    *)
(* without leases, processes, files or retries.  A command that asks for a *)
(* real order gets at most one; YTM learns one outcome per command, once;  *)
(* and it learns "acknowledged" only when the broker holds the order.      *)
(***************************************************************************)
EXTENDS Naturals

CONSTANTS
  Command,        \* command ids
  PlacingCommand  \* those that ask for a real order

VARIABLES
  orders,         \* orders the broker has accepted for each command
  answer          \* what YTM has recorded for each command

vars == <<orders, answer>>

Init ==
  /\ orders = [c \in Command |-> 0]
  /\ answer = [c \in Command |-> "none"]

Place(c) ==
  /\ c \in PlacingCommand
  /\ orders[c] = 0
  /\ orders' = [orders EXCEPT ![c] = 1]
  /\ UNCHANGED answer

Acknowledge(c) ==
  /\ answer[c] = "none"
  /\ c \in PlacingCommand => orders[c] = 1
  /\ answer' = [answer EXCEPT ![c] = "acknowledged"]
  /\ UNCHANGED orders

Reject(c) ==
  /\ answer[c] = "none"
  /\ answer' = [answer EXCEPT ![c] = "rejected"]
  /\ UNCHANGED orders

Next == \E c \in Command : Place(c) \/ Acknowledge(c) \/ Reject(c)

Spec == Init /\ [][Next]_vars

===============================================================================
