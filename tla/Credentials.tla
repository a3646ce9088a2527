------------------------------ MODULE Credentials ------------------------------
(***************************************************************************)
(* One broker's credentials, their validation and the gates that rely on   *)
(* it.                                                                     *)
(*                                                                         *)
(* An operator's process runs `broker add` (read secrets.json, add, write) *)
(* or `broker validate` (take the secret and the time, call the broker,    *)
(* put a summary into validations.json).  A handler of a leased command    *)
(* lists the credentials, looks at the latest summary of the provider and  *)
(* takes the secret that the command names.  Nothing locks the files.      *)
(* Secrets are numbers, in the order they are entered; 0 is none.          *)
(***************************************************************************)
EXTENDS Integers, JsonFile

CONSTANTS
  Name,        \* names under which the provider's credentials are kept
  Operator,    \* processes of the operator
  Handler,     \* processes that handle commands
  TTL,         \* VALIDATION_TTL_SECONDS, in the model's unit of time
  MaxTime,     \* the last moment
  MaxSecrets,  \* bound on the number of secrets entered
  Fault,       \* the kinds of fault that may occur, a subset of Faults
  MaxFaults    \* bound on the number of faults

\* "network"  a validation's call fails with a BrokerValidationError
\* "raise"    it fails with any other exception
\* "crash"    a process dies, but not while it rewrites a file
\* "tear"     a process dies between truncating and writing a file
Faults == {"network", "raise", "crash", "tear"}

ASSUME NameAssumption == Name # {}
ASSUME TimeAssumption == TTL \in Nat /\ MaxTime \in Nat
ASSUME SecretAssumption == MaxSecrets \in Nat
ASSUME FaultAssumption == Fault \subseteq Faults /\ MaxFaults \in Nat

Secrets == 1..MaxSecrets
Times == 0..MaxTime

\* A validation summary; of is the secret it speaks of, which the file does not
\* hold.  NoSummary stands for a name without one.
Summaries == [status : {"passed", "failed"}, at : Times, of : Secrets]
NoSummary == [status |-> "none", at |-> 0, of |-> 0]
OptionalSummaries == Summaries \cup {NoSummary}

VARIABLES
  secrets,      \* secrets.json: the secret under each name
  validations,  \* validations.json: the summary under each name
  entered,      \* number of secrets entered so far
  honoured,     \* the secrets with which the broker lets the account be read
  now,
  pc, name, draft, summary,  \* of each operator's process: step, credential
                             \* name, what it read of secrets.json, summary
  records,                   \* what it read of validations.json
  step, uses, gateAt,        \* of each handler: step, the credential name and
                             \* then the secret it uses, the time of its gate
  faults,
  \* history
  lastRead,     \* when a validation last read an account, -1 if never
  verdict       \* the status of the latest summary put for each name

AnyName == CHOOSE n \in Name : TRUE

secretsBlank == [n \in Name |-> 0]
validationsBlank == [n \in Name |-> NoSummary]

fileVars == <<secrets, validations>>
operatorVars == <<pc, name, draft, summary, records>>
handlerVars == <<step, uses, gateAt>>
worldVars == <<entered, honoured, now>>
historyVars == <<lastRead, verdict>>
vars == <<fileVars, worldVars, operatorVars, handlerVars, faults, historyVars>>

OperatorSteps == {"idle", "addTruncate", "addWrite", "call", "read", "truncate", "write"}
HandlerSteps == {"idle", "gate", "resolve", "use"}

Init ==
  /\ secrets = Intact(secretsBlank)
  /\ validations = Intact(validationsBlank)
  /\ entered = 0
  /\ honoured \in SUBSET Secrets
  /\ now = 0
  /\ pc = [o \in Operator |-> "idle"]
  /\ name = [o \in Operator |-> AnyName]
  /\ draft = [o \in Operator |-> secretsBlank]
  /\ summary = [o \in Operator |-> NoSummary]
  /\ records = [o \in Operator |-> validationsBlank]
  /\ step = [h \in Handler |-> "idle"]
  /\ uses = [h \in Handler |-> 0]
  /\ gateAt = [h \in Handler |-> 0]
  /\ faults = 0
  /\ lastRead = -1
  /\ verdict = [n \in Name |-> "none"]

Faulty(kind) ==
  /\ kind \in Fault
  /\ faults < MaxFaults
  /\ faults' = faults + 1

Go(o, s) == pc' = [pc EXCEPT ![o] = s]

\* A command of the operator ends: done, raised or killed.
Finish(o) ==
  /\ Go(o, "idle")
  /\ name' = [name EXCEPT ![o] = AnyName]
  /\ draft' = [draft EXCEPT ![o] = secretsBlank]
  /\ summary' = [summary EXCEPT ![o] = NoSummary]
  /\ records' = [records EXCEPT ![o] = validationsBlank]

-------------------------------------------------------------------------------
(* broker add                                                              *)

AddRead(o, n) ==
  /\ pc[o] = "idle"
  /\ entered < MaxSecrets
  /\ Readable(secrets)
  /\ entered' = entered + 1
  /\ draft' = [draft EXCEPT ![o] = [secrets.value EXCEPT ![n] = entered + 1]]
  /\ Go(o, "addTruncate")
  /\ UNCHANGED <<fileVars, honoured, now, name, summary, records, handlerVars,
                 faults, historyVars>>

AddTruncate(o) ==
  /\ pc[o] = "addTruncate"
  /\ secrets' = Truncated(secretsBlank)
  /\ Go(o, "addWrite")
  /\ UNCHANGED <<validations, worldVars, name, draft, summary, records,
                 handlerVars, faults, historyVars>>

AddWrite(o) ==
  /\ pc[o] = "addWrite"
  /\ secrets' \in Written(secrets, draft[o], secretsBlank)
  /\ Finish(o)
  /\ UNCHANGED <<validations, worldVars, handlerVars, faults, historyVars>>

-------------------------------------------------------------------------------
(* broker validate                                                         *)

\* The secret is read, then the clock: checkedAt is the time before the call.
ValidateStart(o, n) ==
  /\ pc[o] = "idle"
  /\ Readable(secrets) /\ secrets.value[n] # 0
  /\ name' = [name EXCEPT ![o] = n]
  /\ summary' = [summary EXCEPT ![o] =
                   [status |-> "failed", at |-> now, of |-> secrets.value[n]]]
  /\ Go(o, "call")
  /\ UNCHANGED <<fileVars, worldVars, draft, records, handlerVars, faults,
                 historyVars>>

\* The read-only calls with the secret succeed or are refused.
ValidateCall(o) ==
  /\ pc[o] = "call"
  /\ Go(o, "read")
  /\ IF summary[o].of \in honoured
     THEN /\ summary' = [summary EXCEPT ![o].status = "passed"]
          /\ lastRead' = now
     ELSE UNCHANGED <<summary, lastRead>>
  /\ UNCHANGED <<fileVars, worldVars, name, draft, records, handlerVars, faults,
                 verdict>>

\* The call fails on the way; the summary says "failed".
ValidateUnreachable(o) ==
  /\ pc[o] = "call"
  /\ Faulty("network")
  /\ Go(o, "read")
  /\ UNCHANGED <<fileVars, worldVars, name, draft, summary, records, handlerVars,
                 historyVars>>

\* Any other exception ends the command: the summaries stay as they are.
ValidateRaises(o) ==
  /\ pc[o] = "call"
  /\ Faulty("raise")
  /\ Finish(o)
  /\ UNCHANGED <<fileVars, worldVars, handlerVars, historyVars>>

\* Mutation of PutRead: the old summary of the name is kept.
PutReadKeeps(o) ==
  /\ pc[o] = "read"
  /\ IF Readable(validations)
     THEN /\ records' = [records EXCEPT ![o] =
                [validations.value EXCEPT ![name[o]] =
                   IF @ = NoSummary THEN summary[o] ELSE @]]
          /\ Go(o, "truncate")
          /\ UNCHANGED <<name, draft, summary>>
     ELSE Finish(o)
  /\ UNCHANGED <<fileVars, worldVars, handlerVars, faults, historyVars>>

\* LocalValidationStore.put: the summary replaces the one of the same name.
PutRead(o) ==
  /\ pc[o] = "read"
  /\ IF Readable(validations)
     THEN /\ records' = [records EXCEPT ![o] =
                [validations.value EXCEPT ![name[o]] = summary[o]]]
          /\ Go(o, "truncate")
          /\ UNCHANGED <<name, draft, summary>>
     ELSE Finish(o)
  /\ UNCHANGED <<fileVars, worldVars, handlerVars, faults, historyVars>>

PutTruncate(o) ==
  /\ pc[o] = "truncate"
  /\ validations' = Truncated(validationsBlank)
  /\ Go(o, "write")
  /\ UNCHANGED <<secrets, worldVars, name, draft, summary, records, handlerVars,
                 faults, historyVars>>

PutWrite(o) ==
  /\ pc[o] = "write"
  /\ validations' \in Written(validations, records[o], validationsBlank)
  /\ verdict' = [verdict EXCEPT ![name[o]] = summary[o].status]
  /\ Finish(o)
  /\ UNCHANGED <<secrets, worldVars, handlerVars, faults, lastRead>>

Crash(o) ==
  /\ pc[o] # "idle"
  /\ Faulty(IF pc[o] \in {"addWrite", "write"} THEN "tear" ELSE "crash")
  /\ Finish(o)
  /\ UNCHANGED <<fileVars, worldVars, handlerVars, historyVars>>

-------------------------------------------------------------------------------
(* The gates of a leased command.                                          *)

\* The summaries that max() by checkedAt may find.
Latest(v) ==
  {s \in {v[n] : n \in Name} \ {NoSummary} :
     \A n \in Name : v[n] # NoSummary => v[n].at <= s.at}

\* Mutation of Passes: a summary does not age.
PassesForever(s) == s.status = "passed"

Passes(s) == s.status = "passed" /\ now - s.at <= TTL

\* The provider has a credential, whatever its name; or the command is rejected,
\* or an unreadable file raises.
ListCredentials(h) ==
  /\ step[h] = "idle"
  /\ IF Readable(secrets) /\ \E n \in Name : secrets.value[n] # 0
     THEN step' = [step EXCEPT ![h] = "gate"]
     ELSE UNCHANGED step
  /\ UNCHANGED <<fileVars, worldVars, operatorVars, uses, gateAt, faults,
                 historyVars>>

\* _validation_block on the summaries, with the time at which preflight starts.
Gate(h) ==
  /\ step[h] = "gate"
  /\ IF Readable(validations) /\ \E s \in Latest(validations.value) : Passes(s)
     THEN /\ step' = [step EXCEPT ![h] = "resolve"]
          /\ gateAt' = [gateAt EXCEPT ![h] = now]
     ELSE /\ step' = [step EXCEPT ![h] = "idle"]
          /\ UNCHANGED gateAt
  /\ UNCHANGED <<fileVars, worldVars, operatorVars, uses, faults, historyVars>>

\* Mutation of Resolve: a name that is not in the file is not noticed.
ResolveUnchecked(h, n) ==
  /\ step[h] = "resolve"
  /\ step' = [step EXCEPT ![h] = "use"]
  /\ uses' = [uses EXCEPT ![h] = secrets.value[n]]
  /\ UNCHANGED gateAt
  /\ UNCHANGED <<fileVars, worldVars, operatorVars, faults, historyVars>>

\* The command names the credential; its secret is read now.
Resolve(h, n) ==
  /\ step[h] = "resolve"
  /\ IF Readable(secrets) /\ secrets.value[n] # 0
     THEN /\ step' = [step EXCEPT ![h] = "use"]
          /\ uses' = [uses EXCEPT ![h] = secrets.value[n]]
          /\ UNCHANGED gateAt
     ELSE /\ step' = [step EXCEPT ![h] = "idle"]
          /\ gateAt' = [gateAt EXCEPT ![h] = 0]
          /\ UNCHANGED uses
  /\ UNCHANGED <<fileVars, worldVars, operatorVars, faults, historyVars>>

\* The adapter's calls with the secret are over.
Release(h) ==
  /\ step[h] = "use"
  /\ step' = [step EXCEPT ![h] = "idle"]
  /\ uses' = [uses EXCEPT ![h] = 0]
  /\ gateAt' = [gateAt EXCEPT ![h] = 0]
  /\ UNCHANGED <<fileVars, worldVars, operatorVars, faults, historyVars>>

-------------------------------------------------------------------------------
\* The owner withdraws a secret at the broker.
Revoke(s) ==
  /\ s \in honoured
  /\ honoured' = honoured \ {s}
  /\ UNCHANGED <<fileVars, entered, now, operatorVars, handlerVars, faults,
                 historyVars>>

Tick ==
  /\ now < MaxTime
  /\ now' = now + 1
  /\ UNCHANGED <<fileVars, entered, honoured, operatorVars, handlerVars, faults,
                 historyVars>>

Operate(o) ==
  \/ \E n \in Name : AddRead(o, n) \/ ValidateStart(o, n)
  \/ AddTruncate(o) \/ AddWrite(o)
  \/ ValidateCall(o) \/ ValidateUnreachable(o) \/ ValidateRaises(o)
  \/ PutRead(o) \/ PutTruncate(o) \/ PutWrite(o)
  \/ Crash(o)

Handle(h) ==
  \/ ListCredentials(h) \/ Gate(h) \/ Release(h)
  \/ \E n \in Name : Resolve(h, n)

Next ==
  \/ \E o \in Operator : Operate(o)
  \/ \E h \in Handler : Handle(h)
  \/ \E s \in Secrets : Revoke(s)
  \/ Tick

Spec == Init /\ [][Next]_vars

-------------------------------------------------------------------------------
(* Properties.                                                             *)

\* Types of the variables; a validation that was called has a summary, a handler
\* that uses a secret has one.
TypeOK ==
  /\ secrets \in JsonFiles([Name -> 0..MaxSecrets])
  /\ validations \in JsonFiles([Name -> OptionalSummaries])
  /\ entered \in 0..MaxSecrets
  /\ honoured \subseteq Secrets
  /\ now \in Times
  /\ pc \in [Operator -> OperatorSteps]
  /\ name \in [Operator -> Name]
  /\ draft \in [Operator -> [Name -> 0..MaxSecrets]]
  /\ summary \in [Operator -> OptionalSummaries]
  /\ records \in [Operator -> [Name -> OptionalSummaries]]
  /\ \A o \in Operator :
       pc[o] \in {"call", "read", "truncate", "write"} => summary[o] \in Summaries
  /\ step \in [Handler -> HandlerSteps]
  /\ uses \in [Handler -> 0..MaxSecrets]
  /\ \A h \in Handler : step[h] = "use" => uses[h] \in Secrets
  /\ gateAt \in [Handler -> Times]
  /\ faults \in 0..MaxFaults
  /\ lastRead \in Times \cup {-1}
  /\ verdict \in [Name -> {"none", "passed", "failed"}]

\* A secret is used only if, at most TTL before the gate, the broker has let an
\* account of this provider be read: whatever is recorded late, lost to a race
\* of two operators or torn, an old success does not count.
AccountReadRecently ==
  \A h \in Handler :
    step[h] \in {"resolve", "use"} => lastRead >= 0 /\ lastRead >= gateAt[h] - TTL

\* Its inductive strengthening: no summary that passed, in the file, in what an
\* operator has read of it or about to be put, is newer than the last reading.
Backed(s) == s.status = "passed" => lastRead >= s.at

ReadInv ==
  /\ AccountReadRecently
  /\ lastRead <= now
  /\ \A n \in Name : Backed(validations.value[n])
  /\ \A o \in Operator :
       /\ Backed(summary[o]) /\ summary[o].at <= now
       /\ \A n \in Name : Backed(records[o][n])

\* Nobody else writes the summaries.
OneOperator == \A o, p \in Operator : o = p

\* With one operator at a time, the gate lets no command pass while the latest
\* validation of every name has failed: a summary that was put is not forgotten.
VerdictHonoured ==
  [][\A h \in Handler :
       step[h] = "gate" /\ step'[h] = "resolve"
         => \E n \in Name : verdict[n] = "passed"]_vars

\* Its inductive invariant: a file that can be read tells the verdicts, and what
\* is about to be written tells them with the new summary's.
VerdictInv ==
  /\ Readable(validations) => \A n \in Name : validations.value[n].status = verdict[n]
  /\ \A o \in Operator :
       /\ pc[o] = "write" => validations.text = "empty"
       /\ pc[o] \in {"truncate", "write"} =>
            \A n \in Name : records[o][n].status =
              IF n = name[o] THEN summary[o].status ELSE verdict[n]

\* The credential a command uses is one that validation has passed, and not
\* longer than TTL before the gate (README.md: local broker credential
\* validation must be fresh, passed, and account-readable).
UsesValidatedCredential ==
  \A h \in Handler :
    step[h] = "use" =>
      \E n \in Name :
        /\ validations.value[n].of = uses[h]
        /\ validations.value[n].status = "passed"

===============================================================================
