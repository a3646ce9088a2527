--------------------------- MODULE CredentialsProofs ---------------------------
(***************************************************************************)
(* Theorems about Credentials, for any names, operators, handlers, faults  *)
(* and bounds.                                                             *)
(***************************************************************************)
EXTENDS Credentials, TLAPS

\* Writing a document leaves a file of the right type, whatever lies beneath.
LEMMA WrittenType ==
  ASSUME NEW V, NEW f \in JsonFiles(V), NEW v \in V, NEW blank \in V,
         NEW g \in Written(f, v, blank)
  PROVE  g \in JsonFiles(V)
  BY DEF JsonFiles, Written, Intact

\* The files without a record, and a name to rest on, have their types.
LEMMA Blanks ==
  /\ secretsBlank \in [Name -> 0..MaxSecrets]
  /\ validationsBlank \in [Name -> OptionalSummaries]
  /\ AnyName \in Name
  BY NameAssumption, SecretAssumption
  DEF secretsBlank, validationsBlank, OptionalSummaries, AnyName

\* The end of a command of the operator keeps the types.
LEMMA FinishType ==
  ASSUME TypeOK, NEW o \in Operator, Finish(o)
  PROVE  /\ pc' \in [Operator -> OperatorSteps]
         /\ name' \in [Operator -> Name]
         /\ draft' \in [Operator -> [Name -> 0..MaxSecrets]]
         /\ summary' \in [Operator -> OptionalSummaries]
         /\ records' \in [Operator -> [Name -> OptionalSummaries]]
         /\ \A p \in Operator :
              pc'[p] \in {"call", "read", "truncate", "write"} => summary'[p] \in Summaries
  <1>1. NoSummary \in OptionalSummaries
    BY DEF OptionalSummaries
  <1>2. QED
    BY <1>1, Blanks DEF TypeOK, Finish, Go, OperatorSteps

\* Every step keeps the variables' types.
LEMMA TypeStep ==
  ASSUME TypeOK, [Next]_vars
  PROVE  TypeOK'
  <1> USE TimeAssumption, SecretAssumption, FaultAssumption
  <1> USE DEF TypeOK, fileVars, operatorVars, handlerVars, worldVars, historyVars,
              OperatorSteps, HandlerSteps, Secrets, Times
  <1>1. ASSUME NEW o \in Operator, NEW n \in Name, AddRead(o, n)
        PROVE  TypeOK'
    <2>1. /\ secrets.value \in [Name -> 0..MaxSecrets]
          /\ entered + 1 \in 0..MaxSecrets
      BY <1>1 DEF AddRead, JsonFiles
    <2>2. QED
      BY <1>1, <2>1 DEF AddRead, Go
  <1>2. ASSUME NEW o \in Operator, AddTruncate(o)
        PROVE  TypeOK'
    BY <1>2, Blanks DEF AddTruncate, Go, JsonFiles, Truncated
  <1>3. ASSUME NEW o \in Operator, AddWrite(o)
        PROVE  TypeOK'
    <2>1. secrets' \in JsonFiles([Name -> 0..MaxSecrets])
      BY <1>3, WrittenType, Blanks DEF AddWrite
    <2>2. QED
      BY <1>3, <2>1, FinishType DEF AddWrite
  <1>4. ASSUME NEW o \in Operator, NEW n \in Name, ValidateStart(o, n)
        PROVE  TypeOK'
    <2>1. [status |-> "failed", at |-> now, of |-> secrets.value[n]] \in Summaries
      BY <1>4 DEF ValidateStart, JsonFiles, Summaries
    <2>2. QED
      BY <1>4, <2>1 DEF ValidateStart, Go, OptionalSummaries
  <1>5. ASSUME NEW o \in Operator, ValidateCall(o)
        PROVE  TypeOK'
    <2>1. [summary[o] EXCEPT !.status = "passed"] \in Summaries
      BY <1>5 DEF ValidateCall, Summaries
    <2>2. summary' \in [Operator -> OptionalSummaries]
      BY <1>5, <2>1 DEF ValidateCall, OptionalSummaries
    <2>3. \A p \in Operator :
            pc'[p] \in {"call", "read", "truncate", "write"} => summary'[p] \in Summaries
      BY <1>5, <2>1 DEF ValidateCall, Go
    <2>4. QED
      BY <1>5, <2>2, <2>3 DEF ValidateCall, Go
  <1>6. ASSUME NEW o \in Operator, ValidateUnreachable(o)
        PROVE  TypeOK'
    BY <1>6 DEF ValidateUnreachable, Faulty, Go
  <1>7. ASSUME NEW o \in Operator, ValidateRaises(o)
        PROVE  TypeOK'
    BY <1>7, FinishType DEF ValidateRaises, Faulty
  <1>8. ASSUME NEW o \in Operator, PutRead(o)
        PROVE  TypeOK'
    <2>1. CASE ~Readable(validations)
      BY <1>8, <2>1, FinishType DEF PutRead
    <2>2. CASE Readable(validations)
      <3>1. [validations.value EXCEPT ![name[o]] = summary[o]] \in [Name -> OptionalSummaries]
        BY DEF JsonFiles
      <3>2. QED
        BY <1>8, <2>2, <3>1 DEF PutRead, Go
    <2>3. QED
      BY <2>1, <2>2
  <1>9. ASSUME NEW o \in Operator, PutTruncate(o)
        PROVE  TypeOK'
    BY <1>9, Blanks DEF PutTruncate, Go, JsonFiles, Truncated
  <1>10. ASSUME NEW o \in Operator, PutWrite(o)
         PROVE  TypeOK'
    <2>1. validations' \in JsonFiles([Name -> OptionalSummaries])
      BY <1>10, WrittenType, Blanks DEF PutWrite
    <2>2. summary[o].status \in {"passed", "failed"}
      BY <1>10 DEF PutWrite, Summaries
    <2>3. verdict' \in [Name -> {"none", "passed", "failed"}]
      BY <1>10, <2>2 DEF PutWrite
    <2>4. QED
      BY <1>10, <2>1, <2>3, FinishType DEF PutWrite
  <1>11. ASSUME NEW o \in Operator, Crash(o)
         PROVE  TypeOK'
    BY <1>11, FinishType DEF Crash, Faulty
  <1>12. ASSUME NEW h \in Handler, ListCredentials(h)
         PROVE  TypeOK'
    BY <1>12 DEF ListCredentials
  <1>13. ASSUME NEW h \in Handler, Gate(h)
         PROVE  TypeOK'
    BY <1>13 DEF Gate
  <1>14. ASSUME NEW h \in Handler, NEW n \in Name, Resolve(h, n)
         PROVE  TypeOK'
    <2>1. secrets.value[n] \in 0..MaxSecrets
      BY DEF JsonFiles
    <2>2. CASE Readable(secrets) /\ secrets.value[n] # 0
      <3>1. secrets.value[n] \in Secrets
        BY <2>1, <2>2
      <3>2. /\ step' = [step EXCEPT ![h] = "use"]
            /\ uses' = [uses EXCEPT ![h] = secrets.value[n]]
            /\ UNCHANGED <<fileVars, worldVars, operatorVars, gateAt, faults, historyVars>>
        BY <1>14, <2>2 DEF Resolve
      <3>3. QED
        BY <2>1, <3>1, <3>2
    <2>3. CASE ~(Readable(secrets) /\ secrets.value[n] # 0)
      <3>1. /\ step' = [step EXCEPT ![h] = "idle"]
            /\ gateAt' = [gateAt EXCEPT ![h] = 0]
            /\ UNCHANGED <<fileVars, worldVars, operatorVars, uses, faults, historyVars>>
        BY <1>14, <2>3 DEF Resolve
      <3>2. QED
        BY <3>1
    <2>4. QED
      BY <2>2, <2>3
  <1>15. ASSUME NEW h \in Handler, Release(h)
         PROVE  TypeOK'
    BY <1>15 DEF Release
  <1>16. ASSUME NEW s \in Secrets, Revoke(s)
         PROVE  TypeOK'
    BY <1>16 DEF Revoke
  <1>17. CASE Tick
    BY <1>17 DEF Tick
  <1>18. CASE UNCHANGED vars
    BY <1>18 DEF vars
  <1>19. QED
    BY <1>1, <1>2, <1>3, <1>4, <1>5, <1>6, <1>7, <1>8, <1>9, <1>10, <1>11,
       <1>12, <1>13, <1>14, <1>15, <1>16, <1>17, <1>18
    DEF Next, Operate, Handle

\* The program starts with its types.
LEMMA TypeInit ==
  ASSUME Init
  PROVE  TypeOK
  <1>1. NoSummary \in OptionalSummaries
    BY DEF OptionalSummaries
  <1>2. QED
    BY <1>1, Blanks, TimeAssumption, SecretAssumption, FaultAssumption
    DEF Init, TypeOK, JsonFiles, Intact, Secrets, Times, OperatorSteps, HandlerSteps

\* The variables have their types, and a handler that uses a secret has one, in
\* every execution.
THEOREM TypeCorrect == Spec => []TypeOK
  <1>1. Init => TypeOK
    BY TypeInit
  <1>2. TypeOK /\ [Next]_vars => TypeOK'
    BY TypeStep
  <1>3. QED
    BY <1>1, <1>2, PTL DEF Spec

-------------------------------------------------------------------------------
\* What a write leaves in the validations' file is backed if what it writes is.
LEMMA WrittenBacked ==
  ASSUME NEW v, NEW f, NEW g \in Written(f, v, validationsBlank),
         \A n \in Name : Backed(v[n])
  PROVE  \A n \in Name : Backed(g.value[n])
  BY DEF Written, Intact, validationsBlank, NoSummary, Backed

\* The gate passes only on a summary that passed at most TTL ago.
LEMMA GateReads ==
  ASSUME TypeOK, ReadInv, NEW h \in Handler, Gate(h), step'[h] = "resolve"
  PROVE  gateAt'[h] = now /\ lastRead >= 0 /\ lastRead >= now - TTL
  <1>1. \E s \in Latest(validations.value) : Passes(s)
    BY DEF Gate, TypeOK
  <1>2. PICK n \in Name : validations.value[n] # NoSummary /\ Passes(validations.value[n])
    BY <1>1 DEF Latest
  <1>3. validations.value[n] \in Summaries
    BY <1>2 DEF TypeOK, JsonFiles, OptionalSummaries
  <1>4. /\ lastRead >= validations.value[n].at
        /\ now - validations.value[n].at <= TTL
        /\ validations.value[n].at \in Nat
    BY <1>2, <1>3 DEF ReadInv, Backed, Passes, Summaries, Times
  <1>5. gateAt'[h] = now
    BY DEF Gate, TypeOK
  <1>6. QED
    BY <1>4, <1>5, TimeAssumption DEF TypeOK, Times

\* Every step keeps the strengthened invariant.
LEMMA ReadStep ==
  ASSUME TypeOK, ReadInv, [Next]_vars
  PROVE  ReadInv'
  <1> USE DEF fileVars, operatorVars, handlerVars, worldVars, historyVars
  <1>0. /\ now \in Nat /\ lastRead \in Int /\ gateAt \in [Handler -> Nat] /\ TTL \in Nat
        /\ \A n \in Name : Backed(validationsBlank[n])
        /\ Backed(NoSummary) /\ NoSummary.at = 0
    BY TimeAssumption DEF TypeOK, Times, validationsBlank, NoSummary, Backed
  \* The end of a command of the operator.
  <1>1. ASSUME NEW o \in Operator, Finish(o), lastRead' = lastRead, now' = now,
               UNCHANGED handlerVars, \A n \in Name : Backed(validations'.value[n])
        PROVE  ReadInv'
    BY <1>0, <1>1
    DEF TypeOK, ReadInv, Backed, Finish, AccountReadRecently, validationsBlank
  \* Steps that leave the summaries and the operators' copies of them alone.
  <1>2. ASSUME UNCHANGED <<validations, lastRead, summary, records, now>>,
               AccountReadRecently'
        PROVE  ReadInv'
    BY <1>2 DEF ReadInv, Backed
  <1>3. ASSUME NEW o \in Operator, NEW n \in Name, AddRead(o, n)
        PROVE  ReadInv'
    BY <1>2, <1>3 DEF AddRead, ReadInv, AccountReadRecently
  <1>4. ASSUME NEW o \in Operator, AddTruncate(o)
        PROVE  ReadInv'
    BY <1>2, <1>4 DEF AddTruncate, ReadInv, AccountReadRecently
  <1>5. ASSUME NEW o \in Operator, AddWrite(o)
        PROVE  ReadInv'
    BY <1>1, <1>5 DEF AddWrite, ReadInv, Backed
  <1>6. ASSUME NEW o \in Operator, NEW n \in Name, ValidateStart(o, n)
        PROVE  ReadInv'
    BY <1>0, <1>6 DEF ValidateStart, TypeOK, ReadInv, Backed, AccountReadRecently
  <1>7. ASSUME NEW o \in Operator, ValidateCall(o)
        PROVE  ReadInv'
    <2>1. summary[o] \in Summaries /\ summary[o].at <= now
      BY <1>7 DEF ValidateCall, TypeOK, ReadInv
    <2>2. CASE summary[o].of \notin honoured
      BY <1>2, <1>7, <2>2 DEF ValidateCall, ReadInv, AccountReadRecently
    <2>3. CASE summary[o].of \in honoured
      <3>1. /\ summary' = [summary EXCEPT ![o].status = "passed"]
            /\ lastRead' = now
            /\ UNCHANGED <<validations, records, now, handlerVars>>
        BY <1>7, <2>3 DEF ValidateCall
      <3>2. lastRead' >= lastRead
        BY <1>0, <3>1 DEF ReadInv
      <3>3. AccountReadRecently'
        BY <1>0, <3>1, <3>2 DEF ReadInv, AccountReadRecently
      <3>4. \A n \in Name : Backed(validations.value[n])'
        <4> SUFFICES ASSUME NEW n \in Name PROVE Backed(validations.value[n])'
          OBVIOUS
        <4>1. validations.value[n].at \in Nat
          BY DEF TypeOK, JsonFiles, OptionalSummaries, Summaries, NoSummary, Times
        <4>2. QED
          BY <1>0, <3>1, <3>2, <4>1 DEF ReadInv, Backed
      <3>5. \A p \in Operator :
              Backed(summary[p])' /\ (summary[p].at <= now)'
        <4> SUFFICES ASSUME NEW p \in Operator
                     PROVE  Backed(summary[p])' /\ (summary[p].at <= now)'
          OBVIOUS
        <4>1. summary'[p].at = summary[p].at
          BY <2>1, <3>1 DEF TypeOK, OptionalSummaries, Summaries, NoSummary
        <4>2. summary[p].at <= now /\ summary[p].at \in Nat
          BY DEF ReadInv, TypeOK, OptionalSummaries, Summaries, NoSummary, Times
        <4>3. QED
          BY <3>1, <4>1, <4>2 DEF Backed
      <3>6. \A p \in Operator : \A n \in Name : Backed(records[p][n])'
        <4> SUFFICES ASSUME NEW p \in Operator, NEW n \in Name
                     PROVE  Backed(records[p][n])'
          OBVIOUS
        <4>1. records[p][n].at \in Nat
          BY DEF TypeOK, OptionalSummaries, Summaries, NoSummary, Times
        <4>2. QED
          BY <1>0, <3>1, <3>2, <4>1 DEF ReadInv, Backed
      <3>7. QED
        BY <1>0, <3>1, <3>3, <3>4, <3>5, <3>6 DEF ReadInv
    <2>4. QED
      BY <2>2, <2>3
  <1>8. ASSUME NEW o \in Operator, ValidateUnreachable(o)
        PROVE  ReadInv'
    BY <1>2, <1>8 DEF ValidateUnreachable, ReadInv, AccountReadRecently
  <1>9. ASSUME NEW o \in Operator, ValidateRaises(o)
        PROVE  ReadInv'
    BY <1>1, <1>9 DEF ValidateRaises, ReadInv, Backed
  <1>10. ASSUME NEW o \in Operator, PutRead(o)
         PROVE  ReadInv'
    <2>1. CASE ~Readable(validations)
      BY <1>1, <1>10, <2>1 DEF PutRead, ReadInv, Backed
    <2>2. CASE Readable(validations)
      <3>1. \A n \in Name :
              Backed([validations.value EXCEPT ![name[o]] = summary[o]][n])
        BY DEF TypeOK, JsonFiles, ReadInv
      <3>2. /\ records' = [records EXCEPT ![o] =
                            [validations.value EXCEPT ![name[o]] = summary[o]]]
            /\ UNCHANGED <<validations, summary, now, lastRead, handlerVars>>
        BY <1>10, <2>2 DEF PutRead
      <3>3. QED
        BY <3>1, <3>2 DEF TypeOK, ReadInv, Backed, AccountReadRecently
    <2>3. QED
      BY <2>1, <2>2
  <1>11. ASSUME NEW o \in Operator, PutTruncate(o)
         PROVE  ReadInv'
    BY <1>0, <1>11 DEF PutTruncate, Truncated, ReadInv, Backed, AccountReadRecently
  <1>12. ASSUME NEW o \in Operator, PutWrite(o)
         PROVE  ReadInv'
    <2>1. \A n \in Name : Backed(validations'.value[n])
      BY <1>12, WrittenBacked DEF PutWrite, ReadInv
    <2>2. QED
      BY <1>1, <1>12, <2>1 DEF PutWrite
  <1>13. ASSUME NEW o \in Operator, Crash(o)
         PROVE  ReadInv'
    BY <1>1, <1>13 DEF Crash, ReadInv, Backed
  <1>14. ASSUME NEW h \in Handler, ListCredentials(h)
         PROVE  ReadInv'
    BY <1>2, <1>14 DEF ListCredentials, TypeOK, ReadInv, AccountReadRecently
  <1>15. ASSUME NEW h \in Handler, Gate(h)
         PROVE  ReadInv'
    <2>1. UNCHANGED <<validations, lastRead, summary, records, now>>
      BY <1>15 DEF Gate
    <2>2. /\ \A k \in Handler \ {h} : step'[k] = step[k] /\ gateAt'[k] = gateAt[k]
          /\ step'[h] \in {"resolve", "idle"}
      BY <1>15 DEF Gate, TypeOK
    <2>3. step'[h] = "resolve" =>
            gateAt'[h] = now /\ lastRead >= 0 /\ lastRead >= now - TTL
      BY <1>15, GateReads
    <2>4. AccountReadRecently'
      BY <2>1, <2>2, <2>3 DEF ReadInv, AccountReadRecently
    <2>5. QED
      BY <1>2, <2>1, <2>4
  <1>16. ASSUME NEW h \in Handler, NEW n \in Name, Resolve(h, n)
         PROVE  ReadInv'
    BY <1>2, <1>16 DEF Resolve, TypeOK, ReadInv, AccountReadRecently
  <1>17. ASSUME NEW h \in Handler, Release(h)
         PROVE  ReadInv'
    BY <1>2, <1>17 DEF Release, TypeOK, ReadInv, AccountReadRecently
  <1>18. ASSUME NEW s \in Secrets, Revoke(s)
         PROVE  ReadInv'
    BY <1>2, <1>18 DEF Revoke, ReadInv, AccountReadRecently
  <1>19. CASE Tick
    <2>1. \A p \in Operator : summary[p].at \in Nat
      BY DEF TypeOK, OptionalSummaries, Summaries, NoSummary, Times
    <2>2. QED
      BY <1>0, <1>19, <2>1 DEF Tick, ReadInv, Backed, AccountReadRecently
  <1>20. CASE UNCHANGED vars
    BY <1>2, <1>20 DEF vars, ReadInv, AccountReadRecently
  <1>21. QED
    BY <1>3, <1>4, <1>5, <1>6, <1>7, <1>8, <1>9, <1>10, <1>11, <1>12, <1>13,
       <1>14, <1>15, <1>16, <1>17, <1>18, <1>19, <1>20
    DEF Next, Operate, Handle

\* For any number of operators racing on the files, and whatever is lost or torn:
\* a secret is used only if, at most TTL before the gate, a validation has read
\* an account of the provider.
THEOREM AccountRead == Spec => []AccountReadRecently
  <1>1. Init => TypeOK /\ ReadInv
    BY TypeInit
    DEF Init, ReadInv, Backed, AccountReadRecently, Intact, validationsBlank, NoSummary
  <1>2. TypeOK /\ ReadInv /\ [Next]_vars => TypeOK' /\ ReadInv'
    BY TypeStep, ReadStep
  <1>3. ReadInv => AccountReadRecently
    BY DEF ReadInv
  <1>4. QED
    BY <1>1, <1>2, <1>3, PTL DEF Spec

-------------------------------------------------------------------------------
\* With one operator, every step keeps the file and the copy of it in step with
\* the verdicts.
LEMMA VerdictStep ==
  ASSUME OneOperator, TypeOK, VerdictInv, [Next]_vars
  PROVE  VerdictInv'
  <1> USE DEF fileVars, operatorVars, handlerVars, worldVars, historyVars, Readable
  \* Steps that touch neither the summaries, the copies nor the operator's place
  \* in rewriting them.
  <1>1. ASSUME UNCHANGED <<validations, verdict>>,
               \A p \in Operator :
                 pc'[p] \in {"truncate", "write"} =>
                   pc'[p] = pc[p] /\ records'[p] = records[p]
                     /\ name'[p] = name[p] /\ summary'[p] = summary[p]
        PROVE  VerdictInv'
    BY <1>1 DEF VerdictInv
  <1>2. ASSUME NEW o \in Operator, Finish(o)
        PROVE  \A p \in Operator : pc'[p] = "idle"
    BY <1>2 DEF Finish, Go, TypeOK, OneOperator
  <1>3. ASSUME NEW o \in Operator, NEW n \in Name, AddRead(o, n) \/ ValidateStart(o, n)
        PROVE  VerdictInv'
    BY <1>1, <1>3 DEF AddRead, ValidateStart, Go, TypeOK, OneOperator
  <1>4. ASSUME NEW o \in Operator, AddTruncate(o) \/ ValidateCall(o) \/ ValidateUnreachable(o)
        PROVE  VerdictInv'
    BY <1>1, <1>4 DEF AddTruncate, ValidateCall, ValidateUnreachable, Go, TypeOK, OneOperator
  <1>5. ASSUME NEW o \in Operator, AddWrite(o) \/ ValidateRaises(o) \/ Crash(o)
        PROVE  VerdictInv'
    BY <1>1, <1>2, <1>5 DEF AddWrite, ValidateRaises, Crash
  <1>6. ASSUME NEW o \in Operator, PutRead(o)
        PROVE  VerdictInv'
    <2>1. CASE ~Readable(validations)
      BY <1>1, <1>2, <1>6, <2>1 DEF PutRead
    <2>2. CASE Readable(validations)
      <3>1. /\ records' = [records EXCEPT ![o] =
                            [validations.value EXCEPT ![name[o]] = summary[o]]]
            /\ pc' = [pc EXCEPT ![o] = "truncate"]
            /\ UNCHANGED <<validations, verdict, name, summary>>
        BY <1>6, <2>2 DEF PutRead, Go
      <3>2. validations.value \in [Name -> OptionalSummaries]
        BY DEF TypeOK, JsonFiles
      <3>3. \A p \in Operator : p = o
        BY DEF OneOperator
      <3>4. \A n \in Name : records'[o][n].status =
              IF n = name[o] THEN summary[o].status ELSE verdict[n]
        BY <2>2, <3>1, <3>2 DEF VerdictInv, TypeOK
      <3>5. QED
        BY <3>1, <3>3, <3>4 DEF VerdictInv, TypeOK
    <2>3. QED
      BY <2>1, <2>2
  <1>7. ASSUME NEW o \in Operator, PutTruncate(o)
        PROVE  VerdictInv'
    BY <1>7 DEF PutTruncate, Truncated, Go, VerdictInv, TypeOK, OneOperator
  <1>8. ASSUME NEW o \in Operator, PutWrite(o)
        PROVE  VerdictInv'
    <2>1. validations' = Intact(records[o])
      BY <1>8 DEF PutWrite, Written, VerdictInv
    <2>2. \A n \in Name : records[o][n].status = verdict'[n]
      BY <1>8 DEF PutWrite, VerdictInv, TypeOK
    <2>3. \A p \in Operator : pc'[p] = "idle"
      BY <1>2, <1>8 DEF PutWrite
    <2>4. QED
      BY <2>1, <2>2, <2>3 DEF VerdictInv, Intact
  <1>9. ASSUME NEW h \in Handler, Handle(h)
        PROVE  VerdictInv'
    BY <1>1, <1>9 DEF Handle, ListCredentials, Gate, Resolve, Release
  <1>10. CASE Tick \/ \E s \in Secrets : Revoke(s)
    BY <1>1, <1>10 DEF Tick, Revoke
  <1>11. CASE UNCHANGED vars
    BY <1>1, <1>11 DEF vars
  <1>12. QED
    BY <1>3, <1>4, <1>5, <1>6, <1>7, <1>8, <1>9, <1>10, <1>11 DEF Next, Operate

\* With one operator at a time, whatever is lost or torn: the gate passes only if
\* the latest summary put for some name says that its validation passed.
THEOREM VerdictCorrect ==
  ASSUME OneOperator
  PROVE  Spec => VerdictHonoured
  <1>1. Init => TypeOK /\ VerdictInv
    BY TypeInit DEF Init, VerdictInv, Readable, Intact, validationsBlank, NoSummary
  <1>2. TypeOK /\ VerdictInv /\ [Next]_vars => TypeOK' /\ VerdictInv'
    BY TypeStep, VerdictStep
  <1>3. TypeOK /\ VerdictInv /\ [Next]_vars =>
          [\A h \in Handler :
             step[h] = "gate" /\ step'[h] = "resolve"
               => \E n \in Name : verdict[n] = "passed"]_vars
    <2> SUFFICES ASSUME TypeOK, VerdictInv, Next, NEW h \in Handler,
                        step[h] = "gate", step'[h] = "resolve"
                 PROVE  \E n \in Name : verdict[n] = "passed"
      OBVIOUS
    <2>1. Gate(h)
      <3>1. step' # step /\ \E k \in Handler : Handle(k)
        BY DEF Next, Operate, AddRead, AddTruncate, AddWrite, ValidateStart, ValidateCall,
               ValidateUnreachable, ValidateRaises, PutRead, PutTruncate, PutWrite, Crash,
               Revoke, Tick, handlerVars
      <3>2. PICK k \in Handler : Handle(k)
        BY <3>1
      <3>3. k = h
        BY <3>2 DEF Handle, ListCredentials, Gate, Resolve, Release, TypeOK
      <3>4. QED
        BY <3>2, <3>3 DEF Handle, ListCredentials, Resolve, Release
    <2>2. Readable(validations) /\ \E s \in Latest(validations.value) : Passes(s)
      BY <2>1 DEF Gate, TypeOK
    <2>3. PICK n \in Name : validations.value[n].status = "passed"
      BY <2>2 DEF Latest, Passes
    <2>4. QED
      BY <2>2, <2>3 DEF VerdictInv
  <1>4. QED
    BY <1>1, <1>2, <1>3, PTL DEF Spec, VerdictHonoured

===============================================================================
