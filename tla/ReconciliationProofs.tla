------------------------- MODULE ReconciliationProofs -------------------------
(***************************************************************************)
(* Proofs about the reconciliation snapshot: whatever the account does     *)
(* between the queries, the position is explained by the fills, no order   *)
(* is missing and the labels are true, for every set of orders, every      *)
(* number of algo types and every number of events and faults.             *)
(***************************************************************************)
EXTENDS Reconciliation, SequenceTheorems, TLAPS

USE DEF Roles, Faults

LastQuery == 2 * Len(AlgoTypes) + 4

\* What may stand in an answer.
Item == [order : Order, refs : SUBSET ({"order", "algo"} \X Order), own : BOOLEAN,
         reduceOnly : BOOLEAN, actualSide : {"sl", "tp", None}]
Replies == {NetLots(S) : S \in SUBSET Order} \cup SUBSET Item

AnswersOK == answers \in Seq(Replies)

-------------------------------------------------------------------------------
(* The order of the queries.                                               *)

LEMMA AlgoQueryOrder ==
  /\ AlgoQueries \in Seq({"algos_pending", "algos_history"} \X ToSet(AlgoTypes))
  /\ Len(AlgoQueries) = 2 * Len(AlgoTypes)
  /\ Len(AlgoTypes) \in Nat
  /\ \A k \in 1..Len(AlgoTypes) :
       /\ AlgoQueries[2 * k - 1] = <<"algos_pending", AlgoTypes[k]>>
       /\ AlgoQueries[2 * k] = <<"algos_history", AlgoTypes[k]>>
<1>1. Len(AlgoTypes) \in Nat /\ DOMAIN AlgoTypes = 1..Len(AlgoTypes)
  BY AlgoTypesAssumption
<1>2. ASSUME NEW n \in 1..(2 * Len(AlgoTypes))
      PROVE (n + 1) \div 2 \in 1..Len(AlgoTypes)
  BY <1>1
<1>3. \A n \in 1..(2 * Len(AlgoTypes)) :
        AlgoQueries[n] \in {"algos_pending", "algos_history"} \X ToSet(AlgoTypes)
  BY <1>1, <1>2 DEF AlgoQueries, ToSet
<1>4. AlgoQueries \in Seq({"algos_pending", "algos_history"} \X ToSet(AlgoTypes))
  BY <1>1, <1>3 DEF AlgoQueries
<1>5. Len(AlgoQueries) = 2 * Len(AlgoTypes)
  BY <1>1 DEF AlgoQueries
<1>6. ASSUME NEW k \in 1..Len(AlgoTypes)
      PROVE /\ AlgoQueries[2 * k - 1] = <<"algos_pending", AlgoTypes[k]>>
            /\ AlgoQueries[2 * k] = <<"algos_history", AlgoTypes[k]>>
  <2>1. 2 * k - 1 \in 1..(2 * Len(AlgoTypes)) /\ 2 * k \in 1..(2 * Len(AlgoTypes))
    BY <1>1
  <2>2. (2 * k - 1) % 2 = 1 /\ (2 * k) % 2 # 1
    BY <1>1
  <2>3. ((2 * k - 1) + 1) \div 2 = k /\ (2 * k + 1) \div 2 = k
    BY <1>1
  <2> QED
    BY <2>1, <2>2, <2>3 DEF AlgoQueries
<1> QED
  BY <1>1, <1>4, <1>5, <1>6

\* Queries at every index.
LEMMA QueryOrder ==
  /\ Len(AlgoTypes) \in Nat
  /\ DOMAIN AlgoTypes = 1..Len(AlgoTypes)
  /\ LastQuery \in Nat /\ LastQuery >= 4
  /\ Len(Queries) = LastQuery /\ DOMAIN Queries = 1..LastQuery
  /\ Queries[1] = Ask("positions") /\ Queries[2] = Ask("pending")
  /\ Queries[3] = Ask("history") /\ Queries[LastQuery] = Ask("fills")
  /\ \A m \in 1..(2 * Len(AlgoTypes)) : Queries[m + 3] = AlgoQueries[m]
  /\ \A k \in 1..Len(AlgoTypes) :
       /\ Queries[2 * k + 2] = <<"algos_pending", AlgoTypes[k]>>
       /\ Queries[2 * k + 3] = <<"algos_history", AlgoTypes[k]>>
  /\ \A n \in 1..LastQuery :
       \/ n \in {1, 2, 3, LastQuery}
       \/ \E k \in 1..Len(AlgoTypes) : n = 2 * k + 2 \/ n = 2 * k + 3
<1> DEFINE front == <<Ask("positions"), Ask("pending"), Ask("history")>>
           back == <<Ask("fills")>>
           Q == {front[1], front[2], front[3], back[1]}
                  \cup ({"algos_pending", "algos_history"} \X ToSet(AlgoTypes))
<1>1. /\ Len(AlgoTypes) \in Nat
      /\ DOMAIN AlgoTypes = 1..Len(AlgoTypes)
      /\ LastQuery \in Nat /\ LastQuery >= 4
  BY AlgoTypesAssumption DEF LastQuery
<1>2. front \in Seq(Q) /\ Len(front) = 3 /\ back \in Seq(Q) /\ Len(back) = 1
  OBVIOUS
<1>3. AlgoQueries \in Seq(Q) /\ Len(AlgoQueries) = 2 * Len(AlgoTypes)
  <2>1. AlgoQueries \in Seq({"algos_pending", "algos_history"} \X ToSet(AlgoTypes))
    BY AlgoQueryOrder
  <2>2. {"algos_pending", "algos_history"} \X ToSet(AlgoTypes) \subseteq Q
    OBVIOUS
  <2>3. AlgoQueries \in Seq(Q)
    <3> HIDE DEF Q
    <3> QED
      BY <2>1, <2>2
  <2> QED
    BY <2>3, AlgoQueryOrder
<1> HIDE DEF front, back, Q
<1>4. Queries = (front \o AlgoQueries) \o back
  BY DEF Queries, front, back
<1>5. front \o AlgoQueries \in Seq(Q) /\ Len(front \o AlgoQueries) = LastQuery - 1
  <2>1. /\ front \o AlgoQueries \in Seq(Q)
        /\ Len(front \o AlgoQueries) = Len(front) + Len(AlgoQueries)
    BY <1>2, <1>3, ConcatProperties
  <2> QED
    BY <2>1, <1>1, <1>2, <1>3 DEF LastQuery
<1> DEFINE most == front \o AlgoQueries
<1>a. /\ Len(most \o back) = Len(most) + Len(back)
      /\ most \o back \in Seq(Q)
      /\ \A n \in 1..(Len(most) + Len(back)) :
           (most \o back)[n] = IF n <= Len(most) THEN most[n] ELSE back[n - Len(most)]
  <2> HIDE DEF most
  <2>1. most \in Seq(Q)
    BY <1>5 DEF most
  <2> QED
    BY <2>1, <1>2, ConcatProperties
<1>b. \A n \in 1..(Len(front) + Len(AlgoQueries)) :
        most[n] = IF n <= Len(front) THEN front[n] ELSE AlgoQueries[n - Len(front)]
  BY <1>2, <1>3, ConcatProperties
<1>c. Queries = most \o back /\ Len(most) = LastQuery - 1
  BY <1>4, <1>5
<1> HIDE DEF most
<1>6. Len(Queries) = LastQuery /\ DOMAIN Queries = 1..LastQuery
  BY <1>1, <1>2, <1>a, <1>c
<1>7. \A n \in 1..(LastQuery - 1) : Queries[n] = most[n]
  BY <1>1, <1>2, <1>a, <1>c
<1>8. \A m \in 1..(2 * Len(AlgoTypes)) : Queries[m + 3] = AlgoQueries[m]
  <2> SUFFICES ASSUME NEW m \in 1..(2 * Len(AlgoTypes))
               PROVE Queries[m + 3] = AlgoQueries[m]
    OBVIOUS
  <2>1. m + 3 \in 1..(LastQuery - 1)
    BY <1>1 DEF LastQuery
  <2>2. most[m + 3] = AlgoQueries[m]
    BY <1>1, <1>2, <1>3, <1>b
  <2> QED
    BY <2>1, <2>2, <1>7
<1>9. \A n \in 1..3 : Queries[n] = front[n]
  BY <1>1, <1>2, <1>3, <1>7, <1>b
<1>10. Queries[1] = Ask("positions") /\ Queries[2] = Ask("pending") /\ Queries[3] = Ask("history")
  BY <1>9 DEF front
<1>11. Queries[LastQuery] = Ask("fills")
  BY <1>1, <1>2, <1>a, <1>c DEF back
<1>12. ASSUME NEW k \in 1..Len(AlgoTypes)
       PROVE /\ Queries[2 * k + 2] = <<"algos_pending", AlgoTypes[k]>>
             /\ Queries[2 * k + 3] = <<"algos_history", AlgoTypes[k]>>
  <2>1. /\ 2 * k - 1 \in 1..(2 * Len(AlgoTypes)) /\ 2 * k \in 1..(2 * Len(AlgoTypes))
        /\ 2 * k + 2 = (2 * k - 1) + 3
    BY <1>1
  <2> QED
    BY <2>1, <1>8, AlgoQueryOrder
<1>13. ASSUME NEW n \in 1..LastQuery, n \notin {1, 2, 3, LastQuery}
       PROVE \E k \in 1..Len(AlgoTypes) : n = 2 * k + 2 \/ n = 2 * k + 3
  <2>1. n \div 2 - 1 \in 1..Len(AlgoTypes)
    BY <1>1, <1>13 DEF LastQuery
  <2>2. n = 2 * (n \div 2 - 1) + 2 \/ n = 2 * (n \div 2 - 1) + 3
    BY <1>1
  <2> QED
    BY <2>1, <2>2
<1> QED
  BY <1>1, <1>6, <1>8, <1>10, <1>11, <1>12, <1>13

\* Which queries stand where.
LEMMA QueryKind ==
  ASSUME NEW n \in 1..LastQuery
  PROVE  /\ Queries[n][1] = "positions" <=> n = 1
         /\ Queries[n][1] = "pending" <=> n = 2
         /\ Queries[n][1] = "history" <=> n = 3
         /\ Queries[n][1] = "fills" <=> n = LastQuery
         /\ Queries[n][1] = "algos_pending" <=>
              \E k \in 1..Len(AlgoTypes) : n = 2 * k + 2
         /\ Queries[n][1] = "algos_history" <=>
              \E k \in 1..Len(AlgoTypes) : n = 2 * k + 3
<1>1. /\ Queries[1][1] = "positions" /\ Queries[2][1] = "pending"
      /\ Queries[3][1] = "history" /\ Queries[LastQuery][1] = "fills"
  BY QueryOrder DEF Ask
<1>2. \A k \in 1..Len(AlgoTypes) :
        /\ Queries[2 * k + 2][1] = "algos_pending"
        /\ Queries[2 * k + 3][1] = "algos_history"
  BY QueryOrder
<1>3. /\ LastQuery = 2 * Len(AlgoTypes) + 4 /\ Len(AlgoTypes) \in Nat
      /\ n \in {1, 2, 3, LastQuery}
           \/ \E k \in 1..Len(AlgoTypes) : n = 2 * k + 2 \/ n = 2 * k + 3
  BY QueryOrder DEF LastQuery
<1> QED
  BY <1>1, <1>2, <1>3

\* No query is asked twice, so the answer to a query is the one at its index.
LEMMA AnswerAt ==
  ASSUME NEW n \in 1..LastQuery
  PROVE  Answer(Queries[n]) = answers[n]
<1>1. ASSUME NEW i \in 1..LastQuery, Queries[i] = Queries[n] PROVE i = n
  <2>1. Queries[i][1] = Queries[n][1] /\ Queries[i][2] = Queries[n][2]
    BY <1>1
  <2>2. CASE n \in {1, 2, 3, LastQuery}
    BY <2>1, <2>2, QueryKind
  <2>3. CASE n \notin {1, 2, 3, LastQuery}
    <3>1. PICK k \in 1..Len(AlgoTypes) : n = 2 * k + 2 \/ n = 2 * k + 3
      BY <2>3, QueryOrder
    <3>2. i \notin {1, 2, 3, LastQuery}
      BY <2>1, <2>3, QueryKind
    <3>3. PICK l \in 1..Len(AlgoTypes) : i = 2 * l + 2 \/ i = 2 * l + 3
      BY <3>2, QueryOrder
    <3>4. Queries[n][2] = AlgoTypes[k] /\ Queries[i][2] = AlgoTypes[l]
      <4>1. \A m \in 1..Len(AlgoTypes) :
              Queries[2 * m + 2][2] = AlgoTypes[m] /\ Queries[2 * m + 3][2] = AlgoTypes[m]
        BY QueryOrder
      <4> QED
        BY <3>1, <3>3, <4>1
    <3>5. k = l
      <4>1. DOMAIN AlgoTypes = 1..Len(AlgoTypes)
        BY QueryOrder
      <4> QED
        BY <2>1, <3>4, <4>1, AlgoTypesAssumption
    <3>6. n = 2 * k + 2 <=> Queries[n][1] = "algos_pending"
      BY <3>1, QueryKind
    <3>7. i = 2 * l + 2 <=> Queries[i][1] = "algos_pending"
      BY <3>3, QueryKind
    <3> QED
      BY <2>1, <3>1, <3>3, <3>5, <3>6, <3>7
  <2> QED
    BY <2>2, <2>3
<1>2. (CHOOSE i \in DOMAIN Queries : Queries[i] = Queries[n]) = n
  BY <1>1, QueryOrder
<1> QED
  BY <1>2 DEF Answer

\* The algo queries are those between the third and the last.
LEMMA AlgoQuery ==
  ASSUME NEW n \in 1..LastQuery, Queries[n] \in ToSet(AlgoQueries)
  PROVE  n \notin {1, 2, 3, LastQuery}
<1>1. Queries[n][1] \in {"algos_pending", "algos_history"}
  BY AlgoQueryOrder DEF ToSet
<1> QED
  BY <1>1, QueryKind

-------------------------------------------------------------------------------
(* Types.                                                                  *)

\* A label is one of the four the snapshot knows.
LEMMA LabelType ==
  ASSUME NEW item, NEW parts
  PROVE  FillCloseSource(item, parts) \in {"take_profit", "stop_loss", "provider_manual", None}
<1>1. \A i : InferCloseSource(i) \in {"take_profit", "stop_loss", "provider_manual", None}
  BY DEF InferCloseSource
<1> QED
  BY <1>1 DEF FillCloseSource, CloseSourceOf

\* What the broker answers is a position or a set of items.
LEMMA ReplyType ==
  ASSUME TypeOK, NEW n \in 1..LastQuery
  PROVE  Reply(Queries[n]) \in Replies
<1>1. Position \in Replies
  BY DEF Position, Replies, Filled
<1>2. ASSUME NEW o \in Order
      PROVE  OrderItem(o) \in Item /\ AlgoItem(o) \in Item /\ FillItem(o) \in Item
  <2>1. side[o] \in {"sl", "tp", None} /\ told[o] \in BOOLEAN /\ Parent \in Order
    BY ParentAssumption DEF TypeOK
  <2> QED
    BY <2>1 DEF OrderItem, AlgoItem, FillItem, Item
<1>3. ASSUME NEW q
      PROVE  {PendingOrders, OrdersHistory, PendingAlgos(q), AlgosHistory(q), FillsHistory}
               \subseteq SUBSET Item
  BY <1>2 DEF PendingOrders, OrdersHistory, PendingAlgos, AlgosHistory, FillsHistory,
              Filled, Algos
<1>4. Queries[n][1] \in {"positions", "pending", "history", "algos_pending",
                         "algos_history", "fills"}
  <2>1. \/ n \in {1, 2, 3, LastQuery}
        \/ \E k \in 1..Len(AlgoTypes) : n = 2 * k + 2 \/ n = 2 * k + 3
    BY QueryOrder
  <2> QED
    BY <2>1, QueryKind
<1>5. {PendingOrders, OrdersHistory, PendingAlgos(Queries[n][2]), AlgosHistory(Queries[n][2]),
       FillsHistory} \subseteq Replies
  BY <1>3 DEF Replies
<1> QED
  BY <1>1, <1>4, <1>5 DEF Reply

\* Trading leaves what is over as it is, gives sides to algo orders only, and
\* forgets no order.
LEMMA Trading ==
  ASSUME TypeOK, SideInv, NEW o \in Order,
         Accept(o) \/ Fill(o) \/ Trigger(o) \/ Cancel(o)
  PROVE  /\ UNCHANGED <<captureVars, label, faults>>
         /\ state' \in [Order -> {"absent", "live", "filled", "cancelled"}]
         /\ side' \in [Order -> {"sl", "tp", None}]
         /\ told' \in [Order -> BOOLEAN]
         /\ events' \in 0..MaxEvents
         /\ SideInv'
         /\ \A p \in Order :
              /\ Over(p) => state'[p] = state[p]
              /\ Over(p) \/ p \notin Algos => side'[p] = side[p] /\ told'[p] = told[p]
              /\ state[p] # "absent" => state'[p] # "absent"
<1> USE BoundAssumption DEF TypeOK, SideInv, Over, Event, Algos, None
<1>1. CASE Accept(o)
  BY <1>1 DEF Accept
<1>2. CASE Fill(o)
  BY <1>2, RoleAssumption, ParentAssumption DEF Fill
<1>3. CASE Trigger(o)
  <2>1. PICK s \in {"sl", "tp"} : side' = [side EXCEPT ![o] = s]
    BY <1>3 DEF Trigger
  <2>2. PICK t \in BOOLEAN : told' = [told EXCEPT ![o] = t]
    BY <1>3 DEF Trigger
  <2> QED
    BY <1>3, <2>1, <2>2 DEF Trigger
<1>4. CASE Cancel(o)
  BY <1>4 DEF Cancel
<1> QED
  BY <1>1, <1>2, <1>3, <1>4

\* The answers of a capture grow by one.
LEMMA AnswersGrow ==
  ASSUME TypeOK, AnswersOK, Capturing, NEW a \in Replies, answers' = Append(answers, a)
  PROVE  /\ AnswersOK'
         /\ Len(answers) \in Nat /\ DOMAIN answers = 1..Len(answers)
         /\ Len(answers) + 1 \in 1..LastQuery
         /\ Len(answers') = Len(answers) + 1 /\ DOMAIN answers' = 1..(Len(answers) + 1)
         /\ answers'[Len(answers) + 1] = a
         /\ \A n \in DOMAIN answers : answers'[n] = answers[n]
  BY QueryOrder DEF AnswersOK, Capturing, TypeOK

LEMMA TypeStep ==
  ASSUME TypeOK, AnswersOK, SideInv, [Next]_vars
  PROVE  TypeOK' /\ AnswersOK'
<1> USE BoundAssumption
<1>1. ASSUME NEW o \in Order, Accept(o) \/ Fill(o) \/ Trigger(o) \/ Cancel(o)
      PROVE  TypeOK' /\ AnswersOK'
  BY <1>1, Trading DEF TypeOK, AnswersOK, captureVars
<1>2. ASSUME MarkBefore
      PROVE  before'.filled \subseteq before'.existed /\ before'.existed \subseteq Order
  BY <1>2 DEF MarkBefore, TypeOK, Filled
<1>3. CASE Query
  <2>1. Capturing /\ Reply(NextQuery) \in Replies
    BY <1>3, QueryOrder, ReplyType DEF Query, Capturing, NextQuery, AnswersOK, TypeOK
  <2>2. AnswersOK' /\ Len(answers') <= Len(Queries)
    BY <1>3, <2>1, AnswersGrow, QueryOrder DEF Query
  <2> QED
    BY <1>2, <1>3, <2>2 DEF Query, TypeOK, brokerVars
<1>4. CASE QueryUnavailable
  <2>1. Capturing /\ {} \in Replies
    BY <1>4 DEF QueryUnavailable, Replies
  <2>2. AnswersOK' /\ Len(answers') <= Len(Queries)
    BY <1>4, <2>1, AnswersGrow, QueryOrder DEF QueryUnavailable
  <2> QED
    BY <1>2, <1>4, <2>2 DEF QueryUnavailable, TypeOK, brokerVars, Faulty
<1>5. ASSUME StartOver
      PROVE  /\ AnswersOK' /\ Len(answers') <= Len(Queries)
             /\ warnings' \subseteq ToSet(AlgoQueries)
             /\ before'.filled \subseteq before'.existed /\ before'.existed \subseteq Order
  BY <1>5, QueryOrder DEF StartOver, Nothing, AnswersOK
<1>6. CASE QueryFails \/ UploadLost
  BY <1>5, <1>6 DEF QueryFails, UploadLost, TypeOK, brokerVars, Faulty
<1>7. CASE Upload
  <2>1. \A o \in DOMAIN Labels :
          Labels[o] \in {"take_profit", "stop_loss", "provider_manual", None}
    BY LabelType DEF Labels
  <2>2. label' \in [Order -> {"take_profit", "stop_loss", "provider_manual", None}]
    <3> HIDE DEF Labels
    <3> QED
      BY <1>7, <2>1 DEF Upload, TypeOK
  <2> QED
    BY <1>5, <1>7, <2>2 DEF Upload, TypeOK, brokerVars
<1>8. CASE UNCHANGED vars
  BY <1>8 DEF vars, brokerVars, captureVars, TypeOK, AnswersOK
<1> QED
  BY <1>1, <1>3, <1>4, <1>6, <1>7, <1>8 DEF Next

-------------------------------------------------------------------------------
(* What the answers have in them.                                          *)

\* Trading leaves every answer sound.
LEMMA SoundTrading ==
  ASSUME TypeOK, SideInv, SoundInv, NEW o \in Order,
         Accept(o) \/ Fill(o) \/ Trigger(o) \/ Cancel(o)
  PROVE  SoundInv'
<1>1. /\ answers' = answers
      /\ \A p \in Order :
           /\ Over(p) => state'[p] = state[p]
           /\ Over(p) \/ p \notin Algos => side'[p] = side[p] /\ told'[p] = told[p]
  BY Trading DEF captureVars
<1>2. \A p \in Order : p \in Filled => Over(p) /\ p \in Filled'
  BY <1>1 DEF Filled, Over
<1>3. \A p \in Order : Over(p) => Over(p)'
  BY <1>1 DEF Over
<1>4. \A p \in Order : Over(p) \/ p \notin Algos => OrderItem(p)' = OrderItem(p)
  BY <1>1 DEF OrderItem
<1>5. \A p \in Order : Over(p) => AlgoItem(p)' = AlgoItem(p)
  BY <1>1 DEF AlgoItem
<1> SUFFICES ASSUME NEW n \in DOMAIN answers
             PROVE  Sound(Queries[n], answers[n])'
  BY <1>1 DEF SoundInv
<1>6. Sound(Queries[n], answers[n])
  BY DEF SoundInv
<1>7. CASE Queries[n][1] = "positions"
  BY <1>1, <1>2, <1>6, <1>7 DEF Sound, Filled
<1>8. CASE Queries[n][1] = "pending"
  BY <1>1, <1>4, <1>6, <1>8 DEF Sound
<1>9. CASE Queries[n][1] = "history"
  BY <1>1, <1>3, <1>4, <1>6, <1>9 DEF Sound
<1>10. CASE Queries[n][1] = "algos_pending"
  BY <1>1, <1>6, <1>10 DEF Sound
<1>11. CASE Queries[n][1] = "algos_history"
  BY <1>1, <1>3, <1>5, <1>6, <1>11 DEF Sound, Algos
<1>12. CASE Queries[n][1] = "fills"
  BY <1>1, <1>2, <1>6, <1>12 DEF Sound, Filled, FillItem
<1> QED
  BY <1>1, <1>6, <1>7, <1>8, <1>9, <1>10, <1>11, <1>12 DEF Sound

\* Every answer is sound when it is given.
LEMMA SoundReply ==
  ASSUME TypeOK, SideInv, NEW n \in 1..LastQuery
  PROVE  Sound(Queries[n], Reply(Queries[n]))
<1>1. CASE Queries[n][1] = "positions"
  BY <1>1 DEF Sound, Reply, Position
<1>2. CASE Queries[n][1] = "pending"
  BY <1>2 DEF Sound, Reply, PendingOrders, OrderItem
<1>3. CASE Queries[n][1] = "history"
  BY <1>3 DEF Sound, Reply, OrdersHistory, OrderItem, Over
<1>4. CASE Queries[n][1] = "algos_pending"
  <2> SUFFICES ASSUME NEW o \in Algos, state[o] = "live"
               PROVE  /\ AlgoItem(o).actualSide = None
                      /\ AlgoItem(o).reduceOnly =>
                           \A p \in Order : <<"order", p>> \notin AlgoItem(o).refs
    BY <1>4 DEF Sound, Reply, PendingAlgos
  <2> QED
    BY DEF AlgoItem, SideInv, Algos
<1>5. CASE Queries[n][1] = "algos_history"
  BY <1>5 DEF Sound, Reply, AlgosHistory, AlgoItem, Over
<1>6. CASE Queries[n][1] = "fills"
  BY <1>6 DEF Sound, Reply, FillsHistory, FillItem
<1> QED
  BY <1>1, <1>2, <1>3, <1>4, <1>5, <1>6 DEF Sound

\* An unavailable algo query is sound: it says nothing.
LEMMA SoundUnavailable ==
  ASSUME NEW n \in 1..LastQuery, Queries[n] \in ToSet(AlgoQueries)
  PROVE  Sound(Queries[n], {})
<1>1. Queries[n][1] # "positions"
  BY AlgoQuery, QueryKind
<1> QED
  BY <1>1 DEF Sound

\* Steps of the capture leave the earlier answers sound and add a sound one.
LEMMA SoundAnswer ==
  ASSUME TypeOK, AnswersOK, SoundInv, Capturing, UNCHANGED brokerVars,
         NEW a \in Replies, answers' = Append(answers, a), Sound(NextQuery, a)
  PROVE  SoundInv'
<1>1. /\ Len(answers) \in Nat /\ DOMAIN answers = 1..Len(answers)
      /\ DOMAIN answers' = 1..(Len(answers) + 1)
      /\ answers'[Len(answers) + 1] = a
      /\ \A n \in DOMAIN answers : answers'[n] = answers[n]
  BY AnswersGrow
<1> SUFFICES ASSUME NEW n \in 1..(Len(answers) + 1)
             PROVE  Sound(Queries[n], answers[n])'
  BY <1>1 DEF SoundInv
<1>2. CASE n = Len(answers) + 1
  BY <1>1, <1>2 DEF Sound, NextQuery, brokerVars, Filled, OrderItem, AlgoItem, FillItem, Over
<1>3. CASE n # Len(answers) + 1
  <2>1. n \in DOMAIN answers /\ Sound(Queries[n], answers[n])
    BY <1>1, <1>3 DEF SoundInv
  <2> QED
    BY <1>1, <2>1 DEF Sound, brokerVars, Filled, OrderItem, AlgoItem, FillItem, Over
<1> QED
  BY <1>2, <1>3

\* Every step keeps what is known of sides, of the beginning of the capture and
\* of the answers.
LEMMA SoundStep ==
  ASSUME TypeOK, AnswersOK, SideInv, BeforeInv, SoundInv, [Next]_vars
  PROVE  SideInv' /\ BeforeInv' /\ SoundInv'
<1>1. ASSUME NEW o \in Order, Accept(o) \/ Fill(o) \/ Trigger(o) \/ Cancel(o)
      PROVE  SideInv' /\ BeforeInv' /\ SoundInv'
  <2>1. /\ UNCHANGED captureVars
        /\ \A p \in Order : Over(p) => state'[p] = state[p]
        /\ \A p \in Order : state[p] # "absent" => state'[p] # "absent"
    BY <1>1, Trading
  <2>2. BeforeInv'
    BY <2>1 DEF captureVars, BeforeInv, Filled, Over
  <2> QED
    BY <1>1, <2>2, Trading, SoundTrading
<1>2. ASSUME Capturing, MarkBefore, UNCHANGED brokerVars,
             NEW a \in Replies, answers' = Append(answers, a), Sound(NextQuery, a)
      PROVE  SideInv' /\ BeforeInv' /\ SoundInv'
  <2>1. SideInv'
    BY <1>2 DEF brokerVars, SideInv
  <2>2. answers' # <<>>
    BY <1>2, AnswersGrow DEF AnswersOK
  <2>3. BeforeInv'
    BY <1>2, <2>2 DEF BeforeInv, MarkBefore, brokerVars, Filled
  <2> QED
    BY <1>2, <2>1, <2>3, SoundAnswer
<1>3. ASSUME Capturing
      PROVE  Len(answers) + 1 \in 1..LastQuery
  BY <1>3, QueryOrder DEF Capturing, AnswersOK
<1>4. CASE Query
  BY <1>2, <1>3, <1>4, ReplyType, SoundReply DEF Query, NextQuery
<1>5. CASE QueryUnavailable
  <2>1. {} \in Replies
    BY DEF Replies
  <2> QED
    BY <1>2, <1>3, <1>5, <2>1, SoundUnavailable DEF QueryUnavailable, NextQuery
<1>6. CASE QueryFails \/ Upload \/ UploadLost
  BY <1>6 DEF QueryFails, Upload, UploadLost, StartOver, Nothing, brokerVars,
              SideInv, BeforeInv, SoundInv
<1>7. CASE UNCHANGED vars
  <2>1. UNCHANGED <<state, side, told, answers, warnings, before>>
    BY <1>7 DEF vars, brokerVars, captureVars
  <2> QED
    BY <2>1 DEF SideInv, BeforeInv, SoundInv, Sound, Filled, OrderItem, AlgoItem, FillItem, Over
<1> QED
  BY <1>1, <1>4, <1>5, <1>6, <1>7 DEF Next

\* The orders the answer to each query tells of.
LEMMA ReplyOrders ==
  /\ OrdersIn(PendingOrders) = {o \in Order \ Algos : state[o] = "live"}
  /\ OrdersIn(OrdersHistory) = {o \in Order : state[o] = "filled"
                                  \/ (state[o] = "cancelled" /\ o \notin Algos)}
  /\ OrdersIn(FillsHistory) = Filled
  /\ \A t : OrdersIn(PendingAlgos(t)) = {o \in Algos : AlgoType[o] = t /\ state[o] = "live"}
  /\ \A t : OrdersIn(AlgosHistory(t)) = {o \in Algos : AlgoType[o] = t
                                          /\ state[o] \in {"filled", "cancelled"}}
<1>1. \A o : OrderItem(o).order = o /\ AlgoItem(o).order = o /\ FillItem(o).order = o
  BY DEF OrderItem, AlgoItem, FillItem
<1>2. OrdersIn(FillsHistory) = Filled
  BY <1>1 DEF OrdersIn, FillsHistory
<1>3. OrdersIn(PendingOrders) = {o \in Order \ Algos : state[o] = "live"}
  BY <1>1 DEF OrdersIn, PendingOrders
<1>4. OrdersIn(OrdersHistory) = {o \in Order : state[o] = "filled"
                                   \/ (state[o] = "cancelled" /\ o \notin Algos)}
  BY <1>1 DEF OrdersIn, OrdersHistory
<1>5. ASSUME NEW t
      PROVE  OrdersIn(PendingAlgos(t)) = {o \in Algos : AlgoType[o] = t /\ state[o] = "live"}
  BY <1>1 DEF OrdersIn, PendingAlgos
<1>6. ASSUME NEW t
      PROVE  OrdersIn(AlgosHistory(t)) = {o \in Algos : AlgoType[o] = t
                                            /\ state[o] \in {"filled", "cancelled"}}
  BY <1>1 DEF OrdersIn, AlgosHistory
<1> QED
  BY <1>2, <1>3, <1>4, <1>5, <1>6

\* What an answer has in it does not change with the trading that follows.
LEMMA FullTrading ==
  ASSUME TypeOK, SideInv, FullInv, NEW o \in Order,
         Accept(o) \/ Fill(o) \/ Trigger(o) \/ Cancel(o)
  PROVE  FullInv'
<1>1. /\ answers' = answers /\ before' = before /\ warnings' = warnings
      /\ \A p \in Order : Over(p) => Over(p)'
  BY Trading DEF captureVars, Over
<1>2. before.existed \subseteq Order
  BY DEF TypeOK
<1> SUFFICES ASSUME NEW n \in DOMAIN answers
             PROVE  Full(n)'
  BY <1>1 DEF FullInv
<1>3. Full(n)
  BY DEF FullInv
<1> QED
  BY <1>1, <1>2, <1>3 DEF Full, OrdersIn

\* An answer given now, after the earlier ones, is as full as it must be.
LEMMA FullReply ==
  ASSUME TypeOK, AnswersOK, SideInv, BeforeInv, SoundInv, FullInv, Query,
         NEW n, n = Len(answers) + 1
  PROVE  Full(n)'
<1> DEFINE typed == {o \in Algos : AlgoType[o] = Queries[n][2]}
<1>1. /\ Len(answers) \in Nat /\ DOMAIN answers = 1..Len(answers)
      /\ n \in 1..LastQuery /\ Capturing
      /\ answers'[n] = Reply(Queries[n])
      /\ \A m \in DOMAIN answers : answers'[m] = answers[m]
  <2>1. Capturing /\ Reply(NextQuery) \in Replies
    BY QueryOrder, ReplyType DEF Query, Capturing, NextQuery, AnswersOK, TypeOK
  <2> QED
    BY <2>1, AnswersGrow DEF Query, NextQuery
<1>2. UNCHANGED <<state, side, told, warnings>>
  BY DEF Query, brokerVars
<1>3. n # 1 => before' = before
  BY <1>1 DEF Query, MarkBefore
<1>4. /\ before.existed \subseteq {o \in Order : state[o] # "absent"}
      /\ before.filled \subseteq Filled /\ before.filled \subseteq Order
  BY DEF BeforeInv, Filled
<1>5. \A o \in Order : state[o] \in {"live"} \/ Over(o) \/ state[o] = "absent"
  BY DEF TypeOK, Over
<1>6. \A o : Over(o)' <=> Over(o)
  BY <1>2 DEF Over
<1>7. CASE n = 1
  BY <1>7, QueryKind, QueryOrder DEF Full
<1>8. CASE n = 2
  <2>1. OrdersIn(answers'[n]) = {o \in Order \ Algos : state[o] = "live"}
    BY <1>1, <1>8, QueryKind, ReplyOrders DEF Reply
  <2>2. \A o \in before'.existed \ Algos : o \in OrdersIn(answers'[n]) \/ Over(o)'
    BY <2>1, <1>3, <1>4, <1>5, <1>6, <1>8
  <2> QED
    BY <2>2, <1>1, <1>8, QueryKind DEF Full, OrdersIn
<1>9. CASE n = 3
  <2>1. OrdersIn(answers'[n]) = {o \in Order : state[o] = "filled"
                                   \/ (state[o] = "cancelled" /\ o \notin Algos)}
    BY <1>1, <1>9, QueryKind, ReplyOrders DEF Reply
  <2>2. 2 \in DOMAIN answers /\ Full(2) /\ 2 \in 1..LastQuery
    BY <1>1, <1>9, QueryOrder DEF FullInv
  <2>3. \A o \in before.existed \ Algos : o \in OrdersIn(answers[2]) \/ Over(o)
    BY <2>2, QueryKind DEF Full
  <2>4. before'.existed \ Algos \subseteq OrdersIn(answers'[2]) \cup OrdersIn(answers'[n])
    <3>1. OrdersIn(answers'[2]) = OrdersIn(answers[2])
      BY <2>2, <1>1
    <3> QED
      BY <3>1, <2>1, <2>3, <1>3, <1>4, <1>9 DEF Over
  <2>5. before'.filled \subseteq OrdersIn(answers'[n])
    BY <2>1, <1>3, <1>4, <1>9 DEF Filled
  <2> QED
    BY <2>4, <2>5, <1>1, <1>9, QueryKind DEF Full, OrdersIn
<1>10. ASSUME NEW k \in 1..Len(AlgoTypes), n = 2 * k + 2
       PROVE  Full(n)'
  <2>1. Queries[n][1] = "algos_pending"
    BY <1>1, <1>10, QueryKind
  <2>2. OrdersIn(answers'[n]) = {o \in typed : state[o] = "live"}
    BY <1>1, <2>1, ReplyOrders DEF Reply
  <2>3. \A o \in before'.existed \cap typed : o \in OrdersIn(answers'[n]) \/ Over(o)'
    BY <2>2, <1>3, <1>4, <1>5, <1>6, <1>10
  <2> QED
    BY <2>1, <2>3 DEF Full, OrdersIn, Algos
<1>11. ASSUME NEW k \in 1..Len(AlgoTypes), n = 2 * k + 3
       PROVE  Full(n)'
  <2>1. Queries[n][1] = "algos_history" /\ Queries[n][2] = AlgoTypes[k]
    <3>1. Queries[2 * k + 3] = <<"algos_history", AlgoTypes[k]>>
      BY QueryOrder
    <3> QED
      BY <1>11, <3>1
  <2>2. OrdersIn(answers'[n]) = {o \in typed : Over(o)}
    BY <1>1, <2>1, ReplyOrders DEF Reply, Over
  <2>3. /\ n - 1 \in DOMAIN answers /\ n - 1 = 2 * k + 2 /\ n - 1 \in 1..LastQuery
        /\ 3 \in DOMAIN answers /\ 3 \in 1..LastQuery /\ n # 1
    <3>1. Len(AlgoTypes) \in Nat /\ LastQuery \in Nat
      BY QueryOrder
    <3>2. k \in Nat /\ k >= 1 /\ Len(answers) \in Nat
      BY <1>1, <3>1
    <3>3. Len(answers) = 2 * k + 2
      BY <1>11, <3>2
    <3>4. n - 1 = 2 * k + 2 /\ n - 1 \in 1..Len(answers) /\ 3 \in 1..Len(answers) /\ n \in Nat /\ n >= 5
      BY <1>1, <3>2, <3>3
    <3> QED
      BY <1>1, <3>1, <3>3, <3>4
  <2>4. Queries[n - 1][1] = "algos_pending" /\ Queries[n - 1][2] = Queries[n][2]
    <3>1. Queries[2 * k + 2] = <<"algos_pending", AlgoTypes[k]>>
      BY QueryOrder
    <3> QED
      BY <2>1, <2>3, <3>1
  <2>5. warnings = {} => \A o \in before.existed \cap typed :
                            o \in OrdersIn(answers[n - 1]) \/ Over(o)
    <3>1. Full(n - 1)
      BY <2>3 DEF FullInv
    <3> QED
      BY <3>1, <2>4 DEF Full
  <2>6. answers'[n - 1] = answers[n - 1] /\ answers'[3] = answers[3] /\ before' = before
    BY <2>3, <1>1, <1>3
  <2>7. warnings = {} => before'.existed \cap typed
                           \subseteq OrdersIn(answers'[n - 1]) \cup OrdersIn(answers'[n])
    BY <2>2, <2>5, <2>6
  <2>8. \A o \in OrdersIn(answers[3]) \cap Algos : Over(o)
    <3>1. Sound(Queries[3], answers[3]) /\ Queries[3][1] = "history"
      BY <2>3, QueryKind DEF SoundInv
    <3> QED
      BY <3>1 DEF Sound, OrdersIn
  <2>9. (before'.filled \cup OrdersIn(answers'[3])) \cap typed \subseteq OrdersIn(answers'[n])
    BY <2>2, <2>6, <2>8, <1>4 DEF Over, Filled
  <2> QED
    BY <2>1, <2>7, <2>9, <1>2 DEF Full, OrdersIn, Algos
<1>12. CASE n = LastQuery
  <2>1. Queries[n][1] = "fills"
    BY <1>1, <1>12, QueryKind
  <2>2. OrdersIn(answers'[n]) = Filled
    BY <1>1, <2>1, ReplyOrders DEF Reply
  <2>3. 1 \in DOMAIN answers /\ 1 \in 1..LastQuery /\ n # 1
    BY <1>1, <1>12, QueryOrder
  <2>4. \E S \in SUBSET Filled : NetLots(S) = answers[1]
    BY <2>3, QueryKind DEF SoundInv, Sound
  <2>5. \E S \in SUBSET OrdersIn(answers'[n]) : NetLots(S) = answers'[1]
    BY <2>2, <2>3, <2>4, <1>1
  <2>6. before'.filled \subseteq OrdersIn(answers'[n])
    BY <2>2, <2>3, <1>3, <1>4
  <2> QED
    BY <2>1, <2>5, <2>6 DEF Full, OrdersIn
<1>13. \/ n \in {1, 2, 3, LastQuery}
       \/ \E k \in 1..Len(AlgoTypes) : n = 2 * k + 2 \/ n = 2 * k + 3
  BY <1>1, QueryOrder
<1> QED
  BY <1>7, <1>8, <1>9, <1>10, <1>11, <1>12, <1>13

\* A step of the capture leaves the earlier answers as full as they were.
LEMMA FullKept ==
  ASSUME TypeOK, AnswersOK, FullInv, Capturing, UNCHANGED brokerVars, MarkBefore,
         warnings \subseteq warnings',
         NEW a \in Replies, answers' = Append(answers, a),
         NEW n, n \in DOMAIN answers
  PROVE  Full(n)'
<1>1. /\ Len(answers) \in Nat /\ DOMAIN answers = 1..Len(answers)
      /\ Len(answers) + 1 \in 1..LastQuery
      /\ \A m \in DOMAIN answers : answers'[m] = answers[m]
  BY AnswersGrow
<1>2. n \in 1..Len(answers) /\ n \in 1..LastQuery /\ LastQuery \in Nat /\ Len(AlgoTypes) \in Nat
  BY <1>1, QueryOrder
<1>3. before' = before
  BY <1>2 DEF MarkBefore
<1>4. \A o : Over(o)' <=> Over(o)
  BY DEF Over, brokerVars
<1>5. Full(n)
  BY DEF FullInv
<1>6. answers'[n] = answers[n] /\ answers'[1] = answers[1]
  BY <1>1, <1>2
<1>7. ASSUME Queries[n][1] \in {"history", "algos_history"}
      PROVE  answers'[n - 1] = answers[n - 1] /\ answers'[3] = answers[3]
  <2>1. n = 3 \/ \E k \in 1..Len(AlgoTypes) : n = 2 * k + 3
    BY <1>2, <1>7, QueryKind
  <2> QED
    BY <1>1, <1>2, <2>1
<1>8. warnings' = {} => warnings = {}
  OBVIOUS
<1> QED
  BY <1>3, <1>4, <1>5, <1>6, <1>7, <1>8 DEF Full, OrdersIn

\* Every step keeps the answers full.
LEMMA FullStep ==
  ASSUME TypeOK, AnswersOK, SideInv, BeforeInv, SoundInv, FullInv, [Next]_vars
  PROVE  FullInv'
<1>1. ASSUME NEW o \in Order, Accept(o) \/ Fill(o) \/ Trigger(o) \/ Cancel(o)
      PROVE  FullInv'
  BY <1>1, FullTrading
<1>2. CASE Query
  <2>1. Capturing /\ Reply(NextQuery) \in Replies
    BY <1>2, QueryOrder, ReplyType DEF Query, Capturing, NextQuery, AnswersOK
  <2>2. DOMAIN answers' = 1..(Len(answers) + 1) /\ DOMAIN answers = 1..Len(answers)
        /\ Len(answers) \in Nat
    BY <1>2, <2>1, AnswersGrow DEF Query
  <2>3. ASSUME NEW n \in DOMAIN answers PROVE Full(n)'
    BY <1>2, <2>1, FullKept DEF Query
  <2>4. ASSUME NEW n, n = Len(answers) + 1 PROVE Full(n)'
    BY <1>2, <2>4, FullReply
  <2> QED
    BY <2>2, <2>3, <2>4 DEF FullInv
<1>3. CASE QueryUnavailable
  <2>1. Capturing /\ {} \in Replies /\ NextQuery \in ToSet(AlgoQueries)
    BY <1>3 DEF QueryUnavailable, Replies
  <2>2. /\ DOMAIN answers' = 1..(Len(answers) + 1) /\ DOMAIN answers = 1..Len(answers)
        /\ Len(answers) \in Nat /\ Len(answers) + 1 \in 1..LastQuery
    BY <1>3, <2>1, AnswersGrow DEF QueryUnavailable
  <2>3. ASSUME NEW n \in DOMAIN answers PROVE Full(n)'
    BY <1>3, <2>1, FullKept DEF QueryUnavailable
  <2>4. ASSUME NEW n, n = Len(answers) + 1 PROVE Full(n)'
    <3>1. n \in 1..LastQuery /\ n \notin {1, 2, 3, LastQuery}
      BY <2>1, <2>2, <2>4, AlgoQuery DEF NextQuery
    <3>2. Queries[n][1] \notin {"positions", "pending", "history", "fills"}
      BY <3>1, QueryKind
    <3>3. warnings' # {}
      BY <1>3 DEF QueryUnavailable
    <3> QED
      BY <3>2, <3>3 DEF Full
  <2> QED
    BY <2>2, <2>3, <2>4 DEF FullInv
<1>4. CASE QueryFails \/ Upload \/ UploadLost
  BY <1>4 DEF QueryFails, Upload, UploadLost, StartOver, FullInv
<1>5. CASE UNCHANGED vars
  <2>1. UNCHANGED <<state, answers, warnings, before>>
    BY <1>5 DEF vars, brokerVars, captureVars
  <2> QED
    BY <2>1 DEF FullInv, Full, OrdersIn, Over
<1> QED
  BY <1>1, <1>2, <1>3, <1>4, <1>5 DEF Next

-------------------------------------------------------------------------------
(* The theorems.                                                           *)

Inv == TypeOK /\ AnswersOK /\ SideInv /\ BeforeInv /\ SoundInv /\ FullInv

LEMMA Invariant == Spec => []Inv
<1>1. Init => Inv
  <2> SUFFICES ASSUME Init PROVE Inv
    OBVIOUS
  <2>1. TypeOK
    BY BoundAssumption, QueryOrder DEF Init, TypeOK, Nothing
  <2>2. AnswersOK /\ SideInv /\ BeforeInv /\ SoundInv /\ FullInv
    BY DEF Init, AnswersOK, SideInv, BeforeInv, SoundInv, FullInv, Nothing, None
  <2> QED
    BY <2>1, <2>2 DEF Inv
<1>2. Inv /\ [Next]_vars => Inv'
  BY TypeStep, SoundStep, FullStep DEF Inv
<1> QED
  BY <1>1, <1>2, PTL DEF Spec

\* Types of the variables.
THEOREM TypeCorrect == Spec => []TypeOK
<1>1. Inv => TypeOK
  BY DEF Inv
<1> QED
  BY <1>1, Invariant, PTL

\* The answers of a complete capture, by the query.
LEMMA CompleteAnswers ==
  ASSUME Inv, Complete, NEW n \in 1..LastQuery
  PROVE  /\ n \in DOMAIN answers
         /\ Answer(Queries[n]) = answers[n]
         /\ Sound(Queries[n], answers[n])
         /\ Full(n)
<1>1. n \in DOMAIN answers
  BY QueryOrder DEF Inv, AnswersOK, Complete
<1> QED
  BY <1>1, AnswerAt DEF Inv, SoundInv, FullInv

\* The answers the labels are inferred from, in their order: those of all queries
\* between the position and the fills.
LEMMA PartsAre ==
  ASSUME Inv, Complete
  PROVE  /\ DOMAIN Parts = 1..(LastQuery - 2)
         /\ \A n \in 1..(LastQuery - 2) : Parts[n] = answers[n + 1]
         /\ FillsOf = OrdersIn(answers[LastQuery])
         /\ Answer(Ask("positions")) = answers[1]
         /\ Answer(Ask("fills")) = answers[LastQuery]
<1> DEFINE first == <<Answer(Ask("pending")), Answer(Ask("history"))>>
           algos == [n \in DOMAIN AlgoQueries |-> Answer(AlgoQueries[n])]
<1>1. /\ Len(AlgoTypes) \in Nat /\ LastQuery = 2 * Len(AlgoTypes) + 4
      /\ Queries[1] = Ask("positions") /\ Queries[2] = Ask("pending")
      /\ Queries[3] = Ask("history") /\ Queries[LastQuery] = Ask("fills")
  BY QueryOrder DEF LastQuery
<1>2. DOMAIN AlgoQueries = 1..(2 * Len(AlgoTypes))
  BY AlgoQueryOrder
<1>3. \A n \in 1..LastQuery : Answer(Queries[n]) = answers[n]
  BY CompleteAnswers
<1>4. /\ Answer(Ask("positions")) = answers[1]
      /\ first = <<answers[2], answers[3]>>
      /\ Answer(Ask("fills")) = answers[LastQuery]
  BY <1>1, <1>3
<1>5. \A n \in 1..(2 * Len(AlgoTypes)) : algos[n] = answers[n + 3]
  <2> SUFFICES ASSUME NEW n \in 1..(2 * Len(AlgoTypes))
               PROVE  algos[n] = answers[n + 3]
    OBVIOUS
  <2>1. n + 3 \in 1..LastQuery /\ Queries[n + 3] = AlgoQueries[n]
    <3>1. n + 3 \in 1..LastQuery
      BY <1>1
    <3> QED
      BY <3>1, QueryOrder
  <2> QED
    BY <2>1, <1>2, <1>3
<1>6. \A n \in 1..LastQuery : answers[n] \in Replies
  BY CompleteAnswers DEF Inv, AnswersOK
<1>7. first \in Seq(Replies) /\ Len(first) = 2
  BY <1>1, <1>4, <1>6
<1>8. algos \in Seq(Replies) /\ Len(algos) = 2 * Len(AlgoTypes)
  <2>1. \A n \in 1..(2 * Len(AlgoTypes)) : algos[n] \in Replies
    <3>1. \A n \in 1..(2 * Len(AlgoTypes)) : n + 3 \in 1..LastQuery
      BY <1>1
    <3> HIDE DEF algos
    <3> QED
      BY <3>1, <1>5, <1>6
  <2> QED
    BY <2>1, <1>1, <1>2
<1>9. Parts = first \o algos
  BY DEF Parts
<1> HIDE DEF first, algos
<1>10. /\ Parts \in Seq(Replies) /\ Len(Parts) = LastQuery - 2
       /\ \A i \in 1..(LastQuery - 2) :
            Parts[i] = IF i <= 2 THEN first[i] ELSE algos[i - 2]
  <2>1. /\ first \o algos \in Seq(Replies)
        /\ Len(first \o algos) = Len(first) + Len(algos)
        /\ \A i \in 1..(Len(first) + Len(algos)) : (first \o algos)[i] =
             IF i <= Len(first) THEN first[i] ELSE algos[i - Len(first)]
    BY <1>7, <1>8, ConcatProperties
  <2>2. Len(first) + Len(algos) = LastQuery - 2
    BY <1>1, <1>7, <1>8
  <2> QED
    BY <2>1, <2>2, <1>7, <1>9
<1>11. \A n \in 1..(LastQuery - 2) : Parts[n] = answers[n + 1]
  BY <1>1, <1>4, <1>5, <1>10
<1> QED
  BY <1>1, <1>4, <1>10, <1>11 DEF FillsOf, OrdersIn

\* The position of a snapshot is explained by its fills: the position is asked
\* for first and the fills last, and what has filled stays filled.
THEOREM PositionCorrect == Spec => []PositionExplained
<1>1. ASSUME Inv, Complete
      PROVE  \E S \in SUBSET FillsOf : NetLots(S) = Answer(Ask("positions"))
  <2>1. Full(LastQuery) /\ Queries[LastQuery][1] = "fills"
    BY <1>1, CompleteAnswers, QueryKind, QueryOrder
  <2>2. \E S \in SUBSET OrdersIn(answers[LastQuery]) : NetLots(S) = answers[1]
    BY <2>1 DEF Full
  <2> QED
    BY <1>1, <2>2, PartsAre
<1>2. Inv => PositionExplained
  BY <1>1 DEF PositionExplained
<1> QED
  BY <1>2, Invariant, PTL

\* No order that existed when the capture began is missing from a snapshot without
\* warnings: what leaves the pending orders before they are asked for is in the
\* history, which is asked for later.
THEOREM NothingMissingCorrect == Spec => []NothingMissing
<1>1. ASSUME Inv, Complete, warnings = {}, NEW o \in before.existed
      PROVE  o \in Reported
  <2>1. \A n \in 1..LastQuery : Full(n)
    BY <1>1, CompleteAnswers
  <2>2. ASSUME NEW n \in 1..(LastQuery - 2), o \in OrdersIn(answers[n + 1])
        PROVE  o \in Reported
    BY <1>1, <2>2, PartsAre DEF Reported, OrdersIn
  <2>3. LastQuery = 2 * Len(AlgoTypes) + 4 /\ Len(AlgoTypes) \in Nat
    BY QueryOrder DEF LastQuery
  <2>4. CASE o \notin Algos
    <3>1. Full(3) /\ Queries[3][1] = "history"
      BY <2>1, <2>3, QueryKind
    <3>2. o \in OrdersIn(answers[2]) \/ o \in OrdersIn(answers[3])
      BY <1>1, <2>4, <3>1 DEF Full
    <3> QED
      BY <2>2, <2>3, <3>2
  <2>5. CASE o \in Algos
    <3>1. PICK k \in 1..Len(AlgoTypes) : AlgoType[o] = AlgoTypes[k]
      BY <2>5, AlgoTypeAssumption, QueryOrder DEF ToSet
    <3>2. /\ 2 * k + 3 \in 1..LastQuery
          /\ 2 * k + 2 \in 1..(LastQuery - 2) /\ 2 * k + 1 \in 1..(LastQuery - 2)
      BY <2>3
    <3>3. Queries[2 * k + 3] = <<"algos_history", AlgoTypes[k]>>
      BY QueryOrder
    <3>4. o \in OrdersIn(answers[(2 * k + 3) - 1]) \/ o \in OrdersIn(answers[2 * k + 3])
      BY <1>1, <2>1, <2>5, <3>1, <3>2, <3>3 DEF Full
    <3>5. (2 * k + 3) - 1 = (2 * k + 1) + 1 /\ 2 * k + 3 = (2 * k + 2) + 1
      BY <2>3
    <3> QED
      BY <2>2, <3>2, <3>4, <3>5
  <2> QED
    BY <2>4, <2>5
<1>2. Inv => NothingMissing
  BY <1>1 DEF NothingMissing
<1> QED
  BY <1>2, Invariant, PTL

-------------------------------------------------------------------------------
(* The labels.                                                             *)

\* The order history labels an order as it should, except a triggered algo order
\* whose own record does not tell the side: it looks closed by hand.
LEMMA InferFromOrder ==
  ASSUME TypeOK, SideInv, NEW o \in Order
  PROVE  InferCloseSource(OrderItem(o)) =
           IF o \in Algos /\ ~told[o] THEN "provider_manual" ELSE CloseSource(o)
<1> USE DEF TypeOK, SideInv, InferCloseSource, OrderItem, CloseSource, Algos, Closing, None
<1>1. Role[o] \in {"entry", "close", "manual", "attached", "standalone"}
  BY RoleAssumption
<1>2. CASE told[o]
  BY <1>2
<1>3. CASE ~told[o] /\ o \in Algos
  BY <1>3
<1>4. CASE ~told[o] /\ o \notin Algos
  <2>1. side[o] = None
    BY <1>4
  <2> QED
    BY <1>1, <1>4, <2>1
<1> QED
  BY <1>2, <1>3, <1>4

\* The algo history labels the order a triggered algo order created, and no other.
LEMMA InferFromAlgo ==
  ASSUME TypeOK, SideInv, NEW p \in Algos, Over(p), NEW o \in Order
  PROVE  /\ state[p] = "filled" =>
              /\ InferCloseSource(AlgoItem(p)) = CloseSource(p)
              /\ InferCloseSource(AlgoItem(p)) # None
              /\ <<"order", p>> \in AlgoItem(p).refs
         /\ <<"order", o>> \in AlgoItem(p).refs /\ InferCloseSource(AlgoItem(p)) # None
              => p = o /\ state[p] = "filled"
<1> USE DEF TypeOK, SideInv, InferCloseSource, AlgoItem, CloseSource, Algos, None
<1>1. CASE state[p] = "filled"
  BY <1>1
<1>2. CASE state[p] # "filled"
  <2>1. side[p] = None
    BY <1>2
  <2>2. <<"order", o>> \in AlgoItem(p).refs => Role[p] = "attached"
    BY <1>2
  <2>3. Role[p] = "attached" => InferCloseSource(AlgoItem(p)) = None
    BY <2>1
  <2> QED
    BY <1>2, <2>2, <2>3
<1> QED
  BY <1>1, <1>2

\* An algo order's type stands at one index.
LEMMA TypeIndex ==
  ASSUME NEW o \in Algos
  PROVE  \E k \in 1..Len(AlgoTypes) :
           /\ AlgoType[o] = AlgoTypes[k]
           /\ \A l \in 1..Len(AlgoTypes) : AlgoTypes[l] = AlgoTypes[k] => l = k
<1>1. DOMAIN AlgoTypes = 1..Len(AlgoTypes)
  BY QueryOrder
<1> QED
  BY <1>1, AlgoTypeAssumption, AlgoTypesAssumption DEF ToSet

\* What labels the order of a fill, and where it can stand: in the order queries,
\* or in the history of the algo type, which labels it truly.
LEMMA LabellingItem ==
  ASSUME Inv, Complete, NEW o \in Order, NEW n \in 1..(LastQuery - 2),
         NEW i \in Labelling(Parts[n], <<"order", o>>)
  PROVE  /\ \/ InferCloseSource(i) = CloseSource(o)
            \/ /\ n = 2 /\ o \in Algos /\ ~told[o] /\ state[o] = "filled"
               /\ o \in OrdersIn(answers[3])
               /\ InferCloseSource(i) = "provider_manual"
         /\ \/ n \in {1, 2}
            \/ /\ o \in Algos
               /\ \E k \in 1..Len(AlgoTypes) : n = 2 * k + 2 /\ AlgoTypes[k] = AlgoType[o]
<1>1. /\ LastQuery = 2 * Len(AlgoTypes) + 4 /\ Len(AlgoTypes) \in Nat
      /\ n + 1 \in 1..LastQuery /\ n + 1 # 1 /\ n + 1 # LastQuery /\ n \in Nat
  BY QueryOrder DEF LastQuery
<1>2. /\ i \in answers[n + 1] /\ <<"order", o>> \in i.refs /\ InferCloseSource(i) # None
  BY PartsAre DEF Labelling
<1>3. Sound(Queries[n + 1], answers[n + 1])
  BY <1>1, CompleteAnswers
<1>4. TypeOK /\ SideInv
  BY DEF Inv
<1>5. \A p : <<"order", o>> \in OrderItem(p).refs => p = o
  BY DEF OrderItem
<1>6. CASE n = 1
  <2>1. Queries[n + 1][1] = "pending"
    BY <1>1, <1>6, QueryKind
  <2>2. i.order \in Order \ Algos /\ i = OrderItem(i.order)
    BY <1>2, <1>3, <2>1 DEF Sound
  <2>3. i.order = o
    BY <1>2, <1>5, <2>2
  <2> QED
    BY <1>4, <1>6, <2>2, <2>3, InferFromOrder
<1>7. CASE n = 2
  <2>1. Queries[n + 1][1] = "history"
    BY <1>1, <1>7, QueryKind
  <2>2. /\ i.order \in Order /\ i = OrderItem(i.order)
        /\ i.order \in Algos => state[i.order] = "filled"
    BY <1>2, <1>3, <2>1 DEF Sound
  <2>3. i.order = o
    BY <1>2, <1>5, <2>2
  <2>4. o \in OrdersIn(answers[3])
    BY <1>2, <1>7, <2>3 DEF OrdersIn
  <2>5. InferCloseSource(i) = IF o \in Algos /\ ~told[o] THEN "provider_manual" ELSE CloseSource(o)
    BY <1>4, <2>2, <2>3, InferFromOrder
  <2> QED
    BY <1>7, <2>2, <2>3, <2>4, <2>5
<1>8. ASSUME NEW k \in 1..Len(AlgoTypes), n + 1 = 2 * k + 2
      PROVE  FALSE
  <2>1. Queries[n + 1][1] = "algos_pending"
    BY <1>1, <1>8, QueryKind
  <2>2. i.actualSide = None /\ (i.reduceOnly => <<"order", o>> \notin i.refs)
    BY <1>2, <1>3, <2>1 DEF Sound
  <2> QED
    BY <1>2, <2>2 DEF InferCloseSource, None
<1>9. ASSUME NEW k \in 1..Len(AlgoTypes), n + 1 = 2 * k + 3
      PROVE  /\ InferCloseSource(i) = CloseSource(o)
             /\ o \in Algos /\ n = 2 * k + 2 /\ AlgoTypes[k] = AlgoType[o]
  <2>1. Queries[n + 1][1] = "algos_history" /\ Queries[n + 1][2] = AlgoTypes[k]
    <3>1. Queries[2 * k + 3] = <<"algos_history", AlgoTypes[k]>>
      BY QueryOrder
    <3> QED
      BY <1>9, <3>1
  <2>2. /\ i.order \in Algos /\ AlgoType[i.order] = AlgoTypes[k]
        /\ Over(i.order) /\ i = AlgoItem(i.order)
    BY <1>2, <1>3, <2>1 DEF Sound
  <2>3. i.order = o /\ state[o] = "filled"
    BY <1>2, <1>4, <2>2, InferFromAlgo
  <2>4. InferCloseSource(i) = CloseSource(o)
    BY <1>4, <2>2, <2>3, InferFromAlgo
  <2> QED
    BY <1>1, <1>9, <2>2, <2>3, <2>4
<1>10. \/ n \in {1, 2}
       \/ \E k \in 1..Len(AlgoTypes) : n + 1 = 2 * k + 2 \/ n + 1 = 2 * k + 3
  <2>1. \/ n + 1 \in {1, 2, 3, LastQuery}
        \/ \E k \in 1..Len(AlgoTypes) : n + 1 = 2 * k + 2 \/ n + 1 = 2 * k + 3
    BY <1>1, QueryOrder
  <2> QED
    BY <1>1, <2>1
<1> QED
  BY <1>6, <1>7, <1>8, <1>9, <1>10

\* A triggered algo order that the history of its type tells of is labelled there.
LEMMA AlgoLabelled ==
  ASSUME Inv, Complete, NEW o \in Algos, state[o] = "filled",
         NEW k \in 1..Len(AlgoTypes), AlgoType[o] = AlgoTypes[k],
         o \in OrdersIn(answers[2 * k + 3])
  PROVE  /\ 2 * k + 2 \in 1..(LastQuery - 2)
         /\ Labelling(Parts[2 * k + 2], <<"order", o>>) # {}
<1>1. /\ LastQuery = 2 * Len(AlgoTypes) + 4 /\ Len(AlgoTypes) \in Nat
      /\ 2 * k + 3 \in 1..LastQuery /\ 2 * k + 2 \in 1..(LastQuery - 2)
      /\ (2 * k + 2) + 1 = 2 * k + 3
  BY QueryOrder DEF LastQuery
<1>2. Queries[2 * k + 3] = <<"algos_history", AlgoTypes[k]>>
  BY QueryOrder
<1>3. PICK i \in answers[2 * k + 3] : i.order = o
  BY DEF OrdersIn
<1>4. i = AlgoItem(o) /\ Over(o)
  BY <1>1, <1>2, <1>3, CompleteAnswers DEF Sound
<1>5. <<"order", o>> \in i.refs /\ InferCloseSource(i) # None
  BY <1>4, InferFromAlgo DEF Inv, Algos
<1>6. Parts[2 * k + 2] = answers[2 * k + 3]
  BY <1>1, PartsAre
<1> QED
  BY <1>1, <1>3, <1>5, <1>6 DEF Labelling

\* A set of at most three numbers, as the parts that label one order are, has a
\* greatest one.
LEMMA MaxOfThree ==
  ASSUME NEW c \in Int, NEW S, S \subseteq {1, 2, c}, S # {}
  PROVE  Max(S) \in S /\ \A n \in S : n <= Max(S)
<1>1. \E m \in S : \A n \in S : m >= n
  <2>1. CASE c \in S /\ (1 \in S => c >= 1) /\ (2 \in S => c >= 2)
    BY <2>1
  <2>2. CASE 2 \in S /\ (c \in S => 2 >= c)
    BY <2>2
  <2>3. CASE 1 \in S /\ 2 \notin S /\ (c \in S => 1 >= c)
    BY <2>3
  <2>4. 1 \in S \/ 2 \in S \/ c \in S
    OBVIOUS
  <2> QED
    BY <2>1, <2>2, <2>3, <2>4
<1> QED
  BY <1>1 DEF Max

\* A fill is labelled by the last part that labels its order, if any does; the
\* label is true, or it is that of the order history and no algo history of the
\* order's type labels it.
LEMMA FillLabel ==
  ASSUME Inv, Complete, NEW o \in FillsOf
  PROVE  LET L == {n \in DOMAIN Parts : Labelling(Parts[n], <<"order", o>>) # {}}
         IN /\ o \in Order
            /\ L = {} => Labels[o] = None
            /\ L # {} =>
                 /\ Labels[o] # None
                 /\ \/ Labels[o] = CloseSource(o)
                    \/ /\ o \in Algos /\ ~told[o] /\ state[o] = "filled"
                       /\ o \in OrdersIn(answers[3])
                       /\ Labels[o] = "provider_manual"
                       /\ \A n \in L : n <= 2
<1> DEFINE ref == <<"order", o>>
           L == {n \in DOMAIN Parts : Labelling(Parts[n], ref) # {}}
           item == CHOOSE i \in Answer(Ask("fills")) : i.order = o
<1>1. item.order = o /\ item \in answers[LastQuery]
  BY PartsAre DEF FillsOf
<1>2. o \in Order /\ item = FillItem(o)
  <2>1. Sound(Queries[LastQuery], answers[LastQuery]) /\ Queries[LastQuery][1] = "fills"
    BY CompleteAnswers, QueryKind, QueryOrder
  <2> QED
    BY <1>1, <2>1 DEF Sound, Filled
<1>3. InferCloseSource(item) = None /\ (CHOOSE r \in item.refs : TRUE) = ref
  <2> HIDE DEF item
  <2>1. item.refs = {ref} /\ item.actualSide = None /\ ~item.reduceOnly
    BY <1>2 DEF FillItem
  <2> QED
    BY <2>1 DEF InferCloseSource, None
<1>4. Labels[o] = CloseSourceOf(Parts, ref)
  <2>1. Labels[o] = FillCloseSource(item, Parts)
    BY DEF Labels
  <2> HIDE DEF item
  <2> QED
    BY <1>3, <2>1 DEF FillCloseSource
<1>5. L = {} => Labels[o] = None
  BY <1>4 DEF CloseSourceOf
<1>6. ASSUME L # {}
      PROVE  /\ Labels[o] # None
             /\ \/ Labels[o] = CloseSource(o)
                \/ /\ o \in Algos /\ ~told[o] /\ state[o] = "filled"
                   /\ o \in OrdersIn(answers[3])
                   /\ Labels[o] = "provider_manual"
                   /\ \A n \in L : n <= 2
  <2>1. \A n \in L : n \in 1..(LastQuery - 2) /\ Labelling(Parts[n], ref) # {}
    BY PartsAre
  <2>2. \A n \in L : n \in {1, 2} \/
          (o \in Algos /\ \E k \in 1..Len(AlgoTypes) : n = 2 * k + 2 /\ AlgoTypes[k] = AlgoType[o])
    BY <1>2, <2>1, LabellingItem
  <2>3. \E h \in Int : L \subseteq {1, 2, h}
    <3>1. CASE o \in Algos
      <4>1. PICK k \in 1..Len(AlgoTypes) :
              \A l \in 1..Len(AlgoTypes) : AlgoTypes[l] = AlgoType[o] => l = k
        BY <3>1, TypeIndex
      <4>2. L \subseteq {1, 2, 2 * k + 2} /\ 2 * k + 2 \in Int
        <5>1. Len(AlgoTypes) \in Nat
          BY QueryOrder
        <5>2. \A n \in L : n \in {1, 2, 2 * k + 2}
          <6> HIDE DEF L
          <6> QED
            BY <2>2, <4>1
        <5> QED
          BY <5>1, <5>2
      <4> QED
        BY <4>2
    <3>2. CASE o \notin Algos
      <4>1. L \subseteq {1, 2, 2}
        BY <2>2, <3>2
      <4> QED
        BY <4>1
    <3> QED
      BY <3>1, <3>2
  <2> DEFINE m == Max(L)
             i == CHOOSE j \in Labelling(Parts[m], ref) : TRUE
  <2>4. m \in L /\ \A n \in L : n <= m
    <3> HIDE DEF L
    <3>1. PICK h \in Int : L \subseteq {1, 2, h}
      BY <2>3
    <3>2. Max(L) \in L /\ \A n \in L : n <= Max(L)
      BY <1>6, <3>1, MaxOfThree
    <3> QED
      BY <3>2
  <2>5. Labels[o] = InferCloseSource(i)
    BY <1>4, <1>6 DEF CloseSourceOf
  <2>6. m \in 1..(LastQuery - 2) /\ Labelling(Parts[m], ref) # {}
    <3> HIDE DEF m, L
    <3> QED
      BY <2>1, <2>4
  <2>7. i \in Labelling(Parts[m], ref)
    <3> HIDE DEF m
    <3> QED
      BY <2>6
  <2> HIDE DEF m, L, i
  <2>8. \/ InferCloseSource(i) = CloseSource(o)
        \/ /\ m = 2 /\ o \in Algos /\ ~told[o] /\ state[o] = "filled"
           /\ o \in OrdersIn(answers[3])
           /\ InferCloseSource(i) = "provider_manual"
    BY <1>2, <2>6, <2>7, LabellingItem
  <2>9. InferCloseSource(i) # None
    BY <2>7 DEF Labelling
  <2> QED
    BY <2>4, <2>5, <2>8, <2>9
<1> QED
  BY <1>2, <1>5, <1>6

\* A triggered algo order in the history of orders is in that of its algo type,
\* which is asked for later and is the last word on its label.
LEMMA LastWord ==
  ASSUME Inv, Complete, warnings = {}, NEW o \in FillsOf, o \in Algos, state[o] = "filled",
         o \in before.filled \cup OrdersIn(answers[3])
  PROVE  Labels[o] = CloseSource(o)
<1> DEFINE L == {n \in DOMAIN Parts : Labelling(Parts[n], <<"order", o>>) # {}}
<1>1. PICK k \in 1..Len(AlgoTypes) : AlgoType[o] = AlgoTypes[k]
  BY TypeIndex
<1>2. 2 * k + 3 \in 1..LastQuery /\ k \in Nat /\ k >= 1
  BY QueryOrder DEF LastQuery
<1>3. Queries[2 * k + 3] = <<"algos_history", AlgoTypes[k]>>
  BY QueryOrder
<1>4. o \in OrdersIn(answers[2 * k + 3])
  BY <1>1, <1>2, <1>3, CompleteAnswers DEF Full
<1>5. 2 * k + 2 \in L
  BY <1>1, <1>4, AlgoLabelled, PartsAre
<1>6. ~(2 * k + 2 <= 2)
  BY <1>2
<1>7. L # {}
  BY <1>5
<1> QED
  BY <1>5, <1>6, <1>7, FillLabel

\* A fill has its true label or none; only an unavailable algo query lets a
\* triggered algo order pass for a close by hand.
THEOREM LabelsTrue == Spec => []LabelsTruthful
<1>1. ASSUME Inv, Complete, NEW o \in FillsOf
      PROVE  \/ Labels[o] \in {CloseSource(o), None}
             \/ /\ warnings # {} /\ o \in Algos /\ ~told[o]
                /\ Labels[o] = "provider_manual"
  BY <1>1, FillLabel, LastWord
<1>2. Inv => LabelsTruthful
  BY <1>1 DEF LabelsTruthful
<1> QED
  BY <1>2, Invariant, PTL

\* What had filled when the capture began has its true label, unless a warning
\* says that the snapshot may miss it.
THEOREM LabelsCompleteCorrect == Spec => []LabelsComplete
<1>1. ASSUME Inv, Complete, warnings = {}, NEW o \in before.filled
      PROVE  Labels[o] = CloseSource(o)
  <2> DEFINE L == {n \in DOMAIN Parts : Labelling(Parts[n], <<"order", o>>) # {}}
  <2>1. o \in Order /\ state[o] = "filled"
    BY <1>1 DEF Inv, BeforeInv, Filled
  <2>2. o \in FillsOf
    <3>1. Full(LastQuery) /\ Queries[LastQuery][1] = "fills"
      BY <1>1, CompleteAnswers, QueryKind, QueryOrder
    <3> QED
      BY <1>1, <3>1, PartsAre DEF Full
  <2>3. CASE o \in Algos
    BY <1>1, <2>1, <2>2, <2>3, LastWord
  <2>4. CASE o \notin Algos /\ CloseSource(o) # None
    <3>1. Full(3) /\ Sound(Queries[3], answers[3]) /\ Queries[3][1] = "history"
      BY <1>1, CompleteAnswers, QueryKind, QueryOrder
    <3>2. o \in OrdersIn(answers[3])
      BY <1>1, <3>1 DEF Full
    <3>3. PICK i \in answers[3] : i.order = o
      BY <3>2 DEF OrdersIn
    <3>4. i = OrderItem(o)
      BY <3>1, <3>3 DEF Sound
    <3>5. InferCloseSource(i) = CloseSource(o) /\ <<"order", o>> \in i.refs
      <4>1. InferCloseSource(OrderItem(o)) = CloseSource(o)
        BY <1>1, <2>1, <2>4, InferFromOrder DEF Inv
      <4>2. <<"order", o>> \in OrderItem(o).refs
        BY DEF OrderItem
      <4> QED
        BY <3>4, <4>1, <4>2
    <3>6. 2 \in DOMAIN Parts /\ Parts[2] = answers[3]
      BY <1>1, PartsAre, QueryOrder
    <3>7. Labelling(Parts[2], <<"order", o>>) # {}
      BY <2>4, <3>3, <3>5, <3>6 DEF Labelling
    <3>8. L # {}
      BY <3>6, <3>7
    <3> QED
      BY <1>1, <2>2, <2>4, <3>8, FillLabel
  <2>5. CASE o \notin Algos /\ CloseSource(o) = None
    BY <1>1, <2>2, <2>5, FillLabel
  <2> QED
    BY <2>3, <2>4, <2>5
<1>2. Inv => LabelsComplete
  BY <1>1 DEF LabelsComplete
<1> QED
  BY <1>2, Invariant, PTL

===============================================================================
