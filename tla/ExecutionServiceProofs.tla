----------------------- MODULE ExecutionServiceProofs -----------------------
(***************************************************************************)
(* Theorems about ExecutionService, for every set of payloads, every bound *)
(* and every ageing threshold.                                             *)
(***************************************************************************)
EXTENDS ExecutionService, SequenceTheorems, TLAPS

(* Row operators map rows to rows. *)
LEMMA FreshRowType ==
  ASSUME NEW H, NEW O, NEW h \in H, NEW st \in IdemStatus
  PROVE  FreshRow(st, h) \in IdemRow(H, O)
BY IdempotencyAssumption DEF FreshRow, IdemRow, NoId, IdemStatus

LEMMA ReserveType ==
  ASSUME NEW H, NEW O, NEW h \in H, NEW r \in IdemRow(H, O), NEW promote \in BOOLEAN
  PROVE  Reserve(r, h, promote) \in IdemRow(H, O)
BY FreshRowType DEF Reserve, IdemStatus

LEMMA FinalizeType ==
  ASSUME NEW H, NEW O, NEW r \in IdemRow(H, O), NEW act \in BOOLEAN, NEW coid \in BOOLEAN,
         NEW oid \in O \cup {NoId}, NEW st \in IdemStatus
  PROVE  Finalize(r, act, coid, oid, st) \in IdemRow(H, O)
BY DEF Finalize, IdemRow

LEMMA SetRecoveryType ==
  ASSUME NEW H, NEW O, NEW r \in IdemRow(H, O), NEW n \in 0..MaxRecovery,
         NEW wait \in BOOLEAN, NEW st \in IdemStatus
  PROVE  SetRecovery(r, n, wait, st) \in IdemRow(H, O)
BY DEF SetRecovery, IdemRow

LEMMA PruneType ==
  ASSUME NEW H, NEW O, NEW r \in IdemRow(H, O)
  PROVE  Prune(r) \in IdemRow(H, O)
<1>1. r.hash \in H
  BY DEF IdemRow
<1>2. FreshRow("NONE", r.hash) \in IdemRow(H, O)
  BY <1>1, FreshRowType DEF IdemStatus
<1> QED
  BY <1>2 DEF Prune

LEMMA AgeRowType ==
  ASSUME NEW H, NEW O, NEW r \in IdemRow(H, O)
  PROVE  AgeRow(r) \in IdemRow(H, O)
<1>1. r.age \in 0..ExpiryAge
  BY DEF IdemRow
<1> DEFINE a == IF r.status = "NONE" \/ r.age = ExpiryAge THEN r.age ELSE r.age + 1
<1>2. a \in 0..ExpiryAge
  BY <1>1, IdempotencyAssumption DEF IdempotencyAssumption
<1>3. AgeRow(r) = [r EXCEPT !.age = a, !.wait = FALSE]
  BY DEF AgeRow, IdemRow
<1> HIDE DEF a
<1> QED
  BY <1>2, <1>3 DEF IdemRow

LEMMA SaveOrderType ==
  ASSUME NEW row \in OrderRow, NEW oid \in OrderId \cup {NoId}, NEW st \in OrderStatus
  PROVE  SaveOrder(row, oid, st) \in OrderRow
<1>1. 0 \in 0..GraceAge
  BY IdempotencyAssumption DEF IdempotencyAssumption
<1> QED
  BY <1>1 DEF SaveOrder, OrderRow

LEMMA SetStatusType ==
  ASSUME NEW row \in OrderRow, NEW st \in OrderStatus
  PROVE  SetStatus(row, st) \in OrderRow
<1>1. 0 \in 0..GraceAge /\ -1 \in -1..LookbackAge
  BY IdempotencyAssumption, ServiceAssumption DEF IdempotencyAssumption, ServiceAssumption
<1> QED
  BY <1>1 DEF SetStatus, OrderRow

LEMMA AgeOrderType ==
  ASSUME NEW row \in OrderRow
  PROVE  AgeOrder(row) \in OrderRow
<1> DEFINE a == IF row.st = "new" /\ row.age < GraceAge THEN row.age + 1 ELSE row.age
           s == IF row.seen >= 0 /\ row.seen < LookbackAge THEN row.seen + 1 ELSE row.seen
<1>1. a \in 0..GraceAge
  BY IdempotencyAssumption DEF IdempotencyAssumption, OrderRow
<1>2. s \in -1..LookbackAge
  BY ServiceAssumption DEF ServiceAssumption, OrderRow
<1>3. AgeOrder(row) = [row EXCEPT !.age = a, !.wait = FALSE, !.seen = s]
  BY DEF AgeOrder
<1> HIDE DEF a, s
<1> QED
  BY <1>1, <1>2, <1>3 DEF OrderRow

LEMMA AgeEntryType ==
  ASSUME NEW e \in BookEntry
  PROVE  AgeEntry(e) \in BookEntry
<1> DEFINE a == IF e.age < LookbackAge THEN e.age + 1 ELSE e.age
<1>1. a \in 0..LookbackAge
  BY ServiceAssumption DEF ServiceAssumption, BookEntry
<1>2. AgeEntry(e) = [e EXCEPT !.age = a]
  BY DEF AgeEntry
<1> HIDE DEF a
<1> QED
  BY <1>1, <1>2 DEF BookEntry

(* What a lookup finds is an order id of the book. *)
LEMMA LookupType ==
  ASSUME TypeOK, NEW p \in Payload, NEW o \in Lookup(p)
  PROVE  o \in OrderId \cup {NoId}
<1>1. DOMAIN book \subseteq OrderId
  BY ServiceAssumption DEF TypeOK, OrderId
<1> QED
  BY <1>1 DEF Lookup, Matching, OpenSet, AllSince, Visible

LEMMA KeyType ==
  ASSUME TypeOK, cur \in Payload
  PROVE  key \in Key
BY ServiceAssumption DEF TypeOK, key, KeyOf, Key, Cycles

(* A new request at the exchange, or a changed one, keeps the book a book.  *)
LEMMA PlacedType ==
  ASSUME TypeOK, cur \in Payload, Len(book) < MaxOrders, NEW st \in {"flying", "open"}
  PROVE  /\ Placed(st) \in Seq(BookEntry)
         /\ Len(Placed(st)) = Len(book) + 1
         /\ Len(Placed(st)) \in OrderId
<1> DEFINE e == [coid |-> cur, key |-> key, st |-> st, age |-> 0]
<1>1. e \in BookEntry
  BY KeyType, ServiceAssumption DEF ServiceAssumption, BookEntry
<1>2. book \in Seq(BookEntry) /\ Len(book) \in Nat
  BY DEF TypeOK
<1> HIDE DEF e
<1>3. Append(book, e) \in Seq(BookEntry) /\ Len(Append(book, e)) = Len(book) + 1
  BY <1>1, <1>2
<1>4. Placed(st) = Append(book, e)
  BY DEF Placed, e
<1> QED
  BY <1>2, <1>3, <1>4, ServiceAssumption DEF ServiceAssumption, OrderId

LEMMA ReconciledType ==
  ASSUME TypeOK, NEW p \in Payload, NEW S \in SUBSET Visible, NEW o \in MatchExisting(p, S)
  PROVE  Reconciled(orders[p], o) \in OrderRow
<1>1. orders[p] \in OrderRow
  BY DEF TypeOK
<1>2. CASE o # NoId
  <2>1. o \in DOMAIN book /\ book[o].st # "flying"
    BY <1>2 DEF MatchExisting, Matching, Visible
  <2>2. o \in OrderId /\ book[o] \in BookEntry
    BY <2>1, ServiceAssumption DEF ServiceAssumption, TypeOK, OrderId
  <2>3. book[o].st \in OrderStatus
    BY <2>1, <2>2 DEF BookEntry, OrderStatus
  <2> QED
    BY <1>1, <1>2, <2>2, <2>3, SaveOrderType, SetStatusType DEF Reconciled
<1>3. CASE o = NoId
  <2>1. SetStatus(orders[p], "rejected") \in OrderRow
    BY <1>1, SetStatusType DEF OrderStatus
  <2>2. [orders[p] EXCEPT !.wait = TRUE,
           !.seen = IF orders[p].seen = -1 THEN 0 ELSE orders[p].seen] \in OrderRow
    <3>1. 0 \in -1..LookbackAge
      BY ServiceAssumption DEF ServiceAssumption
    <3> QED
      BY <1>1, <3>1 DEF OrderRow
  <2> QED
    BY <1>1, <1>3, <2>1, <2>2 DEF Reconciled
<1> QED
  BY <1>2, <1>3

(* The three parts of an action that Next is a disjunction of.              *)
LEMMA InitType == Init => TypeOK
<1> SUFFICES ASSUME Init PROVE TypeOK
  OBVIOUS
<1>1. idem \in [Key -> IdemRow(Hash, OrderId)]
  BY FreshRowType, ServiceAssumption DEF Init, Hash, IdemStatus, ServiceAssumption
<1>2. acts \in [ActionType \X Key -> ActRow(OrderId)]
  BY DEF Init, ActRow, NoAction, NoId
<1>3. orders \in [Payload -> OrderRow]
  BY IdempotencyAssumption, ServiceAssumption
     DEF Init, OrderRow, NoOrder, OrderStatus, IdempotencyAssumption, ServiceAssumption
<1>4. book \in Seq(BookEntry) /\ Len(book) <= MaxOrders
  BY EmptySeq, ServiceAssumption DEF Init, ServiceAssumption
<1>5. calls \in [Key -> 0..MaxCalls] /\ clears \in [Key -> Nat]
  BY ServiceAssumption DEF Init, ServiceAssumption
<1>6. 0 \in 0..MaxAttempts /\ 0 \in Cycles /\ 0 \in Hash
  BY ServiceAssumption DEF ServiceAssumption, Cycles, Hash
<1> QED
  BY <1>1, <1>2, <1>3, <1>4, <1>5, <1>6 DEF Init, TypeOK, PC

LEMMA RefreshType == TypeOK /\ Refresh => TypeOK'
<1> SUFFICES ASSUME TypeOK, Refresh PROVE TypeOK'
  OBVIOUS
<1> USE DEF Goto, NoIntent, EndCycle, store, intent, exchange, history, PC
<1>s. 0 \in 0..MaxAttempts
  BY ServiceAssumption DEF ServiceAssumption
<1>1. CASE RefreshOpen
  <2>1. orders' \in [Payload -> OrderRow]
    <3>1. PICK pick \in [Payload -> OrderId \cup {NoId}] :
            orders' = [p \in Payload |->
              IF pick[p] = NoId THEN orders[p]
              ELSE SetStatus(SaveOrder(orders[p], pick[p], "open"), "open")]
      BY <1>1 DEF RefreshOpen
    <3>2. \A p \in Payload : SaveOrder(orders[p], pick[p], "open") \in OrderRow
      BY SaveOrderType DEF TypeOK, OrderStatus
    <3>3. \A p \in Payload : SetStatus(SaveOrder(orders[p], pick[p], "open"), "open") \in OrderRow
      BY <3>2, SetStatusType DEF OrderStatus
    <3> QED
      BY <3>1, <3>3 DEF TypeOK
  <2> QED
    BY <1>1, <2>1 DEF RefreshOpen, TypeOK
<1>2. ASSUME NEW is429 \in BOOLEAN, RefreshOpenFails(is429)
      PROVE  TypeOK'
  BY <1>2, <1>s DEF RefreshOpenFails, SyncRegistry, UnknownRows, TypeOK
<1>3. ASSUME NEW skipped \in SUBSET missing, NEW is429 \in BOOLEAN, RefreshAll(skipped, is429)
      PROVE  TypeOK'
  <2>1. orders' \in [Payload -> OrderRow]
    <3> DEFINE recent == AllSince(AllOrdersStart)
    <3>1. recent \in SUBSET Visible
      BY DEF AllSince
    <3> HIDE DEF recent
    <3>2. PICK pick \in [Payload -> OrderId \cup {NoId}] :
            /\ \A p \in Payload : IF p \in missing \ skipped
                                     THEN pick[p] \in MatchExisting(p, recent)
                                     ELSE pick[p] = NoId
            /\ orders' = [p \in Payload |-> IF p \in missing \ skipped
                                              THEN Reconciled(orders[p], pick[p])
                                              ELSE orders[p]]
      BY <1>3 DEF RefreshAll, recent
    <3>3. ASSUME NEW p \in Payload, p \in missing \ skipped
          PROVE  Reconciled(orders[p], pick[p]) \in OrderRow
      BY <3>1, <3>2, <3>3, ReconciledType
    <3> QED
      BY <3>2, <3>3 DEF TypeOK
  <2> QED
    BY <1>3, <2>1, <1>s DEF RefreshAll, SyncRegistry, UnknownRows, TypeOK
<1> QED
  BY <1>1, <1>2, <1>3 DEF Refresh

LEMMA ExecuteType == TypeOK /\ Execute => TypeOK'
<1> SUFFICES ASSUME TypeOK, Execute PROVE TypeOK'
  OBVIOUS
<1> USE DEF Goto, NoIntent, EndCycle, EndIntent, store, local, batch, intent, exchange, history, PC
<1>k. cur \in Payload => key \in Key
  BY KeyType
<1>r. cur \in Payload => idem[key] \in IdemRow(Hash, OrderId)
  BY <1>k DEF TypeOK
<1>a. cur \in Payload => acts[<<actionType, key>>] \in ActRow(OrderId)
  BY <1>k DEF TypeOK, actionType, ActionType
<1>c. pc \in PC \ {"idle", "refresh", "probe", "execute", "loop"} => cur \in Payload
  BY DEF TypeOK
<1>s. 0 \in 0..MaxAttempts
  BY ServiceAssumption DEF ServiceAssumption
<1>1. CASE ExecuteGate
  <2>1. idem' \in [Key -> IdemRow(Hash, OrderId)]
    BY <1>1, PruneType DEF ExecuteGate, TypeOK
  <2> QED
    BY <1>1, <2>1, <1>s DEF ExecuteGate, TypeOK
<1>2. CASE Suppressed
  BY <1>2, <1>s DEF Suppressed, TypeOK
<1>3. ASSUME NEW p \in Payload, Pick(p) \/ RejectPrecheck(p)
      PROVE  TypeOK'
  BY <1>3, ServiceAssumption DEF Pick, RejectPrecheck, TypeOK, ServiceAssumption
<1>4. CASE ReserveKey
  <2>0. cur \in Payload
    BY <1>4, <1>c DEF ReserveKey
  <2>1. Reserve(idem[key], rules, ~dry) \in IdemRow(Hash, OrderId)
    BY <2>0, <1>r, ReserveType DEF TypeOK
  <2>2. idem' \in [Key -> IdemRow(Hash, OrderId)]
    BY <1>4, <2>1 DEF ReserveKey, TypeOK
  <2> QED
    BY <1>4, <2>0, <2>2, <1>s DEF ReserveKey, TypeOK
<1>5. CASE RecoverWaits
  BY <1>5, <1>s DEF RecoverWaits, TypeOK
<1>6. CASE RecoverFound
  <2>0. cur \in Payload
    BY <1>6, <1>c DEF RecoverFound
  <2>1. PICK o \in Lookup(cur) :
         idem' = [idem EXCEPT ![key] =
           LET st == IF o # NoId THEN "COMMITTED" ELSE "FAILED"
           IN SetRecovery(Finalize(idem[key], FALSE, TRUE, o, st), 0, FALSE, st)]
    BY <1>6 DEF RecoverFound
  <2>2. o \in OrderId \cup {NoId}
    BY <2>0, LookupType
  <2> DEFINE st == IF o # NoId THEN "COMMITTED" ELSE "FAILED"
  <2>3. st \in IdemStatus
    BY DEF IdemStatus
  <2> HIDE DEF st
  <2>4. Finalize(idem[key], FALSE, TRUE, o, st) \in IdemRow(Hash, OrderId)
    BY <2>0, <2>2, <2>3, <1>r, FinalizeType
  <2>5. SetRecovery(Finalize(idem[key], FALSE, TRUE, o, st), 0, FALSE, st)
          \in IdemRow(Hash, OrderId)
    <3>1. 0 \in 0..MaxRecovery
      BY IdempotencyAssumption DEF IdempotencyAssumption
    <3> QED
      BY <2>3, <2>4, <3>1, SetRecoveryType
  <2>6. idem' \in [Key -> IdemRow(Hash, OrderId)]
    BY <2>1, <2>5 DEF TypeOK, st
  <2> QED
    BY <1>6, <2>6, <1>s DEF RecoverFound, TypeOK
<1>7. CASE RecoverFails
  <2>0. cur \in Payload
    BY <1>7, <1>c DEF RecoverFails
  <2> DEFINE n == idem[key].tries + 1
             m == IF n > MaxRecovery THEN MaxRecovery ELSE n
             t == n >= MaxRecovery
             st == IF t THEN "FAILED" ELSE "PENDING"
  <2>1. m \in 0..MaxRecovery
    BY <2>0, <1>r, IdempotencyAssumption DEF IdempotencyAssumption, IdemRow
  <2>2. st \in IdemStatus /\ (~t) \in BOOLEAN
    BY DEF IdemStatus
  <2>3. idem' = [idem EXCEPT ![key] = SetRecovery(idem[key], m, ~t, st)]
    BY <1>7 DEF RecoverFails
  <2> HIDE DEF n, m, t, st
  <2>4. SetRecovery(idem[key], m, ~t, st) \in IdemRow(Hash, OrderId)
    BY <2>0, <2>1, <2>2, <1>r, SetRecoveryType
  <2>6. idem' \in [Key -> IdemRow(Hash, OrderId)]
    BY <2>3, <2>4 DEF TypeOK
  <2> QED
    BY <1>7, <2>6, <1>s DEF RecoverFails, TypeOK
<1>8. CASE MarkClient
  <2>0. cur \in Payload
    BY <1>8, <1>c DEF MarkClient
  <2>1. Finalize(idem[key], FALSE, TRUE, NoId, "PENDING") \in IdemRow(Hash, OrderId)
    BY <2>0, <1>r, FinalizeType DEF IdemStatus
  <2> QED
    BY <1>8, <2>0, <2>1 DEF MarkClient, TypeOK
<1>9. CASE RecordPlace
  <2>0. cur \in Payload
    BY <1>9, <1>c DEF RecordPlace
  <2>1. RecordAction(acts[<<actionType, key>>]) \in ActRow(OrderId)
    BY DEF RecordAction, ActRow
  <2> QED
    BY <1>9, <2>0, <2>1 DEF RecordPlace, TypeOK
<1>10. CASE NoNewAction
  <2>0. cur \in Payload
    BY <1>10, <1>c DEF NoNewAction
  <2> DEFINE a == acts[<<actionType, key>>]
             st == IF dry THEN "SIMULATED" ELSE "COMMITTED"
  <2>1. a.coid \in BOOLEAN /\ a.oid \in OrderId \cup {NoId} /\ st \in IdemStatus
    BY <2>0, <1>a DEF ActRow, IdemStatus
  <2>2. idem' = [idem EXCEPT ![key] = Finalize(idem[key], TRUE, a.coid, a.oid, st)]
    BY <1>10 DEF NoNewAction
  <2> HIDE DEF a, st
  <2>3. Finalize(idem[key], TRUE, a.coid, a.oid, st) \in IdemRow(Hash, OrderId)
    BY <2>0, <2>1, <1>r, FinalizeType
  <2>4. idem' \in [Key -> IdemRow(Hash, OrderId)]
    BY <2>2, <2>3 DEF TypeOK
  <2> QED
    BY <1>10, <2>4, <1>s DEF NoNewAction, TypeOK
<1>11. CASE BindAction
  <2>0. cur \in Payload
    BY <1>11, <1>c DEF BindAction
  <2>1. Finalize(idem[key], TRUE, TRUE, NoId, "PENDING") \in IdemRow(Hash, OrderId)
    BY <2>0, <1>r, FinalizeType DEF IdemStatus
  <2> QED
    BY <1>11, <2>0, <2>1 DEF BindAction, TypeOK
<1>12. CASE Simulate
  <2>0. cur \in Payload
    BY <1>12, <1>c DEF Simulate
  <2>1. Finalize(idem[key], TRUE, TRUE, NoId, "SIMULATED") \in IdemRow(Hash, OrderId)
    BY <2>0, <1>r, FinalizeType DEF IdemStatus
  <2>2. AttachAction(acts[<<actionType, key>>], NoId) \in ActRow(OrderId)
    BY <2>0, <1>a DEF AttachAction, ActRow
  <2> QED
    BY <1>12, <2>0, <2>1, <2>2, <1>s DEF Simulate, TypeOK
<1> QED
  BY <1>1, <1>2, <1>3, <1>4, <1>5, <1>6, <1>7, <1>8, <1>9, <1>10, <1>11, <1>12 DEF Execute

LEMMA SubmitType == TypeOK /\ Submit => TypeOK'
<1> SUFFICES ASSUME TypeOK, Submit PROVE TypeOK'
  OBVIOUS
<1> USE DEF Goto, NoIntent, EndCycle, EndIntent, store, local, batch, intent, exchange, history, PC
<1>s. 0 \in 0..MaxAttempts
  BY ServiceAssumption DEF ServiceAssumption
<1>g. got \in OrderId \cup {NoId} /\ NoId \in OrderId \cup {NoId}
  BY DEF TypeOK
<1>k. cur \in Payload => key \in Key
  BY KeyType
<1>r. cur \in Payload => idem[key] \in IdemRow(Hash, OrderId)
  BY <1>k DEF TypeOK
<1>o. cur \in Payload => orders[cur] \in OrderRow
  BY DEF TypeOK
<1>a. cur \in Payload => acts[live] \in ActRow(OrderId)
  BY <1>k DEF TypeOK, live, ActionType
<1>c. pc \in PC \ {"idle", "refresh", "probe", "execute", "loop"} => cur \in Payload
  BY DEF TypeOK
<1>1. CASE SubmitGate
  <2>0. cur \in Payload
    BY <1>1, <1>c DEF SubmitGate
  <2>1. calls[key] + 1 \in 0..MaxCalls
    BY <1>1, <1>k, <2>0, ServiceAssumption DEF SubmitGate, TypeOK, ServiceAssumption
  <2>2. calls' \in [Key -> 0..MaxCalls]
    BY <1>1, <2>1 DEF SubmitGate, TypeOK
  <2>3. 0 < MaxAttempts
    BY ServiceAssumption DEF ServiceAssumption
  <2> QED
    BY <1>1, <2>0, <2>2, <2>3, <1>s DEF SubmitGate, TypeOK
<1>2. CASE SendAcked
  <2>0. cur \in Payload
    BY <1>2, <1>c DEF SendAcked
  <2>1. /\ book' \in Seq(BookEntry)
        /\ Len(book') <= MaxOrders
        /\ got' \in OrderId
    BY <1>2, <2>0, PlacedType, ServiceAssumption DEF SendAcked, OrderId, ServiceAssumption
  <2>2. sent' \in 0..MaxAttempts /\ resent' \subseteq Key
    BY <1>2, <1>k, <2>0, ServiceAssumption DEF SendAcked, Sent, TypeOK, ServiceAssumption
  <2> QED
    BY <1>2, <2>0, <2>1, <2>2 DEF SendAcked, TypeOK
<1>3. CASE SendRejected
  <2>0. cur \in Payload
    BY <1>3, <1>c DEF SendRejected
  <2>2. sent' \in 0..MaxAttempts /\ resent' \subseteq Key
    BY <1>3, <1>k, <2>0, ServiceAssumption DEF SendRejected, Sent, TypeOK, ServiceAssumption
  <2> QED
    BY <1>3, <2>0, <2>2 DEF SendRejected, TypeOK
<1>4. ASSUME NEW fate \in {"open", "flying", "dropped"}, NEW again \in BOOLEAN,
             SendLost(fate, again)
      PROVE  TypeOK'
  <2>0. cur \in Payload
    BY <1>4, <1>c DEF SendLost
  <2>1. book' \in Seq(BookEntry) /\ Len(book') <= MaxOrders
    BY <1>4, <2>0, PlacedType, ServiceAssumption
       DEF SendLost, OrderId, ServiceAssumption, TypeOK
  <2>2. sent' \in 0..MaxAttempts /\ resent' \subseteq Key
    BY <1>4, <1>k, <2>0, ServiceAssumption DEF SendLost, Sent, TypeOK, ServiceAssumption
  <2>3. pc' = "send" => sent' < MaxAttempts
    BY <1>4 DEF SendLost, Sent
  <2> QED
    BY <1>4, <2>0, <2>1, <2>2, <2>3 DEF SendLost, TypeOK
<1>5. ASSUME NEW next \in {"confirm", "save"}, ReconcileSubmit(next)
      PROVE  TypeOK'
  <2>0. cur \in Payload
    BY <1>5, <1>c DEF ReconcileSubmit
  <2>1. got' \in OrderId \cup {NoId}
    BY <1>5, <2>0, LookupType DEF ReconcileSubmit
  <2> QED
    BY <1>5, <2>0, <2>1 DEF ReconcileSubmit, TypeOK
<1>6. CASE ReconcileFails
  BY <1>6, <1>c DEF ReconcileFails, TypeOK
<1>7. CASE SaveNew
  <2>0. cur \in Payload
    BY <1>7, <1>c DEF SaveNew
  <2>1. SaveOrder(orders[cur], got, "new") \in OrderRow
    BY <2>0, <1>o, <1>g, SaveOrderType DEF OrderStatus
  <2> QED
    BY <1>7, <2>0, <2>1, <1>s DEF SaveNew, TypeOK
<1>8. CASE PromoteOpen
  <2>0. cur \in Payload
    BY <1>8, <1>c DEF PromoteOpen
  <2>1. SetStatus(orders[cur], "open") \in OrderRow
    BY <2>0, <1>o, <1>g, SetStatusType DEF OrderStatus
  <2> QED
    BY <1>8, <2>0, <2>1, <1>s DEF PromoteOpen, TypeOK
<1>9. CASE SaveOpen
  <2>0. cur \in Payload
    BY <1>9, <1>c DEF SaveOpen
  <2>1. SaveOrder(orders[cur], got, "open") \in OrderRow
    BY <2>0, <1>o, <1>g, SaveOrderType DEF OrderStatus
  <2> QED
    BY <1>9, <2>0, <2>1, <1>s DEF SaveOpen, TypeOK
<1>10. CASE AttachOrder
  <2>0. cur \in Payload
    BY <1>10, <1>c DEF AttachOrder
  <2>1. AttachAction(acts[live], got) \in ActRow(OrderId)
    BY <2>0, <1>a, <1>g DEF AttachAction, ActRow
  <2> QED
    BY <1>10, <2>0, <2>1 DEF AttachOrder, TypeOK
<1>11. CASE CommitKey
  <2>0. cur \in Payload
    BY <1>11, <1>c DEF CommitKey
  <2>1. Finalize(idem[key], TRUE, TRUE, got, "COMMITTED") \in IdemRow(Hash, OrderId)
    BY <2>0, <1>r, <1>g, FinalizeType DEF IdemStatus
  <2> QED
    BY <1>11, <2>0, <2>1, <1>s DEF CommitKey, TypeOK
<1>12. CASE FailKey
  <2>0. cur \in Payload
    BY <1>12, <1>c DEF FailKey
  <2>1. Finalize(idem[key], TRUE, TRUE, NoId, "FAILED") \in IdemRow(Hash, OrderId)
    BY <2>0, <1>r, <1>g, FinalizeType DEF IdemStatus
  <2> QED
    BY <1>12, <2>0, <2>1, <1>s DEF FailKey, TypeOK
<1>13. CASE ClearKey
  <2>0. cur \in Payload
    BY <1>13, <1>c DEF ClearKey
  <2>1. ClearDedupe(acts[live]) \in ActRow(OrderId)
    BY DEF ClearDedupe, NoAction, ActRow
  <2>2. clears' \in [Key -> Nat]
    BY <1>13, <1>k, <2>0 DEF ClearKey, TypeOK
  <2> QED
    BY <1>13, <2>0, <2>1, <2>2, <1>s DEF ClearKey, TypeOK
<1>14. CASE MarkUnknown
  <2>0. cur \in Payload
    BY <1>14, <1>c DEF MarkUnknown
  <2>1. Finalize(idem[key], TRUE, TRUE, NoId, "UNKNOWN") \in IdemRow(Hash, OrderId)
    BY <2>0, <1>r, <1>g, FinalizeType DEF IdemStatus
  <2>2. AttachAction(acts[live], NoId) \in ActRow(OrderId)
    BY <2>0, <1>a, <1>g DEF AttachAction, ActRow
  <2> QED
    BY <1>14, <2>0, <2>1, <2>2 DEF MarkUnknown, TypeOK
<1>15. CASE Freeze
  <2>0. cur \in Payload
    BY <1>15, <1>c DEF Freeze
  <2>1. SaveOrder(orders[cur], NoId, "unknown") \in OrderRow
    BY <2>0, <1>o, <1>g, SaveOrderType DEF OrderStatus
  <2> QED
    BY <1>15, <2>0, <2>1, <1>s DEF Freeze, TypeOK
<1> QED
  BY <1>1, <1>2, <1>3, <1>4, <1>5, <1>6, <1>7, <1>8, <1>9, <1>10, <1>11, <1>12, <1>13,
     <1>14, <1>15 DEF Submit

LEMMA EnvironmentType == TypeOK /\ Environment => TypeOK'
<1> SUFFICES ASSUME TypeOK, Environment PROVE TypeOK'
  OBVIOUS
<1> USE DEF store, local, batch, intent, exchange, history
<1>1. ASSUME NEW o \in DOMAIN book, Arrive(o)
      PROVE  TypeOK'
  <2>1. book[o] \in BookEntry
    BY DEF TypeOK
  <2>2. [book[o] EXCEPT !.st = "open", !.age = 0] \in BookEntry
    <3>1. 0 \in 0..LookbackAge
      BY ServiceAssumption DEF ServiceAssumption
    <3> QED
      BY <2>1, <3>1 DEF BookEntry
  <2>3. book' = [book EXCEPT ![o] = [book[o] EXCEPT !.st = "open", !.age = 0]]
    BY <1>1 DEF Arrive
  <2>4. book' \in Seq(BookEntry) /\ Len(book') = Len(book)
    BY <2>2, <2>3, ExceptSeq DEF TypeOK
  <2> QED
    BY <1>1, <2>4 DEF Arrive, TypeOK
<1>2. ASSUME NEW o \in DOMAIN book, NEW st \in Closings, CloseOrder(o, st)
      PROVE  TypeOK'
  <2>1. book[o] \in BookEntry
    BY DEF TypeOK
  <2>2. [book[o] EXCEPT !.st = st] \in BookEntry
    BY <2>1, ServiceAssumption DEF BookEntry, ServiceAssumption
  <2>3. book' = [book EXCEPT ![o] = [book[o] EXCEPT !.st = st]]
    BY <1>2 DEF CloseOrder
  <2>4. book' \in Seq(BookEntry) /\ Len(book') = Len(book)
    BY <2>2, <2>3, ExceptSeq DEF TypeOK
  <2> QED
    BY <1>2, <2>4 DEF CloseOrder, TypeOK
<1>3. CASE Tick
  <2>1. idem' \in [Key -> IdemRow(Hash, OrderId)]
    BY <1>3, AgeRowType DEF Tick, TypeOK
  <2>2. orders' \in [Payload -> OrderRow]
    BY <1>3, AgeOrderType DEF Tick, TypeOK
  <2>3. book' \in Seq(BookEntry) /\ Len(book') <= MaxOrders
    <3>1. Len(book) \in Nat
      BY DEF TypeOK
    <3>2. book' \in [1..Len(book) -> BookEntry]
      BY <1>3, AgeEntryType DEF Tick, TypeOK
    <3>3. book' \in Seq(BookEntry)
      BY <3>1, <3>2, SeqDef
    <3>4. Len(book') = Len(book)
      BY <3>1, <3>2, <3>3
    <3> QED
      BY <3>3, <3>4 DEF TypeOK
  <2> QED
    BY <1>3, <2>1, <2>2, <2>3 DEF Tick, TypeOK
<1>4. CASE ChangeRules
  BY <1>4, ServiceAssumption DEF ChangeRules, TypeOK, Hash, ServiceAssumption
<1> QED
  BY <1>1, <1>2, <1>3, <1>4 DEF Environment

LEMMA TypeStep == TypeOK /\ [Next]_vars => TypeOK'
<1> SUFFICES ASSUME TypeOK, [Next]_vars PROVE TypeOK'
  OBVIOUS
<1> USE DEF Goto, NoIntent, EndCycle, store, local, batch, intent, exchange, history, PC
<1>s. 0 \in 0..MaxAttempts
  BY ServiceAssumption DEF ServiceAssumption
<1>1. ASSUME NEW d \in BOOLEAN, NEW intents \in SUBSET Payload, RunCycle(d, intents)
      PROVE  TypeOK'
  <2>1. cycle' \in Cycles
    BY <1>1, ServiceAssumption DEF RunCycle, TypeOK, Cycles, ServiceAssumption
  <2> QED
    BY <1>1, <1>s, <2>1 DEF RunCycle, SyncRegistry, UnknownRows, TypeOK
<1>2. CASE Crash
  <2>1. crashed' \subseteq Key
    <3>1. CASE pc \in InSubmit
      BY <1>2, <3>1, KeyType DEF Crash, TypeOK, InSubmit
    <3>2. CASE pc \notin InSubmit
      BY <1>2, <3>2 DEF Crash, TypeOK
    <3> QED
      BY <3>1, <3>2
  <2> QED
    BY <1>2, <1>s, <2>1 DEF Crash, TypeOK
<1>3. CASE UNCHANGED vars
  BY <1>3 DEF vars, TypeOK
<1> QED
  BY <1>1, <1>2, <1>3, RefreshType, ExecuteType, SubmitType, EnvironmentType DEF Next

(* TypeOK is an invariant: no path of execute_intents, of the refresh or of *)
(* the recovery leaves a table, the registry or a counter malformed.        *)
THEOREM TypeCorrect == Spec => []TypeOK
<1>1. Init => TypeOK
  BY InitType
<1>2. TypeOK /\ [Next]_vars => TypeOK'
  BY TypeStep
<1> QED
  BY <1>1, <1>2, PTL DEF Spec

-----------------------------------------------------------------------------
(* The inductive invariant behind the two promises about double submission. *)

(* Between recording the action and the call, a live submission holds the   *)
(* dedupe key and has not yet used the call it is entitled to.              *)
Entitled ==
  pc \in {"bind", "gate"} /\ ~dry => acts[live].held = 1 /\ calls[key] <= clears[key]
(* Only a live cycle gets to the gate.                                      *)
GateIsLive == pc = "gate" => ~dry
(* A rejection answers a call, and while one is being made it is unanswered.*)
Called ==
  /\ \A k \in Key : clears[k] <= calls[k]
  /\ pc \in {"send", "reject", "clear"} => calls[key] > clears[key]
(* A key with an order at the exchange has a call no rejection answered.    *)
OrderHasCall ==
  \A o \in DOMAIN book :
    book[o].key \notin resent => calls[book[o].key] > clears[book[o].key]
(* Before the first send of a call, and after its definite rejection, there *)
(* is no order of the key at the exchange.                                  *)
NothingSent ==
  pc \in {"reject", "clear"} \/ (pc = "send" /\ sent = 0)
    => key \in resent \/ \A o \in DOMAIN book : book[o].key # key

CallsInv == /\ SubmitCallsBounded
            /\ OneOrderPerKey
            /\ Entitled
            /\ GateIsLive
            /\ Called
            /\ OrderHasCall
            /\ NothingSent

(* A step that touches neither the dedupe rows, the counters nor the keys   *)
(* of the book, and does not end where CallsInv says something about pc.    *)
Quiet ==
  /\ \A k \in Key : acts'[<<"place_order", k>>].held = acts[<<"place_order", k>>].held
  /\ UNCHANGED <<calls, clears, resent>>
  /\ DOMAIN book' = DOMAIN book
  /\ \A o \in DOMAIN book : book'[o].key = book[o].key
  /\ \/ pc' \notin {"bind", "gate", "send", "reject", "clear"}
     \/ UNCHANGED <<pc, dry, cycle, cur, sent>>

LEMMA QuietCalls == TypeOK /\ CallsInv /\ Quiet => CallsInv'
<1> SUFFICES ASSUME TypeOK, CallsInv, Quiet PROVE CallsInv'
  OBVIOUS
<1>k. pc \in {"bind", "gate", "send", "reject", "clear"} => key \in Key
  BY KeyType DEF TypeOK, PC
<1>1. SubmitCallsBounded'
  BY DEF CallsInv, SubmitCallsBounded, Quiet
<1>2. OneOrderPerKey'
  BY DEF CallsInv, OneOrderPerKey, Quiet
<1>3. OrderHasCall'
  BY DEF CallsInv, OrderHasCall, Quiet
<1>4. CASE pc' \notin {"bind", "gate", "send", "reject", "clear"}
  BY <1>1, <1>2, <1>3, <1>4 DEF CallsInv, Entitled, GateIsLive, Called, NothingSent, Quiet
<1>5. CASE UNCHANGED <<pc, dry, cycle, cur, sent>>
  <2>1. key' = key /\ live' = <<"place_order", key>>
    BY <1>5 DEF key, KeyOf, live
  <2>2. Entitled'
    BY <1>5, <1>k, <2>1 DEF CallsInv, Entitled, Quiet, live
  <2>3. GateIsLive'
    BY <1>5 DEF CallsInv, GateIsLive
  <2>4. NothingSent'
    BY <1>5, <2>1 DEF CallsInv, NothingSent, Quiet
  <2>5. Called'
    BY <1>5, <2>1 DEF CallsInv, Called, Quiet
  <2> QED
    BY <1>1, <1>2, <1>3, <2>2, <2>3, <2>4, <2>5 DEF CallsInv
<1> QED
  BY <1>4, <1>5 DEF Quiet

LEMMA QuietSteps ==
  ASSUME TypeOK,
         \/ Refresh
         \/ \E d \in BOOLEAN, intents \in SUBSET Payload : RunCycle(d, intents)
         \/ Crash
         \/ Environment
         \/ ExecuteGate \/ Suppressed
         \/ \E p \in Payload : Pick(p) \/ RejectPrecheck(p)
         \/ ReserveKey \/ RecoverWaits \/ RecoverFound \/ RecoverFails \/ MarkClient
         \/ NoNewAction \/ Simulate
         \/ \E next \in {"confirm", "save"} : ReconcileSubmit(next)
         \/ ReconcileFails \/ SaveNew \/ PromoteOpen \/ SaveOpen \/ AttachOrder
         \/ CommitKey \/ MarkUnknown \/ Freeze
  PROVE  Quiet
<1> USE DEF Goto, NoIntent, EndCycle, EndIntent, store, local, batch, intent, exchange, history
<1>c. pc \in PC \ {"idle", "refresh", "probe", "execute", "loop"} => cur \in Payload
  BY DEF TypeOK
<1>1. CASE Refresh
  BY <1>1 DEF Refresh, RefreshOpen, RefreshOpenFails, RefreshAll, Quiet
<1>2. CASE \E d \in BOOLEAN, intents \in SUBSET Payload : RunCycle(d, intents)
  BY <1>2 DEF RunCycle, Quiet
<1>3. CASE Crash
  BY <1>3 DEF Crash, Quiet
<1>4. CASE Environment
  <2>1. ASSUME NEW o \in DOMAIN book, Arrive(o) \/ \E st \in Closings : CloseOrder(o, st)
        PROVE  Quiet
    <3>1. \A i \in DOMAIN book : book[i] \in BookEntry
      BY DEF TypeOK
    <3>2. \E e : book' = [book EXCEPT ![o] = e] /\ e.key = book[o].key
      <4>1. CASE Arrive(o)
        <5>1. book' = [book EXCEPT ![o] = [book[o] EXCEPT !.st = "open", !.age = 0]]
          BY <4>1 DEF Arrive
        <5>2. [book[o] EXCEPT !.st = "open", !.age = 0].key = book[o].key
          BY <3>1 DEF BookEntry
        <5> QED
          BY <5>1, <5>2
      <4>2. CASE \E st \in Closings : CloseOrder(o, st)
        <5>1. PICK st \in Closings : CloseOrder(o, st)
          BY <4>2
        <5>2. book' = [book EXCEPT ![o] = [book[o] EXCEPT !.st = st]]
          BY <5>1 DEF CloseOrder
        <5>3. [book[o] EXCEPT !.st = st].key = book[o].key
          BY <3>1 DEF BookEntry
        <5> QED
          BY <5>2, <5>3
      <4> QED
        BY <2>1, <4>1, <4>2
    <3>4. DOMAIN book' = DOMAIN book /\ \A i \in DOMAIN book : book'[i].key = book[i].key
      BY <3>2, <3>1 DEF TypeOK
    <3>3. UNCHANGED <<acts, pc, dry, cycle, cur, sent, calls, clears, resent>>
      BY <2>1 DEF Arrive, CloseOrder
    <3> QED
      BY <3>3, <3>4 DEF Quiet
  <2>2. CASE Tick
    <3>1. \A i \in DOMAIN book : book[i] \in BookEntry
      BY DEF TypeOK
    <3>2. DOMAIN book' = DOMAIN book /\ \A i \in DOMAIN book : book'[i].key = book[i].key
      BY <2>2, <3>1 DEF Tick, AgeEntry, BookEntry
    <3> QED
      BY <2>2, <3>2 DEF Tick, Quiet
  <2>3. CASE ChangeRules
    BY <2>3 DEF ChangeRules, Quiet
  <2> QED
    BY <1>4, <2>1, <2>2, <2>3 DEF Environment
<1>5. CASE ExecuteGate \/ Suppressed
  BY <1>5 DEF ExecuteGate, Suppressed, Quiet
<1>6. CASE \E p \in Payload : Pick(p) \/ RejectPrecheck(p)
  BY <1>6 DEF Pick, RejectPrecheck, Quiet
<1>7. CASE ReserveKey
  BY <1>7 DEF ReserveKey, Quiet
<1>8. CASE RecoverWaits \/ RecoverFound \/ RecoverFails
  BY <1>8 DEF RecoverWaits, RecoverFound, RecoverFails, Quiet
<1>9. CASE MarkClient \/ NoNewAction
  BY <1>9 DEF MarkClient, NoNewAction, Quiet
<1>10. CASE Simulate
  <2>1. key \in Key
    BY <1>10, <1>c, KeyType DEF Simulate, PC
  <2>2. \A k \in Key : acts'[<<"place_order", k>>].held = acts[<<"place_order", k>>].held
    BY <1>10, <2>1 DEF Simulate, AttachAction, TypeOK, ActRow, ActionType, actionType
  <2> QED
    BY <1>10, <2>2 DEF Simulate, Quiet
<1>11. CASE \E next \in {"confirm", "save"} : ReconcileSubmit(next)
  BY <1>11 DEF ReconcileSubmit, Quiet
<1>12. CASE ReconcileFails \/ SaveNew \/ PromoteOpen \/ SaveOpen
  BY <1>12 DEF ReconcileFails, SaveNew, PromoteOpen, SaveOpen, Quiet
<1>13. CASE AttachOrder
  <2>2. \A k \in Key : acts'[<<"place_order", k>>].held = acts[<<"place_order", k>>].held
    BY <1>13 DEF AttachOrder, AttachAction, TypeOK, ActRow, ActionType, live
  <2> QED
    BY <1>13, <2>2 DEF AttachOrder, Quiet
<1>14. CASE CommitKey \/ Freeze
  BY <1>14 DEF CommitKey, Freeze, Quiet
<1>15. CASE MarkUnknown
  <2>2. \A k \in Key : acts'[<<"place_order", k>>].held = acts[<<"place_order", k>>].held
    BY <1>15 DEF MarkUnknown, AttachAction, TypeOK, ActRow, ActionType, live
  <2> QED
    BY <1>15, <2>2 DEF MarkUnknown, Quiet
<1> QED
  BY <1>1, <1>2, <1>3, <1>4, <1>5, <1>6, <1>7, <1>8, <1>9, <1>10, <1>11, <1>12, <1>13,
     <1>14, <1>15

(* A request that gets to the exchange is appended to the book.             *)
LEMMA AppendKeys ==
  ASSUME TypeOK, cur \in Payload, Len(book) < MaxOrders, NEW st \in {"flying", "open"}
  PROVE  /\ DOMAIN Placed(st) = DOMAIN book \cup {Len(book) + 1}
         /\ Len(book) + 1 \notin DOMAIN book
         /\ \A o \in DOMAIN book : Placed(st)[o] = book[o]
         /\ Placed(st)[Len(book) + 1].key = key
<1> DEFINE e == [coid |-> cur, key |-> key, st |-> st, age |-> 0]
<1>1. book \in Seq(BookEntry) /\ Len(book) \in Nat /\ DOMAIN book = 1..Len(book)
  BY DEF TypeOK
<1>2. e.key = key
  OBVIOUS
<1>3. Placed(st) = Append(book, e)
  BY DEF Placed
<1> HIDE DEF e
<1>4. /\ DOMAIN Append(book, e) = 1..(Len(book) + 1)
      /\ \A o \in 1..Len(book) : Append(book, e)[o] = book[o]
      /\ Append(book, e)[Len(book) + 1] = e
  BY <1>1
<1> QED
  BY <1>1, <1>2, <1>3, <1>4

(* A send: the call's first one is the key's first order; any later one     *)
(* marks the key as sent twice.                                             *)
LEMMA SendCalls ==
  ASSUME TypeOK, CallsInv, pc = "send",
         \/ UNCHANGED book
         \/ /\ Len(book) < MaxOrders
            /\ \E st \in {"flying", "open"} : book' = Placed(st),
         Sent, UNCHANGED <<acts, cur, cycle, calls, clears>>,
         \/ pc' \in {"save", "uncertain", "send"}
         \/ pc' = "reject" /\ UNCHANGED book
  PROVE  CallsInv'
<1>0. cur \in Payload /\ key \in Key
  BY KeyType DEF TypeOK, PC
<1>1. SubmitCallsBounded'
  BY DEF CallsInv, SubmitCallsBounded
<1>2. resent \subseteq resent' /\ (sent = 0 \/ key \in resent')
  BY DEF Sent, TypeOK
<1>3. /\ DOMAIN book \subseteq DOMAIN book'
      /\ \A o \in DOMAIN book : book'[o] = book[o]
      /\ \A o \in DOMAIN book' \ DOMAIN book : book'[o].key = key /\ o = Len(book) + 1
  BY <1>0, AppendKeys
<1>4. key \in resent' \/ \A o \in DOMAIN book : book[o].key # key
  BY <1>2 DEF CallsInv, NothingSent
<1>5. OneOrderPerKey'
  BY <1>2, <1>3, <1>4 DEF CallsInv, OneOrderPerKey
<1>6. OrderHasCall'
  BY <1>2, <1>3 DEF CallsInv, Called, OrderHasCall
<1>7. key' = key
  BY DEF key, KeyOf
<1>8. NothingSent'
  <2>1. sent' # 0
    BY DEF Sent, TypeOK
  <2> QED
    BY <1>4, <1>7, <2>1 DEF NothingSent
<1>9. Called'
  BY <1>7 DEF CallsInv, Called
<1> QED
  BY <1>1, <1>5, <1>6, <1>8, <1>9 DEF CallsInv, Entitled, GateIsLive

LEMMA BookKeys ==
  ASSUME TypeOK
  PROVE  \A o \in DOMAIN book : book[o].key \in Key
<1>1. \A o \in DOMAIN book : book[o] \in BookEntry
  BY DEF TypeOK
<1> QED
  BY <1>1 DEF BookEntry

LEMMA CallsStep == TypeOK /\ CallsInv /\ [Next]_vars => CallsInv'
<1> SUFFICES ASSUME TypeOK, CallsInv, [Next]_vars PROVE CallsInv'
  OBVIOUS
<1> USE DEF Goto, NoIntent, EndCycle, EndIntent, store, local, batch, intent, exchange, history
<1>k. pc \in PC \ {"idle", "refresh", "probe", "execute", "loop"} => key \in Key
  BY KeyType DEF TypeOK
<1>1. CASE RecordPlace
  <2>0. key \in Key /\ key' = key /\ live' = <<"place_order", key>>
    BY <1>1, <1>k DEF RecordPlace, PC, key, KeyOf, live
  <2>1. \A k \in Key : acts[<<"place_order", k>>].held <= acts'[<<"place_order", k>>].held
    <3> SUFFICES ASSUME NEW k \in Key
                 PROVE  acts[<<"place_order", k>>].held <= acts'[<<"place_order", k>>].held
      OBVIOUS
    <3>1. acts[<<"place_order", k>>].held \in 0..1
      BY DEF TypeOK, ActRow, ActionType
    <3>2. CASE acts' = acts
      BY <3>1, <3>2
    <3>3. CASE acts' # acts
      <4>1. acts' = [acts EXCEPT ![<<actionType, key>>] = [held |-> 1, coid |-> FALSE, oid |-> NoId]]
        BY <1>1, <3>3 DEF RecordPlace, RecordAction
      <4>2. CASE <<"place_order", k>> = <<actionType, key>>
        <5>1. acts'[<<"place_order", k>>] = [held |-> 1, coid |-> FALSE, oid |-> NoId]
          BY <4>1, <4>2 DEF TypeOK, ActionType
        <5> QED
          BY <3>1, <5>1
      <4>3. CASE <<"place_order", k>> # <<actionType, key>>
        <5>1. acts'[<<"place_order", k>>] = acts[<<"place_order", k>>]
          BY <4>1, <4>3 DEF TypeOK, ActionType
        <5> QED
          BY <3>1, <5>1
      <4> QED
        BY <4>2, <4>3
    <3> QED
      BY <3>2, <3>3
  <2>5. \A k \in Key : /\ acts[<<"place_order", k>>].held \in 0..1
                       /\ acts'[<<"place_order", k>>].held \in 0..1
                       /\ calls[k] \in Nat /\ clears[k] \in Nat
    <3>1. acts' \in [ActionType \X Key -> ActRow(OrderId)]
      BY <1>1, ExecuteType DEF Execute, TypeOK
    <3> QED
      BY <3>1, ServiceAssumption DEF TypeOK, ActRow, ActionType, ServiceAssumption
  <2>2. SubmitCallsBounded'
    <3> SUFFICES ASSUME NEW k \in Key
                 PROVE  calls[k] <= clears[k] + acts'[<<"place_order", k>>].held
      BY <1>1 DEF SubmitCallsBounded, RecordPlace
    <3>1. calls[k] <= clears[k] + acts[<<"place_order", k>>].held
      BY DEF CallsInv, SubmitCallsBounded
    <3> QED
      BY <2>1, <2>5, <3>1
  <2>3. Entitled'
    <3> SUFFICES ASSUME pc' = "bind", ~dry
                 PROVE  acts'[<<"place_order", key>>].held = 1 /\ calls[key] <= clears[key]
      BY <1>1, <2>0 DEF RecordPlace, Entitled
    <3>1. dry = FALSE /\ acts[<<"place_order", key>>].held = 0
      BY <1>1 DEF RecordPlace, CanRecord, TypeOK, actionType
    <3>2. acts'[<<"place_order", key>>].held = 1
      BY <1>1, <2>0, <3>1 DEF RecordPlace, RecordAction, TypeOK, actionType, ActionType
    <3>3. calls[key] <= clears[key]
      BY <2>0, <3>1 DEF CallsInv, SubmitCallsBounded, TypeOK
    <3> QED
      BY <3>2, <3>3
  <2>4. GateIsLive' /\ Called' /\ NothingSent' /\ OneOrderPerKey' /\ OrderHasCall'
    BY <1>1 DEF CallsInv, RecordPlace, GateIsLive, Called, NothingSent, OneOrderPerKey,
                OrderHasCall
  <2> QED
    BY <2>2, <2>3, <2>4 DEF CallsInv
<1>2. CASE BindAction
  <2>0. key' = key /\ live' = live
    BY <1>2 DEF BindAction, key, KeyOf, live
  <2>1. Entitled' /\ GateIsLive'
    BY <1>2, <2>0 DEF CallsInv, BindAction, Entitled, GateIsLive
  <2>2. SubmitCallsBounded' /\ OneOrderPerKey' /\ OrderHasCall' /\ Called' /\ NothingSent'
    BY <1>2 DEF CallsInv, BindAction, SubmitCallsBounded, OneOrderPerKey, OrderHasCall,
                Called, NothingSent
  <2> QED
    BY <2>1, <2>2 DEF CallsInv
<1>3. CASE SubmitGate
  <2>0. key \in Key /\ live = <<"place_order", key>>
    BY <1>3, <1>k DEF SubmitGate, PC, live
  <2>1. CASE SyncRegistry(registry, orders, FALSE) # {}
    <3>1. Quiet
      BY <1>3, <2>1 DEF SubmitGate, Quiet
    <3> QED
      BY <3>1, QuietCalls
  <2>2. CASE SyncRegistry(registry, orders, FALSE) = {}
    <3>1. /\ calls' = [calls EXCEPT ![key] = @ + 1]
          /\ sent' = 0 /\ pc' = "send"
          /\ UNCHANGED <<acts, cur, cycle, book, clears, resent>>
      BY <1>3, <2>2 DEF SubmitGate
    <3>2. key' = key
      BY <3>1 DEF key, KeyOf
    <3>3. acts[<<"place_order", key>>].held = 1 /\ calls[key] = clears[key]
      BY <1>3, <2>0 DEF SubmitGate, CallsInv, Entitled, GateIsLive, Called, TypeOK
    <3>4. calls'[key] = clears[key] + 1 /\ \A k \in Key : k # key => calls'[k] = calls[k]
      BY <2>0, <3>1, <3>3 DEF TypeOK
    <3>a. \A k \in Key : /\ acts[<<"place_order", k>>].held \in 0..1
                         /\ calls[k] \in Nat /\ clears[k] \in Nat
      BY ServiceAssumption DEF TypeOK, ActRow, ActionType, ServiceAssumption
    <3>5. SubmitCallsBounded'
      <4> SUFFICES ASSUME NEW k \in Key
                   PROVE  calls'[k] <= clears[k] + acts[<<"place_order", k>>].held
        BY <3>1 DEF SubmitCallsBounded
      <4>1. calls[k] <= clears[k] + acts[<<"place_order", k>>].held
        BY DEF CallsInv, SubmitCallsBounded
      <4>2. CASE k = key
        BY <3>3, <3>4, <3>a, <4>2
      <4>3. CASE k # key
        BY <3>4, <4>1, <4>3
      <4> QED
        BY <4>2, <4>3
    <3>6. Called'
      BY <2>0, <3>1, <3>2, <3>4 DEF CallsInv, Called, TypeOK
    <3>7. OneOrderPerKey' /\ Entitled' /\ GateIsLive'
      BY <3>1 DEF CallsInv, OneOrderPerKey, Entitled, GateIsLive
    <3>8. NothingSent'
      BY <2>0, <3>1, <3>2, <3>3, <3>a DEF CallsInv, OrderHasCall, NothingSent
    <3>9. OrderHasCall'
      <4>1. \A o \in DOMAIN book : book[o].key \in Key
        BY BookKeys
      <4> QED
        BY <3>1, <3>3, <3>4, <4>1 DEF CallsInv, OrderHasCall, TypeOK
    <3> QED
      BY <3>5, <3>6, <3>7, <3>8, <3>9 DEF CallsInv
  <2> QED
    BY <2>1, <2>2
<1>4. CASE SendAcked
  BY <1>4, SendCalls DEF SendAcked
<1>5. CASE SendRejected
  BY <1>5, SendCalls DEF SendRejected
<1>6. ASSUME NEW fate \in {"open", "flying", "dropped"}, NEW again \in BOOLEAN,
             SendLost(fate, again)
      PROVE  CallsInv'
  BY <1>6, SendCalls DEF SendLost
<1>7. CASE FailKey
  <2>0. key' = key
    BY <1>7 DEF FailKey, key, KeyOf
  <2> QED
    BY <1>7, <2>0 DEF FailKey, CallsInv, SubmitCallsBounded, OneOrderPerKey, Entitled,
                      GateIsLive, Called, OrderHasCall, NothingSent
<1>8. CASE ClearKey
  <2>0. key \in Key /\ live = <<"place_order", key>> /\ calls[key] > clears[key]
    BY <1>8, <1>k DEF ClearKey, PC, live, CallsInv, Called
  <2>1. clears'[key] = clears[key] + 1 /\ \A k \in Key : k # key => clears'[k] = clears[k]
    BY <1>8, <2>0 DEF ClearKey, TypeOK
  <2>2. \A k \in Key : k # key => acts'[<<"place_order", k>>] = acts[<<"place_order", k>>]
    BY <1>8, <2>0 DEF ClearKey, TypeOK
  <2>7. acts[live].held \in 0..1 /\ acts'[live].held = 0
    BY <1>8, <2>0 DEF ClearKey, ClearDedupe, NoAction, TypeOK, ActRow, ActionType, live
  <2>3. SubmitCallsBounded'
    <3> SUFFICES ASSUME NEW k \in Key
                 PROVE  calls[k] <= clears'[k] + acts'[<<"place_order", k>>].held
      BY <1>8 DEF ClearKey, SubmitCallsBounded
    <3>1. calls[k] <= clears[k] + acts[<<"place_order", k>>].held
      BY DEF CallsInv, SubmitCallsBounded
    <3>2. calls[k] \in Nat /\ clears[k] \in Nat
      BY ServiceAssumption DEF TypeOK, ServiceAssumption
    <3> QED
      BY <2>0, <2>1, <2>2, <2>7, <3>1, <3>2
  <2>4. Called'
    BY <1>8, <2>0, <2>1 DEF ClearKey, CallsInv, Called, TypeOK
  <2>5. OrderHasCall'
    <3>1. \A o \in DOMAIN book : book[o].key \in Key
      BY BookKeys
    <3> QED
      BY <1>8, <2>1, <3>1 DEF ClearKey, CallsInv, OrderHasCall, NothingSent
  <2>6. OneOrderPerKey' /\ Entitled' /\ GateIsLive' /\ NothingSent'
    BY <1>8 DEF ClearKey, CallsInv, OneOrderPerKey, Entitled, GateIsLive, NothingSent
  <2> QED
    BY <2>3, <2>4, <2>5, <2>6 DEF CallsInv
<1>9. CASE UNCHANGED vars
  BY <1>9, QuietCalls DEF vars, Quiet
<1> QED
  BY <1>1, <1>2, <1>3, <1>4, <1>5, <1>6, <1>7, <1>8, <1>9, QuietSteps, QuietCalls
     DEF Next, Execute, Submit

LEMMA InitCalls == Init => CallsInv
<1> SUFFICES ASSUME Init PROVE CallsInv
  OBVIOUS
<1>1. SubmitCallsBounded /\ Called
  <2>1. \A k \in Key : acts[<<"place_order", k>>].held = 0 /\ calls[k] = 0 /\ clears[k] = 0
    BY DEF Init, NoAction, ActionType
  <2> QED
    BY <2>1 DEF Init, SubmitCallsBounded, Called
<1>2. DOMAIN book = {}
  BY DEF Init
<1> QED
  BY <1>1, <1>2 DEF Init, CallsInv, OneOrderPerKey, Entitled, GateIsLive, OrderHasCall, NothingSent

LEMMA CallsInvariant == Spec => []CallsInv
<1>1. TypeOK /\ CallsInv /\ [Next]_vars => CallsInv'
  BY CallsStep
<1> QED
  BY <1>1, InitCalls, TypeCorrect, PTL DEF Spec

(* At most one submit call per definite rejection, plus one: whatever       *)
(* cycles, crashes, lost answers, recoveries and expiries come in between,  *)
(* execute_intents does not place the order of one idempotency key twice.   *)
THEOREM SubmitCallsAreBounded == Spec => []SubmitCallsBounded
<1>1. CallsInv => SubmitCallsBounded
  BY DEF CallsInv
<1> QED
  BY <1>1, CallsInvariant, PTL

(* Unless a submit call sent its request more than once, a key has at most  *)
(* one order at the exchange, requests still on their way included.         *)
THEOREM KeysHaveOneOrder == Spec => []OneOrderPerKey
<1>1. CallsInv => OneOrderPerKey
  BY DEF CallsInv
<1> QED
  BY <1>1, CallsInvariant, PTL

-----------------------------------------------------------------------------
(* What the local rows know of the exchange.  The book only grows, by what  *)
(* a submit call sends, and an order in it keeps its name; so what a row    *)
(* once saw at the exchange stays there.                                    *)
Closed == {"filled", "canceled"}

BookGrows ==
  /\ DOMAIN book \subseteq DOMAIN book'
  /\ \A o \in DOMAIN book :
       /\ book'[o].coid = book[o].coid /\ book'[o].key = book[o].key
       /\ book'[o].st # book[o].st => \/ book[o].st = "flying" /\ book'[o].st = "open"
                                      \/ book[o].st = "open" /\ book'[o].st \in Closed
  /\ \A o \in DOMAIN book' \ DOMAIN book :
       /\ pc = "send" /\ pc' \in {"save", "send", "uncertain"}
       /\ cur' = cur
       /\ book'[o].coid = cur /\ book'[o].key = key

LEMMA BookShape ==
  ASSUME TypeOK
  PROVE  /\ DOMAIN book = 1..Len(book) /\ Len(book) \in Nat
         /\ DOMAIN book \subseteq OrderId
         /\ \A o \in DOMAIN book : book[o] \in BookEntry
BY ServiceAssumption DEF ServiceAssumption, TypeOK, OrderId

(* The order a request becomes.                                             *)
LEMMA PlacedEntry ==
  ASSUME TypeOK, cur \in Payload, Len(book) < MaxOrders, NEW st \in {"flying", "open"}
  PROVE  /\ DOMAIN Placed(st) = DOMAIN book \cup {Len(book) + 1}
         /\ Len(Placed(st)) = Len(book) + 1
         /\ Len(book) + 1 \notin DOMAIN book
         /\ \A o \in DOMAIN book : Placed(st)[o] = book[o]
         /\ Placed(st)[Len(book) + 1].coid = cur
         /\ Placed(st)[Len(book) + 1].key = key
         /\ Placed(st)[Len(book) + 1].st = st
<1> DEFINE e == [coid |-> cur, key |-> key, st |-> st, age |-> 0]
<1>1. book \in Seq(BookEntry) /\ Len(book) \in Nat /\ DOMAIN book = 1..Len(book)
  BY DEF TypeOK
<1>2. e.coid = cur /\ e.key = key /\ e.st = st
  OBVIOUS
<1>3. Placed(st) = Append(book, e)
  BY DEF Placed
<1>5. e \in BookEntry
  BY KeyType, ServiceAssumption DEF ServiceAssumption, BookEntry
<1> HIDE DEF e
<1>4. /\ DOMAIN Append(book, e) = 1..(Len(book) + 1)
      /\ Len(Append(book, e)) = Len(book) + 1
      /\ \A o \in 1..Len(book) : Append(book, e)[o] = book[o]
      /\ Append(book, e)[Len(book) + 1] = e
  BY <1>1, <1>5
<1> QED
  BY <1>1, <1>2, <1>3, <1>4

LEMMA BookSteps == TypeOK /\ [Next]_vars => BookGrows
<1> SUFFICES ASSUME TypeOK, [Next]_vars PROVE BookGrows
  OBVIOUS
<1> USE DEF Goto, NoIntent, EndCycle, EndIntent, store, local, batch, intent, exchange, history
<1>0. \A o \in DOMAIN book : book[o] \in BookEntry
  BY BookShape
<1>q. book' = book => BookGrows
  BY DEF BookGrows
<1>1. CASE pc = "send" /\ UNCHANGED cur /\ pc' \in {"save", "send", "uncertain"}
           /\ Len(book) < MaxOrders /\ \E st \in {"flying", "open"} : book' = Placed(st)
  <2>1. cur \in Payload
    BY <1>1 DEF TypeOK, PC
  <2>2. PICK st \in {"flying", "open"} : book' = Placed(st)
    BY <1>1
  <2> QED
    BY <1>1, <2>1, <2>2, PlacedEntry DEF BookGrows
<1>2. ASSUME NEW fate \in {"open", "flying", "dropped"}, NEW again \in BOOLEAN,
             SendLost(fate, again)
      PROVE  BookGrows
  <2>1. CASE fate = "dropped"
    BY <1>2, <1>q, <2>1 DEF SendLost
  <2>2. CASE fate # "dropped"
    BY <1>2, <1>1, <2>2 DEF SendLost
  <2> QED
    BY <2>1, <2>2
<1>3. CASE SendAcked
  BY <1>3, <1>1 DEF SendAcked
<1>4. ASSUME NEW o \in DOMAIN book, Arrive(o)
      PROVE  BookGrows
  <2> DEFINE e == [book[o] EXCEPT !.st = "open", !.age = 0]
  <2>1. book' = [book EXCEPT ![o] = e] /\ book[o].st = "flying"
    BY <1>4 DEF Arrive
  <2>2. e.coid = book[o].coid /\ e.key = book[o].key /\ e.st = "open"
    BY <1>0 DEF BookEntry
  <2> HIDE DEF e
  <2>3. DOMAIN book' = DOMAIN book
        /\ \A i \in DOMAIN book : book'[i] = IF i = o THEN e ELSE book[i]
    BY <2>1 DEF TypeOK
  <2> QED
    BY <2>1, <2>2, <2>3 DEF BookGrows
<1>5. ASSUME NEW o \in DOMAIN book, NEW st \in Closings, CloseOrder(o, st)
      PROVE  BookGrows
  <2> DEFINE e == [book[o] EXCEPT !.st = st]
  <2>1. book' = [book EXCEPT ![o] = e] /\ book[o].st = "open"
    BY <1>5 DEF CloseOrder
  <2>2. e.coid = book[o].coid /\ e.key = book[o].key /\ e.st \in Closed
    BY <1>0, ServiceAssumption DEF BookEntry, ServiceAssumption, Closed
  <2> HIDE DEF e
  <2>3. DOMAIN book' = DOMAIN book
        /\ \A i \in DOMAIN book : book'[i] = IF i = o THEN e ELSE book[i]
    BY <2>1 DEF TypeOK
  <2> QED
    BY <2>1, <2>2, <2>3 DEF BookGrows
<1>6. CASE Tick
  <2>1. \A o \in DOMAIN book : /\ AgeEntry(book[o]).coid = book[o].coid
                               /\ AgeEntry(book[o]).key = book[o].key
                               /\ AgeEntry(book[o]).st = book[o].st
    BY <1>0 DEF AgeEntry, BookEntry
  <2>2. DOMAIN book' = DOMAIN book /\ \A o \in DOMAIN book : book'[o] = AgeEntry(book[o])
    BY <1>6 DEF Tick
  <2> QED
    BY <2>1, <2>2 DEF BookGrows
<1>7. CASE \/ \E d \in BOOLEAN, intents \in SUBSET Payload : RunCycle(d, intents)
           \/ Refresh \/ Crash \/ ChangeRules \/ UNCHANGED vars
  BY <1>7, <1>q DEF RunCycle, Refresh, RefreshOpen, RefreshOpenFails, RefreshAll, Crash,
                    ChangeRules, vars
<1>8. CASE Execute
  BY <1>8, <1>q DEF Execute, ExecuteGate, Suppressed, Pick, RejectPrecheck, ReserveKey,
       RecoverWaits, RecoverFound, RecoverFails, MarkClient, RecordPlace, NoNewAction,
       BindAction, Simulate
<1>9. CASE \/ SubmitGate \/ SendRejected
           \/ \E next \in {"confirm", "save"} : ReconcileSubmit(next)
           \/ ReconcileFails \/ SaveNew \/ PromoteOpen \/ SaveOpen \/ AttachOrder
           \/ CommitKey \/ FailKey \/ ClearKey \/ MarkUnknown \/ Freeze
  BY <1>9, <1>q DEF SubmitGate, SendRejected, ReconcileSubmit, ReconcileFails, SaveNew,
       PromoteOpen, SaveOpen, AttachOrder, CommitKey, FailKey, ClearKey, MarkUnknown, Freeze
<1> QED
  BY <1>2, <1>3, <1>4, <1>5, <1>6, <1>7, <1>8, <1>9 DEF Next, Submit, Environment

(* Order o of client order id p has been shown by the exchange.             *)
Shown(o, p) == o \in DOMAIN book /\ book[o].coid = p /\ book[o].st # "flying"

(* A local row that names an order names one of its own payload.            *)
RowsShown == \A p \in Payload : orders[p].oid # NoId => Shown(orders[p].oid, p)

(* How one step may change the row of p: not at all, to the order a refresh *)
(* finds, to REJECTED when it finds none, and in a submission of p to the   *)
(* order placed, to OPEN or to the unknown placeholder.                     *)
RowMoves(p) ==
  \/ orders'[p].oid = orders[p].oid /\ orders'[p].st = orders[p].st
  \/ /\ pc \in {"refresh", "probe"}
     /\ orders'[p].oid \in Visible
     /\ Shown(orders'[p].oid, p)
     /\ orders'[p].st = book[orders'[p].oid].st
  \/ /\ pc = "probe" /\ p \in missing
     /\ orders[p].st \in {"new", "open"} /\ orders'[p].st = "rejected"
     /\ orders'[p].oid = orders[p].oid
  \/ /\ p = cur
     /\ \/ /\ pc \in {"confirm", "save"}
           /\ orders'[p].oid = got /\ orders'[p].st \in {"new", "open"}
        \/ pc = "promote" /\ orders'[p].oid = orders[p].oid /\ orders'[p].st = "open"
        \/ pc = "freeze" /\ orders'[p].oid = NoId /\ orders'[p].st = "unknown"

LEMMA SaveOrderFields ==
  ASSUME NEW row \in OrderRow, NEW oid, NEW st
  PROVE  SaveOrder(row, oid, st).oid = oid /\ SaveOrder(row, oid, st).st = st
BY DEF SaveOrder, OrderRow

LEMMA SetStatusFields ==
  ASSUME NEW row \in OrderRow, NEW st
  PROVE  SetStatus(row, st).oid = row.oid /\ SetStatus(row, st).st = st
BY DEF SetStatus, OrderRow

LEMMA RowSteps ==
  ASSUME TypeOK, RowsShown, [Next]_vars, NEW p \in Payload
  PROVE  RowMoves(p)
<1> USE DEF Goto, NoIntent, EndCycle, EndIntent, store, local, batch, intent, exchange, history
<1>0. orders[p] \in OrderRow /\ DOMAIN book \subseteq OrderId
      /\ \A o \in DOMAIN book : book[o] \in BookEntry
  BY BookShape DEF TypeOK
<1>n. NoId \notin OrderId
  BY DEF NoId, OrderId
<1>q. orders' = orders => RowMoves(p)
  BY DEF RowMoves
<1>f. ASSUME NEW o \in Visible, book[o].coid = p, pc \in {"refresh", "probe"},
             orders'[p] = SetStatus(SaveOrder(orders[p], o, book[o].st), book[o].st)
      PROVE  RowMoves(p)
  <2>1. o \in DOMAIN book /\ book[o].st # "flying" /\ o \in OrderId
    BY <1>0 DEF Visible
  <2>2. book[o].st \in OrderStatus
    BY <1>0, <2>1 DEF BookEntry, OrderStatus
  <2>3. SaveOrder(orders[p], o, book[o].st) \in OrderRow
    BY <1>0, <2>1, <2>2, SaveOrderType
  <2>4. orders'[p].oid = o /\ orders'[p].st = book[o].st
    BY <1>0, <1>f, <2>3, SaveOrderFields, SetStatusFields
  <2> QED
    BY <1>f, <2>1, <2>4 DEF RowMoves, Shown
<1>1. CASE RefreshOpen
  <2>1. PICK pick \in [Payload -> OrderId \cup {NoId}] :
          /\ IF Matching(OpenSet, p) = {} THEN pick[p] = NoId
                                          ELSE pick[p] \in Matching(OpenSet, p)
          /\ orders'[p] = IF pick[p] = NoId THEN orders[p]
                          ELSE SetStatus(SaveOrder(orders[p], pick[p], "open"), "open")
    BY <1>1 DEF RefreshOpen
  <2>2. CASE pick[p] = NoId
    BY <2>1, <2>2 DEF RowMoves
  <2>3. CASE pick[p] # NoId
    <3>1. pick[p] \in Visible /\ book[pick[p]].coid = p /\ book[pick[p]].st = "open"
      BY <2>1, <2>3 DEF Matching, OpenSet
    <3> QED
      BY <1>1, <1>f, <2>1, <2>3, <3>1 DEF RefreshOpen
  <2> QED
    BY <2>2, <2>3
<1>2. ASSUME NEW skipped \in SUBSET missing, NEW is429 \in BOOLEAN, RefreshAll(skipped, is429)
      PROVE  RowMoves(p)
  <2> DEFINE recent == AllSince(AllOrdersStart)
  <2>a. recent \subseteq Visible
    BY DEF AllSince
  <2> HIDE DEF recent
  <2>1. PICK pick \in [Payload -> OrderId \cup {NoId}] :
          /\ IF p \in missing \ skipped THEN pick[p] \in MatchExisting(p, recent)
                                        ELSE pick[p] = NoId
          /\ orders'[p] = IF p \in missing \ skipped THEN Reconciled(orders[p], pick[p])
                                                     ELSE orders[p]
    BY <1>2 DEF RefreshAll, recent
  <2>p. pc = "probe"
    BY <1>2 DEF RefreshAll
  <2>2. CASE p \notin missing \ skipped
    BY <2>1, <2>2 DEF RowMoves
  <2>3. CASE p \in missing /\ p \in missing \ skipped /\ pick[p] # NoId
    <3>1. pick[p] \in Visible /\ book[pick[p]].coid = p
      BY <2>1, <2>3, <2>a DEF MatchExisting, Matching, RowsShown, Shown
    <3> QED
      BY <1>f, <2>1, <2>3, <2>p, <3>1 DEF Reconciled
  <2>4. CASE p \in missing /\ p \in missing \ skipped /\ pick[p] = NoId
    <3>1. SetStatus(orders[p], "rejected").oid = orders[p].oid
          /\ SetStatus(orders[p], "rejected").st = "rejected"
      BY <1>0, SetStatusFields
    <3>2. \A w : [orders[p] EXCEPT !.wait = TRUE, !.seen = w].oid = orders[p].oid
                 /\ [orders[p] EXCEPT !.wait = TRUE, !.seen = w].st = orders[p].st
      BY <1>0 DEF OrderRow
    <3>3. \/ orders'[p] = SetStatus(orders[p], "rejected") /\ orders[p].st \in {"new", "open"}
          \/ \E w : orders'[p] = [orders[p] EXCEPT !.wait = TRUE, !.seen = w]
          \/ orders'[p] = orders[p]
      BY <2>1, <2>4 DEF Reconciled
    <3> QED
      BY <2>4, <2>p, <3>1, <3>2, <3>3 DEF RowMoves
  <2> QED
    BY <2>2, <2>3, <2>4
<1>3. CASE SaveNew \/ SaveOpen
  <2>1. PICK st \in {"new", "open"} : orders' = [orders EXCEPT ![cur] = SaveOrder(orders[cur], got, st)]
    BY <1>3 DEF SaveNew, SaveOpen
  <2>2. pc \in {"confirm", "save"}
    BY <1>3 DEF SaveNew, SaveOpen
  <2>3. orders'[p] = IF p = cur THEN SaveOrder(orders[p], got, st) ELSE orders[p]
    BY <2>1 DEF TypeOK
  <2> QED
    BY <1>0, <2>2, <2>3, SaveOrderFields DEF RowMoves
<1>4. CASE PromoteOpen
  <2>1. orders'[p] = IF p = cur THEN SetStatus(orders[p], "open") ELSE orders[p]
    BY <1>4 DEF PromoteOpen, TypeOK
  <2> QED
    BY <1>0, <1>4, <2>1, SetStatusFields DEF RowMoves, PromoteOpen
<1>5. CASE Freeze
  <2>1. orders'[p] = IF p = cur THEN SaveOrder(orders[p], NoId, "unknown") ELSE orders[p]
    BY <1>5 DEF Freeze, TypeOK
  <2> QED
    BY <1>0, <1>5, <2>1, SaveOrderFields DEF RowMoves, Freeze
<1>6. CASE Tick
  <2>1. orders'[p] = AgeOrder(orders[p])
    BY <1>6 DEF Tick
  <2>2. AgeOrder(orders[p]).oid = orders[p].oid /\ AgeOrder(orders[p]).st = orders[p].st
    BY <1>0 DEF AgeOrder, OrderRow
  <2> QED
    BY <2>1, <2>2 DEF RowMoves
<1>7. CASE \/ \E d \in BOOLEAN, intents \in SUBSET Payload : RunCycle(d, intents)
           \/ \E is429 \in BOOLEAN : RefreshOpenFails(is429)
           \/ Crash \/ ChangeRules \/ UNCHANGED vars
           \/ \E o \in DOMAIN book : Arrive(o) \/ \E st \in Closings : CloseOrder(o, st)
  BY <1>7, <1>q DEF RunCycle, RefreshOpenFails, Crash, ChangeRules, vars, Arrive, CloseOrder
<1>8. CASE Execute
  BY <1>8, <1>q DEF Execute, ExecuteGate, Suppressed, Pick, RejectPrecheck, ReserveKey,
       RecoverWaits, RecoverFound, RecoverFails, MarkClient, RecordPlace, NoNewAction,
       BindAction, Simulate
<1>9. CASE \/ SubmitGate \/ SendAcked \/ SendRejected
           \/ \E fate \in {"open", "flying", "dropped"}, again \in BOOLEAN : SendLost(fate, again)
           \/ \E next \in {"confirm", "save"} : ReconcileSubmit(next)
           \/ ReconcileFails \/ AttachOrder \/ CommitKey \/ FailKey \/ ClearKey \/ MarkUnknown
  BY <1>9, <1>q DEF SubmitGate, SendAcked, SendRejected, SendLost, ReconcileSubmit,
       ReconcileFails, AttachOrder, CommitKey, FailKey, ClearKey, MarkUnknown
<1> QED
  BY <1>1, <1>2, <1>3, <1>4, <1>5, <1>6, <1>7, <1>8, <1>9 DEF Next, Refresh, Submit, Environment

(* The steps of a submission whose order the exchange has shown.            *)
Holding == {"confirm", "promote", "save", "attach", "commit"}
GotShown ==
  /\ got # NoId <=> pc \in Holding
  /\ got # NoId => Shown(got, cur)
  /\ pc = "promote" => orders[cur].oid = got

ShownInv == RowsShown /\ GotShown

(* What a lookup finds is an order of the payload it was asked for.         *)
LEMMA LookupShown ==
  ASSUME TypeOK, NEW p \in Payload, NEW o \in Lookup(p), o # NoId
  PROVE  Shown(o, p)
BY DEF Lookup, Matching, OpenSet, AllSince, Visible, Shown

LEMMA GotSteps ==
  ASSUME TypeOK, ShownInv, [Next]_vars, \A o, p : Shown(o, p) => Shown(o, p)'
  PROVE  GotShown'
<1> USE DEF Goto, NoIntent, EndCycle, EndIntent, store, local, batch, intent, exchange, history
<1>0. got # NoId <=> pc \in Holding
  BY DEF ShownInv, GotShown
<1>a. got' = NoId /\ pc' \notin Holding => GotShown'
  BY DEF GotShown, Holding
<1>b. UNCHANGED <<got, cur, pc, orders>> => GotShown'
  BY DEF GotShown, ShownInv
<1>1. CASE SendAcked
  <2>1. cur \in Payload /\ Len(book) < MaxOrders /\ book' = Placed("open") /\ cur' = cur
    BY <1>1 DEF SendAcked, TypeOK, PC
  <2>2. got' = Len(book) + 1 /\ got' \in DOMAIN book' /\ got' # NoId
    BY <1>1, <2>1, PlacedEntry, BookShape DEF SendAcked, NoId
  <2>3. Shown(got, cur)'
    BY <2>1, <2>2, PlacedEntry DEF Shown
  <2>4. pc' = "save"
    BY <1>1 DEF SendAcked
  <2> QED
    BY <2>2, <2>3, <2>4 DEF GotShown, Holding
<1>2. ASSUME NEW next \in {"confirm", "save"}, ReconcileSubmit(next)
      PROVE  GotShown'
  <2>1. cur \in Payload /\ got' \in Lookup(cur) /\ cur' = cur /\ book' = book
    BY <1>2 DEF ReconcileSubmit, TypeOK, PC
  <2>2. CASE got' = NoId
    BY <1>2, <1>a, <2>2 DEF ReconcileSubmit, Holding
  <2>3. CASE got' # NoId
    <3>1. Shown(got', cur)
      BY <2>1, <2>3, LookupShown
    <3>2. Shown(got, cur)'
      BY <2>1, <3>1 DEF Shown
    <3>3. pc' = next
      BY <1>2, <2>3 DEF ReconcileSubmit
    <3> QED
      BY <2>3, <3>2, <3>3 DEF GotShown, Holding
  <2> QED
    BY <2>2, <2>3
<1>3. CASE SaveNew
  <2>1. pc = "confirm" /\ pc' = "promote" /\ got' = got /\ cur' = cur /\ cur \in Payload
        /\ orders' = [orders EXCEPT ![cur] = SaveOrder(orders[cur], got, "new")]
    BY <1>3 DEF SaveNew, TypeOK, PC
  <2>2. orders'[cur].oid = got
    BY <2>1, SaveOrderFields DEF TypeOK
  <2> QED
    BY <1>0, <2>1, <2>2 DEF GotShown, ShownInv, Holding
<1>4. CASE PromoteOpen \/ SaveOpen \/ AttachOrder
  <2>1. pc \in Holding /\ pc' \in {"attach", "commit"} /\ UNCHANGED <<got, cur>>
    BY <1>4 DEF PromoteOpen, SaveOpen, AttachOrder, Holding
  <2> QED
    BY <1>0, <2>1 DEF GotShown, ShownInv, Holding
<1>5. CASE CommitKey \/ Freeze \/ ClearKey
  BY <1>5, <1>a DEF CommitKey, Freeze, ClearKey, Holding
<1>6. CASE \/ SubmitGate \/ SendRejected
           \/ \E fate \in {"open", "flying", "dropped"}, again \in BOOLEAN : SendLost(fate, again)
           \/ ReconcileFails \/ FailKey \/ MarkUnknown
  BY <1>0, <1>6, <1>a DEF SubmitGate, SendRejected, SendLost, ReconcileFails, FailKey,
       MarkUnknown, Holding
<1>7. CASE Execute
  BY <1>0, <1>7, <1>a DEF Execute, ExecuteGate, Suppressed, Pick, RejectPrecheck, ReserveKey,
       RecoverWaits, RecoverFound, RecoverFails, MarkClient, RecordPlace, NoNewAction,
       BindAction, Simulate, Holding
<1>8. CASE Refresh
  BY <1>0, <1>8, <1>a DEF Refresh, RefreshOpen, RefreshOpenFails, RefreshAll, Holding
<1>9. CASE Crash \/ \E d \in BOOLEAN, intents \in SUBSET Payload : RunCycle(d, intents)
  BY <1>9, <1>a DEF Crash, RunCycle, Holding
<1>10. CASE Tick \/ ChangeRules
  BY <1>0, <1>10, <1>a DEF Tick, ChangeRules, Holding
<1>11. CASE \/ \E o \in DOMAIN book : Arrive(o) \/ \E st \in Closings : CloseOrder(o, st)
            \/ UNCHANGED vars
  BY <1>11, <1>b DEF Arrive, CloseOrder, vars
<1> QED
  BY <1>1, <1>2, <1>3, <1>4, <1>5, <1>6, <1>7, <1>8, <1>9, <1>10, <1>11
     DEF Next, Submit, Environment

LEMMA ShownInvariant == Spec => []ShownInv
<1>1. Init => ShownInv
  BY DEF Init, ShownInv, RowsShown, GotShown, NoOrder, Holding
<1>2. TypeOK /\ ShownInv /\ [Next]_vars => ShownInv'
  <2> SUFFICES ASSUME TypeOK, ShownInv, [Next]_vars PROVE ShownInv'
    OBVIOUS
  <2>1. \A o, p : Shown(o, p) => Shown(o, p)'
    BY BookSteps DEF BookGrows, Shown, Closed
  <2>2. RowsShown'
    <3> SUFFICES ASSUME NEW p \in Payload, orders'[p].oid # NoId
                 PROVE  Shown(orders[p].oid, p)'
      BY DEF RowsShown
    <3>1. RowMoves(p)
      BY RowSteps DEF ShownInv
    <3>2. Shown(orders'[p].oid, p)
      <4>1. CASE orders'[p].oid = orders[p].oid
        BY <4>1 DEF ShownInv, RowsShown
      <4>2. CASE orders'[p].oid # orders[p].oid
        BY <3>1, <4>2 DEF RowMoves, ShownInv, GotShown
      <4> QED
        BY <4>1, <4>2
    <3> QED
      BY <2>1, <3>2
  <2>3. GotShown'
    BY <2>1, GotSteps
  <2> QED
    BY <2>2, <2>3 DEF ShownInv
<1> QED
  BY <1>1, <1>2, TypeCorrect, PTL DEF Spec

-----------------------------------------------------------------------------
(* A row that is closed is closed at the exchange.  The second look of a    *)
(* refresh may reject a row only because the first look showed the order it *)
(* names not to be open; a dry-run client shows nothing, so this needs that *)
(* no cycle runs dry once the bot has traded.                               *)
LiveSteps == {"gate", "send", "uncertain", "confirm", "promote", "save", "attach",
              "commit", "reject", "clear", "unknown", "freeze"}
LiveIsLive == pc \in LiveSteps => ~dry
OrdersWereCalled == \A o \in DOMAIN book : calls[book[o].key] > 0
DryIsNew == dry => DOMAIN book = {}
MissingIsClosed ==
  pc = "probe" => \A p \in missing : orders[p].oid # NoId => book[orders[p].oid].st \in Closed

ClosedInv == /\ LiveIsLive
             /\ OrdersWereCalled
             /\ DryIsNew
             /\ MissingIsClosed
             /\ ClosedIsClosed

LEMMA LiveStep == TypeOK /\ LiveIsLive /\ [Next]_vars => LiveIsLive'
<1> SUFFICES ASSUME TypeOK, LiveIsLive, [Next]_vars PROVE LiveIsLive'
  OBVIOUS
<1> USE DEF Goto, NoIntent, EndCycle, EndIntent, store, local, batch, intent, exchange, history
<1>a. pc' \notin LiveSteps => LiveIsLive'
  BY DEF LiveIsLive
<1>b. pc \in LiveSteps /\ UNCHANGED dry => LiveIsLive'
  BY DEF LiveIsLive
<1>c. UNCHANGED <<pc, dry>> => LiveIsLive'
  BY DEF LiveIsLive
<1>1. CASE Submit
  BY <1>1, <1>a, <1>b DEF Submit, SubmitGate, SendAcked, SendRejected, SendLost,
       ReconcileSubmit, ReconcileFails, SaveNew, PromoteOpen, SaveOpen, AttachOrder,
       CommitKey, FailKey, ClearKey, MarkUnknown, Freeze, LiveSteps
<1>2. CASE BindAction
  BY <1>2 DEF BindAction, LiveIsLive, LiveSteps
<1>3. CASE Execute /\ ~BindAction
  BY <1>3, <1>a DEF Execute, ExecuteGate, Suppressed, Pick, RejectPrecheck, ReserveKey,
       RecoverWaits, RecoverFound, RecoverFails, MarkClient, RecordPlace, NoNewAction,
       Simulate, LiveSteps
<1>4. CASE \/ \E d \in BOOLEAN, intents \in SUBSET Payload : RunCycle(d, intents)
           \/ Refresh \/ Crash
  BY <1>4, <1>a DEF RunCycle, Refresh, RefreshOpen, RefreshOpenFails, RefreshAll, Crash, LiveSteps
<1>5. CASE Environment \/ UNCHANGED vars
  BY <1>5, <1>c DEF Environment, Arrive, CloseOrder, Tick, ChangeRules, vars
<1> QED
  BY <1>1, <1>2, <1>3, <1>4, <1>5 DEF Next

(* A call is counted once it is made; no step forgets one.                  *)
LEMMA CallsGrow ==
  ASSUME TypeOK, [Next]_vars
  PROVE  /\ \A k \in Key : calls'[k] >= calls[k]
         /\ pc = "send" => calls' = calls
<1> USE DEF Goto, NoIntent, EndCycle, EndIntent, store, local, batch, intent, exchange, history
<1>0. \A k \in Key : calls[k] \in Nat
  BY ServiceAssumption DEF TypeOK, ServiceAssumption
<1>1. CASE SubmitGate
  <2>1. pc = "gate" /\ (calls' = calls \/ calls' = [calls EXCEPT ![key] = calls[key] + 1])
    BY <1>1 DEF SubmitGate
  <2>2. CASE calls' = calls
    BY <1>0, <2>1, <2>2
  <2>3. CASE calls' = [calls EXCEPT ![key] = calls[key] + 1]
    <3>1. key \in Key
      BY <2>1, KeyType DEF TypeOK, PC
    <3>2. \A k \in Key : calls'[k] = IF k = key THEN calls[key] + 1 ELSE calls[k]
      BY <2>3 DEF TypeOK
    <3> QED
      BY <1>0, <2>1, <3>1, <3>2
  <2> QED
    BY <2>1, <2>2, <2>3
<1>2. CASE ~SubmitGate
  <2>1. calls' = calls
    <3>1. CASE Submit
      BY <1>2, <3>1 DEF Submit, SendAcked, SendRejected, SendLost,
           ReconcileSubmit, ReconcileFails, SaveNew, PromoteOpen, SaveOpen, AttachOrder,
           CommitKey, FailKey, ClearKey, MarkUnknown, Freeze
    <3>2. CASE Execute
      BY <3>2 DEF Execute, ExecuteGate, Suppressed, Pick, RejectPrecheck, ReserveKey,
           RecoverWaits, RecoverFound, RecoverFails, MarkClient, RecordPlace, NoNewAction,
           BindAction, Simulate
    <3>3. CASE \/ \E d \in BOOLEAN, intents \in SUBSET Payload : RunCycle(d, intents)
               \/ Refresh \/ Crash \/ Environment \/ UNCHANGED vars
      BY <3>3 DEF RunCycle, Refresh, RefreshOpen, RefreshOpenFails, RefreshAll, Crash,
           Environment, Arrive, CloseOrder, Tick, ChangeRules, vars
    <3> QED
      BY <3>1, <3>2, <3>3 DEF Next
  <2> QED
    BY <1>0, <2>1
<1> QED
  BY <1>1, <1>2

(* dry_run holds for a whole cycle.                                         *)
LEMMA DryStep ==
  ASSUME TypeOK, [Next]_vars, dry'
  PROVE  \/ dry
         \/ \E intents \in SUBSET Payload : RunCycle(TRUE, intents)
<1> USE DEF Goto, NoIntent, EndCycle, EndIntent, store, local, batch, intent, exchange, history
<1>1. ASSUME NEW d \in BOOLEAN, NEW intents \in SUBSET Payload, RunCycle(d, intents)
      PROVE  \E i \in SUBSET Payload : RunCycle(TRUE, i)
  <2>1. d = TRUE
    BY <1>1 DEF RunCycle
  <2> QED
    BY <1>1, <2>1
<1>2. CASE Submit
  BY <1>2 DEF Submit, SubmitGate, SendAcked, SendRejected, SendLost,
       ReconcileSubmit, ReconcileFails, SaveNew, PromoteOpen, SaveOpen, AttachOrder,
       CommitKey, FailKey, ClearKey, MarkUnknown, Freeze
<1>3. CASE Execute
  BY <1>3 DEF Execute, ExecuteGate, Suppressed, Pick, RejectPrecheck, ReserveKey,
       RecoverWaits, RecoverFound, RecoverFails, MarkClient, RecordPlace, NoNewAction,
       BindAction, Simulate
<1>4. CASE Refresh \/ Crash \/ Environment \/ UNCHANGED vars
  BY <1>4 DEF Refresh, RefreshOpen, RefreshOpenFails, RefreshAll, Crash,
       Environment, Arrive, CloseOrder, Tick, ChangeRules, vars
<1> QED
  BY <1>1, <1>2, <1>3, <1>4 DEF Next

(* The probe follows the first look of the refresh, and nothing of the bot  *)
(* happens in between.                                                      *)
LEMMA ProbeStep ==
  ASSUME TypeOK, [Next]_vars, pc' = "probe"
  PROVE  RefreshOpen \/ UNCHANGED <<pc, missing, orders>>
<1> USE DEF Goto, NoIntent, EndCycle, EndIntent, store, local, batch, intent, exchange, history
<1>1. CASE Submit
  BY <1>1 DEF Submit, SubmitGate, SendAcked, SendRejected, SendLost,
       ReconcileSubmit, ReconcileFails, SaveNew, PromoteOpen, SaveOpen, AttachOrder,
       CommitKey, FailKey, ClearKey, MarkUnknown, Freeze
<1>2. CASE Execute
  BY <1>2 DEF Execute, ExecuteGate, Suppressed, Pick, RejectPrecheck, ReserveKey,
       RecoverWaits, RecoverFound, RecoverFails, MarkClient, RecordPlace, NoNewAction,
       BindAction, Simulate
<1>3. CASE \/ \E d \in BOOLEAN, intents \in SUBSET Payload : RunCycle(d, intents)
           \/ Refresh \/ Crash
  BY <1>3 DEF RunCycle, Refresh, RefreshOpenFails, RefreshAll, Crash
<1>4. CASE Environment \/ UNCHANGED vars
  BY <1>4 DEF Environment, Arrive, CloseOrder, Tick, ChangeRules, vars
<1> QED
  BY <1>1, <1>2, <1>3, <1>4 DEF Next

LEMMA ClosedStep ==
  ASSUME TRUE \notin DryModes[TRUE],
         TypeOK, CallsInv, ShownInv, ClosedInv, [Next]_vars
  PROVE  ClosedInv'
<1>0. \A o \in DOMAIN book : book[o] \in BookEntry /\ book[o].key \in Key
  BY BookShape, BookKeys
<1>g. BookGrows
  BY BookSteps
<1>1. LiveIsLive'
  BY LiveStep DEF ClosedInv
<1>2. OrdersWereCalled'
  <2> SUFFICES ASSUME NEW o \in DOMAIN book' PROVE calls'[book'[o].key] > 0
    BY DEF OrdersWereCalled
  <2>1. CASE o \in DOMAIN book
    <3>1. book'[o].key = book[o].key /\ calls[book[o].key] > 0 /\ book[o].key \in Key
      BY <1>0, <1>g, <2>1 DEF BookGrows, ClosedInv, OrdersWereCalled
    <3>2. calls'[book[o].key] >= calls[book[o].key] /\ calls[book[o].key] \in Nat
          /\ calls'[book[o].key] \in Int
      <4>1. TypeOK'
        BY TypeStep
      <4>2. \A k \in Key : calls[k] \in Nat /\ calls'[k] \in Nat
        BY <4>1, ServiceAssumption DEF TypeOK, ServiceAssumption
      <4> QED
        BY <3>1, <4>2, CallsGrow
    <3> QED
      BY <3>1, <3>2
  <2>2. CASE o \notin DOMAIN book
    <3>1. pc = "send" /\ book'[o].key = key
      BY <1>g, <2>2 DEF BookGrows
    <3>2. key \in Key
      BY <3>1, KeyType DEF TypeOK, PC
    <3>3. calls' = calls
      BY <3>1, CallsGrow
    <3>4. calls[key] > clears[key] /\ clears[key] \in Nat /\ calls[key] \in Nat
      BY <3>1, <3>2, ServiceAssumption DEF CallsInv, Called, TypeOK, ServiceAssumption
    <3> QED
      BY <3>1, <3>3, <3>4
  <2> QED
    BY <2>1, <2>2
<1>3. DryIsNew'
  <2> SUFFICES ASSUME dry' PROVE DOMAIN book' = {}
    BY DEF DryIsNew
  <2>1. CASE dry
    <3>1. DOMAIN book = {} /\ pc # "send"
      BY <2>1 DEF ClosedInv, DryIsNew, LiveIsLive, LiveSteps
    <3> QED
      BY <1>g, <3>1 DEF BookGrows
  <2>2. ASSUME NEW intents \in SUBSET Payload, RunCycle(TRUE, intents)
        PROVE  DOMAIN book' = {}
    <3>1. ~Traded
      <4>1. Traded \in BOOLEAN
        BY DEF Traded
      <4>2. TRUE \in DryModes[Traded]
        BY <2>2 DEF RunCycle
      <4>3. CASE Traded = TRUE
        BY <4>2, <4>3
      <4>4. CASE Traded = FALSE
        BY <4>4
      <4> QED
        BY <4>1, <4>3, <4>4
    <3>2. ASSUME NEW k \in Key PROVE ~(calls[k] > 0)
      <4>1. acts[<<"place_order", k>>].held \in 0..1 /\ clears[k] \in Nat /\ calls[k] \in Nat
        BY ServiceAssumption DEF TypeOK, ActRow, ActionType, ServiceAssumption
      <4>2. ~(acts[<<"place_order", k>>].held + clears[k] > 0)
        BY <3>1 DEF Traded
      <4>3. calls[k] <= clears[k] + acts[<<"place_order", k>>].held
        BY DEF CallsInv, SubmitCallsBounded
      <4> QED
        BY <4>1, <4>2, <4>3
    <3>3. DOMAIN book = {}
      BY <1>0, <3>2 DEF ClosedInv, OrdersWereCalled
    <3>4. book' = book
      BY <2>2 DEF RunCycle, exchange
    <3> QED
      BY <3>3, <3>4
  <2> QED
    BY <2>1, <2>2, DryStep
<1>4. MissingIsClosed'
  <2> SUFFICES ASSUME pc' = "probe", NEW p \in missing', orders'[p].oid # NoId
               PROVE  book'[orders'[p].oid].st \in Closed
    BY DEF MissingIsClosed
  <2>1. CASE RefreshOpen
    <3>1. p \in Payload /\ Matching(OpenSet, p) = {} /\ orders'[p] = orders[p] /\ book' = book
      <4>1. PICK pick \in [Payload -> OrderId \cup {NoId}] :
              /\ \A q \in Payload : IF Matching(OpenSet, q) = {} THEN pick[q] = NoId
                                                           ELSE pick[q] \in Matching(OpenSet, q)
              /\ orders' = [q \in Payload |->
                   IF pick[q] = NoId THEN orders[q]
                   ELSE SetStatus(SaveOrder(orders[q], pick[q], "open"), "open")]
              /\ missing' = {q \in Payload : /\ Active(orders[q])
                                             /\ pick[q] = NoId
                                             /\ ~(orders[q].st = "unknown" /\ orders[q].wait)}
        BY <2>1 DEF RefreshOpen
      <4>2. p \in Payload /\ pick[p] = NoId
        BY <4>1
      <4>3. NoId \notin DOMAIN book
        BY BookShape DEF NoId
      <4>4. Matching(OpenSet, p) \subseteq DOMAIN book
        BY DEF Matching, OpenSet, Visible
      <4> QED
        BY <2>1, <4>1, <4>2, <4>3, <4>4 DEF RefreshOpen, exchange
    <3> DEFINE o == orders[p].oid
    <3>2. o \in DOMAIN book /\ book[o].coid = p /\ book[o].st # "flying"
      BY <3>1 DEF ShownInv, RowsShown, Shown
    <3>3. ~dry
      BY <3>2 DEF ClosedInv, DryIsNew
    <3>4. o \in Visible
      BY <3>2, <3>3 DEF Visible
    <3>5. book[o].st # "open"
      BY <3>1, <3>2, <3>4 DEF Matching, OpenSet
    <3> QED
      BY <1>0, <3>1, <3>2, <3>5 DEF BookEntry, Closed
  <2>2. CASE UNCHANGED <<pc, missing, orders>>
    <3>1. p \in Payload /\ book[orders[p].oid].st \in Closed /\ orders[p].oid \in DOMAIN book
      BY <2>2 DEF ClosedInv, MissingIsClosed, ShownInv, RowsShown, Shown, TypeOK
    <3> QED
      BY <1>g, <2>2, <3>1 DEF BookGrows, Closed
  <2> QED
    BY <2>1, <2>2, ProbeStep
<1>5. ClosedIsClosed'
  <2> SUFFICES ASSUME NEW p \in Payload, orders'[p].st \in Terminal, orders'[p].oid # NoId
               PROVE  book'[orders'[p].oid].st \in Closed
    BY DEF ClosedIsClosed, Closed
  <2>1. RowMoves(p)
    BY RowSteps DEF ShownInv
  <2>2. orders'[p].oid \in DOMAIN book /\ book[orders'[p].oid].st \in Closed
    <3>1. CASE orders'[p].oid = orders[p].oid /\ orders'[p].st = orders[p].st
      BY <3>1 DEF ClosedInv, ClosedIsClosed, Closed, ShownInv, RowsShown, Shown
    <3>2. CASE pc = "probe" /\ p \in missing /\ orders'[p].oid = orders[p].oid
      BY <3>2 DEF ClosedInv, MissingIsClosed, ShownInv, RowsShown, Shown
    <3>3. CASE Shown(orders'[p].oid, p) /\ orders'[p].st = book[orders'[p].oid].st
      BY <1>0, <3>3 DEF Shown, Terminal, BookEntry, Closed
    <3> QED
      BY <2>1, <3>1, <3>2, <3>3 DEF RowMoves, Terminal
  <2> QED
    BY <1>g, <2>2 DEF BookGrows, Closed
<1> QED
  BY <1>1, <1>2, <1>3, <1>4, <1>5 DEF ClosedInv

(* What the refresh closes is closed: a row that is filled, canceled or     *)
(* rejected and names an order names one the exchange has closed, as long   *)
(* as a bot that has traded is not run dry on the same database.            *)
THEOREM ClosedRowsAreClosed ==
  ASSUME TRUE \notin DryModes[TRUE]
  PROVE  Spec => []ClosedIsClosed
<1>1. Init => ClosedInv
  <2> SUFFICES ASSUME Init PROVE ClosedInv
    OBVIOUS
  <2>1. DOMAIN book = {} /\ \A p \in Payload : orders[p].oid = NoId
    BY DEF Init, NoOrder
  <2> QED
    BY <2>1 DEF Init, ClosedInv, LiveIsLive, LiveSteps, OrdersWereCalled, DryIsNew,
                MissingIsClosed, ClosedIsClosed
<1>2. TypeOK /\ CallsInv /\ ShownInv /\ ClosedInv /\ [Next]_vars => ClosedInv'
  BY ClosedStep
<1>3. ClosedInv => ClosedIsClosed
  BY DEF ClosedInv
<1> QED
  BY <1>1, <1>2, <1>3, TypeCorrect, CallsInvariant, ShownInvariant, PTL DEF Spec

-----------------------------------------------------------------------------
(* The order a committed key names.  An idempotency row takes its order id  *)
(* from a lookup by client order id, from the action that holds the dedupe  *)
(* key or from the submit call; legacy keys are a payload, as client order  *)
(* ids are, so each of these is an order of the key.                        *)
OwnKeys == \A o \in DOMAIN book : book[o].key = <<book[o].coid, 0>>
Own(o, k) == o \in DOMAIN book /\ book[o].key = k
IdemOwn == \A k \in Key : idem[k].oid # NoId => Own(idem[k].oid, k)
ActsOwn == \A t \in ActionType, k \in Key :
             acts[<<t, k>>].oid # NoId => Own(acts[<<t, k>>].oid, k)

CommitInv == OwnKeys /\ IdemOwn /\ ActsOwn

(* Where the order id of an idempotency row may come from in one step.      *)
IdemMoves(k) ==
  \/ idem'[k].oid \in {idem[k].oid, NoId}
  \/ /\ k = key
     /\ \/ pc = "recover" /\ idem'[k].oid \in Lookup(cur)
        \/ pc = "noaction" /\ idem'[k].oid = acts[<<actionType, key>>].oid
        \/ pc = "commit" /\ idem'[k].oid = got

LEMMA IdemSteps ==
  ASSUME TypeOK, [Next]_vars, NEW k \in Key
  PROVE  IdemMoves(k)
<1> USE DEF Goto, NoIntent, EndCycle, EndIntent, store, local, batch, intent, exchange, history
<1>0. idem[k] \in IdemRow(Hash, OrderId) /\ NoId \in OrderId \cup {NoId}
  BY DEF TypeOK
<1>q. idem' = idem => IdemMoves(k)
  BY DEF IdemMoves
<1>1. CASE \/ \E d \in BOOLEAN, intents \in SUBSET Payload : RunCycle(d, intents)
           \/ Refresh \/ Crash \/ ChangeRules \/ UNCHANGED vars
           \/ \E o \in DOMAIN book : Arrive(o) \/ \E st \in Closings : CloseOrder(o, st)
  BY <1>1, <1>q DEF RunCycle, Refresh, RefreshOpen, RefreshOpenFails, RefreshAll, Crash,
       ChangeRules, vars, Arrive, CloseOrder
<1>2. CASE Tick
  <2>1. idem'[k] = AgeRow(idem[k])
    BY <1>2 DEF Tick
  <2>2. AgeRow(idem[k]).oid = idem[k].oid
    BY <1>0 DEF AgeRow, IdemRow
  <2> QED
    BY <2>1, <2>2 DEF IdemMoves
<1>3. CASE ExecuteGate
  <2>1. idem'[k] = Prune(idem[k])
    BY <1>3 DEF ExecuteGate
  <2> QED
    BY <2>1 DEF Prune, FreshRow, IdemMoves
<1>4. CASE ReserveKey
  <2>1. idem'[k] = idem[k] \/ idem'[k] = FreshRow("PENDING", rules)
    BY <1>4 DEF ReserveKey, Reserve, TypeOK
  <2> QED
    BY <2>1 DEF FreshRow, IdemMoves
<1>5. CASE RecoverFound
  <2>1. PICK o \in Lookup(cur) : idem' = [idem EXCEPT ![key] =
           SetRecovery(Finalize(idem[key], FALSE, TRUE, o, IF o # NoId THEN "COMMITTED" ELSE "FAILED"),
                       0, FALSE, IF o # NoId THEN "COMMITTED" ELSE "FAILED")]
    BY <1>5 DEF RecoverFound
  <2>2. CASE k # key
    BY <2>1, <2>2 DEF TypeOK, IdemMoves
  <2>3. CASE k = key
    <3> DEFINE st == IF o # NoId THEN "COMMITTED" ELSE "FAILED"
               r == Finalize(idem[k], FALSE, TRUE, o, st)
    <3>1. o \in OrderId \cup {NoId} /\ st \in IdemStatus
      BY <1>5, LookupType DEF RecoverFound, TypeOK, PC, IdemStatus
    <3>2. idem'[k] = SetRecovery(r, 0, FALSE, st)
      BY <2>1, <2>3 DEF TypeOK
    <3> HIDE DEF st
    <3>3. r \in IdemRow(Hash, OrderId)
      BY <1>0, <3>1, FinalizeType
    <3>7. r.oid = idem[k].oid \/ r.oid = o
      BY <1>0 DEF Finalize, IdemRow
    <3> HIDE DEF r
    <3>4. idem'[k].oid = r.oid
      BY <3>2, <3>3 DEF SetRecovery, IdemRow
    <3>5. pc = "recover"
      BY <1>5 DEF RecoverFound
    <3> QED
      BY <2>3, <3>4, <3>5, <3>7 DEF IdemMoves
  <2> QED
    BY <2>2, <2>3
<1>6. CASE RecoverFails
  <2>1. \E n, w, st : idem' = [idem EXCEPT ![key] = SetRecovery(idem[key], n, w, st)]
    BY <1>6 DEF RecoverFails
  <2>2. idem'[k] = idem[k] \/ \E n, w, st : idem'[k] = SetRecovery(idem[k], n, w, st)
    BY <2>1 DEF TypeOK
  <2> QED
    BY <1>0, <2>2 DEF SetRecovery, IdemRow, IdemMoves
<1>7. ASSUME NEW act \in BOOLEAN, NEW coid \in BOOLEAN, NEW oid \in OrderId \cup {NoId},
             NEW st \in IdemStatus,
             idem' = [idem EXCEPT ![key] = Finalize(idem[key], act, coid, oid, st)]
      PROVE  \/ idem'[k].oid = idem[k].oid
             \/ k = key /\ oid # NoId /\ idem'[k].oid = oid
  <2>1. CASE k # key
    BY <1>7, <2>1 DEF TypeOK
  <2>2. CASE k = key
    <3>1. idem'[k] = Finalize(idem[k], act, coid, oid, st)
      BY <1>7, <2>2 DEF TypeOK
    <3>2. \/ Finalize(idem[k], act, coid, oid, st).oid = idem[k].oid
          \/ oid # NoId /\ Finalize(idem[k], act, coid, oid, st).oid = oid
      BY <1>0 DEF Finalize, IdemRow
    <3> QED
      BY <2>2, <3>1, <3>2
  <2> QED
    BY <2>1, <2>2
<1>8. CASE MarkClient \/ BindAction \/ Simulate \/ FailKey \/ MarkUnknown
  <2>1. \E act \in BOOLEAN, st \in IdemStatus :
          idem' = [idem EXCEPT ![key] = Finalize(idem[key], act, TRUE, NoId, st)]
    BY <1>8 DEF MarkClient, BindAction, Simulate, FailKey, MarkUnknown, IdemStatus
  <2> QED
    BY <1>0, <1>7, <2>1 DEF IdemMoves
<1>9. CASE NoNewAction
  <2> DEFINE a == acts[<<actionType, key>>]
  <2>1. \E st \in IdemStatus :
          idem' = [idem EXCEPT ![key] = Finalize(idem[key], TRUE, a.coid, a.oid, st)]
    <3>1. (IF dry THEN "SIMULATED" ELSE "COMMITTED") \in IdemStatus
      BY DEF IdemStatus
    <3> QED
      BY <1>9, <3>1, Zenon DEF NoNewAction
  <2>2. pc = "noaction" /\ key \in Key /\ actionType \in ActionType
    BY <1>9, KeyType DEF NoNewAction, TypeOK, PC, actionType, ActionType
  <2>3. a.coid \in BOOLEAN /\ a.oid \in OrderId \cup {NoId}
    <3>1. a \in ActRow(OrderId)
      BY <2>2 DEF TypeOK
    <3> QED
      BY <3>1 DEF ActRow
  <2>4. PICK st \in IdemStatus :
          idem' = [idem EXCEPT ![key] = Finalize(idem[key], TRUE, a.coid, a.oid, st)]
    BY <2>1
  <2>5. TRUE \in BOOLEAN
    OBVIOUS
  <2> HIDE DEF a
  <2>6. idem'[k].oid = idem[k].oid \/ (k = key /\ a.oid # NoId /\ idem'[k].oid = a.oid)
    BY <1>7, <2>3, <2>4, <2>5, Zenon
  <2> QED
    BY <2>2, <2>6 DEF IdemMoves, a
<1>10. CASE CommitKey
  <2>1. idem' = [idem EXCEPT ![key] = Finalize(idem[key], TRUE, TRUE, got, "COMMITTED")]
        /\ pc = "commit" /\ got \in OrderId \cup {NoId}
    BY <1>10 DEF CommitKey, TypeOK
  <2>2. TRUE \in BOOLEAN /\ "COMMITTED" \in IdemStatus
    BY DEF IdemStatus
  <2>3. idem'[k].oid = idem[k].oid \/ (k = key /\ got # NoId /\ idem'[k].oid = got)
    BY <1>7, <2>1, <2>2, Zenon
  <2> QED
    BY <2>1, <2>3 DEF IdemMoves
<1>11. CASE \/ Suppressed \/ \E p \in Payload : Pick(p) \/ RejectPrecheck(p)
            \/ RecoverWaits \/ RecordPlace
  BY <1>11, <1>q DEF Suppressed, Pick, RejectPrecheck, RecoverWaits, RecordPlace
<1>12. CASE \/ SubmitGate \/ SendAcked \/ SendRejected
            \/ \E fate \in {"open", "flying", "dropped"}, again \in BOOLEAN : SendLost(fate, again)
            \/ \E next \in {"confirm", "save"} : ReconcileSubmit(next)
            \/ ReconcileFails \/ SaveNew \/ PromoteOpen \/ SaveOpen \/ AttachOrder
            \/ ClearKey \/ Freeze
  BY <1>12, <1>q DEF SubmitGate, SendAcked, SendRejected, SendLost, ReconcileSubmit,
       ReconcileFails, SaveNew, PromoteOpen, SaveOpen, AttachOrder, ClearKey, Freeze
<1> QED
  BY <1>1, <1>2, <1>3, <1>4, <1>5, <1>6, <1>8, <1>9, <1>10, <1>11, <1>12
     DEF Next, Execute, Submit, Environment

(* And the one of an action.                                                *)
LEMMA ActSteps ==
  ASSUME TypeOK, [Next]_vars, NEW t \in ActionType, NEW k \in Key
  PROVE  \/ acts'[<<t, k>>].oid \in {acts[<<t, k>>].oid, NoId}
         \/ k = key /\ pc = "attach" /\ acts'[<<t, k>>].oid = got
<1> USE DEF Goto, NoIntent, EndCycle, EndIntent, store, local, batch, intent, exchange, history
<1> DEFINE a == <<t, k>>
           Moves == \/ acts'[a].oid \in {acts[a].oid, NoId}
                    \/ k = key /\ pc = "attach" /\ acts'[a].oid = got
<1> SUFFICES Moves
  OBVIOUS
<1>0. acts[a] \in ActRow(OrderId)
  BY DEF TypeOK
<1>q. acts' = acts => Moves
  OBVIOUS
<1>1. CASE RecordPlace
  <2>1. acts'[a] = acts[a] \/ acts'[a] = [held |-> 1, coid |-> FALSE, oid |-> NoId]
    BY <1>1 DEF RecordPlace, RecordAction, TypeOK
  <2> QED
    BY <2>1
<1>2. CASE Simulate \/ MarkUnknown
  <2>1. acts'[a] = acts[a] \/ acts'[a] = AttachAction(acts[a], NoId)
    BY <1>2 DEF Simulate, MarkUnknown, TypeOK
  <2> QED
    BY <1>0, <2>1 DEF AttachAction, ActRow
<1>3. CASE AttachOrder
  <2>1. acts' = [acts EXCEPT ![live] = AttachAction(acts[live], got)] /\ pc = "attach"
    BY <1>3 DEF AttachOrder
  <2>2. CASE a # live
    BY <2>1, <2>2 DEF TypeOK
  <2>3. CASE a = live
    <3>1. acts'[a] = AttachAction(acts[a], got) /\ k = key
      BY <2>1, <2>3 DEF TypeOK, live
    <3> QED
      BY <1>0, <2>1, <3>1 DEF AttachAction, ActRow
  <2> QED
    BY <2>2, <2>3
<1>4. CASE ClearKey
  <2>1. acts'[a] = acts[a] \/ acts'[a] = NoAction
    BY <1>4 DEF ClearKey, ClearDedupe, TypeOK
  <2> QED
    BY <2>1 DEF NoAction
<1>5. CASE \/ \E d \in BOOLEAN, intents \in SUBSET Payload : RunCycle(d, intents)
           \/ Refresh \/ Crash \/ Environment \/ UNCHANGED vars
  BY <1>5, <1>q DEF RunCycle, Refresh, RefreshOpen, RefreshOpenFails, RefreshAll, Crash,
       Environment, Arrive, CloseOrder, Tick, ChangeRules, vars
<1>6. CASE \/ ExecuteGate \/ Suppressed \/ \E p \in Payload : Pick(p) \/ RejectPrecheck(p)
           \/ ReserveKey \/ RecoverWaits \/ RecoverFound \/ RecoverFails \/ MarkClient
           \/ NoNewAction \/ BindAction
  BY <1>6, <1>q DEF ExecuteGate, Suppressed, Pick, RejectPrecheck, ReserveKey,
       RecoverWaits, RecoverFound, RecoverFails, MarkClient, NoNewAction, BindAction
<1>7. CASE \/ SubmitGate \/ SendAcked \/ SendRejected
           \/ \E fate \in {"open", "flying", "dropped"}, again \in BOOLEAN : SendLost(fate, again)
           \/ \E next \in {"confirm", "save"} : ReconcileSubmit(next)
           \/ ReconcileFails \/ SaveNew \/ PromoteOpen \/ SaveOpen \/ CommitKey
           \/ FailKey \/ Freeze
  BY <1>7, <1>q DEF SubmitGate, SendAcked, SendRejected, SendLost, ReconcileSubmit,
       ReconcileFails, SaveNew, PromoteOpen, SaveOpen, CommitKey, FailKey, Freeze
<1> QED
  BY <1>1, <1>2, <1>3, <1>4, <1>5, <1>6, <1>7 DEF Next, Execute, Submit

LEMMA OwnKeysStep ==
  ASSUME ~CycleKeys, TypeOK, OwnKeys, [Next]_vars
  PROVE  OwnKeys'
<1>1. BookGrows
  BY BookSteps
<1>2. key = <<cur, 0>>
  BY DEF key, KeyOf
<1> QED
  BY <1>1, <1>2 DEF OwnKeys, BookGrows

LEMMA CommitStep ==
  ASSUME ~CycleKeys, TypeOK, ShownInv, CommitInv, [Next]_vars
  PROVE  CommitInv'
<1>g. \A o, k : Own(o, k) => Own(o, k)'
  BY BookSteps DEF BookGrows, Own
<1>k. key = <<cur, 0>>
  BY DEF key, KeyOf
<1>s. \A o : Shown(o, cur) => Own(o, key)
  BY <1>k DEF Shown, Own, CommitInv, OwnKeys
<1>o. got # NoId => Own(got, key)
  BY <1>s DEF ShownInv, GotShown
<1>1. OwnKeys'
  BY OwnKeysStep DEF CommitInv
<1>2. IdemOwn'
  <2> SUFFICES ASSUME NEW k \in Key, idem'[k].oid # NoId PROVE Own(idem[k].oid, k)'
    BY DEF IdemOwn
  <2>1. Own(idem'[k].oid, k)
    <3>1. IdemMoves(k)
      BY IdemSteps
    <3>2. CASE idem'[k].oid = idem[k].oid
      BY <3>2 DEF CommitInv, IdemOwn
    <3>3. CASE k = key /\ pc = "recover" /\ idem'[k].oid \in Lookup(cur)
      <4>1. cur \in Payload
        BY <3>3 DEF TypeOK, PC
      <4> QED
        BY <1>s, <3>3, <4>1, LookupShown
    <3>4. CASE k = key /\ pc = "noaction" /\ idem'[k].oid = acts[<<actionType, key>>].oid
      <4>1. actionType \in ActionType
        BY DEF actionType, ActionType
      <4> QED
        BY <3>4, <4>1 DEF CommitInv, ActsOwn
    <3>5. CASE k = key /\ idem'[k].oid = got
      BY <1>o, <3>5
    <3> QED
      BY <3>1, <3>2, <3>3, <3>4, <3>5 DEF IdemMoves
  <2> QED
    BY <1>g, <2>1
<1>3. ActsOwn'
  <2> SUFFICES ASSUME NEW t \in ActionType, NEW k \in Key, acts'[<<t, k>>].oid # NoId
               PROVE  Own(acts[<<t, k>>].oid, k)'
    BY DEF ActsOwn
  <2>1. Own(acts'[<<t, k>>].oid, k)
    <3>1. CASE acts'[<<t, k>>].oid = acts[<<t, k>>].oid
      BY <3>1 DEF CommitInv, ActsOwn
    <3>2. CASE k = key /\ acts'[<<t, k>>].oid = got
      BY <1>o, <3>2
    <3> QED
      BY <3>1, <3>2, ActSteps
  <2> QED
    BY <1>g, <2>1
<1> QED
  BY <1>1, <1>2, <1>3 DEF CommitInv

(* With legacy keys, however a key came to be COMMITTED (by its own submit  *)
(* call, by the lookup of a stale reservation or from the row of an earlier *)
(* action), the order id it carries is that of an order submitted for it.   *)
THEOREM CommittedKeysNameTheirOrder ==
  ASSUME ~CycleKeys
  PROVE  Spec => []CommittedIsOwnOrder
<1>1. Init => CommitInv
  <2> SUFFICES ASSUME Init PROVE CommitInv
    OBVIOUS
  <2>1. DOMAIN book = {}
    BY DEF Init
  <2>2. \A k \in Key : idem[k].oid = NoId
    BY DEF Init, FreshRow
  <2>3. \A t \in ActionType, k \in Key : acts[<<t, k>>].oid = NoId
    BY DEF Init, NoAction
  <2> QED
    BY <2>1, <2>2, <2>3 DEF CommitInv, OwnKeys, IdemOwn, ActsOwn
<1>2. TypeOK /\ ShownInv /\ CommitInv /\ [Next]_vars => CommitInv'
  BY CommitStep
<1>3. CommitInv => CommittedIsOwnOrder
  BY DEF CommitInv, IdemOwn, Own, CommittedIsOwnOrder
<1> QED
  BY <1>1, <1>2, <1>3, TypeCorrect, ShownInvariant, PTL DEF Spec

-----------------------------------------------------------------------------
(* The freeze.  An order that may still trade is named by the row of its    *)
(* payload, or that row is UNKNOWN and closes the gate, or its submit call  *)
(* is still being made; unless the process died in that call or sent it     *)
(* twice.  With legacy keys it is then the only order of its payload, so no *)
(* refresh and no save makes the row name another one.                      *)
Traceable(o) ==
  \/ orders[book[o].coid].oid = o
  \/ orders[book[o].coid].st = "unknown"
  \/ pc \in InSubmit /\ cur = book[o].coid
Accounted == \A o \in DOMAIN book :
  book[o].st \in {"flying", "open"} /\ book[o].key \notin crashed \cup resent => Traceable(o)

FrozenInv == OwnKeys /\ Accounted

(* What the histories of died-in and sent-twice calls forget: nothing.      *)
LEMMA HistoryGrows ==
  ASSUME TypeOK, [Next]_vars
  PROVE  crashed \subseteq crashed' /\ resent \subseteq resent'
<1> USE DEF Goto, NoIntent, EndCycle, EndIntent, store, local, batch, intent, exchange, history
<1>1. CASE Submit
  BY <1>1 DEF Submit, SubmitGate, SendAcked, SendRejected, SendLost, Sent,
       ReconcileSubmit, ReconcileFails, SaveNew, PromoteOpen, SaveOpen, AttachOrder,
       CommitKey, FailKey, ClearKey, MarkUnknown, Freeze
<1>2. CASE Execute
  BY <1>2 DEF Execute, ExecuteGate, Suppressed, Pick, RejectPrecheck, ReserveKey,
       RecoverWaits, RecoverFound, RecoverFails, MarkClient, RecordPlace, NoNewAction,
       BindAction, Simulate
<1>3. CASE \/ \E d \in BOOLEAN, intents \in SUBSET Payload : RunCycle(d, intents)
           \/ Refresh \/ Crash \/ Environment \/ UNCHANGED vars
  BY <1>3 DEF RunCycle, Refresh, RefreshOpen, RefreshOpenFails, RefreshAll, Crash,
       Environment, Arrive, CloseOrder, Tick, ChangeRules, vars
<1> QED
  BY <1>1, <1>2, <1>3 DEF Next

(* How the process leaves a submit call: by dying, with a definite answer,  *)
(* with the order saved, or with its payload frozen.                        *)
LEMMA LeavesSubmit ==
  ASSUME TypeOK, [Next]_vars, pc \in InSubmit
  PROVE  \/ pc' \in InSubmit /\ cur' = cur
         \/ key \in crashed'
         \/ SendRejected
         \/ pc \in {"confirm", "save"} /\ orders'[cur].oid = got
         \/ pc = "freeze" /\ orders'[cur].st = "unknown"
<1> USE DEF Goto, NoIntent, EndCycle, EndIntent, store, local, batch, intent, exchange, history
<1>0. cur \in Payload /\ orders[cur] \in OrderRow
  BY DEF TypeOK, PC, InSubmit
<1>1. CASE SaveNew \/ SaveOpen
  <2>1. \E st : orders'[cur] = SaveOrder(orders[cur], got, st)
    BY <1>0, <1>1 DEF SaveNew, SaveOpen, TypeOK
  <2> QED
    BY <1>0, <1>1, <2>1, SaveOrderFields DEF SaveNew, SaveOpen
<1>2. CASE Freeze
  <2>1. orders'[cur] = SaveOrder(orders[cur], NoId, "unknown")
    BY <1>0, <1>2 DEF Freeze, TypeOK
  <2> QED
    BY <1>0, <1>2, <2>1, SaveOrderFields DEF Freeze
<1>3. CASE Crash
  BY <1>3 DEF Crash
<1>4. CASE \/ SendAcked \/ SendRejected
           \/ \E fate \in {"open", "flying", "dropped"}, again \in BOOLEAN : SendLost(fate, again)
           \/ \E next \in {"confirm", "save"} : ReconcileSubmit(next)
           \/ ReconcileFails \/ MarkUnknown
  BY <1>4 DEF SendAcked, SendLost, ReconcileSubmit, ReconcileFails, MarkUnknown, InSubmit
<1>5. CASE \/ SubmitGate \/ PromoteOpen \/ AttachOrder \/ CommitKey \/ FailKey \/ ClearKey
  BY <1>5 DEF SubmitGate, PromoteOpen, AttachOrder, CommitKey, FailKey, ClearKey, InSubmit
<1>6. CASE Execute
  BY <1>6 DEF Execute, ExecuteGate, Suppressed, Pick, RejectPrecheck, ReserveKey,
       RecoverWaits, RecoverFound, RecoverFails, MarkClient, RecordPlace, NoNewAction,
       BindAction, Simulate, InSubmit
<1>7. CASE \/ \E d \in BOOLEAN, intents \in SUBSET Payload : RunCycle(d, intents)
           \/ Refresh \/ Environment \/ UNCHANGED vars
  BY <1>7 DEF RunCycle, Refresh, RefreshOpen, RefreshOpenFails, RefreshAll,
       Environment, Arrive, CloseOrder, Tick, ChangeRules, vars, InSubmit
<1> QED
  BY <1>1, <1>2, <1>3, <1>4, <1>5, <1>6, <1>7 DEF Next, Submit

LEMMA FrozenStep ==
  ASSUME ~CycleKeys, TypeOK, CallsInv, ShownInv, FrozenInv, [Next]_vars
  PROVE  FrozenInv'
<1>g. BookGrows
  BY BookSteps
<1>k. key = <<cur, 0>>
  BY DEF key, KeyOf
<1>1. OwnKeys'
  BY OwnKeysStep DEF FrozenInv
<1>2. Accounted'
  <2> SUFFICES ASSUME NEW o \in DOMAIN book', book'[o].st \in {"flying", "open"},
                      book'[o].key \notin crashed' \cup resent'
               PROVE  Traceable(o)'
    BY DEF Accounted
  <2>1. CASE o \notin DOMAIN book
    <3>1. pc' \in InSubmit /\ cur' = book'[o].coid
      BY <1>g, <2>1 DEF BookGrows, InSubmit
    <3> QED
      BY <3>1 DEF Traceable
  <2>2. CASE o \in DOMAIN book
    <3> DEFINE p == book[o].coid
    <3>1. /\ book'[o].coid = p /\ book'[o].key = book[o].key
          /\ book[o].st \in {"flying", "open"}
          /\ book[o].key \notin crashed \cup resent
      <4>1. book[o].st \in {"flying", "open", "filled", "canceled"}
        BY <2>2, BookShape DEF BookEntry
      <4> QED
        BY <1>g, <2>2, <4>1, HistoryGrows DEF BookGrows, Closed
    <3>2. p \in Payload /\ book[o].key = <<p, 0>>
      BY <2>2, BookShape DEF BookEntry, FrozenInv, OwnKeys
    (* The only order of p. *)
    <3>3. \A i \in DOMAIN book : book[i].coid = p => i = o
      BY <2>2, <3>1, <3>2 DEF CallsInv, OneOrderPerKey, FrozenInv, OwnKeys
    <3>t. /\ orders'[p].oid = o => Traceable(o)'
          /\ orders'[p].st = "unknown" => Traceable(o)'
          /\ pc' \in InSubmit /\ cur' = p => Traceable(o)'
      BY <3>1 DEF Traceable
    <3>4. CASE pc \in InSubmit /\ cur = p
      <4>1. CASE SendRejected
        <5>1. pc' = "reject" /\ cur' = cur /\ key' = key /\ book' = book
          BY <4>1 DEF SendRejected, batch, exchange, Goto, key, KeyOf
        <5>2. NothingSent'
          BY CallsStep DEF CallsInv
        <5> QED
          BY <1>k, <2>2, <3>1, <3>2, <3>4, <5>1, <5>2 DEF NothingSent
      <4>2. CASE key \in crashed'
        BY <1>k, <3>1, <3>2, <3>4, <4>2
      <4>3. CASE pc \in {"confirm", "save"} /\ orders'[cur].oid = got
        <5>1. Shown(got, p)
          BY <3>4, <4>3 DEF ShownInv, GotShown, Holding
        <5> QED
          BY <3>3, <3>4, <3>t, <4>3, <5>1 DEF Shown
      <4> QED
        BY <3>4, <3>t, <4>1, <4>2, <4>3, LeavesSubmit
    <3>5. CASE orders[p].oid = o \/ orders[p].st = "unknown"
      <4>1. RowMoves(p)
        BY <3>2, RowSteps DEF ShownInv
      <4>2. CASE orders'[p].oid = orders[p].oid /\ orders'[p].st = orders[p].st
        BY <3>5, <3>t, <4>2
      <4>3. CASE Shown(orders'[p].oid, p)
        BY <3>3, <3>t, <4>3 DEF Shown
      <4>4. CASE orders[p].st \in {"new", "open"} /\ orders'[p].oid = orders[p].oid
        BY <3>5, <3>t, <4>4
      <4>5. CASE p = cur /\ pc \in {"confirm", "save"} /\ orders'[p].oid = got
        <5>1. Shown(got, p)
          BY <4>5 DEF ShownInv, GotShown, Holding
        <5> QED
          BY <3>3, <3>t, <4>5, <5>1 DEF Shown
      <4>6. CASE p = cur /\ pc = "promote" /\ orders'[p].oid = orders[p].oid
        <5>1. orders[p].oid = got /\ Shown(got, p)
          BY <4>6 DEF ShownInv, GotShown, Holding
        <5> QED
          BY <3>3, <3>t, <4>6, <5>1 DEF Shown
      <4>7. CASE orders'[p].st = "unknown"
        BY <3>t, <4>7
      <4> QED
        BY <4>1, <4>2, <4>3, <4>4, <4>5, <4>6, <4>7 DEF RowMoves
    <3> QED
      BY <2>2, <3>1, <3>4, <3>5 DEF FrozenInv, Accounted, Traceable
  <2> QED
    BY <2>1, <2>2
<1> QED
  BY <1>1, <1>2 DEF FrozenInv

(* A submit call is counted where it is made: at the second gate.           *)
LEMMA OnlyTheGateCalls ==
  ASSUME TypeOK, [Next]_vars, calls' # calls
  PROVE  pc = "gate" /\ UnknownRows(orders) = {}
<1> USE DEF Goto, NoIntent, EndCycle, EndIntent, store, local, batch, intent, exchange, history
<1>1. CASE Submit
  BY <1>1 DEF Submit, SubmitGate, SyncRegistry, SendAcked, SendRejected, SendLost,
       ReconcileSubmit, ReconcileFails, SaveNew, PromoteOpen, SaveOpen, AttachOrder,
       CommitKey, FailKey, ClearKey, MarkUnknown, Freeze
<1>2. CASE Execute
  BY <1>2 DEF Execute, ExecuteGate, Suppressed, Pick, RejectPrecheck, ReserveKey,
       RecoverWaits, RecoverFound, RecoverFails, MarkClient, RecordPlace, NoNewAction,
       BindAction, Simulate
<1>3. CASE \/ \E d \in BOOLEAN, intents \in SUBSET Payload : RunCycle(d, intents)
           \/ Refresh \/ Crash \/ Environment \/ UNCHANGED vars
  BY <1>3 DEF RunCycle, Refresh, RefreshOpen, RefreshOpenFails, RefreshAll, Crash,
       Environment, Arrive, CloseOrder, Tick, ChangeRules, vars
<1> QED
  BY <1>1, <1>2, <1>3 DEF Next

(* The freeze holds: with legacy keys, no submit call of any payload is     *)
(* made while an order the exchange may still trade is in no local row,     *)
(* unless the process died in its submit call or that call was sent twice.  *)
THEOREM NothingIsSentInTheDark ==
  ASSUME ~CycleKeys
  PROVE  Spec => FrozenWhileUnaccounted
<1>1. Init => FrozenInv
  <2> SUFFICES ASSUME Init PROVE FrozenInv
    OBVIOUS
  <2>1. DOMAIN book = {}
    BY DEF Init
  <2> QED
    BY <2>1 DEF FrozenInv, OwnKeys, Accounted
<1>2. TypeOK /\ CallsInv /\ ShownInv /\ FrozenInv /\ [Next]_vars => FrozenInv'
  BY FrozenStep
<1>3. TypeOK /\ FrozenInv /\ [Next]_vars =>
        [calls' # calls => \A o \in DOMAIN book :
           Unaccounted(o) => book[o].key \in crashed \cup resent]_vars
  <2> SUFFICES ASSUME TypeOK, FrozenInv, [Next]_vars, calls' # calls,
                      NEW o \in DOMAIN book, Unaccounted(o)
               PROVE  book[o].key \in crashed \cup resent
    OBVIOUS
  <2>1. pc = "gate" /\ UnknownRows(orders) = {}
    BY OnlyTheGateCalls
  <2>2. book[o].coid \in Payload
    BY BookShape DEF BookEntry
  <2>3. ~Traceable(o)
    BY <2>1, <2>2 DEF Traceable, Unaccounted, UnknownRows, InSubmit
  <2> QED
    BY <2>3 DEF FrozenInv, Accounted, Unaccounted
<1> QED
  BY <1>1, <1>2, <1>3, TypeCorrect, CallsInvariant, ShownInvariant, PTL
     DEF Spec, FrozenWhileUnaccounted
=============================================================================
