------------------------- MODULE Stage4CycleProofs -------------------------
(***************************************************************************)
(* Theorems about Stage4Cycle, for every set of symbols, intents and       *)
(* orders and every interleaving of the cycle with the exchange, other     *)
(* users of the account and the operator: its types, that the table keeps  *)
(* the orders of different intents apart, and that nothing is submitted    *)
(* over an order the exchange showed.                                      *)
(***************************************************************************)
EXTENDS Stage4Cycle, FiniteSetTheorems, SequenceTheorems, TLAPS

-----------------------------------------------------------------------------
(* The inductive invariant *)

(* An order at the exchange is an intent's, under that intent's alias, or  *)
(* another user's, under no name of the bot.                               *)
BookInv ==
  \A o \in DOMAIN book :
    \/ book[o].id \in Id /\ book[o].name = AliasOf[book[o].id] /\ book[o].sym = SymOf[book[o].id]
    \/ book[o].id = NoName /\ book[o].name \in {Stranger, NoName}

(* A row has an order id of its own intent, and so has the acknowledgement *)
(* that is still to be recorded.                                           *)
RowInv ==
  /\ \A i \in Id : rows[i].oid # NoId => rows[i].oid \in DOMAIN book /\ book[rows[i].oid].id = i
  /\ pc = "record" => got \in DOMAIN book /\ book[got].id = cur
  /\ \A i \in Id : rows[i].st = "unknown" => i \in doubt

(* What a cycle may rely on for an intent it submits: rows name the orders *)
(* the exchange showed on its symbol, and its own order, if shown, is a    *)
(* duplicate or was in doubt.                                              *)
Covered(s) == \A o \in base : book[o].sym = s => \E i \in Id : book[o].name = i /\ rows[i] # NoRow
Accounted(i) == \A o \in base : book[o].id = i => Deduped(rows[i]) \/ i \in doubt
Known(i) == Covered(SymOf[i]) /\ Accounted(i)
AllKnown == \A i \in Id : SymOf[i] \in active \ failed => Known(i)

Submit(i) == [type |-> "submit", id |-> i]
Cancel(i) == [type |-> "cancel", id |-> i]

(* The answer of the exchange, the outcome of the reconciliation, the      *)
(* freeze and the plan carry this from one stage of the cycle to the next. *)
StageInv ==
  /\ pc = "reconcile" => /\ seen \subseteq base
                         /\ \A o \in base : book[o].sym \in active \ failed => o \in seen
  /\ pc = "evaluate" /\ result.external = 0 /\ ~result.nameless => AllKnown
  /\ pc = "plan" /\ ~frozen /\ Threshold = 1 => AllKnown

(* The actions of a plan: a submit is known, and no action that is under   *)
(* way or still to come touches its row first.                             *)
PlanInv ==
  /\ pc \in {"idle", "fetch", "reconcile", "evaluate", "plan"} => todo = {}
  /\ \A i, j \in Id : Submit(i) \in todo /\ Cancel(j) \in todo => i # j
  /\ pc \in {"submit", "send", "record", "cancel"} => Submit(cur) \notin todo
  /\ pc = "send" => ~Deduped(rows[cur])
  /\ \A i \in Id : Threshold = 1 /\ (Submit(i) \in todo \/ (pc \in {"submit", "send"} /\ cur = i))
                     => Known(i)

Stage4Inv == BookInv /\ RowInv /\ StageInv /\ PlanInv

-----------------------------------------------------------------------------
(* Types *)

LEMMA RowTypes ==
  ASSUME NEW row \in Row
  PROVE  /\ \A st \in RowStatus : ErrorRow(row, st) \in Row /\ ErrorRow(row, st).oid = row.oid
                                   /\ ErrorRow(row, st).st = st
         /\ \A o \in OrderId \cup {NoId} : Imported(row, o) \in Row /\ [row EXCEPT !.oid = o] \in Row
         /\ \A st \in RowStatus : [row EXCEPT !.st = st] \in Row
<1>1. row.st \in RowStatus /\ row.oid \in OrderId \cup {NoId} /\ row.ext \in BOOLEAN
  BY DEF Row
<1>2. "open" \in RowStatus
  BY DEF RowStatus
<1>3. \A st \in RowStatus : ErrorRow(row, st) \in Row /\ ErrorRow(row, st).oid = row.oid
                             /\ ErrorRow(row, st).st = st
  BY <1>1 DEF ErrorRow, Row
<1>4. \A o \in OrderId \cup {NoId} : Imported(row, o) \in Row /\ [row EXCEPT !.oid = o] \in Row
  BY <1>1, <1>2 DEF Imported, Row
<1>5. \A st \in RowStatus : [row EXCEPT !.st = st] \in Row
  BY <1>1 DEF Row
<1> QED
  BY <1>3, <1>4, <1>5

(* The exchange's orders keep their number, intent, symbol and name. *)
Grows ==
  /\ Len(book) \in Nat /\ DOMAIN book = 1..Len(book)
  /\ book' \in Seq(BookEntry) /\ DOMAIN book \subseteq DOMAIN book'
  /\ \A o \in DOMAIN book : /\ book'[o].id = book[o].id /\ book'[o].sym = book[o].sym
                            /\ book'[o].name = book[o].name

LEMMA GrowsSame ==
  ASSUME book \in Seq(BookEntry), book' = book
  PROVE  Grows /\ Len(book') = Len(book)
BY DEF Grows

LEMMA GrowsAppend ==
  ASSUME book \in Seq(BookEntry), NEW e \in BookEntry, book' = Append(book, e)
  PROVE  Grows /\ Len(book') = Len(book) + 1 /\ book'[Len(book')] = e
               /\ DOMAIN book' = DOMAIN book \cup {Len(book')}
BY DEF Grows

LEMMA GrowsChange ==
  ASSUME book \in Seq(BookEntry), NEW t, NEW st \in {"flying", "open", "closed"},
         book' = [book EXCEPT ![t].st = st]
  PROVE  Grows /\ Len(book') = Len(book) /\ DOMAIN book' = DOMAIN book
<1>1. /\ Len(book) \in Nat /\ DOMAIN book = 1..Len(book) /\ DOMAIN book' = DOMAIN book
      /\ \A o \in DOMAIN book : book[o] \in BookEntry
  OBVIOUS
<1>2. ASSUME NEW o \in DOMAIN book
      PROVE  /\ book'[o] \in BookEntry /\ book'[o].id = book[o].id
             /\ book'[o].sym = book[o].sym /\ book'[o].name = book[o].name
  <2>1. book[o] \in BookEntry
    BY <1>1
  <2>2. CASE o = t
    <3>1. book'[o] = [book[o] EXCEPT !.st = st]
      BY <2>2
    <3> QED BY <2>1, <3>1 DEF BookEntry
  <2>3. CASE o # t
    BY <2>1, <2>3
  <2> QED BY <2>2, <2>3
<1>3. book' \in [1..Len(book) -> BookEntry]
  BY <1>1, <1>2
<1>4. book' \in Seq(BookEntry) /\ Len(book') = Len(book)
  BY <1>1, <1>3
<1> QED
  BY <1>1, <1>2, <1>4 DEF Grows

LEMMA PlacedEntry ==
  ASSUME TypeOK, cur \in Id, NEW st \in {"flying", "open", "closed"}
  PROVE  [id |-> cur, sym |-> SymOf[cur], name |-> AliasOf[cur], st |-> st] \in BookEntry
BY Stage4Assumption DEF BookEntry, Stage4Assumption

(* The names the exchange reported are finitely many. *)
LEMMA ReportedFinite ==
  ASSUME TypeOK
  PROVE  IsFiniteSet(External) /\ Cardinality(External) \in Nat
<1>1. Len(book) \in Nat /\ DOMAIN book = 1..Len(book) /\ seen \subseteq 1..Len(book)
  BY DEF TypeOK
<1>2. IsFiniteSet(seen)
  <2>1. IsFiniteSet(1..Len(book))
    BY <1>1, FS_Interval
  <2> QED BY <1>1, <2>1, FS_Subset
<1> DEFINE g == [o \in seen |-> book[o].name]
           N == {book[o].name : o \in seen}
<1>3. g \in Surjection(seen, N)
  BY DEF Surjection
<1>4. IsFiniteSet(N)
  BY <1>2, <1>3, FS_Surjection
<1>5. External \subseteq N
  BY DEF External, Reported
<1> QED
  BY <1>4, <1>5, FS_Subset, FS_CardinalityType

(* What the types say of the exchange's orders. *)
BookTyped == book \in Seq(BookEntry) /\ Len(book) <= MaxOrders

LEMMA BookTypeStep ==
  ASSUME TypeOK, [Next]_vars
  PROVE  Grows /\ BookTyped'
<1>0. book \in Seq(BookEntry) /\ Len(book) \in Nat /\ Len(book) <= MaxOrders /\ MaxOrders \in Nat
  BY Stage4Assumption DEF TypeOK, Stage4Assumption
<1>1. ASSUME book' = book PROVE Grows /\ BookTyped'
  BY <1>0, <1>1, GrowsSame DEF BookTyped
<1>2. ASSUME NEW e \in BookEntry, book' = Append(book, e), Len(book) < MaxOrders
      PROVE  Grows /\ BookTyped'
  BY <1>0, <1>2, GrowsAppend DEF BookTyped, Grows
<1>3. ASSUME NEW t, NEW st \in {"flying", "open", "closed"}, book' = [book EXCEPT ![t].st = st]
      PROVE  Grows /\ BookTyped'
  BY <1>0, <1>3, GrowsChange DEF BookTyped, Grows
<1>4. ASSUME NEW st \in {"open", "flying"}, pc = "send", book' = Placed(st), Len(book) < MaxOrders
      PROVE  Grows /\ BookTyped'
  <2>1. cur \in Id
    BY <1>4 DEF TypeOK
  <2> QED BY <1>2, <1>4, <2>1, PlacedEntry DEF Placed
<1>5. CASE Cycle
  BY <1>1, <1>5 DEF Cycle, BeginCycle, Fetch, Reconcile, EvaluateFreeze, Plan, Done
<1>6. CASE Execute
  <2>1. CASE \E i \in Id : StartSubmit(i) \/ StartCancel(i)
    BY <1>1, <2>1 DEF StartSubmit, StartCancel
  <2>2. CASE RejectByCooldown \/ SkipDuplicate \/ RejectByRules \/ CallExchange \/ RecordSubmitted
             \/ SendRejected
    BY <1>1, <2>2 DEF RejectByCooldown, SkipDuplicate, RejectByRules, CallExchange,
         RecordSubmitted, SendRejected
  <2>3. CASE SendAcked
    BY <1>4, <2>3 DEF SendAcked
  <2>4. ASSUME NEW fate \in {"open", "flying", "dropped"}, SendUncertain(fate)
        PROVE  Grows /\ BookTyped'
    BY <1>1, <1>4, <2>4 DEF SendUncertain
  <2>5. CASE CancelAnswered
    BY <1>3, <2>5 DEF CancelAnswered
  <2>6. ASSUME NEW done \in BOOLEAN, CancelUncertain(done)
        PROVE  Grows /\ BookTyped'
    BY <1>1, <1>3, <2>6 DEF CancelUncertain
  <2> QED BY <1>6, <2>1, <2>2, <2>3, <2>4, <2>5, <2>6 DEF Execute
<1>7. ASSUME NEW fate \in {"open", "flying", "dropped"}, Crash(fate)
      PROVE  Grows /\ BookTyped'
  BY <1>1, <1>4, <1>7 DEF Crash
<1>8. CASE Environment
  <2>1. ASSUME NEW o \in DOMAIN book, Arrive(o) \/ CloseOrder(o) PROVE Grows /\ BookTyped'
    BY <1>3, <2>1 DEF Arrive, CloseOrder
  <2>2. ASSUME NEW s \in Symbol, NEW name \in {Stranger, NoName}, PlaceForeign(s, name)
        PROVE  Grows /\ BookTyped'
    <3>1. [id |-> NoName, sym |-> s, name |-> name, st |-> "open"] \in BookEntry
      BY DEF BookEntry
    <3> QED BY <1>2, <2>2, <3>1 DEF PlaceForeign
  <2>3. CASE ClearFreeze \/ \E on \in BOOLEAN : SetKillSwitch(on)
    BY <1>1, <2>3 DEF ClearFreeze, SetKillSwitch
  <2> QED BY <1>8, <2>1, <2>2, <2>3 DEF Environment
<1>9. CASE UNCHANGED vars
  BY <1>1, <1>9 DEF vars
<1> QED
  BY <1>5, <1>6, <1>7, <1>8, <1>9 DEF Next

LEMMA RowTypeStep ==
  ASSUME TypeOK, [Next]_vars
  PROVE  rows' \in [Id -> Row]
<1>0. rows \in [Id -> Row]
  BY DEF TypeOK
<1>1. ASSUME pc \in {"submit", "send", "record", "cancel"}, NEW st \in RowStatus,
             rows' = [rows EXCEPT ![cur] = ErrorRow(@, st)]
      PROVE  rows' \in [Id -> Row]
  <2>1. cur \in Id
    BY <1>1 DEF TypeOK
  <2>2. ErrorRow(rows[cur], st) \in Row
    BY <1>0, <2>1, RowTypes
  <2> QED BY <1>0, <1>1, <2>2
<1>2. {"rejected", "unknown", "unknown_closed", "error", "open", "cancel_requested"} \subseteq RowStatus
  BY DEF RowStatus
<1>3. CASE Reconcile
  <2>1. PICK pick \in [Id -> OrderId \cup {NoId}] :
          rows' = [i \in Id |->
            IF i \in UnknownClosed THEN [rows[i] EXCEPT !.st = "unknown_closed"]
            ELSE IF i \in EnrichIds THEN [rows[i] EXCEPT !.oid = pick[i]]
            ELSE IF i \in External THEN Imported(rows[i], pick[i])
            ELSE rows[i]]
    BY <1>3 DEF Reconcile
  <2>2. ASSUME NEW i \in Id
        PROVE  /\ [rows[i] EXCEPT !.st = "unknown_closed"] \in Row
               /\ [rows[i] EXCEPT !.oid = pick[i]] \in Row
               /\ Imported(rows[i], pick[i]) \in Row /\ rows[i] \in Row
    BY <1>0, <1>2, RowTypes
  <2> QED BY <2>1, <2>2
<1>4. ASSUME NEW i \in Id, StartCancel(i) PROVE rows' \in [Id -> Row]
  <2>1. /\ ErrorRow(rows[i], "error") \in Row
        /\ [rows[i] EXCEPT !.st = "cancel_requested"] \in Row
    BY <1>0, <1>2, RowTypes
  <2>2. [rows[i] EXCEPT !.st = rows[i].st] \in Row
    BY <1>0 DEF Row
  <2>3. \/ rows' = [rows EXCEPT ![i] = rows[i]]
        \/ rows' = [rows EXCEPT ![i] = ErrorRow(rows[i], "error")]
        \/ rows' = [rows EXCEPT ![i] = [rows[i] EXCEPT !.st = "cancel_requested"]]
        \/ rows' = [rows EXCEPT ![i] = [rows[i] EXCEPT !.st = rows[i].st]]
    BY <1>4 DEF StartCancel
  <2> QED BY <1>0, <2>1, <2>2, <2>3
<1>5. CASE RecordSubmitted
  <2>1. [st |-> "open", oid |-> got, ext |-> FALSE] \in Row
    BY <1>2 DEF Row, TypeOK
  <2> QED BY <1>0, <1>5, <2>1 DEF RecordSubmitted
<1>6. CASE RejectByCooldown \/ RejectByRules \/ SendRejected
  BY <1>1, <1>2, <1>6 DEF RejectByCooldown, RejectByRules, SendRejected
<1>7. ASSUME NEW fate, SendUncertain(fate) PROVE rows' \in [Id -> Row]
  BY <1>1, <1>2, <1>7 DEF SendUncertain
<1>8. ASSUME NEW done, CancelUncertain(done) PROVE rows' \in [Id -> Row]
  BY <1>1, <1>2, <1>8 DEF CancelUncertain
<1>9. CASE UNCHANGED rows
  BY <1>0, <1>9
<1>10. CASE Cycle
  BY <1>3, <1>9, <1>10 DEF Cycle, BeginCycle, Fetch, EvaluateFreeze, Plan, Done
<1>11. CASE Execute
  BY <1>4, <1>5, <1>6, <1>7, <1>8, <1>9, <1>11
     DEF Execute, StartSubmit, SkipDuplicate, CallExchange, SendAcked, CancelAnswered
<1>12. CASE Environment \/ \E fate \in {"open", "flying", "dropped"} : Crash(fate)
  BY <1>9, <1>12 DEF Environment, Arrive, CloseOrder, PlaceForeign, ClearFreeze, SetKillSwitch,
       Crash
<1>13. CASE UNCHANGED vars
  BY <1>9, <1>13 DEF vars
<1> QED
  BY <1>10, <1>11, <1>12, <1>13 DEF Next

(* The rest of TypeOK, and what makes it inductive: a cycle starts with no *)
(* symbol that has failed.                                                 *)
LocalTyped ==
  /\ freeze \in BOOLEAN /\ kill \in BOOLEAN
  /\ pc \in PC
  /\ active \subseteq Symbol /\ failed \subseteq active
  /\ pc = "idle" => failed = {}
  /\ seen \subseteq DOMAIN book
  /\ result \in [external : Nat, nameless : BOOLEAN, mismatch : BOOLEAN]
  /\ killed \in BOOLEAN /\ frozen \in BOOLEAN
  /\ todo \subseteq Action
  /\ cur \in Id \cup {NoName} /\ got \in OrderId \cup {NoId}
  /\ pc \in {"submit", "send", "record", "cancel"} => cur \in Id
  /\ base \subseteq DOMAIN book /\ doubt \subseteq Id

LEMMA LocalTypeStep ==
  ASSUME TypeOK, LocalTyped, [Next]_vars, Grows, BookTyped'
  PROVE  LocalTyped'
<1>1. NoResult \in [external : Nat, nameless : BOOLEAN, mismatch : BOOLEAN]
  BY DEF NoResult
<1>2. DOMAIN book \subseteq DOMAIN book'
  BY DEF Grows
<1> USE <1>1, <1>2 DEF LocalTyped, Goto, PC
<1>3. CASE Cycle
  <2>1. ASSUME NEW symbols \in SUBSET Symbol, BeginCycle(symbols) PROVE LocalTyped'
    BY <2>1 DEF BeginCycle, history
  <2>2. ASSUME NEW blind \in SUBSET active, NEW noprice \in SUBSET active, Fetch(blind, noprice)
        PROVE  LocalTyped'
    BY <2>2 DEF Fetch, Open
  <2>3. CASE Reconcile
    <3>1. result' \in [external : Nat, nameless : BOOLEAN, mismatch : BOOLEAN]
      BY <2>3, ReportedFinite DEF Reconcile
    <3> QED BY <2>3, <3>1 DEF Reconcile, history
  <2>4. CASE EvaluateFreeze
    BY <2>4 DEF EvaluateFreeze, history
  <2>5. ASSUME NEW nofills \in SUBSET active, NEW intents \in SUBSET Id, NEW stale \in SUBSET Id,
               Plan(nofills, intents, stale)
        PROVE  LocalTyped'
    <3>1. todo' \subseteq Action
      BY <2>5 DEF Plan, Action
    <3> QED BY <2>5, <3>1 DEF Plan, history
  <2>6. CASE Done
    BY <2>6 DEF Done, EndCycle
  <2> QED BY <1>3, <2>1, <2>2, <2>3, <2>4, <2>5, <2>6 DEF Cycle
<1>4. CASE Execute
  <2>1. ASSUME NEW i \in Id, StartSubmit(i) PROVE LocalTyped'
    BY <2>1 DEF StartSubmit, history
  <2>2. ASSUME NEW i \in Id, StartCancel(i) PROVE LocalTyped'
    BY <2>2 DEF StartCancel, history
  <2>3. CASE RejectByCooldown \/ SkipDuplicate \/ RejectByRules \/ RecordSubmitted \/ SendRejected
             \/ CancelAnswered
    BY <2>3 DEF RejectByCooldown, SkipDuplicate, RejectByRules, RecordSubmitted, SendRejected,
         CancelAnswered, NextAction, history
  <2>4. CASE CallExchange
    BY <2>4 DEF CallExchange, history, local
  <2>5. CASE SendAcked
    <3>1. got' \in OrderId
      <4>1. Len(book') \in Nat /\ Len(book') <= MaxOrders /\ Len(book') # 0
        <5>1. book \in Seq(BookEntry)
          BY DEF TypeOK
        <5>2. book' = Append(book, [id |-> cur, sym |-> SymOf[cur], name |-> AliasOf[cur], st |-> "open"])
          BY <2>5 DEF SendAcked, Placed
        <5> QED BY <5>1, <5>2 DEF BookTyped
      <4> QED BY <2>5, <4>1, Stage4Assumption DEF SendAcked, OrderId, Stage4Assumption
    <3> QED BY <2>5, <3>1 DEF SendAcked, history
  <2>6. ASSUME NEW fate, SendUncertain(fate) PROVE LocalTyped'
    BY <2>6 DEF SendUncertain, NextAction
  <2>7. ASSUME NEW done, CancelUncertain(done) PROVE LocalTyped'
    BY <2>7 DEF CancelUncertain, NextAction
  <2> QED BY <1>4, <2>1, <2>2, <2>3, <2>4, <2>5, <2>6, <2>7 DEF Execute
<1>5. ASSUME NEW fate, Crash(fate) PROVE LocalTyped'
  BY <1>5 DEF Crash, EndCycle
<1>6. CASE Environment
  <2>1. UNCHANGED <<pc, active, failed, seen, result, killed, frozen, todo, cur, got, base, doubt>>
    BY <1>6 DEF Environment, Arrive, CloseOrder, PlaceForeign, ClearFreeze, SetKillSwitch, local,
         history
  <2>2. freeze' \in BOOLEAN /\ kill' \in BOOLEAN
    BY <1>6 DEF Environment, Arrive, CloseOrder, PlaceForeign, ClearFreeze, SetKillSwitch
  <2> QED BY <2>1, <2>2
<1>7. CASE UNCHANGED vars
  BY <1>7 DEF vars, local, history
<1> QED
  BY <1>3, <1>4, <1>5, <1>6, <1>7 DEF Next

Typed == TypeOK /\ LocalTyped

LEMMA Stage4TypeStep == Typed /\ [Next]_vars => Typed' /\ Grows
<1> SUFFICES ASSUME Typed, [Next]_vars PROVE Typed' /\ Grows
  OBVIOUS
<1>1. Grows /\ BookTyped'
  BY BookTypeStep DEF Typed
<1>2. rows' \in [Id -> Row]
  BY RowTypeStep DEF Typed
<1>3. LocalTyped'
  BY <1>1, LocalTypeStep DEF Typed
<1> QED
  BY <1>1, <1>2, <1>3 DEF Typed, TypeOK, LocalTyped, BookTyped

LEMMA Stage4TypeInit == Init => Typed
<1> SUFFICES ASSUME Init PROVE Typed
  OBVIOUS
<1>1. NoRow \in Row
  BY DEF NoRow, Row, RowStatus
<1>2. book \in Seq(BookEntry) /\ Len(book) = 0
  BY DEF Init
<1>3. NoResult \in [external : Nat, nameless : BOOLEAN, mismatch : BOOLEAN]
  BY DEF NoResult
<1>4. rows \in [Id -> Row]
  BY <1>1 DEF Init
<1>5. Len(book) <= MaxOrders
  BY <1>2, Stage4Assumption DEF Stage4Assumption
<1> QED
  BY <1>2, <1>3, <1>4, <1>5 DEF Init, Typed, LocalTyped, TypeOK, PC

LEMMA Stage4Typed == Spec => []Typed
BY Stage4TypeInit, Stage4TypeStep, PTL DEF Spec

(* The table, the switches, the cycle and the exchange keep their types    *)
(* (TypeOK).                                                               *)
THEOREM Stage4TypeCorrect == Spec => []TypeOK
<1>1. Typed => TypeOK
  BY DEF Typed
<1> QED
  BY <1>1, Stage4Typed, PTL

-----------------------------------------------------------------------------
(* The orders at the exchange *)

LEMMA BookInvStep ==
  ASSUME TypeOK, BookInv, Grows, [Next]_vars
  PROVE  BookInv'
<1>0. book \in Seq(BookEntry) /\ Len(book) \in Nat
  BY DEF TypeOK
<1>1. ASSUME DOMAIN book' = DOMAIN book PROVE BookInv'
  BY <1>1 DEF BookInv, Grows
<1>2. ASSUME NEW e, e \in BookEntry, book' = Append(book, e),
             \/ e.id \in Id /\ e.name = AliasOf[e.id] /\ e.sym = SymOf[e.id]
             \/ e.id = NoName /\ e.name \in {Stranger, NoName}
      PROVE  BookInv'
  <2>1. book'[Len(book')] = e /\ DOMAIN book' = DOMAIN book \cup {Len(book')}
    BY <1>0, <1>2, GrowsAppend
  <2> QED BY <1>2, <2>1 DEF BookInv, Grows
<1>3. ASSUME NEW t, NEW st \in {"flying", "open", "closed"}, book' = [book EXCEPT ![t].st = st]
      PROVE  BookInv'
  BY <1>1, <1>3
<1>4. ASSUME NEW st \in {"open", "flying"}, pc = "send", book' = Placed(st) PROVE BookInv'
  <2> DEFINE e == [id |-> cur, sym |-> SymOf[cur], name |-> AliasOf[cur], st |-> st]
  <2>1. cur \in Id
    BY <1>4 DEF TypeOK
  <2>2. e \in BookEntry /\ e.id = cur /\ e.name = AliasOf[cur] /\ e.sym = SymOf[cur]
    BY <2>1, PlacedEntry
  <2>3. book' = Append(book, e)
    BY <1>4 DEF Placed
  <2> HIDE DEF e
  <2> QED BY <1>2, <2>1, <2>2, <2>3
<1>5. CASE Cycle
  BY <1>1, <1>5 DEF Cycle, BeginCycle, Fetch, Reconcile, EvaluateFreeze, Plan, Done
<1>6. CASE Execute
  <2>1. CASE \E i \in Id : StartSubmit(i) \/ StartCancel(i)
    BY <1>1, <2>1 DEF StartSubmit, StartCancel
  <2>2. CASE RejectByCooldown \/ SkipDuplicate \/ RejectByRules \/ CallExchange \/ RecordSubmitted
             \/ SendRejected
    BY <1>1, <2>2 DEF RejectByCooldown, SkipDuplicate, RejectByRules, CallExchange,
         RecordSubmitted, SendRejected
  <2>3. CASE SendAcked
    BY <1>4, <2>3 DEF SendAcked
  <2>4. ASSUME NEW fate \in {"open", "flying", "dropped"}, SendUncertain(fate) PROVE BookInv'
    BY <1>1, <1>4, <2>4 DEF SendUncertain
  <2>5. CASE CancelAnswered
    BY <1>3, <2>5 DEF CancelAnswered
  <2>6. ASSUME NEW done \in BOOLEAN, CancelUncertain(done) PROVE BookInv'
    BY <1>1, <1>3, <2>6 DEF CancelUncertain
  <2> QED BY <1>6, <2>1, <2>2, <2>3, <2>4, <2>5, <2>6 DEF Execute
<1>7. ASSUME NEW fate \in {"open", "flying", "dropped"}, Crash(fate) PROVE BookInv'
  BY <1>1, <1>4, <1>7 DEF Crash
<1>8. CASE Environment
  <2>1. ASSUME NEW o \in DOMAIN book, Arrive(o) \/ CloseOrder(o) PROVE BookInv'
    BY <1>3, <2>1 DEF Arrive, CloseOrder
  <2>2. ASSUME NEW s \in Symbol, NEW name \in {Stranger, NoName}, PlaceForeign(s, name)
        PROVE  BookInv'
    <3> DEFINE e == [id |-> NoName, sym |-> s, name |-> name, st |-> "open"]
    <3>1. e \in BookEntry /\ e.id = NoName /\ e.name = name
      BY DEF BookEntry
    <3>2. book' = Append(book, e)
      BY <2>2 DEF PlaceForeign
    <3> HIDE DEF e
    <3> QED BY <1>2, <3>1, <3>2
  <2>3. CASE ClearFreeze \/ \E on \in BOOLEAN : SetKillSwitch(on)
    BY <1>1, <2>3 DEF ClearFreeze, SetKillSwitch
  <2> QED BY <1>8, <2>1, <2>2, <2>3 DEF Environment
<1>9. CASE UNCHANGED vars
  BY <1>1, <1>9 DEF vars
<1> QED
  BY <1>5, <1>6, <1>7, <1>8, <1>9 DEF Next

(* An order under the name of a local id is that intent's order. *)
LEMMA NamedIsOwn ==
  ASSUME BookInv, NEW o \in DOMAIN book, NEW i \in Id, book[o].name = i
  PROVE  book[o].id = i
<1>1. i # Stranger /\ i # NoName
  BY Stage4Assumption DEF Stage4Assumption
<1>2. book[o].id \in Id /\ AliasOf[book[o].id] = i
  BY <1>1 DEF BookInv
<1> QED
  BY <1>2, Stage4Assumption DEF Stage4Assumption

-----------------------------------------------------------------------------
(* The rows *)

(* What a step may do to a row: it is never deleted, keeps its order id or *)
(* gets one of its own, and is unknown only for an intent in doubt.        *)
RowMoves(i) ==
  /\ rows[i] # NoRow => rows'[i] # NoRow
  /\ rows'[i].oid # rows[i].oid /\ rows'[i].oid # NoId =>
       rows'[i].oid \in DOMAIN book /\ book[rows'[i].oid].id = i
  /\ rows'[i].st = "unknown" => rows[i].st = "unknown" \/ i \in doubt'

LEMMA RowMovesStep ==
  ASSUME TypeOK, BookInv, RowInv, [Next]_vars, NEW i \in Id
  PROVE  RowMoves(i)
<1>0. rows \in [Id -> Row] /\ rows[i] \in Row
  BY DEF TypeOK
<1>1. ASSUME rows'[i] = rows[i] PROVE RowMoves(i)
  BY <1>1 DEF RowMoves
<1>2. ASSUME NEW st \in RowStatus \ {"none"}, rows'[i] = ErrorRow(rows[i], st),
             st = "unknown" => i \in doubt'
      PROVE  RowMoves(i)
  <2>1. rows'[i].oid = rows[i].oid /\ rows'[i].st = st
    BY <1>0, <1>2, RowTypes
  <2>2. rows'[i] # NoRow
    BY <2>1 DEF NoRow
  <2> QED BY <1>2, <2>1, <2>2 DEF RowMoves
<1>3. ASSUME pc \in {"submit", "send", "record", "cancel"}, NEW st \in RowStatus \ {"none"},
             rows' = [rows EXCEPT ![cur] = ErrorRow(@, st)], st = "unknown" => cur \in doubt'
      PROVE  RowMoves(i)
  <2>1. CASE i = cur
    BY <1>0, <1>2, <1>3, <2>1
  <2>2. CASE i # cur
    BY <1>0, <1>1, <1>3, <2>2
  <2> QED BY <2>1, <2>2
<1>4. {"rejected", "unknown", "unknown_closed", "error", "open", "cancel_requested"}
         \subseteq RowStatus \ {"none"}
  BY DEF RowStatus
<1>5. CASE Reconcile
  <2>1. PICK pick \in [Id -> OrderId \cup {NoId}] :
          /\ \A j \in Id : IF j \in EnrichIds \cup External THEN pick[j] \in Named(j)
                                                         ELSE pick[j] = NoId
          /\ rows' = [j \in Id |->
               IF j \in UnknownClosed THEN [rows[j] EXCEPT !.st = "unknown_closed"]
               ELSE IF j \in EnrichIds THEN [rows[j] EXCEPT !.oid = pick[j]]
               ELSE IF j \in External THEN Imported(rows[j], pick[j])
               ELSE rows[j]]
    BY <1>5 DEF Reconcile
  <2>2. i \in EnrichIds \cup External => pick[i] \in DOMAIN book /\ book[pick[i]].id = i
    <3>1. seen \subseteq DOMAIN book
      BY DEF TypeOK
    <3> QED BY <2>1, <3>1, NamedIsOwn DEF Named
  <2>3. CASE i \in UnknownClosed
    <3>1. rows'[i] = [rows[i] EXCEPT !.st = "unknown_closed"]
      BY <2>1, <2>3
    <3>2. rows'[i].st = "unknown_closed" /\ rows'[i].oid = rows[i].oid
      BY <1>0, <3>1 DEF Row
    <3> QED BY <3>2 DEF RowMoves, NoRow
  <2>4. CASE i \notin UnknownClosed /\ i \in EnrichIds
    <3>1. rows'[i] = [rows[i] EXCEPT !.oid = pick[i]]
      BY <2>1, <2>4
    <3>2. rows'[i].st = rows[i].st /\ rows'[i].oid = pick[i]
      BY <1>0, <3>1 DEF Row
    <3>3. rows[i].st # "none"
      BY <2>4 DEF EnrichIds, Tracked, OpenRows
    <3> QED BY <2>2, <2>4, <3>2, <3>3 DEF RowMoves, NoRow
  <2>5. CASE i \notin UnknownClosed /\ i \notin EnrichIds /\ i \in External
    <3>1. rows'[i] = Imported(rows[i], pick[i])
      BY <2>1, <2>5
    <3>2. CASE rows[i].st = "none"
      <4>1. rows'[i] = [st |-> "open", oid |-> pick[i], ext |-> TRUE]
        BY <3>1, <3>2 DEF Imported
      <4> QED BY <2>2, <2>5, <4>1 DEF RowMoves, NoRow
    <3>3. CASE rows[i].st # "none"
      <4>1. rows'[i] = [rows[i] EXCEPT !.oid = IF rows[i].oid = NoId THEN pick[i] ELSE rows[i].oid]
        BY <3>1, <3>3 DEF Imported
      <4>2. rows'[i].st = rows[i].st /\ (rows'[i].oid = rows[i].oid \/ rows'[i].oid = pick[i])
        BY <1>0, <4>1 DEF Row
      <4> QED BY <2>2, <2>5, <3>3, <4>2 DEF RowMoves, NoRow
    <3> QED BY <3>2, <3>3
  <2>6. CASE i \notin UnknownClosed /\ i \notin EnrichIds /\ i \notin External
    BY <1>1, <2>1, <2>6
  <2> QED BY <2>3, <2>4, <2>5, <2>6
<1>6. ASSUME NEW j \in Id, StartCancel(j) PROVE RowMoves(i)
  <2>1. CASE i # j
    BY <1>0, <1>1, <1>6, <2>1 DEF StartCancel
  <2>2. CASE i = j
    <3>1. \/ rows'[i] = rows[i]
          \/ rows'[i] = ErrorRow(rows[i], "error")
          \/ rows'[i] = [rows[i] EXCEPT !.st = IF rows[i].st = "open" THEN "cancel_requested"
                                                                  ELSE rows[i].st]
      BY <1>0, <1>6, <2>2 DEF StartCancel
    <3>2. CASE rows'[i] = [rows[i] EXCEPT !.st = IF rows[i].st = "open" THEN "cancel_requested"
                                                                  ELSE rows[i].st]
      <4>1. rows'[i].oid = rows[i].oid /\ rows'[i].st \in {"cancel_requested", rows[i].st}
            /\ (rows[i].st # "open" => rows'[i] = rows[i])
            /\ (rows[i].st = "open" => rows'[i].st = "cancel_requested")
        BY <1>0, <3>2 DEF Row
      <4> QED BY <4>1 DEF RowMoves, NoRow
    <3> QED BY <1>1, <1>2, <1>4, <3>1, <3>2
  <2> QED BY <2>1, <2>2
<1>7. CASE RecordSubmitted
  <2>1. CASE i # cur
    BY <1>0, <1>1, <1>7, <2>1 DEF RecordSubmitted
  <2>2. CASE i = cur
    <3>1. rows'[i] = [st |-> "open", oid |-> got, ext |-> FALSE]
      BY <1>0, <1>7, <2>2 DEF RecordSubmitted
    <3>2. got \in DOMAIN book /\ book[got].id = i
      BY <1>7, <2>2 DEF RecordSubmitted, RowInv
    <3> QED BY <3>1, <3>2 DEF RowMoves, NoRow
  <2> QED BY <2>1, <2>2
<1>8. CASE RejectByCooldown \/ RejectByRules \/ SendRejected
  BY <1>3, <1>4, <1>8 DEF RejectByCooldown, RejectByRules, SendRejected
<1>9. ASSUME NEW fate, SendUncertain(fate) PROVE RowMoves(i)
  BY <1>3, <1>4, <1>9 DEF SendUncertain
<1>10. ASSUME NEW done, CancelUncertain(done) PROVE RowMoves(i)
  BY <1>3, <1>4, <1>10 DEF CancelUncertain
<1>11. CASE UNCHANGED rows
  BY <1>1, <1>11
<1>12. CASE Cycle
  BY <1>5, <1>11, <1>12 DEF Cycle, BeginCycle, Fetch, EvaluateFreeze, Plan, Done
<1>13. CASE Execute
  BY <1>6, <1>7, <1>8, <1>9, <1>10, <1>11, <1>13
     DEF Execute, StartSubmit, SkipDuplicate, CallExchange, SendAcked, CancelAnswered
<1>14. CASE Environment \/ \E fate \in {"open", "flying", "dropped"} : Crash(fate)
  BY <1>11, <1>14 DEF Environment, Arrive, CloseOrder, PlaceForeign, ClearFreeze, SetKillSwitch,
       Crash
<1>15. CASE UNCHANGED vars
  BY <1>11, <1>15 DEF vars
<1> QED
  BY <1>12, <1>13, <1>14, <1>15 DEF Next

(* Steps of the exchange, other users and the operator, and stuttering. *)
Outside == UNCHANGED <<rows, pc, active, failed, seen, result, killed, frozen, todo, cur, got,
                       base, doubt>>

LEMMA EnvironmentOutside ==
  ASSUME Environment \/ UNCHANGED vars
  PROVE  Outside
BY DEF Environment, Arrive, CloseOrder, PlaceForeign, ClearFreeze, SetKillSwitch, local, history,
       vars, Outside

LEMMA DoubtGrows ==
  ASSUME [Next]_vars
  PROVE  doubt \subseteq doubt'
<1>1. CASE Cycle
  BY <1>1 DEF Cycle, BeginCycle, Fetch, Reconcile, EvaluateFreeze, Plan, Done, history
<1>2. CASE Execute
  BY <1>2 DEF Execute, StartSubmit, StartCancel, RejectByCooldown, SkipDuplicate, RejectByRules,
       CallExchange, SendAcked, RecordSubmitted, SendRejected, SendUncertain, CancelAnswered,
       CancelUncertain, history
<1>3. CASE \E fate \in {"open", "flying", "dropped"} : Crash(fate)
  BY <1>3 DEF Crash
<1>4. CASE Environment \/ UNCHANGED vars
  BY <1>4, EnvironmentOutside DEF Outside
<1> QED
  BY <1>1, <1>2, <1>3, <1>4 DEF Next

LEMMA RowInvStep ==
  ASSUME TypeOK, BookInv, RowInv, Grows, [Next]_vars
  PROVE  RowInv'
<1>1. ASSUME NEW i \in Id, rows'[i].oid # NoId
      PROVE  rows'[i].oid \in DOMAIN book' /\ book'[rows'[i].oid].id = i
  <2>1. rows'[i].oid \in DOMAIN book /\ book[rows'[i].oid].id = i
    BY <1>1, RowMovesStep DEF RowMoves, RowInv
  <2> QED BY <2>1 DEF Grows
<1>2. ASSUME NEW i \in Id, rows'[i].st = "unknown" PROVE i \in doubt'
  BY <1>2, RowMovesStep, DoubtGrows DEF RowMoves, RowInv
<1>3. ASSUME pc' = "record" PROVE got' \in DOMAIN book' /\ book'[got'].id = cur'
  <2>1. CASE UNCHANGED <<pc, got, cur>>
    BY <1>3, <2>1 DEF RowInv, Grows
  <2>2. CASE SendAcked
    <3> DEFINE e == [id |-> cur, sym |-> SymOf[cur], name |-> AliasOf[cur], st |-> "open"]
    <3>1. cur \in Id /\ book \in Seq(BookEntry)
      BY <2>2 DEF SendAcked, TypeOK
    <3>2. e \in BookEntry /\ e.id = cur
      BY <3>1, PlacedEntry
    <3>3. book' = Append(book, e) /\ got' = Len(book') /\ cur' = cur
      BY <2>2 DEF SendAcked, Placed
    <3> HIDE DEF e
    <3>4. book'[Len(book')] = e /\ Len(book') \in DOMAIN book'
      BY <3>1, <3>2, <3>3, GrowsAppend
    <3> QED BY <3>2, <3>3, <3>4
  <2>3. CASE Cycle
    BY <1>3, <2>3 DEF Cycle, BeginCycle, Fetch, Reconcile, EvaluateFreeze, Plan, Done, Goto,
         EndCycle
  <2>4. CASE Execute /\ ~SendAcked
    BY <1>3, <2>1, <2>4 DEF Execute, StartSubmit, StartCancel, RejectByCooldown, SkipDuplicate,
       RejectByRules, CallExchange, RecordSubmitted, SendRejected, SendUncertain, CancelAnswered,
       CancelUncertain, Goto, NextAction, local
  <2>5. CASE \E fate \in {"open", "flying", "dropped"} : Crash(fate)
    BY <1>3, <2>5 DEF Crash, EndCycle, Goto
  <2>6. CASE Environment \/ UNCHANGED vars
    BY <2>1, <2>6, EnvironmentOutside DEF Outside
  <2> QED BY <2>2, <2>3, <2>4, <2>5, <2>6 DEF Next
<1> QED
  BY <1>1, <1>2, <1>3 DEF RowInv

LEMMA RowInvariant == Spec => [](BookInv /\ RowInv)
<1>1. Init => BookInv /\ RowInv
  <2> SUFFICES ASSUME Init PROVE BookInv /\ RowInv
    OBVIOUS
  <2>1. DOMAIN book = {}
    BY DEF Init
  <2> QED BY <2>1 DEF Init, BookInv, RowInv, NoRow
<1>2. Typed /\ BookInv /\ RowInv /\ [Next]_vars => (BookInv /\ RowInv)'
  <2> SUFFICES ASSUME Typed, BookInv, RowInv, [Next]_vars PROVE BookInv' /\ RowInv'
    OBVIOUS
  <2>1. TypeOK /\ Grows
    BY Stage4TypeStep DEF Typed
  <2> QED BY <2>1, BookInvStep, RowInvStep
<1> QED
  BY <1>1, <1>2, Stage4Typed, PTL DEF Spec

(* The order id in a row is never that of another intent's order           *)
(* (RowNamesOwnOrder), whichever orders a reconciliation matched by name   *)
(* and wherever a cycle died.                                              *)
THEOREM RowsNameOwnOrders == Spec => []RowNamesOwnOrder
<1>1. RowInv => RowNamesOwnOrder
  BY DEF RowInv, RowNamesOwnOrder
<1> QED
  BY <1>1, RowInvariant, PTL

-----------------------------------------------------------------------------
(* What a cycle knows of the intents it submits *)

LEMMA KnownStays ==
  ASSUME TypeOK, Grows, base' = base, doubt \subseteq doubt', NEW i \in Id, Known(i),
         \A j \in Id : RowMoves(j),
         Deduped(rows[i]) => Deduped(rows'[i]) \/ i \in doubt'
  PROVE  Known(i)'
<1>1. \A o \in base : /\ book'[o].id = book[o].id /\ book'[o].sym = book[o].sym
                      /\ book'[o].name = book[o].name
  BY DEF Grows, TypeOK
<1>2. Covered(SymOf[i])'
  BY <1>1 DEF Known, Covered, RowMoves
<1>3. Accounted(i)'
  BY <1>1 DEF Known, Accounted
<1> QED
  BY <1>2, <1>3 DEF Known

(* Where no row changes, what was known stays known. *)
LEMMA KnownQuiet ==
  ASSUME TypeOK, Grows, base' = base, doubt \subseteq doubt', rows' = rows, NEW i \in Id, Known(i)
  PROVE  Known(i)'
<1>1. \A j \in Id : rows[j] # NoRow => rows'[j] # NoRow
  OBVIOUS
<1>2. \A o \in base : /\ book'[o].id = book[o].id /\ book'[o].sym = book[o].sym
                      /\ book'[o].name = book[o].name
  BY DEF Grows, TypeOK
<1>3. Covered(SymOf[i])'
  BY <1>1, <1>2 DEF Known, Covered
<1>4. Accounted(i)'
  BY <1>2 DEF Known, Accounted
<1> QED
  BY <1>3, <1>4 DEF Known

(* The reconciliation: without an external order the rows account for all  *)
(* the exchange showed of the symbols that did not fail.                   *)
LEMMA ReconcileKnown ==
  ASSUME TypeOK, TypeOK', BookInv, RowInv, StageInv, Grows, Reconcile,
         result'.external = 0, ~result'.nameless
  PROVE  AllKnown'
<1>1. /\ pc = "reconcile" /\ book' = book /\ base' = base /\ doubt' = doubt
      /\ active' = active /\ failed' = failed
      /\ result' = [external |-> Cardinality(External),
                    nameless |-> \E o \in seen : book[o].name = NoName,
                    mismatch |-> UnknownClosed # {}]
  BY DEF Reconcile, history
<1>2. External = {} /\ \A o \in seen : book[o].name # NoName
  <2>1. Cardinality(External) = 0 /\ \A o \in seen : book[o].name # NoName
    BY <1>1
  <2> QED BY <2>1, ReportedFinite, FS_EmptySet
<1>3. \A o \in seen : book[o].name \in Tracked
  BY <1>2 DEF External, Reported
<1>4. /\ seen \subseteq base /\ base \subseteq DOMAIN book
      /\ \A o \in base : book[o].sym \in active \ failed => o \in seen
  BY <1>1 DEF StageInv, TypeOK
<1>5. \A j \in Id : RowMoves(j)
  <2>1. [Next]_vars
    BY DEF Next, Cycle
  <2> QED BY <2>1, RowMovesStep
<1>6. \A j \in Tracked \cap Reported : j \in Id /\ rows[j] # NoRow /\ rows'[j].st = rows[j].st
  <2> SUFFICES ASSUME NEW j \in Tracked \cap Reported
               PROVE  j \in Id /\ rows[j] # NoRow /\ rows'[j].st = rows[j].st
    OBVIOUS
  <2>1. j \in Id /\ rows[j].st # "none" /\ j \notin UnknownClosed /\ j \notin External
    BY DEF Tracked, OpenRows, UnknownClosed, External
  <2>2. rows'[j] = rows[j] \/ \E o : rows'[j] = [rows[j] EXCEPT !.oid = o]
    BY <2>1 DEF Reconcile
  <2>3. rows[j] \in Row
    BY <2>1 DEF TypeOK
  <2>4. ASSUME NEW o, rows'[j] = [rows[j] EXCEPT !.oid = o] PROVE rows'[j].st = rows[j].st
    BY <2>3, <2>4 DEF Row
  <2>5. rows'[j].st = rows[j].st
    BY <2>2, <2>4, Zenon
  <2>6. rows[j] # NoRow
    BY <2>1 DEF NoRow
  <2> QED BY <2>1, <2>5, <2>6
<1>7. ASSUME NEW i \in Id, SymOf[i] \in active \ failed PROVE Known(i)'
  <2>1. ASSUME NEW o \in base, book[o].sym = SymOf[i]
        PROVE  book[o].name \in Tracked \cap Reported
    <3>1. o \in seen
      BY <1>4, <1>7, <2>1
    <3> QED BY <1>2, <1>3, <3>1 DEF Reported
  <2>2. Covered(SymOf[i])'
    <3> SUFFICES ASSUME NEW o \in base, book[o].sym = SymOf[i]
                 PROVE  \E j \in Id : book[o].name = j /\ rows'[j] # NoRow
      BY <1>1 DEF Covered
    <3>1. book[o].name \in Id /\ rows[book[o].name] # NoRow
      BY <1>6, <2>1
    <3> QED BY <3>1, <1>5 DEF RowMoves
  <2>3. Accounted(i)'
    <3> SUFFICES ASSUME NEW o \in base, book[o].id = i
                 PROVE  Deduped(rows'[i]) \/ i \in doubt
      BY <1>1 DEF Accounted
    <3>1. o \in DOMAIN book /\ book[o].sym = SymOf[i] /\ i # NoName
      BY <1>4, Stage4Assumption DEF BookInv, Stage4Assumption
    <3>2. book[o].name \in Id /\ book[o].name \in Tracked \cap Reported
      BY <1>6, <2>1, <3>1
    <3>3. book[o].name = i
      BY <3>1, <3>2, NamedIsOwn
    <3>4. rows'[i].st = rows[i].st /\ i \in Tracked
      BY <1>6, <3>2, <3>3
    <3> QED BY <3>4 DEF Tracked, OpenRows, RowInv, Deduped
  <2> QED BY <2>2, <2>3 DEF Known
<1> QED
  BY <1>1, <1>7 DEF AllKnown

LEMMA StageInvStep ==
  ASSUME TypeOK, TypeOK', BookInv, RowInv, StageInv, Grows, [Next]_vars
  PROVE  StageInv'
<1>1. doubt \subseteq doubt'
  BY DoubtGrows
<1>2. ASSUME rows' = rows, base' = base, active' = active, failed' = failed, AllKnown
      PROVE  AllKnown'
  BY <1>1, <1>2, KnownQuiet DEF AllKnown
<1>3. ASSUME pc' \notin {"reconcile", "evaluate", "plan"} PROVE StageInv'
  BY <1>3 DEF StageInv
<1>4. ASSUME NEW blind \in SUBSET active, NEW noprice \in SUBSET active, Fetch(blind, noprice)
      PROVE  StageInv'
  BY <1>4 DEF Fetch, Open, StageInv, Goto
<1>5. CASE Reconcile
  <2>1. pc' = "evaluate"
    BY <1>5 DEF Reconcile, Goto
  <2> QED BY <1>5, <2>1, ReconcileKnown DEF StageInv
<1>6. CASE EvaluateFreeze
  <2>1. /\ pc = "evaluate" /\ pc' = "plan" /\ frozen' = (freeze \/ FreezeTriggered)
        /\ UNCHANGED <<rows, base, active, failed>>
    BY <1>6 DEF EvaluateFreeze, history, Goto
  <2>2. ~frozen' /\ Threshold = 1 => result.external = 0 /\ ~result.nameless
    <3>1. result.external \in Nat
      BY DEF TypeOK
    <3>2. ~frozen' => ~FreezeTriggered
      BY <2>1
    <3> QED BY <3>1, <3>2 DEF FreezeTriggered
  <2>3. ~frozen' /\ Threshold = 1 => AllKnown'
    BY <1>2, <2>1, <2>2 DEF StageInv
  <2> QED BY <2>1, <2>3 DEF StageInv
<1>7. CASE Outside
  <2>1. \A o \in base : book'[o].sym = book[o].sym
    BY DEF Grows, TypeOK
  <2>2. AllKnown => AllKnown'
    BY <1>2, <1>7 DEF Outside
  <2> QED BY <1>7, <2>1, <2>2 DEF Outside, StageInv
<1>8. CASE Cycle
  <2>1. CASE \E symbols \in SUBSET Symbol : BeginCycle(symbols)
    BY <1>3, <2>1 DEF BeginCycle, Goto
  <2>2. CASE \E nofills \in SUBSET active, intents, stale \in SUBSET Id :
                Plan(nofills, intents, stale)
    BY <1>3, <2>2 DEF Plan, Goto
  <2>3. CASE Done
    BY <1>3, <2>3 DEF Done, EndCycle, Goto
  <2> QED BY <1>4, <1>5, <1>6, <1>8, <2>1, <2>2, <2>3 DEF Cycle
<1>9. CASE Execute
  <2>1. pc' \in {"execute", "submit", "send", "record", "cancel"}
    BY <1>9 DEF Execute, StartSubmit, StartCancel, RejectByCooldown, SkipDuplicate,
       RejectByRules, CallExchange, SendAcked, RecordSubmitted, SendRejected, SendUncertain,
       CancelAnswered, CancelUncertain, Goto, NextAction
  <2> QED BY <1>3, <2>1
<1>10. CASE \E fate \in {"open", "flying", "dropped"} : Crash(fate)
  BY <1>3, <1>10 DEF Crash, EndCycle, Goto
<1>11. CASE Environment \/ UNCHANGED vars
  BY <1>7, <1>11, EnvironmentOutside
<1> QED
  BY <1>8, <1>9, <1>10, <1>11 DEF Next

LEMMA PlanInvStep ==
  ASSUME TypeOK, TypeOK', BookInv, RowInv, StageInv, PlanInv, Grows, [Next]_vars
  PROVE  PlanInv'
<1>0. doubt \subseteq doubt' /\ \A j \in Id : RowMoves(j)
  BY DoubtGrows, RowMovesStep
<1>1. \A i, j : (Submit(i) = Submit(j) => i = j) /\ Submit(i) # Cancel(j)
  BY DEF Submit, Cancel
<1>2. ASSUME todo' = {}, pc' \notin {"submit", "send"}, pc' \notin {"record", "cancel"}
      PROVE  PlanInv'
  BY <1>2 DEF PlanInv
<1>3. ASSUME todo' \subseteq todo, base' = base, pc' = "execute",
             \A i \in Id : Submit(i) \in todo' => rows'[i] = rows[i]
      PROVE  PlanInv'
  <2>1. ASSUME NEW i \in Id, Threshold = 1, Submit(i) \in todo' PROVE Known(i)'
    <3>1. Known(i) /\ rows'[i] = rows[i]
      BY <1>3, <2>1 DEF PlanInv
    <3> QED BY <1>0, <1>3, <3>1, KnownStays
  <2> QED BY <1>3, <2>1 DEF PlanInv
<1>4. ASSUME pc \in {"submit", "send", "record", "cancel"}, NextAction, base' = base,
             \A i \in Id : i # cur => rows'[i] = rows[i]
      PROVE  PlanInv'
  BY <1>1, <1>3, <1>4 DEF NextAction, Goto, PlanInv
<1>5. CASE Cycle
  <2>1. CASE \E symbols \in SUBSET Symbol : BeginCycle(symbols)
    BY <1>2, <2>1 DEF BeginCycle, Goto, PlanInv
  <2>2. CASE \E blind, noprice \in SUBSET active : Fetch(blind, noprice)
    BY <1>2, <2>2 DEF Fetch, Goto, PlanInv
  <2>3. CASE Reconcile
    BY <1>2, <2>3 DEF Reconcile, Goto, PlanInv
  <2>4. CASE EvaluateFreeze
    BY <1>2, <2>4 DEF EvaluateFreeze, Goto, PlanInv
  <2>5. ASSUME NEW nofills \in SUBSET active, NEW intents \in SUBSET Id, NEW stale \in SUBSET Id,
               Plan(nofills, intents, stale)
        PROVE  PlanInv'
    <3>1. /\ pc = "plan" /\ pc' = "execute" /\ UNCHANGED <<rows, book, base, doubt>>
          /\ \A i \in intents : SymOf[i] \in active \ failed
          /\ \A i \in intents, j \in stale : SymOf[i] # SymOf[j]
      BY <2>5 DEF Plan, Goto, history
    <3>2. \A i \in Id : Submit(i) \in todo' => i \in intents /\ ~killed /\ ~frozen
      BY <2>5 DEF Plan, Submit
    <3>3. \A j \in Id : Cancel(j) \in todo' => j \in stale
      BY <2>5 DEF Plan, Cancel
    <3>4. \A i, j \in Id : Submit(i) \in todo' /\ Cancel(j) \in todo' => i # j
      BY <3>1, <3>2, <3>3
    <3>5. ASSUME NEW i \in Id, Threshold = 1, Submit(i) \in todo' PROVE Known(i)'
      <4>1. Known(i)
        BY <3>1, <3>2, <3>5 DEF StageInv, AllKnown
      <4> QED BY <3>1, <4>1, KnownQuiet
    <3> QED BY <3>1, <3>4, <3>5 DEF PlanInv
  <2>6. CASE Done
    BY <1>2, <2>6 DEF Done, EndCycle, Goto
  <2> QED BY <1>5, <2>1, <2>2, <2>3, <2>4, <2>5, <2>6 DEF Cycle
<1>6. CASE Execute
  <2>1. ASSUME NEW i \in Id, StartSubmit(i) PROVE PlanInv'
    <3>1. /\ pc = "execute" /\ Submit(i) \in todo /\ todo' = todo \ {Submit(i)}
          /\ UNCHANGED <<rows, base, doubt>>
      BY <2>1 DEF StartSubmit, Submit, history
    <3>2. CASE pc' = "execute"
      BY <1>3, <3>1, <3>2
    <3>3. CASE pc' # "execute"
      <4>1. pc' = "submit" /\ cur' = i
        BY <3>1, <3>3, <2>1 DEF StartSubmit, Goto
      <4>2. ASSUME NEW k \in Id, Threshold = 1, Submit(k) \in todo' \/ k = i PROVE Known(k)'
        <5>1. Known(k)
          BY <3>1, <4>2 DEF PlanInv
        <5> QED BY <3>1, <5>1, KnownQuiet
      <4>3. Submit(cur') \notin todo'
        BY <3>1, <4>1
      <4> QED BY <3>1, <4>1, <4>2, <4>3 DEF PlanInv
    <3> QED BY <3>2, <3>3
  <2>2. ASSUME NEW j \in Id, StartCancel(j) PROVE PlanInv'
    <3>1. /\ pc = "execute" /\ Cancel(j) \in todo /\ todo' = todo \ {Cancel(j)}
          /\ UNCHANGED <<base, doubt>>
      BY <2>2 DEF StartCancel, Cancel, history
    <3>2. \A i \in Id : i # j => rows'[i] = rows[i]
      BY <2>2 DEF StartCancel, TypeOK
    <3>3. Submit(j) \notin todo
      BY <3>1 DEF PlanInv
    <3>4. \A i \in Id : Submit(i) \in todo' => rows'[i] = rows[i]
      BY <3>1, <3>2, <3>3
    <3>5. CASE pc' = "execute"
      BY <1>3, <3>1, <3>4, <3>5
    <3>6. CASE pc' # "execute"
      <4>1. pc' = "cancel" /\ cur' = j
        BY <3>1, <3>6, <2>2 DEF StartCancel, Goto
      <4>2. ASSUME NEW k \in Id, Threshold = 1, Submit(k) \in todo' PROVE Known(k)'
        <5>1. Known(k) /\ rows'[k] = rows[k]
          BY <3>1, <3>4, <4>2 DEF PlanInv
        <5> QED BY <1>0, <3>1, <5>1, KnownStays
      <4> QED BY <3>1, <3>3, <4>1, <4>2 DEF PlanInv
    <3> QED BY <3>5, <3>6
  <2>3. CASE RejectByCooldown \/ RejectByRules \/ SkipDuplicate \/ SendRejected \/ RecordSubmitted
             \/ CancelAnswered
    <3>1. \A i \in Id : i # cur => rows'[i] = rows[i]
      BY <2>3 DEF RejectByCooldown, RejectByRules, SkipDuplicate, SendRejected, RecordSubmitted,
                  CancelAnswered, TypeOK
    <3> QED BY <1>4, <2>3, <3>1 DEF RejectByCooldown, RejectByRules, SkipDuplicate, SendRejected,
                  RecordSubmitted, CancelAnswered, history
  <2>4. ASSUME NEW fate, SendUncertain(fate) PROVE PlanInv'
    <3>1. \A i \in Id : i # cur => rows'[i] = rows[i]
      BY <2>4 DEF SendUncertain, TypeOK
    <3> QED BY <1>4, <2>4, <3>1 DEF SendUncertain
  <2>5. ASSUME NEW done, CancelUncertain(done) PROVE PlanInv'
    <3>1. \A i \in Id : i # cur => rows'[i] = rows[i]
      BY <2>5 DEF CancelUncertain, TypeOK
    <3> QED BY <1>4, <2>5, <3>1 DEF CancelUncertain
  <2>6. CASE CallExchange
    <3>1. /\ pc = "submit" /\ pc' = "send" /\ ~Deduped(rows[cur])
          /\ UNCHANGED <<rows, base, doubt, todo, cur>>
      BY <2>6 DEF CallExchange, local, history, Goto
    <3>2. ASSUME NEW k \in Id, Threshold = 1, Submit(k) \in todo \/ cur = k PROVE Known(k)'
      <4>1. Known(k)
        BY <3>1, <3>2 DEF PlanInv
      <4> QED BY <3>1, <4>1, KnownQuiet
    <3> QED BY <3>1, <3>2 DEF PlanInv
  <2>7. CASE SendAcked
    <3>1. /\ pc = "send" /\ pc' = "record" /\ UNCHANGED <<rows, base, doubt, todo, cur>>
      BY <2>7 DEF SendAcked, history, Goto
    <3>2. ASSUME NEW k \in Id, Threshold = 1, Submit(k) \in todo PROVE Known(k)'
      <4>1. Known(k)
        BY <3>1, <3>2 DEF PlanInv
      <4> QED BY <3>1, <4>1, KnownQuiet
    <3> QED BY <3>1, <3>2 DEF PlanInv
  <2> QED BY <1>6, <2>1, <2>2, <2>3, <2>4, <2>5, <2>6, <2>7 DEF Execute
<1>7. CASE \E fate \in {"open", "flying", "dropped"} : Crash(fate)
  BY <1>2, <1>7 DEF Crash, EndCycle, Goto
<1>8. CASE Environment \/ UNCHANGED vars
  <2>1. UNCHANGED <<rows, base, doubt, todo, cur, pc>>
    BY <1>8, EnvironmentOutside DEF Outside
  <2>2. ASSUME NEW k \in Id, Threshold = 1,
               Submit(k) \in todo \/ (pc \in {"submit", "send"} /\ cur = k)
        PROVE  Known(k)'
    <3>1. Known(k)
      BY <2>2 DEF PlanInv
    <3> QED BY <2>1, <3>1, KnownQuiet
  <2> QED BY <2>1, <2>2 DEF PlanInv
<1> QED
  BY <1>5, <1>6, <1>7, <1>8 DEF Next

LEMMA Stage4Invariant == Spec => []Stage4Inv
<1>1. Init => StageInv /\ PlanInv
  BY DEF Init, StageInv, PlanInv
<1>2. Typed /\ Typed' /\ BookInv /\ RowInv /\ StageInv /\ PlanInv /\ [Next]_vars
        => (StageInv /\ PlanInv)'
  <2> SUFFICES ASSUME Typed, Typed', BookInv, RowInv, StageInv, PlanInv, [Next]_vars
               PROVE  StageInv' /\ PlanInv'
    OBVIOUS
  <2>1. TypeOK /\ TypeOK' /\ Grows
    BY Stage4TypeStep DEF Typed
  <2> QED BY <2>1, StageInvStep, PlanInvStep
<1>3. BookInv /\ RowInv /\ StageInv /\ PlanInv => Stage4Inv
  BY DEF Stage4Inv
<1> QED
  BY <1>1, <1>2, <1>3, Stage4Typed, RowInvariant, PTL DEF Spec

(* An order is submitted only in a cycle for which a local row names every *)
(* order that was open on its symbol when the exchange was asked           *)
(* (NoSubmitOverVisible): _evaluate_unknown_order_freeze froze any other.  *)
THEOREM NothingUnknownIsTradedOver == Spec => []NoSubmitOverVisible
<1>1. Typed /\ Stage4Inv => NoSubmitOverVisible
  <2> SUFFICES ASSUME TypeOK, Stage4Inv, pc = "send", Threshold = 1 PROVE Known(cur)
    BY DEF Typed, NoSubmitOverVisible, Known, Covered
  <2>1. cur \in Id
    BY DEF TypeOK
  <2> QED BY <2>1 DEF Stage4Inv, PlanInv
<1> QED
  BY <1>1, Stage4Invariant, Stage4Typed, PTL

(* An intent is not submitted over its own order that the exchange showed, *)
(* unless a call for it was uncertain (NoSubmitOverOwnOrder): the dedupe   *)
(* of _execute_submit_action holds between the reconciliation and the call. *)
THEOREM NoIntentIsSubmittedTwice == Spec => []NoSubmitOverOwnOrder
<1>1. Typed /\ Stage4Inv => NoSubmitOverOwnOrder
  <2> SUFFICES ASSUME TypeOK, Stage4Inv, pc = "send", Threshold = 1,
                      NEW o \in base, book[o].id = cur
               PROVE  cur \in doubt
    BY DEF Typed, NoSubmitOverOwnOrder
  <2>1. cur \in Id
    BY DEF TypeOK
  <2>2. Known(cur) /\ ~Deduped(rows[cur])
    BY <2>1 DEF Stage4Inv, PlanInv
  <2> QED BY <2>2 DEF Known, Accounted
<1> QED
  BY <1>1, Stage4Invariant, Stage4Typed, PTL
=============================================================================
