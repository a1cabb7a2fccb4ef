-------------------------- MODULE ReplaceTxProofs --------------------------
(***************************************************************************)
(* Theorems about ReplaceTx, for every set of orders to replace and every  *)
(* bound on the requests that reach the exchange.                          *)
(***************************************************************************)
EXTENDS ReplaceTx, TLAPS

(* update_replace_tx_state leaves one of the table's states behind. *)
LEMMA MovedType ==
  ASSUME tx \in TxState \cup {"none"}, NEW to \in TxState
  PROVE  Moved(to) \in TxState \cup {"none"}
BY DEF Moved

(* One more order of the new id is within the bound. *)
LEMMA AcceptedType ==
  ASSUME TypeOK, news.all < MaxNew
  PROVE  Accepted \in [all : 0..MaxNew, open : 0..MaxNew] /\ Accepted.open <= Accepted.all
<1>1. /\ news.all \in 0..MaxNew /\ news.open \in 0..MaxNew /\ news.open <= news.all
      /\ MaxNew \in Nat
  BY ReplaceAssumption DEF TypeOK, ReplaceAssumption
<1>2. news.all + 1 \in 0..MaxNew /\ news.open + 1 \in 0..MaxNew /\ news.open + 1 <= news.all + 1
  BY <1>1
<1> QED
  BY <1>2 DEF Accepted

(* Every variable of the replace group keeps its type (TypeOK): the states *)
(* of stage4_replace_transactions, the rows, the cancels still to send.    *)
THEOREM ReplaceTypeCorrect == Spec => []TypeOK
<1>1. Init => TypeOK
  <2> SUFFICES ASSUME Init PROVE TypeOK
    OBVIOUS
  <2>1. news \in [all : 0..MaxNew, open : 0..MaxNew] /\ news.open <= news.all
    BY ReplaceAssumption DEF ReplaceAssumption, Init
  <2>2. rows \in [OldId \cup {New} -> RowStatus]
    BY DEF Init, RowStatus
  <2> QED
    BY <2>1, <2>2 DEF Init, TypeOK, PC
<1>2. TypeOK /\ [Next]_vars => TypeOK'
  <2> SUFFICES ASSUME TypeOK, [Next]_vars PROVE TypeOK'
    OBVIOUS
  <2> USE ReplaceAssumption DEF ReplaceAssumption, TypeOK, PC, RowStatus, Goto, Return, local
  <2>1. ASSUME NEW killed \in BOOLEAN, Execute(killed) PROVE TypeOK'
    BY <2>1 DEF Execute
  <2>2. CASE BeginTx
    BY <2>2 DEF BeginTx, TxState, Ranked
  <2>3. CASE CheckFreeze
    <3>1. Moved("BLOCKED_UNKNOWN") \in TxState \cup {"none"}
      BY MovedType DEF TxState, Blocked
    <3> QED BY <2>3, <3>1 DEF CheckFreeze
  <2>4. ASSUME NEW i \in OldId, CancelNext(i) PROVE TypeOK'
    BY <2>4 DEF CancelNext
  <2>5. ASSUME NEW done \in BOOLEAN, NEW answered \in BOOLEAN, CancelAnswered(done, answered)
        PROVE  TypeOK'
    BY <2>5 DEF CancelAnswered
  <2>6. CASE CancelsSent
    <3>1. Moved("CANCEL_SENT") \in TxState \cup {"none"}
      BY MovedType DEF TxState, Ranked
    <3> QED BY <2>6, <3>1 DEF CancelsSent
  <2>7. ASSUME NEW listed \in BOOLEAN, ConfirmCancels(listed) PROVE TypeOK'
    <3>1. /\ Moved("CANCEL_CONFIRMED") \in TxState \cup {"none"}
          /\ Moved("BLOCKED_RECONCILE") \in TxState \cup {"none"}
      BY MovedType DEF TxState, Ranked, Blocked
    <3> QED BY <2>7, <3>1 DEF ConfirmCancels
  <2>8. CASE SubmitSent
    <3>1. Moved("SUBMIT_SENT") \in TxState \cup {"none"}
      BY MovedType DEF TxState, Ranked
    <3> QED BY <2>8, <3>1 DEF SubmitSent
  <2>9. CASE SubmitSkipped
    BY <2>9 DEF SubmitSkipped
  <2>10. CASE SubmitRejected
    BY <2>10 DEF SubmitRejected, InFlight
  <2>11. CASE CallExchange
    BY <2>11 DEF CallExchange
  <2>12. CASE SubmitAcked
    BY <2>12, AcceptedType DEF SubmitAcked
  <2>13. CASE RecordSubmitted
    BY <2>13 DEF RecordSubmitted
  <2>14. ASSUME NEW reached \in BOOLEAN, SubmitUncertain(reached) PROVE TypeOK'
    BY <2>14, AcceptedType DEF SubmitUncertain
  <2>15. CASE CommitTx
    <3>1. Moved("SUBMIT_CONFIRMED") \in TxState \cup {"none"}
      BY MovedType DEF TxState, Final
    <3> QED BY <2>15, <3>1 DEF CommitTx
  <2>16. CASE FailTx
    <3>1. Moved("FAILED") \in TxState \cup {"none"}
      BY MovedType DEF TxState, Final
    <3> QED BY <2>16, <3>1 DEF FailTx
  <2>17. CASE Crash
    BY <2>17 DEF Crash
  <2>18. ASSUME NEW i \in OldId, OldCloses(i) PROVE TypeOK'
    BY <2>18 DEF OldCloses
  <2>19. CASE NewCloses
    BY <2>19 DEF NewCloses
  <2>20. CASE Reconcile
    BY <2>20 DEF Reconcile
  <2>21. ASSUME NEW on \in BOOLEAN, SetFreeze(on) PROVE TypeOK'
    BY <2>21 DEF SetFreeze
  <2>22. CASE UNCHANGED vars
    BY <2>22 DEF vars
  <2> QED
    BY <2>1, <2>2, <2>3, <2>4, <2>5, <2>6, <2>7, <2>8, <2>9, <2>10, <2>11, <2>12, <2>13,
       <2>14, <2>15, <2>16, <2>17, <2>18, <2>19, <2>20, <2>21, <2>22 DEF Next
<1> QED
  BY <1>1, <1>2, PTL DEF Spec

-----------------------------------------------------------------------------
(* What the safety properties rest on, besides themselves.                 *)

(* From the confirmation of the cancels to the call the old orders are     *)
(* gone, and nothing brings one back.                                      *)
ClearedBeforeSubmit == pc \in {"confirmed", "submit", "call"} => live = {}

(* An open replacement is accounted for: its row says so, or its record is *)
(* the next step.  A call is made only where no row is in flight.          *)
OpenIsRecorded == ~doubt /\ news.open > 0 => pc = "record" \/ rows[New] = "open"
CallIsFirst == pc \in {"call", "record"} => ~InFlight

(* The transaction is committed only after the exchange took the order.    *)
CommitIsPlaced == pc \in {"record", "commit"} => news.all > 0

ReplaceInv ==
  /\ ClearedBeforeSubmit /\ OpenIsRecorded /\ CallIsFirst /\ CommitIsPlaced
  /\ NoDoubleExposure /\ NoSecondOrder /\ ConfirmedTxPlaced

(* The transaction table only ends up confirmed where it is told to. *)
LEMMA MovedConfirmed ==
  ASSUME NEW to \in TxState \ {"SUBMIT_CONFIRMED"}, Moved(to) = "SUBMIT_CONFIRMED"
  PROVE  tx = "SUBMIT_CONFIRMED"
BY DEF Moved

LEMMA ReplaceInvInit == Init => ReplaceInv
BY ReplaceAssumption
   DEF ReplaceAssumption, Init, ReplaceInv, ClearedBeforeSubmit, OpenIsRecorded, CallIsFirst,
       CommitIsPlaced, NoDoubleExposure, NoSecondOrder, ConfirmedTxPlaced

LEMMA ReplaceInvStep == TypeOK /\ ReplaceInv /\ [Next]_vars => ReplaceInv'
<1> SUFFICES ASSUME TypeOK, ReplaceInv, [Next]_vars PROVE ReplaceInv'
  OBVIOUS
<1>0. /\ news.all \in Nat /\ news.open \in Nat
      /\ New \notin OldId /\ rows \in [OldId \cup {New} -> RowStatus]
      /\ news \in [all : 0..MaxNew, open : 0..MaxNew]
  BY ReplaceAssumption DEF TypeOK, ReplaceAssumption
<1> USE <1>0 DEF ReplaceInv, ClearedBeforeSubmit, OpenIsRecorded, CallIsFirst,
       CommitIsPlaced, NoDoubleExposure, NoSecondOrder, ConfirmedTxPlaced, Goto, Return, local,
       InFlight
<1>1. ASSUME NEW killed \in BOOLEAN, Execute(killed) PROVE ReplaceInv'
  BY <1>1 DEF Execute
<1>2. CASE BeginTx
  BY <1>2 DEF BeginTx
<1>3. CASE CheckFreeze
  BY <1>3, MovedConfirmed DEF CheckFreeze, TxState, Blocked
<1>4. ASSUME NEW i \in OldId, CancelNext(i) PROVE ReplaceInv'
  BY <1>4 DEF CancelNext
<1>5. ASSUME NEW done \in BOOLEAN, NEW answered \in BOOLEAN, CancelAnswered(done, answered)
      PROVE  ReplaceInv'
  BY <1>5 DEF CancelAnswered, TypeOK
<1>6. CASE CancelsSent
  BY <1>6, MovedConfirmed DEF CancelsSent, TxState, Ranked
<1>7. ASSUME NEW listed \in BOOLEAN, ConfirmCancels(listed) PROVE ReplaceInv'
  BY <1>7, MovedConfirmed DEF ConfirmCancels, TxState, Ranked, Blocked, Confirmed
<1>8. CASE SubmitSent
  BY <1>8, MovedConfirmed DEF SubmitSent, TxState, Ranked
<1>9. CASE SubmitSkipped
  BY <1>9 DEF SubmitSkipped
<1>10. CASE SubmitRejected
  BY <1>10 DEF SubmitRejected
<1>11. CASE CallExchange
  BY <1>11 DEF CallExchange
<1>12. CASE SubmitAcked
  BY <1>12 DEF SubmitAcked, Accepted
<1>13. CASE RecordSubmitted
  BY <1>13 DEF RecordSubmitted
<1>14. ASSUME NEW reached \in BOOLEAN, SubmitUncertain(reached) PROVE ReplaceInv'
  BY <1>14 DEF SubmitUncertain, Accepted
<1>15. CASE CommitTx
  BY <1>15 DEF CommitTx
<1>16. CASE FailTx
  BY <1>16, MovedConfirmed DEF FailTx, TxState, Final
<1>17. CASE Crash
  BY <1>17 DEF Crash
<1>18. ASSUME NEW i \in OldId, OldCloses(i) PROVE ReplaceInv'
  BY <1>18 DEF OldCloses
<1>19. CASE NewCloses
  BY <1>19 DEF NewCloses
<1>20. CASE Reconcile
  BY <1>20 DEF Reconcile
<1>21. ASSUME NEW on \in BOOLEAN, SetFreeze(on) PROVE ReplaceInv'
  BY <1>21 DEF SetFreeze
<1>22. CASE UNCHANGED vars
  BY <1>22 DEF vars
<1> QED
  BY <1>1, <1>2, <1>3, <1>4, <1>5, <1>6, <1>7, <1>8, <1>9, <1>10, <1>11, <1>12, <1>13,
     <1>14, <1>15, <1>16, <1>17, <1>18, <1>19, <1>20, <1>21, <1>22 DEF Next

LEMMA ReplaceInvariant == Spec => []ReplaceInv
BY ReplaceInvInit, ReplaceInvStep, ReplaceTypeCorrect, PTL DEF Spec

(* A replacing order is never open at the exchange next to an order it     *)
(* replaces (NoDoubleExposure), for any number of old orders, restarts,    *)
(* crashes, freezes and reconciliations.                                   *)
THEOREM ReplacementTradesAlone == Spec => []NoDoubleExposure
<1>1. ReplaceInv => NoDoubleExposure
  BY DEF ReplaceInv
<1> QED
  BY <1>1, ReplaceInvariant, PTL

(* Without an unanswered submit or a rejection written over an order in    *)
(* flight the group never has two orders open (NoSecondOrder).             *)
THEOREM ReplacementIsSingle == Spec => []NoSecondOrder
<1>1. ReplaceInv => NoSecondOrder
  BY DEF ReplaceInv
<1> QED
  BY <1>1, ReplaceInvariant, PTL

(* A transaction confirmed in stage4_replace_transactions has placed its   *)
(* order (ConfirmedTxPlaced).                                              *)
THEOREM ConfirmedReplacementWasPlaced == Spec => []ConfirmedTxPlaced
<1>1. ReplaceInv => ConfirmedTxPlaced
  BY DEF ReplaceInv
<1> QED
  BY <1>1, ReplaceInvariant, PTL
=============================================================================
