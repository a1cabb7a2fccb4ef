-------------------------- MODULE OMSServiceProofs --------------------------
(***************************************************************************)
(* Theorems about OMSService, for every set of client order ids, every     *)
(* plan, limiter, number of attempts and number of cycles: its types, that *)
(* it implements OrderLifecycle, that filled orders are booked once, and   *)
(* that rows and events tell the same story.                               *)
(***************************************************************************)
EXTENDS OMSService, FiniteSetTheorems, SequenceTheorems, TLAPS

-----------------------------------------------------------------------------
(* The inductive invariant *)

(* process_intents stores an order as planned, with no lifecycle event     *)
(* yet, or as over: the simulator takes it all the way in one batch.       *)
Untouched(c) == orders[c] = None \/ orders[c].status = "PLANNED"

StoredShape ==
  \A c \in Cid :
    /\ orders[c] = None => events[c] = {}
    /\ orders[c] # None =>
         /\ Owner[c] <= cycle
         /\ orders[c].status \in Terminal \cup {"PLANNED"}
         /\ orders[c].status = "PLANNED" => orders[c].filled = 0
    /\ Untouched(c) => Happened(c) = {}
    /\ ~Untouched(c) => orders[c].status \in Seen(c)

(* What an intent may leave in memory: new lifecycle events are new and    *)
(* different ones, the order is that of the last of them, and an order     *)
(* that is over is not touched.                                            *)
Fresh(c, w) ==
  \A j \in 1..Len(w.es) : w.es[j] \in Lifecycle =>
    /\ w.es[j] \notin Seen(c)
    /\ \A k \in 1..Len(w.es) : w.es[k] = w.es[j] => k = j

LastOf(w, k) ==
  /\ w.es[k] \in Lifecycle
  /\ \A j \in 1..Len(w.es) : w.es[j] \in Lifecycle => j <= k
  /\ w.o.status = StatusOf(w.es[k])
  /\ (w.o.filled = Qty) = (w.es[k] = "FILLED")

Good(c, w) ==
  /\ w \in Draft
  /\ Fresh(c, w)
  /\ \/ /\ \A k \in 1..Len(w.es) : w.es[k] \notin Lifecycle
        /\ w.o = Found(c).o
     \/ /\ Untouched(c)
        /\ w.o.status \in Terminal
        /\ \E k \in 1..Len(w.es) : LastOf(w, k)

(* The orders the batch is about. *)
Source == IF terms = "reconcile" THEN NonTerminal ELSE planned

BatchInv ==
  /\ todo \subseteq Source
  /\ \A c \in planned : Owner[c] = cycle
  /\ \A c \in Cid : draft[c] # None =>
       /\ c \in Source \ todo
       /\ Good(c, draft[c])
       /\ draft[c].o.status = "FILLED" => IsFilled(c) \/ sent[c] = 1

(* A submit is made under a key, and only the one for which the key was    *)
(* just registered.                                                        *)
KeyInv ==
  \A c \in Cid :
    /\ sent[c] \in {0, 1}
    /\ keys[c] = None => sent[c] = 0
    /\ Submitting(c) => sent[c] = 0 /\ keys[c] # None /\ Untouched(c)

(* The ledger has a filled order once, under the cycle that reported it;   *)
(* an order is reported again only by a rerun of that cycle.               *)
BookInv ==
  /\ \A f \in ledger : IsFilled(f[2]) /\ Owner[f[2]] <= f[1] /\ f[1] <= cycle
  /\ \A f, g \in ledger : f[2] = g[2] => f = g
  /\ \A c \in report : IsFilled(c) /\ Owner[c] <= cycle /\ \A f \in ledger : f[2] = c => f[1] = cycle
  /\ \A c \in Cid : IsFilled(c) /\ c \notin lost /\ c \notin report => \E f \in ledger : f[2] = c
  /\ pc = "idle" => report = {}

(* The sequence numbers of an order's events are different. *)
Numbered(c) == \A e, f \in events[c] : e[1] = f[1] => e = f

(* An order has finitely many events, so that they can be counted. *)
Countable == \A c \in Cid : IsFiniteSet(events[c])

OMSInv == TypeOK /\ StoredShape /\ BatchInv /\ KeyInv /\ BookInv /\ Countable

-----------------------------------------------------------------------------
(* What _transition_once and _append_event do to an order in memory *)

(* An order in memory that no lifecycle event has touched. *)
Plain(c, w) ==
  /\ w \in Draft
  /\ \A k \in 1..Len(w.es) : w.es[k] \notin Lifecycle
  /\ w.o = Found(c).o

LEMMA LogProperties ==
  ASSUME NEW w \in Draft, NEW t \in EventType
  PROVE  /\ Log(w, t) \in Draft /\ Log(w, t).o = w.o
         /\ Len(Log(w, t).es) = Len(w.es) + 1 /\ Len(w.es) \in Nat
         /\ \A k \in 1..(Len(w.es) + 1) :
              Log(w, t).es[k] = IF k = Len(w.es) + 1 THEN t ELSE w.es[k]
<1>1. w.es \in Seq(EventType) /\ w.o \in Order
  BY DEF Draft
<1>2. /\ Append(w.es, t) \in Seq(EventType) /\ Len(Append(w.es, t)) = Len(w.es) + 1
      /\ Len(w.es) \in Nat
      /\ \A k \in 1..(Len(w.es) + 1) :
           Append(w.es, t)[k] = IF k = Len(w.es) + 1 THEN t ELSE w.es[k]
  BY <1>1
<1>3. Log(w, t) = [o |-> w.o, es |-> Append(w.es, t)]
  BY DEF Log, Draft
<1> QED
  BY <1>1, <1>2, <1>3 DEF Draft

LEMMA PlainLog ==
  ASSUME NEW c \in Cid, NEW w, Plain(c, w), NEW t \in EventType \ Lifecycle
  PROVE  Plain(c, Log(w, t))
<1>1. w \in Draft
  BY DEF Plain
<1>2. /\ Log(w, t) \in Draft /\ Log(w, t).o = w.o
      /\ Len(Log(w, t).es) = Len(w.es) + 1 /\ Len(w.es) \in Nat
      /\ \A k \in 1..(Len(w.es) + 1) : Log(w, t).es[k] = IF k = Len(w.es) + 1 THEN t ELSE w.es[k]
  BY <1>1, LogProperties
<1>3. ASSUME NEW k \in 1..Len(Log(w, t).es) PROVE Log(w, t).es[k] \notin Lifecycle
  <2>1. CASE k = Len(w.es) + 1
    BY <2>1, <1>2
  <2>2. CASE k # Len(w.es) + 1
    BY <2>2, <1>2 DEF Plain
  <2> QED BY <2>1, <2>2
<1> QED
  BY <1>2, <1>3 DEF Plain

LEMMA PlainIsGood ==
  ASSUME NEW c \in Cid, NEW w, Plain(c, w)
  PROVE  Good(c, w)
BY DEF Plain, Good, Fresh

LEMMA FoundPlain ==
  ASSUME TypeOK, StoredShape, NEW c \in Cid
  PROVE  /\ Plain(c, Found(c))
         /\ Found(c).o \in Order
         /\ Untouched(c) => Found(c).o = [status |-> "PLANNED", filled |-> 0]
         /\ ~Untouched(c) => Found(c).o = orders[c] /\ orders[c].status \in Terminal
<1>1. orders[c] # None => orders[c] \in Order
  BY DEF TypeOK
<1>2. [status |-> "PLANNED", filled |-> 0] \in Order
  BY DEF Order, OrderStatus, Qty
<1>3. <<>> \in Seq(EventType) /\ Len(<<>>) = 0
  OBVIOUS
<1>4. Found(c).o \in Order /\ Found(c).es = <<>>
  BY <1>1, <1>2 DEF Found
<1>5. Found(c) \in Draft
  BY <1>3, <1>4 DEF Found, Draft
<1>6. orders[c] # None /\ orders[c].status = "PLANNED" =>
        orders[c] = [status |-> "PLANNED", filled |-> 0]
  BY <1>1 DEF StoredShape, Order
<1>7. Plain(c, Found(c))
  BY <1>3, <1>4, <1>5 DEF Plain
<1>8. Untouched(c) => Found(c).o = [status |-> "PLANNED", filled |-> 0]
  BY <1>6 DEF Untouched, Found
<1>9. ~Untouched(c) => Found(c).o = orders[c] /\ orders[c].status \in Terminal
  BY DEF Untouched, Found, StoredShape
<1> QED
  BY <1>4, <1>7, <1>8, <1>9

LEMMA WithEvents ==
  ASSUME NEW w \in Draft, NEW es
  PROVE  [w EXCEPT !.es = es] = [o |-> w.o, es |-> es]
BY DEF Draft

LEMMA RetriedPlain ==
  ASSUME TypeOK, StoredShape, NEW c \in Cid
  PROVE  Plain(c, Retried(c))
<1> DEFINE es == [k \in 1..(attempt - 1) |-> "RETRY_SCHEDULED"]
<1>1. attempt - 1 \in Nat
  BY OMSAssumption DEF TypeOK, OMSAssumption
<1>2. es \in Seq(EventType) /\ Len(es) = attempt - 1
  BY <1>1 DEF EventType
<1>3. Retried(c) = [o |-> Found(c).o, es |-> es]
  <2>1. Found(c) \in Draft
    BY FoundPlain DEF Plain
  <2>2. Retried(c) = [Found(c) EXCEPT !.es = es]
    BY DEF Retried
  <2> HIDE DEF es
  <2> QED BY <2>1, <2>2, WithEvents
<1>4. Found(c).o \in Order
  BY FoundPlain
<1>5. \A k \in 1..Len(es) : es[k] \notin Lifecycle
  BY <1>2 DEF Lifecycle
<1> HIDE DEF es
<1> QED
  BY <1>2, <1>3, <1>4, <1>5 DEF Plain, Draft

(* v is w with one more lifecycle event, t, which left the order as o. *)
Took(c, w, t, o, v) ==
  /\ v \in Draft /\ Fresh(c, v) /\ v.o = o
  /\ \E k \in 1..Len(v.es) : LastOf(v, k)
  /\ \A k \in 1..Len(v.es) : v.es[k] = t \/ \E j \in 1..Len(w.es) : v.es[k] = w.es[j]

(* A lifecycle event that is new for the order becomes its last one. *)
LEMMA LogLifecycle ==
  ASSUME NEW c \in Cid, Happened(c) = {}, NEW w \in Draft, Fresh(c, w),
         NEW t \in Lifecycle, \A k \in 1..Len(w.es) : w.es[k] # t,
         NEW o \in Order, o.status = StatusOf(t), (o.filled = Qty) <=> (t = "FILLED")
  PROVE  Took(c, w, t, o, Log([w EXCEPT !.o = o], t))
<1> DEFINE u == [w EXCEPT !.o = o]
           v == Log(u, t)
<1>1. u \in Draft /\ u.o = o /\ u.es = w.es
  BY DEF Draft
<1>2. t \in EventType
  BY DEF EventType
<1>3. /\ v \in Draft /\ v.o = o /\ Len(v.es) = Len(w.es) + 1 /\ Len(w.es) \in Nat
      /\ \A k \in 1..(Len(w.es) + 1) : v.es[k] = IF k = Len(w.es) + 1 THEN t ELSE w.es[k]
  <2> HIDE DEF u
  <2> QED BY <1>1, <1>2, LogProperties
<1> HIDE DEF v
<1> DEFINE n == Len(w.es) + 1
<1>4. t \notin Seen(c)
  BY DEF Happened, Seen
<1>5. Fresh(c, v)
  <2> SUFFICES ASSUME NEW j \in 1..n, v.es[j] \in Lifecycle
               PROVE  /\ v.es[j] \notin Seen(c)
                      /\ \A k \in 1..n : v.es[k] = v.es[j] => k = j
    BY <1>3 DEF Fresh
  <2>1. CASE j = n
    BY <2>1, <1>3, <1>4
  <2>2. CASE j # n
    <3>1. j \in 1..Len(w.es) /\ v.es[j] = w.es[j]
      BY <2>2, <1>3
    <3> QED BY <3>1, <1>3 DEF Fresh
  <2> QED BY <2>1, <2>2
<1>6. LastOf(v, n) /\ n \in 1..Len(v.es)
  BY <1>3 DEF LastOf
<1>7. \A k \in 1..Len(v.es) : v.es[k] = t \/ \E j \in 1..Len(w.es) : v.es[k] = w.es[j]
  BY <1>3
<1> QED
  BY <1>3, <1>5, <1>6, <1>7 DEF v, Took

(* The same for _transition_once, where the order may take the step. *)
LEMMA TransitionTaken ==
  ASSUME NEW c \in Cid, Happened(c) = {}, NEW w \in Draft, Fresh(c, w),
         NEW t \in Lifecycle, \A k \in 1..Len(w.es) : w.es[k] # t,
         NEW n \in 0..Qty, StatusOf(t) \in Allowed(w.o.status), (n = Qty) <=> (t = "FILLED")
  PROVE  Took(c, w, t, [status |-> StatusOf(t), filled |-> n],
              Transition(c, w, t, StatusOf(t), n))
<1> DEFINE o == [status |-> StatusOf(t), filled |-> n]
<1>1. o \in Order /\ o.status = StatusOf(t) /\ ((o.filled = Qty) <=> (t = "FILLED"))
  BY DEF Order, OrderStatus, StatusOf, Lifecycle, Terminal
<1>2. t \notin Seen(c)
  BY DEF Happened, Seen
<1>3. Transition(c, w, t, StatusOf(t), n) = Log([w EXCEPT !.o = o], t)
  BY <1>2 DEF Transition
<1> HIDE DEF o
<1>4. Took(c, w, t, o, Log([w EXCEPT !.o = o], t))
  BY <1>1, LogLifecycle
<1> QED
  BY <1>3, <1>4 DEF o

-----------------------------------------------------------------------------
(* What an intent leaves in memory is good, whichever way it goes *)

LEMMA TookIsGood ==
  ASSUME NEW c \in Cid, NEW w, NEW t, NEW o, NEW v, Took(c, w, t, o, v),
         Untouched(c), o.status \in Terminal
  PROVE  Good(c, v)
BY DEF Took, Good

(* A transition of an order that is over changes nothing. *)
LEMMA OverStays ==
  ASSUME TypeOK, StoredShape, NEW c \in Cid, ~Untouched(c), NEW t \in {"REJECTED", "CANCELED"}, NEW n
  PROVE  Transition(c, Found(c), t, t, n) = Found(c)
<1>1. Found(c).o.status \in Terminal /\ Found(c).o.status \in Seen(c)
  BY FoundPlain DEF StoredShape
<1>2. CASE t = Found(c).o.status
  BY <1>1, <1>2 DEF Transition
<1>3. CASE t # Found(c).o.status
  BY <1>1, <1>3 DEF Transition, Allowed, Terminal
<1> QED
  BY <1>2, <1>3

(* A plain order that is rejected or canceled. *)
LEMMA EndsGood ==
  ASSUME TypeOK, StoredShape, NEW c \in Cid, Untouched(c), NEW w, Plain(c, w),
         NEW t \in {"REJECTED", "CANCELED"}
  PROVE  /\ Good(c, Transition(c, w, t, t, w.o.filled))
         /\ Transition(c, w, t, t, w.o.filled).o.status = t
<1>1. w.o = [status |-> "PLANNED", filled |-> 0] /\ w \in Draft /\ Fresh(c, w)
  BY FoundPlain DEF Plain, Fresh
<1>2. StatusOf(t) = t /\ t \in Lifecycle /\ t \in Allowed("PLANNED") /\ t # "FILLED"
  BY DEF StatusOf, Lifecycle, Allowed
<1>3. Happened(c) = {}
  BY DEF StoredShape
<1>4. \A k \in 1..Len(w.es) : w.es[k] # t
  BY <1>2 DEF Plain
<1>5. w.o.filled \in 0..Qty /\ w.o.filled # Qty
  BY <1>1 DEF Qty
<1>6. Took(c, w, t, [status |-> t, filled |-> w.o.filled], Transition(c, w, t, t, w.o.filled))
  <2>1. StatusOf(t) \in Allowed(w.o.status)
    BY <1>1, <1>2
  <2>2. (w.o.filled = Qty) <=> (t = "FILLED")
    BY <1>2, <1>5
  <2>3. Took(c, w, t, [status |-> StatusOf(t), filled |-> w.o.filled],
             Transition(c, w, t, StatusOf(t), w.o.filled))
    BY <1>1, <1>2, <1>3, <1>4, <1>5, <2>1, <2>2, TransitionTaken
  <2> QED BY <1>2, <2>3
<1>7. [status |-> t, filled |-> w.o.filled].status \in Terminal
  BY DEF Terminal
<1>8. Good(c, Transition(c, w, t, t, w.o.filled))
  BY <1>6, <1>7, TookIsGood
<1> QED
  BY <1>6, <1>8 DEF Took

(* SUBMIT_REQUESTED and ACKED. *)
LEMMA AckedTaken ==
  ASSUME TypeOK, StoredShape, NEW c \in Cid, Untouched(c)
  PROVE  /\ Acked(c) \in Draft /\ Fresh(c, Acked(c))
         /\ Acked(c).o = [status |-> "ACKED", filled |-> 0]
         /\ \A k \in 1..Len(Acked(c).es) :
              Acked(c).es[k] \in Lifecycle => Acked(c).es[k] \in {"SUBMIT_REQUESTED", "ACKED"}
<1> DEFINE r == Retried(c)
           w == Transition(c, r, "SUBMIT_REQUESTED", "SUBMITTED", 0)
<1>1. /\ r \in Draft /\ r.o = [status |-> "PLANNED", filled |-> 0] /\ Fresh(c, r)
      /\ \A k \in 1..Len(r.es) : r.es[k] \notin Lifecycle
  BY RetriedPlain, FoundPlain DEF Plain, Fresh
<1>2. Happened(c) = {} /\ Found(c).o.filled = 0
  BY FoundPlain DEF StoredShape
<1>3. /\ {"SUBMIT_REQUESTED", "ACKED"} \subseteq Lifecycle /\ 0 \in 0..Qty /\ 0 # Qty
      /\ StatusOf("SUBMIT_REQUESTED") = "SUBMITTED" /\ StatusOf("ACKED") = "ACKED"
      /\ "SUBMITTED" \in Allowed("PLANNED") /\ "ACKED" \in Allowed("SUBMITTED")
  BY DEF Lifecycle, Qty, StatusOf, Allowed
<1> HIDE DEF r
<1>4. Took(c, r, "SUBMIT_REQUESTED", [status |-> "SUBMITTED", filled |-> 0], w)
  <2>1. \A k \in 1..Len(r.es) : r.es[k] # "SUBMIT_REQUESTED"
    BY <1>1, <1>3
  <2>2. StatusOf("SUBMIT_REQUESTED") \in Allowed(r.o.status)
    BY <1>1, <1>3
  <2>3. Took(c, r, "SUBMIT_REQUESTED", [status |-> StatusOf("SUBMIT_REQUESTED"), filled |-> 0],
             Transition(c, r, "SUBMIT_REQUESTED", StatusOf("SUBMIT_REQUESTED"), 0))
    BY <1>1, <1>2, <1>3, <2>1, <2>2, TransitionTaken
  <2> QED BY <1>3, <2>3
<1> HIDE DEF w
<1>5. Took(c, w, "ACKED", [status |-> "ACKED", filled |-> 0], Transition(c, w, "ACKED", "ACKED", 0))
  <2>1. w \in Draft /\ Fresh(c, w) /\ w.o.status = "SUBMITTED"
    BY <1>4 DEF Took
  <2>2. \A k \in 1..Len(w.es) : w.es[k] # "ACKED"
    BY <1>1, <1>3, <1>4 DEF Took
  <2>3. Took(c, w, "ACKED", [status |-> StatusOf("ACKED"), filled |-> 0],
             Transition(c, w, "ACKED", StatusOf("ACKED"), 0))
    BY <1>2, <1>3, <2>1, <2>2, TransitionTaken
  <2> QED BY <1>3, <2>3
<1>6. Acked(c) = Transition(c, w, "ACKED", "ACKED", 0)
  <2>1. w.o.filled = 0
    BY <1>4 DEF Took
  <2> QED BY <1>2, <2>1 DEF Acked, w, r
<1> DEFINE a == Transition(c, w, "ACKED", "ACKED", 0)
<1> HIDE DEF a
<1>7. /\ a \in Draft /\ Fresh(c, a) /\ a.o = [status |-> "ACKED", filled |-> 0]
      /\ \A k \in 1..Len(a.es) : a.es[k] = "ACKED" \/ \E j \in 1..Len(w.es) : a.es[k] = w.es[j]
  BY <1>5 DEF Took, a
<1>8. \A k \in 1..Len(w.es) :
        w.es[k] = "SUBMIT_REQUESTED" \/ \E j \in 1..Len(r.es) : w.es[k] = r.es[j]
  BY <1>4 DEF Took
<1>9. \A k \in 1..Len(a.es) : a.es[k] \in Lifecycle => a.es[k] \in {"SUBMIT_REQUESTED", "ACKED"}
  BY <1>1, <1>7, <1>8
<1> QED
  BY <1>6, <1>7, <1>9 DEF a

LEMMA AckedRejected ==
  ASSUME TypeOK, StoredShape, NEW c \in Cid, Untouched(c)
  PROVE  Good(c, Rejected(c, Acked(c))) /\ Rejected(c, Acked(c)).o.status = "REJECTED"
<1> DEFINE a == Acked(c)
<1>1. /\ a \in Draft /\ Fresh(c, a) /\ a.o = [status |-> "ACKED", filled |-> 0]
      /\ \A k \in 1..Len(a.es) : a.es[k] # "REJECTED"
  BY AckedTaken DEF Lifecycle
<1>2. Happened(c) = {}
  BY DEF StoredShape
<1>3. /\ "REJECTED" \in Lifecycle /\ 0 \in 0..Qty /\ 0 # Qty /\ StatusOf("REJECTED") = "REJECTED"
      /\ "REJECTED" \in Allowed("ACKED") /\ "REJECTED" \in Terminal
  BY DEF Lifecycle, Qty, StatusOf, Allowed, Terminal
<1> HIDE DEF a
<1>4. Took(c, a, "REJECTED", [status |-> "REJECTED", filled |-> 0],
           Transition(c, a, "REJECTED", "REJECTED", 0))
  <2>1. StatusOf("REJECTED") \in Allowed(a.o.status)
    BY <1>1, <1>3
  <2>2. Took(c, a, "REJECTED", [status |-> StatusOf("REJECTED"), filled |-> 0],
             Transition(c, a, "REJECTED", StatusOf("REJECTED"), 0))
    BY <1>1, <1>2, <1>3, <2>1, TransitionTaken
  <2> QED BY <1>3, <2>2
<1>5. Rejected(c, Acked(c)) = Transition(c, a, "REJECTED", "REJECTED", 0)
  BY <1>1 DEF Rejected, a
<1>6. [status |-> "REJECTED", filled |-> 0].status \in Terminal
  BY <1>3
<1>7. Good(c, Transition(c, a, "REJECTED", "REJECTED", 0))
  BY <1>4, <1>6, TookIsGood
<1> QED
  BY <1>4, <1>5, <1>7 DEF Took

LEMMA FilledGood ==
  ASSUME TypeOK, StoredShape, NEW c \in Cid, Untouched(c)
  PROVE  Good(c, Filled(c))
<1> DEFINE a == Acked(c)
           w == IF c \in Sliced THEN Transition(c, a, "PARTIAL_FILL", "PARTIALLY_FILLED", 1) ELSE a
<1>1. /\ a \in Draft /\ Fresh(c, a) /\ a.o = [status |-> "ACKED", filled |-> 0]
      /\ \A k \in 1..Len(a.es) : a.es[k] # "PARTIAL_FILL" /\ a.es[k] # "FILLED"
  BY AckedTaken DEF Lifecycle
<1>2. Happened(c) = {}
  BY DEF StoredShape
<1>3. /\ {"PARTIAL_FILL", "FILLED"} \subseteq Lifecycle /\ Qty = 2
      /\ StatusOf("PARTIAL_FILL") = "PARTIALLY_FILLED" /\ StatusOf("FILLED") = "FILLED"
      /\ "PARTIALLY_FILLED" \in Allowed("ACKED") /\ "FILLED" \in Allowed("ACKED")
      /\ "FILLED" \in Allowed("PARTIALLY_FILLED") /\ "FILLED" \in Terminal
  BY DEF Lifecycle, Qty, StatusOf, Allowed, Terminal
<1>4. Filled(c) = Transition(c, w, "FILLED", "FILLED", Qty)
  BY <1>1 DEF Filled
<1> HIDE DEF a
<1>5. /\ w \in Draft /\ Fresh(c, w) /\ w.o.status \in {"ACKED", "PARTIALLY_FILLED"}
      /\ \A k \in 1..Len(w.es) : w.es[k] # "FILLED"
  <2>1. CASE c \notin Sliced
    BY <2>1, <1>1
  <2>2. CASE c \in Sliced
    <3>1. 1 \in 0..Qty /\ ((1 = Qty) <=> ("PARTIAL_FILL" = "FILLED"))
      BY <1>3
    <3>2. StatusOf("PARTIAL_FILL") \in Allowed(a.o.status)
      BY <1>1, <1>3
    <3>3. Took(c, a, "PARTIAL_FILL", [status |-> StatusOf("PARTIAL_FILL"), filled |-> 1],
               Transition(c, a, "PARTIAL_FILL", StatusOf("PARTIAL_FILL"), 1))
      BY <1>1, <1>2, <1>3, <3>1, <3>2, TransitionTaken
    <3>4. Took(c, a, "PARTIAL_FILL", [status |-> "PARTIALLY_FILLED", filled |-> 1], w)
      BY <2>2, <1>3, <3>3
    <3> HIDE DEF w
    <3> QED BY <1>1, <3>4 DEF Took
  <2> QED BY <2>1, <2>2
<1> HIDE DEF w
<1>6. Took(c, w, "FILLED", [status |-> "FILLED", filled |-> Qty],
           Transition(c, w, "FILLED", "FILLED", Qty))
  <2>1. StatusOf("FILLED") \in Allowed(w.o.status) /\ Qty \in 0..Qty
    BY <1>3, <1>5
  <2>2. Took(c, w, "FILLED", [status |-> StatusOf("FILLED"), filled |-> Qty],
             Transition(c, w, "FILLED", StatusOf("FILLED"), Qty))
    BY <1>2, <1>3, <1>5, <2>1, TransitionTaken
  <2> QED BY <1>3, <2>2
<1>7. [status |-> "FILLED", filled |-> Qty].status \in Terminal
  BY <1>3
<1> QED
  BY <1>4, <1>6, <1>7, TookIsGood

-----------------------------------------------------------------------------
(* OMSInv is inductive *)

(* Where the tables stand still, what was good in memory stays good. *)
LEMMA GoodStays ==
  ASSUME NEW c \in Cid, NEW w, Good(c, w), UNCHANGED <<orders, events>>, draft'[c] = w
  PROVE  Good(c, draft[c])'
BY DEF Good, Fresh, LastOf, Found, Untouched, Seen

LEMMA SourceStays ==
  ASSUME UNCHANGED <<orders, terms, planned>>
  PROVE  Source' = Source
BY DEF Source, NonTerminal

LEMMA StoredShapeStays ==
  ASSUME StoredShape, UNCHANGED <<orders, events>>, cycle' >= cycle, cycle \in Nat, cycle' \in Nat
  PROVE  StoredShape'
<1> SUFFICES ASSUME NEW c \in Cid
             PROVE  /\ orders'[c] = None => events'[c] = {}
                    /\ orders'[c] # None =>
                         /\ Owner[c] <= cycle'
                         /\ orders'[c].status \in Terminal \cup {"PLANNED"}
                         /\ orders'[c].status = "PLANNED" => orders'[c].filled = 0
                    /\ Untouched(c)' => Happened(c)' = {}
                    /\ ~Untouched(c)' => orders'[c].status \in Seen(c)'
  BY DEF StoredShape
<1>1. Owner[c] \in Nat
  BY OMSAssumption DEF OMSAssumption
<1>2. Untouched(c)' <=> Untouched(c)
  BY DEF Untouched
<1>3. Happened(c)' = Happened(c) /\ Seen(c)' = Seen(c)
  BY DEF Happened, Seen
<1> QED
  BY <1>1, <1>2, <1>3 DEF StoredShape

(* An intent is done with: w goes to memory, perhaps after a submit.       *)
Sending(c) ==
  \/ sent' = sent
  \/ Submitting(c) /\ sent' = [sent EXCEPT ![c] = @ + 1]

LEMMA FinishStep ==
  ASSUME OMSInv, NEW c \in Cid, c \in todo, NEW w, Good(c, w), Finish(c, w),
         pc \in {"next", "submit"}, keys' = keys, tokens' \in 0..Burst, Sending(c),
         w.o.status = "FILLED" => IsFilled(c) \/ sent'[c] = 1
  PROVE  OMSInv'
<1> USE DEF OMSInv
<1>1. /\ draft' = [draft EXCEPT ![c] = w] /\ todo' = todo \ {c} /\ attempt' = 1 /\ pc' = "next"
      /\ UNCHANGED <<orders, events, keys, fills, applied, ledger, cycle, terms, planned,
                     cancels, runs, report, lost>>
  BY DEF Finish, Goto, plan
<1>2. \A d \in Cid : sent'[d] \in {0, 1} /\ (sent'[d] = sent[d] \/ sent'[d] = 1)
      /\ (keys[d] = None => sent'[d] = 0)
  BY DEF Sending, KeyInv, TypeOK
<1>3. sent' \in [Cid -> Nat]
  BY DEF Sending, TypeOK
<1>4. TypeOK'
  <2>1. w \in Draft
    BY DEF Good
  <2>2. attempt' \in 1..MaxAttempts
    BY <1>1, OMSAssumption DEF OMSAssumption
  <2>3. pc' \in PC
    BY <1>1 DEF PC
  <2>4. draft' \in [Cid -> Draft \cup {None}]
    BY <1>1, <2>1 DEF TypeOK
  <2>5. pc # "idle"
    OBVIOUS
  <2> QED BY <1>1, <1>3, <2>2, <2>3, <2>4, <2>5 DEF TypeOK
<1>5. StoredShape'
  <2>1. cycle' >= cycle /\ cycle \in Nat /\ cycle' \in Nat
    BY <1>1, OMSAssumption DEF TypeOK, OMSAssumption
  <2> QED BY <1>1, <2>1, StoredShapeStays
<1>6. BatchInv'
  <2>1. Source' = Source
    BY <1>1, SourceStays
  <2>2. todo' \subseteq Source' /\ \A d \in planned' : Owner[d] = cycle'
    BY <1>1, <2>1 DEF BatchInv
  <2>3. ASSUME NEW d \in Cid, draft'[d] # None
        PROVE  /\ d \in Source' \ todo'
               /\ Good(d, draft[d])'
               /\ draft'[d].o.status = "FILLED" => IsFilled(d)' \/ sent'[d] = 1
    <3>1. IsFilled(d)' <=> IsFilled(d)
      BY <1>1 DEF IsFilled
    <3>2. CASE d = c
      <4>1. draft'[d] = w /\ d \in Source \ todo'
        BY <3>2, <1>1 DEF TypeOK, BatchInv
      <4>2. Good(d, draft[d])'
        BY <4>1, <3>2, <1>1, GoodStays
      <4> QED BY <4>1, <4>2, <3>1, <3>2, <2>1
    <3>3. CASE d # c
      <4>1. draft'[d] = draft[d]
        BY <3>3, <1>1 DEF TypeOK
      <4>2. /\ d \in Source \ todo' /\ Good(d, draft[d])
            /\ draft[d].o.status = "FILLED" => IsFilled(d) \/ sent[d] = 1
        BY <4>1, <2>3, <1>1 DEF BatchInv
      <4>3. Good(d, draft[d])'
        BY <4>1, <4>2, <1>1, GoodStays
      <4> QED BY <4>1, <4>2, <4>3, <3>1, <2>1, <1>2
    <3> QED BY <3>2, <3>3
  <2> QED BY <2>2, <2>3 DEF BatchInv
<1>7. KeyInv'
  BY <1>1, <1>2 DEF KeyInv, Submitting
<1>8. BookInv'
  BY <1>1 DEF BookInv, IsFilled
<1>9. Countable'
  BY <1>1 DEF Countable
<1> QED
  BY <1>4, <1>5, <1>6, <1>7, <1>8, <1>9

(* An order that may still be processed has no lifecycle event yet. *)
LEMMA OpenIsUntouched ==
  ASSUME TypeOK, StoredShape, NEW c \in Cid, Found(c).o.status \notin Terminal
  PROVE  Untouched(c)
BY FoundPlain

(* REJECTED and CANCELED: an untouched order ends, an order that is over   *)
(* stays as it is.                                                         *)
LEMMA EndsOrStays ==
  ASSUME TypeOK, StoredShape, NEW c \in Cid, NEW t \in {"REJECTED", "CANCELED"}
  PROVE  LET w == Transition(c, Found(c), t, t, Found(c).o.filled)
         IN  Good(c, w) /\ (w.o.status = "FILLED" => IsFilled(c))
<1> DEFINE w == Transition(c, Found(c), t, t, Found(c).o.filled)
<1>1. Plain(c, Found(c))
  BY FoundPlain
<1>2. CASE Untouched(c)
  <2>1. Good(c, w) /\ w.o.status = t
    BY <1>1, <1>2, EndsGood
  <2> QED BY <2>1
<1>3. CASE ~Untouched(c)
  <2>1. w = Found(c)
    BY <1>3, OverStays
  <2>2. Good(c, Found(c))
    BY <1>1, PlainIsGood
  <2>3. Found(c).o = orders[c] /\ orders[c] # None
    BY <1>3, FoundPlain DEF Untouched
  <2> QED BY <2>1, <2>2, <2>3 DEF IsFilled
<1> QED BY <1>2, <1>3

(* An order found plain leaves memory as it came. *)
LEMMA PlainKeepsFilled ==
  ASSUME TypeOK, StoredShape, NEW c \in Cid, NEW w, Plain(c, w), w.o.status = "FILLED"
  PROVE  IsFilled(c)
<1>1. Found(c).o.status = "FILLED"
  BY DEF Plain
<1>2. ~Untouched(c)
  BY <1>1, FoundPlain
<1> QED
  BY <1>1, <1>2, FoundPlain DEF Untouched, IsFilled

(* The orders that never reach the submit, or not this time. *)
LEMMA ProcessStep ==
  ASSUME OMSInv, NEW c \in Cid,
         \/ RejectInvalid(c) \/ CancelRequested(c) \/ IgnoreTerminal(c) \/ Throttle(c)
         \/ Conflict(c) \/ IgnoreDuplicate(c)
  PROVE  OMSInv'
<1>0. TypeOK /\ StoredShape
  BY DEF OMSInv
<1>1. Current(c) /\ c \in todo /\ pc = "next" /\ pc \in {"next", "submit"}
  BY DEF RejectInvalid, CancelRequested, IgnoreTerminal, Throttle, Conflict, IgnoreDuplicate,
         Open, Checked, Current
<1>2. keys' = keys /\ sent' = sent
  BY DEF RejectInvalid, CancelRequested, IgnoreTerminal, Throttle, Conflict, IgnoreDuplicate
<1>3. tokens' \in 0..Burst
  <2>1. tokens \in 0..Burst /\ Burst \in Nat
    BY <1>0, OMSAssumption DEF TypeOK, OMSAssumption
  <2> QED BY <2>1 DEF RejectInvalid, CancelRequested, IgnoreTerminal, Throttle, Conflict,
         IgnoreDuplicate, Consume
<1>4. Sending(c)
  BY <1>2 DEF Sending
<1>5. SUFFICES \E w : /\ Good(c, w) /\ Finish(c, w)
                      /\ w.o.status = "FILLED" => IsFilled(c)
  BY <1>1, <1>2, <1>3, <1>4, FinishStep
<1>6. Plain(c, Found(c))
  BY <1>0, FoundPlain
<1>7. ASSUME NEW t \in EventType \ Lifecycle, Finish(c, Log(Found(c), t))
      PROVE  \E w : /\ Good(c, w) /\ Finish(c, w)
                    /\ w.o.status = "FILLED" => IsFilled(c)
  <2>1. Plain(c, Log(Found(c), t))
    BY <1>6, PlainLog
  <2>2. Good(c, Log(Found(c), t))
    BY <2>1, PlainIsGood
  <2>3. Log(Found(c), t).o.status = "FILLED" => IsFilled(c)
    BY <2>1, <1>0, PlainKeepsFilled
  <2> QED BY <1>7, <2>2, <2>3
<1>8. {"DUPLICATE_IGNORED", "THROTTLED", "IDEMPOTENCY_CONFLICT"} \subseteq EventType \ Lifecycle
  BY DEF EventType, Lifecycle
<1>9. CASE RejectInvalid(c)
  <2>1. Finish(c, Transition(c, Found(c), "REJECTED", "REJECTED", Found(c).o.filled))
    BY <1>9 DEF RejectInvalid, Rejected
  <2> QED BY <1>0, <2>1, EndsOrStays
<1>10. CASE CancelRequested(c)
  <2>1. Finish(c, Transition(c, Found(c), "CANCELED", "CANCELED", Found(c).o.filled))
    BY <1>10 DEF CancelRequested
  <2> QED BY <1>0, <2>1, EndsOrStays
<1>11. CASE IgnoreTerminal(c)
  BY <1>11, <1>7, <1>8 DEF IgnoreTerminal
<1>12. CASE Throttle(c)
  BY <1>12, <1>7, <1>8 DEF Throttle
<1>13. CASE IgnoreDuplicate(c)
  BY <1>13, <1>7, <1>8 DEF IgnoreDuplicate
<1>14. CASE Conflict(c)
  <2> DEFINE v == Log(Found(c), "IDEMPOTENCY_CONFLICT")
  <2>1. Untouched(c)
    BY <1>0, <1>14, OpenIsUntouched DEF Conflict, Open
  <2>2. Plain(c, v)
    BY <1>6, <1>8, PlainLog
  <2>3. Finish(c, Transition(c, v, "REJECTED", "REJECTED", v.o.filled))
    BY <1>14 DEF Conflict, Rejected
  <2> HIDE DEF v
  <2>4. /\ Good(c, Transition(c, v, "REJECTED", "REJECTED", v.o.filled))
        /\ Transition(c, v, "REJECTED", "REJECTED", v.o.filled).o.status = "REJECTED"
    BY <1>0, <2>1, <2>2, EndsGood
  <2> QED BY <2>3, <2>4
<1> QED
  BY <1>9, <1>10, <1>11, <1>12, <1>13, <1>14

(* A submit that failed for good or was taken. *)
LEMMA SubmitStep ==
  ASSUME OMSInv, NEW c \in Cid,
         GiveUp(c) \/ \E rejects \in BOOLEAN : SubmitAccepted(c, rejects)
  PROVE  OMSInv'
<1>0. TypeOK /\ StoredShape
  BY DEF OMSInv
<1>1. Submitting(c) /\ c \in todo /\ pc \in {"next", "submit"}
  BY DEF GiveUp, SubmitAccepted, Submitting
<1>2. keys' = keys /\ tokens' \in 0..Burst
  BY <1>0 DEF GiveUp, SubmitAccepted, TypeOK
<1>3. sent[c] = 0 /\ Untouched(c)
  BY <1>1 DEF OMSInv, KeyInv
<1>4. Sending(c)
  BY <1>1 DEF GiveUp, SubmitAccepted, Sending
<1>5. SUFFICES \E w : /\ Good(c, w) /\ Finish(c, w)
                      /\ w.o.status = "FILLED" => IsFilled(c) \/ sent'[c] = 1
  BY <1>1, <1>2, <1>4, FinishStep
<1>6. CASE GiveUp(c)
  <2>1. Plain(c, Retried(c))
    BY <1>0, RetriedPlain
  <2>2. "RETRY_GIVEUP" \in EventType \ Lifecycle
    BY DEF EventType, Lifecycle
  <2>3. Plain(c, Log(Retried(c), "RETRY_GIVEUP"))
    BY <2>1, <2>2, PlainLog
  <2>4. Good(c, Log(Retried(c), "RETRY_GIVEUP"))
    BY <2>3, PlainIsGood
  <2>5. Log(Retried(c), "RETRY_GIVEUP").o.status = "FILLED" => IsFilled(c)
    BY <2>3, <1>0, PlainKeepsFilled
  <2> QED BY <1>6, <2>4, <2>5 DEF GiveUp
<1>7. ASSUME NEW rejects \in BOOLEAN, SubmitAccepted(c, rejects)
      PROVE  \E w : /\ Good(c, w) /\ Finish(c, w)
                    /\ w.o.status = "FILLED" => IsFilled(c) \/ sent'[c] = 1
  <2>1. sent'[c] = 1
    BY <1>0, <1>3, <1>7 DEF SubmitAccepted, TypeOK
  <2>2. CASE rejects
    <3>1. Finish(c, Rejected(c, Acked(c)))
      BY <2>2, <1>7 DEF SubmitAccepted
    <3>2. Good(c, Rejected(c, Acked(c)))
      BY <1>0, <1>3, AckedRejected
    <3> QED BY <2>1, <3>1, <3>2
  <2>3. CASE ~rejects
    <3>1. Finish(c, Filled(c))
      BY <2>3, <1>7 DEF SubmitAccepted
    <3>2. Good(c, Filled(c))
      BY <1>0, <1>3, FilledGood
    <3> QED BY <2>1, <3>1, <3>2
  <2> QED BY <2>2, <2>3
<1> QED
  BY <1>6, <1>7

-----------------------------------------------------------------------------
(* The transaction at the end of a batch *)

(* A stored order without a draft stays; one with a plain draft gets no    *)
(* lifecycle event; the others were untouched and are over now.            *)
Kept(c) == draft[c] = None /\ orders'[c] = orders[c] /\ events'[c] = events[c]
Noted(c) ==
  /\ draft[c] # None /\ orders'[c] = Found(c).o
  /\ \A e \in events'[c] : e \in events[c] \/ e[2] \notin Lifecycle
Closed(c) ==
  /\ draft[c] # None /\ Untouched(c)
  /\ orders'[c] = draft[c].o /\ orders'[c].status \in Terminal
  /\ orders'[c].status \in {e[2] : e \in events'[c]}

LEMMA CommitCases ==
  ASSUME OMSInv, Commit, NEW c \in Cid
  PROVE  /\ Kept(c) \/ Noted(c) \/ Closed(c)
         /\ events[c] \subseteq events'[c]
         /\ draft[c] # None => orders'[c] = draft[c].o /\ orders'[c] \in Order /\ orders'[c] # None
<1> USE DEF OMSInv
<1>1. orders'[c] = Stored(c) /\ events'[c] = Recorded(c)
  BY DEF Commit
<1>2. events[c] \subseteq events'[c]
  BY <1>1 DEF Recorded
<1>3. CASE draft[c] = None
  BY <1>1, <1>2, <1>3 DEF Stored, Recorded, Kept
<1>4. CASE draft[c] # None
  <2> DEFINE w == draft[c]
             n == Cardinality(events[c])
  <2>1. Good(c, w) /\ w \in Draft
    BY <1>4 DEF BatchInv, Good
  <2>2. orders'[c] = w.o /\ w.o \in Order /\ w.o # None
    BY <1>1, <1>4, <2>1, NoneAssumption DEF Stored, Draft, NoneAssumption
  <2>3. events'[c] = events[c] \cup {<<n + k, w.es[k]>> : k \in 1..Len(w.es)}
    BY <1>1, <1>4 DEF Recorded
  <2> HIDE DEF w, n
  <2>4. CASE (\A k \in 1..Len(w.es) : w.es[k] \notin Lifecycle) /\ w.o = Found(c).o
    <3>1. \A e \in events'[c] : e \in events[c] \/ e[2] \notin Lifecycle
      BY <2>3, <2>4
    <3> QED BY <1>2, <1>4, <2>2, <2>4, <3>1 DEF Noted, w
  <2>5. CASE Untouched(c) /\ w.o.status \in Terminal /\ \E k \in 1..Len(w.es) : LastOf(w, k)
    <3>1. PICK k \in 1..Len(w.es) : LastOf(w, k)
      BY <2>5
    <3>2. w.es[k] = w.o.status
      BY <3>1, <2>5 DEF LastOf, StatusOf, Terminal
    <3>3. <<n + k, w.es[k]>> \in events'[c] /\ <<n + k, w.es[k]>>[2] = w.es[k]
      BY <2>3
    <3> QED BY <1>2, <1>4, <2>2, <2>5, <3>2, <3>3 DEF Closed, w
  <2> QED BY <2>1, <2>4, <2>5 DEF Good
<1> QED BY <1>3, <1>4

(* The same events, types and lifecycle as before where no draft is. *)
LEMMA CommitStored ==
  ASSUME OMSInv, Commit
  PROVE  /\ orders' \in [Cid -> Order \cup {None}]
         /\ StoredShape'
<1> USE DEF OMSInv
<1>1. orders' \in [Cid -> Order \cup {None}]
  <2>1. \A c \in Cid : Stored(c) \in Order \cup {None}
    BY DEF TypeOK, Stored, BatchInv, Good, Draft
  <2> QED BY <2>1 DEF Commit
<1>2. cycle' = cycle
  BY DEF Commit
<1>3. ASSUME NEW c \in Cid
      PROVE  /\ orders'[c] = None => events'[c] = {}
             /\ orders'[c] # None =>
                  /\ Owner[c] <= cycle'
                  /\ orders'[c].status \in Terminal \cup {"PLANNED"}
                  /\ orders'[c].status = "PLANNED" => orders'[c].filled = 0
             /\ Untouched(c)' => Happened(c)' = {}
             /\ ~Untouched(c)' => orders'[c].status \in Seen(c)'
  <2>1. /\ events[c] \subseteq events'[c]
        /\ draft[c] # None => orders'[c] = draft[c].o /\ orders'[c] \in Order /\ orders'[c] # None
        /\ Kept(c) \/ Noted(c) \/ Closed(c)
    BY CommitCases
  <2>2. draft[c] # None => Owner[c] <= cycle
    <3>1. draft[c] # None => c \in Source
      BY DEF BatchInv
    <3>2. c \in NonTerminal => Owner[c] <= cycle
      BY DEF NonTerminal, StoredShape
    <3>3. Owner[c] \in Nat
      BY OMSAssumption DEF OMSAssumption
    <3> QED BY <3>1, <3>2, <3>3 DEF Source, BatchInv
  <2>3. Happened(c)' = {e \in events'[c] : e[2] \in Lifecycle}
    BY DEF Happened
  <2>4. Seen(c)' = {e[2] : e \in events'[c]}
    BY DEF Seen
  <2>5. Untouched(c)' <=> (orders'[c] = None \/ orders'[c].status = "PLANNED")
    BY DEF Untouched
  <2>6. CASE Kept(c)
    BY <2>6, <2>3, <2>4, <2>5, <1>2 DEF Kept, StoredShape, Untouched, Happened, Seen
  <2>7. CASE Noted(c)
    <3>1. /\ Untouched(c) => orders'[c] = [status |-> "PLANNED", filled |-> 0]
          /\ ~Untouched(c) => orders'[c] = orders[c] /\ orders[c].status \in Terminal
      BY <2>7, FoundPlain DEF Noted
    <3>2. Happened(c)' \subseteq Happened(c)
      BY <2>3, <2>7 DEF Noted, Happened
    <3>3. Seen(c) \subseteq Seen(c)'
      BY <2>1, <2>4 DEF Seen
    <3>4. draft[c] # None
      BY <2>7 DEF Noted
    <3>5. Untouched(c)' <=> Untouched(c)
      BY <3>1, <2>5 DEF Terminal, Untouched
    <3>6. /\ Untouched(c) => Happened(c) = {}
          /\ ~Untouched(c) => orders[c].status \in Seen(c)
      BY DEF StoredShape
    <3>7. Untouched(c)' => Happened(c)' = {}
      BY <3>2, <3>5, <3>6
    <3>8. ~Untouched(c)' => orders'[c].status \in Seen(c)'
      BY <3>1, <3>3, <3>5, <3>6
    <3>9. /\ orders'[c].status \in Terminal \cup {"PLANNED"}
          /\ orders'[c].status = "PLANNED" => orders'[c].filled = 0
      BY <3>1 DEF Terminal
    <3> QED BY <2>1, <2>2, <3>4, <3>7, <3>8, <3>9, <1>2
  <2>8. CASE Closed(c)
    <3>1. draft[c] # None /\ orders'[c].status \in Terminal /\ orders'[c].status \in Seen(c)'
      BY <2>8, <2>4 DEF Closed
    <3>2. orders'[c].status # "PLANNED"
      BY <3>1 DEF Terminal
    <3> QED BY <2>1, <2>2, <2>5, <3>1, <3>2, <1>2
  <2> QED BY <2>1, <2>6, <2>7, <2>8
<1> QED
  BY <1>1, <1>3 DEF StoredShape

LEMMA CommitFilled ==
  ASSUME OMSInv, Commit, NEW c \in Cid
  PROVE  /\ IsFilled(c) => IsFilled(c)'
         /\ IsFilled(c)' => \/ IsFilled(c) /\ draft[c] = None
                            \/ draft[c] # None /\ draft[c].o.status = "FILLED"
<1> USE DEF OMSInv
<1>1. /\ Kept(c) \/ Noted(c) \/ Closed(c)
      /\ draft[c] # None => orders'[c] = draft[c].o /\ orders'[c] \in Order /\ orders'[c] # None
  BY CommitCases
<1>2. IsFilled(c)' <=> (orders'[c] # None /\ orders'[c].status = "FILLED")
  BY DEF IsFilled
<1>3. IsFilled(c) => ~Untouched(c)
  BY DEF IsFilled, Untouched
<1>4. ~Untouched(c) => Found(c).o = orders[c]
  BY FoundPlain
<1>5. IsFilled(c) => IsFilled(c)'
  BY <1>1, <1>2, <1>3, <1>4 DEF Kept, Noted, Closed, IsFilled
<1> QED
  BY <1>1, <1>2, <1>5 DEF Kept, Noted, Closed, IsFilled

LEMMA CommitBooks ==
  ASSUME OMSInv, Commit, pc' # "idle"
  PROVE  BookInv'
<1> USE DEF OMSInv
<1>1. UNCHANGED <<ledger, cycle, lost>> /\ report' = Reported
  BY DEF Commit
<1>2. \A f \in ledger : f[2] \in Cid
  BY DEF TypeOK, FillId
<1>3. \A f \in ledger' : IsFilled(f[2])' /\ Owner[f[2]] <= f[1] /\ f[1] <= cycle'
  BY <1>1, <1>2, CommitFilled DEF BookInv
<1>4. ASSUME NEW c \in report'
      PROVE  IsFilled(c)' /\ Owner[c] <= cycle' /\ \A f \in ledger' : f[2] = c => f[1] = cycle'
  <2>1. c \in Cid
    BY <1>1 DEF Reported, TypeOK
  <2>2. CASE c \in report
    BY <2>1, <2>2, <1>1, CommitFilled DEF BookInv
  <2>3. CASE c \notin report
    <3>1. draft[c] # None /\ draft[c].o.status = "FILLED"
      BY <2>3, <1>1 DEF Reported
    <3>2. orders'[c] = draft[c].o /\ orders'[c] # None
      BY <2>1, <3>1, CommitCases
    <3>3. IsFilled(c)'
      BY <3>1, <3>2 DEF IsFilled
    <3>4. c \in Source
      BY <2>1, <3>1 DEF BatchInv
    <3>5. cycle \in Nat /\ Owner[c] \in Nat /\ \A f \in ledger : f[1] \in Nat
      BY <2>1, OMSAssumption DEF OMSAssumption, TypeOK, FillId
    <3>6. CASE terms = "reconcile"
      <4>1. c \in NonTerminal
        BY <3>4, <3>6 DEF Source
      <4>2. ~IsFilled(c) /\ Owner[c] <= cycle
        BY <4>1 DEF IsFilled, NonTerminal, StoredShape, Terminal
      <4> QED BY <4>2, <3>3, <1>1 DEF BookInv
    <3>7. CASE terms # "reconcile"
      <4>1. Owner[c] = cycle
        BY <3>4, <3>7 DEF Source, BatchInv
      <4> QED BY <4>1, <3>3, <3>5, <1>1 DEF BookInv
    <3> QED BY <3>6, <3>7
  <2> QED BY <2>2, <2>3
<1>5. ASSUME NEW c \in Cid, IsFilled(c)', c \notin lost', c \notin report'
      PROVE  \E f \in ledger' : f[2] = c
  <2>1. IsFilled(c)
    BY <1>1, <1>5, CommitFilled DEF Reported
  <2> QED BY <2>1, <1>1, <1>5 DEF BookInv, Reported
<1>6. \A f, g \in ledger' : f[2] = g[2] => f = g
  BY <1>1 DEF BookInv
<1> QED
  BY <1>3, <1>4, <1>5, <1>6 DEF BookInv

(* The batch that follows a commit or starts a cycle. *)
LEMMA FreshBatch ==
  ASSUME NEW S, Batch(S), S \subseteq Source', \A c \in planned' : Owner[c] = cycle'
  PROVE  BatchInv'
BY DEF Batch, BatchInv

LEMMA CommitEvents ==
  ASSUME OMSInv, Commit
  PROVE  events' \in [Cid -> SUBSET (Nat \X EventType)] /\ Countable'
<1> USE DEF OMSInv
<1>1. ASSUME NEW c \in Cid
      PROVE  Recorded(c) \in SUBSET (Nat \X EventType) /\ IsFiniteSet(Recorded(c))
  <2>0. IsFiniteSet(events[c]) /\ events[c] \in SUBSET (Nat \X EventType)
    BY DEF Countable, TypeOK
  <2>1. CASE draft[c] = None
    BY <2>0, <2>1 DEF Recorded
  <2>2. CASE draft[c] # None
    <3> DEFINE es == draft[c].es
               n == Cardinality(events[c])
               g == [k \in 1..Len(es) |-> <<n + k, es[k]>>]
    <3>1. es \in Seq(EventType) /\ Len(es) \in Nat
      BY <2>2 DEF TypeOK, Draft
    <3>2. n \in Nat
      BY <2>0, FS_CardinalityType
    <3>3. Recorded(c) = events[c] \cup {<<n + k, es[k]>> : k \in 1..Len(es)}
      BY <2>2 DEF Recorded
    <3> HIDE DEF es, n
    <3>4. \A k \in 1..Len(es) : <<n + k, es[k]>> \in Nat \X EventType
      BY <3>1, <3>2
    <3>5. IsFiniteSet({<<n + k, es[k]>> : k \in 1..Len(es)})
      <4>1. IsFiniteSet(1..Len(es))
        BY <3>1, FS_Interval
      <4>2. g \in Surjection(1..Len(es), {<<n + k, es[k]>> : k \in 1..Len(es)})
        BY DEF Surjection
      <4> QED BY <4>1, <4>2, FS_Surjection DEF ExistsSurjection
    <3>6. IsFiniteSet(Recorded(c))
      BY <2>0, <3>3, <3>5, FS_Union
    <3> QED BY <2>0, <3>3, <3>4, <3>6
  <2> QED BY <2>1, <2>2
<1>2. events' = [c \in Cid |-> Recorded(c)]
  BY DEF Commit
<1> QED
  BY <1>1, <1>2 DEF Countable

LEMMA CommitStep ==
  ASSUME OMSInv, (\E v \in Terms : CommitReconciled(v)) \/ CommitPlanned
  PROVE  OMSInv'
<1> USE DEF OMSInv
<1>1. Commit /\ pc = "next" /\ pc' \in {"next", "save"}
  BY DEF CommitReconciled, CommitPlanned, Goto, Commit
<1>2. /\ UNCHANGED <<keys, fills, applied, ledger, cycle, planned, cancels, runs, sent, lost>>
      /\ report' = Reported
  BY <1>1 DEF Commit
<1>3. PICK S \in {{}, planned} : Batch(S) /\ S \subseteq Source'
  <2>1. CASE CommitPlanned
    BY <2>1 DEF CommitPlanned
  <2>2. CASE \E v \in Terms : CommitReconciled(v)
    <3>1. Batch(planned) /\ terms' \in Terms
      BY <2>2 DEF CommitReconciled
    <3>2. Source' = planned
      BY <3>1, <1>2, OMSAssumption DEF Source, OMSAssumption
    <3> QED BY <3>1, <3>2
  <2> QED BY <2>1, <2>2
<1>4. TypeOK'
  <2>1. orders' \in [Cid -> Order \cup {None}]
    BY <1>1, CommitStored
  <2>2. events' \in [Cid -> SUBSET (Nat \X EventType)]
    BY <1>1, CommitEvents
  <2>3. report' \subseteq Cid
    BY <1>2 DEF Reported, TypeOK
  <2>4. terms' \in Terms \cup {"reconcile"}
    BY DEF CommitReconciled, CommitPlanned, TypeOK
  <2>5. /\ todo' \subseteq Cid /\ tokens' \in 0..Burst /\ attempt' \in 1..MaxAttempts
        /\ draft' \in [Cid -> Draft \cup {None}]
    <3>1. todo' = S /\ tokens' = Burst /\ attempt' = 1 /\ draft' = [c \in Cid |-> None]
      BY <1>3 DEF Batch
    <3>2. S \subseteq Cid
      BY DEF TypeOK
    <3> QED BY <3>1, <3>2, OMSAssumption DEF OMSAssumption
  <2>6. pc' \in PC /\ pc' # "submit" /\ cycle # 0
    BY <1>1 DEF PC, TypeOK
  <2> QED BY <1>2, <2>1, <2>2, <2>3, <2>4, <2>5, <2>6 DEF TypeOK
<1>5. BatchInv'
  <2>1. \A c \in planned' : Owner[c] = cycle'
    BY <1>2 DEF BatchInv
  <2> QED BY <1>3, <2>1, FreshBatch
<1>6. KeyInv'
  BY <1>1, <1>2 DEF KeyInv, Submitting
<1> QED
  BY <1>1, <1>4, <1>5, <1>6, CommitStored, CommitBooks, CommitEvents

LEMMA BeginStep ==
  ASSUME OMSInv, NEW k \in {cycle, cycle + 1} \cap 1..MaxCycle,
         NEW S \in SUBSET {c \in Cid : Owner[c] = k}, NEW X \in SUBSET S, BeginCycle(k, S, X)
  PROVE  OMSInv'
<1> USE DEF OMSInv
<1>1. /\ pc = "idle" /\ runs < MaxRuns /\ runs' = runs + 1 /\ cycle' = k /\ planned' = S
      /\ cancels' = X /\ terms' = "reconcile" /\ report' = {} /\ pc' = "next"
      /\ UNCHANGED <<orders, events, keys, fills, applied, ledger, sent, lost>>
      /\ Batch(NonTerminal)
  BY DEF BeginCycle, Goto, tables
<1>2. cycle' >= cycle /\ cycle \in Nat /\ cycle' \in Nat /\ cycle' \in 1..MaxCycle
  BY <1>1, OMSAssumption DEF OMSAssumption, TypeOK
<1>3. TypeOK'
  <2>1. /\ todo' \subseteq Cid /\ tokens' \in 0..Burst /\ attempt' \in 1..MaxAttempts
        /\ draft' \in [Cid -> Draft \cup {None}]
    BY <1>1, OMSAssumption DEF Batch, NonTerminal, OMSAssumption
  <2>2. planned' \subseteq Cid /\ cancels' \subseteq Cid
    BY <1>1
  <2>3. runs' \in 0..MaxRuns
    BY <1>1, OMSAssumption DEF OMSAssumption, TypeOK
  <2>4. pc' \in PC /\ pc' # "submit" /\ cycle' # 0 /\ cycle' \in 0..MaxCycle
    BY <1>1, <1>2 DEF PC
  <2> QED BY <1>1, <2>1, <2>2, <2>3, <2>4 DEF TypeOK
<1>4. StoredShape'
  BY <1>1, <1>2, StoredShapeStays
<1>5. BatchInv'
  <2>1. Source' = NonTerminal
    BY <1>1 DEF Source, NonTerminal
  <2>2. \A c \in planned' : Owner[c] = cycle'
    BY <1>1
  <2> QED BY <1>1, <2>1, <2>2, FreshBatch
<1>6. KeyInv'
  BY <1>1 DEF KeyInv, Submitting
<1>7. BookInv'
  <2>1. \A f \in ledger : f[1] \in Nat /\ f[2] \in Cid
    BY OMSAssumption DEF TypeOK, FillId, OMSAssumption
  <2>2. \A f \in ledger' : IsFilled(f[2])' /\ Owner[f[2]] <= f[1] /\ f[1] <= cycle'
    BY <1>1, <1>2, <2>1 DEF BookInv, IsFilled
  <2>3. \A c \in Cid : IsFilled(c)' /\ c \notin lost' /\ c \notin report'
                          => \E f \in ledger' : f[2] = c
    BY <1>1 DEF BookInv, IsFilled
  <2>4. \A f, g \in ledger' : f[2] = g[2] => f = g
    BY <1>1 DEF BookInv
  <2> QED BY <1>1, <2>2, <2>3, <2>4 DEF BookInv
<1>8. Countable'
  BY <1>1 DEF Countable
<1> QED
  BY <1>3, <1>4, <1>5, <1>6, <1>7, <1>8

(* Steps that leave the orders and what is in memory alone. *)
LEMMA QuietStep ==
  ASSUME TypeOK, StoredShape, BatchInv, Countable,
         UNCHANGED <<orders, events, draft, todo, cycle, terms, planned, sent>>
  PROVE  StoredShape' /\ BatchInv' /\ Countable'
<1>1. cycle' >= cycle /\ cycle \in Nat /\ cycle' \in Nat
  BY OMSAssumption DEF OMSAssumption, TypeOK
<1>2. StoredShape'
  BY <1>1, StoredShapeStays
<1>3. Source' = Source
  BY SourceStays
<1>4. ASSUME NEW c \in Cid, draft'[c] # None
      PROVE  /\ c \in Source' \ todo'
             /\ Good(c, draft[c])'
             /\ draft'[c].o.status = "FILLED" => IsFilled(c)' \/ sent'[c] = 1
  <2>1. /\ c \in Source \ todo /\ Good(c, draft[c])
        /\ draft[c].o.status = "FILLED" => IsFilled(c) \/ sent[c] = 1
    BY <1>4 DEF BatchInv
  <2>2. Good(c, draft[c])'
    BY <2>1, GoodStays
  <2>3. IsFilled(c)' <=> IsFilled(c)
    BY DEF IsFilled
  <2> QED BY <2>1, <2>2, <2>3, <1>3
<1>5. BatchInv'
  BY <1>3, <1>4 DEF BatchInv
<1> QED
  BY <1>2, <1>5 DEF Countable

LEMMA RegisterStep ==
  ASSUME OMSInv, NEW c \in Cid, RegisterKey(c)
  PROVE  OMSInv'
<1> USE DEF OMSInv
<1>1. /\ pc = "next" /\ c \in todo /\ \A d \in todo : c <= d
      /\ Found(c).o.status \notin Terminal /\ keys[c] = None
      /\ keys' = [keys EXCEPT ![c] = <<cycle, terms>>] /\ pc' = "submit"
      /\ UNCHANGED <<orders, events, fills, applied, ledger, cycle, terms, planned, cancels, runs,
                     todo, attempt, draft, report, sent, lost>>
      /\ Consume
  BY DEF RegisterKey, Open, Checked, Current, Registered, Goto, plan
<1>2. Untouched(c)
  BY <1>1, OpenIsUntouched
<1>3. cycle \in 1..MaxCycle
  BY <1>1, OMSAssumption DEF TypeOK, OMSAssumption
<1>4. keys' \in [Cid -> Hash \cup {None}] /\ <<cycle, terms>> # None
  <2>1. <<cycle, terms>> \in Hash
    BY <1>3 DEF TypeOK, Hash
  <2> QED BY <2>1, <1>1, NoneAssumption DEF TypeOK, NoneAssumption
<1>5. tokens' \in 0..Burst
  BY <1>1, OMSAssumption DEF TypeOK, OMSAssumption, Consume
<1>6. TypeOK'
  BY <1>1, <1>3, <1>4, <1>5 DEF TypeOK, PC
<1>7. StoredShape' /\ BatchInv' /\ Countable'
  BY <1>1, QuietStep
<1>8. KeyInv'
  <2> SUFFICES ASSUME NEW d \in Cid
               PROVE  /\ sent'[d] \in {0, 1}
                      /\ keys'[d] = None => sent'[d] = 0
                      /\ Submitting(d)' => sent'[d] = 0 /\ keys'[d] # None /\ Untouched(d)'
    BY DEF KeyInv
  <2>1. Untouched(c)' <=> Untouched(c)
    BY <1>1 DEF Untouched
  <2>2. keys'[c] = <<cycle, terms>> /\ (d # c => keys'[d] = keys[d])
    BY <1>1 DEF TypeOK
  <2>3. Submitting(d)' => d = c
    <3>1. Submitting(d)' => d \in todo /\ d <= c
      BY <1>1 DEF Submitting
    <3>2. c \in Nat /\ d \in Nat
      BY OMSAssumption DEF OMSAssumption
    <3> QED BY <3>1, <3>2, <1>1
  <2> QED BY <1>1, <1>2, <1>4, <2>1, <2>2, <2>3 DEF KeyInv
<1>9. BookInv'
  BY <1>1 DEF BookInv, IsFilled
<1> QED
  BY <1>6, <1>7, <1>8, <1>9

LEMMA AgainStep ==
  ASSUME OMSInv, SubmitAgain
  PROVE  OMSInv'
<1> USE DEF OMSInv
<1>1. /\ pc = "submit" /\ attempt < MaxAttempts /\ attempt' = attempt + 1
      /\ UNCHANGED <<orders, events, keys, fills, applied, ledger, cycle, terms, planned, cancels,
                     runs, pc, todo, tokens, draft, report, sent, lost>>
  BY DEF SubmitAgain, tables, plan
<1>2. attempt' \in 1..MaxAttempts
  BY <1>1, OMSAssumption DEF TypeOK, OMSAssumption
<1>3. TypeOK'
  BY <1>1, <1>2 DEF TypeOK
<1>4. StoredShape' /\ BatchInv' /\ Countable'
  BY <1>1, QuietStep
<1>5. KeyInv'
  BY <1>1 DEF KeyInv, Submitting, Untouched
<1>6. BookInv'
  BY <1>1 DEF BookInv, IsFilled
<1> QED
  BY <1>3, <1>4, <1>5, <1>6

LEMMA FillStep ==
  ASSUME OMSInv, SaveFill \/ MarkFillApplied
  PROVE  OMSInv'
<1> USE DEF OMSInv
<1>1. /\ pc \in {"save", "mark"} /\ pc' \in {"save", "mark", "append"}
      /\ UNCHANGED <<orders, events, keys, ledger, cycle, terms, planned, cancels,
                     runs, todo, tokens, attempt, draft, report, sent, lost>>
  BY DEF SaveFill, MarkFillApplied, plan, batch, Goto
<1>2. cycle \in 1..MaxCycle
  BY <1>1, OMSAssumption DEF TypeOK, OMSAssumption
<1>3. \A c \in report : Fill(c) \in FillId
  BY <1>2 DEF Fill, FillId, TypeOK
<1>4. fills' \subseteq FillId /\ applied' \subseteq FillId
  BY <1>3 DEF SaveFill, MarkFillApplied, TypeOK
<1>5. TypeOK'
  BY <1>1, <1>2, <1>4 DEF TypeOK, PC
<1>6. StoredShape' /\ BatchInv' /\ Countable'
  BY <1>1, QuietStep
<1>7. KeyInv'
  BY <1>1 DEF KeyInv, Submitting
<1>8. BookInv'
  BY <1>1 DEF BookInv, IsFilled
<1> QED
  BY <1>5, <1>6, <1>7, <1>8

LEMMA AppendStep ==
  ASSUME OMSInv, AppendLedger
  PROVE  OMSInv'
<1> USE DEF OMSInv
<1>1. /\ pc = "append" /\ ledger' = ledger \cup {Fill(c) : c \in report} /\ report' = {}
      /\ pc' = "idle"
      /\ UNCHANGED <<orders, events, keys, fills, applied, cycle, terms, planned, cancels,
                     runs, todo, tokens, attempt, draft, sent, lost>>
  BY DEF AppendLedger, plan, batch, Goto
<1>2. cycle \in 1..MaxCycle /\ cycle \in Nat
  BY <1>1, OMSAssumption DEF TypeOK, OMSAssumption
<1>3. \A c \in report : Fill(c) \in FillId /\ Fill(c) = <<cycle, c>>
  BY <1>2 DEF Fill, FillId, TypeOK
<1>4. TypeOK'
  BY <1>1, <1>3 DEF TypeOK, PC
<1>5. StoredShape' /\ BatchInv' /\ Countable'
  BY <1>1, QuietStep
<1>6. KeyInv'
  BY <1>1 DEF KeyInv, Submitting
<1>7. BookInv'
  <2>1. \A c : IsFilled(c)' <=> IsFilled(c)
    BY <1>1 DEF IsFilled
  <2>2. \A f \in ledger' : IsFilled(f[2])' /\ Owner[f[2]] <= f[1] /\ f[1] <= cycle'
    <3> SUFFICES ASSUME NEW f \in ledger'
                 PROVE  IsFilled(f[2]) /\ Owner[f[2]] <= f[1] /\ f[1] <= cycle
      BY <1>1, <2>1
    <3>1. CASE f \in ledger
      BY <3>1 DEF BookInv
    <3>2. CASE \E c \in report : f = Fill(c)
      BY <3>2, <1>2, <1>3 DEF BookInv
    <3> QED BY <1>1, <3>1, <3>2
  <2>3. ASSUME NEW f \in ledger', NEW g \in ledger', f[2] = g[2]
        PROVE  f = g
    <3>1. \A h \in ledger : h = <<h[1], h[2]>>
      BY DEF TypeOK, FillId
    <3>2. ASSUME NEW c \in report, NEW h \in ledger, h[2] = c PROVE h = Fill(c)
      <4>1. h[1] = cycle
        BY <3>2 DEF BookInv
      <4> QED BY <3>1, <3>2, <4>1 DEF Fill
    <3>3. \A c \in report : Fill(c)[2] = c
      BY <1>3
    <3> QED BY <1>1, <2>3, <3>2, <3>3 DEF BookInv
  <2>4. \A c \in Cid : IsFilled(c)' /\ c \notin lost' /\ c \notin report'
                         => \E f \in ledger' : f[2] = c
    BY <1>1, <1>3, <2>1 DEF BookInv
  <2> QED BY <1>1, <2>2, <2>3, <2>4 DEF BookInv
<1> QED
  BY <1>4, <1>5, <1>6, <1>7

LEMMA DieStep ==
  ASSUME OMSInv, CycleDies
  PROVE  OMSInv'
<1> USE DEF OMSInv
<1>1. /\ lost' = lost \cup {c \in Cid : IsFilled(c) /\ Booked(c) = {}}
      /\ Batch({}) /\ report' = {} /\ pc' = "idle"
      /\ UNCHANGED <<orders, events, keys, fills, applied, ledger, cycle, terms, planned, cancels,
                     runs, sent>>
  BY DEF CycleDies, tables, plan, Goto
<1>2. TypeOK'
  <2>1. todo' = {} /\ tokens' = Burst /\ attempt' = 1 /\ draft' = [c \in Cid |-> None]
    BY <1>1 DEF Batch
  <2>2. /\ tokens' \in 0..Burst /\ attempt' \in 1..MaxAttempts
        /\ draft' \in [Cid -> Draft \cup {None}]
    BY <2>1, OMSAssumption DEF OMSAssumption
  <2> QED BY <1>1, <2>1, <2>2 DEF TypeOK, PC
<1>3. StoredShape'
  <2>1. cycle' >= cycle /\ cycle \in Nat /\ cycle' \in Nat
    BY <1>1, OMSAssumption DEF OMSAssumption, TypeOK
  <2> QED BY <1>1, <2>1, StoredShapeStays
<1>4. BatchInv'
  <2>1. \A c \in planned' : Owner[c] = cycle'
    BY <1>1 DEF BatchInv
  <2> QED BY <1>1, <2>1, FreshBatch
<1>5. KeyInv'
  BY <1>1 DEF KeyInv, Submitting
<1>6. BookInv'
  <2>1. \A c : IsFilled(c)' <=> IsFilled(c)
    BY <1>1 DEF IsFilled
  <2> QED BY <1>1, <2>1 DEF BookInv, Booked
<1>7. Countable'
  BY <1>1 DEF Countable
<1> QED
  BY <1>2, <1>3, <1>4, <1>5, <1>6, <1>7

LEMMA OMSInvInit == Init => OMSInv
<1> SUFFICES ASSUME Init PROVE OMSInv
  OBVIOUS
<1>1. TypeOK
  BY OMSAssumption DEF OMSAssumption, Init, TypeOK, PC
<1>2. StoredShape
  BY DEF Init, StoredShape, Untouched, Happened
<1>3. BatchInv
  BY DEF Init, BatchInv
<1>4. KeyInv
  BY DEF Init, KeyInv, Submitting
<1>5. BookInv
  BY DEF Init, BookInv, IsFilled
<1>6. Countable
  BY FS_EmptySet DEF Init, Countable
<1> QED
  BY <1>1, <1>2, <1>3, <1>4, <1>5, <1>6 DEF OMSInv

LEMMA OMSInvStep == OMSInv /\ [Next]_vars => OMSInv'
<1> SUFFICES ASSUME OMSInv, [Next]_vars PROVE OMSInv'
  OBVIOUS
<1>1. CASE \E k \in {cycle, cycle + 1} \cap 1..MaxCycle :
            \E S \in SUBSET {c \in Cid : Owner[c] = k} : \E X \in SUBSET S : BeginCycle(k, S, X)
  BY <1>1, BeginStep
<1>2. ASSUME NEW c \in Cid,
             \/ RejectInvalid(c) \/ CancelRequested(c) \/ IgnoreTerminal(c) \/ Throttle(c)
             \/ Conflict(c) \/ IgnoreDuplicate(c)
      PROVE  OMSInv'
  BY <1>2, ProcessStep
<1>3. ASSUME NEW c \in Cid, RegisterKey(c) PROVE OMSInv'
  BY <1>3, RegisterStep
<1>4. ASSUME NEW c \in Cid, GiveUp(c) \/ \E rejects \in BOOLEAN : SubmitAccepted(c, rejects)
      PROVE  OMSInv'
  BY <1>4, SubmitStep
<1>5. CASE SubmitAgain
  BY <1>5, AgainStep
<1>6. CASE (\E v \in Terms : CommitReconciled(v)) \/ CommitPlanned
  BY <1>6, CommitStep
<1>7. CASE SaveFill \/ MarkFillApplied
  BY <1>7, FillStep
<1>8. CASE AppendLedger
  BY <1>8, AppendStep
<1>9. CASE CycleDies
  BY <1>9, DieStep
<1>10. CASE UNCHANGED vars
  <2>1. UNCHANGED <<orders, events, keys, fills, applied, ledger, cycle, terms, planned, cancels,
                    runs, pc, todo, tokens, attempt, draft, report, sent, lost>>
    BY <1>10 DEF vars, tables, batch, plan
  <2>2. TypeOK'
    BY <2>1 DEF OMSInv, TypeOK
  <2>3. StoredShape' /\ BatchInv' /\ Countable'
    BY <2>1, QuietStep DEF OMSInv
  <2>4. KeyInv'
    BY <2>1 DEF OMSInv, KeyInv, Submitting, Untouched
  <2>5. BookInv'
    BY <2>1 DEF OMSInv, BookInv, IsFilled
  <2> QED BY <2>2, <2>3, <2>4, <2>5 DEF OMSInv
<1> QED
  BY <1>1, <1>2, <1>3, <1>4, <1>5, <1>6, <1>7, <1>8, <1>9, <1>10 DEF Next

LEMMA OMSInvariant == Spec => []OMSInv
BY OMSInvInit, OMSInvStep, PTL DEF Spec

-----------------------------------------------------------------------------
(* The theorems *)

(* The tables and the process keep their types (TypeOK), however many      *)
(* orders, cycles and attempts there are.                                  *)
THEOREM OMSTypeCorrect == Spec => []TypeOK
<1>1. OMSInv => TypeOK
  BY DEF OMSInv
<1> QED
  BY <1>1, OMSInvariant, PTL

(* How often the ledger has an order. *)
LEMMA BookedCount ==
  ASSUME OMSInv, NEW c \in Cid
  PROVE  /\ Booked(c) = {} => Cardinality(Booked(c)) = 0
         /\ Booked(c) # {} => (\E f : Booked(c) = {f}) /\ Cardinality(Booked(c)) = 1
<1>1. Booked(c) = {} => Cardinality(Booked(c)) = 0
  BY FS_EmptySet
<1>2. ASSUME NEW f \in Booked(c)
      PROVE  Booked(c) = {f}
  BY <1>2 DEF Booked, OMSInv, BookInv
<1>3. Booked(c) # {} => \E f : Booked(c) = {f}
  BY <1>2
<1> QED
  BY <1>1, <1>3, FS_Singleton

(* A filled order is booked exactly once when the cycle is over, unless a  *)
(* cycle died between the two (FilledIsBooked).                            *)
THEOREM FilledOrdersAreBooked == Spec => []FilledIsBooked
<1>1. OMSInv => FilledIsBooked
  <2> SUFFICES ASSUME OMSInv, NEW c \in Cid
               PROVE  /\ Cardinality(Booked(c)) <= 1
                      /\ Booked(c) # {} => IsFilled(c)
                      /\ pc = "idle" /\ IsFilled(c) /\ c \notin lost => Booked(c) # {}
    BY DEF FilledIsBooked
  <2>1. Cardinality(Booked(c)) \in {0, 1}
    BY BookedCount
  <2>2. Booked(c) # {} => IsFilled(c)
    BY DEF OMSInv, BookInv, Booked
  <2>3. pc = "idle" /\ IsFilled(c) /\ c \notin lost => Booked(c) # {}
    BY DEF OMSInv, BookInv, Booked
  <2> QED BY <2>1, <2>2, <2>3
<1> QED
  BY <1>1, OMSInvariant, PTL

-----------------------------------------------------------------------------
(* The refinement: an accepted submit is Take, a commit Settle, the write  *)
(* to the ledger Book of what was not booked yet; the rest stutters.       *)

LEMMA EndedType ==
  ASSUME TypeOK, NEW c \in Cid
  PROVE  /\ Ended(c) \in {"NONE", "OPEN"} \cup Lifecycle7!Over
         /\ Untouched(c) => Ended(c) \notin Lifecycle7!Over
         /\ Ended(c) = "FILLED" <=> IsFilled(c)
<1>1. orders[c] # None => orders[c].status \in OrderStatus
  BY DEF TypeOK, Order
<1> QED
  BY <1>1 DEF Ended, Lifecycle7!Over, Terminal, OrderStatus, Untouched, IsFilled

LEMMA TakeStep ==
  ASSUME OMSInv, NEW c \in Cid, NEW rejects \in BOOLEAN, SubmitAccepted(c, rejects)
  PROVE  Lifecycle7!Take(c)
<1>1. sent[c] = 0 /\ Untouched(c)
  BY DEF SubmitAccepted, OMSInv, KeyInv
<1>2. Ended(c) \notin Lifecycle7!Over
  BY <1>1, EndedType DEF OMSInv
<1>3. sent' = [sent EXCEPT ![c] = 1]
  BY <1>1 DEF SubmitAccepted
<1>4. UNCHANGED <<orders, ledger>>
  BY DEF SubmitAccepted, Finish
<1>5. UNCHANGED <<[d \in Cid |-> Ended(d)], [d \in Cid |-> Cardinality(Booked(d))]>>
  BY <1>4 DEF Ended, Booked
<1> QED
  BY <1>1, <1>2, <1>3, <1>5 DEF Lifecycle7!Take

LEMMA SettleStep ==
  ASSUME OMSInv, OMSInv', Commit
  PROVE  Lifecycle7!Settle
<1>1. UNCHANGED <<sent, ledger>>
  BY DEF Commit
<1>2. UNCHANGED [c \in Cid |-> Cardinality(Booked(c))]
  BY <1>1 DEF Booked
<1>3. \A c \in Cid : Ended(c)' \in {"NONE", "OPEN"} \cup Lifecycle7!Over
  <2>1. \A c \in Cid : orders'[c] # None => orders'[c].status \in OrderStatus
    BY DEF OMSInv, TypeOK, Order
  <2> QED BY <2>1 DEF Ended, Lifecycle7!Over, Terminal, OrderStatus
<1>4. ASSUME NEW c \in Cid
      PROVE  \/ Ended(c)' = Ended(c)
             \/ Ended(c) \notin Lifecycle7!Over /\ Ended(c)' = "OPEN"
             \/ Ended(c) \notin Lifecycle7!Over /\ Ended(c)' \in {"CANCELED", "REJECTED"}
             \/ Ended(c) \notin Lifecycle7!Over /\ Ended(c)' = "FILLED" /\ sent[c] = 1
  <2>0. Kept(c) \/ Noted(c) \/ Closed(c)
    BY CommitCases
  <2>1. CASE Kept(c)
    BY <2>1 DEF Kept, Ended
  <2>2. CASE Noted(c)
    <3>1. /\ Untouched(c) => orders'[c] = [status |-> "PLANNED", filled |-> 0]
          /\ ~Untouched(c) => orders'[c] = orders[c]
      BY <2>2, FoundPlain DEF Noted, OMSInv
    <3>2. CASE ~Untouched(c)
      BY <3>1, <3>2 DEF Ended
    <3>3. CASE Untouched(c)
      <4>1. orders'[c] # None
        BY <2>2, CommitCases DEF Noted
      <4>2. Ended(c)' = "OPEN"
        BY <3>1, <3>3, <4>1 DEF Ended, Terminal
      <4> QED BY <4>2, <3>3, EndedType DEF OMSInv
    <3> QED BY <3>2, <3>3
  <2>3. CASE Closed(c)
    <3>1. draft[c] # None /\ Untouched(c) /\ orders'[c] = draft[c].o /\ orders'[c].status \in Terminal
      BY <2>3 DEF Closed
    <3>2. orders'[c] # None
      BY <3>1, CommitCases
    <3>3. Ended(c)' = orders'[c].status
      BY <3>1, <3>2 DEF Ended
    <3>4. Ended(c) \notin Lifecycle7!Over /\ ~IsFilled(c)
      BY <3>1, EndedType DEF OMSInv, Untouched, IsFilled
    <3>5. orders'[c].status = "FILLED" => sent[c] = 1
      BY <3>1, <3>4 DEF OMSInv, BatchInv
    <3> QED BY <3>1, <3>3, <3>4, <3>5 DEF Terminal
  <2> QED BY <2>0, <2>1, <2>2, <2>3
<1> QED
  BY <1>1, <1>2, <1>3, <1>4 DEF Lifecycle7!Settle, Lifecycle7!MayBecome

LEMMA BookStep ==
  ASSUME OMSInv, OMSInv', AppendLedger
  PROVE  Lifecycle7!Book({c \in report : Booked(c) = {}}) /\ report \subseteq Cid
<1> DEFINE S == {c \in report : Booked(c) = {}}
<1>1. /\ ledger' = ledger \cup {Fill(c) : c \in report}
      /\ UNCHANGED <<orders, cycle, sent>>
  BY DEF AppendLedger, plan
<1>2. report \subseteq Cid
  BY DEF OMSInv, TypeOK
<1>3. UNCHANGED [c \in Cid |-> Ended(c)]
  BY <1>1 DEF Ended
<1>4. \A c \in S : Ended(c) = "FILLED" /\ Cardinality(Booked(c)) = 0
  BY <1>2, EndedType, BookedCount DEF OMSInv, BookInv
<1>5. ASSUME NEW c \in Cid
      PROVE  Cardinality(Booked(c))' = IF c \in S THEN 1 ELSE Cardinality(Booked(c))
  <2>0. Booked(c)' = {f \in ledger' : f[2] = c}
    BY DEF Booked
  <2>1. \A d \in report : Fill(d) = <<cycle, d>> /\ Fill(d)[2] = d
    BY DEF Fill
  <2>2. CASE c \in S
    <3>1. Booked(c)' = {Fill(c)}
      BY <2>0, <2>1, <2>2, <1>1 DEF Booked
    <3> QED BY <3>1, <2>2, FS_Singleton
  <2>3. CASE c \notin S
    <3>1. Booked(c)' = Booked(c)
      <4>1. CASE c \notin report
        BY <4>1, <2>0, <2>1, <1>1 DEF Booked
      <4>2. CASE c \in report
        <5>1. PICK f \in ledger : f[2] = c
          BY <2>3, <4>2 DEF Booked
        <5>2. f[1] = cycle /\ f = <<f[1], f[2]>>
          BY <4>2, <5>1 DEF OMSInv, BookInv, TypeOK, FillId
        <5>3. Fill(c) \in ledger
          BY <5>1, <5>2 DEF Fill
        <5> QED BY <5>3, <2>0, <2>1, <1>1 DEF Booked
      <4> QED BY <4>1, <4>2
    <3> QED BY <3>1, <2>3
  <2> QED BY <2>2, <2>3
<1>6. [c \in Cid |-> Cardinality(Booked(c))]' =
        [c \in Cid |-> IF c \in S THEN 1 ELSE Cardinality(Booked(c))]
  BY <1>5
<1> QED
  BY <1>1, <1>2, <1>3, <1>4, <1>6 DEF Lifecycle7!Book

LEMMA LifecycleStep == OMSInv /\ OMSInv' /\ [Next]_vars => [Lifecycle7!Step]_(Lifecycle7!lifecycleVars)
<1> SUFFICES ASSUME OMSInv, OMSInv', [Next]_vars PROVE [Lifecycle7!Step]_(Lifecycle7!lifecycleVars)
  OBVIOUS
<1>1. ASSUME NEW c \in Cid, NEW rejects \in BOOLEAN, SubmitAccepted(c, rejects)
      PROVE  Lifecycle7!Step
  BY <1>1, TakeStep DEF Lifecycle7!Step
<1>2. CASE (\E v \in Terms : CommitReconciled(v)) \/ CommitPlanned
  <2>1. Commit
    BY <1>2 DEF CommitReconciled, CommitPlanned
  <2> QED BY <2>1, SettleStep DEF Lifecycle7!Step
<1>3. CASE AppendLedger
  <2>1. {c \in report : Booked(c) = {}} \in SUBSET Cid
    BY <1>3, BookStep
  <2> QED BY <1>3, <2>1, BookStep DEF Lifecycle7!Step
<1>4. ASSUME UNCHANGED <<orders, ledger, sent>>
      PROVE  UNCHANGED Lifecycle7!lifecycleVars
  BY <1>4 DEF Lifecycle7!lifecycleVars, Ended, Booked
<1>5. ASSUME NEW c \in Cid,
             \/ RejectInvalid(c) \/ CancelRequested(c) \/ IgnoreTerminal(c) \/ Throttle(c)
             \/ Conflict(c) \/ IgnoreDuplicate(c) \/ RegisterKey(c) \/ GiveUp(c)
      PROVE  UNCHANGED <<orders, ledger, sent>>
  BY <1>5 DEF RejectInvalid, CancelRequested, IgnoreTerminal, Throttle, Conflict,
       IgnoreDuplicate, RegisterKey, GiveUp, Finish
<1>6. ASSUME NEW k, NEW S, NEW X, BeginCycle(k, S, X)
      PROVE  UNCHANGED <<orders, ledger, sent>>
  BY <1>6 DEF BeginCycle, tables
<1>7. ASSUME SubmitAgain \/ SaveFill \/ MarkFillApplied \/ CycleDies \/ UNCHANGED vars
      PROVE  UNCHANGED <<orders, ledger, sent>>
  BY <1>7 DEF SubmitAgain, SaveFill, MarkFillApplied, CycleDies, tables, vars
<1> QED
  BY <1>1, <1>2, <1>3, <1>4, <1>5, <1>6, <1>7 DEF Next

(* Order management implements the life of an order (ImplementsLifecycle): *)
(* whatever is offered again, retried, throttled or lost in a crash, the   *)
(* adapter takes an order at most once, an order that is over stays, and   *)
(* the ledger has a fill once.                                             *)
THEOREM OrdersFollowLifecycle == Spec => ImplementsLifecycle
<1>1. Init => Lifecycle7!Start
  <2> SUFFICES ASSUME Init PROVE Lifecycle7!Start
    OBVIOUS
  <2>1. \A c \in Cid : Ended(c) = "NONE"
    BY DEF Init, Ended
  <2>2. \A c \in Cid : Cardinality(Booked(c)) = 0
    <3>1. \A c \in Cid : Booked(c) = {}
      BY DEF Init, Booked
    <3> QED BY <3>1, FS_EmptySet
  <2> QED BY <2>1, <2>2 DEF Init, Lifecycle7!Start
<1> QED
  BY <1>1, LifecycleStep, OMSInvariant, PTL DEF Spec, ImplementsLifecycle, Lifecycle7!LifecycleSpec

-----------------------------------------------------------------------------
(* The two tables tell the same story *)

(* Numbered events whose numbers are 1..n are n in number. *)
LEMMA CountByNumber ==
  ASSUME NEW E \in SUBSET (Nat \X EventType), NEW n \in Nat,
         \A e, f \in E : e[1] = f[1] => e = f, {e[1] : e \in E} = 1..n
  PROVE  Cardinality(E) = n
<1> DEFINE g == [k \in 1..n |-> CHOOSE e \in E : e[1] = k]
<1>1. \A k \in 1..n : \E e \in E : e[1] = k
  OBVIOUS
<1>2. \A k \in 1..n : g[k] \in E /\ g[k][1] = k
  BY <1>1
<1>3. \A e \in E : e[1] \in 1..n /\ g[e[1]] = e
  BY <1>2
<1>4. g \in Bijection(1..n, E)
  <2>1. g \in [1..n -> E]
    BY <1>2
  <2>2. \A j, k \in 1..n : g[j] = g[k] => j = k
    BY <1>2
  <2>3. \A e \in E : \E k \in 1..n : g[k] = e
    BY <1>3
  <2> HIDE DEF g
  <2> QED BY <2>1, <2>2, <2>3 DEF Bijection, Injection, Surjection, IsInjective
<1>5. IsFiniteSet(1..n) /\ Cardinality(1..n) = n
  BY FS_Interval
<1> QED
  BY <1>4, <1>5, FS_Bijection DEF ExistsBijection

(* One order's share of EventsMatchStatus. *)
Matches(c) ==
  /\ {e[1] : e \in events[c]} = 1..Cardinality(events[c])
  /\ \A e, f \in Happened(c) : e[2] = f[2] => e = f
  /\ orders[c] = None => events[c] = {}
  /\ orders[c] # None =>
       IF Happened(c) = {} THEN orders[c] = [status |-> "PLANNED", filled |-> 0]
       ELSE \E e \in Happened(c) :
              /\ \A f \in Happened(c) : f[1] <= e[1]
              /\ orders[c].status = StatusOf(e[2])
              /\ (orders[c].filled = Qty) = (e[2] = "FILLED")

LEMMA CommitNumbers ==
  ASSUME OMSInv, Commit, NEW c \in Cid, draft[c] # None, Matches(c), Numbered(c)
  PROVE  /\ Numbered(c)'
         /\ {e[1] : e \in events'[c]} = 1..Cardinality(events'[c])
<1> DEFINE es == draft[c].es
           n == Cardinality(events[c])
           old == events[c]
           new == events'[c]
<1>1. new = old \cup {<<n + k, es[k]>> : k \in 1..Len(es)}
  BY DEF Commit, Recorded
<1>2. es \in Seq(EventType) /\ Len(es) \in Nat
  BY DEF OMSInv, TypeOK, Draft
<1>3. n \in Nat
  BY FS_CardinalityType DEF OMSInv, Countable
<1>4. {e[1] : e \in old} = 1..n /\ \A e, f \in old : e[1] = f[1] => e = f
  BY DEF Matches, Numbered
<1>5. new \in SUBSET (Nat \X EventType)
  BY CommitEvents
<1> HIDE DEF es, n, old, new
<1>6. \A e \in new : e[1] \in 1..(n + Len(es))
                       /\ (e \in old \/ \E k \in 1..Len(es) : e = <<n + k, es[k]>>)
  <2> SUFFICES ASSUME NEW e \in new
               PROVE  /\ e[1] \in 1..(n + Len(es))
                      /\ e \in old \/ \E k \in 1..Len(es) : e = <<n + k, es[k]>>
    OBVIOUS
  <2>1. CASE e \in old
    <3>1. e[1] \in 1..n
      BY <2>1, <1>4
    <3> QED BY <2>1, <3>1, <1>2, <1>3
  <2>2. ASSUME NEW k \in 1..Len(es), e = <<n + k, es[k]>>
        PROVE  e[1] \in 1..(n + Len(es))
    <3>1. e[1] = n + k
      BY <2>2
    <3> QED BY <3>1, <1>2, <1>3
  <2> QED BY <1>1, <2>1, <2>2
<1>7. ASSUME NEW e \in new, NEW f \in new, e[1] = f[1] PROVE e = f
  <2>1. CASE e \in old /\ f \in old
    BY <2>1, <1>4, <1>7
  <2>2. CASE e \notin old
    <3>1. PICK k \in 1..Len(es) : e = <<n + k, es[k]>>
      BY <2>2, <1>6
    <3>2. f \notin old
      <4>1. f[1] = n + k
        BY <3>1, <1>7
      <4>2. f \in old => f[1] \in 1..n
        BY <1>4
      <4> QED BY <4>1, <4>2, <1>2, <1>3
    <3>3. PICK j \in 1..Len(es) : f = <<n + j, es[j]>>
      BY <3>2, <1>6
    <3> QED BY <3>1, <3>3, <1>2, <1>3, <1>7
  <2>3. CASE f \notin old
    <3>1. PICK k \in 1..Len(es) : f = <<n + k, es[k]>>
      BY <2>3, <1>6
    <3>2. e \notin old
      <4>1. e[1] = n + k
        BY <3>1, <1>7
      <4>2. e \in old => e[1] \in 1..n
        BY <1>4
      <4> QED BY <4>1, <4>2, <1>2, <1>3
    <3>3. PICK j \in 1..Len(es) : e = <<n + j, es[j]>>
      BY <3>2, <1>6
    <3> QED BY <3>1, <3>3, <1>2, <1>3, <1>7
  <2> QED BY <2>1, <2>2, <2>3
<1>8. {e[1] : e \in new} = 1..(n + Len(es))
  <2>1. \A k \in 1..n : \E e \in new : e[1] = k
    BY <1>1, <1>4
  <2>2. ASSUME NEW k \in 1..(n + Len(es)), k > n PROVE \E e \in new : e[1] = k
    <3>1. k - n \in 1..Len(es) /\ n + (k - n) = k
      BY <2>2, <1>2, <1>3
    <3>2. <<n + (k - n), es[k - n]>> \in new
      BY <3>1, <1>1
    <3> QED BY <3>1, <3>2
  <2>3. \A k \in 1..(n + Len(es)) : k \in 1..n \/ k > n
    BY <1>2, <1>3
  <2> QED BY <1>6, <2>1, <2>2, <2>3
<1>9. Cardinality(new) = n + Len(es)
  <2>1. n + Len(es) \in Nat
    BY <1>2, <1>3
  <2> QED BY <2>1, <1>5, <1>7, <1>8, CountByNumber
<1> QED
  BY <1>7, <1>8, <1>9 DEF Numbered, new

LEMMA CommitMatches ==
  ASSUME OMSInv, OMSInv', Commit, NEW c \in Cid, Matches(c), Numbered(c)
  PROVE  Matches(c)' /\ Numbered(c)'
<1>1. CASE draft[c] = None
  <2>1. orders'[c] = orders[c] /\ events'[c] = events[c]
    BY <1>1, CommitCases DEF Kept, Noted, Closed
  <2> QED BY <2>1 DEF Matches, Numbered, Happened
<1>2. CASE draft[c] # None
  <2> DEFINE w == draft[c]
             n == Cardinality(events[c])
             old == Happened(c)
             new == Happened(c)'
  <2>1. /\ Numbered(c)'
        /\ {e[1] : e \in events'[c]} = 1..Cardinality(events'[c])
    BY <1>2, CommitNumbers
  <2>2. events'[c] = events[c] \cup {<<n + k, w.es[k]>> : k \in 1..Len(w.es)}
    BY <1>2 DEF Commit, Recorded
  <2>3. Good(c, w) /\ w \in Draft /\ w.o = orders'[c] /\ orders'[c] # None
    BY <1>2, CommitCases DEF OMSInv, BatchInv, Good
  <2>4. n \in Nat /\ Len(w.es) \in Nat
    BY <2>3, FS_CardinalityType DEF OMSInv, Countable, Draft
  <2>5. /\ new = {e \in events'[c] : e[2] \in Lifecycle}
        /\ old = {e \in events[c] : e[2] \in Lifecycle}
        /\ \A e \in old : e[2] \in Seen(c)
    BY DEF Happened, Seen
  <2>6. /\ \A e, f \in old : e[2] = f[2] => e = f
        /\ orders[c] # None =>
             IF old = {} THEN orders[c] = [status |-> "PLANNED", filled |-> 0]
             ELSE \E e \in old :
                    /\ \A f \in old : f[1] <= e[1]
                    /\ orders[c].status = StatusOf(e[2])
                    /\ (orders[c].filled = Qty) = (e[2] = "FILLED")
    BY DEF Matches
  <2>7. Untouched(c) => old = {}
    BY DEF OMSInv, StoredShape
  <2> HIDE DEF w, n, old, new
  <2>8. \A e \in new : \/ e \in old
                       \/ \E k \in 1..Len(w.es) : e = <<n + k, w.es[k]>> /\ w.es[k] \in Lifecycle
    BY <2>2, <2>5
  <2>9. ASSUME NEW e \in new, NEW f \in new, e[2] = f[2] PROVE e = f
    <3>0. \A k \in 1..Len(w.es) : w.es[k] \in Lifecycle =>
             /\ w.es[k] \notin Seen(c)
             /\ \A j \in 1..Len(w.es) : w.es[j] = w.es[k] => j = k
      BY <2>3 DEF Good, Fresh
    <3>1. CASE e \in old /\ f \in old
      BY <3>1, <2>6, <2>9
    <3>2. CASE e \notin old
      <4>1. PICK k \in 1..Len(w.es) : e = <<n + k, w.es[k]>> /\ w.es[k] \in Lifecycle
        BY <3>2, <2>8
      <4>2. f \notin old
        BY <4>1, <3>0, <2>5, <2>9
      <4>3. PICK j \in 1..Len(w.es) : f = <<n + j, w.es[j]>>
        BY <4>2, <2>8
      <4> QED BY <4>1, <4>3, <3>0, <2>9
    <3>3. CASE f \notin old
      <4>1. PICK k \in 1..Len(w.es) : f = <<n + k, w.es[k]>> /\ w.es[k] \in Lifecycle
        BY <3>3, <2>8
      <4>2. e \notin old
        BY <4>1, <3>0, <2>5, <2>9
      <4>3. PICK j \in 1..Len(w.es) : e = <<n + j, w.es[j]>>
        BY <4>2, <2>8
      <4> QED BY <4>1, <4>3, <3>0, <2>9
    <3> QED BY <3>1, <3>2, <3>3
  <2>10. IF new = {} THEN orders'[c] = [status |-> "PLANNED", filled |-> 0]
         ELSE \E e \in new :
                /\ \A f \in new : f[1] <= e[1]
                /\ orders'[c].status = StatusOf(e[2])
                /\ (orders'[c].filled = Qty) = (e[2] = "FILLED")
    <3>1. CASE (\A k \in 1..Len(w.es) : w.es[k] \notin Lifecycle) /\ w.o = Found(c).o
      <4>1. new = old
        BY <3>1, <2>2, <2>5, <2>8
      <4>2. CASE Untouched(c)
        <5>1. orders'[c] = [status |-> "PLANNED", filled |-> 0]
          BY <4>2, <3>1, <2>3, FoundPlain DEF OMSInv
        <5> QED BY <5>1, <4>1, <4>2, <2>7
      <4>3. CASE ~Untouched(c)
        <5>1. orders'[c] = orders[c] /\ orders[c] # None
          BY <4>3, <3>1, <2>3, FoundPlain DEF OMSInv, Untouched
        <5> QED BY <5>1, <4>1, <2>6
      <4> QED BY <4>2, <4>3
    <3>2. CASE Untouched(c) /\ \E k \in 1..Len(w.es) : LastOf(w, k)
      <4>1. PICK k \in 1..Len(w.es) : LastOf(w, k)
        BY <3>2
      <4>2. /\ w.es[k] \in Lifecycle /\ w.o.status = StatusOf(w.es[k])
            /\ (w.o.filled = Qty) = (w.es[k] = "FILLED")
            /\ \A j \in 1..Len(w.es) : w.es[j] \in Lifecycle => j <= k
        BY <4>1 DEF LastOf
      <4> DEFINE e == <<n + k, w.es[k]>>
      <4>3. e \in new /\ e[1] = n + k /\ e[2] = w.es[k]
        BY <4>2, <2>2, <2>5
      <4>4. \A f \in new : f[1] <= n + k
        <5> SUFFICES ASSUME NEW f \in new PROVE f[1] <= n + k
          OBVIOUS
        <5>1. PICK j \in 1..Len(w.es) : f = <<n + j, w.es[j]>> /\ w.es[j] \in Lifecycle
          BY <3>2, <2>7, <2>8
        <5> QED BY <5>1, <4>2, <2>4
      <4> QED BY <4>2, <4>3, <4>4, <2>3
    <3> QED BY <3>1, <3>2, <2>3 DEF Good
  <2> QED BY <2>1, <2>3, <2>9, <2>10 DEF Matches, new
<1> QED
  BY <1>1, <1>2

LEMMA MatchesStep ==
  ASSUME OMSInv, OMSInv', [Next]_vars, \A c \in Cid : Matches(c) /\ Numbered(c)
  PROVE  (\A c \in Cid : Matches(c) /\ Numbered(c))'
<1>1. CASE Commit
  BY <1>1, CommitMatches
<1>2. CASE UNCHANGED <<orders, events>>
  BY <1>2 DEF Matches, Numbered, Happened
<1>3. Commit \/ UNCHANGED <<orders, events>>
  <2>1. ASSUME NEW c \in Cid,
               \/ RejectInvalid(c) \/ CancelRequested(c) \/ IgnoreTerminal(c) \/ Throttle(c)
               \/ Conflict(c) \/ IgnoreDuplicate(c) \/ RegisterKey(c) \/ GiveUp(c)
               \/ \E rejects \in BOOLEAN : SubmitAccepted(c, rejects)
        PROVE  UNCHANGED <<orders, events>>
    BY <2>1 DEF RejectInvalid, CancelRequested, IgnoreTerminal, Throttle, Conflict,
         IgnoreDuplicate, RegisterKey, GiveUp, SubmitAccepted, Finish
  <2>2. ASSUME NEW k, NEW S, NEW X, BeginCycle(k, S, X)
        PROVE  UNCHANGED <<orders, events>>
    BY <2>2 DEF BeginCycle, tables
  <2>3. ASSUME SubmitAgain \/ SaveFill \/ MarkFillApplied \/ AppendLedger \/ CycleDies
               \/ UNCHANGED vars
        PROVE  UNCHANGED <<orders, events>>
    BY <2>3 DEF SubmitAgain, SaveFill, MarkFillApplied, AppendLedger, CycleDies, tables, vars
  <2>4. ASSUME (\E v \in Terms : CommitReconciled(v)) \/ CommitPlanned
        PROVE  Commit
    BY <2>4 DEF CommitReconciled, CommitPlanned
  <2> QED BY <2>1, <2>2, <2>3, <2>4 DEF Next
<1> QED
  BY <1>1, <1>2, <1>3

(* Rows and events agree over any number of batches, crashes and reruns    *)
(* (EventsMatchStatus): numbers without a gap, no lifecycle event twice,   *)
(* and the status of the last one.                                         *)
THEOREM EventsTellTheStatus == Spec => []EventsMatchStatus
<1> DEFINE All == \A c \in Cid : Matches(c) /\ Numbered(c)
<1>1. Init => All
  <2> SUFFICES ASSUME Init, NEW c \in Cid PROVE Matches(c) /\ Numbered(c)
    OBVIOUS
  <2>1. events[c] = {} /\ orders[c] = None /\ Happened(c) = {}
    BY DEF Init, Happened
  <2>2. Cardinality(events[c]) = 0
    BY <2>1, FS_EmptySet
  <2> QED BY <2>1, <2>2 DEF Matches, Numbered
<1>2. OMSInv /\ OMSInv' /\ All /\ [Next]_vars => All'
  BY MatchesStep
<1>3. All => EventsMatchStatus
  BY DEF EventsMatchStatus, Matches
<1> HIDE DEF All
<1> QED
  BY <1>1, <1>2, <1>3, OMSInvariant, PTL DEF Spec
=============================================================================
