------------------------ MODULE HttpTransportProofs ------------------------
(* Theorems about HttpTransport: its types, the budget of the limiter, the *)
(* orders of a submit call and the age of bids that are called fresh, for   *)
(* every set of threads, every workload and every limit.                    *)
EXTENDS HttpTransport, TLAPS

------------------------------------------------------------------------------
(* The inductive invariant. *)

At == {"idle", "book", "future", "client", "event", "woken", "got", "failed", "answered",
       "raised", "gate", "token", "wire", "backoff", "served"}

\* Where a thread is inside a request path, between two attempts or in one.
Between == {"gate", "token", "backoff"}
Requesting == Between \cup {"wire"}

Call == [op : Op, at : At, kind : Kind, todo : SUBSET Key, key : Key \cup {Nobody},
         att : Nat, slept : Nat, wait : Nat, ldr : Thread \cup {Nobody}, own : BOOLEAN,
         usable : BOOLEAN, joined : BOOLEAN, val : Nat \cup {Absent}, old : Nat, age : Nat,
         fresh : BOOLEAN, orders : Nat, unsure : Nat]

\* The age a book may have when the client hands it over: the last age at
\* which its cache still answers.
Lag == IF ClientTTL > 0 THEN ClientTTL - 1 ELSE 0

\* An attempt is counted when it gets its token, and the count starts again
\* with every request path.
Counted(me) ==
  /\ me.att <= Attempts /\ me.slept <= SleepCap
  /\ me.at \in Between => me.att < Attempts
  /\ me.at \notin Requesting => me.att = 0

\* Only a write places orders, at most one in an attempt; when it goes on to
\* another attempt, each order it may have placed is behind an unsure answer.
Placed(me) ==
  /\ me.orders <= Attempts /\ me.orders <= 1 + me.unsure
  /\ me.op \in {"bids", "top"} => me.orders = 0
  /\ me.at \in Requesting /\ me.kind \in {"public", "read"} => me.orders = 0
  /\ me.at \in Requesting /\ me.kind \in {"write", "awrite"} =>
       /\ me.orders <= me.unsure
       /\ me.orders <= IF me.at = "wire" THEN me.att - 1 ELSE me.att

\* The oldest book of a call that fetched for itself is as old as the stalest
\* the provider may serve, plus the client's lag, plus the time of the call.
Dated(me) ==
  /\ me.at \in {"book", "future"} => me.op = "bids"
  /\ me.at \in {"client", "event", "woken"} => me.op \in {"bids", "top"} /\ me.key \in Key
  /\ me.at = "future" => me.joined /\ ~me.own
  /\ me.at \in {"got", "answered"} => me.val \in 0 .. Lag
  /\ me.own => me.op = "bids" /\ me.key \in Key /\ me.at \notin {"idle", "book", "served"}
  /\ me.fresh => me.at = "served" /\ me.op = "bids" /\ me.age <= MaxAge
  /\ me.op = "bids" /\ ~me.joined /\ me.age <= MaxAge => me.old <= MaxStale + Lag + me.age

Sound(me) == me \in Call /\ Counted(me) /\ Placed(me) /\ Dated(me)

\* A cached order book, of the client and of the provider.
Slot == [left : 0 .. ClientTTL, age : 0 .. OldAge]
Book == [age : 0 .. OldAge, lag : 0 .. Lag]

\* The book an owner would fall back on is there, and was young enough when
\* its call began.
Backed(me, b) ==
  me.own /\ me.usable =>
    /\ b[me.key] \in Book
    /\ me.age <= MaxAge => b[me.key].age <= MaxStale + me.age

CacheInv ==
  /\ cached \in [Key -> Slot \cup {Absent}]
  /\ \A k \in Key : cached[k] # Absent => cached[k].age + cached[k].left <= ClientTTL
  /\ books \in [Key -> Book \cup {Absent}]
  /\ inflight \in [Key -> Thread \cup {Nobody}]
  /\ flight \in [Key -> Thread \cup {Nobody}]

\* The lazily refilled bucket holds, once refilled, at most the ideal credit.
Bucket == [tokens : 0 .. Burst, since : 0 .. Burst, cooldown : Nat]
BudgetInv ==
  /\ bucket \in [Group -> Bucket]
  /\ credit \in [Group -> Int]
  /\ \A g \in Group : Refill(bucket[g]).tokens <= credit[g]

BreakerInv == breaker \in [Group -> [run : 0 .. Trip, open : Nat]]

CallInv ==
  /\ th \in [Thread -> Call]
  /\ \A t \in Thread : Sound(th[t])
FallbackInv == \A t \in Thread : Backed(th[t], books)

TransportInv == BudgetInv /\ BreakerInv /\ CacheInv /\ CallInv /\ FallbackInv

------------------------------------------------------------------------------
(* Records of a call: what the steps of a thread make of them. *)

LEMMA LagFacts == Lag \in Nat /\ Lag <= OldAge /\ OldAge \in Nat
  BY CacheIsValid DEF Lag, OldAge

LEMMA IdleIsSound == Sound(Idle) /\ ~Idle.own
<1>1. Idle \in Call
  BY DEF Call, Idle, At, Op, Kind
<1>2. Counted(Idle)
  BY RetryIsValid DEF Counted, Idle, Between, Requesting
<1>3. Placed(Idle)
  BY RetryIsValid DEF Placed, Idle, Between, Requesting
<1>4. Dated(Idle)
  BY CacheIsValid, LagFacts DEF Dated, Idle
<1> QED
  BY <1>1, <1>2, <1>3, <1>4 DEF Sound, Idle

LEMMA BegunIsSound ==
  ASSUME NEW op \in Op, NEW at \in {"book", "client", "gate"}, at = "book" => op = "bids",
         NEW kind \in Kind, NEW todo \in SUBSET Key, NEW key \in Key \cup {Nobody},
         at = "client" => op = "top" /\ key \in Key
  PROVE  LET me == [Idle EXCEPT !.op = op, !.at = at, !.kind = kind, !.todo = todo,
                                !.key = key]
         IN Sound(me) /\ ~me.own
<1> DEFINE me == [Idle EXCEPT !.op = op, !.at = at, !.kind = kind, !.todo = todo,
                              !.key = key]
<1>1. at \in At /\ Idle \in Call
  BY IdleIsSound DEF At, Sound
<1>2. /\ me \in Call
      /\ me.op = op /\ me.at = at /\ me.kind = kind /\ me.key = key
      /\ me.att = Idle.att /\ me.slept = Idle.slept /\ me.own = Idle.own
      /\ me.old = Idle.old /\ me.age = Idle.age /\ me.fresh = Idle.fresh
      /\ me.orders = Idle.orders /\ me.unsure = Idle.unsure
  BY <1>1 DEF Call
<1> HIDE DEF me
<1>3. /\ me.att = 0 /\ me.slept = 0 /\ ~me.own /\ me.old = 0 /\ me.age = 0 /\ ~me.fresh
      /\ me.orders = 0 /\ me.unsure = 0
  BY <1>2 DEF Idle
<1>5. Counted(me)
  BY <1>2, <1>3, RetryIsValid DEF Counted, Between, Requesting
<1>6. Placed(me)
  BY <1>2, <1>3, RetryIsValid DEF Placed, Between, Requesting
<1>7. Dated(me)
  BY <1>2, <1>3, CacheIsValid, LagFacts DEF Dated
<1>8. Sound(me) /\ ~me.own
  BY <1>2, <1>3, <1>5, <1>6, <1>7 DEF Sound
<1> QED
  BY <1>8 DEF me

\* The fallback of an owner is not touched by a step that keeps its key, its
\* age and its claim.
Keeps(me, was) ==
  me.own => was.own /\ (me.usable => was.usable) /\ me.key = was.key /\ me.age = was.age

LEMMA KeptIsBacked ==
  ASSUME NEW me, NEW was, NEW b, Keeps(me, was), Backed(was, b)
  PROVE  Backed(me, b)
  BY DEF Keeps, Backed

\* The end of a call.
LEMMA OverIsSound ==
  ASSUME NEW was \in Call, was.orders <= Attempts, was.orders <= 1 + was.unsure,
         was.op \in {"bids", "top"} => was.orders = 0
  PROVE  Sound(Over(was)) /\ ~Over(was).own
<1> DEFINE me == Over(was)
<1>1. Idle \in Call
  BY IdleIsSound DEF Sound
<1>2. /\ me \in Call
      /\ me.op = was.op /\ me.at = "served" /\ me.kind = Idle.kind
      /\ me.att = Idle.att /\ me.slept = Idle.slept /\ me.own = Idle.own
      /\ me.old = Idle.old /\ me.age = Idle.age /\ me.fresh = Idle.fresh
      /\ me.orders = was.orders /\ me.unsure = was.unsure
  BY <1>1 DEF Call, Over, At
<1> HIDE DEF me
<1>3. me.att = 0 /\ me.slept = 0 /\ ~me.own /\ me.old = 0 /\ me.age = 0 /\ ~me.fresh
  BY <1>2 DEF Idle
<1>4. was.orders \in Nat /\ was.unsure \in Nat
  BY DEF Call
<1>5. Counted(me)
  BY <1>2, <1>3, RetryIsValid DEF Counted, Between, Requesting
<1>6. Placed(me)
  BY <1>2, <1>4 DEF Placed, Between, Requesting
<1>7. Dated(me)
  BY <1>2, <1>3, CacheIsValid, LagFacts DEF Dated
<1>8. Sound(me) /\ ~me.own
  BY <1>2, <1>3, <1>5, <1>6, <1>7 DEF Sound
<1> QED
  BY <1>8 DEF me

\* The book of k is in hand: it is no older than the call allows.
LEMMA CollectedIsSound ==
  ASSUME NEW was, Sound(was), was.op = "bids", NEW k \in Key, NEW a \in Nat,
         ~was.joined /\ was.age <= MaxAge => a <= MaxStale + Lag + was.age
  PROVE  Sound(Collected(was, k, a)) /\ ~Collected(was, k, a).own
<1> DEFINE me == Collected(was, k, a)
           fresh == was.todo \ {k} = {} /\ was.age <= MaxAge
           at == IF was.todo \ {k} = {} THEN "served" ELSE "book"
           old == Larger(was.old, a)
           todo == was.todo \ {k}
<1>1. /\ was \in Call /\ was.todo \in SUBSET Key /\ was.orders \in Nat /\ was.unsure \in Nat
      /\ was.old \in Nat /\ was.age \in Nat
  BY DEF Sound, Call
<1>2. /\ fresh \in BOOLEAN /\ (fresh => was.age <= MaxAge /\ at = "served")
      /\ at \in {"served", "book"}
      /\ old \in Nat /\ (old = was.old \/ old = a) /\ todo \in SUBSET Key
  BY <1>1 DEF Larger
<1>3. me = [was EXCEPT !.todo = todo, !.key = Nobody, !.own = FALSE, !.val = Absent,
              !.att = 0, !.slept = 0, !.ldr = Nobody, !.usable = FALSE,
              !.old = old, !.fresh = fresh, !.at = at]
  BY <1>1 DEF Collected, Call
<1> HIDE DEF fresh, at, old, todo, me
<1>4. /\ me \in Call
      /\ me.op = was.op /\ me.at = at /\ me.kind = was.kind /\ me.joined = was.joined
      /\ me.att = 0 /\ me.slept = 0 /\ me.own = FALSE
      /\ me.old = old /\ me.age = was.age /\ me.fresh = fresh
      /\ me.orders = was.orders /\ me.unsure = was.unsure
  BY <1>1, <1>2, <1>3 DEF Call, At
<1>5. Counted(me)
  BY <1>2, <1>4, RetryIsValid DEF Counted, Between, Requesting
<1>6. Placed(me)
  BY <1>1, <1>2, <1>4 DEF Placed, Sound, Between, Requesting
<1>7. Dated(me)
  BY <1>1, <1>2, <1>4, CacheIsValid, LagFacts DEF Dated, Sound
<1>8. Sound(me) /\ ~me.own
  BY <1>4, <1>5, <1>6, <1>7 DEF Sound
<1> QED
  BY <1>8 DEF me

\* A call whose request path has just ended: its attempts are done, and its
\* last one may have placed an order without leaving a doubt.
Spent(me) ==
  /\ me \in Call /\ Dated(me) /\ me.at \in {"gate", "wire"}
  /\ me.att <= Attempts /\ me.slept <= SleepCap
  /\ me.orders <= Attempts /\ me.orders <= 1 + me.unsure
  /\ me.op \in {"bids", "top"} => me.orders = 0
  /\ me.kind \in {"public", "read"} => me.orders = 0

LEMMA GateIsSpent ==
  ASSUME NEW me, Sound(me), me.at = "gate"
  PROVE  Spent(me)
  BY DEF Sound, Spent, Placed, Counted, Requesting, Between

\* A request path that starts over with another kind.
LEMMA RestartedIsSound ==
  ASSUME NEW was, Spent(was), NEW kind \in Kind,
         kind = "aread" \/ was.orders = 0
  PROVE  LET me == [was EXCEPT !.at = "gate", !.kind = kind, !.att = 0, !.slept = 0]
         IN Sound(me) /\ Keeps(me, was)
<1> DEFINE me == [was EXCEPT !.at = "gate", !.kind = kind, !.att = 0, !.slept = 0]
<1>1. was \in Call /\ was.orders \in Nat /\ was.unsure \in Nat
  BY DEF Spent, Call
<1>2. /\ me \in Call
      /\ me.op = was.op /\ me.at = "gate" /\ me.kind = kind /\ me.joined = was.joined
      /\ me.att = 0 /\ me.slept = 0 /\ me.own = was.own /\ me.usable = was.usable
      /\ me.old = was.old /\ me.age = was.age /\ me.fresh = was.fresh /\ me.key = was.key
      /\ me.orders = was.orders /\ me.unsure = was.unsure
  BY <1>1 DEF Call, At
<1> HIDE DEF me
<1>5. Counted(me)
  BY <1>2, RetryIsValid DEF Counted, Between, Requesting
<1>6. Placed(me)
  BY <1>1, <1>2 DEF Placed, Spent, Between, Requesting
<1>7. Dated(me)
  BY <1>1, <1>2, CacheIsValid, LagFacts DEF Dated, Spent
<1>8. Sound(me) /\ Keeps(me, was)
  BY <1>2, <1>5, <1>6, <1>7 DEF Sound, Keeps
<1> QED
  BY <1>8 DEF me

\* A request for a book raises into the leader's finally block.
LEMMA BookRaisedIsSound ==
  ASSUME NEW was, Spent(was), was.op \in {"bids", "top"}
  PROVE  LET me == [was EXCEPT !.at = "raised", !.att = 0, !.slept = 0, !.unsure = 0]
         IN Sound(me) /\ Keeps(me, was)
<1> DEFINE me == [was EXCEPT !.at = "raised", !.att = 0, !.slept = 0, !.unsure = 0]
<1>1. was \in Call /\ was.orders = 0
  BY DEF Spent
<1>2. /\ me \in Call
      /\ me.op = was.op /\ me.at = "raised" /\ me.kind = was.kind /\ me.joined = was.joined
      /\ me.att = 0 /\ me.slept = 0 /\ me.own = was.own /\ me.usable = was.usable
      /\ me.old = was.old /\ me.age = was.age /\ me.fresh = was.fresh /\ me.key = was.key
      /\ me.orders = was.orders /\ me.unsure = 0
  BY <1>1 DEF Call, At
<1> HIDE DEF me
<1>5. Counted(me)
  BY <1>2, RetryIsValid DEF Counted, Between, Requesting
<1>6. Placed(me)
  BY <1>1, <1>2, RetryIsValid DEF Placed, Between, Requesting
<1>7. Dated(me)
  BY <1>1, <1>2, CacheIsValid, LagFacts DEF Dated, Spent
<1>8. Sound(me) /\ Keeps(me, was)
  BY <1>2, <1>5, <1>6, <1>7 DEF Sound, Keeps
<1> QED
  BY <1>8 DEF me

\* A request for a book is answered: the book is new.
LEMMA BookAnsweredIsSound ==
  ASSUME NEW was, Spent(was), was.op \in {"bids", "top"}
  PROVE  LET me == [was EXCEPT !.at = "answered", !.val = 0, !.att = 0, !.slept = 0,
                               !.unsure = 0]
         IN Sound(me) /\ Keeps(me, was)
<1> DEFINE me == [was EXCEPT !.at = "answered", !.val = 0, !.att = 0, !.slept = 0,
                             !.unsure = 0]
<1>1. was \in Call /\ was.orders = 0
  BY DEF Spent
<1>2. /\ me \in Call
      /\ me.op = was.op /\ me.at = "answered" /\ me.val = 0 /\ me.joined = was.joined
      /\ me.att = 0 /\ me.slept = 0 /\ me.own = was.own /\ me.usable = was.usable
      /\ me.old = was.old /\ me.age = was.age /\ me.fresh = was.fresh /\ me.key = was.key
      /\ me.orders = was.orders /\ me.unsure = 0
  BY <1>1 DEF Call, At
<1> HIDE DEF me
<1>5. Counted(me)
  BY <1>2, RetryIsValid DEF Counted, Between, Requesting
<1>6. Placed(me)
  BY <1>1, <1>2, RetryIsValid DEF Placed, Between, Requesting
<1>7. Dated(me)
  BY <1>1, <1>2, CacheIsValid, LagFacts DEF Dated, Spent
<1>8. Sound(me) /\ Keeps(me, was)
  BY <1>2, <1>5, <1>6, <1>7 DEF Sound, Keeps
<1> QED
  BY <1>8 DEF me

\* Whatever a spent call raises, and whatever it returns, is sound.
LEMMA RaisedIsSound ==
  ASSUME NEW was, Spent(was), NEW why
  PROVE  Sound(Raised(was, why)) /\ Keeps(Raised(was, why), was)
<1>1. CASE was.op \in {"bids", "top"}
  <2>1. Raised(was, why) = [was EXCEPT !.at = "raised", !.att = 0, !.slept = 0, !.unsure = 0]
    BY <1>1, Zenon DEF Raised
  <2> QED
    BY <1>1, <2>1, BookRaisedIsSound
<1>2. CASE Raised(was, why) = Over(was)
  <2>1. Sound(Over(was)) /\ ~Over(was).own
    BY OverIsSound DEF Spent
  <2> QED
    BY <1>2, <2>1 DEF Keeps
<1>3. CASE /\ was.kind = "public"
           /\ Raised(was, why) = [was EXCEPT !.at = "gate", !.kind = "write", !.att = 0,
                                             !.slept = 0]
  <2>1. was.orders = 0 /\ "write" \in Kind
    BY <1>3 DEF Spent, Kind
  <2> DEFINE me == [was EXCEPT !.at = "gate", !.kind = "write", !.att = 0, !.slept = 0]
  <2>2. Sound(me) /\ Keeps(me, was)
    BY <2>1, RestartedIsSound
  <2> QED
    BY <1>3, <2>2, Zenon
<1>4. CASE Raised(was, why) = [was EXCEPT !.at = "gate", !.kind = "aread", !.att = 0,
                                          !.slept = 0]
  <2>1. "aread" \in Kind
    BY DEF Kind
  <2> DEFINE me == [was EXCEPT !.at = "gate", !.kind = "aread", !.att = 0, !.slept = 0]
  <2>2. Sound(me) /\ Keeps(me, was)
    BY <2>1, RestartedIsSound
  <2> QED
    BY <1>4, <2>2, Zenon
<1> QED
  BY <1>1, <1>2, <1>3, <1>4, Zenon DEF Raised

LEMMA ReturnedIsSound ==
  ASSUME NEW was, Spent(was), NEW me \in Returned(was)
  PROVE  Sound(me) /\ Keeps(me, was)
<1>1. CASE was.op \in {"bids", "top"}
  <2>1. me = [was EXCEPT !.at = "answered", !.val = 0, !.att = 0, !.slept = 0, !.unsure = 0]
    BY <1>1, Zenon DEF Returned
  <2> QED
    BY <1>1, <2>1, BookAnsweredIsSound
<1>2. CASE me = Over(was)
  <2>1. Sound(Over(was)) /\ ~Over(was).own
    BY OverIsSound DEF Spent
  <2> QED
    BY <1>2, <2>1 DEF Keeps
<1>3. CASE /\ was.kind = "public"
           /\ me = [was EXCEPT !.at = "gate", !.kind = "write", !.att = 0, !.slept = 0]
  <2>1. was.orders = 0 /\ "write" \in Kind
    BY <1>3 DEF Spent, Kind
  <2> QED
    BY <1>3, <2>1, RestartedIsSound
<1> QED
  BY <1>1, <1>2, <1>3, Zenon DEF Returned

\* What an attempt may have placed: an order of a submit, if the answer does
\* not exclude it.
MayPlace(me, o, n) ==
  /\ n \in {0, 1}
  /\ n = 1 => /\ me.op \in {"submit", "asubmit"} /\ me.kind \in {"write", "awrite"}
              /\ o \in {"ok", "server", "silence", "malformed"}

LEMMA ExecutedPlaces ==
  ASSUME NEW t, NEW o, NEW n \in Executed(t, o)
  PROVE  MayPlace(th[t], o, n)
  BY DEF Executed, MayPlace

LEMMA TriedFields ==
  ASSUME NEW was \in Call, NEW o, NEW n \in {0, 1}
  PROVE  LET me == Tried(was, o, n) IN
         /\ me \in Call
         /\ me.op = was.op /\ me.at = was.at /\ me.kind = was.kind /\ me.joined = was.joined
         /\ me.att = was.att /\ me.slept = was.slept /\ me.own = was.own
         /\ me.usable = was.usable /\ me.val = was.val
         /\ me.old = was.old /\ me.age = was.age /\ me.fresh = was.fresh /\ me.key = was.key
         /\ me.orders = was.orders + n
         /\ me.unsure \in {was.unsure, was.unsure + 1}
         /\ \/ o = "silence" /\ was.kind \in {"write", "awrite"}
            \/ o = "server" /\ was.kind = "awrite"
            => me.unsure = was.unsure + 1
<1> DEFINE doubt == IF \/ o = "silence" /\ was.kind \in {"write", "awrite"}
                       \/ o = "server" /\ was.kind = "awrite"
                    THEN 1 ELSE 0
           placed == was.orders + n
           unsure == was.unsure + doubt
           me == Tried(was, o, n)
<1>1. /\ doubt \in {0, 1}
      /\ \/ o = "silence" /\ was.kind \in {"write", "awrite"}
         \/ o = "server" /\ was.kind = "awrite"
         => doubt = 1
  OBVIOUS
<1>2. was.orders \in Nat /\ was.unsure \in Nat
  BY DEF Call
<1>3. me = [was EXCEPT !.orders = placed, !.unsure = unsure]
  BY DEF Tried, Call
<1>4. placed \in Nat /\ unsure \in Nat
  BY <1>1, <1>2
<1> HIDE DEF doubt, placed, unsure, me
<1>5. /\ me \in Call
      /\ me.op = was.op /\ me.at = was.at /\ me.kind = was.kind /\ me.joined = was.joined
      /\ me.att = was.att /\ me.slept = was.slept /\ me.own = was.own
      /\ me.usable = was.usable /\ me.val = was.val
      /\ me.old = was.old /\ me.age = was.age /\ me.fresh = was.fresh /\ me.key = was.key
      /\ me.orders = placed /\ me.unsure = unsure
  BY <1>3, <1>4 DEF Call
<1>6. /\ unsure \in {was.unsure, was.unsure + 1}
      /\ \/ o = "silence" /\ was.kind \in {"write", "awrite"}
         \/ o = "server" /\ was.kind = "awrite"
         => unsure = was.unsure + 1
  BY <1>1, <1>2 DEF unsure
<1> QED
  BY <1>5, <1>6 DEF me, placed

LEMMA TriedIsSpent ==
  ASSUME NEW was, Sound(was), was.at = "wire", NEW o, NEW n, MayPlace(was, o, n)
  PROVE  Spent(Tried(was, o, n)) /\ Keeps(Tried(was, o, n), was)
<1> DEFINE me == Tried(was, o, n)
<1>1. /\ was \in Call /\ was.orders \in Nat /\ was.unsure \in Nat /\ was.att \in Nat
      /\ was.kind \in Kind
  BY DEF Sound, Call
<1>2. /\ n \in {0, 1}
      /\ n = 1 => was.op \in {"submit", "asubmit"} /\ was.kind \in {"write", "awrite"}
  BY DEF MayPlace
<1>3. /\ me \in Call
      /\ me.op = was.op /\ me.at = was.at /\ me.kind = was.kind /\ me.joined = was.joined
      /\ me.att = was.att /\ me.slept = was.slept /\ me.own = was.own
      /\ me.usable = was.usable /\ me.val = was.val
      /\ me.old = was.old /\ me.age = was.age /\ me.fresh = was.fresh /\ me.key = was.key
      /\ me.orders = was.orders + n
      /\ me.unsure \in {was.unsure, was.unsure + 1}
  BY <1>1, <1>2, TriedFields
<1> HIDE DEF me
<1>4. me.orders <= Attempts /\ me.orders <= 1 + me.unsure
  BY <1>1, <1>2, <1>3, RetryIsValid DEF Sound, Placed, Counted, Requesting
<1>5. /\ me.op \in {"bids", "top"} => me.orders = 0
      /\ me.kind \in {"public", "read"} => me.orders = 0
  BY <1>1, <1>2, <1>3 DEF Sound, Placed, Requesting
<1>6. Dated(me)
  BY <1>3 DEF Sound, Dated
<1>7. me.at \in {"gate", "wire"} /\ me.att <= Attempts /\ me.slept <= SleepCap
  BY <1>3 DEF Sound, Counted
<1>8. Spent(me) /\ Keeps(me, was)
  BY <1>3, <1>4, <1>5, <1>6, <1>7 DEF Spent, Keeps
<1> QED
  BY <1>8 DEF me

\* The attempt is made again: it placed an order only if it left a doubt.
LEMMA RetriedIsSound ==
  ASSUME NEW was, Sound(was), was.at = "wire", NEW o, NEW n, MayPlace(was, o, n),
         o \in Retried(was.kind), was.att < Attempts, NEW d \in Nat
  PROVE  LET me == [Tried(was, o, n) EXCEPT !.at = "backoff", !.wait = d,
                                            !.slept = Smaller(SleepCap, @ + d)]
         IN Sound(me) /\ Keeps(me, was)
<1> DEFINE mid == Tried(was, o, n)
           slept == Smaller(SleepCap, mid.slept + d)
           me == [mid EXCEPT !.at = "backoff", !.wait = d, !.slept = slept]
<1>1. /\ was \in Call /\ was.orders \in Nat /\ was.unsure \in Nat /\ was.att \in Nat
      /\ was.kind \in Kind /\ was.slept \in Nat
  BY DEF Sound, Call
<1>2. n \in {0, 1}
  BY DEF MayPlace
<1>3. /\ mid \in Call
      /\ mid.op = was.op /\ mid.at = was.at /\ mid.kind = was.kind
      /\ mid.joined = was.joined
      /\ mid.att = was.att /\ mid.slept = was.slept /\ mid.own = was.own
      /\ mid.usable = was.usable /\ mid.val = was.val
      /\ mid.old = was.old /\ mid.age = was.age /\ mid.fresh = was.fresh
      /\ mid.key = was.key /\ mid.orders = was.orders + n
      /\ mid.unsure \in {was.unsure, was.unsure + 1}
      /\ \/ o = "silence" /\ was.kind \in {"write", "awrite"}
         \/ o = "server" /\ was.kind = "awrite"
         => mid.unsure = was.unsure + 1
  BY <1>1, <1>2, TriedFields
<1>4. n = 1 => mid.unsure = was.unsure + 1
  BY <1>3 DEF MayPlace, Retried
<1> HIDE DEF mid
<1>5. slept \in Nat /\ slept <= SleepCap
  BY <1>1, <1>3, RetryIsValid DEF Smaller
<1>6. me = [mid EXCEPT !.at = "backoff", !.wait = d, !.slept = Smaller(SleepCap, @ + d)]
  BY <1>3 DEF Call
<1> HIDE DEF slept
<1>7. /\ me \in Call
      /\ me.op = mid.op /\ me.at = "backoff" /\ me.kind = mid.kind
      /\ me.joined = mid.joined
      /\ me.att = mid.att /\ me.slept = slept /\ me.own = mid.own
      /\ me.usable = mid.usable /\ me.old = mid.old /\ me.age = mid.age
      /\ me.fresh = mid.fresh /\ me.key = mid.key /\ me.orders = mid.orders
      /\ me.unsure = mid.unsure
  BY <1>3, <1>5 DEF Call, At
<1> HIDE DEF me
<1>8. Counted(me)
  BY <1>1, <1>3, <1>5, <1>7, RetryIsValid DEF Counted, Requesting, Between
<1>9. was.kind \in {"write", "awrite"} => was.orders <= was.unsure /\ was.orders <= was.att - 1
  BY DEF Sound, Placed, Requesting
<1>10. /\ was.op \in {"bids", "top"} => mid.orders = 0
       /\ was.kind \in {"public", "read"} => mid.orders = 0
  BY <1>1, <1>2, <1>3 DEF Sound, Placed, Requesting, MayPlace
<1>11. mid.orders <= Attempts /\ mid.orders <= 1 + mid.unsure
  BY <1>1, <1>2, <1>3, <1>4, RetryIsValid DEF Sound, Placed, Counted, Requesting, MayPlace
<1>12. Placed(me)
  BY <1>1, <1>2, <1>3, <1>4, <1>7, <1>9, <1>10, <1>11 DEF Placed, Requesting, Between
<1>13. Dated(me)
  BY <1>3, <1>7 DEF Sound, Dated
<1>14. Sound(me) /\ Keeps(me, was)
  BY <1>3, <1>7, <1>8, <1>12, <1>13 DEF Sound, Keeps
<1> QED
  BY <1>6, <1>14 DEF me, mid

\* A step inside a call that counts, places and collects nothing.
Same(me, was) ==
  /\ me.op = was.op /\ me.kind = was.kind /\ me.joined = was.joined /\ me.att = was.att
  /\ me.slept = was.slept /\ me.own = was.own /\ me.usable = was.usable /\ me.old = was.old
  /\ me.age = was.age /\ me.fresh = was.fresh /\ me.key = was.key
  /\ me.orders = was.orders /\ me.unsure = was.unsure

Elsewhere == {"event", "woken", "got", "failed", "answered", "raised"}

LEMMA MovedIsSound ==
  ASSUME NEW was, Sound(was), NEW me \in Call, Same(me, was),
         \/ was.at \in Between /\ me.at \in Between
         \/ was.at \in {"client", "event"} /\ me.at \in {"event", "woken"}
         \/ was.at \in Elsewhere \cup {"client"} /\ me.at \in Elsewhere \ {"event", "woken"}
         \/ was.at = "client" /\ me.at = "gate",
         me.at \in {"got", "answered"} => me.val \in 0 .. Lag
  PROVE  Sound(me) /\ Keeps(me, was)
<1>1. was.orders \in Nat /\ was.unsure \in Nat /\ was.att \in Nat
  BY DEF Sound, Call
<1>2. Counted(me)
  BY RetryIsValid DEF Sound, Counted, Same, Requesting, Between, Elsewhere
<1>3. Placed(me)
  BY <1>1, RetryIsValid DEF Sound, Placed, Dated, Same, Requesting, Between, Elsewhere
<1>4. Dated(me)
  BY DEF Sound, Dated, Same, Requesting, Between, Elsewhere
<1> QED
  BY <1>2, <1>3, <1>4 DEF Sound, Keeps, Same

LEMMA ClientIsSound ==
  ASSUME NEW was, Sound(was), was.at = "client"
  PROVE  /\ \A a \in 0 .. Lag : LET me == [was EXCEPT !.at = "got", !.val = a]
                                IN Sound(me) /\ Keeps(me, was)
         /\ \A u \in Thread : LET me == [was EXCEPT !.at = "event", !.ldr = u,
                                                    !.wait = JoinTimeout]
                              IN Sound(me) /\ Keeps(me, was)
         /\ LET me == [was EXCEPT !.at = "gate"] IN Sound(me) /\ Keeps(me, was)
<1>1. was \in Call
  BY DEF Sound
<1>2. ASSUME NEW a \in 0 .. Lag
      PROVE  LET me == [was EXCEPT !.at = "got", !.val = a] IN Sound(me) /\ Keeps(me, was)
  <2> DEFINE me == [was EXCEPT !.at = "got", !.val = a]
  <2>0. a \in Nat /\ a \in Nat \cup {Absent}
    BY LagFacts
  <2>1. me \in Call
    BY <1>1, <2>0 DEF Call, At
  <2>3. Same(me, was) /\ me.at = "got" /\ me.val = a
    BY <1>1 DEF Call, Same
  <2> HIDE DEF me
  <2>2. Sound(me) /\ Keeps(me, was)
    BY <2>1, <2>3, MovedIsSound DEF Elsewhere
  <2> QED
    BY <2>2 DEF me
<1>3. ASSUME NEW u \in Thread
      PROVE  LET me == [was EXCEPT !.at = "event", !.ldr = u, !.wait = JoinTimeout]
             IN Sound(me) /\ Keeps(me, was)
  <2> DEFINE me == [was EXCEPT !.at = "event", !.ldr = u, !.wait = JoinTimeout]
  <2>1. me \in Call /\ Same(me, was) /\ me.at = "event"
    BY <1>1, CacheIsValid DEF Call, At, Same
  <2> HIDE DEF me
  <2>2. Sound(me) /\ Keeps(me, was)
    BY <2>1, MovedIsSound DEF Elsewhere
  <2> QED
    BY <2>2 DEF me
<1>4. LET me == [was EXCEPT !.at = "gate"] IN Sound(me) /\ Keeps(me, was)
  <2> DEFINE me == [was EXCEPT !.at = "gate"]
  <2>1. me \in Call /\ Same(me, was) /\ me.at = "gate"
    BY <1>1 DEF Call, At, Same
  <2> HIDE DEF me
  <2>2. Sound(me) /\ Keeps(me, was)
    BY <2>1, MovedIsSound
  <2> QED
    BY <2>2 DEF me
<1> QED
  BY <1>2, <1>3, <1>4

LEMMA ReleasedIsSound ==
  ASSUME NEW was, Sound(was)
  PROVE  /\ was.at \in {"answered", "raised"} =>
              LET me == [was EXCEPT !.at = IF @ = "answered" THEN "got" ELSE "failed"]
              IN Sound(me) /\ Keeps(me, was)
         /\ was.at = "event" =>
              LET me == [was EXCEPT !.at = "woken", !.wait = 0]
              IN Sound(me) /\ Keeps(me, was)
<1>1. was \in Call
  BY DEF Sound
<1>2. ASSUME was.at \in {"answered", "raised"}
      PROVE  LET me == [was EXCEPT !.at = IF @ = "answered" THEN "got" ELSE "failed"]
             IN Sound(me) /\ Keeps(me, was)
  <2> DEFINE at == IF was.at = "answered" THEN "got" ELSE "failed"
             me == [was EXCEPT !.at = at]
  <2>0. at \in {"got", "failed"} /\ (at = "got" => was.at = "answered")
    OBVIOUS
  <2> HIDE DEF at
  <2>1. me \in Call /\ Same(me, was) /\ me.at = at /\ me.val = was.val
    BY <1>1, <2>0 DEF Call, At, Same
  <2>2. was.at = "answered" => was.val \in 0 .. Lag
    BY DEF Sound, Dated
  <2> HIDE DEF me
  <2>3. Sound(me) /\ Keeps(me, was)
    BY <1>2, <2>0, <2>1, <2>2, MovedIsSound DEF Elsewhere
  <2> QED
    BY <1>1, <2>3 DEF me, at
<1>3. ASSUME was.at = "event"
      PROVE  LET me == [was EXCEPT !.at = "woken", !.wait = 0]
             IN Sound(me) /\ Keeps(me, was)
  <2> DEFINE me == [was EXCEPT !.at = "woken", !.wait = 0]
  <2>1. me \in Call /\ Same(me, was) /\ me.at = "woken"
    BY <1>1 DEF Call, At, Same
  <2> HIDE DEF me
  <2>2. Sound(me) /\ Keeps(me, was)
    BY <1>3, <2>1, MovedIsSound DEF Elsewhere
  <2> QED
    BY <2>2 DEF me
<1> QED
  BY <1>2, <1>3

LEMMA FollowedIsSound ==
  ASSUME NEW was, Sound(was), was.at \in {"woken", "event"}
  PROVE  /\ \A a \in 0 .. Lag :
              LET me == [was EXCEPT !.at = "got", !.val = a, !.ldr = Nobody]
              IN Sound(me) /\ Keeps(me, was)
         /\ LET me == [was EXCEPT !.at = "failed", !.ldr = Nobody]
            IN Sound(me) /\ Keeps(me, was)
<1>1. was \in Call
  BY DEF Sound
<1>2. ASSUME NEW a \in 0 .. Lag
      PROVE  LET me == [was EXCEPT !.at = "got", !.val = a, !.ldr = Nobody]
             IN Sound(me) /\ Keeps(me, was)
  <2> DEFINE me == [was EXCEPT !.at = "got", !.val = a, !.ldr = Nobody]
  <2>0. a \in Nat /\ a \in Nat \cup {Absent}
    BY LagFacts
  <2>1. me \in Call
    BY <1>1, <2>0 DEF Call, At
  <2>3. Same(me, was) /\ me.at = "got" /\ me.val = a
    BY <1>1 DEF Call, Same
  <2> HIDE DEF me
  <2>2. Sound(me) /\ Keeps(me, was)
    BY <2>1, <2>3, MovedIsSound DEF Elsewhere
  <2> QED
    BY <2>2 DEF me
<1>3. LET me == [was EXCEPT !.at = "failed", !.ldr = Nobody]
      IN Sound(me) /\ Keeps(me, was)
  <2> DEFINE me == [was EXCEPT !.at = "failed", !.ldr = Nobody]
  <2>1. me \in Call /\ Same(me, was) /\ me.at = "failed"
    BY <1>1 DEF Call, At, Same
  <2> HIDE DEF me
  <2>2. Sound(me) /\ Keeps(me, was)
    BY <2>1, MovedIsSound DEF Elsewhere
  <2> QED
    BY <2>2 DEF me
<1> QED
  BY <1>2, <1>3

\* A call for bids that waits for the fetch of another, or fetches itself.
LEMMA JoinedIsSound ==
  ASSUME NEW was, Sound(was), was.at = "book", NEW u \in Thread, NEW k \in Key
  PROVE  LET me == [was EXCEPT !.at = "future", !.ldr = u, !.key = k, !.joined = TRUE]
         IN Sound(me) /\ ~me.own
<1> DEFINE me == [was EXCEPT !.at = "future", !.ldr = u, !.key = k, !.joined = TRUE]
<1>1. was \in Call /\ was.op = "bids" /\ ~was.own
  BY DEF Sound, Dated
<1>2. me \in Call
  BY <1>1 DEF Call, At
<1>3. /\ me.op = was.op /\ me.at = "future" /\ me.kind = was.kind /\ me.joined = TRUE
      /\ me.att = was.att /\ me.slept = was.slept /\ me.own = was.own
      /\ me.old = was.old /\ me.age = was.age /\ me.fresh = was.fresh
      /\ me.orders = was.orders /\ me.unsure = was.unsure
  BY <1>1 DEF Call
<1> HIDE DEF me
<1>4. Counted(me)
  BY <1>3 DEF Sound, Counted, Requesting, Between
<1>5. Placed(me)
  BY <1>3 DEF Sound, Placed, Requesting, Between
<1>6. Dated(me)
  BY <1>1, <1>3 DEF Sound, Dated
<1>7. Sound(me) /\ ~me.own
  BY <1>1, <1>2, <1>3, <1>4, <1>5, <1>6 DEF Sound
<1> QED
  BY <1>7 DEF me

Owning(me, was, k, usable) ==
  Sound(me) /\ me.key = k /\ me.usable = usable /\ me.age = was.age

LEMMA OwnerIsSound ==
  ASSUME NEW was, Sound(was), was.at = "book", NEW k \in Key
  PROVE  \A usable \in BOOLEAN :
           Owning([was EXCEPT !.at = "client", !.key = k, !.own = TRUE, !.usable = usable],
                  was, k, usable)
<1> TAKE usable \in BOOLEAN
<1> DEFINE me == [was EXCEPT !.at = "client", !.key = k, !.own = TRUE, !.usable = usable]
<1>1. was \in Call /\ was.op = "bids"
  BY DEF Sound, Dated
<1>2. me \in Call
  BY <1>1 DEF Call, At
<1>3. /\ me.op = was.op /\ me.at = "client" /\ me.kind = was.kind /\ me.joined = was.joined
      /\ me.att = was.att /\ me.slept = was.slept /\ me.own = TRUE /\ me.key = k
      /\ me.usable = usable
      /\ me.old = was.old /\ me.age = was.age /\ me.fresh = was.fresh
      /\ me.orders = was.orders /\ me.unsure = was.unsure
  BY <1>1 DEF Call
<1> HIDE DEF me
<1>4. Counted(me)
  BY <1>3 DEF Sound, Counted, Requesting, Between
<1>5. Placed(me)
  BY <1>3 DEF Sound, Placed, Requesting, Between
<1>6. Dated(me)
  BY <1>1, <1>3 DEF Sound, Dated
<1>7. Owning(me, was, k, usable)
  BY <1>1, <1>2, <1>3, <1>4, <1>5, <1>6 DEF Sound, Owning
<1> QED
  BY <1>7 DEF me

\* The gate, the token and the backoff.
LEMMA GatedIsSound ==
  ASSUME NEW was, Sound(was)
  PROVE  /\ was.at = "gate" => LET me == [was EXCEPT !.at = "token"]
                               IN Sound(me) /\ Keeps(me, was)
         /\ was.at = "backoff" => LET me == [was EXCEPT !.at = "gate"]
                                  IN Sound(me) /\ Keeps(me, was)
<1>1. was \in Call
  BY DEF Sound
<1>2. ASSUME NEW at \in {"token", "gate"}, was.at \in {"gate", "backoff"}
      PROVE  LET me == [was EXCEPT !.at = at] IN Sound(me) /\ Keeps(me, was)
  <2> DEFINE me == [was EXCEPT !.at = at]
  <2>1. me \in Call /\ Same(me, was) /\ me.at = at
    BY <1>1 DEF Call, At, Same
  <2> HIDE DEF me
  <2>2. Sound(me) /\ Keeps(me, was)
    BY <1>2, <2>1, MovedIsSound DEF Between
  <2> QED
    BY <2>2 DEF me
<1> QED
  BY <1>2

LEMMA SentIsSound ==
  ASSUME NEW was, Sound(was), was.at = "token"
  PROVE  LET me == [was EXCEPT !.at = "wire", !.att = @ + 1]
         IN Sound(me) /\ Keeps(me, was)
<1> DEFINE att == was.att + 1
           me == [was EXCEPT !.at = "wire", !.att = att]
<1>1. was \in Call /\ was.att \in Nat /\ was.orders \in Nat /\ was.unsure \in Nat
  BY DEF Sound, Call
<1>2. att \in Nat
  BY <1>1
<1> HIDE DEF att
<1>3. me \in Call
  BY <1>1, <1>2 DEF Call, At
<1>4. /\ me.op = was.op /\ me.at = "wire" /\ me.kind = was.kind /\ me.joined = was.joined
      /\ me.att = att /\ me.slept = was.slept /\ me.own = was.own /\ me.key = was.key
      /\ me.usable = was.usable
      /\ me.old = was.old /\ me.age = was.age /\ me.fresh = was.fresh
      /\ me.orders = was.orders /\ me.unsure = was.unsure
  BY <1>1 DEF Call
<1> HIDE DEF me
<1>5. Counted(me)
  BY <1>1, <1>4, RetryIsValid DEF Sound, Counted, Requesting, Between, att
<1>6. Placed(me)
  BY <1>1, <1>4 DEF Sound, Placed, Requesting, Between, att
<1>7. Dated(me)
  BY <1>4 DEF Sound, Dated
<1>8. Sound(me) /\ Keeps(me, was)
  BY <1>3, <1>4, <1>5, <1>6, <1>7 DEF Sound, Keeps
<1>9. me = [was EXCEPT !.at = "wire", !.att = @ + 1]
  BY <1>1 DEF me, att, Call
<1> QED
  BY <1>8, <1>9

\* A tick ages the call by one, and its books by no more.
LEMMA OlderIsLater ==
  ASSUME NEW a \in Nat
  PROVE  Older(a) \in Nat /\ Older(a) <= a + 1 /\ (a <= OldAge => Older(a) <= OldAge)
  BY LagFacts DEF Older, Smaller

LEMMA TickedIsSound ==
  ASSUME NEW was, Sound(was), was.at \in Waiting \ {"idle"}
  PROVE  LET me == [was EXCEPT !.wait = Down(@), !.val = Older(@),
               !.age = IF was.op = "bids" THEN Smaller(MaxAge + 1, @ + 1) ELSE 0,
               !.old = IF was.todo # Key /\ was.op = "bids" THEN Older(@) ELSE 0]
         IN /\ Sound(me)
            /\ me.own = was.own /\ me.usable = was.usable /\ me.key = was.key
            /\ was.own /\ me.age <= MaxAge => me.age = was.age + 1
<1> DEFINE wait == Down(was.wait)
           val == Older(was.val)
           age == IF was.op = "bids" THEN Smaller(MaxAge + 1, was.age + 1) ELSE 0
           old == IF was.todo # Key /\ was.op = "bids" THEN Older(was.old) ELSE 0
           me == [was EXCEPT !.wait = wait, !.val = val, !.age = age, !.old = old]
<1>1. /\ was \in Call /\ was.age \in Nat /\ was.old \in Nat /\ was.wait \in Nat
      /\ was.val \in Nat \cup {Absent}
  BY DEF Sound, Call
<1>2. wait \in Nat
  BY <1>1 DEF Down
<1>3. val \in Nat \cup {Absent}
  <2>1. CASE was.val = Absent
    BY <2>1 DEF Older
  <2>2. CASE was.val \in Nat
    BY <2>2, OlderIsLater
  <2> QED
    BY <1>1, <2>1, <2>2
<1>4. /\ age \in Nat
      /\ was.op = "bids" /\ age <= MaxAge => age = was.age + 1
  BY <1>1, CacheIsValid DEF Smaller
<1>5. old \in Nat /\ old <= was.old + 1
  BY <1>1, OlderIsLater
<1> HIDE DEF wait, val, age, old
<1>6. me \in Call
  BY <1>1, <1>2, <1>3, <1>4, <1>5 DEF Call
<1>7. /\ me.op = was.op /\ me.at = was.at /\ me.kind = was.kind /\ me.joined = was.joined
      /\ me.att = was.att /\ me.slept = was.slept /\ me.own = was.own /\ me.key = was.key
      /\ me.usable = was.usable
      /\ me.old = old /\ me.age = age /\ me.fresh = was.fresh
      /\ me.orders = was.orders /\ me.unsure = was.unsure
  BY <1>1 DEF Call
<1> HIDE DEF me
<1>8. Counted(me)
  BY <1>7 DEF Sound, Counted
<1>9. Placed(me)
  BY <1>7 DEF Sound, Placed
<1>10. ~was.fresh
  BY DEF Sound, Dated, Waiting
<1>11. Dated(me)
  BY <1>1, <1>4, <1>5, <1>7, <1>10, CacheIsValid, LagFacts DEF Sound, Dated, Waiting
<1>12. /\ Sound(me)
       /\ me.own = was.own /\ me.usable = was.usable /\ me.key = was.key
       /\ was.own /\ me.age <= MaxAge => me.age = was.age + 1
  BY <1>4, <1>6, <1>7, <1>8, <1>9, <1>11 DEF Sound, Dated
<1>13. me = [was EXCEPT !.wait = Down(@), !.val = Older(@),
               !.age = IF was.op = "bids" THEN Smaller(MaxAge + 1, @ + 1) ELSE 0,
               !.old = IF was.todo # Key /\ was.op = "bids" THEN Older(@) ELSE 0]
  BY <1>1 DEF me, wait, val, age, old, Call
<1> QED
  BY <1>12, <1>13

------------------------------------------------------------------------------
(* The token bucket. *)

LEMMA Products ==
  ASSUME NEW n \in Nat
  PROVE  n * Rate \in Nat /\ (n + 1) * Rate = n * Rate + Rate /\ 0 * Rate = 0
  BY BudgetIsValid

LEMMA RefillFacts ==
  ASSUME NEW b \in Bucket
  PROVE  /\ Refill(b) \in Bucket /\ Refill(b).since = 0
         /\ Refill(b).cooldown = b.cooldown
         /\ Refill(b).tokens = Smaller(Burst, b.tokens + b.since * Rate)
<1> DEFINE n == Smaller(Burst, b.tokens + b.since * Rate)
<1>1. b.tokens \in Nat /\ b.since \in Nat /\ b.since * Rate \in Nat
  BY BudgetIsValid, Products DEF Bucket
<1>2. n \in 0 .. Burst /\ 0 \in 0 .. Burst
  BY <1>1, BudgetIsValid DEF Smaller
<1>3. Refill(b) = [b EXCEPT !.tokens = n, !.since = 0]
  BY DEF Refill
<1> HIDE DEF n
<1>4. /\ Refill(b) \in Bucket /\ Refill(b).since = 0
      /\ Refill(b).cooldown = b.cooldown /\ Refill(b).tokens = n
  BY <1>2, <1>3 DEF Bucket
<1> QED
  BY <1>4 DEF n

\* A token is taken from the bucket and from the ideal credit alike.
LEMMA TakenWithinBudget ==
  ASSUME NEW b \in Bucket, Ready(b)
  PROVE  /\ TakeToken(b) \in Bucket
         /\ Refill(TakeToken(b)).tokens = Refill(b).tokens - 1
<1> DEFINE r == Refill(b)
           n == r.tokens - 1
<1>1. r \in Bucket /\ r.since = 0 /\ r.tokens >= 1 /\ r.tokens \in 0 .. Burst
  BY RefillFacts DEF Ready, Bucket
<1>2. n \in 0 .. Burst
  BY <1>1, BudgetIsValid
<1>3. TakeToken(b) = [r EXCEPT !.tokens = n]
  BY <1>1 DEF TakeToken, Bucket
<1> HIDE DEF r, n
<1>4. TakeToken(b) \in Bucket /\ TakeToken(b).tokens = n /\ TakeToken(b).since = 0
  BY <1>1, <1>2, <1>3 DEF Bucket
<1>5. Refill(TakeToken(b)).tokens = n
  BY <1>2, <1>4, RefillFacts, Products, BudgetIsValid DEF Smaller
<1> QED
  BY <1>4, <1>5 DEF n, r

\* A penalty empties the bucket and leaves the clock.
LEMMA PenalizedWithinBudget ==
  ASSUME NEW b \in Bucket, NEW ra \in RetryAfter
  PROVE  /\ Penalized(b, ra) \in Bucket
         /\ Refill(Penalized(b, ra)).tokens <= Refill(b).tokens
<1> DEFINE c == Larger(b.cooldown, IF ra # Absent /\ ra > 0 THEN ra ELSE Penalty)
           p == Penalized(b, ra)
<1>1. b.tokens \in Nat /\ b.since \in Nat /\ b.since * Rate \in Nat /\ b.cooldown \in Nat
  BY BudgetIsValid, Products DEF Bucket
<1>2. c \in Nat
  BY <1>1, Headers, CooldownIsValid DEF Larger
<1>7. 0 \in 0 .. Burst
  BY BudgetIsValid
<1>3. p = [b EXCEPT !.tokens = 0, !.cooldown = c]
  BY DEF Penalized, Bucket
<1> HIDE DEF c, p
<1>4. p \in Bucket /\ p.tokens = 0 /\ p.since = b.since
  BY <1>2, <1>3, <1>7 DEF Bucket
<1>5. /\ Refill(p).tokens = Smaller(Burst, 0 + b.since * Rate)
      /\ Refill(b).tokens = Smaller(Burst, b.tokens + b.since * Rate)
  BY <1>4, RefillFacts
<1>6. Refill(p).tokens <= Refill(b).tokens
  BY <1>1, <1>5, BudgetIsValid DEF Smaller
<1> QED
  BY <1>4, <1>6 DEF p

\* A tick gives the bucket no more than it gives the ideal credit.
LEMMA TickedWithinBudget ==
  ASSUME NEW b \in Bucket, NEW c \in Int, Refill(b).tokens <= c
  PROVE  LET n == [b EXCEPT !.since = Smaller(Burst, @ + 1), !.cooldown = Down(@)]
         IN /\ n \in Bucket
            /\ Refill(n).tokens <= Smaller(Burst, c + Rate)
<1> DEFINE since == Smaller(Burst, b.since + 1)
           cool == Down(b.cooldown)
           n == [b EXCEPT !.since = since, !.cooldown = cool]
<1>1. /\ b.tokens \in Nat /\ b.since \in Nat /\ b.since * Rate \in Nat
      /\ b.cooldown \in Nat /\ b.since <= Burst /\ b.tokens <= Burst
  BY BudgetIsValid, Products DEF Bucket
<1>2. since \in 0 .. Burst /\ cool \in Nat /\ since \in {b.since, b.since + 1}
  BY <1>1, BudgetIsValid DEF Smaller, Down
<1>3. n = [b EXCEPT !.since = Smaller(Burst, @ + 1), !.cooldown = Down(@)]
  BY DEF Bucket
<1> HIDE DEF since, cool
<1>4. n \in Bucket /\ n.tokens = b.tokens /\ n.since = since
  BY <1>2 DEF Bucket
<1> HIDE DEF n
<1>5. since * Rate \in Nat /\ since * Rate <= b.since * Rate + Rate
  BY <1>1, <1>2, Products, BudgetIsValid
<1>6. /\ Refill(n).tokens = Smaller(Burst, b.tokens + since * Rate)
      /\ Refill(b).tokens = Smaller(Burst, b.tokens + b.since * Rate)
  BY <1>4, RefillFacts
<1> DEFINE x == since * Rate
           y == b.since * Rate
<1> HIDE DEF x, y
<1>7. /\ x \in Nat /\ y \in Nat /\ x <= y + Rate
      /\ Refill(n).tokens = Smaller(Burst, b.tokens + x)
      /\ Refill(b).tokens = Smaller(Burst, b.tokens + y)
  BY <1>1, <1>5, <1>6 DEF x, y
<1>8. Refill(n).tokens <= Smaller(Burst, c + Rate)
  BY <1>1, <1>7, BudgetIsValid DEF Smaller
<1> QED
  BY <1>3, <1>4, <1>8

LEMMA GroupOfKind ==
  ASSUME NEW kind \in Kind
  PROVE  map_endpoint_group(kind) \in Group
  BY DEF Kind, Group, map_endpoint_group

LEMMA CountedBreaker ==
  ASSUME NEW s \in [run : 0 .. Trip, open : Nat], NEW ra \in RetryAfter
  PROVE  Counted429(s, ra) \in [run : 0 .. Trip, open : Nat]
<1> DEFINE run == Smaller(Trip, s.run + 1)
           open == IF run >= Trip
                   THEN Larger(s.open, IF ra # Absent THEN ra ELSE BreakerCooldown)
                   ELSE s.open
<1>1. s.run \in 0 .. Trip /\ s.open \in Nat
  OBVIOUS
<1>2. run \in 0 .. Trip
  BY <1>1, CooldownIsValid DEF Smaller
<1>3. open \in Nat
  BY <1>1, Headers, CooldownIsValid DEF Larger
<1>4. Counted429(s, ra) = [run |-> run, open |-> open]
  BY DEF Counted429
<1> QED
  BY <1>2, <1>3, <1>4

\* What an answer does to the bucket and the breaker of its group.
LEMMA PenaltyKeepsBudget ==
  ASSUME BudgetInv, BreakerInv, NEW g \in Group, NEW ra \in RetryAfter, record_429(g, ra),
         UNCHANGED credit
  PROVE  BudgetInv' /\ BreakerInv'
<1>1. bucket[g] \in Bucket /\ breaker[g] \in [run : 0 .. Trip, open : Nat]
  BY DEF BudgetInv, BreakerInv
<1>2. /\ Penalized(bucket[g], ra) \in Bucket
      /\ Refill(Penalized(bucket[g], ra)).tokens <= Refill(bucket[g]).tokens
  BY <1>1, PenalizedWithinBudget
<1>3. Counted429(breaker[g], ra) \in [run : 0 .. Trip, open : Nat]
  BY <1>1, CountedBreaker
<1>4. BreakerInv'
  BY <1>3 DEF BreakerInv, record_429
<1>5. bucket' = [bucket EXCEPT ![g] = Penalized(bucket[g], ra)]
  BY DEF record_429, BudgetInv
<1> DEFINE p == Penalized(bucket[g], ra)
<1> HIDE DEF p
<1>6. bucket' \in [Group -> Bucket] /\ credit' \in [Group -> Int]
  BY <1>2, <1>5 DEF BudgetInv, p
<1>7. ASSUME NEW h \in Group PROVE Refill(bucket'[h]).tokens <= credit'[h]
  <2>1. Refill(bucket[h]).tokens <= credit[h] /\ credit[h] \in Int
    BY DEF BudgetInv
  <2>2. CASE h = g
    <3>1. bucket'[h] = p
      BY <1>5, <2>2 DEF BudgetInv, p
    <3>2. Refill(p) \in Bucket /\ Refill(bucket[g]) \in Bucket
      BY <1>1, <1>2, RefillFacts DEF p
    <3>3. Refill(p).tokens \in Int /\ Refill(bucket[g]).tokens \in Int
      BY <3>2 DEF Bucket
    <3>4. Refill(p).tokens <= Refill(bucket[g]).tokens
      BY <1>2 DEF p
    <3> QED
      BY <2>1, <2>2, <3>1, <3>3, <3>4
  <2>3. CASE h # g
    BY <1>5, <2>1, <2>3 DEF BudgetInv
  <2> QED
    BY <2>2, <2>3
<1>8. BudgetInv'
  BY <1>6, <1>7 DEF BudgetInv, Refill, Bucket
<1> QED
  BY <1>4, <1>8

LEMMA SuccessKeepsBudget ==
  ASSUME BudgetInv, BreakerInv, NEW g \in Group, record_success(g), UNCHANGED credit
  PROVE  BudgetInv' /\ BreakerInv'
<1>1. BreakerInv'
  BY CooldownIsValid DEF BreakerInv, record_success
<1>2. BudgetInv'
  BY DEF BudgetInv, record_success, Refill, Bucket
<1> QED
  BY <1>1, <1>2

LEMMA StillWithinBudget ==
  ASSUME BudgetInv, BreakerInv, UNCHANGED <<bucket, breaker, credit>>
  PROVE  BudgetInv' /\ BreakerInv'
  BY DEF BudgetInv, BreakerInv, Refill, Bucket

------------------------------------------------------------------------------
(* One lemma per action: what a step of thread t makes of the calls. *)

\* One thread moves, and the books stay.
LEMMA OneMoves ==
  ASSUME CallInv, FallbackInv, NEW t \in Thread, NEW me, Sound(me), Backed(me, books),
         th' = [th EXCEPT ![t] = me], UNCHANGED books
  PROVE  CallInv' /\ FallbackInv'
<1>1. me \in Call
  BY DEF Sound
<1>2. th' \in [Thread -> Call]
  BY <1>1 DEF CallInv
<1>3. ASSUME NEW u \in Thread PROVE Sound(th'[u]) /\ Backed(th'[u], books)
  <2>1. CASE u = t
    <3>1. th'[u] = me
      BY <2>1 DEF CallInv
    <3> QED
      BY <3>1
  <2>2. CASE u # t
    <3>1. th'[u] = th[u]
      BY <2>2 DEF CallInv
    <3>2. Sound(th[u]) /\ Backed(th[u], books)
      BY DEF CallInv, FallbackInv
    <3> QED
      BY <3>1, <3>2
  <2> QED
    BY <2>1, <2>2
<1> QED
  BY <1>2, <1>3 DEF CallInv, FallbackInv

LEMMA OneKeeps ==
  ASSUME CallInv, FallbackInv, NEW t \in Thread, NEW me, Sound(me), Keeps(me, th[t]),
         th' = [th EXCEPT ![t] = me], UNCHANGED books
  PROVE  CallInv' /\ FallbackInv'
  BY OneMoves, KeptIsBacked DEF FallbackInv

LEMMA OneOwnsNothing ==
  ASSUME CallInv, FallbackInv, NEW t \in Thread, NEW me, Sound(me), ~me.own,
         th' = [th EXCEPT ![t] = me], UNCHANGED books
  PROVE  CallInv' /\ FallbackInv'
  BY OneKeeps DEF Keeps

LEMMA CachesStay ==
  ASSUME CacheInv, UNCHANGED caches
  PROVE  CacheInv'
  BY DEF CacheInv, caches, Slot, Book

LEMMA BeginKeeps ==
  ASSUME TransportInv, NEW t \in Thread, NEW op \in Op, Begin(t, op)
  PROVE  TransportInv'
<1> DEFINE at == CASE op = "bids" -> "book" [] op = "top" -> "client" [] OTHER -> "gate"
           kind == CASE op \in {"bids", "top", "submit"} -> "public"
                     [] op = "order" -> "read"
                     [] op = "cancel" -> "write"
                     [] op \in {"asubmit", "acancel"} -> "awrite"
           todo == IF op = "bids" THEN Key ELSE {}
           key(k) == IF op = "top" THEN k ELSE Nobody
<1>1. PICK k \in Key : th' = [th EXCEPT ![t] = [Idle EXCEPT !.op = op, !.at = at,
                                !.kind = kind, !.todo = todo, !.key = key(k)]]
  BY DEF Begin
<1>2. /\ at \in {"book", "client", "gate"} /\ (at = "book" => op = "bids")
      /\ (at = "client" => op = "top" /\ key(k) \in Key)
      /\ kind \in Kind /\ todo \in SUBSET Key /\ key(k) \in Key \cup {Nobody}
  BY DEF Op, Kind
<1> HIDE DEF at, kind, todo, key
<1> DEFINE me == [Idle EXCEPT !.op = op, !.at = at, !.kind = kind, !.todo = todo,
                              !.key = key(k)]
<1>3. Sound(me) /\ ~me.own
  BY <1>2, BegunIsSound
<1>4. UNCHANGED <<bucket, breaker, credit, books>> /\ UNCHANGED caches
  BY DEF Begin, caches
<1> HIDE DEF me
<1>5. CallInv' /\ FallbackInv'
  BY <1>1, <1>3, <1>4, OneOwnsNothing DEF TransportInv, me
<1> QED
  BY <1>4, <1>5, CachesStay, StillWithinBudget DEF TransportInv

LEMMA ReturnKeeps ==
  ASSUME TransportInv, NEW t \in Thread, Return(t) \/ TopDone(t)
  PROVE  TransportInv'
<1>1. /\ th' = [th EXCEPT ![t] = Idle]
      /\ UNCHANGED <<bucket, breaker, credit, books>> /\ UNCHANGED caches
  BY DEF Return, TopDone, caches
<1>2. CallInv' /\ FallbackInv'
  BY <1>1, IdleIsSound, OneOwnsNothing DEF TransportInv
<1> QED
  BY <1>1, <1>2, CachesStay, StillWithinBudget DEF TransportInv

LEMMA BookAgeBound ==
  ASSUME NEW e \in Book
  PROVE  BookAge(e) \in Nat /\ BookAge(e) <= e.age + Lag /\ e.age \in Nat
<1>1. e.age \in 0 .. OldAge /\ e.lag \in 0 .. Lag
  BY DEF Book
<1> QED
  BY <1>1, LagFacts DEF BookAge, Smaller

LEMMA GetOrFetchKeeps ==
  ASSUME TransportInv, NEW t \in Thread, GetOrFetch(t)
  PROVE  TransportInv'
<1>1. /\ Sound(th[t]) /\ th[t] \in Call /\ th \in [Thread -> Call] /\ th[t].at = "book"
      /\ th[t].op = "bids" /\ th[t].todo \in SUBSET Key /\ th[t].age \in Nat
  BY DEF TransportInv, CallInv, GetOrFetch, Sound, Call, Dated
<1>2. UNCHANGED <<bucket, breaker, cached, inflight, books, work, credit>>
  BY DEF GetOrFetch
<1>3. PICK k \in th[t].todo :
       \/ /\ IsFresh(k)
          /\ th' = [th EXCEPT ![t] = Collected(@, k, BookAge(books[k]))]
          /\ UNCHANGED flight
       \/ /\ ~IsFresh(k)
          /\ flight[k] # Nobody
          /\ th' = [th EXCEPT ![t].at = "future", ![t].ldr = flight[k],
                              ![t].key = k, ![t].joined = TRUE]
          /\ UNCHANGED flight
       \/ /\ ~IsFresh(k)
          /\ flight[k] = Nobody
          /\ flight' = [flight EXCEPT ![k] = t]
          /\ th' = [th EXCEPT ![t].at = "client", ![t].key = k, ![t].own = TRUE,
               ![t].usable = IsUsableStale(k)]
  BY DEF GetOrFetch
<1>4. k \in Key
  BY <1>1
<1>5. flight' \in [Key -> Thread \cup {Nobody}]
  BY <1>3, <1>4 DEF TransportInv, CacheInv
<1>6. CacheInv'
  BY <1>2, <1>5 DEF TransportInv, CacheInv, Slot, Book
<1>7. CASE /\ IsFresh(k)
           /\ th' = [th EXCEPT ![t] = Collected(@, k, BookAge(books[k]))]
  <2> DEFINE a == BookAge(books[k])
             me == Collected(th[t], k, a)
  <2>1. books[k] \in Book /\ books[k].age <= MaxStale
    BY <1>4, <1>7, CacheIsValid, StalenessOrder DEF IsFresh, TransportInv, CacheInv, Book, OldAge
  <2>2. a \in Nat /\ a <= MaxStale + Lag + th[t].age
    BY <1>1, <2>1, BookAgeBound, CacheIsValid, LagFacts
  <2>3. th' = [th EXCEPT ![t] = me]
    BY <1>1, <1>7
  <2> HIDE DEF a, me
  <2>4. Sound(me) /\ ~me.own
    BY <1>1, <1>4, <2>2, CollectedIsSound DEF me
  <2> QED
    BY <1>2, <1>6, <2>3, <2>4, OneOwnsNothing, StillWithinBudget DEF TransportInv
<1>8. CASE /\ flight[k] # Nobody
           /\ th' = [th EXCEPT ![t].at = "future", ![t].ldr = flight[k],
                               ![t].key = k, ![t].joined = TRUE]
  <2> DEFINE me == [th[t] EXCEPT !.at = "future", !.ldr = flight[k], !.key = k,
                                 !.joined = TRUE]
  <2>1. flight[k] \in Thread
    BY <1>4, <1>8 DEF TransportInv, CacheInv
  <2>2. th' = [th EXCEPT ![t] = me]
    BY <1>1, <1>8 DEF Call
  <2>3. Sound(me) /\ ~me.own
    BY <1>1, <1>4, <2>1, JoinedIsSound
  <2> HIDE DEF me
  <2> QED
    BY <1>2, <1>6, <2>2, <2>3, OneOwnsNothing, StillWithinBudget DEF TransportInv
<1>9. CASE th' = [th EXCEPT ![t].at = "client", ![t].key = k, ![t].own = TRUE,
                            ![t].usable = IsUsableStale(k)]
  <2> DEFINE usable == IsUsableStale(k)
             me == [th[t] EXCEPT !.at = "client", !.key = k, !.own = TRUE, !.usable = usable]
  <2>1. /\ usable \in BOOLEAN
        /\ usable => books[k] # Absent /\ books[k].age <= MaxStale
    BY DEF IsUsableStale
  <2> HIDE DEF usable
  <2>2. th' = [th EXCEPT ![t] = me]
    BY <1>1, <1>9 DEF Call, usable
  <2>6. Owning(me, th[t], k, usable)
    BY <1>1, <1>4, <2>1, OwnerIsSound, Zenon
  <2> HIDE DEF me
  <2>3. Sound(me) /\ me.key = k /\ me.usable = usable /\ me.age = th[t].age
    BY <2>6 DEF Owning
  <2>4. books[k] \in Book \cup {Absent}
    BY <1>4 DEF TransportInv, CacheInv
  <2>5. Backed(me, books)
    <3>1. SUFFICES ASSUME usable PROVE books[k] \in Book /\ books[k].age <= MaxStale + th[t].age
      BY <2>3 DEF Backed
    <3>2. books[k] \in Book /\ books[k].age <= MaxStale
      BY <2>1, <2>4, <3>1
    <3> QED
      BY <1>1, <3>2, BookAgeBound, CacheIsValid
  <2> QED
    BY <1>2, <1>6, <2>2, <2>3, <2>5, OneMoves, StillWithinBudget DEF TransportInv
<1> QED
  BY <1>3, <1>7, <1>8, <1>9

LEMMA HitIsYoung ==
  ASSUME CacheInv, NEW k \in Key, CacheHit(k)
  PROVE  cached[k].age \in 0 .. Lag
<1>1. /\ cached[k] \in Slot /\ cached[k].left > 0
      /\ cached[k].age + cached[k].left <= ClientTTL
  BY DEF CacheInv, CacheHit
<1>2. cached[k].left \in 0 .. ClientTTL /\ cached[k].age \in 0 .. OldAge
  BY <1>1 DEF Slot
<1> QED
  BY <1>1, <1>2, LagFacts, CacheIsValid DEF Lag

LEMMA GetOrderbookKeeps ==
  ASSUME TransportInv, NEW t \in Thread, GetOrderbook(t)
  PROVE  TransportInv'
<1> DEFINE k == th[t].key
<1>1. /\ Sound(th[t]) /\ th[t] \in Call /\ th \in [Thread -> Call] /\ th[t].at = "client"
      /\ k \in Key /\ CacheInv
  BY DEF TransportInv, CallInv, GetOrderbook, Sound, Dated
<1>2. UNCHANGED <<bucket, breaker, cached, books, flight, work, credit>>
  BY DEF GetOrderbook
<1>3. inflight' \in [Key -> Thread \cup {Nobody}]
  BY <1>1 DEF GetOrderbook, CacheInv
<1>4. CacheInv'
  BY <1>1, <1>2, <1>3 DEF CacheInv, Slot, Book
<1>5. \E me : Sound(me) /\ Keeps(me, th[t]) /\ th' = [th EXCEPT ![t] = me]
  <2>1. CASE CacheHit(k) /\ th' = [th EXCEPT ![t].at = "got", ![t].val = cached[k].age]
    <3> DEFINE a == cached[k].age
               me == [th[t] EXCEPT !.at = "got", !.val = a]
    <3>1. a \in 0 .. Lag
      BY <1>1, <2>1, HitIsYoung
    <3>2. th' = [th EXCEPT ![t] = me]
      BY <1>1, <2>1 DEF Call
    <3> HIDE DEF a
    <3>3. Sound(me) /\ Keeps(me, th[t])
      BY <1>1, <3>1, ClientIsSound
    <3> QED
      BY <3>2, <3>3
  <2>2. CASE /\ inflight[k] # Nobody
             /\ th' = [th EXCEPT ![t].at = "event", ![t].ldr = inflight[k],
                                 ![t].wait = JoinTimeout]
    <3> DEFINE u == inflight[k]
               me == [th[t] EXCEPT !.at = "event", !.ldr = u, !.wait = JoinTimeout]
    <3>1. u \in Thread
      BY <1>1, <2>2 DEF CacheInv
    <3>2. th' = [th EXCEPT ![t] = me]
      BY <1>1, <2>2 DEF Call
    <3> HIDE DEF u
    <3>3. Sound(me) /\ Keeps(me, th[t])
      BY <1>1, <3>1, ClientIsSound
    <3> QED
      BY <3>2, <3>3
  <2>3. CASE th' = [th EXCEPT ![t].at = "gate"]
    <3> DEFINE me == [th[t] EXCEPT !.at = "gate"]
    <3>2. th' = [th EXCEPT ![t] = me]
      BY <1>1, <2>3 DEF Call
    <3>3. Sound(me) /\ Keeps(me, th[t])
      BY <1>1, ClientIsSound
    <3> QED
      BY <3>2, <3>3
  <2> QED
    BY <2>1, <2>2, <2>3 DEF GetOrderbook
<1>6. CallInv' /\ FallbackInv'
  BY <1>2, <1>5, OneKeeps DEF TransportInv
<1> QED
  BY <1>2, <1>4, <1>6, StillWithinBudget DEF TransportInv

LEMMA FollowKeeps ==
  ASSUME TransportInv, NEW t \in Thread, Follow(t)
  PROVE  TransportInv'
<1> DEFINE k == th[t].key
<1>1. /\ Sound(th[t]) /\ th[t] \in Call /\ th \in [Thread -> Call]
      /\ th[t].at \in {"woken", "event"} /\ k \in Key /\ CacheInv
  BY DEF TransportInv, CallInv, Follow, Sound, Dated
<1>2. UNCHANGED <<bucket, breaker, credit, books>> /\ UNCHANGED caches
  BY DEF Follow, caches
<1>3. \E me : Sound(me) /\ Keeps(me, th[t]) /\ th' = [th EXCEPT ![t] = me]
  <2> DEFINE a == cached[k].age
             got == [th[t] EXCEPT !.at = "got", !.val = a, !.ldr = Nobody]
             failed == [th[t] EXCEPT !.at = "failed", !.ldr = Nobody]
  <2>1. CASE CacheHit(k) /\ th' = [th EXCEPT ![t] = got]
    <3>1. a \in 0 .. Lag
      BY <1>1, <2>1, HitIsYoung
    <3> HIDE DEF a
    <3>2. Sound(got) /\ Keeps(got, th[t])
      BY <1>1, <3>1, FollowedIsSound
    <3> QED
      BY <2>1, <3>2
  <2>2. CASE th' = [th EXCEPT ![t] = failed]
    <3>1. Sound(failed) /\ Keeps(failed, th[t])
      BY <1>1, FollowedIsSound
    <3> QED
      BY <2>2, <3>1
  <2>3. CASE th[t].at = "woken"
    <3>1. \/ CacheHit(k) /\ th' = [th EXCEPT ![t] = got]
          \/ th' = [th EXCEPT ![t] = failed]
      BY <1>1, <2>3 DEF Follow
    <3> QED
      BY <2>1, <2>2, <3>1
  <2>4. CASE th[t].at = "event"
    <3>1. th' = [th EXCEPT ![t].at = "failed", ![t].ldr = Nobody]
      BY <2>4 DEF Follow
    <3>2. th' = [th EXCEPT ![t] = failed]
      BY <1>1, <3>1 DEF Call
    <3> QED
      BY <2>2, <3>2
  <2> QED
    BY <1>1, <2>3, <2>4
<1>4. CallInv' /\ FallbackInv'
  BY <1>2, <1>3, OneKeeps DEF TransportInv
<1> QED
  BY <1>2, <1>4, CachesStay, StillWithinBudget DEF TransportInv

LEMMA CheckBreakerKeeps ==
  ASSUME TransportInv, NEW t \in Thread, CheckBreaker(t)
  PROVE  TransportInv'
<1>1. /\ Sound(th[t]) /\ th \in [Thread -> Call] /\ th[t].at = "gate"
  BY DEF TransportInv, CallInv, CheckBreaker
<1>2. UNCHANGED <<bucket, breaker, credit, books>> /\ UNCHANGED caches
  BY DEF CheckBreaker, caches
<1> DEFINE token == [th[t] EXCEPT !.at = "token"]
           raised == Raised(th[t], "breaker")
<1>3. th' = [th EXCEPT ![t] = raised] \/ th' = [th EXCEPT ![t] = token]
  BY <1>1, Zenon DEF CheckBreaker
<1>4. Sound(token) /\ Keeps(token, th[t])
  BY <1>1, GatedIsSound
<1>5. Sound(raised) /\ Keeps(raised, th[t])
  BY <1>1, GateIsSpent, RaisedIsSound
<1> HIDE DEF token, raised
<1>6. CallInv' /\ FallbackInv'
  BY <1>2, <1>3, <1>4, <1>5, OneKeeps DEF TransportInv
<1> QED
  BY <1>2, <1>6, CachesStay, StillWithinBudget DEF TransportInv

LEMMA BackoffKeeps ==
  ASSUME TransportInv, NEW t \in Thread, Backoff(t)
  PROVE  TransportInv'
<1>1. Sound(th[t]) /\ th[t] \in Call /\ th \in [Thread -> Call] /\ th[t].at = "backoff"
  BY DEF TransportInv, CallInv, Backoff, Sound
<1>2. UNCHANGED <<bucket, breaker, credit, books>> /\ UNCHANGED caches
  BY DEF Backoff, caches
<1> DEFINE me == [th[t] EXCEPT !.at = "gate"]
<1>3. th' = [th EXCEPT ![t] = me]
  BY <1>1 DEF Backoff, Call
<1>4. Sound(me) /\ Keeps(me, th[t])
  BY <1>1, GatedIsSound
<1> HIDE DEF me
<1>5. CallInv' /\ FallbackInv'
  BY <1>2, <1>3, <1>4, OneKeeps DEF TransportInv
<1> QED
  BY <1>2, <1>5, CachesStay, StillWithinBudget DEF TransportInv

LEMMA AcquireKeeps ==
  ASSUME TransportInv, NEW t \in Thread, Acquire(t)
  PROVE  TransportInv'
<1> DEFINE g == map_endpoint_group(th[t].kind)
           b == bucket[g]
           me == [th[t] EXCEPT !.at = "wire", !.att = @ + 1]
<1>1. /\ Sound(th[t]) /\ th[t] \in Call /\ th \in [Thread -> Call] /\ th[t].at = "token"
      /\ g \in Group
  BY GroupOfKind DEF TransportInv, CallInv, Acquire, Sound, Call
<1>2. UNCHANGED <<breaker, books>> /\ UNCHANGED caches
  BY DEF Acquire, caches
<1>3. th' = [th EXCEPT ![t] = me]
  BY <1>1 DEF Acquire, Call
<1>4. Sound(me) /\ Keeps(me, th[t])
  BY <1>1, SentIsSound
<1> HIDE DEF me
<1>5. CallInv' /\ FallbackInv'
  BY <1>2, <1>3, <1>4, OneKeeps DEF TransportInv
<1>6. /\ Ready(b) /\ bucket' = [bucket EXCEPT ![g] = TakeToken(b)]
      /\ credit' = [credit EXCEPT ![g] = credit[g] - 1]
  BY <1>1 DEF Acquire, TransportInv, BudgetInv
<1> HIDE DEF g
<1>7. b \in Bucket /\ credit[g] \in Int /\ Refill(b).tokens <= credit[g]
  BY <1>1 DEF TransportInv, BudgetInv
<1>8. TakeToken(b) \in Bucket /\ Refill(TakeToken(b)).tokens = Refill(b).tokens - 1
  BY <1>6, <1>7, TakenWithinBudget
<1>9. Refill(b).tokens \in Int
  BY <1>7, RefillFacts DEF Bucket
<1>10. bucket' \in [Group -> Bucket] /\ credit' \in [Group -> Int]
  BY <1>1, <1>6, <1>7, <1>8 DEF TransportInv, BudgetInv
<1>11. ASSUME NEW h \in Group PROVE Refill(bucket'[h]).tokens <= credit'[h]
  <2>1. CASE h = g
    <3>1. bucket'[h] = TakeToken(b) /\ credit'[h] = credit[g] - 1
      BY <1>1, <1>6, <2>1 DEF TransportInv, BudgetInv
    <3> QED
      BY <1>7, <1>8, <1>9, <3>1
  <2>2. CASE h # g
    <3>1. bucket'[h] = bucket[h] /\ credit'[h] = credit[h]
      BY <1>6, <2>2 DEF TransportInv, BudgetInv
    <3> QED
      BY <3>1 DEF TransportInv, BudgetInv
  <2> QED
    BY <2>1, <2>2
<1>12. BudgetInv'
  BY <1>10, <1>11 DEF BudgetInv, Refill, Bucket
<1>13. BreakerInv'
  BY <1>2 DEF TransportInv, BreakerInv
<1> QED
  BY <1>2, <1>5, <1>12, <1>13, CachesStay DEF TransportInv

LEMMA AnsweredKeeps ==
  ASSUME TransportInv, NEW t \in Thread, Answered(t)
  PROVE  TransportInv'
<1> DEFINE g == map_endpoint_group(th[t].kind)
<1>1. /\ Sound(th[t]) /\ th[t] \in Call /\ th \in [Thread -> Call] /\ th[t].at = "wire"
      /\ g \in Group
  BY GroupOfKind DEF TransportInv, CallInv, Answered, Sound, Call
<1>2. UNCHANGED <<inflight, books, flight, work, credit>> /\ record_success(g)
  BY DEF Answered
<1>3. PICK n \in Executed(t, "ok") : \E me \in Returned(Tried(th[t], "ok", n)) :
       /\ th' = [th EXCEPT ![t] = me]
       /\ cached' = IF th[t].op \in {"bids", "top"}
                    THEN [cached EXCEPT ![th[t].key] = [left |-> ClientTTL, age |-> 0]]
                    ELSE cached
  BY DEF Answered
<1>4. PICK me \in Returned(Tried(th[t], "ok", n)) :
       /\ th' = [th EXCEPT ![t] = me]
       /\ cached' = IF th[t].op \in {"bids", "top"}
                    THEN [cached EXCEPT ![th[t].key] = [left |-> ClientTTL, age |-> 0]]
                    ELSE cached
  BY <1>3
<1> DEFINE mid == Tried(th[t], "ok", n)
<1>5. Spent(mid) /\ Keeps(mid, th[t])
  BY <1>1, <1>3, ExecutedPlaces, TriedIsSpent
<1>6. Sound(me) /\ Keeps(me, mid)
  BY <1>4, <1>5, ReturnedIsSound
<1> HIDE DEF mid
<1>7. Keeps(me, th[t])
  BY <1>5, <1>6 DEF Keeps
<1>8. CallInv' /\ FallbackInv'
  BY <1>2, <1>4, <1>6, <1>7, OneKeeps DEF TransportInv
<1> DEFINE slot == [left |-> ClientTTL, age |-> 0]
<1>9. slot \in Slot /\ slot.age + slot.left <= ClientTTL
  BY CacheIsValid, LagFacts DEF Slot
<1> HIDE DEF slot
<1>10. cached' = cached \/ cached' = [cached EXCEPT ![th[t].key] = slot]
  BY <1>4 DEF slot
<1>11. CacheInv'
  BY <1>2, <1>9, <1>10 DEF TransportInv, CacheInv, Slot, Book
<1> QED
  BY <1>1, <1>2, <1>8, <1>11, SuccessKeepsBudget DEF TransportInv

LEMMA RetryKeeps ==
  ASSUME TransportInv, NEW t \in Thread, NEW o, NEW ra \in RetryAfter, NEW d \in Nat,
         Retry(t, o, ra, d)
  PROVE  TransportInv'
<1> DEFINE g == map_endpoint_group(th[t].kind)
<1>1. /\ Sound(th[t]) /\ th[t] \in Call /\ th \in [Thread -> Call] /\ th[t].at = "wire"
      /\ g \in Group
  BY GroupOfKind DEF TransportInv, CallInv, Retry, Sound, Call
<1>2. UNCHANGED <<books, credit>> /\ UNCHANGED caches
  BY DEF Retry, caches
<1>3. o \in Retried(th[t].kind) /\ th[t].att < Attempts
  BY DEF Retry, MayRetry
<1>4. PICK n \in Executed(t, o) :
        th' = [th EXCEPT ![t] = [Tried(th[t], o, n) EXCEPT
                 !.at = "backoff", !.wait = d, !.slept = Smaller(SleepCap, @ + d)]]
  BY DEF Retry
<1> DEFINE me == [Tried(th[t], o, n) EXCEPT !.at = "backoff", !.wait = d,
                                            !.slept = Smaller(SleepCap, @ + d)]
<1>5. th' = [th EXCEPT ![t] = me]
  BY <1>4
<1>6. Sound(me) /\ Keeps(me, th[t])
  BY <1>1, <1>3, <1>4, ExecutedPlaces, RetriedIsSound
<1> HIDE DEF me
<1>7. CallInv' /\ FallbackInv'
  BY <1>2, <1>5, <1>6, OneKeeps DEF TransportInv
<1>8. record_429(g, ra) \/ UNCHANGED <<bucket, breaker>>
  BY DEF Retry
<1>9. BudgetInv' /\ BreakerInv'
  BY <1>1, <1>2, <1>8, PenaltyKeepsBudget, StillWithinBudget DEF TransportInv
<1> QED
  BY <1>2, <1>7, <1>9, CachesStay DEF TransportInv

LEMMA GiveUpKeeps ==
  ASSUME TransportInv, NEW t \in Thread, NEW o, NEW ra \in RetryAfter, GiveUp(t, o, ra)
  PROVE  TransportInv'
<1> DEFINE g == map_endpoint_group(th[t].kind)
<1>1. /\ Sound(th[t]) /\ th[t] \in Call /\ th \in [Thread -> Call] /\ th[t].at = "wire"
      /\ g \in Group
  BY GroupOfKind DEF TransportInv, CallInv, GiveUp, Sound, Call
<1>2. UNCHANGED <<books, credit>> /\ UNCHANGED caches
  BY DEF GiveUp, caches
<1>3. PICK n \in Executed(t, o) : th' = [th EXCEPT ![t] = Raised(Tried(@, o, n), o)]
  BY DEF GiveUp
<1> DEFINE mid == Tried(th[t], o, n)
           me == Raised(mid, o)
<1>4. th' = [th EXCEPT ![t] = me]
  BY <1>1, <1>3, Zenon
<1>5. Spent(mid) /\ Keeps(mid, th[t])
  BY <1>1, <1>3, ExecutedPlaces, TriedIsSpent
<1> HIDE DEF mid
<1>6. Sound(me) /\ Keeps(me, mid)
  BY <1>5, RaisedIsSound
<1> HIDE DEF me
<1>7. Keeps(me, th[t])
  BY <1>5, <1>6 DEF Keeps
<1>8. CallInv' /\ FallbackInv'
  BY <1>2, <1>4, <1>6, <1>7, OneKeeps DEF TransportInv
<1>9. record_429(g, ra) \/ record_success(g) \/ UNCHANGED <<bucket, breaker>>
  BY DEF GiveUp
<1>10. BudgetInv' /\ BreakerInv'
  BY <1>1, <1>2, <1>9, PenaltyKeepsBudget, SuccessKeepsBudget, StillWithinBudget
     DEF TransportInv
<1> QED
  BY <1>2, <1>8, <1>10, CachesStay DEF TransportInv

LEMMA AllKeep ==
  ASSUME CallInv, FallbackInv, th' = [u \in Thread |-> th'[u]],
         \A u \in Thread : Sound(th'[u]) /\ Keeps(th'[u], th[u]), UNCHANGED books
  PROVE  CallInv' /\ FallbackInv'
<1>1. \A u \in Thread : th'[u] \in Call
  BY DEF Sound
<1>2. th' \in [Thread -> Call]
  BY <1>1
<1>3. \A u \in Thread : Backed(th'[u], books)
  BY KeptIsBacked DEF FallbackInv
<1> QED
  BY <1>2, <1>3 DEF CallInv, FallbackInv

LEMMA ReleaseKeeps ==
  ASSUME TransportInv, NEW t \in Thread, Release(t)
  PROVE  TransportInv'
<1>1. \A u \in Thread : Sound(th[u])
  BY DEF TransportInv, CallInv
<1>2. UNCHANGED <<bucket, breaker, cached, books, flight, work, credit>>
  BY DEF Release
<1>3. th[t].at \in {"answered", "raised"}
  BY DEF Release
<1> DEFINE mine == [th[t] EXCEPT !.at = IF @ = "answered" THEN "got" ELSE "failed"]
           woken(u) == [th[u] EXCEPT !.at = "woken", !.wait = 0]
<1>4. th' = [u \in Thread |->
              IF u = t THEN mine
              ELSE IF th[u].at = "event" /\ th[u].ldr = t THEN woken(u) ELSE th[u]]
  BY DEF Release
<1>5. Sound(mine) /\ Keeps(mine, th[t])
  BY <1>1, <1>3, ReleasedIsSound
<1>6. \A u \in Thread : th[u].at = "event" => Sound(woken(u)) /\ Keeps(woken(u), th[u])
  BY <1>1, ReleasedIsSound
<1> HIDE DEF mine, woken
<1>7. ASSUME NEW u \in Thread PROVE Sound(th'[u]) /\ Keeps(th'[u], th[u])
  <2>1. CASE th'[u] = th[u]
    BY <1>1, <2>1 DEF Keeps
  <2>2. CASE u = t /\ th'[u] = mine
    BY <1>5, <2>2
  <2>3. CASE th[u].at = "event" /\ th'[u] = woken(u)
    BY <1>6, <2>3
  <2> QED
    BY <1>4, <2>1, <2>2, <2>3
<1>8. th' = [u \in Thread |-> th'[u]]
  BY <1>4
<1>9. CallInv' /\ FallbackInv'
  BY <1>2, <1>7, <1>8, AllKeep DEF TransportInv
<1>10. inflight' \in [Key -> Thread \cup {Nobody}]
  BY DEF Release, TransportInv, CacheInv
<1>11. CacheInv'
  BY <1>2, <1>10 DEF TransportInv, CacheInv, Slot, Book
<1> QED
  BY <1>2, <1>9, <1>11, StillWithinBudget DEF TransportInv

\* Followers of a fetch get its book or its failure; none of them owns one.
LEMMA DeliveredIsSound ==
  ASSUME CallInv, NEW t, NEW k \in Key, NEW a \in Nat \cup {Absent}, NEW u \in Thread
  PROVE  Sound(Delivered(t, k, a)[u]) /\ Keeps(Delivered(t, k, a)[u], th[u])
<1> DEFINE me == Delivered(t, k, a)[u]
<1>1. Sound(th[u])
  BY DEF CallInv
<1>2. CASE me = th[u]
  BY <1>1, <1>2 DEF Keeps
<1>3. CASE me = Idle
  BY <1>3, IdleIsSound DEF Keeps
<1>4. CASE a # Absent /\ th[u].at = "future" /\ me = Collected(th[u], k, a)
  <2>1. a \in Nat /\ th[u].op = "bids" /\ th[u].joined
    BY <1>1, <1>4 DEF Sound, Dated
  <2>2. Sound(Collected(th[u], k, a)) /\ ~Collected(th[u], k, a).own
    BY <1>1, <2>1, CollectedIsSound
  <2> QED
    BY <1>4, <2>2 DEF Keeps
<1> QED
  BY <1>2, <1>3, <1>4, Zenon DEF Delivered

LEMMA OwnerFailedKeeps ==
  ASSUME TransportInv, NEW t \in Thread, OwnerFailed(t)
  PROVE  TransportInv'
<1> DEFINE k == th[t].key
           e == books[k]
<1>1. /\ Sound(th[t]) /\ th[t].own /\ th[t].op = "bids" /\ k \in Key /\ CallInv
      /\ Backed(th[t], books) /\ th[t].age \in Nat
  BY DEF TransportInv, CallInv, FallbackInv, OwnerFailed, Sound, Dated, Call
<1>2. UNCHANGED <<bucket, breaker, cached, inflight, books, work, credit>>
  BY DEF OwnerFailed
<1>3. \E a \in Nat \cup {Absent} : \E mine :
        /\ Sound(mine) /\ ~mine.own
        /\ th' = [Delivered(t, k, a) EXCEPT ![t] = mine]
  <2>1. CASE th[t].usable
    <3> DEFINE a == BookAge(e)
               mine == Collected(th[t], k, a)
    <3>1. e \in Book /\ (th[t].age <= MaxAge => e.age <= MaxStale + th[t].age)
      BY <1>1, <2>1 DEF Backed
    <3>2. a \in Nat /\ (th[t].age <= MaxAge => a <= MaxStale + Lag + th[t].age)
      BY <1>1, <3>1, BookAgeBound, CacheIsValid, LagFacts
    <3>3. Sound(mine) /\ ~mine.own
      BY <1>1, <3>2, CollectedIsSound
    <3>4. th' = [Delivered(t, k, a) EXCEPT ![t] = mine]
      BY <2>1 DEF OwnerFailed
    <3> HIDE DEF a, mine
    <3> QED
      BY <3>2, <3>3, <3>4
  <2>2. CASE ~th[t].usable
    <3>1. th' = [Delivered(t, k, Absent) EXCEPT ![t] = Idle]
      BY <2>2 DEF OwnerFailed
    <3> QED
      BY <3>1, IdleIsSound
  <2> QED
    BY <2>1, <2>2
<1>10. PICK a \in Nat \cup {Absent} : \E mine :
        /\ Sound(mine) /\ ~mine.own
        /\ th' = [Delivered(t, k, a) EXCEPT ![t] = mine]
  BY <1>3
<1>4. PICK mine :
        /\ Sound(mine) /\ ~mine.own
        /\ th' = [Delivered(t, k, a) EXCEPT ![t] = mine]
  BY <1>10
<1>5. ASSUME NEW u \in Thread PROVE Sound(th'[u]) /\ Keeps(th'[u], th[u])
  <2>1. th'[u] = IF u = t THEN mine ELSE Delivered(t, k, a)[u]
    BY <1>4 DEF Delivered
  <2>2. CASE u = t
    BY <1>4, <2>1, <2>2 DEF Keeps
  <2>3. CASE u # t
    <3>1. th'[u] = Delivered(t, k, a)[u]
      BY <2>1, <2>3
    <3>2. Sound(Delivered(t, k, a)[u]) /\ Keeps(Delivered(t, k, a)[u], th[u])
      BY <1>1, DeliveredIsSound
    <3> QED
      BY <3>1, <3>2
  <2> QED
    BY <2>2, <2>3
<1>6. th' = [u \in Thread |-> th'[u]]
  BY <1>4 DEF Delivered
<1>7. CallInv' /\ FallbackInv'
  BY <1>2, <1>5, <1>6, AllKeep DEF TransportInv
<1>8. flight' \in [Key -> Thread \cup {Nobody}]
  BY DEF OwnerFailed, TransportInv, CacheInv
<1>9. CacheInv'
  BY <1>2, <1>8 DEF TransportInv, CacheInv, Slot, Book
<1> QED
  BY <1>2, <1>7, <1>9, StillWithinBudget DEF TransportInv

LEMMA OwnerDoneKeeps ==
  ASSUME TransportInv, NEW t \in Thread, OwnerDone(t)
  PROVE  TransportInv'
<1> DEFINE k == th[t].key
           e == [age |-> 0, lag |-> th[t].val]
           a == BookAge(e)
           mine == Collected(th[t], k, a)
<1>1. /\ Sound(th[t]) /\ th[t].own /\ th[t].op = "bids" /\ k \in Key /\ CallInv
      /\ th[t].val \in 0 .. Lag /\ th[t].age \in Nat
  BY DEF TransportInv, CallInv, OwnerDone, Sound, Dated, Call
<1>2. UNCHANGED <<bucket, breaker, cached, inflight, work, credit>>
  BY DEF OwnerDone
<1>3. e \in Book /\ e.age = 0
  BY <1>1, LagFacts DEF Book
<1>4. /\ books' = [books EXCEPT ![k] = e]
      /\ flight' = [flight EXCEPT ![k] = Nobody]
      /\ th' = [Delivered(t, k, a) EXCEPT ![t] = mine]
  BY DEF OwnerDone
<1> HIDE DEF e
<1>5. a \in Nat /\ a <= MaxStale + Lag + th[t].age
  BY <1>1, <1>3, BookAgeBound, CacheIsValid, LagFacts
<1> HIDE DEF a
<1>6. Sound(mine) /\ ~mine.own
  BY <1>1, <1>5, CollectedIsSound
<1> HIDE DEF mine
<1>7. ASSUME NEW u \in Thread PROVE Sound(th'[u]) /\ Keeps(th'[u], th[u])
  <2>1. th'[u] = IF u = t THEN mine ELSE Delivered(t, k, a)[u]
    BY <1>4 DEF Delivered
  <2>2. CASE u = t
    BY <1>6, <2>1, <2>2 DEF Keeps
  <2>3. CASE u # t
    <3>1. th'[u] = Delivered(t, k, a)[u]
      BY <2>1, <2>3
    <3>2. Sound(Delivered(t, k, a)[u]) /\ Keeps(Delivered(t, k, a)[u], th[u])
      BY <1>1, <1>5, DeliveredIsSound
    <3> QED
      BY <3>1, <3>2
  <2> QED
    BY <2>2, <2>3
<1>8. CallInv'
  <2>1. th' = [u \in Thread |-> th'[u]]
    BY <1>4 DEF Delivered
  <2>2. \A u \in Thread : th'[u] \in Call
    BY <1>7 DEF Sound
  <2>3. th' \in [Thread -> Call]
    BY <2>1, <2>2
  <2> QED
    BY <1>7, <2>3 DEF CallInv
<1>9. ASSUME NEW u \in Thread PROVE Backed(th'[u], books')
  <2>1. Backed(th'[u], books)
    BY <1>7, KeptIsBacked DEF TransportInv, FallbackInv
  <2>2. th'[u].age \in Nat /\ th'[u].key \in Key \cup {Nobody}
    BY <1>7 DEF Sound, Call
  <2>3. CASE th'[u].key = k
    <3>1. books'[th'[u].key] = e
      BY <1>1, <1>4, <2>3 DEF TransportInv, CacheInv
    <3> QED
      BY <1>3, <2>2, <3>1, CacheIsValid DEF Backed
  <2>4. CASE th'[u].key # k
    <3>1. SUFFICES ASSUME th'[u].own PROVE Backed(th'[u], books')
      BY DEF Backed
    <3>2. th'[u].key \in Key
      BY <1>7, <3>1 DEF Sound, Dated
    <3>3. books'[th'[u].key] = books[th'[u].key]
      BY <1>4, <2>4, <3>2 DEF TransportInv, CacheInv
    <3> QED
      BY <2>1, <3>3 DEF Backed
  <2> QED
    BY <2>3, <2>4
<1>10. FallbackInv'
  BY <1>9 DEF FallbackInv
<1>11. /\ flight' \in [Key -> Thread \cup {Nobody}]
       /\ books' \in [Key -> Book \cup {Absent}]
  BY <1>3, <1>4 DEF TransportInv, CacheInv
<1>12. CacheInv'
  BY <1>2, <1>11 DEF TransportInv, CacheInv, Slot, Book
<1> QED
  BY <1>2, <1>8, <1>10, <1>12, StillWithinBudget DEF TransportInv

LEMMA TickKeepsBudget ==
  ASSUME BudgetInv, BreakerInv, Tick
  PROVE  BudgetInv' /\ BreakerInv'
<1> DEFINE n(g) == [bucket[g] EXCEPT !.since = Smaller(Burst, @ + 1), !.cooldown = Down(@)]
           c(g) == Smaller(Burst, credit[g] + Rate)
<1>1. bucket' = [g \in Group |-> n(g)] /\ credit' = [g \in Group |-> c(g)]
  BY DEF Tick
<1>2. \A g \in Group : n(g) \in Bucket /\ Refill(n(g)).tokens <= c(g)
  BY TickedWithinBudget DEF BudgetInv
<1>3. \A g \in Group : c(g) \in Int
  BY BudgetIsValid DEF BudgetInv, Smaller
<1> HIDE DEF n, c
<1>4. BudgetInv'
  <2>1. bucket' \in [Group -> Bucket] /\ credit' \in [Group -> Int]
    BY <1>1, <1>2, <1>3
  <2>2. \A g \in Group : Refill(bucket'[g]).tokens <= credit'[g]
    BY <1>1, <1>2
  <2> QED
    BY <2>1, <2>2 DEF BudgetInv, Refill, Bucket
<1>5. BreakerInv'
  <2> DEFINE d(g) == Down(breaker[g].open)
  <2>1. \A g \in Group : d(g) \in Nat
    BY DEF BreakerInv, Down
  <2>2. breaker' = [g \in Group |-> [breaker[g] EXCEPT !.open = d(g)]]
    BY DEF Tick, BreakerInv
  <2> HIDE DEF d
  <2> QED
    BY <2>1, <2>2 DEF BreakerInv
<1> QED
  BY <1>4, <1>5

LEMMA TickKeepsCaches ==
  ASSUME CacheInv, Tick
  PROVE  /\ CacheInv'
         /\ \A k \in Key : books[k] \in Book =>
              books'[k] \in Book /\ books'[k].age <= books[k].age + 1
<1>1. UNCHANGED <<inflight, flight, work>>
  BY DEF Tick
<1>2. ASSUME NEW k \in Key
      PROVE  /\ cached'[k] \in Slot \cup {Absent}
             /\ cached'[k] # Absent => cached'[k].age + cached'[k].left <= ClientTTL
  <2>1. cached'[k] = IF cached[k] = Absent \/ cached[k].left <= 1 THEN Absent
                     ELSE [left |-> cached[k].left - 1, age |-> Older(cached[k].age)]
    BY DEF Tick
  <2>2. CASE cached[k] = Absent \/ cached[k].left <= 1
    BY <2>1, <2>2
  <2>3. CASE ~(cached[k] = Absent \/ cached[k].left <= 1)
    <3> DEFINE l == cached[k].left - 1
               o == Older(cached[k].age)
    <3>1. /\ cached[k] \in Slot /\ cached[k].age + cached[k].left <= ClientTTL
          /\ cached[k].left > 1
      BY <2>3 DEF CacheInv, Slot
    <3>2. cached[k].left \in 0 .. ClientTTL /\ cached[k].age \in 0 .. OldAge
      BY <3>1 DEF Slot
    <3>3. l \in 0 .. ClientTTL /\ o \in 0 .. OldAge /\ o + l <= ClientTTL
      BY <3>1, <3>2, OlderIsLater, LagFacts, CacheIsValid
    <3>4. cached'[k] = [left |-> l, age |-> o]
      BY <2>1, <2>3
    <3> HIDE DEF l, o
    <3> QED
      BY <3>3, <3>4 DEF Slot
  <2> QED
    BY <2>2, <2>3
<1>3. ASSUME NEW k \in Key, books[k] \in Book
      PROVE  books'[k] \in Book /\ books'[k].age <= books[k].age + 1
  <2> DEFINE o == Older(books[k].age)
  <2>1. books'[k] = books[k] \/ books'[k] = [books[k] EXCEPT !.age = o]
    BY <1>3 DEF Tick, Book
  <2>2. books[k].age \in 0 .. OldAge
    BY <1>3 DEF Book
  <2>3. o \in 0 .. OldAge /\ o <= books[k].age + 1
    BY <2>2, OlderIsLater, LagFacts
  <2> HIDE DEF o
  <2>4. CASE books'[k] = books[k]
    BY <1>3, <2>2, <2>4, LagFacts
  <2>5. CASE books'[k] = [books[k] EXCEPT !.age = o]
    BY <1>3, <2>3, <2>5 DEF Book
  <2> QED
    BY <2>1, <2>4, <2>5
<1>4. \A k \in Key : books[k] = Absent => books'[k] = Absent
  BY DEF Tick
<1>5. cached' = [k \in Key |-> cached'[k]] /\ books' = [k \in Key |-> books'[k]]
  BY DEF Tick
<1>6. books' \in [Key -> Book \cup {Absent}]
  BY <1>3, <1>4, <1>5 DEF CacheInv
<1>7. cached' \in [Key -> Slot \cup {Absent}]
  BY <1>2, <1>5
<1>8. CacheInv'
  BY <1>1, <1>2, <1>6, <1>7 DEF CacheInv, Slot, Book
<1> QED
  BY <1>3, <1>8

LEMMA TickKeeps ==
  ASSUME TransportInv, Tick
  PROVE  TransportInv'
<1>1. BudgetInv' /\ BreakerInv'
  BY TickKeepsBudget DEF TransportInv
<1>2. /\ CacheInv'
      /\ \A k \in Key : books[k] \in Book =>
           books'[k] \in Book /\ books'[k].age <= books[k].age + 1
  BY TickKeepsCaches DEF TransportInv
<1> DEFINE n(t) == [th[t] EXCEPT !.wait = Down(@), !.val = Older(@),
               !.age = IF th[t].op = "bids" THEN Smaller(MaxAge + 1, @ + 1) ELSE 0,
               !.old = IF th[t].todo # Key /\ th[t].op = "bids" THEN Older(@) ELSE 0]
<1>3. th' = [t \in Thread |-> IF th[t].at = "idle" THEN th[t] ELSE n(t)]
  BY DEF Tick
<1>4. ASSUME NEW t \in Thread, th[t].at # "idle"
      PROVE  /\ Sound(n(t))
             /\ n(t).own = th[t].own /\ n(t).usable = th[t].usable /\ n(t).key = th[t].key
             /\ th[t].own /\ n(t).age <= MaxAge => n(t).age = th[t].age + 1
  <2>1. Sound(th[t]) /\ th[t].at \in Waiting \ {"idle"}
    BY <1>4 DEF TransportInv, CallInv, Tick
  <2> QED
    BY <2>1, TickedIsSound
<1> HIDE DEF n
<1>5. ASSUME NEW t \in Thread PROVE Sound(th'[t]) /\ Backed(th'[t], books')
  <2>1. Sound(th[t]) /\ Backed(th[t], books) /\ th[t].age \in Nat
    BY DEF TransportInv, CallInv, FallbackInv, Sound, Call
  <2>2. CASE th[t].at = "idle"
    <3>1. th'[t] = th[t] /\ ~th[t].own
      BY <1>3, <2>1, <2>2 DEF Sound, Dated
    <3> QED
      BY <2>1, <3>1 DEF Backed
  <2>3. CASE th[t].at # "idle"
    <3>1. th'[t] = n(t)
      BY <1>3, <2>3
    <3>2. /\ Sound(n(t))
          /\ n(t).own = th[t].own /\ n(t).usable = th[t].usable /\ n(t).key = th[t].key
          /\ th[t].own /\ n(t).age <= MaxAge => n(t).age = th[t].age + 1
      BY <1>4, <2>3
    <3>3. ASSUME n(t).own, n(t).usable
          PROVE  /\ books'[n(t).key] \in Book
                 /\ n(t).age <= MaxAge => books'[n(t).key].age <= MaxStale + n(t).age
      <4> DEFINE k == th[t].key
      <4>1. k \in Key
        BY <2>1, <3>2, <3>3 DEF Sound, Dated
      <4>2. /\ books[k] \in Book
            /\ th[t].age <= MaxAge => books[k].age <= MaxStale + th[t].age
        BY <2>1, <3>2, <3>3 DEF Backed
      <4>3. books'[k] \in Book /\ books'[k].age <= books[k].age + 1
        BY <1>2, <4>1, <4>2
      <4>4. books[k].age \in Nat /\ books'[k].age \in Nat
        BY <4>2, <4>3, BookAgeBound
      <4>5. n(t).age <= MaxAge => n(t).age = th[t].age + 1
        BY <3>2, <3>3
      <4> HIDE DEF k
      <4>6. n(t).age <= MaxAge => books'[k].age <= MaxStale + n(t).age
        BY <2>1, <4>2, <4>3, <4>4, <4>5, CacheIsValid
      <4>7. n(t).key = k
        BY <3>2 DEF k
      <4> QED
        BY <4>3, <4>6, <4>7
    <3> QED
      BY <3>1, <3>2, <3>3 DEF Backed
  <2> QED
    BY <2>2, <2>3
<1>6. CallInv' /\ FallbackInv'
  <2>1. \A t \in Thread : th'[t] \in Call
    BY <1>5 DEF Sound
  <2>2. th' = [t \in Thread |-> th'[t]]
    BY <1>3
  <2>3. th' \in [Thread -> Call]
    BY <2>1, <2>2
  <2> QED
    BY <1>5, <2>3 DEF CallInv, FallbackInv
<1> QED
  BY <1>1, <1>2, <1>6 DEF TransportInv

------------------------------------------------------------------------------
LEMMA InitIsSound ==
  ASSUME Init
  PROVE  TransportInv
<1>1. CallInv
  <2>1. th = [t \in Thread |-> Idle]
    BY DEF Init
  <2>2. Sound(Idle) /\ Idle \in Call
    BY IdleIsSound DEF Sound
  <2> QED
    BY <2>1, <2>2 DEF CallInv
<1>2. FallbackInv
  BY IdleIsSound DEF Init, FallbackInv, Backed
<1>3. CacheInv
  BY DEF Init, CacheInv
<1>4. BreakerInv
  BY CooldownIsValid DEF Init, BreakerInv
<1>5. BudgetInv
  <2> DEFINE b == [tokens |-> Burst, since |-> 0, cooldown |-> 0]
  <2>1. b \in Bucket /\ b.tokens = Burst /\ b.since = 0
    BY BudgetIsValid DEF Bucket
  <2>2. bucket = [g \in Group |-> b] /\ credit = [g \in Group |-> Burst]
    BY DEF Init
  <2> HIDE DEF b
  <2>3. Refill(b).tokens <= Burst
    BY <2>1, RefillFacts, Products, BudgetIsValid DEF Smaller
  <2> QED
    BY <2>1, <2>2, <2>3, BudgetIsValid DEF BudgetInv
<1> QED
  BY <1>1, <1>2, <1>3, <1>4, <1>5 DEF TransportInv

LEMMA NextKeeps ==
  ASSUME TransportInv, [Next]_vars
  PROVE  TransportInv'
<1>1. CASE UNCHANGED vars
  <2>1. UNCHANGED <<bucket, breaker, credit, th, books>> /\ UNCHANGED caches
    BY <1>1 DEF vars, caches
  <2>2. CallInv' /\ FallbackInv'
    BY <2>1 DEF TransportInv, CallInv, FallbackInv
  <2> QED
    BY <2>1, <2>2, CachesStay, StillWithinBudget DEF TransportInv
<1>2. CASE Tick
  BY <1>2, TickKeeps
<1>3. ASSUME NEW t \in Thread, Step(t) PROVE TransportInv'
  <2>1. CASE Return(t) \/ TopDone(t)
    BY <2>1, ReturnKeeps
  <2>2. CASE GetOrFetch(t)
    BY <2>2, GetOrFetchKeeps
  <2>3. CASE OwnerDone(t)
    BY <2>3, OwnerDoneKeeps
  <2>4. CASE OwnerFailed(t)
    BY <2>4, OwnerFailedKeeps
  <2>5. CASE GetOrderbook(t)
    BY <2>5, GetOrderbookKeeps
  <2>6. CASE Release(t)
    BY <2>6, ReleaseKeeps
  <2>7. CASE Follow(t)
    BY <2>7, FollowKeeps
  <2>8. CASE CheckBreaker(t)
    BY <2>8, CheckBreakerKeeps
  <2>9. CASE Answered(t)
    BY <2>9, AnsweredKeeps
  <2>10. CASE Backoff(t)
    BY <2>10, BackoffKeeps
  <2>11. ASSUME NEW o \in Answers \ {"ok"}, NEW ra \in RetryAfter,
                GiveUp(t, o, ra) \/ \E d \in 0 .. 2 * MaxDelay : Retry(t, o, ra, d)
         PROVE  TransportInv'
    <3>1. CASE GiveUp(t, o, ra)
      BY <3>1, GiveUpKeeps
    <3>2. ASSUME NEW d \in 0 .. 2 * MaxDelay, Retry(t, o, ra, d) PROVE TransportInv'
      <4>1. d \in Nat
        BY RetryIsValid
      <4> QED
        BY <3>2, <4>1, RetryKeeps
    <3> QED
      BY <2>11, <3>1, <3>2
  <2> QED
    BY <1>3, <2>1, <2>2, <2>3, <2>4, <2>5, <2>6, <2>7, <2>8, <2>9, <2>10, <2>11 DEF Step
<1>4. ASSUME NEW t \in Thread, Acquire(t) PROVE TransportInv'
  BY <1>4, AcquireKeeps
<1>5. ASSUME NEW t \in Thread, NEW op \in Op, Begin(t, op) PROVE TransportInv'
  BY <1>5, BeginKeeps
<1> QED
  BY <1>1, <1>2, <1>3, <1>4, <1>5 DEF Next

LEMMA TransportIsSound == Spec => []TransportInv
<1>1. Init => TransportInv
  BY InitIsSound
<1>2. TransportInv /\ [Next]_vars => TransportInv'
  BY NextKeeps
<1> QED
  BY <1>1, <1>2, PTL DEF Spec

\* The state of the transport is well formed: in particular no request path
\* makes more than its attempts or sleeps past its cap, and the age a cached
\* book may reach is bounded.
THEOREM TransportTypeCorrect == Spec => []TypeOK
<1>1. TransportInv => TypeOK
  <2> SUFFICES ASSUME TransportInv PROVE TypeOK
    OBVIOUS
  <2>1. /\ bucket \in [Group -> [tokens : 0 .. Burst, since : 0 .. Burst, cooldown : Nat]]
        /\ credit \in [Group -> Int]
    BY DEF TransportInv, BudgetInv, Bucket
  <2>2. breaker \in [Group -> [run : 0 .. Trip, open : Nat]]
    BY DEF TransportInv, BreakerInv
  <2>3. ASSUME NEW k \in Key
        PROVE  /\ cached[k] = Absent \/ cached[k] \in [left : 0 .. ClientTTL, age : 0 .. OldAge]
               /\ books[k] = Absent \/ books[k] \in [age : 0 .. OldAge, lag : 0 .. OldAge]
               /\ inflight[k] \in Thread \cup {Nobody} /\ flight[k] \in Thread \cup {Nobody}
    <3>1. books[k] = Absent \/ books[k] \in Book
      BY DEF TransportInv, CacheInv
    <3>2. 0 .. Lag \subseteq 0 .. OldAge
      BY LagFacts
    <3>3. books[k] \in Book => books[k] \in [age : 0 .. OldAge, lag : 0 .. OldAge]
      BY <3>2 DEF Book
    <3> QED
      BY <3>1, <3>3 DEF TransportInv, CacheInv, Slot
  <2>4. ASSUME NEW t \in Thread
        PROVE  /\ th[t].op \in Op /\ th[t].kind \in Kind
               /\ th[t].att \in 0 .. Attempts /\ th[t].slept \in 0 .. SleepCap
               /\ th[t].orders \in 0 .. Attempts
    <3>1. /\ th[t] \in Call /\ th[t].att <= Attempts /\ th[t].slept <= SleepCap
          /\ th[t].orders <= Attempts
      BY DEF TransportInv, CallInv, Sound, Counted, Placed
    <3>2. /\ th[t].op \in Op /\ th[t].kind \in Kind /\ th[t].att \in Nat
          /\ th[t].slept \in Nat /\ th[t].orders \in Nat
      BY <3>1 DEF Call
    <3> QED
      BY <3>1, <3>2, RetryIsValid
  <2> QED
    BY <2>1, <2>2, <2>3, <2>4 DEF TypeOK
<1> QED
  BY <1>1, TransportIsSound, PTL

\* The rate limiter keeps every endpoint group within its budget, for every
\* burst and rate, whatever penalties and cooldowns come in between: in any
\* window no more requests go out than the burst plus the refill allow.
THEOREM RequestsStayWithinBudget == Spec => []WithinBudget
<1>1. TransportInv => WithinBudget
  <2> SUFFICES ASSUME TransportInv, NEW g \in Group PROVE credit[g] >= 0
    BY DEF WithinBudget
  <2>1. bucket[g] \in Bucket /\ Refill(bucket[g]).tokens <= credit[g] /\ credit[g] \in Int
    BY DEF TransportInv, BudgetInv
  <2>2. Refill(bucket[g]).tokens \in Nat
    BY <2>1, RefillFacts, BudgetIsValid DEF Bucket
  <2> QED
    BY <2>1, <2>2
<1> QED
  BY <1>1, TransportIsSound, PTL

\* A submit call never has more orders at the exchange than one plus its
\* unanswered attempts (and, for the asynchronous client, its 5xx answers),
\* for every number of attempts and every order of answers.
THEOREM DoubtPrecedesSecondOrder == Spec => []OneOrderPerSilence
<1>1. TransportInv => OneOrderPerSilence
  BY DEF TransportInv, CallInv, Sound, Placed, OneOrderPerSilence
<1> QED
  BY <1>1, TransportIsSound, PTL

\* Bids that are called fresh are no older than the limits add up to, for every
\* choice of them, provided the client's cache keeps a book at all (its TTL is
\* 0.2 seconds wherever the program builds the client).
THEOREM FreshBidsStayRecent ==
  ASSUME ClientTTL > 0
  PROVE  Spec => []FreshBidsAreRecent
<1>1. TransportInv => FreshBidsAreRecent
  <2> SUFFICES ASSUME TransportInv, NEW t \in Thread, th[t].fresh, ~th[t].joined
               PROVE  th[t].old <= MaxAge + MaxStale + ClientTTL - 1
    BY DEF FreshBidsAreRecent
  <2>1. th[t].age \in Nat /\ th[t].old \in Nat
    BY DEF TransportInv, CallInv, Call
  <2>2. th[t].age <= MaxAge /\ th[t].old <= MaxStale + Lag + th[t].age
    BY DEF TransportInv, CallInv, Sound, Dated
  <2> QED
    BY <2>1, <2>2, CacheIsValid DEF Lag
<1> QED
  BY <1>1, TransportIsSound, PTL
=============================================================================
