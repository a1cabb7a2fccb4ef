--------------------------- MODULE HttpTransport ---------------------------
(* The exchange adapters and the market data in front of them:            *)
(* TokenBucketRateLimiter, retry_with_backoff, the 429 breaker, the        *)
(* request paths of BtcturkHttpClient (public GET, private GET, private    *)
(* write) with their order-book cache and single flight, the asynchronous  *)
(* BtcturkRestClient with its "safe" submit and cancel, and                *)
(* RestMarketDataProvider / MarketDataService with their cache, their      *)
(* coalesced fetches and their stale fallback.                             *)
(*                                                                         *)
(* Threads share one client: the locks of the code are the atomic actions  *)
(* here, what happens outside them interleaves.  Time is relative: every   *)
(* deadline is a countdown and every timestamp an age, and Tick moves them *)
(* all.  Prices are left out; a book is its age.                           *)
EXTENDS Integers, FiniteSets

CONSTANTS
  Thread,           \* callers of the shared client
  Workload,         \* what a program may do: each a [op -> threads that make this call]
  Key,              \* order books
  Nobody,           \* no leader, no owner
  Absent,           \* nothing cached, no Retry-After header
  Burst, Rate,      \* endpoint budget: tokens and tokens per tick
  Attempts,         \* _RETRY_ATTEMPTS
  BaseDelay,        \* _RETRY_BASE_DELAY_SECONDS
  MaxDelay,         \* _RETRY_MAX_DELAY_SECONDS
  SleepCap,         \* _RETRY_TOTAL_WAIT_CAP_SECONDS
  RetryAfter,       \* values of the Retry-After header, Absent included
  Penalty,          \* cooldown of penalize_on_429 without a header
  Trip,             \* breaker_429_consecutive_threshold
  BreakerCooldown,  \* breaker_cooldown_seconds
  ClientTTL,        \* orderbook_cache_ttl_s
  JoinTimeout,      \* orderbook_inflight_wait_timeout_s
  OrderbookTTL,     \* orderbook_ttl_ms
  MaxStale,         \* orderbook_max_staleness_ms
  MaxAge,           \* max_market_data_age_ms
  RulesRequired     \* live_rules_require_exchangeinfo

ASSUME BudgetIsValid == Burst \in Nat \ {0} /\ Rate \in Nat \ {0}
ASSUME RetryIsValid ==
  Attempts \in Nat \ {0} /\ BaseDelay \in Nat /\ MaxDelay \in Nat /\ SleepCap \in Nat
ASSUME CooldownIsValid == Penalty \in Nat /\ Trip \in Nat \ {0} /\ BreakerCooldown \in Nat
\* The constructors clamp every cache limit at zero; the client's own TTL may be zero.
ASSUME CacheIsValid ==
  /\ ClientTTL \in Nat /\ JoinTimeout \in Nat /\ OrderbookTTL \in Nat /\ MaxStale \in Nat
  /\ MaxAge \in Nat
ASSUME StalenessOrder == OrderbookTTL <= MaxStale
ASSUME Headers == RetryAfter \subseteq Nat \cup {Absent}

VARIABLES
  bucket,    \* limiter state of each endpoint group
  breaker,   \* _BreakerState of each group
  cached,    \* _orderbook_cache of the client
  inflight,  \* _orderbook_inflight: the leader of the request for a book
  books,     \* _cache of RestMarketDataProvider
  flight,    \* _inflight of RestMarketDataProvider: the owner of the fetch
  work,      \* the calls the threads of this program make
  th,        \* what each thread is doing
  credit     \* history: what an ideal bucket of the same budget would hold

vars == <<bucket, breaker, cached, inflight, books, flight, work, th, credit>>
caches == <<cached, inflight, books, flight, work>>

Group == {"market_data", "orders", "async"}
Op == {"bids", "top", "submit", "cancel", "order", "asubmit", "acancel"}
Kind == {"public", "read", "write", "aread", "awrite"}

\* Ages beyond this one are all the same to every comparison and property.
OldAge == MaxAge + MaxStale + ClientTTL + 1

Larger(a, b) == IF a >= b THEN a ELSE b
Smaller(a, b) == IF a <= b THEN a ELSE b

map_endpoint_group(kind) ==
  CASE kind = "public" -> "market_data"
    [] kind \in {"read", "write"} -> "orders"
    [] kind \in {"aread", "awrite"} -> "async"

Idle == [op |-> "top", at |-> "idle", kind |-> "public", todo |-> {}, key |-> Nobody,
         att |-> 0, slept |-> 0, wait |-> 0, ldr |-> Nobody, own |-> FALSE,
         usable |-> FALSE, joined |-> FALSE, val |-> Absent, old |-> 0, age |-> 0,
         fresh |-> FALSE, orders |-> 0, unsure |-> 0]

------------------------------------------------------------------------------
(* The token bucket.  `since` is the time since updated_at. *)

\* Mutant of Refill: the burst does not cap the credit.
RefillUncapped(b) == [b EXCEPT !.tokens = b.tokens + b.since * Rate, !.since = 0]

\* _refill: lazily credits the time that passed, up to the burst.
Refill(b) == [b EXCEPT !.tokens = Smaller(Burst, b.tokens + b.since * Rate), !.since = 0]

\* _wait_seconds_locked: no wait when the cooldown is over and a token is there.
\* acquire sleeps for the computed time and tries again; the sleep is the guard.
Ready(b) == b.cooldown = 0 /\ Refill(b).tokens >= 1

\* acquire / consume, under the limiter's lock.
TakeToken(b) == [Refill(b) EXCEPT !.tokens = @ - 1]

\* penalize_on_429: the bucket is emptied and closed, updated_at stays.
Penalized(b, ra) ==
  [b EXCEPT !.tokens = 0,
            !.cooldown = Larger(@, IF ra # Absent /\ ra > 0 THEN ra ELSE Penalty)]

\* _record_429 on the breaker of the group.
Counted429(s, ra) ==
  LET run == Smaller(Trip, s.run + 1) IN
  [run |-> run,
   open |-> IF run >= Trip
            THEN Larger(s.open, IF ra # Absent THEN ra ELSE BreakerCooldown)
            ELSE s.open]

record_429(g, ra) ==
  /\ bucket' = [bucket EXCEPT ![g] = Penalized(@, ra)]
  /\ breaker' = [breaker EXCEPT ![g] = Counted429(@, ra)]

\* _record_success resets the run of 429s; an open breaker stays open.
record_success(g) ==
  /\ breaker' = [breaker EXCEPT ![g].run = 0]
  /\ UNCHANGED bucket

------------------------------------------------------------------------------
(* Retries. *)

\* The answers of the exchange.  "malformed" is a payload the caller cannot
\* use (success = false, not an object, no order id, no depth); "silence" is a
\* timeout or a transport error, after which nobody knows what happened.
Answers == {"ok", "rate", "server", "client", "malformed", "silence"}

\* Mutant of Retried: writes are repeated after a 5xx as well.
RetriedWrites(kind) == {"rate", "server", "silence"}

\* What each request path tries again.  A private write is not repeated after
\* a 5xx, but it is after silence.
Retried(kind) ==
  IF kind = "write" THEN {"rate", "silence"} ELSE {"rate", "server", "silence"}

\* _compute_delay_ms and compute_delay: the header, or a jittered doubling.
Delays(kind, att, ra) ==
  LET raw == Smaller(MaxDelay, BaseDelay * 2^(att - 1))
      tenths == IF kind \in {"aread", "awrite"} THEN 8 .. 12 ELSE 5 .. 14
  IN IF ra # Absent THEN {Smaller(MaxDelay, ra)}
     ELSE {(raw * j) \div 10 : j \in tenths}

\* Mutant of MayRetry: one attempt too many.
MayRetryOnceMore(t, d) ==
  /\ th[t].att <= Attempts
  /\ th[t].kind \in {"aread", "awrite"} \/ th[t].slept + d <= SleepCap

\* The next attempt is made unless it is the last one or the waits add up to
\* more than the cap (the asynchronous client has no cap).
MayRetry(t, d) ==
  /\ th[t].att < Attempts
  /\ th[t].kind \in {"aread", "awrite"} \/ th[t].slept + d <= SleepCap

\* A 429 of a private request counts at once; that of a public one only when
\* _get gives up; the asynchronous client has neither breaker nor penalty.
Counts429(kind, last) == kind \in {"read", "write"} \/ (kind = "public" /\ last)

------------------------------------------------------------------------------
(* Starting a call. *)

Begin(t, op) ==
  /\ th[t].at = "idle" /\ t \in work[op]
  /\ \E k \in Key :
       th' = [th EXCEPT ![t] = [Idle EXCEPT !.op = op,
         !.at = CASE op = "bids" -> "book" [] op = "top" -> "client" [] OTHER -> "gate",
         !.kind = CASE op \in {"bids", "top", "submit"} -> "public"
                    [] op = "order" -> "read"
                    [] op = "cancel" -> "write"
                    [] op \in {"asubmit", "acancel"} -> "awrite",
         !.todo = IF op = "bids" THEN Key ELSE {},
         !.key = IF op = "top" THEN k ELSE Nobody]]
  /\ UNCHANGED <<bucket, breaker, caches, credit>>

Return(t) ==
  /\ th[t].at = "served"
  /\ th' = [th EXCEPT ![t] = Idle]
  /\ UNCHANGED <<bucket, breaker, caches, credit>>

------------------------------------------------------------------------------
(* MarketDataService.get_best_bids_with_freshness over RestMarketDataProvider. *)

\* The thread has the book of k, observed `a` ago.  After the last book the
\* verdict compares the age of fetched_at, taken when the snapshot began.
Collected(me, k, a) ==
  LET todo == me.todo \ {k} IN
  [me EXCEPT !.todo = todo, !.key = Nobody, !.own = FALSE, !.val = Absent, !.att = 0,
             !.slept = 0, !.ldr = Nobody, !.usable = FALSE,
             !.old = Larger(@, a),
             !.fresh = todo = {} /\ me.age <= MaxAge,
             !.at = IF todo = {} THEN "served" ELSE "book"]

BookAge(e) == Smaller(OldAge, e.age + e.lag)

IsFresh(k) == books[k] # Absent /\ books[k].age <= OrderbookTTL
\* Mutant of IsUsableStale: the fallback serves a book of any age.
IsUsableAtAnyAge(k) == books[k] # Absent
IsUsableStale(k) == books[k] # Absent /\ books[k].age <= MaxStale

\* The first critical section of _get_or_fetch.
GetOrFetch(t) ==
  /\ th[t].at = "book"
  /\ \E k \in th[t].todo :
       \/ /\ IsFresh(k)
          /\ th' = [th EXCEPT ![t] = Collected(@, k, BookAge(books[k]))]
          /\ UNCHANGED flight
       \/ /\ ~IsFresh(k)
          /\ flight[k] # Nobody
          /\ th' = [th EXCEPT ![t].at = "future", ![t].ldr = flight[k],
                              ![t].key = k, ![t].joined = TRUE]
          /\ UNCHANGED flight
       \/ /\ ~IsFresh(k)
          /\ flight[k] = Nobody
          /\ flight' = [flight EXCEPT ![k] = t]
          /\ th' = [th EXCEPT ![t].at = "client", ![t].key = k, ![t].own = TRUE,
               ![t].usable = IsUsableStale(k)]
  /\ UNCHANGED <<bucket, breaker, cached, inflight, books, work, credit>>

\* Threads that wait for the future of t get its value, or its exception.
Delivered(t, k, a) ==
  [u \in Thread |->
     IF th[u].at = "future" /\ th[u].ldr = t /\ th[u].key = k
     THEN IF a = Absent THEN Idle ELSE Collected(th[u], k, a)
     ELSE th[u]]

\* The owner's fetch succeeded: cache, release, future.set_result.
OwnerDone(t) ==
  LET k == th[t].key
      e == [age |-> 0, lag |-> th[t].val] IN
  /\ th[t].at = "got" /\ th[t].own
  /\ books' = [books EXCEPT ![k] = e]
  /\ flight' = [flight EXCEPT ![k] = Nobody]
  /\ th' = [Delivered(t, k, BookAge(e)) EXCEPT ![t] = Collected(th[t], k, BookAge(e))]
  /\ UNCHANGED <<bucket, breaker, cached, inflight, work, credit>>

\* Mutant of OwnerFailed: the future is left unresolved when the fetch raises.
OwnerFailedAlone(t) ==
  LET k == th[t].key IN
  /\ th[t].at = "failed" /\ th[t].own
  /\ flight' = [flight EXCEPT ![k] = Nobody]
  /\ IF th[t].usable
     THEN LET a == BookAge(books[k]) IN
          th' = [Delivered(t, k, a) EXCEPT ![t] = Collected(th[t], k, a)]
     ELSE th' = [th EXCEPT ![t] = Idle]
  /\ UNCHANGED <<bucket, breaker, cached, inflight, books, work, credit>>

\* The owner's fetch failed: a cached book that was young enough when the
\* fetch began is served to the owner and to its followers, else all fail.
OwnerFailed(t) ==
  LET k == th[t].key IN
  /\ th[t].at = "failed" /\ th[t].own
  /\ flight' = [flight EXCEPT ![k] = Nobody]
  /\ IF th[t].usable
     THEN LET a == BookAge(books[k]) IN
          th' = [Delivered(t, k, a) EXCEPT ![t] = Collected(th[t], k, a)]
     ELSE th' = [Delivered(t, k, Absent) EXCEPT ![t] = Idle]
  /\ UNCHANGED <<bucket, breaker, cached, inflight, books, work, credit>>

------------------------------------------------------------------------------
(* BtcturkHttpClient.get_orderbook and get_orderbook_with_timestamp. *)

CacheHit(k) == cached[k] # Absent /\ cached[k].left > 0

\* The first critical section: a hit, a follower, or the leader.
GetOrderbook(t) ==
  LET k == th[t].key IN
  /\ th[t].at = "client"
  /\ \/ /\ CacheHit(k)
        /\ th' = [th EXCEPT ![t].at = "got", ![t].val = cached[k].age]
        /\ UNCHANGED inflight
     \/ /\ ~CacheHit(k)
        /\ inflight[k] # Nobody
        /\ th' = [th EXCEPT ![t].at = "event", ![t].ldr = inflight[k],
                            ![t].wait = JoinTimeout]
        /\ UNCHANGED inflight
     \/ /\ ~CacheHit(k)
        /\ inflight[k] = Nobody
        /\ inflight' = [inflight EXCEPT ![k] = t]
        /\ th' = [th EXCEPT ![t].at = "gate"]
  /\ UNCHANGED <<bucket, breaker, cached, books, flight, work, credit>>

\* The leader's finally block: pop the event, then set it.
Release(t) ==
  LET k == th[t].key IN
  /\ th[t].at \in {"answered", "raised"}
  /\ inflight' = [inflight EXCEPT ![k] = Nobody]
  /\ th' = [u \in Thread |->
       IF u = t THEN [th[t] EXCEPT !.at = IF @ = "answered" THEN "got" ELSE "failed"]
       ELSE IF th[u].at = "event" /\ th[u].ldr = t
            THEN [th[u] EXCEPT !.at = "woken", !.wait = 0]
            ELSE th[u]]
  /\ UNCHANGED <<bucket, breaker, cached, books, flight, work, credit>>

\* A follower that was woken looks into the cache; one whose wait timed out fails.
Follow(t) ==
  LET k == th[t].key IN
  /\ \/ /\ th[t].at = "woken"
        /\ th' = [th EXCEPT ![t] =
             IF CacheHit(k)
             THEN [@ EXCEPT !.at = "got", !.val = cached[k].age, !.ldr = Nobody]
             ELSE [@ EXCEPT !.at = "failed", !.ldr = Nobody]]
     \/ /\ th[t].at = "event" /\ th[t].wait = 0
        /\ th' = [th EXCEPT ![t].at = "failed", ![t].ldr = Nobody]
  /\ UNCHANGED <<bucket, breaker, caches, credit>>

\* A direct call of get_orderbook returns or raises.
TopDone(t) ==
  /\ th[t].at \in {"got", "failed"} /\ ~th[t].own
  /\ th' = [th EXCEPT ![t] = Idle]
  /\ UNCHANGED <<bucket, breaker, caches, credit>>

------------------------------------------------------------------------------
(* One request: _get, _private_request, BtcturkRestClient.request. *)

\* The end of a call that was no request for a book.
Over(me) == [Idle EXCEPT !.op = me.op, !.at = "served", !.orders = me.orders,
                         !.unsure = me.unsure]

\* The call raised: to the leader's finally block for a book; submit_limit_order
\* goes on with default rules if it may; submit_order_safe and cancel_order_safe
\* look the order up when the status allows it; everybody else gets the error.
Raised(me, why) ==
  CASE me.op \in {"bids", "top"} -> [me EXCEPT !.at = "raised", !.att = 0, !.slept = 0,
                                                !.unsure = 0]
    [] me.op = "submit" /\ me.kind = "public" /\ ~RulesRequired ->
         [me EXCEPT !.at = "gate", !.kind = "write", !.att = 0, !.slept = 0]
    [] \/ me.op = "asubmit" /\ me.kind = "awrite" /\ why \in {"rate", "server"}
       \/ me.op = "acancel" /\ me.kind = "awrite" /\ why = "client" ->
         [me EXCEPT !.at = "gate", !.kind = "aread", !.att = 0, !.slept = 0]
    [] OTHER -> Over(me)

\* The call returned: the leader caches the book; submit_limit_order has its
\* rules, quantizes and either rejects the order itself or sends it.
Returned(me) ==
  CASE me.op \in {"bids", "top"} -> {[me EXCEPT !.at = "answered", !.val = 0, !.att = 0,
                                                 !.slept = 0, !.unsure = 0]}
    [] me.op = "submit" /\ me.kind = "public" ->
         {Over(me), [me EXCEPT !.at = "gate", !.kind = "write", !.att = 0, !.slept = 0]}
    [] OTHER -> {Over(me)}

\* _check_breaker, before each attempt.
CheckBreaker(t) ==
  LET g == map_endpoint_group(th[t].kind) IN
  /\ th[t].at = "gate"
  /\ th' = [th EXCEPT ![t] = IF breaker[g].open > 0 THEN Raised(@, "breaker")
                             ELSE [@ EXCEPT !.at = "token"]]
  /\ UNCHANGED <<bucket, breaker, caches, credit>>

\* The limiter lets the attempt through and the request goes out.
Acquire(t) ==
  LET g == map_endpoint_group(th[t].kind) IN
  /\ th[t].at = "token" /\ Ready(bucket[g])
  /\ bucket' = [bucket EXCEPT ![g] = TakeToken(@)]
  /\ credit' = [credit EXCEPT ![g] = @ - 1]
  /\ th' = [th EXCEPT ![t].at = "wire", ![t].att = @ + 1]
  /\ UNCHANGED <<breaker, caches>>

\* What the exchange may have done with an attempt of t that got answer o.
Executed(t, o) ==
  IF th[t].op \in {"submit", "asubmit"} /\ th[t].kind \in {"write", "awrite"}
  THEN CASE o = "ok" -> {1}
         [] o \in {"server", "silence", "malformed"} -> {0, 1}
         [] OTHER -> {0}
  ELSE {0}

\* The thread after an attempt, with the order the exchange made of it.
Tried(me, o, n) ==
  [me EXCEPT !.orders = @ + n,
             !.unsure = @ + IF \/ o = "silence" /\ me.kind \in {"write", "awrite"}
                               \/ o = "server" /\ me.kind = "awrite"
                            THEN 1 ELSE 0]

Answered(t) ==
  /\ th[t].at = "wire"
  /\ record_success(map_endpoint_group(th[t].kind))
  /\ \E n \in Executed(t, "ok") : \E me \in Returned(Tried(th[t], "ok", n)) :
       /\ th' = [th EXCEPT ![t] = me]
       /\ cached' = IF th[t].op \in {"bids", "top"}
                    THEN [cached EXCEPT ![th[t].key] = [left |-> ClientTTL, age |-> 0]]
                    ELSE cached
  /\ UNCHANGED <<inflight, books, flight, work, credit>>

\* An attempt failed and is made again after the delay.
Retry(t, o, ra, d) ==
  LET g == map_endpoint_group(th[t].kind) IN
  /\ th[t].at = "wire" /\ o \in Retried(th[t].kind) /\ MayRetry(t, d)
  /\ d \in Delays(th[t].kind, th[t].att, ra)
  /\ \E n \in Executed(t, o) :
       th' = [th EXCEPT ![t] = [Tried(th[t], o, n) EXCEPT
                !.at = "backoff", !.wait = d, !.slept = Smaller(SleepCap, @ + d)]]
  /\ IF o = "rate" /\ Counts429(th[t].kind, FALSE) THEN record_429(g, ra)
     ELSE UNCHANGED <<bucket, breaker>>
  /\ UNCHANGED <<caches, credit>>

\* The last attempt failed, or the failure is final.  A payload that only the
\* caller of the request path refuses was recorded as a success.
GiveUp(t, o, ra) ==
  LET g == map_endpoint_group(th[t].kind) IN
  /\ th[t].at = "wire" /\ o # "ok"
  /\ \/ o \notin Retried(th[t].kind)
     \/ \E d \in Delays(th[t].kind, th[t].att, ra) : ~MayRetry(t, d)
  /\ \E n \in Executed(t, o) : th' = [th EXCEPT ![t] = Raised(Tried(@, o, n), o)]
  /\ \/ o = "rate" /\ Counts429(th[t].kind, TRUE) /\ record_429(g, ra)
     \/ o = "malformed" /\ g # "async" /\ record_success(g)
     \/ ~(o = "rate" /\ Counts429(th[t].kind, TRUE)) /\ UNCHANGED <<bucket, breaker>>
  /\ UNCHANGED <<caches, credit>>

Backoff(t) ==
  /\ th[t].at = "backoff" /\ th[t].wait = 0
  /\ th' = [th EXCEPT ![t].at = "gate"]
  /\ UNCHANGED <<bucket, breaker, caches, credit>>

------------------------------------------------------------------------------
Down(n) == IF n > 0 THEN n - 1 ELSE 0
Older(a) == IF a = Absent THEN Absent ELSE Smaller(OldAge, a + 1)

\* Time passes while threads wait; computing takes less than a tick.
Waiting == {"idle", "future", "event", "token", "wire", "backoff"}

Tick ==
  /\ \A t \in Thread : th[t].at \in Waiting
  /\ bucket' = [g \in Group |->
       [bucket[g] EXCEPT !.since = Smaller(Burst, @ + 1), !.cooldown = Down(@)]]
  /\ breaker' = [g \in Group |-> [breaker[g] EXCEPT !.open = Down(@)]]
  /\ cached' = [k \in Key |-> IF cached[k] = Absent \/ cached[k].left <= 1 THEN Absent
                 ELSE [left |-> cached[k].left - 1, age |-> Older(cached[k].age)]]
  /\ books' = [k \in Key |-> IF books[k] = Absent THEN Absent
                             ELSE [books[k] EXCEPT !.age = Older(@)]]
  /\ th' = [t \in Thread |->
       IF th[t].at = "idle" THEN th[t]
       ELSE [th[t] EXCEPT !.wait = Down(@), !.val = Older(@),
               !.age = IF th[t].op = "bids" THEN Smaller(MaxAge + 1, @ + 1) ELSE 0,
               !.old = IF th[t].todo # Key /\ th[t].op = "bids" THEN Older(@) ELSE 0]]
  /\ credit' = [g \in Group |-> Smaller(Burst, credit[g] + Rate)]
  /\ UNCHANGED <<inflight, flight, work>>

Init ==
  /\ bucket = [g \in Group |-> [tokens |-> Burst, since |-> 0, cooldown |-> 0]]
  /\ breaker = [g \in Group |-> [run |-> 0, open |-> 0]]
  /\ cached = [k \in Key |-> Absent]
  /\ inflight = [k \in Key |-> Nobody]
  /\ books = [k \in Key |-> Absent]
  /\ flight = [k \in Key |-> Nobody]
  /\ work \in Workload
  /\ th = [t \in Thread |-> Idle]
  /\ credit = [g \in Group |-> Burst]

\* A step of the thread inside a call, sleeping for a token excepted.
Step(t) ==
  \/ Return(t) \/ GetOrFetch(t) \/ OwnerDone(t) \/ OwnerFailed(t)
  \/ GetOrderbook(t) \/ Release(t) \/ Follow(t) \/ TopDone(t)
  \/ CheckBreaker(t) \/ Answered(t) \/ Backoff(t)
  \/ \E o \in Answers \ {"ok"}, ra \in RetryAfter :
       /\ o # "rate" => ra = Absent
       /\ GiveUp(t, o, ra) \/ \E d \in 0 .. 2 * MaxDelay : Retry(t, o, ra, d)

Next ==
  \/ Tick
  \/ \E t \in Thread : Step(t) \/ Acquire(t) \/ \E op \in Op : Begin(t, op)

\* Time does not stop, threads are scheduled and every request has a timeout; the
\* limiter's sleepers get a token in the end if tokens keep coming.
Fairness == SF_vars(Tick) /\ \A t \in Thread : WF_vars(Step(t)) /\ SF_vars(Acquire(t))

Spec == Init /\ [][Next]_vars /\ Fairness

------------------------------------------------------------------------------
TypeOK ==
  /\ bucket \in [Group -> [tokens : 0 .. Burst, since : 0 .. Burst, cooldown : Nat]]
  /\ breaker \in [Group -> [run : 0 .. Trip, open : Nat]]
  /\ \A k \in Key :
       /\ cached[k] = Absent \/ cached[k] \in [left : 0 .. ClientTTL, age : 0 .. OldAge]
       /\ books[k] = Absent \/ books[k] \in [age : 0 .. OldAge, lag : 0 .. OldAge]
       /\ inflight[k] \in Thread \cup {Nobody} /\ flight[k] \in Thread \cup {Nobody}
  /\ \A t \in Thread : /\ th[t].op \in Op /\ th[t].kind \in Kind
                        /\ th[t].att \in 0 .. Attempts /\ th[t].slept \in 0 .. SleepCap
                        /\ th[t].orders \in 0 .. Attempts
  /\ credit \in [Group -> Int]

\* In every window of time no more requests of an endpoint group go out than
\* its burst plus what its rate allows: the lazily refilled bucket, with its
\* penalties and cooldowns, never grants what an eagerly refilled one would not.
WithinBudget == \A g \in Group : credit[g] >= 0

\* A submit call makes the exchange place a second order only where an earlier
\* attempt went unanswered; the asynchronous client also repeats a 5xx.
OneOrderPerSilence == \A t \in Thread : th[t].orders <= 1 + th[t].unsure

\* Bids that get_best_bids_with_freshness calls fresh are not older than the
\* age limit plus the staleness the fallback allows plus the client's cache, as
\* long as the call fetched for itself: the caches, the retries and the slow
\* failure of a fetch in between do not add up to more.
FreshBidsAreRecent ==
  \A t \in Thread : th[t].at = "served" /\ th[t].fresh /\ ~th[t].joined =>
                       th[t].old <= MaxAge + MaxStale + ClientTTL - 1

\* Every call ends: no follower waits for a leader that has gone, and cooldowns,
\* breakers, retries and empty buckets let go in the end.
EveryCallReturns == \A t \in Thread : th[t].at # "idle" ~> th[t].at = "idle"
=============================================================================
