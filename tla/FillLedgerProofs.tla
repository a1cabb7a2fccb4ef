-------------------------- MODULE FillLedgerProofs --------------------------
(***************************************************************************)
(* Theorems about FillLedger, for every set of trades, every lookback and  *)
(* every bound.                                                            *)
(***************************************************************************)
EXTENDS FillLedger, FiniteSetTheorems, SequenceTheorems, WellFoundedInduction, TLAPS

-----------------------------------------------------------------------------
(* Induction up to a bound                                                 *)

(* A set of naturals that is not empty has a least member. *)
LEMMA LeastMember ==
  ASSUME NEW T \in SUBSET Nat, T # {}
  PROVE  \E x \in T : \A y \in T : ~(y < x)
<1>1. PICK x \in T : \A y \in T : ~(<<y, x>> \in OpToRel(<, Nat))
  BY WFMin, NatLessThanWellFounded
<1>2. \A y \in T : y < x => <<y, x>> \in OpToRel(<, Nat)
  BY DEF OpToRel
<1> QED BY <1>1, <1>2

(* What holds at 0 and is passed on up to N holds up to N. *)
LEMMA UpTo ==
  ASSUME NEW N \in Nat, NEW S, 0 \in S, \A n \in 0..(N - 1) : n \in S => n + 1 \in S
  PROVE  \A n \in 0..N : n \in S
<1> DEFINE Bad == {n \in 0..N : n \notin S}
<1>1. SUFFICES ASSUME Bad # {} PROVE FALSE
  OBVIOUS
<1> Bad \in SUBSET Nat
  OBVIOUS
<1> HIDE DEF Bad
<1>2. PICK x \in Bad : \A y \in Bad : ~(y < x)
  BY <1>1, LeastMember
<1> USE DEF Bad
<1>3. x \in 1..N /\ x - 1 \in 0..(N - 1) /\ x - 1 + 1 = x
  BY <1>2
<1>4. x - 1 \in S
  BY <1>2, <1>3
<1> QED BY <1>2, <1>3, <1>4

(* A set of numbers up to n that is not empty has a largest member. *)
LEMMA LargestMember ==
  ASSUME NEW n \in Nat, NEW t \in SUBSET (0..n), t # {}
  PROVE  \E v \in t : \A y \in t : y <= v
<1> DEFINE T == {n - v : v \in t}
<1>1. \A v \in t : n - v \in Nat
  OBVIOUS
<1>2. T \in SUBSET Nat /\ T # {}
  BY <1>1, Zenon
<1> HIDE DEF T
<1>3. PICK x \in T : \A y \in T : ~(y < x)
  BY <1>2, LeastMember
<1>4. PICK v \in t : x = n - v
  BY DEF T
<1>5. \A y \in t : n - y \in T
  BY DEF T
<1>6. \A y \in t : y <= v
  BY <1>3, <1>4, <1>5
<1> QED BY <1>6

LEMMA MaxIsIn ==
  ASSUME NEW n \in Nat, NEW t \in SUBSET (1..n), t # {}
  PROVE  Max(t) \in t
<1>0. t \in SUBSET (0..n)
  OBVIOUS
<1>1. PICK v \in t : \A y \in t : y <= v
  BY <1>0, LargestMember
<1>2. \A y \in t : v >= y
  BY <1>1
<1> QED BY <1>2 DEF Max

(* The largest number of a set that has n and none beyond it. *)
LEMMA TopOfSet ==
  ASSUME NEW n \in Nat, NEW t \in SUBSET (1..n), n \in t
  PROVE  Max(t) = n
<1>1. \A y \in t : n >= y
  OBVIOUS
<1>2. Max(t) \in t /\ \A y \in t : Max(t) >= y
  BY <1>1 DEF Max
<1>3. Max(t) \in 1..n /\ Max(t) >= n
  BY <1>2
<1> QED BY <1>3

LEMMA Initial ==
  ASSUME NEW N \in Nat, NEW n \in 1..N
  PROVE  /\ 1..n \in SUBSET (1..N) /\ 1..n # {}
         /\ Max(1..n) = n /\ (1..n) \ {n} = 1..(n - 1)
<1>1. n \in Nat /\ 1..n \in SUBSET (1..n) /\ n \in 1..n
  OBVIOUS
<1>2. Max(1..n) = n
  BY <1>1, TopOfSet
<1>3. (1..n) \ {n} = 1..(n - 1)
  OBVIOUS
<1> QED BY <1>1, <1>2, <1>3

-----------------------------------------------------------------------------
(* Folds.  FoldLeft chooses one of the functions that satisfy a recursion  *)
(* over sets of positions; this shows that there is one.                   *)

Iterates(g, F, b, n) ==
  \A t \in SUBSET (1..n) : g[t] = IF t = {} THEN b ELSE F[<<g[t \ {Max(t)}], Max(t)>>]

LEMMA Recursion ==
  ASSUME NEW A, NEW N \in Nat, NEW b \in A, NEW F \in [A \X (1..N) -> A]
  PROVE  \E g \in [SUBSET (1..N) -> A] : Iterates(g, F, b, N)
<1> DEFINE Good == {n \in 0..N : \E g \in [SUBSET (1..n) -> A] : Iterates(g, F, b, n)}
<1>1. 0 \in Good
  <2>1. \A t \in SUBSET (1..0) : t = {}
    OBVIOUS
  <2>2. Iterates([t \in SUBSET (1..0) |-> b], F, b, 0)
    BY <2>1 DEF Iterates
  <2>3. [t \in SUBSET (1..0) |-> b] \in [SUBSET (1..0) -> A]
    OBVIOUS
  <2> QED BY <2>2, <2>3
<1>2. \A n \in 0..(N - 1) : n \in Good => n + 1 \in Good
  <2> SUFFICES ASSUME NEW n \in 0..(N - 1), n \in Good PROVE n + 1 \in Good
    OBVIOUS
  <2> PICK g \in [SUBSET (1..n) -> A] : Iterates(g, F, b, n)
    OBVIOUS
  <2> HIDE DEF Good
  <2> DEFINE f == [t \in SUBSET (1..(n + 1)) |->
                     IF n + 1 \in t THEN F[<<g[t \ {n + 1}], n + 1>>] ELSE g[t]]
  <2>1. ASSUME NEW t \in SUBSET (1..(n + 1)), n + 1 \in t
        PROVE  /\ t \ {n + 1} \in SUBSET (1..n) /\ t \ {n + 1} \in SUBSET (1..(n + 1))
               /\ f[t] = F[<<g[t \ {n + 1}], n + 1>>]
               /\ f[t] \in A
    BY <2>1
  <2>2. ASSUME NEW t \in SUBSET (1..(n + 1)), n + 1 \notin t
        PROVE  t \in SUBSET (1..n) /\ f[t] = g[t] /\ f[t] \in A
    BY <2>2
  <2>3. f \in [SUBSET (1..(n + 1)) -> A]
    BY <2>1, <2>2
  <2>4. ASSUME NEW t \in SUBSET (1..(n + 1))
        PROVE  f[t] = IF t = {} THEN b ELSE F[<<f[t \ {Max(t)}], Max(t)>>]
    <3>1. CASE n + 1 \in t
      <4>1. Max(t) = n + 1
        BY <3>1, TopOfSet
      <4>2. f[t \ {n + 1}] = g[t \ {n + 1}]
        <5>1. t \ {n + 1} \in SUBSET (1..(n + 1)) /\ n + 1 \notin t \ {n + 1}
          OBVIOUS
        <5> HIDE DEF f
        <5> QED BY <5>1, <2>2
      <4>3. f[t] = F[<<g[t \ {n + 1}], n + 1>>]
        BY <3>1, <2>1
      <4> HIDE DEF f
      <4> QED BY <3>1, <4>1, <4>2, <4>3
    <3>2. CASE n + 1 \notin t
      <4> HIDE DEF f
      <4>1. t \in SUBSET (1..n) /\ f[t] = g[t]
        BY <3>2, <2>2
      <4>2. f[t \ {Max(t)}] = g[t \ {Max(t)}]
        <5>1. t \ {Max(t)} \in SUBSET (1..(n + 1)) /\ n + 1 \notin t \ {Max(t)}
          BY <3>2
        <5> QED BY <5>1, <2>2
      <4> QED BY <4>1, <4>2 DEF Iterates
    <3> QED BY <3>1, <3>2
  <2> HIDE DEF f
  <2>5. Iterates(f, F, b, n + 1)
    BY <2>4 DEF Iterates
  <2> QED BY <2>3, <2>5 DEF Good
<1>3. N \in Good
  BY <1>1, <1>2, UpTo, N \in 0..N
<1> QED BY <1>3

-----------------------------------------------------------------------------
(* The four folds of the model as runs: one value for each prefix.         *)

State == [lots : Seq(Lot), realized : Int, fees : Nat, oversold : BOOLEAN]
Acc == [left : Nat, price : Nat, gain : Int, lots : Seq(Lot)]

(* The trades at the exchange, and what a number stands for. *)
Tape == trades \in Seq([kind : Kind, ts : 1..MaxTime])

LEMMA KindOf ==
  ASSUME Tape, NEW i \in DOMAIN trades
  PROVE  /\ K(i) \in [side : {"BUY", "SELL"}, qty : Nat \ {0}, price : Nat, fee : Nat]
         /\ K(i) \in Kind
         /\ trades[i].ts \in 1..MaxTime
<1>1. DOMAIN trades = 1..Len(trades)
  BY DEF Tape
<1>2. trades[i] \in [kind : Kind, ts : 1..MaxTime]
  BY <1>1, ElementOfSeq DEF Tape
<1> QED BY <1>2, LedgerAssumption DEF K

LEMMA BookType ==
  ASSUME Tape, NEW q \in Int, NEW i \in DOMAIN trades
  PROVE  Book(q, i) \in Int
BY KindOf DEF Book

LEMMA AddType ==
  ASSUME NEW q \in Nat, NEW lot \in Lot
  PROVE  Add(q, lot) \in Nat
BY DEF Add, Lot

LEMMA MatchType ==
  ASSUME NEW acc \in Acc, NEW lot \in Lot
  PROVE  Match(acc, lot) \in Acc
<1> DEFINE m == Least(acc.left, lot.qty)
<1>1. /\ m \in Nat /\ acc.left - m \in Nat /\ lot.qty - m \in Nat
      /\ acc.gain + (acc.price - lot.cost) * m \in Int
  BY DEF Least, Acc, Lot
<1>2. [lot EXCEPT !.qty = @ - m] \in Lot
  BY <1>1 DEF Lot
<1> HIDE DEF m
<1>3. (IF lot.qty > m THEN Append(acc.lots, [lot EXCEPT !.qty = @ - m]) ELSE acc.lots) \in Seq(Lot)
  BY <1>2, AppendProperties DEF Acc
<1> USE DEF m
<1> QED BY <1>1, <1>3 DEF Match, Acc

(* The position after each fill. *)
LEMMA BookFold ==
  ASSUME Tape, NEW b \in Int, NEW s \in Seq(DOMAIN trades)
  PROVE  \E h \in [0..Len(s) -> Int] :
           /\ h[0] = b /\ Booked(b, s) = h[Len(s)]
           /\ \A n \in 1..Len(s) : h[n] = Book(h[n - 1], s[n])
<1> DEFINE F == [x \in Int \X (1..Len(s)) |-> Book(x[1], s[x[2]])]
           Iter(g) == g = [t \in SUBSET (1..Len(s)) |->
                             IF t = {} THEN b ELSE Book(g[t \ {Max(t)}], s[Max(t)])]
           it == CHOOSE g : Iter(g)
           h == [n \in 0..Len(s) |-> it[1..n]]
<1>1. DOMAIN s = 1..Len(s) /\ Len(s) \in Nat
  OBVIOUS
<1>2. F \in [Int \X (1..Len(s)) -> Int]
  <2> SUFFICES ASSUME NEW x \in Int \X (1..Len(s)) PROVE Book(x[1], s[x[2]]) \in Int
    OBVIOUS
  <2> QED BY <1>1, BookType
<1>3. PICK g \in [SUBSET (1..Len(s)) -> Int] : Iterates(g, F, b, Len(s))
  BY <1>1, <1>2, Recursion
<1>4. ASSUME NEW t \in SUBSET (1..Len(s)), t # {}
      PROVE  t \ {Max(t)} \in SUBSET (1..Len(s)) /\ Max(t) \in 1..Len(s)
  BY <1>1, <1>4, MaxIsIn
<1>5. ASSUME NEW t \in SUBSET (1..Len(s)), NEW f \in [SUBSET (1..Len(s)) -> Int], t # {}
      PROVE  F[<<f[t \ {Max(t)}], Max(t)>>] = Book(f[t \ {Max(t)}], s[Max(t)])
  <2>1. <<f[t \ {Max(t)}], Max(t)>> \in Int \X (1..Len(s))
    BY <1>4, <1>5
  <2> QED BY <2>1
<1> HIDE DEF F
<1>6. Iter(g)
  BY <1>3, <1>5 DEF Iterates
<1>7. Iter(it)
  BY <1>6
<1>8. Booked(b, s) = it[1..Len(s)]
  BY <1>1 DEF Booked, FoldLeft, MapThenFoldSet
<1> HIDE DEF it
<1>9. it[1..0] = b
  <2>1. 1..0 = {} /\ {} \in SUBSET (1..Len(s))
    OBVIOUS
  <2> QED BY <1>7, <2>1
<1>10. ASSUME NEW n \in 1..Len(s) PROVE it[1..n] = Book(it[1..(n - 1)], s[n])
  <2>1. /\ 1..n \in SUBSET (1..Len(s)) /\ 1..n # {}
        /\ Max(1..n) = n /\ (1..n) \ {n} = 1..(n - 1)
    BY <1>1, Initial
  <2> QED BY <1>7, <2>1
<1>11. \A n \in 0..Len(s) : it[1..n] \in Int
  <2> DEFINE Good == {n \in 0..Len(s) : it[1..n] \in Int}
  <2>1. 0 \in Good
    BY <1>1, <1>9
  <2>2. \A n \in 0..(Len(s) - 1) : n \in Good => n + 1 \in Good
    <3> SUFFICES ASSUME NEW n \in 0..(Len(s) - 1), n \in Good PROVE n + 1 \in Good
      OBVIOUS
    <3>1. n + 1 \in 1..Len(s) /\ n + 1 - 1 = n /\ n + 1 \in 0..Len(s)
      BY <1>1
    <3>2. it[1..(n + 1)] = Book(it[1..n], s[n + 1])
      BY <1>10, <3>1
    <3>3. it[1..n] \in Int /\ s[n + 1] \in DOMAIN trades
      BY <3>1
    <3> QED BY <3>1, <3>2, <3>3, BookType
  <2> QED BY <1>1, <2>1, <2>2, UpTo
<1>12. h \in [0..Len(s) -> Int]
  BY <1>11
<1>13. \A n \in 1..Len(s) : h[n] = Book(h[n - 1], s[n])
  BY <1>1, <1>10
<1>14. h[0] = b /\ Booked(b, s) = h[Len(s)]
  BY <1>1, <1>8, <1>9
<1> HIDE DEF h
<1> QED BY <1>12, <1>13, <1>14

(* The quantity in the lots so far. *)
LEMMA AddFold ==
  ASSUME NEW s \in Seq(Lot)
  PROVE  \E h \in [0..Len(s) -> Nat] :
           /\ h[0] = 0 /\ Quantity(s) = h[Len(s)]
           /\ \A n \in 1..Len(s) : h[n] = Add(h[n - 1], s[n])
<1> DEFINE F == [x \in Nat \X (1..Len(s)) |-> Add(x[1], s[x[2]])]
           Iter(g) == g = [t \in SUBSET (1..Len(s)) |->
                             IF t = {} THEN 0 ELSE Add(g[t \ {Max(t)}], s[Max(t)])]
           it == CHOOSE g : Iter(g)
           h == [n \in 0..Len(s) |-> it[1..n]]
<1>1. DOMAIN s = 1..Len(s) /\ Len(s) \in Nat
  OBVIOUS
<1>2. F \in [Nat \X (1..Len(s)) -> Nat]
  <2> SUFFICES ASSUME NEW x \in Nat \X (1..Len(s)) PROVE Add(x[1], s[x[2]]) \in Nat
    OBVIOUS
  <2> QED BY <1>1, AddType
<1>3. PICK g \in [SUBSET (1..Len(s)) -> Nat] : Iterates(g, F, 0, Len(s))
  BY <1>1, <1>2, Recursion
<1>4. ASSUME NEW t \in SUBSET (1..Len(s)), t # {}
      PROVE  t \ {Max(t)} \in SUBSET (1..Len(s)) /\ Max(t) \in 1..Len(s)
  BY <1>1, <1>4, MaxIsIn
<1>5. ASSUME NEW t \in SUBSET (1..Len(s)), NEW f \in [SUBSET (1..Len(s)) -> Nat], t # {}
      PROVE  F[<<f[t \ {Max(t)}], Max(t)>>] = Add(f[t \ {Max(t)}], s[Max(t)])
  <2>1. <<f[t \ {Max(t)}], Max(t)>> \in Nat \X (1..Len(s))
    BY <1>4, <1>5
  <2> QED BY <2>1
<1> HIDE DEF F
<1>6. Iter(g)
  BY <1>3, <1>5 DEF Iterates
<1>7. Iter(it)
  BY <1>6
<1>8. Quantity(s) = it[1..Len(s)]
  BY <1>1 DEF Quantity, FoldLeft, MapThenFoldSet
<1> HIDE DEF it
<1>9. it[1..0] = 0
  <2>1. 1..0 = {} /\ {} \in SUBSET (1..Len(s))
    OBVIOUS
  <2> QED BY <1>7, <2>1
<1>10. ASSUME NEW n \in 1..Len(s) PROVE it[1..n] = Add(it[1..(n - 1)], s[n])
  <2>1. /\ 1..n \in SUBSET (1..Len(s)) /\ 1..n # {}
        /\ Max(1..n) = n /\ (1..n) \ {n} = 1..(n - 1)
    BY <1>1, Initial
  <2> QED BY <1>7, <2>1
<1>11. \A n \in 0..Len(s) : it[1..n] \in Nat
  <2> DEFINE Good == {n \in 0..Len(s) : it[1..n] \in Nat}
  <2>1. 0 \in Good
    BY <1>1, <1>9
  <2>2. \A n \in 0..(Len(s) - 1) : n \in Good => n + 1 \in Good
    <3> SUFFICES ASSUME NEW n \in 0..(Len(s) - 1), n \in Good PROVE n + 1 \in Good
      OBVIOUS
    <3>1. n + 1 \in 1..Len(s) /\ n + 1 - 1 = n /\ n + 1 \in 0..Len(s)
      BY <1>1
    <3>2. it[1..(n + 1)] = Add(it[1..n], s[n + 1])
      BY <1>10, <3>1
    <3>3. it[1..n] \in Nat /\ s[n + 1] \in Lot
      BY <3>1
    <3> QED BY <3>1, <3>2, <3>3, AddType
  <2> QED BY <1>1, <2>1, <2>2, UpTo
<1>12. h \in [0..Len(s) -> Nat]
  BY <1>11
<1>13. \A n \in 1..Len(s) : h[n] = Add(h[n - 1], s[n])
  BY <1>1, <1>10
<1>14. h[0] = 0 /\ Quantity(s) = h[Len(s)]
  BY <1>1, <1>8, <1>9
<1> HIDE DEF h
<1> QED BY <1>12, <1>13, <1>14

(* What is left of a sale after each lot. *)
LEMMA MatchFold ==
  ASSUME NEW b \in Acc, NEW s \in Seq(Lot)
  PROVE  \E h \in [0..Len(s) -> Acc] :
           /\ h[0] = b /\ Matched(b, s) = h[Len(s)]
           /\ \A n \in 1..Len(s) : h[n] = Match(h[n - 1], s[n])
<1> DEFINE F == [x \in Acc \X (1..Len(s)) |-> Match(x[1], s[x[2]])]
           Iter(g) == g = [t \in SUBSET (1..Len(s)) |->
                             IF t = {} THEN b ELSE Match(g[t \ {Max(t)}], s[Max(t)])]
           it == CHOOSE g : Iter(g)
           h == [n \in 0..Len(s) |-> it[1..n]]
<1>1. DOMAIN s = 1..Len(s) /\ Len(s) \in Nat
  OBVIOUS
<1>2. F \in [Acc \X (1..Len(s)) -> Acc]
  <2> SUFFICES ASSUME NEW x \in Acc \X (1..Len(s)) PROVE Match(x[1], s[x[2]]) \in Acc
    OBVIOUS
  <2> QED BY <1>1, MatchType
<1>3. PICK g \in [SUBSET (1..Len(s)) -> Acc] : Iterates(g, F, b, Len(s))
  BY <1>1, <1>2, Recursion
<1>4. ASSUME NEW t \in SUBSET (1..Len(s)), t # {}
      PROVE  t \ {Max(t)} \in SUBSET (1..Len(s)) /\ Max(t) \in 1..Len(s)
  BY <1>1, <1>4, MaxIsIn
<1>5. ASSUME NEW t \in SUBSET (1..Len(s)), NEW f \in [SUBSET (1..Len(s)) -> Acc], t # {}
      PROVE  F[<<f[t \ {Max(t)}], Max(t)>>] = Match(f[t \ {Max(t)}], s[Max(t)])
  <2>1. <<f[t \ {Max(t)}], Max(t)>> \in Acc \X (1..Len(s))
    BY <1>4, <1>5
  <2> QED BY <2>1
<1> HIDE DEF F
<1>6. Iter(g)
  BY <1>3, <1>5 DEF Iterates
<1>7. Iter(it)
  BY <1>6
<1>8. Matched(b, s) = it[1..Len(s)]
  BY <1>1 DEF Matched, FoldLeft, MapThenFoldSet
<1> HIDE DEF it
<1>9. it[1..0] = b
  <2>1. 1..0 = {} /\ {} \in SUBSET (1..Len(s))
    OBVIOUS
  <2> QED BY <1>7, <2>1
<1>10. ASSUME NEW n \in 1..Len(s) PROVE it[1..n] = Match(it[1..(n - 1)], s[n])
  <2>1. /\ 1..n \in SUBSET (1..Len(s)) /\ 1..n # {}
        /\ Max(1..n) = n /\ (1..n) \ {n} = 1..(n - 1)
    BY <1>1, Initial
  <2> QED BY <1>7, <2>1
<1>11. \A n \in 0..Len(s) : it[1..n] \in Acc
  <2> DEFINE Good == {n \in 0..Len(s) : it[1..n] \in Acc}
  <2>1. 0 \in Good
    BY <1>1, <1>9
  <2>2. \A n \in 0..(Len(s) - 1) : n \in Good => n + 1 \in Good
    <3> SUFFICES ASSUME NEW n \in 0..(Len(s) - 1), n \in Good PROVE n + 1 \in Good
      OBVIOUS
    <3>1. n + 1 \in 1..Len(s) /\ n + 1 - 1 = n /\ n + 1 \in 0..Len(s)
      BY <1>1
    <3>2. it[1..(n + 1)] = Match(it[1..n], s[n + 1])
      BY <1>10, <3>1
    <3>3. it[1..n] \in Acc /\ s[n + 1] \in Lot
      BY <3>1
    <3> QED BY <3>1, <3>2, <3>3, MatchType
  <2> QED BY <1>1, <2>1, <2>2, UpTo
<1>12. h \in [0..Len(s) -> Acc]
  BY <1>11
<1>13. \A n \in 1..Len(s) : h[n] = Match(h[n - 1], s[n])
  BY <1>1, <1>10
<1>14. h[0] = b /\ Matched(b, s) = h[Len(s)]
  BY <1>1, <1>8, <1>9
<1> HIDE DEF h
<1> QED BY <1>12, <1>13, <1>14

-----------------------------------------------------------------------------
(* What the reducer keeps: the types of its state.                         *)

LEMMA SaleType ==
  ASSUME NEW k \in [side : {"BUY", "SELL"}, qty : Nat \ {0}, price : Nat, fee : Nat],
         NEW lots \in Seq(Lot)
  PROVE  Sale(k, lots) \in Acc
<1> DEFINE b == [left |-> k.qty, price |-> k.price, gain |-> 0, lots |-> <<>>]
<1>1. b \in Acc
  BY DEF Acc
<1> HIDE DEF b
<1>2. PICK h \in [0..Len(lots) -> Acc] : Matched(b, lots) = h[Len(lots)]
  BY <1>1, MatchFold
<1>3. Len(lots) \in 0..Len(lots)
  OBVIOUS
<1> QED BY <1>2, <1>3 DEF Sale, b

LEMMA EventType ==
  ASSUME Tape, NEW st \in State, NEW i \in DOMAIN trades
  PROVE  ApplyEvent(st, i) \in State
<1> DEFINE k == K(i)
           sale == Sale(k, st.lots)
<1>1. k \in [side : {"BUY", "SELL"}, qty : Nat \ {0}, price : Nat, fee : Nat]
  BY KindOf
<1>2. sale \in Acc
  BY <1>1, SaleType DEF State
<1>3. Append(st.lots, [qty |-> k.qty, cost |-> k.price]) \in Seq(Lot)
  <2>1. [qty |-> k.qty, cost |-> k.price] \in Lot
    BY <1>1 DEF Lot
  <2> QED BY <2>1, AppendProperties DEF State
<1> HIDE DEF sale, k
<1>4. ApplyEvent(st, i) =
        IF k.side = "BUY"
          THEN [st EXCEPT !.lots = Append(@, [qty |-> k.qty, cost |-> k.price]),
                          !.fees = @ + k.fee]
          ELSE [st EXCEPT !.lots = sale.lots, !.realized = @ + sale.gain,
                          !.fees = @ + k.fee, !.oversold = @ \/ sale.left > 0]
  BY DEF ApplyEvent, k, sale
<1>5. st.fees + k.fee \in Nat /\ st.realized + sale.gain \in Int /\ sale.lots \in Seq(Lot)
  BY <1>1, <1>2 DEF State, Acc
<1>6. (st.oversold \/ sale.left > 0) \in BOOLEAN
  OBVIOUS
<1> QED BY <1>3, <1>4, <1>5, <1>6 DEF State

(* The state of the ledger after each event. *)
LEMMA EventFold ==
  ASSUME Tape, NEW b \in State, NEW s \in Seq(DOMAIN trades)
  PROVE  \E h \in [0..Len(s) -> State] :
           /\ h[0] = b /\ Replayed(b, s) = h[Len(s)]
           /\ \A n \in 1..Len(s) : h[n] = ApplyEvent(h[n - 1], s[n])
<1> DEFINE F == [x \in State \X (1..Len(s)) |-> ApplyEvent(x[1], s[x[2]])]
           Iter(g) == g = [t \in SUBSET (1..Len(s)) |->
                             IF t = {} THEN b ELSE ApplyEvent(g[t \ {Max(t)}], s[Max(t)])]
           it == CHOOSE g : Iter(g)
           h == [n \in 0..Len(s) |-> it[1..n]]
<1>1. DOMAIN s = 1..Len(s) /\ Len(s) \in Nat
  OBVIOUS
<1>2. F \in [State \X (1..Len(s)) -> State]
  <2> SUFFICES ASSUME NEW x \in State \X (1..Len(s)) PROVE ApplyEvent(x[1], s[x[2]]) \in State
    OBVIOUS
  <2> QED BY <1>1, EventType
<1>3. PICK g \in [SUBSET (1..Len(s)) -> State] : Iterates(g, F, b, Len(s))
  BY <1>1, <1>2, Recursion
<1>4. ASSUME NEW t \in SUBSET (1..Len(s)), t # {}
      PROVE  t \ {Max(t)} \in SUBSET (1..Len(s)) /\ Max(t) \in 1..Len(s)
  BY <1>1, <1>4, MaxIsIn
<1>5. ASSUME NEW t \in SUBSET (1..Len(s)), NEW f \in [SUBSET (1..Len(s)) -> State], t # {}
      PROVE  F[<<f[t \ {Max(t)}], Max(t)>>] = ApplyEvent(f[t \ {Max(t)}], s[Max(t)])
  <2>1. <<f[t \ {Max(t)}], Max(t)>> \in State \X (1..Len(s))
    BY <1>4, <1>5
  <2> QED BY <2>1
<1> HIDE DEF F
<1>6. Iter(g)
  BY <1>3, <1>5 DEF Iterates
<1>7. Iter(it)
  BY <1>6
<1>8. Replayed(b, s) = it[1..Len(s)]
  BY <1>1 DEF Replayed, FoldLeft, MapThenFoldSet
<1> HIDE DEF it
<1>9. it[1..0] = b
  <2>1. 1..0 = {} /\ {} \in SUBSET (1..Len(s))
    OBVIOUS
  <2> QED BY <1>7, <2>1
<1>10. ASSUME NEW n \in 1..Len(s) PROVE it[1..n] = ApplyEvent(it[1..(n - 1)], s[n])
  <2>1. /\ 1..n \in SUBSET (1..Len(s)) /\ 1..n # {}
        /\ Max(1..n) = n /\ (1..n) \ {n} = 1..(n - 1)
    BY <1>1, Initial
  <2> QED BY <1>7, <2>1
<1>11. \A n \in 0..Len(s) : it[1..n] \in State
  <2> DEFINE Good == {n \in 0..Len(s) : it[1..n] \in State}
  <2>1. 0 \in Good
    BY <1>1, <1>9
  <2>2. \A n \in 0..(Len(s) - 1) : n \in Good => n + 1 \in Good
    <3> SUFFICES ASSUME NEW n \in 0..(Len(s) - 1), n \in Good PROVE n + 1 \in Good
      OBVIOUS
    <3>1. n + 1 \in 1..Len(s) /\ n + 1 - 1 = n /\ n + 1 \in 0..Len(s)
      BY <1>1
    <3>2. it[1..(n + 1)] = ApplyEvent(it[1..n], s[n + 1])
      BY <1>10, <3>1
    <3>3. it[1..n] \in State /\ s[n + 1] \in DOMAIN trades
      BY <3>1
    <3> QED BY <3>1, <3>2, <3>3, EventType
  <2> QED BY <1>1, <2>1, <2>2, UpTo
<1>12. h \in [0..Len(s) -> State]
  BY <1>11
<1>13. \A n \in 1..Len(s) : h[n] = ApplyEvent(h[n - 1], s[n])
  BY <1>1, <1>10
<1>14. h[0] = b /\ Replayed(b, s) = h[Len(s)]
  BY <1>1, <1>8, <1>9
<1> HIDE DEF h
<1> QED BY <1>12, <1>13, <1>14

-----------------------------------------------------------------------------
(* Sorted lists each fill of a set once, the oldest first.                 *)

Rank(S, i) == Cardinality({j \in S : Before(j, i)})

LEMMA BeforeOrders ==
  ASSUME Tape
  PROVE  /\ \A i \in DOMAIN trades : ~Before(i, i)
         /\ \A i, j \in DOMAIN trades : i = j \/ Before(i, j) \/ Before(j, i)
         /\ \A i, j \in DOMAIN trades : ~(Before(i, j) /\ Before(j, i))
         /\ \A i, j, k \in DOMAIN trades : Before(i, j) /\ Before(j, k) => Before(i, k)
<1>1. \A i \in DOMAIN trades : i \in Int /\ trades[i].ts \in Int
  BY KindOf DEF Tape
<1> QED BY <1>1 DEF Before

LEMMA FillsAreFinite ==
  ASSUME Tape, NEW S \in SUBSET DOMAIN trades
  PROVE  IsFiniteSet(S) /\ Cardinality(S) \in Nat
<1>1. DOMAIN trades = 1..Len(trades) /\ Len(trades) \in Nat
  BY DEF Tape
<1>2. IsFiniteSet(DOMAIN trades)
  BY <1>1, FS_Interval
<1> QED BY <1>2, FS_Subset, FS_CardinalityType

LEMMA RankBound ==
  ASSUME Tape, NEW S \in SUBSET DOMAIN trades, NEW i \in S
  PROVE  Rank(S, i) \in 0..(Cardinality(S) - 1)
<1> DEFINE P == {j \in S : Before(j, i)}
<1>1. P \in SUBSET (S \ {i}) /\ P \in SUBSET DOMAIN trades
  BY BeforeOrders
<1>2. IsFiniteSet(S) /\ Cardinality(S) \in Nat /\ Cardinality(P) \in Nat
  BY <1>1, FillsAreFinite
<1>3. IsFiniteSet(S \ {i}) /\ Cardinality(S \ {i}) = Cardinality(S) - 1
  BY <1>2, FS_RemoveElement
<1>4. Cardinality(P) <= Cardinality(S \ {i})
  BY <1>1, <1>3, FS_Subset
<1> QED BY <1>2, <1>3, <1>4 DEF Rank

LEMMA RankGrows ==
  ASSUME Tape, NEW S \in SUBSET DOMAIN trades, NEW i \in S, NEW j \in S, Before(i, j)
  PROVE  Rank(S, i) < Rank(S, j)
<1> DEFINE P == {k \in S : Before(k, i)}
           Q == {k \in S : Before(k, j)}
<1>1. i \notin P /\ P \cup {i} \in SUBSET Q /\ P \in SUBSET DOMAIN trades /\ Q \in SUBSET DOMAIN trades
  BY BeforeOrders
<1>2. IsFiniteSet(P) /\ Cardinality(P) \in Nat /\ IsFiniteSet(Q) /\ Cardinality(Q) \in Nat
  BY <1>1, FillsAreFinite
<1>3. Cardinality(P \cup {i}) = Cardinality(P) + 1
  BY <1>1, <1>2, FS_AddElement
<1>4. Cardinality(P \cup {i}) <= Cardinality(Q)
  BY <1>1, <1>2, FS_Subset
<1> QED BY <1>2, <1>3, <1>4 DEF Rank

LEMMA RanksDiffer ==
  ASSUME Tape, NEW S \in SUBSET DOMAIN trades, NEW i \in S, NEW j \in S, Rank(S, i) = Rank(S, j)
  PROVE  i = j
<1>0. Rank(S, i) \in Int /\ Rank(S, j) \in Int
  BY RankBound, FillsAreFinite
<1>1. ~(Rank(S, i) < Rank(S, j)) /\ ~(Rank(S, j) < Rank(S, i))
  BY <1>0
<1> QED BY <1>1, RankGrows, BeforeOrders

LEMMA EveryRank ==
  ASSUME Tape, NEW S \in SUBSET DOMAIN trades, NEW n \in 1..Cardinality(S)
  PROVE  \E i \in S : Rank(S, i) = n - 1
<1> DEFINE N == Cardinality(S)
           f == [i \in S |-> Rank(S, i) + 1]
<1>1. IsFiniteSet(S) /\ N \in Nat
  BY FillsAreFinite
<1>2. IsFiniteSet(1..N) /\ Cardinality(1..N) = N
  BY <1>1, FS_Interval
<1>3. \A i \in S : f[i] \in 1..N /\ f[i] - 1 = Rank(S, i)
  <2> TAKE i \in S
  <2>1. f[i] = Rank(S, i) + 1
    OBVIOUS
  <2>2. Rank(S, i) \in 0..(N - 1)
    BY RankBound
  <2> QED BY <1>1, <2>1, <2>2
<1>4. f \in Injection(S, 1..N)
  <2>1. \A i, j \in S : f[i] = f[j] => i = j
    BY <1>3, RanksDiffer
  <2>2. f \in [S -> 1..N]
    BY <1>3
  <2> QED BY <2>1, <2>2 DEF Injection, IsInjective
<1>5. f \in Surjection(S, 1..N)
  BY <1>1, <1>2, <1>4, FS_Injection
<1>6. PICK i \in S : f[i] = n
  BY <1>5 DEF Surjection
<1> QED BY <1>3, <1>6

LEMMA SortedAt ==
  ASSUME Tape, NEW S \in SUBSET DOMAIN trades, NEW n \in 1..Cardinality(S)
  PROVE  Sorted(S)[n] \in S /\ Rank(S, Sorted(S)[n]) = n - 1
BY EveryRank DEF Sorted, Rank

LEMMA SortedProps ==
  ASSUME Tape, NEW S \in SUBSET DOMAIN trades
  PROVE  /\ Cardinality(S) \in Nat
         /\ Sorted(S) \in Seq(S) /\ Len(Sorted(S)) = Cardinality(S)
         /\ DOMAIN Sorted(S) = 1..Cardinality(S)
         /\ ToSet(Sorted(S)) = S
         /\ \A m, n \in 1..Cardinality(S) : Sorted(S)[m] = Sorted(S)[n] => m = n
         /\ \A m, n \in 1..Cardinality(S) : m < n => Before(Sorted(S)[m], Sorted(S)[n])
         /\ \A i \in S : Sorted(S)[Rank(S, i) + 1] = i
<1> DEFINE N == Cardinality(S)
<1>1. N \in Nat /\ DOMAIN Sorted(S) = 1..N
  BY FillsAreFinite DEF Sorted
<1>2. \A n \in 1..N : Sorted(S)[n] \in S /\ Rank(S, Sorted(S)[n]) = n - 1
  BY SortedAt
<1>3. Sorted(S) \in [1..N -> S]
  <2> DEFINE e(n) == CHOOSE i \in S : Cardinality({j \in S : Before(j, i)}) = n - 1
  <2>1. Sorted(S) = [n \in 1..N |-> e(n)]
    BY DEF Sorted
  <2> HIDE DEF e
  <2>2. \A n \in 1..N : e(n) \in S
    BY <1>2, <2>1
  <2> QED BY <2>1, <2>2
<1>4. Sorted(S) \in Seq(S) /\ Len(Sorted(S)) = N
  BY <1>1, <1>3
<1>5. \A i \in S : Rank(S, i) + 1 \in 1..N /\ Rank(S, i) + 1 - 1 = Rank(S, i)
  <2> TAKE i \in S
  <2> QED BY RankBound, <1>1
<1>6. \A i \in S : Sorted(S)[Rank(S, i) + 1] = i
  <2> TAKE i \in S
  <2> DEFINE m == Rank(S, i) + 1
  <2>1. m \in 1..N /\ m - 1 = Rank(S, i)
    BY RankBound, <1>1
  <2> HIDE DEF m
  <2>2. Sorted(S)[m] \in S /\ Rank(S, Sorted(S)[m]) = Rank(S, i)
    <3>1. Sorted(S)[m] \in S /\ Rank(S, Sorted(S)[m]) = m - 1
      BY <1>2, <2>1
    <3> QED BY <2>1, <3>1, Zenon
  <2>3. Sorted(S)[m] = i
    BY <2>2, RanksDiffer
  <2> QED BY <2>3 DEF m
<1>7. ToSet(Sorted(S)) = S
  BY <1>1, <1>2, <1>5, <1>6 DEF ToSet
<1>8. \A m, n \in 1..N : Sorted(S)[m] = Sorted(S)[n] => m = n
  <2> SUFFICES ASSUME NEW m \in 1..N, NEW n \in 1..N, Sorted(S)[m] = Sorted(S)[n] PROVE m = n
    OBVIOUS
  <2>1. m - 1 = n - 1
    BY <1>2
  <2> QED BY <2>1, <1>1
<1>9. \A m, n \in 1..N : m < n => Before(Sorted(S)[m], Sorted(S)[n])
  <2> SUFFICES ASSUME NEW m \in 1..N, NEW n \in 1..N, m < n PROVE Before(Sorted(S)[m], Sorted(S)[n])
    OBVIOUS
  <2>1. Sorted(S)[m] # Sorted(S)[n]
    BY <1>8, <1>1
  <2>2. ~(Rank(S, Sorted(S)[n]) < Rank(S, Sorted(S)[m]))
    BY <1>1, <1>2
  <2> QED BY <1>2, <2>1, <2>2, RankGrows, BeforeOrders
<1> QED BY <1>1, <1>4, <1>6, <1>7, <1>8, <1>9

-----------------------------------------------------------------------------
(* Types                                                                   *)

Checkpoint == [rowid : Nat, state : State, usable : BOOLEAN]
Typed == TypeOK /\ ckpt \in Checkpoint

LEMMA TypedTape ==
  ASSUME Typed
  PROVE  /\ Tape /\ DOMAIN trades = 1..Len(trades) /\ Len(trades) \in Nat
         /\ rows \in Seq(DOMAIN trades) /\ DOMAIN rows = 1..Len(rows) /\ Len(rows) \in Nat
         /\ ToSet(rows) \in SUBSET DOMAIN trades
<1>1. /\ trades \in Seq([kind : Kind, ts : 1..MaxTime])
      /\ rows \in Seq(DOMAIN trades)
  BY DEF Typed, TypeOK
<1>2. DOMAIN rows = 1..Len(rows) /\ Len(rows) \in Nat
  BY <1>1
<1>3. \A n \in 1..Len(rows) : rows[n] \in DOMAIN trades
  BY <1>1, ElementOfSeq
<1> QED BY <1>1, <1>2, <1>3 DEF Tape, ToSet

LEMMA SortedFills ==
  ASSUME Tape, NEW S \in SUBSET DOMAIN trades
  PROVE  Sorted(S) \in Seq(DOMAIN trades)
BY SortedProps, SeqMonotonic

LEMMA EmptyType == Empty \in State
BY DEF Empty, State

LEMMA FromType ==
  ASSUME Typed
  PROVE  /\ From \in Checkpoint /\ From.rowid \in 0..Len(rows) /\ ~From.state.oversold
         /\ Delta \in SUBSET DOMAIN trades
<1>1. NoCheckpoint \in Checkpoint /\ ~NoCheckpoint.state.oversold /\ NoCheckpoint.rowid = 0
  BY EmptyType DEF NoCheckpoint, Checkpoint, Empty
<1>2. From \in Checkpoint /\ From.rowid \in 0..Len(rows) /\ ~From.state.oversold
  BY <1>1, TypedTape DEF From, Typed, TypeOK
<1>3. \A n \in (From.rowid + 1)..Len(rows) : rows[n] \in DOMAIN trades
  BY <1>2, TypedTape, ElementOfSeq
<1> QED BY <1>2, <1>3 DEF Delta

LEMMA ApplyEventsType ==
  ASSUME Tape, NEW st \in State, NEW S \in SUBSET DOMAIN trades
  PROVE  ApplyEvents(st, S) \in State
<1>1. Sorted(S) \in Seq(DOMAIN trades)
  BY SortedFills
<1>2. PICK h \in [0..Len(Sorted(S)) -> State] : Replayed(st, Sorted(S)) = h[Len(Sorted(S))]
  BY <1>1, EventFold
<1>3. Len(Sorted(S)) \in 0..Len(Sorted(S))
  BY <1>1
<1> QED BY <1>2, <1>3 DEF ApplyEvents

LEMMA BookedType ==
  ASSUME Tape, NEW b \in Int, NEW s \in Seq(DOMAIN trades)
  PROVE  Booked(b, s) \in Int
<1>1. PICK h \in [0..Len(s) -> Int] : Booked(b, s) = h[Len(s)]
  BY BookFold
<1>2. Len(s) \in 0..Len(s)
  OBVIOUS
<1> QED BY <1>1, <1>2

LEMMA BookedNothing ==
  ASSUME Tape, NEW b \in Int, NEW s \in Seq(DOMAIN trades), Len(s) = 0
  PROVE  Booked(b, s) = b
<1>1. PICK h \in [0..Len(s) -> Int] : h[0] = b /\ Booked(b, s) = h[Len(s)]
  BY BookFold, Zenon
<1> QED BY <1>1

(* A transaction that is not rolled back leaves no short position. *)
LEMMA CommitPosition ==
  ASSUME Typed, ~Oversell
  PROVE  Booked(position, Fresh) \in Nat
<1>1. Tape /\ batch \subseteq DOMAIN trades /\ position \in Nat
  BY TypedTape DEF Typed, TypeOK
<1>2. Fresh \in Seq(DOMAIN trades)
  BY <1>1, SortedFills DEF Fresh
<1>3. Booked(position, Fresh) \in Int
  <2>1. position \in Int
    BY <1>1
  <2> QED BY <1>1, <1>2, <2>1, BookedType, Zenon
<1>4. CASE Len(Fresh) = 0
  <2>1. position \in Int
    BY <1>1
  <2>2. Booked(position, Fresh) = position
    BY <1>1, <1>2, <1>4, <2>1, BookedNothing, Zenon
  <2> QED BY <1>1, <2>2
<1>5. CASE Len(Fresh) # 0
  <2>1. Len(Fresh) \in 1..Len(Fresh)
    BY <1>2, <1>5
  <2>2. SubSeq(Fresh, 1, Len(Fresh)) = Fresh
    BY <1>2, SubSeqFull
  <2>3. ~(Booked(position, SubSeq(Fresh, 1, Len(Fresh))) < 0)
    BY <2>1 DEF Oversell
  <2>4. ~(Booked(position, Fresh) < 0)
    BY <2>2, <2>3
  <2> QED BY <1>3, <2>4
<1> QED BY <1>4, <1>5

(* Nothing is dated after the clock. *)
Clock ==
  /\ \A i \in DOMAIN trades : trades[i].ts <= now
  /\ cursor <= now /\ newCursor <= now

LEMMA FetchedCursor ==
  ASSUME Typed, Clock, Fetch
  PROVE  /\ newCursor' \in {None} \cup 1..now
         /\ \A i \in shown : trades[i].ts >= Since => newCursor' # None
<1> DEFINE got == {i \in shown : trades[i].ts >= Since}
           last == {trades[i].ts : i \in got} \cup {IF cursor = None THEN 0 ELSE cursor}
           top == CHOOSE t \in last : \A u \in last : u <= t
<1>1. now \in Nat /\ now \in 1..MaxTime /\ cursor \in {None} \cup 0..MaxTime /\ got \in SUBSET DOMAIN trades
  BY LedgerAssumption DEF Typed, TypeOK
<1>2. \A i \in DOMAIN trades : trades[i].ts \in 1..now
  BY <1>1, TypedTape, KindOf DEF Clock
<1>3. last \in SUBSET (0..now) /\ last # {}
  BY <1>1, <1>2 DEF Clock, None
<1>4. \E t \in last : \A u \in last : u <= t
  BY <1>1, <1>3, LargestMember
<1>5. top \in last /\ \A u \in last : u <= top
  BY <1>4
<1>6. newCursor' = IF top > 0 THEN top ELSE None
  BY DEF Fetch
<1>7. \A i \in got : trades[i].ts \in last /\ trades[i].ts \in 1..now
  BY <1>1, <1>2
<1> HIDE DEF top, last
<1>8. top \in 0..now
  BY <1>3, <1>5
<1>9. \A i \in got : top > 0
  BY <1>5, <1>7, <1>8
<1> QED BY <1>6, <1>8, <1>9 DEF None

LEMMA BaseFetch ==
  ASSUME Typed, Clock, Fetch \/ FetchFails
  PROVE  (Typed /\ Clock)'
<1>1. CASE Fetch
  <2>1. newCursor' \in {None} \cup 1..now /\ now \in 1..MaxTime /\ now <= MaxTime
    BY <1>1, FetchedCursor DEF Typed, TypeOK
  <2>2. newCursor' \in {None} \cup 0..MaxTime /\ newCursor' <= now
    BY <2>1, LedgerAssumption DEF None
  <2>3. batch' \subseteq DOMAIN trades /\ outside' \subseteq DOMAIN trades
    BY <1>1 DEF Fetch, Typed, TypeOK
  <2> QED BY <1>1, <2>2, <2>3 DEF Fetch, Typed, TypeOK, Clock, market, books
<1>2. CASE FetchFails
  <2>1. now \in Nat
    BY LedgerAssumption DEF Typed, TypeOK
  <2> QED BY <1>2, <2>1 DEF FetchFails, Typed, TypeOK, Clock, market, books, None
<1> QED BY <1>1, <1>2

LEMMA BaseCommit ==
  ASSUME Typed, Clock, NEW failed \in BOOLEAN, Commit(failed)
  PROVE  (Typed /\ Clock)'
<1>1. batch \ ToSet(rows) \in SUBSET DOMAIN trades /\ batch \subseteq DOMAIN trades
  BY DEF Typed, TypeOK
<1>2. Sorted(batch \ ToSet(rows)) \in Seq(DOMAIN trades)
  BY <1>1, TypedTape, SortedFills
<1>3. rows' \in Seq(DOMAIN trades) /\ Len(rows') = Len(rows) + Len(Sorted(batch \ ToSet(rows)))
  BY <1>2, TypedTape, ConcatProperties DEF Commit
<1>4. ckpt.rowid \in 0..Len(rows')
  BY <1>2, <1>3, TypedTape DEF Typed, TypeOK
<1>5. position' \in Nat
  BY CommitPosition DEF Commit
<1>6. applied' \subseteq DOMAIN trades /\ disorder' \in BOOLEAN
  BY <1>1 DEF Commit, Typed, TypeOK
<1>7. cursor' \in {None} \cup 0..MaxTime /\ cursor' <= now
  BY DEF Commit, Typed, TypeOK, Clock
<1>8. None <= now
  BY LedgerAssumption DEF Typed, TypeOK, None
<1> QED BY <1>3, <1>4, <1>5, <1>6, <1>7, <1>8 DEF Commit, Typed, TypeOK, Clock, market

LEMMA BaseReduce ==
  ASSUME Typed, Clock, Reduce
  PROVE  (Typed /\ Clock)'
<1>1. Reduced \in State /\ ~Reduced.oversold
  BY FromType, TypedTape, ApplyEventsType DEF Reduce, Reduced, Checkpoint
<1>2. ckpt' = [rowid |-> Len(rows), state |-> Reduced, usable |-> TRUE]
  BY DEF Reduce
<1>3. ckpt' \in Checkpoint /\ ckpt'.rowid \in 0..Len(rows) /\ ckpt'.usable \in BOOLEAN
  BY <1>1, <1>2, TypedTape DEF Checkpoint
<1>4. /\ ckpt'.state.lots \in Seq(Lot) /\ ckpt'.state.realized \in Int /\ ckpt'.state.fees \in Nat
      /\ ~ckpt'.state.oversold
  BY <1>1, <1>2 DEF State
<1> QED BY <1>3, <1>4 DEF Reduce, Typed, TypeOK, Clock, market, books

LEMMA BaseCapital ==
  ASSUME Typed, Clock, ApplyCapital
  PROVE  (Typed /\ Clock)'
<1>1. Loaded \in [trading : Int, treasury : Int, realized : Int, count : Nat \cup {None}]
  BY LedgerAssumption DEF Loaded, Typed, TypeOK
<1>2. EventCount \in Nat
  <2>1. {n \in DOMAIN rows : K(rows[n]).fee > 0} \in SUBSET (1..Len(rows))
    BY TypedTape
  <2>2. IsFiniteSet(1..Len(rows))
    BY TypedTape, FS_Interval
  <2>3. Cardinality({n \in DOMAIN rows : K(rows[n]).fee > 0}) \in Nat
    BY <2>1, <2>2, FS_Subset, FS_CardinalityType, Zenon
  <2> QED BY <2>3, TypedTape DEF EventCount
<1>3. ckpt.state.realized \in Int /\ Profit \in Int
  BY <1>1 DEF Profit, Typed, TypeOK
<1>4. (Profit * 6) \div 10 \in Int /\ (Profit * 4) \div 10 \in Int
  BY <1>3
<1>5. capital' \in [trading : Int, treasury : Int, realized : Int, count : Nat \cup {None}]
  BY <1>1, <1>2, <1>3, <1>4 DEF ApplyCapital
<1>6. None <= now
  BY LedgerAssumption DEF Typed, TypeOK, None
<1> QED BY <1>5, <1>6 DEF ApplyCapital, Idle, Typed, TypeOK, Clock, market, books

(* A trade more leaves the others what they are. *)
LEMMA HappenKeeps ==
  ASSUME Typed, NEW k \in Kind, Happen(k)
  PROVE  /\ Len(trades') = Len(trades) + 1 /\ trades' \in Seq([kind : Kind, ts : 1..MaxTime])
         /\ DOMAIN trades \subseteq DOMAIN trades'
         /\ \A i \in DOMAIN trades : trades'[i] = trades[i]
         /\ \A i \in DOMAIN trades' : i \in DOMAIN trades \/ trades'[i].ts = now
<1>1. [kind |-> k, ts |-> now] \in [kind : Kind, ts : 1..MaxTime]
  BY DEF Typed, TypeOK
<1>2. trades \in Seq([kind : Kind, ts : 1..MaxTime]) /\ trades' = Append(trades, [kind |-> k, ts |-> now])
  BY DEF Typed, TypeOK, Happen
<1>3. /\ trades' \in Seq([kind : Kind, ts : 1..MaxTime]) /\ Len(trades') = Len(trades) + 1
      /\ \A i \in 1..Len(trades) : trades'[i] = trades[i]
      /\ trades'[Len(trades) + 1] = [kind |-> k, ts |-> now]
  BY <1>1, <1>2, AppendProperties
<1>4. DOMAIN trades' = 1..(Len(trades) + 1) /\ DOMAIN trades = 1..Len(trades) /\ Len(trades) \in Nat
  BY <1>2, <1>3
<1> QED BY <1>3, <1>4

LEMMA BaseHappen ==
  ASSUME Typed, Clock, NEW k \in Kind, Happen(k)
  PROVE  (Typed /\ Clock)'
<1>1. Len(trades') <= MaxTrades
  BY HappenKeeps, TypedTape, LedgerAssumption DEF Happen
<1>2. rows \in Seq(DOMAIN trades')
  BY HappenKeeps, TypedTape, SeqMonotonic
<1>3. now \in Nat /\ \A i \in DOMAIN trades' : trades'[i].ts <= now
  <2>1. now \in Nat
    BY LedgerAssumption DEF Typed, TypeOK
  <2>2. \A i \in DOMAIN trades : trades'[i].ts <= now
    BY HappenKeeps DEF Clock
  <2>3. \A i \in DOMAIN trades' : i \in DOMAIN trades \/ trades'[i].ts = now
    BY HappenKeeps
  <2> QED BY <2>1, <2>2, <2>3
<1> QED BY <1>1, <1>2, <1>3, HappenKeeps DEF Happen, Typed, TypeOK, Clock, books

LEMMA BaseStep == Typed /\ Clock /\ [Next]_vars => (Typed /\ Clock)'
<1> SUFFICES ASSUME Typed, Clock, [Next]_vars PROVE (Typed /\ Clock)'
  OBVIOUS
<1>1. CASE Fetch \/ FetchFails
  BY <1>1, BaseFetch
<1>2. ASSUME NEW failed \in BOOLEAN, Commit(failed) PROVE (Typed /\ Clock)'
  BY <1>2, BaseCommit
<1>3. CASE Reduce
  BY <1>3, BaseReduce
<1>4. CASE ApplyCapital
  BY <1>4, BaseCapital
<1>5. ASSUME NEW k \in Kind, Happen(k) PROVE (Typed /\ Clock)'
  BY <1>5, BaseHappen
<1>6. CASE RollBack \/ ReduceFails \/ Crash
  <2>1. None <= now
    BY LedgerAssumption DEF Typed, TypeOK, None
  <2>2. Idle /\ UNCHANGED <<market, books, ckpt, capital, outside, disorder>>
    BY <1>6 DEF RollBack, ReduceFails, Crash
  <2> QED BY <2>1, <2>2 DEF Idle, Typed, TypeOK, Clock, market, books
<1>7. CASE LoseCheckpoint
  <2>1. /\ ckpt' \in Checkpoint /\ ckpt'.rowid = ckpt.rowid /\ ckpt'.state = ckpt.state
        /\ ckpt'.usable \in BOOLEAN
    BY <1>7 DEF LoseCheckpoint, Typed, Checkpoint
  <2> QED BY <1>7, <2>1 DEF LoseCheckpoint, Typed, TypeOK, Clock, market, books
<1>8. ASSUME NEW i \in DOMAIN trades, Show(i) PROVE (Typed /\ Clock)'
  BY <1>8 DEF Show, Typed, TypeOK, Clock, books
<1>9. CASE Tick
  <2>1. now' \in 1..MaxTime /\ now < now' /\ now \in Nat
    BY <1>9, LedgerAssumption DEF Tick, Typed, TypeOK
  <2>2. \A i \in DOMAIN trades : trades[i].ts <= now'
    BY <2>1, TypedTape, KindOf DEF Clock
  <2>3. cursor <= now' /\ newCursor <= now'
    BY <2>1, LedgerAssumption DEF Clock, Typed, TypeOK, None
  <2> QED BY <1>9, <2>1, <2>2, <2>3 DEF Tick, Typed, TypeOK, Clock, books
<1>10. CASE UNCHANGED vars
  BY <1>10 DEF vars, market, books, Typed, TypeOK, Clock
<1> QED BY <1>1, <1>2, <1>3, <1>4, <1>5, <1>6, <1>7, <1>8, <1>9, <1>10 DEF Next

LEMMA BaseInit == Init => Typed /\ Clock
<1> SUFFICES ASSUME Init PROVE Typed /\ Clock
  OBVIOUS
<1>1. trades = <<>> /\ rows = <<>> /\ now = 1 /\ cursor = None /\ newCursor = None
  BY DEF Init
<1>2. ckpt \in Checkpoint /\ ckpt.rowid = 0 /\ ckpt.state = Empty
  BY EmptyType DEF Init, NoCheckpoint, Checkpoint
<1>3. /\ ckpt.rowid \in 0..Len(rows) /\ ckpt.usable \in BOOLEAN /\ ~ckpt.state.oversold
      /\ ckpt.state.lots \in Seq(Lot) /\ ckpt.state.realized \in Int /\ ckpt.state.fees \in Nat
  BY <1>1, <1>2 DEF Checkpoint, State, Empty
<1>4. /\ trades \in Seq([kind : Kind, ts : 1..MaxTime]) /\ Len(trades) <= MaxTrades
      /\ rows \in Seq(DOMAIN trades) /\ DOMAIN trades = {}
  BY <1>1, LedgerAssumption
<1>5. capital \in [trading : Int, treasury : Int, realized : Int, count : Nat \cup {None}]
  BY DEF Init
<1>6. now \in 1..MaxTime /\ None <= now
  BY <1>1, LedgerAssumption DEF None
<1> QED BY <1>1, <1>2, <1>3, <1>4, <1>5, <1>6 DEF Init, Typed, TypeOK, Clock

LEMMA BaseInvariant == Spec => [](Typed /\ Clock)
BY BaseInit, BaseStep, PTL DEF Spec

(* The types of the books, for every set of trades, lookback and bound:    *)
(* above all, no transaction leaves a short position and no checkpoint     *)
(* with a sale of more than there was.                                     *)
THEOREM LedgerTypeCorrect == Spec => []TypeOK
<1>1. Typed => TypeOK
  BY DEF Typed
<1> QED BY <1>1, BaseInvariant, PTL

-----------------------------------------------------------------------------
(* The cursor.  The same is kept for the cursor that a cycle has fetched   *)
(* and not yet written, with the fills it fetched.                         *)
CursorInv ==
  /\ NoFillSkipped
  /\ newCursor # None => \A i \in shown \ (batch \cup applied \cup outside) :
                            trades[i].ts >= newCursor - Lookback

LEMMA CursorSame ==
  ASSUME CursorInv, UNCHANGED <<trades, shown, cursor>>, applied \subseteq applied',
         outside \subseteq outside', newCursor' = None
  PROVE  CursorInv'
BY DEF CursorInv, NoFillSkipped

LEMMA CursorFetch ==
  ASSUME Typed, CursorInv, Fetch
  PROVE  CursorInv'
<1> DEFINE got == {i \in shown : trades[i].ts >= Since}
<1>1. /\ batch' = got /\ UNCHANGED <<trades, shown, cursor, applied>>
      /\ outside' = IF cursor = None THEN outside \cup (shown \ got) ELSE outside
  BY DEF Fetch, market, books
<1>2. /\ \A i \in shown : trades[i].ts \in Nat
      /\ Lookback \in Nat /\ cursor \in {None} \cup Nat
  <2>1. shown \subseteq DOMAIN trades /\ cursor \in {None} \cup Nat
    BY DEF Typed, TypeOK
  <2>2. \A i \in DOMAIN trades : trades[i].ts \in 1..MaxTime
    BY TypedTape, KindOf, Zenon
  <2> QED BY <2>1, <2>2, LedgerAssumption
<1>3. shown \ (batch' \cup applied' \cup outside') = {}
  <2> SUFFICES ASSUME NEW i \in shown, i \notin got, i \notin applied, i \notin outside, cursor # None
               PROVE  FALSE
    BY <1>1
  <2>1. trades[i].ts >= cursor - Lookback
    BY DEF CursorInv, NoFillSkipped
  <2>2. ~(trades[i].ts >= Since)
    OBVIOUS
  <2> QED BY <1>2, <2>1, <2>2 DEF Since, Floor, None
<1>4. NoFillSkipped'
  BY <1>1 DEF CursorInv, NoFillSkipped
<1> QED BY <1>1, <1>3, <1>4 DEF CursorInv

LEMMA CursorShow ==
  ASSUME Typed, Clock, CursorInv, NEW i \in DOMAIN trades, Show(i)
  PROVE  CursorInv'
<1>1. /\ shown' = shown \cup {i} /\ UNCHANGED <<trades, cursor, applied, batch, newCursor>>
      /\ outside' = IF now > trades[i].ts + Lookback THEN outside \cup {i} ELSE outside
  BY DEF Show, books
<1>2. /\ trades[i].ts \in Nat /\ Lookback \in Nat /\ now \in Nat
      /\ cursor \in Int /\ newCursor \in Int
  <2>1. trades[i].ts \in 1..MaxTime
    BY TypedTape, KindOf, Zenon
  <2>2. now \in 1..MaxTime /\ cursor \in Int /\ newCursor \in Int
    BY LedgerAssumption DEF Typed, TypeOK, None
  <2> QED BY <2>1, <2>2, LedgerAssumption
<1>3. i \notin outside' => trades[i].ts >= cursor - Lookback /\ trades[i].ts >= newCursor - Lookback
  BY <1>1, <1>2 DEF Clock
<1> QED BY <1>1, <1>3 DEF CursorInv, NoFillSkipped

LEMMA CursorStep == Typed /\ Clock /\ CursorInv /\ [Next]_vars => CursorInv'
<1> SUFFICES ASSUME Typed, Clock, CursorInv, [Next]_vars PROVE CursorInv'
  OBVIOUS
<1>1. CASE Fetch
  BY <1>1, CursorFetch
<1>2. CASE FetchFails \/ RollBack \/ ReduceFails \/ Crash \/ ApplyCapital
  BY <1>2, CursorSame DEF FetchFails, RollBack, ReduceFails, Crash, ApplyCapital, Idle, market, books
<1>3. ASSUME NEW failed \in BOOLEAN, Commit(failed) PROVE CursorInv'
  <2>1. /\ UNCHANGED <<trades, shown, outside>> /\ applied' = applied \cup batch
        /\ newCursor' = None /\ cursor' \in {cursor, newCursor}
    BY <1>3 DEF Commit, market
  <2> QED BY <2>1 DEF CursorInv, NoFillSkipped
<1>4. CASE Reduce \/ LoseCheckpoint \/ Tick \/ UNCHANGED vars
  <2>1. UNCHANGED <<trades, shown, cursor, newCursor, batch, applied, outside>>
    BY <1>4 DEF Reduce, LoseCheckpoint, Tick, vars, market, books
  <2> QED BY <2>1 DEF CursorInv, NoFillSkipped
<1>5. ASSUME NEW k \in Kind, Happen(k) PROVE CursorInv'
  <2>1. UNCHANGED <<shown, cursor, newCursor, batch, applied, outside>> /\ shown \subseteq DOMAIN trades
    BY <1>5 DEF Happen, books, Typed, TypeOK
  <2>2. \A i \in shown : trades'[i] = trades[i]
    BY <1>5, <2>1, HappenKeeps
  <2> QED BY <2>1, <2>2 DEF CursorInv, NoFillSkipped
<1>6. ASSUME NEW i \in DOMAIN trades, Show(i) PROVE CursorInv'
  BY <1>6, CursorShow
<1> QED BY <1>1, <1>2, <1>3, <1>4, <1>5, <1>6 DEF Next

(* A fill the exchange shows within the lookback is booked, or the next    *)
(* fetch still asks for it: neither a cursor that moves ahead of fills     *)
(* that come late, nor a crash, a rollback or a failed call between fetch  *)
(* and commit makes the cursor pass one.                                   *)
THEOREM CursorSkipsNothing == Spec => []NoFillSkipped
<1>1. Init => CursorInv
  BY DEF Init, CursorInv, NoFillSkipped
<1>2. CursorInv => NoFillSkipped
  BY DEF CursorInv
<1> QED BY <1>1, <1>2, CursorStep, BaseInvariant, PTL DEF Spec

-----------------------------------------------------------------------------
(* What a set of fills adds to a position, whatever the order: the coins   *)
(* bought less the coins sold, each coin a pair of its fill and a number.  *)

Units(S) == UNION {{i} \X (1..K(i).qty) : i \in S}
Side(S, d) == {i \in S : K(i).side = d}
Signed(S) == Cardinality(Units(Side(S, "BUY"))) - Cardinality(Units(Side(S, "SELL")))

LEMMA CoinsOfFill ==
  ASSUME Tape, NEW i \in DOMAIN trades
  PROVE  /\ IsFiniteSet({i} \X (1..K(i).qty))
         /\ Cardinality({i} \X (1..K(i).qty)) = K(i).qty /\ K(i).qty \in Nat
<1>1. K(i).qty \in Nat
  BY KindOf
<1>2. IsFiniteSet(1..K(i).qty) /\ Cardinality(1..K(i).qty) = K(i).qty
  BY <1>1, FS_Interval
<1>3. IsFiniteSet({i}) /\ Cardinality({i}) = 1
  BY FS_Singleton
<1>4. /\ IsFiniteSet({i} \X (1..K(i).qty))
      /\ Cardinality({i} \X (1..K(i).qty)) = Cardinality({i}) * Cardinality(1..K(i).qty)
  BY <1>2, <1>3, FS_Product
<1>5. Cardinality({i} \X (1..K(i).qty)) = 1 * K(i).qty
  BY <1>2, <1>3, <1>4, Zenon
<1>6. 1 * K(i).qty = K(i).qty
  BY <1>1
<1> QED BY <1>1, <1>4, <1>5, <1>6, Zenon

LEMMA UnitsGrow ==
  ASSUME Tape, NEW S \in SUBSET DOMAIN trades, NEW i \in DOMAIN trades, i \notin S,
         IsFiniteSet(Units(S))
  PROVE  /\ IsFiniteSet(Units(S \cup {i}))
         /\ Cardinality(Units(S \cup {i})) = Cardinality(Units(S)) + K(i).qty
<1> DEFINE C == {i} \X (1..K(i).qty)
<1>1. Units(S \cup {i}) = Units(S) \cup C
  BY DEF Units
<1>2. Units(S) \cap C = {}
  BY DEF Units
<1>3. IsFiniteSet(C) /\ Cardinality(C) = K(i).qty /\ K(i).qty \in Nat
  BY CoinsOfFill
<1>4. Cardinality(Units(S)) \in Nat
  BY FS_CardinalityType
<1> HIDE DEF C
<1>5. /\ IsFiniteSet(Units(S) \cup C)
      /\ Cardinality(Units(S) \cup C)
           = Cardinality(Units(S)) + Cardinality(C) - Cardinality(Units(S) \cap C)
  BY <1>3, FS_Union
<1>6. Cardinality(Units(S) \cap C) = 0
  BY <1>2, FS_EmptySet, Zenon
<1>7. Cardinality(Units(S) \cup C) = Cardinality(Units(S)) + K(i).qty - 0
  BY <1>3, <1>5, <1>6, Zenon
<1>8. Cardinality(Units(S)) + K(i).qty - 0 = Cardinality(Units(S)) + K(i).qty
  BY <1>3, <1>4
<1> QED BY <1>1, <1>5, <1>7, <1>8, Zenon

LEMMA UnitsOfNone == Units({}) = {} /\ IsFiniteSet(Units({})) /\ Cardinality(Units({})) = 0
BY FS_EmptySet DEF Units

Counted(S) ==
  /\ IsFiniteSet(Units(Side(S, "BUY"))) /\ IsFiniteSet(Units(Side(S, "SELL")))
  /\ Signed(S) \in Int

LEMMA SignedOfNone == Counted({}) /\ Signed({}) = 0
<1>1. Side({}, "BUY") = {} /\ Side({}, "SELL") = {}
  BY DEF Side
<1> QED BY <1>1, UnitsOfNone DEF Signed, Counted

LEMMA SignedGrows ==
  ASSUME Tape, NEW S \in SUBSET DOMAIN trades, NEW i \in DOMAIN trades, i \notin S, Counted(S)
  PROVE  Counted(S \cup {i}) /\ Signed(S \cup {i}) = Book(Signed(S), i)
<1> DEFINE B == Side(S, "BUY")
           A == Side(S, "SELL")
<1>1. K(i).qty \in Nat /\ K(i).side \in {"BUY", "SELL"}
  BY KindOf
<1>2. B \in SUBSET DOMAIN trades /\ A \in SUBSET DOMAIN trades /\ i \notin B /\ i \notin A
  BY DEF Side
<1>3. /\ IsFiniteSet(Units(B)) /\ Cardinality(Units(B)) \in Nat
      /\ IsFiniteSet(Units(A)) /\ Cardinality(Units(A)) \in Nat
      /\ Signed(S) = Cardinality(Units(B)) - Cardinality(Units(A))
  BY FS_CardinalityType DEF Counted, Signed
<1>4. CASE K(i).side = "BUY"
  <2>1. Side(S \cup {i}, "BUY") = B \cup {i} /\ Side(S \cup {i}, "SELL") = A
    BY <1>4 DEF Side
  <2>2. /\ IsFiniteSet(Units(B \cup {i}))
        /\ Cardinality(Units(B \cup {i})) = Cardinality(Units(B)) + K(i).qty
    BY <1>2, <1>3, UnitsGrow
  <2> HIDE DEF A, B
  <2>3. Signed(S \cup {i}) = (Cardinality(Units(B)) + K(i).qty) - Cardinality(Units(A))
    BY <2>1, <2>2 DEF Signed
  <2>4. Signed(S \cup {i}) = Signed(S) + K(i).qty /\ Signed(S \cup {i}) \in Int
    BY <1>1, <1>3, <2>3
  <2> QED BY <1>3, <1>4, <2>1, <2>2, <2>4 DEF Counted, Book
<1>5. CASE K(i).side = "SELL"
  <2>1. Side(S \cup {i}, "BUY") = B /\ Side(S \cup {i}, "SELL") = A \cup {i}
    BY <1>5 DEF Side
  <2>2. /\ IsFiniteSet(Units(A \cup {i}))
        /\ Cardinality(Units(A \cup {i})) = Cardinality(Units(A)) + K(i).qty
    BY <1>2, <1>3, UnitsGrow
  <2> HIDE DEF A, B
  <2>3. Signed(S \cup {i}) = Cardinality(Units(B)) - (Cardinality(Units(A)) + K(i).qty)
    BY <2>1, <2>2 DEF Signed
  <2>4. Signed(S \cup {i}) = Signed(S) - K(i).qty /\ Signed(S \cup {i}) \in Int
    BY <1>1, <1>3, <2>3
  <2> QED BY <1>3, <1>5, <2>1, <2>2, <2>4 DEF Counted, Book
<1> QED BY <1>1, <1>4, <1>5

Injected(s) == \A m, n \in 1..Len(s) : s[m] = s[n] => m = n
Written(s, n) == {s[m] : m \in 1..n}

LEMMA WrittenGrows ==
  ASSUME NEW n \in Nat, NEW s
  PROVE  Written(s, n + 1) = Written(s, n) \cup {s[n + 1]} /\ Written(s, 0) = {}
<1>1. 1..(n + 1) = (1..n) \cup {n + 1} /\ 1..0 = {}
  OBVIOUS
<1> QED BY <1>1 DEF Written

LEMMA WrittenAll ==
  ASSUME NEW D, NEW s \in Seq(D)
  PROVE  /\ Written(s, Len(s)) = ToSet(s)
         /\ \A n \in 0..Len(s) : Written(s, n) \in SUBSET D /\ ToSet(SubSeq(s, 1, n)) = Written(s, n)
<1>1. DOMAIN s = 1..Len(s) /\ Len(s) \in Nat /\ \A n \in 1..Len(s) : s[n] \in D
  BY ElementOfSeq
<1>2. ASSUME NEW n \in 0..Len(s)
      PROVE  Written(s, n) \in SUBSET D /\ ToSet(SubSeq(s, 1, n)) = Written(s, n)
  <2>1. n \in Nat /\ 1..n \in SUBSET (1..Len(s))
    BY <1>1
  <2>2. DOMAIN SubSeq(s, 1, n) = 1..n /\ \A m \in 1..n : SubSeq(s, 1, n)[m] = s[m]
    BY <1>1, <2>1
  <2> QED BY <1>1, <2>1, <2>2 DEF Written, ToSet
<1> QED BY <1>1, <1>2 DEF Written, ToSet

(* A fill that is not among the first n is added to them. *)
LEMMA NextIsNew ==
  ASSUME NEW D, NEW s \in Seq(D), Injected(s), NEW n \in 0..(Len(s) - 1)
  PROVE  s[n + 1] \in D /\ s[n + 1] \notin Written(s, n)
<1>1. n + 1 \in 1..Len(s) /\ \A m \in 1..n : m \in 1..Len(s) /\ m # n + 1
  OBVIOUS
<1> QED BY <1>1, ElementOfSeq DEF Injected, Written

(* The position after fills that are not yet in the set it stands for. *)
LEMMA BookedSum ==
  ASSUME Tape, NEW A \in SUBSET DOMAIN trades, Counted(A),
         NEW s \in Seq(DOMAIN trades), Injected(s), A \cap ToSet(s) = {}
  PROVE  Counted(A \cup ToSet(s)) /\ Booked(Signed(A), s) = Signed(A \cup ToSet(s))
<1>1. Signed(A) \in Int /\ Len(s) \in Nat
  BY DEF Counted
<1>2. PICK h \in [0..Len(s) -> Int] :
           /\ h[0] = Signed(A) /\ Booked(Signed(A), s) = h[Len(s)]
           /\ \A n \in 1..Len(s) : h[n] = Book(h[n - 1], s[n])
  BY <1>1, BookFold, Zenon
<1> DEFINE U(n) == A \cup Written(s, n)
           Good == {n \in 0..Len(s) : Counted(U(n)) /\ h[n] = Signed(U(n))}
<1>3. 0 \in Good
  <2>1. U(0) = A /\ 0 \in 0..Len(s)
    BY <1>1, WrittenGrows
  <2> HIDE DEF U
  <2>2. Counted(U(0)) /\ h[0] = Signed(U(0))
    BY <1>2, <2>1, Zenon
  <2> QED BY <2>1, <2>2
<1>4. \A n \in 0..(Len(s) - 1) : n \in Good => n + 1 \in Good
  <2> SUFFICES ASSUME NEW n \in 0..(Len(s) - 1), n \in Good PROVE n + 1 \in Good
    OBVIOUS
  <2>1. n + 1 \in 1..Len(s) /\ n + 1 - 1 = n /\ n \in Nat /\ n \in 0..Len(s) /\ n + 1 \in 0..Len(s)
    BY <1>1
  <2>2. s[n + 1] \in DOMAIN trades /\ s[n + 1] \notin Written(s, n) /\ s[n + 1] \in ToSet(s)
    BY <2>1, NextIsNew DEF ToSet
  <2>3. U(n) \in SUBSET DOMAIN trades /\ s[n + 1] \notin U(n)
    BY <2>1, <2>2, WrittenAll
  <2>4. U(n + 1) = U(n) \cup {s[n + 1]}
    BY <2>1, WrittenGrows
  <2>5. h[n + 1] = Book(h[n], s[n + 1])
    BY <1>2, <2>1
  <2>6. Counted(U(n)) /\ h[n] = Signed(U(n))
    OBVIOUS
  <2> HIDE DEF U
  <2>7. /\ Counted(U(n) \cup {s[n + 1]})
        /\ Signed(U(n) \cup {s[n + 1]}) = Book(Signed(U(n)), s[n + 1])
    BY <2>2, <2>3, <2>6, SignedGrows, Zenon
  <2> QED BY <2>1, <2>4, <2>5, <2>6, <2>7
<1>5. Len(s) \in Good
  <2>1. \A n \in 0..Len(s) : n \in Good
    BY <1>1, <1>3, <1>4, UpTo
  <2> QED BY <1>1, <2>1
<1>6. U(Len(s)) = A \cup ToSet(s)
  BY WrittenAll
<1> QED BY <1>2, <1>5, <1>6

LEMMA BookedNet ==
  ASSUME Tape, NEW s \in Seq(DOMAIN trades), Injected(s)
  PROVE  Counted(ToSet(s)) /\ Net(s) = Signed(ToSet(s))
<1>1. Counted({}) /\ Signed({}) = 0 /\ {} \cap ToSet(s) = {} /\ {} \cup ToSet(s) = ToSet(s)
  BY SignedOfNone
<1>2. {} \in SUBSET DOMAIN trades
  OBVIOUS
<1>3. /\ Counted({} \cup ToSet(s))
      /\ Booked(Signed({}), s) = Signed({} \cup ToSet(s))
  BY <1>1, <1>2, BookedSum, Zenon
<1> QED BY <1>1, <1>3 DEF Net

-----------------------------------------------------------------------------
(* What the lots hold: a purchase adds its quantity, a sale takes its      *)
(* quantity, if the lots hold that much.                                   *)

LEMMA QuantityOfNone == Quantity(<<>>) = 0
<1>1. <<>> \in Seq(Lot) /\ Len(<<>>) = 0
  OBVIOUS
<1>2. PICK h \in [0..Len(<<>>) -> Nat] : h[0] = 0 /\ Quantity(<<>>) = h[Len(<<>>)]
  BY <1>1, AddFold, Zenon
<1> QED BY <1>1, <1>2

LEMMA QuantityType ==
  ASSUME NEW s \in Seq(Lot)
  PROVE  Quantity(s) \in Nat
<1>1. PICK h \in [0..Len(s) -> Nat] : Quantity(s) = h[Len(s)]
  BY AddFold
<1>2. Len(s) \in 0..Len(s)
  OBVIOUS
<1> QED BY <1>1, <1>2

LEMMA QuantityAppend ==
  ASSUME NEW s \in Seq(Lot), NEW lot \in Lot
  PROVE  Quantity(Append(s, lot)) = Quantity(s) + lot.qty
<1> DEFINE t == Append(s, lot)
<1>1. /\ t \in Seq(Lot) /\ Len(t) = Len(s) + 1 /\ t[Len(s) + 1] = lot
      /\ \A n \in 1..Len(s) : t[n] = s[n]
      /\ Len(s) \in Nat
  BY AppendProperties
<1> HIDE DEF t
<1>2. PICK g \in [0..Len(s) -> Nat] :
           /\ g[0] = 0 /\ Quantity(s) = g[Len(s)]
           /\ \A n \in 1..Len(s) : g[n] = Add(g[n - 1], s[n])
  BY AddFold
<1>3. PICK h \in [0..Len(t) -> Nat] :
           /\ h[0] = 0 /\ Quantity(t) = h[Len(t)]
           /\ \A n \in 1..Len(t) : h[n] = Add(h[n - 1], t[n])
  BY <1>1, AddFold
<1> DEFINE Good == {n \in 0..Len(s) : h[n] = g[n]}
<1>4. 0 \in Good
  BY <1>1, <1>2, <1>3
<1>5. \A n \in 0..(Len(s) - 1) : n \in Good => n + 1 \in Good
  <2> SUFFICES ASSUME NEW n \in 0..(Len(s) - 1), n \in Good PROVE n + 1 \in Good
    OBVIOUS
  <2>1. n + 1 \in 1..Len(s) /\ n + 1 \in 1..Len(t) /\ n + 1 - 1 = n /\ n + 1 \in 0..Len(s)
    BY <1>1
  <2>2. g[n + 1] = Add(g[n], s[n + 1]) /\ h[n + 1] = Add(h[n], t[n + 1]) /\ t[n + 1] = s[n + 1]
    BY <1>1, <1>2, <1>3, <2>1
  <2>3. h[n] = g[n]
    OBVIOUS
  <2> QED BY <2>1, <2>2, <2>3
<1>6. h[Len(s)] = g[Len(s)]
  <2>1. \A n \in 0..Len(s) : n \in Good
    BY <1>1, <1>4, <1>5, UpTo
  <2> QED BY <1>1, <2>1
<1>7. h[Len(s) + 1] = Add(h[Len(s)], lot)
  <2>1. Len(s) + 1 \in 1..Len(t) /\ Len(s) + 1 - 1 = Len(s)
    BY <1>1
  <2> QED BY <1>1, <1>3, <2>1
<1> QED BY <1>1, <1>2, <1>3, <1>6, <1>7 DEF Add, t

LEMMA MatchTakes ==
  ASSUME NEW acc \in Acc, NEW lot \in Lot
  PROVE  /\ Match(acc, lot) \in Acc
         /\ Quantity(Match(acc, lot).lots) - Match(acc, lot).left
              = Quantity(acc.lots) - acc.left + lot.qty
         /\ Match(acc, lot).left <= acc.left
<1> DEFINE m == Least(acc.left, lot.qty)
           rest == [lot EXCEPT !.qty = @ - m]
           lots2 == IF lot.qty > m THEN Append(acc.lots, rest) ELSE acc.lots
<1>1. /\ acc.lots \in Seq(Lot) /\ acc.left \in Nat /\ lot.qty \in Nat
  BY DEF Acc, Lot
<1>2. m \in Nat /\ m <= acc.left /\ m <= lot.qty
  BY <1>1 DEF Least
<1>3. Match(acc, lot).left = acc.left - m /\ Match(acc, lot).lots = lots2
  BY DEF Match, Acc
<1> HIDE DEF m
<1>4. rest \in Lot /\ rest.qty = lot.qty - m
  BY <1>1, <1>2 DEF Lot
<1> HIDE DEF rest
<1>5. Quantity(acc.lots) \in Nat
  BY <1>1, QuantityType
<1>6. Quantity(lots2) = Quantity(acc.lots) + (lot.qty - m)
  <2>1. CASE lot.qty > m
    <3>1. Quantity(Append(acc.lots, rest)) = Quantity(acc.lots) + rest.qty
      BY <1>1, <1>4, QuantityAppend
    <3> QED BY <1>4, <2>1, <3>1
  <2>2. CASE ~(lot.qty > m)
    <3>1. lot.qty - m = 0
      BY <1>1, <1>2, <2>2
    <3> QED BY <1>5, <2>2, <3>1
  <2> QED BY <2>1, <2>2
<1> HIDE DEF lots2
<1> QED BY <1>1, <1>2, <1>3, <1>5, <1>6, MatchType

LEMMA SaleTakes ==
  ASSUME NEW k \in [side : {"BUY", "SELL"}, qty : Nat \ {0}, price : Nat, fee : Nat],
         NEW lots \in Seq(Lot), ~(Sale(k, lots).left > 0)
  PROVE  Quantity(Sale(k, lots).lots) = Quantity(lots) - k.qty
<1> DEFINE b == [left |-> k.qty, price |-> k.price, gain |-> 0, lots |-> <<>>]
<1>0. b \in Acc
  BY DEF Acc
<1>1. b.left = k.qty /\ b.lots = <<>> /\ k.qty \in Nat /\ Len(lots) \in Nat
  OBVIOUS
<1>2. Sale(k, lots) = Matched(b, lots)
  BY DEF Sale
<1> HIDE DEF b
<1>3. PICK h \in [0..Len(lots) -> Acc] :
           /\ h[0] = b /\ Matched(b, lots) = h[Len(lots)]
           /\ \A n \in 1..Len(lots) : h[n] = Match(h[n - 1], lots[n])
  BY <1>0, MatchFold, Zenon
<1>4. PICK g \in [0..Len(lots) -> Nat] :
           /\ g[0] = 0 /\ Quantity(lots) = g[Len(lots)]
           /\ \A n \in 1..Len(lots) : g[n] = Add(g[n - 1], lots[n])
  BY AddFold
<1> DEFINE Good == {n \in 0..Len(lots) : Quantity(h[n].lots) - h[n].left = g[n] - k.qty}
<1>5. 0 \in Good
  <2>1. Quantity(h[0].lots) = 0 /\ h[0].left = k.qty
    BY <1>1, <1>3, QuantityOfNone
  <2> QED BY <1>1, <1>4, <2>1
<1>6. \A n \in 0..(Len(lots) - 1) : n \in Good => n + 1 \in Good
  <2> SUFFICES ASSUME NEW n \in 0..(Len(lots) - 1), n \in Good PROVE n + 1 \in Good
    OBVIOUS
  <2>1. n + 1 \in 1..Len(lots) /\ n + 1 - 1 = n /\ n \in 0..Len(lots) /\ n + 1 \in 0..Len(lots)
    BY <1>1
  <2>2. h[n + 1] = Match(h[n], lots[n + 1]) /\ g[n + 1] = Add(g[n], lots[n + 1])
    BY <1>3, <1>4, <2>1
  <2>3. h[n] \in Acc /\ lots[n + 1] \in Lot /\ g[n] \in Nat /\ h[n + 1] \in Acc
    BY <2>1, ElementOfSeq
  <2>4. Quantity(h[n + 1].lots) - h[n + 1].left
          = Quantity(h[n].lots) - h[n].left + lots[n + 1].qty
    BY <2>2, <2>3, MatchTakes
  <2>5. Quantity(h[n].lots) - h[n].left = g[n] - k.qty
    OBVIOUS
  <2>6. g[n + 1] = g[n] + lots[n + 1].qty /\ lots[n + 1].qty \in Nat
    BY <2>2, <2>3 DEF Add, Lot
  <2>7. Quantity(h[n + 1].lots) - h[n + 1].left = g[n + 1] - k.qty
    BY <1>1, <2>3, <2>4, <2>5, <2>6
  <2> QED BY <2>1, <2>7
<1>7. Quantity(h[Len(lots)].lots) - h[Len(lots)].left = g[Len(lots)] - k.qty
  <2>1. \A n \in 0..Len(lots) : n \in Good
    BY <1>1, <1>5, <1>6, UpTo
  <2>2. Len(lots) \in Good
    BY <1>1, <2>1
  <2> QED BY <2>2
<1>8. h[Len(lots)] \in Acc /\ h[Len(lots)] = Sale(k, lots)
  BY <1>1, <1>2, <1>3
<1>9. Sale(k, lots).left = 0 /\ Quantity(Sale(k, lots).lots) \in Nat
  BY <1>8, QuantityType DEF Acc
<1> QED BY <1>1, <1>4, <1>7, <1>8, <1>9

(* An event that finds what it sells moves the lots as it moves a position. *)
LEMMA EventMoves ==
  ASSUME Tape, NEW st \in State, NEW i \in DOMAIN trades, ~ApplyEvent(st, i).oversold
  PROVE  ~st.oversold /\ Held(ApplyEvent(st, i)) = Book(Held(st), i)
<1>1. /\ K(i) \in [side : {"BUY", "SELL"}, qty : Nat \ {0}, price : Nat, fee : Nat]
      /\ st.lots \in Seq(Lot) /\ st.oversold \in BOOLEAN
  BY KindOf DEF State
<1>2. CASE K(i).side = "BUY"
  <2>1. [qty |-> K(i).qty, cost |-> K(i).price] \in Lot
    BY <1>1 DEF Lot
  <2>2. ApplyEvent(st, i).lots = Append(st.lots, [qty |-> K(i).qty, cost |-> K(i).price])
        /\ ApplyEvent(st, i).oversold = st.oversold
    BY <1>2 DEF ApplyEvent, State
  <2>3. Quantity(ApplyEvent(st, i).lots) = Quantity(st.lots) + K(i).qty
    BY <1>1, <2>1, <2>2, QuantityAppend
  <2> QED BY <1>2, <2>2, <2>3 DEF Held, Book
<1>3. CASE K(i).side # "BUY"
  <2>1. /\ ApplyEvent(st, i).lots = Sale(K(i), st.lots).lots
        /\ ApplyEvent(st, i).oversold = (st.oversold \/ Sale(K(i), st.lots).left > 0)
    BY <1>3 DEF ApplyEvent, State
  <2>2. ~st.oversold /\ ~(Sale(K(i), st.lots).left > 0)
    BY <1>1, <2>1
  <2>3. Quantity(Sale(K(i), st.lots).lots) = Quantity(st.lots) - K(i).qty
    BY <1>1, <2>2, SaleTakes, Zenon
  <2> QED BY <1>3, <2>1, <2>2, <2>3 DEF Held, Book
<1> QED BY <1>2, <1>3

(* A replay that finds what it sells moves the lots as the fills move a    *)
(* position, in whatever order they come.                                  *)
LEMMA ReplayMoves ==
  ASSUME Tape, NEW st \in State, NEW s \in Seq(DOMAIN trades), Injected(s),
         NEW A \in SUBSET DOMAIN trades, Counted(A), Held(st) = Signed(A),
         A \cap ToSet(s) = {}, ~Replayed(st, s).oversold
  PROVE  Held(Replayed(st, s)) = Signed(A \cup ToSet(s))
<1>1. Len(s) \in Nat
  OBVIOUS
<1>2. PICK h \in [0..Len(s) -> State] :
           /\ h[0] = st /\ Replayed(st, s) = h[Len(s)]
           /\ \A n \in 1..Len(s) : h[n] = ApplyEvent(h[n - 1], s[n])
  BY EventFold, Zenon
<1> DEFINE U(n) == A \cup Written(s, n)
           Good == {n \in 0..Len(s) :
                      ~h[n].oversold => Counted(U(n)) /\ Held(h[n]) = Signed(U(n))}
<1>3. 0 \in Good
  <2>1. U(0) = A /\ 0 \in 0..Len(s)
    BY <1>1, WrittenGrows
  <2> HIDE DEF U
  <2>2. Counted(U(0)) /\ Held(h[0]) = Signed(U(0))
    BY <1>2, <2>1, Zenon
  <2> QED BY <2>1, <2>2
<1>4. \A n \in 0..(Len(s) - 1) : n \in Good => n + 1 \in Good
  <2> SUFFICES ASSUME NEW n \in 0..(Len(s) - 1), n \in Good PROVE n + 1 \in Good
    OBVIOUS
  <2>1. n + 1 \in 1..Len(s) /\ n + 1 - 1 = n /\ n \in Nat /\ n \in 0..Len(s) /\ n + 1 \in 0..Len(s)
    BY <1>1
  <2>2. s[n + 1] \in DOMAIN trades /\ s[n + 1] \notin Written(s, n) /\ s[n + 1] \in ToSet(s)
    BY <2>1, NextIsNew DEF ToSet
  <2>3. U(n) \in SUBSET DOMAIN trades /\ s[n + 1] \notin U(n)
    BY <2>1, <2>2, WrittenAll
  <2>4. U(n + 1) = U(n) \cup {s[n + 1]}
    BY <2>1, WrittenGrows
  <2>5. h[n + 1] = ApplyEvent(h[n], s[n + 1]) /\ h[n] \in State
    BY <1>2, <2>1
  <2>6. ~h[n].oversold => Counted(U(n)) /\ Held(h[n]) = Signed(U(n))
    OBVIOUS
  <2> HIDE DEF U
  <2>7. ASSUME ~h[n + 1].oversold
        PROVE  Counted(U(n + 1)) /\ Held(h[n + 1]) = Signed(U(n + 1))
    <3>1. ~h[n].oversold /\ Held(h[n + 1]) = Book(Held(h[n]), s[n + 1])
      BY <2>2, <2>5, <2>7, EventMoves
    <3>2. Counted(U(n)) /\ Held(h[n]) = Signed(U(n))
      BY <2>6, <3>1
    <3>3. /\ Counted(U(n) \cup {s[n + 1]})
          /\ Signed(U(n) \cup {s[n + 1]}) = Book(Signed(U(n)), s[n + 1])
      BY <2>2, <2>3, <3>2, SignedGrows, Zenon
    <3> QED BY <2>4, <3>1, <3>2, <3>3
  <2> QED BY <2>1, <2>7
<1>5. Len(s) \in Good
  <2>1. \A n \in 0..Len(s) : n \in Good
    BY <1>1, <1>3, <1>4, UpTo
  <2> QED BY <1>1, <2>1
<1>6. U(Len(s)) = A \cup ToSet(s)
  BY WrittenAll
<1> QED BY <1>2, <1>5, <1>6

LEMMA HeldOfEmpty == Held(Empty) = 0
BY QuantityOfNone DEF Held, Empty

-----------------------------------------------------------------------------
(* The books.  Each row is written once, and the position and the lots of  *)
(* the checkpoint hold what the rows they stand for add up to, in whatever *)
(* order those were booked and reduced.                                    *)
BooksInv ==
  /\ applied = ToSet(rows) /\ Injected(rows)
  /\ position = Signed(applied)
  /\ Held(ckpt.state) = Signed(Written(rows, ckpt.rowid))

(* A set of fills that were booked is counted. *)
LEMMA AnySetCounted ==
  ASSUME Tape, NEW S \in SUBSET DOMAIN trades
  PROVE  Counted(S)
<1>1. Sorted(S) \in Seq(DOMAIN trades) /\ Injected(Sorted(S)) /\ ToSet(Sorted(S)) = S
  BY SortedFills, SortedProps DEF Injected
<1> QED BY <1>1, BookedNet

LEMMA BooksImply ==
  ASSUME Typed, BooksInv
  PROVE  BooksAgree
<1>1. Tape /\ rows \in Seq(DOMAIN trades) /\ Len(rows) \in Nat /\ ckpt.rowid \in 0..Len(rows)
  BY TypedTape DEF Typed, TypeOK
<1>2. Injected(rows) /\ applied = ToSet(rows)
  BY DEF BooksInv
<1>3. position = Net(rows)
  BY <1>1, <1>2, BookedNet DEF BooksInv
<1>4. Cardinality(applied) = Len(rows)
  <2> DEFINE N == Len(rows)
             f == [n \in 1..N |-> rows[n]]
  <2>0. N \in Nat /\ N \in Int
    BY <1>1
  <2>1. IsFiniteSet(1..N) /\ Cardinality(1..N) = N
    <3> HIDE DEF N
    <3> QED BY <2>0, FS_Interval
  <2>2. \A n \in 1..N : rows[n] \in ToSet(rows)
    BY <1>1 DEF ToSet
  <2>3. f \in Bijection(1..N, ToSet(rows))
    <3>1. f \in [1..N -> ToSet(rows)] /\ \A m, n \in 1..N : f[m] = f[n] => m = n
      BY <1>2, <2>2 DEF Injected
    <3>2. \A i \in ToSet(rows) : \E n \in 1..N : f[n] = i
      BY <1>1 DEF ToSet
    <3> QED BY <3>1, <3>2 DEF Bijection, Injection, Surjection, IsInjective
  <2>4. Cardinality(ToSet(rows)) = Cardinality(1..N)
    <3> HIDE DEF f
    <3>1. ExistsBijection(1..N, ToSet(rows))
      BY <2>3 DEF ExistsBijection
    <3> QED BY <2>1, <3>1, FS_Bijection, Zenon
  <2> QED BY <1>2, <2>1, <2>4
<1>5. Held(ckpt.state) = Net(SubSeq(rows, 1, ckpt.rowid))
  <2> DEFINE s == SubSeq(rows, 1, ckpt.rowid)
  <2>1. s \in Seq(DOMAIN trades) /\ Len(s) = ckpt.rowid /\ \A n \in 1..ckpt.rowid : s[n] = rows[n]
    BY <1>1, SubSeqProperties
  <2>2. Injected(s)
    BY <1>1, <1>2, <2>1 DEF Injected
  <2>3. ToSet(s) = Written(rows, ckpt.rowid)
    BY <1>1, WrittenAll
  <2> HIDE DEF s
  <2>4. Net(s) = Signed(ToSet(s))
    BY <1>1, <2>1, <2>2, BookedNet
  <2> QED BY <2>3, <2>4 DEF BooksInv, s
<1> QED BY <1>2, <1>3, <1>4, <1>5 DEF BooksAgree

LEMMA BooksSame ==
  ASSUME BooksInv, UNCHANGED <<trades, rows, applied, position>>,
         ckpt'.rowid = ckpt.rowid, ckpt'.state = ckpt.state
  PROVE  BooksInv'
BY DEF BooksInv, Signed, Units, Side, K

(* The rows a transaction adds are its new fills, each once. *)
LEMMA RowsAdded ==
  ASSUME Tape, rows \in Seq(DOMAIN trades), Injected(rows), NEW D \in SUBSET DOMAIN trades,
         D \cap ToSet(rows) = {}, NEW t, t = rows \o Sorted(D)
  PROVE  /\ t \in Seq(DOMAIN trades) /\ Injected(t) /\ ToSet(t) = ToSet(rows) \cup D
         /\ Len(t) = Len(rows) + Cardinality(D)
         /\ \A n \in 1..Len(rows) : t[n] = rows[n]
         /\ \A n \in 1..Len(t) : n > Len(rows) => t[n] = Sorted(D)[n - Len(rows)]
                                                  /\ n - Len(rows) \in 1..Cardinality(D)
<1> DEFINE s == Sorted(D)
<1>1. /\ s \in Seq(DOMAIN trades) /\ Len(s) = Cardinality(D) /\ ToSet(s) = D /\ Cardinality(D) \in Nat
      /\ \A m, n \in 1..Cardinality(D) : s[m] = s[n] => m = n
  BY SortedProps, SortedFills
<1> HIDE DEF s
<1>2. t = rows \o s
  BY DEF s
<1>3. /\ t \in Seq(DOMAIN trades) /\ Len(t) = Len(rows) + Len(s) /\ Len(rows) \in Nat
      /\ \A n \in 1..Len(t) : t[n] = IF n <= Len(rows) THEN rows[n] ELSE s[n - Len(rows)]
  <2>1. /\ t \in Seq(DOMAIN trades) /\ Len(t) = Len(rows) + Len(s)
        /\ \A n \in 1..(Len(rows) + Len(s)) :
              t[n] = IF n <= Len(rows) THEN rows[n] ELSE s[n - Len(rows)]
    <3>1. s \in Seq(DOMAIN trades)
      BY <1>1
    <3> QED BY <1>2, <3>1, ConcatProperties, SMT
  <2> QED BY <2>1
<1>4. \A n \in 1..Len(rows) : n \in 1..Len(t) /\ t[n] = rows[n] /\ rows[n] \in ToSet(rows)
  BY <1>1, <1>3 DEF ToSet
<1>5. \A n \in 1..Len(t) : n > Len(rows) =>
         /\ t[n] = s[n - Len(rows)] /\ n - Len(rows) \in 1..Len(s) /\ s[n - Len(rows)] \in ToSet(s)
  <2> SUFFICES ASSUME NEW n \in 1..Len(t), n > Len(rows)
               PROVE  /\ t[n] = s[n - Len(rows)] /\ n - Len(rows) \in 1..Len(s)
                      /\ s[n - Len(rows)] \in ToSet(s)
    OBVIOUS
  <2>1. t[n] = s[n - Len(rows)] /\ n - Len(rows) \in 1..Len(s)
    BY <1>1, <1>3
  <2>2. DOMAIN s = 1..Len(s)
    BY <1>1
  <2> QED BY <2>1, <2>2 DEF ToSet
<1>6. \A n \in 1..Len(s) : n + Len(rows) \in 1..Len(t) /\ t[n + Len(rows)] = s[n]
  BY <1>1, <1>3
<1>7. \A n \in 1..Len(t) : n \in 1..Len(rows) \/ n > Len(rows)
  BY <1>3
<1>8. ToSet(t) = ToSet(rows) \cup D
  <2>1. DOMAIN t = 1..Len(t) /\ DOMAIN rows = 1..Len(rows) /\ DOMAIN s = 1..Len(s)
    BY <1>1, <1>3
  <2>2. ASSUME NEW i \in ToSet(t) PROVE i \in ToSet(rows) \cup D
    <3>1. PICK n \in 1..Len(t) : i = t[n]
      BY <2>1 DEF ToSet
    <3> QED BY <3>1, <1>1, <1>4, <1>5, <1>7
  <2>3. ASSUME NEW i \in ToSet(rows) PROVE i \in ToSet(t)
    BY <1>4, <2>1 DEF ToSet
  <2>4. ASSUME NEW i \in D PROVE i \in ToSet(t)
    <3>1. PICK n \in 1..Len(s) : i = s[n]
      BY <1>1, <2>1 DEF ToSet
    <3> QED BY <3>1, <1>6, <2>1 DEF ToSet
  <2> QED BY <2>2, <2>3, <2>4
<1>9. Injected(t)
  <2> SUFFICES ASSUME NEW m \in 1..Len(t), NEW n \in 1..Len(t), t[m] = t[n] PROVE m = n
    BY DEF Injected
  <2>1. CASE m \in 1..Len(rows) /\ n \in 1..Len(rows)
    BY <2>1, <1>4 DEF Injected
  <2>2. CASE m > Len(rows) /\ n > Len(rows)
    <3>1. m - Len(rows) = n - Len(rows)
      BY <2>2, <1>1, <1>5
    <3> QED BY <3>1, <1>3
  <2>3. CASE m \in 1..Len(rows) /\ n > Len(rows)
    BY <2>3, <1>1, <1>4, <1>5
  <2>4. CASE m > Len(rows) /\ n \in 1..Len(rows)
    BY <2>4, <1>1, <1>4, <1>5
  <2> QED BY <2>1, <2>2, <2>3, <2>4, <1>7
<1> QED BY <1>1, <1>3, <1>4, <1>5, <1>8, <1>9 DEF s

LEMMA BooksCommit ==
  ASSUME Typed, BooksInv, NEW failed \in BOOLEAN, Commit(failed)
  PROVE  BooksInv'
<1> DEFINE D == batch \ ToSet(rows)
<1>1. Tape /\ rows \in Seq(DOMAIN trades) /\ Len(rows) \in Nat /\ D \in SUBSET DOMAIN trades
      /\ ckpt.rowid \in 0..Len(rows) /\ D \cap ToSet(rows) = {}
      /\ ToSet(rows) \in SUBSET DOMAIN trades
  BY TypedTape DEF Typed, TypeOK
<1>2. Injected(rows) /\ applied = ToSet(rows) /\ position = Signed(applied)
      /\ Held(ckpt.state) = Signed(Written(rows, ckpt.rowid))
  BY DEF BooksInv
<1>3. {i \in batch : New(i)} = D
  BY <1>2 DEF New
<1>4. /\ rows' = rows \o Sorted(D) /\ applied' = ToSet(rows) \cup D /\ trades' = trades
      /\ position' = Booked(position, Sorted(D)) /\ ckpt' = ckpt
  BY <1>2, <1>3 DEF Commit, Fresh, market
<1> HIDE DEF D
<1>5. /\ Injected(rows') /\ ToSet(rows') = ToSet(rows) \cup D
      /\ \A n \in 1..Len(rows) : rows'[n] = rows[n]
  BY <1>1, <1>2, <1>4, RowsAdded
<1>6. Sorted(D) \in Seq(DOMAIN trades) /\ Injected(Sorted(D)) /\ ToSet(Sorted(D)) = D
  BY <1>1, SortedFills, SortedProps DEF Injected
<1>7. position' = Signed(ToSet(rows) \cup D)
  <2>1. Counted(ToSet(rows))
    BY <1>1, AnySetCounted
  <2>2. Booked(Signed(ToSet(rows)), Sorted(D)) = Signed(ToSet(rows) \cup ToSet(Sorted(D)))
    BY <1>1, <1>6, <2>1, BookedSum
  <2> QED BY <1>2, <1>4, <1>6, <2>2
<1>8. Written(rows', ckpt.rowid) = Written(rows, ckpt.rowid)
  BY <1>1, <1>5 DEF Written
<1>9. Signed(applied)' = Signed(ToSet(rows) \cup D)
  BY <1>4 DEF Signed, Units, Side, K
<1>10. Signed(Written(rows, ckpt.rowid))' = Signed(Written(rows, ckpt.rowid))
  BY <1>4, <1>8 DEF Signed, Units, Side, K
<1>11. Held(ckpt.state)' = Held(ckpt.state)
  BY <1>4
<1> QED BY <1>2, <1>4, <1>5, <1>7, <1>9, <1>10, <1>11 DEF BooksInv

(* The rows a checkpoint has not reduced are apart from those it has. *)
LEMMA DeltaApart ==
  ASSUME Typed, Injected(rows), NEW r \in 0..Len(rows)
  PROVE  LET D == {rows[n] : n \in (r + 1)..Len(rows)}
         IN Written(rows, r) \cap D = {} /\ Written(rows, r) \cup D = ToSet(rows)
<1> DEFINE D == {rows[n] : n \in (r + 1)..Len(rows)}
<1>1. DOMAIN rows = 1..Len(rows) /\ Len(rows) \in Nat /\ r \in Nat
  BY TypedTape
<1>2. \A m \in 1..r, n \in (r + 1)..Len(rows) : m \in 1..Len(rows) /\ n \in 1..Len(rows) /\ m # n
  BY <1>1
<1>3. Written(rows, r) \cap D = {}
  BY <1>2 DEF Written, Injected
<1>4. 1..Len(rows) = (1..r) \cup ((r + 1)..Len(rows))
  BY <1>1
<1>5. Written(rows, r) \cup D = ToSet(rows)
  BY <1>1, <1>4 DEF Written, ToSet
<1> QED BY <1>3, <1>5

LEMMA BooksReduce ==
  ASSUME Typed, BooksInv, Reduce
  PROVE  BooksInv'
<1> DEFINE r == From.rowid
<1>1. /\ Tape /\ rows \in Seq(DOMAIN trades) /\ Len(rows) \in Nat /\ ToSet(rows) \in SUBSET DOMAIN trades
      /\ From.state \in State /\ r \in 0..Len(rows) /\ Delta \in SUBSET DOMAIN trades
  BY TypedTape, FromType DEF Checkpoint
<1>2. Held(From.state) = Signed(Written(rows, r))
  <2>1. CASE ckpt.usable
    BY <2>1 DEF BooksInv, From
  <2>2. CASE ~ckpt.usable
    <3>1. r = 0 /\ From.state = Empty
      BY <2>2 DEF From, NoCheckpoint
    <3> QED BY <3>1, HeldOfEmpty, SignedOfNone, WrittenGrows
  <2> QED BY <2>1, <2>2
<1>3. Injected(rows) /\ applied = ToSet(rows)
  BY DEF BooksInv
<1>4. Written(rows, r) \cap Delta = {} /\ Written(rows, r) \cup Delta = ToSet(rows)
  BY <1>1, <1>3, DeltaApart DEF Delta
<1>5. Sorted(Delta) \in Seq(DOMAIN trades) /\ Injected(Sorted(Delta)) /\ ToSet(Sorted(Delta)) = Delta
  BY <1>1, SortedFills, SortedProps DEF Injected
<1>6. Written(rows, r) \in SUBSET DOMAIN trades
  BY <1>1, WrittenAll
<1>7. Counted(Written(rows, r))
  BY <1>1, <1>6, AnySetCounted
<1>8. /\ ~Replayed(From.state, Sorted(Delta)).oversold
      /\ ckpt' = [rowid |-> Len(rows), state |-> Replayed(From.state, Sorted(Delta)), usable |-> TRUE]
      /\ UNCHANGED <<trades, rows, applied, position>>
  BY DEF Reduce, Reduced, ApplyEvents, market, books
<1> HIDE DEF r
<1>9. Held(Replayed(From.state, Sorted(Delta))) = Signed(ToSet(rows))
  <2>1. Held(Replayed(From.state, Sorted(Delta))) = Signed(Written(rows, r) \cup ToSet(Sorted(Delta)))
    BY <1>1, <1>2, <1>4, <1>5, <1>6, <1>7, <1>8, ReplayMoves
  <2> QED BY <1>4, <1>5, <2>1
<1>10. ckpt'.rowid = Len(rows) /\ Held(ckpt'.state) = Signed(ToSet(rows))
  BY <1>8, <1>9
<1>11. Written(rows, Len(rows)) = ToSet(rows)
  BY <1>1, WrittenAll
<1>12. Signed(Written(rows, ckpt.rowid))' = Signed(ToSet(rows))
  BY <1>8, <1>10, <1>11 DEF Signed, Units, Side, K
<1>13. Signed(applied)' = Signed(applied)
  BY <1>8 DEF Signed, Units, Side, K
<1> QED BY <1>8, <1>10, <1>12, <1>13 DEF BooksInv

(* A trade more changes nothing for the fills there are. *)
LEMMA BooksHappen ==
  ASSUME Typed, BooksInv, NEW k \in Kind, Happen(k)
  PROVE  BooksInv'
<1>1. /\ \A i \in DOMAIN trades : trades'[i] = trades[i]
      /\ applied \subseteq DOMAIN trades /\ ckpt.rowid \in 0..Len(rows)
      /\ rows \in Seq(DOMAIN trades)
  BY HappenKeeps DEF Typed, TypeOK
<1>2. Written(rows, ckpt.rowid) \in SUBSET DOMAIN trades
  BY <1>1, WrittenAll
<1>3. UNCHANGED <<rows, applied, position, ckpt>>
  BY DEF Happen, books
<1>4. Signed(applied)' = Signed(applied)
  <2>1. \A i \in applied : trades'[i] = trades[i]
    BY <1>1
  <2>2. Side(applied, "BUY")' = Side(applied, "BUY") /\ Side(applied, "SELL")' = Side(applied, "SELL")
    BY <1>3, <2>1 DEF Side, K
  <2>3. \A i \in Side(applied, "BUY") \cup Side(applied, "SELL") : trades'[i] = trades[i]
    BY <2>1 DEF Side
  <2>4. Units(Side(applied, "BUY"))' = Units(Side(applied, "BUY"))
    BY <2>2, <2>3 DEF Units, K
  <2>5. Units(Side(applied, "SELL"))' = Units(Side(applied, "SELL"))
    BY <2>2, <2>3 DEF Units, K
  <2> QED BY <2>4, <2>5 DEF Signed
<1>5. Signed(Written(rows, ckpt.rowid))' = Signed(Written(rows, ckpt.rowid))
  <2>1. \A i \in Written(rows, ckpt.rowid) : trades'[i] = trades[i]
    BY <1>1, <1>2
  <2>2. /\ Side(Written(rows, ckpt.rowid), "BUY")' = Side(Written(rows, ckpt.rowid), "BUY")
        /\ Side(Written(rows, ckpt.rowid), "SELL")' = Side(Written(rows, ckpt.rowid), "SELL")
    BY <1>3, <2>1 DEF Side, K
  <2>3. \A i \in Side(Written(rows, ckpt.rowid), "BUY") \cup Side(Written(rows, ckpt.rowid), "SELL") :
           trades'[i] = trades[i]
    BY <2>1 DEF Side
  <2>4. Units(Side(Written(rows, ckpt.rowid), "BUY"))' = Units(Side(Written(rows, ckpt.rowid), "BUY"))
    BY <2>2, <2>3 DEF Units, K
  <2>5. Units(Side(Written(rows, ckpt.rowid), "SELL"))' = Units(Side(Written(rows, ckpt.rowid), "SELL"))
    BY <2>2, <2>3 DEF Units, K
  <2> QED BY <2>4, <2>5 DEF Signed
<1> QED BY <1>3, <1>4, <1>5 DEF BooksInv

LEMMA BooksStep == Typed /\ BooksInv /\ [Next]_vars => BooksInv'
<1> SUFFICES ASSUME Typed, BooksInv, [Next]_vars PROVE BooksInv'
  OBVIOUS
<1>1. ASSUME NEW failed \in BOOLEAN, Commit(failed) PROVE BooksInv'
  BY <1>1, BooksCommit
<1>2. CASE Reduce
  BY <1>2, BooksReduce
<1>3. ASSUME NEW k \in Kind, Happen(k) PROVE BooksInv'
  BY <1>3, BooksHappen
<1>4. CASE LoseCheckpoint
  <2>1. ckpt'.rowid = ckpt.rowid /\ ckpt'.state = ckpt.state
    BY <1>4 DEF LoseCheckpoint, Typed, Checkpoint
  <2> QED BY <1>4, <2>1, BooksSame DEF LoseCheckpoint, market, books
<1>5. CASE Fetch \/ FetchFails \/ RollBack \/ ReduceFails \/ ApplyCapital \/ Crash
  BY <1>5, BooksSame DEF Fetch, FetchFails, RollBack, ReduceFails, ApplyCapital, Crash, market, books
<1>6. ASSUME NEW i \in DOMAIN trades, Show(i) PROVE BooksInv'
  BY <1>6, BooksSame DEF Show, books
<1>7. CASE Tick \/ UNCHANGED vars
  BY <1>7, BooksSame DEF Tick, vars, market, books
<1> QED BY <1>1, <1>2, <1>3, <1>4, <1>5, <1>6, <1>7 DEF Next

LEMMA BooksInit == Init => BooksInv
<1> SUFFICES ASSUME Init PROVE BooksInv
  OBVIOUS
<1>1. rows = <<>> /\ applied = {} /\ position = 0 /\ ckpt.rowid = 0 /\ ckpt.state = Empty
  BY DEF Init, NoCheckpoint
<1>2. ToSet(rows) = {} /\ Injected(rows) /\ Written(rows, 0) = {}
  BY <1>1 DEF ToSet, Injected, Written
<1> QED BY <1>1, <1>2, HeldOfEmpty, SignedOfNone DEF BooksInv

(* Every fill counts once in the ledger, in the position and in the lots   *)
(* of the checkpoint: refetched within the lookback, retried after a       *)
(* crash, a rollback or a lost checkpoint, and reduced from a checkpoint   *)
(* in another order than it was booked in.                                 *)
THEOREM FillsCountOnce == Spec => []BooksAgree
<1>1. Typed /\ BooksInv => BooksAgree
  BY BooksImply
<1> QED BY <1>1, BooksInit, BooksStep, BaseInvariant, PTL DEF Spec

-----------------------------------------------------------------------------
(* The order.  Rows written oldest first are rows sorted, so a reduction   *)
(* from a checkpoint goes on where the replay of all rows would be.        *)
InOrder == \A m, n \in 1..Len(rows) : m < n => Before(rows[m], rows[n])

(* The checkpoint is the last of a run over the rows it has reduced. *)
RowRun(r, st) ==
  \E h \in [0..r -> State] :
     /\ h[0] = Empty /\ h[r] = st
     /\ \A n \in 1..r : h[n] = ApplyEvent(h[n - 1], rows[n])

OrderInv == ~disorder => InOrder /\ RowRun(ckpt.rowid, ckpt.state)

LEMMA RowsCounted ==
  ASSUME Typed, Injected(rows), NEW c \in 0..Len(rows), NEW d \in c..Len(rows)
  PROVE  Cardinality({rows[m] : m \in (c + 1)..d}) = d - c
<1> DEFINE I == (c + 1)..d
           S == {rows[m] : m \in I}
           f == [m \in I |-> rows[m]]
<1>1. Len(rows) \in Nat /\ c \in Nat /\ d \in Nat /\ c <= d /\ I \in SUBSET (1..Len(rows))
  BY TypedTape
<1>2. c + 1 \in Int /\ d \in Int
  BY <1>1
<1>3. IsFiniteSet(I) /\ Cardinality(I) = IF c + 1 > d THEN 0 ELSE d - (c + 1) + 1
  BY <1>2, FS_Interval
<1>4. Cardinality(I) = d - c
  BY <1>1, <1>3
<1>5. f \in Bijection(I, S)
  <2>1. f \in [I -> S] /\ \A m, n \in I : f[m] = f[n] => m = n
    BY <1>1 DEF Injected
  <2>2. \A i \in S : \E n \in I : f[n] = i
    OBVIOUS
  <2> QED BY <2>1, <2>2 DEF Bijection, Injection, Surjection, IsInjective
<1>6. Cardinality(S) = Cardinality(I)
  <2> HIDE DEF f, S
  <2>1. ExistsBijection(I, S)
    BY <1>5 DEF ExistsBijection
  <2> QED BY <1>3, <2>1, FS_Bijection, Zenon
<1> QED BY <1>4, <1>6

(* A stretch of rows in order is the sorted list of its fills. *)
LEMMA SortedRows ==
  ASSUME Typed, Injected(rows), InOrder, NEW a \in 0..Len(rows), NEW b \in a..Len(rows)
  PROVE  LET D == {rows[m] : m \in (a + 1)..b}
         IN /\ Sorted(D) \in Seq(DOMAIN trades) /\ Len(Sorted(D)) = b - a
            /\ \A n \in 1..(b - a) : Sorted(D)[n] = rows[a + n]
<1> DEFINE D == {rows[m] : m \in (a + 1)..b}
<1>1. Tape /\ Len(rows) \in Nat /\ a \in Nat /\ b \in Nat /\ a <= b /\ (a + 1)..b \in SUBSET (1..Len(rows))
  BY TypedTape
<1>2. \A m \in 1..Len(rows) : rows[m] \in DOMAIN trades
  BY TypedTape, ElementOfSeq
<1>3. D \in SUBSET DOMAIN trades
  BY <1>1, <1>2
<1>4. Cardinality(D) = b - a
  BY RowsCounted
<1>5. ASSUME NEW n \in 1..(b - a) PROVE Sorted(D)[n] = rows[a + n]
  <2>1. a + n \in (a + 1)..b /\ a + n - 1 \in a..Len(rows) /\ n \in Nat
    BY <1>1
  <2>2. rows[a + n] \in D
    BY <2>1
  <2>3. \A m \in (a + 1)..b : Before(rows[m], rows[a + n]) <=> m < a + n
    <3> SUFFICES ASSUME NEW m \in (a + 1)..b PROVE Before(rows[m], rows[a + n]) <=> m < a + n
      OBVIOUS
    <3>1. m \in 1..Len(rows) /\ a + n \in 1..Len(rows)
      BY <1>1, <2>1
    <3>2. rows[m] \in DOMAIN trades /\ rows[a + n] \in DOMAIN trades
      BY <1>2, <3>1
    <3>3. CASE m < a + n
      BY <3>1, <3>3 DEF InOrder
    <3>4. CASE m = a + n
      BY <1>1, <3>1, <3>2, <3>4, BeforeOrders
    <3>5. CASE a + n < m
      <4>1. Before(rows[a + n], rows[m])
        BY <3>1, <3>5 DEF InOrder
      <4> QED BY <1>1, <3>1, <3>2, <3>5, <4>1, BeforeOrders
    <3> QED BY <3>1, <3>3, <3>4, <3>5
  <2>4. {j \in D : Before(j, rows[a + n])} = {rows[m] : m \in (a + 1)..(a + n - 1)}
    <3>1. (a + 1)..(a + n - 1) = {m \in (a + 1)..b : m < a + n}
      BY <1>1, <2>1
    <3> QED BY <2>3, <3>1
  <2>5. Cardinality({rows[m] : m \in (a + 1)..(a + n - 1)}) = a + n - 1 - a
    <3> DEFINE d == a + n - 1
    <3>1. d \in a..Len(rows)
      BY <2>1
    <3> HIDE DEF d
    <3>2. Cardinality({rows[m] : m \in (a + 1)..d}) = d - a
      BY <3>1, RowsCounted
    <3> QED BY <3>2 DEF d
  <2>6. Rank(D, rows[a + n]) + 1 = n
    <3>1. Rank(D, rows[a + n]) = a + n - 1 - a
      BY <2>4, <2>5, Zenon DEF Rank
    <3> QED BY <1>1, <2>1, <3>1
  <2> HIDE DEF D
  <2>7. Sorted(D)[Rank(D, rows[a + n]) + 1] = rows[a + n]
    BY <1>1, <1>3, <2>2, SortedProps
  <2> QED BY <2>6, <2>7
<1> HIDE DEF D
<1>6. Sorted(D) \in Seq(DOMAIN trades) /\ Len(Sorted(D)) = Cardinality(D)
  BY <1>1, <1>3, SortedProps, SortedFills
<1> QED BY <1>4, <1>5, <1>6 DEF D

LEMMA OrderSame ==
  ASSUME Typed, OrderInv, UNCHANGED <<rows, disorder>>,
         ckpt'.rowid = ckpt.rowid, ckpt'.state = ckpt.state,
         \A i \in DOMAIN trades : trades'[i] = trades[i]
  PROVE  OrderInv'
<1> SUFFICES ASSUME ~disorder PROVE InOrder' /\ RowRun(ckpt.rowid, ckpt.state)'
  BY DEF OrderInv
<1>1. /\ DOMAIN rows = 1..Len(rows) /\ ckpt.rowid \in 0..Len(rows) /\ Len(rows) \in Nat
      /\ \A n \in 1..Len(rows) : rows[n] \in DOMAIN trades
  BY TypedTape, ElementOfSeq DEF Typed, TypeOK
<1>2. \A n \in 1..Len(rows) : trades'[rows[n]] = trades[rows[n]]
  BY <1>1
<1>3. InOrder'
  BY <1>2 DEF OrderInv, InOrder, Before
<1>4. PICK h \in [0..ckpt.rowid -> State] :
           /\ h[0] = Empty /\ h[ckpt.rowid] = ckpt.state
           /\ \A n \in 1..ckpt.rowid : h[n] = ApplyEvent(h[n - 1], rows[n])
  BY DEF OrderInv, RowRun
<1>5. \A n \in 1..ckpt.rowid : h[n] = ApplyEvent(h[n - 1], rows[n])'
  <2> TAKE n \in 1..ckpt.rowid
  <2>1. n \in 1..Len(rows) /\ K(rows[n])' = K(rows[n])
    BY <1>1, <1>2 DEF K
  <2>2. h[n] = ApplyEvent(h[n - 1], rows[n])
    BY <1>4
  <2> QED BY <2>1, <2>2 DEF ApplyEvent
<1>6. RowRun(ckpt.rowid, ckpt.state)'
  BY <1>4, <1>5 DEF RowRun
<1> QED BY <1>3, <1>6

LEMMA OrderCommit ==
  ASSUME Typed, BooksInv, OrderInv, NEW failed \in BOOLEAN, Commit(failed)
  PROVE  OrderInv'
<1> SUFFICES ASSUME ~disorder' PROVE InOrder' /\ RowRun(ckpt.rowid, ckpt.state)'
  BY DEF OrderInv
<1> DEFINE D == batch \ ToSet(rows)
<1>1. Tape /\ rows \in Seq(DOMAIN trades) /\ Len(rows) \in Nat /\ D \in SUBSET DOMAIN trades
      /\ ckpt.rowid \in 0..Len(rows) /\ D \cap ToSet(rows) = {} /\ Injected(rows)
      /\ ToSet(rows) \in SUBSET DOMAIN trades /\ DOMAIN rows = 1..Len(rows)
  BY TypedTape DEF Typed, TypeOK, BooksInv
<1>2. /\ rows' = rows \o Sorted(D) /\ trades' = trades /\ ckpt' = ckpt
      /\ disorder' = (disorder \/ \E i \in ToSet(rows), j \in D : Before(j, i))
  BY DEF Commit, market
<1>3. ~disorder /\ \A i \in ToSet(rows), j \in D : ~Before(j, i)
  BY <1>2
<1> HIDE DEF D
<1>4. /\ rows' \in Seq(DOMAIN trades) /\ Len(rows') = Len(rows) + Cardinality(D)
      /\ \A n \in 1..Len(rows) : rows'[n] = rows[n]
      /\ \A n \in 1..Len(rows') : n > Len(rows) => rows'[n] = Sorted(D)[n - Len(rows)]
                                                  /\ n - Len(rows) \in 1..Cardinality(D)
  <2>1. /\ Tape /\ rows \in Seq(DOMAIN trades) /\ Injected(rows) /\ D \in SUBSET DOMAIN trades
        /\ D \cap ToSet(rows) = {}
    BY <1>1
  <2>2. rows' = rows \o Sorted(D)
    BY <1>2
  <2>3. rows' \in Seq(DOMAIN trades) /\ Len(rows') = Len(rows) + Cardinality(D)
    BY <2>1, <2>2, RowsAdded
  <2>4. \A n \in 1..Len(rows) : rows'[n] = rows[n]
    BY <2>1, <2>2, RowsAdded
  <2>5. \A n \in 1..Len(rows') : n > Len(rows) => rows'[n] = Sorted(D)[n - Len(rows)]
                                                  /\ n - Len(rows) \in 1..Cardinality(D)
    <3> DEFINE Added(u) == \A n \in 1..Len(u) :
                             n > Len(rows) => /\ u[n] = Sorted(D)[n - Len(rows)]
                                              /\ n - Len(rows) \in 1..Cardinality(D)
    <3>1. Added(rows \o Sorted(D))
      BY <2>1, RowsAdded
    <3> QED BY <2>2, <3>1
  <2> QED BY <2>3, <2>4, <2>5
<1>5. /\ \A n \in 1..Cardinality(D) : Sorted(D)[n] \in D
      /\ \A m, n \in 1..Cardinality(D) : m < n => Before(Sorted(D)[m], Sorted(D)[n])
      /\ Cardinality(D) \in Nat
  <2>1. \A n \in 1..Cardinality(D) : Sorted(D)[n] \in D
    BY <1>1, SortedAt
  <2> QED BY <2>1, <1>1, SortedProps
<1>6. \A n \in 1..Len(rows) : rows[n] \in ToSet(rows)
  BY <1>1 DEF ToSet
<1>7. ASSUME NEW m \in 1..Len(rows'), NEW n \in 1..Len(rows'), m < n
      PROVE  Before(rows'[m], rows'[n])
  <2>1. CASE n \in 1..Len(rows)
    <3>1. m \in 1..Len(rows)
      BY <2>1, <1>7
    <3>2. Before(rows[m], rows[n])
      BY <2>1, <3>1, <1>3, <1>7 DEF OrderInv, InOrder
    <3> QED BY <3>1, <3>2, <2>1, <1>4
  <2>2. CASE m \in 1..Len(rows) /\ n > Len(rows)
    <3>1. rows'[m] \in ToSet(rows) /\ rows'[n] \in D
      BY <2>2, <1>4, <1>5, <1>6
    <3>2. ~Before(rows'[n], rows'[m]) /\ rows'[m] # rows'[n]
      BY <3>1, <1>1, <1>3
    <3> QED BY <3>1, <3>2, <1>1, BeforeOrders
  <2>3. CASE m > Len(rows)
    <3>1. n > Len(rows) /\ m - Len(rows) < n - Len(rows)
      BY <2>3, <1>1, <1>4, <1>5, <1>7
    <3>2. m - Len(rows) \in 1..Cardinality(D) /\ n - Len(rows) \in 1..Cardinality(D)
      BY <2>3, <3>1, <1>4
    <3>3. rows'[m] = Sorted(D)[m - Len(rows)] /\ rows'[n] = Sorted(D)[n - Len(rows)]
      BY <2>3, <3>1, <1>4
    <3> QED BY <3>1, <3>2, <3>3, <1>5
  <2> QED BY <2>1, <2>2, <2>3, <1>1, <1>4, <1>5
<1>8. InOrder'
  <2> SUFFICES ASSUME NEW m \in 1..Len(rows'), NEW n \in 1..Len(rows'), m < n
               PROVE  Before(rows[m], rows[n])'
    BY DEF InOrder
  <2>1. Before(rows'[m], rows'[n])
    BY <1>7
  <2> QED BY <1>2, <2>1 DEF Before
<1>9. PICK h \in [0..ckpt.rowid -> State] :
           /\ h[0] = Empty /\ h[ckpt.rowid] = ckpt.state
           /\ \A n \in 1..ckpt.rowid : h[n] = ApplyEvent(h[n - 1], rows[n])
  BY <1>3 DEF OrderInv, RowRun
<1>10. \A n \in 1..ckpt.rowid : h[n] = ApplyEvent(h[n - 1], rows[n])'
  <2> TAKE n \in 1..ckpt.rowid
  <2>1. n \in 1..Len(rows) /\ rows'[n] = rows[n]
    BY <1>1, <1>4
  <2>2. K(rows[n])' = K(rows[n])
    BY <2>1, <1>2 DEF K
  <2>3. h[n] = ApplyEvent(h[n - 1], rows[n])
    BY <1>9
  <2> QED BY <2>2, <2>3 DEF ApplyEvent
<1>11. RowRun(ckpt.rowid, ckpt.state)'
  BY <1>2, <1>9, <1>10 DEF RowRun
<1> QED BY <1>8, <1>11

LEMMA OrderReduce ==
  ASSUME Typed, BooksInv, OrderInv, Reduce
  PROVE  OrderInv'
<1> SUFFICES ASSUME ~disorder PROVE InOrder' /\ RowRun(ckpt.rowid, ckpt.state)'
  BY DEF OrderInv, Reduce
<1> DEFINE r == From.rowid
           N == Len(rows)
<1>1. /\ Tape /\ rows \in Seq(DOMAIN trades) /\ N \in Nat /\ Injected(rows) /\ InOrder
      /\ From.state \in State /\ r \in 0..N /\ r \in Nat
  BY TypedTape, FromType DEF Checkpoint, BooksInv, OrderInv
<1>2. /\ ckpt' = [rowid |-> N, state |-> Replayed(From.state, Sorted(Delta)), usable |-> TRUE]
      /\ UNCHANGED <<trades, rows>>
  BY DEF Reduce, Reduced, ApplyEvents, market, books
<1>3. RowRun(r, From.state)
  <2>1. CASE ckpt.usable
    BY <2>1 DEF OrderInv, From
  <2>2. CASE ~ckpt.usable
    <3>1. r = 0 /\ From.state = Empty
      BY <2>2 DEF From, NoCheckpoint
    <3> DEFINE e == [n \in 0..0 |-> Empty]
    <3>2. e \in [0..0 -> State] /\ e[0] = Empty
      BY EmptyType
    <3> HIDE DEF e
    <3>3. \A n \in 1..0 : e[n] = ApplyEvent(e[n - 1], rows[n])
      OBVIOUS
    <3>4. RowRun(0, Empty)
      BY <3>2, <3>3 DEF RowRun
    <3> QED BY <3>1, <3>4
  <2> QED BY <2>1, <2>2
<1>4. PICK f \in [0..r -> State] :
           /\ f[0] = Empty /\ f[r] = From.state
           /\ \A n \in 1..r : f[n] = ApplyEvent(f[n - 1], rows[n])
  BY <1>3 DEF RowRun
<1>5. /\ Sorted(Delta) \in Seq(DOMAIN trades) /\ Len(Sorted(Delta)) = N - r
      /\ \A n \in 1..(N - r) : Sorted(Delta)[n] = rows[r + n]
  <2> HIDE DEF r
  <2>1. N \in r..N
    BY <1>1
  <2> HIDE DEF N
  <2>2. r \in 0..Len(rows) /\ Len(rows) \in r..Len(rows)
    BY <1>1, <2>1 DEF N
  <2> QED BY <1>1, <2>2, SortedRows DEF Delta, r, N
<1> HIDE DEF r, N
<1>6. PICK g \in [0..(N - r) -> State] :
           /\ g[0] = From.state /\ Replayed(From.state, Sorted(Delta)) = g[N - r]
           /\ \A n \in 1..(N - r) : g[n] = ApplyEvent(g[n - 1], rows[r + n])
  <2>1. PICK g \in [0..Len(Sorted(Delta)) -> State] :
           /\ g[0] = From.state /\ Replayed(From.state, Sorted(Delta)) = g[Len(Sorted(Delta))]
           /\ \A n \in 1..Len(Sorted(Delta)) : g[n] = ApplyEvent(g[n - 1], Sorted(Delta)[n])
    BY <1>1, <1>5, EventFold, Zenon
  <2> QED BY <1>5, <2>1
<1> DEFINE h == [n \in 0..N |-> IF n <= r THEN f[n] ELSE g[n - r]]
<1>7. \A n \in 0..N : n > r => n - r \in 0..(N - r) /\ n - r \in 1..(N - r)
  BY <1>1
<1>8. h \in [0..N -> State]
  BY <1>1, <1>7
<1>9. h[0] = Empty /\ h[N] = g[N - r]
  <2>1. CASE N = r
    <3>1. N - r = 0
      BY <1>1, <2>1
    <3> QED BY <1>1, <1>4, <1>6, <2>1, <3>1
  <2>2. CASE N # r
    BY <1>1, <1>4, <2>2
  <2> QED BY <2>1, <2>2
<1>10. ASSUME NEW n \in 1..N PROVE h[n] = ApplyEvent(h[n - 1], rows[n])
  <2>1. CASE n <= r
    <3>1. n \in 1..r /\ n - 1 <= r /\ n - 1 \in 0..N /\ n \in 0..N
      BY <1>1, <2>1
    <3>2. h[n] = f[n] /\ h[n - 1] = f[n - 1]
      BY <2>1, <3>1
    <3> QED BY <1>4, <3>1, <3>2
  <2>2. CASE n > r
    <3>1. /\ n - r \in 1..(N - r) /\ n - 1 \in 0..N /\ n \in 0..N /\ r + (n - r) = n
          /\ n - r - 1 = n - 1 - r /\ ~(n <= r)
      BY <1>1, <2>2
    <3>2. h[n] = g[n - r]
      BY <3>1
    <3>3. h[n - 1] = g[n - r - 1]
      <4>1. CASE n - 1 <= r
        <5>1. n - 1 = r /\ n - r - 1 = 0
          BY <1>1, <2>2, <4>1
        <5> QED BY <1>1, <1>4, <1>6, <3>1, <4>1, <5>1
      <4>2. CASE ~(n - 1 <= r)
        BY <3>1, <4>2
      <4> QED BY <4>1, <4>2
    <3>4. g[n - r] = ApplyEvent(g[n - r - 1], rows[r + (n - r)])
      BY <1>6, <3>1
    <3> QED BY <3>1, <3>2, <3>3, <3>4
  <2> QED BY <1>1, <2>1, <2>2
<1> HIDE DEF h
<1>11. PICK run \in [0..N -> State] :
           /\ run[0] = Empty /\ run[N] = g[N - r]
           /\ \A n \in 1..N : run[n] = ApplyEvent(run[n - 1], rows[n])
  BY <1>8, <1>9, <1>10
<1>12. \A n \in 1..Len(rows) : run[n] = ApplyEvent(run[n - 1], rows[n])'
  <2> TAKE n \in 1..Len(rows)
  <2>1. K(rows[n])' = K(rows[n])
    BY <1>2 DEF K
  <2>2. run[n] = ApplyEvent(run[n - 1], rows[n])
    BY <1>11 DEF N
  <2> QED BY <1>2, <2>1, <2>2 DEF ApplyEvent
<1>13. RowRun(ckpt.rowid, ckpt.state)'
  <2>1. ckpt'.rowid = Len(rows) /\ ckpt'.state = run[Len(rows)] /\ run \in [0..Len(rows) -> State]
    BY <1>2, <1>6, <1>11 DEF N
  <2> QED BY <1>11, <1>12, <2>1 DEF RowRun
<1>14. InOrder'
  BY <1>1, <1>2 DEF InOrder, Before
<1> QED BY <1>13, <1>14

LEMMA OrderStep == Typed /\ BooksInv /\ OrderInv /\ [Next]_vars => OrderInv'
<1> SUFFICES ASSUME Typed, BooksInv, OrderInv, [Next]_vars PROVE OrderInv'
  OBVIOUS
<1>1. ASSUME NEW failed \in BOOLEAN, Commit(failed) PROVE OrderInv'
  BY <1>1, OrderCommit
<1>2. CASE Reduce
  BY <1>2, OrderReduce
<1>3. ASSUME NEW k \in Kind, Happen(k) PROVE OrderInv'
  <2>1. UNCHANGED <<rows, disorder, ckpt>> /\ \A i \in DOMAIN trades : trades'[i] = trades[i]
    BY <1>3, HappenKeeps DEF Happen, books
  <2> QED BY <2>1, OrderSame
<1>4. CASE LoseCheckpoint
  <2>1. ckpt'.rowid = ckpt.rowid /\ ckpt'.state = ckpt.state
    BY <1>4 DEF LoseCheckpoint, Typed, Checkpoint
  <2> QED BY <1>4, <2>1, OrderSame DEF LoseCheckpoint, market, books
<1>5. CASE Fetch \/ FetchFails \/ RollBack \/ ReduceFails \/ ApplyCapital \/ Crash
  BY <1>5, OrderSame DEF Fetch, FetchFails, RollBack, ReduceFails, ApplyCapital, Crash, market, books
<1>6. ASSUME NEW i \in DOMAIN trades, Show(i) PROVE OrderInv'
  BY <1>6, OrderSame DEF Show, books
<1>7. CASE Tick \/ UNCHANGED vars
  BY <1>7, OrderSame DEF Tick, vars, market, books
<1> QED BY <1>1, <1>2, <1>3, <1>4, <1>5, <1>6, <1>7 DEF Next

LEMMA OrderInit == Init => OrderInv
<1> SUFFICES ASSUME Init PROVE OrderInv
  OBVIOUS
<1>1. rows = <<>> /\ ckpt.rowid = 0 /\ ckpt.state = Empty
  BY DEF Init, NoCheckpoint
<1>2. InOrder
  BY <1>1 DEF InOrder
<1>3. RowRun(0, Empty)
  <2> DEFINE e == [n \in 0..0 |-> Empty]
  <2>1. e \in [0..0 -> State] /\ e[0] = Empty
    BY EmptyType
  <2> HIDE DEF e
  <2>2. \A n \in 1..0 : e[n] = ApplyEvent(e[n - 1], rows[n])
    OBVIOUS
  <2> QED BY <2>1, <2>2 DEF RowRun
<1> QED BY <1>1, <1>2, <1>3 DEF OrderInv

LEMMA OrderImplies ==
  ASSUME Typed, BooksInv, OrderInv
  PROVE  InOrderReplay
<1> SUFFICES ASSUME ~disorder
             PROVE  ckpt.state = ApplyEvents(Empty, ToSet(SubSeq(rows, 1, ckpt.rowid)))
  BY DEF InOrderReplay
<1> DEFINE r == ckpt.rowid
           D == {rows[m] : m \in 1..r}
<1>1. /\ Tape /\ rows \in Seq(DOMAIN trades) /\ Injected(rows) /\ InOrder
      /\ r \in 0..Len(rows) /\ r \in Nat /\ Len(rows) \in Nat
  BY TypedTape DEF Typed, TypeOK, BooksInv, OrderInv
<1>2. PICK h \in [0..r -> State] :
           /\ h[0] = Empty /\ h[r] = ckpt.state
           /\ \A n \in 1..r : h[n] = ApplyEvent(h[n - 1], rows[n])
  BY DEF OrderInv, RowRun
<1>3. ToSet(SubSeq(rows, 1, r)) = D
  BY <1>1, WrittenAll DEF Written
<1> HIDE DEF r
<1>4. /\ Sorted(D) \in Seq(DOMAIN trades) /\ Len(Sorted(D)) = r
      /\ \A n \in 1..r : Sorted(D)[n] = rows[n]
  <2>1. 0 \in 0..Len(rows) /\ r \in 0..Len(rows) /\ 0 + 1 = 1 /\ r - 0 = r
    BY <1>1
  <2> DEFINE E == {rows[m] : m \in (0 + 1)..r}
  <2>2. /\ Sorted(E) \in Seq(DOMAIN trades) /\ Len(Sorted(E)) = r - 0
        /\ \A n \in 1..(r - 0) : Sorted(E)[n] = rows[0 + n]
    BY <1>1, <2>1, SortedRows
  <2>3. E = D
    BY <2>1
  <2>4. \A n \in 1..r : 0 + n = n
    BY <1>1
  <2> HIDE DEF D, E
  <2> QED BY <2>1, <2>2, <2>3, <2>4
<1> HIDE DEF D
<1>5. PICK g \in [0..Len(Sorted(D)) -> State] :
           /\ g[0] = Empty /\ Replayed(Empty, Sorted(D)) = g[Len(Sorted(D))]
           /\ \A n \in 1..Len(Sorted(D)) : g[n] = ApplyEvent(g[n - 1], Sorted(D)[n])
  BY <1>1, <1>4, EmptyType, EventFold, Zenon
<1> DEFINE Good == {n \in 0..r : h[n] = g[n]}
<1>6. 0 \in Good
  BY <1>1, <1>2, <1>5
<1>7. \A n \in 0..(r - 1) : n \in Good => n + 1 \in Good
  <2> SUFFICES ASSUME NEW n \in 0..(r - 1), n \in Good PROVE n + 1 \in Good
    OBVIOUS
  <2>1. n + 1 \in 1..r /\ n + 1 - 1 = n /\ n + 1 \in 0..r
    BY <1>1
  <2>2. h[n + 1] = ApplyEvent(h[n], rows[n + 1]) /\ g[n + 1] = ApplyEvent(g[n], rows[n + 1])
    BY <1>2, <1>4, <1>5, <2>1
  <2> QED BY <2>1, <2>2
<1>8. h[r] = g[r]
  <2>1. \A n \in 0..r : n \in Good
    BY <1>1, <1>6, <1>7, UpTo
  <2>2. r \in Good
    BY <1>1, <2>1
  <2> QED BY <2>2
<1> QED BY <1>2, <1>3, <1>4, <1>5, <1>8 DEF ApplyEvents, r

(* As long as rows are written in the order of their times, the checkpoint *)
(* is what a replay of all its rows gives, wherever checkpoints were taken *)
(* or lost in between.                                                     *)
THEOREM ReplayMatchesInOrder == Spec => []InOrderReplay
<1>1. Typed /\ BooksInv /\ OrderInv => InOrderReplay
  BY OrderImplies
<1> QED BY <1>1, BooksInit, BooksStep, OrderInit, OrderStep, BaseInvariant, PTL DEF Spec

-----------------------------------------------------------------------------
(* The split.  The unit of amounts is ten times as fine as the prices', so *)
(* every profit is a multiple of ten and its 60 % and 40 % are whole.      *)
Exact == \A k \in Kind : k.price % 10 = 0

Tens == {10 * n : n \in Int}
TenLots(lots) == \A n \in 1..Len(lots) : lots[n].cost \in Tens
TenState(st) == st.realized \in Tens /\ TenLots(st.lots)

LEMMA TensAdd ==
  ASSUME NEW x \in Tens, NEW y \in Tens
  PROVE  x \in Int /\ x + y \in Tens /\ x - y \in Tens
<1>1. PICK a \in Int : x = 10 * a
  BY DEF Tens
<1>2. PICK b \in Int : y = 10 * b
  BY DEF Tens
<1>3. x + y = 10 * (a + b) /\ x - y = 10 * (a - b)
  BY <1>1, <1>2
<1> QED BY <1>1, <1>2, <1>3 DEF Tens

LEMMA TensTimes ==
  ASSUME NEW x \in Tens, NEW m \in Int
  PROVE  x * m \in Tens
<1>1. PICK a \in Int : x = 10 * a
  BY DEF Tens
<1>2. x * m = 10 * (a * m) /\ a * m \in Int
  BY <1>1
<1> QED BY <1>2 DEF Tens

LEMMA TensZero == 0 \in Tens
<1>1. 0 = 10 * 0
  OBVIOUS
<1> QED BY <1>1 DEF Tens

LEMMA TenPrice ==
  ASSUME Exact, Tape, NEW i \in DOMAIN trades
  PROVE  K(i).price \in Tens
<1>1. K(i).price \in Nat /\ K(i).price % 10 = 0
  BY KindOf DEF Exact
<1>2. K(i).price = 10 * (K(i).price \div 10) /\ K(i).price \div 10 \in Int
  BY <1>1
<1> QED BY <1>2 DEF Tens

LEMMA TenAppend ==
  ASSUME NEW lots \in Seq(Lot), TenLots(lots), NEW lot \in Lot, lot.cost \in Tens
  PROVE  TenLots(Append(lots, lot))
<1>1. /\ Len(Append(lots, lot)) = Len(lots) + 1 /\ Append(lots, lot)[Len(lots) + 1] = lot
      /\ \A n \in 1..Len(lots) : Append(lots, lot)[n] = lots[n]
      /\ Len(lots) \in Nat
  BY AppendProperties
<1>2. \A n \in 1..(Len(lots) + 1) : n \in 1..Len(lots) \/ n = Len(lots) + 1
  BY <1>1
<1> QED BY <1>1, <1>2 DEF TenLots

TenAcc(acc) == acc.price \in Tens /\ acc.gain \in Tens /\ TenLots(acc.lots)

LEMMA TenMatch ==
  ASSUME NEW acc \in Acc, NEW lot \in Lot, TenAcc(acc), lot.cost \in Tens
  PROVE  TenAcc(Match(acc, lot))
<1> DEFINE m == Least(acc.left, lot.qty)
           rest == [lot EXCEPT !.qty = @ - m]
           lots2 == IF lot.qty > m THEN Append(acc.lots, rest) ELSE acc.lots
<1>1. /\ acc.lots \in Seq(Lot) /\ acc.left \in Nat /\ lot.qty \in Nat
  BY DEF Acc, Lot
<1>2. m \in Nat /\ m <= lot.qty
  BY <1>1 DEF Least
<1>3. /\ Match(acc, lot).price = acc.price /\ Match(acc, lot).lots = lots2
      /\ Match(acc, lot).gain = acc.gain + (acc.price - lot.cost) * m
  BY DEF Match, Acc
<1> HIDE DEF m
<1>4. rest \in Lot /\ rest.cost = lot.cost
  BY <1>1, <1>2 DEF Lot
<1> HIDE DEF rest
<1>5. TenLots(lots2)
  BY <1>1, <1>4, TenAppend DEF TenAcc
<1>6. acc.gain + (acc.price - lot.cost) * m \in Tens
  <2>1. acc.price - lot.cost \in Tens
    BY TensAdd DEF TenAcc
  <2>2. m \in Int
    BY <1>2
  <2>3. (acc.price - lot.cost) * m \in Tens
    BY <2>1, <2>2, TensTimes
  <2> QED BY <2>3, TensAdd DEF TenAcc
<1> HIDE DEF lots2
<1> QED BY <1>3, <1>5, <1>6 DEF TenAcc

LEMMA TenSale ==
  ASSUME NEW k \in [side : {"BUY", "SELL"}, qty : Nat \ {0}, price : Nat, fee : Nat],
         k.price \in Tens, NEW lots \in Seq(Lot), TenLots(lots)
  PROVE  TenAcc(Sale(k, lots))
<1> DEFINE b == [left |-> k.qty, price |-> k.price, gain |-> 0, lots |-> <<>>]
<1>0. b \in Acc
  BY DEF Acc
<1>1. TenAcc(b) /\ Len(lots) \in Nat
  BY TensZero DEF TenAcc, TenLots
<1>2. Sale(k, lots) = Matched(b, lots)
  BY DEF Sale
<1> HIDE DEF b
<1>3. PICK h \in [0..Len(lots) -> Acc] :
           /\ h[0] = b /\ Matched(b, lots) = h[Len(lots)]
           /\ \A n \in 1..Len(lots) : h[n] = Match(h[n - 1], lots[n])
  BY <1>0, MatchFold, Zenon
<1> DEFINE Good == {n \in 0..Len(lots) : TenAcc(h[n])}
<1>4. 0 \in Good
  BY <1>1, <1>3
<1>5. \A n \in 0..(Len(lots) - 1) : n \in Good => n + 1 \in Good
  <2> SUFFICES ASSUME NEW n \in 0..(Len(lots) - 1), n \in Good PROVE n + 1 \in Good
    OBVIOUS
  <2>1. n + 1 \in 1..Len(lots) /\ n + 1 - 1 = n /\ n \in 0..Len(lots) /\ n + 1 \in 0..Len(lots)
    BY <1>1
  <2>2. h[n + 1] = Match(h[n], lots[n + 1])
    BY <1>3, <2>1
  <2>3. h[n] \in Acc /\ lots[n + 1] \in Lot /\ lots[n + 1].cost \in Tens /\ TenAcc(h[n])
    BY <2>1, ElementOfSeq DEF TenLots
  <2>4. TenAcc(h[n + 1])
    BY <2>2, <2>3, TenMatch
  <2> QED BY <2>1, <2>4
<1>6. Len(lots) \in Good
  <2>1. \A n \in 0..Len(lots) : n \in Good
    BY <1>1, <1>4, <1>5, UpTo
  <2> QED BY <1>1, <2>1
<1> QED BY <1>2, <1>3, <1>6

LEMMA TenEvent ==
  ASSUME Exact, Tape, NEW st \in State, TenState(st), NEW i \in DOMAIN trades
  PROVE  TenState(ApplyEvent(st, i))
<1>1. /\ K(i) \in [side : {"BUY", "SELL"}, qty : Nat \ {0}, price : Nat, fee : Nat]
      /\ K(i).price \in Tens /\ st.lots \in Seq(Lot) /\ TenLots(st.lots) /\ st.realized \in Tens
  BY KindOf, TenPrice DEF State, TenState
<1>2. CASE K(i).side = "BUY"
  <2> DEFINE lot == [qty |-> K(i).qty, cost |-> K(i).price]
  <2>1. lot \in Lot /\ lot.cost \in Tens
    BY <1>1 DEF Lot
  <2>2. ApplyEvent(st, i).lots = Append(st.lots, lot) /\ ApplyEvent(st, i).realized = st.realized
    BY <1>2 DEF ApplyEvent, State
  <2> HIDE DEF lot
  <2>3. TenLots(Append(st.lots, lot))
    BY <1>1, <2>1, TenAppend
  <2> QED BY <1>1, <2>2, <2>3 DEF TenState
<1>3. CASE K(i).side # "BUY"
  <2>1. /\ ApplyEvent(st, i).lots = Sale(K(i), st.lots).lots
        /\ ApplyEvent(st, i).realized = st.realized + Sale(K(i), st.lots).gain
    BY <1>3 DEF ApplyEvent, State
  <2>2. TenLots(Sale(K(i), st.lots).lots) /\ Sale(K(i), st.lots).gain \in Tens
    BY <1>1, TenSale DEF TenAcc
  <2>3. st.realized + Sale(K(i), st.lots).gain \in Tens
    BY <1>1, <2>2, TensAdd
  <2> QED BY <2>1, <2>2, <2>3 DEF TenState
<1> QED BY <1>2, <1>3

LEMMA TenReplay ==
  ASSUME Exact, Tape, NEW st \in State, TenState(st), NEW s \in Seq(DOMAIN trades)
  PROVE  TenState(Replayed(st, s))
<1>1. PICK h \in [0..Len(s) -> State] :
           /\ h[0] = st /\ Replayed(st, s) = h[Len(s)]
           /\ \A n \in 1..Len(s) : h[n] = ApplyEvent(h[n - 1], s[n])
  BY EventFold, Zenon
<1>2. Len(s) \in Nat
  OBVIOUS
<1> DEFINE Good == {n \in 0..Len(s) : TenState(h[n])}
<1>3. 0 \in Good
  BY <1>1, <1>2
<1>4. \A n \in 0..(Len(s) - 1) : n \in Good => n + 1 \in Good
  <2> SUFFICES ASSUME NEW n \in 0..(Len(s) - 1), n \in Good PROVE n + 1 \in Good
    OBVIOUS
  <2>1. n + 1 \in 1..Len(s) /\ n + 1 - 1 = n /\ n \in 0..Len(s) /\ n + 1 \in 0..Len(s)
    BY <1>2
  <2>2. h[n + 1] = ApplyEvent(h[n], s[n + 1])
    BY <1>1, <2>1
  <2>3. h[n] \in State /\ s[n + 1] \in DOMAIN trades /\ TenState(h[n])
    BY <2>1, ElementOfSeq
  <2>4. TenState(h[n + 1])
    BY <2>2, <2>3, TenEvent
  <2> QED BY <2>1, <2>4
<1>5. Len(s) \in Good
  <2>1. \A n \in 0..Len(s) : n \in Good
    BY <1>2, <1>3, <1>4, UpTo
  <2> QED BY <1>2, <2>1
<1> QED BY <1>1, <1>5

LEMMA TenEmpty == TenState(Empty)
BY TensZero DEF TenState, TenLots, Empty

SplitInv == TenState(ckpt.state) /\ capital.realized \in Tens /\ ProfitSplitOnce

LEMMA SplitSame ==
  ASSUME SplitInv, ckpt'.state = ckpt.state, capital' = capital
  PROVE  SplitInv'
BY DEF SplitInv, ProfitSplitOnce

LEMMA SplitReduce ==
  ASSUME Exact, Typed, SplitInv, Reduce
  PROVE  SplitInv'
<1>1. /\ Tape /\ From.state \in State /\ Delta \in SUBSET DOMAIN trades
      /\ Sorted(Delta) \in Seq(DOMAIN trades)
  BY TypedTape, FromType, SortedFills DEF Checkpoint
<1>2. TenState(From.state)
  BY TenEmpty DEF SplitInv, From, NoCheckpoint
<1>3. TenState(Replayed(From.state, Sorted(Delta)))
  BY <1>1, <1>2, TenReplay
<1>4. ckpt'.state = Replayed(From.state, Sorted(Delta)) /\ capital' = capital
  BY DEF Reduce, Reduced, ApplyEvents
<1> QED BY <1>3, <1>4 DEF SplitInv, ProfitSplitOnce

(* A profit that is a multiple of ten is split without a remainder. *)
LEMMA SplitExact ==
  ASSUME NEW p \in Tens
  PROVE  (p * 6) \div 10 \in Int /\ (p * 4) \div 10 \in Int /\ (p * 6) \div 10 + (p * 4) \div 10 = p
<1>1. PICK a \in Int : p = 10 * a
  BY DEF Tens
<1>2. (p * 6) \div 10 = 6 * a /\ (p * 4) \div 10 = 4 * a
  BY <1>1
<1> QED BY <1>1, <1>2

LEMMA SplitCapital ==
  ASSUME Typed, SplitInv, ApplyCapital
  PROVE  SplitInv'
<1>1. /\ ckpt.state.realized \in Tens /\ capital.realized \in Tens /\ Seed \in Int
      /\ capital \in [trading : Int, treasury : Int, realized : Int, count : Nat \cup {None}]
      /\ UNCHANGED ckpt
  BY LedgerAssumption DEF SplitInv, TenState, Typed, TypeOK, ApplyCapital
<1>2. /\ Loaded.trading \in Int /\ Loaded.treasury \in Int /\ Loaded.realized \in Tens
      /\ Loaded.trading + Loaded.treasury = Seed + Loaded.realized
  BY <1>1, TensZero DEF Loaded, SplitInv, ProfitSplitOnce
<1>3. CASE Settled
  <2>1. capital' = Loaded
    BY <1>3 DEF ApplyCapital
  <2> QED BY <1>1, <1>2, <2>1 DEF SplitInv, ProfitSplitOnce
<1>4. CASE ~Settled
  <2> DEFINE a == (Profit * 6) \div 10
             c == (Profit * 4) \div 10
  <2>1. Profit \in Tens /\ Profit = ckpt.state.realized - Loaded.realized
    BY <1>1, <1>2, TensAdd DEF Profit
  <2>2. a \in Int /\ c \in Int /\ a + c = Profit
    BY <2>1, SplitExact
  <2>3. /\ capital'.trading = Loaded.trading + a /\ capital'.treasury = Loaded.treasury + c
        /\ capital'.realized = ckpt.state.realized
    BY <1>4 DEF ApplyCapital
  <2> HIDE DEF a, c
  <2>4. /\ ckpt.state.realized \in Int /\ Loaded.realized \in Int /\ Seed \in Int
        /\ Loaded.trading \in Int /\ Loaded.treasury \in Int
    BY <1>1, <1>2, TensAdd
  <2>5. /\ Loaded.trading + Loaded.treasury = Seed + Loaded.realized
        /\ a + c = ckpt.state.realized - Loaded.realized
    BY <1>2, <2>1, <2>2
  <2>6. (Loaded.trading + a) + (Loaded.treasury + c) = Seed + ckpt.state.realized
    BY <2>2, <2>4, <2>5
  <2>7. capital'.trading + capital'.treasury = Seed + capital'.realized
    BY <2>3, <2>6
  <2> QED BY <1>1, <2>3, <2>7 DEF SplitInv, ProfitSplitOnce
<1> QED BY <1>3, <1>4

LEMMA SplitStep ==
  ASSUME Exact
  PROVE  Typed /\ SplitInv /\ [Next]_vars => SplitInv'
<1> SUFFICES ASSUME Typed, SplitInv, [Next]_vars PROVE SplitInv'
  OBVIOUS
<1>1. CASE Reduce
  BY <1>1, SplitReduce
<1>2. CASE ApplyCapital
  BY <1>2, SplitCapital
<1>3. CASE LoseCheckpoint
  <2>1. ckpt'.state = ckpt.state /\ capital' = capital
    BY <1>3 DEF LoseCheckpoint, Typed, Checkpoint
  <2> QED BY <2>1, SplitSame
<1>4. CASE Fetch \/ FetchFails \/ RollBack \/ ReduceFails \/ Crash \/ Tick \/ UNCHANGED vars
  BY <1>4, SplitSame DEF Fetch, FetchFails, RollBack, ReduceFails, Crash, Tick, vars
<1>5. ASSUME NEW failed \in BOOLEAN, Commit(failed) PROVE SplitInv'
  BY <1>5, SplitSame DEF Commit
<1>6. ASSUME NEW k \in Kind, Happen(k) PROVE SplitInv'
  BY <1>6, SplitSame DEF Happen
<1>7. ASSUME NEW i \in DOMAIN trades, Show(i) PROVE SplitInv'
  BY <1>7, SplitSame DEF Show
<1> QED BY <1>1, <1>2, <1>3, <1>4, <1>5, <1>6, <1>7 DEF Next

LEMMA SplitInit == Init => SplitInv
BY TenEmpty, TensZero DEF Init, SplitInv, ProfitSplitOnce, NoCheckpoint

(* Realized profit is split exactly once, whatever crashed between the     *)
(* ledger checkpoint and the capital state and whatever was replayed, in   *)
(* amounts in which the split leaves no remainder.                         *)
THEOREM ProfitIsSplitOnce ==
  ASSUME Exact
  PROVE  Spec => []ProfitSplitOnce
<1>1. Typed /\ SplitInv /\ [Next]_vars => SplitInv'
  BY SplitStep
<1>2. SplitInv => ProfitSplitOnce
  BY DEF SplitInv
<1> QED BY <1>1, <1>2, SplitInit, BaseInvariant, PTL DEF Spec
=============================================================================
