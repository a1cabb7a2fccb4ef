------------------------- MODULE Stage7CycleProofs -------------------------
(***************************************************************************)
(* Proofs about the modes and the parameters of the two stages: which      *)
(* cycles may buy, when the degrade level falls, and what the checkpoints  *)
(* of the Stage-7 parameters say after any sequence of proposals,          *)
(* rollbacks and crashes, and that the orders of a Stage-7 cycle stay      *)
(* within every limit that its plan was made for.                          *)
(***************************************************************************)
EXTENDS Stage7Cycle, WellFoundedInduction, NaturalsInduction, FiniteSetTheorems, TLAPS

(* Cycles of the two stages do not overlap. *)
StagesApart ==
    /\ {"at", "cap", "orders"} \subseteq DOMAIN s7
    /\ s7.at # "idle" => cyc.at = "idle"

(* The parameters a Stage-7 cycle works with are the active ones. *)
S7Inv ==
    /\ StagesApart
    /\ s7.at # "idle" => params # NoParams /\ s7.cap = params.turnover

(* A row of parameters, with a turnover cap that is no debt. *)
ParamRow == [version : Nat \ {0}, size : Int, offset : Int, turnover : Nat, orders : Int,
             spread : Int, volume : Int]

(* A checkpoint holds the parameters of its own version. *)
CheckpointInv ==
    \A v \in DOMAIN checkpoints :
        /\ v \in Nat \ {0}
        /\ checkpoints[v].params \in ParamRow
        /\ checkpoints[v].params.version = v

(* CheckpointsAgree as a step needs it: every version up to the active one *)
(* has a checkpoint.                                                       *)
ParamInv ==
    /\ params = NoParams => DOMAIN checkpoints = {}
    /\ params # NoParams => params \in ParamRow /\ 1 .. params.version \subseteq DOMAIN checkpoints

StoreInv == CheckpointInv /\ ParamInv /\ CheckpointsAgree

-----------------------------------------------------------------------------
(* Degrade: the stored row, what the cycle in flight has read, and what it  *)
(* decided.                                                                 *)

Restricting == {"REDUCE_RISK_ONLY", "OBSERVE_ONLY"}
Decided == {"filter", "execute", "persist"}

(* Where a cycle keeps what it found. *)
CycleShape ==
    /\ DOMAIN cyc = {"at", "active", "in", "read", "got", "base", "acts", "stall", "rejects", "late"}
    /\ load.cycles \subseteq DOMAIN Inputs
    /\ cyc.at # "idle" => cyc.in \in DOMAIN Inputs
    /\ cyc.at \in {"degrade"} \cup Decided => cyc.base \in Mode
    /\ cyc.at \in {"degrade", "filter"} => \A a \in cyc.acts : {"type", "side"} \subseteq DOMAIN a

(* A row of degrade_state_current. *)
Row(d) ==
    /\ {"level", "streak", "warns", "cool"} \subseteq DOMAIN d
    /\ d.level \in 0 .. 3 /\ d.cool \in Nat /\ d.streak \in Nat /\ d.warns \in Nat
    /\ d.cool > 0 => d.level >= 1

(* The records of the model never claim more than the row says. *)
DegradeRow ==
    /\ Row(degrade)
    /\ warnRun \in Nat /\ warnRun <= degrade.warns
    /\ manual \in BOOLEAN /\ (manual => degrade.cool > 0)

(* From the decision on, the cycle has a level whose policy does not buy    *)
(* whenever an override is in force.                                        *)
ReadInv ==
    cyc.at \in Decided =>
        /\ Row(cyc.read) /\ warnRun <= cyc.read.warns
        /\ cyc.got.streak \in Nat /\ \E l \in 0 .. 3 : cyc.got = Build(l, cyc.got.streak)
        /\ manual => cyc.got.level >= 1

(* The other reasons of Troubled that the degrade state answers for. *)
Alarmed(in) ==
    \/ in.breaker \/ in.diverge = "ERROR"
    \/ warnRun + 1 >= WarnThreshold /\ in.skew /\ "CLOCK_SKEW" \in WarnCodes

AlarmInv ==
    cyc.at \in Decided => (Alarmed(Inputs[cyc.in]) => cyc.got.level >= 1)

(* A cycle that sees the drawdown from the highest equity stored has a mode *)
(* that does not buy.                                                       *)
PeakInv ==
    /\ risk.peak \in Int
    /\ cyc.at \in {"degrade"} \cup Decided =>
          (risk.peak - Inputs[cyc.in].equity >= MaxDrawdown => cyc.base \in Restricting)

ModesInv == CycleShape /\ DegradeRow /\ ReadInv /\ AlarmInv /\ PeakInv /\ Stage4DoesNotBuy

(* A row that is past its cooldown although the cycle started before that   *)
(* was written by the operator meanwhile.                                   *)
WrittenMeanwhile(d) == d.cool = 0 /\ ~cyc.late => d.streak = 0 /\ d.warns = 0

(* What a cycle that lowers the level has seen. *)
FallInv ==
    /\ cyc.at \in {"assess", "degrade"} => WrittenMeanwhile(degrade)
    /\ cyc.at \in Decided /\ cyc.got.level < cyc.read.level =>
          /\ cyc.late
          /\ \/ cyc.got.level = cyc.read.level - 1
             \/ cyc.got.level >= 1 /\ cyc.read.warns + 1 >= WarnThreshold

-----------------------------------------------------------------------------
(* Operators *)

(* A non-empty set of naturals below a bound has a largest member, which Max picks. *)
LEMMA MaxPicks ==
    ASSUME NEW n \in Nat, NEW S, S \subseteq 0 .. n, S # {}
    PROVE  Max(S) \in S /\ \A y \in S : y <= Max(S)
<1> DEFINE T == {n - v : v \in S}
<1>0. \A v \in S : n - v \in Nat
  BY SMT
<1>1. T \subseteq Nat /\ T # {}
  BY <1>0, Zenon
<1>2. IsWellFoundedOn(OpToRel(<, Nat), Nat)
  BY NatLessThanWellFounded
<1> HIDE DEF T
<1>3. PICK x \in T : \A y \in T : ~(<<y, x>> \in OpToRel(<, Nat))
  BY <1>1, <1>2, WFMin
<1>4. \A y \in T : ~(y < x)
  BY <1>1, <1>3, Zenon DEF OpToRel
<1>5. PICK v \in S : x = n - v
  BY DEF T
<1>6. \A y \in S : n - y \in T
  BY DEF T
<1>7. \A y \in S : v >= y
  <2> TAKE y \in S
  <2>1. ~(n - y < n - v)
    BY <1>4, <1>5, <1>6
  <2> QED BY <2>1
<1>8. Max(S) \in S /\ \A y \in S : Max(S) >= y
  BY <1>7 DEF Max
<1> QED
  BY <1>8

(* Parameters before their bounds are applied. *)
RawRow == [version : Nat \ {0}, size : Int, offset : Int, turnover : Int, orders : Int,
           spread : Int, volume : Int]

LEMMA RowIsRaw == ParamRow \subseteq RawRow
<1> SUFFICES ASSUME NEW p \in ParamRow PROVE p \in RawRow
  OBVIOUS
<1> QED BY DEF ParamRow, RawRow

(* The proposal stays within the cap that is in force. *)
LEMMA BoundsCap ==
    ASSUME NEW p \in RawRow, NEW c \in Int
    PROVE  /\ apply_bounds(p, c) \in ParamRow
           /\ c >= 0 => apply_bounds(p, c).turnover <= c
           /\ apply_bounds(p, c).orders >= 1
           /\ apply_bounds(p, c).version = p.version
<1>1. /\ p.size \in Int /\ p.offset \in Int /\ p.turnover \in Int /\ p.orders \in Int
      /\ p.spread \in Int
  BY DEF RawRow
<1> DEFINE t == Least(Greatest(0, c), Greatest(0, p.turnover))
<1>2. t \in Nat /\ (c >= 0 => t <= c)
  BY <1>1 DEF Least, Greatest
<1> HIDE DEF t
<1> DEFINE a == Clamp(p.size, 5, 50)
           b == Clamp(p.offset, 0, 50)
           o == Clamp(p.orders, 1, 20)
           s == Clamp(p.spread, 10, 500)
           q == [p EXCEPT !.size = a, !.offset = b, !.turnover = t, !.orders = o, !.spread = s]
<1>3. apply_bounds(p, c) = q
  BY DEF apply_bounds, t
<1>4. a \in Int /\ b \in Int /\ o \in Int /\ o >= 1 /\ s \in Int
  BY <1>1 DEF Clamp, Least, Greatest
<1> HIDE DEF a, b, o, s
<1>5. q \in ParamRow
  BY <1>2, <1>4 DEF RawRow, ParamRow
<1>6. q.turnover = t /\ q.orders = o
  BY DEF RawRow
<1>7. q.version = p.version
  BY DEF RawRow
<1> HIDE DEF q
<1> QED
  BY <1>2, <1>3, <1>4, <1>5, <1>6, <1>7

LEMMA ProposalCap ==
    ASSUME NEW p \in RawRow, NEW c \in Int, NEW recent
    PROVE  LET q == propose_update(recent, p, c)
           IN  q # p => /\ q \in ParamRow
                        /\ q.version = p.version + 1
                        /\ c >= 0 => q.turnover <= c
                        /\ q.orders >= 1
<1> DEFINE fired   == [i \in 1 .. 4 |-> <<"spike", "throttled", "high", "missing">>[i] \in recent[1].flags]
           acts(i) == fired[i] /\ Cardinality({j \in 1 .. i - 1 : fired[j]}) < 3
           tighter == [p EXCEPT
                         !.offset   = IF acts(1) THEN Greatest(0, @ - 2) ELSE @,
                         !.orders   = IF acts(2) THEN Greatest(1, @ - 1) ELSE @,
                         !.turnover = IF acts(3) THEN (@ * 19) \div 20 ELSE @,
                         !.spread   = IF acts(4) THEN Greatest(10, @ - 10) ELSE @,
                         !.volume   = IF acts(4) THEN @ + 1 ELSE @]
           wider   == [p EXCEPT !.size = @ + 1, !.turnover = (@ * 21) \div 20]
           chosen  == IF HealthyWindow(recent) /\ \A i \in 1 .. 4 : ~fired[i] THEN wider ELSE tighter
           bounded == apply_bounds(chosen, c)
<1>1. /\ p.size \in Int /\ p.offset \in Int /\ p.turnover \in Int /\ p.orders \in Int
      /\ p.spread \in Int /\ p.volume \in Int
  BY DEF RawRow
<1>2. /\ p.size + 1 \in Int /\ (p.turnover * 21) \div 20 \in Int /\ (p.turnover * 19) \div 20 \in Int
      /\ Greatest(0, p.offset - 2) \in Int /\ Greatest(1, p.orders - 1) \in Int
      /\ Greatest(10, p.spread - 10) \in Int /\ p.volume + 1 \in Int
  BY <1>1 DEF Greatest
<1>3. \A s, t \in Int : [p EXCEPT !.size = s, !.turnover = t] \in RawRow
  BY DEF RawRow
<1>4. \A o, r, t, s, v \in Int :
        [p EXCEPT !.offset = o, !.orders = r, !.turnover = t, !.spread = s, !.volume = v] \in RawRow
  BY DEF RawRow
<1>5. wider \in RawRow
  <2>1. wider = [p EXCEPT !.size = p.size + 1, !.turnover = (p.turnover * 21) \div 20]
    BY DEF RawRow
  <2> DEFINE s == p.size + 1
             t == (p.turnover * 21) \div 20
  <2>2. s \in Int /\ t \in Int
    BY <1>2
  <2>3. wider = [p EXCEPT !.size = s, !.turnover = t]
    BY <2>1
  <2> HIDE DEF s, t, wider
  <2> QED BY <1>3, <2>2, <2>3, Zenon
<1>6. tighter \in RawRow
  <2> DEFINE o == IF acts(1) THEN Greatest(0, p.offset - 2) ELSE p.offset
             r == IF acts(2) THEN Greatest(1, p.orders - 1) ELSE p.orders
             t == IF acts(3) THEN (p.turnover * 19) \div 20 ELSE p.turnover
             s == IF acts(4) THEN Greatest(10, p.spread - 10) ELSE p.spread
             v == IF acts(4) THEN p.volume + 1 ELSE p.volume
  <2>1. o \in Int /\ r \in Int /\ t \in Int /\ s \in Int /\ v \in Int
    <3> HIDE DEF acts
    <3> QED BY <1>1, <1>2
  <2>2. tighter = [p EXCEPT !.offset = o, !.orders = r, !.turnover = t, !.spread = s, !.volume = v]
    <3> HIDE DEF acts
    <3> QED BY DEF RawRow
  <2> HIDE DEF o, r, t, s, v, tighter
  <2> QED BY <1>4, <2>1, <2>2, Zenon
<1>7. chosen \in RawRow
  <2> HIDE DEF wider, tighter, fired
  <2> QED BY <1>5, <1>6
<1>8. chosen.version = p.version
  BY DEF RawRow
<1>9. propose_update(recent, p, c) =
        IF bounded = p THEN p ELSE [bounded EXCEPT !.version = p.version + 1]
  BY DEF propose_update
<1> HIDE DEF chosen
<1>10. bounded \in ParamRow /\ (c >= 0 => bounded.turnover <= c) /\ bounded.orders >= 1
  BY <1>7, BoundsCap
<1>11. p.version + 1 \in Nat \ {0}
  BY DEF RawRow
<1> HIDE DEF bounded
<1>12. \A n \in Nat \ {0} :
         LET q == [bounded EXCEPT !.version = n]
         IN  q \in ParamRow /\ q.version = n /\ q.turnover = bounded.turnover /\ q.orders = bounded.orders
  BY <1>10 DEF ParamRow
<1> QED
  BY <1>9, <1>10, <1>11, <1>12

-----------------------------------------------------------------------------
(* The checkpoints *)

LEMMA SeedIsRow == Seed.turnover >= 0 => Seed \in ParamRow /\ Seed # NoParams
<1> SUFFICES ASSUME Seed.turnover >= 0 PROVE Seed \in ParamRow /\ Seed # NoParams
  OBVIOUS
<1>1. Seed \in [version : Nat, size : Int, offset : Int, turnover : Int, orders : Int,
                spread : Int, volume : Int] /\ Seed.version = 1
  BY Stage7Assumption DEF Stage7Assumption
<1>2. Seed.turnover \in Nat
  BY <1>1
<1>3. NoParams.version = 0
  BY DEF NoParams
<1> QED
  BY <1>1, <1>2, <1>3 DEF ParamRow

LEMMA RowIsNotNone == ASSUME NEW p \in ParamRow PROVE p # NoParams
<1>1. p.version # 0
  BY DEF ParamRow
<1> QED BY <1>1 DEF NoParams

(* The first cycle of a database seeds version 1. *)
LEMMA SeedStep ==
    ASSUME Seed.turnover >= 0, params = NoParams, StoreInv, params' = Seed,
           checkpoints' = WithCheckpoint(1, Checkpoint(Seed, TRUE))
    PROVE  StoreInv'
<1>1. Seed \in ParamRow /\ Seed # NoParams /\ Seed.version = 1
  BY SeedIsRow, Stage7Assumption DEF Stage7Assumption
<1>2. DOMAIN checkpoints' = {1} /\ checkpoints'[1].params = Seed
  BY DEF StoreInv, ParamInv, WithCheckpoint, Checkpoint
<1>3. CheckpointInv'
  <2>1. \A v \in DOMAIN checkpoints' : v = 1
    BY <1>2
  <2>2. 1 \in Nat \ {0}
    OBVIOUS
  <2> QED BY <1>1, <1>2, <2>1, <2>2 DEF CheckpointInv
<1>4. 1 .. 1 = {1}
  OBVIOUS
<1>5. ParamInv'
  <2>1. params' = Seed
    OBVIOUS
  <2>2. 1 .. Seed.version = {1}
    BY <1>1, <1>4
  <2> QED BY <1>1, <1>2, <2>1, <2>2 DEF ParamInv
<1>6. CheckpointsAgree'
  <2>1. params'.version = 1 /\ params' = Seed
    BY <1>1
  <2>2. GoodVersions' \subseteq DOMAIN checkpoints'
    BY Zenon DEF GoodVersions
  <2>3. \A v \in GoodVersions' : v = 1
    BY <1>2, <2>2, Zenon
  <2>4. \A v \in GoodVersions' : v <= 1
    <3> SUFFICES ASSUME NEW v \in GoodVersions' PROVE v <= 1
      OBVIOUS
    <3>1. v = 1
      BY <2>3
    <3> QED BY <3>1
  <2>5. \A v, w \in 1 .. 1 : ~(v < w)
    OBVIOUS
  <2> QED BY <1>1, <1>2, <2>1, <2>4, <2>5 DEF CheckpointsAgree
<1> QED BY <1>3, <1>5, <1>6 DEF StoreInv

(* A breach marks the active version bad and leaves its parameters. *)
LEMMA MarkStep ==
    ASSUME params # NoParams, StoreInv, params' = params,
           checkpoints' = WithCheckpoint(params.version,
                              Checkpoint(checkpoints[params.version].params, FALSE))
    PROVE  StoreInv'
<1> DEFINE n == params.version
<1>1. params \in ParamRow /\ n \in Nat \ {0} /\ n \in DOMAIN checkpoints
  BY DEF StoreInv, ParamInv, ParamRow
<1>2. DOMAIN checkpoints' = DOMAIN checkpoints
  BY <1>1 DEF WithCheckpoint
<1>3. \A v \in DOMAIN checkpoints :
        /\ checkpoints'[v].params = checkpoints[v].params
        /\ checkpoints'[v].good => checkpoints[v].good
  BY <1>1 DEF WithCheckpoint, Checkpoint
<1>4. CheckpointInv'
  BY <1>2, <1>3 DEF CheckpointInv, StoreInv
<1>5. ParamInv'
  BY <1>2 DEF ParamInv, StoreInv
<1>6. CheckpointsAgree'
  <2>1. checkpoints'[n].params = params
    BY <1>1, <1>3 DEF StoreInv, CheckpointsAgree
  <2>2. \A v \in DOMAIN checkpoints' : checkpoints'[v].good => v <= n
    BY <1>2, <1>3 DEF StoreInv, CheckpointsAgree, GoodVersions
  <2>3. \A v \in 1 .. n : checkpoints'[v].params = checkpoints[v].params
    BY <1>3 DEF StoreInv, ParamInv
  <2>4. \A v, w \in 1 .. n :
          v < w => checkpoints'[w].params.turnover <= checkpoints'[v].params.turnover
    BY <2>3 DEF StoreInv, CheckpointsAgree
  <2> QED BY <2>1, <2>2, <2>4 DEF CheckpointsAgree, GoodVersions
<1> QED BY <1>4, <1>5, <1>6 DEF StoreInv

(* Parameters are made active whose version is one the checkpoints know, or *)
(* the next one, with a cap that is no higher than those before.            *)
LEMMA ActivateStep ==
    ASSUME params # NoParams, StoreInv,
           NEW p \in ParamRow, p.version <= params.version + 1,
           \A v \in GoodVersions : v <= p.version,
           \A v \in 1 .. p.version - 1 : p.turnover <= checkpoints[v].params.turnover,
           set_active_stage7_params(p)
    PROVE  StoreInv'
<1> DEFINE n == p.version
<1>1. params \in ParamRow /\ params.version \in Nat \ {0} /\ n \in Nat \ {0}
  BY DEF StoreInv, ParamInv, ParamRow
<1>2. params' = p /\ checkpoints' = WithCheckpoint(n, Checkpoint(p, TRUE))
  BY DEF set_active_stage7_params
<1>3. DOMAIN checkpoints' = DOMAIN checkpoints \cup {n}
  BY <1>2 DEF WithCheckpoint
<1>4. checkpoints'[n].params = p
  BY <1>2 DEF WithCheckpoint, Checkpoint
<1>5. \A v \in DOMAIN checkpoints : v # n => checkpoints'[v] = checkpoints[v]
  BY <1>2 DEF WithCheckpoint
<1>6. p # NoParams
  BY RowIsNotNone
<1> HIDE DEF n
<1>7. p.version = n
  BY DEF n
<1>8. CheckpointInv'
  <2> SUFFICES ASSUME NEW v \in DOMAIN checkpoints'
               PROVE  /\ v \in Nat \ {0}
                      /\ checkpoints'[v].params \in ParamRow
                      /\ checkpoints'[v].params.version = v
    BY DEF CheckpointInv
  <2>1. CASE v = n
    BY <1>1, <1>4, <1>7, <2>1
  <2>2. CASE v # n
    BY <1>3, <1>5, <2>2 DEF StoreInv, CheckpointInv
  <2> QED BY <2>1, <2>2
<1>9. 1 .. params.version \subseteq DOMAIN checkpoints
  BY DEF StoreInv, ParamInv
<1>10. 1 .. n \subseteq DOMAIN checkpoints'
  BY <1>1, <1>3, <1>7, <1>9
<1>11. ParamInv'
  BY <1>2, <1>6, <1>7, <1>10 DEF ParamInv
<1>12. CheckpointsAgree'
  <2>1. \A v \in DOMAIN checkpoints' : checkpoints'[v].good => v <= n
    <3> SUFFICES ASSUME NEW v \in DOMAIN checkpoints', checkpoints'[v].good, v # n PROVE v <= n
      BY <1>1
    <3>1. v \in DOMAIN checkpoints /\ checkpoints[v].good
      BY <1>3, <1>5
    <3> QED BY <3>1, <1>7 DEF GoodVersions
  <2>2. \A v, w \in 1 .. n :
          v < w => checkpoints'[w].params.turnover <= checkpoints'[v].params.turnover
    <3> SUFFICES ASSUME NEW v \in 1 .. n, NEW w \in 1 .. n, v < w
                 PROVE  checkpoints'[w].params.turnover <= checkpoints'[v].params.turnover
      OBVIOUS
    <3>1. v \in 1 .. params.version /\ v \in 1 .. n - 1 /\ v # n
      BY <1>1, <1>7
    <3>2. checkpoints'[v] = checkpoints[v]
      BY <1>5, <1>9, <3>1
    <3>3. CASE w = n
      BY <1>4, <1>7, <3>1, <3>2, <3>3
    <3>4. CASE w # n
      <4>1. w \in 1 .. params.version
        BY <1>1, <1>7, <3>4
      <4>2. checkpoints'[w] = checkpoints[w]
        BY <1>5, <1>9, <3>4, <4>1
      <4> QED BY <3>1, <3>2, <4>1, <4>2 DEF StoreInv, CheckpointsAgree
    <3> QED BY <3>3, <3>4
  <2> QED BY <1>2, <1>4, <1>7, <2>1, <2>2 DEF CheckpointsAgree, GoodVersions
<1> QED BY <1>8, <1>11, <1>12 DEF StoreInv

LEMMA StoreSame ==
    ASSUME StoreInv, UNCHANGED <<params, checkpoints>> PROVE StoreInv'
BY DEF StoreInv, CheckpointInv, ParamInv, CheckpointsAgree, GoodVersions

(* The newest good checkpoint is one of the versions up to the active one. *)
LEMMA LastGood ==
    ASSUME StoreInv, params # NoParams, GoodVersions # {}
    PROVE  LET p == get_last_good_stage7_params_checkpoint
           IN  /\ p \in ParamRow
               /\ p.version \in GoodVersions /\ p.version <= params.version
               /\ \A v \in GoodVersions : v <= p.version
               /\ checkpoints[p.version].params = p
<1> DEFINE m == Max(GoodVersions)
<1>1. params.version \in Nat
  BY DEF StoreInv, ParamInv, ParamRow
<1>2. GoodVersions \subseteq 0 .. params.version
  BY <1>1 DEF StoreInv, CheckpointInv, CheckpointsAgree, GoodVersions
<1>3. m \in GoodVersions /\ \A v \in GoodVersions : v <= m
  BY <1>1, <1>2, MaxPicks
<1> HIDE DEF m
<1>4. m \in DOMAIN checkpoints
  BY <1>3 DEF GoodVersions
<1>5. checkpoints[m].params \in ParamRow /\ checkpoints[m].params.version = m
  BY <1>4 DEF StoreInv, CheckpointInv
<1>6. m <= params.version
  BY <1>3 DEF StoreInv, CheckpointsAgree
<1>7. get_last_good_stage7_params_checkpoint = checkpoints[m].params
  BY DEF get_last_good_stage7_params_checkpoint, m
<1> QED
  BY <1>3, <1>5, <1>6, <1>7

LEMMA RollBackStep ==
    ASSUME StoreInv, S7Inv, RollBack PROVE StoreInv'
<1>1. CASE GoodVersions = {}
  BY <1>1, StoreSame DEF RollBack
<1>2. CASE GoodVersions # {}
  <2> DEFINE p == get_last_good_stage7_params_checkpoint
  <2>1. params # NoParams
    BY DEF RollBack, S7Inv
  <2>2. set_active_stage7_params(p)
    BY <1>2 DEF RollBack
  <2>3. /\ p \in ParamRow
        /\ p.version <= params.version
        /\ \A v \in GoodVersions : v <= p.version
        /\ checkpoints[p.version].params = p
    BY <1>2, <2>1, LastGood
  <2>4. params.version \in Nat
    BY <2>1 DEF StoreInv, ParamInv, ParamRow
  <2> HIDE DEF p
  <2>5. p.version \in Nat \ {0}
    BY <2>3 DEF ParamRow
  <2>6. \A v \in 1 .. p.version - 1 : p.turnover <= checkpoints[v].params.turnover
    <3> SUFFICES ASSUME NEW v \in 1 .. p.version - 1
                 PROVE  p.turnover <= checkpoints[v].params.turnover
      OBVIOUS
    <3>1. v \in 1 .. params.version /\ p.version \in 1 .. params.version /\ v < p.version
      BY <2>3, <2>4, <2>5
    <3>2. checkpoints[p.version].params.turnover <= checkpoints[v].params.turnover
      BY <2>1, <3>1 DEF StoreInv, CheckpointsAgree
    <3> QED BY <2>3, <3>2
  <2>7. p.version <= params.version + 1
    BY <2>3, <2>4, <2>5
  <2> QED
    BY <2>1, <2>2, <2>3, <2>6, <2>7, ActivateStep
<1> QED BY <1>1, <1>2

LEMMA ApplyStep ==
    ASSUME StoreInv, S7Inv, ApplyProposal PROVE StoreInv'
<1> DEFINE p == propose_update(runs, params, s7.cap)
<1>1. params # NoParams /\ s7.cap = params.turnover
  BY DEF ApplyProposal, S7Inv
<1>2. params \in ParamRow /\ params.version \in Nat /\ params.turnover \in Nat
  BY <1>1 DEF StoreInv, ParamInv, ParamRow
<1>3. p # params => p \in ParamRow /\ p.version = params.version + 1 /\ p.turnover <= params.turnover
  BY <1>1, <1>2, RowIsRaw, ProposalCap
<1>4. \/ p # params /\ set_active_stage7_params(p)
      \/ UNCHANGED <<params, checkpoints>>
  BY DEF ApplyProposal
<1> HIDE DEF p
<1>5. CASE UNCHANGED <<params, checkpoints>>
  BY <1>5, StoreSame
<1>6. CASE p # params /\ set_active_stage7_params(p)
  <2>1. p \in ParamRow /\ p.version = params.version + 1 /\ p.turnover <= params.turnover
    BY <1>3, <1>6
  <2>2. \A v \in GoodVersions : v <= p.version
    <3> SUFFICES ASSUME NEW v \in GoodVersions PROVE v <= p.version
      OBVIOUS
    <3>1. v <= params.version /\ v \in Nat
      BY <1>1 DEF StoreInv, CheckpointsAgree, CheckpointInv, GoodVersions
    <3> QED BY <1>2, <2>1, <3>1
  <2>3. p.turnover \in Nat
    BY <2>1 DEF ParamRow
  <2>4. \A v \in 1 .. p.version - 1 : p.turnover <= checkpoints[v].params.turnover
    <3> SUFFICES ASSUME NEW v \in 1 .. p.version - 1
                 PROVE  p.turnover <= checkpoints[v].params.turnover
      OBVIOUS
    <3>1. v \in 1 .. params.version /\ params.version \in 1 .. params.version
      BY <1>2, <2>1
    <3>2. checkpoints[params.version].params = params
      BY <1>1 DEF StoreInv, CheckpointsAgree
    <3>3. checkpoints[v].params \in ParamRow
      BY <1>1, <3>1 DEF StoreInv, ParamInv, CheckpointInv
    <3>4. checkpoints[v].params.turnover \in Nat
      BY <3>3 DEF ParamRow
    <3>5. v < params.version => params.turnover <= checkpoints[v].params.turnover
      BY <1>1, <3>1, <3>2 DEF StoreInv, CheckpointsAgree
    <3>6. v = params.version => params.turnover <= checkpoints[v].params.turnover
      BY <1>2, <3>2
    <3> QED BY <1>2, <2>1, <2>3, <3>1, <3>4, <3>5, <3>6
  <2>5. p.version <= params.version + 1
    BY <1>2, <2>1
  <2> QED
    BY <1>1, <1>6, <2>1, <2>2, <2>4, <2>5, ActivateStep
<1> QED BY <1>4, <1>5, <1>6

-----------------------------------------------------------------------------
(* The Stage-7 cycle in flight *)

LEMMA IdleIs == S7Idle.at = "idle" /\ DOMAIN S7Idle = {"at", "in", "mode", "orders", "decision", "cap"}
BY DEF S7Idle

(* Only a Stage-4 cycle in flight, or one that starts, changes cyc. *)
LEMMA Stage4Changes ==
    ASSUME Stage4Step
    PROVE  cyc.at # "idle" \/ s7.at = "idle" \/ (UNCHANGED <<cyc, risk>>)
<1>1. CASE \E name \in load.cycles : Begin(name) /\ s7.at = "idle"
  BY <1>1
<1>2. CASE CycleStep
  BY <1>2 DEF CycleStep, Assess, Degrade, Filter, Execute, Persist
<1>3. CASE Abort
  BY <1>3 DEF Abort
<1>4. CASE run_degrade_clear
  BY <1>4 DEF run_degrade_clear
<1>5. CASE \E m \in Mode, c \in 0 .. 2 : run_degrade_override(m, c)
  BY <1>5 DEF run_degrade_override
<1>6. CASE TroubleEnds
  BY <1>6 DEF TroubleEnds
<1> QED BY <1>1, <1>2, <1>3, <1>4, <1>5, <1>6 DEF Stage4Step

LEMMA ApartStep == ASSUME StagesApart, [Next]_vars PROVE StagesApart'
<1> USE DEF StagesApart
<1>1. CASE Stage4Step /\ UNCHANGED s7Vars
  BY <1>1, Stage4Changes DEF s7Vars
<1>2. CASE \E in \in load.sights : S7Begin(in)
  <2> PICK in \in load.sights : S7Begin(in)
    BY <1>2
  <2>1. cyc.at = "idle" /\ cyc' = cyc
    BY DEF S7Begin, modeVars
  <2>2. \E d, m, o, c : s7' = [at |-> "trade", in |-> in, mode |-> m, decision |-> d,
                               orders |-> o, cap |-> c]
    BY Zenon DEF S7Begin
  <2> QED BY <2>1, <2>2
<1>3. CASE S7Trade \/ save_stage7_cycle \/ MarkBad
  BY <1>3 DEF S7Trade, save_stage7_cycle, MarkBad, modeVars
<1>4. CASE save_stage7_run_metrics
  BY <1>4, IdleIs DEF save_stage7_run_metrics, modeVars
<1>5. CASE RollBack \/ ApplyProposal \/ S7Abort
  BY <1>5, IdleIs DEF RollBack, ApplyProposal, S7Abort
<1>6. CASE PassTime
  BY <1>6 DEF PassTime
<1>7. CASE UNCHANGED vars
  BY <1>7 DEF vars, modeVars, s7Vars
<1> QED BY <1>1, <1>2, <1>3, <1>4, <1>5, <1>6, <1>7 DEF Next

LEMMA SeedIsSomething == Seed # NoParams
<1>1. Seed.version = 1 /\ NoParams.version = 0
  BY Stage7Assumption DEF NoParams
<1> QED BY <1>1

LEMMA S7Step == ASSUME S7Inv, [Next]_vars PROVE S7Inv'
<1> USE DEF S7Inv, StagesApart
<1>1. CASE Stage4Step /\ UNCHANGED s7Vars
  BY <1>1, Stage4Changes DEF s7Vars
<1>2. CASE \E in \in load.sights : S7Begin(in)
  <2> PICK in \in load.sights : S7Begin(in)
    BY <1>2
  <2>1. cyc.at = "idle" /\ cyc' = cyc
    BY DEF S7Begin, modeVars
  <2>2. params' = ActiveParams
    BY DEF S7Begin, get_active_stage7_params
  <2>3. ActiveParams # NoParams
    BY SeedIsSomething DEF ActiveParams
  <2>4. \E d, m : s7' = [at |-> "trade", in |-> in, mode |-> m, decision |-> d,
                         orders |-> Orders(in, ActiveParams, m, d), cap |-> ActiveParams.turnover]
    BY Zenon DEF S7Begin
  <2>5. s7'.cap = ActiveParams.turnover /\ {"at", "cap", "orders"} \subseteq DOMAIN s7'
    BY <2>4
  <2> QED BY <2>1, <2>2, <2>3, <2>5
<1>3. CASE S7Trade \/ save_stage7_cycle
  BY <1>3 DEF S7Trade, save_stage7_cycle, modeVars
<1>4. CASE save_stage7_run_metrics
  <2>1. CASE s7' = S7Idle
    BY <2>1, IdleIs
  <2>2. CASE s7' = [S7Idle EXCEPT !.at = "adapt", !.cap = s7.cap]
    <3>1. s7'.cap = s7.cap /\ DOMAIN s7' = DOMAIN S7Idle
      BY <2>2, IdleIs
    <3> QED BY <1>4, <3>1, IdleIs DEF save_stage7_run_metrics, modeVars
  <2> QED BY <1>4, <2>1, <2>2 DEF save_stage7_run_metrics
<1>5. CASE MarkBad
  BY <1>5 DEF MarkBad, modeVars
<1>6. CASE RollBack \/ ApplyProposal \/ S7Abort
  BY <1>6, IdleIs DEF RollBack, ApplyProposal, S7Abort
<1>7. CASE PassTime
  BY <1>7 DEF PassTime
<1>8. CASE UNCHANGED vars
  BY <1>8 DEF vars, modeVars, s7Vars
<1> QED BY <1>1, <1>2, <1>3, <1>4, <1>5, <1>6, <1>7, <1>8 DEF Next

LEMMA StoreStep ==
    ASSUME Seed.turnover >= 0, S7Inv, StoreInv, [Next]_vars PROVE StoreInv'
<1>1. CASE UNCHANGED <<params, checkpoints>>
  BY <1>1, StoreSame
<1>2. CASE \E in \in load.sights : S7Begin(in)
  <2>1. get_active_stage7_params
    BY <1>2 DEF S7Begin
  <2>2. CASE params = NoParams
    <3>1. params' = Seed /\ checkpoints' = WithCheckpoint(1, Checkpoint(Seed, TRUE))
      BY <2>1, <2>2, Zenon DEF get_active_stage7_params, ActiveParams
    <3> QED BY <2>2, <3>1, SeedStep
  <2>3. CASE params # NoParams
    <3>1. params' = params /\ checkpoints' = checkpoints
      BY <2>1, <2>3, Zenon DEF get_active_stage7_params, ActiveParams
    <3> QED BY <3>1, StoreSame
  <2> QED BY <2>2, <2>3
<1>3. CASE MarkBad
  <2>1. params # NoParams /\ params' = params
    BY <1>3 DEF MarkBad, S7Inv
  <2>2. checkpoints' = WithCheckpoint(params.version,
                           Checkpoint(checkpoints[params.version].params, FALSE))
    BY <1>3, Zenon DEF MarkBad, set_stage7_checkpoint_goodness
  <2> QED BY <2>1, <2>2, MarkStep
<1>4. CASE RollBack
  BY <1>4, RollBackStep
<1>5. CASE ApplyProposal
  BY <1>5, ApplyStep
<1>6. CASE Stage4Step /\ UNCHANGED s7Vars
  BY <1>1, <1>6 DEF s7Vars
<1>7. CASE S7Trade \/ save_stage7_cycle \/ save_stage7_run_metrics \/ S7Abort \/ PassTime
  BY <1>1, <1>7 DEF S7Trade, save_stage7_cycle, save_stage7_run_metrics, S7Abort, PassTime
<1>8. CASE UNCHANGED vars
  BY <1>1, <1>8 DEF vars, s7Vars
<1> QED BY <1>2, <1>3, <1>4, <1>5, <1>6, <1>7, <1>8 DEF Next

LEMMA AdaptInit == Init => S7Inv /\ StoreInv
<1> SUFFICES ASSUME Init PROVE S7Inv /\ StoreInv
  OBVIOUS
<1>1. s7 = S7Idle /\ params = NoParams /\ checkpoints = <<>>
  BY DEF Init, S7Init
<1>2. DOMAIN checkpoints = {}
  BY <1>1
<1> QED
  BY <1>1, <1>2, IdleIs DEF S7Inv, StagesApart, StoreInv, CheckpointInv, ParamInv, CheckpointsAgree

LEMMA AdaptInvariant ==
    ASSUME Seed.turnover >= 0 PROVE Spec => [](S7Inv /\ StoreInv)
<1>1. S7Inv /\ StoreInv /\ [Next]_vars => (S7Inv /\ StoreInv)'
  BY S7Step, StoreStep
<1> QED BY <1>1, AdaptInit, PTL DEF Spec

(* If the configured turnover cap is not negative (nothing validates it),  *)
(* the active parameters are those of their checkpoint, a rollback never   *)
(* goes forward, and no sequence of proposals, rollbacks and crashes       *)
(* raises the turnover cap (CheckpointsAgree), over any number of versions *)
(* and any settings of the windows.                                        *)
THEOREM CheckpointsStayTrue ==
    ASSUME Seed.turnover >= 0 PROVE Spec => []CheckpointsAgree
<1>1. S7Inv /\ StoreInv => CheckpointsAgree
  BY DEF StoreInv
<1> QED BY <1>1, AdaptInvariant, PTL

-----------------------------------------------------------------------------
(* Levels, modes and filters of Stage 4 *)

LEMMA BuildIs ==
    ASSUME NEW l \in 0 .. 3, NEW k
    PROVE  /\ Build(l, k).level = l /\ Build(l, k).streak = k
           /\ Build(l, k).cool \in Nat
           /\ Build(l, k).cool > 0 <=> l >= 1
           /\ l >= 1 => Build(l, k).override \in Restricting
<1>1. CASE l = 0
  BY <1>1 DEF Build, LevelPolicy
<1>2. CASE l = 1
  BY <1>2 DEF Build, LevelPolicy, Restricting
<1>3. CASE l = 2
  BY <1>3 DEF Build, LevelPolicy, Restricting
<1>4. CASE l = 3
  BY <1>4 DEF Build, LevelPolicy, Restricting
<1> QED BY <1>1, <1>2, <1>3, <1>4

Error(events) == \E e \in events : e.sev = "ERROR"

(* What the decision after the cooldown may be. *)
LEMMA AfterCooldownIs ==
    ASSUME NEW d, d.level \in 0 .. 3, d.streak \in Nat, NEW events, NEW w \in Nat, NEW recent, NEW breaker
    PROVE  \E l \in 0 .. 3, k \in Nat :
              /\ AfterCooldown(d, events, w, recent, breaker) = Build(l, k)
              /\ breaker \/ Error(events) => l = 3
              /\ WarnedBy(events) # {} /\ w >= WarnThreshold => l >= 1
              /\ l < d.level => /\ w >= WarnThreshold \/ d.streak + 1 >= 4
                                /\ l = d.level - 1 \/ (l >= 1 /\ w >= WarnThreshold)
<1>0. WarnThreshold \in Nat \ {0}
  BY ModesAssumption DEF ModesAssumption
<1> DEFINE now   == {e.code : e \in {x \in events : x.sev = "WARN"}} \cap WarnCodes
           count == IF now \cup (recent \cap WarnCodes) = {} THEN 0 ELSE w
           calmer == IF d.streak + 1 < StableCycles(d.level) THEN Build(d.level, d.streak + 1)
                                                             ELSE Build(d.level - 1, 0)
<1>1. now = WarnedBy(events)
  BY Zenon DEF WarnedBy
<1>2. count \in Nat /\ (WarnedBy(events) # {} => count = w) /\ (count = w \/ count = 0)
  <2> HIDE DEF now
  <2>1. now # {} => now \cup (recent \cap WarnCodes) # {}
    BY Zenon
  <2> QED BY <1>1, <2>1
<1>3. AfterCooldown(d, events, w, recent, breaker) =
        CASE breaker \/ Error(events) -> Build(3, 0)
          [] OTHER ->
              CASE count >= 2 * WarnThreshold -> Build(2, 0)
                [] count \in WarnThreshold .. 2 * WarnThreshold - 1 -> Build(1, 0)
                [] count < WarnThreshold /\ d.level >= 1 -> calmer
                [] OTHER -> Build(0, 0)
  BY Zenon DEF AfterCooldown, Error
<1> HIDE DEF now, count, calmer
<1> DEFINE a == AfterCooldown(d, events, w, recent, breaker)
<1> HIDE DEF a
<1>4. CASE breaker \/ Error(events)
  <2>1. a = Build(3, 0)
    BY <1>3, <1>4 DEF a
  <2> QED BY <2>1 DEF a
<1>5. CASE ~(breaker \/ Error(events)) /\ count >= 2 * WarnThreshold
  <2>1. a = Build(2, 0)
    <3>1. count \notin WarnThreshold .. 2 * WarnThreshold - 1 /\ ~(count < WarnThreshold)
      BY <1>0, <1>2, <1>5
    <3> QED BY <1>3, <1>5, <3>1 DEF a
  <2>2. count = w /\ w >= WarnThreshold
    BY <1>0, <1>2, <1>5
  <2> QED BY <1>5, <2>1, <2>2 DEF a
<1>6. CASE ~(breaker \/ Error(events)) /\ count \in WarnThreshold .. 2 * WarnThreshold - 1
  <2>1. a = Build(1, 0)
    <3>1. ~(count >= 2 * WarnThreshold)
      BY <1>0, <1>2, <1>6
    <3> QED BY <1>0, <1>2, <1>3, <1>6, <3>1 DEF a
  <2>2. count = w /\ w >= WarnThreshold
    BY <1>0, <1>2, <1>6
  <2> QED BY <1>6, <2>1, <2>2 DEF a
<1>7. CASE ~(breaker \/ Error(events)) /\ count < WarnThreshold
  <2>1. ~(count >= 2 * WarnThreshold) /\ count \notin WarnThreshold .. 2 * WarnThreshold - 1
    BY <1>0, <1>2, <1>7
  <2>2. WarnedBy(events) # {} => ~(w >= WarnThreshold)
    BY <1>0, <1>2, <1>7
  <2>3. CASE d.level >= 1 /\ d.streak + 1 < StableCycles(d.level)
    <3>1. a = Build(d.level, d.streak + 1)
      BY <1>0, <1>2, <1>3, <1>7, <2>1, <2>3 DEF a, calmer
    <3> QED BY <1>7, <2>2, <2>3, <3>1 DEF a
  <2>4. CASE d.level >= 1 /\ ~(d.streak + 1 < StableCycles(d.level))
    <3>1. a = Build(d.level - 1, 0)
      BY <1>0, <1>2, <1>3, <1>7, <2>1, <2>4 DEF a, calmer
    <3>2. d.streak + 1 >= 4
      BY <2>4 DEF StableCycles
    <3>3. d.level - 1 \in 0 .. 3
      BY <2>4
    <3> QED BY <1>7, <2>2, <2>4, <3>1, <3>2, <3>3 DEF a
  <2>5. CASE ~(d.level >= 1)
    <3>1. a = Build(0, 0)
      BY <1>0, <1>2, <1>3, <1>7, <2>1, <2>5 DEF a
    <3> QED BY <1>7, <2>2, <2>5, <3>1 DEF a
  <2> QED BY <2>3, <2>4, <2>5
<1> QED BY <1>0, <1>2, <1>4, <1>5, <1>6, <1>7

(* What the decision of a cycle may be: during a cooldown the level stays. *)
Fits(d, events, w, breaker, l) ==
    /\ d.cool > 0 => l >= 1
    /\ breaker \/ Error(events) => l >= 1
    /\ WarnedBy(events) # {} /\ w >= WarnThreshold => l >= 1
    /\ l < d.level => /\ d.cool = 0
                      /\ w >= WarnThreshold \/ d.streak + 1 >= 4
                      /\ l = d.level - 1 \/ (l >= 1 /\ w >= WarnThreshold)

LEMMA DecideIs ==
    \A d, events, w, recent, breaker :
       Row(d) /\ w \in Nat =>
          \E l \in 0 .. 3, k \in Nat :
             /\ decide_degrade(d, events, w, recent, breaker) = Build(l, k)
             /\ Fits(d, events, w, breaker, l)
<1> SUFFICES ASSUME NEW d, NEW events, NEW w, NEW recent, NEW breaker, Row(d), w \in Nat
             PROVE  \E l \in 0 .. 3, k \in Nat :
                       /\ decide_degrade(d, events, w, recent, breaker) = Build(l, k)
                       /\ Fits(d, events, w, breaker, l)
  BY Zenon
<1>1. d.level \in 0 .. 3 /\ d.streak \in Nat /\ d.cool \in Nat /\ (d.cool > 0 => d.level >= 1)
  BY DEF Row
<1>2. CASE d.cool > 0
  <2>1. decide_degrade(d, events, w, recent, breaker) = Build(d.level, d.streak)
    BY <1>1, <1>2 DEF decide_degrade
  <2> QED BY <1>1, <1>2, <2>1 DEF Fits
<1>3. CASE d.cool = 0
  <2>1. decide_degrade(d, events, w, recent, breaker) = AfterCooldown(d, events, w, recent, breaker)
    BY <1>1, <1>3 DEF decide_degrade
  <2>2. PICK l \in 0 .. 3, k \in Nat :
              /\ AfterCooldown(d, events, w, recent, breaker) = Build(l, k)
              /\ breaker \/ Error(events) => l = 3
              /\ WarnedBy(events) # {} /\ w >= WarnThreshold => l >= 1
              /\ l < d.level => /\ w >= WarnThreshold \/ d.streak + 1 >= 4
                                /\ l = d.level - 1 \/ (l >= 1 /\ w >= WarnThreshold)
    BY <1>1, AfterCooldownIs
  <2>3. l = 3 => l >= 1
    OBVIOUS
  <2>4. ~(d.cool > 0)
    BY <1>3
  <2> WITNESS l \in 0 .. 3, k \in Nat
  <2>5. breaker \/ Error(events) => l >= 1
    BY <2>2, <2>3, Zenon
  <2> QED BY <1>3, <2>1, <2>2, <2>4, <2>5, Zenon DEF Fits
<1> QED BY <1>1, <1>2, <1>3

LEMMA CombineRestricts ==
    ASSUME NEW base \in Mode, NEW override, base \in Restricting \/ override \in Restricting
    PROVE  combine_modes(base, override) \in Restricting
BY DEF combine_modes, Restricting, Mode

LEMMA SuppressTakesAway ==
    ASSUME NEW acts, NEW on, NEW all
    PROVE  /\ suppress_actions(acts, on, all) \subseteq acts
           /\ on => \A a \in suppress_actions(acts, on, all) : a.type = "CANCEL"
BY DEF suppress_actions

(* The minimum filter changes quantities only. *)
LEMMA PrefilterKeeps ==
    ASSUME NEW in, NEW acts, \A a \in acts : {"type", "side"} \subseteq DOMAIN a
    PROVE  \A b \in prefilter_submit_actions_min_notional(in, acts) :
              \E a \in acts : b.type = a.type /\ b.side = a.side
<1> SUFFICES ASSUME NEW b \in prefilter_submit_actions_min_notional(in, acts)
             PROVE  \E a \in acts : b.type = a.type /\ b.side = a.side
  OBVIOUS
<1>1. PICK a \in acts : b = a \/ b = [a EXCEPT !.qty = Ceil(MinQty)]
  BY DEF prefilter_submit_actions_min_notional
<1>2. {"type", "side"} \subseteq DOMAIN a
  OBVIOUS
<1> QED BY <1>1, <1>2

LEMMA ShrinkKeeps ==
    ASSUME NEW acts, NEW active, NEW cap, NEW share,
           \A a \in acts : {"type", "side"} \subseteq DOMAIN a
    PROVE  \A b \in ShrinkBuys(UniverseCap(acts, active, cap), share) : {"type", "side"} \subseteq DOMAIN b
<1> SUFFICES ASSUME NEW b \in ShrinkBuys(UniverseCap(acts, active, cap), share)
             PROVE  {"type", "side"} \subseteq DOMAIN b
  OBVIOUS
<1>1. PICK a \in acts : b = a \/ b = [a EXCEPT !.qty = (a.qty * share) \div 4]
  BY DEF ShrinkBuys, UniverseCap
<1> QED BY <1>1

(* No buy passes the gate of a restricting mode. *)
LEMMA GateStopsBuys ==
    ASSUME NEW in, NEW acts, \A a \in acts : {"type", "side"} \subseteq DOMAIN a,
           NEW mode \in Restricting
    PROVE  Buys(prefilter_submit_actions_min_notional(in, gate_actions_by_mode(acts, mode))) = {}
<1> DEFINE gated == gate_actions_by_mode(acts, mode)
<1>1. gated \subseteq acts /\ \A a \in gated : a.type = "CANCEL" \/ a.side = "SELL"
  BY DEF gate_actions_by_mode, Restricting
<1> HIDE DEF gated
<1>2. \A b \in prefilter_submit_actions_min_notional(in, gated) :
         \E a \in gated : b.type = a.type /\ b.side = a.side
  BY <1>1, PrefilterKeeps
<1>3. \A b \in prefilter_submit_actions_min_notional(in, gated) : b.type = "CANCEL" \/ b.side = "SELL"
  BY <1>1, <1>2
<1> QED BY <1>3 DEF Buys, gated

(* Every planned action is a record with a type and a side. *)
LEMMA PlannedShape ==
    ASSUME NEW name \in DOMAIN Inputs, NEW active, NEW cover, NEW mult, NEW failed
    PROVE  \A a \in PlannedActions(Inputs[name], active, cover, mult, failed) :
              {"type", "side"} \subseteq DOMAIN a
<1> DEFINE in == Inputs[name]
           m  == IF in.kill THEN 0 ELSE mult
<1>1. in.wants \cup in.stale \subseteq
         [type : {"SUBMIT", "CANCEL", "REPLACE"}, side : {"BUY", "SELL"}, at : 1 .. Symbols, qty : Nat]
  BY ModesAssumption, Zenon DEF ModesAssumption
<1>2. \A a \in in.wants \cup in.stale : {"type", "side"} \subseteq DOMAIN a
  BY <1>1
<1> HIDE DEF in, m
<1>3. \A a \in PipelineOrders(in, cover, m, failed) : {"type", "side"} \subseteq DOMAIN a
  <2> SUFFICES ASSUME NEW a \in PipelineOrders(in, cover, m, failed)
               PROVE  {"type", "side"} \subseteq DOMAIN a
    OBVIOUS
  <2>1. PICK w \in in.wants : a = w \/ a = [w EXCEPT !.qty = (w.qty * m) \div 4]
    BY DEF PipelineOrders
  <2> QED BY <1>2, <2>1
<1>4. \A a \in build_intents(in, active, cover, failed) : {"type", "side"} \subseteq DOMAIN a
  BY DEF build_intents, Action
<1>5. PlannedActions(in, active, cover, mult, failed) \subseteq
         PipelineOrders(in, cover, m, failed) \cup build_intents(in, active, cover, failed) \cup in.stale
  BY DEF PlannedActions, m
<1> QED BY <1>2, <1>3, <1>4, <1>5 DEF in

(* The mode of the risk budget: a drawdown from the highest equity restricts it. *)
LEMMA BaseModeIs ==
    ASSUME NEW in, in.equity \in Int, NEW cover, NEW peak \in Int
    PROVE  /\ BaseMode(in, cover, peak) \in Mode
           /\ peak - in.equity >= MaxDrawdown => BaseMode(in, cover, peak) \in Restricting
<1>0. MaxDrawdown \in Int
  BY ModesAssumption DEF ModesAssumption
<1> DEFINE m == decide_mode(in, cover.marks, peak)
<1>1. m \in Mode
  BY Zenon DEF decide_mode, Mode
<1>2. peak - in.equity >= MaxDrawdown => m = "OBSERVE_ONLY"
  <2> SUFFICES ASSUME peak - in.equity >= MaxDrawdown PROVE m = "OBSERVE_ONLY"
    OBVIOUS
  <2>1. Bigger(0, peak - in.equity) >= MaxDrawdown
    BY <1>0 DEF Bigger
  <2> QED BY <2>1, Zenon DEF decide_mode
<1> HIDE DEF m
<1>3. BaseMode(in, cover, peak) \in {"OBSERVE_ONLY", "REDUCE_RISK_ONLY", m}
  BY Zenon DEF BaseMode, m
<1> QED BY <1>1, <1>2, <1>3 DEF Mode, Restricting

LEMMA ModesIdle ==
    /\ DOMAIN Idle = {"at", "active", "in", "read", "got", "base", "acts", "stall", "rejects", "late"}
    /\ Idle.at = "idle"
BY DEF Idle

LEMMA ModesSame == ASSUME ModesInv, UNCHANGED modeVars PROVE ModesInv'
BY DEF ModesInv, modeVars, CycleShape, DegradeRow, Row, ReadInv, AlarmInv, Alarmed, PeakInv,
       Stage4DoesNotBuy, Troubled

(* A cycle that ends leaves the rows; the rest of the invariant is about cycles in flight. *)
LEMMA CycleEnds ==
    ASSUME ModesInv, cyc' = Idle, UNCHANGED <<load, risk>>, DegradeRow' PROVE ModesInv'
<1>1. cyc'.at = "idle"
  BY ModesIdle
<1>2. "idle" \notin Decided \cup {"degrade", "filter", "execute"}
  BY DEF Decided
<1> QED
  BY <1>1, <1>2, ModesIdle DEF ModesInv, CycleShape, ReadInv, AlarmInv, PeakInv, Stage4DoesNotBuy, Decided

LEMMA BeginStep ==
    ASSUME ModesInv, NEW name \in load.cycles, Begin(name) PROVE ModesInv'
<1> DEFINE in == Inputs[name]
<1>1. UNCHANGED <<load, degrade, risk, calm, warnRun, manual>>
  BY DEF Begin
<1>2. DegradeRow'
  BY <1>1 DEF ModesInv, DegradeRow, Row
<1>3. CASE cyc' = Idle
  BY <1>1, <1>2, <1>3, CycleEnds
<1>4. CASE cyc' = [Idle EXCEPT !.at = "assess", !.in = name, !.active = ActiveSymbols(in),
                               !.late = (degrade.cool = 0)]
  <2>1. cyc'.at = "assess" /\ cyc'.in = name /\ DOMAIN cyc' = DOMAIN Idle
    BY <1>4, ModesIdle
  <2>2. "assess" \notin Decided \cup {"degrade", "filter", "execute"}
    BY DEF Decided
  <2>3. name \in DOMAIN Inputs
    BY DEF ModesInv, CycleShape
  <2> QED
    BY <1>1, <1>2, <2>1, <2>2, <2>3, ModesIdle
    DEF ModesInv, CycleShape, ReadInv, AlarmInv, PeakInv, Stage4DoesNotBuy, Decided
<1> QED BY <1>3, <1>4 DEF Begin

LEMMA AssessStep == ASSUME ModesInv, Assess PROVE ModesInv'
<1> DEFINE in == Inputs[cyc.in]
           snap == ResolveMarketSnapshot(in, cyc.active)
           cover == Coverage(in, cyc.active, snap)
           decision == compute_decision(in, cover)
           peak == Bigger(risk.peak, in.equity)
           acts == PlannedActions(in, cyc.active, cover, decision.mult, FailedSymbols(in, snap))
<1>1. cyc.at = "assess" /\ cyc.in \in DOMAIN Inputs /\ in.equity \in Int /\ risk.peak \in Int
  BY ModesAssumption DEF Assess, ModesInv, CycleShape, PeakInv, ModesAssumption
<1>2. UNCHANGED <<load, degrade, calm, warnRun, manual>>
  BY DEF Assess
<1>3. /\ persist_decision(in, decision)
      /\ cyc' = [cyc EXCEPT !.at = "degrade", !.base = decision.mode, !.acts = acts]
  BY Zenon DEF Assess
<1>4. decision.mode = BaseMode(in, cover, peak) /\ decision.peak = peak
  BY DEF compute_decision, resolve_peak_equity
<1>5. risk'.peak \in {peak, risk.peak}
  BY <1>3, <1>4 DEF persist_decision
<1>6. \A a \in acts : {"type", "side"} \subseteq DOMAIN a
  BY <1>1, PlannedShape
<1> HIDE DEF cover, snap, decision, acts
<1>7. peak \in Int /\ (risk.peak - in.equity >= MaxDrawdown => peak - in.equity >= MaxDrawdown)
  BY <1>1, ModesAssumption DEF Bigger, ModesAssumption
<1>8. decision.mode \in Mode /\ (peak - in.equity >= MaxDrawdown => decision.mode \in Restricting)
  BY <1>1, <1>4, <1>7, BaseModeIs
<1>9. /\ cyc'.at = "degrade" /\ cyc'.in = cyc.in /\ cyc'.base = decision.mode /\ cyc'.acts = acts
      /\ DOMAIN cyc' = DOMAIN cyc
  BY <1>3 DEF ModesInv, CycleShape
<1>10. "degrade" \notin Decided
  BY DEF Decided
<1>11. CycleShape'
  BY <1>1, <1>2, <1>6, <1>8, <1>9 DEF ModesInv, CycleShape
<1>12. PeakInv'
  <2>1. risk'.peak \in Int
    BY <1>1, <1>5, <1>7
  <2>2. risk'.peak - in.equity >= MaxDrawdown => decision.mode \in Restricting
    BY <1>5, <1>7, <1>8
  <2> QED BY <1>9, <2>1, <2>2 DEF PeakInv
<1>13. DegradeRow'
  BY <1>2 DEF ModesInv, DegradeRow, Row
<1> QED
  BY <1>9, <1>10, <1>11, <1>12, <1>13 DEF ModesInv, ReadInv, AlarmInv, Stage4DoesNotBuy

(* Clock skew and a divergence are among the anomalies of the cycle. *)
LEMMA DetectSees ==
    ASSUME NEW ages, NEW slow, NEW rejects, NEW stall, NEW in
    PROVE  LET events == detect(ages, slow, rejects, stall, in)
           IN  /\ in.diverge = "ERROR" => Error(events)
               /\ in.skew /\ "CLOCK_SKEW" \in WarnCodes => WarnedBy(events) # {}
<1> DEFINE events == detect(ages, slow, rejects, stall, in)
<1>1. ASSUME in.diverge = "ERROR" PROVE Error(events)
  <2>1. [code |-> "PNL_DIVERGENCE", sev |-> in.diverge] \in events
    <3>1. in.diverge # None
      BY <1>1 DEF None
    <3> QED BY <3>1, Zenon DEF detect
  <2> QED BY <1>1, <2>1 DEF Error
<1>2. ASSUME in.skew, "CLOCK_SKEW" \in WarnCodes PROVE WarnedBy(events) # {}
  <2>1. Warn("CLOCK_SKEW") \in events
    BY <1>2, Zenon DEF detect, WarnIf
  <2>2. Warn("CLOCK_SKEW").sev = "WARN" /\ Warn("CLOCK_SKEW").code = "CLOCK_SKEW"
    BY DEF Warn
  <2>3. "CLOCK_SKEW" \in WarnedBy(events)
    <3> HIDE DEF events
    <3> QED BY <1>2, <2>1, <2>2, Zenon DEF WarnedBy
  <2> QED BY <2>3
<1> QED BY <1>1, <1>2

(* What the cycle reads and decides in Degrade. *)
LEMMA DegradeIs ==
    ASSUME Degrade
    PROVE  LET in == Inputs[cyc.in]
               stall == CursorStall(in)
               events == detect(ResolveMarketSnapshot(in, cyc.active).ages, in.slow = "before",
                                degrade.rejects, stall, in)
               warned == WarnedBy(events)
               w == IF warned # {} THEN degrade.warns + 1 ELSE 0
               recent == IF warned # {} THEN warned ELSE degrade.codes
           IN  cyc' = [cyc EXCEPT !.at = "filter", !.read = degrade, !.stall = stall,
                                  !.got = decide_degrade(degrade, events, w, recent, in.breaker)]
<1> DEFINE in == Inputs[cyc.in]
           stall == CursorStall(in)
           events == detect(ResolveMarketSnapshot(in, cyc.active).ages, in.slow = "before",
                            degrade.rejects, stall, in)
           Next4(i, st, ev, wd) ==
               cyc' = [cyc EXCEPT !.at = "filter", !.read = degrade, !.stall = st,
                                  !.got = decide_degrade(degrade, ev,
                                             IF wd # {} THEN degrade.warns + 1 ELSE 0,
                                             IF wd # {} THEN wd ELSE degrade.codes,
                                             i.breaker)]
<1>1. \E i \in {in}, st \in {stall} :
      \E ev \in {detect(ResolveMarketSnapshot(i, cyc.active).ages, i.slow = "before",
                        degrade.rejects, st, i)} :
      \E wd \in {WarnedBy(ev)} : Next4(i, st, ev, wd)
  BY DEF Degrade
<1> HIDE DEF Next4, in, stall
<1>2. Next4(in, stall, events, WarnedBy(events))
  BY <1>1, Zenon
<1> QED BY <1>2, Zenon DEF Next4, in, stall

LEMMA DegradeStep == ASSUME ModesInv, Degrade PROVE ModesInv'
<1> DEFINE in == Inputs[cyc.in]
           stall == CursorStall(in)
           events == detect(ResolveMarketSnapshot(in, cyc.active).ages, in.slow = "before",
                            degrade.rejects, stall, in)
           warned == WarnedBy(events)
           w == IF warned # {} THEN degrade.warns + 1 ELSE 0
           recent == IF warned # {} THEN warned ELSE degrade.codes
           got == decide_degrade(degrade, events, w, recent, in.breaker)
<1>1. cyc.at = "degrade" /\ UNCHANGED <<load, degrade, risk, calm, warnRun, manual>>
  BY DEF Degrade
<1>2. cyc' = [cyc EXCEPT !.at = "filter", !.read = degrade, !.stall = stall, !.got = got]
  BY DegradeIs
<1>3. /\ in.diverge = "ERROR" => Error(events)
      /\ in.skew /\ "CLOCK_SKEW" \in WarnCodes => warned # {}
  BY DetectSees
<1> HIDE DEF events, stall, got
<1>4. Row(degrade) /\ warnRun \in Nat /\ warnRun <= degrade.warns /\ (manual => degrade.cool > 0)
  BY DEF ModesInv, DegradeRow
<1>5. w \in Nat /\ (warned # {} => w = degrade.warns + 1)
  <2>1. degrade.warns \in Nat
    BY <1>4 DEF Row
  <2> QED BY <2>1
<1> HIDE DEF w, recent
<1>6. PICK l \in 0 .. 3, k \in Nat : got = Build(l, k) /\ Fits(degrade, events, w, in.breaker, l)
  BY <1>4, <1>5, DecideIs, Zenon DEF got
<1>7. got.level = l /\ got.streak = k
  BY <1>6, BuildIs
<1> HIDE DEF warned
<1>8. /\ cyc'.at = "filter" /\ cyc'.in = cyc.in /\ cyc'.base = cyc.base /\ cyc'.acts = cyc.acts
      /\ cyc'.read = degrade /\ cyc'.got = got /\ DOMAIN cyc' = DOMAIN cyc
  BY <1>2 DEF ModesInv, CycleShape
<1>9. CycleShape'
  BY <1>1, <1>8 DEF ModesInv, CycleShape, Decided
<1>10. DegradeRow'
  BY <1>1 DEF ModesInv, DegradeRow, Row
<1>11. ReadInv'
  <2>1. Row(cyc'.read) /\ warnRun' <= cyc'.read.warns
    BY <1>1, <1>4, <1>8 DEF Row
  <2>2. cyc'.got.streak \in Nat /\ \E x \in 0 .. 3 : cyc'.got = Build(x, cyc'.got.streak)
    BY <1>6, <1>7, <1>8
  <2>3. manual' => cyc'.got.level >= 1
    BY <1>1, <1>4, <1>6, <1>7, <1>8 DEF Fits
  <2>4. Row(cyc.read)' <=> Row(cyc'.read)
    BY DEF Row
  <2>5. (\E x \in 0 .. 3 : cyc.got = Build(x, cyc.got.streak))' <=>
        (\E x \in 0 .. 3 : cyc'.got = Build(x, cyc'.got.streak))
    BY DEF Build
  <2> QED BY <2>1, <2>2, <2>3, <2>4, <2>5 DEF ReadInv
<1>12. AlarmInv'
  <2> SUFFICES ASSUME Alarmed(Inputs[cyc.in])' PROVE got.level >= 1
    BY <1>8 DEF AlarmInv
  <2>1. Alarmed(in)
    BY <1>1, <1>8 DEF Alarmed
  <2>2. CASE in.breaker \/ in.diverge = "ERROR"
    BY <1>3, <1>6, <1>7, <2>2 DEF Fits
  <2>3. CASE warnRun + 1 >= WarnThreshold /\ in.skew /\ "CLOCK_SKEW" \in WarnCodes
    <3>1. warned # {} /\ w = degrade.warns + 1
      BY <1>3, <1>5, <2>3
    <3>2. degrade.warns \in Nat /\ WarnThreshold \in Nat
      BY <1>4, ModesAssumption DEF Row, ModesAssumption
    <3>3. w >= WarnThreshold
      BY <1>4, <2>3, <3>1, <3>2
    <3> QED BY <1>6, <1>7, <3>1, <3>3 DEF Fits, warned
  <2> QED BY <2>1, <2>2, <2>3 DEF Alarmed
<1>13. PeakInv'
  BY <1>1, <1>8 DEF ModesInv, PeakInv
<1>14. Stage4DoesNotBuy'
  BY <1>8 DEF Stage4DoesNotBuy
<1> QED
  BY <1>9, <1>10, <1>11, <1>12, <1>13, <1>14 DEF ModesInv

(* Steps that leave the rows, the decision and its reasons as they are. *)
LEMMA RowsSame ==
    ASSUME ModesInv, UNCHANGED <<load, degrade, risk, warnRun, manual>>,
           cyc.at \in Decided, cyc'.at \in Decided, DOMAIN cyc' = DOMAIN cyc,
           cyc'.in = cyc.in, cyc'.read = cyc.read, cyc'.got = cyc.got, cyc'.base = cyc.base,
           cyc'.at # "filter", Stage4DoesNotBuy'
    PROVE  ModesInv'
<1>1. cyc'.at # "idle" /\ cyc.at # "idle" /\ cyc'.at # "degrade"
  BY DEF Decided
<1>2. CycleShape'
  BY <1>1 DEF ModesInv, CycleShape
<1>3. DegradeRow'
  BY DEF ModesInv, DegradeRow, Row
<1>4. ReadInv'
  BY DEF ModesInv, ReadInv, Row, Build
<1>5. AlarmInv'
  BY DEF ModesInv, AlarmInv, Alarmed
<1>6. PeakInv'
  BY DEF ModesInv, PeakInv
<1> QED BY <1>2, <1>3, <1>4, <1>5, <1>6 DEF ModesInv

LEMMA GotOverride ==
    ASSUME ReadInv, cyc.at \in Decided, cyc.got.level >= 1 PROVE cyc.got.override \in Restricting
<1>1. PICK l \in 0 .. 3 : cyc.got = Build(l, cyc.got.streak)
  BY DEF ReadInv
<1>2. l >= 1
  BY <1>1, BuildIs
<1>3. Build(l, cyc.got.streak).override \in Restricting
  BY <1>2, BuildIs
<1> QED BY <1>1, <1>3

LEMMA FilterStep == ASSUME ModesInv, Filter PROVE ModesInv'
<1> DEFINE in      == Inputs[cyc.in]
           mode    == IF in.force THEN "NORMAL" ELSE combine_modes(cyc.base, cyc.got.override)
           shrunk  == ShrinkBuys(UniverseCap(cyc.acts, cyc.active, cyc.got.cap), cyc.got.share)
           passed  == prefilter_submit_actions_min_notional(in, gate_actions_by_mode(shrunk, mode))
           killed  == suppress_actions(passed, in.kill, in.freezeAll)
           sent    == suppress_actions(killed, in.frozen, in.freezeAll)
<1>1. cyc.at = "filter" /\ UNCHANGED <<load, degrade, risk, calm, warnRun, manual>>
  BY DEF Filter
<1>2. cyc' = [cyc EXCEPT !.at = "execute", !.acts = sent]
  BY DEF Filter
<1>3. \A a \in shrunk : {"type", "side"} \subseteq DOMAIN a
  BY <1>1, ShrinkKeeps DEF ModesInv, CycleShape
<1>4. mode \in Restricting => Buys(passed) = {}
  <2> HIDE DEF shrunk, mode
  <2> QED BY <1>3, GateStopsBuys
<1>5. sent \subseteq killed /\ killed \subseteq passed
  <2> HIDE DEF passed
  <2> QED BY SuppressTakesAway
<1>6. in.kill => \A a \in killed : a.type = "CANCEL"
  <2> HIDE DEF passed
  <2> QED BY SuppressTakesAway
<1>7. ~in.force /\ (cyc.base \in Restricting \/ cyc.got.override \in Restricting) => mode \in Restricting
  <2>1. cyc.base \in Mode
    BY <1>1 DEF ModesInv, CycleShape, Decided
  <2> QED BY <2>1, CombineRestricts
<1> HIDE DEF sent, killed, passed, mode
<1>8. /\ cyc'.at = "execute" /\ cyc'.in = cyc.in /\ cyc'.base = cyc.base /\ cyc'.acts = sent
      /\ cyc'.read = cyc.read /\ cyc'.got = cyc.got /\ DOMAIN cyc' = DOMAIN cyc
  BY <1>2 DEF ModesInv, CycleShape
<1>9. cyc.at \in Decided /\ cyc'.at \in Decided
  BY <1>1, <1>8 DEF Decided
<1>10. Stage4DoesNotBuy'
  <2> SUFFICES ASSUME ~in.force, Troubled(in) PROVE Buys(sent) = {}
    <3>1. Troubled(Inputs[cyc.in])' <=> Troubled(in)
      BY <1>1, <1>8 DEF Troubled
    <3>2. Buys(cyc.acts)' = Buys(sent)
      BY <1>8 DEF Buys
    <3> QED BY <1>8, <3>1, <3>2 DEF Stage4DoesNotBuy
  <2>1. CASE in.kill
    BY <1>5, <1>6, <2>1 DEF Buys
  <2>2. CASE cyc.base \in Restricting \/ cyc.got.override \in Restricting
    <3>1. Buys(passed) = {}
      BY <1>4, <1>7, <2>2
    <3> QED BY <1>5, <3>1 DEF Buys
  <2>3. risk.peak - in.equity >= MaxDrawdown => cyc.base \in Restricting
    BY <1>9 DEF ModesInv, PeakInv
  <2>4. manual \/ Alarmed(in) => cyc.got.override \in Restricting
    BY <1>9, GotOverride DEF ModesInv, ReadInv, AlarmInv
  <2> QED BY <2>1, <2>2, <2>3, <2>4 DEF Troubled, Alarmed
<1> QED
  BY <1>1, <1>8, <1>9, <1>10, RowsSame

LEMMA ExecuteStep == ASSUME ModesInv, NEW r, Execute(r) PROVE ModesInv'
<1>1. cyc.at = "execute" /\ UNCHANGED <<load, degrade, risk, calm, warnRun, manual>>
  BY DEF Execute
<1>2. cyc' = [cyc EXCEPT !.at = "persist", !.rejects = Smaller(r, RejectThreshold)]
  BY DEF Execute
<1>3. /\ cyc'.at = "persist" /\ cyc'.in = cyc.in /\ cyc'.base = cyc.base
      /\ cyc'.read = cyc.read /\ cyc'.got = cyc.got /\ DOMAIN cyc' = DOMAIN cyc
  BY <1>2 DEF ModesInv, CycleShape
<1>4. cyc.at \in Decided /\ cyc'.at \in Decided /\ cyc'.at # "filter"
  BY <1>1, <1>3 DEF Decided
<1>5. Stage4DoesNotBuy'
  BY <1>3 DEF Stage4DoesNotBuy
<1> QED
  BY <1>1, <1>3, <1>4, <1>5, RowsSame

(* The row that a cycle stores. *)
LEMMA PersistStep == ASSUME ModesInv, NEW ok \in BOOLEAN, Persist(ok) PROVE ModesInv'
<1> DEFINE in    == Inputs[cyc.in]
           snap  == ResolveMarketSnapshot(in, cyc.active)
           after == detect(snap.ages, in.slow # None, cyc.rejects, cyc.stall, in)
           codes == IF WarnedBy(after) # {} THEN WarnedBy(after) ELSE cyc.read.codes
           row   == [level |-> cyc.got.level, override |-> cyc.got.override,
                    cool |-> cyc.got.cool, cap |-> cyc.got.cap,
                    streak |-> cyc.got.streak, warns |-> UpdatedWarns(cyc.read, after),
                    codes |-> codes, stall |-> cyc.stall, rejects |-> cyc.rejects]
<1>1. cyc.at = "persist" /\ cyc' = Idle /\ UNCHANGED <<load, risk, calm, manual>>
  BY DEF Persist
<1>2. IF ~ok THEN UNCHANGED degrade ELSE degrade' = row
  BY Zenon DEF Persist, persist_degrade, upsert_degrade_state_current
<1>3. warnRun' = CASE ~ok -> warnRun
                   [] ok /\ WarnedBy(after) = {} -> 0
                   [] ok /\ WarnedBy(after) # {} ->
                        IF cyc.read = degrade THEN Smaller(warnRun + 1, 2 * WarnThreshold) ELSE 0
  BY Zenon DEF Persist
<1> HIDE DEF after, codes
<1>4. /\ Row(cyc.read) /\ warnRun \in Nat /\ warnRun <= cyc.read.warns
      /\ Row(degrade) /\ warnRun <= degrade.warns /\ manual \in BOOLEAN
      /\ manual => cyc.got.level >= 1 /\ degrade.cool > 0
  BY <1>1 DEF ModesInv, ReadInv, DegradeRow, Decided
<1>5. PICK l \in 0 .. 3 : cyc.got.streak \in Nat /\ cyc.got = Build(l, cyc.got.streak)
  BY <1>1 DEF ModesInv, ReadInv, Decided
<1>6. cyc.got.level = l /\ cyc.got.cool \in Nat /\ (cyc.got.cool > 0 <=> l >= 1)
  BY <1>5, BuildIs
<1>7. WarnThreshold \in Nat \ {0} /\ cyc.read.warns \in Nat
  BY <1>4, ModesAssumption DEF ModesAssumption, Row
<1>8. CASE ~ok
  <2>1. degrade' = degrade /\ warnRun' = warnRun
    BY <1>2, <1>3, <1>8
  <2>2. DegradeRow'
    BY <1>1, <2>1 DEF ModesInv, DegradeRow, Row
  <2> QED BY <1>1, <2>2, CycleEnds
<1>9. CASE ok
  <2>1. degrade' = row
    BY <1>2, <1>9
  <2> DEFINE u == UpdatedWarns(cyc.read, after)
  <2>2. u \in Nat /\ warnRun' \in Nat /\ warnRun' <= u
    <3>1. CASE WarnedBy(after) = {}
      <4>1. u = 0 /\ warnRun' = 0
        BY <1>3, <1>9, <3>1 DEF UpdatedWarns
      <4> QED BY <4>1
    <3>2. CASE WarnedBy(after) # {}
      <4>1. u = Smaller(cyc.read.warns + 1, 2 * WarnThreshold)
        BY <3>2 DEF UpdatedWarns
      <4>2. warnRun' \in {0, Smaller(warnRun + 1, 2 * WarnThreshold)}
        BY <1>3, <1>9, <3>2
      <4> HIDE DEF u
      <4> QED BY <1>4, <1>7, <4>1, <4>2 DEF Smaller
    <3> QED BY <3>1, <3>2
  <2> HIDE DEF u
  <2>3. /\ degrade'.level = l /\ degrade'.cool = cyc.got.cool /\ degrade'.streak = cyc.got.streak
        /\ degrade'.warns = u /\ {"level", "streak", "warns", "cool"} \subseteq DOMAIN degrade'
    BY <1>6, <2>1 DEF u
  <2>4. Row(degrade)'
    BY <1>5, <1>6, <2>2, <2>3 DEF Row
  <2>5. manual' \in BOOLEAN /\ (manual' => degrade'.cool > 0)
    BY <1>1, <1>4, <1>6, <2>3
  <2>6. DegradeRow'
    BY <2>2, <2>3, <2>4, <2>5 DEF DegradeRow
  <2> QED BY <1>1, <2>6, CycleEnds
<1> QED BY <1>8, <1>9

(* An operator's write can take reasons away from a cycle in flight and adds none. *)
LEMMA RowWritten ==
    ASSUME ModesInv, UNCHANGED <<load, risk, cyc>>, Row(degrade)', warnRun' = 0, manual' \in BOOLEAN,
           manual' => degrade'.cool > 0 /\ cyc.at \notin Decided
    PROVE  ModesInv'
<1>0. 0 \in Nat /\ WarnThreshold \in Nat
  BY ModesAssumption DEF ModesAssumption
<1>1. DegradeRow'
  <2>1. degrade'.warns \in Nat
    BY DEF Row
  <2> QED BY <1>0, <2>1 DEF DegradeRow
<1>2. CycleShape' /\ PeakInv'
  BY DEF ModesInv, CycleShape, PeakInv
<1>3. ReadInv'
  <2> SUFFICES ASSUME cyc.at \in Decided PROVE ReadInv'
    BY DEF ReadInv
  <2>1. cyc.read.warns \in Nat
    BY DEF ModesInv, ReadInv, Row
  <2>2. 0 <= cyc.read.warns
    BY <2>1
  <2> QED BY <2>2 DEF ModesInv, ReadInv, Row, Build
<1>4. \A in : Alarmed(in)' => Alarmed(in)
  <2>1. warnRun \in Nat
    BY DEF ModesInv, DegradeRow
  <2>2. warnRun' + 1 >= WarnThreshold => warnRun + 1 >= WarnThreshold
    BY <1>0, <2>1
  <2> QED BY <2>2, Zenon DEF Alarmed
<1>5. AlarmInv'
  <2>1. Alarmed(Inputs[cyc.in])' => Alarmed(Inputs[cyc.in])
    <3>1. Alarmed(Inputs[cyc.in])' <=> (\E in \in {Inputs[cyc.in]} : Alarmed(in)')
      BY DEF Alarmed
    <3> QED BY <1>4, <3>1, Zenon
  <2> QED BY <2>1 DEF ModesInv, AlarmInv
<1>6. Stage4DoesNotBuy'
  <2> SUFFICES ASSUME cyc.at = "execute" PROVE Stage4DoesNotBuy'
    BY DEF Stage4DoesNotBuy
  <2>1. ~manual'
    BY DEF Decided
  <2>2. Alarmed(Inputs[cyc.in])' => Alarmed(Inputs[cyc.in])
    <3>1. Alarmed(Inputs[cyc.in])' <=> (\E in \in {Inputs[cyc.in]} : Alarmed(in)')
      BY DEF Alarmed
    <3> QED BY <1>4, <3>1, Zenon
  <2>3. Troubled(Inputs[cyc.in])' => Troubled(Inputs[cyc.in])
    BY <2>1, <2>2 DEF Troubled, Alarmed
  <2> QED BY <2>3 DEF ModesInv, Stage4DoesNotBuy, Buys
<1> QED BY <1>1, <1>2, <1>3, <1>5, <1>6 DEF ModesInv

LEMMA NoDegradeIs ==
    /\ DOMAIN NoDegrade = {"level", "override", "cool", "cap", "streak", "warns", "codes", "stall", "rejects"}
    /\ NoDegrade.level = 0 /\ NoDegrade.cool = 0 /\ NoDegrade.streak = 0 /\ NoDegrade.warns = 0
BY DEF NoDegrade

(* What the operator's commands write: a streak and a count of 0. *)
LEMMA OverrideIs ==
    ASSUME NEW m \in Mode, NEW c \in 0 .. 2, run_degrade_override(m, c)
    PROVE  /\ Row(degrade)' /\ degrade'.streak = 0 /\ degrade'.warns = 0
           /\ manual' => degrade'.cool > 0
<1> DEFINE l == CASE m = "OBSERVE_ONLY" -> 3 [] m = "REDUCE_RISK_ONLY" -> 2 [] m = "NORMAL" -> 0
           o == IF m = "NORMAL" THEN None ELSE m
           k == IF m = "NORMAL" THEN 0 ELSE c
<1>1. l \in 0 .. 3 /\ k \in Nat /\ (k > 0 => l >= 1) /\ (m # "NORMAL" => k = c)
  BY DEF Mode
<1>2. degrade' = [NoDegrade EXCEPT !.level = l, !.override = o, !.cool = k, !.codes = {"MANUAL_OVERRIDE"}]
  BY Zenon DEF run_degrade_override, persist_degrade, upsert_degrade_state_current
<1> HIDE DEF l, o, k
<1>3. /\ degrade'.level = l /\ degrade'.cool = k /\ degrade'.streak = 0 /\ degrade'.warns = 0
      /\ {"level", "streak", "warns", "cool"} \subseteq DOMAIN degrade'
  BY <1>2, NoDegradeIs
<1>4. manual' => m # "NORMAL" /\ c > 0
  BY DEF run_degrade_override
<1>5. 0 \in Nat
  OBVIOUS
<1> QED BY <1>1, <1>3, <1>4, <1>5 DEF Row

LEMMA OperatorStep ==
    ASSUME ModesInv, run_degrade_clear \/ \E m \in Mode, c \in 0 .. 2 : run_degrade_override(m, c)
    PROVE  ModesInv'
<1>1. CASE run_degrade_clear
  <2>1. UNCHANGED <<load, risk, cyc>> /\ warnRun' = 0 /\ manual' = FALSE /\ degrade' = NoDegrade
    BY <1>1 DEF run_degrade_clear, upsert_degrade_state_current
  <2>2. Row(degrade)'
    BY <2>1, NoDegradeIs DEF Row
  <2> QED BY <2>1, <2>2, RowWritten
<1>2. ASSUME NEW m \in Mode, NEW c \in 0 .. 2, run_degrade_override(m, c) PROVE ModesInv'
  <2>1. UNCHANGED <<load, risk, cyc>> /\ warnRun' = 0 /\ manual' \in BOOLEAN
    BY <1>2 DEF run_degrade_override
  <2>2. Row(degrade)' /\ (manual' => degrade'.cool > 0)
    BY <1>2, OverrideIs
  <2>3. manual' => cyc.at \notin Decided
    BY <1>2 DEF run_degrade_override, Decided
  <2> QED BY <2>1, <2>2, <2>3, RowWritten
<1> QED BY <1>1, <1>2

LEMMA TickStep == ASSUME ModesInv, Tick PROVE ModesInv'
<1>1. cyc.at = "idle" /\ UNCHANGED <<load, risk, cyc, calm, warnRun>>
  BY DEF Tick
<1>2. degrade' = [degrade EXCEPT !.cool = Bigger(0, degrade.cool - 1)]
  BY DEF Tick
<1>3. manual' = (manual /\ degrade.cool > 1)
  BY DEF Tick
<1>4. Row(degrade) /\ warnRun \in Nat /\ warnRun <= degrade.warns
  BY DEF ModesInv, DegradeRow
<1>5. /\ degrade'.level = degrade.level /\ degrade'.streak = degrade.streak
      /\ degrade'.warns = degrade.warns /\ degrade'.cool = Bigger(0, degrade.cool - 1)
      /\ DOMAIN degrade' = DOMAIN degrade
  BY <1>2, <1>4 DEF Row
<1>6. /\ Bigger(0, degrade.cool - 1) \in Nat
      /\ Bigger(0, degrade.cool - 1) > 0 => degrade.cool > 0
      /\ degrade.cool > 1 => Bigger(0, degrade.cool - 1) > 0
  BY <1>4 DEF Row, Bigger
<1>7. Row(degrade)'
  BY <1>4, <1>5, <1>6 DEF Row
<1>8. DegradeRow'
  BY <1>1, <1>3, <1>4, <1>5, <1>6, <1>7 DEF DegradeRow
<1> QED
  BY <1>1, <1>8 DEF ModesInv, CycleShape, ReadInv, AlarmInv, PeakInv, Stage4DoesNotBuy, Decided

LEMMA ModesStep == ASSUME ModesInv, [Next]_vars PROVE ModesInv'
<1>1. CASE Stage4Step
  <2>1. CASE \E name \in load.cycles : Begin(name) /\ s7.at = "idle"
    BY <2>1, BeginStep
  <2>2. CASE CycleStep
    BY <2>2, AssessStep, DegradeStep, FilterStep, ExecuteStep, PersistStep DEF CycleStep
  <2>3. CASE Abort
    <3>1. DegradeRow'
      BY <2>3 DEF Abort, ModesInv, DegradeRow, Row
    <3> QED BY <2>3, <3>1, CycleEnds DEF Abort
  <2>4. CASE run_degrade_clear \/ \E m \in Mode, c \in 0 .. 2 : run_degrade_override(m, c)
    BY <2>4, OperatorStep
  <2>5. CASE TroubleEnds
    BY <2>5 DEF TroubleEnds, ModesInv, modeVars, CycleShape, DegradeRow, Row, ReadInv, AlarmInv,
                Alarmed, PeakInv, Stage4DoesNotBuy, Troubled
  <2> QED BY <1>1, <2>1, <2>2, <2>3, <2>4, <2>5 DEF Stage4Step
<1>2. CASE PassTime
  BY <1>2, TickStep DEF PassTime
<1>3. CASE UNCHANGED modeVars
  BY <1>3, ModesSame
<1>4. CASE \E in \in load.sights : S7Begin(in)
  BY <1>3, <1>4 DEF S7Begin
<1>5. CASE S7Trade \/ save_stage7_cycle \/ save_stage7_run_metrics \/ MarkBad \/ RollBack
           \/ ApplyProposal \/ S7Abort
  BY <1>3, <1>5 DEF S7Trade, save_stage7_cycle, save_stage7_run_metrics, MarkBad, RollBack,
                    ApplyProposal, S7Abort
<1>6. CASE UNCHANGED vars
  BY <1>3, <1>6 DEF vars
<1> QED BY <1>1, <1>2, <1>4, <1>5, <1>6 DEF Next

LEMMA ModesStart == Init => ModesInv
<1> SUFFICES ASSUME Init PROVE ModesInv
  OBVIOUS
<1>1. cyc = Idle /\ degrade = NoDegrade /\ warnRun = 0 /\ manual = FALSE
      /\ risk = [mode |-> None, peak |-> 0] /\ load \in Loads
  BY DEF Init, ModesInit
<1>2. cyc.at = "idle" /\ load.cycles \subseteq DOMAIN Inputs
  BY <1>1, ModesIdle, ModesAssumption DEF ModesAssumption
<1>3. DegradeRow
  <2>1. Row(degrade) /\ degrade.warns = 0
    BY <1>1, NoDegradeIs DEF Row
  <2>2. warnRun \in Nat /\ warnRun <= degrade.warns /\ manual = FALSE
    BY <1>1, <2>1
  <2> QED BY <2>1, <2>2 DEF DegradeRow
<1>4. risk.peak \in Int
  BY <1>1
<1> QED
  BY <1>1, <1>2, <1>3, <1>4, ModesIdle
  DEF ModesInv, CycleShape, ReadInv, AlarmInv, PeakInv, Stage4DoesNotBuy, Decided

LEMMA ModesInvariant == Spec => []ModesInv
<1>1. ModesInv /\ [Next]_vars => ModesInv'
  BY ModesStep
<1> QED BY <1>1, ModesStart, PTL DEF Spec

(* A troubled Stage-4 cycle sends no order that buys (Stage4DoesNotBuy, the *)
(* first part of TroubledCyclesDoNotBuy): not under the kill switch, the    *)
(* drawdown, an ERROR, an open breaker, an override in force or warnings in *)
(* a row, whichever levels and cooldowns came before.                       *)
THEOREM TroubledStage4DoesNotBuy == Spec => []Stage4DoesNotBuy
<1>1. ModesInv => Stage4DoesNotBuy
  BY DEF ModesInv
<1> QED BY <1>1, ModesInvariant, PTL

-----------------------------------------------------------------------------
(* When the level falls *)

LEMMA FallSame ==
    ASSUME FallInv, cyc'.at = cyc.at \/ (cyc.at \in {"assess", "degrade"} /\ cyc'.at \in {"assess", "degrade"})
                    \/ (cyc.at \in Decided /\ cyc'.at \in Decided) \/ cyc'.at = "idle",
           cyc'.at # "idle" => cyc'.late = cyc.late /\ cyc'.read = cyc.read /\ cyc'.got = cyc.got,
           UNCHANGED degrade
    PROVE  FallInv'
BY DEF FallInv, WrittenMeanwhile, Decided

LEMMA FallBegin ==
    ASSUME FallInv, NEW name, Begin(name) PROVE FallInv'
<1>1. UNCHANGED degrade /\ cyc.at = "idle"
  BY DEF Begin
<1>2. CASE cyc' = Idle
  <2>1. cyc'.at = "idle"
    BY <1>2, ModesIdle
  <2> QED BY <2>1 DEF FallInv, Decided
<1>3. CASE cyc' = [Idle EXCEPT !.at = "assess", !.in = name, !.active = ActiveSymbols(Inputs[name]),
                               !.late = (degrade.cool = 0)]
  <2>1. cyc'.at = "assess" /\ cyc'.late = (degrade.cool = 0)
    BY <1>3, ModesIdle
  <2> QED BY <1>1, <2>1 DEF FallInv, WrittenMeanwhile, Decided
<1> QED BY <1>2, <1>3 DEF Begin

(* With a threshold of at least two cycles a row the operator has just     *)
(* written never falls in the cycle that reads it.                         *)
LEMMA FallDegrade ==
    ASSUME WarnThreshold > 1, ModesInv, FallInv, Degrade PROVE FallInv'
<1> DEFINE in == Inputs[cyc.in]
           stall == CursorStall(in)
           events == detect(ResolveMarketSnapshot(in, cyc.active).ages, in.slow = "before",
                            degrade.rejects, stall, in)
           warned == WarnedBy(events)
           w == IF warned # {} THEN degrade.warns + 1 ELSE 0
           recent == IF warned # {} THEN warned ELSE degrade.codes
           got == decide_degrade(degrade, events, w, recent, in.breaker)
<1>1. cyc.at = "degrade" /\ UNCHANGED degrade
  BY DEF Degrade
<1>2. cyc' = [cyc EXCEPT !.at = "filter", !.read = degrade, !.stall = stall, !.got = got]
  BY DegradeIs
<1> HIDE DEF events, stall, got
<1>3. Row(degrade)
  BY DEF ModesInv, DegradeRow
<1>4. /\ degrade.warns \in Nat /\ degrade.streak \in Nat /\ degrade.cool \in Nat
      /\ degrade.level \in 0 .. 3 /\ WarnThreshold \in Nat \ {0}
  BY <1>3, ModesAssumption DEF Row, ModesAssumption
<1>5. w \in Nat /\ w <= degrade.warns + 1
  BY <1>4
<1> HIDE DEF w, recent, warned
<1>6. PICK l \in 0 .. 3, k \in Nat : got = Build(l, k) /\ Fits(degrade, events, w, in.breaker, l)
  BY <1>3, <1>5, DecideIs, Zenon DEF got
<1>7. got.level = l
  BY <1>6, BuildIs
<1>8. cyc'.at = "filter" /\ cyc'.read = degrade /\ cyc'.got = got /\ cyc'.late = cyc.late
  BY <1>2 DEF ModesInv, CycleShape
<1>9. WrittenMeanwhile(degrade)
  BY <1>1 DEF FallInv
<1>10. ASSUME l < degrade.level
       PROVE  /\ cyc.late
              /\ l = degrade.level - 1 \/ (l >= 1 /\ degrade.warns + 1 >= WarnThreshold)
  <2>1. /\ degrade.cool = 0
        /\ w >= WarnThreshold \/ degrade.streak + 1 >= 4
        /\ l = degrade.level - 1 \/ (l >= 1 /\ w >= WarnThreshold)
    BY <1>6, <1>10 DEF Fits
  <2>2. ~(degrade.streak = 0 /\ degrade.warns = 0)
    BY <1>4, <1>5, <2>1
  <2>3. cyc.late
    BY <1>9, <2>1, <2>2 DEF WrittenMeanwhile
  <2>4. w >= WarnThreshold => degrade.warns + 1 >= WarnThreshold
    BY <1>4, <1>5
  <2> QED BY <2>1, <2>3, <2>4
<1> QED
  BY <1>7, <1>8, <1>10 DEF FallInv, WrittenMeanwhile, Decided

LEMMA FallOperator ==
    ASSUME FallInv, run_degrade_clear \/ \E m \in Mode, c \in 0 .. 2 : run_degrade_override(m, c)
    PROVE  FallInv'
<1>1. cyc' = cyc
  BY DEF run_degrade_clear, run_degrade_override
<1>2. degrade'.streak = 0 /\ degrade'.warns = 0
  <2>1. CASE run_degrade_clear
    BY <2>1, NoDegradeIs DEF run_degrade_clear, upsert_degrade_state_current
  <2>2. CASE \E m \in Mode, c \in 0 .. 2 : run_degrade_override(m, c)
    BY <2>2, OverrideIs
  <2> QED BY <2>1, <2>2
<1> QED BY <1>1, <1>2 DEF FallInv, WrittenMeanwhile, Decided

LEMMA FallStep ==
    ASSUME WarnThreshold > 1, ModesInv, FallInv, [Next]_vars PROVE FallInv'
<1>1. CASE Stage4Step
  <2>1. CASE \E name \in load.cycles : Begin(name) /\ s7.at = "idle"
    BY <2>1, FallBegin
  <2>2. CASE Assess
    <3>1. \E m, a : cyc' = [cyc EXCEPT !.at = "degrade", !.base = m, !.acts = a]
      BY <2>2, Zenon DEF Assess
    <3>2. /\ cyc.at = "assess" /\ cyc'.at = "degrade" /\ UNCHANGED degrade
          /\ cyc'.late = cyc.late /\ cyc'.read = cyc.read /\ cyc'.got = cyc.got
      BY <2>2, <3>1 DEF Assess, ModesInv, CycleShape
    <3> QED BY <3>2, FallSame
  <2>3. CASE Degrade
    BY <2>3, FallDegrade
  <2>4. CASE Filter
    <3>1. /\ cyc.at = "filter" /\ cyc'.at = "execute" /\ UNCHANGED degrade
          /\ cyc'.late = cyc.late /\ cyc'.read = cyc.read /\ cyc'.got = cyc.got
      BY <2>4 DEF Filter, ModesInv, CycleShape
    <3> QED BY <3>1, FallSame DEF Decided
  <2>5. CASE \E r \in 0 .. RejectThreshold : Execute(r)
    <3>1. /\ cyc.at = "execute" /\ cyc'.at = "persist" /\ UNCHANGED degrade
          /\ cyc'.late = cyc.late /\ cyc'.read = cyc.read /\ cyc'.got = cyc.got
      BY <2>5 DEF Execute, ModesInv, CycleShape
    <3> QED BY <3>1, FallSame DEF Decided
  <2>6. CASE (\E ok \in BOOLEAN : Persist(ok)) \/ Abort
    <3>1. cyc'.at = "idle"
      BY <2>6, ModesIdle DEF Persist, Abort
    <3> QED BY <3>1 DEF FallInv, Decided
  <2>7. CASE run_degrade_clear \/ \E m \in Mode, c \in 0 .. 2 : run_degrade_override(m, c)
    BY <2>7, FallOperator
  <2>8. CASE TroubleEnds
    BY <2>8 DEF TroubleEnds, FallInv, WrittenMeanwhile
  <2> QED BY <1>1, <2>1, <2>2, <2>3, <2>4, <2>5, <2>6, <2>7, <2>8 DEF Stage4Step, CycleStep
<1>2. CASE PassTime
  <2>1. cyc' = cyc /\ cyc.at = "idle"
    BY <1>2 DEF PassTime, Tick
  <2> QED BY <2>1 DEF FallInv, Decided
<1>3. CASE UNCHANGED modeVars
  BY <1>3 DEF modeVars, FallInv, WrittenMeanwhile
<1>4. CASE \E in \in load.sights : S7Begin(in)
  BY <1>3, <1>4 DEF S7Begin
<1>5. CASE S7Trade \/ save_stage7_cycle \/ save_stage7_run_metrics \/ MarkBad \/ RollBack
           \/ ApplyProposal \/ S7Abort
  BY <1>3, <1>5 DEF S7Trade, save_stage7_cycle, save_stage7_run_metrics, MarkBad, RollBack,
                    ApplyProposal, S7Abort
<1>6. CASE UNCHANGED vars
  BY <1>3, <1>6 DEF vars
<1> QED BY <1>1, <1>2, <1>4, <1>5, <1>6 DEF Next

(* Only the end of a cycle changes the row and the cycle in one step, and *)
(* the level it stores is the one it decided.                             *)
LEMMA LevelChanges ==
    ASSUME ModesInv, [Next]_vars
    PROVE  \/ degrade'.level = degrade.level \/ cyc'.at = cyc.at
           \/ cyc.at \in Decided /\ degrade'.level = cyc.got.level
<1>1. CASE Stage4Step
  <2>1. CASE \E name \in load.cycles : Begin(name) /\ s7.at = "idle"
    BY <2>1 DEF Begin
  <2>2. CASE Assess \/ Degrade \/ Filter \/ \E r \in 0 .. RejectThreshold : Execute(r)
    BY <2>2 DEF Assess, Degrade, Filter, Execute
  <2>3. CASE \E ok \in BOOLEAN : Persist(ok)
    <3>1. cyc.at \in Decided
      BY <2>3 DEF Persist, Decided
    <3>2. \/ degrade' = degrade
          \/ \E wn, cd : degrade' = [level |-> cyc.got.level, override |-> cyc.got.override,
                    cool |-> cyc.got.cool, cap |-> cyc.got.cap,
                    streak |-> cyc.got.streak, warns |-> wn,
                    codes |-> cd, stall |-> cyc.stall, rejects |-> cyc.rejects]
      BY <2>3, Zenon DEF Persist, persist_degrade, upsert_degrade_state_current
    <3> QED BY <3>1, <3>2
  <2>4. CASE Abort \/ TroubleEnds
    BY <2>4 DEF Abort, TroubleEnds
  <2>5. CASE run_degrade_clear \/ \E m \in Mode, c \in 0 .. 2 : run_degrade_override(m, c)
    BY <2>5 DEF run_degrade_clear, run_degrade_override
  <2> QED BY <1>1, <2>1, <2>2, <2>3, <2>4, <2>5 DEF Stage4Step, CycleStep
<1>2. CASE PassTime
  BY <1>2 DEF PassTime, Tick
<1>3. CASE UNCHANGED modeVars
  BY <1>3 DEF modeVars
<1>4. CASE \E in \in load.sights : S7Begin(in)
  BY <1>3, <1>4 DEF S7Begin
<1>5. CASE S7Trade \/ save_stage7_cycle \/ save_stage7_run_metrics \/ MarkBad \/ RollBack
           \/ ApplyProposal \/ S7Abort
  BY <1>3, <1>5 DEF S7Trade, save_stage7_cycle, save_stage7_run_metrics, MarkBad, RollBack,
                    ApplyProposal, S7Abort
<1>6. CASE UNCHANGED vars
  BY <1>3, <1>6 DEF vars
<1> QED BY <1>1, <1>2, <1>4, <1>5, <1>6 DEF Next

(* If a level needs warnings in at least two cycles (degrade_warn_threshold *)
(* above 1), a cycle lowers the stored level only when it started after the *)
(* cooldown, by one or to the level the warnings call for (LevelFallsLate). *)
(* With a threshold of 1 an override without a cooldown, written while a    *)
(* cycle is in flight, can fall in that cycle.                              *)
THEOREM LevelsFallLate ==
    ASSUME WarnThreshold > 1 PROVE Spec => LevelFallsLate
<1> DEFINE Fall == degrade'.level < degrade.level /\ cyc'.at # cyc.at /\ cyc.read = degrade =>
                      /\ cyc.late
                      /\ \/ degrade'.level = degrade.level - 1
                         \/ degrade'.level >= 1 /\ degrade.warns + 1 >= WarnThreshold
<1>1. Init => FallInv
  <2> SUFFICES ASSUME Init PROVE FallInv
    OBVIOUS
  <2>1. cyc.at = "idle"
    BY ModesIdle DEF Init, ModesInit
  <2> QED BY <2>1 DEF FallInv, Decided
<1>2. ModesInv /\ FallInv /\ [Next]_vars => FallInv'
  BY FallStep
<1>3. ModesInv /\ FallInv /\ [Next]_vars => [Fall]_modeVars
  <2> SUFFICES ASSUME ModesInv, FallInv, [Next]_vars,
                      degrade'.level < degrade.level, cyc'.at # cyc.at, cyc.read = degrade
               PROVE  /\ cyc.late
                      /\ \/ degrade'.level = degrade.level - 1
                         \/ degrade'.level >= 1 /\ degrade.warns + 1 >= WarnThreshold
    OBVIOUS
  <2>1. degrade.level \in 0 .. 3
    BY DEF ModesInv, DegradeRow, Row
  <2>2. cyc.at \in Decided /\ degrade'.level = cyc.got.level
    BY <2>1, LevelChanges
  <2> QED BY <2>2 DEF FallInv
<1>4. Spec => [](ModesInv /\ FallInv)
  BY <1>1, <1>2, ModesInvariant, PTL DEF Spec
<1> QED BY <1>3, <1>4, PTL DEF Spec, LevelFallsLate

-----------------------------------------------------------------------------
(* Stage 7 under OBSERVE_ONLY *)

(* While either stage's newest mode is OBSERVE_ONLY, a Stage-7 cycle has no *)
(* order to send (a part of TroubledCyclesDoNotBuy).                        *)
ObservingSendsNothing ==
    s7.at = "trade" =>
       (get_latest_risk_mode = "OBSERVE_ONLY" \/ (s7risk.cool > 0 /\ s7risk.mode = "OBSERVE_ONLY")
          => s7.orders = {})

LEMMA ObserveBegin ==
    ASSUME NEW in, S7Begin(in) PROVE ObservingSendsNothing'
<1> DEFINE d == decide(in, ledger, s7risk, ActiveParams)
           m == FinalMode(in, d, SymbolsNeeded(in))
<1>1. s7' = [at |-> "trade", in |-> in, mode |-> m, decision |-> d,
             orders |-> Orders(in, ActiveParams, m, d), cap |-> ActiveParams.turnover]
  BY Zenon DEF S7Begin
<1>2. UNCHANGED <<risk, s7risk>>
  BY DEF S7Begin, modeVars
<1>3. s7risk.cool > 0 /\ s7risk.mode = "OBSERVE_ONLY" => d.mode = "OBSERVE_ONLY"
  BY DEF decide, combine_modes
<1>4. get_latest_risk_mode = "OBSERVE_ONLY" \/ d.mode = "OBSERVE_ONLY" => m = "OBSERVE_ONLY"
  <2> HIDE DEF d
  <2> QED BY DEF FinalMode, combine_modes
<1> HIDE DEF m, d
<1>5. m = "OBSERVE_ONLY" => s7'.orders = {}
  BY <1>1 DEF Orders
<1>6. get_latest_risk_mode' = get_latest_risk_mode
  BY <1>2 DEF get_latest_risk_mode
<1> QED BY <1>2, <1>3, <1>4, <1>5, <1>6 DEF ObservingSendsNothing

LEMMA ObserveStep ==
    ASSUME StagesApart, ObservingSendsNothing, [Next]_vars PROVE ObservingSendsNothing'
<1> USE DEF ObservingSendsNothing
<1>1. CASE Stage4Step /\ UNCHANGED s7Vars
  <2>1. CASE s7.at = "trade"
    <3>1. UNCHANGED <<risk, s7risk, s7>>
      BY <1>1, <2>1, Stage4Changes DEF StagesApart, s7Vars
    <3> QED BY <3>1 DEF get_latest_risk_mode
  <2>2. CASE s7.at # "trade"
    BY <1>1, <2>2 DEF s7Vars
  <2> QED BY <2>1, <2>2
<1>2. CASE \E in \in load.sights : S7Begin(in)
  BY <1>2, ObserveBegin
<1>3. CASE S7Trade \/ save_stage7_cycle \/ save_stage7_run_metrics \/ MarkBad \/ RollBack
           \/ ApplyProposal \/ S7Abort
  <2>1. s7'.at # "trade"
    BY <1>3, IdleIs DEF StagesApart, S7Trade, save_stage7_cycle, save_stage7_run_metrics, MarkBad,
                        RollBack, ApplyProposal, S7Abort
  <2> QED BY <2>1
<1>4. CASE PassTime
  BY <1>4 DEF PassTime
<1>5. CASE UNCHANGED vars
  BY <1>5 DEF vars, modeVars, s7Vars, get_latest_risk_mode
<1> QED BY <1>1, <1>2, <1>3, <1>4, <1>5 DEF Next

(* A Stage-7 cycle sends nothing at all while the mode Stage 4 stored last, *)
(* or its own decision whose cooldown runs, is OBSERVE_ONLY.                *)
THEOREM ObservedCyclesSendNothing == Spec => []ObservingSendsNothing
<1>1. Init => StagesApart /\ ObservingSendsNothing
  <2> SUFFICES ASSUME Init PROVE StagesApart /\ ObservingSendsNothing
    OBVIOUS
  <2>1. s7 = S7Idle
    BY DEF Init, S7Init
  <2> QED BY <2>1, IdleIs DEF StagesApart, ObservingSendsNothing
<1>2. StagesApart /\ ObservingSendsNothing /\ [Next]_vars => (StagesApart /\ ObservingSendsNothing)'
  BY ApartStep, ObserveStep
<1> QED BY <1>1, <1>2, PTL DEF Spec

-----------------------------------------------------------------------------
(* Induction up to a bound *)

(* What holds at 0 and is passed on up to N holds up to N. *)
LEMMA UpTo ==
    ASSUME NEW N \in Nat, NEW S, 0 \in S, \A n \in 0 .. N - 1 : n \in S => n + 1 \in S
    PROVE  \A n \in 0 .. N : n \in S
<1> SUFFICES ASSUME {n \in 0 .. N : n \notin S} # {} PROVE FALSE
  OBVIOUS
<1> DEFINE T == {n \in 0 .. N : n \notin S}
<1>1. T \subseteq Nat /\ T # {}
  OBVIOUS
<1> HIDE DEF T
<1>2. PICK x \in T : \A y \in T : ~(<<y, x>> \in OpToRel(<, Nat))
  BY <1>1, NatLessThanWellFounded, WFMin
<1>3. \A y \in T : ~(y < x)
  BY <1>1, <1>2, Zenon DEF OpToRel
<1> USE DEF T
<1>4. x \in 1 .. N /\ x - 1 \in 0 .. N - 1 /\ x - 1 + 1 = x
  OBVIOUS
<1>5. x - 1 \in S
  BY <1>3, <1>4
<1> QED BY <1>4, <1>5

(* What holds for every member of a family of finite sets whose smaller members it *)
(* holds for, holds for all of them.                                               *)
LEMMA SmallerSets ==
    ASSUME NEW F, NEW G, \A t \in F : Cardinality(t) \in Nat,
           \A t \in F : (\A u \in F : Cardinality(u) < Cardinality(t) => u \in G) => t \in G
    PROVE  F \subseteq G
<1> SUFFICES ASSUME F \ G # {} PROVE FALSE
  OBVIOUS
<1> DEFINE T == {Cardinality(t) : t \in F \ G}
<1>0. PICK w \in F \ G : TRUE
  OBVIOUS
<1>1. T \subseteq Nat /\ T # {}
  <2>1. Cardinality(w) \in T
    BY <1>0
  <2>2. \A y \in T : y \in Nat
    <3>1. \A t \in F \ G : Cardinality(t) \in Nat
      OBVIOUS
    <3> TAKE y \in T
    <3>2. PICK t \in F \ G : y = Cardinality(t)
      OBVIOUS
    <3> QED BY <3>1, <3>2
  <2> QED BY <2>1, <2>2, Zenon
<1> HIDE DEF T
<1>2. PICK x \in T : \A y \in T : ~(<<y, x>> \in OpToRel(<, Nat))
  BY <1>1, NatLessThanWellFounded, WFMin
<1>3. \A y \in T : ~(y < x)
  BY <1>1, <1>2, Zenon DEF OpToRel
<1>4. PICK t \in F \ G : x = Cardinality(t)
  BY DEF T
<1>5. \A u \in F : Cardinality(u) < Cardinality(t) => u \in G
  <2> SUFFICES ASSUME NEW u \in F, u \notin G PROVE ~(Cardinality(u) < Cardinality(t))
    OBVIOUS
  <2>1. Cardinality(u) \in T
    BY DEF T
  <2> QED BY <1>3, <1>4, <2>1
<1> QED BY <1>4, <1>5

(* A finite set of numbers that is not empty has a largest and a smallest member. *)
LEMMA Extremes ==
    ASSUME NEW S, IsFiniteSet(S), S \subseteq Int, S # {}
    PROVE  /\ Max(S) \in S /\ \A y \in S : y <= Max(S)
           /\ Min(S) \in S /\ \A y \in S : Min(S) <= y
<1> DEFINE G == {t \in SUBSET S : t # {} => /\ \E x \in t : \A y \in t : x >= y
                                          /\ \E x \in t : \A y \in t : x <= y}
<1>0. \A t \in SUBSET S : Cardinality(t) \in Nat
  BY FS_Subset, FS_CardinalityType
<1>1. ASSUME NEW t \in SUBSET S,
             \A u \in SUBSET S : Cardinality(u) < Cardinality(t) => u \in G
      PROVE  t \in G
  <2> SUFFICES ASSUME t # {}
               PROVE  (\E x \in t : \A y \in t : x >= y) /\ (\E x \in t : \A y \in t : x <= y)
    OBVIOUS
  <2> PICK z \in t : TRUE
    OBVIOUS
  <2>1. Cardinality(t \ {z}) = Cardinality(t) - 1 /\ Cardinality(t) \in Nat
    BY <1>0, FS_Subset, FS_RemoveElement
  <2>2. t \ {z} \in G
    BY <1>1, <2>1
  <2>3. CASE t \ {z} = {}
    BY <2>3
  <2>4. CASE t \ {z} # {}
    <3>1. PICK x \in t \ {z} : \A y \in t \ {z} : x >= y
      BY <2>2, <2>4
    <3>2. PICK w \in t \ {z} : \A y \in t \ {z} : w <= y
      BY <2>2, <2>4
    <3>3. \A y \in t : y = z \/ y \in t \ {z}
      OBVIOUS
    <3>4. x \in Int /\ w \in Int /\ z \in Int /\ \A y \in t : y \in Int
      OBVIOUS
    <3>5. \E v \in t : \A y \in t : v >= y
      <4>1. CASE x >= z
        BY <3>1, <3>3, <4>1
      <4>2. CASE z >= x
        BY <3>1, <3>3, <3>4, <4>2
      <4> QED BY <3>4, <4>1, <4>2
    <3>6. \E v \in t : \A y \in t : v <= y
      <4>1. CASE w <= z
        BY <3>2, <3>3, <4>1
      <4>2. CASE z <= w
        BY <3>2, <3>3, <3>4, <4>2
      <4> QED BY <3>4, <4>1, <4>2
    <3> QED BY <3>5, <3>6
  <2> QED BY <2>3, <2>4
<1> HIDE DEF G
<1>2. S \in G
  BY <1>0, <1>1, SmallerSets
<1>3. (\E x \in S : \A y \in S : x >= y) /\ (\E x \in S : \A y \in S : x <= y)
  BY <1>2 DEF G
<1>4. Max(S) \in S /\ \A y \in S : Max(S) >= y
  BY <1>3 DEF Max
<1>5. Min(S) \in S /\ \A y \in S : Min(S) <= y
  BY <1>3 DEF Min
<1> QED BY <1>4, <1>5

LEMMA MaxIsIn ==
    ASSUME NEW n \in Nat, NEW S, S \subseteq 1 .. n, S # {}
    PROVE  Max(S) \in S /\ \A y \in S : y <= Max(S)
<1>1. IsFiniteSet(1 .. n)
  BY FS_Interval, 1 \in Int, n \in Int
<1>2. IsFiniteSet(S) /\ S \subseteq Int
  <2>1. S \in SUBSET (1 .. n) /\ S \subseteq Int
    OBVIOUS
  <2> QED BY <1>1, <2>1, FS_Subset
<1> QED BY <1>2, Extremes

LEMMA TopOfRange ==
    ASSUME NEW N \in Nat, NEW n \in 1 .. N
    PROVE  Max(1 .. n) = n /\ (1 .. n) \ {n} = 1 .. n - 1 /\ 1 .. n \in SUBSET (1 .. N)
<1>1. n \in Nat /\ 1 .. n \subseteq 1 .. n /\ 1 .. n # {}
  OBVIOUS
<1>2. Max(1 .. n) \in 1 .. n /\ \A y \in 1 .. n : y <= Max(1 .. n)
  BY <1>1, MaxIsIn
<1>3. n <= Max(1 .. n)
  BY <1>1, <1>2
<1> QED BY <1>2, <1>3

-----------------------------------------------------------------------------
(* Folds.  FoldLeft chooses a function on the sets of positions; there is one, *)
(* and its values on the initial positions are a run of the step that is folded. *)

(* b: the value of the start; F: the step, from a value and a position. *)
Iterates(g, F, b, n) ==
    \A t \in SUBSET (1 .. n) : g[t] = IF t = {} THEN b ELSE F[<<g[t \ {Max(t)}], Max(t)>>]

LEMMA FoldExists ==
    ASSUME NEW A, NEW N \in Nat, NEW b \in A, NEW F \in [A \X (1 .. N) -> A]
    PROVE  \E g \in [SUBSET (1 .. N) -> A] : Iterates(g, F, b, N)
<1> DEFINE Good == {n \in 0 .. N : \E g \in [SUBSET (1 .. n) -> A] : Iterates(g, F, b, n)}
<1>1. 0 \in Good
  <2>1. \A t \in SUBSET (1 .. 0) : t = {}
    OBVIOUS
  <2>2. Iterates([t \in SUBSET (1 .. 0) |-> b], F, b, 0)
    BY <2>1 DEF Iterates
  <2>3. [t \in SUBSET (1 .. 0) |-> b] \in [SUBSET (1 .. 0) -> A]
    OBVIOUS
  <2> QED BY <2>2, <2>3
<1>2. \A n \in 0 .. N - 1 : n \in Good => n + 1 \in Good
  <2> SUFFICES ASSUME NEW n \in 0 .. N - 1, n \in Good PROVE n + 1 \in Good
    OBVIOUS
  <2> PICK g \in [SUBSET (1 .. n) -> A] : Iterates(g, F, b, n)
    OBVIOUS
  <2> HIDE DEF Good
  <2> DEFINE f == [t \in SUBSET (1 .. n + 1) |->
                     IF n + 1 \in t THEN F[<<g[t \ {n + 1}], n + 1>>] ELSE g[t]]
  <2>1. ASSUME NEW t \in SUBSET (1 .. n + 1), n + 1 \in t
        PROVE  /\ t \ {n + 1} \in SUBSET (1 .. n) /\ t \ {n + 1} \in SUBSET (1 .. n + 1)
               /\ f[t] = F[<<g[t \ {n + 1}], n + 1>>] /\ f[t] \in A
    BY <2>1
  <2>2. ASSUME NEW t \in SUBSET (1 .. n + 1), n + 1 \notin t
        PROVE  t \in SUBSET (1 .. n) /\ f[t] = g[t] /\ f[t] \in A
    BY <2>2
  <2>3. f \in [SUBSET (1 .. n + 1) -> A]
    BY <2>1, <2>2
  <2> HIDE DEF f
  <2>4. ASSUME NEW t \in SUBSET (1 .. n + 1)
        PROVE  f[t] = IF t = {} THEN b ELSE F[<<f[t \ {Max(t)}], Max(t)>>]
    <3>1. CASE n + 1 \in t
      <4>1. Max(t) \in t /\ n + 1 <= Max(t)
        BY <3>1, MaxIsIn, n + 1 \in Nat
      <4>2. Max(t) = n + 1
        <5>1. Max(t) \in 1 .. n + 1
          BY <4>1
        <5> QED BY <4>1, <5>1
      <4>3. f[t \ {n + 1}] = g[t \ {n + 1}]
        BY <3>1, <2>1, <2>2
      <4> QED BY <2>1, <3>1, <4>2, <4>3
    <3>2. CASE n + 1 \notin t
      <4>1. t \in SUBSET (1 .. n) /\ f[t] = g[t]
        BY <3>2, <2>2
      <4>2. f[t \ {Max(t)}] = g[t \ {Max(t)}]
        BY <3>2, <2>2
      <4> QED BY <4>1, <4>2 DEF Iterates
    <3> QED BY <3>1, <3>2
  <2>5. Iterates(f, F, b, n + 1)
    BY <2>4 DEF Iterates
  <2> QED BY <2>3, <2>5 DEF Good
<1>3. N \in Good
  BY <1>1, <1>2, UpTo, N \in 0 .. N
<1> QED BY <1>3

(* it obeys the step on the values of A. *)
Follows(it, A, F, b, N) ==
    /\ it[{}] = b
    /\ \A t \in SUBSET (1 .. N) :
          t # {} /\ it[t \ {Max(t)}] \in A => it[t] = F[<<it[t \ {Max(t)}], Max(t)>>]

(* h holds the values of it along the positions. *)
Runs(h, it, F, b, N) == h[0] = b /\ it[1 .. N] = h[N] /\ \A n \in 1 .. N : h[n] = F[<<h[n - 1], n>>]

(* A function that obeys the step on the values of A runs through A. *)
LEMMA FoldRuns ==
    ASSUME NEW A, NEW N \in Nat, NEW b \in A, NEW F \in [A \X (1 .. N) -> A], NEW it,
           Follows(it, A, F, b, N)
    PROVE  \E h \in [0 .. N -> A] : Runs(h, it, F, b, N)
<1> DEFINE h == [n \in 0 .. N |-> it[1 .. n]]
           Good == {n \in 0 .. N : it[1 .. n] \in A}
<1> USE DEF Follows
<1>1. it[1 .. 0] = b
  <2>1. 1 .. 0 = {}
    OBVIOUS
  <2> QED BY <2>1
<1>2. ASSUME NEW n \in 1 .. N, it[1 .. n - 1] \in A
      PROVE  it[1 .. n] = F[<<it[1 .. n - 1], n>>] /\ it[1 .. n] \in A
  <2>1. Max(1 .. n) = n /\ (1 .. n) \ {n} = 1 .. n - 1 /\ 1 .. n \in SUBSET (1 .. N) /\ 1 .. n # {}
    <3>1. n \in 1 .. n
      OBVIOUS
    <3> QED BY <3>1, TopOfRange, Zenon
  <2>2. it[1 .. n] = F[<<it[1 .. n - 1], n>>]
    BY <1>2, <2>1
  <2>3. <<it[1 .. n - 1], n>> \in A \X (1 .. N)
    BY <1>2
  <2> QED BY <2>2, <2>3
<1>3. \A n \in 0 .. N - 1 : n \in Good => n + 1 \in Good
  <2> SUFFICES ASSUME NEW n \in 0 .. N - 1, n \in Good PROVE n + 1 \in Good
    OBVIOUS
  <2> DEFINE m == n + 1
  <2>1. m \in 1 .. N /\ m - 1 = n /\ m \in 0 .. N
    OBVIOUS
  <2> HIDE DEF m
  <2>2. it[1 .. m - 1] \in A
    BY <2>1
  <2>3. it[1 .. m] \in A
    BY <1>2, <2>1, <2>2
  <2> QED BY <2>1, <2>3 DEF m
<1>4. \A n \in 0 .. N : it[1 .. n] \in A
  <2>1. 0 \in Good
    BY <1>1
  <2> HIDE DEF Good
  <2>2. \A n \in 0 .. N : n \in Good
    BY <2>1, <1>3, UpTo
  <2> QED BY <2>2 DEF Good
<1>5. h \in [0 .. N -> A]
  BY <1>4
<1>6. \A n \in 1 .. N : h[n] = F[<<h[n - 1], n>>]
  <2> TAKE n \in 1 .. N
  <2>1. n - 1 \in 0 .. N /\ n \in 0 .. N
    OBVIOUS
  <2>2. it[1 .. n] = F[<<it[1 .. n - 1], n>>]
    BY <1>2, <1>4, <2>1
  <2> QED BY <2>1, <2>2
<1>7. h[0] = b /\ it[1 .. N] = h[N]
  BY <1>1
<1> HIDE DEF h
<1> QED BY <1>5, <1>6, <1>7 DEF Runs

-----------------------------------------------------------------------------
(* Sorted lists hold each member of a set once. *)

(* R orders the members of S strictly and totally. *)
TotalOrder(S, R) ==
    /\ \A a \in S : <<a, a>> \notin R
    /\ \A a, b \in S : a = b \/ <<a, b>> \in R \/ <<b, a>> \in R
    /\ \A a, b, c \in S : <<a, b>> \in R /\ <<b, c>> \in R => <<a, c>> \in R

RankIn(S, R, a) == Cardinality({b \in S : <<b, a>> \in R})

LEMMA RankBound ==
    ASSUME NEW S, IsFiniteSet(S), NEW R, TotalOrder(S, R), NEW a \in S
    PROVE  RankIn(S, R, a) \in 0 .. Cardinality(S) - 1
<1> DEFINE P == {b \in S : <<b, a>> \in R}
<1>1. P \subseteq S \ {a}
  BY DEF TotalOrder
<1>2. Cardinality(S) \in Nat /\ IsFiniteSet(S \ {a}) /\ Cardinality(S \ {a}) = Cardinality(S) - 1
  BY FS_RemoveElement, FS_CardinalityType
<1> HIDE DEF P
<1>3. IsFiniteSet(P) /\ Cardinality(P) <= Cardinality(S \ {a}) /\ Cardinality(P) \in Nat
  BY <1>1, <1>2, FS_Subset, FS_CardinalityType
<1>4. Cardinality(P) \in 0 .. Cardinality(S) - 1
  BY <1>2, <1>3
<1> QED BY <1>4 DEF RankIn, P

LEMMA RankGrows ==
    ASSUME NEW S, IsFiniteSet(S), NEW R, TotalOrder(S, R), NEW a \in S, NEW c \in S, <<a, c>> \in R
    PROVE  RankIn(S, R, a) < RankIn(S, R, c)
<1> DEFINE P == {b \in S : <<b, a>> \in R}
           Q == {b \in S : <<b, c>> \in R}
<1>1. a \notin P /\ P \cup {a} \subseteq Q /\ P \subseteq S /\ Q \subseteq S
  BY DEF TotalOrder
<1> HIDE DEF P, Q
<1>2. IsFiniteSet(P) /\ IsFiniteSet(Q) /\ Cardinality(P) \in Nat /\ Cardinality(Q) \in Nat
  BY <1>1, FS_Subset, FS_CardinalityType
<1>3. Cardinality(P \cup {a}) = Cardinality(P) + 1
  BY <1>1, <1>2, FS_AddElement
<1>4. Cardinality(P \cup {a}) <= Cardinality(Q)
  BY <1>1, <1>2, FS_Subset
<1>5. Cardinality(P) < Cardinality(Q)
  BY <1>2, <1>3, <1>4
<1> QED BY <1>5 DEF RankIn, P, Q

LEMMA RanksDiffer ==
    ASSUME NEW S, IsFiniteSet(S), NEW R, TotalOrder(S, R), NEW a \in S, NEW c \in S,
           RankIn(S, R, a) = RankIn(S, R, c)
    PROVE  a = c
<1>1. RankIn(S, R, a) \in Int /\ RankIn(S, R, c) \in Int
  BY RankBound, FS_CardinalityType
<1>2. ~(RankIn(S, R, a) < RankIn(S, R, c)) /\ ~(RankIn(S, R, c) < RankIn(S, R, a))
  BY <1>1
<1> QED BY <1>2, RankGrows DEF TotalOrder

LEMMA EveryRank ==
    ASSUME NEW S, IsFiniteSet(S), NEW R, TotalOrder(S, R), NEW n \in 1 .. Cardinality(S)
    PROVE  \E a \in S : RankIn(S, R, a) = n - 1
<1> DEFINE N == Cardinality(S)
           f == [a \in S |-> RankIn(S, R, a) + 1]
<1>1. N \in Nat /\ IsFiniteSet(1 .. N) /\ Cardinality(1 .. N) = N
  BY FS_CardinalityType, FS_Interval
<1> HIDE DEF N
<1>2. \A a \in S : f[a] \in 1 .. N /\ f[a] - 1 = RankIn(S, R, a)
  <2> TAKE a \in S
  <2>1. RankIn(S, R, a) \in 0 .. N - 1
    BY RankBound DEF N
  <2> QED BY <1>1, <2>1
<1>3. \A a, c \in S : f[a] = f[c] => a = c
  BY <1>2, RanksDiffer
<1>4. f \in [S -> 1 .. N]
  BY <1>2
<1>5. f \in Injection(S, 1 .. N)
  BY <1>3, <1>4 DEF Injection, IsInjective
<1>6. f \in Surjection(S, 1 .. N)
  BY <1>1, <1>5, FS_Injection DEF N
<1>7. PICK a \in S : f[a] = n
  BY <1>6 DEF Surjection, N
<1> QED BY <1>2, <1>7

LEMMA SortedList ==
    ASSUME NEW S, IsFiniteSet(S), NEW R, TotalOrder(S, R)
    PROVE  /\ Cardinality(S) \in Nat
           /\ SortedBy(S, R) \in Seq(S) /\ Len(SortedBy(S, R)) = Cardinality(S)
           /\ DOMAIN SortedBy(S, R) = 1 .. Cardinality(S)
           /\ \A m, n \in 1 .. Cardinality(S) : SortedBy(S, R)[m] = SortedBy(S, R)[n] => m = n
<1> DEFINE N == Cardinality(S)
           s == SortedBy(S, R)
           e(n) == CHOOSE a \in S : RankIn(S, R, a) = n - 1
<1>1. N \in Nat
  BY FS_CardinalityType
<1>2. s = [n \in 1 .. N |-> e(n)]
  BY DEF SortedBy, RankIn
<1>3. \A n \in 1 .. N : e(n) \in S /\ RankIn(S, R, e(n)) = n - 1
  BY EveryRank
<1> HIDE DEF e, s, N
<1>4. s \in [1 .. N -> S]
  BY <1>2, <1>3
<1>5. s \in Seq(S) /\ Len(s) = N /\ DOMAIN s = 1 .. N
  BY <1>1, <1>4
<1>6. \A m, n \in 1 .. N : s[m] = s[n] => m = n
  <2> SUFFICES ASSUME NEW m \in 1 .. N, NEW n \in 1 .. N, s[m] = s[n] PROVE m = n
    OBVIOUS
  <2>1. e(m) = e(n)
    BY <1>2
  <2>2. m - 1 = n - 1
    BY <1>3, <2>1
  <2> QED BY <1>1, <2>2
<1> QED BY <1>1, <1>5, <1>6 DEF s, N

-----------------------------------------------------------------------------
(* Totals.  A total is a number of coins: those of the values above 0 less *)
(* those of the values below.                                              *)

Coins(f, S)  == UNION {{x} \X (1 .. f[x]) : x \in S}
Debits(f, S) == UNION {{x} \X (1 .. -f[x]) : x \in S}
Worth(f, S)  == Cardinality(Coins(f, S)) - Cardinality(Debits(f, S))

LEMMA OnePile ==
    ASSUME NEW x, NEW v \in Int
    PROVE  /\ IsFiniteSet({x} \X (1 .. v))
           /\ Cardinality({x} \X (1 .. v)) = IF v >= 0 THEN v ELSE 0
<1>1. CASE v >= 0
  <2>1. v \in Nat
    BY <1>1
  <2>2. IsFiniteSet(1 .. v) /\ Cardinality(1 .. v) = v
    BY <2>1, FS_Interval
  <2>3. IsFiniteSet({x}) /\ Cardinality({x}) = 1
    BY FS_Singleton
  <2>4. IsFiniteSet({x} \X (1 .. v)) /\ Cardinality({x} \X (1 .. v)) = 1 * v
    BY <2>2, <2>3, FS_Product
  <2> QED BY <1>1, <2>1, <2>4
<1>2. CASE ~(v >= 0)
  <2>1. 1 .. v = {}
    BY <1>2
  <2>2. {x} \X (1 .. v) = {}
    BY <2>1
  <2> QED BY <1>2, <2>2, FS_EmptySet
<1> QED BY <1>1, <1>2

LEMMA PilesAdd ==
    ASSUME NEW C, IsFiniteSet(C), NEW D, IsFiniteSet(D), C \cap D = {}
    PROVE  /\ IsFiniteSet(C \cup D) /\ Cardinality(C) \in Nat /\ Cardinality(D) \in Nat
           /\ Cardinality(C \cup D) = Cardinality(C) + Cardinality(D)
<1>1. Cardinality(C) \in Nat /\ Cardinality(D) \in Nat /\ Cardinality(C \cap D) = 0
  BY FS_CardinalityType, FS_EmptySet
<1>2. IsFiniteSet(C \cup D)
      /\ Cardinality(C \cup D) = Cardinality(C) + Cardinality(D) - Cardinality(C \cap D)
  BY FS_Union
<1> QED BY <1>1, <1>2

LEMMA CoinsGrow ==
    ASSUME NEW S, NEW f \in [S -> Int], NEW t \in SUBSET S, NEW x \in t,
           IsFiniteSet(Coins(f, t \ {x})), IsFiniteSet(Debits(f, t \ {x}))
    PROVE  /\ IsFiniteSet(Coins(f, t)) /\ IsFiniteSet(Debits(f, t))
           /\ Worth(f, t) = f[x] + Worth(f, t \ {x})
<1> DEFINE c == {x} \X (1 .. f[x])
           d == {x} \X (1 .. -f[x])
           C == Coins(f, t \ {x})
           D == Debits(f, t \ {x})
<1>1. Coins(f, t) = C \cup c /\ C \cap c = {}
  BY DEF Coins
<1>2. Debits(f, t) = D \cup d /\ D \cap d = {}
  BY DEF Debits
<1>3. f[x] \in Int /\ -f[x] \in Int
  OBVIOUS
<1>4. /\ IsFiniteSet(c) /\ Cardinality(c) = IF f[x] >= 0 THEN f[x] ELSE 0
      /\ IsFiniteSet(d) /\ Cardinality(d) = IF -f[x] >= 0 THEN -f[x] ELSE 0
  BY <1>3, OnePile
<1> HIDE DEF c, d, C, D
<1>5. /\ IsFiniteSet(C \cup c) /\ Cardinality(C \cup c) = Cardinality(C) + Cardinality(c)
      /\ IsFiniteSet(D \cup d) /\ Cardinality(D \cup d) = Cardinality(D) + Cardinality(d)
      /\ Cardinality(C) \in Nat /\ Cardinality(D) \in Nat
  BY <1>1, <1>2, <1>4, PilesAdd DEF C, D
<1>6. Worth(f, t) = Cardinality(C \cup c) - Cardinality(D \cup d)
  BY <1>1, <1>2 DEF Worth
<1>7. Worth(f, t \ {x}) = Cardinality(C) - Cardinality(D)
  BY DEF Worth, C, D
<1> QED BY <1>1, <1>2, <1>3, <1>4, <1>5, <1>6, <1>7

LEMMA CoinsOfNone ==
    ASSUME NEW f
    PROVE  /\ Coins(f, {}) = {} /\ Debits(f, {}) = {} /\ Worth(f, {}) = 0
           /\ IsFiniteSet(Coins(f, {})) /\ IsFiniteSet(Debits(f, {}))
<1>1. Coins(f, {}) = {} /\ Debits(f, {}) = {}
  BY DEF Coins, Debits
<1> QED BY <1>1, FS_EmptySet DEF Worth

LEMMA SmallerParts ==
    ASSUME NEW S, IsFiniteSet(S)
    PROVE  /\ \A t \in SUBSET S : IsFiniteSet(t) /\ Cardinality(t) \in Nat
           /\ \A t \in SUBSET S : \A x \in t :
                 t \ {x} \in SUBSET S /\ Cardinality(t \ {x}) < Cardinality(t)
<1>1. \A t \in SUBSET S : IsFiniteSet(t) /\ Cardinality(t) \in Nat
  BY FS_Subset, FS_CardinalityType
<1>2. ASSUME NEW t \in SUBSET S, NEW x \in t
      PROVE  t \ {x} \in SUBSET S /\ Cardinality(t \ {x}) < Cardinality(t)
  <2>1. IsFiniteSet(t) /\ Cardinality(t) \in Nat
    BY <1>1
  <2>2. Cardinality(t \ {x}) = Cardinality(t) - 1
    BY <2>1, FS_RemoveElement
  <2> QED BY <2>1, <2>2
<1> QED BY <1>1, <1>2

LEMMA CoinsAreFinite ==
    ASSUME NEW S, IsFiniteSet(S), NEW f \in [S -> Int]
    PROVE  \A t \in SUBSET S : IsFiniteSet(Coins(f, t)) /\ IsFiniteSet(Debits(f, t))
<1> DEFINE G == {t \in SUBSET S : IsFiniteSet(Coins(f, t)) /\ IsFiniteSet(Debits(f, t))}
<1>1. ASSUME NEW t \in SUBSET S,
             \A u \in SUBSET S : Cardinality(u) < Cardinality(t) => u \in G
      PROVE  t \in G
  <2>1. CASE t = {}
    BY <2>1, CoinsOfNone
  <2>2. CASE t # {}
    <3> PICK x \in t : TRUE
      BY <2>2
    <3>1. t \ {x} \in G
      BY <1>1, SmallerParts
    <3> QED BY <3>1, CoinsGrow
  <2> QED BY <2>1, <2>2
<1>2. \A t \in SUBSET S : Cardinality(t) \in Nat
  BY SmallerParts
<1> HIDE DEF G
<1>3. SUBSET S \subseteq G
  BY <1>1, <1>2, SmallerSets
<1> QED BY <1>3 DEF G

(* A total is what its coins are worth. *)
LEMMA TotalIsWorth ==
    ASSUME NEW S, IsFiniteSet(S), NEW f \in [S -> Int]
    PROVE  TotalOf(f) = Worth(f, S) /\ TotalOf(f) \in Int
<1> DEFINE Iter(g) == g = [t \in SUBSET S |->
                            IF t = {} THEN 0
                            ELSE f[CHOOSE x \in t : TRUE] + g[t \ {CHOOSE x \in t : TRUE}]]
           it == CHOOSE g : Iter(g)
           w == [t \in SUBSET S |-> Worth(f, t)]
           G == {t \in SUBSET S : it[t] = Worth(f, t)}
<1>1. ASSUME NEW t \in SUBSET S, t # {}
      PROVE  /\ (CHOOSE x \in t : TRUE) \in t
             /\ Worth(f, t) = f[CHOOSE x \in t : TRUE] + Worth(f, t \ {CHOOSE x \in t : TRUE})
             /\ t \ {CHOOSE x \in t : TRUE} \in SUBSET S
  <2> DEFINE x == CHOOSE x \in t : TRUE
  <2>1. x \in t
    BY <1>1
  <2> HIDE DEF x
  <2>2. IsFiniteSet(Coins(f, t \ {x})) /\ IsFiniteSet(Debits(f, t \ {x}))
    BY CoinsAreFinite
  <2>3. Worth(f, t) = f[x] + Worth(f, t \ {x})
    BY <2>1, <2>2, CoinsGrow
  <2> QED BY <2>1, <2>3 DEF x
<1>2. Iter(w)
  BY <1>1, CoinsOfNone
<1>3. Iter(it)
  BY <1>2
<1>4. TotalOf(f) = it[S]
  <2>1. DOMAIN f = S
    OBVIOUS
  <2> QED BY <2>1 DEF TotalOf, FoldFunction, FoldFunctionOnSet, MapThenFoldSet
<1> HIDE DEF it, w
<1>5. ASSUME NEW t \in SUBSET S,
             \A u \in SUBSET S : Cardinality(u) < Cardinality(t) => u \in G
      PROVE  t \in G
  <2>1. CASE t = {}
    BY <1>3, <2>1, CoinsOfNone
  <2>2. CASE t # {}
    <3> DEFINE x == CHOOSE x \in t : TRUE
    <3>1. /\ x \in t /\ Worth(f, t) = f[x] + Worth(f, t \ {x})
          /\ it[t] = f[x] + it[t \ {x}]
      BY <1>1, <1>3, <2>2
    <3> HIDE DEF x
    <3>2. t \ {x} \in G
      BY <1>5, <3>1, SmallerParts
    <3> QED BY <3>1, <3>2
  <2> QED BY <2>1, <2>2
<1>6. \A t \in SUBSET S : Cardinality(t) \in Nat
  BY SmallerParts
<1> HIDE DEF G
<1>7. SUBSET S \subseteq G
  BY <1>5, <1>6, SmallerSets
<1>8. it[S] = Worth(f, S)
  BY <1>7 DEF G
<1>9. Worth(f, S) \in Int
  BY CoinsAreFinite, FS_CardinalityType DEF Worth
<1> QED BY <1>4, <1>8, <1>9

LEMMA DivDown ==
    ASSUME NEW x \in Int, NEW d \in Nat \ {0}
    PROVE  x \div d \in Int /\ (x \div d) * d \in Int /\ (x \div d) * d <= x
           /\ (x \div d) * d = d * (x \div d)
OBVIOUS
LEMMA MultMod ==
    ASSUME NEW k \in Int, NEW d \in Nat \ {0}
    PROVE  (k * d) % d = 0
OBVIOUS
LEMMA TimesLess ==
    ASSUME NEW a \in Int, NEW b \in Int, NEW m \in Nat, a <= b
    PROVE  a * m <= b * m /\ a * m \in Int /\ b * m \in Int
OBVIOUS
LEMMA SettingsNumbers ==
    /\ Settings.safeMin \in Int /\ Settings.fallbackMin \in Int /\ Settings.minOrder \in Int
    /\ Settings.maxPerOrder \in Int /\ Settings.roundingBuffer \in Int
    /\ Settings.cashTarget \in Int /\ Settings.cashMax \in Int /\ Settings.maxPosition \in Int
    /\ Settings.feeBps \in Int /\ 0 <= Settings.feeBps /\ Settings.feeBps <= 10000
<1>1. /\ Settings.safeMin \in Int /\ Settings.fallbackMin \in Int /\ Settings.minOrder \in Int
      /\ Settings.maxPerOrder \in Int /\ Settings.roundingBuffer \in Int
      /\ Settings.cashTarget \in Int /\ Settings.cashMax \in Int /\ Settings.maxPosition \in Int
  BY SettingsAssumption
<1>2. Settings.feeBps \in 0 .. 10000
  BY SettingsAssumption
<1> DEFINE g == Settings.feeBps
<1>4. g \in 0 .. 10000
  BY <1>2
<1> HIDE DEF g
<1>5. g \in Int /\ 0 <= g /\ g <= 10000
  BY <1>4
<1>3. Settings.feeBps \in Int /\ 0 <= Settings.feeBps /\ Settings.feeBps <= 10000
  BY <1>5 DEF g
<1> QED BY <1>1, <1>3

(* What is left of an amount after the fee buffer. *)
AfterFee(m, g) == (m * (10000 - g)) \div 10000

LEMMA FeeShare ==
    ASSUME NEW x \in Int, NEW g \in Int, 0 <= g, g <= 10000
    PROVE  /\ AfterFee(x, g) \in Int
           /\ x >= 0 => AfterFee(x, g) <= x
           /\ x < 0 => AfterFee(x, g) <= 0
<1> DEFINE k == 10000 - g
<1>1. k \in 0 .. 10000
  OBVIOUS
<1> HIDE DEF k
<1>2. x * k \in Int
  BY <1>1
<1>3. x >= 0 => x * k <= x * 10000
  BY <1>1
<1>4. x < 0 => x * k <= 0
  <2>1. (-x) * k = -(x * k)
    BY <1>1
  <2>2. x < 0 => (-x) * k >= 0
    <3> SUFFICES ASSUME x < 0 PROVE (-x) * k >= 0
      OBVIOUS
    <3>1. -x \in Nat /\ 0 <= -x /\ k \in Nat
      BY <1>1
    <3> HIDE <1>1
    <3>2. 0 * k <= (-x) * k
      BY <3>1, TimesLess
    <3> QED BY <3>1, <3>2
  <2> QED BY <1>2, <2>1, <2>2
<1>5. (x * k) \div 10000 \in Int /\ (x >= 0 => (x * k) \div 10000 <= x) /\ (x < 0 => (x * k) \div 10000 <= 0)
  BY <1>2, <1>3, <1>4
<1> QED BY <1>5 DEF k, AfterFee

-----------------------------------------------------------------------------
(* One order.  What the rules of a pair, the price and the spend of a buy do *)
(* to the quantity of an action.                                            *)

PairKnown(pair) ==
    /\ {pair.tick, pair.lot, pair.minQty, pair.maxQty, pair.scaleStep} \cup pair.totals \subseteq Nat
    /\ IsFiniteSet(pair.totals)
    /\ pair.kind \in {"pair", "absent", "odd", "error"}

RulesNumbers(r) == r.tick \in Int /\ r.lot \in Int /\ r.least \in Int /\ r.minQty \in Int /\ r.maxQty \in Int

LEMMA RulesOfPair ==
    ASSUME NEW pair, PairKnown(pair)
    PROVE  /\ RulesNumbers(resolve_boundary(pair).rules)
           /\ Usable(pair) => /\ resolve_boundary(pair).rules.tick \in Nat \ {0}
                              /\ resolve_boundary(pair).rules.lot \in Nat \ {0}
<1> DEFINE x == extract_rules(pair)
           b == resolve_boundary(pair)
<1>1. /\ Settings.safeMin \in Int /\ Settings.fallbackMin \in Int /\ Settings.minOrder \in Int
  BY SettingsAssumption
<1>2. /\ pair.tick \in Nat /\ pair.lot \in Nat /\ pair.minQty \in Nat /\ pair.maxQty \in Nat
      /\ pair.scaleStep \in Nat /\ pair.totals \subseteq Nat
  BY DEF PairKnown
<1>3. LotOf(pair) \in Nat
  BY <1>2 DEF LotOf
<1>4. MinNotionalOf(pair) \in Int
  <2>1. pair.totals # {} => Max(pair.totals) \in Int
    <3>1. pair.totals \subseteq Int /\ IsFiniteSet(pair.totals)
      BY <1>2 DEF PairKnown
    <3> QED BY <3>1, Extremes
  <2>2. safe_min_notional \in Int
    BY <1>1 DEF safe_min_notional, Greatest
  <2> QED BY <2>1, <2>2 DEF MinNotionalOf
<1>5. RulesNumbers(x)
  BY <1>2, <1>3, <1>4 DEF extract_rules, RulesNumbers
<1>6. RulesNumbers(fallback_rules) /\ RulesNumbers(NoRules)
  BY <1>1 DEF fallback_rules, NoRules, RulesNumbers
<1>7. \/ b.status = "ok" /\ b.rules = x /\ ParseStatus(pair) = "ok"
      \/ b.status = "fallback" /\ b.rules = fallback_rules
      \/ b.rules = NoRules /\ b.status = ParseStatus(pair) /\ b.status # "ok"
  BY DEF resolve_boundary, resolve_symbol_rules
<1>8. /\ ParseStatus(pair) # "fallback"
      /\ ParseStatus(pair) = "ok" => is_valid_rules(x)
  <2>1. CASE pair.kind = "error"
    BY <2>1 DEF ParseStatus
  <2>2. CASE pair.kind = "absent"
    BY <2>2 DEF ParseStatus
  <2>3. CASE pair.kind = "odd"
    BY <2>3 DEF ParseStatus
  <2>4. CASE pair.kind = "pair"
    BY <2>4 DEF ParseStatus
  <2> QED BY <2>1, <2>2, <2>3, <2>4 DEF PairKnown
<1> HIDE DEF x, b
<1>9. RulesNumbers(b.rules)
  BY <1>5, <1>6, <1>7
<1>10. Usable(pair) => b.rules.tick \in Nat \ {0} /\ b.rules.lot \in Nat \ {0}
  <2> SUFFICES ASSUME b.status \in {"ok", "fallback"}
               PROVE  b.rules.tick \in Nat \ {0} /\ b.rules.lot \in Nat \ {0}
    BY DEF Usable, b
  <2>1. CASE b.status = "ok" /\ b.rules = x /\ ParseStatus(pair) = "ok"
    BY <1>5, <1>8, <2>1 DEF is_valid_rules, RulesNumbers
  <2>2. CASE b.rules = fallback_rules
    BY <2>2 DEF fallback_rules
  <2> QED BY <1>7, <1>8, <2>1, <2>2
<1> QED BY <1>9, <1>10 DEF b

(* What a buy may spend is within its action and, if there is any, within the cash. *)
LEMMA SpendBound ==
    ASSUME NEW pf, pf.cash \in Int, NEW a, a.amount \in Nat, NEW left \in Int,
           NEW r, r.tick \in Nat \ {0}, r.lot \in Nat \ {0}, NEW price \in Nat \ {0}
    PROVE  LET spend == max_spend_after_buffers(pf, a, price, r, left)
           IN  spend \in Nat /\ spend <= a.amount /\ (spend > 0 => spend <= pf.cash)
<1> DEFINE L == {a.amount, pf.cash} \cup (IF left > 0 THEN {left} ELSE {})
                  \cup (IF Settings.maxPerOrder > 0 THEN {Settings.maxPerOrder} ELSE {})
           m == Min(L)
           fee == AfterFee(m, Settings.feeBps)
           buffer == rounding_buffer(price, r)
<1>1. Settings.maxPerOrder \in Int /\ Settings.roundingBuffer \in Int
      /\ Settings.feeBps \in Int /\ 0 <= Settings.feeBps /\ Settings.feeBps <= 10000
  BY SettingsNumbers
<1>2. m \in Int /\ m <= a.amount /\ m <= pf.cash
  <2> DEFINE c == IF left > 0 THEN left ELSE pf.cash
             d == IF Settings.maxPerOrder > 0 THEN Settings.maxPerOrder ELSE pf.cash
  <2>1. L = {a.amount, pf.cash, c, d} /\ c \in Int /\ d \in Int
    BY <1>1
  <2> HIDE DEF L, c, d
  <2>2. L \subseteq Int /\ L # {} /\ a.amount \in L /\ pf.cash \in L
    BY <2>1
  <2>3. IsFiniteSet(L)
    <3>1. IsFiniteSet({}) /\ IsFiniteSet({} \cup {a.amount})
      BY FS_EmptySet, FS_AddElement
    <3>2. IsFiniteSet(({} \cup {a.amount}) \cup {pf.cash})
      BY <3>1, FS_AddElement
    <3>3. IsFiniteSet((({} \cup {a.amount}) \cup {pf.cash}) \cup {c})
      BY <3>2, FS_AddElement
    <3>4. IsFiniteSet(((({} \cup {a.amount}) \cup {pf.cash}) \cup {c}) \cup {d})
      BY <3>3, FS_AddElement
    <3>5. L = ((({} \cup {a.amount}) \cup {pf.cash}) \cup {c}) \cup {d}
      BY <2>1
    <3> QED BY <3>4, <3>5
  <2>4. m \in L /\ \A y \in L : m <= y
    BY <2>2, <2>3, Extremes
  <2> HIDE DEF m
  <2> QED BY <2>2, <2>4
<1> HIDE DEF m
<1>3. fee \in Int /\ (m >= 0 => fee <= m) /\ (m < 0 => fee <= 0)
  <2> DEFINE g == Settings.feeBps
  <2>1. m \in Int /\ g \in Int /\ 0 <= g /\ g <= 10000
    BY <1>1, <1>2
  <2> HIDE DEF g
  <2>2. AfterFee(m, g) \in Int /\ (m >= 0 => AfterFee(m, g) <= m) /\ (m < 0 => AfterFee(m, g) <= 0)
    BY <2>1, FeeShare
  <2> QED BY <2>2 DEF g
<1>4. buffer \in Nat
  <2>1. price * r.lot \in Nat
    OBVIOUS
  <2>2. r.tick * r.lot \in Nat
    OBVIOUS
  <2> QED BY <1>1, <2>1, <2>2 DEF rounding_buffer, Greatest
<1> HIDE DEF fee, buffer
<1>5. Greatest(0, fee - buffer) \in Nat
      /\ Greatest(0, fee - buffer) <= a.amount
      /\ (Greatest(0, fee - buffer) > 0 => Greatest(0, fee - buffer) <= pf.cash)
  BY <1>2, <1>3, <1>4 DEF Greatest
<1>6. max_spend_after_buffers(pf, a, price, r, left) = Greatest(0, fee - buffer)
  BY DEF max_spend_after_buffers, AfterFee, fee, buffer, m
<1> QED BY <1>5, <1>6

LEMMA BuyQuantity ==
    ASSUME NEW r, r.lot \in Nat \ {0}, NEW spend \in Nat, NEW price \in Nat \ {0}
    PROVE  LET q == quantize_qty(r, spend \div price)
           IN  q \in Int /\ q * price <= spend /\ q % r.lot = 0
<1> DEFINE k == spend \div price
           q == (k \div r.lot) * r.lot
<1>1. k \in Int /\ k * price <= spend
  BY DivDown
<1> HIDE DEF k
<1>2. q \in Int /\ q <= k /\ k \div r.lot \in Int
  BY <1>1, DivDown
<1>3. q % r.lot = 0
  BY <1>2, MultMod
<1> HIDE DEF q
<1>4. q * price <= k * price /\ q * price \in Int /\ k * price \in Int
  BY <1>1, <1>2, TimesLess
<1>5. q * price <= spend
  BY <1>1, <1>4
<1> QED BY <1>2, <1>3, <1>5 DEF q, k, quantize_qty, RoundDown

LEMMA SellQuantity ==
    ASSUME NEW r, r.lot \in Nat \ {0}, NEW pf, NEW a, a.qty \in Int, pf.held[a.at] \in Int
    PROVE  LET q == resolve_sell_qty(pf, a, r)
           IN  /\ q \in Int /\ q <= a.qty /\ q % r.lot = 0
               /\ pf.held[a.at] > 0 => q <= pf.held[a.at]
<1> DEFINE k == Least(a.qty, Greatest(0, pf.held[a.at]))
           q == (k \div r.lot) * r.lot
<1>1. k \in Int /\ k <= a.qty /\ (pf.held[a.at] > 0 => k <= pf.held[a.at])
  BY DEF Least, Greatest
<1> HIDE DEF k
<1>2. q \in Int /\ q <= k /\ k \div r.lot \in Int
  BY <1>1, DivDown
<1>3. q % r.lot = 0
  BY <1>2, MultMod
<1> HIDE DEF q
<1>4. q <= a.qty /\ (pf.held[a.at] > 0 => q <= pf.held[a.at])
  BY <1>1, <1>2
<1> QED BY <1>2, <1>3, <1>4 DEF q, k, resolve_sell_qty, quantize_qty, RoundDown

(* What is known of every symbol with a price. *)
Known(pf) ==
    /\ pf.cash \in Int /\ DOMAIN pf.marks \subseteq Int /\ IsFiniteSet(DOMAIN pf.marks)
    /\ \A s \in DOMAIN pf.marks :
          pf.marks[s] \in Nat \ {0} /\ pf.held[s] \in Int /\ PairKnown(pf.pairs[s])

RawAction(pf) == [side : {"BUY", "SELL"}, at : DOMAIN pf.marks, amount : Nat \ {0}]
PlanAction(pf) == [side : {"BUY", "SELL"}, at : DOMAIN pf.marks, amount : Nat \ {0}, qty : Nat \ {0}]

(* An order that is sent, against the action it was built from. *)
OrderFits(pf, a, x) ==
    /\ x.price \in Nat \ {0} /\ x.qty \in Nat \ {0}
    /\ x.side = "BUY"  => x.qty * x.price <= a.amount /\ x.qty * x.price <= pf.cash
    /\ x.side = "SELL" => x.qty <= a.qty /\ x.qty <= pf.held[x.at]
    /\ x.qty * x.price >= resolve_boundary(pf.pairs[x.at]).rules.least
    /\ x.qty % resolve_boundary(pf.pairs[x.at]).rules.lot = 0

LEMMA NineAreFinite == IsFiniteSet(1 .. 9) /\ 1 .. 9 \subseteq Int
<1>1. 1 \in Int /\ 9 \in Int /\ 1 .. 9 \subseteq Int
  OBVIOUS
<1> QED BY <1>1, FS_Interval

LEMMA IntentFits ==
    ASSUME NEW pf, Known(pf), NEW lim, lim.offset \in Int, NEW a \in PlanAction(pf), NEW left \in Int
    PROVE  LET x == build_action_intent(pf, lim, a, left)
           IN  x.at = a.at /\ x.side = a.side /\ (x.skip = Nothing => OrderFits(pf, a, x))
<1> DEFINE r     == resolve_boundary(pf.pairs[a.at]).rules
           price == OrderPrice(pf, lim, a, r)
           spend == max_spend_after_buffers(pf, a, price, r, left)
           qty   == CASE price = 0 -> 0
                      [] price > 0 /\ a.side = "SELL" -> resolve_sell_qty(pf, a, r)
                      [] OTHER -> quantize_qty(r, spend \div price)
           c1 == ~Usable(pf.pairs[a.at])
           c2 == price = 0
           c3 == a.side = "BUY" /\ spend < Greatest(r.least, Settings.minOrder)
           c4 == a.side = "SELL" /\ pf.held[a.at] <= 0
           c5 == qty <= 0
           c6 == qty < r.minQty
           c7 == price * qty < r.least
           c8 == a.side = "SELL" /\ price * qty < Settings.minOrder
           c9 == ~validate_notional(r, price, qty)
           checks ==
             << <<c1, "rules_unavailable">>,
                <<c2, "price_rounds_to_zero">>,
                <<c3, "insufficient_notional_after_buffers">>,
                <<c4, "insufficient_inventory_free_qty">>,
                <<c5, "qty_rounds_to_zero">>,
                <<c6, "qty_below_min_qty_after_quantize">>,
                <<c7, "notional_below_min_total_after_quantize">>,
                <<c8, "notional_below_internal_min_after_quantize">>,
                <<c9, "max_qty">> >>
           failed == {i \in DOMAIN checks : checks[i][1]}
           x == build_action_intent(pf, lim, a, left)
<1>1. x = IF failed # {} THEN Skip(a, checks[Min(failed)][2])
          ELSE [side |-> a.side, at |-> a.at, price |-> price, qty |-> qty, skip |-> Nothing]
  BY DEF build_action_intent
<1> HIDE DEF x
<1>2. DOMAIN checks = 1 .. 9 /\ \A i \in 1 .. 9 : checks[i][2] # "none"
  <2> HIDE DEF c1, c2, c3, c4, c5, c6, c7, c8, c9
  <2> QED OBVIOUS
<1>3. failed = {} => ~c1 /\ ~c4 /\ ~c7 /\ ~c9
  <2> HIDE DEF c1, c2, c3, c4, c5, c6, c7, c8, c9
  <2>1. 1 \in DOMAIN checks /\ 4 \in DOMAIN checks /\ 7 \in DOMAIN checks /\ 9 \in DOMAIN checks
    BY <1>2
  <2>2. (checks[1][1] <=> c1) /\ (checks[4][1] <=> c4) /\ (checks[7][1] <=> c7) /\ (checks[9][1] <=> c9)
    OBVIOUS
  <2> HIDE DEF checks
  <2> QED BY <2>1, <2>2
<1>4. failed # {} => checks[Min(failed)][2] # Nothing
  <2> SUFFICES ASSUME failed # {} PROVE checks[Min(failed)][2] # "none"
    BY DEF Nothing
  <2> DEFINE Nine == 1 .. 9
  <2>3. IsFiniteSet(Nine) /\ Nine \subseteq Int
    BY NineAreFinite
  <2>4. DOMAIN checks = Nine
    BY <1>2
  <2>0. failed \in SUBSET Nine /\ failed \subseteq Int
    <3> HIDE DEF checks, Nine
    <3> QED BY <2>3, <2>4
  <2>1. IsFiniteSet(failed)
    <3> HIDE DEF failed, Nine
    <3> QED BY <2>0, <2>3, FS_Subset
  <2> HIDE DEF failed, checks
  <2>2. Min(failed) \in failed
    BY <2>0, <2>1, Extremes
  <2> QED BY <1>2, <2>0, <2>2
<1>5. x.at = a.at /\ x.side = a.side
  <2> HIDE DEF failed, checks, price, qty
  <2> QED BY <1>1 DEF Skip
<1>6. ASSUME x.skip = Nothing PROVE OrderFits(pf, a, x)
  <2>1. failed = {}
    <3> HIDE DEF failed, checks, price, qty
    <3> QED BY <1>1, <1>4, <1>6 DEF Skip
  <2>2. x.price = price /\ x.qty = qty
    <3> HIDE DEF failed, checks, price, qty
    <3> QED BY <1>1, <2>1
  <2>3. ~c1 /\ ~c4 /\ ~c7 /\ ~c9
    BY <1>3, <2>1
  <2> HIDE DEF checks, failed
  <2>4. /\ a.side \in {"BUY", "SELL"} /\ a.at \in DOMAIN pf.marks /\ a.amount \in Nat /\ a.qty \in Nat \ {0}
        /\ pf.marks[a.at] \in Nat \ {0} /\ pf.held[a.at] \in Int /\ PairKnown(pf.pairs[a.at])
        /\ pf.cash \in Int
    BY DEF PlanAction, Known
  <2>5. r.tick \in Nat \ {0} /\ r.lot \in Nat \ {0} /\ r.least \in Int
    BY <2>3, <2>4, RulesOfPair DEF RulesNumbers
  <2> HIDE DEF r
  <2>6. price > 0 /\ qty > 0
    <3> HIDE DEF price, qty
    <3> QED BY <2>3 DEF validate_notional
  <2>7. price \in Int
    <3> DEFINE p == (pf.marks[a.at] * (IF a.side = "BUY" THEN 10000 - lim.offset
                                                         ELSE 10000 + lim.offset)) \div 10000
    <3>1. p \in Int
      <4> DEFINE k == IF a.side = "BUY" THEN 10000 - lim.offset ELSE 10000 + lim.offset
      <4>1. k \in Int
        OBVIOUS
      <4> HIDE DEF k
      <4>2. pf.marks[a.at] * k \in Int
        BY <2>4, <4>1
      <4>3. (pf.marks[a.at] * k) \div 10000 \in Int
        BY <4>2
      <4> QED BY <4>3 DEF k
    <3> HIDE DEF p
    <3>2. (p \div r.tick) * r.tick \in Int
      BY <2>5, <3>1, DivDown
    <3> QED BY <3>2 DEF price, OrderPrice, quantize_price, RoundDown, p
  <2>8. price \in Nat \ {0}
    <3> HIDE DEF price
    <3> QED BY <2>6, <2>7
  <2> HIDE DEF price
  <2>9. CASE a.side = "BUY"
    <3>1. qty = quantize_qty(r, spend \div price)
      BY <2>8, <2>9
    <3>2. spend \in Nat /\ spend <= a.amount /\ (spend > 0 => spend <= pf.cash)
      BY <2>4, <2>5, <2>8, SpendBound
    <3> HIDE DEF spend, qty
    <3>3. qty \in Int /\ qty * price <= spend /\ qty % r.lot = 0
      BY <2>5, <2>8, <3>1, <3>2, BuyQuantity
    <3>4. qty \in Nat \ {0}
      BY <2>6, <3>3
    <3>5. qty * price \in Int /\ qty * price > 0
      <4>1. 1 * price <= qty * price /\ qty * price \in Int
        BY <2>8, <3>4, TimesLess
      <4> QED BY <2>8, <4>1
    <3>6. qty * price <= a.amount /\ qty * price <= pf.cash
      BY <2>4, <3>2, <3>3, <3>5
    <3>7. qty * price >= r.least
      <4>1. price * qty = qty * price
        BY <2>8, <3>4
      <4> QED BY <2>3, <2>5, <3>5, <4>1
    <3>8. x.side = "BUY" /\ x.at = a.at
      BY <1>5, <2>9
    <3> QED BY <2>2, <2>8, <3>3, <3>4, <3>6, <3>7, <3>8 DEF OrderFits, r
  <2>10. CASE a.side = "SELL"
    <3>1. qty = resolve_sell_qty(pf, a, r)
      BY <2>8, <2>10
    <3> HIDE DEF spend, qty
    <3>3. qty \in Int /\ qty <= a.qty /\ qty % r.lot = 0 /\ qty <= pf.held[a.at]
      BY <2>3, <2>4, <2>5, <2>10, <3>1, SellQuantity
    <3>4. qty \in Nat \ {0}
      BY <2>6, <3>3
    <3>5. qty * price \in Int
      BY <2>8, <3>4
    <3>7. qty * price >= r.least
      <4>1. price * qty = qty * price
        BY <2>8, <3>4
      <4> QED BY <2>3, <2>5, <3>5, <4>1
    <3>8. x.side = "SELL" /\ x.at = a.at
      BY <1>5, <2>10
    <3> QED BY <2>2, <2>8, <3>3, <3>4, <3>7, <3>8 DEF OrderFits, r
  <2> QED BY <2>4, <2>9, <2>10
<1> QED BY <1>5, <1>6 DEF x

-----------------------------------------------------------------------------
(* Actions.  There is one for each symbol, and those that are taken share the *)
(* turnover cap.                                                              *)

OnePerSymbol(S) == \A a, b \in S : a.at = b.at => a = b

LEMMA FewSymbols ==
    ASSUME NEW D, IsFiniteSet(D), NEW S, OnePerSymbol(S), \A a \in S : a.at \in D
    PROVE  IsFiniteSet(S) /\ Cardinality(S) \in Nat /\ Cardinality(S) <= Cardinality(D)
<1> DEFINE f == [a \in S |-> a.at]
<1>1. f \in [S -> D] /\ \A a, b \in S : f[a] = f[b] => a = b
  BY DEF OnePerSymbol
<1> HIDE DEF f
<1>2. f \in Injection(S, D)
  BY <1>1 DEF Injection, IsInjective
<1>3. IsFiniteSet(S) /\ Cardinality(S) <= Cardinality(D)
  BY <1>2, FS_Injection
<1> QED BY <1>3, FS_CardinalityType

(* Each action of a list with one action per symbol is of a symbol of its own. *)
OwnSymbols(s) == \A m, n \in DOMAIN s : s[m].at = s[n].at => m = n

LEMMA SortedSymbols ==
    ASSUME NEW S, IsFiniteSet(S), OnePerSymbol(S), NEW R, TotalOrder(S, R)
    PROVE  OwnSymbols(SortedBy(S, R))
<1> DEFINE s == SortedBy(S, R)
<1>1. s \in Seq(S) /\ Len(s) = Cardinality(S) /\ DOMAIN s = 1 .. Cardinality(S)
      /\ \A m, n \in 1 .. Cardinality(S) : s[m] = s[n] => m = n
  BY SortedList
<1> HIDE DEF s
<1>2. ASSUME NEW m \in DOMAIN s, NEW n \in DOMAIN s, s[m].at = s[n].at PROVE m = n
  <2>1. s[m] \in S /\ s[n] \in S
    BY <1>1
  <2>2. s[m] = s[n]
    BY <1>2, <2>1 DEF OnePerSymbol
  <2> QED BY <1>1, <2>2
<1> QED BY <1>2 DEF OwnSymbols, s

(* The target portfolio *)

LEMMA RawActions ==
    ASSUME NEW pf, Known(pf)
    PROVE  build_raw_actions(pf) \subseteq RawAction(pf) /\ OnePerSymbol(build_raw_actions(pf))
<1> DEFINE U == Universe(pf)
           v == [s \in U |-> Value(pf, s)]
           target == build_allocations(pf)
           delta == [s \in DOMAIN target |-> target[s] - Value(pf, s)]
<1>1. U \subseteq DOMAIN pf.marks
  BY DEF Universe
<1>2. IsFiniteSet(U)
  BY <1>1, FS_Subset DEF Known
<1> HIDE DEF U
<1>3. \A s \in U : Value(pf, s) \in Int
  <2> TAKE s \in U
  <2>1. pf.held[s] \in Int /\ pf.marks[s] \in Int
    BY <1>1 DEF Known
  <2>2. pf.held[s] * pf.marks[s] \in Int
    BY <2>1
  <2> QED BY <2>2 DEF Value
<1>4. Equity(pf) \in Int
  <2>1. v \in [U -> Int]
    BY <1>3
  <2> HIDE DEF v
  <2>2. TotalOf(v) \in Int
    BY <1>2, <2>1, TotalIsWorth
  <2>3. pf.cash \in Int
    BY DEF Known
  <2> QED BY <2>2, <2>3 DEF Equity, U, v
<1>5. DOMAIN target \subseteq U /\ \A s \in DOMAIN target : target[s] \in Int
  <2> DEFINE i == Greatest(0, Equity(pf) - cash_target)
             w == i \div Cardinality(U)
  <2>1. i \in Int
    BY <1>4, SettingsNumbers DEF Greatest, cash_target, Least
  <2> HIDE DEF i
  <2>2. target = IF i = 0 THEN <<>> ELSE [s \in U |-> Least(w, Settings.maxPosition)]
    BY DEF build_allocations, i, U
  <2>3. \A s \in U : Least(w, Settings.maxPosition) \in Int
    <3> TAKE s \in U
    <3>1. Cardinality(U) \in Nat /\ Cardinality(U) # 0
      BY <1>2, FS_CardinalityType, FS_EmptySet
    <3>2. w \in Int
      BY <2>1, <3>1, DivDown
    <3> HIDE DEF w
    <3> QED BY <3>2, SettingsNumbers DEF Least
  <2> HIDE DEF target, w
  <2>4. CASE i = 0
    BY <2>2, <2>4
  <2>5. CASE i # 0
    BY <2>2, <2>3, <2>5
  <2> QED BY <2>4, <2>5
<1> HIDE DEF target
<1>6. \A s \in DOMAIN delta : delta[s] \in Int /\ s \in DOMAIN pf.marks
  BY <1>1, <1>3, <1>5
<1> HIDE DEF delta
<1> DEFINE act(s) == [side |-> IF delta[s] < 0 THEN "SELL" ELSE "BUY", at |-> s,
                      amount |-> IF delta[s] < 0 THEN -delta[s] ELSE delta[s]]
           M == {x \in DOMAIN delta : delta[x] # 0}
<1>7. build_raw_actions(pf) = {act(s) : s \in M}
  BY DEF build_raw_actions, delta, target
<1>8. \A s \in M : act(s) \in RawAction(pf)
  <2> SUFFICES ASSUME NEW s \in M PROVE act(s) \in RawAction(pf)
    OBVIOUS
  <2> DEFINE d == delta[s]
  <2>1. d \in Int /\ d # 0 /\ s \in DOMAIN pf.marks
    BY <1>6
  <2> HIDE DEF d
  <2>2. (IF d < 0 THEN -d ELSE d) \in Nat \ {0}
    BY <2>1
  <2> QED BY <2>1, <2>2 DEF RawAction, d
<1>9. \A s \in M : act(s).at = s
  OBVIOUS
<1> HIDE DEF act, M
<1>10. OnePerSymbol({act(s) : s \in M})
  BY <1>9 DEF OnePerSymbol
<1> QED BY <1>7, <1>8, <1>10

LEMMA PlanOrder ==
    ASSUME NEW D, D \subseteq Int, NEW S, OnePerSymbol(S),
           \A a \in S : a.side \in {"BUY", "SELL"} /\ a.at \in D
    PROVE  /\ (\A a \in S : a.amount \in Int) => TotalOrder(S, {p \in S \X S : Before(p[1], p[2])})
           /\ TotalOrder(S, {p \in S \X S : Side(p[1]) < Side(p[2])
                                \/ (Side(p[1]) = Side(p[2]) /\ p[1].at < p[2].at)})
           /\ TotalOrder(S, {p \in S \X S : p[1].at < p[2].at})
<1>1. \A a \in S : Side(a) \in Int /\ a.at \in Int
  <2>1. \A a \in S : a.at \in Int
    BY Zenon
  <2>2. \A a \in S : Side(a) \in Int
    BY DEF Side
  <2> QED BY <2>1, <2>2
<1>2. \A a, b \in S : a.at = b.at => a = b
  BY DEF OnePerSymbol
<1>3. ASSUME \A a \in S : a.amount \in Int
      PROVE  TotalOrder(S, {p \in S \X S : Before(p[1], p[2])})
  BY <1>1, <1>2, <1>3 DEF TotalOrder, Before
<1>4. TotalOrder(S, {p \in S \X S : Side(p[1]) < Side(p[2])
                                \/ (Side(p[1]) = Side(p[2]) /\ p[1].at < p[2].at)})
  BY <1>1, <1>2 DEF TotalOrder
<1>5. TotalOrder(S, {p \in S \X S : p[1].at < p[2].at})
  BY <1>1, <1>2 DEF TotalOrder
<1> QED BY <1>3, <1>4, <1>5

-----------------------------------------------------------------------------
(* The turnover cap *)

Taken(pf) == [left : Int, out : SUBSET PlanAction(pf)]

LEMMA TakeIs ==
    ASSUME NEW pf, Known(pf), NEW acc \in Taken(pf), NEW a \in RawAction(pf)
    PROVE  \/ TakeTurnover(pf, acc, a) = acc
           \/ \E applied \in 1 .. acc.left :
                 /\ TakeTurnover(pf, acc, a).left = acc.left - applied
                 /\ TakeTurnover(pf, acc, a) \in Taken(pf)
                 /\ \/ TakeTurnover(pf, acc, a).out = acc.out
                    \/ \E x \in PlanAction(pf) :
                          /\ TakeTurnover(pf, acc, a).out = acc.out \cup {x}
                          /\ x.at = a.at /\ x.amount = applied
                          /\ x.qty * pf.marks[x.at] <= applied
<1> DEFINE applied == Least(a.amount, acc.left)
           mark == pf.marks[a.at]
           qty == applied \div mark
           x == [side |-> a.side, at |-> a.at, amount |-> applied, qty |-> qty]
           t == TakeTurnover(pf, acc, a)
<1>1. /\ acc.left \in Int /\ acc.out \in SUBSET PlanAction(pf)
      /\ a.side \in {"BUY", "SELL"} /\ a.at \in DOMAIN pf.marks /\ a.amount \in Nat \ {0}
  BY DEF Taken, RawAction
<1>2. mark \in Nat \ {0}
  BY <1>1 DEF Known
<1>3. t = IF acc.left <= 0 \/ applied < Settings.minOrder THEN acc
          ELSE [left |-> acc.left - applied, out |-> IF qty <= 0 THEN acc.out ELSE acc.out \cup {x}]
  BY DEF TakeTurnover, TurnoverLeft
<1> HIDE DEF t
<1>4. CASE acc.left <= 0 \/ applied < Settings.minOrder
  BY <1>3, <1>4 DEF t
<1>5. CASE ~(acc.left <= 0 \/ applied < Settings.minOrder)
  <2>1. applied \in 1 .. acc.left /\ applied \in Int
    BY <1>1, <1>5 DEF Least
  <2> HIDE DEF applied, mark
  <2>2. qty \in Int /\ qty * mark <= applied
    BY <1>2, <2>1, DivDown
  <2> HIDE DEF qty
  <2>3. qty > 0 => x \in PlanAction(pf)
    BY <1>1, <2>1, <2>2 DEF PlanAction
  <2>4. x.at = a.at /\ x.amount = applied /\ x.qty = qty
    OBVIOUS
  <2> HIDE DEF x
  <2>5. t.left = acc.left - applied /\ t.out = (IF qty <= 0 THEN acc.out ELSE acc.out \cup {x})
    BY <1>3, <1>5
  <2>6. acc.left - applied \in Int
    BY <1>1, <2>1
  <2>7. (IF qty <= 0 THEN acc.out ELSE acc.out \cup {x}) \in SUBSET PlanAction(pf)
    BY <1>1, <2>2, <2>3
  <2>8. t \in Taken(pf)
    BY <1>3, <1>5, <2>6, <2>7 DEF Taken
  <2>9. CASE qty <= 0
    BY <2>1, <2>5, <2>8, <2>9 DEF t
  <2>10. CASE ~(qty <= 0)
    <3>1. x \in PlanAction(pf) /\ t.out = acc.out \cup {x} /\ x.qty * pf.marks[x.at] <= applied
      BY <2>2, <2>3, <2>4, <2>5, <2>10 DEF mark
    <3> QED BY <2>1, <2>4, <2>5, <2>8, <3>1 DEF t
  <2> QED BY <2>9, <2>10
<1> QED BY <1>4, <1>5

LEMMA TurnoverFold ==
    ASSUME NEW pf, Known(pf), NEW cap \in Int, NEW s \in Seq(RawAction(pf))
    PROVE  \E h \in [0 .. Len(s) -> Taken(pf)] :
              /\ h[0] = [left |-> cap, out |-> {}] /\ WithinTurnover(pf, cap, s) = h[Len(s)].out
              /\ \A n \in 1 .. Len(s) : h[n] = TakeTurnover(pf, h[n - 1], s[n])
<1> DEFINE A == Taken(pf)
           N == Len(s)
           b == [left |-> cap, out |-> {}]
           F == [x \in A \X (1 .. N) |-> TakeTurnover(pf, x[1], s[x[2]])]
           Iter(g) == g = [t \in SUBSET (1 .. N) |->
                             IF t = {} THEN b ELSE TakeTurnover(pf, g[t \ {Max(t)}], s[Max(t)])]
           it == CHOOSE g : Iter(g)
<1>1. N \in Nat /\ DOMAIN s = 1 .. N
  OBVIOUS
<1>2. \A n \in 1 .. N : s[n] \in RawAction(pf)
  OBVIOUS
<1>3. b \in A
  BY DEF Taken
<1>4. WithinTurnover(pf, cap, s) = it[1 .. N].out
  BY <1>1 DEF WithinTurnover, FoldLeft, MapThenFoldSet
<1> HIDE DEF N, it
<1>5. \A acc \in A, n \in 1 .. N : TakeTurnover(pf, acc, s[n]) \in A
  <2> SUFFICES ASSUME NEW acc \in A, NEW n \in 1 .. N PROVE TakeTurnover(pf, acc, s[n]) \in A
    OBVIOUS
  <2>1. s[n] \in RawAction(pf)
    BY <1>2
  <2> QED BY <2>1, TakeIs
<1> HIDE DEF A, b
<1>6. F \in [A \X (1 .. N) -> A] /\ \A acc \in A, n \in 1 .. N : F[<<acc, n>>] = TakeTurnover(pf, acc, s[n])
  BY <1>5
<1> HIDE DEF F
<1>7. PICK g \in [SUBSET (1 .. N) -> A] : Iterates(g, F, b, N)
  BY <1>1, <1>3, <1>6, FoldExists
<1>8. \A t \in SUBSET (1 .. N) : t # {} => Max(t) \in t /\ Max(t) \in 1 .. N /\ t \ {Max(t)} \in SUBSET (1 .. N)
  BY <1>1, MaxIsIn
<1>9. \A t \in SUBSET (1 .. N) :
         g[t] = IF t = {} THEN b ELSE TakeTurnover(pf, g[t \ {Max(t)}], s[Max(t)])
  <2> TAKE t \in SUBSET (1 .. N)
  <2>1. g[t] = IF t = {} THEN b ELSE F[<<g[t \ {Max(t)}], Max(t)>>]
    BY <1>7 DEF Iterates
  <2>2. t # {} => g[t \ {Max(t)}] \in A /\ Max(t) \in 1 .. N
    BY <1>7, <1>8
  <2> QED BY <1>6, <2>1, <2>2
<1>10. Iter(g)
  BY <1>7, <1>9
<1>11. Iter(it)
  BY <1>10 DEF it
<1>12. it[{}] = b
  BY <1>11
<1>13. \A t \in SUBSET (1 .. N) :
          t # {} /\ it[t \ {Max(t)}] \in A => it[t] = F[<<it[t \ {Max(t)}], Max(t)>>]
  <2> SUFFICES ASSUME NEW t \in SUBSET (1 .. N), t # {}, it[t \ {Max(t)}] \in A
               PROVE  it[t] = F[<<it[t \ {Max(t)}], Max(t)>>]
    OBVIOUS
  <2>1. it[t] = TakeTurnover(pf, it[t \ {Max(t)}], s[Max(t)])
    BY <1>11
  <2> QED BY <1>6, <1>8, <2>1
<1> HIDE DEF Iter
<1>16. Follows(it, A, F, b, N)
  BY <1>12, <1>13, Zenon DEF Follows
<1>14. PICK h \in [0 .. N -> A] :
          Runs(h, it, F, b, N)
  BY <1>1, <1>3, <1>6, <1>16, FoldRuns
<1>15. \A n \in 1 .. N : h[n] = TakeTurnover(pf, h[n - 1], s[n])
  <2> TAKE n \in 1 .. N
  <2>1. h[n - 1] \in A
    BY <1>1, <1>14
  <2> QED BY <1>6, <1>14, <2>1 DEF Runs
<1> QED BY <1>4, <1>14, <1>15 DEF Runs, A, N, b

(* What the actions of out take from the turnover cap, unit by unit. *)
Spent(out) == UNION {{a.at} \X (1 .. a.amount) : a \in out}

(* After n actions of s. *)
WithinCap(pf, cap, s, acc, n) ==
    /\ IsFiniteSet(Spent(acc.out))
    /\ cap >= 0 => acc.left >= 0 /\ acc.left + Cardinality(Spent(acc.out)) <= cap
    /\ OnePerSymbol(acc.out)
    /\ \A x \in acc.out : x.qty * pf.marks[x.at] <= x.amount /\ \E m \in 1 .. n : s[m].at = x.at

LEMMA SpentMore ==
    ASSUME NEW out, IsFiniteSet(Spent(out)), NEW x, x.amount \in Nat, \A y \in out : y.at # x.at
    PROVE  /\ IsFiniteSet(Spent(out \cup {x})) /\ Cardinality(Spent(out)) \in Nat
           /\ Cardinality(Spent(out \cup {x})) = Cardinality(Spent(out)) + x.amount
<1> DEFINE p == {x.at} \X (1 .. x.amount)
           S == Spent(out)
<1>1. Spent(out \cup {x}) = S \cup p
  BY DEF Spent
<1>2. S \cap p = {}
  BY DEF Spent
<1>3. IsFiniteSet(p) /\ Cardinality(p) = x.amount
  <2> DEFINE v == x.amount
             c == x.at
  <2>1. v \in Int /\ v >= 0
    OBVIOUS
  <2> HIDE DEF v, c
  <2>2. IsFiniteSet({c} \X (1 .. v)) /\ Cardinality({c} \X (1 .. v)) = IF v >= 0 THEN v ELSE 0
    BY <2>1, OnePile
  <2>3. IsFiniteSet({c} \X (1 .. v)) /\ Cardinality({c} \X (1 .. v)) = v
    BY <2>1, <2>2
  <2> QED BY <2>3, Zenon DEF v, c, p
<1> HIDE DEF p, S
<1>4. IsFiniteSet(S)
  BY DEF S
<1>5. /\ IsFiniteSet(S \cup p) /\ Cardinality(S) \in Nat
      /\ Cardinality(S \cup p) = Cardinality(S) + Cardinality(p)
  BY <1>2, <1>3, <1>4, PilesAdd
<1> QED BY <1>1, <1>3, <1>5 DEF S

LEMMA TakeKeeps ==
    ASSUME NEW pf, Known(pf), NEW cap \in Int, NEW s \in Seq(RawAction(pf)), OwnSymbols(s),
           NEW n \in 1 .. Len(s), NEW acc \in Taken(pf), WithinCap(pf, cap, s, acc, n - 1)
    PROVE  WithinCap(pf, cap, s, TakeTurnover(pf, acc, s[n]), n)
<1> DEFINE a == s[n]
           t == TakeTurnover(pf, acc, a)
<1>1. /\ a \in RawAction(pf) /\ n \in DOMAIN s /\ n \in Nat
      /\ \A m \in 1 .. n - 1 : m \in DOMAIN s /\ m # n /\ m \in 1 .. n
  OBVIOUS
<1>2. \A x \in acc.out : x.at # a.at
  <2> SUFFICES ASSUME NEW x \in acc.out, x.at = a.at PROVE FALSE
    OBVIOUS
  <2>1. PICK m \in 1 .. n - 1 : s[m].at = x.at
    BY DEF WithinCap
  <2>2. s[m].at = s[n].at
    BY <2>1
  <2> QED BY <1>1, <2>2 DEF OwnSymbols
<1>3. \A x \in acc.out : x.qty * pf.marks[x.at] <= x.amount /\ \E m \in 1 .. n : s[m].at = x.at
  <2> TAKE x \in acc.out
  <2>1. PICK m \in 1 .. n - 1 : s[m].at = x.at
    BY DEF WithinCap
  <2>2. x.qty * pf.marks[x.at] <= x.amount
    BY DEF WithinCap
  <2> QED BY <1>1, <2>1, <2>2
<1>4. n \in 1 .. n /\ s[n].at = a.at
  BY <1>1
<1>5. acc.left \in Int /\ IsFiniteSet(Spent(acc.out)) /\ OnePerSymbol(acc.out)
      /\ (cap >= 0 => acc.left >= 0 /\ acc.left + Cardinality(Spent(acc.out)) <= cap)
      /\ Cardinality(Spent(acc.out)) \in Nat
  BY FS_CardinalityType DEF WithinCap, Taken
<1> HIDE DEF t, a
<1>6. CASE t = acc
  BY <1>3, <1>5, <1>6 DEF WithinCap, t, a
<1>7. CASE t # acc
  <2>1. PICK applied \in 1 .. acc.left :
           /\ t.left = acc.left - applied
           /\ t \in Taken(pf)
           /\ \/ t.out = acc.out
              \/ \E x \in PlanAction(pf) :
                    /\ t.out = acc.out \cup {x} /\ x.at = a.at /\ x.amount = applied
                    /\ x.qty * pf.marks[x.at] <= applied
    BY <1>1, <1>7, TakeIs DEF t
  <2>2. CASE t.out = acc.out
    <3>1. cap >= 0 => t.left >= 0 /\ t.left + Cardinality(Spent(t.out)) <= cap
      BY <1>5, <2>1, <2>2
    <3> QED BY <1>3, <1>5, <2>2, <3>1 DEF WithinCap, t, a
  <2>3. ASSUME NEW x \in PlanAction(pf), t.out = acc.out \cup {x}, x.at = a.at, x.amount = applied,
               x.qty * pf.marks[x.at] <= applied
        PROVE  WithinCap(pf, cap, s, t, n)
    <3>1. x.amount \in Nat
      BY DEF PlanAction
    <3>2. /\ IsFiniteSet(Spent(t.out))
          /\ Cardinality(Spent(t.out)) = Cardinality(Spent(acc.out)) + x.amount
      BY <1>2, <1>5, <2>3, <3>1, SpentMore
    <3>3. cap >= 0 => t.left >= 0 /\ t.left + Cardinality(Spent(t.out)) <= cap
      BY <1>5, <2>1, <2>3, <3>2
    <3>4. OnePerSymbol(t.out)
      BY <1>2, <1>5, <2>3 DEF OnePerSymbol
    <3>5. \A y \in t.out : y.qty * pf.marks[y.at] <= y.amount /\ \E m \in 1 .. n : s[m].at = y.at
      <4>1. x.qty * pf.marks[x.at] <= x.amount
        BY <2>3
      <4>2. \E m \in 1 .. n : s[m].at = x.at
        BY <1>4, <2>3
      <4>3. \A y \in t.out : y = x \/ y \in acc.out
        BY <2>3
      <4> QED BY <1>3, <4>1, <4>2, <4>3, Zenon
    <3> QED BY <3>2, <3>3, <3>4, <3>5 DEF WithinCap
  <2> QED BY <2>1, <2>2, <2>3 DEF t, a
<1> QED BY <1>6, <1>7

(* The actions that are taken stay within the cap together, and each of them within *)
(* what it took.                                                                    *)
LEMMA PlanSpends ==
    ASSUME NEW pf, Known(pf), NEW cap \in Int, NEW s \in Seq(RawAction(pf)), OwnSymbols(s)
    PROVE  LET out == WithinTurnover(pf, cap, s)
           IN  /\ out \subseteq PlanAction(pf) /\ OnePerSymbol(out)
               /\ IsFiniteSet(Spent(out)) /\ (cap >= 0 => Cardinality(Spent(out)) <= cap)
               /\ \A x \in out : x.qty * pf.marks[x.at] <= x.amount
<1>1. Len(s) \in Nat
  OBVIOUS
<1>2. PICK h \in [0 .. Len(s) -> Taken(pf)] :
         /\ h[0] = [left |-> cap, out |-> {}] /\ WithinTurnover(pf, cap, s) = h[Len(s)].out
         /\ \A n \in 1 .. Len(s) : h[n] = TakeTurnover(pf, h[n - 1], s[n])
  BY TurnoverFold
<1> DEFINE Good == {n \in 0 .. Len(s) : WithinCap(pf, cap, s, h[n], n)}
<1>3. 0 \in Good
  <2>1. h[0].left = cap /\ h[0].out = {}
    BY <1>2
  <2>2. Spent({}) = {}
    BY DEF Spent
  <2>3. IsFiniteSet(Spent({})) /\ Cardinality(Spent({})) = 0
    BY <2>2, FS_EmptySet
  <2>4. WithinCap(pf, cap, s, h[0], 0)
    BY <2>1, <2>3 DEF WithinCap, OnePerSymbol
  <2> QED BY <1>1, <2>4
<1>4. \A n \in 0 .. Len(s) - 1 : n \in Good => n + 1 \in Good
  <2> SUFFICES ASSUME NEW n \in 0 .. Len(s) - 1, n \in Good PROVE n + 1 \in Good
    OBVIOUS
  <2> DEFINE m == n + 1
  <2>1. m \in 1 .. Len(s) /\ m - 1 = n /\ m \in 0 .. Len(s) /\ n \in 0 .. Len(s)
    BY <1>1
  <2> HIDE DEF m
  <2>2. h[m] = TakeTurnover(pf, h[m - 1], s[m]) /\ h[m - 1] \in Taken(pf)
    BY <1>2, <2>1
  <2>3. WithinCap(pf, cap, s, h[m - 1], m - 1)
    BY <2>1
  <2>4. WithinCap(pf, cap, s, h[m], m)
    BY <2>1, <2>2, <2>3, TakeKeeps
  <2>5. m \in Good
    BY <2>1, <2>4
  <2> QED BY <2>5 DEF m
<1> HIDE DEF Good
<1>5. Len(s) \in Good
  <2>1. \A n \in 0 .. Len(s) : n \in Good
    BY <1>1, <1>3, <1>4, UpTo
  <2> QED BY <1>1, <2>1
<1>6. WithinCap(pf, cap, s, h[Len(s)], Len(s)) /\ h[Len(s)] \in Taken(pf)
  BY <1>2, <1>5 DEF Good
<1> DEFINE t == h[Len(s)]
<1>7. WithinCap(pf, cap, s, t, Len(s)) /\ t \in Taken(pf) /\ WithinTurnover(pf, cap, s) = t.out
  BY <1>2, <1>6
<1> HIDE DEF t
<1>8. t.left \in Int /\ (cap >= 0 => t.left >= 0 /\ t.left + Cardinality(Spent(t.out)) <= cap)
      /\ IsFiniteSet(Spent(t.out)) /\ t.out \subseteq PlanAction(pf) /\ OnePerSymbol(t.out)
      /\ \A x \in t.out : x.qty * pf.marks[x.at] <= x.amount
  BY <1>7 DEF WithinCap, Taken
<1>9. cap >= 0 => Cardinality(Spent(t.out)) <= cap
  BY <1>8, FS_CardinalityType
<1> QED BY <1>7, <1>8, <1>9

LEMMA FewPlaces ==
    ASSUME NEW k \in Nat, NEW s
    PROVE  /\ IsFiniteSet({s[i] : i \in 1 .. k}) /\ Cardinality({s[i] : i \in 1 .. k}) \in Nat
           /\ Cardinality({s[i] : i \in 1 .. k}) <= k
<1> DEFINE T == {s[i] : i \in 1 .. k}
           f == [i \in 1 .. k |-> s[i]]
<1>1. IsFiniteSet(1 .. k) /\ Cardinality(1 .. k) = k
  <2>1. 1 \in Int /\ k \in Int
    OBVIOUS
  <2>2. IsFiniteSet(1 .. k) /\ Cardinality(1 .. k) = IF 1 > k THEN 0 ELSE k - 1 + 1
    BY <2>1, FS_Interval
  <2> QED BY <2>2
<1>2. f \in Surjection(1 .. k, T)
  BY DEF Surjection
<1> HIDE DEF f, T
<1>3. IsFiniteSet(T) /\ Cardinality(T) <= k
  BY <1>1, <1>2, FS_Surjection
<1> QED BY <1>3, FS_CardinalityType DEF T

(* A plan keeps the turnover cap and the number of orders, and one made to reduce *)
(* risk sells.                                                                    *)
LEMMA PlanKeeps ==
    ASSUME NEW pf, Known(pf), NEW lim, lim.turnover \in Int, lim.orders \in Int, NEW mode
    PROVE  LET plan == build_plan(pf, lim, mode)
           IN  /\ plan \subseteq PlanAction(pf) /\ OnePerSymbol(plan)
               /\ IsFiniteSet(plan) /\ (lim.orders >= 0 => Cardinality(plan) <= lim.orders)
               /\ IsFiniteSet(Spent(plan)) /\ (lim.turnover >= 0 => Cardinality(Spent(plan)) <= lim.turnover)
               /\ \A x \in plan : x.qty * pf.marks[x.at] <= x.amount
               /\ mode = "REDUCE_RISK_ONLY" => \A x \in plan : x.side = "SELL"
<1> DEFINE cap == lim.turnover
           raw == build_raw_actions(pf)
           large == {a \in raw : a.amount >= Settings.minOrder}
           s == LargestFirst(large)
           within == WithinTurnover(pf, cap, s)
           sorted == LargestFirst(within)
           k == Least(Len(sorted), Greatest(0, lim.orders))
           kept == {sorted[i] : i \in 1 .. k}
           plan == build_plan(pf, lim, mode)
<1>0. IsFiniteSet(DOMAIN pf.marks) /\ DOMAIN pf.marks \subseteq Int
  BY DEF Known
<1>1. large \subseteq RawAction(pf) /\ OnePerSymbol(large)
  BY RawActions DEF OnePerSymbol
<1> HIDE DEF large, raw
<1>2. \A a \in large : a.at \in DOMAIN pf.marks /\ a.side \in {"BUY", "SELL"} /\ a.amount \in Int
  BY <1>1 DEF RawAction
<1>3. IsFiniteSet(large)
  BY <1>0, <1>1, <1>2, FewSymbols
<1>4. TotalOrder(large, {p \in large \X large : Before(p[1], p[2])})
  BY <1>0, <1>1, <1>2, PlanOrder
<1>5. s \in Seq(RawAction(pf)) /\ OwnSymbols(s)
  <2>1. s \in Seq(large) /\ OwnSymbols(s)
    BY <1>1, <1>3, <1>4, SortedList, SortedSymbols DEF LargestFirst
  <2> HIDE DEF s
  <2> QED BY <1>1, <2>1
<1> HIDE DEF s
<1>6. /\ within \subseteq PlanAction(pf) /\ OnePerSymbol(within)
      /\ IsFiniteSet(Spent(within)) /\ (cap >= 0 => Cardinality(Spent(within)) <= cap)
      /\ \A x \in within : x.qty * pf.marks[x.at] <= x.amount
  BY <1>5, PlanSpends
<1> HIDE DEF within
<1>7. \A a \in within : a.at \in DOMAIN pf.marks /\ a.side \in {"BUY", "SELL"} /\ a.amount \in Int
  BY <1>6 DEF PlanAction
<1>8. IsFiniteSet(within)
  BY <1>0, <1>6, <1>7, FewSymbols
<1>9. TotalOrder(within, {p \in within \X within : Before(p[1], p[2])})
  BY <1>0, <1>6, <1>7, PlanOrder
<1>10. sorted \in Seq(within) /\ DOMAIN sorted = 1 .. Len(sorted) /\ Len(sorted) \in Nat
  BY <1>8, <1>9, SortedList DEF LargestFirst
<1> HIDE DEF sorted
<1>11. k \in Nat /\ (lim.orders >= 0 => k <= lim.orders) /\ k <= Len(sorted)
  BY <1>10 DEF Least, Greatest
<1> HIDE DEF k
<1>12. kept \subseteq within
  BY <1>10, <1>11
<1>13. IsFiniteSet(kept) /\ Cardinality(kept) \in Nat /\ Cardinality(kept) <= k
  BY <1>11, FewPlaces
<1>14. plan = {a \in kept : mode # "OBSERVE_ONLY" /\ (mode = "REDUCE_RISK_ONLY" => a.side = "SELL")}
  BY DEF build_plan, apply_constraints, kept, k, sorted, within, s, large, raw
<1> HIDE DEF kept, plan
<1>15. plan \subseteq kept /\ plan \subseteq within
  BY <1>12, <1>14
<1>16. IsFiniteSet(plan) /\ Cardinality(plan) \in Nat /\ Cardinality(plan) <= Cardinality(kept)
  BY <1>13, <1>15, FS_Subset, FS_CardinalityType
<1>17. lim.orders >= 0 => Cardinality(plan) <= lim.orders
  BY <1>11, <1>13, <1>16
<1>18. IsFiniteSet(Spent(plan)) /\ (cap >= 0 => Cardinality(Spent(plan)) <= cap)
  <2>1. Spent(plan) \in SUBSET Spent(within)
    BY <1>15 DEF Spent
  <2>2. IsFiniteSet(Spent(plan)) /\ Cardinality(Spent(plan)) <= Cardinality(Spent(within))
    BY <1>6, <2>1, FS_Subset
  <2>3. Cardinality(Spent(plan)) \in Nat /\ Cardinality(Spent(within)) \in Nat
    BY <1>6, <2>2, FS_CardinalityType
  <2> QED BY <1>6, <2>2, <2>3
<1>19. OnePerSymbol(plan)
  BY <1>6, <1>15 DEF OnePerSymbol
<1>20. mode = "REDUCE_RISK_ONLY" => \A x \in plan : x.side = "SELL"
  BY <1>14
<1> QED BY <1>6, <1>15, <1>16, <1>17, <1>18, <1>19, <1>20 DEF plan

-----------------------------------------------------------------------------
(* The orders of a plan *)

Intents(pf, lim) == {build_action_intent(pf, lim, a, l) : a \in PlanAction(pf), l \in Int}
Built(pf, lim) == [left : Int, out : SUBSET Intents(pf, lim)]

LEMMA BuildType ==
    ASSUME NEW pf, Known(pf), NEW lim, lim.offset \in Int, NEW acc \in Built(pf, lim),
           NEW a \in PlanAction(pf)
    PROVE  /\ BuildIntent(pf, lim, acc, a) \in Built(pf, lim)
           /\ \E l \in Int : BuildIntent(pf, lim, acc, a).out
                               = acc.out \cup {build_action_intent(pf, lim, a, l)}
<1> DEFINE x == build_action_intent(pf, lim, a, acc.left)
           l == IF x.side = "BUY" /\ x.skip = Nothing /\ acc.left > 0
                  THEN Greatest(0, acc.left - x.price * x.qty) ELSE acc.left
<1>1. acc.left \in Int /\ acc.out \in SUBSET Intents(pf, lim)
  BY DEF Built
<1>2. x.skip = Nothing => x.price \in Nat /\ x.qty \in Nat
  BY <1>1, IntentFits DEF OrderFits
<1>3. x \in Intents(pf, lim)
  BY <1>1 DEF Intents
<1>4. BuildIntent(pf, lim, acc, a) = [left |-> l, out |-> acc.out \cup {x}]
  BY DEF BuildIntent
<1> HIDE DEF x
<1>5. l \in Int
  <2>1. CASE x.side = "BUY" /\ x.skip = Nothing /\ acc.left > 0
    <3>1. x.price * x.qty \in Int
      BY <1>2, <2>1
    <3> QED BY <1>1, <2>1, <3>1 DEF Greatest
  <2>2. CASE ~(x.side = "BUY" /\ x.skip = Nothing /\ acc.left > 0)
    BY <1>1, <2>2
  <2> QED BY <2>1, <2>2
<1> HIDE DEF l
<1>6. [left |-> l, out |-> acc.out \cup {x}] \in Built(pf, lim)
  BY <1>1, <1>3, <1>5 DEF Built
<1> QED BY <1>1, <1>4, <1>6 DEF x

LEMMA IntentFold ==
    ASSUME NEW pf, Known(pf), NEW lim, lim.offset \in Int, lim.turnover \in Int,
           NEW s \in Seq(PlanAction(pf))
    PROVE  \E h \in [0 .. Len(s) -> Built(pf, lim)] :
              /\ h[0] = [left |-> lim.turnover, out |-> {}] /\ IntentsInOrder(pf, lim, s) = h[Len(s)].out
              /\ \A n \in 1 .. Len(s) : h[n] = BuildIntent(pf, lim, h[n - 1], s[n])
<1> DEFINE A == Built(pf, lim)
           N == Len(s)
           b == [left |-> lim.turnover, out |-> {}]
           F == [x \in A \X (1 .. N) |-> BuildIntent(pf, lim, x[1], s[x[2]])]
           Iter(g) == g = [t \in SUBSET (1 .. N) |->
                             IF t = {} THEN b ELSE BuildIntent(pf, lim, g[t \ {Max(t)}], s[Max(t)])]
           it == CHOOSE g : Iter(g)
<1>1. N \in Nat /\ DOMAIN s = 1 .. N
  OBVIOUS
<1>2. \A n \in 1 .. N : s[n] \in PlanAction(pf)
  OBVIOUS
<1>3. b \in A
  BY DEF Built
<1>4. IntentsInOrder(pf, lim, s) = it[1 .. N].out
  BY <1>1 DEF IntentsInOrder, FoldLeft, MapThenFoldSet
<1> HIDE DEF N, it
<1>5. \A acc \in A, n \in 1 .. N : BuildIntent(pf, lim, acc, s[n]) \in A
  <2> SUFFICES ASSUME NEW acc \in A, NEW n \in 1 .. N PROVE BuildIntent(pf, lim, acc, s[n]) \in A
    OBVIOUS
  <2>1. s[n] \in PlanAction(pf)
    BY <1>2
  <2> QED BY <2>1, BuildType
<1> HIDE DEF A, b
<1>6. F \in [A \X (1 .. N) -> A] /\ \A acc \in A, n \in 1 .. N : F[<<acc, n>>] = BuildIntent(pf, lim, acc, s[n])
  BY <1>5
<1> HIDE DEF F
<1>7. PICK g \in [SUBSET (1 .. N) -> A] : Iterates(g, F, b, N)
  BY <1>1, <1>3, <1>6, FoldExists
<1>8. \A t \in SUBSET (1 .. N) : t # {} => Max(t) \in t /\ Max(t) \in 1 .. N /\ t \ {Max(t)} \in SUBSET (1 .. N)
  BY <1>1, MaxIsIn
<1>9. \A t \in SUBSET (1 .. N) :
         g[t] = IF t = {} THEN b ELSE BuildIntent(pf, lim, g[t \ {Max(t)}], s[Max(t)])
  <2> TAKE t \in SUBSET (1 .. N)
  <2>1. g[t] = IF t = {} THEN b ELSE F[<<g[t \ {Max(t)}], Max(t)>>]
    BY <1>7 DEF Iterates
  <2>2. t # {} => g[t \ {Max(t)}] \in A /\ Max(t) \in 1 .. N
    BY <1>7, <1>8
  <2> QED BY <1>6, <2>1, <2>2
<1>10. Iter(g)
  BY <1>7, <1>9
<1>11. Iter(it)
  BY <1>10 DEF it
<1>12. it[{}] = b
  BY <1>11
<1>13. \A t \in SUBSET (1 .. N) :
          t # {} /\ it[t \ {Max(t)}] \in A => it[t] = F[<<it[t \ {Max(t)}], Max(t)>>]
  <2> SUFFICES ASSUME NEW t \in SUBSET (1 .. N), t # {}, it[t \ {Max(t)}] \in A
               PROVE  it[t] = F[<<it[t \ {Max(t)}], Max(t)>>]
    OBVIOUS
  <2>1. it[t] = BuildIntent(pf, lim, it[t \ {Max(t)}], s[Max(t)])
    BY <1>11
  <2> QED BY <1>6, <1>8, <2>1
<1> HIDE DEF Iter
<1>16. Follows(it, A, F, b, N)
  BY <1>12, <1>13, Zenon DEF Follows
<1>14. PICK h \in [0 .. N -> A] : Runs(h, it, F, b, N)
  BY <1>1, <1>3, <1>6, <1>16, FoldRuns
<1>15. \A n \in 1 .. N : h[n] = BuildIntent(pf, lim, h[n - 1], s[n])
  <2> TAKE n \in 1 .. N
  <2>1. h[n - 1] \in A
    BY <1>1, <1>14
  <2> QED BY <1>6, <1>14, <2>1 DEF Runs
<1> QED BY <1>4, <1>14, <1>15 DEF Runs, A, N, b

(* After n actions of s. *)
BuiltFrom(pf, lim, s, out, n) ==
    /\ OnePerSymbol(out)
    /\ \A x \in out : \E m \in 1 .. n : \E l \in Int : x = build_action_intent(pf, lim, s[m], l)

LEMMA BuildKeeps ==
    ASSUME NEW pf, Known(pf), NEW lim, lim.offset \in Int, NEW s \in Seq(PlanAction(pf)), OwnSymbols(s),
           NEW n \in 1 .. Len(s), NEW acc \in Built(pf, lim), BuiltFrom(pf, lim, s, acc.out, n - 1)
    PROVE  BuiltFrom(pf, lim, s, BuildIntent(pf, lim, acc, s[n]).out, n)
<1>1. /\ s[n] \in PlanAction(pf) /\ n \in DOMAIN s /\ n \in 1 .. n
      /\ \A m \in 1 .. n - 1 : m \in DOMAIN s /\ m # n /\ m \in 1 .. n /\ s[m] \in PlanAction(pf)
  OBVIOUS
<1>2. PICK l \in Int : BuildIntent(pf, lim, acc, s[n]).out = acc.out \cup {build_action_intent(pf, lim, s[n], l)}
  BY <1>1, BuildType
<1> DEFINE x == build_action_intent(pf, lim, s[n], l)
           out == BuildIntent(pf, lim, acc, s[n]).out
<1>3. x.at = s[n].at
  BY <1>1, IntentFits
<1>4. \A y \in acc.out : y.at # x.at
  <2> SUFFICES ASSUME NEW y \in acc.out, y.at = x.at PROVE FALSE
    OBVIOUS
  <2>1. PICK m \in 1 .. n - 1 : \E k \in Int : y = build_action_intent(pf, lim, s[m], k)
    BY DEF BuiltFrom
  <2>2. y.at = s[m].at
    BY <1>1, <2>1, IntentFits
  <2> HIDE DEF x
  <2>3. s[m].at = s[n].at
    BY <1>3, <2>2
  <2> QED BY <1>1, <2>3 DEF OwnSymbols
<1>5. \A y \in acc.out : \E m \in 1 .. n : \E k \in Int : y = build_action_intent(pf, lim, s[m], k)
  <2> TAKE y \in acc.out
  <2>1. PICK m \in 1 .. n - 1 : \E k \in Int : y = build_action_intent(pf, lim, s[m], k)
    BY DEF BuiltFrom
  <2> QED BY <1>1, <2>1
<1>6. \E m \in 1 .. n : \E k \in Int : x = build_action_intent(pf, lim, s[m], k)
  BY <1>1
<1> HIDE DEF x
<1>7. out = acc.out \cup {x}
  BY <1>2 DEF x
<1> HIDE DEF out
<1>8. OnePerSymbol(out)
  BY <1>4, <1>7 DEF OnePerSymbol, BuiltFrom
<1>9. \A y \in out : \E m \in 1 .. n : \E k \in Int : y = build_action_intent(pf, lim, s[m], k)
  <2>1. \A y \in out : y = x \/ y \in acc.out
    BY <1>7
  <2> QED BY <1>5, <1>6, <2>1, Zenon
<1>10. BuiltFrom(pf, lim, s, out, n)
  BY <1>8, <1>9 DEF BuiltFrom
<1> QED BY <1>10 DEF out

(* Each intent is built from an action of the plan, one for each. *)
LEMMA IntentsOfPlan ==
    ASSUME NEW pf, Known(pf), NEW lim, lim.offset \in Int, lim.turnover \in Int,
           NEW plan \in SUBSET PlanAction(pf), IsFiniteSet(plan), OnePerSymbol(plan)
    PROVE  LET out == build_order_intents(pf, lim, plan)
           IN  /\ OnePerSymbol(out)
               /\ \A x \in out : \E a \in plan : \E l \in Int : x = build_action_intent(pf, lim, a, l)
<1> DEFINE s == SellsFirst(plan)
<1>1. s \in Seq(plan) /\ s \in Seq(PlanAction(pf)) /\ OwnSymbols(s)
  <2>1. DOMAIN pf.marks \subseteq Int
    BY DEF Known
  <2>2. \A a \in plan : a.side \in {"BUY", "SELL"} /\ a.at \in DOMAIN pf.marks
    BY DEF PlanAction
  <2>3. TotalOrder(plan, {p \in plan \X plan : Side(p[1]) < Side(p[2])
                               \/ (Side(p[1]) = Side(p[2]) /\ p[1].at < p[2].at)})
    BY <2>1, <2>2, PlanOrder
  <2>4. s \in Seq(plan) /\ OwnSymbols(s)
    BY <2>3, SortedList, SortedSymbols DEF SellsFirst
  <2> HIDE DEF s
  <2> QED BY <2>4
<1> HIDE DEF s
<1>2. Len(s) \in Nat
  BY <1>1
<1>3. PICK h \in [0 .. Len(s) -> Built(pf, lim)] :
         /\ h[0] = [left |-> lim.turnover, out |-> {}] /\ IntentsInOrder(pf, lim, s) = h[Len(s)].out
         /\ \A n \in 1 .. Len(s) : h[n] = BuildIntent(pf, lim, h[n - 1], s[n])
  BY <1>1, IntentFold
<1> DEFINE Good == {n \in 0 .. Len(s) : BuiltFrom(pf, lim, s, h[n].out, n)}
<1>4. 0 \in Good
  <2>1. h[0].out = {}
    BY <1>3
  <2>2. BuiltFrom(pf, lim, s, h[0].out, 0)
    BY <2>1 DEF BuiltFrom, OnePerSymbol
  <2> QED BY <1>2, <2>2
<1>5. \A n \in 0 .. Len(s) - 1 : n \in Good => n + 1 \in Good
  <2> SUFFICES ASSUME NEW n \in 0 .. Len(s) - 1, n \in Good PROVE n + 1 \in Good
    OBVIOUS
  <2> DEFINE m == n + 1
  <2>1. m \in 1 .. Len(s) /\ m - 1 = n /\ m \in 0 .. Len(s) /\ n \in 0 .. Len(s)
    BY <1>2
  <2> HIDE DEF m
  <2>2. h[m] = BuildIntent(pf, lim, h[m - 1], s[m]) /\ h[m - 1] \in Built(pf, lim)
    BY <1>3, <2>1
  <2>3. BuiltFrom(pf, lim, s, h[m - 1].out, m - 1)
    BY <2>1
  <2>4. BuiltFrom(pf, lim, s, h[m].out, m)
    BY <1>1, <2>1, <2>2, <2>3, BuildKeeps
  <2>5. m \in Good
    BY <2>1, <2>4
  <2> QED BY <2>5 DEF m
<1> HIDE DEF Good
<1>6. Len(s) \in Good
  <2>1. \A n \in 0 .. Len(s) : n \in Good
    BY <1>2, <1>4, <1>5, UpTo
  <2> QED BY <1>2, <2>1
<1> DEFINE out == h[Len(s)].out
<1>7. BuiltFrom(pf, lim, s, out, Len(s))
  BY <1>6 DEF Good
<1>8. build_order_intents(pf, lim, plan) = out
  BY <1>3 DEF build_order_intents, s
<1> HIDE DEF out
<1>9. \A x \in out : \E a \in plan : \E l \in Int : x = build_action_intent(pf, lim, a, l)
  <2> TAKE x \in out
  <2>1. PICK m \in 1 .. Len(s) : \E l \in Int : x = build_action_intent(pf, lim, s[m], l)
    BY <1>7 DEF BuiltFrom
  <2>2. s[m] \in plan
    BY <1>1
  <2> QED BY <2>1, <2>2
<1> QED BY <1>7, <1>8, <1>9 DEF BuiltFrom

-----------------------------------------------------------------------------
(* The caps of the risk decision *)

Filtered(held, caps, acc, a) == IF Accepts(a, Cardinality(acc), held, caps) THEN acc \cup {a} ELSE acc

(* h holds the orders that have passed after each of s. *)
Passing(h, s, held, caps) ==
    /\ h[0] = {} /\ filter_actions(s, held, caps) = h[Len(s)]
    /\ \A n \in 1 .. Len(s) : h[n] = Filtered(held, caps, h[n - 1], s[n])

LEMMA FilterFold ==
    ASSUME NEW T, NEW s \in Seq(T), NEW held, NEW caps
    PROVE  \E h \in [0 .. Len(s) -> SUBSET T] : Passing(h, s, held, caps)
<1> DEFINE A == SUBSET T
           N == Len(s)
           b == {}
           F == [x \in A \X (1 .. N) |-> Filtered(held, caps, x[1], s[x[2]])]
           Iter(g) == g = [t \in SUBSET (1 .. N) |->
                             IF t = {} THEN b ELSE Filtered(held, caps, g[t \ {Max(t)}], s[Max(t)])]
           it == CHOOSE g : Iter(g)
<1>1. N \in Nat /\ DOMAIN s = 1 .. N
  OBVIOUS
<1>2. \A n \in 1 .. N : s[n] \in T
  OBVIOUS
<1>3. b \in A
  OBVIOUS
<1>4. filter_actions(s, held, caps) = it[1 .. N]
  BY <1>1 DEF filter_actions, Filtered, FoldLeft, MapThenFoldSet
<1> HIDE DEF N, it
<1>5. \A acc \in A, n \in 1 .. N : Filtered(held, caps, acc, s[n]) \in A
  BY <1>2 DEF Filtered
<1> HIDE DEF A, b
<1>6. F \in [A \X (1 .. N) -> A] /\ \A acc \in A, n \in 1 .. N : F[<<acc, n>>] = Filtered(held, caps, acc, s[n])
  BY <1>5
<1> HIDE DEF F
<1>7. PICK g \in [SUBSET (1 .. N) -> A] : Iterates(g, F, b, N)
  BY <1>1, <1>3, <1>6, FoldExists
<1>8. \A t \in SUBSET (1 .. N) : t # {} => Max(t) \in t /\ Max(t) \in 1 .. N /\ t \ {Max(t)} \in SUBSET (1 .. N)
  BY <1>1, MaxIsIn
<1>9. \A t \in SUBSET (1 .. N) :
         g[t] = IF t = {} THEN b ELSE Filtered(held, caps, g[t \ {Max(t)}], s[Max(t)])
  <2> TAKE t \in SUBSET (1 .. N)
  <2>1. g[t] = IF t = {} THEN b ELSE F[<<g[t \ {Max(t)}], Max(t)>>]
    BY <1>7 DEF Iterates
  <2>2. t # {} => g[t \ {Max(t)}] \in A /\ Max(t) \in 1 .. N
    BY <1>7, <1>8
  <2> QED BY <1>6, <2>1, <2>2
<1>10. Iter(g)
  BY <1>7, <1>9
<1>11. Iter(it)
  BY <1>10 DEF it
<1>12. it[{}] = b
  BY <1>11
<1>13. \A t \in SUBSET (1 .. N) :
          t # {} /\ it[t \ {Max(t)}] \in A => it[t] = F[<<it[t \ {Max(t)}], Max(t)>>]
  <2> SUFFICES ASSUME NEW t \in SUBSET (1 .. N), t # {}, it[t \ {Max(t)}] \in A
               PROVE  it[t] = F[<<it[t \ {Max(t)}], Max(t)>>]
    OBVIOUS
  <2>1. it[t] = Filtered(held, caps, it[t \ {Max(t)}], s[Max(t)])
    BY <1>11
  <2> QED BY <1>6, <1>8, <2>1
<1> HIDE DEF Iter
<1>16. Follows(it, A, F, b, N)
  BY <1>12, <1>13, Zenon DEF Follows
<1>14. PICK h \in [0 .. N -> A] : Runs(h, it, F, b, N)
  BY <1>1, <1>3, <1>6, <1>16, FoldRuns
<1>15. \A n \in 1 .. N : h[n] = Filtered(held, caps, h[n - 1], s[n])
  <2> TAKE n \in 1 .. N
  <2>1. h[n - 1] \in A
    BY <1>1, <1>14
  <2> QED BY <1>6, <1>14, <2>1 DEF Runs
<1> QED BY <1>4, <1>14, <1>15 DEF Runs, Passing, A, N, b

(* No more orders pass than the decision has room for. *)
LEMMA FilterKeeps ==
    ASSUME NEW T, NEW s \in Seq(T), NEW held, NEW caps, caps.orders \in Int
    PROVE  LET out == filter_actions(s, held, caps)
           IN  out \subseteq T /\ IsFiniteSet(out) /\ (caps.orders >= 0 => Cardinality(out) <= caps.orders)
<1>1. Len(s) \in Nat
  OBVIOUS
<1>9. PICK h \in [0 .. Len(s) -> SUBSET T] : Passing(h, s, held, caps)
  BY FilterFold
<1>2. /\ h[0] = {} /\ filter_actions(s, held, caps) = h[Len(s)]
      /\ \A n \in 1 .. Len(s) : h[n] = Filtered(held, caps, h[n - 1], s[n])
  BY <1>9 DEF Passing
<1> DEFINE Good == {n \in 0 .. Len(s) : IsFiniteSet(h[n]) /\ (caps.orders >= 0 => Cardinality(h[n]) <= caps.orders)}
<1>3. 0 \in Good
  <2>1. IsFiniteSet({}) /\ Cardinality({}) = 0
    BY FS_EmptySet
  <2>2. h[0] = {}
    BY <1>2
  <2>3. IsFiniteSet(h[0]) /\ (caps.orders >= 0 => Cardinality(h[0]) <= caps.orders)
    BY <2>1, <2>2
  <2> QED BY <1>1, <2>3
<1>4. \A n \in 0 .. Len(s) - 1 : n \in Good => n + 1 \in Good
  <2> SUFFICES ASSUME NEW n \in 0 .. Len(s) - 1, n \in Good PROVE n + 1 \in Good
    OBVIOUS
  <2> DEFINE m == n + 1
             a == s[m]
             acc == h[n]
  <2>1. m \in 1 .. Len(s) /\ m - 1 = n /\ m \in 0 .. Len(s) /\ n \in 0 .. Len(s)
    BY <1>1
  <2> HIDE DEF m
  <2>2. h[m] = Filtered(held, caps, acc, a)
    BY <1>2, <2>1
  <2>3. IsFiniteSet(acc) /\ (caps.orders >= 0 => Cardinality(acc) <= caps.orders)
    BY <2>1
  <2> HIDE DEF a, acc
  <2>4. /\ Cardinality(acc) \in Nat /\ IsFiniteSet(acc \cup {a})
        /\ Cardinality(acc \cup {a}) <= Cardinality(acc) + 1
    <3>1. Cardinality(acc) \in Nat
      BY <2>3, FS_CardinalityType
    <3>2. IsFiniteSet(acc \cup {a})
          /\ Cardinality(acc \cup {a}) = IF a \in acc THEN Cardinality(acc) ELSE Cardinality(acc) + 1
      BY <2>3, FS_AddElement
    <3> QED BY <3>1, <3>2
  <2>5. IsFiniteSet(h[m]) /\ (caps.orders >= 0 => Cardinality(h[m]) <= caps.orders)
    <3>1. CASE Accepts(a, Cardinality(acc), held, caps)
      <4>1. Cardinality(acc) < caps.orders
        BY <3>1 DEF Accepts
      <4>2. h[m] = acc \cup {a}
        BY <2>2, <3>1 DEF Filtered
      <4>3. Cardinality(acc \cup {a}) \in Nat
        BY <2>4, FS_CardinalityType
      <4> QED BY <2>4, <4>1, <4>2, <4>3
    <3>2. CASE ~Accepts(a, Cardinality(acc), held, caps)
      BY <2>2, <2>3, <3>2 DEF Filtered
    <3> QED BY <3>1, <3>2
  <2>6. m \in Good
    BY <2>1, <2>5
  <2> QED BY <2>6 DEF m
<1> HIDE DEF Good
<1>5. Len(s) \in Good
  <2>1. \A n \in 0 .. Len(s) : n \in Good
    BY <1>1, <1>3, <1>4, UpTo
  <2> QED BY <1>1, <2>1
<1>6. h[Len(s)] \in SUBSET T /\ IsFiniteSet(h[Len(s)]) /\ (caps.orders >= 0 => Cardinality(h[Len(s)]) <= caps.orders)
  BY <1>1, <1>2, <1>5 DEF Good
<1> QED BY <1>2, <1>6

-----------------------------------------------------------------------------
(* From a portfolio to the orders of a cycle *)

Sent(pf, lim, mode, held, caps) ==
    filter_order_intents_by_risk(build_order_intents(pf, lim, build_plan(pf, lim, mode)), held, caps)

LEMMA OrdersOfPlan ==
    ASSUME NEW pf, Known(pf), NEW lim, lim.turnover \in Int, lim.orders \in Int, lim.offset \in Int,
           NEW mode, NEW held, NEW caps, caps.orders \in Int
    PROVE  LET sent == Sent(pf, lim, mode, held, caps)
               plan == build_plan(pf, lim, mode)
           IN  /\ OnePerSymbol(sent) /\ IsFiniteSet(sent)
               /\ lim.orders >= 0 => Cardinality(sent) <= lim.orders
               /\ caps.orders >= 0 => Cardinality(sent) <= caps.orders
               /\ \A o \in sent : \E a \in plan : o.at = a.at /\ o.side = a.side /\ OrderFits(pf, a, o)
<1> DEFINE plan == build_plan(pf, lim, mode)
           all == build_order_intents(pf, lim, plan)
           ready == {a \in all : a.skip = Nothing}
           s == KernelOrder(ready)
           sent == filter_actions(s, held, caps)
<1>1. /\ plan \in SUBSET PlanAction(pf) /\ OnePerSymbol(plan) /\ IsFiniteSet(plan)
      /\ (lim.orders >= 0 => Cardinality(plan) <= lim.orders)
  BY PlanKeeps
<1>2. IsFiniteSet(DOMAIN pf.marks) /\ DOMAIN pf.marks \subseteq Int
  BY DEF Known
<1>3. Sent(pf, lim, mode, held, caps) = sent
  BY DEF Sent, filter_order_intents_by_risk
<1> HIDE DEF plan
<1>4. /\ OnePerSymbol(all)
      /\ \A x \in all : \E a \in plan : \E l \in Int : x = build_action_intent(pf, lim, a, l)
  <2>1. lim.turnover \in Int
    OBVIOUS
  <2> QED BY <1>1, <2>1, IntentsOfPlan
<1> HIDE DEF all
<1>5. ASSUME NEW x \in all
      PROVE  \E a \in plan : x.at = a.at /\ x.side = a.side /\ (x.skip = Nothing => OrderFits(pf, a, x))
  <2>1. PICK a \in plan : \E l \in Int : x = build_action_intent(pf, lim, a, l)
    BY <1>4
  <2>2. PICK l \in Int : x = build_action_intent(pf, lim, a, l)
    BY <2>1
  <2>3. a \in PlanAction(pf)
    BY <1>1
  <2>4. x.at = a.at /\ x.side = a.side /\ (x.skip = Nothing => OrderFits(pf, a, x))
    BY <2>2, <2>3, IntentFits
  <2> QED BY <2>4
<1>6. \A x \in ready : \E a \in plan : x.at = a.at /\ x.side = a.side /\ OrderFits(pf, a, x)
  BY <1>5
<1>7. OnePerSymbol(ready)
  BY <1>4 DEF OnePerSymbol
<1> HIDE DEF ready
<1>8. \A x \in ready : x.at \in DOMAIN pf.marks /\ x.side \in {"BUY", "SELL"}
  <2> TAKE x \in ready
  <2>1. PICK a \in plan : x.at = a.at /\ x.side = a.side
    BY <1>6
  <2>2. a \in PlanAction(pf)
    BY <1>1
  <2> QED BY <2>1, <2>2 DEF PlanAction
<1>9. IsFiniteSet(ready) /\ TotalOrder(ready, {p \in ready \X ready : p[1].at < p[2].at})
  BY <1>2, <1>7, <1>8, FewSymbols, PlanOrder
<1>10. s \in Seq(ready)
  BY <1>9, SortedList DEF KernelOrder
<1> HIDE DEF s
<1>11. sent \subseteq ready /\ IsFiniteSet(sent) /\ (caps.orders >= 0 => Cardinality(sent) <= caps.orders)
  BY <1>10, FilterKeeps
<1> HIDE DEF sent
<1>12. OnePerSymbol(sent)
  BY <1>7, <1>11 DEF OnePerSymbol
<1>13. \A o \in sent : \E a \in plan : o.at = a.at /\ o.side = a.side /\ OrderFits(pf, a, o)
  BY <1>6, <1>11
<1>14. Cardinality(sent) <= Cardinality(plan)
  <2> DEFINE f == [o \in sent |-> CHOOSE a \in plan : a.at = o.at]
  <2>1. \A o \in sent : f[o] \in plan /\ f[o].at = o.at
    <3> TAKE o \in sent
    <3>1. \E a \in plan : a.at = o.at
      BY <1>13
    <3> QED BY <3>1
  <2>2. f \in [sent -> plan]
    BY <2>1
  <2> HIDE DEF f
  <2>3. \A o, p \in sent : f[o] = f[p] => o = p
    <3> SUFFICES ASSUME NEW o \in sent, NEW p \in sent, f[o] = f[p] PROVE o = p
      OBVIOUS
    <3>1. f[o].at = o.at /\ f[p].at = p.at
      BY <2>1
    <3>2. o.at = p.at
      BY <3>1
    <3> QED BY <1>12, <3>2 DEF OnePerSymbol
  <2>4. f \in Injection(sent, plan)
    BY <2>2, <2>3 DEF Injection, IsInjective
  <2> QED BY <1>1, <2>4, FS_Injection
<1>15. lim.orders >= 0 => Cardinality(sent) <= lim.orders
  <2>1. Cardinality(sent) \in Nat /\ Cardinality(plan) \in Nat
    BY <1>1, <1>11, FS_CardinalityType
  <2> QED BY <1>1, <1>14, <2>1
<1> QED BY <1>3, <1>11, <1>12, <1>13, <1>15 DEF plan

(* What an order takes from the turnover: a buy at its price, a sell at the mark. *)
Cost(pf, o) == o.qty * (IF o.side = "BUY" THEN o.price ELSE pf.marks[o.at])

LEMMA CostsLess ==
    ASSUME NEW pf, Known(pf), NEW a \in PlanAction(pf), a.qty * pf.marks[a.at] <= a.amount,
           NEW o, o.at = a.at, o.side = a.side, OrderFits(pf, a, o)
    PROVE  Cost(pf, o) \in Int /\ Cost(pf, o) <= a.amount
<1>1. /\ a.side \in {"BUY", "SELL"} /\ a.at \in DOMAIN pf.marks /\ a.amount \in Nat /\ a.qty \in Nat
      /\ pf.marks[a.at] \in Nat
  BY DEF PlanAction, Known
<1>2. o.price \in Nat /\ o.qty \in Nat
  BY DEF OrderFits
<1> DEFINE mark == pf.marks[a.at]
           q == o.qty
           c == o.price
<1>3. CASE a.side = "BUY"
  <2>1. q * c <= a.amount
    BY <1>3 DEF OrderFits
  <2> HIDE DEF q, c
  <2>2. q * c \in Int
    BY <1>2 DEF q, c
  <2> USE DEF q, c
  <2> QED BY <1>3, <2>1, <2>2 DEF Cost
<1>4. CASE a.side = "SELL"
  <2>1. q <= a.qty
    BY <1>4 DEF OrderFits
  <2>2. mark \in Nat /\ q \in Int /\ a.qty \in Int
    BY <1>1, <1>2
  <2>3. a.qty * mark <= a.amount
    OBVIOUS
  <2>4. Cost(pf, o) = q * mark
    BY <1>4 DEF Cost
  <2> DEFINE k == a.qty
  <2>5. k \in Int /\ q <= k /\ k * mark <= a.amount
    BY <2>1, <2>2, <2>3
  <2> HIDE DEF mark, q, k
  <2>6. q * mark <= k * mark /\ q * mark \in Int /\ k * mark \in Int
    BY <2>2, <2>5, TimesLess
  <2>7. q * mark <= a.amount
    BY <1>1, <2>5, <2>6
  <2> QED BY <2>4, <2>6, <2>7
<1> QED BY <1>1, <1>3, <1>4

(* Together the orders of a cycle cost no more than its plan may spend. *)
LEMMA OrdersCost ==
    ASSUME NEW pf, Known(pf), NEW plan \in SUBSET PlanAction(pf), IsFiniteSet(Spent(plan)),
           \A a \in plan : a.qty * pf.marks[a.at] <= a.amount,
           NEW sent, IsFiniteSet(sent), OnePerSymbol(sent),
           \A o \in sent : \E a \in plan : o.at = a.at /\ o.side = a.side /\ OrderFits(pf, a, o)
    PROVE  TotalOf([o \in sent |-> Cost(pf, o)]) <= Cardinality(Spent(plan))
<1> DEFINE f == [o \in sent |-> Cost(pf, o)]
           C == Coins(f, sent)
           g == [c \in C |-> <<c[1].at, c[2]>>]
<1>1. \A o \in sent : Cost(pf, o) \in Int /\ \E a \in plan : o.at = a.at /\ Cost(pf, o) <= a.amount
  <2> TAKE o \in sent
  <2>1. PICK a \in plan : o.at = a.at /\ o.side = a.side /\ OrderFits(pf, a, o)
    OBVIOUS
  <2>2. Cost(pf, o) \in Int /\ Cost(pf, o) <= a.amount
    BY <2>1, CostsLess
  <2> QED BY <2>1, <2>2
<1>2. f \in [sent -> Int]
  BY <1>1
<1>3. \A o \in sent : f[o] = Cost(pf, o)
  OBVIOUS
<1> HIDE DEF f
<1>4. TotalOf(f) = Worth(f, sent)
  BY <1>2, TotalIsWorth
<1>5. IsFiniteSet(C) /\ IsFiniteSet(Debits(f, sent))
  <2>1. sent \in SUBSET sent
    OBVIOUS
  <2> QED BY <1>2, <2>1, CoinsAreFinite
<1>6. \A c \in C : c[1] \in sent /\ c[2] \in 1 .. f[c[1]] /\ c = <<c[1], c[2]>>
  BY DEF Coins
<1> HIDE DEF C
<1>7. \A c \in C : <<c[1].at, c[2]>> \in Spent(plan)
  <2> TAKE c \in C
  <2> DEFINE o == c[1]
             u == c[2]
  <2>1. o \in sent /\ u \in 1 .. f[o]
    BY <1>6
  <2> HIDE DEF o, u
  <2>2. PICK a \in plan : o.at = a.at /\ Cost(pf, o) <= a.amount
    BY <1>1, <2>1
  <2>3. f[o] \in Int /\ f[o] <= a.amount /\ a.amount \in Int
    BY <1>1, <1>3, <2>1, <2>2 DEF PlanAction
  <2>4. u \in 1 .. a.amount
    BY <2>1, <2>3
  <2>5. <<a.at, u>> \in Spent(plan)
    BY <2>4 DEF Spent
  <2> QED BY <2>2, <2>5 DEF o, u
<1>8. g \in [C -> Spent(plan)]
  BY <1>7
<1>9. \A c, d \in C : g[c] = g[d] => c = d
  <2> SUFFICES ASSUME NEW c \in C, NEW d \in C, g[c] = g[d] PROVE c = d
    OBVIOUS
  <2>1. c[1].at = d[1].at /\ c[2] = d[2]
    OBVIOUS
  <2>2. c[1] = d[1]
    BY <1>6, <2>1 DEF OnePerSymbol
  <2> QED BY <1>6, <2>1, <2>2
<1> HIDE DEF g
<1>10. g \in Injection(C, Spent(plan))
  BY <1>8, <1>9 DEF Injection, IsInjective
<1>11. Cardinality(C) <= Cardinality(Spent(plan))
  BY <1>10, FS_Injection
<1>12. Cardinality(C) \in Nat /\ Cardinality(Debits(f, sent)) \in Nat /\ Cardinality(Spent(plan)) \in Nat
  BY <1>5, FS_CardinalityType
<1>13. TotalOf(f) = Cardinality(C) - Cardinality(Debits(f, sent))
  BY <1>4 DEF Worth, C
<1>14. TotalOf(f) <= Cardinality(Spent(plan))
  BY <1>11, <1>12, <1>13
<1> QED BY <1>14 DEF f


-----------------------------------------------------------------------------
(* What a Stage-7 cycle works with: the rows of its parameters, whatever    *)
(* the seed was, and what it sees.                                          *)

(* A row whose limits are no debts unless the seed's are. *)
GoodRow ==
    {p \in RawRow : /\ Seed.turnover >= 0 => p.turnover >= 0
                    /\ Seed.orders >= 0 => p.orders >= 0}

RowsInv ==
    /\ IsFiniteSet(DOMAIN checkpoints)
    /\ \A v \in DOMAIN checkpoints : v \in Int /\ checkpoints[v].params \in GoodRow
    /\ params # NoParams => params \in GoodRow /\ params.version \in DOMAIN checkpoints

LEMMA SeedIsGood == Seed \in GoodRow
<1>1. Seed \in [version : Nat, size : Int, offset : Int, turnover : Int, orders : Int,
                spread : Int, volume : Int] /\ Seed.version = 1
  BY Stage7Assumption DEF Stage7Assumption
<1>2. Seed \in RawRow
  BY <1>1 DEF RawRow
<1> QED BY <1>2 DEF GoodRow

LEMMA ProposalGood ==
    ASSUME NEW p \in GoodRow, NEW c \in Int, NEW recent
    PROVE  propose_update(recent, p, c) \in GoodRow
<1> DEFINE q == propose_update(recent, p, c)
<1>1. p \in RawRow
  BY DEF GoodRow
<1>2. q # p => q \in ParamRow /\ q.orders >= 1
  BY <1>1, ProposalCap
<1> HIDE DEF q
<1>3. CASE q = p
  BY <1>3 DEF q
<1>4. CASE q # p
  <2>1. q \in RawRow
    BY <1>2, <1>4, RowIsRaw
  <2>2. q.turnover \in Nat /\ q.orders \in Int
    BY <1>2, <1>4 DEF ParamRow
  <2> DEFINE t == q.turnover
             o == q.orders
  <2>3. t \in Nat /\ o \in Int /\ o >= 1
    BY <1>2, <1>4, <2>2
  <2> HIDE DEF t, o
  <2>4. t >= 0 /\ o >= 0
    BY <2>3
  <2> QED BY <2>1, <2>4 DEF GoodRow, t, o, q
<1> QED BY <1>3, <1>4

LEMMA RowsSet ==
    ASSUME RowsInv, NEW p \in GoodRow, set_active_stage7_params(p) PROVE RowsInv'
<1>1. params' = p /\ checkpoints' = WithCheckpoint(p.version, Checkpoint(p, TRUE))
  BY DEF set_active_stage7_params
<1>2. p.version \in Int
  BY DEF GoodRow, RawRow
<1> DEFINE n == p.version
<1>3. DOMAIN checkpoints' = DOMAIN checkpoints \cup {n}
  BY <1>1 DEF WithCheckpoint
<1>4. checkpoints'[n].params = p
  BY <1>1 DEF WithCheckpoint, Checkpoint
<1>5. \A v \in DOMAIN checkpoints : v # n => checkpoints'[v] = checkpoints[v]
  BY <1>1 DEF WithCheckpoint
<1> HIDE DEF n
<1>6. IsFiniteSet(DOMAIN checkpoints')
  BY <1>3, FS_AddElement DEF RowsInv
<1>7. \A v \in DOMAIN checkpoints' : v \in Int /\ checkpoints'[v].params \in GoodRow
  <2> TAKE v \in DOMAIN checkpoints'
  <2>1. CASE v = n
    BY <1>2, <1>4, <2>1 DEF n
  <2>2. CASE v # n
    BY <1>3, <1>5, <2>2 DEF RowsInv
  <2> QED BY <2>1, <2>2
<1>8. params'.version \in DOMAIN checkpoints'
  BY <1>1, <1>3 DEF n
<1> QED BY <1>1, <1>6, <1>7, <1>8 DEF RowsInv

LEMMA RowsKept ==
    ASSUME RowsInv, UNCHANGED <<params, checkpoints>> PROVE RowsInv'
BY DEF RowsInv

LEMMA RowsStep == ASSUME S7Inv, RowsInv, [Next]_vars PROVE RowsInv'
<1>1. CASE UNCHANGED <<params, checkpoints>>
  BY <1>1, RowsKept
<1>2. CASE \E in \in load.sights : S7Begin(in)
  <2>1. get_active_stage7_params
    BY <1>2 DEF S7Begin
  <2>2. CASE params = NoParams
    <3>1. set_active_stage7_params(Seed)
      <4>1. params' = Seed /\ checkpoints' = WithCheckpoint(1, Checkpoint(Seed, TRUE))
        BY <2>1, <2>2, Zenon DEF get_active_stage7_params, ActiveParams
      <4>2. Seed.version = 1
        BY Stage7Assumption DEF Stage7Assumption
      <4> QED BY <4>1, <4>2, Zenon DEF set_active_stage7_params
    <3> QED BY <3>1, SeedIsGood, RowsSet
  <2>3. CASE params # NoParams
    <3>1. params' = params /\ checkpoints' = checkpoints
      BY <2>1, <2>3, Zenon DEF get_active_stage7_params, ActiveParams
    <3> QED BY <3>1, RowsKept
  <2> QED BY <2>2, <2>3
<1>3. CASE MarkBad
  <2> DEFINE n == params.version
  <2>1. params # NoParams /\ params' = params
    BY <1>3 DEF MarkBad, S7Inv
  <2>2. checkpoints' = WithCheckpoint(n, Checkpoint(checkpoints[n].params, FALSE))
    BY <1>3, Zenon DEF MarkBad, set_stage7_checkpoint_goodness
  <2>3. n \in DOMAIN checkpoints
    BY <2>1 DEF RowsInv
  <2> HIDE DEF n
  <2>4. DOMAIN checkpoints' = DOMAIN checkpoints
    BY <2>2, <2>3 DEF WithCheckpoint
  <2>5. \A v \in DOMAIN checkpoints : checkpoints'[v].params = checkpoints[v].params
    BY <2>2, <2>3 DEF WithCheckpoint, Checkpoint
  <2> QED BY <2>1, <2>4, <2>5 DEF RowsInv
<1>4. CASE RollBack
  <2>1. CASE GoodVersions = {}
    BY <1>1, <1>4, <2>1 DEF RollBack
  <2>2. CASE GoodVersions # {}
    <3> DEFINE p == get_last_good_stage7_params_checkpoint
    <3>1. GoodVersions \subseteq DOMAIN checkpoints
      BY Zenon DEF GoodVersions
    <3>2. IsFiniteSet(GoodVersions) /\ GoodVersions \subseteq Int
      BY <3>1, FS_Subset DEF RowsInv
    <3>3. Max(GoodVersions) \in GoodVersions
      BY <2>2, <3>2, Extremes
    <3>4. p \in GoodRow
      BY <3>1, <3>3 DEF RowsInv, get_last_good_stage7_params_checkpoint
    <3>5. set_active_stage7_params(p)
      BY <1>4, <2>2 DEF RollBack
    <3> HIDE DEF p
    <3> QED BY <3>4, <3>5, RowsSet
  <2> QED BY <2>1, <2>2
<1>5. CASE ApplyProposal
  <2> DEFINE p == propose_update(runs, params, s7.cap)
  <2>1. params # NoParams /\ s7.cap = params.turnover
    BY <1>5 DEF ApplyProposal, S7Inv
  <2>2. params \in GoodRow /\ s7.cap \in Int
    BY <2>1 DEF RowsInv, GoodRow, RawRow
  <2>3. p \in GoodRow
    BY <2>2, ProposalGood
  <2>4. set_active_stage7_params(p) \/ UNCHANGED <<params, checkpoints>>
    BY <1>5 DEF ApplyProposal
  <2> HIDE DEF p
  <2> QED BY <1>1, <2>3, <2>4, RowsSet
<1>6. CASE Stage4Step /\ UNCHANGED s7Vars
  BY <1>1, <1>6 DEF s7Vars
<1>7. CASE S7Trade \/ save_stage7_cycle \/ save_stage7_run_metrics \/ S7Abort \/ PassTime
  BY <1>1, <1>7 DEF S7Trade, save_stage7_cycle, save_stage7_run_metrics, S7Abort, PassTime
<1>8. CASE UNCHANGED vars
  BY <1>1, <1>8 DEF vars, s7Vars
<1> QED BY <1>2, <1>3, <1>4, <1>5, <1>6, <1>7, <1>8 DEF Next

(* The workload and the values of risk_decisions. *)
LoadInv == load \in Loads /\ risk.mode \in Mode \cup {None}

LEMMA LoadStep == ASSUME ModesInv, LoadInv, [Next]_vars PROVE LoadInv'
<1> USE DEF LoadInv
<1>1. CASE UNCHANGED modeVars
  BY <1>1 DEF modeVars
<1>2. CASE Stage4Step
  <2>1. CASE Assess
    <3> DEFINE in == Inputs[cyc.in]
               snap == ResolveMarketSnapshot(in, cyc.active)
               cover == Coverage(in, cyc.active, snap)
               decision == compute_decision(in, cover)
               peak == Bigger(risk.peak, in.equity)
    <3>1. cyc.in \in DOMAIN Inputs /\ in.equity \in Int /\ risk.peak \in Int
      BY <2>1, ModesAssumption DEF Assess, ModesInv, CycleShape, PeakInv, ModesAssumption
    <3>2. load' = load /\ persist_decision(in, decision)
      BY <2>1, Zenon DEF Assess
    <3>3. decision.mode = BaseMode(in, cover, peak)
      BY DEF compute_decision, resolve_peak_equity
    <3> HIDE DEF cover, snap, decision
    <3>4. peak \in Int
      BY <3>1 DEF Bigger
    <3>5. decision.mode \in Mode
      BY <3>1, <3>3, <3>4, BaseModeIs
    <3>6. risk'.mode \in {decision.mode, risk.mode}
      BY <3>2 DEF persist_decision
    <3> QED BY <3>2, <3>5, <3>6
  <2>2. CASE UNCHANGED <<load, risk>>
    BY <2>2
  <2>3. CASE \E name \in load.cycles : Begin(name) /\ s7.at = "idle"
    BY <2>2, <2>3 DEF Begin
  <2>4. CASE CycleStep
    <3>1. CASE Degrade \/ Filter
      BY <2>2, <3>1 DEF Degrade, Filter
    <3>2. CASE \E r \in 0 .. RejectThreshold : Execute(r)
      BY <2>2, <3>2 DEF Execute
    <3>3. CASE \E ok \in BOOLEAN : Persist(ok)
      BY <2>2, <3>3 DEF Persist
    <3> QED BY <2>1, <2>4, <3>1, <3>2, <3>3 DEF CycleStep
  <2>5. CASE Abort
    BY <2>2, <2>5 DEF Abort
  <2>6. CASE run_degrade_clear
    BY <2>2, <2>6 DEF run_degrade_clear
  <2>7. CASE \E m \in Mode, c \in 0 .. 2 : run_degrade_override(m, c)
    BY <2>2, <2>7 DEF run_degrade_override
  <2>8. CASE TroubleEnds
    BY <2>2, <2>8 DEF TroubleEnds
  <2> QED BY <1>2, <2>3, <2>4, <2>5, <2>6, <2>7, <2>8 DEF Stage4Step
<1>3. CASE \E in \in load.sights : S7Begin(in)
  BY <1>1, <1>3 DEF S7Begin
<1>4. CASE S7Trade \/ save_stage7_cycle \/ save_stage7_run_metrics \/ MarkBad \/ RollBack
           \/ ApplyProposal \/ S7Abort
  BY <1>1, <1>4 DEF S7Trade, save_stage7_cycle, save_stage7_run_metrics, MarkBad, RollBack,
                    ApplyProposal, S7Abort
<1>5. CASE PassTime
  BY <1>5 DEF PassTime, Tick
<1>6. CASE UNCHANGED vars
  BY <1>1, <1>6 DEF vars
<1> QED BY <1>2, <1>3, <1>4, <1>5, <1>6 DEF Next


-----------------------------------------------------------------------------
(* The orders of a Stage-7 cycle *)

LEMMA SightKnown ==
    ASSUME NEW l \in Loads, NEW in \in l.sights PROVE Known(Portfolio(in))
<1> DEFINE D == DOMAIN in.books
           price == [s \in SymbolsNeeded(in) |->
                       CASE in.books[s] > 0 -> in.books[s]
                         [] in.books[s] = 0 /\ s \in SelectedUniverse(in) -> in.last[s]
                         [] OTHER -> 0]
           marks == MarkPrices(in)
<1>1. /\ D \subseteq Int /\ IsFiniteSet(D)
      /\ in.books \in [D -> Nat] /\ in.last \in [D -> Nat]
      /\ in.selected \subseteq D
      /\ \A o \in in.simulated : o.at \in D
      /\ in.cash \in Int /\ in.held \in [D -> Int]
  BY SightsAssumption
<1>2. \A s \in D : PairKnown(in.pairs[s])
  BY SightsAssumption DEF PairKnown
<1> HIDE DEF D
<1>3. SymbolsNeeded(in) \subseteq D
  BY <1>1 DEF SymbolsNeeded, SelectedUniverse, D
<1>4. marks = [s \in {x \in SymbolsNeeded(in) : price[x] > 0} |-> price[s]]
  BY DEF MarkPrices
<1>5. DOMAIN marks \subseteq D
  BY <1>3, <1>4
<1>6. \A s \in DOMAIN marks : marks[s] \in Nat \ {0}
  <2> TAKE s \in DOMAIN marks
  <2>1. s \in SymbolsNeeded(in) /\ price[s] > 0 /\ marks[s] = price[s]
    BY <1>4
  <2>2. in.books[s] \in Nat /\ in.last[s] \in Nat
    BY <1>1, <1>3, <2>1
  <2>3. price[s] \in {in.books[s], in.last[s], 0}
    BY <2>1
  <2> DEFINE x == price[s]
  <2>4. x \in Nat
    BY <2>2, <2>3
  <2> HIDE DEF x, marks
  <2>5. x > 0 /\ marks[s] = x
    BY <2>1 DEF x
  <2> QED BY <2>4, <2>5
<1>7. /\ Portfolio(in).cash = in.cash /\ Portfolio(in).held = in.held
      /\ Portfolio(in).marks = marks /\ Portfolio(in).pairs = in.pairs
  BY DEF Portfolio
<1> HIDE DEF marks, price
<1>8. IsFiniteSet(DOMAIN marks)
  BY <1>1, <1>5, FS_Subset
<1> QED
  BY <1>1, <1>2, <1>5, <1>6, <1>7, <1>8 DEF Known

(* Whatever the mode, the orders of a cycle come from its plan, one for a symbol. *)
LEMMA CycleOrders ==
    ASSUME NEW l \in Loads, NEW in \in l.sights, NEW lim \in RawRow, NEW mode,
           NEW d, d.orders \in Int
    PROVE  LET sent == Orders(in, lim, mode, d)
               pf   == Portfolio(in)
               plan == build_plan(pf, lim, mode)
           IN  /\ OnePerSymbol(sent) /\ IsFiniteSet(sent)
               /\ lim.orders >= 0 => Cardinality(sent) <= lim.orders
               /\ d.orders >= 0 => Cardinality(sent) <= d.orders
               /\ \A o \in sent : \E a \in plan : o.at = a.at /\ o.side = a.side /\ OrderFits(pf, a, o)
<1> DEFINE sent == Orders(in, lim, mode, d)
           pf   == Portfolio(in)
           plan == build_plan(pf, lim, mode)
<1>1. Known(pf)
  BY SightKnown
<1>2. lim.turnover \in Int /\ lim.orders \in Int /\ lim.offset \in Int
  BY DEF RawRow
<1>3. CASE mode = "OBSERVE_ONLY"
  <2>1. sent = {}
    BY <1>3 DEF Orders
  <2>2. IsFiniteSet({}) /\ Cardinality({}) = 0
    BY FS_EmptySet
  <2> HIDE DEF sent, plan, pf
  <2>3. OnePerSymbol(sent)
    BY <2>1 DEF OnePerSymbol
  <2>4. \A o \in sent : \E a \in plan : o.at = a.at /\ o.side = a.side /\ OrderFits(pf, a, o)
    BY <2>1
  <2>5. /\ lim.orders >= 0 => Cardinality(sent) <= lim.orders
        /\ d.orders >= 0 => Cardinality(sent) <= d.orders
    BY <1>2, <2>1, <2>2
  <2>6. IsFiniteSet(sent)
    BY <2>1, <2>2
  <2> QED BY <2>3, <2>4, <2>5, <2>6 DEF sent, plan, pf
<1>4. CASE mode # "OBSERVE_ONLY"
  <2>1. sent = Sent(pf, lim, mode, in.positions, d)
    BY <1>4 DEF Orders, Sent, build_stage7_order_intents, KernelIntents
  <2> HIDE DEF sent, pf
  <2>2. /\ OnePerSymbol(sent) /\ IsFiniteSet(sent)
        /\ lim.orders >= 0 => Cardinality(sent) <= lim.orders
        /\ d.orders >= 0 => Cardinality(sent) <= d.orders
        /\ \A o \in sent : \E a \in plan : o.at = a.at /\ o.side = a.side /\ OrderFits(pf, a, o)
    BY <1>1, <1>2, <2>1, OrdersOfPlan
  <2> HIDE DEF plan
  <2> QED BY <2>2 DEF sent, plan, pf
<1> QED BY <1>3, <1>4

(* Their worth is no more than the turnover that their plan used up. *)
LEMMA CycleTurnover ==
    ASSUME NEW l \in Loads, NEW in \in l.sights, NEW lim \in RawRow, lim.turnover >= 0, NEW mode,
           NEW d, d.orders \in Int
    PROVE  LET sent == Orders(in, lim, mode, d)
           IN  TotalOf([o \in sent |-> Amount(o, in)]) <= lim.turnover
<1> DEFINE sent == Orders(in, lim, mode, d)
           pf   == Portfolio(in)
           plan == build_plan(pf, lim, mode)
<1>1. Known(pf)
  BY SightKnown
<1>2. lim.turnover \in Int /\ lim.orders \in Int
  BY DEF RawRow
<1>3. /\ OnePerSymbol(sent) /\ IsFiniteSet(sent)
      /\ \A o \in sent : \E a \in plan : o.at = a.at /\ o.side = a.side /\ OrderFits(pf, a, o)
  BY CycleOrders
<1> HIDE DEF sent
<1>4. [o \in sent |-> Amount(o, in)] = [o \in sent |-> Cost(pf, o)]
  <2>1. pf.marks = MarkPrices(in)
    BY DEF Portfolio
  <2>2. \A o \in sent : Amount(o, in) = Cost(pf, o)
    BY <2>1 DEF Amount, Cost
  <2> HIDE DEF pf
  <2> QED BY <2>2, Zenon
<1> HIDE DEF pf
<1>5. /\ plan \in SUBSET PlanAction(pf) /\ IsFiniteSet(Spent(plan))
      /\ Cardinality(Spent(plan)) <= lim.turnover
      /\ \A x \in plan : x.qty * pf.marks[x.at] <= x.amount
  BY <1>1, <1>2, PlanKeeps
<1> HIDE DEF plan
<1>6. TotalOf([o \in sent |-> Cost(pf, o)]) <= Cardinality(Spent(plan))
  BY <1>1, <1>3, <1>5, OrdersCost
<1> DEFINE f == [o \in sent |-> Cost(pf, o)]
<1>7. TotalOf(f) \in Int
  <2>1. \A o \in sent : Cost(pf, o) \in Int
    <3> TAKE o \in sent
    <3>1. PICK a \in plan : o.at = a.at /\ o.side = a.side /\ OrderFits(pf, a, o)
      BY <1>3
    <3> QED BY <1>1, <1>5, <3>1, CostsLess
  <2>2. f \in [sent -> Int]
    BY <2>1
  <2> HIDE DEF f
  <2> QED BY <1>3, <2>2, TotalIsWorth
<1> HIDE DEF f
<1>8. TotalOf(f) <= Cardinality(Spent(plan))
  BY <1>6 DEF f
<1>9. Cardinality(Spent(plan)) \in Int
  BY <1>5, FS_CardinalityType
<1>10. TotalOf(f) <= lim.turnover
  BY <1>2, <1>5, <1>7, <1>8, <1>9
<1> QED BY <1>4, <1>10 DEF f, sent


-----------------------------------------------------------------------------
(* What holds of the orders while they are sent: nothing that the orders    *)
(* were checked against changes until the cycle has traded.                 *)

LEMMA BeginIs ==
    ASSUME S7Inv, RowsInv, NEW in, S7Begin(in)
    PROVE  LET d == decide(in, ledger, s7risk, ActiveParams)
               m == FinalMode(in, d, SymbolsNeeded(in))
           IN  /\ s7'.at = "trade" /\ s7'.in = in /\ s7'.decision = d
               /\ s7'.orders = Orders(in, params', m, d)
               /\ params' = ActiveParams /\ params' \in GoodRow
               /\ d.orders \in Int /\ (params'.orders >= 0 => d.orders >= 0)
               /\ UNCHANGED <<risk, ledger>>
<1> DEFINE d == decide(in, ledger, s7risk, ActiveParams)
           m == FinalMode(in, d, SymbolsNeeded(in))
<1>1. s7' = [at |-> "trade", in |-> in, mode |-> m, decision |-> d,
             orders |-> Orders(in, ActiveParams, m, d), cap |-> ActiveParams.turnover]
  BY Zenon DEF S7Begin
<1>2. params' = ActiveParams
  BY DEF S7Begin, get_active_stage7_params
<1>3. UNCHANGED <<risk, ledger>>
  BY DEF S7Begin, modeVars
<1>4. ActiveParams \in GoodRow
  BY SeedIsGood DEF ActiveParams, RowsInv
<1>5. d.orders \in {ActiveParams.orders, Greatest(1, ActiveParams.orders \div 2)}
  BY DEF decide
<1> HIDE DEF d, m
<1> DEFINE n == ActiveParams.orders
<1>6. n \in Int
  BY <1>4 DEF GoodRow, RawRow
<1> HIDE DEF n
<1>7. n \div 2 \in Int
  BY <1>6
<1>8. Greatest(1, n \div 2) \in Int /\ Greatest(1, n \div 2) >= 0
  BY <1>7 DEF Greatest
<1>9. d.orders \in Int /\ (n >= 0 => d.orders >= 0)
  <2>1. CASE d.orders = n
    BY <1>6, <2>1
  <2>2. CASE d.orders = Greatest(1, n \div 2)
    BY <1>8, <2>2
  <2> QED BY <1>5, <2>1, <2>2 DEF n
<1> QED
  BY <1>1, <1>2, <1>3, <1>4, <1>9 DEF n, d, m

LEMMA LimitsBegin ==
    ASSUME Seed.turnover >= 0, Seed.orders >= 0, S7Inv, RowsInv,
           NEW l \in Loads, NEW in \in l.sights, S7Begin(in)
    PROVE  PlanWithinLimits'
<1> DEFINE lim == params'
           d == decide(in, ledger, s7risk, ActiveParams)
           m == FinalMode(in, d, SymbolsNeeded(in))
           pf == Portfolio(in)
           plan == build_plan(pf, lim, m)
           sent == Orders(in, lim, m, d)
<1>1. /\ s7'.in = in /\ s7'.decision = d /\ s7'.orders = sent
      /\ lim \in GoodRow /\ d.orders \in Int /\ (lim.orders >= 0 => d.orders >= 0)
  BY BeginIs
<1> HIDE DEF lim, d, m
<1>2. lim \in RawRow /\ lim.turnover >= 0 /\ lim.orders >= 0 /\ lim.orders \in Int /\ d.orders >= 0
  BY <1>1 DEF GoodRow, RawRow
<1>3. TotalOf([o \in sent |-> Amount(o, in)]) <= lim.turnover
  BY <1>1, <1>2, CycleTurnover
<1>4. /\ IsFiniteSet(sent) /\ Cardinality(sent) <= lim.orders /\ Cardinality(sent) <= d.orders
      /\ \A o \in sent : \E a \in plan : o.at = a.at /\ o.side = a.side /\ OrderFits(pf, a, o)
  BY <1>1, <1>2, CycleOrders
<1>5. pf.held = in.held /\ pf.cash = in.cash /\ pf.pairs = in.pairs
  BY DEF Portfolio
<1> HIDE DEF sent, pf, plan
<1>6. \A o \in sent :
         /\ o.side = "SELL" => o.qty <= in.held[o.at]
         /\ o.side = "BUY"  => o.qty * o.price <= in.cash
         /\ o.qty * o.price >= resolve_boundary(in.pairs[o.at]).rules.least
         /\ o.qty % resolve_boundary(in.pairs[o.at]).rules.lot = 0
  BY <1>4, <1>5 DEF OrderFits
<1>7. Cardinality(sent) <= Least(lim.orders, d.orders)
  BY <1>4 DEF Least
<1>8. TotalOf([o \in s7'.orders |-> Amount(o, s7'.in)]) <= params'.turnover
  BY <1>1, <1>3 DEF lim
<1>9. Cardinality(s7'.orders) <= Least(params'.orders, s7'.decision.orders)
  BY <1>1, <1>7 DEF lim
<1> QED
  BY <1>1, <1>6, <1>8, <1>9, Zenon DEF PlanWithinLimits

LEMMA LimitsStep ==
    ASSUME Seed.turnover >= 0, Seed.orders >= 0, S7Inv, RowsInv, LoadInv,
           PlanWithinLimits, [Next]_vars
    PROVE  PlanWithinLimits'
<1>1. CASE UNCHANGED <<params, s7>>
  BY <1>1 DEF PlanWithinLimits
<1>2. CASE Stage4Step /\ UNCHANGED s7Vars
  BY <1>1, <1>2 DEF s7Vars
<1>3. CASE \E in \in load.sights : S7Begin(in)
  BY <1>3, LimitsBegin DEF LoadInv
<1>4. CASE S7Trade \/ save_stage7_cycle \/ save_stage7_run_metrics \/ MarkBad \/ RollBack
           \/ ApplyProposal \/ S7Abort
  <2>1. s7'.at # "trade"
    BY <1>4, IdleIs DEF S7Inv, StagesApart, S7Trade, save_stage7_cycle, save_stage7_run_metrics,
                        MarkBad, RollBack, ApplyProposal, S7Abort
  <2> QED BY <2>1 DEF PlanWithinLimits
<1>5. CASE PassTime
  BY <1>1, <1>5 DEF PassTime
<1>6. CASE UNCHANGED vars
  BY <1>1, <1>6 DEF vars, s7Vars
<1> QED BY <1>2, <1>3, <1>4, <1>5, <1>6 DEF Next

(* Stage 7 while something restricts it: the mode Stage 4 stored last, or   *)
(* the ledger metrics of the cycle before.                                  *)
RestrictedDoesNotBuy ==
    s7.at = "trade" =>
       (\/ get_latest_risk_mode = "REDUCE_RISK_ONLY"
        \/ ledger.drawdown >= DrawdownLimit
        \/ ledger.pnl <= -Settings.dailyLoss
          => S7Buys = {})

LEMMA RestrictedBegin ==
    ASSUME S7Inv, RowsInv, NEW l \in Loads, NEW in \in l.sights, S7Begin(in),
           risk.mode \in Mode \cup {None}
    PROVE  RestrictedDoesNotBuy'
<1> DEFINE lim == params'
           own == OwnMode(in, ledger)
           d == decide(in, ledger, s7risk, ActiveParams)
           m == FinalMode(in, d, SymbolsNeeded(in))
           pf == Portfolio(in)
           plan == build_plan(pf, lim, m)
           sent == Orders(in, lim, m, d)
           breach == ledger.drawdown >= DrawdownLimit \/ ledger.pnl <= -Settings.dailyLoss
<1>1. /\ s7'.orders = sent /\ lim \in GoodRow /\ d.orders \in Int
      /\ UNCHANGED <<risk, ledger>>
  BY BeginIs
<1>2. breach => own \in Restricting
  BY DEF OwnMode, Restricting
<1>3. d.mode = own \/ d.mode = combine_modes(own, s7risk.mode)
  BY DEF decide
<1> HIDE DEF own
<1>4. breach => d.mode \in Restricting
  BY <1>2, <1>3 DEF combine_modes, Restricting
<1>5. get_latest_risk_mode \in Mode
  BY DEF get_latest_risk_mode, Mode, None
<1>6. m = "OBSERVE_ONLY" \/ m = combine_modes(get_latest_risk_mode, d.mode)
  BY DEF FinalMode
<1> HIDE DEF lim, d, m, breach
<1>7. get_latest_risk_mode = "REDUCE_RISK_ONLY" \/ breach => m \in Restricting
  BY <1>4, <1>5, <1>6 DEF combine_modes, Restricting, Mode
<1>8. m = "OBSERVE_ONLY" => sent = {}
  BY DEF Orders
<1>9. m = "REDUCE_RISK_ONLY" => \A o \in sent : o.side = "SELL"
  <2> SUFFICES ASSUME m = "REDUCE_RISK_ONLY", NEW o \in sent PROVE o.side = "SELL"
    OBVIOUS
  <2>1. lim \in RawRow /\ lim.turnover \in Int /\ lim.orders \in Int
    BY <1>1 DEF GoodRow, RawRow
  <2>2. PICK a \in plan : o.side = a.side
    <3>1. \A x \in sent : \E a \in plan : x.at = a.at /\ x.side = a.side /\ OrderFits(pf, a, x)
      BY <1>1, <2>1, CycleOrders
    <3> HIDE DEF sent, plan, pf
    <3> QED BY <3>1
  <2>3. Known(pf)
    BY SightKnown
  <2> HIDE DEF pf
  <2>4. \A x \in plan : x.side = "SELL"
    BY <2>1, <2>3, PlanKeeps
  <2> QED BY <2>2, <2>4
<1> HIDE DEF sent, plan, pf
<1>10. m \in Restricting => \A o \in sent : o.side # "BUY"
  BY <1>8, <1>9 DEF Restricting
<1>11. S7Buys' = {o \in sent : o.side = "BUY"}
  BY <1>1 DEF S7Buys
<1>12. get_latest_risk_mode' = get_latest_risk_mode /\ (breach' <=> breach)
  BY <1>1 DEF get_latest_risk_mode, breach
<1>13. (get_latest_risk_mode = "REDUCE_RISK_ONLY" \/ breach)' => S7Buys' = {}
  BY <1>7, <1>10, <1>11, <1>12
<1> QED BY <1>13 DEF RestrictedDoesNotBuy, breach

LEMMA RestrictedStep ==
    ASSUME S7Inv, RowsInv, LoadInv, RestrictedDoesNotBuy, [Next]_vars
    PROVE  RestrictedDoesNotBuy'
<1> USE DEF RestrictedDoesNotBuy
<1>1. CASE Stage4Step /\ UNCHANGED s7Vars
  <2>1. CASE s7.at = "trade"
    <3>1. UNCHANGED <<risk, ledger, s7>>
      BY <1>1, <2>1, Stage4Changes DEF S7Inv, StagesApart, s7Vars
    <3> QED BY <3>1 DEF get_latest_risk_mode, S7Buys
  <2>2. CASE s7.at # "trade"
    BY <1>1, <2>2 DEF s7Vars
  <2> QED BY <2>1, <2>2
<1>2. CASE \E in \in load.sights : S7Begin(in)
  BY <1>2, RestrictedBegin DEF LoadInv
<1>3. CASE S7Trade \/ save_stage7_cycle \/ save_stage7_run_metrics \/ MarkBad \/ RollBack
           \/ ApplyProposal \/ S7Abort
  <2>1. s7'.at # "trade"
    BY <1>3, IdleIs DEF S7Inv, StagesApart, S7Trade, save_stage7_cycle, save_stage7_run_metrics,
                        MarkBad, RollBack, ApplyProposal, S7Abort
  <2> QED BY <2>1
<1>4. CASE PassTime
  BY <1>4 DEF PassTime
<1>5. CASE UNCHANGED vars
  BY <1>5 DEF vars, modeVars, s7Vars, get_latest_risk_mode, S7Buys
<1> QED BY <1>1, <1>2, <1>3, <1>4, <1>5 DEF Next

(* The orders in flight and everything they were built from. *)
CycleInv == ModesInv /\ S7Inv /\ RowsInv /\ LoadInv

LEMMA CycleStart == Init => CycleInv
<1> SUFFICES ASSUME Init PROVE CycleInv
  OBVIOUS
<1>1. S7Inv /\ ModesInv
  BY AdaptInit, ModesStart
<1>2. checkpoints = <<>> /\ params = NoParams
  BY DEF Init, S7Init
<1>3. DOMAIN checkpoints = {}
  BY <1>2
<1>4. RowsInv
  BY <1>2, <1>3, FS_EmptySet DEF RowsInv
<1>5. LoadInv
  BY DEF Init, ModesInit, LoadInv
<1> QED BY <1>1, <1>4, <1>5 DEF CycleInv

LEMMA CycleInvariant == Spec => []CycleInv
<1>1. CycleInv /\ [Next]_vars => CycleInv'
  BY ModesStep, S7Step, RowsStep, LoadStep DEF CycleInv
<1> QED BY <1>1, CycleStart, PTL DEF Spec

(* If neither cap of the seed is negative (nothing validates them), the     *)
(* orders of a Stage-7 cycle stay within every limit (PlanWithinLimits):    *)
(* together within the turnover cap and the number of orders, each within   *)
(* the cash or the free quantity, none below the minimum of the exchange,   *)
(* for any balances, prices, pairs and settings, although a price is        *)
(* rounded, a quantity cut and an action dropped after the limit was        *)
(* applied (build_plan, build_intents, filter_actions).                     *)
THEOREM PlansKeepTheirLimits ==
    ASSUME Seed.turnover >= 0, Seed.orders >= 0 PROVE Spec => []PlanWithinLimits
<1>1. Init => PlanWithinLimits
  <2> SUFFICES ASSUME Init PROVE PlanWithinLimits
    OBVIOUS
  <2>1. s7 = S7Idle
    BY DEF Init, S7Init
  <2> QED BY <2>1, IdleIs DEF PlanWithinLimits
<1>2. CycleInv /\ PlanWithinLimits /\ [Next]_vars => PlanWithinLimits'
  BY LimitsStep DEF CycleInv
<1> QED BY <1>1, <1>2, CycleInvariant, PTL DEF Spec

(* No order buys when it should not (TroubledCyclesDoNotBuy): Stage 4 not   *)
(* in a troubled cycle, Stage 7 not while the mode Stage 4 stored last is   *)
(* REDUCE_RISK_ONLY or its own metrics breach the loss or drawdown limit;   *)
(* nothing at all is sent under OBSERVE_ONLY.  It holds for any settings,   *)
(* inputs and parameters, also for a seed nobody validated (combine_modes,  *)
(* decide, build_plan).                                                     *)
THEOREM NeitherStageBuysInTrouble == Spec => []TroubledCyclesDoNotBuy
<1>1. Init => RestrictedDoesNotBuy
  <2> SUFFICES ASSUME Init PROVE RestrictedDoesNotBuy
    OBVIOUS
  <2>1. s7 = S7Idle
    BY DEF Init, S7Init
  <2> QED BY <2>1, IdleIs DEF RestrictedDoesNotBuy
<1>2. CycleInv /\ RestrictedDoesNotBuy /\ [Next]_vars => RestrictedDoesNotBuy'
  BY RestrictedStep DEF CycleInv
<1>3. Stage4DoesNotBuy /\ ObservingSendsNothing /\ RestrictedDoesNotBuy => TroubledCyclesDoNotBuy
  BY DEF TroubledCyclesDoNotBuy, ObservingSendsNothing, RestrictedDoesNotBuy
<1> QED
  BY <1>1, <1>2, <1>3, CycleInvariant, TroubledStage4DoesNotBuy, ObservedCyclesSendNothing, PTL
  DEF Spec
=============================================================================
