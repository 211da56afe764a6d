------------------------- MODULE DecisionCycleProofs -------------------------
(***************************************************************************)
(* What holds of DecisionCycle for any number of cycles, any failures,     *)
(* answers and precedents, any window and any number of restarts.          *)
(*                                                                         *)
(* The first part is about the rules alone: the candidates, the ranking    *)
(* and the gate.  The second is about the buffer: what it still holds of   *)
(* the present life of the process are the failures of the last two        *)
(* windows (Buffered), each of a cycle of its own (Logged), so that        *)
(* counting signals is counting failures.                                  *)
(***************************************************************************)
EXTENDS DecisionCycle, FiniteSetTheorems, SequenceTheorems, TLAPS

-----------------------------------------------------------------------------
(* The rules.                                                              *)

\* What the rules read of a context has these types.
ContextOK(ctx) ==
    /\ ctx.amount \in Nat
    /\ ctx.baseline \in RecoveryAction
    /\ ctx.history.action \in RecoveryAction
    /\ ctx.history.count \in Nat /\ ctx.history.recovered \in Nat

Occurs(list, a) == \E i \in DOMAIN list : list[i] = a

LEMMA BaselineIsAction ==
    ASSUME NEW domain, NEW class
    PROVE  BaselineOf(domain, class) \in RecoveryAction
  BY DEF BaselineOf, RecoveryAction

LEMMA ContextTypes ==
    ASSUME NEW c \in Cycles, NEW f \in Failures(c), NEW health, NEW h \in Histories(c)
    PROVE  ContextOK(Context(f, health, h))
  <1>1. /\ Context(f, health, h).amount = f.amount
        /\ Context(f, health, h).baseline = BaselineOf(DomainOf(f), ClassOf(f))
        /\ Context(f, health, h).history = h
    BY DEF Context
  <1>2. h.recovered \in Nat
    BY DecisionAssumption
  <1>3. QED
    BY <1>1, <1>2, BaselineIsAction, DecisionAssumption DEF ContextOK

\* The list from which the candidates are taken.
LEMMA OfferedTypes ==
    ASSUME NEW answer \in Seq(RecoveryAction), NEW ctx, ContextOK(ctx)
    PROVE  /\ Offered(answer, ctx) \in Seq(RecoveryAction)
           /\ Proposed(answer, ctx) \in Seq(RecoveryAction)
           /\ Len(Proposed(answer, ctx)) \in Nat
           /\ Len(Proposed(answer, ctx)) + 1 \in DOMAIN Offered(answer, ctx)
           /\ Offered(answer, ctx)[Len(Proposed(answer, ctx)) + 1] = ctx.baseline
  <1>1. ctx.baseline \in RecoveryAction
    BY DEF ContextOK
  <1>2. <<ctx.baseline>> \in Seq(RecoveryAction) /\ Len(<<ctx.baseline>>) = 1
    BY <1>1
  <1>3. Proposed(answer, ctx) \in Seq(RecoveryAction)
    BY <1>2 DEF Proposed
  <1>4. StandardPool \in Seq(RecoveryAction)
    BY DEF StandardPool, RecoveryAction
  <1> DEFINE s == Proposed(answer, ctx)
             t == <<ctx.baseline>>
  <1>5. t[1] = ctx.baseline
    OBVIOUS
  <1> HIDE DEF s, t
  <1>6. /\ s \o t \in Seq(RecoveryAction) /\ Len(s) \in Nat
        /\ Len(s \o t) = Len(s) + 1
        /\ (s \o t)[Len(s) + 1] = ctx.baseline
    BY <1>2, <1>3, <1>5 DEF s, t
  <1>7. Offered(answer, ctx) = (s \o t) \o StandardPool
    BY DEF Offered, s, t
  <1>8. /\ (s \o t) \o StandardPool \in Seq(RecoveryAction)
        /\ Len(s) + 1 \in DOMAIN ((s \o t) \o StandardPool)
        /\ ((s \o t) \o StandardPool)[Len(s) + 1] = ctx.baseline
    BY <1>4, <1>6
  <1>9. QED
    BY <1>3, <1>6, <1>7, <1>8 DEF s

\* A nonempty set of naturals has a least element.
LEMMA LeastNatural ==
    ASSUME NEW B \in SUBSET Nat, B # {}
    PROVE  \E m \in B : \A n \in B : m <= n
  <1> DEFINE R == OpToRel(<, Nat)
  <1>1. IsWellFoundedOn(R, Nat)
    BY NatLessThanWellFounded
  <1>2. PICK m \in B : \A n \in B : ~ (<<n, m>> \in R)
    <2> HIDE DEF R
    <2>1. QED
      BY <1>1, WFMin
  <1>3. \A n \in B : n < m => <<n, m>> \in R
    BY DEF OpToRel
  <1>4. ASSUME NEW n \in B PROVE m <= n
    <2>1. m \in Nat /\ n \in Nat /\ ~ (n < m)
      BY <1>2, <1>3
    <2>2. QED
      BY <2>1
  <1>5. QED
    BY <1>4

LEMMA PlaceIs ==
    ASSUME NEW S, NEW list \in Seq(S), NEW a, Occurs(list, a)
    PROVE  /\ Place(list, a) \in DOMAIN list /\ Place(list, a) \in Nat
           /\ list[Place(list, a)] = a
           /\ \A j \in DOMAIN list : list[j] = a => Place(list, a) <= j
  <1> DEFINE B == {i \in DOMAIN list : list[i] = a}
             P(i) == list[i] = a /\ \A j \in 1..(i - 1) : list[j] # a
  <1>1. DOMAIN list = 1..Len(list) /\ Len(list) \in Nat
    OBVIOUS
  <1>2. B \in SUBSET Nat /\ B # {}
    BY <1>1 DEF Occurs
  <1>3. PICK m \in B : \A n \in B : m <= n
    <2> HIDE DEF B
    <2>1. QED
      BY <1>2, LeastNatural
  <1>4. m \in DOMAIN list /\ P(m)
    BY <1>1, <1>3
  <1>5. Place(list, a) = CHOOSE i \in DOMAIN list : P(i)
    BY DEF Place
  <1>6. Place(list, a) \in DOMAIN list /\ P(Place(list, a))
    <2> HIDE DEF P
    <2>1. QED
      BY <1>4, <1>5
  <1>7. ASSUME NEW j \in DOMAIN list, list[j] = a PROVE Place(list, a) <= j
    BY <1>1, <1>6, <1>7
  <1>8. QED
    BY <1>1, <1>6, <1>7

-----------------------------------------------------------------------------
(* Candidates and gate.                                                    *)

LEMMA CandidatesAre ==
    ASSUME NEW answer \in Seq(RecoveryAction), NEW ctx, ContextOK(ctx),
           NEW a \in Candidates(answer, ctx)
    PROVE  /\ a \in RecoveryAction
           /\ Occurs(Offered(answer, ctx), a)
           /\ Eligible(a, ctx)
  <1> DEFINE list == Offered(answer, ctx)
  <1>1. PICK i \in DOMAIN list : list[i] = a /\ Eligible(list[i], ctx)
    BY DEF Candidates
  <1>2. list[i] \in RecoveryAction
    <2>1. list \in Seq(RecoveryAction)
      BY OfferedTypes
    <2> HIDE DEF list
    <2>2. QED
      BY <2>1
  <1>3. QED
    BY <1>1, <1>2 DEF Occurs

\* The rules of eligibility cover those by which the policy rejects.
LEMMA EligiblePasses ==
    ASSUME NEW a, NEW ctx, Eligible(a, ctx)
    PROVE  VerdictOn(a, ctx).status # "REJECTED"
  BY DEF Eligible, VerdictOn, Evaluate, Forbidden, Verdict

-----------------------------------------------------------------------------
(* Ranking.                                                                *)

\* An action has one of two values: that of the precedents, or the prior.
LEMMA ProbabilityTypes ==
    ASSUME NEW ctx, ContextOK(ctx), NEW a
    PROVE  /\ Probability(a, ctx.history) \in Nat
           /\ NetRecovery(a, ctx) \in Int
           /\ \A b : a # ctx.history.action /\ b # ctx.history.action
                       => NetRecovery(a, ctx) = NetRecovery(b, ctx)
  <1>1. Probability(a, ctx.history) \in Nat
    BY DEF Probability, Prior, ContextOK
  <1>2. Probability(a, ctx.history) * ctx.amount \in Int
    <2> DEFINE p == Probability(a, ctx.history)
               m == ctx.amount
    <2>1. p \in Nat /\ m \in Nat
      BY <1>1 DEF ContextOK
    <2> HIDE DEF p, m
    <2>2. p * m \in Int
      BY <2>1
    <2>3. QED
      BY <2>2 DEF p, m
  <1>3. NetRecovery(a, ctx) \in Int
    <2> DEFINE n == Probability(a, ctx.history) * ctx.amount
    <2>1. NetRecovery(a, ctx) = n - 75
      BY DEF NetRecovery, OperationalCost, RiskPenalty
    <2> HIDE DEF n
    <2>2. n \in Int
      BY <1>2 DEF n
    <2>3. QED
      BY <2>1, <2>2
  <1>4. ASSUME NEW b, a # ctx.history.action, b # ctx.history.action
        PROVE  NetRecovery(a, ctx) = NetRecovery(b, ctx)
    <2>1. Probability(a, ctx.history) = Probability(b, ctx.history)
      BY <1>4 DEF Probability
    <2>2. QED
      BY <2>1 DEF NetRecovery
  <1>5. QED
    BY <1>1, <1>3, <1>4

LEMMA TieTypes ==
    ASSUME NEW ctx, NEW a \in RecoveryAction
    PROVE  /\ TiePriority(a, ctx) \in Nat
           /\ TiePriority(a, ctx) = 0 <=> a = ctx.baseline
  <1>1. Tier[a] \in Nat \ {0}
    BY DEF Tier, RecoveryAction
  <1>2. QED
    BY <1>1 DEF TiePriority

\* No two actions of a list have the same place.
LEMMA PlacesDiffer ==
    ASSUME NEW S, NEW list \in Seq(S), NEW a, Occurs(list, a), NEW b, Occurs(list, b),
           Place(list, a) = Place(list, b)
    PROVE  a = b
  BY PlaceIs

\* The ranking of some offered actions has a first.
LEMMA FirstExists ==
    ASSUME NEW A \in SUBSET RecoveryAction, A # {}, NEW list \in Seq(RecoveryAction),
           \A a \in A : Occurs(list, a), NEW ctx, ContextOK(ctx)
    PROVE  \E a \in A : \A b \in A \ {a} : RanksBefore(a, b, list, ctx)
  <1> DEFINE Net(a) == NetRecovery(a, ctx)
             A1 == {a \in A : \A b \in A : Net(b) <= Net(a)}
             T  == {TiePriority(a, ctx) : a \in A1}
             A2 == {a \in A1 : \A b \in A1 : TiePriority(a, ctx) <= TiePriority(b, ctx)}
             L  == {Place(list, a) : a \in A2}
  <1>1. \A a \in A : Net(a) \in Int /\ TiePriority(a, ctx) \in Nat /\ Place(list, a) \in Nat
    BY ProbabilityTypes, TieTypes, PlaceIs
  <1>2. A1 # {}
    <2> DEFINE h == ctx.history.action
    <2>1. \A a, b \in A : a # h /\ b # h => Net(a) = Net(b)
      BY ProbabilityTypes
    <2>2. CASE \E a \in A : a # h
      <3>1. PICK a \in A : a # h
        BY <2>2
      <3>2. CASE h \in A /\ Net(a) < Net(h)
        <4>1. \A b \in A : Net(b) <= Net(h)
          <5> HIDE DEF Net, h
          <5>1. QED
            BY <1>1, <2>1, <3>1, <3>2
        <4>2. QED
          BY <3>2, <4>1
      <3>3. CASE ~(h \in A /\ Net(a) < Net(h))
        <4>1. \A b \in A : Net(b) <= Net(a)
          <5> HIDE DEF Net, h
          <5>1. QED
            BY <1>1, <2>1, <3>1, <3>3
        <4>2. QED
          BY <3>1, <4>1
      <3>4. QED
        BY <3>2, <3>3
    <2>3. CASE \A a \in A : a = h
      <3>1. PICK a \in A : TRUE
        OBVIOUS
      <3>2. \A b \in A : Net(b) <= Net(a)
        <4>1. \A b \in A : b = a
          BY <2>3
        <4> HIDE DEF Net
        <4>2. QED
          BY <1>1, <4>1
      <3>3. QED
        BY <3>1, <3>2
    <2>4. QED
      BY <2>2, <2>3
  <1>3. PICK a2 \in A1 : \A b \in A1 : TiePriority(a2, ctx) <= TiePriority(b, ctx)
    <2>1. T \in SUBSET Nat /\ T # {}
      <3> HIDE DEF Net
      <3>1. QED
        BY <1>1, <1>2
    <2>2. PICK t \in T : \A u \in T : t <= u
      <3> HIDE DEF T
      <3>1. QED
        BY <2>1, LeastNatural
    <2>3. QED
      BY <2>2
  <1>4. PICK a \in A2 : \A b \in A2 : Place(list, a) <= Place(list, b)
    <2>1. L \in SUBSET Nat /\ L # {}
      <3> HIDE DEF Net
      <3>1. QED
        BY <1>1, <1>3
    <2>2. PICK t \in L : \A u \in L : t <= u
      <3> HIDE DEF L
      <3>1. QED
        BY <2>1, LeastNatural
    <2>3. QED
      BY <2>2
  <1>5. ASSUME NEW b \in A \ {a} PROVE RanksBefore(a, b, list, ctx)
    <2>1. a \in A1 /\ a \in A
      BY <1>4
    <2>2. Net(b) <= Net(a) /\ Net(a) \in Int /\ Net(b) \in Int
      BY <1>1, <2>1
    <2>3. CASE Net(b) < Net(a)
      BY <2>3 DEF RanksBefore
    <2>4. CASE Net(b) = Net(a)
      <3>1. b \in A1
        <4> HIDE DEF Net
        <4>1. QED
          BY <2>1, <2>4
      <3>2. TiePriority(a, ctx) <= TiePriority(b, ctx)
        BY <1>4, <3>1
      <3>3. CASE TiePriority(a, ctx) < TiePriority(b, ctx)
        BY <2>4, <3>3 DEF RanksBefore
      <3>4. CASE TiePriority(a, ctx) = TiePriority(b, ctx)
        <4>1. b \in A2
          <5> HIDE DEF A1
          <5>1. QED
            BY <1>4, <3>1, <3>4
        <4>2. Place(list, a) <= Place(list, b)
          BY <1>4, <4>1
        <4>3. Place(list, a) # Place(list, b)
          BY <2>1, PlacesDiffer
        <4>4. Place(list, a) < Place(list, b)
          BY <1>1, <2>1, <4>2, <4>3
        <4>5. QED
          BY <2>4, <3>4, <4>4 DEF RanksBefore
      <3>5. QED
        BY <1>1, <2>1, <3>2, <3>3, <3>4
    <2>5. QED
      BY <2>2, <2>3, <2>4
  <1>6. QED
    BY <1>4, <1>5

LEMMA FirstOfIs ==
    ASSUME NEW A \in SUBSET RecoveryAction, A # {}, NEW list \in Seq(RecoveryAction),
           \A a \in A : Occurs(list, a), NEW ctx, ContextOK(ctx)
    PROVE  /\ FirstOf(A, list, ctx) \in A
           /\ \A b \in A \ {FirstOf(A, list, ctx)} :
                RanksBefore(FirstOf(A, list, ctx), b, list, ctx)
  BY FirstExists DEF FirstOf

\* What is decided is a candidate, or STOP_RECOVERY for want of one.
LEMMA DecideIs ==
    ASSUME NEW answer \in Seq(RecoveryAction), NEW ctx, ContextOK(ctx)
    PROVE  \/ Decide(answer, ctx).action = "STOP_RECOVERY"
           \/ Decide(answer, ctx).action \in Candidates(answer, ctx)
  <1> DEFINE A == {a \in Candidates(answer, ctx) : VerdictOn(a, ctx).status # "REJECTED"}
  <1>1. Decide(answer, ctx).action = IF A = {} THEN "STOP_RECOVERY"
                                     ELSE FirstOf(A, Offered(answer, ctx), ctx)
    BY DEF Decide
  <1>2. A \in SUBSET RecoveryAction /\ \A a \in A : Occurs(Offered(answer, ctx), a)
    BY CandidatesAre
  <1>3. A # {} => FirstOf(A, Offered(answer, ctx), ctx) \in A
    <2> HIDE DEF A
    <2>1. QED
      BY <1>2, FirstOfIs, OfferedTypes
  <1>4. QED
    BY <1>1, <1>3

\* The retry at once is not eligible where the route is in bad health.
LEMMA RetryIsHealthy ==
    ASSUME NEW answer \in Seq(RecoveryAction), NEW ctx, ContextOK(ctx),
           Decide(answer, ctx).action = "RETRY_NOW"
    PROVE  ctx.route \notin {"DEGRADED", "CRITICAL"}
  <1>1. Decide(answer, ctx).action \in Candidates(answer, ctx)
    BY DecideIs
  <1>2. Eligible("RETRY_NOW", ctx)
    BY <1>1, CandidatesAre
  <1>3. QED
    BY <1>2 DEF Eligible

\* Fewer than five actions are placed before the baseline.
LEMMA BaselineIsCandidate ==
    ASSUME NEW answer \in Seq(RecoveryAction), NEW ctx, ContextOK(ctx),
           Len(answer) < MaxCandidates, Eligible(ctx.baseline, ctx)
    PROVE  ctx.baseline \in Candidates(answer, ctx)
  <1> DEFINE list == Offered(answer, ctx)
             base == ctx.baseline
             n == Len(Proposed(answer, ctx))
             eligible == {list[i] : i \in {i \in DOMAIN list : Eligible(list[i], ctx)}}
             before == {b \in eligible : Place(list, b) < Place(list, base)}
             f == [b \in before |-> Place(list, b)]
  <1>1. list \in Seq(RecoveryAction) /\ n \in Nat /\ n + 1 \in DOMAIN list /\ list[n + 1] = base
    BY OfferedTypes
  <1>2. DOMAIN list = 1..Len(list) /\ Len(list) \in Nat
    <2> HIDE DEF list
    <2>1. QED
      BY <1>1
  <1>3. Occurs(list, base) /\ base \in eligible
    <2> HIDE DEF list, n, base
    <2>1. list[n + 1] = base /\ Eligible(list[n + 1], ctx)
      BY <1>1 DEF base
    <2>2. QED
      BY <1>1, <2>1 DEF Occurs
  <1>4. Place(list, base) \in Nat /\ Place(list, base) <= MaxCandidates
    <2>1. Place(list, base) \in Nat
      <3> HIDE DEF list, base
      <3>1. QED
        BY <1>1, <1>3, PlaceIs
    <2>2. CASE answer = <<>>
      <3>1. Proposed(answer, ctx) = <<base>>
        BY <2>2 DEF Proposed
      <3>2. list[1] = base /\ 1 \in DOMAIN list
        <4>1. list = (<<base>> \o <<base>>) \o StandardPool
          BY <3>1 DEF Offered
        <4> DEFINE s == <<base>>
                   u == <<base>>
        <4>2. /\ s \in Seq(RecoveryAction) /\ Len(s) = 1 /\ s[1] = base
              /\ u \in Seq(RecoveryAction) /\ Len(u) = 1
          BY DEF ContextOK
        <4> HIDE DEF s, u, base, list
        <4>3. s \o u \in Seq(RecoveryAction) /\ Len(s \o u) = 2 /\ (s \o u)[1] = base
          <5>1. s \o u \in Seq(RecoveryAction)
            BY <4>2
          <5>2. /\ Len(s \o u) = Len(s) + Len(u)
                /\ \A i \in 1..Len(s) + Len(u) :
                     (s \o u)[i] = IF i <= Len(s) THEN s[i] ELSE u[i - Len(s)]
            BY <4>2, ConcatProperties
          <5>3. QED
            BY <4>2, <5>1, <5>2
        <4>4. StandardPool \in Seq(RecoveryAction)
          BY DEF StandardPool, RecoveryAction
        <4>5. list = (s \o u) \o StandardPool
          BY <4>1 DEF s, u
        <4>6. QED
          BY <4>3, <4>4, <4>5
      <3>3. Place(list, base) <= 1
        <4> HIDE DEF list, base
        <4>1. QED
          BY <1>1, <1>3, <3>2, PlaceIs
      <3>4. QED
        BY <2>1, <3>3 DEF MaxCandidates
    <2>3. CASE answer # <<>>
      <3>1. n = Len(answer)
        BY <2>3 DEF Proposed
      <3>2. Place(list, base) <= n + 1
        <4> HIDE DEF list, base, n
        <4>1. QED
          BY <1>1, <1>3, PlaceIs
      <3>3. QED
        <4> HIDE DEF list, base, n
        <4>1. QED
          BY <1>1, <2>1, <3>1, <3>2 DEF MaxCandidates
    <2>4. QED
      BY <2>2, <2>3
  <1>5. \A b \in before : Occurs(list, b)
    BY DEF Occurs
  <1>6. f \in Injection(before, 1..4)
    <2> HIDE DEF list, base, eligible
    <2>1. \A b \in before : Place(list, b) \in 1..4
      <3>1. \A b \in before : Place(list, b) \in DOMAIN list
        <4> HIDE DEF before
        <4>1. QED
          BY <1>1, <1>5, PlaceIs
      <3>2. QED
        BY <1>2, <1>4, <3>1 DEF MaxCandidates
    <2>2. \A b1, b2 \in before : Place(list, b1) = Place(list, b2) => b1 = b2
      <3> HIDE DEF before
      <3>1. QED
        BY <1>1, <1>5, PlacesDiffer
    <2> HIDE DEF before
    <2>3. QED
      BY <2>1, <2>2 DEF Injection, IsInjective
  <1>7. Cardinality(before) < MaxCandidates
    <2>1. IsFiniteSet(1..4) /\ Cardinality(1..4) = 4
      <3>1. 1 \in Int /\ 4 \in Int /\ ~(1 > 4)
        OBVIOUS
      <3>2. Cardinality(1..4) = 4 - 1 + 1
        BY <3>1, FS_Interval
      <3>3. IsFiniteSet(1..4)
        BY <3>1, FS_Interval
      <3>4. QED
        BY <3>2, <3>3
    <2> HIDE DEF before, f
    <2>2. IsFiniteSet(before) /\ Cardinality(before) <= 4
      BY <1>6, <2>1, FS_Injection
    <2>3. QED
      BY <2>2, FS_CardinalityType DEF MaxCandidates
  <1>8. QED
    BY <1>3, <1>7 DEF Candidates

\* Where the precedents are too few to count all candidates are of one value, and
\* the baseline comes first.
LEMMA BaselineWins ==
    ASSUME NEW answer \in Seq(RecoveryAction), NEW ctx, ContextOK(ctx),
           Len(answer) < MaxCandidates, Eligible(ctx.baseline, ctx),
           ctx.history.count < MinHistory
    PROVE  Decide(answer, ctx).action = ctx.baseline
  <1> DEFINE A == {a \in Candidates(answer, ctx) : VerdictOn(a, ctx).status # "REJECTED"}
             first == FirstOf(A, Offered(answer, ctx), ctx)
  <1>1. ctx.baseline \in A
    BY BaselineIsCandidate, EligiblePasses
  <1>2. Decide(answer, ctx).action = first
    BY <1>1 DEF Decide
  <1>3. A \in SUBSET RecoveryAction /\ \A a \in A : Occurs(Offered(answer, ctx), a)
    BY CandidatesAre
  <1>4. /\ first \in A
        /\ \A b \in A \ {first} : RanksBefore(first, b, Offered(answer, ctx), ctx)
    <2> HIDE DEF A
    <2>1. QED
      BY <1>1, <1>3, FirstOfIs, OfferedTypes
  <1>5. \A a : Probability(a, ctx.history) = Prior
    BY DEF Probability, MinHistory, ContextOK
  <1>6. NetRecovery(first, ctx) = NetRecovery(ctx.baseline, ctx)
    <2> HIDE DEF first
    <2>1. QED
      BY <1>5 DEF NetRecovery
  <1>7. ASSUME first # ctx.baseline PROVE FALSE
    <2>1. RanksBefore(first, ctx.baseline, Offered(answer, ctx), ctx)
      BY <1>1, <1>4, <1>7
    <2>2. first \in RecoveryAction /\ ctx.baseline \in RecoveryAction
      BY <1>3, <1>4 DEF ContextOK
    <2> HIDE DEF first
    <2>3. NetRecovery(first, ctx) \in Int /\ NetRecovery(ctx.baseline, ctx) \in Int
      BY ProbabilityTypes
    <2>4. /\ TiePriority(first, ctx) \in Nat /\ TiePriority(first, ctx) # 0
          /\ TiePriority(ctx.baseline, ctx) = 0
      BY <1>7, <2>2, TieTypes
    <2>5. QED
      BY <1>6, <2>1, <2>3, <2>4 DEF RanksBefore
  <1>8. QED
    BY <1>2, <1>7

-----------------------------------------------------------------------------
(* The invariant.                                                          *)

Routes == {RouteOf(f) : f \in UNION {Failures(c) : c \in Cycles}}
Entry  == [cycle : Cycles, route : Routes, at : Nat, life : Nat]

Typed ==
    /\ now \in Nat /\ lives \in Nat
    /\ pc \in [Cycles -> {"idle", "sensed", "decided", "done", "lost"}]
    /\ DOMAIN failure = Cycles /\ DOMAIN decision = Cycles /\ DOMAIN case = Cycles
    /\ route \in [Cycles -> RouteStatus]
    /\ log \in Seq(Entry)

\* A cycle has recorded one failure at most, and none before it is under way.
Logged ==
    /\ \A i \in DOMAIN log : /\ log[i].at <= now /\ log[i].life <= lives
                             /\ pc[log[i].cycle] # "idle"
    /\ \A i, j \in DOMAIN log : log[i].cycle = log[j].cycle => i = j

\* What is left of an entry in the buffer.
SignalOf(e) == [cycle |-> e.cycle, route |-> e.route, at |-> e.at]

\* The buffer holds failures of this life, among them all of two windows.
Buffered ==
    /\ \A s \in signals : \E i \in DOMAIN log : log[i].life = lives /\ s = SignalOf(log[i])
    /\ \A i \in DOMAIN log :
         log[i].life = lives /\ log[i].at >= now - 2 * Window => SignalOf(log[i]) \in signals

\* A decision is what the rules make of what the cycle has read.
Decided ==
    \A c \in Cycles :
        /\ pc[c] \in {"sensed", "decided"} => failure[c] \in Failures(c)
        /\ pc[c] # "decided" => decision[c] = NoDecision
        /\ pc[c] = "decided" =>
             /\ decision[c].answer \in Answers(c) /\ decision[c].history \in Histories(c)
             /\ decision[c].action =
                  Decide(decision[c].answer,
                         Context(failure[c], route[c], decision[c].history)).action

\* A case that is retried at once was decided on a route in good health.
Healthy ==
    \A c \in Cycles :
        /\ pc[c] # "done" => case[c] = Absent
        /\ case[c] # Absent /\ case[c].action = "RETRY_NOW"
             => route[c] \notin {"DEGRADED", "CRITICAL"}

\* The failures of the route of an entry in the window that ends with it.
InWindow(i) ==
    {j \in 1..i : /\ log[j].route = log[i].route /\ log[j].life = log[i].life
                  /\ log[j].at >= log[i].at - Window}
Counted == \A i \in DOMAIN log : route[log[i].cycle] = RouteHealth(Cardinality(InWindow(i)))

IInv == Typed /\ Logged /\ Buffered /\ Counted /\ Decided /\ Healthy

LEMMA CountedIsHealth == Counted <=> HealthCountsTheWindow
  BY DEF Counted, HealthCountsTheWindow, InWindow

LEMMA InitIInv == ASSUME Init PROVE IInv
  <1>1. log = <<>> /\ DOMAIN log = {}
    BY DEF Init
  <1>2. Typed
    BY DEF Init, Typed, RouteStatus
  <1>3. QED
    BY <1>1, <1>2 DEF Init, IInv, Logged, Buffered, Counted, Decided, Healthy

-----------------------------------------------------------------------------
(* A failure is recorded.                                                  *)

NewEntry(c, f) == [cycle |-> c, route |-> RouteOf(f), at |-> now, life |-> lives]

\* What the step does to the log.
LEMMA SenseLogs ==
    ASSUME Typed, NEW c \in Cycles, NEW f \in Failures(c), log' = Append(log, NewEntry(c, f))
    PROVE  /\ NewEntry(c, f) \in Entry
           /\ log' \in Seq(Entry) /\ Len(log) \in Nat
           /\ DOMAIN log = 1..Len(log) /\ DOMAIN log' = 1..(Len(log) + 1)
           /\ \A i \in DOMAIN log : log'[i] = log[i] /\ log[i] \in Entry
           /\ log'[Len(log) + 1] = NewEntry(c, f)
  <1>1. NewEntry(c, f) \in Entry
    BY DEF NewEntry, Entry, Routes, Typed
  <1>2. log \in Seq(Entry)
    BY DEF Typed
  <1>3. QED
    BY <1>1, <1>2

LEMMA SenseCounts ==
    ASSUME Typed, Logged, Buffered, NEW c \in Cycles, NEW f \in Failures(c), pc[c] = "idle",
           log' = Append(log, NewEntry(c, f))
    PROVE  LET n == Len(log) + 1
               S == {j \in 1..n : /\ log'[j].route = log'[n].route /\ log'[j].life = log'[n].life
                                  /\ log'[j].at >= log'[n].at - Window}
               T == {s \in Recorded(c, f) : s.route = RouteOf(f) /\ s.at >= now - Window}
           IN  Cardinality(T) = Cardinality(S)
  <1> DEFINE n == Len(log) + 1
             e == NewEntry(c, f)
             S == {j \in 1..n : /\ log'[j].route = log'[n].route /\ log'[j].life = log'[n].life
                                /\ log'[j].at >= log'[n].at - Window}
             T == {s \in Recorded(c, f) : s.route = RouteOf(f) /\ s.at >= now - Window}
             F == [j \in S |-> SignalOf(log'[j])]
  <1>1. /\ n \in Nat /\ DOMAIN log = 1..(n - 1) /\ log'[n] = e
        /\ \A i \in DOMAIN log : log'[i] = log[i] /\ log[i] \in Entry
    BY SenseLogs
  <1>2. e.route = RouteOf(f) /\ e.at = now /\ e.life = lives /\ e.cycle = c
    BY DEF NewEntry
  <1>3. SignalOf(e) = [cycle |-> c, route |-> RouteOf(f), at |-> now]
    BY <1>2 DEF SignalOf
  <1>4. now \in Nat /\ Window \in Nat
    BY DecisionAssumption DEF Typed
  <1>5. \A i \in DOMAIN log : log[i].at \in Nat
    BY <1>1 DEF Entry
  <1>6. ASSUME NEW j \in S PROVE SignalOf(log'[j]) \in T
    <2>1. CASE j = n
      <3>1. SignalOf(log'[j]) = [cycle |-> c, route |-> RouteOf(f), at |-> now]
        BY <1>1, <1>3, <2>1
      <3>2. now >= now - 2 * Window /\ now >= now - Window
        BY <1>4
      <3>3. QED
        BY <3>1, <3>2 DEF Recorded
    <2>2. CASE j # n
      <3>1. j \in DOMAIN log /\ log'[j] = log[j]
        BY <1>1, <2>2
      <3>2. /\ log[j].route = RouteOf(f) /\ log[j].life = lives
            /\ log[j].at >= now - Window
        BY <1>1, <1>2, <3>1
      <3>3. log[j].at >= now - 2 * Window
        BY <1>4, <1>5, <3>1, <3>2
      <3>4. SignalOf(log[j]) \in signals
        BY <3>1, <3>2, <3>3 DEF Buffered
      <3>5. SignalOf(log[j]).at = log[j].at /\ SignalOf(log[j]).route = log[j].route
        BY DEF SignalOf
      <3>6. QED
        BY <3>1, <3>2, <3>3, <3>4, <3>5 DEF Recorded
    <2>3. QED
      BY <2>1, <2>2
  <1>7. ASSUME NEW s \in T PROVE \E j \in S : SignalOf(log'[j]) = s
    <2>1. CASE s = [cycle |-> c, route |-> RouteOf(f), at |-> now]
      <3>1. n \in S
        BY <1>1, <1>2, <1>4
      <3>2. QED
        BY <1>1, <1>3, <2>1, <3>1
    <2>2. CASE s \in signals
      <3>1. PICK j \in DOMAIN log : log[j].life = lives /\ s = SignalOf(log[j])
        BY <2>2 DEF Buffered
      <3>2. s.route = log[j].route /\ s.at = log[j].at
        BY <3>1 DEF SignalOf
      <3>3. j \in S
        BY <1>1, <1>2, <3>1, <3>2
      <3>4. QED
        BY <1>1, <3>1, <3>3
    <2>3. QED
      BY <2>1, <2>2 DEF Recorded
  <1>8. ASSUME NEW i \in S, NEW j \in S, log'[i].cycle = log'[j].cycle PROVE i = j
    <2>1. log'[i].cycle = log'[j].cycle
      BY <1>8
    <2>2. \A k \in DOMAIN log : log[k].cycle # c
      BY DEF Logged
    <2>3. i \in 1..n /\ j \in 1..n
      OBVIOUS
    <2> HIDE DEF S, T, F
    <2>4. CASE i = n \/ j = n
      BY <1>1, <1>2, <2>1, <2>2, <2>3, <2>4
    <2>5. CASE i # n /\ j # n
      <3>1. i \in DOMAIN log /\ j \in DOMAIN log
        BY <1>1, <2>3, <2>5
      <3>2. QED
        BY <1>1, <2>1, <3>1 DEF Logged
    <2>6. QED
      BY <2>4, <2>5
  <1>9. F \in Bijection(S, T)
    <2> HIDE DEF S, T
    <2>1. F \in [S -> T]
      BY <1>6
    <2>2. \A i \in S : F[i] = SignalOf(log'[i])
      OBVIOUS
    <2>6. \A i \in S : F[i].cycle = log'[i].cycle
      BY DEF SignalOf
    <2> HIDE DEF F
    <2>7. ASSUME NEW i \in S, NEW j \in S, F[i] = F[j] PROVE i = j
      <3>1. F[i].cycle = F[j].cycle
        BY <2>7
      <3>2. F[i].cycle = log'[i].cycle
        BY <2>6
      <3>3. F[j].cycle = log'[j].cycle
        BY <2>6
      <3>4. log'[i].cycle = log'[j].cycle
        BY <3>1, <3>2, <3>3
      <3>5. QED
        BY <3>4, <1>8
    <2>3. F \in Injection(S, T)
      BY <2>1, <2>7 DEF Injection, IsInjective
    <2>4. F \in Surjection(S, T)
      BY <1>7, <2>1, <2>2 DEF Surjection
    <2>5. QED
      BY <2>3, <2>4 DEF Bijection
  <1>10. IsFiniteSet(S)
    <2>1. IsFiniteSet(1..n)
      <3>1. n \in Int /\ 1 \in Int
        BY <1>1
      <3> HIDE DEF n
      <3>2. QED
        BY <3>1, FS_Interval
    <2>2. S \in SUBSET (1..n)
      OBVIOUS
    <2> HIDE DEF S
    <2>3. QED
      BY <2>1, <2>2, FS_Subset
  <1>11. Cardinality(T) = Cardinality(S)
    <2> HIDE DEF S, T, F
    <2>1. QED
      BY <1>9, <1>10, FS_Bijection DEF ExistsBijection
  <1>12. QED
    BY <1>11

\* An old entry keeps its window and the health its cycle has read.
LEMMA SenseKeepsCount ==
    ASSUME Typed, Logged, Counted, NEW c \in Cycles, NEW f \in Failures(c), pc[c] = "idle",
           log' = Append(log, NewEntry(c, f)), NEW h, route' = [route EXCEPT ![c] = h],
           NEW i \in DOMAIN log
    PROVE  route'[log'[i].cycle] = RouteHealth(Cardinality(InWindow(i)'))
  <1>1. /\ Len(log) \in Nat /\ DOMAIN log = 1..Len(log)
        /\ \A j \in DOMAIN log : log'[j] = log[j] /\ log[j] \in Entry
    BY SenseLogs
  <1>2. \A j \in 1..i : log'[j] = log[j]
    BY <1>1
  <1>3. InWindow(i)' = InWindow(i)
    BY <1>1, <1>2 DEF InWindow
  <1>4. log[i].cycle \in Cycles /\ log[i].cycle # c
    BY <1>1 DEF Logged, Entry
  <1>5. route'[log[i].cycle] = route[log[i].cycle]
    BY <1>4 DEF Typed
  <1>6. QED
    BY <1>1, <1>3, <1>5 DEF Counted

LEMMA HealthIsStatus == ASSUME NEW n PROVE RouteHealth(n) \in RouteStatus
  BY DEF RouteHealth, RouteStatus

LEMMA NextSense ==
    ASSUME IInv, NEW c \in Cycles, Sense(c)
    PROVE  IInv'
  <1>1. /\ Typed /\ Logged /\ Buffered /\ Counted /\ Decided /\ Healthy
        /\ pc[c] = "idle" /\ pc' = [pc EXCEPT ![c] = "sensed"]
        /\ UNCHANGED <<decision, case, queued, now, lives>>
    BY DEF IInv, Sense
  <1>2. PICK f \in Failures(c) :
          /\ failure' = [failure EXCEPT ![c] = f]
          /\ signals' = Recorded(c, f)
          /\ route' = [route EXCEPT ![c] = HealthIn(Recorded(c, f), RouteOf(f))]
          /\ log' = Append(log, NewEntry(c, f))
    BY DEF Sense, NewEntry
  <1> DEFINE n == Len(log) + 1
             e == NewEntry(c, f)
  <1>3. /\ e \in Entry /\ log' \in Seq(Entry) /\ Len(log) \in Nat
        /\ DOMAIN log = 1..Len(log) /\ DOMAIN log' = 1..n
        /\ \A i \in DOMAIN log : log'[i] = log[i] /\ log[i] \in Entry
        /\ log'[n] = e
    BY <1>1, <1>2, SenseLogs
  <1>4. e.cycle = c /\ e.route = RouteOf(f) /\ e.at = now /\ e.life = lives
    BY DEF NewEntry
  <1>5. now \in Nat /\ lives \in Nat /\ Window \in Nat
    BY <1>1, DecisionAssumption DEF Typed
  <1> HIDE DEF e, n
  <1>6. \A i \in DOMAIN log' : i \in DOMAIN log \/ i = n
    BY <1>3 DEF n
  <1>7. Typed'
    <2>1. HealthIn(Recorded(c, f), RouteOf(f)) \in RouteStatus
      BY HealthIsStatus DEF HealthIn
    <2>2. QED
      BY <1>1, <1>2, <1>3, <2>1 DEF Typed
  <1>8. Logged'
    <2>1. ASSUME NEW i \in DOMAIN log'
          PROVE  log'[i].at <= now /\ log'[i].life <= lives /\ pc'[log'[i].cycle] # "idle"
      <3>1. CASE i = n
        BY <1>1, <1>3, <1>4, <1>5, <3>1 DEF Typed
      <3>2. CASE i \in DOMAIN log
        BY <1>1, <1>3, <3>2 DEF Logged, Typed, Entry
      <3>3. QED
        BY <1>6, <3>1, <3>2
    <2>2. \A i \in DOMAIN log : log'[i].cycle # c
      BY <1>1, <1>3 DEF Logged
    <2>3. ASSUME NEW i \in DOMAIN log', NEW j \in DOMAIN log', log'[i].cycle = log'[j].cycle
          PROVE  i = j
      <3>1. CASE i \in DOMAIN log /\ j \in DOMAIN log
        BY <1>1, <1>3, <2>3, <3>1 DEF Logged
      <3>2. CASE i = n \/ j = n
        BY <1>3, <1>4, <1>6, <2>2, <2>3, <3>2
      <3>3. QED
        BY <1>6, <3>1, <3>2
    <2>4. QED
      BY <1>1, <2>1, <2>3 DEF Logged
  <1>9. Buffered'
    <2>1. SignalOf(e) = [cycle |-> c, route |-> RouteOf(f), at |-> now]
      BY <1>4 DEF SignalOf
    <2>2. ASSUME NEW s \in signals'
          PROVE  \E i \in DOMAIN log' : log'[i].life = lives /\ s = SignalOf(log'[i])
      <3>1. CASE s \in signals
        <4>1. PICK i \in DOMAIN log : log[i].life = lives /\ s = SignalOf(log[i])
          BY <1>1, <3>1 DEF Buffered
        <4>2. i \in DOMAIN log' /\ log'[i] = log[i]
          BY <1>3 DEF n
        <4>3. QED
          BY <4>1, <4>2
      <3>2. CASE s = SignalOf(e)
        <4>1. n \in DOMAIN log'
          BY <1>3 DEF n
        <4>2. QED
          BY <1>3, <1>4, <3>2, <4>1
      <3>3. QED
        BY <1>2, <2>1, <3>1, <3>2 DEF Recorded
    <2>3. ASSUME NEW i \in DOMAIN log', log'[i].life = lives, log'[i].at >= now - 2 * Window
          PROVE  SignalOf(log'[i]) \in signals'
      <3>1. CASE i = n
        <4>1. now >= now - 2 * Window
          BY <1>5
        <4>2. QED
          BY <1>2, <1>3, <2>1, <3>1, <4>1 DEF Recorded
      <3>2. CASE i \in DOMAIN log
        <4>1. SignalOf(log[i]) \in signals /\ log'[i] = log[i]
          BY <1>1, <1>3, <2>3, <3>2 DEF Buffered
        <4>2. SignalOf(log[i]).at = log[i].at
          BY DEF SignalOf
        <4>3. QED
          BY <1>2, <2>3, <4>1, <4>2 DEF Recorded
      <3>3. QED
        BY <1>6, <3>1, <3>2
    <2>4. QED
      BY <1>1, <2>2, <2>3 DEF Buffered
  <1>10. Counted'
    <2>1. ASSUME NEW i \in DOMAIN log
          PROVE  route'[log'[i].cycle] = RouteHealth(Cardinality(InWindow(i)'))
      BY <1>1, <1>2, SenseKeepsCount
    <2>2. ASSUME NEW i \in DOMAIN log', i = n
          PROVE  route'[log'[i].cycle] = RouteHealth(Cardinality(InWindow(i)'))
      <3> DEFINE T == {s \in Recorded(c, f) : s.route = RouteOf(f) /\ s.at >= now - Window}
                 S == {j \in 1..i : /\ log'[j].route = log'[i].route
                                    /\ log'[j].life = log'[i].life
                                    /\ log'[j].at >= log'[i].at - Window}
      <3>1. Cardinality(T) = Cardinality(S)
        BY <1>1, <1>2, <2>2, SenseCounts DEF n
      <3>2. InWindow(i)' = S
        BY DEF InWindow
      <3>3. HealthIn(Recorded(c, f), RouteOf(f)) = RouteHealth(Cardinality(T))
        BY DEF HealthIn
      <3>4. route'[c] = HealthIn(Recorded(c, f), RouteOf(f))
        BY <1>1, <1>2 DEF Typed
      <3> HIDE DEF T, S
      <3>5. QED
        BY <1>3, <1>4, <2>2, <3>1, <3>2, <3>3, <3>4
    <2>3. ASSUME NEW i \in DOMAIN log'
          PROVE  route'[log'[i].cycle] = RouteHealth(Cardinality(InWindow(i)'))
      BY <1>6, <2>1, <2>2
    <2>4. QED
      BY <2>3 DEF Counted
  <1>11. Decided'
    <2>1. ASSUME NEW d \in Cycles, d # c PROVE
            failure'[d] = failure[d] /\ route'[d] = route[d] /\ pc'[d] = pc[d]
      BY <1>1, <1>2, <2>1 DEF Typed
    <2>2. pc'[c] = "sensed" /\ failure'[c] = f
      BY <1>1, <1>2 DEF Typed
    <2>3. QED
      BY <1>1, <2>1, <2>2 DEF Decided
  <1>12. Healthy'
    <2>1. ASSUME NEW d \in Cycles, d # c PROVE route'[d] = route[d] /\ pc'[d] = pc[d]
      BY <1>1, <1>2, <2>1 DEF Typed
    <2>2. case[c] = Absent
      BY <1>1 DEF Healthy
    <2>3. QED
      BY <1>1, <2>1, <2>2 DEF Healthy
  <1>13. QED
    BY <1>7, <1>8, <1>9, <1>10, <1>11, <1>12 DEF IInv

-----------------------------------------------------------------------------
(* The other steps.                                                        *)

\* The log, and with it the buffer and the counts, is left alone.
LEMMA LogKept ==
    ASSUME IInv, UNCHANGED <<route, log>>,
           \A c \in Cycles : pc'[c] = "idle" => pc[c] = "idle",
           now' \in Nat, now <= now', lives' \in Nat,
           \/ lives' = lives /\ signals' = signals
           \/ lives' = lives + 1 /\ signals' = {}
    PROVE  Logged' /\ Buffered' /\ Counted'
  <1>1. /\ Typed /\ Logged /\ Buffered /\ Counted
        /\ now \in Nat /\ lives \in Nat /\ Window \in Nat
    BY DecisionAssumption DEF IInv, Typed
  <1>2. \A i \in DOMAIN log : log[i] \in Entry
    BY <1>1 DEF Typed
  <1>3. \A i \in DOMAIN log : log[i].at \in Nat /\ log[i].life \in Nat /\ log[i].cycle \in Cycles
    BY <1>2 DEF Entry
  <1>4. Logged'
    BY <1>1, <1>3 DEF Logged
  <1>5. Buffered'
    <2>1. CASE lives' = lives /\ signals' = signals
      <3>1. \A i \in DOMAIN log : log[i].at >= now' - 2 * Window => log[i].at >= now - 2 * Window
        BY <1>1, <1>3
      <3>2. QED
        BY <1>1, <2>1, <3>1 DEF Buffered
    <2>2. CASE lives' = lives + 1 /\ signals' = {}
      <3>1. \A i \in DOMAIN log : log[i].life # lives'
        BY <1>1, <1>3, <2>2 DEF Logged
      <3>2. QED
        BY <2>2, <3>1 DEF Buffered
    <2>3. QED
      BY <2>1, <2>2
  <1>6. Counted'
    BY <1>1 DEF Counted, InWindow
  <1>7. QED
    BY <1>4, <1>5, <1>6

LEMMA NextDecision ==
    ASSUME IInv, NEW c \in Cycles, MakeDecision(c)
    PROVE  IInv'
  <1>1. /\ Typed /\ Decided /\ Healthy /\ pc[c] = "sensed"
        /\ pc' = [pc EXCEPT ![c] = "decided"]
        /\ UNCHANGED <<failure, route, case, queued, signals, now, lives, log>>
    BY DEF IInv, MakeDecision
  <1>2. PICK answer \in Answers(c), h \in Histories(c) :
          decision' = [decision EXCEPT ![c] =
            [answer |-> answer, history |-> h,
             action |-> Decide(answer, Context(failure[c], route[c], h)).action,
             verdict |-> Decide(answer, Context(failure[c], route[c], h)).verdict]]
    BY DEF MakeDecision
  <1>3. /\ \A d \in Cycles : d # c => decision'[d] = decision[d] /\ pc'[d] = pc[d]
        /\ pc'[c] = "decided"
        /\ decision'[c].answer = answer /\ decision'[c].history = h
        /\ decision'[c].action = Decide(answer, Context(failure[c], route[c], h)).action
    BY <1>1, <1>2 DEF Typed
  <1>4. Typed'
    BY <1>1, <1>2 DEF Typed
  <1>5. Logged' /\ Buffered' /\ Counted'
    BY <1>1, <1>3, LogKept DEF Typed
  <1>6. Decided'
    <2> DEFINE r(d) == Context(failure[d], route[d], decision'[d].history)
    <2>1. failure[c] \in Failures(c)
      BY <1>1 DEF Decided
    <2>2. QED
      BY <1>1, <1>3, <2>1 DEF Decided
  <1>7. Healthy'
    BY <1>1, <1>3 DEF Healthy
  <1>8. QED
    BY <1>4, <1>5, <1>6, <1>7 DEF IInv

\* A cycle that decides to retry at once has read a route in good health.
LEMMA DecisionIsHealthy ==
    ASSUME Decided, NEW c \in Cycles, pc[c] = "decided", decision[c].action = "RETRY_NOW"
    PROVE  route[c] \notin {"DEGRADED", "CRITICAL"}
  <1> DEFINE answer == decision[c].answer
             ctx == Context(failure[c], route[c], decision[c].history)
  <1>1. /\ failure[c] \in Failures(c) /\ answer \in Seq(RecoveryAction)
        /\ decision[c].history \in Histories(c)
        /\ decision[c].action = Decide(answer, ctx).action
    BY DecisionAssumption DEF Decided
  <1>2. ContextOK(ctx) /\ ctx.route = route[c]
    BY <1>1, ContextTypes DEF Context
  <1> HIDE DEF answer, ctx
  <1>3. QED
    BY <1>1, <1>2, RetryIsHealthy

LEMMA NextCommit ==
    ASSUME IInv, NEW c \in Cycles, Commit(c)
    PROVE  IInv'
  <1>1. /\ Typed /\ Decided /\ Healthy /\ pc[c] = "decided"
        /\ pc' = [pc EXCEPT ![c] = "done"]
        /\ decision' = [decision EXCEPT ![c] = NoDecision]
        /\ UNCHANGED <<failure, route, signals, now, lives, log>>
    BY DEF IInv, Commit
  <1>2. PICK s : case' = [case EXCEPT ![c] = [status |-> s, action |-> decision[c].action]]
    BY DEF Commit
  <1>3. /\ \A d \in Cycles : d # c => /\ decision'[d] = decision[d] /\ pc'[d] = pc[d]
                                      /\ case'[d] = case[d]
        /\ pc'[c] = "done" /\ decision'[c] = NoDecision
        /\ case'[c].action = decision[c].action
    BY <1>1, <1>2 DEF Typed
  <1>4. Typed'
    BY <1>1, <1>2 DEF Typed
  <1>5. Logged' /\ Buffered' /\ Counted'
    BY <1>1, <1>3, LogKept DEF Typed
  <1>6. Decided'
    BY <1>1, <1>3 DEF Decided
  <1>7. decision[c].action = "RETRY_NOW" => route[c] \notin {"DEGRADED", "CRITICAL"}
    BY <1>1, DecisionIsHealthy
  <1>8. Healthy'
    BY <1>1, <1>3, <1>7 DEF Healthy
  <1>9. QED
    BY <1>4, <1>5, <1>6, <1>8 DEF IInv

LEMMA NextLost ==
    ASSUME IInv, NEW c \in Cycles, CannotClassify(c) \/ Fail(c)
    PROVE  IInv'
  <1>1. /\ Typed /\ Decided /\ Healthy
        /\ pc' = [pc EXCEPT ![c] = "lost"] /\ pc[c] # "done"
        /\ UNCHANGED <<failure, route, case, queued, signals, now, lives, log>>
        /\ decision' \in {decision, [decision EXCEPT ![c] = NoDecision]}
        /\ pc[c] = "decided" => decision' = [decision EXCEPT ![c] = NoDecision]
    BY DEF IInv, CannotClassify, Fail
  <1>2. /\ \A d \in Cycles : d # c => decision'[d] = decision[d] /\ pc'[d] = pc[d]
        /\ pc'[c] = "lost" /\ decision'[c] = NoDecision
    BY <1>1 DEF Typed, Decided
  <1>3. Typed'
    BY <1>1 DEF Typed
  <1>4. Logged' /\ Buffered' /\ Counted'
    BY <1>1, <1>2, LogKept DEF Typed
  <1>5. Decided'
    BY <1>1, <1>2 DEF Decided
  <1>6. Healthy'
    BY <1>1, <1>2 DEF Healthy
  <1>7. QED
    BY <1>3, <1>4, <1>5, <1>6 DEF IInv

LEMMA NextTick == ASSUME IInv, Tick PROVE IInv'
  <1>1. /\ Typed /\ Decided /\ Healthy /\ now' = now + 1 /\ now \in Nat /\ lives \in Nat
        /\ UNCHANGED <<pc, failure, route, decision, case, queued, signals, lives, log>>
    BY DEF IInv, Tick, process, Typed
  <1>2. Typed'
    BY <1>1 DEF Typed
  <1>3. Logged' /\ Buffered' /\ Counted'
    BY <1>1, LogKept
  <1>4. Decided' /\ Healthy'
    BY <1>1 DEF Decided, Healthy
  <1>5. QED
    BY <1>2, <1>3, <1>4 DEF IInv

LEMMA NextRestart == ASSUME IInv, Restart PROVE IInv'
  <1>1. /\ Typed /\ Decided /\ Healthy /\ lives' = lives + 1 /\ signals' = {}
        /\ now \in Nat /\ lives \in Nat
        /\ pc' = [c \in Cycles |-> IF pc[c] \in {"sensed", "decided"} THEN "lost" ELSE pc[c]]
        /\ decision' = [c \in Cycles |-> NoDecision]
        /\ UNCHANGED <<failure, route, case, queued, now, log>>
    BY DEF IInv, Restart, Typed
  <1>2. Typed'
    BY <1>1 DEF Typed
  <1>3. Logged' /\ Buffered' /\ Counted'
    BY <1>1, LogKept
  <1>4. Decided' /\ Healthy'
    BY <1>1 DEF Decided, Healthy
  <1>5. QED
    BY <1>2, <1>3, <1>4 DEF IInv

LEMMA NextIInv == ASSUME IInv, [Next]_vars PROVE IInv'
  <1>1. CASE Next
    BY <1>1, NextSense, NextDecision, NextCommit, NextLost, NextTick, NextRestart DEF Next
  <1>2. CASE UNCHANGED vars
    <2>1. UNCHANGED <<pc, failure, route, decision, case, queued, signals, now, lives, log>>
      BY <1>2 DEF vars, process
    <2>2. QED
      BY <2>1 DEF IInv, Typed, Logged, Buffered, Counted, InWindow, Decided, Healthy
  <1>3. QED
    BY <1>1, <1>2

LEMMA IInvHolds == Spec => []IInv
  BY InitIInv, NextIInv, PTL DEF Spec

-----------------------------------------------------------------------------
(* The properties.                                                         *)

LEMMA GreatestIndex ==
    ASSUME NEW n \in Nat, NEW S \in SUBSET (1..n), S # {}
    PROVE  \E m \in S : \A i \in S : i <= m
  <1> DEFINE B == {n - i : i \in S}
  <1>1. B \in SUBSET Nat /\ B # {}
    <2>1. \A i \in S : n - i \in Nat
      OBVIOUS
    <2>2. QED
      BY <2>1
  <1>2. PICK b \in B : \A k \in B : b <= k
    <2> HIDE DEF B
    <2>1. QED
      BY <1>1, LeastNatural
  <1>3. PICK m \in S : b = n - m
    BY <1>2
  <1>4. ASSUME NEW i \in S PROVE i <= m
    <2>1. n - m <= n - i /\ i \in 1..n /\ m \in 1..n
      BY <1>2, <1>3
    <2>2. QED
      BY <2>1
  <1>5. QED
    BY <1>4

LEMMA RetriesLimited ==
    ASSUME IInv
    PROVE  AtMostTwoRetriesAtOnce
  <1> SUFFICES ASSUME NEW S \in SUBSET {i \in DOMAIN log :
                                          /\ Chosen(log[i].cycle) = "RETRY_NOW"
                                          /\ DomainOf(failure[log[i].cycle]) = "B2C"},
                      \A i, j \in S : /\ log[i].route = log[j].route
                                      /\ log[i].life = log[j].life
                                      /\ log[i].at - log[j].at <= Window
               PROVE  Cardinality(S) <= 2
    BY DEF AtMostTwoRetriesAtOnce
  <1>1. /\ Typed /\ Counted /\ Decided /\ Healthy
        /\ Len(log) \in Nat /\ DOMAIN log = 1..Len(log) /\ Window \in Nat
        /\ \A i \in DOMAIN log : log[i] \in Entry
    BY DecisionAssumption DEF IInv, Typed
  <1>2. \A i \in DOMAIN log : log[i].at \in Nat /\ log[i].cycle \in Cycles
    BY <1>1 DEF Entry
  <1>3. CASE S = {}
    BY <1>3, FS_EmptySet
  <1>4. CASE S # {}
    <2>1. PICK m \in S : \A i \in S : i <= m
      BY <1>1, <1>4, GreatestIndex
    <2> DEFINE W == InWindow(m)
    <2>2. S \in SUBSET W
      <3>1. ASSUME NEW j \in S PROVE j \in W
        <4>1. j \in 1..m /\ log[j].at \in Nat /\ log[m].at \in Nat
          BY <1>1, <1>2, <2>1
        <4>2. log[m].at - log[j].at <= Window
          BY <2>1
        <4>3. log[j].at >= log[m].at - Window
          BY <1>1, <4>1, <4>2
        <4>4. QED
          BY <2>1, <4>1, <4>3 DEF InWindow
      <3>2. QED
        BY <3>1
    <2>3. IsFiniteSet(W)
      <3>1. IsFiniteSet(1..m)
        BY <1>1, <2>1, FS_Interval
      <3>2. W \in SUBSET (1..m)
        BY DEF InWindow
      <3> HIDE DEF W
      <3>3. QED
        BY <3>1, <3>2, FS_Subset
    <2>4. route[log[m].cycle] \notin {"DEGRADED", "CRITICAL"}
      <3> DEFINE c == log[m].cycle
      <3>1. c \in Cycles /\ Chosen(c) = "RETRY_NOW"
        BY <1>2, <2>1
      <3> HIDE DEF c
      <3>2. case[c] # Absent => route[c] \notin {"DEGRADED", "CRITICAL"}
        BY <1>1, <3>1 DEF Chosen, Healthy
      <3>3. ASSUME case[c] = Absent PROVE route[c] \notin {"DEGRADED", "CRITICAL"}
        <4>1. decision[c].action = "RETRY_NOW"
          BY <3>1, <3>3 DEF Chosen
        <4>2. pc[c] = "decided"
          <5>1. NoDecision.action = Absent /\ Absent # "RETRY_NOW"
            BY DecisionAssumption DEF NoDecision, RecoveryAction
          <5>2. QED
            BY <1>1, <3>1, <4>1, <5>1 DEF Decided
        <4>3. QED
          BY <1>1, <3>1, <4>1, <4>2, DecisionIsHealthy
      <3>4. route[c] \notin {"DEGRADED", "CRITICAL"}
        BY <3>2, <3>3
      <3>5. QED
        BY <3>4 DEF c
    <2>5. route[log[m].cycle] = RouteHealth(Cardinality(W))
      BY <1>1, <2>1 DEF Counted
    <2> HIDE DEF W
    <2>6. Cardinality(W) \in Nat /\ Cardinality(S) \in Nat /\ Cardinality(S) <= Cardinality(W)
      BY <2>2, <2>3, FS_Subset, FS_CardinalityType
    <2>7. ~(Cardinality(W) >= 3)
      BY <2>4, <2>5, <2>6 DEF RouteHealth
    <2>8. QED
      BY <2>6, <2>7
  <1>5. QED
    BY <1>3, <1>4

\* The health a cycle has read is that of all failures of its tenant and domain
\* in the window before it, since the process was started: what the buffer has
\* forgotten, and the cycles that have failed since, make no difference.
THEOREM HealthIsThatOfTheWindow == Spec => []HealthCountsTheWindow
  <1>1. IInv => HealthCountsTheWindow
    BY CountedIsHealth DEF IInv
  <1>2. QED
    BY IInvHolds, <1>1, PTL

\* Of the failures of one consumer route in one window at most two are retried
\* at once, whatever the cycles read and wrote in between and whatever the
\* language model answered.
THEOREM RetriesAreLimited == Spec => []AtMostTwoRetriesAtOnce
  <1>1. IInv => AtMostTwoRetriesAtOnce
    BY RetriesLimited
  <1>2. QED
    BY IInvHolds, <1>1, PTL

\* The policy engine rejects no candidate: the two copies of its rules agree, and
\* the safe fallback of the decision cycle is never taken.
THEOREM CandidatesPass == Spec => []CandidatesPassPolicy
  <1>1. ASSUME IInv PROVE CandidatesPassPolicy
    <2> SUFFICES ASSUME NEW c \in Cycles, pc[c] = "decided",
                        NEW a \in Candidates(decision[c].answer,
                                    Context(failure[c], route[c], decision[c].history))
                 PROVE  VerdictOn(a, Context(failure[c], route[c], decision[c].history)).status
                            # "REJECTED"
      BY DEF CandidatesPassPolicy
    <2> DEFINE answer == decision[c].answer
               ctx == Context(failure[c], route[c], decision[c].history)
    <2>1. answer \in Seq(RecoveryAction) /\ ContextOK(ctx)
      BY <1>1, ContextTypes, DecisionAssumption DEF IInv, Decided
    <2> HIDE DEF answer, ctx
    <2>2. a \in Candidates(answer, ctx)
      BY DEF answer, ctx
    <2>3. VerdictOn(a, ctx).status # "REJECTED"
      BY <2>1, <2>2, CandidatesAre, EligiblePasses
    <2>4. QED
      BY <2>3 DEF ctx
  <1>2. QED
    BY IInvHolds, <1>1, PTL

\* Without five precedents of one action an eligible baseline is what a cycle
\* decides, unless five other actions of the answer displace it.
THEOREM BaselineStands == Spec => []BaselineUnlessDisplaced
  <1>1. ASSUME IInv PROVE BaselineUnlessDisplaced
    <2> SUFFICES ASSUME NEW c \in Cycles, pc[c] = "decided"
                 PROVE  LET d == decision[c]
                            ctx == Context(failure[c], route[c], d.history)
                        IN  (/\ d.history.count < MinHistory
                             /\ Len(d.answer) < MaxCandidates
                             /\ Eligible(ctx.baseline, ctx))
                              => d.action = ctx.baseline
      BY DEF BaselineUnlessDisplaced
    <2> DEFINE d == decision[c]
               ctx == Context(failure[c], route[c], d.history)
    <2>1. /\ d.answer \in Seq(RecoveryAction) /\ ContextOK(ctx)
          /\ d.action = Decide(d.answer, ctx).action /\ ctx.history = d.history
      <3>1. /\ failure[c] \in Failures(c) /\ d.answer \in Answers(c)
            /\ d.history \in Histories(c) /\ d.action = Decide(d.answer, ctx).action
        BY <1>1 DEF IInv, Decided
      <3>2. ctx.history = d.history
        BY DEF Context
      <3>3. QED
        BY <3>1, <3>2, ContextTypes, DecisionAssumption
    <2> HIDE DEF d, ctx
    <2>2. (/\ d.history.count < MinHistory
           /\ Len(d.answer) < MaxCandidates
           /\ Eligible(ctx.baseline, ctx))
            => d.action = ctx.baseline
      BY <2>1, BaselineWins
    <2>3. QED
      BY <2>2 DEF d, ctx
  <1>2. QED
    BY IInvHolds, <1>1, PTL

=============================================================================
