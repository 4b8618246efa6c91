-------------------------- MODULE EvaluationProofs --------------------------
(* Proofs about Evaluation, for any data sets, tools and bounds.            *)
EXTENDS Evaluation, FiniteSetTheorems, SequenceTheorems, WellFoundedInduction, TLAPS

-----------------------------------------------------------------------------
(* Rates, totals and ranks                                                 *)

\* Products of natural numbers keep their order.
LEMMA ProductOrder ==
    ASSUME NEW a \in Nat, NEW b \in Nat, NEW c \in Nat
    PROVE  /\ a * c \in Nat /\ a * c = c * a /\ (a + 1) * c = a * c + c
           /\ a <= b => a * c <= b * c
           /\ a < b /\ c > 0 => a * c < b * c
<1>1. a * c \in Nat /\ a * c = c * a /\ (a + 1) * c = a * c + c
  OBVIOUS
<1>2. ASSUME a <= b
      PROVE  a * c <= b * c
  <2>1. PICK d \in Nat : b = a + d
    BY <1>2
  <2>2. b * c = a * c + d * c /\ d * c \in Nat
    BY <2>1
  <2>. QED  BY <1>1, <2>2
<1>3. ASSUME a < b, c > 0
      PROVE  a * c < b * c
  <2>1. PICK d \in Nat : b = a + d + 1
    <3>1. b - a - 1 \in Nat /\ b = a + (b - a - 1) + 1
      BY <1>3
    <3>. QED  BY <3>1
  <2>2. b * c = a * c + d * c + c /\ d * c \in Nat
    BY <2>1
  <2>. QED  BY <1>1, <1>3, <2>2
<1>. QED  BY <1>1, <1>2, <1>3

\* Whole quotients, their bounds and their order.
LEMMA Quotient ==
    ASSUME NEW a \in Nat, NEW n \in Nat \ {0}
    PROVE  /\ a \div n \in Nat
           /\ (a \div n) * n <= a /\ a < (a \div n + 1) * n
OBVIOUS

LEMMA QuotientOrder ==
    ASSUME NEW a \in Nat, NEW b \in Nat, NEW n \in Nat \ {0}, a <= b
    PROVE  a \div n <= b \div n
<1> DEFINE p == a \div n
           q == b \div n
<1>1. p \in Nat /\ q \in Nat /\ p * n <= a /\ b < (q + 1) * n
  BY Quotient
<1> HIDE DEF p, q
<1>2. p * n \in Nat /\ (q + 1) * n \in Nat /\ p * n < (q + 1) * n
  BY <1>1, ProductOrder
<1>3. ~(q + 1 <= p)
  <2> SUFFICES ASSUME q + 1 <= p PROVE FALSE
    OBVIOUS
  <2>1. (q + 1) * n <= p * n
    BY <1>1, ProductOrder
  <2>. QED  BY <1>2, <2>1
<1>4. p <= q
  BY <1>1, <1>3
<1>. QED  BY <1>4 DEF p, q

\* A rate is full exactly if the part is the whole.
LEMMA RateOf ==
    ASSUME NEW part \in Nat, NEW whole \in Nat, part <= whole
    PROVE  Rate(part, whole) \in 0..Scale /\ (Rate(part, whole) = Scale <=> part = whole)
<1>1. Scale \in Nat /\ Scale > 0
  BY EvaluationAssumption
<1>2. CASE whole = 0
  BY <1>1, <1>2 DEF Rate
<1>3. CASE whole # 0
  <2> DEFINE q == (part * Scale) \div whole
  <2>1. part * Scale \in Nat /\ whole \in Nat \ {0}
    BY <1>1, <1>3, ProductOrder
  <2>2. q \in Nat /\ q * whole <= part * Scale /\ part * Scale < (q + 1) * whole /\ Rate(part, whole) = q
    BY <1>3, <2>1, Quotient DEF Rate
  <2> HIDE DEF q
  <2>3. part * Scale <= whole * Scale /\ (part < whole => part * Scale < whole * Scale)
        /\ whole * Scale = Scale * whole /\ Scale * whole \in Nat /\ q * whole \in Nat
        /\ (q + 1) * whole \in Nat
    BY <1>1, <2>2, ProductOrder
  <2>4. ~(Scale < q)
    <3> SUFFICES ASSUME Scale < q PROVE FALSE
      OBVIOUS
    <3>1. Scale * whole < q * whole
      BY <1>1, <2>1, <2>2, ProductOrder
    <3>. QED  BY <2>1, <2>2, <2>3, <3>1
  <2>5. part = whole => q = Scale
    <3> SUFFICES ASSUME part = whole, q + 1 <= Scale PROVE FALSE
      BY <1>1, <2>2, <2>4
    <3>1. (q + 1) * whole <= Scale * whole
      BY <1>1, <2>1, <2>2, ProductOrder
    <3>. QED  BY <2>1, <2>2, <2>3, <3>1
  <2>6. q = Scale => part = whole
    BY <2>1, <2>2, <2>3
  <2>. QED  BY <1>1, <2>2, <2>4, <2>5, <2>6
<1>. QED  BY <1>2, <1>3

\* Induction on the numbers up to n, for the set of those that have a property.
LEMMA UpTo ==
    ASSUME NEW n \in Nat, NEW S, 0 \in S, \A i \in 1..n : i - 1 \in S => i \in S
    PROVE  \A i \in 0..n : i \in S
<1> SUFFICES ASSUME \E i \in 0..n : i \notin S
             PROVE  FALSE
  OBVIOUS
<1> DEFINE R == OpToRel(<, Nat)
           Bad == {i \in 0..n : i \notin S}
<1>1. IsWellFoundedOn(R, Nat)
  BY NatLessThanWellFounded
<1>2. \A x, y \in Nat : x < y => <<x, y>> \in R
  BY DEF OpToRel
<1>3. Bad \subseteq Nat /\ Bad # {}
  OBVIOUS
<1> HIDE DEF R, Bad
<1>4. PICK m \in Bad : \A k \in Bad : <<k, m>> \notin R
  BY <1>1, <1>3, WFMin
<1>5. m \in 0..n /\ m \notin S
  BY <1>4 DEF Bad
<1>6. m \in 1..n /\ m - 1 \in 0..n /\ m - 1 < m
  BY <1>5
<1>7. m - 1 \notin Bad
  BY <1>2, <1>3, <1>4, <1>6
<1>. QED  BY <1>5, <1>6, <1>7 DEF Bad

\* What Total computes on the way.
LEMMA PartialSums ==
    ASSUME NEW n \in Nat, NEW f \in [1..n -> Nat]
    PROVE  \E u \in [0..n -> Nat] :
              /\ u[0] = 0 /\ \A i \in 1..n : u[i] = u[i - 1] + f[i]
              /\ Total(f) = u[n]
<1> DEFINE Sums(m, u) == u = [i \in 0..m |-> IF i = 0 THEN 0 ELSE u[i - 1] + f[i]]
           Summable == {m \in Nat : \E u : Sums(m, u)}
<1>1. 0 \in Summable
  <2> DEFINE u == [i \in 0..0 |-> 0]
  <2>1. u = [i \in 0..0 |-> u[i]] /\ \A i \in 0..0 : u[i] = 0 /\ i = 0
    OBVIOUS
  <2> HIDE DEF u
  <2>2. Sums(0, u)
    BY <2>1
  <2>. QED  BY <2>2
<1>2. ASSUME NEW m \in 1..n, m - 1 \in Summable
      PROVE  m \in Summable
  <2>1. PICK v : Sums(m - 1, v)
    BY <1>2
  <2> DEFINE u == [i \in 0..m |-> IF i = m THEN v[m - 1] + f[m] ELSE v[i]]
  <2>2. ASSUME NEW i \in 0..m
        PROVE  u[i] = IF i = 0 THEN 0 ELSE u[i - 1] + f[i]
    <3>1. CASE i = m
      BY <3>1
    <3>2. CASE i # m
      <4>1. i \in 0..m - 1 /\ u[i] = v[i] /\ (i # 0 => u[i - 1] = v[i - 1])
        BY <3>2
      <4>2. v[i] = IF i = 0 THEN 0 ELSE v[i - 1] + f[i]
        BY <2>1, <4>1
      <4>. QED  BY <4>1, <4>2
    <3>. QED  BY <3>1, <3>2
  <2>3. u = [i \in 0..m |-> u[i]]
    OBVIOUS
  <2> HIDE DEF u
  <2>4. Sums(m, u)
    BY <2>2, <2>3
  <2>. QED  BY <2>4
<1> HIDE DEF Summable
<1>3. n \in Summable
  <2>1. \A i \in 1..n : i - 1 \in Summable => i \in Summable
    BY <1>2
  <2> HIDE DEF Sums
  <2>2. \A i \in 0..n : i \in Summable
    BY <1>1, <2>1, UpTo
  <2>. QED  BY <2>2
<1> DEFINE w == CHOOSE w : w = [i \in 0..Len(f) |-> IF i = 0 THEN 0 ELSE w[i - 1] + f[i]]
<1>4. f \in Seq(Nat) /\ Len(f) = n
  OBVIOUS
<1>5. Total(f) = w[n]
  BY <1>4 DEF Total
<1>6. w = [i \in 0..n |-> IF i = 0 THEN 0 ELSE w[i - 1] + f[i]]
  <2>1. PICK u : Sums(n, u)
    BY <1>3 DEF Summable
  <2>2. \E v : v = [i \in 0..Len(f) |-> IF i = 0 THEN 0 ELSE v[i - 1] + f[i]]
    BY <1>4, <2>1
  <2>. QED  BY <1>4, <2>2
<1> HIDE DEF w
<1>7. w[0] = 0 /\ \A i \in 1..n : w[i] = w[i - 1] + f[i]
  BY <1>6
<1>8. w \in [0..n -> Nat]
  <2> DEFINE S == {i \in 0..n : w[i] \in Nat}
  <2>1. 0 \in S /\ \A i \in 1..n : i - 1 \in S => i \in S
    BY <1>7
  <2> HIDE DEF S
  <2>2. \A i \in 0..n : i \in S
    BY <2>1, UpTo
  <2>. QED  BY <1>6, <2>2 DEF S
<1>. QED  BY <1>5, <1>7, <1>8

\* A total of marks lies between the full ones and what they could be.
LEMMA TotalOfMarks ==
    ASSUME NEW n \in Nat, NEW f \in [1..n -> 0..Scale],
           NEW P \in SUBSET (1..n), \A i \in P : f[i] = Scale
    PROVE  /\ Total(f) \in Nat
           /\ Cardinality(P) * Scale <= Total(f) /\ Total(f) <= n * Scale
<1>1. Scale \in Nat /\ f \in [1..n -> Nat]
  BY EvaluationAssumption
<1>2. PICK u \in [0..n -> Nat] : /\ u[0] = 0 /\ \A i \in 1..n : u[i] = u[i - 1] + f[i]
                                /\ Total(f) = u[n]
  BY <1>1, PartialSums
<1> DEFINE upto(i) == P \cap 1..i
           S == {i \in 0..n : Cardinality(upto(i)) * Scale <= u[i] /\ u[i] <= i * Scale}
<1>3. 0 \in S
  BY <1>1, <1>2, FS_EmptySet
<1>4. ASSUME NEW i \in 1..n, i - 1 \in S
      PROVE  i \in S
  <2> DEFINE c == Cardinality(upto(i - 1))
  <2>1. IsFiniteSet(upto(i - 1)) /\ c \in Nat
    <3>1. IsFiniteSet(1..i - 1)
      BY FS_Interval
    <3>2. upto(i - 1) \in SUBSET (1..i - 1)
      OBVIOUS
    <3> HIDE DEF upto
    <3>. QED  BY <3>1, <3>2, FS_Subset, FS_CardinalityType
  <2>2. u[i] = u[i - 1] + f[i] /\ u[i] \in Nat /\ u[i - 1] \in Nat /\ f[i] \in 0..Scale
    BY <1>2
  <2>3. c * Scale <= u[i - 1] /\ u[i - 1] <= (i - 1) * Scale
    BY <1>4
  <2>4. i * Scale = (i - 1) * Scale + Scale /\ (c + 1) * Scale = c * Scale + Scale
        /\ c * Scale \in Nat /\ (i - 1) * Scale \in Nat
    <3>1. i - 1 \in Nat /\ i = (i - 1) + 1
      OBVIOUS
    <3>. QED  BY <1>1, <2>1, <3>1, ProductOrder
  <2>5. Cardinality(upto(i)) = IF i \in P THEN c + 1 ELSE c
    <3>1. CASE i \in P
      <4>1. upto(i) = upto(i - 1) \cup {i} /\ i \notin upto(i - 1)
        BY <3>1
      <4>. QED  BY <2>1, <3>1, <4>1, FS_AddElement
    <3>2. CASE i \notin P
      <4>1. upto(i) = upto(i - 1)
        BY <3>2
      <4>. QED  BY <3>2, <4>1
    <3>. QED  BY <3>1, <3>2
  <2> HIDE DEF c
  <2>6. Cardinality(upto(i)) * Scale <= u[i]
    <3>1. CASE i \in P
      <4>1. Cardinality(upto(i)) = c + 1 /\ f[i] = Scale
        BY <2>5, <3>1
      <4> HIDE DEF upto
      <4>. QED  BY <1>1, <2>2, <2>3, <2>4, <4>1
    <3>2. CASE i \notin P
      <4>1. Cardinality(upto(i)) = c
        BY <2>5, <3>2
      <4> HIDE DEF upto
      <4>. QED  BY <1>1, <2>2, <2>3, <2>4, <4>1
    <3>. QED  BY <3>1, <3>2
  <2>7. u[i] <= i * Scale
    BY <1>1, <2>2, <2>3, <2>4
  <2>. QED  BY <2>6, <2>7
<1> HIDE DEF S
<1>5. \A i \in 0..n : i \in S
  BY <1>3, <1>4, UpTo
<1>6. upto(n) = P
  OBVIOUS
<1>. QED  BY <1>2, <1>5, <1>6 DEF S

\* A sequence of numbers that is not empty has a greatest one.
LEMMA Greatest ==
    ASSUME NEW n \in Nat \ {0}, NEW f \in [1..n -> Nat]
    PROVE  \E p \in 1..n : \A i \in 1..n : f[i] <= f[p]
<1> DEFINE S == {m \in 0..n : m = 0 \/ \E p \in 1..m : \A i \in 1..m : f[i] <= f[p]}
<1>1. 0 \in S
  OBVIOUS
<1>2. ASSUME NEW m \in 1..n, m - 1 \in S
      PROVE  m \in S
  <2>1. \A i \in 1..m : i \in 1..m - 1 \/ i = m
    OBVIOUS
  <2>2. CASE m = 1
    <3>1. \A i \in 1..m : f[i] <= f[m]
      BY <2>2
    <3>. QED  BY <3>1
  <2>3. CASE m # 1
    <3>1. PICK p \in 1..m - 1 : \A i \in 1..m - 1 : f[i] <= f[p]
      BY <1>2, <2>3
    <3>2. CASE f[m] <= f[p]
      BY <2>1, <3>1, <3>2
    <3>3. CASE ~(f[m] <= f[p])
      <4>1. \A i \in 1..m : f[i] <= f[m]
        BY <2>1, <3>1, <3>3
      <4>. QED  BY <4>1
    <3>. QED  BY <3>2, <3>3
  <2>. QED  BY <2>2, <2>3
<1> HIDE DEF S
<1>3. \A m \in 0..n : m \in S
  BY <1>1, <1>2, UpTo
<1>4. n \in S /\ n # 0
  BY <1>3
<1>. QED  BY <1>4 DEF S

\* At least so many values as the rank says are not above the one at the rank.
LEMMA RankReached ==
    ASSUME NEW n \in Nat \ {0}, NEW f \in [1..n -> Nat], NEW rank \in 1..n
    PROVE  /\ AtRank(f, rank) \in Range(f)
           /\ Cardinality({i \in 1..n : f[i] <= AtRank(f, rank)}) >= rank
<1> DEFINE R == OpToRel(<, Nat)
           NotAbove(v) == {i \in 1..n : f[i] <= v}
           V == {v \in Range(f) : Cardinality(NotAbove(v)) >= rank}
<1>1. IsWellFoundedOn(R, Nat)
  BY NatLessThanWellFounded
<1>2. \A x, y \in Nat : x < y => <<x, y>> \in R
  BY DEF OpToRel
<1>3. V \subseteq Nat
  BY DEF Range
<1>4. V # {}
  <2>1. PICK p \in 1..n : \A i \in 1..n : f[i] <= f[p]
    BY Greatest
  <2>2. NotAbove(f[p]) = 1..n
    BY <2>1
  <2>3. Cardinality(1..n) = n
    BY FS_Interval
  <2>4. f[p] \in Range(f)
    BY DEF Range
  <2>. QED  BY <2>2, <2>3, <2>4
<1> HIDE DEF R
<1>5. \E v \in V : \A w \in V : v <= w
  <2> HIDE DEF V
  <2>1. PICK v \in V : \A w \in V : <<w, v>> \notin R
    BY <1>1, <1>3, <1>4, WFMin
  <2>2. \A w \in V : ~(w < v)
    BY <1>2, <1>3, <2>1
  <2>. QED  BY <1>3, <2>2
<1>6. AtRank(f, rank) = Min(V)
  BY DEF AtRank
<1>7. Min(V) \in V
  <2> HIDE DEF V
  <2>. QED  BY <1>5 DEF Min
<1>. QED  BY <1>6, <1>7

\* The 95th percentile is one of the values, and 95 of 100 are not above it.
LEMMA NinetyFiveOfHundred ==
    ASSUME NEW n \in Nat \ {0}, NEW f \in [1..n -> Nat]
    PROVE  /\ \E i \in 1..n : f[i] = Percentile95(f)
           /\ 100 * Cardinality({i \in 1..n : f[i] <= Percentile95(f)}) >= 95 * n
<1> DEFINE rank == (95 * n + 99) \div 100
<1>1. rank \in 1..n /\ 100 * rank >= 95 * n
  OBVIOUS
<1>2. Len(f) = n
  BY LenProperties
<1>3. Percentile95(f) = AtRank(f, rank)
  BY <1>2 DEF Percentile95
<1> HIDE DEF rank
<1>4. Percentile95(f) \in Range(f)
      /\ Cardinality({i \in 1..n : f[i] <= Percentile95(f)}) >= rank
  BY <1>1, <1>3, RankReached
<1>5. Cardinality({i \in 1..n : f[i] <= Percentile95(f)}) \in Nat
  <2>1. IsFiniteSet(1..n) /\ {i \in 1..n : f[i] <= Percentile95(f)} \in SUBSET (1..n)
    BY FS_Interval
  <2>. QED  BY <2>1, FS_Subset, FS_CardinalityType
<1>. QED  BY <1>1, <1>4, <1>5 DEF Range

-----------------------------------------------------------------------------
(* Types                                                                    *)

\* A set of positions has a last one.
LEMMA LastOf ==
    ASSUME NEW n \in Nat, NEW S \in SUBSET (1..n), S # {}
    PROVE  Max(S) \in S /\ \A x \in S : Max(S) >= x
<1> DEFINE R == OpToRel(<, Nat)
           T == {n - x : x \in S}
<1>1. IsWellFoundedOn(R, Nat)
  BY NatLessThanWellFounded
<1>2. \A x, y \in Nat : x < y => <<x, y>> \in R
  BY DEF OpToRel
<1>3. T \subseteq Nat /\ T # {}
  <2>1. \A x \in S : n - x \in Nat
    OBVIOUS
  <2>. QED  BY <2>1
<1> HIDE DEF R, T
<1>4. PICK t \in T : \A u \in T : <<u, t>> \notin R
  BY <1>1, <1>3, WFMin
<1>5. \A u \in T : ~(u < t)
  BY <1>2, <1>3, <1>4
<1>6. PICK m \in S : t = n - m
  BY <1>4 DEF T
<1>7. \A x \in S : m >= x
  BY <1>5, <1>6 DEF T
<1>. QED  BY <1>6, <1>7 DEF Max

LEMMA NewTaskTyped == \A s \in TaskStatus : NewTask(s) \in TaskRecord
BY DEF NewTask, TaskRecord

LEMMA ToolStepTyped ==
    ASSUME task \in TaskRecord, NEW tool \in Tools, NEW retried \in BOOLEAN, NEW ok \in BOOLEAN,
           NEW tokens \in Nat
    PROVE  ToolStep(tool, retried, ok, tokens) \in TaskRecord
<1> DEFINE step == [tool |-> tool, ok |-> ok]
           end == IF ok THEN "SUCCESS" ELSE "FAILED"
           start == IF retried THEN <<"RETRYING">> ELSE <<>>
           R == {"RETRYING", "SUCCESS", "FAILED"}
<1>1. Append(task.steps, step) \in Seq([tool : Tools, ok : BOOLEAN])
  BY DEF TaskRecord
<1>2. task.retries \o start \o <<end>> \in Seq(R)
  <2>1. task.retries \in Seq(R) /\ start \in Seq(R) /\ <<end>> \in Seq(R)
    <3>1. task.retries \in Seq(R)
      BY DEF TaskRecord
    <3>2. <<"RETRYING">> \in Seq(R) /\ <<>> \in Seq(R) /\ end \in R
      OBVIOUS
    <3> HIDE DEF R, end
    <3>. QED  BY <3>1, <3>2
  <2> HIDE DEF start, R, end
  <2>. QED  BY <2>1
<1>3. task.tokens + tokens \in Nat
  BY DEF TaskRecord
<1>. QED  BY <1>1, <1>2, <1>3 DEF ToolStep, TaskRecord

\* A case is scored with values of their types.
LEMMA ScoreTyped ==
    ASSUME TypeOK, NEW c \in Case, NEW latency \in Latencies
    PROVE  ScoreCase(c, latency) \in CaseResult /\ ScoreCase(c, latency).id = c.id
<1>1. Scale \in Nat
  BY EvaluationAssumption
<1>2. \A part, whole \in Nat : Rate(part, whole) \in Int
  BY <1>1 DEF Rate
<1>3. /\ task.steps \in Seq([tool : Tools, ok : BOOLEAN]) /\ task.status \in TaskStatus
      /\ task.replans \in Nat /\ task.tokens \in Nat
  BY DEF TypeOK, TaskRecord
<1>4. c.id \in STRING /\ c.tools \in Seq(Tools) /\ c.completed \subseteq PlanSteps
  BY DEF Case
<1>5. SequenceAccuracy(c.tools, ActualTools) \in Int
  <2>1. Len(ActualTools) \in Nat /\ Len(c.tools) \in Nat
    BY <1>3, <1>4 DEF ActualTools
  <2>2. Cardinality(Matches(c.tools, ActualTools)) \in Nat
    <3>1. Matches(c.tools, ActualTools) \subseteq 1..Len(c.tools)
      BY <1>4 DEF Matches
    <3>2. IsFiniteSet(1..Len(c.tools))
      BY <2>1, FS_Interval
    <3>3. IsFiniteSet(Matches(c.tools, ActualTools))
      BY <3>1, <3>2, FS_Subset
    <3>. QED  BY <3>3, FS_CardinalityType
  <2>3. Larger(Len(c.tools), Len(ActualTools)) \in Nat
    BY <2>1 DEF Larger
  <2>. QED  BY <1>2, <2>2, <2>3 DEF SequenceAccuracy
<1>6. CompletionRate(c.completed, task.completed) \in Int
  <2>1. IsFiniteSet(c.completed) /\ c.completed \cap task.completed \in SUBSET c.completed
    BY <1>4, EvaluationAssumption, FS_Subset
  <2>2. Cardinality(c.completed) \in Nat /\ Cardinality(c.completed \cap task.completed) \in Nat
    BY <2>1, FS_Subset, FS_CardinalityType
  <2>. QED  BY <1>2, <2>2 DEF CompletionRate
<1>7. ArtifactValidation(c.artifact) \in BOOLEAN \cup {None}
  BY DEF ArtifactValidation
<1>8. FailureRecovery(c.recovery) \in BOOLEAN \cup {None}
  BY DEF FailureRecovery
<1>9. Checks(c) \in BOOLEAN
  BY DEF Checks
<1>10. Len(task.steps) \in Nat
  BY <1>3
<1>. QED
  BY <1>3, <1>4, <1>5, <1>6, <1>7, <1>8, <1>9, <1>10 DEF ScoreCase, CaseResult

LEMMA ValidateTyped ==
    ASSUME TypeOK, NEW failing, Validate(failing)
    PROVE  task' \in TaskRecord /\ error' \in BOOLEAN
<1> DEFINE new == SubSeq(task.artifacts, task.already + 1, Len(task.artifacts))
           checks == IF new = <<>>
                     THEN IF Current.requireArtifact THEN <<[key |-> None, ok |-> FALSE]>> ELSE <<>>
                     ELSE [i \in DOMAIN new |-> [key |-> new[i].key, ok |-> i \notin failing /\ Confirmed(new[i])]]
           checked == [task EXCEPT !.checks = @ \o checks,
                                   !.events = IF checks = <<>> THEN @ ELSE @ \cup {"artifact_check"}]
           accepted == \A i \in DOMAIN checks : checks[i].ok
           again == ~accepted /\ task.repairs < MaxRecovery
           A == [key : Keys, size : Sizes]
           C == [key : Keys \cup {None}, ok : BOOLEAN]
<1>1. task \in TaskRecord /\ task.artifacts \in Seq(A) /\ task.already \in Nat /\ task.repairs \in Nat
  BY DEF TypeOK, TaskRecord
<1>2. new \in Seq(A)
  <2>1. /\ task.already + 1 \in Int /\ Len(task.artifacts) \in Int
        /\ \A i \in task.already + 1..Len(task.artifacts) : task.artifacts[i] \in A
    <3> HIDE DEF A
    <3>. QED  BY <1>1
  <2> HIDE DEF A
  <2>. QED  BY <2>1, SubSeqProperties
<1>3. checks \in Seq(C)
  <2>1. <<[key |-> None, ok |-> FALSE]>> \in Seq(C) /\ <<>> \in Seq(C)
    OBVIOUS
  <2>2. [i \in DOMAIN new |-> [key |-> new[i].key, ok |-> i \notin failing /\ Confirmed(new[i])]] \in Seq(C)
    <3>1. \A i \in 1..Len(new) : [key |-> new[i].key, ok |-> i \notin failing /\ Confirmed(new[i])] \in C
      BY <1>2 DEF Confirmed
    <3>2. DOMAIN new = 1..Len(new) /\ Len(new) \in Nat
      BY <1>2
    <3> HIDE DEF new, C
    <3>. QED  BY <3>1, <3>2
  <2> HIDE DEF new, C
  <2>. QED  BY <2>1, <2>2
<1> HIDE DEF new, checks
<1>4. checked \in TaskRecord
  <2>1. task.checks \in Seq(C)
    BY <1>1 DEF TaskRecord
  <2>2. task.checks \o checks \in Seq(C)
    <3> HIDE DEF C
    <3>. QED  BY <1>3, <2>1
  <2>3. (IF checks = <<>> THEN task.events ELSE task.events \cup {"artifact_check"}) \in SUBSET {"artifact_check"}
    BY <1>1 DEF TaskRecord
  <2>. QED  BY <1>1, <2>2, <2>3 DEF TaskRecord
<1>5. /\ task' = IF accepted THEN [checked EXCEPT !.status = "SUCCESS", !.delivered = new]
                 ELSE IF again THEN [checked EXCEPT !.already = Len(task.artifacts), !.repairs = @ + 1]
                 ELSE [checked EXCEPT !.status = "FAILED"]
      /\ error' = ~(accepted \/ again)
  BY DEF Validate, new, checks
<1>6. Len(task.artifacts) \in Nat
  BY <1>1
<1> HIDE DEF checked, accepted, again
<1>7. [checked EXCEPT !.status = "SUCCESS", !.delivered = new] \in TaskRecord
  BY <1>2, <1>4 DEF TaskRecord, TaskStatus
<1>8. [checked EXCEPT !.already = Len(task.artifacts), !.repairs = @ + 1] \in TaskRecord
  <2>1. checked.repairs + 1 \in Nat
    BY <1>4 DEF TaskRecord
  <2>. QED  BY <1>4, <1>6, <2>1 DEF TaskRecord
<1>9. [checked EXCEPT !.status = "FAILED"] \in TaskRecord
  BY <1>4 DEF TaskRecord, TaskStatus
<1>. QED  BY <1>5, <1>7, <1>8, <1>9

-----------------------------------------------------------------------------
(* The invariant                                                            *)

\* The results are those of the first cases, under their ids; a case is worked
\* on only if it has no result yet, and the report waits for all of them.
Scored ==
    /\ Len(results) <= Len(cases)
    /\ \A i \in 1..Len(results) : results[i].id = cases[i].id
    /\ phase = "load" => cases = <<>> /\ results = <<>>
    /\ phase \in {"work", "score"} => Len(results) < Len(cases)
    /\ phase = "report" => Len(results) = Len(cases)
    /\ cases # <<>> => DatasetOK(cases)
    /\ report # None =>
          phase = "done" /\ Len(results) = Len(cases) /\ report.count = Len(results)

\* The record shows a failure of a tool.
ShowsFault ==
    \/ \E i \in DOMAIN task.steps : ~task.steps[i].ok
    \/ \E i \in DOMAIN task.retries : task.retries[i] \in {"RETRYING", "FAILED"}

\* What the record says of failures is true; only a success delivers, and what
\* it delivers is confirmed and was found so by the last check of its key.
Truthful ==
    phase \in {"work", "score"} =>
        /\ phase = "work" => task.status = "RUNNING"
        /\ faulted <=> ShowsFault
        /\ task.status # "SUCCESS" => task.delivered = <<>>
        /\ \A i \in DOMAIN task.delivered :
              LatestCheck(task.delivered[i].key) /\ Confirmed(task.delivered[i])

\* What the marks of a case say of each other.
Marked(r, c) ==
    /\ r.accuracy \in 0..Scale /\ r.completion \in 0..Scale
    /\ r.passed => r.accuracy = Scale /\ r.completion = Scale
    /\ r.accuracy = Scale => r.calls = Len(c.tools)
    /\ r.artifacts = None <=> ~c.artifact

\* The results bear the marks of their cases, and the report is drawn from them.
Graded ==
    /\ \A i \in 1..Len(results) : Marked(results[i], cases[i])
    /\ phase = "report" => results # <<>>
    /\ report # None => results # <<>> /\ report = Aggregate

IInv == TypeOK /\ Scored /\ Truthful /\ Graded

LEMMA ScoreMarks ==
    ASSUME TypeOK, NEW c \in Case, NEW latency \in Latencies
    PROVE  Marked(ScoreCase(c, latency), c)
<1> DEFINE e == Len(c.tools)
           a == Len(task.steps)
           M == Matches(c.tools, ActualTools)
           hits == c.completed \cap task.completed
<1>1. /\ e \in Nat /\ a \in Nat /\ DOMAIN c.tools = 1..e
      /\ DOMAIN ActualTools = 1..a /\ Len(ActualTools) = a
  BY DEF TypeOK, TaskRecord, Case, ActualTools
<1>2. /\ IsFiniteSet(M) /\ Cardinality(M) \in Nat /\ Cardinality(M) <= e /\ Cardinality(M) <= a
      /\ M \subseteq 1..e
  <2>1. M \subseteq 1..e /\ M \subseteq 1..a
    BY <1>1 DEF Matches
  <2>2. e \in Nat /\ a \in Nat
    BY <1>1
  <2> HIDE DEF M, e, a
  <2>3. IsFiniteSet(1..e) /\ Cardinality(1..e) = e
    BY <2>2, FS_Interval
  <2>4. IsFiniteSet(1..a) /\ Cardinality(1..a) = a
    BY <2>2, FS_Interval
  <2>. QED  BY <2>1, <2>3, <2>4, FS_Subset, FS_CardinalityType
<1>3. /\ Larger(e, a) \in Nat /\ Cardinality(M) <= Larger(e, a)
      /\ Cardinality(M) = Larger(e, a) => e = a
  BY <1>1, <1>2 DEF Larger
<1>4. SequenceAccuracy(c.tools, ActualTools) = Rate(Cardinality(M), Larger(e, a))
  BY <1>1 DEF SequenceAccuracy
<1>5. ActualTools = c.tools => Cardinality(M) = Larger(e, a)
  <2> SUFFICES ASSUME ActualTools = c.tools
               PROVE  Cardinality(M) = Larger(e, a)
    OBVIOUS
  <2>1. M = 1..e /\ a = e
    BY <1>1 DEF Matches
  <2>. QED  BY <1>1, <2>1, FS_Interval DEF Larger
<1>6. /\ Cardinality(c.completed) \in Nat /\ Cardinality(hits) \in Nat
      /\ Cardinality(hits) <= Cardinality(c.completed)
      /\ c.completed \subseteq task.completed => hits = c.completed
  <2>1. IsFiniteSet(c.completed) /\ hits \in SUBSET c.completed
    BY EvaluationAssumption, FS_Subset DEF Case
  <2>. QED  BY <2>1, FS_Subset, FS_CardinalityType
<1>7. CompletionRate(c.completed, task.completed) = Rate(Cardinality(hits), Cardinality(c.completed))
  BY DEF CompletionRate
<1> HIDE DEF M, hits, e, a
<1>8. /\ SequenceAccuracy(c.tools, ActualTools) \in 0..Scale
      /\ SequenceAccuracy(c.tools, ActualTools) = Scale => a = e
      /\ ActualTools = c.tools => SequenceAccuracy(c.tools, ActualTools) = Scale
  BY <1>2, <1>3, <1>4, <1>5, RateOf
<1>9. /\ CompletionRate(c.completed, task.completed) \in 0..Scale
      /\ c.completed \subseteq task.completed => CompletionRate(c.completed, task.completed) = Scale
  BY <1>6, <1>7, RateOf
<1>10. (ArtifactValidation(c.artifact) = None) <=> ~c.artifact
  <2>1. c.artifact \in BOOLEAN /\ None \notin BOOLEAN
    BY EvaluationAssumption DEF Case
  <2>. QED  BY <2>1 DEF ArtifactValidation
<1>11. Checks(c) => ActualTools = c.tools /\ c.completed \subseteq task.completed
  BY DEF Checks
<1>. QED  BY <1>8, <1>9, <1>10, <1>11 DEF ScoreCase, Marked, a, e

LEMMA TypeStep == IInv /\ Next => TypeOK'
<1> SUFFICES ASSUME IInv, Next
             PROVE  TypeOK'
  OBVIOUS
<1>1. /\ task \in TaskRecord /\ cases \in Seq(Case) /\ results \in Seq(CaseResult)
      /\ error \in BOOLEAN /\ faulted \in BOOLEAN
      /\ phase \in {"load", "next", "work", "score", "report", "done"}
      /\ objects \in [Keys -> Sizes \cup {None}]
  BY DEF IInv, TypeOK
<1>2. ASSUME NEW d \in Datasets, LoadDataset(d)
      PROVE  TypeOK'
  <2>1. cases' \in Seq(Case) /\ phase' \in {"next", "done"}
    BY <1>1, <1>2, EvaluationAssumption DEF LoadDataset
  <2>2. UNCHANGED <<task, error, faulted, objects, results>>
    BY <1>2 DEF LoadDataset, truth
  <2>. QED  BY <1>1, <2>1, <2>2 DEF TypeOK
<1>3. CASE Execute \/ AdapterFails
  <2>1. NewTask("RUNNING") \in TaskRecord /\ NewTask("FAILED") \in TaskRecord
    BY NewTaskTyped DEF TaskStatus
  <2>2. /\ task' \in TaskRecord /\ error' \in BOOLEAN /\ faulted' \in BOOLEAN
        /\ phase' \in {"work", "score"} /\ UNCHANGED <<cases, objects, results>>
    BY <1>3, <2>1 DEF Execute, AdapterFails
  <2>. QED  BY <1>1, <2>2 DEF TypeOK
<1>4. CASE Score
  <2>1. Current \in Case
    <3>1. Len(results) < Len(cases)
      BY <1>4 DEF Score, IInv, Scored
    <3>2. Len(results) + 1 \in 1..Len(cases)
      BY <1>1, <3>1
    <3>. QED  BY <1>1, <3>2 DEF Current
  <2>2. PICK latency \in Latencies : results' = Append(results, ScoreCase(Current, latency))
    BY <1>4 DEF Score
  <2>3. ScoreCase(Current, latency) \in CaseResult
    BY <2>1, ScoreTyped DEF IInv
  <2>4. results' \in Seq(CaseResult)
    BY <1>1, <2>2, <2>3
  <2>. QED  BY <1>1, <1>4, <2>4 DEF TypeOK, Score, truth
<1>5. CASE Report
  BY <1>1, <1>5 DEF TypeOK, Report, truth
<1>6. ASSUME NEW t, t \in TaskRecord, Works(t), faulted' \in BOOLEAN,
             objects' \in [Keys -> Sizes \cup {None}]
      PROVE  TypeOK'
  BY <1>1, <1>6 DEF TypeOK, Works
<1>7. ASSUME NEW tool \in Tools, NEW retried \in BOOLEAN, NEW ok \in BOOLEAN, NEW n \in TokenCounts,
             CallTool(tool, retried, ok, n)
      PROVE  TypeOK'
  <2>1. ToolStep(tool, retried, ok, n) \in TaskRecord
    BY <1>1, ToolStepTyped, EvaluationAssumption
  <2>2. faulted' \in BOOLEAN /\ Works(ToolStep(tool, retried, ok, n)) /\ UNCHANGED objects
    BY <1>1, <1>7 DEF CallTool
  <2>. QED  BY <1>1, <1>6, <2>1, <2>2
<1>8. ASSUME NEW key \in Keys, NEW size \in Sizes, NEW stored \in Sizes \cup {None},
             SaveReport(key, size, stored)
      PROVE  TypeOK'
  <2> DEFINE step == ToolStep("save_report", FALSE, TRUE, 0)
             new == [step EXCEPT !.artifacts = Append(@, [key |-> key, size |-> size])]
  <2>1. step \in TaskRecord
    BY <1>1, ToolStepTyped, EvaluationAssumption
  <2> HIDE DEF step
  <2>2. Append(step.artifacts, [key |-> key, size |-> size]) \in Seq([key : Keys, size : Sizes])
    BY <2>1 DEF TaskRecord
  <2>3. new \in TaskRecord
    BY <2>1, <2>2 DEF TaskRecord
  <2>4. Works(new) /\ faulted' = faulted
    BY <1>8 DEF SaveReport, step
  <2>5. objects' \in [Keys -> Sizes \cup {None}]
    BY <1>1, <1>8 DEF SaveReport, Upload
  <2>. QED  BY <1>1, <1>6, <2>3, <2>4, <2>5
<1>13. ASSUME NEW key \in Keys, NEW stored \in Sizes \cup {None}, SaveFails(key, stored)
       PROVE  TypeOK'
  <2>1. ToolStep("save_report", FALSE, FALSE, 0) \in TaskRecord
    BY <1>1, ToolStepTyped, EvaluationAssumption
  <2>2. Works(ToolStep("save_report", FALSE, FALSE, 0)) /\ faulted' = TRUE
    BY <1>13 DEF SaveFails
  <2>3. objects' \in [Keys -> Sizes \cup {None}]
    BY <1>1, <1>13 DEF SaveFails, Upload
  <2>. QED  BY <1>6, <2>1, <2>2, <2>3
<1>9. ASSUME NEW s \in PlanSteps, CompleteStep(s)
      PROVE  TypeOK'
  <2>1. [task EXCEPT !.completed = @ \cup {s}] \in TaskRecord
    BY <1>1 DEF TaskRecord
  <2>. QED  BY <1>1, <1>6, <1>9, <2>1 DEF CompleteStep, truth
<1>10. CASE Replan
  <2>1. task.replans + 1 \in Nat
    BY <1>1 DEF TaskRecord
  <2>2. [task EXCEPT !.replans = @ + 1] \in TaskRecord
    BY <1>1, <2>1 DEF TaskRecord
  <2>. QED  BY <1>1, <1>6, <1>10, <2>2 DEF Replan, truth
<1>11. CASE Raise
  <2>1. [task EXCEPT !.status = "FAILED"] \in TaskRecord
    BY <1>1 DEF TaskRecord, TaskStatus
  <2>. QED  BY <1>1, <1>11, <2>1 DEF TypeOK, Raise, truth
<1>12. ASSUME NEW failing, Validate(failing)
       PROVE  TypeOK'
  <2>1. task' \in TaskRecord /\ error' \in BOOLEAN
    BY <1>12, ValidateTyped DEF IInv
  <2>2. phase' \in {"work", "score"} /\ UNCHANGED <<cases, faulted, objects, results>>
    BY <1>12 DEF Validate, truth
  <2>. QED  BY <1>1, <2>1, <2>2 DEF TypeOK
<1>. QED
  BY <1>2, <1>3, <1>4, <1>5, <1>7, <1>8, <1>9, <1>10, <1>11, <1>12, <1>13 DEF Next, Runner, Runtime

LEMMA ToolStepShows ==
    ASSUME task \in TaskRecord, NEW tool \in Tools, NEW retried \in BOOLEAN, NEW ok \in BOOLEAN,
           NEW tokens \in Nat, NEW t,
           t.steps = ToolStep(tool, retried, ok, tokens).steps,
           t.retries = ToolStep(tool, retried, ok, tokens).retries
    PROVE  (\/ \E i \in DOMAIN t.steps : ~t.steps[i].ok
            \/ \E i \in DOMAIN t.retries : t.retries[i] \in {"RETRYING", "FAILED"})
           <=> ShowsFault \/ retried \/ ~ok
<1> DEFINE step == [tool |-> tool, ok |-> ok]
           end == IF ok THEN "SUCCESS" ELSE "FAILED"
           start == IF retried THEN <<"RETRYING">> ELSE <<>>
           n == Len(task.steps)
           m == Len(task.retries)
<1>1. /\ task.steps \in Seq([tool : Tools, ok : BOOLEAN]) /\ n \in Nat
      /\ task.retries \in Seq({"RETRYING", "SUCCESS", "FAILED"}) /\ m \in Nat
  BY DEF TaskRecord
<1>2. t.steps = Append(task.steps, step) /\ t.retries = task.retries \o start \o <<end>>
  BY DEF ToolStep, TaskRecord
<1>3. (\E i \in DOMAIN t.steps : ~t.steps[i].ok) <=> (\E i \in DOMAIN task.steps : ~task.steps[i].ok) \/ ~ok
  <2>1. DOMAIN t.steps = 1..n + 1 /\ t.steps[n + 1] = step /\ DOMAIN task.steps = 1..n
        /\ \A i \in 1..n : t.steps[i] = task.steps[i]
    BY <1>1, <1>2
  <2>2. \A i \in 1..n + 1 : i \in 1..n \/ i = n + 1
    BY <1>1
  <2>3. n + 1 \in 1..n + 1 /\ 1..n \subseteq 1..n + 1 /\ step.ok = ok
    BY <1>1
  <2> HIDE DEF step, n
  <2>. QED  BY <2>1, <2>2, <2>3
<1> DEFINE F == {"RETRYING", "FAILED"}
<1>4. (\E i \in DOMAIN t.retries : t.retries[i] \in F)
      <=> (\E i \in DOMAIN task.retries : task.retries[i] \in F) \/ retried \/ ~ok
  <2>1. CASE retried
    <3>1. t.retries[m + 1] = "RETRYING" /\ m + 1 \in DOMAIN t.retries
      BY <1>1, <1>2, <2>1
    <3>. QED  BY <2>1, <3>1
  <2>2. CASE ~retried
    <3>1. t.retries = Append(task.retries, end)
      BY <1>1, <1>2, <2>2
    <3>2. DOMAIN t.retries = 1..m + 1 /\ t.retries[m + 1] = end /\ DOMAIN task.retries = 1..m
          /\ \A i \in 1..m : t.retries[i] = task.retries[i]
      BY <1>1, <3>1
    <3>3. \A i \in 1..m + 1 : i \in 1..m \/ i = m + 1
      BY <1>1
    <3>4. m + 1 \in 1..m + 1 /\ 1..m \subseteq 1..m + 1 /\ (end \in F <=> ~ok)
      BY <1>1
    <3> HIDE DEF end, m, F
    <3>. QED  BY <2>2, <3>2, <3>3, <3>4
  <2>. QED  BY <2>1, <2>2
<1>. QED  BY <1>3, <1>4 DEF ShowsFault

\* Two sequences in a row.
LEMMA Joined ==
    ASSUME NEW X, NEW s \in Seq(X), NEW u \in Seq(X)
    PROVE  /\ DOMAIN (s \o u) = 1..Len(s) + Len(u)
           /\ \A j \in 1..Len(u) : (s \o u)[Len(s) + j] = u[j]
BY ConcatProperties

\* An accepted attempt: each key it saved has a check, and the last check of the
\* key is one of this attempt's, which all passed.
LEMMA Accepting ==
    ASSUME TypeOK, NEW failing, Validate(failing), task'.status = "SUCCESS", task.status = "RUNNING"
    PROVE  \A i \in DOMAIN task'.delivered :
              LatestCheck(task.delivered[i].key)' /\ Confirmed(task.delivered[i])'
<1> DEFINE new == SubSeq(task.artifacts, task.already + 1, Len(task.artifacts))
           checks == IF new = <<>>
                     THEN IF Current.requireArtifact THEN <<[key |-> None, ok |-> FALSE]>> ELSE <<>>
                     ELSE [i \in DOMAIN new |-> [key |-> new[i].key, ok |-> i \notin failing /\ Confirmed(new[i])]]
           A == [key : Keys, size : Sizes]
           C == [key : Keys \cup {None}, ok : BOOLEAN]
           n == Len(task.checks)
<1>1. /\ task \in TaskRecord /\ task.checks \in Seq(C) /\ n \in Nat
      /\ task.artifacts \in Seq(A) /\ task.already \in Nat
  BY DEF TypeOK, TaskRecord
<1>2. new \in Seq(A)
  <2>1. /\ task.already + 1 \in Int /\ Len(task.artifacts) \in Int
        /\ \A i \in task.already + 1..Len(task.artifacts) : task.artifacts[i] \in A
    <3> HIDE DEF A
    <3>. QED  BY <1>1
  <2> HIDE DEF A
  <2>. QED  BY <2>1, SubSeqProperties
<1>3. /\ task'.delivered = new
      /\ task'.checks = task.checks \o checks
      /\ \A i \in DOMAIN checks : checks[i].ok
      /\ objects' = objects
  BY <1>1 DEF Validate, TaskRecord, truth
<1>4. ASSUME NEW i \in DOMAIN new
      PROVE  LatestCheck(task.delivered[i].key)' /\ Confirmed(task.delivered[i])'
  <2> DEFINE k == Len(new)
             S == {j \in DOMAIN task'.checks : task'.checks[j].key = new[i].key}
  <2>1. DOMAIN new = 1..k /\ k \in Nat /\ new # <<>>
    <3> HIDE DEF new, A
    <3>. QED  BY <1>2, <1>4
  <2>2. checks = [j \in 1..k |-> [key |-> new[j].key, ok |-> j \notin failing /\ Confirmed(new[j])]]
    BY <2>1
  <2> HIDE DEF new, checks
  <2>3. checks \in Seq(C) /\ Len(checks) = k
    <3>1. ASSUME NEW j \in 1..k
          PROVE  [key |-> new[j].key, ok |-> j \notin failing /\ Confirmed(new[j])] \in C
      <4>1. new[j] \in A
        <5> HIDE DEF A, C, S
        <5>. QED  BY <1>2, <2>1
      <4>2. new[j].key \in Keys /\ (j \notin failing /\ Confirmed(new[j])) \in BOOLEAN
        BY <4>1 DEF Confirmed
      <4>. QED  BY <4>2
    <3> HIDE DEF C, k
    <3>. QED  BY <2>1, <2>2, <3>1
  <2>4. DOMAIN task'.checks = 1..n + k /\ \A j \in 1..k : task'.checks[n + j] = checks[j]
    <3>1. /\ DOMAIN (task.checks \o checks) = 1..n + Len(checks)
          /\ \A j \in 1..Len(checks) : (task.checks \o checks)[n + j] = checks[j]
      <4> HIDE DEF A, C, k, S
      <4>. QED  BY <1>1, <2>3, Joined
    <3> HIDE DEF A, C, k, n, S
    <3>. QED  BY <1>3, <2>3, <3>1
  <2> HIDE DEF n, k
  <2>5. n + i \in S /\ S \subseteq 1..n + k /\ n + k \in Nat
    BY <1>1, <1>4, <2>1, <2>2, <2>4
  <2>6. Max(S) \in S /\ Max(S) >= n + i
    BY <2>5, LastOf
  <2> HIDE DEF S
  <2>7. Max(S) - n \in 1..k /\ Max(S) = n + (Max(S) - n)
    <3>1. n \in Nat /\ k \in Nat /\ i \in 1..k
      BY <1>1, <1>4, <2>1
    <3>2. Max(S) \in 1..n + k
      BY <2>5, <2>6
    <3>. QED  BY <2>6, <3>1, <3>2
  <2>8. task'.checks[Max(S)] = checks[Max(S) - n]
    BY <2>4, <2>7
  <2>9. checks[Max(S) - n].ok /\ checks[i].ok
    BY <1>3, <1>4, <2>1, <2>2, <2>7
  <2>10. S = ChecksOf(task.delivered[i].key)' /\ task'.delivered[i].key = new[i].key
    BY <1>3 DEF ChecksOf, S
  <2>11. LatestCheck(task.delivered[i].key)'
    BY <2>5, <2>8, <2>9, <2>10 DEF LatestCheck
  <2>12. Confirmed(new[i])
    BY <1>4, <2>1, <2>2, <2>9
  <2>. QED  BY <1>3, <2>11, <2>12 DEF Confirmed
<1>. QED  BY <1>3, <1>4

LEMMA ScoredStep == IInv /\ Next => Scored'
<1> SUFFICES ASSUME IInv, Next
             PROVE  Scored'
  OBVIOUS
<1>1. /\ cases \in Seq(Case) /\ results \in Seq(CaseResult)
      /\ Len(cases) \in Nat /\ Len(results) \in Nat
  BY DEF IInv, TypeOK
<1>2. Scored
  BY DEF IInv
<1>3. ASSUME NEW d \in Datasets, LoadDataset(d)
      PROVE  Scored'
  <2>1. /\ phase = "load" /\ UNCHANGED <<results, report>> /\ phase' \in {"next", "done"}
        /\ (cases' = d /\ DatasetOK(d)) \/ cases' = cases
    BY <1>3 DEF LoadDataset
  <2>2. results = <<>> /\ cases = <<>> /\ report = None
    BY <1>2, <2>1 DEF Scored
  <2>3. cases' \in Seq(Case) /\ Len(cases') \in Nat /\ Len(results') = 0
    <3>1. d \in Seq(Case) /\ cases' \in {d, cases}
      BY <2>1, EvaluationAssumption
    <3>2. cases' \in Seq(Case)
      BY <1>1, <3>1
    <3>. QED  BY <2>1, <2>2, <3>2
  <2>4. cases' # <<>> => DatasetOK(cases')
    BY <2>1, <2>2
  <2>. QED  BY <2>1, <2>2, <2>3, <2>4 DEF Scored
<1>4. CASE Execute \/ AdapterFails
  <2>1. /\ UNCHANGED <<cases, results, report>> /\ phase = "next" /\ phase' \in {"work", "score"}
        /\ Len(results) < Len(cases)
    BY <1>4 DEF Execute, AdapterFails
  <2>. QED  BY <1>2, <2>1 DEF Scored
<1>5. CASE Score
  <2> DEFINE n == Len(results)
  <2>1. PICK latency \in Latencies : results' = Append(results, ScoreCase(Current, latency))
    BY <1>5 DEF Score
  <2>2. /\ phase = "score" /\ UNCHANGED <<cases, report>>
        /\ phase' = IF n + 1 = Len(cases) THEN "report" ELSE "next"
    BY <1>5 DEF Score
  <2>3. n + 1 \in 1..Len(cases) /\ report = None
    BY <1>1, <1>2, <2>2 DEF Scored
  <2>4. Current \in Case /\ Current = cases[n + 1]
    BY <1>1, <2>3 DEF Current
  <2>5. ScoreCase(Current, latency).id = cases[n + 1].id /\ ScoreCase(Current, latency) \in CaseResult
    BY <2>4, ScoreTyped DEF IInv
  <2>6. Len(results') = n + 1 /\ results'[n + 1].id = cases[n + 1].id
        /\ \A i \in 1..n : results'[i] = results[i]
    BY <1>1, <2>1, <2>5
  <2>7. \A i \in 1..n + 1 : results'[i].id = cases[i].id
    <3>1. \A i \in 1..n + 1 : i \in 1..n \/ i = n + 1
      BY <1>1
    <3>2. \A i \in 1..n : results[i].id = cases[i].id
      BY <1>2 DEF Scored
    <3>. QED  BY <2>6, <3>1, <3>2
  <2>8. cases # <<>> => DatasetOK(cases)
    BY <1>2 DEF Scored
  <2> HIDE DEF n
  <2>. QED  BY <1>1, <2>2, <2>3, <2>6, <2>7, <2>8 DEF Scored
<1>6. CASE Report
  <2>1. /\ phase = "report" /\ phase' = "done" /\ UNCHANGED <<cases, results>>
        /\ report' = Aggregate
    BY <1>6 DEF Report
  <2>2. Aggregate.count = Len(results)
    BY DEF Aggregate
  <2>. QED  BY <1>2, <2>1, <2>2 DEF Scored
<1>7. CASE Runtime
  <2>1. /\ UNCHANGED <<cases, results, report>> /\ phase = "work"
        /\ phase' \in {"work", "score"}
    BY <1>7 DEF Runtime, CallTool, SaveReport, SaveFails, CompleteStep, Replan, Raise, Validate, Works, MayAct, Busy
  <2>. QED  BY <1>2, <2>1 DEF Scored
<1>. QED  BY <1>3, <1>4, <1>5, <1>6, <1>7 DEF Next, Runner

LEMMA TruthfulStep == IInv /\ Next => Truthful'
<1> SUFFICES ASSUME IInv, Next
             PROVE  Truthful'
  OBVIOUS
<1>1. TypeOK /\ Truthful /\ task \in TaskRecord /\ faulted \in BOOLEAN
  BY DEF IInv, TypeOK
<1>2. CASE \/ \E d \in Datasets : LoadDataset(d)
           \/ Score \/ Report
  BY <1>2 DEF LoadDataset, Score, Report, Truthful
<1>3. CASE Execute \/ AdapterFails
  <2>1. /\ \/ task' = NewTask("RUNNING") /\ phase' = "work"
           \/ task' = NewTask("FAILED") /\ phase' = "score"
        /\ faulted' = FALSE
    BY <1>3 DEF Execute, AdapterFails
  <2>. QED  BY <2>1 DEF Truthful, NewTask, ShowsFault
<1>4. ASSUME Busy, phase' = "work", task'.status = task.status, task'.delivered = task.delivered,
             faulted' <=> ShowsFault'
      PROVE  Truthful'
  BY <1>1, <1>4 DEF Truthful, Busy
<1>5. ASSUME NEW tool \in Tools, NEW retried \in BOOLEAN, NEW ok \in BOOLEAN, NEW n \in TokenCounts,
             CallTool(tool, retried, ok, n)
      PROVE  Truthful'
  <2>1. task' = ToolStep(tool, retried, ok, n) /\ phase' = phase /\ Busy
        /\ faulted' = (faulted \/ retried \/ ~ok)
    BY <1>5 DEF CallTool, MayAct, Works
  <2>2. ShowsFault' <=> ShowsFault \/ retried \/ ~ok
    <3>1. n \in Nat
      BY EvaluationAssumption
    <3>. QED  BY <1>1, <2>1, <3>1, ToolStepShows DEF ShowsFault
  <2>3. task'.status = task.status /\ task'.delivered = task.delivered
    BY <1>1, <2>1 DEF ToolStep, TaskRecord
  <2>4. faulted <=> ShowsFault
    BY <1>1, <2>1 DEF Truthful, Busy
  <2>. QED  BY <1>1, <1>4, <2>1, <2>2, <2>3, <2>4 DEF Busy
<1>10. ASSUME NEW key \in Keys, NEW stored \in Sizes \cup {None}, SaveFails(key, stored)
       PROVE  Truthful'
  <2>1. task' = ToolStep("save_report", FALSE, FALSE, 0) /\ phase' = phase /\ Busy /\ faulted' = TRUE
    BY <1>10 DEF SaveFails, MayAct, Works
  <2>2. ShowsFault'
    <3>1. "save_report" \in Tools /\ FALSE \in BOOLEAN /\ 0 \in Nat
      BY EvaluationAssumption
    <3>2. (\/ \E i \in DOMAIN task'.steps : ~task'.steps[i].ok
           \/ \E i \in DOMAIN task'.retries : task'.retries[i] \in {"RETRYING", "FAILED"})
          <=> ShowsFault \/ FALSE \/ ~FALSE
      BY <1>1, <2>1, <3>1, ToolStepShows
    <3>. QED  BY <3>2 DEF ShowsFault
  <2>3. task'.status = task.status /\ task'.delivered = task.delivered
    BY <1>1, <2>1 DEF ToolStep, TaskRecord
  <2>. QED  BY <1>4, <2>1, <2>2, <2>3 DEF Busy
<1>6. ASSUME NEW key \in Keys, NEW size \in Sizes, NEW stored \in Sizes \cup {None},
             SaveReport(key, size, stored)
      PROVE  Truthful'
  <2> DEFINE step == ToolStep("save_report", FALSE, TRUE, 0)
  <2>1. task' = [step EXCEPT !.artifacts = Append(@, [key |-> key, size |-> size])]
        /\ phase' = phase /\ Busy /\ faulted' = faulted
    BY <1>6 DEF SaveReport, MayAct, Works
  <2>2. task'.steps = step.steps /\ task'.retries = step.retries
        /\ task'.status = task.status /\ task'.delivered = task.delivered
    BY <1>1, <2>1 DEF ToolStep, TaskRecord
  <2>3. ShowsFault' <=> ShowsFault
    <3>1. "save_report" \in Tools /\ FALSE \in BOOLEAN /\ TRUE \in BOOLEAN /\ 0 \in Nat
      BY EvaluationAssumption
    <3> HIDE DEF step
    <3>2. (\/ \E i \in DOMAIN task'.steps : ~task'.steps[i].ok
           \/ \E i \in DOMAIN task'.retries : task'.retries[i] \in {"RETRYING", "FAILED"})
          <=> ShowsFault \/ FALSE \/ ~TRUE
      BY <1>1, <2>2, <3>1, ToolStepShows DEF step
    <3>. QED  BY <3>2 DEF ShowsFault
  <2>4. faulted <=> ShowsFault
    BY <1>1, <2>1 DEF Truthful, Busy
  <2>. QED  BY <1>4, <2>1, <2>2, <2>3, <2>4 DEF Busy
<1>7. CASE (\E s \in PlanSteps : CompleteStep(s)) \/ Replan
  <2>1. /\ phase' = phase /\ Busy /\ faulted' = faulted
        /\ task'.status = task.status /\ task'.delivered = task.delivered
        /\ task'.steps = task.steps /\ task'.retries = task.retries
    BY <1>1, <1>7 DEF CompleteStep, Replan, MayAct, Works, truth, TaskRecord
  <2>. QED  BY <1>1, <1>4, <2>1 DEF Truthful, Busy, ShowsFault
<1>8. CASE Raise
  <2>1. /\ phase' = "score" /\ Busy /\ faulted' = faulted
        /\ task'.status = "FAILED" /\ task'.delivered = task.delivered
        /\ task'.steps = task.steps /\ task'.retries = task.retries
    BY <1>1, <1>8 DEF Raise, truth, TaskRecord
  <2>2. task.delivered = <<>> /\ (faulted <=> ShowsFault)
    BY <1>1, <2>1 DEF Truthful, Busy
  <2>. QED  BY <2>1, <2>2 DEF Truthful, ShowsFault
<1>9. ASSUME NEW failing, Validate(failing)
      PROVE  Truthful'
  <2>1. /\ phase = "work" /\ phase' \in {"work", "score"} /\ faulted' = faulted
        /\ task'.steps = task.steps /\ task'.retries = task.retries
        /\ \/ task'.status = "SUCCESS" /\ phase' = "score"
           \/ /\ task'.delivered = task.delivered
              /\ task'.status = task.status \/ (task'.status = "FAILED" /\ phase' = "score")
    BY <1>1, <1>9 DEF Validate, Busy, truth, TaskRecord
  <2>2. task.status = "RUNNING" /\ task.delivered = <<>> /\ (faulted <=> ShowsFault)
    BY <1>1, <2>1 DEF Truthful
  <2>3. faulted' <=> ShowsFault'
    BY <2>1, <2>2 DEF ShowsFault
  <2>4. CASE task'.status = "SUCCESS"
    BY <1>1, <1>9, <2>1, <2>2, <2>3, <2>4, Accepting DEF Truthful
  <2>5. CASE task'.status # "SUCCESS"
    BY <2>1, <2>2, <2>3, <2>5 DEF Truthful
  <2>. QED  BY <2>4, <2>5
<1>. QED  BY <1>2, <1>3, <1>5, <1>6, <1>7, <1>8, <1>9, <1>10 DEF Next, Runner, Runtime

LEMMA SameAggregate == results' = results => Aggregate' = Aggregate
BY DEF Aggregate

LEMMA GradedStep == IInv /\ Next => Graded'
<1> SUFFICES ASSUME IInv, Next
             PROVE  Graded'
  OBVIOUS
<1>1. /\ cases \in Seq(Case) /\ results \in Seq(CaseResult)
      /\ Len(cases) \in Nat /\ Len(results) \in Nat
  BY DEF IInv, TypeOK
<1>2. Graded /\ Scored
  BY DEF IInv
<1>3. ASSUME NEW d \in Datasets, LoadDataset(d)
      PROVE  Graded'
  <2>1. phase = "load" /\ UNCHANGED <<results, report>> /\ phase' \in {"next", "done"}
    BY <1>3 DEF LoadDataset
  <2>2. results = <<>> /\ report = None
    BY <1>2, <2>1 DEF Scored
  <2>. QED  BY <2>1, <2>2 DEF Graded
<1>4. CASE Score
  <2> DEFINE n == Len(results)
  <2>1. PICK latency \in Latencies : results' = Append(results, ScoreCase(Current, latency))
    BY <1>4 DEF Score
  <2>2. phase = "score" /\ UNCHANGED <<cases, report>>
    BY <1>4 DEF Score
  <2>3. n + 1 \in 1..Len(cases) /\ report = None
    BY <1>1, <1>2, <2>2 DEF Scored
  <2>4. Current \in Case /\ Current = cases[n + 1]
    BY <1>1, <2>3 DEF Current
  <2>5. Marked(ScoreCase(Current, latency), cases[n + 1])
    BY <2>4, ScoreMarks DEF IInv
  <2>6. ScoreCase(Current, latency) \in CaseResult
    BY <2>4, ScoreTyped DEF IInv
  <2>7. Len(results') = n + 1 /\ results'[n + 1] = ScoreCase(Current, latency)
        /\ \A i \in 1..n : results'[i] = results[i]
    BY <1>1, <2>1, <2>6
  <2>8. \A i \in 1..n + 1 : Marked(results'[i], cases[i])
    <3>1. \A i \in 1..n + 1 : i \in 1..n \/ i = n + 1
      BY <1>1
    <3>2. \A i \in 1..n : Marked(results[i], cases[i])
      BY <1>2 DEF Graded
    <3>. QED  BY <2>5, <2>7, <3>1, <3>2
  <2>9. results' # <<>> /\ \A i \in 1..Len(results') : Marked(results'[i], cases'[i])
    BY <1>1, <2>2, <2>7, <2>8
  <2>. QED  BY <2>2, <2>3, <2>9 DEF Graded
<1>5. CASE Report
  <2>1. /\ phase = "report" /\ phase' = "done" /\ UNCHANGED <<cases, results>>
        /\ report' = Aggregate
    BY <1>5 DEF Report
  <2>. QED  BY <1>2, <2>1, SameAggregate DEF Graded
<1>6. ASSUME UNCHANGED <<cases, results, report>>, phase' # "report"
      PROVE  Graded'
  BY <1>2, <1>6, SameAggregate DEF Graded
<1>7. CASE Execute \/ AdapterFails
  BY <1>6, <1>7 DEF Execute, AdapterFails
<1>8. CASE Runtime
  <2>1. UNCHANGED <<cases, results, report>> /\ phase' \in {"work", "score"}
    BY <1>8 DEF Runtime, CallTool, SaveReport, SaveFails, CompleteStep, Replan, Raise, Validate, Works, MayAct, Busy
  <2>. QED  BY <1>6, <2>1
<1>. QED  BY <1>3, <1>4, <1>5, <1>7, <1>8 DEF Next, Runner

\* What the numbers of a report say of each other and of the results.
LEMMA AggregateAgrees ==
    ASSUME IInv, results # <<>>, Len(results) = Len(cases)
    PROVE  LET total == Aggregate
           IN  /\ total.passed = Scale <=> ReportPassed
               /\ total.passed <= total.accuracy /\ total.passed <= total.completion
               /\ \A rate \in {total.accuracy, total.completion, total.succeeded} : rate \in 0..Scale
               /\ \E i \in DOMAIN results : results[i].latency = total.p95
               /\ 100 * Cardinality({i \in DOMAIN results : results[i].latency <= total.p95})
                     >= 95 * total.count
               /\ total.artifacts = None <=> \A i \in DOMAIN cases : ~cases[i].artifact
<1> DEFINE n == Len(results)
           P == {i \in 1..n : results[i].passed}
           C == {i \in 1..n : results[i].artifacts # None}
           acc == [i \in 1..n |-> results[i].accuracy]
           com == [i \in 1..n |-> results[i].completion]
           lat == [i \in 1..n |-> results[i].latency]
           Good == {i \in 1..n : results[i].status = "SUCCESS"}
           Kept == {i \in C : results[i].artifacts}
<1>1. /\ n \in Nat \ {0} /\ DOMAIN results = 1..n /\ DOMAIN cases = 1..n
      /\ \A i \in 1..n : results[i] \in CaseResult
  BY DEF IInv, TypeOK
<1>2. \A i \in 1..n : Marked(results[i], cases[i])
  BY DEF IInv, Graded
<1>3. /\ Aggregate.count = n
      /\ Aggregate.passed = Share(P, 1..n)
      /\ Aggregate.succeeded = Share(Good, 1..n)
      /\ Aggregate.accuracy = Mean(acc)
      /\ Aggregate.completion = Mean(com)
      /\ Aggregate.artifacts = Share(Kept, C)
      /\ Aggregate.p95 = Percentile95(lat)
  BY <1>1 DEF Aggregate
<1>4. acc \in [1..n -> 0..Scale] /\ com \in [1..n -> 0..Scale]
      /\ \A i \in P : acc[i] = Scale /\ com[i] = Scale
  BY <1>2 DEF Marked
<1>5. lat \in [1..n -> Nat]
  BY <1>1, EvaluationAssumption DEF CaseResult
<1>6. Len(acc) = n /\ Len(com) = n
  BY <1>1
<1>7. P \in SUBSET (1..n) /\ Good \in SUBSET (1..n) /\ C \in SUBSET (1..n) /\ Kept \in SUBSET C
  OBVIOUS
<1>8. (P = 1..n) <=> ReportPassed
  BY <1>1 DEF ReportPassed
<1>9. (C = {}) <=> \A i \in 1..n : ~cases[i].artifact
  BY <1>2 DEF Marked
<1>10. \A i \in 1..n : lat[i] = results[i].latency
  OBVIOUS
<1> HIDE DEF n, P, C, acc, com, lat, Good, Kept
<1>11. Scale \in Nat /\ Scale > 0 /\ None \notin Nat
  BY EvaluationAssumption
<1>12. IsFiniteSet(1..n) /\ Cardinality(1..n) = n
  BY <1>1, FS_Interval
<1>13. Share(P, 1..n) = Rate(Cardinality(P), n) /\ Share(Good, 1..n) = Rate(Cardinality(Good), n)
  BY <1>1, <1>12 DEF Share
<1>14. ASSUME NEW T \in SUBSET (1..n)
       PROVE  /\ Cardinality(T) \in Nat /\ Cardinality(T) <= n
              /\ Rate(Cardinality(T), n) \in 0..Scale
              /\ Rate(Cardinality(T), n) = Scale <=> T = 1..n
  <2>1. IsFiniteSet(T) /\ Cardinality(T) <= n
    BY <1>12, FS_Subset
  <2>2. Cardinality(T) = n => T = 1..n
    BY <1>12, FS_Subset
  <2>3. Cardinality(T) \in Nat
    BY <2>1, FS_CardinalityType
  <2>4. /\ Rate(Cardinality(T), n) \in 0..Scale
        /\ Rate(Cardinality(T), n) = Scale <=> Cardinality(T) = n
    BY <1>1, <2>1, <2>3, RateOf
  <2>. QED  BY <1>12, <2>1, <2>2, <2>3, <2>4
<1>15. /\ Cardinality(P) \in Nat /\ (Rate(Cardinality(P), n) = Scale <=> P = 1..n)
       /\ Rate(Cardinality(Good), n) \in 0..Scale
  BY <1>7, <1>14
<1>16. ASSUME NEW f \in [1..n -> 0..Scale], \A i \in P : f[i] = Scale, Len(f) = n
       PROVE  Rate(Cardinality(P), n) <= Mean(f) /\ Mean(f) \in 0..Scale
  <2>1. /\ Total(f) \in Nat /\ Cardinality(P) * Scale <= Total(f) /\ Total(f) <= n * Scale
    BY <1>1, <1>7, <1>16, TotalOfMarks
  <2>2. Cardinality(P) * Scale \in Nat /\ n * Scale \in Nat
    BY <1>1, <1>11, <1>15, ProductOrder
  <2>3. (Cardinality(P) * Scale) \div n <= Total(f) \div n
    BY <1>1, <2>1, <2>2, QuotientOrder
  <2>6. Total(f) \div n <= (n * Scale) \div n
    BY <1>1, <2>1, <2>2, QuotientOrder
  <2>7. Total(f) \div n \in Nat
    BY <1>1, <2>1, Quotient
  <2>4. Rate(Cardinality(P), n) = (Cardinality(P) * Scale) \div n /\ Rate(n, n) = (n * Scale) \div n
    BY <1>1 DEF Rate
  <2>5. Rate(n, n) = Scale
    BY <1>1, RateOf
  <2>. QED  BY <1>11, <1>16, <2>3, <2>4, <2>5, <2>6, <2>7 DEF Mean
<1>17. (Share(Kept, C) = None) <=> C = {}
  <2>1. IsFiniteSet(C)
    BY <1>7, <1>12, FS_Subset
  <2>2. Cardinality(Kept) \in Nat /\ Cardinality(C) \in Nat /\ Cardinality(Kept) <= Cardinality(C)
    BY <1>7, <2>1, FS_Subset, FS_CardinalityType
  <2>3. Rate(Cardinality(Kept), Cardinality(C)) \in Nat
    BY <1>11, <2>2, RateOf
  <2>. QED  BY <1>11, <2>3 DEF Share
<1>18. /\ \E i \in 1..n : lat[i] = Percentile95(lat)
       /\ 100 * Cardinality({i \in 1..n : lat[i] <= Percentile95(lat)}) >= 95 * n
  BY <1>1, <1>5, NinetyFiveOfHundred
<1>19. /\ \E i \in DOMAIN results : results[i].latency = Aggregate.p95
       /\ 100 * Cardinality({i \in DOMAIN results : results[i].latency <= Aggregate.p95})
             >= 95 * Aggregate.count
  <2>1. {i \in DOMAIN results : results[i].latency <= Aggregate.p95}
            = {i \in 1..n : lat[i] <= Percentile95(lat)}
    BY <1>1, <1>3, <1>10
  <2>. QED  BY <1>1, <1>3, <1>10, <1>18, <2>1
<1>20. Rate(Cardinality(P), n) <= Mean(acc) /\ Mean(acc) \in 0..Scale
  BY <1>4, <1>6, <1>16
<1>21. Rate(Cardinality(P), n) <= Mean(com) /\ Mean(com) \in 0..Scale
  BY <1>4, <1>6, <1>16
<1>22. /\ Aggregate.passed = Scale <=> ReportPassed
       /\ Aggregate.passed <= Aggregate.accuracy /\ Aggregate.passed <= Aggregate.completion
  BY <1>3, <1>8, <1>13, <1>15, <1>20, <1>21
<1>23. \A rate \in {Aggregate.accuracy, Aggregate.completion, Aggregate.succeeded} : rate \in 0..Scale
  BY <1>3, <1>13, <1>15, <1>20, <1>21
<1>24. Aggregate.artifacts = None <=> \A i \in DOMAIN cases : ~cases[i].artifact
  BY <1>1, <1>3, <1>9, <1>17
<1>. QED  BY <1>19, <1>22, <1>23, <1>24


-----------------------------------------------------------------------------
(* Theorems                                                                 *)

LEMMA InitIInv == Init => IInv
<1> SUFFICES ASSUME Init
             PROVE  IInv
  OBVIOUS
<1>1. TypeOK
  <2>1. NewTask("CREATED") \in TaskRecord
    BY NewTaskTyped DEF TaskStatus
  <2>2. error \in BOOLEAN /\ faulted \in BOOLEAN
    BY DEF Init
  <2>3. cases \in Seq(Case) /\ results \in Seq(CaseResult)
    BY DEF Init
  <2>. QED  BY <2>1, <2>2, <2>3 DEF Init, TypeOK
<1>2. Scored
  BY DEF Init, Scored
<1>3. Truthful
  BY DEF Init, Truthful
<1>4. Graded
  BY DEF Init, Graded
<1>. QED  BY <1>1, <1>2, <1>3, <1>4 DEF IInv

LEMMA Inductive == Spec => []IInv
<1>1. IInv /\ UNCHANGED vars => IInv'
  <2> SUFFICES ASSUME IInv, UNCHANGED vars
               PROVE  IInv'
    OBVIOUS
  <2>1. TypeOK' /\ Scored'
    BY DEF IInv, TypeOK, Scored, vars, truth
  <2>2. Truthful'
    <3>1. UNCHANGED <<phase, task, faulted, objects>>
      BY DEF vars, truth
    <3>2. /\ ShowsFault' <=> ShowsFault
          /\ \A i \in DOMAIN task.delivered :
                /\ LatestCheck(task.delivered[i].key)' <=> LatestCheck(task.delivered[i].key)
                /\ Confirmed(task.delivered[i])' <=> Confirmed(task.delivered[i])
      BY <3>1 DEF ShowsFault, LatestCheck, ChecksOf, Confirmed
    <3>. QED  BY <3>1, <3>2 DEF IInv, Truthful
  <2>3. Graded'
    <3>1. UNCHANGED <<phase, cases, results, report>>
      BY DEF vars
    <3>. QED  BY <3>1, SameAggregate DEF IInv, Graded, Marked
  <2>. QED  BY <2>1, <2>2, <2>3 DEF IInv
<1>2. IInv /\ Next => IInv'
  BY TypeStep, ScoredStep, TruthfulStep, GradedStep DEF IInv
<1>. QED  BY <1>1, <1>2, InitIInv, PTL DEF Spec

\* The ids of a data set are all different, so they are as many as its cases.
LEMMA AsManyIds ==
    ASSUME IInv, report # None
    PROVE  Cardinality({results[i].id : i \in DOMAIN results}) = Len(results)
<1> DEFINE n == Len(results)
           S == {results[i].id : i \in 1..n}
           f == [i \in 1..n |-> results[i].id]
<1>1. n \in Nat /\ DOMAIN results = 1..n /\ Len(cases) = n /\ DOMAIN cases = 1..n
  BY DEF IInv, TypeOK, Scored
<1>2. \A i \in 1..n : results[i].id = cases[i].id
  BY DEF IInv, Scored
<1>3. \A i, j \in 1..n : results[i].id = results[j].id => i = j
  <2>1. CASE cases = <<>>
    BY <1>1, <2>1
  <2>2. CASE cases # <<>>
    BY <1>1, <1>2, <2>2 DEF IInv, Scored, DatasetOK, IsInjective
  <2>. QED  BY <2>1, <2>2
<1>4. f \in Bijection(1..n, S)
  <2>1. f \in [1..n -> S] /\ \A i \in 1..n : f[i] = results[i].id
    OBVIOUS
  <2>2. \A x \in S : \E i \in 1..n : f[i] = x
    OBVIOUS
  <2>3. \A i, j \in 1..n : f[i] = f[j] => i = j
    BY <1>3
  <2> HIDE DEF f, S, n
  <2>. QED  BY <2>1, <2>2, <2>3 DEF Bijection, Injection, Surjection, IsInjective
<1> HIDE DEF S, f, n
<1>5. IsFiniteSet(1..n) /\ Cardinality(1..n) = n
  BY <1>1, FS_Interval
<1>6. Cardinality(S) = n
  BY <1>4, <1>5, FS_Bijection DEF ExistsBijection
<1>. QED  BY <1>1, <1>6 DEF S, n

\* Every variable has its type, whatever the data sets and the runtime are.
THEOREM TypeCorrect == Spec => []TypeOK
BY Inductive, PTL DEF IInv

\* However its cases fail, a suite that reports has one result for each case, in
\* order and under its own id.
THEOREM EveryCaseScored == Spec => []EveryCaseIsScored
<1>1. IInv => EveryCaseIsScored
  <2> SUFFICES ASSUME IInv, report # None
               PROVE  /\ Len(results) = Len(cases)
                      /\ \A i \in DOMAIN cases : results[i].id = cases[i].id
                      /\ Cardinality({results[i].id : i \in DOMAIN results}) = report.count
    BY DEF EveryCaseIsScored
  <2>1. Len(results) = Len(cases) /\ report.count = Len(results) /\ DOMAIN cases = 1..Len(cases)
    BY DEF IInv, TypeOK, Scored
  <2>2. \A i \in 1..Len(results) : results[i].id = cases[i].id
    BY DEF IInv, Scored
  <2>. QED  BY <2>1, <2>2, AsManyIds
<1>. QED  BY <1>1, Inductive, PTL

\* Whatever happened to the task before - failed attempts, repairs, keys saved
\* again, short, lost and empty objects, records of no bytes -, a case is said to
\* have delivered and to have recovered exactly if it did.
THEOREM VerdictTrue == Spec => []VerdictIsTrue
<1>1. IInv => VerdictIsTrue
  <2> SUFFICES ASSUME IInv, phase = "score"
               PROVE  LET r == ScoreCase(Current, 0)
                      IN  /\ Current.artifact => r.artifacts = (task.status = "SUCCESS" /\ ReallyDelivered)
                          /\ Current.recovery => r.recovered = (task.status = "SUCCESS" /\ faulted)
                          /\ error => ~r.passed
    BY DEF VerdictIsTrue
  <2> DEFINE r == ScoreCase(Current, 0)
  <2>1. /\ faulted <=> ShowsFault
        /\ task.status # "SUCCESS" => task.delivered = <<>>
        /\ \A i \in DOMAIN task.delivered :
              LatestCheck(task.delivered[i].key) /\ Confirmed(task.delivered[i])
    BY DEF IInv, Truthful
  <2>2. ASSUME Current.artifact
        PROVE  r.artifacts = (task.status = "SUCCESS" /\ ReallyDelivered)
    <3>1. r.artifacts = ArtifactValidation(Current.artifact)
      BY DEF ScoreCase
    <3>2. ArtifactValidation(Current.artifact) = (task.delivered # <<>>)
      BY <2>1, <2>2 DEF ArtifactValidation
    <3>3. ReallyDelivered <=> task.delivered # <<>>
      <4>1. ASSUME NEW i \in DOMAIN task.delivered
            PROVE  LET a == task.delivered[i]
                   IN  /\ objects[a.key] \in Nat \ {0}
                       /\ a.size > 0 => objects[a.key] = a.size
        <5> DEFINE a == task.delivered[i]
                   A == [key : Keys, size : Sizes]
        <5>1. a \in A
          <6>1. task.delivered \in Seq(A)
            BY DEF IInv, TypeOK, TaskRecord
          <6> HIDE DEF A
          <6>2. i \in 1..Len(task.delivered)
            BY <4>1, <6>1
          <6>. QED  BY <6>1, <6>2
        <5>2. Confirmed(a)
          BY <2>1, <4>1
        <5> HIDE DEF a
        <5>3. objects[a.key] \in Sizes \cup {None}
          BY <5>1 DEF IInv, TypeOK
        <5>4. objects[a.key] \in Nat /\ objects[a.key] > 0
          BY <5>2, <5>3, EvaluationAssumption DEF Confirmed
        <5>5. a.size > 0 => objects[a.key] = a.size
          BY <5>2 DEF Confirmed
        <5>. QED  BY <5>4, <5>5 DEF a
      <4>. QED  BY <4>1 DEF ReallyDelivered
    <3>4. (task.status = "SUCCESS" /\ ReallyDelivered) = (task.delivered # <<>>)
      BY <2>1, <3>3
    <3>. QED  BY <3>1, <3>2, <3>4
  <2>3. ASSUME Current.recovery
        PROVE  r.recovered = (task.status = "SUCCESS" /\ faulted)
    <3>1. r.recovered = FailureRecovery(Current.recovery)
      BY DEF ScoreCase
    <3>2. FailureRecovery(Current.recovery) = (ShowsFault /\ task.status = "SUCCESS")
      BY <2>3 DEF FailureRecovery, ShowsFault
    <3>. QED  BY <2>1, <3>1, <3>2
  <2>4. error => ~r.passed
    BY DEF ScoreCase, Checks
  <2>. QED  BY <2>2, <2>3, <2>4
<1>. QED  BY <1>1, Inductive, PTL

\* A case that passed has full marks and only the expected calls earn them; the
\* numbers of a report agree with the results and with each other.
THEOREM NumbersAgree == Spec => []MetricsAgree
<1>1. IInv => MetricsAgree
  <2> SUFFICES ASSUME IInv
               PROVE  MetricsAgree
    OBVIOUS
  <2>1. \A i \in DOMAIN results :
           /\ results[i].passed => results[i].accuracy = Scale /\ results[i].completion = Scale
           /\ results[i].accuracy = Scale => results[i].calls = Len(cases[i].tools)
    BY DEF IInv, TypeOK, Graded, Marked
  <2>2. report # None => results # <<>> /\ Len(results) = Len(cases) /\ report = Aggregate
    BY DEF IInv, Graded, Scored
  <2>. QED  BY <2>1, <2>2, AggregateAgrees DEF MetricsAgree
<1>. QED  BY <1>1, Inductive, PTL

=============================================================================
