---------------------------- MODULE HealthProofs -----------------------------
(***************************************************************************)
(* The health row of a device, for any number of requests and any          *)
(* behaviour of the trust engine: the arithmetic of its score and trend,   *)
(* its counters under races, and its accuracy without them.                *)
(***************************************************************************)
EXTENDS DeviceHealth, FiniteSetTheorems, WellFoundedInduction, TLAPS

Levels == TrustLevels \union {Full}
TrustEvents == [before : 0..Full, after : 0..Full, by : {"engine"}]
-----------------------------------------------------------------------------
(***************************************************************************)
(* The trend: sums, and why the least-squares line always has a slope.     *)
(***************************************************************************)
\* The library's induction takes an operator; this one takes a set.
LEMMA Counting ==
    ASSUME NEW S, 0 \in S, \A m \in Nat : m \in S => m + 1 \in S
    PROVE  Nat \subseteq S
<1>1. ASSUME NEW T, T \subseteq Nat, T # {} PROVE \E n \in T : \A m \in T : n <= m
  <2>1. PICK n \in T : \A m \in T : ~(<<m, n>> \in OpToRel(<, Nat))
    BY <1>1, NatLessThanWellFounded, WFMin
  <2>2. \A m \in T : ~(m < n)
    BY <1>1, <2>1 DEF OpToRel
  <2>. QED  BY <1>1, <2>2
<1>2. CASE Nat \ S # {}
  <2>1. PICK n \in Nat \ S : \A m \in Nat \ S : n <= m
    BY <1>1, <1>2
  <2>2. n # 0 /\ n - 1 \in Nat
    BY <2>1
  <2>3. n - 1 \in S
    BY <2>1, <2>2
  <2>. QED  BY <2>1, <2>2, <2>3
<1>. QED  BY <1>2

\* The partial sums of a sequence of integers.
IsSums(g, f, n) ==
    g \in [0..n -> Int] /\ g = [k \in 0..n |-> IF k = 0 THEN 0 ELSE g[k - 1] + f[k]]

\* The recursive function in Total exists, and is the only one that has its equations.
LEMMA SumsExist ==
    ASSUME NEW n \in Nat, NEW f \in [1..n -> Int] PROVE \E g : IsSums(g, f, n)
<1>. DEFINE S == {m \in Nat : m <= n => \E g : IsSums(g, f, m)}
<1>1. 0 \in S
  <2>1. IsSums([k \in 0..0 |-> 0], f, 0)
    BY DEF IsSums
  <2>. QED  BY <2>1
<1>2. ASSUME NEW m \in Nat, m \in S PROVE m + 1 \in S
  <2>. SUFFICES ASSUME m + 1 <= n PROVE \E g : IsSums(g, f, m + 1)
    OBVIOUS
  <2>1. PICK g : IsSums(g, f, m)
    BY <1>2
  <2>. DEFINE h == [k \in 0..m + 1 |-> IF k = m + 1 THEN g[m] + f[m + 1] ELSE g[k]]
  <2>2. h \in [0..m + 1 -> Int]
    BY <2>1 DEF IsSums
  <2>3. ASSUME NEW k \in 0..m + 1 PROVE h[k] = IF k = 0 THEN 0 ELSE h[k - 1] + f[k]
    BY <2>1 DEF IsSums
  <2>4. IsSums(h, f, m + 1)
    BY <2>2, <2>3 DEF IsSums
  <2>. QED  BY <2>4
<1>3. Nat \subseteq S
  <2>. HIDE DEF S
  <2>. QED  BY <1>1, <1>2, Counting
<1>. QED  BY <1>3

LEMMA TotalSums ==
    ASSUME NEW n \in Nat, NEW f \in [1..n -> Int]
    PROVE  \E g : IsSums(g, f, n) /\ Total(f) = g[n]
<1>. DEFINE sum[k \in 0..n] == IF k = 0 THEN 0 ELSE sum[k - 1] + f[k]
<1>1. Len(f) = n
  OBVIOUS
<1>2. PICK g : IsSums(g, f, n)
  BY SumsExist
<1>3. sum = [k \in 0..n |-> IF k = 0 THEN 0 ELSE sum[k - 1] + f[k]]
  BY <1>2 DEF IsSums
<1>4. Total(f) = sum[n]
  BY <1>1 DEF Total
<1>. HIDE DEF sum
<1>5. sum \in [0..n -> Int]
  <2>. DEFINE S == {m \in Nat : m <= n => sum[m] \in Int}
  <2>1. 0 \in S
    BY <1>3
  <2>2. ASSUME NEW m \in Nat, m \in S PROVE m + 1 \in S
    <3>1. m + 1 <= n => sum[m + 1] = sum[m] + f[m + 1]
      BY <1>3
    <3>. QED  BY <2>2, <3>1
  <2>3. Nat \subseteq S
    <3>. HIDE DEF S
    <3>. QED  BY <2>1, <2>2, Counting
  <2>4. \A m \in 0..n : sum[m] \in Int
    BY <2>3
  <2>. QED  BY <1>3, <2>4
<1>. QED  BY <1>3, <1>4, <1>5 DEF IsSums

LEMMA TotalType ==
    ASSUME NEW n \in Nat, NEW f \in [1..n -> Int] PROVE Total(f) \in Int
  BY TotalSums DEF IsSums

LEMMA SumsStep ==
    ASSUME NEW n \in Nat, NEW f \in [1..n -> Int], NEW g, IsSums(g, f, n), NEW m \in 0..n - 1
    PROVE  g[m + 1] = g[m] + f[m + 1] /\ g[m] \in Int /\ f[m + 1] \in Int
  BY DEF IsSums

LEMMA Distributes == \A a, b, c \in Int : a * (b + c) = a * b + a * c
  OBVIOUS

\* A closed form of the total, up to a factor.
LEMMA ClosedForm ==
    ASSUME NEW n \in Nat, NEW f \in [1..n -> Int], NEW p \in [0..n -> Int], NEW a \in Int,
           p[0] = 0, \A k \in 1..n : p[k] = p[k - 1] + a * f[k]
    PROVE  a * Total(f) = p[n]
<1>1. PICK g : IsSums(g, f, n) /\ Total(f) = g[n]
  BY TotalSums
<1>. DEFINE S == {m \in Nat : m <= n => a * g[m] = p[m]}
<1>2. 0 \in S
  <2>1. g[0] = 0
    BY <1>1 DEF IsSums
  <2>. QED  BY <2>1
<1>3. ASSUME NEW m \in Nat, m \in S PROVE m + 1 \in S
  <2>. SUFFICES ASSUME m + 1 <= n PROVE a * g[m + 1] = p[m + 1]
    OBVIOUS
  <2>1. g[m + 1] = g[m] + f[m + 1] /\ g[m] \in Int /\ f[m + 1] \in Int
    <3>1. m \in 0..n - 1
      OBVIOUS
    <3>. QED  BY <1>1, <3>1, SumsStep, Zenon
  <2>2. a * g[m] = p[m]
    BY <1>3
  <2>3. p[m + 1] = p[m] + a * f[m + 1]
    <3>1. m + 1 \in 1..n /\ m + 1 - 1 = m
      OBVIOUS
    <3>. QED  BY <3>1
  <2>4. a * (g[m] + f[m + 1]) = a * g[m] + a * f[m + 1]
    BY <2>1, Distributes, Zenon
  <2>5. a * g[m + 1] = a * (g[m] + f[m + 1])
    BY <2>1
  <2>. QED  BY <2>2, <2>3, <2>4, <2>5
<1>4. Nat \subseteq S
  <2>. HIDE DEF S
  <2>. QED  BY <1>2, <1>3, Counting
<1>. QED  BY <1>1, <1>4

\* The sums of 0, 1, 2, ... and of their squares.
LEMMA TotalIndices ==
    ASSUME NEW n \in Nat, NEW x, x = [i \in 1..n |-> i - 1] PROVE 2 * Total(x) = n * (n - 1)
<1>. DEFINE p == [k \in 0..n |-> k * (k - 1)]
<1>1. p \in [0..n -> Int] /\ p[0] = 0 /\ p[n] = n * (n - 1)
  OBVIOUS
<1>2. \A k \in 1..n : p[k] = p[k - 1] + 2 * x[k]
  OBVIOUS
<1>3. x \in [1..n -> Int]
  OBVIOUS
<1>. HIDE DEF p
<1>4. 2 \in Int
  OBVIOUS
<1>. QED  BY <1>1, <1>2, <1>3, <1>4, ClosedForm, Zenon

LEMMA TotalSquares ==
    ASSUME NEW n \in Nat, NEW y, y = [i \in 1..n |-> (i - 1) * (i - 1)]
    PROVE  6 * Total(y) = n * (n - 1) * (2 * n - 1)
<1>. DEFINE p == [k \in 0..n |-> k * (k - 1) * (2 * k - 1)]
<1>1. p \in [0..n -> Int] /\ p[0] = 0 /\ p[n] = n * (n - 1) * (2 * n - 1)
  OBVIOUS
<1>2. \A k \in 1..n : p[k] = p[k - 1] + 6 * y[k]
  OBVIOUS
<1>3. y \in [1..n -> Int] /\ 6 \in Int
  OBVIOUS
<1>4. 6 * Total(y) = p[n]
  <2>. HIDE DEF p
  <2>. QED  BY <1>1, <1>2, <1>3, ClosedForm, Zenon
<1>. QED  BY <1>1, <1>4

\* The denominator of the slope: 12 times it is n^2 (n^2 - 1).
LEMMA Variance ==
    ASSUME NEW n \in Nat, n >= 2, NEW x, x = [i \in 1..n |-> i - 1],
           NEW y, y = [i \in 1..n |-> x[i] * x[i]]
    PROVE  n * Total(y) - Total(x) * Total(x) \in Nat \ {0}
<1>. DEFINE q == Total(y)
            s == Total(x)
<1>1. q \in Int /\ s \in Int
  <2>1. x \in [1..n -> Int] /\ y \in [1..n -> Int]
    OBVIOUS
  <2>. QED  BY <2>1, TotalType
<1>2. 2 * s = n * (n - 1) /\ 6 * q = n * (n - 1) * (2 * n - 1)
  <2>1. 2 * s = n * (n - 1)
    BY TotalIndices, Zenon
  <2>2. 6 * q = n * (n - 1) * (2 * n - 1)
    <3>1. y = [i \in 1..n |-> (i - 1) * (i - 1)]
      OBVIOUS
    <3>. QED  BY <3>1, TotalSquares, Zenon
  <2>. QED  BY <2>1, <2>2
<1>. HIDE DEF q, s
<1>3. 12 * (n * q - s * s) = 2 * n * (6 * q) - 3 * ((2 * s) * (2 * s))
  BY <1>1
<1>4. 2 * n * (n * (n - 1) * (2 * n - 1)) - 3 * ((n * (n - 1)) * (n * (n - 1)))
        = n * n * ((n - 1) * (n + 1))
  OBVIOUS
<1>5. n * n * ((n - 1) * (n + 1)) > 0
  OBVIOUS
<1>6. 12 * (n * q - s * s) > 0
  BY <1>2, <1>3, <1>4, <1>5
<1>7. n * q - s * s \in Int
  BY <1>1
<1>8. n * q - s * s \in Nat \ {0}
  BY <1>6, <1>7
<1>. QED  BY <1>8 DEF q, s

\* Equal fractions have equal percentages.
LEMMA SameQuotient ==
    ASSUME NEW a \in Nat, NEW b \in Nat \ {0}, NEW p \in Nat, NEW q \in Nat \ {0}, a * q = p * b,
           NEW c \in Nat
    PROVE  (c * a) \div b = (c * p) \div q
<1>. DEFINE d == (c * a) \div b
            e == (c * p) \div q
<1>1. ASSUME NEW u \in Nat, NEW v \in Nat \ {0}
      PROVE  u \div v \in Nat /\ v * (u \div v) <= u /\ u < v * (u \div v + 1)
  BY <1>1
<1>2. c * a \in Nat /\ c * p \in Nat
  OBVIOUS
<1>3. d \in Nat /\ b * d <= c * a /\ c * a < b * (d + 1)
  BY <1>1, <1>2
<1>4. e \in Nat /\ q * e <= c * p /\ c * p < q * (e + 1)
  BY <1>1, <1>2
<1>. HIDE DEF d, e
<1>5. q * (c * a) = b * (c * p)
  <2>1. q * (c * a) = c * (a * q)
    OBVIOUS
  <2>2. b * (c * p) = c * (p * b)
    OBVIOUS
  <2>. QED  BY <2>1, <2>2
<1>6. ASSUME NEW x \in Nat, NEW y \in Nat, NEW f \in Nat, NEW g \in Nat,
             NEW m \in Nat \ {0}, NEW k \in Nat \ {0}, m * x = k * y, k * f <= x, y < m * (g + 1)
      PROVE  f <= g
  <2>1. m * (k * f) <= m * x
    BY <1>6
  <2>2. k * y < k * (m * (g + 1))
    BY <1>6
  <2>3. k * (m * (g + 1)) = m * (k * (g + 1))
    OBVIOUS
  <2>4. m * (k * f) < m * (k * (g + 1))
    BY <1>6, <2>1, <2>2, <2>3
  <2>5. CASE f >= g + 1
    <3>1. k * f >= k * (g + 1)
      BY <2>5
    <3>2. m * (k * f) >= m * (k * (g + 1))
      BY <3>1
    <3>. QED  BY <2>4, <3>2
  <2>. QED  BY <2>5
<1>7. d <= e
  BY <1>2, <1>3, <1>4, <1>5, <1>6
<1>8. e <= d
  BY <1>2, <1>3, <1>4, <1>5, <1>6
<1>9. d = e
  BY <1>3, <1>4, <1>7, <1>8
<1>. QED  BY <1>9 DEF d, e

LEMMA WithinType ==
    ASSUME NEW low \in Int, NEW high \in Int, low <= high, NEW x \in Int
    PROVE  Within(low, x, high) \in low..high
  BY DEF Within

\* With two scores or more there is a line, and its slope is clipped.
LEMMA TrendType == ASSUME history \in Seq(TrustEvents) PROVE Trend \in -100..100
<1>. DEFINE n == Len(Recent)
            x == [i \in 1..n |-> i - 1]
            y == [i \in 1..n |-> Recent[i].after]
            xy == [i \in 1..n |-> x[i] * y[i]]
            xx == [i \in 1..n |-> x[i] * x[i]]
            covariance == n * Total(xy) - Total(x) * Total(y)
            variance == n * Total(xx) - Total(x) * Total(x)
<1>1. n \in Nat /\ Recent \in [1..n -> TrustEvents]
  <2>1. Recent \in Seq(TrustEvents)
    BY DEF Recent, MinOf, TrendWindow
  <2>. QED  BY <2>1
<1>2. x \in [1..n -> Int] /\ y \in [1..n -> Int] /\ xy \in [1..n -> Int]
  <2>1. \A i \in 1..n : Recent[i].after \in Int
    <3>1. \A e \in TrustEvents : e.after \in 0..Full
      BY DEF TrustEvents
    <3>2. 0..Full \subseteq Int
      BY DEF Full
    <3>. HIDE DEF n
    <3>. QED  BY <1>1, <3>1, <3>2
  <2>. HIDE DEF n
  <2>2. x \in [1..n -> Int] /\ y \in [1..n -> Int]
    BY <1>1, <2>1
  <2>3. \A i \in 1..n : x[i] \in Int /\ y[i] \in Int
    BY <2>2
  <2>4. \A i \in 1..n : x[i] * y[i] \in Int
    BY <2>3
  <2>. QED  BY <2>2, <2>4
<1>3. covariance \in Int
  <2>1. Total(x) \in Int /\ Total(y) \in Int /\ Total(xy) \in Int
    <3>. HIDE DEF n, x, y, xy
    <3>. QED  BY <1>1, <1>2, TotalType
  <2>. HIDE DEF n, x, y, xy
  <2>. QED  BY <1>1, <2>1
<1>4. n >= 2 => variance \in Nat \ {0}
  <2>. HIDE DEF n
  <2>. QED  BY <1>1, Variance
<1>5. Trend = IF n < 2 THEN 0 ELSE Within(-100, (50 * covariance) \div variance, 100)
  BY DEF Trend
<1>6. n >= 2 => (50 * covariance) \div variance \in Int
  <2>. HIDE DEF n, covariance, variance
  <2>. QED  BY <1>3, <1>4
<1>7. -100 \in Int /\ 100 \in Int /\ -100 <= 100 /\ 0 \in -100..100
  OBVIOUS
<1>. HIDE DEF n, covariance, variance
<1>8. n >= 2 => Within(-100, (50 * covariance) \div variance, 100) \in -100..100
  BY <1>6, <1>7, WithinType, Zenon
<1>9. n < 2 \/ n >= 2
  BY <1>1
<1>. QED  BY <1>5, <1>7, <1>8, <1>9, Zenon
-----------------------------------------------------------------------------
(***************************************************************************)
(* The health score                                                        *)
(***************************************************************************)
\* A row whose rate is a fraction.
Fraction(h) == h \in HealthRow /\ h.rate[2] # 0

LEMMA Parts ==
    ASSUME NEW h, Fraction(h), NEW t \in 0..Full, NEW v \in -100..100, NEW r \in 0..100
    PROVE  /\ AuthPart(h) \in Int /\ TrustPart(t) \in Int /\ TrendPart(v) \in Int
           /\ RecencyPart(h, r) \in Int
           /\ HealthScore(h, t, v, r) \in 0..MaxHealth
<1>1. h.rate[1] \in Nat /\ h.rate[2] \in Nat \ {0} /\ h.answered \in BOOLEAN
  BY DEF Fraction, HealthRow, Rate
<1>2. (4000 * h.rate[1]) \div h.rate[2] \in Int
  BY <1>1
<1>3. AuthPart(h) \in Int
  BY <1>2 DEF AuthPart
<1>4. TrustPart(t) \in Int /\ TrendPart(v) \in Int /\ RecencyPart(h, r) \in Int
  BY <1>1 DEF TrustPart, TrustOrFull, TrendPart, RecencyPart, Full
<1>5. AuthPart(h) + TrustPart(t) + TrendPart(v) + RecencyPart(h, r) \in Int
  BY <1>3, <1>4
<1>6. MaxHealth \in Int /\ 0 \in Int /\ 0 <= MaxHealth
  BY DEF MaxHealth
<1>. QED  BY <1>3, <1>4, <1>5, <1>6, WithinType DEF HealthScore

\* Rows that agree but for how the same rate is written have the same health.
LEMMA SameHealth ==
    ASSUME NEW g, Fraction(g), NEW h, Fraction(h), g.total = h.total, g.answered = h.answered,
           Same(g.rate, h.rate), NEW t, NEW v, NEW r
    PROVE  HealthScore(g, t, v, r) = HealthScore(h, t, v, r)
<1>1. /\ g.rate[1] \in Nat /\ g.rate[2] \in Nat \ {0}
      /\ h.rate[1] \in Nat /\ h.rate[2] \in Nat \ {0}
      /\ g.rate[1] * h.rate[2] = h.rate[1] * g.rate[2]
  BY DEF Fraction, HealthRow, Rate, Same
<1>2. PICK a, b, p, q, c :
        a = g.rate[1] /\ b = g.rate[2] /\ p = h.rate[1] /\ q = h.rate[2] /\ c = 4000
  OBVIOUS
<1>3. (4000 * g.rate[1]) \div g.rate[2] = (4000 * h.rate[1]) \div h.rate[2]
  <2>1. a \in Nat /\ b \in Nat \ {0} /\ p \in Nat /\ q \in Nat \ {0} /\ a * q = p * b
    BY <1>1, <1>2, Zenon
  <2>2. c \in Nat
    BY <1>2
  <2>3. (c * a) \div b = (c * p) \div q
    BY <2>1, <2>2, SameQuotient
  <2>. QED  BY <1>2, <2>3
<1>4. AuthPart(g) = AuthPart(h) /\ RecencyPart(g, r) = RecencyPart(h, r)
  BY <1>3 DEF AuthPart, RecencyPart
<1>. QED  BY <1>4 DEF HealthScore

Columns == {"total", "successes", "failures", "streak", "rate", "answered", "trend", "score"}

LEMMA RowIs ==
    ASSUME NEW k, k = [c \in Columns |-> k[c]],
           k["total"] \in Nat, k["successes"] \in Nat, k["failures"] \in Nat, k["streak"] \in Nat,
           k["rate"] \in Rate, k["rate"][2] # 0, k["answered"] \in BOOLEAN,
           k["trend"] \in -100..100, k["score"] \in 0..MaxHealth
    PROVE  Fraction(k)
  BY DEF Fraction, HealthRow, Columns

\* record_auth_event in memory, and the recomputed columns.
LEMMA CountedCounts ==
    ASSUME NEW h, Fraction(h), NEW c \in Calls, NEW k, k = Counted(h, c)
    PROVE  /\ Fraction(k)
           /\ k.total = IF c = "get" THEN h.total ELSE h.total + 1
           /\ k.successes = IF c = "success" THEN h.successes + 1 ELSE h.successes
           /\ k.failures = IF c = "failure" THEN h.failures + 1 ELSE h.failures
           /\ k.streak = IF c = "get" THEN h.streak ELSE IF c = "success" THEN 0 ELSE h.streak + 1
           /\ k.rate = IF c = "get" THEN h.rate ELSE <<k.successes, k.total>>
<1>1. CASE c = "get"
  BY <1>1 DEF Counted
<1>2. CASE c # "get"
  <2>1. k = [h EXCEPT !.total = @ + 1,
                      !.successes = IF c = "success" THEN @ + 1 ELSE @,
                      !.failures = IF c = "success" THEN @ ELSE @ + 1,
                      !.streak = IF c = "success" THEN 0 ELSE @ + 1,
                      !.answered = c = "success" \/ @,
                      !.rate = <<IF c = "success" THEN h.successes + 1 ELSE h.successes, h.total + 1>>]
    BY <1>2 DEF Counted, Fraction, HealthRow
  <2>2. h.total \in Nat /\ h.successes \in Nat /\ h.failures \in Nat /\ h.streak \in Nat
    BY DEF Fraction, HealthRow
  <2>3. /\ k.total = h.total + 1
        /\ k.successes = IF c = "success" THEN h.successes + 1 ELSE h.successes
        /\ k.failures = IF c = "failure" THEN h.failures + 1 ELSE h.failures
        /\ k.streak = IF c = "success" THEN 0 ELSE h.streak + 1
        /\ k.rate = <<k.successes, k.total>>
        /\ k.answered \in BOOLEAN
    BY <1>2, <2>1 DEF Fraction, HealthRow, Calls
  <2>4. k = [x \in Columns |-> k[x]] /\ k.trend = h.trend /\ k.score = h.score
    BY <2>1 DEF Fraction, HealthRow, Columns
  <2>5. k.rate \in Rate /\ k.rate[2] # 0
    BY <1>2, <2>2, <2>3 DEF Rate
  <2>6. Fraction(k)
    BY <2>2, <2>3, <2>4, <2>5, RowIs DEF Fraction, HealthRow
  <2>. QED  BY <1>2, <2>3, <2>6
<1>. QED  BY <1>1, <1>2

Recorded(h, c, t, v, r, o) ==
    /\ Fraction(o)
    /\ o.total = IF c = "get" THEN h.total ELSE h.total + 1
    /\ o.successes = IF c = "success" THEN h.successes + 1 ELSE h.successes
    /\ o.failures = IF c = "failure" THEN h.failures + 1 ELSE h.failures
    /\ o.streak = IF c = "get" THEN h.streak ELSE IF c = "success" THEN 0 ELSE h.streak + 1
    /\ o.rate = IF c = "get" THEN h.rate ELSE <<o.successes, o.total>>
    /\ o.trend = v /\ o.score = HealthScore(o, t, v, r)

LEMMA OutcomeIs ==
    ASSUME NEW h, Fraction(h), NEW c \in Calls, NEW t \in 0..Full, NEW v \in -100..100, NEW r \in 0..100
    PROVE  Recorded(h, c, t, v, r, Scored(Counted(h, c), t, v, r))
<1>0. PICK o : o = Scored(Counted(h, c), t, v, r)
  OBVIOUS
<1>1. PICK k : k = Counted(h, c)
  OBVIOUS
<1>2. Fraction(k)
  BY <1>1, CountedCounts
<1>3. PICK x : x = HealthScore(k, t, v, r)
  OBVIOUS
<1>4. o = [k EXCEPT !.trend = v, !.score = x] /\ x \in 0..MaxHealth
  BY <1>0, <1>1, <1>2, <1>3, Parts DEF Scored
<1>5. /\ Fraction(o) /\ o.total = k.total /\ o.successes = k.successes /\ o.failures = k.failures
      /\ o.streak = k.streak /\ o.rate = k.rate /\ o.answered = k.answered
      /\ o.trend = v /\ o.score = x
  BY <1>2, <1>4 DEF Fraction, HealthRow
<1>6. HealthScore(o, t, v, r) = x
  BY <1>3, <1>5 DEF HealthScore, AuthPart, RecencyPart
<1>7. Recorded(h, c, t, v, r, o)
  BY <1>1, <1>5, <1>6, CountedCounts DEF Recorded
<1>. QED  BY <1>0, <1>7

\* What COMMIT leaves: the committed column, or that of the request where it
\* changed what it had loaded.
LEMMA WrittenIs ==
    ASSUME NEW old, NEW new, Fraction(row), Fraction(old), Fraction(new), NEW w, w = Written(old, new)
    PROVE  /\ Fraction(w)
           /\ \A c \in DOMAIN new \ {"rate"} : w[c] = IF old[c] = new[c] THEN row[c] ELSE new[c]
           /\ w.rate = IF Same(old.rate, new.rate) \/ old.rate = new.rate THEN row.rate ELSE new.rate
<1>1. DOMAIN new = Columns
  BY DEF Fraction, HealthRow, Columns
<1>2. /\ w = [c \in Columns |-> w[c]]
      /\ \A c \in Columns \ {"rate"} : w[c] = IF old[c] = new[c] THEN row[c] ELSE new[c]
      /\ w["rate"] = IF Same(old.rate, new.rate) \/ old.rate = new.rate THEN row.rate ELSE new.rate
  BY <1>1 DEF Written, Columns
<1>3. /\ w["total"] \in Nat /\ w["successes"] \in Nat /\ w["failures"] \in Nat
      /\ w["streak"] \in Nat /\ w["rate"] \in Rate /\ w["answered"] \in BOOLEAN
      /\ w["trend"] \in -100..100 /\ w["score"] \in 0..MaxHealth /\ w["rate"][2] # 0
  <2>1. /\ row.total \in Nat /\ row.successes \in Nat /\ row.failures \in Nat
        /\ row.streak \in Nat /\ row.rate \in Rate /\ row.answered \in BOOLEAN
        /\ row.trend \in -100..100 /\ row.score \in 0..MaxHealth /\ row.rate[2] # 0
    BY DEF Fraction, HealthRow
  <2>2. /\ new.total \in Nat /\ new.successes \in Nat /\ new.failures \in Nat
        /\ new.streak \in Nat /\ new.rate \in Rate /\ new.answered \in BOOLEAN
        /\ new.trend \in -100..100 /\ new.score \in 0..MaxHealth /\ new.rate[2] # 0
    BY DEF Fraction, HealthRow
  <2>3. w["rate"] \in Rate /\ w["rate"][2] # 0
    BY <1>2, <2>1, <2>2
  <2>4. \A c \in Columns \ {"rate"} : w[c] = row[c] \/ w[c] = new[c]
    BY <1>2
  <2>5. /\ w["total"] = row.total \/ w["total"] = new.total
        /\ w["successes"] = row.successes \/ w["successes"] = new.successes
        /\ w["failures"] = row.failures \/ w["failures"] = new.failures
        /\ w["streak"] = row.streak \/ w["streak"] = new.streak
        /\ w["answered"] = row.answered \/ w["answered"] = new.answered
        /\ w["trend"] = row.trend \/ w["trend"] = new.trend
        /\ w["score"] = row.score \/ w["score"] = new.score
    BY <2>4 DEF Columns
  <2>. QED  BY <2>1, <2>2, <2>3, <2>5
<1>. QED  BY <1>1, <1>2, <1>3, RowIs
-----------------------------------------------------------------------------
(***************************************************************************)
(* The inductive invariant                                                 *)
(***************************************************************************)
\* A row whose counts are covered by committed events.
Sound(h) == Fraction(h) /\ CountedWithin(h) /\ h.streak <= h.failures

\* Some request has committed, and the health of the row is that of its rate and trend.
Done == \E s \in Session : at[s] = "done"
HealthAccurate ==
    Done => \E t \in Levels, r \in Recency : row.score = HealthScore(row, t, row.trend, r)

RowOK ==
    /\ row # None => Sound(row)
    /\ row # None /\ ~stale => CountsAccurate /\ HealthAccurate

\* What requests and the trust engine hold.
ReadingsOK ==
    /\ score \in Levels /\ history \in Seq(TrustEvents)
    /\ trust \in [Session -> Levels] /\ slope \in [Session -> -100..100]

SessionsOK ==
    /\ at \in [Session -> {"new"} \union InFlight \union Ended]
    /\ call \in [Session -> Call \union {None}]
    /\ held = [s \in Session |-> held[s]]
    /\ \A s \in Session :
          /\ held[s] # None => row # None /\ Sound(held[s])
          /\ at[s] \in {"scoring", "trending", "committing"} => held[s] # None
          /\ at[s] \in {"refreshing", "conflict", "done"} => row # None
          /\ at[s] \in InFlight => call[s] \in Call

IInv == RowOK /\ ReadingsOK /\ SessionsOK /\ stale \in BOOLEAN

\* What is counted are finitely many events.
LEMMA Finite ==
    /\ \A c : IsFiniteSet(Committed(c)) /\ Cardinality(Committed(c)) \in Nat
    /\ IsFiniteSet(Attempts) /\ Cardinality(Attempts) \in Nat
<1>1. ASSUME NEW T, T \subseteq Session PROVE IsFiniteSet(T) /\ Cardinality(T) \in Nat
  BY <1>1, FS_Subset, FS_CardinalityType, HealthAssumption
<1>2. (\A c : Committed(c) \subseteq Session) /\ Attempts \subseteq Session
  BY DEF Committed, Attempts
<1>. QED  BY <1>1, <1>2

\* A row keeps its soundness while no event is taken back.
LEMMA SoundStays ==
    ASSUME NEW h, Sound(h),
           \A s \in Session : at[s] = "done" => at'[s] = "done" /\ call'[s] = call[s]
    PROVE  Sound(h)'
<1>1. /\ Committed("success") \subseteq Committed("success")'
      /\ Committed("failure") \subseteq Committed("failure")'
      /\ Attempts \subseteq Attempts'
  BY DEF Committed, Attempts
<1>2. IsFiniteSet(Committed("success")') /\ IsFiniteSet(Committed("failure")') /\ IsFiniteSet(Attempts')
  BY FS_Subset, HealthAssumption DEF Committed, Attempts
<1>3. /\ Cardinality(Committed("success")) <= Cardinality(Committed("success")')
      /\ Cardinality(Committed("failure")) <= Cardinality(Committed("failure")')
      /\ Cardinality(Attempts) <= Cardinality(Attempts')
  BY <1>1, <1>2, FS_Subset
<1>4. /\ Cardinality(Committed("success")') \in Nat /\ Cardinality(Committed("failure")') \in Nat
      /\ Cardinality(Attempts') \in Nat
  BY <1>2, FS_CardinalityType
<1>. QED  BY <1>3, <1>4, Finite DEF Sound, CountedWithin, Fraction, HealthRow

\* The event that is committed is one more.
LEMMA OneMore ==
    ASSUME NEW s \in Session, at \in [Session -> {"new"} \union InFlight \union Ended],
           at[s] # "done", at' = [at EXCEPT ![s] = "done"], call' = call
    PROVE  /\ \A c : Cardinality(Committed(c)') =
                       Cardinality(Committed(c)) + (IF call[s] = c THEN 1 ELSE 0)
           /\ Cardinality(Attempts') =
                Cardinality(Attempts) + (IF call[s] \in {"success", "failure"} THEN 1 ELSE 0)
<1>1. ASSUME NEW c PROVE Committed(c)' = IF call[s] = c THEN Committed(c) \union {s} ELSE Committed(c)
  BY DEF Committed
<1>2. Attempts' = IF call[s] \in {"success", "failure"} THEN Attempts \union {s} ELSE Attempts
  BY DEF Attempts, Committed
<1>3. (\A c : s \notin Committed(c)) /\ s \notin Attempts
  BY DEF Committed, Attempts
<1>4. ASSUME NEW T, IsFiniteSet(T), s \notin T PROVE Cardinality(T \union {s}) = Cardinality(T) + 1
  BY <1>4, FS_AddElement
<1>5. ASSUME NEW c
      PROVE  Cardinality(Committed(c)') = Cardinality(Committed(c)) + (IF call[s] = c THEN 1 ELSE 0)
  BY <1>1, <1>3, <1>4, Finite
<1>6. Cardinality(Attempts') =
         Cardinality(Attempts) + (IF call[s] \in {"success", "failure"} THEN 1 ELSE 0)
  BY <1>2, <1>3, <1>4, Finite
<1>. QED  BY <1>5, <1>6
LEMMA NewSound == Sound(NewHealth) /\ NewHealth # None
<1>1. NewHealth = [c \in Columns |-> NewHealth[c]]
  BY DEF NewHealth, Columns
<1>2. /\ NewHealth.total = 0 /\ NewHealth.successes = 0
      /\ NewHealth.failures = 0 /\ NewHealth.streak = 0
  BY DEF NewHealth
<1>3. Fraction(NewHealth)
  BY DEF NewHealth, HealthRow, Rate, MaxHealth, Fraction
<1>4. CountedWithin(NewHealth)
  BY <1>2, Finite DEF CountedWithin
<1>. QED  BY <1>2, <1>3, <1>4, HealthAssumption DEF Sound, Fraction

\* The trust engine and the reads of it.
LEMMA ReadingsInit == Init => ReadingsOK
  BY DEF Init, Trust!Init, ReadingsOK, Levels

LEMMA ReadingsStep == ASSUME ReadingsOK, [Next]_vars PROVE ReadingsOK'
<1>0. Levels \subseteq 0..Full /\ Full \in Levels /\ TrustLevels \subseteq Levels
  BY HealthAssumption DEF Levels, Full
<1>1. CASE UNCHANGED vars
  BY <1>1 DEF vars, trustVars, requestVars, ReadingsOK
<1>2. CASE TrustMoves
  <2>1. UNCHANGED <<trust, slope>>
    BY <1>2 DEF TrustMoves, requestVars
  <2>2. CASE Trust!Reset
    BY <1>0, <2>1, <2>2 DEF Trust!Reset, ReadingsOK
  <2>3. ASSUME NEW before \in Trust!Held, NEW after \in TrustLevels,
               Trust!Adjust("engine", before, after)
        PROVE  ReadingsOK'
    <3>1. before \in 0..Full
      <4>1. \A i \in DOMAIN history : history[i] \in TrustEvents
        BY DEF ReadingsOK
      <4>2. \A e \in TrustEvents : e.after \in 0..Full
        BY DEF TrustEvents
      <4>3. \A i \in DOMAIN history : history[i].after \in 0..Full
        BY <4>1, <4>2
      <4>. QED  BY <1>0, <4>3 DEF Trust!Held
    <3>2. after \in Levels /\ [before |-> before, after |-> after, by |-> "engine"] \in TrustEvents
      BY <1>0, <3>1 DEF TrustEvents
    <3>3. history' \in Seq(TrustEvents)
      BY <2>3, <3>2 DEF Trust!Adjust, ReadingsOK
    <3>4. score' \in Levels
      BY <2>3, <3>2 DEF Trust!Adjust, ReadingsOK
    <3>. QED  BY <2>1, <3>3, <3>4 DEF ReadingsOK
  <2>. QED  BY <1>2, <2>2, <2>3 DEF TrustMoves
<1>3. ASSUME NEW s \in Session, Step(s) \/ Abort(s) PROVE ReadingsOK'
  <2>1. UNCHANGED <<score, history>>
    BY <1>3 DEF Step, Authenticate, FindHealth, CreateHealth, RefreshHealth, ReadTrust,
                ReadTrend, CommitHealth, Abort, trustVars
  <2>2. trust' \in [Session -> Levels]
    BY <1>0, <1>3 DEF Step, Authenticate, FindHealth, CreateHealth, RefreshHealth, ReadTrust,
                ReadTrend, CommitHealth, Abort, Closed, ReadingsOK
  <2>3. slope' \in [Session -> -100..100]
    <3>1. Trend \in -100..100 /\ 0 \in -100..100
      BY TrendType DEF ReadingsOK
    <3>2. slope' = slope \/ \E v \in -100..100 : slope' = [slope EXCEPT ![s] = v]
      BY <1>3, <3>1 DEF Step, Authenticate, FindHealth, CreateHealth, RefreshHealth, ReadTrust,
                ReadTrend, CommitHealth, Abort, Closed
    <3>. QED  BY <3>2 DEF ReadingsOK
  <2>. QED  BY <2>1, <2>2, <2>3 DEF ReadingsOK
<1>. QED  BY <1>1, <1>2, <1>3 DEF Next

LEMMA InitOK == Init => IInv
<1>1. Init => RowOK /\ SessionsOK /\ stale \in BOOLEAN
  BY HealthAssumption DEF Init, RowOK, SessionsOK, InFlight, Ended
<1>. QED  BY <1>1, ReadingsInit DEF IInv

\* Steps that neither commit an event nor write the row.
LEMMA QuietOK ==
    ASSUME IInv, ReadingsOK', UNCHANGED <<row, stale>>,
           call' \in [Session -> Call \union {None}],
           at' \in [Session -> {"new"} \union InFlight \union Ended],
           \A s \in Session :
              /\ at'[s] = "done" <=> at[s] = "done"
              /\ at[s] = "done" => call'[s] = call[s]
              /\ at'[s] \in InFlight => call'[s] \in Call,
           held' = [s \in Session |-> held'[s]],
           \A s \in Session :
              /\ held'[s] # None => held'[s] = held[s] \/ held'[s] = row
              /\ at'[s] \in {"scoring", "trending", "committing"} => held'[s] # None
              /\ at'[s] \in {"refreshing", "conflict", "done"} => row # None
    PROVE  IInv'
<1>1. \A h : Sound(h) => Sound(h)'
  BY SoundStays
<1>2. Attempts' = Attempts /\ \A c : Committed(c)' = Committed(c)
  BY DEF Attempts, Committed
<1>3. row # None => Sound(row)'
  BY <1>1 DEF IInv, RowOK
<1>4. row' # None => Sound(row)'
  BY <1>3
<1>5. RowOK'
  <2>1. row # None /\ ~stale => CountsAccurate'
    BY <1>2 DEF IInv, RowOK, CountsAccurate
  <2>2. Done' <=> Done
    BY DEF Done
  <2>3. row # None /\ ~stale => HealthAccurate'
    BY <2>2 DEF IInv, RowOK, HealthAccurate
  <2>. QED  BY <1>3, <2>1, <2>3 DEF RowOK
<1>6. \A s \in Session : held'[s] # None => row # None /\ Sound(held[s])'
  <2>. SUFFICES ASSUME NEW s \in Session, held'[s] # None PROVE row # None /\ Sound(held[s])'
    OBVIOUS
  <2>0. PICK w : w = held'[s]
    OBVIOUS
  <2>1. row # None /\ Sound(w)
    BY <2>0 DEF IInv, RowOK, SessionsOK
  <2>2. Sound(w)'
    BY <1>1, <2>1
  <2>. QED  BY <2>0, <2>1, <2>2 DEF Sound, CountedWithin
<1>. QED  BY <1>5, <1>6 DEF IInv, SessionsOK

\* The first row of a device, before anything was committed.
LEMMA CreateOK ==
    ASSUME IInv, ReadingsOK', NEW s \in Session, row = None, row' = NewHealth,
           Move(s, "creating", "refreshing"), UNCHANGED <<call, held, stale>>
    PROVE  IInv'
<1>1. /\ Attempts = {} /\ Attempts' = {} /\ ~Done'
      /\ \A c : Committed(c) = {} /\ Committed(c)' = {}
  BY DEF Attempts, Committed, Done, IInv, SessionsOK, Move
<1>2. Cardinality({}) = 0
  BY FS_EmptySet
<1>3. Sound(NewHealth)'
  BY <1>1, <1>2, NewSound DEF Sound, CountedWithin
<1>4. CountsAccurate' /\ HealthAccurate'
  BY <1>1, <1>2 DEF CountsAccurate, HealthAccurate, Same, NewHealth
<1>5. RowOK'
  <2>1. row' # None => Sound(row)'
    BY <1>3 DEF Sound, CountedWithin
  <2>. QED  BY <1>4, <2>1 DEF RowOK
<1>6. SessionsOK'
  BY NewSound DEF IInv, SessionsOK, Move, InFlight
<1>. QED  BY <1>5, <1>6 DEF IInv

LEMMA CommitOK == ASSUME IInv, ReadingsOK', NEW s \in Session, CommitHealth(s) PROVE IInv'
<1>. DEFINE c == call[s]
<1>1. /\ at[s] = "committing" /\ at' = [at EXCEPT ![s] = "done"] /\ call' = call
      /\ held' = [held EXCEPT ![s] = None] /\ stale' = (stale \/ held[s] # row)
      /\ c \in Calls
  BY HealthAssumption DEF CommitHealth, Move, Closed, IInv, SessionsOK, InFlight
<1>2. row # None /\ Sound(row) /\ Sound(held[s])
  BY <1>1 DEF IInv, RowOK, SessionsOK
<1>3. PICK h : h = held[s]
  OBVIOUS
<1>inputs. PICK t \in Levels, v \in -100..100, r \in Recency :
              row' = Written(h, Scored(Counted(h, c), t, v, r))
  BY <1>3 DEF CommitHealth, Outcome, IInv, ReadingsOK
<1>4. PICK o : row' = Written(h, o) /\ o = Scored(Counted(h, c), t, v, r)
  BY <1>inputs
<1>5. /\ Fraction(o)
      /\ o.total = IF c = "get" THEN h.total ELSE h.total + 1
      /\ o.successes = IF c = "success" THEN h.successes + 1 ELSE h.successes
      /\ o.failures = IF c = "failure" THEN h.failures + 1 ELSE h.failures
      /\ o.streak = IF c = "get" THEN h.streak ELSE IF c = "success" THEN 0 ELSE h.streak + 1
      /\ o.rate = IF c = "get" THEN h.rate ELSE <<o.successes, o.total>>
      /\ o.trend = v /\ o.score = HealthScore(o, t, v, r)
  <2>1. Fraction(h) /\ t \in 0..Full /\ r \in 0..100
    <3>1. Fraction(h)
      BY <1>2, <1>3 DEF Sound
    <3>. QED  BY <3>1, HealthAssumption DEF Levels, Full
  <2>2. c \in Calls /\ o = Scored(Counted(h, c), t, v, r)
    BY <1>1, <1>4
  <2>. HIDE DEF c
  <2>3. Recorded(h, c, t, v, r, o)
    BY <2>1, <2>2, OutcomeIs
  <2>. QED  BY <2>3 DEF Recorded
<1>6. /\ Fraction(row')
      /\ \A x \in Columns \ {"rate"} : row'[x] = IF h[x] = o[x] THEN row[x] ELSE o[x]
      /\ row'.rate = IF Same(h.rate, o.rate) \/ h.rate = o.rate THEN row.rate ELSE o.rate
  <2>1. Fraction(row) /\ Fraction(h)
    BY <1>2, <1>3 DEF Sound
  <2>2. DOMAIN o = Columns
    BY <1>5 DEF Fraction, HealthRow, Columns
  <2>. QED  BY <1>4, <1>5, <2>1, <2>2, WrittenIs
<1>7. /\ row'.total = IF h.total = o.total THEN row.total ELSE o.total
      /\ row'.successes = IF h.successes = o.successes THEN row.successes ELSE o.successes
      /\ row'.failures = IF h.failures = o.failures THEN row.failures ELSE o.failures
      /\ row'.streak = IF h.streak = o.streak THEN row.streak ELSE o.streak
  BY <1>6 DEF Columns
<1>8. /\ \A d : Cardinality(Committed(d)') = Cardinality(Committed(d)) + (IF c = d THEN 1 ELSE 0)
      /\ Cardinality(Attempts') =
           Cardinality(Attempts) + (IF c \in {"success", "failure"} THEN 1 ELSE 0)
  BY <1>1, OneMore DEF IInv, SessionsOK
<1>9. Sound(row)'
  <2>1. /\ row.total \in Nat /\ row.successes \in Nat /\ row.failures \in Nat /\ row.streak \in Nat
        /\ h.total \in Nat /\ h.successes \in Nat /\ h.failures \in Nat /\ h.streak \in Nat
        /\ CountedWithin(row) /\ CountedWithin(h)
        /\ row.streak <= row.failures /\ h.streak <= h.failures
    BY <1>2, <1>3 DEF Sound, Fraction, HealthRow
  <2>2. CountedWithin(row)'
    BY <1>1, <1>5, <1>7, <1>8, <2>1, Finite DEF CountedWithin, Calls
  <2>3. row'.streak <= row'.failures
    BY <1>1, <1>5, <1>7, <2>1 DEF Calls
  <2>. QED  BY <1>6, <2>2, <2>3 DEF Sound, Fraction
<1>10. ~stale /\ h = row => CountsAccurate' /\ HealthAccurate'
  <2>. SUFFICES ASSUME ~stale, h = row PROVE CountsAccurate' /\ HealthAccurate'
    OBVIOUS
  <2>1. CountsAccurate /\ row.total \in Nat /\ row.successes \in Nat /\ row.failures \in Nat
    BY <1>2 DEF IInv, RowOK, Sound, Fraction, HealthRow
  <2>2. \A x \in Columns \ {"rate"} : row'[x] = o[x]
    BY <1>6
  <2>3. /\ row'.total = o.total /\ row'.successes = o.successes /\ row'.failures = o.failures
        /\ row'.answered = o.answered /\ row'.trend = o.trend /\ row'.score = o.score
    BY <2>2 DEF Columns
  <2>4. Same(row'.rate, o.rate)
    <3>1. row'.rate = IF Same(row.rate, o.rate) \/ row.rate = o.rate THEN row.rate ELSE o.rate
      BY <1>6
    <3>. QED  BY <3>1 DEF Same
  <2>5. Same(row'.rate, <<row'.successes, IF row'.total = 0 THEN 1 ELSE row'.total>>)
    <3>1. CASE c = "get"
      <4>1. row'.rate = row.rate
        BY <1>5, <1>6, <3>1
      <4>. QED  BY <1>5, <2>1, <2>3, <3>1, <4>1 DEF CountsAccurate
    <3>2. CASE c # "get"
      <4>1. row'.total # 0
        BY <1>5, <2>1, <2>3, <3>2
      <4>. QED  BY <1>5, <2>3, <2>4, <3>2, <4>1
    <3>. QED  BY <3>1, <3>2
  <2>6. /\ row'.total = Cardinality(Attempts')
        /\ row'.successes = Cardinality(Committed("success")')
        /\ row'.failures = Cardinality(Committed("failure")')
    BY <1>1, <1>5, <1>8, <2>1, <2>3, Finite DEF CountsAccurate, Calls
  <2>7. HealthAccurate'
    <3>1. HealthScore(row', t, v, r) = HealthScore(o, t, v, r)
      BY <1>5, <1>6, <2>3, <2>4, SameHealth
    <3>2. row'.score = HealthScore(row', t, row'.trend, r)
      BY <1>5, <2>3, <3>1
    <3>. QED  BY <1>4, <3>2 DEF HealthAccurate
  <2>. QED  BY <2>5, <2>6, <2>7 DEF CountsAccurate
<1>11. RowOK'
  <2>1. row' # None => Sound(row)'
    BY <1>9
  <2>2. ~stale' => ~stale /\ h = row
    BY <1>1, <1>3 DEF IInv
  <2>. QED  BY <1>10, <2>1, <2>2 DEF RowOK
<1>12. SessionsOK'
  <2>1. \A w : Sound(w) => Sound(w)'
    BY <1>1, SoundStays DEF IInv, SessionsOK
  <2>2. ASSUME NEW x \in Session, held'[x] # None PROVE Sound(held[x])'
    <3>0. PICK w : w = held'[x]
      OBVIOUS
    <3>1. w = held[x]
      BY <1>1, <2>2, <3>0 DEF IInv, SessionsOK
    <3>2. Sound(w)'
      BY <2>1, <2>2, <3>0, <3>1 DEF IInv, SessionsOK
    <3>. QED  BY <3>0, <3>2 DEF Sound, CountedWithin
  <2>3. /\ at' \in [Session -> {"new"} \union InFlight \union Ended]
        /\ held' = [x \in Session |-> held'[x]]
    BY <1>1 DEF IInv, SessionsOK, Ended
  <2>4. \A x \in Session :
           at'[x] \in {"scoring", "trending", "committing"} => held'[x] # None
    BY <1>1 DEF IInv, SessionsOK
  <2>5. row' # None
    BY <1>6, HealthAssumption DEF Fraction
  <2>6. \A x \in Session : at'[x] \in InFlight => call'[x] \in Call
    BY <1>1 DEF IInv, SessionsOK, InFlight
  <2>. QED  BY <1>1, <2>2, <2>3, <2>4, <2>5, <2>6 DEF IInv, SessionsOK
<1>. QED  BY <1>1, <1>11, <1>12 DEF IInv

LEMMA NextOK == ASSUME IInv, [Next]_vars PROVE IInv'
<1>0. ReadingsOK'
  BY ReadingsStep DEF IInv
<1>1. CASE UNCHANGED vars \/ TrustMoves
  <2>1. UNCHANGED <<row, call, at, held, stale>>
    BY <1>1 DEF vars, requestVars, TrustMoves
  <2>. QED  BY <2>1, <1>0, QuietOK DEF IInv, SessionsOK
<1>2. ASSUME NEW s \in Session, Step(s) \/ Abort(s) PROVE IInv'
  <2>1. CASE Authenticate(s) \/ FindHealth(s) \/ RefreshHealth(s) \/ ReadTrust(s) \/ ReadTrend(s) \/ Abort(s)
    <3>1. UNCHANGED <<row, stale>>
      BY <2>1 DEF Authenticate, FindHealth, RefreshHealth, ReadTrust, ReadTrend, Abort
    <3>2. /\ at' \in [Session -> {"new"} \union InFlight \union Ended]
          /\ \A x \in Session : at'[x] = "done" <=> at[x] = "done"
          /\ held' = [x \in Session |-> held'[x]]
      BY <2>1 DEF Authenticate, FindHealth, RefreshHealth, ReadTrust, ReadTrend, Abort, Move,
                  Closed, Failed, IInv, SessionsOK, InFlight, Ended
    <3>3. /\ call' \in [Session -> Call \union {None}]
          /\ \A x \in Session : at[x] = "done" => call'[x] = call[x]
      BY <2>1, HealthAssumption DEF Authenticate, FindHealth, RefreshHealth, ReadTrust, ReadTrend, Abort, Move,
                  Closed, Failed, IInv, SessionsOK, InFlight, Ended
    <3>4. \A x \in Session : at'[x] \in InFlight => call'[x] \in Call
      BY <2>1, HealthAssumption DEF Authenticate, FindHealth, RefreshHealth, ReadTrust, ReadTrend, Abort, Move,
                  Closed, Failed, IInv, SessionsOK, InFlight, Ended
    <3>5. \A x \in Session :
            /\ held'[x] # None => held'[x] = held[x] \/ held'[x] = row
            /\ at'[x] \in {"scoring", "trending", "committing"} => held'[x] # None
            /\ at'[x] \in {"refreshing", "conflict", "done"} => row # None
      BY <2>1 DEF Authenticate, FindHealth, RefreshHealth, ReadTrust, ReadTrend, Abort, Move,
                  Closed, Failed, IInv, SessionsOK, InFlight, Ended
    <3>. QED  BY <3>1, <3>2, <3>3, <3>4, <3>5, <1>0, QuietOK
  <2>2. CASE CreateHealth(s)
    <3>1. CASE row = None
      BY <2>2, <3>1, <1>0, CreateOK DEF CreateHealth
    <3>2. CASE row # None
      <4>1. at[s] = "creating" /\ at' = [at EXCEPT ![s] = "conflict"] /\ UNCHANGED <<row, held, stale>>
            /\ call' = [call EXCEPT ![s] = None]
        BY <2>2, <3>2 DEF CreateHealth, Failed, Move
      <4>. QED  BY <3>2, <4>1, <1>0, QuietOK DEF IInv, SessionsOK, InFlight, Ended
    <3>. QED  BY <3>1, <3>2
  <2>3. CASE CommitHealth(s)
    BY <2>3, <1>0, CommitOK
  <2>. QED  BY <1>2, <2>1, <2>2, <2>3 DEF Step
<1>. QED  BY <1>1, <1>2 DEF Next

\* The strengthening of HealthInv and AccurateUnlessRaced that every step keeps.
THEOREM HealthInvariant == Spec => []IInv
<1>1. Init => IInv
  BY InitOK
<1>2. IInv /\ [Next]_vars => IInv'
  BY NextOK
<1>. QED  BY <1>1, <1>2, PTL DEF Spec

\* Every state has the types of device_health and of the requests on it
\* (device_health_service.py), the trend is a clipped slope and the health score
\* between 0 and 100 whatever the trust engine records, and the counts of every
\* row, committed or held, are covered by committed events.
THEOREM HealthSafe == Spec => []HealthInv
<1>1. IInv => HealthInv
  <2>. SUFFICES ASSUME IInv PROVE HealthInv
    OBVIOUS
  <2>1. TypeOK
    <3>1. Levels \subseteq 0..Full
      BY HealthAssumption DEF Levels, Full
    <3>2. held \in [Session -> HealthRow \union {None}] /\ row \in HealthRow \union {None}
      BY DEF IInv, RowOK, SessionsOK, Sound, Fraction
    <3>. QED  BY <3>1, <3>2 DEF IInv, SessionsOK, ReadingsOK, TypeOK, TrustEvents
  <2>2. NeverOvercounts
    BY DEF IInv, RowOK, Sound, NeverOvercounts
  <2>3. HeldRows
    BY DEF IInv, SessionsOK, Sound, HeldRows
  <2>. QED  BY <2>1, <2>2, <2>3 DEF HealthInv
<1>. QED  BY <1>1, HealthInvariant, PTL

\* record_auth_event counts without a lock, so racing events get lost; but none
\* is counted twice, and the streak never exceeds the failures.
THEOREM CountersBounded == Spec => []NeverOvercounts
<1>1. HealthInv => NeverOvercounts
  BY DEF HealthInv
<1>. QED  BY <1>1, HealthSafe, PTL

\* As long as no request commits over a row that changed since it loaded it, the
\* row tells one story, counts, rate, trend and health, whoever dies, however
\* many create the row at the same time and whatever the trust engine does.
THEOREM RowAccurate == Spec => []AccurateUnlessRaced
<1>1. IInv => AccurateUnlessRaced
  <2>. SUFFICES ASSUME IInv, row # None, ~stale PROVE Accurate
    BY DEF AccurateUnlessRaced
  <2>1. CountsAccurate /\ HealthAccurate
    BY DEF IInv, RowOK
  <2>2. Cardinality({s \in Session : at[s] = "done"}) > 0 => Done
    <3>1. ~Done => {s \in Session : at[s] = "done"} = {}
      BY DEF Done
    <3>. QED  BY <3>1, FS_EmptySet
  <2>. QED  BY <2>1, <2>2 DEF Accurate, HealthAccurate, Levels
<1>. QED  BY <1>1, HealthInvariant, PTL

\* Above 0.0, which device_health_service.py:119 takes for a missing score, more
\* trust is never less health, whatever row and trend a request has.
PositiveTrustOrders ==
    \A s \in Session : at[s] = "committing" =>
        \A t, u \in Levels \ {0} : \A r \in Recency :
            LET Health(x) == HealthScore(Counted(held[s], call[s]), x, slope[s], r)
            IN  t <= u => Health(t) <= Health(u)

\* _recompute_health_score: above a trust of 0.0, more trust is never less health,
\* for every row, trend and recency a request can have.
THEOREM TrustMonotone == Spec => []PositiveTrustOrders
<1>1. IInv => PositiveTrustOrders
  <2>. SUFFICES ASSUME IInv, NEW s \in Session, at[s] = "committing", NEW r \in Recency,
                       NEW t \in Levels \ {0}, NEW u \in Levels \ {0}, t <= u
                PROVE  HealthScore(Counted(held[s], call[s]), t, slope[s], r)
                         <= HealthScore(Counted(held[s], call[s]), u, slope[s], r)
    BY DEF PositiveTrustOrders
  <2>1. PICK h : h = Counted(held[s], call[s])
    OBVIOUS
  <2>2. PICK v \in -100..100 : v = slope[s]
    BY DEF IInv, ReadingsOK
  <2>3. Fraction(h) /\ r \in 0..100
    <3>1. Fraction(held[s]) /\ call[s] \in Calls
      BY HealthAssumption DEF IInv, SessionsOK, Sound, InFlight
    <3>. QED  BY <2>1, <3>1, CountedCounts, HealthAssumption
  <2>4. t \in 0..Full /\ u \in 0..Full
    BY HealthAssumption DEF Levels, Full
  <2>5. /\ AuthPart(h) \in Int /\ TrendPart(v) \in Int /\ RecencyPart(h, r) \in Int
        /\ TrustPart(t) \in Int /\ TrustPart(u) \in Int
    BY <2>3, <2>4, Parts
  <2>6. TrustPart(t) <= TrustPart(u)
    BY <2>4 DEF TrustPart, TrustOrFull, Full
  <2>7. HealthScore(h, t, v, r) <= HealthScore(h, u, v, r)
    BY <2>5, <2>6 DEF HealthScore, Within, MaxHealth
  <2>. QED  BY <2>1, <2>2, <2>7
<1>. QED  BY <1>1, HealthInvariant, PTL
=============================================================================
