----------------------------- MODULE Billing_proofs -----------------------------
(***************************************************************************)
(* Theorems about the billing of a month, for any number of processes,     *)
(* changes and updates, any length of month and any amounts.  What a row   *)
(* says of the past and what it will be taken to say of the present are    *)
(* two estimates of the usage, and both are kept within its slack by every *)
(* update that overlaps no other one.                                      *)
(***************************************************************************)
EXTENDS Billing, FiniteSetTheorems, TLAPS

-----------------------------------------------------------------------------
(* Fractions *)

LEMMA LargestOne ==
    ASSUME NEW d \in Nat, NEW S \in SUBSET (1 .. d), S # {}
    PROVE  Max(S) \in S
<1> DEFINE R == OpToRel(<, Nat)
           D == {d - x : x \in S}
<1>1. \A y, z \in Nat : y < z => <<y, z>> \in R
  BY Zenon DEF OpToRel
<1> HIDE DEF R
<1>2. D \in SUBSET Nat /\ D # {}
  <2>1. \A x \in S : x \in Nat /\ d - x \in Nat
    OBVIOUS
  <2> QED
    BY <2>1
<1> HIDE DEF D
<1>3. PICK m \in D : \A y \in D : ~(<<y, m>> \in R)
  BY <1>2, NatLessThanWellFounded, WFMin DEF R
<1>4. PICK x \in S : m = d - x
  BY <1>3 DEF D
<1>5. ASSUME NEW y \in S PROVE x >= y
  <2>1. d - y \in D
    BY DEF D
  <2>2. ~(d - y < d - x)
    BY <1>1, <1>2, <1>3, <1>4, <2>1
  <2> QED
    BY <2>2
<1> QED
  BY <1>5 DEF Max

Fractions == Int \X (Nat \ {0})

LEMMA Divides ==
    ASSUME NEW n \in Int, NEW g \in Nat \ {0}, n % g = 0
    PROVE  n \div g \in Int /\ n = g * (n \div g)
OBVIOUS

LEMMA NegDivides ==
    ASSUME NEW n \in Int, NEW g \in Nat \ {0}, (-n) % g = 0
    PROVE  n % g = 0
<1> DEFINE q == (-n) \div g
           r == n \div g
           z == -q - r
<1>1. q \in Int /\ -n = g * q
  BY Divides
<1>2. r \in Int /\ (n % g) \in Int /\ 0 <= (n % g) /\ (n % g) < g
  OBVIOUS
<1>3. n = g * r + (n % g)
  OBVIOUS
<1> HIDE DEF q, r
<1>4. z \in Int /\ g * z = g * (-q) - g * r
  BY <1>1, <1>2
<1>5. g * z = n % g
  BY <1>1, <1>2, <1>3, <1>4
<1> HIDE DEF z
<1>6. z >= 1 => g * z >= g
  BY <1>4
<1>7. z <= -1 => g * z <= -g
  BY <1>4
<1> QED
  BY <1>2, <1>4, <1>5, <1>6, <1>7

LEMMA FractionFacts ==
    ASSUME NEW n \in Int, NEW d \in Nat \ {0}
    PROVE  /\ Fraction(n, d) \in Fractions
           /\ Fraction(n, d)[1] * d = n * Fraction(n, d)[2]
<1> DEFINE S == {i \in 1 .. d : d % i = 0 /\ Abs(n) % i = 0}
           g == Max(S)
<1>1. 1 \in S
  <2>1. Abs(n) \in Nat
    BY DEF Abs
  <2> QED
    BY <2>1
<1>2. g \in S
  BY <1>1, LargestOne
<1>3. g \in Nat \ {0} /\ d % g = 0 /\ Abs(n) % g = 0
  BY <1>2
<1>4. n % g = 0
  BY <1>3, NegDivides DEF Abs
<1>5. Fraction(n, d) = <<n \div g, d \div g>>
  BY DEF Fraction
<1> HIDE DEF g
<1> DEFINE a == n \div g
           b == d \div g
<1>6. a \in Int /\ n = g * a /\ b \in Int /\ d = g * b
  BY <1>3, <1>4, Divides
<1> HIDE DEF a, b
<1>7. b > 0
  BY <1>3, <1>6
<1>8. a * d = n * b
  BY <1>3, <1>6
<1> QED
  BY <1>5, <1>6, <1>7, <1>8 DEF Fractions, a, b

LEMMA AverageIs ==
    ASSUME NEW a \in Fractions, NEW s \in Int, NEW v \in Int, NEW t \in Nat \ {0}
    PROVE  /\ Average(a, s, v, t) \in Fractions
           /\ Average(a, s, v, t)[1] * (a[2] * t)
                  = (a[1] * s + v * (t - s) * a[2]) * Average(a, s, v, t)[2]
<1>1. a[1] \in Int /\ a[2] \in Nat \ {0}
  BY DEF Fractions
<1>2. a[1] * s + v * (t - s) * a[2] \in Int /\ a[2] * t \in Nat \ {0}
  BY <1>1
<1> QED
  BY <1>2, FractionFacts DEF Average

-----------------------------------------------------------------------------
(* Estimates of the usage *)

\* The average a up to time s, and v since, is the usage m at time t, but for e.
Est(a, s, v, t, m, e) ==
    /\ (m - e) * a[2] <= a[1] * s + v * (t - s) * a[2]
    /\ a[1] * s + v * (t - s) * a[2] <= (m + e) * a[2]

\* The average a up to time t is the usage m, but for e.
Near(a, t, m, e) == Est(a, t, 0, t, m, e)

\* An average of amounts.
Bounded(a) == a \in Fractions /\ 0 <= a[1] /\ a[1] <= MaxAmount * a[2]

LEMMA Scales ==
    ASSUME NEW x \in Int, NEW y \in Int, NEW c \in Nat \ {0}
    PROVE  x <= y <=> x * c <= y * c
<1>1. CASE x <= y
  <2>1. (y - x) * c >= 0
    BY <1>1
  <2>2. (y - x) * c = y * c - x * c
    OBVIOUS
  <2> QED
    BY <1>1, <2>1, <2>2
<1>2. CASE x >= y + 1
  <2>1. (x - y) * c >= 1 * c
    BY <1>2
  <2>2. (x - y) * c = x * c - y * c
    OBVIOUS
  <2> QED
    BY <1>2, <2>1, <2>2
<1> QED
  BY <1>1, <1>2

LEMMA EstSince ==
    ASSUME NEW a \in Fractions, NEW s \in Int, NEW v \in Int, NEW w \in Int, NEW m \in Int,
           NEW e \in Int, Est(a, s, v, s, m, e)
    PROVE  Est(a, s, w, s, m, e)
<1>1. a[1] \in Int /\ a[2] \in Int
  BY DEF Fractions
<1>2. v * (s - s) * a[2] = 0 /\ w * (s - s) * a[2] = 0
  BY <1>1
<1> QED
  BY <1>1, <1>2 DEF Est

\* An estimate is wrong by as much more as v is not what was used.
LEMMA EstShift ==
    ASSUME NEW a \in Fractions, NEW s \in Int, NEW v \in Int, NEW t \in Int, NEW m \in Int,
           NEW e \in Int, NEW u \in Int, NEW n \in Int, NEW d \in Int,
           Est(a, s, v, t, m, e),
           -d <= n - m - v * (u - t), n - m - v * (u - t) <= d
    PROVE  Est(a, s, v, u, n, e + d)
<1> DEFINE b == a[2]
           x == a[1] * s + v * (t - s) * b
           k == v * (u - t)
           c == n - m
<1>1. a[1] \in Int /\ b \in Nat \ {0}
  BY DEF Fractions
<1>2. (m - e) * b <= x /\ x <= (m + e) * b /\ x \in Int
  BY <1>1 DEF Est
<1>3. a[1] * s + v * (u - s) * b = x + k * b
  BY <1>1
<1>4. /\ (n - (e + d)) * b = (m - e) * b + (c - d) * b
      /\ (n + (e + d)) * b = (m + e) * b + (c + d) * b
  BY <1>1
<1>5. k \in Int /\ c \in Int /\ c - d <= k /\ k <= c + d
  OBVIOUS
<1> HIDE DEF b, x, k, c
<1>6. (c - d) * b <= k * b /\ k * b <= (c + d) * b
  BY <1>1, <1>5, Scales
<1>7. (m - e) * b \in Int /\ (m + e) * b \in Int /\ (c - d) * b \in Int /\ (c + d) * b \in Int
      /\ k * b \in Int
  BY <1>1, <1>5
<1>8. (n - (e + d)) * b <= x + k * b /\ x + k * b <= (n + (e + d)) * b
  BY <1>2, <1>4, <1>6, <1>7
<1> QED
  BY <1>3, <1>8 DEF Est, b

LEMMA EstMore ==
    ASSUME NEW a \in Fractions, NEW s \in Int, NEW v \in Int, NEW t \in Int, NEW m \in Int,
           NEW e \in Int, NEW f \in Int, e <= f, Est(a, s, v, t, m, e)
    PROVE  Est(a, s, v, t, m, f)
<1> DEFINE d == f - e
<1>1. d \in Int /\ -d <= m - m - v * (t - t) /\ m - m - v * (t - t) <= d /\ e + d = f
  <2>1. v * (t - t) = 0
    OBVIOUS
  <2> QED
    BY <2>1
<1> HIDE DEF d
<1>2. Est(a, s, v, t, m, e + d)
  BY <1>1, EstShift
<1> QED
  BY <1>1, <1>2

\* An average that stands for later, too, is wrong by no more than all there may have been.
LEMMA NearShift ==
    ASSUME NEW a, Bounded(a), NEW t \in Int, NEW m \in Int, NEW e \in Int, NEW u \in Int,
           NEW n \in Int, t <= u, 0 <= n - m, n - m <= MaxAmount * (u - t), Near(a, t, m, e)
    PROVE  Near(a, u, n, e + MaxAmount * (u - t))
<1> DEFINE b == a[2]
           g == u - t
           d == MaxAmount * g
           c == n - m
<1>1. a \in Fractions /\ a[1] \in Nat /\ b \in Nat \ {0} /\ a[1] <= MaxAmount * b /\ MaxAmount \in Nat
  BY BillingAssumption DEF Bounded, Fractions
<1>2. g \in Nat /\ d \in Nat /\ c \in Nat /\ c <= d
  BY <1>1
<1>3. (m - e) * b <= a[1] * t /\ a[1] * t <= (m + e) * b
  <2>1. 0 * (t - t) * b = 0
    BY <1>1
  <2> QED
    BY <1>1, <2>1 DEF Near, Est
<1>4. a[1] * u = a[1] * t + a[1] * g
  BY <1>1
<1>5. 0 <= a[1] * g /\ a[1] * g <= d * b
  <2>1. CASE g = 0
    BY <1>1, <2>1
  <2>2. CASE g # 0
    <3>1. a[1] * g <= (MaxAmount * b) * g
      BY <1>1, <1>2, <2>2, Scales
    <3>2. (MaxAmount * b) * g = d * b
      BY <1>1
    <3> QED
      BY <1>1, <1>2, <3>1, <3>2
  <2> QED
    BY <2>1, <2>2
<1>6. 0 <= c * b /\ c * b <= d * b
  BY <1>1, <1>2, Scales
<1>7. /\ (n - (e + d)) * b = (m - e) * b + c * b - d * b
      /\ (n + (e + d)) * b = (m + e) * b + c * b + d * b
  BY <1>1
<1> HIDE DEF b, g, d, c
<1>8. /\ (m - e) * b \in Int /\ (m + e) * b \in Int /\ c * b \in Int /\ d * b \in Int
      /\ a[1] * t \in Int /\ a[1] * g \in Int
  BY <1>1, <1>2
<1>9. (n - (e + d)) * b <= a[1] * u /\ a[1] * u <= (n + (e + d)) * b
  BY <1>3, <1>4, <1>5, <1>6, <1>7, <1>8
<1>10. 0 * (u - u) * b = 0
  BY <1>1
<1>11. a[1] * u \in Int
  BY <1>1
<1>12. a[1] * u + 0 * (u - u) * b = a[1] * u
  BY <1>10, <1>11
<1>13. Est(a, u, 0, u, n, e + d)
  BY <1>9, <1>12 DEF Est, b
<1> QED
  BY <1>13 DEF Near, d, g

\* The new average is as right as the estimate it is made of.
LEMMA AverageFacts ==
    ASSUME NEW a, Bounded(a), NEW v \in 0 .. MaxAmount, NEW t \in Nat \ {0}, NEW s \in 0 .. t,
           NEW m \in Int, NEW e \in Int, Est(a, s, v, t, m, e)
    PROVE  Bounded(Average(a, s, v, t)) /\ Near(Average(a, s, v, t), t, m, e)
<1> DEFINE f == Average(a, s, v, t)
           b == a[2]
           x == a[1] * s + v * (t - s) * b
<1>1. /\ a \in Fractions /\ a[1] \in Nat /\ b \in Nat \ {0} /\ a[1] <= MaxAmount * b
      /\ MaxAmount \in Nat /\ s \in Nat /\ s <= t /\ v \in Nat /\ v <= MaxAmount
  BY BillingAssumption DEF Bounded, Fractions
<1>2. f \in Fractions /\ f[1] * (b * t) = x * f[2]
  BY <1>1, AverageIs
<1>3. f[1] \in Int /\ f[2] \in Nat \ {0}
  BY <1>2 DEF Fractions
<1>4. (m - e) * b <= x /\ x <= (m + e) * b /\ x \in Int
  BY <1>1 DEF Est
<1>5. 0 <= x /\ x <= MaxAmount * b * t
  <2> DEFINE g == t - s
  <2>0. g \in Nat
    BY <1>1
  <2> HIDE DEF g
  <2>1. 0 <= a[1] * s /\ 0 <= v * g /\ 0 <= (v * g) * b
    BY <1>1, <2>0
  <2>2. a[1] * s <= (MaxAmount * b) * s
    <3>1. CASE s = 0
      BY <1>1, <3>1
    <3>2. CASE s # 0
      BY <1>1, <3>2, Scales
    <3> QED
      BY <3>1, <3>2
  <2>3. v * g <= MaxAmount * g
    <3>1. CASE g = 0
      BY <1>1, <3>1
    <3>2. CASE g # 0
      BY <1>1, <2>0, <3>2, Scales
    <3> QED
      BY <3>1, <3>2
  <2>4. (v * g) * b <= (MaxAmount * g) * b
    BY <1>1, <2>0, <2>3, Scales
  <2>5. (MaxAmount * b) * s + (MaxAmount * g) * b = MaxAmount * b * t
    BY <1>1 DEF g
  <2>6. x = a[1] * s + (v * g) * b
    BY DEF g
  <2>7. /\ a[1] * s \in Int /\ (v * g) * b \in Int /\ (MaxAmount * b) * s \in Int
        /\ (MaxAmount * g) * b \in Int
    BY <1>1, <2>0
  <2> HIDE DEF x, b
  <2> QED
    BY <2>1, <2>2, <2>4, <2>5, <2>6, <2>7
<1> HIDE DEF f, b, x
<1> DEFINE c == b * t
<1>6. c \in Nat \ {0}
  BY <1>1
<1>7. 0 <= f[1]
  <2>1. 0 <= x * f[2]
    BY <1>3, <1>4, <1>5
  <2>2. 0 * c <= f[1] * c
    BY <1>2, <1>6, <2>1
  <2> QED
    BY <1>3, <1>6, <2>2, Scales
<1>8. f[1] <= MaxAmount * f[2]
  <2>1. x * f[2] <= (MaxAmount * b * t) * f[2]
    BY <1>1, <1>3, <1>4, <1>5, Scales
  <2>2. (MaxAmount * b * t) * f[2] = (MaxAmount * f[2]) * c
    BY <1>1, <1>3
  <2>3. f[1] * c <= (MaxAmount * f[2]) * c
    BY <1>2, <2>1, <2>2
  <2> QED
    BY <1>1, <1>3, <1>6, <2>3, Scales
<1>9. (m - e) * f[2] <= f[1] * t
  <2>1. ((m - e) * b) * f[2] <= x * f[2]
    BY <1>1, <1>3, <1>4, Scales
  <2>2. ((m - e) * b) * f[2] = ((m - e) * f[2]) * b /\ f[1] * c = (f[1] * t) * b
    BY <1>1, <1>3
  <2>3. ((m - e) * f[2]) * b <= (f[1] * t) * b
    BY <1>2, <2>1, <2>2
  <2> QED
    BY <1>1, <1>3, <2>3, Scales
<1>10. f[1] * t <= (m + e) * f[2]
  <2>1. x * f[2] <= ((m + e) * b) * f[2]
    BY <1>1, <1>3, <1>4, Scales
  <2>2. ((m + e) * b) * f[2] = ((m + e) * f[2]) * b /\ f[1] * c = (f[1] * t) * b
    BY <1>1, <1>3
  <2>3. (f[1] * t) * b <= ((m + e) * f[2]) * b
    BY <1>2, <2>1, <2>2
  <2> QED
    BY <1>1, <1>3, <2>3, Scales
<1>11. f[1] * t + 0 * (t - t) * f[2] = f[1] * t
  BY <1>3
<1> QED
  BY <1>2, <1>3, <1>7, <1>8, <1>9, <1>10, <1>11 DEF Bounded, Near, Est, f

-----------------------------------------------------------------------------
(* Types *)

JobRecord ==
    [pc : {"idle", "begun", "read"}, kind : {"none"} \cup Kinds,
     at : 0 .. now, used : Nat, amount : 0 .. MaxAmount, row : Rows,
     known : 0 .. MaxChanges, slack : Int]

\* What Write looks at: whether the amount has changed, whether it dies, the row it makes.
Same(j) == j.row # None /\ j.amount = j.row.amount
Dies(j) == j.at = 0 /\ j.row # None /\ (Same(j) \/ j.kind = "post")
Made(j) ==
    CASE j.kind = "post"   -> Posted(j.row, j.amount, j.at)
      [] j.kind = "report" -> Reported(j.row, j.amount, j.at)
      [] j.kind = "update" -> Updated(j.row, j.amount, j.at)

\* A process that has begun is of one of the kinds there are.
Busy == \A p \in Procs : job[p].pc # "idle" => job[p].kind \in Kinds

\* A row that is there has a time.
Dated(r) == r = None \/ r.time \in 0 .. MonthEnd
AllDated == Dated(row) /\ \A p \in Procs : Dated(job[p].row)

LEMMA RowFields ==
    ASSUME NEW r \in Rows
    PROVE  /\ r.amount \in 0 .. MaxAmount /\ r.avg \in Fractions /\ r.startavg \in Fractions
           /\ r.time \in -1 .. MonthEnd /\ r.start \in 0 .. MonthEnd
BY DEF Rows, Fractions

LEMMA RowMade ==
    ASSUME NEW v \in 0 .. MaxAmount, NEW a \in Fractions, NEW t \in -1 .. MonthEnd,
           NEW b \in Fractions, NEW s \in 0 .. MonthEnd
    PROVE  [amount |-> v, avg |-> a, time |-> t, startavg |-> b, start |-> s] \in Rows
BY DEF Rows, Fractions

LEMMA RowChanged ==
    ASSUME NEW r \in Rows, NEW a \in Fractions, NEW t \in -1 .. MonthEnd
    PROVE  [r EXCEPT !.avg = a, !.time = t] \in Rows
BY DEF Rows, Fractions

LEMMA BegunTyped ==
    ASSUME NEW v \in 0 .. MaxAmount, NEW t \in 0 .. MonthEnd
    PROVE  Begun(v, t) \in Rows
<1>1. <<v, 1>> \in Fractions /\ <<0, 1>> \in Fractions
  BY DEF Fractions
<1>2. t \in -1 .. MonthEnd /\ 0 \in 0 .. MonthEnd
  BY BillingAssumption
<1> QED
  BY <1>1, <1>2, RowMade DEF Begun

LEMMA MadeTyped ==
    ASSUME TypeOK, NEW j \in JobRecord, j.kind \in Kinds, ~Dies(j), Dated(j.row)
    PROVE  Made(j) \in Rows /\ Made(j).time = j.at
<1> DEFINE v == j.amount
           t == j.at
           r == j.row
<1>1. /\ v \in 0 .. MaxAmount /\ t \in 0 .. MonthEnd /\ r \in Rows /\ t \in -1 .. MonthEnd
      /\ t \in Int
  BY BillingAssumption DEF JobRecord, TypeOK
<1>2. j.kind \in {"post", "report", "update"}
  BY DEF Kinds
<1>3. /\ r.amount \in 0 .. MaxAmount /\ r.avg \in Fractions /\ r.startavg \in Fractions
      /\ r.time \in -1 .. MonthEnd /\ r.start \in 0 .. MonthEnd
  BY <1>1, RowFields
<1>4. <<v, 1>> \in Fractions /\ <<0, 1>> \in Fractions
  BY <1>1 DEF Fractions
<1>5. CASE r = None
  <2>1. Begun(v, t) \in Rows /\ Begun(v, t).time = t
    BY <1>1, BegunTyped DEF Begun
  <2>2. [amount |-> v, avg |-> <<0, 1>>, time |-> t, startavg |-> <<0, 1>>, start |-> t] \in Rows
    BY <1>1, <1>4, RowMade
  <2>3. Made(j) \in Rows /\ Made(j).time = t
    BY <1>2, <1>5, <2>1, <2>2 DEF Made, Posted, Reported, Updated
  <2> QED
    BY <2>3
<1>6. CASE r # None
  <2>1. r.time \in 0 .. MonthEnd
    BY <1>6 DEF Dated
  <2> DEFINE avg == Average(r.startavg, r.start, v, t)
  <2>2. Same(j) \/ j.kind = "post" => avg \in Fractions
    <3>1. Same(j) \/ j.kind = "post" => t \in Nat \ {0}
      BY <1>1, <1>6 DEF Dies
    <3>2. v \in Int /\ r.start \in Int
      BY <1>1, <1>3
    <3> QED
      BY <1>3, <3>1, <3>2, AverageIs
  <2> HIDE DEF avg
  <2>3. CASE Same(j)
    <3>1. Made(j) = [r EXCEPT !.avg = avg, !.time = t]
      BY <1>2, <1>6, <2>3 DEF Made, Posted, Reported, Updated, Same, avg
    <3>2. Made(j) \in Rows
      BY <1>1, <2>2, <2>3, <3>1, RowChanged
    <3> QED
      BY <1>1, <3>1, <3>2 DEF Rows
  <2>4. CASE ~Same(j) /\ j.kind = "post"
    <3>1. Made(j) = [amount |-> v, avg |-> avg, time |-> t, startavg |-> avg, start |-> t]
      BY <1>6, <2>4 DEF Made, Posted, Same, avg
    <3> QED
      BY <1>1, <2>2, <2>4, <3>1, RowMade
  <2>5. CASE ~Same(j) /\ j.kind = "report"
    <3>1. Made(j) = [amount |-> v, avg |-> r.avg, time |-> t, startavg |-> r.avg, start |-> r.time]
      BY <1>6, <2>5 DEF Made, Reported, Same
    <3> QED
      BY <1>1, <1>3, <2>1, <3>1, RowMade
  <2>6. CASE ~Same(j) /\ j.kind = "update"
    <3>1. Made(j) = [amount |-> v, avg |-> r.avg, time |-> t, startavg |-> r.avg, start |-> t]
      BY <1>6, <2>6 DEF Made, Updated, Same
    <3> QED
      BY <1>1, <1>3, <3>1, RowMade
  <2> QED
    BY <1>2, <2>3, <2>4, <2>5, <2>6
<1> QED
  BY <1>5, <1>6

\* What Write does, said with these.
LEMMA WriteIs ==
    ASSUME NEW p \in Procs, Write(p)
    PROVE  /\ job[p].pc = "read"
           /\ job' = [job EXCEPT ![p] = Waiting]
           /\ UNCHANGED <<now, service, amount, used, changes, updates>>
           /\ Dies(job[p]) => UNCHANGED <<row, metered, slack, known, mixed>>
           /\ ~Dies(job[p]) =>
                  /\ row' = IF Same(job[p]) /\ job[p].kind # "update"
                            THEN [row EXCEPT !.avg = Made(job[p]).avg, !.time = Made(job[p]).time]
                            ELSE Made(job[p])
                  /\ metered' = job[p].used
                  /\ slack' = slack + job[p].slack
                  /\ known' = job[p].known
                  /\ mixed' = (mixed \/ row # job[p].row)
BY DEF Write, Dies, Same, Made, Goto

LEMMA DoubtType ==
    ASSUME TypeOK, AllDated, NEW kind, NEW t \in Int
    PROVE  Doubt(kind, t) \in Int
<1>1. row # None => row.time \in Int
  BY DEF AllDated, Dated
<1>2. MaxAmount \in Nat
  BY BillingAssumption
<1> QED
  BY <1>1, <1>2 DEF Doubt

TypeInv == TypeOK /\ Busy /\ AllDated

LEMMA NoneIsRow == None \in Rows
<1>1. <<0, 1>> \in Fractions /\ 0 \in 0 .. MaxAmount /\ -1 \in -1 .. MonthEnd /\ 0 \in 0 .. MonthEnd
  BY BillingAssumption DEF Fractions
<1> QED
  BY <1>1, RowMade DEF None

LEMMA WaitingIsJob ==
    ASSUME now \in Nat
    PROVE  Waiting \in JobRecord
<1>1. 0 \in 0 .. now /\ 0 \in 0 .. MaxAmount /\ 0 \in 0 .. MaxChanges
  BY BillingAssumption
<1> QED
  BY <1>1, NoneIsRow DEF Waiting, JobRecord

LEMMA TypeInit == Init => TypeInv
<1> SUFFICES ASSUME Init PROVE TypeInv
  OBVIOUS
<1>1. /\ 0 \in 0 .. MonthEnd /\ 0 \in 0 .. MaxChanges /\ 0 \in 0 .. MaxUpdates
  BY BillingAssumption
<1>2. Waiting \in JobRecord /\ row \in Rows
  BY NoneIsRow, WaitingIsJob DEF Init
<1>3. job \in [Procs -> JobRecord]
  BY <1>2 DEF Init
<1>4. TypeOK
  <2>1. now \in 0 .. MonthEnd /\ service \in {"servers", "images"} /\ amount \in 0 .. MaxAmount
    BY <1>1 DEF Init
  <2>2. /\ used \in Nat /\ metered \in Nat /\ slack \in Int /\ changes \in 0 .. MaxChanges
        /\ known \in 0 .. MaxChanges /\ updates \in 0 .. MaxUpdates
    BY <1>1 DEF Init
  <2>3. mixed \in BOOLEAN
    BY DEF Init
  <2> QED
    BY <1>2, <1>3, <2>1, <2>2, <2>3 DEF TypeOK, JobRecord
<1>5. Busy /\ AllDated
  BY DEF Init, Busy, AllDated, Dated, Waiting
<1> QED
  BY <1>4, <1>5 DEF TypeInv

LEMMA BeginTyped ==
    ASSUME TypeInv, NEW p \in Procs, NEW kind \in Kinds, Begin(p, kind)
    PROVE  TypeInv'
<1>1. job \in [Procs -> JobRecord] /\ now \in 0 .. MonthEnd /\ used \in Nat /\ updates \in 0 .. MaxUpdates
  BY DEF TypeInv, TypeOK, JobRecord
<1> DEFINE j == [Waiting EXCEPT !.pc = "begun", !.kind = kind, !.at = now, !.used = used]
<1>2. j \in JobRecord /\ j.kind \in Kinds /\ j.row = None
  <2>1. Waiting \in JobRecord
    BY <1>1, WaitingIsJob
  <2>2. now \in 0 .. now
    BY <1>1
  <2> QED
    BY <1>1, <2>1, <2>2 DEF JobRecord, Waiting
<1>3. job' = [job EXCEPT ![p] = j] /\ UNCHANGED <<now, service, row>> /\ updates' = updates + 1
      /\ updates < MaxUpdates /\ UNCHANGED <<amount, used, metered, slack, changes, known, mixed>>
  BY DEF Begin, Goto
<1> HIDE DEF j
<1>4. job' \in [Procs -> JobRecord] /\ updates' \in 0 .. MaxUpdates
  BY <1>1, <1>2, <1>3, BillingAssumption
<1>5. TypeOK'
  BY <1>3, <1>4 DEF TypeInv, TypeOK, JobRecord, Kinds
<1>6. Busy'
  BY <1>1, <1>2, <1>3 DEF TypeInv, Busy, Kinds
<1>7. AllDated'
  BY <1>1, <1>2, <1>3 DEF TypeInv, AllDated, Dated
<1> QED
  BY <1>5, <1>6, <1>7 DEF TypeInv

LEMMA ReadIs ==
    ASSUME TypeInv, NEW p \in Procs, Read(p)
    PROVE  LET d == Doubt(job[p].kind, job[p].at) + MaxAmount * (now - job[p].at)
               j == [job[p] EXCEPT !.pc = "read", !.amount = amount, !.row = row,
                                   !.known = changes, !.slack = d]
           IN  /\ job[p] \in JobRecord /\ j \in JobRecord /\ job[p].pc = "begun"
               /\ job' = [job EXCEPT ![p] = j]
               /\ mixed' = (mixed \/ row.time > job[p].at)
               /\ UNCHANGED <<now, service, amount, row, used, metered, slack, changes, known,
                              updates>>
<1> DEFINE d == Doubt(job[p].kind, job[p].at) + MaxAmount * (now - job[p].at)
<1>1. job[p] \in JobRecord
  BY DEF TypeInv, TypeOK, JobRecord
<1>2. d \in Int
  <2>1. job[p].at \in Int /\ now \in Int /\ MaxAmount \in Int
    BY <1>1, BillingAssumption DEF TypeInv, TypeOK, JobRecord
  <2>2. Doubt(job[p].kind, job[p].at) \in Int
    BY <2>1, DoubtType DEF TypeInv
  <2> QED
    BY <2>1, <2>2
<1>3. /\ job' = [job EXCEPT ![p] = [job[p] EXCEPT !.pc = "read", !.amount = amount, !.row = row,
                                                  !.known = changes, !.slack = d]]
      /\ job[p].pc = "begun"
      /\ mixed' = (mixed \/ row.time > job[p].at)
      /\ UNCHANGED <<now, service, amount, row, used, metered, slack, changes, known, updates>>
  BY DEF Read, Goto
<1> HIDE DEF d
<1>4. [job[p] EXCEPT !.pc = "read", !.amount = amount, !.row = row, !.known = changes, !.slack = d]
          \in JobRecord
  BY <1>1, <1>2 DEF TypeInv, TypeOK, JobRecord
<1> QED
  BY <1>1, <1>3, <1>4 DEF d

LEMMA ReadTyped ==
    ASSUME TypeInv, NEW p \in Procs, Read(p)
    PROVE  TypeInv'
<1> DEFINE d == Doubt(job[p].kind, job[p].at) + MaxAmount * (now - job[p].at)
           j == [job[p] EXCEPT !.pc = "read", !.amount = amount, !.row = row,
                               !.known = changes, !.slack = d]
<1>1. /\ job[p] \in JobRecord /\ j \in JobRecord /\ job[p].pc = "begun"
      /\ job' = [job EXCEPT ![p] = j]
      /\ mixed' = (mixed \/ row.time > job[p].at)
      /\ UNCHANGED <<now, service, amount, row, used, metered, slack, changes, known, updates>>
  BY ReadIs
<1>2. j.kind = job[p].kind /\ j.row = row
  BY <1>1 DEF JobRecord
<1> HIDE DEF j
<1>3. job \in [Procs -> JobRecord] /\ job' \in [Procs -> JobRecord]
  BY <1>1 DEF TypeInv, TypeOK, JobRecord
<1>4. mixed' \in BOOLEAN
  BY <1>1 DEF TypeInv, TypeOK
<1>5. TypeOK'
  BY <1>1, <1>3, <1>4 DEF TypeInv, TypeOK, JobRecord, Kinds
<1>6. Busy'
  BY <1>1, <1>2, <1>3 DEF TypeInv, Busy, Kinds
<1>7. AllDated'
  BY <1>1, <1>2, <1>3 DEF TypeInv, AllDated, Dated
<1> QED
  BY <1>5, <1>6, <1>7 DEF TypeInv

LEMMA WriteTyped ==
    ASSUME TypeInv, NEW p \in Procs, Write(p)
    PROVE  TypeInv'
<1> DEFINE j == job[p]
<1>1. j \in JobRecord /\ j.kind \in Kinds /\ Dated(j.row) /\ job \in [Procs -> JobRecord]
  BY WriteIs DEF TypeInv, TypeOK, JobRecord, Busy, AllDated
<1>2. Waiting \in JobRecord /\ Waiting.row = None /\ Waiting.pc = "idle"
  BY WaitingIsJob DEF Waiting, TypeInv, TypeOK
<1>3. job' = [job EXCEPT ![p] = Waiting] /\ UNCHANGED <<now, service, amount, used, changes, updates>>
  BY WriteIs
<1>4. job' \in [Procs -> JobRecord]
  BY <1>1, <1>2, <1>3
<1>5. row' \in Rows /\ Dated(row)' /\ metered' \in Nat /\ slack' \in Int /\ known' \in 0 .. MaxChanges
      /\ mixed' \in BOOLEAN
  <2>1. CASE Dies(j)
    BY <2>1, WriteIs DEF TypeInv, TypeOK, AllDated, Dated
  <2>2. CASE ~Dies(j)
    <3>1. Made(j) \in Rows /\ Made(j).time = j.at
      BY <1>1, <2>2, MadeTyped DEF TypeInv
    <3>2. j.at \in 0 .. MonthEnd /\ j.at \in -1 .. MonthEnd
      BY <1>1, BillingAssumption DEF JobRecord, TypeInv, TypeOK
    <3>3. [row EXCEPT !.avg = Made(j).avg, !.time = Made(j).time] \in Rows
      BY <3>1, <3>2, RowFields, RowChanged DEF TypeInv, TypeOK
    <3>4. row' \in Rows /\ row'.time = j.at
      <4>1. row \in Rows
        BY DEF TypeInv, TypeOK
      <4>2. [row EXCEPT !.avg = Made(j).avg, !.time = Made(j).time].time = j.at
        BY <3>1, <4>1 DEF Rows
      <4> QED
        BY <2>2, <3>1, <3>3, <4>2, WriteIs
    <3>5. metered' = j.used /\ slack' = slack + j.slack /\ known' = j.known
          /\ mixed' = (mixed \/ row # j.row)
      BY <2>2, WriteIs
    <3> QED
      BY <1>1, <3>2, <3>4, <3>5 DEF JobRecord, TypeInv, TypeOK, Dated
  <2> QED
    BY <2>1, <2>2
<1> HIDE DEF j
<1>6. TypeOK'
  BY <1>3, <1>4, <1>5 DEF TypeInv, TypeOK, JobRecord, Kinds
<1>7. Busy'
  BY <1>1, <1>2, <1>3 DEF TypeInv, Busy, Kinds
<1>8. AllDated'
  BY <1>1, <1>2, <1>3, <1>5 DEF TypeInv, AllDated, Dated
<1> QED
  BY <1>6, <1>7, <1>8 DEF TypeInv

LEMMA TypeStep == TypeInv /\ [Next]_vars => TypeInv'
<1> SUFFICES ASSUME TypeInv, [Next]_vars PROVE TypeInv'
  OBVIOUS
<1>1. CASE Change
  <2>1. amount' \in 0 .. MaxAmount /\ changes' \in 0 .. MaxChanges
    BY <1>1, BillingAssumption DEF Change, TypeInv, TypeOK
  <2> QED
    BY <1>1, <2>1 DEF Change, TypeInv, TypeOK, Kinds, Busy, AllDated, Dated
<1>2. CASE Tick
  <2>1. now' \in 0 .. MonthEnd /\ used' \in Nat
    BY <1>2, BillingAssumption DEF Tick, TypeInv, TypeOK
  <2>2. 0 .. now \subseteq 0 .. now'
    BY <1>2 DEF Tick, TypeInv, TypeOK
  <2>3. job \in [Procs -> JobRecord] /\ JobRecord \subseteq JobRecord'
    BY <1>2, <2>2 DEF Tick, TypeInv, TypeOK, JobRecord, Kinds
  <2>4. job' \in [Procs -> JobRecord']
    BY <1>2, <2>3 DEF Tick
  <2> QED
    BY <1>2, <2>1, <2>4 DEF Tick, TypeInv, TypeOK, JobRecord, Kinds, Busy, AllDated, Dated
<1>3. CASE UNCHANGED vars
  BY <1>3 DEF vars, historyVars, TypeInv, TypeOK, Kinds, Busy, AllDated, Dated
<1> QED
  BY <1>1, <1>2, <1>3, BeginTyped, ReadTyped, WriteTyped DEF Next

\* The row, what processes have read and what was used keep their types, and averages are
\* fractions: nothing is divided by zero that is written.
THEOREM TypeCorrect == Spec => []TypeOK
<1>1. TypeInv => TypeOK
  BY DEF TypeInv
<1> QED
  BY <1>1, TypeInit, TypeStep, PTL DEF Spec

-----------------------------------------------------------------------------
(* Good rows *)

\* The present: the time, what was used so far, the amount and the changes there were.
Present == [at |-> now, used |-> used, amount |-> amount, changes |-> changes]
Moments == [at : Nat, used : Nat, amount : 0 .. MaxAmount, changes : Nat]

\* What was used between two times is no more than could be.
Span(x, y) ==
    x[1] <= y[1] => x[2] <= y[2] /\ y[2] - x[2] <= MaxAmount * (y[1] - x[1])

\* A row that m was used up to, with k of the changes, is right but for e: in its average, in
\* what it is estimated from, and, if it has all changes, in what the estimate is of now.
Good(r, m, e, k, n) ==
    /\ r \in Rows /\ Bounded(r.avg) /\ Bounded(r.startavg) /\ r.start \in 0 .. r.time
    /\ Near(r.avg, r.time, m, e)
    /\ Est(r.startavg, r.start, r.amount, r.time, m, e)
    /\ k = n.changes =>
           r.amount = n.amount /\ Est(r.startavg, r.start, r.amount, n.at, n.used, e)

LEMMA MomentFields ==
    ASSUME NEW n \in Moments
    PROVE  /\ n.at \in Nat /\ n.used \in Nat /\ n.changes \in Nat
           /\ n.amount \in Nat /\ n.amount <= MaxAmount
BY BillingAssumption DEF Moments

LEMMA GoodFields ==
    ASSUME NEW r, NEW m, NEW e, NEW k, NEW n, Good(r, m, e, k, n)
    PROVE  /\ r \in Rows /\ r.avg \in Fractions /\ r.startavg \in Fractions
           /\ r.amount \in Nat /\ r.amount <= MaxAmount
           /\ r.time \in Int /\ r.start \in Nat /\ r.start <= r.time
BY RowFields, BillingAssumption DEF Good

LEMMA GoodMore ==
    ASSUME NEW r, NEW m \in Int, NEW e \in Int, NEW f \in Int, NEW k, NEW n \in Moments,
           Good(r, m, e, k, n), e <= f
    PROVE  Good(r, m, f, k, n)
<1>1. /\ r.avg \in Fractions /\ r.startavg \in Fractions /\ r.time \in Int /\ r.start \in Int
      /\ r.amount \in Int
  BY GoodFields
<1>2. n.at \in Int /\ n.used \in Int /\ 0 \in Int
  BY MomentFields
<1>3. Near(r.avg, r.time, m, f)
  BY <1>1, <1>2, EstMore DEF Good, Near
<1>4. Est(r.startavg, r.start, r.amount, r.time, m, f)
  BY <1>1, EstMore DEF Good
<1>5. k = n.changes => Est(r.startavg, r.start, r.amount, n.at, n.used, f)
  BY <1>1, <1>2, EstMore DEF Good
<1> QED
  BY <1>3, <1>4, <1>5 DEF Good

\* Time goes by: what is used is what a row with all changes is taken to say.
LEMMA GoodTick ==
    ASSUME NEW r, NEW m \in Int, NEW e \in Int, NEW k, NEW n \in Moments, NEW o \in Moments,
           Good(r, m, e, k, n),
           o.at = n.at + 1, o.used = n.used + n.amount, o.amount = n.amount,
           o.changes = n.changes
    PROVE  Good(r, m, e, k, o)
<1> SUFFICES ASSUME k = n.changes
             PROVE  Est(r.startavg, r.start, r.amount, o.at, o.used, e)
  BY DEF Good
<1>1. /\ r.startavg \in Fractions /\ r.start \in Int /\ r.amount \in Int /\ r.amount = n.amount
      /\ Est(r.startavg, r.start, r.amount, n.at, n.used, e)
  BY GoodFields DEF Good
<1>2. n.at \in Int /\ n.used \in Int /\ o.at \in Int /\ o.used \in Int /\ n.amount \in Int
  BY MomentFields
<1>3. r.amount * (o.at - n.at) = n.amount
  <2>1. o.at - n.at = 1
    BY <1>2
  <2> QED
    BY <1>1, <1>2, <2>1
<1> DEFINE d == 0
<1>4. /\ d \in Int /\ e + d = e
      /\ -d <= o.used - n.used - r.amount * (o.at - n.at)
      /\ o.used - n.used - r.amount * (o.at - n.at) <= d
  BY <1>2, <1>3
<1> HIDE DEF d
<1>5. Est(r.startavg, r.start, r.amount, o.at, o.used, e + d)
  BY <1>1, <1>2, <1>4, EstShift
<1> QED
  BY <1>4, <1>5

\* Something changes: the row does not have all changes any more.
LEMMA GoodChange ==
    ASSUME NEW r, NEW m, NEW e, NEW k \in Int, NEW n, NEW o, Good(r, m, e, k, n), k < o.changes,
           o.changes \in Int
    PROVE  Good(r, m, e, k, o)
BY DEF Good

-----------------------------------------------------------------------------
(* Rows that are made are good *)

LEMMA Products ==
    ASSUME NEW v \in Nat, v <= MaxAmount, NEW x \in Nat
    PROVE  v * x \in Nat /\ MaxAmount * x \in Nat /\ v * x <= MaxAmount * x
<1>1. MaxAmount \in Nat
  BY BillingAssumption
<1>2. CASE x = 0
  BY <1>1, <1>2
<1>3. CASE x # 0
  BY <1>1, <1>3, Scales
<1> QED
  BY <1>2, <1>3

LEMMA Whole ==
    ASSUME NEW c \in Int, NEW s \in Int, NEW v \in Int, NEW t \in Int, NEW m \in Int, NEW e \in Int
    PROVE  Est(<<c, 1>>, s, v, t, m, e) <=>
               m - e <= c * s + v * (t - s) /\ c * s + v * (t - s) <= m + e
<1>1. c * s \in Int /\ v * (t - s) \in Int
  OBVIOUS
<1> QED
  BY <1>1 DEF Est

\* What may have been used differs from any estimate of it by less than what could be.
LEMMA Apart ==
    ASSUME NEW v \in Nat, v <= MaxAmount, NEW t \in Int, NEW u \in Int, NEW m \in Int, NEW n \in Int,
           t <= u, Span(<<t, m>>, <<u, n>>)
    PROVE  /\ MaxAmount * (u - t) \in Nat
           /\ 0 <= n - m /\ n - m <= MaxAmount * (u - t)
           /\ -(MaxAmount * (u - t)) <= n - m - v * (u - t)
           /\ n - m - v * (u - t) <= MaxAmount * (u - t)
           /\ -(MaxAmount * (u - t)) <= m - n - v * (t - u)
           /\ m - n - v * (t - u) <= MaxAmount * (u - t)
<1> DEFINE g == u - t
<1>1. g \in Nat
  OBVIOUS
<1>2. v * g \in Nat /\ MaxAmount * g \in Nat /\ v * g <= MaxAmount * g
  BY <1>1, Products
<1>3. 0 <= n - m /\ n - m <= MaxAmount * g
  BY DEF Span
<1>4. v * (t - u) = -(v * g)
  OBVIOUS
<1> HIDE DEF g
<1>5. /\ -(MaxAmount * g) <= n - m - v * g /\ n - m - v * g <= MaxAmount * g
      /\ -(MaxAmount * g) <= m - n + v * g /\ m - n + v * g <= MaxAmount * g
  BY <1>2, <1>3
<1> QED
  BY <1>2, <1>3, <1>4, <1>5 DEF g

\* A row that is the first, before the window ends.
LEMMA EarlyGood ==
    ASSUME NEW n \in Moments, NEW t \in 0 .. MonthEnd, NEW u \in Int, NEW e \in Nat, NEW d \in Nat,
           t <= n.at,
           Span(<<0, 0>>, <<t, u>>), Span(<<0, 0>>, <<n.at, n.used>>), Span(<<t, u>>, <<n.at, n.used>>),
           n.used = n.amount * n.at \/ d = MaxAmount * t
    PROVE  Good([amount |-> n.amount, avg |-> <<n.amount, 1>>, time |-> t,
                 startavg |-> <<n.amount, 1>>, start |-> 0],
                u, e + d + MaxAmount * (n.at - t), n.changes, n)
<1> DEFINE v == n.amount
           w == MaxAmount * (n.at - t)
           r == [amount |-> v, avg |-> <<v, 1>>, time |-> t, startavg |-> <<v, 1>>, start |-> 0]
<1>1. /\ v \in Nat /\ v <= MaxAmount /\ t \in Nat /\ n.at \in Nat /\ n.used \in Nat
      /\ MaxAmount \in Nat /\ v \in 0 .. MaxAmount /\ t \in -1 .. MonthEnd /\ 0 \in 0 .. MonthEnd
  BY MomentFields, BillingAssumption
<1>2. <<v, 1>> \in Fractions /\ Bounded(<<v, 1>>)
  BY <1>1 DEF Fractions, Bounded
<1>3. r \in Rows
  BY <1>1, <1>2, RowMade
<1>4. /\ w \in Nat /\ 0 <= n.used - u /\ n.used - u <= w
      /\ -w <= u - n.used - v * (t - n.at) /\ u - n.used - v * (t - n.at) <= w
  <2>1. v \in Nat /\ v <= MaxAmount /\ t \in Int /\ n.at \in Int /\ n.used \in Int /\ u \in Int
    BY <1>1
  <2> QED
    BY <2>1, Apart, Zenon
<1>5. /\ v * t \in Nat /\ MaxAmount * t \in Nat /\ v * t <= MaxAmount * t
      /\ v * n.at \in Nat /\ MaxAmount * n.at \in Nat /\ v * n.at <= MaxAmount * n.at
  BY <1>1, Products
<1>6. MaxAmount * n.at = MaxAmount * t + w /\ v * (t - n.at) = v * t - v * n.at
  BY <1>1
<1>7. 0 <= u /\ u <= MaxAmount * t /\ n.used <= MaxAmount * n.at
  <2>1. MaxAmount * (t - 0) = MaxAmount * t /\ MaxAmount * (n.at - 0) = MaxAmount * n.at
    BY <1>1
  <2> QED
    BY <1>1, <2>1 DEF Span
<1> HIDE DEF w
<1> DEFINE f == e + d + w
<1>8. /\ u - f <= v * t /\ v * t <= u + f /\ f \in Int
      /\ n.used - f <= v * n.at /\ v * n.at <= n.used + f
  BY <1>1, <1>4, <1>5, <1>6, <1>7
<1> HIDE DEF f
<1>9. v * 0 = 0 /\ v * (t - 0) = v * t /\ v * (n.at - 0) = v * n.at /\ 0 * (t - t) = 0
  BY <1>1
<1>10. Near(<<v, 1>>, t, u, f)
  BY <1>1, <1>5, <1>8, <1>9, Whole DEF Near
<1>11. Est(<<v, 1>>, 0, v, t, u, f)
  BY <1>1, <1>5, <1>8, <1>9, Whole
<1>12. Est(<<v, 1>>, 0, v, n.at, n.used, f)
  BY <1>1, <1>5, <1>8, <1>9, Whole
<1>13. Good(r, u, f, n.changes, n)
  BY <1>1, <1>2, <1>3, <1>10, <1>11, <1>12 DEF Good
<1> QED
  BY <1>13 DEF f, w

\* A row that is the first, and later.
LEMMA LateGood ==
    ASSUME NEW n \in Moments, NEW t \in 0 .. MonthEnd, NEW u \in Int, NEW e \in Nat,
           t <= n.at, Span(<<0, 0>>, <<t, u>>), Span(<<t, u>>, <<n.at, n.used>>)
    PROVE  Good([amount |-> n.amount, avg |-> <<0, 1>>, time |-> t,
                 startavg |-> <<0, 1>>, start |-> t],
                u, e + MaxAmount * t + MaxAmount * (n.at - t), n.changes, n)
<1> DEFINE v == n.amount
           w == MaxAmount * (n.at - t)
           r == [amount |-> v, avg |-> <<0, 1>>, time |-> t, startavg |-> <<0, 1>>, start |-> t]
<1>1. /\ v \in Nat /\ v <= MaxAmount /\ t \in Nat /\ n.at \in Nat /\ n.used \in Nat
      /\ MaxAmount \in Nat /\ v \in 0 .. MaxAmount /\ t \in -1 .. MonthEnd
  BY MomentFields, BillingAssumption
<1>2. <<0, 1>> \in Fractions /\ Bounded(<<0, 1>>)
  BY <1>1 DEF Fractions, Bounded
<1>3. r \in Rows
  BY <1>1, <1>2, RowMade
<1>4. /\ w \in Nat /\ 0 <= n.used - u /\ n.used - u <= w
      /\ -w <= n.used - u - v * (n.at - t) /\ n.used - u - v * (n.at - t) <= w
  <2>1. v \in Nat /\ v <= MaxAmount /\ t \in Int /\ n.at \in Int /\ n.used \in Int /\ u \in Int
    BY <1>1
  <2> QED
    BY <2>1, Apart, Zenon
<1>5. MaxAmount * t \in Nat /\ v * (n.at - t) \in Int
  BY <1>1
<1>6. 0 <= u /\ u <= MaxAmount * t
  <2>1. MaxAmount * (t - 0) = MaxAmount * t
    BY <1>1
  <2> QED
    BY <1>1, <2>1 DEF Span
<1> HIDE DEF w
<1> DEFINE f == e + MaxAmount * t + w
<1>7. /\ u - f <= 0 /\ 0 <= u + f /\ f \in Int
      /\ n.used - f <= v * (n.at - t) /\ v * (n.at - t) <= n.used + f
  BY <1>1, <1>4, <1>5, <1>6
<1> HIDE DEF f
<1>8. 0 * t = 0 /\ v * (t - t) = 0 /\ 0 * (t - t) = 0
  BY <1>1
<1>9. Near(<<0, 1>>, t, u, f)
  BY <1>1, <1>7, <1>8, Whole DEF Near
<1>10. Est(<<0, 1>>, t, v, t, u, f)
  BY <1>1, <1>7, <1>8, Whole
<1>11. Est(<<0, 1>>, t, v, n.at, n.used, f)
  BY <1>1, <1>5, <1>7, <1>8, Whole
<1>12. Good(r, u, f, n.changes, n)
  BY <1>1, <1>2, <1>3, <1>9, <1>10, <1>11 DEF Good
<1> QED
  BY <1>12 DEF f, w

\* What a process that looks at the row r at the moment n, having begun at time t when u was
\* used, relies on; d is what it doubts.
Sight(r, m, e, k, n, t, u, d) ==
    /\ n \in Moments /\ t \in 0 .. MonthEnd /\ u \in Int /\ e \in Nat /\ d \in Nat
    /\ t <= n.at
    /\ Span(<<t, u>>, <<n.at, n.used>>)
    /\ m \in Int /\ r # None /\ r.time \in 0 .. t /\ Span(<<r.time, m>>, <<t, u>>)
    /\ Good(r, m, e, k, n)
    /\ k = n.changes \/ d = MaxAmount * (t - r.time)

LEMMA SightFields ==
    ASSUME NEW r, NEW m, NEW e, NEW k, NEW n, NEW t, NEW u, NEW d, Sight(r, m, e, k, n, t, u, d),
           NEW v \in Nat, v <= MaxAmount
    PROVE  LET w == MaxAmount * (n.at - t)
           IN  /\ n \in Moments /\ n.at \in Int /\ n.used \in Int /\ u \in Int /\ t \in Int
               /\ m \in Int /\ e \in Int /\ d \in Int /\ w \in Int /\ 0 <= d /\ 0 <= w
               /\ -w <= n.used - u - v * (n.at - t) /\ n.used - u - v * (n.at - t) <= w
               /\ -w <= u - n.used - v * (t - n.at) /\ u - n.used - v * (t - n.at) <= w
<1>1. /\ n \in Moments /\ t \in Int /\ u \in Int /\ t <= n.at /\ Span(<<t, u>>, <<n.at, n.used>>)
      /\ m \in Int /\ e \in Int /\ d \in Int /\ 0 <= d
  BY DEF Sight
<1>2. n.at \in Int /\ n.used \in Int
  BY <1>1, MomentFields
<1> DEFINE w == MaxAmount * (n.at - t)
<1>3. /\ w \in Nat
      /\ -w <= n.used - u - v * (n.at - t) /\ n.used - u - v * (n.at - t) <= w
      /\ -w <= u - n.used - v * (t - n.at) /\ u - n.used - v * (t - n.at) <= w
  BY <1>1, <1>2, Apart, Zenon
<1> QED
  BY <1>1, <1>2, <1>3

\* What is doubted about the time since the row.
LEMMA DoubtCovers ==
    ASSUME NEW r, NEW m, NEW e, NEW k, NEW n, NEW t, NEW u, NEW d, Sight(r, m, e, k, n, t, u, d),
           k # n.changes, NEW v \in Nat, v <= MaxAmount
    PROVE  /\ d = MaxAmount * (t - r.time) /\ r.time \in Int /\ r.time <= t
           /\ 0 <= u - m /\ u - m <= MaxAmount * (t - r.time)
           /\ -d <= u - m - v * (t - r.time) /\ u - m - v * (t - r.time) <= d
<1>1. /\ r.time \in Int /\ t \in Int /\ r.time <= t /\ m \in Int /\ u \in Int
      /\ Span(<<r.time, m>>, <<t, u>>)
      /\ d = MaxAmount * (t - r.time)
  BY DEF Sight
<1>2. /\ 0 <= u - m /\ u - m <= MaxAmount * (t - r.time)
      /\ -(MaxAmount * (t - r.time)) <= u - m - v * (t - r.time)
      /\ u - m - v * (t - r.time) <= MaxAmount * (t - r.time)
  BY <1>1, Apart, Zenon
<1> QED
  BY <1>1, <1>2

\* The row is written again with a new average.
LEMMA SameGood ==
    ASSUME NEW r, NEW m, NEW e, NEW k, NEW n, NEW t, NEW u, NEW d, Sight(r, m, e, k, n, t, u, d),
           r.amount = n.amount, t # 0
    PROVE  Good([r EXCEPT !.avg = Average(r.startavg, r.start, n.amount, t), !.time = t],
                u, e + d + MaxAmount * (n.at - t), n.changes, n)
<1> DEFINE v == n.amount
           w == MaxAmount * (n.at - t)
           a == r.startavg
           s == r.start
           f == e + d + w
           avg == Average(a, s, v, t)
           o == [r EXCEPT !.avg = avg, !.time = t]
<1>1. /\ Good(r, m, e, k, n) /\ n \in Moments /\ t \in 0 .. MonthEnd /\ r.time \in 0 .. t
  BY DEF Sight
<1>2. /\ r \in Rows /\ a \in Fractions /\ Bounded(a) /\ v \in Nat /\ v <= MaxAmount
      /\ s \in Nat /\ s <= r.time /\ s \in Int /\ v \in Int /\ r.time \in Int
  <2>1. Bounded(a)
    BY <1>1 DEF Good
  <2> QED
    BY <1>1, <2>1, GoodFields, MomentFields
<1>3. /\ n.at \in Int /\ n.used \in Int /\ u \in Int /\ t \in Int
      /\ m \in Int /\ e \in Int /\ d \in Int /\ w \in Int /\ 0 <= d /\ 0 <= w
      /\ -w <= n.used - u - v * (n.at - t) /\ n.used - u - v * (n.at - t) <= w
      /\ -w <= u - n.used - v * (t - n.at) /\ u - n.used - v * (t - n.at) <= w
  BY <1>2, SightFields
<1>4. f \in Int /\ e <= f /\ e + d \in Int /\ e + d <= f /\ e + w \in Int /\ e + w <= f
      /\ (e + d) + w = f
  BY <1>3
<1>5. Est(a, s, v, t, u, f) /\ Est(a, s, v, n.at, n.used, f)
  <2>1. CASE k = n.changes
    <3>1. Est(a, s, v, n.at, n.used, e)
      BY <1>1, <2>1 DEF Good
    <3> HIDE DEF w, a, s, v, f
    <3>2. Est(a, s, v, t, u, e + w)
      BY <1>2, <1>3, <3>1, EstShift
    <3> QED
      BY <1>2, <1>3, <1>4, <3>1, <3>2, EstMore
  <2>2. CASE k # n.changes
    <3>1. Est(a, s, v, r.time, m, e)
      BY <1>1 DEF Good
    <3>2. -d <= u - m - v * (t - r.time) /\ u - m - v * (t - r.time) <= d
      BY <1>2, <2>2, DoubtCovers
    <3> HIDE DEF w, a, s, v, f
    <3>3. Est(a, s, v, t, u, e + d)
      BY <1>2, <1>3, <3>1, <3>2, EstShift
    <3>4. Est(a, s, v, n.at, n.used, (e + d) + w)
      BY <1>2, <1>3, <1>4, <3>3, EstShift
    <3> QED
      BY <1>2, <1>3, <1>4, <3>3, <3>4, EstMore
  <2> QED
    BY <2>1, <2>2
<1>6. Bounded(avg) /\ Near(avg, t, u, f)
  <2>1. v \in 0 .. MaxAmount /\ t \in Nat \ {0} /\ s \in 0 .. t
    BY <1>1, <1>2, BillingAssumption
  <2> HIDE DEF v, a, s, f
  <2> QED
    BY <1>2, <1>3, <1>4, <1>5, <2>1, AverageFacts
<1> HIDE DEF avg, f
<1>7. /\ o \in Rows /\ o.avg = avg /\ o.time = t /\ o.startavg = a /\ o.start = s /\ o.amount = v
      /\ o.start \in 0 .. t
  <2>1. avg \in Fractions /\ t \in -1 .. MonthEnd
    BY <1>1, <1>6, BillingAssumption DEF Bounded
  <2>2. o \in Rows
    BY <1>2, <2>1, RowChanged
  <2> QED
    BY <1>1, <1>2, <2>1, <2>2 DEF Rows
<1> HIDE DEF o
<1>8. Good(o, u, f, n.changes, n)
  BY <1>2, <1>5, <1>6, <1>7 DEF Good
<1> QED
  BY <1>8 DEF o, f, avg

\* The row is written with a new amount, and its average stands for the time since.
LEMMA OtherGood ==
    ASSUME NEW r, NEW m, NEW e, NEW k, NEW n, NEW t, NEW u, NEW d, Sight(r, m, e, k, n, t, u, d),
           r.amount # n.amount, NEW s \in {r.time, t}
    PROVE  Good([amount |-> n.amount, avg |-> r.avg, time |-> t, startavg |-> r.avg, start |-> s],
                u, e + d + MaxAmount * (n.at - t), n.changes, n)
<1> DEFINE v == n.amount
           w == MaxAmount * (n.at - t)
           a == r.avg
           T == r.time
           f == e + d + w
           o == [amount |-> v, avg |-> a, time |-> t, startavg |-> a, start |-> s]
<1>1. /\ Good(r, m, e, k, n) /\ n \in Moments /\ t \in 0 .. MonthEnd /\ T \in 0 .. t
  BY DEF Sight
<1>2. /\ r \in Rows /\ a \in Fractions /\ Bounded(a) /\ v \in Nat /\ v <= MaxAmount
      /\ v \in 0 .. MaxAmount /\ v \in Int /\ T \in Int /\ 0 \in Int
  <2>1. Bounded(a)
    BY <1>1 DEF Good
  <2>2. /\ r \in Rows /\ a \in Fractions /\ v \in Nat /\ v <= MaxAmount /\ T \in Int
    BY <1>1, GoodFields, MomentFields
  <2> QED
    BY <2>1, <2>2, BillingAssumption
<1>3. /\ n.at \in Int /\ n.used \in Int /\ u \in Int /\ t \in Int
      /\ m \in Int /\ e \in Int /\ d \in Int /\ w \in Int /\ 0 <= d /\ 0 <= w
      /\ -w <= n.used - u - v * (n.at - t) /\ n.used - u - v * (n.at - t) <= w
  BY <1>2, SightFields
<1>4. f \in Int /\ e + d \in Int /\ e + d <= f /\ (e + d) + w = f
  BY <1>3
<1>5. /\ d = MaxAmount * (t - T) /\ T <= t /\ 0 <= u - m /\ u - m <= MaxAmount * (t - T)
      /\ -d <= u - m - v * (t - T) /\ u - m - v * (t - T) <= d
  BY <1>1, <1>2, DoubtCovers DEF Good
<1>6. Near(a, T, m, e)
  BY <1>1 DEF Good
<1>7. Near(a, t, u, e + d)
  <2>1. Near(a, t, u, e + MaxAmount * (t - T))
    <3> HIDE DEF a, T
    <3> QED
      BY <1>2, <1>3, <1>5, <1>6, NearShift
  <2> QED
    BY <1>5, <2>1
<1> HIDE DEF a, T, v, w, f
<1>8. Near(a, t, u, f)
  BY <1>2, <1>3, <1>4, <1>7, EstMore DEF Near
<1>9. Est(a, s, v, t, u, e + d)
  <2>1. CASE s = T
    <3>1. Est(a, T, v, T, m, e)
      BY <1>2, <1>3, <1>6, EstSince DEF Near
    <3>2. Est(a, T, v, t, u, e + d)
      BY <1>2, <1>3, <1>5, <3>1, EstShift
    <3> QED
      BY <2>1, <3>2
  <2>2. CASE s = t
    <3>1. Est(a, t, v, t, u, e + d)
      BY <1>2, <1>3, <1>4, <1>7, EstSince DEF Near
    <3> QED
      BY <2>2, <3>1
  <2> QED
    BY <2>1, <2>2 DEF T
<1>10. s \in Int
  BY <1>2, <1>3 DEF T
<1>11. Est(a, s, v, t, u, f)
  BY <1>2, <1>3, <1>4, <1>9, <1>10, EstMore
<1>12. Est(a, s, v, n.at, n.used, f)
  <2>1. Est(a, s, v, n.at, n.used, (e + d) + w)
    BY <1>2, <1>3, <1>4, <1>9, <1>10, EstShift
  <2> QED
    BY <1>4, <2>1
<1>13. o \in Rows /\ s \in 0 .. t
  <2>1. t \in -1 .. MonthEnd /\ s \in 0 .. MonthEnd /\ s \in 0 .. t
    BY <1>1, BillingAssumption DEF T
  <2> QED
    BY <1>2, <2>1, RowMade
<1>14. Good(o, u, f, n.changes, n)
  <2>1. o.avg = a /\ o.time = t /\ o.startavg = a /\ o.start = s /\ o.amount = v
    OBVIOUS
  <2> HIDE DEF o
  <2> QED
    BY <1>2, <1>8, <1>11, <1>12, <1>13, <2>1 DEF Good, v
<1> QED
  BY <1>14 DEF a, v, f, w

-----------------------------------------------------------------------------
(* The inductive invariant *)

\* What is billed as it is used.
Claimed == service = "images" \/ changes = 0

\* The times of which it is remembered what had been used until then.
Points ==
    {<<0, 0>>, <<now, used>>} \cup {<<job[p].at, job[p].used>> : p \in Procs}
        \cup (IF row = None THEN {} ELSE {<<row.time, metered>>})

Spanned == \A x, y \in Points : Span(x, y)

\* Until the first change the usage is known; a row, and what a process has read, has no
\* change that was not made.
Metered ==
    /\ changes = 0 => used = amount * now
    /\ row = None => known = 0
    /\ row # None => row.time <= now
    /\ known <= changes /\ slack >= 0
    /\ \A p \in Procs : job[p].known <= changes /\ job[p].slack >= 0

RowGood == Claimed /\ ~mixed /\ row # None => Good(row, metered, slack, known, Present)

\* So is the row that a process is about to write.
MadeGood ==
    \A p \in Procs :
        job[p].pc = "read" /\ ~Dies(job[p]) /\ Claimed /\ ~mixed
            => Good(Made(job[p]), job[p].used, slack + job[p].slack, job[p].known, Present)

IInv == TypeInv /\ Spanned /\ Metered /\ RowGood /\ MadeGood

LEMMA PresentIs ==
    ASSUME TypeInv
    PROVE  /\ Present \in Moments
           /\ Present.at = now /\ Present.used = used /\ Present.amount = amount
           /\ Present.changes = changes
BY DEF TypeInv, TypeOK, Present, Moments

LEMMA JobFields ==
    ASSUME TypeInv, NEW p \in Procs
    PROVE  /\ job[p] \in JobRecord /\ job[p].at \in 0 .. MonthEnd /\ job[p].at <= now
           /\ job[p].used \in Nat /\ job[p].known \in Nat /\ job[p].slack \in Int
           /\ Dated(job[p].row) /\ job[p].row \in Rows
BY BillingAssumption DEF TypeInv, TypeOK, JobRecord, AllDated

LEMMA StateTypes ==
    ASSUME TypeInv
    PROVE  /\ now \in Nat /\ used \in Nat /\ metered \in Nat /\ slack \in Int /\ amount \in Nat
           /\ amount <= MaxAmount /\ changes \in Nat /\ known \in Nat /\ row \in Rows /\ Dated(row)
           /\ mixed \in BOOLEAN /\ service \in {"servers", "images"} /\ now <= MonthEnd
BY BillingAssumption DEF TypeInv, TypeOK, AllDated

LEMMA InitGood == Init => IInv
<1> SUFFICES ASSUME Init PROVE IInv
  OBVIOUS
<1>1. TypeInv
  BY TypeInit
<1>2. \A p \in Procs : job[p] = Waiting
  BY DEF Init
<1>3. Points \subseteq {<<0, 0>>}
  BY <1>2 DEF Init, Points, Waiting
<1>4. Span(<<0, 0>>, <<0, 0>>)
  BY BillingAssumption DEF Span
<1>5. Spanned
  BY <1>3, <1>4 DEF Spanned
<1>6. Metered
  <2>1. amount \in Nat
    BY <1>1, StateTypes
  <2> QED
    BY <1>2, <2>1 DEF Init, Metered, Waiting
<1>7. RowGood /\ MadeGood
  BY <1>2 DEF Init, RowGood, MadeGood, Waiting
<1> QED
  BY <1>1, <1>5, <1>6, <1>7 DEF IInv

\* Nothing is known of the usage that was not known before.
LEMMA FewerPoints == ASSUME Spanned, Points' \subseteq Points PROVE Spanned'
BY DEF Spanned

\* What a process that reads the row relies on.
LEMMA ReadSight ==
    ASSUME IInv, NEW p \in Procs, row # None, row.time <= job[p].at, Claimed, ~mixed
    PROVE  Sight(row, metered, slack, known, Present, job[p].at, job[p].used,
                 Doubt(job[p].kind, job[p].at))
<1> DEFINE t == job[p].at
           u == job[p].used
           d == Doubt(job[p].kind, t)
           x == <<t, u>>
<1>1. TypeInv /\ Spanned /\ Metered /\ RowGood
  BY DEF IInv
<1>2. /\ t \in 0 .. MonthEnd /\ t <= now /\ u \in Int /\ row.time \in Int /\ t \in Int
      /\ row.time \in 0 .. t
  BY <1>1, JobFields, StateTypes DEF Dated
<1>3. metered \in Int /\ slack \in Nat /\ MaxAmount \in Nat
  BY <1>1, StateTypes, BillingAssumption DEF Metered
<1>4. x \in Points /\ <<now, used>> \in Points /\ <<row.time, metered>> \in Points
  BY DEF Points
<1>5. Span(x, <<now, used>>) /\ Span(<<row.time, metered>>, x)
  BY <1>1, <1>4, Zenon DEF Spanned
<1>6. d = IF known = changes THEN 0 ELSE MaxAmount * (t - row.time)
  BY DEF Doubt
<1>7. d \in Nat /\ (known = changes \/ d = MaxAmount * (t - row.time))
  <2>1. t - row.time \in Nat
    BY <1>2
  <2>2. MaxAmount * (t - row.time) \in Nat
    BY <1>3, <2>1
  <2> QED
    BY <1>6, <2>2
<1>8. Good(row, metered, slack, known, Present)
  BY <1>1 DEF RowGood
<1> HIDE DEF t, u, d, x
<1>9. Sight(row, metered, slack, known, Present, t, u, d)
  <2>1. /\ Present \in Moments /\ Present.at = now /\ Present.used = used
        /\ Present.changes = changes
    BY <1>1, PresentIs
  <2>2. Span(<<t, u>>, <<Present.at, Present.used>>) /\ Span(<<row.time, metered>>, <<t, u>>)
    BY <1>5, <2>1 DEF x
  <2> QED
    BY <1>2, <1>3, <1>7, <1>8, <2>1, <2>2 DEF Sight
<1> QED
  BY <1>9 DEF t, u, d

LEMMA ReadGood ==
    ASSUME IInv, NEW p \in Procs, Read(p), Claimed, ~mixed', ~Dies(job'[p])
    PROVE  Good(Made(job'[p]), job'[p].used, slack + job'[p].slack, job'[p].known, Present)
<1> DEFINE d == Doubt(job[p].kind, job[p].at)
           w == MaxAmount * (now - job[p].at)
           j == [job[p] EXCEPT !.pc = "read", !.amount = amount, !.row = row,
                               !.known = changes, !.slack = d + w]
           t == job[p].at
           u == job[p].used
           n == Present
<1>1. TypeInv /\ Spanned /\ Metered /\ RowGood
  BY DEF IInv
<1>2. /\ job[p] \in JobRecord /\ j \in JobRecord /\ job[p].pc = "begun"
      /\ job' = [job EXCEPT ![p] = j]
      /\ mixed' = (mixed \/ row.time > t)
  BY <1>1, ReadIs
<1>3. job'[p] = j
  <2>1. DOMAIN job = Procs
    BY <1>1 DEF TypeInv, TypeOK
  <2> QED
    BY <1>2, <2>1
<1>4. /\ j.kind = job[p].kind /\ j.at = t /\ j.used = u /\ j.amount = amount /\ j.row = row
      /\ j.known = changes /\ j.slack = d + w
  BY <1>2 DEF JobRecord
<1>5. /\ n \in Moments /\ n.at = now /\ n.used = used /\ n.amount = amount /\ n.changes = changes
  BY <1>1, PresentIs
<1>6. /\ t \in 0 .. MonthEnd /\ t <= now /\ u \in Int /\ t \in Nat /\ row.time \in Int
      /\ row \in Rows /\ Dated(row) /\ slack \in Nat /\ now \in Nat /\ used \in Nat
      /\ amount \in Nat /\ amount <= MaxAmount /\ MaxAmount \in Nat
      /\ known \in Nat /\ changes \in Nat
  <2>1. t \in 0 .. MonthEnd /\ t <= now /\ u \in Nat /\ MonthEnd \in Nat /\ MaxAmount \in Nat
    BY <1>1, JobFields, BillingAssumption
  <2>2. /\ row \in Rows /\ Dated(row) /\ now \in Nat /\ used \in Nat /\ amount \in Nat
        /\ amount <= MaxAmount /\ known \in Nat /\ changes \in Nat /\ slack \in Int
    BY <1>1, StateTypes
  <2>3. row.time \in -1 .. MonthEnd
    BY <2>2, RowFields
  <2>4. slack >= 0
    BY <1>1 DEF Metered
  <2> HIDE DEF t, u
  <2> QED
    BY <2>1, <2>2, <2>3, <2>4
<1>7. ~mixed /\ row.time <= t
  <2>1. ~mixed /\ ~(row.time > t)
    BY <1>2, Zenon
  <2> QED
    BY <1>6, <2>1
<1>8. job[p].kind \in Kinds /\ job[p].kind \in {"post", "report", "update"}
  BY <1>1, <1>2 DEF TypeInv, Busy, Kinds
<1>9. ~Dies(j)
  BY <1>3
<1>10. w \in Int
  BY <1>6
<1>11. SUFFICES d \in Int /\ Good(Made(j), u, slack + d + w, n.changes, n)
  BY <1>3, <1>4, <1>5, <1>6, <1>10
<1> HIDE DEF j, n
<1>12. CASE row = None
  <2>1. /\ Span(<<0, 0>>, <<t, u>>) /\ Span(<<0, 0>>, <<n.at, n.used>>)
        /\ Span(<<t, u>>, <<n.at, n.used>>)
    <3>1. <<t, u>> \in Points /\ <<0, 0>> \in Points /\ <<now, used>> \in Points
      BY DEF Points
    <3> QED
      BY <1>1, <1>5, <3>1 DEF Spanned
  <2>2. t - 0 = t /\ MaxAmount * t \in Nat
    BY <1>6
  <2>3. CASE job[p].kind # "report" /\ t < Window
    <3>1. Made(j) = [amount |-> n.amount, avg |-> <<n.amount, 1>>, time |-> t,
                     startavg |-> <<n.amount, 1>>, start |-> 0]
      BY <1>4, <1>5, <1>8, <1>12, <2>3 DEF Made, Posted, Updated, Begun
    <3>2. d = IF known = changes THEN 0 ELSE MaxAmount * (t - 0)
      BY <1>12, <2>3 DEF Doubt
    <3>3. n.used = n.amount * n.at \/ d = MaxAmount * t
      BY <1>1, <1>5, <1>12, <2>2, <3>2 DEF Metered
    <3>4. d \in Nat
      BY <2>2, <3>2
    <3> HIDE DEF d, t, u
    <3>5. Good([amount |-> n.amount, avg |-> <<n.amount, 1>>, time |-> t,
                startavg |-> <<n.amount, 1>>, start |-> 0],
               u, slack + d + MaxAmount * (n.at - t), n.changes, n)
      BY <1>5, <1>6, <2>1, <3>3, <3>4, EarlyGood
    <3> QED
      BY <1>5, <3>1, <3>4, <3>5 DEF w, t
  <2>4. CASE job[p].kind = "report" \/ ~(t < Window)
    <3>1. Made(j) = [amount |-> n.amount, avg |-> <<0, 1>>, time |-> t,
                     startavg |-> <<0, 1>>, start |-> t]
      BY <1>4, <1>5, <1>8, <1>12, <2>4 DEF Made, Posted, Reported, Updated, Begun
    <3>2. d = MaxAmount * t
      BY <1>12, <2>2, <2>4 DEF Doubt
    <3> HIDE DEF d, t, u
    <3>3. Good([amount |-> n.amount, avg |-> <<0, 1>>, time |-> t,
                startavg |-> <<0, 1>>, start |-> t],
               u, slack + MaxAmount * t + MaxAmount * (n.at - t), n.changes, n)
      BY <1>5, <1>6, <2>1, LateGood
    <3> QED
      BY <1>5, <2>2, <3>1, <3>2, <3>3 DEF w, t
  <2> QED
    BY <2>3, <2>4
<1>13. CASE row # None
  <2>1. Sight(row, metered, slack, known, n, t, u, d)
    BY <1>7, <1>13, ReadSight DEF n
  <2>2. d \in Int
    BY <2>1 DEF Sight
  <2>3. CASE Same(j)
    <3>1. row.amount = n.amount /\ t # 0
      BY <1>4, <1>5, <1>9, <1>13, <2>3 DEF Same, Dies
    <3>2. Made(j) = [row EXCEPT !.avg = Average(row.startavg, row.start, n.amount, t), !.time = t]
      BY <1>4, <1>5, <1>8, <1>13, <3>1 DEF Made, Posted, Reported, Updated
    <3> HIDE DEF d, t, u
    <3>3. Good([row EXCEPT !.avg = Average(row.startavg, row.start, n.amount, t), !.time = t],
               u, slack + d + MaxAmount * (n.at - t), n.changes, n)
      BY <2>1, <3>1, SameGood
    <3> QED
      BY <1>5, <2>2, <3>2, <3>3 DEF w, t
  <2>4. CASE ~Same(j)
    <3>1. row.amount # n.amount
      BY <1>4, <1>5, <1>13, <2>4 DEF Same
    <3>2. job[p].kind # "post"
      <4>1. SUFFICES ASSUME job[p].kind = "post" PROVE FALSE
        OBVIOUS
      <4>2. service = "servers"
        BY <1>6, <1>8, <4>1 DEF Kinds
      <4>3. changes = 0 /\ known = changes
        BY <1>1, <1>6, <4>2 DEF Claimed, Metered
      <4>4. Good(row, metered, slack, known, n)
        BY <2>1 DEF Sight
      <4> QED
        BY <1>5, <3>1, <4>3, <4>4 DEF Good
    <3>3. PICK s \in {row.time, t} :
              Made(j) = [amount |-> n.amount, avg |-> row.avg, time |-> t,
                         startavg |-> row.avg, start |-> s]
      <4>1. CASE job[p].kind = "report"
        BY <1>4, <1>5, <1>13, <3>1, <4>1 DEF Made, Reported
      <4>2. CASE job[p].kind = "update"
        BY <1>4, <1>5, <1>13, <3>1, <4>2 DEF Made, Updated
      <4> QED
        BY <1>8, <3>2, <4>1, <4>2
    <3> HIDE DEF d, t, u
    <3>4. Good([amount |-> n.amount, avg |-> row.avg, time |-> t, startavg |-> row.avg, start |-> s],
               u, slack + d + MaxAmount * (n.at - t), n.changes, n)
      BY <2>1, <3>1, OtherGood
    <3> QED
      BY <1>5, <2>2, <3>3, <3>4 DEF w, t
  <2> QED
    BY <2>3, <2>4
<1> QED
  BY <1>12, <1>13

-----------------------------------------------------------------------------
(* Every step keeps the invariant *)

LEMMA BeginGood ==
    ASSUME IInv, NEW p \in Procs, NEW kind \in Kinds, Begin(p, kind)
    PROVE  Spanned' /\ Metered' /\ RowGood' /\ MadeGood'
<1> DEFINE j == [Waiting EXCEPT !.pc = "begun", !.kind = kind, !.at = now, !.used = used]
<1>1. /\ job' = [job EXCEPT ![p] = j]
      /\ UNCHANGED <<now, service, amount, row, used, metered, slack, changes, known, mixed>>
  BY DEF Begin, Goto
<1>2. /\ job \in [Procs -> JobRecord] /\ changes \in Nat
  BY StateTypes DEF IInv, TypeInv, TypeOK, JobRecord
<1>3. j.at = now /\ j.used = used /\ j.pc = "begun" /\ j.known = 0 /\ j.slack = 0
  BY DEF Waiting
<1> HIDE DEF j
<1>4. job'[p] = j /\ \A q \in Procs \ {p} : job'[q] = job[q]
  BY <1>1, <1>2
<1>5. Points' \subseteq Points
  <2>1. \A q \in Procs : <<job'[q].at, job'[q].used>> \in Points
    BY <1>3, <1>4 DEF Points
  <2> QED
    BY <1>1, <2>1 DEF Points
<1>6. Metered'
  BY <1>1, <1>2, <1>3, <1>4 DEF IInv, Metered
<1>7. Present' = Present
  BY <1>1 DEF Present
<1>8. RowGood' /\ MadeGood'
  BY <1>1, <1>3, <1>4, <1>7 DEF IInv, RowGood, MadeGood, Claimed
<1> QED
  BY <1>5, <1>6, <1>8, FewerPoints DEF IInv

LEMMA ReadKeeps ==
    ASSUME IInv, NEW p \in Procs, Read(p)
    PROVE  Spanned' /\ Metered' /\ RowGood' /\ MadeGood'
<1> DEFINE t == job[p].at
           d == Doubt(job[p].kind, t)
           w == MaxAmount * (now - t)
           j == [job[p] EXCEPT !.pc = "read", !.amount = amount, !.row = row,
                               !.known = changes, !.slack = d + w]
<1>1. /\ job[p] \in JobRecord /\ j \in JobRecord /\ job' = [job EXCEPT ![p] = j]
      /\ mixed' = (mixed \/ row.time > t)
      /\ UNCHANGED <<now, service, amount, row, used, metered, slack, changes, known, updates>>
  BY ReadIs DEF IInv
<1>2. j.at = t /\ j.used = job[p].used /\ j.known = changes /\ j.slack = d + w
  BY <1>1 DEF JobRecord
<1>3. d + w >= 0
  <2>1. /\ now \in Nat /\ t \in Nat /\ t <= now /\ MaxAmount \in Nat
        /\ (row # None => row.time \in Nat /\ row.time <= now)
    BY StateTypes, JobFields, BillingAssumption DEF IInv, Dated, Metered
  <2>2. w \in Nat
    BY <2>1
  <2>3. d = 0 \/ d = MaxAmount * (t - (IF row = None THEN 0 ELSE row.time))
    BY DEF Doubt
  <2>4. CASE d = 0
    BY <2>2, <2>4
  <2>5. CASE d = MaxAmount * (t - (IF row = None THEN 0 ELSE row.time))
    <3> DEFINE T == IF row = None THEN 0 ELSE row.time
    <3>1. T \in Nat /\ T <= now
      BY <2>1
    <3> HIDE DEF T
    <3>2. MaxAmount * (t - T) + MaxAmount * (now - t) = MaxAmount * (now - T)
      BY <2>1, <3>1
    <3>3. MaxAmount * (now - T) \in Nat
      BY <2>1, <3>1
    <3>4. d + w = MaxAmount * (now - T)
      BY <2>5, <3>2 DEF T
    <3> QED
      BY <3>3, <3>4
  <2> QED
    BY <2>3, <2>4, <2>5
<1> HIDE DEF j, d, w
<1>4. job'[p] = j /\ \A q \in Procs \ {p} : job'[q] = job[q]
  BY <1>1 DEF IInv, TypeInv, TypeOK
<1>5. Points' \subseteq Points
  <2>1. \A q \in Procs : <<job'[q].at, job'[q].used>> \in Points
    BY <1>2, <1>4 DEF Points
  <2> QED
    BY <1>1, <2>1 DEF Points
<1>6. Metered'
  <2>1. changes \in Nat
    BY StateTypes DEF IInv
  <2> QED
    BY <1>1, <1>2, <1>3, <1>4, <2>1 DEF IInv, Metered
<1>7. Present' = Present
  BY <1>1 DEF Present
<1>8. ~mixed' => ~mixed
  BY <1>1
<1>9. RowGood'
  BY <1>1, <1>7, <1>8 DEF IInv, RowGood, Claimed
<1>10. MadeGood'
  <2> SUFFICES ASSUME NEW q \in Procs, job'[q].pc = "read", ~Dies(job'[q]), Claimed', ~mixed'
               PROVE  Good(Made(job'[q]), job'[q].used, slack' + job'[q].slack, job'[q].known,
                           Present')
    BY DEF MadeGood
  <2>1. Claimed /\ ~mixed
    BY <1>1, <1>8 DEF Claimed
  <2>2. CASE q = p
    BY <1>1, <1>7, <2>1, <2>2, ReadGood
  <2>3. CASE q # p
    BY <1>1, <1>4, <1>7, <2>1, <2>3 DEF IInv, MadeGood
  <2> QED
    BY <2>2, <2>3
<1> QED
  BY <1>5, <1>6, <1>9, <1>10, FewerPoints DEF IInv

\* A row whose amount is the same is written with its average and its time.
LEMMA SameMade ==
    ASSUME NEW j, j.row \in Rows, j.kind \in {"post", "report", "update"}, Same(j)
    PROVE  Made(j) = [j.row EXCEPT !.avg = Made(j).avg, !.time = Made(j).time]
<1> DEFINE r == j.row
           avg == Average(r.startavg, r.start, j.amount, j.at)
<1>1. Made(j) = [r EXCEPT !.avg = avg, !.time = j.at]
  BY DEF Made, Posted, Reported, Updated, Same
<1> HIDE DEF avg
<1>2. Made(j).avg = avg /\ Made(j).time = j.at
  BY <1>1 DEF Rows
<1> QED
  BY <1>1, <1>2

LEMMA WriteGood ==
    ASSUME IInv, NEW p \in Procs, Write(p)
    PROVE  Spanned' /\ Metered' /\ RowGood' /\ MadeGood'
<1> DEFINE j == job[p]
<1>1. /\ j.pc = "read" /\ job' = [job EXCEPT ![p] = Waiting]
      /\ UNCHANGED <<now, service, amount, used, changes, updates>>
  BY WriteIs
<1>2. /\ j \in JobRecord /\ j.at \in 0 .. MonthEnd /\ j.at <= now /\ j.at \in Nat
      /\ j.known \in Nat /\ j.slack \in Nat /\ Dated(j.row) /\ j.row \in Rows /\ j.kind \in Kinds
      /\ j.known <= changes /\ j.kind \in {"post", "report", "update"}
  <2>1. j.kind \in Kinds /\ j.slack >= 0 /\ j.known <= changes
    BY <1>1 DEF IInv, TypeInv, Busy, Metered
  <2>2. TypeInv
    BY DEF IInv
  <2>3. j.kind \in {"post", "report", "update"}
    BY <2>1 DEF Kinds
  <2> QED
    BY <2>1, <2>2, <2>3, JobFields
<1>3. slack \in Nat /\ changes \in Nat
  BY StateTypes DEF IInv, Metered
<1>4. ~Dies(j) =>
          /\ row' = IF Same(j) /\ j.kind # "update"
                    THEN [row EXCEPT !.avg = Made(j).avg, !.time = Made(j).time] ELSE Made(j)
          /\ metered' = j.used /\ slack' = slack + j.slack /\ known' = j.known
          /\ mixed' = (mixed \/ row # j.row)
  BY WriteIs
<1>5. Dies(j) => UNCHANGED <<row, metered, slack, known, mixed>>
  BY WriteIs
<1>6. ~Dies(j) => row'.time = j.at /\ row' # None
  <2> SUFFICES ASSUME ~Dies(j) PROVE row'.time = j.at /\ row' # None
    OBVIOUS
  <2>1. Made(j) \in Rows /\ Made(j).time = j.at
    BY <1>2, MadeTyped DEF IInv, TypeInv
  <2>2. row \in Rows
    BY StateTypes DEF IInv
  <2>3. row'.time = j.at
    BY <1>4, <2>1, <2>2 DEF Rows
  <2> QED
    BY <1>2, <2>3 DEF None
<1>7. Waiting.at = 0 /\ Waiting.used = 0 /\ Waiting.known = 0 /\ Waiting.slack = 0
      /\ Waiting.pc = "idle"
  BY DEF Waiting
<1>8. job'[p] = Waiting /\ \A q \in Procs \ {p} : job'[q] = job[q]
  BY <1>1 DEF IInv, TypeInv, TypeOK
<1>9. slack' \in Nat /\ slack <= slack' /\ (~mixed' => ~mixed)
  <2>1. ~mixed' => ~mixed
    BY <1>4, <1>5, Zenon
  <2>2. slack' = slack \/ slack' = slack + job[p].slack
    BY <1>4, <1>5, Zenon
  <2> QED
    BY <1>2, <1>3, <2>1, <2>2
<1>10. Points' \subseteq Points
  <2>1. \A q \in Procs : <<job'[q].at, job'[q].used>> \in Points
    BY <1>7, <1>8 DEF Points
  <2>2. row' # None => <<row'.time, metered'>> \in Points
    BY <1>4, <1>5, <1>6 DEF Points
  <2> QED
    BY <1>1, <2>1, <2>2 DEF Points
<1>11. Metered'
  <2>1. /\ row' = None => known' = 0
        /\ row' # None => row'.time <= now'
        /\ known' <= changes'
    BY <1>1, <1>2, <1>4, <1>5, <1>6 DEF IInv, Metered
  <2>2. \A q \in Procs : job'[q].known <= changes' /\ job'[q].slack >= 0
    BY <1>1, <1>3, <1>7, <1>8 DEF IInv, Metered
  <2> QED
    BY <1>1, <1>9, <2>1, <2>2 DEF IInv, Metered
<1>12. Present' = Present /\ (Claimed' <=> Claimed)
  BY <1>1 DEF Present, Claimed
<1>13. RowGood'
  <2> SUFFICES ASSUME Claimed', ~mixed', row' # None
               PROVE  Good(row', metered', slack', known', Present')
    BY DEF RowGood
  <2>1. CASE Dies(j)
    BY <1>5, <1>12, <2>1 DEF IInv, RowGood
  <2>2. CASE ~Dies(j)
    <3>1. row = j.row /\ ~mixed
      BY <1>4, <2>2
    <3>2. row' = Made(j)
      BY <1>2, <1>4, <2>2, <3>1, SameMade
    <3>3. Good(Made(j), j.used, slack + j.slack, j.known, Present)
      BY <1>1, <1>12, <2>2, <3>1 DEF IInv, MadeGood
    <3> QED
      BY <1>4, <1>12, <2>2, <3>2, <3>3
  <2> QED
    BY <2>1, <2>2
<1>14. MadeGood'
  <2> SUFFICES ASSUME NEW q \in Procs, job'[q].pc = "read", ~Dies(job'[q]), Claimed', ~mixed'
               PROVE  Good(Made(job'[q]), job'[q].used, slack' + job'[q].slack, job'[q].known,
                           Present')
    BY DEF MadeGood
  <2>1. q # p /\ job'[q] = job[q]
    BY <1>7, <1>8
  <2>2. Good(Made(job[q]), job[q].used, slack + job[q].slack, job[q].known, Present)
    BY <1>9, <1>12, <2>1 DEF IInv, MadeGood
  <2>3. Present \in Moments /\ job[q].used \in Int /\ job[q].slack \in Int
    BY PresentIs, JobFields DEF IInv
  <2>4. /\ slack + job[q].slack \in Int /\ slack' + job[q].slack \in Int
        /\ slack + job[q].slack <= slack' + job[q].slack
    BY <1>3, <1>9, <2>3
  <2>5. Good(Made(job[q]), job[q].used, slack' + job[q].slack, job[q].known, Present)
    BY <2>2, <2>3, <2>4, GoodMore
  <2> QED
    BY <1>12, <2>1, <2>5
<1> QED
  BY <1>10, <1>11, <1>13, <1>14, FewerPoints DEF IInv

LEMMA ChangeGood ==
    ASSUME IInv, Change
    PROVE  Spanned' /\ Metered' /\ RowGood' /\ MadeGood'
<1>1. /\ changes' = changes + 1
      /\ UNCHANGED <<now, service, row, job, used, metered, slack, known, mixed>>
  BY DEF Change
<1>2. changes \in Nat /\ changes' # 0 /\ known \in Nat /\ known <= changes
  BY <1>1, StateTypes DEF IInv, Metered
<1>3. Points' = Points
  BY <1>1 DEF Points
<1>4. Metered'
  <2>1. \A q \in Procs : job[q].known \in Nat /\ job[q].known <= changes
    BY JobFields DEF IInv, Metered
  <2> QED
    BY <1>1, <1>2, <2>1 DEF IInv, Metered
<1>5. Present'.changes = changes + 1 /\ (Claimed' => Claimed)
  BY <1>1, <1>2 DEF Present, Claimed
<1>6. RowGood'
  <2> SUFFICES ASSUME Claimed', ~mixed', row' # None
               PROVE  Good(row', metered', slack', known', Present')
    BY DEF RowGood
  <2>1. Good(row, metered, slack, known, Present)
    BY <1>1, <1>5 DEF IInv, RowGood
  <2> QED
    BY <1>1, <1>2, <1>5, <2>1, GoodChange
<1>7. MadeGood'
  <2> SUFFICES ASSUME NEW q \in Procs, job'[q].pc = "read", ~Dies(job'[q]), Claimed', ~mixed'
               PROVE  Good(Made(job'[q]), job'[q].used, slack' + job'[q].slack, job'[q].known,
                           Present')
    BY DEF MadeGood
  <2>1. Good(Made(job[q]), job[q].used, slack + job[q].slack, job[q].known, Present)
    BY <1>1, <1>5 DEF IInv, MadeGood
  <2>2. job[q].known \in Nat /\ job[q].known <= changes
    BY JobFields DEF IInv, Metered
  <2> QED
    BY <1>1, <1>2, <1>5, <2>1, <2>2, GoodChange
<1> QED
  BY <1>3, <1>4, <1>6, <1>7 DEF IInv, Spanned

LEMMA TickGood ==
    ASSUME IInv, Tick
    PROVE  Spanned' /\ Metered' /\ RowGood' /\ MadeGood'
<1>1. /\ now' = now + 1 /\ used' = used + amount
      /\ UNCHANGED <<service, amount, row, job, metered, slack, changes, known, mixed>>
  BY DEF Tick
<1>2. /\ now \in Nat /\ used \in Nat /\ amount \in Nat /\ amount <= MaxAmount /\ MaxAmount \in Nat
      /\ metered \in Nat /\ slack \in Int
  BY StateTypes, BillingAssumption DEF IInv
<1>3. Spanned'
  <2> DEFINE x == <<now, used>>
             y == <<now', used'>>
  <2>1. Points' \subseteq Points \cup {y}
    BY <1>1 DEF Points
  <2>2. \A z \in Points : z[1] \in Int /\ z[2] \in Int /\ z[1] <= now
    <3>1. \A q \in Procs : job[q].at \in Nat /\ job[q].used \in Nat /\ job[q].at <= now
      BY JobFields, BillingAssumption DEF IInv
    <3>2. row # None => row.time \in Nat /\ row.time <= now
      BY StateTypes, BillingAssumption DEF IInv, Dated, Metered
    <3> QED
      BY <1>2, <3>1, <3>2 DEF Points
  <2>3. x \in Points
    BY DEF Points
  <2>4. ASSUME NEW z \in Points PROVE Span(z, y) /\ Span(y, z)
    <3>1. z[1] \in Int /\ z[2] \in Int /\ z[1] <= now
      BY <2>2
    <3>2. Span(z, x)
      BY <2>3 DEF IInv, Spanned
    <3>3. z[2] <= used /\ used - z[2] <= MaxAmount * (now - z[1])
      BY <3>1, <3>2 DEF Span
    <3>4. MaxAmount * (now' - z[1]) = MaxAmount * (now - z[1]) + MaxAmount
      <4> DEFINE g == now - z[1]
      <4>1. g \in Int /\ now' - z[1] = g + 1
        BY <1>1, <1>2, <3>1
      <4> HIDE DEF g
      <4>2. MaxAmount * (g + 1) = MaxAmount * g + MaxAmount
        BY <1>2, <4>1
      <4> QED
        BY <4>1, <4>2 DEF g
    <3>5. MaxAmount * (now - z[1]) \in Int
      BY <1>2, <3>1
    <3>6. Span(z, y)
      BY <1>1, <1>2, <3>1, <3>3, <3>4, <3>5 DEF Span
    <3>7. Span(y, z)
      BY <1>1, <1>2, <3>1 DEF Span
    <3> QED
      BY <3>6, <3>7
  <2>5. Span(y, y)
    <3>1. MaxAmount * (now' - now') = 0 /\ used' - used' = 0 /\ used' <= used'
      BY <1>1, <1>2
    <3> QED
      BY <3>1 DEF Span
  <2> HIDE DEF x, y
  <2> QED
    BY <2>1, <2>4, <2>5 DEF IInv, Spanned
<1>4. Metered'
  <2>1. changes = 0 => used' = amount * now'
    <3>1. amount * (now + 1) = amount * now + amount
      BY <1>2
    <3> QED
      BY <1>1, <3>1 DEF IInv, Metered
  <2>2. row # None => row.time <= now'
    <3>1. row # None => row.time \in Nat /\ row.time <= now
      BY StateTypes, BillingAssumption DEF IInv, Dated, Metered
    <3> QED
      BY <1>1, <1>2, <3>1
  <2> QED
    BY <1>1, <2>1, <2>2 DEF IInv, Metered
<1>5. /\ Present \in Moments /\ Present' \in Moments
      /\ Present'.at = Present.at + 1 /\ Present'.used = Present.used + Present.amount
      /\ Present'.amount = Present.amount /\ Present'.changes = Present.changes
  <2>1. now' \in Nat /\ used' \in Nat /\ amount \in 0 .. MaxAmount /\ changes \in Nat
    BY <1>1, <1>2, StateTypes DEF IInv
  <2> QED
    BY <1>1, <1>2, <2>1 DEF Present, Moments
<1>6. RowGood'
  <2> SUFFICES ASSUME Claimed', ~mixed', row' # None
               PROVE  Good(row', metered', slack', known', Present')
    BY DEF RowGood
  <2>1. Good(row, metered, slack, known, Present)
    BY <1>1 DEF IInv, RowGood, Claimed
  <2> QED
    BY <1>1, <1>2, <1>5, <2>1, GoodTick
<1>7. MadeGood'
  <2> SUFFICES ASSUME NEW q \in Procs, job'[q].pc = "read", ~Dies(job'[q]), Claimed', ~mixed'
               PROVE  Good(Made(job'[q]), job'[q].used, slack' + job'[q].slack, job'[q].known,
                           Present')
    BY DEF MadeGood
  <2>1. Good(Made(job[q]), job[q].used, slack + job[q].slack, job[q].known, Present)
    BY <1>1 DEF IInv, MadeGood, Claimed
  <2>2. job[q].used \in Int /\ slack + job[q].slack \in Int
    BY <1>2, JobFields DEF IInv
  <2> QED
    BY <1>1, <1>5, <2>1, <2>2, GoodTick
<1> QED
  BY <1>3, <1>4, <1>6, <1>7

LEMMA StepGood == IInv /\ [Next]_vars => IInv'
<1> SUFFICES ASSUME IInv, [Next]_vars PROVE IInv'
  OBVIOUS
<1>1. TypeInv'
  BY TypeStep DEF IInv
<1>2. CASE UNCHANGED vars
  BY <1>1, <1>2 DEF vars, historyVars, IInv, Spanned, Points, Metered, RowGood, MadeGood, Claimed,
     Present
<1>3. CASE Next
  BY <1>1, <1>3, BeginGood, ReadKeeps, WriteGood, ChangeGood, TickGood DEF Next, IInv
<1> QED
  BY <1>2, <1>3

LEMMA GoodIsAccurate ==
    ASSUME IInv, row # None, Claimed, ~mixed
    PROVE  Accurate
<1>1. Near(row.avg, row.time, metered, slack) /\ row.avg \in Fractions /\ row.time \in Int
  BY GoodFields DEF IInv, RowGood, Good
<1>2. metered \in Int /\ slack \in Int
  BY StateTypes DEF IInv
<1> DEFINE a == row.avg[1]
           b == row.avg[2]
           t == row.time
<1>3. a \in Int /\ b \in Int
  BY <1>1 DEF Fractions
<1>4. 0 * (t - t) * b = 0
  BY <1>1, <1>3
<1>5. (metered - slack) * b <= a * t + 0 * (t - t) * b
      /\ a * t + 0 * (t - t) * b <= (metered + slack) * b
  BY <1>1 DEF Near, Est
<1>6. /\ (metered - slack) * b = metered * b - slack * b
      /\ (metered + slack) * b = metered * b + slack * b
      /\ a * t \in Int /\ metered * b \in Int /\ slack * b \in Int
  BY <1>1, <1>2, <1>3
<1>7. -(slack * b) <= a * t - metered * b /\ a * t - metered * b <= slack * b
  BY <1>4, <1>5, <1>6
<1>8. Abs(a * t - metered * b) <= slack * b
  BY <1>6, <1>7 DEF Abs
<1> QED
  BY <1>8 DEF Accurate

\* Images are billed for the time they were there, up to what changed between two updates,
\* unless two updates overlap; and so are servers that do not change.
THEOREM ImagesBilled == Spec => []BilledAsUsed
<1>1. IInv => BilledAsUsed
  BY GoodIsAccurate DEF BilledAsUsed, Accurate, Claimed
<1> QED
  BY <1>1, InitGood, StepGood, PTL DEF Spec

=============================================================================
