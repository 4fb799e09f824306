-------------------------- MODULE ValuationProofs --------------------------
(***************************************************************************)
(* What the engine computes for all inputs: any dates, rents, rates and    *)
(* tenants.                                                                *)
(***************************************************************************)
EXTENDS Valuation, RecursionProofs

-----------------------------------------------------------------------------
(* Powers. *)

IsPower(p, b, n) == p = [k \in 0..n |-> IF k = 0 THEN 1 ELSE b * p[k - 1]]

LEMMA IsPowerEquation ==
    ASSUME NEW p, NEW b, NEW n \in Nat, IsPower(p, b, n), NEW k \in 0..n
    PROVE  p[k] = IF k = 0 THEN 1 ELSE b * p[k - 1]
<1> DEFINE h == [j \in 0..n |-> IF j = 0 THEN 1 ELSE b * p[j - 1]]
<1>1. p = h
  BY DEF IsPower
<1>2. h[k] = IF k = 0 THEN 1 ELSE b * p[k - 1]
  OBVIOUS
<1> HIDE DEF h
<1> QED
  BY <1>1, <1>2

LEMMA IsPowerUnique ==
    ASSUME NEW b, NEW n \in Nat, NEW m \in Nat, NEW p, NEW q,
           IsPower(p, b, n), IsPower(q, b, m), NEW k \in Nat, k <= n, k <= m
    PROVE  p[k] = q[k]
<1> DEFINE B == {j \in Nat : j <= n /\ j <= m /\ p[j] # q[j]}
<1> SUFFICES ASSUME p[k] # q[k] PROVE FALSE
  OBVIOUS
<1>1. B # {} /\ B \in SUBSET Nat
  <2>1. k \in B /\ B \in SUBSET Nat
    OBVIOUS
  <2> HIDE DEF B
  <2> QED
    BY <2>1
<1>2. PICK j \in B : \A i \in B : j <= i
  <2> HIDE DEF B
  <2> QED
    BY <1>1, LeastNumber
<1>3. j \in 0..n /\ j \in 0..m
  OBVIOUS
<1>4. p[j] = IF j = 0 THEN 1 ELSE b * p[j - 1]
  BY <1>3, IsPowerEquation
<1>5. q[j] = IF j = 0 THEN 1 ELSE b * q[j - 1]
  BY <1>3, IsPowerEquation
<1>6. j # 0 => p[j - 1] = q[j - 1]
  <2> SUFFICES ASSUME j # 0 PROVE p[j - 1] = q[j - 1]
    OBVIOUS
  <2>1. j - 1 \in Nat /\ j - 1 <= n /\ j - 1 <= m /\ ~(j <= j - 1)
    OBVIOUS
  <2>2. j - 1 \notin B
    <3> HIDE DEF B
    <3> QED
      BY <1>2, <2>1
  <2> QED
    BY <2>1, <2>2
<1> QED
  BY <1>4, <1>5, <1>6

LEMMA IsPowerExists == ASSUME NEW b, NEW n \in Nat PROVE \E p : IsPower(p, b, n)
<1> DEFINE B == {m \in Nat : ~(\E p : IsPower(p, b, m))}
<1> SUFFICES ASSUME ~(\E p : IsPower(p, b, n)) PROVE FALSE
  OBVIOUS
<1>1. B # {} /\ B \in SUBSET Nat
  <2>1. n \in B /\ B \in SUBSET Nat
    OBVIOUS
  <2> HIDE DEF B
  <2> QED
    BY <2>1
<1>2. PICK m \in B : \A i \in B : m <= i
  <2> HIDE DEF B
  <2> QED
    BY <1>1, LeastNumber
<1>3. m # 0
  <2> SUFFICES ASSUME m = 0 PROVE FALSE
    OBVIOUS
  <2> DEFINE z == [k \in 0..0 |-> 1]
  <2>1. z = [k \in 0..0 |-> IF k = 0 THEN 1 ELSE b * z[k - 1]]
    OBVIOUS
  <2>2. IsPower(z, b, 0)
    BY <2>1 DEF IsPower
  <2>3. \E p : IsPower(p, b, 0)
    BY <2>2
  <2> QED
    BY <2>3
<1>4. PICK q : IsPower(q, b, m - 1)
  <2>1. m - 1 \in Nat /\ ~(m <= m - 1)
    BY <1>3
  <2>2. m - 1 \notin B
    <3> HIDE DEF B
    <3> QED
      BY <1>2, <2>1
  <2> QED
    BY <2>1, <2>2
<1> DEFINE p == [k \in 0..m |-> IF k = m THEN b * q[m - 1] ELSE q[k]]
           h == [k \in 0..m |-> IF k = 0 THEN 1 ELSE b * p[k - 1]]
<1>5. m - 1 \in Nat
  BY <1>3
<1>6. ASSUME NEW k \in 0..m PROVE p[k] = h[k]
  <2>1. h[k] = IF k = 0 THEN 1 ELSE b * p[k - 1]
    OBVIOUS
  <2>2. CASE k = m
    <3>1. p[k - 1] = q[m - 1]
      BY <1>5, <2>2
    <3>2. p[k] = b * q[m - 1]
      BY <2>2
    <3> HIDE DEF p, h
    <3> QED
      BY <1>3, <2>1, <2>2, <3>1, <3>2
  <2>3. CASE k # m
    <3>1. k \in 0..(m - 1)
      BY <2>3
    <3>2. q[k] = IF k = 0 THEN 1 ELSE b * q[k - 1]
      BY <1>4, <1>5, <3>1, IsPowerEquation
    <3>3. p[k] = q[k]
      BY <2>3
    <3>4. k # 0 => p[k - 1] = q[k - 1]
      BY <3>1
    <3> HIDE DEF p, h
    <3> QED
      BY <2>1, <3>2, <3>3, <3>4
  <2> QED
    BY <2>2, <2>3
<1>7. p = h
  <2>1. p = [k \in 0..m |-> p[k]] /\ h = [k \in 0..m |-> h[k]]
    OBVIOUS
  <2> HIDE DEF p, h
  <2> QED
    BY <1>6, <2>1
<1>8. IsPower(p, b, m)
  BY <1>7 DEF IsPower
<1>9. \E r : IsPower(r, b, m)
  <2> HIDE DEF p
  <2> QED
    BY <1>8
<1> QED
  BY <1>9

\* The two equations of a power.
LEMMA PowerSteps ==
    ASSUME NEW b, NEW n \in Nat
    PROVE  /\ Power(b, 0) = 1
           /\ Power(b, n + 1) = b * Power(b, n)
<1> DEFINE f(m) == CHOOSE p : p = [k \in 0..m |-> IF k = 0 THEN 1 ELSE b * p[k - 1]]
<1>1. ASSUME NEW m \in Nat PROVE Power(b, m) = f(m)[m] /\ IsPower(f(m), b, m)
  <2>1. Power(b, m) = f(m)[m]
    BY DEF Power
  <2>2. \E p : IsPower(p, b, m)
    BY IsPowerExists
  <2>3. IsPower(f(m), b, m)
    BY <2>2 DEF IsPower
  <2> QED
    BY <2>1, <2>3
<1> HIDE DEF f
<1>2. 0 \in Nat /\ n + 1 \in Nat
  OBVIOUS
<1>3. f(0)[0] = 1
  BY <1>1, <1>2, IsPowerEquation
<1>4. f(n + 1)[n + 1] = b * f(n + 1)[n]
  <2>1. n + 1 \in 0..(n + 1) /\ n + 1 # 0 /\ (n + 1) - 1 = n
    OBVIOUS
  <2>2. IsPower(f(n + 1), b, n + 1)
    BY <1>1, <1>2
  <2> DEFINE g == f(n + 1)
             m == n + 1
  <2>3. g[m] = IF m = 0 THEN 1 ELSE b * g[m - 1]
    <3>1. IsPower(g, b, m) /\ m \in Nat /\ m \in 0..m
      BY <2>2
    <3> HIDE DEF g, m
    <3> QED
      BY <3>1, IsPowerEquation
  <2> QED
    BY <2>1, <2>3
<1>5. f(n + 1)[n] = f(n)[n]
  <2>1. IsPower(f(n + 1), b, n + 1) /\ IsPower(f(n), b, n)
    BY <1>1, <1>2
  <2>2. n <= n + 1 /\ n <= n
    OBVIOUS
  <2> QED
    BY <1>2, <2>1, <2>2, IsPowerUnique
<1>6. Power(b, 0) = f(0)[0] /\ Power(b, n) = f(n)[n] /\ Power(b, n + 1) = f(n + 1)[n + 1]
  BY <1>1, <1>2
<1> QED
  BY <1>3, <1>4, <1>5, <1>6

\* A power of a natural is a natural, and of a positive number positive.
LEMMA PowerNat ==
    ASSUME NEW b \in Nat, NEW n \in Nat
    PROVE  Power(b, n) \in Nat /\ (b # 0 => Power(b, n) # 0)
<1> DEFINE Claim == {m \in Nat : Power(b, m) \in Nat /\ (b # 0 => Power(b, m) # 0)}
<1>1. 0 \in Claim
  BY PowerSteps
<1>2. ASSUME NEW m \in Nat, m \in Claim PROVE m + 1 \in Claim
  <2>1. Power(b, m + 1) = b * Power(b, m)
    BY PowerSteps
  <2>2. \A x, y \in Nat : x * y \in Nat /\ (x # 0 /\ y # 0 => x * y # 0)
    OBVIOUS
  <2>3. m + 1 \in Nat /\ Power(b, m) \in Nat /\ (b # 0 => Power(b, m) # 0)
    BY <1>2
  <2>4. Power(b, m + 1) \in Nat /\ (b # 0 => Power(b, m + 1) # 0)
    BY <2>1, <2>2, <2>3
  <2> QED
    BY <2>3, <2>4
<1>3. \A m \in Nat : m \in Claim
  <2> HIDE DEF Claim
  <2> QED
    BY <1>1, <1>2, AllNumbers
<1> QED
  BY <1>3

LEMMA TimesMonotonic ==
    ASSUME NEW a \in Nat, NEW b \in Nat, NEW c \in Nat, NEW d \in Nat, a <= b, c <= d
    PROVE  a * c <= b * d /\ a * c \in Nat /\ b * d \in Nat
<1>1. a * c <= b * c
  OBVIOUS
<1>2. b * c <= b * d
  OBVIOUS
<1>3. a * c \in Nat /\ b * c \in Nat /\ b * d \in Nat
  OBVIOUS
<1> QED
  BY <1>1, <1>2, <1>3

\* A larger base has the larger power.
LEMMA PowerMonotonic ==
    ASSUME NEW a \in Nat, NEW b \in Nat, a <= b, NEW n \in Nat
    PROVE  Power(a, n) <= Power(b, n)
<1> DEFINE Claim == {m \in Nat : Power(a, m) <= Power(b, m)}
<1>1. 0 \in Claim
  BY PowerSteps
<1>2. ASSUME NEW m \in Nat, m \in Claim PROVE m + 1 \in Claim
  <2>1. Power(a, m + 1) = a * Power(a, m) /\ Power(b, m + 1) = b * Power(b, m)
    BY PowerSteps
  <2>2. Power(a, m) \in Nat /\ Power(b, m) \in Nat /\ Power(a, m) <= Power(b, m)
    BY <1>2, PowerNat
  <2>3. a * Power(a, m) <= b * Power(b, m)
    BY <2>2, TimesMonotonic
  <2> QED
    BY <2>1, <2>3
<1>3. \A m \in Nat : m \in Claim
  <2> HIDE DEF Claim
  <2> QED
    BY <1>1, <1>2, AllNumbers
<1> QED
  BY <1>3

\* With every cycle a factor u becomes the factor b, which is not smaller.
LEMMA CyclesRaise ==
    ASSUME NEW u \in Nat, NEW b \in Nat, u <= b, NEW m \in Nat, NEW c \in Nat, NEW d \in Nat,
           c <= d, d <= m
    PROVE  Power(b, c) * Power(u, m - c) <= Power(b, d) * Power(u, m - d)
<1> DEFINE F(e) == Power(b, e) * Power(u, m - e)
           Claim == {e \in Nat : c + e <= m => F(c) <= F(c + e)}
<1>0. ASSUME NEW e \in Nat, e <= m PROVE F(e) \in Nat
  <2>1. m - e \in Nat
    BY <1>0
  <2>2. Power(b, e) \in Nat /\ Power(u, m - e) \in Nat
    BY <2>1, PowerNat
  <2> QED
    BY <2>2
<1>1. 0 \in Claim
  <2>1. c + 0 = c /\ F(c) \in Nat
    BY <1>0
  <2>2. F(c) <= F(c + 0)
    <3> HIDE DEF F
    <3> QED
      BY <2>1
  <2> QED
    BY <2>2
<1>2. ASSUME NEW e \in Nat, e \in Claim PROVE e + 1 \in Claim
  <2> SUFFICES ASSUME c + (e + 1) <= m PROVE F(c) <= F(c + (e + 1))
    OBVIOUS
  <2> DEFINE k == c + e
             r == m - (k + 1)
  <2>1. k \in Nat /\ r \in Nat /\ m - k = r + 1 /\ k <= m /\ k + 1 <= m /\ c + (e + 1) = k + 1
    OBVIOUS
  <2>2. F(c) <= F(k)
    BY <1>2, <2>1
  <2>3. F(k) = Power(b, k) * Power(u, r + 1) /\ F(k + 1) = Power(b, k + 1) * Power(u, r)
    BY <2>1
  <2>4. Power(u, r + 1) = u * Power(u, r) /\ Power(b, k + 1) = b * Power(b, k)
    <3> HIDE DEF k, r
    <3> QED
      BY <2>1, PowerSteps
  <2>5. Power(b, k) \in Nat /\ Power(u, r) \in Nat
    <3> HIDE DEF k, r
    <3> QED
      BY <2>1, PowerNat
  <2>6. \A x, y \in Nat : x * (u * y) <= (b * x) * y
    <3> SUFFICES ASSUME NEW x \in Nat, NEW y \in Nat PROVE x * (u * y) <= (b * x) * y
      OBVIOUS
    <3>1. x * (u * y) = u * (x * y) /\ (b * x) * y = b * (x * y)
      OBVIOUS
    <3>2. x * y \in Nat /\ x * y <= x * y
      OBVIOUS
    <3> DEFINE z == x * y
    <3> HIDE DEF z
    <3>3. u * z <= b * z
      BY <3>2, TimesMonotonic DEF z
    <3> QED
      BY <3>1, <3>3 DEF z
  <2>7. F(k) <= F(k + 1)
    <3> HIDE DEF F, k, r
    <3> QED
      BY <2>3, <2>4, <2>5, <2>6
  <2>8. F(c) \in Nat /\ F(k) \in Nat /\ F(k + 1) \in Nat
    <3> HIDE DEF F, k
    <3> QED
      BY <1>0, <2>1
  <2>9. F(c + (e + 1)) = F(k + 1)
    BY <2>1
  <2> HIDE DEF F, k
  <2> QED
    BY <2>2, <2>7, <2>8, <2>9
<1>3. \A e \in Nat : e \in Claim
  <2> HIDE DEF Claim
  <2> QED
    BY <1>1, <1>2, AllNumbers
<1>4. d - c \in Nat /\ c + (d - c) = d
  OBVIOUS
<1>5. F(c) <= F(c + (d - c))
  BY <1>3, <1>4
<1> QED
  BY <1>4, <1>5

-----------------------------------------------------------------------------
(* Escalation. *)

\* A rent has escalated more than k times exactly when the k-th anniversary
\* has come: in the year of the anniversary month and day decide, and where 29
\* February stands for 1 March no date of that year lies between the two.
LEMMA CyclesCountAnniversaries ==
    ASSUME NEW next \in Dates, NEW date \in Dates, NEW k \in Nat
    PROVE  Cycles(next, date) > k <=> ~Before(date, Anniversary(next, k))
<1>1. /\ next.y \in Nat /\ next.m \in 1..12 /\ next.d \in 1..31
      /\ date.y \in Nat /\ date.m \in 1..12 /\ date.d \in 1..31
      /\ date.m = 2 /\ date.d = 29 => IsLeap(date.y)
      /\ date.m = 2 => date.d <= 29
  BY CalendarAssumption DEF IsDate, DaysIn
<1>2. next # None
  BY CalendarAssumption
<1> DEFINE same == [y |-> next.y + k, m |-> next.m, d |-> next.d]
<1>3. Cycles(next, date) > k <=> ~Before(date, same)
  BY <1>1, <1>2 DEF Cycles, Before, MonthDayBefore
<1>4. CASE next.m = 2 /\ next.d = 29 /\ ~IsLeap(next.y + k)
  <2>1. Anniversary(next, k) = [y |-> next.y + k, m |-> 3, d |-> 1]
    BY <1>4 DEF Anniversary
  <2>2. ~(date.y = next.y + k /\ date.m = 2 /\ date.d = 29)
    BY <1>1, <1>4
  <2>3. Before(date, same) <=> Before(date, Anniversary(next, k))
    BY <1>1, <1>4, <2>1, <2>2 DEF Before, MonthDayBefore
  <2> QED
    BY <1>3, <2>3
<1>5. CASE ~(next.m = 2 /\ next.d = 29 /\ ~IsLeap(next.y + k))
  BY <1>3, <1>5 DEF Anniversary
<1> QED
  BY <1>4, <1>5

-----------------------------------------------------------------------------
(* Rounding. *)

\* The nearest integer to a fraction, and of two the one farther from zero.
LEMMA HalfUpIsNearest ==
    ASSUME NEW n \in Int, NEW d \in Nat \ {0}
    PROVE  /\ HalfUp(n, d) \in Int
           /\ -d <= 2 * (n - HalfUp(n, d) * d) /\ 2 * (n - HalfUp(n, d) * d) <= d
           /\ 2 * (n - HalfUp(n, d) * d) = d => n < 0
           /\ 2 * (n - HalfUp(n, d) * d) = -d => n > 0
<1>1. ASSUME NEW a \in Nat
      PROVE  LET q == (2 * a + d) \div (2 * d)
             IN  q \in Int /\ 2 * d * q <= 2 * a + d /\ 2 * a + d < 2 * d * q + 2 * d
  OBVIOUS
<1>2. CASE n >= 0
  <2> DEFINE q == (2 * n + d) \div (2 * d)
  <2>1. q \in Int /\ 2 * d * q <= 2 * n + d /\ 2 * n + d < 2 * d * q + 2 * d
    BY <1>1, <1>2
  <2>2. HalfUp(n, d) = q
    BY <1>2 DEF HalfUp
  <2>3. 2 * (n - q * d) = 2 * n - 2 * d * q
    BY <2>1
  <2> HIDE DEF q
  <2> QED
    BY <1>2, <2>1, <2>2, <2>3
<1>3. CASE n < 0
  <2> DEFINE q == (2 * (-n) + d) \div (2 * d)
  <2>1. q \in Int /\ 2 * d * q <= 2 * (-n) + d /\ 2 * (-n) + d < 2 * d * q + 2 * d
    BY <1>1, <1>3
  <2>2. HalfUp(n, d) = -q
    BY <1>3 DEF HalfUp
  <2> QED
    BY <1>3, <2>1, <2>2
<1> QED
  BY <1>2, <1>3

\* The market value that _round_to_increment makes of a capitalised value.
LEMMA RoundedIsNearest ==
    ASSUME NEW v, v.num \in Int, v.den \in Nat \ {0}, NEW inc \in Nat \ {0},
           Scale \in Nat \ {0}
    PROVE  LET step == inc * Scale
               w == RoundToIncrement(v, inc)
               error == v.num - w.num * v.den
           IN  /\ w.den = 1
               /\ w.num % step = 0
               /\ -(step * v.den) <= 2 * error /\ 2 * error <= step * v.den
               /\ 2 * error = step * v.den => v.num < 0
               /\ 2 * error = -(step * v.den) => v.num > 0
<1> DEFINE step == inc * Scale
           d == v.den * inc * Scale
           h == HalfUp(v.num, d)
           w == RoundToIncrement(v, inc)
<1>1. step \in Nat \ {0}
  OBVIOUS
<1>2. d = step * v.den /\ d \in Nat \ {0}
  <2>1. d = step * v.den
    OBVIOUS
  <2>2. step * v.den \in Nat \ {0}
    BY <1>1
  <2> QED
    BY <2>1, <2>2
<1>3. /\ h \in Int
      /\ -d <= 2 * (v.num - h * d) /\ 2 * (v.num - h * d) <= d
      /\ 2 * (v.num - h * d) = d => v.num < 0
      /\ 2 * (v.num - h * d) = -d => v.num > 0
  BY <1>2, HalfUpIsNearest
<1>4. w.num = step * h /\ w.den = 1
  BY <1>3 DEF RoundToIncrement
<1>5. w.num % step = 0
  <2> HIDE DEF step, h, w
  <2> QED
    BY <1>1, <1>3, <1>4
<1>6. w.num * v.den = h * d
  <2>1. w.num * v.den = step * h * v.den
    BY <1>4
  <2> HIDE DEF step, h, w, d
  <2> QED
    BY <1>1, <1>2, <1>3, <2>1
<1> HIDE DEF step, h, w, d
<1>7. v.num - w.num * v.den = v.num - h * d
  BY <1>6
<1> QED
  BY <1>2, <1>3, <1>4, <1>5, <1>7 DEF step, w

-----------------------------------------------------------------------------
(* Income. *)

\* No rent of the document escalates more often than MaxCycles.
WithinCycles(i) == \A k \in DOMAIN i.tenants : Cycles(i.tenants[k].next, i.date) <= MaxCycles

\* The fields of a document.
LEMMA InputFields ==
    ASSUME NEW i \in ValuationInput
    PROVE  /\ i.date \in Dates /\ i.opex \in Nat /\ i.vacancy \in 0..Unit
           /\ i.cap \in Nat \ {0} /\ i.rounding \in Rounding
           /\ i.tenants \in Seq(Tenant) /\ i.tenants # << >> /\ i.parking \in Seq(Parking)
           /\ \A k \in DOMAIN i.tenants :
                 /\ i.tenants[k].area \in Nat \ {0} /\ i.tenants[k].rent \in Nat
                 /\ i.tenants[k].pct \in Nat /\ i.tenants[k].next \in Dates \cup {None}
           /\ \A k \in DOMAIN i.parking : i.parking[k].bays \in Nat /\ i.parking[k].rate \in Nat
           /\ IsFiniteSet(DOMAIN i.tenants) /\ IsFiniteSet(DOMAIN i.parking)
<1>1. /\ i.date \in Dates /\ i.opex \in Nat /\ i.vacancy \in 0..Unit
      /\ i.cap \in Nat \ {0} /\ i.rounding \in Rounding
      /\ i.tenants \in Seq(Tenant) /\ i.tenants # << >> /\ i.parking \in Seq(Parking)
  BY DEF ValuationInput
<1>2. \A k \in DOMAIN i.tenants : i.tenants[k] \in Tenant
  BY <1>1
<1>3. \A k \in DOMAIN i.parking : i.parking[k] \in Parking
  BY <1>1
<1>4. DOMAIN i.tenants = 1..Len(i.tenants) /\ DOMAIN i.parking = 1..Len(i.parking)
  BY <1>1
<1>5. Len(i.tenants) \in Nat /\ Len(i.parking) \in Nat
  BY <1>1
<1>6. IsFiniteSet(DOMAIN i.tenants) /\ IsFiniteSet(DOMAIN i.parking)
  <2>1. 1 \in Int /\ Len(i.tenants) \in Int /\ Len(i.parking) \in Int
    BY <1>5
  <2>2. IsFiniteSet(1..Len(i.tenants)) /\ IsFiniteSet(1..Len(i.parking))
    BY <2>1, FS_Interval, Zenon
  <2> QED
    BY <1>4, <2>2
<1> QED
  BY <1>1, <1>2, <1>3, <1>6 DEF Tenant, Parking

\* The number of cycles is a number; later it is not less.
LEMMA CyclesGrow ==
    ASSUME NEW next \in Dates \cup {None}, NEW date \in Dates, NEW later \in Dates,
           ~Before(later, date)
    PROVE  /\ Cycles(next, date) \in Nat /\ Cycles(next, later) \in Nat
           /\ Cycles(next, date) <= Cycles(next, later)
<1>1. \A d \in Dates : d.y \in Nat /\ d.m \in 1..12 /\ d.d \in 1..31
  BY CalendarAssumption DEF IsDate, DaysIn
<1>2. CASE next = None
  BY <1>2 DEF Cycles
<1>3. CASE next \in Dates
  <2>1. /\ next.y \in Nat /\ next.m \in 1..12 /\ next.d \in 1..31
        /\ date.y \in Nat /\ date.m \in 1..12 /\ date.d \in 1..31
        /\ later.y \in Nat /\ later.m \in 1..12 /\ later.d \in 1..31
    BY <1>1, <1>3
  <2> QED
    BY <2>1 DEF Cycles, Before, MonthDayBefore
<1> QED
  BY <1>2, <1>3

\* What MaxCycles bounds.
LEMMA InputsWithinCycles == ASSUME NEW i \in Inputs PROVE WithinCycles(i)
<1> SUFFICES ASSUME NEW k \in DOMAIN i.tenants
             PROVE  Cycles(i.tenants[k].next, i.date) <= MaxCycles
  BY DEF WithinCycles
<1> DEFINE next == i.tenants[k].next
<1>1. next \in Dates \cup {None} /\ i.date \in Dates
  BY InputsAssumption, InputFields
<1>2. next # None => i.date.y - next.y < MaxCycles
  BY CyclesAssumption
<1>3. \A d \in Dates : d.y \in Nat
  BY CalendarAssumption DEF IsDate
<1> HIDE DEF next
<1>4. Cycles(next, i.date) <= MaxCycles
  BY <1>1, <1>2, <1>3, BoundAssumption DEF Cycles
<1> QED
  BY <1>4 DEF next

LEMMA ScalePositive ==
    Compound \in Nat \ {0} /\ Finer \in Nat \ {0} /\ Scale \in Nat \ {0}
<1>1. Unit \in Nat \ {0} /\ Compound \in Nat \ {0}
  BY BoundAssumption, PowerNat DEF Compound
<1>2. \A x, y \in Nat \ {0} : x * y \in Nat \ {0}
  OBVIOUS
<1>3. Finer \in Nat \ {0}
  BY <1>1, <1>2 DEF Finer
<1>4. Scale \in Nat \ {0}
  BY <1>1, <1>2, <1>3 DEF Scale
<1> QED
  BY <1>1, <1>3, <1>4

\* An escalated rent is a number.
LEMMA EffectiveRentNat ==
    ASSUME NEW t, t.rent \in Nat, t.pct \in Nat, NEW date,
           Cycles(t.next, date) \in 0..MaxCycles
    PROVE  EffectiveRent(t, date) \in Nat
<1> DEFINE c == Cycles(t.next, date)
<1>1. c \in Nat /\ MaxCycles - c \in Nat /\ Unit + t.pct \in Nat /\ Unit \in Nat
  BY BoundAssumption
<1>2. Power(Unit + t.pct, c) \in Nat /\ Power(Unit, MaxCycles - c) \in Nat
  <2> HIDE DEF c
  <2> QED
    BY <1>1, PowerNat
<1>3. Power(Unit + t.pct, c) * Power(Unit, MaxCycles - c) \in Nat
  BY <1>2
<1> DEFINE factor == Power(Unit + t.pct, c) * Power(Unit, MaxCycles - c)
<1>4. EffectiveRent(t, date) = t.rent * factor
  BY DEF EffectiveRent
<1> HIDE DEF factor
<1> QED
  BY <1>3, <1>4 DEF factor

RentLines(i) ==
    [k \in DOMAIN i.tenants |-> EffectiveRent(i.tenants[k], i.date) * i.tenants[k].area]
ParkingLines(i) == [k \in DOMAIN i.parking |-> i.parking[k].bays * i.parking[k].rate]

\* What adds up to the income.
LEMMA IncomeParts ==
    ASSUME NEW i \in ValuationInput, WithinCycles(i)
    PROVE  /\ \A k \in DOMAIN i.tenants : /\ EffectiveRent(i.tenants[k], i.date) \in Nat
                                           /\ RentLines(i)[k] \in Nat
           /\ \A k \in DOMAIN i.parking : ParkingLines(i)[k] \in Nat
           /\ SumFunctionOnSet(RentLines(i), DOMAIN i.tenants) \in Nat
           /\ SumFunctionOnSet(ParkingLines(i), DOMAIN i.parking) \in Nat
           /\ MonthlyIncome(i) = SumFunctionOnSet(RentLines(i), DOMAIN i.tenants)
                                   + Finer * SumFunctionOnSet(ParkingLines(i), DOMAIN i.parking)
<1>1. ASSUME NEW k \in DOMAIN i.tenants
      PROVE  EffectiveRent(i.tenants[k], i.date) \in Nat /\ RentLines(i)[k] \in Nat
  <2> DEFINE t == i.tenants[k]
  <2>1. t.rent \in Nat /\ t.pct \in Nat /\ t.area \in Nat /\ t.next \in Dates \cup {None}
        /\ i.date \in Dates
    BY InputFields
  <2>2. Cycles(t.next, i.date) \in Nat
    <3>1. ~Before(i.date, i.date)
      BY <2>1, CalendarAssumption DEF Before, MonthDayBefore, IsDate
    <3> QED
      BY <2>1, <3>1, CyclesGrow
  <2>3. Cycles(t.next, i.date) \in 0..MaxCycles
    BY <2>2, BoundAssumption DEF WithinCycles
  <2>4. EffectiveRent(t, i.date) \in Nat
    <3> HIDE DEF t
    <3> QED
      BY <2>1, <2>3, EffectiveRentNat
  <2>5. RentLines(i)[k] = EffectiveRent(t, i.date) * t.area
    BY DEF RentLines
  <2> HIDE DEF t
  <2>6. RentLines(i)[k] \in Nat
    BY <2>1, <2>4, <2>5
  <2> QED
    BY <2>4, <2>6 DEF t
<1>2. ASSUME NEW k \in DOMAIN i.parking PROVE ParkingLines(i)[k] \in Nat
  <2>1. i.parking[k].bays \in Nat /\ i.parking[k].rate \in Nat
    BY InputFields
  <2> QED
    BY <2>1 DEF ParkingLines
<1>3. IsFiniteSet(DOMAIN i.tenants) /\ IsFiniteSet(DOMAIN i.parking)
  BY InputFields
<1>4. SumFunctionOnSet(RentLines(i), DOMAIN i.tenants) \in Nat
  BY <1>1, <1>3, SumNat
<1>5. SumFunctionOnSet(ParkingLines(i), DOMAIN i.parking) \in Nat
  BY <1>2, <1>3, SumNat
<1>6. DOMAIN RentLines(i) = DOMAIN i.tenants /\ DOMAIN ParkingLines(i) = DOMAIN i.parking
  BY DEF RentLines, ParkingLines
<1>7. MonthlyIncome(i) = SumFunction(RentLines(i)) + Finer * SumFunction(ParkingLines(i))
  BY DEF MonthlyIncome, RentLines, ParkingLines
<1> QED
  BY <1>1, <1>2, <1>4, <1>5, <1>6, <1>7, SumOfAll

\* What calculate returns is made of numbers.
LEMMA AnswerTyped ==
    ASSUME NEW i \in ValuationInput, WithinCycles(i)
    PROVE  /\ MonthlyIncome(i) \in Nat /\ GrossIncome(i) \in Nat
           /\ NetIncome(i) \in Int
           /\ Capitalised(i) \in Fraction
           /\ RoundToIncrement(Capitalised(i), Increment(i.rounding)) \in Fraction
<1>1. MonthlyIncome(i) \in Nat
  BY IncomeParts, ScalePositive
<1>2. GrossIncome(i) \in Nat
  BY <1>1 DEF GrossIncome
<1>3. i.opex \in Nat /\ i.vacancy \in 0..Unit /\ i.cap \in Nat \ {0} /\ i.rounding \in Rounding
  BY InputFields
<1>4. NetIncome(i) \in Int
  <2>1. LetShare(i) \in Int /\ 12 * i.opex * Unit * Finer \in Int
    BY <1>3, ScalePositive, BoundAssumption DEF LetShare
  <2> QED
    BY <1>2, <2>1 DEF NetIncome
<1>5. Capitalised(i) \in Fraction
  BY <1>3, <1>4 DEF Capitalised, Fraction
<1> DEFINE v == Capitalised(i)
           inc == Increment(i.rounding)
<1>6. v.num \in Int /\ v.den \in Nat \ {0}
  BY <1>5 DEF Fraction
<1>7. inc \in Nat
  BY <1>3 DEF Increment, Rounding
<1>8. RoundToIncrement(v, inc) \in Fraction
  <2>1. CASE inc = 0
    BY <1>5, <2>1 DEF RoundToIncrement
  <2>2. CASE inc # 0
    <3> DEFINE step == inc * Scale
               d == v.den * inc * Scale
    <3> HIDE DEF v, inc
    <3>1. step \in Nat \ {0}
      BY <1>7, <2>2, ScalePositive
    <3>2. d = v.den * step
      BY <1>6, <1>7, ScalePositive
    <3>3. d \in Nat \ {0}
      <4> HIDE DEF step, d
      <4> QED
        BY <1>6, <3>1, <3>2
    <3>4. HalfUp(v.num, d) \in Int
      <4> HIDE DEF d
      <4> QED
        BY <1>6, <3>3, HalfUpIsNearest
    <3>5. RoundToIncrement(v, inc) = [num |-> step * HalfUp(v.num, d), den |-> 1]
      BY <2>2 DEF RoundToIncrement
    <3>6. step * HalfUp(v.num, d) \in Int
      <4> HIDE DEF step, d
      <4> QED
        BY <3>1, <3>4
    <3> QED
      BY <3>5, <3>6 DEF Fraction
  <2> QED
    BY <2>1, <2>2
<1> QED
  BY <1>1, <1>2, <1>4, <1>5, <1>8

-----------------------------------------------------------------------------
(* The endpoint. *)

\* Every answer is the engine's for the body it was sent.
Answered == inputs \in Inputs /\ result = Calculate(inputs)

\* The first answer is, and so is the next one.
LEMMA AlwaysAnswered == Spec => []Answered
<1>1. Init => Answered
  BY DEF Init, Answered
<1>2. Answered /\ [Next]_vars => Answered'
  <2> SUFFICES ASSUME Answered, [Next]_vars PROVE Answered'
    OBVIOUS
  <2>1. CASE UNCHANGED vars
    BY <2>1 DEF vars, Answered
  <2>2. CASE Next
    BY <2>2 DEF Next, PreviewCalculate, Answered
  <2> QED
    BY <2>1, <2>2
<1> QED
  BY <1>1, <1>2, PTL DEF Spec

\* For all inputs the cycles of resolve_rent are the anniversaries of its
\* comment, leap years included.
THEOREM ValuationCycles == Spec => []CyclesAreAnniversaries
<1>1. Answered => CyclesAreAnniversaries
  <2> SUFFICES ASSUME Answered, NEW t \in DOMAIN inputs.tenants, NEW k \in 0..MaxCycles
               PROVE  LET next == inputs.tenants[t].next
                      IN  result.cycles[t] > k <=>
                            next # None /\ ~Before(inputs.date, Anniversary(next, k))
    BY DEF CyclesAreAnniversaries
  <2> DEFINE next == inputs.tenants[t].next
  <2>1. inputs \in ValuationInput
    BY InputsAssumption DEF Answered
  <2>2. inputs.date \in Dates /\ next \in Dates \cup {None}
    <3>1. inputs.date \in Dates /\ inputs.tenants \in Seq(Tenant)
      BY <2>1 DEF ValuationInput
    <3>2. inputs.tenants[t] \in Tenant
      BY <3>1
    <3> QED
      BY <3>1, <3>2 DEF Tenant
  <2>3. result.cycles[t] = Cycles(next, inputs.date)
    BY DEF Answered, Calculate
  <2>4. k \in Nat
    OBVIOUS
  <2>5. CASE next = None
    BY <2>3, <2>4, <2>5 DEF Cycles
  <2>6. CASE next \in Dates
    BY <2>2, <2>3, <2>4, <2>6, CyclesCountAnniversaries, CalendarAssumption
  <2> QED
    BY <2>2, <2>5, <2>6
<1> QED
  BY <1>1, AlwaysAnswered, PTL
\* For all inputs the market value is the nearest multiple of the increment.
THEOREM ValuationNearest == Spec => []ValueIsNearest
<1>1. Answered => ValueIsNearest
  <2> SUFFICES ASSUME Answered PROVE ValueIsNearest
    OBVIOUS
  <2> DEFINE v == result.capitalised
             inc == Increment(inputs.rounding)
  <2>1. inputs \in ValuationInput /\ inputs \in Inputs
    BY InputsAssumption DEF Answered
  <2>2. v = Capitalised(inputs) /\ result.value = RoundToIncrement(v, inc)
    BY DEF Answered, Calculate
  <2>3. /\ inputs.opex \in Nat /\ inputs.vacancy \in 0..Unit
        /\ inputs.cap \in Nat \ {0} /\ inputs.rounding \in Rounding
    BY <2>1 DEF ValuationInput
  <2>4. NetIncome(inputs) \in Int
    BY <2>1, InputsWithinCycles, AnswerTyped
  <2>5. v.num \in Int /\ v.den \in Nat \ {0}
    BY <2>2, <2>3, <2>4 DEF Capitalised
  <2>6. inc \in Nat
    BY <2>3 DEF Increment, Rounding
  <2>7. CASE inc = 0
    <3>1. Increment(inputs.rounding) * Scale = 0
      BY <2>7, ScalePositive
    <3> QED
      BY <2>2, <2>7, <3>1 DEF ValueIsNearest, RoundToIncrement
  <2>8. CASE inc # 0
    <3>1. inc * Scale # 0
      BY <2>6, <2>8, ScalePositive
    <3> HIDE DEF v, inc
    <3> QED
      BY <2>2, <2>5, <2>6, <2>8, <3>1, ScalePositive, RoundedIsNearest DEF ValueIsNearest, v, inc
  <2> QED
    BY <2>7, <2>8
<1> QED
  BY <1>1, AlwaysAnswered, PTL

\* Whatever the inputs, the answer has its shape: rents, parking and powers of
\* rates add up and multiply to numbers, and no rent escalates a negative
\* number of times.
THEOREM ValuationTyping == Spec => []TypeOK
<1>1. Answered => TypeOK
  <2> SUFFICES ASSUME Answered PROVE TypeOK
    OBVIOUS
  <2>1. inputs \in Inputs /\ inputs \in ValuationInput /\ WithinCycles(inputs)
    BY InputsAssumption, InputsWithinCycles DEF Answered
  <2>2. /\ result.cycles = [k \in DOMAIN inputs.tenants |-> Cycles(inputs.tenants[k].next, inputs.date)]
        /\ result.income = GrossIncome(inputs)
        /\ result.capitalised = Capitalised(inputs)
        /\ result.value = RoundToIncrement(Capitalised(inputs), Increment(inputs.rounding))
    BY DEF Answered, Calculate
  <2>3. ASSUME NEW k \in DOMAIN inputs.tenants PROVE result.cycles[k] \in 0..MaxCycles
    <3>1. inputs.tenants[k].next \in Dates \cup {None} /\ inputs.date \in Dates
      BY <2>1, InputFields
    <3>2. ~Before(inputs.date, inputs.date)
      BY <3>1, CalendarAssumption DEF Before, MonthDayBefore, IsDate
    <3>3. Cycles(inputs.tenants[k].next, inputs.date) \in Nat
      BY <3>1, <3>2, CyclesGrow
    <3> QED
      BY <2>1, <2>2, <3>3, BoundAssumption DEF WithinCycles
  <2>4. result.income \in Nat /\ result.capitalised \in Fraction /\ result.value \in Fraction
    BY <2>1, <2>2, AnswerTyped
  <2> QED
    BY <2>1, <2>2, <2>3, <2>4 DEF TypeOK
<1> QED
  BY <1>1, AlwaysAnswered, PTL

\* For all inputs: where calculate and detect_warnings mean the same income,
\* their two sums of the rents, one with every escalation factor in it and one
\* without any, are the same number.
THEOREM ValuationBandOfIncome == Spec => []OpexBandIsOfIncome
<1>1. Answered => OpexBandIsOfIncome
  <2> SUFFICES ASSUME Answered,
                      inputs.parking = << >>,
                      \A t \in DOMAIN result.cycles : result.cycles[t] = 0,
                      inputs.opex > 0, result.income > 0
               PROVE  [code |-> "opex_unusual_pct", tenant |-> 0] \in result.warnings
                        <=> OutsideBand(12 * inputs.opex * Finer, result.income)
    BY DEF OpexBandIsOfIncome
  <2> DEFINE i == inputs
             S == DOMAIN i.tenants
             plain == [k \in S |-> i.tenants[k].rent * i.tenants[k].area]
  <2>1. i \in Inputs /\ i \in ValuationInput /\ WithinCycles(i)
    BY InputsAssumption, InputsWithinCycles DEF Answered
  <2>2. IsFiniteSet(S) /\ Compound \in Nat \ {0} /\ Finer \in Nat /\ i.opex \in Nat /\ Unit \in Nat
    BY <2>1, InputFields, ScalePositive, BoundAssumption
  <2>3. ASSUME NEW k \in S PROVE plain[k] \in Int /\ plain[k] \in Nat /\ RentLines(i)[k] = Compound * plain[k]
    <3> DEFINE t == i.tenants[k]
    <3>1. t.rent \in Nat /\ t.area \in Nat /\ t.pct \in Nat
      BY <2>1, InputFields
    <3>2. Cycles(t.next, i.date) = 0
      BY DEF Answered, Calculate
    <3>3. EffectiveRent(t, i.date) = t.rent * (Power(Unit + t.pct, 0) * Power(Unit, MaxCycles - 0))
      BY <3>2 DEF EffectiveRent
    <3>4. Power(Unit + t.pct, 0) = 1 /\ MaxCycles - 0 = MaxCycles
      BY PowerSteps, BoundAssumption
    <3>5. EffectiveRent(t, i.date) = t.rent * Compound
      BY <2>2, <3>1, <3>3, <3>4 DEF Compound
    <3>6. plain[k] = t.rent * t.area /\ RentLines(i)[k] = (t.rent * Compound) * t.area
      BY <3>5 DEF RentLines
    <3>7. \A x, y, z \in Nat : (x * z) * y = z * (x * y) /\ x * y \in Nat
      OBVIOUS
    <3> HIDE DEF t, plain
    <3> QED
      BY <2>2, <3>1, <3>6, <3>7
  <2> DEFINE roll == SumFunctionOnSet(plain, S)
  <2>4. SumFunctionOnSet(RentLines(i), S) = Compound * roll /\ roll \in Nat
    <3>1. Compound \in Int
      BY <2>2
    <3> HIDE DEF plain, S
    <3>2. SumFunctionOnSet(RentLines(i), S) = Compound * SumFunctionOnSet(plain, S)
      BY <2>2, <2>3, <3>1, SumTimes
    <3>3. SumFunctionOnSet(plain, S) \in Nat
      BY <2>2, <2>3, SumNat
    <3> QED
      BY <3>2, <3>3
  <2>5. MonthlyRoll(i) = roll
    <3>1. DOMAIN plain = S
      OBVIOUS
    <3>2. MonthlyRoll(i) = SumFunction(plain)
      BY DEF MonthlyRoll
    <3> HIDE DEF plain, S
    <3> QED
      BY <3>1, <3>2, SumOfAll
  <2>6. SumFunctionOnSet(ParkingLines(i), DOMAIN i.parking) = 0
    <3>1. DOMAIN i.parking = {}
      OBVIOUS
    <3> QED
      BY <3>1, SumEmpty
  <2>7. MonthlyIncome(i) = Compound * roll
    <3>1. MonthlyIncome(i) = SumFunctionOnSet(RentLines(i), S) + Finer * 0
      BY <2>1, <2>6, IncomeParts
    <3> HIDE DEF roll, S
    <3> QED
      BY <2>2, <2>4, <3>1
  <2>8. result.income = 12 * (Compound * roll)
    BY <2>7 DEF Answered, Calculate, GrossIncome
  <2> HIDE DEF roll
  <2>9. roll > 0
    BY <2>2, <2>4, <2>8
  <2>10. OutsideBand(12 * i.opex * Finer, result.income) <=> OutsideBand(12 * i.opex * Unit, 12 * roll)
    <3> DEFINE x == 12 * i.opex * Unit
               y == 12 * roll
    <3>1. x \in Nat /\ y \in Nat
      BY <2>2, <2>4
    <3>2. 12 * i.opex * Finer = Compound * x /\ result.income = Compound * y
      <4>1. \A p, q, z \in Nat : 12 * p * (q * z) = z * (12 * p * q)
        OBVIOUS
      <4>2. 12 * i.opex * Finer = Compound * x
        BY <2>2, <4>1 DEF Finer
      <4> QED
        BY <2>2, <2>4, <2>8, <4>2
    <3>3. \A p, q \in Nat : Compound * p < Compound * q <=> p < q
      BY <2>2
    <3>4. /\ 20 * (Compound * x) = Compound * (20 * x) /\ 5 * (Compound * x) = Compound * (5 * x)
          /\ 3 * (Compound * y) = Compound * (3 * y)
          /\ 20 * x \in Nat /\ 5 * x \in Nat /\ 3 * y \in Nat
      <4>1. \A c, p, q \in Nat : c * (q * p) = q * (c * p) /\ c * p \in Nat
        OBVIOUS
      <4>2. x \in Nat /\ y \in Nat /\ Compound \in Nat /\ 20 \in Nat /\ 5 \in Nat /\ 3 \in Nat
        BY <2>2, <3>1
      <4> HIDE DEF x, y
      <4> QED
        BY <4>1, <4>2
    <3> HIDE DEF x, y
    <3>5. 20 * (Compound * x) < Compound * y <=> 20 * x < y
      BY <3>1, <3>3, <3>4
    <3>6. 3 * (Compound * y) < 5 * (Compound * x) <=> 3 * y < 5 * x
      BY <3>3, <3>4
    <3>7. OutsideBand(Compound * x, Compound * y) <=> OutsideBand(x, y)
      <4>1. \A p, q \in Int : p > q <=> q < p
        OBVIOUS
      <4>2. Compound * x \in Int /\ Compound * y \in Int
        BY <2>2, <3>1
      <4>3. 5 * (Compound * x) \in Int /\ 3 * (Compound * y) \in Int /\ 5 * x \in Int /\ 3 * y \in Int
        BY <3>1, <4>2
      <4> QED
        BY <3>5, <3>6, <4>1, <4>3 DEF OutsideBand
    <3> QED
      BY <3>2, <3>7 DEF x, y
  <2>11. [code |-> "opex_unusual_pct", tenant |-> 0] \in result.warnings
           <=> i.opex > 0 /\ RentRoll(i) > 0 /\ OutsideBand(12 * i.opex * Unit, RentRoll(i))
    BY DEF Answered, Calculate, Warnings, About, Whole
  <2>12. RentRoll(i) = 12 * roll
    BY <2>5 DEF RentRoll
  <2>13. 12 * roll > 0
    BY <2>4, <2>9
  <2> QED
    BY <2>10, <2>11, <2>12, <2>13
<1> QED
  BY <1>1, AlwaysAnswered, PTL

-----------------------------------------------------------------------------
(* Of two valuations of the same tenants the better one is not cheaper. *)

\* An escalated rent grows with the rent, its rate and the date.
LEMMA EffectiveRentGrows ==
    ASSUME NEW s, NEW t, NEW date \in Dates, NEW later \in Dates,
           s.rent \in Nat, s.pct \in Nat, t.rent \in Nat, t.pct \in Nat,
           s.next \in Dates \cup {None}, t.next = s.next,
           s.rent <= t.rent, s.pct <= t.pct, ~Before(later, date),
           Cycles(t.next, later) <= MaxCycles
    PROVE  EffectiveRent(s, date) <= EffectiveRent(t, later)
<1> DEFINE c == Cycles(s.next, date)
           d == Cycles(t.next, later)
           a == Unit + s.pct
           b == Unit + t.pct
           F(x, e) == Power(x, e) * Power(Unit, MaxCycles - e)
<1>1. c \in Nat /\ d \in Nat /\ c <= d /\ d <= MaxCycles
  BY CyclesGrow
<1>2. a \in Nat /\ b \in Nat /\ Unit \in Nat /\ MaxCycles \in Nat /\ a <= b /\ Unit <= b
  BY BoundAssumption
<1> HIDE DEF c, d, a, b
<1>3. ASSUME NEW x \in Nat, NEW e \in Nat, e <= MaxCycles PROVE F(x, e) \in Nat
  <2>1. MaxCycles - e \in Nat
    BY <1>2, <1>3
  <2>2. Power(x, e) \in Nat /\ Power(Unit, MaxCycles - e) \in Nat
    BY <1>2, <2>1, PowerNat
  <2> QED
    BY <2>2
<1>4. F(a, c) <= F(b, c)
  <2>1. MaxCycles - c \in Nat
    BY <1>1, <1>2
  <2>2. Power(a, c) \in Nat /\ Power(b, c) \in Nat /\ Power(a, c) <= Power(b, c)
    BY <1>1, <1>2, PowerNat, PowerMonotonic
  <2>3. Power(Unit, MaxCycles - c) \in Nat
    BY <1>2, <2>1, PowerNat
  <2> QED
    BY <2>2, <2>3, TimesMonotonic
<1>5. F(b, c) <= F(b, d)
  BY <1>1, <1>2, CyclesRaise
<1>6. F(a, c) \in Nat /\ F(b, c) \in Nat /\ F(b, d) \in Nat
  <2>1. c <= MaxCycles
    BY <1>1, <1>2
  <2> HIDE DEF F
  <2> QED
    BY <1>1, <1>2, <1>3, <2>1
<1>7. EffectiveRent(s, date) = s.rent * F(a, c) /\ EffectiveRent(t, later) = t.rent * F(b, d)
  BY DEF EffectiveRent, a, b, c, d
<1> HIDE DEF F
<1>8. F(a, c) <= F(b, d)
  BY <1>4, <1>5, <1>6
<1> QED
  BY <1>6, <1>7, <1>8, TimesMonotonic

LEMMA IncomeGrows ==
    ASSUME NEW i \in ValuationInput, NEW j \in ValuationInput,
           WithinCycles(i), WithinCycles(j), AsGood(i, j)
    PROVE  MonthlyIncome(i) <= MonthlyIncome(j)
<1> DEFINE S == DOMAIN i.tenants
           rents(k) == SumFunctionOnSet(RentLines(k), DOMAIN k.tenants)
           bays(k) == SumFunctionOnSet(ParkingLines(k), DOMAIN k.parking)
<1>1. DOMAIN j.tenants = S /\ IsFiniteSet(S)
  BY InputFields DEF AsGood
<1>2. ASSUME NEW k \in S
      PROVE  RentLines(i)[k] \in Int /\ RentLines(j)[k] \in Int /\ RentLines(i)[k] <= RentLines(j)[k]
  <2> DEFINE s == i.tenants[k]
             t == j.tenants[k]
  <2>1. /\ s.rent \in Nat /\ s.pct \in Nat /\ s.area \in Nat /\ s.next \in Dates \cup {None}
        /\ t.rent \in Nat /\ t.pct \in Nat /\ t.area \in Nat
        /\ i.date \in Dates /\ j.date \in Dates
    BY <1>1, InputFields
  <2>2. /\ t.next = s.next /\ s.rent <= t.rent /\ s.pct <= t.pct /\ s.area <= t.area
        /\ ~Before(j.date, i.date)
    BY <2>1 DEF AsGood
  <2>3. Cycles(t.next, j.date) <= MaxCycles
    BY <1>1 DEF WithinCycles
  <2>4. EffectiveRent(s, i.date) \in Nat /\ EffectiveRent(t, j.date) \in Nat
    BY <1>1, IncomeParts
  <2>5. RentLines(i)[k] = EffectiveRent(s, i.date) * s.area
    BY DEF RentLines
  <2>6. RentLines(j)[k] = EffectiveRent(t, j.date) * t.area
    BY <1>1 DEF RentLines
  <2> HIDE DEF s, t
  <2>7. EffectiveRent(s, i.date) <= EffectiveRent(t, j.date)
    BY <2>1, <2>2, <2>3, EffectiveRentGrows
  <2> QED
    BY <2>1, <2>2, <2>4, <2>5, <2>6, <2>7, TimesMonotonic
<1>3. rents(i) <= rents(j)
  <2> HIDE DEF S
  <2>1. SumFunctionOnSet(RentLines(i), S) <= SumFunctionOnSet(RentLines(j), S)
    BY <1>1, <1>2, SumMonotonic
  <2> QED
    BY <1>1, <2>1 DEF S
<1>4. bays(i) <= bays(j)
  <2>1. bays(j) \in Nat /\ bays(i) \in Nat
    BY IncomeParts
  <2>2. CASE j.parking = i.parking
    <3>1. bays(j) = bays(i)
      BY <2>2 DEF ParkingLines
    <3> HIDE DEF bays
    <3> QED
      BY <2>1, <3>1
  <2>3. CASE i.parking = << >>
    <3>1. DOMAIN i.parking = {}
      BY <2>3
    <3>2. bays(i) = 0
      BY <3>1, SumEmpty
    <3> HIDE DEF bays
    <3> QED
      BY <2>1, <3>2
  <2> QED
    BY <2>2, <2>3 DEF AsGood
<1>5. /\ rents(i) \in Nat /\ rents(j) \in Nat /\ bays(i) \in Nat /\ bays(j) \in Nat
      /\ MonthlyIncome(i) = rents(i) + Finer * bays(i)
      /\ MonthlyIncome(j) = rents(j) + Finer * bays(j)
  BY IncomeParts
<1> HIDE DEF rents, bays
<1>6. Finer * bays(i) <= Finer * bays(j) /\ Finer * bays(i) \in Nat /\ Finer * bays(j) \in Nat
  BY <1>4, <1>5, ScalePositive, TimesMonotonic
<1> QED
  BY <1>3, <1>5, <1>6

LEMMA NetIncomeGrows ==
    ASSUME NEW i \in ValuationInput, NEW j \in ValuationInput,
           WithinCycles(i), WithinCycles(j), AsGood(i, j)
    PROVE  NetIncome(i) <= NetIncome(j)
<1>1. MonthlyIncome(i) \in Nat /\ MonthlyIncome(j) \in Nat /\ MonthlyIncome(i) <= MonthlyIncome(j)
  BY AnswerTyped, IncomeGrows
<1>2. GrossIncome(i) \in Nat /\ GrossIncome(j) \in Nat /\ GrossIncome(i) <= GrossIncome(j)
  BY <1>1 DEF GrossIncome
<1>3. /\ i.opex \in Nat /\ j.opex \in Nat /\ i.vacancy \in 0..Unit /\ j.vacancy \in 0..Unit
      /\ j.opex <= i.opex /\ j.vacancy <= i.vacancy
  BY InputFields DEF AsGood
<1>4. LetShare(i) \in Nat /\ LetShare(j) \in Nat /\ LetShare(i) <= LetShare(j)
  BY <1>3, BoundAssumption DEF LetShare
<1>5. /\ GrossIncome(i) * LetShare(i) <= GrossIncome(j) * LetShare(j)
      /\ GrossIncome(i) * LetShare(i) \in Nat /\ GrossIncome(j) * LetShare(j) \in Nat
  BY <1>2, <1>4, TimesMonotonic
<1>6. Unit * Finer \in Nat
  BY ScalePositive, BoundAssumption
<1> DEFINE u == Unit * Finer
           e == 12 * j.opex
           f == 12 * i.opex
<1>7. u \in Nat /\ e \in Nat /\ f \in Nat /\ e <= f
  BY <1>3, <1>6
<1>8. 12 * j.opex * Unit * Finer = e * u /\ 12 * i.opex * Unit * Finer = f * u
  <2>1. \A x, y, z \in Nat : 12 * x * y * z = (12 * x) * (y * z)
    OBVIOUS
  <2> QED
    BY <1>3, <2>1, ScalePositive, BoundAssumption
<1> HIDE DEF u, e, f
<1>9. e * u <= f * u /\ e * u \in Nat /\ f * u \in Nat
  BY <1>7, TimesMonotonic
<1>10. /\ NetIncome(i) = GrossIncome(i) * LetShare(i) - f * u
       /\ NetIncome(j) = GrossIncome(j) * LetShare(j) - e * u
  BY <1>8 DEF NetIncome
<1> QED
  BY <1>5, <1>9, <1>10

\* Rounding goes no step backwards.
LEMMA HalfUpMonotonic ==
    ASSUME NEW n \in Int, NEW m \in Int, n <= m, NEW d \in Nat \ {0}
    PROVE  HalfUp(n, d) <= HalfUp(m, d)
<1> DEFINE p == HalfUp(n, d)
           q == HalfUp(m, d)
<1>1. /\ p \in Int /\ -d <= 2 * (n - p * d)
      /\ 2 * (n - p * d) = -d => n > 0
  BY HalfUpIsNearest
<1>2. /\ q \in Int /\ 2 * (m - q * d) <= d
      /\ 2 * (m - q * d) = d => m < 0
  BY HalfUpIsNearest
<1> HIDE DEF p, q
<1> SUFFICES ASSUME q + 1 <= p PROVE FALSE
  BY <1>1, <1>2 DEF p, q
<1> DEFINE x == p * d
           y == q * d
<1>3. x \in Int /\ y \in Int /\ y + d <= x
  <2>1. (q + 1) * d <= p * d
    BY <1>1, <1>2
  <2>2. (q + 1) * d = q * d + d
    BY <1>2
  <2>3. x \in Int /\ y \in Int
    BY <1>1, <1>2
  <2> QED
    BY <2>1, <2>2, <2>3
<1>4. /\ -d <= 2 * (n - x) /\ (2 * (n - x) = -d => n > 0)
      /\ 2 * (m - y) <= d /\ (2 * (m - y) = d => m < 0)
  BY <1>1, <1>2
<1> HIDE DEF x, y
<1> QED
  BY <1>3, <1>4

LEMMA RoundingGrows ==
    ASSUME NEW v \in Fraction, NEW w \in Fraction, v.den = w.den, v.num <= w.num, NEW inc \in Nat
    PROVE  LET r == RoundToIncrement(v, inc)
               s == RoundToIncrement(w, inc)
           IN  r.num * s.den <= s.num * r.den
<1>1. v.num \in Int /\ w.num \in Int /\ v.den \in Nat \ {0}
  BY DEF Fraction
<1>2. CASE inc = 0
  <2>1. v.num * w.den <= w.num * v.den
    BY <1>1
  <2> QED
    BY <1>2, <2>1 DEF RoundToIncrement
<1>3. CASE inc # 0
  <2> DEFINE step == inc * Scale
             d == v.den * inc * Scale
             p == HalfUp(v.num, d)
             q == HalfUp(w.num, d)
  <2>1. step \in Nat \ {0}
    BY <1>3, ScalePositive
  <2>2. d = v.den * step
    BY <1>1, ScalePositive
  <2>3. d \in Nat \ {0}
    <3> HIDE DEF step, d
    <3> QED
      BY <1>1, <2>1, <2>2
  <2>4. p \in Int /\ q \in Int /\ p <= q
    <3> HIDE DEF d
    <3> QED
      BY <1>1, <2>3, HalfUpIsNearest, HalfUpMonotonic
  <2>5. /\ RoundToIncrement(v, inc) = [num |-> step * p, den |-> 1]
        /\ RoundToIncrement(w, inc) = [num |-> step * q, den |-> 1]
    BY <1>3 DEF RoundToIncrement
  <2> HIDE DEF step, p, q
  <2>6. step * p <= step * q /\ step * p \in Int /\ step * q \in Int
    BY <2>1, <2>4
  <2> QED
    BY <2>5, <2>6
<1> QED
  BY <1>2, <1>3

\* For all inputs: no escalation, sum or rounding of the engine turns a better
\* document into a cheaper valuation.
THEOREM ValuationMonotonic == Spec => BetterIsNoCheaper
<1>1. ASSUME Answered, [Next]_vars, Answered', AsGood(inputs, inputs')
      PROVE  result.value.num * result'.value.den <= result'.value.num * result.value.den
  <2> DEFINE i == inputs
             j == inputs'
             inc == Increment(i.rounding)
  <2>1. /\ i \in ValuationInput /\ j \in ValuationInput
        /\ WithinCycles(i) /\ WithinCycles(j)
    BY <1>1, InputsAssumption, InputsWithinCycles DEF Answered
  <2>2. result.value = RoundToIncrement(Capitalised(i), inc)
    BY <1>1 DEF Answered, Calculate
  <2>3. result'.value = RoundToIncrement(Capitalised(j), inc)
    BY <1>1 DEF Answered, Calculate, AsGood
  <2>4. Capitalised(i) \in Fraction /\ Capitalised(j) \in Fraction
    BY <2>1, AnswerTyped
  <2>5. Capitalised(i).den = Capitalised(j).den /\ Capitalised(i).num <= Capitalised(j).num
    <3>1. NetIncome(i) <= NetIncome(j) /\ i.cap = j.cap
      BY <1>1, <2>1, NetIncomeGrows DEF AsGood
    <3> QED
      BY <3>1 DEF Capitalised
  <2>6. inc \in Nat
    BY <2>1, InputFields DEF Increment, Rounding
  <2> HIDE DEF i, j, inc
  <2> QED
    BY <2>2, <2>3, <2>4, <2>5, <2>6, RoundingGrows
<1>2. Answered /\ Answered' /\ [Next]_vars =>
        [AsGood(inputs, inputs') =>
           result.value.num * result'.value.den <= result'.value.num * result.value.den]_vars
  BY <1>1
<1> QED
  BY <1>2, AlwaysAnswered, PTL DEF Spec, BetterIsNoCheaper
=============================================================================
