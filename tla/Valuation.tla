----------------------------- MODULE Valuation -----------------------------
(***************************************************************************)
(* The valuation engine (calculate.py, escalation.py, warnings.py) behind  *)
(* POST /calculate: rents escalated to the valuation date, annual income   *)
(* less vacancy and expenses, capitalised, rounded to an increment, with   *)
(* the warnings about the inputs.                                          *)
(*                                                                         *)
(* The Decimals of a body, its amounts and areas as well as its rates, are *)
(* numbers of parts of Unit.  What is computed of them is an exact         *)
(* fraction: an income is a number of parts of Scale, which divides a part *)
(* of a rent times a part of an area for MaxCycles escalations, and a      *)
(* value is such a number over another, as in [num |-> 7 * Scale,          *)
(* den |-> 3].  Dates are compared as the code does, by year, month and    *)
(* day.                                                                    *)
(***************************************************************************)
EXTENDS Integers, Sequences, Functions

CONSTANTS
    Inputs,        \* the bodies ValuationInput accepts
    Dates,         \* the dates in them
    None,          \* a date that is not given
    Unit,          \* the parts a Decimal counts, 1 is Unit of them
    MaxCycles      \* bound: no rent in Inputs escalates more often

\* The dates of the calendar, as datetime.date has them.
IsLeap(y) == (y % 4 = 0 /\ y % 100 # 0) \/ y % 400 = 0
DaysIn(y, m) == IF m = 2 THEN (IF IsLeap(y) THEN 29 ELSE 28)
                ELSE IF m \in {4, 6, 9, 11} THEN 30 ELSE 31
IsDate(d) == d.y \in Nat /\ d.m \in 1..12 /\ d.d \in 1..DaysIn(d.y, d.m)

ASSUME CalendarAssumption == None \notin Dates /\ \A d \in Dates : IsDate(d)

ASSUME BoundAssumption == Unit \in Nat \ {0} /\ MaxCycles \in Nat

VARIABLES
    inputs,    \* the body of the last POST /calculate
    result     \* and what was answered

vars == <<inputs, result>>

Tenant == [area : Nat \ {0}, rent : Nat, pct : Nat,
           next : Dates \cup {None}, expiry : Dates \cup {None}]
Parking == [bays : Nat, rate : Nat]
Rounding == {"nearest_10000", "nearest_1000", "none"}

\* ValuationInput and its limits.
ValuationInput ==
    [date : Dates, tenants : Seq(Tenant) \ {<< >>}, parking : Seq(Parking), opex : Nat,
     vacancy : 0..Unit, cap : Nat \ {0}, rounding : Rounding]

ASSUME InputsAssumption == \A i \in Inputs : i \in ValuationInput

\* What MaxCycles bounds: the years of an escalation, the one it starts in
\* included.
ASSUME CyclesAssumption ==
    \A i \in Inputs : \A k \in DOMAIN i.tenants :
        i.tenants[k].next # None => i.date.y - i.tenants[k].next.y < MaxCycles

-----------------------------------------------------------------------------
(* Escalation. *)

MonthDayBefore(a, b) == a.m < b.m \/ (a.m = b.m /\ a.d < b.d)
Before(a, b) == a.y < b.y \/ (a.y = b.y /\ MonthDayBefore(a, b))

\* The cycles of resolve_rent.  (Variant: by calendar years.)
CyclesByYear(next, date) ==
    IF next = None \/ Before(date, next) THEN 0 ELSE date.y - next.y + 1
Cycles(next, date) ==
    IF next = None \/ Before(date, next) THEN 0
    ELSE date.y - next.y + (IF MonthDayBefore(date, next) THEN 0 ELSE 1)

\* b to the power of n.
Power(b, n) ==
    LET power[k \in 0..n] == IF k = 0 THEN 1 ELSE b * power[k - 1]
    IN  power[n]

\* The parts that escalation makes of a part; those of an income to a part of
\* an amount; and those to 1.
Compound == Power(Unit, MaxCycles)
Finer == Unit * Compound
Scale == Unit * Finer

\* The rent times (1 + pct) to the power of the cycles, each part of it in
\* Compound parts.
EffectiveRent(t, date) ==
    LET c == Cycles(t.next, date)
    IN  t.rent * (Power(Unit + t.pct, c) * Power(Unit, MaxCycles - c))

-----------------------------------------------------------------------------
(* Income and value. *)

\* gross_monthly_income and gross_annual_income, in parts of Scale.  (Variant:
\* the expenses are taken off here already.)
MonthlyIncome(i) ==
    SumFunction([k \in DOMAIN i.tenants |->
                   EffectiveRent(i.tenants[k], i.date) * i.tenants[k].area])
      + Finer * SumFunction([k \in DOMAIN i.parking |->
                               i.parking[k].bays * i.parking[k].rate])

GrossLessExpenses(i) == 12 * (MonthlyIncome(i) - Finer * i.opex)
GrossIncome(i) == 12 * MonthlyIncome(i)

\* Vacancy is a deduction, in parts of Unit of the income.  (Variant: added.)
LetShareRaised(i) == Unit + i.vacancy
LetShare(i) == Unit - i.vacancy

\* annual_net_income, in parts of Unit * Scale, and its capitalised value.
NetIncome(i) == GrossIncome(i) * LetShare(i) - 12 * i.opex * Unit * Finer

Capitalised(i) == [num |-> NetIncome(i), den |-> i.cap]

Increment(rounding) ==
    CASE rounding = "nearest_10000" -> 10000
      [] rounding = "nearest_1000" -> 1000
      [] rounding = "none" -> 0

\* ROUND_HALF_UP: to the nearest integer, from a half away from zero.
\* (Variant: from a half upwards.)
HalfCeiling(n, d) == (2 * n + d) \div (2 * d)
HalfUp(n, d) == IF n >= 0 THEN (2 * n + d) \div (2 * d) ELSE -((d - 2 * n) \div (2 * d))

\* _round_to_increment.
RoundToIncrement(v, inc) ==
    IF inc = 0 THEN v
    ELSE [num |-> inc * Scale * HalfUp(v.num, v.den * inc * Scale), den |-> 1]

-----------------------------------------------------------------------------
(* Warnings: a code, and the tenant it is about or 0. *)

About(code, lines) == {[code |-> code, tenant |-> k] : k \in lines}

Whole(code, condition) == IF condition THEN {[code |-> code, tenant |-> 0]} ELSE {}

EscalationMissing(t) == t.pct > 0 /\ t.next = None

\* The income of the opex band, in parts of Unit times Unit: rents before
\* escalation, without parking.
\* (Variant: of a month.)
MonthlyRoll(i) ==
    SumFunction([k \in DOMAIN i.tenants |-> i.tenants[k].rent * i.tenants[k].area])

RentRollMonthly(i) == MonthlyRoll(i)
RentRoll(i) == 12 * MonthlyRoll(i)

\* Less than 5% of the income, or more than 60%.
OutsideBand(opex, income) == 20 * opex < income \/ 5 * opex > 3 * income

Warnings(i) ==
    LET t == i.tenants
        lines == DOMAIN t
    IN  About("lease_expired",
              {k \in lines : t[k].expiry # None /\ Before(t[k].expiry, i.date)})
          \cup About("escalation_missing", {k \in lines : EscalationMissing(t[k])})
          \cup About("rent_unusual", {k \in lines : t[k].rent < 20 * Unit \/ t[k].rent > 1000 * Unit})
          \cup Whole("vacancy_zero", i.vacancy = 0)
          \cup Whole("cap_rate_unusual", 100 * i.cap < 6 * Unit \/ 100 * i.cap > 20 * Unit)
          \cup Whole("opex_zero", i.opex = 0)
          \cup Whole("opex_unusual_pct",
                     /\ i.opex > 0 /\ RentRoll(i) > 0
                     /\ OutsideBand(12 * i.opex * Unit, RentRoll(i)))

-----------------------------------------------------------------------------
\* calculate.
Calculate(i) ==
    [cycles      |-> [k \in DOMAIN i.tenants |-> Cycles(i.tenants[k].next, i.date)],
     income      |-> GrossIncome(i),
     capitalised |-> Capitalised(i),
     value       |-> RoundToIncrement(Capitalised(i), Increment(i.rounding)),
     warnings    |-> Warnings(i)]

Init == \E i \in Inputs : inputs = i /\ result = Calculate(i)

\* POST /calculate with a body that is valid; another is a 422.
PreviewCalculate(i) == inputs' = i /\ result' = Calculate(i)

Next == \E i \in Inputs : PreviewCalculate(i)

Spec == Init /\ [][Next]_vars

-----------------------------------------------------------------------------
(***************************************************************************)
(* Properties.                                                             *)
(***************************************************************************)

Fraction == [num : Int, den : Nat \ {0}]

\* A result has the shape of ValuationResult; a rent never escalates less than
\* zero times.
TypeOK ==
    /\ inputs \in Inputs
    /\ DOMAIN result.cycles = DOMAIN inputs.tenants
    /\ \A k \in DOMAIN result.cycles : result.cycles[k] \in 0..MaxCycles
    /\ result.income \in Nat
    /\ result.capitalised \in Fraction
    /\ result.value \in Fraction

\* The k-th anniversary of a date is a date of the calendar: 29 February's is
\* 1 March in a common year.
Anniversary(d, k) ==
    IF d.m = 2 /\ d.d = 29 /\ ~IsLeap(d.y + k)
      THEN [y |-> d.y + k, m |-> 3, d |-> 1]
      ELSE [y |-> d.y + k, m |-> d.m, d |-> d.d]

\* "Rent compounds on each anniversary of the next-escalation date" (the
\* comment of resolve_rent): a rent has escalated more than k times exactly
\* when the k-th anniversary, counted on the calendar, has come.
CyclesAreAnniversaries ==
    \A t \in DOMAIN inputs.tenants, k \in 0..MaxCycles :
        LET next == inputs.tenants[t].next
        IN  result.cycles[t] > k <=>
              next # None /\ ~Before(inputs.date, Anniversary(next, k))

\* The market value is a multiple of the increment that is nearest to the
\* capitalised value, and of two the one farther from zero; losses round like
\* gains.
ValueIsNearest ==
    LET inc == Increment(inputs.rounding) * Scale
        n == result.capitalised.num
        d == result.capitalised.den
        error == n - result.value.num * d
    IN  IF inc = 0 THEN result.value = result.capitalised
        ELSE /\ result.value.den = 1
             /\ result.value.num % inc = 0
             /\ -(inc * d) <= 2 * error /\ 2 * error <= inc * d
             /\ 2 * error = inc * d => n < 0
             /\ 2 * error = -(inc * d) => n > 0

\* detect_warnings and calculate each make a sum of the rents.  Where they
\* mean the same income, without parking and before any escalation, the band
\* the warning speaks of is a band of the result's own opex_pct_of_gai.
OpexBandIsOfIncome ==
    (inputs.parking = << >> /\ (\A t \in DOMAIN result.cycles : result.cycles[t] = 0)
       /\ inputs.opex > 0 /\ result.income > 0)
    => ([code |-> "opex_unusual_pct", tenant |-> 0] \in result.warnings
          <=> OutsideBand(12 * inputs.opex * Finer, result.income))

\* Of two previews of the same tenants, the one with as much income or more,
\* and no more expenses and vacancy, at the same date or later, is not valued
\* less: no step of an escalation, of a sum or of the rounding goes backwards.
AsGood(i, j) ==
    /\ j.cap = i.cap /\ j.rounding = i.rounding
    /\ ~Before(j.date, i.date)
    /\ j.opex <= i.opex /\ j.vacancy <= i.vacancy
    /\ j.parking = i.parking \/ i.parking = << >>
    /\ DOMAIN j.tenants = DOMAIN i.tenants
    /\ \A k \in DOMAIN i.tenants :
          /\ j.tenants[k].next = i.tenants[k].next
          /\ j.tenants[k].area >= i.tenants[k].area
          /\ j.tenants[k].rent >= i.tenants[k].rent
          /\ j.tenants[k].pct >= i.tenants[k].pct

BetterIsNoCheaper ==
    [][AsGood(inputs, inputs') =>
         result.value.num * result'.value.den <= result'.value.num * result.value.den]_vars

=============================================================================
