---------------------------- MODULE MCValuation ----------------------------
(* Inputs of Valuation for TLC: dates around a leap day, one or two tenants,  *)
(* and amounts that meet ties of the rounding, above and below zero.          *)
EXTENDS Valuation

Date(y, m, d) == [y |-> y, m |-> m, d |-> d]
LeapDay == Date(2024, 2, 29)
FirstOfMarch == Date(2025, 3, 1)

MCDates == {Date(2024, 2, 28), LeapDay, Date(2025, 2, 28), FirstOfMarch, Date(2026, 3, 1)}

\* A line of area 1 whose rent, and an area and a rent that, are not whole.
Line(rent, pct, next, expiry) ==
    [area |-> Unit, rent |-> rent * Unit, pct |-> pct, next |-> next, expiry |-> expiry]
Uneven(pct, next) ==
    [area |-> Unit + 1, rent |-> 254 * Unit + 3, pct |-> pct, next |-> next, expiry |-> None]

RentRolls ==
    {<<Line(250, 1, next, None)>> : next \in {None, LeapDay, FirstOfMarch}}
      \cup {<<Line(1100, 0, None, LeapDay)>>, <<Line(0, 1, LeapDay, None)>>,
            <<Line(250, 0, None, None), Uneven(1, LeapDay)>>}

\* Expenses without vacancy, vacancy without expenses, and both.
MCInputs ==
    UNION {[date : MCDates, tenants : RentRolls,
            parking : {<< >>, <<[bays |-> 1, rate |-> 250 * Unit]>>}, opex : {costs[1] * Unit},
            vacancy : {costs[2]}, cap : {1, 3}, rounding : Rounding]
             : costs \in {<<250, 0>>, <<0, 2>>, <<250, 2>>}}
=============================================================================
