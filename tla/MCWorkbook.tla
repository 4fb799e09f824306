----------------------------- MODULE MCWorkbook -----------------------------
(* Instances of Workbook for TLC.  The previews are those of MCValuation; the  *)
(* exported valuations are gains and losses, with and without parking, with    *)
(* rents that have escalated and not, in both roundings that a sheet shows,    *)
(* and one with a rent that loses a digit on which the rounding depends.       *)
EXTENDS Workbook, MCValuation

CONSTANTS Rand, Percent

\* "R 1.6" and "20%".
MCWords == {Text, Rand, Percent}
MCAsDecimal == [w \in MCWords |-> IF w = Rand THEN Unit + 3 ELSE None]
MCAsPct == [w \in MCWords |-> IF w = Percent THEN 1 ELSE None]

\* Above 20 only every tenth number.
MCDoubles == (0..20) \cup {10 * k : k \in 3..132} \cup {1100 * Unit}

Stored(tenants, parking, opex, vacancy, rounding) ==
    [date |-> LeapDay, tenants |-> tenants, parking |-> parking, opex |-> opex * Unit,
     vacancy |-> vacancy, cap |-> 3, rounding |-> rounding]

TwoLines == <<Line(250, 1, LeapDay, None), Line(1100, 0, None, LeapDay)>>
NoRent == <<Line(0, 1, None, None)>>
OneLine == <<Line(1100, 0, None, None)>>
Bays(n) == [bays |-> n, rate |-> 250 * Unit]

MCExported ==
    {Stored(TwoLines, <<Bays(1), Bays(0), Bays(2)>>, 250, 0, "nearest_10000"),
     Stored(NoRent, << >>, 250, 2, "nearest_10000"),
     Stored(<<Uneven(1, None)>>, <<[bays |-> 2, rate |-> 264 * Unit]>>, 250, 2, "nearest_10000"),
     Stored(OneLine, <<Bays(1)>>, 0, 0, "nearest_1000")}

MCBookInputs == MCInputs \cup MCExported
=============================================================================
