--------------------------- MODULE SnapshotLedger ---------------------------
(***************************************************************************)
(* What the table public.valuation_snapshot promises its readers, with the *)
(* transactions that write it left out: an append-only ledger.  A row is   *)
(* published once, as the active valuation of its property; publishing may *)
(* flip older active rows of that property to superseded, and must flip    *)
(* those the same writer published.  Nothing else ever changes.            *)
(*                                                                         *)
(* The ledger does NOT promise that only one row of a property is active:  *)
(* the code does not keep that promise (see SnapshotStore).                *)
(***************************************************************************)
EXTENDS Naturals, Sequences

CONSTANTS Properties,   \* rows of public.property, live or soft-deleted
          Inputs,       \* valid ValuationInput documents
          Sources,      \* "manual" entry or the workbook a row came from
          Writers       \* streams of requests that publish valuations

VARIABLE snap           \* the rows, in the order their transactions commit

Status == {"active", "superseded"}

Row == [property : Properties,
        inputs   : Inputs,
        source   : Sources,
        by       : Writers,
        status   : Status]

\* The committed rows a statement sees as the current valuations of p.
ActiveRows(p) ==
    {i \in DOMAIN snap : snap[i].property = p /\ snap[i].status = "active"}

\* The table after the rows of S are flipped.
Superseded(S) ==
    [i \in DOMAIN snap |-> IF i \in S
                             THEN [snap[i] EXCEPT !.status = "superseded"]
                             ELSE snap[i]]

Publish(row) ==
    /\ row.status = "active"
    /\ \E S \in SUBSET ActiveRows(row.property) :
          /\ {i \in ActiveRows(row.property) : snap[i].by = row.by} \subseteq S
          /\ snap' = Append(Superseded(S), row)

Init == snap = << >>

Next == \E row \in Row : Publish(row)

Spec == Init /\ [][Next]_snap
=============================================================================
