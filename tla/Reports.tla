------------------------------ MODULE Reports -------------------------------
(***************************************************************************)
(* What is read from the valuations that were published: the portfolio's   *)
(* summary and time series (routers/portfolio.py, queries/portfolio.py).   *)
(*                                                                         *)
(* The tables change under the readers.  Publishing is a step of           *)
(* SnapshotLedger, which is all that the transactions of SnapshotStore     *)
(* promise: a property may have more than one active row.  Deletions are   *)
(* steps that may come at any time, as their checks can be overtaken       *)
(* (Registry's NoOrphans and the note on deletes in SnapshotStore).        *)
(*                                                                         *)
(* The summary is four statements on one connection, in no transaction;    *)
(* each sees the tables as they are when it runs.                          *)
(***************************************************************************)
EXTENDS Integers, Sequences, FiniteSets, Functions, FiniteSetsExt

CONSTANTS
    Properties, Entities,
    EntityOf,        \* the entity of each property
    Types,           \* of property
    Documents,       \* the inputs of a valuation with their results
    DateOf, YearOf,  \* of a document
    ValueOf,         \* its market value, below zero when a property loses money
    Writers,         \* streams of requests that publish valuations
    Readers,         \* streams of GET /portfolio/summary
    TopLimit,        \* their parameter limit
    MaxSnapshots,    \* bound of the rows
    None

ASSUME ReportsAssumption ==
    /\ IsFiniteSet(Properties) /\ IsFiniteSet(Entities)
    /\ EntityOf \in [Properties -> Entities]
    /\ DateOf \in [Documents -> Nat]
    /\ YearOf \in [Documents -> Nat]
    /\ ValueOf \in [Documents -> Int]
    /\ \A d, e \in Documents : DateOf[d] <= DateOf[e] => YearOf[d] <= YearOf[e]
    /\ TopLimit \in Nat \ {0}
    /\ MaxSnapshots \in Nat

VARIABLES
    snap,       \* the rows of valuation_snapshot, in the order of their commits
    property,   \* of each property its type and whether it is deleted
    entity,     \* of each entity whether it is deleted
    reader      \* for each reader, the summary it is being answered

vars == <<snap, property, entity, reader>>
tables == <<snap, property, entity>>

\* created_at is when a row's transaction began: the rows' order of commit is
\* not that of their creation, except for the rows of one stream of requests.
Clock == 1..MaxSnapshots
Stamped == [doc : Documents, at : Clock]

Ledger == INSTANCE SnapshotLedger WITH Inputs <- Stamped, Sources <- {None}

DateOfRow(i) == DateOf[snap[i].inputs.doc]
ValueOfRow(i) == ValueOf[snap[i].inputs.doc]

PropertyLive(p) == ~property[p].deleted /\ ~entity[EntityOf[p]].deleted

-----------------------------------------------------------------------------
(* The statements of queries/portfolio.py. *)

\* order by valuation_date desc, created_at desc
Before(i, j) ==
    \/ DateOfRow(i) < DateOfRow(j)
    \/ DateOfRow(i) = DateOfRow(j) /\ snap[i].inputs.at < snap[j].inputs.at

\* distinct on (property_id): of the rows S, the first of each property.
\* (Variant: all of them.)
EveryOne(S) == S
FirstOfEach(S) ==
    {i \in S : \A j \in S : snap[j].property = snap[i].property => ~Before(i, j)}

\* _LATEST_CTE.  (Variants: status is looked at last, or not at all.)
LatestThenActive(live) ==
    {i \in FirstOfEach({i \in DOMAIN snap : snap[i].property \in live}) :
        snap[i].status = "active"}
LatestOfAny(live) == FirstOfEach({i \in DOMAIN snap : snap[i].property \in live})
Latest(live) ==
    FirstOfEach({i \in DOMAIN snap : snap[i].property \in live /\ snap[i].status = "active"})

Counted == Latest({p \in Properties : PropertyLive(p)})

SumValue(S) == SumFunction([i \in S |-> ValueOfRow(i)])
Figures(S) == [value |-> SumValue(S), count |-> Cardinality(S)]

Totals ==
    [value    |-> SumValue(Counted),
     count    |-> Cardinality(Counted),
     entities |-> Cardinality({e \in Entities : ~entity[e].deleted}),
     last     |-> IF Counted = {} THEN None ELSE Max({DateOfRow(i) : i \in Counted})]

\* group by: the groups that have a row, with their figures.
GroupBy(Key(_)) ==
    [k \in {Key(i) : i \in Counted} |-> Figures({i \in Counted : Key(i) = k})]

\* (Variant: the property in place of its entity.)
TypeOfRow(i) == property[snap[i].property].type
PropertyOfRow(i) == snap[i].property
EntityOfRow(i) == EntityOf[snap[i].property]
ByType == GroupBy(TypeOfRow)
ByEntity == GroupBy(EntityOfRow)

\* order by market_value desc limit: of equal values any may be left out.
Smaller(m, n) == IF m < n THEN m ELSE n
IsTop(S) ==
    /\ S \subseteq Counted
    /\ Cardinality(S) = Smaller(TopLimit, Cardinality(Counted))
    /\ \A i \in S, j \in Counted \ S : ValueOfRow(j) <= ValueOfRow(i)

\* timeseries_year: the latest row of a property in a year, whatever its
\* status; a deleted entity's properties are in it.
YearRows(y) ==
    FirstOfEach({i \in DOMAIN snap : /\ ~property[snap[i].property].deleted
                                     /\ YearOf[snap[i].inputs.doc] = y})
TimeseriesYear ==
    [y \in {YearOf[snap[i].inputs.doc] : i \in {j \in DOMAIN snap :
                                                  ~property[snap[j].property].deleted}} |->
        Figures(YearRows(y))]

-----------------------------------------------------------------------------
(* GET /portfolio/summary.  moved tells whether the tables have changed since *)
(* the first statement; no code sees it.                                      *)

NoAnswer == [pc |-> "idle", totals |-> None, byType |-> None, byEntity |-> None,
             top |-> None, moved |-> FALSE]

ReadTotals(r) ==
    /\ reader[r].pc \in {"idle", "answered"}
    /\ reader' = [reader EXCEPT ![r] = [NoAnswer EXCEPT !.pc = "by_type", !.totals = Totals]]
    /\ UNCHANGED tables

ReadByType(r) ==
    /\ reader[r].pc = "by_type"
    /\ reader' = [reader EXCEPT ![r].pc = "by_entity", ![r].byType = ByType]
    /\ UNCHANGED tables

ReadByEntity(r) ==
    /\ reader[r].pc = "by_entity"
    /\ reader' = [reader EXCEPT ![r].pc = "top", ![r].byEntity = ByEntity]
    /\ UNCHANGED tables

ReadTop(r) ==
    /\ reader[r].pc = "top"
    /\ \E S \in SUBSET Counted :
          /\ IsTop(S)
          /\ reader' = [reader EXCEPT ![r].pc = "answered", ![r].top = S]
    /\ UNCHANGED tables

\* A statement fails; get_db gives the connection back.
ReadFails(r) ==
    /\ reader[r].pc \notin {"idle", "answered"}
    /\ reader' = [reader EXCEPT ![r] = NoAnswer]
    /\ UNCHANGED tables

Reading(r) ==
    ReadTotals(r) \/ ReadByType(r) \/ ReadByEntity(r) \/ ReadTop(r) \/ ReadFails(r)

-----------------------------------------------------------------------------
(* The writers, as the readers know them. *)

\* Every summary under way is of more than one state from now on.
Moving ==
    reader' = [r \in Readers |->
                 IF reader[r].pc \in {"by_type", "by_entity", "top"}
                   THEN [reader[r] EXCEPT !.moved = TRUE] ELSE reader[r]]

PublishRow(p, d, at, w) ==
    /\ Len(snap) < MaxSnapshots
    /\ \A i \in DOMAIN snap :
          /\ snap[i].inputs.at # at
          /\ snap[i].by = w => snap[i].inputs.at < at
    /\ Ledger!Publish([property |-> p, inputs |-> [doc |-> d, at |-> at], source |-> None,
                       by |-> w, status |-> "active"])
    /\ Moving
    /\ UNCHANGED <<property, entity>>

ChangeType(p, t) ==
    /\ ~property[p].deleted
    /\ property[p].type # t
    /\ property' = [property EXCEPT ![p].type = t]
    /\ Moving
    /\ UNCHANGED <<snap, entity>>

DeleteProperty(p) ==
    /\ ~property[p].deleted
    /\ property' = [property EXCEPT ![p].deleted = TRUE]
    /\ Moving
    /\ UNCHANGED <<snap, entity>>

DeleteEntity(e) ==
    /\ ~entity[e].deleted
    /\ entity' = [entity EXCEPT ![e].deleted = TRUE]
    /\ Moving
    /\ UNCHANGED <<snap, property>>

Changing ==
    \/ \E p \in Properties, d \in Documents, at \in Clock, w \in Writers : PublishRow(p, d, at, w)
    \/ \E p \in Properties, t \in Types : ChangeType(p, t)
    \/ \E p \in Properties : DeleteProperty(p)
    \/ \E e \in Entities : DeleteEntity(e)

PropertyRow == [type : Types, deleted : BOOLEAN]
EntityRow == [deleted : BOOLEAN]   \* an entity's name is left out

Init ==
    /\ Ledger!Init
    /\ property \in [Properties -> {row \in PropertyRow : ~row.deleted}]
    /\ entity \in [Entities -> {row \in EntityRow : ~row.deleted}]
    /\ reader = [r \in Readers |-> NoAnswer]

Next ==
    \/ Changing
    \/ \E r \in Readers : Reading(r)

Spec == Init /\ [][Next]_vars

-----------------------------------------------------------------------------
(***************************************************************************)
(* Properties.                                                             *)
(***************************************************************************)
\* Every variable has the shape its table or handler gives it.
TypeOK ==
    /\ snap \in Seq(Ledger!Row) /\ Len(snap) <= MaxSnapshots
    /\ property \in [Properties -> PropertyRow]
    /\ entity \in [Entities -> EntityRow]
    /\ \A r \in Readers :
          /\ reader[r].pc \in {"idle", "by_type", "by_entity", "top", "answered"}
          /\ reader[r].pc # "idle" => reader[r].totals.count \in 0..Cardinality(Properties)
          /\ reader[r].pc \in {"top", "answered"} => DOMAIN reader[r].byEntity \subseteq Entities
          /\ reader[r].pc = "answered" => reader[r].top \subseteq DOMAIN snap

\* Every live property that was ever valued is counted once, also one with two
\* active rows, and a summary whose four statements saw the same tables adds up:
\* both breakdowns and the list of the top ones are of the rows of its totals.
HasValue(p) == \E i \in Counted : snap[i].property = p

OneEach ==
    Cardinality(Counted) = Cardinality({p \in Properties : PropertyLive(p)
                              /\ \E i \in DOMAIN snap : snap[i].property = p})

SumOver(parts) ==
    [value |-> SumFunction([k \in DOMAIN parts |-> parts[k].value]),
     count |-> SumFunction([k \in DOMAIN parts |-> parts[k].count])]

AddsUp(a) ==
    LET all == [value |-> a.totals.value, count |-> a.totals.count]
    IN  /\ SumOver(a.byType) = all
        /\ SumOver(a.byEntity) = all
        /\ Cardinality(DOMAIN a.byEntity) <= a.totals.entities
        /\ Cardinality(a.top) = Smaller(TopLimit, all.count)
        /\ all.count <= TopLimit => SumValue(a.top) = all.value

SummaryAddsUp ==
    /\ OneEach
    /\ \A r \in Readers : reader[r].pc = "answered" /\ ~reader[r].moved => AddsUp(reader[r])

\* A property that is in the portfolio stays there, whatever is published for
\* it, until it or its entity is deleted.
NeverVanishes ==
    [][\A p \in Properties : HasValue(p) /\ PropertyLive(p)' => HasValue(p)']_tables

\* Where the valuations of a property are published by one stream of requests
\* the summary counts the one published last, also when it is of an earlier
\* date than the one before; when they are published in the order of their
\* dates, the last year of the time series has it too.
Published(p) == {i \in DOMAIN snap : snap[i].property = p}
Serial(p) == \A i, j \in Published(p) : snap[i].by = snap[j].by
InDateOrder(p) == \A i, j \in Published(p) : i < j => DateOfRow(i) <= DateOfRow(j)

CurrentFigure ==
    \A p \in Properties :
        (PropertyLive(p) /\ Published(p) # {} /\ Serial(p)) =>
            LET newest == Max(Published(p))
            IN  /\ newest \in Counted
                /\ InDateOrder(p) => newest \in YearRows(YearOf[snap[newest].inputs.doc])
=============================================================================
