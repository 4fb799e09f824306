# Verification of the property valuation model

TLA+ specifications of the API that stores property valuations and imports
them from Excel workbooks (`src/packages/api`), with TLC configurations that
check them on small instances and proofs that TLAPS checks for all instances.

Paths below are relative to `src/`; `API/` stands for
`packages/api/src/api/`, `ENG/` for
`packages/valuation_engine/src/valuation_engine/`.

## 1. The system

A FastAPI process (one event loop, handlers are coroutines) over a PostgreSQL
database at its default isolation level READ COMMITTED, a pool of ten
connections, and a Supabase storage bucket. A pure Python engine computes a
valuation from its inputs. Handlers interleave at every `await`; each SQL
statement outside `conn.transaction()` commits by itself.

| Component | Source | State it keeps | Operations |
|---|---|---|---|
| snapshot publishing | `API/routers/snapshots.py`, `API/queries/snapshot.py` | `valuation_snapshot` | supersede the active rows, insert the new one, audit, in one transaction |
| property registry | `API/routers/properties.py`, `API/queries/property.py` | `property` (with `deleted_at`) | create, update, soft delete |
| entity registry | `API/routers/entities.py`, `API/queries/entity.py` | `entity` (with `deleted_at`) | create, update, soft delete |
| audit log | `API/audit.py` | `audit_log` | one insert beside every change |
| import upload | `API/routers/imports.py` (`create_import`) | `import_batch`, `import_item`, bucket | batch row, then per file: upload, placeholder row; starts the background task |
| background parsing | `API/services/parse_worker.py`, `matcher.py` | items, `import_batch.status` | parse, compute, match, mark each item; then `review` |
| import review | `API/routers/imports.py` (`patch_import_item`, `cancel_import`) | items, status, bucket | accept, edit or reject an item; cancel the batch |
| commit loop | `API/services/commit_worker.py` | items, snapshots, status, bucket | one publishing transaction per item, then close the batch |
| workbook storage | `API/services/storage.py` | bucket `imports` | upload, download, signed link, delete all of a batch |
| engine | `ENG/calculate.py`, `escalation.py`, `warnings.py` | none | escalate rents and expenses, capitalise, warn |
| workbook parser, renderer | `ENG/excel/` | none | workbook to inputs and back |
| exports, branding | `API/routers/exports.py`, `API/services/exports.py`, `branding.py` | none (answers may be cached) | PDF and XLSX of a snapshot |
| portfolio | `API/routers/portfolio.py`, `API/queries/portfolio.py` | none | sums over the latest active snapshots |
| auth, users | `API/auth.py`, `API/queries/app_user.py` | `app_user` | token check, upsert of the caller |
| connection pool | `API/db.py` | ten connections | acquire with a timeout, release |

What makes it correct, and where it is hard:

* **One current figure per property.** Publishing flips the active rows of the
  property and inserts a new one. Two overlapping transactions do not see each
  other's insert, and each waits for the rows the other has flipped.
* **Deleting is allowed only for what has no live children.** The check and
  the delete are separate statements.
* **A workbook becomes one valuation, the reviewed one.** The parser, reviewers,
  cancels and commit loops all write items and the batch status, each after a
  status check made in an earlier statement; the commit loop works on copies.
* **Nothing is stuck or lost.** The parser is a task of the process that took
  the upload; the closing of a batch is several writes without a transaction;
  row locks and pooled connections are waited for.
* **The audit log tells what happened**, also for requests that race.

`PROJECT.json` lists these hazards one by one, at their lines, with the
properties that watch them.

## 2. The modules

| Module | What it is |
|---|---|
| `SnapshotLedger` | abstract: an append-only table of valuations, what readers may rely on |
| `SnapshotStore` | publishing and property deletion, statement by statement, with row locks |
| `ImportPipeline` | one import batch from upload to its valuations, over `SnapshotStore` |
| `Registry` | entities and properties, created, patched and deleted, with their audit rows |
| `Reports` | the portfolio's summary and time series, over `SnapshotLedger` |
| `Valuation` | the engine and `POST /calculate` |
| `Workbook` | the Excel file, rendered, edited, parsed and valued again, over `Valuation` |
| `Admission` | connections and users: how a request gets to work |
| `SnapshotStoreProofs`, `ImportPipelineProofs`, `RegistryProofs`, `ValuationProofs`, `WorkbookProofs`, `AdmissionProofs`, `ReportsProofs` | theorems about them |
| `RecursionProofs` | lemmas about sums over finite sets, for the engine, the workbook and the reports |
| `MCSnapshotStore`, `MCImportPipeline`, `MCRegistry`, `MCReports`, `MCValuation`, `MCWorkbook`, `MCAdmission` | instances for TLC |

How they fit: `SnapshotStore` implements `SnapshotLedger`; `ImportPipeline` is
checked and proved to change the tables only as `SnapshotStore` does; `Reports`
reads tables that change as `SnapshotLedger` allows. So what is shown of the
reports holds whatever publishes. `Valuation` and `Workbook` have no concurrency,
and `Admission` is beside the others: each request of theirs passes it first.

### SnapshotStore

`snap` is the table of valuations in commit order; `tx[w]` is the request a
*writer* is handling and `del[d]` the delete a *deleter* is handling. A writer
or deleter is a client that sends its requests one after another; concurrency
is having several. Actions follow the statements of `create_snapshot`:
`CheckProperty` (property lookup and engine), `Scan` and `LockRow` (the UPDATE
of `supersede_active`), `Write` (insert, audit row, commit), `Abort`.

The UPDATE is two kinds of steps because that is where READ COMMITTED shows:
its targets are the active rows committed when it starts (`Scan`); each is then
locked, waiting for a transaction that holds it, and re-checked once it is free,
so that a row superseded meanwhile is skipped (`LockRow`). The statement has no
`ORDER BY`, so targets are locked in any order, and two requests can wait for
each other. The deadlock detector of the database then makes one of their
statements fail (`BreakDeadlock`, a step of `Abort`), and its request ends with
an error. A row that another transaction inserts in the meantime is not a target.

`SnapshotStore` implements `SnapshotLedger` (`LedgerSpec`): the mapping is the
identity on `snap`. The ledger says that rows are only appended, that a row
changes at most once, from active to superseded, when a newer row of its
property appears, and that a writer's own earlier rows are always flipped. It
does not say that one row is active, because that is not so (section 4).

### ImportPipeline

`status` is `import_batch.status`; `item[f]` the `import_item` row of workbook
`f`; `files` the objects in the bucket; `worker` the upload request and then the
background task; `patch`, `cancel`, `commit` the requests of each kind of
client. Every `await` is a step, and what a handler read before it is kept in
its record (`patch[r].body`, `commit[k].seen`). The transaction of a commit
loop's item is the one of `SnapshotStore`: the module takes `SnapshotStore` with
the committers among its writers, and `StoreSpec` checks that the pipeline never
touches the tables otherwise.

Failures: `WorkerDies` (an upload or a statement outside the per-item guard
fails, or the process restarts), `PatchFails`, `CancelFails`, `CommitFails`,
`CommitItemFails` before an item's transaction and `CommitItemAborts` in it.

The workbooks of an upload may have equal names, and names that meet another's
suffixed one. `Stored` is the code's `seen` counter with the cut at 200
characters; a name that is taken makes the storage service raise
(`UploadRefused`), which leaves the batch half uploaded and in `parsing`.

Abstractions: an inputs document is a model value, valid and computable
(`Inputs`) or not (`Refused`); a parse warning counts as "ok"; a workbook may
match any live property, or none, as its name decides; names are sequences of
parts, a suffix being one part; audit rows about batches and items, which
nothing reads back, are left out, and so are notes, scores, computed results
and timestamps.

### Registry

`row` holds the rows of both tables, `log` the audit rows in commit order, and
`req[c]` the request client `c` is handling, with what it read. Handlers look a
row up (`FindParent`, `FindToUpdate`, `FindToDelete`), a delete counts children
(`CountChildren`), and a transaction writes the row and its audit row
(`CreateEntity`, `CreateProperty`, `Update`, `SoftDelete`) or rolls back
(`Fail`). The transaction is one step: its UPDATE holds the row lock until the
commit, and a transaction that waited for the lock sees the committed row. The
lookups are earlier steps, so everything they say may be stale by then. The
"before" of an audit row is such an old lookup, the "after" is what the
statement returned.

Whether a property has active snapshots belongs to `SnapshotStore`; here a
delete of a property may or may not pass that check. `updated_at` is left out,
and fields and their values are model values.

### Valuation

`inputs` is the body of the last `POST /calculate` and `result` its answer;
each preview may follow any other, so that properties can compare two of them.
The operators follow `resolve_rent`, `calculate`, `_round_to_increment` and
`detect_warnings`. Every Decimal of a body (rents, areas, rates of parking and
expenses as well as percentages) is a number of parts of `Unit`, so that with
`Unit` a power of ten it has so many digits after the point. What the engine makes
of them is exact, which it is in the code as long as 28 digits do: an escalated
rent counts parts of `Compound`, an income parts of `Scale`, which is fine enough
for `MaxCycles` escalations, and a value is a fraction of such numbers.
`ValuationInput` has the limits of the Pydantic model, and a body outside them is
a 422 that changes nothing. Messages of warnings and the descriptive fields are
left out.

### Workbook

`book` is the file at hand: a sequence of rows, each the kind of its label and
the cells of the columns the parser reads. `Preview` is the preview of
`Valuation`; `Export` is `render_workbook`; the owner then inserts or deletes a
row, overwrites a cell or moves the date to another column (`InsertRow`,
`DeleteRow`, `EditCell`, `MoveDate`), or opens the file in Excel, which calculates
its formulas (`Recalculate`); `Upload` is `parse_workbook`, the engine and the recompute check of the parse worker, and
`report` what the item is told. The label searches start where the code's do:
each section's search goes on from the row the one before ended at, a section
ends at its subtotal or at two blank rows. Labels that several sections could
confuse are all there.

The conversions are those of the code. `render_workbook` writes every figure but
the bays through `float()`, and the parser reads the Decimal that a float prints:
`Float` takes a number to the nearest one of `Doubles`, the numbers that survive
this. A cell may hold words, and `AsDecimal` and `AsPct` say what `_read_decimal`
and `_read_pct` make of them ("R 1,000" is a number to the one only, "8%" to the
other only). `_read_parking` looks for zero before `int()` (`Truncated`), so that
half a bay is a line of no bays, and `ReadDate` takes the first date in columns
E, D, C and B.

Left out: names, descriptions and bay types, which go
through as they are, styles and number formats, and labels spelt otherwise than
the renderer's (the regular expressions accept several spellings of each).
The loops over a section become the set of its lines (`SectionLines`) and the
elements of a sequence at the lines that count, in order (`Chosen`); a line's
place among them is the number of lines up to it.

### Reports

`snap` is the ledger with the transaction's start time in each row (`at`, which
`created_at` is, and which is not the order of commits). A reader goes through
the four statements of the summary (`ReadTotals`, `ReadByType`, `ReadByEntity`,
`ReadTop`), each on the tables of its own moment, or fails between two.
`Latest` is the `distinct on` of the common table expression. Market values are
any integers, losses included. Deletions of properties and entities may come at
any time, because their checks can be overtaken (section 4).

### Admission

`owner` lends connections, `role` is `app_user`, `req[c]` the request of a
client. A request waits for a connection, is admitted, authenticated (which
provisions its user), and works. Commits and uploads then want a second
connection while they keep the first: the commit loop acquires one for the list,
one per item and one to close, and an upload's background task runs before the
framework leaves the request's dependencies (FastAPI 0.136.1 of
`packages/api/uv.lock`). All waits end after ten seconds.

## 3. The runs

Clients of one kind, workbooks and documents are interchangeable; the runs
`import_review`, `registry` and `reports`, which check no liveness, use that
symmetry.

| Run | Instance | States | Checks |
|---|---|---|---|
| `store` | 2 properties, 2 writers, 2 deleters, 3 rows, fair | 230 000 | `TypeOK`, `NewestIsActive`, `OneActivePerWriter`, `DeletedOnce`, `LockExclusive`, `LedgerSpec`, `RequestsEnd` |
| `store_overlap` | 1 property, 2 writers, 3 rows | | finds `OnlyLatestActive` violated |
| `import_review` | 1 workbook, a reviewer, a canceller, 2 committers, 2 rows | 614 000 | `TypeOK`, `ReviewWaitsForParse`, `ReviewHasEveryItem`, `AcceptedIsReady`, `Provenance`, `OneSnapshotPerCommitter` |
| `import_batch` | 2 workbooks with names among `a` and `a__1`, a committer, a valuer, a deleter, 3 rows, nobody cancels, fair | 69 000 | `SourcesUntilCommitted`, `StoreSpec`, `BatchAdvances`, `ParsingEnds`, `ImportRequestsEnd` |
| `import_double` | 1 workbook, 2 committers | | finds `OneSnapshotPerItem` violated |
| `import_reopened` | 1 workbook, a canceller, a committer, fair | | finds `TerminalIsFinal` violated |
| `registry` | 1 entity, 1 property, 2 clients, 2 columns, 2 values, 4 audit rows | 132 000 | `TypeOK`, `AuditTellsRows`, `BeforeWasTrue`, `DeletedIsFinal`, `NoLostUpdate` |
| `registry_orphans` | the same with 1 column and 1 value | | finds `NoOrphans` violated |
| `workbook` | 1084 inputs, 4 of them exported, up to 2 edits of a file | 78 600 | `BookTypeOK`, `CyclesAreAnniversaries`, `ValueIsNearest`, `OpexBandIsOfIncome`, `BetterIsNoCheaper`, `ExportKeepsFigures`, `RoundTrip`, `AuditInExcel`, `BlankRowHarmless` |
| `workbook_vacancy` | the 4 exported files, 1 edit | | finds `RequiredSectionsPresent` violated |
| `reports` | 2 properties of 2 entities, 2 documents, 2 types, 2 writers, a reader, 2 rows | 330 000 | `TypeOK`, `SummaryAddsUp`, `CurrentFigure`, `NeverVanishes` |
| `admission` | 3 clients, 2 connections, 1 user, commits of up to 2 items, fair | 61 000 | `TypeOK`, `GridlockTakesAllConnections`, `RequestsEnd` |

Bounds. `MaxSnapshots` stops requests from starting once the table has so many
rows. Two active rows of one property need two overlapping writers; two rows
locked crosswise need two such rows and two requests that find them both, so
three rows show every situation the store can be in with respect to one
property. In the pipeline the interesting cases of one item (accepted, edited,
committed twice, reopened) need one workbook; those of a batch (one item open,
one committed; one uploaded, one not; a suffix that meets a name) need two, and
a name of at most two parts. In the registry two requests for one row, of two
columns that keep or change their value, show every race; a create, two changes
and a delete fill the log. The inputs of `workbook` contain both sides of every
threshold of a date, ties of the rounding above and below zero, and net losses;
`MaxCycles` is the largest number of escalations among them. `Unit` is 5, so that
amounts and areas may have fifths. An edit empties a cell, or puts into it 2 parts
(a fraction of a bay, of a rand), "R 1.6" or "20%". The doubles are those
up to 20 and every tenth number above, so that one of the exported files has a
rent that loses a digit on which the rounding depends. Two edits of a file make
sections lose their end and run into the next one. In `reports` two rows
are two active rows of one property, a correction that is dated back, or one
row for each of two properties; the older document has the higher value, so
that date, time and value order the rows differently. In `admission` two
connections are the fewest that two requests can take all of, with a third one
waiting outside.

Deadlock is checked in `reports` and `admission`. The others stop when the row
bound is reached or the batch is done with and no request is open: clients need
not act.

Fairness. The event loop resumes every coroutine whose `await` is done, so each
statement of a started request is weakly fair, and in `Admission` the timer of
a wait is such a step. PostgreSQL serves the waiters of a row lock in order, so
`LockRow`, which other writers can disable again and again, is strongly fair.
Writers that wait for each other in a circle would wait for ever; the detector of
the database looks for such circles after `deadlock_timeout`, and one of them is
made to fail.
No request has to be sent, and no failure has to happen; a liveness property is
about requests and batches that were started. `ParsingEnds` excepts a worker that
died, because after a restart nothing takes a batch in `parsing` up again, and an
upload that was refused, which it allows only where a suffixed name meets
another.

## 4. What the runs show that the documents do not say

* `store_overlap`: two overlapping publishing requests leave two active rows.
  What does hold is that the newest row is active and that the extra rows come
  from different clients.
* `import_double`: two overlapping commits publish one workbook twice. One
  client that waits for its answer cannot (`OneSnapshotPerCommitter`), but a
  client that retries after a timeout is two.
* `import_reopened`: `set_status` has no condition on the old status, so a
  cancelled batch can become committed, or go to review when the parser ends.
* `registry_orphans`: a property created while its entity is deleted is live
  under a deleted entity.
* `workbook_vacancy`: a workbook without its vacancy row is accepted and valued
  as fully let; the error the parser collected is read only when there are no
  inputs. The design document wants such an item rejected or edited.

Seen while modelling and not given a run:

* Registry and store. A valuation published between the count and the UPDATE of
  `delete_property` stays active on the deleted property. A racing update of a
  registry row leaves audit rows whose before and after do not chain.
* Imports. A PATCH between `all_items_terminal` and `set_status` leaves a
  committed batch with an open item. A committed item that is PATCHed becomes
  accepted again and is never listed again, so that its batch stays in review
  unless it is rejected. An edit made while the loop holds its copy is not what
  the snapshot shows. A rejection stores the inputs it was sent with. A cancel
  whose storage call raises has no audit row and keeps its workbooks, as does an
  upload that goes on after a cancel. The `skipped` of a commit's summary counts
  items that were committed in the same call. A workbook that matches one
  property is accepted by the parser also with a recompute mismatch.
* Workbooks. A section ends at two blank rows, and lines below them are dropped
  without a word. "Operating expenses" without a later "Sub total", or a tenant
  header without tenant rows, give an item without inputs and without an error
  that says why; a sheet without a tenant header is looked at in its row 0,
  which raises. A negative market value in a sheet is never a recompute
  mismatch. The formulas of an exported sheet do not escalate rents, and a round
  trip loses the dates of leases and escalations, the rounding, parking lines
  without bays, and the digits of an amount that a float does not have (the last
  is told in the docstring of `test_roundtrip.py`; the market value may change
  with them where it is close to a tie). Half a bay is accepted, counted as none,
  and gone after the next export, although `test_roundtrip.py` expects as many
  parking lines as before.
* Engine. The percentage in the opex warning is of today's rents without
  parking, the one in the result of escalated rents with parking. Escalation
  counts calendar anniversaries, as `resolve_rent` says; the design document's
  formula (days over 365.25) is older, and counts one less on an anniversary
  after a common year.
* Reports. The time series has no filter on status or on deleted entities. A
  summary that a change overtakes need not add up.
* Exports. The PDF and the sheet of a snapshot are answered as `immutable`, under
  an ETag that is the snapshot's id, and `API/routers/exports.py:3` says
  "Snapshots are immutable, so the cache is trivially correct." What a file shows
  is more than the snapshot: the names of the property and of its entity, the
  address, the branding and the time of generation
  (`API/services/exports.py:105`). All but the last can be changed, and a kept
  file goes on showing the old ones. What the snapshot itself says in a file
  cannot change, so there is nothing to check about it, and no module has a
  cache. `get_with_property` says it returns nothing for a soft-deleted property,
  and its query does not ask.
* Pool. A slow statement raises the same `TimeoutError` as a full pool, and is
  answered 503 "connection unavailable". An upload keeps its connection for as
  long as its background task runs.

## 5. The proofs

TLAPS proves the theorems below for all values of the constants that satisfy the
modules' assumptions. Each argument is an inductive invariant, one lemma per
kind of step, and the rule of the invariant by temporal logic.

`SnapshotStoreProofs`, for any sets of writers, deleters, properties, inputs
and sources, and any bound on rows. The only assumption on a constant is that
the bound is a natural number; the theorem on a single stream assumes that
there is one writer.

| Theorem | States |
|---|---|
| `StoreTyping` | `TypeOK` |
| `StoreLocks` | `LockExclusive` |
| `StoreNewestIsActive` | `NewestIsActive` |
| `StoreOneActivePerWriter` | `OwnRowsTargeted`, `OneActivePerWriter` |
| `StoreSerialOnlyLatestActive` | with one writer, `OnlyLatestActive` |
| `StoreImplementsLedger` | the store implements `SnapshotLedger` |
| `StoreDeletedOnce` | `DeletedOnce` |

The argument. `LockInv` adds to `LockExclusive` that targets are rows
of the request's property (`Targets`); it does not depend on the order in which
rows are locked; it is inductive with `TypeOK`, because
a commit flips exactly the rows it has locked, and those no other transaction
holds. `NewestIsActive` is inductive on top of it: a flip hits locked rows, and
the same step appends a newer row of that property. `OwnInv` joins
`OneActivePerWriter` with the reason for it, `OwnRowsTargeted`: between a
writer's scan and its commit no own row can appear, and a target that it skips
was superseded. The ledger needs exactly this: the rows flipped include all own
ones. `DeletionInv` links the audit log to the deleted properties.

`ImportPipelineProofs`, for any workbooks, names, properties, documents and
clients, from `ImportAssumption` and `NoItem` (an item is not `None`).

| Theorem | States |
|---|---|
| `PipelineTyping` | `TypeOK` |
| `PipelineIsStore` | `StoreSpec`: every step is a step of `SnapshotStore` or leaves its tables alone |
| `PipelineReviewWaits` | `ReviewWaitsForParse` |
| `PipelineHasEveryItem` | `ReviewHasEveryItem` |
| `PipelineAcceptedIsReady` | `AcceptedIsReady` |
| `PipelineProvenance` | `Provenance` |
| `PipelineOneSnapshot` | `OneSnapshotPerCommitter` |
| `PipelineBatchAdvances` | if nobody cancels, `BatchAdvances` |
| `PipelineSources` | if nobody cancels, `SourcesUntilCommitted` |

The argument. The transaction in a commit loop is `SnapshotStore`'s, so the
module takes an instance `SP` of `SnapshotStoreProofs`; the lemmas named `Same...`
say that its copy of the store is the pipeline's, and `StepOfStore` carries its
results over. `Typed` adds to `TypeOK` that what handlers hold are rows that are
there. `ReviewWaitsForParse` is inductive by itself; `ParsedInv` (what the worker
has left to do is what is not yet parsed) gives `ReviewHasEveryItem`. For
`AcceptedIsReady` the PATCH handler's earlier look is the difficulty: `PatchInv`
says that what it checked still holds when it writes, because the parser is
through by then and nothing takes a link or inputs away. `ProvInv` needs two
things beside `Provenance`: a transaction's record is of the item its committer
is at (`TxInv`), and no workbook has a snapshot before the parser is through
(`ManualFirst`).
`CopiesInv` says that a committer's copies are of items it has not valued. The
last two theorems are about uploads and commits alone: `StatusInv` says that the
status follows how far the worker is, and that a commit closes the batch before
it removes the workbooks; `SourcesInv` says that
items and the upload under way have paths of their own, all of them in the
bucket until a closing commit cleans up. With a cancel both fail, as
`import_reopened` shows for the first.

`RegistryProofs`, for any entities, properties, columns, values and clients,
and any bound on the log. The assumptions: ids of entities and properties
differ, and `None` is neither an id nor a row.

| Theorem | States |
|---|---|
| `RegistryTyping` | `TypeOK` |
| `RegistryAuditTellsRows` | `AuditTellsRows` |
| `RegistryBeforeWasTrue` | `BeforeWasTrue` |
| `RegistryDeletedIsFinal` | `DeletedIsFinal` |
| `RegistryNoLostUpdate` | `NoLostUpdate` |

The argument. `NextRecords` says what any step does to the tables: nothing, or
one audit row appended together with the row it tells (`Records`). From this
`AuditTellsRows` and `RowsTold` (the current row of an id is the "after" of an
audit row) are inductive. `BeforeWasTrue` is not by itself: what is written as
"before" was read by an earlier step, so `AuditInv` also says of every row a
request holds that the log told it and that it was live (`HeldRowsTold`).
`DeletedIsFinal` speaks of the log only, and is inductive with `DeletedRowsDead`:
the row of a logged deletion is there and not live, so neither an insert nor an
UPDATE with `deleted_at is null` finds it. `NoLostUpdate` follows from typing,
because `Written` starts from the current row.

`RecursionProofs` has no theorem of a specification. The prover knows no
induction over data, and the sums of the code are recursive. Its lemmas argue by
least counterexamples instead: a set of naturals has a least element
(`LeastNumber`), a collection of subsets of a finite set a least one
(`LeastSubset`), both from library theorems about well-founded relations. So the
recursive definition of a fold has one solution (`IsSumUnique`, `IsSumExists`), a
sum does not depend on the order in which its elements are taken (`SumTakeOut`),
and sums are monotonic, linear, additive over a partition (`SumGrouped`) and
unchanged by renaming (`SumRenamed`).

`ValuationProofs`, for any dates of the calendar and any inputs, from the
assumptions of `Valuation`: the dates are dates, the bodies are ones the Pydantic
model accepts, and `MaxCycles` bounds their escalations, as its name says. The
amounts of a body are multiples of 1/`Unit`, for any `Unit`; so "all inputs" are
all bodies whose Decimals have a bounded number of digits after the point, which
every finite set of bodies has.

| Theorem | States |
|---|---|
| `ValuationCycles` | `CyclesAreAnniversaries` |
| `ValuationNearest` | `ValueIsNearest` |
| `ValuationTyping` | `TypeOK` |
| `ValuationBandOfIncome` | `OpexBandIsOfIncome` |
| `ValuationMonotonic` | `BetterIsNoCheaper` |

The argument. Every answer is `Calculate` of its body (`Answered`), so all are
lemmas about operators. `CyclesCountAnniversaries` compares the code's pair of
month and day with the k-th anniversary on the calendar; they differ only for
29 February in a common year, and no date lies between. `HalfUpIsNearest`
bounds the quotient of `HalfUp` on either side of zero. `PowerSteps` says that
the recursive function `Power` is what its equations say, from which powers are
natural numbers, multiply and grow. `EffectiveRentNat` and `IncomeParts` then
type every sum. The two sums of `OpexBandIsOfIncome` differ by the factor
`Compound`, taken out by `SumTimes`. For `BetterIsNoCheaper` one lemma per
stage (`CyclesGrow`, `EffectiveRentGrows`, `IncomeGrows`, `NetIncomeGrows`,
`HalfUpMonotonic`, `RoundingGrows`) carries the order through the engine, also
where a net income is a loss.

`WorkbookProofs`, for any exported valuations, with tenants and parking of any
number, and any number of edits. Beside those of `Valuation` the assumptions
say that an empty cell, words, numbers and dates are told apart, that words say a
number or none, whatever they are, and that floating point has 0, 1 and the least
part (`DoublesAssumption`), so that nothing above zero is written as zero and
nothing up to 1 as more than 1; otherwise `Doubles` is any set of numbers. Excel's own
arithmetic is exact here.

| Theorem | States |
|---|---|
| `WorkbookTyping` | `BookTypeOK` |
| `BookRefinesValuation` | `Spec` of `Valuation`: the engine's theorems hold beside the file's |
| `WorkbookKeepsFigures` | `ExportKeepsFigures` |
| `WorkbookBlankRowHarmless` | `BlankRowHarmless` |
| `WorkbookRoundTrip` | `RoundTrip` |
| `WorkbookAuditInExcel` | `AuditInExcel` |

The argument. Two invariants are inductive together: `Stored` (the file is one
of an exported valuation, the report is what the parser and the engine make of
it) and `AsExported` (a file that was not edited is, row for row, the one that
was rendered, `Rendered`, calculated or not; an edited one shows no value).
Neither property about reading is inductive by itself, since the report is
written in one step of rows that were written in others.

The rest is about the operators, and takes `float()` apart from the layout. A
rendered file is the exact sheet of the document whose figures have gone through
`float()`: `Render(i)` is `Exact(Floated(i))` (`FloatedIsRendered`). What the parser
finds in an exact sheet is the document but for what a sheet has no column for
(`Reread`), and `Kept(i)` is `Reread(Floated(i))` (`FloatedIsKept`). Whatever came
out of a file survives a second time, because `Float` leaves a double alone
(`KeptIsKept`).

About exact sheets `RenderIsRendered` says on which row the renderer puts what.
`Spread` is the same rows in the same order with one blank row anywhere, or none
(`AsItIs`, `BlankPut`). `SpreadLaidOut` says of such a sheet on which row every
label is, that no label is anywhere else, that tenants and parking lines are in
order between theirs, and that no two blank rows are next to each other inside a
section, except in an empty one of parking. From that `TenantsRead`, `ParkingRead`
and `FiguresRead` follow the parser from section to section, each search starting
where the one before ended, and `LayoutParsed` joins them: what is parsed is
`Reread` of the document, without errors. This gives `ExportKeepsFigures` and
`BlankRowHarmless`. For `RoundTrip`, `ParsedDocument` says what any file at all can
be read as, half bays among it, and `KeptIsInput` that what is kept of it is a
document again. For `AuditInExcel`, `SheetAddsUp` shows that the sum over all rows
of a sheet is the one over the tenants and parking of the document, because no
other row has numbers in both columns; `BaysAddUp` that parking without bays does
not count; `HalfUpScaled` that a common factor, such as the finer parts of the
engine, does not change the rounding; and `DigitsKept` that a document of doubles
is kept as it is. Calculating the file keeps it rendered (`ValuedIsRendered`).

`AdmissionProofs`, for any clients, users and connections, and any number of
items.

| Theorem | States |
|---|---|
| `AdmissionTyping` | `TypeOK` |
| `AdmissionGridlock` | `GridlockTakesAllConnections` |

The argument. `HoldingInv` says which connections a request at each of its steps
has: none before it is admitted, one until it uses a second, and that second one
is its own; only commits and uploads ever want two.

`ReportsProofs`, for any properties, entities, documents, writers and readers
that satisfy `ReportsAssumption`: finitely many properties and entities, each
property of an entity, and dates that order documents as their years do. Market
values are any integers.

| Theorem | States |
|---|---|
| `ReportsTyping` | `TypeOK` |
| `ReportsCurrentFigure` | `CurrentFigure` |
| `ReportsNeverVanishes` | `NeverVanishes` |
| `ReportsCountsOnce` | `OneEach`, a conjunct of `SummaryAddsUp` |
| `ReportsAddUp` | `SummaryAddsUp` |

The argument. `RowsInv` is what the ledger's steps keep: rows of one stream are
in the order of their creation and all but the last of a property superseded
(`StreamsOrdered`), a superseded row has a later one of its property
(`SupersededByLater`), and no two were created at the same moment
(`StampsApart`). So a valued property always has an active row (its last), and
`distinct on` picks exactly one: `Before` is a strict order, and a finite set
has a last element of such an order (`LastExists`, from the well-foundedness of
strict inclusion). The other results follow without looking at the readers,
except typing, which needs `ReadersInv`. For `SummaryAddsUp`, `GroupsAddUp` says that the
sums and counts over the groups of any partition of the counted rows are those
over all of them (`SumGrouped`), and `UnmovedInv` that a reader which no change
overtook holds what the tables say at this moment, and adds up once it is
answered (`Consistent`).

Only model-checked: liveness (`RequestsEnd` of the store and of admission,
`ParsingEnds`, `ImportRequestsEnd`), whose fairness speaks of `ENABLED`, beyond
the prover; the absence of deadlocks in `reports` and `admission`; and what the
violated runs find. Every invariant and every action property of the passing
runs is a theorem.

## 6. Not modelled

* The verification of a token and the fetching of its keys: a library and a
  service. `Admission` has a user's token verify or not.
* Health probes, logging, request ids, the wording and layout of errors and
  pages, the PDF's layout, CORS: no state of the system, and no property here is
  about them.
* Row level security: the policies are for direct clients of the database; the
  API connects with a role they do not restrict.
* The page size of the storage service's listing, which decides whether
  `delete_prefix` removes everything of a large batch: no code of the repository
  states it.
* Scores and suggestions of the matcher, which only inform a reviewer; audit
  rows of batches and items, which nothing reads back; the listing endpoints,
  which only read.
* The limit of 28 digits of the engine's decimals: fractions are exact here.
* Floating point beyond its rounding to a near number: amounts that are too large
  or too small for it, the words "NaN" and "Infinity", which Python takes for
  numbers, and the rounding of Excel's own calculations.
* Caches of exported files: section 4 says what a kept file can get wrong.

What would come next: the matcher as an operator over names; audit rows of the pipeline, to state which changes of a batch go
untold; two batches at once, whose only meeting point, the tables, is covered by
`StoreSpec`.
