------------------------ MODULE ImportPipelineProofs -------------------------
(***************************************************************************)
(* Theorems about ImportPipeline, for any sets of workbooks, names,        *)
(* properties, documents and clients, and any bounds.                      *)
(***************************************************************************)
EXTENDS ImportPipeline, FiniteSetTheorems, TLAPS

\* What is proved about SnapshotStore holds of the store of the pipeline,
\* whose definitions are the same.
SP == INSTANCE SnapshotStoreProofs
        WITH Sources <- Files \cup {Manual}, Writers <- Valuers \cup Committers

LEMMA SameInit == Store!Init <=> SP!Init
BY DEF Store!Init, SP!Init, Store!Idle, SP!Idle

LEMMA SameTypes == Store!TypeOK <=> SP!TypeOK
BY DEF Store!TypeOK, SP!TypeOK, Store!Row, SP!Row, Store!Ledger!Row, SP!Ledger!Row,
       Store!Ledger!Status, SP!Ledger!Status, Store!AuditRow, SP!AuditRow, Store!Idle,
       SP!Idle, Store!Tx, SP!Tx, Store!Deletion, SP!Deletion

LEMMA SameActiveRows == ASSUME NEW p PROVE Store!ActiveRows(p) = SP!ActiveRows(p)
BY DEF Store!ActiveRows, SP!ActiveRows, Store!Ledger!ActiveRows, SP!Ledger!ActiveRows

LEMMA SameCheckProperty ==
    ASSUME NEW w, NEW p, NEW v, NEW src
    PROVE  Store!CheckProperty(w, p, v, src) <=> SP!CheckProperty(w, p, v, src)
BY DEF Store!CheckProperty, SP!CheckProperty, Store!Idle, SP!Idle

LEMMA SameScan == ASSUME NEW w PROVE Store!Scan(w) <=> SP!Scan(w)
BY SameActiveRows
   DEF Store!Scan, SP!Scan, Store!Superseding, SP!Superseding

LEMMA SameLockRow == ASSUME NEW w PROVE Store!LockRow(w) <=> SP!LockRow(w)
BY DEF Store!LockRow, SP!LockRow, Store!HeldByAnother, SP!HeldByAnother,
       Store!StillActive, SP!StillActive

LEMMA SameWrite == ASSUME NEW w PROVE Store!Write(w) <=> SP!Write(w)
BY DEF Store!Write, SP!Write, Store!NewRow, SP!NewRow, Store!Flipped, SP!Flipped,
       Store!Ledger!Superseded, SP!Ledger!Superseded, Store!Idle, SP!Idle

LEMMA SameAbort == ASSUME NEW w PROVE Store!Abort(w) <=> SP!Abort(w)
BY DEF Store!Abort, SP!Abort, Store!AfterError, SP!AfterError, Store!Idle, SP!Idle

LEMMA SameDeleting == ASSUME NEW d PROVE Store!Deleting(d) <=> SP!Deleting(d)
BY SameActiveRows
   DEF Store!Deleting, SP!Deleting, Store!FindProperty, SP!FindProperty,
       Store!CountActive, SP!CountActive, Store!SoftDelete, SP!SoftDelete,
       Store!AbortDelete, SP!AbortDelete, Store!DeletionRow, SP!DeletionRow,
       Store!StillLive, SP!StillLive, Store!Idle, SP!Idle

LEMMA SameNext == Store!Next <=> SP!Next
BY SameCheckProperty, SameScan, SameLockRow, SameWrite, SameAbort, SameDeleting
   DEF Store!Next, SP!Next, Store!Publishing, SP!Publishing

-----------------------------------------------------------------------------
(***************************************************************************)
(* The pipeline changes the tables of the store only as the store does.    *)
(***************************************************************************)

\* A copy that passes the checks of the loop has a property and inputs the
\* store accepts, so its transaction starts like a request of a valuer.
LEMMA CommitItemIsPublishing ==
    ASSUME TypeOK, NEW k \in Committers, NEW f \in Files, CommitItem(k, f)
    PROVE  Store!Publishing(k)
<1> DEFINE it == commit[k].seen[f]
<1>1. commit[k] \in Loop
  BY DEF TypeOK, BatchTypeOK, CommitItem, Idle
<1>2. it \in Item
  BY <1>1 DEF CommitItem, Loop, Copies
<1>3. it.property \in Properties /\ Effective(it) \in Inputs
  BY <1>2 DEF CommitItem, Item
<1>4. Store!CheckProperty(k, it.property, Effective(it), f)
  BY DEF CommitItem, BeginItem
<1> QED
  BY <1>3, <1>4 DEF Store!Publishing

\* Every step of the pipeline is a step of the store or leaves its tables and
\* requests as they are.
LEMMA StepOfStore == ASSUME TypeOK, [Next]_vars PROVE [Store!Next]_(Store!vars)
<1>1. CASE UNCHANGED storeVars
  BY <1>1 DEF storeVars, Store!vars
<1>2. CASE UNCHANGED vars
  BY <1>1, <1>2 DEF vars
<1>3. CASE Working
  BY <1>1, <1>3
     DEF Working, CreateBatch, UploadFile, UploadRefused, InsertPlaceholder, ListForParsing,
         ParseItem, MarkParsed, MarkParseError, FinishParsing, WorkerDies
<1>4. ASSUME NEW r \in Reviewers, Patching(r) PROVE UNCHANGED storeVars
  BY <1>4 DEF Patching, PatchCheck, PatchLoad, PatchWrite, PatchFails
<1>5. ASSUME NEW c \in Cancellers, Cancelling(c) PROVE UNCHANGED storeVars
  BY <1>5 DEF Cancelling, CancelCheck, CancelWrite, CancelCleanup, CancelFails
<1>6. ASSUME NEW k \in Committers, Committing(k)
      PROVE  Store!Publishing(k) \/ UNCHANGED storeVars
  BY <1>6, CommitItemIsPublishing
     DEF Committing, CommitCheck, CommitList, CommitItemFails, CommitSupersede, CommitWrite,
         CommitItemAborts, CommitTally, CommitClose, CommitCleanup, CommitFails,
         Store!Publishing
<1>7. ASSUME NEW u \in Valuers, Valuing(u) PROVE Store!Publishing(u)
  BY <1>7 DEF Valuing, Store!Publishing
<1>8. ASSUME NEW d \in Deleters, Deleting(d) PROVE Store!Deleting(d)
  BY <1>8 DEF Deleting
<1> QED
  BY <1>1, <1>2, <1>3, <1>4, <1>5, <1>6, <1>7, <1>8 DEF Next, Store!Next

-----------------------------------------------------------------------------
(***************************************************************************)
(* Typing, and which rows the steps under way are about.                   *)
(***************************************************************************)

\* What is worked on has a row: TypeOK alone would let a step change one that
\* is not there.
RowsInv ==
    /\ worker.pc = "inserting" => worker.file \in Files /\ worker.path \in Paths
    /\ worker.pc \in {"parsing", "matched"} => worker.todo \subseteq Rows
    /\ worker.pc = "matched" => worker.file \in worker.todo /\ worker.inputs \in Inputs
    /\ \A r \in Reviewers : patch[r].pc = "loaded" => patch[r].file \in Rows
    /\ \A k \in Committers :
          /\ commit[k].pc = "writing" => commit[k].file \in Rows
          /\ commit[k].pc \in {"looping", "writing"} =>
                \A f \in Files : commit[k].seen[f] # None => f \in Rows

Typed == TypeOK /\ RowsInv

\* The path of a workbook is one of Paths: a suffix is at most the number of
\* workbooks.
LEMMA StoredIsPath ==
    ASSUME name \in [Files -> Names], NEW f \in Files
    PROVE  Stored(f) \in Paths
<1>1. CASE Seen(f) = {}
  BY <1>1 DEF Stored, Paths
<1>2. CASE Seen(f) # {}
  <2>1. IsFiniteSet(Files) /\ Seen(f) \subseteq Files
    BY ImportAssumption DEF Seen
  <2>2. IsFiniteSet(Seen(f)) /\ Cardinality(Seen(f)) <= Cardinality(Files)
    BY <2>1, FS_Subset
  <2>3. Cardinality(Seen(f)) \in Nat /\ Cardinality(Files) \in Nat
    BY <2>1, <2>2, FS_CardinalityType
  <2>4. Cardinality(Seen(f)) # 0
    BY <1>2, <2>2, FS_EmptySet
  <2>5. Cardinality(Seen(f)) \in 1..Cardinality(Files)
    BY <2>2, <2>3, <2>4
  <2> QED
    BY <1>2, <2>5 DEF Stored, Paths
<1> QED
  BY <1>1, <1>2

\* A row is an item.
LEMMA RowIsItem == ASSUME BatchTypeOK, NEW f \in Rows PROVE f \in Files /\ item[f] \in Item
BY DEF BatchTypeOK, Rows

\* An item that is parsed, fails to parse, is patched or committed is an item.
LEMMA WrittenIsItem ==
    ASSUME NEW it \in Item
    PROVE  /\ \A d \in Documents \cup {None}, p \in Properties \cup {None}, x \in Resolutions :
                /\ [it EXCEPT !.parse = "ok", !.parsed = d, !.property = p,
                              !.resolution = x] \in Item
                /\ [it EXCEPT !.resolution = x, !.property = p, !.edits = d] \in Item
           /\ \A d \in Documents \cup {None} :
                [it EXCEPT !.parse = "error", !.parsed = d] \in Item
           /\ \A x \in Resolutions, n \in Nat :
                [it EXCEPT !.resolution = x, !.snapshot = n] \in Item
BY DEF Item

LEMMA ParsedIsItem ==
    ASSUME BatchTypeOK, NEW it \in Item, worker.inputs \in Inputs
    PROVE  ParsedItem(it) \in Item
<1> DEFINE x == IF worker.property = None THEN "pending" ELSE "accepted"
<1>1. x \in Resolutions /\ worker.inputs \in Documents \cup {None}
  BY DEF Resolutions, Documents
<1>2. worker.property \in Properties \cup {None}
  BY DEF BatchTypeOK
<1> HIDE DEF x
<1>3. [it EXCEPT !.parse = "ok", !.parsed = worker.inputs, !.property = worker.property,
                 !.resolution = x] \in Item
  BY <1>1, <1>2, WrittenIsItem
<1> QED
  BY <1>3 DEF ParsedItem, x

LEMMA FailedIsItem ==
    ASSUME NEW it \in Item, NEW v \in Refused \cup {None}
    PROVE  FailedItem(it, v) \in Item
<1> DEFINE d == IF v = None THEN it.parsed ELSE v
<1>1. d \in Documents \cup {None}
  BY DEF Item, Documents
<1>2. FailedItem(it, v) = [it EXCEPT !.parse = "error", !.parsed = d]
  BY DEF FailedItem, Item
<1> HIDE DEF d
<1>3. [it EXCEPT !.parse = "error", !.parsed = d] \in Item
  BY <1>1, WrittenIsItem
<1> QED
  BY <1>2, <1>3

LEMMA PatchedIsItem ==
    ASSUME NEW it \in Item, NEW b \in PatchBody
    PROVE  PatchedItem(it, b) \in Item
<1> DEFINE e == IF b.inputs = None THEN it.edits ELSE b.inputs
<1>1. /\ b.resolution \in Resolutions
      /\ b.property \in Properties \cup {None}
      /\ b.inputs \in Documents \cup {None}
  BY DEF PatchBody, Resolutions
<1>2. e \in Documents \cup {None}
  BY <1>1 DEF Item
<1>3. PatchedItem(it, b) = [it EXCEPT !.resolution = b.resolution,
                                      !.property = b.property, !.edits = e]
  BY DEF PatchedItem, Item
<1> HIDE DEF e
<1>4. [it EXCEPT !.resolution = b.resolution, !.property = b.property, !.edits = e] \in Item
  BY <1>1, <1>2, WrittenIsItem
<1> QED
  BY <1>3, <1>4

LEMMA CommittedIsItem ==
    ASSUME Store!TypeOK, NEW it \in Item
    PROVE  CommittedItem(it) \in Item
<1>1. snap \in Seq(Store!Row)
  BY DEF Store!TypeOK
<1>2. Len(snap) + 1 \in Nat
  BY <1>1
<1> QED
  BY <1>2, WrittenIsItem DEF CommittedItem, Resolutions

\* A row that is written stays a row, and so do the others.
LEMMA RowWritten ==
    ASSUME BatchTypeOK, NEW f \in Files, NEW x \in Item, item' = [item EXCEPT ![f] = x]
    PROVE  item' \in [Files -> Item \cup {None}] /\ Rows' = Rows \cup {f}
BY NoItem DEF BatchTypeOK, Rows

LEMMA InitTyped == Init => Typed
<1> SUFFICES ASSUME Init PROVE Typed
  OBVIOUS
<1>1. Store!TypeOK
  BY SameInit, SameTypes, ImportAssumption, SP!InitTypeOK DEF Init
<1>2. BatchTypeOK
  BY DEF Init, BatchTypeOK, NoWork
<1>3. RowsInv
  BY DEF Init, RowsInv, NoWork, Idle
<1> QED
  BY <1>1, <1>2, <1>3 DEF Typed, TypeOK

\* The tables of the store stay well typed.
LEMMA NextStoreTypeOK == ASSUME TypeOK, [Next]_vars PROVE Store!TypeOK'
<1>1. [SP!Next]_(SP!vars)
  BY StepOfStore, SameNext DEF Store!vars, SP!vars
<1>2. SP!TypeOK
  BY SameTypes DEF TypeOK
<1>3. SP!TypeOK'
  BY <1>1, <1>2, ImportAssumption, SP!NextTypeOK
<1>4. (Store!TypeOK <=> SP!TypeOK)'
  BY SameTypes, PTL
<1> QED
  BY <1>3, <1>4

\* What the task of create_import and parse_worker does to the batch.
LEMMA WorkingTyped == ASSUME Typed, Working PROVE BatchTypeOK' /\ RowsInv'
<1> USE DEF Typed, TypeOK, BatchTypeOK, RowsInv
<1>1. ASSUME CreateBatch PROVE BatchTypeOK' /\ RowsInv'
  BY <1>1 DEF CreateBatch, Rows
<1>2. ASSUME NEW f \in Files, UploadFile(f) PROVE BatchTypeOK' /\ RowsInv'
  <2>1. worker.pc = "uploading" /\ name \in [Files -> Names]
    BY <1>2 DEF UploadFile
  <2>2. Stored(f) \in Paths
    BY <2>1, StoredIsPath
  <2> QED
    BY <1>2, <2>2 DEF UploadFile, Rows
<1>3. ASSUME NEW f \in Files, UploadRefused(f) PROVE BatchTypeOK' /\ RowsInv'
  BY <1>3 DEF UploadRefused, Rows, NoWork
<1>4. ASSUME InsertPlaceholder PROVE BatchTypeOK' /\ RowsInv'
  <2>1. worker.file \in Files /\ Placeholder(worker.path) \in Item
    BY <1>4 DEF InsertPlaceholder, Placeholder, Item, Resolutions
  <2>2. item' \in [Files -> Item \cup {None}] /\ Rows \subseteq Rows'
    BY <1>4, <2>1, RowWritten DEF InsertPlaceholder
  <2> QED
    BY <1>4, <2>2 DEF InsertPlaceholder
<1>5. ASSUME ListForParsing PROVE BatchTypeOK' /\ RowsInv'
  BY <1>5 DEF ListForParsing, Rows
<1>6. ASSUME NEW f \in Files, NEW v \in Inputs, NEW p \in Properties \cup {None},
             ParseItem(f, v, p)
      PROVE  BatchTypeOK' /\ RowsInv'
  BY <1>6 DEF ParseItem, Rows
<1>7. ASSUME MarkParsed PROVE BatchTypeOK' /\ RowsInv'
  <2>1. worker.file \in Rows /\ worker.inputs \in Inputs
    BY <1>7 DEF MarkParsed
  <2>2. ParsedItem(item[worker.file]) \in Item
    BY <2>1, RowIsItem, ParsedIsItem
  <2>3. item' \in [Files -> Item \cup {None}] /\ Rows \subseteq Rows'
    BY <1>7, <2>1, <2>2, RowWritten DEF MarkParsed, Rows
  <2> QED
    BY <1>7, <2>3 DEF MarkParsed, NoWork
<1>8. ASSUME NEW f \in Files, NEW v \in Refused \cup {None}, MarkParseError(f, v)
      PROVE  BatchTypeOK' /\ RowsInv'
  <2>1. f \in Rows
    BY <1>8 DEF MarkParseError
  <2>2. FailedItem(item[f], v) \in Item
    BY <2>1, RowIsItem, FailedIsItem
  <2>3. item' = [item EXCEPT ![f] = FailedItem(@, v)]
    BY <1>8 DEF MarkParseError
  <2>4. item' \in [Files -> Item \cup {None}] /\ Rows \subseteq Rows'
    BY <2>1, <2>2, <2>3, RowWritten DEF Rows
  <2> QED
    BY <1>8, <2>4 DEF MarkParseError, NoWork
<1>9. ASSUME FinishParsing PROVE BatchTypeOK' /\ RowsInv'
  BY <1>9 DEF FinishParsing, Rows
<1>10. ASSUME WorkerDies PROVE BatchTypeOK' /\ RowsInv'
  BY <1>10 DEF WorkerDies, NoWork, Rows
<1> QED
  BY <1>1, <1>2, <1>3, <1>4, <1>5, <1>6, <1>7, <1>8, <1>9, <1>10 DEF Working

\* What a PATCH does to it.
LEMMA PatchingTyped ==
    ASSUME Typed, NEW r \in Reviewers, Patching(r)
    PROVE  BatchTypeOK' /\ RowsInv'
<1> USE DEF Typed, TypeOK, BatchTypeOK, RowsInv
<1>1. ASSUME PatchCheck(r) PROVE BatchTypeOK' /\ RowsInv'
  BY <1>1 DEF PatchCheck, Rows, Idle
<1>2. ASSUME NEW f \in Files, NEW b \in PatchBody, PatchLoad(r, f, b)
      PROVE  BatchTypeOK' /\ RowsInv'
  <2>1. [pc |-> "loaded", file |-> f, body |-> b] \in Loaded
    BY DEF Loaded
  <2> QED
    BY <1>2, <2>1 DEF PatchLoad, Rows
<1>3. ASSUME PatchWrite(r) PROVE BatchTypeOK' /\ RowsInv'
  <2> DEFINE f == patch[r].file
             b == patch[r].body
  <2>1. f \in Rows /\ patch[r] \in Loaded
    BY <1>3 DEF PatchWrite, Idle
  <2>2. b \in PatchBody /\ item[f] \in Item
    BY <2>1 DEF Loaded, Rows
  <2>3. PatchedItem(item[f], b) \in Item
    BY <2>2, PatchedIsItem
  <2>4. item' = [item EXCEPT ![f] = PatchedItem(@, b)]
    BY <1>3 DEF PatchWrite
  <2>5. item' \in [Files -> Item \cup {None}] /\ Rows \subseteq Rows'
    BY <2>1, <2>3, <2>4, RowWritten DEF Rows
  <2> QED
    BY <1>3, <2>5 DEF PatchWrite, Idle
<1>4. ASSUME PatchFails(r) PROVE BatchTypeOK' /\ RowsInv'
  BY <1>4 DEF PatchFails, Rows, Idle
<1> QED
  BY <1>1, <1>2, <1>3, <1>4 DEF Patching

\* What a cancel does to it.
LEMMA CancellingTyped ==
    ASSUME Typed, NEW c \in Cancellers, Cancelling(c)
    PROVE  BatchTypeOK' /\ RowsInv'
BY DEF Typed, TypeOK, BatchTypeOK, RowsInv, Cancelling, CancelCheck, CancelWrite,
       CancelCleanup, CancelFails, Rows, Idle

\* The rows a commit loop copied are items, and stay rows.
LEMMA CommittingTyped ==
    ASSUME Typed, NEW k \in Committers, Committing(k)
    PROVE  BatchTypeOK' /\ RowsInv'
<1> USE DEF Typed, TypeOK, BatchTypeOK, RowsInv
<1>1. ASSUME CommitCheck(k) PROVE BatchTypeOK' /\ RowsInv'
  BY <1>1 DEF CommitCheck, Rows, Idle
<1>2. ASSUME CommitList(k) PROVE BatchTypeOK' /\ RowsInv'
  <2> DEFINE seen == [f \in Files |-> Listed(f)]
  <2>1. \A f \in Files : Listed(f) \in Item \cup {None} /\ (Listed(f) # None => f \in Rows)
    BY RowIsItem DEF Listed
  <2>2. seen \in Copies
    BY <2>1 DEF Copies
  <2> HIDE DEF seen
  <2>3. [pc |-> "looping", seen |-> seen, file |-> None] \in Loop
    BY <2>2 DEF Loop
  <2>4. commit' = [commit EXCEPT ![k] = [pc |-> "looping", seen |-> seen, file |-> None]]
    BY <1>2 DEF CommitList, seen
  <2>5. \A f \in Files : seen[f] # None => f \in Rows
    BY <2>1 DEF seen
  <2> QED
    BY <1>2, <2>3, <2>4, <2>5 DEF CommitList, Rows
<1>3. ASSUME commit[k] \in Loop, NEW f \in Files
      PROVE  Without(commit[k], f) \in Loop
                /\ Without(commit[k], f).pc = "looping"
                /\ \A g \in Files : Without(commit[k], f).seen[g] # None
                                        => commit[k].seen[g] # None
  BY <1>3 DEF Without, Loop, Copies
<1>4. commit[k].pc \in {"looping", "writing"} => commit[k] \in Loop
  BY DEF Idle
<1>5. ASSUME NEW f \in Files, CommitItem(k, f) PROVE BatchTypeOK' /\ RowsInv'
  <2>1. [commit[k] EXCEPT !.pc = "writing", !.file = f] \in Loop
    BY <1>4, <1>5 DEF CommitItem, Loop
  <2> QED
    BY <1>4, <1>5, <2>1 DEF CommitItem, Rows, Loop
<1>6. ASSUME NEW f \in Files, CommitItemFails(k, f) PROVE BatchTypeOK' /\ RowsInv'
  BY <1>3, <1>4, <1>6 DEF CommitItemFails, Rows
<1>7. ASSUME CommitSupersede(k) PROVE BatchTypeOK' /\ RowsInv'
  BY <1>7 DEF CommitSupersede, batchVars, Rows
<1>8. ASSUME CommitWrite(k) PROVE BatchTypeOK' /\ RowsInv'
  <2> DEFINE f == commit[k].file
  <2>1. f \in Rows /\ item[f] \in Item /\ commit[k] \in Loop
    BY <1>4, <1>8, RowIsItem DEF CommitWrite
  <2>2. CommittedItem(item[f]) \in Item
    BY <2>1, CommittedIsItem
  <2>3. item' \in [Files -> Item \cup {None}] /\ Rows \subseteq Rows'
    BY <1>8, <2>1, <2>2, RowWritten DEF CommitWrite, Rows
  <2> QED
    BY <1>3, <1>8, <2>1, <2>3 DEF CommitWrite
<1>9. ASSUME CommitItemAborts(k) PROVE BatchTypeOK' /\ RowsInv'
  BY <1>3, <1>4, <1>9 DEF CommitItemAborts, Rows
<1>10. ASSUME CommitTally(k) PROVE BatchTypeOK' /\ RowsInv'
  BY <1>10 DEF CommitTally, Rows, Idle
<1>11. ASSUME CommitClose(k) PROVE BatchTypeOK' /\ RowsInv'
  BY <1>11 DEF CommitClose, Rows
<1>12. ASSUME CommitCleanup(k) PROVE BatchTypeOK' /\ RowsInv'
  BY <1>12 DEF CommitCleanup, Rows, Idle
<1>13. ASSUME CommitFails(k) PROVE BatchTypeOK' /\ RowsInv'
  BY <1>13 DEF CommitFails, Rows, Idle
<1> QED
  BY <1>1, <1>2, <1>5, <1>6, <1>7, <1>8, <1>9, <1>10, <1>11, <1>12, <1>13 DEF Committing

\* Every step of every request keeps the tables and requests well typed.
LEMMA NextTyped == Typed /\ [Next]_vars => Typed'
<1> SUFFICES ASSUME Typed, [Next]_vars PROVE Typed'
  OBVIOUS
<1>1. Store!TypeOK'
  BY NextStoreTypeOK DEF Typed
<1>2. ASSUME UNCHANGED batchVars PROVE BatchTypeOK' /\ RowsInv'
  BY <1>2 DEF Typed, TypeOK, BatchTypeOK, RowsInv, batchVars, Rows
<1>3. BatchTypeOK' /\ RowsInv'
  <2>1. ASSUME NEW u \in Valuers, Valuing(u) PROVE UNCHANGED batchVars
    BY <2>1 DEF Valuing
  <2>2. ASSUME NEW d \in Deleters, Deleting(d) PROVE UNCHANGED batchVars
    BY <2>2 DEF Deleting
  <2>3. CASE UNCHANGED vars
    BY <1>2, <2>3 DEF vars
  <2> QED
    BY <1>2, <2>1, <2>2, <2>3, WorkingTyped, PatchingTyped, CancellingTyped, CommittingTyped
       DEF Next
<1> QED
  BY <1>1, <1>3 DEF Typed, TypeOK

LEMMA PipelineTyped == Spec => []Typed
BY InitTyped, NextTyped, PTL DEF Spec

\* Every reachable state of the pipeline is well typed.
THEOREM PipelineTyping == Spec => []TypeOK
<1>1. Typed => TypeOK
  BY DEF Typed
<1> QED
  BY <1>1, PipelineTyped, PTL

\* The pipeline publishes only through the transactions of SnapshotStore:
\* every theorem about that store's behaviours is one about the pipeline.
THEOREM PipelineIsStore == Spec => StoreSpec
<1>1. Init => Store!Init
  BY DEF Init
<1>2. TypeOK /\ [Next]_vars => [Store!Next]_(Store!vars)
  BY StepOfStore
<1> QED
  BY <1>1, <1>2, PipelineTyping, PTL DEF Spec, StoreSpec, Store!Spec

-----------------------------------------------------------------------------
(***************************************************************************)
(* The parser has the items to itself, and leaves none out.                *)
(***************************************************************************)

\* No step gets past the status check of a handler before the parser is done.
LEMMA NextWaits == Typed /\ ReviewWaitsForParse /\ [Next]_vars => ReviewWaitsForParse'
<1> SUFFICES ASSUME Typed, ReviewWaitsForParse, [Next]_vars PROVE ReviewWaitsForParse'
  OBVIOUS
<1> USE DEF ReviewWaitsForParse
<1>1. CASE Working
  <2>1. worker.pc # "finished" /\ UNCHANGED <<patch, commit>>
    BY <1>1 DEF Working, CreateBatch, UploadFile, UploadRefused, InsertPlaceholder,
         ListForParsing, ParseItem, MarkParsed, MarkParseError, FinishParsing, WorkerDies
  <2>2. CASE FinishParsing
    BY <2>2 DEF FinishParsing, Typed, TypeOK, BatchTypeOK
  <2>3. CASE ~FinishParsing
    BY <1>1, <2>3 DEF Working, CreateBatch, UploadFile, UploadRefused, InsertPlaceholder,
         ListForParsing, ParseItem, MarkParsed, MarkParseError, WorkerDies
  <2> QED
    BY <2>1, <2>2, <2>3
<1>2. ASSUME NEW r \in Reviewers, Patching(r) PROVE ReviewWaitsForParse'
  BY <1>2 DEF Typed, TypeOK, BatchTypeOK, Patching, PatchCheck, PatchLoad, PatchWrite,
       PatchFails, InReview, Idle
<1>3. ASSUME NEW c \in Cancellers, Cancelling(c) PROVE ReviewWaitsForParse'
  BY <1>3 DEF Cancelling, CancelCheck, CancelWrite, CancelCleanup, CancelFails
<1>4. ASSUME NEW k \in Committers, Committing(k) PROVE ReviewWaitsForParse'
  <2>1. CASE CommitCheck(k)
    BY <2>1 DEF CommitCheck, InReview
  <2>2. CASE worker.pc = "finished" /\ UNCHANGED worker
    BY <2>2
  <2>3. ASSUME CommitSupersede(k) PROVE ReviewWaitsForParse'
    BY <2>3 DEF CommitSupersede, batchVars
  <2>4. commit[k] # Idle => worker.pc = "finished"
    OBVIOUS
  <2> QED
    BY <1>4, <2>1, <2>2, <2>3, <2>4
       DEF Committing, CommitList, CommitItem, CommitItemFails, CommitWrite,
           CommitItemAborts, CommitTally, CommitClose, CommitCleanup, CommitFails, Idle
<1>5. CASE UNCHANGED batchVars
  BY <1>5 DEF batchVars
<1> QED
  BY <1>1, <1>2, <1>3, <1>4, <1>5 DEF Next, Valuing, Deleting, vars

LEMMA InitWaits == Init => ReviewWaitsForParse
BY DEF Init, ReviewWaitsForParse, NoWork

LEMMA PipelineWaits == Spec => [](Typed /\ ReviewWaitsForParse)
BY InitTyped, NextTyped, InitWaits, NextWaits, PTL DEF Spec

\* Reviewers and committers come after the parser.
THEOREM PipelineReviewWaits == Spec => []ReviewWaitsForParse
BY PipelineWaits, PTL

\* The only steps that write an item.
LEMMA ItemSteps ==
    ASSUME [Next]_vars
    PROVE  \/ UNCHANGED item
           \/ InsertPlaceholder
           \/ MarkParsed
           \/ \E f \in Files, v \in Refused \cup {None} : MarkParseError(f, v)
           \/ \E r \in Reviewers : PatchWrite(r)
           \/ \E k \in Committers : CommitWrite(k)
<1>1. CASE Working
  BY <1>1 DEF Working, CreateBatch, UploadFile, UploadRefused, ListForParsing, ParseItem,
       FinishParsing, WorkerDies
<1>2. CASE \E r \in Reviewers : Patching(r)
  BY <1>2 DEF Patching, PatchCheck, PatchLoad, PatchFails
<1>3. CASE \E c \in Cancellers : Cancelling(c)
  BY <1>3 DEF Cancelling, CancelCheck, CancelWrite, CancelCleanup, CancelFails
<1>4. CASE \E k \in Committers : Committing(k)
  BY <1>4 DEF Committing, CommitCheck, CommitList, CommitItem, CommitItemFails,
       CommitSupersede, CommitItemAborts, CommitTally, CommitClose, CommitCleanup,
       CommitFails, batchVars
<1> QED
  BY <1>1, <1>2, <1>3, <1>4 DEF Next, Valuing, Deleting, batchVars, vars

\* What those steps leave of an item: it is still one, under the same path,
\* and is what it was, or was parsed, or failed to be, or was patched, or was
\* committed.
LEMMA ItemKept ==
    ASSUME Typed, [Next]_vars, ~InsertPlaceholder, NEW f \in Rows
    PROVE  /\ f \in Rows'
           /\ item[f] \in Item
           /\ item'[f] \in Item
           /\ \/ item'[f] = item[f]
              \/ /\ MarkParsed
                 /\ f = worker.file
                 /\ item'[f] = ParsedItem(item[f])
              \/ \E v \in Refused \cup {None} :
                    /\ MarkParseError(f, v)
                    /\ item'[f] = FailedItem(item[f], v)
              \/ \E r \in Reviewers :
                    /\ PatchWrite(r)
                    /\ f = patch[r].file
                    /\ item'[f] = PatchedItem(item[f], patch[r].body)
              \/ \E k \in Committers :
                    /\ CommitWrite(k)
                    /\ f = commit[k].file
                    /\ item'[f] = CommittedItem(item[f])
<1>1. f \in Files /\ item[f] \in Item /\ BatchTypeOK /\ Store!TypeOK
  BY RowIsItem DEF Typed, TypeOK
<1>2. item \in [Files -> Item \cup {None}]
  BY <1>1 DEF BatchTypeOK
<1>3. item'[f] \in Item => f \in Rows'
  BY <1>1, NoItem DEF Rows
<1>4. CASE UNCHANGED item
  BY <1>1, <1>3, <1>4
<1>5. ASSUME MarkParsed
      PROVE  f \in Rows' /\ \/ item'[f] = item[f]
                            \/ f = worker.file /\ item'[f] = ParsedItem(item[f])
  <2>1. ParsedItem(item[f]) \in Item
    BY <1>1, <1>5, ParsedIsItem DEF MarkParsed, Typed, RowsInv
  <2>2. item' = [item EXCEPT ![worker.file] = ParsedItem(@)]
    BY <1>5 DEF MarkParsed
  <2> QED
    BY <1>1, <1>2, <1>3, <1>5, <2>1, <2>2
<1>6. ASSUME NEW g \in Files, NEW v \in Refused \cup {None}, MarkParseError(g, v)
      PROVE  f \in Rows' /\ \/ item'[f] = item[f]
                            \/ f = g /\ item'[f] = FailedItem(item[f], v)
  <2>1. FailedItem(item[f], v) \in Item
    BY <1>1, FailedIsItem
  <2>2. item' = [item EXCEPT ![g] = FailedItem(@, v)]
    BY <1>6 DEF MarkParseError
  <2> QED
    BY <1>1, <1>2, <1>3, <2>1, <2>2
<1>7. ASSUME NEW r \in Reviewers, PatchWrite(r)
      PROVE  f \in Rows' /\ \/ item'[f] = item[f]
                            \/ f = patch[r].file /\ item'[f] = PatchedItem(item[f], patch[r].body)
  <2>1. patch[r].body \in PatchBody
    BY <1>1, <1>7 DEF PatchWrite, BatchTypeOK, Loaded, Idle
  <2>2. PatchedItem(item[f], patch[r].body) \in Item
    BY <1>1, <2>1, PatchedIsItem
  <2>3. item' = [item EXCEPT ![patch[r].file] = PatchedItem(@, patch[r].body)]
    BY <1>7 DEF PatchWrite
  <2> QED
    BY <1>1, <1>2, <1>3, <2>2, <2>3
<1>8. ASSUME NEW k \in Committers, CommitWrite(k)
      PROVE  f \in Rows' /\ \/ item'[f] = item[f]
                            \/ f = commit[k].file /\ item'[f] = CommittedItem(item[f])
  <2>1. CommittedItem(item[f]) \in Item
    BY <1>1, CommittedIsItem
  <2>2. item' = [item EXCEPT ![commit[k].file] = CommittedItem(@)]
    BY <1>8 DEF CommitWrite
  <2> QED
    BY <1>1, <1>2, <1>3, <2>1, <2>2
<1>9. f \in Rows' => item'[f] \in Item
  BY NextTyped, RowIsItem DEF Typed, TypeOK, BatchTypeOK, Rows
<1> QED
  BY <1>1, <1>4, <1>5, <1>6, <1>7, <1>8, <1>9, ItemSteps

\* Only the background task has a say in its own state.
LEMMA WorkerSteadies == ASSUME [Next]_vars PROVE Working \/ UNCHANGED worker
BY DEF Next, Patching, PatchCheck, PatchLoad, PatchWrite, PatchFails, Cancelling, CancelCheck,
       CancelWrite, CancelCleanup, CancelFails, Committing, CommitCheck, CommitList,
       CommitItem, CommitItemFails, CommitSupersede, CommitWrite, CommitItemAborts,
       CommitTally, CommitClose, CommitCleanup, CommitFails, Valuing, Deleting,
       batchVars, vars

\* An item the parser is through with.
Done(it) == it.parsed # None \/ it.parse = "error"

\* The upload has inserted the rows of the workbooks that are not to do; then
\* the parser is through with the items that are not to do.
ParsedInv ==
    /\ worker.pc \in {"uploading", "inserting"} => Files \ worker.todo \subseteq Rows
    /\ worker.pc \in {"parsing", "matched", "finished"} => Files \subseteq Rows
    /\ worker.pc \in {"parsing", "matched"} => \A f \in Files \ worker.todo : Done(item[f])
    /\ worker.pc = "finished" => \A f \in Files : Done(item[f])

\* An item that is done stays done, and a row stays a row.
LEMMA DoneStays ==
    ASSUME Typed, [Next]_vars, ~InsertPlaceholder, NEW f \in Rows
    PROVE  f \in Rows' /\ (Done(item[f]) => Done(item'[f]))
<1>1. ASSUME MarkParsed, item'[f] = ParsedItem(item[f]) PROVE Done(item'[f])
  <2>1. worker.inputs # None
    BY <1>1, ImportAssumption DEF MarkParsed, Typed, RowsInv
  <2> QED
    BY <1>1, <2>1, ItemKept DEF ParsedItem, Item, Done
<1>2. ASSUME NEW v, item'[f] = FailedItem(item[f], v) PROVE Done(item'[f])
  BY <1>2, ItemKept DEF FailedItem, Item, Done
<1>3. ASSUME NEW b, item'[f] = PatchedItem(item[f], b), Done(item[f]) PROVE Done(item'[f])
  BY <1>3, ItemKept DEF PatchedItem, Item, Done
<1>4. ASSUME item'[f] = CommittedItem(item[f]), Done(item[f]) PROVE Done(item'[f])
  BY <1>4, ItemKept DEF CommittedItem, Item, Done
<1> QED
  BY <1>1, <1>2, <1>3, <1>4, ItemKept

\* The upload reaches every workbook, the parser every row.
LEMMA NextParsed == Typed /\ ParsedInv /\ [Next]_vars => ParsedInv'
<1> SUFFICES ASSUME Typed, ParsedInv, [Next]_vars PROVE ParsedInv'
  OBVIOUS
<1> USE DEF ParsedInv
<1>1. worker \in [pc : {"none", "uploading", "inserting", "parsing", "matched",
                       "finished", "refused", "dead"},
                  todo : SUBSET Files, file : Files \cup {None},
                  path : Paths \cup {None}, inputs : Inputs \cup {None},
                  property : Properties \cup {None}]
  BY DEF Typed, TypeOK, BatchTypeOK
<1>2. CASE InsertPlaceholder
  <2>1. worker.file \in Files /\ Placeholder(worker.path) \in Item
    BY <1>2 DEF InsertPlaceholder, Placeholder, Item, Resolutions, Typed, RowsInv
  <2>2. Rows' = Rows \cup {worker.file}
    BY <1>2, <2>1, RowWritten DEF InsertPlaceholder, Typed, TypeOK
  <2> QED
    BY <1>1, <1>2, <2>2 DEF InsertPlaceholder
<1>3. CASE ~InsertPlaceholder
  <2>1. Rows \subseteq Rows'
    BY <1>3, DoneStays
  <2>2. \A f \in Rows : Done(item[f]) => Done(item'[f])
    BY <1>3, DoneStays
  <2>3. CASE UNCHANGED worker
    BY <2>1, <2>2, <2>3
  <2>4. CASE CreateBatch
    BY <1>1, <2>4 DEF CreateBatch
  <2>5. ASSUME NEW f \in Files, UploadFile(f) \/ UploadRefused(f) PROVE ParsedInv'
    BY <1>1, <2>1, <2>5 DEF UploadFile, UploadRefused, NoWork
  <2>6. CASE ListForParsing
    <3>1. Files \subseteq Rows /\ UNCHANGED item
      BY <2>6 DEF ListForParsing
    <3>2. worker'.pc = "parsing"
      BY <1>1, <2>6 DEF ListForParsing
    <3>3. worker'.todo = {f \in Rows : item[f].parsed = None /\ item[f].parse # "error"}
      BY <1>1, <2>6 DEF ListForParsing
    <3> QED
      BY <2>1, <3>1, <3>2, <3>3 DEF Done
  <2>7. ASSUME NEW f \in Files, NEW v \in Inputs, NEW p \in Properties \cup {None},
               ParseItem(f, v, p)
        PROVE  ParsedInv'
    BY <1>1, <2>1, <2>2, <2>7 DEF ParseItem
  <2>8. CASE MarkParsed
    <3>1. worker.file \in Rows /\ worker.inputs # None
      BY <2>8, ImportAssumption DEF MarkParsed, Typed, RowsInv
    <3>2. item' = [item EXCEPT ![worker.file] = ParsedItem(@)]
      BY <2>8 DEF MarkParsed
    <3>3. Done(item'[worker.file])
      BY <3>1, <3>2, RowIsItem DEF ParsedItem, Item, Done, Typed, TypeOK, BatchTypeOK
    <3> QED
      BY <2>1, <2>2, <2>8, <3>3 DEF MarkParsed, NoWork
  <2>9. ASSUME NEW f \in Files, NEW v \in Refused \cup {None}, MarkParseError(f, v)
        PROVE  ParsedInv'
    <3>1. f \in Rows
      BY <2>9 DEF MarkParseError, Typed, RowsInv
    <3>2. item' = [item EXCEPT ![f] = FailedItem(@, v)]
      BY <2>9 DEF MarkParseError
    <3>3. Done(item'[f])
      BY <3>1, <3>2, RowIsItem DEF FailedItem, Item, Done, Typed, TypeOK, BatchTypeOK
    <3> QED
      BY <2>1, <2>2, <2>9, <3>3 DEF MarkParseError, NoWork
  <2>10. CASE FinishParsing
    BY <1>1, <2>1, <2>2, <2>10 DEF FinishParsing, ParsingDone
  <2>11. CASE WorkerDies
    BY <2>11 DEF WorkerDies, NoWork
  <2> QED
    BY <1>3, <2>3, <2>4, <2>5, <2>6, <2>7, <2>8, <2>9, <2>10, <2>11, WorkerSteadies
       DEF Working
<1> QED
  BY <1>2, <1>3

\* A batch never comes to review with a workbook left out.
THEOREM PipelineHasEveryItem == Spec => []ReviewHasEveryItem
<1>1. Init => ParsedInv
  BY DEF Init, ParsedInv, NoWork
<1>2. ReviewWaitsForParse /\ ParsedInv => ReviewHasEveryItem
  BY DEF ReviewWaitsForParse, ParsedInv, ReviewHasEveryItem, Done
<1> QED
  BY <1>1, <1>2, NextParsed, PipelineWaits, PTL DEF Spec

-----------------------------------------------------------------------------
(***************************************************************************)
(* Accepted items can be committed.                                        *)
(***************************************************************************)

\* Rows are only inserted by the upload.
LEMMA RowsStay == ASSUME Typed, [Next]_vars, ~InsertPlaceholder PROVE Rows' = Rows
<1>1. Rows \subseteq Rows'
  BY ItemKept
<1> SUFFICES ASSUME NEW f \in Files \ Rows PROVE f \notin Rows'
  BY <1>1 DEF Rows
<1>2. item \in [Files -> Item \cup {None}] /\ item[f] = None
  BY DEF Typed, TypeOK, BatchTypeOK, Rows
<1>3. item'[f] = item[f] => f \notin Rows'
  BY <1>2 DEF Rows
<1>4. CASE MarkParsed
  BY <1>2, <1>3, <1>4 DEF MarkParsed, Typed, RowsInv
<1>5. CASE \E g \in Files, v \in Refused \cup {None} : MarkParseError(g, v)
  BY <1>2, <1>3, <1>5 DEF MarkParseError, Typed, RowsInv
<1>6. CASE \E r \in Reviewers : PatchWrite(r)
  BY <1>2, <1>3, <1>6 DEF PatchWrite, Typed, RowsInv
<1>7. CASE \E k \in Committers : CommitWrite(k)
  BY <1>2, <1>3, <1>7 DEF CommitWrite, Typed, RowsInv
<1> QED
  BY <1>3, <1>4, <1>5, <1>6, <1>7, ItemSteps DEF Rows

\* The copies of a commit loop come from the rows it listed, and the loop only
\* drops some: the one whose transaction ends, for one.
LEMMA CopiesKept ==
    ASSUME Typed, [Next]_vars, NEW k \in Committers, NEW f \in Files,
           commit'[k].pc \in {"looping", "writing"}, commit'[k].seen[f] # None
    PROVE  \/ /\ CommitList(k)
              /\ f \in Rows
              /\ Committable(item[f])
              /\ commit'[k].seen[f] = item[f]
           \/ /\ commit[k].pc \in {"looping", "writing"}
              /\ commit[k].seen[f] # None
              /\ commit'[k].seen[f] = commit[k].seen[f]
              /\ ~(CommitWrite(k) /\ f = commit[k].file)
<1> DEFINE Kept == /\ commit[k].pc \in {"looping", "writing"}
                   /\ commit[k].seen[f] # None
                   /\ commit'[k].seen[f] = commit[k].seen[f]
                   /\ ~(CommitWrite(k) /\ f = commit[k].file)
<1>1. commit \in [Committers -> {Idle} \cup [pc : {"checked", "closing", "closed"}] \cup Loop]
  BY DEF Typed, TypeOK, BatchTypeOK
<1>2. commit[k].pc \in {"looping", "writing"} => commit[k] \in Loop
  BY <1>1 DEF Idle
<1>3. \A g \in Files : commit[k] \in Loop /\ commit'[k] = Without(commit[k], g) =>
          f # g /\ commit'[k].seen[f] = commit[k].seen[f]
  BY DEF Without, Loop, Copies
<1>4. CommitWrite(k) => /\ commit[k] \in Loop /\ commit[k].pc = "writing"
                        /\ commit[k].file \in Files
                        /\ commit'[k] = Without(commit[k], commit[k].file)
  BY <1>1, <1>2 DEF CommitWrite, Loop, Typed, RowsInv, Rows
<1>5. CASE CommitWrite(k)
  <2>1. Kept
    BY <1>2, <1>3, <1>4, <1>5
  <2> QED
    BY <2>1
<1>6. CASE ~CommitWrite(k) /\ commit'[k] = commit[k]
  BY <1>6
<1>7. CASE CommitList(k)
  <2>1. commit'[k] = [pc |-> "looping", seen |-> [g \in Files |-> Listed(g)], file |-> None]
    BY <1>1, <1>7 DEF CommitList
  <2>2. commit'[k].seen[f] = Listed(f)
    BY <2>1
  <2> QED
    BY <1>7, <2>2 DEF Listed
<1>8. ASSUME NEW g \in Files, CommitItemFails(k, g) \/ CommitItem(k, g), ~CommitWrite(k)
      PROVE  Kept
  BY <1>1, <1>2, <1>3, <1>8 DEF CommitItemFails, CommitItem, Loop
<1>9. ASSUME CommitItemAborts(k), ~CommitWrite(k) PROVE Kept
  <2>1. commit[k] \in Loop /\ commit[k].file \in Files
    BY <1>2, <1>9 DEF CommitItemAborts, Typed, RowsInv, Rows
  <2> QED
    BY <1>1, <1>3, <1>9, <2>1 DEF CommitItemAborts, Loop
<1>10. CASE \/ CommitCheck(k) \/ CommitTally(k) \/ CommitClose(k) \/ CommitCleanup(k)
            \/ CommitFails(k)
  BY <1>1, <1>10 DEF CommitCheck, CommitTally, CommitClose, CommitCleanup, CommitFails, Idle
<1>11. CommitSupersede(k) => commit'[k] = commit[k]
  BY DEF CommitSupersede, batchVars
<1>12. commit'[k] = commit[k] \/ Committing(k)
  <2>1. ASSUME NEW j \in Committers, Committing(j), j # k PROVE commit'[k] = commit[k]
    BY <1>1, <2>1
       DEF Committing, CommitCheck, CommitList, CommitItem, CommitItemFails, CommitSupersede,
           CommitWrite, CommitItemAborts, CommitTally, CommitClose, CommitCleanup,
           CommitFails, batchVars
  <2>2. CASE ~\E j \in Committers : Committing(j)
    BY <2>2 DEF Next, Working, CreateBatch, UploadFile, UploadRefused, InsertPlaceholder,
         ListForParsing, ParseItem, MarkParsed, MarkParseError, FinishParsing, WorkerDies,
         Patching, PatchCheck, PatchLoad, PatchWrite, PatchFails, Cancelling, CancelCheck,
         CancelWrite, CancelCleanup, CancelFails, Valuing, Deleting, batchVars, vars
  <2> QED
    BY <2>1, <2>2
<1> QED
  BY <1>5, <1>6, <1>7, <1>8, <1>9, <1>10, <1>11, <1>12 DEF Committing

\* What PATCH has checked still holds when it writes.
PatchInv ==
    \A r \in Reviewers : patch[r].pc = "loaded" =>
        /\ patch[r].body.resolution = "accepted" => item[patch[r].file].parse # "error"
        /\ patch[r].body.resolution = "edited" => patch[r].body.inputs \in Inputs

\* The parser is through before a request is past its status check.
LEMMA NextPatchInv ==
    Typed /\ ReviewWaitsForParse /\ PatchInv /\ [Next]_vars => PatchInv'
<1> SUFFICES ASSUME Typed, ReviewWaitsForParse, PatchInv, [Next]_vars,
                    NEW r \in Reviewers, patch'[r].pc = "loaded"
             PROVE  /\ patch'[r].body.resolution = "accepted" =>
                          item'[patch'[r].file].parse # "error"
                    /\ patch'[r].body.resolution = "edited" => patch'[r].body.inputs \in Inputs
  BY DEF PatchInv
<1>1. CASE UNCHANGED patch[r]
  <2>1. patch[r].pc = "loaded" /\ patch[r].file \in Rows
    BY <1>1 DEF Typed, RowsInv
  <2>2. worker.pc = "finished"
    BY <2>1 DEF ReviewWaitsForParse, Idle
  <2>3. ~InsertPlaceholder /\ ~MarkParsed /\ \A f, v : ~MarkParseError(f, v)
    BY <2>2 DEF InsertPlaceholder, MarkParsed, MarkParseError
  <2>4. item'[patch[r].file].parse = item[patch[r].file].parse
    BY <2>1, <2>3, ItemKept DEF PatchedItem, CommittedItem, Item
  <2> QED
    BY <1>1, <2>1, <2>4 DEF PatchInv
<1>2. CASE patch'[r] # patch[r]
  <2>1. PICK q \in Reviewers : Patching(q)
    BY <1>2 DEF Next, Working, CreateBatch, UploadFile, UploadRefused, InsertPlaceholder,
       ListForParsing, ParseItem, MarkParsed, MarkParseError, FinishParsing, WorkerDies,
       Cancelling, CancelCheck, CancelWrite, CancelCleanup, CancelFails, Committing,
       CommitCheck, CommitList, CommitItem, CommitItemFails, CommitSupersede, CommitWrite,
       CommitItemAborts, CommitTally, CommitClose, CommitCleanup, CommitFails, Valuing,
       Deleting, batchVars, vars
  <2>2. patch \in [Reviewers -> {Idle, [pc |-> "checked"]} \cup Loaded]
    BY DEF Typed, TypeOK, BatchTypeOK
  <2>3. q = r
    BY <1>2, <2>1, <2>2 DEF Patching, PatchCheck, PatchLoad, PatchWrite, PatchFails
  <2>4. PICK f \in Files, b \in PatchBody : PatchLoad(r, f, b)
    BY <2>1, <2>2, <2>3 DEF Patching, PatchCheck, PatchWrite, PatchFails, Idle
  <2>5. patch'[r] = [pc |-> "loaded", file |-> f, body |-> b] /\ UNCHANGED item
    BY <2>2, <2>4 DEF PatchLoad
  <2> QED
    BY <2>4, <2>5 DEF PatchLoad, Acceptable
<1> QED
  BY <1>1, <1>2

\* Every way to write an item leaves it ready once it is to be committed.
LEMMA ReadyStays ==
    ASSUME Typed, ReviewWaitsForParse, ParsedInv, PatchInv, [Next]_vars, ~InsertPlaceholder,
           NEW f \in Rows, item[f].resolution \in {"accepted", "edited"} => ReadyToCommit(item[f]),
           item'[f].resolution \in {"accepted", "edited"}
    PROVE  ReadyToCommit(item'[f])
<1> USE DEF ReadyToCommit, Effective
<1>1. item[f] \in Item /\ f \in Files
  BY RowIsItem DEF Typed, TypeOK
<1>2. ASSUME MarkParsed, item'[f] = ParsedItem(item[f]) PROVE ReadyToCommit(item'[f])
  <2>1. worker.inputs # None
    BY <1>2, ImportAssumption DEF MarkParsed, Typed, RowsInv
  <2> QED
    BY <1>1, <1>2, <2>1 DEF ParsedItem, Item
<1>3. ASSUME NEW v \in Refused \cup {None}, item'[f] = FailedItem(item[f], v)
      PROVE  ReadyToCommit(item'[f])
  BY <1>1, <1>3 DEF FailedItem, Item
<1>4. ASSUME NEW r \in Reviewers, PatchWrite(r), f = patch[r].file,
             item'[f] = PatchedItem(item[f], patch[r].body)
      PROVE  ReadyToCommit(item'[f])
  <2> DEFINE b == patch[r].body
  <2>1. worker.pc = "finished" /\ patch[r] \in Loaded
    BY <1>4 DEF PatchWrite, ReviewWaitsForParse, Idle, Typed, TypeOK, BatchTypeOK
  <2>2. Done(item[f])
    BY <1>1, <2>1 DEF ParsedInv
  <2>3. b \in PatchBody
    BY <2>1 DEF Loaded
  <2>4. item'[f].property = b.property /\ item'[f].resolution = b.resolution
    BY <1>1, <1>4 DEF PatchedItem, Item
  <2>5. /\ b.resolution \in {"accepted", "edited"}
        /\ b.resolution = "accepted" => item[f].parse # "error"
        /\ b.resolution = "edited" => b.inputs \in Inputs
    BY <1>4, <2>4 DEF PatchInv, PatchWrite
  <2>6. item'[f].edits = IF b.inputs = None THEN item[f].edits ELSE b.inputs
    BY <1>1, <1>4 DEF PatchedItem, Item
  <2>7. item'[f].parsed = item[f].parsed
    BY <1>1, <1>4 DEF PatchedItem, Item
  <2>8. b.property # None
    BY <2>3, <2>5 DEF PatchBody
  <2>9. CASE b.resolution = "edited"
    BY <2>4, <2>5, <2>6, <2>8, <2>9, ImportAssumption
  <2>10. CASE b.resolution = "accepted"
    BY <2>2, <2>4, <2>5, <2>6, <2>7, <2>8, <2>10 DEF Done
  <2> QED
    BY <2>5, <2>9, <2>10
<1>5. ASSUME item'[f] = CommittedItem(item[f]) PROVE ReadyToCommit(item'[f])
  BY <1>1, <1>5 DEF CommittedItem, Item
<1> QED
  BY <1>2, <1>3, <1>4, <1>5, ItemKept

\* So every row, and every copy of one, stays ready.
LEMMA NextReady ==
    Typed /\ ReviewWaitsForParse /\ ParsedInv /\ PatchInv /\ AcceptedIsReady /\ [Next]_vars
        => AcceptedIsReady'
<1> SUFFICES ASSUME Typed, ReviewWaitsForParse, ParsedInv, PatchInv, AcceptedIsReady,
                    [Next]_vars
             PROVE  AcceptedIsReady'
  OBVIOUS
<1>1. ASSUME NEW f \in Rows', item'[f].resolution \in {"accepted", "edited"}
      PROVE  ReadyToCommit(item'[f])
  <2>1. CASE InsertPlaceholder
    <3>1. worker.file \in Files /\ item \in [Files -> Item \cup {None}] /\ f \in Files
      BY <2>1 DEF InsertPlaceholder, Typed, TypeOK, BatchTypeOK, RowsInv, Rows
    <3>2. item' = [item EXCEPT ![worker.file] = Placeholder(worker.path)]
      BY <2>1 DEF InsertPlaceholder
    <3>3. f # worker.file
      BY <1>1, <3>1, <3>2 DEF Placeholder
    <3>4. item'[f] = item[f] /\ f \in Rows
      BY <3>1, <3>2, <3>3 DEF Rows
    <3> QED
      BY <1>1, <3>4 DEF AcceptedIsReady
  <2>2. CASE ~InsertPlaceholder
    <3>1. f \in Rows
      BY <2>2, RowsStay
    <3> QED
      BY <1>1, <2>2, <3>1, ReadyStays DEF AcceptedIsReady
  <2> QED
    BY <2>1, <2>2
<1>2. ASSUME NEW k \in Committers, commit'[k].pc \in {"looping", "writing"},
             NEW f \in Files, commit'[k].seen[f] # None
      PROVE  ReadyToCommit(commit'[k].seen[f])
  BY <1>2, CopiesKept DEF AcceptedIsReady, Committable
<1> QED
  BY <1>1, <1>2 DEF AcceptedIsReady, ReadyToCommit, Effective

\* What a commit goes through can be committed.
THEOREM PipelineAcceptedIsReady == Spec => []AcceptedIsReady
<1>1. Init => ParsedInv /\ PatchInv /\ AcceptedIsReady
  BY NoItem DEF Init, ParsedInv, PatchInv, AcceptedIsReady, NoWork, Idle, Rows
<1> QED
  BY <1>1, NextParsed, NextPatchInv, NextReady, PipelineWaits, PTL DEF Spec

-----------------------------------------------------------------------------
(***************************************************************************)
(* Snapshots and items agree.                                              *)
(***************************************************************************)

\* What a request of the store does to the source its transaction has.
LEMMA TxSource ==
    ASSUME Store!TypeOK, NEW w \in Valuers \cup Committers
    PROVE  /\ Store!Scan(w) \/ Store!LockRow(w) =>
                /\ tx[w] # Idle /\ tx'[w] # Idle
                /\ tx'[w].source = tx[w].source
                /\ \A o \in (Valuers \cup Committers) \ {w} : tx'[o] = tx[o]
           /\ Store!Write(w) \/ Store!Abort(w) =>
                /\ tx'[w] = Idle
                /\ \A o \in (Valuers \cup Committers) \ {w} : tx'[o] = tx[o]
           /\ \A p, v, src : Store!CheckProperty(w, p, v, src) =>
                /\ tx'[w] # Idle
                /\ tx'[w].source = src
                /\ \A o \in (Valuers \cup Committers) \ {w} : tx'[o] = tx[o]
<1>1. tx \in [Valuers \cup Committers -> {Idle} \cup Store!Tx]
  BY DEF Store!TypeOK, Store!Idle, Idle
<1>2. tx[w].pc \in {"checked", "scanned"} => tx[w] \in Store!Tx
  BY <1>1 DEF Idle
<1>3. ASSUME Store!Scan(w)
      PROVE  /\ tx[w] # Idle /\ tx'[w] # Idle
             /\ tx'[w].source = tx[w].source
             /\ \A o \in (Valuers \cup Committers) \ {w} : tx'[o] = tx[o]
  <2>1. tx[w] \in Store!Tx
    BY <1>2, <1>3 DEF Store!Scan
  <2>2. PICK S : tx' = [tx EXCEPT ![w].pc = "scanned", ![w].todo = S]
    BY <1>3 DEF Store!Scan
  <2>3. tx'[w] = [tx[w] EXCEPT !.pc = "scanned", !.todo = S]
    BY <1>1, <2>2
  <2>4. tx'[w].pc = "scanned" /\ tx'[w].source = tx[w].source /\ tx[w].pc # "idle"
    BY <2>1, <2>3 DEF Store!Tx
  <2>5. \A o \in (Valuers \cup Committers) \ {w} : tx'[o] = tx[o]
    BY <1>1, <2>2
  <2>6. tx[w] # Idle /\ tx'[w] # Idle
    BY <2>4 DEF Idle
  <2> QED
    BY <2>4, <2>5, <2>6
<1>4. ASSUME Store!LockRow(w)
      PROVE  /\ tx[w] # Idle /\ tx'[w] # Idle
             /\ tx'[w].source = tx[w].source
             /\ \A o \in (Valuers \cup Committers) \ {w} : tx'[o] = tx[o]
  <2>1. tx[w] \in Store!Tx
    BY <1>2, <1>4 DEF Store!LockRow
  <2>2. PICK S, L : tx' = [tx EXCEPT ![w].todo = S, ![w].locked = L]
    <3>1. PICK r : tx' = [tx EXCEPT ![w].todo = @ \ {r},
                                    ![w].locked = IF Store!StillActive(r) THEN @ \cup {r}
                                                                          ELSE @]
      BY <1>4 DEF Store!LockRow
    <3>2. tx' = [tx EXCEPT ![w].todo = tx[w].todo \ {r},
                           ![w].locked = IF Store!StillActive(r) THEN tx[w].locked \cup {r}
                                                                 ELSE tx[w].locked]
      BY <1>1, <2>1, <3>1 DEF Store!Tx
    <3> QED
      BY <3>2
  <2>3. tx'[w] = [tx[w] EXCEPT !.todo = S, !.locked = L]
    BY <1>1, <2>2
  <2>4. tx'[w].pc = "scanned" /\ tx'[w].source = tx[w].source /\ tx[w].pc # "idle"
    BY <1>4, <2>1, <2>3 DEF Store!LockRow, Store!Tx
  <2>5. \A o \in (Valuers \cup Committers) \ {w} : tx'[o] = tx[o]
    BY <1>1, <2>2
  <2>6. tx[w] # Idle /\ tx'[w] # Idle
    BY <2>4 DEF Idle
  <2> QED
    BY <2>4, <2>5, <2>6
<1>5. ASSUME Store!Write(w) \/ Store!Abort(w)
      PROVE  /\ tx'[w] = Idle
             /\ \A o \in (Valuers \cup Committers) \ {w} : tx'[o] = tx[o]
  BY <1>1, <1>5 DEF Store!Write, Store!Abort, Store!AfterError, Store!Idle, Idle
<1>6. ASSUME NEW p, NEW v, NEW src, Store!CheckProperty(w, p, v, src)
      PROVE  /\ tx'[w] # Idle
             /\ tx'[w].source = src
             /\ \A o \in (Valuers \cup Committers) \ {w} : tx'[o] = tx[o]
  BY <1>1, <1>6 DEF Store!CheckProperty, Idle
<1> QED
  BY <1>3, <1>4, <1>5, <1>6

\* A commit has a transaction open exactly while it writes an item, and makes
\* the snapshot of that item's workbook; valuers make none of a workbook.
TxInv ==
    /\ \A k \in Committers :
          /\ commit[k].pc # "writing" => tx[k] = Idle
          /\ commit[k].pc = "writing" => /\ tx[k] # Idle
                                         /\ tx[k].source = commit[k].file
                                         /\ commit[k].seen[commit[k].file] # None
    /\ \A u \in Valuers : tx[u] # Idle => tx[u].source = Manual

\* A step of one commit leaves the others alone.
LEMMA CommitsApart ==
    ASSUME Typed, NEW j \in Committers, Committing(j), NEW k \in Committers, k # j
    PROVE  commit'[k] = commit[k]
BY DEF Typed, TypeOK, BatchTypeOK, Committing, CommitCheck, CommitList, CommitItem,
       CommitItemFails, CommitSupersede, CommitWrite, CommitItemAborts, CommitTally,
       CommitClose, CommitCleanup, CommitFails, batchVars

LEMMA NextTxInv == Typed /\ TxInv /\ [Next]_vars => TxInv'
<1> SUFFICES ASSUME Typed, TxInv, [Next]_vars PROVE TxInv'
  OBVIOUS
<1> DEFINE Writers == Valuers \cup Committers
           Open(k) == /\ commit'[k].pc # "writing" => tx'[k] = Idle
                      /\ commit'[k].pc = "writing" =>
                            /\ tx'[k] # Idle
                            /\ tx'[k].source = commit'[k].file
                            /\ commit'[k].seen[commit'[k].file] # None
<1>1. CASE UNCHANGED <<tx, commit>>
  BY <1>1 DEF TxInv
<1>2. ASSUME NEW u \in Valuers, Valuing(u) PROVE TxInv'
  <2>1. UNCHANGED commit
    BY <1>2 DEF Valuing, batchVars
  <2>2. \A o \in Writers \ {u} : tx'[o] = tx[o]
    BY <1>2, TxSource DEF Valuing, Typed, TypeOK
  <2>3. tx'[u] # Idle => tx'[u].source = Manual
    BY <1>2, TxSource DEF Valuing, Typed, TypeOK, TxInv
  <2>4. u \notin Committers
    BY ImportAssumption
  <2> QED
    BY <2>1, <2>2, <2>3, <2>4 DEF TxInv
<1>3. ASSUME NEW k \in Committers, Committing(k) PROVE TxInv'
  <2>1. commit \in [Committers -> {Idle} \cup [pc : {"checked", "closing", "closed"}] \cup Loop]
    BY DEF Typed, TypeOK, BatchTypeOK
  <2>2. commit[k].pc \in {"looping", "writing"} => commit[k] \in Loop
    BY <2>1 DEF Idle
  <2>3. tx \in [Writers -> {Idle} \cup Store!Tx]
    BY DEF Typed, TypeOK, Store!TypeOK, Store!Idle, Idle
  <2>4. (\A o \in Writers \ {k} : tx'[o] = tx[o]) /\ Open(k)
    <3> USE TxSource DEF TxInv, Typed, TypeOK
    <3>1. CASE CommitCheck(k) \/ CommitList(k) \/ CommitTally(k) \/ CommitClose(k)
                 \/ CommitCleanup(k)
      BY <2>1, <3>1
         DEF CommitCheck, CommitList, CommitTally, CommitClose, CommitCleanup, storeVars, Idle
    <3>2. ASSUME NEW f \in Files, CommitItem(k, f)
          PROVE  (\A o \in Writers \ {k} : tx'[o] = tx[o]) /\ Open(k)
      <4>1. commit'[k] = [commit[k] EXCEPT !.pc = "writing", !.file = f]
        BY <2>1, <3>2 DEF CommitItem
      <4>2. commit'[k].pc = "writing" /\ commit'[k].file = f /\ commit'[k].seen = commit[k].seen
        <5>1. commit[k] \in [pc : {"looping"}, seen : Copies, file : {None}]
          BY <2>2, <3>2 DEF CommitItem, Loop
        <5> QED
          BY <4>1, <5>1
      <4> QED
        BY <3>2, <4>2 DEF CommitItem, BeginItem
    <3>3. ASSUME NEW f \in Files, CommitItemFails(k, f)
          PROVE  (\A o \in Writers \ {k} : tx'[o] = tx[o]) /\ Open(k)
      BY <2>1, <2>2, <3>3 DEF CommitItemFails, Without, Loop, storeVars
    <3>4. CASE CommitSupersede(k)
      BY <3>4 DEF CommitSupersede, batchVars
    <3>5. CASE CommitWrite(k) \/ CommitItemAborts(k)
      <4>1. Store!Write(k) \/ Store!Abort(k)
        BY <3>5 DEF CommitWrite, CommitItemAborts
      <4>2. commit[k] \in [pc : {"writing"}, seen : Copies, file : Files]
        BY <2>2, <3>5 DEF CommitWrite, CommitItemAborts, Loop
      <4>3. commit'[k] = Without(commit[k], commit[k].file)
        BY <2>1, <3>5 DEF CommitWrite, CommitItemAborts
      <4>4. commit'[k].pc = "looping"
        BY <4>2, <4>3 DEF Without
      <4> QED
        BY <4>1, <4>4
    <3>6. CASE CommitFails(k)
      BY <2>1, <3>6 DEF CommitFails, storeVars, Idle
    <3> QED
      BY <1>3, <3>1, <3>2, <3>3, <3>4, <3>5, <3>6 DEF Committing
  <2>5. \A j \in Committers \ {k} : commit'[j] = commit[j]
    BY <1>3, CommitsApart
  <2>6. k \notin Valuers
    BY ImportAssumption
  <2> QED
    BY <2>4, <2>5, <2>6 DEF TxInv
<1> QED
  BY <1>1, <1>2, <1>3
     DEF Next, Working, CreateBatch, UploadFile, UploadRefused, InsertPlaceholder,
         ListForParsing, ParseItem, MarkParsed, MarkParseError, FinishParsing, WorkerDies,
         Patching, PatchCheck, PatchLoad, PatchWrite, PatchFails, Cancelling, CancelCheck,
         CancelWrite, CancelCleanup, CancelFails, Deleting, Store!Deleting,
         Store!FindProperty, Store!CountActive, Store!SoftDelete, Store!AbortDelete,
         storeVars, batchVars, vars

\* What the commit of a transaction adds to the table of snapshots.
LEMMA SnapshotWritten ==
    ASSUME TypeOK, NEW w \in Valuers \cup Committers, Store!Write(w)
    PROVE  /\ Len(snap) \in Nat
           /\ DOMAIN snap = 1..Len(snap)
           /\ DOMAIN snap' = 1..(Len(snap) + 1)
           /\ \A i \in DOMAIN snap :
                 snap'[i].source = snap[i].source /\ snap'[i].by = snap[i].by
           /\ snap'[Len(snap) + 1].source = tx[w].source
           /\ snap'[Len(snap) + 1].by = w
<1>1. SP!TypeOK /\ SP!Write(w)
  BY SameTypes, SameWrite DEF TypeOK
<1>2. /\ Len(snap) \in Nat
      /\ DOMAIN snap = 1..Len(snap)
      /\ DOMAIN snap' = 1..(Len(snap) + 1)
      /\ snap'[Len(snap) + 1] =
            [property |-> tx[w].property, inputs |-> tx[w].inputs,
             source |-> tx[w].source, by |-> w, status |-> "active"]
  BY <1>1, ImportAssumption, SP!WriteTable
<1>3. \A i \in DOMAIN snap : snap'[i].source = snap[i].source /\ snap'[i].by = snap[i].by
  BY <1>1, ImportAssumption, SP!WriteKeeps
<1> QED
  BY <1>2, <1>3

\* The only steps that write a snapshot.
LEMMA SnapSteps ==
    ASSUME [Next]_vars
    PROVE  \/ UNCHANGED snap
           \/ \E k \in Committers : CommitWrite(k)
           \/ \E u \in Valuers : Store!Write(u) /\ UNCHANGED batchVars
<1>1. CASE \E k \in Committers : Committing(k)
  BY <1>1
     DEF Committing, CommitCheck, CommitList, CommitItem, BeginItem, CommitItemFails,
         CommitSupersede, CommitItemAborts, CommitTally, CommitClose, CommitCleanup,
         CommitFails, Store!CheckProperty, Store!Scan, Store!LockRow, Store!Abort, storeVars
<1>2. CASE \E u \in Valuers : Valuing(u)
  BY <1>2 DEF Valuing, Store!CheckProperty, Store!Scan, Store!LockRow, Store!Abort
<1>3. CASE \E d \in Deleters : Deleting(d)
  BY <1>3 DEF Deleting, Store!Deleting, Store!FindProperty, Store!CountActive,
       Store!SoftDelete, Store!AbortDelete
<1> QED
  BY <1>1, <1>2, <1>3
     DEF Next, Working, CreateBatch, UploadFile, UploadRefused, InsertPlaceholder,
         ListForParsing, ParseItem, MarkParsed, MarkParseError, FinishParsing, WorkerDies,
         Patching, PatchCheck, PatchLoad, PatchWrite, PatchFails, Cancelling, CancelCheck,
         CancelWrite, CancelCleanup, CancelFails, storeVars, vars

\* No workbook has a snapshot before the parser is through.
ManualFirst ==
    worker.pc # "finished" => \A i \in DOMAIN snap : snap[i].source = Manual

ProvInv == TxInv /\ ManualFirst /\ Provenance

LEMMA NextManualFirst ==
    Typed /\ ReviewWaitsForParse /\ TxInv /\ ManualFirst /\ [Next]_vars => ManualFirst'
<1> SUFFICES ASSUME Typed, ReviewWaitsForParse, TxInv, ManualFirst, [Next]_vars,
                    worker'.pc # "finished"
             PROVE  \A i \in DOMAIN snap' : snap'[i].source = Manual
  BY DEF ManualFirst
<1>1. worker.pc # "finished"
  BY WorkerSteadies
     DEF Working, CreateBatch, UploadFile, UploadRefused, InsertPlaceholder, ListForParsing,
         ParseItem, MarkParsed, MarkParseError, FinishParsing, WorkerDies
<1>2. CASE UNCHANGED snap
  BY <1>1, <1>2 DEF ManualFirst
<1>3. ASSUME NEW k \in Committers PROVE ~CommitWrite(k)
  BY <1>1 DEF CommitWrite, ReviewWaitsForParse, Idle
<1>4. ASSUME NEW u \in Valuers, Store!Write(u)
      PROVE  \A i \in DOMAIN snap' : snap'[i].source = Manual
  <2>1. tx[u].source = Manual
    BY <1>4 DEF TxInv, Store!Write, Idle
  <2> QED
    BY <1>1, <1>4, <2>1, SnapshotWritten DEF ManualFirst, Typed
<1> QED
  BY <1>2, <1>3, <1>4, SnapSteps

\* A step that writes no snapshot leaves an item's as it is, and does not say
\* "committed" of it.
LEMMA ItemsOfOldSnapshots ==
    ASSUME Typed, [Next]_vars, ~InsertPlaceholder, \A k \in Committers : ~CommitWrite(k),
           NEW f \in Rows
    PROVE  /\ item'[f].snapshot = item[f].snapshot
           /\ item'[f].resolution = "committed" => item[f].resolution = "committed"
<1>1. item[f] \in Item
  BY RowIsItem DEF Typed, TypeOK
<1>2. ASSUME item'[f] = ParsedItem(item[f])
      PROVE  item'[f].snapshot = item[f].snapshot /\ item'[f].resolution # "committed"
  BY <1>1, <1>2 DEF ParsedItem, Item
<1>3. ASSUME NEW v, item'[f] = FailedItem(item[f], v)
      PROVE  /\ item'[f].snapshot = item[f].snapshot
             /\ item'[f].resolution = item[f].resolution
  BY <1>1, <1>3 DEF FailedItem, Item
<1>4. ASSUME NEW r \in Reviewers, PatchWrite(r), item'[f] = PatchedItem(item[f], patch[r].body)
      PROVE  item'[f].snapshot = item[f].snapshot /\ item'[f].resolution # "committed"
  <2>1. patch[r].body \in PatchBody
    BY <1>4 DEF PatchWrite, Typed, TypeOK, BatchTypeOK, Loaded, Idle
  <2> QED
    BY <1>1, <1>4, <2>1 DEF PatchedItem, PatchBody, Item
<1> QED
  BY <1>2, <1>3, <1>4, ItemKept

LEMMA NextProvenance ==
    Typed /\ ReviewWaitsForParse /\ ProvInv /\ [Next]_vars => Provenance'
<1> SUFFICES ASSUME Typed, ReviewWaitsForParse, ProvInv, [Next]_vars PROVE Provenance'
  OBVIOUS
<1> USE DEF ProvInv
<1>1. item \in [Files -> Item \cup {None}]
  BY DEF Typed, TypeOK, BatchTypeOK
<1>2. CASE InsertPlaceholder
  <2>1. worker.file \in Files /\ UNCHANGED snap
    BY <1>2 DEF InsertPlaceholder, Typed, RowsInv, storeVars
  <2>2. item' = [item EXCEPT ![worker.file] = Placeholder(worker.path)]
    BY <1>2 DEF InsertPlaceholder
  <2>3. item'[worker.file].snapshot = 0 /\ item'[worker.file].resolution = "pending"
    BY <1>1, <2>1, <2>2 DEF Placeholder
  <2>4. \A f \in Rows' \ {worker.file} : f \in Rows /\ item'[f] = item[f]
    BY <1>1, <2>1, <2>2 DEF Rows
  <2>5. \A i \in DOMAIN snap : snap[i].source = Manual
    BY <1>2 DEF InsertPlaceholder, ManualFirst
  <2> QED
    BY <2>1, <2>3, <2>4, <2>5 DEF Provenance
<1>3. CASE UNCHANGED snap /\ ~InsertPlaceholder /\ \A k \in Committers : ~CommitWrite(k)
  <2>1. Rows' = Rows
    BY <1>3, RowsStay
  <2>2. \A f \in Rows : /\ item'[f].snapshot = item[f].snapshot
                        /\ item'[f].resolution = "committed" => item[f].resolution = "committed"
    BY <1>3, ItemsOfOldSnapshots
  <2> QED
    BY <1>3, <2>1, <2>2 DEF Provenance
<1>4. ASSUME NEW k \in Committers, CommitWrite(k) PROVE Provenance'
  <2> DEFINE f == commit[k].file
  <2>1. f \in Rows /\ f \in Files /\ item[f] \in Item /\ tx[k].source = f
    BY <1>4, RowIsItem DEF CommitWrite, Typed, TypeOK, RowsInv, TxInv
  <2>2. item' = [item EXCEPT ![f] = CommittedItem(item[f])]
    BY <1>4 DEF CommitWrite
  <2>3. Rows' = Rows
    <3>1. worker.pc = "finished"
      BY <1>4 DEF CommitWrite, ReviewWaitsForParse, Idle
    <3> QED
      BY <3>1, RowsStay DEF InsertPlaceholder
  <2>4. /\ Len(snap) \in Nat
        /\ DOMAIN snap = 1..Len(snap)
        /\ DOMAIN snap' = 1..(Len(snap) + 1)
        /\ \A i \in DOMAIN snap : snap'[i].source = snap[i].source
        /\ snap'[Len(snap) + 1].source = f
    BY <1>4, <2>1, SnapshotWritten DEF CommitWrite, Typed
  <2>5. item'[f].snapshot = Len(snap) + 1
    BY <1>1, <2>1, <2>2 DEF CommittedItem, Item
  <2>6. \A g \in Rows \ {f} : item'[g] = item[g]
    BY <1>1, <2>2 DEF Rows
  <2> QED
    BY <2>1, <2>3, <2>4, <2>5, <2>6 DEF Provenance
<1>5. ASSUME NEW u \in Valuers, Store!Write(u), UNCHANGED batchVars PROVE Provenance'
  <2>1. tx[u].source = Manual
    BY <1>5 DEF TxInv, Store!Write, Idle
  <2>2. UNCHANGED item /\ Rows' = Rows
    BY <1>5 DEF batchVars, Rows
  <2> QED
    BY <1>5, <2>1, <2>2, SnapshotWritten DEF Provenance, Typed
<1> QED
  BY <1>2, <1>3, <1>4, <1>5, SnapSteps

LEMMA PipelineProvInv == Spec => [](Typed /\ ProvInv)
<1>1. Init => ProvInv
  BY DEF Init, Store!Init, Store!Idle, ProvInv, TxInv, ManualFirst, Provenance, Idle, Rows
<1> QED
  BY <1>1, PipelineWaits, NextTxInv, NextManualFirst, NextProvenance, PTL DEF Spec, ProvInv

\* Every snapshot of a workbook is known to the item it was made from.
THEOREM PipelineProvenance == Spec => []Provenance
<1>1. ProvInv => Provenance
  BY DEF ProvInv
<1> QED
  BY <1>1, PipelineProvInv, PTL

\* What a commit has yet to go through it has not published.
CopiesInv ==
    \A k \in Committers, f \in Files :
        commit[k].pc \in {"looping", "writing"} /\ commit[k].seen[f] # None =>
            \A i \in DOMAIN snap : ~(snap[i].source = f /\ snap[i].by = k)

LEMMA NextCopiesInv == Typed /\ ProvInv /\ CopiesInv /\ [Next]_vars => CopiesInv'
<1> SUFFICES ASSUME Typed, ProvInv, CopiesInv, [Next]_vars, NEW k \in Committers,
                    NEW f \in Files, commit'[k].pc \in {"looping", "writing"},
                    commit'[k].seen[f] # None, NEW i \in DOMAIN snap',
                    snap'[i].source = f, snap'[i].by = k
             PROVE  FALSE
  BY DEF CopiesInv
<1> USE DEF ProvInv
<1>1. f # Manual
  BY ImportAssumption
<1>2. CASE CommitList(k)
  <2>1. UNCHANGED snap /\ Committable(item[f])
    BY <1>2, CopiesKept DEF CommitList, storeVars, CommitWrite
  <2>2. item[f].snapshot >= i /\ i \in Nat \ {0}
    BY <1>1, <2>1 DEF Provenance, Typed, TypeOK, Store!TypeOK
  <2> QED
    BY <2>1, <2>2 DEF Committable
<1>3. CASE ~CommitList(k)
  <2>1. /\ commit[k].pc \in {"looping", "writing"} /\ commit[k].seen[f] # None
        /\ ~(CommitWrite(k) /\ f = commit[k].file)
    BY <1>3, CopiesKept
  <2>2. \A n \in DOMAIN snap : ~(snap[n].source = f /\ snap[n].by = k)
    BY <2>1 DEF CopiesInv
  <2>3. snap' # snap
    BY <2>2
  <2>4. ASSUME NEW j \in Committers, CommitWrite(j) PROVE FALSE
    <3>1. tx[j].source = commit[j].file
      BY <2>4 DEF CommitWrite, TxInv
    <3>2. /\ DOMAIN snap = 1..Len(snap)
          /\ DOMAIN snap' = 1..(Len(snap) + 1)
          /\ Len(snap) \in Nat
          /\ \A n \in DOMAIN snap : snap'[n].source = snap[n].source /\ snap'[n].by = snap[n].by
          /\ snap'[Len(snap) + 1].source = commit[j].file
          /\ snap'[Len(snap) + 1].by = j
      BY <2>4, <3>1, SnapshotWritten DEF CommitWrite, Typed
    <3>3. i \notin DOMAIN snap
      BY <2>2, <3>2
    <3>4. i = Len(snap) + 1
      BY <3>2, <3>3
    <3> QED
      BY <2>1, <2>4, <3>2, <3>4
  <2>5. ASSUME NEW u \in Valuers, Store!Write(u) PROVE FALSE
    <3>1. tx[u].source = Manual
      BY <2>5 DEF TxInv, Store!Write, Idle
    <3> QED
      BY <1>1, <2>2, <2>5, <3>1, SnapshotWritten DEF Typed
  <2> QED
    BY <2>3, <2>4, <2>5, SnapSteps
<1> QED
  BY <1>2, <1>3

LEMMA NextOneSnapshot ==
    Typed /\ ProvInv /\ CopiesInv /\ OneSnapshotPerCommitter /\ [Next]_vars
        => OneSnapshotPerCommitter'
<1> SUFFICES ASSUME Typed, ProvInv, CopiesInv, OneSnapshotPerCommitter, [Next]_vars
             PROVE  OneSnapshotPerCommitter'
  OBVIOUS
<1> USE DEF ProvInv
<1>1. CASE UNCHANGED snap
  BY <1>1 DEF OneSnapshotPerCommitter
<1>2. ASSUME NEW k \in Committers, CommitWrite(k) PROVE OneSnapshotPerCommitter'
  <2>1. /\ tx[k].source = commit[k].file
        /\ commit[k].seen[commit[k].file] # None
        /\ commit[k].file \in Files
    BY <1>2 DEF CommitWrite, TxInv, Typed, RowsInv, Rows
  <2>2. \A i \in DOMAIN snap : ~(snap[i].source = commit[k].file /\ snap[i].by = k)
    BY <1>2, <2>1 DEF CommitWrite, CopiesInv
  <2> QED
    BY <1>2, <2>1, <2>2, SnapshotWritten DEF CommitWrite, Typed, OneSnapshotPerCommitter
<1>3. ASSUME NEW u \in Valuers, Store!Write(u) PROVE OneSnapshotPerCommitter'
  <2>1. tx[u].source = Manual
    BY <1>3 DEF TxInv, Store!Write, Idle
  <2> QED
    BY <1>3, <2>1, SnapshotWritten DEF Typed, OneSnapshotPerCommitter
<1> QED
  BY <1>1, <1>2, <1>3, SnapSteps

\* A sequential committer never values a workbook twice.
THEOREM PipelineOneSnapshot == Spec => []OneSnapshotPerCommitter
<1>1. Init => CopiesInv /\ OneSnapshotPerCommitter
  BY DEF Init, Store!Init, CopiesInv, OneSnapshotPerCommitter
<1> QED
  BY <1>1, PipelineProvInv, NextCopiesInv, NextOneSnapshot, PTL DEF Spec

-----------------------------------------------------------------------------
(***************************************************************************)
(* When nobody cancels, the batch only advances, and keeps its sources.    *)
(***************************************************************************)

\* How far the batch is follows how far its worker is, and a commit closes it
\* before it removes the workbooks.
StatusInv ==
    /\ worker.pc = "none" => status = "none"
    /\ worker.pc = "finished" => status \in {"review", "committed"}
    /\ worker.pc \notin {"none", "finished"} => status = "parsing"
    /\ \A k \in Committers : commit[k].pc = "closed" => status = "committed"

\* The steps that change the status of a batch nobody cancels.
LEMMA StatusSteps ==
    ASSUME Cancellers = {}, [Next]_vars
    PROVE  \/ UNCHANGED status
           \/ CreateBatch
           \/ FinishParsing
           \/ \E k \in Committers : CommitClose(k)
BY DEF Next, Working, UploadFile, UploadRefused, InsertPlaceholder, ListForParsing, ParseItem,
       MarkParsed, MarkParseError, WorkerDies, Patching, PatchCheck, PatchLoad, PatchWrite,
       PatchFails, Committing, CommitCheck, CommitList, CommitItem, CommitItemFails,
       CommitSupersede, CommitWrite, CommitItemAborts, CommitTally, CommitCleanup,
       CommitFails, Valuing, Deleting, batchVars, vars

LEMMA NextStatusInv ==
    ASSUME Cancellers = {}
    PROVE  Typed /\ ReviewWaitsForParse /\ StatusInv /\ [Next]_vars => StatusInv'
<1> SUFFICES ASSUME Typed, ReviewWaitsForParse, StatusInv, [Next]_vars PROVE StatusInv'
  OBVIOUS
<1>1. /\ commit \in [Committers -> {Idle} \cup [pc : {"checked", "closing", "closed"}] \cup Loop]
      /\ worker \in [pc : {"none", "uploading", "inserting", "parsing", "matched",
                           "finished", "refused", "dead"},
                     todo : SUBSET Files, file : Files \cup {None}, path : Paths \cup {None},
                     inputs : Inputs \cup {None}, property : Properties \cup {None}]
  BY DEF Typed, TypeOK, BatchTypeOK
<1>2. CASE Working
  <2>1. worker.pc # "finished" /\ UNCHANGED commit
    BY <1>2 DEF Working, CreateBatch, UploadFile, UploadRefused, InsertPlaceholder,
         ListForParsing, ParseItem, MarkParsed, MarkParseError, FinishParsing, WorkerDies
  <2>2. \A k \in Committers : commit'[k].pc # "closed"
    BY <2>1 DEF ReviewWaitsForParse, Idle
  <2>3. CASE CreateBatch \/ FinishParsing
    BY <1>1, <2>2, <2>3 DEF CreateBatch, FinishParsing, StatusInv
  <2>4. CASE ~(CreateBatch \/ FinishParsing)
    <3>1. /\ UNCHANGED status
          /\ worker.pc \notin {"none", "finished"} /\ worker'.pc \notin {"none", "finished"}
      BY <1>1, <1>2, <2>4 DEF Working, UploadFile, UploadRefused, InsertPlaceholder,
           ListForParsing, ParseItem, MarkParsed, MarkParseError, WorkerDies, NoWork
    <3> QED
      BY <2>2, <3>1 DEF StatusInv
  <2> QED
    BY <2>3, <2>4
<1>3. CASE UNCHANGED <<worker, commit, status>>
  BY <1>3 DEF StatusInv
<1>4. ASSUME NEW k \in Committers, Committing(k) PROVE StatusInv'
  <2>1. UNCHANGED worker /\ \A j \in Committers \ {k} : commit'[j] = commit[j]
    BY <1>4, CommitsApart
       DEF Committing, CommitCheck, CommitList, CommitItem, CommitItemFails,
           CommitSupersede, CommitWrite, CommitItemAborts, CommitTally, CommitClose,
           CommitCleanup, CommitFails, batchVars
  <2>2. CASE CommitClose(k)
    <3>1. worker.pc = "finished"
      BY <2>2 DEF CommitClose, ReviewWaitsForParse, Idle
    <3> QED
      BY <2>1, <2>2, <3>1 DEF CommitClose, StatusInv
  <2>3. CASE ~CommitClose(k)
    <3>1. UNCHANGED status
      BY <1>4, <2>3
         DEF Committing, CommitCheck, CommitList, CommitItem, CommitItemFails,
             CommitSupersede, CommitWrite, CommitItemAborts, CommitTally, CommitCleanup,
             CommitFails, batchVars
    <3>2. commit'[k].pc = "closed" => commit[k].pc = "closed"
      <4>1. commit[k] \in Loop => \A f : Without(commit[k], f).pc = "looping"
        BY DEF Without, Loop
      <4>2. commit[k].pc \in {"looping", "writing"} => commit[k] \in Loop
        BY <1>1 DEF Idle
      <4> QED
        BY <1>1, <1>4, <2>3, <4>1, <4>2
           DEF Committing, CommitCheck, CommitList, CommitItem, CommitItemFails,
               CommitSupersede, CommitWrite, CommitItemAborts, CommitTally, CommitCleanup,
               CommitFails, batchVars, Loop, Idle
    <3> QED
      BY <2>1, <3>1, <3>2 DEF StatusInv
  <2> QED
    BY <2>2, <2>3
<1> QED
  BY <1>2, <1>3, <1>4
     DEF Next, Patching, PatchCheck, PatchLoad, PatchWrite, PatchFails, Valuing, Deleting,
         batchVars, vars

\* The status of a batch that nobody cancels goes forward only.
THEOREM PipelineBatchAdvances == ASSUME Cancellers = {} PROVE Spec => BatchAdvances
<1>1. Init => StatusInv
  BY DEF Init, StatusInv, NoWork, Idle
<1>2. Typed /\ ReviewWaitsForParse /\ StatusInv /\ [Next]_vars => StatusInv'
  BY NextStatusInv
<1>3. Typed /\ ReviewWaitsForParse /\ StatusInv /\ [Next]_vars =>
        [\/ status = "none" /\ status' = "parsing"
         \/ status = "parsing" /\ status' = "review"
         \/ status = "review" /\ status' = "committed"]_status
  <2> SUFFICES ASSUME Typed, ReviewWaitsForParse, StatusInv, [Next]_vars, status' # status
               PROVE  \/ status = "none" /\ status' = "parsing"
                      \/ status = "parsing" /\ status' = "review"
                      \/ status = "review" /\ status' = "committed"
    OBVIOUS
  <2>1. CASE CreateBatch
    BY <2>1 DEF CreateBatch, StatusInv
  <2>2. CASE FinishParsing
    BY <2>2 DEF FinishParsing, StatusInv
  <2>3. ASSUME NEW k \in Committers, CommitClose(k)
        PROVE  status = "review" /\ status' = "committed"
    <3>1. worker.pc = "finished"
      BY <2>3 DEF CommitClose, ReviewWaitsForParse, Idle
    <3> QED
      BY <2>3, <3>1 DEF CommitClose, StatusInv
  <2> QED
    BY <2>1, <2>2, <2>3, StatusSteps
<1> QED
  BY <1>1, <1>2, <1>3, PipelineWaits, PTL DEF Spec, BatchAdvances

\* A workbook is stored under a path of its own before it gets its row, and is
\* not removed before the batch is committed.
SourcesInv ==
    /\ SourcesUntilCommitted
    /\ worker.pc = "none" => Rows = {}
    /\ worker.pc \in {"uploading", "inserting"} => Rows \cap worker.todo = {}
    /\ worker.pc = "inserting" =>
          /\ worker.file \in worker.todo
          /\ worker.path \in files
          /\ \A f \in Rows : item[f].path # worker.path

LEMMA PathsKept ==
    ASSUME Typed, [Next]_vars, ~InsertPlaceholder, NEW f \in Rows
    PROVE  item'[f].path = item[f].path
<1>1. item[f] \in Item
  BY ItemKept
<1>2. /\ ParsedItem(item[f]).path = item[f].path
      /\ CommittedItem(item[f]).path = item[f].path
  BY <1>1 DEF ParsedItem, CommittedItem, Item
<1>3. \A v : FailedItem(item[f], v).path = item[f].path
  BY <1>1 DEF FailedItem, Item
<1>4. \A b : PatchedItem(item[f], b).path = item[f].path
  BY <1>1 DEF PatchedItem, Item
<1> QED
  BY <1>2, <1>3, <1>4, ItemKept

\* The steps that change what is stored for a batch nobody cancels.
LEMMA FileSteps ==
    ASSUME Cancellers = {}, [Next]_vars
    PROVE  \/ UNCHANGED files
           \/ \E f \in Files : UploadFile(f)
           \/ \E k \in Committers : CommitCleanup(k)
BY DEF Next, Working, CreateBatch, UploadRefused, InsertPlaceholder, ListForParsing, ParseItem,
       MarkParsed, MarkParseError, FinishParsing, WorkerDies, Patching, PatchCheck, PatchLoad,
       PatchWrite, PatchFails, Committing, CommitCheck, CommitList, CommitItem,
       CommitItemFails, CommitSupersede, CommitWrite, CommitItemAborts, CommitTally,
       CommitClose, CommitFails, Valuing, Deleting, batchVars, vars

LEMMA NextSourcesInv ==
    ASSUME Cancellers = {}
    PROVE  Typed /\ ReviewWaitsForParse /\ StatusInv /\ SourcesInv /\ [Next]_vars => SourcesInv'
<1> SUFFICES ASSUME Typed, ReviewWaitsForParse, StatusInv, SourcesInv, [Next]_vars
             PROVE  SourcesInv'
  OBVIOUS
<1> USE DEF SourcesInv, SourcesUntilCommitted, SourceAvailable
<1>1. /\ item \in [Files -> Item \cup {None}]
      /\ worker \in [pc : {"none", "uploading", "inserting", "parsing", "matched",
                           "finished", "refused", "dead"},
                     todo : SUBSET Files, file : Files \cup {None}, path : Paths \cup {None},
                     inputs : Inputs \cup {None}, property : Properties \cup {None}]
  BY DEF Typed, TypeOK, BatchTypeOK
<1>2. CASE InsertPlaceholder
  <2>1. worker.file \in Files /\ item' = [item EXCEPT ![worker.file] = Placeholder(worker.path)]
    BY <1>2 DEF InsertPlaceholder, Typed, RowsInv
  <2>2. item'[worker.file].path = worker.path
    BY <1>1, <2>1 DEF Placeholder
  <2>3. \A f \in Rows' \ {worker.file} : f \in Rows /\ item'[f] = item[f]
    BY <1>1, <2>1 DEF Rows
  <2>4. worker'.pc = "uploading" /\ worker'.todo = worker.todo \ {worker.file}
    BY <1>1, <1>2 DEF InsertPlaceholder
  <2>5. UNCHANGED <<files, status>> /\ status = "parsing" /\ worker.pc = "inserting"
    BY <1>2 DEF InsertPlaceholder, StatusInv
  <2> QED
    BY <2>2, <2>3, <2>4, <2>5
<1>3. CASE ~InsertPlaceholder
  <2>1. Rows' = Rows /\ \A f \in Rows : item'[f].path = item[f].path
    BY <1>3, RowsStay, PathsKept
  <2>2. ASSUME NEW f \in Files, UploadFile(f) PROVE SourcesInv'
    <3>1. worker.pc = "uploading" /\ f \in worker.todo /\ Stored(f) \notin files
      BY <2>2 DEF UploadFile
    <3>2. /\ files' = files \cup {Stored(f)}
          /\ worker'.pc = "inserting" /\ worker'.file = f /\ worker'.path = Stored(f)
          /\ worker'.todo = worker.todo
          /\ UNCHANGED status
      BY <1>1, <2>2 DEF UploadFile
    <3>3. \A g \in Rows : item[g].path \in files
      BY <3>1 DEF StatusInv
    <3> HIDE DEF StatusInv
    <3> QED
      BY <2>1, <3>1, <3>2, <3>3
  <2>3. ASSUME NEW k \in Committers, CommitCleanup(k) PROVE SourcesInv'
    <3>1. status' = "committed" /\ UNCHANGED worker
      BY <2>3 DEF CommitCleanup, StatusInv
    <3>2. worker.pc = "finished"
      BY <2>3 DEF CommitCleanup, ReviewWaitsForParse, Idle
    <3> QED
      BY <2>1, <3>1, <3>2
  <2>4. CASE UNCHANGED files /\ ~\E f \in Files : UploadFile(f)
    <3>1. status' # "committed" => status # "committed"
      BY StatusSteps DEF CreateBatch, FinishParsing, CommitClose, StatusInv
    <3>2. /\ worker'.pc \in {"uploading", "inserting"} =>
                worker.pc = worker'.pc \/ CreateBatch
          /\ worker'.pc \in {"uploading", "inserting"} /\ worker.pc = worker'.pc =>
                UNCHANGED worker
          /\ worker'.pc = "none" => worker.pc = "none"
      BY <1>1, <1>3, <2>4, WorkerSteadies
         DEF Working, CreateBatch, UploadRefused, ListForParsing, ParseItem, MarkParsed,
             MarkParseError, FinishParsing, WorkerDies, NoWork
    <3>3. CASE CreateBatch
      <4>1. worker'.pc = "uploading" /\ Rows = {}
        BY <1>1, <3>3 DEF CreateBatch
      <4> QED
        BY <2>1, <3>3, <4>1
    <3> QED
      BY <2>1, <2>4, <3>1, <3>2, <3>3
  <2> QED
    BY <2>2, <2>3, <2>4, FileSteps
<1> QED
  BY <1>2, <1>3

\* Every item of a batch nobody cancels has a workbook of its own to look at,
\* until the batch is committed.
THEOREM PipelineSources ==
    ASSUME Cancellers = {} PROVE Spec => []SourcesUntilCommitted
<1>1. Init => StatusInv /\ SourcesInv
  BY DEF Init, StatusInv, SourcesInv, SourcesUntilCommitted, NoWork, Idle, Rows
<1>2. Typed /\ ReviewWaitsForParse /\ StatusInv /\ [Next]_vars => StatusInv'
  BY NextStatusInv
<1>3. Typed /\ ReviewWaitsForParse /\ StatusInv /\ SourcesInv /\ [Next]_vars => SourcesInv'
  BY NextSourcesInv
<1>4. SourcesInv => SourcesUntilCommitted
  BY DEF SourcesInv
<1> QED
  BY <1>1, <1>2, <1>3, <1>4, PipelineWaits, PTL DEF Spec

=============================================================================
